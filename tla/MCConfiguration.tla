-------------------------- MODULE MCConfiguration ---------------------------
(***************************************************************************)
(* Instances for TLC of two algorithms on what is configured or typed:      *)
(* JumpHosts and ShellQuote.  A behaviour is one of one of them; the other  *)
(* does not move in it, nor does the file of the inventory.                 *)
(***************************************************************************)
EXTENDS Configuration, TLC

CONSTANTS a1, a2, a3, e1

VARIABLE algorithm         \* the one that moves

Symmetry == Permutations({a1, a2, a3})

-----------------------------------------------------------------------------

AnyInit ==
    /\ algorithm \in {"resolve", "quote"} /\ Jumps!Init /\ Quoting!Init
    /\ Init /\ file = Content(Empty)

Resolving == algorithm = "resolve" /\ Jumps!Next /\ UNCHANGED text
Typing == algorithm = "quote" /\ Quoting!Types /\ UNCHANGED via

AnySpec ==
    /\ AnyInit
    /\ [][(Resolving \/ Typing) /\ UNCHANGED <<algorithm, vars>>]_<<algorithm, via, text, vars>>
=============================================================================

---------------------------- MODULE MCMultiExec -----------------------------
(* Instances of MultiExec for TLC. *)
EXTENDS MultiExec

CONSTANTS a1, a2, j1, web, db, k1

At(t) == [at |-> TRUE, tag |-> t]
Bare(t) == [at |-> FALSE, tag |-> t]

\* One host, both, or none of them.
SomeOrAll == {<<At(web)>>, <<At(web), Bare("all")>>, <<At(db)>>}

OneIsWeb == {[a \in Aliases |-> IF a = a1 THEN {web} ELSE {}]}
=============================================================================

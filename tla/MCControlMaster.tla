--------------------------- MODULE MCControlMaster ---------------------------
(* Instances of ControlMaster for TLC. *)
EXTENDS ControlMaster, TLC

CONSTANTS c1, c2, c3, s1, j1

Symmetry == Permutations(Calls)

Direct == [server |-> s1, via |-> "direct", auth |-> "agent"]
Jumping == [server |-> s1, via |-> j1, auth |-> "agent"]

Routes == {Direct, Jumping}
=============================================================================

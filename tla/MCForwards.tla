----------------------------- MODULE MCForwards -----------------------------
(* Instances of Forwards for TLC. *)
EXTENDS Forwards

CONSTANTS f1, f2, c1, c2
=============================================================================

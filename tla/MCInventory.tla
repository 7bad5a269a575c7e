---------------------------- MODULE MCInventory -----------------------------
(* Instances of Inventory for TLC. *)
EXTENDS Inventory, TLC

CONSTANTS a1, a2, h1, h2, e1, e2, s1

EditorSymmetry == Permutations({e1, e2})
=============================================================================

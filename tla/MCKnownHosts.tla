---------------------------- MODULE MCKnownHosts ----------------------------
(* Instances of KnownHosts for TLC. *)
EXTENDS KnownHosts, TLC

CONSTANTS c1, c2, h1, k1, k2

Symmetry == Permutations({c1, c2}) \cup Permutations({k1, k2})
=============================================================================

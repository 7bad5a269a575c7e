------------------------------- MODULE MCJobs -------------------------------
(* Instances of Jobs for TLC. *)
EXTENDS Jobs

CONSTANTS c1, c2, j1
=============================================================================

---------------------------- MODULE MCContainers ----------------------------
(* Two jobs, which may be prepared, run and closed in any order.             *)
EXTENDS Containers, TLC

CONSTANTS j1, j2

Symmetry == Permutations(Job)
=============================================================================

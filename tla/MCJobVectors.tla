---------------------------- MODULE MCJobVectors ----------------------------
(* Instances of JobVectors for TLC. *)
EXTENDS JobVectors, TLC

MCPid == 2 .. 4
MCNoPid == -1
JobSymmetry == Permutations(Job)
=============================================================================

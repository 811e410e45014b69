---------------------------- MODULE MCJobControl ----------------------------
(* Instances of JobControl for TLC. *)
EXTENDS JobControlProperties, TLC

MCPid2 == 2 .. 3
MCNoPid == -1

MCAll == Operation
\* Two jobs at once under job control, pipelines among them, and `wait' for their ids and pids.
MCTwo == {"async", "detach", "fg", "stop", "waitIds"}
\* Children that end and are waited for.
MCLive == {"exec", "async", "wait"}

JobSymmetry == Permutations(Job)
=============================================================================

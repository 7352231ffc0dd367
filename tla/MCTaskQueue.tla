---------------------------- MODULE MCTaskQueue ----------------------------
(* Instances of TaskQueue for TLC.  No symmetry: a run checks liveness. *)
EXTENDS TaskQueue
=============================================================================

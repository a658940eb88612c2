---------------------------- MODULE MCTaskQueue ----------------------------
(* TaskQueue on a small instance; the cfgs give the constants. *)
EXTENDS TaskQueue
=============================================================================

---------------------------- MODULE MCThreadPool ----------------------------
(* ThreadPool on small instances; the cfgs give the constants. *)
EXTENDS ThreadPool
=============================================================================

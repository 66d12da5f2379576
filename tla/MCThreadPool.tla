---------------------------- MODULE MCThreadPool ----------------------------
(* ThreadPool on a small instance; the values are in the two cfg files. *)
EXTENDS ThreadPool
=============================================================================

---------------------------- MODULE MCConnection ----------------------------
(* Connection on small instances; the values are in the cfg files. *)
EXTENDS Connection
=============================================================================

------------------------------- MODULE MCUdpMux ------------------------------
(***************************************************************************)
(* Three threads create peer sockets for two remote addresses.             *)
(***************************************************************************)
EXTENDS UdpMux
=============================================================================

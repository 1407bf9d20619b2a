-------------------------- MODULE MCSOEConnections --------------------------
(* The process with a few connections, for TLC. *)
EXTENDS SOEConnections
=============================================================================

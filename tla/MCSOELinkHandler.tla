-------------------------- MODULE MCSOELinkHandler --------------------------
(* The link handler with a few serial port objects, for TLC. NewSerialPort    *)
(* takes them one after the other, so no symmetry is left to reduce.          *)
EXTENDS SOELinkHandler
=============================================================================

-------------------------- MODULE MCSerialPortLin ---------------------------
(* The serial port with read timeouts of each kind: without limit, none, and  *)
(* one above the 25500 ms that still fit the byte the port stores.            *)
EXTENDS SerialPortLin

ReadTimeoutsMC == {-1, 0, 25700}
=============================================================================

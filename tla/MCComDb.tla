------------------------------ MODULE MCComDb ------------------------------
(* Three COM port numbers, enough for one to claim, one to release and a    *)
(* stranger at once.                                                        *)
EXTENDS ComDb
MCNum == 1..3
=============================================================================

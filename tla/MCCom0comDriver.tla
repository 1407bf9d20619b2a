-------------------------- MODULE MCCom0comDriver --------------------------
(* A bus with a port, a bus without, and an INF file of another package with *)
(* the class of com0com.                                                     *)
EXTENDS Com0comDriver
CONSTANTS b1, b2, p1, foreign
MCBus == {b1, b2}
MCPortDev == {p1}
MCBusOf == [p \in MCPortDev |-> b1]
MCClassOf == [p \in MCPortDev |-> "cncport"]
MCMatch == [f \in OtherInf |-> "class"]
=============================================================================

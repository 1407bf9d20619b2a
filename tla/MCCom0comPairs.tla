--------------------------- MODULE MCCom0comPairs ---------------------------
(* Two pairs that may ask for the same names, and two COM numbers.           *)
EXTENDS Com0comPairs
MCPair == {0, 1}
MCNum == {1, 2}
(* CNCA0 may be named by the Ports class, COM1 is asked for three ports.   *)
MCAsked == [p \in Port |-> CASE p = <<0, "A">> -> {1, ComClass}
                             [] p = <<0, "B">> -> {Default, 1}
                             [] p = <<1, "A">> -> {1}
                             [] p = <<1, "B">> -> {Default}]
=============================================================================

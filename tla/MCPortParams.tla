---------------------------- MODULE MCPortParams ----------------------------
(* Parameters of each kind the parser and the registry tell apart.           *)
EXTENDS PortParams
MCPar == <<"PortName", "EmuBR", "cts", "ri", "EmuNoise", "AddRTTO">>
MCType == [p \in Pars |-> CASE p = "PortName" -> "name" [] p = "EmuBR" -> "flag"
                            [] p \in {"cts", "ri"} -> "pin"
                            [] p = "EmuNoise" -> "probability" [] p = "AddRTTO" -> "unsigned"]
(* rrts = 1, on = 11; one text of cts is no pin, one of EmuNoise too long,    *)
(* one of AddRTTO of 30 digits.                                              *)
MCPinDefault == [cts |-> 1, ri |-> 11 + PinNegative]
MCText == [p \in Pars |->
             CASE p = "PortName" -> {<<0>>, <<1>>}
               [] p = "EmuBR" -> {<<0>>, <<1>>}
               [] p = "cts" -> {<<0, 1>>, <<1, 2>>, <<0, 12>>}
               [] p = "ri" -> {<<1, 11>>}
               [] p = "EmuNoise" -> {<<>>, <<0, 5>>, <<5>>, <<5, 0, 0>>, <<1, 0, 5>>, <<0, 1, 2, 3>>}
               [] p = "AddRTTO" -> {<<0>>, <<1, 0>>, [i \in 1..30 |-> IF i = 29 THEN 1 ELSE 0]}]
MCNameLength == [p \in Pars |-> CASE p = "PortName" -> 8 [] p = "EmuBR" -> 5
                                  [] p = "cts" -> 3 [] p = "ri" -> 2
                                  [] p = "EmuNoise" -> 8 [] p = "AddRTTO" -> 7]
(* CNCA0 and COM3.                                                           *)
MCPortLength == [n \in 0..1 |-> IF n = 0 THEN 5 ELSE 4]
(* All of the 199, and what the longest items of the parameters that are not *)
(* in the instance leave of them.                                            *)
MCRoom == {46, 199}
=============================================================================

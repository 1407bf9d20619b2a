----------------------------- MODULE MCSOEFrames -----------------------------
(* The framing with a header of two bytes, payloads of one and two bytes, one *)
(* package longer than the receive buffer, and less room in the connection    *)
(* than a frame needs.                                                        *)
EXTENDS SOEFrames

Lengths == [p \in Packages |-> CASE p = "confirm" -> 1
                                 [] p = "data" -> 2
                                 [] p = "long" -> MaxPayload + 1]
=============================================================================

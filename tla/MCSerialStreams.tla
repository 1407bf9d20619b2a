--------------------------- MODULE MCSerialStreams ---------------------------
(* The streams with a few bytes, for TLC; one byte of the device is above 127. *)
EXTENDS SerialStreams

MCInData == <<1, 255, 2>>
MCOutData == <<1, 2, 3>>
=============================================================================

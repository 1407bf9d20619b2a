------------------------------ MODULE PortClaim ------------------------------
(* What a link promises the operating system about the serial device it       *)
(* serves: it claims the device through one serial port object at a time, and *)
(* the claim of one object is given back before another object is claimed.    *)
(* SOELinkHandler implements this specification.                              *)

CONSTANT PortObjects  \* the serial port objects a link can create

VARIABLE claims       \* the objects that hold the device open

Init == claims = {}

Claim(object) ==
    /\ claims = {}
    /\ claims' = {object}

Release ==
    /\ claims # {}
    /\ claims' = {}

Next == Release \/ \E object \in PortObjects : Claim(object)

Spec == Init /\ [][Next]_claims

(* No two objects ever hold the device at once. *)
Exclusive == \A a, b \in claims : a = b
=============================================================================

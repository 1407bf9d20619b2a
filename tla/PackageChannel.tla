--------------------------- MODULE PackageChannel ---------------------------
(* What the framing of a link promises to its two ends: the packages one end  *)
(* transmits are processed by the other end whole, each once, in the order of *)
(* their transmission. A connection may end at any time, with packages left.  *)
EXTENDS Sequences, Naturals

CONSTANT Packages    \* the packages the ends can transmit

VARIABLES sent,      \* the packages transmitted so far
          delivered  \* the packages processed so far

Init == sent = <<>> /\ delivered = <<>>

Send(package) ==
    /\ sent' = Append(sent, package)
    /\ UNCHANGED delivered

Deliver ==
    /\ Len(delivered) < Len(sent)
    /\ delivered' = Append(delivered, sent[Len(delivered) + 1])
    /\ UNCHANGED sent

Next == Deliver \/ \E package \in Packages : Send(package)

Spec == Init /\ [][Next]_<<sent, delivered>>
=============================================================================

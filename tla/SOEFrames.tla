------------------------------ MODULE SOEFrames ------------------------------
(* The framing of packages on one direction of a link: transmitPackage, which *)
(* the RX, TX and main thread of one end call, and the receive loop of        *)
(* handleClientRX at the other end (soelinkhandler.cpp).                      *)
(*                                                                            *)
(* A byte on the wire is <<f, p>>, byte p of frame f. The first HeaderLen     *)
(* bytes of a frame are its header, which carries the length of the payload;  *)
(* what a header means that is put together from other bytes is arbitrary.    *)
(* The identifier in the header has no effect: on a mismatch the code prints  *)
(* a message and leaves the loop over the identifier only.                    *)
EXTENDS Naturals, Sequences

CONSTANTS
    Senders,        \* the threads that transmit packages
    Packages,       \* the packages they transmit
    PayloadLen,     \* the length of each
    HeaderLen,      \* SOE_TCP_HEADER_LEN
    MaxPayload,     \* SOE_TCP_FRAME_MAX_LEN - SOE_TCP_HEADER_LEN
    Capacity,       \* bytes the connection holds before send() blocks
    MaxFrames       \* bound of the model: frames transmitted

Garbled == "garbled"     \* a package no sender transmitted

ASSUME FramesAssumption ==
    /\ PayloadLen \in [Packages -> Nat \ {0}]
    /\ HeaderLen \in Nat \ {0}
    /\ MaxPayload \in Nat \ {0}
    /\ Capacity \in Nat \ {0}
    /\ MaxFrames \in Nat
    /\ "free" \notin Senders
    /\ Garbled \notin Packages

VARIABLES
    sent,           \* the package of each frame, in the order of m_socketTX
    wire,           \* every byte that entered the connection
    m_socketTX,     \* the sender that holds this mutex, or "free"
    frame,          \* the frame a sender transmits, 0 if none
    put,            \* bytes of that frame it has passed to the connection
    taken,          \* bytes of wire the receiver has taken
    pcRx,           \* where the receiver is
    asked,          \* length argument of its receive() call
    got,            \* bytes that call has delivered
    packageFrame,   \* the receive buffer
    processed,      \* the packages given to processPackage
    whole,          \* how many were processed before the first short payload
    short,          \* history: receive() has returned a part of a payload
    stale,          \* buffers processed though their payload never came
    lost,           \* the connection is gone
    closed          \* the receiver's own socket was closed by shutdown()

sender   == <<sent, m_socketTX, frame>>
receiver == <<taken, pcRx, asked, got, packageFrame, processed, whole, short,
              stale>>
vars     == <<sender, wire, put, receiver, lost, closed>>

NoByte == <<0, 0>>
FrameLen(f) == HeaderLen + PayloadLen[sent[f]]

-----------------------------------------------------------------------------
Init ==
    /\ sent = <<>>
    /\ wire = <<>>
    /\ m_socketTX = "free"
    /\ frame = [s \in Senders |-> 0]
    /\ put = [s \in Senders |-> 0]
    /\ taken = 0
    /\ pcRx = "loop"
    /\ asked = 0
    /\ got = 0
    /\ packageFrame = [i \in 1..(HeaderLen + MaxPayload) |-> NoByte]
    /\ processed = <<>>
    /\ whole = 0
    /\ short = FALSE
    /\ stale = 0
    /\ lost = FALSE
    /\ closed = FALSE

-----------------------------------------------------------------------------
(* transmitPackage() *)

(* Mutant: the mutex is not taken. *)
TransmitUnlocked(s) ==
    /\ frame[s] = 0
    /\ Len(sent) < MaxFrames
    /\ \E package \in Packages : sent' = Append(sent, package)
    /\ frame' = [frame EXCEPT ![s] = Len(sent) + 1]
    /\ put' = [put EXCEPT ![s] = 0]
    /\ UNCHANGED <<wire, m_socketTX, receiver, lost, closed>>

(* The header is assembled and m_socketTX acquired. *)
Transmit(s) ==
    /\ frame[s] = 0
    /\ Len(sent) < MaxFrames
    /\ m_socketTX = "free"
    /\ m_socketTX' = s
    /\ \E package \in Packages : sent' = Append(sent, package)
    /\ frame' = [frame EXCEPT ![s] = Len(sent) + 1]
    /\ put' = [put EXCEPT ![s] = 0]
    /\ UNCHANGED <<wire, receiver, lost, closed>>

(* Mutant: a frame waits until the connection has room for all of it.         *)
SendWhole(s) ==
    /\ frame[s] # 0
    /\ put[s] < FrameLen(frame[s])
    /\ ~lost
    /\ Len(wire) - taken + FrameLen(frame[s]) - put[s] <= Capacity
    /\ wire' = Append(wire, <<frame[s], put[s] + 1>>)
    /\ put' = [put EXCEPT ![s] = put[s] + 1]
    /\ UNCHANGED <<sender, receiver, lost, closed>>

(* send() of the header, then of the payload: a byte enters the connection    *)
(* when there is room, so the receiver can take the start of a frame before   *)
(* its end is sent.                                                           *)
SendByte(s) ==
    /\ frame[s] # 0
    /\ put[s] < FrameLen(frame[s])
    /\ ~lost
    /\ Len(wire) - taken < Capacity
    /\ wire' = Append(wire, <<frame[s], put[s] + 1>>)
    /\ put' = [put EXCEPT ![s] = put[s] + 1]
    /\ UNCHANGED <<sender, receiver, lost, closed>>

(* Both sends succeeded, or one of them failed: the mutex is given back.      *)
TransmitReturns(s) ==
    /\ frame[s] # 0
    /\ put[s] = FrameLen(frame[s]) \/ lost
    /\ m_socketTX' = "free"
    /\ frame' = [frame EXCEPT ![s] = 0]
    /\ UNCHANGED <<sent, wire, put, receiver, lost, closed>>

TransmitPackage(s) == Transmit(s) \/ SendByte(s) \/ TransmitReturns(s)

-----------------------------------------------------------------------------
(* handleClientRX() *)

Offset == IF pcRx = "header" THEN 0 ELSE HeaderLen

(* receive(packageFrame, SOE_TCP_HEADER_LEN, &headerLen) *)
ReceiveHeader ==
    /\ pcRx = "loop"
    /\ \/ closed /\ pcRx' = "done" /\ UNCHANGED <<asked, got>>
       \/ ~closed /\ pcRx' = "header" /\ asked' = HeaderLen /\ got' = 0
    /\ UNCHANGED <<sender, wire, put, taken, packageFrame, processed, whole,
                   short, stale, lost, closed>>

(* A byte arrives in the buffer of the call. *)
TakeByte ==
    /\ pcRx \in {"header", "payload"}
    /\ got < asked
    /\ taken < Len(wire)
    /\ ~closed
    /\ packageFrame' = [packageFrame EXCEPT ![Offset + got + 1] = wire[taken + 1]]
    /\ taken' = taken + 1
    /\ got' = got + 1
    /\ UNCHANGED <<sender, wire, put, pcRx, asked, processed, whole, short,
                   stale, lost, closed>>

(* receive() returns what has arrived, or goes on waiting for more.           *)
Returned == got = asked \/ got > 0

(* The payload length a header stands for. *)
HeaderIsOf(f) == \A i \in 1..HeaderLen : packageFrame[i] = <<f, i>>
LengthsRead ==
    IF \E f \in 1..Len(sent) : HeaderIsOf(f)
    THEN {PayloadLen[sent[f]] : f \in {g \in 1..Len(sent) : HeaderIsOf(g)}}
    ELSE 0..(MaxPayload + 1)

(* Mutant: a header with an oversize payload is accepted. *)
HeaderUnbounded ==
    /\ pcRx = "header"
    /\ got = asked
    /\ pcRx' = "payload"
    /\ asked' \in LengthsRead
    /\ got' = 0
    /\ UNCHANGED <<sender, wire, put, taken, packageFrame, processed, whole,
                   short, stale, lost, closed>>

(* A short header and an oversize payload end the link. *)
HeaderReceived ==
    /\ pcRx = "header"
    /\ Returned
    /\ \E len \in LengthsRead :
         \/ /\ got = asked
            /\ len <= MaxPayload
            /\ pcRx' = "payload"
            /\ asked' = len
            /\ got' = 0
         \/ /\ got < asked \/ len > MaxPayload
            /\ pcRx' = "done"
            /\ UNCHANGED <<asked, got>>
    /\ UNCHANGED <<sender, wire, put, taken, packageFrame, processed, whole,
                   short, stale, lost, closed>>

(* The package processPackage finds in the buffer: it is given the payload and *)
(* its length, not the header.                                                *)
PayloadIsOf(f) ==
    /\ asked = PayloadLen[sent[f]]
    /\ \A i \in 1..asked : packageFrame[HeaderLen + i] = <<f, HeaderLen + i>>
PackageRead ==
    IF \E f \in 1..Len(sent) : PayloadIsOf(f)
    THEN sent[CHOOSE f \in 1..Len(sent) : PayloadIsOf(f)]
    ELSE Garbled

(* processPackage returns; its answer cannot be sent on a connection that is  *)
(* gone, which ends the link.                                                 *)
AfterProcess ==
    \/ pcRx' = "loop"
    \/ (lost \/ closed) /\ pcRx' = "done"

(* The payload is complete and processed; or it is not, and receive() is      *)
(* called with the same buffer position and the same length again.            *)
PayloadReceived ==
    /\ pcRx = "payload"
    /\ Returned
    /\ \/ /\ got = asked
          /\ processed' = Append(processed, PackageRead)
          /\ whole' = IF short THEN whole ELSE whole + 1
          /\ AfterProcess
          /\ UNCHANGED <<got, short>>
       \/ /\ got < asked
          /\ ~closed
          /\ got' = 0
          /\ short' = TRUE
          /\ UNCHANGED <<processed, whole, pcRx>>
    /\ UNCHANGED <<sender, wire, put, taken, asked, packageFrame, stale, lost,
                   closed>>

(* Mutant: the payload loop does not test isAlive(). *)
PayloadNeverAbandoned == FALSE

(* Mutant: the own socket is tested only when a payload was complete.         *)
PayloadAbandonedAgain ==
    /\ pcRx = "payload"
    /\ closed
    /\ got < asked
    /\ processed' = Append(processed, PackageRead)
    /\ stale' = stale + 1
    /\ UNCHANGED <<sender, wire, put, taken, pcRx, asked, got, packageFrame,
                   whole, short, lost, closed>>

(* receive() fails: at a header this ends the link; at a payload the loop     *)
(* ends when the own socket is closed, and what the buffer holds is processed.*)
HeaderFails ==
    /\ pcRx = "header"
    /\ closed \/ (lost /\ taken = Len(wire))
    /\ pcRx' = "done"
    /\ UNCHANGED <<sender, wire, put, taken, asked, got, packageFrame,
                   processed, whole, short, stale, lost, closed>>

PayloadAbandoned ==
    /\ pcRx = "payload"
    /\ closed
    /\ got < asked
    /\ processed' = Append(processed, PackageRead)
    /\ stale' = stale + 1
    /\ AfterProcess
    /\ UNCHANGED <<sender, wire, put, taken, asked, got, packageFrame, whole,
                   short, lost, closed>>

HandleClientRX ==
    \/ ReceiveHeader \/ TakeByte \/ HeaderReceived \/ PayloadReceived
    \/ HeaderFails \/ PayloadAbandoned

-----------------------------------------------------------------------------
(* The connection ends; another thread of the receiver calls shutdown().      *)

ConnectionLost ==
    /\ ~lost
    /\ lost' = TRUE
    /\ UNCHANGED <<sender, wire, put, receiver, closed>>

SocketClosed ==
    /\ ~closed
    /\ closed' = TRUE
    /\ UNCHANGED <<sender, wire, put, receiver, lost>>

Next ==
    \/ \E s \in Senders : TransmitPackage(s)
    \/ HandleClientRX \/ ConnectionLost \/ SocketClosed

Spec == Init /\ [][Next]_vars

(* A call in progress goes on; nobody has to transmit, and the connection may *)
(* last for ever.                                                             *)
FairSpec ==
    /\ Spec
    /\ WF_vars(HandleClientRX)
    /\ \A s \in Senders : WF_vars(SendByte(s) \/ TransmitReturns(s))
-----------------------------------------------------------------------------
(* Properties *)

(* Types of the variables; the wire and the buffer hold bytes of frames.      *)
TypeOK ==
    /\ sent \in Seq(Packages)
    /\ wire \in Seq(Nat \X Nat)
    /\ m_socketTX \in Senders \cup {"free"}
    /\ frame \in [Senders -> Nat]
    /\ put \in [Senders -> Nat]
    /\ taken \in 0..Len(wire)
    /\ pcRx \in {"loop", "header", "payload", "done"}
    /\ asked \in Nat
    /\ got \in 0..asked
    /\ packageFrame \in [1..(HeaderLen + MaxPayload) -> Nat \X Nat]
    /\ processed \in Seq(Packages \cup {Garbled})
    /\ whole \in 0..Len(processed)
    /\ short \in BOOLEAN
    /\ stale \in Nat
    /\ lost \in BOOLEAN
    /\ closed \in BOOLEAN

(* receive() is never given room past the end of packageFrame, whatever the   *)
(* bytes it takes for a header: the length is tested before it is used.       *)
BufferNotOverrun ==
    pcRx \in {"header", "payload"} => Offset + asked <= HeaderLen + MaxPayload

(* The test of isAlive() at the payload loop lets one buffer through after    *)
(* the socket was closed, and the one at the package loop stops the next:     *)
(* what is processed besides whole payloads is one package, the last.         *)
OneStalePackage ==
    /\ stale <= 1
    /\ ~short => Len(processed) = whole + stale

(* The bytes of a frame follow each other on the wire whatever thread sends,  *)
(* so the receiver processes whole packages in the order in which m_socketTX  *)
(* was acquired: all but the stale one (OneStalePackage) until receive()      *)
(* first returns a part of a payload. From there on the code does not follow  *)
(* the wire (PayloadIsWhole).                                                 *)
Channel == INSTANCE PackageChannel WITH delivered <- SubSeq(processed, 1, whole)
PackagesInOrder == Channel!Spec

(* A transmitted package is processed, unless the connection is lost, the     *)
(* receiver's socket is closed, the receiver gave the link up or it got only  *)
(* a part of a payload: with less room in the connection than a frame needs,  *)
(* sender and receiver still do not wait for each other.                      *)
PackagesDelivered ==
    \A n \in 1..MaxFrames :
        Len(sent) >= n ~> \/ whole >= n \/ short
                          \/ lost \/ closed \/ pcRx = "done"

(* The receive loop ends once its socket is closed. *)
ReceiverStops == closed ~> pcRx = "done"

(* The comment of soelinkhandler.cpp:215, "read remaining payload", on the    *)
(* loop that calls receive() until the payload is complete: nothing garbled   *)
(* is processed as long as the socket stays open.                             *)
PayloadIsWhole ==
    stale = 0 => \A i \in 1..Len(processed) : processed[i] # Garbled
=============================================================================

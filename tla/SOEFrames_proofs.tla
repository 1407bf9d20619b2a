--------------------------- MODULE SOEFrames_proofs ---------------------------
(* Proofs about SOEFrames, for every set of senders and packages, every       *)
(* length of header, payload and buffer and every capacity of the connection. *)
EXTENDS SOEFrames, SequenceTheorems, TLAPS


-----------------------------------------------------------------------------
(* Types *)

(* The frames transmitted so far have a length, and a payload.                *)
LEMMA FrameLength ==
    ASSUME TypeOK, NEW f \in 1..Len(sent)
    PROVE  /\ sent[f] \in Packages
           /\ PayloadLen[sent[f]] \in Nat \ {0}
           /\ FrameLen(f) = HeaderLen + PayloadLen[sent[f]]
           /\ FrameLen(f) \in Nat
           /\ FrameLen(f) > HeaderLen
<1>1. sent[f] \in Packages
  BY DEF TypeOK
<1>2. PayloadLen[sent[f]] \in Nat \ {0} /\ HeaderLen \in Nat
  BY <1>1, FramesAssumption
<1> QED
  BY <1>1, <1>2 DEF FrameLen

(* A header never stands for anything but a length.                           *)
LEMMA LengthsAreNumbers == TypeOK => LengthsRead \subseteq Nat
<1> SUFFICES ASSUME TypeOK PROVE LengthsRead \subseteq Nat
  OBVIOUS
<1>1. \A f \in 1..Len(sent) : PayloadLen[sent[f]] \in Nat
  BY FrameLength
<1>2. {PayloadLen[sent[f]] : f \in {g \in 1..Len(sent) : HeaderIsOf(g)}} \subseteq Nat
  BY <1>1
<1>3. 0..(MaxPayload + 1) \subseteq Nat
  BY FramesAssumption
<1> QED
  BY <1>2, <1>3 DEF LengthsRead

(* What processPackage is given is a transmitted package or a garbled one.    *)
LEMMA PackageReadType == TypeOK => PackageRead \in Packages \cup {Garbled}
<1> SUFFICES ASSUME TypeOK PROVE PackageRead \in Packages \cup {Garbled}
  OBVIOUS
<1>1. CASE \E f \in 1..Len(sent) : PayloadIsOf(f)
  <2>1. (CHOOSE f \in 1..Len(sent) : PayloadIsOf(f)) \in 1..Len(sent)
    BY <1>1
  <2>2. QED
    BY <1>1, <2>1, FrameLength DEF PackageRead
<1>2. CASE ~\E f \in 1..Len(sent) : PayloadIsOf(f)
  BY <1>2 DEF PackageRead
<1> QED
  BY <1>1, <1>2

LEMMA TypeInit == Init => TypeOK
<1> SUFFICES ASSUME Init PROVE TypeOK
  OBVIOUS
<1> USE FramesAssumption DEF Init
<1>1. sent \in Seq(Packages) /\ wire \in Seq(Nat \X Nat)
      /\ processed \in Seq(Packages \cup {Garbled})
      /\ whole \in 0..Len(processed)
  OBVIOUS
<1>2. frame \in [Senders -> Nat] /\ put \in [Senders -> Nat]
  OBVIOUS
<1>3. packageFrame \in [1..(HeaderLen + MaxPayload) -> Nat \X Nat]
  BY DEF NoByte
<1>4. lost \in BOOLEAN /\ closed \in BOOLEAN /\ short \in BOOLEAN
  BY Zenon
<1> QED
  BY <1>1, <1>2, <1>3, <1>4 DEF TypeOK

(* Type correctness is preserved by every step. *)
LEMMA TypeStep == TypeOK /\ [Next]_vars => TypeOK'
<1> SUFFICES ASSUME TypeOK, [Next]_vars PROVE TypeOK'
  OBVIOUS
<1> USE FramesAssumption DEF TypeOK, sender, receiver
<1>1. ASSUME NEW s \in Senders, Transmit(s) PROVE TypeOK'
  BY <1>1 DEF Transmit
<1>2. ASSUME NEW s \in Senders, SendByte(s) PROVE TypeOK'
  <2>1. wire' \in Seq(Nat \X Nat)
    BY <1>2 DEF SendByte
  <2>2. taken \in 0..Len(wire')
    BY <1>2 DEF SendByte
  <2>3. put' \in [Senders -> Nat]
    BY <1>2 DEF SendByte
  <2>4. QED
    BY <1>2, <2>1, <2>2, <2>3 DEF SendByte
<1>3. ASSUME NEW s \in Senders, TransmitReturns(s) PROVE TypeOK'
  BY <1>3 DEF TransmitReturns
<1>4. ASSUME ReceiveHeader PROVE TypeOK'
  <2>1. lost' \in BOOLEAN /\ closed' \in BOOLEAN /\ short' \in BOOLEAN
    BY <1>4, Zenon DEF ReceiveHeader
  <2>2. pcRx' \in {"done", "header"} /\ asked' \in Nat /\ got' \in 0..asked'
    <3>1. \/ pcRx' = "done" /\ UNCHANGED <<asked, got>>
          \/ pcRx' = "header" /\ asked' = HeaderLen /\ got' = 0
      BY <1>4 DEF ReceiveHeader
    <3>2. asked \in Nat /\ got \in 0..asked /\ HeaderLen \in Nat
      OBVIOUS
    <3>3. 0 \in 0..HeaderLen
      BY <3>2
    <3>4. QED
      BY <3>1, <3>2, <3>3
  <2>3. QED
    BY <1>4, <2>1, <2>2 DEF ReceiveHeader
<1>5. ASSUME TakeByte PROVE TypeOK'
  <2>1. wire[taken + 1] \in Nat \X Nat
    <3>1. taken + 1 \in 1..Len(wire)
      BY <1>5 DEF TakeByte
    <3>2. QED
      BY <3>1
  <2>2. packageFrame' \in [1..(HeaderLen + MaxPayload) -> Nat \X Nat]
    BY <1>5, <2>1 DEF TakeByte
  <2>3. taken' \in 0..Len(wire) /\ got' \in 0..asked
    BY <1>5 DEF TakeByte
  <2>4. QED
    BY <1>5, <2>2, <2>3 DEF TakeByte
<1>6. ASSUME HeaderReceived PROVE TypeOK'
  <2>1. PICK len \in LengthsRead :
          \/ pcRx' = "payload" /\ asked' = len /\ got' = 0
          \/ pcRx' = "done" /\ UNCHANGED <<asked, got>>
    BY <1>6 DEF HeaderReceived
  <2>2. len \in Nat
    BY LengthsAreNumbers
  <2>3. pcRx' \in {"payload", "done"} /\ asked' \in Nat /\ got' \in 0..asked'
    BY <2>1, <2>2
  <2>4. QED
    BY <1>6, <2>3 DEF HeaderReceived
<1>7. ASSUME PayloadReceived PROVE TypeOK'
  <2>1. PackageRead \in Packages \cup {Garbled}
    BY PackageReadType
  <2>2. /\ processed' \in Seq(Packages \cup {Garbled})
        /\ whole' \in 0..Len(processed')
    <3>1. /\ Append(processed, PackageRead) \in Seq(Packages \cup {Garbled})
          /\ Len(Append(processed, PackageRead)) = Len(processed) + 1
      BY <2>1, AppendProperties
    <3>2. \/ processed' = processed /\ whole' = whole
          \/ /\ processed' = Append(processed, PackageRead)
             /\ whole' \in {whole, whole + 1}
      BY <1>7 DEF PayloadReceived
    <3>3. processed \in Seq(Packages \cup {Garbled}) /\ whole \in 0..Len(processed)
      OBVIOUS
    <3>4. Len(processed) \in Nat /\ whole \in Nat /\ whole <= Len(processed)
      BY <3>3
    <3>5. CASE processed' = processed /\ whole' = whole
      BY <3>3, <3>5
    <3>6. CASE processed' = Append(processed, PackageRead)
               /\ whole' \in {whole, whole + 1}
      <4>1. /\ processed' \in Seq(Packages \cup {Garbled})
            /\ Len(processed') = Len(processed) + 1
        BY <3>1, <3>6
      <4>2. whole' \in 0..(Len(processed) + 1)
        BY <3>4, <3>6
      <4>3. QED
        BY <4>1, <4>2
    <3>7. QED
      BY <3>2, <3>5, <3>6
  <2>3. lost' \in BOOLEAN /\ closed' \in BOOLEAN /\ short' \in BOOLEAN
    BY <1>7, Zenon DEF PayloadReceived
  <2>4. pcRx' \in {"loop", "payload", "done"} /\ got' \in 0..asked
    BY <1>7 DEF PayloadReceived, AfterProcess
  <2>5. QED
    BY <1>7, <2>2, <2>3, <2>4 DEF PayloadReceived
<1>8. ASSUME HeaderFails PROVE TypeOK'
  BY <1>8 DEF HeaderFails
<1>9. ASSUME PayloadAbandoned PROVE TypeOK'
  <2>1. lost' \in BOOLEAN /\ closed' \in BOOLEAN /\ short' \in BOOLEAN
    BY <1>9, Zenon DEF PayloadAbandoned
  <2>2. pcRx' \in {"loop", "done"}
    BY <1>9 DEF PayloadAbandoned, AfterProcess
  <2>3. /\ processed' \in Seq(Packages \cup {Garbled})
        /\ Len(processed') = Len(processed) + 1
    BY <1>9, PackageReadType, AppendProperties DEF PayloadAbandoned
  <2>4. UNCHANGED <<sender, wire, put, taken, asked, got, packageFrame, whole>>
        /\ stale' = stale + 1
    BY <1>9 DEF PayloadAbandoned
  <2>5. whole' \in 0..Len(processed')
    <3>1. Len(processed) \in Nat /\ whole \in 0..Len(processed)
      OBVIOUS
    <3>2. QED
      BY <2>3, <2>4, <3>1
  <2>6. QED
    BY <2>1, <2>2, <2>3, <2>4, <2>5
<1>10. ASSUME ConnectionLost PROVE TypeOK'
  BY <1>10 DEF ConnectionLost
<1>11. ASSUME SocketClosed PROVE TypeOK'
  BY <1>11 DEF SocketClosed
<1>12. ASSUME UNCHANGED vars PROVE TypeOK'
  BY <1>12 DEF vars
<1> QED
  BY <1>1, <1>2, <1>3, <1>4, <1>5, <1>6, <1>7, <1>8, <1>9, <1>10, <1>11, <1>12
  DEF Next, TransmitPackage, HandleClientRX

(* The variables have their types in every state. *)
THEOREM TypeCorrect == Spec => []TypeOK
<1> QED
  BY TypeInit, TypeStep, PTL DEF Spec

-----------------------------------------------------------------------------
(* The receive buffer, and the buffer that is processed after the end.        *)

BufferInv ==
    /\ BufferNotOverrun
    /\ OneStalePackage
    /\ stale = 1 => closed /\ pcRx \in {"loop", "done"}

LEMMA BufferStep == TypeOK /\ BufferInv /\ [Next]_vars => BufferInv'
<1> SUFFICES ASSUME TypeOK, BufferInv, [Next]_vars PROVE BufferInv'
  OBVIOUS
<1> USE FramesAssumption DEF BufferInv, BufferNotOverrun, OneStalePackage,
        Offset, sender, receiver
<1> DEFINE n == Len(processed)
<1>0. /\ asked \in Nat /\ got \in Nat /\ whole \in Nat /\ stale \in Nat
      /\ n \in Nat
  BY DEF TypeOK
<1>01. ASSUME UNCHANGED <<processed, whole, short, stale>>
      PROVE  OneStalePackage'
  BY <1>01
<1>1. ASSUME NEW s \in Senders, TransmitPackage(s) PROVE BufferInv'
  BY <1>1 DEF TransmitPackage, Transmit, SendByte, TransmitReturns
<1>2. ASSUME ReceiveHeader PROVE BufferInv'
  BY <1>2 DEF ReceiveHeader
<1>3. ASSUME TakeByte PROVE BufferInv'
  BY <1>0, <1>3 DEF TakeByte
<1>4. ASSUME HeaderReceived PROVE BufferInv'
  <2>1. PICK len \in LengthsRead :
          \/ len <= MaxPayload /\ pcRx' = "payload" /\ asked' = len
          \/ pcRx' = "done"
    BY <1>4 DEF HeaderReceived
  <2>2. len \in Nat
    BY LengthsAreNumbers
  <2>3. stale # 1
    BY <1>4 DEF HeaderReceived
  <2>4. UNCHANGED <<processed, whole, short, stale>>
    BY <1>4 DEF HeaderReceived
  <2>5. BufferNotOverrun'
    BY <2>1, <2>2
  <2>6. QED
    BY <1>01, <2>3, <2>4, <2>5
<1>5. n' = n + 1 \/ processed' # Append(processed, PackageRead)
  BY PackageReadType, AppendProperties DEF TypeOK
<1> HIDE DEF n
<1>6. ASSUME PayloadReceived PROVE BufferInv'
  <2>1. stale = 0 /\ stale' = 0
    BY <1>0, <1>6 DEF PayloadReceived
  <2>2. CASE got = asked
    <3>1. /\ n' = n + 1
          /\ whole' = IF short THEN whole ELSE whole + 1
          /\ short' = short
          /\ pcRx' \in {"loop", "done"}
      BY <1>0, <1>5, <1>6, <2>2 DEF PayloadReceived, AfterProcess
    <3>2. ~short => n = whole
      BY <1>0, <2>1 DEF n
    <3>3. ~short' => n' = whole' + stale'
      BY <1>0, <2>1, <3>1, <3>2
    <3>4. QED
      BY <2>1, <3>1, <3>3 DEF n
  <2>3. CASE got # asked
    BY <1>6, <2>1, <2>3 DEF PayloadReceived
  <2>4. QED
    BY <2>2, <2>3
<1>7. ASSUME HeaderFails PROVE BufferInv'
  BY <1>7 DEF HeaderFails
<1>10. ASSUME PayloadAbandoned PROVE BufferInv'
  <2>1. stale = 0 /\ stale' = 1
    BY <1>0, <1>10 DEF PayloadAbandoned
  <2>2. n' = n + 1 /\ UNCHANGED <<whole, short, closed>> /\ closed
    BY <1>5, <1>10 DEF PayloadAbandoned
  <2>3. pcRx' \in {"loop", "done"}
    BY <1>10 DEF PayloadAbandoned, AfterProcess
  <2>4. ~short => n = whole
    BY <1>0, <2>1 DEF n
  <2>5. ~short' => n' = whole' + stale'
    BY <1>0, <2>1, <2>2, <2>4
  <2>6. QED
    BY <2>1, <2>2, <2>3, <2>5 DEF n
<1>8. ASSUME ConnectionLost \/ SocketClosed PROVE BufferInv'
  BY <1>8 DEF ConnectionLost, SocketClosed
<1>9. ASSUME UNCHANGED vars PROVE BufferInv'
  BY <1>9 DEF vars
<1> QED
  BY <1>1, <1>2, <1>3, <1>4, <1>6, <1>7, <1>8, <1>9, <1>10
  DEF Next, HandleClientRX

(* Whatever receive() returns and whatever it takes for a header, nothing is  *)
(* written past the end of the receive buffer.                                *)
THEOREM BufferIsKept == Spec => []BufferNotOverrun
<1>1. Init => BufferInv
  BY DEF Init, BufferInv, BufferNotOverrun, OneStalePackage
<1>2. BufferInv => BufferNotOverrun
  BY DEF BufferInv
<1> QED
  BY <1>1, <1>2, TypeInit, TypeStep, BufferStep, PTL DEF Spec

(* At most one buffer is processed whose payload did not come. *)
THEOREM OneStale == Spec => []OneStalePackage
<1>1. Init => BufferInv
  BY DEF Init, BufferInv, BufferNotOverrun, OneStalePackage
<1>2. BufferInv => OneStalePackage
  BY DEF BufferInv
<1> QED
  BY <1>1, <1>2, TypeInit, TypeStep, BufferStep, PTL DEF Spec

-----------------------------------------------------------------------------
(* The wire carries whole frames, one after the other.                        *)

(* The byte that follows another one, and the one due after the first k bytes *)
(* of the wire.                                                               *)
NextByte(b) ==
    IF b[2] < FrameLen(b[1]) THEN <<b[1], b[2] + 1>> ELSE <<b[1] + 1, 1>>
Due(k) == IF k = 0 THEN <<1, 1>> ELSE NextByte(wire[k])

WireInv ==
    \A i \in 1..Len(wire) :
        /\ wire[i][1] \in 1..Len(sent)
        /\ wire[i][2] \in 1..FrameLen(wire[i][1])
        /\ wire[i] = Due(i - 1)

(* The holder of m_socketTX, and nobody else, transmits a frame: the last     *)
(* one. The wire ends where the holder has got to, as long as the connection  *)
(* lasts; after it is lost nothing more is sent.                              *)
HolderInv(s) ==
    /\ frame[s] = Len(sent)
    /\ Len(sent) > 0
    /\ put[s] <= FrameLen(frame[s])
    /\ ~lost => Due(Len(wire)) = IF put[s] < FrameLen(frame[s])
                                 THEN <<frame[s], put[s] + 1>>
                                 ELSE <<Len(sent) + 1, 1>>

SenderInv ==
    /\ \A s \in Senders : m_socketTX # s => frame[s] = 0
    /\ \A s \in Senders : m_socketTX = s /\ frame[s] # 0 => HolderInv(s)
    /\ \A s \in Senders : m_socketTX = s => frame[s] # 0
    /\ m_socketTX = "free" /\ ~lost => Due(Len(wire)) = <<Len(sent) + 1, 1>>

(* A new frame leaves the lengths of the others, and so the wire, as it was.  *)
LEMMA NewFrame ==
    ASSUME TypeOK, WireInv, wire' = wire,
           sent' = sent \/ \E package \in Packages : sent' = Append(sent, package)
    PROVE  /\ \A f \in 1..Len(sent) : f \in 1..Len(sent') /\ sent'[f] = sent[f]
                                      /\ FrameLen(f)' = FrameLen(f)
           /\ \A k \in 0..Len(wire) : Due(k)' = Due(k)
           /\ WireInv'
<1>1. \A f \in 1..Len(sent) : f \in 1..Len(sent') /\ sent'[f] = sent[f]
  <2>1. CASE sent' = sent
    BY <2>1
  <2>2. CASE \E package \in Packages : sent' = Append(sent, package)
    <3>1. sent \in Seq(Packages) /\ Len(sent) \in Nat
      BY DEF TypeOK
    <3>2. Len(sent') = Len(sent) + 1
      BY <2>2, <3>1, AppendProperties
    <3>3. QED
      BY <2>2, <3>1, <3>2, AppendProperties
  <2>3. QED
    BY <2>1, <2>2
<1>2. \A f \in 1..Len(sent) : FrameLen(f)' = FrameLen(f)
  BY <1>1 DEF FrameLen
<1>3. ASSUME NEW k \in 0..Len(wire) PROVE Due(k)' = Due(k)
  <2>1. CASE k = 0
    BY <2>1 DEF Due
  <2>2. CASE k # 0
    <3>1. k \in 1..Len(wire)
      BY <2>2 DEF TypeOK
    <3>2. wire[k][1] \in 1..Len(sent)
      BY <3>1 DEF WireInv
    <3>3. FrameLen(wire[k][1])' = FrameLen(wire[k][1])
      BY <1>2, <3>2
    <3>4. QED
      BY <2>2, <3>3 DEF Due, NextByte
  <2>3. QED
    BY <2>1, <2>2
<1>4. WireInv'
  <2> SUFFICES ASSUME NEW i \in 1..Len(wire)
      PROVE  /\ wire[i][1] \in 1..Len(sent')
             /\ wire[i][2] \in 1..FrameLen(wire[i][1])'
             /\ wire[i] = Due(i - 1)'
    BY DEF WireInv
  <2>1. /\ wire[i][1] \in 1..Len(sent)
        /\ wire[i][2] \in 1..FrameLen(wire[i][1])
        /\ wire[i] = Due(i - 1)
    BY DEF WireInv
  <2>2. Due(i - 1)' = Due(i - 1)
    <3>1. i - 1 \in 0..Len(wire)
      BY DEF TypeOK
    <3>2. QED
      BY <1>3, <3>1
  <2>3. FrameLen(wire[i][1])' = FrameLen(wire[i][1])
    BY <1>2, <2>1
  <2>4. wire[i][1] \in 1..Len(sent')
    BY <1>1, <2>1
  <2>5. QED
    BY <2>1, <2>2, <2>3, <2>4
<1> QED
  BY <1>1, <1>2, <1>3, <1>4

(* Transmit: the wire is at the start of the new frame.                       *)
LEMMA TransmitStep ==
    ASSUME TypeOK, WireInv, SenderInv, NEW s \in Senders, Transmit(s)
    PROVE  WireInv' /\ SenderInv'
<1> USE FramesAssumption
<1>1. PICK package \in Packages : sent' = Append(sent, package)
  BY DEF Transmit
<1>2. /\ Len(sent') = Len(sent) + 1
      /\ Len(sent) \in Nat
      /\ sent'[Len(sent')] = package
  BY <1>1 DEF TypeOK
<1>3. wire' = wire /\ lost' = lost /\ m_socketTX = "free" /\ m_socketTX' = s
  BY DEF Transmit, receiver
<1>4. WireInv' /\ Due(Len(wire))' = Due(Len(wire))
  <2>1. Len(wire) \in 0..Len(wire)
    BY DEF TypeOK
  <2>2. QED
    BY <1>1, <1>3, <2>1, NewFrame
<1>5. /\ frame' = [frame EXCEPT ![s] = Len(sent')]
      /\ put' = [put EXCEPT ![s] = 0]
  BY <1>2 DEF Transmit
<1>6. \A t \in Senders : m_socketTX' # t => frame'[t] = 0
  BY <1>3, <1>5 DEF SenderInv, TypeOK
<1>7. frame'[s] = Len(sent') /\ put'[s] = 0
  BY <1>5 DEF TypeOK
<1>8. FrameLen(Len(sent))' = HeaderLen + PayloadLen[package]
  BY <1>2 DEF FrameLen
<1>9. HeaderLen + PayloadLen[package] \in Nat \ {0}
  OBVIOUS
<1>10. ~lost => Due(Len(wire))' = <<Len(sent'), 1>>
  BY <1>2, <1>3, <1>4 DEF SenderInv
<1>11. HolderInv(s)'
  BY <1>2, <1>3, <1>7, <1>8, <1>9, <1>10 DEF HolderInv
<1> QED
  BY <1>2, <1>3, <1>4, <1>6, <1>7, <1>11 DEF SenderInv

(* SendByte: the byte is the one due, and the next one is due after it.       *)
LEMMA SendByteStep ==
    ASSUME TypeOK, WireInv, SenderInv, NEW s \in Senders, SendByte(s)
    PROVE  WireInv' /\ SenderInv' /\ \A k \in 0..Len(wire) : Due(k)' = Due(k)
<1> USE FramesAssumption
<1> DEFINE b == <<frame[s], put[s] + 1>>
<1>1. /\ frame[s] # 0
      /\ put[s] < FrameLen(frame[s])
      /\ ~lost
      /\ wire' = Append(wire, b)
      /\ put' = [put EXCEPT ![s] = put[s] + 1]
      /\ UNCHANGED <<sent, m_socketTX, frame, lost>>
  BY DEF SendByte, sender
<1>2. m_socketTX = s /\ HolderInv(s)
  BY <1>1 DEF SenderInv
<1>3. /\ Len(sent) \in Nat
      /\ Len(wire) \in Nat
      /\ frame[s] \in 1..Len(sent)
      /\ frame[s] = Len(sent)
      /\ put[s] \in Nat
      /\ put'[s] = put[s] + 1
  BY <1>1, <1>2 DEF HolderInv, TypeOK
<1>4. b \in Nat \X Nat
  BY <1>3
<1>5. /\ Len(wire') = Len(wire) + 1
      /\ \A i \in 1..Len(wire) : wire'[i] = wire[i]
      /\ wire'[Len(wire) + 1] = b
  BY <1>1, <1>4, AppendProperties DEF TypeOK
<1>6. FrameLen(frame[s]) \in Nat
  BY <1>3, FrameLength
<1>7. \A f : FrameLen(f)' = FrameLen(f)
  BY <1>1 DEF FrameLen
<1>8. ASSUME NEW k \in 0..Len(wire) PROVE Due(k)' = Due(k)
  <2>1. CASE k = 0
    BY <2>1 DEF Due
  <2>2. CASE k # 0
    <3>1. wire'[k] = wire[k]
      BY <1>3, <1>5, <2>2
    <3>2. QED
      BY <1>7, <2>2, <3>1 DEF Due, NextByte
  <2>3. QED
    BY <2>1, <2>2
<1>9. b = Due(Len(wire))
  BY <1>1, <1>2 DEF HolderInv
<1>10. WireInv'
  <2> SUFFICES ASSUME NEW i \in 1..Len(wire')
      PROVE  /\ wire'[i][1] \in 1..Len(sent)
             /\ wire'[i][2] \in 1..FrameLen(wire'[i][1])
             /\ wire'[i] = Due(i - 1)'
    BY <1>1, <1>7 DEF WireInv
  <2>1. i - 1 \in 0..Len(wire) /\ Due(i - 1)' = Due(i - 1)
    BY <1>3, <1>5, <1>8
  <2>2. CASE i = Len(wire) + 1
    <3>1. wire'[i] = b /\ wire'[i] = Due(i - 1)
      BY <1>3, <1>5, <1>9, <2>2
    <3>2. b[1] = frame[s] /\ b[2] = put[s] + 1
      OBVIOUS
    <3>3. put[s] + 1 \in 1..FrameLen(frame[s])
      BY <1>1, <1>3, <1>6
    <3>4. QED
      BY <1>3, <2>1, <3>1, <3>2, <3>3
  <2>3. CASE i # Len(wire) + 1
    <3>1. i \in 1..Len(wire) /\ wire'[i] = wire[i]
      BY <1>3, <1>5, <2>3
    <3>2. QED
      BY <2>1, <3>1 DEF WireInv
  <2>4. QED
    BY <2>2, <2>3
<1>11. Due(Len(wire))' = NextByte(b)
  <2>1. Len(wire') # 0 /\ wire'[Len(wire')] = b
    BY <1>3, <1>5
  <2>2. QED
    BY <1>7, <2>1 DEF Due, NextByte
<1>12. NextByte(b) = IF put'[s] < FrameLen(frame[s])
                     THEN <<frame[s], put'[s] + 1>> ELSE <<Len(sent) + 1, 1>>
  BY <1>3 DEF NextByte
<1>13. HolderInv(s)'
  BY <1>1, <1>3, <1>6, <1>7, <1>11, <1>12 DEF HolderInv
<1>14. SenderInv'
  BY <1>1, <1>2, <1>13 DEF SenderInv
<1> QED
  BY <1>8, <1>10, <1>14

(* TransmitReturns: the frame is complete, or the connection lost.            *)
LEMMA TransmitReturnsStep ==
    ASSUME TypeOK, WireInv, SenderInv, NEW s \in Senders, TransmitReturns(s)
    PROVE  WireInv' /\ SenderInv'
<1> USE FramesAssumption
<1>1. /\ frame[s] # 0
      /\ put[s] = FrameLen(frame[s]) \/ lost
      /\ m_socketTX' = "free"
      /\ frame' = [frame EXCEPT ![s] = 0]
      /\ UNCHANGED <<sent, wire, put, lost>>
  BY DEF TransmitReturns, receiver
<1>2. m_socketTX = s /\ HolderInv(s)
  BY <1>1 DEF SenderInv
<1>3. WireInv' /\ Due(Len(wire))' = Due(Len(wire))
  <2>1. Len(wire) \in 0..Len(wire)
    BY DEF TypeOK
  <2>2. QED
    BY <1>1, <2>1, NewFrame
<1>4. \A t \in Senders : frame'[t] = 0
  BY <1>1, <1>2 DEF SenderInv, TypeOK
<1>5. put[s] \in Nat
  BY DEF TypeOK
<1>6. ~lost => Due(Len(wire)) = <<Len(sent) + 1, 1>>
  BY <1>1, <1>2, <1>5 DEF HolderInv
<1> QED
  BY <1>1, <1>3, <1>4, <1>6 DEF SenderInv

LEMMA SenderStep ==
    TypeOK /\ WireInv /\ SenderInv /\ [Next]_vars => WireInv' /\ SenderInv'
<1> SUFFICES ASSUME TypeOK, WireInv, SenderInv, [Next]_vars
    PROVE  WireInv' /\ SenderInv'
  OBVIOUS
<1>1. ASSUME NEW s \in Senders, TransmitPackage(s) PROVE WireInv' /\ SenderInv'
  BY <1>1, TransmitStep, SendByteStep, TransmitReturnsStep DEF TransmitPackage
<1>2. ASSUME UNCHANGED <<sender, wire, put>>, lost => lost'
      PROVE  WireInv' /\ SenderInv'
  BY <1>2 DEF WireInv, SenderInv, HolderInv, Due, NextByte, FrameLen, sender
<1>3. ASSUME HandleClientRX PROVE WireInv' /\ SenderInv'
  BY <1>2, <1>3 DEF HandleClientRX, ReceiveHeader, TakeByte, HeaderReceived,
     PayloadReceived, HeaderFails, PayloadAbandoned
<1>4. ASSUME ConnectionLost \/ SocketClosed \/ UNCHANGED vars
      PROVE  WireInv' /\ SenderInv'
  BY <1>2, <1>4 DEF ConnectionLost, SocketClosed, vars
<1> QED
  BY <1>1, <1>3, <1>4 DEF Next

-----------------------------------------------------------------------------
(* The receiver follows the wire frame by frame, until receive() returns a    *)
(* part of a payload or the payload loop is abandoned.                        *)

(* The frame the receiver is at: the one after those it has processed.        *)
Current == Len(processed) + 1

AtHeader ==
    /\ asked = HeaderLen
    /\ Due(taken) = <<Current, got + 1>>
    /\ got > 0 => Current <= Len(sent)
    /\ \A i \in 1..got : packageFrame[i] = <<Current, i>>

AtPayload ==
    /\ Current <= Len(sent)
    /\ HeaderIsOf(Current)
    /\ asked = PayloadLen[sent[Current]]
    /\ Due(taken) = IF got < asked THEN <<Current, HeaderLen + got + 1>>
                    ELSE <<Current + 1, 1>>
    /\ \A i \in 1..got : packageFrame[HeaderLen + i] = <<Current, HeaderLen + i>>

(* What was processed in step is what was transmitted, in the order of it.    *)
ReceiverInv ==
    /\ pcRx = "loop" /\ ~closed /\ ~short => Due(taken) = <<Current, 1>>
    /\ pcRx = "header" /\ ~short => AtHeader
    /\ pcRx = "payload" /\ ~short => AtPayload

FramesInv == TypeOK /\ BufferInv /\ WireInv /\ SenderInv /\ ReceiverInv

(* Transmitting changes nothing of what the receiver counts on.               *)
LEMMA SenderKeepsReceiver ==
    ASSUME FramesInv, NEW s \in Senders, TransmitPackage(s)
    PROVE  ReceiverInv'
<1> USE FramesAssumption
<1>1. UNCHANGED <<receiver, closed>>
  BY DEF TransmitPackage, Transmit, SendByte, TransmitReturns
<1>2. /\ \A k \in 0..Len(wire) : Due(k)' = Due(k)
      /\ \A f \in 1..Len(sent) : f \in 1..Len(sent') /\ sent'[f] = sent[f]
  <2>1. CASE SendByte(s)
    BY <2>1, SendByteStep DEF FramesInv, SendByte, sender
  <2>2. CASE Transmit(s) \/ TransmitReturns(s)
    <3>1. /\ wire' = wire
          /\ sent' = sent \/ \E package \in Packages : sent' = Append(sent, package)
      BY <2>2 DEF Transmit, TransmitReturns
    <3>2. QED
      BY <3>1, NewFrame DEF FramesInv
  <2>3. QED
    BY <2>1, <2>2 DEF TransmitPackage
<1>3. Due(taken)' = Due(taken)
  <2>1. taken \in 0..Len(wire) /\ taken' = taken
    BY <1>1 DEF FramesInv, TypeOK, receiver
  <2>2. QED
    BY <1>2, <2>1 DEF Due, NextByte, FrameLen
<1>4. Current' = Current /\ Current \in Nat \ {0}
  BY <1>1 DEF FramesInv, TypeOK, Current, receiver
<1>5. ASSUME Current <= Len(sent)
      PROVE  Current <= Len(sent') /\ sent'[Current] = sent[Current]
  <2>1. Current \in 1..Len(sent)
    BY <1>4, <1>5 DEF FramesInv, TypeOK
  <2>2. QED
    BY <1>2, <2>1
<1>6. pcRx = "header" /\ ~short => AtHeader'
  BY <1>1, <1>3, <1>4, <1>5 DEF FramesInv, ReceiverInv, AtHeader, receiver
<1>7. pcRx = "payload" /\ ~short => AtPayload'
  BY <1>1, <1>3, <1>4, <1>5
  DEF FramesInv, ReceiverInv, AtPayload, HeaderIsOf, receiver
<1> QED
  BY <1>1, <1>3, <1>4, <1>6, <1>7 DEF FramesInv, ReceiverInv, receiver

(* The byte receive() takes is the one due.                                   *)
LEMMA TakenByte ==
    ASSUME FramesInv, TakeByte, NEW n, NEW p, Due(taken) = <<n, p>>
    PROVE  /\ wire[taken + 1] = <<n, p>>
           /\ n \in 1..Len(sent)
           /\ p \in 1..FrameLen(n)
           /\ Due(taken + 1) = IF p < FrameLen(n) THEN <<n, p + 1>> ELSE <<n + 1, 1>>
<1>1. taken \in Nat /\ taken + 1 \in 1..Len(wire)
  BY DEF FramesInv, TypeOK, TakeByte
<1>2. /\ wire[taken + 1][1] \in 1..Len(sent)
      /\ wire[taken + 1][2] \in 1..FrameLen(wire[taken + 1][1])
      /\ wire[taken + 1] = Due(taken + 1 - 1)
  BY <1>1 DEF FramesInv, WireInv
<1>3. wire[taken + 1] = <<n, p>>
  <2>1. taken + 1 - 1 = taken
    BY <1>1
  <2>2. QED
    BY <1>2, <2>1
<1>4. Due(taken + 1) = NextByte(<<n, p>>)
  BY <1>1, <1>3 DEF Due
<1> QED
  BY <1>2, <1>3, <1>4 DEF NextByte

LEMMA TakeByteStep == ASSUME FramesInv, TakeByte PROVE ReceiverInv'
<1> USE FramesAssumption
<1> SUFFICES ASSUME ~short PROVE ReceiverInv'
  BY DEF TakeByte, ReceiverInv
<1>1. /\ got < asked
      /\ packageFrame' = [packageFrame EXCEPT ![Offset + got + 1] = wire[taken + 1]]
      /\ taken' = taken + 1
      /\ got' = got + 1
      /\ UNCHANGED <<sent, wire, pcRx, asked, processed, short, closed>>
  BY DEF TakeByte, sender
<1>2. /\ got \in Nat /\ asked \in Nat /\ taken \in Nat
      /\ packageFrame \in [1..(HeaderLen + MaxPayload) -> Nat \X Nat]
      /\ Len(processed) \in Nat /\ Len(sent) \in Nat
      /\ Current \in Nat
  BY DEF FramesInv, TypeOK, Current
<1>3. Due(taken)' = Due(taken + 1)
  BY <1>1 DEF Due, NextByte, FrameLen
<1>4. HeaderLen \in Nat /\ MaxPayload \in Nat
  OBVIOUS
<1>5. Current' = Current
  BY <1>1 DEF Current
<1>6. CASE pcRx = "header"
  <2>1. AtHeader /\ Offset = 0
    BY <1>6 DEF FramesInv, ReceiverInv, Offset
  <2>2. /\ wire[taken + 1] = <<Current, got + 1>>
        /\ Current \in 1..Len(sent)
        /\ Due(taken + 1) = IF got + 1 < FrameLen(Current)
                            THEN <<Current, got + 1 + 1>> ELSE <<Current + 1, 1>>
    BY <2>1, TakenByte DEF AtHeader
  <2>3. FrameLen(Current) \in Nat /\ FrameLen(Current) > HeaderLen
    BY <2>2, FrameLength DEF FramesInv
  <2>4. Due(taken)' = <<Current, got' + 1>>
    <3>1. asked = HeaderLen
      BY <2>1 DEF AtHeader
    <3>2. got + 1 < FrameLen(Current)
      BY <1>1, <1>2, <1>4, <2>3, <3>1
    <3>3. Due(taken + 1) = <<Current, got + 1 + 1>>
      BY <2>2, <3>2
    <3>4. QED
      BY <1>1, <1>3, <3>3
  <2>5. packageFrame' =
          [packageFrame EXCEPT ![got + 1] = <<Current, got + 1>>]
    <3>1. Offset + got + 1 = got + 1
      BY <1>2, <2>1
    <3>2. QED
      BY <1>1, <2>2, <3>1
  <2>6. ASSUME NEW i \in 1..got' PROVE packageFrame'[i] = <<Current, i>>
    <3>1. i \in 1..(HeaderLen + MaxPayload)
      BY <1>1, <1>2, <1>4, <2>1 DEF AtHeader
    <3>2. CASE i = got + 1
      BY <1>2, <2>5, <3>1, <3>2
    <3>3. CASE i # got + 1
      <4>1. i \in 1..got
        BY <1>1, <1>2, <3>3
      <4>2. packageFrame[i] = <<Current, i>>
        BY <2>1, <4>1 DEF AtHeader
      <4>3. QED
        BY <1>2, <2>5, <3>1, <3>3, <4>2
    <3>4. QED
      BY <3>2, <3>3
  <2>7. asked' = HeaderLen /\ Current <= Len(sent')
    BY <1>1, <2>1, <2>2 DEF AtHeader
  <2>8. AtHeader'
    BY <1>5, <2>4, <2>6, <2>7 DEF AtHeader
  <2>9. QED
    BY <1>1, <1>6, <2>8 DEF ReceiverInv
<1>7. CASE pcRx = "payload"
  <2>1. AtPayload /\ Offset = HeaderLen
    BY <1>7 DEF FramesInv, ReceiverInv, Offset
  <2>2. HeaderLen + asked <= HeaderLen + MaxPayload
    BY <1>7, <2>1 DEF FramesInv, BufferInv, BufferNotOverrun
  <2>3. /\ wire[taken + 1] = <<Current, HeaderLen + got + 1>>
        /\ Current \in 1..Len(sent)
        /\ Due(taken + 1) = IF HeaderLen + got + 1 < FrameLen(Current)
                            THEN <<Current, HeaderLen + got + 1 + 1>>
                            ELSE <<Current + 1, 1>>
    BY <1>1, <2>1, TakenByte DEF AtPayload
  <2>4. FrameLen(Current) = HeaderLen + asked
    BY <2>1 DEF AtPayload, FrameLen
  <2>5. Due(taken)' = IF got' < asked THEN <<Current, HeaderLen + got' + 1>>
                      ELSE <<Current + 1, 1>>
    <3>1. HeaderLen + got + 1 < FrameLen(Current) <=> got + 1 < asked
      BY <1>2, <1>4, <2>4
    <3>2. HeaderLen + got + 1 + 1 = HeaderLen + (got + 1) + 1
      BY <1>2, <1>4
    <3>3. Due(taken + 1) = IF got + 1 < asked
                           THEN <<Current, HeaderLen + (got + 1) + 1>>
                           ELSE <<Current + 1, 1>>
      BY <2>3, <3>1, <3>2
    <3>4. QED
      BY <1>1, <1>3, <3>3
  <2>6. packageFrame' =
          [packageFrame EXCEPT ![HeaderLen + got + 1] = <<Current, HeaderLen + got + 1>>]
    BY <1>1, <2>1, <2>3
  <2>7. ASSUME NEW i \in 1..got'
        PROVE packageFrame'[HeaderLen + i] = <<Current, HeaderLen + i>>
    <3>1. HeaderLen + i \in 1..(HeaderLen + MaxPayload)
      BY <1>1, <1>2, <1>4, <2>2
    <3>2. CASE i = got + 1
      BY <1>2, <1>4, <2>6, <3>1, <3>2
    <3>3. CASE i # got + 1
      <4>1. i \in 1..got /\ HeaderLen + i # HeaderLen + got + 1
        BY <1>1, <1>2, <1>4, <3>3
      <4>2. packageFrame[HeaderLen + i] = <<Current, HeaderLen + i>>
        BY <2>1, <4>1 DEF AtPayload
      <4>3. QED
        BY <1>2, <2>6, <3>1, <4>1, <4>2
    <3>4. QED
      BY <3>2, <3>3
  <2>8. ASSUME NEW i \in 1..HeaderLen PROVE packageFrame'[i] = <<Current, i>>
    BY <1>2, <2>1, <2>6 DEF AtPayload, HeaderIsOf
  <2>9. AtPayload'
    BY <1>1, <1>5, <2>1, <2>5, <2>7, <2>8 DEF AtPayload, HeaderIsOf
  <2>10. QED
    BY <1>1, <1>7, <2>9 DEF ReceiverInv
<1> QED
  BY <1>6, <1>7 DEF TakeByte

(* Whole headers are headers of the current frame. *)
LEMMA HeaderReceivedStep ==
    ASSUME FramesInv, HeaderReceived PROVE ReceiverInv'
<1> USE FramesAssumption
<1> SUFFICES ASSUME ~short, pcRx' = "payload" PROVE ReceiverInv'
  BY DEF HeaderReceived, ReceiverInv
<1>1. /\ pcRx = "header"
      /\ got = asked
      /\ UNCHANGED <<sent, wire, taken, packageFrame, processed>>
  BY DEF HeaderReceived, sender
<1>2. AtHeader /\ got = HeaderLen
  BY <1>1 DEF FramesInv, ReceiverInv, AtHeader
<1>3. HeaderIsOf(Current) /\ Current \in 1..Len(sent)
  BY <1>2 DEF FramesInv, TypeOK, AtHeader, HeaderIsOf, Current
<1>4. \A f : HeaderIsOf(f) => f = Current
  <2> SUFFICES ASSUME NEW f, HeaderIsOf(f) PROVE f = Current
    OBVIOUS
  <2>1. 1 \in 1..HeaderLen
    OBVIOUS
  <2>2. packageFrame[1] = <<f, 1>> /\ packageFrame[1] = <<Current, 1>>
    BY <1>3, <2>1 DEF HeaderIsOf
  <2>3. QED
    BY <2>2
<1>5. \A len \in LengthsRead : len = PayloadLen[sent[Current]]
  BY <1>3, <1>4 DEF LengthsRead
<1>6. Due(taken)' = Due(taken) /\ Current' = Current
  BY <1>1 DEF Due, NextByte, FrameLen, Current
<1>7. asked' = PayloadLen[sent[Current]] /\ got' = 0
  BY <1>5 DEF HeaderReceived
<1>8. Due(taken)' = <<Current, HeaderLen + 1>>
  BY <1>2, <1>6 DEF AtHeader
<1>9. got' < asked'
  BY <1>3, <1>7, FrameLength DEF FramesInv
<1>10. HeaderIsOf(Current)'
  BY <1>1, <1>3, <1>6 DEF HeaderIsOf
<1>11. AtPayload'
  BY <1>1, <1>3, <1>6, <1>7, <1>8, <1>9, <1>10 DEF AtPayload
<1> QED
  BY <1>11 DEF ReceiverInv

(* A whole payload is the package of the current frame. *)
LEMMA PayloadReceivedStep ==
    ASSUME FramesInv, PayloadReceived, ~short, ~short'
    PROVE  /\ ReceiverInv'
           /\ Current <= Len(sent)
           /\ processed' = Append(processed, sent[Current])
           /\ whole' = whole + 1
<1> USE FramesAssumption
<1>1. /\ pcRx = "payload"
      /\ got = asked
      /\ processed' = Append(processed, PackageRead)
      /\ whole' = whole + 1
      /\ pcRx' \in {"loop", "done"}
      /\ UNCHANGED <<sent, wire, taken>>
  BY DEF PayloadReceived, AfterProcess, sender
<1>2. AtPayload
  BY <1>1 DEF FramesInv, ReceiverInv
<1>3. Current \in 1..Len(sent) /\ Len(processed) \in Nat
  <2>1. Len(processed) \in Nat /\ Len(sent) \in Nat
    BY DEF FramesInv, TypeOK
  <2>2. QED
    BY <1>2, <2>1 DEF AtPayload, Current
<1>4. PayloadIsOf(Current)
  BY <1>1, <1>2 DEF AtPayload, PayloadIsOf
<1>5. \A f : PayloadIsOf(f) => f = Current
  <2> SUFFICES ASSUME NEW f, PayloadIsOf(f) PROVE f = Current
    OBVIOUS
  <2>1. 1 \in 1..asked
    BY <1>2, <1>3, FrameLength DEF FramesInv, AtPayload
  <2>2. /\ packageFrame[HeaderLen + 1] = <<f, HeaderLen + 1>>
        /\ packageFrame[HeaderLen + 1] = <<Current, HeaderLen + 1>>
    BY <1>4, <2>1 DEF PayloadIsOf
  <2>3. QED
    BY <2>2
<1>6. PackageRead = sent[Current]
  BY <1>3, <1>4, <1>5 DEF PackageRead
<1>7. Current' = Current + 1
  <2>1. sent[Current] \in Packages \cup {Garbled}
    BY <1>3, FrameLength DEF FramesInv
  <2>2. Len(processed') = Len(processed) + 1
    BY <1>1, <1>6, <2>1, AppendProperties DEF FramesInv, TypeOK
  <2>3. QED
    BY <1>3, <2>2 DEF Current
<1>8. Due(taken)' = <<Current', 1>>
  <2>1. Due(taken)' = Due(taken)
    BY <1>1 DEF Due, NextByte, FrameLen
  <2>2. ~(got < asked)
    BY <1>1 DEF FramesInv, TypeOK
  <2>3. QED
    BY <1>2, <1>7, <2>1, <2>2 DEF AtPayload
<1> QED
  BY <1>1, <1>3, <1>6, <1>8 DEF ReceiverInv

LEMMA ReceiverStep == FramesInv /\ [Next]_vars => ReceiverInv'
<1> SUFFICES ASSUME FramesInv, [Next]_vars PROVE ReceiverInv'
  OBVIOUS
<1>1. ASSUME NEW s \in Senders, TransmitPackage(s) PROVE ReceiverInv'
  BY <1>1, SenderKeepsReceiver
<1>2. ASSUME ReceiveHeader PROVE ReceiverInv'
  <2>1. pcRx' = "header" /\ ~short => AtHeader'
    BY <1>2, FramesAssumption DEF ReceiveHeader, FramesInv, ReceiverInv, AtHeader,
       Due, NextByte, FrameLen, Current, sender
  <2>2. QED
    BY <1>2, <2>1 DEF ReceiveHeader, ReceiverInv
<1>3. ASSUME HeaderFails \/ PayloadAbandoned PROVE ReceiverInv'
  BY <1>3 DEF HeaderFails, PayloadAbandoned, AfterProcess, ReceiverInv
<1>4. ASSUME ConnectionLost \/ SocketClosed \/ UNCHANGED vars PROVE ReceiverInv'
  <2>1. UNCHANGED <<sent, wire, receiver>> /\ (closed => closed')
    BY <1>4 DEF ConnectionLost, SocketClosed, vars, sender
  <2>2. QED
    BY <2>1 DEF FramesInv, ReceiverInv, AtHeader, AtPayload, HeaderIsOf, Due,
       NextByte, FrameLen, Current, receiver
<1>5. ASSUME PayloadReceived PROVE ReceiverInv'
  <2>1. CASE short'
    BY <2>1 DEF ReceiverInv
  <2>2. CASE ~short'
    <3>1. ~short
      BY <1>5, <2>2 DEF PayloadReceived
    <3>2. QED
      BY <1>5, <2>2, <3>1, PayloadReceivedStep
  <2>3. QED
    BY <2>1, <2>2
<1> QED
  BY <1>1, <1>2, <1>3, <1>4, <1>5, TakeByteStep, HeaderReceivedStep
  DEF Next, HandleClientRX

LEMMA FramesInit == Init => FramesInv
<1> SUFFICES ASSUME Init PROVE FramesInv
  OBVIOUS
<1>1. BufferInv /\ WireInv /\ ReceiverInv
  BY DEF Init, BufferInv, BufferNotOverrun, OneStalePackage, WireInv,
     ReceiverInv, Due, Current
<1>2. SenderInv
  BY FramesAssumption DEF Init, SenderInv, Due
<1> QED
  BY <1>1, <1>2, TypeInit DEF FramesInv

(* The wire and the senders stay in step, and so does the receiver until      *)
(* receive() first returns a part of a payload.                               *)
THEOREM InStep == Spec => []FramesInv
<1>1. FramesInv /\ [Next]_vars => FramesInv'
  BY TypeStep, BufferStep, SenderStep, ReceiverStep DEF FramesInv
<1> QED
  BY <1>1, FramesInit, PTL DEF Spec

-----------------------------------------------------------------------------
(* SOEFrames implements PackageChannel.                                       *)

Delivered == SubSeq(processed, 1, whole)

(* The first packages of a sequence stay the first ones when it grows.        *)
LEMMA PrefixOfLonger ==
    ASSUME NEW S, NEW q \in Seq(S), NEW e \in S, NEW n \in 0..Len(q)
    PROVE  /\ SubSeq(Append(q, e), 1, n) = SubSeq(q, 1, n)
           /\ SubSeq(Append(q, e), 1, Len(q) + 1) = Append(SubSeq(q, 1, Len(q)), e)
<1>1. /\ Append(q, e) \in Seq(S)
      /\ Len(Append(q, e)) = Len(q) + 1
      /\ \A i \in 1..Len(q) : Append(q, e)[i] = q[i]
  BY AppendProperties
<1>2. Len(q) \in Nat /\ \A i \in 1..Len(q) : q[i] \in S
  OBVIOUS
<1>3. /\ SubSeq(q, 1, n) \in Seq(S)
      /\ Len(SubSeq(q, 1, n)) = n
      /\ \A i \in 1..n : SubSeq(q, 1, n)[i] = q[i]
  <2>1. \A i \in 1..n : q[i] \in S
    BY <1>2
  <2>2. /\ SubSeq(q, 1, n) \in Seq(S)
        /\ Len(SubSeq(q, 1, n)) = IF 1 <= n THEN n - 1 + 1 ELSE 0
        /\ \A i \in 1..(n - 1 + 1) : SubSeq(q, 1, n)[i] = q[1 + i - 1]
    BY <2>1, SubSeqProperties
  <2>3. QED
    BY <1>2, <2>2
<1>4. /\ SubSeq(Append(q, e), 1, n) \in Seq(S)
      /\ Len(SubSeq(Append(q, e), 1, n)) = n
      /\ \A i \in 1..n : SubSeq(Append(q, e), 1, n)[i] = q[i]
  <2>1. \A i \in 1..n : Append(q, e)[i] = q[i] /\ Append(q, e)[i] \in S
    BY <1>1, <1>2
  <2>2. /\ SubSeq(Append(q, e), 1, n) \in Seq(S)
        /\ Len(SubSeq(Append(q, e), 1, n)) = IF 1 <= n THEN n - 1 + 1 ELSE 0
        /\ \A i \in 1..(n - 1 + 1) :
             SubSeq(Append(q, e), 1, n)[i] = Append(q, e)[1 + i - 1]
    BY <2>1, SubSeqProperties
  <2>3. QED
    BY <1>2, <2>1, <2>2
<1>5. SubSeq(Append(q, e), 1, n) = SubSeq(q, 1, n)
  BY <1>3, <1>4, SeqEqual
<1>6. SubSeq(q, 1, Len(q)) = q
  BY SubSeqFull
<1>7. SubSeq(Append(q, e), 1, Len(q) + 1) = Append(q, e)
  BY <1>1, SubSeqFull
<1> QED
  BY <1>5, <1>6, <1>7

(* Every step transmits a package, delivers the next one, or does neither.    *)
LEMMA ChannelStep ==
    FramesInv /\ [Next]_vars => [Channel!Next]_<<sent, Delivered>>
<1> SUFFICES ASSUME FramesInv, [Next]_vars
    PROVE  [Channel!Next]_<<sent, Delivered>>
  OBVIOUS
<1>1. ASSUME UNCHANGED <<sent, processed, whole>>
      PROVE  UNCHANGED <<sent, Delivered>>
  BY <1>1 DEF Delivered
<1>2. ASSUME NEW s \in Senders, Transmit(s) PROVE Channel!Next
  <2>1. UNCHANGED <<processed, whole>>
    BY <1>2 DEF Transmit, receiver
  <2>2. QED
    BY <1>2, <2>1 DEF Transmit, Channel!Next, Channel!Send
<1>3. /\ processed \in Seq(Packages \cup {Garbled})
      /\ PackageRead \in Packages \cup {Garbled}
      /\ whole \in 0..Len(processed)
      /\ Len(processed) \in Nat
  BY PackageReadType DEF FramesInv, TypeOK
<1>4. ASSUME processed' = Append(processed, PackageRead), whole' = whole,
             sent' = sent
      PROVE  UNCHANGED <<sent, Delivered>>
  BY <1>3, <1>4, PrefixOfLonger DEF Delivered
<1>5. ASSUME PayloadReceived PROVE [Channel!Next]_<<sent, Delivered>>
  <2>1. sent' = sent
    BY <1>5 DEF PayloadReceived, sender
  <2>2. CASE short'
    BY <1>1, <1>4, <1>5, <2>1, <2>2 DEF PayloadReceived
  <2>3. CASE ~short'
    <3>1. ~short
      BY <1>5, <2>3 DEF PayloadReceived
    <3>2. /\ Current <= Len(sent)
          /\ processed' = Append(processed, sent[Current])
          /\ whole' = whole + 1
      BY <1>5, <2>3, <3>1, PayloadReceivedStep
    <3>3. whole = Len(processed)
      BY <1>3, <1>5, <3>1
      DEF PayloadReceived, FramesInv, TypeOK, BufferInv, OneStalePackage
    <3>4. Current \in 1..Len(sent) /\ sent[Current] \in Packages
      BY <1>3, <3>2 DEF FramesInv, TypeOK, Current
    <3>5. /\ SubSeq(processed, 1, whole) = processed
          /\ SubSeq(processed, 1, whole)' = Append(processed, sent[Current])
      BY <1>3, <3>2, <3>3, <3>4, PrefixOfLonger, SubSeqFull
    <3>6. Len(processed) < Len(sent) /\ Current = Len(processed) + 1
      BY <1>3, <3>4 DEF Current, FramesInv, TypeOK
    <3>7. Channel!Deliver
      BY <2>1, <3>5, <3>6 DEF Channel!Deliver
    <3>8. QED
      BY <3>7 DEF Channel!Next
  <2>4. QED
    BY <2>2, <2>3
<1>6. ASSUME PayloadAbandoned PROVE UNCHANGED <<sent, Delivered>>
  BY <1>4, <1>6 DEF PayloadAbandoned, sender
<1>7. ASSUME NEW s \in Senders, SendByte(s) \/ TransmitReturns(s)
      PROVE  UNCHANGED <<sent, Delivered>>
  BY <1>1, <1>7 DEF SendByte, TransmitReturns, sender, receiver
<1>8. ASSUME ReceiveHeader \/ TakeByte \/ HeaderReceived \/ HeaderFails
      PROVE  UNCHANGED <<sent, Delivered>>
  BY <1>1, <1>8 DEF ReceiveHeader, TakeByte, HeaderReceived, HeaderFails, sender
<1>9. ASSUME ConnectionLost \/ SocketClosed \/ UNCHANGED vars
      PROVE  UNCHANGED <<sent, Delivered>>
  BY <1>1, <1>9 DEF ConnectionLost, SocketClosed, vars, sender, receiver
<1> QED
  BY <1>2, <1>5, <1>6, <1>7, <1>8, <1>9
  DEF Next, TransmitPackage, HandleClientRX

(* Packages are processed whole, each once, in the order in which they were   *)
(* transmitted, whatever threads transmit them and however little room the    *)
(* connection has, until receive() returns a part of a payload; the one       *)
(* buffer processed after an abandoned payload is not counted.                *)
THEOREM DeliversInOrder == Spec => PackagesInOrder
<1>1. Init => Channel!Init
  BY SubSeqEmpty DEF Init, Channel!Init
<1>2. FramesInv /\ [Next]_vars
        => [Channel!Next]_<<sent, SubSeq(processed, 1, whole)>>
  BY ChannelStep DEF Delivered
<1> QED
  BY <1>1, <1>2, InStep, PTL DEF Spec, PackagesInOrder, Channel!Spec
=============================================================================

------------------------ MODULE SerialStreams_proofs ------------------------
(* Proofs about the streams: for any data and any buffer sizes, the bytes of  *)
(* the port are handed on once and in order while it is open, and those of    *)
(* the program are sent once and in order until a call throws.                *)
EXTENDS SerialStreams, SequenceTheorems, TLAPS

-----------------------------------------------------------------------------
(* Sequences *)

(* A sequence cut at q, from p on.                                            *)
LEMMA Split ==
    ASSUME NEW S, NEW s \in Seq(S), NEW p \in 0..Len(s), NEW q \in p..Len(s)
    PROVE  /\ SubSeq(s, p + 1, q) \in Seq(S)
           /\ Len(SubSeq(s, p + 1, q)) = q - p
           /\ SubSeq(s, p + 1, q) \o SubSeq(s, q + 1, Len(s))
                 = SubSeq(s, p + 1, Len(s))
<1>1. Len(s) \in Nat /\ p \in Nat /\ q \in Nat /\ p <= q /\ q <= Len(s)
      BY LenProperties
<1>2. \A i \in p + 1..q : s[i] \in S
  <2> TAKE i \in p + 1..q
  <2>1. i \in 1..Len(s)
        BY <1>1
  <2> QED BY <2>1, ElementOfSeq
<1>3. /\ SubSeq(s, p + 1, q) \in Seq(S)
      /\ Len(SubSeq(s, p + 1, q)) = IF p + 1 <= q THEN q - (p + 1) + 1 ELSE 0
      BY <1>1, <1>2, SubSeqProperties
<1>4. p + 1 \in 1..Len(s) + 1 /\ q \in (p + 1) - 1..Len(s) /\ Len(s) \in q..Len(s)
      BY <1>1
<1>5. SubSeq(s, p + 1, q) \o SubSeq(s, q + 1, Len(s)) = SubSeq(s, p + 1, Len(s))
      BY <1>4, ConcatAdjacentSubSeq
<1>6. Len(SubSeq(s, p + 1, q)) = q - p
  <2>1. CASE p + 1 <= q
        BY <2>1, <1>1, <1>3
  <2>2. CASE p = q
        BY <2>2, <1>1, <1>3
  <2> QED BY <2>1, <2>2, <1>1
<1> QED BY <1>3, <1>5, <1>6

LEMMA ConcatType ==
    ASSUME NEW S, NEW s \in Seq(S), NEW t \in Seq(S)
    PROVE  s \o t \in Seq(S) /\ Len(s \o t) = Len(s) + Len(t)
  BY ConcatProperties

LEMMA Assoc ==
    \A s, t, u \in Seq(JavaByte) : (s \o t) \o u = s \o (t \o u)
  BY ConcatAssociative

(* The conversion of the bytes of an array.                                   *)
LEMMA SignedSeq ==
    ASSUME NEW s \in Seq(0..255)
    PROVE  /\ Signed(s) \in Seq(JavaByte)
           /\ Len(Signed(s)) = Len(s)
           /\ \A i \in 1..Len(s) :
                Signed(s)[i] = IF s[i] > 127 THEN s[i] - 256 ELSE s[i]
<1>1. Len(s) \in Nat /\ s \in [1..Len(s) -> 0..255] /\ DOMAIN s = 1..Len(s)
      BY LenProperties
<1>2. Signed(s) = [i \in 1..Len(s) |-> IF s[i] > 127 THEN s[i] - 256 ELSE s[i]]
      BY <1>1 DEF Signed
<1>3. \A i \in 1..Len(s) : (IF s[i] > 127 THEN s[i] - 256 ELSE s[i]) \in JavaByte
  <2> TAKE i \in 1..Len(s)
  <2>1. s[i] \in 0..255
        BY ElementOfSeq
  <2>2. \A x \in 0..255 : (IF x > 127 THEN x - 256 ELSE x) \in JavaByte
        BY DEF JavaByte
  <2> QED BY <2>1, <2>2
<1>4. Signed(s) \in [1..Len(s) -> JavaByte]
      BY <1>2, <1>3
<1>5. Signed(s) \in Seq(JavaByte)
      BY <1>1, <1>4, SeqDef
<1>6. Len(Signed(s)) = Len(s)
      BY <1>1, <1>4, <1>5, LenProperties
<1> QED BY <1>2, <1>5, <1>6

LEMMA SignedSplit ==
    ASSUME NEW s \in Seq(0..255), NEW n \in 0..Len(s)
    PROVE  /\ SubSeq(s, 1, n) \in Seq(0..255) /\ Len(SubSeq(s, 1, n)) = n
           /\ SubSeq(s, n + 1, Len(s)) \in Seq(0..255)
           /\ Signed(SubSeq(s, 1, n)) \o Signed(SubSeq(s, n + 1, Len(s))) = Signed(s)
<1> DEFINE a == SubSeq(s, 1, n)
           b == SubSeq(s, n + 1, Len(s))
<1>1. Len(s) \in Nat /\ n \in Nat /\ n <= Len(s)
      BY LenProperties
<1>2. \A i \in 1..Len(s) : s[i] \in 0..255
      BY ElementOfSeq
<1>3. a \in Seq(0..255) /\ Len(a) = n /\ \A i \in 1..n : a[i] = s[i]
  <2>1. /\ a \in Seq(0..255)
        /\ Len(a) = IF 1 <= n THEN n - 1 + 1 ELSE 0
        /\ \A i \in 1..n - 1 + 1 : a[i] = s[1 + i - 1]
    <3>1. \A i \in 1..n : s[i] \in 0..255
          BY <1>1, <1>2
    <3> QED BY <1>1, <3>1, SubSeqProperties
  <2> QED BY <1>1, <2>1
<1>4. /\ b \in Seq(0..255) /\ Len(b) = Len(s) - n
      /\ \A i \in 1..Len(s) - n : b[i] = s[n + i]
  <2>1. /\ b \in Seq(0..255)
        /\ Len(b) = IF n + 1 <= Len(s) THEN Len(s) - (n + 1) + 1 ELSE 0
        /\ \A i \in 1..Len(s) - (n + 1) + 1 : b[i] = s[(n + 1) + i - 1]
    <3>1. \A i \in n + 1..Len(s) : s[i] \in 0..255
          BY <1>1, <1>2
    <3> QED BY <1>1, <3>1, SubSeqProperties
  <2> QED BY <1>1, <2>1
<1> HIDE DEF a, b
<1>5. /\ Signed(a) \in Seq(JavaByte) /\ Len(Signed(a)) = n
      /\ \A i \in 1..n : Signed(a)[i] = IF a[i] > 127 THEN a[i] - 256 ELSE a[i]
      BY <1>3, SignedSeq
<1>6. /\ Signed(b) \in Seq(JavaByte) /\ Len(Signed(b)) = Len(s) - n
      /\ \A i \in 1..Len(s) - n :
           Signed(b)[i] = IF b[i] > 127 THEN b[i] - 256 ELSE b[i]
      BY <1>4, SignedSeq
<1>7. /\ Signed(s) \in Seq(JavaByte) /\ Len(Signed(s)) = Len(s)
      /\ \A i \in 1..Len(s) : Signed(s)[i] = IF s[i] > 127 THEN s[i] - 256 ELSE s[i]
      BY SignedSeq
<1>8. /\ Signed(a) \o Signed(b) \in Seq(JavaByte)
      /\ Len(Signed(a) \o Signed(b)) = n + (Len(s) - n)
      /\ \A i \in 1..n + (Len(s) - n) : (Signed(a) \o Signed(b))[i]
           = IF i <= n THEN Signed(a)[i] ELSE Signed(b)[i - n]
      BY <1>5, <1>6, ConcatProperties
<1>9. ASSUME NEW i \in 1..Len(s)
      PROVE  (Signed(a) \o Signed(b))[i] = Signed(s)[i]
  <2>1. i \in 1..n + (Len(s) - n) /\ i \in Nat
        BY <1>1
  <2>2. CASE i <= n
    <3>1. i \in 1..n
          BY <2>1, <2>2, <1>1
    <3>2. (Signed(a) \o Signed(b))[i] = Signed(a)[i]
          BY <2>1, <2>2, <1>8
    <3>3. Signed(a)[i] = Signed(s)[i]
          BY <3>1, <1>3, <1>5, <1>7
    <3> QED BY <3>2, <3>3
  <2>3. CASE i > n
    <3>1. i - n \in 1..Len(s) - n /\ n + (i - n) = i
          BY <2>1, <2>3, <1>1
    <3>2. (Signed(a) \o Signed(b))[i] = Signed(b)[i - n]
          BY <2>1, <2>3, <1>1, <1>8
    <3>3. b[i - n] = s[i]
          BY <3>1, <1>4
    <3>4. Signed(b)[i - n] = Signed(s)[i]
          BY <3>1, <3>3, <1>6, <1>7
    <3> QED BY <3>2, <3>4
  <2>4. i <= n \/ i > n
        BY <2>1, <1>1
  <2> QED BY <2>2, <2>3, <2>4
<1>10. Signed(a) \o Signed(b) = Signed(s)
  <2>1. Len(Signed(a) \o Signed(b)) = Len(Signed(s))
        BY <1>1, <1>7, <1>8
  <2>2. \A i \in 1..Len(Signed(a) \o Signed(b)) :
          (Signed(a) \o Signed(b))[i] = Signed(s)[i]
        BY <2>1, <1>7, <1>9
  <2> QED BY <2>1, <2>2, <1>7, <1>8, SeqEqual
<1> QED BY <1>3, <1>4, <1>10 DEF a, b

-----------------------------------------------------------------------------
(* Input stream *)

(* The types of the reading half. *)
ReadType ==
    /\ unread \in Seq(0..255)
    /\ input \in [buffer : Seq(JavaByte), ptr : Nat]
    /\ input.ptr <= Len(input.buffer) /\ Len(input.buffer) <= InBuffer
    /\ reader \in [pc : {"idle", "open", "native"},
                   call : {"none", "byte", "available", "more"},
                   len : 0..InBuffer + 1, got : Seq(JavaByte)]
    /\ Len(reader.got) <= reader.len
    /\ handed \in Seq(JavaByte)

(* A call fills the buffer only when it has nothing left; before available()  *)
(* has returned nothing is copied.                                            *)
ReaderInv ==
    /\ reader.pc = "idle" => reader = Idle
    /\ reader.pc # "idle" => input.ptr = Len(input.buffer)
    /\ reader.call \in {"byte", "available"} => reader.got = <<>>

ReadInv == ReadType /\ ReaderInv /\ InputInOrder

(* What has been read of the port, as the call in progress and the buffer     *)
(* have it.                                                                   *)
Taken == handed \o reader.got \o Rest

LEMMA Empty == <<>> \in Seq(JavaByte) /\ Len(<<>>) = 0
  BY EmptySeq

LEMMA IdleType ==
    Idle \in [pc : {"idle", "open", "native"},
              call : {"none", "byte", "available", "more"},
              len : 0..InBuffer + 1, got : Seq(JavaByte)]
<1>1. 0 \in 0..InBuffer + 1
      BY StreamsAssumption
<1> QED BY <1>1, Empty DEF Idle

LEMMA RestType ==
    ASSUME ReadType
    PROVE  /\ Rest \in Seq(JavaByte)
           /\ Len(Rest) = Len(input.buffer) - input.ptr
           /\ Rest = <<>> <=> input.ptr = Len(input.buffer)
<1>1. input.buffer \in Seq(JavaByte) /\ Len(input.buffer) \in Nat
      /\ input.ptr \in 0..Len(input.buffer)
      BY LenProperties DEF ReadType
<1>2. Len(input.buffer) \in input.ptr..Len(input.buffer)
      BY <1>1
<1>3. Rest \in Seq(JavaByte) /\ Len(Rest) = Len(input.buffer) - input.ptr
      BY <1>1, <1>2, Split DEF Rest
<1>4. Rest = <<>> <=> Len(Rest) = 0
      BY <1>3, EmptySeq, Empty
<1> QED BY <1>1, <1>3, <1>4

(* Return neither skips nor repeats a byte of the buffer it copies from.      *)
LEMMA ReturnStep ==
    ASSUME ReadType,
           NEW buffer \in Seq(JavaByte), Len(buffer) <= InBuffer,
           NEW ptr \in 0..Len(buffer), NEW n \in 0..Len(buffer) - ptr,
           Return(buffer, ptr, n), unread' \in Seq(0..255)
    PROVE  /\ ReadType' /\ ReaderInv'
           /\ Taken' = handed \o reader.got \o SubSeq(buffer, ptr + 1, Len(buffer))
<1> DEFINE x == SubSeq(buffer, ptr + 1, ptr + n)
           y == SubSeq(buffer, ptr + n + 1, Len(buffer))
<1>1. Len(buffer) \in Nat /\ ptr + n \in ptr..Len(buffer) /\ ptr + n \in Nat
      /\ ptr + n \in 0..Len(buffer) /\ Len(buffer) \in ptr + n..Len(buffer)
      BY LenProperties
<1>2. x \in Seq(JavaByte) /\ x \o y = SubSeq(buffer, ptr + 1, Len(buffer))
      BY <1>1, Split
<1>3. y \in Seq(JavaByte)
      BY <1>1, Split
<1>4. handed \in Seq(JavaByte) /\ reader.got \in Seq(JavaByte)
      BY DEF ReadType
<1>5. handed \o reader.got \in Seq(JavaByte)
      BY <1>4, ConcatType
<1>6. handed' = (handed \o reader.got) \o x /\ handed' \in Seq(JavaByte)
      BY <1>2, <1>5, ConcatType DEF Return
<1>7. input' = [buffer |-> buffer, ptr |-> ptr + n] /\ reader' = Idle
      BY DEF Return
<1>8. Rest' = y
      BY <1>7 DEF Rest
<1>9. ReadType'
  <2>1. input' \in [buffer : Seq(JavaByte), ptr : Nat]
        /\ input'.ptr <= Len(input'.buffer) /\ Len(input'.buffer) <= InBuffer
        BY <1>1, <1>7
  <2>2. Len(reader'.got) <= reader'.len
        BY <1>7, Empty DEF Idle
  <2> QED BY <1>6, <1>7, <2>1, <2>2, IdleType DEF ReadType
<1>10. ReaderInv'
       BY <1>7 DEF ReaderInv, Idle
<1>11. Taken' = handed' \o y
  <2>1. reader'.got = <<>>
        BY <1>7 DEF Idle
  <2>2. handed' \o <<>> = handed'
        BY <1>6, ConcatEmptySeq
  <2> QED BY <1>8, <2>1, <2>2 DEF Taken
<1>12. handed' \o y = (handed \o reader.got) \o (x \o y)
  <2> HIDE DEF x, y
  <2>1. ((handed \o reader.got) \o x) \o y = (handed \o reader.got) \o (x \o y)
        BY <1>2, <1>3, <1>5, Assoc
  <2> QED BY <1>6, <2>1
<1> QED BY <1>2, <1>9, <1>10, <1>11, <1>12

-----------------------------------------------------------------------------
LEMMA ReadByteStep == ReadInv /\ ReadByte => ReadInv'
<1> SUFFICES ASSUME ReadInv, ReadByte PROVE ReadInv'
    OBVIOUS
<1>1. /\ ReadType /\ ReaderInv /\ InputInOrder /\ reader = Idle
      /\ isOpen' = isOpen /\ unread' = unread /\ unread' \in Seq(0..255)
      BY DEF ReadInv, ReadByte, ReaderInv, device, ReadType
<1>2. /\ Rest \in Seq(JavaByte) /\ Len(Rest) = Len(input.buffer) - input.ptr
      /\ Rest = <<>> <=> input.ptr = Len(input.buffer)
      BY <1>1, RestType
<1>3. CASE Rest # <<>>
  <2>1. Return(input.buffer, input.ptr, 1)
        BY <1>3 DEF ReadByte
  <2>2. /\ input.buffer \in Seq(JavaByte) /\ Len(input.buffer) <= InBuffer
        /\ Len(input.buffer) \in Nat /\ input.ptr \in 0..Len(input.buffer)
        BY <1>1, LenProperties DEF ReadType
  <2>3. 1 \in 0..Len(input.buffer) - input.ptr
        BY <1>2, <1>3, <2>2
  <2>4. ReadType' /\ ReaderInv' /\ Taken' = Taken
        BY <1>1, <2>1, <2>2, <2>3, ReturnStep DEF Taken, Rest
  <2> QED BY <1>1, <2>4 DEF ReadInv, InputInOrder, Taken
<1>4. CASE Rest = <<>>
  <2>1. /\ reader' = [pc |-> "open", call |-> "byte", len |-> 0, got |-> <<>>]
        /\ input' = input /\ handed' = handed
        BY <1>4 DEF ReadByte, Idle
  <2>2. 0 \in 0..InBuffer + 1
        BY StreamsAssumption
  <2>3. ReadType'
        BY <1>1, <2>1, <2>2, Empty DEF ReadType
  <2>4. ReaderInv'
        BY <1>2, <1>4, <2>1 DEF ReaderInv
  <2>5. InputInOrder'
        BY <1>1, <2>1 DEF InputInOrder, Rest, Idle
  <2> QED BY <2>3, <2>4, <2>5 DEF ReadInv
<1> QED BY <1>3, <1>4

LEMMA ReadArrayStep ==
    ASSUME ReadInv, NEW len \in 0..InBuffer + 1, ReadArray(len)
    PROVE  ReadInv'
<1>1. /\ ReadType /\ ReaderInv /\ InputInOrder /\ reader = Idle
      /\ isOpen' = isOpen /\ unread' = unread /\ unread' \in Seq(0..255)
      BY DEF ReadInv, ReadArray, ReaderInv, device, ReadType
<1>2. /\ Rest \in Seq(JavaByte) /\ Len(Rest) = Len(input.buffer) - input.ptr
      /\ Rest = <<>> <=> input.ptr = Len(input.buffer)
      BY <1>1, RestType
<1>3. /\ input.buffer \in Seq(JavaByte) /\ Len(input.buffer) <= InBuffer
      /\ Len(input.buffer) \in Nat /\ input.ptr \in 0..Len(input.buffer)
      /\ handed \in Seq(JavaByte) /\ len \in Nat
      BY <1>1, LenProperties, StreamsAssumption DEF ReadType
<1>4. CASE Rest # <<>> /\ len <= Len(Rest)
  <2>1. Return(input.buffer, input.ptr, len)
        BY <1>4 DEF ReadArray
  <2>2. len \in 0..Len(input.buffer) - input.ptr
        BY <1>2, <1>3, <1>4
  <2>3. ReadType' /\ ReaderInv' /\ Taken' = Taken
        BY <1>1, <1>3, <2>1, <2>2, ReturnStep DEF Taken, Rest
  <2> QED BY <1>1, <2>3 DEF ReadInv, InputInOrder, Taken
<1>5. CASE ~(Rest # <<>> /\ len <= Len(Rest))
  <2>1. /\ reader' = [pc |-> "open", len |-> len, got |-> Rest,
                      call |-> IF Rest = <<>> THEN "available" ELSE "more"]
        /\ input' = [input EXCEPT !.ptr = Len(input.buffer)]
        /\ handed' = handed
        BY <1>5 DEF ReadArray
  <2>2. input' = [buffer |-> input.buffer, ptr |-> Len(input.buffer)]
        BY <1>1, <2>1 DEF ReadType
  <2>3. Len(Rest) <= len
        BY <1>2, <1>3, <1>5, Empty
  <2>4. ReadType'
    <3>1. reader' \in [pc : {"idle", "open", "native"},
                      call : {"none", "byte", "available", "more"},
                      len : 0..InBuffer + 1, got : Seq(JavaByte)]
          /\ Len(reader'.got) <= reader'.len
          BY <1>2, <2>1, <2>3
    <3>2. input' \in [buffer : Seq(JavaByte), ptr : Nat]
          /\ input'.ptr <= Len(input'.buffer) /\ Len(input'.buffer) <= InBuffer
          BY <1>3, <2>2
    <3> QED BY <1>1, <1>3, <2>1, <3>1, <3>2 DEF ReadType
  <2>5. ReaderInv'
        BY <2>1, <2>2 DEF ReaderInv
  <2>6. Rest' = <<>>
        BY <2>2, <2>4, RestType, <1>3, SubSeqEmpty DEF Rest
  <2>7. Taken' = Taken
    <3>1. reader.got = <<>> /\ reader'.got = Rest
          BY <1>1, <2>1 DEF Idle
    <3>2. handed \o <<>> = handed
          BY <1>3, ConcatEmptySeq
    <3>3. handed \o Rest \in Seq(JavaByte)
          BY <1>2, <1>3, ConcatType
    <3>4. (handed \o Rest) \o <<>> = handed \o Rest
          BY <3>3, ConcatEmptySeq
    <3> QED BY <2>1, <2>6, <3>1, <3>2, <3>4 DEF Taken
  <2> QED BY <1>1, <2>4, <2>5, <2>7 DEF ReadInv, InputInOrder, Taken
<1> QED BY <1>4, <1>5

LEMMA FillOpenStep == ReadInv /\ FillOpen => ReadInv'
<1> SUFFICES ASSUME ReadInv, FillOpen PROVE ReadInv'
    OBVIOUS
<1>1. ReadType /\ ReaderInv /\ InputInOrder /\ reader.pc = "open"
      /\ isOpen' = isOpen /\ UNCHANGED <<unread, input, handed>>
      BY DEF ReadInv, FillOpen, device
<1>2. CASE isOpen
  <2>1. reader' = [reader EXCEPT !.pc = "native"]
        BY <1>2 DEF FillOpen
  <2>2. reader' = [pc |-> "native", call |-> reader.call, len |-> reader.len,
                   got |-> reader.got]
        BY <1>1, <2>1 DEF ReadType
  <2> QED BY <1>1, <2>2 DEF ReadInv, ReadType, ReaderInv, InputInOrder, Rest
<1>3. CASE ~isOpen
  <2>1. reader' = Idle
        BY <1>3 DEF FillOpen
  <2>2. ReadType'
        BY <1>1, <2>1, IdleType, Empty DEF ReadType, Idle
  <2> QED BY <1>1, <1>3, <2>1, <2>2 DEF ReadInv, ReaderInv, InputInOrder, Idle
<1> QED BY <1>2, <1>3

(* The native method gave null: nothing is taken, and the bytes of the call   *)
(* in progress are returned or there are none.                                *)
LEMMA NotFilledStep ==
    ASSUME ReadType, ReaderInv, reader.pc = "native", NotFilled,
           unread' \in Seq(0..255)
    PROVE  ReadType' /\ ReaderInv' /\ Taken' = Taken
<1>1. /\ handed \in Seq(JavaByte) /\ reader.got \in Seq(JavaByte)
      /\ Rest = <<>>
      BY RestType DEF ReadType, ReaderInv
<1>2. input' = [buffer |-> <<>>, ptr |-> 0]
      BY DEF NotFilled, ReadType
<1>3. /\ input' \in [buffer : Seq(JavaByte), ptr : Nat]
      /\ input'.ptr <= Len(input'.buffer) /\ Len(input'.buffer) <= InBuffer
      /\ input'.ptr = Len(input'.buffer)
      BY <1>2, Empty, StreamsAssumption
<1>4. Rest' = <<>>
      BY <1>2, Empty, SubSeqEmpty DEF Rest
<1>5. handed \o reader.got \in Seq(JavaByte)
      BY <1>1, ConcatType
<1>6. (handed \o reader.got) \o <<>> = handed \o reader.got
      BY <1>5, ConcatEmptySeq
<1>7. CASE handed' = handed \o reader.got /\ reader' = Idle
  <2>1. reader'.got = <<>> /\ Len(reader'.got) <= reader'.len
        BY <1>7, Empty DEF Idle
  <2>2. ReadType'
        BY <1>3, <1>5, <1>7, <2>1, IdleType DEF ReadType
  <2>3. ReaderInv'
        BY <1>7 DEF ReaderInv, Idle
  <2> QED BY <1>1, <1>4, <1>6, <1>7, <2>1, <2>2, <2>3 DEF Taken
<1>8. CASE /\ reader' = [reader EXCEPT !.pc = "open", !.call = "more"]
           /\ handed' = handed
  <2>1. reader' = [pc |-> "open", call |-> "more", len |-> reader.len,
                   got |-> reader.got]
        BY <1>8 DEF ReadType
  <2>2. ReadType'
        BY <1>3, <1>8, <2>1 DEF ReadType
  <2>3. ReaderInv'
        BY <1>3, <2>1 DEF ReaderInv
  <2> QED BY <1>1, <1>4, <1>8, <2>1, <2>2, <2>3 DEF Taken
<1> QED BY <1>7, <1>8 DEF NotFilled

(* The native method gave the bytes of buffer.                                *)
LEMMA FilledStep ==
    ASSUME ReadType, ReaderInv, reader.pc = "native",
           NEW buffer \in Seq(JavaByte), Len(buffer) <= InBuffer,
           Filled(buffer), unread' \in Seq(0..255)
    PROVE  ReadType' /\ ReaderInv' /\ Taken' = Taken \o buffer
<1> DEFINE n == IF reader.call = "byte" THEN 1 ELSE reader.len - Len(reader.got)
<1>1. /\ handed \in Seq(JavaByte) /\ reader.got \in Seq(JavaByte)
      /\ Len(reader.got) \in Nat /\ reader.len \in Nat
      /\ Len(buffer) \in Nat /\ Rest = <<>>
      BY RestType, LenProperties, StreamsAssumption DEF ReadType, ReaderInv
<1>2. n \in Nat
      BY <1>1 DEF ReadType
<1>3. handed \o reader.got \in Seq(JavaByte)
      BY <1>1, ConcatType
<1>4. Taken = handed \o reader.got
      BY <1>1, <1>3, ConcatEmptySeq DEF Taken
<1>5. CASE reader.call = "available" /\ n > Len(buffer)
  <2>1. /\ reader' = [reader EXCEPT !.pc = "open", !.call = "more", !.got = buffer]
        /\ input' = [buffer |-> buffer, ptr |-> Len(buffer)]
        /\ handed' = handed
        BY <1>5 DEF Filled
  <2>2. reader' = [pc |-> "open", call |-> "more", len |-> reader.len,
                   got |-> buffer]
        BY <2>1 DEF ReadType
  <2>3. reader.got = <<>> /\ n = reader.len
        BY <1>1, <1>5, Empty DEF ReaderInv
  <2>4. ReadType'
    <3>1. input' \in [buffer : Seq(JavaByte), ptr : Nat]
          /\ input'.ptr <= Len(input'.buffer) /\ Len(input'.buffer) <= InBuffer
          BY <1>1, <2>1
    <3>2. Len(reader'.got) <= reader'.len
          BY <1>1, <1>5, <2>2, <2>3
    <3>3. reader' \in [pc : {"idle", "open", "native"},
                       call : {"none", "byte", "available", "more"},
                       len : 0..InBuffer + 1, got : Seq(JavaByte)]
          BY <2>2 DEF ReadType
    <3> QED BY <1>1, <2>1, <3>1, <3>2, <3>3 DEF ReadType
  <2>5. ReaderInv'
        BY <2>1, <2>2 DEF ReaderInv
  <2>6. Rest' = <<>>
        BY <1>1, <2>1, SubSeqEmpty DEF Rest
  <2>7. handed \o buffer \in Seq(JavaByte)
        BY <1>1, ConcatType
  <2>8. (handed \o buffer) \o <<>> = handed \o buffer /\ handed \o <<>> = handed
        BY <1>1, <2>7, ConcatEmptySeq
  <2>9. Taken' = (handed \o buffer) \o <<>>
        BY <2>1, <2>2, <2>6 DEF Taken
  <2> QED BY <1>4, <2>3, <2>4, <2>5, <2>8, <2>9
<1>6. CASE ~(reader.call = "available" /\ n > Len(buffer))
  <2>1. Return(buffer, 0, Min2(n, Len(buffer)))
        BY <1>6 DEF Filled
  <2>2. 0 \in 0..Len(buffer) /\ Min2(n, Len(buffer)) \in 0..Len(buffer) - 0
        BY <1>1, <1>2 DEF Min2
  <2>3. /\ ReadType' /\ ReaderInv'
        /\ Taken' = handed \o reader.got \o SubSeq(buffer, 0 + 1, Len(buffer))
        BY <2>1, <2>2, ReturnStep
  <2>4. SubSeq(buffer, 0 + 1, Len(buffer)) = buffer
        BY SubSeqFull
  <2> QED BY <1>4, <2>3, <2>4
<1> QED BY <1>5, <1>6

LEMMA ReadDataStep == ReadInv /\ ReadData => ReadInv'
<1> SUFFICES ASSUME ReadInv, ReadData PROVE ReadInv'
    OBVIOUS
<1>1. ReadType /\ ReaderInv /\ InputInOrder /\ reader.pc = "native"
      /\ isOpen' = isOpen
      BY DEF ReadInv, ReadData, device
<1>2. PICK n \in 0..Min2(InBuffer, Len(unread)) :
        /\ unread' = SubSeq(unread, n + 1, Len(unread))
        /\ IF n = 0 THEN NotFilled ELSE Filled(Signed(SubSeq(unread, 1, n)))
      BY DEF ReadData
<1>3. /\ unread \in Seq(0..255) /\ Len(unread) \in Nat
      /\ n \in 0..Len(unread) /\ n <= InBuffer
      BY <1>1, <1>2, LenProperties, StreamsAssumption DEF ReadType, Min2
<1>4. /\ SubSeq(unread, 1, n) \in Seq(0..255) /\ Len(SubSeq(unread, 1, n)) = n
      /\ unread' \in Seq(0..255)
      /\ Signed(SubSeq(unread, 1, n)) \o Signed(unread') = Signed(unread)
      BY <1>2, <1>3, SignedSplit
<1>5. CASE n = 0
  <2>1. unread' = unread
        BY <1>2, <1>3, <1>5, SubSeqFull
  <2>2. ReadType' /\ ReaderInv' /\ Taken' = Taken
        BY <1>1, <1>2, <1>4, <1>5, NotFilledStep
  <2> QED BY <1>1, <2>1, <2>2 DEF ReadInv, InputInOrder, Taken
<1>6. CASE n # 0
  <2> DEFINE buffer == Signed(SubSeq(unread, 1, n))
  <2>1. buffer \in Seq(JavaByte) /\ Len(buffer) <= InBuffer
        BY <1>3, <1>4, SignedSeq
  <2>2. Filled(buffer)
        BY <1>2, <1>6
  <2>3. buffer \o Signed(unread') = Signed(unread)
        BY <1>4
  <2>4. Signed(unread') \in Seq(JavaByte)
        BY <1>4, SignedSeq
  <2> HIDE DEF buffer
  <2>5. ReadType' /\ ReaderInv' /\ Taken' = Taken \o buffer
        BY <1>1, <1>4, <2>1, <2>2, FilledStep
  <2>6. Taken \in Seq(JavaByte)
    <3>1. handed \o reader.got \in Seq(JavaByte)
          BY <1>1, ConcatType DEF ReadType
    <3>2. Rest \in Seq(JavaByte)
          BY <1>1, RestType
    <3> QED BY <3>1, <3>2, ConcatType DEF Taken
  <2>7. (Taken \o buffer) \o Signed(unread') = Taken \o (buffer \o Signed(unread'))
        BY <2>1, <2>4, <2>6, Assoc
  <2>8. isOpen => Taken \o Signed(unread) = Signed(InData)
        BY <1>1 DEF InputInOrder, Taken
  <2>9. isOpen' => Taken' \o Signed(unread') = Signed(InData)
        BY <1>1, <2>3, <2>5, <2>7, <2>8
  <2> QED BY <2>5, <2>9 DEF ReadInv, InputInOrder, Taken
<1> QED BY <1>5, <1>6

LEMMA InputStreamStep == ReadInv /\ InputStream => ReadInv'
  BY ReadByteStep, ReadArrayStep, FillOpenStep, ReadDataStep DEF InputStream

(* The other thread, and the device, only close the port.                     *)
LEMMA ReadInvKept == ReadInv /\ UNCHANGED reading /\ (isOpen' => isOpen) => ReadInv'
  BY DEF ReadInv, ReadType, ReaderInv, InputInOrder, Rest, reading

-----------------------------------------------------------------------------
(* Output stream *)

(* The types of the writing half. *)
WriteType ==
    /\ failed \in BOOLEAN
    /\ output \in Seq(JavaByte) /\ Len(output) <= OutBuffer
    /\ writer \in [pc : {"idle", "open", "native"},
                   call : {"none", "byte", "array", "flush"},
                   flushing : BOOLEAN, todo : Seq(JavaByte)]
    /\ accepted \in 0..Len(OutData)
    /\ sent \in Seq(JavaByte)

(* An argument is written only past an empty buffer; the byte of write(b)     *)
(* waits for a flush, and flush() has no argument.                            *)
WriterInv ==
    /\ writer.pc = "idle" => writer = NoWrite
    /\ writer.pc # "idle" /\ ~writer.flushing => output = <<>>
    /\ writer.call = "byte" => writer.flushing /\ Len(writer.todo) = 1
    /\ writer.call = "flush" => writer.flushing
    /\ writer.call \in {"none", "flush"} => writer.todo = <<>>

WriteInv == WriteType /\ WriterInv /\ OutputInOrder

(* What has been given to the stream: it is sent, in the buffer or waiting.   *)
Given == sent \o output \o writer.todo

LEMMA ArgumentType ==
    ASSUME NEW n \in Nat, accepted \in Nat, accepted + n <= Len(OutData)
    PROVE  /\ Argument(n) \in Seq(JavaByte) /\ Len(Argument(n)) = n
           /\ accepted + n \in 0..Len(OutData)
           /\ SubSeq(OutData, 1, accepted) \o Argument(n)
                = SubSeq(OutData, 1, accepted + n)
<1>1. OutData \in Seq(JavaByte) /\ Len(OutData) \in Nat
      BY StreamsAssumption, LenProperties
<1>2. /\ accepted \in 0..Len(OutData) /\ accepted + n \in accepted..Len(OutData)
      /\ accepted + n \in 0..Len(OutData)
      BY <1>1
<1>3. /\ Argument(n) \in Seq(JavaByte)
      /\ Len(Argument(n)) = (accepted + n) - accepted
      BY <1>1, <1>2, Split DEF Argument
<1>4. /\ 1 \in 1..Len(OutData) + 1 /\ accepted \in 1 - 1..Len(OutData)
      /\ accepted + n \in accepted..Len(OutData)
      BY <1>1, <1>2
<1>5. SubSeq(OutData, 1, accepted) \o SubSeq(OutData, accepted + 1, accepted + n)
        = SubSeq(OutData, 1, accepted + n)
      BY <1>1, <1>4, ConcatAdjacentSubSeq
<1> QED BY <1>1, <1>2, <1>3, <1>5 DEF Argument

LEMMA NoWriteType ==
    NoWrite \in [pc : {"idle", "open", "native"},
                 call : {"none", "byte", "array", "flush"},
                 flushing : BOOLEAN, todo : Seq(JavaByte)]
  BY Empty DEF NoWrite

(* A call begins: its argument is behind what the stream has.                 *)
LEMMA BeginStep ==
    ASSUME WriteInv, writer.pc = "idle", NEW arg \in Seq(JavaByte),
           NEW call \in {"byte", "array", "flush"}, NEW flushing \in BOOLEAN,
           writer' = [pc |-> "open", call |-> call, flushing |-> flushing,
                      todo |-> arg],
           UNCHANGED <<output, failed, sent>>, accepted' \in 0..Len(OutData),
           SubSeq(OutData, 1, accepted) \o arg = SubSeq(OutData, 1, accepted'),
           ~flushing => output = <<>>,
           call = "byte" => flushing /\ Len(arg) = 1,
           call = "flush" => flushing /\ arg = <<>>
    PROVE  WriteInv'
<1>1. WriteType /\ WriterInv /\ OutputInOrder
      BY DEF WriteInv
<1>2. WriteType'
      BY <1>1 DEF WriteType
<1>3. WriterInv'
      BY <1>1 DEF WriterInv
<1>4. sent \o output \in Seq(JavaByte)
      BY <1>1, ConcatType DEF WriteType
<1>5. Given = sent \o output
  <2>1. writer.todo = <<>>
        BY <1>1 DEF WriterInv, NoWrite
  <2>2. (sent \o output) \o <<>> = sent \o output
        BY <1>4, ConcatEmptySeq
  <2> QED BY <2>1, <2>2 DEF Given
<1>6. Given' = Given \o arg
      BY <1>5 DEF Given
<1>7. OutputInOrder'
      BY <1>1, <1>6 DEF OutputInOrder, Given
<1> QED BY <1>2, <1>3, <1>7 DEF WriteInv

LEMMA WriteByteStep == WriteInv /\ WriteByte => WriteInv'
<1> SUFFICES ASSUME WriteInv, WriteByte PROVE WriteInv'
    OBVIOUS
<1>1. /\ WriteType /\ WriterInv /\ OutputInOrder /\ writer = NoWrite
      /\ accepted \in Nat /\ accepted + 1 <= Len(OutData)
      /\ accepted' = accepted + 1 /\ failed' = failed /\ sent' = sent
  <2>1. Len(OutData) \in Nat
        BY StreamsAssumption, LenProperties
  <2> QED BY <2>1 DEF WriteInv, WriteByte, WriteType, WriterInv
<1>2. /\ Argument(1) \in Seq(JavaByte) /\ Len(Argument(1)) = 1
      /\ accepted' \in 0..Len(OutData)
      /\ SubSeq(OutData, 1, accepted) \o Argument(1) = SubSeq(OutData, 1, accepted')
      BY <1>1, ArgumentType
<1>3. CASE Len(output) = OutBuffer
  <2>1. /\ writer' = [pc |-> "open", call |-> "byte", flushing |-> TRUE,
                      todo |-> Argument(1)]
        /\ output' = output
        BY <1>3 DEF WriteByte
  <2> QED BY <1>1, <1>2, <2>1, BeginStep DEF NoWrite
<1>4. CASE Len(output) # OutBuffer
  <2>1. output' = output \o Argument(1) /\ writer' = writer
        BY <1>4 DEF WriteByte
  <2>2. output' \in Seq(JavaByte) /\ Len(output') = Len(output) + 1
        BY <1>1, <1>2, <2>1, ConcatType DEF WriteType
  <2>3. Len(output') <= OutBuffer
    <3>1. Len(output) \in Nat /\ OutBuffer \in Nat /\ Len(output) <= OutBuffer
          BY <1>1, StreamsAssumption, LenProperties DEF WriteType
    <3> QED BY <1>4, <2>2, <3>1
  <2>4. WriteType'
        BY <1>1, <1>2, <2>1, <2>2, <2>3 DEF WriteType
  <2>5. WriterInv'
        BY <1>1, <2>1 DEF WriterInv, NoWrite
  <2>6. sent \o output \in Seq(JavaByte) /\ sent \o output' \in Seq(JavaByte)
        BY <1>1, <2>2, ConcatType DEF WriteType
  <2>7. Given = sent \o output /\ Given' = sent \o output'
        BY <1>1, <2>1, <2>6, ConcatEmptySeq DEF Given, NoWrite
  <2>8. sent \o output' = (sent \o output) \o Argument(1)
        BY <1>1, <1>2, <2>1, Assoc DEF WriteType
  <2>9. OutputInOrder'
        BY <1>1, <1>2, <2>7, <2>8 DEF OutputInOrder, Given
  <2> QED BY <2>4, <2>5, <2>9 DEF WriteInv
<1> QED BY <1>3, <1>4

LEMMA WriteArrayStep ==
    ASSUME WriteInv, NEW n \in Nat, WriteArray(n)
    PROVE  WriteInv'
<1>1. /\ WriteType /\ writer.pc = "idle"
      /\ accepted \in Nat /\ accepted + n <= Len(OutData)
      /\ accepted' = accepted + n /\ UNCHANGED <<output, failed, sent>>
  <2>1. Len(OutData) \in Nat
        BY StreamsAssumption, LenProperties
  <2> QED BY <2>1 DEF WriteInv, WriteArray, WriteType
<1>2. /\ Argument(n) \in Seq(JavaByte) /\ accepted' \in 0..Len(OutData)
      /\ SubSeq(OutData, 1, accepted) \o Argument(n) = SubSeq(OutData, 1, accepted')
      BY <1>1, ArgumentType
<1>3. writer' = [pc |-> "open", call |-> "array", flushing |-> output # <<>>,
                 todo |-> Argument(n)]
      BY DEF WriteArray
<1>4. (output # <<>>) \in BOOLEAN /\ (~(output # <<>>) => output = <<>>)
      OBVIOUS
<1> QED BY <1>1, <1>2, <1>3, <1>4, BeginStep

LEMMA FlushStep == WriteInv /\ Flush => WriteInv'
<1> SUFFICES ASSUME WriteInv, Flush PROVE WriteInv'
    OBVIOUS
<1>1. /\ WriteType /\ writer.pc = "idle" /\ accepted' = accepted
      /\ accepted' \in 0..Len(OutData) /\ UNCHANGED <<output, failed, sent>>
      BY DEF WriteInv, Flush, WriteType
<1>2. writer' = [pc |-> "open", call |-> "flush", flushing |-> TRUE, todo |-> <<>>]
      BY DEF Flush, NoWrite
<1>3. SubSeq(OutData, 1, accepted) \o <<>> = SubSeq(OutData, 1, accepted')
  <2>1. /\ OutData \in Seq(JavaByte) /\ 0 \in 0..Len(OutData)
        /\ accepted \in 0..Len(OutData)
        BY <1>1, StreamsAssumption, LenProperties
  <2>2. SubSeq(OutData, 0 + 1, accepted) \in Seq(JavaByte)
        BY <2>1, Split
  <2> QED BY <1>1, <2>2, ConcatEmptySeq
<1> QED BY <1>1, <1>2, <1>3, Empty, BeginStep

(* A call that throws leaves the buffer as it is, and ends the claim.         *)
LEMMA ThrowStep ==
    ASSUME WriteInv, Throw, UNCHANGED <<output, accepted>>, sent' \in Seq(JavaByte)
    PROVE  WriteInv'
<1>1. writer' = NoWrite /\ failed' = TRUE
      BY DEF Throw
<1>2. WriteType'
      BY <1>1, NoWriteType DEF WriteInv, WriteType
<1>3. WriterInv'
  <2>1. /\ writer'.pc = "idle" /\ writer'.call = "none"
        /\ writer'.todo = <<>>
        BY <1>1 DEF NoWrite
  <2> QED BY <1>1, <2>1 DEF WriterInv
<1>4. OutputInOrder'
      BY <1>1 DEF OutputInOrder
<1> QED BY <1>2, <1>3, <1>4 DEF WriteInv

LEMMA WriteOpenStep == WriteInv /\ WriteOpen => WriteInv'
<1> SUFFICES ASSUME WriteInv, WriteOpen PROVE WriteInv'
    OBVIOUS
<1>1. WriteType /\ WriterInv /\ OutputInOrder /\ UNCHANGED <<output, accepted, sent>>
      BY DEF WriteInv, WriteOpen
<1>2. CASE isOpen
  <2>1. writer' = [writer EXCEPT !.pc = "native"] /\ failed' = failed
        /\ writer.pc = "open"
        BY <1>2 DEF WriteOpen
  <2>2. writer' = [pc |-> "native", call |-> writer.call,
                   flushing |-> writer.flushing, todo |-> writer.todo]
        BY <1>1, <2>1 DEF WriteType
  <2>3. WriteType'
        BY <1>1, <2>1, <2>2 DEF WriteType
  <2>4. WriterInv'
        BY <1>1, <2>1, <2>2 DEF WriterInv
  <2> QED BY <1>1, <2>1, <2>2, <2>3, <2>4 DEF WriteInv, OutputInOrder
<1>3. CASE ~isOpen
  <2>1. Throw /\ sent' \in Seq(JavaByte)
        BY <1>1, <1>3 DEF WriteOpen, WriteType
  <2> QED BY <1>1, <2>1, ThrowStep
<1> QED BY <1>2, <1>3

(* The native method has written n bytes: fewer than all of them, the whole   *)
(* buffer, or the whole argument.                                             *)
LEMMA WriteDataStep == WriteInv /\ WriteData => WriteInv' /\ (isOpen' => isOpen)
<1> SUFFICES ASSUME WriteInv, WriteData PROVE WriteInv' /\ (isOpen' => isOpen)
    OBVIOUS
<1> DEFINE data == IF writer.flushing THEN output ELSE writer.todo
<1>1. /\ WriteType /\ WriterInv /\ OutputInOrder
      /\ writer.pc = "native" /\ accepted' = accepted
      BY DEF WriteInv, WriteData
<1>2. PICK n \in 0..Len(data) :
        /\ sent' = sent \o SubSeq(data, 1, n)
        /\ isOpen' = (isOpen /\ (n = 0 => data = <<>>))
        /\ \/ n < Len(data) /\ Throw /\ UNCHANGED output
           \/ n = Len(data) /\ writer.flushing /\ Flushed /\ UNCHANGED failed
           \/ /\ n = Len(data) /\ ~writer.flushing
              /\ writer' = NoWrite
              /\ UNCHANGED <<output, failed>>
      BY DEF WriteData
<1>3. isOpen' => isOpen
      BY <1>2
<1>4. /\ output \in Seq(JavaByte) /\ writer.todo \in Seq(JavaByte)
      /\ sent \in Seq(JavaByte) /\ data \in Seq(JavaByte) /\ Len(data) \in Nat
      BY <1>1, LenProperties DEF WriteType
<1>5. sent' \in Seq(JavaByte)
  <2>1. 0 \in 0..Len(data) /\ n \in 0..Len(data)
        BY <1>2, <1>4
  <2>2. SubSeq(data, 0 + 1, n) \in Seq(JavaByte)
        BY <1>4, <2>1, Split
  <2>3. sent \o SubSeq(data, 1, n) \in Seq(JavaByte)
        BY <1>4, <2>2, ConcatType
  <2> QED BY <1>2, <2>3
<1>6. n = Len(data) => sent' = sent \o data
      BY <1>2, <1>4, SubSeqFull
<1>7. Given = (sent \o output) \o writer.todo
      BY DEF Given
<1>8. /\ sent \o output \in Seq(JavaByte) /\ sent \o <<>> = sent
      /\ (sent \o output) \o <<>> = sent \o output
      BY <1>4, ConcatType, ConcatEmptySeq
<1>9. ASSUME WriteType', WriterInv', Given' = Given, failed' = failed
      PROVE  WriteInv'
  <2>1. OutputInOrder'
        BY <1>1, <1>9 DEF OutputInOrder, Given
  <2> QED BY <1>9, <2>1 DEF WriteInv
<1>10. CASE n < Len(data) /\ Throw /\ UNCHANGED output
  <2>1. Throw /\ UNCHANGED <<output, accepted>>
        BY <1>1, <1>10
  <2>2. WriteInv'
        BY <1>5, <2>1, ThrowStep
  <2> QED BY <1>3, <2>2
<1>11. CASE n = Len(data) /\ writer.flushing /\ Flushed /\ UNCHANGED failed
  <2>1. sent' = sent \o output
        BY <1>6, <1>11
  <2>2. CASE writer.call = "byte"
    <3>1. output' = writer.todo /\ writer' = NoWrite
          BY <1>11, <2>2 DEF Flushed
    <3>2. Len(writer.todo) <= OutBuffer
      <4>1. Len(writer.todo) = 1
            BY <1>1, <2>2 DEF WriterInv
      <4>2. 1 <= OutBuffer
            BY StreamsAssumption
      <4> QED BY <4>1, <4>2
    <3>3. WriteType'
          BY <1>1, <1>4, <1>5, <1>11, <3>1, <3>2, NoWriteType DEF WriteType
    <3>4. WriterInv'
          BY <3>1 DEF WriterInv, NoWrite
    <3>5. Given' = Given
      <4>1. (sent \o output) \o writer.todo \in Seq(JavaByte)
            BY <1>4, <1>8, ConcatType
      <4>2. ((sent \o output) \o writer.todo) \o <<>> = (sent \o output) \o writer.todo
            BY <4>1, ConcatEmptySeq
      <4> QED BY <2>1, <3>1, <4>2 DEF Given, NoWrite
    <3> QED BY <1>3, <1>9, <1>11, <3>3, <3>4, <3>5
  <2>3. CASE writer.call = "array"
    <3>1. output' = <<>> /\ writer' = [writer EXCEPT !.pc = "open", !.flushing = FALSE]
          BY <1>11, <2>3 DEF Flushed
    <3>2. writer' = [pc |-> "open", call |-> "array", flushing |-> FALSE,
                     todo |-> writer.todo]
          BY <1>1, <2>3, <3>1 DEF WriteType
    <3>3. WriteType'
      <4>1. output' \in Seq(JavaByte) /\ Len(output') <= OutBuffer
            BY <3>1, Empty, StreamsAssumption
      <4> QED BY <1>1, <1>4, <1>5, <1>11, <3>2, <4>1 DEF WriteType
    <3>4. WriterInv'
      <4>1. /\ writer'.pc # "idle" /\ writer'.call # "byte"
            /\ writer'.call # "flush" /\ writer'.call \notin {"none", "flush"}
            BY <3>2
      <4>2. output' = <<>>
            BY <3>1
      <4> QED BY <4>1, <4>2, Zenon DEF WriterInv
    <3>5. Given' = Given
          BY <1>8, <2>1, <3>1, <3>2 DEF Given
    <3> QED BY <1>3, <1>9, <1>11, <3>3, <3>4, <3>5
  <2>4. CASE writer.call \notin {"byte", "array"}
    <3>1. output' = <<>> /\ writer' = NoWrite /\ writer.todo = <<>>
          BY <1>1, <1>11, <2>4 DEF Flushed, WriterInv, WriteType
    <3>2. WriteType'
      <4>1. output' \in Seq(JavaByte) /\ Len(output') <= OutBuffer
            BY <3>1, Empty, StreamsAssumption
      <4> QED BY <1>1, <1>5, <1>11, <3>1, <4>1, NoWriteType DEF WriteType
    <3>3. WriterInv'
          BY <3>1 DEF WriterInv, NoWrite
    <3>4. Given' = Given
          BY <1>8, <2>1, <3>1 DEF Given, NoWrite
    <3> QED BY <1>3, <1>9, <1>11, <3>2, <3>3, <3>4
  <2> QED BY <2>2, <2>3, <2>4
<1>12. CASE /\ n = Len(data) /\ ~writer.flushing
            /\ writer' = NoWrite
            /\ UNCHANGED <<output, failed>>
  <2>1. sent' = sent \o writer.todo /\ output = <<>>
        BY <1>1, <1>6, <1>12 DEF WriterInv
  <2>2. WriteType'
        BY <1>1, <1>5, <1>12, NoWriteType DEF WriteType
  <2>3. WriterInv'
        BY <1>12 DEF WriterInv, NoWrite
  <2>4. Given' = Given
    <3>1. sent \o writer.todo \in Seq(JavaByte)
          BY <1>4, ConcatType
    <3>2. (sent \o writer.todo) \o <<>> = sent \o writer.todo
          BY <3>1, ConcatEmptySeq
    <3> QED BY <1>8, <1>12, <2>1, <3>2 DEF Given, NoWrite
  <2> QED BY <1>3, <1>9, <1>12, <2>2, <2>3, <2>4
<1> QED BY <1>2, <1>10, <1>11, <1>12, <1>3

LEMMA OutputStreamStep ==
    WriteInv /\ OutputStream => WriteInv' /\ (isOpen' => isOpen) /\ UNCHANGED reading
<1> SUFFICES ASSUME WriteInv, OutputStream
             PROVE  WriteInv' /\ (isOpen' => isOpen) /\ UNCHANGED reading
    OBVIOUS
<1>1. CASE WriteByte
      BY <1>1, WriteByteStep DEF WriteByte, device
<1>2. CASE \E n \in 0..OutBuffer + 1 : WriteArray(n)
  <2>1. PICK n \in 0..OutBuffer + 1 : WriteArray(n)
        BY <1>2
  <2>2. n \in Nat
        BY StreamsAssumption
  <2> QED BY <2>1, <2>2, WriteArrayStep DEF WriteArray, device
<1>3. CASE Flush
      BY <1>3, FlushStep DEF Flush, device
<1>4. CASE WriteOpen
      BY <1>4, WriteOpenStep DEF WriteOpen, device
<1>5. CASE WriteData
      BY <1>5, WriteDataStep DEF WriteData
<1> QED BY <1>1, <1>2, <1>3, <1>4, <1>5 DEF OutputStream

LEMMA WriteInvKept == WriteInv /\ UNCHANGED writing => WriteInv'
  BY DEF WriteInv, WriteType, WriterInv, OutputInOrder, writing

-----------------------------------------------------------------------------
(* Both streams over one port *)

IInv == ReadInv /\ WriteInv /\ isOpen \in BOOLEAN /\ attached \in BOOLEAN

LEMMA InitIInv == Init => IInv
<1> SUFFICES ASSUME Init PROVE IInv
    OBVIOUS
<1> USE DEF Init
<1>1. InData \in Seq(0..255) /\ Len(OutData) \in Nat /\ 0 \in 0..Len(OutData)
      /\ InBuffer \in Nat /\ OutBuffer \in Nat
      BY StreamsAssumption, LenProperties
<1>2. ReadType
      BY <1>1, IdleType, Empty DEF ReadType, Idle
<1>3. ReaderInv
      BY DEF ReaderInv, Idle
<1>4. InputInOrder
  <2>1. Rest = <<>>
        BY <1>2, Empty, RestType
  <2>2. Signed(InData) \in Seq(JavaByte)
        BY <1>1, SignedSeq
  <2>3. <<>> \o <<>> = <<>> /\ <<>> \o Signed(InData) = Signed(InData)
        BY <2>2, Empty, ConcatEmptySeq
  <2> QED BY <2>1, <2>3 DEF InputInOrder, Idle
<1>5. WriteType
  <2>1. output \in Seq(JavaByte) /\ sent \in Seq(JavaByte) /\ Len(output) <= OutBuffer
        BY <1>1, Empty
  <2>2. accepted \in 0..Len(OutData) /\ failed \in BOOLEAN
        BY <1>1
  <2> QED BY <2>1, <2>2, NoWriteType DEF WriteType
<1>6. WriterInv
      BY DEF WriterInv, NoWrite
<1>7. OutputInOrder
  <2>1. SubSeq(OutData, 1, 0) = <<>>
        BY SubSeqEmpty
  <2>2. <<>> \o <<>> = <<>>
        BY Empty, ConcatEmptySeq
  <2> QED BY <2>1, <2>2 DEF OutputInOrder, NoWrite
<1> QED BY <1>2, <1>3, <1>4, <1>5, <1>6, <1>7 DEF IInv, ReadInv, WriteInv

LEMMA NextIInv == IInv /\ [Next]_vars => IInv'
<1> SUFFICES ASSUME IInv, [Next]_vars PROVE IInv'
    OBVIOUS
<1>1. ReadInv /\ WriteInv
      BY DEF IInv
<1>2. isOpen' \in BOOLEAN /\ attached' \in BOOLEAN
  <2>1. CASE InputStream
        BY <2>1 DEF IInv, InputStream, ReadByte, ReadArray, FillOpen, ReadData, device
  <2>2. CASE OutputStream
    <3>1. CASE WriteData
          BY <3>1, Zenon DEF IInv, WriteData
    <3>2. CASE ~WriteData
          BY <2>2, <3>2 DEF IInv, OutputStream, WriteByte, WriteArray, Flush,
                            WriteOpen, device
    <3> QED BY <3>1, <3>2
  <2>3. CASE Close \/ Unplug \/ UNCHANGED vars
        BY <2>3 DEF IInv, Close, Unplug, vars, device
  <2> QED BY <2>1, <2>2, <2>3 DEF Next
<1>3. CASE InputStream
  <2>1. ReadInv'
        BY <1>1, <1>3, InputStreamStep
  <2>2. UNCHANGED writing
        BY <1>3 DEF InputStream, ReadByte, ReadArray, FillOpen, ReadData
  <2> QED BY <1>1, <1>2, <2>1, <2>2, WriteInvKept DEF IInv
<1>4. CASE OutputStream
      BY <1>1, <1>2, <1>4, OutputStreamStep, ReadInvKept DEF IInv
<1>5. CASE Close \/ Unplug \/ UNCHANGED vars
  <2>1. UNCHANGED <<reading, writing>> /\ (isOpen' => isOpen)
        BY <1>5 DEF Close, Unplug, vars, device
  <2> QED BY <1>1, <1>2, <2>1, ReadInvKept, WriteInvKept DEF IInv
<1> QED BY <1>3, <1>4, <1>5 DEF Next

LEMMA InvariantHolds == Spec => []IInv
  BY InitIInv, NextIInv, PTL DEF Spec

-----------------------------------------------------------------------------
(* The types of the streams: no buffer is overrun, and bufferPtr stays within *)
(* the buffer, for any data and any buffer sizes.                             *)
THEOREM TypeCorrect == Spec => []TypeOK
<1>1. IInv => TypeOK
      BY DEF IInv, ReadInv, WriteInv, ReadType, WriteType, TypeOK
<1> QED BY <1>1, InvariantHolds, PTL

(* While the port is open, whatever the native reads return and whatever the  *)
(* mix of reading methods, the bytes of the port are handed on in order.      *)
THEOREM ReadsInOrder == Spec => []InputInOrder
<1>1. IInv => InputInOrder
      BY DEF IInv, ReadInv
<1> QED BY <1>1, InvariantHolds, PTL

(* Until a call throws, the device gets the bytes of write(b), write(b, off,  *)
(* len) and flush() in the order of the calls.                                *)
THEOREM WritesInOrder == Spec => []OutputInOrder
<1>1. IInv => OutputInOrder
      BY DEF IInv, WriteInv
<1> QED BY <1>1, InvariantHolds, PTL
=============================================================================

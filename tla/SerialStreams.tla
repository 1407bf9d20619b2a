--------------------------- MODULE SerialStreams ---------------------------
(* The Java streams over one serial port (SerialPortInputStream.java,         *)
(* SerialPortOutputStream.java, writeData of SerialPort.java): a program with *)
(* a thread that reads the input stream and a thread that writes the output   *)
(* stream. The threads meet at the port: a write that transfers nothing       *)
(* closes it, and each stream looks at isOpen() before it calls the port. The *)
(* program does not open the port again.                                      *)
(*                                                                            *)
(* A call of the native library is a step; SerialPortLin has its detail. It   *)
(* gives null, here an empty buffer, when the read times out or fails. The    *)
(* two reading modes differ only in the native method they call.              *)
EXTENDS Integers, Sequences

CONSTANTS
    InData,         \* the bytes the device sends
    OutData,        \* the bytes the program writes
    InBuffer,       \* bufferSize of the input stream
    OutBuffer,      \* bufferSize of the output stream
    MaxSent         \* bounds the calls that send bytes again after a failure

JavaByte == -128..127

ASSUME StreamsAssumption ==
    /\ InData \in Seq(0..255) /\ OutData \in Seq(JavaByte)
    /\ InBuffer \in Nat \ {0} /\ OutBuffer \in Nat \ {0} /\ MaxSent \in Nat

VARIABLES
    isOpen,     \* the port is open
    attached,   \* the device is there
    unread,     \* what the device has sent and nobody has read
    input,      \* buffer and bufferPtr of the input stream
    reader,     \* where the reading thread is, with the locals of its call
    handed,     \* what the calls of the input stream have returned
    output,     \* the bytes in buffer below bufferPtr of the output stream
    writer,     \* where the writing thread is, with the argument of its call
    accepted,   \* the number of bytes of OutData passed to the output stream
    failed,     \* a call of the output stream has thrown
    sent        \* what the device has got

device  == <<isOpen, attached>>
reading == <<unread, input, reader, handed>>
writing == <<output, writer, accepted, failed, sent>>
vars    == <<device, reading, writing>>

Min2(a, b) == IF a < b THEN a ELSE b

(* A byte becomes a signed one in the array the native method makes. read()   *)
(* widens it with its sign.                                                   *)
Signed(bytes) ==
    [i \in DOMAIN bytes |-> IF bytes[i] > 127 THEN bytes[i] - 256 ELSE bytes[i]]

Idle == [pc |-> "idle", call |-> "none", len |-> 0, got |-> <<>>]

NoWrite == [pc |-> "idle", call |-> "none", flushing |-> FALSE, todo |-> <<>>]

Init ==
    /\ isOpen = TRUE
    /\ attached = TRUE
    /\ unread = InData
    /\ input = [buffer |-> <<>>, ptr |-> 0]
    /\ reader = Idle
    /\ handed = <<>>
    /\ output = <<>>
    /\ writer = NoWrite
    /\ accepted = 0
    /\ failed = FALSE
    /\ sent = <<>>

-----------------------------------------------------------------------------
(* Input stream *)

Rest == SubSeq(input.buffer, input.ptr + 1, Len(input.buffer))

(* Copies n bytes of a buffer that stands at ptr, and returns from the call.  *)
Return(buffer, ptr, n) ==
    /\ handed' = handed \o reader.got \o SubSeq(buffer, ptr + 1, ptr + n)
    /\ input' = [buffer |-> buffer, ptr |-> ptr + n]
    /\ reader' = Idle

(* read() and read(b, off, len) with what the buffer holds. The bytes of a    *)
(* shorter rest are copied, and the call goes on to fill the buffer.          *)
ReadByte ==
    /\ reader.pc = "idle"
    /\ IF Rest # <<>>
       THEN Return(input.buffer, input.ptr, 1)
       ELSE /\ reader' = [Idle EXCEPT !.pc = "open", !.call = "byte"]
            /\ UNCHANGED <<input, handed>>
    /\ UNCHANGED <<device, unread, writing>>

ReadArray(len) ==
    /\ reader.pc = "idle"
    /\ IF Rest # <<>> /\ len <= Len(Rest)
       THEN Return(input.buffer, input.ptr, len)
       ELSE /\ reader' = [pc |-> "open", len |-> len, got |-> Rest,
                          call |-> IF Rest = <<>> THEN "available" ELSE "more"]
            /\ input' = [input EXCEPT !.ptr = Len(input.buffer)]
            /\ UNCHANGED handed
    /\ UNCHANGED <<device, unread, writing>>

(* fillBuffer(): the exception ends the call, and the bytes it has copied are *)
(* not counted.                                                               *)
FillOpen ==
    /\ reader.pc = "open"
    /\ reader' = IF isOpen THEN [reader EXCEPT !.pc = "native"] ELSE Idle
    /\ UNCHANGED <<device, unread, input, handed, writing>>

(* Mutant: the position in the buffer is not set back. *)
FillKeepsPtr(buffer) ==
    LET ptr == Min2(input.ptr, Len(buffer))
        n   == IF reader.call = "byte" THEN 1 ELSE reader.len - Len(reader.got)
        m   == Min2(n, Len(buffer) - ptr)
    IN  Return(buffer, ptr, m)

(* The native method gave bytes: read() and the last turn of read(b, off, len)*)
(* return; after available() the call returns only if it has all it wants.    *)
Filled(buffer) ==
    LET n == IF reader.call = "byte" THEN 1 ELSE reader.len - Len(reader.got)
    IN  IF reader.call = "available" /\ n > Len(buffer)
        THEN /\ reader' = [reader EXCEPT !.pc = "open", !.call = "more",
                                         !.got = buffer]
             /\ input' = [buffer |-> buffer, ptr |-> Len(buffer)]
             /\ UNCHANGED handed
        ELSE Return(buffer, 0, Min2(n, Len(buffer)))

(* The native method gave null: read() returns -1, available() 0, and the     *)
(* loop of read(b, off, len) ends if the call has bytes or wants none.        *)
NotFilled ==
    /\ input' = [input EXCEPT !.buffer = <<>>, !.ptr = 0]
    /\ \/ /\ reader.call = "byte" \/ reader.got # <<>> \/ reader.len = 0
          /\ handed' = handed \o reader.got
          /\ reader' = Idle
       \/ /\ reader.call # "byte" /\ reader.got = <<>> /\ reader.len # 0
          /\ reader' = [reader EXCEPT !.pc = "open", !.call = "more"]
          /\ UNCHANGED handed

ReadData ==
    /\ reader.pc = "native"
    /\ \E n \in 0..Min2(InBuffer, Len(unread)) :
         /\ n > 0 => isOpen /\ attached
         /\ unread' = SubSeq(unread, n + 1, Len(unread))
         /\ IF n = 0 THEN NotFilled ELSE Filled(Signed(SubSeq(unread, 1, n)))
    /\ UNCHANGED <<device, writing>>

InputStream ==
    \/ ReadByte \/ (\E len \in 0..InBuffer + 1 : ReadArray(len))
    \/ FillOpen \/ ReadData

-----------------------------------------------------------------------------
(* Output stream *)

Argument(n) == SubSeq(OutData, accepted + 1, accepted + n)

(* write(b): a full buffer is flushed first. *)
WriteByte ==
    /\ writer.pc = "idle"
    /\ accepted < Len(OutData)
    /\ accepted' = accepted + 1
    /\ IF Len(output) = OutBuffer
       THEN /\ writer' = [pc |-> "open", call |-> "byte", flushing |-> TRUE,
                          todo |-> Argument(1)]
            /\ UNCHANGED output
       ELSE output' = output \o Argument(1) /\ UNCHANGED writer
    /\ UNCHANGED <<device, reading, failed, sent>>

(* Mutant: the array is written past the bytes in the buffer. *)
WriteArrayDirectly(n) ==
    /\ writer.pc = "idle"
    /\ n <= Len(OutData) - accepted
    /\ Len(sent) <= MaxSent
    /\ accepted' = accepted + n
    /\ writer' = [pc |-> "open", call |-> "array", flushing |-> FALSE,
                  todo |-> Argument(n)]
    /\ UNCHANGED <<device, reading, output, failed, sent>>

(* write(b, off, len): the bytes in the buffer go first. *)
WriteArray(n) ==
    /\ writer.pc = "idle"
    /\ n <= Len(OutData) - accepted
    /\ Len(sent) <= MaxSent
    /\ accepted' = accepted + n
    /\ writer' = [pc |-> "open", call |-> "array", flushing |-> output # <<>>,
                  todo |-> Argument(n)]
    /\ UNCHANGED <<device, reading, output, failed, sent>>

Flush ==
    /\ writer.pc = "idle"
    /\ output # <<>>
    /\ Len(sent) <= MaxSent
    /\ writer' = [NoWrite EXCEPT !.pc = "open", !.call = "flush", !.flushing = TRUE]
    /\ UNCHANGED <<device, reading, output, accepted, failed, sent>>

Throw == writer' = NoWrite /\ failed' = TRUE

WriteOpen ==
    /\ writer.pc = "open"
    /\ IF isOpen
       THEN writer' = [writer EXCEPT !.pc = "native"] /\ UNCHANGED failed
       ELSE Throw
    /\ UNCHANGED <<device, reading, output, accepted, sent>>

(* A flush has written everything: bufferPtr is zero, and the call that       *)
(* needed the flush goes on.                                                  *)
Flushed ==
    /\ output' = IF writer.call = "byte" THEN writer.todo ELSE <<>>
    /\ writer' = IF writer.call = "array"
                 THEN [writer EXCEPT !.pc = "open", !.flushing = FALSE]
                 ELSE NoWrite

(* Mutant: a write that transfers nothing leaves the port open. *)
WriteDataOpen ==
    /\ writer.pc = "native"
    /\ LET data == IF writer.flushing THEN output ELSE writer.todo
       IN  \E n \in 0..Len(data) :
             /\ n > 0 => isOpen /\ attached
             /\ sent' = sent \o SubSeq(data, 1, n)
             /\ \/ n < Len(data) /\ Throw /\ UNCHANGED output
                \/ n = Len(data) /\ writer.flushing /\ Flushed /\ UNCHANGED failed
                \/ /\ n = Len(data) /\ ~writer.flushing
                   /\ writer' = NoWrite
                   /\ UNCHANGED <<output, failed>>
    /\ UNCHANGED <<device, reading, accepted>>

(* writeData(): a write that transfers none of its bytes, because the device  *)
(* is gone or takes none in time, closes the port; the stream throws if a     *)
(* byte is left over, and keeps its buffer.                                   *)
WriteData ==
    /\ writer.pc = "native"
    /\ LET data == IF writer.flushing THEN output ELSE writer.todo
       IN  \E n \in 0..Len(data) :
             /\ n > 0 => isOpen /\ attached
             /\ sent' = sent \o SubSeq(data, 1, n)
             /\ isOpen' = (isOpen /\ (n = 0 => data = <<>>))
             /\ \/ n < Len(data) /\ Throw /\ UNCHANGED output
                \/ n = Len(data) /\ writer.flushing /\ Flushed /\ UNCHANGED failed
                \/ /\ n = Len(data) /\ ~writer.flushing
                   /\ writer' = NoWrite
                   /\ UNCHANGED <<output, failed>>
    /\ UNCHANGED <<attached, reading, accepted>>

OutputStream ==
    \/ WriteByte \/ (\E n \in 0..OutBuffer + 1 : WriteArray(n)) \/ Flush
    \/ WriteOpen \/ WriteData

-----------------------------------------------------------------------------
(* close() of either stream, in the thread that uses it *)
Close ==
    /\ reader.pc = "idle" \/ writer.pc = "idle"
    /\ isOpen' = FALSE
    /\ UNCHANGED <<attached, reading, writing>>

Unplug == attached' = FALSE /\ UNCHANGED <<isOpen, reading, writing>>

Next == InputStream \/ OutputStream \/ Close \/ Unplug

Spec == Init /\ [][Next]_vars

(* A call in progress goes on. A native read is only certain to return after  *)
(* the port was closed; a native write returns.                               *)
FairSpec ==
    /\ Spec
    /\ WF_vars(FillOpen)
    /\ WF_vars(~isOpen /\ ReadData)
    /\ WF_vars(WriteOpen \/ WriteData)

-----------------------------------------------------------------------------
(* Properties *)

(* The variables have the types of what they stand for; bufferPtr does not    *)
(* pass the end of the buffer, whose length is at most the one asked for.     *)
TypeOK ==
    /\ isOpen \in BOOLEAN /\ attached \in BOOLEAN /\ failed \in BOOLEAN
    /\ unread \in Seq(0..255)
    /\ input \in [buffer : Seq(JavaByte), ptr : Nat]
    /\ input.ptr <= Len(input.buffer) /\ Len(input.buffer) <= InBuffer
    /\ reader \in [pc : {"idle", "open", "native"},
                   call : {"none", "byte", "available", "more"},
                   len : 0..InBuffer + 1, got : Seq(JavaByte)]
    /\ Len(reader.got) <= reader.len
    /\ handed \in Seq(JavaByte)
    /\ output \in Seq(JavaByte) /\ Len(output) <= OutBuffer
    /\ writer \in [pc : {"idle", "open", "native"},
                   call : {"none", "byte", "array", "flush"},
                   flushing : BOOLEAN, todo : Seq(JavaByte)]
    /\ accepted \in 0..Len(OutData)
    /\ sent \in Seq(JavaByte)

(* While the port is open every byte read from it is handed on once and in    *)
(* order, by whatever mix of the reading methods: it has been returned, is    *)
(* copied by the call in progress, or is in the buffer.                       *)
InputInOrder ==
    isOpen => handed \o reader.got \o Rest \o Signed(unread) = Signed(InData)

(* Until a call throws, the device has got the bytes of all calls once and in *)
(* order, but for those in the buffer and in the call in progress.            *)
OutputInOrder ==
    ~failed => sent \o output \o writer.todo = SubSeq(OutData, 1, accepted)

(* A write to a device that is gone ends the call of the reading thread: the  *)
(* port is closed, and the loop of read(b, off, len) finds it closed.         *)
LostPortFreesReader ==
    (~attached /\ writer.pc = "native" /\ (writer.flushing \/ writer.todo # <<>>))
        ~> reader.pc = "idle"
=============================================================================

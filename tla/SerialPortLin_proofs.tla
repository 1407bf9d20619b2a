------------------------- MODULE SerialPortLin_proofs -------------------------
(* Proofs about the port object: its types, and that until the first close a  *)
(* read without time limit returns bytes and a reader that polls does not get *)
(* stuck in read(). Neither property is inductive: what makes them true is    *)
(* that nothing has signalled the event, that the poll set holds the open     *)
(* descriptor before any thread can find a timeout below zero, and that only  *)
(* the reader takes bytes out of the device. All of it is lost with the first *)
(* close, so the invariant says nothing after it.                             *)
EXTENDS SerialPortLin, TLAPS

(* Nothing has been closed, and the poll set is filled after the descriptor.  *)
ObjectInv ==
    /\ event = FALSE
    /\ comPortHandle = tty
    /\ pollfdRx \in {None, tty}
    /\ pc["owner"] \notin {"close.handle", "close.event"}
    /\ pc["owner"] # "open.poll" /\ tty # None => pollfdRx = tty
    /\ pc["owner"] # "idle" => tty # None

(* A thread that holds a timeout below zero has it from an object whose poll  *)
(* set is filled.                                                             *)
TimeoutInv ==
    /\ rxTimeout = -1 => pollfdRx # None
    /\ arg["reader"] < 0 => pollfdRx # None
    /\ rx.orig = -1 => pollfdRx # None
    /\ rx.waited = -1 => rx.watch # None

(* A reader that has polled the open descriptor has bytes to read. *)
ReaderInv ==
    /\ pc["reader"] # "idle" => tty # None
    /\ pc["reader"] \in {"idle", "set.get", "set.timeout", "set.min",
                         "set.apply", "read.handle", "read.timeout", "poll.call"} => rx.watch = None
    /\ pc["reader"] \in {"read", "reading"} /\ rx.watch # None => input > 0
    /\ pc["reader"] = "returned" /\ rx.waited = -1 => rx.got > 0

FirstInv == closes = 0 => ObjectInv /\ TimeoutInv /\ ReaderInv

IInv == TypeOK /\ FirstInv

-----------------------------------------------------------------------------
(* Types *)

(* setTimeouts stores a byte, or -1 for a timeout below zero.                 *)
LEMMA StoredType ==
    \A t \in Int : Stored(t) \in -1..255 /\ (Stored(t) = -1 => t < 0)
<1> SUFFICES ASSUME NEW t \in Int
             PROVE Stored(t) \in -1..255 /\ (Stored(t) = -1 => t < 0)
  OBVIOUS
<1>1. CASE t < 0
  BY <1>1 DEF Stored
<1>2. CASE t >= 0
  <2>1. t \div 100 \in Nat
    BY <1>2
  <2>2. (t \div 100) % 256 \in 0..255
    BY <2>1
  <2> QED
    BY <1>2, <2>2 DEF Stored
<1> QED
  BY <1>1, <1>2

LEMMA NoCallType ==
    /\ NoCall \in [mode : {"plain", "changed", "restore"}, orig : -1..255,
                   waited : -1..255, watch : Fds \cup {None}, min : {0, 1},
                   got : Nat, session : Nat]
    /\ NoCall.watch = None
    /\ NoCall.waited = 0
    /\ NoCall.orig = 0
  BY DEF NoCall

LEMMA TypeInit == Init => TypeOK
<1> SUFFICES ASSUME Init PROVE TypeOK
  OBVIOUS
<1>1. event \in BOOLEAN
  BY Zenon DEF Init, Eventfd
<1> QED
  BY <1>1, NoCallType, PortAssumption DEF Init, TypeOK, Threads, Labels

(* Every step preserves the types. *)
LEMMA TypeStep == TypeOK /\ [Next]_vars => TypeOK'
<1> SUFFICES ASSUME TypeOK, [Next]_vars PROVE TypeOK'
  OBVIOUS
<1> USE PortAssumption DEF TypeOK, object, device, Goto, Threads, Labels
<1>1. CASE OpenPort
  BY <1>1 DEF OpenPort
<1>2. CASE OpenPoll
  BY <1>2 DEF OpenPoll
<1>3. CASE OpenConfig
  BY <1>3 DEF OpenConfig
<1>4. CASE OpenApply
  BY <1>4 DEF OpenApply
<1>5. CASE ClosePort
  BY <1>5 DEF ClosePort
<1>6. CASE CloseHandle
  BY <1>6 DEF CloseHandle
<1>7. CASE CloseEvent
  BY <1>7 DEF CloseEvent
<1>8. CASE SetTimeouts
  BY <1>8 DEF SetTimeouts
<1>9. CASE SetStep("owner")
  <2>1. CASE SetGet("owner")
    BY <2>1, NoCallType DEF SetGet, SetReturns
  <2>2. CASE SetTimeout("owner")
    BY <2>2, StoredType DEF SetTimeout
  <2>3. CASE SetMin("owner")
    BY <2>3 DEF SetMin
  <2>4. CASE SetApply("owner")
    BY <2>4, NoCallType DEF SetApply, SetReturns
  <2> QED
    BY <1>9, <2>1, <2>2, <2>3, <2>4 DEF SetStep
<1>10. CASE ConfigGet
  BY <1>10 DEF ConfigGet
<1>11. CASE ConfigApply
  BY <1>11 DEF ConfigApply
<1>12. CASE ReadBytes
  BY <1>12 DEF ReadBytes, Session
<1>13. CASE ReadBytesConsecutive
  <2>1. rx' \in [mode : {"plain", "changed", "restore"}, orig : -1..255,
                     waited : -1..255, watch : Fds \cup {None}, min : {0, 1},
                     got : Nat, session : Nat]
    <3>1. Session \in Nat
      BY DEF Session
    <3> QED
      BY <1>13, <3>1 DEF ReadBytesConsecutive
  <2>2. arg' \in [Threads -> Int]
    <3>1. PICK wait \in WaitTimeouts : arg' = [arg EXCEPT !["reader"] = wait]
      BY <1>13 DEF ReadBytesConsecutive
    <3> QED
      BY <3>1
  <2> QED
    BY <1>13, <2>1, <2>2 DEF ReadBytesConsecutive
<1>14. CASE Restore
  BY <1>14, NoCallType DEF Restore
<1>15. CASE ReadHandle
  BY <1>15 DEF ReadHandle
<1>16. CASE ReadTimeout
  BY <1>16 DEF ReadTimeout
<1>17. CASE PollCall
  <2>1. rx' \in [mode : {"plain", "changed", "restore"}, orig : -1..255,
                     waited : -1..255, watch : Fds \cup {None}, min : {0, 1},
                     got : Nat, session : Nat]
    BY <1>17 DEF PollCall
  <2>2. pc' \in [Threads -> Labels]
    BY <1>17 DEF PollCall
  <2> QED
    BY <1>17, <2>1, <2>2 DEF PollCall
<1>18. CASE PollReturns
  BY <1>18 DEF PollReturns
<1>19. CASE Read
  BY <1>19 DEF Read
<1>20. CASE ReadReturns
  BY <1>20 DEF ReadReturns
<1>21. CASE Returned
  BY <1>21, NoCallType DEF Returned
<1>22. CASE SetStep("reader")
  <2>1. CASE SetGet("reader")
    BY <2>1, NoCallType DEF SetGet, SetReturns
  <2>2. CASE SetTimeout("reader")
    BY <2>2, StoredType DEF SetTimeout
  <2>3. CASE SetMin("reader")
    BY <2>3 DEF SetMin
  <2>4. CASE SetApply("reader")
    BY <2>4, NoCallType DEF SetApply, SetReturns
  <2> QED
    BY <1>22, <2>1, <2>2, <2>3, <2>4 DEF SetStep
<1>23. CASE Receives
  BY <1>23 DEF Receives
<1>24. CASE UNCHANGED vars
  BY <1>24 DEF vars
<1> QED
  BY <1>1, <1>2, <1>3, <1>4, <1>5, <1>6, <1>7, <1>8, <1>9, <1>10, <1>11, <1>12,
     <1>13, <1>14, <1>15, <1>16, <1>17, <1>18, <1>19, <1>20, <1>21, <1>22, <1>23, <1>24
  DEF Next, Owner, Reader, ReaderStep

-----------------------------------------------------------------------------
(* The first session *)

LEMMA FirstInit == Init => FirstInv
  BY PortAssumption DEF Init, FirstInv, ObjectInv, TimeoutInv, ReaderInv, NoCall,
     Threads, Eventfd, None

LEMMA FirstStep == TypeOK /\ FirstInv /\ [Next]_vars => FirstInv'
<1> SUFFICES ASSUME TypeOK, FirstInv, [Next]_vars PROVE FirstInv'
  OBVIOUS
<1> USE PortAssumption DEF TypeOK, FirstInv, ObjectInv, TimeoutInv, ReaderInv,
    object, device, Goto, Threads, Labels, None
<1>1. CASE OpenPort
  BY <1>1 DEF OpenPort
<1>2. CASE OpenPoll
  BY <1>2 DEF OpenPoll
<1>3. CASE OpenConfig
  BY <1>3 DEF OpenConfig
<1>4. CASE OpenApply
  BY <1>4 DEF OpenApply
<1>5. CASE ClosePort
  BY <1>5 DEF ClosePort
<1>6. CASE CloseHandle
  BY <1>6 DEF CloseHandle
<1>7. CASE CloseEvent
  BY <1>7 DEF CloseEvent
<1>8. CASE SetTimeouts
  BY <1>8 DEF SetTimeouts
<1>9. CASE SetStep("owner")
  <2>1. CASE SetGet("owner")
    BY <2>1, NoCallType DEF SetGet, SetReturns
  <2>2. CASE SetTimeout("owner")
    BY <2>2, StoredType DEF SetTimeout
  <2>3. CASE SetMin("owner")
    BY <2>3 DEF SetMin
  <2>4. CASE SetApply("owner")
    BY <2>4, NoCallType DEF SetApply, SetReturns
  <2> QED
    BY <1>9, <2>1, <2>2, <2>3, <2>4 DEF SetStep
<1>10. CASE ConfigGet
  BY <1>10 DEF ConfigGet
<1>11. CASE ConfigApply
  BY <1>11 DEF ConfigApply
<1>12. CASE ReadBytes
  BY <1>12 DEF ReadBytes, Session
<1>13. CASE ReadBytesConsecutive
  BY <1>13 DEF ReadBytesConsecutive, Session
<1>14. CASE Restore
  BY <1>14, NoCallType DEF Restore
<1>15. CASE ReadHandle
  BY <1>15 DEF ReadHandle
<1>16. CASE ReadTimeout
  BY <1>16 DEF ReadTimeout
<1>17. CASE PollCall
  BY <1>17 DEF PollCall
<1>18. CASE PollReturns
  BY <1>18 DEF PollReturns
<1>19. CASE Read
  BY <1>19 DEF Read
<1>20. CASE ReadReturns
  BY <1>20 DEF ReadReturns
<1>21. CASE Returned
  BY <1>21, NoCallType DEF Returned
<1>22. CASE SetStep("reader")
  <2>1. CASE SetGet("reader")
    BY <2>1, NoCallType DEF SetGet, SetReturns
  <2>2. CASE SetTimeout("reader")
    <3>1. rxTimeout' = -1 => arg["reader"] < 0
      BY <2>2, StoredType DEF SetTimeout
    <3> QED
      BY <2>2, <3>1 DEF SetTimeout
  <2>3. CASE SetMin("reader")
    BY <2>3 DEF SetMin
  <2>4. CASE SetApply("reader")
    BY <2>4, NoCallType DEF SetApply, SetReturns
  <2> QED
    BY <1>22, <2>1, <2>2, <2>3, <2>4 DEF SetStep
<1>23. CASE Receives
  BY <1>23 DEF Receives
<1>24. CASE UNCHANGED vars
  BY <1>24 DEF vars
<1> QED
  BY <1>1, <1>2, <1>3, <1>4, <1>5, <1>6, <1>7, <1>8, <1>9, <1>10, <1>11, <1>12,
     <1>13, <1>14, <1>15, <1>16, <1>17, <1>18, <1>19, <1>20, <1>21, <1>22, <1>23, <1>24
  DEF Next, Owner, Reader, ReaderStep

(* The strengthened invariant, of which the properties are consequences. *)
THEOREM Invariance == Spec => []IInv
<1>1. Init => IInv
  BY TypeInit, FirstInit DEF IInv
<1>2. IInv /\ [Next]_vars => IInv'
  BY TypeStep, FirstStep DEF IInv
<1> QED
  BY <1>1, <1>2, PTL DEF Spec

(* The variables of the port object have their types, whatever the timeouts:  *)
(* what setTimeouts stores is -1 or fits a byte.                              *)
THEOREM TypeCorrect == Spec => []TypeOK
<1>1. IInv => TypeOK
  BY DEF IInv
<1> QED
  BY <1>1, Invariance, PTL

(* Until the first close a readBytes without time limit returns bytes.        *)
THEOREM BlocksInFirstSession == Spec => []FirstSessionBlocks
<1>1. IInv => FirstSessionBlocks
  BY DEF IInv, TypeOK, FirstInv, ReaderInv, FirstSessionBlocks
<1> QED
  BY <1>1, Invariance, PTL

(* Until the first close a reader that has polled the open descriptor does    *)
(* not wait in read(), where closePort cannot release it.                     *)
THEOREM NoWaitInRead == Spec => []WaitsInPoll
<1>1. IInv => WaitsInPoll
  BY DEF IInv, TypeOK, FirstInv, ReaderInv, WaitsInPoll
<1> QED
  BY <1>1, Invariance, PTL
=============================================================================

--------------------------- MODULE SOELinkHandler ---------------------------
(* One connection handler of the Serial over Ethernet program, as seen by     *)
(* the threads that run its methods (soelinkhandler.cpp, soeprotocoll.cpp):   *)
(*                                                                            *)
(*   "rx"    handleClientRX: receives packages and serves the requests,       *)
(*   "tx"    handleClientTX: waits for an open port, reads it, sends data,    *)
(*   "main"  linkRemotePort on a client, and cleanupDeadConnectionHandlers,   *)
(*           which runs the destructor, on both sides.                        *)
(*                                                                            *)
(* A step is what a thread does between two points where another thread can   *)
(* see or change the shared state: the unlocked tests of localPort, the       *)
(* acquisition of a mutex, the statements under it, the blocking calls. The   *)
(* socket, the peer and the serial device are the environment: a package or a *)
(* byte arrives, the peer closes its end or is lost without a word, the       *)
(* device refuses a request. The socket has no timeouts (setTimeouts(0, 0)),  *)
(* nor has a write (setTimeouts(-1, 0, -1) sets txTimeout to 0): receive(),   *)
(* send() and write() may block for ever.                                     *)
EXTENDS Integers, FiniteSets

CONSTANTS
    PortObjects,    \* serial port objects newSerialPortS can return; their
                    \* number bounds how often a port is opened
    NoPort          \* the null pointer in localPort

ASSUME NoPortAssumption == NoPort \notin PortObjects

VARIABLES
    role,           \* "client": made by linkRemotePort, "server": by accept
    alive,          \* socket->isOpen() of the own end
    conn,           \* "up"; "closed": the peer's end has said so; "lost": the
                    \* peer or the network is gone and nothing is reported
    localPort,      \* the object the unique_ptr localPort owns, or NoPort
    handle,         \* state of each serial port object
    m_localPort,    \* the thread that holds this mutex, or "free"
    m_socketTX,     \* the thread that holds this mutex, or "free"
    m_remoteReturn, \* the thread that holds this mutex, or "free"
    remoteReturn,   \* answer of the last confirm package
    waiting,        \* threads in the wait set of a condition variable
    pc,             \* where each thread is
    ret,            \* where each thread goes on after the call it is in
    frame,          \* the package in the receive buffer of "rx"; "other" is
                    \* one the peer may send at any time
    reply,          \* result of the call of openLocalPort, closeLocalPort or
                    \* setLocalConfig a thread returns from
    owed,           \* requests the peer has not answered yet
    reading,        \* the object the TX thread called readBytes of
    crashed         \* the process died of a null or freed pointer

socket == <<alive, conn, m_socketTX>>
port   == <<localPort, handle, m_localPort>>
answer == <<m_remoteReturn, remoteReturn, owed>>
shared == <<role, socket, port, answer, waiting, frame, reading, crashed>>
vars   == <<shared, pc, ret, reply>>

Threads == {"rx", "tx", "main"}

-----------------------------------------------------------------------------
(* Shared tests and control *)

(* "this->localPort != 0 && this->localPort->isOpen()" *)
IsOpen == localPort # NoPort /\ handle[localPort] = "open"

Fresh == {o \in PortObjects : handle[o] = "fresh"}

(* newSerialPortS returns a new object; which one makes no difference. *)
NewSerialPort == CHOOSE o \in Fresh : TRUE

Connected == alive /\ conn = "up"

(* A blocked call of the socket returns with an error: the own end was closed *)
(* or the other one. Nothing reports a peer that is lost.                     *)
Reported == ~alive \/ conn = "closed"

At(t, label) == ~crashed /\ pc[t] = label

Goto(t, label) ==
    /\ pc' = [pc EXCEPT ![t] = label]
    /\ UNCHANGED <<ret, reply>>

Call(t, entry, back) ==
    /\ pc' = [pc EXCEPT ![t] = entry]
    /\ ret' = [ret EXCEPT ![t] = back]
    /\ UNCHANGED reply

Return(t, label, result) ==
    /\ pc' = [pc EXCEPT ![t] = label]
    /\ reply' = [reply EXCEPT ![t] = result]
    /\ UNCHANGED ret

Acquire(t) == m_localPort = "free" /\ m_localPort' = t
Unlock == m_localPort' = "free"

(* The step that takes m_localPort and does nothing else. *)
LockPort(t, from, to) ==
    /\ At(t, from)
    /\ Acquire(t)
    /\ Goto(t, to)
    /\ UNCHANGED <<role, socket, localPort, handle, answer, waiting, frame,
                   reading, crashed>>

-----------------------------------------------------------------------------
(* The constructor has started the threads; it gives remoteReturn no value.   *)
(* Only a client goes on with the handshake.                                  *)
Init ==
    /\ role \in {"client", "server"}
    /\ alive = TRUE
    /\ conn = "up"
    /\ localPort = NoPort
    /\ handle = [o \in PortObjects |-> "fresh"]
    /\ m_localPort = "free"
    /\ m_socketTX = "free"
    /\ m_remoteReturn = "free"
    /\ remoteReturn \in BOOLEAN
    /\ waiting = {}
    /\ pc = [t \in Threads |->
               CASE t = "rx" -> "rx.loop"
                 [] t = "tx" -> "tx.loop"
                 [] t = "main" -> IF role = "client" THEN "openRemotePort"
                                  ELSE "idle"]
    /\ ret = [t \in Threads |-> "reply"]
    /\ frame = "error"      \* the buffer is zeroed, and 0 is the error code
    /\ reply = [t \in Threads |-> FALSE]
    /\ owed = 0
    /\ reading = NoPort
    /\ crashed = FALSE

-----------------------------------------------------------------------------
(* shutdown() *)

AfterShutdown(t) == IF t = "main" THEN "idle" ELSE "done"

ShutdownIsAlive(t) ==
    /\ At(t, "shutdown.isAlive")
    /\ \/ alive /\ Call(t, "close.check", "shutdown.socket")
       \/ ~alive /\ Goto(t, AfterShutdown(t))
    /\ UNCHANGED shared

ShutdownSocket(t) ==
    /\ At(t, "shutdown.socket")
    /\ alive' = FALSE
    /\ Goto(t, "shutdown.notify")
    /\ UNCHANGED <<role, conn, m_socketTX, port, answer, waiting, frame,
                   reading, crashed>>

(* The flag is written and both condition variables are notified without      *)
(* their mutexes.                                                             *)
ShutdownNotify(t) ==
    /\ At(t, "shutdown.notify")
    /\ remoteReturn' = FALSE
    /\ waiting' = {}
    /\ Goto(t, AfterShutdown(t))
    /\ UNCHANGED <<role, socket, port, m_remoteReturn, owed, frame, reading,
                   crashed>>

Shutdown(t) == ShutdownIsAlive(t) \/ ShutdownSocket(t) \/ ShutdownNotify(t)

-----------------------------------------------------------------------------
(* closeLocalPort() *)

CloseCheck(t) ==
    /\ At(t, "close.check")
    /\ \/ ~IsOpen /\ Return(t, ret[t], TRUE)
       \/ IsOpen /\ Goto(t, "close.lock")
    /\ UNCHANGED shared

CloseLock(t) == LockPort(t, "close.lock", "close.body")

(* Mutant: the port is released but never closed. *)
CloseBodyKeepsHandle(t) ==
    /\ At(t, "close.body")
    /\ localPort # NoPort
    /\ localPort' = NoPort
    /\ Unlock
    /\ Return(t, ret[t], TRUE)
    /\ UNCHANGED <<role, socket, handle, answer, waiting, frame, reading,
                   crashed>>

(* unique_ptr::release gives up the object without deleting it: its handle is *)
(* closed, its memory stays.                                                  *)
CloseBody(t) ==
    /\ At(t, "close.body")
    /\ localPort # NoPort
    /\ handle' = [handle EXCEPT ![localPort] = "closed"]
    /\ localPort' = NoPort
    /\ Unlock
    /\ Return(t, ret[t], TRUE)
    /\ UNCHANGED <<role, socket, answer, waiting, frame, reading, crashed>>

CloseLocalPort(t) == CloseCheck(t) \/ CloseLock(t) \/ CloseBody(t)

-----------------------------------------------------------------------------
(* openLocalPort(); its first statement, closeLocalPort(), is a Call with the *)
(* return label "open.lock".                                                  *)

OpenResult(t) == IF t = "rx" THEN "reply" ELSE "opened"

OpenLock(t) == LockPort(t, "open.lock", "open.port")

(* localPort.reset(newSerialPortS(..)) deletes the object it still owns, then *)
(* openPort() is tried on the new one.                                        *)
OpenPort(t) ==
    /\ At(t, "open.port")
    /\ Fresh # {}
    /\ localPort' = NewSerialPort
    /\ \E opened \in BOOLEAN :
         /\ handle' = [p \in PortObjects |->
              CASE p = localPort' -> IF opened THEN "open" ELSE "closed"
                [] p = localPort -> "deleted"
                [] OTHER -> handle[p]]
         /\ Return(t, IF opened THEN "open.timeouts" ELSE OpenResult(t), opened)
         /\ m_localPort' = IF opened THEN t ELSE "free"
    /\ UNCHANGED <<role, socket, answer, waiting, frame, reading, crashed>>

(* Mutant: the TX thread is not notified. *)
OpenTimeoutsSilent(t) ==
    /\ At(t, "open.timeouts")
    /\ Return(t, OpenResult(t), TRUE)
    /\ Unlock
    /\ UNCHANGED <<role, socket, localPort, handle, answer, waiting, frame,
                   reading, crashed>>

(* Mutant: a failure of setTimeouts closes the port and is not returned. *)
OpenTimeoutsIgnored(t) ==
    /\ At(t, "open.timeouts")
    /\ handle' = [handle EXCEPT ![localPort] = "closed"]
    /\ Return(t, OpenResult(t), TRUE)
    /\ Unlock
    /\ UNCHANGED <<role, socket, localPort, answer, waiting, frame, reading,
                   crashed>>

(* setTimeouts(-1, 0, -1), then cv_openLocalPort.notify_all() under the lock. *)
OpenTimeouts(t) ==
    /\ At(t, "open.timeouts")
    /\ \E set \in BOOLEAN :
         /\ waiting' = IF set THEN waiting \ {"tx"} ELSE waiting
         /\ handle' = IF set THEN handle
                      ELSE [handle EXCEPT ![localPort] = "closed"]
         /\ Return(t, OpenResult(t), set)
    /\ Unlock
    /\ UNCHANGED <<role, socket, localPort, answer, frame, reading, crashed>>

OpenLocalPort(t) == OpenLock(t) \/ OpenPort(t) \/ OpenTimeouts(t)

-----------------------------------------------------------------------------
(* setLocalConfig() *)

ConfigResult(t) == IF t = "rx" THEN "reply" ELSE "configured"

ConfigCheck(t) ==
    /\ At(t, "config.check")
    /\ \/ ~IsOpen /\ Return(t, ConfigResult(t), FALSE)
       \/ IsOpen /\ Goto(t, "config.lock")
    /\ UNCHANGED shared

ConfigLock(t) == LockPort(t, "config.lock", "config.body")

ConfigBody(t) ==
    /\ At(t, "config.body")
    /\ localPort # NoPort
    /\ \E changed \in {FALSE, IsOpen} : Return(t, ConfigResult(t), changed)
    /\ Unlock
    /\ UNCHANGED <<role, socket, localPort, handle, answer, waiting, frame,
                   reading, crashed>>

SetLocalConfig(t) == ConfigCheck(t) \/ ConfigLock(t) \/ ConfigBody(t)

-----------------------------------------------------------------------------
(* transmitPackage(), called by all three threads: a frame is sent under      *)
(* m_socketTX, and send() returns when the connection has taken it.           *)

SendLock(t, from) ==
    /\ At(t, from)
    /\ m_socketTX = "free"
    /\ m_socketTX' = t
    /\ Goto(t, "send.socket")
    /\ UNCHANGED <<role, alive, conn, port, answer, waiting, frame, reading,
                   crashed>>

AfterSend(t) ==
    CASE t = "rx" -> "rx.loop"
      [] t = "tx" -> "tx.loop"
      [] t = "main" -> "call.block"

SendTaken(t) ==
    /\ At(t, "send.socket")
    /\ alive
    /\ m_socketTX' = "free"
    /\ owed' = IF t = "main" THEN owed + 1 ELSE owed
    /\ Goto(t, AfterSend(t))
    /\ UNCHANGED <<role, alive, conn, port, m_remoteReturn, remoteReturn,
                   waiting, frame, reading, crashed>>

(* openRemotePort and setRemoteConfig give m_remoteReturn back as they fail. *)
SendFails(t) ==
    /\ At(t, "send.socket")
    /\ ~Connected
    /\ m_socketTX' = "free"
    /\ m_remoteReturn' = IF t = "main" THEN "free" ELSE m_remoteReturn
    /\ Goto(t, "shutdown.isAlive")
    /\ UNCHANGED <<role, alive, conn, port, remoteReturn, owed, waiting, frame,
                   reading, crashed>>

TransmitPackage(t) == SendTaken(t) \/ SendFails(t)

-----------------------------------------------------------------------------
(* handleClientRX() and the package handlers *)

Answers == {"confirm", "refuse"}

(* What the peer may have sent: to a client, answers to its requests and      *)
(* serial data; to a server, requests and serial data. A new "open" comes     *)
(* while two objects are left, so that RxStale still finds one.               *)
PeerSends ==
    IF role = "client"
    THEN {"data", "error"} \cup {k \in Answers : owed > 0}
    ELSE {"data", "close", "config", "undefined"}
           \cup {k \in {"open"} : Cardinality(Fresh) > 1}

(* processPackage: the first step of the handler of each package. *)
Dispatch(kind) ==
    /\ frame' = IF kind \in {"open"} \cup Answers THEN kind ELSE "other"
    /\ \/ kind = "open" /\ Call("rx", "close.check", "open.lock")
       \/ kind = "close" /\ Call("rx", "close.check", "reply")
       \/ kind = "config" /\ Goto("rx", "config.check")
       \/ kind = "data" /\ Goto("rx", "write.check")
       \/ kind \in Answers /\ Goto("rx", "confirm.set")
       \/ kind = "undefined" /\ Goto("rx", "reply")
       \/ kind = "error" /\ Goto("rx", "rx.loop")

RxLoop ==
    /\ At("rx", "rx.loop")
    /\ Goto("rx", IF alive THEN "rx.header" ELSE "shutdown.isAlive")
    /\ UNCHANGED shared

(* receive() of the header: it arrives, or it is cut short or oversized ...   *)
RxHeaderArrives ==
    /\ At("rx", "rx.header")
    /\ Connected
    /\ \E next \in {"rx.payload", "shutdown.isAlive"} : Goto("rx", next)
    /\ UNCHANGED shared

(* Mutant: a failed receive() is tried again. *)
RxHeaderRetries ==
    /\ At("rx", "rx.header")
    /\ ~Connected
    /\ Goto("rx", "rx.loop")
    /\ UNCHANGED shared

(* ... or receive() fails: either end was closed. With the peer lost it may   *)
(* fail, and may block for ever (see RunRx).                                  *)
RxHeaderFails ==
    /\ At("rx", "rx.header")
    /\ ~Connected
    /\ Goto("rx", "shutdown.isAlive")
    /\ UNCHANGED shared

RxPayload ==
    /\ At("rx", "rx.payload")
    /\ Connected
    /\ \E kind \in PeerSends :
         /\ Dispatch(kind)
         /\ owed' = IF kind \in Answers THEN owed - 1 ELSE owed
    /\ UNCHANGED <<role, socket, port, m_remoteReturn, remoteReturn, waiting,
                   reading, crashed>>

(* Mutant: the payload loop does not test isAlive(). *)
RxStaleNever == FALSE

(* A failing receive() does not leave the payload loop. With the peer gone    *)
(* and the socket open the loop spins, which is no step here. With the socket *)
(* closed it ends, and the buffer is dispatched as it is: with a package      *)
(* received in part, or with the one before it.                               *)
RxStale ==
    /\ At("rx", "rx.payload")
    /\ ~alive
    /\ \E kind \in PeerSends \cup ({frame} \ {"other"}) : Dispatch(kind)
    /\ UNCHANGED <<role, socket, port, answer, waiting, reading, crashed>>

(* transmitSerialData: the port is tested and written without the lock. *)
WriteCheck ==
    /\ At("rx", "write.check")
    /\ Goto("rx", IF IsOpen THEN "write.port" ELSE "rx.loop")
    /\ UNCHANGED shared

(* writeBytes, called on the object localPort points to now: with the         *)
(* descriptor closed it returns, else it waits for the device in write().     *)
WritePort ==
    /\ At("rx", "write.port")
    /\ localPort # NoPort
    /\ Goto("rx", IF IsOpen THEN "write.writing" ELSE "rx.loop")
    /\ UNCHANGED shared

(* The device has taken the bytes, or reports an error. closePort() on the    *)
(* descriptor does not end a write that has begun.                            *)
WriteReturns ==
    /\ At("rx", "write.writing")
    /\ Goto("rx", "rx.loop")
    /\ UNCHANGED shared

(* Mutant: the flag is written without the mutex. *)
ConfirmSetUnlocked ==
    /\ At("rx", "confirm.set")
    /\ remoteReturn' = (frame = "confirm")
    /\ Goto("rx", "confirm.notify")
    /\ UNCHANGED <<role, socket, port, m_remoteReturn, owed, waiting, frame,
                   reading, crashed>>

(* processConfirm: the flag is written under the mutex, which is given back   *)
(* before the notification.                                                   *)
ConfirmSet ==
    /\ At("rx", "confirm.set")
    /\ m_remoteReturn = "free"
    /\ remoteReturn' = (frame = "confirm")
    /\ Goto("rx", "confirm.notify")
    /\ UNCHANGED <<role, socket, port, m_remoteReturn, owed, waiting, frame,
                   reading, crashed>>

ConfirmNotify ==
    /\ At("rx", "confirm.notify")
    /\ waiting' = waiting \ {"main"}
    /\ Goto("rx", "rx.loop")
    /\ UNCHANGED <<role, socket, port, answer, frame, reading, crashed>>

Reply == SendLock("rx", "reply")

HandleClientRX ==
    \/ RxLoop \/ RxHeaderArrives \/ RxHeaderFails \/ RxPayload \/ RxStale
    \/ WriteCheck \/ WritePort \/ WriteReturns
    \/ ConfirmSet \/ ConfirmNotify \/ Reply

-----------------------------------------------------------------------------
(* handleClientTX() *)

TxLoop ==
    /\ At("tx", "tx.loop")
    /\ Goto("tx", IF alive THEN "tx.check" ELSE "shutdown.isAlive")
    /\ UNCHANGED shared

TxCheck ==
    /\ At("tx", "tx.check")
    /\ Goto("tx", IF IsOpen THEN "tx.read" ELSE "wait.lock")
    /\ UNCHANGED shared

(* cv_openLocalPort.wait(lock, pred): the predicate is evaluated under        *)
(* m_localPort; the thread joins the wait set as it gives the mutex up, and   *)
(* takes the mutex again after it left the set.                               *)
WaitLock == "tx" \notin waiting /\ LockPort("tx", "wait.lock", "wait.pred")

WaitPred ==
    /\ At("tx", "wait.pred")
    /\ \/ ~alive /\ Goto("tx", "shutdown.isAlive") /\ Unlock
       \/ alive /\ IsOpen /\ Goto("tx", "tx.read") /\ Unlock
       \/ alive /\ ~IsOpen /\ Goto("tx", "wait.block") /\ UNCHANGED m_localPort
    /\ UNCHANGED <<role, socket, localPort, handle, answer, waiting, frame,
                   reading, crashed>>

WaitBlock ==
    /\ At("tx", "wait.block")
    /\ Unlock
    /\ waiting' = waiting \cup {"tx"}
    /\ Goto("tx", "wait.lock")
    /\ UNCHANGED <<role, socket, localPort, handle, answer, frame, reading,
                   crashed>>

(* readBytes, called on the object localPort points to now. *)
TxRead ==
    /\ At("tx", "tx.read")
    /\ localPort # NoPort
    /\ reading' = localPort
    /\ Goto("tx", "tx.reading")
    /\ UNCHANGED <<role, socket, port, answer, waiting, frame, crashed>>

(* An open port delivers bytes or nothing; a closed one returns at once.      *)
TxReadDelivers ==
    /\ At("tx", "tx.reading")
    /\ handle[reading] = "open"
    /\ \E next \in {"tx.send", "tx.loop"} : Goto("tx", next)
    /\ reading' = NoPort
    /\ UNCHANGED <<role, socket, port, answer, waiting, frame, crashed>>

TxReadReturns ==
    /\ At("tx", "tx.reading")
    /\ handle[reading] # "open"
    /\ Goto("tx", "tx.loop")
    /\ reading' = NoPort
    /\ UNCHANGED <<role, socket, port, answer, waiting, frame, crashed>>

TxSend == SendLock("tx", "tx.send")

HandleClientTX ==
    \/ TxLoop \/ TxCheck \/ WaitLock \/ WaitPred \/ WaitBlock
    \/ TxRead \/ TxReadDelivers \/ TxReadReturns \/ TxSend

-----------------------------------------------------------------------------
(* linkRemotePort() on a client: openRemotePort, setRemoteConfig,             *)
(* openLocalPort, setLocalConfig, and shutdown as soon as one of them fails.  *)

RemoteCall(method, next) ==
    /\ At("main", method)
    /\ m_remoteReturn = "free"
    /\ m_remoteReturn' = "main"
    /\ Call("main", "call.send", next)
    /\ UNCHANGED <<role, socket, port, remoteReturn, owed, waiting, frame,
                   reading, crashed>>

OpenRemotePort == RemoteCall("openRemotePort", "setRemoteConfig")
SetRemoteConfig == RemoteCall("setRemoteConfig", "openLocalPort")

(* The request is sent under m_remoteReturn. *)
CallSend == SendLock("main", "call.send")

(* cv_remoteReturn.wait_for(lock, 4000 ms), which has no predicate: it ends   *)
(* with a notification (or without one) and the flag is the result ...        *)
CallBlock ==
    /\ At("main", "call.block")
    /\ m_remoteReturn' = "free"
    /\ waiting' = waiting \cup {"main"}
    /\ Goto("main", "call.wait")
    /\ UNCHANGED <<role, socket, port, remoteReturn, owed, frame, reading,
                   crashed>>

CallReturns ==
    /\ At("main", "call.wait")
    /\ "main" \notin waiting
    /\ m_remoteReturn = "free"
    /\ Goto("main", IF remoteReturn THEN ret["main"] ELSE "shutdown.isAlive")
    /\ UNCHANGED shared

(* Mutant: wait() instead of wait_for(). *)
CallTimesOutNever == FALSE

(* ... or with the timeout, also when the notification comes too late.        *)
CallTimesOut ==
    /\ At("main", "call.wait")
    /\ m_remoteReturn = "free"
    /\ waiting' = waiting \ {"main"}
    /\ Goto("main", "shutdown.isAlive")
    /\ UNCHANGED <<role, socket, port, answer, frame, reading, crashed>>

LinkOpenLocal ==
    /\ At("main", "openLocalPort")
    /\ Call("main", "close.check", "open.lock")
    /\ UNCHANGED shared

LinkOpened ==
    /\ At("main", "opened")
    /\ Goto("main", IF reply["main"] THEN "config.check" ELSE "shutdown.isAlive")
    /\ UNCHANGED shared

LinkConfigured ==
    /\ At("main", "configured")
    /\ Goto("main", IF reply["main"] THEN "idle" ELSE "shutdown.isAlive")
    /\ UNCHANGED shared

LinkRemotePort ==
    \/ OpenRemotePort \/ SetRemoteConfig \/ CallSend \/ CallBlock
    \/ CallReturns \/ CallTimesOut
    \/ LinkOpenLocal \/ LinkOpened \/ LinkConfigured

-----------------------------------------------------------------------------
(* cleanupDeadConnectionHandlers() and the destructor, whose call of          *)
(* shutdown() finds the socket closed and does nothing.                       *)

CleanupFindsDead ==
    /\ At("main", "idle")
    /\ ~alive
    /\ Goto("main", "join.rx")
    /\ UNCHANGED shared

JoinRx ==
    /\ At("main", "join.rx")
    /\ pc["rx"] = "done"
    /\ Goto("main", "join.tx")
    /\ UNCHANGED shared

(* With the members goes the port localPort still owns; its destructor closes *)
(* the handle.                                                                *)
JoinTx ==
    /\ At("main", "join.tx")
    /\ pc["tx"] = "done"
    /\ handle' = [o \in PortObjects |->
                    IF o = localPort THEN "deleted" ELSE handle[o]]
    /\ localPort' = NoPort
    /\ Goto("main", "deleted")
    /\ UNCHANGED <<role, socket, m_localPort, answer, waiting, frame, reading,
                   crashed>>

Destructor == CleanupFindsDead \/ JoinRx \/ JoinTx

-----------------------------------------------------------------------------
(* The environment, and what ends the process *)

(* The peer closes its end after the last byte the RX thread has received, or *)
(* the connection is lost.                                                    *)
PeerGone ==
    /\ ~crashed
    /\ conn = "up"
    /\ conn' \in {"closed", "lost"}
    /\ UNCHANGED <<role, alive, m_socketTX, port, answer, waiting, frame,
                   reading, crashed, pc, ret, reply>>

(* A wait on a condition variable may end without a notification. *)
SpuriousWakeup ==
    /\ ~crashed
    /\ \E t \in waiting : waiting' = waiting \ {t}
    /\ UNCHANGED <<role, socket, port, answer, frame, reading, crashed, pc, ret,
                   reply>>

Dies ==
    /\ ~crashed
    /\ crashed' = TRUE
    /\ UNCHANGED <<role, socket, port, answer, waiting, frame, reading, pc, ret,
                   reply>>

(* closePort() or setConfig() on the null pointer another thread left between *)
(* the test of localPort and the mutex.                                       *)
LockedNullCall(t) ==
    pc[t] \in {"close.body", "config.body"} /\ localPort = NoPort /\ Dies

(* readBytes() or writeBytes() on a pointer that is null by now. *)
UnlockedNullCall(t) ==
    pc[t] \in {"tx.read", "write.port"} /\ localPort = NoPort /\ Dies

(* readBytes() inside an object that openLocalPort deleted: anything happens; *)
(* TxReadReturns is the harmless outcome.                                     *)
ReadAfterFree ==
    pc["tx"] = "tx.reading" /\ handle[reading] = "deleted" /\ Dies

-----------------------------------------------------------------------------
MethodStep(t) ==
    \/ Shutdown(t) \/ CloseLocalPort(t) \/ OpenLocalPort(t)
    \/ SetLocalConfig(t) \/ LockedNullCall(t) \/ UnlockedNullCall(t)

Next ==
    \/ \E t \in Threads : MethodStep(t) \/ TransmitPackage(t)
    \/ HandleClientRX \/ HandleClientTX \/ LinkRemotePort \/ Destructor
    \/ PeerGone \/ SpuriousWakeup \/ ReadAfterFree

Spec == Init /\ [][Next]_vars

(* Every thread is scheduled, a wait ends at its timeout, a mutex that keeps  *)
(* becoming free is granted, and a call of the socket returns once either end *)
(* was closed, which the destructor's joins count on; open(), close() and     *)
(* tcsetattr() of a device return. Nothing is assumed of the packages the     *)
(* peer sends, of a lost peer, of spurious wake-ups or of the moment cleanup  *)
(* runs, and nothing makes a read deliver (TxReadDelivers), a write finish    *)
(* (WriteReturns) or a live connection take what is sent (SendTaken).         *)
RunRx ==
    \/ MethodStep("rx") \/ RxLoop \/ RxStale \/ WriteCheck \/ WritePort
    \/ ConfirmSet \/ ConfirmNotify \/ Reply
    \/ Reported /\ (RxHeaderFails \/ SendFails("rx"))
RunTx ==
    \/ MethodStep("tx") \/ TxLoop \/ TxCheck \/ WaitLock \/ WaitPred
    \/ WaitBlock \/ TxRead \/ TxReadReturns \/ TxSend
    \/ Reported /\ SendFails("tx")
RunMain ==
    \/ MethodStep("main") \/ LinkRemotePort \/ JoinRx \/ JoinTx
    \/ Reported /\ SendFails("main")

FairSpec == Spec /\ SF_vars(RunRx) /\ SF_vars(RunTx) /\ SF_vars(RunMain)

-----------------------------------------------------------------------------
(* Properties *)

Handles == {"fresh", "closed", "open", "deleted"}
Kinds == {"open", "error", "other"} \cup Answers

MethodLabels ==
    {"shutdown.isAlive", "shutdown.socket", "shutdown.notify",
     "close.check", "close.lock", "close.body",
     "open.lock", "open.port", "open.timeouts",
     "config.check", "config.lock", "config.body", "send.socket"}
RxLabels ==
    {"rx.loop", "rx.header", "rx.payload", "write.check", "write.port",
     "write.writing", "confirm.set", "confirm.notify", "reply", "done"}
TxLabels ==
    {"tx.loop", "tx.check", "wait.lock", "wait.pred", "wait.block",
     "tx.read", "tx.reading", "tx.send", "done"}
MainLabels ==
    {"openRemotePort", "setRemoteConfig", "call.send", "call.block",
     "call.wait", "openLocalPort", "opened", "configured", "idle",
     "join.rx", "join.tx", "deleted"}
ReturnLabels ==
    {"shutdown.socket", "open.lock", "reply", "setRemoteConfig",
     "openLocalPort"}

(* Every variable keeps the type of the member it stands for. *)
TypeOK ==
    /\ role \in {"client", "server"}
    /\ alive \in BOOLEAN
    /\ conn \in {"up", "closed", "lost"}
    /\ localPort \in PortObjects \cup {NoPort}
    /\ handle \in [PortObjects -> Handles]
    /\ m_localPort \in Threads \cup {"free"}
    /\ m_socketTX \in Threads \cup {"free"}
    /\ m_remoteReturn \in {"main", "free"}
    /\ remoteReturn \in BOOLEAN
    /\ waiting \in SUBSET {"tx", "main"}
    /\ pc \in [Threads -> MethodLabels \cup RxLabels \cup TxLabels \cup MainLabels]
    /\ ret \in [Threads -> ReturnLabels]
    /\ frame \in Kinds
    /\ reply \in [Threads -> BOOLEAN]
    /\ owed \in Nat
    /\ reading \in PortObjects \cup {NoPort}
    /\ crashed \in BOOLEAN

(* closeLocalPort abandons the object of localPort without deleting it. No    *)
(* object is abandoned, or replaced, while it holds the device open: nobody   *)
(* could close that handle any more, and the device would stay claimed.       *)
NoOrphanedOpenPort ==
    \A o \in PortObjects : handle[o] = "open" => o = localPort

(* The TX thread never sleeps beside an open port: openLocalPort notifies it  *)
(* under m_localPort, and it tests the port under the same mutex before it    *)
(* joins the wait set. An open port it sleeps beside is one openLocalPort is  *)
(* about to announce.                                                         *)
OpenNeverMissed ==
    "tx" \in waiting /\ IsOpen =>
        \E t \in Threads : pc[t] = "open.timeouts" /\ m_localPort = t

(* openRemotePort and setRemoteConfig send their request and go to sleep      *)
(* under m_remoteReturn, which processConfirm takes before it stores the      *)
(* answer. A caller that sleeps has an answer to come: one the peer owes, or  *)
(* one the RX thread is about to deliver.                                     *)
CallerNotAbandoned ==
    "main" \in waiting =>
        owed > 0 \/ pc["rx"] \in {"confirm.set", "confirm.notify"}

(* When processRemoteOpen confirms an open request the port is open, unless   *)
(* the TX thread has closed it because the link goes down.                    *)
ConfirmedOpenIsOpen ==
    (pc["rx"] = "reply" /\ frame = "open" /\ reply["rx"]) =>
        IsOpen \/ pc["tx"] \in {"shutdown.socket", "shutdown.notify", "done"}

(* The serial device is claimed through one object at a time. *)
Claim == INSTANCE PortClaim WITH claims <- {o \in PortObjects : handle[o] = "open"}
ClaimsOneAtATime == Claim!Spec

(* The peer and the device a promise may depend on: no write to the device,   *)
(* and no send() under m_socketTX, blocks for ever.                           *)
DeviceTakes == []<>(pc["rx"] # "write.writing")
PeerTakes == []<>(m_socketTX = "free")

(* handleClientRX ends once the socket is closed, whoever closed it, unless   *)
(* the device holds it in a write: closePort() does not release that one.     *)
RxStops == ~alive ~> (pc["rx"] \in {"done", "write.writing"} \/ crashed)

(* With a peer that takes what is sent, an open port of a live link is read   *)
(* by the TX thread, whatever packages and writes keep the RX thread busy.    *)
OpenPortIsServed ==
    PeerTakes =>
        ((alive /\ IsOpen) ~> (pc["tx"] = "tx.reading" \/ ~IsOpen \/ ~alive \/ crashed))

(* linkRemotePort returns when the requests can be sent: a peer that never    *)
(* answers cannot hold it. The timeout of the handshake does not cover the    *)
(* sending.                                                                   *)
HandshakeReturns == PeerTakes => <>(pc["main"] = "idle" \/ crashed)

(* A peer that closes its end between two packages ends the link, once the    *)
(* device takes what is left to write.                                        *)
ClosedPeerEndsLink ==
    DeviceTakes =>
        ((conn = "closed" /\ pc["rx"] # "rx.payload") ~> (~alive \/ crashed))

-----------------------------------------------------------------------------
(* What the header and the comments say, and the code does not do.            *)

(* soeconnection.hpp:95: isAlive() is true as long as the connection is       *)
(* operational. A peer that closes its end ends the link, also in the middle  *)
(* of a package.                                                              *)
AliveWhileOperational == DeviceTakes => (conn = "closed" ~> (~alive \/ crashed))

(* soeconnection.hpp:44 and soemain.hpp:44: the destructor shuts the handler *)
(* down and deletes it. (A device that keeps a write for ever would hold it   *)
(* as well.)                                                                  *)
DestructorReturns ==
    DeviceTakes => (pc["main"] = "join.rx" ~> (pc["main"] = "deleted" \/ crashed))

(* soeconnection.hpp:147: the mutex protects the local serial port.           *)
PortNotUsedAfterRelease == ~crashed

(* soeconnection.hpp:75: shutdown() releases the local port, and blocks until *)
(* everything is closed.                                                      *)
PortReleasedByShutdown ==
    (pc["rx"] = "done" /\ pc["tx"] = "done" /\ pc["main"] = "idle") => ~IsOpen
=============================================================================

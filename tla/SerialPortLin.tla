---------------------------- MODULE SerialPortLin ----------------------------
(* One serial port object of the Linux library (serial_port_lin.cpp), used by *)
(* two threads: the owner opens, configures and closes the port, the reader   *)
(* calls readBytes and readBytesConsecutive, as the threads of the terminal   *)
(* and of the link handler do.                                                *)
(*                                                                            *)
(* The object holds the descriptor of the device and an eventfd, which        *)
(* closePort signals to release a reader that polls. Nobody takes a lock: a   *)
(* step is what a thread does between two accesses of the members or two      *)
(* system calls. Durations are left out: a finite timeout may end at any      *)
(* moment. Of the line configuration only VMIN is kept, which decides whether *)
(* read() waits for a byte. The direction of writeBytes, which has a timeout  *)
(* and an eventfd of its own, is left out. The device is the environment.     *)
EXTENDS Integers

CONSTANTS
    Fds,            \* the numbers open() can return
    ReadTimeouts,   \* the first argument of setTimeouts
    WaitTimeouts,   \* the last argument of readBytesConsecutive
    MaxOpens,       \* bound of the model: successful calls of open()
    MaxBytes        \* bound of the model: bytes that wait in the device

ASSUME PortAssumption ==
    /\ Fds \subseteq Nat
    /\ ReadTimeouts \subseteq Int
    /\ WaitTimeouts \subseteq Nat
    /\ MaxOpens \in Nat
    /\ MaxBytes \in Nat \ {0}

VARIABLES
    comPortHandle,  \* the descriptor, or None
    pollfdRx,       \* descriptor in pollfdRx[0]; None before the first open
    event,          \* whether the eventfd in pollfdRx[1] has been signalled
    rxTimeout,      \* member
    comPortState,   \* c_cc[VMIN] of the member all methods share
    tty,            \* the descriptor the kernel has open on the device, or None
    vmin,           \* c_cc[VMIN] of the device
    input,          \* bytes the device has received
    opens, closes,  \* successful calls of open() and close()
    pc,             \* where each thread is
    arg,            \* read timeout each thread has passed to setTimeouts
    rx              \* locals of the call of the reader

object == <<comPortHandle, pollfdRx, event, rxTimeout, comPortState>>
device == <<tty, vmin, input, opens, closes>>
vars   == <<object, device, pc, arg, rx>>

None == -1
Threads == {"owner", "reader"}

Goto(t, label) == pc' = [pc EXCEPT ![t] = label]

(* What setTimeouts makes of a read timeout: (unsigned char) (t / 100). *)
Stored(t) == IF t < 0 THEN -1 ELSE (t \div 100) % 256

(* Mutant: the counter of the eventfd starts at one. *)
Signalled == TRUE

(* eventfd(0, 0) *)
Eventfd == FALSE

(* orig: the timeout readBytesConsecutive puts back; waited, watch: timeout   *)
(* and descriptor readBytes has found; min: VMIN that read() has found; got:  *)
(* bytes read; session: the open during which the call has begun.             *)
NoCall == [mode |-> "plain", orig |-> 0, waited |-> 0, watch |-> None,
           min |-> 0, got |-> 0, session |-> 0]

Init ==
    /\ comPortHandle = None
    /\ pollfdRx = None
    /\ event = Eventfd
    /\ rxTimeout = 0
    /\ comPortState \in {0, 1}
    /\ tty = None
    /\ vmin \in {0, 1}
    /\ input = 0
    /\ opens = 0
    /\ closes = 0
    /\ pc = [t \in Threads |-> "idle"]
    /\ arg = [t \in Threads |-> 0]
    /\ rx = NoCall

-----------------------------------------------------------------------------
(* openPort() and closePort() *)

(* open() returns a free descriptor, or fails. The device starts with the     *)
(* settings it has.                                                           *)
OpenPort ==
    /\ pc["owner"] = "idle"
    /\ comPortHandle = None
    /\ opens < MaxOpens
    /\ \E fd \in Fds :
         /\ comPortHandle' = fd
         /\ tty' = fd
    /\ vmin' \in {0, 1}
    /\ opens' = opens + 1
    /\ Goto("owner", "open.poll")
    /\ UNCHANGED <<pollfdRx, event, rxTimeout, comPortState, input, closes, arg, rx>>

OpenPoll ==
    /\ pc["owner"] = "open.poll"
    /\ pollfdRx' = comPortHandle
    /\ Goto("owner", "open.config")
    /\ UNCHANGED <<comPortHandle, event, rxTimeout, comPortState, device, arg, rx>>

(* setConfig, whose result openPort does not use: tcgetattr() and tcsetattr(),*)
(* which may fail ...                                                         *)
OpenConfig ==
    /\ pc["owner"] = "open.config"
    /\ comPortState' \in {comPortState, vmin}
    /\ Goto("owner", "open.apply")
    /\ UNCHANGED <<comPortHandle, pollfdRx, event, rxTimeout, device, arg, rx>>

(* ... and then setTimeouts(-1, 0, 100), whose result it does not use either. *)
OpenApply ==
    /\ pc["owner"] = "open.apply"
    /\ vmin' \in {vmin, comPortState}
    /\ arg' = [arg EXCEPT !["owner"] = -1]
    /\ Goto("owner", "set.get")
    /\ UNCHANGED <<object, tty, input, opens, closes, rx>>

(* close() of the last descriptor drops what the device has received, unless  *)
(* another process has it open.                                               *)
ClosePort ==
    /\ pc["owner"] = "idle"
    /\ comPortHandle # None
    /\ tty' = None
    /\ closes' = closes + 1
    /\ input' \in {0, input}
    /\ Goto("owner", "close.handle")
    /\ UNCHANGED <<object, vmin, opens, arg, rx>>

CloseHandle ==
    /\ pc["owner"] = "close.handle"
    /\ comPortHandle' = None
    /\ Goto("owner", "close.event")
    /\ UNCHANGED <<pollfdRx, event, rxTimeout, comPortState, device, arg, rx>>

(* Mutant: the poll of the reader is not released. *)
CloseQuietly ==
    /\ pc["owner"] = "close.event"
    /\ Goto("owner", "idle")
    /\ UNCHANGED <<object, device, arg, rx>>

CloseEvent ==
    /\ pc["owner"] = "close.event"
    /\ event' = TRUE
    /\ Goto("owner", "idle")
    /\ UNCHANGED <<comPortHandle, pollfdRx, rxTimeout, comPortState, device, arg, rx>>

-----------------------------------------------------------------------------
(* setTimeouts() of the owner and of readBytesConsecutive; setConfig, setBaud *)
(* and the getters of the owner, which fill comPortState and may give it back *)
(* to the device.                                                             *)

SetTimeouts ==
    /\ pc["owner"] = "idle"
    /\ comPortHandle # None
    /\ \E readTimeout \in ReadTimeouts : arg' = [arg EXCEPT !["owner"] = readTimeout]
    /\ Goto("owner", "set.get")
    /\ UNCHANGED <<object, device, rx>>

(* Where a call of setTimeouts returns to; the call of the reader ends with   *)
(* the second one.                                                            *)
SetReturns(t, done) ==
    /\ arg' = [arg EXCEPT ![t] = 0]
    /\ IF t = "owner" THEN Goto(t, "idle") /\ UNCHANGED rx
       ELSE IF rx.mode = "restore" THEN Goto(t, "idle") /\ rx' = NoCall
       ELSE Goto(t, IF done THEN "read.handle" ELSE "restore") /\ UNCHANGED rx

(* tcgetattr(), which may fail, fills the state all methods share ... *)
SetGet(t) ==
    /\ pc[t] = "set.get"
    /\ \/ /\ comPortHandle # None
          /\ comPortHandle = tty
          /\ comPortState' = vmin
          /\ Goto(t, "set.timeout")
          /\ UNCHANGED <<arg, rx>>
       \/ SetReturns(t, FALSE) /\ UNCHANGED comPortState
    /\ UNCHANGED <<comPortHandle, pollfdRx, event, rxTimeout, device>>

(* ... and the members are assigned, before the device has the new settings. *)
SetTimeout(t) ==
    /\ pc[t] = "set.timeout"
    /\ rxTimeout' = Stored(arg[t])
    /\ Goto(t, "set.min")
    /\ UNCHANGED <<comPortHandle, pollfdRx, event, comPortState, device, arg, rx>>

SetMin(t) ==
    /\ pc[t] = "set.min"
    /\ comPortState' = IF arg[t] < 0 THEN 1 ELSE 0
    /\ Goto(t, "set.apply")
    /\ UNCHANGED <<comPortHandle, pollfdRx, event, rxTimeout, device, arg, rx>>

(* tcsetattr(), which may fail. *)
SetApply(t) ==
    /\ pc[t] = "set.apply"
    /\ \/ /\ comPortHandle # None
          /\ comPortHandle = tty
          /\ vmin' = comPortState
          /\ SetReturns(t, TRUE)
       \/ SetReturns(t, FALSE) /\ UNCHANGED vmin
    /\ UNCHANGED <<object, tty, input, opens, closes>>

SetStep(t) == SetGet(t) \/ SetTimeout(t) \/ SetMin(t) \/ SetApply(t)

ConfigGet ==
    /\ pc["owner"] = "idle"
    /\ comPortHandle # None
    /\ comPortState' = vmin
    /\ \E next \in {"idle", "config.apply"} : Goto("owner", next)
    /\ UNCHANGED <<comPortHandle, pollfdRx, event, rxTimeout, device, arg, rx>>

ConfigApply ==
    /\ pc["owner"] = "config.apply"
    /\ vmin' \in {vmin, comPortState}
    /\ Goto("owner", "idle")
    /\ UNCHANGED <<object, tty, input, opens, closes, arg, rx>>

Owner ==
    \/ OpenPort \/ OpenPoll \/ OpenConfig \/ OpenApply
    \/ ClosePort \/ CloseHandle \/ CloseEvent
    \/ SetTimeouts \/ SetStep("owner")
    \/ ConfigGet \/ ConfigApply

-----------------------------------------------------------------------------
(* readBytes() and readBytesConsecutive() *)

(* 0 for a call that begins while the port is being closed. *)
Session == IF tty = None THEN 0 ELSE opens

ReadBytes ==
    /\ pc["reader"] = "idle"
    /\ comPortHandle # None
    /\ rx' = [rx EXCEPT !.session = Session]
    /\ Goto("reader", "read.timeout")
    /\ UNCHANGED <<object, device, arg>>

(* The timeout is changed for the read and put back after it, to the value    *)
(* the member had. (Left out: when member and argument are equal, both calls  *)
(* of setTimeouts are skipped, and the read is one of ReadBytes.)             *)
ReadBytesConsecutive ==
    /\ pc["reader"] = "idle"
    /\ comPortHandle # None
    /\ \E wait \in WaitTimeouts : arg' = [arg EXCEPT !["reader"] = wait]
    /\ rx' = [rx EXCEPT !.mode = "changed", !.orig = rxTimeout, !.session = Session]
    /\ Goto("reader", "set.get")
    /\ UNCHANGED <<object, device>>

Restore ==
    /\ pc["reader"] = "restore"
    /\ arg' = [arg EXCEPT !["reader"] = rx.orig]
    /\ rx' = [NoCall EXCEPT !.mode = "restore"]
    /\ Goto("reader", "set.get")
    /\ UNCHANGED <<object, device>>

ReadHandle ==
    /\ pc["reader"] = "read.handle"
    /\ Goto("reader", IF comPortHandle = None THEN "restore" ELSE "read.timeout")
    /\ UNCHANGED <<object, device, arg, rx>>

(* The member is read twice, for the test and for the call of poll().         *)
ReadTimeout ==
    /\ pc["reader"] = "read.timeout"
    /\ Goto("reader", IF rxTimeout = 0 THEN "read" ELSE "poll.call")
    /\ UNCHANGED <<object, device, arg, rx>>

(* A poll() of a descriptor that is not open ends at once with POLLNVAL, which*)
(* counts as an event of the device; before the first open the descriptor is  *)
(* an uninitialised number, which may be one.                                 *)
PollCall ==
    /\ pc["reader"] = "poll.call"
    /\ rx' = [rx EXCEPT !.waited = rxTimeout, !.watch = pollfdRx]
    /\ \/ pollfdRx \in {tty, None} /\ Goto("reader", "poll")
       \/ pollfdRx # tty /\ Goto("reader", "read")
    /\ UNCHANGED <<object, device, arg>>

(* Mutant: the events of the device are not looked at after poll(). *)
PollReturnsAnyway ==
    /\ pc["reader"] = "poll"
    /\ input > 0 \/ event \/ rx.waited # -1
    /\ Goto("reader", "read")
    /\ UNCHANGED <<object, device, arg, rx>>

(* poll() ends with bytes to read, with the event of closePort or at its      *)
(* timeout; without bytes nothing is read.                                    *)
PollReturns ==
    /\ pc["reader"] = "poll"
    /\ \/ input > 0 /\ rx.watch # None /\ Goto("reader", "read")
       \/ /\ input = 0 \/ rx.watch = None
          /\ event \/ rx.waited # -1
          /\ Goto("reader", "returned")
    /\ UNCHANGED <<object, device, arg, rx>>

(* read() fails on a closed descriptor; otherwise it looks at VMIN ...        *)
Read ==
    /\ pc["reader"] = "read"
    /\ IF comPortHandle = None \/ comPortHandle # tty
       THEN Goto("reader", "returned") /\ UNCHANGED rx
       ELSE Goto("reader", "reading") /\ rx' = [rx EXCEPT !.min = vmin]
    /\ UNCHANGED <<object, device, arg>>

(* ... and waits for a byte, or for the time VTIME allows. close() of the     *)
(* descriptor does not end it.                                                *)
ReadReturns ==
    /\ pc["reader"] = "reading"
    /\ \E n \in 0..input :
         /\ n > 0 \/ (input = 0 /\ rx.min = 0)
         /\ input' = input - n
         /\ rx' = [rx EXCEPT !.got = n]
    /\ Goto("reader", "returned")
    /\ UNCHANGED <<object, tty, vmin, opens, closes, arg>>

Returned ==
    /\ pc["reader"] = "returned"
    /\ IF rx.mode = "changed" THEN Goto("reader", "restore") /\ UNCHANGED rx
       ELSE Goto("reader", "idle") /\ rx' = NoCall
    /\ UNCHANGED <<object, device, arg>>

ReaderStep ==
    \/ Restore \/ ReadHandle \/ ReadTimeout \/ PollCall \/ PollReturns
    \/ Read \/ ReadReturns \/ Returned \/ SetStep("reader")
Reader == ReadBytes \/ ReadBytesConsecutive \/ ReaderStep

-----------------------------------------------------------------------------
(* The device receives a byte. A call that waits for it keeps it open. *)
Receives ==
    /\ tty # None \/ pc["reader"] \in {"poll", "reading"}
    /\ input < MaxBytes
    /\ input' = input + 1
    /\ UNCHANGED <<object, tty, vmin, opens, closes, pc, arg, rx>>

Next == Owner \/ Reader \/ Receives

Spec == Init /\ [][Next]_vars

(* A call that has begun goes on; nobody has to call, and the device may stay *)
(* silent.                                                                    *)
FairSpec ==
    /\ Spec
    /\ WF_vars(CloseHandle \/ CloseEvent)
    /\ WF_vars(ReaderStep)

-----------------------------------------------------------------------------
(* Properties *)

Labels ==
    {"idle", "open.poll", "open.config", "open.apply", "close.handle",
     "close.event", "config.apply", "set.get", "set.timeout", "set.min",
     "set.apply", "restore", "read.handle", "read.timeout", "poll.call", "poll", "read", "reading",
     "returned"}

(* The variables have the types of what they stand for; the read timeout the  *)
(* object stores is -1 or fits a byte.                                        *)
TypeOK ==
    /\ comPortHandle \in Fds \cup {None}
    /\ pollfdRx \in Fds \cup {None}
    /\ event \in BOOLEAN
    /\ rxTimeout \in -1..255
    /\ comPortState \in {0, 1}
    /\ tty \in Fds \cup {None}
    /\ vmin \in {0, 1}
    /\ input \in Nat
    /\ opens \in Nat
    /\ closes \in Nat
    /\ pc \in [Threads -> Labels]
    /\ arg \in [Threads -> Int]
    /\ rx \in [mode : {"plain", "changed", "restore"}, orig : -1..255,
              waited : -1..255, watch : Fds \cup {None}, min : {0, 1},
              got : Nat, session : Nat]

(* As long as the object has not been closed, a read without time limit       *)
(* returns bytes, whatever the owner does with timeouts and configuration     *)
(* in the meantime.                                                           *)
FirstSessionBlocks ==
    (pc["reader"] = "returned" /\ rx.got = 0 /\ rx.waited = -1) => closes > 0

(* A read that polls does not wait in read(), where closePort cannot reach    *)
(* it, even when the owner makes the device block between poll() and read():  *)
(* only a read that does not poll, for it found a timeout of zero, as before  *)
(* openPort has set its timeouts, one that polled before openPort had filled  *)
(* in the descriptor, and one that a close has overtaken, do.                 *)
WaitsInPoll ==
    (pc["reader"] = "reading" /\ rx.min = 1 /\ input = 0) =>
        rx.watch = None \/ closes > 0

(* closePort releases a reader that is not in read() yet, wherever it is,     *)
(* unless the port is opened again first.                                     *)
CloseReleasesReader ==
    \A n \in 1..MaxOpens :
        (closes = n /\ opens = n /\ pc["reader"] # "reading")
            ~> (pc["reader"] = "idle" \/ opens > n)

(* serial_port.hpp:91: a read timeout below zero blocks the read until at     *)
(* least one byte has arrived. (A read the port is closed under may end.)     *)
NegativeTimeoutBlocks ==
    (pc["reader"] = "returned" /\ rx.got = 0 /\ rx.waited = -1) =>
        rx.session # opens \/ closes = opens
=============================================================================

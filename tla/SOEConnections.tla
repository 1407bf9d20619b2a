--------------------------- MODULE SOEConnections ---------------------------
(* The process around the connection handlers (soemain.cpp): the main thread  *)
(* makes a handler for each link of the command line and, as a server, for    *)
(* each connection it accepts, and deletes the handlers that have died, as a  *)
(* server between two accepts, as a client whenever it wakes.                 *)
(*                                                                            *)
(* Of a handler its socket and its two threads are kept (SOELinkHandler has   *)
(* the rest): a thread that leaves its loop runs shutdown(), which closes the *)
(* socket and calls onDeath. Only the main thread takes m_clientConnections,  *)
(* so the mutex is left out; onDeath notifies without it.                     *)
EXTENDS FiniteSets

CONSTANTS
    Handlers,       \* the handlers made; their number bounds the connections
    NoHandler

ASSUME HandlersAssumption == NoHandler \notin Handlers

VARIABLES
    serves,             \* a server address is given
    pc,                 \* where the main thread is
    current,            \* the handler it links or deletes, or NoHandler
    clientConnections,  \* the handlers in the list
    unchecked,          \* those cleanupDeadConnectionHandlers has to look at
    notified,           \* the sleeping main thread has been notified
    memory,             \* "none", "made" or "deleted", of each handler
    open,               \* socket->isOpen() of each handler
    place               \* where the two threads of each handler are

main    == <<serves, current, clientConnections, unchecked, memory>>
handler == <<open, place>>
vars    == <<pc, notified, main, handler>>

Threads == {"rx", "tx"}

Goto(label) == pc' = label

Init ==
    /\ serves \in BOOLEAN
    /\ pc = "flags"
    /\ current = NoHandler
    /\ clientConnections = {}
    /\ unchecked = {}
    /\ notified = FALSE
    /\ memory = [h \in Handlers |-> "none"]
    /\ open = [h \in Handlers |-> FALSE]
    /\ place = [h \in Handlers |-> [t \in Threads |-> "done"]]

-----------------------------------------------------------------------------
(* createConnectionHandler(), called by linkRemotePort and after an accept    *)

(* Mutant: the handler is not put on the list. *)
CreateUnlisted ==
    /\ pc \in {"flags", "accept"}
    /\ \E h \in Handlers :
         /\ memory[h] = "none"
         /\ memory' = [memory EXCEPT ![h] = "made"]
         /\ open' = [open EXCEPT ![h] = TRUE]
         /\ place' = [place EXCEPT ![h] = [t \in Threads |-> "run"]]
         /\ \/ pc = "flags" /\ Goto("link") /\ current' = h /\ UNCHANGED unchecked
            \/ /\ pc = "accept" /\ Goto("cleanup")
               /\ unchecked' = clientConnections
               /\ UNCHANGED current
    /\ UNCHANGED <<serves, clientConnections, notified>>

CreateConnectionHandler ==
    /\ pc \in {"flags", "accept"}
    /\ \E h \in Handlers :
         /\ memory[h] = "none"
         /\ memory' = [memory EXCEPT ![h] = "made"]
         /\ open' = [open EXCEPT ![h] = TRUE]
         /\ place' = [place EXCEPT ![h] = [t \in Threads |-> "run"]]
         /\ clientConnections' = clientConnections \cup {h}
         /\ \/ pc = "flags" /\ Goto("link") /\ current' = h /\ UNCHANGED unchecked
            \/ /\ pc = "accept" /\ Goto("cleanup")
               /\ unchecked' = clientConnections'
               /\ UNCHANGED current
    /\ UNCHANGED <<serves, notified>>

(* The rest of linkRemotePort: the handshake succeeds, or the main thread     *)
(* shuts the handler down; its onDeath finds nobody asleep.                   *)
LinkRemotePort ==
    /\ pc = "link"
    /\ open' \in {open, [open EXCEPT ![current] = FALSE]}
    /\ current' = NoHandler
    /\ Goto("flags")
    /\ UNCHANGED <<serves, clientConnections, unchecked, memory, notified, place>>

(* The flags are read; a server may fail to bind any address.                 *)
InterpretFlags ==
    /\ pc = "flags"
    /\ \/ Goto("cleanup") /\ unchecked' = clientConnections
       \/ serves /\ Goto("exit") /\ UNCHANGED unchecked
    /\ UNCHANGED <<serves, current, clientConnections, memory, notified, handler>>

-----------------------------------------------------------------------------
(* cleanupDeadConnectionHandlers() *)

CheckIsAlive ==
    /\ pc = "cleanup"
    /\ \E h \in unchecked :
         /\ unchecked' = unchecked \ {h}
         /\ \/ open[h] /\ Goto("cleanup") /\ UNCHANGED current
            \/ ~open[h] /\ Goto("join") /\ current' = h
    /\ UNCHANGED <<serves, clientConnections, memory, notified, handler>>

(* The destructor returns after both threads have ended. *)
Delete ==
    /\ pc = "join"
    /\ \A t \in Threads : place[current][t] = "done"
    /\ memory' = [memory EXCEPT ![current] = "deleted"]
    /\ clientConnections' = clientConnections \ {current}
    /\ current' = NoHandler
    /\ Goto("cleanup")
    /\ UNCHANGED <<serves, unchecked, notified, handler>>

CleanupReturns ==
    /\ pc = "cleanup"
    /\ unchecked = {}
    /\ Goto(IF serves THEN "accept" ELSE "size")
    /\ UNCHANGED <<main, notified, handler>>

-----------------------------------------------------------------------------
(* runMain(): a client waits on cv_clientConnections with a predicate that    *)
(* cleans up and looks at the size of the list; a server accepts.             *)

WaitPredicate ==
    /\ pc = "size"
    /\ Goto(IF clientConnections = {} THEN "exit" ELSE "block")
    /\ UNCHANGED <<main, notified, handler>>

WaitBlock ==
    /\ pc = "block"
    /\ notified' = FALSE
    /\ Goto("asleep")
    /\ UNCHANGED <<main, handler>>

WaitReturns ==
    /\ pc = "asleep"
    /\ notified
    /\ unchecked' = clientConnections
    /\ Goto("cleanup")
    /\ UNCHANGED <<serves, current, clientConnections, memory, notified, handler>>

SpuriousWakeup ==
    /\ pc = "asleep"
    /\ notified' = TRUE
    /\ UNCHANGED <<pc, main, handler>>

(* accept() fails; the server socket may be closed. *)
AcceptFails ==
    /\ pc = "accept"
    /\ \/ Goto("cleanup") /\ unchecked' = clientConnections
       \/ Goto("exit") /\ UNCHANGED unchecked
    /\ UNCHANGED <<serves, current, clientConnections, memory, notified, handler>>

Main ==
    \/ CreateConnectionHandler \/ LinkRemotePort \/ InterpretFlags
    \/ CheckIsAlive \/ Delete \/ CleanupReturns
    \/ WaitPredicate \/ WaitBlock \/ WaitReturns \/ AcceptFails

-----------------------------------------------------------------------------
(* The threads of a handler: shutdown() at the end of their loops. Both may   *)
(* find the socket open.                                                      *)

Ends(h, t, label) == place' = [place EXCEPT ![h][t] = label]

(* The loop ends: the socket is closed, the peer is gone, a package is bad.   *)
LoopEnds(h, t) ==
    /\ place[h][t] = "run"
    /\ Ends(h, t, IF open[h] THEN "close" ELSE "done")
    /\ UNCHANGED <<pc, main, notified, open>>

CloseSocket(h, t) ==
    /\ place[h][t] = "close"
    /\ open' = [open EXCEPT ![h] = FALSE]
    /\ Ends(h, t, "onDeath")
    /\ UNCHANGED <<pc, main, notified>>

(* notify_one() wakes the main thread if it sleeps, and has no effect else.   *)
OnDeath(h, t) ==
    /\ place[h][t] = "onDeath"
    /\ notified' = (notified \/ pc = "asleep")
    /\ Ends(h, t, "done")
    /\ UNCHANGED <<pc, main, open>>

(* Mutant: onDeath is called before the socket is closed. *)
ShutdownNotifiesFirst(h, t) ==
    \/ LoopEnds(h, t)
    \/ /\ place[h][t] = "close"
       /\ notified' = (notified \/ pc = "asleep")
       /\ Ends(h, t, "onDeath")
       /\ UNCHANGED <<pc, main, open>>
    \/ /\ place[h][t] = "onDeath"
       /\ open' = [open EXCEPT ![h] = FALSE]
       /\ Ends(h, t, "done")
       /\ UNCHANGED <<pc, main, notified>>

Shutdown(h, t) == LoopEnds(h, t) \/ CloseSocket(h, t) \/ OnDeath(h, t)

-----------------------------------------------------------------------------
(* The process and its threads end with main().                               *)
Next ==
    \/ Main
    \/ SpuriousWakeup
    \/ pc # "exit" /\ \E h \in Handlers, t \in Threads : Shutdown(h, t)

Spec == Init /\ [][Next]_vars

(* The main thread runs once the links are made, but nobody has to connect. A *)
(* thread that is in shutdown() gets through it. Nothing makes a thread leave *)
(* its loop: after the socket is closed the TX thread may sleep for ever (its *)
(* wake-up is lost between soelinkhandler.cpp:47 and :145, see SOELinkHandler)*)
(* and the RX thread may wait in the write to the device.                     *)
MainRuns ==
    \/ CheckIsAlive \/ Delete \/ CleanupReturns
    \/ WaitPredicate \/ WaitBlock \/ WaitReturns
ShutdownRuns(h, t) == pc # "exit" /\ place[h][t] # "run" /\ Shutdown(h, t)

FairSpec ==
    /\ Spec
    /\ WF_vars(MainRuns)
    /\ \A h \in Handlers, t \in Threads : WF_vars(ShutdownRuns(h, t))

-----------------------------------------------------------------------------
(* Properties *)

(* The variables have the types of what they stand for. *)
TypeOK ==
    /\ serves \in BOOLEAN
    /\ pc \in {"flags", "link", "cleanup", "join", "size", "block", "asleep",
              "accept", "exit"}
    /\ current \in Handlers \cup {NoHandler}
    /\ pc \in {"link", "join"} => current # NoHandler
    /\ clientConnections \subseteq Handlers
    /\ unchecked \subseteq clientConnections
    /\ notified \in BOOLEAN
    /\ memory \in [Handlers -> {"none", "made", "deleted"}]
    /\ open \in [Handlers -> BOOLEAN]
    /\ place \in [Handlers -> [Threads -> {"run", "close", "onDeath", "done"}]]

(* A client process ends after it has deleted every handler it made: the list *)
(* it finds empty has none forgotten, and no link is cut by its end.          *)
ClientEndsAfterItsLinks ==
    (pc = "exit" /\ ~serves) => \A h \in Handlers : memory[h] # "made"

(* The destructor waits for a thread that has not left its loop. *)
WaitsForLoop == pc = "join" /\ \E t \in Threads : place[current][t] = "run"

(* A link that dies while the client sleeps is found by it: the socket is     *)
(* closed before onDeath, so the handler looks dead to the thread onDeath     *)
(* wakes. It is deleted, unless the destructor, its own or that of another    *)
(* dead link, waits for ever for a thread that does not leave its loop.       *)
DeathSeenBySleeper ==
    \A h \in Handlers : \A t \in Threads :
        []( (pc = "asleep" /\ place[h][t] = "onDeath")
            => (<>(memory[h] = "deleted") \/ <>[]WaitsForLoop) )

(* soemain.cpp:106: without a server the process only waits for the client    *)
(* connections to terminate.                                                  *)
ClientTerminates ==
    (pc = "asleep" /\ \A h \in Handlers, t \in Threads : place[h][t] = "done")
        ~> pc = "exit"
=============================================================================

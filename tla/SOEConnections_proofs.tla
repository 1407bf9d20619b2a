------------------------ MODULE SOEConnections_proofs ------------------------
(* Safety of the list of connection handlers, for any set of handlers. The    *)
(* list is the account of the handlers in memory.                             *)
EXTENDS SOEConnections, TLAPS

(* The list holds the handlers in memory, and no others. *)
ListInv == \A h \in Handlers : memory[h] = "made" <=> h \in clientConnections

(* The handler that is being deleted is not looked at again; the server's     *)
(* labels are those of a server, and a client ends with an empty list.        *)
MainInv ==
    /\ pc = "join" => current \notin unchecked
    /\ pc = "accept" => serves
    /\ (pc = "exit" /\ ~serves) => clientConnections = {}

IInv == TypeOK /\ ListInv /\ MainInv

USE DEF Threads, Goto, Ends, main, handler

LEMMA InitIInv == Init => IInv
<1> SUFFICES ASSUME Init PROVE IInv
    OBVIOUS
<1>1. /\ memory \in [Handlers -> {"none", "made", "deleted"}]
      /\ open \in [Handlers -> BOOLEAN]
      /\ place \in [Handlers -> [Threads -> {"run", "close", "onDeath", "done"}]]
      BY DEF Init
<1>2. TypeOK
      BY <1>1 DEF Init, TypeOK
<1>3. ListInv /\ MainInv
      BY DEF Init, ListInv, MainInv
<1> QED BY <1>2, <1>3 DEF IInv

-----------------------------------------------------------------------------
(* The steps of the main thread *)

LEMMA MainStep == IInv /\ Main => IInv'
<1> SUFFICES ASSUME IInv, Main PROVE IInv'
    OBVIOUS
<1> USE HandlersAssumption DEF IInv, TypeOK, ListInv, MainInv
<1>1. CASE CreateConnectionHandler
  <2>1. PICK h \in Handlers : CreateConnectionHandler!2!(h)
        BY <1>1 DEF CreateConnectionHandler
  <2>2. TypeOK'
        BY <1>1, <2>1 DEF CreateConnectionHandler
  <2>3. ListInv'
        BY <1>1, <2>1 DEF CreateConnectionHandler
  <2>4. MainInv'
        BY <1>1, <2>1 DEF CreateConnectionHandler
  <2> QED BY <2>2, <2>3, <2>4
<1>2. CASE LinkRemotePort
      BY <1>2 DEF LinkRemotePort
<1>3. CASE InterpretFlags
      BY <1>3 DEF InterpretFlags
<1>4. CASE CheckIsAlive
      BY <1>4 DEF CheckIsAlive
<1>5. CASE Delete
  <2>1. current \in Handlers /\ current \notin unchecked
        BY <1>5 DEF Delete
  <2>2. TypeOK'
        BY <1>5, <2>1 DEF Delete
  <2>3. ListInv'
        BY <1>5, <2>1 DEF Delete
  <2>4. MainInv'
        BY <1>5, <2>1 DEF Delete
  <2> QED BY <2>2, <2>3, <2>4
<1>6. CASE CleanupReturns
      BY <1>6 DEF CleanupReturns
<1>7. CASE WaitPredicate
      BY <1>7 DEF WaitPredicate
<1>8. CASE WaitBlock
      BY <1>8 DEF WaitBlock
<1>9. CASE WaitReturns
      BY <1>9 DEF WaitReturns
<1>10. CASE AcceptFails
      BY <1>10 DEF AcceptFails
<1> QED
    BY <1>1, <1>2, <1>3, <1>4, <1>5, <1>6, <1>7, <1>8, <1>9, <1>10 DEF Main

-----------------------------------------------------------------------------
(* The steps of a handler *)

LEMMA ShutdownStep ==
    ASSUME NEW h \in Handlers, NEW t \in Threads, IInv, Shutdown(h, t)
    PROVE  IInv'
<1> USE DEF IInv, TypeOK, ListInv, MainInv
<1>1. UNCHANGED <<pc, main>>
      BY DEF Shutdown, LoopEnds, CloseSocket, OnDeath
<1>2. \E l \in {"close", "onDeath", "done"} : Ends(h, t, l)
      BY DEF Shutdown, LoopEnds, CloseSocket, OnDeath
<1>3. open' \in [Handlers -> BOOLEAN]
      BY DEF Shutdown, LoopEnds, CloseSocket, OnDeath
<1>4. notified' \in BOOLEAN
  <2>1. CASE LoopEnds(h, t) \/ CloseSocket(h, t)
        BY <2>1 DEF LoopEnds, CloseSocket
  <2>2. CASE OnDeath(h, t)
        BY <2>2, Zenon DEF OnDeath
  <2> QED BY <2>1, <2>2 DEF Shutdown
<1>5. place' \in [Handlers -> [Threads -> {"run", "close", "onDeath", "done"}]]
      BY <1>2
<1> QED BY <1>1, <1>3, <1>4, <1>5

LEMMA NextIInv == IInv /\ [Next]_vars => IInv'
<1> SUFFICES ASSUME IInv, [Next]_vars PROVE IInv'
    OBVIOUS
<1>1. CASE Main
      BY <1>1, MainStep
<1>2. CASE SpuriousWakeup
      BY <1>2 DEF SpuriousWakeup, IInv, TypeOK, ListInv, MainInv
<1>3. CASE \E h \in Handlers, t \in Threads : Shutdown(h, t)
      BY <1>3, ShutdownStep
<1>4. CASE UNCHANGED vars
      BY <1>4 DEF vars, IInv, TypeOK, ListInv, MainInv
<1> QED BY <1>1, <1>2, <1>3, <1>4 DEF Next

LEMMA InvariantHolds == Spec => []IInv
  BY InitIInv, NextIInv, PTL DEF Spec

-----------------------------------------------------------------------------
(* The variables keep their types, and the handlers still to be looked at are *)
(* handlers of the list.                                                      *)
THEOREM TypeCorrect == Spec => []TypeOK
  BY InvariantHolds, PTL DEF IInv

(* A client process that ends has deleted every handler it made, however the  *)
(* deaths of the links fall between its cleanup and its look at the list.     *)
THEOREM ClientEndsClean == Spec => []ClientEndsAfterItsLinks
<1>1. IInv => ClientEndsAfterItsLinks
      BY DEF IInv, ListInv, MainInv, ClientEndsAfterItsLinks
<1> QED BY <1>1, InvariantHolds, PTL
=============================================================================

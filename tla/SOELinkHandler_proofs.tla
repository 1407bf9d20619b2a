------------------------ MODULE SOELinkHandler_proofs ------------------------
(* Proofs about SOELinkHandler, for every set of serial port objects.         *)
EXTENDS SOELinkHandler, TLAPS

(* Where each thread can be, and what the label it returns to, the package it *)
(* handles and the role of the handler have to do with it. In particular only *)
(* one thread opens the port: "rx" on a server, "main" on a client.           *)
Closing == {"close.check", "close.lock", "close.body"}
Opening == {"open.lock", "open.port", "open.timeouts"}
Configuring == {"config.check", "config.lock", "config.body"}
Calling == {"call.send", "send.socket", "call.block"}
ShuttingDown == {"shutdown.isAlive", "shutdown.socket", "shutdown.notify"}

RxPlaces ==
    /\ pc["rx"] \in RxLabels \cup MethodLabels
    /\ pc["rx"] \in Closing =>
         \/ ret["rx"] = "shutdown.socket"
         \/ ret["rx"] = "open.lock" /\ frame = "open"
         \/ ret["rx"] = "reply" /\ frame = "other" /\ role = "server"
    /\ pc["rx"] \in Opening => frame = "open"
    /\ pc["rx"] \in Configuring => frame = "other" /\ role = "server"
    /\ role = "client" => frame # "open" /\ pc["rx"] # "reply"

TxPlaces ==
    /\ pc["tx"] \in TxLabels \cup ShuttingDown \cup Closing \cup {"send.socket"}
    /\ pc["tx"] \in Closing => ret["tx"] = "shutdown.socket"

MainPlaces ==
    /\ pc["main"] \in MainLabels \cup MethodLabels
    /\ pc["main"] \in Closing => ret["main"] \in {"shutdown.socket", "open.lock"}
    /\ pc["main"] \in Calling \cup {"call.wait"} =>
         ret["main"] \in {"setRemoteConfig", "openLocalPort"}
    /\ role = "server" => pc["main"] \in {"idle", "join.rx", "join.tx", "deleted"}
    /\ pc["main"] \in {"join.tx", "deleted"} => pc["rx"] = "done"
    /\ pc["main"] = "deleted" => pc["tx"] = "done"

(* The mutexes are held exactly at the labels between lock and unlock.    *)
HoldsPort ==
    {"close.body", "open.port", "open.timeouts", "config.body", "wait.pred",
     "wait.block"}
Mutexes ==
    /\ \A t \in Threads : m_localPort = t <=> pc[t] \in HoldsPort
    /\ \A t \in Threads : m_socketTX = t <=> pc[t] = "send.socket"
    /\ m_remoteReturn = "main" <=> pc["main"] \in Calling

Sleepers ==
    /\ "tx" \in waiting => pc["tx"] = "wait.lock"
    /\ "main" \in waiting => pc["main"] = "call.wait"

Places == RxPlaces /\ TxPlaces /\ MainPlaces /\ Mutexes /\ Sleepers

(* What the holder of m_localPort and the one thread that opens know of the   *)
(* port.                                                                      *)
PortKnown ==
    /\ localPort # NoPort => handle[localPort] \in {"open", "closed"}
    /\ \A t \in Threads : pc[t] \in {"open.lock", "open.port"} => ~IsOpen
    /\ \A t \in Threads : pc[t] = "open.timeouts" => IsOpen
    /\ pc["tx"] = "wait.block" => ~IsOpen

PortInv ==
    PortKnown /\ NoOrphanedOpenPort /\ OpenNeverMissed /\ ConfirmedOpenIsOpen

(* The caller of a remote method sends its request and sleeps without giving  *)
(* m_remoteReturn up in between.                                              *)
AnswerInv ==
    /\ pc["main"] = "call.block" => owed > 0 \/ pc["rx"] = "confirm.set"
    /\ CallerNotAbandoned

IInv == TypeOK /\ Places /\ PortInv /\ AnswerInv

-----------------------------------------------------------------------------
(* The object newSerialPortS returns is none that was used before.            *)
LEMMA NewPort ==
    Fresh # {} => /\ NewSerialPort \in PortObjects
                  /\ handle[NewSerialPort] = "fresh"
<1> SUFFICES ASSUME Fresh # {} PROVE NewSerialPort \in Fresh
  BY DEF Fresh
<1>1. QED
  BY Zenon DEF NewSerialPort

(* Type correctness is preserved by every step. *)
LEMMA TypeStep ==
    TypeOK /\ [Next]_vars => TypeOK'
<1> SUFFICES ASSUME TypeOK, [Next]_vars PROVE TypeOK'
  OBVIOUS
<1> USE NoPortAssumption DEF TypeOK, Threads, Handles, Kinds, Answers,
   MethodLabels, RxLabels, TxLabels, MainLabels, ReturnLabels, socket
<1>1. ASSUME NEW t \in Threads, ShutdownIsAlive(t) PROVE TypeOK'
  BY <1>1 DEF ShutdownIsAlive, At, Call, Goto, AfterShutdown, shared, port,
     answer
<1>2. ASSUME NEW t \in Threads, ShutdownSocket(t) PROVE TypeOK'
  <2>1. alive' \in BOOLEAN
    BY <1>2, Zenon DEF ShutdownSocket, At, Goto, port, answer
  <2>2. QED
    BY <2>1, <1>2 DEF ShutdownSocket, At, Goto, port, answer
<1>3. ASSUME NEW t \in Threads, ShutdownNotify(t) PROVE TypeOK'
  <2>1. remoteReturn' \in BOOLEAN
    BY <1>3, Zenon DEF ShutdownNotify, At, Goto, AfterShutdown, port
  <2>2. QED
    BY <2>1, <1>3 DEF ShutdownNotify, At, Goto, AfterShutdown, port
<1>4. ASSUME NEW t \in Threads, CloseCheck(t) PROVE TypeOK'
  <2>1. reply' \in [Threads -> BOOLEAN]
    BY <1>4, Zenon DEF CloseCheck, At, Return, Goto, shared, port, answer
  <2>2. QED
    BY <2>1, <1>4 DEF CloseCheck, At, Return, Goto, shared, port, answer
<1>5. ASSUME NEW t \in Threads, CloseLock(t) PROVE TypeOK'
  BY <1>5 DEF CloseLock, LockPort, At, Acquire, Goto, answer
<1>6. ASSUME NEW t \in Threads, CloseBody(t) PROVE TypeOK'
  BY <1>6 DEF CloseBody, At, Unlock, Return, answer
<1>7. ASSUME NEW t \in Threads, OpenLock(t) PROVE TypeOK'
  BY <1>7 DEF OpenLock, LockPort, At, Acquire, Goto, answer
<1>8. ASSUME NEW t \in Threads, OpenPort(t) PROVE TypeOK'
  BY <1>8, NewPort DEF OpenPort, At, Return, OpenResult, answer
<1>9. ASSUME NEW t \in Threads, OpenTimeouts(t) PROVE TypeOK'
  <2>1. PICK set \in BOOLEAN :
          /\ waiting' = IF set THEN waiting \ {"tx"} ELSE waiting
          /\ handle' = IF set THEN handle
                       ELSE [handle EXCEPT ![localPort] = "closed"]
          /\ Return(t, OpenResult(t), set)
    BY <1>9 DEF OpenTimeouts
  <2>2. waiting' \in SUBSET {"tx", "main"} /\ handle' \in [PortObjects -> Handles]
    BY <2>1
  <2>3. QED
    BY <2>1, <2>2, <1>9 DEF OpenTimeouts, Return, OpenResult, Unlock, answer
<1>10. ASSUME NEW t \in Threads, ConfigCheck(t) PROVE TypeOK'
  <2>1. reply' \in [Threads -> BOOLEAN]
    BY <1>10, Zenon DEF ConfigCheck, At, Return, ConfigResult, Goto, shared,
       port, answer
  <2>2. QED
    BY <2>1, <1>10 DEF ConfigCheck, At, Return, ConfigResult, Goto, shared, port,
       answer
<1>11. ASSUME NEW t \in Threads, ConfigLock(t) PROVE TypeOK'
  BY <1>11 DEF ConfigLock, LockPort, At, Acquire, Goto, answer
<1>12. ASSUME NEW t \in Threads, ConfigBody(t) PROVE TypeOK'
  <2>1. PICK changed \in {FALSE, IsOpen} : Return(t, ConfigResult(t), changed)
    BY <1>12 DEF ConfigBody
  <2>2. changed \in BOOLEAN
    BY <2>1, Zenon DEF IsOpen
  <2>3. QED
    BY <2>1, <2>2, <1>12 DEF ConfigBody, Return, ConfigResult, Unlock, answer
<1>13. ASSUME NEW t \in Threads, LockedNullCall(t) PROVE TypeOK'
  BY <1>13 DEF LockedNullCall, Dies, port, answer
<1>14. ASSUME NEW t \in Threads, UnlockedNullCall(t) PROVE TypeOK'
  BY <1>14 DEF UnlockedNullCall, Dies, port, answer
<1>15. CASE RxLoop
  BY <1>15 DEF RxLoop, At, Goto, shared, port, answer
<1>16. CASE RxHeaderArrives
  BY <1>16 DEF RxHeaderArrives, At, Connected, Goto, shared, port, answer
<1>17. CASE RxHeaderFails
  BY <1>17 DEF RxHeaderFails, At, Connected, Goto, shared, port, answer
<1>18. CASE RxPayload
  <2>1. PICK kind \in PeerSends :
          /\ Dispatch(kind)
          /\ owed' = (IF kind \in Answers THEN owed - 1 ELSE owed)
    BY <1>18 DEF RxPayload
  <2>2. owed' \in Nat
    BY <2>1, <1>18 DEF PeerSends
  <2>3. /\ pc' \in [Threads -> MethodLabels \cup RxLabels
                                   \cup TxLabels \cup MainLabels]
        /\ ret' \in [Threads -> ReturnLabels]
        /\ frame' \in Kinds
        /\ reply' = reply
    BY <2>1 DEF Dispatch, Goto, Call
  <2>4. QED
    BY <2>2, <2>3, <1>18 DEF RxPayload, port
<1>19. CASE RxStale
  <2>1. PICK kind \in PeerSends \cup ({frame} \ {"other"}) : Dispatch(kind)
    BY <1>19 DEF RxStale
  <2>2. /\ pc' \in [Threads -> MethodLabels \cup RxLabels
                                   \cup TxLabels \cup MainLabels]
        /\ ret' \in [Threads -> ReturnLabels]
        /\ frame' \in Kinds
        /\ reply' = reply
    BY <2>1 DEF Dispatch, Goto, Call
  <2>3. QED
    BY <2>2, <1>19 DEF RxStale, port, answer
<1>20. CASE WriteCheck
  BY <1>20 DEF WriteCheck, At, Goto, IsOpen, shared, port, answer
<1>21. CASE WritePort
  BY <1>21 DEF WritePort, IsOpen, At, Goto, shared, port, answer
<1>22. CASE ConfirmSet
  BY <1>22 DEF ConfirmSet, At, Goto, port
<1>23. CASE ConfirmNotify
  BY <1>23 DEF ConfirmNotify, At, Goto, port, answer
<1>24. CASE Reply
  BY <1>24 DEF Reply, SendLock, At, Goto, port, answer
<1>25. CASE TxLoop
  BY <1>25 DEF TxLoop, At, Goto, shared, port, answer
<1>26. CASE TxCheck
  BY <1>26 DEF TxCheck, At, Goto, IsOpen, shared, port, answer
<1>27. CASE WaitLock
  BY <1>27 DEF WaitLock, LockPort, At, Acquire, Goto, answer
<1>28. CASE WaitPred
  BY <1>28 DEF WaitPred, At, Goto, Unlock, IsOpen, answer
<1>29. CASE WaitBlock
  BY <1>29 DEF WaitBlock, At, Unlock, Goto, answer
<1>30. CASE TxRead
  BY <1>30 DEF TxRead, At, Goto, port, answer
<1>31. CASE TxReadDelivers
  BY <1>31 DEF TxReadDelivers, At, Goto, port, answer
<1>32. CASE TxReadReturns
  BY <1>32 DEF TxReadReturns, At, Goto, port, answer
<1>33. CASE TxSend
  BY <1>33 DEF TxSend, SendLock, At, Goto, port, answer
<1>34. CASE OpenRemotePort
  BY <1>34 DEF OpenRemotePort, RemoteCall, At, Call, port
<1>35. CASE SetRemoteConfig
  BY <1>35 DEF SetRemoteConfig, RemoteCall, At, Call, port
<1>36. CASE CallSend
  BY <1>36 DEF CallSend, SendLock, At, Goto, port, answer
<1>37. CASE CallBlock
  BY <1>37 DEF CallBlock, At, Goto, port
<1>38. CASE CallReturns
  BY <1>38 DEF CallReturns, At, Goto, shared, port, answer
<1>39. CASE CallTimesOut
  BY <1>39 DEF CallTimesOut, At, Goto, port, answer
<1>40. CASE LinkOpenLocal
  BY <1>40 DEF LinkOpenLocal, At, Call, shared, port, answer
<1>41. CASE LinkOpened
  BY <1>41 DEF LinkOpened, At, Goto, shared, port, answer
<1>42. CASE LinkConfigured
  BY <1>42 DEF LinkConfigured, At, Goto, shared, port, answer
<1>43. CASE CleanupFindsDead
  BY <1>43 DEF CleanupFindsDead, At, Goto, shared, port, answer
<1>44. CASE JoinRx
  BY <1>44 DEF JoinRx, At, Goto, shared, port, answer
<1>45. CASE JoinTx
  BY <1>45 DEF JoinTx, At, Goto, answer
<1>46. CASE PeerGone
  <2>1. conn' \in {"up", "closed", "lost"}
    BY <1>46, Zenon DEF PeerGone, port, answer
  <2>2. QED
    BY <2>1, <1>46 DEF PeerGone, port, answer
<1>47. CASE SpuriousWakeup
  BY <1>47 DEF SpuriousWakeup, port, answer
<1>48. CASE ReadAfterFree
  BY <1>48 DEF ReadAfterFree, Dies, port, answer
<1>49. CASE UNCHANGED vars
  BY <1>49 DEF vars, shared, port, answer, IsOpen
<1>50. CASE WriteReturns
  BY <1>50 DEF WriteReturns, At, Goto, shared, port, answer
<1>51. ASSUME NEW t \in Threads, SendTaken(t) PROVE TypeOK'
  BY <1>51 DEF SendTaken, At, AfterSend, Goto, port
<1>52. ASSUME NEW t \in Threads, SendFails(t) PROVE TypeOK'
  BY <1>52 DEF SendFails, At, Connected, Goto, port
<1>53. QED
  BY <1>1, <1>2, <1>3, <1>4, <1>5, <1>6, <1>7, <1>8, <1>9, <1>10, <1>11,
     <1>12, <1>13, <1>14, <1>15, <1>16, <1>17, <1>18, <1>19, <1>20, <1>21,
     <1>22, <1>23, <1>24, <1>25, <1>26, <1>27, <1>28, <1>29, <1>30, <1>31,
     <1>32, <1>33, <1>34, <1>35, <1>36, <1>37, <1>38, <1>39, <1>40, <1>41,
     <1>42, <1>43, <1>44, <1>45, <1>46, <1>47, <1>48, <1>49, <1>50, <1>51,
     <1>52 DEF Next, TransmitPackage, MethodStep, Shutdown, CloseLocalPort,
     OpenLocalPort, SetLocalConfig, HandleClientRX, HandleClientTX,
     LinkRemotePort, Destructor

(* Every step leads each thread to a place its role and its return label      *)
(* allow, and takes and gives back the mutexes at the labels of HoldsPort.    *)
LEMMA PlacesStep ==
    TypeOK /\ Places /\ [Next]_vars => Places'
<1> SUFFICES ASSUME TypeOK, Places, [Next]_vars PROVE Places'
  OBVIOUS
<1> USE NoPortAssumption DEF TypeOK, Threads, Handles, Kinds, Answers,
   MethodLabels, RxLabels, TxLabels, MainLabels, ReturnLabels, Places,
   socket,
   RxPlaces, TxPlaces, MainPlaces, Mutexes, Sleepers, Closing, Opening,
   Configuring, Calling, ShuttingDown, HoldsPort
<1>1. ASSUME NEW t \in Threads, ShutdownIsAlive(t) PROVE Places'
  BY <1>1 DEF ShutdownIsAlive, At, Call, Goto, AfterShutdown, shared, port,
     answer
<1>2. ASSUME NEW t \in Threads, ShutdownSocket(t) PROVE Places'
  BY <1>2 DEF ShutdownSocket, At, Goto, port, answer
<1>3. ASSUME NEW t \in Threads, ShutdownNotify(t) PROVE Places'
  BY <1>3 DEF ShutdownNotify, At, Goto, AfterShutdown, port
<1>4. ASSUME NEW t \in Threads, CloseCheck(t) PROVE Places'
  BY <1>4 DEF CloseCheck, At, IsOpen, Return, Goto, shared, port, answer
<1>5. ASSUME NEW t \in Threads, CloseLock(t) PROVE Places'
  BY <1>5 DEF CloseLock, LockPort, At, Acquire, Goto, answer
<1>6. ASSUME NEW t \in Threads, CloseBody(t) PROVE Places'
  BY <1>6 DEF CloseBody, At, Unlock, Return, answer
<1>7. ASSUME NEW t \in Threads, OpenLock(t) PROVE Places'
  BY <1>7 DEF OpenLock, LockPort, At, Acquire, Goto, answer
<1>8. ASSUME NEW t \in Threads, OpenPort(t) PROVE Places'
  BY <1>8, NewPort DEF OpenPort, At, Return, OpenResult, answer
<1>9. ASSUME NEW t \in Threads, OpenTimeouts(t) PROVE Places'
  BY <1>9 DEF OpenTimeouts, At, Return, OpenResult, Unlock, answer
<1>10. ASSUME NEW t \in Threads, ConfigCheck(t) PROVE Places'
  BY <1>10 DEF ConfigCheck, At, IsOpen, Return, ConfigResult, Goto, shared,
     port, answer
<1>11. ASSUME NEW t \in Threads, ConfigLock(t) PROVE Places'
  BY <1>11 DEF ConfigLock, LockPort, At, Acquire, Goto, answer
<1>12. ASSUME NEW t \in Threads, ConfigBody(t) PROVE Places'
  BY <1>12 DEF ConfigBody, At, IsOpen, Return, ConfigResult, Unlock, answer
<1>13. ASSUME NEW t \in Threads, LockedNullCall(t) PROVE Places'
  BY <1>13 DEF LockedNullCall, Dies, port, answer
<1>14. ASSUME NEW t \in Threads, UnlockedNullCall(t) PROVE Places'
  BY <1>14 DEF UnlockedNullCall, Dies, port, answer
<1>15. CASE RxLoop
  BY <1>15 DEF RxLoop, At, Goto, shared, port, answer
<1>16. CASE RxHeaderArrives
  BY <1>16 DEF RxHeaderArrives, At, Connected, Goto, shared, port, answer
<1>17. CASE RxHeaderFails
  BY <1>17 DEF RxHeaderFails, At, Connected, Goto, shared, port, answer
<1>18. CASE RxPayload
  BY <1>18 DEF RxPayload, At, Connected, PeerSends, Dispatch, port, Fresh,
     Call, Goto
<1>19. CASE RxStale
  BY <1>19 DEF RxStale, At, PeerSends, Dispatch, port, answer, Fresh, Call,
     Goto
<1>20. CASE WriteCheck
  BY <1>20 DEF WriteCheck, At, Goto, IsOpen, shared, port, answer
<1>21. CASE WritePort
  BY <1>21 DEF WritePort, IsOpen, At, Goto, shared, port, answer
<1>22. CASE ConfirmSet
  BY <1>22 DEF ConfirmSet, At, Goto, port
<1>23. CASE ConfirmNotify
  BY <1>23 DEF ConfirmNotify, At, Goto, port, answer
<1>24. CASE Reply
  BY <1>24 DEF Reply, SendLock, At, Goto, port, answer
<1>25. CASE TxLoop
  BY <1>25 DEF TxLoop, At, Goto, shared, port, answer
<1>26. CASE TxCheck
  BY <1>26 DEF TxCheck, At, Goto, IsOpen, shared, port, answer
<1>27. CASE WaitLock
  BY <1>27 DEF WaitLock, LockPort, At, Acquire, Goto, answer
<1>28. CASE WaitPred
  BY <1>28 DEF WaitPred, At, Goto, Unlock, IsOpen, answer
<1>29. CASE WaitBlock
  BY <1>29 DEF WaitBlock, At, Unlock, Goto, answer
<1>30. CASE TxRead
  BY <1>30 DEF TxRead, At, Goto, port, answer
<1>31. CASE TxReadDelivers
  BY <1>31 DEF TxReadDelivers, At, Goto, port, answer
<1>32. CASE TxReadReturns
  BY <1>32 DEF TxReadReturns, At, Goto, port, answer
<1>33. CASE TxSend
  BY <1>33 DEF TxSend, SendLock, At, Goto, port, answer
<1>34. CASE OpenRemotePort
  BY <1>34 DEF OpenRemotePort, RemoteCall, At, Call, port
<1>35. CASE SetRemoteConfig
  BY <1>35 DEF SetRemoteConfig, RemoteCall, At, Call, port
<1>36. CASE CallSend
  BY <1>36 DEF CallSend, SendLock, At, Goto, port, answer
<1>37. CASE CallBlock
  BY <1>37 DEF CallBlock, At, Goto, port
<1>38. CASE CallReturns
  BY <1>38 DEF CallReturns, At, Goto, shared, port, answer
<1>39. CASE CallTimesOut
  BY <1>39 DEF CallTimesOut, At, Goto, port, answer
<1>40. CASE LinkOpenLocal
  BY <1>40 DEF LinkOpenLocal, At, Call, shared, port, answer
<1>41. CASE LinkOpened
  BY <1>41 DEF LinkOpened, At, Goto, shared, port, answer
<1>42. CASE LinkConfigured
  BY <1>42 DEF LinkConfigured, At, Goto, shared, port, answer
<1>43. CASE CleanupFindsDead
  BY <1>43 DEF CleanupFindsDead, At, Goto, shared, port, answer
<1>44. CASE JoinRx
  BY <1>44 DEF JoinRx, At, Goto, shared, port, answer
<1>45. CASE JoinTx
  BY <1>45 DEF JoinTx, At, Goto, answer
<1>46. CASE PeerGone
  BY <1>46 DEF PeerGone, port, answer
<1>47. CASE SpuriousWakeup
  BY <1>47 DEF SpuriousWakeup, port, answer
<1>48. CASE ReadAfterFree
  BY <1>48 DEF ReadAfterFree, Dies, port, answer
<1>49. CASE UNCHANGED vars
  BY <1>49 DEF vars, shared, port, answer, IsOpen
<1>50. CASE WriteReturns
  BY <1>50 DEF WriteReturns, At, Goto, shared, port, answer
<1>51. ASSUME NEW t \in Threads, SendTaken(t) PROVE Places'
  BY <1>51 DEF SendTaken, At, AfterSend, Goto, port
<1>52. ASSUME NEW t \in Threads, SendFails(t) PROVE Places'
  BY <1>52 DEF SendFails, At, Connected, Goto, port
<1>53. QED
  BY <1>1, <1>2, <1>3, <1>4, <1>5, <1>6, <1>7, <1>8, <1>9, <1>10, <1>11,
     <1>12, <1>13, <1>14, <1>15, <1>16, <1>17, <1>18, <1>19, <1>20, <1>21,
     <1>22, <1>23, <1>24, <1>25, <1>26, <1>27, <1>28, <1>29, <1>30, <1>31,
     <1>32, <1>33, <1>34, <1>35, <1>36, <1>37, <1>38, <1>39, <1>40, <1>41,
     <1>42, <1>43, <1>44, <1>45, <1>46, <1>47, <1>48, <1>49, <1>50, <1>51,
     <1>52 DEF Next, TransmitPackage, MethodStep, Shutdown, CloseLocalPort,
     OpenLocalPort, SetLocalConfig, HandleClientRX, HandleClientTX,
     LinkRemotePort, Destructor

(* Every step keeps the open handle with localPort, and the TX thread awake   *)
(* beside an open port.                                                       *)
LEMMA PortStep ==
    TypeOK /\ Places /\ PortInv /\ [Next]_vars => PortInv'
<1> SUFFICES ASSUME TypeOK, Places, PortInv, [Next]_vars PROVE PortInv'
  OBVIOUS
<1> USE NoPortAssumption DEF TypeOK, Threads, Handles, Kinds, Answers,
   MethodLabels, RxLabels, TxLabels, MainLabels, ReturnLabels, Places,
   socket,
   RxPlaces, TxPlaces, MainPlaces, Mutexes, Sleepers, Closing, Opening,
   Configuring, Calling, ShuttingDown, HoldsPort, PortInv, PortKnown,
   NoOrphanedOpenPort, OpenNeverMissed, ConfirmedOpenIsOpen, IsOpen
<1>1. ASSUME NEW t \in Threads, ShutdownIsAlive(t) PROVE PortInv'
  BY <1>1 DEF ShutdownIsAlive, At, Call, Goto, AfterShutdown, shared, port,
     answer
<1>2. ASSUME NEW t \in Threads, ShutdownSocket(t) PROVE PortInv'
  BY <1>2 DEF ShutdownSocket, At, Goto, port, answer
<1>3. ASSUME NEW t \in Threads, ShutdownNotify(t) PROVE PortInv'
  BY <1>3 DEF ShutdownNotify, At, Goto, AfterShutdown, port
<1>4. ASSUME NEW t \in Threads, CloseCheck(t) PROVE PortInv'
  BY <1>4 DEF CloseCheck, At, Return, Goto, shared, port, answer
<1>5. ASSUME NEW t \in Threads, CloseLock(t) PROVE PortInv'
  BY <1>5 DEF CloseLock, LockPort, At, Acquire, Goto, answer
<1>6. ASSUME NEW t \in Threads, CloseBody(t) PROVE PortInv'
  BY <1>6 DEF CloseBody, At, Unlock, Return, answer
<1>7. ASSUME NEW t \in Threads, OpenLock(t) PROVE PortInv'
  BY <1>7 DEF OpenLock, LockPort, At, Acquire, Goto, answer
<1>8. ASSUME NEW t \in Threads, OpenPort(t) PROVE PortInv'
  BY <1>8, NewPort DEF OpenPort, At, Return, OpenResult, answer
<1>9. ASSUME NEW t \in Threads, OpenTimeouts(t) PROVE PortInv'
  BY <1>9 DEF OpenTimeouts, At, Return, OpenResult, Unlock, answer
<1>10. ASSUME NEW t \in Threads, ConfigCheck(t) PROVE PortInv'
  BY <1>10 DEF ConfigCheck, At, Return, ConfigResult, Goto, shared, port,
     answer
<1>11. ASSUME NEW t \in Threads, ConfigLock(t) PROVE PortInv'
  BY <1>11 DEF ConfigLock, LockPort, At, Acquire, Goto, answer
<1>12. ASSUME NEW t \in Threads, ConfigBody(t) PROVE PortInv'
  BY <1>12 DEF ConfigBody, At, Return, ConfigResult, Unlock, answer
<1>13. ASSUME NEW t \in Threads, LockedNullCall(t) PROVE PortInv'
  BY <1>13 DEF LockedNullCall, Dies, port, answer
<1>14. ASSUME NEW t \in Threads, UnlockedNullCall(t) PROVE PortInv'
  BY <1>14 DEF UnlockedNullCall, Dies, port, answer
<1>15. CASE RxLoop
  BY <1>15 DEF RxLoop, At, Goto, shared, port, answer
<1>16. CASE RxHeaderArrives
  BY <1>16 DEF RxHeaderArrives, At, Connected, Goto, shared, port, answer
<1>17. CASE RxHeaderFails
  BY <1>17 DEF RxHeaderFails, At, Connected, Goto, shared, port, answer
<1>18. CASE RxPayload
  BY <1>18 DEF RxPayload, At, Connected, PeerSends, Dispatch, port, Fresh,
     Call, Goto
<1>19. CASE RxStale
  BY <1>19 DEF RxStale, At, PeerSends, Dispatch, port, answer, Fresh, Call,
     Goto
<1>20. CASE WriteCheck
  BY <1>20 DEF WriteCheck, At, Goto, shared, port, answer
<1>21. CASE WritePort
  BY <1>21 DEF WritePort, At, Goto, shared, port, answer
<1>22. CASE ConfirmSet
  BY <1>22 DEF ConfirmSet, At, Goto, port
<1>23. CASE ConfirmNotify
  BY <1>23 DEF ConfirmNotify, At, Goto, port, answer
<1>24. CASE Reply
  BY <1>24 DEF Reply, SendLock, At, Goto, port, answer
<1>25. CASE TxLoop
  BY <1>25 DEF TxLoop, At, Goto, shared, port, answer
<1>26. CASE TxCheck
  BY <1>26 DEF TxCheck, At, Goto, shared, port, answer
<1>27. CASE WaitLock
  BY <1>27 DEF WaitLock, LockPort, At, Acquire, Goto, answer
<1>28. CASE WaitPred
  BY <1>28 DEF WaitPred, At, Goto, Unlock, answer
<1>29. CASE WaitBlock
  BY <1>29 DEF WaitBlock, At, Unlock, Goto, answer
<1>30. CASE TxRead
  BY <1>30 DEF TxRead, At, Goto, port, answer
<1>31. CASE TxReadDelivers
  BY <1>31 DEF TxReadDelivers, At, Goto, port, answer
<1>32. CASE TxReadReturns
  BY <1>32 DEF TxReadReturns, At, Goto, port, answer
<1>33. CASE TxSend
  BY <1>33 DEF TxSend, SendLock, At, Goto, port, answer
<1>34. CASE OpenRemotePort
  BY <1>34 DEF OpenRemotePort, RemoteCall, At, Call, port
<1>35. CASE SetRemoteConfig
  BY <1>35 DEF SetRemoteConfig, RemoteCall, At, Call, port
<1>36. CASE CallSend
  BY <1>36 DEF CallSend, SendLock, At, Goto, port, answer
<1>37. CASE CallBlock
  BY <1>37 DEF CallBlock, At, Goto, port
<1>38. CASE CallReturns
  BY <1>38 DEF CallReturns, At, Goto, shared, port, answer
<1>39. CASE CallTimesOut
  BY <1>39 DEF CallTimesOut, At, Goto, port, answer
<1>40. CASE LinkOpenLocal
  BY <1>40 DEF LinkOpenLocal, At, Call, shared, port, answer
<1>41. CASE LinkOpened
  BY <1>41 DEF LinkOpened, At, Goto, shared, port, answer
<1>42. CASE LinkConfigured
  BY <1>42 DEF LinkConfigured, At, Goto, shared, port, answer
<1>43. CASE CleanupFindsDead
  BY <1>43 DEF CleanupFindsDead, At, Goto, shared, port, answer
<1>44. CASE JoinRx
  BY <1>44 DEF JoinRx, At, Goto, shared, port, answer
<1>45. CASE JoinTx
  BY <1>45 DEF JoinTx, At, Goto, answer
<1>46. CASE PeerGone
  BY <1>46 DEF PeerGone, port, answer
<1>47. CASE SpuriousWakeup
  BY <1>47 DEF SpuriousWakeup, port, answer
<1>48. CASE ReadAfterFree
  BY <1>48 DEF ReadAfterFree, Dies, port, answer
<1>49. CASE UNCHANGED vars
  BY <1>49 DEF vars, shared, port, answer, IsOpen
<1>50. CASE WriteReturns
  BY <1>50 DEF WriteReturns, At, Goto, shared, port, answer
<1>51. ASSUME NEW t \in Threads, SendTaken(t) PROVE PortInv'
  BY <1>51 DEF SendTaken, At, AfterSend, Goto, port
<1>52. ASSUME NEW t \in Threads, SendFails(t) PROVE PortInv'
  BY <1>52 DEF SendFails, At, Connected, Goto, port
<1>53. QED
  BY <1>1, <1>2, <1>3, <1>4, <1>5, <1>6, <1>7, <1>8, <1>9, <1>10, <1>11,
     <1>12, <1>13, <1>14, <1>15, <1>16, <1>17, <1>18, <1>19, <1>20, <1>21,
     <1>22, <1>23, <1>24, <1>25, <1>26, <1>27, <1>28, <1>29, <1>30, <1>31,
     <1>32, <1>33, <1>34, <1>35, <1>36, <1>37, <1>38, <1>39, <1>40, <1>41,
     <1>42, <1>43, <1>44, <1>45, <1>46, <1>47, <1>48, <1>49, <1>50, <1>51,
     <1>52 DEF Next, TransmitPackage, MethodStep, Shutdown, CloseLocalPort,
     OpenLocalPort, SetLocalConfig, HandleClientRX, HandleClientTX,
     LinkRemotePort, Destructor

(* Every step leaves a sleeping caller an answer to come.                     *)
LEMMA AnswerStep ==
    TypeOK /\ Places /\ AnswerInv /\ [Next]_vars => AnswerInv'
<1> SUFFICES ASSUME TypeOK, Places, AnswerInv, [Next]_vars PROVE AnswerInv'
  OBVIOUS
<1> USE NoPortAssumption DEF TypeOK, Threads, Handles, Kinds, Answers,
   MethodLabels, RxLabels, TxLabels, MainLabels, ReturnLabels, Places,
   socket,
   RxPlaces, TxPlaces, MainPlaces, Mutexes, Sleepers, Closing, Opening,
   Configuring, Calling, ShuttingDown, HoldsPort, AnswerInv, CallerNotAbandoned
<1>1. ASSUME NEW t \in Threads, ShutdownIsAlive(t) PROVE AnswerInv'
  BY <1>1 DEF ShutdownIsAlive, At, Call, Goto, AfterShutdown, shared, port,
     answer
<1>2. ASSUME NEW t \in Threads, ShutdownSocket(t) PROVE AnswerInv'
  BY <1>2 DEF ShutdownSocket, At, Goto, port, answer
<1>3. ASSUME NEW t \in Threads, ShutdownNotify(t) PROVE AnswerInv'
  BY <1>3 DEF ShutdownNotify, At, Goto, AfterShutdown, port
<1>4. ASSUME NEW t \in Threads, CloseCheck(t) PROVE AnswerInv'
  BY <1>4 DEF CloseCheck, At, IsOpen, Return, Goto, shared, port, answer
<1>5. ASSUME NEW t \in Threads, CloseLock(t) PROVE AnswerInv'
  BY <1>5 DEF CloseLock, LockPort, At, Acquire, Goto, answer
<1>6. ASSUME NEW t \in Threads, CloseBody(t) PROVE AnswerInv'
  BY <1>6 DEF CloseBody, At, Unlock, Return, answer
<1>7. ASSUME NEW t \in Threads, OpenLock(t) PROVE AnswerInv'
  BY <1>7 DEF OpenLock, LockPort, At, Acquire, Goto, answer
<1>8. ASSUME NEW t \in Threads, OpenPort(t) PROVE AnswerInv'
  BY <1>8, NewPort DEF OpenPort, At, Return, OpenResult, answer
<1>9. ASSUME NEW t \in Threads, OpenTimeouts(t) PROVE AnswerInv'
  BY <1>9 DEF OpenTimeouts, At, Return, OpenResult, Unlock, answer
<1>10. ASSUME NEW t \in Threads, ConfigCheck(t) PROVE AnswerInv'
  BY <1>10 DEF ConfigCheck, At, IsOpen, Return, ConfigResult, Goto, shared,
     port, answer
<1>11. ASSUME NEW t \in Threads, ConfigLock(t) PROVE AnswerInv'
  BY <1>11 DEF ConfigLock, LockPort, At, Acquire, Goto, answer
<1>12. ASSUME NEW t \in Threads, ConfigBody(t) PROVE AnswerInv'
  BY <1>12 DEF ConfigBody, At, IsOpen, Return, ConfigResult, Unlock, answer
<1>13. ASSUME NEW t \in Threads, LockedNullCall(t) PROVE AnswerInv'
  BY <1>13 DEF LockedNullCall, Dies, port, answer
<1>14. ASSUME NEW t \in Threads, UnlockedNullCall(t) PROVE AnswerInv'
  BY <1>14 DEF UnlockedNullCall, Dies, port, answer
<1>15. CASE RxLoop
  BY <1>15 DEF RxLoop, At, Goto, shared, port, answer
<1>16. CASE RxHeaderArrives
  BY <1>16 DEF RxHeaderArrives, At, Connected, Goto, shared, port, answer
<1>17. CASE RxHeaderFails
  BY <1>17 DEF RxHeaderFails, At, Connected, Goto, shared, port, answer
<1>18. CASE RxPayload
  BY <1>18 DEF RxPayload, At, Connected, PeerSends, Dispatch, port, Fresh,
     Call, Goto
<1>19. CASE RxStale
  BY <1>19 DEF RxStale, At, PeerSends, Dispatch, port, answer, Fresh, Call,
     Goto
<1>20. CASE WriteCheck
  BY <1>20 DEF WriteCheck, At, Goto, IsOpen, shared, port, answer
<1>21. CASE WritePort
  BY <1>21 DEF WritePort, IsOpen, At, Goto, shared, port, answer
<1>22. CASE ConfirmSet
  BY <1>22 DEF ConfirmSet, At, Goto, port
<1>23. CASE ConfirmNotify
  BY <1>23 DEF ConfirmNotify, At, Goto, port, answer
<1>24. CASE Reply
  BY <1>24 DEF Reply, SendLock, At, Goto, port, answer
<1>25. CASE TxLoop
  BY <1>25 DEF TxLoop, At, Goto, shared, port, answer
<1>26. CASE TxCheck
  BY <1>26 DEF TxCheck, At, Goto, IsOpen, shared, port, answer
<1>27. CASE WaitLock
  BY <1>27 DEF WaitLock, LockPort, At, Acquire, Goto, answer
<1>28. CASE WaitPred
  BY <1>28 DEF WaitPred, At, Goto, Unlock, IsOpen, answer
<1>29. CASE WaitBlock
  BY <1>29 DEF WaitBlock, At, Unlock, Goto, answer
<1>30. CASE TxRead
  BY <1>30 DEF TxRead, At, Goto, port, answer
<1>31. CASE TxReadDelivers
  BY <1>31 DEF TxReadDelivers, At, Goto, port, answer
<1>32. CASE TxReadReturns
  BY <1>32 DEF TxReadReturns, At, Goto, port, answer
<1>33. CASE TxSend
  BY <1>33 DEF TxSend, SendLock, At, Goto, port, answer
<1>34. CASE OpenRemotePort
  BY <1>34 DEF OpenRemotePort, RemoteCall, At, Call, port
<1>35. CASE SetRemoteConfig
  BY <1>35 DEF SetRemoteConfig, RemoteCall, At, Call, port
<1>36. CASE CallSend
  BY <1>36 DEF CallSend, SendLock, At, Goto, port, answer
<1>37. CASE CallBlock
  BY <1>37 DEF CallBlock, At, Goto, port
<1>38. CASE CallReturns
  BY <1>38 DEF CallReturns, At, Goto, shared, port, answer
<1>39. CASE CallTimesOut
  BY <1>39 DEF CallTimesOut, At, Goto, port, answer
<1>40. CASE LinkOpenLocal
  BY <1>40 DEF LinkOpenLocal, At, Call, shared, port, answer
<1>41. CASE LinkOpened
  BY <1>41 DEF LinkOpened, At, Goto, shared, port, answer
<1>42. CASE LinkConfigured
  BY <1>42 DEF LinkConfigured, At, Goto, shared, port, answer
<1>43. CASE CleanupFindsDead
  BY <1>43 DEF CleanupFindsDead, At, Goto, shared, port, answer
<1>44. CASE JoinRx
  BY <1>44 DEF JoinRx, At, Goto, shared, port, answer
<1>45. CASE JoinTx
  BY <1>45 DEF JoinTx, At, Goto, answer
<1>46. CASE PeerGone
  BY <1>46 DEF PeerGone, port, answer
<1>47. CASE SpuriousWakeup
  BY <1>47 DEF SpuriousWakeup, port, answer
<1>48. CASE ReadAfterFree
  BY <1>48 DEF ReadAfterFree, Dies, port, answer
<1>49. CASE UNCHANGED vars
  BY <1>49 DEF vars, shared, port, answer, IsOpen
<1>50. CASE WriteReturns
  BY <1>50 DEF WriteReturns, At, Goto, shared, port, answer
<1>51. ASSUME NEW t \in Threads, SendTaken(t) PROVE AnswerInv'
  BY <1>51 DEF SendTaken, At, AfterSend, Goto, port
<1>52. ASSUME NEW t \in Threads, SendFails(t) PROVE AnswerInv'
  BY <1>52 DEF SendFails, At, Connected, Goto, port
<1>53. QED
  BY <1>1, <1>2, <1>3, <1>4, <1>5, <1>6, <1>7, <1>8, <1>9, <1>10, <1>11,
     <1>12, <1>13, <1>14, <1>15, <1>16, <1>17, <1>18, <1>19, <1>20, <1>21,
     <1>22, <1>23, <1>24, <1>25, <1>26, <1>27, <1>28, <1>29, <1>30, <1>31,
     <1>32, <1>33, <1>34, <1>35, <1>36, <1>37, <1>38, <1>39, <1>40, <1>41,
     <1>42, <1>43, <1>44, <1>45, <1>46, <1>47, <1>48, <1>49, <1>50, <1>51,
     <1>52 DEF Next, TransmitPackage, MethodStep, Shutdown, CloseLocalPort,
     OpenLocalPort, SetLocalConfig, HandleClientRX, HandleClientTX,
     LinkRemotePort, Destructor

(* The initial state satisfies the invariant.                                 *)
LEMMA InitInv == Init => IInv
<1> SUFFICES ASSUME Init PROVE IInv
  OBVIOUS
<1> USE NoPortAssumption DEF Init, Threads
<1>1. TypeOK
  <2>1. alive \in BOOLEAN /\ conn = "up" /\ crashed \in BOOLEAN
    BY Zenon
  <2>2. reply \in [Threads -> BOOLEAN]
    BY Zenon
  <2>3. QED
    BY <2>1, <2>2 DEF TypeOK, Handles, Kinds, Answers, MethodLabels, RxLabels,
       TxLabels, MainLabels, ReturnLabels
<1>2. Places
  BY DEF Places, RxPlaces, TxPlaces, MainPlaces, Mutexes, Sleepers, Answers,
     RxLabels, TxLabels, MainLabels, MethodLabels, Closing, Opening,
     Configuring, Calling, ShuttingDown, HoldsPort
<1>3. PortInv
  BY DEF PortInv, PortKnown, NoOrphanedOpenPort, OpenNeverMissed,
     ConfirmedOpenIsOpen, IsOpen
<1>4. AnswerInv
  BY DEF AnswerInv, CallerNotAbandoned
<1>5. QED
  BY <1>1, <1>2, <1>3, <1>4 DEF IInv

(* IInv is an invariant: no thread ever leaves it, however many ports the     *)
(* link opens.                                                                *)
THEOREM Invariant == Spec => []IInv
<1>1. Init => IInv
  BY InitInv
<1>2. IInv /\ [Next]_vars => IInv'
  BY TypeStep, PlacesStep, PortStep, AnswerStep DEF IInv
<1>3. QED
  BY <1>1, <1>2, PTL DEF Spec

(* Every variable keeps its type.                                             *)
THEOREM TypeCorrect == Spec => []TypeOK
<1>1. IInv => TypeOK
  BY DEF IInv
<1>2. QED
  BY <1>1, Invariant, PTL

(* No object is released or replaced while it holds the device open.          *)
THEOREM NoOrphan == Spec => []NoOrphanedOpenPort
<1>1. IInv => NoOrphanedOpenPort
  BY DEF IInv, PortInv
<1>2. QED
  BY <1>1, Invariant, PTL

(* The notification of openLocalPort cannot fall between the test of the TX   *)
(* thread and its sleep.                                                      *)
THEOREM OpenIsNeverMissed == Spec => []OpenNeverMissed
<1>1. IInv => OpenNeverMissed
  BY DEF IInv, PortInv
<1>2. QED
  BY <1>1, Invariant, PTL

(* The notification of processConfirm cannot fall between the request of a    *)
(* caller and its sleep.                                                      *)
THEOREM CallerIsAnswered == Spec => []CallerNotAbandoned
<1>1. IInv => CallerNotAbandoned
  BY DEF IInv, AnswerInv
<1>2. QED
  BY <1>1, Invariant, PTL

(* A confirmed open request left an open port, or a link that goes down.      *)
THEOREM ConfirmedOpen == Spec => []ConfirmedOpenIsOpen
<1>1. IInv => ConfirmedOpenIsOpen
  BY DEF IInv, PortInv
<1>2. QED
  BY <1>1, Invariant, PTL

-----------------------------------------------------------------------------
(* The link implements PortClaim.                                             *)

Claims == {o \in PortObjects : handle[o] = "open"}

(* A step that leaves the ports alone leaves the claims alone.                *)
LEMMA ClaimsKept == UNCHANGED handle => Claims' = Claims
  BY DEF Claims

(* No step claims the device while it is claimed. *)
LEMMA ClaimStep ==
    TypeOK /\ Places /\ PortInv /\ [Next]_vars => [Claim!Next]_Claims
<1> SUFFICES ASSUME TypeOK, Places, PortInv, [Next]_vars
             PROVE  Claims' = Claims \/ Claims' = {}
                    \/ \E o \in PortObjects : Claims = {} /\ Claims' = {o}
  BY Zenon DEF Claim!Next, Claim!Claim, Claim!Release, Claims
<1>1. ASSUME NEW t \in Threads, CloseBody(t) PROVE Claims' = {}
  BY <1>1 DEF CloseBody, Claims, TypeOK, PortInv, NoOrphanedOpenPort, Handles
<1>2. ASSUME NEW t \in Threads, OpenPort(t)
      PROVE  Claims' = {} \/ \E o \in PortObjects : Claims = {} /\ Claims' = {o}
  <2>1. Claims = {}
    BY <1>2, NoPortAssumption DEF OpenPort, At, Claims, PortInv, PortKnown,
       NoOrphanedOpenPort, IsOpen
  <2>2. PICK opened \in BOOLEAN :
          handle' = [p \in PortObjects |->
              CASE p = localPort' -> IF opened THEN "open" ELSE "closed"
                [] p = localPort -> "deleted"
                [] OTHER -> handle[p]]
    BY <1>2 DEF OpenPort
  <2>3. \A p \in PortObjects \ {localPort'} : handle'[p] # "open"
    BY <2>1, <2>2 DEF Claims
  <2>4. localPort' \in PortObjects
    BY <1>2, NewPort DEF OpenPort
  <2>5. QED
    BY <2>1, <2>2, <2>3, <2>4 DEF Claims
<1>3. ASSUME NEW t \in Threads, OpenTimeouts(t)
      PROVE  Claims' = Claims \/ Claims' = {}
  BY <1>3 DEF OpenTimeouts, At, Claims, TypeOK, PortInv, NoOrphanedOpenPort,
     Handles
<1>4. CASE JoinTx
  BY <1>4 DEF JoinTx, Claims, TypeOK, PortInv, NoOrphanedOpenPort, Handles
<1>5. ASSUME NEW t \in Threads, MethodStep(t), ~CloseBody(t), ~OpenPort(t),
             ~OpenTimeouts(t)
      PROVE  UNCHANGED handle
  BY <1>5 DEF MethodStep, Shutdown, CloseLocalPort, OpenLocalPort,
     SetLocalConfig, ShutdownIsAlive, ShutdownSocket, ShutdownNotify,
     CloseCheck, CloseLock, OpenLock, ConfigCheck, ConfigLock, ConfigBody,
     LockedNullCall, UnlockedNullCall, LockPort, Dies, shared, port
<1>6. ASSUME HandleClientRX PROVE UNCHANGED handle
  BY <1>6 DEF HandleClientRX, RxLoop, RxHeaderArrives, RxHeaderFails,
     RxPayload, RxStale, WriteCheck, WritePort, WriteReturns, ConfirmSet,
     ConfirmNotify, Reply, SendLock, shared, port
<1>7. ASSUME HandleClientTX PROVE UNCHANGED handle
  BY <1>7 DEF HandleClientTX, TxLoop, TxCheck, WaitLock, WaitPred, WaitBlock,
     TxRead, TxReadDelivers, TxReadReturns, TxSend, SendLock, LockPort, shared,
     port
<1>8. ASSUME LinkRemotePort PROVE UNCHANGED handle
  BY <1>8 DEF LinkRemotePort, RemoteCall, OpenRemotePort, SetRemoteConfig,
     CallSend, SendLock, CallBlock, CallReturns, CallTimesOut, LinkOpenLocal,
     LinkOpened, LinkConfigured, shared, port
<1>9. CASE CleanupFindsDead \/ JoinRx \/ PeerGone \/ SpuriousWakeup
            \/ ReadAfterFree \/ UNCHANGED vars
  <2>1. UNCHANGED handle
    BY <1>9 DEF CleanupFindsDead, JoinRx, PeerGone, SpuriousWakeup,
       ReadAfterFree, Dies, vars, shared, port
  <2>2. QED
    BY <2>1, ClaimsKept
<1>10. ASSUME NEW t \in Threads, TransmitPackage(t) PROVE UNCHANGED handle
  BY <1>10 DEF TransmitPackage, SendTaken, SendFails, port
<1>11. QED
  BY <1>1, <1>2, <1>3, <1>4, <1>5, <1>6, <1>7, <1>8, <1>9, <1>10, ClaimsKept
     DEF Next, Destructor

(* The detailed handler implements the abstract claim: the device is claimed  *)
(* through one object at a time.                                              *)
THEOREM ImplementsPortClaim == Spec => ClaimsOneAtATime
<1>1. Init => Claim!Init
  BY Zenon DEF Init, Claim!Init
<1>2. IInv /\ [Next]_vars => [Claim!Next]_Claims
  BY ClaimStep DEF IInv
<1>3. QED
  BY <1>1, <1>2, Invariant, PTL DEF Spec, ClaimsOneAtATime, Claim!Spec, Claims
=============================================================================

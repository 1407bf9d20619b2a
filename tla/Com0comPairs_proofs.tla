------------------------- MODULE Com0comPairs_proofs -------------------------
(***************************************************************************)
(* Proofs about module Com0comPairs, for any pairs, names and numbers.  The*)
(* commands implement module ComDb, so what is proved of a sync in         *)
(* ComDb_proofs holds of the sync that ends a command; from it, and from   *)
(* what each command may rely on at each point of its way, follow the      *)
(* properties of the names, of the devices and of the real port names.     *)
(*   The last part is about module PortParams, the detail of the step in   *)
(* which a command saves the parameters of a port.                         *)
(***************************************************************************)
EXTENDS Com0comPairs, PortParams, WellFoundedInduction, TLAPS

CDP == INSTANCE ComDb_proofs WITH used <- UsedNames

(* A sync is under way exactly while the command is at its end.            *)
SyncInv == cmd.phase = "syncing" <=> sync.pc # "idle"

(* Commands on a pair know which, commands on a real name know the number; *)
(* and a device that may be rolled back is there.                          *)
AtInv ==
    /\ cmd.phase \notin {"idle", "sync", "syncing"} => cmd.at \in Pair
    /\ cmd.phase \in {"claim", "set", "release"} => cmd.new \in Num
    /\ cmd.phase = "set" => real[This] # 0
    /\ cmd.phase = "number" => blank > 0
    /\ cmd.phase = "driver" => devs[cmd.at] > 0
    /\ cmd.phase = "rollback" => devs[cmd.at] > 0 \/ blank > 0

(* Names that two ports may have: no COM number, or let through.           *)
Special(p) == param[p] \in {Default, ComClass} \cup excused \cup torn

(* Until a command changes names, those of installed ports are claimed; an *)
(* installation may still take back the device it has added.               *)
Calm == {"idle", "alloc", "params", "same", "register", "number", "driver", "rollback",
         "change"}
Added(p) == cmd.phase \in {"driver", "rollback"} /\ p[1] = cmd.at /\ devs[cmd.at] = 1
SettledInv ==
    cmd.phase \in Calm =>
        \A p \in Present \X Side :
            param[p] \in Num => Special(p) \/ Added(p) \/ owner[param[p]] = "setup"

(* Installed ports have different names, and so will the ports of the pair *)
(* that is being installed: their names fit in, and differ.                *)
UniqueInv == \A p, q \in Present \X Side : p # q /\ param[p] = param[q] => Special(p)

Fit(p) == Special(p) \/ \A q \in (Present \ {cmd.at}) \X Side : param[q] # param[p]
Given(p, n) == Special(p) \/ param[p] = n
SideA == <<cmd.at, "A">>
SideB == <<cmd.at, "B">>
Installing == {"register", "number", "driver", "rollback"}
InstallInv ==
    /\ cmd.phase = "alloc" => cmd.side = "A"
    /\ cmd.phase = "params" => devs[cmd.at] = 0
    /\ cmd.phase = "params" /\ cmd.side = "B" => Fit(SideA) /\ Given(SideA, cmd.ask)
    /\ cmd.phase = "same" => /\ Fit(SideA) /\ Given(SideA, cmd.ask)
                             /\ Fit(SideB) /\ Given(SideB, cmd.other)
    /\ cmd.phase \in Installing => /\ Fit(SideA) /\ Fit(SideB)
                                   /\ param[SideA] = param[SideB] => Special(SideA)

(* A number of the Ports class is claimed and no other port has it; so is  *)
(* the number UpdateRealPortName has claimed, or has still to release.     *)
Taken(n) == n \in torn \/ owner[n] = "class"
RealInv ==
    /\ \A p \in Port : real[p] # 0 =>
          Taken(real[p]) /\ \A q \in Port : real[q] = real[p] => q = p \/ real[p] \in torn
    /\ cmd.phase \in {"set", "release"} =>
          Taken(cmd.new) /\ \A p \in Port : real[p] = cmd.new => cmd.new \in torn

(* As long as nothing has failed, what DevicesAreWhole says holds of all   *)
(* pairs but the one the command is at.                                    *)
Unlabelled == {"driver", "rollback", "labels", "relabel", "reclass"}
WholeInv ==
    faults = 0 =>
        /\ blank = IF cmd.phase = "number" \/ (cmd.phase = "rollback" /\ devs[cmd.at] = 0)
                   THEN 1 ELSE 0
        /\ \A i \in Present : /\ devs[i] = 1
                              /\ i \in label \/ (i = cmd.at /\ cmd.phase \in Unlabelled)
        /\ cmd.phase \in {"params", "same", "register", "number"} => devs[cmd.at] = 0

Types == TypeOK /\ CDP!IInv /\ SyncInv /\ AtInv
IInv == Types /\ RealInv /\ SettledInv /\ UniqueInv /\ InstallInv /\ WholeInv

----------------------------------------------------------------------------
(* The records a command goes through.                                     *)
LEMMA NoCmdFacts ==
    /\ NoCmd \in Command /\ NoCmd.phase = "idle" /\ NoCmd.at = 0 /\ NoCmd.side = "A"
    /\ NoCmd.ask = Default /\ NoCmd.other = Default /\ NoCmd.new = 0
  BY DEF NoCmd, Command, Phase, Side, Name, Default

LEMMA GotoFacts ==
    ASSUME cmd \in Command, NEW ph \in Phase, Goto(ph)
    PROVE  /\ cmd' \in Command /\ cmd'.phase = ph /\ cmd'.at = cmd.at /\ cmd'.side = cmd.side
           /\ cmd'.ask = cmd.ask /\ cmd'.other = cmd.other /\ cmd'.new = cmd.new
  BY DEF Goto, Command

LEMMA GotoForFacts ==
    ASSUME cmd \in Command, NEW ph \in Phase, GotoFor(ph)
    PROVE  /\ cmd' \in Command /\ cmd'.phase = ph /\ cmd'.at = cmd.at /\ cmd'.side = "A"
  <1>1. cmd' = [phase |-> ph, at |-> cmd.at, side |-> "A", ask |-> Default,
                other |-> Default, new |-> 0]
    BY DEF GotoFor, NoCmd
  <1>2. cmd.at \in Pair \cup {0}
    BY DEF Command
  <1> QED BY <1>1, <1>2 DEF Command, Side, Name

LEMMA EndFacts ==
    ASSUME End \/ GotoSync
    PROVE  /\ cmd' \in Command /\ cmd'.phase = IF End THEN "idle" ELSE "sync"
           /\ cmd'.phase \in {"idle", "sync"}
           /\ End => cmd'.phase = "idle"
           /\ GotoSync => cmd'.phase = "sync"
  BY DEF End, GotoSync, NoCmd, Command, Phase, Side, Name, Default

LEMMA ExcuseFacts ==
    ASSUME excused \subseteq Num, NEW S, Excuse(S)
    PROVE  excused \subseteq excused' /\ excused' \subseteq Num /\ S \cap Num \subseteq excused'
  BY DEF Excuse

LEMMA FaultFacts ==
    ASSUME faults \in 0 .. MaxFaults, Fault
    PROVE  faults' \in 0 .. MaxFaults /\ faults' # 0
  BY NameAssumption DEF Fault

LEMMA TypeFacts ==
    ASSUME TypeOK, AtInv
    PROVE  /\ cmd \in Command /\ cmd.phase \in Phase /\ cmd.side \in {"A", "B"}
           /\ cmd.ask \in Name /\ cmd.other \in Name /\ cmd.new \in Num \cup {0}
           /\ cmd.phase \notin {"idle", "sync", "syncing"} => cmd.at \in Pair /\ This \in Port
           /\ excused \subseteq Num /\ faults \in 0 .. MaxFaults
           /\ \A i \in Pair : <<i, "A">> \in Port /\ <<i, "B">> \in Port
           /\ 0 \notin Num /\ -1 \notin Num /\ Num \subseteq Name
  BY NameAssumption DEF TypeOK, AtInv, Command, This, Port, Side, Name

(* A non-empty set of pair numbers has a first one.                        *)
LEMMA Least ==
    ASSUME NEW S \in SUBSET Nat, S # {}
    PROVE  \E n \in S : \A m \in S : n <= m
  <1> DEFINE R == OpToRel(<, Nat)
  <1>1. IsWellFoundedOn(R, Nat)
    BY NatLessThanWellFounded
  <1> HIDE DEF R
  <1>2. PICK n \in S : \A m \in S : <<m, n>> \notin R
    BY <1>1, WFMin
  <1>3. \A m \in S : m < n => <<m, n>> \in R
    BY DEF R, OpToRel
  <1>4. \A m \in S : n \in Nat /\ m \in Nat /\ ~(m < n)
    BY <1>2, <1>3
  <1>5. \A m \in S : n <= m
    BY <1>4
  <1> QED BY <1>5

LEMMA FirstFree ==
    ASSUME \E i \in Pair : IsFreeNum(i)
    PROVE  GetFirstFreeNum \in Pair /\ IsFreeNum(GetFirstFreeNum)
  <1> DEFINE free == {i \in Pair : IsFreeNum(i)}
  <1>1. PICK i \in free : \A j \in free : i <= j
    BY NameAssumption, Least
  <1> QED BY <1>1 DEF GetFirstFreeNum

----------------------------------------------------------------------------
(* What each step does, with the command taken apart.                      *)
StoreVars == <<devs, blank, label, param, real, owner, local, sync, torn>>
Kept == cmd' \in Command /\ cmd'.at = cmd.at /\ cmd'.side = cmd.side /\ cmd'.new = cmd.new
More == /\ excused \subseteq excused' /\ excused' \subseteq Num
        /\ faults' \in 0 .. MaxFaults /\ (faults' = 0 => faults = 0)

LEMMA MainFacts ==
    ASSUME TypeOK, AtInv, Main
    PROVE  /\ cmd.phase = "idle" /\ UNCHANGED <<StoreVars, excused, faults>>
           /\ cmd' \in Command /\ cmd'.at \in Pair
           /\ \/ cmd'.phase = "alloc" /\ cmd'.side = "A"
              \/ cmd'.phase \in {"change", "removeBus"}
  <1>1. cmd.phase = "idle" /\ UNCHANGED <<StoreVars, excused, faults>>
    BY NoCmdFacts DEF Main, Idle, StoreVars, devVars, dbVars, NoHistory
  <1>2. PICK i \in Pair, s \in Side, a \in Name, b \in Name, n \in Num \cup {0} :
          \/ /\ a \in Asked[i, "A"] /\ b \in Asked[i, "B"]
             /\ cmd' = [NoCmd EXCEPT !.phase = "alloc", !.at = i, !.ask = a, !.other = b]
          \/ /\ a \in Asked[i, s]
             /\ cmd' = [NoCmd EXCEPT !.phase = "change", !.at = i, !.side = s, !.ask = a,
                                     !.new = IF a = ComClass THEN n ELSE 0]
          \/ cmd' = [NoCmd EXCEPT !.phase = "removeBus", !.at = i]
    BY DEF Main
  <1>3. CASE cmd' = [NoCmd EXCEPT !.phase = "alloc", !.at = i, !.ask = a, !.other = b]
    <2>1. cmd' = [phase |-> "alloc", at |-> i, side |-> "A", ask |-> a, other |-> b, new |-> 0]
      BY <1>3 DEF NoCmd
    <2> QED BY <1>1, <2>1 DEF Command, Phase, Side
  <1>4. CASE cmd' = [NoCmd EXCEPT !.phase = "change", !.at = i, !.side = s, !.ask = a,
                                  !.new = IF a = ComClass THEN n ELSE 0]
    <2> DEFINE m == IF a = ComClass THEN n ELSE 0
    <2>1. cmd' = [phase |-> "change", at |-> i, side |-> s, ask |-> a, other |-> Default,
                  new |-> m]
      BY <1>4 DEF NoCmd
    <2>2. m \in Num \cup {0}
      OBVIOUS
    <2> HIDE DEF m
    <2> QED BY <1>1, <2>1, <2>2 DEF Command, Phase, Side, Name
  <1>5. CASE cmd' = [NoCmd EXCEPT !.phase = "removeBus", !.at = i]
    <2>1. cmd' = [phase |-> "removeBus", at |-> i, side |-> "A", ask |-> Default,
                  other |-> Default, new |-> 0]
      BY <1>5 DEF NoCmd
    <2> QED BY <1>1, <2>1 DEF Command, Phase, Side, Name
  <1> QED BY <1>2, <1>3, <1>4, <1>5

LEMMA AllocFacts ==
    ASSUME TypeOK, AtInv, AllocPortNum
    PROVE  /\ cmd.phase = "alloc" /\ UNCHANGED <<StoreVars, excused, faults>>
           /\ cmd' \in Command
           /\ \/ cmd'.phase = "idle"
              \/ /\ cmd'.phase = "params" /\ cmd'.side = cmd.side
                 /\ cmd'.at \in Pair /\ devs[cmd'.at] = 0
  <1>1. cmd.phase = "alloc" /\ UNCHANGED <<StoreVars, excused, faults>>
    BY DEF AllocPortNum, StoreVars, devVars, dbVars, NoHistory
  <1>2. CASE End
    BY <1>1, <1>2, EndFacts
  <1>3. CASE /\ \E i \in Pair : IsFreeNum(i)
             /\ cmd' = [cmd EXCEPT !.phase = "params",
                            !.at = IF IsFreeNum(@) THEN @ ELSE GetFirstFreeNum]
    <2> DEFINE n == IF IsFreeNum(cmd.at) THEN cmd.at ELSE GetFirstFreeNum
    <2>1. n \in Pair /\ devs[n] = 0
      BY <1>1, <1>3, FirstFree, TypeFacts DEF IsFreeNum
    <2>2. cmd' = [cmd EXCEPT !.phase = "params", !.at = n]
      BY <1>3
    <2> HIDE DEF n
    <2>3. /\ cmd' \in Command /\ cmd'.phase = "params" /\ cmd'.at = n
          /\ cmd'.side = cmd.side
      BY <2>1, <2>2, TypeFacts DEF Command, Phase
    <2> QED BY <1>1, <2>1, <2>3
  <1> QED BY <1>2, <1>3 DEF AllocPortNum

LEMMA InstallParamsFacts ==
    ASSUME TypeOK, AtInv, InstallParams
    PROVE  /\ cmd.phase = "params"
           /\ UNCHANGED <<devs, blank, label, real, owner, local, sync, torn>>
           /\ excused \subseteq excused' /\ excused' \subseteq Num
           /\ faults' \in 0 .. MaxFaults /\ (faults' = 0 => faults = 0)
           /\ cmd' \in Command
           /\ \/ cmd'.phase = "idle" /\ UNCHANGED param
              \/ /\ cmd'.at = cmd.at /\ cmd'.side = "B"
                 /\ cmd'.ask = cmd.ask /\ cmd'.other = cmd.other
                 /\ cmd'.phase = IF cmd.side = "A" THEN "params" ELSE "same"
                 /\ \/ UNCHANGED param /\ (param[This] \in Num => param[This] \in excused')
                    \/ LET want == IF cmd.side = "A" THEN cmd.ask ELSE cmd.other IN
                       /\ want \in Name /\ param' = [param EXCEPT ![This] = want]
                       /\ want \in Num => want \in excused' \/ owner[want] = "free"
  <1> DEFINE want == IF cmd.side = "A" THEN cmd.ask ELSE cmd.other
             next == IF cmd.side = "A" THEN [cmd EXCEPT !.side = "B"]
                     ELSE [cmd EXCEPT !.phase = "same"]
  <1>1. cmd.phase = "params" /\ UNCHANGED <<devs, blank, label, real, owner, local, sync, torn>>
    BY DEF InstallParams, devVars, dbVars
  <1>2. want \in Name
    BY TypeFacts
  <1>3. cmd' = next => /\ cmd' \in Command /\ cmd'.at = cmd.at /\ cmd'.side = "B"
                       /\ cmd'.ask = cmd.ask /\ cmd'.other = cmd.other
                       /\ cmd'.phase = IF cmd.side = "A" THEN "params" ELSE "same"
    <2>1. CASE cmd.side = "A" /\ cmd' = [cmd EXCEPT !.side = "B"]
      BY <1>1, <2>1, TypeFacts DEF Command, Side
    <2>2. CASE cmd.side = "B" /\ cmd' = [cmd EXCEPT !.phase = "same"]
      BY <1>1, <2>2, TypeFacts DEF Command, Side, Phase
    <2> QED BY <2>1, <2>2, TypeFacts
  <1>4. ASSUME NEW c \in SUBSET {want}, IsValidPortName(want, c), Excuse(c)
        PROVE  want \in Num => want \in excused' \/ owner[want] = "free"
    <2> SUFFICES ASSUME want \in Num, owner[want] # "free"
                 PROVE  want \in excused'
      OBVIOUS
    <2> HIDE DEF want
    <2>1. c = {want}
      BY <1>4 DEF IsValidPortName, CD!InUse
    <2> QED BY <1>4, <2>1, TypeFacts, ExcuseFacts
  <1>5. CASE End /\ UNCHANGED param /\ NoHistory
    BY <1>1, <1>5, EndFacts, TypeFacts DEF NoHistory
  <1>6. CASE cmd' = next /\ UNCHANGED param /\ Excuse({param[This]}) /\ Fault
    <2>1. param[This] \in Num => param[This] \in excused'
      BY <1>6, TypeFacts, ExcuseFacts
    <2>2. excused \subseteq excused' /\ excused' \subseteq Num /\ faults' \in 0 .. MaxFaults
          /\ (faults' = 0 => faults = 0)
      BY <1>6, TypeFacts, ExcuseFacts, FaultFacts
    <2> HIDE DEF next
    <2> QED BY <1>1, <1>3, <1>6, <2>1, <2>2
  <1>7. CASE \E c \in SUBSET {want} :
               /\ IsValidPortName(want, c) /\ cmd' = next
               /\ param' = [param EXCEPT ![This] = want]
               /\ Excuse(c) /\ UNCHANGED faults
    <2> HIDE DEF next
    <2>1. PICK c \in SUBSET {want} :
               /\ IsValidPortName(want, c) /\ cmd' = next
               /\ param' = [param EXCEPT ![This] = want]
               /\ Excuse(c) /\ UNCHANGED faults
      BY <1>7
    <2>2. want \in Num => want \in excused' \/ owner[want] = "free"
      BY <1>4, <2>1
    <2>3. excused \subseteq excused' /\ excused' \subseteq Num /\ faults' \in 0 .. MaxFaults
          /\ (faults' = 0 => faults = 0)
      BY <2>1, TypeFacts, ExcuseFacts
    <2> QED BY <1>1, <1>2, <1>3, <2>1, <2>2, <2>3
  <1> QED BY <1>5, <1>6, <1>7 DEF InstallParams

LEMMA MoreFacts ==
    ASSUME excused \subseteq Num, faults \in 0 .. MaxFaults,
           NoHistory \/ (\E S : Excuse(S) /\ (UNCHANGED faults \/ Fault))
             \/ (UNCHANGED excused /\ Fault)
    PROVE  More
  <1>1. CASE NoHistory
    BY <1>1 DEF NoHistory, More
  <1>2. ASSUME NEW S, Excuse(S), UNCHANGED faults \/ Fault PROVE More
    <2>1. excused \subseteq excused' /\ excused' \subseteq Num
      BY <1>2, ExcuseFacts
    <2> QED BY <1>2, <2>1, FaultFacts DEF More
  <1>3. CASE UNCHANGED excused /\ Fault
    BY <1>3, FaultFacts DEF More
  <1> QED BY <1>1, <1>2, <1>3

LEMMA SameNameFacts ==
    ASSUME TypeOK, AtInv, SameName
    PROVE  /\ cmd.phase = "same" /\ UNCHANGED StoreVars /\ More /\ UNCHANGED faults
           /\ cmd' \in Command
           /\ \/ cmd'.phase = "idle"
              \/ /\ cmd'.phase = "register" /\ cmd'.at = cmd.at
                 /\ cmd.ask = cmd.other /\ cmd.ask \in Num => cmd.ask \in excused'
  <1>1. cmd.phase = "same" /\ UNCHANGED StoreVars /\ UNCHANGED faults
    BY DEF SameName, StoreVars, devVars, dbVars
  <1>2. CASE UNCHANGED excused /\ End
    BY <1>1, <1>2, EndFacts, TypeFacts DEF More
  <1>3. CASE /\ GotoFor("register")
             /\ Excuse(IF cmd.ask = cmd.other /\ cmd.ask # ComClass THEN {cmd.ask} ELSE {})
    <2>1. cmd' \in Command /\ cmd'.phase = "register" /\ cmd'.at = cmd.at
      <3>1. "register" \in Phase /\ cmd \in Command
        BY TypeFacts DEF Phase
      <3> QED BY <1>3, <3>1, GotoForFacts
    <2>2. More
      BY <1>1, <1>3, TypeFacts, MoreFacts
    <2>3. cmd.ask = cmd.other /\ cmd.ask \in Num => cmd.ask \in excused'
      <3> SUFFICES ASSUME cmd.ask = cmd.other, cmd.ask \in Num PROVE cmd.ask \in excused'
        OBVIOUS
      <3>1. Excuse({cmd.ask})
        BY <1>3, TypeFacts DEF ComClass
      <3> QED BY <3>1, ExcuseFacts, TypeFacts
    <2> QED BY <1>1, <2>1, <2>2, <2>3
  <1> QED BY <1>2, <1>3 DEF SameName

LEMMA RegisterFacts ==
    ASSUME TypeOK, AtInv, RegisterDevice
    PROVE  /\ cmd.phase = "register" /\ cmd' \in Command
           /\ UNCHANGED <<devs, label, param, real, owner, local, sync, torn, excused, faults>>
           /\ \/ /\ blank < MaxTwins /\ blank' = blank + 1
                 /\ cmd'.phase = "number" /\ cmd'.at = cmd.at
              \/ cmd'.phase = "idle" /\ UNCHANGED blank
  <1>1. /\ cmd.phase = "register"
        /\ UNCHANGED <<devs, label, param, real, owner, local, sync, torn, excused, faults>>
    BY DEF RegisterDevice, dbVars, NoHistory
  <1>2. CASE UNCHANGED blank /\ End
    BY <1>1, <1>2, EndFacts
  <1>3. CASE blank < MaxTwins /\ blank' = blank + 1 /\ Goto("number")
    <2>1. "number" \in Phase
      BY DEF Phase
    <2> QED BY <1>1, <1>3, <2>1, TypeFacts, GotoFacts
  <1> QED BY <1>2, <1>3 DEF RegisterDevice

LEMMA SetPortNumFacts ==
    ASSUME TypeOK, AtInv, SetPortNum
    PROVE  /\ cmd.phase = "number" /\ Kept
           /\ UNCHANGED <<param, real, owner, local, sync, torn, excused, faults>>
           /\ \/ /\ devs[cmd.at] < MaxTwins /\ devs' = [devs EXCEPT ![cmd.at] = devs[cmd.at] + 1]
                 /\ blank' = blank - 1 /\ label' = label \ {cmd.at} /\ cmd'.phase = "driver"
              \/ UNCHANGED <<devs, blank, label>> /\ cmd'.phase = "rollback"
  <1>1. "driver" \in Phase /\ "rollback" \in Phase
    BY DEF Phase
  <1> QED BY <1>1, TypeFacts, GotoFacts DEF SetPortNum, Kept, dbVars, devVars, NoHistory

LEMMA UpdateDriverFacts ==
    ASSUME TypeOK, AtInv, UpdateDriver
    PROVE  /\ cmd.phase = "driver" /\ UNCHANGED <<StoreVars, excused, faults>> /\ Kept
           /\ cmd'.phase \in {"labels", "rollback"}
  <1>1. "labels" \in Phase /\ "rollback" \in Phase
    BY DEF Phase
  <1> QED BY <1>1, TypeFacts, GotoFacts
      DEF UpdateDriver, Kept, StoreVars, dbVars, devVars, NoHistory

LEMMA RollbackFacts ==
    ASSUME TypeOK, AtInv, Rollback
    PROVE  /\ cmd.phase = "rollback" /\ More /\ cmd' \in Command
           /\ UNCHANGED <<label, param, real, owner, local, sync, torn>>
           /\ \/ cmd'.phase = "register" /\ cmd'.at = cmd.at
              \/ cmd'.phase = "idle"
           /\ \/ /\ devs[cmd.at] > 0 /\ devs' = [devs EXCEPT ![cmd.at] = devs[cmd.at] - 1]
                 /\ UNCHANGED <<blank, excused, faults>>
              \/ ~(devs[cmd.at] > 0) /\ blank' = blank - 1 /\ UNCHANGED <<devs, excused, faults>>
              \/ UNCHANGED <<devs, blank>> /\ UsedNames \subseteq excused' /\ faults' # 0
  <1>1. cmd.phase = "rollback" /\ UNCHANGED <<label, param, real, owner, local, sync, torn>>
    BY DEF Rollback, dbVars
  <1>2. cmd' \in Command /\ ((cmd'.phase = "register" /\ cmd'.at = cmd.at) \/ cmd'.phase = "idle")
    <2>1. "register" \in Phase
      BY DEF Phase
    <2> QED BY <2>1, TypeFacts, GotoFacts, EndFacts DEF Rollback
  <1>3. CASE /\ IF devs[cmd.at] > 0
                THEN devs' = [devs EXCEPT ![cmd.at] = @ - 1] /\ UNCHANGED blank
                ELSE blank' = blank - 1 /\ UNCHANGED devs
             /\ NoHistory
    <2>1. More /\ UNCHANGED <<excused, faults>>
      BY <1>3, TypeFacts, MoreFacts DEF NoHistory
    <2> QED BY <1>1, <1>2, <1>3, <2>1
  <1>4. CASE UNCHANGED <<devs, blank>> /\ Excuse(UsedNames) /\ Fault
    <2>1. More
      BY <1>4, TypeFacts, MoreFacts
    <2>2. UsedNames \subseteq excused'
      BY <1>4, TypeFacts, ExcuseFacts DEF UsedNames
    <2>3. faults' # 0
      BY <1>4, TypeFacts, FaultFacts
    <2> QED BY <1>1, <1>2, <1>4, <2>1, <2>2, <2>3
  <1> QED BY <1>3, <1>4 DEF Rollback

LEMMA LabelFacts ==
    ASSUME TypeOK, AtInv, UpdateFriendlyNameBus
    PROVE  /\ More /\ UNCHANGED <<devs, blank, param, real, owner, local, sync, torn, excused>>
           /\ \/ label' = label \cup {cmd.at} /\ UNCHANGED faults
              \/ UNCHANGED label /\ faults' # 0
  <1>1. UNCHANGED <<devs, blank, param, real, owner, local, sync, torn>>
    BY DEF UpdateFriendlyNameBus, dbVars
  <1>2. More
    BY TypeFacts, MoreFacts DEF UpdateFriendlyNameBus
  <1> QED BY <1>1, <1>2, TypeFacts, FaultFacts DEF UpdateFriendlyNameBus, NoHistory

LEMMA LabelsFacts ==
    ASSUME TypeOK, AtInv, InstallLabels \/ Relabel \/ Reclass
    PROVE  /\ cmd.phase \in {"labels", "relabel", "reclass"} /\ cmd' \in Command
           /\ More /\ UNCHANGED <<devs, blank, param, real, owner, local, sync, torn, excused>>
           /\ \/ label' = label \cup {cmd.at} /\ UNCHANGED faults
              \/ UNCHANGED label /\ faults' # 0
           /\ cmd'.phase = "sync" \/ (cmd'.phase = "drop" /\ cmd'.at = cmd.at)
  <1>1. UpdateFriendlyNameBus /\ (GotoSync \/ Goto("drop"))
        /\ cmd.phase \in {"labels", "relabel", "reclass"}
    BY DEF InstallLabels, Relabel, Reclass
  <1>2. "drop" \in Phase
    BY DEF Phase
  <1>3. cmd' \in Command /\ (cmd'.phase = "sync" \/ (cmd'.phase = "drop" /\ cmd'.at = cmd.at))
    BY <1>1, <1>2, TypeFacts, GotoFacts, EndFacts
  <1> QED BY <1>1, <1>3, LabelFacts

LEMMA ChangeFacts ==
    ASSUME TypeOK, AtInv, ChangeDevice
    PROVE  /\ cmd.phase = "change" /\ More /\ cmd' \in Command
           /\ UNCHANGED <<devs, blank, real, owner, local, sync, torn, faults>>
           /\ \/ cmd'.phase = "idle" /\ UNCHANGED <<param, label, excused>>
              \/ /\ cmd.at \in Present /\ cmd.ask \in Name
                 /\ param' = [param EXCEPT ![This] = cmd.ask]
                 /\ label' = IF cmd.ask # param[This] THEN label \ {cmd.at} ELSE label
                 /\ cmd.ask # param[This] /\ cmd.ask \in Num =>
                       \/ cmd.ask \in excused' \/ owner[cmd.ask] = "free"
                       \/ real[This] # 0 /\ cmd.ask = real[This]
                 /\ \/ cmd'.phase = "sync" /\ cmd.ask = param[This]
                    \/ /\ cmd'.phase = "claim" /\ cmd'.at = cmd.at /\ cmd'.new = cmd.new
                       /\ cmd.new \in Num /\ cmd.ask = param[This]
                    \/ cmd'.phase \in {"relabel", "reclass"} /\ cmd'.at = cmd.at
  <1> DEFINE old == param[This]
             renamed == cmd.ask # old
             fresh == renamed /\ ~(old = ComClass /\ real[This] # 0 /\ cmd.ask = real[This])
             newReal == old = ComClass /\ cmd.ask = ComClass /\ cmd.new \notin {0, real[This]}
  <1>1. cmd.phase = "change" /\ UNCHANGED <<devs, blank, real, owner, local, sync, torn, faults>>
    BY DEF ChangeDevice, dbVars
  <1>2. CASE End /\ UNCHANGED <<param, label, excused>>
    BY <1>1, <1>2, EndFacts, TypeFacts DEF More
  <1>3. CASE /\ cmd.at \in Present
             /\ \/ fresh /\ \E c \in SUBSET {cmd.ask} : IsValidPortName(cmd.ask, c) /\ Excuse(c)
                \/ ~fresh /\ UNCHANGED excused
             /\ param' = [param EXCEPT ![This] = cmd.ask]
             /\ label' = IF renamed THEN label \ {cmd.at} ELSE label
             /\ IF ~renamed /\ ~newReal THEN GotoSync
                ELSE Goto(IF newReal THEN "claim"
                          ELSE IF ComClass \in {old, cmd.ask} THEN "reclass" ELSE "relabel")
    <2>1. More /\ (fresh /\ cmd.ask \in Num => cmd.ask \in excused' \/ owner[cmd.ask] = "free")
      <3>1. CASE ~fresh /\ UNCHANGED excused
        BY <1>1, <3>1, TypeFacts DEF More
      <3>2. ASSUME NEW c \in SUBSET {cmd.ask}, IsValidPortName(cmd.ask, c), Excuse(c)
            PROVE  More /\ (cmd.ask \in Num => cmd.ask \in excused' \/ owner[cmd.ask] = "free")
        <4>1. More
          BY <1>1, <3>2, TypeFacts, MoreFacts
        <4>2. cmd.ask \in Num /\ owner[cmd.ask] # "free" => c = {cmd.ask}
          BY <3>2 DEF IsValidPortName, CD!InUse
        <4>3. c \cap Num \subseteq excused'
          BY <3>2, TypeFacts, ExcuseFacts
        <4> QED BY <4>1, <4>2, <4>3
      <3> HIDE DEF fresh
      <3> QED BY <1>3, <3>1, <3>2
    <2>2. renamed /\ cmd.ask \in Num =>
              \/ cmd.ask \in excused' \/ owner[cmd.ask] = "free"
              \/ real[This] # 0 /\ cmd.ask = real[This]
      BY <2>1
    <2>3. newReal => cmd.new \in Num /\ ~renamed
      BY TypeFacts
    <2>4. cmd' \in Command /\
             \/ cmd'.phase = "sync" /\ cmd.ask = param[This]
             \/ /\ cmd'.phase = "claim" /\ cmd'.at = cmd.at /\ cmd'.new = cmd.new
                /\ cmd.new \in Num /\ cmd.ask = param[This]
             \/ cmd'.phase \in {"relabel", "reclass"} /\ cmd'.at = cmd.at
      <3>1. CASE GotoSync /\ ~renamed
        BY <3>1, EndFacts
      <3>2. CASE newReal /\ Goto("claim")
        <4>1. "claim" \in Phase
          BY DEF Phase
        <4> QED BY <2>3, <3>2, <4>1, TypeFacts, GotoFacts
      <3>3. CASE \E ph \in {"relabel", "reclass"} : Goto(ph)
        <4>1. {"relabel", "reclass"} \subseteq Phase
          BY DEF Phase
        <4> QED BY <3>3, <4>1, TypeFacts, GotoFacts
      <3> HIDE DEF newReal, renamed
      <3> QED BY <1>3, <3>1, <3>2, <3>3
    <2> HIDE DEF newReal, fresh
    <2> QED BY <1>1, <1>3, <2>1, <2>2, <2>4, TypeFacts
  <1> QED BY <1>1, <1>2, <1>3 DEF ChangeDevice

LEMMA RemovePortFacts ==
    ASSUME TypeOK, NEW p \in Port, RemovePort(p)
    PROVE  /\ UNCHANGED <<devs, blank, label, param, local, sync, torn, excused, faults>>
           /\ \/ UNCHANGED <<owner, real>>
              \/ /\ real[p] \in Num /\ Taken(real[p])
                 /\ owner' = [owner EXCEPT ![real[p]] = "free"]
                 /\ real' = [real EXCEPT ![p] = 0]
  <1>1. real \in [Port -> Num \cup {0}]
    BY DEF TypeOK
  <1>2. UNCHANGED <<devs, blank, label, param, local, sync, torn, excused, faults>>
    BY DEF RemovePort, devVars, dbVars, NoHistory, CD!ClassRelease
  <1>3. CASE owner' = owner
    BY <1>1, <1>2, <1>3 DEF RemovePort
  <1>4. CASE owner' # owner
    <2>1. real[p] # 0 /\ CD!ClassRelease(real[p]) /\ real' = [real EXCEPT ![p] = 0]
      BY <1>4 DEF RemovePort, dbVars
    <2> QED BY <1>1, <1>2, <2>1 DEF CD!ClassRelease, Taken
  <1> QED BY <1>3, <1>4

LEMMA DropFacts ==
    ASSUME TypeOK, AtInv, DropPort
    PROVE  cmd.phase = "drop" /\ RemovePort(This) /\ cmd' \in Command /\ cmd'.phase = "sync"
  BY EndFacts DEF DropPort

LEMMA RemovePortsFacts ==
    ASSUME TypeOK, AtInv, RemovePorts
    PROVE  /\ cmd.phase = "removePorts" /\ RemovePort(This) /\ cmd' \in Command
           /\ cmd'.phase = "sync" \/ (cmd'.phase = "removePorts" /\ cmd'.at = cmd.at)
  <1>1. CASE cmd.side = "A" /\ cmd' = [cmd EXCEPT !.side = "B"]
    BY <1>1, TypeFacts DEF RemovePorts, Command, Side
  <1>2. CASE GotoSync
    BY <1>2, EndFacts DEF RemovePorts
  <1> QED BY <1>1, <1>2 DEF RemovePorts, GotoSync

LEMMA ClaimRealFacts ==
    ASSUME TypeOK, AtInv, ClaimReal
    PROVE  /\ cmd.phase = "claim" /\ cmd' \in Command
           /\ UNCHANGED <<devs, blank, label, param, real, local, sync, torn, excused, faults>>
           /\ \/ /\ cmd'.phase = "set" /\ Kept /\ real[This] # 0 /\ owner[cmd.new] = "free"
                 /\ owner' = [owner EXCEPT ![cmd.new] = "class"]
              \/ cmd'.phase = "sync" /\ UNCHANGED owner
  <1>1. /\ cmd.phase = "claim"
        /\ UNCHANGED <<devs, blank, label, param, real, local, sync, torn, excused, faults>>
    BY DEF ClaimReal, devVars, dbVars, NoHistory, CD!ClassClaim
  <1>2. CASE GotoSync /\ UNCHANGED dbVars
    BY <1>1, <1>2, EndFacts DEF dbVars
  <1>3. CASE real[This] # 0 /\ CD!ClassClaim(cmd.new) /\ Goto("set")
    <2>1. "set" \in Phase
      BY DEF Phase
    <2>2. cmd'.phase = "set" /\ Kept
      BY <1>3, <2>1, TypeFacts, GotoFacts DEF Kept
    <2> QED BY <1>1, <1>3, <2>2 DEF CD!ClassClaim, CD!InUse, Kept
  <1> QED BY <1>2, <1>3 DEF ClaimReal

LEMMA SetRealFacts ==
    ASSUME TypeOK, AtInv, SetReal
    PROVE  /\ cmd.phase = "set" /\ cmd' \in Command /\ cmd'.phase = "release"
           /\ cmd'.at = cmd.at
           /\ UNCHANGED <<devs, blank, label, param, owner, local, sync, torn, excused, faults>>
           /\ \/ real' = [real EXCEPT ![This] = cmd.new] /\ cmd'.new = real[This]
              \/ real' = real /\ cmd'.new = cmd.new
  <1>1. /\ cmd.phase = "set"
        /\ UNCHANGED <<devs, blank, label, param, owner, local, sync, torn, excused, faults>>
    BY DEF SetReal, devVars, dbVars, NoHistory
  <1>2. CASE Goto("release") /\ UNCHANGED real
    <2>1. "release" \in Phase
      BY DEF Phase
    <2> QED BY <1>1, <1>2, <2>1, TypeFacts, GotoFacts
  <1>3. CASE /\ real' = [real EXCEPT ![This] = cmd.new]
             /\ cmd' = [cmd EXCEPT !.phase = "release", !.new = real[This]]
    <2> DEFINE old == real[This]
    <2>1. old \in Num \cup {0}
      BY <1>1, TypeFacts DEF TypeOK
    <2>2. cmd' = [cmd EXCEPT !.phase = "release", !.new = old]
      BY <1>3
    <2> HIDE DEF old
    <2>3. cmd' \in Command /\ cmd'.phase = "release" /\ cmd'.at = cmd.at /\ cmd'.new = old
      BY <2>1, <2>2, TypeFacts DEF Command, Phase
    <2> QED BY <1>1, <1>3, <2>3 DEF old
  <1> QED BY <1>2, <1>3 DEF SetReal

LEMMA ReleaseRealFacts ==
    ASSUME TypeOK, AtInv, ReleaseReal
    PROVE  /\ cmd.phase = "release" /\ cmd.new \in Num
           /\ cmd' \in Command /\ cmd'.phase = "sync"
           /\ UNCHANGED <<devs, blank, label, param, real, local, sync, torn, excused, faults>>
           /\ \/ UNCHANGED owner
              \/ Taken(cmd.new) /\ owner' = [owner EXCEPT ![cmd.new] = "free"]
  BY EndFacts DEF ReleaseReal, devVars, dbVars, NoHistory, CD!ClassRelease, Taken, AtInv

LEMMA RemoveBusFacts ==
    ASSUME TypeOK, AtInv, RemoveBus
    PROVE  /\ cmd.phase = "removeBus" /\ cmd' \in Command
           /\ UNCHANGED <<blank, label, param, real, owner, local, sync, torn, excused, faults>>
           /\ \/ cmd'.phase = "sync"
              \/ cmd'.phase \in {"removePorts", "removeBus"} /\ cmd'.at = cmd.at
           /\ \/ /\ devs[cmd.at] > 0
                 /\ devs' = [devs EXCEPT ![cmd.at] = devs[cmd.at] - 1]
              \/ UNCHANGED devs
  <1>1. /\ cmd.phase = "removeBus"
        /\ UNCHANGED <<blank, label, param, real, owner, local, sync, torn, excused, faults>>
    BY DEF RemoveBus, dbVars, NoHistory
  <1>2. {"removePorts", "removeBus"} \subseteq Phase
    BY DEF Phase
  <1>3. GotoSync \/ \E ph \in {"removePorts", "removeBus"} : Goto(ph)
    BY DEF RemoveBus
  <1>4. /\ cmd' \in Command
        /\ \/ cmd'.phase = "sync"
           \/ cmd'.phase \in {"removePorts", "removeBus"} /\ cmd'.at = cmd.at
    BY <1>2, <1>3, TypeFacts, GotoFacts, EndFacts
  <1>5. \/ devs[cmd.at] > 0 /\ devs' = [devs EXCEPT ![cmd.at] = devs[cmd.at] - 1]
        \/ UNCHANGED devs
    BY DEF RemoveBus, Present
  <1> QED BY <1>1, <1>4, <1>5

LEMMA SyncStartFacts ==
    ASSUME TypeOK, AtInv, SyncStart
    PROVE  /\ cmd.phase = "sync" /\ cmd' \in Command /\ cmd'.phase = "syncing"
           /\ UNCHANGED <<devs, blank, label, param, real, owner, local, torn, excused, faults>>
           /\ sync.pc = "idle" /\ sync'.pc = "names" /\ CD!SyncStart
  <1>1. /\ cmd.phase = "sync"
        /\ UNCHANGED <<devs, blank, label, param, real, owner, local, torn, excused, faults>>
    BY DEF SyncStart, devVars, NoHistory, CD!SyncStart
  <1>2. "syncing" \in Phase
    BY DEF Phase
  <1>3. sync.pc = "idle" /\ sync'.pc = "names" /\ CD!SyncStart
    BY DEF SyncStart, CD!SyncStart, TypeOK, CD!TypeOK
  <1>4. cmd' \in Command /\ cmd'.phase = "syncing"
    BY <1>2, TypeFacts, GotoFacts DEF SyncStart
  <1> QED BY <1>1, <1>3, <1>4

LEMMA SyncStepFacts ==
    ASSUME TypeOK, AtInv, SyncStep
    PROVE  /\ cmd.phase = "syncing" /\ cmd' \in Command /\ More
           /\ UNCHANGED <<devs, blank, label, param, real>>
           /\ \/ CD!LoadComNames \/ CD!LoadComDbLocal \/ CD!SaveComDbLocal \/ CD!SyncDone
              \/ \E n \in Num : CD!Claim(n) \/ CD!Release(n) \/ CD!Refused(n)
           /\ IF sync'.pc = "idle" THEN cmd'.phase = "idle" ELSE cmd'.phase = "syncing"
           /\ sync'.pc = "idle" /\ sync.pc # "loop" => UsedNames \subseteq excused'
           /\ sync'.pc = "idle" /\ sync.pc = "loop" => sync.skip \subseteq excused'
  <1>1. cmd.phase = "syncing" /\ UNCHANGED <<devs, blank, label, param, real>>
    BY DEF SyncStep, devVars
  <1>2. More
    BY TypeFacts, MoreFacts DEF SyncStep
  <1>3. IF sync'.pc = "idle" THEN cmd'.phase = "idle" /\ cmd' \in Command ELSE cmd' = cmd
    BY NoCmdFacts DEF SyncStep
  <1>4. sync'.pc = "idle" /\ sync.pc # "loop" => UsedNames \subseteq excused'
    <2> SUFFICES ASSUME sync'.pc = "idle", sync.pc # "loop" PROVE UsedNames \subseteq excused'
      OBVIOUS
    <2>1. Excuse(UsedNames)
      BY DEF SyncStep
    <2> QED BY <2>1, TypeFacts, ExcuseFacts DEF UsedNames
  <1>5. sync'.pc = "idle" /\ sync.pc = "loop" => sync.skip \subseteq excused'
    <2> SUFFICES ASSUME sync'.pc = "idle", sync.pc = "loop" PROVE sync.skip \subseteq excused'
      OBVIOUS
    <2>1. Excuse(sync.skip)
      BY DEF SyncStep
    <2>2. sync.skip \subseteq Num
      BY DEF TypeOK, CD!TypeOK
    <2> QED BY <2>1, <2>2, TypeFacts, ExcuseFacts
  <1> QED BY <1>1, <1>2, <1>3, <1>4, <1>5, TypeFacts DEF SyncStep

LEMMA CrashFacts ==
    ASSUME TypeOK, AtInv, Crash
    PROVE  /\ cmd' \in Command /\ cmd'.phase = "idle" /\ More /\ faults' # 0
           /\ UsedNames \subseteq excused'
           /\ UNCHANGED <<devs, blank, label, param, real>>
           /\ \/ cmd.phase = "syncing" /\ CD!Crash
              \/ cmd.phase # "syncing" /\ UNCHANGED <<owner, local, sync, torn>>
           /\ UNCHANGED owner /\ torn \subseteq torn'
  <1>1. UsedNames \subseteq excused'
    BY TypeFacts, ExcuseFacts DEF Crash, UsedNames
  <1>2. More /\ faults' # 0
    BY TypeFacts, MoreFacts, FaultFacts DEF Crash
  <1> QED BY <1>1, <1>2, EndFacts DEF Crash, devVars, dbVars, CD!Crash

LEMMA ClassInstallFacts ==
    ASSUME NEW p \in Port, ClassInstall(p)
    PROVE  /\ real[p] = 0 /\ param[p] = ComClass
           /\ UNCHANGED <<devs, blank, label, param, cmd, local, sync, torn, excused, faults>>
           /\ \E n \in Num : /\ owner[n] = "free" /\ owner' = [owner EXCEPT ![n] = "class"]
                             /\ real' = [real EXCEPT ![p] = n]
  BY DEF ClassInstall, devVars, NoHistory, CD!ClassClaim, CD!InUse

LEMMA OthersFacts ==
    ASSUME NEW n \in Num, Others(n)
    PROVE  /\ UNCHANGED <<devs, blank, label, param, real, cmd, local, sync, torn, excused, faults>>
           /\ \/ owner[n] = "free" /\ owner' = [owner EXCEPT ![n] = "other"]
              \/ owner[n] = "other" /\ owner' = [owner EXCEPT ![n] = "free"]
  BY DEF Others, devVars, NoHistory, CD!OtherClaim, CD!OtherRelease, CD!InUse

----------------------------------------------------------------------------
(* Each step is a step of ComDb, or changes nothing of it.                 *)
LEMMA RenameStep ==
    ASSUME SyncInv, cmd.phase # "syncing", UNCHANGED <<owner, local, sync, torn>>
    PROVE  CDP!Next
  <1>1. UsedNames' \in SUBSET Num
    BY DEF UsedNames
  <1> QED BY <1>1 DEF SyncInv, CDP!Next, CDP!Rename

LEMMA SameUsed ==
    ASSUME UNCHANGED <<devs, param>>
    PROVE  UNCHANGED UsedNames
  BY DEF UsedNames, Present

LEMMA OwnerStep ==
    ASSUME UNCHANGED <<devs, param, local, sync, torn>>, NEW n \in Num,
           \/ /\ owner[n] = "free"
              /\ owner' = [owner EXCEPT ![n] = "class"] \/ owner' = [owner EXCEPT ![n] = "other"]
           \/ (Taken(n) \/ owner[n] = "other") /\ owner' = [owner EXCEPT ![n] = "free"]
    PROVE  CDP!Next
  BY SameUsed DEF Taken, CDP!Next, CDP!ClassClaim, CDP!ClassRelease, CDP!OtherClaim,
                  CDP!OtherRelease, CDP!InUse

LEMMA SyncSame ==
    ASSUME CD!Crash
             \/ CD!LoadComNames \/ CD!LoadComDbLocal \/ CD!SaveComDbLocal \/ CD!SyncDone
             \/ \E n \in Num : CD!Claim(n) \/ CD!Release(n) \/ CD!Refused(n)
    PROVE  CDP!SyncStep
  <1>1. CASE CD!Crash \/ CD!LoadComNames \/ CD!LoadComDbLocal \/ CD!SaveComDbLocal \/ CD!SyncDone
    BY <1>1 DEF CDP!SyncStep, CD!Crash, CDP!Crash, CD!LoadComNames,
         CDP!LoadComNames, CD!LoadComDbLocal, CDP!LoadComDbLocal, CD!SaveComDbLocal,
         CDP!SaveComDbLocal, CD!SyncDone, CDP!SyncDone, CD!Differ, CDP!Differ, CD!Idle, CDP!Idle
  <1>2. ASSUME NEW n \in Num, CD!Claim(n) \/ CD!Release(n) \/ CD!Refused(n)
        PROVE  CDP!SyncStep
    BY <1>2 DEF CDP!SyncStep, CD!Claim, CDP!Claim, CD!Release, CDP!Release,
         CD!Refused, CDP!Refused, CD!At, CDP!At, CD!Rest, CDP!Rest, CD!Differ, CDP!Differ,
         CD!InUse, CDP!InUse
  <1> QED BY <1>1, <1>2

LEMMA SyncRefines ==
    ASSUME CD!SyncStart \/ CDP!SyncStep
    PROVE  CDP!Next
  BY DEF CD!SyncStart, CDP!SyncStart, CDP!Next

(* The commands of setup that touch neither ComDB nor the log.             *)
Quiet ==
    \/ Main \/ AllocPortNum \/ InstallParams \/ SameName \/ RegisterDevice \/ SetPortNum
    \/ UpdateDriver \/ Rollback \/ InstallLabels \/ Relabel \/ Reclass \/ ChangeDevice
    \/ SetReal \/ RemoveBus

LEMMA QuietFacts ==
    ASSUME TypeOK, AtInv, Quiet
    PROVE  /\ cmd.phase \notin {"sync", "syncing"} /\ cmd'.phase # "syncing"
           /\ UNCHANGED <<owner, local, sync, torn>>
           /\ SetReal \/ (UNCHANGED real /\ cmd'.phase \notin {"set", "release"})
  <1>1. CASE Main \/ AllocPortNum \/ SameName \/ UpdateDriver
    BY <1>1, MainFacts, AllocFacts, SameNameFacts, UpdateDriverFacts DEF StoreVars
  <1>2. CASE InstallParams
    BY <1>2, InstallParamsFacts
  <1>3. CASE RegisterDevice \/ SetPortNum \/ Rollback \/ RemoveBus
    BY <1>3, RegisterFacts, SetPortNumFacts, RollbackFacts, RemoveBusFacts
  <1>4. CASE InstallLabels \/ Relabel \/ Reclass
    BY <1>4, LabelsFacts
  <1>5. CASE ChangeDevice
    BY <1>5, ChangeFacts
  <1>6. CASE SetReal
    BY <1>6, SetRealFacts
  <1> QED BY <1>1, <1>2, <1>3, <1>4, <1>5, <1>6 DEF Quiet

LEMMA NextCases ==
    ASSUME Next
    PROVE  \/ Quiet \/ DropPort \/ RemovePorts \/ ClaimReal \/ ReleaseReal
           \/ SyncStart \/ SyncStep \/ Crash
           \/ \E p \in Port : ClassInstall(p)
           \/ \E n \in Num : Others(n)
  BY DEF Next, Setup, Quiet

LEMMA Refines == TypeOK /\ AtInv /\ SyncInv /\ [Next]_vars => [CDP!Next]_(CDP!vars)
  <1> SUFFICES ASSUME TypeOK, AtInv, SyncInv, [Next]_vars
               PROVE  CDP!Next \/ UNCHANGED CDP!vars
    OBVIOUS
  <1>0. CASE UNCHANGED vars
    BY <1>0, SameUsed DEF vars, CDP!vars
  <1>1. CASE Quiet
    BY <1>1, QuietFacts, RenameStep
  <1>2. ASSUME NEW p \in Port, RemovePort(p), cmd.phase \in {"drop", "removePorts"}
        PROVE  CDP!Next
    <2>1. CASE UNCHANGED <<owner, real>>
      BY <1>2, <2>1, RemovePortFacts, RenameStep
    <2>2. CASE ~UNCHANGED <<owner, real>>
      BY <1>2, <2>2, RemovePortFacts, OwnerStep
    <2> QED BY <2>1, <2>2
  <1>3. CASE DropPort \/ RemovePorts
    BY <1>2, <1>3, DropFacts, RemovePortsFacts, TypeFacts
  <1>4. CASE ClaimReal
    <2>1. cmd.new \in Num /\ cmd.phase = "claim"
      BY <1>4, ClaimRealFacts DEF AtInv
    <2> QED BY <1>4, <2>1, ClaimRealFacts, OwnerStep, RenameStep
  <1>5. CASE ReleaseReal
    BY <1>5, ReleaseRealFacts, OwnerStep, RenameStep
  <1>6. CASE SyncStart
    BY <1>6, SyncStartFacts, SyncRefines
  <1>7. CASE SyncStep
    BY <1>7, SyncStepFacts, SyncSame, SyncRefines
  <1>8. CASE Crash
    BY <1>8, CrashFacts, SyncSame, SyncRefines, RenameStep
  <1>9. ASSUME NEW p \in Port, ClassInstall(p) PROVE CDP!Next
    BY <1>9, ClassInstallFacts, OwnerStep
  <1>10. ASSUME NEW n \in Num, Others(n) PROVE CDP!Next
    BY <1>10, OthersFacts, OwnerStep
  <1> QED BY <1>0, <1>1, <1>3, <1>4, <1>5, <1>6, <1>7, <1>8, <1>9, <1>10, NextCases

(* What ComDb_proofs shows of ComDbSync therefore holds in every command.  *)
LEMMA ComDbKept == Types /\ [Next]_vars => CDP!IInv' /\ CD!TypeOK'
  <1>1. Types /\ [Next]_vars => CDP!IInv'
    BY Refines, CDP!StepInv, NameAssumption DEF Types
  <1>2. CDP!IInv' => CD!TypeOK'
    BY DEF CDP!IInv, CDP!TypeOK, CD!TypeOK, CDP!Owner, CD!Owner
  <1> QED BY <1>1, <1>2

----------------------------------------------------------------------------
(* The types, and what a command may rely on.                              *)
TypeRest ==
    /\ devs \in [Pair -> 0 .. MaxTwins] /\ blank \in 0 .. MaxTwins
    /\ param \in [Port -> Name] /\ real \in [Port -> Num \cup {0}]
    /\ label \subseteq Pair
    /\ cmd \in Command
    /\ excused \subseteq Num /\ faults \in 0 .. MaxFaults

(* Where nothing is claimed of the command.                                *)
LEMMA AtIdle ==
    ASSUME cmd'.phase \in {"idle", "sync", "syncing"} PROVE AtInv'
  BY DEF AtInv

LEMMA MainType ==
    ASSUME TypeOK, AtInv, Main \/ AllocPortNum \/ SameName \/ UpdateDriver
    PROVE  TypeRest' /\ AtInv'
  <1>1. CASE Main
    BY <1>1, MainFacts DEF StoreVars, TypeOK, TypeRest, AtInv
  <1>2. CASE AllocPortNum
    BY <1>2, AllocFacts DEF StoreVars, TypeOK, TypeRest, AtInv
  <1>3. CASE SameName
    BY <1>3, SameNameFacts, TypeFacts DEF StoreVars, More, TypeOK, TypeRest, AtInv
  <1>4. CASE UpdateDriver
    BY <1>4, UpdateDriverFacts, TypeFacts DEF StoreVars, Kept, TypeOK, TypeRest, AtInv
  <1> QED BY <1>1, <1>2, <1>3, <1>4

LEMMA InstallType ==
    ASSUME TypeOK, AtInv, InstallParams \/ RegisterDevice \/ SetPortNum \/ Rollback
    PROVE  TypeRest' /\ AtInv'
  <1>1. CASE InstallParams
    <2>1. param' \in [Port -> Name]
      BY <1>1, InstallParamsFacts, TypeFacts DEF TypeOK
    <2>2. /\ UNCHANGED <<devs, blank, label, real>> /\ cmd' \in Command
          /\ excused' \subseteq Num /\ faults' \in 0 .. MaxFaults
          /\ \/ cmd'.phase = "idle"
             \/ cmd'.at \in Pair /\ cmd'.phase \in {"params", "same"}
      BY <1>1, InstallParamsFacts, TypeFacts
    <2> QED BY <2>1, <2>2 DEF TypeOK, TypeRest, AtInv
  <1>2. CASE RegisterDevice
    <2>1. blank' \in 0 .. MaxTwins /\ (cmd'.phase = "number" => blank' > 0)
      BY <1>2, RegisterFacts DEF TypeOK, MaxTwins
    <2> QED BY <1>2, <2>1, RegisterFacts, TypeFacts DEF TypeOK, TypeRest, AtInv
  <1>3. CASE SetPortNum
    <2>1. cmd.at \in Pair /\ blank > 0 /\ cmd.phase = "number"
      BY <1>3, SetPortNumFacts, TypeFacts DEF AtInv
    <2>2. /\ blank' \in 0 .. MaxTwins /\ devs' \in [Pair -> 0 .. MaxTwins] /\ label' \subseteq Pair
          /\ cmd'.phase = "driver" => devs'[cmd.at] > 0
          /\ cmd'.phase = "rollback" => blank' > 0
      BY <1>3, <2>1, SetPortNumFacts DEF TypeOK, MaxTwins
    <2> QED BY <1>3, <2>1, <2>2, SetPortNumFacts, TypeFacts DEF Kept, TypeOK, TypeRest, AtInv
  <1>4. CASE Rollback
    <2>1. cmd.at \in Pair /\ (devs[cmd.at] > 0 \/ blank > 0) /\ cmd.phase = "rollback"
      BY <1>4, RollbackFacts, TypeFacts DEF AtInv
    <2>2. blank' \in 0 .. MaxTwins /\ devs' \in [Pair -> 0 .. MaxTwins]
      BY <1>4, <2>1, RollbackFacts DEF TypeOK, MaxTwins
    <2> QED BY <1>4, <2>1, <2>2, RollbackFacts DEF More, TypeOK, TypeRest, AtInv
  <1> QED BY <1>1, <1>2, <1>3, <1>4

LEMMA ChangeType ==
    ASSUME TypeOK, AtInv,
           InstallLabels \/ Relabel \/ Reclass \/ ChangeDevice \/ RemoveBus
    PROVE  TypeRest' /\ AtInv'
  <1>1. CASE InstallLabels \/ Relabel \/ Reclass
    <2>1. cmd.at \in Pair /\ label' \subseteq Pair
      BY <1>1, LabelsFacts, TypeFacts DEF TypeOK
    <2> QED BY <1>1, <2>1, LabelsFacts DEF More, TypeOK, TypeRest, AtInv
  <1>2. CASE ChangeDevice
    <2>1. param' \in [Port -> Name] /\ label' \subseteq Pair /\ cmd.at \in Pair
      BY <1>2, ChangeFacts, TypeFacts DEF TypeOK
    <2>2. cmd'.phase \in {"idle", "sync", "claim", "relabel", "reclass"}
      BY <1>2, ChangeFacts
    <2> QED BY <1>2, <2>1, <2>2, ChangeFacts DEF More, TypeOK, TypeRest, AtInv
  <1>3. CASE RemoveBus
    <2>1. cmd.at \in Pair /\ devs' \in [Pair -> 0 .. MaxTwins]
      BY <1>3, RemoveBusFacts, TypeFacts DEF TypeOK, MaxTwins
    <2> QED BY <1>3, <2>1, RemoveBusFacts DEF TypeOK, TypeRest, AtInv
  <1> QED BY <1>1, <1>2, <1>3

LEMMA RealType ==
    ASSUME TypeOK, AtInv, DropPort \/ RemovePorts \/ ClaimReal \/ SetReal \/ ReleaseReal
    PROVE  TypeRest' /\ AtInv'
  <1>1. CASE DropPort \/ RemovePorts
    <2>1. RemovePort(This) /\ This \in Port /\ cmd.at \in Pair
      BY <1>1, DropFacts, RemovePortsFacts, TypeFacts
    <2>2. real' \in [Port -> Num \cup {0}]
      BY <2>1, RemovePortFacts DEF TypeOK
    <2>3. UNCHANGED <<devs, blank, label, param, excused, faults>>
      BY <2>1, RemovePortFacts
    <2>4. cmd' \in Command /\ cmd'.phase \in {"sync", "removePorts"}
          /\ (cmd'.phase = "removePorts" => cmd'.at \in Pair)
      BY <1>1, <2>1, DropFacts, RemovePortsFacts
    <2> QED BY <2>2, <2>3, <2>4 DEF TypeOK, TypeRest, AtInv
  <1>2. CASE ClaimReal
    <2>1. cmd.at \in Pair /\ cmd.new \in Num
      BY <1>2, ClaimRealFacts, TypeFacts DEF AtInv
    <2>2. cmd'.phase = "set" => cmd'.at = cmd.at /\ cmd'.new = cmd.new /\ real'[This'] # 0
      BY <1>2, ClaimRealFacts DEF Kept, This
    <2> QED BY <1>2, <2>1, <2>2, ClaimRealFacts DEF TypeOK, TypeRest, AtInv
  <1>3. CASE SetReal
    <2>1. cmd.at \in Pair /\ cmd.new \in Num /\ real[This] \in Num /\ This \in Port
      BY <1>3, SetRealFacts, TypeFacts DEF TypeOK, AtInv
    <2>2. real' \in [Port -> Num \cup {0}] /\ cmd'.new \in Num
      BY <1>3, <2>1, SetRealFacts DEF TypeOK
    <2> QED BY <1>3, <2>1, <2>2, SetRealFacts DEF TypeOK, TypeRest, AtInv
  <1>4. CASE ReleaseReal
    BY <1>4, ReleaseRealFacts DEF TypeOK, TypeRest, AtInv
  <1> QED BY <1>1, <1>2, <1>3, <1>4

LEMMA SyncType ==
    ASSUME TypeOK, AtInv, SyncStart \/ SyncStep \/ Crash
    PROVE  TypeRest' /\ AtInv'
  <1>1. CASE SyncStart
    BY <1>1, SyncStartFacts, AtIdle DEF TypeOK, TypeRest
  <1>2. CASE SyncStep
    <2>1. cmd'.phase \in {"idle", "syncing"}
      BY <1>2, SyncStepFacts
    <2> QED BY <1>2, <2>1, SyncStepFacts, AtIdle DEF More, TypeOK, TypeRest
  <1>3. CASE Crash
    BY <1>3, CrashFacts, AtIdle DEF More, TypeOK, TypeRest
  <1> QED BY <1>1, <1>2, <1>3

LEMMA OthersType ==
    ASSUME TypeOK, AtInv, (\E p \in Port : ClassInstall(p)) \/ (\E n \in Num : Others(n))
    PROVE  TypeRest' /\ AtInv'
  <1>1. ASSUME NEW p \in Port, ClassInstall(p) PROVE TypeRest' /\ AtInv'
    <2>1. PICK n \in Num : /\ owner[n] = "free" /\ owner' = [owner EXCEPT ![n] = "class"]
                           /\ real' = [real EXCEPT ![p] = n]
      BY <1>1, ClassInstallFacts
    <2>2. real' \in [Port -> Num \cup {0}] /\ \A q \in Port : real[q] # 0 => real'[q] # 0
      BY <1>1, <2>1, ClassInstallFacts DEF TypeOK
    <2>3. UNCHANGED <<devs, blank, label, param, cmd, excused, faults>> /\ UNCHANGED This
      BY <1>1, ClassInstallFacts DEF This
    <2>4. cmd.phase = "set" => This \in Port
      BY TypeFacts
    <2> QED BY <2>2, <2>3, <2>4 DEF TypeOK, TypeRest, AtInv
  <1>2. ASSUME NEW n \in Num, Others(n) PROVE TypeRest' /\ AtInv'
    <2>1. UNCHANGED <<devs, blank, label, param, real, cmd, excused, faults>> /\ UNCHANGED This
      BY <1>2, OthersFacts DEF This
    <2> QED BY <2>1 DEF TypeOK, TypeRest, AtInv
  <1> QED BY <1>1, <1>2

LEMMA SyncInvStep ==
    ASSUME TypeOK, AtInv, SyncInv, [Next]_vars
    PROVE  SyncInv'
  <1>0. CASE UNCHANGED vars
    BY <1>0 DEF vars, SyncInv
  <1>1. CASE Quiet
    BY <1>1, QuietFacts DEF SyncInv
  <1>2. CASE DropPort \/ RemovePorts
    <2>1. cmd.phase \in {"drop", "removePorts"} /\ RemovePort(This) /\ This \in Port
      BY <1>2, DropFacts, RemovePortsFacts, TypeFacts
    <2>2. cmd'.phase # "syncing"
      BY <1>2, DropFacts, RemovePortsFacts
    <2> QED BY <2>1, <2>2, RemovePortFacts DEF SyncInv
  <1>3. CASE ClaimReal \/ ReleaseReal
    BY <1>3, ClaimRealFacts, ReleaseRealFacts DEF SyncInv
  <1>4. CASE SyncStart
    BY <1>4, SyncStartFacts DEF SyncInv
  <1>5. CASE SyncStep
    BY <1>5, SyncStepFacts DEF SyncInv
  <1>6. CASE Crash
    BY <1>6, CrashFacts DEF SyncInv, CD!Crash, CD!Idle
  <1>7. ASSUME NEW p \in Port, ClassInstall(p) PROVE SyncInv'
    BY <1>7, ClassInstallFacts DEF SyncInv
  <1>8. ASSUME NEW n \in Num, Others(n) PROVE SyncInv'
    BY <1>8, OthersFacts DEF SyncInv
  <1> QED BY <1>0, <1>1, <1>2, <1>3, <1>4, <1>5, <1>6, <1>7, <1>8, NextCases

LEMMA TypesStep == Types /\ [Next]_vars => Types'
  <1> SUFFICES ASSUME Types, [Next]_vars PROVE Types'
    OBVIOUS
  <1>1. TypeOK /\ AtInv /\ SyncInv
    BY DEF Types
  <1>2. CDP!IInv' /\ CD!TypeOK'
    BY ComDbKept
  <1>3. TypeRest' /\ AtInv'
    <2>1. CASE UNCHANGED vars
      BY <1>1, <2>1 DEF vars, TypeOK, TypeRest, AtInv, This
    <2>2. CASE Next
      BY <1>1, <2>2, MainType, InstallType, ChangeType, RealType, SyncType, OthersType,
         NextCases DEF Quiet
    <2> QED BY <2>1, <2>2
  <1>4. TypeOK'
    BY <1>2, <1>3 DEF TypeOK, TypeRest
  <1> QED BY <1>1, <1>2, <1>3, <1>4, SyncInvStep DEF Types

----------------------------------------------------------------------------
(* The real port names stay claimed.                                       *)
LEMMA RealKept ==
    ASSUME RealInv, UNCHANGED <<owner, real>>, torn \subseteq torn',
           cmd'.phase \in {"set", "release"} =>
              cmd.phase \in {"set", "release"} /\ cmd'.new = cmd.new
    PROVE  RealInv'
  BY DEF RealInv, Taken

LEMMA TornGrows ==
    ASSUME [CDP!Next]_(CDP!vars) PROVE torn \subseteq torn'
  BY DEF CDP!Next, CDP!vars, CDP!SyncStart, CDP!Rename, CDP!ClassClaim, CDP!ClassRelease,
         CDP!OtherClaim, CDP!OtherRelease, CDP!SyncStep, CDP!LoadComNames, CDP!LoadComDbLocal,
         CDP!SaveComDbLocal, CDP!SyncDone, CDP!Crash, CDP!Claim, CDP!Release, CDP!Refused

(* A sync takes none of them, for the log does not have them.              *)
LEMMA SyncTaken ==
    ASSUME Types, CDP!SyncStep, NEW n \in Num, Taken(n)
    PROVE  Taken(n)'
  <1>1. torn \subseteq torn'
    BY TornGrows DEF CDP!Next
  <1>2. CASE n \in torn
    BY <1>1, <1>2 DEF Taken
  <1>3. CASE n \notin torn
    <2>1. owner[n] \in {"class", "other"} /\ owner[n] = "class"
      BY <1>3 DEF Taken
    <2>2. owner'[n] = owner[n]
      BY <1>3, <2>1, CDP!OthersKept, NameAssumption DEF Types
    <2> QED BY <2>1, <2>2 DEF Taken
  <1> QED BY <1>2, <1>3

LEMMA RemoveReal ==
    ASSUME Types, RealInv, NEW p \in Port, RemovePort(p), cmd'.phase \notin {"set", "release"}
    PROVE  RealInv'
  <1>1. CASE UNCHANGED <<owner, real>>
    BY <1>1, RemovePortFacts, RealKept DEF Types
  <1>2. CASE ~UNCHANGED <<owner, real>>
    <2>1. /\ UNCHANGED torn /\ real[p] \in Num
          /\ owner' = [owner EXCEPT ![real[p]] = "free"] /\ real' = [real EXCEPT ![p] = 0]
      BY <1>2, RemovePortFacts DEF Types
    <2>2. real \in [Port -> Num \cup {0}] /\ owner \in [Num -> CD!Owner]
      BY DEF Types, TypeOK, CD!TypeOK
    <2> QED BY <2>1, <2>2 DEF RealInv, Taken
  <1> QED BY <1>1, <1>2

LEMMA ClassReal ==
    ASSUME Types, RealInv, ClaimReal \/ SetReal \/ ReleaseReal
    PROVE  RealInv'
  <1>1. TypeOK /\ AtInv /\ real \in [Port -> Num \cup {0}] /\ owner \in [Num -> CD!Owner]
    BY DEF Types, TypeOK, CD!TypeOK
  <1>2. CASE ClaimReal
    <2>1. cmd.new \in Num /\ cmd.phase = "claim"
      BY <1>1, <1>2, ClaimRealFacts DEF AtInv
    <2>2. CASE cmd'.phase = "sync"
      BY <1>1, <1>2, <2>2, ClaimRealFacts, RealKept
    <2>3. CASE cmd'.phase = "set"
      <3>1. /\ cmd'.new = cmd.new /\ owner[cmd.new] = "free" /\ UNCHANGED <<real, torn>>
            /\ owner' = [owner EXCEPT ![cmd.new] = "class"]
        BY <1>1, <1>2, <2>3, ClaimRealFacts DEF Kept
      <3>2. \A m \in Num : Taken(m) => Taken(m)'
        BY <1>1, <2>1, <3>1 DEF Taken
      <3>3. Taken(cmd.new)'
        BY <1>1, <2>1, <3>1 DEF Taken
      <3>4. \A p \in Port : real[p] = cmd.new => cmd.new \in torn
        BY <2>1, <3>1, NameAssumption DEF RealInv, Taken
      <3> QED BY <1>1, <2>1, <2>3, <3>1, <3>2, <3>3, <3>4 DEF RealInv
    <2> QED BY <1>1, <1>2, <2>2, <2>3, ClaimRealFacts
  <1>3. CASE SetReal
    <2>1. cmd.new \in Num /\ cmd.phase = "set" /\ real[This] \in Num /\ This \in Port
      BY <1>1, <1>3, SetRealFacts, TypeFacts DEF AtInv
    <2>2. UNCHANGED <<owner, torn>> /\ cmd'.phase = "release"
      BY <1>1, <1>3, SetRealFacts
    <2>3. CASE real' = real /\ cmd'.new = cmd.new
      BY <2>1, <2>2, <2>3, RealKept
    <2>4. CASE real' = [real EXCEPT ![This] = cmd.new] /\ cmd'.new = real[This]
      <3> DEFINE this == This
      <3>1. this \in Port /\ real[this] \in Num /\ real' = [real EXCEPT ![this] = cmd.new]
            /\ cmd'.new = real[this]
        BY <2>1, <2>4
      <3> HIDE DEF this
      <3>2. Taken(cmd.new) /\ Taken(real[this])
        BY <2>1, <3>1, NameAssumption DEF RealInv
      <3>3. \A q \in Port : real'[q] = IF q = this THEN cmd.new ELSE real[q]
        BY <1>1, <3>1
      <3>4. \A q \in Port : real[q] = cmd.new => cmd.new \in torn
        BY <2>1 DEF RealInv
      <3>5. \A q \in Port : real[q] = real[this] => q = this \/ real[this] \in torn
        BY <2>1, <3>1, NameAssumption DEF RealInv
      <3>6. \A q \in Port : real'[q] = real[this] => real[this] \in torn
        BY <3>1, <3>3, <3>4, <3>5
      <3>7. \A q \in Port : real'[q] # 0 =>
               Taken(real'[q]) /\ \A r \in Port : real'[r] = real'[q] => r = q \/ real'[q] \in torn
        <4> SUFFICES ASSUME NEW q \in Port, real'[q] # 0
                     PROVE  Taken(real'[q]) /\
                            \A r \in Port : real'[r] = real'[q] => r = q \/ real'[q] \in torn
          OBVIOUS
        <4>1. CASE q = this
          BY <3>2, <3>3, <3>4, <4>1
        <4>2. CASE q # this
          <5>1. Taken(real[q]) /\ \A r \in Port : real[r] = real[q] => r = q \/ real[q] \in torn
            BY <3>3, <4>2 DEF RealInv
          <5> QED BY <3>3, <3>4, <4>2, <5>1
        <4> QED BY <4>1, <4>2
      <3> QED BY <2>2, <3>1, <3>2, <3>6, <3>7 DEF RealInv, Taken
    <2> QED BY <1>1, <1>3, <2>3, <2>4, SetRealFacts
  <1>4. CASE ReleaseReal
    <2>1. /\ cmd.phase = "release" /\ cmd.new \in Num /\ cmd'.phase = "sync"
          /\ UNCHANGED <<real, torn>>
          /\ UNCHANGED owner \/ owner' = [owner EXCEPT ![cmd.new] = "free"]
      BY <1>1, <1>4, ReleaseRealFacts
    <2> QED BY <1>1, <2>1 DEF RealInv, Taken
  <1> QED BY <1>2, <1>3, <1>4

LEMMA RealStep ==
    ASSUME Types, RealInv, [Next]_vars PROVE RealInv'
  <1>1. TypeOK /\ AtInv /\ real \in [Port -> Num \cup {0}] /\ owner \in [Num -> CD!Owner]
    BY DEF Types, TypeOK, CD!TypeOK
  <1>2. CASE UNCHANGED vars
    BY <1>2, RealKept DEF vars
  <1>3. CASE Quiet
    BY <1>1, <1>3, QuietFacts, ClassReal, RealKept
  <1>4. CASE DropPort \/ RemovePorts
    BY <1>1, <1>4, DropFacts, RemovePortsFacts, TypeFacts, RemoveReal
  <1>5. CASE ClaimReal \/ ReleaseReal
    BY <1>5, ClassReal
  <1>6. CASE SyncStart
    BY <1>1, <1>6, SyncStartFacts, RealKept
  <1>7. CASE SyncStep
    <2>1. /\ UNCHANGED real /\ cmd'.phase \notin {"set", "release"} /\ CDP!SyncStep
          /\ torn \subseteq torn'
      BY <1>1, <1>7, SyncStepFacts, SyncSame, TornGrows DEF CDP!Next
    <2>2. \A n \in Num : Taken(n) => Taken(n)'
      BY <2>1, SyncTaken
    <2> QED BY <1>1, <2>1, <2>2 DEF RealInv
  <1>8. CASE Crash
    BY <1>1, <1>8, CrashFacts, RealKept
  <1>9. ASSUME NEW p \in Port, ClassInstall(p) PROVE RealInv'
    <2>1. PICK n \in Num : /\ owner[n] = "free" /\ owner' = [owner EXCEPT ![n] = "class"]
                           /\ real' = [real EXCEPT ![p] = n]
      BY <1>9, ClassInstallFacts
    <2>2. UNCHANGED <<torn, cmd>> /\ real[p] = 0
      BY <1>9, ClassInstallFacts
    <2>3. cmd.phase \in {"set", "release"} => cmd.new \in Num
      BY <1>1 DEF AtInv
    <2> QED BY <1>1, <2>1, <2>2, <2>3 DEF RealInv, Taken
  <1>10. ASSUME NEW n \in Num, Others(n) PROVE RealInv'
    <2>1. UNCHANGED <<torn, cmd, real>> /\ owner[n] \in {"free", "other"}
          /\ \E w \in {"free", "other"} : owner' = [owner EXCEPT ![n] = w]
      BY <1>10, OthersFacts
    <2>2. cmd.phase \in {"set", "release"} => cmd.new \in Num
      BY <1>1 DEF AtInv
    <2>3. \A m \in Num : Taken(m) => Taken(m)'
      BY <1>1, <2>1 DEF Taken
    <2> QED BY <1>1, <2>1, <2>2, <2>3 DEF RealInv
  <1> QED BY <1>2, <1>3, <1>4, <1>5, <1>6, <1>7, <1>8, <1>9, <1>10, NextCases

----------------------------------------------------------------------------
(* The devices stay whole.                                                 *)
LEMMA WholeKept ==
    ASSUME WholeInv, UNCHANGED <<devs, blank, label>>, faults' = 0 => faults = 0,
           cmd.phase \notin Unlabelled \cup {"number"}, cmd'.phase \notin {"number", "rollback"},
           cmd'.phase \in {"params", "same", "register"} /\ faults' = 0 => devs[cmd'.at] = 0
    PROVE  WholeInv'
  BY DEF WholeInv, Unlabelled, Present

LEMMA WholeInstall ==
    ASSUME Types, WholeInv,
           Main \/ AllocPortNum \/ InstallParams \/ SameName \/ RegisterDevice \/ SetPortNum
    PROVE  WholeInv'
  <1>1. TypeOK /\ AtInv /\ devs \in [Pair -> 0 .. MaxTwins] /\ blank \in 0 .. MaxTwins
    BY DEF Types, TypeOK
  <1>2. CASE Main \/ AllocPortNum
    BY <1>1, <1>2, MainFacts, AllocFacts, WholeKept DEF StoreVars, Unlabelled
  <1>3. CASE InstallParams
    <2>1. /\ UNCHANGED <<devs, blank, label>> /\ (faults' = 0 => faults = 0)
          /\ cmd.phase = "params" /\ cmd'.phase \in {"idle", "params", "same"}
          /\ cmd'.phase # "idle" => cmd'.at = cmd.at
      BY <1>1, <1>3, InstallParamsFacts
    <2>2. faults = 0 => devs[cmd.at] = 0
      BY <2>1 DEF WholeInv
    <2>3. cmd'.phase \in {"params", "same", "register"} /\ faults' = 0 => devs[cmd'.at] = 0
      BY <2>1, <2>2
    <2>4. /\ cmd.phase \notin Unlabelled \cup {"number"}
          /\ cmd'.phase \notin {"number", "rollback"}
      BY <2>1 DEF Unlabelled
    <2> QED BY <2>1, <2>3, <2>4, WholeKept
  <1>4. CASE SameName
    <2>1. /\ UNCHANGED <<devs, blank, label, faults>> /\ cmd.phase = "same"
          /\ cmd'.phase \in {"idle", "register"} /\ (cmd'.phase # "idle" => cmd'.at = cmd.at)
      BY <1>1, <1>4, SameNameFacts DEF StoreVars
    <2>2. faults = 0 => devs[cmd.at] = 0
      BY <2>1 DEF WholeInv
    <2> QED BY <2>1, <2>2, WholeKept DEF Unlabelled
  <1>5. CASE RegisterDevice
    BY <1>1, <1>5, RegisterFacts DEF WholeInv, Unlabelled, Present
  <1>6. CASE SetPortNum
    <2>1. cmd.phase = "number" /\ cmd.at \in Pair /\ Kept /\ UNCHANGED faults
      BY <1>1, <1>6, SetPortNumFacts, TypeFacts
    <2>2. CASE UNCHANGED <<devs, blank, label>> /\ cmd'.phase = "rollback"
      BY <1>1, <2>1, <2>2 DEF WholeInv, Unlabelled, Present, Kept
    <2>3. CASE /\ devs' = [devs EXCEPT ![cmd.at] = devs[cmd.at] + 1] /\ blank' = blank - 1
               /\ label' = label \ {cmd.at} /\ cmd'.phase = "driver"
      <3> SUFFICES ASSUME faults' = 0 PROVE WholeInv'
        BY DEF WholeInv
      <3>1. blank = 1 /\ devs[cmd.at] = 0
        BY <2>1 DEF WholeInv
      <3>2. \A i \in Pair : devs'[i] = IF i = cmd.at THEN 1 ELSE devs[i]
        BY <1>1, <2>1, <2>3, <3>1
      <3>3. \A i \in Present' : devs'[i] = 1 /\ (i \in label' \/ i = cmd.at)
        BY <1>1, <2>1, <2>3, <3>2 DEF WholeInv, Present, Unlabelled
      <3> QED BY <2>1, <2>3, <3>1, <3>3 DEF WholeInv, Unlabelled, Kept
    <2> QED BY <1>1, <1>6, <2>2, <2>3, SetPortNumFacts
  <1> QED BY <1>2, <1>3, <1>4, <1>5, <1>6

LEMMA WholeRollback ==
    ASSUME Types, WholeInv, UpdateDriver \/ Rollback
    PROVE  WholeInv'
  <1>1. TypeOK /\ AtInv /\ devs \in [Pair -> 0 .. MaxTwins] /\ blank \in 0 .. MaxTwins
    BY DEF Types, TypeOK
  <1>2. CASE UpdateDriver
    <2>1. /\ cmd.phase = "driver" /\ devs[cmd.at] > 0 /\ cmd'.at = cmd.at
          /\ cmd'.phase \in {"labels", "rollback"} /\ UNCHANGED <<devs, blank, label, faults>>
      BY <1>1, <1>2, UpdateDriverFacts DEF AtInv, StoreVars, Kept
    <2>2. cmd.at \in Pair
      BY <1>1, <2>1, TypeFacts
    <2>3. devs[cmd.at] # 0
      BY <1>1, <2>1, <2>2
    <2> QED BY <2>1, <2>3 DEF WholeInv, Unlabelled, Present
  <1>3. CASE Rollback
    <2> SUFFICES ASSUME faults' = 0 PROVE WholeInv'
      BY DEF WholeInv
    <2>1. /\ cmd.phase = "rollback" /\ cmd.at \in Pair /\ UNCHANGED label /\ faults = 0
          /\ cmd'.phase = "idle" \/ (cmd'.phase = "register" /\ cmd'.at = cmd.at)
      BY <1>1, <1>3, RollbackFacts, TypeFacts DEF More
    <2>2. CASE devs[cmd.at] > 0 /\ devs' = [devs EXCEPT ![cmd.at] = devs[cmd.at] - 1]
               /\ UNCHANGED blank
      <3>1. devs[cmd.at] = 1 /\ blank = 0
        BY <1>1, <2>1, <2>2 DEF WholeInv, Present
      <3>2. \A i \in Pair : devs'[i] = IF i = cmd.at THEN 0 ELSE devs[i]
        BY <1>1, <2>1, <2>2, <3>1
      <3>3. \A i \in Present' : devs'[i] = 1 /\ i \in label'
        BY <1>1, <2>1, <3>2 DEF WholeInv, Present
      <3> QED BY <2>1, <2>2, <3>1, <3>2, <3>3 DEF WholeInv
    <2>3. CASE ~(devs[cmd.at] > 0) /\ blank' = blank - 1 /\ UNCHANGED devs
      <3>1. devs[cmd.at] = 0 /\ blank = 1
        BY <1>1, <2>1, <2>3 DEF WholeInv
      <3>2. \A i \in Present' : devs'[i] = 1 /\ i \in label'
        BY <1>1, <2>1, <2>3, <3>1 DEF WholeInv, Present
      <3> QED BY <2>1, <2>3, <3>1, <3>2 DEF WholeInv
    <2> QED BY <1>1, <1>3, <2>2, <2>3, RollbackFacts
  <1> QED BY <1>2, <1>3

LEMMA WholeChange ==
    ASSUME Types, WholeInv,
           InstallLabels \/ Relabel \/ Reclass \/ ChangeDevice \/ RemoveBus \/ SetReal
    PROVE  WholeInv'
  <1>1. TypeOK /\ AtInv /\ devs \in [Pair -> 0 .. MaxTwins] /\ blank \in 0 .. MaxTwins
    BY DEF Types, TypeOK
  <1>2. CASE InstallLabels \/ Relabel \/ Reclass
    <2> SUFFICES ASSUME faults' = 0 PROVE WholeInv'
      BY DEF WholeInv
    <2>1. /\ cmd.phase \in {"labels", "relabel", "reclass"} /\ UNCHANGED <<devs, blank>>
          /\ faults = 0 /\ label' = label \cup {cmd.at} /\ cmd'.phase \in {"sync", "drop"}
      BY <1>1, <1>2, LabelsFacts DEF More
    <2> QED BY <2>1 DEF WholeInv, Unlabelled, Present
  <1>3. CASE ChangeDevice
    <2>1. cmd.phase = "change" /\ UNCHANGED <<devs, blank, faults>>
      BY <1>1, <1>3, ChangeFacts
    <2>2. CASE UNCHANGED label /\ cmd'.phase \in {"idle", "sync", "claim"}
      BY <2>1, <2>2, WholeKept DEF Unlabelled
    <2>3. CASE label' \in {label, label \ {cmd.at}} /\ cmd'.phase \in {"relabel", "reclass"}
               /\ cmd'.at = cmd.at
      BY <2>1, <2>3 DEF WholeInv, Unlabelled, Present
    <2> QED BY <1>1, <1>3, <2>2, <2>3, ChangeFacts
  <1>4. CASE RemoveBus
    <2>1. /\ cmd.phase = "removeBus" /\ cmd.at \in Pair /\ UNCHANGED <<blank, label, faults>>
          /\ cmd'.phase \in {"sync", "removePorts", "removeBus"}
      BY <1>1, <1>4, RemoveBusFacts, TypeFacts
    <2>2. CASE UNCHANGED devs
      BY <2>1, <2>2, WholeKept DEF Unlabelled
    <2>3. CASE devs[cmd.at] > 0 /\ devs' = [devs EXCEPT ![cmd.at] = devs[cmd.at] - 1]
      <3>1. faults = 0 => devs[cmd.at] = 1
        BY <2>1, <2>3 DEF WholeInv, Present
      <3>2. faults = 0 => \A i \in Pair : devs'[i] = IF i = cmd.at THEN 0 ELSE devs[i]
        BY <1>1, <2>1, <2>3, <3>1
      <3> QED BY <1>1, <2>1, <3>2 DEF WholeInv, Unlabelled, Present
    <2> QED BY <1>1, <1>4, <2>2, <2>3, RemoveBusFacts
  <1>5. CASE SetReal
    BY <1>1, <1>5, SetRealFacts, WholeKept DEF Unlabelled
  <1> QED BY <1>2, <1>3, <1>4, <1>5

LEMMA WholeStep ==
    ASSUME Types, WholeInv, [Next]_vars PROVE WholeInv'
  <1>1. TypeOK /\ AtInv
    BY DEF Types
  <1>2. CASE UNCHANGED vars
    BY <1>2 DEF vars, WholeInv, Present
  <1>3. CASE Quiet
    BY <1>3, WholeInstall, WholeRollback, WholeChange DEF Quiet
  <1>4. CASE DropPort \/ RemovePorts
    <2>1. RemovePort(This) /\ This \in Port /\ cmd.phase \in {"drop", "removePorts"}
          /\ cmd'.phase \in {"sync", "removePorts"}
      BY <1>1, <1>4, DropFacts, RemovePortsFacts, TypeFacts
    <2>2. UNCHANGED <<devs, blank, label, faults>>
      BY <1>1, <2>1, RemovePortFacts
    <2> QED BY <2>1, <2>2, WholeKept DEF Unlabelled
  <1>5. CASE ClaimReal \/ ReleaseReal
    BY <1>1, <1>5, ClaimRealFacts, ReleaseRealFacts, WholeKept DEF Unlabelled
  <1>6. CASE SyncStart
    BY <1>1, <1>6, SyncStartFacts, WholeKept DEF Unlabelled
  <1>7. CASE SyncStep
    BY <1>1, <1>7, SyncStepFacts, WholeKept DEF Unlabelled, More
  <1>8. CASE Crash
    BY <1>1, <1>8, CrashFacts DEF WholeInv
  <1>9. ASSUME NEW p \in Port, ClassInstall(p) PROVE WholeInv'
    BY <1>9, ClassInstallFacts DEF WholeInv, Present
  <1>10. ASSUME NEW n \in Num, Others(n) PROVE WholeInv'
    BY <1>10, OthersFacts DEF WholeInv, Present
  <1> QED BY <1>2, <1>3, <1>4, <1>5, <1>6, <1>7, <1>8, <1>9, <1>10, NextCases

----------------------------------------------------------------------------
(* Numbers once let through stay let through.                              *)
Grow == excused \subseteq excused' /\ torn \subseteq torn'

LEMMA Growth ==
    ASSUME Types, [Next]_vars PROVE Grow
  <1>1. TypeOK /\ AtInv /\ SyncInv
    BY DEF Types
  <1>2. torn \subseteq torn'
    BY <1>1, Refines, TornGrows
  <1>3. excused \subseteq excused'
    <2>1. CASE UNCHANGED vars
      BY <2>1 DEF vars
    <2>2. CASE Quiet
      BY <1>1, <2>2, MainFacts, AllocFacts, InstallParamsFacts, SameNameFacts, RegisterFacts,
         SetPortNumFacts, UpdateDriverFacts, RollbackFacts, LabelsFacts, ChangeFacts,
         SetRealFacts, RemoveBusFacts DEF Quiet, More
    <2>3. CASE DropPort \/ RemovePorts
      BY <1>1, <2>3, DropFacts, RemovePortsFacts, TypeFacts, RemovePortFacts
    <2>4. CASE ClaimReal \/ ReleaseReal \/ SyncStart \/ SyncStep \/ Crash
      BY <1>1, <2>4, ClaimRealFacts, ReleaseRealFacts, SyncStartFacts, SyncStepFacts,
         CrashFacts DEF More
    <2>5. CASE (\E p \in Port : ClassInstall(p)) \/ (\E n \in Num : Others(n))
      BY <2>5, ClassInstallFacts, OthersFacts
    <2> QED BY <2>1, <2>2, <2>3, <2>4, <2>5, NextCases
  <1> QED BY <1>2, <1>3 DEF Grow

LEMMA PortFacts ==
    ASSUME TypeOK
    PROVE  /\ \A p \in Present \X Side : p \in Port /\ p[1] \in Present
           /\ \A p \in Port : p[1] \in Pair /\ (p[1] \in Present <=> p \in Present \X Side)
           /\ \A p \in Port : param[p] \in Name
           /\ \A i : \A p \in (Present \ {i}) \X Side : p \in Present \X Side /\ p[1] # i
           /\ \A i : \A p \in Present \X Side : p[1] # i => p \in (Present \ {i}) \X Side
           /\ \A i : \A p \in Port : p[1] = i => p \in {<<i, "A">>, <<i, "B">>}
  BY DEF TypeOK, Port, Side, Present

LEMMA SpecialKept ==
    ASSUME Grow, NEW p, param'[p] = param[p], Special(p) PROVE Special(p)'
  BY DEF Grow, Special

LEMMA SettledNone ==
    ASSUME cmd'.phase \notin Calm PROVE SettledInv'
  BY DEF SettledInv

LEMMA SettledKept ==
    ASSUME Grow, SettledInv, cmd.phase \in Calm, UNCHANGED <<devs, param>>,
           \A n \in Num : owner[n] = "setup" => owner'[n] = "setup",
           cmd.phase \in {"driver", "rollback"} =>
              cmd'.phase \in {"driver", "rollback"} /\ cmd'.at = cmd.at
    PROVE  SettledInv'
  <1> SUFFICES ASSUME NEW p \in Present \X Side, param[p] \in Num
               PROVE  Special(p)' \/ Added(p)' \/ owner'[param[p]] = "setup"
    BY DEF SettledInv, Present
  <1>1. Special(p) \/ Added(p) \/ owner[param[p]] = "setup"
    BY DEF SettledInv
  <1> QED BY <1>1, SpecialKept DEF Added

LEMMA SettledExcused ==
    ASSUME UNCHANGED <<devs, param>>, UsedNames \subseteq excused'
    PROVE  SettledInv'
  <1>1. \A p \in Present \X Side : param[p] \in Num => Special(p)'
    BY DEF UsedNames, Special
  <1> QED BY <1>1 DEF SettledInv, Present

LEMMA SettledDevices ==
    ASSUME Types, Grow, SettledInv, InstallInv, InstallParams \/ SetPortNum \/ Rollback
    PROVE  SettledInv'
  <1>1. TypeOK /\ AtInv
    BY DEF Types
  <1>2. CASE InstallParams
    <2>1. devs[cmd.at] = 0 /\ cmd.phase = "params" /\ This[1] \notin Present
          /\ UNCHANGED <<devs, owner>> /\ cmd'.phase \in {"idle", "params", "same"}
      BY <1>1, <1>2, InstallParamsFacts DEF InstallInv, Present, This
    <2>2. \A p \in Port : p # This => param'[p] = param[p]
      BY <1>1, <1>2, InstallParamsFacts DEF TypeOK
    <2>3. \A p \in Present \X Side : param'[p] = param[p]
      BY <1>1, <2>1, <2>2, PortFacts
    <2> SUFFICES ASSUME NEW p \in Present \X Side, param[p] \in Num
                 PROVE  Special(p)' \/ owner'[param[p]] = "setup"
      BY <2>1, <2>3 DEF SettledInv, Present
    <2>4. Special(p) \/ owner[param[p]] = "setup"
      BY <2>1 DEF SettledInv, Calm, Added
    <2> QED BY <2>1, <2>3, <2>4, SpecialKept
  <1>3. CASE SetPortNum
    <2>1. /\ cmd.phase = "number" /\ cmd.at \in Pair /\ cmd'.at = cmd.at
          /\ cmd'.phase \in {"driver", "rollback"} /\ UNCHANGED <<param, owner>>
      BY <1>1, <1>3, SetPortNumFacts, TypeFacts DEF Kept
    <2>2. CASE UNCHANGED devs
      BY <2>1, <2>2, SettledKept DEF Calm
    <2>3. CASE devs' = [devs EXCEPT ![cmd.at] = devs[cmd.at] + 1] /\ cmd'.phase = "driver"
      <3>1. \A i \in Pair : devs'[i] = IF i = cmd.at THEN devs[i] + 1 ELSE devs[i]
        BY <1>1, <2>3 DEF TypeOK
      <3> SUFFICES ASSUME NEW p \in Port, p[1] \in Present', param[p] \in Num
                   PROVE  Special(p)' \/ Added(p)' \/ owner[param[p]] = "setup"
        BY <2>1 DEF SettledInv, Port, Present
      <3>2. CASE p \in Present \X Side
        <4>1. Special(p) \/ owner[param[p]] = "setup"
          BY <2>1, <3>2 DEF SettledInv, Calm, Added
        <4> QED BY <2>1, <4>1, SpecialKept
      <3>3. CASE p \notin Present \X Side
        <4>1. p[1] = cmd.at /\ devs[cmd.at] = 0
          BY <1>1, <2>1, <3>1, <3>3, PortFacts DEF Present, TypeOK
        <4> QED BY <2>1, <2>3, <3>1, <4>1 DEF Added
      <3> QED BY <3>2, <3>3
    <2> QED BY <1>1, <1>3, <2>2, <2>3, SetPortNumFacts
  <1>4. CASE Rollback
    <2>1. /\ cmd.phase = "rollback" /\ cmd.at \in Pair /\ UNCHANGED <<param, owner>>
          /\ cmd'.phase \in {"register", "idle"}
      BY <1>1, <1>4, RollbackFacts, TypeFacts
    <2>2. CASE UNCHANGED devs /\ UsedNames \subseteq excused'
      BY <2>1, <2>2, SettledExcused
    <2>3. CASE UNCHANGED devs /\ ~(devs[cmd.at] > 0)
      <3>1. devs[cmd.at] # 1
        BY <2>3
      <3> SUFFICES ASSUME NEW p \in Present \X Side, param[p] \in Num
                   PROVE  Special(p)' \/ owner[param[p]] = "setup"
        BY <2>1, <2>3 DEF SettledInv, Present
      <3>2. Special(p) \/ owner[param[p]] = "setup"
        BY <2>1, <3>1 DEF SettledInv, Calm, Added
      <3> QED BY <2>1, <3>2, SpecialKept
    <2>4. CASE devs[cmd.at] > 0 /\ devs' = [devs EXCEPT ![cmd.at] = devs[cmd.at] - 1]
      <3>1. \A i \in Pair : devs'[i] = IF i = cmd.at THEN devs[i] - 1 ELSE devs[i]
        BY <1>1, <2>4 DEF TypeOK
      <3> SUFFICES ASSUME NEW p \in Port, p[1] \in Present', param[p] \in Num
                   PROVE  Special(p)' \/ owner[param[p]] = "setup"
        BY <2>1 DEF SettledInv, Port, Present
      <3>2. p[1] \in Present /\ ~Added(p)
        BY <1>1, <2>1, <2>4, <3>1 DEF Present, Added, TypeOK, MaxTwins
      <3>3. p \in Present \X Side
        BY <1>1, <3>2, PortFacts
      <3>4. Special(p) \/ owner[param[p]] = "setup"
        BY <2>1, <3>2, <3>3 DEF SettledInv, Calm
      <3> QED BY <2>1, <3>4, SpecialKept
    <2> QED BY <1>1, <1>4, <2>2, <2>3, <2>4, RollbackFacts
  <1> QED BY <1>2, <1>3, <1>4

(* The end of a sync: owner says whose the names of the ports are.         *)
LEMMA SettledSync ==
    ASSUME Types, Grow, SyncStep
    PROVE  SettledInv'
  <1>1. TypeOK /\ AtInv
    BY DEF Types
  <1>2. CASE sync'.pc # "idle"
    BY <1>1, <1>2, SyncStepFacts, SettledNone DEF Calm
  <1>3. CASE sync'.pc = "idle" /\ sync.pc # "loop"
    BY <1>1, <1>3, SyncStepFacts, SettledExcused
  <1>4. CASE sync'.pc = "idle" /\ sync.pc = "loop"
    <2>1. sync.skip \subseteq excused' /\ UNCHANGED <<devs, param>>
      BY <1>1, <1>4, SyncStepFacts
    <2>2. CD!SyncDone
      <3>1. ~CD!LoadComNames /\ ~CD!LoadComDbLocal /\ ~CD!SaveComDbLocal
        BY <1>4 DEF CD!LoadComNames, CD!LoadComDbLocal, CD!SaveComDbLocal
      <3>2. ASSUME NEW n \in Num, CD!Claim(n) \/ CD!Release(n) \/ CD!Refused(n)
            PROVE  sync'.pc # "idle"
        BY <1>1, <1>4, <3>2 DEF CD!Claim, CD!Release, CD!Refused, TypeOK, CD!TypeOK
      <3> QED BY <1>1, <1>4, <3>1, <3>2, SyncStepFacts
    <2>3. CDP!SyncDone /\ UNCHANGED owner
      BY <2>2 DEF CD!SyncDone, CDP!SyncDone, CD!Differ, CDP!Differ, CD!Idle, CDP!Idle
    <2>4. \A n \in Num \ (torn \cup sync.skip) : owner[n] = "setup" <=> n \in UsedNames
      BY <2>3, CDP!DoneAgrees, NameAssumption DEF Types
    <2> SUFFICES ASSUME NEW p \in Present \X Side, param[p] \in Num, ~Special(p)'
                 PROVE  owner[param[p]] = "setup"
      BY <2>1, <2>3 DEF SettledInv, Present
    <2>5. param[p] \in UsedNames
      BY DEF UsedNames
    <2>6. param[p] \notin torn \cup sync.skip
      BY <2>1 DEF Special, Grow
    <2> QED BY <2>4, <2>5, <2>6
  <1> QED BY <1>2, <1>3, <1>4

LEMMA SettledStep ==
    ASSUME Types, SettledInv, InstallInv, [Next]_vars
    PROVE  SettledInv'
  <1>1. TypeOK /\ AtInv /\ Grow
    BY Growth DEF Types
  <1>2. CASE UNCHANGED vars
    BY <1>2 DEF vars, SettledInv, Present, Special, Added
  <1>3. CASE Main \/ AllocPortNum \/ SameName \/ UpdateDriver
    <2>1. CASE cmd'.phase \notin Calm
      BY <2>1, SettledNone
    <2>2. CASE cmd'.phase \in Calm
      <3>1. cmd.phase \in Calm /\ UNCHANGED <<devs, param, owner>>
            /\ (cmd.phase \in {"driver", "rollback"} =>
                   cmd'.phase \in {"driver", "rollback"} /\ cmd'.at = cmd.at)
        BY <1>1, <1>3, <2>2, MainFacts, AllocFacts, SameNameFacts, UpdateDriverFacts
        DEF StoreVars, Kept, Calm
      <3> QED BY <1>1, <3>1, SettledKept
    <2> QED BY <2>1, <2>2
  <1>4. CASE InstallParams \/ SetPortNum \/ Rollback
    BY <1>1, <1>4, SettledDevices
  <1>5. CASE RegisterDevice
    <2>1. cmd.phase = "register" /\ UNCHANGED <<devs, param, owner>>
      BY <1>1, <1>5, RegisterFacts
    <2> QED BY <1>1, <2>1, SettledKept DEF Calm
  <1>6. CASE InstallLabels \/ Relabel \/ Reclass
    BY <1>1, <1>6, LabelsFacts, SettledNone DEF Calm
  <1>7. CASE ChangeDevice
    <2>1. CASE cmd'.phase = "idle" /\ UNCHANGED param
      BY <1>1, <1>7, <2>1, ChangeFacts, SettledKept DEF Calm
    <2>2. CASE cmd'.phase \in {"sync", "claim", "relabel", "reclass"}
      BY <2>2, SettledNone DEF Calm
    <2> QED BY <1>1, <1>7, <2>1, <2>2, ChangeFacts
  <1>8. CASE SetReal \/ RemoveBus \/ DropPort \/ RemovePorts \/ ClaimReal \/ ReleaseReal
             \/ SyncStart
    <2>1. cmd'.phase \in {"release", "sync", "removePorts", "removeBus", "set", "syncing"}
      BY <1>1, <1>8, SetRealFacts, RemoveBusFacts, DropFacts, RemovePortsFacts,
         ClaimRealFacts, ReleaseRealFacts, SyncStartFacts
    <2> QED BY <2>1, SettledNone DEF Calm
  <1>9. CASE SyncStep
    BY <1>1, <1>9, SettledSync
  <1>10. CASE Crash
    BY <1>1, <1>10, CrashFacts, SettledExcused
  <1>11. ASSUME \/ \E p \in Port : ClassInstall(p)
                \/ \E n \in Num : Others(n)
         PROVE  SettledInv'
    <2>1. UNCHANGED <<devs, param, cmd>>
      BY <1>11, ClassInstallFacts, OthersFacts
    <2>2. \A n \in Num : owner[n] = "setup" => owner'[n] = "setup"
      <3>1. \E n \in Num, w \in {"class", "other", "free"} :
               owner[n] # "setup" /\ owner' = [owner EXCEPT ![n] = w]
        BY <1>11, ClassInstallFacts, OthersFacts
      <3> QED BY <1>1, <3>1 DEF TypeOK, CD!TypeOK
    <2>3. CASE cmd.phase \in Calm
      BY <1>1, <2>1, <2>2, <2>3, SettledKept
    <2>4. CASE cmd.phase \notin Calm
      BY <2>1, <2>4, SettledNone
    <2> QED BY <2>3, <2>4
  <1> QED BY <1>2, <1>3, <1>4, <1>5, <1>6, <1>7, <1>8, <1>9, <1>10, <1>11, NextCases DEF Quiet

----------------------------------------------------------------------------
(* The names stay different.                                               *)
LEMMA UniqueKept ==
    ASSUME Grow, UniqueInv, Present' \subseteq Present,
           \A p \in Present \X Side : param'[p] = param[p]
    PROVE  UniqueInv'
  <1> SUFFICES ASSUME NEW p \in Present' \X Side, NEW q \in Present' \X Side,
                      p # q, param'[p] = param'[q]
               PROVE  Special(p)'
    BY DEF UniqueInv
  <1>1. p \in Present \X Side /\ q \in Present \X Side
    OBVIOUS
  <1> QED BY <1>1, SpecialKept DEF UniqueInv

(* A name that nobody has claimed is the name of no installed port.        *)
LEMMA FreshName ==
    ASSUME Types, Grow, SettledInv, cmd.phase \in {"params", "change"}, NEW n \in Name,
           n \in Num => n \in excused' \/ owner[n] = "free" \/ Taken(n),
           NEW q \in Present \X Side, param[q] = n
    PROVE  n \in {Default, ComClass} \cup excused' \cup torn'
  <1>1. n \in Num => Special(q) \/ owner[n] = "setup"
    BY DEF SettledInv, Calm, Added
  <1>2. CASE n \notin Num
    BY <1>2 DEF Name
  <1>3. CASE n \in Num
    BY <1>1, <1>3 DEF Taken, Grow, Special
  <1> QED BY <1>2, <1>3

LEMMA UniqueChange ==
    ASSUME Types, Grow, RealInv, SettledInv, UniqueInv, ChangeDevice
    PROVE  UniqueInv'
  <1>1. TypeOK /\ AtInv
    BY DEF Types
  <1>2. cmd.phase = "change" /\ UNCHANGED <<devs, real, owner>> /\ Present' = Present
    BY <1>1, ChangeFacts DEF Present
  <1>3. CASE UNCHANGED param
    BY <1>2, <1>3, UniqueKept
  <1>4. CASE param' = [param EXCEPT ![This] = cmd.ask] /\ cmd.ask \in Name
             /\ cmd.ask # param[This]
             /\ (cmd.ask \in Num => \/ cmd.ask \in excused' \/ owner[cmd.ask] = "free"
                                    \/ real[This] # 0 /\ cmd.ask = real[This])
    <2> DEFINE this == This
    <2>1. this \in Port /\ \A p \in Port : param'[p] = IF p = this THEN cmd.ask ELSE param[p]
      BY <1>1, <1>2, <1>4, TypeFacts DEF TypeOK
    <2>2. cmd.ask \in Num => cmd.ask \in excused' \/ owner[cmd.ask] = "free" \/ Taken(cmd.ask)
      BY <1>4, <2>1 DEF RealInv
    <2> HIDE DEF this
    <2>3. \A q \in Present \X Side : param[q] = cmd.ask =>
             cmd.ask \in {Default, ComClass} \cup excused' \cup torn'
      BY <1>1, <1>2, <1>4, <2>2, FreshName
    <2> SUFFICES ASSUME NEW p \in Present \X Side, NEW q \in Present \X Side,
                        p # q, param'[p] = param'[q]
                 PROVE  Special(p)'
      BY <1>2 DEF UniqueInv
    <2>4. p \in Port /\ q \in Port
      BY <1>1, PortFacts
    <2>5. CASE p = this \/ q = this
      BY <2>1, <2>3, <2>4, <2>5 DEF Special
    <2>6. CASE p # this /\ q # this
      <3>1. Special(p) /\ param'[p] = param[p]
        BY <2>1, <2>4, <2>6 DEF UniqueInv
      <3> QED BY <3>1, SpecialKept
    <2> QED BY <2>5, <2>6
  <1>5. CASE param' = [param EXCEPT ![This] = cmd.ask] /\ cmd.ask = param[This]
    <2>1. param' = param
      BY <1>1, <1>5 DEF TypeOK
    <2> QED BY <1>3, <2>1
  <1> QED BY <1>1, <1>3, <1>4, <1>5, ChangeFacts

LEMMA UniqueNumber ==
    ASSUME Types, Grow, UniqueInv, InstallInv, SetPortNum
    PROVE  UniqueInv'
  <1>1. TypeOK /\ AtInv
    BY DEF Types
  <1>2. cmd.phase = "number" /\ cmd.at \in Pair /\ UNCHANGED param
    BY <1>1, SetPortNumFacts, TypeFacts
  <1>3. \A i \in Present' : i \in Present \/ i = cmd.at
    BY <1>1, <1>2, SetPortNumFacts DEF TypeOK, Present
  <1>4. /\ Fit(SideA) /\ Fit(SideB) /\ (param[SideA] = param[SideB] => Special(SideA))
    BY <1>2 DEF InstallInv, Installing
  <1> SUFFICES ASSUME NEW p \in Present' \X Side, NEW q \in Present' \X Side,
                      p # q, param[p] = param[q]
               PROVE  Special(p)
    BY <1>2, SpecialKept DEF UniqueInv
  <1>5. p \in Port /\ q \in Port /\ p[1] \in Present' /\ q[1] \in Present'
    BY DEF Port, Present
  <1>6. \A r \in Port : r[1] = cmd.at => r \in {SideA, SideB}
    BY <1>1, PortFacts DEF SideA, SideB
  <1>7. \A r \in Port : r[1] \in Present' /\ r[1] # cmd.at => r \in (Present \ {cmd.at}) \X Side
    BY <1>1, <1>3, PortFacts
  <1>8. CASE p[1] = cmd.at /\ q[1] = cmd.at
    BY <1>4, <1>5, <1>6, <1>8 DEF Special
  <1>9. CASE p[1] = cmd.at /\ q[1] # cmd.at
    BY <1>4, <1>5, <1>6, <1>7, <1>9 DEF Fit
  <1>10. CASE p[1] # cmd.at /\ q[1] = cmd.at
    BY <1>4, <1>5, <1>6, <1>7, <1>10 DEF Fit, Special
  <1>11. CASE p[1] # cmd.at /\ q[1] # cmd.at
    <2>1. p \in Present \X Side /\ q \in Present \X Side
      BY <1>1, <1>5, <1>7, <1>11, PortFacts
    <2> QED BY <2>1 DEF UniqueInv
  <1> QED BY <1>8, <1>9, <1>10, <1>11

LEMMA UniqueStep ==
    ASSUME Types, RealInv, SettledInv, UniqueInv, InstallInv, [Next]_vars
    PROVE  UniqueInv'
  <1>1. TypeOK /\ AtInv /\ Grow
    BY Growth DEF Types
  <1>2. ASSUME UNCHANGED <<devs, param>> PROVE UniqueInv'
    BY <1>1, <1>2, UniqueKept DEF Present
  <1>3. CASE UNCHANGED vars
    BY <1>2, <1>3 DEF vars
  <1>4. CASE Main \/ AllocPortNum \/ SameName \/ UpdateDriver \/ RegisterDevice
             \/ InstallLabels \/ Relabel \/ Reclass \/ SetReal
    BY <1>1, <1>2, <1>4, MainFacts, AllocFacts, SameNameFacts, UpdateDriverFacts,
       RegisterFacts, LabelsFacts, SetRealFacts DEF StoreVars
  <1>5. CASE InstallParams
    <2>1. devs[cmd.at] = 0 /\ UNCHANGED devs
      BY <1>1, <1>5, InstallParamsFacts DEF InstallInv
    <2>2. Present' = Present /\ This[1] \notin Present
      BY <2>1 DEF Present, This
    <2>3. \A p \in Port : p # This => param'[p] = param[p]
      BY <1>1, <1>5, InstallParamsFacts DEF TypeOK
    <2>4. \A p \in Present \X Side : param'[p] = param[p]
      BY <1>1, <2>2, <2>3, PortFacts
    <2> QED BY <1>1, <2>2, <2>4, UniqueKept
  <1>6. CASE SetPortNum
    BY <1>1, <1>6, UniqueNumber
  <1>7. CASE Rollback \/ RemoveBus
    <2>1. UNCHANGED param /\ cmd.at \in Pair
          /\ (UNCHANGED devs \/ (/\ devs[cmd.at] > 0
                                 /\ devs' = [devs EXCEPT ![cmd.at] = devs[cmd.at] - 1]))
      BY <1>1, <1>7, RollbackFacts, RemoveBusFacts, TypeFacts
    <2>2. Present' \subseteq Present
      BY <1>1, <2>1 DEF Present, TypeOK
    <2> QED BY <1>1, <2>1, <2>2, UniqueKept
  <1>8. CASE ChangeDevice
    BY <1>1, <1>8, UniqueChange
  <1>9. CASE DropPort \/ RemovePorts
    BY <1>1, <1>2, <1>9, DropFacts, RemovePortsFacts, TypeFacts, RemovePortFacts
  <1>10. CASE ClaimReal \/ ReleaseReal \/ SyncStart \/ SyncStep \/ Crash
    BY <1>1, <1>2, <1>10, ClaimRealFacts, ReleaseRealFacts, SyncStartFacts, SyncStepFacts,
       CrashFacts
  <1>11. CASE (\E p \in Port : ClassInstall(p)) \/ (\E n \in Num : Others(n))
    BY <1>2, <1>11, ClassInstallFacts, OthersFacts
  <1> QED BY <1>3, <1>4, <1>5, <1>6, <1>7, <1>8, <1>9, <1>10, <1>11, NextCases DEF Quiet

----------------------------------------------------------------------------
(* The names of a pair that is being installed fit in.                     *)
LEMMA InstallNone ==
    ASSUME cmd'.phase \notin {"alloc", "params", "same"} \cup Installing PROVE InstallInv'
  BY DEF InstallInv

LEMMA FitKept ==
    ASSUME Grow, UNCHANGED param, cmd'.at = cmd.at,
           Present' \ {cmd.at} \subseteq Present \ {cmd.at}, NEW p, Fit(p)
    PROVE  Fit(p)'
  <1>1. CASE Special(p)
    BY <1>1, SpecialKept DEF Fit
  <1>2. CASE ~Special(p)
    BY <1>2 DEF Fit
  <1> QED BY <1>1, <1>2

LEMMA InstallKept ==
    ASSUME Grow, InstallInv, UNCHANGED param, cmd'.at = cmd.at,
           cmd.phase \in Installing, cmd'.phase \in Installing,
           Present' \ {cmd.at} \subseteq Present \ {cmd.at}
    PROVE  InstallInv'
  <1>1. UNCHANGED <<SideA, SideB>>
    BY DEF SideA, SideB
  <1>2. /\ Fit(SideA) /\ Fit(SideB) /\ (param[SideA] = param[SideB] => Special(SideA))
    BY DEF InstallInv
  <1>3. Fit(SideA)' /\ Fit(SideB)'
    BY <1>1, <1>2, FitKept DEF Fit, Special, Grow
  <1>4. (param[SideA] = param[SideB] => Special(SideA))'
    BY <1>1, <1>2 DEF Special, Grow
  <1> QED BY <1>3, <1>4 DEF InstallInv, Installing

(* One turn of the loop over the two ports: the name it has saved, or the  *)
(* one it had to leave in the registry, fits in.                           *)
LEMMA InstallTurn ==
    ASSUME Types, Grow, SettledInv, InstallInv, InstallParams
    PROVE  InstallInv'
  <1>1. TypeOK /\ AtInv
    BY DEF Types
  <1>2. CASE cmd'.phase = "idle"
    BY <1>2, InstallNone DEF Installing
  <1>3. CASE cmd'.phase # "idle"
    <2>1. /\ cmd.phase = "params" /\ UNCHANGED <<devs, owner>> /\ cmd.at \in Pair
          /\ cmd'.at = cmd.at /\ cmd'.side = "B" /\ cmd'.ask = cmd.ask /\ cmd'.other = cmd.other
          /\ cmd'.phase = IF cmd.side = "A" THEN "params" ELSE "same"
          /\ This \in Port /\ cmd.side \in {"A", "B"}
      BY <1>1, <1>3, InstallParamsFacts, TypeFacts
    <2>2. devs[cmd.at] = 0 /\ Present' = Present /\ cmd.at \notin Present
      BY <2>1 DEF InstallInv, Present
    <2>3. PICK at \in Pair, this \in Port, want \in Name :
             /\ at = cmd.at /\ this = <<at, cmd.side>> /\ this = This
             /\ want = IF cmd.side = "A" THEN cmd.ask ELSE cmd.other
      BY <1>1, <2>1, TypeFacts DEF This
    <2>4. /\ \A p \in Port : p # this => param'[p] = param[p]
          /\ \/ /\ param'[this] = param[this]
                /\ param[this] \in Num => param[this] \in excused'
             \/ /\ param'[this] = want
                /\ want \in Num => want \in excused' \/ owner[want] = "free"
      <3>1. param \in [Port -> Name]
        BY <1>1 DEF TypeOK
      <3> QED BY <1>1, <1>3, <2>3, <3>1, InstallParamsFacts
    <2>5. UNCHANGED <<SideA, SideB>> /\ SideA = <<at, "A">> /\ SideB = <<at, "B">>
          /\ SideA \in Port /\ SideB \in Port
      BY <1>1, <2>1, <2>3, TypeFacts DEF SideA, SideB
    <2>6. \A q \in (Present \ {at}) \X Side : q \in Port /\ param'[q] = param[q]
      <3> SUFFICES ASSUME NEW q \in (Present \ {at}) \X Side
                   PROVE  q \in Port /\ param'[q] = param[q]
        OBVIOUS
      <3>1. q \in Present \X Side /\ q \in Port /\ q[1] # at
        BY <1>1, PortFacts
      <3>2. this[1] = at
        BY <2>3
      <3> QED BY <2>4, <3>1, <3>2
    <2>7. Fit(this)' /\ (Special(this)' \/ param'[this] = want)
      <3>1. CASE param'[this] = param[this] /\ (param[this] \in Num => param[this] \in excused')
        <4>1. param[this] \in Num \cup {Default, ComClass}
          BY <1>1, PortFacts DEF Name
        <4>2. Special(this)'
          BY <3>1, <4>1 DEF Special
        <4> QED BY <4>2 DEF Fit
      <3>2. CASE param'[this] = want
                 /\ (want \in Num => want \in excused' \/ owner[want] = "free")
        <4>1. CASE \E q \in Present \X Side : param[q] = want
          <5>1. want \in {Default, ComClass} \cup excused' \cup torn'
            BY <2>1, <3>2, <4>1, FreshName
          <5> QED BY <3>2, <5>1 DEF Fit, Special
        <4>2. CASE ~\E q \in Present \X Side : param[q] = want
          BY <1>1, <2>1, <2>2, <2>3, <2>6, <3>2, <4>2, PortFacts DEF Fit
        <4> QED BY <4>1, <4>2
      <3> QED BY <2>4, <3>1, <3>2
    <2>8. CASE cmd.side = "A"
      <3>1. this = SideA /\ want = cmd.ask
        BY <2>3, <2>5, <2>8
      <3> QED BY <2>1, <2>2, <2>3, <2>5, <2>7, <2>8, <3>1 DEF InstallInv, Installing, Given
    <2>9. CASE cmd.side = "B"
      <3>1. this = SideB /\ want = cmd.other /\ SideA # this
        BY <2>3, <2>5, <2>9
      <3>2. Fit(SideA) /\ Given(SideA, cmd.ask) /\ param'[SideA] = param[SideA]
        BY <2>1, <2>4, <2>5, <2>9, <3>1 DEF InstallInv
      <3>3. Fit(SideA)' /\ Given(SideA, cmd.ask)'
        BY <2>1, <2>2, <2>3, <2>5, <2>6, <3>2 DEF Fit, Given, Special, Grow
      <3> QED BY <2>1, <2>3, <2>5, <2>7, <2>9, <3>1, <3>3 DEF InstallInv, Installing, Given
    <2> QED BY <2>1, <2>8, <2>9
  <1> QED BY <1>2, <1>3

LEMMA InstallSame ==
    ASSUME Types, Grow, InstallInv, SameName
    PROVE  InstallInv'
  <1>1. TypeOK /\ AtInv
    BY DEF Types
  <1>2. CASE cmd'.phase = "idle"
    BY <1>2, InstallNone DEF Installing
  <1>3. CASE cmd'.phase # "idle"
    <2>1. /\ cmd.phase = "same" /\ UNCHANGED <<devs, param>> /\ cmd'.at = cmd.at
          /\ cmd'.phase = "register" /\ cmd.ask \in Name
          /\ cmd.ask = cmd.other /\ cmd.ask \in Num => cmd.ask \in excused'
      BY <1>1, <1>3, SameNameFacts, TypeFacts DEF StoreVars
    <2>2. UNCHANGED <<SideA, SideB>> /\ Present' = Present
      BY <2>1 DEF SideA, SideB, Present
    <2>3. Fit(SideA) /\ Given(SideA, cmd.ask) /\ Fit(SideB) /\ Given(SideB, cmd.other)
      BY <2>1 DEF InstallInv
    <2>4. Fit(SideA)' /\ Fit(SideB)'
      BY <2>1, <2>2, <2>3 DEF Fit, Special, Grow
    <2>5. (param[SideA] = param[SideB] => Special(SideA))'
      BY <2>1, <2>2, <2>3 DEF Given, Special, Grow, Name
    <2> QED BY <2>1, <2>4, <2>5 DEF InstallInv
  <1> QED BY <1>2, <1>3

LEMMA InstallStep ==
    ASSUME Types, SettledInv, InstallInv, [Next]_vars
    PROVE  InstallInv'
  <1>1. TypeOK /\ AtInv /\ Grow
    BY Growth DEF Types
  <1>2. CASE UNCHANGED vars
    BY <1>2 DEF vars, InstallInv, Fit, Given, Special, SideA, SideB, Present
  <1>3. CASE Main
    <2>1. cmd'.phase = "alloc" => cmd'.side = "A"
      BY <1>1, <1>3, MainFacts
    <2>2. cmd'.phase \in {"alloc", "change", "removeBus"}
      BY <1>1, <1>3, MainFacts
    <2> QED BY <2>1, <2>2 DEF InstallInv, Installing
  <1>4. CASE AllocPortNum
    <2>1. cmd.phase = "alloc" /\ UNCHANGED devs
          /\ (cmd'.phase = "idle" \/ (/\ cmd'.phase = "params" /\ cmd'.side = cmd.side
                                      /\ devs[cmd'.at] = 0))
      BY <1>1, <1>4, AllocFacts DEF StoreVars
    <2> QED BY <2>1 DEF InstallInv, Installing
  <1>5. CASE InstallParams
    BY <1>1, <1>5, InstallTurn
  <1>6. CASE SameName
    BY <1>1, <1>6, InstallSame
  <1>7. CASE RegisterDevice \/ SetPortNum \/ UpdateDriver \/ Rollback
    <2>1. CASE cmd'.phase \in {"idle", "labels"}
      BY <2>1, InstallNone DEF Installing
    <2>2. CASE cmd'.phase \notin {"idle", "labels"}
      <3>1. cmd.phase \in Installing /\ cmd'.phase \in Installing /\ cmd'.at = cmd.at
            /\ UNCHANGED param
        BY <1>1, <1>7, <2>2, RegisterFacts, SetPortNumFacts, UpdateDriverFacts, RollbackFacts
        DEF StoreVars, Kept, Installing
      <3>2. \A i \in Pair : i # cmd.at => devs'[i] = devs[i]
        BY <1>1, <1>7, RegisterFacts, SetPortNumFacts, UpdateDriverFacts, RollbackFacts
        DEF StoreVars, TypeOK
      <3>3. Present' \ {cmd.at} \subseteq Present \ {cmd.at}
        BY <3>2 DEF Present
      <3> QED BY <1>1, <3>1, <3>3, InstallKept
    <2> QED BY <2>1, <2>2
  <1>8. CASE \/ InstallLabels \/ Relabel \/ Reclass \/ ChangeDevice \/ SetReal \/ RemoveBus
             \/ DropPort \/ RemovePorts \/ ClaimReal \/ ReleaseReal \/ SyncStart \/ SyncStep
             \/ Crash
    <2>1. cmd'.phase \in {"idle", "sync", "drop", "claim", "relabel", "reclass", "release",
                          "removePorts", "removeBus", "set", "syncing"}
      BY <1>1, <1>8, LabelsFacts, ChangeFacts, SetRealFacts, RemoveBusFacts, DropFacts,
         RemovePortsFacts, ClaimRealFacts, ReleaseRealFacts, SyncStartFacts, SyncStepFacts,
         CrashFacts
    <2> QED BY <2>1, InstallNone DEF Installing
  <1>9. CASE (\E p \in Port : ClassInstall(p)) \/ (\E n \in Num : Others(n))
    <2>1. UNCHANGED <<devs, param, cmd, excused, torn>>
      BY <1>9, ClassInstallFacts, OthersFacts
    <2> QED BY <2>1 DEF InstallInv, Fit, Given, Special, SideA, SideB, Present
  <1> QED BY <1>2, <1>3, <1>4, <1>5, <1>6, <1>7, <1>8, <1>9, NextCases DEF Quiet

----------------------------------------------------------------------------
LEMMA InitInv == Init => IInv
  <1> SUFFICES ASSUME Init PROVE IInv
    OBVIOUS
  <1>1. TypeOK
    <2>1. cmd \in Command
      BY NoCmdFacts DEF Init
    <2>2. CD!TypeOK
      BY DEF Init, CD!Init, CD!TypeOK, CD!Idle, CD!Owner, UsedNames
    <2>3. MaxTwins \in Nat /\ MaxFaults \in Nat
      BY NameAssumption DEF MaxTwins
    <2> QED BY <2>1, <2>2, <2>3 DEF Init, TypeOK, Name
  <1>2. CDP!IInv
    <2>1. CDP!Init
      BY DEF Init, CD!Init, CD!Idle, CDP!Init, CDP!Idle
    <2> QED BY <2>1, CDP!InitInv, NameAssumption
  <1>3. cmd.phase = "idle" /\ sync.pc = "idle" /\ Present = {} /\ blank = 0
        /\ \A p \in Port : real[p] = 0
    BY NoCmdFacts DEF Init, CD!Init, CD!Idle, Present
  <1>4. AtInv /\ SyncInv
    BY <1>3 DEF AtInv, SyncInv
  <1>5. RealInv /\ SettledInv /\ UniqueInv /\ InstallInv /\ WholeInv
    BY <1>3 DEF RealInv, SettledInv, UniqueInv, InstallInv, Installing, WholeInv
  <1> QED BY <1>1, <1>2, <1>4, <1>5 DEF IInv, Types

LEMMA StepInv == IInv /\ [Next]_vars => IInv'
  BY TypesStep, RealStep, SettledStep, UniqueStep, InstallStep, WholeStep DEF IInv

LEMMA Invariance == Spec => []IInv
  BY InitInv, StepInv, PTL DEF Spec

(* The record of the command, the registry and the devices keep their      *)
(* types through every command of setup.cpp, every failure and every crash.*)
THEOREM TypeCorrect == Spec => []TypeOK
  BY Invariance, PTL DEF IInv, Types

(* Between two commands the COM numbers of the installed ports are logged  *)
(* as setup's: install, change and remove all come to ComDbSync.           *)
THEOREM NamesLogged == Spec => []NamesAreLogged
  <1>1. IInv => NamesAreLogged
    <2> SUFFICES ASSUME IInv, Idle, NEW n \in UsedNames \ (excused \cup torn)
                 PROVE  owner[n] = "setup"
      BY DEF NamesAreLogged
    <2>1. PICK p \in Present \X Side : n = param[p] /\ n \in Num
      BY DEF UsedNames
    <2>2. ~Special(p)
      BY <2>1, NameAssumption DEF Special, Default, ComClass
    <2>3. cmd.phase = "idle"
      BY NoCmdFacts DEF Idle
    <2> QED BY <2>1, <2>2, <2>3 DEF IInv, SettledInv, Calm, Added
  <1> QED BY <1>1, Invariance, PTL

(* Two installed ports have different COM numbers: IsValidPortName and the *)
(* question for the same name keep them apart.                             *)
THEOREM NamesUnique == Spec => []NamesAreUnique
  <1>1. IInv => NamesAreUnique
    BY DEF IInv, UniqueInv, NamesAreUnique, Special
  <1> QED BY <1>1, Invariance, PTL

(* The numbers of ports of the Ports class stay claimed, through all of    *)
(* UpdateRealPortName and every sync.                                      *)
THEOREM RealNamesClaimed == Spec => []RealNamesAreClaimed
  <1>1. IInv => RealNamesAreClaimed
    BY NameAssumption DEF IInv, RealInv, Taken, RealNamesAreClaimed
  <1> QED BY <1>1, Invariance, PTL

(* No installation leaves half a device behind, and TryInstallDevice gives *)
(* no pair a second one.                                                   *)
THEOREM WholeDevices == Spec => []DevicesAreWhole
  <1>1. IInv => DevicesAreWhole
    <2> SUFFICES ASSUME IInv, Idle, faults = 0
                 PROVE  blank = 0 /\ \A i \in Present : devs[i] = 1 /\ i \in label
      BY DEF DevicesAreWhole
    <2>1. cmd.phase = "idle"
      BY NoCmdFacts DEF Idle
    <2> QED BY <2>1 DEF IInv, WholeInv, Unlabelled
  <1> QED BY <1>1, Invariance, PTL

----------------------------------------------------------------------------
LEMMA ComDbSpec == Spec => CDP!Spec
  <1>1. Init => CDP!Init
    BY DEF Init, CD!Init, CD!Idle, CDP!Init, CDP!Idle
  <1>2. IInv /\ [Next]_vars => [CDP!Next]_(CDP!vars)
    BY Refines DEF IInv, Types
  <1> QED BY <1>1, <1>2, Invariance, PTL DEF Spec, CDP!Spec

(* The commands of setup implement ComDb: they change the names of ports   *)
(* only between two syncs, and ComDB and the log only as ComDb allows.     *)
THEOREM ImplementsComDb == Spec => NamesFollowComDb
  <1>1. CDP!Init => CD!Init
    BY DEF CD!Init, CD!Idle, CDP!Init, CDP!Idle
  <1>2. CDP!Next => CD!Next
    BY DEF CD!InUse, CDP!InUse, CD!Idle, CDP!Idle, CD!SyncStart, CDP!SyncStart,
       CD!LoadComNames, CDP!LoadComNames, CD!LoadComDbLocal, CDP!LoadComDbLocal,
       CD!Differ, CDP!Differ, CD!At, CDP!At, CD!Rest, CDP!Rest, CD!Claim, CDP!Claim,
       CD!Release, CDP!Release, CD!Refused, CDP!Refused, CD!SaveComDbLocal,
       CDP!SaveComDbLocal, CD!SyncDone, CDP!SyncDone, CD!Crash, CDP!Crash, CD!SyncStep,
       CDP!SyncStep, CD!Rename, CDP!Rename, CD!ClassClaim, CDP!ClassClaim, CD!ClassRelease,
       CDP!ClassRelease, CD!OtherClaim, CDP!OtherClaim, CD!OtherRelease, CDP!OtherRelease,
       CD!Next, CDP!Next
  <1>3. [CDP!Next]_(CDP!vars) => [CD!Next]_(CD!vars)
    BY <1>2 DEF CD!vars, CDP!vars
  <1>4. CDP!Spec => CD!Spec
    BY <1>1, <1>3, PTL DEF CD!Spec, CDP!Spec
  <1> QED BY <1>4, ComDbSpec DEF NamesFollowComDb

(* Hence, whatever the commands do between: the log of setup is exact, a   *)
(* sync takes no number from another program, and when it comes to its end *)
(* ComDB has exactly the names of the installed ports as setup's.          *)
THEOREM SyncInCommands ==
    Spec => []CDP!LogExact /\ CDP!OthersKeepTheirs /\ CDP!SyncAgrees
  BY ComDbSpec, CDP!LogIsExact, CDP!OthersUntouched, CDP!SyncReaches, NameAssumption
----------------------------------------------------------------------------
(* Module PortParams, for any list of parameters, any texts and command    *)
(* lines of any length.  Induction over a text or a line is over the set   *)
(* of the lengths for which a fact holds, and a recursive definition means *)
(* what it says since there is a function of that kind.                    *)
LEMMA Upto ==
    ASSUME NEW n \in Nat, NEW S, 0 \in S, \A i \in 1 .. n : i - 1 \in S => i \in S
    PROVE  \A i \in 0 .. n : i \in S
  <1> DEFINE Bad == {i \in 0 .. n : i \notin S}
  <1>1. ASSUME Bad # {}
        PROVE  FALSE
    <2>1. Bad \in SUBSET Nat
      OBVIOUS
    <2>2. PICK k \in Bad : \A m \in Bad : k <= m
      BY <1>1, <2>1, Least
    <2>3. k # 0
      BY <2>2
    <2>4. k \in 1 .. n /\ k - 1 \in 0 .. n /\ k - 1 \notin Bad
      BY <2>2, <2>3
    <2> QED BY <2>2, <2>4
  <1> QED BY <1>1

Runs(f, n, b, G) == f[0] = b /\ \A i \in 1 .. n : f[i] = G[i][f[i - 1]]

LEMMA Recursion ==
    ASSUME NEW n \in Nat, NEW T, NEW b \in T, NEW G \in [1 .. n -> [T -> T]]
    PROVE  \E f \in [0 .. n -> T] : Runs(f, n, b, G)
  <1> DEFINE S == {k \in 0 .. n : \E f \in [0 .. k -> T] : Runs(f, k, b, G)}
  <1>1. 0 \in S
    <2>1. [i \in 0 .. 0 |-> b] \in [0 .. 0 -> T] /\ Runs([i \in 0 .. 0 |-> b], 0, b, G)
      BY DEF Runs
    <2> QED BY <2>1
  <1>2. ASSUME NEW k \in 1 .. n, k - 1 \in S
        PROVE  k \in S
    <2>1. PICK f \in [0 .. k - 1 -> T] : Runs(f, k - 1, b, G)
      BY <1>2
    <2> DEFINE g == [i \in 0 .. k |-> IF i = k THEN G[k][f[k - 1]] ELSE f[i]]
    <2>2. f[k - 1] \in T
      BY <2>1
    <2>3. g \in [0 .. k -> T]
      BY <2>1, <2>2
    <2>4. ASSUME NEW i \in 1 .. k
          PROVE  g[i] = G[i][g[i - 1]]
      <3>1. g[i - 1] = f[i - 1]
        <4>1. i - 1 \in 0 .. k /\ i - 1 # k
          OBVIOUS
        <4> QED BY <4>1
      <3>2. CASE i = k
        BY <3>1, <3>2
      <3>3. CASE i # k
        BY <2>1, <3>1, <3>3 DEF Runs
      <3> QED BY <3>2, <3>3
    <2>5. Runs(g, k, b, G)
      <3>1. g[0] = b
        BY <2>1 DEF Runs
      <3> HIDE DEF g
      <3> QED BY <2>4, <3>1 DEF Runs
    <2> QED BY <2>3, <2>5
  <1> HIDE DEF S
  <1>3. n \in S
    <2>1. \A k \in 1 .. n : k - 1 \in S => k \in S
      BY <1>2
    <2>2. \A k \in 0 .. n : k \in S
      BY <1>1, <2>1, Upto
    <2> QED BY <2>2
  <1> QED BY <1>3 DEF S

----------------------------------------------------------------------------
(* Numbers and their digits.                                               *)
LEMMA DecimalFacts ==
    ASSUME NEW t \in Seq(Nat)
    PROVE  \E d \in [0 .. Len(t) -> Nat] :
               /\ d[0] = 0 /\ \A i \in 1 .. Len(t) : d[i] = d[i - 1] * 10 + t[i]
               /\ Decimal(t) = d[Len(t)]
  <1> DEFINE len == Len(t)
             Is(f) == f = [i \in 0 .. len |-> IF i = 0 THEN 0 ELSE f[i - 1] * 10 + t[i]]
             d == CHOOSE f : Is(f)
             G == [i \in 1 .. len |-> [x \in Nat |-> x * 10 + t[i]]]
  <1>1. Decimal(t) = d[len]
    BY DEF Decimal
  <1>2. len \in Nat /\ \A i \in 1 .. len : t[i] \in Nat
    OBVIOUS
  <1> HIDE DEF len
  <1>3. G \in [1 .. len -> [Nat -> Nat]]
    BY <1>2
  <1>4. PICK f \in [0 .. len -> Nat] : Runs(f, len, 0, G)
    <2> HIDE DEF G
    <2> QED BY <1>2, <1>3, Recursion
  <1>5. f[0] = 0 /\ \A i \in 1 .. len : f[i] = f[i - 1] * 10 + t[i]
    <2>1. ASSUME NEW i \in 1 .. len
          PROVE  G[i][f[i - 1]] = f[i - 1] * 10 + t[i]
      <3>1. i - 1 \in 0 .. len
        BY <1>2
      <3>2. f[i - 1] \in Nat
        BY <1>4, <3>1
      <3>3. G[i] = [x \in Nat |-> x * 10 + t[i]]
        OBVIOUS
      <3> QED BY <3>2, <3>3
    <2> HIDE DEF G
    <2> QED BY <1>4, <2>1 DEF Runs
  <1>6. Is(f)
    <2>1. \A i \in 0 .. len : f[i] = IF i = 0 THEN 0 ELSE f[i - 1] * 10 + t[i]
      BY <1>2, <1>5
    <2> QED BY <2>1
  <1>7. Is(d)
    <2> HIDE DEF Is
    <2> QED BY <1>6 DEF d
  <1> HIDE DEF d
  <1>8. d[0] = 0 /\ \A i \in 1 .. len : d[i] = d[i - 1] * 10 + t[i]
    BY <1>2, <1>7
  <1>9. \A i \in 0 .. len : i \in {j \in 0 .. len : d[j] \in Nat}
    <2>1. ASSUME NEW i \in 1 .. len, d[i - 1] \in Nat
          PROVE  d[i] \in Nat
      <3>1. \A m, x \in Nat : m * 10 + x \in Nat
        OBVIOUS
      <3>2. t[i] \in Nat /\ d[i] = d[i - 1] * 10 + t[i]
        BY <1>2, <1>8
      <3> QED BY <2>1, <3>1, <3>2
    <2> DEFINE S == {j \in 0 .. len : d[j] \in Nat}
    <2>2. 0 \in S /\ \A i \in 1 .. len : i - 1 \in S => i \in S
      BY <1>2, <1>8, <2>1
    <2> HIDE DEF S
    <2>3. \A i \in 0 .. len : i \in S
      BY <1>2, <2>2, Upto
    <2> QED BY <2>3 DEF S
  <1>10. d \in [0 .. len -> Nat]
    BY <1>7, <1>9
  <1> QED BY <1>1, <1>8, <1>10 DEF len

LEMMA LeftFacts ==
    ASSUME NEW n \in Nat, NEW k \in Nat
    PROVE  \E l \in [0 .. k -> Nat] :
               /\ l[0] = n /\ \A i \in 1 .. k : l[i] = l[i - 1] \div 10
               /\ Left(n, k) = l[k]
  <1> DEFINE Is(f) == f = [i \in 0 .. k |-> IF i = 0 THEN n ELSE f[i - 1] \div 10]
             l == CHOOSE f : Is(f)
             G == [i \in 1 .. k |-> [x \in Nat |-> x \div 10]]
  <1>1. Left(n, k) = l[k]
    BY DEF Left
  <1>2. \A m \in Nat : m \div 10 \in Nat
    OBVIOUS
  <1>3. G \in [1 .. k -> [Nat -> Nat]]
    BY <1>2
  <1>4. PICK f \in [0 .. k -> Nat] : Runs(f, k, n, G)
    <2> HIDE DEF G
    <2> QED BY <1>3, Recursion
  <1>5. f[0] = n /\ \A i \in 1 .. k : f[i] = f[i - 1] \div 10
    <2>1. \A i \in 1 .. k : f[i - 1] \in Nat /\ G[i][f[i - 1]] = f[i - 1] \div 10
      BY <1>4
    <2> HIDE DEF G
    <2> QED BY <1>4, <2>1 DEF Runs
  <1>6. Is(f)
    <2>1. \A i \in 0 .. k : f[i] = IF i = 0 THEN n ELSE f[i - 1] \div 10
      BY <1>5
    <2> QED BY <2>1
  <1>7. Is(l)
    <2> HIDE DEF Is
    <2> QED BY <1>6 DEF l
  <1> HIDE DEF l
  <1>8. l[0] = n /\ \A i \in 1 .. k : l[i] = l[i - 1] \div 10
    BY <1>7
  <1> DEFINE S == {i \in 0 .. k : l[i] \in Nat}
  <1>9. 0 \in S /\ \A i \in 1 .. k : i - 1 \in S => i \in S
    BY <1>2, <1>8
  <1>10. \A i \in 0 .. k : i \in S
    <2> HIDE DEF S
    <2> QED BY <1>9, Upto
  <1>11. l \in [0 .. k -> Nat]
    BY <1>7, <1>10
  <1> QED BY <1>1, <1>8, <1>11

LEMMA LeftStep ==
    ASSUME NEW n \in Nat, NEW k \in Nat
    PROVE  Left(n, k) \in Nat /\ Left(n, 0) = n /\ Left(n, k + 1) = Left(n, k) \div 10
  <1>1. PICK l \in [0 .. k -> Nat] :
            /\ l[0] = n /\ \A i \in 1 .. k : l[i] = l[i - 1] \div 10
            /\ Left(n, k) = l[k]
    BY LeftFacts
  <1>2. PICK m \in [0 .. k + 1 -> Nat] :
            /\ m[0] = n /\ \A i \in 1 .. k + 1 : m[i] = m[i - 1] \div 10
            /\ Left(n, k + 1) = m[k + 1]
    <2>1. k + 1 \in Nat
      OBVIOUS
    <2> QED BY <2>1, LeftFacts
  <1>3. Left(n, 0) = n
    <2>1. 0 \in Nat
      OBVIOUS
    <2> QED BY <2>1, LeftFacts
  <1> DEFINE S == {i \in 0 .. k : l[i] = m[i]}
  <1>4. 0 \in S /\ \A i \in 1 .. k : i - 1 \in S => i \in S
    BY <1>1, <1>2
  <1>5. \A i \in 0 .. k : i \in S
    <2> HIDE DEF S
    <2> QED BY <1>4, Upto
  <1>6. l[k] = m[k] /\ m[k + 1] = m[k] \div 10
    BY <1>2, <1>5
  <1> QED BY <1>1, <1>2, <1>3, <1>6

LEMMA LeftVanishes ==
    ASSUME NEW n \in Nat
    PROVE  Left(n, n + 1) = 0
  <1>1. n + 1 \in Nat
    OBVIOUS
  <1>2. PICK l \in [0 .. n + 1 -> Nat] :
            /\ l[0] = n /\ \A i \in 1 .. n + 1 : l[i] = l[i - 1] \div 10
            /\ Left(n, n + 1) = l[n + 1]
    BY <1>1, LeftFacts
  <1> DEFINE S == {i \in 0 .. n + 1 : l[i] = 0 \/ l[i] <= n - i}
  <1>3. \A m \in Nat : m \div 10 = 0 \/ m \div 10 <= m - 1
    OBVIOUS
  <1>4. ASSUME NEW i \in 1 .. n + 1, i - 1 \in S
        PROVE  i \in S
    <2>1. l[i - 1] \in Nat /\ l[i] \in Nat /\ l[i] = l[i - 1] \div 10
      BY <1>2
    <2>2. l[i] = 0 \/ l[i] <= l[i - 1] - 1
      BY <1>3, <2>1
    <2>3. l[i - 1] = 0 \/ l[i - 1] <= n - (i - 1)
      BY <1>4
    <2> QED BY <2>1, <2>2, <2>3
  <1>5. 0 \in S /\ \A i \in 1 .. n + 1 : i - 1 \in S => i \in S
    BY <1>2, <1>4
  <1>6. \A i \in 0 .. n + 1 : i \in S
    <2> HIDE DEF S
    <2> QED BY <1>1, <1>5, Upto
  <1> QED BY <1>2, <1>6

LEMMA DigitsFacts ==
    ASSUME NEW n \in Nat, NEW k \in Nat
    PROVE  /\ DigitsOf(n, k) \in Seq(0 .. 9) /\ DigitsOf(n, k) \in Seq(Nat)
           /\ Len(DigitsOf(n, k)) = k
           /\ \A i \in 1 .. k : DigitsOf(n, k)[i] = Left(n, k - i) % 10
  <1>1. \A i \in 1 .. k : Left(n, k - i) % 10 \in 0 .. 9
    <2>1. \A m \in Nat : m % 10 \in 0 .. 9
      OBVIOUS
    <2>2. \A i \in 1 .. k : k - i \in Nat
      OBVIOUS
    <2> QED BY <2>1, <2>2, LeftStep
  <1> QED BY <1>1 DEF DigitsOf

LEMMA DecimalOfDigits ==
    ASSUME NEW n \in Nat, NEW k \in Nat, Left(n, k) = 0
    PROVE  Decimal(DigitsOf(n, k)) = n
  <1>1. PICK d \in [0 .. k -> Nat] :
            /\ d[0] = 0 /\ \A i \in 1 .. k : d[i] = d[i - 1] * 10 + (Left(n, k - i) % 10)
            /\ Decimal(DigitsOf(n, k)) = d[k]
    <2> DEFINE t == DigitsOf(n, k)
    <2>1. /\ t \in Seq(Nat) /\ Len(t) = k
          /\ \A i \in 1 .. k : t[i] = Left(n, k - i) % 10
      BY DigitsFacts
    <2> HIDE DEF t
    <2>2. PICK d \in [0 .. Len(t) -> Nat] :
              /\ d[0] = 0 /\ \A i \in 1 .. Len(t) : d[i] = d[i - 1] * 10 + t[i]
              /\ Decimal(t) = d[Len(t)]
      BY <2>1, DecimalFacts
    <2> QED BY <2>1, <2>2 DEF t
  <1> DEFINE S == {i \in 0 .. k : d[i] = Left(n, k - i)}
  <1>2. \A m \in Nat : m = (m \div 10) * 10 + (m % 10)
    OBVIOUS
  <1>3. ASSUME NEW i \in 1 .. k, i - 1 \in S
        PROVE  i \in S
    <2>1. k - i \in Nat /\ k - (i - 1) = (k - i) + 1
      OBVIOUS
    <2>2. Left(n, k - i) \in Nat /\ Left(n, k - (i - 1)) = Left(n, k - i) \div 10
      <3> DEFINE j == k - i
      <3>1. j \in Nat /\ k - (i - 1) = j + 1
        BY <2>1
      <3> HIDE DEF j
      <3>2. Left(n, j) \in Nat /\ Left(n, j + 1) = Left(n, j) \div 10
        BY <3>1, LeftStep
      <3> QED BY <3>1, <3>2 DEF j
    <2>3. d[i] = (Left(n, k - i) \div 10) * 10 + (Left(n, k - i) % 10)
      BY <1>1, <1>3, <2>2
    <2> QED BY <1>2, <2>2, <2>3
  <1>4. 0 \in S /\ \A i \in 1 .. k : i - 1 \in S => i \in S
    BY <1>1, <1>3
  <1>5. \A i \in 0 .. k : i \in S
    <2> HIDE DEF S
    <2> QED BY <1>4, Upto
  <1>6. d[k] = Left(n, k - k) /\ k - k = 0
    BY <1>5
  <1> QED BY <1>1, <1>6, LeftStep

LEMMA LeftOfDecimal ==
    ASSUME NEW t \in Seq(0 .. 9)
    PROVE  Decimal(t) \in Nat /\ Left(Decimal(t), Len(t)) = 0
  <1>1. t \in Seq(Nat) /\ Len(t) \in Nat /\ \A i \in 1 .. Len(t) : t[i] \in 0 .. 9
    OBVIOUS
  <1>2. PICK d \in [0 .. Len(t) -> Nat] :
            /\ d[0] = 0 /\ \A i \in 1 .. Len(t) : d[i] = d[i - 1] * 10 + t[i]
            /\ Decimal(t) = d[Len(t)]
    BY <1>1, DecimalFacts
  <1>3. Decimal(t) \in Nat
    BY <1>1, <1>2
  <1>4. PICK l \in [0 .. Len(t) -> Nat] :
            /\ l[0] = Decimal(t) /\ \A i \in 1 .. Len(t) : l[i] = l[i - 1] \div 10
            /\ Left(Decimal(t), Len(t)) = l[Len(t)]
    BY <1>1, <1>3, LeftFacts
  <1> DEFINE k == Len(t)
             S == {j \in 0 .. k : l[j] = d[k - j]}
  <1>5. \A m \in Nat, x \in 0 .. 9 : (m * 10 + x) \div 10 = m
    OBVIOUS
  <1>6. ASSUME NEW j \in 1 .. k, j - 1 \in S
        PROVE  j \in S
    <2>1. k - j \in 0 .. k /\ k - j + 1 \in 1 .. k /\ k - (j - 1) = k - j + 1
      BY <1>1
    <2>2. d[k - j] \in Nat /\ t[k - j + 1] \in 0 .. 9
      BY <1>1, <1>2, <2>1
    <2>3. d[k - j + 1] = d[(k - j + 1) - 1] * 10 + t[k - j + 1]
      BY <1>2, <2>1
    <2>4. (k - j + 1) - 1 = k - j
      BY <2>1
    <2>5. l[j - 1] = d[k - j] * 10 + t[k - j + 1]
      BY <1>6, <2>1, <2>3, <2>4
    <2>6. l[j] = l[j - 1] \div 10
      BY <1>4
    <2>7. l[j] = d[k - j]
      BY <1>5, <2>2, <2>5, <2>6
    <2> QED BY <2>7
  <1>7. 0 \in S /\ \A j \in 1 .. k : j - 1 \in S => j \in S
    BY <1>1, <1>2, <1>4, <1>6
  <1>8. \A j \in 0 .. k : j \in S
    <2> HIDE DEF S
    <2> QED BY <1>1, <1>7, Upto
  <1>9. l[k] = d[0]
    BY <1>1, <1>8
  <1> QED BY <1>2, <1>3, <1>4, <1>9

(* A listed number is read as it was.                                      *)
LEMMA UnsignedText ==
    ASSUME NEW n \in Nat
    PROVE  Decimal(FillUnsigned(n)) = n
  <1> DEFINE S == {l \in 1 .. n + 1 : Left(n, l) = 0}
             Width(l) == Left(n, l) = 0 /\ (l > 1 => Left(n, l - 1) # 0)
             k == CHOOSE l \in 1 .. n + 1 : Width(l)
  <1>1. \E l \in 1 .. n + 1 : Width(l)
    <2>1. S \in SUBSET Nat /\ n + 1 \in S
      BY LeftVanishes
    <2>2. PICK l \in S : \A m \in S : l <= m
      BY <2>1, Least
    <2>3. l > 1 => l - 1 \notin S /\ l - 1 \in 1 .. n + 1
      BY <2>2
    <2> QED BY <2>2, <2>3
  <1>2. k \in 1 .. n + 1 /\ Left(n, k) = 0
    BY <1>1
  <1>3. FillUnsigned(n) = DigitsOf(n, k)
    BY DEF FillUnsigned
  <1> HIDE DEF k
  <1> QED BY <1>2, <1>3, DecimalOfDigits

LEMMA ProbabilityText ==
    ASSUME NEW n \in Nat, Left(n, Digits) = 0
    PROVE  SetProbability(FillProbability(n)) = n
  <1> DEFINE all == DigitsOf(n, Digits)
             Zeros(l) == \A i \in l + 1 .. Digits : all[i] = 0
             S == {l \in 0 .. Digits : Zeros(l)}
             last == CHOOSE l \in 0 .. Digits : Zeros(l) /\ (l > 0 => all[l] # 0)
             t == SubSeq(all, 1, last)
  <1>1. Digits \in Nat
    BY ParamsAssumption
  <1>2. all \in Seq(Nat) /\ Len(all) = Digits
    BY <1>1, DigitsFacts
  <1> HIDE DEF all
  <1>3. \E l \in 0 .. Digits : Zeros(l) /\ (l > 0 => all[l] # 0)
    <2>1. S \in SUBSET Nat /\ Digits \in S
      BY <1>1
    <2>2. PICK l \in S : \A m \in S : l <= m
      <3> HIDE DEF S
      <3> QED BY <2>1, Least
    <2>3. ASSUME l > 0
          PROVE  all[l] # 0
      <3>1. l - 1 \in 0 .. Digits /\ l - 1 \notin S
        BY <1>1, <2>2, <2>3
      <3>2. PICK i \in l - 1 + 1 .. Digits : all[i] # 0
        BY <3>1
      <3>3. i \notin l + 1 .. Digits
        BY <2>2, <3>2
      <3>4. i = l
        BY <1>1, <2>2, <3>2, <3>3
      <3> QED BY <3>2, <3>4
    <2> QED BY <2>2, <2>3
  <1>4. last \in 0 .. Digits /\ Zeros(last)
    BY <1>3
  <1>5. FillProbability(n) = t
    BY DEF FillProbability, all
  <1> HIDE DEF last
  <1>6. Len(t) = last /\ \A i \in 1 .. last : t[i] = all[i]
    BY <1>1, <1>2, <1>4
  <1> DEFINE d == [i \in 1 .. Digits |-> IF i <= Len(t) THEN t[i] ELSE 0]
  <1> HIDE DEF t
  <1>7. SetProbability(t) = Decimal(d)
    <2>1. Digits + 1 .. Len(t) = {}
      BY <1>1, <1>4, <1>6
    <2> QED BY <2>1 DEF SetProbability
  <1>8. d = all
    <2>1. ASSUME NEW i \in 1 .. Digits
          PROVE  d[i] = all[i]
      <3>1. CASE i <= last
        BY <1>6, <3>1
      <3>2. CASE ~ (i <= last)
        BY <1>1, <1>4, <1>6, <3>2
      <3> QED BY <3>1, <3>2
    <2>2. d \in Seq(Nat) /\ Len(d) = Digits
      BY <1>1, <1>2, <2>1
    <2> QED BY <1>2, <2>1, <2>2
  <1>9. Decimal(all) = n
    BY <1>1, DecimalOfDigits DEF all
  <1> QED BY <1>5, <1>7, <1>8, <1>9

----------------------------------------------------------------------------
(* The values a parameter can have, each of which can be listed and read.  *)
Valid(p) ==
    CASE Type[p] = "name" -> Nat
      [] Type[p] = "flag" -> {0, 1}
      [] Type[p] = "pin" -> {v \in Nat : v % PinNegative \in 1 .. 11}
      [] Type[p] = "probability" -> {v \in Nat : Left(v, Digits) = 0}
      [] Type[p] = "unsigned" -> 0 .. Dword - 1

LEMMA ParTypes ==
    /\ Digits \in Nat /\ Dword \in Nat \ {0} /\ Absent = -1 /\ PinNegative = 32
    /\ \A p \in Pars : Type[p] \in {"name", "flag", "pin", "probability", "unsigned"}
  BY ParamsAssumption DEF Absent, PinNegative

(* What a setter accepts is a value.                                       *)
LEMMA ValueFacts ==
    ASSUME NEW p \in Pars, NEW t \in Text[p]
    PROVE  Value(p, t) \in Valid(p) \cup {Absent}
  <1>1. t \in Seq(Nat) /\ \A i \in 1 .. Len(t) : t[i] \in Nat
    BY ParamsAssumption
  <1>2. CASE Type[p] = "flag"
    BY <1>2 DEF Value, Valid, SetFlag
  <1>3. CASE Type[p] = "pin"
    <2>1. Value(p, t) = SetPin(t)
      BY <1>3 DEF Value
    <2>2. t[1] \in Nat
      <3>1. Len(t) = 2
        BY <1>3, ParamsAssumption
      <3> QED BY <1>1, <3>1
    <2>3. \A x \in 1 .. 11, m \in Nat : (x + 32 * m) % 32 = x /\ x + 32 * m \in Nat
      OBVIOUS
    <2>4. CASE t[2] \in 1 .. 11
      <3>1. SetPin(t) = t[2] + 32 * t[1]
        BY <2>4, ParTypes DEF SetPin
      <3>2. SetPin(t) \in Nat /\ SetPin(t) % 32 = t[2]
        BY <2>2, <2>3, <2>4, <3>1
      <3>3. Valid(p) = {v \in Nat : v % 32 \in 1 .. 11}
        BY <1>3, ParTypes DEF Valid
      <3> QED BY <2>1, <2>4, <3>2, <3>3
    <2>5. CASE t[2] \notin 1 .. 11
      BY <2>1, <2>5 DEF SetPin
    <2> QED BY <2>4, <2>5
  <1>4. CASE Type[p] = "probability"
    <2> DEFINE d == [i \in 1 .. Digits |-> IF i <= Len(t) THEN t[i] ELSE 0]
    <2>1. Value(p, t) \in {Absent, Decimal(d)}
      BY <1>4 DEF Value, SetProbability
    <2>2. t \in Seq(0 .. 9)
      BY <1>4, ParamsAssumption
    <2>3. d \in Seq(0 .. 9) /\ Len(d) = Digits
      BY <2>2, ParTypes
    <2> HIDE DEF d
    <2>4. Decimal(d) \in Nat /\ Left(Decimal(d), Digits) = 0
      BY <2>3, LeftOfDecimal
    <2> QED BY <1>4, <2>1, <2>4 DEF Valid
  <1>5. CASE Type[p] = "unsigned"
    <2>1. Value(p, t) = Decimal(t) % Dword
      BY <1>5 DEF Value, SetUnsigned
    <2>2. Decimal(t) \in Nat
      <3>1. t \in Seq(0 .. 9)
        BY <1>5, ParamsAssumption
      <3> QED BY <3>1, LeftOfDecimal
    <2>3. Decimal(t) % Dword \in 0 .. Dword - 1
      BY <2>2, ParTypes
    <2> QED BY <1>5, <2>1, <2>3 DEF Valid
  <1>6. CASE Type[p] = "name"
    <2>1. Len(t) = 1
      BY <1>6, ParamsAssumption
    <2> QED BY <1>1, <1>6, <2>1 DEF Value, Valid
  <1> QED BY <1>2, <1>3, <1>4, <1>5, <1>6, ParTypes

LEMMA LeftOfZero == \A k \in Nat : Left(0, k) = 0
  <1> SUFFICES ASSUME NEW k \in Nat
               PROVE  Left(0, k) = 0
    OBVIOUS
  <1>1. PICK l \in [0 .. k -> Nat] :
            /\ l[0] = 0 /\ \A i \in 1 .. k : l[i] = l[i - 1] \div 10
            /\ Left(0, k) = l[k]
    BY LeftFacts
  <1> DEFINE S == {i \in 0 .. k : l[i] = 0}
  <1>2. 0 \in S /\ \A i \in 1 .. k : i - 1 \in S => i \in S
    BY <1>1
  <1>3. \A i \in 0 .. k : i \in S
    <2> HIDE DEF S
    <2> QED BY <1>2, Upto
  <1> QED BY <1>1, <1>3

(* The default is a value, and the zero that stands for an absent value is *)
(* a value only where it is the default.                                   *)
LEMMA DefaultFacts ==
    ASSUME NEW p \in Pars
    PROVE  /\ Valid(p) \subseteq Nat /\ Absent \notin Valid(p) /\ Zero(p) \in Int
           /\ DriverDefault(p) \in Valid(p)
           /\ Zero(p) \in Valid(p) => Zero(p) = DriverDefault(p)
  <1>1. CASE Type[p] = "pin"
    <2>1. Zero(p) = 0 /\ DriverDefault(p) = PinDefault[p]
      BY <1>1 DEF Zero, DriverDefault
    <2>2. Valid(p) = {v \in Nat : v % 32 \in 1 .. 11}
      BY <1>1, ParTypes DEF Valid
    <2>3. PinDefault[p] \in Nat /\ PinDefault[p] % 32 \in 1 .. 11
      BY <1>1, ParamsAssumption, ParTypes
    <2>4. 0 % 32 = 0
      OBVIOUS
    <2> QED BY <2>1, <2>2, <2>3, <2>4, ParTypes
  <1>2. CASE Type[p] = "name"
    BY <1>2, ParTypes DEF Valid, Zero, DriverDefault
  <1>3. CASE Type[p] \in {"flag", "unsigned"}
    BY <1>3, ParTypes DEF Valid, Zero, DriverDefault
  <1>4. CASE Type[p] = "probability"
    BY <1>4, ParTypes, LeftOfZero DEF Valid, Zero, DriverDefault
  <1> QED BY <1>1, <1>2, <1>3, <1>4, ParTypes

(* A value that is listed is read as it was.                               *)
LEMMA TextFacts ==
    ASSUME NEW p \in Pars, NEW v \in Valid(p)
    PROVE  Value(p, FillText(p, v)) = v
  <1>1. CASE Type[p] = "pin"
    <2>1. v \in Nat /\ v % 32 \in 1 .. 11
      BY <1>1, ParTypes DEF Valid
    <2> DEFINE t == <<v \div 32, v % 32>>
    <2>2. FillText(p, v) = t
      BY <1>1, ParTypes DEF FillText
    <2>3. Value(p, t) = SetPin(t)
      BY <1>1 DEF Value
    <2>4. SetPin(t) = (v % 32) + 32 * (v \div 32)
      BY <2>1, ParTypes DEF SetPin
    <2>5. v = (v % 32) + 32 * (v \div 32)
      BY <2>1
    <2> QED BY <2>2, <2>3, <2>4, <2>5
  <1>2. CASE Type[p] = "probability"
    <2>1. v \in Nat /\ Left(v, Digits) = 0
      BY <1>2 DEF Valid
    <2>2. FillText(p, v) = FillProbability(v)
      BY <1>2 DEF FillText
    <2>3. Value(p, FillText(p, v)) = SetProbability(FillProbability(v))
      BY <1>2, <2>2 DEF Value
    <2> QED BY <2>1, <2>3, ProbabilityText
  <1>3. CASE Type[p] = "unsigned"
    <2>1. v \in Nat /\ v < Dword
      BY <1>3, ParTypes DEF Valid
    <2>2. FillText(p, v) = FillUnsigned(v)
      BY <1>3 DEF FillText
    <2>3. Value(p, FillText(p, v)) = Decimal(FillUnsigned(v)) % Dword
      BY <1>3, <2>2 DEF Value, SetUnsigned
    <2>4. v % Dword = v
      BY <2>1, ParTypes
    <2> QED BY <2>1, <2>3, <2>4, UnsignedText
  <1>4. CASE Type[p] = "name"
    <2>1. FillText(p, v) = <<v>>
      BY <1>4 DEF FillText
    <2> QED BY <1>4, <2>1 DEF Value
  <1>5. CASE Type[p] = "flag"
    <2>1. FillText(p, v) = <<v>> /\ v \in {0, 1}
      BY <1>5 DEF FillText, Valid
    <2>2. Value(p, <<v>>) = SetFlag(<<v>>)
      BY <1>5 DEF Value
    <2> QED BY <2>1, <2>2 DEF SetFlag
  <1> QED BY <1>1, <1>2, <1>3, <1>4, <1>5, ParTypes

----------------------------------------------------------------------------
(* The object.  A parameter that is not marked as changed is as it was     *)
(* loaded, so what it holds when it is not explicit is the zero.           *)
Object == [val : [Pars -> Int], explicit : SUBSET Pars, changed : SUBSET Pars,
           ok : BOOLEAN]
Used(o, p) == IF p \in o.explicit THEN o.val[p] ELSE DriverDefault(p)
Agrees(o, r, p) ==
    /\ p \in o.explicit => o.val[p] \in Valid(p)
    /\ p \notin o.changed =>
          /\ p \in o.explicit <=> r[p] # Absent
          /\ o.val[p] = IF r[p] = Absent THEN Zero(p) ELSE r[p]
Registry == {r \in [Pars -> Int] : \A p \in Pars : r[p] = Absent \/ r[p] \in Valid(p)}

(* An item of a command line, or of a list, and what it asks for.          *)
Proper(it) ==
    /\ it.par \in Pars /\ it.how \in {"set", "*", "-"}
    /\ it.how = "set" => Value(it.par, it.text) \in Valid(it.par) \cup {Absent}
Answer(it) == IF it.how = "-" THEN DriverDefault(it.par) ELSE Value(it.par, it.text)
Accepted(it) == it.how = "set" => Value(it.par, it.text) # Absent

LEMMA ItemFacts ==
    ASSUME NEW it \in Item
    PROVE  Proper(it)
  <1>1. \/ it \in [par : Pars, how : {"*", "-"}, text : {<<0>>}]
        \/ \E p \in Pars : it \in [par : {p}, how : {"set"}, text : Text[p]]
    BY DEF Item
  <1>2. CASE it \in [par : Pars, how : {"*", "-"}, text : {<<0>>}]
    BY <1>2 DEF Proper
  <1>3. CASE \E p \in Pars : it \in [par : {p}, how : {"set"}, text : Text[p]]
    BY <1>3, ValueFacts DEF Proper
  <1> QED BY <1>1, <1>2, <1>3

(* One item: it leaves the other parameters alone, and its own is then in  *)
(* use as it says, although a value may not have been marked as given.     *)
LEMMA SetBitStep ==
    ASSUME NEW o \in Object, NEW it, Proper(it), NEW r
    PROVE  LET n == SetBit(o, it) IN
           /\ n \in Object
           /\ n.ok => o.ok
           /\ o.ok /\ Accepted(it) => n.ok
           /\ n.ok => \A p \in Pars : Agrees(o, r, p) =>
                 /\ Agrees(n, r, p)
                 /\ Used(n, p) = IF it.par = p /\ it.how # "*" THEN Answer(it) ELSE Used(o, p)
  <1> DEFINE n == SetBit(o, it)
             p == it.par
             v == Value(p, it.text)
             Good == /\ n \in Object
                     /\ n.ok => o.ok
                     /\ o.ok /\ Accepted(it) => n.ok
                     /\ n.ok => \A q \in Pars : Agrees(o, r, q) =>
                           /\ Agrees(n, r, q)
                           /\ Used(n, q) = IF it.par = q /\ it.how # "*" THEN Answer(it)
                                           ELSE Used(o, q)
  <1> SUFFICES Good
    OBVIOUS
  <1>1. p \in Pars /\ it.how \in {"set", "*", "-"}
    BY DEF Proper
  <1>2. CASE ~o.ok \/ it.how = "*"
    <2>1. n = o
      BY <1>2 DEF SetBit
    <2>2. n.ok => it.how = "*"
      BY <1>2, <2>1
    <2> QED BY <2>1, <2>2
  <1>3. CASE o.ok /\ it.how = "-"
    <2>1. n = [o EXCEPT !.changed = IF p \in o.explicit THEN @ \cup {p} ELSE @,
                        !.explicit = @ \ {p}]
      BY <1>3 DEF SetBit
    <2>2. n = [val |-> o.val, ok |-> o.ok, explicit |-> o.explicit \ {p},
               changed |-> IF p \in o.explicit THEN o.changed \cup {p} ELSE o.changed]
      BY <2>1 DEF Object
    <2>3. n \in Object
      BY <1>1, <2>2 DEF Object
    <2>4. ASSUME NEW q \in Pars, Agrees(o, r, q)
          PROVE  /\ Agrees(n, r, q)
                 /\ Used(n, q) = IF p = q THEN DriverDefault(p) ELSE Used(o, q)
      BY <1>1, <2>2, <2>4 DEF Agrees, Used
    <2>5. n.ok /\ it.how = "-" /\ Answer(it) = DriverDefault(p)
      BY <1>3, <2>2 DEF Answer
    <2> HIDE DEF n
    <2> QED BY <1>3, <2>3, <2>4, <2>5
  <1>4. CASE o.ok /\ it.how = "set" /\ v = Absent
    <2>1. n = [o EXCEPT !.ok = FALSE]
      BY <1>4 DEF SetBit
    <2>2. n \in Object /\ ~n.ok
      BY <2>1 DEF Object
    <2> QED BY <1>4, <2>2 DEF Accepted
  <1>5. CASE o.ok /\ it.how = "set" /\ v # Absent
    <2> DEFINE c == IF v # o.val[p] THEN o.changed \cup {p} ELSE o.changed
    <2>1. n = Give(o, p, v)
      BY <1>5 DEF SetBit
    <2>2. n = [val |-> [o.val EXCEPT ![p] = v], ok |-> o.ok, changed |-> c,
               explicit |-> IF p \in c THEN o.explicit \cup {p} ELSE o.explicit]
      BY <2>1 DEF Give, Object
    <2>3. v \in Valid(p) /\ v \in Int /\ (v = Zero(p) => v = DriverDefault(p))
      BY <1>1, <1>5, DefaultFacts DEF Proper
    <2> HIDE DEF v
    <2>4. n \in Object
      BY <1>1, <2>2, <2>3 DEF Object
    <2>5. ASSUME NEW q \in Pars, Agrees(o, r, q), q # p
          PROVE  Agrees(n, r, q) /\ Used(n, q) = Used(o, q)
      BY <1>1, <2>2, <2>5 DEF Agrees, Used, Object
    <2>6. ASSUME Agrees(o, r, p)
          PROVE  Agrees(n, r, p) /\ Used(n, p) = v
      <3>1. n.val[p] = v
        BY <1>1, <2>2 DEF Object
      <3>2. CASE p \in c
        <4>1. p \in n.explicit /\ p \in n.changed
          BY <2>2, <3>2
        <4> QED BY <2>3, <3>1, <4>1 DEF Agrees, Used
      <3>3. CASE p \notin c
        <4>1. v = o.val[p] /\ n.explicit = o.explicit /\ n.changed = o.changed /\ p \notin o.changed
          BY <2>2, <3>3
        <4> QED BY <1>1, <2>3, <2>6, <3>1, <4>1 DEF Agrees, Used
      <3> QED BY <3>2, <3>3
    <2>7. Answer(it) = v
      BY <1>5 DEF Answer, v
    <2>8. n.ok /\ it.how = "set"
      BY <1>5, <2>2
    <2> HIDE DEF n
    <2>9. ASSUME NEW q \in Pars, Agrees(o, r, q)
          PROVE  /\ Agrees(n, r, q)
                 /\ Used(n, q) = IF p = q THEN Answer(it) ELSE Used(o, q)
      <3>1. CASE q = p
        BY <2>6, <2>7, <2>9, <3>1
      <3>2. CASE q # p
        BY <2>5, <2>9, <3>2
      <3> QED BY <3>1, <3>2
    <2> QED BY <1>5, <2>4, <2>8, <2>9
  <1> QED BY <1>1, <1>2, <1>3, <1>4, <1>5

(* A command line, item by item.                                           *)
Line(items) == Len(items) \in Nat /\ \A i \in 1 .. Len(items) : Proper(items[i])

LEMMA ParseRuns ==
    ASSUME NEW o \in Object, NEW items, Line(items)
    PROVE  \E f \in [0 .. Len(items) -> Object] :
               /\ f[0] = o /\ \A i \in 1 .. Len(items) : f[i] = SetBit(f[i - 1], items[i])
               /\ SetBits(o, items) = f[Len(items)]
  <1> DEFINE len == Len(items)
             Is(f) == f = [i \in 0 .. len |-> IF i = 0 THEN o ELSE SetBit(f[i - 1], items[i])]
             g == CHOOSE f : Is(f)
             G == [i \in 1 .. len |-> [x \in Object |-> SetBit(x, items[i])]]
  <1>1. SetBits(o, items) = g[len]
    BY DEF SetBits
  <1>2. len \in Nat /\ \A i \in 1 .. len : Proper(items[i])
    BY DEF Line
  <1> HIDE DEF len
  <1>3. G \in [1 .. len -> [Object -> Object]]
    <2>1. \A i \in 1 .. len, x \in Object : SetBit(x, items[i]) \in Object
      BY <1>2, SetBitStep
    <2> QED BY <2>1
  <1>4. PICK f \in [0 .. len -> Object] : Runs(f, len, o, G)
    <2> HIDE DEF G
    <2> QED BY <1>2, <1>3, Recursion
  <1>5. f[0] = o /\ \A i \in 1 .. len : f[i] = SetBit(f[i - 1], items[i])
    <2>1. ASSUME NEW i \in 1 .. len
          PROVE  G[i][f[i - 1]] = SetBit(f[i - 1], items[i])
      <3>1. i - 1 \in 0 .. len
        BY <1>2
      <3>2. f[i - 1] \in Object
        BY <1>4, <3>1
      <3>3. G[i] = [x \in Object |-> SetBit(x, items[i])]
        OBVIOUS
      <3> QED BY <3>2, <3>3
    <2> HIDE DEF G
    <2> QED BY <1>4, <2>1 DEF Runs
  <1>6. Is(f)
    <2>1. \A i \in 0 .. len : f[i] = IF i = 0 THEN o ELSE SetBit(f[i - 1], items[i])
      BY <1>2, <1>5
    <2> QED BY <2>1
  <1>7. Is(g)
    <2> HIDE DEF Is
    <2> QED BY <1>6 DEF g
  <1> HIDE DEF g
  <1>8. g[0] = o /\ \A i \in 1 .. len : g[i] = SetBit(g[i - 1], items[i])
    BY <1>2, <1>7
  <1> DEFINE S == {i \in 0 .. len : g[i] \in Object}
  <1>12. ASSUME NEW i \in 1 .. len, g[i - 1] \in Object
         PROVE  g[i] \in Object
    <2>1. Proper(items[i]) /\ g[i] = SetBit(g[i - 1], items[i])
      BY <1>2, <1>8
    <2> QED BY <1>12, <2>1, SetBitStep
  <1>9. 0 \in S /\ \A i \in 1 .. len : i - 1 \in S => i \in S
    BY <1>2, <1>8, <1>12
  <1>10. \A i \in 0 .. len : i \in S
    <2> HIDE DEF S
    <2> QED BY <1>2, <1>9, Upto
  <1>11. g \in [0 .. len -> Object]
    BY <1>7, <1>10
  <1> QED BY <1>1, <1>8, <1>11 DEF len

(* What has been said of p by the first n items, and what is then in use.  *)
Said(items, n, p) == {i \in 1 .. n : items[i].par = p /\ items[i].how # "*"}
AsSaid(o, items, n, r, p) ==
    /\ Said(items, n, p) = {} => Used(o, p) = InUse(r)[p]
    /\ \A i \in Said(items, n, p) :
          (\A j \in Said(items, n, p) : j <= i) => Used(o, p) = Answer(items[i])

LEMMA SaidStep ==
    ASSUME NEW items, NEW n \in 1 .. Len(items), Len(items) \in Nat, NEW p,
           NEW o, NEW m, NEW r, AsSaid(o, items, n - 1, r, p),
           Used(m, p) = IF items[n].par = p /\ items[n].how # "*" THEN Answer(items[n])
                        ELSE Used(o, p)
    PROVE  AsSaid(m, items, n, r, p)
  <1>1. CASE items[n].par = p /\ items[n].how # "*"
    <2>1. n \in Said(items, n, p) /\ \A i \in Said(items, n, p) : i <= n
      BY <1>1 DEF Said
    <2>2. ASSUME NEW i \in Said(items, n, p), \A j \in Said(items, n, p) : j <= i
          PROVE  i = n
      BY <2>1, <2>2 DEF Said
    <2> QED BY <1>1, <2>1, <2>2 DEF AsSaid
  <1>2. CASE ~ (items[n].par = p /\ items[n].how # "*")
    <2>1. Said(items, n, p) = Said(items, n - 1, p)
      BY <1>2 DEF Said
    <2> QED BY <1>2, <2>1 DEF AsSaid
  <1> QED BY <1>1, <1>2

LEMMA LoadFacts ==
    ASSUME NEW r \in Registry
    PROVE  /\ Load(r) \in Object /\ Load(r).ok
           /\ \A p \in Pars : Agrees(Load(r), r, p) /\ Used(Load(r), p) = InUse(r)[p]
  <1>1. r \in [Pars -> Int] /\ \A p \in Pars : r[p] # Absent => r[p] \in Valid(p)
    BY DEF Registry
  <1> QED BY <1>1, DefaultFacts DEF Load, InUse, Object, Agrees, Used

(* ParseParametersStr, for a command line of any length.                   *)
LEMMA ParseFacts ==
    ASSUME NEW r \in Registry, NEW items, Line(items)
    PROVE  LET o == SetBits(Load(r), items) IN
           /\ o \in Object
           /\ (\A i \in 1 .. Len(items) : Accepted(items[i])) => o.ok
           /\ o.ok => \A p \in Pars : Agrees(o, r, p) /\ AsSaid(o, items, Len(items), r, p)
  <1> DEFINE len == Len(items)
  <1>1. len \in Nat /\ \A i \in 1 .. len : Proper(items[i])
    BY DEF Line
  <1>2. PICK f \in [0 .. len -> Object] :
            /\ f[0] = Load(r) /\ \A i \in 1 .. len : f[i] = SetBit(f[i - 1], items[i])
            /\ SetBits(Load(r), items) = f[len]
    BY LoadFacts, ParseRuns
  <1> HIDE DEF len
  <1> DEFINE Good(i) ==
                 /\ (\A j \in 1 .. i : Accepted(items[j])) => f[i].ok
                 /\ f[i].ok => \A p \in Pars : Agrees(f[i], r, p)
                                                /\ AsSaid(f[i], items, i, r, p)
             S == {i \in 0 .. len : Good(i)}
  <1>3. Good(0)
    <2>1. \A p \in Pars : Said(items, 0, p) = {}
      BY DEF Said
    <2> QED BY <1>2, <2>1, LoadFacts DEF AsSaid
  <1>4. ASSUME NEW i \in 1 .. len, Good(i - 1)
        PROVE  Good(i)
    <2>1. f[i] = SetBit(f[i - 1], items[i]) /\ Proper(items[i]) /\ f[i - 1] \in Object
      BY <1>1, <1>2
    <2>2. /\ f[i].ok => f[i - 1].ok
          /\ f[i - 1].ok /\ Accepted(items[i]) => f[i].ok
          /\ f[i].ok => \A p \in Pars : Agrees(f[i - 1], r, p) =>
                /\ Agrees(f[i], r, p)
                /\ Used(f[i], p) = IF items[i].par = p /\ items[i].how # "*"
                                   THEN Answer(items[i]) ELSE Used(f[i - 1], p)
      BY <2>1, SetBitStep
    <2>3. ASSUME f[i].ok, NEW p \in Pars
          PROVE  Agrees(f[i], r, p) /\ AsSaid(f[i], items, i, r, p)
      <3>1. Agrees(f[i - 1], r, p) /\ AsSaid(f[i - 1], items, i - 1, r, p)
        BY <1>4, <2>2, <2>3
      <3>2. /\ Agrees(f[i], r, p)
            /\ Used(f[i], p) = IF items[i].par = p /\ items[i].how # "*"
                               THEN Answer(items[i]) ELSE Used(f[i - 1], p)
        BY <2>2, <2>3, <3>1
      <3> QED BY <1>1, <3>1, <3>2, SaidStep DEF len
    <2>4. (\A j \in 1 .. i : Accepted(items[j])) => f[i].ok
      <3>1. SUFFICES ASSUME \A j \in 1 .. i : Accepted(items[j])
                     PROVE  f[i].ok
        OBVIOUS
      <3>2. Accepted(items[i]) /\ \A j \in 1 .. i - 1 : Accepted(items[j])
        BY <3>1
      <3> QED BY <1>4, <2>2, <3>2
    <2> QED BY <2>3, <2>4
  <1> HIDE DEF Good
  <1>5. 0 \in S /\ \A i \in 1 .. len : i - 1 \in S => i \in S
    BY <1>1, <1>3, <1>4
  <1>6. \A i \in 0 .. len : i \in S
    <2> HIDE DEF S
    <2> QED BY <1>1, <1>5, Upto
  <1>7. Good(len) /\ f[len] \in Object
    BY <1>1, <1>2, <1>6
  <1> QED BY <1>2, <1>7 DEF Good, len

LEMMA Greatest ==
    ASSUME NEW n \in Nat, NEW S \in SUBSET (1 .. n), S # {}
    PROVE  \E i \in S : \A j \in S : j <= i
  <1> DEFINE R == {n - i : i \in S}
  <1>1. R \in SUBSET Nat /\ R # {}
    <2>1. \A i \in S : i \in 1 .. n /\ n - i \in Nat
      OBVIOUS
    <2>2. \E i \in S : n - i \in R
      OBVIOUS
    <2> QED BY <2>1, <2>2
  <1>2. PICK k \in R : \A m \in R : k <= m
    BY <1>1, Least
  <1>3. PICK i \in S : k = n - i
    BY <1>2
  <1>4. ASSUME NEW j \in S
        PROVE  j <= i
    <2>1. n - j \in R
      OBVIOUS
    <2>2. n - i <= n - j
      BY <1>2, <1>3, <2>1
    <2> QED BY <2>2
  <1> QED BY <1>4

LEMMA DefaultInt == \A p \in Pars : DriverDefault(p) \in Int
  <1>1. \A p \in Pars : DriverDefault(p) \in Nat
    BY DefaultFacts
  <1> QED BY <1>1

(* What ParseParametersStr leaves in the object is what the line asks for. *)
LEMMA WantFacts ==
    ASSUME NEW r \in Registry, NEW items, Line(items), SetBits(Load(r), items).ok
    PROVE  LET o == SetBits(Load(r), items)
               w == Want(r, items)
           IN /\ o \in Object
              /\ w \in [Pars -> Int]
              /\ \A p \in Pars : Agrees(o, r, p) /\ Used(o, p) = w[p]
  <1> DEFINE o == SetBits(Load(r), items)
             w == Want(r, items)
  <1>1. o \in Object /\ \A p \in Pars : Agrees(o, r, p) /\ AsSaid(o, items, Len(items), r, p)
    BY ParseFacts
  <1>2. ASSUME NEW p \in Pars
        PROVE  w[p] = Used(o, p) /\ Used(o, p) \in Int
    <2> DEFINE S == Said(items, Len(items), p)
               last == CHOOSE i \in S : \A j \in S : j <= i
    <2>1. w[p] = IF S = {} THEN InUse(r)[p]
                 ELSE IF items[last].how = "-" THEN DriverDefault(p)
                 ELSE Value(p, items[last].text)
      BY DEF Want, Said
    <2>2. AsSaid(o, items, Len(items), r, p)
      BY <1>1
    <2>3. Used(o, p) \in Int
      BY <1>1, DefaultInt DEF Used, Object
    <2>4. CASE S = {}
      BY <2>1, <2>2, <2>3, <2>4 DEF AsSaid
    <2>5. CASE S # {}
      <3>1. S \in SUBSET (1 .. Len(items)) /\ Len(items) \in Nat
        BY DEF Said, Line
      <3>2. \E i \in S : \A j \in S : j <= i
        BY <2>5, <3>1, Greatest
      <3>3. last \in S /\ \A j \in S : j <= last
        <4> HIDE DEF S
        <4> QED BY <3>2
      <3>4. items[last].par = p
        BY <3>3 DEF Said
      <3>5. Used(o, p) = Answer(items[last])
        BY <2>2, <3>3 DEF AsSaid
      <3>6. w[p] = Answer(items[last])
        BY <2>1, <2>5, <3>4 DEF Answer
      <3> QED BY <2>3, <3>5, <3>6
    <2> QED BY <2>4, <2>5
  <1>3. w = [p \in Pars |-> w[p]]
    BY DEF Want
  <1>4. w \in [Pars -> Int]
    BY <1>2, <1>3
  <1> QED BY <1>1, <1>2, <1>4

----------------------------------------------------------------------------
(* While the values are saved, those that are no longer marked are in use  *)
(* as asked for; the others have not been touched, will be reached, and    *)
(* the object holds for them what was asked for.                           *)
Saving == [phase : {"save"}, obj : Object, next : 1 .. Len(Par) + 1,
           before : [Pars -> Int], want : [Pars -> Int]]
SavingInv ==
    /\ line \in Saving
    /\ \A p \in Pars :
        /\ p \in line.obj.explicit => line.obj.val[p] \in Valid(p)
        /\ p \notin line.obj.changed => InUse(reg)[p] = line.want[p]
        /\ p \in line.obj.changed =>
              /\ InUse(reg)[p] = line.before[p]
              /\ Used(line.obj, p) = line.want[p]
              /\ \E i \in line.next .. Len(Par) : Par[i] = p
ParamsInv == reg \in Registry /\ (line = NoLine \/ SavingInv)

LEMMA ParFacts ==
    /\ Len(Par) \in Nat
    /\ \A i \in 1 .. Len(Par) : Par[i] \in Pars
    /\ \A p \in Pars : \E i \in 1 .. Len(Par) : Par[i] = p
  BY ParamsAssumption DEF Pars

LEMMA InUseFacts ==
    ASSUME NEW r \in [Pars -> Int]
    PROVE  /\ InUse(r) \in [Pars -> Int]
           /\ \A p \in Pars : InUse(r)[p] = IF r[p] = Absent THEN DriverDefault(p) ELSE r[p]
  BY DefaultInt DEF InUse

LEMMA RegistryFacts ==
    ASSUME NEW r \in Registry
    PROVE  r \in [Pars -> Int] /\ InUse(r) \in [Pars -> Int]
  <1>1. r \in [Pars -> Int]
    BY DEF Registry
  <1> QED BY <1>1, InUseFacts

LEMMA LinesAreItems ==
    ASSUME NEW items \in CommandLines
    PROVE  Line(items)
  <1>1. \E m \in Nat : items \in [1 .. m -> Item]
    <2>1. CASE items \in UNION {[1 .. m -> Item] : m \in 0 .. MaxItems}
      BY <2>1, ParamsAssumption
    <2>2. CASE items = [i \in 1 .. Len(Par) |-> [par |-> Par[i], how |-> "-", text |-> <<0>>]]
      <3>1. \A i \in 1 .. Len(Par) : [par |-> Par[i], how |-> "-", text |-> <<0>>] \in Item
        BY ParFacts DEF Item
      <3>2. items \in [1 .. Len(Par) -> Item] /\ Len(Par) \in Nat
        BY <2>2, <3>1, ParFacts
      <3> QED BY <3>2
    <2> QED BY <2>1, <2>2 DEF CommandLines, ResetAll
  <1>2. PICK m \in Nat : items \in [1 .. m -> Item]
    BY <1>1
  <1>3. Len(items) = m /\ \A i \in 1 .. m : items[i] \in Item
    BY <1>2
  <1> QED BY <1>2, <1>3, ItemFacts DEF Line

LEMMA ParseKeeps ==
    ASSUME ParamsInv, ParseParametersStr
    PROVE  ParamsInv'
  <1>1. PICK items \in CommandLines :
            /\ SetBits(Load(reg), items).ok
            /\ line' = [phase |-> "save", obj |-> SetBits(Load(reg), items), next |-> 1,
                        before |-> InUse(reg), want |-> Want(reg, items)]
    <2>1. PICK items \in CommandLines, room \in Room :
              LET o == IF items = ResetAll THEN SetBits(Load(reg), items)
                       ELSE Parse(Load(reg), items, room) IN
              /\ o.ok
              /\ line' = [phase |-> "save", obj |-> o, next |-> 1,
                          before |-> InUse(reg), want |-> Want(reg, items)]
      BY DEF ParseParametersStr
    <2>2. CASE items = ResetAll
      BY <2>1, <2>2
    <2>3. CASE items # ResetAll /\ Fits(items, room)
      <3>1. Parse(Load(reg), items, room) = SetBits(Load(reg), items)
        BY <2>3 DEF Parse
      <3> QED BY <2>1, <2>3, <3>1
    <2>4. CASE items # ResetAll /\ ~Fits(items, room)
      <3>1. Parse(Load(reg), items, room) = [Load(reg) EXCEPT !.ok = FALSE]
        BY <2>4 DEF Parse
      <3>2. ~[Load(reg) EXCEPT !.ok = FALSE].ok
        BY DEF Load
      <3> QED BY <2>1, <2>4, <3>1, <3>2
    <2> QED BY <2>2, <2>3, <2>4
  <1>2. reg' = reg /\ reg \in Registry /\ reg \in [Pars -> Int]
    BY RegistryFacts DEF ParseParametersStr, ParamsInv
  <1>3. Line(items)
    BY LinesAreItems
  <1>4. PICK o : o = SetBits(Load(reg), items)
    OBVIOUS
  <1>5. PICK w : w = Want(reg, items)
    OBVIOUS
  <1>6. /\ o \in Object /\ w \in [Pars -> Int]
        /\ \A p \in Pars : Agrees(o, reg, p) /\ Used(o, p) = w[p]
    <2>1. SetBits(Load(reg), items).ok
      BY <1>1
    <2>2. /\ SetBits(Load(reg), items) \in Object
          /\ Want(reg, items) \in [Pars -> Int]
          /\ \A p \in Pars : /\ Agrees(SetBits(Load(reg), items), reg, p)
                                /\ Used(SetBits(Load(reg), items), p)
                                      = Want(reg, items)[p]
      BY <1>2, <1>3, <2>1, WantFacts
    <2> QED BY <1>4, <1>5, <2>2
  <1>7. line' = [phase |-> "save", obj |-> o, next |-> 1, before |-> InUse(reg), want |-> w]
    BY <1>1, <1>4, <1>5
  <1>8. line' \in Saving
    BY <1>2, <1>6, <1>7, InUseFacts, ParFacts DEF Saving
  <1>9. ASSUME NEW p \in Pars
        PROVE  /\ p \in o.explicit => o.val[p] \in Valid(p)
               /\ p \notin o.changed => InUse(reg)[p] = w[p]
               /\ Used(o, p) = w[p]
    BY <1>2, <1>6, InUseFacts DEF Agrees, Used
  <1>10. \A p \in Pars :
        /\ p \in line'.obj.explicit => line'.obj.val[p] \in Valid(p)
        /\ p \notin line'.obj.changed => InUse(reg')[p] = line'.want[p]
        /\ p \in line'.obj.changed =>
              /\ InUse(reg')[p] = line'.before[p]
              /\ Used(line'.obj, p) = line'.want[p]
              /\ \E i \in line'.next .. Len(Par) : Par[i] = p
    BY <1>2, <1>7, <1>9, ParFacts
  <1> QED BY <1>2, <1>8, <1>10 DEF ParamsInv, SavingInv

LEMMA SaveKeeps ==
    ASSUME ParamsInv, SaveDw
    PROVE  ParamsInv'
  <1> DEFINE p == Par[line.next]
  <1>1. line.phase = "save" /\ line.next <= Len(Par)
    BY DEF SaveDw
  <1>2. SavingInv /\ reg \in Registry /\ reg \in [Pars -> Int]
    BY <1>1, RegistryFacts DEF ParamsInv, NoLine
  <1>3. PICK o, n, b, w :
            /\ line = [phase |-> "save", obj |-> o, next |-> n, before |-> b, want |-> w]
            /\ o \in Object /\ n \in 1 .. Len(Par) + 1
            /\ b \in [Pars -> Int] /\ w \in [Pars -> Int]
    BY <1>2 DEF SavingInv, Saving
  <1>4. p = Par[n] /\ n \in 1 .. Len(Par) /\ p \in Pars
    BY <1>1, <1>3, ParFacts
  <1> DEFINE v == IF p \in o.explicit THEN o.val[p] ELSE Absent
  <1>5. reg' = IF p \notin o.changed THEN reg ELSE [reg EXCEPT ![p] = v]
    BY <1>3 DEF SaveDw
  <1>17. PICK m : m = [o EXCEPT !.changed = @ \ {p}]
    OBVIOUS
  <1>6. m = [val |-> o.val, explicit |-> o.explicit, changed |-> o.changed \ {p}, ok |-> o.ok]
    BY <1>3, <1>17 DEF Object
  <1>7. m \in Object
    BY <1>3, <1>6 DEF Object
  <1>8. line' = [phase |-> "save", obj |-> m, next |-> n + 1, before |-> b, want |-> w]
    <2>1. line' = [line EXCEPT !.next = @ + 1, !.obj.changed = @ \ {p}]
      BY DEF SaveDw
    <2> QED BY <1>3, <1>17, <2>1
  <1>10. \A q \in Pars :
            /\ q \in o.explicit => o.val[q] \in Valid(q)
            /\ q \notin o.changed => InUse(reg)[q] = w[q]
            /\ q \in o.changed => /\ InUse(reg)[q] = b[q]
                                  /\ Used(o, q) = w[q]
                                  /\ \E i \in n .. Len(Par) : Par[i] = q
    BY <1>2, <1>3 DEF SavingInv
  <1>9. v \in Int /\ (v = Absent \/ v \in Valid(p)) /\ reg' \in [Pars -> Int] /\ reg' \in Registry
    <2>1. v \in Int
      BY <1>3, <1>4, ParTypes DEF Object
    <2>2. v = Absent \/ v \in Valid(p)
      BY <1>4, <1>10
    <2> HIDE DEF v, p
    <2>3. reg' \in [Pars -> Int]
      BY <1>2, <1>5, <2>1
    <2>4. \A q \in Pars : reg'[q] = Absent \/ reg'[q] \in Valid(q)
      BY <1>2, <1>4, <1>5, <2>2 DEF Registry
    <2> QED BY <2>1, <2>2, <2>3, <2>4 DEF Registry
  <1> HIDE DEF p
  <1>11. InUse(reg')[p] = w[p]
    <2>1. CASE p \notin o.changed
      BY <1>4, <1>5, <1>10, <2>1
    <2>2. CASE p \in o.changed
      <3>1. reg'[p] = v
        BY <1>2, <1>4, <1>5, <2>2
      <3>2. InUse(reg')[p] = IF v = Absent THEN DriverDefault(p) ELSE v
        BY <1>4, <1>9, <3>1, InUseFacts
      <3>3. InUse(reg')[p] = Used(o, p)
        <4>1. p \in o.explicit => v # Absent
          BY <1>4, <1>10, DefaultFacts
        <4> QED BY <3>2, <4>1 DEF Used
      <3> QED BY <1>4, <1>10, <2>2, <3>3
    <2> QED BY <2>1, <2>2
  <1>12. ASSUME NEW q \in Pars, q # p
         PROVE  InUse(reg')[q] = InUse(reg)[q]
    <2>1. reg'[q] = reg[q]
      BY <1>2, <1>5, <1>12
    <2> QED BY <1>2, <1>9, <2>1, InUseFacts
  <1>13. ASSUME NEW q \in m.changed
         PROVE  \E i \in n + 1 .. Len(Par) : Par[i] = q
    <2>1. q \in o.changed /\ q # p /\ q \in Pars
      BY <1>3, <1>6 DEF Object
    <2>2. PICK i \in n .. Len(Par) : Par[i] = q
      BY <1>10, <2>1
    <2>3. i # n
      BY <1>4, <2>1, <2>2
    <2> QED BY <1>4, <2>2, <2>3, ParFacts
  <1>14. ASSUME NEW q \in Pars
         PROVE  /\ q \in m.explicit => m.val[q] \in Valid(q)
                /\ q \notin m.changed => InUse(reg')[q] = w[q]
                /\ q \in m.changed => /\ InUse(reg')[q] = b[q]
                                      /\ Used(m, q) = w[q]
                                      /\ \E i \in n + 1 .. Len(Par) : Par[i] = q
    <2>1. CASE q = p
      BY <1>6, <1>10, <1>11, <2>1
    <2>2. CASE q # p
      BY <1>6, <1>10, <1>12, <1>13, <2>2 DEF Used
    <2> QED BY <2>1, <2>2
  <1>15. line' \in Saving
    <2>1. n + 1 \in 1 .. Len(Par) + 1
      BY <1>4, ParFacts
    <2> QED BY <1>3, <1>7, <1>8, <2>1 DEF Saving
  <1>16. SavingInv'
    BY <1>8, <1>14, <1>15 DEF SavingInv
  <1> QED BY <1>9, <1>16 DEF ParamsInv

LEMMA ParamsInvariance == ParamSpec => []ParamsInv
  <1>1. ParamInit => ParamsInv
    BY ParTypes DEF ParamInit, ParamsInv, Registry
  <1>2. ASSUME ParamsInv, [ParamNext]_paramVars
        PROVE  ParamsInv'
    <2>1. CASE ParseParametersStr
      BY <2>1, <1>2, ParseKeeps
    <2>2. CASE SaveDw
      BY <2>2, <1>2, SaveKeeps
    <2>3. CASE SaveStops \/ Saved
      <3>1. reg' = reg /\ line' = NoLine
        BY <2>3 DEF SaveStops, Saved, SaveEnds
      <3> QED BY <1>2, <3>1 DEF ParamsInv
    <2>4. CASE UNCHANGED paramVars
      <3>1. reg' = reg /\ line' = line
        BY <2>4 DEF paramVars
      <3> QED BY <1>2, <3>1 DEF ParamsInv, SavingInv, Saving, InUse
    <2> QED BY <1>2, <2>1, <2>2, <2>3, <2>4 DEF ParamNext
  <1> QED BY <1>1, <1>2, PTL DEF ParamSpec

(* The types of PortParams.                                                *)
THEOREM ParamsTypeCorrect == ParamSpec => []ParamTypeOK
  <1>1. ASSUME ParamsInv
        PROVE  ParamTypeOK
    <2>1. CASE line = NoLine
      <3> DEFINE o == Load([p \in Pars |-> Absent])
      <3>1. [p \in Pars |-> Absent] \in Registry
        BY ParTypes DEF Registry
      <3>2. o \in Object
        BY <3>1, LoadFacts
      <3> HIDE DEF o
      <3>3. line.phase = "idle" /\ line.next = 1 /\ line.obj = o
        BY <2>1 DEF NoLine, o
      <3> QED BY <1>1, <3>2, <3>3, ParFacts, RegistryFacts DEF ParamsInv, Object, ParamTypeOK
    <2>2. CASE SavingInv
      BY <1>1, <2>2, RegistryFacts DEF ParamsInv, SavingInv, Saving, Object, ParamTypeOK
    <2> QED BY <1>1, <2>1, <2>2 DEF ParamsInv
  <1> QED BY <1>1, ParamsInvariance, PTL

(* A save that comes to its end has put every parameter in use as the      *)
(* command line says, whatever the registry held before, however long the  *)
(* line is and however often a parameter occurs in it.                     *)
THEOREM ParamsSaved == ParamSpec => SavedAsAsked
  <1>1. ASSUME ParamsInv, Saved
        PROVE  InUse(reg) = line.want
    <2>1. SavingInv /\ line.next > Len(Par)
      BY <1>1 DEF ParamsInv, NoLine, Saved
    <2>2. \A p \in Pars : InUse(reg)[p] = line.want[p]
      <3>1. line.next .. Len(Par) = {}
        BY <2>1, ParFacts DEF SavingInv, Saving
      <3> QED BY <2>1, <3>1 DEF SavingInv
    <2>3. InUse(reg) \in [Pars -> Int] /\ line.want \in [Pars -> Int]
      BY <1>1, <2>1, RegistryFacts DEF ParamsInv, SavingInv, Saving
    <2> QED BY <2>2, <2>3
  <1>2. ParamsInv /\ [ParamNext]_paramVars => [Saved => InUse(reg) = line.want]_paramVars
    BY <1>1
  <1> QED BY <1>2, ParamsInvariance, PTL DEF ParamSpec, SavedAsAsked

(* Wherever Save stops, each parameter has its old or its new value.       *)
THEOREM ParamsOldOrNew == ParamSpec => []NoThirdValue
  <1>1. ParamsInv => NoThirdValue
    BY DEF ParamsInv, SavingInv, NoThirdValue, AtRest
  <1> QED BY <1>1, ParamsInvariance, PTL

----------------------------------------------------------------------------
(* FillParametersStr: the list has an item for each parameter that is      *)
(* listed, and no other items.                                             *)
Listed(o, d, p) == p \in o.explicit \/ d \/ Type[p] = "name"
ListItem(o, d, p) ==
    IF p \in o.explicit THEN [par |-> p, how |-> "set", text |-> FillText(p, o.val[p])]
    ELSE IF d THEN [par |-> p, how |-> "set", text |-> FillText(p, DriverDefault(p))]
    ELSE [par |-> p, how |-> "-", text |-> <<0>>]
ListItems(o, d) == {ListItem(o, d, p) : p \in {q \in Pars : Listed(o, d, q)}}

LEMMA FillFacts ==
    ASSUME NEW o, NEW d
    PROVE  /\ FillItems(o, d) \in Seq(ListItems(o, d))
           /\ \A p \in Pars : Listed(o, d, p) =>
                 \E k \in 1 .. Len(FillItems(o, d)) : FillItems(o, d)[k] = ListItem(o, d, p)
  <1> DEFINE n == Len(Par)
             T == Seq(ListItems(o, d))
             Step(s, i) == IF Listed(o, d, Par[i]) THEN Append(s, ListItem(o, d, Par[i])) ELSE s
             Is(f) == f = [i \in 0 .. n |-> IF i = 0 THEN <<>> ELSE Step(f[i - 1], i)]
             g == CHOOSE f : Is(f)
             G == [i \in 1 .. n |-> [s \in T |-> Step(s, i)]]
  <1>1. FillItems(o, d) = g[n]
    BY DEF FillItems, Listed, ListItem
  <1>2. n \in Nat /\ \A i \in 1 .. n : Par[i] \in Pars
    BY ParFacts
  <1>3. ASSUME NEW i \in 1 .. n, NEW s \in T
        PROVE  Step(s, i) \in T
    <2>1. Listed(o, d, Par[i]) => ListItem(o, d, Par[i]) \in ListItems(o, d)
      BY <1>2 DEF ListItems
    <2> QED BY <2>1
  <1> HIDE DEF n, T, Step
  <1>4. G \in [1 .. n -> [T -> T]]
    BY <1>3
  <1>5. <<>> \in T
    BY DEF T
  <1>6. PICK f \in [0 .. n -> T] : Runs(f, n, <<>>, G)
    <2> HIDE DEF G
    <2> QED BY <1>2, <1>4, <1>5, Recursion
  <1>7. f[0] = <<>> /\ \A i \in 1 .. n : f[i] = Step(f[i - 1], i)
    <2>1. ASSUME NEW i \in 1 .. n
          PROVE  G[i][f[i - 1]] = Step(f[i - 1], i)
      <3>1. i - 1 \in 0 .. n
        BY <1>2
      <3>2. f[i - 1] \in T
        BY <1>6, <3>1
      <3>3. G[i] = [s \in T |-> Step(s, i)]
        OBVIOUS
      <3> QED BY <3>2, <3>3
    <2> HIDE DEF G
    <2> QED BY <1>6, <2>1 DEF Runs
  <1>8. Is(f)
    <2>1. \A i \in 0 .. n : f[i] = IF i = 0 THEN <<>> ELSE Step(f[i - 1], i)
      BY <1>2, <1>7
    <2> QED BY <1>6, <2>1
  <1>9. Is(g)
    <2> HIDE DEF Is
    <2> QED BY <1>8 DEF g
  <1> HIDE DEF g
  <1>10. g[0] = <<>> /\ \A i \in 1 .. n : g[i] = Step(g[i - 1], i)
    BY <1>2, <1>9
  <1> DEFINE Has(s, p) == \E k \in 1 .. Len(s) : s[k] = ListItem(o, d, p)
             Good(i) == /\ g[i] \in T
                        /\ \A j \in 1 .. i : Listed(o, d, Par[j]) => Has(g[i], Par[j])
             S == {i \in 0 .. n : Good(i)}
  <1>11. Good(0)
    BY <1>5, <1>10
  <1>12. ASSUME NEW i \in 1 .. n, Good(i - 1)
         PROVE  Good(i)
    <2>1. g[i] = Step(g[i - 1], i) /\ g[i - 1] \in T /\ g[i] \in T
      BY <1>3, <1>10, <1>12
    <2>2. CASE Listed(o, d, Par[i])
      <3>1. g[i] = Append(g[i - 1], ListItem(o, d, Par[i]))
        BY <2>1, <2>2 DEF Step
      <3>2. g[i - 1] \in Seq(ListItems(o, d))
        BY <2>1 DEF T
      <3>3. /\ Len(g[i]) = Len(g[i - 1]) + 1 /\ Len(g[i - 1]) \in Nat
            /\ g[i][Len(g[i])] = ListItem(o, d, Par[i])
            /\ \A k \in 1 .. Len(g[i - 1]) : g[i][k] = g[i - 1][k]
        BY <3>1, <3>2
      <3>4. Has(g[i], Par[i])
        BY <3>3
      <3>5. ASSUME NEW j \in 1 .. i - 1, Listed(o, d, Par[j])
            PROVE  Has(g[i], Par[j])
        <4>1. PICK k \in 1 .. Len(g[i - 1]) : g[i - 1][k] = ListItem(o, d, Par[j])
          BY <1>12, <3>5
        <4> QED BY <3>3, <4>1
      <3> HIDE DEF Has
      <3> QED BY <1>2, <2>1, <3>4, <3>5
    <2>3. CASE ~ Listed(o, d, Par[i])
      <3>1. g[i] = g[i - 1]
        BY <2>1, <2>3 DEF Step
      <3> HIDE DEF Has
      <3> QED BY <1>2, <1>12, <2>3, <3>1
    <2> QED BY <2>2, <2>3
  <1> HIDE DEF Good
  <1>13. 0 \in S /\ \A i \in 1 .. n : i - 1 \in S => i \in S
    BY <1>2, <1>11, <1>12
  <1>14. \A i \in 0 .. n : i \in S
    <2> HIDE DEF S
    <2> QED BY <1>2, <1>13, Upto
  <1>15. Good(n)
    BY <1>2, <1>14
  <1>16. g[n] \in T /\ \A p \in Pars : Listed(o, d, p) => Has(g[n], p)
    <2>1. \A p \in Pars : \E j \in 1 .. n : Par[j] = p
      BY ParFacts DEF n
    <2> QED BY <1>15, <2>1 DEF Good
  <1> QED BY <1>1, <1>16 DEF T

(* An item of the list asks for the value in use, and changes nothing in   *)
(* the object that it was made from.                                       *)
LEMMA ListItemFacts ==
    ASSUME NEW r \in Registry, NEW d, NEW p \in Pars
    PROVE  LET it == ListItem(Load(r), d, p) IN
           /\ it.par = p /\ it.how # "*" /\ Proper(it) /\ Accepted(it)
           /\ Answer(it) = InUse(r)[p]
           /\ ~d => SetBit(Load(r), it) = Load(r)
  <1> DEFINE o == Load(r)
             it == ListItem(o, d, p)
  <1>1. /\ o \in Object /\ o.ok /\ o.changed = {}
        /\ p \in o.explicit <=> r[p] # Absent
        /\ r[p] # Absent => o.val[p] = r[p] /\ r[p] \in Valid(p)
        /\ InUse(r)[p] = IF r[p] = Absent THEN DriverDefault(p) ELSE r[p]
    BY LoadFacts DEF Load, InUse, Registry
  <1>2. /\ Absent \notin Valid(p) /\ DriverDefault(p) \in Valid(p)
        /\ \A v \in Valid(p) : Value(p, FillText(p, v)) = v
    BY DefaultFacts, TextFacts
  <1> HIDE DEF o
  <1>3. CASE p \in o.explicit
    <2> DEFINE t == FillText(p, o.val[p])
    <2>1. it = [par |-> p, how |-> "set", text |-> t]
      BY <1>3 DEF ListItem
    <2>2. Value(p, t) = o.val[p] /\ o.val[p] = InUse(r)[p] /\ o.val[p] \in Valid(p)
      BY <1>1, <1>2, <1>3
    <2> HIDE DEF t
    <2>3. SetBit(o, it) = o
      <3>1. SetBit(o, it) = Give(o, p, o.val[p])
        BY <1>1, <1>2, <2>1, <2>2 DEF SetBit
      <3>2. Give(o, p, o.val[p]) = [o EXCEPT !.val[p] = o.val[p], !.changed = o.changed,
                                               !.explicit = @]
        BY <1>1 DEF Give
      <3>3. [o EXCEPT !.val[p] = o.val[p], !.changed = o.changed, !.explicit = @] = o
        BY <1>1 DEF Object
      <3> QED BY <3>1, <3>2, <3>3
    <2>4. it.par = p /\ it.how = "set" /\ it.text = t
      BY <2>1
    <2> HIDE DEF it
    <2> QED BY <1>2, <2>2, <2>3, <2>4 DEF Proper, Accepted, Answer, it, o
  <1>4. CASE p \notin o.explicit /\ d
    <2> DEFINE t == FillText(p, DriverDefault(p))
    <2>1. it = [par |-> p, how |-> "set", text |-> t]
      BY <1>4 DEF ListItem
    <2>2. Value(p, t) = DriverDefault(p) /\ DriverDefault(p) = InUse(r)[p]
      BY <1>1, <1>2, <1>4
    <2> HIDE DEF t
    <2>4. it.par = p /\ it.how = "set" /\ it.text = t
      BY <2>1
    <2> HIDE DEF it
    <2> QED BY <1>2, <1>4, <2>2, <2>4 DEF Proper, Accepted, Answer, it, o
  <1>5. CASE p \notin o.explicit /\ ~d
    <2>1. it = [par |-> p, how |-> "-", text |-> <<0>>]
      BY <1>5 DEF ListItem
    <2>2. SetBit(o, it) = o
      <3>1. SetBit(o, it) = [o EXCEPT !.changed = @, !.explicit = @ \ {p}]
        BY <1>1, <1>5, <2>1 DEF SetBit
      <3>2. o.explicit \ {p} = o.explicit
        BY <1>5
      <3>3. [o EXCEPT !.changed = @, !.explicit = @ \ {p}] = o
        BY <1>1, <3>2 DEF Object
      <3> QED BY <3>1, <3>3
    <2>3. it.par = p /\ it.how = "-" /\ InUse(r)[p] = DriverDefault(p)
      BY <1>1, <1>5, <2>1
    <2> HIDE DEF it
    <2> QED BY <2>2, <2>3 DEF Proper, Accepted, Answer, it, o
  <1> QED BY <1>3, <1>4, <1>5

LEMMA ListFacts ==
    ASSUME NEW r \in Registry, NEW d
    PROVE  LET items == FillItems(Load(r), d) IN
           /\ Line(items)
           /\ \A k \in 1 .. Len(items) : \E p \in Pars : items[k] = ListItem(Load(r), d, p)
           /\ \A p \in Pars : r[p] # Absent =>
                 \E k \in 1 .. Len(items) : items[k] = ListItem(Load(r), d, p)
  <1> DEFINE items == FillItems(Load(r), d)
  <1>1. /\ items \in Seq(ListItems(Load(r), d))
        /\ \A p \in Pars : Listed(Load(r), d, p) =>
              \E k \in 1 .. Len(items) : items[k] = ListItem(Load(r), d, p)
    BY FillFacts
  <1> HIDE DEF items
  <1>2. Len(items) \in Nat /\ \A k \in 1 .. Len(items) : items[k] \in ListItems(Load(r), d)
    BY <1>1
  <1>3. \A k \in 1 .. Len(items) : \E p \in Pars : items[k] = ListItem(Load(r), d, p)
    BY <1>2 DEF ListItems
  <1>4. Line(items)
    BY <1>2, <1>3, ListItemFacts DEF Line
  <1>5. \A p \in Pars : r[p] # Absent => Listed(Load(r), d, p)
    BY DEF Load, Listed
  <1> QED BY <1>1, <1>3, <1>4, <1>5 DEF items

(* The list, read back for the port that it was made from.                 *)
LEMMA ListChangesNothing ==
    ASSUME NEW r \in Registry
    PROVE  LET n == SetBits(Load(r), FillItems(Load(r), FALSE)) IN n.ok /\ n.changed = {}
  <1> DEFINE items == FillItems(Load(r), FALSE)
             len == Len(items)
  <1>1. /\ Line(items) /\ len \in Nat
        /\ \A k \in 1 .. len : \E p \in Pars : items[k] = ListItem(Load(r), FALSE, p)
    BY ListFacts DEF Line
  <1> HIDE DEF items
  <1>2. PICK f \in [0 .. len -> Object] :
            /\ f[0] = Load(r) /\ \A i \in 1 .. len : f[i] = SetBit(f[i - 1], items[i])
            /\ SetBits(Load(r), items) = f[len]
    BY <1>1, LoadFacts, ParseRuns
  <1> HIDE DEF len
  <1>3. ASSUME NEW i \in 1 .. len
        PROVE  SetBit(Load(r), items[i]) = Load(r)
    <2>1. PICK p \in Pars : items[i] = ListItem(Load(r), FALSE, p)
      BY <1>1
    <2>2. SetBit(Load(r), ListItem(Load(r), FALSE, p)) = Load(r)
      BY ListItemFacts
    <2> QED BY <2>1, <2>2
  <1> DEFINE S == {i \in 0 .. len : f[i] = Load(r)}
  <1>4. 0 \in S /\ \A i \in 1 .. len : i - 1 \in S => i \in S
    BY <1>1, <1>2, <1>3
  <1>5. \A i \in 0 .. len : i \in S
    <2> HIDE DEF S
    <2> QED BY <1>1, <1>4, Upto
  <1>6. SetBits(Load(r), items) = Load(r)
    BY <1>1, <1>2, <1>5
  <1>7. Load(r).ok /\ Load(r).changed = {}
    BY DEF Load
  <1> QED BY <1>6, <1>7 DEF items

(* The list, read back for a port that has no parameters.                  *)
LEMMA ListRestores ==
    ASSUME NEW r \in Registry, NEW d
    PROVE  LET n == SetBits(Load([p \in Pars |-> Absent]), FillItems(Load(r), d)) IN
           n.ok /\ \A p \in Pars : InUse(r)[p] = Used(n, p)
  <1> DEFINE none == [p \in Pars |-> Absent]
             items == FillItems(Load(r), d)
             n == SetBits(Load(none), items)
  <1>1. none \in Registry /\ \A p \in Pars : InUse(none)[p] = DriverDefault(p)
    BY ParTypes DEF Registry, InUse
  <1>2. /\ Line(items)
        /\ \A k \in 1 .. Len(items) : \E p \in Pars : items[k] = ListItem(Load(r), d, p)
        /\ \A p \in Pars : r[p] # Absent =>
              \E k \in 1 .. Len(items) : items[k] = ListItem(Load(r), d, p)
    BY ListFacts
  <1> HIDE DEF none, items
  <1>3. \A k \in 1 .. Len(items) : Accepted(items[k])
    BY <1>2, ListItemFacts
  <1>4. n.ok /\ \A p \in Pars : AsSaid(n, items, Len(items), none, p)
    BY <1>1, <1>2, <1>3, ParseFacts
  <1> HIDE DEF n
  <1>5. ASSUME NEW p \in Pars
        PROVE  InUse(r)[p] = Used(n, p)
    <2> DEFINE S == Said(items, Len(items), p)
    <2>1. CASE S = {}
      <3>1. ASSUME r[p] # Absent
            PROVE  FALSE
        <4>1. PICK k \in 1 .. Len(items) : items[k] = ListItem(Load(r), d, p)
          BY <1>2, <3>1
        <4>2. items[k].par = p /\ items[k].how # "*"
          BY <4>1, ListItemFacts
        <4> QED BY <2>1, <4>2 DEF Said
      <3>2. InUse(r)[p] = DriverDefault(p)
        BY <3>1 DEF InUse
      <3> QED BY <1>1, <1>4, <2>1, <3>2 DEF AsSaid
    <2>2. CASE S # {}
      <3>1. S \in SUBSET (1 .. Len(items)) /\ Len(items) \in Nat
        BY <1>2 DEF Said, Line
      <3>2. PICK i \in S : \A j \in S : j <= i
        <4> HIDE DEF S
        <4> QED BY <2>2, <3>1, Greatest
      <3>3. i \in 1 .. Len(items) /\ items[i].par = p
        BY DEF Said
      <3>4. PICK q \in Pars : items[i] = ListItem(Load(r), d, q)
        BY <1>2, <3>3
      <3>5. q = p /\ Answer(items[i]) = InUse(r)[p]
        BY <3>3, <3>4, ListItemFacts
      <3>6. Used(n, p) = Answer(items[i])
        BY <1>4, <3>2 DEF AsSaid
      <3> QED BY <3>5, <3>6
    <2> QED BY <2>1, <2>2
  <1> QED BY <1>4, <1>5 DEF n, none, items

(* The list of a port, if it is not cut, is accepted; given to that port   *)
(* again it changes nothing, and given to a port without parameters it     *)
(* makes it the same: for every limit and all values that setup saves,     *)
(* since every value it reads is listed as a text that is read as that     *)
(* value.                                                                  *)
THEOREM ParamsReplayed == ParamSpec => []ListReplays
  <1>1. ASSUME ParamsInv
        PROVE  ListReplays
    <2> DEFINE o == Load(reg)
               other == Load([p \in Pars |-> Absent])
    <2>1. reg \in Registry
      BY <1>1 DEF ParamsInv
    <2>2. /\ SetBits(o, FillItems(o, FALSE)).ok
          /\ SetBits(o, FillItems(o, FALSE)).changed = {}
      BY <2>1, ListChangesNothing
    <2>3. ASSUME NEW d
          PROVE  LET n == SetBits(other, FillItems(o, d)) IN
                 /\ n.ok
                 /\ \A p \in Pars : InUse(reg)[p] =
                       IF p \in n.explicit THEN n.val[p] ELSE DriverDefault(p)
      BY <2>1, ListRestores DEF Used
    <2> HIDE DEF o, other
    <2>4. ASSUME NEW d, NEW room, Fill(o, d, room).ok
          PROVE  /\ Parse(o, Fill(o, d, room).items, room) = SetBits(o, FillItems(o, d))
                 /\ Parse(other, Fill(o, d, room).items, room) = SetBits(other, FillItems(o, d))
      <3>1. Fits(FillItems(o, d), room) /\ Fill(o, d, room).items = FillItems(o, d)
        BY <2>4 DEF Fill
      <3> QED BY <3>1 DEF Parse
    <2> QED BY <2>2, <2>3, <2>4 DEF ListReplays, o, other
  <1> QED BY <1>1, ParamsInvariance, PTL
=============================================================================

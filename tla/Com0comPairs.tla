---------------------------- MODULE Com0comPairs ----------------------------
(***************************************************************************)
(* The commands of src/Com0Com/setup/setup.cpp that create, rename and     *)
(* remove pairs of linked ports (install <n> <A> <B>, change, remove), in  *)
(* one setup process, down to the calls that change state: the registry    *)
(* parameters of the ports, the bus device of each pair, the real port     *)
(* names the Ports class installer gives, friendly names, and at the end   *)
(* ComDbSync, which is module ComDb with `used` the names of the installed *)
(* ports.                                                                  *)
(*                                                                         *)
(* Simplifications.  Only PortName and RealPortName of the parameters are  *)
(* kept (the others are module PortParams); a name is a COM number, the    *)
(* default name CNC<A|B><n> or COM#.  QueryDosDevice may or may not find a *)
(* name: whether a port is started is module Com0comDriver's matter.  A    *)
(* retry of a failed call is the call made later.                          *)
(***************************************************************************)
EXTENDS Integers, FiniteSets

CONSTANTS
    Pair,       \* pair numbers, 0 .. MaxPair
    Num,        \* numbers ComDB arbitrates
    Asked,      \* Asked[p]: the names that commands ask for, by port
    MaxFaults   \* bound: crashes, and failed calls that setup passes over

Side == {"A", "B"}
Port == Pair \X Side
Default == 0                    \* a name that is not in COM<n> format
ComClass == -1                  \* PortName=COM#: the Ports class names the port
Name == Num \cup {Default, ComClass}

ASSUME NameAssumption == /\ Num \subseteq Nat \ {0} /\ Pair \subseteq Nat
                         /\ Asked \in [Port -> SUBSET Name] /\ MaxFaults \in Nat

VARIABLES
    devs,       \* devs[i]: bus devices registered with PortNum = i
    blank,      \* bus devices registered without a number
    param,      \* registry: PortName of each port, kept when a pair is removed
    real,       \* PortName in the device key of a port of the Ports class, or 0
    label,      \* pairs whose bus device carries the names of its ports
    owner, local, sync, torn,           \* see ComDb
    cmd,        \* the command setup executes
    excused,    \* history: names a user, a failed call or a crash let through
    faults      \* history: the crashes and the failed calls so far

dbVars == <<owner, local, sync, torn>>
devVars == <<devs, blank, label>>
vars == <<devs, blank, param, real, label, owner, local, sync, torn, cmd,
          excused, faults>>

Present == {i \in Pair : devs[i] > 0}
UsedNames == {param[p] : p \in Present \X Side} \cap Num

CD == INSTANCE ComDb WITH used <- UsedNames

(* One record for the command line and the progress of the command: pair   *)
(* number, side, names asked for, and the COM number for RealPortName.     *)
(* Fields that the rest of the command does not read are reset.            *)
NoCmd == [phase |-> "idle", at |-> 0, side |-> "A",
          ask |-> Default, other |-> Default, new |-> 0]
Phase == {"idle", "alloc", "params", "same", "register", "number", "driver",
          "rollback", "labels", "change", "relabel", "reclass", "drop", "claim",
          "set", "release", "removeBus", "removePorts", "sync", "syncing"}
Command == [phase : Phase, at : Pair \cup {0}, side : Side,
            ask : Name, other : Name, new : Num \cup {0}]

MaxTwins == 2       \* bound: bus devices that share a number, or lack one

TypeOK ==
    /\ devs \in [Pair -> 0..MaxTwins] /\ blank \in 0..MaxTwins
    /\ param \in [Port -> Name] /\ real \in [Port -> Num \cup {0}]
    /\ label \subseteq Pair
    /\ cmd \in Command
    /\ excused \subseteq Num /\ faults \in 0..MaxFaults
    /\ CD!TypeOK

Init ==
    /\ devs = [i \in Pair |-> 0] /\ blank = 0
    /\ param = [p \in Port |-> Default]
    /\ real = [p \in Port |-> 0]
    /\ label = {}
    /\ CD!Init
    /\ cmd = NoCmd /\ excused = {} /\ faults = 0

Idle == cmd = NoCmd
Goto(ph) == cmd' = [cmd EXCEPT !.phase = ph]
GotoFor(ph) == cmd' = [NoCmd EXCEPT !.phase = ph, !.at = cmd.at]
GotoSync == cmd' = [NoCmd EXCEPT !.phase = "sync"]
End == cmd' = NoCmd
This == <<cmd.at, cmd.side>>
Excuse(S) == excused' = (excused \cup S) \cap Num
Fault == faults < MaxFaults /\ faults' = faults + 1
NoHistory == UNCHANGED <<excused, faults>>

(* Main: the command line becomes a command.                               *)
Main ==
    /\ Idle
    /\ \E i \in Pair, s \in Side, a, b \in Name, n \in Num \cup {0} :
          \/ /\ a \in Asked[i, "A"] /\ b \in Asked[i, "B"]
             /\ cmd' = [NoCmd EXCEPT !.phase = "alloc", !.at = i, !.ask = a, !.other = b]
          \/ /\ a \in Asked[i, s]
             /\ cmd' = [NoCmd EXCEPT !.phase = "change", !.at = i, !.side = s, !.ask = a,
                                     !.new = IF a = ComClass THEN n ELSE 0]
          \/ cmd' = [NoCmd EXCEPT !.phase = "removeBus", !.at = i]
    /\ UNCHANGED <<devVars, param, real, dbVars>> /\ NoHistory

(* Mutant: a name that is in use passes without a question.                *)
IsValidPortNameAlways(n, consent) == consent = {}

(* IsValidPortName: a name that some device or ComDB has is put to the     *)
(* user, who may insist (in silent mode the answer is no).  `consent` is   *)
(* the set of numbers that pass on the user's word.                        *)
IsValidPortName(n, consent) ==
    consent \in IF n \in Num /\ CD!InUse(n) THEN {{n}} ELSE {{}, {n}}

----------------------------------------------------------------------------
(* The mask of the numbers that bus devices have (BusyMask).               *)
IsFreeNum(i) == devs[i] = 0
GetFirstFreeNum ==
    CHOOSE i \in Pair : IsFreeNum(i) /\ \A j \in Pair : IsFreeNum(j) => i <= j

(* install.  AllocPortNum: the number asked for, or the first one that no  *)
(* bus device has; the user may decline the replacement.                   *)
AllocPortNum ==
    /\ cmd.phase = "alloc"
    /\ \/ /\ \E i \in Pair : IsFreeNum(i)
          /\ cmd' = [cmd EXCEPT !.phase = "params",
                         !.at = IF IsFreeNum(@) THEN @ ELSE GetFirstFreeNum]
       \/ ~IsFreeNum(cmd.at) /\ End
    /\ UNCHANGED <<devVars, param, real, dbVars>> /\ NoHistory

(* One turn of the loop over A and B: load, parse, validate, save.  When   *)
(* the load or the save fails, setup warns and goes on with what the       *)
(* registry holds; when the name is refused, what the first turn saved     *)
(* stays.                                                                  *)
InstallParams ==
    LET want == IF cmd.side = "A" THEN cmd.ask ELSE cmd.other
        next == IF cmd.side = "A" THEN [cmd EXCEPT !.side = "B"]
                ELSE [cmd EXCEPT !.phase = "same"]
    IN
    /\ cmd.phase = "params"
    /\ \/ \E c \in SUBSET {want} :
             /\ IsValidPortName(want, c) /\ cmd' = next
             /\ param' = [param EXCEPT ![This] = want]
             /\ Excuse(c)
             /\ UNCHANGED faults
       \/ cmd' = next /\ UNCHANGED param /\ Excuse({param[This]}) /\ Fault
       \/ End /\ UNCHANGED param /\ NoHistory
    /\ UNCHANGED <<devVars, real, dbVars>>

(* "The same port name is used for both ports": refused unless confirmed.  *)
SameName ==
    LET same == cmd.ask = cmd.other /\ cmd.ask # ComClass IN
    /\ cmd.phase = "same"
    /\ \/ GotoFor("register") /\ Excuse(IF same THEN {cmd.ask} ELSE {})
       \/ same /\ End /\ UNCHANGED excused
    /\ UNCHANGED <<devVars, param, real, dbVars, faults>>

(* TryInstallDevice, up to DIF_REGISTERDEVICE.                             *)
RegisterDevice ==
    /\ cmd.phase = "register"
    /\ \/ blank < MaxTwins /\ blank' = blank + 1 /\ Goto("number")
       \/ UNCHANGED blank /\ End
    /\ UNCHANGED <<devs, label, param, real, dbVars>> /\ NoHistory

(* InstallDeviceCallBack: SetPortNum.                                      *)
SetPortNum ==
    /\ cmd.phase = "number"
    /\ \/ /\ devs[cmd.at] < MaxTwins
          /\ devs' = [devs EXCEPT ![cmd.at] = @ + 1] /\ blank' = blank - 1
          /\ label' = label \ {cmd.at}
          /\ Goto("driver")
       \/ UNCHANGED devVars /\ Goto("rollback")
    /\ UNCHANGED <<param, real, dbVars>> /\ NoHistory

(* UpdateDriver for the new device, unless --no-update.                    *)
UpdateDriver ==
    /\ cmd.phase = "driver"
    /\ Goto("labels") \/ Goto("rollback")
    /\ UNCHANGED <<devVars, param, real, dbVars>> /\ NoHistory

(* Mutant: a failed installation leaves its device.                        *)
RollbackNot ==
    /\ cmd.phase = "rollback" /\ End
    /\ UNCHANGED <<devVars, param, real, dbVars>> /\ NoHistory

(* exit2: DIF_REMOVE.  "Try again" starts over with the registration, also *)
(* when the removal failed and the device is still there.                  *)
Rollback ==
    /\ cmd.phase = "rollback"
    /\ \/ /\ IF devs[cmd.at] > 0
             THEN devs' = [devs EXCEPT ![cmd.at] = @ - 1] /\ UNCHANGED blank
             ELSE blank' = blank - 1 /\ UNCHANGED devs
          /\ NoHistory
       \/ UNCHANGED <<devs, blank>> /\ Excuse(UsedNames) /\ Fault
    /\ Goto("register") \/ End
    /\ UNCHANGED <<label, param, real, dbVars>>

(* UpdateFriendlyNamesBus, passed over with --no-update-fnames or when the *)
(* device property cannot be set.                                          *)
UpdateFriendlyNameBus ==
    /\ \/ label' = label \cup {cmd.at} /\ NoHistory
       \/ UNCHANGED <<label, excused>> /\ Fault
    /\ UNCHANGED <<devs, blank, param, real, dbVars>>

InstallLabels == cmd.phase = "labels" /\ UpdateFriendlyNameBus /\ GotoSync

----------------------------------------------------------------------------
(* change <port> <params>.  ChangeDevice is called for installed pairs     *)
(* only.  The name is validated when it is new, but a port that leaves the *)
(* Ports class may keep the real name it had there; RealPortName counts    *)
(* for a port that stays in the class (its own check of the name decides   *)
(* nothing: ComDbClaim has the last word).                                 *)
ChangeDevice ==
    LET old == param[This]
        renamed == cmd.ask # old
        fresh == renamed /\ ~(old = ComClass /\ real[This] # 0 /\ cmd.ask = real[This])
        newReal == old = ComClass /\ cmd.ask = ComClass /\ cmd.new \notin {0, real[This]}
    IN
    /\ cmd.phase = "change"
    /\ \/ End /\ UNCHANGED <<param, label, excused>>
       \/ /\ cmd.at \in Present
          /\ \/ fresh /\ \E c \in SUBSET {cmd.ask} : IsValidPortName(cmd.ask, c) /\ Excuse(c)
             \/ ~fresh /\ UNCHANGED excused
          /\ param' = [param EXCEPT ![This] = cmd.ask]
          /\ label' = IF renamed THEN label \ {cmd.at} ELSE label
          /\ IF ~renamed /\ ~newReal THEN GotoSync
             ELSE Goto(IF newReal THEN "claim"
                       ELSE IF ComClass \in {old, cmd.ask} THEN "reclass" ELSE "relabel")
    /\ UNCHANGED <<devs, blank, real, dbVars, faults>>

(* Mutant: a change of the name is not followed by ComDbSync.              *)
RelabelOnly == cmd.phase = "relabel" /\ UpdateFriendlyNameBus /\ End

Relabel == cmd.phase = "relabel" /\ UpdateFriendlyNameBus /\ GotoSync

Reclass == cmd.phase = "reclass" /\ UpdateFriendlyNameBus /\ Goto("drop")

(* Mutant: the number of a removed port is given back whoever has it.      *)
RemovePortFrees(p) ==
    /\ UNCHANGED <<devVars, param, local, sync, torn>> /\ NoHistory
    /\ owner' = IF param[p] \in Num THEN [owner EXCEPT ![param[p]] = "free"] ELSE owner
    /\ real' = [real EXCEPT ![p] = 0]

(* DIF_REMOVE of a port device: the Ports class gives its number back.     *)
(* Setup ignores a failure.                                                *)
RemovePort(p) ==
    /\ UNCHANGED <<devVars, param>> /\ NoHistory
    /\ \/ real[p] # 0 /\ CD!ClassRelease(real[p])
       \/ UNCHANGED dbVars
    /\ real' = [real EXCEPT ![p] = IF owner' = owner THEN @ ELSE 0]

(* The class of the port changes: its device is removed, and the bus       *)
(* enumerates it anew.                                                     *)
DropPort == cmd.phase = "drop" /\ RemovePort(This) /\ GotoSync

(* The Ports class installer names a port of its class, at any time after  *)
(* the device has appeared.                                                *)
ClassInstall(p) ==
    /\ p[1] \in Present /\ param[p] = ComClass /\ real[p] = 0
    /\ cmd.phase \notin {"reclass", "drop"}
    /\ UNCHANGED <<devVars, param, cmd>> /\ NoHistory
    /\ \E n \in Num : CD!ClassClaim(n) /\ real' = [real EXCEPT ![p] = n]

(* UpdateRealPortName: claim the new number, write it into the key of the  *)
(* device, release the old number; release the new one when the write      *)
(* fails.  After "set", cmd.new is the number to release.                  *)
ClaimReal ==
    /\ cmd.phase = "claim"
    /\ UNCHANGED <<devVars, param, real>> /\ NoHistory
    /\ \/ real[This] # 0 /\ CD!ClassClaim(cmd.new) /\ Goto("set")
       \/ GotoSync /\ UNCHANGED dbVars

(* Mutant: when the write fails, the old number is released all the same.  *)
SetRealUnchecked ==
    /\ cmd.phase = "set"
    /\ \/ real' = [real EXCEPT ![This] = cmd.new]
       \/ UNCHANGED real
    /\ cmd' = [cmd EXCEPT !.phase = "release", !.new = real[This]]
    /\ UNCHANGED <<devVars, param, dbVars>> /\ NoHistory

SetReal ==
    /\ cmd.phase = "set"
    /\ \/ /\ real' = [real EXCEPT ![This] = cmd.new]
          /\ cmd' = [cmd EXCEPT !.phase = "release", !.new = real[This]]
       \/ Goto("release") /\ UNCHANGED real
    /\ UNCHANGED <<devVars, param, dbVars>> /\ NoHistory

ReleaseReal ==
    /\ cmd.phase = "release"
    /\ UNCHANGED <<devVars, param, real>> /\ NoHistory
    /\ GotoSync
    /\ CD!ClassRelease(cmd.new) \/ UNCHANGED dbVars

----------------------------------------------------------------------------
(* remove <n>.  The bus devices with the number are disabled and removed,  *)
(* one after the other.  When one cannot be disabled, or none is there,    *)
(* the ports stay; when one cannot be removed, the ports go all the same.  *)
RemoveBus ==
    /\ cmd.phase = "removeBus"
    /\ \/ /\ cmd.at \in Present
          /\ devs' = [devs EXCEPT ![cmd.at] = @ - 1]
          /\ Goto(IF devs'[cmd.at] = 0 THEN "removePorts" ELSE "removeBus")
       \/ cmd.at \in Present /\ Goto("removePorts") /\ UNCHANGED devs
       \/ GotoSync /\ UNCHANGED devs
    /\ UNCHANGED <<blank, label, param, real, dbVars>> /\ NoHistory

RemovePorts ==
    /\ cmd.phase = "removePorts"
    /\ RemovePort(This)
    /\ cmd' = IF cmd.side = "A" THEN [cmd EXCEPT !.side = "B"]
              ELSE [NoCmd EXCEPT !.phase = "sync"]

----------------------------------------------------------------------------
(* ComDbSync, the last thing each command does.                            *)
SyncStart ==
    /\ cmd.phase = "sync" /\ Goto("syncing")
    /\ UNCHANGED <<devVars, param, real>> /\ NoHistory
    /\ CD!SyncStart

(* A load or a save fails, or a call of ComDB other than the claim of a    *)
(* number in use.                                                          *)
SyncFault ==
    \/ torn' # torn
    \/ sync.pc # "loop" /\ sync'.pc = "idle"
    \/ \E n \in sync'.skip \ sync.skip : n \notin sync.names \/ ~CD!InUse(n)

SyncStep ==
    /\ cmd.phase = "syncing"
    /\ UNCHANGED <<devVars, param, real>>
    /\ \/ CD!LoadComNames \/ CD!LoadComDbLocal \/ CD!SaveComDbLocal \/ CD!SyncDone
       \/ \E n \in Num : CD!Claim(n) \/ CD!Release(n) \/ CD!Refused(n)
    /\ cmd' = IF sync'.pc = "idle" THEN NoCmd ELSE cmd
    /\ Excuse(IF sync'.pc # "idle" THEN {}
              ELSE IF sync.pc = "loop" THEN sync.skip ELSE UsedNames)
    /\ \/ SyncFault /\ Fault
       \/ ~SyncFault /\ UNCHANGED faults

(* setup is stopped: what is in the registry and in ComDB stays.           *)
Crash ==
    /\ ~Idle /\ End
    /\ UNCHANGED <<devVars, param, real>>
    /\ IF cmd.phase = "syncing" THEN CD!Crash ELSE UNCHANGED dbVars
    /\ Excuse(UsedNames) /\ Fault

Others(n) ==
    /\ UNCHANGED <<devVars, param, real, cmd>> /\ NoHistory
    /\ CD!OtherClaim(n) \/ CD!OtherRelease(n)

Setup ==
    \/ Main
    \/ AllocPortNum \/ InstallParams \/ SameName \/ RegisterDevice \/ SetPortNum
    \/ UpdateDriver \/ Rollback \/ InstallLabels
    \/ ChangeDevice \/ Relabel \/ Reclass \/ DropPort
    \/ ClaimReal \/ SetReal \/ ReleaseReal
    \/ RemoveBus \/ RemovePorts
    \/ SyncStart \/ SyncStep

Next ==
    \/ Setup \/ Crash
    \/ \E p \in Port : ClassInstall(p)
    \/ \E n \in Num : Others(n)

Spec == Init /\ [][Next]_vars

----------------------------------------------------------------------------
(* Between two commands the COM number of every installed port is logged   *)
(* in ComDB as setup's, apart from those a user, a failed call or a crash  *)
(* let through: no command forgets the sync, none changes a name after it. *)
NamesAreLogged ==
    Idle => \A n \in UsedNames \ (excused \cup torn) : owner[n] = "setup"

(* Two installed ports never have the same COM number, whatever parameters *)
(* failed and removed installations left in the registry.                  *)
NamesAreUnique ==
    \A p, q \in Present \X Side :
        /\ p # q /\ param[p] = param[q] /\ Idle
        => param[p] \in {Default, ComClass} \cup excused \cup torn

(* A number the Ports class gave a port is claimed in ComDB for as long as *)
(* the port has it: the new one before the change, the old one until after.*)
RealNamesAreClaimed ==
    \A p \in Port : real[p] \in Num \ torn => owner[real[p]] = "class"

(* A failed installation leaves no device behind, two pairs never share a  *)
(* number, and the device of a pair shows the names its ports have now.    *)
DevicesAreWhole ==
    Idle /\ faults = 0 =>
        /\ blank = 0
        /\ \A i \in Present : devs[i] = 1 /\ i \in label

(* The commands implement what ComDb assumes of them: names change between *)
(* two syncs only, and ComDB and the log are touched by a sync alone.      *)
NamesFollowComDb == CD!Spec
=============================================================================

--------------------------- MODULE Com0comDriver ---------------------------
(***************************************************************************)
(* The commands of src/Com0Com/setup/setup.cpp that act on all devices of  *)
(* com0com and on its driver: reload, update, disable all, enable all,     *)
(* preinstall, uninstall and infclean, with the loops over devices of      *)
(* devutils.cpp and the INF files of inffile.cpp.  These loops disable     *)
(* devices that applications may have open, enable again what they have    *)
(* disabled, and take the driver away from under devices step by step;     *)
(* each call may fail, and each failure is put to a user who may cancel,   *)
(* try again or continue, or to nobody in silent mode.                     *)
(*                                                                         *)
(* Simplifications.  Numbers, names and parameters of ports are the matter *)
(* of Com0comPairs, so is the ComDbSync that follows: a new pair is one    *)
(* step.  An INF file matches a list of InfFileUninstall by its UninstallInf*)
(* tag ("tag"), by its class alone ("class") or not at all ("none").  The  *)
(* ten attempts of UpdateDriver and the loops over registry keys are one   *)
(* call each.                                                              *)
(***************************************************************************)
EXTENDS Naturals

CONSTANTS
    Bus,            \* bus devices
    PortDev,        \* port devices
    BusOf,          \* the bus device of each port
    ClassOf,        \* "cncport" or "comport", by port
    OtherInf,       \* further OEM INF files: older versions, other packages
    Match,          \* "tag", "class" or "none", by such a file
    MaxFaults       \* bound: failed calls that setup passes over

OwnInf == {"bus", "cncport", "comport"}     \* infFileInstallList, by class of device
Dev == Bus \cup PortDev
Inf == OwnInf \cup OtherInf
Kind(d) == IF d \in Bus THEN "bus" ELSE ClassOf[d]
MatchOf(f) == IF f \in OwnInf THEN "tag" ELSE Match[f]

ASSUME DriverAssumption ==
    /\ Bus \cap PortDev = {} /\ OwnInf \cap OtherInf = {} /\ Dev \cap Inf = {}
    /\ MaxFaults \in Nat
    /\ BusOf \in [PortDev -> Bus] /\ ClassOf \in [PortDev -> {"cncport", "comport"}]
    /\ Match \in [OtherInf -> {"tag", "class", "none"}]

VARIABLES
    st,         \* st[d]: not installed, or enabled or disabled in the registry
    stuck,      \* devices that run on, or whose driver stays loaded, until a reboot
    oem,        \* INF files in the directory of Windows
    files,      \* the driver's own files are installed
    reg,        \* registered: the service, its event log and the device class
    cmd,        \* the command setup executes, how far it is, and st when it began
    lost,       \* history: devices left disabled, INF files not recognised, by failures
    unseen,     \* history: devices that an uninstallation passed over
    faults      \* history: how many failures

vars == <<st, stuck, oem, files, reg, cmd, lost, unseen, faults>>

Keys == {"service", "eventlog", "class"}
Op == {"reload", "update", "disable", "enable", "preinstall", "uninstall", "infclean"}
NoCmd == [op |-> "none", silent |-> FALSE, phase |-> "idle", class |-> "bus",
          todo |-> {}, set |-> {}, reboot |-> FALSE, was |-> [d \in Dev |-> "none"]]
Phase == {"idle", "disable", "driver", "restore", "enable", "remove", "removeAll",
          "service", "eventlog", "class", "infs", "files", "preClass", "preInf",
          "exclude", "list", "scan"}

TypeOK ==
    /\ st \in [Dev -> {"none", "on", "off"}]
    /\ stuck \subseteq Dev /\ oem \subseteq Inf /\ reg \subseteq Keys
    /\ files \in BOOLEAN /\ lost \subseteq Dev \cup Inf /\ unseen \subseteq Dev
    /\ faults \in 0..MaxFaults
    /\ cmd \in [op : Op \cup {"none"}, silent : BOOLEAN, phase : Phase, class : OwnInf,
                todo : SUBSET (Dev \cup Inf), set : SUBSET (Dev \cup Inf),
                reboot : BOOLEAN, was : [Dev -> {"none", "on", "off", "pending"}]]

Init ==
    /\ st = [d \in Dev |-> "none"]
    /\ stuck = {} /\ oem = OtherInf /\ files = FALSE /\ reg = {}
    /\ cmd = NoCmd /\ lost = {} /\ unseen = {} /\ faults = 0

drvVars == <<oem, files, reg>>
Idle == cmd = NoCmd
End == cmd' = NoCmd
Goto(ph, more) ==
    cmd' = [NoCmd EXCEPT !.op = cmd.op, !.silent = cmd.silent, !.reboot = cmd.reboot,
                         !.phase = ph, !.todo = more]
Step(x) == cmd' = [cmd EXCEPT !.todo = @ \ {x}]
Fault(S) == /\ faults < MaxFaults /\ faults' = faults + 1
            /\ lost' = lost \cup S /\ UNCHANGED unseen
NoFault == UNCHANGED <<lost, unseen, faults>>

(* ShowMsg: nobody answers in silent mode, and 0 is none of the buttons.   *)
Answer(b) == ~cmd.silent /\ b \in {"cancel", "try", "continue"}

(* Devices that SetupDiGetClassDevs finds with DIGCF_PRESENT: a port that  *)
(* is enumerated by a running bus, a bus whether enabled or not.           *)
Present(d) == /\ st[d] # "none"
              /\ d \in PortDev => st[BusOf[d]] = "on"

(* A device that is to be disabled by the next reboot is not yet disabled. *)
IsDisabled(d) == st[d] = "off" /\ d \notin stuck

(* What the command finds: off for good, off with the next reboot ("pending"), on. *)
Found == [d \in Dev |-> IF st[d] = "off" /\ ~IsDisabled(d) THEN "pending" ELSE st[d]]

(* A device that runs has the driver loaded.                               *)
Runs(d) == Present(d) /\ st[d] = "on"

Targets(op, c) == {d \in Dev : /\ Present(d)
                               /\ IF op = "uninstall" THEN d \in PortDev ELSE Kind(d) = c}

Start(op, c, silent, was) ==
    LET phase == CASE op \in {"reload", "update", "disable", "uninstall"} -> "disable"
                   [] op = "enable" -> "enable"
                   [] op = "preinstall" -> "preClass"
                   [] op = "infclean" -> "exclude"
    IN [NoCmd EXCEPT !.op = op, !.silent = silent, !.phase = phase, !.class = c, !.was = was,
                     !.todo = IF op \in {"preinstall", "infclean"} THEN {}
                              ELSE Targets(op, c)]

Main ==
    /\ Idle
    /\ \E op \in Op, silent \in BOOLEAN : 
          cmd' = Start(op, "bus", silent,
                       IF op \in {"preinstall", "infclean"} THEN NoCmd.was ELSE Found)
    /\ UNCHANGED <<st, stuck, drvVars>> /\ NoFault

----------------------------------------------------------------------------
(* A device that cannot be stopped holds the driver, if there is one.      *)
Held(d) == IF "service" \in reg THEN {stuck, stuck \cup {d}} ELSE {stuck}

(* DisableDevices.  Outcomes of DisableDevice for the next device.         *)
Cancel == IF cmd.op = "disable" THEN End
          ELSE cmd' = [cmd EXCEPT !.phase = "restore", !.todo = {}]

Visit(d) == cmd.phase = "disable" /\ d \in cmd.todo

(* Mutant: a device found disabled goes to the stack like the others.      *)
DisableSkippedPushed(d) ==
    /\ Visit(d) /\ IsDisabled(d)
    /\ cmd' = [cmd EXCEPT !.todo = @ \ {d}, !.set = @ \cup {d}]
    /\ UNCHANGED <<st, stuck, drvVars>> /\ NoFault

DisableSkipped(d) ==
    /\ Visit(d) /\ IsDisabled(d) /\ Step(d)
    /\ UNCHANGED <<st, stuck, drvVars>> /\ NoFault

(* Only what was disabled here goes to the stack.  A device that cannot be *)
(* stopped is left to the reboot when the user, or nobody, says continue.  *)
DisableDone(d) ==
    /\ Visit(d) /\ ~IsDisabled(d)
    /\ st' = [st EXCEPT ![d] = "off"]
    /\ \/ UNCHANGED stuck /\ cmd' = [cmd EXCEPT !.todo = @ \ {d}, !.set = @ \cup {d}]
       \/ /\ d \notin stuck /\ "service" \in reg
          /\ cmd.silent \/ Answer("continue")
          /\ stuck' = stuck \cup {d}
          /\ cmd' = [cmd EXCEPT !.todo = @ \ {d}, !.set = @ \cup {d}, !.reboot = TRUE]
    /\ UNCHANGED <<drvVars>> /\ NoFault

(* Mutant: a new attempt starts with an empty stack.                       *)
DisableRefusedForgets(d) ==
    /\ Visit(d) /\ ~IsDisabled(d) /\ d \notin stuck
    /\ \/ Answer("cancel") /\ Cancel
       \/ /\ Answer("try")
          /\ cmd' = [cmd EXCEPT !.todo = Targets(cmd.op, cmd.class), !.set = {}]
    /\ UNCHANGED <<st, stuck, drvVars>> /\ NoFault

(* Mutant: no answer is taken for "try again".                             *)
DisableRefusedInsists(d) ==
    /\ Visit(d) /\ ~IsDisabled(d) /\ d \notin stuck
    /\ \/ Answer("cancel") /\ Cancel
       \/ /\ Answer("try") \/ cmd.silent
          /\ cmd' = [cmd EXCEPT !.todo = Targets(cmd.op, cmd.class)]
    /\ UNCHANGED <<st, stuck, drvVars>> /\ NoFault

(* It cannot be stopped, is enabled again, and the user gives up or tries  *)
(* again: a new enumeration, with the same stack.                          *)
DisableRefused(d) ==
    /\ Visit(d) /\ ~IsDisabled(d) /\ d \notin stuck
    /\ \/ Answer("cancel") /\ Cancel
       \/ Answer("try") /\ cmd' = [cmd EXCEPT !.todo = Targets(cmd.op, cmd.class)]
    /\ UNCHANGED <<st, stuck, drvVars>> /\ NoFault

DisableFailed(d) ==
    /\ Visit(d) /\ ~IsDisabled(d) /\ Cancel
    /\ UNCHANGED <<st, stuck, drvVars>> /\ NoFault

(* Disabled, but its state cannot be read, or it cannot be stopped and then*)
(* not be enabled again and runs on until the reboot: DisableDevice returns*)
(* before it has pushed the device.                                        *)
DisableLost(d) ==
    /\ Visit(d) /\ ~IsDisabled(d) /\ d \notin stuck /\ Cancel
    /\ st' = [st EXCEPT ![d] = "off"] /\ Fault({d})
    /\ stuck' \in Held(d)
    /\ UNCHANGED <<drvVars>>

(* EnumDevices: the hardware id of the device cannot be read, and no filter*)
(* knows it.  No loop after the second one of uninstall comes back to it.  *)
PassedOver(d) ==
    /\ cmd.phase \in {"disable", "remove", "removeAll"} /\ d \in cmd.todo /\ Step(d)
    /\ faults < MaxFaults /\ faults' = faults + 1
    /\ unseen' = IF cmd.phase = "removeAll" THEN unseen \cup {d} ELSE unseen
    /\ UNCHANGED <<st, stuck, drvVars, lost>>

Disabled ==
    /\ cmd.phase = "disable" /\ cmd.todo = {}
    /\ CASE cmd.op = "disable" -> End
         [] cmd.op = "reload" -> cmd' = [cmd EXCEPT !.phase = "restore"]
         [] cmd.op = "update" -> cmd' = [cmd EXCEPT !.phase = "driver"]
         [] cmd.op = "uninstall" -> Goto("remove", {d \in Bus : st[d] # "none"})
    /\ UNCHANGED <<st, stuck, drvVars>> /\ NoFault

(* Reload for one entry of infFileInstallList: UpdateDriver, if there is a *)
(* device for it; failures that do not matter, "continue" and --no-update  *)
(* go on, "cancel" goes on with the next entry too.                        *)
UpdateDriver ==
    /\ cmd.phase = "driver"
    /\ \/ /\ \E d \in Dev : Kind(d) = cmd.class /\ st[d] # "none"
          /\ oem' = oem \cup {cmd.class} /\ lost' = lost \ {cmd.class}
          /\ cmd' = [cmd EXCEPT !.phase = "restore"]
       \/ cmd' = [cmd EXCEPT !.phase = "restore"] /\ UNCHANGED <<oem, lost>>
       \/ Answer("try") /\ UNCHANGED <<cmd, oem, lost>>
    /\ UNCHANGED <<st, stuck, files, reg, unseen, faults>>

(* CleanDevPropertiesStack(stack, TRUE).                                   *)
EnableDevice(d) ==
    \/ /\ st' = [st EXCEPT ![d] = "on"] /\ stuck' = stuck \ {d}
       /\ lost' = lost \ {d} /\ UNCHANGED <<unseen, faults>>
    \/ UNCHANGED <<st, stuck>> /\ Fault({d})

Restore(d) ==
    /\ cmd.phase = "restore" /\ d \in cmd.set
    /\ EnableDevice(d)
    /\ cmd' = [cmd EXCEPT !.set = @ \ {d}]
    /\ UNCHANGED <<drvVars>>

NextClass == IF cmd.class = "bus" THEN "cncport" ELSE "comport"

Restored ==
    /\ cmd.phase = "restore" /\ cmd.set = {}
    /\ IF cmd.op = "update" /\ cmd.class # "comport"
       THEN cmd' = Start("update", NextClass, cmd.silent, cmd.was)
       ELSE End
    /\ UNCHANGED <<st, stuck, drvVars>> /\ NoFault

EnableAll ==
    /\ cmd.phase = "enable"
    /\ \/ \E d \in cmd.todo : EnableDevice(d) /\ Step(d)
       \/ cmd.todo = {} /\ End /\ UNCHANGED <<st, stuck>> /\ NoFault
    /\ UNCHANGED <<drvVars>>

----------------------------------------------------------------------------
(* uninstall.  RemoveDevices: first the bus devices, then all that is left.*)
(* The removed device may need a reboot; only the first call is told.      *)
RemoveDevice(d) ==
    /\ cmd.phase \in {"remove", "removeAll"} /\ d \in cmd.todo
    /\ st' = [st EXCEPT ![d] = "none"] /\ lost' = lost \ {d} /\ unseen' = unseen \ {d}
    /\ stuck' \in Held(d)
    /\ \/ cmd' = [cmd EXCEPT !.todo = @ \ {d},
                             !.reboot = @ \/ (cmd.phase = "remove" /\ d \in stuck')]
       \/ End       \* its state cannot be read
    /\ UNCHANGED <<drvVars, faults>>

(* Mutant: a device that cannot be removed is passed over.                 *)
RemoveFailedGoesOn ==
    /\ cmd.phase \in {"remove", "removeAll"} /\ cmd.todo # {}
    /\ cmd' = [cmd EXCEPT !.todo = {}]
    /\ UNCHANGED <<st, stuck, drvVars>> /\ NoFault

RemoveFailed ==
    /\ cmd.phase \in {"remove", "removeAll"} /\ cmd.todo # {} /\ End
    /\ UNCHANGED <<st, stuck, drvVars>> /\ NoFault

Removed ==
    /\ cmd.phase \in {"remove", "removeAll"} /\ cmd.todo = {}
    /\ IF cmd.phase = "remove" THEN Goto("removeAll", {d \in Dev : st[d] # "none"})
       ELSE IF cmd.reboot THEN End
       ELSE Goto("service", {})
    /\ UNCHANGED <<st, stuck, drvVars>> /\ NoFault

(* Mutant: a service that runs is passed over without a question.          *)
DeleteServiceGoesOn ==
    /\ cmd.phase = "service" /\ Goto("eventlog", {})
    /\ reg' \in {reg, reg \ {"service"}}
    /\ UNCHANGED <<st, stuck, oem, files>> /\ NoFault

(* The service is only deleted when it is stopped, which it cannot be as   *)
(* long as a device holds the driver, and when nobody objects.  A failure, *)
(* or a service that runs, may be passed over by the user.                 *)
DeleteService ==
    /\ cmd.phase = "service"
    /\ \/ /\ "service" \in reg => stuck = {} /\ \A d \in Dev : ~Runs(d)
          /\ reg' = reg \ {"service"} /\ Goto("eventlog", {})
       \/ /\ UNCHANGED reg
          /\ \/ ~cmd.silent /\ Goto("eventlog", {})
             \/ Answer("try") /\ UNCHANGED cmd
             \/ End
    /\ UNCHANGED <<st, stuck, oem, files>> /\ NoFault

(* The keys of the event log and of the device class.                      *)
DeleteKey ==
    LET next == IF cmd.phase = "eventlog" THEN "class" ELSE "infs" IN
    /\ cmd.phase \in {"eventlog", "class"}
    /\ \/ reg' = reg \ {cmd.phase} /\ Goto(next, {})
       \/ /\ UNCHANGED reg
          /\ \/ Answer("continue") /\ Goto(next, {})
             \/ Answer("try") /\ UNCHANGED cmd
             \/ End
    /\ UNCHANGED <<st, stuck, oem, files>> /\ NoFault

(* UninstallOEMInf for the three INF files of this version; that UninstallInf*)
(* fails is ignored, that the installed copy is not found is put to the user.*)
AfterInf == IF cmd.class = "bus" THEN Goto("files", {})
            ELSE IF cmd.class = "cncport" THEN cmd' = [cmd EXCEPT !.class = "comport"]
            ELSE Goto("list", {})

UninstallOEMInf ==
    /\ cmd.phase = "infs"
    /\ \/ AfterInf /\ oem' \in {oem, oem \ {cmd.class}}
       \/ (Answer("cancel") \/ cmd.silent) /\ End /\ UNCHANGED oem
    /\ UNCHANGED <<st, stuck, files, reg>> /\ NoFault

UninstallFiles ==
    /\ cmd.phase = "files"
    /\ \/ files' = FALSE /\ cmd' = [cmd EXCEPT !.phase = "infs", !.class = "cncport"]
       \/ /\ UNCHANGED files
          /\ \/ Answer("continue") /\ cmd' = [cmd EXCEPT !.phase = "infs", !.class = "cncport"]
             \/ Answer("try") /\ UNCHANGED cmd
             \/ End
    /\ UNCHANGED <<st, stuck, oem, reg>> /\ NoFault

----------------------------------------------------------------------------
(* infclean: the installed copies of this version are kept.  One that      *)
(* SetupCopyOEMInf fails to name is not on the list of exclusions.         *)
ExcludeOwn ==
    /\ cmd.phase = "exclude"
    /\ \E missed \in SUBSET (OwnInf \cap oem) :
          /\ cmd' = [cmd EXCEPT !.phase = "list", !.set = (OwnInf \cap oem) \ missed]
          /\ IF missed = {} THEN NoFault ELSE Fault(missed)
    /\ UNCHANGED <<st, stuck, drvVars>>

(* UninstallAllInfFiles.                                                   *)
ListInfs ==
    /\ cmd.phase = "list"
    /\ \/ cmd' = [cmd EXCEPT !.phase = "scan", !.todo = oem]
       \/ End
    /\ UNCHANGED <<st, stuck, drvVars>> /\ NoFault

ScanInf(f) ==
    /\ cmd.phase = "scan" /\ cmd.todo # {} /\ f = CHOOSE g \in cmd.todo : TRUE
    /\ Step(f)
    /\ \/ /\ f \notin cmd.set
          /\ MatchOf(f) = "tag" \/ (MatchOf(f) = "class" /\ ~cmd.silent)
          /\ oem' = oem \ {f}
       \/ UNCHANGED oem
    /\ UNCHANGED <<st, stuck, files, reg>> /\ NoFault

Scanned ==
    /\ cmd.phase = "scan" /\ cmd.todo = {} /\ End
    /\ UNCHANGED <<st, stuck, drvVars>> /\ NoFault

(* preinstall: the device class, for the bus only, then each INF file.     *)
PreinstallClass ==
    /\ cmd.phase = "preClass"
    /\ \/ reg' = reg \cup {"class"} /\ Goto("preInf", {})
       \/ /\ UNCHANGED reg
          /\ \/ Answer("continue") /\ Goto("preInf", {})
             \/ Answer("try") /\ UNCHANGED cmd
             \/ End
    /\ UNCHANGED <<st, stuck, oem, files>> /\ NoFault

InstallOEMInf ==
    /\ cmd.phase = "preInf"
    /\ \/ /\ oem' = oem \cup {cmd.class} /\ lost' = lost \ {cmd.class}
          /\ IF cmd.class = "comport" THEN End ELSE cmd' = [cmd EXCEPT !.class = NextClass]
       \/ End /\ UNCHANGED <<oem, lost>>
    /\ UNCHANGED <<st, stuck, files, reg, unseen, faults>>

----------------------------------------------------------------------------
(* install <A> <B> has come to its end: see Com0comPairs.                  *)
InstallPair(b) ==
    /\ Idle /\ st[b] = "none"
    /\ st' = [d \in Dev |-> IF d = b \/ (d \in PortDev /\ BusOf[d] = b) THEN "on" ELSE st[d]]
    /\ oem' = oem \cup OwnInf /\ files' = TRUE /\ reg' = Keys
    /\ lost' = lost \ (OwnInf \cup {d \in Dev : st[d] # st'[d]})
    /\ unseen' = unseen \ {d \in Dev : st[d] # st'[d]}
    /\ UNCHANGED <<stuck, cmd, faults>>

(* The user ends setup.                                                    *)
Crash ==
    /\ ~Idle /\ End
    /\ UNCHANGED <<st, stuck, drvVars>> /\ NoFault

Reboot ==
    /\ Idle /\ stuck # {} /\ stuck' = {}
    /\ UNCHANGED <<st, drvVars, cmd>> /\ NoFault

Command ==
    \/ Disabled \/ UpdateDriver \/ Restored \/ EnableAll \/ RemoveFailed \/ Removed
    \/ DeleteService \/ DeleteKey \/ UninstallOEMInf \/ UninstallFiles
    \/ ExcludeOwn \/ ListInfs \/ Scanned \/ PreinstallClass \/ InstallOEMInf
    \/ \E d \in Dev : \/ DisableSkipped(d) \/ DisableDone(d) \/ DisableRefused(d)
                      \/ DisableFailed(d) \/ DisableLost(d) \/ Restore(d)
                      \/ RemoveDevice(d) \/ PassedOver(d)
    \/ \E f \in Inf : ScanInf(f)

Next == Main \/ Command \/ Crash \/ Reboot \/ \E b \in Bus : InstallPair(b)

(* The command runs; no user is assumed to answer.                         *)
Spec == Init /\ [][Next]_vars /\ WF_vars(Command)

----------------------------------------------------------------------------
(* A device that was disabled when a command began is not enabled by it,   *)
(* unless the command is "enable all": the stack holds nothing but what    *)
(* the command itself disabled, whatever was tried again.                  *)
OffStaysOff ==
    [][~Idle /\ cmd.op # "enable" =>
          \A d \in Dev : cmd.was[d] = "off" => st'[d] # "on"]_vars

(* When reload, a step of update or a cancelled uninstall has put things   *)
(* back, each device that was enabled before is enabled again, also after  *)
(* a refusal half way and after enumerations that started anew.            *)
ActiveRestored ==
    [][Restored => \A d \in Dev \ lost : cmd.was[d] = "on" => st[d] = "on"]_vars

(* As long as a device is installed its INF file, the driver's files and   *)
(* its service stay, wherever a command fails, is cancelled or is stopped; *)
(* but not those of a device that the last loop of uninstall did not see.  *)
DevicesKeepDriver ==
    \A d \in Dev \ unseen : st[d] # "none" =>
        Kind(d) \in oem \cup lost /\ files /\ "service" \in reg

(* While a device holds the driver until the next reboot, its service is   *)
(* never deleted, and its files not unless a user insists.                 *)
LoadedDriverStays ==
    [][stuck # {} => /\ "service" \in reg => "service" \in reg'
                     /\ files /\ cmd.silent => files']_vars

(* A silent command comes to its end without an answer: no loop waits for  *)
(* a "try again" or takes the missing answer for one.                      *)
SilentCommandsEnd == (cmd.silent /\ ~Idle) ~> Idle
=============================================================================

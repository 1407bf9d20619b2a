------------------------ MODULE Com0comDriver_proofs ------------------------
(***************************************************************************)
(* Proofs about the commands of setup that act on all devices and on the   *)
(* driver: what TLC checks of Com0comDriver for two buses and a port holds *)
(* for any devices and any INF files.  All properties follow from one      *)
(* inductive invariant, which says what the command may rely on at each    *)
(* point of its way.                                                       *)
(***************************************************************************)
EXTENDS Com0comDriver, TLAPS

Installed == {d \in Dev : st[d] # "none"}
Seen == Installed \ unseen

(* The loops over devices only see installed ones; the second loop of an   *)
(* uninstallation has all of them before it, or has passed over them.      *)
Stacking == {"disable", "driver", "restore"}
LoopInv ==
    /\ cmd.phase \in {"disable", "enable", "remove", "removeAll"} => cmd.todo \subseteq Installed
    /\ cmd.phase = "removeAll" => Seen \subseteq cmd.todo
    /\ cmd.phase = "enable" => cmd.op = "enable"
    /\ cmd.phase \in Stacking => cmd.op \in {"reload", "update", "disable", "uninstall"}

(* What the stack holds while devices are disabled and enabled again: what *)
(* was enabled and is not, and nothing that was disabled for good.         *)
StackInv ==
    cmd.phase \in Stacking =>
        /\ cmd.set \subseteq Installed
        /\ \A d \in cmd.set : cmd.was[d] # "off"
        /\ \A d \in Dev \ lost : cmd.was[d] = "on" => st[d] = "on" \/ d \in cmd.set

(* A device found disabled is removed or still disabled.                   *)
WasInv ==
    \A d \in Dev : cmd.was[d] = "off" /\ cmd.op # "enable" => st[d] = "none" \/ IsDisabled(d)

(* Setup gets to the service, the keys and the files without devices that  *)
(* it has seen, and past the service in silent mode only when nothing holds*)
(* the driver.                                                             *)
After == {"service", "eventlog", "class", "infs", "files"}
GoneInv ==
    /\ cmd.phase \in After => Seen = {}
    /\ cmd.phase \in After \ {"service"} /\ cmd.silent => stuck = {}

StuckInv == stuck # {} => "service" \in reg

(* infclean keeps the own INF files, unless it failed to recognise them or *)
(* follows an uninstallation.                                              *)
CleanInv ==
    cmd.phase \in {"list", "scan"} =>
        Seen = {} \/ OwnInf \cap oem \subseteq cmd.set \cup lost

(* DevicesKeepDriver alone is not inductive: a step that deletes something *)
(* has to know that its command has removed the devices before.            *)
CmdInv == LoopInv /\ StackInv /\ WasInv /\ GoneInv /\ CleanInv
IInv == TypeOK /\ DevicesKeepDriver /\ StuckInv /\ CmdInv

CmdType == [op : Op \cup {"none"}, silent : BOOLEAN, phase : Phase, class : OwnInf,
            todo : SUBSET (Dev \cup Inf), set : SUBSET (Dev \cup Inf),
            reboot : BOOLEAN, was : [Dev -> {"none", "on", "off", "pending"}]]

----------------------------------------------------------------------------
(* The records a command goes through.                                     *)
LEMMA PhaseFacts ==
    /\ {"idle", "enable", "remove", "removeAll", "list", "scan", "exclude", "preClass",
        "preInf"} \cup Stacking \cup After \subseteq Phase
    /\ OwnInf = {"bus", "cncport", "comport"} /\ OwnInf \subseteq Inf
  BY DEF Phase, Stacking, After, OwnInf, Inf

LEMMA NoCmdType ==
    /\ NoCmd \in CmdType /\ NoCmd.phase = "idle" /\ NoCmd.op = "none"
    /\ NoCmd.set = {} /\ NoCmd.todo = {} /\ NoCmd.was = [d \in Dev |-> "none"]
  BY DEF NoCmd, CmdType, Phase, Op, OwnInf

LEMMA GotoType ==
    ASSUME cmd \in CmdType, NEW ph \in Phase, NEW more \in SUBSET (Dev \cup Inf), Goto(ph, more)
    PROVE  /\ cmd' \in CmdType
           /\ cmd'.phase = ph /\ cmd'.todo = more /\ cmd'.set = {}
           /\ cmd'.op = cmd.op /\ cmd'.silent = cmd.silent
           /\ cmd'.was = [d \in Dev |-> "none"]
  BY NoCmdType DEF Goto, CmdType

LEMMA StartFacts ==
    ASSUME NEW op \in Op, NEW c \in OwnInf, NEW silent \in BOOLEAN,
           NEW was \in [Dev -> {"none", "on", "off", "pending"}]
    PROVE  LET s == Start(op, c, silent, was) IN
           /\ s \in CmdType /\ s.op = op /\ s.was = was /\ s.set = {} /\ s.silent = silent
           /\ s.phase \in {"disable", "enable", "preClass", "exclude"}
           /\ s.phase = "enable" => op = "enable"
           /\ s.phase = "disable" => op \in {"reload", "update", "disable", "uninstall"}
           /\ s.todo \subseteq Installed
  <1> DEFINE phase == CASE op \in {"reload", "update", "disable", "uninstall"} -> "disable"
                        [] op = "enable" -> "enable"
                        [] op = "preinstall" -> "preClass"
                        [] op = "infclean" -> "exclude"
             todo == IF op \in {"preinstall", "infclean"} THEN {} ELSE Targets(op, c)
  <1>1. /\ phase \in {"disable", "enable", "preClass", "exclude"}
        /\ phase = "enable" => op = "enable"
        /\ phase = "disable" => op \in {"reload", "update", "disable", "uninstall"}
    BY DEF Op
  <1>2. todo \subseteq Installed
    BY DEF Targets, Present, Installed, Dev
  <1>3. Start(op, c, silent, was) =
            [NoCmd EXCEPT !.op = op, !.silent = silent, !.phase = phase, !.class = c,
                          !.was = was, !.todo = todo]
    BY DEF Start
  <1>4. phase \in Phase
    BY <1>1 DEF Phase
  <1>5. todo \in SUBSET (Dev \cup Inf)
    BY <1>2 DEF Installed
  <1> DEFINE s == Start(op, c, silent, was)
  <1> HIDE DEF phase, todo
  <1>6. /\ s \in CmdType /\ s.op = op /\ s.was = was /\ s.set = {} /\ s.silent = silent
        /\ s.phase = phase /\ s.todo = todo
    BY <1>3, <1>4, <1>5, NoCmdType DEF CmdType
  <1> HIDE DEF s
  <1> QED BY <1>1, <1>2, <1>6 DEF s

LEMMA CmdFacts ==
    ASSUME IInv
    PROVE  /\ cmd \in CmdType /\ cmd.todo \in SUBSET (Dev \cup Inf)
           /\ cmd.set \in SUBSET (Dev \cup Inf) /\ cmd.class \in OwnInf
           /\ cmd.was \in [Dev -> {"none", "on", "off", "pending"}]
           /\ cmd.silent \in BOOLEAN /\ cmd.op \in Op \cup {"none"}
  <1>1. cmd \in CmdType
    BY DEF IInv, TypeOK, CmdType
  <1> QED BY <1>1 DEF CmdType

----------------------------------------------------------------------------
(* Kinds of steps.  A step that leaves the devices and the driver alone:   *)
Still == UNCHANGED <<st, stuck, oem, files, reg, lost, unseen, faults>>

LEMMA StillState ==
    ASSUME IInv, Still, cmd' \in CmdType
    PROVE  /\ TypeOK' /\ DevicesKeepDriver' /\ StuckInv' /\ Installed' = Installed /\ Seen' = Seen
           /\ \A d \in Dev : IsDisabled(d)' = IsDisabled(d)
  <1>1. TypeOK'
    BY DEF IInv, TypeOK, CmdType, Still
  <1> QED BY <1>1 DEF IInv, DevicesKeepDriver, StuckInv, Installed, Seen, IsDisabled, Still

(* The end of a command leaves nothing to say about it.                    *)
LEMMA EndInv == ASSUME End PROVE CmdInv' /\ cmd' \in CmdType
  <1>1. cmd' = NoCmd
    BY DEF End
  <1>2. LoopInv' /\ StackInv' /\ GoneInv' /\ CleanInv'
    BY <1>1, NoCmdType DEF LoopInv, StackInv, GoneInv, CleanInv, After, Stacking
  <1>3. WasInv'
    BY <1>1, NoCmdType DEF WasInv
  <1> QED BY <1>1, <1>2, <1>3, NoCmdType DEF CmdInv

LEMMA Ends == ASSUME IInv, Still, End PROVE IInv'
  BY EndInv, StillState DEF IInv

(* A step between two points of a command that nothing is claimed of, or   *)
(* that has forgotten what it found when it began.                         *)
LEMMA Forgets ==
    ASSUME cmd' \in CmdType, cmd'.phase \notin {"disable", "driver", "restore", "enable"},
           cmd'.was = [d \in Dev |-> "none"] 
    PROVE  StackInv' /\ WasInv'
  BY DEF StackInv, WasInv, Stacking

(* A command, or the next class of an update, begins.                      *)
LEMMA Starts ==
    ASSUME IInv, Still, NEW op \in Op, NEW c \in OwnInf, NEW silent \in BOOLEAN,
           NEW was \in [Dev -> {"none", "on", "off", "pending"}],
           cmd' = Start(op, c, silent, was),
           \A d \in Dev : was[d] = "off" /\ op # "enable" => st[d] = "none" \/ IsDisabled(d),
           \A d \in Dev \ lost : was[d] = "on" => st[d] = "on"
    PROVE  IInv'
  <1>1. /\ cmd' \in CmdType /\ cmd'.op = op /\ cmd'.was = was /\ cmd'.set = {}
        /\ cmd'.phase \in {"disable", "enable", "preClass", "exclude"}
        /\ cmd'.phase = "enable" => op = "enable"
        /\ cmd'.phase = "disable" => op \in {"reload", "update", "disable", "uninstall"}
        /\ cmd'.todo \subseteq Installed
    BY StartFacts
  <1>2. /\ TypeOK' /\ DevicesKeepDriver' /\ StuckInv' /\ Installed' = Installed /\ Seen' = Seen
        /\ \A d \in Dev : IsDisabled(d)' = IsDisabled(d)
    BY <1>1, StillState
  <1>3. LoopInv' /\ GoneInv' /\ CleanInv'
    BY <1>1, <1>2 DEF LoopInv, GoneInv, CleanInv, After, Stacking
  <1>4. StackInv'
    BY <1>1, <1>2 DEF StackInv, Still
  <1>5. WasInv'
    BY <1>1, <1>2 DEF WasInv, Still
  <1> QED BY <1>2, <1>3, <1>4, <1>5 DEF IInv, CmdInv

(* A step from one point of disabling and enabling again to another one,   *)
(* with the same stack.                                                    *)
LEMMA KeepsStack ==
    ASSUME IInv, Still, cmd.phase \in Stacking, cmd' \in CmdType, cmd'.phase \in Stacking,
           cmd'.op = cmd.op, cmd'.was = cmd.was, cmd'.set = cmd.set,
           cmd'.phase = "disable" => cmd'.todo \subseteq Installed
    PROVE  IInv'
  <1>1. /\ TypeOK' /\ DevicesKeepDriver' /\ StuckInv' /\ Installed' = Installed /\ Seen' = Seen
        /\ \A d \in Dev : IsDisabled(d)' = IsDisabled(d)
    BY StillState
  <1>2. LoopInv' /\ GoneInv' /\ CleanInv'
    BY <1>1 DEF IInv, CmdInv, LoopInv, GoneInv, CleanInv, After, Stacking
  <1>3. StackInv'
    BY <1>1 DEF IInv, CmdInv, StackInv, Still
  <1>4. WasInv'
    BY <1>1 DEF IInv, CmdInv, WasInv, Still
  <1> QED BY <1>1, <1>2, <1>3, <1>4 DEF IInv, CmdInv

(* With no device left, the rest of an uninstallation.                     *)
LEMMA Uninstalls ==
    ASSUME IInv, UNCHANGED <<st, stuck, lost, unseen, faults>>, Seen = {}, cmd' \in CmdType,
           cmd'.phase \in After \cup {"list"}, cmd'.silent = cmd.silent,
           \/ cmd'.was = [d \in Dev |-> "none"]
           \/ cmd'.was = cmd.was /\ cmd'.op = cmd.op,
           oem' \subseteq Inf, files' \in BOOLEAN, reg' \subseteq Keys,
           stuck # {} => "service" \in reg',
           cmd'.phase \in After \ {"service"} /\ cmd.silent => stuck = {}
    PROVE  IInv'
  <1>1. TypeOK'
    BY DEF IInv, TypeOK, CmdType
  <1>2. Seen' = {} /\ \A d \in Dev \ unseen : st'[d] = "none"
    BY DEF Seen, Installed
  <1>3. DevicesKeepDriver' /\ StuckInv'
    BY <1>2 DEF DevicesKeepDriver, StuckInv
  <1>4. LoopInv' /\ StackInv' /\ GoneInv' /\ CleanInv'
    BY <1>2 DEF LoopInv, StackInv, GoneInv, CleanInv, After, Stacking
  <1>5. WasInv'
    BY DEF IInv, CmdInv, WasInv, IsDisabled
  <1> QED BY <1>1, <1>3, <1>4, <1>5 DEF IInv, CmdInv

----------------------------------------------------------------------------
(* The steps of commands that leave the devices and the driver alone.      *)
LEMMA MainInv == ASSUME IInv, Main PROVE IInv'
  <1>1. Still
    BY DEF Main, Still, drvVars, NoFault
  <1>2. PICK op \in Op, silent \in BOOLEAN :
          cmd' = Start(op, "bus", silent,
                       IF op \in {"preinstall", "infclean"} THEN NoCmd.was ELSE Found)
    BY DEF Main
  <1>3. /\ Found \in [Dev -> {"none", "on", "off", "pending"}]
        /\ \A d \in Dev : /\ Found[d] = "off" => IsDisabled(d)
                          /\ Found[d] = "on" => st[d] = "on"
    BY DEF Found, IInv, TypeOK
  <1>4. "bus" \in OwnInf
    BY DEF OwnInf
  <1>5. CASE op \in {"preinstall", "infclean"}
    BY <1>1, <1>2, <1>4, <1>5, NoCmdType, Starts
  <1>6. CASE op \notin {"preinstall", "infclean"}
    BY <1>1, <1>2, <1>3, <1>4, <1>6, Starts
  <1> QED BY <1>5, <1>6

LEMMA TodoStep ==
    ASSUME cmd \in CmdType, NEW t \in SUBSET (Dev \cup Inf), cmd' = [cmd EXCEPT !.todo = t]
    PROVE  /\ cmd' \in CmdType /\ cmd'.todo = t /\ cmd'.phase = cmd.phase /\ cmd'.set = cmd.set
           /\ cmd'.op = cmd.op /\ cmd'.was = cmd.was /\ cmd'.silent = cmd.silent
  BY DEF CmdType

LEMMA PhaseStep ==
    ASSUME cmd \in CmdType, NEW ph \in Phase, NEW t \in SUBSET (Dev \cup Inf),
           cmd' = [cmd EXCEPT !.phase = ph] \/ cmd' = [cmd EXCEPT !.phase = ph, !.todo = t]
    PROVE  /\ cmd' \in CmdType /\ cmd'.phase = ph /\ cmd'.set = cmd.set
           /\ cmd'.op = cmd.op /\ cmd'.was = cmd.was /\ cmd'.silent = cmd.silent
           /\ cmd'.todo \in {cmd.todo, t}
  <1>1. CASE cmd' = [cmd EXCEPT !.phase = ph]
    BY <1>1 DEF CmdType
  <1>2. CASE cmd' = [cmd EXCEPT !.phase = ph, !.todo = t]
    <2>1. cmd' \in CmdType
      BY <1>2, ZenonT(20) DEF CmdType
    <2>2. /\ cmd'.phase = ph /\ cmd'.set = cmd.set /\ cmd'.op = cmd.op
          /\ cmd'.was = cmd.was /\ cmd'.silent = cmd.silent /\ cmd'.todo = t
      BY <1>2 DEF CmdType
    <2> QED BY <2>1, <2>2
  <1> QED BY <1>1, <1>2

LEMMA TargetsInstalled ==
    ASSUME NEW op, NEW c PROVE Targets(op, c) \subseteq Installed /\ Targets(op, c) \subseteq Dev
  BY DEF Targets, Present, Installed

(* A refusal: the user gives up, which begins to restore, or tries again.  *)
LEMMA CancelInv == ASSUME IInv, Still, cmd.phase = "disable", Cancel PROVE IInv'
  <1>1. CASE End
    BY <1>1, Ends
  <1>2. CASE cmd' = [cmd EXCEPT !.phase = "restore", !.todo = {}]
    <2>0. cmd \in CmdType /\ "restore" \in Phase /\ {} \in SUBSET (Dev \cup Inf)
      BY CmdFacts DEF Phase
    <2>1. /\ cmd' \in CmdType /\ cmd'.phase = "restore" /\ cmd'.set = cmd.set
          /\ cmd'.op = cmd.op /\ cmd'.was = cmd.was
      BY <1>2, <2>0, PhaseStep
    <2> QED BY <2>1, KeepsStack DEF Stacking
  <1> QED BY <1>1, <1>2 DEF Cancel

LEMMA DisableSkippedInv == ASSUME IInv, NEW d \in Dev, DisableSkipped(d) PROVE IInv'
  <1>1. Still /\ cmd.phase = "disable" /\ cmd' = [cmd EXCEPT !.todo = cmd.todo \ {d}]
    BY DEF DisableSkipped, Visit, Step, Still, drvVars, NoFault
  <1>2. /\ cmd' \in CmdType /\ cmd'.phase = "disable" /\ cmd'.set = cmd.set
        /\ cmd'.op = cmd.op /\ cmd'.was = cmd.was /\ cmd'.todo \subseteq cmd.todo
    <2>1. cmd \in CmdType /\ cmd.todo \ {d} \in SUBSET (Dev \cup Inf)
      BY CmdFacts
    <2> QED BY <1>1, <2>1, TodoStep
  <1>3. cmd.todo \subseteq Installed
    BY <1>1 DEF IInv, CmdInv, LoopInv
  <1> QED BY <1>1, <1>2, <1>3, KeepsStack DEF Stacking

LEMMA DisableRefusedInv == ASSUME IInv, NEW d \in Dev, DisableRefused(d) PROVE IInv'
  <1>1. Still /\ cmd.phase = "disable"
    BY DEF DisableRefused, Visit, Still, drvVars, NoFault
  <1>2. CASE Cancel
    BY <1>1, <1>2, CancelInv
  <1>3. CASE cmd' = [cmd EXCEPT !.todo = Targets(cmd.op, cmd.class)]
    <2>1. /\ cmd' \in CmdType /\ cmd'.phase = "disable" /\ cmd'.set = cmd.set
          /\ cmd'.op = cmd.op /\ cmd'.was = cmd.was /\ cmd'.todo \subseteq Installed
      BY <1>1, <1>3, CmdFacts, TodoStep, TargetsInstalled
    <2> QED BY <1>1, <2>1, KeepsStack DEF Stacking
  <1> QED BY <1>2, <1>3 DEF DisableRefused

LEMMA DisableFailedInv == ASSUME IInv, NEW d \in Dev, DisableFailed(d) PROVE IInv'
  <1>1. Still /\ cmd.phase = "disable" /\ Cancel
    BY DEF DisableFailed, Visit, Still, drvVars, NoFault
  <1> QED BY <1>1, CancelInv

(* A step to one of the two loops that remove devices.                     *)
LEMMA Removes ==
    ASSUME IInv, Still, cmd' \in CmdType, cmd'.was = [d \in Dev |-> "none"],
           cmd'.phase \in {"remove", "removeAll"}, cmd'.todo \subseteq Installed,
           cmd'.phase = "removeAll" => Seen \subseteq cmd'.todo
    PROVE  IInv'
  <1>1. TypeOK' /\ DevicesKeepDriver' /\ StuckInv' /\ Installed' = Installed /\ Seen' = Seen
    BY StillState
  <1>2. LoopInv' /\ GoneInv' /\ CleanInv'
    BY <1>1 DEF LoopInv, GoneInv, CleanInv, After, Stacking
  <1>3. StackInv' /\ WasInv'
    BY Forgets
  <1> QED BY <1>1, <1>2, <1>3 DEF IInv, CmdInv

LEMMA DisabledInv == ASSUME IInv, Disabled PROVE IInv'
  <1>1. Still /\ cmd.phase = "disable"
    BY DEF Disabled, Still, drvVars, NoFault
  <1>2. cmd.op \in {"reload", "update", "disable", "uninstall"}
    BY <1>1 DEF IInv, CmdInv, LoopInv, Stacking
  <1>3. CASE cmd.op = "disable"
    BY <1>1, <1>3, Ends DEF Disabled
  <1>4. CASE cmd.op \in {"reload", "update"}
    <2>1. PICK ph \in {"restore", "driver"} : cmd' = [cmd EXCEPT !.phase = ph]
      BY <1>4 DEF Disabled
    <2>2. /\ cmd' \in CmdType /\ cmd'.phase = ph /\ cmd'.set = cmd.set
          /\ cmd'.op = cmd.op /\ cmd'.was = cmd.was
      BY <2>1, CmdFacts, PhaseStep, PhaseFacts DEF Stacking
    <2> QED BY <1>1, <2>2, KeepsStack DEF Stacking
  <1>5. CASE cmd.op = "uninstall"
    <2> DEFINE buses == {d \in Bus : st[d] # "none"}
    <2>1. Goto("remove", buses)
      BY <1>5 DEF Disabled
    <2>2. buses \subseteq Installed /\ buses \in SUBSET (Dev \cup Inf)
      BY DEF Installed, Dev
    <2>3. /\ cmd' \in CmdType /\ cmd'.phase = "remove" /\ cmd'.todo = buses
          /\ cmd'.was = [d \in Dev |-> "none"]
      BY <2>1, <2>2, CmdFacts, GotoType, PhaseFacts
    <2> QED BY <1>1, <2>2, <2>3, Removes
  <1> QED BY <1>2, <1>3, <1>4, <1>5

(* The end of a restoration: the stack is empty, so what was enabled is.   *)
LEMMA RestoredFacts ==
    ASSUME IInv, Restored
    PROVE  /\ \A d \in Dev \ lost : cmd.was[d] = "on" => st[d] = "on"
           /\ cmd.op # "enable"
  BY DEF Restored, IInv, CmdInv, StackInv, LoopInv, Stacking

LEMMA RestoredInv == ASSUME IInv, Restored PROVE IInv'
  <1>1. Still
    BY DEF Restored, Still, drvVars, NoFault
  <1>2. CASE cmd.op = "update" /\ cmd.class # "comport"
    <2>1. cmd' = Start("update", NextClass, cmd.silent, cmd.was)
      BY <1>2 DEF Restored
    <2>2. "update" \in Op /\ NextClass \in OwnInf
      BY DEF Op, OwnInf, NextClass
    <2>3. \A d \in Dev : cmd.was[d] = "off" => st[d] = "none" \/ IsDisabled(d)
      BY RestoredFacts DEF IInv, CmdInv, WasInv
    <2> QED BY <1>1, <2>1, <2>2, <2>3, CmdFacts, RestoredFacts, Starts
  <1>3. CASE ~(cmd.op = "update" /\ cmd.class # "comport")
    BY <1>1, <1>3, Ends DEF Restored
  <1> QED BY <1>2, <1>3

LEMMA RemoveFailedInv == ASSUME IInv, RemoveFailed PROVE IInv'
  <1>1. Still /\ End
    BY DEF RemoveFailed, Still, drvVars, NoFault
  <1> QED BY <1>1, Ends

LEMMA RemovedInv == ASSUME IInv, Removed PROVE IInv'
  <1>1. Still
    BY DEF Removed, Still, drvVars, NoFault
  <1>2. CASE cmd.phase = "remove"
    <2> DEFINE left == {d \in Dev : st[d] # "none"}
    <2>1. Goto("removeAll", left) /\ left = Installed /\ Seen \subseteq left
      BY <1>2 DEF Removed, Installed, Seen
    <2>2. left \in SUBSET (Dev \cup Inf) /\ cmd \in CmdType /\ "removeAll" \in Phase
      BY CmdFacts DEF Phase
    <2>3. /\ cmd' \in CmdType /\ cmd'.phase = "removeAll" /\ cmd'.todo = left
          /\ cmd'.was = [d \in Dev |-> "none"]
      BY <2>1, <2>2, GotoType
    <2> QED BY <1>1, <2>1, <2>3, Removes
  <1>3. CASE cmd.phase = "removeAll" /\ Goto("service", {})
    <2>1. cmd \in CmdType /\ "service" \in Phase /\ {} \in SUBSET (Dev \cup Inf)
      BY CmdFacts DEF Phase
    <2>2. /\ cmd' \in CmdType /\ cmd'.phase = "service" /\ cmd'.silent = cmd.silent
          /\ cmd'.was = [d \in Dev |-> "none"]
      BY <1>3, <2>1, GotoType
    <2>3. Seen = {} /\ (stuck # {} => "service" \in reg)
      BY <1>3 DEF Removed, IInv, CmdInv, LoopInv, StuckInv
    <2>4. oem \subseteq Inf /\ files \in BOOLEAN /\ reg \subseteq Keys
      BY DEF IInv, TypeOK
    <2> QED BY <1>1, <2>2, <2>3, <2>4, Uninstalls DEF Still, After
  <1>4. CASE End
    BY <1>1, <1>4, Ends
  <1> QED BY <1>2, <1>3, <1>4 DEF Removed

(* The steps that follow in an uninstallation, with no device left.        *)
LEMMA GotoUninstalls ==
    ASSUME IInv, UNCHANGED <<st, stuck, lost, unseen, faults>>, Seen = {},
           NEW ph \in After \cup {"list"}, Goto(ph, {}),
           oem' \subseteq Inf, files' \in BOOLEAN, reg' \subseteq Keys,
           stuck # {} => "service" \in reg',
           ph \in After \ {"service"} /\ cmd.silent => stuck = {}
    PROVE  IInv'
  <1>1. cmd \in CmdType /\ ph \in Phase /\ {} \in SUBSET (Dev \cup Inf)
    BY CmdFacts, PhaseFacts
  <1>2. /\ cmd' \in CmdType /\ cmd'.phase = ph /\ cmd'.silent = cmd.silent
        /\ cmd'.was = [d \in Dev |-> "none"]
    BY <1>1, GotoType
  <1> QED BY <1>2, Uninstalls

(* The command ends, or asks again, after a step that took nothing away.   *)
LEMMA Stays == ASSUME IInv, Still, UNCHANGED cmd PROVE IInv'
  <1>1. cmd' \in CmdType
    BY CmdFacts
  <1>2. TypeOK' /\ DevicesKeepDriver' /\ StuckInv' /\ Installed' = Installed /\ Seen' = Seen
    BY <1>1, StillState
  <1>3. LoopInv' /\ StackInv' /\ GoneInv' /\ CleanInv'
    BY <1>2 DEF IInv, CmdInv, LoopInv, StackInv, GoneInv, CleanInv, Still
  <1>4. WasInv'
    BY DEF IInv, CmdInv, WasInv, IsDisabled, Still
  <1> QED BY <1>2, <1>3, <1>4 DEF IInv, CmdInv

LEMMA DeleteServiceInv == ASSUME IInv, DeleteService PROVE IInv'
  <1>1. cmd.phase = "service" /\ UNCHANGED <<st, stuck, oem, files, lost, unseen, faults>>
    BY DEF DeleteService, NoFault
  <1>2. /\ Seen = {} /\ (stuck # {} => "service" \in reg)
        /\ oem' \subseteq Inf /\ files' \in BOOLEAN /\ reg \subseteq Keys
    BY <1>1 DEF IInv, CmdInv, GoneInv, After, StuckInv, TypeOK
  <1>3. CASE /\ "service" \in reg => stuck = {}
             /\ reg' = reg \ {"service"} /\ Goto("eventlog", {})
    BY <1>1, <1>2, <1>3, GotoUninstalls DEF After
  <1>4. CASE UNCHANGED reg /\ ~cmd.silent /\ Goto("eventlog", {})
    BY <1>1, <1>2, <1>4, GotoUninstalls DEF After
  <1>5. CASE UNCHANGED <<reg, cmd>>
    BY <1>1, <1>5, Stays DEF Still
  <1>6. CASE UNCHANGED reg /\ End
    BY <1>1, <1>6, Ends DEF Still
  <1> QED BY <1>3, <1>4, <1>5, <1>6 DEF DeleteService

LEMMA DeleteKeyInv == ASSUME IInv, DeleteKey PROVE IInv'
  <1> DEFINE next == IF cmd.phase = "eventlog" THEN "class" ELSE "infs"
  <1>1. /\ cmd.phase \in {"eventlog", "class"} /\ next \in After \ {"service"}
        /\ UNCHANGED <<st, stuck, oem, files, lost, unseen, faults>>
    BY DEF DeleteKey, NoFault, After
  <1>2. /\ Seen = {} /\ (stuck # {} => "service" \in reg)
        /\ oem' \subseteq Inf /\ files' \in BOOLEAN /\ reg \subseteq Keys
        /\ cmd.silent => stuck = {}
    BY <1>1 DEF IInv, CmdInv, GoneInv, After, StuckInv, TypeOK
  <1>3. CASE reg' \in {reg, reg \ {cmd.phase}} /\ Goto(next, {})
    <2>1. reg' \subseteq Keys /\ (stuck # {} => "service" \in reg')
      BY <1>1, <1>2, <1>3
    <2> HIDE DEF next
    <2> QED BY <1>1, <1>2, <1>3, <2>1, GotoUninstalls
  <1>4. CASE UNCHANGED <<reg, cmd>>
    BY <1>1, <1>4, Stays DEF Still
  <1>5. CASE UNCHANGED reg /\ End
    BY <1>1, <1>5, Ends DEF Still
  <1> QED BY <1>3, <1>4, <1>5 DEF DeleteKey

LEMMA ClassStep ==
    ASSUME cmd \in CmdType, NEW ph \in Phase, NEW c \in OwnInf,
           cmd' = [cmd EXCEPT !.class = c] \/ cmd' = [cmd EXCEPT !.phase = ph, !.class = c]
    PROVE  /\ cmd' \in CmdType /\ cmd'.phase \in {cmd.phase, ph} /\ cmd'.set = cmd.set
           /\ cmd'.op = cmd.op /\ cmd'.was = cmd.was /\ cmd'.silent = cmd.silent
           /\ cmd'.todo = cmd.todo
  <1>1. CASE cmd' = [cmd EXCEPT !.class = c]
    BY <1>1 DEF CmdType
  <1>2. CASE cmd' = [cmd EXCEPT !.phase = ph, !.class = c]
    <2>1. cmd' \in CmdType
      BY <1>2, ZenonT(20) DEF CmdType
    <2>2. /\ cmd'.phase = ph /\ cmd'.set = cmd.set /\ cmd'.op = cmd.op
          /\ cmd'.was = cmd.was /\ cmd'.silent = cmd.silent /\ cmd'.todo = cmd.todo
      BY <1>2 DEF CmdType
    <2> QED BY <2>1, <2>2
  <1> QED BY <1>1, <1>2

LEMMA UninstallOEMInfInv == ASSUME IInv, UninstallOEMInf PROVE IInv'
  <1>1. /\ cmd.phase = "infs" /\ UNCHANGED <<st, stuck, files, reg, lost, unseen, faults>>
        /\ oem' \subseteq oem
    BY DEF UninstallOEMInf, NoFault
  <1>2. /\ Seen = {} /\ (stuck # {} => "service" \in reg)
        /\ oem' \subseteq Inf /\ files' \in BOOLEAN /\ reg' \subseteq Keys
        /\ cmd.silent => stuck = {}
    BY <1>1 DEF IInv, CmdInv, GoneInv, After, StuckInv, TypeOK
  <1>3. CASE \E ph \in {"files", "list"} : Goto(ph, {})
    BY <1>1, <1>2, <1>3, GotoUninstalls DEF After
  <1>4. CASE cmd' = [cmd EXCEPT !.class = "comport"]
    <2>0. cmd \in CmdType /\ "infs" \in Phase /\ "comport" \in OwnInf
      BY CmdFacts DEF Phase, OwnInf
    <2>1. /\ cmd' \in CmdType /\ cmd'.phase = "infs" /\ cmd'.silent = cmd.silent
          /\ cmd'.op = cmd.op /\ cmd'.was = cmd.was
      BY <1>1, <1>4, <2>0, ClassStep
    <2> QED BY <1>1, <1>2, <2>1, Uninstalls DEF After
  <1>5. CASE End /\ UNCHANGED oem
    BY <1>1, <1>5, Ends DEF Still
  <1> QED BY <1>3, <1>4, <1>5 DEF UninstallOEMInf, AfterInf

LEMMA UninstallFilesInv == ASSUME IInv, UninstallFiles PROVE IInv'
  <1>1. /\ cmd.phase = "files" /\ UNCHANGED <<st, stuck, oem, reg, lost, unseen, faults>>
        /\ files' \in {FALSE, files}
    BY DEF UninstallFiles, NoFault
  <1>2. /\ Seen = {} /\ (stuck # {} => "service" \in reg)
        /\ oem' \subseteq Inf /\ files' \in BOOLEAN /\ reg' \subseteq Keys
        /\ cmd.silent => stuck = {}
    BY <1>1 DEF IInv, CmdInv, GoneInv, After, StuckInv, TypeOK
  <1>3. CASE cmd' = [cmd EXCEPT !.phase = "infs", !.class = "cncport"]
    <2>0. cmd \in CmdType /\ "infs" \in Phase /\ "cncport" \in OwnInf
      BY CmdFacts DEF Phase, OwnInf
    <2>1. /\ cmd' \in CmdType /\ cmd'.phase \in {"infs", "files"} /\ cmd'.silent = cmd.silent
          /\ cmd'.op = cmd.op /\ cmd'.was = cmd.was
      BY <1>1, <1>3, <2>0, ClassStep
    <2> QED BY <1>1, <1>2, <2>1, Uninstalls DEF After
  <1>4. CASE UNCHANGED <<files, cmd>>
    BY <1>1, <1>4, Stays DEF Still
  <1>5. CASE UNCHANGED files /\ End
    BY <1>1, <1>5, Ends DEF Still
  <1> QED BY <1>3, <1>4, <1>5 DEF UninstallFiles

----------------------------------------------------------------------------
(* infclean and preinstall.                                                *)
LEMMA KindType == \A d \in Dev : Kind(d) \in OwnInf
  BY DriverAssumption DEF Kind, Dev, OwnInf

LEMMA ExcludeOwnInv == ASSUME IInv, ExcludeOwn PROVE IInv'
  <1>1. PICK missed \in SUBSET (OwnInf \cap oem) :
          /\ cmd' = [cmd EXCEPT !.phase = "list", !.set = (OwnInf \cap oem) \ missed]
          /\ IF missed = {} THEN NoFault ELSE Fault(missed)
    BY DEF ExcludeOwn
  <1> DEFINE own == (OwnInf \cap oem) \ missed
  <1>2. own \in SUBSET (Dev \cup Inf) /\ "list" \in Phase /\ cmd \in CmdType
    BY CmdFacts DEF Inf, Phase
  <1>3. cmd' = [cmd EXCEPT !.phase = "list", !.set = own]
    BY <1>1
  <1> HIDE DEF own
  <1>4. cmd' \in CmdType
    BY <1>2, <1>3, ZenonT(20) DEF CmdType
  <1>5. /\ cmd'.phase = "list" /\ cmd'.set = own /\ cmd'.op = cmd.op /\ cmd'.was = cmd.was
    BY <1>2, <1>3 DEF CmdType
  <1>6. UNCHANGED <<st, stuck, oem, files, reg>>
    BY DEF ExcludeOwn, drvVars
  <1>7. lost' = lost \cup missed /\ lost' \subseteq Dev \cup Inf /\ faults' \in 0 .. MaxFaults
        /\ unseen' = unseen
    BY <1>1, DriverAssumption DEF NoFault, Fault, IInv, TypeOK, Inf
  <1>8. TypeOK' /\ DevicesKeepDriver' /\ StuckInv'
    BY <1>4, <1>6, <1>7 DEF IInv, TypeOK, CmdType, DevicesKeepDriver, StuckInv
  <1>9. LoopInv' /\ StackInv' /\ GoneInv'
    BY <1>5 DEF LoopInv, StackInv, GoneInv, After, Stacking
  <1>10. CleanInv'
    BY <1>5, <1>6, <1>7 DEF CleanInv, own
  <1>11. WasInv'
    BY <1>5, <1>6 DEF IInv, CmdInv, WasInv, IsDisabled
  <1> QED BY <1>8, <1>9, <1>10, <1>11 DEF IInv, CmdInv

(* The scan of the INF files goes on.                                      *)
LEMMA Scans ==
    ASSUME IInv, UNCHANGED <<st, stuck, files, reg, lost, unseen, faults>>,
           cmd.phase \in {"list", "scan"}, cmd' \in CmdType, cmd'.phase = "scan",
           cmd'.set = cmd.set, cmd'.op = cmd.op, cmd'.was = cmd.was,
           NEW f, oem' \in {oem, oem \ {f}}, oem' # oem => f \notin cmd.set
    PROVE  IInv'
  <1>1. TypeOK' /\ StuckInv'
    BY DEF IInv, TypeOK, CmdType, StuckInv
  <1>2. Seen' = Seen
    BY DEF Seen, Installed
  <1>3. CleanInv'
    BY <1>2 DEF IInv, CmdInv, CleanInv
  <1>4. DevicesKeepDriver'
    <2> SUFFICES ASSUME NEW d \in Dev \ unseen, st[d] # "none"
                 PROVE  Kind(d) \in oem' \cup lost /\ files /\ "service" \in reg
      BY DEF DevicesKeepDriver
    <2>1. Kind(d) \in OwnInf /\ Kind(d) \in oem \cup lost /\ files /\ "service" \in reg
      BY KindType DEF IInv, DevicesKeepDriver
    <2>2. OwnInf \cap oem \subseteq cmd.set \cup lost
      BY DEF IInv, CmdInv, CleanInv, Seen, Installed
    <2> QED BY <2>1, <2>2
  <1>5. LoopInv' /\ StackInv' /\ GoneInv'
    BY DEF LoopInv, StackInv, GoneInv, After, Stacking
  <1>6. WasInv'
    BY DEF IInv, CmdInv, WasInv, IsDisabled
  <1> QED BY <1>1, <1>3, <1>4, <1>5, <1>6 DEF IInv, CmdInv

LEMMA ListInfsInv == ASSUME IInv, ListInfs PROVE IInv'
  <1>1. Still /\ cmd.phase = "list"
    BY DEF ListInfs, Still, drvVars, NoFault
  <1>2. CASE cmd' = [cmd EXCEPT !.phase = "scan", !.todo = oem]
    <2>1. cmd \in CmdType /\ "scan" \in Phase /\ oem \in SUBSET (Dev \cup Inf)
      BY CmdFacts DEF Phase, IInv, TypeOK
    <2>2. /\ cmd' \in CmdType /\ cmd'.phase = "scan" /\ cmd'.set = cmd.set
          /\ cmd'.op = cmd.op /\ cmd'.was = cmd.was
      BY <1>2, <2>1, PhaseStep
    <2> QED BY <1>1, <2>2, Scans DEF Still
  <1>3. CASE End
    BY <1>1, <1>3, Ends
  <1> QED BY <1>2, <1>3 DEF ListInfs

LEMMA ScanInfInv == ASSUME IInv, NEW f \in Inf, ScanInf(f) PROVE IInv'
  <1>1. /\ cmd.phase = "scan" /\ UNCHANGED <<st, stuck, files, reg, lost, unseen, faults>>
        /\ cmd' = [cmd EXCEPT !.todo = cmd.todo \ {f}]
        /\ oem' \in {oem, oem \ {f}} /\ (oem' # oem => f \notin cmd.set)
    BY DEF ScanInf, Step, NoFault
  <1>2. /\ cmd' \in CmdType /\ cmd'.phase = "scan" /\ cmd'.set = cmd.set
        /\ cmd'.op = cmd.op /\ cmd'.was = cmd.was
    <2>1. cmd \in CmdType /\ cmd.todo \ {f} \in SUBSET (Dev \cup Inf)
      BY CmdFacts
    <2> QED BY <1>1, <2>1, TodoStep
  <1> QED BY <1>1, <1>2, Scans

LEMMA ScannedInv == ASSUME IInv, Scanned PROVE IInv'
  <1>1. Still /\ End
    BY DEF Scanned, Still, drvVars, NoFault
  <1> QED BY <1>1, Ends

(* A step that installs something, for a command that has found no devices *)
(* or is at its end.                                                       *)
LEMMA PreinstallClassInv == ASSUME IInv, PreinstallClass PROVE IInv'
  <1>1. UNCHANGED <<st, stuck, oem, files, lost, unseen, faults>>
    BY DEF PreinstallClass, NoFault
  <1>2. CASE reg' \in {reg, reg \cup {"class"}} /\ Goto("preInf", {})
    <2>1. cmd \in CmdType /\ "preInf" \in Phase /\ {} \in SUBSET (Dev \cup Inf)
      BY CmdFacts DEF Phase
    <2>2. /\ cmd' \in CmdType /\ cmd'.phase = "preInf" /\ cmd'.was = [d \in Dev |-> "none"]
      BY <1>2, <2>1, GotoType
    <2>3. TypeOK' /\ DevicesKeepDriver' /\ StuckInv'
      BY <1>1, <1>2, <2>2 DEF IInv, TypeOK, CmdType, Keys, DevicesKeepDriver, StuckInv
    <2>4. LoopInv' /\ GoneInv' /\ CleanInv'
      BY <2>2 DEF LoopInv, GoneInv, CleanInv, After, Stacking
    <2>5. StackInv' /\ WasInv'
      BY <2>2, Forgets
    <2> QED BY <2>3, <2>4, <2>5 DEF IInv, CmdInv
  <1>3. CASE UNCHANGED <<reg, cmd>>
    BY <1>1, <1>3, Stays DEF Still
  <1>4. CASE UNCHANGED reg /\ End
    BY <1>1, <1>4, Ends DEF Still
  <1> QED BY <1>2, <1>3, <1>4 DEF PreinstallClass

(* An INF file is installed: what was missing of it is not missing any more.*)
LEMMA InfAdded ==
    ASSUME IInv, UNCHANGED <<st, stuck, files, reg, unseen, faults>>, cmd' \in CmdType,
           NEW c \in OwnInf, oem' = oem \cup {c}, lost' = lost \ {c}
    PROVE  /\ TypeOK' /\ DevicesKeepDriver' /\ StuckInv' /\ Installed' = Installed /\ Seen' = Seen
           /\ Dev \ lost' = Dev \ lost
           /\ \A d \in Dev : IsDisabled(d)' = IsDisabled(d)
  <1>1. c \in Inf /\ c \notin Dev
    BY DriverAssumption DEF Inf
  <1>2. TypeOK'
    BY <1>1 DEF IInv, TypeOK, CmdType
  <1>3. DevicesKeepDriver' /\ StuckInv'
    BY DEF IInv, DevicesKeepDriver, StuckInv
  <1>4. /\ Installed' = Installed /\ Seen' = Seen
        /\ \A d \in Dev : IsDisabled(d)' = IsDisabled(d)
    BY DEF Installed, Seen, IsDisabled
  <1> QED BY <1>1, <1>2, <1>3, <1>4

LEMMA InstallOEMInfInv == ASSUME IInv, InstallOEMInf PROVE IInv'
  <1>1. cmd.phase = "preInf" /\ UNCHANGED <<st, stuck, files, reg, unseen, faults>>
    BY DEF InstallOEMInf
  <1>2. CASE End /\ UNCHANGED <<oem, lost>>
    BY <1>1, <1>2, Ends DEF Still
  <1>3. CASE oem' = oem \cup {cmd.class} /\ lost' = lost \ {cmd.class} /\ End
    BY <1>1, <1>3, CmdFacts, EndInv, InfAdded DEF IInv
  <1>4. CASE /\ oem' = oem \cup {cmd.class} /\ lost' = lost \ {cmd.class}
             /\ cmd' = [cmd EXCEPT !.class = NextClass]
    <2>1. cmd \in CmdType /\ cmd.class \in OwnInf /\ NextClass \in OwnInf /\ "preInf" \in Phase
      BY CmdFacts DEF NextClass, OwnInf, Phase
    <2>2. /\ cmd' \in CmdType /\ cmd'.phase = "preInf"
          /\ cmd'.op = cmd.op /\ cmd'.was = cmd.was
      BY <1>1, <1>4, <2>1, ClassStep
    <2>3. /\ TypeOK' /\ DevicesKeepDriver' /\ StuckInv'
          /\ \A d \in Dev : IsDisabled(d)' = IsDisabled(d)
      BY <1>1, <1>4, <2>1, <2>2, InfAdded
    <2>4. LoopInv' /\ StackInv' /\ GoneInv' /\ CleanInv'
      BY <2>2 DEF LoopInv, StackInv, GoneInv, CleanInv, After, Stacking
    <2>5. WasInv'
      BY <1>1, <2>2, <2>3 DEF IInv, CmdInv, WasInv
    <2> QED BY <2>3, <2>4, <2>5 DEF IInv, CmdInv
  <1> QED BY <1>2, <1>3, <1>4 DEF InstallOEMInf

LEMMA UpdateDriverInv == ASSUME IInv, UpdateDriver PROVE IInv'
  <1>1. cmd.phase = "driver" /\ UNCHANGED <<st, stuck, files, reg, unseen, faults>>
    BY DEF UpdateDriver
  <1>2. CASE cmd' = [cmd EXCEPT !.phase = "restore"]
    <2>1. /\ cmd \in CmdType /\ cmd.class \in OwnInf /\ "restore" \in Phase
          /\ {} \in SUBSET (Dev \cup Inf)
      BY CmdFacts DEF Phase
    <2>2. /\ cmd' \in CmdType /\ cmd'.phase = "restore" /\ cmd'.set = cmd.set
          /\ cmd'.op = cmd.op /\ cmd'.was = cmd.was
      BY <1>2, <2>1, PhaseStep
    <2>3. CASE UNCHANGED <<oem, lost>>
      BY <1>1, <2>2, <2>3, KeepsStack DEF Still, Stacking
    <2>4. CASE oem' = oem \cup {cmd.class} /\ lost' = lost \ {cmd.class}
      <3>1. /\ TypeOK' /\ DevicesKeepDriver' /\ StuckInv' /\ Installed' = Installed /\ Seen' = Seen
            /\ Dev \ lost' = Dev \ lost
            /\ \A d \in Dev : IsDisabled(d)' = IsDisabled(d)
        BY <1>1, <2>1, <2>2, <2>4, InfAdded
      <3>2. LoopInv' /\ GoneInv' /\ CleanInv'
        BY <1>1, <2>2 DEF IInv, CmdInv, LoopInv, GoneInv, CleanInv, After, Stacking
      <3>3. StackInv'
        BY <1>1, <2>2, <3>1 DEF IInv, CmdInv, StackInv, Stacking
      <3>4. WasInv'
        BY <1>1, <2>2, <3>1 DEF IInv, CmdInv, WasInv
      <3> QED BY <3>1, <3>2, <3>3, <3>4 DEF IInv, CmdInv
    <2> QED BY <1>2, <2>3, <2>4 DEF UpdateDriver
  <1>3. CASE UNCHANGED <<cmd, oem, lost>>
    BY <1>1, <1>3, Stays DEF Still
  <1> QED BY <1>2, <1>3 DEF UpdateDriver

----------------------------------------------------------------------------
(* The steps that change devices.                                          *)
LEMMA InstallPairInv == ASSUME IInv, NEW b \in Bus, InstallPair(b) PROVE IInv'
  <1>1. cmd' = NoCmd /\ UNCHANGED <<stuck, faults>>
    BY DEF InstallPair, Idle
  <1>2. CmdInv' /\ cmd' \in CmdType
    BY <1>1, EndInv DEF End
  <1>3. /\ st' \in [Dev -> {"none", "on", "off"}] /\ oem' = oem \cup OwnInf
        /\ files' = TRUE /\ reg' = Keys /\ lost' \subseteq lost /\ unseen' \subseteq unseen
    BY DEF InstallPair, IInv, TypeOK
  <1>4. TypeOK'
    BY <1>1, <1>2, <1>3 DEF IInv, TypeOK, CmdType, Inf
  <1>5. DevicesKeepDriver' /\ StuckInv'
    BY <1>3, KindType DEF DevicesKeepDriver, StuckInv, Keys
  <1> QED BY <1>2, <1>4, <1>5 DEF IInv

LEMMA CrashInv == ASSUME IInv, Crash PROVE IInv'
  <1>1. Still /\ End
    BY DEF Crash, Still, drvVars, NoFault
  <1> QED BY <1>1, Ends

LEMMA RebootInv == ASSUME IInv, Reboot PROVE IInv'
  <1>1. /\ End /\ cmd' = cmd /\ stuck' = {}
        /\ UNCHANGED <<st, oem, files, reg, lost, unseen, faults>>
    BY DEF Reboot, Idle, End, drvVars, NoFault
  <1>2. CmdInv' /\ cmd' \in CmdType
    BY <1>1, EndInv
  <1>3. TypeOK' /\ DevicesKeepDriver' /\ StuckInv'
    BY <1>1, <1>2 DEF IInv, TypeOK, CmdType, DevicesKeepDriver, StuckInv
  <1> QED BY <1>2, <1>3 DEF IInv

(* What EnableDevice leaves.                                               *)
LEMMA EnableFacts ==
    ASSUME IInv, NEW d \in Installed, EnableDevice(d), cmd' \in CmdType,
           UNCHANGED <<oem, files, reg>>
    PROVE  /\ TypeOK' /\ DevicesKeepDriver' /\ StuckInv' /\ Installed' = Installed /\ Seen' = Seen
           /\ \A e \in Dev \ {d} : st'[e] = st[e] /\ IsDisabled(e)' = IsDisabled(e)
           /\ \A e \in Dev \ {d} : e \in lost' <=> e \in lost
           /\ st'[d] = "on" \/ d \in lost'
  <1>1. d \in Dev /\ st[d] # "none" /\ d \notin OwnInf
    BY DriverAssumption DEF Installed, Inf
  <1>2. CASE /\ st' = [st EXCEPT ![d] = "on"] /\ stuck' = stuck \ {d}
             /\ lost' = lost \ {d} /\ UNCHANGED <<unseen, faults>>
    <2>1. TypeOK'
      BY <1>1, <1>2 DEF IInv, TypeOK, CmdType
    <2>2. DevicesKeepDriver' /\ StuckInv'
      BY <1>1, <1>2, KindType DEF IInv, TypeOK, DevicesKeepDriver, StuckInv
    <2>3. Installed' = Installed /\ Seen' = Seen
      BY <1>1, <1>2 DEF IInv, TypeOK, Installed, Seen
    <2>4. \A e \in Dev \ {d} : st'[e] = st[e] /\ IsDisabled(e)' = IsDisabled(e)
      BY <1>2 DEF IInv, TypeOK, IsDisabled
    <2> QED BY <1>1, <1>2, <2>1, <2>2, <2>3, <2>4 DEF IInv, TypeOK
  <1>3. CASE UNCHANGED <<st, stuck>> /\ Fault({d})
    <2>1. lost' = lost \cup {d} /\ faults' \in 0 .. MaxFaults /\ unseen' = unseen
      BY <1>3, DriverAssumption DEF Fault, IInv, TypeOK
    <2>2. TypeOK'
      BY <1>1, <1>3, <2>1 DEF IInv, TypeOK, CmdType
    <2>3. DevicesKeepDriver' /\ StuckInv'
      BY <1>3, <2>1 DEF IInv, DevicesKeepDriver, StuckInv
    <2>4. /\ Installed' = Installed /\ Seen' = Seen
          /\ \A e \in Dev \ {d} : IsDisabled(e)' = IsDisabled(e)
      BY <1>3, <2>1 DEF Installed, Seen, IsDisabled
    <2> QED BY <1>3, <2>1, <2>2, <2>3, <2>4
  <1> QED BY <1>2, <1>3 DEF EnableDevice

LEMMA RestoreInv == ASSUME IInv, NEW d \in Dev, Restore(d) PROVE IInv'
  <1>1. /\ cmd.phase = "restore" /\ d \in cmd.set /\ EnableDevice(d)
        /\ cmd' = [cmd EXCEPT !.set = cmd.set \ {d}] /\ UNCHANGED <<oem, files, reg>>
    BY DEF Restore, drvVars
  <1>2. cmd \in CmdType /\ cmd.set \ {d} \in SUBSET (Dev \cup Inf)
    BY CmdFacts
  <1>3. /\ cmd' \in CmdType /\ cmd'.phase = "restore" /\ cmd'.set = cmd.set \ {d}
        /\ cmd'.op = cmd.op /\ cmd'.was = cmd.was
    BY <1>1, <1>2 DEF CmdType
  <1>4. /\ cmd.set \subseteq Installed /\ \A e \in cmd.set : cmd.was[e] # "off"
        /\ \A e \in Dev \ lost : cmd.was[e] = "on" => st[e] = "on" \/ e \in cmd.set
        /\ cmd.op \in {"reload", "update", "disable", "uninstall"}
    BY <1>1 DEF IInv, CmdInv, StackInv, LoopInv, Stacking
  <1>5. /\ TypeOK' /\ DevicesKeepDriver' /\ StuckInv' /\ Installed' = Installed /\ Seen' = Seen
        /\ \A e \in Dev \ {d} : st'[e] = st[e] /\ IsDisabled(e)' = IsDisabled(e)
        /\ \A e \in Dev \ {d} : e \in lost' <=> e \in lost
        /\ st'[d] = "on" \/ d \in lost'
    BY <1>1, <1>3, <1>4, EnableFacts
  <1>6. LoopInv' /\ GoneInv' /\ CleanInv'
    BY <1>3, <1>4 DEF LoopInv, GoneInv, CleanInv, After, Stacking
  <1>7. StackInv'
    BY <1>3, <1>4, <1>5 DEF StackInv
  <1>8. WasInv'
    BY <1>1, <1>3, <1>4, <1>5 DEF IInv, CmdInv, WasInv
  <1> QED BY <1>5, <1>6, <1>7, <1>8 DEF IInv, CmdInv

LEMMA EnableAllInv == ASSUME IInv, EnableAll PROVE IInv'
  <1>1. cmd.phase = "enable" /\ UNCHANGED <<oem, files, reg>>
    BY DEF EnableAll, drvVars
  <1>2. CASE End /\ UNCHANGED <<st, stuck>> /\ NoFault
    BY <1>1, <1>2, Ends DEF Still, NoFault
  <1>3. ASSUME NEW d \in cmd.todo, EnableDevice(d), Step(d) PROVE IInv'
    <2>1. cmd.todo \subseteq Installed /\ cmd.op = "enable"
      BY <1>1 DEF IInv, CmdInv, LoopInv
    <2>2. /\ cmd' \in CmdType /\ cmd'.phase = "enable" /\ cmd'.todo = cmd.todo \ {d}
          /\ cmd'.op = "enable"
      <3>1. cmd \in CmdType /\ cmd.todo \ {d} \in SUBSET (Dev \cup Inf)
        BY CmdFacts
      <3> QED BY <1>1, <1>3, <2>1, <3>1, TodoStep DEF Step
    <2>3. /\ TypeOK' /\ DevicesKeepDriver' /\ StuckInv' /\ Installed' = Installed /\ Seen' = Seen
      BY <1>1, <1>3, <2>1, <2>2, EnableFacts
    <2>4. LoopInv' /\ StackInv' /\ GoneInv' /\ CleanInv'
      BY <2>1, <2>2, <2>3 DEF LoopInv, StackInv, GoneInv, CleanInv, After, Stacking
    <2>5. WasInv'
      BY <2>2 DEF WasInv
    <2> QED BY <2>3, <2>4, <2>5 DEF IInv, CmdInv
  <1> QED BY <1>2, <1>3 DEF EnableAll

LEMMA RemoveDeviceInv == ASSUME IInv, NEW d \in Dev, RemoveDevice(d) PROVE IInv'
  <1>1. /\ cmd.phase \in {"remove", "removeAll"} /\ d \in cmd.todo
        /\ st' = [st EXCEPT ![d] = "none"] /\ lost' = lost \ {d}
        /\ stuck' \in {stuck, stuck \cup {d}} /\ ("service" \notin reg => stuck' = stuck)
        /\ UNCHANGED <<oem, files, reg, faults>>
        /\ unseen' = unseen \ {d}
    BY DEF RemoveDevice, Held, drvVars
  <1>2. /\ d \in Installed /\ cmd.todo \subseteq Installed
        /\ cmd.phase = "removeAll" => Seen \subseteq cmd.todo
    BY <1>1 DEF IInv, CmdInv, LoopInv
  <1>3. d \notin OwnInf /\ st[d] # "none"
    BY <1>2, DriverAssumption DEF Installed, Inf
  <1>4. Installed' = Installed \ {d} /\ Seen' = Seen \ {d}
    BY <1>1 DEF Installed, Seen, IInv, TypeOK
  <1>5. DevicesKeepDriver' /\ StuckInv'
    BY <1>1, <1>3, KindType DEF IInv, TypeOK, DevicesKeepDriver, StuckInv
  <1>6. cmd' \in CmdType => TypeOK'
    BY <1>1 DEF IInv, TypeOK, CmdType
  <1>7. CASE End
    BY <1>5, <1>6, <1>7, EndInv DEF IInv
  <1>8. CASE cmd' = [cmd EXCEPT !.todo = @ \ {d},
                                !.reboot = @ \/ (cmd.phase = "remove" /\ d \in stuck')]
    <2> DEFINE more == cmd.reboot \/ (cmd.phase = "remove" /\ d \in stuck')
               left == cmd.todo \ {d}
    <2>1. cmd \in CmdType /\ left \in SUBSET (Dev \cup Inf) /\ more \in BOOLEAN
      BY CmdFacts DEF CmdType
    <2>2. cmd' = [cmd EXCEPT !.todo = left, !.reboot = more]
      BY <1>8
    <2> HIDE DEF more
    <2>3. cmd' \in CmdType
      <3> HIDE DEF left
      <3> QED BY <2>1, <2>2, ZenonT(20) DEF CmdType
    <2>4. /\ cmd'.phase = cmd.phase /\ cmd'.todo = left
          /\ cmd'.op = cmd.op /\ cmd'.was = cmd.was
      BY <2>1, <2>2 DEF CmdType
    <2>5. LoopInv'
      BY <1>1, <1>2, <1>4, <2>4 DEF LoopInv, Stacking
    <2>6. StackInv' /\ GoneInv' /\ CleanInv'
      BY <1>1, <2>4 DEF StackInv, GoneInv, CleanInv, After, Stacking
    <2>7. WasInv'
      BY <1>1, <2>4 DEF IInv, CmdInv, TypeOK, WasInv, IsDisabled
    <2> QED BY <1>5, <1>6, <2>3, <2>5, <2>6, <2>7 DEF IInv, CmdInv
  <1> QED BY <1>7, <1>8 DEF RemoveDevice

(* A device that a loop passes over is left as it is.                      *)
LEMMA PassedOverInv == ASSUME IInv, NEW d \in Dev, PassedOver(d) PROVE IInv'
  <1>1. /\ cmd.phase \in {"disable", "remove", "removeAll"} /\ d \in cmd.todo
        /\ cmd' = [cmd EXCEPT !.todo = cmd.todo \ {d}]
        /\ UNCHANGED <<st, stuck, oem, files, reg, lost>>
        /\ unseen \subseteq unseen' /\ unseen' \subseteq unseen \cup {d}
        /\ cmd.phase = "removeAll" => d \in unseen'
        /\ faults' \in 0 .. MaxFaults
    BY DriverAssumption DEF PassedOver, Step, drvVars, IInv, TypeOK
  <1>2. cmd \in CmdType /\ cmd.todo \ {d} \in SUBSET (Dev \cup Inf)
    BY CmdFacts
  <1>3. /\ cmd' \in CmdType /\ cmd'.todo = cmd.todo \ {d} /\ cmd'.phase = cmd.phase
        /\ cmd'.set = cmd.set /\ cmd'.op = cmd.op /\ cmd'.was = cmd.was
    BY <1>1, <1>2, TodoStep
  <1>4. TypeOK'
    BY <1>1, <1>3 DEF IInv, TypeOK, CmdType
  <1>5. DevicesKeepDriver' /\ StuckInv'
    BY <1>1 DEF IInv, DevicesKeepDriver, StuckInv
  <1>6. LoopInv'
    <2>1. Installed' = Installed /\ Seen' \subseteq Seen
      BY <1>1 DEF Installed, Seen
    <2>2. cmd.phase = "removeAll" => d \notin Seen'
      BY <1>1 DEF Seen
    <2> QED BY <1>1, <1>3, <2>1, <2>2 DEF IInv, CmdInv, LoopInv, Stacking
  <1>7. StackInv'
    BY <1>1, <1>3 DEF IInv, CmdInv, StackInv, Installed
  <1>8. GoneInv' /\ CleanInv'
    BY <1>1, <1>3 DEF GoneInv, CleanInv, After
  <1>9. WasInv'
    BY <1>1, <1>3 DEF IInv, CmdInv, WasInv, IsDisabled
  <1> QED BY <1>4, <1>5, <1>6, <1>7, <1>8, <1>9 DEF IInv, CmdInv

(* A device that is not yet disabled was not disabled for good when the    *)
(* command began; disabling it keeps all that is installed.                *)
LEMMA DisableFacts ==
    ASSUME IInv, NEW d \in Dev, Visit(d), ~IsDisabled(d), st' = [st EXCEPT ![d] = "off"],
           UNCHANGED <<oem, files, reg, unseen>>, lost \subseteq lost'
    PROVE  /\ d \in Installed /\ cmd.was[d] # "off" /\ Installed' = Installed
           /\ Seen' = Seen /\ DevicesKeepDriver'
           /\ cmd.op \in {"reload", "update", "disable", "uninstall"}
  <1>1. d \in Installed /\ cmd.op \in {"reload", "update", "disable", "uninstall"}
    BY DEF IInv, CmdInv, LoopInv, Stacking, Visit
  <1>2. cmd.was[d] # "off"
    BY <1>1 DEF IInv, CmdInv, WasInv, Installed
  <1>3. Installed' = Installed /\ Seen' = Seen
    BY <1>1 DEF Installed, Seen, IInv, TypeOK
  <1>4. DevicesKeepDriver'
    BY <1>1 DEF IInv, TypeOK, DevicesKeepDriver, Installed
  <1> QED BY <1>1, <1>2, <1>3, <1>4

LEMMA DisableDoneInv == ASSUME IInv, NEW d \in Dev, DisableDone(d) PROVE IInv'
  <1>1. /\ cmd.phase = "disable" /\ Visit(d) /\ ~IsDisabled(d)
        /\ st' = [st EXCEPT ![d] = "off"] /\ UNCHANGED <<oem, files, reg, lost, unseen, faults>>
    BY DEF DisableDone, Visit, drvVars, NoFault
  <1>2. /\ stuck' \in {stuck, stuck \cup {d}} /\ ("service" \notin reg => stuck' = stuck)
        /\ \/ cmd' = [cmd EXCEPT !.todo = cmd.todo \ {d}, !.set = cmd.set \cup {d}]
           \/ cmd' = [cmd EXCEPT !.todo = cmd.todo \ {d}, !.set = cmd.set \cup {d},
                                 !.reboot = TRUE]
    BY DEF DisableDone
  <1> DEFINE left == cmd.todo \ {d}
             pushed == cmd.set \cup {d}
  <1>3. /\ cmd \in CmdType /\ left \in SUBSET (Dev \cup Inf)
        /\ pushed \in SUBSET (Dev \cup Inf)
    BY CmdFacts
  <1>4. \/ cmd' = [cmd EXCEPT !.todo = left, !.set = pushed]
        \/ cmd' = [cmd EXCEPT !.todo = left, !.set = pushed, !.reboot = TRUE]
    BY <1>2
  <1>5. /\ cmd' \in CmdType /\ cmd'.phase = "disable" /\ cmd'.todo = left
        /\ cmd'.set = pushed /\ cmd'.op = cmd.op /\ cmd'.was = cmd.was
    <2> HIDE DEF left, pushed
    <2>1. CASE cmd' = [cmd EXCEPT !.todo = left, !.set = pushed]
      <3>1. cmd' \in CmdType
        BY <1>3, <2>1, ZenonT(20) DEF CmdType
      <3> QED BY <1>1, <1>3, <2>1, <3>1 DEF CmdType
    <2>2. CASE cmd' = [cmd EXCEPT !.todo = left, !.set = pushed, !.reboot = TRUE]
      <3>1. cmd' \in CmdType
        BY <1>3, <2>2, ZenonT(20) DEF CmdType
      <3> QED BY <1>1, <1>3, <2>2, <3>1 DEF CmdType
    <2> QED BY <1>4, <2>1, <2>2
  <1>6. /\ d \in Installed /\ cmd.was[d] # "off" /\ Installed' = Installed
        /\ Seen' = Seen /\ DevicesKeepDriver'
        /\ cmd.op \in {"reload", "update", "disable", "uninstall"}
    BY <1>1, DisableFacts
  <1>7. TypeOK' /\ StuckInv'
    BY <1>1, <1>2, <1>5, <1>6 DEF IInv, TypeOK, CmdType, StuckInv
  <1>8. LoopInv' /\ GoneInv' /\ CleanInv'
    BY <1>1, <1>5, <1>6 DEF IInv, CmdInv, LoopInv, GoneInv, CleanInv, After, Stacking
  <1>9. StackInv'
    <2>1. /\ cmd.set \subseteq Installed /\ \A e \in cmd.set : cmd.was[e] # "off"
          /\ \A e \in Dev \ lost : cmd.was[e] = "on" => st[e] = "on" \/ e \in cmd.set
      BY <1>1 DEF IInv, CmdInv, StackInv, Stacking
    <2>2. \A e \in Dev \ lost : cmd.was[e] = "on" => st'[e] = "on" \/ e \in pushed
      BY <1>1, <2>1 DEF IInv, TypeOK
    <2> QED BY <1>1, <1>5, <1>6, <2>1, <2>2 DEF StackInv
  <1>10. WasInv'
    BY <1>1, <1>2, <1>5, <1>6 DEF IInv, CmdInv, TypeOK, WasInv, IsDisabled
  <1> QED BY <1>6, <1>7, <1>8, <1>9, <1>10 DEF IInv, CmdInv

LEMMA DisableLostInv == ASSUME IInv, NEW d \in Dev, DisableLost(d) PROVE IInv'
  <1>1. /\ cmd.phase = "disable" /\ Visit(d) /\ ~IsDisabled(d) /\ Cancel
        /\ st' = [st EXCEPT ![d] = "off"] /\ UNCHANGED <<oem, files, reg, unseen>>
        /\ stuck' \in {stuck, stuck \cup {d}} /\ ("service" \notin reg => stuck' = stuck)
        /\ lost' = lost \cup {d} /\ faults' \in 0 .. MaxFaults
    BY DriverAssumption DEF DisableLost, Visit, Held, drvVars, Fault, IInv, TypeOK
  <1>2. /\ d \in Installed /\ cmd.was[d] # "off" /\ Installed' = Installed
        /\ Seen' = Seen /\ DevicesKeepDriver'
        /\ cmd.op \in {"reload", "update", "disable", "uninstall"}
    BY <1>1, DisableFacts
  <1>3. cmd' \in CmdType => TypeOK'
    BY <1>1 DEF IInv, TypeOK, CmdType
  <1>4. StuckInv'
    BY <1>1 DEF IInv, StuckInv
  <1>5. CASE End
    BY <1>2, <1>3, <1>4, <1>5, EndInv DEF IInv
  <1>6. CASE cmd' = [cmd EXCEPT !.phase = "restore", !.todo = {}]
    <2>1. cmd \in CmdType /\ "restore" \in Phase /\ {} \in SUBSET (Dev \cup Inf)
      BY CmdFacts DEF Phase
    <2>2. /\ cmd' \in CmdType /\ cmd'.phase = "restore" /\ cmd'.set = cmd.set
          /\ cmd'.op = cmd.op /\ cmd'.was = cmd.was
      BY <1>6, <2>1, PhaseStep
    <2>3. LoopInv' /\ GoneInv' /\ CleanInv'
      BY <1>2, <2>2 DEF LoopInv, GoneInv, CleanInv, After, Stacking
    <2>4. StackInv'
      <3>1. /\ cmd.set \subseteq Installed /\ \A e \in cmd.set : cmd.was[e] # "off"
            /\ \A e \in Dev \ lost : cmd.was[e] = "on" => st[e] = "on" \/ e \in cmd.set
        BY <1>1 DEF IInv, CmdInv, StackInv, Stacking
      <3>2. \A e \in Dev \ lost' : cmd.was[e] = "on" => st'[e] = "on" \/ e \in cmd.set
        BY <1>1, <3>1 DEF IInv, TypeOK
      <3> QED BY <1>2, <2>2, <3>1, <3>2 DEF StackInv
    <2>5. WasInv'
      BY <1>1, <1>2, <2>2 DEF IInv, CmdInv, TypeOK, WasInv, IsDisabled
    <2> QED BY <1>2, <1>3, <1>4, <2>2, <2>3, <2>4, <2>5 DEF IInv, CmdInv
  <1> QED BY <1>1, <1>5, <1>6 DEF Cancel

----------------------------------------------------------------------------
LEMMA InitInv == Init => IInv
  <1> SUFFICES ASSUME Init PROVE IInv
    OBVIOUS
  <1>1. cmd \in CmdType /\ CmdInv
    <2>1. /\ cmd \in CmdType /\ cmd.phase = "idle" /\ cmd.op = "none" /\ cmd.set = {}
          /\ cmd.was = [d \in Dev |-> "none"]
      BY NoCmdType DEF Init
    <2>2. LoopInv /\ StackInv /\ GoneInv /\ CleanInv
      BY <2>1 DEF LoopInv, StackInv, GoneInv, CleanInv, After, Stacking
    <2>3. WasInv
      BY <2>1 DEF WasInv
    <2> QED BY <2>1, <2>2, <2>3 DEF CmdInv
  <1>2. TypeOK
    <2>1. cmd \in CmdType
      BY <1>1
    <2>2. st \in [Dev -> {"none", "on", "off"}] /\ oem \subseteq Inf
      BY DEF Init, Inf
    <2>3. faults \in 0 .. MaxFaults
      BY DriverAssumption DEF Init
    <2> QED BY <2>1, <2>2, <2>3 DEF Init, TypeOK, CmdType
  <1>3. DevicesKeepDriver /\ StuckInv
    BY DEF Init, DevicesKeepDriver, StuckInv
  <1> QED BY <1>1, <1>2, <1>3 DEF IInv

LEMMA NextInv == IInv /\ [Next]_vars => IInv'
  <1> SUFFICES ASSUME IInv, [Next]_vars PROVE IInv'
    OBVIOUS
  <1>1. CASE Main
    BY <1>1, MainInv
  <1>2. CASE Disabled \/ UpdateDriver \/ Restored \/ EnableAll \/ RemoveFailed \/ Removed
    BY <1>2, DisabledInv, UpdateDriverInv, RestoredInv, EnableAllInv, RemoveFailedInv,
       RemovedInv
  <1>3. CASE DeleteService \/ DeleteKey \/ UninstallOEMInf \/ UninstallFiles
    BY <1>3, DeleteServiceInv, DeleteKeyInv, UninstallOEMInfInv, UninstallFilesInv
  <1>4. CASE ExcludeOwn \/ ListInfs \/ Scanned \/ PreinstallClass \/ InstallOEMInf
    BY <1>4, ExcludeOwnInv, ListInfsInv, ScannedInv, PreinstallClassInv, InstallOEMInfInv
  <1>5. ASSUME NEW d \in Dev,
               \/ DisableSkipped(d) \/ DisableDone(d) \/ DisableRefused(d)
               \/ DisableFailed(d) \/ DisableLost(d) \/ Restore(d) \/ RemoveDevice(d)
               \/ PassedOver(d)
        PROVE  IInv'
    BY <1>5, DisableSkippedInv, DisableDoneInv, DisableRefusedInv, DisableFailedInv,
       DisableLostInv, RestoreInv, RemoveDeviceInv, PassedOverInv
  <1>6. ASSUME NEW f \in Inf, ScanInf(f) PROVE IInv'
    BY <1>6, ScanInfInv
  <1>7. CASE Crash \/ Reboot
    BY <1>7, CrashInv, RebootInv
  <1>8. ASSUME NEW b \in Bus, InstallPair(b) PROVE IInv'
    BY <1>8, InstallPairInv
  <1>9. CASE UNCHANGED vars
    BY <1>9, Stays DEF vars, Still
  <1> QED BY <1>1, <1>2, <1>3, <1>4, <1>5, <1>6, <1>7, <1>8, <1>9 DEF Next, Command

LEMMA Invariant == Spec => []IInv
  BY InitInv, NextInv, PTL DEF Spec

(* The types, for any devices and any INF files.                           *)
THEOREM TypeCorrect == Spec => []TypeOK
  <1>1. IInv => TypeOK
    BY DEF IInv
  <1> QED BY <1>1, Invariant, PTL

(* Each installed device has its INF file, its driver's files and its      *)
(* service, after any number of commands that failed, were cancelled or    *)
(* were stopped anywhere, unless an uninstallation could not see it.       *)
THEOREM DriverStays == Spec => []DevicesKeepDriver
  <1>1. IInv => DevicesKeepDriver
    BY DEF IInv
  <1> QED BY <1>1, Invariant, PTL

(* Enabling again after reload, update or a cancelled uninstall never      *)
(* enables what was disabled before.                                       *)
LEMMA OffStep ==
    ASSUME IInv, [Next]_vars
    PROVE  [~Idle /\ cmd.op # "enable" =>
               \A d \in Dev : cmd.was[d] = "off" => st'[d] # "on"]_vars
  <1> SUFFICES ASSUME Next, ~Idle, cmd.op # "enable",
                      NEW d \in Dev, cmd.was[d] = "off"
               PROVE  st'[d] # "on"
    BY DEF Main, Idle
  <1>1. st[d] # "on"
    BY DEF IInv, CmdInv, WasInv, IsDisabled
  <1>2. CASE st' = st
    BY <1>1, <1>2
  <1>3. CASE \E e \in Dev : st' = [st EXCEPT ![e] = "off"] \/ st' = [st EXCEPT ![e] = "none"]
    BY <1>1, <1>3 DEF IInv, TypeOK
  <1>4. ASSUME NEW e \in Dev, Restore(e) PROVE st'[d] # "on"
    <2>1. cmd.phase = "restore" /\ e \in cmd.set
          /\ (st' = [st EXCEPT ![e] = "on"] \/ st' = st)
      BY <1>4 DEF Restore, EnableDevice
    <2>2. cmd.was[e] # "off"
      BY <2>1 DEF IInv, CmdInv, StackInv, Stacking
    <2> QED BY <1>1, <2>1, <2>2 DEF IInv, TypeOK
  <1>5. ~EnableAll
    BY DEF EnableAll, IInv, CmdInv, LoopInv
  <1>6. \/ st' = st
        \/ \E e \in Dev : \/ st' = [st EXCEPT ![e] = "off"] \/ st' = [st EXCEPT ![e] = "none"]
                          \/ Restore(e)
    <2>1. CASE Main \/ Crash \/ Reboot
      BY <2>1 DEF Main, Crash, Reboot
    <2>2. CASE Disabled \/ UpdateDriver \/ Restored \/ RemoveFailed \/ Removed
      BY <2>2 DEF Disabled, UpdateDriver, Restored, RemoveFailed, Removed
    <2>3. CASE DeleteService \/ DeleteKey \/ UninstallOEMInf \/ UninstallFiles
      BY <2>3 DEF DeleteService, DeleteKey, UninstallOEMInf, UninstallFiles
    <2>4. CASE ExcludeOwn \/ ListInfs \/ Scanned \/ PreinstallClass \/ InstallOEMInf
      BY <2>4 DEF ExcludeOwn, ListInfs, Scanned, PreinstallClass, InstallOEMInf
    <2>5. CASE \E e \in Dev : \/ DisableSkipped(e) \/ DisableRefused(e) \/ DisableFailed(e)
                             \/ PassedOver(e)
      BY <2>5 DEF DisableSkipped, DisableRefused, DisableFailed, PassedOver
    <2>6. CASE \E e \in Dev : DisableDone(e) \/ DisableLost(e) \/ RemoveDevice(e)
      BY <2>6 DEF DisableDone, DisableLost, RemoveDevice
    <2>7. CASE \E f \in Inf : ScanInf(f)
      BY <2>7 DEF ScanInf
    <2>8. ~\E b \in Bus : InstallPair(b)
      BY DEF InstallPair
    <2> QED BY <1>5, <2>1, <2>2, <2>3, <2>4, <2>5, <2>6, <2>7, <2>8 DEF Next, Command
  <1> QED BY <1>2, <1>3, <1>4, <1>6

THEOREM DisabledStay == Spec => OffStaysOff
  BY Invariant, OffStep, PTL DEF Spec, OffStaysOff

(* What was enabled before is enabled again when the stack is emptied.     *)
LEMMA RestoredStep ==
    ASSUME IInv
    PROVE  [Restored => \A d \in Dev \ lost : cmd.was[d] = "on" => st[d] = "on"]_vars
  BY RestoredFacts

THEOREM EnabledAgain == Spec => ActiveRestored
  BY Invariant, RestoredStep, PTL DEF Spec, ActiveRestored

(* A driver that is still loaded keeps its service, and its files as long  *)
(* as no user insists.                                                     *)
LEMMA LoadedStep ==
    ASSUME IInv, [Next]_vars
    PROVE  [stuck # {} => /\ "service" \in reg => "service" \in reg'
                          /\ files /\ cmd.silent => files']_vars
  <1> SUFFICES ASSUME Next, stuck # {}
               PROVE  ("service" \in reg => "service" \in reg') /\ (files /\ cmd.silent => files')
    OBVIOUS
  <1>1. CASE DeleteService
    BY <1>1 DEF DeleteService
  <1>2. CASE UninstallFiles
    <2>1. ~cmd.silent
      BY <1>2 DEF UninstallFiles, IInv, CmdInv, GoneInv, After
    <2> QED BY <1>2, <2>1 DEF UninstallFiles
  <1>3. CASE DeleteKey
    BY <1>3 DEF DeleteKey
  <1>4. CASE PreinstallClass
    BY <1>4 DEF PreinstallClass
  <1>5. CASE \E b \in Bus : InstallPair(b)
    BY <1>5 DEF InstallPair, Keys
  <1>6. CASE Main \/ Crash \/ Reboot
    BY <1>6 DEF Main, Crash, Reboot, drvVars
  <1>7. CASE \/ Disabled \/ UpdateDriver \/ Restored \/ EnableAll \/ RemoveFailed \/ Removed
             \/ UninstallOEMInf \/ ExcludeOwn \/ ListInfs \/ Scanned \/ InstallOEMInf
    <2>1. UNCHANGED <<files, reg>>
      BY <1>7 DEF Disabled, UpdateDriver, Restored, EnableAll, RemoveFailed, Removed,
                  UninstallOEMInf, ExcludeOwn, ListInfs, Scanned, InstallOEMInf, drvVars
    <2> QED BY <2>1
  <1>8. CASE \E d \in Dev : \/ DisableSkipped(d) \/ DisableDone(d) \/ DisableRefused(d)
                            \/ DisableFailed(d) \/ DisableLost(d) \/ Restore(d)
                            \/ RemoveDevice(d) \/ PassedOver(d)
    BY <1>8 DEF DisableSkipped, DisableDone, DisableRefused, DisableFailed, DisableLost,
                Restore, RemoveDevice, PassedOver, drvVars
  <1>9. CASE \E f \in Inf : ScanInf(f)
    BY <1>9 DEF ScanInf
  <1> QED BY <1>1, <1>2, <1>3, <1>4, <1>5, <1>6, <1>7, <1>8, <1>9 DEF Next, Command

THEOREM LoadedStays == Spec => LoadedDriverStays
  BY Invariant, LoadedStep, PTL DEF Spec, LoadedDriverStays
=============================================================================

------------------------------- MODULE ComDb -------------------------------
(***************************************************************************)
(* src/Com0Com/setup/comdb.cpp: how the setup program of com0com keeps the *)
(* COM port database of Windows (ComDB, one bit per COM number, shared by  *)
(* every installer on the machine) in step with the names of its ports.    *)
(*                                                                         *)
(* ComDB does not say who claimed a number, so setup keeps a log of its    *)
(* own claims in the registry.  ComDbSync compares the names, the log and  *)
(* nothing else: a number in the log that no port has is released, a       *)
(* number that a port has and the log lacks is claimed; after each change  *)
(* the whole log is written again.  The program may be stopped between two *)
(* of these calls, each call may fail, and other programs use ComDB too.   *)
(*                                                                         *)
(* Abstractions: name2num is the identity on Num (a name that is not       *)
(* COM1..COM<max> is no member of `used`); a dialog answered with "retry"  *)
(* repeats the call and is the same call made later.                       *)
(***************************************************************************)
EXTENDS Naturals, FiniteSets

CONSTANTS Num          \* the numbers ComDB arbitrates: 1 .. COMDB_MAX_PORTS_ARBITRATED

ASSUME NumAssumption == Num \subseteq Nat \ {0}

VARIABLES
    owner,      \* owner[n]: who claimed n in ComDB; the program only sees free or not
    local,      \* the numbers in the registry value COM Name Arbiter\ComDB
    used,       \* the numbers that are names of ports of installed pairs
    sync,       \* progress of ComDbSync
    torn        \* history: numbers whose entry in the log may have gone wrong

vars == <<owner, local, used, sync, torn>>

(* "class" stands for the Ports class installer, which claims the numbers  *)
(* of the ports it names (PortName=COM#), "other" for any other program.   *)
Owner == {"free", "setup", "class", "other"}

(* pc "names" and "local" are the two loads, "loop" the loop over the      *)
(* numbers, "save" the SaveComDbLocal that follows a claim or a release of *)
(* `at`; names and mask are comNames and comDbLocal, todo the numbers the  *)
(* loop has not reached, skip the numbers whose call did not succeed.      *)
Idle == [pc |-> "idle", names |-> {}, mask |-> {}, todo |-> {}, skip |-> {},
         at |-> 0]

InUse(n) == owner[n] # "free"

TypeOK ==
    /\ owner \in [Num -> Owner]
    /\ local \subseteq Num
    /\ used \subseteq Num
    /\ torn \subseteq Num
    /\ sync \in [pc : {"idle", "names", "local", "loop", "save"},
                 names : SUBSET Num, mask : SUBSET Num, todo : SUBSET Num,
                 skip : SUBSET Num, at : Num \cup {0}]
    /\ sync.pc = "save" => sync.at \in Num

Init ==
    /\ owner \in [Num -> {"free", "other"}]
    /\ local = {} /\ used = {} /\ torn = {}
    /\ sync = Idle

----------------------------------------------------------------------------
(* ComDbSync is called.                                                    *)
SyncStart ==
    /\ sync.pc = "idle"
    /\ sync' = [sync EXCEPT !.pc = "names"]
    /\ UNCHANGED <<owner, local, used, torn>>

(* LoadComNames: the names of the ports of every installed pair.  A pair   *)
(* whose parameters cannot be read ends the sync.                          *)
LoadComNames ==
    /\ sync.pc = "names"
    /\ \/ sync' = [sync EXCEPT !.pc = "local", !.names = used]
       \/ sync' = Idle
    /\ UNCHANGED <<owner, local, used, torn>>

(* LoadComDbLocal: after an error "continue" returns the empty mask that   *)
(* the function started from, "cancel" ends the sync.                      *)
LoadComDbLocal ==
    /\ sync.pc = "local"
    /\ \/ /\ sync' = [sync EXCEPT !.pc = "loop", !.mask = local, !.todo = Num]
          /\ UNCHANGED torn
       \/ /\ sync' = [sync EXCEPT !.pc = "loop", !.mask = {}, !.todo = Num]
          /\ torn' = torn \cup local
       \/ sync' = Idle /\ UNCHANGED torn
    /\ UNCHANGED <<owner, local, used>>

(* Mutant: only claims are made up for, nothing is given back.             *)
DifferClaims == sync.names \ sync.mask

(* Mutant: the names are compared with the database, not with the log.     *)
DifferInUse == {n \in Num : ~(n \in sync.names <=> InUse(n))}

(* The numbers where names and log disagree, and the loop's next of them.  *)
Differ == (sync.names \ sync.mask) \cup (sync.mask \ sync.names)

At(n) == /\ sync.pc = "loop"
         /\ n \in sync.todo \cap Differ
         /\ \A m \in sync.todo \cap Differ : n <= m

Rest(n) == {m \in sync.todo : m > n}

(* ClaimReleasePort(n, TRUE): a number in use is refused without a word    *)
(* (ERROR_SHARING_VIOLATION).                                              *)
Claim(n) ==
    /\ At(n) /\ n \in sync.names /\ ~InUse(n)
    /\ owner' = [owner EXCEPT ![n] = "setup"]
    /\ sync' = [sync EXCEPT !.pc = "save", !.mask = @ \cup {n},
                            !.todo = Rest(n), !.at = n]
    /\ UNCHANGED <<local, used, torn>>

(* ClaimReleasePort(n, FALSE): ComDB clears the bit whoever set it.        *)
Release(n) ==
    /\ At(n) /\ n \notin sync.names
    /\ owner' = [owner EXCEPT ![n] = "free"]
    /\ sync' = [sync EXCEPT !.pc = "save", !.mask = @ \ {n},
                            !.todo = Rest(n), !.at = n]
    /\ UNCHANGED <<local, used, torn>>

(* The call fails, or the number is in use already: the loop goes on.      *)
Refused(n) ==
    /\ At(n)
    /\ sync' = [sync EXCEPT !.todo = Rest(n), !.skip = @ \cup {n}]
    /\ UNCHANGED <<owner, local, used, torn>>

(* Mutant: the log is written before the change is noted in it.            *)
SaveComDbLocalOld ==
    /\ sync.pc = "save"
    /\ sync' = [sync EXCEPT !.pc = "loop"]
    /\ local' = sync.mask \ {sync.at}
    /\ UNCHANGED <<owner, used, torn>>

(* SaveComDbLocal; its result is ignored.                                  *)
SaveComDbLocal ==
    /\ sync.pc = "save"
    /\ sync' = [sync EXCEPT !.pc = "loop"]
    /\ \/ local' = sync.mask /\ UNCHANGED torn
       \/ local' = local /\ torn' = torn \cup {sync.at}
    /\ UNCHANGED <<owner, used>>

SyncDone ==
    /\ sync.pc = "loop" /\ sync.todo \cap Differ = {}
    /\ sync' = Idle
    /\ UNCHANGED <<owner, local, used, torn>>

(* The program ends anywhere in the sync: nothing but the two stores stays.*)
Crash ==
    /\ sync.pc # "idle"
    /\ sync' = Idle
    /\ torn' = IF sync.pc = "save" THEN torn \cup {sync.at} ELSE torn
    /\ UNCHANGED <<owner, local, used>>

SyncStep ==
    \/ LoadComNames \/ LoadComDbLocal \/ SaveComDbLocal \/ SyncDone \/ Crash
    \/ \E n \in Num : Claim(n) \/ Release(n) \/ Refused(n)

(* The commands of setup change the names of ports between two syncs.      *)
Rename ==
    /\ sync.pc = "idle"
    /\ used' \in SUBSET Num
    /\ UNCHANGED <<owner, local, sync, torn>>

(* ComDbClaim and ComDbRelease as UpdateRealPortName calls them, and the   *)
(* Ports class installer: the numbers of ports named by the class.  They   *)
(* release what they claimed, unless a torn log took it from them.         *)
ClassClaim(n) ==
    /\ ~InUse(n)
    /\ owner' = [owner EXCEPT ![n] = "class"]
    /\ UNCHANGED <<local, used, sync, torn>>

ClassRelease(n) ==
    /\ owner[n] = "class" \/ n \in torn
    /\ owner' = [owner EXCEPT ![n] = "free"]
    /\ UNCHANGED <<local, used, sync, torn>>

OtherClaim(n) ==
    /\ ~InUse(n)
    /\ owner' = [owner EXCEPT ![n] = "other"]
    /\ UNCHANGED <<local, used, sync, torn>>

OtherRelease(n) ==
    /\ owner[n] = "other"
    /\ owner' = [owner EXCEPT ![n] = "free"]
    /\ UNCHANGED <<local, used, sync, torn>>

Next ==
    \/ SyncStart \/ SyncStep \/ Rename
    \/ \E n \in Num : \/ ClassClaim(n) \/ ClassRelease(n)
                      \/ OtherClaim(n) \/ OtherRelease(n)

Spec == Init /\ [][Next]_vars

----------------------------------------------------------------------------
(* The log is exact: apart from the number between its claim or release    *)
(* and SaveComDbLocal, and from the numbers a crash, a failed save or an   *)
(* unread log has hit, a number is in the log if and only if it is setup   *)
(* that claimed it.  A number in the log too many is one that a later sync *)
(* takes from another program; one too few is never given back.            *)
LogExact ==
    \A n \in Num \ torn :
        ~(sync.pc = "save" /\ sync.at = n)
            => (n \in local <=> owner[n] = "setup")

(* ComDbSync never takes a number from another program or from the Ports   *)
(* class installer, although ComDB would let it: the log keeps it from it. *)
OthersKeepTheirs ==
    [][SyncStep => \A n \in Num \ torn :
                      owner[n] \in {"class", "other"} => owner'[n] = owner[n]]_vars

(* What the sync is for: when it comes to its end, setup holds exactly the *)
(* numbers that are names of its ports, apart from those whose call failed.*)
SyncAgrees ==
    [][SyncDone => \A n \in Num \ (torn \cup sync.skip) :
                      owner[n] = "setup" <=> n \in used]_vars
=============================================================================

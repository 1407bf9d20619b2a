---------------------------- MODULE ComDb_proofs ----------------------------
(***************************************************************************)
(* Proofs about module ComDb, for any set of numbers: the log is exact, no *)
(* sync takes a number from another program, and a sync that comes to its  *)
(* end has brought names, log and database into step.                      *)
(***************************************************************************)
EXTENDS ComDb, TLAPS

(* While the loop runs, its copy of the log says what setup has claimed.   *)
MaskExact ==
    sync.pc \in {"loop", "save"} =>
        \A n \in Num \ torn : n \in sync.mask <=> owner[n] = "setup"

(* The names the loop works with are the names of the ports.               *)
NamesCurrent == sync.pc \in {"local", "loop", "save"} => sync.names = used

(* The numbers the loop has passed agree, unless their call failed.        *)
Passed ==
    sync.pc \in {"loop", "save"} =>
        \A n \in Num \ (sync.todo \cup sync.skip) : n \in sync.names <=> n \in sync.mask

(* LogExact alone is not inductive: what SaveComDbLocal writes is the mask,*)
(* so the mask has to be exact before.                                     *)
IInv == TypeOK /\ LogExact /\ MaskExact /\ NamesCurrent /\ Passed

----------------------------------------------------------------------------
(* The number the loop takes next is in Num and differs; the numbers it    *)
(* leaves behind with it do not.                                           *)
LEMMA AtFacts ==
    ASSUME TypeOK, NEW n \in Num, At(n)
    PROVE  /\ sync.pc = "loop" /\ n \in Differ
           /\ Rest(n) \subseteq Num
           /\ \A m \in sync.todo \ Rest(n) : m \in Differ => m = n
<1>1. sync.todo \subseteq Num
  BY DEF TypeOK
<1>2. \A m \in sync.todo \ Rest(n) : m \in Differ => m = n
  <2> SUFFICES ASSUME NEW m \in sync.todo \ Rest(n), m \in Differ
               PROVE  m = n
    OBVIOUS
  <2>1. m \in Nat /\ n \in Nat
    BY <1>1, NumAssumption
  <2>2. n <= m
    BY DEF At
  <2>3. ~(m > n)
    BY DEF Rest
  <2> QED
    BY <2>1, <2>2, <2>3
<1> QED
  BY <1>1, <1>2 DEF At, Rest

LEMMA InitInv == Init => IInv
BY DEF Init, IInv, TypeOK, LogExact, MaskExact, NamesCurrent, Passed, Idle, Owner

(* Steps that leave owner, local, torn and the mask as they are.           *)
LEMMA StepInv == IInv /\ [Next]_vars => IInv'
<1> SUFFICES ASSUME IInv, [Next]_vars PROVE IInv'
  OBVIOUS
<1> USE DEF IInv
<1>1. CASE UNCHANGED vars
  BY <1>1 DEF vars, TypeOK, LogExact, MaskExact, NamesCurrent, Passed
<1>2. CASE SyncStart
  BY <1>2 DEF SyncStart, TypeOK, LogExact, MaskExact, NamesCurrent, Passed
<1>3. CASE LoadComNames
  <2>1. sync.pc = "names" /\ UNCHANGED <<owner, local, used, torn>>
    BY <1>3 DEF LoadComNames
  <2>2. CASE sync' = [sync EXCEPT !.pc = "local", !.names = used]
    <3>1. sync' = [pc |-> "local", names |-> used, mask |-> sync.mask,
                   todo |-> sync.todo, skip |-> sync.skip, at |-> sync.at]
      BY <2>2 DEF TypeOK
    <3> QED
      BY <2>1, <3>1 DEF TypeOK, LogExact, MaskExact, NamesCurrent, Passed
  <2>3. CASE sync' = Idle
    BY <2>1, <2>3 DEF Idle, TypeOK, LogExact, MaskExact, NamesCurrent, Passed
  <2> QED
    BY <1>3, <2>2, <2>3 DEF LoadComNames
<1>4. CASE LoadComDbLocal
  <2>1. sync.pc = "local" /\ UNCHANGED <<owner, local, used>>
    BY <1>4 DEF LoadComDbLocal
  <2>2. ASSUME NEW M \in SUBSET Num,
               sync' = [sync EXCEPT !.pc = "loop", !.mask = M, !.todo = Num],
               \/ M = local /\ torn' = torn
               \/ M = {} /\ torn' = torn \cup local
        PROVE  IInv'
    <3>1. sync' = [pc |-> "loop", names |-> sync.names, mask |-> M,
                   todo |-> Num, skip |-> sync.skip, at |-> sync.at]
      BY <2>2 DEF TypeOK
    <3>2. torn' \subseteq Num
      BY <2>2 DEF TypeOK
    <3>3. TypeOK'
      BY <2>1, <3>1, <3>2 DEF TypeOK
    <3>4. \A n \in Num \ torn' : (n \in local <=> owner[n] = "setup") /\ (n \in M <=> n \in local)
      BY <2>1, <2>2 DEF LogExact
    <3> QED
      BY <2>1, <3>1, <3>3, <3>4 DEF LogExact, MaskExact, NamesCurrent, Passed
  <2>3. CASE sync' = Idle /\ torn' = torn
    BY <2>1, <2>3 DEF Idle, TypeOK, LogExact, MaskExact, NamesCurrent, Passed
  <2>4. local \in SUBSET Num /\ {} \in SUBSET Num
    BY DEF TypeOK
  <2> QED
    BY <1>4, <2>2, <2>3, <2>4 DEF LoadComDbLocal
<1>5. CASE SaveComDbLocal
  BY <1>5 DEF SaveComDbLocal, TypeOK, LogExact, MaskExact, NamesCurrent, Passed
<1>6. CASE SyncDone
  BY <1>6 DEF SyncDone, TypeOK, LogExact, MaskExact, NamesCurrent, Passed, Idle
<1>7. CASE Crash
  BY <1>7 DEF Crash, TypeOK, LogExact, MaskExact, NamesCurrent, Passed, Idle
<1>8. ASSUME NEW n \in Num, Claim(n) PROVE IInv'
  <2>1. At(n)
    BY <1>8 DEF Claim
  <2>2. /\ sync.pc = "loop" /\ n \in Differ /\ Rest(n) \subseteq Num
        /\ \A m \in sync.todo \ Rest(n) : m \in Differ => m = n
    BY <2>1, AtFacts
  <2>3. TypeOK'
    BY <1>8, <2>2 DEF Claim, TypeOK, Owner
  <2>4. LogExact' /\ MaskExact' /\ NamesCurrent'
    BY <1>8, <2>2 DEF Claim, TypeOK, LogExact, MaskExact, NamesCurrent
  <2>5. Passed'
    BY <1>8, <2>2 DEF Claim, TypeOK, Passed, Differ
  <2> QED
    BY <2>3, <2>4, <2>5
<1>9. ASSUME NEW n \in Num, Release(n) PROVE IInv'
  <2>1. At(n)
    BY <1>9 DEF Release
  <2>2. /\ sync.pc = "loop" /\ n \in Differ /\ Rest(n) \subseteq Num
        /\ \A m \in sync.todo \ Rest(n) : m \in Differ => m = n
    BY <2>1, AtFacts
  <2>3. TypeOK'
    BY <1>9, <2>2 DEF Release, TypeOK, Owner
  <2>4. LogExact' /\ MaskExact' /\ NamesCurrent'
    BY <1>9, <2>2 DEF Release, TypeOK, LogExact, MaskExact, NamesCurrent
  <2>5. Passed'
    BY <1>9, <2>2 DEF Release, TypeOK, Passed, Differ
  <2> QED
    BY <2>3, <2>4, <2>5
<1>10. ASSUME NEW n \in Num, Refused(n) PROVE IInv'
  <2>1. At(n)
    BY <1>10 DEF Refused
  <2>2. /\ sync.pc = "loop" /\ n \in Differ /\ Rest(n) \subseteq Num
        /\ \A m \in sync.todo \ Rest(n) : m \in Differ => m = n
    BY <2>1, AtFacts
  <2>3. TypeOK' /\ LogExact' /\ MaskExact' /\ NamesCurrent'
    BY <1>10, <2>2 DEF Refused, TypeOK, LogExact, MaskExact, NamesCurrent
  <2>4. Passed'
    BY <1>10, <2>2 DEF Refused, TypeOK, Passed, Differ
  <2> QED
    BY <2>3, <2>4
<1>11. CASE Rename
  BY <1>11 DEF Rename, TypeOK, LogExact, MaskExact, NamesCurrent, Passed
<1>12. ASSUME NEW n \in Num,
              ClassClaim(n) \/ ClassRelease(n) \/ OtherClaim(n) \/ OtherRelease(n)
       PROVE IInv'
  <2>1. UNCHANGED <<local, used, sync, torn>>
    BY <1>12 DEF ClassClaim, ClassRelease, OtherClaim, OtherRelease
  <2>2. owner' \in [Num -> Owner]
    BY <1>12 DEF ClassClaim, ClassRelease, OtherClaim, OtherRelease, TypeOK, Owner
  <2>3. \A m \in Num \ torn : owner'[m] = "setup" <=> owner[m] = "setup"
    BY <1>12 DEF ClassClaim, ClassRelease, OtherClaim, OtherRelease, TypeOK, InUse
  <2> QED
    BY <2>1, <2>2, <2>3 DEF TypeOK, LogExact, MaskExact, NamesCurrent, Passed
<1> QED
  BY <1>1, <1>2, <1>3, <1>4, <1>5, <1>6, <1>7, <1>8, <1>9, <1>10, <1>11, <1>12
  DEF Next, SyncStep

LEMMA Invariance == Spec => []IInv
BY InitInv, StepInv, PTL DEF Spec

----------------------------------------------------------------------------
(* The types of the registry's log, the database and the loop of ComDbSync.*)
THEOREM TypeCorrect == Spec => []TypeOK
BY Invariance, PTL DEF IInv

(* The log of setup is exact but for the number in work and the numbers a  *)
(* crash or a failed call has hit: SaveComDbLocal, ClaimReleasePort.       *)
THEOREM LogIsExact == Spec => []LogExact
BY Invariance, PTL DEF IInv

(* A step of a sync leaves the numbers of others alone.                    *)
LEMMA OthersKept ==
    ASSUME IInv, SyncStep, NEW n \in Num \ torn, owner[n] \in {"class", "other"}
    PROVE  owner'[n] = owner[n]
<1>1. CASE LoadComNames \/ LoadComDbLocal \/ SaveComDbLocal \/ SyncDone \/ Crash
  BY <1>1 DEF LoadComNames, LoadComDbLocal, SaveComDbLocal, SyncDone, Crash
<1>2. ASSUME NEW m \in Num, Claim(m) PROVE owner'[n] = owner[n]
  BY <1>2 DEF Claim, InUse, IInv, TypeOK
<1>3. ASSUME NEW m \in Num, Release(m) PROVE owner'[n] = owner[n]
  <2>1. sync.pc = "loop" /\ m \in Differ /\ m \notin sync.names
    BY <1>3, AtFacts DEF Release, IInv
  <2>2. m \in sync.mask
    BY <2>1 DEF Differ
  <2>3. m # n
    BY <2>1, <2>2 DEF IInv, MaskExact
  <2> QED
    BY <1>3, <2>3 DEF Release, IInv, TypeOK
<1>4. ASSUME NEW m \in Num, Refused(m) PROVE owner'[n] = owner[n]
  BY <1>4 DEF Refused
<1> QED
  BY <1>1, <1>2, <1>3, <1>4 DEF SyncStep

(* When the loop has passed all numbers, names and database agree.         *)
LEMMA DoneAgrees ==
    ASSUME IInv, SyncDone, NEW n \in Num \ (torn \cup sync.skip)
    PROVE  owner[n] = "setup" <=> n \in used
<1>1. sync.pc = "loop" /\ sync.todo \cap Differ = {}
  BY DEF SyncDone
<1>2. n \in sync.mask <=> owner[n] = "setup"
  BY <1>1 DEF IInv, MaskExact
<1>3. n \in sync.names <=> n \in sync.mask
  <2>1. CASE n \in sync.todo
    BY <1>1, <2>1 DEF Differ
  <2>2. CASE n \notin sync.todo
    BY <1>1, <2>2 DEF IInv, Passed
  <2> QED
    BY <2>1, <2>2
<1> QED
  BY <1>1, <1>2, <1>3 DEF IInv, NamesCurrent

(* ComDbSync releases no number of another program.                        *)
THEOREM OthersUntouched == Spec => OthersKeepTheirs
<1>1. IInv /\ [Next]_vars
      => [SyncStep => \A n \in Num \ torn :
             owner[n] \in {"class", "other"} => owner'[n] = owner[n]]_vars
  BY OthersKept
<1> QED
  BY <1>1, Invariance, PTL DEF Spec, OthersKeepTheirs

(* When ComDbSync comes to its end, setup holds the numbers that are names *)
(* of its ports and no others, but for those whose call failed.            *)
THEOREM SyncReaches == Spec => SyncAgrees
<1>1. IInv /\ [Next]_vars
      => [SyncDone => \A n \in Num \ (torn \cup sync.skip) :
             owner[n] = "setup" <=> n \in used]_vars
  BY DoneAgrees
<1> QED
  BY <1>1, Invariance, PTL DEF Spec, SyncAgrees
=============================================================================

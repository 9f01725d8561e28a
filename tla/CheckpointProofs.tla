--------------------------- MODULE CheckpointProofs ---------------------------
(***************************************************************************)
(* The marker of checkpoint.rs is durable for any processes, attempts and  *)
(* inodes, whatever crashes and power losses fall between the calls.       *)
(*                                                                         *)
(* ArmedSurvives and ClearedStaysCleared are not inductive.  They rest on  *)
(* the lock, by which one process at a time is inside a call (CallerInv),  *)
(* on what a call in progress knows of the entry (PhaseInv), and on the    *)
(* content of a published file having been synchronised (SyncedInv).       *)
(***************************************************************************)
EXTENDS CheckpointCalls, TLAPS

-----------------------------------------------------------------------------
(* The system calls of lease.rs, for any processes, inodes and replacements of execution.lock. *)
Stages == {"none", "opened", "checked", "flocked", "held"}

LockType ==
    /\ named \in Inodes \union {NoInode}
    /\ fd \in [Processes -> Inodes \union {NoInode}]
    /\ flocked \in [Inodes -> Processes \union {Nobody}]
    /\ stage \in [Processes -> Stages]

(* An open descriptor has an inode, and after the flock it is its only owner. *)
FlockInv ==
    \A p \in Processes :
        /\ stage[p] # "none" => fd[p] \in Inodes
        /\ stage[p] \in {"flocked", "held"} => flocked[fd[p]] = p

(* GuardIsNamed is not inductive alone: that a second guard is impossible rests on the flocks. *)
LockInv == LockType /\ FlockInv /\ HL!GuardIsNamed

(* Dropping a descriptor touches no other process and can only end a guard. *)
LEMMA CloseKeepsInv ==
    ASSUME LockInv, NEW p \in Processes, Nobody \notin Processes, HL!Close(p)
    PROVE  LockInv'
<1>1. LockType'
  BY DEF LockInv, LockType, HL!Close, Stages
<1>2. FlockInv'
  BY DEF LockInv, LockType, FlockInv, HL!Close, Stages
<1>3. HL!GuardIsNamed'
  <2> SUFFICES ASSUME NEW q \in Processes, stage'[q] = "held"
               PROVE  fd'[q] = named' /\ flocked'[named'] = q
    BY DEF HL!GuardIsNamed, HL!Guarded
  <2>1. q # p /\ stage[q] = "held"
    BY DEF LockInv, LockType, HL!Close, Stages
  <2>2. fd[q] = named /\ flocked[named] = q /\ fd[q] \in Inodes
    BY <2>1 DEF LockInv, FlockInv, HL!GuardIsNamed, HL!Guarded
  <2> QED
    BY <2>1, <2>2 DEF LockInv, LockType, HL!Close
<1> QED
  BY <1>1, <1>2, <1>3 DEF LockInv

(* At most one guard: two would hold the flock of the one inode the name has. *)
LEMMA OneGuard ==
    ASSUME LockInv, NEW p \in HL!Guarded, NEW q \in HL!Guarded
    PROVE  p = q
  BY DEF LockInv, HL!GuardIsNamed

(* No step of any process, and no replacement of the file, breaks the invariant. *)
LEMMA StepKeepsInv ==
    ASSUME NoInode \notin Inodes, Nobody \notin Processes, LockInv, [HL!LockNext]_(HL!lockVars)
    PROVE  LockInv'
<1>1. ASSUME NEW p \in Processes, HL!Open(p) PROVE LockInv'
  <2>1. named = NoInode => HL!Guarded = {}
    BY DEF LockInv, FlockInv, HL!GuardIsNamed, HL!Guarded
  <2>2. LockType'
    BY <1>1 DEF LockInv, LockType, HL!Open, Stages
  <2>3. named' \in Inodes
    BY <1>1 DEF LockInv, LockType, HL!Open
  <2>4. FlockInv'
    BY <1>1, <2>3 DEF LockInv, LockType, FlockInv, HL!Open, Stages
  <2>5. HL!GuardIsNamed'
    BY <1>1, <2>1 DEF LockInv, LockType, HL!GuardIsNamed, HL!Guarded, HL!Open, Stages
  <2> QED
    BY <2>2, <2>4, <2>5 DEF LockInv
<1>2. ASSUME NEW p \in Processes, HL!ValidateOpened(p) PROVE LockInv'
  <2>1. CASE HL!ValidLock(p)
    BY <1>2, <2>1 DEF LockInv, LockType, FlockInv, HL!GuardIsNamed, HL!Guarded, HL!ValidateOpened, Stages
  <2>2. CASE ~HL!ValidLock(p)
    BY <1>2, <2>2, CloseKeepsInv DEF HL!ValidateOpened
  <2> QED
    BY <2>1, <2>2
<1>3. ASSUME NEW p \in Processes, HL!Flock(p) PROVE LockInv'
  <2>1. CASE flocked[fd[p]] = Nobody
    <3>1. fd[p] \in Inodes
      BY <1>3 DEF LockInv, FlockInv, HL!Flock
    <3>2. LockType'
      BY <1>3, <2>1 DEF LockInv, LockType, HL!Flock, Stages
    <3>3. FlockInv'
      BY <1>3, <2>1, <3>1 DEF LockInv, LockType, FlockInv, HL!Flock, Stages
    <3>4. HL!GuardIsNamed'
      BY <1>3, <2>1, <3>1 DEF LockInv, LockType, FlockInv, HL!GuardIsNamed, HL!Guarded, HL!Flock, Stages
    <3> QED
      BY <3>2, <3>3, <3>4 DEF LockInv
  <2>2. CASE flocked[fd[p]] # Nobody
    BY <1>3, <2>2, CloseKeepsInv DEF HL!Flock
  <2> QED
    BY <2>1, <2>2
<1>4. ASSUME NEW p \in Processes, HL!ValidateFlocked(p) PROVE LockInv'
  <2>1. CASE HL!ValidLock(p)
    BY <1>4, <2>1
       DEF LockInv, LockType, FlockInv, HL!GuardIsNamed, HL!Guarded, HL!ValidateFlocked, HL!ValidLock, Stages
  <2>2. CASE ~HL!ValidLock(p)
    BY <1>4, <2>2, CloseKeepsInv DEF HL!ValidateFlocked
  <2> QED
    BY <2>1, <2>2
<1>5. ASSUME NEW p \in Processes, HL!Release(p) PROVE LockInv'
  BY <1>5, CloseKeepsInv DEF HL!Release
<1>6. CASE HL!Replace
  BY <1>6 DEF LockInv, LockType, FlockInv, HL!GuardIsNamed, HL!Guarded, HL!Replace
<1>7. CASE UNCHANGED HL!lockVars
  BY <1>7 DEF LockInv, LockType, FlockInv, HL!GuardIsNamed, HL!Guarded, HL!lockVars
<1> QED
  BY <1>1, <1>2, <1>3, <1>4, <1>5, <1>6, <1>7 DEF HL!LockNext

(* The lock is free at first. *)
LEMMA InitGivesInv ==
    ASSUME HL!LockInit, Nobody \notin Processes
    PROVE  LockInv
  BY DEF HL!LockInit, LockInv, LockType, FlockInv, HL!GuardIsNamed, HL!Guarded, Stages

-----------------------------------------------------------------------------
Holder == IF HL!Guarded = {} THEN Nobody ELSE CHOOSE p \in Processes : p \in HL!Guarded

(* The holder that the refinement names is the process with the guard. *)
LEMMA HolderIsGuard ==
    ASSUME LockInv, NEW p \in HL!Guarded
    PROVE  Holder = p
<1>1. p \in Processes
  BY DEF HL!Guarded
<1>2. Holder \in HL!Guarded
  BY <1>1 DEF Holder
<1> QED
  BY <1>2, OneGuard

(* Every step takes the lock when it is free, gives it back, or leaves the holder alone. *)
LEMMA StepMapsToMutex ==
    ASSUME NoInode \notin Inodes, Nobody \notin Processes, LockInv, LockInv', [HL!LockNext]_(HL!lockVars)
    PROVE  [\E p \in Processes : (Holder = Nobody /\ Holder' = p)
                                 \/ (Holder = p /\ Holder' = Nobody)]_Holder
<1>1. ASSUME HL!Guarded' = HL!Guarded PROVE Holder' = Holder
  BY <1>1 DEF Holder
<1>2. ASSUME NEW p \in Processes, HL!Close(p)
      PROVE  (Holder = p /\ Holder' = Nobody) \/ Holder' = Holder
  <2>1. HL!Guarded' = HL!Guarded \ {p}
    BY <1>2 DEF HL!Close, HL!Guarded, LockInv, LockType, Stages
  <2>2. CASE p \in HL!Guarded
    <3>1. HL!Guarded' = {}
      BY <2>1, <2>2, OneGuard
    <3> QED
      BY <2>2, <3>1, HolderIsGuard DEF Holder
  <2>3. CASE p \notin HL!Guarded
    BY <1>1, <2>1, <2>3
  <2> QED
    BY <2>2, <2>3
<1>3. ASSUME NEW p \in Processes, HL!Open(p) \/ HL!ValidateOpened(p) \/ HL!Flock(p) \/ HL!Release(p)
      PROVE  (Holder = p /\ Holder' = Nobody) \/ Holder' = Holder
  <2>1. CASE HL!Close(p)
    BY <1>2, <2>1
  <2>2. CASE ~HL!Close(p)
    <3>1. HL!Guarded' = HL!Guarded
      BY <1>3, <2>2
         DEF HL!Open, HL!ValidateOpened, HL!Flock, HL!Release, HL!Guarded, LockInv, LockType, Stages
    <3> QED
      BY <1>1, <3>1
  <2> QED
    BY <2>1, <2>2
<1>4. ASSUME NEW p \in Processes, HL!ValidateFlocked(p)
      PROVE  \/ Holder = Nobody /\ Holder' = p
             \/ Holder = p /\ Holder' = Nobody
             \/ Holder' = Holder
  <2>1. CASE HL!ValidLock(p)
    <3>1. HL!Guarded = {}
      BY <1>4, <2>1 DEF HL!ValidateFlocked, HL!ValidLock, LockInv, FlockInv, HL!GuardIsNamed, HL!Guarded
    <3>2. HL!Guarded' = {p}
      BY <1>4, <2>1, <3>1 DEF HL!ValidateFlocked, HL!Guarded, LockInv, LockType, Stages
    <3>3. Holder' = p
      BY <3>2 DEF Holder
    <3> QED
      BY <3>1, <3>3 DEF Holder
  <2>2. CASE ~HL!ValidLock(p)
    BY <1>2, <1>4, <2>2 DEF HL!ValidateFlocked
  <2> QED
    BY <2>1, <2>2
<1>5. CASE HL!Replace \/ UNCHANGED HL!lockVars
  BY <1>1, <1>5 DEF HL!Replace, HL!lockVars, HL!Guarded
<1> QED
  BY <1>3, <1>4, <1>5 DEF HL!LockNext

(***************************************************************************)
(* try_lock_host implements the atomic lock for every number of processes  *)
(* and inodes: whatever replacements of an idle lock file fall between its *)
(* system calls, at most one guard exists at a time.                       *)
(***************************************************************************)
THEOREM LockRefinement == HL!LockSpec => HL!ImplementsMutex
<1>1. HL!LockInit => LockInv
  BY InitGivesInv, NobodyAssumption
<1>2. LockInv /\ [HL!LockNext]_(HL!lockVars) => LockInv'
  BY StepKeepsInv, InodeAssumption, NobodyAssumption
<1>3. HL!LockInit => HL!Mutex!MutexInit
  BY DEF HL!LockInit, HL!Mutex!MutexInit, HL!Guarded
<1>4. LockInv /\ LockInv' /\ [HL!LockNext]_(HL!lockVars) => [HL!Mutex!MutexNext]_Holder
  BY StepMapsToMutex, InodeAssumption, NobodyAssumption DEF HL!Mutex!MutexNext, HL!Mutex!TryLockHost, HL!Mutex!Unlock, Holder
<1> QED
  BY <1>1, <1>2, <1>3, <1>4, PTL
     DEF HL!LockSpec, HL!ImplementsMutex, HL!Mutex!MutexSpec, Holder

-----------------------------------------------------------------------------
Labels == {"Idle", "Ready", "ArmOk", "ClearOk"} \union ArmLabels \union ClearLabels

CallType ==
    /\ visible \in Entries
    /\ durable \in Entries
    /\ synced \subseteq Attempts
    /\ attempt \in [Processes -> Attempts \union {NoAttempt}]
    /\ pc \in [Processes -> Labels]
    /\ armed \subseteq Attempts
    /\ cleared \subseteq Attempts

(* A process inside a call sequence has the guard. *)
CallerInv == \A p \in Processes : pc[p] # "Idle" => stage[p] = "held"

PhaseInv ==
    \A p \in Processes :
        /\ pc[p] \notin {"Idle", "Ready"} => attempt[p] \in Attempts
        /\ pc[p] \in {"ArmWrite", "ArmSync", "ArmPublish", "ClearDirSync", "ClearOk"} => visible = NoAttempt
        /\ pc[p] \in {"ArmDirSync", "ArmOk", "ClearUnlink"} => visible = attempt[p]
        /\ pc[p] \in {"ArmOk", "ClearOk"} => durable = visible

SyncedInv ==
    /\ armed \subseteq synced
    /\ \A p \in Processes :
         pc[p] \in {"ArmPublish", "ArmDirSync", "ArmOk"} => attempt[p] \in synced

CallInv == CallType /\ LockInv /\ CallerInv /\ PhaseInv /\ SyncedInv
               /\ ArmedSurvives /\ ClearedStaysCleared

-----------------------------------------------------------------------------
(* The lock steps of the callers are those of HostLock, and PowerLoss drops every descriptor. *)
LEMMA LockStepOrLoss ==
    ASSUME [CallNext]_<<callVars, lockFile>>
    PROVE  [HL!LockNext]_(HL!lockVars) \/ PowerLoss
<1>1. ASSUME NEW p \in Processes, Acquire(p) \/ Lock(p) \/ Leave(p) PROVE HL!LockNext
  BY <1>1 DEF Acquire, Lock, Leave, HL!LockNext
<1>2. ASSUME HL!Replace PROVE HL!LockNext
  BY <1>2 DEF HL!LockNext
<1>3. ASSUME UNCHANGED lockFile PROVE UNCHANGED HL!lockVars
  BY <1>3 DEF lockFile, HL!lockVars
<1> QED
  BY <1>1, <1>2, <1>3 DEF CallNext

LEMMA LockKept ==
    ASSUME LockInv, [CallNext]_<<callVars, lockFile>>
    PROVE  LockInv'
<1>1. CASE [HL!LockNext]_(HL!lockVars)
  BY <1>1, StepKeepsInv, InodeAssumption, NobodyAssumption
<1>2. CASE PowerLoss
  BY <1>2 DEF PowerLoss, LockInv, LockType, FlockInv, HL!GuardIsNamed, HL!Guarded, Stages
<1> QED
  BY <1>1, <1>2, LockStepOrLoss

(* By the lock, one process at a time is inside a call. *)
LEMMA OneCaller ==
    ASSUME LockInv, CallerInv, NEW p \in Processes, NEW q \in Processes,
           pc[p] # "Idle", pc[q] # "Idle"
    PROVE  p = q
<1>1. p \in HL!Guarded /\ q \in HL!Guarded
  BY DEF CallerInv, HL!Guarded
<1> QED
  BY <1>1, OneGuard

(* What a system call of arm or clear does to the disk, and where it leads. *)
LEMMA StepCases ==
    ASSUME NEW p \in Processes, Step(p)
    PROVE  /\ UNCHANGED <<holder, attempt>>
           /\ armed' = IF visible' = visible THEN armed ELSE armed \ {attempt[p]}
           /\ cleared' = cleared \ {visible'}
           /\ \/ pc[p] = "ArmWrite" /\ Goto(p, "ArmSync") /\ UNCHANGED disk
              \/ /\ pc[p] = "ArmSync" /\ Goto(p, "ArmPublish")
                 /\ synced' = synced \union {attempt[p]} /\ UNCHANGED <<visible, durable>>
              \/ /\ pc[p] = "ArmPublish" /\ Goto(p, "ArmDirSync")
                 /\ visible = NoAttempt /\ visible' = attempt[p] /\ UNCHANGED <<durable, synced>>
              \/ /\ pc[p] = "ArmDirSync" /\ Goto(p, "ArmOk")
                 /\ durable' = visible /\ UNCHANGED <<visible, synced>>
              \/ /\ pc[p] = "ClearUnlink" /\ Goto(p, "ClearDirSync")
                 /\ visible' = NoAttempt /\ UNCHANGED <<durable, synced>>
              \/ /\ pc[p] = "ClearDirSync" /\ Goto(p, "ClearOk")
                 /\ durable' = visible /\ UNCHANGED <<visible, synced>>
              \/ pc[p] \in ArmLabels \union ClearLabels /\ Goto(p, "Ready") /\ UNCHANGED disk
  BY DEF Step, ArmWrite, ArmSync, ArmPublish, ArmDirSync, ClearUnlink, ClearDirSync, Poison,
         disk, ArmLabels, ClearLabels

(* arm and clear begin: the disk is untouched, and a call that goes on has seen its entry. *)
LEMMA BeginCases ==
    ASSUME NEW p \in Processes, CallArm(p) \/ CallClear(p)
    PROVE  /\ pc[p] = "Ready" /\ UNCHANGED <<disk, armed, cleared>>
           /\ \E t \in Attempts :
                /\ attempt' = [attempt EXCEPT ![p] = t]
                /\ \/ Goto(p, "Ready")
                   \/ Goto(p, "ArmWrite") /\ visible = NoAttempt
                   \/ Goto(p, "ClearUnlink") /\ visible = t
  BY DEF CallArm, CallClear, ArmBegin, ClearBegin, disk

LEMMA TypeKept ==
    ASSUME CallType, PhaseInv, [CallNext]_<<callVars, lockFile>>
    PROVE  CallType'
<1> USE DEF CallType, Entries, Labels, ArmLabels, ClearLabels
<1>1. ASSUME NEW p \in Processes, Acquire(p) \/ Lock(p) \/ Leave(p) PROVE CallType'
  BY <1>1 DEF Acquire, Lock, Leave, callVars, disk, Goto
<1>2. ASSUME NEW p \in Processes, CallArm(p) \/ CallClear(p) PROVE CallType'
  BY <1>2, BeginCases DEF disk, Goto
<1>3. ASSUME NEW p \in Processes, Step(p) PROVE CallType'
  <2>1. pc[p] \notin {"Idle", "Ready"}
    BY <1>3, StepCases
  <2>2. attempt[p] \in Attempts
    BY <2>1 DEF PhaseInv
  <2> QED
    BY <1>3, <2>2, StepCases DEF disk, Goto
<1>4. ASSUME NEW p \in Processes, ArmReturns(p) \/ ClearReturns(p) PROVE CallType'
  <2>1. attempt[p] \in Attempts
    BY <1>4 DEF PhaseInv, ArmReturns, ClearReturns
  <2> QED
    BY <1>4, <2>1 DEF ArmReturns, ClearReturns, disk, Goto
<1>5. CASE Writeback /\ UNCHANGED <<armed, cleared>>
  BY <1>5 DEF Writeback
<1>6. CASE PowerLoss
  BY <1>6 DEF PowerLoss, AfterPowerLoss
<1>7. CASE UNCHANGED callVars
  BY <1>7 DEF callVars, disk
<1> QED
  BY <1>1, <1>2, <1>3, <1>4, <1>5, <1>6, <1>7 DEF CallNext

(* Only the holder of the guard leaves "Idle", and the guard goes with the return to it. *)
LEMMA CallerKept ==
    ASSUME CallType, LockInv, CallerInv, [CallNext]_<<callVars, lockFile>>
    PROVE  CallerInv'
<1> USE DEF CallType, CallerInv, LockInv, LockType
<1>1. ASSUME NEW p \in Processes, Acquire(p) PROVE CallerInv'
  <2>1. pc[p] = "Idle" /\ UNCHANGED pc
    BY <1>1 DEF Acquire, callVars, HL!Open, HL!ValidateOpened, HL!Flock
  <2>2. \A q \in Processes \ {p} : UNCHANGED stage[q]
    BY <1>1 DEF Acquire, HL!Open, HL!ValidateOpened, HL!Flock, HL!Release, HL!Close
  <2> QED
    BY <2>1, <2>2
<1>2. ASSUME NEW p \in Processes, Lock(p) PROVE CallerInv'
  <2>1. pc[p] = "Idle"
    BY <1>2 DEF Lock, HL!ValidateFlocked
  <2>2. \A q \in Processes \ {p} : UNCHANGED <<pc[q], stage[q]>>
    BY <1>2 DEF Lock, HL!ValidateFlocked, HL!Close, Goto
  <2>3. stage'[p] = "held" \/ pc'[p] = "Idle"
    BY <1>2, <2>1 DEF Lock
  <2> QED
    BY <2>2, <2>3
<1>3. ASSUME NEW p \in Processes, Leave(p) PROVE CallerInv'
  BY <1>3 DEF Leave, HL!Release, HL!Close, Goto
<1>4. ASSUME NEW p \in Processes, pc[p] # "Idle", UNCHANGED stage, \E l \in Labels : Goto(p, l)
      PROVE  CallerInv'
  BY <1>4 DEF Goto
<1>5. ASSUME NEW p \in Processes, UNCHANGED lockFile,
             CallArm(p) \/ CallClear(p) \/ Step(p) \/ ArmReturns(p) \/ ClearReturns(p)
      PROVE  pc[p] # "Idle" /\ UNCHANGED stage /\ \E l \in Labels : Goto(p, l)
  <2> USE DEF lockFile, Labels, ArmLabels, ClearLabels
  <2>1. CASE CallArm(p) \/ CallClear(p)
    BY <1>5, <2>1, BeginCases
  <2>2. CASE Step(p)
    BY <1>5, <2>2, StepCases
  <2>3. CASE ArmReturns(p) \/ ClearReturns(p)
    BY <1>5, <2>3 DEF ArmReturns, ClearReturns
  <2> QED
    BY <1>5, <2>1, <2>2, <2>3
<1>6. CASE PowerLoss
  BY <1>6 DEF PowerLoss
<1>7. CASE UNCHANGED <<pc, stage>>
  BY <1>7
<1> QED
  BY <1>1, <1>2, <1>3, <1>4, <1>5, <1>6, <1>7
     DEF CallNext, Writeback, HL!Replace, callVars, lockFile

(***************************************************************************)
(* What the marker's properties need, together: every step of a call is by *)
(* the only caller, so it disturbs no other call in progress.              *)
(***************************************************************************)
Content == PhaseInv /\ SyncedInv /\ ArmedSurvives /\ ClearedStaysCleared

LEMMA StepKeepsContent ==
    ASSUME CallInv, NEW p \in Processes, Step(p)
    PROVE  Content'
<1> USE DEF CallInv, CallType
<1>1. pc[p] # "Idle" /\ attempt[p] \in Attempts
  BY StepCases DEF PhaseInv, ArmLabels, ClearLabels
<1>2. \A q \in Processes \ {p} : pc[q] = "Idle" /\ pc'[q] = "Idle"
  <2>1. \A q \in Processes \ {p} : pc[q] = "Idle"
    BY <1>1, OneCaller
  <2> QED
    BY <2>1, StepCases DEF Goto
<1>3. \A l : Goto(p, l) => pc'[p] = l
  BY DEF Goto
<1>4. armed \subseteq {visible} \intersect {durable}
  BY Zenon DEF ArmedSurvives
<1>5. PhaseInv'
  BY <1>1, <1>2, <1>3, StepCases DEF PhaseInv, disk
<1>6. SyncedInv'
  BY <1>1, <1>2, <1>3, StepCases DEF SyncedInv, disk
<1>7. ArmedSurvives'
  BY <1>1, <1>4, StepCases, AttemptAssumption DEF PhaseInv, ArmedSurvives, disk
<1>8. ClearedStaysCleared'
  BY <1>1, StepCases, AttemptAssumption DEF PhaseInv, ClearedStaysCleared, disk
<1> QED
  BY <1>5, <1>6, <1>7, <1>8 DEF Content

LEMMA BeginKeepsContent ==
    ASSUME CallInv, NEW p \in Processes, CallArm(p) \/ CallClear(p)
    PROVE  Content'
<1> USE DEF CallInv, CallType
<1>1. PICK t \in Attempts :
        /\ attempt' = [attempt EXCEPT ![p] = t]
        /\ \/ Goto(p, "Ready")
           \/ Goto(p, "ArmWrite") /\ visible = NoAttempt
           \/ Goto(p, "ClearUnlink") /\ visible = t
  BY BeginCases
<1>2. \A q \in Processes \ {p} : pc'[q] = "Idle"
  <2>1. pc[p] = "Ready"
    BY BeginCases
  <2>2. \A q \in Processes \ {p} : pc[q] = "Idle"
    BY <2>1, OneCaller
  <2> QED
    BY <1>1, <2>2 DEF Goto
<1>3. attempt'[p] = t /\ \A l : Goto(p, l) => pc'[p] = l
  BY <1>1 DEF Goto
<1> QED
  BY <1>1, <1>2, <1>3, BeginCases
     DEF Content, PhaseInv, SyncedInv, ArmedSurvives, ClearedStaysCleared, disk

LEMMA ReturnKeepsContent ==
    ASSUME CallInv, NEW p \in Processes, ArmReturns(p) \/ ClearReturns(p)
    PROVE  Content'
<1> USE DEF CallInv, CallType, PhaseInv
<1>1. PhaseInv'
  BY DEF ArmReturns, ClearReturns, Goto, disk
<1>2. SyncedInv'
  BY DEF SyncedInv, ArmReturns, ClearReturns, Goto, disk
<1>3. ArmedSurvives'
  BY DEF ArmedSurvives, ArmReturns, ClearReturns, disk
<1>4. ClearedStaysCleared'
  BY AttemptAssumption DEF ClearedStaysCleared, ArmReturns, ClearReturns, disk
<1> QED
  BY <1>1, <1>2, <1>3, <1>4 DEF Content

(* A power loss keeps an armed marker because its file was synchronised before it was named. *)
LEMMA LossKeepsContent ==
    ASSUME CallInv, PowerLoss
    PROVE  Content'
<1>1. PhaseInv' /\ SyncedInv'
  BY DEF CallInv, PowerLoss, PhaseInv, SyncedInv
<1>2. ArmedSurvives'
  BY DEF CallInv, PowerLoss, SyncedInv, ArmedSurvives, AfterPowerLoss
<1>3. ClearedStaysCleared'
  BY AttemptAssumption DEF CallInv, CallType, PowerLoss, ClearedStaysCleared, AfterPowerLoss
<1> QED
  BY <1>1, <1>2, <1>3 DEF Content

LEMMA OtherStepsKeepContent ==
    ASSUME CallInv,
           \/ \E p \in Processes : Acquire(p) \/ Lock(p) \/ Leave(p)
           \/ Writeback /\ UNCHANGED <<armed, cleared>>
           \/ UNCHANGED callVars
    PROVE  Content'
<1> USE DEF CallInv, CallType, Content, PhaseInv, SyncedInv, ArmedSurvives, ClearedStaysCleared
<1>1. CASE UNCHANGED callVars
  BY <1>1 DEF callVars, disk
<1>2. ASSUME NEW p \in Processes, Lock(p) \/ Leave(p) PROVE Content'
  BY <1>2 DEF Lock, Leave, Goto, disk
<1>3. CASE Writeback /\ UNCHANGED <<armed, cleared>>
  BY <1>3 DEF Writeback
<1> QED
  BY <1>1, <1>2, <1>3 DEF Acquire

LEMMA CallInvHolds == CallSpec => []CallInv
<1>1. CallInit => CallInv
  <2> SUFFICES ASSUME CallInit PROVE CallInv
    OBVIOUS
  <2>1. LockInv
    BY InitGivesInv, NobodyAssumption DEF CallInit
  <2> QED
    BY <2>1
       DEF CallInit, StoreInit, CallInv, CallType, Entries, Labels, CallerInv, PhaseInv, SyncedInv,
           ArmedSurvives, ClearedStaysCleared
<1>2. CallInv /\ [CallNext]_<<callVars, lockFile>> => CallInv'
  <2> SUFFICES ASSUME CallInv, [CallNext]_<<callVars, lockFile>> PROVE CallInv'
    OBVIOUS
  <2>1. CallType' /\ LockInv' /\ CallerInv'
    BY TypeKept, LockKept, CallerKept DEF CallInv
  <2>2. UNCHANGED <<callVars, lockFile>> => UNCHANGED callVars
    OBVIOUS
  <2>3. Content'
    BY <2>2, StepKeepsContent, BeginKeepsContent, ReturnKeepsContent, LossKeepsContent,
       OtherStepsKeepContent DEF CallNext
  <2> QED
    BY <2>1, <2>3 DEF CallInv, Content
<1> QED
  BY <1>1, <1>2, PTL DEF CallSpec

(***************************************************************************)
(* arm: the marker of a call that returned Ok is read by every process and *)
(* survives a power loss until clear unlinks it, for any processes that    *)
(* take the lock and call arm and clear in any order.                      *)
(***************************************************************************)
THEOREM ArmIsDurable == CallSpec => []ArmedSurvives
<1>1. CallInv => ArmedSurvives
  BY DEF CallInv
<1> QED
  BY <1>1, CallInvHolds, PTL

(***************************************************************************)
(* clear: an acknowledged removal is final, for any such callers.          *)
(***************************************************************************)
THEOREM ClearIsDurable == CallSpec => []ClearedStaysCleared
<1>1. CallInv => ClearedStaysCleared
  BY DEF CallInv
<1> QED
  BY <1>1, CallInvHolds, PTL

(* A power loss ends the one guard there is; every other step is one of HostLock's. *)
LEMMA CallMapsToMutex ==
    ASSUME CallInv, CallInv', [CallNext]_<<callVars, lockFile>>
    PROVE  [\E p \in Processes : (Holder = Nobody /\ Holder' = p)
                                 \/ (Holder = p /\ Holder' = Nobody)]_(Holder)
<1>1. CASE [HL!LockNext]_(HL!lockVars)
  BY <1>1, StepMapsToMutex, InodeAssumption, NobodyAssumption DEF CallInv
<1>2. CASE PowerLoss
  <2>1. Holder' = Nobody
    BY <1>2 DEF PowerLoss, Holder, HL!Guarded
  <2>2. Holder = Nobody \/ Holder \in Processes
    BY DEF Holder, HL!Guarded
  <2> QED
    BY <2>1, <2>2
<1> QED
  BY <1>1, <1>2, LockStepOrLoss

(***************************************************************************)
(* try_lock_host: the guards of the callers of arm and clear behave as the *)
(* atomic lock, also when the power fails while one of them is held.       *)
(***************************************************************************)
THEOREM CallersRefineMutex == CallSpec => ImplementsMutex
<1> DEFINE H == IF HL!Guarded = {} THEN Nobody ELSE CHOOSE p \in Processes : p \in HL!Guarded
<1>1. CallInit => H = Nobody
  BY DEF CallInit, HL!LockInit, HL!Guarded
<1>2. CallInv /\ CallInv' /\ [CallNext]_<<callVars, lockFile>>
        => [\E p \in Processes : (H = Nobody /\ H' = p) \/ (H = p /\ H' = Nobody)]_H
  BY CallMapsToMutex DEF Holder
<1> QED
  BY <1>1, <1>2, CallInvHolds, PTL
     DEF CallSpec, ImplementsMutex, HL!ImplementsMutex, HL!Mutex!MutexSpec, HL!Mutex!MutexInit,
         HL!Mutex!MutexNext, HL!Mutex!TryLockHost, HL!Mutex!Unlock

=============================================================================

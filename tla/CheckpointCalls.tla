--------------------------- MODULE CheckpointCalls ---------------------------
(***************************************************************************)
(* CheckpointStore under callers that take the host lock, system call by   *)
(* system call, and then call arm and clear in any order and with any      *)
(* attempt, on a new handle after each acquisition.  Processes die between *)
(* any two system calls, and the power may fail.                           *)
(***************************************************************************)
EXTENDS CheckpointStore

CONSTANTS Inodes, NoInode

ASSUME InodeAssumption == NoInode \notin Inodes

VARIABLES
    named, fd, flocked, stage,      \* the lock file, as in HostLock
    armed,      \* history: attempts whose arm returned Ok and that no clear unlinked
    cleared     \* history: attempts whose clear returned Ok and that no arm published again

HL == INSTANCE HostLock

lockFile == <<named, fd, flocked, stage>>

callVars == <<holder, disk, poisoned, attempt, pc, armed, cleared>>

CallInit ==
    /\ HL!LockInit
    /\ StoreInit
    /\ attempt = [p \in Processes |-> NoAttempt]
    /\ pc = [p \in Processes |-> "Idle"]
    /\ armed = {}
    /\ cleared = {}

(* try_lock_host up to its last check; an error or the death of p drops the descriptor. *)
Acquire(p) ==
    /\ HL!Open(p) \/ HL!ValidateOpened(p) \/ HL!Flock(p) \/ (pc[p] = "Idle" /\ HL!Release(p))
    /\ UNCHANGED callVars

(* The last check of try_lock_host: a guard and, opened with it, a new store handle. *)
Lock(p) ==
    /\ HL!ValidateFlocked(p)
    /\ IF stage'[p] = "held"
         THEN /\ holder' = p
              /\ Goto(p, "Ready")
              /\ poisoned' = [poisoned EXCEPT ![p] = FALSE]
         ELSE UNCHANGED <<holder, pc, poisoned>>
    /\ UNCHANGED <<disk, attempt, armed, cleared>>

CallArm(p) ==
    /\ pc[p] = "Ready"
    /\ \E t \in Attempts : ArmBegin(p, t, "Ready")
    /\ UNCHANGED <<armed, cleared>>

CallClear(p) ==
    /\ pc[p] = "Ready"
    /\ \E t \in Attempts : ClearBegin(p, t, "Ready")
    /\ UNCHANGED <<armed, cleared>>

Step(p) ==
    /\ \/ ArmWrite(p, "Ready") \/ ArmSync(p, "Ready")
       \/ ArmPublish(p, "Ready") \/ ArmDirSync(p, "ArmOk", "Ready")
       \/ ClearUnlink(p, "Ready") \/ ClearDirSync(p, "ClearOk", "Ready")
    /\ armed' = IF visible' = visible THEN armed ELSE armed \ {attempt[p]}
    /\ cleared' = cleared \ {visible'}

ArmReturns(p) ==
    /\ pc[p] = "ArmOk"
    /\ armed' = armed \union {attempt[p]}
    /\ Goto(p, "Ready")
    /\ UNCHANGED <<holder, disk, poisoned, attempt, cleared>>

ClearReturns(p) ==
    /\ pc[p] = "ClearOk"
    /\ cleared' = cleared \union {attempt[p]}
    /\ Goto(p, "Ready")
    /\ UNCHANGED <<holder, disk, poisoned, attempt, armed>>

(* The guard is dropped at the end of a call sequence, or p dies anywhere. *)
Leave(p) ==
    /\ pc[p] # "Idle"
    /\ HL!Release(p)
    /\ holder' = IF holder = p THEN Nobody ELSE holder
    /\ Goto(p, "Idle")
    /\ UNCHANGED <<disk, poisoned, attempt, armed, cleared>>

PowerLoss ==
    /\ visible' = AfterPowerLoss
    /\ durable' = AfterPowerLoss
    /\ holder' = Nobody
    /\ pc' = [p \in Processes |-> "Idle"]
    /\ fd' = [p \in Processes |-> NoInode]
    /\ flocked' = [i \in Inodes |-> Nobody]
    /\ stage' = [p \in Processes |-> "none"]
    /\ UNCHANGED <<named, synced, poisoned, attempt, armed, cleared>>

CallNext ==
    \/ \E p \in Processes : Acquire(p) \/ Lock(p) \/ Leave(p)
    \/ \E p \in Processes :
         /\ CallArm(p) \/ CallClear(p) \/ Step(p) \/ ArmReturns(p) \/ ClearReturns(p)
         /\ UNCHANGED lockFile
    \/ Writeback /\ UNCHANGED <<armed, cleared, lockFile>>
    \/ HL!Replace /\ UNCHANGED callVars
    \/ PowerLoss

CallSpec == CallInit /\ [][CallNext]_<<callVars, lockFile>>

-----------------------------------------------------------------------------
(***************************************************************************)
(* arm: once it has returned Ok its marker is what every process reads and *)
(* what a power loss would leave, until clear unlinks that same attempt.   *)
(* No other call, failed call or crash removes or replaces it.             *)
(***************************************************************************)
ArmedSurvives == \A t \in armed : visible = t /\ durable = t

(***************************************************************************)
(* clear: an attempt whose removal was acknowledged does not come back as  *)
(* an incident after any sequence of crashes and power losses.             *)
(***************************************************************************)
ClearedStaysCleared == \A t \in cleared : visible # t /\ durable # t

(***************************************************************************)
(* try_lock_host: although execution.lock may be removed and recreated     *)
(* between any two of its system calls, the guards that the callers of arm *)
(* and clear hold behave as the atomic lock HostMutex.                     *)
(***************************************************************************)
ImplementsMutex == HL!ImplementsMutex

=============================================================================

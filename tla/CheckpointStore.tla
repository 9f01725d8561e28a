--------------------------- MODULE CheckpointStore ---------------------------
(***************************************************************************)
(* The durable active-attempt marker of storage-runtime/src/checkpoint.    *)
(* One directory entry, active-attempt.json, names at most one attempt.    *)
(* The entry that processes see and the entry that survives a power loss   *)
(* differ until the directory is synchronised, and the content of a file   *)
(* survives only once the file itself was.                                 *)
(*                                                                         *)
(* arm and clear are split at every system call that a crash can separate. *)
(* pc[p] is the control point of p inside a call; the labels at which a    *)
(* call returns are parameters of its last steps, so that callers continue *)
(* from there: the free callers of CheckpointCalls, or Coordinator.  An    *)
(* attempt carries a fresh run identity, so a file once synchronised for   *)
(* it stays so (synced never shrinks).                                     *)
(***************************************************************************)
EXTENDS HostMutex

CONSTANTS
    Attempts,    \* attempts that may be captured
    NoAttempt,   \* active-attempt.json is missing
    Unreadable   \* active-attempt.json exists, its content was lost

ASSUME AttemptAssumption ==
    NoAttempt \notin Attempts /\ Unreadable \notin Attempts /\ NoAttempt # Unreadable

VARIABLES
    visible,     \* what active-attempt.json holds for running processes
    durable,     \* what it holds after a power loss
    synced,      \* attempts whose file content has reached the disk
    poisoned,    \* poisoned[p]: flag of the CheckpointStore handle of p
    attempt,     \* attempt[p]: argument of the call in progress
    pc           \* pc[p]: control point of p

disk == <<visible, durable, synced>>

Entries == Attempts \union {NoAttempt, Unreadable}

ArmLabels == {"ArmWrite", "ArmSync", "ArmPublish", "ArmDirSync"}
ClearLabels == {"ClearUnlink", "ClearDirSync"}

StoreInit ==
    /\ MutexInit
    /\ visible = NoAttempt
    /\ durable = NoAttempt
    /\ synced = {}
    /\ poisoned = [p \in Processes |-> FALSE]

Goto(p, label) == pc' = [pc EXCEPT ![p] = label]

(* An I/O error of a mutation: the staging file goes, the handle is poisoned. *)
Poison(p, err) ==
    /\ poisoned' = [poisoned EXCEPT ![p] = TRUE]
    /\ Goto(p, err)
    /\ UNCHANGED <<holder, disk, attempt>>

-----------------------------------------------------------------------------
(* arm: require_healthy and inspect, then create the staging file. *)
ArmBegin(p, t, err) ==
    /\ attempt' = [attempt EXCEPT ![p] = t]
    /\ \/ /\ ~poisoned[p] /\ visible = NoAttempt
          /\ Goto(p, "ArmWrite")
          /\ UNCHANGED poisoned
       \/ /\ poisoned[p] \/ visible # NoAttempt
          /\ Goto(p, err)
          /\ UNCHANGED poisoned
       \/ /\ ~poisoned[p] /\ visible = NoAttempt    \* openat of the staging file fails
          /\ Goto(p, err)
          /\ poisoned' = [poisoned EXCEPT ![p] = TRUE]
    /\ UNCHANGED <<holder, disk>>

(* write_all of the staging file; a crash may leave a short one behind. *)
ArmWrite(p, err) ==
    /\ pc[p] = "ArmWrite"
    /\ \/ Goto(p, "ArmSync") /\ UNCHANGED <<holder, disk, poisoned, attempt>>
       \/ Poison(p, err)

ArmSync(p, err) ==
    /\ pc[p] = "ArmSync"
    /\ \/ /\ synced' = synced \union {attempt[p]}
          /\ Goto(p, "ArmPublish")
          /\ UNCHANGED <<holder, visible, durable, poisoned, attempt>>
       \/ Poison(p, err)

(* renameat NOREPLACE, after validating the held lock. *)
ArmPublish(p, err) ==
    /\ pc[p] = "ArmPublish"
    /\ \/ /\ visible = NoAttempt
          /\ visible' = attempt[p]
          /\ Goto(p, "ArmDirSync")
          /\ UNCHANGED <<holder, durable, synced, poisoned, attempt>>
       \/ Poison(p, err)

(* fsync of the directory; when it fails the published marker stays. *)
ArmDirSyncSkipped(p, ok, err) ==
    /\ pc[p] = "ArmDirSync"
    /\ Goto(p, ok)
    /\ UNCHANGED <<holder, disk, poisoned, attempt>>

ArmDirSync(p, ok, err) ==
    /\ pc[p] = "ArmDirSync"
    /\ \/ /\ durable' = visible
          /\ Goto(p, ok)
          /\ UNCHANGED <<holder, visible, synced, poisoned, attempt>>
       \/ Poison(p, err)

-----------------------------------------------------------------------------
(* clear: require_healthy, read, compare with the complete expected attempt. *)
ClearBeginUnmatched(p, t, err) ==
    /\ attempt' = [attempt EXCEPT ![p] = t]
    /\ \/ ~poisoned[p] /\ visible # NoAttempt /\ Goto(p, "ClearUnlink")
       \/ Goto(p, err)
    /\ UNCHANGED <<holder, disk, poisoned>>

ClearBegin(p, t, err) ==
    /\ attempt' = [attempt EXCEPT ![p] = t]
    /\ \/ ~poisoned[p] /\ visible = t /\ Goto(p, "ClearUnlink")
       \/ Goto(p, err)     \* poisoned, missing, unreadable, mismatch or read error
    /\ UNCHANGED <<holder, disk, poisoned>>

ClearUnlink(p, err) ==
    /\ pc[p] = "ClearUnlink"
    /\ \/ /\ visible' = NoAttempt
          /\ Goto(p, "ClearDirSync")
          /\ UNCHANGED <<holder, durable, synced, poisoned, attempt>>
       \/ Poison(p, err)

ClearDirSyncSkipped(p, ok, err) ==
    /\ pc[p] = "ClearDirSync"
    /\ Goto(p, ok)
    /\ UNCHANGED <<holder, disk, poisoned, attempt>>

ClearDirSync(p, ok, err) ==
    /\ pc[p] = "ClearDirSync"
    /\ \/ /\ durable' = visible
          /\ Goto(p, ok)
          /\ UNCHANGED <<holder, visible, synced, poisoned, attempt>>
       \/ Poison(p, err)

-----------------------------------------------------------------------------
(* The file system: write-back at any time, and loss of what was not written. *)
Writeback ==
    /\ durable # visible
    /\ durable' = visible
    /\ UNCHANGED <<holder, visible, synced, poisoned, attempt, pc>>

AfterPowerLoss ==
    IF durable = NoAttempt \/ durable \in synced THEN durable ELSE Unreadable

=============================================================================

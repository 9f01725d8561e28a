----------------------------- MODULE Coordinator -----------------------------
(***************************************************************************)
(* ExecutionCoordinator (storage-runtime/src/coordinator.rs) in several    *)
(* processes that share one execution root, together with what it drives:  *)
(* the action lifecycle of each run, the host lock, the active-attempt     *)
(* marker, the native operations of the backends, and the review and       *)
(* acknowledgment of incidents (storage-runtime/src/incident.rs).          *)
(*                                                                         *)
(* pc[p] is the control point of process p; one action is the code between *)
(* two points at which another process, a crash, a power loss or a native  *)
(* operation can be observed.  Every fallible call of the code may fail;   *)
(* the evidence behind a decision is in ExecutionRun, here a decision is   *)
(* any of those the code accepts, except that a postcondition is reported  *)
(* Satisfied only if the probe saw the effect.                             *)
(***************************************************************************)
EXTENDS ActionLifecycle, CheckpointStore

CONSTANTS
    Order,       \* ordered_actions(): the plan's actions in execution order
    Runs,        \* run identities that ExecutionRun::new may draw
    NoRun,       \* a process without a run
    NoReview     \* a process without an incident review

ASSUME CoordinatorAssumption ==
    /\ Attempts = Runs \X Actions
    /\ NoRun \notin Runs
    /\ NoReview \notin [attempt : Attempts, seen : SUBSET Attempts]
    /\ Order \in Seq(Actions)

VARIABLES
    mode,        \* mode[p]: "run", "action" or "ack", the public call in progress
    run,         \* run[p]: run_id of the run and of its coordinator
    st,          \* st[p]: action states of that run
    halted,      \* halted[p]: the coordinator's stop latch
    goal,        \* goal[p]: is_verified() of the run
    outcome,     \* outcome[p]: outcome in the backend's receipt
    seen,        \* seen[p]: what the last probe saw of the attempt in hand
    review,      \* review[p]: the IncidentReview that p holds
    used,        \* run identities drawn so far
    inflight,    \* attempts whose native operation may still act
    effects,     \* attempts whose native effect has happened
    begun,       \* history: attempts whose backend was invoked
    closed       \* history: invoked attempts whose marker was removed

frame == <<poisoned, attempt, mode, outcome, seen>>
object == <<run, st, halted, goal, review>>
native == <<inflight, effects>>
history == <<begun, closed>>
vars == <<holder, disk, pc, frame, object, used, native, history>>

Waiting == [a \in Actions |-> "Waiting"]

Init ==
    /\ StoreInit
    /\ attempt = [p \in Processes |-> NoAttempt]
    /\ pc = [p \in Processes |-> "Idle"]
    /\ mode = [p \in Processes |-> "run"]
    /\ run = [p \in Processes |-> NoRun]
    /\ st = [p \in Processes |-> Waiting]
    /\ halted = [p \in Processes |-> FALSE]
    /\ goal = [p \in Processes |-> FALSE]
    /\ outcome = [p \in Processes |-> "OutcomeUnknown"]
    /\ seen = [p \in Processes |-> FALSE]
    /\ review = [p \in Processes |-> NoReview]
    /\ used = {}
    /\ inflight = {}
    /\ effects = {}
    /\ begun = {}
    /\ closed = {}

(* A public call returns: its locals go, and the lock guard if it was taken. *)
Return(p) ==
    /\ Goto(p, "Idle")
    /\ holder' = IF holder = p THEN Nobody ELSE holder
    /\ poisoned' = [poisoned EXCEPT ![p] = FALSE]
    /\ attempt' = [attempt EXCEPT ![p] = NoAttempt]
    /\ mode' = [mode EXCEPT ![p] = "run"]
    /\ outcome' = [outcome EXCEPT ![p] = "OutcomeUnknown"]
    /\ seen' = [seen EXCEPT ![p] = FALSE]

Continue(p, label) == Goto(p, label) /\ UNCHANGED <<holder, frame>>

SetState(p, s) == st' = [st EXCEPT ![p] = [@ EXCEPT ![attempt[p][2]] = s]]

-----------------------------------------------------------------------------
(* ExecutionRun::new and ExecutionCoordinator::new. *)
StartRun(p) ==
    /\ pc[p] = "Idle"
    /\ \E r \in Runs \ used :
         /\ used' = used \union {r}
         /\ run' = [run EXCEPT ![p] = r]
    /\ st' = [st EXCEPT ![p] = Waiting]
    /\ halted' = [halted EXCEPT ![p] = FALSE]
    /\ goal' = [goal EXCEPT ![p] = FALSE]
    /\ UNCHANGED <<holder, disk, pc, frame, review, native, history>>

(* execute_run: checks and try_lock_host; Busy changes nothing. *)
CallRun(p) ==
    /\ pc[p] = "Idle"
    /\ run[p] # NoRun
    /\ ~halted[p]
    /\ ~goal[p]
    /\ TryLockHost(p)
    /\ Goto(p, "RunInspect")
    /\ UNCHANGED <<disk, frame, object, used, native, history>>

(* store.inspect, the initial probe and check_plan. *)
RunInspect(p) ==
    /\ pc[p] = "RunInspect"
    /\ \/ visible = NoAttempt /\ Continue(p, "RunLoop")
       \/ Return(p)
    /\ UNCHANGED <<disk, object, used, native, history>>

FirstUnverified(p) ==
    {i \in 1..Len(Order) : /\ st[p][Order[i]] # "Verified"
                           /\ \A j \in 1..(i - 1) : st[p][Order[j]] = "Verified"}

(* One iteration of the loop over ordered_actions. *)
RunLoop(p) ==
    /\ pc[p] = "RunLoop"
    /\ \/ FirstUnverified(p) = {} /\ Continue(p, "Goal")
       \/ \E i \in FirstUnverified(p) :
            \/ /\ st[p][Order[i]] \in {"Waiting", "Checking"}
               /\ attempt' = [attempt EXCEPT ![p] = <<run[p], Order[i]>>]
               /\ Goto(p, "ActionEnter")
               /\ UNCHANGED <<holder, poisoned, mode, outcome, seen>>
            \/ st[p][Order[i]] \notin {"Waiting", "Checking"} /\ Return(p)
    /\ UNCHANGED <<disk, object, used, native, history>>

(***************************************************************************)
(* The final probe, verify_goal, inspect and record_goal_verification.  An *)
(* error and a report that is not fully satisfied leave is_verified false. *)
(***************************************************************************)
Goal(p) ==
    /\ pc[p] = "Goal"
    /\ \/ /\ visible = NoAttempt
          /\ AllVerified(st[p])
          /\ goal' = [goal EXCEPT ![p] = TRUE]
       \/ UNCHANGED goal
    /\ Return(p)
    /\ UNCHANGED <<disk, run, st, halted, review, used, native, history>>

-----------------------------------------------------------------------------
(* execute_action: the same steps for one action, under a lock of its own. *)
CallAction(p) ==
    /\ pc[p] = "Idle"
    /\ run[p] # NoRun
    /\ \E a \in Actions : attempt' = [attempt EXCEPT ![p] = <<run[p], a>>]
    /\ mode' = [mode EXCEPT ![p] = "action"]
    /\ Goto(p, "ActionEnter")
    /\ UNCHANGED <<holder, disk, poisoned, outcome, seen, object, used, native, history>>

MayEnterAgain(p, a) ==
    st[p][a] \in {"Checking", "Verified"} \/ CanBeginCheck(st[p], a)

MayEnter(p, a) == st[p][a] = "Checking" \/ CanBeginCheck(st[p], a)

(***************************************************************************)
(* execute_action_locked up to its lease: the latch, begin_check, then the *)
(* lease, which an execute_run call already holds.  A failed lease leaves  *)
(* the action Checking.                                                    *)
(***************************************************************************)
ActionEnter(p) ==
    /\ pc[p] = "ActionEnter"
    /\ \/ /\ ~halted[p] /\ MayEnter(p, attempt[p][2])
          /\ SetState(p, "Checking")
          /\ \/ mode[p] = "run" /\ Continue(p, "ActionInspect")
             \/ mode[p] = "action" /\ TryLockHost(p) /\ Goto(p, "ActionInspect") /\ UNCHANGED frame
             \/ Return(p)
       \/ Return(p) /\ UNCHANGED st
    /\ UNCHANGED <<disk, run, halted, goal, review, used, native, history>>

(* A new store handle, inspect and the admission probe. *)
ActionInspect(p) ==
    /\ pc[p] = "ActionInspect"
    /\ \/ visible = NoAttempt /\ Continue(p, "Admission")
       \/ Return(p)
    /\ UNCHANGED <<disk, object, used, native, history>>

(***************************************************************************)
(* check_admission and record_admission.  Errors and missing evidence      *)
(* leave the action Checking; a violation, or an admitted report without a *)
(* resolved endpoint, fails it before dispatch (Admitted if recording that *)
(* failure fails).                                                         *)
(***************************************************************************)
Admission(p) ==
    /\ pc[p] = "Admission"
    /\ \/ Return(p) /\ UNCHANGED st
       \/ \E s \in {"Failed", "Admitted"} : SetState(p, s) /\ Return(p)
       \/ SetState(p, "Admitted") /\ Continue(p, "Capture")
    /\ UNCHANGED <<disk, run, halted, goal, review, used, native, history>>

(* ActiveAttempt::capture and the call of arm. *)
Capture(p) ==
    /\ pc[p] = "Capture"
    /\ \/ ArmBegin(p, attempt[p], "ArmFailed")
       \/ Goto(p, "ArmFailed") /\ UNCHANGED <<holder, disk, poisoned, attempt>>
    /\ UNCHANGED <<mode, outcome, seen, object, used, native, history>>

Arm(p) ==
    /\ \/ ArmWrite(p, "ArmFailed")
       \/ ArmSync(p, "ArmFailed")
       \/ ArmPublish(p, "ArmFailed")
       \/ ArmDirSync(p, "Armed", "ArmFailed")
    /\ UNCHANGED <<mode, outcome, seen, object, used, native, history>>

(* mark_pre_dispatch_failed; recording it may fail as well. *)
ArmFailed(p) ==
    /\ pc[p] = "ArmFailed"
    /\ SetState(p, "Failed") \/ UNCHANGED st
    /\ Return(p)
    /\ UNCHANGED <<disk, run, halted, goal, review, used, native, history>>

(* The stop latch and mark_dispatch_started, which may fail. *)
Armed(p) ==
    /\ pc[p] = "Armed"
    /\ halted' = [halted EXCEPT ![p] = TRUE]
    /\ \/ SetState(p, "Running") /\ Continue(p, "Invoke")
       \/ Return(p) /\ UNCHANGED st
    /\ UNCHANGED <<disk, run, goal, review, used, native, history>>

(* dispatcher.execute starts the native operation. *)
Invoke(p) ==
    /\ pc[p] = "Invoke"
    /\ begun' = begun \union {attempt[p]}
    /\ inflight' = inflight \union {attempt[p]}
    /\ Continue(p, "Backend")
    /\ UNCHANGED <<disk, object, used, effects, closed>>

(***************************************************************************)
(* dispatcher.execute returns.  A receipt that says Succeeded or Failed    *)
(* means that the native tool was waited for; an unknown outcome does not  *)
(* stop what was started.                                                  *)
(***************************************************************************)
BackendReturns(p) ==
    /\ pc[p] = "Backend"
    /\ \E o \in BackendOutcome :
         /\ outcome' = [outcome EXCEPT ![p] = o]
         /\ inflight' = IF o = "OutcomeUnknown" THEN inflight ELSE inflight \ {attempt[p]}
    /\ Goto(p, "PostProbe")
    /\ UNCHANGED <<holder, disk, poisoned, attempt, mode, seen, object, used, effects, history>>

(* The post probe, validate_for and record_completion, or an error of these. *)
PostProbe(p) ==
    /\ pc[p] = "PostProbe"
    /\ \/ /\ SetState(p, "OutcomeUnknown") \/ UNCHANGED st
          /\ Return(p)
       \/ /\ outcome[p] = "Succeeded"
          /\ SetState(p, CompletionState(outcome[p]))
          /\ seen' = [seen EXCEPT ![p] = attempt[p] \in effects]
          /\ Goto(p, "Verify")
          /\ UNCHANGED <<holder, poisoned, attempt, mode, outcome>>
       \/ /\ outcome[p] # "Succeeded"
          /\ SetState(p, CompletionState(outcome[p]))
          /\ Return(p)
    /\ UNCHANGED <<disk, run, halted, goal, review, used, native, history>>

VerifyUnobserved(p) ==
    /\ pc[p] = "Verify"
    /\ SetState(p, "Verified")
    /\ Continue(p, "Bind")
    /\ UNCHANGED <<disk, run, halted, goal, review, used, native, history>>

(* The verify_* call for the operation's kind and record_verification. *)
Verify(p) ==
    /\ pc[p] = "Verify"
    /\ \/ seen[p] /\ SetState(p, "Verified") /\ Continue(p, "Bind")
       \/ /\ UNCHANGED st \/ \E s \in Stopped : SetState(p, s)
          /\ Return(p)
    /\ UNCHANGED <<disk, run, halted, goal, review, used, native, history>>

(* The bindings are recorded, then clear is called. *)
Bind(p) ==
    /\ pc[p] = "Bind"
    /\ \/ ClearBegin(p, attempt[p], "Leave")
       \/ Goto(p, "Leave") /\ UNCHANGED <<holder, disk, poisoned, attempt>>
    /\ UNCHANGED <<mode, outcome, seen, object, used, native, history>>

Clear(p) ==
    /\ ClearUnlink(p, "Leave") \/ ClearDirSync(p, "Cleared", "Leave")
    /\ closed' = closed \union (({visible} \ {visible'}) \intersect begun)
    /\ UNCHANGED <<mode, outcome, seen, object, used, native, begun>>

ConsumeReview(p) ==
    review' = [review EXCEPT ![p] = IF mode[p] = "ack" THEN NoReview ELSE @]

(* clear returned Ok: the latch opens, or the acknowledgment is complete. *)
Cleared(p) ==
    /\ pc[p] = "Cleared"
    /\ halted' = [halted EXCEPT ![p] = @ /\ mode[p] = "ack"]
    /\ ConsumeReview(p)
    /\ \/ mode[p] = "run" /\ Continue(p, "RunLoop")
       \/ mode[p] # "run" /\ Return(p)
    /\ UNCHANGED <<disk, run, st, goal, used, native, history>>

(* An error return: the latch stays as it is, a consumed review is gone. *)
Leave(p) ==
    /\ pc[p] = "Leave"
    /\ ConsumeReview(p)
    /\ Return(p)
    /\ UNCHANGED <<disk, run, st, halted, goal, used, native, history>>

-----------------------------------------------------------------------------
(* review_incident: lock, inspect, probe and unlock, changing nothing shared. *)
ReviewIncident(p) ==
    /\ pc[p] = "Idle"
    /\ holder = Nobody
    /\ visible \in Attempts
    /\ review' = [review EXCEPT ![p] = [attempt |-> visible, seen |-> effects]]
    /\ UNCHANGED <<holder, disk, pc, frame, run, st, halted, goal, used, native, history>>

(* A review that is closed, or consumed by a call that fails at once. *)
DropReview(p) ==
    /\ pc[p] = "Idle"
    /\ review[p] # NoReview
    /\ review' = [review EXCEPT ![p] = NoReview]
    /\ UNCHANGED <<holder, disk, pc, frame, run, st, halted, goal, used, native, history>>

(* acknowledge_incident: lock, and the marker is still the reviewed one. *)
AckBegin(p) ==
    /\ pc[p] = "Idle"
    /\ review[p] # NoReview
    /\ visible = review[p].attempt
    /\ TryLockHost(p)
    /\ attempt' = [attempt EXCEPT ![p] = review[p].attempt]
    /\ mode' = [mode EXCEPT ![p] = "ack"]
    /\ Goto(p, "AckProbe")
    /\ UNCHANGED <<disk, poisoned, outcome, seen, object, used, native, history>>

AckProbeUncompared(p) ==
    /\ pc[p] = "AckProbe"
    /\ seen' = [seen EXCEPT ![p] = attempt[p] \notin inflight]
    /\ Goto(p, "AckPolicy")
    /\ UNCHANGED <<holder, disk, poisoned, attempt, mode, outcome, object, used, native, history>>

(***************************************************************************)
(* The fresh inspection must equal the reviewed one.  seen[p] records      *)
(* whether the native operation had already stopped when it was taken.     *)
(***************************************************************************)
AckProbe(p) ==
    /\ pc[p] = "AckProbe"
    /\ seen' = [seen EXCEPT ![p] = attempt[p] \notin inflight]
    /\ \/ effects = review[p].seen /\ Goto(p, "AckPolicy")
       \/ Goto(p, "Leave")
    /\ UNCHANGED <<holder, disk, poisoned, attempt, mode, outcome, object, used, native, history>>

(* The slip of a policy that takes the free flock for quiescence. *)
AckPolicyTrustsFlock(p) ==
    /\ pc[p] = "AckPolicy"
    /\ visible = review[p].attempt
    /\ ClearBegin(p, attempt[p], "Leave")
    /\ UNCHANGED <<mode, outcome, seen, object, used, native, history>>

(***************************************************************************)
(* The trusted policy, the second inspection and the call of clear.  Per   *)
(* the trait's contract the policy is positive only if it establishes that *)
(* the native operation had stopped, in the fresh state it is shown.       *)
(***************************************************************************)
AckPolicy(p) ==
    /\ pc[p] = "AckPolicy"
    /\ \/ seen[p] /\ visible = review[p].attempt /\ ClearBegin(p, attempt[p], "Leave")
       \/ Goto(p, "Leave") /\ UNCHANGED <<holder, disk, poisoned, attempt>>
    /\ UNCHANGED <<mode, outcome, seen, object, used, native, history>>

-----------------------------------------------------------------------------
(* Native operations act and stop on their own, also after their process died. *)
NativeEffect(t) ==
    /\ t \in inflight \ effects
    /\ effects' = effects \union {t}
    /\ UNCHANGED <<holder, disk, pc, frame, object, used, inflight, history>>

NativeStops(t) ==
    /\ t \in inflight
    /\ inflight' = inflight \ {t}
    /\ UNCHANGED <<holder, disk, pc, frame, object, used, effects, history>>

Forgotten(f, v, ps) == [p \in Processes |-> IF p \in ps THEN v ELSE f[p]]

(* The memory of the processes in ps is lost and their locks are released. *)
Die(ps) ==
    /\ holder' = IF holder \in ps THEN Nobody ELSE holder
    /\ pc' = Forgotten(pc, "Idle", ps)
    /\ attempt' = Forgotten(attempt, NoAttempt, ps)
    /\ poisoned' = Forgotten(poisoned, FALSE, ps)
    /\ mode' = Forgotten(mode, "run", ps)
    /\ run' = Forgotten(run, NoRun, ps)
    /\ st' = Forgotten(st, Waiting, ps)
    /\ halted' = Forgotten(halted, FALSE, ps)
    /\ goal' = Forgotten(goal, FALSE, ps)
    /\ outcome' = Forgotten(outcome, "OutcomeUnknown", ps)
    /\ seen' = Forgotten(seen, FALSE, ps)
    /\ review' = Forgotten(review, NoReview, ps)

Crash(p) ==
    /\ Die({p})
    /\ UNCHANGED <<disk, used, native, history>>

PowerLoss ==
    /\ Die(Processes)
    /\ visible' = AfterPowerLoss
    /\ durable' = AfterPowerLoss
    /\ inflight' = {}
    /\ UNCHANGED <<synced, used, effects, history>>

(* What process p does inside a public call. *)
Step(p) ==
    \/ RunInspect(p) \/ RunLoop(p) \/ Goal(p)
    \/ ActionEnter(p) \/ ActionInspect(p) \/ Admission(p)
    \/ Capture(p) \/ Arm(p) \/ ArmFailed(p) \/ Armed(p) \/ Invoke(p)
    \/ BackendReturns(p) \/ PostProbe(p) \/ Verify(p)
    \/ Bind(p) \/ Clear(p) \/ Cleared(p) \/ Leave(p)
    \/ AckProbe(p) \/ AckPolicy(p)

(* What the application that owns process p asks for. *)
Call(p) ==
    \/ StartRun(p) \/ CallRun(p) \/ CallAction(p)
    \/ ReviewIncident(p) \/ DropReview(p) \/ AckBegin(p)

Next ==
    \/ \E p \in Processes : Call(p) \/ Step(p) \/ Crash(p)
    \/ \E t \in Attempts : NativeEffect(t) \/ NativeStops(t)
    \/ Writeback /\ UNCHANGED <<mode, outcome, seen, object, used, native, history>>
    \/ PowerLoss

Spec == Init /\ [][Next]_vars

-----------------------------------------------------------------------------
Labels == ArmLabels \union ClearLabels \union
    {"Idle", "RunInspect", "RunLoop", "Goal", "ActionEnter", "ActionInspect", "Admission",
     "Capture", "ArmFailed", "Armed", "Invoke", "Backend", "PostProbe", "Verify", "Bind",
     "Cleared", "Leave", "AckProbe", "AckPolicy"}

WorldType ==
    /\ visible \in Entries /\ durable \in Entries
    /\ synced \subseteq Attempts
    /\ used \subseteq Runs
    /\ inflight \subseteq Attempts /\ effects \subseteq Attempts
    /\ begun \subseteq Attempts /\ closed \subseteq Attempts

FrameType ==
    /\ holder \in Processes \union {Nobody}
    /\ pc \in [Processes -> Labels]
    /\ poisoned \in [Processes -> BOOLEAN]
    /\ attempt \in [Processes -> Attempts \union {NoAttempt}]
    /\ mode \in [Processes -> {"run", "action", "ack"}]
    /\ outcome \in [Processes -> BackendOutcome]
    /\ seen \in [Processes -> BOOLEAN]

Reviews == [attempt : Attempts, seen : SUBSET Attempts]

ObjectType ==
    /\ run \in [Processes -> Runs \union {NoRun}]
    /\ st \in [Processes -> [Actions -> ActionRunState]]
    /\ halted \in [Processes -> BOOLEAN]
    /\ goal \in [Processes -> BOOLEAN]
    /\ review \in [Processes -> Reviews \union {NoReview}]

(* Every variable holds a value of what it stands for. *)
TypeOK == WorldType /\ FrameType /\ ObjectType

Unresolved == begun \ closed

(***************************************************************************)
(* The purpose of the checkpoint: an attempt whose backend was invoked and *)
(* that was neither verified nor acknowledged is named by the marker that  *)
(* every process reads and that a power loss would leave, at every moment. *)
(***************************************************************************)
UnresolvedIsMarked == \A t \in Unresolved : visible = t /\ durable = t

(***************************************************************************)
(* Host-wide exclusion: a native operation that may still act always       *)
(* belongs to the one unresolved attempt, so no other operation starts     *)
(* before it, even if its process died and its lock was released.          *)
(***************************************************************************)
NativeExclusion == \A t \in inflight : Unresolved = {t}

(***************************************************************************)
(* record_verification: an action is Verified only if its own effect and   *)
(* the effects of all actions that the plan orders before it happened in   *)
(* this very run.                                                          *)
(***************************************************************************)
VerifiedHasEffect ==
    \A p \in Processes, a \in Actions :
        st[p][a] = "Verified" =>
            /\ <<run[p], a>> \in effects
            /\ \A b \in Actions : <<b, a>> \in Before => <<run[p], b>> \in effects

(***************************************************************************)
(* record_goal_verification under the run's lock: a run reported verified  *)
(* left no marker of its own on disk, so no later power loss can turn the  *)
(* success into an incident.                                               *)
(***************************************************************************)
VerifiedRunIsClean ==
    \A p \in Processes :
        goal[p] => /\ AllVerified(st[p])
                   /\ \A a \in Actions : <<run[p], a>> \in closed
                   /\ \A e \in {visible, durable} : e \in Attempts => e[1] # run[p]

(***************************************************************************)
(* No retry: whatever calls are made, a backend is never invoked for an    *)
(* attempt that was invoked before.                                        *)
(***************************************************************************)
InvokedAtMostOnce ==
    [][\A t \in inflight' \ inflight : t \notin begun]_vars

(***************************************************************************)
(* clear and acknowledge_incident: when the marker of an invoked attempt   *)
(* is removed its native operation has stopped, and its effect happened or *)
(* the operator acknowledges after a review of exactly the current state.  *)
(***************************************************************************)
RemovalIsJustified ==
    [][\A t \in closed' \ closed :
         /\ t \notin inflight
         /\ IF mode[holder] = "ack"
              THEN review[holder].attempt = t /\ review[holder].seen = effects
              ELSE t \in effects]_vars

OpenAttempt ==
    IF Unresolved = {} THEN NoAttempt ELSE CHOOSE t \in Attempts : t \in Unresolved

Ledger == INSTANCE AttemptLedger WITH open <- OpenAttempt, done <- closed

(* The coordinators of all processes together implement AttemptLedger. *)
ImplementsLedger == Ledger!LedgerSpec

=============================================================================

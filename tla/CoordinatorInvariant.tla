------------------------ MODULE CoordinatorInvariant ------------------------
(***************************************************************************)
(* The inductive invariant of Coordinator, and that its steps keep the     *)
(* part of it about the lock and the marker.                               *)
(*                                                                         *)
(* The properties that matter (UnresolvedIsMarked, NativeExclusion,        *)
(* InvokedAtMostOnce and the implementation of AttemptLedger) are not      *)
(* inductive: they rest on who holds the lock at which control point, on   *)
(* what the marker names there, and on run identities being fresh. IInv    *)
(* collects these facts. Each conjunct is shown to be preserved in a lemma *)
(* of its own, one step per action: here the types, the lock, the call a   *)
(* process is in, the marker and the identities, the others in             *)
(* CoordinatorProofs.                                                      *)
(***************************************************************************)
EXTENDS Coordinator, TLAPS

RunLabels == {"RunInspect", "RunLoop", "Goal"}
PrepareLabels == ArmLabels \union {"Capture", "ArmFailed", "Armed"}
DispatchedLabels == {"Invoke", "Backend", "PostProbe", "Verify", "Bind"}
ActionLabels == {"ActionEnter", "ActionInspect", "Admission"} \union PrepareLabels
                    \union DispatchedLabels
ExitLabels == ClearLabels \union {"Cleared", "Leave"}
AckLabels == {"AckProbe", "AckPolicy"}

(* A process inside a call holds the lock, except before the lease of execute_action. *)
HoldsLock(p) ==
    /\ pc[p] # "Idle"
    /\ pc[p] = "ActionEnter" => mode[p] = "run"

LockInv == \A p \in Processes : HoldsLock(p) => holder = p

(* Which call a process is in, and for which attempt. *)
CallInv ==
    \A p \in Processes :
        /\ pc[p] = "Idle" => mode[p] = "run"
        /\ pc[p] \in RunLabels => run[p] \in Runs /\ mode[p] = "run"
        /\ pc[p] \in ActionLabels =>
             /\ run[p] \in Runs
             /\ attempt[p] \in Attempts
             /\ attempt[p][1] = run[p]
             /\ mode[p] # "ack"
        /\ pc[p] \in ExitLabels =>
             /\ attempt[p] \in Attempts
             /\ mode[p] # "ack" => run[p] \in Runs
        /\ pc[p] \in AckLabels =>
             /\ review[p] # NoReview
             /\ attempt[p] \in Attempts
             /\ attempt[p] = review[p].attempt
             /\ mode[p] = "ack"

(* The marker at each control point, and that its content is on disk. *)
MarkerInv ==
    /\ visible # NoAttempt => visible \in synced
    /\ durable # NoAttempt => durable \in synced
    /\ \A p \in Processes :
         /\ pc[p] = "ArmPublish" => attempt[p] \in synced
         /\ pc[p] \in {"ArmDirSync", "ClearUnlink", "Armed"} \union DispatchedLabels =>
              visible = attempt[p]
         /\ pc[p] \in {"Armed"} \union DispatchedLabels => durable = attempt[p]

(* Run identities are drawn once and not shared. *)
IdentityInv ==
    /\ \A p \in Processes : run[p] # NoRun => run[p] \in used
    /\ \A p, q \in Processes : run[p] = run[q] /\ run[p] # NoRun => p = q
    /\ \A t \in begun : t[1] \in used

(* The state of the action in hand, which is not yet invoked before Backend. *)
PhaseInv ==
    \A p \in Processes :
        /\ pc[p] \in {"ActionInspect", "Admission"} => st[p][attempt[p][2]] = "Checking"
        /\ pc[p] \in PrepareLabels => st[p][attempt[p][2]] = "Admitted"
        /\ pc[p] = "Invoke" => st[p][attempt[p][2]] = "Running" /\ attempt[p] \notin begun

(* An action that was invoked is past Admitted, so that it is never invoked again. *)
BegunInv ==
    \A p \in Processes, a \in Actions :
        <<run[p], a>> \in begun => st[p][a] \notin {"Waiting", "Checking", "Admitted"}

(* Only an unresolved attempt may still act. *)
InflightInv == inflight \subseteq Unresolved /\ closed \subseteq begun

(* A process that may remove a marker knows that the operation stopped. *)
StoppedInv ==
    \A p \in Processes :
        (\/ pc[p] = "PostProbe" /\ outcome[p] # "OutcomeUnknown"
         \/ pc[p] \in {"Verify", "Bind", "ClearUnlink"}) => attempt[p] \notin inflight

(* So does the policy that approves an acknowledgment. *)
ApprovedInv ==
    \A p \in Processes :
        pc[p] = "AckPolicy" /\ seen[p] = TRUE => attempt[p] \notin inflight

IInv ==
    /\ TypeOK
    /\ LockInv
    /\ CallInv
    /\ MarkerInv
    /\ IdentityInv
    /\ PhaseInv
    /\ BegunInv
    /\ InflightInv
    /\ StoppedInv
    /\ ApprovedInv
    /\ UnresolvedIsMarked

-----------------------------------------------------------------------------
(* Return, with which a call ends, keeps the types of the frame of its process. *)
LEMMA ReturnType ==
    ASSUME TypeOK, NEW p \in Processes, Return(p)
    PROVE  FrameType'
BY DEF TypeOK, FrameType, Return, Goto, Labels, BackendOutcome

(* So does Continue, with which it goes on to its next control point. *)
LEMMA ContinueType ==
    ASSUME TypeOK, NEW p \in Processes, NEW l \in Labels, Continue(p, l)
    PROVE  FrameType'
BY DEF TypeOK, FrameType, Continue, Goto, frame

(* set_state gives an action a state of ActionRunState. *)
LEMMA StateType ==
    ASSUME TypeOK, NEW p \in Processes, NEW s \in ActionRunState, SetState(p, s)
    PROVE  st' \in [Processes -> [Actions -> ActionRunState]]
BY Zenon DEF TypeOK, ObjectType, SetState

(* TypeOK is preserved by every step from a state of IInv. *)
LEMMA TypeStep == IInv /\ [Next]_vars => TypeOK'
<1>a. SUFFICES ASSUME IInv, [Next]_vars PROVE TypeOK'
    OBVIOUS
<1>0. TypeOK
    BY <1>a DEF IInv
<1>1. ASSUME NEW p \in Processes, Call(p) \/ Step(p) \/ Crash(p) PROVE TypeOK'
  <2>1. CASE StartRun(p)
    <3>1. FrameType'
      BY <1>0, <2>1 DEF StartRun, TypeOK, FrameType, Labels, frame
    <3>2. ObjectType'
      BY <1>0, <2>1 DEF StartRun, TypeOK, ObjectType, Waiting, ActionRunState
    <3>3. WorldType'
      BY <1>0, <2>1 DEF StartRun, TypeOK, WorldType, disk, native, history
    <3> QED
      BY <3>1, <3>2, <3>3 DEF TypeOK
  <2>2. CASE CallRun(p)
    <3>1. FrameType'
      BY <1>0, <2>2 DEF CallRun, TryLockHost, Goto, TypeOK, FrameType, Labels, frame
    <3>2. ObjectType'
      BY <1>0, <2>2 DEF CallRun, TypeOK, ObjectType, object
    <3>3. WorldType'
      BY <1>0, <2>2 DEF CallRun, TypeOK, WorldType, disk, native, history
    <3> QED
      BY <3>1, <3>2, <3>3 DEF TypeOK
  <2>3. CASE CallAction(p)
    <3>1. FrameType'
      BY <1>0, <2>3, CoordinatorAssumption DEF CallAction, Goto, TypeOK, FrameType, Labels,
           ObjectType
    <3>2. ObjectType'
      BY <1>0, <2>3 DEF CallAction, TypeOK, ObjectType, object
    <3>3. WorldType'
      BY <1>0, <2>3 DEF CallAction, TypeOK, WorldType, disk, native, history
    <3> QED
      BY <3>1, <3>2, <3>3 DEF TypeOK
  <2>4. CASE ReviewIncident(p)
    <3>1. FrameType'
      BY <1>0, <2>4 DEF ReviewIncident, TypeOK, FrameType, Labels, frame
    <3>2. ObjectType'
      BY <1>0, <2>4 DEF ReviewIncident, TypeOK, ObjectType, WorldType, Reviews
    <3>3. WorldType'
      BY <1>0, <2>4 DEF ReviewIncident, TypeOK, WorldType, disk, native, history
    <3> QED
      BY <3>1, <3>2, <3>3 DEF TypeOK
  <2>5. CASE DropReview(p)
    <3>1. FrameType'
      BY <1>0, <2>5 DEF DropReview, TypeOK, FrameType, Labels, frame
    <3>2. ObjectType'
      BY <1>0, <2>5 DEF DropReview, TypeOK, ObjectType
    <3>3. WorldType'
      BY <1>0, <2>5 DEF DropReview, TypeOK, WorldType, disk, native, history
    <3> QED
      BY <3>1, <3>2, <3>3 DEF TypeOK
  <2>6. CASE AckBegin(p)
    <3>1. FrameType'
      BY <1>0, <2>6 DEF AckBegin, TryLockHost, Goto, TypeOK, FrameType, Labels, ObjectType,
           Reviews
    <3>2. ObjectType'
      BY <1>0, <2>6 DEF AckBegin, TypeOK, ObjectType, object
    <3>3. WorldType'
      BY <1>0, <2>6 DEF AckBegin, TypeOK, WorldType, disk, native, history
    <3> QED
      BY <3>1, <3>2, <3>3 DEF TypeOK
  <2>7. CASE RunInspect(p)
    <3>1. FrameType'
      BY <1>0, <2>7, ReturnType, ContinueType DEF RunInspect, Labels
    <3>2. ObjectType'
      BY <1>0, <2>7 DEF RunInspect, TypeOK, ObjectType, object
    <3>3. WorldType'
      BY <1>0, <2>7 DEF RunInspect, TypeOK, WorldType, disk, native, history
    <3> QED
      BY <3>1, <3>2, <3>3 DEF TypeOK
  <2>8. CASE RunLoop(p)
    <3>1. FrameType'
      <4>1. CASE FirstUnverified(p) = {} /\ Continue(p, "Goal")
        BY <1>0, <4>1, ContinueType DEF Labels
      <4>2. ASSUME NEW i \in FirstUnverified(p), Return(p) PROVE FrameType'
        BY <1>0, <4>2, ReturnType
      <4>3. ASSUME NEW i \in FirstUnverified(p),
                   attempt' = [attempt EXCEPT ![p] = <<run[p], Order[i]>>],
                   Goto(p, "ActionEnter"),
                   UNCHANGED <<holder, poisoned, mode, outcome, seen>>
            PROVE  FrameType'
        <5>1. run[p] \in Runs
          BY <1>a, <2>8 DEF RunLoop, IInv, CallInv, RunLabels
        <5>2. Order[i] \in Actions
          BY CoordinatorAssumption DEF FirstUnverified
        <5> QED
          BY <1>0, <4>3, <5>1, <5>2, CoordinatorAssumption DEF Goto, TypeOK, FrameType, Labels
      <4> QED
        BY <2>8, <4>1, <4>2, <4>3, Zenon DEF RunLoop
    <3>2. ObjectType'
      BY <1>0, <2>8 DEF RunLoop, TypeOK, ObjectType, object
    <3>3. WorldType'
      BY <1>0, <2>8 DEF RunLoop, TypeOK, WorldType, disk, native, history
    <3> QED
      BY <3>1, <3>2, <3>3 DEF TypeOK
  <2>9. CASE Goal(p)
    <3>1. FrameType'
      BY <1>0, <2>9, ReturnType DEF Goal
    <3>2. ObjectType'
      BY Zenon, <1>0, <2>9 DEF Goal, TypeOK, ObjectType
    <3>3. WorldType'
      BY <1>0, <2>9 DEF Goal, TypeOK, WorldType, disk, native, history
    <3> QED
      BY <3>1, <3>2, <3>3 DEF TypeOK
  <2>10. CASE ActionEnter(p)
    <3>1. FrameType'
      BY <1>0, <2>10, ReturnType, ContinueType, Zenon DEF ActionEnter, TryLockHost, Goto, TypeOK,
           FrameType, Labels, frame
    <3>2. ObjectType'
      BY <1>0, <2>10, StateType, Zenon DEF ActionEnter, TypeOK, ObjectType, ActionRunState
    <3>3. WorldType'
      BY <1>0, <2>10, Zenon DEF ActionEnter, TypeOK, WorldType, disk, native, history
    <3> QED
      BY <3>1, <3>2, <3>3 DEF TypeOK
  <2>11. CASE ActionInspect(p)
    <3>1. FrameType'
      BY <1>0, <2>11, ReturnType, ContinueType DEF ActionInspect, Labels
    <3>2. ObjectType'
      BY <1>0, <2>11 DEF ActionInspect, TypeOK, ObjectType, object
    <3>3. WorldType'
      BY <1>0, <2>11 DEF ActionInspect, TypeOK, WorldType, disk, native, history
    <3> QED
      BY <3>1, <3>2, <3>3 DEF TypeOK
  <2>12. CASE Admission(p)
    <3>1. FrameType'
      BY <1>0, <2>12, ReturnType, ContinueType DEF Admission, Labels
    <3>2. ObjectType'
      BY <1>0, <2>12, StateType DEF Admission, TypeOK, ObjectType, ActionRunState
    <3>3. WorldType'
      BY <1>0, <2>12 DEF Admission, TypeOK, WorldType, disk, native, history
    <3> QED
      BY <3>1, <3>2, <3>3 DEF TypeOK
  <2>13. CASE Capture(p)
    <3>1. FrameType'
      BY Zenon, <1>0, <2>13 DEF Capture, ArmBegin, Goto, TypeOK, FrameType, Labels, ArmLabels
    <3>2. ObjectType'
      BY <1>0, <2>13 DEF Capture, TypeOK, ObjectType, object
    <3>3. WorldType'
      BY <1>0, <2>13 DEF Capture, ArmBegin, TypeOK, WorldType, disk, native, history
    <3> QED
      BY <3>1, <3>2, <3>3 DEF TypeOK
  <2>14. CASE Arm(p)
    <3>1. FrameType'
      BY Zenon, <1>0, <2>14 DEF Arm, ArmWrite, ArmSync, ArmPublish, ArmDirSync, Poison, Goto,
           TypeOK, FrameType, Labels, ArmLabels
    <3>2. ObjectType'
      BY <1>0, <2>14 DEF Arm, TypeOK, ObjectType, object
    <3>3. attempt[p] \in Attempts
      BY <1>a, <2>14, Zenon DEF Arm, ArmWrite, ArmSync, ArmPublish, ArmDirSync, IInv, CallInv,
           ActionLabels, PrepareLabels, ArmLabels
    <3>4. WorldType'
      BY <1>0, <2>14, <3>3, Zenon DEF Arm, ArmWrite, ArmSync, ArmPublish, ArmDirSync, Poison,
           FrameType, Entries, TypeOK, WorldType, disk, native, history
    <3> QED
      BY <3>1, <3>2, <3>4 DEF TypeOK
  <2>15. CASE ArmFailed(p)
    <3>1. FrameType'
      BY <1>0, <2>15, ReturnType DEF ArmFailed
    <3>2. ObjectType'
      BY <1>0, <2>15, StateType DEF ArmFailed, TypeOK, ObjectType, ActionRunState
    <3>3. WorldType'
      BY <1>0, <2>15 DEF ArmFailed, TypeOK, WorldType, disk, native, history
    <3> QED
      BY <3>1, <3>2, <3>3 DEF TypeOK
  <2>16. CASE Armed(p)
    <3>1. FrameType'
      BY <1>0, <2>16, ReturnType, ContinueType DEF Armed, Labels
    <3>2. ObjectType'
      BY <1>0, <2>16, StateType DEF Armed, TypeOK, ObjectType, ActionRunState
    <3>3. WorldType'
      BY <1>0, <2>16 DEF Armed, TypeOK, WorldType, disk, native, history
    <3> QED
      BY <3>1, <3>2, <3>3 DEF TypeOK
  <2>17. CASE Invoke(p)
    <3>1. FrameType'
      BY <1>0, <2>17, ContinueType DEF Invoke, Labels
    <3>2. ObjectType'
      BY <1>0, <2>17, Zenon DEF Invoke, TypeOK, ObjectType, object
    <3>3. attempt[p] \in Attempts
      BY <1>a, <2>17, Zenon DEF Invoke, IInv, CallInv, ActionLabels, DispatchedLabels
    <3>4. WorldType'
      BY <1>0, <2>17, <3>3 DEF Invoke, TypeOK, WorldType, disk, native, history
    <3> QED
      BY <3>1, <3>2, <3>4 DEF TypeOK
  <2>18. CASE BackendReturns(p)
    <3>1. FrameType'
      BY <1>0, <2>18 DEF BackendReturns, Goto, TypeOK, FrameType, Labels
    <3>2. ObjectType'
      BY <1>0, <2>18, Zenon DEF BackendReturns, TypeOK, ObjectType, object
    <3>3. WorldType'
      BY <1>0, <2>18 DEF BackendReturns, TypeOK, WorldType, disk, native, history
    <3> QED
      BY <3>1, <3>2, <3>3 DEF TypeOK
  <2>19. CASE PostProbe(p)
    <3>1. FrameType'
      <4>1. CASE Return(p)
        BY <1>0, <4>1, ReturnType
      <4>2. CASE /\ seen' = [seen EXCEPT ![p] = attempt[p] \in effects]
                 /\ Goto(p, "Verify")
                 /\ UNCHANGED <<holder, poisoned, attempt, mode, outcome>>
        BY <1>0, <4>2 DEF Goto, TypeOK, FrameType, Labels
      <4> QED
        BY <2>19, <4>1, <4>2, Zenon DEF PostProbe
    <3>2. ObjectType'
      BY <1>0, <2>19, StateType, Zenon DEF PostProbe, TypeOK, ObjectType, ActionRunState,
           CompletionState
    <3>3. WorldType'
      BY <1>0, <2>19, Zenon DEF PostProbe, TypeOK, WorldType, disk, native, history
    <3> QED
      BY <3>1, <3>2, <3>3 DEF TypeOK
  <2>20. CASE Verify(p)
    <3>1. FrameType'
      BY <1>0, <2>20, ReturnType, ContinueType DEF Verify, Labels
    <3>2. ObjectType'
      BY <1>0, <2>20, StateType, Zenon DEF Verify, TypeOK, ObjectType, ActionRunState, Stopped
    <3>3. WorldType'
      BY <1>0, <2>20 DEF Verify, TypeOK, WorldType, disk, native, history
    <3> QED
      BY <3>1, <3>2, <3>3 DEF TypeOK
  <2>21. CASE Bind(p)
    <3>1. FrameType'
      BY <1>0, <2>21 DEF Bind, ClearBegin, Goto, TypeOK, FrameType, Labels, ClearLabels
    <3>2. ObjectType'
      BY <1>0, <2>21, Zenon DEF Bind, TypeOK, ObjectType, object
    <3>3. WorldType'
      BY <1>0, <2>21 DEF Bind, ClearBegin, TypeOK, WorldType, disk, native, history
    <3> QED
      BY <3>1, <3>2, <3>3 DEF TypeOK
  <2>22. CASE Clear(p)
    <3>1. FrameType'
      BY Zenon, <1>0, <2>22 DEF Clear, ClearUnlink, ClearDirSync, Poison, Goto, TypeOK,
           FrameType, Labels, ClearLabels
    <3>2. ObjectType'
      BY <1>0, <2>22 DEF Clear, TypeOK, ObjectType, object
    <3>3. WorldType'
      BY <1>0, <2>22, Zenon DEF Clear, ClearUnlink, ClearDirSync, Poison, Entries, TypeOK, WorldType,
           disk, native, history
    <3> QED
      BY <3>1, <3>2, <3>3 DEF TypeOK
  <2>23. CASE Cleared(p)
    <3>1. FrameType'
      BY <1>0, <2>23, ReturnType, ContinueType, Zenon DEF Cleared, Labels
    <3>2. ObjectType'
      BY <1>0, <2>23, Zenon DEF Cleared, ConsumeReview, TypeOK, ObjectType
    <3>3. WorldType'
      BY <1>0, <2>23 DEF Cleared, TypeOK, WorldType, disk, native, history
    <3> QED
      BY <3>1, <3>2, <3>3 DEF TypeOK
  <2>24. CASE Leave(p)
    <3>1. FrameType'
      BY <1>0, <2>24, ReturnType DEF Leave
    <3>2. ObjectType'
      BY <1>0, <2>24, Zenon DEF Leave, ConsumeReview, TypeOK, ObjectType
    <3>3. WorldType'
      BY <1>0, <2>24 DEF Leave, TypeOK, WorldType, disk, native, history
    <3> QED
      BY <3>1, <3>2, <3>3 DEF TypeOK
  <2>25. CASE AckProbe(p)
    <3>1. FrameType'
      BY <1>0, <2>25, Zenon DEF AckProbe, Goto, TypeOK, FrameType, Labels
    <3>2. ObjectType'
      BY <1>0, <2>25, Zenon DEF AckProbe, TypeOK, ObjectType, object
    <3>3. WorldType'
      BY <1>0, <2>25, Zenon DEF AckProbe, TypeOK, WorldType, disk, native, history
    <3> QED
      BY <3>1, <3>2, <3>3 DEF TypeOK
  <2>26. CASE AckPolicy(p)
    <3>1. FrameType'
      BY <1>0, <2>26, Zenon DEF AckPolicy, ClearBegin, Goto, TypeOK, FrameType, Labels, ClearLabels
    <3>2. ObjectType'
      BY <1>0, <2>26, Zenon DEF AckPolicy, TypeOK, ObjectType, object
    <3>3. WorldType'
      BY <1>0, <2>26 DEF AckPolicy, ClearBegin, TypeOK, WorldType, disk, native, history
    <3> QED
      BY <3>1, <3>2, <3>3 DEF TypeOK
  <2>27. CASE Crash(p)
    <3>1. FrameType'
      BY Zenon, <1>0, <2>27 DEF Crash, Die, Forgotten, TypeOK, FrameType, Labels, BackendOutcome
    <3>2. ObjectType'
      BY Zenon, <1>0, <2>27 DEF Crash, Die, Forgotten, TypeOK, ObjectType, Waiting,
           ActionRunState
    <3>3. WorldType'
      BY <1>0, <2>27 DEF Crash, TypeOK, WorldType, disk, native, history
    <3> QED
      BY <3>1, <3>2, <3>3 DEF TypeOK
  <2> QED
    BY <1>1, <2>1, <2>2, <2>3, <2>4, <2>5, <2>6, <2>7, <2>8, <2>9, <2>10, <2>11, <2>12, <2>13,
         <2>14, <2>15, <2>16, <2>17, <2>18, <2>19, <2>20, <2>21, <2>22, <2>23, <2>24, <2>25,
         <2>26, <2>27 DEF Call, Step
<1>2. ASSUME NEW t \in Attempts, NativeEffect(t) \/ NativeStops(t) PROVE TypeOK'
    BY <1>0, <1>2, Zenon DEF NativeEffect, NativeStops, TypeOK, WorldType, FrameType, ObjectType,
                      disk, frame, object, history
<1>3. CASE Writeback /\ UNCHANGED <<mode, outcome, seen, object, used, native, history>>
    BY <1>0, <1>3, Zenon DEF Writeback, TypeOK, WorldType, FrameType, ObjectType,
                      object, native, history
<1>4. CASE PowerLoss
  <2>1. FrameType'
    BY <1>0, <1>4, Zenon DEF PowerLoss, Die, Forgotten, TypeOK, FrameType, Labels, BackendOutcome
  <2>2. ObjectType'
    BY <1>0, <1>4, Zenon DEF PowerLoss, Die, Forgotten, TypeOK, ObjectType, Waiting, ActionRunState
  <2>3. WorldType'
    BY <1>0, <1>4 DEF PowerLoss, AfterPowerLoss, TypeOK, WorldType, Entries, history
  <2> QED
    BY <2>1, <2>2, <2>3 DEF TypeOK
<1>5. CASE UNCHANGED vars
    BY <1>0, <1>5, Zenon DEF vars, TypeOK, WorldType, FrameType, ObjectType,
                      disk, frame, object, native, history
<1> QED
    BY <1>a, <1>1, <1>2, <1>3, <1>4, <1>5 DEF Next

(* What SetState does to the state of every action. *)
LEMMA StateChange ==
    ASSUME TypeOK, NEW p \in Processes, NEW s, SetState(p, s), attempt[p] \in Attempts
    PROVE  /\ st'[p][attempt[p][2]] = s
           /\ \A a \in Actions : a # attempt[p][2] => st'[p][a] = st[p][a]
           /\ \A q \in Processes : q # p => st'[q] = st[q]
BY CoordinatorAssumption, Zenon DEF TypeOK, ObjectType, SetState

-----------------------------------------------------------------------------
(* The lock is held at every control point that HoldsLock names. *)
LEMMA LockStep == IInv /\ [Next]_vars => LockInv'
<1>a. SUFFICES ASSUME IInv, [Next]_vars PROVE LockInv'
    OBVIOUS
<1>0. /\ TypeOK /\ LockInv
      /\ pc \in [Processes -> Labels]
      /\ mode \in [Processes -> {"run", "action", "ack"}]
      /\ holder \in Processes \union {Nobody}
    BY <1>a DEF IInv, TypeOK, FrameType, ObjectType
<1> USE NobodyAssumption
<1>1. ASSUME NEW p \in Processes, Call(p) \/ Step(p) \/ Crash(p) PROVE LockInv'
  <2>1. CASE StartRun(p)
    BY <1>0, <2>1 DEF StartRun, LockInv, HoldsLock, frame
  <2>2. CASE CallRun(p)
    BY <1>0, <2>2, Zenon DEF CallRun, TryLockHost, Goto, LockInv, HoldsLock,
         frame
  <2>3. CASE CallAction(p)
    BY <1>0, <2>3, Zenon DEF CallAction, Goto, LockInv, HoldsLock, frame
  <2>4. CASE ReviewIncident(p)
    BY <1>0, <2>4 DEF ReviewIncident, LockInv, HoldsLock, frame
  <2>5. CASE DropReview(p)
    BY <1>0, <2>5 DEF DropReview, LockInv, HoldsLock, frame
  <2>6. CASE AckBegin(p)
    BY <1>0, <2>6 DEF AckBegin, TryLockHost, Goto, LockInv, HoldsLock,
         frame
  <2>7. CASE RunInspect(p)
    BY <1>0, <2>7 DEF RunInspect, Return, Continue, Goto, LockInv, HoldsLock, frame
  <2>8. CASE RunLoop(p)
    BY <1>0, <2>8 DEF RunLoop, Return, Continue, Goto, LockInv, HoldsLock, frame
  <2>9. CASE Goal(p)
    BY <1>0, <2>9, Zenon DEF Goal, Return, Goto, LockInv, HoldsLock, frame
  <2>10. CASE ActionEnter(p)
    BY <1>0, <2>10 DEF ActionEnter, Return, Continue, Goto, TryLockHost, LockInv, HoldsLock, frame
  <2>11. CASE ActionInspect(p)
    BY <1>0, <2>11 DEF ActionInspect, Return, Continue, Goto, LockInv, HoldsLock, frame
  <2>12. CASE Admission(p)
    BY <1>0, <2>12 DEF Admission, Return, Continue, Goto, LockInv, HoldsLock, frame
  <2>13. CASE Capture(p)
    BY <1>0, <2>13, Zenon DEF Capture, ArmBegin, Goto, LockInv, HoldsLock, frame
  <2>14. CASE Arm(p)
    BY <1>0, <2>14, Zenon DEF Arm, ArmWrite, ArmSync, ArmPublish, ArmDirSync, Poison, Goto,
         LockInv, HoldsLock, frame
  <2>15. CASE ArmFailed(p)
    BY <1>0, <2>15, Zenon DEF ArmFailed, Return, Goto, LockInv, HoldsLock, frame
  <2>16. CASE Armed(p)
    BY <1>0, <2>16 DEF Armed, Return, Continue, Goto, LockInv, HoldsLock,
         frame
  <2>17. CASE Invoke(p)
    BY <1>0, <2>17 DEF Invoke, Continue, Goto, LockInv, HoldsLock, frame
  <2>18. CASE BackendReturns(p)
    BY <1>0, <2>18 DEF BackendReturns, Goto, LockInv, HoldsLock, frame
  <2>19. CASE PostProbe(p)
    BY <1>0, <2>19 DEF PostProbe, Return, Goto, LockInv, HoldsLock, frame
  <2>20. CASE Verify(p)
    BY <1>0, <2>20 DEF Verify, Return, Continue, Goto, LockInv, HoldsLock, frame
  <2>21. CASE Bind(p)
    BY <1>0, <2>21, Zenon DEF Bind, ClearBegin, Goto, LockInv, HoldsLock, frame
  <2>22. CASE Clear(p)
    BY <1>0, <2>22, Zenon DEF Clear, ClearUnlink, ClearDirSync, Poison, Goto, LockInv, HoldsLock, frame
  <2>23. CASE Cleared(p)
    BY <1>0, <2>23 DEF Cleared, Return, Continue, Goto, LockInv, HoldsLock, frame
  <2>24. CASE Leave(p)
    BY <1>0, <2>24, Zenon DEF Leave, Return, Goto, LockInv, HoldsLock, frame
  <2>25. CASE AckProbe(p)
    BY <1>0, <2>25, Zenon DEF AckProbe, Goto, LockInv, HoldsLock, frame
  <2>26. CASE AckPolicy(p)
    BY <1>0, <2>26, Zenon DEF AckPolicy, ClearBegin, Goto, LockInv, HoldsLock,
         frame
  <2>27. CASE Crash(p)
    BY <1>0, <2>27, Zenon DEF Crash, Die, Forgotten, LockInv, HoldsLock, frame
  <2> QED
    BY <1>1, <2>1, <2>2, <2>3, <2>4, <2>5, <2>6, <2>7, <2>8, <2>9, <2>10, <2>11, <2>12,
         <2>13, <2>14, <2>15, <2>16, <2>17, <2>18, <2>19, <2>20, <2>21, <2>22, <2>23, <2>24,
         <2>25, <2>26, <2>27, Zenon DEF Call, Step
<1>2. ASSUME NEW t \in Attempts, NativeEffect(t) \/ NativeStops(t) PROVE LockInv'
    BY <1>0, <1>2, Zenon DEF NativeEffect, NativeStops, LockInv, HoldsLock,
         frame
<1>3. CASE Writeback /\ UNCHANGED <<mode, outcome, seen, object, used, native, history>>
    BY <1>0, <1>3 DEF Writeback, LockInv, HoldsLock, frame
<1>4. CASE PowerLoss
    BY <1>0, <1>4, Zenon DEF PowerLoss, Die, Forgotten, LockInv, HoldsLock,
         frame
<1>5. CASE UNCHANGED vars
    BY <1>0, <1>5 DEF vars, LockInv, HoldsLock, frame
<1> QED
    BY <1>a, <1>1, <1>2, <1>3, <1>4, <1>5 DEF Next

(* CallInv: a call keeps working on the run and the attempt it was made for. *)
LEMMA CallStep == IInv /\ [Next]_vars => CallInv'
<1>a. SUFFICES ASSUME IInv, [Next]_vars PROVE CallInv'
    OBVIOUS
<1>0. /\ CallInv
      /\ pc \in [Processes -> Labels]
      /\ attempt \in [Processes -> Attempts \union {NoAttempt}]
      /\ mode \in [Processes -> {"run", "action", "ack"}]
      /\ run \in [Processes -> Runs \union {NoRun}]
      /\ review \in [Processes -> Reviews \union {NoReview}]
    BY <1>a DEF IInv, TypeOK, FrameType, ObjectType
<1> USE CoordinatorAssumption
<1>1. ASSUME NEW p \in Processes, Call(p) \/ Step(p) \/ Crash(p) PROVE CallInv'
  <2>1. CASE StartRun(p)
    BY <1>0, <2>1 DEF StartRun, CallInv, RunLabels, ActionLabels, PrepareLabels,
         DispatchedLabels, ExitLabels, AckLabels, ArmLabels, ClearLabels, frame, object
  <2>2. CASE CallRun(p)
    BY <1>0, <2>2 DEF CallRun, TryLockHost, Goto, CallInv, RunLabels, ActionLabels,
         PrepareLabels, DispatchedLabels, ExitLabels, AckLabels, ArmLabels, ClearLabels, frame, object
  <2>3. CASE CallAction(p)
    BY <1>0, <2>3 DEF CallAction, Goto, CallInv, RunLabels, ActionLabels, PrepareLabels,
         DispatchedLabels, ExitLabels, AckLabels, ArmLabels, ClearLabels, frame, object
  <2>4. CASE ReviewIncident(p)
    BY <1>0, <2>4, Zenon DEF ReviewIncident, CallInv, RunLabels, ActionLabels, PrepareLabels,
         DispatchedLabels, ExitLabels, AckLabels, ArmLabels, ClearLabels, frame, object
  <2>5. CASE DropReview(p)
    BY <1>0, <2>5 DEF DropReview, CallInv, RunLabels, ActionLabels, PrepareLabels,
         DispatchedLabels, ExitLabels, AckLabels, ArmLabels, ClearLabels, frame, object
  <2>6. CASE AckBegin(p)
    BY <1>0, <2>6 DEF AckBegin, TryLockHost, Goto, Reviews, CallInv, RunLabels,
         ActionLabels, PrepareLabels, DispatchedLabels, ExitLabels, AckLabels, ArmLabels,
         ClearLabels, frame, object
  <2>7. CASE RunInspect(p)
    BY <1>0, <2>7 DEF RunInspect, Return, Continue, Goto, CallInv, RunLabels, ActionLabels,
         PrepareLabels, DispatchedLabels, ExitLabels, AckLabels, ArmLabels, ClearLabels, frame, object
  <2>8. CASE RunLoop(p)
    <3>1. \A i \in FirstUnverified(p) : Order[i] \in Actions
      BY DEF FirstUnverified
    <3>2. pc[p] = "RunLoop" /\ UNCHANGED <<run, review>>
      BY <2>8, Zenon DEF RunLoop, object
    <3>3. \/ /\ pc' = [pc EXCEPT ![p] = "Idle"]
             /\ mode' = [mode EXCEPT ![p] = "run"]
             /\ attempt' = [attempt EXCEPT ![p] = NoAttempt]
          \/ pc' = [pc EXCEPT ![p] = "Goal"] /\ UNCHANGED <<mode, attempt>>
          \/ /\ pc' = [pc EXCEPT ![p] = "ActionEnter"]
             /\ \E a \in Actions : attempt' = [attempt EXCEPT ![p] = <<run[p], a>>]
             /\ UNCHANGED mode
      BY <2>8, <3>1, Zenon DEF RunLoop, Return, Continue, Goto, frame
    <3> QED
      BY <1>0, <3>2, <3>3 DEF CallInv, RunLabels, ActionLabels, PrepareLabels,
           DispatchedLabels, ExitLabels, AckLabels, ArmLabels, ClearLabels
  <2>9. CASE Goal(p)
    BY <1>0, <2>9 DEF Goal, Return, Goto, CallInv, RunLabels, ActionLabels, PrepareLabels,
         DispatchedLabels, ExitLabels, AckLabels, ArmLabels, ClearLabels, frame, object
  <2>10. CASE ActionEnter(p)
    <3>1. pc[p] = "ActionEnter" /\ UNCHANGED <<run, review>>
      BY <2>10, Zenon DEF ActionEnter
    <3>2. \/ /\ pc' = [pc EXCEPT ![p] = "Idle"]
             /\ mode' = [mode EXCEPT ![p] = "run"]
             /\ attempt' = [attempt EXCEPT ![p] = NoAttempt]
          \/ pc' = [pc EXCEPT ![p] = "ActionInspect"] /\ UNCHANGED <<mode, attempt>>
      BY <2>10, Zenon DEF ActionEnter, Return, Continue, Goto, frame
    <3> QED
      BY <1>0, <3>1, <3>2 DEF CallInv, RunLabels, ActionLabels, PrepareLabels,
           DispatchedLabels, ExitLabels, AckLabels, ArmLabels, ClearLabels
  <2>11. CASE ActionInspect(p)
    BY <1>0, <2>11 DEF ActionInspect, Return, Continue, Goto, CallInv, RunLabels,
         ActionLabels, PrepareLabels, DispatchedLabels, ExitLabels, AckLabels, ArmLabels,
         ClearLabels, frame, object
  <2>12. CASE Admission(p)
    BY <1>0, <2>12 DEF Admission, Return, Continue, Goto, CallInv, RunLabels, ActionLabels,
         PrepareLabels, DispatchedLabels, ExitLabels, AckLabels, ArmLabels, ClearLabels, frame, object
  <2>13. CASE Capture(p)
    BY <1>0, <2>13 DEF Capture, ArmBegin, Goto, CallInv, RunLabels, ActionLabels,
         PrepareLabels, DispatchedLabels, ExitLabels, AckLabels, ArmLabels, ClearLabels, frame, object
  <2>14. CASE Arm(p)
    BY <1>0, <2>14 DEF Arm, ArmWrite, ArmSync, ArmPublish, ArmDirSync, Poison, Goto,
         CallInv, RunLabels, ActionLabels, PrepareLabels, DispatchedLabels, ExitLabels,
         AckLabels, ArmLabels, ClearLabels, frame, object
  <2>15. CASE ArmFailed(p)
    BY <1>0, <2>15 DEF ArmFailed, Return, Goto, CallInv, RunLabels, ActionLabels,
         PrepareLabels, DispatchedLabels, ExitLabels, AckLabels, ArmLabels, ClearLabels, frame, object
  <2>16. CASE Armed(p)
    BY <1>0, <2>16 DEF Armed, Return, Continue, Goto, CallInv, RunLabels, ActionLabels,
         PrepareLabels, DispatchedLabels, ExitLabels, AckLabels, ArmLabels, ClearLabels, frame, object
  <2>17. CASE Invoke(p)
    BY <1>0, <2>17 DEF Invoke, Continue, Goto, CallInv, RunLabels, ActionLabels,
         PrepareLabels, DispatchedLabels, ExitLabels, AckLabels, ArmLabels, ClearLabels, frame, object
  <2>18. CASE BackendReturns(p)
    BY <1>0, <2>18 DEF BackendReturns, Goto, CallInv, RunLabels, ActionLabels,
         PrepareLabels, DispatchedLabels, ExitLabels, AckLabels, ArmLabels, ClearLabels, frame, object
  <2>19. CASE PostProbe(p)
    <3>1. UNCHANGED <<run, review>>
      BY <2>19, Zenon DEF PostProbe
    <3>2. \/ /\ pc' = [pc EXCEPT ![p] = "Idle"]
             /\ mode' = [mode EXCEPT ![p] = "run"]
             /\ attempt' = [attempt EXCEPT ![p] = NoAttempt]
          \/ pc' = [pc EXCEPT ![p] = "Verify"] /\ UNCHANGED <<mode, attempt>>
      BY <2>19, Zenon DEF PostProbe, Return, Goto
    <3>3. pc[p] = "PostProbe"
      BY <2>19, Zenon DEF PostProbe
    <3> QED
      BY <1>0, <3>1, <3>2, <3>3 DEF CallInv, RunLabels, ActionLabels, PrepareLabels,
           DispatchedLabels, ExitLabels, AckLabels, ArmLabels, ClearLabels
  <2>20. CASE Verify(p)
    BY <1>0, <2>20 DEF Verify, Return, Continue, Goto, CallInv, RunLabels, ActionLabels,
         PrepareLabels, DispatchedLabels, ExitLabels, AckLabels, ArmLabels, ClearLabels, frame, object
  <2>21. CASE Bind(p)
    BY <1>0, <2>21 DEF Bind, ClearBegin, Goto, CallInv, RunLabels, ActionLabels,
         PrepareLabels, DispatchedLabels, ExitLabels, AckLabels, ArmLabels, ClearLabels, frame, object
  <2>22. CASE Clear(p)
    BY <1>0, <2>22 DEF Clear, ClearUnlink, ClearDirSync, Poison, Goto, CallInv, RunLabels,
         ActionLabels, PrepareLabels, DispatchedLabels, ExitLabels, AckLabels, ArmLabels,
         ClearLabels, frame, object
  <2>23. CASE Cleared(p)
    BY <1>0, <2>23 DEF Cleared, Return, Continue, Goto, ConsumeReview, CallInv, RunLabels,
         ActionLabels, PrepareLabels, DispatchedLabels, ExitLabels, AckLabels, ArmLabels,
         ClearLabels, frame, object
  <2>24. CASE Leave(p)
    BY <1>0, <2>24, Zenon DEF Leave, Return, Goto, ConsumeReview, CallInv, RunLabels, ActionLabels,
         PrepareLabels, DispatchedLabels, ExitLabels, AckLabels, ArmLabels, ClearLabels, frame, object
  <2>25. CASE AckProbe(p)
    BY <1>0, <2>25 DEF AckProbe, Goto, CallInv, RunLabels, ActionLabels, PrepareLabels,
         DispatchedLabels, ExitLabels, AckLabels, ArmLabels, ClearLabels, frame, object
  <2>26. CASE AckPolicy(p)
    BY <1>0, <2>26 DEF AckPolicy, ClearBegin, Goto, CallInv, RunLabels, ActionLabels,
         PrepareLabels, DispatchedLabels, ExitLabels, AckLabels, ArmLabels, ClearLabels, frame, object
  <2>27. CASE Crash(p)
    BY <1>0, <2>27, Zenon DEF Crash, Die, Forgotten, CallInv, RunLabels, ActionLabels,
         PrepareLabels, DispatchedLabels, ExitLabels, AckLabels, ArmLabels, ClearLabels, frame, object
  <2> QED
    BY <1>1, <2>1, <2>2, <2>3, <2>4, <2>5, <2>6, <2>7, <2>8, <2>9, <2>10, <2>11, <2>12,
         <2>13, <2>14, <2>15, <2>16, <2>17, <2>18, <2>19, <2>20, <2>21, <2>22, <2>23, <2>24,
         <2>25, <2>26, <2>27, Zenon DEF Call, Step
<1>2. ASSUME NEW t \in Attempts, NativeEffect(t) \/ NativeStops(t) PROVE CallInv'
    BY <1>0, <1>2 DEF NativeEffect, NativeStops, CallInv, RunLabels, ActionLabels,
         PrepareLabels, DispatchedLabels, ExitLabels, AckLabels, ArmLabels, ClearLabels, frame, object
<1>3. CASE Writeback /\ UNCHANGED <<mode, outcome, seen, object, used, native, history>>
    BY <1>0, <1>3, Zenon DEF Writeback, CallInv, RunLabels, ActionLabels, PrepareLabels,
         DispatchedLabels, ExitLabels, AckLabels, ArmLabels, ClearLabels, frame, object
<1>4. CASE PowerLoss
    BY <1>0, <1>4, Zenon DEF PowerLoss, Die, Forgotten, CallInv, RunLabels, ActionLabels,
         PrepareLabels, DispatchedLabels, ExitLabels, AckLabels, ArmLabels, ClearLabels, frame, object
<1>5. CASE UNCHANGED vars
    BY <1>0, <1>5, Zenon DEF vars, CallInv, RunLabels, ActionLabels, PrepareLabels,
         DispatchedLabels, ExitLabels, AckLabels, ArmLabels, ClearLabels, frame, object
<1> QED
    BY <1>a, <1>1, <1>2, <1>3, <1>4, <1>5, Zenon DEF Next

(* MarkerInv: what the marker names at each control point. *)
LEMMA MarkerStep == IInv /\ [Next]_vars => MarkerInv'
<1>a. SUFFICES ASSUME IInv, [Next]_vars PROVE MarkerInv'
    OBVIOUS
<1>0. /\ TypeOK /\ LockInv /\ CallInv /\ MarkerInv
      /\ pc \in [Processes -> Labels]
      /\ attempt \in [Processes -> Attempts \union {NoAttempt}]
    BY <1>a DEF IInv, TypeOK, FrameType, ObjectType
<1> USE AttemptAssumption, NobodyAssumption
<1>1. ASSUME NEW p \in Processes, Call(p) \/ Step(p) \/ Crash(p) PROVE MarkerInv'
  <2>1. CASE StartRun(p)
    BY <1>0, <2>1, Zenon DEF StartRun, MarkerInv, DispatchedLabels, frame, disk
  <2>2. CASE CallRun(p)
    BY <1>0, <2>2, Zenon DEF CallRun, TryLockHost, Goto, MarkerInv, DispatchedLabels, frame, disk
  <2>3. CASE CallAction(p)
    BY <1>0, <2>3, Zenon DEF CallAction, Goto, MarkerInv, DispatchedLabels,
         frame, disk
  <2>4. CASE ReviewIncident(p)
    BY <1>0, <2>4, Zenon DEF ReviewIncident, MarkerInv, DispatchedLabels, frame,
         disk
  <2>5. CASE DropReview(p)
    BY <1>0, <2>5, Zenon DEF DropReview, MarkerInv, DispatchedLabels, frame,
         disk
  <2>6. CASE AckBegin(p)
    BY <1>0, <2>6, Zenon DEF AckBegin, TryLockHost, Goto, MarkerInv, DispatchedLabels, frame, disk
  <2>7. CASE RunInspect(p)
    BY <1>0, <2>7 DEF RunInspect, Return, Continue, Goto, MarkerInv, DispatchedLabels, frame, disk
  <2>8. CASE RunLoop(p)
    BY <1>0, <2>8 DEF RunLoop, Return, Continue, Goto, MarkerInv, DispatchedLabels, frame, disk
  <2>9. CASE Goal(p)
    BY <1>0, <2>9, Zenon DEF Goal, Return, Goto, MarkerInv, DispatchedLabels,
         frame, disk
  <2>10. CASE ActionEnter(p)
    BY <1>0, <2>10 DEF ActionEnter, Return, Continue, Goto, TryLockHost, MarkerInv,
         DispatchedLabels, frame, disk
  <2>11. CASE ActionInspect(p)
    BY <1>0, <2>11 DEF ActionInspect, Return, Continue, Goto, MarkerInv, DispatchedLabels, frame, disk
  <2>12. CASE Admission(p)
    BY <1>0, <2>12 DEF Admission, Return, Continue, Goto, MarkerInv, DispatchedLabels, frame, disk
  <2>13. CASE Capture(p)
    BY <1>0, <2>13 DEF Capture, ArmBegin, Goto, MarkerInv, DispatchedLabels, frame, disk
  <2>14. CASE Arm(p)
    <3>1. CASE ArmWrite(p, "ArmFailed")
      BY <1>0, <2>14, <3>1 DEF Arm, ArmWrite, Poison, Goto, MarkerInv, DispatchedLabels, frame, disk, LockInv, HoldsLock, WorldType, Entries
    <3>2. CASE ArmSync(p, "ArmFailed")
      BY <1>0, <2>14, <3>2 DEF Arm, ArmSync, Poison, Goto, MarkerInv, DispatchedLabels, frame, disk, LockInv, HoldsLock, WorldType, Entries
    <3>3. CASE ArmPublish(p, "ArmFailed")
      BY <1>0, <2>14, <3>3 DEF Arm, ArmPublish, Poison, Goto, MarkerInv, DispatchedLabels, frame, disk, LockInv, HoldsLock, WorldType, Entries
    <3>4. CASE ArmDirSync(p, "Armed", "ArmFailed")
      BY <1>0, <2>14, <3>4 DEF Arm, ArmDirSync, Poison, Goto, MarkerInv, DispatchedLabels, frame, disk, LockInv, HoldsLock, WorldType, Entries
    <3> QED
      BY <2>14, <3>1, <3>2, <3>3, <3>4 DEF Arm
  <2>15. CASE ArmFailed(p)
    BY <1>0, <2>15, Zenon DEF ArmFailed, Return, Goto, MarkerInv, DispatchedLabels, frame, disk
  <2>16. CASE Armed(p)
    BY <1>0, <2>16, Zenon DEF Armed, Return, Continue, Goto, MarkerInv, DispatchedLabels, frame, disk
  <2>17. CASE Invoke(p)
    BY <1>0, <2>17, Zenon DEF Invoke, Continue, Goto, MarkerInv, DispatchedLabels, frame, disk
  <2>18. CASE BackendReturns(p)
    BY <1>0, <2>18, Zenon DEF BackendReturns, Goto, MarkerInv, DispatchedLabels,
         frame, disk
  <2>19. CASE PostProbe(p)
    BY <1>0, <2>19, Zenon DEF PostProbe, Return, Goto, MarkerInv, DispatchedLabels, frame, disk
  <2>20. CASE Verify(p)
    BY <1>0, <2>20, Zenon DEF Verify, Return, Continue, Goto, MarkerInv, DispatchedLabels, frame, disk
  <2>21. CASE Bind(p)
    BY <1>0, <2>21 DEF Bind, ClearBegin, Goto, MarkerInv, DispatchedLabels, frame, disk
  <2>22. CASE Clear(p)
    <3>1. CASE ClearUnlink(p, "Leave")
      BY <1>0, <2>22, <3>1 DEF Clear, ClearUnlink, Poison, Goto, MarkerInv, DispatchedLabels, frame, disk, LockInv, HoldsLock, WorldType, Entries
    <3>2. CASE ClearDirSync(p, "Cleared", "Leave")
      BY <1>0, <2>22, <3>2 DEF Clear, ClearDirSync, Poison, Goto, MarkerInv, DispatchedLabels, frame, disk, LockInv, HoldsLock, WorldType, Entries
    <3> QED
      BY <2>22, <3>1, <3>2 DEF Clear
  <2>23. CASE Cleared(p)
    BY <1>0, <2>23 DEF Cleared, Return, Continue, Goto, MarkerInv, DispatchedLabels, frame, disk
  <2>24. CASE Leave(p)
    BY <1>0, <2>24, Zenon DEF Leave, Return, Goto, MarkerInv, DispatchedLabels,
         frame, disk
  <2>25. CASE AckProbe(p)
    BY <1>0, <2>25, Zenon DEF AckProbe, Goto, MarkerInv, DispatchedLabels,
         frame, disk
  <2>26. CASE AckPolicy(p)
    <3>1. attempt' = attempt /\ UNCHANGED disk
      BY <1>0, <2>26 DEF AckPolicy, ClearBegin, disk
    <3>2. \/ visible = attempt[p] /\ pc' = [pc EXCEPT ![p] = "ClearUnlink"]
          \/ pc' = [pc EXCEPT ![p] = "Leave"]
      BY <2>26, Zenon DEF AckPolicy, ClearBegin, Goto
    <3> QED
      BY <1>0, <3>1, <3>2, Zenon DEF MarkerInv, DispatchedLabels, disk
  <2>27. CASE Crash(p)
    BY <1>0, <2>27, Zenon DEF Crash, Die, Forgotten, MarkerInv, DispatchedLabels, frame, disk
  <2> QED
    BY <1>1, <2>1, <2>2, <2>3, <2>4, <2>5, <2>6, <2>7, <2>8, <2>9, <2>10, <2>11, <2>12,
         <2>13, <2>14, <2>15, <2>16, <2>17, <2>18, <2>19, <2>20, <2>21, <2>22, <2>23, <2>24,
         <2>25, <2>26, <2>27, Zenon DEF Call, Step
<1>2. ASSUME NEW t \in Attempts, NativeEffect(t) \/ NativeStops(t) PROVE MarkerInv'
    BY <1>0, <1>2, Zenon DEF NativeEffect, NativeStops, MarkerInv, DispatchedLabels, frame, disk
<1>3. CASE Writeback /\ UNCHANGED <<mode, outcome, seen, object, used, native, history>>
    BY <1>0, <1>3, Zenon DEF Writeback, MarkerInv, DispatchedLabels, frame, disk
<1>4. CASE PowerLoss
    BY <1>0, <1>4, Zenon DEF PowerLoss, Die, Forgotten, AfterPowerLoss, MarkerInv,
         DispatchedLabels, frame, disk
<1>5. CASE UNCHANGED vars
    BY <1>0, <1>5, Zenon DEF vars, MarkerInv, DispatchedLabels, frame, disk
<1> QED
    BY <1>a, <1>1, <1>2, <1>3, <1>4, <1>5, Zenon DEF Next

(* UnresolvedIsMarked is preserved. *)
LEMMA UnresolvedStep == IInv /\ [Next]_vars => UnresolvedIsMarked'
<1>a. SUFFICES ASSUME IInv, [Next]_vars PROVE UnresolvedIsMarked'
    OBVIOUS
<1>0. TypeOK /\ LockInv /\ CallInv /\ MarkerInv /\ UnresolvedIsMarked
    BY <1>a DEF IInv
<1> USE AttemptAssumption, NobodyAssumption
<1>1. ASSUME NEW p \in Processes, Call(p) \/ Step(p) \/ Crash(p) PROVE UnresolvedIsMarked'
  <2>1. CASE StartRun(p)
    BY <1>0, <2>1, Zenon DEF StartRun, UnresolvedIsMarked, Unresolved, disk, history
  <2>2. CASE CallRun(p)
    BY <1>0, <2>2, Zenon DEF CallRun, UnresolvedIsMarked, Unresolved, disk, history
  <2>3. CASE CallAction(p)
    BY <1>0, <2>3, Zenon DEF CallAction, UnresolvedIsMarked, Unresolved, disk, history
  <2>4. CASE ReviewIncident(p)
    BY <1>0, <2>4, Zenon DEF ReviewIncident, UnresolvedIsMarked, Unresolved, disk, history
  <2>5. CASE DropReview(p)
    BY <1>0, <2>5, Zenon DEF DropReview, UnresolvedIsMarked, Unresolved, disk, history
  <2>6. CASE AckBegin(p)
    BY <1>0, <2>6, Zenon DEF AckBegin, UnresolvedIsMarked, Unresolved, disk, history
  <2>7. CASE RunInspect(p)
    BY <1>0, <2>7 DEF RunInspect, UnresolvedIsMarked, Unresolved, disk, history
  <2>8. CASE RunLoop(p)
    BY <1>0, <2>8, Zenon DEF RunLoop, UnresolvedIsMarked, Unresolved, disk, history
  <2>9. CASE Goal(p)
    BY <1>0, <2>9, Zenon DEF Goal, UnresolvedIsMarked, Unresolved, disk, history
  <2>10. CASE ActionEnter(p)
    BY <1>0, <2>10, Zenon DEF ActionEnter, UnresolvedIsMarked, Unresolved, disk, history
  <2>11. CASE ActionInspect(p)
    BY <1>0, <2>11 DEF ActionInspect, UnresolvedIsMarked, Unresolved, disk, history
  <2>12. CASE Admission(p)
    BY <1>0, <2>12, Zenon DEF Admission, UnresolvedIsMarked, Unresolved, disk, history
  <2>13. CASE Capture(p)
    BY <1>0, <2>13, Zenon DEF Capture, ArmBegin, UnresolvedIsMarked, Unresolved, disk, history
  <2>14. CASE Arm(p)
    <3>1. CASE ArmWrite(p, "ArmFailed")
      BY <1>0, <2>14, <3>1, Zenon DEF Arm, ArmWrite, Poison, Goto, UnresolvedIsMarked, Unresolved,
           disk, history, MarkerInv, DispatchedLabels, TypeOK, FrameType, frame, disk,
           LockInv, HoldsLock, WorldType, Entries
    <3>2. CASE ArmSync(p, "ArmFailed")
      BY <1>0, <2>14, <3>2, Zenon DEF Arm, ArmSync, Poison, Goto, UnresolvedIsMarked, Unresolved,
           disk, history, MarkerInv, DispatchedLabels, TypeOK, FrameType, frame, disk,
           LockInv, HoldsLock, WorldType, Entries
    <3>3. CASE ArmPublish(p, "ArmFailed")
      BY <1>0, <2>14, <3>3 DEF Arm, ArmPublish, Poison, Goto, UnresolvedIsMarked, Unresolved,
           disk, history, MarkerInv, DispatchedLabels, TypeOK, FrameType, frame, disk,
           LockInv, HoldsLock, WorldType, Entries
    <3>4. CASE ArmDirSync(p, "Armed", "ArmFailed")
      BY <1>0, <2>14, <3>4, Zenon DEF Arm, ArmDirSync, Poison, Goto, UnresolvedIsMarked, Unresolved,
           disk, history, MarkerInv, DispatchedLabels, TypeOK, FrameType, frame, disk,
           LockInv, HoldsLock, WorldType, Entries
    <3> QED
      BY <2>14, <3>1, <3>2, <3>3, <3>4 DEF Arm
  <2>15. CASE ArmFailed(p)
    BY <1>0, <2>15 DEF ArmFailed, UnresolvedIsMarked, Unresolved, disk, history
  <2>16. CASE Armed(p)
    BY <1>0, <2>16, Zenon DEF Armed, UnresolvedIsMarked, Unresolved, disk, history
  <2>17. CASE Invoke(p)
    BY <1>0, <2>17, Zenon DEF Invoke, UnresolvedIsMarked, Unresolved, disk, history, MarkerInv,
         DispatchedLabels
  <2>18. CASE BackendReturns(p)
    BY <1>0, <2>18, Zenon DEF BackendReturns, UnresolvedIsMarked, Unresolved, disk, history
  <2>19. CASE PostProbe(p)
    BY <1>0, <2>19, Zenon DEF PostProbe, UnresolvedIsMarked, Unresolved, disk, history
  <2>20. CASE Verify(p)
    BY <1>0, <2>20, Zenon DEF Verify, UnresolvedIsMarked, Unresolved, disk, history
  <2>21. CASE Bind(p)
    BY <1>0, <2>21 DEF Bind, ClearBegin, UnresolvedIsMarked, Unresolved, disk, history
  <2>22. CASE Clear(p)
    <3>1. CASE ClearUnlink(p, "Leave")
      BY <1>0, <2>22, <3>1, Zenon DEF Clear, ClearUnlink, Poison, Goto, UnresolvedIsMarked,
           Unresolved, disk, history, MarkerInv, DispatchedLabels, TypeOK, FrameType, frame,
           disk, LockInv, HoldsLock, WorldType, Entries
    <3>2. CASE ClearDirSync(p, "Cleared", "Leave")
      BY <1>0, <2>22, <3>2, Zenon DEF Clear, ClearDirSync, Poison, Goto, UnresolvedIsMarked,
           Unresolved, disk, history, MarkerInv, DispatchedLabels, TypeOK, FrameType, frame,
           disk, LockInv, HoldsLock, WorldType, Entries
    <3> QED
      BY <2>22, <3>1, <3>2 DEF Clear
  <2>23. CASE Cleared(p)
    BY <1>0, <2>23, Zenon DEF Cleared, UnresolvedIsMarked, Unresolved, disk, history
  <2>24. CASE Leave(p)
    BY <1>0, <2>24 DEF Leave, UnresolvedIsMarked, Unresolved, disk, history
  <2>25. CASE AckProbe(p)
    BY <1>0, <2>25, Zenon DEF AckProbe, UnresolvedIsMarked, Unresolved, disk, history
  <2>26. CASE AckPolicy(p)
    BY <1>0, <2>26, Zenon DEF AckPolicy, ClearBegin, UnresolvedIsMarked, Unresolved, disk, history
  <2>27. CASE Crash(p)
    BY <1>0, <2>27, Zenon DEF Crash, Die, Forgotten, UnresolvedIsMarked, Unresolved, disk, history
  <2> QED
    BY <1>1, <2>1, <2>2, <2>3, <2>4, <2>5, <2>6, <2>7, <2>8, <2>9, <2>10, <2>11, <2>12,
         <2>13, <2>14, <2>15, <2>16, <2>17, <2>18, <2>19, <2>20, <2>21, <2>22, <2>23, <2>24,
         <2>25, <2>26, <2>27 DEF Call, Step
<1>2. ASSUME NEW t \in Attempts, NativeEffect(t) \/ NativeStops(t) PROVE UnresolvedIsMarked'
    BY <1>0, <1>2 DEF NativeEffect, NativeStops, UnresolvedIsMarked, Unresolved, disk,
         history
<1>3. CASE Writeback /\ UNCHANGED <<mode, outcome, seen, object, used, native, history>>
    BY <1>0, <1>3 DEF Writeback, UnresolvedIsMarked, Unresolved, disk, history
<1>4. CASE PowerLoss
    BY <1>0, <1>4, Zenon DEF PowerLoss, AfterPowerLoss, MarkerInv, TypeOK, WorldType,
         UnresolvedIsMarked, Unresolved, disk, history
<1>5. CASE UNCHANGED vars
    BY <1>0, <1>5, Zenon DEF vars, UnresolvedIsMarked, Unresolved, disk, history
<1> QED
    BY <1>a, <1>1, <1>2, <1>3, <1>4, <1>5 DEF Next

(* IdentityInv: run identities stay distinct. *)
LEMMA IdentityStep == IInv /\ [Next]_vars => IdentityInv'
<1>a. SUFFICES ASSUME IInv, [Next]_vars PROVE IdentityInv'
    OBVIOUS
<1>0. TypeOK /\ CallInv /\ IdentityInv
    BY <1>a DEF IInv
<1> USE CoordinatorAssumption
<1>1. ASSUME NEW p \in Processes, Call(p) \/ Step(p) \/ Crash(p) PROVE IdentityInv'
  <2>1. CASE StartRun(p)
    BY <1>0, <2>1 DEF StartRun, IdentityInv, TypeOK, ObjectType, object, history
  <2>2. CASE CallRun(p)
    BY <1>0, <2>2, Zenon DEF CallRun, IdentityInv, TypeOK, ObjectType, object, history
  <2>3. CASE CallAction(p)
    BY <1>0, <2>3, Zenon DEF CallAction, IdentityInv, TypeOK, ObjectType, object, history
  <2>4. CASE ReviewIncident(p)
    BY <1>0, <2>4, Zenon DEF ReviewIncident, IdentityInv, TypeOK, ObjectType, object, history
  <2>5. CASE DropReview(p)
    BY <1>0, <2>5 DEF DropReview, IdentityInv, TypeOK, ObjectType, object, history
  <2>6. CASE AckBegin(p)
    BY <1>0, <2>6, Zenon DEF AckBegin, IdentityInv, TypeOK, ObjectType, object, history
  <2>7. CASE RunInspect(p)
    BY <1>0, <2>7 DEF RunInspect, IdentityInv, TypeOK, ObjectType, object, history
  <2>8. CASE RunLoop(p)
    BY <1>0, <2>8, Zenon DEF RunLoop, IdentityInv, TypeOK, ObjectType, object, history
  <2>9. CASE Goal(p)
    BY <1>0, <2>9, Zenon DEF Goal, IdentityInv, TypeOK, ObjectType, object, history
  <2>10. CASE ActionEnter(p)
    BY <1>0, <2>10, Zenon DEF ActionEnter, IdentityInv, TypeOK, ObjectType, object, history
  <2>11. CASE ActionInspect(p)
    BY <1>0, <2>11 DEF ActionInspect, IdentityInv, TypeOK, ObjectType, object, history
  <2>12. CASE Admission(p)
    BY <1>0, <2>12, Zenon DEF Admission, IdentityInv, TypeOK, ObjectType, object, history
  <2>13. CASE Capture(p)
    BY <1>0, <2>13, Zenon DEF Capture, ArmBegin, IdentityInv, TypeOK, ObjectType, object, history
  <2>14. CASE Arm(p)
    BY <1>0, <2>14, Zenon DEF Arm, ArmWrite, ArmSync, ArmPublish, ArmDirSync, Poison, Goto,
         IdentityInv, TypeOK, ObjectType, object, history
  <2>15. CASE ArmFailed(p)
    BY <1>0, <2>15 DEF ArmFailed, IdentityInv, TypeOK, ObjectType, object, history
  <2>16. CASE Armed(p)
    BY <1>0, <2>16, Zenon DEF Armed, IdentityInv, TypeOK, ObjectType, object, history
  <2>17. CASE Invoke(p)
    <3>1. run[p] \in Runs /\ attempt[p][1] = run[p]
      BY <1>0, <2>17, Zenon DEF Invoke, CallInv, ActionLabels, DispatchedLabels
    <3>2. attempt[p][1] \in used
      BY <1>0, <3>1, Zenon DEF IdentityInv
    <3> QED
      BY <1>0, <2>17, <3>2, Zenon DEF Invoke, IdentityInv, object
  <2>18. CASE BackendReturns(p)
    BY <1>0, <2>18, Zenon DEF BackendReturns, IdentityInv, TypeOK, ObjectType, object, history
  <2>19. CASE PostProbe(p)
    BY <1>0, <2>19, Zenon DEF PostProbe, IdentityInv, TypeOK, ObjectType, object, history
  <2>20. CASE Verify(p)
    BY <1>0, <2>20, Zenon DEF Verify, IdentityInv, TypeOK, ObjectType, object, history
  <2>21. CASE Bind(p)
    BY <1>0, <2>21, Zenon DEF Bind, ClearBegin, IdentityInv, TypeOK, ObjectType, object, history
  <2>22. CASE Clear(p)
    BY <1>0, <2>22, Zenon DEF Clear, ClearUnlink, ClearDirSync, Poison, Goto, IdentityInv, TypeOK,
         ObjectType, object, history
  <2>23. CASE Cleared(p)
    BY <1>0, <2>23, Zenon DEF Cleared, IdentityInv, TypeOK, ObjectType, object, history
  <2>24. CASE Leave(p)
    BY <1>0, <2>24, Zenon DEF Leave, IdentityInv, TypeOK, ObjectType, object, history
  <2>25. CASE AckProbe(p)
    BY <1>0, <2>25, Zenon DEF AckProbe, IdentityInv, TypeOK, ObjectType, object, history
  <2>26. CASE AckPolicy(p)
    BY <1>0, <2>26, Zenon DEF AckPolicy, ClearBegin, IdentityInv, TypeOK, ObjectType, object,
         history
  <2>27. CASE Crash(p)
    BY <1>0, <2>27, Zenon DEF Crash, Die, Forgotten, IdentityInv, TypeOK, ObjectType, object,
         history
  <2> QED
    BY <1>1, <2>1, <2>2, <2>3, <2>4, <2>5, <2>6, <2>7, <2>8, <2>9, <2>10, <2>11, <2>12,
         <2>13, <2>14, <2>15, <2>16, <2>17, <2>18, <2>19, <2>20, <2>21, <2>22, <2>23, <2>24,
         <2>25, <2>26, <2>27, Zenon DEF Call, Step
<1>2. ASSUME NEW t \in Attempts, NativeEffect(t) \/ NativeStops(t) PROVE IdentityInv'
    BY <1>0, <1>2, Zenon DEF NativeEffect, NativeStops, IdentityInv, TypeOK, ObjectType, object,
         history
<1>3. CASE Writeback /\ UNCHANGED <<mode, outcome, seen, object, used, native, history>>
    BY <1>0, <1>3, Zenon DEF Writeback, IdentityInv, TypeOK, ObjectType, object, history
<1>4. CASE PowerLoss
    BY <1>0, <1>4, Zenon DEF PowerLoss, Die, Forgotten, IdentityInv, TypeOK, ObjectType, object,
         history
<1>5. CASE UNCHANGED vars
    BY <1>0, <1>5, Zenon DEF vars, IdentityInv, TypeOK, ObjectType, object, history
<1> QED
    BY <1>a, <1>1, <1>2, <1>3, <1>4, <1>5, Zenon DEF Next

=============================================================================

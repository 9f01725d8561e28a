------------------------- MODULE CoordinatorProofs --------------------------
(***************************************************************************)
(* The safety of Coordinator for every set of processes, runs and actions, *)
(* and that it implements AttemptLedger; then what a coordinator may       *)
(* claim: an action reported verified had its effect, a run reported       *)
(* verified is clean on disk, and the marker of an invoked attempt is      *)
(* removed only with a reason.                                             *)
(***************************************************************************)
EXTENDS CoordinatorInvariant

(* PhaseInv: the state of the action in hand. *)
LEMMA PhaseStep == IInv /\ [Next]_vars => PhaseInv'
<1>a. SUFFICES ASSUME IInv, [Next]_vars PROVE PhaseInv'
    OBVIOUS
<1>0. /\ TypeOK /\ LockInv /\ CallInv /\ PhaseInv /\ BegunInv
      /\ pc \in [Processes -> Labels]
      /\ attempt \in [Processes -> Attempts \union {NoAttempt}]
      /\ st \in [Processes -> [Actions -> ActionRunState]]
    BY <1>a DEF IInv, TypeOK, FrameType, ObjectType
<1> USE NobodyAssumption
<1>1. ASSUME NEW p \in Processes, Call(p) \/ Step(p) \/ Crash(p) PROVE PhaseInv'
  <2>1. CASE StartRun(p)
    BY <1>0, <2>1 DEF StartRun, PhaseInv, PrepareLabels, ArmLabels, frame, object, history
  <2>2. CASE CallRun(p)
    BY <1>0, <2>2 DEF CallRun, TryLockHost, Goto, PhaseInv, PrepareLabels, ArmLabels, frame, object, history
  <2>3. CASE CallAction(p)
    BY <1>0, <2>3 DEF CallAction, Goto, PhaseInv, PrepareLabels, ArmLabels, frame, object, history
  <2>4. CASE ReviewIncident(p)
    BY <1>0, <2>4 DEF ReviewIncident, PhaseInv, PrepareLabels, ArmLabels, frame, object, history
  <2>5. CASE DropReview(p)
    BY <1>0, <2>5 DEF DropReview, PhaseInv, PrepareLabels, ArmLabels, frame, object, history
  <2>6. CASE AckBegin(p)
    BY <1>0, <2>6, Zenon DEF AckBegin, TryLockHost, Goto, PhaseInv, PrepareLabels, ArmLabels, frame, object, history
  <2>7. CASE RunInspect(p)
    BY <1>0, <2>7 DEF RunInspect, Return, Continue, Goto, PhaseInv, PrepareLabels,
         ArmLabels, frame, object, history
  <2>8. CASE RunLoop(p)
    BY <1>0, <2>8 DEF RunLoop, Return, Continue, Goto, PhaseInv, PrepareLabels, ArmLabels, frame, object, history
  <2>9. CASE Goal(p)
    BY <1>0, <2>9, Zenon DEF Goal, Return, Goto, PhaseInv, PrepareLabels, ArmLabels, frame, object, history
  <2>10. CASE ActionEnter(p)
    <3>1. attempt[p] \in Attempts /\ attempt[p][1] = run[p] /\ run[p] \in Runs
      BY <1>0, <2>10, Zenon DEF ActionEnter, CallInv, ActionLabels, PrepareLabels, DispatchedLabels,
           ArmLabels
    <3>2. \A s : SetState(p, s) =>
             /\ st'[p][attempt[p][2]] = s
             /\ \A a \in Actions : a # attempt[p][2] => st'[p][a] = st[p][a]
             /\ \A q \in Processes : q # p => st'[q] = st[q]
      BY <1>0, <3>1, StateChange
    <3> QED
      BY <1>0, <2>10, <3>1, <3>2 DEF ActionEnter, Return, Continue, Goto, TryLockHost,
           PhaseInv, PrepareLabels, ArmLabels, frame, object,
           history
  <2>11. CASE ActionInspect(p)
    BY <1>0, <2>11 DEF ActionInspect, Return, Continue, Goto, PhaseInv, PrepareLabels,
         ArmLabels, frame, object, history
  <2>12. CASE Admission(p)
    <3>1. attempt[p] \in Attempts /\ attempt[p][1] = run[p] /\ run[p] \in Runs
      BY <1>0, <2>12, Zenon DEF Admission, CallInv, ActionLabels, PrepareLabels, DispatchedLabels,
           ArmLabels
    <3>2. \A s : SetState(p, s) =>
             /\ st'[p][attempt[p][2]] = s
             /\ \A a \in Actions : a # attempt[p][2] => st'[p][a] = st[p][a]
             /\ \A q \in Processes : q # p => st'[q] = st[q]
      BY <1>0, <3>1, StateChange
    <3> QED
      BY <1>0, <2>12, <3>1, <3>2 DEF Admission, Return, Continue, Goto, PhaseInv,
           PrepareLabels, ArmLabels, frame, object, history
  <2>13. CASE Capture(p)
    BY <1>0, <2>13 DEF Capture, ArmBegin, Goto, PhaseInv, PrepareLabels, ArmLabels, frame, object, history
  <2>14. CASE Arm(p)
    BY <1>0, <2>14 DEF Arm, ArmWrite, ArmSync, ArmPublish, ArmDirSync, Poison, Goto,
         PhaseInv, PrepareLabels, ArmLabels, frame, object,
         history
  <2>15. CASE ArmFailed(p)
    <3>1. attempt[p] \in Attempts /\ attempt[p][1] = run[p] /\ run[p] \in Runs
      BY <1>0, <2>15, Zenon DEF ArmFailed, CallInv, ActionLabels, PrepareLabels, DispatchedLabels,
           ArmLabels
    <3>2. \A s : SetState(p, s) =>
             /\ st'[p][attempt[p][2]] = s
             /\ \A a \in Actions : a # attempt[p][2] => st'[p][a] = st[p][a]
             /\ \A q \in Processes : q # p => st'[q] = st[q]
      BY <1>0, <3>1, StateChange
    <3> QED
      BY <1>0, <2>15, <3>1, <3>2 DEF ArmFailed, Return, Goto, PhaseInv, PrepareLabels,
           ArmLabels, frame, object, history
  <2>16. CASE Armed(p)
    <3>1. attempt[p] \in Attempts /\ attempt[p][1] = run[p] /\ run[p] \in Runs
      BY <1>0, <2>16, Zenon DEF Armed, CallInv, ActionLabels, PrepareLabels, DispatchedLabels,
           ArmLabels
    <3>2. \A s : SetState(p, s) =>
             /\ st'[p][attempt[p][2]] = s
             /\ \A a \in Actions : a # attempt[p][2] => st'[p][a] = st[p][a]
             /\ \A q \in Processes : q # p => st'[q] = st[q]
      BY <1>0, <3>1, StateChange
    <3>3. attempt[p] \notin begun
      <4>1. st[p][attempt[p][2]] = "Admitted"
        BY <1>0, <2>16, Zenon DEF Armed, PhaseInv, PrepareLabels
      <4>2. attempt[p] = <<run[p], attempt[p][2]>> /\ attempt[p][2] \in Actions
        BY <3>1, CoordinatorAssumption
      <4> QED
        BY <1>0, <4>1, <4>2, Zenon DEF BegunInv
    <3> QED
      BY <1>0, <2>16, <3>1, <3>2, <3>3 DEF Armed, Return, Continue, Goto, PhaseInv,
           PrepareLabels, ArmLabels, frame, object, history
  <2>17. CASE Invoke(p)
    BY Zenon, <1>0, <2>17 DEF Invoke, Continue, Goto, LockInv, HoldsLock, PhaseInv,
         PrepareLabels,
         ArmLabels, frame, object, history
  <2>18. CASE BackendReturns(p)
    BY <1>0, <2>18, Zenon DEF BackendReturns, Goto, PhaseInv, PrepareLabels, ArmLabels, frame, object, history
  <2>19. CASE PostProbe(p)
    <3>1. attempt[p] \in Attempts
      BY <1>0, <2>19, Zenon DEF PostProbe, CallInv, ActionLabels, DispatchedLabels
    <3>2. \A q \in Processes : q # p => st'[q] = st[q]
      BY <1>0, <2>19, <3>1, StateChange, Zenon DEF PostProbe
    <3>3. pc' = [pc EXCEPT ![p] = "Idle"] \/ pc' = [pc EXCEPT ![p] = "Verify"]
      BY <2>19 DEF PostProbe, Return, Goto
    <3>4. attempt' = attempt \/ attempt' = [attempt EXCEPT ![p] = NoAttempt]
      BY <2>19, Zenon DEF PostProbe, Return
    <3>5. begun' = begun
      BY <2>19, Zenon DEF PostProbe, history
    <3> QED
      BY <1>0, <3>2, <3>3, <3>4, <3>5 DEF PhaseInv, PrepareLabels, ArmLabels
  <2>20. CASE Verify(p)
    <3>1. attempt[p] \in Attempts /\ attempt[p][1] = run[p] /\ run[p] \in Runs
      BY <1>0, <2>20, Zenon DEF Verify, CallInv, ActionLabels, PrepareLabels, DispatchedLabels,
           ArmLabels
    <3>2. \A s : SetState(p, s) =>
             /\ st'[p][attempt[p][2]] = s
             /\ \A a \in Actions : a # attempt[p][2] => st'[p][a] = st[p][a]
             /\ \A q \in Processes : q # p => st'[q] = st[q]
      BY <1>0, <3>1, StateChange
    <3> QED
      BY <1>0, <2>20, <3>1, <3>2 DEF Verify, Return, Continue, Goto, PhaseInv, PrepareLabels,
           ArmLabels, frame, object, history
  <2>21. CASE Bind(p)
    BY <1>0, <2>21 DEF Bind, ClearBegin, Goto, PhaseInv, PrepareLabels, ArmLabels, frame, object, history
  <2>22. CASE Clear(p)
    BY <1>0, <2>22 DEF Clear, ClearUnlink, ClearDirSync, Poison, Goto, PhaseInv,
         PrepareLabels, ArmLabels, frame, object, history
  <2>23. CASE Cleared(p)
    BY <1>0, <2>23 DEF Cleared, Return, Continue, Goto, PhaseInv, PrepareLabels, ArmLabels, frame, object, history
  <2>24. CASE Leave(p)
    BY <1>0, <2>24, Zenon DEF Leave, Return, Goto, PhaseInv, PrepareLabels, ArmLabels, frame, object, history
  <2>25. CASE AckProbe(p)
    BY <1>0, <2>25 DEF AckProbe, Goto, PhaseInv, PrepareLabels, ArmLabels, frame, object, history
  <2>26. CASE AckPolicy(p)
    BY <1>0, <2>26 DEF AckPolicy, ClearBegin, Goto, PhaseInv, PrepareLabels, ArmLabels, frame, object, history
  <2>27. CASE Crash(p)
    BY <1>0, <2>27, Zenon DEF Crash, Die, Forgotten, PhaseInv, PrepareLabels, ArmLabels, frame, object, history
  <2> QED
    BY <1>1, <2>1, <2>2, <2>3, <2>4, <2>5, <2>6, <2>7, <2>8, <2>9, <2>10, <2>11, <2>12,
         <2>13, <2>14, <2>15, <2>16, <2>17, <2>18, <2>19, <2>20, <2>21, <2>22, <2>23, <2>24,
         <2>25, <2>26, <2>27, Zenon DEF Call, Step
<1>2. ASSUME NEW t \in Attempts, NativeEffect(t) \/ NativeStops(t) PROVE PhaseInv'
    BY <1>0, <1>2, Zenon DEF NativeEffect, NativeStops, PhaseInv, PrepareLabels, ArmLabels, frame, object, history
<1>3. CASE Writeback /\ UNCHANGED <<mode, outcome, seen, object, used, native, history>>
    BY <1>0, <1>3, Zenon DEF Writeback, PhaseInv, PrepareLabels, ArmLabels, frame, object, history
<1>4. CASE PowerLoss
    BY <1>0, <1>4, Zenon DEF PowerLoss, Die, Forgotten, PhaseInv, PrepareLabels, ArmLabels, frame, object, history
<1>5. CASE UNCHANGED vars
    BY <1>0, <1>5, Zenon DEF vars, PhaseInv, PrepareLabels, ArmLabels, frame, object, history
<1> QED
    BY <1>a, <1>1, <1>2, <1>3, <1>4, <1>5 DEF Next

(* BegunInv: an invoked action stays past Admitted. *)
LEMMA BegunStep == IInv /\ [Next]_vars => BegunInv'
<1>a. SUFFICES ASSUME IInv, [Next]_vars PROVE BegunInv'
    OBVIOUS
<1>0. TypeOK /\ CallInv /\ IdentityInv /\ PhaseInv /\ BegunInv
    BY <1>a DEF IInv
<1> USE CoordinatorAssumption
<1>1. ASSUME NEW p \in Processes, Call(p) \/ Step(p) \/ Crash(p) PROVE BegunInv'
  <2>1. CASE StartRun(p)
    <3>1. PICK r \in Runs \ used : run' = [run EXCEPT ![p] = r]
      BY Zenon, <2>1 DEF StartRun
    <3>2. \A a \in Actions : <<r, a>> \notin begun
      BY <1>0, <3>1 DEF IdentityInv
    <3> QED
      BY <1>0, <2>1, <3>1, <3>2 DEF StartRun, BegunInv, TypeOK, ObjectType, history
  <2>2. CASE CallRun(p)
    BY <1>0, <2>2 DEF CallRun, BegunInv, TypeOK, ObjectType, object, history
  <2>3. CASE CallAction(p)
    BY <1>0, <2>3 DEF CallAction, BegunInv, TypeOK, ObjectType, object, history
  <2>4. CASE ReviewIncident(p)
    BY <1>0, <2>4, Zenon DEF ReviewIncident, BegunInv, TypeOK, ObjectType, object, history
  <2>5. CASE DropReview(p)
    BY <1>0, <2>5 DEF DropReview, BegunInv, TypeOK, ObjectType, object, history
  <2>6. CASE AckBegin(p)
    BY <1>0, <2>6, Zenon DEF AckBegin, BegunInv, TypeOK, ObjectType, object, history
  <2>7. CASE RunInspect(p)
    BY <1>0, <2>7 DEF RunInspect, BegunInv, TypeOK, ObjectType, object, history
  <2>8. CASE RunLoop(p)
    BY <1>0, <2>8, Zenon DEF RunLoop, BegunInv, TypeOK, ObjectType, object, history
  <2>9. CASE Goal(p)
    BY <1>0, <2>9 DEF Goal, BegunInv, TypeOK, ObjectType, object, history
  <2>10. CASE ActionEnter(p)
    <3>1. attempt[p] \in Attempts /\ attempt[p][1] = run[p] /\ run[p] \in Runs
      BY <1>0, <2>10, Zenon DEF ActionEnter, CallInv, ActionLabels, PrepareLabels, DispatchedLabels,
           ArmLabels
    <3>2. \A s : SetState(p, s) =>
             /\ st'[p][attempt[p][2]] = s
             /\ \A a \in Actions : a # attempt[p][2] => st'[p][a] = st[p][a]
             /\ \A q \in Processes : q # p => st'[q] = st[q]
      BY <1>0, <3>1, StateChange, Zenon
    <3>3. run' = run /\ begun' = begun
      BY <2>10, Zenon DEF ActionEnter, history
    <3>4. \/ st' = st
          \/ SetState(p, "Checking") /\ st[p][attempt[p][2]] \in {"Waiting", "Checking"}
      BY <2>10, Zenon DEF ActionEnter, MayEnter, CanBeginCheck
    <3>5. CASE st' = st
      BY <1>0, <3>3, <3>5 DEF BegunInv
    <3>6. CASE SetState(p, "Checking") /\ st[p][attempt[p][2]] \in {"Waiting", "Checking"}
      <4>1. attempt[p][2] \in Actions /\ <<run[p], attempt[p][2]>> \notin begun
        BY <1>0, <3>1, <3>6, CoordinatorAssumption, Zenon DEF BegunInv
      <4> QED
        BY <1>0, <3>2, <3>3, <3>6, <4>1, Zenon DEF BegunInv
    <3> QED
      BY <3>4, <3>5, <3>6
  <2>11. CASE ActionInspect(p)
    BY <1>0, <2>11 DEF ActionInspect, BegunInv, TypeOK, ObjectType, object, history
  <2>12. CASE Admission(p)
    <3>1. attempt[p] \in Attempts /\ attempt[p][1] = run[p] /\ run[p] \in Runs
      BY <1>0, <2>12, Zenon DEF Admission, CallInv, ActionLabels, PrepareLabels, DispatchedLabels,
           ArmLabels
    <3>2. attempt[p] = <<run[p], attempt[p][2]>> /\ attempt[p] \notin begun
      <4>1. st[p][attempt[p][2]] = "Checking"
        BY <1>0, <2>12, Zenon DEF Admission, PhaseInv
      <4>2. attempt[p] = <<run[p], attempt[p][2]>> /\ attempt[p][2] \in Actions
        BY <3>1
      <4> QED
        BY Zenon, <1>0, <4>1, <4>2 DEF BegunInv
    <3>3. st' = st \/ \E s \in {"Failed", "Admitted"} : SetState(p, s)
      BY <1>0, <2>12 DEF Admission
    <3>4. run' = run /\ begun' = begun
      BY <2>12 DEF Admission, history
    <3>5. CASE st' = st
      BY <1>0, <3>4, <3>5 DEF BegunInv
    <3>6. ASSUME NEW s \in {"Failed", "Admitted"}, SetState(p, s) PROVE BegunInv'
      BY <1>0, <3>1, <3>4, <3>6, <3>2, StateChange DEF BegunInv
    <3> QED
      BY <3>3, <3>5, <3>6
  <2>13. CASE Capture(p)
    BY <1>0, <2>13, Zenon DEF Capture, ArmBegin, BegunInv, TypeOK, ObjectType, object, history
  <2>14. CASE Arm(p)
    BY <1>0, <2>14, Zenon DEF Arm, ArmWrite, ArmSync, ArmPublish, ArmDirSync, Poison, Goto,
         BegunInv, TypeOK, ObjectType, object, history
  <2>15. CASE ArmFailed(p) \/ Armed(p)
    <3>1. attempt[p] \in Attempts
      BY <1>0, <2>15, Zenon DEF ArmFailed, Armed, CallInv, ActionLabels, PrepareLabels
    <3>2. run' = run /\ begun' = begun /\ (st' = st \/ \E s \in {"Failed", "Running"} : SetState(p, s))
      BY <2>15, Zenon DEF ArmFailed, Armed, history
    <3>3. CASE st' = st
      BY <1>0, <3>2, <3>3, Zenon DEF BegunInv
    <3>4. ASSUME NEW s \in {"Failed", "Running"}, SetState(p, s) PROVE BegunInv'
      <4>1. /\ st'[p][attempt[p][2]] = s
            /\ \A a \in Actions : a # attempt[p][2] => st'[p][a] = st[p][a]
            /\ \A q \in Processes : q # p => st'[q] = st[q]
        BY <1>0, <3>1, <3>4, StateChange, Zenon
      <4> QED
        BY <1>0, <3>2, <4>1, Zenon DEF BegunInv
    <3> QED
      BY <3>2, <3>3, <3>4, Zenon
  <2>17. CASE Invoke(p)
    <3>1. attempt[p][1] = run[p] /\ run[p] \in Runs /\ attempt[p] \in Attempts
      BY <1>0, <2>17, Zenon DEF Invoke, CallInv, ActionLabels, DispatchedLabels
    <3>2. st[p][attempt[p][2]] = "Running"
      BY <1>0, <2>17, Zenon DEF Invoke, PhaseInv
    <3>3. ASSUME NEW q \in Processes, NEW a \in Actions, <<run[q], a>> = attempt[p]
          PROVE  q = p /\ a = attempt[p][2]
      BY <1>0, <3>1, <3>3 DEF IdentityInv
    <3> QED
      BY <1>0, <2>17, <3>2, <3>3, Zenon DEF Invoke, BegunInv, object
  <2>18. CASE BackendReturns(p)
    BY <1>0, <2>18, Zenon DEF BackendReturns, BegunInv, TypeOK, ObjectType, object, history
  <2>19. CASE PostProbe(p)
    <3>1. attempt[p] \in Attempts /\ attempt[p][1] = run[p] /\ run[p] \in Runs
      BY <1>0, <2>19, Zenon DEF PostProbe, CallInv, ActionLabels, PrepareLabels, DispatchedLabels,
           ArmLabels
    <3>3. st' = st \/ \E s \in {"Failed", "Verifying", "OutcomeUnknown"} : SetState(p, s)
      BY <1>0, <2>19, Zenon DEF PostProbe, CompletionState
    <3>4. run' = run /\ begun' = begun
      BY <2>19, Zenon DEF PostProbe, history
    <3>5. CASE st' = st
      BY <1>0, <3>4, <3>5 DEF BegunInv
    <3>6. ASSUME NEW s \in {"Failed", "Verifying", "OutcomeUnknown"}, SetState(p, s) PROVE BegunInv'
      BY <1>0, <3>1, <3>4, <3>6, StateChange DEF BegunInv
    <3> QED
      BY <3>3, <3>5, <3>6
  <2>20. CASE Verify(p)
    <3>1. attempt[p] \in Attempts /\ attempt[p][1] = run[p] /\ run[p] \in Runs
      BY <1>0, <2>20, Zenon DEF Verify, CallInv, ActionLabels, PrepareLabels, DispatchedLabels,
           ArmLabels
    <3>3. st' = st \/ \E s \in ({"Verified"} \union Stopped) : SetState(p, s)
      BY Zenon, <1>0, <2>20 DEF Verify
    <3>4. run' = run /\ begun' = begun
      BY <2>20, Zenon DEF Verify, history
    <3>5. CASE st' = st
      BY <1>0, <3>4, <3>5 DEF BegunInv
    <3>6. ASSUME NEW s \in ({"Verified"} \union Stopped), SetState(p, s) PROVE BegunInv'
      BY <1>0, <3>1, <3>4, <3>6, StateChange DEF BegunInv, Stopped
    <3> QED
      BY <3>3, <3>5, <3>6
  <2>21. CASE Bind(p)
    BY <1>0, <2>21, Zenon DEF Bind, ClearBegin, BegunInv, TypeOK, ObjectType, object, history
  <2>22. CASE Clear(p)
    BY <1>0, <2>22, Zenon DEF Clear, ClearUnlink, ClearDirSync, Poison, Goto, BegunInv, TypeOK,
         ObjectType, object, history
  <2>23. CASE Cleared(p)
    BY <1>0, <2>23, Zenon DEF Cleared, BegunInv, TypeOK, ObjectType, object, history
  <2>24. CASE Leave(p)
    BY <1>0, <2>24 DEF Leave, BegunInv, TypeOK, ObjectType, object, history
  <2>25. CASE AckProbe(p)
    BY <1>0, <2>25, Zenon DEF AckProbe, BegunInv, TypeOK, ObjectType, object, history
  <2>26. CASE AckPolicy(p)
    BY <1>0, <2>26, Zenon DEF AckPolicy, ClearBegin, BegunInv, TypeOK, ObjectType, object, history
  <2>27. CASE Crash(p)
    <3>1. \A a \in Actions : <<NoRun, a>> \notin begun
      BY <1>0 DEF TypeOK, WorldType
    <3> QED
      BY <1>0, <2>27, <3>1, Zenon DEF Crash, Die, Forgotten, BegunInv, TypeOK, ObjectType, object,
           history
  <2> QED
    BY <1>1, <2>1, <2>2, <2>3, <2>4, <2>5, <2>6, <2>7, <2>8, <2>9, <2>10, <2>11, <2>12,
         <2>13, <2>14, <2>15, <2>17, <2>18, <2>19, <2>20, <2>21, <2>22, <2>23, <2>24,
         <2>25, <2>26, <2>27 DEF Call, Step
<1>2. ASSUME NEW t \in Attempts, NativeEffect(t) \/ NativeStops(t) PROVE BegunInv'
    BY <1>0, <1>2, Zenon DEF NativeEffect, NativeStops, BegunInv, TypeOK, ObjectType, object,
         history
<1>3. CASE Writeback /\ UNCHANGED <<mode, outcome, seen, object, used, native, history>>
    BY <1>0, <1>3, Zenon DEF Writeback, BegunInv, TypeOK, ObjectType, object, history
<1>4. CASE PowerLoss
  <2>1. \A a \in Actions : <<NoRun, a>> \notin begun
      BY <1>0 DEF TypeOK, WorldType
  <2> QED
    BY <1>0, <1>4, <2>1, Zenon DEF PowerLoss, Die, Forgotten, BegunInv, TypeOK, ObjectType, object,
         history
<1>5. CASE UNCHANGED vars
    BY <1>0, <1>5, Zenon DEF vars, BegunInv, TypeOK, ObjectType, object, history
<1> QED
    BY <1>a, <1>1, <1>2, <1>3, <1>4, <1>5 DEF Next

-----------------------------------------------------------------------------
(* Operations that may still act, and what a process that removes a marker knows of them. *)

(* InflightInv: what may act is begun and not closed. *)
LEMMA InflightStep == IInv /\ [Next]_vars => InflightInv'
<1>a. SUFFICES ASSUME IInv, [Next]_vars PROVE InflightInv'
    OBVIOUS
<1>0. TypeOK /\ MarkerInv /\ PhaseInv /\ InflightInv /\ StoppedInv
    BY <1>a DEF IInv
<1>1. ASSUME NEW p \in Processes, Call(p) \/ Step(p) \/ Crash(p) PROVE InflightInv'
  <2>1. CASE StartRun(p)
    BY <1>0, <2>1 DEF StartRun, InflightInv, Unresolved, native, history
  <2>2. CASE CallRun(p)
    BY <1>0, <2>2, Zenon DEF CallRun, InflightInv, Unresolved, native, history
  <2>3. CASE CallAction(p)
    BY <1>0, <2>3, Zenon DEF CallAction, InflightInv, Unresolved, native, history
  <2>4. CASE ReviewIncident(p)
    BY <1>0, <2>4 DEF ReviewIncident, InflightInv, Unresolved, native, history
  <2>5. CASE DropReview(p)
    BY <1>0, <2>5 DEF DropReview, InflightInv, Unresolved, native, history
  <2>6. CASE AckBegin(p)
    BY <1>0, <2>6, Zenon DEF AckBegin, InflightInv, Unresolved, native, history
  <2>7. CASE RunInspect(p)
    BY <1>0, <2>7 DEF RunInspect, InflightInv, Unresolved, native, history
  <2>8. CASE RunLoop(p)
    BY <1>0, <2>8, Zenon DEF RunLoop, InflightInv, Unresolved, native, history
  <2>9. CASE Goal(p)
    BY <1>0, <2>9, Zenon DEF Goal, InflightInv, Unresolved, native, history
  <2>10. CASE ActionEnter(p)
    BY <1>0, <2>10, Zenon DEF ActionEnter, InflightInv, Unresolved, native, history
  <2>11. CASE ActionInspect(p)
    BY <1>0, <2>11 DEF ActionInspect, InflightInv, Unresolved, native, history
  <2>12. CASE Admission(p)
    BY <1>0, <2>12 DEF Admission, InflightInv, Unresolved, native, history
  <2>13. CASE Capture(p)
    BY <1>0, <2>13 DEF Capture, ArmBegin, InflightInv, Unresolved, native, history
  <2>14. CASE Arm(p)
    BY <1>0, <2>14, Zenon DEF Arm, ArmWrite, ArmSync, ArmPublish, ArmDirSync, Poison, Goto,
         InflightInv, Unresolved, native, history
  <2>15. CASE ArmFailed(p)
    BY <1>0, <2>15 DEF ArmFailed, InflightInv, Unresolved, native, history
  <2>16. CASE Armed(p)
    BY <1>0, <2>16 DEF Armed, InflightInv, Unresolved, native, history
  <2>17. CASE Invoke(p)
    BY <1>0, <2>17, Zenon DEF Invoke, PhaseInv, InflightInv, Unresolved
  <2>18. CASE BackendReturns(p)
    BY <1>0, <2>18, Zenon DEF BackendReturns, InflightInv, Unresolved, native, history
  <2>19. CASE PostProbe(p)
    BY <1>0, <2>19, Zenon DEF PostProbe, InflightInv, Unresolved, native, history
  <2>20. CASE Verify(p)
    BY <1>0, <2>20, Zenon DEF Verify, InflightInv, Unresolved, native, history
  <2>21. CASE Bind(p)
    BY <1>0, <2>21 DEF Bind, ClearBegin, InflightInv, Unresolved, native, history
  <2>22. CASE Clear(p)
    <3>1. CASE ClearUnlink(p, "Leave")
      <4>1. visible = attempt[p] /\ attempt[p] \notin inflight
        BY <1>0, <3>1, Zenon DEF ClearUnlink, MarkerInv, StoppedInv
      <4> QED
        BY <1>0, <2>22, <4>1 DEF Clear, InflightInv, Unresolved, native
    <3>2. CASE ClearDirSync(p, "Cleared", "Leave")
      <4>1. visible' = visible
        BY <3>2 DEF ClearDirSync, Poison, disk
      <4> QED
        BY <1>0, <2>22, <4>1 DEF Clear, InflightInv, Unresolved, native
    <3> QED
      BY <2>22, <3>1, <3>2 DEF Clear
  <2>23. CASE Cleared(p)
    BY <1>0, <2>23, Zenon DEF Cleared, InflightInv, Unresolved, native, history
  <2>24. CASE Leave(p)
    BY <1>0, <2>24 DEF Leave, InflightInv, Unresolved, native, history
  <2>25. CASE AckProbe(p)
    BY <1>0, <2>25, Zenon DEF AckProbe, InflightInv, Unresolved, native, history
  <2>26. CASE AckPolicy(p)
    BY <1>0, <2>26 DEF AckPolicy, ClearBegin, InflightInv, Unresolved, native, history
  <2>27. CASE Crash(p)
    BY <1>0, <2>27, Zenon DEF Crash, Die, Forgotten, InflightInv, Unresolved, native, history
  <2> QED
    BY <1>1, <2>1, <2>2, <2>3, <2>4, <2>5, <2>6, <2>7, <2>8, <2>9, <2>10, <2>11, <2>12,
         <2>13, <2>14, <2>15, <2>16, <2>17, <2>18, <2>19, <2>20, <2>21, <2>22, <2>23, <2>24,
         <2>25, <2>26, <2>27, Zenon DEF Call, Step
<1>2. ASSUME NEW t \in Attempts, NativeEffect(t) \/ NativeStops(t) PROVE InflightInv'
    BY <1>0, <1>2 DEF NativeEffect, NativeStops, InflightInv, Unresolved, native, history
<1>3. CASE Writeback /\ UNCHANGED <<mode, outcome, seen, object, used, native, history>>
    BY <1>0, <1>3 DEF Writeback, InflightInv, Unresolved, native, history
<1>4. CASE PowerLoss
    BY <1>0, <1>4 DEF PowerLoss, InflightInv, history
<1>5. CASE UNCHANGED vars
    BY <1>0, <1>5 DEF vars, InflightInv, Unresolved, native, history
<1> QED
    BY <1>a, <1>1, <1>2, <1>3, <1>4, <1>5, Zenon DEF Next

(* StoppedInv: known to have stopped stays stopped. *)
LEMMA StoppedStep == IInv /\ [Next]_vars => StoppedInv'
<1>a. SUFFICES ASSUME IInv, [Next]_vars PROVE StoppedInv'
    OBVIOUS
<1>0. /\ TypeOK /\ LockInv /\ StoppedInv /\ ApprovedInv
      /\ pc \in [Processes -> Labels]
      /\ attempt \in [Processes -> Attempts \union {NoAttempt}]
      /\ outcome \in [Processes -> BackendOutcome]
    BY <1>a DEF IInv, TypeOK, FrameType, ObjectType
<1>1. ASSUME NEW p \in Processes, Call(p) \/ Step(p) \/ Crash(p) PROVE StoppedInv'
  <2>1. CASE StartRun(p)
    BY <1>0, <2>1, Zenon DEF StartRun, StoppedInv, frame, native
  <2>2. CASE CallRun(p)
    BY <1>0, <2>2, Zenon DEF CallRun, TryLockHost, Goto, StoppedInv, frame,
         native
  <2>3. CASE CallAction(p)
    BY <1>0, <2>3 DEF CallAction, Goto, StoppedInv, frame, native
  <2>4. CASE ReviewIncident(p)
    BY <1>0, <2>4, Zenon DEF ReviewIncident, StoppedInv, frame, native
  <2>5. CASE DropReview(p)
    BY <1>0, <2>5 DEF DropReview, StoppedInv, frame, native
  <2>6. CASE AckBegin(p)
    BY <1>0, <2>6, Zenon DEF AckBegin, TryLockHost, Goto, StoppedInv, frame,
         native
  <2>7. CASE RunInspect(p)
    BY <1>0, <2>7, Zenon DEF RunInspect, Return, Continue, Goto, StoppedInv,
         frame, native
  <2>8. CASE RunLoop(p)
    BY <1>0, <2>8 DEF RunLoop, Return, Continue, Goto, StoppedInv, frame,
         native
  <2>9. CASE Goal(p)
    BY <1>0, <2>9, Zenon DEF Goal, Return, Goto, StoppedInv, frame, native
  <2>10. CASE ActionEnter(p)
    BY <1>0, <2>10, Zenon DEF ActionEnter, Return, Continue, Goto, TryLockHost, StoppedInv, frame, native
  <2>11. CASE ActionInspect(p)
    BY <1>0, <2>11, Zenon DEF ActionInspect, Return, Continue, Goto, StoppedInv,
         frame, native
  <2>12. CASE Admission(p)
    BY <1>0, <2>12, Zenon DEF Admission, Return, Continue, Goto, StoppedInv,
         frame, native
  <2>13. CASE Capture(p)
    BY <1>0, <2>13, Zenon DEF Capture, ArmBegin, Goto, StoppedInv, frame, native
  <2>14. CASE Arm(p)
    BY <1>0, <2>14, Zenon DEF Arm, ArmWrite, ArmSync, ArmPublish, ArmDirSync, Poison, Goto,
         StoppedInv, frame, native
  <2>15. CASE ArmFailed(p)
    BY <1>0, <2>15, Zenon DEF ArmFailed, Return, Goto, StoppedInv, frame, native
  <2>16. CASE Armed(p)
    BY <1>0, <2>16, Zenon DEF Armed, Return, Continue, Goto, StoppedInv, frame,
         native
  <2>17. CASE Invoke(p)
    BY <1>0, <2>17, Zenon DEF Invoke, Continue, Goto, LockInv, HoldsLock, StoppedInv, frame, native
  <2>18. CASE BackendReturns(p)
    BY <1>0, <2>18, Zenon DEF BackendReturns, Goto, StoppedInv, frame, native
  <2>19. CASE PostProbe(p)
    <3>1. pc' = [pc EXCEPT ![p] = "Idle"] \/ (pc' = [pc EXCEPT ![p] = "Verify"] /\ outcome[p] = "Succeeded" /\ attempt' = attempt)
      BY <2>19, Zenon DEF PostProbe, Return, Goto
    <3>2. \A q \in Processes : q # p => attempt'[q] = attempt[q] /\ outcome'[q] = outcome[q]
      BY <1>0, <2>19, Zenon DEF PostProbe, Return
    <3>3. inflight' = inflight /\ pc[p] = "PostProbe"
      BY <2>19, Zenon DEF PostProbe, native
    <3> QED
      BY <1>0, <3>1, <3>2, <3>3, Zenon DEF StoppedInv
  <2>20. CASE Verify(p)
    BY <1>0, <2>20, Zenon DEF Verify, Return, Continue, Goto, StoppedInv, frame,
         native
  <2>21. CASE Bind(p)
    BY <1>0, <2>21, Zenon DEF Bind, ClearBegin, Goto, StoppedInv, frame, native
  <2>22. CASE Clear(p)
    BY <1>0, <2>22, Zenon DEF Clear, ClearUnlink, ClearDirSync, Poison, Goto, StoppedInv, frame, native
  <2>23. CASE Cleared(p)
    BY <1>0, <2>23, Zenon DEF Cleared, Return, Continue, Goto, StoppedInv,
         frame, native
  <2>24. CASE Leave(p)
    BY <1>0, <2>24, Zenon DEF Leave, Return, Goto, StoppedInv, frame, native
  <2>25. CASE AckProbe(p)
    <3>1. pc' = [pc EXCEPT ![p] = "AckPolicy"] \/ pc' = [pc EXCEPT ![p] = "Leave"]
      BY <2>25, Zenon DEF AckProbe, Goto
    <3>2. attempt' = attempt /\ outcome' = outcome /\ inflight' = inflight
      BY <2>25, Zenon DEF AckProbe, native
    <3> QED
      BY <1>0, <3>1, <3>2, Zenon DEF StoppedInv
  <2>26. CASE AckPolicy(p)
    <3>1. \/ /\ pc' = [pc EXCEPT ![p] = "ClearUnlink"] /\ attempt' = [attempt EXCEPT ![p] = @]
             /\ seen[p] = TRUE
          \/ pc' = [pc EXCEPT ![p] = "Leave"] /\ (attempt' = attempt \/ attempt' = [attempt EXCEPT ![p] = @])
      BY <1>0, <2>26, Zenon DEF AckPolicy, ClearBegin, Goto
    <3>2. outcome' = outcome /\ inflight' = inflight /\ pc[p] = "AckPolicy"
      BY <2>26, Zenon DEF AckPolicy, native
    <3> QED
      BY <1>0, <3>1, <3>2, Zenon DEF StoppedInv, ApprovedInv
  <2>27. CASE Crash(p)
    BY <1>0, <2>27, Zenon DEF Crash, Die, Forgotten, StoppedInv, frame, native
  <2> QED
    BY <1>1, <2>1, <2>2, <2>3, <2>4, <2>5, <2>6, <2>7, <2>8, <2>9, <2>10, <2>11, <2>12,
         <2>13, <2>14, <2>15, <2>16, <2>17, <2>18, <2>19, <2>20, <2>21, <2>22, <2>23, <2>24,
         <2>25, <2>26, <2>27, Zenon DEF Call, Step
<1>2. ASSUME NEW t \in Attempts, NativeEffect(t) \/ NativeStops(t) PROVE StoppedInv'
    BY <1>0, <1>2, Zenon DEF NativeEffect, NativeStops, StoppedInv, frame,
         native
<1>3. CASE Writeback /\ UNCHANGED <<mode, outcome, seen, object, used, native, history>>
    BY <1>0, <1>3, Zenon DEF Writeback, StoppedInv, frame, native
<1>4. CASE PowerLoss
    BY <1>0, <1>4, Zenon DEF PowerLoss, Die, Forgotten, StoppedInv, frame,
         native
<1>5. CASE UNCHANGED vars
    BY <1>0, <1>5, Zenon DEF vars, StoppedInv, frame, native
<1> QED
    BY <1>a, <1>1, <1>2, <1>3, <1>4, <1>5 DEF Next

(* ApprovedInv: what the policy approved had stopped. *)
LEMMA ApprovedStep == IInv /\ [Next]_vars => ApprovedInv'
<1>a. SUFFICES ASSUME IInv, [Next]_vars PROVE ApprovedInv'
    OBVIOUS
<1>0. /\ TypeOK /\ LockInv /\ ApprovedInv
      /\ pc \in [Processes -> Labels]
      /\ attempt \in [Processes -> Attempts \union {NoAttempt}]
      /\ seen \in [Processes -> BOOLEAN]
    BY <1>a DEF IInv, TypeOK, FrameType, ObjectType
<1>1. ASSUME NEW p \in Processes, Call(p) \/ Step(p) \/ Crash(p) PROVE ApprovedInv'
  <2>1. CASE StartRun(p)
    BY <1>0, <2>1, Zenon DEF StartRun, ApprovedInv, frame, native
  <2>2. CASE CallRun(p)
    BY <1>0, <2>2, Zenon DEF CallRun, TryLockHost, Goto, ApprovedInv, frame,
         native
  <2>3. CASE CallAction(p)
    BY <1>0, <2>3, Zenon DEF CallAction, Goto, ApprovedInv, frame, native
  <2>4. CASE ReviewIncident(p)
    BY <1>0, <2>4, Zenon DEF ReviewIncident, ApprovedInv, frame, native
  <2>5. CASE DropReview(p)
    BY <1>0, <2>5, Zenon DEF DropReview, ApprovedInv, frame, native
  <2>6. CASE AckBegin(p)
    BY <1>0, <2>6, Zenon DEF AckBegin, TryLockHost, Goto, ApprovedInv, frame,
         native
  <2>7. CASE RunInspect(p)
    BY <1>0, <2>7, Zenon DEF RunInspect, Return, Continue, Goto, ApprovedInv,
         frame, native
  <2>8. CASE RunLoop(p)
    BY <1>0, <2>8, Zenon DEF RunLoop, Return, Continue, Goto, ApprovedInv,
         frame, native
  <2>9. CASE Goal(p)
    BY <1>0, <2>9, Zenon DEF Goal, Return, Goto, ApprovedInv, frame, native
  <2>10. CASE ActionEnter(p)
    BY <1>0, <2>10, Zenon DEF ActionEnter, Return, Continue, Goto, TryLockHost, ApprovedInv, frame, native
  <2>11. CASE ActionInspect(p)
    BY <1>0, <2>11, Zenon DEF ActionInspect, Return, Continue, Goto, ApprovedInv, frame, native
  <2>12. CASE Admission(p)
    BY <1>0, <2>12, Zenon DEF Admission, Return, Continue, Goto, ApprovedInv,
         frame, native
  <2>13. CASE Capture(p)
    BY <1>0, <2>13, Zenon DEF Capture, ArmBegin, Goto, ApprovedInv, frame,
         native
  <2>14. CASE Arm(p)
    BY <1>0, <2>14, Zenon DEF Arm, ArmWrite, ArmSync, ArmPublish, ArmDirSync, Poison, Goto,
         ApprovedInv, frame, native
  <2>15. CASE ArmFailed(p)
    BY <1>0, <2>15, Zenon DEF ArmFailed, Return, Goto, ApprovedInv, frame,
         native
  <2>16. CASE Armed(p)
    BY <1>0, <2>16, Zenon DEF Armed, Return, Continue, Goto, ApprovedInv, frame,
         native
  <2>17. CASE Invoke(p)
    BY <1>0, <2>17, Zenon DEF Invoke, Continue, Goto, LockInv, HoldsLock, ApprovedInv, frame, native
  <2>18. CASE BackendReturns(p)
    BY <1>0, <2>18, Zenon DEF BackendReturns, Goto, ApprovedInv, frame, native
  <2>19. CASE PostProbe(p)
    <3>1. pc' = [pc EXCEPT ![p] = "Idle"] \/ pc' = [pc EXCEPT ![p] = "Verify"]
      BY <2>19, Zenon DEF PostProbe, Return, Goto
    <3>2. \A q \in Processes : q # p => attempt'[q] = attempt[q] /\ seen'[q] = seen[q]
      BY <1>0, <2>19, Zenon DEF PostProbe, Return
    <3>3. inflight' = inflight
      BY <2>19, Zenon DEF PostProbe, native
    <3> QED
      BY <1>0, <3>1, <3>2, <3>3, Zenon DEF ApprovedInv
  <2>20. CASE Verify(p)
    BY <1>0, <2>20, Zenon DEF Verify, Return, Continue, Goto, ApprovedInv,
         frame, native
  <2>21. CASE Bind(p)
    BY <1>0, <2>21, Zenon DEF Bind, ClearBegin, Goto, ApprovedInv, frame, native
  <2>22. CASE Clear(p)
    BY <1>0, <2>22, Zenon DEF Clear, ClearUnlink, ClearDirSync, Poison, Goto, ApprovedInv, frame, native
  <2>23. CASE Cleared(p)
    BY <1>0, <2>23, Zenon DEF Cleared, Return, Continue, Goto, ApprovedInv,
         frame, native
  <2>24. CASE Leave(p)
    BY <1>0, <2>24, Zenon DEF Leave, Return, Goto, ApprovedInv, frame, native
  <2>25. CASE AckProbe(p)
    <3>1. pc' = [pc EXCEPT ![p] = "AckPolicy"] \/ pc' = [pc EXCEPT ![p] = "Leave"]
      BY <2>25 DEF AckProbe, Goto
    <3>2. attempt' = attempt /\ inflight' = inflight
      BY <2>25, Zenon DEF AckProbe, native
    <3>3. \A q \in Processes : q # p => seen'[q] = seen[q]
      BY <1>0, <2>25, Zenon DEF AckProbe
    <3>4. seen'[p] = TRUE => attempt[p] \notin inflight
      BY Zenon, <1>0, <2>25 DEF AckProbe
    <3> QED
      BY <1>0, <3>1, <3>2, <3>3, <3>4, Zenon DEF ApprovedInv
  <2>26. CASE AckPolicy(p)
    BY <1>0, <2>26, Zenon DEF AckPolicy, ClearBegin, Goto, ApprovedInv, frame,
         native
  <2>27. CASE Crash(p)
    BY <1>0, <2>27, Zenon DEF Crash, Die, Forgotten, ApprovedInv, frame, native
  <2> QED
    BY <1>1, <2>1, <2>2, <2>3, <2>4, <2>5, <2>6, <2>7, <2>8, <2>9, <2>10, <2>11, <2>12,
         <2>13, <2>14, <2>15, <2>16, <2>17, <2>18, <2>19, <2>20, <2>21, <2>22, <2>23, <2>24,
         <2>25, <2>26, <2>27 DEF Call, Step
<1>2. ASSUME NEW t \in Attempts, NativeEffect(t) \/ NativeStops(t) PROVE ApprovedInv'
    BY <1>0, <1>2, Zenon DEF NativeEffect, NativeStops, ApprovedInv, frame,
         native
<1>3. CASE Writeback /\ UNCHANGED <<mode, outcome, seen, object, used, native, history>>
    BY <1>0, <1>3, Zenon DEF Writeback, ApprovedInv, frame, native
<1>4. CASE PowerLoss
    BY <1>0, <1>4, Zenon DEF PowerLoss, Die, Forgotten, ApprovedInv, frame,
         native
<1>5. CASE UNCHANGED vars
    BY <1>0, <1>5, Zenon DEF vars, ApprovedInv, frame, native
<1> QED
    BY <1>a, <1>1, <1>2, <1>3, <1>4, <1>5 DEF Next

-----------------------------------------------------------------------------
(* The initial states satisfy the inductive invariant. *)
LEMMA InitIInv == Init => IInv
<1> SUFFICES ASSUME Init PROVE IInv
    OBVIOUS
<1> USE DEF Init, StoreInit, MutexInit
<1>1. TypeOK
  <2>1. WorldType
    BY Zenon DEF WorldType, Entries
  <2>2. FrameType
    BY Zenon DEF FrameType, Labels, BackendOutcome
  <2>3. ObjectType
    BY Zenon DEF ObjectType, Waiting, ActionRunState
  <2> QED
    BY <2>1, <2>2, <2>3, Zenon DEF TypeOK
<1>2. LockInv /\ MarkerInv /\ PhaseInv /\ StoppedInv /\ ApprovedInv
    BY Zenon DEF LockInv, HoldsLock, MarkerInv, PhaseInv, StoppedInv, ApprovedInv, DispatchedLabels,
           PrepareLabels, ArmLabels
<1>3. CallInv
    BY Zenon DEF CallInv, RunLabels, ActionLabels, PrepareLabels, DispatchedLabels, ExitLabels,
           AckLabels, ArmLabels, ClearLabels
<1>4. IdentityInv /\ BegunInv /\ InflightInv /\ UnresolvedIsMarked
    BY Zenon DEF IdentityInv, BegunInv, InflightInv, UnresolvedIsMarked, Unresolved
<1> QED
    BY <1>1, <1>2, <1>3, <1>4, Zenon DEF IInv

(* IInv holds in every reachable state, whatever the processes, runs and actions. *)
THEOREM Invariance == Spec => []IInv
<1>1. Init => IInv
    BY InitIInv
<1>2. IInv /\ [Next]_vars => IInv'
    BY TypeStep, LockStep, CallStep, MarkerStep, IdentityStep, PhaseStep, BegunStep,
       InflightStep, StoppedStep, ApprovedStep, UnresolvedStep, Zenon DEF IInv
<1> QED
    BY <1>1, <1>2, PTL DEF Spec

(* Every variable of the coordinators and of their store keeps its type. *)
THEOREM TypeCorrect == Spec => []TypeOK
<1>1. IInv => TypeOK
    BY DEF IInv
<1> QED
    BY <1>1, Invariance, PTL

(***************************************************************************)
(* The purpose of the checkpoint: at every moment, an attempt whose        *)
(* backend was invoked and that was not resolved is named by the marker on *)
(* disk, for any number of processes that crash or lose power at any step. *)
(***************************************************************************)
THEOREM AlwaysMarked == Spec => []UnresolvedIsMarked
<1>1. IInv => UnresolvedIsMarked
    BY DEF IInv
<1> QED
    BY <1>1, Invariance, PTL

(***************************************************************************)
(* The lock and the marker together exclude: a native operation that may   *)
(* still act belongs to the one unresolved attempt of the host.            *)
(***************************************************************************)
THEOREM Exclusion == Spec => []NativeExclusion
<1>1. IInv => NativeExclusion
    BY DEF IInv, InflightInv, UnresolvedIsMarked, NativeExclusion
<1> QED
    BY <1>1, Invariance, PTL

(* Only Invoke adds to the operations that may act. *)
LEMMA InvokeStep ==
    ASSUME TypeOK, Next, NEW t \in inflight' \ inflight
    PROVE  \E p \in Processes : Invoke(p) /\ t = attempt[p]
<1>1. ASSUME NEW p \in Processes, Call(p) \/ Step(p) \/ Crash(p)
      PROVE  Invoke(p) \/ inflight' \subseteq inflight
  <2>1. Call(p) => inflight' = inflight
    BY Zenon DEF Call, StartRun, CallRun, CallAction, ReviewIncident, DropReview, AckBegin, native
  <2>2. Crash(p) => inflight' = inflight
    BY DEF Crash, native
  <2>3. Step(p) => Invoke(p) \/ inflight' \subseteq inflight
    <3>1. RunInspect(p) \/ RunLoop(p) \/ Goal(p) \/ ActionEnter(p) \/ ActionInspect(p)
            \/ Admission(p) => inflight' = inflight
      BY Zenon DEF RunInspect, RunLoop, Goal, ActionEnter, ActionInspect, Admission, native
    <3>2. Capture(p) \/ Arm(p) \/ ArmFailed(p) \/ Armed(p) \/ PostProbe(p) \/ Verify(p)
            => inflight' = inflight
      BY Zenon DEF Capture, Arm, ArmFailed, Armed, PostProbe, Verify, native
    <3>3. Bind(p) \/ Clear(p) \/ Cleared(p) \/ Leave(p) \/ AckProbe(p) \/ AckPolicy(p)
            => inflight' = inflight
      BY Zenon DEF Bind, Clear, Cleared, Leave, AckProbe, AckPolicy, native
    <3>4. BackendReturns(p) => inflight' \subseteq inflight
      BY Zenon DEF BackendReturns
    <3> QED
      BY <3>1, <3>2, <3>3, <3>4, Zenon DEF Step
  <2> QED
    BY <1>1, <2>1, <2>2, <2>3
<1>2. ASSUME NEW u \in Attempts, NativeEffect(u) \/ NativeStops(u)
      PROVE  inflight' \subseteq inflight
    BY <1>2 DEF NativeEffect, NativeStops
<1>3. ASSUME Writeback /\ UNCHANGED <<mode, outcome, seen, object, used, native, history>>
      PROVE  inflight' = inflight
    BY <1>3 DEF native
<1>4. ASSUME PowerLoss PROVE inflight' \subseteq inflight
    BY <1>4 DEF PowerLoss
<1>5. PICK p \in Processes : Invoke(p)
    BY <1>1, <1>2, <1>3, <1>4, Zenon DEF Next
<1> QED
    BY <1>5, Zenon DEF Invoke

(***************************************************************************)
(* No retry: a backend is never invoked for an attempt that was invoked    *)
(* before, whatever calls, crashes and power losses happen in between.     *)
(***************************************************************************)
THEOREM AtMostOnce == Spec => InvokedAtMostOnce
<1>1. IInv /\ [Next]_vars => [\A t \in inflight' \ inflight : t \notin begun]_vars
  <2> SUFFICES ASSUME IInv, Next, NEW t \in inflight' \ inflight PROVE t \notin begun
      OBVIOUS
  <2>1. PICK p \in Processes : Invoke(p) /\ t = attempt[p]
      BY InvokeStep DEF IInv
  <2> QED
      BY <2>1, Zenon DEF IInv, PhaseInv, Invoke
<1> QED
    BY <1>1, Invariance, PTL DEF Spec, InvokedAtMostOnce

(* Only Invoke and Clear write the history of invoked and of resolved attempts. *)
LEMMA HistoryStep ==
    ASSUME Next
    PROVE  (\E p \in Processes : Invoke(p) \/ Clear(p)) \/ UNCHANGED history
<1>1. ASSUME NEW p \in Processes, Call(p) \/ Step(p) \/ Crash(p)
      PROVE  Invoke(p) \/ Clear(p) \/ UNCHANGED history
  <2>1. Call(p) => UNCHANGED history
    BY Zenon DEF Call, StartRun, CallRun, CallAction, ReviewIncident, DropReview, AckBegin
  <2>2. Crash(p) => UNCHANGED history
    BY DEF Crash
  <2>3. Step(p) => Invoke(p) \/ Clear(p) \/ UNCHANGED history
    <3>1. RunInspect(p) \/ RunLoop(p) \/ Goal(p) \/ ActionEnter(p) \/ ActionInspect(p)
            \/ Admission(p) => UNCHANGED history
      BY Zenon DEF RunInspect, RunLoop, Goal, ActionEnter, ActionInspect, Admission
    <3>2. Capture(p) \/ Arm(p) \/ ArmFailed(p) \/ Armed(p) \/ BackendReturns(p)
            \/ PostProbe(p) \/ Verify(p) => UNCHANGED history
      BY Zenon DEF Capture, Arm, ArmFailed, Armed, BackendReturns, PostProbe, Verify
    <3>3. Bind(p) \/ Cleared(p) \/ Leave(p) \/ AckProbe(p) \/ AckPolicy(p)
            => UNCHANGED history
      BY Zenon DEF Bind, Cleared, Leave, AckProbe, AckPolicy
    <3> QED
      BY <3>1, <3>2, <3>3, Zenon DEF Step
  <2> QED
    BY <1>1, <2>1, <2>2, <2>3
<1>2. ASSUME NEW u \in Attempts, NativeEffect(u) \/ NativeStops(u) PROVE UNCHANGED history
    BY <1>2 DEF NativeEffect, NativeStops
<1>3. PowerLoss => UNCHANGED history
    BY DEF PowerLoss
<1> QED
    BY <1>1, <1>2, <1>3, Zenon DEF Next

(* The refinement mapping: the marker makes the unresolved attempt unique. *)
LEMMA OpenIs ==
    ASSUME TypeOK, UnresolvedIsMarked
    PROVE  /\ Unresolved = {} => OpenAttempt = NoAttempt
           /\ \A t \in Unresolved : Unresolved = {t} /\ OpenAttempt = t
<1>1. Unresolved \subseteq Attempts
    BY DEF Unresolved, TypeOK, WorldType
<1>2. ASSUME NEW t \in Unresolved PROVE Unresolved = {t}
    BY <1>2 DEF UnresolvedIsMarked
<1>3. ASSUME NEW t \in Unresolved PROVE OpenAttempt = t
  <2>1. OpenAttempt = CHOOSE u \in Attempts : u \in Unresolved
    BY <1>3 DEF OpenAttempt
  <2>2. OpenAttempt \in Unresolved
    BY <1>1, <1>3, <2>1
  <2> QED
    BY <1>2, <1>3, <2>2
<1> QED
    BY <1>2, <1>3 DEF OpenAttempt

(***************************************************************************)
(* All coordinators together are a ledger of attempts: one is begun only   *)
(* when none is unresolved, never twice, and stays open until resolved.    *)
(***************************************************************************)
THEOREM LedgerRefinement == Spec => ImplementsLedger
<1>1. Init => Ledger!LedgerInit
    BY Zenon DEF Init, Ledger!LedgerInit, OpenAttempt, Unresolved
<1>2. ASSUME IInv, IInv', [Next]_vars
      PROVE  [Ledger!LedgerNext]_<<OpenAttempt, closed>>
  <2>0. TypeOK /\ UnresolvedIsMarked /\ TypeOK' /\ UnresolvedIsMarked'
    BY <1>2 DEF IInv
  <2>1. closed \subseteq begun
    BY <1>2, Zenon DEF IInv, InflightInv
  <2>2. /\ Unresolved' = {} => OpenAttempt' = NoAttempt
        /\ \A t \in Unresolved' : Unresolved' = {t} /\ OpenAttempt' = t
    <3>1. (TypeOK /\ UnresolvedIsMarked =>
             /\ Unresolved = {} => OpenAttempt = NoAttempt
             /\ \A t \in Unresolved : Unresolved = {t} /\ OpenAttempt = t)'
      BY OpenIs, PTL
    <3> QED
      BY <2>0, <3>1, Zenon
  <2>3. CASE UNCHANGED history
    BY <2>3 DEF history, OpenAttempt, Unresolved
  <2>4. ASSUME NEW p \in Processes, Invoke(p) PROVE Ledger!LedgerNext
    <3>1. attempt[p] \in Attempts
      BY <1>2, <2>4, Zenon DEF IInv, CallInv, Invoke, ActionLabels, DispatchedLabels
    <3>2. attempt[p] \notin begun
      BY <1>2, <2>4, Zenon DEF IInv, PhaseInv, Invoke
    <3>3. attempt[p] \in Unresolved' /\ Unresolved \subseteq Unresolved' /\ closed' = closed
      BY <2>1, <2>4, <3>2, Zenon DEF Invoke, Unresolved
    <3>4. Unresolved = {}
      BY <2>2, <3>2, <3>3 DEF Unresolved
    <3>5. OpenAttempt = NoAttempt /\ OpenAttempt' = attempt[p]
      BY <2>0, <2>2, <3>3, <3>4, OpenIs
    <3> QED
      BY <2>1, <3>1, <3>2, <3>3, <3>5, Zenon DEF Ledger!LedgerNext, Ledger!Begin
  <2>5. ASSUME NEW p \in Processes, Clear(p) PROVE [Ledger!LedgerNext]_<<OpenAttempt, closed>>
    <3>1. begun' = begun
      BY <2>5 DEF Clear
    <3>2. CASE closed' = closed
      BY <3>1, <3>2 DEF OpenAttempt, Unresolved
    <3>3. CASE closed' # closed
      <4>1. visible \in Unresolved /\ closed' = closed \union {visible}
        BY <2>5, <3>3, Zenon DEF Clear, Unresolved
      <4>2. OpenAttempt = visible /\ Unresolved = {visible} /\ visible \in Attempts
        BY <2>0, <4>1, OpenIs, Zenon DEF TypeOK, WorldType, Unresolved
      <4>3. Unresolved' = {}
        BY <3>1, <4>1, <4>2 DEF Unresolved
      <4>4. OpenAttempt' = NoAttempt
        BY <2>2, <4>3
      <4> QED
        BY <4>1, <4>2, <4>4, AttemptAssumption, Zenon DEF Ledger!LedgerNext, Ledger!Resolve
    <3> QED
      BY <3>2, <3>3
  <2>6. CASE UNCHANGED vars
    BY <2>3, <2>6 DEF vars, history
  <2> QED
    BY <1>2, <2>3, <2>4, <2>5, <2>6, HistoryStep, Zenon
<1> QED
    BY <1>1, <1>2, Invariance, PTL DEF Spec, ImplementsLedger, Ledger!LedgerSpec

-----------------------------------------------------------------------------
(***************************************************************************)
(* The claims of a coordinator need more than IInv: what the process knows *)
(* of the attempt in hand, the order of the verified actions, the stop     *)
(* latch as a promise about verified actions whose marker is still there,  *)
(* and that nothing acts while an acknowledgment is under way. OInv        *)
(* collects these facts, one process at a time: a step is a step of one    *)
(* process, which leaves the memory of the others alone (OthersKeep), and  *)
(* the shared histories only grow (HistoriesGrow).                         *)
(***************************************************************************)
UnlatchedLabels == RunLabels \union {"ActionInspect", "Admission"} \union PrepareLabels
RemovalLabels == {"Bind", "Cleared"} \union ClearLabels

(* The attempt in hand from its invocation to the removal of its marker. *)
WorkInv(p) ==
    /\ pc[p] \in {"Backend", "PostProbe"} =>
         st[p][attempt[p][2]] = "Running" /\ attempt[p] \in begun
    /\ pc[p] = "Verify" =>
         /\ st[p][attempt[p][2]] = "Verifying"
         /\ attempt[p] \in begun
         /\ seen[p] = TRUE => attempt[p] \in effects
    /\ pc[p] \in RemovalLabels /\ mode[p] # "ack" =>
         /\ attempt[p][1] = run[p]
         /\ st[p][attempt[p][2]] = "Verified"
         /\ attempt[p] \in begun

(* Actions leave Waiting in the plan's order, and are Verified for a reason. *)
OrderInv(p) ==
    \A a \in Actions :
        /\ st[p][a] # "Waiting" => PredecessorsVerified(st[p], a)
        /\ st[p][a] = "Verified" => <<run[p], a>> \in effects

(* A call that has dispatched its attempt and has not yet returned. *)
Dispatching(p) == pc[p] \in DispatchedLabels \union ExitLabels /\ mode[p] # "ack"

(* The stop latch is set while a verified action may still be marked. *)
LatchInv(p) ==
    /\ HoldsLock(p) /\ pc[p] \in UnlatchedLabels \union {"ActionEnter"} => halted[p] = FALSE
    /\ Dispatching(p) => halted[p] = TRUE
    /\ \A a \in Actions :
         st[p][a] = "Verified" /\ <<run[p], a>> \notin closed =>
            /\ halted[p] = TRUE
            /\ Dispatching(p) => a = attempt[p][2] /\ pc[p] \in {"Bind", "ClearUnlink", "Leave"}
    /\ goal[p] = TRUE => halted[p] = FALSE /\ AllVerified(st[p])

(* An open latch means that no verified action of the run is on disk. *)
CleanInv(p) ==
    /\ pc[p] \in {"ClearDirSync", "Cleared"} => visible = NoAttempt
    /\ pc[p] = "Cleared" => durable = NoAttempt
    /\ \A e \in {visible, durable} \intersect Attempts :
         e[1] = run[p] /\ halted[p] = FALSE => st[p][e[2]] # "Verified"

(* An approved acknowledgment is for the state that its review showed. *)
ReviewInv(p) ==
    /\ pc[p] \in AckLabels => visible = attempt[p]
    /\ (\/ pc[p] = "AckPolicy" /\ seen[p] = TRUE
        \/ pc[p] = "ClearUnlink" /\ mode[p] = "ack") =>
         /\ review[p] # NoReview
         /\ review[p].attempt = attempt[p]
         /\ review[p].seen = effects

OInv ==
    \A p \in Processes :
        WorkInv(p) /\ OrderInv(p) /\ LatchInv(p) /\ CleanInv(p) /\ ReviewInv(p)

-----------------------------------------------------------------------------
(* A step of one process leaves the memory of every other process alone. *)
LEMMA OthersKeep ==
    ASSUME TypeOK, NEW p \in Processes, Call(p) \/ Step(p) \/ Crash(p),
           NEW q \in Processes, q # p
    PROVE  /\ pc'[q] = pc[q] /\ attempt'[q] = attempt[q] /\ mode'[q] = mode[q]
           /\ seen'[q] = seen[q] /\ run'[q] = run[q] /\ st'[q] = st[q]
           /\ halted'[q] = halted[q] /\ goal'[q] = goal[q] /\ review'[q] = review[q]
<1> DEFINE Kept == /\ pc'[q] = pc[q] /\ attempt'[q] = attempt[q] /\ mode'[q] = mode[q]
                   /\ seen'[q] = seen[q] /\ run'[q] = run[q] /\ st'[q] = st[q]
                   /\ halted'[q] = halted[q] /\ goal'[q] = goal[q] /\ review'[q] = review[q]
<1> USE DEF TypeOK, FrameType, ObjectType, Goto, frame, object
<1>1. Return(p) => /\ pc'[q] = pc[q] /\ attempt'[q] = attempt[q] /\ mode'[q] = mode[q]
                   /\ seen'[q] = seen[q]
    BY DEF Return
<1>2. \A l : Continue(p, l) => /\ pc'[q] = pc[q] /\ attempt'[q] = attempt[q]
                               /\ mode'[q] = mode[q] /\ seen'[q] = seen[q]
    BY DEF Continue
<1>3. \A s : SetState(p, s) => st'[q] = st[q]
    BY DEF SetState
<1>4. StartRun(p) \/ CallRun(p) \/ CallAction(p) => Kept
    BY DEF StartRun, CallRun, CallAction
<1>5. ReviewIncident(p) \/ DropReview(p) \/ AckBegin(p) => Kept
    BY Zenon DEF ReviewIncident, DropReview, AckBegin
<1>6. RunInspect(p) \/ RunLoop(p) \/ Goal(p) \/ ActionInspect(p) => Kept
    BY <1>1, <1>2, Zenon DEF RunInspect, RunLoop, Goal, ActionInspect
<1>7. ActionEnter(p) \/ Admission(p) \/ ArmFailed(p) \/ Armed(p) => Kept
    BY <1>1, <1>2, <1>3, Zenon DEF ActionEnter, Admission, ArmFailed, Armed
<1>8. Capture(p) \/ Arm(p) => Kept
    BY Zenon DEF Capture, ArmBegin, Arm, ArmWrite, ArmSync, ArmPublish, ArmDirSync, Poison
<1>9. Invoke(p) \/ BackendReturns(p) \/ PostProbe(p) \/ Verify(p) => Kept
    BY <1>1, <1>2, <1>3, Zenon DEF Invoke, BackendReturns, PostProbe, Verify
<1>10. Bind(p) \/ Clear(p) \/ AckProbe(p) \/ AckPolicy(p) => Kept
    BY Zenon DEF Bind, ClearBegin, Clear, ClearUnlink, ClearDirSync, Poison, AckProbe, AckPolicy
<1>11. Cleared(p) \/ Leave(p) => Kept
    BY <1>1, <1>2, Zenon DEF Cleared, Leave, ConsumeReview
<1>12. Crash(p) => Kept
    BY DEF Crash, Die, Forgotten
<1> QED
    BY <1>4, <1>5, <1>6, <1>7, <1>8, <1>9, <1>10, <1>11, <1>12, Zenon DEF Call, Step

(* What has happened on the host changes by native operations only. *)
LEMMA ProcessKeepsEffects ==
    ASSUME NEW p \in Processes, Call(p) \/ Step(p) \/ Crash(p)
    PROVE  effects' = effects
<1>1. Call(p) \/ Crash(p) => effects' = effects
    BY Zenon DEF Call, StartRun, CallRun, CallAction, ReviewIncident, DropReview, AckBegin, Crash,
           native
<1>2. RunInspect(p) \/ RunLoop(p) \/ Goal(p) \/ ActionEnter(p) \/ ActionInspect(p)
        \/ Admission(p) \/ Capture(p) \/ Arm(p) \/ ArmFailed(p) \/ Armed(p)
        => effects' = effects
    BY Zenon DEF RunInspect, RunLoop, Goal, ActionEnter, ActionInspect, Admission, Capture, Arm,
           ArmFailed, Armed, native
<1>3. Invoke(p) \/ BackendReturns(p) \/ PostProbe(p) \/ Verify(p) \/ Bind(p) \/ Clear(p)
        \/ Cleared(p) \/ Leave(p) \/ AckProbe(p) \/ AckPolicy(p) => effects' = effects
    BY Zenon DEF Invoke, BackendReturns, PostProbe, Verify, Bind, Clear, Cleared, Leave, AckProbe,
           AckPolicy, native
<1> QED
    BY <1>1, <1>2, <1>3 DEF Step

(* The sets of invoked, of resolved and of effective attempts only grow. *)
LEMMA HistoriesGrow ==
    ASSUME [Next]_vars
    PROVE  begun \subseteq begun' /\ closed \subseteq closed' /\ effects \subseteq effects'
<1>1. begun \subseteq begun' /\ closed \subseteq closed'
    BY HistoryStep, Zenon DEF Invoke, Clear, history, vars
<1>2. effects \subseteq effects'
    BY ProcessKeepsEffects DEF Next, NativeEffect, NativeStops, PowerLoss, native, vars
<1> QED
    BY <1>1, <1>2

(* A process changes the marker only at its own control points under the lock. *)
LEMMA DiskStep ==
    ASSUME TypeOK, NEW p \in Processes, Call(p) \/ Step(p) \/ Crash(p)
    PROVE  /\ \/ visible' = visible /\ durable' = durable
              \/ HoldsLock(p) /\ pc[p] \in ArmLabels \union ClearLabels
           /\ \/ visible' \in {visible, NoAttempt}
              \/ pc[p] = "ArmPublish" /\ visible' = attempt[p]
           /\ durable' \in {durable, visible}
<1>1. Call(p) \/ Crash(p) => visible' = visible /\ durable' = durable
    BY Zenon DEF Call, StartRun, CallRun, CallAction, ReviewIncident, DropReview, AckBegin, Crash, disk
<1>2. RunInspect(p) \/ RunLoop(p) \/ Goal(p) \/ ActionEnter(p) \/ ActionInspect(p)
        \/ Admission(p) \/ Capture(p) \/ ArmFailed(p) \/ Armed(p) \/ Invoke(p)
        => visible' = visible /\ durable' = durable
    BY Zenon DEF RunInspect, RunLoop, Goal, ActionEnter, ActionInspect, Admission, Capture, ArmBegin,
           ArmFailed, Armed, Invoke, disk
<1>3. BackendReturns(p) \/ PostProbe(p) \/ Verify(p) \/ Bind(p) \/ Cleared(p) \/ Leave(p)
        \/ AckProbe(p) \/ AckPolicy(p) => visible' = visible /\ durable' = durable
    BY Zenon DEF BackendReturns, PostProbe, Verify, Bind, ClearBegin, Cleared, Leave, AckProbe,
           AckPolicy, disk
<1>4. CASE Arm(p)
    BY <1>4, Zenon DEF Arm, ArmWrite, ArmSync, ArmPublish, ArmDirSync, Poison, disk, HoldsLock,
           ArmLabels
<1>5. CASE Clear(p)
    BY <1>5, Zenon DEF Clear, ClearUnlink, ClearDirSync, Poison, disk, HoldsLock, ClearLabels
<1> QED
    BY <1>1, <1>2, <1>3, <1>4, <1>5, Zenon DEF Step

-----------------------------------------------------------------------------
(* The control flow of a call, read backwards: which operation leads to a control point. *)
Arrivals(p) ==
    /\ pc'[p] \in RunLabels => CallRun(p) \/ RunInspect(p) \/ RunLoop(p) \/ Cleared(p)
    /\ pc'[p] = "ActionEnter" => CallAction(p) \/ RunLoop(p)
    /\ pc'[p] \in {"ActionInspect", "Admission"} => ActionEnter(p) \/ ActionInspect(p)
    /\ pc'[p] \in PrepareLabels => Admission(p) \/ Capture(p) \/ Arm(p)
    /\ pc'[p] = "Invoke" => Armed(p)
    /\ pc'[p] = "Backend" => Invoke(p)
    /\ pc'[p] = "PostProbe" => BackendReturns(p)
    /\ pc'[p] = "Verify" => PostProbe(p)
    /\ pc'[p] = "Bind" => Verify(p)
    /\ pc'[p] = "ClearUnlink" => Bind(p) \/ AckPolicy(p)
    /\ pc'[p] \in {"ClearDirSync", "Cleared"} => Clear(p)
    /\ pc'[p] = "Leave" => Bind(p) \/ Clear(p) \/ AckProbe(p) \/ AckPolicy(p)
    /\ pc'[p] = "AckProbe" => AckBegin(p)
    /\ pc'[p] = "AckPolicy" => AckProbe(p)

LEMMA ControlFlow ==
    ASSUME NEW p \in Processes
    PROVE  TypeOK /\ (Call(p) \/ Step(p) \/ Crash(p)) => Arrivals(p)
<1>0. SUFFICES ASSUME TypeOK, Call(p) \/ Step(p) \/ Crash(p) PROVE Arrivals(p)
    OBVIOUS
<1>1. \A l : Goto(p, l) => pc'[p] = l
    BY <1>0 DEF TypeOK, FrameType, Goto
<1>2. Return(p) => pc'[p] = "Idle"
    BY <1>1 DEF Return
<1>3. \A l : Continue(p, l) => pc'[p] = l
    BY <1>1 DEF Continue
<1> USE DEF Arrivals, RunLabels, PrepareLabels, ArmLabels
<1>4. pc'[p] = "Idle" => Arrivals(p)
    OBVIOUS
<1>5. StartRun(p) \/ ReviewIncident(p) \/ DropReview(p) => pc'[p] = "Idle"
    BY DEF StartRun, ReviewIncident, DropReview
<1>30. Crash(p) => pc'[p] = "Idle"
    BY Zenon DEF Crash, Die, Forgotten
<1>6. CallRun(p) => pc'[p] = "RunInspect"
    BY <1>1 DEF CallRun
<1>7. CallAction(p) => pc'[p] = "ActionEnter"
    BY <1>1 DEF CallAction
<1>8. AckBegin(p) => pc'[p] = "AckProbe"
    BY <1>1 DEF AckBegin
<1>9. RunInspect(p) => pc'[p] \in {"RunLoop", "Idle"}
    BY <1>2, <1>3 DEF RunInspect
<1>10. RunLoop(p) => pc'[p] \in {"Goal", "ActionEnter", "Idle"}
    BY <1>1, <1>2, <1>3, Zenon DEF RunLoop
<1>11. Goal(p) \/ ArmFailed(p) \/ Leave(p) => pc'[p] = "Idle"
    BY <1>2, Zenon DEF Goal, ArmFailed, Leave
<1>12. ActionEnter(p) => pc'[p] \in {"ActionInspect", "Idle"}
    BY <1>1, <1>2, <1>3, Zenon DEF ActionEnter
<1>13. ActionInspect(p) => pc'[p] \in {"Admission", "Idle"}
    BY <1>2, <1>3, Zenon DEF ActionInspect
<1>14. Admission(p) => pc'[p] \in {"Capture", "Idle"}
    BY <1>2, <1>3, Zenon DEF Admission
<1>15. Capture(p) => pc'[p] \in {"ArmWrite", "ArmFailed"}
    BY <1>1 DEF Capture, ArmBegin
<1>16. Arm(p) => pc'[p] \in PrepareLabels
    BY <1>1, Zenon DEF Arm, ArmWrite, ArmSync, ArmPublish, ArmDirSync, Poison
<1>17. Armed(p) => pc'[p] \in {"Invoke", "Idle"}
    BY <1>2, <1>3, Zenon DEF Armed
<1>18. Invoke(p) => pc'[p] = "Backend"
    BY <1>3 DEF Invoke
<1>19. BackendReturns(p) => pc'[p] = "PostProbe"
    BY <1>1 DEF BackendReturns
<1>20. PostProbe(p) => pc'[p] \in {"Verify", "Idle"}
    BY <1>1, <1>2, Zenon DEF PostProbe
<1>21. Verify(p) => pc'[p] \in {"Bind", "Idle"}
    BY <1>2, <1>3, Zenon DEF Verify
<1>22. Bind(p) => pc'[p] \in {"ClearUnlink", "Leave"}
    BY <1>1 DEF Bind, ClearBegin
<1>23. Clear(p) => pc'[p] \in {"ClearDirSync", "Cleared", "Leave"}
    BY <1>1, Zenon DEF Clear, ClearUnlink, ClearDirSync, Poison
<1>24. Cleared(p) => pc'[p] \in {"RunLoop", "Idle"}
    BY <1>2, <1>3, Zenon DEF Cleared
<1>25. AckProbe(p) => pc'[p] \in {"AckPolicy", "Leave"}
    BY <1>1 DEF AckProbe
<1>26. AckPolicy(p) => pc'[p] \in {"ClearUnlink", "Leave"}
    BY <1>1 DEF AckPolicy, ClearBegin
<1>27. Call(p) => Arrivals(p)
    BY <1>4, <1>5, <1>6, <1>7, <1>8, Zenon DEF Call
<1>28. RunInspect(p) \/ RunLoop(p) \/ Goal(p) \/ ActionEnter(p) \/ ActionInspect(p)
         \/ Admission(p) \/ Capture(p) \/ Arm(p) \/ ArmFailed(p) \/ Armed(p) => Arrivals(p)
    BY <1>9, <1>10, <1>11, <1>12, <1>13, <1>14, <1>15, <1>16, <1>17, Zenon
<1>29. Invoke(p) \/ BackendReturns(p) \/ PostProbe(p) \/ Verify(p) \/ Bind(p) \/ Clear(p)
         \/ Cleared(p) \/ Leave(p) \/ AckProbe(p) \/ AckPolicy(p) => Arrivals(p)
    BY <1>11, <1>18, <1>19, <1>20, <1>21, <1>22, <1>23, <1>24, <1>25, <1>26, Zenon
<1> HIDE DEF Arrivals
<1> QED
    BY <1>0, <1>4, <1>27, <1>28, <1>29, <1>30, Zenon DEF Step

(* Where a call is when one of its operations is taken. *)
LEMMA Departures ==
    ASSUME NEW p \in Processes
    PROVE  /\ RunInspect(p) => pc[p] = "RunInspect"
           /\ RunLoop(p) => pc[p] = "RunLoop"
           /\ Goal(p) => pc[p] = "Goal"
           /\ ActionEnter(p) => pc[p] = "ActionEnter"
           /\ ActionInspect(p) => pc[p] = "ActionInspect"
           /\ Admission(p) => pc[p] = "Admission"
           /\ Capture(p) => pc[p] = "Capture"
           /\ Arm(p) => pc[p] \in ArmLabels
           /\ Armed(p) => pc[p] = "Armed"
           /\ Invoke(p) => pc[p] = "Invoke"
           /\ BackendReturns(p) => pc[p] = "Backend"
           /\ PostProbe(p) => pc[p] = "PostProbe"
           /\ Verify(p) => pc[p] = "Verify"
           /\ Bind(p) => pc[p] = "Bind"
           /\ Clear(p) => pc[p] \in ClearLabels
           /\ Cleared(p) => pc[p] = "Cleared"
           /\ AckProbe(p) => pc[p] = "AckProbe"
           /\ AckPolicy(p) => pc[p] = "AckPolicy"
<1>1. Arm(p) => pc[p] \in ArmLabels
    BY Zenon DEF Arm, ArmWrite, ArmSync, ArmPublish, ArmDirSync, ArmLabels
<1>2. Clear(p) => pc[p] \in ClearLabels
    BY DEF Clear, ClearUnlink, ClearDirSync, ClearLabels
<1> QED
    BY <1>1, <1>2, Zenon DEF RunInspect, RunLoop, Goal, ActionEnter, ActionInspect, Admission,
         Capture, Armed, Invoke, BackendReturns, PostProbe, Verify, Bind, Cleared, AckProbe,
         AckPolicy

(* A call that goes on stays the same call, for the same attempt until its next one. *)
LEMMA FrameMove ==
    ASSUME NEW p \in Processes
    PROVE  TypeOK /\ Step(p) /\ pc'[p] # "Idle" =>
             mode'[p] = mode[p] /\ (attempt'[p] = attempt[p] \/ RunLoop(p))
<1>0. SUFFICES ASSUME TypeOK, Step(p), pc'[p] # "Idle"
               PROVE  mode'[p] = mode[p] /\ (attempt'[p] = attempt[p] \/ RunLoop(p))
    BY Zenon
<1> DEFINE Same == mode'[p] = mode[p] /\ attempt'[p] = attempt[p]
<1>1. ~Return(p)
    BY <1>0 DEF Return, Goto, TypeOK, FrameType
<1>2. \A l : Continue(p, l) => Same
    BY DEF Continue, frame
<1>3. RunInspect(p) \/ ActionInspect(p) \/ Goal(p) \/ ArmFailed(p) \/ Leave(p) => Same
    BY <1>1, <1>2, Zenon DEF RunInspect, ActionInspect, Goal, ArmFailed, Leave
<1>4. RunLoop(p) => mode'[p] = mode[p]
    BY <1>1, <1>2, Zenon DEF RunLoop
<1>5. ActionEnter(p) \/ Admission(p) \/ Armed(p) \/ Invoke(p) => Same
    BY <1>1, <1>2, Zenon DEF ActionEnter, Admission, Armed, Invoke, frame
<1>6. Arm(p) \/ Clear(p) => Same
    BY Zenon DEF Arm, ArmWrite, ArmSync, ArmPublish, ArmDirSync, Clear, ClearUnlink, ClearDirSync,
         Poison
<1>7. Capture(p) => Same
    BY <1>0, Zenon DEF Capture, ArmBegin, TypeOK, FrameType
<1>8. BackendReturns(p) \/ PostProbe(p) \/ Verify(p) \/ Cleared(p) => Same
    BY <1>1, <1>2, Zenon DEF BackendReturns, PostProbe, Verify, Cleared
<1>9. AckProbe(p) => Same
    BY Zenon DEF AckProbe
<1>10. Bind(p) \/ AckPolicy(p) => Same
    BY <1>0, Zenon DEF Bind, AckPolicy, ClearBegin, TypeOK, FrameType
<1> QED
    BY <1>0, <1>3, <1>4, <1>5, <1>6, <1>7, <1>8, <1>9, <1>10, Zenon DEF Step

(* What becomes of the run, the stop latch and the goal of a process. *)
LEMMA LatchMove ==
    ASSUME NEW p \in Processes
    PROVE  TypeOK /\ (Call(p) \/ Step(p) \/ Crash(p)) =>
             \/ StartRun(p) \/ Crash(p)
             \/ /\ run'[p] = run[p]
                /\ Armed(p) => halted'[p] = TRUE
                /\ Cleared(p) /\ mode[p] # "ack" => halted'[p] = FALSE
                /\ ~Armed(p) /\ (Cleared(p) => mode[p] = "ack") => halted'[p] = halted[p]
                /\ goal'[p] = goal[p] \/ (Goal(p) /\ AllVerified(st[p]))
<1>0. SUFFICES ASSUME TypeOK, Call(p) \/ Step(p) \/ Crash(p), ~StartRun(p), ~Crash(p)
               PROVE  /\ run'[p] = run[p]
                      /\ Armed(p) => halted'[p] = TRUE
                      /\ Cleared(p) /\ mode[p] # "ack" => halted'[p] = FALSE
                      /\ ~Armed(p) /\ (Cleared(p) => mode[p] = "ack") => halted'[p] = halted[p]
                      /\ goal'[p] = goal[p] \/ (Goal(p) /\ AllVerified(st[p]))
    BY Zenon
<1> DEFINE Same == run' = run /\ halted' = halted /\ goal' = goal
<1>1. CallRun(p) \/ CallAction(p) \/ ReviewIncident(p) \/ DropReview(p) \/ AckBegin(p) => Same
    BY Zenon DEF CallRun, CallAction, ReviewIncident, DropReview, AckBegin, object
<1>2. RunInspect(p) \/ RunLoop(p) \/ ActionEnter(p) \/ ActionInspect(p) \/ Admission(p) => Same
    BY Zenon DEF RunInspect, RunLoop, ActionEnter, ActionInspect, Admission, object
<1>3. Goal(p) => run' = run /\ halted' = halted /\ (goal' = goal \/ AllVerified(st[p]))
    BY Zenon DEF Goal
<1>4. Capture(p) \/ Arm(p) \/ ArmFailed(p) \/ Invoke(p) \/ BackendReturns(p) => Same
    BY Zenon DEF Capture, Arm, ArmFailed, Invoke, BackendReturns, object
<1>5. Armed(p) => run' = run /\ halted'[p] = TRUE /\ goal' = goal
    BY <1>0 DEF Armed, TypeOK, ObjectType
<1>6. PostProbe(p) \/ Verify(p) \/ Bind(p) \/ Clear(p) \/ Leave(p) => Same
    BY Zenon DEF PostProbe, Verify, Bind, Clear, Leave, object
<1>7. AckProbe(p) \/ AckPolicy(p) => Same
    BY Zenon DEF AckProbe, AckPolicy, object
<1>8. Cleared(p) => /\ run' = run /\ goal' = goal
                    /\ IF mode[p] = "ack" THEN halted'[p] = halted[p] ELSE halted'[p] = FALSE
    BY <1>0, Zenon DEF Cleared, TypeOK, ObjectType
<1> QED
    BY <1>0, <1>1, <1>2, <1>3, <1>4, <1>5, <1>6, <1>7, <1>8, Zenon DEF Call, Step

-----------------------------------------------------------------------------
(* WorkInv: the process that dispatched an attempt carries it to its marker's removal. *)
LEMMA WorkStep ==
    ASSUME NEW q \in Processes
    PROVE  IInv /\ OInv /\ [Next]_vars => WorkInv(q)'
<1>a. SUFFICES ASSUME IInv, OInv, [Next]_vars PROVE WorkInv(q)'
    OBVIOUS
<1>0. TypeOK /\ CallInv /\ MarkerInv /\ PhaseInv /\ WorkInv(q)
    BY <1>a DEF IInv, OInv
<1>1. begun \subseteq begun' /\ closed \subseteq closed' /\ effects \subseteq effects'
    BY <1>a, HistoriesGrow
<1>2. ASSUME NEW p \in Processes, p # q, Call(p) \/ Step(p) \/ Crash(p) PROVE WorkInv(q)'
    BY <1>0, <1>1, <1>2, OthersKeep, Zenon DEF WorkInv
<1>3. ASSUME Call(q) \/ Step(q) \/ Crash(q) PROVE WorkInv(q)'
  <2>1. Arrivals(q)
    BY <1>0, <1>3, ControlFlow
  <2>2. CASE pc'[q] = "Backend"
    <3>1. Invoke(q)
      BY <2>1, <2>2 DEF Arrivals
    <3> QED
      BY <1>0, <2>2, <3>1, Zenon DEF Invoke, Continue, frame, object, WorkInv, PhaseInv, RemovalLabels,
           ClearLabels
  <2>3. CASE pc'[q] = "PostProbe"
    <3>1. BackendReturns(q)
      BY <2>1, <2>3 DEF Arrivals
    <3> QED
      BY <1>0, <2>3, <3>1, Zenon DEF BackendReturns, object, history, WorkInv, RemovalLabels, ClearLabels
  <2>4. ASSUME PostProbe(q) \/ Verify(q)
        PROVE  /\ attempt[q][1] = run[q]
               /\ \A s : SetState(q, s) => st'[q][attempt[q][2]] = s
    <3>1. attempt[q] \in Attempts /\ attempt[q][1] = run[q]
      BY <1>0, <2>4, Departures, Zenon DEF CallInv, ActionLabels, DispatchedLabels
    <3> QED
      BY <1>0, <3>1, StateChange, Zenon
  <2>5. CASE pc'[q] = "Verify"
    <3>1. PostProbe(q)
      BY <2>1, <2>5, Zenon DEF Arrivals
    <3>2. ~Return(q)
      BY <1>0, <2>5 DEF Return, Goto, TypeOK, FrameType
    <3>3. /\ pc[q] = "PostProbe" /\ outcome[q] = "Succeeded"
          /\ SetState(q, CompletionState(outcome[q]))
          /\ seen' = [seen EXCEPT ![q] = attempt[q] \in effects]
          /\ attempt' = attempt /\ begun' = begun
      BY <3>1, <3>2, Zenon DEF PostProbe, history
    <3>4. st'[q][attempt[q][2]] = "Verifying"
      BY <2>4, <3>1, <3>3, Zenon DEF CompletionState
    <3>5. seen'[q] = (attempt[q] \in effects)
      BY <1>0, <3>3 DEF TypeOK, FrameType
    <3> QED
      BY <1>0, <1>1, <2>5, <3>3, <3>4, <3>5, Zenon DEF WorkInv, RemovalLabels, ClearLabels
  <2>6. CASE pc'[q] = "Bind"
    <3>1. Verify(q)
      BY <2>1, <2>6 DEF Arrivals
    <3>2. ~Return(q)
      BY <1>0, <2>6 DEF Return, Goto, TypeOK, FrameType
    <3>3. /\ pc[q] = "Verify" /\ SetState(q, "Verified")
          /\ attempt' = attempt /\ run' = run /\ begun' = begun
      BY <3>1, <3>2, Zenon DEF Verify, Continue, frame, history
    <3> QED
      BY <1>0, <2>4, <2>6, <3>1, <3>3, Zenon DEF WorkInv
  <2>7. CASE pc'[q] \in ClearLabels \union {"Cleared"}
    <3>1. Bind(q) \/ Clear(q) \/ AckPolicy(q)
      BY <2>1, <2>7, Zenon DEF Arrivals, ClearLabels
    <3>2. Step(q)
      BY <3>1 DEF Step
    <3>3. mode'[q] = mode[q] /\ attempt'[q] = attempt[q]
      BY <1>0, <2>7, <3>1, <3>2, FrameMove, Departures, Zenon DEF ClearLabels
    <3>4. st' = st /\ run' = run
      BY <3>1, Zenon DEF Bind, Clear, AckPolicy, object
    <3>5. AckPolicy(q) => mode[q] = "ack"
      BY <1>0, Departures, Zenon DEF CallInv, AckLabels
    <3>6. pc[q] \in RemovalLabels \/ AckPolicy(q)
      BY <3>1, Departures DEF RemovalLabels
    <3> QED
      BY <1>0, <1>1, <2>7, <3>3, <3>4, <3>5, <3>6, Zenon DEF WorkInv, ClearLabels
  <2> QED
    BY <2>2, <2>3, <2>5, <2>6, <2>7, Zenon DEF WorkInv, RemovalLabels
<1>4. ASSUME NEW t \in Attempts, NativeEffect(t) \/ NativeStops(t) PROVE WorkInv(q)'
    BY <1>0, <1>1, <1>4, Zenon DEF NativeEffect, NativeStops, WorkInv, frame, object
<1>5. ASSUME Writeback, UNCHANGED <<mode, outcome, seen, object, used, native, history>>
      PROVE  WorkInv(q)'
    BY <1>0, <1>5, Zenon DEF Writeback, WorkInv, object, native, history
<1>6. PowerLoss => WorkInv(q)'
    BY Zenon DEF PowerLoss, Die, Forgotten, WorkInv, RemovalLabels, ClearLabels
<1>7. UNCHANGED vars => WorkInv(q)'
    BY <1>0, Zenon DEF vars, frame, object, native, history, WorkInv
<1> QED
    BY <1>a, <1>2, <1>3, <1>4, <1>5, <1>6, <1>7, Zenon DEF Next

-----------------------------------------------------------------------------
(* The action states of a process start over, stay, or change for the action in hand. *)
StateMoves(p) ==
    \/ (StartRun(p) \/ Crash(p)) /\ st'[p] = Waiting
    \/ run'[p] = run[p] /\ st'[p] = st[p]
    \/ /\ run'[p] = run[p]
       /\ attempt[p] \in Attempts /\ attempt[p][1] = run[p]
       /\ st[p][attempt[p][2]] # "Verified"
       /\ st[p][attempt[p][2]] = "Waiting" => PredecessorsVerified(st[p], attempt[p][2])
       /\ st'[p][attempt[p][2]] = "Verified" => pc[p] = "Verify" /\ attempt[p] \in effects
       /\ \A a \in Actions : a # attempt[p][2] => st'[p][a] = st[p][a]

LEMMA StateMove ==
    ASSUME NEW p \in Processes
    PROVE  IInv /\ OInv /\ (Call(p) \/ Step(p) \/ Crash(p)) => StateMoves(p)
<1>a. SUFFICES ASSUME IInv, OInv, Call(p) \/ Step(p) \/ Crash(p) PROVE StateMoves(p)
    BY Zenon
<1>0. TypeOK /\ CallInv /\ PhaseInv /\ WorkInv(p)
    BY <1>a, Zenon DEF IInv, OInv
<1> DEFINE a == attempt[p][2]
<1>1. StartRun(p) \/ Crash(p) => StateMoves(p)
    BY <1>0, Zenon DEF StartRun, Crash, Die, Forgotten, TypeOK, ObjectType, StateMoves
<1>2. run' = run /\ st' = st => StateMoves(p)
    BY Zenon DEF StateMoves
<1>3. CallRun(p) \/ CallAction(p) \/ ReviewIncident(p) \/ DropReview(p) \/ AckBegin(p)
        => StateMoves(p)
    BY <1>2, Zenon DEF CallRun, CallAction, ReviewIncident, DropReview, AckBegin, object
<1>4. RunInspect(p) \/ RunLoop(p) \/ Goal(p) \/ ActionInspect(p) \/ Capture(p) \/ Arm(p)
        \/ Invoke(p) \/ BackendReturns(p) => StateMoves(p)
    BY <1>2, Zenon DEF RunInspect, RunLoop, Goal, ActionInspect, Capture, Arm, Invoke,
         BackendReturns, object
<1>5. Bind(p) \/ Clear(p) \/ Cleared(p) \/ Leave(p) \/ AckProbe(p) \/ AckPolicy(p)
        => StateMoves(p)
    BY <1>2, Zenon DEF Bind, Clear, Cleared, Leave, AckProbe, AckPolicy, object
<1>6. ASSUME \/ ActionEnter(p) \/ Admission(p) \/ ArmFailed(p) \/ Armed(p) \/ PostProbe(p)
             \/ Verify(p)
      PROVE  StateMoves(p)
  <2>1. run' = run
    BY <1>6, Zenon DEF ActionEnter, Admission, ArmFailed, Armed, PostProbe, Verify
  <2>2. attempt[p] \in Attempts /\ attempt[p][1] = run[p]
    BY <1>0, <1>6, Zenon DEF ActionEnter, Admission, ArmFailed, Armed, PostProbe, Verify, CallInv,
         ActionLabels, PrepareLabels, DispatchedLabels
  <2>3. \A t : SetState(p, t) => /\ st'[p][a] = t
                                 /\ \A b \in Actions : b # a => st'[p][b] = st[p][b]
    BY <1>0, <2>2, StateChange, Zenon
  <2>4. ASSUME NEW t, SetState(p, t), st[p][a] # "Verified",
               st[p][a] = "Waiting" => PredecessorsVerified(st[p], a),
               t = "Verified" => pc[p] = "Verify" /\ attempt[p] \in effects
        PROVE  StateMoves(p)
    BY <2>1, <2>2, <2>3, <2>4, Zenon DEF StateMoves
  <2>5. /\ Admission(p) => st[p][a] = "Checking"
        /\ ArmFailed(p) \/ Armed(p) => st[p][a] = "Admitted"
        /\ PostProbe(p) => st[p][a] = "Running"
    BY <1>0, Zenon DEF Admission, ArmFailed, Armed, PostProbe, PhaseInv, WorkInv, PrepareLabels
  <2>6. CASE ActionEnter(p)
    BY <1>2, <2>1, <2>4, <2>6, Zenon DEF ActionEnter, MayEnter, CanBeginCheck
  <2>7. CASE Admission(p)
    BY <1>2, <2>1, <2>4, <2>5, <2>7, Zenon DEF Admission
  <2>8. CASE ArmFailed(p) \/ Armed(p)
    BY <1>2, <2>1, <2>4, <2>5, <2>8, Zenon DEF ArmFailed, Armed
  <2>9. CASE PostProbe(p)
    <3>1. \E t \in {"OutcomeUnknown", "Verifying", "Failed"} : SetState(p, t) \/ st' = st
      BY <2>9, Zenon DEF PostProbe, CompletionState
    <3> QED
      BY <1>2, <2>1, <2>4, <2>5, <2>9, <3>1, Zenon
  <2>10. CASE Verify(p)
    <3>1. /\ pc[p] = "Verify" /\ st[p][a] = "Verifying"
          /\ seen[p] => attempt[p] \in effects
      BY <1>0, <2>10, Zenon DEF Verify, WorkInv, TypeOK, FrameType
    <3>2. \/ st' = st
          \/ seen[p] /\ SetState(p, "Verified")
          \/ \E t \in Stopped : SetState(p, t)
      BY <2>10, Zenon DEF Verify
    <3> QED
      BY <1>2, <2>1, <2>4, <3>1, <3>2, Zenon DEF Stopped
  <2> QED
    BY <1>6, <2>6, <2>7, <2>8, <2>9, <2>10, Zenon
<1> QED
    BY <1>a, <1>1, <1>3, <1>4, <1>5, <1>6, Zenon DEF Call, Step

(* OrderInv: states change in the plan's order, and only an effect is verified. *)
LEMMA OrderStep ==
    ASSUME NEW q \in Processes
    PROVE  IInv /\ OInv /\ [Next]_vars => OrderInv(q)'
<1>a. SUFFICES ASSUME IInv, OInv, [Next]_vars PROVE OrderInv(q)'
    OBVIOUS
<1>0. TypeOK /\ OrderInv(q)
    BY <1>a DEF IInv, OInv
<1>1. effects \subseteq effects'
    BY <1>a, HistoriesGrow
<1>2. run'[q] = run[q] /\ st'[q] = st[q] => OrderInv(q)'
    BY <1>0, <1>1, Zenon DEF OrderInv, PredecessorsVerified
<1>3. st'[q] = Waiting => OrderInv(q)'
    BY DEF OrderInv, Waiting
<1>4. ASSUME NEW p \in Processes, p # q, Call(p) \/ Step(p) \/ Crash(p) PROVE OrderInv(q)'
    BY <1>0, <1>2, <1>4, OthersKeep, Zenon
<1>5. ASSUME Call(q) \/ Step(q) \/ Crash(q) PROVE OrderInv(q)'
  <2> DEFINE a == attempt[q][2]
  <2>1. ASSUME run'[q] = run[q],
               attempt[q] \in Attempts /\ attempt[q][1] = run[q],
               st[q][a] # "Verified",
               st[q][a] = "Waiting" => PredecessorsVerified(st[q], a),
               st'[q][a] = "Verified" => pc[q] = "Verify" /\ attempt[q] \in effects,
               \A b \in Actions : b # a => st'[q][b] = st[q][b]
        PROVE  OrderInv(q)'
    <3>1. attempt[q] = <<run[q], a>> /\ a \in Actions
      BY <2>1, CoordinatorAssumption
    <3>2. \A b \in Actions : st[q][b] = "Verified" => st'[q][b] = "Verified"
      BY <2>1, Zenon
    <3>3. \A b \in Actions : PredecessorsVerified(st[q], b) => PredecessorsVerified(st[q], b)'
      BY <3>2 DEF PredecessorsVerified
    <3>4. \A b \in Actions : st'[q][b] # "Waiting" => PredecessorsVerified(st[q], b)
      BY <1>0, <2>1, Zenon DEF OrderInv
    <3>5. \A b \in Actions : st'[q][b] = "Verified" => <<run'[q], b>> \in effects'
      BY <1>0, <1>1, <2>1, <3>1, Zenon DEF OrderInv
    <3> QED
      BY <3>3, <3>4, <3>5, Zenon DEF OrderInv
  <2> QED
    BY <1>a, <1>2, <1>3, <1>5, <2>1, StateMove, Zenon DEF StateMoves
<1>6. ASSUME NEW t \in Attempts, NativeEffect(t) \/ NativeStops(t) PROVE OrderInv(q)'
    BY <1>2, <1>6, Zenon DEF NativeEffect, NativeStops, object
<1>7. UNCHANGED object \/ PowerLoss \/ UNCHANGED vars => OrderInv(q)'
    BY <1>2, <1>3, Zenon DEF object, PowerLoss, Die, Forgotten, vars
<1> QED
    BY <1>a, <1>4, <1>5, <1>6, <1>7 DEF Next

-----------------------------------------------------------------------------
(***************************************************************************)
(* LatchInv: Armed sets the latch while every verified action is resolved, *)
(* Verify adds one under it, and only Cleared, after its marker went away, *)
(* opens it again.                                                         *)
(***************************************************************************)
LEMMA LatchStep ==
    ASSUME NEW q \in Processes
    PROVE  IInv /\ OInv /\ [Next]_vars => LatchInv(q)'
<1>a. SUFFICES ASSUME IInv, OInv, [Next]_vars PROVE LatchInv(q)'
    OBVIOUS
<1>0. TypeOK /\ CallInv /\ MarkerInv /\ PhaseInv /\ WorkInv(q) /\ LatchInv(q)
    BY <1>a DEF IInv, OInv
<1>1. closed \subseteq closed'
    BY <1>a, HistoriesGrow
<1>8. ASSUME pc'[q] = "Idle", goal'[q] = FALSE, st'[q] = Waiting PROVE LatchInv(q)'
  <2>1. \A a \in Actions : st'[q][a] # "Verified"
    BY <1>8 DEF Waiting
  <2> QED
    BY <1>8, <2>1, Zenon DEF LatchInv, HoldsLock, Dispatching, DispatchedLabels, ExitLabels,
         ClearLabels
<1>2. ASSUME NEW p \in Processes, p # q, Call(p) \/ Step(p) \/ Crash(p) PROVE LatchInv(q)'
  <2>1. /\ pc'[q] = pc[q] /\ attempt'[q] = attempt[q] /\ mode'[q] = mode[q]
        /\ run'[q] = run[q] /\ st'[q] = st[q] /\ halted'[q] = halted[q] /\ goal'[q] = goal[q]
    BY <1>0, <1>2, OthersKeep, Zenon
  <2>2. (HoldsLock(q)' => HoldsLock(q)) /\ (Dispatching(q)' => Dispatching(q))
    BY <2>1, Zenon DEF HoldsLock, Dispatching
  <2>3. AllVerified(st[q]) => AllVerified(st[q])'
    BY <2>1, Zenon DEF AllVerified
  <2> QED
    BY <1>0, <1>1, <2>1, <2>2, <2>3, Zenon DEF LatchInv
<1>3. ASSUME Call(q) \/ Step(q) \/ Crash(q) PROVE LatchInv(q)'
  <2>1. CASE StartRun(q) \/ Crash(q)
    <3>1. pc'[q] = "Idle" /\ goal'[q] = FALSE /\ st'[q] = Waiting
      <4>1. StartRun(q) => pc'[q] = "Idle" /\ goal'[q] = FALSE /\ st'[q] = Waiting
        BY <1>0 DEF StartRun, TypeOK, ObjectType
      <4>2. Crash(q) => pc'[q] = "Idle" /\ goal'[q] = FALSE /\ st'[q] = Waiting
        BY Zenon DEF Crash, Die, Forgotten
      <4> QED
        BY <2>1, <4>1, <4>2, Zenon
    <3> QED
      BY <1>8, <3>1, Zenon
  <2>2. ASSUME ~StartRun(q), ~Crash(q) PROVE LatchInv(q)'
    <3>1. Arrivals(q)
      BY <1>0, <1>3, ControlFlow
    <3>2. /\ run'[q] = run[q]
          /\ Armed(q) => halted'[q] = TRUE
          /\ Cleared(q) /\ mode[q] # "ack" => halted'[q] = FALSE
          /\ ~Armed(q) /\ (Cleared(q) => mode[q] = "ack") => halted'[q] = halted[q]
          /\ goal'[q] = goal[q] \/ (Goal(q) /\ AllVerified(st[q]))
      BY <1>0, <1>3, <2>2, LatchMove, Zenon
    <3>3. ASSUME HoldsLock(q)', pc'[q] \in UnlatchedLabels \union {"ActionEnter"}
          PROVE  halted'[q] = FALSE
      <4>1. CASE CallRun(q)
        BY <1>0, <4>1, Zenon DEF CallRun, object, TypeOK, ObjectType
      <4>2. CASE CallAction(q)
        BY <1>0, <3>3, <4>2, Zenon DEF CallAction, HoldsLock, Goto, TypeOK, FrameType
      <4>3. ~Return(q)
        BY <1>0, <3>3, Zenon DEF Return, Goto, HoldsLock, TypeOK, FrameType
      <4>4. CASE ActionEnter(q)
        BY <1>0, <4>3, <4>4, Zenon DEF ActionEnter, TypeOK, ObjectType
      <4>5. CASE Cleared(q)
        <5>1. mode[q] = "run"
          BY <4>3, <4>5, Zenon DEF Cleared
        <5> QED
          BY <3>2, <4>5, <5>1, Zenon
      <4>6. CASE RunInspect(q) \/ RunLoop(q) \/ ActionInspect(q) \/ Admission(q) \/ Capture(q)
                   \/ Arm(q)
        <5>1. pc[q] \in UnlatchedLabels \ {"Armed"}
          BY <4>6, Departures, Zenon DEF UnlatchedLabels, RunLabels, PrepareLabels, ArmLabels
        <5>2. halted[q] = FALSE
          BY <1>0, <5>1, Zenon DEF LatchInv, HoldsLock, UnlatchedLabels, RunLabels, PrepareLabels,
               ArmLabels
        <5>3. ~Armed(q) /\ ~Cleared(q)
          BY <5>1, Departures, Zenon DEF UnlatchedLabels, RunLabels, PrepareLabels, ArmLabels
        <5> QED
          BY <3>2, <5>2, <5>3, Zenon
      <4> QED
        BY <3>1, <3>3, <4>1, <4>2, <4>4, <4>5, <4>6, Zenon DEF Arrivals, UnlatchedLabels
    <3>4. Dispatching(q)' => Armed(q) \/ (Dispatching(q) /\ ~Cleared(q))
      <4> SUFFICES ASSUME Dispatching(q)', ~Armed(q) PROVE Dispatching(q) /\ ~Cleared(q)
          OBVIOUS
      <4>1. \/ Invoke(q) \/ BackendReturns(q) \/ PostProbe(q) \/ Verify(q) \/ Bind(q) \/ Clear(q)
            \/ AckProbe(q) \/ AckPolicy(q)
        BY <3>1, Zenon DEF Arrivals, Dispatching, DispatchedLabels, ExitLabels, ClearLabels
      <4>2. pc[q] \in DispatchedLabels \union ClearLabels \union AckLabels
        BY <4>1, Departures, Zenon DEF DispatchedLabels, AckLabels
      <4>3. mode'[q] = mode[q]
        <5>1. Step(q)
          BY <4>1 DEF Step
        <5>2. pc'[q] # "Idle"
          BY DEF Dispatching, DispatchedLabels, ExitLabels, ClearLabels
        <5> QED
          BY <1>0, <5>1, <5>2, FrameMove, Zenon
      <4>4. pc[q] \notin AckLabels
        BY <1>0, <4>3, Zenon DEF CallInv, Dispatching
      <4>5. Cleared(q) => pc[q] = "Cleared"
        BY Departures, Zenon
      <4> QED
        BY <4>2, <4>3, <4>4, <4>5, Zenon DEF Dispatching, DispatchedLabels, ExitLabels, ClearLabels,
             AckLabels
    <3>5. Dispatching(q)' => halted'[q] = TRUE
      <4>1. Armed(q) => halted'[q] = TRUE
        BY <3>2, Zenon
      <4>2. Dispatching(q) /\ ~Cleared(q) => halted'[q] = TRUE
        BY <1>0, <3>2, <4>1, Zenon DEF LatchInv
      <4> QED
        BY <3>4, <4>1, <4>2
    <3>6. ASSUME NEW a \in Actions, st'[q][a] = "Verified"
          PROVE  st[q][a] = "Verified" \/ (pc[q] = "Verify" /\ a = attempt[q][2])
      BY <1>a, <1>3, <2>2, <3>6, StateMove, Zenon DEF StateMoves
    <3>7. ASSUME NEW a \in Actions, st'[q][a] = "Verified", <<run'[q], a>> \notin closed',
                 st[q][a] = "Verified"
          PROVE  /\ halted'[q] = TRUE
                 /\ Dispatching(q)' =>
                      a = attempt'[q][2] /\ pc'[q] \in {"Bind", "ClearUnlink", "Leave"}
      <4>1. /\ halted[q] = TRUE
            /\ Dispatching(q) =>
                 a = attempt[q][2] /\ pc[q] \in {"Bind", "ClearUnlink", "Leave"}
        BY <1>0, <1>1, <3>2, <3>7, Zenon DEF LatchInv
      <4>2. Cleared(q) => mode[q] = "ack"
        BY <4>1, Departures, Zenon DEF Dispatching, ExitLabels
      <4>3. halted'[q] = TRUE
        BY <3>2, <4>1, <4>2, Zenon
      <4>4. ASSUME Dispatching(q)'
            PROVE  a = attempt'[q][2] /\ pc'[q] \in {"Bind", "ClearUnlink", "Leave"}
        <5>1. ~Armed(q)
          BY <1>0, <4>1, Departures, Zenon DEF LatchInv, HoldsLock, UnlatchedLabels, PrepareLabels
        <5>2. a = attempt[q][2] /\ pc[q] \in {"Bind", "ClearUnlink", "Leave"} /\ mode[q] # "ack"
          BY <3>4, <4>1, <4>4, <5>1, Zenon DEF Dispatching
        <5>3. Bind(q) \/ Clear(q)
          BY <3>1, <4>4, <5>1, <5>2, Departures, Zenon DEF Arrivals, Dispatching, DispatchedLabels,
               ExitLabels, ClearLabels
        <5>4. attempt'[q] = attempt[q]
          <6>1. Step(q)
            BY <5>3, Zenon DEF Step
          <6>2. pc'[q] # "Idle"
            BY <4>4, Zenon DEF Dispatching, DispatchedLabels, ExitLabels, ClearLabels
          <6> QED
            BY <1>0, <5>2, <6>1, <6>2, FrameMove, Departures, Zenon
        <5>5. CASE Bind(q)
          BY <3>1, <4>4, <5>1, <5>2, <5>4, <5>5, Departures, Zenon DEF Arrivals, Dispatching,
               DispatchedLabels, ExitLabels, ClearLabels
        <5>6. CASE Clear(q)
          <6>1. pc[q] = "ClearUnlink"
            BY <5>2, <5>6, Departures, Zenon DEF ClearLabels
          <6>2. visible = attempt[q]
            BY <1>0, <6>1, Zenon DEF MarkerInv
          <6>3. attempt[q] \in begun /\ attempt[q] = <<run[q], a>>
            <7>1. attempt[q][1] = run[q] /\ attempt[q] \in begun
              BY <1>0, <5>2, <6>1, Zenon DEF WorkInv, RemovalLabels, ClearLabels
            <7>2. attempt[q] \in Runs \X Actions
              BY <1>0, <6>1, CoordinatorAssumption, Zenon DEF CallInv, ExitLabels, ClearLabels
            <7>3. attempt[q] = <<attempt[q][1], attempt[q][2]>>
              BY <7>2
            <7> QED
              BY <5>2, <7>1, <7>3, Zenon
          <6>4. visible' = visible
            BY <3>2, <3>7, <5>6, <6>2, <6>3, Zenon DEF Clear
          <6>5. attempt[q] # NoAttempt
            BY <1>0, <6>1, AttemptAssumption, Zenon DEF CallInv, ExitLabels, ClearLabels
          <6>6. pc'[q] = "Leave"
            BY <1>0, <5>6, <6>1, <6>2, <6>4, <6>5, Zenon DEF Clear, ClearUnlink, ClearDirSync, Poison,
                 Goto, TypeOK, FrameType
          <6> QED
            BY <5>2, <5>4, <6>6, Zenon
        <5> QED
          BY <5>3, <5>5, <5>6, Zenon
      <4> QED
        BY <4>3, <4>4, Zenon
    <3>8. ASSUME pc[q] = "Verify"
          PROVE  /\ halted'[q] = TRUE
                 /\ Dispatching(q)' => attempt'[q] = attempt[q] /\ pc'[q] = "Bind"
      <4>1. Dispatching(q) /\ halted[q] = TRUE
        BY <1>0, <3>8, Zenon DEF LatchInv, Dispatching, CallInv, ActionLabels, DispatchedLabels
      <4>2. ~Armed(q) /\ ~Cleared(q)
        BY <3>8, Departures, Zenon
      <4>3. ASSUME Dispatching(q)' PROVE pc'[q] = "Bind"
        BY <3>1, <3>8, <4>3, Departures, Zenon DEF Arrivals, Dispatching, DispatchedLabels, ExitLabels,
             ClearLabels
      <4>4. ASSUME pc'[q] = "Bind" PROVE attempt'[q] = attempt[q]
        BY <1>0, <3>1, <3>8, <4>4, FrameMove, Departures, Zenon DEF Arrivals, Step
      <4> QED
        BY <3>2, <4>1, <4>2, <4>3, <4>4, Zenon
    <3>9. goal'[q] = TRUE => halted'[q] = FALSE /\ AllVerified(st[q])'
      <4> SUFFICES ASSUME goal'[q] = TRUE PROVE halted'[q] = FALSE /\ AllVerified(st[q])'
          BY Zenon
      <4>1. AllVerified(st[q]) /\ halted[q] = FALSE
        BY <1>0, <3>2, Departures, Zenon DEF LatchInv, HoldsLock, UnlatchedLabels, RunLabels
      <4>2. st'[q] = st[q]
        <5>1. attempt[q] \in Attempts => st[q][attempt[q][2]] = "Verified"
          BY <4>1, CoordinatorAssumption, Zenon DEF AllVerified
        <5> QED
          BY <1>a, <1>3, <2>2, <5>1, StateMove, Zenon DEF StateMoves
      <4>3. ~Armed(q)
        <5>1. ASSUME Armed(q) PROVE FALSE
          <6>1. attempt[q] \in Attempts /\ st[q][attempt[q][2]] = "Admitted"
            BY <1>0, <5>1, Departures, Zenon DEF CallInv, PhaseInv, ActionLabels, PrepareLabels
          <6> QED
            BY <4>1, <6>1, CoordinatorAssumption, Zenon DEF AllVerified
        <5> QED
          BY <5>1
      <4> QED
        BY <3>2, <4>1, <4>2, <4>3, Zenon DEF AllVerified
    <3> QED
      BY <3>3, <3>5, <3>6, <3>7, <3>8, <3>9, Zenon DEF LatchInv
  <2> QED
    BY <2>1, <2>2
<1>4. ASSUME NEW t \in Attempts, NativeEffect(t) \/ NativeStops(t) PROVE LatchInv(q)'
    BY <1>0, <1>4, Zenon DEF NativeEffect, NativeStops, LatchInv, AllVerified, Dispatching,
         HoldsLock, frame, object, history
<1>5. ASSUME Writeback, UNCHANGED <<mode, outcome, seen, object, used, native, history>>
      PROVE  LatchInv(q)'
    BY <1>0, <1>5, Zenon DEF Writeback, LatchInv, AllVerified, Dispatching, HoldsLock, object,
         history
<1>6. PowerLoss => LatchInv(q)'
  <2>1. PowerLoss => pc'[q] = "Idle" /\ goal'[q] = FALSE /\ st'[q] = Waiting
    BY Zenon DEF PowerLoss, Die, Forgotten
  <2> QED
    BY <1>8, <2>1, Zenon
<1>7. UNCHANGED vars => LatchInv(q)'
    BY <1>0, Zenon DEF vars, frame, object, history, LatchInv, AllVerified, Dispatching, HoldsLock
<1> QED
    BY <1>a, <1>2, <1>3, <1>4, <1>5, <1>6, <1>7, Zenon DEF Next

-----------------------------------------------------------------------------
(***************************************************************************)
(* CleanInv: a marker that reappears is of an attempt that failed to arm,  *)
(* and the latch opens only when no entry is left to reappear.             *)
(***************************************************************************)
LEMMA CleanStep ==
    ASSUME NEW q \in Processes
    PROVE  IInv /\ OInv /\ [Next]_vars => CleanInv(q)'
<1>a. SUFFICES ASSUME IInv, OInv, [Next]_vars PROVE CleanInv(q)'
    OBVIOUS
<1>0. TypeOK /\ LockInv /\ CallInv /\ MarkerInv /\ IdentityInv /\ PhaseInv
    BY <1>a DEF IInv
<1>1. WorkInv(q) /\ LatchInv(q) /\ CleanInv(q)
    BY <1>a DEF OInv
<1>2. /\ Unreadable \notin Attempts /\ NoAttempt \notin Attempts
      /\ visible \in Entries /\ durable \in Entries
    BY <1>0, AttemptAssumption DEF TypeOK, WorldType
<1>3. ASSUME NEW p \in Processes, p # q, Call(p) \/ Step(p) \/ Crash(p) PROVE CleanInv(q)'
  <2>1. /\ pc'[q] = pc[q] /\ run'[q] = run[q] /\ st'[q] = st[q] /\ halted'[q] = halted[q]
    BY <1>0, <1>3, OthersKeep, Zenon
  <2>2. pc[q] \in {"ClearDirSync", "Cleared"} => visible' = visible /\ durable' = durable
    BY <1>0, <1>3, DiskStep, Zenon DEF LockInv, HoldsLock
  <2>3. ASSUME NEW e \in {visible', durable'} \intersect Attempts, e[1] = run[q]
        PROVE  e \in {visible, durable}
    <3>1. pc[p] = "ArmPublish" => attempt[p][1] # run[q]
      <4>1. pc[p] = "ArmPublish" => run[p] \in Runs /\ attempt[p][1] = run[p]
        BY <1>0, <1>3, Zenon DEF CallInv, ActionLabels, PrepareLabels, ArmLabels
      <4>2. run[p] \in Runs => run[p] # run[q]
        BY <1>0, <1>3, CoordinatorAssumption, Zenon DEF IdentityInv
      <4> QED
        BY <4>1, <4>2, Zenon
    <3> QED
      BY <1>0, <1>2, <1>3, <2>3, <3>1, DiskStep, Zenon
  <2> QED
    BY <1>1, <2>1, <2>2, <2>3, Zenon DEF CleanInv
<1>4. ASSUME Call(q) \/ Step(q) \/ Crash(q) PROVE CleanInv(q)'
  <2>1. halted'[q] = FALSE => StartRun(q) \/ Crash(q) \/ halted[q] = FALSE \/ Cleared(q)
    BY <1>0, <1>4, LatchMove, Zenon
  <2>2. ASSUME NEW a \in Actions, st'[q][a] = "Verified", halted'[q] = FALSE
        PROVE  /\ st[q][a] = "Verified" /\ run'[q] = run[q]
               /\ halted[q] = FALSE \/ Cleared(q)
    <3>1. ~StartRun(q) /\ ~Crash(q)
      <4>1. StartRun(q) \/ Crash(q) => st'[q] = Waiting
        BY <1>0, Zenon DEF StartRun, Crash, Die, Forgotten, TypeOK, ObjectType
      <4> QED
        BY <2>2, <4>1 DEF Waiting
    <3>2. pc[q] = "Verify" => halted[q] = TRUE /\ ~Cleared(q)
      BY <1>0, <1>1, Zenon DEF LatchInv, Dispatching, DispatchedLabels, CallInv, ActionLabels, Cleared
    <3> QED
      BY <1>a, <1>4, <2>1, <2>2, <3>1, <3>2, StateMove, Zenon DEF StateMoves
  <2>3. Cleared(q) => visible' = NoAttempt /\ durable' = NoAttempt
    BY <1>1, Zenon DEF Cleared, CleanInv, disk
  <2>4. ASSUME NEW e \in {visible', durable'} \intersect Attempts, e[1] = run'[q],
               halted'[q] = FALSE
        PROVE  st'[q][e[2]] # "Verified"
    <3>1. e[2] \in Actions
      BY CoordinatorAssumption
    <3>2. CASE e \in {visible, durable}
      <4> SUFFICES ASSUME st'[q][e[2]] = "Verified" PROVE FALSE
          OBVIOUS
      <4>1. st[q][e[2]] = "Verified" /\ run'[q] = run[q] /\ (halted[q] = FALSE \/ Cleared(q))
          BY <2>2, <2>4, <3>1, Zenon
      <4>2. ~Cleared(q)
          BY <1>2, <2>3
      <4> QED
          BY <1>1, <2>4, <3>2, <4>1, <4>2, Zenon DEF CleanInv
    <3>3. CASE pc[q] = "ArmPublish" /\ e = attempt[q]
      <4>1. st[q][e[2]] = "Admitted"
          BY <1>0, <3>3, Zenon DEF PhaseInv, PrepareLabels, ArmLabels
      <4> QED
          BY <2>2, <2>4, <3>1, <4>1, Zenon
    <3> QED
      BY <1>0, <1>2, <1>4, <3>2, <3>3, DiskStep, Zenon
  <2>5. /\ pc'[q] \in {"ClearDirSync", "Cleared"} => visible' = NoAttempt
        /\ pc'[q] = "Cleared" => durable' = NoAttempt
    <3>1. pc'[q] \in {"ClearDirSync", "Cleared"} => Clear(q)
      BY <1>0, <1>4, ControlFlow, Zenon DEF Arrivals
    <3>2. CASE Clear(q)
      BY <1>0, <1>1, <3>2, Zenon DEF Clear, ClearUnlink, ClearDirSync, Poison, Goto, CleanInv, TypeOK,
           FrameType
    <3> QED
      BY <3>1, <3>2, Zenon
  <2> QED
    BY <2>4, <2>5, Zenon DEF CleanInv
<1>5. ASSUME NEW t \in Attempts, NativeEffect(t) \/ NativeStops(t) PROVE CleanInv(q)'
    BY <1>1, <1>5, Zenon DEF NativeEffect, NativeStops, CleanInv, disk, object
<1>6. ASSUME Writeback, UNCHANGED <<mode, outcome, seen, object, used, native, history>>
      PROVE  CleanInv(q)'
    BY <1>1, <1>6, Zenon DEF Writeback, CleanInv, object
<1>7. PowerLoss => CleanInv(q)'
  <2> SUFFICES ASSUME PowerLoss PROVE CleanInv(q)'
      OBVIOUS
  <2>1. pc'[q] = "Idle" /\ st'[q] = Waiting
    BY Zenon DEF PowerLoss, Die, Forgotten
  <2>2. ASSUME NEW e \in Attempts PROVE st'[q][e[2]] # "Verified"
    BY <2>1, CoordinatorAssumption DEF Waiting
  <2> QED
    BY <2>1, <2>2 DEF CleanInv
<1>8. UNCHANGED vars => CleanInv(q)'
    BY <1>1, Zenon DEF vars, disk, object, CleanInv
<1> QED
    BY <1>a, <1>3, <1>4, <1>5, <1>6, <1>7, <1>8, Zenon DEF Next

-----------------------------------------------------------------------------
(***************************************************************************)
(* ReviewInv: between the comparison of acknowledge_incident and clear the *)
(* lock keeps the marker, and no operation is left that could act.         *)
(***************************************************************************)
LEMMA ReviewStep ==
    ASSUME NEW q \in Processes
    PROVE  IInv /\ OInv /\ [Next]_vars => ReviewInv(q)'
<1>a. SUFFICES ASSUME IInv, OInv, [Next]_vars PROVE ReviewInv(q)'
    OBVIOUS
<1>0. /\ TypeOK /\ LockInv /\ CallInv /\ MarkerInv /\ InflightInv /\ StoppedInv /\ ApprovedInv
      /\ UnresolvedIsMarked /\ ReviewInv(q)
    BY <1>a DEF IInv, OInv
<1> USE DEF AckLabels
<1>1. ASSUME \/ pc[q] = "AckPolicy" /\ seen[q] = TRUE
             \/ pc[q] = "ClearUnlink" /\ mode[q] = "ack"
      PROVE  inflight = {}
  <2>1. visible = attempt[q] /\ attempt[q] \notin inflight
    BY <1>0, <1>1, Zenon DEF ReviewInv, MarkerInv, StoppedInv, ApprovedInv
  <2> QED
    BY <1>0, <2>1 DEF InflightInv, UnresolvedIsMarked
<1>2. ASSUME NEW p \in Processes, p # q, Call(p) \/ Step(p) \/ Crash(p) PROVE ReviewInv(q)'
  <2>1. effects' = effects
    BY <1>2, ProcessKeepsEffects
  <2>2. pc[q] \in AckLabels => visible' = visible
    BY <1>0, <1>2, DiskStep, Zenon DEF LockInv, HoldsLock
  <2> QED
    BY <1>0, <1>2, <2>1, <2>2, OthersKeep, Zenon DEF ReviewInv
<1>3. ASSUME Call(q) \/ Step(q) \/ Crash(q) PROVE ReviewInv(q)'
  <2>1. Arrivals(q)
    BY <1>0, <1>3, ControlFlow, Zenon
  <2>2. CASE pc'[q] = "AckProbe"
    <3>1. AckBegin(q)
      BY <2>1, <2>2, Zenon DEF Arrivals
    <3> QED
      BY <1>0, <2>2, <3>1, Zenon DEF AckBegin, ReviewInv, disk, TypeOK, FrameType
  <2>3. CASE pc'[q] = "AckPolicy"
    <3>1. AckProbe(q)
      BY <2>1, <2>3, Zenon DEF Arrivals
    <3>2. effects = review[q].seen
      BY <1>0, <2>3, <3>1, Zenon DEF AckProbe, Goto, TypeOK, FrameType
    <3>3. review[q] # NoReview /\ attempt[q] = review[q].attempt /\ visible = attempt[q]
      BY <1>0, <3>1, Departures, Zenon DEF CallInv, ReviewInv
    <3> QED
      BY <2>3, <3>1, <3>2, <3>3, Zenon DEF AckProbe, ReviewInv, object, native, disk
  <2>4. CASE pc'[q] = "ClearUnlink"
    <3>1. Bind(q) \/ AckPolicy(q)
      BY <2>1, <2>4, Zenon DEF Arrivals
    <3>2. mode'[q] = mode[q] /\ attempt'[q] = attempt[q]
      BY <1>0, <2>4, <3>1, FrameMove, Departures, Zenon DEF Step
    <3>3. Bind(q) => mode[q] # "ack"
      BY <1>0, Departures, Zenon DEF CallInv, ActionLabels, DispatchedLabels
    <3>4. ASSUME AckPolicy(q) PROVE seen[q] = TRUE
      BY <1>0, <2>4, <3>4, Zenon DEF AckPolicy, Goto, TypeOK, FrameType
    <3>5. review' = review /\ effects' = effects
      BY <3>1, Zenon DEF Bind, AckPolicy, object, native
    <3> QED
      BY <1>0, <2>4, <3>1, <3>2, <3>3, <3>4, <3>5, Departures, Zenon DEF ReviewInv
  <2> QED
    BY <2>2, <2>3, <2>4, Zenon DEF ReviewInv
<1>4. ASSUME NEW t \in Attempts, NativeEffect(t) \/ NativeStops(t) PROVE ReviewInv(q)'
    BY <1>0, <1>1, <1>4, Zenon DEF NativeEffect, NativeStops, ReviewInv, frame, object, disk
<1>5. ASSUME Writeback, UNCHANGED <<mode, outcome, seen, object, used, native, history>>
      PROVE  ReviewInv(q)'
    BY <1>0, <1>5, Zenon DEF Writeback, ReviewInv, object, native
<1>6. PowerLoss => ReviewInv(q)'
    BY Zenon DEF PowerLoss, Die, Forgotten, ReviewInv
<1>7. UNCHANGED vars => ReviewInv(q)'
    BY <1>0, Zenon DEF vars, frame, object, native, disk, ReviewInv
<1> QED
    BY <1>a, <1>2, <1>3, <1>4, <1>5, <1>6, <1>7, Zenon DEF Next

-----------------------------------------------------------------------------
(* OInv holds in every reachable state, whatever the processes, runs and actions. *)
THEOREM OutcomeInvariance == Spec => []OInv
<1>1. Init => OInv
  <2> SUFFICES ASSUME Init, NEW p \in Processes
               PROVE  WorkInv(p) /\ OrderInv(p) /\ LatchInv(p) /\ CleanInv(p) /\ ReviewInv(p)
      BY DEF OInv
  <2>1. pc[p] = "Idle" /\ st[p] = Waiting /\ goal[p] = FALSE /\ halted[p] = FALSE
      BY DEF Init
  <2>2. \A a \in Actions : st[p][a] = "Waiting"
      BY <2>1 DEF Waiting
  <2>3. visible = NoAttempt /\ durable = NoAttempt
      BY DEF Init, StoreInit
  <2>4. WorkInv(p) /\ OrderInv(p) /\ ReviewInv(p)
      BY <2>1, <2>2, Zenon DEF WorkInv, RemovalLabels, ClearLabels, OrderInv, ReviewInv, AckLabels
  <2>5. LatchInv(p)
      BY <2>1, <2>2, Zenon DEF LatchInv, HoldsLock, Dispatching, DispatchedLabels, ExitLabels, ClearLabels
  <2>6. CleanInv(p)
      BY <2>1, <2>3, AttemptAssumption, Zenon DEF CleanInv
  <2> QED
      BY <2>4, <2>5, <2>6
<1>2. IInv /\ OInv /\ [Next]_vars => OInv'
    BY WorkStep, OrderStep, LatchStep, CleanStep, ReviewStep, Zenon DEF OInv
<1> QED
    BY <1>1, <1>2, Invariance, PTL DEF Spec

(***************************************************************************)
(* record_verification can be believed: an action that is Verified had its *)
(* effect in this very run, and so had every action ordered before it.     *)
(***************************************************************************)
THEOREM VerifiedIsTrue == Spec => []VerifiedHasEffect
<1>1. OInv => VerifiedHasEffect
    BY Zenon DEF OInv, OrderInv, PredecessorsVerified, VerifiedHasEffect
<1> QED
    BY <1>1, OutcomeInvariance, PTL

(***************************************************************************)
(* record_goal_verification can be believed after a power loss: no marker  *)
(* of a verified run is on disk, visible or durable, and all its attempts  *)
(* are resolved.                                                           *)
(***************************************************************************)
THEOREM VerifiedIsClean == Spec => []VerifiedRunIsClean
<1>1. IInv /\ OInv => VerifiedRunIsClean
  <2> SUFFICES ASSUME IInv, OInv, NEW p \in Processes, goal[p]
               PROVE  /\ AllVerified(st[p])
                      /\ \A a \in Actions : <<run[p], a>> \in closed
                      /\ \A e \in {visible, durable} : e \in Attempts => e[1] # run[p]
      BY Zenon DEF VerifiedRunIsClean
  <2>1. halted[p] = FALSE /\ AllVerified(st[p])
      BY Zenon DEF OInv, LatchInv, IInv, TypeOK, ObjectType
  <2>2. \A a \in Actions : <<run[p], a>> \in closed
      BY <2>1, Zenon DEF OInv, LatchInv, AllVerified
  <2>3. \A e \in {visible, durable} : e \in Attempts => e[1] # run[p]
      BY <2>1, CoordinatorAssumption, Zenon DEF OInv, CleanInv, AllVerified
  <2> QED
      BY <2>1, <2>2, <2>3, Zenon
<1> QED
    BY <1>1, Invariance, OutcomeInvariance, PTL

(***************************************************************************)
(* The marker of an invoked attempt is removed only when its operation has *)
(* stopped, and only after its effect was verified or on an acknowledgment *)
(* whose review shows exactly the present state.                           *)
(***************************************************************************)
THEOREM RemovalHasReason == Spec => RemovalIsJustified
<1>1. ASSUME IInv, OInv, Next, NEW t \in closed' \ closed
      PROVE  /\ t \notin inflight
             /\ IF mode[holder] = "ack"
                  THEN review[holder].attempt = t /\ review[holder].seen = effects
                  ELSE t \in effects
  <2>1. PICK p \in Processes : Clear(p)
    BY <1>1, HistoryStep, Zenon DEF Invoke, history
  <2>2. t = visible /\ t \in begun /\ visible' # visible
    BY <1>1, <2>1 DEF Clear
  <2>3. pc[p] = "ClearUnlink"
    BY <1>1, <2>1, <2>2, Zenon DEF Clear, ClearUnlink, ClearDirSync, Poison, disk
  <2>4. t = attempt[p] /\ t \notin inflight
    BY <1>1, <2>2, <2>3, Zenon DEF IInv, MarkerInv, StoppedInv
  <2>5. holder = p
    BY <1>1, <2>3, Zenon DEF IInv, LockInv, HoldsLock
  <2>6. mode[p] = "ack" => review[p].attempt = t /\ review[p].seen = effects
    BY <1>1, <2>3, <2>4, Zenon DEF OInv, ReviewInv
  <2>7. ASSUME mode[p] # "ack" PROVE t \in effects
    <3>1. attempt[p][1] = run[p] /\ st[p][attempt[p][2]] = "Verified" /\ attempt[p] \in Attempts
      BY <1>1, <2>3, <2>7, Zenon DEF OInv, WorkInv, RemovalLabels, ClearLabels, IInv, CallInv, ExitLabels
    <3>2. attempt[p] = <<run[p], attempt[p][2]>> /\ attempt[p][2] \in Actions
      BY <3>1, CoordinatorAssumption
    <3> QED
      BY <1>1, <2>4, <3>1, <3>2, Zenon DEF OInv, OrderInv
  <2> QED
    BY <2>4, <2>5, <2>6, <2>7, Zenon
<1>2. IInv /\ OInv /\ [Next]_vars =>
        [\A t \in closed' \ closed :
           /\ t \notin inflight
           /\ IF mode[holder] = "ack"
                THEN review[holder].attempt = t /\ review[holder].seen = effects
                ELSE t \in effects]_vars
    BY <1>1, Zenon
<1> QED
    BY <1>2, Invariance, OutcomeInvariance, PTL DEF Spec, RemovalIsJustified

=============================================================================

------------------------- MODULE ExecutionRunProofs -------------------------
(***************************************************************************)
(* The record of a run is right for every plan, every set of reports and   *)
(* every size of the event ring.                                           *)
(*                                                                         *)
(* The properties are not inductive.  That an admission saw the effects of *)
(* its predecessors needs that they stay Verified once a check has begun   *)
(* (OrderInv), and that no retained observation is later than the latest   *)
(* one (LatestInv), against which every new one is compared.  That a       *)
(* client which polls sees the states needs that the retained events tell  *)
(* them, and that whatever the view misses is an event after the cursor or *)
(* a gap (ViewInv).                                                        *)
(***************************************************************************)
EXTENDS RunReplay, TLAPS

Admissions == [observation : Observations, applicability : LiveCheckStatus,
               held : Held, checks : Checks]

Kinds ==
    [type : {"ActionState"}, action : Actions, state : ActionRunState]
      \union [type : {"Admission"}, action : Actions, admitted : BOOLEAN]
      \union [type : {"Progress"}, action : Actions]
      \union [type : {"GoalVerification"}, verified : BOOLEAN]

Event == [sequence : Nat, kind : Kinds]

RunType ==
    /\ state \in [Actions -> ActionRunState]
    /\ admission \in [Actions -> Admissions \union {None}]
    /\ completion \in [Actions -> BackendCompletion \union {None}]
    /\ verification \in [Actions -> VerificationReport \union {None}]
    /\ latest \in Observations \union {None}

(* A check begins after the predecessors are verified, and evidence comes after it began. *)
OrderInv ==
    \A a \in Actions :
        /\ state[a] # "Waiting" => PredecessorsVerified(state, a)
        /\ admission[a] # None => state[a] # "Waiting"
        /\ completion[a] # None => state[a] \notin {"Waiting", "Checking", "Admitted", "Running"}

(* No retained observation is later than the latest one, or of another instance. *)
Seen(o, last) == last # None /\ o.instance = last.instance /\ o.epoch <= last.epoch

LatestInv ==
    \A a \in Actions :
        /\ admission[a] # None => Seen(admission[a].observation, latest)
        /\ completion[a] # None => Seen(completion[a].observation, latest)

IInv == RunType /\ OrderInv /\ LatestInv /\ EvidenceBacksState
            /\ AdmissionSeesPredecessors /\ SerialExecution

(* The ring before number n: its numbers are consecutive and end at n - 1. *)
Ring(ring, n) ==
    /\ ring \in Seq(Event) /\ n \in Nat /\ n >= 1
    /\ Len(ring) <= MaxRunEvents
    /\ Len(ring) < n
    /\ n > 1 => Len(ring) > 0
    /\ \A i \in 1..Len(ring) : ring[i].sequence = n - 1 - Len(ring) + i

LogInv == Ring(events, next) /\ next <= U64Max

-----------------------------------------------------------------------------
(* Evidence that admits or verifies has no status but Satisfied. *)
LEMMA SatisfiedEvidence ==
    ASSUME NEW checks \in Checks, NEW other, NEW satisfied, NEW unknown,
           satisfied # "Failed", satisfied # unknown, other \in LiveCheckStatus,
           EvidenceState({other} \union Statuses(checks), satisfied, unknown) = satisfied
    PROVE  other = "Satisfied" /\ Statuses(checks) \subseteq {"Satisfied"}
  BY RunAssumption DEF EvidenceState, Statuses, LiveCheckStatus

LEMMA SatisfiedChecks ==
    ASSUME NEW checks \in Checks, NEW satisfied, NEW unknown,
           satisfied # "Failed", satisfied # unknown,
           EvidenceState(Statuses(checks), satisfied, unknown) = satisfied
    PROVE  Statuses(checks) \subseteq {"Satisfied"}
  BY RunAssumption DEF EvidenceState, Statuses, LiveCheckStatus

(* Checks that cover the required conditions are about exactly these. *)
LEMMA CoverIsExact ==
    ASSUME NEW required, NEW checks, ChecksCover(required, checks)
    PROVE  Conditions(checks) = required
  BY DEF ChecksCover, Conditions

-----------------------------------------------------------------------------
LEMMA TypeStep ==
    ASSUME RunType, [Next]_vars
    PROVE  RunType'
<1>1. ASSUME NEW a \in Actions, BeginCheck(a) PROVE RunType'
  BY <1>1 DEF RunType, BeginCheck, SetState, evidence, ActionRunState
<1>2. ASSUME NEW a \in Actions, RecordAdmission(a) PROVE RunType'
  <2>1. PICK r \in AdmissionReport(a) :
            /\ latest' = r.observation
            /\ admission' = [admission EXCEPT ![a] = r]
            /\ \/ UNCHANGED state
               \/ state' = [state EXCEPT ![a] =
                      EvidenceState({r.applicability} \union Statuses(r.checks), "Admitted", "Checking")]
    BY <1>2, Zenon DEF RecordAdmission
  <2>2. r \in Admissions /\ r.observation \in Observations
    BY DEF AdmissionReport, Admissions
  <2> QED
    BY <1>2, <2>1, <2>2 DEF RunType, RecordAdmission, EvidenceState, ActionRunState
<1>3. ASSUME NEW a \in Actions, MarkDispatchStarted(a) PROVE RunType'
  BY <1>3 DEF RunType, MarkDispatchStarted, SetState, evidence, ActionRunState
<1>4. ASSUME NEW a \in Actions, MarkPreDispatchFailed(a) PROVE RunType'
  BY <1>4 DEF RunType, MarkPreDispatchFailed, SetState, ActionRunState
<1>5. ASSUME NEW a \in Actions, RecordCompletion(a) PROVE RunType'
  BY <1>5 DEF RunType, RecordCompletion, BackendCompletion, SetState, CompletionState, ActionRunState
<1>6. ASSUME NEW a \in Actions, RecordVerification(a) PROVE RunType'
  BY <1>6 DEF RunType, RecordVerification, SetState, EvidenceState, ActionRunState
<1>7. ASSUME NEW a \in Actions, MarkOutcomeUnknown(a) PROVE RunType'
  BY <1>7 DEF RunType, MarkOutcomeUnknown, SetState, ActionRunState
<1>8. ASSUME NEW a \in Actions, RecordProgress(a) PROVE RunType'
  BY <1>8 DEF RunType, RecordProgress, evidence
<1>9. ASSUME RecordGoalVerification PROVE RunType'
  BY <1>9 DEF RunType, RecordGoalVerification, GoalVerificationReport, evidence
<1>10. ASSUME UNCHANGED vars PROVE RunType'
  BY <1>10 DEF RunType, vars, evidence
<1> QED
  BY <1>1, <1>2, <1>3, <1>4, <1>5, <1>6, <1>7, <1>8, <1>9, <1>10 DEF Next

(* A step changes one action's state, or none; nothing that was Verified moves. *)
LEMMA StateStep ==
    ASSUME RunType, Next
    PROVE  \/ UNCHANGED state
           \/ \E a \in Actions : /\ state[a] \in Active \union {"Waiting"}
                                 /\ state[a] = "Waiting" => CanBeginCheck(state, a)
                                 /\ \E s \in ActionRunState \ {"Waiting"} :
                                        state' = [state EXCEPT ![a] = s]
<1>1. ASSUME NEW a \in Actions, BeginCheck(a)
      PROVE  state[a] = "Waiting" /\ CanBeginCheck(state, a) /\ state' = [state EXCEPT ![a] = "Checking"]
  BY <1>1 DEF BeginCheck, CanBeginCheck, SetState
<1>2. ASSUME NEW a \in Actions, RecordAdmission(a)
      PROVE  /\ state[a] = "Checking"
             /\ \/ UNCHANGED state
                \/ \E s \in ActionRunState \ {"Waiting"} : state' = [state EXCEPT ![a] = s]
  BY <1>2 DEF RecordAdmission, EvidenceState, ActionRunState
<1>3. ASSUME NEW a \in Actions, MarkDispatchStarted(a)
      PROVE  state[a] = "Admitted" /\ state' = [state EXCEPT ![a] = "Running"]
  BY <1>3 DEF MarkDispatchStarted, SetState
<1>4. ASSUME NEW a \in Actions, MarkPreDispatchFailed(a)
      PROVE  state[a] = "Admitted" /\ state' = [state EXCEPT ![a] = "Failed"]
  BY <1>4 DEF MarkPreDispatchFailed, SetState
<1>5. ASSUME NEW a \in Actions, RecordCompletion(a)
      PROVE  /\ state[a] = "Running"
             /\ \E s \in ActionRunState \ {"Waiting"} : state' = [state EXCEPT ![a] = s]
  BY <1>5, Zenon DEF RecordCompletion, SetState, CompletionState, ActionRunState
<1>6. ASSUME NEW a \in Actions, RecordVerification(a)
      PROVE  /\ state[a] = "Verifying"
             /\ \E s \in ActionRunState \ {"Waiting"} : state' = [state EXCEPT ![a] = s]
  BY <1>6, Zenon DEF RecordVerification, SetState, EvidenceState, ActionRunState
<1>7. ASSUME NEW a \in Actions, MarkOutcomeUnknown(a)
      PROVE  state[a] \in {"Running", "Verifying"} /\ state' = [state EXCEPT ![a] = "OutcomeUnknown"]
  BY <1>7 DEF MarkOutcomeUnknown, SetState
<1>8. ASSUME NEW a \in Actions, RecordProgress(a) PROVE UNCHANGED state
  BY <1>8 DEF RecordProgress
<1>9. ASSUME RecordGoalVerification PROVE UNCHANGED state
  BY <1>9 DEF RecordGoalVerification
<1> QED
  BY <1>1, <1>2, <1>3, <1>4, <1>5, <1>6, <1>7, <1>8, <1>9 DEF Next, ActionRunState, Active

(***************************************************************************)
(* The run keeps its plan order: predecessors of what has begun are        *)
(* Verified, and stay so.                                                  *)
(***************************************************************************)
LEMMA OrderKept ==
    ASSUME RunType, [Next]_vars,
           \A a \in Actions : state[a] # "Waiting" => PredecessorsVerified(state, a)
    PROVE  \A a \in Actions : state'[a] # "Waiting" => PredecessorsVerified(state', a)
<1>1. CASE UNCHANGED state
  BY <1>1 DEF PredecessorsVerified
<1>2. CASE Next
  BY <1>1, <1>2, StateStep DEF RunType, PredecessorsVerified, CanBeginCheck, Active
<1> QED
  BY <1>1, <1>2 DEF vars

LEMMA SerialStep ==
    ASSUME RunType, SerialExecution, [Next]_vars
    PROVE  SerialExecution'
<1>1. CASE UNCHANGED state
  BY <1>1 DEF SerialExecution
<1>2. CASE Next
  BY <1>1, <1>2, StateStep DEF RunType, SerialExecution, CanBeginCheck, ActiveAction, Active
<1> QED
  BY <1>1, <1>2 DEF vars

(***************************************************************************)
(* Evidence is retained only for an action that has begun, and a           *)
(* completion only when it has left Running.                               *)
(***************************************************************************)
LEMMA OrderStep ==
    ASSUME RunType, OrderInv, [Next]_vars
    PROVE  OrderInv'
<1> DEFINE
      Begun == \A a \in Actions : admission[a] # None => state[a] # "Waiting"
      Left == \A a \in Actions : completion[a] # None =>
                  state[a] \notin {"Waiting", "Checking", "Admitted", "Running"}
<1>0. Begun /\ Left
  BY DEF OrderInv
<1>1. ASSUME NEW a \in Actions, BeginCheck(a) PROVE Begun' /\ Left'
  BY <1>0, <1>1 DEF RunType, BeginCheck, CanBeginCheck, SetState, evidence
<1>2. ASSUME NEW a \in Actions, RecordAdmission(a) PROVE Begun' /\ Left'
  BY <1>0, <1>2 DEF RunType, RecordAdmission, EvidenceState
<1>3. ASSUME NEW a \in Actions, MarkDispatchStarted(a) PROVE Begun' /\ Left'
  BY <1>0, <1>3 DEF RunType, MarkDispatchStarted, SetState, evidence
<1>4. ASSUME NEW a \in Actions, MarkPreDispatchFailed(a) PROVE Begun' /\ Left'
  BY <1>0, <1>4 DEF RunType, MarkPreDispatchFailed, SetState
<1>5. ASSUME NEW a \in Actions, RecordCompletion(a) PROVE Begun' /\ Left'
  BY <1>0, <1>5 DEF RunType, RecordCompletion, SetState, CompletionState
<1>6. ASSUME NEW a \in Actions, RecordVerification(a) PROVE Begun' /\ Left'
  BY <1>0, <1>6 DEF RunType, RecordVerification, SetState, EvidenceState
<1>7. ASSUME NEW a \in Actions, MarkOutcomeUnknown(a) PROVE Begun' /\ Left'
  BY <1>0, <1>7 DEF RunType, MarkOutcomeUnknown, SetState
<1>8. ASSUME NEW a \in Actions, RecordProgress(a) PROVE Begun' /\ Left'
  BY <1>0, <1>8 DEF RecordProgress, evidence
<1>9. ASSUME RecordGoalVerification PROVE Begun' /\ Left'
  BY <1>0, <1>9 DEF RecordGoalVerification, evidence
<1>10. ASSUME UNCHANGED vars PROVE Begun' /\ Left'
  BY <1>0, <1>10 DEF vars, evidence
<1>11. Begun' /\ Left'
  BY <1>1, <1>2, <1>3, <1>4, <1>5, <1>6, <1>7, <1>8, <1>9, <1>10 DEF Next
<1> QED
  BY <1>11, OrderKept DEF OrderInv

(* A fresh observation is of the run's instance and later than every retained one. *)
LEMMA FreshIsLater ==
    ASSUME RunType, NEW o \in Observations, Fresh(o), latest' = o,
           NEW old \in Observations, Seen(old, latest)
    PROVE  /\ Seen(old, latest')
           /\ old.instance = o.instance /\ old.epoch < o.epoch
  BY RunAssumption DEF RunType, Fresh, Seen

LEMMA LatestStep ==
    ASSUME RunType, LatestInv, [Next]_vars
    PROVE  LatestInv'
<1>0. /\ \A a \in Actions : admission[a] # None => admission[a].observation \in Observations
      /\ \A a \in Actions : completion[a] # None => completion[a].observation \in Observations
  BY DEF RunType, Admissions, BackendCompletion
<1>1. ASSUME UNCHANGED <<admission, completion, latest>> PROVE LatestInv'
  BY <1>1 DEF LatestInv, Seen
<1>2. ASSUME NEW o \in Observations, Fresh(o), latest' = o
      PROVE  /\ Seen(o, latest')
             /\ \A a \in Actions :
                  /\ admission[a] # None => Seen(admission[a].observation, latest')
                  /\ completion[a] # None => Seen(completion[a].observation, latest')
  <2>1. Seen(o, latest')
    BY <1>2, RunAssumption DEF Seen
  <2>2. ASSUME NEW a \in Actions
        PROVE  /\ admission[a] # None => Seen(admission[a].observation, latest')
               /\ completion[a] # None => Seen(completion[a].observation, latest')
    BY <1>0, <1>2, FreshIsLater DEF LatestInv
  <2> QED
    BY <2>1, <2>2
<1>3. ASSUME NEW a \in Actions, RecordAdmission(a) PROVE LatestInv'
  <2>1. PICK r \in AdmissionReport(a) : latest' = r.observation /\ admission' = [admission EXCEPT ![a] = r]
    BY <1>3, Zenon DEF RecordAdmission
  <2>2. r.observation \in Observations /\ Fresh(r.observation)
    BY DEF AdmissionReport
  <2> QED
    BY <1>2, <1>3, <2>1, <2>2 DEF RunType, RecordAdmission, LatestInv
<1>4. ASSUME NEW a \in Actions, RecordCompletion(a) PROVE LatestInv'
  <2>1. PICK c \in BackendCompletion :
            Fresh(c.observation) /\ latest' = c.observation /\ completion' = [completion EXCEPT ![a] = c]
    BY <1>4, Zenon DEF RecordCompletion
  <2>2. c.observation \in Observations
    BY DEF BackendCompletion
  <2> QED
    BY <1>2, <1>4, <2>1, <2>2 DEF RunType, RecordCompletion, LatestInv
<1>5. ASSUME RecordGoalVerification PROVE LatestInv'
  BY <1>2, <1>5, Zenon DEF RecordGoalVerification, GoalVerificationReport, LatestInv, evidence
<1>6. CASE UNCHANGED vars
  BY <1>1, <1>6 DEF vars, evidence
<1> QED
  BY <1>1, <1>3, <1>4, <1>5, <1>6
     DEF Next, BeginCheck, MarkDispatchStarted, MarkPreDispatchFailed, RecordVerification,
         MarkOutcomeUnknown, RecordProgress, evidence

(***************************************************************************)
(* Each transition leaves the evidence that its state needs.               *)
(***************************************************************************)
(* What the evidence of one action has to be in state s. *)
Backs(s, adm, com, ver, a) ==
    /\ s \in {"Admitted", "Running", "Verifying", "Verified"} =>
         /\ adm # None
         /\ adm.applicability = "Satisfied"
         /\ Conditions(adm.checks) = Prerequisites[a]
         /\ Statuses(adm.checks) \subseteq {"Satisfied"}
         /\ ResourcesHeld(Required[a], adm.held)
    /\ s \in {"Verifying", "Verified"} =>
         /\ com # None
         /\ com.outcome = "Succeeded"
         /\ com.observation.instance = adm.observation.instance
         /\ com.observation.epoch > adm.observation.epoch
    /\ s = "Verified" =>
         /\ ver # None
         /\ ver.observation = com.observation
         /\ Conditions(ver.checks) = Postconditions[a]
         /\ Statuses(ver.checks) \subseteq {"Satisfied"}

LEMMA BacksState ==
    /\ EvidenceBacksState <=>
          \A a \in Actions : Backs(state[a], admission[a], completion[a], verification[a], a)
    /\ EvidenceBacksState' <=>
          \A a \in Actions : Backs(state'[a], admission'[a], completion'[a], verification'[a], a)
  BY DEF EvidenceBacksState, Backs

(* A step that concerns one action only has to look at that action's evidence. *)
LEMMA BacksFrame ==
    ASSUME EvidenceBacksState, NEW a \in Actions,
           \A b \in Actions \ {a} :
               UNCHANGED <<state[b], admission[b], completion[b], verification[b]>>,
           Backs(state'[a], admission'[a], completion'[a], verification'[a], a)
    PROVE  EvidenceBacksState'
  BY BacksState

LEMMA EvidenceStep ==
    ASSUME RunType, LatestInv, EvidenceBacksState, [Next]_vars
    PROVE  EvidenceBacksState'
<1>0. \A b \in Actions : Backs(state[b], admission[b], completion[b], verification[b], b)
  BY BacksState
<1>1. ASSUME NEW a \in Actions, UNCHANGED <<admission, completion, verification>>,
             \E s \in ActionRunState : state' = [state EXCEPT ![a] = s],
             \/ state'[a] \in {"Waiting", "Checking", "Failed", "OutcomeUnknown"}
             \/ state[a] = "Admitted" /\ state'[a] = "Running"
      PROVE  EvidenceBacksState'
  <2>1. \A b \in Actions \ {a} : UNCHANGED <<state[b], admission[b], completion[b], verification[b]>>
    BY <1>1 DEF RunType
  <2>2. Backs(state'[a], admission[a], completion[a], verification[a], a)
    BY <1>0, <1>1, Zenon DEF Backs
  <2> QED
    BY <1>1, <2>1, <2>2, BacksFrame
<1>2. ASSUME NEW a \in Actions, BeginCheck(a) PROVE EvidenceBacksState'
  BY <1>1, <1>2, Zenon DEF RunType, BeginCheck, SetState, evidence, ActionRunState
<1>3. ASSUME NEW a \in Actions, RecordAdmission(a) PROVE EvidenceBacksState'
  <2>1. PICK r \in AdmissionReport(a) :
            /\ admission' = [admission EXCEPT ![a] = r]
            /\ \/ UNCHANGED state
               \/ state' = [state EXCEPT ![a] =
                      EvidenceState({r.applicability} \union Statuses(r.checks), "Admitted", "Checking")]
    BY <1>3, Zenon DEF RecordAdmission
  <2>2. r \in Admissions /\ r # None /\ r.checks \in Checks /\ r.applicability \in LiveCheckStatus
    BY RunAssumption DEF AdmissionReport, Admissions
  <2>3. ChecksCover(Prerequisites[a], r.checks) /\ ResourcesHeld(Required[a], r.held)
    BY DEF AdmissionReport
  <2>4. state[a] = "Checking" /\ UNCHANGED <<completion, verification>>
    BY <1>3 DEF RecordAdmission
  <2>5. state'[a] \in {"Checking", "Failed", "Admitted"}
    BY <2>1, <2>4 DEF RunType, EvidenceState
  <2>6. state'[a] = "Admitted" =>
            r.applicability = "Satisfied" /\ Statuses(r.checks) \subseteq {"Satisfied"}
    BY <2>1, <2>2, <2>4, SatisfiedEvidence DEF RunType
  <2>7. Conditions(r.checks) = Prerequisites[a]
    BY <2>3, CoverIsExact
  <2>8. \A b \in Actions \ {a} : UNCHANGED <<state[b], admission[b]>>
    BY <2>1 DEF RunType
  <2>9. admission'[a] = r
    BY <2>1 DEF RunType
  <2>10. Backs(state'[a], r, completion[a], verification[a], a)
    BY <2>2, <2>3, <2>5, <2>6, <2>7 DEF Backs
  <2> QED
    BY <2>4, <2>8, <2>9, <2>10, BacksFrame, Zenon
<1>4. ASSUME NEW a \in Actions, MarkDispatchStarted(a) PROVE EvidenceBacksState'
  BY <1>1, <1>4, Zenon DEF RunType, MarkDispatchStarted, SetState, evidence, ActionRunState
<1>5. ASSUME NEW a \in Actions, MarkPreDispatchFailed(a) PROVE EvidenceBacksState'
  BY <1>1, <1>5, Zenon DEF RunType, MarkPreDispatchFailed, SetState, ActionRunState
<1>6. ASSUME NEW a \in Actions, RecordCompletion(a) PROVE EvidenceBacksState'
  <2>1. PICK c \in BackendCompletion :
            /\ Fresh(c.observation) /\ latest' = c.observation
            /\ completion' = [completion EXCEPT ![a] = c]
            /\ state' = [state EXCEPT ![a] = CompletionState(c.outcome)]
    BY <1>6, Zenon DEF RecordCompletion, SetState
  <2>2. c # None /\ c.observation \in Observations
    BY RunAssumption DEF BackendCompletion
  <2>3. state[a] = "Running" /\ UNCHANGED <<admission, verification>>
    BY <1>6 DEF RecordCompletion
  <2>4. admission[a] # None /\ admission[a].observation \in Observations
    BY <2>3 DEF RunType, EvidenceBacksState, Admissions
  <2>5. /\ admission[a].observation.instance = c.observation.instance
        /\ admission[a].observation.epoch < c.observation.epoch
    BY <2>1, <2>2, <2>4, FreshIsLater DEF LatestInv
  <2>6. state'[a] \in {"Verifying", "Failed", "OutcomeUnknown"}
        /\ (state'[a] = "Verifying" => c.outcome = "Succeeded")
    BY <2>1 DEF RunType, CompletionState
  <2>7. completion'[a] = c /\ \A b \in Actions \ {a} : UNCHANGED <<state[b], completion[b]>>
    BY <2>1 DEF RunType
  <2>8. c.observation.epoch \in Nat /\ admission[a].observation.epoch \in Nat
    BY <2>2, <2>4, RunAssumption
  <2>9. Backs(state'[a], admission[a], c, verification[a], a)
    BY <1>0, <2>2, <2>3, <2>5, <2>6, <2>8, Zenon DEF Backs
  <2> QED
    BY <2>3, <2>7, <2>9, BacksFrame
<1>7. ASSUME NEW a \in Actions, RecordVerification(a) PROVE EvidenceBacksState'
  <2>1. PICK r \in VerificationReport :
            /\ r.observation = completion[a].observation
            /\ ChecksCover(Postconditions[a], r.checks)
            /\ verification' = [verification EXCEPT ![a] = r]
            /\ state' = [state EXCEPT ![a] =
                             EvidenceState(Statuses(r.checks), "Verified", "OutcomeUnknown")]
    BY <1>7, Zenon DEF RecordVerification, SetState
  <2>2. r # None /\ r.checks \in Checks
    BY RunAssumption DEF VerificationReport
  <2>3. state[a] = "Verifying" /\ UNCHANGED <<admission, completion>>
    BY <1>7 DEF RecordVerification
  <2>4. state'[a] \in {"Verified", "Failed", "OutcomeUnknown"}
    BY <2>1 DEF RunType, EvidenceState
  <2>5. state'[a] = "Verified" => Statuses(r.checks) \subseteq {"Satisfied"}
    BY <2>1, <2>2, SatisfiedChecks DEF RunType
  <2>6. Conditions(r.checks) = Postconditions[a]
    BY <2>1, CoverIsExact
  <2>7. verification'[a] = r /\ \A b \in Actions \ {a} : UNCHANGED <<state[b], verification[b]>>
    BY <2>1 DEF RunType
  <2>8. Backs(state'[a], admission[a], completion[a], r, a)
    BY <1>0, <2>1, <2>2, <2>3, <2>4, <2>5, <2>6, Zenon DEF Backs
  <2> QED
    BY <2>3, <2>7, <2>8, BacksFrame, Zenon
<1>8. ASSUME NEW a \in Actions, MarkOutcomeUnknown(a) PROVE EvidenceBacksState'
  BY <1>1, <1>8, Zenon DEF RunType, MarkOutcomeUnknown, SetState, ActionRunState
<1>9. ASSUME UNCHANGED <<state, admission, completion, verification>> PROVE EvidenceBacksState'
  BY <1>0, <1>9, BacksState, Zenon
<1> QED
  BY <1>2, <1>3, <1>4, <1>5, <1>6, <1>7, <1>8, <1>9
     DEF Next, RecordProgress, RecordGoalVerification, vars, evidence

(***************************************************************************)
(* An admission is newer than the completions of its predecessors, and     *)
(* these do not change any more.                                           *)
(***************************************************************************)
LEMMA PredecessorsStep ==
    ASSUME RunType, OrderInv, LatestInv, EvidenceBacksState, AdmissionSeesPredecessors,
           [Next]_vars
    PROVE  AdmissionSeesPredecessors'
<1>1. ASSUME NEW a \in Actions, RecordAdmission(a) PROVE AdmissionSeesPredecessors'
  <2>1. PICK r \in AdmissionReport(a) :
            latest' = r.observation /\ admission' = [admission EXCEPT ![a] = r]
    BY <1>1, Zenon DEF RecordAdmission
  <2>2. r.observation \in Observations /\ Fresh(r.observation)
    BY Zenon DEF AdmissionReport
  <2>3. state[a] = "Checking" /\ UNCHANGED completion
    BY <1>1 DEF RecordAdmission
  <2>4. \A b \in Actions \ {a} : state'[b] = state[b]
    BY <1>1 DEF RunType, RecordAdmission
  <2>5. ASSUME NEW b \in Actions, <<b, a>> \in Before
        PROVE  /\ state'[b] = "Verified" /\ completion[b] # None
               /\ completion[b].observation.instance = r.observation.instance
               /\ completion[b].observation.epoch < r.observation.epoch
    <3>1. state[b] = "Verified" /\ b # a
      BY <2>3, <2>5 DEF OrderInv, PredecessorsVerified
    <3>2. state'[b] = "Verified"
      BY <2>4, <3>1
    <3>3. completion[b] # None /\ completion[b].observation \in Observations
      BY <3>1 DEF RunType, EvidenceBacksState, BackendCompletion
    <3> QED
      BY <2>1, <2>2, <3>2, <3>3, FreshIsLater DEF LatestInv
  <2>6. ASSUME NEW c \in Actions \ {a}, NEW b \in Actions, <<b, c>> \in Before, admission[c] # None
        PROVE  state'[b] = "Verified"
    <3>1. state[b] = "Verified" /\ b # a
      BY <2>3, <2>6 DEF AdmissionSeesPredecessors
    <3> QED
      BY <2>4, <3>1
  <2>7. admission'[a] = r /\ \A c \in Actions \ {a} : UNCHANGED admission[c]
    BY <2>1 DEF RunType
  <2> QED
    BY <2>3, <2>5, <2>6, <2>7 DEF AdmissionSeesPredecessors
<1>2. ASSUME NEW a \in Actions, RecordCompletion(a) PROVE AdmissionSeesPredecessors'
  <2>1. state[a] = "Running" /\ UNCHANGED admission
    BY <1>2 DEF RecordCompletion
  <2>2. \A b \in Actions \ {a} : UNCHANGED <<state[b], completion[b]>>
    BY <1>2 DEF RunType, RecordCompletion, SetState
  <2> QED
    BY <2>1, <2>2 DEF AdmissionSeesPredecessors
<1>3. ASSUME UNCHANGED <<admission, completion>>, Next PROVE AdmissionSeesPredecessors'
  <2>1. \A b \in Actions : state[b] = "Verified" => state'[b] = "Verified"
    BY <1>3, StateStep DEF RunType, Active
  <2> QED
    BY <1>3, <2>1 DEF AdmissionSeesPredecessors
<1>4. CASE UNCHANGED vars
  BY <1>4 DEF AdmissionSeesPredecessors, vars, evidence
<1> QED
  BY <1>1, <1>2, <1>3, <1>4, Zenon
     DEF Next, BeginCheck, MarkDispatchStarted, MarkPreDispatchFailed, RecordVerification,
         MarkOutcomeUnknown, RecordProgress, RecordGoalVerification, evidence

LEMMA InitInv == Init => IInv
  BY RunAssumption, Zenon
     DEF Init, IInv, RunType, ActionRunState, OrderInv, LatestInv, EvidenceBacksState,
         AdmissionSeesPredecessors, SerialExecution, Active

LEMMA StepInv == IInv /\ [Next]_vars => IInv'
<1> SUFFICES ASSUME IInv, [Next]_vars PROVE IInv'
  OBVIOUS
<1>1. RunType' /\ OrderInv' /\ LatestInv' /\ EvidenceBacksState' /\ SerialExecution'
  BY TypeStep, OrderStep, LatestStep, EvidenceStep, SerialStep DEF IInv
<1>2. AdmissionSeesPredecessors'
  BY <1>1, PredecessorsStep DEF IInv
<1> QED
  BY <1>1, <1>2 DEF IInv

LEMMA Invariance == Spec => []IInv
  BY InitInv, StepInv, PTL DEF Spec

(***************************************************************************)
(* record_admission, record_completion and record_verification: whatever   *)
(* reports the callers bring in whatever order, the state of an action is  *)
(* backed by exactly the evidence it needs.                                *)
(***************************************************************************)
THEOREM EvidenceAlwaysBacks == Spec => []EvidenceBacksState
<1>1. IInv => EvidenceBacksState
  BY DEF IInv
<1> QED
  BY <1>1, Invariance, PTL

(***************************************************************************)
(* begin_check with check_fresh_observation: in every plan, an action is   *)
(* admitted only on a view taken after the completion of each predecessor. *)
(***************************************************************************)
THEOREM AdmittedAfterPredecessors == Spec => []AdmissionSeesPredecessors
<1>1. IInv => AdmissionSeesPredecessors
  BY DEF IInv
<1> QED
  BY <1>1, Invariance, PTL

(***************************************************************************)
(* begin_check: the actions of a run never overlap, also those that the    *)
(* plan leaves unordered.                                                  *)
(***************************************************************************)
THEOREM AlwaysSerial == Spec => []SerialExecution
<1>1. IInv => SerialExecution
  BY DEF IInv
<1> QED
  BY <1>1, Invariance, PTL

-----------------------------------------------------------------------------
LEMMA PushKeepsRing ==
    ASSUME NEW ring, NEW n, NEW kind \in Kinds, Ring(ring, n)
    PROVE  Ring(Pushed(ring, n, kind), n + 1)
<1> DEFINE kept == IF Len(ring) = MaxRunEvents THEN Tail(ring) ELSE ring
           e == [sequence |-> n, kind |-> kind]
<1>1. ring \in Seq(Event) /\ n \in Nat /\ n >= 1 /\ Len(ring) \in Nat /\ e \in Event
      /\ MaxRunEvents \in Nat \ {0}
  BY RunAssumption DEF Ring, Event
<1>2. /\ kept \in Seq(Event) /\ Len(kept) < MaxRunEvents /\ Len(kept) < n
      /\ \A i \in 1..Len(kept) : kept[i].sequence = n - 1 - Len(kept) + i
  <2>1. CASE Len(ring) = MaxRunEvents
    <3>1. ring # << >> /\ Tail(ring) \in Seq(Event) /\ Len(Tail(ring)) = Len(ring) - 1
      BY <1>1, <2>1
    <3>2. \A i \in 1..Len(Tail(ring)) : Tail(ring)[i] = ring[i + 1] /\ i + 1 \in 1..Len(ring)
      BY <1>1, <3>1
    <3>3. ASSUME NEW i \in 1..Len(Tail(ring))
          PROVE  Tail(ring)[i].sequence = n - 1 - Len(Tail(ring)) + i
      <4>1. ring[i + 1].sequence = n - 1 - Len(ring) + (i + 1)
        BY <3>2 DEF Ring
      <4>2. Tail(ring)[i].sequence = n - 1 - Len(ring) + (i + 1)
        BY <3>2, <4>1
      <4> QED
        BY <1>1, <3>1, <4>2
    <3>4. kept = Tail(ring) /\ Len(ring) < n
      BY <2>1 DEF Ring
    <3> HIDE DEF kept
    <3> QED
      BY <1>1, <2>1, <3>1, <3>3, <3>4
  <2>2. CASE Len(ring) # MaxRunEvents
    BY <1>1, <2>2 DEF Ring
  <2> QED
    BY <2>1, <2>2
<1> HIDE DEF kept, e
<1>3. /\ Append(kept, e) \in Seq(Event) /\ Len(Append(kept, e)) = Len(kept) + 1
      /\ \A i \in 1..Len(kept) : Append(kept, e)[i] = kept[i]
      /\ Append(kept, e)[Len(kept) + 1] = e
  BY <1>1, <1>2
<1>4. e.sequence = n /\ Len(kept) \in Nat
  BY <1>2 DEF e
<1>5. ASSUME NEW i \in 1..(Len(kept) + 1)
      PROVE  Append(kept, e)[i].sequence = (n + 1) - 1 - (Len(kept) + 1) + i
  <2>1. CASE i = Len(kept) + 1
    <3>1. Append(kept, e)[i].sequence = n
      BY <1>3, <1>4, <2>1
    <3> QED
      BY <1>1, <1>4, <2>1, <3>1
  <2>2. CASE i \in 1..Len(kept)
    <3>1. Append(kept, e)[i].sequence = n - 1 - Len(kept) + i
      BY <1>2, <1>3, <2>2
    <3> QED
      BY <1>1, <1>4, <2>2, <3>1
  <2> QED
    BY <1>4, <2>1, <2>2
<1>6. Ring(Append(kept, e), n + 1)
  <2> DEFINE new == Append(kept, e)
  <2>1. Len(new) <= MaxRunEvents /\ Len(new) < n + 1 /\ Len(new) > 0 /\ n + 1 \in Nat /\ n + 1 >= 1
    BY <1>1, <1>2, <1>3, <1>4
  <2>2. \A i \in 1..Len(new) : new[i].sequence = (n + 1) - 1 - Len(new) + i
    BY <1>3, <1>5
  <2> QED
    BY <1>3, <2>1, <2>2 DEF Ring
<1> QED
  BY <1>6 DEF Pushed, kept, e

LEMMA PushStep ==
    ASSUME LogInv, NEW kind \in Kinds, PushEvent(kind)
    PROVE  LogInv'
<1>1. Ring(Pushed(events, next, kind), next + 1)
  BY PushKeepsRing DEF LogInv
<1> QED
  BY <1>1 DEF LogInv, PushEvent, EventCapacity, Ring

LEMMA StateEvent ==
    ASSUME LogInv, NEW a \in Actions, NEW s \in ActionRunState, SetState(a, s)
    PROVE  LogInv'
<1>1. ActionStateEvent(a, s) \in Kinds
  BY DEF ActionStateEvent, Kinds
<1> QED
  BY <1>1, PushStep DEF SetState

LEMMA LogStep ==
    ASSUME LogInv, [Next]_vars
    PROVE  LogInv'
<1> USE DEF ActionRunState
<1>1. ASSUME NEW a \in Actions, BeginCheck(a) PROVE LogInv'
  BY <1>1, StateEvent DEF BeginCheck
<1>2. ASSUME NEW a \in Actions, RecordAdmission(a) PROVE LogInv'
  <2>1. PICK s \in ActionRunState :
            \/ PushEvent(AdmissionEvent(a, s = "Admitted"))
            \/ /\ EventCapacity(2)
               /\ events' = Pushed(Pushed(events, next, AdmissionEvent(a, s = "Admitted")),
                                   next + 1, ActionStateEvent(a, s))
               /\ next' = next + 2
    BY <1>2 DEF RecordAdmission, EvidenceState
  <2>2. AdmissionEvent(a, s = "Admitted") \in Kinds /\ ActionStateEvent(a, s) \in Kinds
    BY Zenon DEF AdmissionEvent, ActionStateEvent, Kinds
  <2>3. CASE PushEvent(AdmissionEvent(a, s = "Admitted"))
    BY <2>2, <2>3, PushStep
  <2>4. CASE /\ EventCapacity(2)
             /\ events' = Pushed(Pushed(events, next, AdmissionEvent(a, s = "Admitted")),
                                 next + 1, ActionStateEvent(a, s))
             /\ next' = next + 2
    <3>1. Ring(Pushed(events, next, AdmissionEvent(a, s = "Admitted")), next + 1)
      BY <2>2, PushKeepsRing DEF LogInv
    <3>2. Ring(events', (next + 1) + 1)
      BY <2>2, <2>4, <3>1, PushKeepsRing
    <3>3. next' = (next + 1) + 1 /\ next' <= U64Max
      BY <2>4 DEF LogInv, Ring, EventCapacity
    <3> QED
      BY <3>2, <3>3 DEF LogInv
  <2> QED
    BY <2>1, <2>3, <2>4
<1>3. ASSUME NEW a \in Actions, MarkDispatchStarted(a) PROVE LogInv'
  BY <1>3, StateEvent DEF MarkDispatchStarted
<1>4. ASSUME NEW a \in Actions, MarkPreDispatchFailed(a) PROVE LogInv'
  BY <1>4, StateEvent DEF MarkPreDispatchFailed
<1>5. ASSUME NEW a \in Actions, RecordCompletion(a) PROVE LogInv'
  BY <1>5, StateEvent DEF RecordCompletion, CompletionState
<1>6. ASSUME NEW a \in Actions, RecordVerification(a) PROVE LogInv'
  BY <1>6, StateEvent, Zenon DEF RecordVerification, EvidenceState
<1>7. ASSUME NEW a \in Actions, MarkOutcomeUnknown(a) PROVE LogInv'
  BY <1>7, StateEvent DEF MarkOutcomeUnknown
<1>8. ASSUME NEW a \in Actions, RecordProgress(a) PROVE LogInv'
  <2>1. ProgressEvent(a) \in Kinds
    BY DEF ProgressEvent, Kinds
  <2> QED
    BY <1>8, <2>1, PushStep DEF RecordProgress
<1>9. ASSUME RecordGoalVerification PROVE LogInv'
  <2>1. PICK r \in GoalVerificationReport : PushEvent(GoalEvent(Passed(r)))
    BY <1>9 DEF RecordGoalVerification
  <2>2. GoalEvent(Passed(r)) \in Kinds
    BY DEF GoalEvent, Passed, Kinds
  <2> QED
    BY <2>1, <2>2, PushStep
<1>10. ASSUME UNCHANGED vars PROVE LogInv'
  BY <1>10 DEF LogInv, vars, log
<1> QED
  BY <1>1, <1>2, <1>3, <1>4, <1>5, <1>6, <1>7, <1>8, <1>9, <1>10 DEF Next

(***************************************************************************)
(* push_event: for every capacity of the ring and every width of the       *)
(* counter, the retained numbers are consecutive up to the last one given, *)
(* also across the two events that one admission pushes.                   *)
(***************************************************************************)
THEOREM LogAlwaysContiguous == Spec => []EventLogContiguous
<1>1. Init => LogInv
  BY RunAssumption DEF Init, LogInv, Ring
<1>2. LogInv /\ [Next]_vars => LogInv'
  BY LogStep
<1>3. LogInv => EventLogContiguous
  BY DEF LogInv, Ring, EventLogContiguous
<1> QED
  BY <1>1, <1>2, <1>3, PTL DEF Spec

-----------------------------------------------------------------------------
(* The ring's last word about an action is the action's state. *)
Told(ring, st) ==
    \A a \in Actions : \A k \in 1..Len(ring) : ReportsState(ring[k], a) =>
        \E i \in 1..Len(ring) :
            /\ ReportsState(ring[i], a)
            /\ ring[i].kind.state = st[a]
            /\ \A j \in 1..Len(ring) : ReportsState(ring[j], a) => j <= i

(* What the client's view lacks is in the page after its cursor, or the page has a gap. *)
Follows(ring, st, c) ==
    \A a \in Actions :
        \/ ring # << >> /\ c < ring[1].sequence - 1
        \/ \E i \in 1..Len(ring) : ring[i].sequence > c /\ ReportsState(ring[i], a)
        \/ view[a] = st[a]

ViewInv ==
    /\ cursor \in Nat /\ cursor < next
    /\ view = [a \in Actions |-> view[a]]
    /\ Told(events, state)
    /\ Follows(events, state, cursor)

(* One event moves the ring by d places and comes last. *)
LEMMA PushedShape ==
    ASSUME NEW ring, NEW n, NEW kind, Ring(ring, n)
    PROVE  \E d \in {0, 1} :
              /\ Len(ring) >= d
              /\ Len(Pushed(ring, n, kind)) = Len(ring) + 1 - d
              /\ \A i \in 1..(Len(ring) - d) : Pushed(ring, n, kind)[i] = ring[i + d]
              /\ Pushed(ring, n, kind)[Len(ring) + 1 - d] = [sequence |-> n, kind |-> kind]
<1> DEFINE e == [sequence |-> n, kind |-> kind]
<1>1. ring \in Seq(Event) /\ Len(ring) \in Nat /\ MaxRunEvents \in Nat \ {0}
  BY RunAssumption DEF Ring
<1>2. CASE Len(ring) = MaxRunEvents
  <2>1. ring # << >> /\ Tail(ring) \in Seq(Event) /\ Len(Tail(ring)) = Len(ring) - 1
    BY <1>1, <1>2
  <2>2. \A i \in 1..Len(Tail(ring)) : Tail(ring)[i] = ring[i + 1]
    BY <1>1, <2>1
  <2>3. Pushed(ring, n, kind) = Append(Tail(ring), e)
    BY <1>2 DEF Pushed
  <2> HIDE DEF e
  <2>4. /\ Len(Append(Tail(ring), e)) = Len(ring)
        /\ \A i \in 1..(Len(ring) - 1) : Append(Tail(ring), e)[i] = Tail(ring)[i]
        /\ Append(Tail(ring), e)[Len(ring)] = e
    BY <1>1, <2>1
  <2> USE DEF e
  <2>5. 1 \in {0, 1} /\ Len(ring) >= 1 /\ Len(ring) + 1 - 1 = Len(ring)
    BY <1>1, <1>2
  <2> QED
    BY <2>1, <2>2, <2>3, <2>4, <2>5, Zenon
<1>3. CASE Len(ring) # MaxRunEvents
  <2>1. Pushed(ring, n, kind) = Append(ring, e)
    BY <1>3 DEF Pushed
  <2> HIDE DEF e
  <2>2. /\ Len(Append(ring, e)) = Len(ring) + 1
        /\ \A i \in 1..Len(ring) : Append(ring, e)[i] = ring[i]
        /\ Append(ring, e)[Len(ring) + 1] = e
    BY <1>1
  <2> USE DEF e
  <2>3. 0 \in {0, 1} /\ Len(ring) >= 0 /\ Len(ring) + 1 - 0 = Len(ring) + 1 /\ Len(ring) - 0 = Len(ring)
        /\ \A i \in 1..Len(ring) : i + 0 = i
    BY <1>1
  <2> QED
    BY <2>1, <2>2, <2>3, Zenon
<1> QED
  BY <1>2, <1>3, Zenon

(* An event that reports what became of the states keeps both facts. *)
LEMMA PushKeepsView ==
    ASSUME NEW ring, NEW n, NEW kind \in Kinds, Ring(ring, n),
           NEW st, NEW new, NEW c \in Nat, c < n,
           \A a \in Actions : new[a] = IF kind.type = "ActionState" /\ kind.action = a
                                       THEN kind.state ELSE st[a],
           Told(ring, st), Follows(ring, st, c)
    PROVE  Told(Pushed(ring, n, kind), new) /\ Follows(Pushed(ring, n, kind), new, c)
<1> DEFINE r == Pushed(ring, n, kind)
           e == [sequence |-> n, kind |-> kind]
<1>1. PICK d \in {0, 1} :
          /\ Len(ring) >= d
          /\ Len(r) = Len(ring) + 1 - d
          /\ \A i \in 1..(Len(ring) - d) : r[i] = ring[i + d]
          /\ r[Len(ring) + 1 - d] = e
  BY PushedShape
<1>2. Len(ring) \in Nat /\ n \in Nat /\ Ring(r, n + 1)
  <2>1. Len(ring) \in Nat /\ n \in Nat
    BY DEF Ring
  <2> QED
    BY <2>1, PushKeepsRing, Zenon
<1> HIDE DEF r
<1> DEFINE last == Len(r)
<1>3. /\ last \in Nat /\ last >= 1 /\ last = Len(ring) + 1 - d
      /\ r[last] = e /\ e.sequence = n /\ e.kind = kind
  BY <1>1, <1>2
<1>4. \A i \in 1..last : i # last => i + d \in 1..Len(ring) /\ r[i] = ring[i + d]
  BY <1>1, <1>2, <1>3
<1>5. \A i \in 1..Len(ring) : i > d => i - d \in 1..last /\ i - d # last /\ r[i - d] = ring[i]
  BY <1>1, <1>2, <1>3
<1>6. \A i \in 1..last : r[i].sequence = n - last + i
  BY <1>2, <1>3 DEF Ring
<1>7. \A i \in 1..Len(ring) : ring[i].sequence = n - 1 - Len(ring) + i
  BY DEF Ring
<1>8. r # << >>
  BY <1>3
<1> HIDE DEF last, e
<1>9. \A a \in Actions : ReportsState(r[last], a) <=> kind.type = "ActionState" /\ kind.action = a
  BY <1>3 DEF ReportsState
<1>10. ASSUME NEW a \in Actions, NEW k \in 1..last, ReportsState(r[k], a)
       PROVE  \E i \in 1..last :
                /\ ReportsState(r[i], a)
                /\ r[i].kind.state = new[a]
                /\ \A j \in 1..last : ReportsState(r[j], a) => j <= i
  <2>1. CASE ReportsState(r[last], a)
    <3>1. r[last].kind.state = new[a]
      BY <1>3, <1>9, <2>1, Zenon
    <3>2. last \in 1..last /\ \A j \in 1..last : j <= last
      BY <1>3
    <3> QED
      BY <2>1, <3>1, <3>2, Zenon
  <2>2. CASE ~ReportsState(r[last], a)
    <3>1. k # last /\ k + d \in 1..Len(ring) /\ ReportsState(ring[k + d], a)
      BY <1>4, <1>10, <2>2
    <3>2. PICK i \in 1..Len(ring) :
              /\ ReportsState(ring[i], a)
              /\ ring[i].kind.state = st[a]
              /\ \A j \in 1..Len(ring) : ReportsState(ring[j], a) => j <= i
      BY <3>1, Zenon DEF Told
    <3>3. k + d <= i
      BY <3>1, <3>2, Zenon
    <3>4. i > d
      BY <1>3, <3>3
    <3>5. i - d \in 1..last /\ r[i - d] = ring[i]
      BY <1>5, <3>4, Zenon
    <3>6. new[a] = st[a]
      BY <1>9, <2>2, Zenon
    <3>7. ASSUME NEW j \in 1..last, ReportsState(r[j], a) PROVE j <= i - d
      <4>1. j + d \in 1..Len(ring) /\ ReportsState(ring[j + d], a)
        BY <1>4, <2>2, <3>7, Zenon
      <4>2. j + d <= i
        BY <3>2, <4>1, Zenon
      <4> QED
        BY <1>3, <4>2
    <3> QED
      BY <3>2, <3>5, <3>6, <3>7, Zenon
  <2> QED
    BY <2>1, <2>2, Zenon
<1>11. ASSUME NEW a \in Actions, ~(c < r[1].sequence - 1),
              \A i \in 1..last : ~(r[i].sequence > c /\ ReportsState(r[i], a))
       PROVE  view[a] = new[a]
  <2>1. ~ReportsState(r[last], a)
    BY <1>3, <1>11
  <2>2. new[a] = st[a]
    BY <1>9, <2>1
  <2>3. r[1].sequence = n - last + 1 /\ c >= n - last
    BY <1>2, <1>3, <1>6, <1>11
  <2>4. ~(ring # << >> /\ c < ring[1].sequence - 1)
    <3>1. ASSUME ring # << >> PROVE ~(c < ring[1].sequence - 1)
      <4>1. Len(ring) >= 1
        BY <1>2, <3>1 DEF Ring
      <4>2. ring[1].sequence = n - 1 - Len(ring) + 1
        BY <1>2, <1>7, <4>1
      <4> QED
        BY <1>2, <1>3, <2>3, <4>2
    <3> QED
      BY <3>1
  <2>5. ASSUME NEW i \in 1..Len(ring), ring[i].sequence > c, ReportsState(ring[i], a) PROVE FALSE
    <3>1. CASE i > d
      BY <1>5, <1>11, <2>5, <3>1, Zenon
    <3>2. CASE ~(i > d)
      <4>1. i = 1 /\ d = 1 /\ last = Len(ring)
        BY <1>2, <1>3, <3>2
      <4>2. ring[1].sequence = n - Len(ring)
        BY <1>2, <1>7, <4>1
      <4> QED
        BY <1>2, <1>3, <2>3, <2>5, <4>1, <4>2
    <3> QED
      BY <3>1, <3>2
  <2> QED
    BY <2>2, <2>4, <2>5, Zenon DEF Follows
<1>12. Told(r, new)
  BY <1>10, Zenon DEF Told, last
<1>13. Follows(r, new, c)
  BY <1>8, <1>11, Zenon DEF Follows, last
<1> QED
  BY <1>12, <1>13, Zenon DEF r

(* The step of a handler that pushes one event. *)
LEMMA ViewPush ==
    ASSUME LogInv, ViewInv, UNCHANGED <<cursor, view>>, NEW kind \in Kinds, PushEvent(kind),
           \A a \in Actions : state'[a] = IF kind.type = "ActionState" /\ kind.action = a
                                          THEN kind.state ELSE state[a]
    PROVE  ViewInv'
<1>1. Told(events', state') /\ Follows(events', state', cursor)
  <2>1. Ring(events, next) /\ Told(events, state) /\ Follows(events, state, cursor)
        /\ cursor \in Nat /\ cursor < next /\ events' = Pushed(events, next, kind)
    BY DEF LogInv, ViewInv, PushEvent
  <2> QED
    BY <2>1, PushKeepsView, Zenon
<1>2. cursor' \in Nat /\ cursor' < next'
  BY DEF ViewInv, PushEvent, LogInv, Ring
<1>3. (\A a \in Actions : view'[a] = view[a]) /\ view' = view /\ cursor' = cursor
  OBVIOUS
<1> QED
  BY <1>1, <1>2, <1>3 DEF ViewInv, Follows

LEMMA ViewState ==
    ASSUME LogInv, RunType, ViewInv, UNCHANGED <<cursor, view>>,
           NEW a \in Actions, NEW s \in ActionRunState, SetState(a, s)
    PROVE  ViewInv'
<1>1. ActionStateEvent(a, s) \in Kinds
  BY DEF ActionStateEvent, Kinds
<1>2. \A b \in Actions : state'[b] = IF ActionStateEvent(a, s).type = "ActionState"
                                           /\ ActionStateEvent(a, s).action = b
                                      THEN ActionStateEvent(a, s).state ELSE state[b]
  BY DEF SetState, ActionStateEvent, RunType
<1> QED
  BY <1>1, <1>2, ViewPush DEF SetState

LEMMA ViewOther ==
    ASSUME LogInv, ViewInv, UNCHANGED <<cursor, view>>, UNCHANGED state,
           NEW kind \in Kinds, kind.type # "ActionState", PushEvent(kind)
    PROVE  ViewInv'
BY ViewPush, Zenon

LEMMA ViewStep ==
    ASSUME LogInv, RunType, ViewInv, Next, UNCHANGED <<cursor, view>>
    PROVE  ViewInv'
<1> USE DEF ActionRunState
<1>1. ASSUME NEW a \in Actions, BeginCheck(a) PROVE ViewInv'
  BY <1>1, ViewState DEF BeginCheck
<1>2. ASSUME NEW a \in Actions, RecordAdmission(a) PROVE ViewInv'
  <2>1. PICK s \in ActionRunState :
            \/ PushEvent(AdmissionEvent(a, s = "Admitted")) /\ UNCHANGED state
            \/ /\ EventCapacity(2)
               /\ state' = [state EXCEPT ![a] = s]
               /\ events' = Pushed(Pushed(events, next, AdmissionEvent(a, s = "Admitted")),
                                   next + 1, ActionStateEvent(a, s))
               /\ next' = next + 2
    BY <1>2, Zenon DEF RecordAdmission, EvidenceState
  <2> DEFINE first == AdmissionEvent(a, s = "Admitted")
             second == ActionStateEvent(a, s)
             ring == Pushed(events, next, first)
  <2>2. first \in Kinds /\ first.type # "ActionState" /\ second \in Kinds
    BY Zenon DEF AdmissionEvent, ActionStateEvent, Kinds
  <2>3. \A b \in Actions : [state EXCEPT ![a] = s][b] =
            IF second.type = "ActionState" /\ second.action = b THEN second.state ELSE state[b]
    BY DEF ActionStateEvent, RunType
  <2> HIDE DEF first, second
  <2>4. CASE PushEvent(first) /\ UNCHANGED state
    BY <2>2, <2>4, ViewOther
  <2>5. CASE /\ EventCapacity(2)
             /\ state' = [state EXCEPT ![a] = s]
             /\ events' = Pushed(ring, next + 1, second)
             /\ next' = next + 2
    <3>1. /\ Ring(events, next) /\ Told(events, state) /\ Follows(events, state, cursor)
          /\ cursor \in Nat /\ cursor < next /\ view = [b \in Actions |-> view[b]]
      BY DEF LogInv, ViewInv
    <3>2. next \in Nat
      BY <3>1 DEF Ring
    <3>3. Ring(ring, next + 1)
      BY <2>2, <3>1, PushKeepsRing
    <3>4. Told(ring, state) /\ Follows(ring, state, cursor)
      BY <2>2, <3>1, PushKeepsView
    <3>5. cursor < next + 1 /\ cursor < next + 2
      BY <3>1, <3>2
    <3> HIDE DEF ring
    <3>6. Told(events', state') /\ Follows(events', state', cursor)
      BY <2>2, <2>3, <2>5, <3>1, <3>3, <3>4, <3>5, PushKeepsView, Zenon
    <3> QED
      BY <2>5, <3>1, <3>5, <3>6, Zenon DEF ViewInv, Follows
  <2> QED
    BY <2>1, <2>4, <2>5 DEF first, second
<1>3. ASSUME NEW a \in Actions, MarkDispatchStarted(a) PROVE ViewInv'
  BY <1>3, ViewState DEF MarkDispatchStarted
<1>4. ASSUME NEW a \in Actions, MarkPreDispatchFailed(a) PROVE ViewInv'
  BY <1>4, ViewState DEF MarkPreDispatchFailed
<1>5. ASSUME NEW a \in Actions, RecordCompletion(a) PROVE ViewInv'
  BY <1>5, ViewState DEF RecordCompletion, CompletionState
<1>6. ASSUME NEW a \in Actions, RecordVerification(a) PROVE ViewInv'
  BY <1>6, ViewState, Zenon DEF RecordVerification, EvidenceState
<1>7. ASSUME NEW a \in Actions, MarkOutcomeUnknown(a) PROVE ViewInv'
  BY <1>7, ViewState DEF MarkOutcomeUnknown
<1>8. ASSUME NEW a \in Actions, RecordProgress(a) PROVE ViewInv'
  <2>1. ProgressEvent(a) \in Kinds /\ ProgressEvent(a).type # "ActionState"
    BY Zenon DEF ProgressEvent, Kinds
  <2> QED
    BY <1>8, <2>1, ViewOther DEF RecordProgress
<1>9. ASSUME RecordGoalVerification PROVE ViewInv'
  <2>1. PICK r \in GoalVerificationReport : PushEvent(GoalEvent(Passed(r))) /\ UNCHANGED state
    BY <1>9 DEF RecordGoalVerification
  <2>2. GoalEvent(Passed(r)) \in Kinds /\ GoalEvent(Passed(r)).type # "ActionState"
    BY DEF GoalEvent, Passed, Kinds
  <2> QED
    BY <2>1, <2>2, ViewOther
<1> QED
  BY <1>1, <1>2, <1>3, <1>4, <1>5, <1>6, <1>7, <1>8, <1>9 DEF Next

(* A current cursor misses nothing: no page after it, and no gap before it. *)
LEMMA CurrentCursor ==
    ASSUME LogInv
    PROVE  ~Gap(next - 1) /\ \A i \in 1..Len(events) : ~(events[i].sequence > next - 1)
BY DEF LogInv, Ring, Gap

LEMMA PollStep ==
    ASSUME LogInv, RunType, ViewInv, Poll
    PROVE  ViewInv'
<1>1. \A a \in Actions : view'[a] = state[a]
  <2>1. CASE Gap(cursor)
    BY <2>1 DEF Poll
  <2>2. ASSUME ~Gap(cursor), NEW a \in Actions PROVE ApplyEvents(a) = state[a]
    <3> DEFINE own == {i \in EventsSince(cursor) : ReportsState(events[i], a)}
    <3>1. CASE own = {}
      BY <2>2, <3>1 DEF ApplyEvents, EventsSince, ViewInv, Follows, Gap
    <3>2. CASE own # {}
      <4>1. PICK k \in 1..Len(events) : ReportsState(events[k], a) /\ events[k].sequence > cursor
        BY <3>2, Zenon DEF EventsSince
      <4>2. PICK i \in 1..Len(events) :
                /\ ReportsState(events[i], a)
                /\ events[i].kind.state = state[a]
                /\ \A j \in 1..Len(events) : ReportsState(events[j], a) => j <= i
        BY <4>1 DEF ViewInv, Told
      <4>3. events[i].sequence > cursor
        BY <4>1, <4>2 DEF LogInv, Ring, ViewInv
      <4>4. i \in own /\ \A j \in own : j <= i
        BY <4>2, <4>3 DEF EventsSince
      <4> DEFINE m == CHOOSE j \in own : \A l \in own : l <= j
      <4>5. m \in own /\ i <= m
        BY <4>4, Zenon
      <4>6. m = i
        BY <4>4, <4>5 DEF EventsSince
      <4>7. ApplyEvents(a) = events[m].kind.state
        BY <3>2 DEF ApplyEvents
      <4> QED
        BY <4>2, <4>6, <4>7, Zenon
    <3> QED
      BY <3>1, <3>2
  <2> QED
    BY <2>1, <2>2 DEF Poll
<1>2. view' = [a \in Actions |-> view'[a]]
  BY DEF Poll, RunType
<1>3. /\ events' = events /\ state' = state /\ next' = next /\ cursor' = next - 1
  BY DEF Poll, vars, log
<1>4. cursor' \in Nat /\ cursor' < next'
  BY <1>3 DEF LogInv, Ring
<1>5. Told(events, state)' /\ Follows(events, state, cursor)'
  BY <1>1, <1>3 DEF ViewInv, Told, Follows
<1> QED
  BY <1>2, <1>4, <1>5 DEF ViewInv

(***************************************************************************)
(* events_page and snapshot: for every plan and every capacity of the      *)
(* ring, a client whose cursor is current has exactly the run's states,    *)
(* whether it read every event or came back after the ring had dropped     *)
(* some.                                                                   *)
(***************************************************************************)
THEOREM ViewExactWhenCurrent == ReplaySpec => []CurrentViewIsExact
<1> DEFINE Inv == RunType /\ LogInv /\ ViewInv
<1>1. ReplayInit => Inv
  <2> SUFFICES ASSUME ReplayInit PROVE Inv
    OBVIOUS
  <2>1. RunType /\ LogInv
    BY InitInv, RunAssumption DEF ReplayInit, IInv, Init, LogInv, Ring
  <2>2. ViewInv
    BY <2>1 DEF ReplayInit, Init, ViewInv, Told, Follows
  <2> QED
    BY <2>1, <2>2
<1>2. Inv /\ [ReplayNext]_replayVars => Inv'
  <2> SUFFICES ASSUME Inv, [ReplayNext]_replayVars PROVE Inv'
    OBVIOUS
  <2>1. [Next]_vars
    BY DEF ReplayNext, replayVars, Poll
  <2>2. RunType' /\ LogInv'
    BY <2>1, LogStep, TypeStep
  <2>3. ASSUME Next, UNCHANGED <<cursor, view>> PROVE ViewInv'
    BY <2>3, ViewStep
  <2>4. ASSUME Poll PROVE ViewInv'
    BY <2>4, PollStep
  <2>5. ASSUME UNCHANGED replayVars PROVE ViewInv'
    BY <2>5, Zenon DEF ViewInv, Told, Follows, replayVars, vars, log
  <2>6. ViewInv'
    BY <2>3, <2>4, <2>5 DEF ReplayNext
  <2> QED
    BY <2>2, <2>6
<1>3. Inv => CurrentViewIsExact
  <2> SUFFICES ASSUME Inv, cursor = next - 1 PROVE view = state
    BY DEF CurrentViewIsExact
  <2>1. \A a \in Actions : view[a] = state[a]
    BY CurrentCursor DEF ViewInv, Follows, Gap
  <2> QED
    BY <2>1 DEF ViewInv, RunType
<1> QED
  BY <1>1, <1>2, <1>3, PTL DEF ReplaySpec

=============================================================================

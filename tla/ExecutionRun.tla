----------------------------- MODULE ExecutionRun -----------------------------
(***************************************************************************)
(* One ExecutionRun of storage-engine/src/execution.rs: the lifecycle of   *)
(* every action of a frozen plan, the live evidence retained for each      *)
(* transition, the final goal report and the bounded ring of numbered      *)
(* events.  One action below is one public method of the struct; a call    *)
(* that the code rejects changes nothing, so its rejection is the guard.   *)
(* The callers (any order of calls, any report) are the environment.       *)
(***************************************************************************)
EXTENDS ActionLifecycle

CONSTANTS
    Prerequisites,   \* [Actions -> SUBSET condition]
    Postconditions,  \* [Actions -> SUBSET condition]
    GoalAspects,     \* the goal aspects of the frozen analysis
    Required,        \* [Actions -> SUBSET (resource \X mode)]
    Observations,    \* references [instance, epoch] a probe may publish
    NilInstance,     \* the nil UUID
    Checks,          \* lists of [condition, status] a report may carry
    Held,            \* sets of <<resource, mode>> a lease may declare
    MaxRunEvents,    \* MAX_RUN_EVENTS
    U64Max,          \* u64::MAX
    None             \* Option::None

ASSUME RunAssumption ==
    /\ MaxRunEvents \in Nat \ {0}
    /\ U64Max \in Nat \ {0}
    /\ \A o \in Observations : o.epoch \in Nat
    /\ \A c \in Checks : \A i \in 1..Len(c) : c[i].status \in LiveCheckStatus
    /\ None \notin Observations
    /\ None \notin [observation : Observations, applicability : LiveCheckStatus,
                    held : Held, checks : Checks]
    /\ None \notin [outcome : BackendOutcome, observation : Observations]
    /\ None \notin [observation : Observations, checks : Checks]

VARIABLES
    state,               \* ActionRun::state
    admission,           \* ActionRun::admission
    completion,          \* ActionRun::completion
    verification,        \* ActionRun::verification
    preDispatchFailure,  \* actions whose pre_dispatch_failure is Some
    unknownReason,       \* actions whose unknown_reason is Some
    latest,              \* reference of latest_observation
    goal,                \* goal_verification
    events,              \* the retained ring
    next                 \* next_event_sequence

evidence == <<admission, completion, verification, preDispatchFailure, unknownReason>>
log == <<events, next>>
vars == <<state, evidence, latest, goal, log>>

BackendCompletion == [outcome : BackendOutcome, observation : Observations]
VerificationReport == [observation : Observations, checks : Checks]
GoalVerificationReport == [observation : Observations, checks : Checks,
                           preservation : LiveCheckStatus]

Conditions(checks) == {checks[i].condition : i \in 1..Len(checks)}
Statuses(checks) == {checks[i].status : i \in 1..Len(checks)}

-----------------------------------------------------------------------------
(* Helpers of the struct, each after the slips the mutation runs try. *)

ChecksCover(required, checks) ==
    /\ required \subseteq Conditions(checks)
    /\ \A i \in 1..Len(checks) :
         /\ checks[i].condition \in required
         /\ \A j \in 1..(i - 1) : checks[j].condition # checks[i].condition

ResourcesHeld(required, held) ==
    \A r \in required : \E h \in held :
        h[1] = r[1] /\ (h[2] = "Write" \/ h[2] = r[2])

Fresh(o) ==
    /\ o.instance # NilInstance
    /\ latest # None => o.instance = latest.instance /\ latest.epoch < o.epoch

EventCapacity(count) == next + count <= U64Max

PushedWithoutEviction(ring, sequence, kind) ==
    Append(ring, [sequence |-> sequence, kind |-> kind])

Pushed(ring, sequence, kind) ==
    Append(IF Len(ring) = MaxRunEvents THEN Tail(ring) ELSE ring,
           [sequence |-> sequence, kind |-> kind])

PushEvent(kind) ==
    /\ EventCapacity(1)
    /\ events' = Pushed(events, next, kind)
    /\ next' = next + 1

ActionStateEvent(a, s) == [type |-> "ActionState", action |-> a, state |-> s]
AdmissionEvent(a, admitted) == [type |-> "Admission", action |-> a, admitted |-> admitted]
ProgressEvent(a) == [type |-> "Progress", action |-> a]
GoalEvent(verified) == [type |-> "GoalVerification", verified |-> verified]

SetState(a, s) ==
    /\ state' = [state EXCEPT ![a] = s]
    /\ PushEvent(ActionStateEvent(a, s))

-----------------------------------------------------------------------------
Init ==
    /\ state = [a \in Actions |-> "Waiting"]
    /\ admission = [a \in Actions |-> None]
    /\ completion = [a \in Actions |-> None]
    /\ verification = [a \in Actions |-> None]
    /\ preDispatchFailure = {}
    /\ unknownReason = {}
    /\ latest = None
    /\ goal = None
    /\ events = << >>
    /\ next = 1

BeginCheck(a) ==
    /\ CanBeginCheck(state, a)
    /\ SetState(a, "Checking")
    /\ UNCHANGED <<evidence, latest, goal>>

(* The reports that record_admission accepts for a. *)
AdmissionReport(a) ==
    [observation : {o \in Observations : Fresh(o)}, applicability : LiveCheckStatus,
     held : {h \in Held : ResourcesHeld(Required[a], h)},
     checks : {c \in Checks : ChecksCover(Prerequisites[a], c)}]

RecordAdmission(a) ==
    /\ state[a] = "Checking"
    /\ \E r \in AdmissionReport(a) :
         LET s == EvidenceState({r.applicability} \union Statuses(r.checks), "Admitted", "Checking")
             first == AdmissionEvent(a, s = "Admitted")
         IN  /\ latest' = r.observation
             /\ admission' = [admission EXCEPT ![a] = r]
             /\ \/ /\ s = "Checking"
                   /\ PushEvent(first)
                   /\ UNCHANGED state
                \/ /\ s # "Checking"
                   /\ EventCapacity(2)
                   /\ state' = [state EXCEPT ![a] = s]
                   /\ events' = Pushed(Pushed(events, next, first), next + 1,
                                       ActionStateEvent(a, s))
                   /\ next' = next + 2
    /\ UNCHANGED <<completion, verification, preDispatchFailure, unknownReason, goal>>

MarkDispatchStarted(a) ==
    /\ state[a] = "Admitted"
    /\ SetState(a, "Running")
    /\ UNCHANGED <<evidence, latest, goal>>

MarkPreDispatchFailed(a) ==
    /\ state[a] = "Admitted"
    /\ preDispatchFailure' = preDispatchFailure \union {a}
    /\ SetState(a, "Failed")
    /\ UNCHANGED <<admission, completion, verification, unknownReason, latest, goal>>

RecordCompletion(a) ==
    /\ state[a] = "Running"
    /\ \E c \in BackendCompletion :
         /\ Fresh(c.observation)
         /\ latest' = c.observation
         /\ completion' = [completion EXCEPT ![a] = c]
         /\ SetState(a, CompletionState(c.outcome))
    /\ UNCHANGED <<admission, verification, preDispatchFailure, unknownReason, goal>>

RecordVerificationOfAnyObservation(a) ==
    /\ state[a] = "Verifying"
    /\ \E r \in VerificationReport :
         /\ ChecksCover(Postconditions[a], r.checks)
         /\ verification' = [verification EXCEPT ![a] = r]
         /\ SetState(a, EvidenceState(Statuses(r.checks), "Verified", "OutcomeUnknown"))
    /\ UNCHANGED <<admission, completion, preDispatchFailure, unknownReason, latest, goal>>

RecordVerification(a) ==
    /\ state[a] = "Verifying"
    /\ \E r \in VerificationReport :
         /\ r.observation = completion[a].observation
         /\ ChecksCover(Postconditions[a], r.checks)
         /\ verification' = [verification EXCEPT ![a] = r]
         /\ SetState(a, EvidenceState(Statuses(r.checks), "Verified", "OutcomeUnknown"))
    /\ UNCHANGED <<admission, completion, preDispatchFailure, unknownReason, latest, goal>>

MarkOutcomeUnknown(a) ==
    /\ state[a] \in {"Running", "Verifying"}
    /\ unknownReason' = unknownReason \union {a}
    /\ SetState(a, "OutcomeUnknown")
    /\ UNCHANGED <<admission, completion, verification, preDispatchFailure, latest, goal>>

RecordProgress(a) ==
    /\ state[a] = "Running"
    /\ PushEvent(ProgressEvent(a))
    /\ UNCHANGED <<state, evidence, latest, goal>>

Passed(r) == r.preservation = "Satisfied" /\ Statuses(r.checks) \subseteq {"Satisfied"}

RecordGoalVerification ==
    /\ AllVerified(state)
    /\ \E r \in GoalVerificationReport :
         /\ Fresh(r.observation)
         /\ ChecksCover(GoalAspects, r.checks)
         /\ latest' = r.observation
         /\ goal' = r
         /\ PushEvent(GoalEvent(Passed(r)))
    /\ UNCHANGED <<state, evidence>>

Next ==
    \/ \E a \in Actions :
         \/ BeginCheck(a)
         \/ RecordAdmission(a)
         \/ MarkDispatchStarted(a)
         \/ MarkPreDispatchFailed(a)
         \/ RecordCompletion(a)
         \/ RecordVerification(a)
         \/ MarkOutcomeUnknown(a)
         \/ RecordProgress(a)
    \/ RecordGoalVerification

Spec == Init /\ [][Next]_vars

-----------------------------------------------------------------------------
(* What the struct reports: the page of events_page, as places of the ring, and its gap. *)

EventsSince(cursor) == {i \in 1..Len(events) : events[i].sequence > cursor}

GapOffByOne(cursor) == events # << >> /\ cursor + 1 < events[1].sequence - 1

Gap(cursor) == events # << >> /\ cursor < events[1].sequence - 1

-----------------------------------------------------------------------------
(***************************************************************************)
(* record_admission, record_completion, record_verification: however the   *)
(* calls and retries interleave, an action past admission retains a report *)
(* that satisfies exactly its frozen prerequisites under leased resources, *)
(* its completion was observed by the same probe instance strictly later   *)
(* than that admission, and a Verified action's postconditions were all    *)
(* satisfied in exactly the observation that its completion published.     *)
(***************************************************************************)
EvidenceBacksState ==
    \A a \in Actions :
        /\ state[a] \in {"Admitted", "Running", "Verifying", "Verified"} =>
             /\ admission[a] # None
             /\ admission[a].applicability = "Satisfied"
             /\ Conditions(admission[a].checks) = Prerequisites[a]
             /\ Statuses(admission[a].checks) \subseteq {"Satisfied"}
             /\ ResourcesHeld(Required[a], admission[a].held)
        /\ state[a] \in {"Verifying", "Verified"} =>
             /\ completion[a] # None
             /\ completion[a].outcome = "Succeeded"
             /\ completion[a].observation.instance = admission[a].observation.instance
             /\ completion[a].observation.epoch > admission[a].observation.epoch
        /\ state[a] = "Verified" =>
             /\ verification[a] # None
             /\ verification[a].observation = completion[a].observation
             /\ Conditions(verification[a].checks) = Postconditions[a]
             /\ Statuses(verification[a].checks) \subseteq {"Satisfied"}

(***************************************************************************)
(* begin_check with check_fresh_observation: the evidence that admitted an *)
(* action was observed after, and by the same probe instance as, the       *)
(* completion of every action that the plan orders before it.  An action   *)
(* is never admitted on a view taken before its predecessor's effect.      *)
(***************************************************************************)
AdmissionSeesPredecessors ==
    \A a, b \in Actions :
        (<<b, a>> \in Before /\ admission[a] # None) =>
            /\ state[b] = "Verified"
            /\ completion[b] # None
            /\ completion[b].observation.instance = admission[a].observation.instance
            /\ completion[b].observation.epoch < admission[a].observation.epoch

(***************************************************************************)
(* begin_check: at most one action of a run is between Checking and        *)
(* Verifying, so two native operations never overlap within a run.         *)
(***************************************************************************)
SerialExecution ==
    \A a, b \in Actions : (state[a] \in Active /\ state[b] \in Active) => a = b

(***************************************************************************)
(* push_event: the ring never exceeds its capacity, its sequence numbers   *)
(* are consecutive and end just below next_event_sequence, and nothing is  *)
(* ever numbered u64::MAX.  Replay relies on exactly this.                 *)
(***************************************************************************)
EventLogContiguous ==
    /\ next <= U64Max
    /\ Len(events) <= MaxRunEvents
    /\ Len(events) < next
    /\ next > 1 => Len(events) > 0
    /\ \A i \in 1..Len(events) : events[i].sequence = next - 1 - Len(events) + i

=============================================================================

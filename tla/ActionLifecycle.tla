--------------------------- MODULE ActionLifecycle ---------------------------
(***************************************************************************)
(* The rules of the action lifecycle of storage-engine/src/execution.rs    *)
(* that do not depend on the evidence retained for an action.  They are    *)
(* operators over a function st \in [Actions -> ActionRunState], so that   *)
(* ExecutionRun (one run with all its evidence) and Coordinator (several   *)
(* runs in several processes) apply the same rules.                        *)
(***************************************************************************)
EXTENDS Naturals, Sequences, FiniteSets

CONSTANTS
    Actions,    \* the actions of the frozen plan
    Before      \* <<b, a>> \in Before: the plan orders b before a

ASSUME BeforeAssumption == Before \subseteq Actions \X Actions

ActionRunState == {"Waiting", "Checking", "Admitted", "Running",
                   "Verifying", "Verified", "Failed", "OutcomeUnknown"}

LiveCheckStatus == {"Satisfied", "Violated", "Unknown"}

BackendOutcome == {"Succeeded", "Failed", "OutcomeUnknown"}

Stopped == {"Failed", "OutcomeUnknown"}

Active == {"Checking", "Admitted", "Running", "Verifying"}

RunStopped(st) == \E a \in Actions : st[a] \in Stopped

ActiveAction(st) == \E a \in Actions : st[a] \in Active

PredecessorsVerified(st, a) ==
    \A b \in Actions : <<b, a>> \in Before => st[b] = "Verified"

AllVerified(st) == \A a \in Actions : st[a] = "Verified"

(***************************************************************************)
(* The guard of begin_check, and the forms a slip in it would take.        *)
(***************************************************************************)
CanBeginCheckWhileActive(st, a) ==
    /\ st[a] = "Waiting"
    /\ ~RunStopped(st)
    /\ PredecessorsVerified(st, a)

CanBeginCheckOutOfOrder(st, a) ==
    /\ st[a] = "Waiting"
    /\ ~RunStopped(st)
    /\ ~ActiveAction(st)

CanBeginCheck(st, a) ==
    /\ st[a] = "Waiting"
    /\ ~RunStopped(st)
    /\ PredecessorsVerified(st, a)
    /\ ~ActiveAction(st)

(***************************************************************************)
(* evidence_state: one violation decides, otherwise one unknown, otherwise *)
(* the evidence is satisfied.  The code returns from its loop at the first *)
(* violation, so the result depends on the set of statuses only.           *)
(***************************************************************************)
EvidenceState(statuses, satisfied, unknown) ==
    IF "Violated" \in statuses THEN "Failed"
    ELSE IF "Unknown" \in statuses THEN unknown
    ELSE satisfied

(* The state that record_completion enters for a backend outcome. *)
CompletionState(outcome) ==
    IF outcome = "Succeeded" THEN "Verifying"
    ELSE IF outcome = "Failed" THEN "Failed"
    ELSE "OutcomeUnknown"

=============================================================================

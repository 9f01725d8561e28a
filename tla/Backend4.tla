------------------------------ MODULE Backend4 ------------------------------
(***************************************************************************)
(* The persistent backend process: one frame at a time is read and served  *)
(* (dg-cli/src/bin/dg-backend4.rs, backend4.rs). An apply runs inside its  *)
(* frame (disksgraph/src/runs.rs, the coordinator and the host's checks)   *)
(* and asks the client for one confirmation, which is read from the same   *)
(* stream of frames (dg-cli/src/confirmation.rs). Coordinator has the      *)
(* marker and the lock in detail; here they are held by this process while *)
(* it executes, and other processes use them while it does not.            *)
(***************************************************************************)
EXTENDS Facade

VARIABLES
    pc,          \* where the process is: "ready" to read a frame, or inside an apply
    exec,        \* the run being executed: [run, document, at], at the index of its action
    policy,      \* the state of RootPolicy: [context, confirmed, refused, current]
    shown,       \* reviews written to the client: [context, run, plan, digest, token]
    consents,    \* the shown reviews that were answered, each by an exact confirmation
    dispatched,  \* native calls made: [run, document, at]
    released     \* runs whose record the client released or a process took with it

execVars == <<pc, exec, policy, shown, consents, dispatched, released>>
vars == <<scope, mode, app, issued, marker, pc, exec, policy, shown, consents, dispatched, released>>

NoRun == [run |-> 0, document |-> CHOOSE d \in Documents : TRUE, at |-> 0]

(* RootPolicy::with_root *)
NewPolicy == [context |-> {}, confirmed |-> {}, refused |-> FALSE, current |-> {}]

Init ==
    /\ FacadeInit
    /\ pc = "ready"
    /\ exec = NoRun
    /\ policy = NewPolicy
    /\ shown = {} /\ consents = {} /\ dispatched = {} /\ released = {}

ApprovalRequest == [run |-> exec.run, plan |-> exec.document.plan, digest |-> exec.document.digest]

-----------------------------------------------------------------------------
(* RootPolicy::check of PolicyRequest::Scope: a new run is asked anew. *)
CheckScope(state, run) ==
    [IF state.current = {run} THEN state
     ELSE [state EXCEPT !.current = {run}, !.confirmed = {}, !.refused = FALSE]
     EXCEPT !.context = {run}]

(* Mutation: only a verified run is recorded. *)
FinishVerifiedOnly(verified) ==
    /\ pc' = "ready"
    /\ exec' = NoRun
    /\ app' = IF verified
              THEN Keep("runs", exec.run, [document |-> exec.document, verified |-> TRUE])
              ELSE app

(* The end of apply_document_with_updates: the record is kept, whatever the coordinator said. *)
Finish(verified) ==
    /\ pc' = "ready"
    /\ exec' = NoRun
    /\ app' = Keep("runs", exec.run, [document |-> exec.document, verified |-> verified])

Goto(place) == pc' = place /\ UNCHANGED <<app, exec>>

(* The coordinator's next action of the plan, or the final verification. *)
Proceed(at) ==
    /\ exec' = [exec EXCEPT !.at = at]
    /\ pc' = IF at <= exec.document.actions THEN "admission" ELSE "goal"
    /\ UNCHANGED app

(* ApplyBlocking: room for the record is reserved before the run begins. *)
ApplyBlocking(p) ==
    /\ pc = "ready" /\ Live
    /\ p \in DOMAIN app.plans
    /\ ~Full("runs")
    /\ Draw("runs")
    /\ exec' = [run |-> Fresh("runs"), document |-> app.plans[p], at |-> 0]
    /\ pc' = "plan"
    /\ UNCHANGED <<scope, mode, app, marker, policy, shown, consents, dispatched, released>>

(* execute_run up to check_plan: the lock, the marker, a probe, the availability of every    *)
(* action. Without a write policy no backend is available for an action (ReadOnlyPolicy).    *)
CheckPlan ==
    /\ pc = "plan"
    /\ \/ Finish(FALSE)
       \/ /\ marker = {}
          /\ mode = "write" \/ exec.document.actions = 0
          /\ Proceed(1)
    /\ UNCHANGED <<scope, mode, issued, marker, policy, shown, consents, dispatched, released>>

(* check_admission up to the authorization: the action is refused before the policy is asked, *)
(* or its scope is attested and then a fact is missing, or everything is ready.               *)
CheckAdmission ==
    /\ pc = "admission"
    /\ \/ Finish(FALSE) /\ UNCHANGED policy
       \/ /\ policy' = CheckScope(policy, exec.run)
          /\ Finish(FALSE) \/ Goto("authorize")
    /\ UNCHANGED <<scope, mode, issued, marker, shown, consents, dispatched, released>>

SameRequest(review, request) ==
    /\ review.run = request.run
    /\ review.plan = request.plan
    /\ review.digest = request.digest

(* authorize with a refusal or a confirmation on record; check_destructive repeats it for the *)
(* backing of a format, which is among the targets of the action.                             *)
AuthorizeAgain ==
    /\ pc = "authorize"
    /\ policy.refused \/ policy.confirmed # {} \/ policy.context = {}
    /\ IF ~policy.refused /\ \E review \in policy.confirmed : SameRequest(review, ApprovalRequest)
       THEN Goto("dispatch")
       ELSE Finish(FALSE)
    /\ UNCHANGED <<scope, mode, issued, marker, policy, shown, consents, dispatched, released>>

(* authorize without either: the review of the latest context is shown. *)
ShowReview ==
    /\ pc = "authorize"
    /\ ~policy.refused /\ policy.confirmed = {}
    /\ Draw("tokens")
    /\ \E context \in policy.context :
        shown' = shown \union {[context |-> context, run |-> exec.run,
                                plan |-> exec.document.plan, digest |-> exec.document.digest,
                                token |-> Fresh("tokens")]}
    /\ policy' = [policy EXCEPT !.context = {}]
    /\ Goto("confirm")
    /\ UNCHANGED <<scope, mode, marker, consents, dispatched, released>>

(* The review the client is being asked about. *)
Asked == CHOOSE review \in shown : \A other \in shown : other.token <= review.token

(* Mutation: the challenge is not compared. *)
ConfirmsAnyToken(answer, review) ==
    /\ answer.action = "write"
    /\ answer.command = "apply"
    /\ SameRequest(review, answer)

(* read_confirmation and the comparison in authorize: a write frame that repeats the review. *)
Confirms(answer, review) ==
    /\ answer.action = "write"
    /\ answer.command = "apply"
    /\ SameRequest(review, answer)
    /\ answer.token = review.token

(* Frames the client may send while it is asked: about any review it has seen, for any of its *)
(* runs and documents. Every other frame, and the end of the stream, refuses like "cancel".    *)
Answers ==
    {[action |-> a, command |-> c, run |-> run, plan |-> d.plan, digest |-> d.digest,
      token |-> t] : a \in {"read", "write"}, c \in {"apply", "cancel"},
                     run \in {r.run : r \in shown}, d \in Documents, t \in {r.token : r \in shown}}

ReadConfirmation ==
    /\ pc = "confirm"
    /\ \E answer \in Answers :
        /\ policy' = IF Confirms(answer, Asked) THEN [policy EXCEPT !.confirmed = {Asked}]
                     ELSE [policy EXCEPT !.refused = TRUE]
        /\ consents' = IF answer = [action |-> "write", command |-> "apply", run |-> Asked.run,
                                    plan |-> Asked.plan, digest |-> Asked.digest,
                                    token |-> Asked.token]
                       THEN consents \union {Asked} ELSE consents
    /\ Goto("authorize")
    /\ UNCHANGED <<scope, mode, issued, marker, shown, dispatched, released>>

(* The admitted action: armed and called, unless arming fails. *)
Dispatch ==
    /\ pc = "dispatch"
    /\ \/ Finish(FALSE) /\ UNCHANGED <<marker, dispatched>>
       \/ /\ marker' = {exec.run}
          /\ dispatched' = dispatched \union {exec}
          /\ Goto("verify")
    /\ UNCHANGED <<scope, mode, issued, policy, shown, consents, released>>

(* Verified and cleared, or stopped with the marker in place. *)
Verify ==
    /\ pc = "verify"
    /\ \/ Finish(FALSE) /\ UNCHANGED marker
       \/ marker' = {} /\ Proceed(exec.at + 1)
    /\ UNCHANGED <<scope, mode, issued, policy, shown, consents, dispatched, released>>

(* verify_goal: the probe or a check fails, or the final scope is attested; RootPolicy attests *)
(* preservation only where nothing is protected, ReadOnlyPolicy attests nothing.               *)
VerifyGoal ==
    /\ pc = "goal"
    /\ \/ Finish(FALSE) /\ UNCHANGED policy
       \/ /\ policy' = IF mode = "write" THEN CheckScope(policy, exec.run) ELSE policy
          /\ \/ Finish(FALSE)
             \/ mode = "write" /\ ~exec.document.protected /\ Finish(TRUE)
    /\ UNCHANGED <<scope, mode, issued, marker, shown, consents, dispatched, released>>

(* Any other request; a released run is remembered. *)
Serve ==
    /\ pc = "ready"
    /\ Request
    /\ released' = released \union (DOMAIN app.runs \ DOMAIN app'.runs)
    /\ UNCHANGED <<pc, exec, policy, shown, consents, dispatched>>

(* The process ends, at the end of its input or in a crash, and is started again. *)
Restart ==
    /\ app # NoApp \/ pc # "ready"
    /\ app' = NoApp
    /\ pc' = "ready"
    /\ exec' = NoRun
    /\ policy' = NewPolicy
    /\ released' = released \union DOMAIN app.runs \union ({exec.run} \ {0})
    /\ UNCHANGED <<scope, mode, issued, marker, shown, consents, dispatched>>

(* External: while this process does not hold the lock, another one leaves a marker of its own *)
(* run (0), or acknowledges the one there is under its policy.                                 *)
Outside ==
    /\ pc = "ready"
    /\ marker' = IF marker = {} THEN {0} ELSE {}
    /\ UNCHANGED <<scope, mode, app, issued, execVars>>

Next ==
    \/ Serve
    \/ \E p \in DOMAIN app.plans : ApplyBlocking(p)
    \/ CheckPlan \/ CheckAdmission
    \/ AuthorizeAgain \/ ShowReview \/ ReadConfirmation
    \/ Dispatch \/ Verify \/ VerifyGoal
    \/ Restart
    \/ Outside

Spec == Init /\ [][Next]_vars

-----------------------------------------------------------------------------
(* Every native call was consented to (confirmation.rs): the client was shown the review of    *)
(* exactly this run and document, made from the context of this run, and answered it with that *)
(* review's token; and a run is asked about at most once, whatever it was answered.            *)
ConsentIsExact ==
    /\ \A d \in dispatched : \E c \in consents :
         /\ c.context = d.run /\ c.run = d.run
         /\ c.plan = d.document.plan /\ c.digest = d.document.digest
    /\ \A r, o \in shown : r.run = o.run => r = o

(* A run with a native call is executing or has its record until it is released or the process *)
(* ends, although the room is bounded (apply_document_with_updates); and a record says         *)
(* verified only if every action of its plan was called and nothing was to be protected.       *)
StartedIsKept ==
    /\ \A d \in dispatched : d.run \in DOMAIN app.runs \union released \union {exec.run}
    /\ \A kind \in DOMAIN app : Cardinality(DOMAIN app[kind]) <= MaxObjects
    /\ \A r \in DOMAIN app.runs : app.runs[r].verified =>
         /\ ~app.runs[r].document.protected
         /\ {d.at : d \in {x \in dispatched : x.run = r}} = 1..app.runs[r].document.actions

(* A session changes its baseline only to a candidate that was prepared for that session (the  *)
(* handle, not the UUID that imported copies share), from the very content it still has, and   *)
(* the candidate is used up (SessionAcceptRebase in wire.rs).                                  *)
RebaseIsOwned ==
    [][\A s \in DOMAIN app.sessions \intersect DOMAIN app'.sessions :
         app'.sessions[s].baseline # app.sessions[s].baseline =>
           \E r \in DOMAIN app.reviews \ DOMAIN app'.reviews :
             /\ app.reviews[r].kind = "rebase"
             /\ app.reviews[r].session = s
             /\ app.reviews[r].source = app.sessions[s]
             /\ app.reviews[r].baseline = app'.sessions[s].baseline]_vars
=============================================================================

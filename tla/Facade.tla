------------------------------- MODULE Facade -------------------------------
(***************************************************************************)
(* The objects an application instance retains for its client (disksgraph/ *)
(* src: sessions.rs, plans.rs, lifecycle.rs, and the reviews of wire.rs).  *)
(* A request that is refused leaves everything as it is: only what a       *)
(* request changes is an action. PlanSession has the content of a session; *)
(* here it is an identity, a revision, a baseline and a draft.             *)
(***************************************************************************)
EXTENDS Naturals, FiniteSets, Functions

CONSTANTS
    Documents,    \* plan documents: [plan, digest, protected, actions]
    Baselines,    \* what a probe may publish
    Drafts,       \* contents of a draft
    Saved,        \* the draft document the client has from elsewhere
    MaxObjects,   \* MAX_APPLICATION_OBJECTS
    MaxRevision,  \* bound: revisions of a session
    Scopes        \* bounds of a behaviour: the identities drawn for each kind of object

(* What a session and its exported document have. *)
SessionFields == {"uuid", "revision", "baseline", "draft"}

(* What the application retains objects of; review tokens are drawn too, and not retained. *)
Kinds == {"sessions", "plans", "runs", "reviews"}

ASSUME FacadeAssumption ==
    /\ \A document \in Documents : document.actions \in Nat
    /\ DOMAIN Saved = SessionFields
    /\ MaxObjects \in Nat
    /\ Scopes \subseteq [Kinds \union {"tokens"} -> Nat]

VARIABLES
    scope,   \* the bounds of this behaviour
    mode,    \* how the process was configured: "saved", "live" or "write"
    app,     \* the retained sessions, plans, runs and reviews, by handle
    issued,  \* identities (UUID v7) drawn so far, by kind of object; none is drawn twice
    marker   \* the runs the active-attempt marker names: at most one

NoObjects == [x \in {} |-> x]
NoApp == [sessions |-> NoObjects, plans |-> NoObjects, runs |-> NoObjects, reviews |-> NoObjects]

FacadeInit ==
    /\ scope \in Scopes
    /\ mode \in {"saved", "live", "write"}
    /\ app = NoApp
    /\ issued = [kind \in DOMAIN scope |-> 0]
    /\ marker = {}

(* Request::needs_live_host for the methods that have it. *)
Live == mode # "saved"

Fresh(kind) == issued[kind] + 1

Draw(kind) ==
    /\ issued[kind] < scope[kind]
    /\ issued' = [issued EXCEPT ![kind] = @ + 1]

Full(kind) == Cardinality(DOMAIN app[kind]) >= MaxObjects

Keep(kind, id, object) ==
    [app EXCEPT ![kind] = [x \in DOMAIN @ \union {id} |-> IF x = id THEN object ELSE @[x]]]

Without(objects, ids) == Restrict(objects, DOMAIN objects \ ids)

(* An object is retained under a new identity, if there is room for it. *)
Insert(kind, object) ==
    /\ ~Full(kind)
    /\ Draw(kind)
    /\ app' = Keep(kind, Fresh(kind), object)
    /\ UNCHANGED <<scope, mode, marker>>

Release(kind, id) ==
    /\ id \in DOMAIN app[kind]
    /\ app' = [app EXCEPT ![kind] = Without(@, {id})]
    /\ UNCHANGED <<scope, mode, issued, marker>>

-----------------------------------------------------------------------------
(* create_session: the probe publishes some baseline; a new session has its own UUID. *)
create_session ==
    /\ Live
    /\ \E b \in Baselines, d \in Drafts :
        Insert("sessions", [uuid |-> Fresh("sessions"), revision |-> 0, baseline |-> b, draft |-> d])

(* import_draft: a document keeps the UUID and revision of the session that exported it. *)
import_draft ==
    \E document \in {Saved} \union {app.sessions[s] : s \in DOMAIN app.sessions} :
        Insert("sessions", document)

(* edit, undo, redo: for the current revision only, which a success advances. *)
Revise(s) ==
    /\ s \in DOMAIN app.sessions
    /\ app.sessions[s].revision < MaxRevision
    /\ \E d \in Drafts :
        app' = [app EXCEPT !.sessions[s].revision = @ + 1, !.sessions[s].draft = d]
    /\ UNCHANGED <<scope, mode, issued, marker>>

(* SessionClose: the rebases prepared for the session go with it. *)
close_session(s) ==
    /\ s \in DOMAIN app.sessions
    /\ app' = [app EXCEPT !.sessions = Without(@, {s}),
                          !.reviews = Without(@, {r \in DOMAIN @ : @[r].kind = "rebase"
                                                                    /\ @[r].session = s})]
    /\ UNCHANGED <<scope, mode, issued, marker>>

(* SessionPrepareRebase: reserve_review, a fresh probe, and the candidate is retained. *)
PrepareRebase(s) ==
    /\ Live
    /\ s \in DOMAIN app.sessions
    /\ \E b \in Baselines :
        Insert("reviews", [kind |-> "rebase", session |-> s, source |-> app.sessions[s],
                           baseline |-> b])

(* PlanSession::accept_rebase: nothing changed since the candidate was prepared. *)
StillCurrent(s, candidate) == app.sessions[s] = candidate.source

(* The review is consumed, also if the session has moved on and refuses the candidate. *)
Accept(s, r) ==
    /\ LET candidate == app.reviews[r]
           revised == [app.sessions[s] EXCEPT !.revision = @ + 1, !.baseline = candidate.baseline]
       IN  app' = [app EXCEPT
                     !.reviews = Without(@, {r}),
                     !.sessions = IF StillCurrent(s, candidate) THEN [@ EXCEPT ![s] = revised]
                                  ELSE @]
    /\ UNCHANGED <<scope, mode, issued, marker>>

(* Mutation: imported copies of a session accept each other's candidates. *)
AcceptRebaseAnyOwner(s, revision, r) ==
    /\ app.reviews[r].kind = "rebase"
    /\ app.reviews[r].source.revision = revision
    /\ Accept(s, r)

(* SessionAcceptRebase: the owner and the revision must be the reviewed ones. *)
AcceptRebase(s, revision, r) ==
    /\ app.reviews[r].kind = "rebase"
    /\ app.reviews[r].session = s
    /\ app.reviews[r].source.revision = revision
    /\ Accept(s, r)

ReviewClose(r) == Release("reviews", r)

(* import_plan: the document is reanalysed, which may refuse it, and stored. *)
import_plan == \E document \in Documents : Insert("plans", document)

close_plan(p) == Release("plans", p)

(* close_run: the record goes, the marker stays. *)
close_run(r) == Release("runs", r)

(* IncidentReview: a marker is reviewed together with what a fresh probe shows. *)
IncidentReview ==
    /\ Live
    /\ \E run \in marker, b \in Baselines :
        Insert("reviews", [kind |-> "incident", run |-> run, seen |-> b])

(* IncidentAcknowledge: the review is consumed; neither ReadOnlyPolicy nor RootPolicy ever *)
(* attests that the native operation has stopped, so the marker stays.                     *)
IncidentAcknowledge(r, run) ==
    /\ Live
    /\ r \in DOMAIN app.reviews
    /\ app.reviews[r].kind = "incident"
    /\ app.reviews[r].run = run
    /\ app' = [app EXCEPT !.reviews = Without(@, {r})]
    /\ UNCHANGED <<scope, mode, issued, marker>>

(* The revisions a client may quote: every accepted rebase adds one to the edits. *)
Revisions == 0..(MaxRevision + scope.reviews)

(* One request of the protocol other than ApplyBlocking. *)
Request ==
    \/ create_session
    \/ import_draft
    \/ \E s \in DOMAIN app.sessions : Revise(s) \/ close_session(s) \/ PrepareRebase(s)
    \/ \E s \in DOMAIN app.sessions, r \in DOMAIN app.reviews, v \in Revisions :
         AcceptRebase(s, v, r)
    \/ \E r \in DOMAIN app.reviews : ReviewClose(r)
    \/ import_plan
    \/ \E p \in DOMAIN app.plans : close_plan(p)
    \/ \E r \in DOMAIN app.runs : close_run(r)
    \/ IncidentReview
    \/ \E r \in DOMAIN app.reviews, run \in 0..issued.runs : IncidentAcknowledge(r, run)
=============================================================================

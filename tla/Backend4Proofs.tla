--------------------------- MODULE Backend4Proofs ---------------------------
(***************************************************************************)
(* The consent of the client, the retained records of started runs and the *)
(* ownership of rebases, for any documents, any client and any number of   *)
(* retained objects.                                                       *)
(*                                                                         *)
(* ConsentIsExact speaks of the steps past a confirmation only. What makes *)
(* it true is spread over several calls before it: the scope the policy    *)
(* keeps for one run, the question on the terminal and who asked it, and   *)
(* that a run identity is never drawn again. StartedIsKept rests on the    *)
(* room found before a run starts being still there when its record is     *)
(* inserted. BInv collects these facts; every action has a lemma.          *)
(***************************************************************************)
EXTENDS Backend4, FiniteSetTheorems, TLAPS

Places == {"ready", "plan", "admission", "authorize", "confirm", "dispatch", "verify", "goal"}

(* The retained objects: their handles were drawn, and there is room for them. *)
AppInv ==
    /\ issued \in [Kinds \union {"tokens"} -> Nat]
    /\ DOMAIN app = Kinds
    /\ \A k \in Kinds : DOMAIN app[k] \subseteq 1..issued[k] /\ Cardinality(DOMAIN app[k]) <= MaxObjects
    /\ \A p \in DOMAIN app.plans : app.plans[p] \in Documents
    /\ \A s \in DOMAIN app.sessions : DOMAIN app.sessions[s] = SessionFields

(* The run being executed is the last one drawn, without a record, and with room for one. *)
ExecInv ==
    /\ pc \in Places
    /\ pc = "ready" => exec = NoRun
    /\ pc # "ready" =>
         /\ DOMAIN exec = {"run", "document", "at"} /\ exec.document \in Documents
         /\ exec.run = issued.runs /\ exec.run \in Nat \ {0}
         /\ exec.run \notin DOMAIN app.runs /\ Cardinality(DOMAIN app.runs) < MaxObjects
    /\ pc = "plan" => exec.at = 0
    /\ pc \in Places \ {"ready", "plan", "goal"} => exec.at \in 1..exec.document.actions
    /\ pc = "goal" => exec.at = exec.document.actions + 1

(* The client consented to the run and document of x. *)
Consented(x) ==
    \E c \in consents : /\ c.context = x.run /\ c.run = x.run
                        /\ c.plan = x.document.plan /\ c.digest = x.document.digest

(* The review on the client's screen. *)
IsAsked(r) ==
    /\ r \in shown /\ r.run = exec.run /\ r.context = exec.run
    /\ r.plan = exec.document.plan /\ r.digest = exec.document.digest
    /\ r.token = issued.tokens

PolicyInv ==
    /\ DOMAIN policy = {"context", "confirmed", "refused", "current"}
    /\ policy.refused \in BOOLEAN
    /\ \A c \in policy.confirmed : c \in consents /\ c.context = c.run
    /\ pc \in {"authorize", "confirm", "dispatch", "verify"} => policy.current = {exec.run}
    /\ pc \in {"authorize", "confirm"} => policy.context \subseteq {exec.run}

(* A run that was asked about has its answer on record, or is being asked. *)
ShownInv ==
    /\ \A r \in shown : r.run \in 1..issued.runs /\ r.token \in 1..issued.tokens /\ r.context = r.run
    /\ \A r, o \in shown : r.token = o.token \/ r.run = o.run => r = o
    /\ \A r \in shown : r.run = exec.run =>
         policy.current = {exec.run} /\ (policy.refused \/ policy.confirmed # {} \/ pc = "confirm")
    /\ pc = "confirm" => \E r \in shown : IsAsked(r)

(* The actions of run r that were called. *)
Calls(r) == {d.at : d \in {x \in dispatched : x.run = r}}

CallsInv ==
    /\ \A d \in dispatched : d.run \in 1..issued.runs /\ Consented(d)
    /\ \A d \in dispatched : d.run \in DOMAIN app.runs \union released \union {exec.run}
    /\ pc = "dispatch" => Consented(exec)
    /\ pc = "plan" => Calls(exec.run) = {}
    /\ pc \in {"admission", "authorize", "confirm", "dispatch", "goal"} =>
         Calls(exec.run) = 1..(exec.at - 1)
    /\ pc = "verify" => Calls(exec.run) = 1..exec.at
    /\ \A r \in DOMAIN app.runs : app.runs[r].verified =>
         ~app.runs[r].document.protected /\ Calls(r) = 1..app.runs[r].document.actions

BInv == AppInv /\ ExecInv /\ PolicyInv /\ ShownInv /\ CallsInv

-----------------------------------------------------------------------------
(* What the operators on the retained objects do. *)
LEMMA KeepShape ==
    ASSUME DOMAIN app = Kinds, NEW k \in Kinds, NEW id, NEW object, app' = Keep(k, id, object)
    PROVE  /\ DOMAIN app' = Kinds /\ \A j \in Kinds \ {k} : app'[j] = app[j]
           /\ DOMAIN app'[k] = DOMAIN app[k] \union {id} /\ app'[k][id] = object
           /\ \A x \in DOMAIN app[k] \ {id} : app'[k][x] = app[k][x]
  BY DEF Keep

(* Without drops the given objects and leaves the others as they are. *)
LEMMA WithoutShape ==
    ASSUME NEW objects, NEW ids
    PROVE  /\ DOMAIN Without(objects, ids) = DOMAIN objects \ ids
           /\ \A x \in DOMAIN objects \ ids : Without(objects, ids)[x] = objects[x]
  BY DEF Without, Restrict

(* A subset takes no more room, and one more object takes one more. *)
LEMMA RoomLeft ==
    ASSUME NEW n \in Nat, NEW S \in SUBSET (1..n)
    PROVE  /\ Cardinality(S) \in Nat
           /\ \A T \in SUBSET S : Cardinality(T) \in Nat /\ Cardinality(T) <= Cardinality(S)
           /\ \A x : Cardinality(S \union {x}) \in Nat /\ Cardinality(S \union {x}) <= Cardinality(S) + 1
<1>1. IsFiniteSet(1..n)
  BY FS_Interval
<1>2. IsFiniteSet(S)
  BY <1>1, FS_Subset, Zenon
<1>3. Cardinality(S) \in Nat
  BY <1>2, FS_CardinalityType
<1>4. ASSUME NEW T \in SUBSET S PROVE Cardinality(T) \in Nat /\ Cardinality(T) <= Cardinality(S)
  BY <1>2, FS_Subset, FS_CardinalityType, Zenon
<1>5. ASSUME NEW x PROVE Cardinality(S \union {x}) \in Nat /\ Cardinality(S \union {x}) <= Cardinality(S) + 1
  BY <1>2, <1>3, FS_AddElement
<1> QED
  BY <1>3, <1>4, <1>5, Zenon

-----------------------------------------------------------------------------
(* A request does not touch the runs but to release one, and it keeps the invariant of the objects. *)
Serves ==
    /\ AppInv'
    /\ issued'.runs = issued.runs /\ issued'.tokens = issued.tokens
    /\ DOMAIN app'.runs \subseteq DOMAIN app.runs
    /\ \A r \in DOMAIN app'.runs : app'.runs[r] = app.runs[r]

(* The step that RebaseIsOwned is about. *)
Owned ==
    \A s \in DOMAIN app.sessions \intersect DOMAIN app'.sessions :
      app'.sessions[s].baseline # app.sessions[s].baseline =>
        \E r \in DOMAIN app.reviews \ DOMAIN app'.reviews :
          /\ app.reviews[r].kind = "rebase"
          /\ app.reviews[r].session = s
          /\ app.reviews[r].source = app.sessions[s]
          /\ app.reviews[r].baseline = app'.sessions[s].baseline

(* The objects of every kind but one are left, those of the one are old ones and objects that fit. *)
LEMMA ChangedKind ==
    ASSUME AppInv, NEW k \in Kinds,
           DOMAIN app' = Kinds, \A j \in Kinds \ {k} : app'[j] = app[j],
           issued' \in [Kinds \union {"tokens"} -> Nat], \A j \in Kinds \ {k} : issued'[j] = issued[j],
           DOMAIN app'[k] \subseteq 1..issued'[k], Cardinality(DOMAIN app'[k]) <= MaxObjects,
           k = "plans" => \A p \in DOMAIN app'.plans : app'.plans[p] \in Documents,
           k = "sessions" => \A s \in DOMAIN app'.sessions : DOMAIN app'.sessions[s] = SessionFields
    PROVE  AppInv'
<1>1. \A j \in Kinds : DOMAIN app'[j] \subseteq 1..issued'[j] /\ Cardinality(DOMAIN app'[j]) <= MaxObjects
  BY DEF AppInv
<1>2. \A p \in DOMAIN app'.plans : app'.plans[p] \in Documents
  BY DEF AppInv, Kinds
<1>3. \A s \in DOMAIN app'.sessions : DOMAIN app'.sessions[s] = SessionFields
  BY DEF AppInv, Kinds
<1> QED
  BY <1>1, <1>2, <1>3, Zenon DEF AppInv

(* create_session, import_draft, import_plan and the reviews: a new object under a new handle. *)
LEMMA InsertServes ==
    ASSUME AppInv, NEW k \in Kinds \ {"runs"}, NEW object, Insert(k, object),
           k = "plans" => object \in Documents, k = "sessions" => DOMAIN object = SessionFields
    PROVE  Serves /\ Owned
<1>1. /\ issued \in [Kinds \union {"tokens"} -> Nat] /\ DOMAIN app = Kinds
      /\ DOMAIN app[k] \subseteq 1..issued[k] /\ ~(Cardinality(DOMAIN app[k]) >= MaxObjects)
      /\ issued' = [issued EXCEPT ![k] = issued[k] + 1] /\ app' = Keep(k, issued[k] + 1, object)
  BY DEF AppInv, Insert, Full, Draw, Fresh
<1>2. /\ DOMAIN app' = Kinds /\ \A j \in Kinds \ {k} : app'[j] = app[j]
      /\ DOMAIN app'[k] = DOMAIN app[k] \union {issued[k] + 1} /\ app'[k][issued[k] + 1] = object
      /\ \A x \in DOMAIN app[k] \ {issued[k] + 1} : app'[k][x] = app[k][x]
  BY <1>1, KeepShape, Zenon
<1>3. /\ issued' \in [Kinds \union {"tokens"} -> Nat] /\ \A j \in Kinds \union {"tokens"} : j # k => issued'[j] = issued[j]
      /\ issued[k] \in Nat /\ issued'[k] = issued[k] + 1
  BY <1>1
<1>4. DOMAIN app'[k] \subseteq 1..issued'[k] /\ Cardinality(DOMAIN app'[k]) <= MaxObjects
  <2>1. Cardinality(DOMAIN app[k]) \in Nat /\ Cardinality(DOMAIN app'[k]) \in Nat
        /\ Cardinality(DOMAIN app'[k]) <= Cardinality(DOMAIN app[k]) + 1
    <3>1. DOMAIN app[k] \in SUBSET (1..issued[k])
      BY <1>1, Zenon
    <3> DEFINE old == DOMAIN app[k]
    <3>2. /\ Cardinality(old) \in Nat
          /\ \A x : Cardinality(old \union {x}) \in Nat /\ Cardinality(old \union {x}) <= Cardinality(old) + 1
      BY <1>3, <3>1, RoomLeft, Zenon
    <3> QED
      BY <1>2, <3>2, Zenon
  <2>2. MaxObjects \in Nat
    BY FacadeAssumption
  <2>3. Cardinality(DOMAIN app'[k]) <= MaxObjects
    BY <1>1, <2>1, <2>2
  <2>4. DOMAIN app'[k] \subseteq 1..issued'[k]
    BY <1>1, <1>2, <1>3
  <2> QED
    BY <2>3, <2>4
<1>5. \A x \in DOMAIN app[k] : x # issued[k] + 1 /\ app'[k][x] = app[k][x]
  BY <1>1, <1>2, <1>3
<1>6. AppInv'
  <2>1. k = "plans" => \A p \in DOMAIN app'.plans : app'.plans[p] \in Documents
    BY <1>2, <1>5, Zenon DEF AppInv
  <2>2. k = "sessions" => \A s \in DOMAIN app'.sessions : DOMAIN app'.sessions[s] = SessionFields
    BY <1>2, <1>5, Zenon DEF AppInv
  <2> QED
    BY <1>2, <1>3, <1>4, <2>1, <2>2, ChangedKind, Zenon
<1>7. app'.runs = app.runs /\ issued'.runs = issued.runs /\ issued'.tokens = issued.tokens
  BY <1>2, <1>3 DEF Kinds
<1>8. \A s \in DOMAIN app.sessions : app'.sessions[s] = app.sessions[s]
  <2>1. CASE k = "sessions"
    BY <1>5, <2>1, Zenon
  <2>2. CASE k # "sessions"
    BY <1>2, <2>2 DEF Kinds
  <2> QED
    BY <2>1, <2>2
<1> QED
  BY <1>6, <1>7, <1>8, Zenon DEF Serves, Owned

(* Requests that only drop or revise objects of one or more kinds. *)
LEMMA FewerServes ==
    ASSUME AppInv, DOMAIN app' = Kinds, issued' = issued,
           \A j \in Kinds : DOMAIN app'[j] \subseteq DOMAIN app[j],
           \A p \in DOMAIN app'.plans : app'.plans[p] = app.plans[p],
           \A r \in DOMAIN app'.runs : app'.runs[r] = app.runs[r],
           \A s \in DOMAIN app'.sessions : DOMAIN app'.sessions[s] = SessionFields
    PROVE  Serves
<1>1. ASSUME NEW j \in Kinds
      PROVE  DOMAIN app'[j] \subseteq 1..issued'[j] /\ Cardinality(DOMAIN app'[j]) <= MaxObjects
  <2>1. /\ issued[j] \in Nat /\ DOMAIN app[j] \in SUBSET (1..issued[j])
        /\ DOMAIN app'[j] \in SUBSET DOMAIN app[j] /\ Cardinality(DOMAIN app[j]) <= MaxObjects
    BY DEF AppInv
  <2>2. /\ Cardinality(DOMAIN app[j]) \in Nat /\ Cardinality(DOMAIN app'[j]) \in Nat
        /\ Cardinality(DOMAIN app'[j]) <= Cardinality(DOMAIN app[j])
    BY <2>1, RoomLeft, Zenon
  <2>3. MaxObjects \in Nat
    BY FacadeAssumption
  <2>4. Cardinality(DOMAIN app'[j]) <= MaxObjects
    BY <2>1, <2>2, <2>3
  <2> QED
    BY <2>1, <2>4
<1>2. "plans" \in Kinds /\ "runs" \in Kinds
  BY DEF Kinds
<1>3. AppInv'
  BY <1>1, <1>2, Zenon DEF AppInv
<1> QED
  BY <1>2, <1>3, Zenon DEF Serves

(* ReviewClose, close_plan, close_run and IncidentAcknowledge: objects of one kind are dropped. *)
LEMMA ReleaseServes ==
    ASSUME AppInv, NEW k \in Kinds, NEW ids, issued' = issued,
           app' = [app EXCEPT ![k] = Without(app[k], ids)]
    PROVE  Serves /\ Owned
<1>1. /\ DOMAIN app = Kinds /\ \A s \in DOMAIN app.sessions : DOMAIN app.sessions[s] = SessionFields
      /\ "sessions" \in Kinds /\ "plans" \in Kinds /\ "runs" \in Kinds
  BY DEF AppInv, Kinds
<1>2. DOMAIN app' = Kinds /\ app'[k] = Without(app[k], ids) /\ \A j \in Kinds \ {k} : app'[j] = app[j]
  BY <1>1
<1>3. \A j \in Kinds : /\ DOMAIN app'[j] \subseteq DOMAIN app[j]
                       /\ \A x \in DOMAIN app'[j] : app'[j][x] = app[j][x]
  <2>1. DOMAIN app'[k] = DOMAIN app[k] \ ids /\ \A x \in DOMAIN app[k] \ ids : app'[k][x] = app[k][x]
    BY <1>2 DEF Without, Restrict
  <2> QED
    BY <1>2, <2>1, Zenon
<1>4. Serves
  <2>1. /\ \A p \in DOMAIN app'.plans : app'.plans[p] = app.plans[p]
        /\ \A r \in DOMAIN app'.runs : app'.runs[r] = app.runs[r]
    BY <1>1, <1>3, Zenon
  <2>2. \A s \in DOMAIN app'.sessions : DOMAIN app'.sessions[s] = SessionFields
    BY <1>1, <1>3
  <2> QED
    BY <1>2, <1>3, <2>1, <2>2, FewerServes, Zenon
<1> QED
  BY <1>1, <1>3, <1>4, Zenon DEF Owned

(* edit, undo and redo leave the baseline and the handles alone. *)
LEMMA ReviseServes ==
    ASSUME AppInv, NEW s \in DOMAIN app.sessions, Revise(s)
    PROVE  Serves /\ Owned
<1>1. PICK d \in Drafts :
          app' = [app EXCEPT !.sessions[s].revision = app.sessions[s].revision + 1,
                             !.sessions[s].draft = d]
  BY Zenon DEF Revise
<1>2. /\ DOMAIN app = Kinds /\ \A t \in DOMAIN app.sessions : DOMAIN app.sessions[t] = SessionFields
      /\ issued' = issued
  BY DEF AppInv, Revise
<1>3. /\ DOMAIN app' = Kinds /\ \A j \in Kinds \ {"sessions"} : app'[j] = app[j]
      /\ app'.sessions = [app.sessions EXCEPT ![s] =
                            [app.sessions[s] EXCEPT !.revision = @ + 1, !.draft = d]]
  <2>1. "sessions" \in DOMAIN app
    BY <1>2 DEF Kinds
  <2> QED
    BY <1>1, <1>2, <2>1, Zenon
<1>4. /\ app'.sessions[s] = [app.sessions[s] EXCEPT !.revision = @ + 1, !.draft = d]
      /\ DOMAIN app'.sessions = DOMAIN app.sessions
      /\ \A t \in DOMAIN app.sessions \ {s} : app'.sessions[t] = app.sessions[t]
  BY <1>3
<1>5. DOMAIN app'.sessions[s] = SessionFields /\ app'.sessions[s].baseline = app.sessions[s].baseline
  BY <1>2, <1>4 DEF SessionFields
<1>6. /\ \A j \in Kinds : DOMAIN app'[j] \subseteq DOMAIN app[j]
      /\ app'.plans = app.plans /\ app'.runs = app.runs
  BY <1>3, <1>4 DEF Kinds
<1>7. Serves
  BY <1>2, <1>3, <1>4, <1>5, <1>6, FewerServes, Zenon
<1> QED
  BY <1>4, <1>5, <1>7, Zenon DEF Owned

(* close_session takes the rebases of its session with it. *)
LEMMA CloseServes ==
    ASSUME AppInv, NEW s \in DOMAIN app.sessions, close_session(s)
    PROVE  Serves /\ Owned
<1>1. PICK ids : app' = [app EXCEPT !.sessions = Without(app.sessions, {s}),
                                    !.reviews = Without(app.reviews, ids)]
  BY Zenon DEF close_session
<1>2. /\ DOMAIN app = Kinds /\ \A t \in DOMAIN app.sessions : DOMAIN app.sessions[t] = SessionFields
      /\ issued' = issued
  BY DEF AppInv, close_session
<1>3. /\ DOMAIN app' = Kinds /\ app'.plans = app.plans /\ app'.runs = app.runs
      /\ app'.sessions = Without(app.sessions, {s}) /\ app'.reviews = Without(app.reviews, ids)
  BY <1>1, <1>2 DEF Kinds
<1>4. /\ DOMAIN app'.sessions \subseteq DOMAIN app.sessions /\ DOMAIN app'.reviews \subseteq DOMAIN app.reviews
      /\ \A t \in DOMAIN app'.sessions : app'.sessions[t] = app.sessions[t]
  BY <1>3 DEF Without, Restrict
<1>5. \A j \in Kinds : DOMAIN app'[j] \subseteq DOMAIN app[j]
  BY <1>3, <1>4 DEF Kinds
<1>6. \A t \in DOMAIN app'.sessions : DOMAIN app'.sessions[t] = SessionFields
  BY <1>2, <1>4
<1>7. Serves
  BY <1>2, <1>3, <1>5, <1>6, FewerServes, Zenon
<1> QED
  BY <1>4, <1>7, Zenon DEF Owned

(* SessionAcceptRebase moves a session to the baseline of a candidate prepared for it. *)
LEMMA AcceptServes ==
    ASSUME AppInv, NEW s \in DOMAIN app.sessions, NEW r \in DOMAIN app.reviews, NEW v, AcceptRebase(s, v, r)
    PROVE  Serves /\ Owned
<1> DEFINE candidate == app.reviews[r]
           old == app.sessions[s]
<1>1. candidate.kind = "rebase" /\ candidate.session = s
  BY DEF AcceptRebase
<1>2. PICK new : /\ app' = [app EXCEPT !.reviews = Without(app.reviews, {r}), !.sessions = new]
                 /\ new = IF old = candidate.source
                          THEN [app.sessions EXCEPT ![s] = [old EXCEPT !.revision = old.revision + 1,
                                                                       !.baseline = candidate.baseline]]
                          ELSE app.sessions
  BY Zenon DEF AcceptRebase, Accept, StillCurrent
<1>3. /\ DOMAIN app = Kinds /\ \A t \in DOMAIN app.sessions : DOMAIN app.sessions[t] = SessionFields
      /\ issued' = issued
  BY DEF AppInv, AcceptRebase, Accept
<1>4. /\ DOMAIN app' = Kinds /\ app'.plans = app.plans /\ app'.runs = app.runs
      /\ app'.sessions = new /\ app'.reviews = Without(app.reviews, {r})
  BY <1>2, <1>3 DEF Kinds
<1>5. DOMAIN app'.reviews = DOMAIN app.reviews \ {r}
  BY <1>4 DEF Without, Restrict
<1>6. /\ DOMAIN new = DOMAIN app.sessions /\ \A t \in DOMAIN app.sessions \ {s} : new[t] = app.sessions[t]
      /\ \/ new[s] = old
         \/ old = candidate.source /\ new[s] = [old EXCEPT !.revision = old.revision + 1,
                                                           !.baseline = candidate.baseline]
  BY <1>2
<1>7. /\ DOMAIN new[s] = SessionFields
      /\ new[s].baseline # old.baseline => old = candidate.source /\ new[s].baseline = candidate.baseline
  BY <1>3, <1>6, Zenon DEF SessionFields
<1>8. \A j \in Kinds : DOMAIN app'[j] \subseteq DOMAIN app[j]
  BY <1>4, <1>5, <1>6 DEF Kinds
<1>9. \A t \in DOMAIN app'.sessions : DOMAIN app'.sessions[t] = SessionFields
  BY <1>3, <1>4, <1>6, <1>7, Zenon
<1>10. Serves
  BY <1>3, <1>4, <1>8, <1>9, FewerServes, Zenon
<1>11. Owned
  <2> SUFFICES ASSUME NEW t \in DOMAIN app.sessions, app'.sessions[t].baseline # app.sessions[t].baseline
               PROVE  /\ t = s /\ r \in DOMAIN app.reviews \ DOMAIN app'.reviews
                      /\ candidate.source = old /\ candidate.baseline = app'.sessions[s].baseline
    BY <1>1, Zenon DEF Owned
  <2>1. t = s
    BY <1>4, <1>6
  <2> QED
    BY <1>4, <1>5, <1>7, <2>1, Zenon
<1> QED
  BY <1>10, <1>11

(* Every request other than ApplyBlocking. *)
LEMMA RequestServes ==
    ASSUME AppInv, Request
    PROVE  Serves /\ Owned
<1>0. /\ "sessions" \in Kinds \ {"runs"} /\ "plans" \in Kinds \ {"runs"} /\ "reviews" \in Kinds \ {"runs"}
      /\ "runs" \in Kinds
  BY DEF Kinds
<1>1. CASE create_session
  <2>1. PICK b \in Baselines, d \in Drafts :
          Insert("sessions", [uuid |-> Fresh("sessions"), revision |-> 0, baseline |-> b, draft |-> d])
    BY <1>1 DEF create_session
  <2> DEFINE new == [uuid |-> Fresh("sessions"), revision |-> 0, baseline |-> b, draft |-> d]
  <2>2. DOMAIN new = SessionFields
    BY DEF SessionFields
  <2> HIDE DEF new
  <2>3. Insert("sessions", new)
    BY <2>1 DEF new
  <2> QED
    BY <1>0, <2>2, <2>3, InsertServes
<1>2. CASE import_draft
  <2>1. PICK document \in {Saved} \union {app.sessions[s] : s \in DOMAIN app.sessions} :
          Insert("sessions", document)
    BY <1>2 DEF import_draft
  <2>2. DOMAIN document = SessionFields
    BY <2>1, FacadeAssumption DEF AppInv
  <2> QED
    BY <1>0, <2>1, <2>2, InsertServes
<1>3. CASE \E s \in DOMAIN app.sessions : Revise(s) \/ close_session(s)
  BY <1>3, ReviseServes, CloseServes
<1>4. CASE \E s \in DOMAIN app.sessions : PrepareRebase(s)
  BY <1>0, <1>4, InsertServes, Zenon DEF PrepareRebase
<1>5. CASE \E s \in DOMAIN app.sessions, r \in DOMAIN app.reviews, v \in Revisions : AcceptRebase(s, v, r)
  BY <1>5, AcceptServes
<1>6. CASE import_plan
  BY <1>0, <1>6, InsertServes DEF import_plan
<1>7. CASE IncidentReview
  BY <1>0, <1>7, InsertServes DEF IncidentReview
<1>8. CASE \E k \in Kinds : \E id : Release(k, id)
  BY <1>8, ReleaseServes, Zenon DEF Release
<1>9. CASE \E r, run : IncidentAcknowledge(r, run)
  BY <1>0, <1>9, ReleaseServes, Zenon DEF IncidentAcknowledge
<1> QED
  BY <1>0, <1>1, <1>2, <1>3, <1>4, <1>5, <1>6, <1>7, <1>8, <1>9, Zenon
     DEF Request, ReviewClose, close_plan, close_run

-----------------------------------------------------------------------------
(* A drawn identity is not drawn before. *)
LEMMA DrawShape ==
    ASSUME AppInv, NEW k \in Kinds \union {"tokens"}, Draw(k)
    PROVE  /\ issued' \in [Kinds \union {"tokens"} -> Nat] /\ issued'[k] = issued[k] + 1 /\ issued[k] \in Nat
           /\ \A j \in Kinds \union {"tokens"} : j # k => issued'[j] = issued[j]
  BY DEF AppInv, Draw

(* AppInv is about the retained objects and the identities only. *)
LEMMA AppStays ==
    ASSUME AppInv, app' = app, issued' = issued \/ \E k \in Kinds \union {"tokens"} : Draw(k)
    PROVE  AppInv'
<1>1. /\ issued' \in [Kinds \union {"tokens"} -> Nat]
      /\ \A k \in Kinds : issued[k] \in Nat /\ issued'[k] \in Nat /\ issued[k] <= issued'[k]
  <2>1. CASE issued' = issued
    BY <2>1 DEF AppInv
  <2>2. ASSUME NEW k \in Kinds \union {"tokens"}, Draw(k)
        PROVE  /\ issued' \in [Kinds \union {"tokens"} -> Nat]
               /\ \A j \in Kinds : issued[j] \in Nat /\ issued'[j] \in Nat /\ issued[j] <= issued'[j]
    BY <2>2, DrawShape DEF AppInv
  <2> QED
    BY <2>1, <2>2, Zenon
<1>2. ASSUME NEW k \in Kinds PROVE DOMAIN app[k] \subseteq 1..issued'[k]
  <2>1. DOMAIN app[k] \subseteq 1..issued[k] /\ issued[k] \in Nat /\ issued'[k] \in Nat /\ issued[k] <= issued'[k]
    BY <1>1 DEF AppInv
  <2> QED
    BY <2>1
<1> QED
  BY <1>1, <1>2, Zenon DEF AppInv

(* A process starts with nothing retained. *)
LEMMA NothingRetained ==
    /\ DOMAIN NoApp = Kinds /\ \A k \in Kinds : DOMAIN NoApp[k] = {}
    /\ DOMAIN NoApp.plans = {} /\ DOMAIN NoApp.sessions = {} /\ DOMAIN NoApp.runs = {}
    /\ Cardinality({}) <= MaxObjects
<1>1. Cardinality({}) = 0 /\ 0 <= MaxObjects
  BY FS_EmptySet, FacadeAssumption
<1> QED
  BY <1>1 DEF NoApp, NoObjects, Kinds

(* CheckScope keeps the answers of the run it is about, and drops those of another. *)
LEMMA ScopeShape ==
    ASSUME NEW run, DOMAIN policy = {"context", "confirmed", "refused", "current"}, policy.refused \in BOOLEAN,
           NEW new, new = CheckScope(policy, run)
    PROVE  /\ DOMAIN new = {"context", "confirmed", "refused", "current"} /\ new.refused \in BOOLEAN
           /\ new.context = {run} /\ new.current = {run}
           /\ \/ policy.current = {run} /\ new.confirmed = policy.confirmed /\ new.refused = policy.refused
              \/ policy.current # {run} /\ new.confirmed = {} /\ new.refused = FALSE
  BY Zenon DEF CheckScope

(* The end of a run, wherever it comes from. *)
LEMMA FinishShape ==
    ASSUME AppInv, ExecInv, pc # "ready", NEW verified, Finish(verified), issued' = issued
    PROVE  /\ AppInv' /\ ExecInv'
           /\ pc' = "ready" /\ exec' = NoRun /\ exec'.run = 0
           /\ DOMAIN app'.runs = DOMAIN app.runs \union {exec.run}
           /\ app'.runs[exec.run] = [document |-> exec.document, verified |-> verified]
           /\ \A r \in DOMAIN app.runs : r # exec.run /\ app'.runs[r] = app.runs[r]
<1>1. /\ issued \in [Kinds \union {"tokens"} -> Nat] /\ DOMAIN app = Kinds /\ "runs" \in Kinds
      /\ DOMAIN app.runs \in SUBSET (1..issued.runs) /\ issued.runs \in Nat
      /\ exec.run = issued.runs /\ exec.run \in Nat \ {0} /\ exec.run \notin DOMAIN app.runs
      /\ Cardinality(DOMAIN app.runs) < MaxObjects
  BY DEF AppInv, ExecInv, Kinds
<1>2. /\ app' = Keep("runs", exec.run, [document |-> exec.document, verified |-> verified])
      /\ pc' = "ready" /\ exec' = NoRun
  BY DEF Finish
<1>3. /\ DOMAIN app' = Kinds /\ \A j \in Kinds \ {"runs"} : app'[j] = app[j]
      /\ DOMAIN app'.runs = DOMAIN app.runs \union {exec.run}
      /\ app'.runs[exec.run] = [document |-> exec.document, verified |-> verified]
      /\ \A x \in DOMAIN app.runs \ {exec.run} : app'.runs[x] = app.runs[x]
  BY <1>1, <1>2, KeepShape
<1>4. DOMAIN app'.runs \subseteq 1..issued'.runs
  BY <1>1, <1>3
<1>5. Cardinality(DOMAIN app'.runs) <= MaxObjects
  <2>1. /\ Cardinality(DOMAIN app.runs) \in Nat /\ Cardinality(DOMAIN app.runs \union {exec.run}) \in Nat
        /\ Cardinality(DOMAIN app.runs \union {exec.run}) <= Cardinality(DOMAIN app.runs) + 1
    BY <1>1, RoomLeft, Zenon
  <2>2. MaxObjects \in Nat
    BY FacadeAssumption
  <2>3. Cardinality(DOMAIN app.runs \union {exec.run}) <= MaxObjects
    BY <1>1, <2>1, <2>2
  <2> QED
    BY <1>3, <2>3, Zenon
<1>6. AppInv'
  BY <1>1, <1>3, <1>4, <1>5, ChangedKind, Zenon
<1>7. ExecInv'
  BY <1>2 DEF ExecInv, Places
<1>8. exec'.run = 0
  BY <1>2, Zenon DEF NoRun
<1>9. \A r \in DOMAIN app.runs : r # exec.run /\ app'.runs[r] = app.runs[r]
  BY <1>1, <1>3, Zenon
<1> QED
  BY <1>2, <1>3, <1>6, <1>7, <1>8, <1>9, Zenon

(* A run may end at any place with nothing but its record added; a verified one where the *)
(* last action was called.                                                              *)
LEMMA FinishKeeps ==
    ASSUME BInv, pc # "ready", NEW verified, Finish(verified),
           UNCHANGED <<issued, shown, consents, dispatched, released>>,
           policy' = policy \/ policy' = CheckScope(policy, exec.run),
           verified => ~exec.document.protected /\ Calls(exec.run) = 1..exec.document.actions
    PROVE  BInv'
<1>0. AppInv /\ ExecInv /\ PolicyInv /\ ShownInv /\ CallsInv
  BY DEF BInv
<1>1. /\ AppInv' /\ ExecInv' /\ pc' = "ready" /\ exec' = NoRun /\ exec'.run = 0
      /\ DOMAIN app'.runs = DOMAIN app.runs \union {exec.run}
      /\ app'.runs[exec.run] = [document |-> exec.document, verified |-> verified]
      /\ \A r \in DOMAIN app.runs : r # exec.run /\ app'.runs[r] = app.runs[r]
  BY <1>0, FinishShape, Zenon
<1>2. /\ DOMAIN policy' = {"context", "confirmed", "refused", "current"} /\ policy'.refused \in BOOLEAN
      /\ policy'.confirmed \subseteq policy.confirmed
  <2>1. DOMAIN policy = {"context", "confirmed", "refused", "current"} /\ policy.refused \in BOOLEAN
    BY <1>0, Zenon DEF PolicyInv
  <2>2. CASE policy' = CheckScope(policy, exec.run)
    BY <2>1, <2>2, ScopeShape, Zenon
  <2> QED
    BY <2>1, <2>2, Zenon
<1>3. PolicyInv'
  BY <1>0, <1>1, <1>2, Zenon DEF PolicyInv
<1>4. ShownInv'
  <2>1. \A r \in shown : r.run # 0
    <3>1. issued.runs \in Nat
      BY <1>0 DEF AppInv, Kinds
    <3> QED
      BY <1>0, <3>1 DEF ShownInv
  <2> QED
    BY <1>0, <1>1, <2>1, Zenon DEF ShownInv
<1>5. CallsInv'
  <2>1. \A r : Calls(r)' = Calls(r)
    BY DEF Calls
  <2>2. \A d \in dispatched : d.run \in DOMAIN app'.runs \union released \union {exec'.run}
    BY <1>0, <1>1, Zenon DEF CallsInv
  <2>3. ASSUME NEW r \in DOMAIN app'.runs, app'.runs[r].verified
        PROVE  ~app'.runs[r].document.protected /\ Calls(r) = 1..app'.runs[r].document.actions
    <3>1. CASE r = exec.run
      BY <1>1, <2>3, <3>1
    <3>2. CASE r # exec.run
      BY <1>0, <1>1, <2>3, <3>2 DEF CallsInv
    <3> QED
      BY <3>1, <3>2, Zenon
  <2>4. \A d \in dispatched : Consented(d)' <=> Consented(d)
    BY DEF Consented
  <2> QED
    BY <1>0, <1>1, <2>1, <2>2, <2>3, <2>4, Zenon DEF CallsInv
<1> QED
  BY <1>1, <1>3, <1>4, <1>5, Zenon DEF BInv

(* A request between two runs. *)
LEMMA ServeKeeps ==
    ASSUME BInv, Serve
    PROVE  BInv'
<1>0. AppInv /\ ExecInv /\ PolicyInv /\ ShownInv /\ CallsInv
  BY DEF BInv
<1>1. /\ pc = "ready" /\ Request /\ UNCHANGED <<pc, exec, policy, shown, consents, dispatched>>
      /\ released' = released \union (DOMAIN app.runs \ DOMAIN app'.runs)
  BY DEF Serve
<1>2. /\ AppInv' /\ issued'.runs = issued.runs /\ issued'.tokens = issued.tokens
      /\ DOMAIN app'.runs \subseteq DOMAIN app.runs /\ \A r \in DOMAIN app'.runs : app'.runs[r] = app.runs[r]
  BY <1>0, <1>1, RequestServes, Zenon DEF Serves
<1>3. ExecInv'
  BY <1>0, <1>1, Zenon DEF ExecInv
<1>4. PolicyInv'
  BY <1>0, <1>1, Zenon DEF PolicyInv
<1>5. ShownInv'
  BY <1>0, <1>1, <1>2, Zenon DEF ShownInv
<1>6. CallsInv'
  <2>1. \A r : Calls(r)' = Calls(r)
    BY <1>1 DEF Calls
  <2>2. \A d \in dispatched : Consented(d)' <=> Consented(d)
    BY <1>1 DEF Consented
  <2>3. \A d \in dispatched : d.run \in DOMAIN app'.runs \union released' \union {exec'.run}
    BY <1>0, <1>1, <1>2, Zenon DEF CallsInv
  <2>4. \A r \in DOMAIN app'.runs : app'.runs[r].verified =>
          ~app'.runs[r].document.protected /\ Calls(r) = 1..app'.runs[r].document.actions
    BY <1>0, <1>2, Zenon DEF CallsInv
  <2> QED
    BY <1>0, <1>1, <1>2, <2>1, <2>2, <2>3, <2>4, Zenon DEF CallsInv
<1> QED
  BY <1>2, <1>3, <1>4, <1>5, <1>6, Zenon DEF BInv

(* A new run is one that nothing shown or called is about. *)
LEMMA ApplyKeeps ==
    ASSUME BInv, NEW p \in DOMAIN app.plans, ApplyBlocking(p)
    PROVE  BInv'
<1>0. AppInv /\ ExecInv /\ PolicyInv /\ ShownInv /\ CallsInv
  BY DEF BInv
<1>1. /\ pc = "ready" /\ pc' = "plan" /\ ~(Cardinality(DOMAIN app.runs) >= MaxObjects) /\ Draw("runs")
      /\ exec' = [run |-> issued.runs + 1, document |-> app.plans[p], at |-> 0]
      /\ UNCHANGED <<app, policy, shown, consents, dispatched, released>>
  BY Zenon DEF ApplyBlocking, Full, Fresh
<1>2. /\ issued' \in [Kinds \union {"tokens"} -> Nat] /\ issued'.runs = issued.runs + 1 /\ issued.runs \in Nat
      /\ issued'.tokens = issued.tokens
  BY <1>0, <1>1, DrawShape, Zenon DEF Kinds
<1>3. AppInv'
  <2>1. "runs" \in Kinds
    BY DEF Kinds
  <2> QED
    BY <1>0, <1>1, <2>1, AppStays, Zenon
<1>4. DOMAIN app.runs \in SUBSET (1..issued.runs) /\ app.plans[p] \in Documents
  BY <1>0 DEF AppInv, Kinds
<1>5. Cardinality(DOMAIN app.runs) < MaxObjects
  <2>1. Cardinality(DOMAIN app.runs) \in Nat /\ MaxObjects \in Nat
    BY <1>2, <1>4, RoomLeft, FacadeAssumption, Zenon
  <2> QED
    BY <1>1, <2>1
<1>6. exec'.run = issued.runs + 1 /\ exec'.at = 0 /\ exec'.document = app.plans[p]
      /\ DOMAIN exec' = {"run", "document", "at"}
  BY <1>1, Zenon
<1>7. ExecInv'
  BY <1>1, <1>2, <1>4, <1>5, <1>6 DEF ExecInv, Places
<1>8. PolicyInv'
  BY <1>0, <1>1, Zenon DEF PolicyInv
<1>9. ShownInv'
  BY <1>0, <1>1, <1>2, <1>6 DEF ShownInv
<1>10. CallsInv'
  <2>1. \A r : Calls(r)' = Calls(r)
    BY <1>1, Zenon DEF Calls
  <2>2. \A d \in dispatched : Consented(d)' <=> Consented(d)
    BY <1>1, Zenon DEF Consented
  <2>3. \A d \in dispatched : d.run \in 1..issued.runs
    BY <1>0, Zenon DEF CallsInv
  <2>4. Calls(exec'.run) = {}
    BY <1>2, <1>6, <2>3 DEF Calls
  <2>5. \A d \in dispatched : d.run \in DOMAIN app.runs \union released
    <3>1. exec.run = 0
      BY <1>0, <1>1 DEF ExecInv, NoRun
    <3> QED
      BY <1>0, <1>2, <2>3, <3>1 DEF CallsInv
  <2>6. \A d \in dispatched : d.run \in 1..issued'.runs
    BY <1>2, <2>3
  <2> QED
    BY <1>0, <1>1, <2>1, <2>2, <2>4, <2>5, <2>6, Zenon DEF CallsInv
<1> QED
  BY <1>3, <1>7, <1>8, <1>9, <1>10, Zenon DEF BInv

(* The next action, after as many as have been called, or the final verification. *)
LEMMA ProceedKeeps ==
    ASSUME BInv, pc \notin {"ready", "confirm"}, NEW at \in Nat \ {0}, at <= exec.document.actions + 1,
           Proceed(at), UNCHANGED <<issued, policy, shown, consents, dispatched, released>>,
           Calls(exec.run) = 1..(at - 1)
    PROVE  BInv'
<1>0. AppInv /\ ExecInv /\ PolicyInv /\ ShownInv /\ CallsInv
  BY DEF BInv
<1>1. /\ DOMAIN exec = {"run", "document", "at"} /\ exec.document \in Documents
      /\ exec.document.actions \in Nat
  BY <1>0, FacadeAssumption, Zenon DEF ExecInv
<1>2. /\ exec'.run = exec.run /\ exec'.document = exec.document /\ exec'.at = at /\ DOMAIN exec' = DOMAIN exec
      /\ app' = app /\ pc' = IF at <= exec.document.actions THEN "admission" ELSE "goal"
  BY <1>1 DEF Proceed
<1>3. AppInv'
  BY <1>0, <1>2, AppStays, Zenon
<1>4. ExecInv'
  BY <1>0, <1>1, <1>2 DEF ExecInv, Places
<1>5. PolicyInv'
  BY <1>0, <1>2, Zenon DEF PolicyInv
<1>6. ShownInv'
  BY <1>0, <1>2, Zenon DEF ShownInv
<1>7. CallsInv'
  <2>1. \A r : Calls(r)' = Calls(r)
    BY Zenon DEF Calls
  <2>2. \A d \in dispatched : Consented(d)' <=> Consented(d)
    BY DEF Consented
  <2>3. Calls(exec.run)' = 1..(exec'.at - 1)
    BY <1>2 DEF Calls
  <2> QED
    BY <1>0, <1>2, <2>1, <2>2, <2>3, Zenon DEF CallsInv
<1> QED
  BY <1>3, <1>4, <1>5, <1>6, <1>7, Zenon DEF BInv

(* check_plan: the first action, or the end of the run. *)
LEMMA CheckPlanKeeps ==
    ASSUME BInv, CheckPlan
    PROVE  BInv'
<1>0. /\ pc = "plan" /\ (Finish(FALSE) \/ Proceed(1))
      /\ UNCHANGED <<issued, policy, shown, consents, dispatched, released>>
  BY Zenon DEF CheckPlan
<1>1. CASE Finish(FALSE)
  BY <1>0, <1>1, FinishKeeps, Zenon
<1>2. CASE Proceed(1)
  <2>1. exec.document.actions \in Nat /\ Calls(exec.run) = {}
    BY <1>0, FacadeAssumption, Zenon DEF BInv, ExecInv, CallsInv
  <2>2. Calls(exec.run) = 1..(1 - 1) /\ 1 <= exec.document.actions + 1 /\ 1 \in Nat \ {0}
    BY <2>1
  <2>3. pc \notin {"ready", "confirm"}
    BY <1>0
  <2> QED
    BY <1>0, <1>2, <2>2, <2>3, ProceedKeeps, Zenon
<1> QED
  BY <1>0, <1>1, <1>2, Zenon

(* The verification of an action: the next one, or the end of the run. *)
LEMMA VerifyKeeps ==
    ASSUME BInv, Verify
    PROVE  BInv'
<1>0. /\ pc = "verify" /\ (Finish(FALSE) \/ Proceed(exec.at + 1))
      /\ UNCHANGED <<issued, policy, shown, consents, dispatched, released>>
  BY Zenon DEF Verify
<1>1. CASE Finish(FALSE)
  BY <1>0, <1>1, FinishKeeps, Zenon
<1>2. CASE Proceed(exec.at + 1)
  <2>1. /\ exec.document.actions \in Nat /\ exec.at \in 1..exec.document.actions
        /\ Calls(exec.run) = 1..exec.at
    BY <1>0, FacadeAssumption, Zenon DEF BInv, ExecInv, CallsInv, Places
  <2> DEFINE at == exec.at + 1
  <2>2. Calls(exec.run) = 1..(at - 1) /\ at <= exec.document.actions + 1 /\ at \in Nat \ {0}
    BY <2>1
  <2>3. pc \notin {"ready", "confirm"} /\ Proceed(at)
    BY <1>0, <1>2
  <2> HIDE DEF at
  <2> QED
    BY <1>0, <2>2, <2>3, ProceedKeeps, Zenon
<1> QED
  BY <1>0, <1>1, <1>2, Zenon

(* The final verification ends the run, verified or not. *)
LEMMA VerifyGoalKeeps ==
    ASSUME BInv, VerifyGoal
    PROVE  BInv'
<1>1. PICK verified \in BOOLEAN : Finish(verified) /\ (verified => ~exec.document.protected)
  BY Zenon DEF VerifyGoal
<1>2. /\ pc = "goal" /\ UNCHANGED <<issued, shown, consents, dispatched, released>>
      /\ policy' = policy \/ policy' = CheckScope(policy, exec.run)
  BY Zenon DEF VerifyGoal
<1>3. Calls(exec.run) = 1..exec.document.actions
  <2>1. /\ exec.at = exec.document.actions + 1 /\ exec.document.actions \in Nat
        /\ Calls(exec.run) = 1..(exec.at - 1)
    BY <1>2, FacadeAssumption, Zenon DEF BInv, ExecInv, CallsInv
  <2> QED
    BY <2>1
<1> QED
  BY <1>1, <1>2, <1>3, FinishKeeps, Zenon

(* check_admission attests the scope of the run before the policy is asked. *)
LEMMA CheckAdmissionKeeps ==
    ASSUME BInv, CheckAdmission
    PROVE  BInv'
<1>0. /\ pc = "admission" /\ UNCHANGED <<issued, shown, consents, dispatched, released>>
      /\ \/ Finish(FALSE) /\ (policy' = policy \/ policy' = CheckScope(policy, exec.run))
         \/ policy' = CheckScope(policy, exec.run) /\ Goto("authorize")
  BY Zenon DEF CheckAdmission
<1>1. CASE Finish(FALSE) /\ (policy' = policy \/ policy' = CheckScope(policy, exec.run))
  BY <1>0, <1>1, FinishKeeps, Zenon
<1>2. CASE policy' = CheckScope(policy, exec.run) /\ Goto("authorize")
  <2>0. AppInv /\ ExecInv /\ PolicyInv /\ ShownInv /\ CallsInv
    BY DEF BInv
  <2>1. pc' = "authorize" /\ app' = app /\ exec' = exec
    BY <1>2 DEF Goto
  <2>2. /\ DOMAIN policy' = {"context", "confirmed", "refused", "current"} /\ policy'.refused \in BOOLEAN
        /\ policy'.context = {exec.run} /\ policy'.current = {exec.run}
        /\ \/ policy.current = {exec.run} /\ policy'.confirmed = policy.confirmed /\ policy'.refused = policy.refused
           \/ policy.current # {exec.run} /\ policy'.confirmed = {} /\ policy'.refused = FALSE
    <3>1. DOMAIN policy = {"context", "confirmed", "refused", "current"} /\ policy.refused \in BOOLEAN
      BY <2>0, Zenon DEF PolicyInv
    <3> QED
      BY <1>2, <3>1, ScopeShape, Zenon
  <2>3. AppInv'
    BY <1>0, <2>0, <2>1, AppStays, Zenon
  <2>4. ExecInv'
    BY <1>0, <2>0, <2>1, Zenon DEF ExecInv, Places
  <2>5. PolicyInv'
    BY <1>0, <2>0, <2>1, <2>2, Zenon DEF PolicyInv
  <2>6. ShownInv'
    BY <1>0, <2>0, <2>1, <2>2, Zenon DEF ShownInv
  <2>7. CallsInv'
    BY <1>0, <2>0, <2>1, Zenon DEF CallsInv, Calls, Consented
  <2> QED
    BY <2>3, <2>4, <2>5, <2>6, <2>7, Zenon DEF BInv
<1> QED
  BY <1>0, <1>1, <1>2, Zenon

(* A run goes to dispatch with a confirmation of its own review. *)
LEMMA AuthorizeAgainKeeps ==
    ASSUME BInv, AuthorizeAgain
    PROVE  BInv'
<1>0. pc = "authorize" /\ UNCHANGED <<issued, policy, shown, consents, dispatched, released>>
  BY Zenon DEF AuthorizeAgain
<1>1. CASE Finish(FALSE)
  BY <1>0, <1>1, FinishKeeps, Zenon
<1>2. ASSUME NEW review \in policy.confirmed, SameRequest(review, ApprovalRequest), Goto("dispatch")
      PROVE  BInv'
  <2>0. AppInv /\ ExecInv /\ PolicyInv /\ ShownInv /\ CallsInv
    BY DEF BInv
  <2>1. pc' = "dispatch" /\ app' = app /\ exec' = exec
    BY <1>2 DEF Goto
  <2>2. Consented(exec)
    <3>1. review \in consents /\ review.context = review.run
      BY <1>2, <2>0, Zenon DEF PolicyInv
    <3>2. review.run = exec.run /\ review.plan = exec.document.plan /\ review.digest = exec.document.digest
      BY <1>2, Zenon DEF SameRequest, ApprovalRequest
    <3> QED
      BY <3>1, <3>2, Zenon DEF Consented
  <2>3. AppInv'
    BY <1>0, <2>0, <2>1, AppStays, Zenon
  <2>4. ExecInv'
    BY <1>0, <2>0, <2>1, Zenon DEF ExecInv, Places
  <2>5. PolicyInv'
    BY <1>0, <2>0, <2>1, Zenon DEF PolicyInv
  <2>6. ShownInv'
    BY <1>0, <2>0, <2>1, Zenon DEF ShownInv
  <2>7. CallsInv'
    BY <1>0, <2>0, <2>1, <2>2, Zenon DEF CallsInv, Calls, Consented
  <2> QED
    BY <2>3, <2>4, <2>5, <2>6, <2>7, Zenon DEF BInv
<1> QED
  BY <1>1, <1>2, Zenon DEF AuthorizeAgain

(* A run is asked about when it has no answer: it was not asked before. *)
LEMMA ShowReviewKeeps ==
    ASSUME BInv, ShowReview
    PROVE  BInv'
<1>0. AppInv /\ ExecInv /\ PolicyInv /\ ShownInv /\ CallsInv
  BY DEF BInv
<1>1. PICK context \in policy.context :
        shown' = shown \union {[context |-> context, run |-> exec.run, plan |-> exec.document.plan,
                                digest |-> exec.document.digest, token |-> issued.tokens + 1]}
  BY DEF ShowReview, Fresh
<1>2. /\ pc = "authorize" /\ ~policy.refused /\ policy.confirmed = {} /\ Draw("tokens")
      /\ policy' = [policy EXCEPT !.context = {}] /\ pc' = "confirm" /\ app' = app /\ exec' = exec
      /\ UNCHANGED <<consents, dispatched, released>>
  BY DEF ShowReview, Goto
<1>3. PICK new :
        /\ new.context = exec.run /\ new.run = exec.run /\ new.plan = exec.document.plan
        /\ new.digest = exec.document.digest /\ new.token = issued.tokens + 1
        /\ shown' = shown \union {new}
  BY <1>0, <1>1, <1>2, Zenon DEF PolicyInv
<1>4. shown' = shown \union {new}
  BY <1>3, Zenon
<1>5. /\ issued'.tokens = issued.tokens + 1 /\ issued.tokens \in Nat
      /\ issued'.runs = issued.runs /\ issued.runs \in Nat
  BY <1>0, <1>2, DrawShape, Zenon DEF Kinds, AppInv
<1>6. AppInv'
  BY <1>0, <1>2, AppStays
<1>7. ExecInv'
  BY <1>0, <1>2, <1>5, Zenon DEF ExecInv, Places
<1>8. /\ DOMAIN policy' = {"context", "confirmed", "refused", "current"} /\ policy'.refused = policy.refused
      /\ policy'.confirmed = policy.confirmed /\ policy'.current = policy.current /\ policy'.context = {}
  BY <1>0, <1>2 DEF PolicyInv
<1>9. PolicyInv'
  BY <1>0, <1>2, <1>8 DEF PolicyInv
<1>10. exec.run \in 1..issued.runs
  BY <1>0, <1>2, <1>5 DEF ExecInv
<1>11. \A r \in shown : /\ r.run # exec.run /\ r.token \in 1..issued.tokens
                        /\ r.run \in 1..issued.runs /\ r.context = r.run
  BY <1>0, <1>2, Zenon DEF ShownInv
<1>12. ShownInv'
  <2>1. \A r \in shown' : r.run \in 1..issued'.runs /\ r.token \in 1..issued'.tokens /\ r.context = r.run
    BY <1>3, <1>4, <1>5, <1>10, <1>11
  <2>2. \A r, o \in shown : r.token = o.token \/ r.run = o.run => r = o
    BY <1>0, Zenon DEF ShownInv
  <2>3. \A r \in shown : r.token # new.token /\ r.run # new.run
    BY <1>3, <1>5, <1>11
  <2>4. \A r, o \in shown' : r.token = o.token \/ r.run = o.run => r = o
    BY <1>4, <2>2, <2>3, Zenon
  <2>5. IsAsked(new)'
    BY <1>2, <1>3, <1>4, <1>5, Zenon DEF IsAsked
  <2>6. policy'.current = {exec'.run}
    BY <1>0, <1>2, <1>8, Zenon DEF PolicyInv
  <2> QED
    BY <1>2, <1>4, <2>1, <2>4, <2>5, <2>6, Zenon DEF ShownInv
<1>13. CallsInv'
  BY <1>0, <1>2, <1>5, Zenon DEF CallsInv, Calls, Consented
<1> QED
  BY <1>6, <1>7, <1>9, <1>12, <1>13, Zenon DEF BInv

(* The latest token is the one on the screen, so the answer is compared with that review. *)
LEMMA AskedIs ==
    ASSUME ShownInv, NEW r \in shown, IsAsked(r), issued.tokens \in Nat
    PROVE  Asked = r
<1>1. \A o \in shown : o.token \in 1..issued.tokens /\ (o.token = r.token => o = r)
  BY Zenon DEF ShownInv
<1>2. r.token = issued.tokens
  BY Zenon DEF IsAsked
<1>3. \A other \in shown : other.token <= r.token
  BY <1>1, <1>2
<1>4. Asked \in shown /\ \A other \in shown : other.token <= Asked.token
  BY <1>3 DEF Asked
<1> QED
  BY <1>1, <1>2, <1>4

(* A confirmation goes on record only with the consent of the client. *)
LEMMA ReadConfirmationKeeps ==
    ASSUME BInv, ReadConfirmation
    PROVE  BInv'
<1>0. AppInv /\ ExecInv /\ PolicyInv /\ ShownInv /\ CallsInv
  BY DEF BInv
<1>1. /\ pc = "confirm" /\ pc' = "authorize" /\ app' = app /\ exec' = exec
      /\ UNCHANGED <<issued, shown, dispatched, released>>
  BY DEF ReadConfirmation, Goto
<1>2. PICK r \in shown : IsAsked(r)
  BY <1>0, <1>1, Zenon DEF ShownInv
<1>3. Asked = r /\ r.run = exec.run /\ r.context = exec.run
  <2>1. issued.tokens \in Nat
    BY <1>0, Zenon DEF AppInv
  <2> QED
    BY <1>0, <1>2, <2>1, AskedIs, Zenon DEF IsAsked
<1>4. \/ policy' = [policy EXCEPT !.confirmed = {r}] /\ consents' = consents \union {r}
      \/ policy' = [policy EXCEPT !.refused = TRUE] /\ consents \subseteq consents'
  <2>1. PICK answer \in Answers :
          /\ policy' = IF Confirms(answer, r) THEN [policy EXCEPT !.confirmed = {r}]
                       ELSE [policy EXCEPT !.refused = TRUE]
          /\ consents' = IF answer = [action |-> "write", command |-> "apply", run |-> r.run,
                                      plan |-> r.plan, digest |-> r.digest, token |-> r.token]
                         THEN consents \union {r} ELSE consents
    BY <1>3 DEF ReadConfirmation
  <2>2. Confirms(answer, r) => answer = [action |-> "write", command |-> "apply", run |-> r.run,
                                         plan |-> r.plan, digest |-> r.digest, token |-> r.token]
    <3>1. PICK a, c, run, plan, digest, t :
            answer = [action |-> a, command |-> c, run |-> run, plan |-> plan, digest |-> digest, token |-> t]
      BY <2>1 DEF Answers
    <3> QED
      BY <3>1, Zenon DEF Confirms, SameRequest
  <2> QED
    BY <2>1, <2>2, Zenon
<1>5. /\ DOMAIN policy' = {"context", "confirmed", "refused", "current"} /\ policy'.refused \in BOOLEAN
      /\ policy'.current = policy.current /\ policy'.context = policy.context
      /\ policy'.confirmed \subseteq policy.confirmed \union {r}
      /\ r \in policy'.confirmed \/ policy'.confirmed = policy.confirmed
      /\ policy'.refused \/ policy'.confirmed # {}
      /\ \A c \in policy'.confirmed : c \in consents'
  BY <1>0, <1>4, Zenon DEF PolicyInv
<1>6. AppInv'
  BY <1>0, <1>1, AppStays, Zenon
<1>7. ExecInv'
  BY <1>0, <1>1, Zenon DEF ExecInv, Places
<1>8. PolicyInv'
  BY <1>0, <1>1, <1>3, <1>5, Zenon DEF PolicyInv
<1>9. ShownInv'
  <2>1. policy'.current = {exec.run}
    BY <1>0, <1>1, <1>5, Zenon DEF PolicyInv
  <2> QED
    BY <1>0, <1>1, <1>5, <2>1, Zenon DEF ShownInv
<1>10. CallsInv'
  <2>1. \A r_1 : Calls(r_1)' = Calls(r_1)
    BY <1>1, Zenon DEF Calls
  <2>2. consents \subseteq consents'
    BY <1>4
  <2>3. \A d \in dispatched : Consented(d) => Consented(d)'
    BY <2>2, Zenon DEF Consented
  <2> QED
    BY <1>0, <1>1, <2>1, <2>3, Zenon DEF CallsInv
<1> QED
  BY <1>6, <1>7, <1>8, <1>9, <1>10, Zenon DEF BInv

(* The call of an action is the next one of its run. *)
LEMMA DispatchKeeps ==
    ASSUME BInv, Dispatch
    PROVE  BInv'
<1>a. AppInv /\ ExecInv /\ PolicyInv /\ ShownInv /\ CallsInv
  BY DEF BInv
<1>0. pc = "dispatch" /\ UNCHANGED <<issued, policy, shown, consents, released>>
  BY DEF Dispatch
<1>1. CASE Finish(FALSE) /\ dispatched' = dispatched
  BY <1>0, <1>1, FinishKeeps, Zenon
<1>2. CASE dispatched' = dispatched \union {exec} /\ Goto("verify")
  <2>1. pc' = "verify" /\ app' = app /\ exec' = exec
    BY <1>2 DEF Goto
  <2>2. AppInv'
    BY <1>0, <1>a, <2>1, AppStays, Zenon
  <2>3. ExecInv'
    BY <1>0, <1>a, <2>1, Zenon DEF ExecInv, Places
  <2>4. PolicyInv'
    BY <1>0, <1>a, <2>1, Zenon DEF PolicyInv
  <2>5. ShownInv'
    BY <1>0, <1>a, <2>1, Zenon DEF ShownInv
  <2>6. CallsInv'
    <3>1. /\ exec.at \in 1..exec.document.actions /\ exec.document.actions \in Nat
          /\ Calls(exec.run) = 1..(exec.at - 1) /\ Consented(exec) /\ exec.run \notin DOMAIN app.runs
      BY <1>0, <1>a, FacadeAssumption, Zenon DEF ExecInv, CallsInv, Places
    <3>2. exec.run \in 1..issued.runs
      <4>1. issued.runs \in Nat
        BY <1>a DEF AppInv, Kinds
      <4> QED
        BY <1>0, <1>a, <4>1 DEF ExecInv
    <3>3. Calls(exec.run)' = Calls(exec.run) \union {exec.at}
      BY <1>2, <2>1, Zenon DEF Calls
    <3>4. Calls(exec.run)' = 1..exec.at
      BY <3>1, <3>3
    <3>5. \A x : x # exec.run => Calls(x)' = Calls(x)
      BY <1>2 DEF Calls
    <3>6. \A d : Consented(d)' <=> Consented(d)
      BY <1>0, Zenon DEF Consented
    <3>7. \A d \in dispatched' : /\ d.run \in 1..issued'.runs /\ Consented(d)'
                                 /\ d.run \in DOMAIN app'.runs \union released' \union {exec'.run}
      BY <1>0, <1>2, <1>a, <2>1, <3>1, <3>2, <3>6, Zenon DEF CallsInv
    <3>8. \A x \in DOMAIN app'.runs : app'.runs[x].verified =>
            ~app'.runs[x].document.protected /\ Calls(x)' = 1..app'.runs[x].document.actions
      BY <1>a, <2>1, <3>1, <3>5, Zenon DEF CallsInv
    <3> QED
      BY <2>1, <3>4, <3>7, <3>8, Zenon DEF CallsInv
  <2> QED
    BY <2>2, <2>3, <2>4, <2>5, <2>6, Zenon DEF BInv
<1> QED
  BY <1>1, <1>2, Zenon DEF Dispatch

(* The process ends: its run has been released, and no record is left to be wrong. *)
LEMMA RestartKeeps ==
    ASSUME BInv, Restart
    PROVE  BInv'
<1>0. AppInv /\ ExecInv /\ PolicyInv /\ ShownInv /\ CallsInv
  BY DEF BInv
<1>1. /\ app' = NoApp /\ pc' = "ready" /\ exec' = NoRun /\ policy' = NewPolicy
      /\ released' = released \union DOMAIN app.runs \union ({exec.run} \ {0})
      /\ UNCHANGED <<issued, shown, consents, dispatched>>
  BY Zenon DEF Restart
<1>2. /\ issued \in [Kinds \union {"tokens"} -> Nat] /\ issued.runs \in Nat
  BY <1>0, Zenon DEF AppInv, Kinds
<1>3. AppInv'
  BY <1>1, <1>2, NothingRetained, Zenon DEF AppInv
<1>4. ExecInv'
  BY <1>1, Zenon DEF ExecInv, Places
<1>5. PolicyInv'
  BY <1>1, Zenon DEF PolicyInv, NewPolicy
<1>6. exec'.run = 0 /\ DOMAIN app'.runs = {}
  BY <1>1, Zenon DEF NoRun, NoApp, NoObjects
<1>7. ShownInv'
  BY <1>0, <1>1, <1>2, <1>6 DEF ShownInv
<1>8. CallsInv'
  <2>1. \A d \in dispatched : d.run \in released'
    BY <1>0, <1>1, <1>2 DEF CallsInv
  <2>2. \A d \in dispatched : Consented(d)' <=> Consented(d)
    BY <1>1, Zenon DEF Consented
  <2> QED
    BY <1>0, <1>1, <1>6, <2>1, <2>2, Zenon DEF CallsInv
<1> QED
  BY <1>3, <1>4, <1>5, <1>7, <1>8, Zenon DEF BInv

(* Steps that concern no state of the invariant: another process and its marker. *)
LEMMA StutterKeeps ==
    ASSUME BInv, UNCHANGED <<app, issued, execVars>>
    PROVE  BInv'
<1>0. AppInv /\ ExecInv /\ PolicyInv /\ ShownInv /\ CallsInv
  BY DEF BInv
<1>1. UNCHANGED <<app, issued, pc, exec, policy, shown, consents, dispatched, released>>
  BY Zenon DEF execVars
<1>2. AppInv' /\ ExecInv'
  BY <1>0, <1>1, Zenon DEF AppInv, ExecInv
<1>3. PolicyInv' /\ ShownInv'
  BY <1>0, <1>1, Zenon DEF PolicyInv, ShownInv, IsAsked
<1>4. CallsInv'
  BY <1>0, <1>1, Zenon DEF CallsInv, Calls, Consented
<1> QED
  BY <1>2, <1>3, <1>4, Zenon DEF BInv

(* BInv holds initially, and every action of Next keeps it. *)
LEMMA BackendInvariance == Spec => []BInv
<1>1. Init => BInv
  <2> SUFFICES ASSUME Init PROVE BInv
    OBVIOUS
  <2>1. /\ app = NoApp /\ pc = "ready" /\ exec = NoRun /\ policy = NewPolicy
        /\ shown = {} /\ consents = {} /\ dispatched = {} /\ released = {}
    BY DEF Init, FacadeInit
  <2>2. issued \in [Kinds \union {"tokens"} -> Nat]
    BY FacadeAssumption, Zenon DEF Init, FacadeInit
  <2>3. DOMAIN app.runs = {}
    BY <2>1, Zenon DEF NoApp, NoObjects
  <2>4. AppInv
    BY <2>1, <2>2, NothingRetained, Zenon DEF AppInv
  <2>5. ExecInv /\ PolicyInv
    BY <2>1, Zenon DEF ExecInv, Places, PolicyInv, NewPolicy
  <2>6. ShownInv /\ CallsInv
    BY <2>1, <2>3, Zenon DEF ShownInv, CallsInv
  <2> QED
    BY <2>4, <2>5, <2>6, Zenon DEF BInv
<1>2. BInv /\ [Next]_vars => BInv'
  <2>1. ASSUME BInv, Next PROVE BInv'
    <3>1. CASE Outside
      BY <2>1, <3>1, StutterKeeps, Zenon DEF Outside
    <3> QED
      BY <2>1, <3>1, ServeKeeps, ApplyKeeps, CheckPlanKeeps, CheckAdmissionKeeps, AuthorizeAgainKeeps,
         ShowReviewKeeps, ReadConfirmationKeeps, DispatchKeeps, VerifyKeeps, VerifyGoalKeeps, RestartKeeps,
         Zenon DEF Next
  <2>2. ASSUME BInv, UNCHANGED vars PROVE BInv'
    BY <2>2, StutterKeeps, Zenon DEF vars, execVars
  <2> QED
    BY <2>1, <2>2, Zenon
<1> QED
  BY <1>1, <1>2, PTL DEF Spec

(***************************************************************************)
(* ConsentIsExact: whatever the client sends and however runs end, restart *)
(* and follow each other, a native call has the client's answer to the     *)
(* review of its own run and document (RootPolicy, confirmation.rs), and   *)
(* no run is asked about twice.                                            *)
(***************************************************************************)
THEOREM ConsentHolds == Spec => []ConsentIsExact
<1>1. BInv => ConsentIsExact
  BY Zenon DEF BInv, CallsInv, ShownInv, Consented, ConsentIsExact
<1> QED
  BY <1>1, BackendInvariance, PTL

(***************************************************************************)
(* StartedIsKept: for any number of retained objects, a run that made a    *)
(* native call has its record (apply_document_with_updates), and a record  *)
(* says verified only of a run all of whose actions were called.           *)
(***************************************************************************)
THEOREM RecordsHold == Spec => []StartedIsKept
<1>1. BInv => StartedIsKept
  BY Zenon DEF BInv, AppInv, CallsInv, Calls, StartedIsKept
<1> QED
  BY <1>1, BackendInvariance, PTL

(***************************************************************************)
(* RebaseIsOwned: no step of the backend changes the baseline of a session *)
(* but the acceptance of a candidate prepared for it (SessionAcceptRebase  *)
(* of wire.rs).                                                            *)
(***************************************************************************)
THEOREM RebasesAreOwned == Spec => RebaseIsOwned
<1>1. BInv /\ [Next]_vars => [Owned]_vars
  <2> SUFFICES ASSUME BInv, Next PROVE Owned \/ UNCHANGED vars
    BY DEF vars
  <2>1. CASE Request
    BY <2>1, RequestServes DEF BInv
  <2>2. CASE app'.sessions = app.sessions
    BY <2>2, Zenon DEF Owned
  <2>3. CASE app' = NoApp
    BY <2>3, Zenon DEF NoApp, NoObjects, Owned
  <2>4. ASSUME NEW verified, Finish(verified) PROVE app'.sessions = app.sessions
    BY <2>4, Zenon DEF BInv, AppInv, Finish, Keep, Kinds
  <2>5. app'.sessions = app.sessions \/ Request \/ app' = NoApp
    BY <2>4, Zenon DEF Next, Serve, ApplyBlocking, CheckPlan, CheckAdmission, AuthorizeAgain, ShowReview,
       ReadConfirmation, Dispatch, Verify, VerifyGoal, Restart, Outside, Goto, Proceed
  <2> QED
    BY <2>1, <2>2, <2>3, <2>5, Zenon
<1>2. [][Owned]_vars => RebaseIsOwned
  BY PTL DEF Owned, RebaseIsOwned
<1> QED
  BY <1>1, <1>2, BackendInvariance, PTL DEF Spec
=============================================================================

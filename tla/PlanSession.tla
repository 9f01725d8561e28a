----------------------------- MODULE PlanSession -----------------------------
(***************************************************************************)
(* Editing sessions of storage-engine (editing/session.rs, draft.rs,       *)
(* request.rs, rebase.rs and validate_draft of build.rs): a draft of user  *)
(* requests over an observed baseline, its preview, a bounded undo and     *)
(* redo history, saved documents, and reviewed rebases onto a new baseline.*)
(*                                                                         *)
(* A request is its kind and the node it refers to.  A preview is the      *)
(* result of build_preview, a function of the baseline and the draft, of   *)
(* which only the verdict of validate_draft is told apart.  Commands with  *)
(* a stale revision, and builds that fail internally, change nothing.      *)
(* The n-th operation and its planned output are both named n.             *)
(***************************************************************************)
EXTENDS Naturals, Sequences, FiniteSetsExt, Functions

CONSTANTS
    Sessions,       \* session objects, each opened at most once
    Baselines,      \* observed baselines
    Graph,          \* Graph[b]: nodes of baseline b
    Correlated,     \* <<b, n, c, m>>: node n of b is correlated with m of c
    U64Max,         \* u64::MAX, the last revision
    MaxOperations,  \* MAX_DRAFT_OPERATIONS
    DefaultLimit,   \* DEFAULT_HISTORY_LIMIT
    Scopes          \* bounds of a behaviour: the sessions and baselines that occur, the history
                    \* limits set, the operations ever added, the sum of all revisions

ASSUME SessionAssumption ==
    /\ U64Max \in Nat /\ MaxOperations \in Nat /\ DefaultLimit \in Nat
    /\ Scopes \subseteq [sessions : SUBSET Sessions, baselines : SUBSET Baselines,
                         limits : SUBSET Nat, allocated : Nat, revisions : Nat]
    /\ \A b \in Baselines : Graph[b] \subseteq Nat \ {0}

NoNode == 0
MaxAllocated == Max({scope.allocated : scope \in Scopes})
Outputs == 1..MaxAllocated
Nodes == Outputs \union UNION {Graph[b] : b \in Baselines}

(* Creating requests reserve an output; Unmount refers to a path, not to a node. *)
Requests ==
    [kind : {"Create", "Use"}, node : Nodes] \union {[kind |-> "Unmount", node |-> NoNode]}

VARIABLES
    scope,      \* the bounds of this behaviour
    sess,       \* sess[s]: the PlanSession of s, or Closed
    saved,      \* the last saved DraftDocument, or Nothing
    review,     \* the last prepared RebasePreview, or Nothing
    allocated,  \* operation identities allocated so far
    line, pos   \* line[s][pos[s]]: every draft since the last rebase or branch, and the current one

vars == <<scope, sess, saved, review, allocated, line, pos>>

Closed == [open |-> FALSE]
Nothing == [open |-> FALSE]
Open(s) == sess[s] # Closed

(* DraftRevision::next, within the bounds. *)
CanAdvance(s) ==
    /\ sess[s].revision < U64Max
    /\ FoldFunction(+, 0, [t \in Sessions |-> IF Open(t) THEN sess[t].revision ELSE 0])
         < scope.revisions

-----------------------------------------------------------------------------
Empty == [operations |-> << >>, protected |-> {}]

Created(draft) == {o.output : o \in Range(draft.operations)} \ {NoNode}

OperationIds(draft) == {o.id : o \in Range(draft.operations)}

(* PlanOperation::new *)
NewOperation(id, request) ==
    [id |-> id, request |-> request,
     output |-> IF request.kind = "Create" THEN id ELSE NoNode]

(* validate_draft: identities are unique, outputs are fresh, and every input resolves. *)
ValidDraft(b, draft) ==
    LET operations == draft.operations
    IN  /\ \A i, j \in DOMAIN operations : i # j =>
             /\ operations[i].id # operations[j].id
             /\ operations[i].output # NoNode => operations[i].output # operations[j].output
        /\ Created(draft) \intersect Graph[b] = {}
        /\ \A o \in Range(operations) :
             /\ (o.request.kind = "Create") = (o.output # NoNode)
             /\ o.request.node \in Graph[b] \union Created(draft) \union {NoNode}

(* build_preview *)
Build(b, draft) ==
    [baseline |-> b, draft |-> draft,
     state |-> IF ValidDraft(b, draft) THEN "Calculated" ELSE "Invalid"]

(* The operations that refer to an output of one of ids. *)
Dependents(draft, ids) ==
    LET outputs == {o.output : o \in {x \in Range(draft.operations) : x.id \in ids}} \ {NoNode}
    IN  {o.id : o \in {x \in Range(draft.operations) : x.request.node \in outputs}}

ImpactOfSelection(draft, selected) == selected

(* removal_impact: the selected operations and, transitively, their dependents. *)
Impact(draft, selected) ==
    {id \in OperationIds(draft) :
        \A affected \in SUBSET OperationIds(draft) :
            selected \union Dependents(draft, affected) \subseteq affected => id \in affected}

(* Vec::last, Vec::pop, Vec::remove and Vec::insert. *)
Last(items) == items[Len(items)]
Front(items) == SubSeq(items, 1, Len(items) - 1)
RemoveAt(items, i) == SubSeq(items, 1, i - 1) \o SubSeq(items, i + 1, Len(items))
InsertAt(items, i, item) == SubSeq(items, 1, i - 1) \o <<item>> \o SubSeq(items, i, Len(items))

PushDroppingNewest(history, draft, limit) ==
    IF Len(history) >= limit THEN history ELSE Append(history, draft)

(* push_history *)
Push(history, draft, limit) ==
    IF limit = 0 THEN history
    ELSE Append(IF Len(history) >= limit THEN Tail(history) ELSE history, draft)

(* The newest entries that set_history_limit keeps. *)
Newest(history, limit) ==
    IF Len(history) > limit THEN SubSeq(history, Len(history) - limit + 1, Len(history))
    ELSE history

Document(s) ==
    [id |-> sess[s].id, revision |-> sess[s].revision, baseline |-> sess[s].baseline,
     draft |-> sess[s].draft]

(* A session without history, from PlanSession::new or from_document. *)
SessionOf(document) ==
    [id |-> document.id, revision |-> document.revision, baseline |-> document.baseline,
     draft |-> document.draft, preview |-> Build(document.baseline, document.draft),
     limit |-> DefaultLimit, undo |-> << >>, redo |-> << >>]

-----------------------------------------------------------------------------
Init ==
    /\ scope \in Scopes
    /\ sess = [s \in Sessions |-> Closed]
    /\ saved = Nothing
    /\ review = Nothing
    /\ allocated = 0
    /\ line = [s \in Sessions |-> << >>]
    /\ pos = [s \in Sessions |-> 0]

OpenSession(s, document) ==
    /\ s \in scope.sessions
    /\ ~Open(s)
    /\ sess' = [sess EXCEPT ![s] = SessionOf(document)]
    /\ line' = [line EXCEPT ![s] = <<document.draft>>]
    /\ pos' = [pos EXCEPT ![s] = 1]
    /\ UNCHANGED <<scope, saved, review, allocated>>

(* Identities are random: what is observed now is no output that is yet to be allocated. *)
Observable(b) == Graph[b] \intersect 1..scope.allocated \subseteq 1..allocated

(* PlanSession::new; every further session is opened from a document. *)
New(s) ==
    /\ \A t \in Sessions : ~Open(t)
    /\ \E b \in scope.baselines :
        /\ Observable(b)
        /\ OpenSession(s, [id |-> s, revision |-> 0, baseline |-> b, draft |-> Empty])

(* PlanSession::draft_document, while there is a session left that could open the document. *)
Save(s) ==
    /\ Open(s)
    /\ \E t \in scope.sessions : ~Open(t)
    /\ saved' = Document(s)
    /\ UNCHANGED <<scope, sess, review, allocated, line, pos>>

(* DraftDocument::validate, for a document of the current schema. *)
ValidDocument(document) ==
    /\ Len(document.draft.operations) <= MaxOperations
    /\ ValidDraft(document.baseline, document.draft)

(* PlanSession::from_document *)
Load(s) ==
    /\ saved # Nothing
    /\ ValidDocument(saved)
    /\ OpenSession(s, saved)

(* set_history_limit *)
SetHistoryLimit(s) ==
    /\ Open(s)
    /\ \E limit \in scope.limits :
         sess' = [sess EXCEPT ![s] =
           [sess[s] EXCEPT !.limit = limit,
                           !.undo = Newest(@, limit),
                           !.redo = Newest(@, limit)]]
    /\ UNCHANGED <<scope, saved, review, allocated, line, pos>>

(* The next revision of a session: a draft, its preview and the histories change together. *)
Publish(session, draft, undo, redo) ==
    [session EXCEPT !.revision = @ + 1,
                    !.draft = draft,
                    !.preview = Build(session.baseline, draft),
                    !.undo = undo,
                    !.redo = redo]

(* The end of edit: the candidate is published, the previous draft can be undone. *)
Commit(s, draft) ==
    /\ CanAdvance(s)
    /\ sess' = [sess EXCEPT ![s] =
         Publish(sess[s], draft, Push(sess[s].undo, sess[s].draft, sess[s].limit), << >>)]
    /\ line' = [line EXCEPT ![s] = Append(SubSeq(@, 1, pos[s]), draft)]
    /\ pos' = [pos EXCEPT ![s] = @ + 1]
    /\ UNCHANGED <<scope, saved, review>>

WithOperations(draft, operations) == [draft EXCEPT !.operations = operations]

(* Node identities that exist after n operations were allocated. *)
Known(n) ==
    {NoNode} \union 1..n \union ((UNION {Graph[b] : b \in scope.baselines}) \ 1..scope.allocated)

(* PlanEdit::Add; the request may refer to any node identity, even of a removed operation. *)
Add(s) ==
    /\ Open(s)
    /\ Len(sess[s].draft.operations) < MaxOperations
    /\ allocated < scope.allocated
    /\ allocated' = allocated + 1
    /\ \E request \in Requests :
         /\ request.node \in Known(allocated + 1)
         /\ Commit(s, WithOperations(sess[s].draft,
                         Append(sess[s].draft.operations, NewOperation(allocated + 1, request))))

ReplaceOfAnyKind(s) ==
    /\ Open(s)
    /\ \E i \in DOMAIN sess[s].draft.operations, request \in Requests :
         /\ request.node \in Known(allocated)
         /\ Commit(s, WithOperations(sess[s].draft,
                         [sess[s].draft.operations EXCEPT ![i].request = request]))
    /\ UNCHANGED <<scope, allocated>>

(* PlanEdit::Replace and the set_* shorthands: the kind and both identities are kept. *)
Replace(s) ==
    /\ Open(s)
    /\ \E i \in DOMAIN sess[s].draft.operations, request \in Requests :
         /\ request.node \in Known(allocated)
         /\ request.kind = sess[s].draft.operations[i].request.kind
         /\ Commit(s, WithOperations(sess[s].draft,
                         [sess[s].draft.operations EXCEPT ![i].request = request]))
    /\ UNCHANGED <<scope, allocated>>

(* The places in kept, in their order. *)
Ascending(kept) ==
    {f \in UNION {[1..n -> kept] : n \in 0..MaxOperations} :
        Range(f) = kept /\ \A i, j \in DOMAIN f : i < j => f[i] < f[j]}

(* PlanEdit::Remove: refused unless every dependent is selected as well. *)
RemoveOperations(s) ==
    /\ Open(s)
    /\ LET operations == sess[s].draft.operations
       IN  \E selected \in SUBSET OperationIds(sess[s].draft) :
             /\ Impact(sess[s].draft, selected) \subseteq selected
             /\ \E f \in Ascending({i \in DOMAIN operations : operations[i].id \notin selected}) :
                  Commit(s, WithOperations(sess[s].draft, [i \in DOMAIN f |-> operations[f[i]]]))
    /\ UNCHANGED <<scope, allocated>>

(* PlanEdit::MoveBefore: in front of another operation, itself, or at the end. *)
MoveBefore(s) ==
    /\ Open(s)
    /\ LET operations == sess[s].draft.operations
       IN  \E i \in DOMAIN operations, target \in DOMAIN operations :
             Commit(s, WithOperations(sess[s].draft,
                         InsertAt(RemoveAt(operations, i), target, operations[i])))
    /\ UNCHANGED <<scope, allocated>>

(* PlanEdit::SetProtection *)
SetProtection(s) ==
    /\ Open(s)
    /\ \E protected \in SUBSET (Graph[sess[s].baseline] \union Created(sess[s].draft)) :
         Commit(s, [sess[s].draft EXCEPT !.protected = protected])
    /\ UNCHANGED <<scope, allocated>>

(* PlanEdit::Clear *)
Clear(s) ==
    /\ Open(s)
    /\ Commit(s, WithOperations(sess[s].draft, << >>))
    /\ UNCHANGED <<scope, allocated>>

UndoRevision(s) ==
    /\ Open(s)
    /\ sess[s].undo # << >>
    /\ sess' = [sess EXCEPT ![s] =
         [Publish(sess[s], Last(sess[s].undo), Front(sess[s].undo),
                  Push(sess[s].redo, sess[s].draft, sess[s].limit)) EXCEPT !.revision = @ - 2]]
    /\ pos' = [pos EXCEPT ![s] = @ - 1]
    /\ UNCHANGED <<scope, saved, review, allocated, line>>

(* undo *)
Undo(s) ==
    /\ Open(s)
    /\ CanAdvance(s)
    /\ sess[s].undo # << >>
    /\ sess' = [sess EXCEPT ![s] =
         Publish(sess[s], Last(sess[s].undo), Front(sess[s].undo),
                 Push(sess[s].redo, sess[s].draft, sess[s].limit))]
    /\ pos' = [pos EXCEPT ![s] = @ - 1]
    /\ UNCHANGED <<scope, saved, review, allocated, line>>

(* redo *)
Redo(s) ==
    /\ Open(s)
    /\ CanAdvance(s)
    /\ sess[s].redo # << >>
    /\ sess' = [sess EXCEPT ![s] =
         Publish(sess[s], Last(sess[s].redo), Push(sess[s].undo, sess[s].draft, sess[s].limit),
                 Front(sess[s].redo))]
    /\ pos' = [pos EXCEPT ![s] = @ + 1]
    /\ UNCHANGED <<scope, saved, review, allocated, line>>

-----------------------------------------------------------------------------
(* Existing nodes that requests and the protected scope refer to. *)
Inputs(draft) ==
    ({o.request.node : o \in Range(draft.operations)} \union draft.protected)
        \ (Created(draft) \union {NoNode})

(* remap_draft: correlated inputs are renamed, outputs and identities are not. *)
Remap(b, draft, c) ==
    LET at(n) == IF n \in Inputs(draft)
                 THEN CHOOSE m \in Graph[c] : <<b, n, c, m>> \in Correlated ELSE n
    IN  [operations |-> [i \in DOMAIN draft.operations |->
                           [draft.operations[i] EXCEPT !.request.node = at(@)]],
         protected |-> {at(n) : n \in draft.protected}]

(* The refusals of remap_draft before it translates. *)
CanRemap(b, draft, c) ==
    /\ b # c
    /\ ValidDraft(b, draft)
    /\ Created(draft) \intersect Graph[c] = {}
    /\ \A o \in Range(draft.operations) : o.request.kind # "Unmount"
    /\ \A n \in Inputs(draft) : n \in Graph[b] /\ \E m \in Graph[c] : <<b, n, c, m>> \in Correlated

(* prepare_rebase: a review that changes nothing in the session. *)
PrepareRebase(s) ==
    /\ Open(s)
    /\ \E c \in scope.baselines :
         LET b == sess[s].baseline
             draft == Remap(b, sess[s].draft, c)
         IN  /\ Observable(c)
             /\ CanRemap(b, sess[s].draft, c)
             /\ ValidDraft(c, draft)
             /\ review' = [source |-> Document(s), baseline |-> c, draft |-> draft,
                           preview |-> Build(c, draft)]
    /\ UNCHANGED <<scope, sess, saved, allocated, line, pos>>

AcceptSameRevision(s) ==
    /\ review.source.id = sess[s].id
    /\ review.source.revision = sess[s].revision

(* The checks of accept_rebase: the review was made of exactly this editing context. *)
AcceptMatches(s) == review.source = Document(s)

(* accept_rebase: baseline, draft and preview change together and history restarts. *)
AcceptRebase(s) ==
    /\ Open(s)
    /\ review # Nothing
    /\ AcceptMatches(s)
    /\ CanAdvance(s)
    /\ sess' = [sess EXCEPT ![s] =
         [sess[s] EXCEPT !.revision = @ + 1,
                         !.baseline = review.baseline,
                         !.draft = review.draft,
                         !.preview = review.preview,
                         !.undo = << >>,
                         !.redo = << >>]]
    /\ line' = [line EXCEPT ![s] = <<review.draft>>]
    /\ pos' = [pos EXCEPT ![s] = 1]
    /\ UNCHANGED <<scope, saved, review, allocated>>

Next ==
    \E s \in Sessions :
        \/ New(s) \/ Save(s) \/ Load(s) \/ SetHistoryLimit(s)
        \/ Add(s) \/ Replace(s) \/ RemoveOperations(s) \/ MoveBefore(s) \/ SetProtection(s) \/ Clear(s)
        \/ Undo(s) \/ Redo(s) \/ PrepareRebase(s) \/ AcceptRebase(s)

Spec == Init /\ [][Next]_vars

-----------------------------------------------------------------------------
(***************************************************************************)
(* push_history, undo and redo: the two stacks are the drafts next to the  *)
(* current one on the line of drafts since the last rebase or branch, so   *)
(* that undo and redo walk along it and a full history loses the ends.     *)
(***************************************************************************)
HistoryIsTimeline ==
    \A s \in Sessions : Open(s) =>
        LET undo == sess[s].undo
            redo == sess[s].redo
        IN  /\ pos[s] \in DOMAIN line[s] /\ line[s][pos[s]] = sess[s].draft
            /\ Len(undo) < pos[s] /\ Len(redo) <= Len(line[s]) - pos[s]
            /\ \A i \in DOMAIN undo : undo[i] = line[s][pos[s] - Len(undo) + i - 1]
            /\ \A i \in DOMAIN redo : redo[i] = line[s][pos[s] + Len(redo) - i + 1]

(***************************************************************************)
(* PlanOperation: wherever an operation identity occurs, in any session,   *)
(* history, document or review, it has the same kind and the same output,  *)
(* and no output belongs to two operations.                                *)
(***************************************************************************)
Drafts ==
    (UNION {{sess[s].draft} \union Range(sess[s].undo) \union Range(sess[s].redo) :
              s \in {x \in Sessions : Open(x)}})
      \union {document.draft : document \in {saved, review} \ {Nothing}}

IdentitiesAreStable ==
    \A d, e \in Drafts : \A o \in Range(d.operations), p \in Range(e.operations) :
        /\ o.id = p.id => o.output = p.output /\ o.request.kind = p.request.kind
        /\ o.output = p.output /\ o.output # NoNode => o.id = p.id

(***************************************************************************)
(* check_revision: what a session shows under one revision never changes,  *)
(* so an edit, undo or redo at that revision applies to what was seen.     *)
(***************************************************************************)
RevisionNamesContent ==
    [][\A s \in Sessions : Open(s) =>
         (Document(s)' # Document(s) => sess'[s].revision > sess[s].revision)]_vars

(***************************************************************************)
(* remove_operations: no step, undo, redo and rebase included, takes an    *)
(* operation out of a draft and leaves one that refers to its output.      *)
(***************************************************************************)
RemovalStrandsNothing ==
    [][\A s \in Sessions : Open(s) =>
         \A o \in Range(sess'[s].draft.operations) :
             o.request.node \notin Created(sess[s].draft) \ Created(sess'[s].draft)]_vars

(***************************************************************************)
(* accept_rebase: when the baseline of a session changes, its draft is the *)
(* same operations in the same order, with the same outputs, and every     *)
(* input and protected node is the correlated one of the new baseline.     *)
(***************************************************************************)
RebaseTranslates ==
    [][\A s \in Sessions : (Open(s) /\ sess'[s].baseline # sess[s].baseline) =>
         LET old == sess[s].draft
             new == sess'[s].draft
             moved(n, m) ==
                 \/ n = m /\ n \in Created(old) \union {NoNode}
                 \/ <<sess[s].baseline, n, sess'[s].baseline, m>> \in Correlated
         IN  /\ Len(new.operations) = Len(old.operations)
             /\ \A i \in DOMAIN old.operations :
                  /\ new.operations[i].id = old.operations[i].id
                  /\ new.operations[i].output = old.operations[i].output
                  /\ moved(old.operations[i].request.node, new.operations[i].request.node)
             /\ \A n \in old.protected : \E m \in new.protected : moved(n, m)]_vars

=============================================================================

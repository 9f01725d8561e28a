-------------------------- MODULE PlanSessionProofs --------------------------
(***************************************************************************)
(* Editing sessions are right for any sessions, baselines and limits, and  *)
(* for any number of edits.  Each theorem rests on an inductive invariant: *)
(*   HistoryInv    the stacks are the neighbours of the current draft on   *)
(*                 its line, and within the limit;                         *)
(*   ReviewInv     a review translates the document it was made from;      *)
(*   OperationInv  wherever an operation is kept, its identity fixes what  *)
(*                 it is, and it refers to a node that exists;             *)
(*   NeighbourInv  of two neighbours on a line, neither lacks an output    *)
(*                 of the other that it refers to.                         *)
(***************************************************************************)
EXTENDS PlanSessionEdits

-----------------------------------------------------------------------------
LEMMA HistoryInit == Init => TypeInv /\ HistoryInv
<1>1. SUFFICES ASSUME Init PROVE TypeInv /\ HistoryInv
  OBVIOUS
<1> DEFINE none == << >>
<1>2. none \in Seq(Draft)
  BY EmptySeq
<1>3. line = [s \in Sessions |-> none]
  BY <1>1 DEF Init
<1> HIDE DEF none
<1> QED
  BY <1>1, <1>2, <1>3 DEF Init, TypeInv, HistoryInv, Open

LEMMA HistoryStep ==
    ASSUME TypeInv, HistoryInv, [Next]_vars
    PROVE  TypeInv' /\ HistoryInv'
<1>1. CASE UNCHANGED vars
  BY <1>1 DEF vars, TypeInv, HistoryInv, Open
<1>2. CASE Next
  <2>1. PICK s \in Sessions :
          \/ \E document : Opens(s, document)
          \/ \E draft : Edits(s, draft)
          \/ Save(s) \/ SetHistoryLimit(s) \/ Undo(s) \/ Redo(s)
          \/ PrepareRebase(s) \/ AcceptRebase(s)
    BY <1>2, StepCases
  <2>2. ASSUME NEW document, Opens(s, document) PROVE TypeInv' /\ HistoryInv'
    <3>1. PICK r, l : Moves(s, r, l, 1)
      BY <2>2, OpenMoves DEF Opens
    <3>2. allocated' \in Nat /\ saved' = saved /\ review' = review
      BY <2>2 DEF Opens, OpenSession, TypeInv
    <3> QED
      BY <3>1, <3>2, MoveStep
  <2>3. ASSUME NEW draft, Edits(s, draft) PROVE TypeInv' /\ HistoryInv'
    <3>1. PICK r, l : Moves(s, r, l, pos[s] + 1)
      BY <2>3, CommitMoves DEF Edits, EditOf
    <3>2. saved' = saved /\ review' = review
      BY <2>3 DEF Edits, EditOf, Commit
    <3>3. allocated' \in Nat
      BY <2>3 DEF Edits, EditOf, Reworks, Extends, TypeInv
    <3> QED
      BY <3>1, <3>2, <3>3, MoveStep
  <2>4. CASE Save(s)
    <3>1. Document(s) \in DraftDocument
      BY <2>4, DocumentType DEF Save
    <3> QED
      BY <2>4, <3>1 DEF Save, TypeInv, HistoryInv, Open
  <2>5. CASE SetHistoryLimit(s)
    <3>1. PICK r : Moves(s, r, line[s], pos[s])
      BY <2>5, LimitMoves
    <3>2. allocated' \in Nat /\ saved' = saved /\ review' = review
      BY <2>5 DEF SetHistoryLimit, TypeInv
    <3> QED
      BY <3>1, <3>2, MoveStep
  <2>6. CASE Undo(s)
    <3>1. PICK r : Moves(s, r, line[s], pos[s] - 1)
      BY <2>6, UndoMoves
    <3>2. allocated' \in Nat /\ saved' = saved /\ review' = review
      BY <2>6 DEF Undo, TypeInv
    <3> QED
      BY <3>1, <3>2, MoveStep
  <2>7. CASE Redo(s)
    <3>1. PICK r : Moves(s, r, line[s], pos[s] + 1)
      BY <2>7, RedoMoves
    <3>2. allocated' \in Nat /\ saved' = saved /\ review' = review
      BY <2>7 DEF Redo, TypeInv
    <3> QED
      BY <3>1, <3>2, MoveStep
  <2>8. CASE PrepareRebase(s)
    BY <2>8, ReviewShape, Zenon DEF TypeInv, HistoryInv, Open
  <2>9. CASE AcceptRebase(s)
    <3>1. PICK r, l : Moves(s, r, l, 1)
      BY <2>9, AcceptMoves
    <3>2. allocated' \in Nat /\ saved' = saved /\ review' = review
      BY <2>9 DEF AcceptRebase, TypeInv
    <3> QED
      BY <3>1, <3>2, MoveStep
  <2> QED
    BY <2>1, <2>2, <2>3, <2>4, <2>5, <2>6, <2>7, <2>8, <2>9
<1> QED
  BY <1>1, <1>2

THEOREM HistoryInvariance == Spec => [](TypeInv /\ HistoryInv)
<1>1. TypeInv /\ HistoryInv /\ [Next]_vars => (TypeInv /\ HistoryInv)'
  BY HistoryStep
<1> QED
  BY HistoryInit, <1>1, PTL DEF Spec

(***************************************************************************)
(* push_history, undo, redo and set_history_limit, for every limit and any *)
(* number of edits: the two stacks are the drafts next to the current one  *)
(* on the line of drafts since the last rebase or branch.                  *)
(***************************************************************************)
THEOREM HistoryAlwaysTimeline == Spec => []HistoryIsTimeline
<1>1. ASSUME TypeInv, HistoryInv PROVE HistoryIsTimeline
  <2>1. SUFFICES ASSUME NEW s \in Sessions, Open(s)
                 PROVE  LET undo == sess[s].undo
                            redo == sess[s].redo
                        IN  /\ pos[s] \in DOMAIN line[s] /\ line[s][pos[s]] = sess[s].draft
                            /\ Len(undo) < pos[s] /\ Len(redo) <= Len(line[s]) - pos[s]
                            /\ \A i \in DOMAIN undo : undo[i] = line[s][pos[s] - Len(undo) + i - 1]
                            /\ \A i \in DOMAIN redo : redo[i] = line[s][pos[s] + Len(redo) - i + 1]
    BY DEF HistoryIsTimeline
  <2>2. /\ DOMAIN line[s] = 1..Len(line[s]) /\ DOMAIN sess[s].undo = 1..Len(sess[s].undo)
        /\ DOMAIN sess[s].redo = 1..Len(sess[s].redo)
    <3>1. line[s] \in Seq(Draft) /\ sess[s].undo \in Seq(Draft) /\ sess[s].redo \in Seq(Draft)
      BY <1>1, <2>1, OpenIsSession, Zenon DEF TypeInv, Session
    <3> QED
      BY <3>1, LenProperties
  <2>3. Track(sess[s].draft, sess[s].undo, sess[s].redo, line[s], pos[s])
    BY <1>1, <2>1 DEF HistoryInv
  <2> QED
    BY <2>2, <2>3, Zenon DEF Track
<1> QED
  BY HistoryInvariance, <1>1, PTL

-----------------------------------------------------------------------------
(* What a step means to an open session t. *)
Stays(t) ==
    /\ sess'[t].id = sess[t].id /\ sess'[t].revision = sess[t].revision
    /\ sess'[t].baseline = sess[t].baseline /\ sess'[t].draft = sess[t].draft

Advanced(t) ==
    /\ sess'[t].revision = sess[t].revision + 1 /\ sess'[t].baseline = sess[t].baseline
    /\ \/ Edits(t, sess'[t].draft)
       \/ \E i \in {pos[t] - 1, pos[t] + 1} : i \in 1..Len(line[t]) /\ sess'[t].draft = line[t][i]

Rebased(t) ==
    /\ sess'[t].revision = sess[t].revision + 1
    /\ review \in RebasePreview /\ review.source = Document(t)
    /\ sess'[t].baseline = review.baseline /\ sess'[t].draft = review.draft

LEMMA SessionCases ==
    ASSUME TypeInv, HistoryInv, [Next]_vars, NEW t \in Sessions, Open(t)
    PROVE  sess'[t] \in Session /\ (Stays(t) \/ Advanced(t) \/ Rebased(t))
<1>0. sess[t] \in Session
  BY OpenIsSession
<1>1. ASSUME sess'[t] = sess[t] PROVE sess'[t] \in Session /\ Stays(t)
  BY <1>0, <1>1 DEF Stays
<1>2. CASE UNCHANGED vars
  BY <1>1, <1>2 DEF vars
<1>3. CASE Next
  <2>1. PICK s \in Sessions :
          \/ \E document : Opens(s, document)
          \/ \E draft : Edits(s, draft)
          \/ Save(s) \/ SetHistoryLimit(s) \/ Undo(s) \/ Redo(s)
          \/ PrepareRebase(s) \/ AcceptRebase(s)
    BY <1>3, StepCases
  <2>2. ASSUME NEW r, Becomes(s, r), s # t PROVE sess'[t] = sess[t]
    BY <2>2 DEF Becomes
  <2>3. ASSUME NEW document, Opens(s, document) PROVE sess'[t] \in Session /\ Stays(t)
    <3>1. s # t
      BY <2>3 DEF Opens, OpenSession
    <3>2. PICK r : Becomes(s, r)
      BY <2>3, OpenShape DEF Opens
    <3> QED
      BY <1>1, <2>2, <3>1, <3>2
  <2>4. ASSUME NEW draft, Edits(s, draft) PROVE sess'[t] \in Session /\ (Stays(t) \/ Advanced(t))
    <3>1. PICK r \in Session :
            /\ Becomes(s, r) /\ r.revision = sess[s].revision + 1
            /\ r.baseline = sess[s].baseline /\ r.draft = draft
      BY <2>4, CommitShape DEF Edits, EditOf, Advances
    <3>2. CASE s = t
      <4>1. sess'[t] = r
        BY <3>1, <3>2 DEF Becomes
      <4> QED
        BY <2>4, <3>1, <3>2, <4>1 DEF Advanced
    <3> QED
      BY <1>1, <2>2, <3>1, <3>2
  <2>5. CASE Save(s) \/ PrepareRebase(s)
    BY <1>1, <2>5, Zenon DEF Save, PrepareRebase
  <2>6. CASE SetHistoryLimit(s)
    <3>1. PICK r \in Session :
            /\ Becomes(s, r) /\ r.id = sess[s].id /\ r.revision = sess[s].revision
            /\ r.baseline = sess[s].baseline /\ r.draft = sess[s].draft
      BY <2>6, LimitShape
    <3>2. CASE s = t
      BY <3>1, <3>2 DEF Becomes, Stays
    <3> QED
      BY <1>1, <2>2, <3>1, <3>2
  <2>7. CASE Undo(s)
    <3>1. PICK r \in Session :
            /\ Becomes(s, r) /\ r.revision = sess[s].revision + 1 /\ r.baseline = sess[s].baseline
      BY <2>7, UndoShape DEF Advances
    <3>2. PICK q : Moves(s, q, line[s], pos[s] - 1)
      BY <2>7, UndoMoves
    <3>3. CASE s = t
      <4>1. sess'[t] = r /\ sess'[t] = q
        BY <3>1, <3>2, <3>3 DEF Moves, Becomes
      <4>2. pos[t] - 1 \in 1..Len(line[t]) /\ q.draft = line[t][pos[t] - 1]
        BY <3>2, <3>3 DEF Moves, Track
      <4> QED
        BY <3>1, <3>3, <4>1, <4>2, Zenon DEF Advanced
    <3> QED
      BY <1>1, <2>2, <3>1, <3>3
  <2>8. CASE Redo(s)
    <3>1. PICK r \in Session :
            /\ Becomes(s, r) /\ r.revision = sess[s].revision + 1 /\ r.baseline = sess[s].baseline
      BY <2>8, RedoShape DEF Advances
    <3>2. PICK q : Moves(s, q, line[s], pos[s] + 1)
      BY <2>8, RedoMoves
    <3>3. CASE s = t
      <4>1. sess'[t] = r /\ sess'[t] = q
        BY <3>1, <3>2, <3>3 DEF Moves, Becomes
      <4>2. pos[t] + 1 \in 1..Len(line[t]) /\ q.draft = line[t][pos[t] + 1]
        BY <3>2, <3>3 DEF Moves, Track
      <4> QED
        BY <3>1, <3>3, <4>1, <4>2, Zenon DEF Advanced
    <3> QED
      BY <1>1, <2>2, <3>1, <3>3
  <2>9. CASE AcceptRebase(s)
    <3>1. PICK r \in Session :
            /\ Becomes(s, r) /\ r.revision = sess[s].revision + 1
            /\ r.baseline = review.baseline /\ r.draft = review.draft
      BY <2>9, AcceptShape
    <3>2. CASE s = t
      <4>1. sess'[t] = r
        BY <3>1, <3>2 DEF Becomes
      <4> QED
        BY <2>9, <3>1, <3>2, <4>1, AcceptShape, Zenon DEF Rebased
    <3> QED
      BY <1>1, <2>2, <3>1, <3>2, Zenon
  <2> QED
    BY <2>1, <2>3, <2>4, <2>5, <2>6, <2>7, <2>8, <2>9, Zenon
<1> QED
  BY <1>2, <1>3

(***************************************************************************)
(* check_revision, for every number of sessions and documents: what a      *)
(* session shows under one revision never changes.                         *)
(***************************************************************************)
THEOREM RevisionAlwaysNamesContent == Spec => RevisionNamesContent
<1>1. ASSUME TypeInv, HistoryInv, [Next]_vars
      PROVE  \A s \in Sessions : Open(s) =>
               (Document(s)' # Document(s) => sess'[s].revision > sess[s].revision)
  <2>1. SUFFICES ASSUME NEW s \in Sessions, Open(s), Document(s)' # Document(s)
                 PROVE  sess'[s].revision > sess[s].revision
    OBVIOUS
  <2>2. sess'[s] \in Session /\ sess[s] \in Session /\ (Stays(s) \/ Advanced(s) \/ Rebased(s))
    BY <1>1, <2>1, SessionCases, OpenIsSession
  <2>3. ~Stays(s)
    BY <2>1 DEF Stays, Document
  <2>4. sess'[s].revision = sess[s].revision + 1 /\ sess[s].revision \in Nat
    BY <2>2, <2>3 DEF Advanced, Rebased, Session
  <2> QED
    BY <2>4
<1> QED
  BY HistoryInvariance, <1>1, PTL DEF Spec, RevisionNamesContent

(* The last review is the translation of the document it was made of. *)
ReviewInv ==
    review # Nothing =>
        /\ review.baseline \in scope.baselines /\ Observable(review.baseline)
        /\ CanRemap(review.source.baseline, review.source.draft, review.baseline)
        /\ review.draft = Remap(review.source.baseline, review.source.draft, review.baseline)

LEMMA AllocatedGrows ==
    ASSUME TypeInv, [Next]_vars
    PROVE  scope' = scope /\ allocated' \in Nat /\ allocated <= allocated'
<1>1. CASE UNCHANGED vars
  BY <1>1 DEF vars, TypeInv
<1>2. CASE Next
  <2>1. PICK s \in Sessions :
          \/ \E document : Opens(s, document)
          \/ \E draft : Edits(s, draft)
          \/ Save(s) \/ SetHistoryLimit(s) \/ Undo(s) \/ Redo(s)
          \/ PrepareRebase(s) \/ AcceptRebase(s)
    BY <1>2, StepCases
  <2>2. ASSUME NEW draft, Edits(s, draft)
        PROVE  scope' = scope /\ allocated' \in Nat /\ allocated <= allocated'
    <3>1. scope' = scope
      BY <2>2 DEF Edits, EditOf, Commit
    <3>2. allocated' = allocated \/ allocated' = allocated + 1
      BY <2>2 DEF Edits, EditOf, Reworks, Extends
    <3> QED
      BY <3>1, <3>2 DEF TypeInv
  <2>3. ASSUME ~\E draft : Edits(s, draft) PROVE scope' = scope /\ allocated' = allocated
    BY <2>1, <2>3, Zenon DEF Opens, OpenSession, Save, SetHistoryLimit, Undo, Redo, PrepareRebase, AcceptRebase
  <2> QED
    BY <2>2, <2>3 DEF TypeInv
<1> QED
  BY <1>1, <1>2

LEMMA ReviewStep ==
    ASSUME TypeInv, HistoryInv, ReviewInv, [Next]_vars
    PROVE  ReviewInv'
<1>1. scope' = scope /\ allocated' \in Nat /\ allocated <= allocated' /\ allocated \in Nat
  BY AllocatedGrows DEF TypeInv
<1>2. \A b : Observable(b) => Observable(b)'
  <2>1. 1..allocated \subseteq 1..allocated'
    BY <1>1
  <2> QED
    BY <1>1, <2>1 DEF Observable
<1>3. CASE review' = review
  BY <1>1, <1>2, <1>3 DEF ReviewInv
<1>4. ASSUME NEW s \in Sessions, PrepareRebase(s) PROVE ReviewInv'
  <2>1. PICK c \in scope.baselines :
          /\ Observable(c) /\ CanRemap(sess[s].baseline, sess[s].draft, c)
          /\ review'.source = Document(s) /\ review'.baseline = c
          /\ review'.draft = Remap(sess[s].baseline, sess[s].draft, c)
    BY <1>4, ReviewShape
  <2>2. Document(s).draft = sess[s].draft /\ Document(s).baseline = sess[s].baseline
    BY DEF Document
  <2> QED
    BY <1>1, <1>2, <2>1, <2>2, Zenon DEF ReviewInv
<1>5. CASE UNCHANGED vars
  BY <1>3, <1>5 DEF vars
<1>6. CASE Next
  <2>1. PICK s \in Sessions :
          \/ \E document : Opens(s, document)
          \/ \E draft : Edits(s, draft)
          \/ Save(s) \/ SetHistoryLimit(s) \/ Undo(s) \/ Redo(s)
          \/ PrepareRebase(s) \/ AcceptRebase(s)
    BY <1>6, StepCases
  <2>2. PrepareRebase(s) \/ review' = review
    BY <2>1, Zenon DEF Opens, OpenSession, Edits, EditOf, Commit, Save, SetHistoryLimit, Undo, Redo, AcceptRebase
  <2> QED
    BY <1>3, <1>4, <2>2
<1> QED
  BY <1>5, <1>6

THEOREM ReviewInvariance == Spec => [](TypeInv /\ HistoryInv /\ ReviewInv)
<1>1. Init => ReviewInv
  BY DEF Init, ReviewInv
<1>2. TypeInv /\ HistoryInv /\ ReviewInv /\ [Next]_vars => ReviewInv'
  BY ReviewStep
<1> QED
  BY HistoryInvariance, <1>1, <1>2, PTL DEF Spec

(* The draft that accept_rebase publishes is the translation of the one it replaces. *)
LEMMA RebasedDraft ==
    ASSUME TypeInv, ReviewInv, NEW s \in Sessions, Open(s), Rebased(s)
    PROVE  /\ sess[s].baseline \in Baselines /\ sess[s].draft \in Draft /\ review.baseline \in Baselines
           /\ CanRemap(sess[s].baseline, sess[s].draft, review.baseline)
           /\ sess'[s].draft = Remap(sess[s].baseline, sess[s].draft, review.baseline)
<1>1. review # Nothing /\ review.baseline \in Baselines /\ review.source = Document(s)
      /\ sess'[s].draft = review.draft
  BY Absent DEF Rebased, RebasePreview
<1>2. Document(s).draft = sess[s].draft /\ Document(s).baseline = sess[s].baseline
  BY DEF Document
<1>3. sess[s].baseline \in Baselines /\ sess[s].draft \in Draft
  BY OpenIsSession DEF Session
<1> QED
  BY <1>1, <1>2, <1>3 DEF ReviewInv

(***************************************************************************)
(* prepare_rebase and accept_rebase, for any baselines and correlations:   *)
(* when the baseline of a session changes, whatever was edited, loaded or  *)
(* reviewed in between, its draft is the same operations in the same order *)
(* with every input replaced by the correlated node.                       *)
(***************************************************************************)
THEOREM RebaseAlwaysTranslates == Spec => RebaseTranslates
<1>1. ASSUME TypeInv, HistoryInv, ReviewInv, [Next]_vars
      PROVE  \A s \in Sessions : (Open(s) /\ sess'[s].baseline # sess[s].baseline) =>
               LET old == sess[s].draft
                   new == sess'[s].draft
                   moved(n, m) ==
                       \/ n = m /\ n \in Created(old) \union {NoNode}
                       \/ <<sess[s].baseline, n, sess'[s].baseline, m>> \in Correlated
               IN  /\ Len(new.operations) = Len(old.operations)
                   /\ \A i \in DOMAIN old.operations :
                        /\ new.operations[i].id = old.operations[i].id
                        /\ new.operations[i].output = old.operations[i].output
                        /\ moved(old.operations[i].request.node, new.operations[i].request.node)
                   /\ \A n \in old.protected : \E m \in new.protected : moved(n, m)
  <2>1. SUFFICES ASSUME NEW s \in Sessions, Open(s), sess'[s].baseline # sess[s].baseline
                 PROVE  LET old == sess[s].draft
                            new == sess'[s].draft
                            moved(n, m) ==
                                \/ n = m /\ n \in Created(old) \union {NoNode}
                                \/ <<sess[s].baseline, n, sess'[s].baseline, m>> \in Correlated
                        IN  /\ Len(new.operations) = Len(old.operations)
                            /\ \A i \in DOMAIN old.operations :
                                 /\ new.operations[i].id = old.operations[i].id
                                 /\ new.operations[i].output = old.operations[i].output
                                 /\ moved(old.operations[i].request.node, new.operations[i].request.node)
                            /\ \A n \in old.protected : \E m \in new.protected : moved(n, m)
    BY Zenon
  <2>2. Rebased(s)
    BY <1>1, <2>1, SessionCases DEF Stays, Advanced
  <2> DEFINE b == sess[s].baseline
             c == sess'[s].baseline
             old == sess[s].draft
             new == sess'[s].draft
  <2>3. /\ b \in Baselines /\ c \in Baselines /\ old \in Draft
        /\ CanRemap(b, old, c) /\ new = Remap(b, old, c)
    BY <1>1, <2>1, <2>2, RebasedDraft DEF Rebased
  <2> HIDE DEF b, c, old, new
  <2>4. /\ Len(new.operations) = Len(old.operations)
        /\ \A i \in 1..Len(old.operations) :
             /\ Kin(new.operations[i], old.operations[i])
             /\ Translated(b, old, c, old.operations[i].request.node, new.operations[i].request.node)
        /\ \A n \in old.protected : \E m \in new.protected : Translated(b, old, c, n, m)
    BY <2>3, RemapShape
  <2>5. DOMAIN old.operations = 1..Len(old.operations)
    BY <2>3, DraftOperations
  <2>6. \A n, m : Translated(b, old, c, n, m) =>
            (n = m /\ n \in Created(old) \union {NoNode}) \/ <<b, n, c, m>> \in Correlated
    BY DEF Translated
  <2> QED
    BY <2>4, <2>5, <2>6, Zenon DEF Kin, b, c, old, new
<1> QED
  BY ReviewInvariance, <1>1, PTL DEF Spec, RebaseTranslates

-----------------------------------------------------------------------------
(* Every draft that a session can still reach, a document holds or a review proposes. *)
HeldDrafts ==
    (UNION {Range(line[s]) : s \in Sessions})
      \union {document.draft : document \in {saved, review} \ {Nothing}}

HeldOps == UNION {Range(d.operations) : d \in HeldDrafts}

(***************************************************************************)
(* Operations have allocated identities, which fix their kind and output,  *)
(* and refer to nodes that are known.                                      *)
(***************************************************************************)
OperationInv ==
    /\ \A o \in HeldOps :
         /\ o.id \in 1..allocated
         /\ o.output = IF o.request.kind = "Create" THEN o.id ELSE NoNode
         /\ o.request.node \in Known(allocated)
    /\ \A o, p \in HeldOps : o.id = p.id => o.request.kind = p.request.kind

(* An operation of the next state that is one of this state, perhaps edited or translated. *)
Descends(o) ==
    \E p \in HeldOps :
        Kin(o, p) /\ (o.request.node = p.request.node \/ o.request.node \in Known(allocated))

Fresh(o) ==
    /\ allocated' = allocated + 1 /\ allocated < scope.allocated
    /\ o.id = allocated + 1 /\ o.request.node \in Known(allocated + 1)
    /\ o.output = IF o.request.kind = "Create" THEN o.id ELSE NoNode

LEMMA HeldIsDraft ==
    ASSUME TypeInv, NEW d \in HeldDrafts
    PROVE  d \in Draft
<1>1. \A s \in Sessions : Range(line[s]) \subseteq Draft
  <2>1. \A s \in Sessions : line[s] \in Seq(Draft)
    BY DEF TypeInv
  <2> QED
    BY <2>1, Elements
<1>2. saved # Nothing => saved.draft \in Draft
  BY DEF TypeInv, DraftDocument
<1>3. review # Nothing => review.draft \in Draft
  BY DEF TypeInv, RebasePreview
<1>4. \/ \E s \in Sessions : d \in Range(line[s])
      \/ saved # Nothing /\ d = saved.draft
      \/ review # Nothing /\ d = review.draft
  BY DEF HeldDrafts
<1> QED
  BY <1>1, <1>2, <1>3, <1>4

LEMMA OnLine ==
    ASSUME TypeInv, NEW s \in Sessions, NEW i \in 1..Len(line[s])
    PROVE  line[s][i] \in HeldDrafts
<1>1. line[s][i] \in Range(line[s])
  BY Elements DEF TypeInv
<1> QED
  BY <1>1 DEF HeldDrafts

LEMMA CurrentIsHeld ==
    ASSUME TypeInv, HistoryInv, NEW s \in Sessions, Open(s)
    PROVE  sess[s].draft \in HeldDrafts
<1>1. pos[s] \in 1..Len(line[s]) /\ line[s][pos[s]] = sess[s].draft
  BY DEF HistoryInv, Track
<1> QED
  BY <1>1, OnLine

LEMMA OpsOf ==
    ASSUME NEW d \in HeldDrafts, NEW o \in Range(d.operations)
    PROVE  o \in HeldOps /\ Descends(o)
  BY DEF HeldOps, Descends, Kin

(* When a session moves, the drafts that are new are on its new line. *)
LEMMA MovedDrafts ==
    ASSUME TypeInv, NEW s \in Sessions, NEW r, NEW l, NEW p, Moves(s, r, l, p),
           saved' = saved, review' = review, NEW d \in HeldDrafts'
    PROVE  d \in HeldDrafts \/ d \in Range(l)
<1>1. CASE \E t \in Sessions : d \in Range(line'[t])
  <2>1. PICK t \in Sessions : d \in Range(line'[t])
    BY <1>1
  <2>2. CASE t = s
    BY <2>1, <2>2 DEF Moves, TypeInv
  <2>3. CASE t # s
    <3>1. line'[t] = line[t]
      BY <2>3 DEF Moves, TypeInv
    <3> QED
      BY <2>1, <3>1 DEF HeldDrafts
  <2> QED
    BY <2>2, <2>3
<1>2. CASE ~\E t \in Sessions : d \in Range(line'[t])
  BY <1>2 DEF HeldDrafts
<1> QED
  BY <1>1, <1>2

LEMMA SingleDraft ==
    ASSUME NEW draft \in Draft, NEW d \in Range(<<draft>>)
    PROVE  d = draft
<1> DEFINE l == <<draft>>
<1>1. l \in Seq(Draft) /\ Len(l) = 1 /\ l[1] = draft
  OBVIOUS
<1> HIDE DEF l
<1>2. d \in Range(l)
  BY DEF l
<1>3. PICK i \in 1..Len(l) : d = l[i]
  BY <1>1, <1>2, Elements
<1> QED
  BY <1>1, <1>3

(* The line of an edited session: as before up to the current draft, then the new one. *)
Edited(old, p, draft, l) ==
    /\ l \in Seq(Draft) /\ p \in 1..Len(old) /\ Len(l) = p + 1
    /\ l[p + 1] = draft /\ \A i \in 1..p : l[i] = old[i]

LEMMA EditedLine ==
    ASSUME TypeInv, HistoryInv, NEW s \in Sessions, Open(s), NEW draft \in Draft,
           NEW l, l = Append(SubSeq(line[s], 1, pos[s]), draft)
    PROVE  Edited(line[s], pos[s], draft, l)
<1>1. line[s] \in Seq(Draft) /\ pos[s] \in 1..Len(line[s]) /\ Len(line[s]) \in Nat
  BY DEF TypeInv, HistoryInv, Track
<1> DEFINE past == SubSeq(line[s], 1, pos[s])
<1>2. past \in Seq(Draft) /\ Len(past) = pos[s] /\ \A i \in 1..pos[s] : past[i] = line[s][i]
  BY <1>1, SubSeqProperties
<1> HIDE DEF past
<1>3. l = Append(past, draft)
  BY DEF past
<1> QED
  BY <1>1, <1>2, <1>3 DEF Edited

(* remap_draft translates operations of the current draft to known nodes. *)
LEMMA TranslatedDescends ==
    ASSUME TypeInv, HistoryInv, NEW s \in Sessions, PrepareRebase(s),
           NEW o \in Range(review'.draft.operations)
    PROVE  Descends(o)
<1>1. PICK c \in scope.baselines :
        /\ c \in Baselines /\ Observable(c) /\ CanRemap(sess[s].baseline, sess[s].draft, c)
        /\ review'.draft = Remap(sess[s].baseline, sess[s].draft, c)
  BY ReviewShape, Zenon
<1> DEFINE b == sess[s].baseline
           old == sess[s].draft
           new == review'.draft
<1>2. Open(s) /\ b \in Baselines /\ old \in Draft /\ old \in HeldDrafts
  BY ReviewShape, OpenIsSession, CurrentIsHeld, Zenon DEF Session
<1>3. CanRemap(b, old, c) /\ new = Remap(b, old, c) /\ o \in Range(new.operations)
  BY <1>1
<1> HIDE DEF b, old, new
<1>4. /\ new \in Draft /\ Len(new.operations) = Len(old.operations)
      /\ \A i \in 1..Len(old.operations) :
           /\ Kin(new.operations[i], old.operations[i])
           /\ Translated(b, old, c, old.operations[i].request.node, new.operations[i].request.node)
  BY <1>1, <1>2, <1>3, RemapShape
<1>5. PICK i \in 1..Len(old.operations) : o = new.operations[i]
  <2>1. new.operations \in Seq(Operation)
    BY <1>4, DraftOperations
  <2> QED
    BY <1>3, <1>4, <2>1, Elements
<1> DEFINE q == old.operations[i]
<1>6. q \in HeldOps
  <2>1. q \in Range(old.operations)
    BY <1>2, DraftOperations, Elements
  <2> QED
    BY <1>2, <2>1, OpsOf
<1>7. Kin(o, q) /\ Translated(b, old, c, q.request.node, o.request.node)
  BY <1>4, <1>5
<1> HIDE DEF q
<1>8. Graph[c] \subseteq Known(allocated)
  BY <1>1 DEF Observable, Known
<1> QED
  BY <1>6, <1>7, <1>8, Zenon DEF Descends, Translated

(* Every operation after a step descends from one before it, or is the fresh one. *)
LEMMA OperationsStep ==
    ASSUME TypeInv, HistoryInv, [Next]_vars
    PROVE  \E fresh : \A o \in HeldOps' : Descends(o) \/ (o = fresh /\ Fresh(fresh))
<1>1. ASSUME \A d \in HeldDrafts' : \A o \in Range(d.operations) : Descends(o)
      PROVE  \E fresh : \A o \in HeldOps' : Descends(o) \/ (o = fresh /\ Fresh(fresh))
  BY <1>1 DEF HeldOps
<1>2. ASSUME HeldDrafts' \subseteq HeldDrafts
      PROVE  \E fresh : \A o \in HeldOps' : Descends(o) \/ (o = fresh /\ Fresh(fresh))
  BY <1>1, <1>2, OpsOf
<1>3. CASE UNCHANGED vars
  BY <1>2, <1>3 DEF vars, HeldDrafts
<1>4. CASE Next
  <2>1. PICK s \in Sessions :
          \/ \E document : Opens(s, document)
          \/ \E draft : Edits(s, draft)
          \/ Save(s) \/ SetHistoryLimit(s) \/ Undo(s) \/ Redo(s)
          \/ PrepareRebase(s) \/ AcceptRebase(s)
    BY <1>4, StepCases
  <2>2. ASSUME NEW document, Opens(s, document)
        PROVE  \E fresh : \A o \in HeldOps' : Descends(o) \/ (o = fresh /\ Fresh(fresh))
    <3>1. PICK r, l : Moves(s, r, l, 1) /\ l = <<document.draft>>
      BY <2>2, OpenMoves DEF Opens
    <3>2. document.draft \in Draft /\ saved' = saved /\ review' = review
      BY <2>2 DEF Opens, DraftDocument, OpenSession
    <3>3. ASSUME NEW d \in HeldDrafts', NEW o \in Range(d.operations) PROVE Descends(o)
      <4>1. CASE d \in HeldDrafts
        BY <3>3, <4>1, OpsOf
      <4>2. CASE d \notin HeldDrafts
        <5>1. d = document.draft
          BY <3>1, <3>2, <3>3, <4>2, MovedDrafts, SingleDraft, Zenon
        <5>2. d # Empty
          <6> DEFINE none == << >>
          <6>1. Len(none) = 0 /\ none \in Seq(Operation) /\ Empty.operations = none
            BY EmptySeq DEF Empty
          <6> HIDE DEF none
          <6>2. DOMAIN none = {}
            BY <6>1
          <6>3. Range(none) = {}
            BY <6>2 DEF Range
          <6> QED
            BY <3>3, <6>1, <6>3, Zenon
        <5>3. saved # Nothing /\ document = saved
          BY <2>2, <5>1, <5>2 DEF Opens
        <5> QED
          BY <4>2, <5>1, <5>3 DEF HeldDrafts
      <4> QED
        BY <4>1, <4>2
    <3> QED
      BY <1>1, <3>3
  <2>3. ASSUME NEW draft, Edits(s, draft)
        PROVE  \E fresh : \A o \in HeldOps' : Descends(o) \/ (o = fresh /\ Fresh(fresh))
    <3>1. draft \in Draft /\ Open(s) /\ saved' = saved /\ review' = review
      BY <2>3 DEF Edits, EditOf, Commit
    <3>2. PICK r, l : Moves(s, r, l, pos[s] + 1) /\ l = Append(SubSeq(line[s], 1, pos[s]), draft)
      BY <2>3, <3>1, CommitMoves, Zenon DEF Edits, EditOf
    <3>3. Edited(line[s], pos[s], draft, l)
      BY <3>1, <3>2, EditedLine, Zenon
    <3>4. ASSUME NEW d \in HeldDrafts' PROVE d \in HeldDrafts \/ d = draft
      <4>0. l \in Seq(Draft) /\ pos[s] \in 1..Len(line[s]) /\ Len(l) = pos[s] + 1 /\ line[s] \in Seq(Draft)
        BY <3>3, Zenon DEF Edited, TypeInv
      <4>1. CASE d \in Range(l)
        <5>1. PICK i \in 1..Len(l) : d = l[i]
          BY <4>0, <4>1, Elements, Zenon
        <5>2. i = pos[s] + 1 \/ (i \in 1..pos[s] /\ i \in 1..Len(line[s]))
          <6>1. /\ pos[s] \in Nat /\ Len(line[s]) \in Nat /\ pos[s] <= Len(line[s])
                /\ Len(l) = pos[s] + 1
            BY <4>0
          <6> QED
            BY <5>1, <6>1
        <5> QED
          BY <3>3, <5>1, <5>2, OnLine, Zenon DEF Edited
      <4> QED
        BY <3>1, <3>2, <3>4, <4>1, MovedDrafts, Zenon
    <3>5. sess[s].draft \in HeldDrafts
      BY <3>1, CurrentIsHeld
    <3>6. CASE Reworks(s, draft)
      <4>1. \A o \in Range(draft.operations) : Descends(o)
        BY <3>5, <3>6, OpsOf, Zenon DEF Reworks, Descends
      <4> QED
        BY <1>1, <3>4, <4>1, OpsOf
    <3>7. ASSUME NEW fresh \in Operation, Extends(s, draft, fresh)
          PROVE  \A o \in HeldOps' : Descends(o) \/ (o = fresh /\ Fresh(fresh))
      <4>1. Fresh(fresh)
        BY <3>7 DEF Extends, Fresh
      <4>2. \A o \in Range(draft.operations) : Descends(o) \/ o = fresh
        BY <3>5, <3>7, OpsOf, Zenon DEF Extends
      <4>3. ASSUME NEW o \in HeldOps' PROVE \E d \in HeldDrafts' : o \in Range(d.operations)
        BY <4>3 DEF HeldOps
      <4> QED
        BY <3>4, <4>1, <4>2, <4>3, OpsOf, Zenon
    <3> QED
      BY <2>3, <3>6, <3>7 DEF Edits, EditOf
  <2>4. CASE Save(s)
    <3>1. saved'.draft = sess[s].draft /\ sess[s].draft \in HeldDrafts
      BY <2>4, DocumentType, CurrentIsHeld, Zenon DEF Save
    <3>2. line' = line /\ review' = review
      BY <2>4 DEF Save
    <3>3. HeldDrafts' \subseteq HeldDrafts
      BY <3>1, <3>2 DEF HeldDrafts
    <3> QED
      BY <1>2, <3>3
  <2>5. CASE SetHistoryLimit(s) \/ Undo(s) \/ Redo(s)
    <3>1. line' = line /\ saved' = saved /\ review' = review
      BY <2>5, Zenon DEF SetHistoryLimit, Undo, Redo
    <3> QED
      BY <1>2, <3>1 DEF HeldDrafts
  <2>6. CASE PrepareRebase(s)
    <3>1. line' = line /\ saved' = saved
      BY <2>6, ReviewShape
    <3>2. ASSUME NEW d \in HeldDrafts' PROVE d \in HeldDrafts \/ d = review'.draft
      BY <3>1, <3>2 DEF HeldDrafts
    <3> QED
      BY <1>1, <2>6, <3>2, OpsOf, TranslatedDescends, Zenon
  <2>7. CASE AcceptRebase(s)
    <3>1. PICK r, l : Moves(s, r, l, 1) /\ l = <<review.draft>>
      BY <2>7, AcceptMoves
    <3>2. saved' = saved /\ review' = review /\ review # Nothing /\ review.draft \in Draft
      BY <2>7, AcceptShape, Zenon DEF AcceptRebase, RebasePreview
    <3>3. review.draft \in HeldDrafts
      BY <3>2 DEF HeldDrafts
    <3>4. HeldDrafts' \subseteq HeldDrafts
      BY <3>1, <3>2, <3>3, MovedDrafts, SingleDraft, Zenon
    <3> QED
      BY <1>2, <3>4
  <2> QED
    BY <2>1, <2>2, <2>3, <2>4, <2>5, <2>6, <2>7, Zenon
<1> QED
  BY <1>3, <1>4

LEMMA OperationStep ==
    ASSUME TypeInv, HistoryInv, OperationInv, [Next]_vars
    PROVE  OperationInv'
<1>1. scope' = scope /\ allocated' \in Nat /\ allocated <= allocated' /\ allocated \in Nat
  BY AllocatedGrows DEF TypeInv
<1>2. Known(allocated) \subseteq Known(allocated)'
  <2>1. 1..allocated \subseteq 1..allocated'
    BY <1>1
  <2> QED
    BY <1>1, <2>1 DEF Known
<1>3. PICK fresh : \A o \in HeldOps' : Descends(o) \/ (o = fresh /\ Fresh(fresh))
  BY OperationsStep
<1>4. ASSUME NEW o, Descends(o)
      PROVE  /\ o.id \in 1..allocated /\ o.id \in 1..allocated'
             /\ o.output = IF o.request.kind = "Create" THEN o.id ELSE NoNode
             /\ o.request.node \in Known(allocated)'
  <2>1. PICK p \in HeldOps :
          Kin(o, p) /\ (o.request.node = p.request.node \/ o.request.node \in Known(allocated))
    BY <1>4 DEF Descends
  <2>2. /\ p.id \in 1..allocated /\ p.request.node \in Known(allocated)
        /\ p.output = IF p.request.kind = "Create" THEN p.id ELSE NoNode
    BY <2>1 DEF OperationInv
  <2>3. p.id \in 1..allocated'
    BY <1>1, <2>2
  <2> QED
    BY <1>2, <2>1, <2>2, <2>3, Zenon DEF Kin
<1>5. ASSUME Fresh(fresh)
      PROVE  /\ fresh.id \in 1..allocated' /\ fresh.id \notin 1..allocated
             /\ fresh.output = IF fresh.request.kind = "Create" THEN fresh.id ELSE NoNode
             /\ fresh.request.node \in Known(allocated)'
  <2>1. allocated' = allocated + 1 /\ fresh.id = allocated + 1
    BY <1>5 DEF Fresh
  <2>2. fresh.id \in 1..allocated' /\ fresh.id \notin 1..allocated
    BY <1>1, <2>1
  <2>3. Known(allocated + 1) \subseteq Known(allocated)'
    BY <1>1, <2>1 DEF Known
  <2> QED
    BY <1>5, <2>2, <2>3 DEF Fresh
<1>6. ASSUME NEW o, NEW p, Descends(o), Descends(p), o.id = p.id PROVE o.request.kind = p.request.kind
  <2>1. PICK q \in HeldOps : Kin(o, q)
    BY <1>6 DEF Descends
  <2>2. PICK r \in HeldOps : Kin(p, r)
    BY <1>6 DEF Descends
  <2>3. q.id = r.id => q.request.kind = r.request.kind
    BY DEF OperationInv
  <2> QED
    BY <1>6, <2>1, <2>2, <2>3, Zenon DEF Kin
<1>7. ASSUME NEW o \in HeldOps'
      PROVE  /\ o.id \in 1..allocated'
             /\ o.output = IF o.request.kind = "Create" THEN o.id ELSE NoNode
             /\ o.request.node \in Known(allocated)'
  BY <1>3, <1>4, <1>5, Zenon
<1>8. ASSUME NEW o \in HeldOps', NEW p \in HeldOps', o.id = p.id PROVE o.request.kind = p.request.kind
  BY <1>3, <1>4, <1>5, <1>6, <1>8, Zenon
<1> QED
  BY <1>7, <1>8, Zenon DEF OperationInv

(***************************************************************************)
(* An operation identity determines the operation's kind and output, and   *)
(* its input is a node that exists, wherever it is kept: PlanEdit::Add is  *)
(* the only edit that makes one, replace and remap_draft keep the identity *)
(* and kind, and nothing of what undo and redo reach is ever renamed.      *)
(***************************************************************************)
THEOREM OperationInvariance == Spec => [](TypeInv /\ HistoryInv /\ OperationInv)
<1>1. Init => OperationInv
  <2>1. ASSUME Init PROVE HeldOps = {}
    <3> DEFINE none == << >>
    <3>1. DOMAIN none = {}
      OBVIOUS
    <3>2. \A s \in Sessions : line[s] = none
      BY <2>1 DEF Init
    <3>3. saved = Nothing /\ review = Nothing
      BY <2>1 DEF Init
    <3> HIDE DEF none
    <3>4. Range(none) = {}
      BY <3>1 DEF Range
    <3>5. HeldDrafts = {}
      BY <3>2, <3>3, <3>4 DEF HeldDrafts
    <3> QED
      BY <3>5 DEF HeldOps
  <2> QED
    BY <2>1 DEF OperationInv
<1>2. TypeInv /\ HistoryInv /\ OperationInv /\ [Next]_vars => OperationInv'
  BY OperationStep
<1> QED
  BY HistoryInvariance, <1>1, <1>2, PTL DEF Spec

(* Where the entries of the two histories are on the line. *)
LEMMA Offsets ==
    \A n, p, k \in Nat :
        /\ n < p /\ p \in 1..k => \A i \in 1..n : p - n + i - 1 \in 1..k
        /\ n <= k - p /\ p \in 1..k => \A i \in 1..n : p + n - i + 1 \in 1..k
  OBVIOUS

(* What the sessions, the document and the review hold is on the lines or in the two. *)
LEMMA DraftsAreHeld ==
    ASSUME TypeInv, HistoryInv
    PROVE  Drafts \subseteq HeldDrafts
<1>1. ASSUME NEW s \in Sessions, Open(s),
             NEW d \in {sess[s].draft} \union Range(sess[s].undo) \union Range(sess[s].redo)
      PROVE  d \in HeldDrafts
  <2>1. /\ sess[s].undo \in Seq(Draft) /\ sess[s].redo \in Seq(Draft)
        /\ Len(sess[s].undo) \in Nat /\ Len(sess[s].redo) \in Nat
        /\ pos[s] \in Nat /\ Len(line[s]) \in Nat
    <3>1. sess[s] \in Session /\ line[s] \in Seq(Draft) /\ pos[s] \in Nat
      BY <1>1, OpenIsSession, Zenon DEF TypeInv
    <3>2. sess[s].undo \in Seq(Draft) /\ sess[s].redo \in Seq(Draft)
      BY <3>1 DEF Session
    <3> QED
      BY <3>1, <3>2
  <2>2. Track(sess[s].draft, sess[s].undo, sess[s].redo, line[s], pos[s])
    BY <1>1 DEF HistoryInv
  <2>3. CASE d \in Range(sess[s].undo)
    <3>1. PICK i \in 1..Len(sess[s].undo) : d = sess[s].undo[i]
      BY <2>1, <2>3, Elements, Zenon
    <3>2. /\ Len(sess[s].undo) < pos[s] /\ pos[s] \in 1..Len(line[s])
          /\ d = line[s][pos[s] - Len(sess[s].undo) + i - 1]
      BY <2>2, <3>1, Zenon DEF Track
    <3>3. pos[s] - Len(sess[s].undo) + i - 1 \in 1..Len(line[s])
      BY <2>1, <3>1, <3>2, Offsets, Zenon
    <3> QED
      BY <3>2, <3>3, OnLine, Zenon
  <2>4. CASE d \in Range(sess[s].redo)
    <3>1. PICK i \in 1..Len(sess[s].redo) : d = sess[s].redo[i]
      BY <2>1, <2>4, Elements, Zenon
    <3>2. /\ Len(sess[s].redo) <= Len(line[s]) - pos[s] /\ pos[s] \in 1..Len(line[s])
          /\ d = line[s][pos[s] + Len(sess[s].redo) - i + 1]
      BY <2>2, <3>1, Zenon DEF Track
    <3>3. pos[s] + Len(sess[s].redo) - i + 1 \in 1..Len(line[s])
      BY <2>1, <3>1, <3>2, Offsets, Zenon
    <3> QED
      BY <3>2, <3>3, OnLine, Zenon
  <2> QED
    BY <1>1, <2>3, <2>4, CurrentIsHeld, Zenon
<1> QED
  BY <1>1, Zenon DEF Drafts, HeldDrafts

(***************************************************************************)
(* IdentitiesAreStable: an operation identity stands for one kind and one  *)
(* output in every session, history, document and review, and an output    *)
(* for one identity, whatever is edited, undone, loaded and rebased.       *)
(***************************************************************************)
THEOREM IdentitiesAlwaysStable == Spec => []IdentitiesAreStable
<1>1. TypeInv /\ HistoryInv /\ OperationInv => IdentitiesAreStable
  <2> SUFFICES ASSUME TypeInv, HistoryInv, OperationInv, NEW d \in Drafts, NEW e \in Drafts,
                      NEW o \in Range(d.operations), NEW p \in Range(e.operations)
               PROVE  /\ o.id = p.id => o.output = p.output /\ o.request.kind = p.request.kind
                      /\ o.output = p.output /\ o.output # NoNode => o.id = p.id
    BY DEF IdentitiesAreStable
  <2>1. o \in HeldOps /\ p \in HeldOps
    BY DraftsAreHeld, OpsOf
  <2>2. /\ o.output = IF o.request.kind = "Create" THEN o.id ELSE NoNode
        /\ p.output = IF p.request.kind = "Create" THEN p.id ELSE NoNode
        /\ o.id = p.id => o.request.kind = p.request.kind
    BY <2>1 DEF OperationInv
  <2> QED
    BY <2>2
<1> QED
  BY OperationInvariance, <1>1, PTL

-----------------------------------------------------------------------------
(* An edit strands nothing in the draft it makes, and undoing it nothing in the old one. *)
LEMMA EditKeeps ==
    ASSUME TypeInv, HistoryInv, OperationInv, NEW s \in Sessions, NEW draft, Edits(s, draft)
    PROVE  Keeps(sess[s].draft, draft) /\ Keeps(draft, sess[s].draft)
<1> DEFINE old == sess[s].draft
<1>1. old \in HeldDrafts
  BY CurrentIsHeld DEF Edits
<1>2. CASE Reworks(s, draft)
  <2>1. \A o \in Range(draft.operations) : \E p \in Range(old.operations) : p.output = o.output
    BY <1>2, Zenon DEF Reworks, Kin
  <2> QED
    BY <1>2, <2>1, KeepsAll, Zenon DEF Reworks
<1>3. ASSUME NEW fresh, Extends(s, draft, fresh) PROVE Keeps(old, draft) /\ Keeps(draft, old)
  <2>1. Range(draft.operations) = Range(old.operations) \union {fresh}
    BY <1>3 DEF Extends
  <2>2. Keeps(old, draft)
    BY <2>1, KeepsAll
  <2>3. allocated + 1 \notin Known(allocated)
    <3>1. allocated \in Nat /\ scope.allocated \in Nat /\ allocated < scope.allocated
      BY <1>3, SessionAssumption, Zenon DEF Extends, TypeInv
    <3>2. allocated + 1 \notin 1..allocated /\ allocated + 1 \in 1..scope.allocated /\ allocated + 1 # NoNode
      BY <3>1 DEF NoNode
    <3> QED
      BY <3>2 DEF Known
  <2>4. fresh.output \in {allocated + 1, NoNode}
    BY <1>3, Zenon DEF Extends
  <2> HIDE DEF old
  <2>5. Created(draft) \ Created(old) \subseteq {allocated + 1}
    BY <2>1, <2>4, Zenon DEF Created
  <2>6. \A o \in Range(old.operations) : o.request.node \in Known(allocated)
    BY <1>1, OpsOf DEF OperationInv
  <2>7. Keeps(draft, old)
    BY <2>3, <2>5, <2>6, Zenon DEF Keeps
  <2> QED
    BY <2>2, <2>7
<1> QED
  BY <1>2, <1>3 DEF Edits, EditOf

(* Between neighbours on a line of drafts nothing is stranded either way. *)
Chained(l) == \A i \in 1..(Len(l) - 1) : Keeps(l[i], l[i + 1]) /\ Keeps(l[i + 1], l[i])
NeighbourInv == \A s \in Sessions : Chained(line[s])

LEMMA SingleChained ==
    ASSUME NEW draft
    PROVE  Chained(<<draft>>)
<1> DEFINE l == <<draft>>
<1>1. Len(l) = 1
  OBVIOUS
<1> HIDE DEF l
<1>2. Chained(l)
  BY <1>1 DEF Chained
<1> QED
  BY <1>2 DEF l

LEMMA NeighbourStep ==
    ASSUME TypeInv, HistoryInv, OperationInv, NeighbourInv, [Next]_vars
    PROVE  NeighbourInv'
<1>1. CASE line' = line
  BY <1>1 DEF NeighbourInv
<1>2. ASSUME NEW s \in Sessions, NEW r, NEW l, NEW p, Moves(s, r, l, p), Chained(l)
      PROVE  NeighbourInv'
  <2>1. line' = [line EXCEPT ![s] = l]
    BY <1>2 DEF Moves
  <2>2. \A t \in Sessions : line'[t] = line[t] \/ line'[t] = l
    BY <2>1 DEF TypeInv
  <2>3. \A t \in Sessions : Chained(line'[t])
    BY <1>2, <2>2 DEF NeighbourInv
  <2> QED
    BY <2>3, Zenon DEF NeighbourInv, Chained, Keeps, Created
<1>3. CASE UNCHANGED vars
  BY <1>1, <1>3 DEF vars
<1>4. CASE Next
  <2>1. PICK s \in Sessions :
          \/ \E document : Opens(s, document)
          \/ \E draft : Edits(s, draft)
          \/ Save(s) \/ SetHistoryLimit(s) \/ Undo(s) \/ Redo(s)
          \/ PrepareRebase(s) \/ AcceptRebase(s)
    BY <1>4, StepCases
  <2>2. ASSUME NEW document, Opens(s, document) PROVE NeighbourInv'
    <3>1. PICK r, l : Moves(s, r, l, 1) /\ l = <<document.draft>>
      BY <2>2, OpenMoves DEF Opens
    <3> QED
      BY <1>2, <3>1, SingleChained
  <2>3. ASSUME NEW draft, Edits(s, draft) PROVE NeighbourInv'
    <3>1. draft \in Draft /\ Open(s) /\ line[s] \in Seq(Draft) /\ Len(line[s]) \in Nat
      BY <2>3 DEF Edits, EditOf, TypeInv
    <3>2. PICK r, l : Moves(s, r, l, pos[s] + 1) /\ l = Append(SubSeq(line[s], 1, pos[s]), draft)
      BY <2>3, <3>1, CommitMoves, Zenon DEF Edits, EditOf
    <3>3. Edited(line[s], pos[s], draft, l)
      BY <3>1, <3>2, EditedLine, Zenon
    <3>4. line[s][pos[s]] = sess[s].draft
      BY <3>1, Zenon DEF HistoryInv, Track
    <3>5. ASSUME NEW i \in 1..(Len(l) - 1) PROVE Keeps(l[i], l[i + 1]) /\ Keeps(l[i + 1], l[i])
      <4>1. pos[s] \in Nat /\ i \in 1..pos[s] /\ pos[s] <= Len(line[s])
        BY <3>1, <3>3 DEF Edited
      <4>2. CASE i = pos[s]
        <5>1. l[i] = sess[s].draft /\ l[i + 1] = draft
          BY <3>3, <3>4, <4>1, <4>2, Zenon DEF Edited
        <5> QED
          BY <2>3, <5>1, EditKeeps, Zenon
      <4>3. CASE i # pos[s]
        <5>1. i + 1 \in 1..pos[s] /\ i \in 1..(Len(line[s]) - 1)
          BY <3>1, <4>1, <4>3
        <5>2. l[i] = line[s][i] /\ l[i + 1] = line[s][i + 1]
          BY <3>3, <4>1, <5>1, Zenon DEF Edited
        <5>3. Keeps(line[s][i], line[s][i + 1]) /\ Keeps(line[s][i + 1], line[s][i])
          BY <5>1 DEF NeighbourInv, Chained
        <5> QED
          BY <5>2, <5>3, Zenon
      <4> QED
        BY <4>2, <4>3
    <3>6. Chained(l)
      BY <3>5 DEF Chained
    <3> QED
      BY <1>2, <3>2, <3>6
  <2>4. CASE Save(s) \/ SetHistoryLimit(s) \/ Undo(s) \/ Redo(s)
    BY <1>1, <2>4, Zenon DEF Save, SetHistoryLimit, Undo, Redo
  <2>5. CASE PrepareRebase(s)
    BY <1>1, <2>5, ReviewShape, Zenon
  <2>6. CASE AcceptRebase(s)
    <3>1. PICK r, l : Moves(s, r, l, 1) /\ l = <<review.draft>>
      BY <2>6, AcceptMoves
    <3> QED
      BY <1>2, <3>1, SingleChained
  <2> QED
    BY <2>1, <2>2, <2>3, <2>4, <2>5, <2>6, Zenon
<1> QED
  BY <1>3, <1>4

THEOREM NeighbourInvariance == Spec => [](TypeInv /\ HistoryInv /\ OperationInv /\ NeighbourInv)
<1>1. Init => NeighbourInv
  <2>1. ASSUME Init, NEW s \in Sessions PROVE Len(line[s]) = 0
    BY <2>1 DEF Init
  <2> QED
    BY <2>1 DEF NeighbourInv, Chained
<1>2. TypeInv /\ HistoryInv /\ OperationInv /\ NeighbourInv /\ [Next]_vars => NeighbourInv'
  BY NeighbourStep
<1> QED
  BY OperationInvariance, <1>1, <1>2, PTL DEF Spec

(***************************************************************************)
(* RemovalStrandsNothing: remove_operations takes the dependents along, a  *)
(* fresh output is referred to by nothing older, and a rebase keeps every  *)
(* output; as neighbours on the line are such edits of each other, undo    *)
(* and redo strand nothing either, however they and edits are mixed.       *)
(***************************************************************************)
THEOREM RemovalNeverStrands == Spec => RemovalStrandsNothing
<1>1. ASSUME TypeInv, HistoryInv, ReviewInv, OperationInv, NeighbourInv, [Next]_vars,
             NEW s \in Sessions, Open(s)
      PROVE  Keeps(sess[s].draft, sess'[s].draft)
  <2> DEFINE old == sess[s].draft
             new == sess'[s].draft
  <2>1. Stays(s) \/ Advanced(s) \/ Rebased(s)
    BY <1>1, SessionCases
  <2>2. CASE Stays(s)
    BY <2>2 DEF Stays, Keeps
  <2>3. CASE Edits(s, new)
    BY <1>1, <2>3, EditKeeps, Zenon
  <2>4. ASSUME NEW i \in {pos[s] - 1, pos[s] + 1}, i \in 1..Len(line[s]), new = line[s][i]
        PROVE  Keeps(old, new)
    <3>1. pos[s] \in 1..Len(line[s]) /\ line[s][pos[s]] = old
      BY <1>1, Zenon DEF HistoryInv, Track
    <3>2. Chained(line[s]) /\ Len(line[s]) \in Nat
      BY <1>1 DEF NeighbourInv, TypeInv
    <3>3. CASE i = pos[s] - 1
      <4>1. i \in 1..(Len(line[s]) - 1) /\ i + 1 = pos[s]
        BY <2>4, <3>1, <3>2, <3>3
      <4> QED
        BY <2>4, <3>1, <3>2, <4>1, Zenon DEF Chained
    <3>4. CASE i = pos[s] + 1
      <4>1. pos[s] \in 1..(Len(line[s]) - 1)
        BY <2>4, <3>1, <3>2, <3>4
      <4> QED
        BY <2>4, <3>1, <3>2, <3>4, <4>1, Zenon DEF Chained
    <3> QED
      BY <2>4, <3>3, <3>4, Zenon
  <2>5. CASE Rebased(s)
    <3> DEFINE b == sess[s].baseline
               c == review.baseline
    <3>1. /\ b \in Baselines /\ old \in Draft /\ c \in Baselines
          /\ CanRemap(b, old, c) /\ new = Remap(b, old, c)
      BY <1>1, <2>5, RebasedDraft, Zenon
    <3> HIDE DEF b, c, old, new
    <3>2. /\ new \in Draft /\ Len(new.operations) = Len(old.operations)
          /\ \A i \in 1..Len(old.operations) : Kin(new.operations[i], old.operations[i])
      BY <3>1, RemapShape
    <3>0. old.operations \in Seq(Operation) /\ new.operations \in Seq(Operation)
      BY <3>1, <3>2, DraftOperations, Zenon
    <3>3. ASSUME NEW p \in Range(old.operations)
          PROVE  \E o \in Range(new.operations) : o.output = p.output
      <4>1. PICK i \in 1..Len(old.operations) : p = old.operations[i]
        BY <3>0, <3>3, Elements, Zenon
      <4>2. new.operations[i] \in Range(new.operations)
        BY <3>0, <3>2, Elements, Zenon
      <4> QED
        BY <3>2, <4>1, <4>2, Zenon DEF Kin
    <3> QED
      BY <3>3, KeepsAll, Zenon DEF old, new
  <2> QED
    BY <2>1, <2>2, <2>3, <2>4, <2>5, Zenon DEF Advanced
<1>2. TypeInv /\ HistoryInv /\ ReviewInv /\ OperationInv /\ NeighbourInv /\ [Next]_vars =>
        \A s \in Sessions : Open(s) =>
            \A o \in Range(sess'[s].draft.operations) :
                o.request.node \notin Created(sess[s].draft) \ Created(sess'[s].draft)
  BY <1>1, Zenon DEF Keeps
<1> QED
  BY ReviewInvariance, NeighbourInvariance, <1>2, PTL DEF Spec, RemovalStrandsNothing

=============================================================================

--------------------------- MODULE PlanSessionEdits ---------------------------
(***************************************************************************)
(* What each operation of an editing session does to the session record,   *)
(* for drafts and histories of any length: the fields of its next state    *)
(* (CommitShape, UndoShape, OpenShape ...), which operations the draft of  *)
(* an edit consists of (EditStep), what a rebase translates (RemapShape),  *)
(* and where the step leaves the session on its line of drafts (Moves).    *)
(* The theorems of PlanSessionProofs rest on these lemmas.                 *)
(***************************************************************************)
EXTENDS PlanSession, SequenceTheorems, TLAPS

Kind == {"Create", "Use", "Unmount"}
Operation == [id : Nat, request : [kind : Kind, node : Nat], output : Nat]
Draft == [operations : Seq(Operation), protected : SUBSET Nat]
Preview == [baseline : Baselines, draft : Draft, state : {"Calculated", "Invalid"}]
DraftDocument == [id : Sessions, revision : Nat, baseline : Baselines, draft : Draft]
Session ==
    [id : Sessions, revision : Nat, baseline : Baselines, draft : Draft, preview : Preview,
     limit : Nat, undo : Seq(Draft), redo : Seq(Draft)]
RebasePreview == [source : DraftDocument, baseline : Baselines, draft : Draft, preview : Preview]

TypeInv ==
    /\ scope \in Scopes /\ allocated \in Nat
    /\ sess \in [Sessions -> Session \union {Closed}]
    /\ saved \in DraftDocument \union {Nothing}
    /\ review \in RebasePreview \union {Nothing}
    /\ line \in [Sessions -> Seq(Draft)]
    /\ pos \in [Sessions -> Nat]

-----------------------------------------------------------------------------
(* The records are told apart from the absent ones by their fields. *)
LEMMA Absent == Closed \notin Session /\ Nothing \notin DraftDocument /\ Nothing \notin RebasePreview
  BY Zenon DEF Closed, Nothing, Session, DraftDocument, RebasePreview

LEMMA OpenIsSession ==
    ASSUME TypeInv, NEW s \in Sessions
    PROVE  Open(s) <=> sess[s] \in Session
  BY Absent DEF TypeInv, Open

LEMMA BuildType ==
    ASSUME NEW b \in Baselines, NEW draft \in Draft
    PROVE  Build(b, draft) \in Preview
  BY DEF Build, Preview

LEMMA PushType ==
    ASSUME NEW history \in Seq(Draft), NEW draft \in Draft, NEW limit \in Nat
    PROVE  Push(history, draft, limit) \in Seq(Draft)
  BY DEF Push

LEMMA NewestType ==
    ASSUME NEW history \in Seq(Draft), NEW limit \in Nat
    PROVE  Newest(history, limit) \in Seq(Draft)
  BY SubSeqProperties DEF Newest

LEMMA LastAndFront ==
    ASSUME NEW history \in Seq(Draft), history # << >>
    PROVE  /\ Len(history) \in Nat /\ Len(history) >= 1
           /\ Last(history) = history[Len(history)] /\ Last(history) \in Draft
           /\ Front(history) \in Seq(Draft) /\ Len(Front(history)) = Len(history) - 1
           /\ \A i \in 1..(Len(history) - 1) : Front(history)[i] = history[i]
<1> DEFINE n == Len(history) - 1
<1>1. Len(history) \in Nat \ {0}
  BY EmptySeq
<1>2. Last(history) = history[Len(history)] /\ Last(history) \in Draft
  BY <1>1 DEF Last
<1>3. \A i \in 1..n : i \in 1..Len(history)
  BY <1>1
<1>4. /\ SubSeq(history, 1, n) \in Seq(Draft)
      /\ Len(SubSeq(history, 1, n)) = IF 1 <= n THEN n - 1 + 1 ELSE 0
      /\ \A i \in 1..(n - 1 + 1) : SubSeq(history, 1, n)[i] = history[1 + i - 1]
  BY <1>1, <1>3, SubSeqProperties
<1>5. Front(history) = SubSeq(history, 1, n) /\ n \in Nat
  BY <1>1 DEF Front
<1> HIDE DEF n
<1>6. Len(Front(history)) = n /\ \A i \in 1..n : Front(history)[i] = history[i]
  BY <1>4, <1>5
<1> QED
  BY <1>1, <1>2, <1>4, <1>5, <1>6 DEF n

(* The session s has become r; the others are as before. *)
Becomes(s, r) ==
    /\ sess' \in [Sessions -> Session \union {Closed}]
    /\ sess'[s] = r /\ r \in Session
    /\ \A t \in Sessions \ {s} : sess'[t] = sess[t]

LEMMA Change ==
    ASSUME TypeInv, NEW s \in Sessions, NEW r \in Session, sess' = [sess EXCEPT ![s] = r]
    PROVE  Becomes(s, r)
  BY DEF TypeInv, Becomes

LEMMA PublishFields ==
    ASSUME NEW session \in Session, NEW draft \in Draft, NEW undo \in Seq(Draft),
           NEW redo \in Seq(Draft), NEW r, r = Publish(session, draft, undo, redo)
    PROVE  /\ r \in Session
           /\ r.id = session.id /\ r.revision = session.revision + 1
           /\ r.baseline = session.baseline /\ r.limit = session.limit
           /\ r.draft = draft /\ r.undo = undo /\ r.redo = redo
<1> DEFINE next == session.revision + 1
           preview == Build(session.baseline, draft)
<1>1. next \in Nat /\ preview \in Preview
  BY BuildType DEF Session
<1>2. r = [session EXCEPT !.revision = next, !.draft = draft, !.preview = preview,
                          !.undo = undo, !.redo = redo]
  BY DEF Publish
<1> HIDE DEF next, preview
<1>3. /\ r \in Session
      /\ r.id = session.id /\ r.revision = next
      /\ r.baseline = session.baseline /\ r.limit = session.limit
      /\ r.draft = draft /\ r.undo = undo /\ r.redo = redo
  BY <1>1, <1>2, Zenon DEF Session
<1> QED
  BY <1>3 DEF next

(* The session s has a new revision with this draft and these histories. *)
Advances(s, draft, undo, redo) ==
    \E r \in Session :
        /\ Becomes(s, r)
        /\ r.id = sess[s].id /\ r.revision = sess[s].revision + 1
        /\ r.baseline = sess[s].baseline /\ r.limit = sess[s].limit
        /\ r.draft = draft /\ r.undo = undo /\ r.redo = redo

LEMMA Advance ==
    ASSUME TypeInv, NEW s \in Sessions, Open(s), NEW draft \in Draft,
           NEW undo \in Seq(Draft), NEW redo \in Seq(Draft),
           sess' = [sess EXCEPT ![s] = Publish(sess[s], draft, undo, redo)]
    PROVE  Advances(s, draft, undo, redo)
<1> DEFINE r == Publish(sess[s], draft, undo, redo)
<1>1. /\ r \in Session
      /\ r.id = sess[s].id /\ r.revision = sess[s].revision + 1
      /\ r.baseline = sess[s].baseline /\ r.limit = sess[s].limit
      /\ r.draft = draft /\ r.undo = undo /\ r.redo = redo
  BY OpenIsSession, PublishFields
<1> HIDE DEF r
<1>2. Becomes(s, r)
  BY <1>1, Change, Zenon DEF r
<1> QED
  BY <1>1, <1>2 DEF Advances

LEMMA CommitShape ==
    ASSUME TypeInv, NEW s \in Sessions, Open(s), NEW draft \in Draft, Commit(s, draft)
    PROVE  Advances(s, draft, Push(sess[s].undo, sess[s].draft, sess[s].limit), << >>)
<1>1. Push(sess[s].undo, sess[s].draft, sess[s].limit) \in Seq(Draft) /\ << >> \in Seq(Draft)
  BY OpenIsSession, PushType DEF Session
<1> QED
  BY <1>1, Advance, Zenon DEF Commit

LEMMA UndoShape ==
    ASSUME TypeInv, NEW s \in Sessions, Undo(s)
    PROVE  Advances(s, Last(sess[s].undo), Front(sess[s].undo),
                    Push(sess[s].redo, sess[s].draft, sess[s].limit))
<1>1. sess[s] \in Session /\ sess[s].undo # << >>
  BY OpenIsSession DEF Undo
<1>2. /\ Push(sess[s].redo, sess[s].draft, sess[s].limit) \in Seq(Draft)
      /\ Last(sess[s].undo) \in Draft /\ Front(sess[s].undo) \in Seq(Draft)
  BY <1>1, LastAndFront, PushType, Zenon DEF Session
<1> QED
  BY <1>2, Advance, Zenon DEF Undo

LEMMA RedoShape ==
    ASSUME TypeInv, NEW s \in Sessions, Redo(s)
    PROVE  Advances(s, Last(sess[s].redo), Push(sess[s].undo, sess[s].draft, sess[s].limit),
                    Front(sess[s].redo))
<1>1. sess[s] \in Session /\ sess[s].redo # << >>
  BY OpenIsSession DEF Redo
<1>2. /\ Push(sess[s].undo, sess[s].draft, sess[s].limit) \in Seq(Draft)
      /\ Last(sess[s].redo) \in Draft /\ Front(sess[s].redo) \in Seq(Draft)
  BY <1>1, LastAndFront, PushType, Zenon DEF Session
<1> QED
  BY <1>2, Advance, Zenon DEF Redo

-----------------------------------------------------------------------------
(* What the edits make of a sequence of operations. *)

LEMMA Elements ==
    ASSUME NEW S, NEW ops \in Seq(S)
    PROVE  /\ Range(ops) \subseteq S
           /\ \A o : o \in Range(ops) <=> \E i \in 1..Len(ops) : o = ops[i]
  BY DEF Range

LEMMA Appended ==
    ASSUME NEW S, NEW ops \in Seq(S), NEW e \in S
    PROVE  Append(ops, e) \in Seq(S) /\ Range(Append(ops, e)) = Range(ops) \union {e}
<1> DEFINE new == Append(ops, e)
<1>1. /\ new \in Seq(S) /\ Len(ops) \in Nat /\ Len(new) = Len(ops) + 1
      /\ \A i \in 1..Len(ops) : new[i] = ops[i]
      /\ new[Len(ops) + 1] = e
  OBVIOUS
<1> HIDE DEF new
<1>2. \A i \in 1..Len(new) : i \in 1..Len(ops) \/ i = Len(ops) + 1
  BY <1>1
<1>3. (\A i \in 1..Len(ops) : i \in 1..Len(new)) /\ Len(ops) + 1 \in 1..Len(new)
  BY <1>1
<1>4. Range(new) = Range(ops) \union {e}
  BY <1>1, <1>2, <1>3, Elements
<1> QED
  BY <1>1, <1>4 DEF new

LEMMA Concatenated ==
    ASSUME NEW S, NEW x \in Seq(S), NEW y \in Seq(S)
    PROVE  x \o y \in Seq(S) /\ Range(x \o y) = Range(x) \union Range(y)
<1> DEFINE new == x \o y
<1>1. /\ new \in Seq(S) /\ Len(new) = Len(x) + Len(y) /\ Len(x) \in Nat /\ Len(y) \in Nat
      /\ \A i \in 1..(Len(x) + Len(y)) : new[i] = IF i <= Len(x) THEN x[i] ELSE y[i - Len(x)]
  BY ConcatProperties, LenProperties
<1> HIDE DEF new
<1>2. \A i \in 1..Len(x) : i \in 1..Len(new) /\ new[i] = x[i]
  BY <1>1
<1>3. ASSUME NEW i \in 1..Len(y) PROVE Len(x) + i \in 1..Len(new) /\ new[Len(x) + i] = y[i]
  <2>1. /\ Len(x) + i \in 1..(Len(x) + Len(y)) /\ ~(Len(x) + i <= Len(x))
        /\ (Len(x) + i) - Len(x) = i
    BY <1>1
  <2> QED
    BY <1>1, <2>1
<1>4. ASSUME NEW i \in 1..Len(new)
      PROVE  \/ i \in 1..Len(x) /\ new[i] = x[i]
             \/ i - Len(x) \in 1..Len(y) /\ new[i] = y[i - Len(x)]
  <2>1. i \in 1..(Len(x) + Len(y)) /\ (i <= Len(x) => i \in 1..Len(x))
        /\ (~(i <= Len(x)) => i - Len(x) \in 1..Len(y))
    BY <1>1
  <2> QED
    BY <1>1, <2>1
<1>5. Range(new) = Range(x) \union Range(y)
  <2>1. ASSUME NEW o \in Range(new) PROVE o \in Range(x) \union Range(y)
    <3>1. PICK i \in 1..Len(new) : o = new[i]
      BY <1>1, Elements
    <3> QED
      BY <1>4, <3>1, Elements
  <2>2. ASSUME NEW o \in Range(x) PROVE o \in Range(new)
    <3>1. PICK i \in 1..Len(x) : o = x[i]
      BY Elements
    <3> QED
      BY <1>1, <1>2, <3>1, Elements, Zenon
  <2>3. ASSUME NEW o \in Range(y) PROVE o \in Range(new)
    <3>1. PICK i \in 1..Len(y) : o = y[i]
      BY Elements
    <3>2. Len(x) + i \in 1..Len(new) /\ new[Len(x) + i] = o
      BY <1>3, <3>1
    <3> QED
      BY <1>1, <3>2, Elements, Zenon
  <2> QED
    BY <2>1, <2>2, <2>3
<1> QED
  BY <1>1, <1>5 DEF new

(* The operations at places m to n. *)
SliceOf(S, ops, m, n, new) ==
    /\ new \in Seq(S) /\ Len(new) = IF m <= n THEN n - m + 1 ELSE 0
    /\ \A o : o \in Range(new) <=> \E i \in m..n : o = ops[i]

LEMMA Slice ==
    ASSUME NEW S, NEW ops \in Seq(S), NEW m \in Nat, NEW n \in Nat, m >= 1, n <= Len(ops)
    PROVE  SliceOf(S, ops, m, n, SubSeq(ops, m, n))
<1> DEFINE new == SubSeq(ops, m, n)
<1>1. Len(ops) \in Nat /\ \A i \in m..n : i \in 1..Len(ops) /\ ops[i] \in S
  BY LenProperties
<1>2. /\ new \in Seq(S)
      /\ Len(new) = IF m <= n THEN n - m + 1 ELSE 0
      /\ \A i \in 1..(n - m + 1) : new[i] = ops[m + i - 1]
  BY <1>1, SubSeqProperties
<1> HIDE DEF new
<1>3. \A i \in 1..Len(new) : m + i - 1 \in m..n /\ new[i] = ops[m + i - 1]
  BY <1>2
<1>4. \A i \in m..n : i - m + 1 \in 1..Len(new) /\ new[i - m + 1] = ops[i]
  BY <1>2
<1>5. ASSUME NEW o PROVE o \in Range(new) <=> \E i \in m..n : o = ops[i]
  <2>1. ASSUME NEW i \in 1..Len(new), o = new[i] PROVE \E j \in m..n : o = ops[j]
    BY <1>3, <2>1
  <2>2. ASSUME NEW i \in m..n, o = ops[i] PROVE \E j \in 1..Len(new) : o = new[j]
    BY <1>4, <2>2
  <2>3. o \in Range(new) <=> \E i \in 1..Len(new) : o = new[i]
    BY <1>2, Elements
  <2> QED
    BY <2>1, <2>2, <2>3
<1> QED
  BY <1>2, <1>5 DEF SliceOf, new

LEMMA Moved ==
    ASSUME NEW S, NEW ops \in Seq(S), NEW i \in 1..Len(ops), NEW target \in 1..Len(ops)
    PROVE  /\ InsertAt(RemoveAt(ops, i), target, ops[i]) \in Seq(S)
           /\ Range(InsertAt(RemoveAt(ops, i), target, ops[i])) = Range(ops)
<1> DEFINE rest == RemoveAt(ops, i)
           e == ops[i]
<1>1. Len(ops) \in Nat /\ i \in Nat /\ target \in Nat /\ e \in S
  BY LenProperties
<1> DEFINE before == SubSeq(ops, 1, i - 1)
           after == SubSeq(ops, i + 1, Len(ops))
<1>2. /\ before \in Seq(S) /\ Len(before) = i - 1
      /\ \A o : o \in Range(before) <=> \E j \in 1..(i - 1) : o = ops[j]
  <2>1. i - 1 \in Nat /\ i - 1 <= Len(ops) /\ 1 \in Nat
    BY <1>1
  <2>2. (IF 1 <= i - 1 THEN (i - 1) - 1 + 1 ELSE 0) = i - 1
    BY <2>1
  <2>3. SliceOf(S, ops, 1, i - 1, before)
    BY <2>1, Slice
  <2> QED
    BY <2>2, <2>3 DEF SliceOf
<1>3. /\ after \in Seq(S) /\ Len(after) = Len(ops) - i
      /\ \A o : o \in Range(after) <=> \E j \in (i + 1)..Len(ops) : o = ops[j]
  <2>1. i + 1 \in Nat /\ i + 1 >= 1
    BY <1>1
  <2>2. (IF i + 1 <= Len(ops) THEN Len(ops) - (i + 1) + 1 ELSE 0) = Len(ops) - i
    BY <1>1
  <2>3. SliceOf(S, ops, i + 1, Len(ops), after)
    BY <1>1, <2>1, Slice
  <2> QED
    BY <2>2, <2>3 DEF SliceOf
<1>4. rest = before \o after
  BY DEF RemoveAt
<1> HIDE DEF before, after, rest, e
<1>5. rest \in Seq(S) /\ Len(rest) = Len(ops) - 1 /\ Range(rest) = Range(before) \union Range(after)
  BY <1>1, <1>2, <1>3, <1>4, Concatenated, ConcatProperties
<1>6. Range(rest) \union {e} = Range(ops)
  <2>1. \A j \in 1..Len(ops) : j \in 1..(i - 1) \/ j = i \/ j \in (i + 1)..Len(ops)
    BY <1>1
  <2>2. /\ \A j \in 1..(i - 1) : j \in 1..Len(ops)
        /\ \A j \in (i + 1)..Len(ops) : j \in 1..Len(ops)
    BY <1>1
  <2>3. \A o : o \in Range(ops) <=> \E j \in 1..Len(ops) : o = ops[j]
    BY Elements
  <2>4. e = ops[i] /\ i \in 1..Len(ops)
    BY DEF e
  <2> QED
    BY <1>2, <1>3, <1>5, <2>1, <2>2, <2>3, <2>4, Zenon
<1> DEFINE left == SubSeq(rest, 1, target - 1)
           right == SubSeq(rest, target, Len(rest))
<1>7. /\ left \in Seq(S)
      /\ \A o : o \in Range(left) <=> \E j \in 1..(target - 1) : o = rest[j]
  <2>1. target - 1 \in Nat /\ target - 1 <= Len(rest) /\ 1 \in Nat /\ 1 >= 1
    BY <1>1, <1>5
  <2>2. SliceOf(S, rest, 1, target - 1, left)
    BY <1>5, <2>1, Slice
  <2> QED
    BY <2>2 DEF SliceOf
<1>8. /\ right \in Seq(S)
      /\ \A o : o \in Range(right) <=> \E j \in target..Len(rest) : o = rest[j]
  <2>1. target \in Nat /\ target >= 1 /\ Len(rest) \in Nat /\ Len(rest) <= Len(rest)
    BY <1>1, <1>5
  <2>2. SliceOf(S, rest, target, Len(rest), right)
    BY <1>5, <2>1, Slice
  <2> QED
    BY <2>2 DEF SliceOf
<1> HIDE DEF left, right
<1>9. Range(left) \union Range(right) = Range(rest)
  <2>1. \A j \in 1..Len(rest) : j \in 1..(target - 1) \/ j \in target..Len(rest)
    BY <1>1, <1>5
  <2>2. /\ \A j \in 1..(target - 1) : j \in 1..Len(rest)
        /\ \A j \in target..Len(rest) : j \in 1..Len(rest)
    BY <1>1, <1>5
  <2> QED
    BY <1>5, <1>7, <1>8, <2>1, <2>2, Elements
<1> DEFINE one == <<e>>
           upto == left \o one
<1>10. one \in Seq(S) /\ Range(one) = {e}
  BY <1>1 DEF Range
<1> HIDE DEF one
<1>11. upto \in Seq(S) /\ Range(upto) = Range(left) \union {e}
  BY <1>7, <1>10, Concatenated
<1> HIDE DEF upto
<1>12. upto \o right \in Seq(S) /\ Range(upto \o right) = Range(left) \union {e} \union Range(right)
  BY <1>8, <1>11, Concatenated
<1>13. InsertAt(rest, target, e) = upto \o right
  BY DEF InsertAt, left, right, one, upto
<1>14. InsertAt(rest, target, e) \in Seq(S) /\ Range(InsertAt(rest, target, e)) = Range(ops)
  BY <1>6, <1>9, <1>12, <1>13, Zenon
<1> QED
  BY <1>14 DEF rest, e

(* The places that are kept, in their order, give the operations at those places. *)
LEMMA Retained ==
    ASSUME NEW S, NEW ops \in Seq(S), NEW kept, kept \subseteq 1..Len(ops), NEW f \in Ascending(kept)
    PROVE  /\ [i \in DOMAIN f |-> ops[f[i]]] \in Seq(S)
           /\ \A o : o \in Range([i \in DOMAIN f |-> ops[f[i]]]) <=> \E i \in kept : o = ops[i]
<1> DEFINE new == [i \in DOMAIN f |-> ops[f[i]]]
<1>1. PICK n \in Nat : f \in [1..n -> kept]
  BY SessionAssumption DEF Ascending
<1>2. f \in [1..n -> kept] /\ Range(f) = kept
  BY <1>1 DEF Ascending
<1>3. DOMAIN f = 1..n /\ \A i \in 1..n : f[i] \in kept /\ ops[f[i]] \in S
  BY <1>2, LenProperties, Zenon
<1>4. new \in [1..n -> S] /\ DOMAIN new = 1..n /\ \A i \in 1..n : new[i] = ops[f[i]]
  BY <1>3
<1> HIDE DEF new
<1>5. new \in Seq(S)
  BY <1>1, <1>4, SeqDef
<1>6. \A k \in kept : \E i \in 1..n : f[i] = k
  BY <1>2, <1>3 DEF Range
<1>7. ASSUME NEW o PROVE o \in Range(new) <=> \E k \in kept : o = ops[k]
  <2>1. o \in Range(new) <=> \E i \in 1..n : o = new[i]
    BY <1>4 DEF Range
  <2>2. ASSUME NEW i \in 1..n, o = new[i] PROVE \E k \in kept : o = ops[k]
    BY <1>3, <1>4, <2>2, Zenon
  <2>3. ASSUME NEW k \in kept, o = ops[k] PROVE \E i \in 1..n : o = new[i]
    BY <1>4, <1>6, <2>3
  <2> QED
    BY <2>1, <2>2, <2>3
<1> QED
  BY <1>5, <1>7 DEF new

-----------------------------------------------------------------------------
(* The same operation, perhaps with another request of its kind. *)
Kin(o, p) == o.id = p.id /\ o.output = p.output /\ o.request.kind = p.request.kind

(* Between two drafts, no operation that stays refers to an output that is lost. *)
Keeps(old, new) ==
    \A o \in Range(new.operations) : o.request.node \notin Created(old) \ Created(new)

(* An edit keeps or drops operations, or adds a single fresh one. *)
Reworks(s, draft) ==
    /\ allocated' = allocated
    /\ \A o \in Range(draft.operations) : \E p \in Range(sess[s].draft.operations) :
         Kin(o, p) /\ (o.request.node = p.request.node \/ o.request.node \in Known(allocated))
    /\ Keeps(sess[s].draft, draft)

Extends(s, draft, fresh) ==
    /\ allocated' = allocated + 1 /\ allocated < scope.allocated
    /\ fresh.id = allocated + 1 /\ fresh.request.node \in Known(allocated + 1)
    /\ fresh.output = IF fresh.request.kind = "Create" THEN fresh.id ELSE NoNode
    /\ Range(draft.operations) = Range(sess[s].draft.operations) \union {fresh}

EditOf(s, draft) ==
    /\ draft \in Draft /\ Commit(s, draft)
    /\ Reworks(s, draft) \/ \E fresh \in Operation : Extends(s, draft, fresh)

LEMMA DraftOperations ==
    ASSUME NEW draft \in Draft
    PROVE  /\ draft.operations \in Seq(Operation) /\ DOMAIN draft.operations = 1..Len(draft.operations)
           /\ Range(draft.operations) \subseteq Operation
           /\ \A ops \in Seq(Operation) : /\ WithOperations(draft, ops) \in Draft
                                         /\ WithOperations(draft, ops).operations = ops
<1>1. draft.operations \in Seq(Operation)
  BY DEF Draft
<1>2. \A ops \in Seq(Operation) : /\ WithOperations(draft, ops) \in Draft
                                 /\ WithOperations(draft, ops).operations = ops
  BY DEF Draft, WithOperations
<1> QED
  BY <1>1, <1>2, Elements, LenProperties

LEMMA KnownNodes ==
    ASSUME TypeInv, NEW n \in Nat
    PROVE  Known(n) \subseteq Nat
<1>1. scope.baselines \subseteq Baselines
  BY SessionAssumption DEF TypeInv
<1> QED
  BY <1>1, SessionAssumption DEF Known, NoNode

(* Where no output is lost, none is missed. *)
LEMMA KeepsAll ==
    ASSUME NEW old, NEW new,
           \A p \in Range(old.operations) : \E o \in Range(new.operations) : o.output = p.output
    PROVE  Keeps(old, new)
  BY DEF Keeps, Created

LEMMA AddIsEdit ==
    ASSUME TypeInv, NEW s \in Sessions, Add(s)
    PROVE  \E draft : EditOf(s, draft)
<1> DEFINE old == sess[s].draft
<1>1. /\ old \in Draft /\ allocated + 1 \in Nat
      /\ allocated' = allocated + 1 /\ allocated < scope.allocated
  BY OpenIsSession DEF Add, TypeInv, Session
<1>2. PICK request \in Requests :
          /\ request.node \in Known(allocated + 1)
          /\ Commit(s, WithOperations(old, Append(old.operations, NewOperation(allocated + 1, request))))
  BY DEF Add
<1> DEFINE fresh == NewOperation(allocated + 1, request)
           draft == WithOperations(old, Append(old.operations, fresh))
<1>3. request \in [kind : Kind, node : Nat]
  <2>1. request.node \in Nat
    BY <1>1, <1>2, KnownNodes
  <2>2. request \in [kind : Kind, node : Nodes \union {NoNode}]
    BY DEF Requests, Kind
  <2> QED
    BY <2>1, <2>2
<1>4. fresh \in Operation /\ fresh.id = allocated + 1 /\ fresh.request = request
      /\ fresh.output = IF fresh.request.kind = "Create" THEN fresh.id ELSE NoNode
  BY <1>1, <1>3 DEF NewOperation, Operation, NoNode
<1> HIDE DEF fresh, old
<1>5. /\ Append(old.operations, fresh) \in Seq(Operation)
      /\ Range(Append(old.operations, fresh)) = Range(old.operations) \union {fresh}
  BY <1>1, <1>4, DraftOperations, Appended
<1>6. draft \in Draft /\ draft.operations = Append(old.operations, fresh)
  BY <1>1, <1>5, DraftOperations, Zenon
<1>7. Commit(s, draft)
  BY <1>2 DEF fresh
<1> HIDE DEF draft
<1>8. Extends(s, draft, fresh)
  BY <1>1, <1>2, <1>4, <1>5, <1>6 DEF Extends, old
<1> QED
  BY <1>4, <1>6, <1>7, <1>8 DEF EditOf

LEMMA ReplaceIsEdit ==
    ASSUME TypeInv, NEW s \in Sessions, Replace(s)
    PROVE  \E draft : EditOf(s, draft)
<1> DEFINE old == sess[s].draft
           ops == old.operations
<1>1. old \in Draft /\ allocated \in Nat /\ allocated' = allocated
  BY OpenIsSession DEF Replace, TypeInv, Session
<1>2. PICK i \in DOMAIN ops, request \in Requests :
          /\ request.node \in Known(allocated)
          /\ request.kind = ops[i].request.kind
          /\ Commit(s, WithOperations(old, [ops EXCEPT ![i].request = request]))
  BY Zenon DEF Replace
<1> DEFINE new == [ops EXCEPT ![i].request = request]
           draft == WithOperations(old, new)
<1>3. ops \in Seq(Operation) /\ i \in 1..Len(ops) /\ DOMAIN ops = 1..Len(ops)
  BY <1>1, <1>2, DraftOperations, Zenon
<1>4. request \in [kind : Kind, node : Nat]
  <2>1. request.node \in Nat
    BY <1>1, <1>2, KnownNodes
  <2>2. request \in [kind : Kind, node : Nodes \union {NoNode}]
    BY DEF Requests, Kind
  <2> QED
    BY <2>1, <2>2
<1>5. ops[i] \in Operation
  BY <1>3
<1> DEFINE e == [ops[i] EXCEPT !.request = request]
<1>6. e \in Operation /\ e.request = request /\ Kin(e, ops[i])
  BY <1>2, <1>4, <1>5, Zenon DEF Operation, Kin
<1>7. new = [ops EXCEPT ![i] = e]
  OBVIOUS
<1> HIDE DEF e, new, ops
<1>8. /\ new \in Seq(Operation) /\ Len(new) = Len(ops) /\ new[i] = e
      /\ \A j \in 1..Len(ops) : j # i => new[j] = ops[j]
  BY <1>3, <1>6, <1>7
<1>9. ASSUME NEW o \in Range(new)
      PROVE  \E p \in Range(ops) :
               Kin(o, p) /\ (o.request.node = p.request.node \/ o.request.node \in Known(allocated))
  <2>1. PICK j \in 1..Len(new) : o = new[j]
    BY <1>8, Elements
  <2>2. ops[j] \in Range(ops)
    BY <1>3, <1>8, <2>1, Elements
  <2>3. CASE j = i
    BY <1>2, <1>6, <1>8, <2>1, <2>2, <2>3
  <2>4. CASE j # i
    BY <1>8, <2>1, <2>2, <2>4 DEF Kin
  <2> QED
    BY <2>3, <2>4
<1>10. ASSUME NEW p \in Range(ops) PROVE \E o \in Range(new) : o.output = p.output
  <2>1. PICK j \in 1..Len(ops) : p = ops[j]
    BY <1>3, Elements
  <2>2. new[j] \in Range(new)
    BY <1>8, <2>1, Elements
  <2>3. new[j].output = p.output
    BY <1>6, <1>8, <2>1 DEF Kin
  <2> QED
    BY <2>2, <2>3
<1>11. draft \in Draft /\ draft.operations = new
  BY <1>1, <1>8, DraftOperations
<1>12. Commit(s, draft)
  BY <1>2 DEF new, ops
<1> HIDE DEF draft
<1>13. Reworks(s, draft)
  <2>1. Keeps(old, draft)
    BY <1>10, <1>11, KeepsAll DEF ops
  <2> QED
    BY <1>1, <1>9, <1>11, <2>1 DEF Reworks, ops
<1> QED
  BY <1>11, <1>12, <1>13 DEF EditOf

(* The same operations, in whatever order, are an edit. *)
LEMMA SameIsEdit ==
    ASSUME TypeInv, NEW s \in Sessions, NEW draft \in Draft, Commit(s, draft), allocated' = allocated,
           Range(draft.operations) = Range(sess[s].draft.operations)
    PROVE  EditOf(s, draft)
<1>1. Keeps(sess[s].draft, draft)
  BY KeepsAll
<1>2. Reworks(s, draft)
  BY <1>1 DEF Reworks, Kin
<1> QED
  BY <1>2 DEF EditOf

LEMMA MoveIsEdit ==
    ASSUME TypeInv, NEW s \in Sessions, MoveBefore(s)
    PROVE  \E draft : EditOf(s, draft)
<1> DEFINE old == sess[s].draft
           ops == old.operations
<1>1. old \in Draft /\ allocated' = allocated
  BY OpenIsSession DEF MoveBefore, Session
<1>2. PICK i \in DOMAIN ops, target \in DOMAIN ops :
          Commit(s, WithOperations(old, InsertAt(RemoveAt(ops, i), target, ops[i])))
  BY DEF MoveBefore
<1> DEFINE new == InsertAt(RemoveAt(ops, i), target, ops[i])
           draft == WithOperations(old, new)
<1>3. Commit(s, draft)
  BY <1>2
<1>4. ops \in Seq(Operation) /\ i \in 1..Len(ops) /\ target \in 1..Len(ops)
  BY <1>1, <1>2, DraftOperations, Zenon
<1> HIDE DEF old, ops
<1>5. new \in Seq(Operation) /\ Range(new) = Range(ops)
  BY <1>4, Moved
<1> HIDE DEF new
<1>6. draft \in Draft /\ Range(draft.operations) = Range(ops)
  BY <1>1, <1>5, DraftOperations
<1> HIDE DEF draft
<1> QED
  BY <1>1, <1>3, <1>6, SameIsEdit DEF ops, old

LEMMA ProtectionIsEdit ==
    ASSUME TypeInv, NEW s \in Sessions, SetProtection(s)
    PROVE  \E draft : EditOf(s, draft)
<1> DEFINE old == sess[s].draft
<1>1. old \in Draft /\ allocated' = allocated /\ sess[s].baseline \in Baselines
  BY OpenIsSession DEF SetProtection, Session
<1>2. PICK protected \in SUBSET (Graph[sess[s].baseline] \union Created(old)) :
          Commit(s, [old EXCEPT !.protected = protected])
  BY DEF SetProtection
<1>3. protected \subseteq Nat
  <2>1. Graph[sess[s].baseline] \subseteq Nat
    BY <1>1, SessionAssumption
  <2>2. Created(old) \subseteq Nat
    <3>1. \A o \in Range(old.operations) : o.output \in Nat
      BY <1>1, DraftOperations, Zenon DEF Operation
    <3> QED
      BY <3>1 DEF Created
  <2> QED
    BY <2>1, <2>2
<1>4. /\ [old EXCEPT !.protected = protected] \in Draft
      /\ [old EXCEPT !.protected = protected].operations = old.operations
  BY <1>1, <1>3 DEF Draft
<1> QED
  BY <1>1, <1>2, <1>4, SameIsEdit, Zenon

LEMMA ClearIsEdit ==
    ASSUME TypeInv, NEW s \in Sessions, Clear(s)
    PROVE  \E draft : EditOf(s, draft)
<1> DEFINE draft == WithOperations(sess[s].draft, << >>)
<1>1. sess[s].draft \in Draft /\ allocated' = allocated /\ Commit(s, draft)
  BY OpenIsSession DEF Clear, Session
<1> DEFINE none == << >>
<1>2. none \in Seq(Operation) /\ Len(none) = 0
  BY EmptySeq
<1> HIDE DEF none
<1>3. \A o : o \notin Range(none)
  <2>1. \A o : o \in Range(none) <=> \E i \in 1..Len(none) : o = none[i]
    BY <1>2, Elements, Zenon
  <2> QED
    BY <1>2, <2>1
<1>4. draft \in Draft /\ draft.operations = none
  BY <1>1, <1>2, DraftOperations, Zenon DEF none
<1> HIDE DEF draft
<1> QED
  BY <1>1, <1>3, <1>4 DEF EditOf, Reworks, Keeps

(* remove_operations: a selection that contains its impact is closed under dependence. *)
LEMMA Removal ==
    ASSUME NEW old \in Draft, NEW selected \in SUBSET OperationIds(old),
           Impact(old, selected) \subseteq selected,
           NEW new, \A o : o \in Range(new.operations) <=>
                              o \in Range(old.operations) /\ o.id \notin selected
    PROVE  Keeps(old, new)
<1>1. Dependents(old, selected) \subseteq selected
  <2>1. ASSUME NEW affected, selected \subseteq affected
        PROVE  Dependents(old, selected) \subseteq Dependents(old, affected)
    BY <2>1 DEF Dependents
  <2>2. Dependents(old, selected) \subseteq OperationIds(old)
    BY DEF Dependents, OperationIds
  <2>3. Dependents(old, selected) \subseteq Impact(old, selected)
    BY <2>1, <2>2 DEF Impact
  <2> QED
    BY <2>3
<1>2. SUFFICES ASSUME NEW o \in Range(new.operations), NEW p \in Range(old.operations),
                      p.output # NoNode, o.request.node = p.output, p.output \notin Created(new)
               PROVE  FALSE
  BY DEF Keeps, Created
<1>3. p \notin Range(new.operations)
  BY <1>2 DEF Created
<1>4. p.id \in selected /\ o \in Range(old.operations) /\ o.id \notin selected
  BY <1>2, <1>3
<1>5. o.id \in Dependents(old, selected)
  BY <1>2, <1>4 DEF Dependents
<1> QED
  BY <1>1, <1>4, <1>5

LEMMA RemoveIsEdit ==
    ASSUME TypeInv, NEW s \in Sessions, RemoveOperations(s)
    PROVE  \E draft : EditOf(s, draft)
<1> DEFINE old == sess[s].draft
           ops == old.operations
<1>1. old \in Draft /\ allocated' = allocated
  BY OpenIsSession DEF RemoveOperations, Session
<1>2. PICK selected \in SUBSET OperationIds(old) :
          /\ Impact(old, selected) \subseteq selected
          /\ \E f \in Ascending({i \in DOMAIN ops : ops[i].id \notin selected}) :
               Commit(s, WithOperations(old, [i \in DOMAIN f |-> ops[f[i]]]))
  BY Zenon DEF RemoveOperations
<1> HIDE DEF old, ops
<1> DEFINE kept == {i \in DOMAIN ops : ops[i].id \notin selected}
<1>3. PICK f \in Ascending(kept) : Commit(s, WithOperations(old, [i \in DOMAIN f |-> ops[f[i]]]))
  BY <1>2, Zenon
<1> DEFINE new == [i \in DOMAIN f |-> ops[f[i]]]
           draft == WithOperations(old, new)
<1>4. /\ ops \in Seq(Operation) /\ kept \subseteq 1..Len(ops)
      /\ \A i : i \in kept <=> i \in 1..Len(ops) /\ ops[i].id \notin selected
  BY <1>1, DraftOperations DEF ops
<1> HIDE DEF kept
<1>5. new \in Seq(Operation) /\ \A o : o \in Range(new) <=> \E i \in kept : o = ops[i]
  BY <1>4, Retained
<1>6. Commit(s, draft)
  BY <1>3
<1> HIDE DEF new
<1>7. draft \in Draft /\ draft.operations = new
  BY <1>1, <1>5, DraftOperations
<1> HIDE DEF draft
<1>8. \A o : o \in Range(ops) <=> \E i \in 1..Len(ops) : o = ops[i]
  BY <1>4, Elements
<1>9. \A o : o \in Range(draft.operations) <=> o \in Range(ops) /\ o.id \notin selected
  BY <1>4, <1>5, <1>7, <1>8
<1>10. Keeps(old, draft)
  BY <1>1, <1>2, <1>9, Removal DEF ops
<1>11. Reworks(s, draft)
  BY <1>1, <1>9, <1>10 DEF Reworks, Kin, old, ops
<1> QED
  BY <1>6, <1>7, <1>11 DEF EditOf

LEMMA EditStep ==
    ASSUME TypeInv, NEW s \in Sessions,
           \/ Add(s) \/ Replace(s) \/ RemoveOperations(s)
           \/ MoveBefore(s) \/ SetProtection(s) \/ Clear(s)
    PROVE  \E draft : EditOf(s, draft)
  BY AddIsEdit, ReplaceIsEdit, RemoveIsEdit, MoveIsEdit, ProtectionIsEdit, ClearIsEdit

-----------------------------------------------------------------------------
(* The node that a node of the old baseline, or a planned output, becomes in the new one. *)
Translated(b, draft, c, n, m) ==
    \/ n = m /\ n \in Created(draft) \union {NoNode}
    \/ <<b, n, c, m>> \in Correlated /\ m \in Graph[c]

LEMMA RemapShape ==
    ASSUME NEW b \in Baselines, NEW c \in Baselines, NEW draft \in Draft, CanRemap(b, draft, c),
           NEW new, new = Remap(b, draft, c)
    PROVE  /\ new \in Draft
           /\ Len(new.operations) = Len(draft.operations)
           /\ \A i \in 1..Len(draft.operations) :
                /\ Kin(new.operations[i], draft.operations[i])
                /\ Translated(b, draft, c, draft.operations[i].request.node,
                              new.operations[i].request.node)
           /\ \A n \in draft.protected : \E m \in new.protected : Translated(b, draft, c, n, m)
<1> DEFINE at(n) == IF n \in Inputs(draft)
                    THEN CHOOSE m \in Graph[c] : <<b, n, c, m>> \in Correlated ELSE n
           ops == draft.operations
<1>1. ASSUME NEW n \in {o.request.node : o \in Range(ops)} \union draft.protected
      PROVE  Translated(b, draft, c, n, at(n))
  <2>1. CASE n \in Inputs(draft)
    <3>1. \E m \in Graph[c] : <<b, n, c, m>> \in Correlated
      BY <2>1 DEF CanRemap
    <3> QED
      BY <2>1, <3>1 DEF Translated
  <2>2. CASE n \notin Inputs(draft)
    BY <1>1, <2>2 DEF Translated, Inputs
  <2> QED
    BY <2>1, <2>2
<1>2. ASSUME NEW n, NEW m, Translated(b, draft, c, n, m), n \in Nat PROVE m \in Nat
  BY <1>2, SessionAssumption DEF Translated
<1>3. ops \in Seq(Operation) /\ DOMAIN ops = 1..Len(ops) /\ Len(ops) \in Nat
      /\ draft.protected \subseteq Nat
  BY DraftOperations, LenProperties DEF Draft
<1>4. new = [operations |-> [i \in DOMAIN ops |-> [ops[i] EXCEPT !.request.node = at(ops[i].request.node)]],
             protected |-> {at(n) : n \in draft.protected}]
  BY DEF Remap
<1> DEFINE moved(i) == [ops[i] EXCEPT !.request.node = at(ops[i].request.node)]
<1>5. ASSUME NEW i \in 1..Len(ops)
      PROVE  /\ moved(i) \in Operation /\ Kin(moved(i), ops[i])
             /\ Translated(b, draft, c, ops[i].request.node, moved(i).request.node)
  <2>1. ops[i] \in Range(ops) /\ ops[i] \in Operation
    BY <1>3, Elements
  <2>2. Translated(b, draft, c, ops[i].request.node, at(ops[i].request.node))
    BY <1>1, <2>1, Zenon
  <2>3. at(ops[i].request.node) \in Nat
    BY <1>2, <2>1, <2>2, Zenon DEF Operation
  <2> DEFINE m == at(ops[i].request.node)
             o == ops[i]
  <2> HIDE DEF at, m, o
  <2>4. /\ [o EXCEPT !.request.node = m] \in Operation
        /\ Kin([o EXCEPT !.request.node = m], o)
        /\ [o EXCEPT !.request.node = m].request.node = m
    BY <2>1, <2>3, Zenon DEF Operation, Kin, m, o
  <2> QED
    BY <2>2, <2>4 DEF m, o
<1> HIDE DEF at, moved, ops
<1>6. new.operations = [i \in 1..Len(ops) |-> moved(i)] /\ new.protected = {at(n) : n \in draft.protected}
  BY <1>3, <1>4 DEF moved
<1>7. new.operations \in Seq(Operation) /\ Len(new.operations) = Len(ops)
      /\ \A i \in 1..Len(ops) : new.operations[i] = moved(i)
  <2>1. new.operations \in [1..Len(ops) -> Operation]
    BY <1>5, <1>6
  <2> QED
    BY <1>3, <1>6, <2>1, SeqDef, LenProperties
<1>8. new \in Draft
  <2>1. \A n \in draft.protected : at(n) \in Nat
    BY <1>1, <1>2, <1>3
  <2> QED
    BY <1>4, <1>6, <1>7, <2>1 DEF Draft
<1>9. \A n \in draft.protected : \E m \in new.protected : Translated(b, draft, c, n, m)
  BY <1>1, <1>6
<1> QED
  BY <1>5, <1>7, <1>8, <1>9 DEF ops

-----------------------------------------------------------------------------
(* What the other steps make of a session. *)

LEMMA OpenShape ==
    ASSUME TypeInv, NEW s \in Sessions, NEW document \in DraftDocument, OpenSession(s, document)
    PROVE  \E r \in Session :
              /\ Becomes(s, r)
              /\ r.draft = document.draft /\ r.undo = << >> /\ r.redo = << >>
<1> DEFINE r == SessionOf(document)
<1>1. Build(document.baseline, document.draft) \in Preview
  BY BuildType DEF DraftDocument
<1>2. r \in Session /\ r.draft = document.draft /\ r.undo = << >> /\ r.redo = << >>
  BY <1>1, SessionAssumption DEF SessionOf, Session, DraftDocument
<1> HIDE DEF r
<1>3. Becomes(s, r)
  BY <1>2, Change, Zenon DEF OpenSession, r
<1> QED
  BY <1>2, <1>3

LEMMA NewDocument ==
    ASSUME TypeInv, NEW s \in Sessions, New(s)
    PROVE  \E document \in DraftDocument : document.draft = Empty /\ OpenSession(s, document)
<1>1. PICK b \in scope.baselines :
          OpenSession(s, [id |-> s, revision |-> 0, baseline |-> b, draft |-> Empty])
  BY DEF New
<1>2. b \in Baselines
  BY SessionAssumption DEF TypeInv
<1>3. Empty \in Draft
  BY EmptySeq DEF Empty, Draft
<1>4. [id |-> s, revision |-> 0, baseline |-> b, draft |-> Empty] \in DraftDocument
  BY <1>2, <1>3 DEF DraftDocument
<1> QED
  BY <1>1, <1>4

LEMMA DocumentType ==
    ASSUME TypeInv, NEW s \in Sessions, Open(s)
    PROVE  /\ Document(s) \in DraftDocument
           /\ Document(s).draft = sess[s].draft /\ Document(s).baseline = sess[s].baseline
           /\ Document(s).revision = sess[s].revision
<1>1. sess[s] \in Session
  BY OpenIsSession
<1> QED
  BY <1>1 DEF Document, DraftDocument, Session

LEMMA LimitShape ==
    ASSUME TypeInv, NEW s \in Sessions, SetHistoryLimit(s)
    PROVE  \E r \in Session, limit \in Nat :
              /\ Becomes(s, r)
              /\ r.id = sess[s].id /\ r.revision = sess[s].revision
              /\ r.baseline = sess[s].baseline /\ r.draft = sess[s].draft /\ r.limit = limit
              /\ r.undo = Newest(sess[s].undo, limit) /\ r.redo = Newest(sess[s].redo, limit)
<1>1. sess[s] \in Session
  BY OpenIsSession DEF SetHistoryLimit
<1>2. PICK limit \in scope.limits :
          sess' = [sess EXCEPT ![s] = [sess[s] EXCEPT !.limit = limit,
                                           !.undo = Newest(sess[s].undo, limit),
                                           !.redo = Newest(sess[s].redo, limit)]]
  BY Zenon DEF SetHistoryLimit
<1>3. limit \in Nat
  BY SessionAssumption DEF TypeInv
<1> DEFINE undo == Newest(sess[s].undo, limit)
           redo == Newest(sess[s].redo, limit)
<1>4. undo \in Seq(Draft) /\ redo \in Seq(Draft)
  BY <1>1, <1>3, NewestType, Zenon DEF Session
<1> HIDE DEF undo, redo
<1> DEFINE r == [sess[s] EXCEPT !.limit = limit, !.undo = undo, !.redo = redo]
<1>5. /\ r \in Session
      /\ r.id = sess[s].id /\ r.revision = sess[s].revision
      /\ r.baseline = sess[s].baseline /\ r.draft = sess[s].draft /\ r.limit = limit
      /\ r.undo = undo /\ r.redo = redo
  BY <1>1, <1>3, <1>4, Zenon DEF Session
<1>6. sess' = [sess EXCEPT ![s] = r]
  BY <1>2 DEF undo, redo
<1> HIDE DEF r
<1>7. Becomes(s, r)
  BY <1>5, <1>6, Change, Zenon
<1> QED
  BY <1>3, <1>5, <1>7 DEF undo, redo

LEMMA AcceptShape ==
    ASSUME TypeInv, NEW s \in Sessions, AcceptRebase(s)
    PROVE  /\ sess[s] \in Session /\ review \in RebasePreview /\ review.source = Document(s)
           /\ \E r \in Session :
                /\ Becomes(s, r)
                /\ r.id = sess[s].id /\ r.revision = sess[s].revision + 1
                /\ r.baseline = review.baseline /\ r.draft = review.draft
                /\ r.undo = << >> /\ r.redo = << >>
<1>1. sess[s] \in Session /\ review \in RebasePreview /\ review.source = Document(s)
  BY OpenIsSession DEF AcceptRebase, AcceptMatches, TypeInv
<1> DEFINE next == sess[s].revision + 1
           none == << >>
           r == [sess[s] EXCEPT !.revision = next, !.baseline = review.baseline,
                                !.draft = review.draft, !.preview = review.preview,
                                !.undo = none, !.redo = none]
<1>2. next \in Nat /\ none \in Seq(Draft)
  BY <1>1, EmptySeq DEF Session
<1>3. review.baseline \in Baselines /\ review.draft \in Draft /\ review.preview \in Preview
  BY <1>1 DEF RebasePreview
<1>4. sess' = [sess EXCEPT ![s] = r]
  BY DEF AcceptRebase
<1> HIDE DEF next, none
<1>5. /\ r \in Session
      /\ r.id = sess[s].id /\ r.revision = next
      /\ r.baseline = review.baseline /\ r.draft = review.draft /\ r.undo = none /\ r.redo = none
  BY <1>1, <1>2, <1>3, Zenon DEF Session
<1> HIDE DEF r
<1>6. Becomes(s, r)
  BY <1>4, <1>5, Change, Zenon
<1> QED
  BY <1>1, <1>5, <1>6 DEF next, none

-----------------------------------------------------------------------------
(* push_history and set_history_limit keep the newest entries. *)

(* The last entries of history, and behind them draft. *)
Pushed(history, draft, limit, new) ==
    /\ new \in Seq(Draft) /\ Len(new) <= limit /\ Len(new) <= Len(history) + 1
    /\ Len(new) > 0 => new[Len(new)] = draft
    /\ \A j \in 1..(Len(new) - 1) : /\ Len(history) - Len(new) + 1 + j \in 1..Len(history)
                                   /\ new[j] = history[Len(history) - Len(new) + 1 + j]

LEMMA PushShape ==
    ASSUME NEW history \in Seq(Draft), NEW draft \in Draft, NEW limit \in Nat, Len(history) <= limit,
           NEW new, new = Push(history, draft, limit)
    PROVE  Pushed(history, draft, limit, new)
<1> USE DEF Pushed
<1> DEFINE n == Len(history)
<1>1. n \in Nat
  OBVIOUS
<1>2. CASE limit = 0
  <2>1. new = history /\ Len(new) = 0
    BY <1>1, <1>2 DEF Push
  <2>2. \A j \in 1..(Len(new) - 1) : FALSE
    BY <2>1
  <2> QED
    BY <1>1, <1>2, <2>1, <2>2
<1>3. CASE limit # 0 /\ n < limit
  <2>1. new = Append(history, draft)
    BY <1>1, <1>3 DEF Push
  <2>2. /\ new \in Seq(Draft) /\ Len(new) = n + 1 /\ new[n + 1] = draft
        /\ \A j \in 1..n : new[j] = history[j]
    BY <2>1
  <2> HIDE DEF n
  <2>3. \A j \in 1..(Len(new) - 1) : n - Len(new) + 1 + j = j /\ j \in 1..n
    BY <1>1, <2>2
  <2>4. \A j \in 1..(Len(new) - 1) : n - Len(new) + 1 + j \in 1..n
                                     /\ new[j] = history[n - Len(new) + 1 + j]
    BY <2>2, <2>3
  <2>5. Len(new) <= limit /\ Len(new) <= n + 1 /\ new[Len(new)] = draft
    BY <1>1, <1>3, <2>2
  <2> QED
    BY <2>2, <2>4, <2>5 DEF n
<1>4. CASE limit # 0 /\ n = limit
  <2>1. new = Append(Tail(history), draft) /\ history # << >>
    BY <1>1, <1>4 DEF Push
  <2>2. /\ Tail(history) \in Seq(Draft) /\ Len(Tail(history)) = n - 1
        /\ \A j \in 1..(n - 1) : Tail(history)[j] = history[j + 1]
    BY <2>1, HeadTailProperties
  <2> DEFINE rest == Tail(history)
  <2> HIDE DEF rest
  <2>3. /\ new \in Seq(Draft) /\ Len(new) = Len(rest) + 1 /\ new[Len(rest) + 1] = draft
        /\ \A j \in 1..Len(rest) : new[j] = rest[j]
    BY <2>1, <2>2 DEF rest
  <2> HIDE DEF n
  <2>4. Len(rest) = n - 1 /\ Len(new) = n /\ n >= 1
    BY <1>1, <1>4, <2>2, <2>3 DEF rest
  <2>5. \A j \in 1..(Len(new) - 1) : n - Len(new) + 1 + j = j + 1 /\ j + 1 \in 1..n /\ j \in 1..Len(rest)
    BY <1>1, <2>4
  <2>6. \A j \in 1..(Len(new) - 1) : n - Len(new) + 1 + j \in 1..n
                                     /\ new[j] = history[n - Len(new) + 1 + j]
    BY <2>2, <2>3, <2>4, <2>5 DEF rest
  <2>7. Len(new) <= limit /\ Len(new) <= n + 1 /\ new[Len(new)] = draft
    BY <1>1, <1>4, <2>3, <2>4
  <2> QED
    BY <2>3, <2>6, <2>7 DEF n
<1> QED
  BY <1>1, <1>2, <1>3, <1>4

(* The last entries of history. *)
Kept(history, limit, new) ==
    /\ new \in Seq(Draft) /\ Len(new) <= limit /\ Len(new) <= Len(history)
    /\ \A j \in 1..Len(new) : /\ Len(history) - Len(new) + j \in 1..Len(history)
                             /\ new[j] = history[Len(history) - Len(new) + j]

LEMMA NewestShape ==
    ASSUME NEW history \in Seq(Draft), NEW limit \in Nat, NEW new, new = Newest(history, limit)
    PROVE  Kept(history, limit, new)
<1> USE DEF Kept
<1> DEFINE n == Len(history)
<1>1. n \in Nat
  OBVIOUS
<1>2. CASE n > limit
  <2> DEFINE m == n - limit + 1
  <2>1. new = SubSeq(history, m, n) /\ m \in Nat /\ m >= 1 /\ n - m + 1 = limit
    BY <1>1, <1>2 DEF Newest
  <2>2. \A i \in m..n : history[i] \in Draft
    BY <1>1, <2>1
  <2> HIDE DEF n, m
  <2>3. /\ new \in Seq(Draft)
        /\ Len(new) = IF m <= n THEN n - m + 1 ELSE 0
        /\ \A i \in 1..(n - m + 1) : new[i] = history[m + i - 1]
    BY <1>1, <2>1, <2>2, SubSeqProperties
  <2>4. Len(new) = limit
    BY <1>1, <2>1, <2>3
  <2>5. \A j \in 1..Len(new) : /\ n - Len(new) + j = m + j - 1 /\ n - Len(new) + j \in 1..n
                              /\ j \in 1..(n - m + 1)
    BY <1>1, <1>2, <2>1, <2>4
  <2>6. \A j \in 1..Len(new) : new[j] = history[n - Len(new) + j]
    BY <2>3, <2>5
  <2> QED
    BY <1>1, <1>2, <2>3, <2>4, <2>5, <2>6 DEF n
<1>3. CASE ~(n > limit)
  <2>1. new = history
    BY <1>3 DEF Newest
  <2>2. \A j \in 1..n : n - n + j = j
    BY <1>1
  <2> QED
    BY <1>1, <1>3, <2>1, <2>2
<1> QED
  BY <1>2, <1>3

-----------------------------------------------------------------------------
(* Drafts l since the last rebase or branch, of which the p-th is the current one. *)
Track(draft, undo, redo, l, p) ==
    /\ p \in 1..Len(l) /\ l[p] = draft
    /\ Len(undo) < p /\ Len(redo) <= Len(l) - p
    /\ \A i \in 1..Len(undo) : undo[i] = l[p - Len(undo) + i - 1]
    /\ \A i \in 1..Len(redo) : redo[i] = l[p + Len(redo) - i + 1]

LEMMA TrackStart ==
    ASSUME NEW draft \in Draft, NEW none \in Seq(Draft), Len(none) = 0, NEW l, l = <<draft>>
    PROVE  l \in Seq(Draft) /\ Track(draft, none, none, l, 1)
<1>1. l \in Seq(Draft) /\ Len(l) = 1 /\ l[1] = draft
  OBVIOUS
<1> QED
  BY <1>1 DEF Track

(* edit: what was ahead is forgotten, the new draft is the end of the line. *)
LEMMA TrackEdit ==
    ASSUME NEW draft \in Draft, NEW undo \in Seq(Draft), NEW redo \in Seq(Draft),
           NEW l \in Seq(Draft), NEW p \in Nat, Track(draft, undo, redo, l, p),
           NEW limit \in Nat, Len(undo) <= limit,
           NEW new \in Draft, NEW none \in Seq(Draft), Len(none) = 0,
           NEW m, m = Append(SubSeq(l, 1, p), new),
           NEW past, past = Push(undo, draft, limit)
    PROVE  m \in Seq(Draft) /\ Len(past) <= limit /\ Track(new, past, none, m, p + 1)
<1>1. /\ p \in 1..Len(l) /\ l[p] = draft /\ Len(undo) < p
      /\ \A i \in 1..Len(undo) : undo[i] = l[p - Len(undo) + i - 1]
  BY DEF Track
<1>2. /\ past \in Seq(Draft) /\ Len(past) <= limit /\ Len(past) <= Len(undo) + 1
      /\ Len(past) > 0 => past[Len(past)] = draft
      /\ \A j \in 1..(Len(past) - 1) : /\ Len(undo) - Len(past) + 1 + j \in 1..Len(undo)
                                      /\ past[j] = undo[Len(undo) - Len(past) + 1 + j]
  <2>1. Pushed(undo, draft, limit, past)
    BY PushShape
  <2> QED
    BY <2>1, Zenon DEF Pushed
<1>3. SubSeq(l, 1, p) \in Seq(Draft) /\ Len(SubSeq(l, 1, p)) = p
      /\ \A i \in 1..p : SubSeq(l, 1, p)[i] = l[i]
  BY <1>1, SubSeqProperties
<1>4. m \in Seq(Draft) /\ Len(m) = p + 1 /\ m[p + 1] = new /\ \A i \in 1..p : m[i] = l[i]
  BY <1>3
<1>5. Len(undo) \in Nat /\ Len(past) \in Nat
  BY <1>2
<1>6. ASSUME NEW j \in 1..Len(past) PROVE past[j] = m[(p + 1) - Len(past) + j - 1]
  <2> DEFINE k == p - Len(past) + j
  <2>1. k \in 1..p /\ (p + 1) - Len(past) + j - 1 = k
    BY <1>1, <1>2, <1>5
  <2>2. CASE j = Len(past)
    <3>1. k = p /\ past[j] = draft
      BY <1>1, <1>2, <1>5, <2>2
    <3> QED
      BY <1>1, <1>4, <2>1, <3>1, Zenon
  <2>3. CASE j # Len(past)
    <3> DEFINE i == Len(undo) - Len(past) + 1 + j
    <3>1. j \in 1..(Len(past) - 1)
      BY <1>5, <2>3
    <3>2. i \in 1..Len(undo) /\ past[j] = undo[i]
      BY <1>2, <3>1, Zenon
    <3>3. p - Len(undo) + i - 1 = k
      BY <1>1, <1>5
    <3> HIDE DEF i
    <3>4. undo[i] = l[p - Len(undo) + i - 1]
      BY <1>1, <3>2
    <3> QED
      BY <1>4, <2>1, <3>2, <3>3, <3>4, Zenon
  <2> QED
    BY <2>2, <2>3, Zenon
<1>7. /\ p + 1 \in 1..Len(m) /\ Len(past) < p + 1 /\ Len(none) <= Len(m) - (p + 1)
      /\ \A i \in 1..Len(none) : FALSE
  BY <1>1, <1>2, <1>4, <1>5
<1> QED
  BY <1>2, <1>4, <1>6, <1>7, Zenon DEF Track

LEMMA TrackUndo ==
    ASSUME NEW draft \in Draft, NEW undo \in Seq(Draft), NEW redo \in Seq(Draft),
           NEW l \in Seq(Draft), NEW p \in Nat, Track(draft, undo, redo, l, p),
           NEW limit \in Nat, Len(redo) <= limit, undo # << >>,
           NEW ahead, ahead = Push(redo, draft, limit)
    PROVE  /\ Len(ahead) <= limit /\ Len(Front(undo)) <= Len(undo)
           /\ Track(Last(undo), Front(undo), ahead, l, p - 1)
<1>1. /\ p \in 1..Len(l) /\ l[p] = draft /\ Len(undo) < p /\ Len(redo) <= Len(l) - p
      /\ \A i \in 1..Len(undo) : undo[i] = l[p - Len(undo) + i - 1]
      /\ \A i \in 1..Len(redo) : redo[i] = l[p + Len(redo) - i + 1]
  BY Zenon DEF Track
<1>2. /\ ahead \in Seq(Draft) /\ Len(ahead) <= limit /\ Len(ahead) <= Len(redo) + 1
      /\ Len(ahead) > 0 => ahead[Len(ahead)] = draft
      /\ \A j \in 1..(Len(ahead) - 1) : /\ Len(redo) - Len(ahead) + 1 + j \in 1..Len(redo)
                                       /\ ahead[j] = redo[Len(redo) - Len(ahead) + 1 + j]
  <2>1. Pushed(redo, draft, limit, ahead)
    BY PushShape
  <2> QED
    BY <2>1, Zenon DEF Pushed
<1> DEFINE n == Len(undo)
           back == Front(undo)
<1>3. /\ n \in Nat /\ n >= 1 /\ Last(undo) = undo[n]
      /\ back \in Seq(Draft) /\ Len(back) = n - 1 /\ \A i \in 1..(n - 1) : back[i] = undo[i]
  BY LastAndFront
<1>4. Len(redo) \in Nat /\ Len(ahead) \in Nat /\ Len(l) \in Nat
  BY <1>2
<1> HIDE DEF n, back
<1>5. n < p /\ \A i \in 1..n : undo[i] = l[p - n + i - 1]
  BY <1>1 DEF n
<1>6. Last(undo) = l[p - 1]
  <2>1. n \in 1..n /\ p - n + n - 1 = p - 1
    BY <1>1, <1>3
  <2> QED
    BY <1>3, <1>5, <2>1
<1>7. ASSUME NEW i \in 1..Len(back) PROVE back[i] = l[(p - 1) - Len(back) + i - 1]
  <2>1. i \in 1..n /\ i \in 1..(n - 1) /\ (p - 1) - Len(back) + i - 1 = p - n + i - 1
    BY <1>1, <1>3
  <2> QED
    BY <1>3, <1>5, <2>1
<1>8. ASSUME NEW j \in 1..Len(ahead) PROVE ahead[j] = l[(p - 1) + Len(ahead) - j + 1]
  <2>1. CASE j = Len(ahead)
    <3>1. ahead[j] = draft /\ (p - 1) + Len(ahead) - j + 1 = p
      BY <1>1, <1>2, <1>4, <2>1
    <3> QED
      BY <1>1, <3>1, Zenon
  <2>2. CASE j # Len(ahead)
    <3> DEFINE i == Len(redo) - Len(ahead) + 1 + j
    <3>1. j \in 1..(Len(ahead) - 1)
      BY <1>4, <2>2
    <3>2. i \in 1..Len(redo) /\ ahead[j] = redo[i]
      BY <1>2, <3>1, Zenon
    <3>3. p + Len(redo) - i + 1 = (p - 1) + Len(ahead) - j + 1
      BY <1>1, <1>4
    <3> HIDE DEF i
    <3>4. redo[i] = l[p + Len(redo) - i + 1]
      BY <1>1, <3>2
    <3> QED
      BY <3>2, <3>3, <3>4
  <2> QED
    BY <2>1, <2>2
<1>9. p - 1 \in 1..Len(l) /\ Len(back) < p - 1 /\ Len(ahead) <= Len(l) - (p - 1) /\ Len(back) <= n
  <2>1. /\ p \in 1..Len(l) /\ Len(redo) <= Len(l) - p /\ Len(ahead) <= Len(redo) + 1
        /\ n < p /\ n >= 1 /\ Len(back) = n - 1 /\ n \in Nat
    BY <1>1, <1>2, <1>3, <1>5
  <2> QED
    BY <1>4, <2>1
<1>10. Track(Last(undo), back, ahead, l, p - 1)
  BY <1>6, <1>7, <1>8, <1>9 DEF Track
<1> QED
  BY <1>2, <1>9, <1>10 DEF back, n

LEMMA TrackRedo ==
    ASSUME NEW draft \in Draft, NEW undo \in Seq(Draft), NEW redo \in Seq(Draft),
           NEW l \in Seq(Draft), NEW p \in Nat, Track(draft, undo, redo, l, p),
           NEW limit \in Nat, Len(undo) <= limit, redo # << >>,
           NEW past, past = Push(undo, draft, limit)
    PROVE  /\ Len(past) <= limit /\ Len(Front(redo)) <= Len(redo)
           /\ Track(Last(redo), past, Front(redo), l, p + 1)
<1>1. /\ p \in 1..Len(l) /\ l[p] = draft /\ Len(undo) < p /\ Len(redo) <= Len(l) - p
      /\ \A i \in 1..Len(undo) : undo[i] = l[p - Len(undo) + i - 1]
      /\ \A i \in 1..Len(redo) : redo[i] = l[p + Len(redo) - i + 1]
  BY Zenon DEF Track
<1>2. /\ past \in Seq(Draft) /\ Len(past) <= limit /\ Len(past) <= Len(undo) + 1
      /\ Len(past) > 0 => past[Len(past)] = draft
      /\ \A j \in 1..(Len(past) - 1) : /\ Len(undo) - Len(past) + 1 + j \in 1..Len(undo)
                                      /\ past[j] = undo[Len(undo) - Len(past) + 1 + j]
  <2>1. Pushed(undo, draft, limit, past)
    BY PushShape
  <2> QED
    BY <2>1, Zenon DEF Pushed
<1> DEFINE n == Len(redo)
           ahead == Front(redo)
<1>3. /\ n \in Nat /\ n >= 1 /\ Last(redo) = redo[n]
      /\ ahead \in Seq(Draft) /\ Len(ahead) = n - 1 /\ \A i \in 1..(n - 1) : ahead[i] = redo[i]
  BY LastAndFront
<1>4. Len(undo) \in Nat /\ Len(past) \in Nat /\ Len(l) \in Nat
  BY <1>2
<1> HIDE DEF n, ahead
<1>5. n <= Len(l) - p /\ \A i \in 1..n : redo[i] = l[p + n - i + 1]
  BY <1>1 DEF n
<1>6. Last(redo) = l[p + 1]
  <2>1. n \in 1..n /\ p + n - n + 1 = p + 1
    BY <1>1, <1>3
  <2> QED
    BY <1>3, <1>5, <2>1
<1>7. ASSUME NEW i \in 1..Len(ahead) PROVE ahead[i] = l[(p + 1) + Len(ahead) - i + 1]
  <2>1. i \in 1..n /\ i \in 1..(n - 1) /\ (p + 1) + Len(ahead) - i + 1 = p + n - i + 1
    BY <1>1, <1>3
  <2> QED
    BY <1>3, <1>5, <2>1
<1>8. ASSUME NEW j \in 1..Len(past) PROVE past[j] = l[(p + 1) - Len(past) + j - 1]
  <2>1. CASE j = Len(past)
    <3>1. past[j] = draft /\ (p + 1) - Len(past) + j - 1 = p
      BY <1>1, <1>2, <1>4, <2>1
    <3> QED
      BY <1>1, <3>1, Zenon
  <2>2. CASE j # Len(past)
    <3> DEFINE i == Len(undo) - Len(past) + 1 + j
    <3>1. j \in 1..(Len(past) - 1)
      BY <1>4, <2>2
    <3>2. i \in 1..Len(undo) /\ past[j] = undo[i]
      BY <1>2, <3>1, Zenon
    <3>3. p - Len(undo) + i - 1 = (p + 1) - Len(past) + j - 1
      BY <1>1, <1>4
    <3> HIDE DEF i
    <3>4. undo[i] = l[p - Len(undo) + i - 1]
      BY <1>1, <3>2
    <3> QED
      BY <3>2, <3>3, <3>4
  <2> QED
    BY <2>1, <2>2
<1>9. p + 1 \in 1..Len(l) /\ Len(past) < p + 1 /\ Len(ahead) <= Len(l) - (p + 1) /\ Len(ahead) <= n
  <2>1. /\ p \in 1..Len(l) /\ Len(undo) < p /\ Len(past) <= Len(undo) + 1
        /\ n <= Len(l) - p /\ n >= 1 /\ Len(ahead) = n - 1 /\ n \in Nat
    BY <1>1, <1>2, <1>3, <1>5, Zenon
  <2> QED
    BY <1>4, <2>1
<1>10. Track(Last(redo), past, ahead, l, p + 1)
  BY <1>6, <1>7, <1>8, <1>9, Zenon DEF Track
<1> QED
  BY <1>2, <1>9, <1>10 DEF ahead, n

(* set_history_limit: what is left of each history is next to the current draft. *)
LEMMA TrackNewest ==
    ASSUME NEW draft \in Draft, NEW undo \in Seq(Draft), NEW redo \in Seq(Draft),
           NEW l \in Seq(Draft), NEW p \in Nat, Track(draft, undo, redo, l, p), NEW limit \in Nat,
           NEW past, past = Newest(undo, limit), NEW ahead, ahead = Newest(redo, limit)
    PROVE  Len(past) <= limit /\ Len(ahead) <= limit /\ Track(draft, past, ahead, l, p)
<1>1. /\ p \in 1..Len(l) /\ l[p] = draft /\ Len(undo) < p /\ Len(redo) <= Len(l) - p
      /\ \A i \in 1..Len(undo) : undo[i] = l[p - Len(undo) + i - 1]
      /\ \A i \in 1..Len(redo) : redo[i] = l[p + Len(redo) - i + 1]
  BY Zenon DEF Track
<1>2. /\ past \in Seq(Draft) /\ Len(past) <= limit /\ Len(past) <= Len(undo)
      /\ \A j \in 1..Len(past) : /\ Len(undo) - Len(past) + j \in 1..Len(undo)
                                /\ past[j] = undo[Len(undo) - Len(past) + j]
  <2>1. Kept(undo, limit, past)
    BY NewestShape
  <2> QED
    BY <2>1 DEF Kept
<1>3. /\ ahead \in Seq(Draft) /\ Len(ahead) <= limit /\ Len(ahead) <= Len(redo)
      /\ \A j \in 1..Len(ahead) : /\ Len(redo) - Len(ahead) + j \in 1..Len(redo)
                                 /\ ahead[j] = redo[Len(redo) - Len(ahead) + j]
  <2>1. Kept(redo, limit, ahead)
    BY NewestShape
  <2> QED
    BY <2>1 DEF Kept
<1>4. Len(undo) \in Nat /\ Len(past) \in Nat /\ Len(redo) \in Nat /\ Len(ahead) \in Nat /\ Len(l) \in Nat
  BY <1>2, <1>3
<1>5. ASSUME NEW j \in 1..Len(past) PROVE past[j] = l[p - Len(past) + j - 1]
  <2> DEFINE i == Len(undo) - Len(past) + j
  <2>1. i \in 1..Len(undo) /\ past[j] = undo[i]
    BY <1>2, Zenon
  <2>2. p - Len(undo) + i - 1 = p - Len(past) + j - 1
    BY <1>1, <1>4
  <2> HIDE DEF i
  <2>3. undo[i] = l[p - Len(undo) + i - 1]
    BY <1>1, <2>1
  <2> QED
    BY <2>1, <2>2, <2>3, Zenon
<1>6. ASSUME NEW j \in 1..Len(ahead) PROVE ahead[j] = l[p + Len(ahead) - j + 1]
  <2> DEFINE i == Len(redo) - Len(ahead) + j
  <2>1. i \in 1..Len(redo) /\ ahead[j] = redo[i]
    BY <1>3, Zenon
  <2>2. p + Len(redo) - i + 1 = p + Len(ahead) - j + 1
    BY <1>1, <1>4
  <2> HIDE DEF i
  <2>3. redo[i] = l[p + Len(redo) - i + 1]
    BY <1>1, <2>1
  <2> QED
    BY <2>1, <2>2, <2>3, Zenon
<1>7. Len(past) < p /\ Len(ahead) <= Len(l) - p
  <2>1. p \in Nat /\ Len(undo) < p /\ Len(past) <= Len(undo) /\ Len(redo) <= Len(l) - p
        /\ Len(ahead) <= Len(redo)
    BY <1>1, <1>2, <1>3, Zenon
  <2> QED
    BY <1>4, <2>1
<1> QED
  BY <1>1, <1>2, <1>3, <1>5, <1>6, <1>7, Zenon DEF Track

-----------------------------------------------------------------------------
(***************************************************************************)
(* The inductive invariant of the history.  The stacks are never longer    *)
(* than the limit: push_history leaves a stack as it is when the limit is  *)
(* zero, which is right only because the stack is empty then.              *)
(***************************************************************************)
HistoryInv ==
    \A s \in Sessions : Open(s) =>
        /\ Len(sess[s].undo) <= sess[s].limit /\ Len(sess[s].redo) <= sess[s].limit
        /\ Track(sess[s].draft, sess[s].undo, sess[s].redo, line[s], pos[s])

(* The session s is r, on the line l at the place p; the others are as before. *)
Moves(s, r, l, p) ==
    /\ Becomes(s, r)
    /\ l \in Seq(Draft) /\ line' = [line EXCEPT ![s] = l]
    /\ p \in Nat /\ pos' = [pos EXCEPT ![s] = p]
    /\ scope' = scope
    /\ Len(r.undo) <= r.limit /\ Len(r.redo) <= r.limit
    /\ Track(r.draft, r.undo, r.redo, l, p)

LEMMA MoveStep ==
    ASSUME TypeInv, HistoryInv, NEW s \in Sessions, NEW r, NEW l, NEW p, Moves(s, r, l, p),
           allocated' \in Nat, saved' = saved, review' = review
    PROVE  TypeInv' /\ HistoryInv'
<1>1. TypeInv'
  <2>1. line' \in [Sessions -> Seq(Draft)] /\ pos' \in [Sessions -> Nat]
    BY DEF Moves, TypeInv
  <2>2. sess' \in [Sessions -> Session \union {Closed}] /\ scope' = scope
    BY DEF Moves, Becomes
  <2> QED
    BY <2>1, <2>2 DEF TypeInv
<1>2. ASSUME NEW t \in Sessions, Open(t)'
      PROVE  /\ Len(sess'[t].undo) <= sess'[t].limit /\ Len(sess'[t].redo) <= sess'[t].limit
             /\ Track(sess'[t].draft, sess'[t].undo, sess'[t].redo, line'[t], pos'[t])
  <2>1. CASE t = s
    <3>1. sess'[t] = r /\ line'[t] = l /\ pos'[t] = p
      BY <2>1 DEF Moves, Becomes, TypeInv
    <3> QED
      BY <3>1, Zenon DEF Moves
  <2>2. CASE t # s
    <3>1. sess'[t] = sess[t] /\ line'[t] = line[t] /\ pos'[t] = pos[t]
      BY <2>2 DEF Moves, Becomes, TypeInv
    <3>2. Open(t)
      BY <1>2, <3>1 DEF Open
    <3> QED
      BY <3>1, <3>2, Zenon DEF HistoryInv
  <2> QED
    BY <2>1, <2>2, Zenon
<1> QED
  BY <1>1, <1>2, Zenon DEF HistoryInv

LEMMA OpenMoves ==
    ASSUME TypeInv, NEW s \in Sessions, NEW document \in DraftDocument, OpenSession(s, document)
    PROVE  \E r, l : Moves(s, r, l, 1) /\ r.draft = document.draft /\ l = <<document.draft>>
<1>1. PICK r \in Session :
          Becomes(s, r) /\ r.draft = document.draft /\ r.undo = << >> /\ r.redo = << >>
  BY OpenShape
<1> DEFINE none == << >>
           l == <<document.draft>>
<1>2. none \in Seq(Draft) /\ Len(none) = 0 /\ document.draft \in Draft /\ r.limit \in Nat
  BY EmptySeq DEF DraftDocument, Session
<1>3. l \in Seq(Draft) /\ Track(document.draft, none, none, l, 1)
  <2> HIDE DEF none
  <2> QED
    BY <1>2, TrackStart, Zenon
<1>4. line' = [line EXCEPT ![s] = l] /\ pos' = [pos EXCEPT ![s] = 1] /\ scope' = scope
  BY DEF OpenSession
<1>5. r.undo = none /\ r.redo = none
  BY <1>1
<1> HIDE DEF none, l
<1>6. Moves(s, r, l, 1)
  <2>1. 0 <= r.limit /\ 1 \in Nat
    BY <1>2
  <2> QED
    BY <1>1, <1>2, <1>3, <1>4, <1>5, <2>1, Zenon DEF Moves
<1> QED
  BY <1>1, <1>6, Zenon DEF l

LEMMA AcceptMoves ==
    ASSUME TypeInv, NEW s \in Sessions, AcceptRebase(s)
    PROVE  \E r, l : Moves(s, r, l, 1) /\ l = <<review.draft>>
<1>1. PICK r \in Session : Becomes(s, r) /\ r.draft = review.draft /\ r.undo = << >> /\ r.redo = << >>
  BY AcceptShape
<1> DEFINE none == << >>
           l == <<review.draft>>
<1>2. none \in Seq(Draft) /\ Len(none) = 0 /\ review.draft \in Draft /\ r.limit \in Nat
  BY EmptySeq, AcceptShape, Zenon DEF RebasePreview, Session
<1>3. l \in Seq(Draft) /\ Track(review.draft, none, none, l, 1)
  <2> HIDE DEF none
  <2> QED
    BY <1>2, TrackStart, Zenon
<1>4. line' = [line EXCEPT ![s] = l] /\ pos' = [pos EXCEPT ![s] = 1] /\ scope' = scope
  BY DEF AcceptRebase
<1>5. r.undo = none /\ r.redo = none
  BY <1>1
<1> HIDE DEF none, l
<1>6. Moves(s, r, l, 1)
  <2>1. 0 <= r.limit /\ 1 \in Nat
    BY <1>2
  <2> QED
    BY <1>1, <1>2, <1>3, <1>4, <1>5, <2>1, Zenon DEF Moves
<1> QED
  BY <1>6 DEF l

LEMMA CommitMoves ==
    ASSUME TypeInv, HistoryInv, NEW s \in Sessions, Open(s), NEW draft \in Draft, Commit(s, draft)
    PROVE  \E r, l : /\ Moves(s, r, l, pos[s] + 1) /\ r.draft = draft
                     /\ l = Append(SubSeq(line[s], 1, pos[s]), draft)
<1> DEFINE past == Push(sess[s].undo, sess[s].draft, sess[s].limit)
           none == << >>
           l == Append(SubSeq(line[s], 1, pos[s]), draft)
<1>1. PICK r \in Session :
          Becomes(s, r) /\ r.limit = sess[s].limit /\ r.draft = draft /\ r.undo = past /\ r.redo = none
  BY CommitShape, Zenon DEF Advances
<1>2. none \in Seq(Draft) /\ Len(none) = 0
  BY EmptySeq
<1>3. /\ sess[s].draft \in Draft /\ sess[s].undo \in Seq(Draft) /\ sess[s].redo \in Seq(Draft)
      /\ sess[s].limit \in Nat /\ line[s] \in Seq(Draft) /\ pos[s] \in Nat
  BY OpenIsSession, Zenon DEF Session, TypeInv
<1>4. /\ Len(sess[s].undo) <= sess[s].limit
      /\ Track(sess[s].draft, sess[s].undo, sess[s].redo, line[s], pos[s])
  BY Zenon DEF HistoryInv
<1>5. l \in Seq(Draft) /\ Len(past) <= sess[s].limit /\ Track(draft, past, none, l, pos[s] + 1)
  <2> HIDE DEF none
  <2> QED
    BY <1>2, <1>3, <1>4, TrackEdit, Zenon
<1>6. line' = [line EXCEPT ![s] = l] /\ pos' = [pos EXCEPT ![s] = pos[s] + 1] /\ scope' = scope
  BY DEF Commit
<1> HIDE DEF none, l, past
<1>7. Moves(s, r, l, pos[s] + 1)
  <2>1. 0 <= r.limit /\ pos[s] + 1 \in Nat
    BY <1>1, <1>3
  <2> QED
    BY <1>1, <1>2, <1>5, <1>6, <2>1, Zenon DEF Moves
<1> QED
  BY <1>1, <1>7, Zenon DEF l

LEMMA UndoMoves ==
    ASSUME TypeInv, HistoryInv, NEW s \in Sessions, Undo(s)
    PROVE  \E r : Moves(s, r, line[s], pos[s] - 1)
<1> DEFINE old == sess[s]
           ahead == Push(old.redo, old.draft, old.limit)
<1>1. PICK r \in Session :
          /\ Becomes(s, r) /\ r.limit = old.limit
          /\ r.draft = Last(old.undo) /\ r.undo = Front(old.undo) /\ r.redo = ahead
  BY UndoShape, Zenon DEF Advances
<1>2. /\ old.draft \in Draft /\ old.undo \in Seq(Draft) /\ old.redo \in Seq(Draft)
      /\ old.limit \in Nat /\ line[s] \in Seq(Draft) /\ pos[s] \in Nat /\ old.undo # << >> /\ Open(s)
  BY OpenIsSession, Zenon DEF Session, TypeInv, Undo
<1>3. /\ Len(old.undo) <= old.limit /\ Len(old.redo) <= old.limit
      /\ Track(old.draft, old.undo, old.redo, line[s], pos[s])
  BY <1>2, Zenon DEF HistoryInv
<1> HIDE DEF old
<1>4. /\ Len(ahead) <= old.limit /\ Len(Front(old.undo)) <= Len(old.undo)
      /\ Track(Last(old.undo), Front(old.undo), ahead, line[s], pos[s] - 1)
  BY <1>2, <1>3, TrackUndo, Zenon
<1>5. line' = [line EXCEPT ![s] = line[s]] /\ pos' = [pos EXCEPT ![s] = pos[s] - 1] /\ scope' = scope
  BY Zenon DEF Undo, TypeInv
<1> HIDE DEF ahead
<1>6. pos[s] - 1 \in Nat /\ Len(Front(old.undo)) <= old.limit
  <2>1. pos[s] - 1 \in 1..Len(line[s])
    BY <1>4, Zenon DEF Track
  <2>2. Len(Front(old.undo)) \in Nat /\ Len(old.undo) \in Nat
    BY <1>2, LastAndFront
  <2> QED
    BY <1>2, <1>3, <1>4, <2>1, <2>2
<1> QED
  BY <1>1, <1>2, <1>4, <1>5, <1>6, Zenon DEF Moves

LEMMA RedoMoves ==
    ASSUME TypeInv, HistoryInv, NEW s \in Sessions, Redo(s)
    PROVE  \E r : Moves(s, r, line[s], pos[s] + 1)
<1> DEFINE old == sess[s]
           past == Push(old.undo, old.draft, old.limit)
<1>1. PICK r \in Session :
          /\ Becomes(s, r) /\ r.limit = old.limit
          /\ r.draft = Last(old.redo) /\ r.undo = past /\ r.redo = Front(old.redo)
  BY RedoShape, Zenon DEF Advances
<1>2. /\ old.draft \in Draft /\ old.undo \in Seq(Draft) /\ old.redo \in Seq(Draft)
      /\ old.limit \in Nat /\ line[s] \in Seq(Draft) /\ pos[s] \in Nat /\ old.redo # << >> /\ Open(s)
  BY OpenIsSession, Zenon DEF Session, TypeInv, Redo
<1>3. /\ Len(old.undo) <= old.limit /\ Len(old.redo) <= old.limit
      /\ Track(old.draft, old.undo, old.redo, line[s], pos[s])
  BY <1>2, Zenon DEF HistoryInv
<1> HIDE DEF old
<1>4. /\ Len(past) <= old.limit /\ Len(Front(old.redo)) <= Len(old.redo)
      /\ Track(Last(old.redo), past, Front(old.redo), line[s], pos[s] + 1)
  BY <1>2, <1>3, TrackRedo, Zenon
<1>5. line' = [line EXCEPT ![s] = line[s]] /\ pos' = [pos EXCEPT ![s] = pos[s] + 1] /\ scope' = scope
  BY Zenon DEF Redo, TypeInv
<1> HIDE DEF past
<1>6. pos[s] + 1 \in Nat /\ Len(Front(old.redo)) <= old.limit
  <2>1. Len(Front(old.redo)) \in Nat /\ Len(old.redo) \in Nat
    BY <1>2, LastAndFront
  <2> QED
    BY <1>2, <1>3, <1>4, <2>1
<1> QED
  BY <1>1, <1>2, <1>4, <1>5, <1>6, Zenon DEF Moves

LEMMA LimitMoves ==
    ASSUME TypeInv, HistoryInv, NEW s \in Sessions, SetHistoryLimit(s)
    PROVE  \E r : Moves(s, r, line[s], pos[s])
<1> DEFINE old == sess[s]
<1>1. PICK r \in Session, limit \in Nat :
          /\ Becomes(s, r) /\ r.limit = limit /\ r.draft = old.draft
          /\ r.undo = Newest(old.undo, limit) /\ r.redo = Newest(old.redo, limit)
  BY LimitShape, Zenon
<1>2. /\ old.draft \in Draft /\ old.undo \in Seq(Draft) /\ old.redo \in Seq(Draft)
      /\ line[s] \in Seq(Draft) /\ pos[s] \in Nat /\ Open(s)
  BY OpenIsSession, Zenon DEF Session, TypeInv, SetHistoryLimit
<1>3. Track(old.draft, old.undo, old.redo, line[s], pos[s])
  BY <1>2, Zenon DEF HistoryInv
<1> HIDE DEF old
<1>4. Len(r.undo) <= limit /\ Len(r.redo) <= limit /\ Track(old.draft, r.undo, r.redo, line[s], pos[s])
  <2>1. \A past, ahead : past = Newest(old.undo, limit) /\ ahead = Newest(old.redo, limit)
           => Len(past) <= limit /\ Len(ahead) <= limit /\ Track(old.draft, past, ahead, line[s], pos[s])
    BY <1>2, <1>3, TrackNewest, Zenon
  <2> QED
    BY <1>1, <2>1, Zenon
<1>5. line' = [line EXCEPT ![s] = line[s]] /\ pos' = [pos EXCEPT ![s] = pos[s]] /\ scope' = scope
  BY DEF SetHistoryLimit, TypeInv
<1> QED
  BY <1>1, <1>2, <1>4, <1>5, Zenon DEF Moves

LEMMA ReviewShape ==
    ASSUME TypeInv, NEW s \in Sessions, PrepareRebase(s)
    PROVE  /\ Open(s) /\ UNCHANGED <<scope, sess, saved, allocated, line, pos>>
           /\ \E c \in scope.baselines :
                /\ c \in Baselines /\ Observable(c) /\ CanRemap(sess[s].baseline, sess[s].draft, c)
                /\ review' \in RebasePreview /\ review'.source = Document(s) /\ review'.baseline = c
                /\ review'.draft = Remap(sess[s].baseline, sess[s].draft, c)
<1> DEFINE b == sess[s].baseline
           old == sess[s].draft
<1>1. PICK c \in scope.baselines :
          /\ Observable(c) /\ CanRemap(b, old, c)
          /\ review' = [source |-> Document(s), baseline |-> c, draft |-> Remap(b, old, c),
                        preview |-> Build(c, Remap(b, old, c))]
  BY Zenon DEF PrepareRebase
<1>2. c \in Baselines
  BY SessionAssumption DEF TypeInv
<1>3. Open(s) /\ b \in Baselines /\ old \in Draft /\ Document(s) \in DraftDocument
  BY OpenIsSession, DocumentType, Zenon DEF PrepareRebase, Session
<1> HIDE DEF b, old
<1> DEFINE new == Remap(b, old, c)
<1>4. new \in Draft
  BY <1>1, <1>2, <1>3, RemapShape, Zenon
<1> HIDE DEF new
<1>5. Build(c, new) \in Preview
  BY <1>2, <1>4, BuildType, Zenon
<1>6. review' = [source |-> Document(s), baseline |-> c, draft |-> new, preview |-> Build(c, new)]
  BY <1>1, Zenon DEF new
<1>7. review' \in RebasePreview /\ review'.source = Document(s) /\ review'.baseline = c
      /\ review'.draft = new
  BY <1>2, <1>3, <1>4, <1>5, <1>6, Zenon DEF RebasePreview
<1> QED
  BY <1>1, <1>2, <1>3, <1>7, Zenon DEF PrepareRebase, new, b, old

(* What a step does, by the operation that takes it. *)
Opens(s, document) ==
    /\ document \in DraftDocument /\ OpenSession(s, document)
    /\ document.draft = Empty \/ (saved # Nothing /\ document = saved)

Edits(s, draft) == Open(s) /\ EditOf(s, draft)

LEMMA StepCases ==
    ASSUME TypeInv, Next
    PROVE  \E s \in Sessions :
              \/ \E document : Opens(s, document)
              \/ \E draft : Edits(s, draft)
              \/ Save(s) \/ SetHistoryLimit(s) \/ Undo(s) \/ Redo(s)
              \/ PrepareRebase(s) \/ AcceptRebase(s)
<1>1. PICK s \in Sessions :
        \/ New(s) \/ Save(s) \/ Load(s) \/ SetHistoryLimit(s)
        \/ Add(s) \/ Replace(s) \/ RemoveOperations(s) \/ MoveBefore(s) \/ SetProtection(s) \/ Clear(s)
        \/ Undo(s) \/ Redo(s) \/ PrepareRebase(s) \/ AcceptRebase(s)
  BY Zenon DEF Next
<1>2. CASE New(s)
  BY <1>2, NewDocument DEF Opens
<1>3. CASE Load(s)
  BY <1>3, Absent DEF Load, Opens, TypeInv
<1>4. CASE \/ Add(s) \/ Replace(s) \/ RemoveOperations(s)
           \/ MoveBefore(s) \/ SetProtection(s) \/ Clear(s)
  <2>1. \E draft : EditOf(s, draft)
    BY <1>4, EditStep
  <2>2. Open(s)
    BY <1>4, Zenon DEF Add, Replace, RemoveOperations, MoveBefore, SetProtection, Clear
  <2> QED
    BY <2>1, <2>2 DEF Edits
<1> QED
  BY <1>1, <1>2, <1>3, <1>4, Zenon

=============================================================================

---------------------------- MODULE RegistryProofs ----------------------------
(***************************************************************************)
(* The contexts of disksgraph-ffi for any number of application threads,   *)
(* contexts and identities: the slots count the live contexts, no worker   *)
(* outlives the last reference to its context, and a job runs alone.       *)
(*                                                                         *)
(* The slots are decremented by a thread that sees itself to be the last   *)
(* one, and the worker is joined by another: that the two agree rests on   *)
(* who may refer to a context at which control point (RefInv, HeldInv).    *)
(* That a job runs alone rests on the mutex, which its sender releases     *)
(* while the job is queued, and on the retained job (MessageInv).          *)
(***************************************************************************)
EXTENDS Registry, FiniteSetTheorems, TLAPS

LockedLabels == {"Locked", "Waiting", "Replied", "Stopping", "Joining"}
KeeperLabels == {"Opening", "Closing", "Stopping", "Joining"}
Labels == {"Idle", "Opening", "TryLock", "Dropping", "Closing"} \union LockedLabels

Jobs == 1..(U64Max - 1)
Messages == {Call(t) : t \in Threads} \union {Apply(j) : j \in Jobs} \union {Stop, Nothing}
Contents == {<< >>} \union {<<m>> : m \in Messages}

TypeInv ==
    /\ slots \in Nat
    /\ nextContext \in 1..U64Max /\ nextJob \in 1..U64Max
    /\ contexts \subseteq Ids /\ handle \subseteq Ids
    /\ worker \in [Ids -> {"none", "init", "serving", "busy", "leaving", "gone"}]
    /\ owner \in [Ids -> Threads \union {None}]
    /\ channel \in [Ids -> Contents]
    /\ current \in [Ids -> Messages]
    /\ job \in [Ids -> Jobs \union {None}]
    /\ finished \subseteq Jobs
    /\ ref \in [Threads -> Ids \union {None}]
    /\ pc \in [Threads -> Labels]

(* A thread refers to a context exactly while it is inside a call, and alone while it opens it. *)
RefInv ==
    \A t \in Threads :
        /\ pc[t] = "Idle" <=> ref[t] = None
        /\ ref[t] < nextContext
        /\ pc[t] = "Opening" =>
             /\ ref[t] \notin contexts
             /\ \A u \in Threads : u # t => ref[u] # ref[t]

(* Identities that were not drawn are unused. *)
FreshInv ==
    \A i \in Ids : i >= nextContext => i \notin contexts /\ worker[i] = "none"

(* A worker that may run is in the lookup, or some thread will not drop it before its end. *)
HeldInv ==
    \A i \in Ids : worker[i] \notin {"none", "gone"} =>
        \/ i \in contexts
        \/ \E u \in Threads : ref[u] = i /\ pc[u] \in KeeperLabels

SlotInv == slots = Cardinality(Live)

(* The mutex of a context is held by the thread that is between lock and unlock. *)
OwnerInv ==
    /\ \A i \in Ids : owner[i] # None => pc[owner[i]] \in LockedLabels /\ ref[owner[i]] = i
    /\ \A t \in Threads : pc[t] \in LockedLabels => owner[ref[t]] = t

(* Job identities are drawn once, and a retained job is of one context. *)
JobInv ==
    /\ \A j \in finished : j < nextJob
    /\ \A i \in Ids : job[i] < nextJob
    /\ \A i, k \in Ids : job[i] = job[k] /\ job[i] # None => i = k

(* What a message in the channel or with the worker says of its sender and of the job. *)
MessagesOf(i) ==
    /\ \A t \in Threads : current[i] = Call(t) \/ channel[i] = <<Call(t)>> =>
         /\ ref[t] = i /\ pc[t] = "Waiting"
         /\ job[i] # None => job[i] \in finished
    /\ \A j \in Jobs : current[i] = Apply(j) \/ channel[i] = <<Apply(j)>> =>
         job[i] = j /\ j \notin finished
    /\ \A t \in Threads : current[i] = Call(t) => channel[i] = << >>
    /\ \A j \in Jobs : current[i] = Apply(j) => channel[i] # <<Apply(j)>>

MessageInv == \A i \in Ids : MessagesOf(i)

RInv ==
    TypeInv /\ RefInv /\ FreshInv /\ HeldInv /\ SlotInv /\ OwnerInv /\ JobInv /\ MessageInv

-----------------------------------------------------------------------------
(* A channel of capacity one holds at most one message. *)
LEMMA OneMessage ==
    ASSUME TypeInv, NEW i \in Ids, channel[i] # << >>
    PROVE  \E m \in Messages : channel[i] = <<m>> /\ Head(channel[i]) = m /\ Tail(channel[i]) = << >>
<1>1. PICK m \in Messages : channel[i] = <<m>>
    BY DEF TypeInv, Contents
<1>2. Head(<<m>>) = m /\ Tail(<<m>>) = << >>
    OBVIOUS
<1> QED
    BY <1>1, <1>2

(* A message is of exactly one kind, and names what it was made of. *)
LEMMA MessageKinds ==
    /\ \A t \in Threads, u \in Threads : Call(t) = Call(u) => t = u
    /\ \A j \in Jobs, k \in Jobs : Apply(j) = Apply(k) => j = k
    /\ \A t \in Threads, j \in Jobs : Call(t) # Apply(j)
    /\ \A t \in Threads : Call(t) \notin {Stop, Nothing} /\ Call(t).type = "Call" /\ Call(t).thread = t
    /\ \A j \in Jobs : Apply(j) \notin {Stop, Nothing} /\ Apply(j).type = "Apply" /\ Apply(j).job = j
    /\ \A m \in Messages : m.type = "Call" => \E t \in Threads : m = Call(t)
    /\ \A m \in Messages : m.type = "Apply" => \E j \in Jobs : m = Apply(j)
<1>1. \A t \in Threads : Call(t).type = "Call" /\ Call(t).thread = t
    BY DEF Call
<1>2. \A j \in Jobs : Apply(j).type = "Apply" /\ Apply(j).job = j
    BY DEF Apply
<1>3. Stop.type = "Stop" /\ Nothing.type = "Nothing"
    BY DEF Stop, Nothing
<1> QED
    BY <1>1, <1>2, <1>3 DEF Messages

(* The live contexts are finitely many, and those that threads refer to are among them. *)
LEMMA LiveFacts ==
    ASSUME TypeInv
    PROVE  /\ Live \subseteq Ids /\ IsFiniteSet(Live) /\ Cardinality(Live) \in Nat
           /\ \A t \in Threads : ref[t] # None => ref[t] \in Live /\ Cardinality(Live) > 0
<1>1. Live \subseteq Ids
    BY DEF Live, TypeInv
<1>2. IsFiniteSet(Ids)
    BY RegistryAssumption, FS_Interval DEF Ids
<1>3. IsFiniteSet(Live) /\ Cardinality(Live) \in Nat
    BY <1>1, <1>2, FS_Subset, FS_CardinalityType
<1>4. ASSUME NEW t \in Threads, ref[t] # None PROVE ref[t] \in Live
    BY <1>4 DEF Live
<1>5. Live # {} => Cardinality(Live) # 0
    BY <1>3, FS_EmptySet
<1> QED
    BY <1>1, <1>3, <1>4, <1>5

(* TypeInv is preserved. *)
LEMMA TypeStep == RInv /\ [Next]_vars => TypeInv'
<1>a. SUFFICES ASSUME RInv, [Next]_vars PROVE TypeInv'
    OBVIOUS
<1>0. TypeInv /\ RefInv /\ SlotInv
    BY <1>a DEF RInv
<1> USE RegistryAssumption DEF counters, objects, Goto, Labels, LockedLabels
<1>1. ASSUME NEW t \in Threads,
             OpenStart(t) \/ CallLookup(t) \/ CloseRemove(t) \/ Inside(t)
      PROVE  TypeInv'
  <2>1. pc[t] # "Idle" => ref[t] \in Ids
    BY <1>0 DEF RefInv, TypeInv
  <2>2. <<Stop>> \in Contents /\ <<Call(t)>> \in Contents
    BY DEF Messages, Contents
  <2>3. slots > 0 => slots - 1 \in Nat
    BY <1>0 DEF TypeInv
  <2>4. pc[t] # "Idle" => slots > 0
    BY <1>0, <2>1, LiveFacts DEF None, RefInv, SlotInv
  <2>5. CASE OpenStart(t)
    <3>1. nextContext \in Ids /\ nextContext + 1 \in 1..U64Max /\ slots + 1 \in Nat
      BY <1>0, <2>5 DEF OpenStart, Ids, TypeInv
    <3>2. /\ worker' \in [Ids -> {"none", "init", "serving", "busy", "leaving", "gone"}]
          /\ handle' \subseteq Ids /\ slots' \in Nat /\ nextContext' \in 1..U64Max
      BY <1>0, <2>5, <3>1, Zenon DEF OpenStart, TypeInv
    <3>3. ref' \in [Threads -> Ids \union {None}] /\ pc' \in [Threads -> Labels]
      BY <1>0, <2>5, <3>1 DEF OpenStart, TypeInv
    <3> QED
      BY <1>0, <2>5, <3>2, <3>3 DEF OpenStart, TypeInv
  <2>6. CASE CallLookup(t) \/ CloseRemove(t)
    BY <1>0, <2>6 DEF CallLookup, CloseRemove, TypeInv
  <2>7. CASE OpenReady(t) \/ OpenFails(t) \/ DropArc(t)
    BY <1>0, <2>1, <2>3, <2>4, <2>7 DEF OpenReady, OpenFails, DropArc, TypeInv
  <2>8. CASE CallTryLock(t) \/ CallAnswered(t) \/ CallReturns(t) \/ CloseLock(t) \/ CloseJoin(t)
    BY <1>0, <2>1, <2>8 DEF CallTryLock, CallAnswered, CallReturns, CloseLock, CloseJoin, Unlock,
         TypeInv
  <2>9. CASE JobClose(t)
    BY <1>0, <2>1, <2>9 DEF JobClose, Unlock, TypeInv
  <2>10. CASE CallForwarded(t) \/ CloseSend(t)
    BY <1>0, <2>1, <2>2, <2>10 DEF CallForwarded, CloseSend, TypeInv
  <2>11. CASE ApplyStart(t)
    <3>1. nextJob \in Jobs /\ nextJob + 1 \in 1..U64Max
      BY <1>0, <2>11 DEF ApplyStart, Jobs, TypeInv
    <3>2. <<Apply(nextJob)>> \in Contents
      BY <3>1 DEF Messages, Contents
    <3> QED
      BY <1>0, <2>1, <2>11, <3>1, <3>2 DEF ApplyStart, Unlock, TypeInv
  <2> QED
    BY <1>1, <2>5, <2>6, <2>7, <2>8, <2>9, <2>10, <2>11 DEF Inside
<1>2. ASSUME NEW i \in Ids, Work(i) PROVE TypeInv'
  <2>1. Nothing \in Messages /\ << >> \in Contents
    BY DEF Messages, Contents
  <2>2. CASE WorkerInit(i)
    BY <1>0, <2>2 DEF WorkerInit, TypeInv
  <2>3. CASE WorkerTake(i)
    <3>1. PICK m \in Messages : Head(channel[i]) = m /\ Tail(channel[i]) \in Contents
      BY <1>0, <2>3, OneMessage DEF WorkerTake, Contents
    <3> QED
      BY <1>0, <2>3, <3>1 DEF WorkerTake, TypeInv
  <2>4. CASE WorkerReplies(i)
    BY <1>0, <2>1, <2>4, Zenon DEF WorkerReplies, AfterRequest, TypeInv
  <2>5. CASE WorkerFinishes(i)
    <3>1. current[i].job \in Jobs
      BY <1>0, <2>5, MessageKinds DEF WorkerFinishes, TypeInv
    <3> QED
      BY <1>0, <2>1, <2>5, <3>1 DEF WorkerFinishes, AfterRequest, TypeInv
  <2>6. CASE WorkerLeaves(i)
    BY <1>0, <2>1, <2>6 DEF WorkerLeaves, TypeInv
  <2> QED
    BY <1>2, <2>2, <2>3, <2>4, <2>5, <2>6 DEF Work
<1>3. CASE UNCHANGED vars
    BY <1>0, <1>3 DEF vars, TypeInv
<1> QED
    BY <1>a, <1>1, <1>2, <1>3 DEF Next

-----------------------------------------------------------------------------
(* Only opening, looking up, removing and dropping change who refers to what. *)
LEMMA ReferenceStep ==
    ASSUME TypeInv, NEW t \in Threads, Inside(t) \/ (\E i \in Ids : Work(i))
    PROVE  \/ OpenReady(t) \/ OpenFails(t) \/ DropArc(t)
           \/ UNCHANGED <<contexts, ref, slots, nextContext>>
<1>1. CallTryLock(t) \/ CallAnswered(t) \/ JobClose(t) \/ ApplyStart(t) \/ CallForwarded(t)
        \/ CallReturns(t) => UNCHANGED <<contexts, ref, slots, nextContext>>
    BY DEF CallTryLock, CallAnswered, JobClose, ApplyStart, CallForwarded, CallReturns, counters,
           objects
<1>2. CloseLock(t) \/ CloseSend(t) \/ CloseJoin(t) => UNCHANGED <<contexts, ref, slots, nextContext>>
    BY DEF CloseLock, CloseSend, CloseJoin, counters, objects
<1>3. ASSUME NEW i \in Ids, Work(i) PROVE UNCHANGED <<contexts, ref, slots, nextContext>>
    BY <1>3, Zenon DEF Work, WorkerInit, WorkerTake, WorkerReplies, WorkerFinishes, WorkerLeaves, counters,
           objects
<1> QED
    BY <1>1, <1>2, <1>3 DEF Inside

(* RefInv: a context that is being opened has no other reference. *)
LEMMA RefStep == RInv /\ [Next]_vars => RefInv'
<1>a. SUFFICES ASSUME RInv, [Next]_vars PROVE RefInv'
    OBVIOUS
<1>0. TypeInv /\ RefInv /\ FreshInv /\ MessageInv
    BY <1>a DEF RInv
<1> USE RegistryAssumption DEF counters, objects, Goto, None, RefInv, TypeInv
<1>1. ASSUME NEW t \in Threads, OpenStart(t) PROVE RefInv'
  <2>1. /\ nextContext \in Ids /\ nextContext # 0 /\ nextContext \notin contexts
        /\ nextContext' = nextContext + 1 /\ contexts' = contexts
    BY <1>0, <1>1 DEF OpenStart, FreshInv, Ids
  <2>2. \A u \in Threads : ref[u] # nextContext /\ ref[u] < nextContext + 1
    BY <1>0, <2>1 DEF Ids
  <2>3. CASE UNCHANGED <<ref, pc>>
    BY <1>0, <2>1, <2>2, <2>3
  <2>4. CASE ref' = [ref EXCEPT ![t] = nextContext] /\ pc' = [pc EXCEPT ![t] = "Opening"]
    <3>1. nextContext < nextContext'
      BY <1>0, <2>1
    <3> QED
      BY <1>0, <2>1, <2>2, <2>4, <3>1
  <2> QED
    BY <1>1, <2>3, <2>4 DEF OpenStart
<1>2. ASSUME NEW t \in Threads, CallLookup(t) \/ CloseRemove(t) PROVE RefInv'
    BY <1>0, <1>2 DEF CallLookup, CloseRemove, FreshInv, Ids
<1>3. ASSUME NEW t \in Threads, OpenReady(t) \/ OpenFails(t) \/ DropArc(t) PROVE RefInv'
    BY <1>0, <1>3 DEF OpenReady, OpenFails, DropArc, Ids
<1>4. ASSUME NEW t \in Threads,
             CallTryLock(t) \/ CallAnswered(t) \/ JobClose(t) \/ ApplyStart(t) \/ CallForwarded(t)
               \/ CallReturns(t) \/ CloseLock(t) \/ CloseSend(t) \/ CloseJoin(t)
      PROVE  RefInv'
    BY <1>0, <1>4 DEF CallTryLock, CallAnswered, JobClose, ApplyStart, CallForwarded, CallReturns,
         CloseLock, CloseSend, CloseJoin, Unlock
<1>5. ASSUME NEW i \in Ids, Work(i) PROVE RefInv'
  <2>1. CASE WorkerInit(i) \/ WorkerTake(i) \/ WorkerFinishes(i)
    BY <1>0, <2>1 DEF WorkerInit, WorkerTake, WorkerFinishes
  <2>2. CASE WorkerReplies(i)
    <3>1. PICK t \in Threads : current[i] = Call(t) /\ current[i].thread = t
      BY <1>0, <2>2, MessageKinds DEF WorkerReplies
    <3>2. pc[t] = "Waiting"
      BY <1>0, <3>1 DEF MessageInv, MessagesOf
    <3> QED
      BY <1>0, <2>2, <3>1, <3>2 DEF WorkerReplies
  <2>3. CASE WorkerLeaves(i)
    BY <1>0, <2>3, Zenon DEF WorkerLeaves, MessageInv, MessagesOf
  <2> QED
    BY <1>5, <2>1, <2>2, <2>3, Zenon DEF Work
<1>6. CASE UNCHANGED vars
    BY <1>0, <1>6 DEF vars
<1> QED
    BY <1>a, <1>1, <1>2, <1>3, <1>4, <1>5, <1>6, Zenon DEF Next, Inside

(* FreshInv: an identity is used from the moment it is drawn. *)
LEMMA FreshStep == RInv /\ [Next]_vars => FreshInv'
<1>a. SUFFICES ASSUME RInv, [Next]_vars PROVE FreshInv'
    OBVIOUS
<1>0. TypeInv /\ RefInv /\ FreshInv
    BY <1>a DEF RInv
<1> USE RegistryAssumption DEF counters, objects, None, FreshInv, TypeInv
<1>1. ASSUME NEW t \in Threads, OpenStart(t) PROVE FreshInv'
    BY <1>0, <1>1 DEF OpenStart, Ids
<1>2. ASSUME NEW t \in Threads,
             CallLookup(t) \/ CloseRemove(t) \/ OpenReady(t) \/ OpenFails(t) \/ DropArc(t)
      PROVE  FreshInv'
    BY <1>0, <1>2 DEF CallLookup, CloseRemove, OpenReady, OpenFails, DropArc, RefInv, Ids
<1>3. ASSUME NEW t \in Threads,
             CallTryLock(t) \/ CallAnswered(t) \/ JobClose(t) \/ ApplyStart(t) \/ CallForwarded(t)
               \/ CallReturns(t) \/ CloseLock(t) \/ CloseSend(t) \/ CloseJoin(t)
      PROVE  FreshInv'
    BY <1>0, <1>3, Zenon DEF CallTryLock, CallAnswered, JobClose, ApplyStart, CallForwarded, CallReturns,
         CloseLock, CloseSend, CloseJoin
<1>4. ASSUME NEW i \in Ids, Work(i) PROVE FreshInv'
    BY <1>0, <1>4, Zenon DEF Work, WorkerInit, WorkerTake, WorkerReplies, WorkerFinishes, WorkerLeaves
<1>5. CASE UNCHANGED vars
    BY <1>0, <1>5 DEF vars
<1> QED
    BY <1>a, <1>1, <1>2, <1>3, <1>4, <1>5, Zenon DEF Next, Inside

(* HeldInv: close keeps its reference until it has joined the worker. *)
LEMMA HeldStep == RInv /\ [Next]_vars => HeldInv'
<1>a. SUFFICES ASSUME RInv, [Next]_vars PROVE HeldInv'
    OBVIOUS
<1>0. TypeInv /\ RefInv /\ HeldInv /\ MessageInv
    BY <1>a DEF RInv
<1> USE RegistryAssumption DEF counters, objects, Goto, None, HeldInv, KeeperLabels, TypeInv
<1>1. ASSUME NEW t \in Threads, OpenStart(t) PROVE HeldInv'
    BY <1>0, <1>1 DEF OpenStart, Ids, RefInv
<1>2. ASSUME NEW t \in Threads, CallLookup(t) \/ CloseRemove(t) PROVE HeldInv'
    BY <1>0, <1>2 DEF CallLookup, CloseRemove, RefInv
<1>3. ASSUME NEW t \in Threads, OpenReady(t) \/ OpenFails(t) \/ DropArc(t) PROVE HeldInv'
    BY <1>0, <1>3 DEF OpenReady, OpenFails, DropArc
<1>4. ASSUME NEW t \in Threads,
             CallTryLock(t) \/ CallAnswered(t) \/ JobClose(t) \/ ApplyStart(t) \/ CallForwarded(t)
               \/ CallReturns(t) \/ CloseLock(t) \/ CloseSend(t)
      PROVE  HeldInv'
    BY <1>0, <1>4 DEF CallTryLock, CallAnswered, JobClose, ApplyStart, CallForwarded, CallReturns,
         CloseLock, CloseSend, Unlock
<1>5. ASSUME NEW t \in Threads, CloseJoin(t) PROVE HeldInv'
    BY <1>0, <1>5 DEF CloseJoin, Unlock
<1>6. ASSUME NEW i \in Ids, Work(i) PROVE HeldInv'
  <2>1. CASE WorkerInit(i) \/ WorkerTake(i) \/ WorkerFinishes(i)
    BY <1>0, <2>1 DEF WorkerInit, WorkerTake, WorkerFinishes, AfterRequest
  <2>2. CASE WorkerReplies(i)
    <3>1. PICK t \in Threads : current[i] = Call(t) /\ current[i].thread = t
      BY <1>0, <2>2, MessageKinds DEF WorkerReplies
    <3>2. pc[t] = "Waiting"
      BY <1>0, <3>1 DEF MessageInv, MessagesOf
    <3> QED
      BY <1>0, <2>2, <3>1, <3>2 DEF WorkerReplies, AfterRequest
  <2>3. CASE WorkerLeaves(i)
    BY <1>0, <2>3 DEF WorkerLeaves, MessageInv, MessagesOf
  <2> QED
    BY <1>6, <2>1, <2>2, <2>3, Zenon DEF Work
<1>7. CASE UNCHANGED vars
    BY <1>0, <1>7 DEF vars
<1> QED
    BY <1>a, <1>1, <1>2, <1>3, <1>4, <1>5, <1>6, <1>7, Zenon DEF Next, Inside

-----------------------------------------------------------------------------
(***************************************************************************)
(* SlotInv: the thread that decrements the slots is the last to refer to   *)
(* the context, and every other step keeps the set of live contexts.       *)
(***************************************************************************)
LEMMA SlotStep == RInv /\ [Next]_vars => SlotInv'
<1>a. SUFFICES ASSUME RInv, [Next]_vars PROVE SlotInv'
    OBVIOUS
<1>0. TypeInv /\ RefInv /\ FreshInv /\ SlotInv
    BY <1>a DEF RInv
<1>1. Live \subseteq Ids /\ IsFiniteSet(Live)
    BY <1>0, LiveFacts
<1> USE RegistryAssumption DEF counters, objects, SlotInv
<1>2. ASSUME Live' = Live, slots' = slots PROVE SlotInv'
    BY <1>0, <1>2
<1>3. ASSUME NEW t \in Threads, OpenStart(t) PROVE SlotInv'
  <2>1. CASE UNCHANGED <<slots, ref, worker, handle, pc>>
    BY <1>2, <1>3, <2>1 DEF OpenStart, Live
  <2>2. CASE slots' = slots + 1 /\ ref' = [ref EXCEPT ![t] = nextContext]
    <3>1. nextContext \notin Live /\ nextContext # None
      BY <1>0, <1>3 DEF OpenStart, Live, RefInv, FreshInv, TypeInv, Ids, None
    <3>2. ref[t] = None
      BY <1>0, <1>3 DEF OpenStart, RefInv
    <3>3. {ref'[u] : u \in Threads} \ {None} = ({ref[u] : u \in Threads} \ {None}) \union {nextContext}
      BY <1>0, <2>2, <3>1, <3>2, Zenon DEF TypeInv
    <3>4. Live' = Live \union {nextContext}
      BY <1>3, <3>3 DEF OpenStart, Live
    <3> QED
      BY <1>0, <1>1, <2>2, <3>1, <3>4, FS_AddElement, Zenon
  <2> QED
    BY <1>3, <2>1, <2>2 DEF OpenStart
<1>4. ASSUME NEW t \in Threads, NEW i \in contexts, pc[t] = "Idle",
             ref' = [ref EXCEPT ![t] = i], contexts' \union {i} = contexts, slots' = slots
      PROVE  SlotInv'
  <2>1. ref[t] = None /\ i # None
    BY <1>0, <1>4 DEF RefInv, TypeInv, Ids, None
  <2>2. {ref'[u] : u \in Threads} \ {None} = ({ref[u] : u \in Threads} \ {None}) \union {i}
    BY <1>0, <1>4, <2>1, Zenon DEF TypeInv
  <2>3. Live' = Live
    BY <1>4, <2>2 DEF Live
  <2> QED
    BY <1>2, <1>4, <2>3
<1>5. ASSUME NEW t \in Threads, OpenReady(t) \/ OpenFails(t) \/ DropArc(t) PROVE SlotInv'
  <2>1. ref[t] \in Ids /\ ref[t] # None /\ ref' = [ref EXCEPT ![t] = None]
    BY <1>0, <1>5, Zenon DEF OpenReady, OpenFails, DropArc, RefInv, TypeInv
  <2>2. ref[t] \in Live
    BY <2>1 DEF Live
  <2>3. {ref'[u] : u \in Threads} \ {None} = {ref[u] : u \in Threads \ {t}} \ {None}
    BY <1>0, <2>1, Zenon DEF TypeInv
  <2>4. {ref[u] : u \in Threads} = {ref[u] : u \in Threads \ {t}} \union {ref[t]}
    OBVIOUS
  <2>5. CASE OpenReady(t)
    BY <1>2, <2>1, <2>3, <2>4, <2>5, Zenon DEF OpenReady, Live
  <2>6. ASSUME contexts' = contexts, ref[t] \notin contexts, \A u \in Threads \ {t} : ref[u] # ref[t],
               slots' = slots - 1
        PROVE  SlotInv'
    <3>1. Live' = Live \ {ref[t]}
      BY <2>1, <2>3, <2>4, <2>6 DEF Live
    <3> QED
      BY <1>0, <1>1, <2>2, <2>6, <3>1, FS_RemoveElement, Zenon
  <2>7. CASE OpenFails(t)
    BY <1>0, <2>6, <2>7 DEF OpenFails, RefInv
  <2>8. CASE DropArc(t)
    <3>1. CASE ref[t] \in contexts \/ \E u \in Threads \ {t} : ref[u] = ref[t]
      <4>1. Live' = Live
        BY <2>1, <2>3, <2>4, <2>8, <3>1, Zenon DEF DropArc, Live
      <4> QED
        BY <1>2, <2>8, <3>1, <4>1 DEF DropArc
    <3>2. CASE ~(ref[t] \in contexts \/ \E u \in Threads \ {t} : ref[u] = ref[t])
      BY <2>6, <2>8, <3>2, Zenon DEF DropArc
    <3> QED
      BY <3>1, <3>2
  <2> QED
    BY <1>5, <2>5, <2>7, <2>8
<1>6. ASSUME UNCHANGED <<contexts, ref, slots, nextContext>> PROVE SlotInv'
    BY <1>2, <1>6 DEF Live
<1>7. ASSUME NEW t \in Threads, CallLookup(t) \/ CloseRemove(t) PROVE SlotInv'
    BY <1>4, <1>7 DEF CallLookup, CloseRemove
<1>8. ASSUME NEW t \in Threads, Inside(t) PROVE SlotInv'
    BY <1>0, <1>5, <1>6, <1>8, ReferenceStep, Zenon
<1>9. ASSUME NEW i \in Ids, Work(i) PROVE SlotInv'
    BY <1>6, <1>9, Zenon DEF Work, WorkerInit, WorkerTake, WorkerReplies, WorkerFinishes, WorkerLeaves
<1>10. CASE UNCHANGED vars
    BY <1>6, <1>10 DEF vars
<1> QED
    BY <1>a, <1>3, <1>7, <1>8, <1>9, <1>10 DEF Next

(* OwnerInv: the mutex of a context follows the control points of its holder. *)
LEMMA OwnerStep == RInv /\ [Next]_vars => OwnerInv'
<1>a. SUFFICES ASSUME RInv, [Next]_vars PROVE OwnerInv'
    OBVIOUS
<1>0. TypeInv /\ RefInv /\ OwnerInv /\ MessageInv
    BY <1>a DEF RInv
<1> USE RegistryAssumption, ThreadAssumption DEF counters, objects, Goto, None, OwnerInv, LockedLabels,
        TypeInv
<1>1. ASSUME NEW t \in Threads, OpenStart(t) PROVE OwnerInv'
    BY <1>0, <1>1 DEF OpenStart
<1>2. ASSUME NEW t \in Threads, CallLookup(t) \/ CloseRemove(t) PROVE OwnerInv'
    BY <1>0, <1>2 DEF CallLookup, CloseRemove
<1>3. ASSUME NEW t \in Threads, OpenReady(t) \/ OpenFails(t) \/ DropArc(t) PROVE OwnerInv'
    BY <1>0, <1>3 DEF OpenReady, OpenFails, DropArc
<1>4. ASSUME NEW t \in Threads, CallTryLock(t) \/ CloseLock(t) PROVE OwnerInv'
    BY <1>0, <1>4 DEF CallTryLock, CloseLock, RefInv
<1>5. ASSUME NEW t \in Threads, CallForwarded(t) \/ CloseSend(t) PROVE OwnerInv'
    BY <1>0, <1>5 DEF CallForwarded, CloseSend
<1>6. ASSUME NEW t \in Threads,
             CallAnswered(t) \/ JobClose(t) \/ ApplyStart(t) \/ CallReturns(t) \/ CloseJoin(t)
      PROVE  OwnerInv'
  <2>1. pc[t] \in LockedLabels /\ Unlock(t) /\ ref' = ref
    BY <1>6, Zenon DEF CallAnswered, JobClose, ApplyStart, CallReturns, CloseJoin
  <2>2. ref[t] \in Ids /\ owner[ref[t]] = t
    BY <1>0, <2>1 DEF RefInv
  <2> QED
    BY <1>0, <2>1, <2>2 DEF Unlock
<1>7. ASSUME NEW i \in Ids, Work(i) PROVE OwnerInv'
  <2>1. CASE WorkerInit(i) \/ WorkerTake(i) \/ WorkerFinishes(i)
    BY <1>0, <2>1, Zenon DEF WorkerInit, WorkerTake, WorkerFinishes
  <2>2. CASE WorkerReplies(i)
    <3>1. PICK t \in Threads : current[i] = Call(t) /\ current[i].thread = t
      BY <1>0, <2>2, MessageKinds DEF WorkerReplies
    <3>2. pc[t] = "Waiting"
      BY <1>0, <3>1 DEF MessageInv, MessagesOf
    <3> QED
      BY <1>0, <2>2, <3>1, <3>2 DEF WorkerReplies
  <2>3. CASE WorkerLeaves(i)
    BY <1>0, <2>3 DEF WorkerLeaves, MessageInv, MessagesOf
  <2> QED
    BY <1>7, <2>1, <2>2, <2>3, Zenon DEF Work
<1>8. CASE UNCHANGED vars
    BY <1>0, <1>8, Zenon DEF vars
<1> QED
    BY <1>a, <1>1, <1>2, <1>3, <1>4, <1>5, <1>6, <1>7, <1>8, Zenon DEF Next, Inside

-----------------------------------------------------------------------------
(* JobInv: ApplyStart draws a fresh identity for the one context it locks. *)
LEMMA JobStep == RInv /\ [Next]_vars => JobInv'
<1>a. SUFFICES ASSUME RInv, [Next]_vars PROVE JobInv'
    OBVIOUS
<1>0. TypeInv /\ RefInv /\ JobInv /\ MessageInv
    BY <1>a DEF RInv
<1> USE RegistryAssumption DEF counters, objects, None, JobInv, TypeInv
<1>1. ASSUME UNCHANGED <<job, finished, nextJob>> PROVE JobInv'
    BY <1>0, <1>1
<1>2. ASSUME NEW t \in Threads, JobClose(t) PROVE JobInv'
    BY <1>0, <1>2 DEF JobClose, Jobs
<1>3. ASSUME NEW t \in Threads, ApplyStart(t) PROVE JobInv'
  <2>1. nextJob' = nextJob + 1 /\ finished' = finished
    BY <1>3, Zenon DEF ApplyStart
  <2>2. \A k \in Ids : job[k] \in Nat /\ job[k] < nextJob
    BY <1>0 DEF Jobs
  <2>3. CASE job' = job
    BY <1>0, <2>1, <2>2, <2>3 DEF Jobs
  <2>4. CASE job' = [job EXCEPT ![ref[t]] = nextJob]
    BY <1>0, <2>1, <2>2, <2>4 DEF Jobs
  <2> QED
    BY <1>3, <2>3, <2>4, Zenon DEF ApplyStart
<1>4. ASSUME NEW i \in Ids, WorkerFinishes(i) PROVE JobInv'
  <2>1. PICK j \in Jobs : current[i] = Apply(j) /\ current[i].job = j
    BY <1>0, <1>4, MessageKinds DEF WorkerFinishes
  <2>2. job[i] = j
    BY <1>0, <2>1 DEF MessageInv, MessagesOf
  <2> QED
    BY <1>0, <1>4, <2>1, <2>2 DEF WorkerFinishes
<1>5. ASSUME NEW t \in Threads,
             OpenStart(t) \/ CallLookup(t) \/ CloseRemove(t) \/ OpenReady(t) \/ OpenFails(t)
               \/ DropArc(t) \/ CallTryLock(t) \/ CallAnswered(t) \/ CallForwarded(t)
      PROVE  JobInv'
    BY <1>1, <1>5, Zenon DEF OpenStart, CallLookup, CloseRemove, OpenReady, OpenFails, DropArc, CallTryLock,
         CallAnswered, CallForwarded
<1>6. ASSUME NEW t \in Threads, CallReturns(t) \/ CloseLock(t) \/ CloseSend(t) \/ CloseJoin(t)
      PROVE  JobInv'
    BY <1>1, <1>6, Zenon DEF CallReturns, CloseLock, CloseSend, CloseJoin
<1>7. ASSUME NEW i \in Ids, WorkerInit(i) \/ WorkerTake(i) \/ WorkerReplies(i) \/ WorkerLeaves(i)
      PROVE  JobInv'
    BY <1>1, <1>7, Zenon DEF WorkerInit, WorkerTake, WorkerReplies, WorkerLeaves
<1>8. CASE UNCHANGED vars
    BY <1>1, <1>8 DEF vars
<1> QED
    BY <1>a, <1>2, <1>3, <1>4, <1>5, <1>6, <1>7, <1>8, Zenon DEF Next, Inside, Work

(* A step that leaves the messages of a context and its waiting caller alone keeps its part. *)
LEMMA MessagesKept ==
    ASSUME RInv, NEW i \in Ids,
           current'[i] = current[i], channel'[i] = channel[i], job'[i] = job[i],
           finished \subseteq finished', job[i] \in finished' => job[i] \in finished \/ job[i] = None,
           \A t \in Threads : ref[t] = i /\ pc[t] = "Waiting" => ref'[t] = i /\ pc'[t] = "Waiting"
    PROVE  MessagesOf(i)'
<1>1. MessagesOf(i) /\ 0 \notin Jobs
    BY DEF RInv, MessageInv, Jobs
<1> QED
    BY <1>1, Zenon DEF MessagesOf, None

(* While a thread has the mutex and does not wait, no request is under way. *)
LEMMA NoRequest ==
    ASSUME RInv, NEW t \in Threads, pc[t] \in LockedLabels \ {"Waiting"}
    PROVE  \A u \in Threads : current[ref[t]] # Call(u) /\ channel[ref[t]] # <<Call(u)>>
<1>1. ref[t] \in Ids /\ owner[ref[t]] = t
    BY DEF RInv, TypeInv, RefInv, OwnerInv, LockedLabels
<1>2. ASSUME NEW u \in Threads, ref[u] = ref[t], pc[u] = "Waiting" PROVE FALSE
    BY <1>1, <1>2 DEF RInv, OwnerInv, LockedLabels
<1> QED
    BY <1>1, <1>2, Zenon DEF RInv, MessageInv, MessagesOf

(* MessageInv: only the holder of the mutex sends, and never beside an unfinished job. *)
LEMMA MessageStep == RInv /\ [Next]_vars => MessageInv'
<1>a. SUFFICES ASSUME RInv, [Next]_vars, NEW k \in Ids PROVE MessagesOf(k)'
    BY DEF MessageInv
<1>0. TypeInv /\ RefInv /\ JobInv /\ MessagesOf(k) /\ 0 \notin Jobs
    BY <1>a DEF RInv, MessageInv, Jobs
<1>b. ASSUME current'[k] = current[k], channel'[k] = channel[k], job'[k] = job[k],
             finished \subseteq finished',
             job[k] \in finished' => job[k] \in finished \/ job[k] = None,
             \A t \in Threads : ref[t] = k /\ pc[t] = "Waiting" => ref'[t] = k /\ pc'[t] = "Waiting"
      PROVE  MessagesOf(k)'
    BY <1>a, <1>b, MessagesKept
<1> USE DEF counters, objects, Goto
<1>1. ASSUME UNCHANGED <<current, channel, job, finished>>,
             \A u \in Threads : pc[u] = "Waiting" => ref'[u] = ref[u] /\ pc'[u] = "Waiting"
      PROVE  MessagesOf(k)'
    BY <1>1, <1>b
<1>2. ASSUME NEW t \in Threads, OpenStart(t) \/ CallLookup(t) \/ CloseRemove(t) PROVE MessagesOf(k)'
    BY <1>0, <1>1, <1>2, Zenon DEF OpenStart, CallLookup, CloseRemove, TypeInv
<1>3. ASSUME NEW t \in Threads, OpenReady(t) \/ OpenFails(t) \/ DropArc(t) PROVE MessagesOf(k)'
    BY <1>0, <1>1, <1>3, Zenon DEF OpenReady, OpenFails, DropArc, TypeInv
<1>4. ASSUME NEW t \in Threads,
             CallTryLock(t) \/ CallAnswered(t) \/ CallReturns(t) \/ CloseLock(t) \/ CloseJoin(t)
      PROVE  MessagesOf(k)'
    BY <1>0, <1>1, <1>4, Zenon DEF CallTryLock, CallAnswered, CallReturns, CloseLock, CloseJoin, Unlock, TypeInv
<1>5. ASSUME NEW t \in Threads, JobClose(t) \/ ApplyStart(t) \/ CallForwarded(t) \/ CloseSend(t)
      PROVE  MessagesOf(k)'
  <2>1. /\ pc[t] \in LockedLabels \ {"Waiting"} /\ ref[t] \in Ids
        /\ ref' = ref /\ current' = current /\ finished' = finished
        /\ \A u \in Threads : u # t => pc'[u] = pc[u]
    BY <1>0, <1>5, Zenon DEF JobClose, ApplyStart, CallForwarded, CloseSend, Unlock, LockedLabels, TypeInv,
         RefInv
  <2>2. CASE k # ref[t]
    <3>1. channel'[k] = channel[k] /\ job'[k] = job[k]
      BY <1>0, <1>5, <2>1, <2>2, Zenon DEF JobClose, ApplyStart, CallForwarded, CloseSend, TypeInv
    <3> QED
      BY <2>1, <2>2, <3>1, <1>b, Zenon
  <2>3. CASE k = ref[t]
    <3>0. \A u \in Threads : current[k] # Call(u) /\ channel[k] # <<Call(u)>>
      BY <1>a, <2>1, <2>3, NoRequest, Zenon
    <3>1. CASE JobClose(t)
      <4>1. channel' = channel /\ job[k] \in finished
        BY <2>3, <3>1 DEF JobClose
      <4> QED
        BY <1>0, <2>1, <3>0, <4>1, Zenon DEF MessagesOf
    <3>2. CASE ApplyStart(t)
      <4>1. CASE channel' = channel /\ job' = job
        BY <1>0, <2>1, <3>0, <4>1, Zenon DEF MessagesOf
      <4>2. CASE channel'[k] = <<Apply(nextJob)>> /\ job'[k] = nextJob /\ job[k] = None
        <5>1. nextJob \notin finished /\ nextJob \in Jobs
          BY <1>0, <3>2, RegistryAssumption DEF ApplyStart, JobInv, TypeInv, Jobs
        <5>2. \A j \in Jobs : current[k] # Apply(j)
          BY <1>0, <4>2, Zenon DEF MessagesOf, None
        <5>3. \A u \in Threads : channel'[k] # <<Call(u)>>
          BY <4>2, <5>1, MessageKinds
        <5>4. \A j \in Jobs : channel'[k] = <<Apply(j)>> => j = nextJob
          BY <4>2, <5>1, MessageKinds
        <5> QED
          BY <2>1, <3>0, <4>2, <5>1, <5>2, <5>3, <5>4, Zenon DEF MessagesOf
      <4> QED
        BY <1>0, <2>1, <2>3, <3>2, <4>1, <4>2, Zenon DEF ApplyStart, TypeInv
    <3>3. CASE CallForwarded(t)
      <4>1. /\ channel'[k] = <<Call(t)>> /\ job' = job /\ pc'[t] = "Waiting"
            /\ job[k] = None \/ job[k] \in finished
        BY <1>0, <2>1, <2>3, <3>3, Zenon DEF CallForwarded, TypeInv
      <4>2. \A j \in Jobs : current[k] # Apply(j)
        BY <1>0, <4>1, Zenon DEF MessagesOf, None
      <4>3. \A j \in Jobs : channel'[k] # <<Apply(j)>>
        BY <4>1, MessageKinds
      <4>4. \A u \in Threads : channel'[k] = <<Call(u)>> => u = t
        BY <4>1, MessageKinds
      <4> QED
        BY <2>1, <2>3, <3>0, <4>1, <4>2, <4>3, <4>4, Zenon DEF MessagesOf
    <3>4. CASE CloseSend(t)
      <4>1. channel'[k] \in {channel[k], <<Stop>>} /\ job' = job
        BY <1>0, <2>1, <2>3, <3>4, Zenon DEF CloseSend, TypeInv
      <4>2. (\A u \in Threads : <<Stop>> # <<Call(u)>>) /\ (\A j \in Jobs : <<Stop>> # <<Apply(j)>>)
        BY MessageKinds
      <4> QED
        BY <1>0, <2>1, <3>0, <4>1, <4>2, Zenon DEF MessagesOf
    <3> QED
      BY <1>5, <3>1, <3>2, <3>3, <3>4
  <2> QED
    BY <2>2, <2>3
<1>6. ASSUME NEW i \in Ids, WorkerInit(i) PROVE MessagesOf(k)'
    BY <1>1, <1>6, Zenon DEF WorkerInit
<1>7. ASSUME NEW i \in Ids, WorkerTake(i) PROVE MessagesOf(k)'
  <2>1. ref' = ref /\ pc' = pc /\ job' = job /\ finished' = finished
    BY <1>7 DEF WorkerTake
  <2>2. CASE k # i
    BY <1>0, <1>7, <2>1, <2>2, <1>b DEF WorkerTake, TypeInv
  <2>3. CASE k = i
    <3>1. channel[k] = <<current'[k]>> /\ channel'[k] = << >>
      BY <1>0, <1>7, <2>3, OneMessage, Zenon DEF WorkerTake, TypeInv
    <3> QED
      BY <1>0, <2>1, <3>1 DEF MessagesOf
  <2> QED
    BY <2>2, <2>3
<1>8. ASSUME NEW i \in Ids, WorkerReplies(i) PROVE MessagesOf(k)'
  <2>1. PICK t \in Threads : current[i] = Call(t) /\ current[i].thread = t
    BY <1>0, <1>8, MessageKinds DEF WorkerReplies, TypeInv
  <2>2. ref[t] = i /\ channel[i] = << >>
    BY <1>a, <2>1, Zenon DEF RInv, MessageInv, MessagesOf
  <2>3. /\ ref' = ref /\ job' = job /\ finished' = finished /\ channel' = channel
        /\ \A u \in Threads : u # t => pc'[u] = pc[u]
    BY <1>0, <1>8, <2>1, Zenon DEF WorkerReplies, TypeInv
  <2>4. CASE k # i
    BY <1>0, <1>8, <2>2, <2>3, <2>4, <1>b DEF WorkerReplies, TypeInv
  <2>5. CASE k = i
    <3>1. current'[k] = Nothing /\ channel'[k] = << >>
      BY <1>0, <1>8, <2>2, <2>3, <2>5, Zenon DEF WorkerReplies, TypeInv
    <3> QED
      BY <3>1, MessageKinds DEF MessagesOf
  <2> QED
    BY <2>4, <2>5
<1>9. ASSUME NEW i \in Ids, WorkerFinishes(i) PROVE MessagesOf(k)'
  <2>1. PICK j \in Jobs : current[i] = Apply(j) /\ current[i].job = j
    BY <1>0, <1>9, MessageKinds DEF WorkerFinishes, TypeInv
  <2>2. job[i] = j /\ j \notin finished /\ channel[i] # <<Apply(j)>>
    BY <1>a, <2>1 DEF RInv, MessageInv, MessagesOf
  <2>3. ref' = ref /\ pc' = pc /\ job' = job /\ channel' = channel /\ finished' = finished \union {j}
    BY <1>9, <2>1 DEF WorkerFinishes
  <2>4. CASE k # i
    BY <1>0, <1>9, <2>2, <2>3, <2>4, <1>b DEF WorkerFinishes, TypeInv, JobInv, None
  <2>5. CASE k = i
    <3>1. current'[k] = Nothing
      BY <1>0, <1>9, <2>5, Zenon DEF WorkerFinishes, TypeInv
    <3>2. (\A u \in Threads : Nothing # Call(u)) /\ (\A l \in Jobs : Nothing # Apply(l))
      BY MessageKinds
    <3> QED
      BY <1>0, <2>2, <2>3, <2>5, <3>1, <3>2, Zenon DEF MessagesOf
  <2> QED
    BY <2>4, <2>5
<1>10. ASSUME NEW i \in Ids, WorkerLeaves(i) PROVE MessagesOf(k)'
  <2>1. CASE k # i
    <3>1. \A u \in Threads : ref[u] = k => channel[i] # <<Call(u)>>
      BY <1>a, <2>1, Zenon DEF RInv, MessageInv, MessagesOf
    <3> QED
      BY <1>0, <1>10, <2>1, <3>1, <1>b DEF WorkerLeaves, TypeInv
  <2>2. CASE k = i
    <3>1. current'[k] = Nothing /\ channel'[k] = << >>
      BY <1>0, <1>10, <2>2, Zenon DEF WorkerLeaves, TypeInv
    <3> QED
      BY <3>1, MessageKinds DEF MessagesOf
  <2> QED
    BY <2>1, <2>2
<1>11. CASE UNCHANGED vars
    BY <1>0, <1>1, <1>11, Zenon DEF vars
<1> QED
    BY <1>a, <1>2, <1>3, <1>4, <1>5, <1>6, <1>7, <1>8, <1>9, <1>10, <1>11, Zenon DEF Next, Inside, Work

-----------------------------------------------------------------------------
(* RInv holds in every reachable state, for any threads, capacity and width of identities. *)
THEOREM RegistryInvariance == Spec => []RInv
<1>1. Init => RInv
  <2> SUFFICES ASSUME Init PROVE RInv
      OBVIOUS
  <2> USE RegistryAssumption DEF Init
  <2>1. TypeInv
      BY DEF TypeInv, Labels, LockedLabels, Messages, Contents
  <2>2. RefInv /\ FreshInv /\ HeldInv /\ OwnerInv /\ JobInv
      BY ThreadAssumption DEF RefInv, FreshInv, HeldInv, OwnerInv, JobInv, LockedLabels, None
  <2>3. SlotInv
    <3>1. Live = {}
      BY DEF Live
    <3> QED
      BY <3>1, FS_EmptySet DEF SlotInv
  <2>4. MessageInv
    <3>1. \A i \in Ids : current[i] = Nothing /\ channel[i] = << >>
      OBVIOUS
    <3> QED
      BY <3>1, MessageKinds, Zenon DEF MessageInv, MessagesOf
  <2> QED
      BY <2>1, <2>2, <2>3, <2>4 DEF RInv
<1>2. RInv /\ [Next]_vars => RInv'
    BY TypeStep, RefStep, FreshStep, HeldStep, SlotStep, OwnerStep, JobStep, MessageStep, Zenon DEF RInv
<1> QED
    BY <1>1, <1>2, PTL DEF Spec

(***************************************************************************)
(* Slot and Context::shutdown, for any number of threads: SLOTS is the     *)
(* number of contexts that someone refers to, and a worker thread that has *)
(* not ended belongs to one of them, so MAX_CONTEXTS bounds the workers.   *)
(***************************************************************************)
THEOREM WorkersAlwaysCounted == Spec => []WorkersAreCounted
<1>1. RInv => WorkersAreCounted
  <2> SUFFICES ASSUME RInv PROVE WorkersAreCounted
      OBVIOUS
  <2>1. ASSUME NEW i \in Ids, worker[i] \notin {"none", "gone"} PROVE i \in Live
      BY <2>1 DEF RInv, HeldInv, Live, Ids, None
  <2> QED
      BY <2>1 DEF RInv, SlotInv, WorkersAreCounted
<1> QED
    BY <1>1, RegistryInvariance, PTL

(***************************************************************************)
(* call and ApplyStart, for any number of threads: a request is with the   *)
(* worker only while its sender holds the mutex and no job is unfinished.  *)
(***************************************************************************)
THEOREM JobAlwaysAlone == Spec => []JobRunsAlone
<1>1. RInv => JobRunsAlone
    BY DEF RInv, MessageInv, MessagesOf, OwnerInv, LockedLabels, JobRunsAlone
<1> QED
    BY <1>1, RegistryInvariance, PTL

(* The workers that have started and not yet ended. *)
Running == {i \in Ids : worker[i] \notin {"none", "gone"}}

(***************************************************************************)
(* MAX_CONTEXTS is a bound on worker threads, whatever opens, closes and   *)
(* panics happen, and however long a thread keeps its Arc.                 *)
(***************************************************************************)
THEOREM WorkersWithinCapacity == Spec => [](Cardinality(Running) <= MaxContexts)
<1> DEFINE Bounded == slots <= MaxContexts
<1>1. Init => Bounded
    BY RegistryAssumption DEF Init
<1>2. ASSUME RInv, Bounded, [Next]_vars PROVE Bounded'
  <2>0. TypeInv /\ slots \in Nat
    BY <1>2 DEF RInv, TypeInv
  <2> USE RegistryAssumption
  <2>1. ASSUME NEW t \in Threads, OpenStart(t) PROVE Bounded'
    BY <1>2, <2>0, <2>1 DEF OpenStart
  <2>2. ASSUME NEW t \in Threads, OpenReady(t) \/ OpenFails(t) \/ DropArc(t) PROVE Bounded'
    BY <1>2, <2>0, <2>2 DEF OpenReady, OpenFails, DropArc
  <2>3. ASSUME NEW t \in Threads, CallLookup(t) \/ CloseRemove(t) PROVE Bounded'
    BY <1>2, <2>3 DEF CallLookup, CloseRemove
  <2>4. ASSUME NEW t \in Threads, Inside(t) PROVE Bounded'
    BY <1>2, <2>0, <2>2, <2>4, ReferenceStep
  <2>5. ASSUME NEW i \in Ids, Work(i) PROVE Bounded'
    BY <1>2, <2>5, Zenon DEF Work, WorkerInit, WorkerTake, WorkerReplies, WorkerFinishes, WorkerLeaves
  <2>6. CASE UNCHANGED vars
    BY <1>2, <2>6 DEF vars
  <2> QED
    BY <1>2, <2>1, <2>3, <2>4, <2>5, <2>6 DEF Next
<1>3. ASSUME RInv, Bounded PROVE Cardinality(Running) <= MaxContexts
  <2>1. IsFiniteSet(Live) /\ slots = Cardinality(Live) /\ Cardinality(Live) \in Nat
    BY <1>3, LiveFacts DEF RInv, SlotInv
  <2>2. Running \subseteq Live
    BY <1>3 DEF RInv, HeldInv, Running, Live, Ids, None
  <2>3. Cardinality(Running) <= Cardinality(Live) /\ Cardinality(Running) \in Nat
    BY <2>1, <2>2, FS_Subset, FS_CardinalityType
  <2> QED
    BY <1>3, <2>1, <2>3, RegistryAssumption
<1> QED
    BY <1>1, <1>2, <1>3, RegistryInvariance, PTL DEF Spec

=============================================================================

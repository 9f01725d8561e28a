------------------------------- MODULE Registry -------------------------------
(***************************************************************************)
(* The contexts of disksgraph-ffi (registry.rs and jobs.rs): threads of    *)
(* the embedding application open, call and close contexts.  Each context  *)
(* has one worker thread that owns the facade, a channel of capacity one,  *)
(* a mutex, and at most one retained job.  An Arc keeps a context alive    *)
(* after it left the lookup; its capacity slot goes with the last Arc.     *)
(*                                                                         *)
(* One action is the code between two points at which a thread can be      *)
(* overtaken: the registry lookup, the context mutex, a channel operation, *)
(* a join.  Requests that change nothing (polls, cancellations, malformed  *)
(* input, unknown handles) return without a change.                        *)
(***************************************************************************)
EXTENDS Naturals, Sequences, FiniteSets

CONSTANTS
    Threads,       \* application threads
    MaxContexts,   \* MAX_CONTEXTS
    U64Max         \* u64::MAX, at which both identity counters are exhausted

ASSUME RegistryAssumption ==
    MaxContexts \in Nat \ {0} /\ U64Max \in Nat \ {0}

Ids == 1..(U64Max - 1)
None == 0

ASSUME ThreadAssumption == None \notin Threads

VARIABLES
    slots,         \* SLOTS
    nextContext,   \* NEXT_CONTEXT
    nextJob,       \* NEXT_JOB
    contexts,      \* handles in the lookup
    worker,        \* worker[i]: what the owner thread of context i does
    handle,        \* contexts whose JoinHandle was not taken
    owner,         \* owner[i]: thread that holds the mutex of i
    channel,       \* channel[i]: messages in the channel of i
    current,       \* current[i]: the message the worker of i processes
    job,           \* job[i]: the retained job of i
    finished,      \* jobs whose finish was called
    ref,           \* ref[t]: context whose Arc thread t holds
    pc             \* pc[t]: control point of thread t

counters == <<nextContext, nextJob>>
objects == <<contexts, handle, job>>
vars == <<slots, counters, objects, worker, owner, channel, current, finished, ref, pc>>

Call(t) == [type |-> "Call", thread |-> t]
Apply(j) == [type |-> "Apply", job |-> j]
Stop == [type |-> "Stop"]
Nothing == [type |-> "Nothing"]

Init ==
    /\ slots = 0
    /\ nextContext = 1
    /\ nextJob = 1
    /\ contexts = {}
    /\ worker = [i \in Ids |-> "none"]
    /\ handle = {}
    /\ owner = [i \in Ids |-> None]
    /\ channel = [i \in Ids |-> << >>]
    /\ current = [i \in Ids |-> Nothing]
    /\ job = [i \in Ids |-> None]
    /\ finished = {}
    /\ ref = [t \in Threads |-> None]
    /\ pc = [t \in Threads |-> "Idle"]

Goto(t, label) == pc' = [pc EXCEPT ![t] = label]

(* Worker::requests is alive until the worker has left its loop and returned. *)
Receiving(i) == worker[i] \in {"init", "serving", "busy", "leaving"}

(* A Context exists while the lookup or a thread refers to it. *)
Live == contexts \union ({ref[t] : t \in Threads} \ {None})

-----------------------------------------------------------------------------
(* open_with: the slot, the identity and the worker; a failed spawn uses up the identity. *)
OpenStart(t) ==
    /\ pc[t] = "Idle"
    /\ slots < MaxContexts
    /\ nextContext < U64Max
    /\ nextContext' = nextContext + 1
    /\ \/ /\ slots' = slots + 1
          /\ ref' = [ref EXCEPT ![t] = nextContext]
          /\ worker' = [worker EXCEPT ![nextContext] = "init"]
          /\ handle' = handle \union {nextContext}
          /\ Goto(t, "Opening")
       \/ UNCHANGED <<slots, ref, worker, handle, pc>>
    /\ UNCHANGED <<nextJob, contexts, job, owner, channel, current, finished>>

(* The ready handshake succeeded: the context becomes visible to callers. *)
OpenReady(t) ==
    /\ pc[t] = "Opening"
    /\ worker[ref[t]] = "serving"
    /\ contexts' = contexts \union {ref[t]}
    /\ ref' = [ref EXCEPT ![t] = None]
    /\ Goto(t, "Idle")
    /\ UNCHANGED <<slots, counters, handle, job, worker, owner, channel, current, finished>>

(* It failed: the context is dropped, which joins the worker and frees the slot. *)
OpenFails(t) ==
    /\ pc[t] = "Opening"
    /\ worker[ref[t]] = "gone"
    /\ handle' = handle \ {ref[t]}
    /\ slots' = slots - 1
    /\ ref' = [ref EXCEPT ![t] = None]
    /\ Goto(t, "Idle")
    /\ UNCHANGED <<counters, contexts, job, worker, owner, channel, current, finished>>

-----------------------------------------------------------------------------
(* call: the handle is looked up and its Arc cloned. *)
CallLookup(t) ==
    /\ pc[t] = "Idle"
    /\ \E i \in contexts : ref' = [ref EXCEPT ![t] = i]
    /\ Goto(t, "TryLock")
    /\ UNCHANGED <<slots, counters, objects, worker, owner, channel, current, finished>>

(* try_lock: Busy when another thread holds the mutex, unknown after shutdown. *)
CallTryLock(t) ==
    /\ pc[t] = "TryLock"
    /\ \/ /\ owner[ref[t]] # None \/ ref[t] \notin handle
          /\ Goto(t, "Dropping")
          /\ UNCHANGED owner
       \/ /\ owner[ref[t]] = None /\ ref[t] \in handle
          /\ owner' = [owner EXCEPT ![ref[t]] = t]
          /\ Goto(t, "Locked")
    /\ UNCHANGED <<slots, counters, objects, worker, channel, current, finished, ref>>

(* The guard is dropped, the Arc still held. *)
Unlock(t) ==
    /\ owner' = [owner EXCEPT ![ref[t]] = None]
    /\ Goto(t, "Dropping")

(* JobPoll, JobCancel, malformed input, and every request that is refused. *)
CallAnswered(t) ==
    /\ pc[t] = "Locked"
    /\ Unlock(t)
    /\ UNCHANGED <<slots, counters, objects, worker, channel, current, finished, ref>>

(* JobClose: a finished job is released. *)
JobClose(t) ==
    /\ pc[t] = "Locked"
    /\ job[ref[t]] \in finished
    /\ job' = [job EXCEPT ![ref[t]] = None]
    /\ Unlock(t)
    /\ UNCHANGED <<slots, counters, contexts, handle, worker, channel, current, finished, ref>>

(* ApplyStart: a new job is sent to the worker and retained, unless the worker is gone. *)
ApplyStart(t) ==
    LET i == ref[t]
    IN  /\ pc[t] = "Locked"
        /\ job[i] = None
        /\ nextJob < U64Max
        /\ nextJob' = nextJob + 1
        /\ \/ /\ Receiving(i) /\ channel[i] = << >>
              /\ channel' = [channel EXCEPT ![i] = <<Apply(nextJob)>>]
              /\ job' = [job EXCEPT ![i] = nextJob]
           \/ ~Receiving(i) /\ UNCHANGED <<channel, job>>
        /\ Unlock(t)
        /\ UNCHANGED <<slots, nextContext, contexts, handle, worker, current, finished, ref>>

CallForwardedDuringJob(t) ==
    LET i == ref[t]
    IN  /\ pc[t] = "Locked"
        /\ Receiving(i) /\ channel[i] = << >>
        /\ channel' = [channel EXCEPT ![i] = <<Call(t)>>]
        /\ Goto(t, "Waiting")
        /\ UNCHANGED <<slots, counters, objects, worker, owner, current, finished, ref>>

(* Every other request goes to the worker; the caller keeps the mutex and waits. *)
CallForwarded(t) ==
    LET i == ref[t]
    IN  /\ pc[t] = "Locked"
        /\ job[i] = None \/ job[i] \in finished
        /\ Receiving(i) /\ channel[i] = << >>
        /\ channel' = [channel EXCEPT ![i] = <<Call(t)>>]
        /\ Goto(t, "Waiting")
        /\ UNCHANGED <<slots, counters, objects, worker, owner, current, finished, ref>>

(* The response arrived, or its sender was dropped with the worker. *)
CallReturns(t) ==
    /\ pc[t] = "Replied"
    /\ Unlock(t)
    /\ UNCHANGED <<slots, counters, objects, worker, channel, current, finished, ref>>

(* The Arc goes; with the last one the context and its slot. *)
DropArc(t) ==
    /\ pc[t] = "Dropping"
    /\ ref' = [ref EXCEPT ![t] = None]
    /\ slots' = IF ref[t] \in contexts \/ \E u \in Threads \ {t} : ref[u] = ref[t]
                THEN slots ELSE slots - 1
    /\ Goto(t, "Idle")
    /\ UNCHANGED <<counters, objects, worker, owner, channel, current, finished>>

-----------------------------------------------------------------------------
(* close: the handle leaves the lookup first. *)
CloseRemove(t) ==
    /\ pc[t] = "Idle"
    /\ \E i \in contexts :
         /\ contexts' = contexts \ {i}
         /\ ref' = [ref EXCEPT ![t] = i]
    /\ Goto(t, "Closing")
    /\ UNCHANGED <<slots, counters, handle, job, worker, owner, channel, current, finished>>

(* It waits for the mutex, then shutdown takes the JoinHandle. *)
CloseLock(t) ==
    /\ pc[t] = "Closing"
    /\ owner[ref[t]] = None
    /\ owner' = [owner EXCEPT ![ref[t]] = t]
    /\ handle' = handle \ {ref[t]}
    /\ Goto(t, "Stopping")
    /\ UNCHANGED <<slots, counters, contexts, job, worker, channel, current, finished, ref>>

(* Message::Stop is sent, waiting for room behind a queued job. *)
CloseSend(t) ==
    LET i == ref[t]
    IN  /\ pc[t] = "Stopping"
        /\ \/ Receiving(i) /\ channel[i] = << >> /\ channel' = [channel EXCEPT ![i] = <<Stop>>]
           \/ ~Receiving(i) /\ UNCHANGED channel
        /\ Goto(t, "Joining")
        /\ UNCHANGED <<slots, counters, objects, worker, owner, current, finished, ref>>

CloseJoinDetached(t) ==
    /\ pc[t] = "Joining"
    /\ Unlock(t)
    /\ UNCHANGED <<slots, counters, objects, worker, channel, current, finished, ref>>

(* The worker is joined before the mutex is released. *)
CloseJoin(t) ==
    /\ pc[t] = "Joining"
    /\ worker[ref[t]] = "gone"
    /\ Unlock(t)
    /\ UNCHANGED <<slots, counters, objects, worker, channel, current, finished, ref>>

-----------------------------------------------------------------------------
(* The worker constructs the facade; errors, panics and a dropped factory end it. *)
WorkerInit(i) ==
    /\ worker[i] = "init"
    /\ worker' = [worker EXCEPT ![i] = "serving"] \/ worker' = [worker EXCEPT ![i] = "gone"]
    /\ UNCHANGED <<slots, counters, objects, owner, channel, current, finished, ref, pc>>

(* recv: Stop leaves the loop. *)
WorkerTake(i) ==
    /\ worker[i] = "serving"
    /\ channel[i] # << >>
    /\ current' = [current EXCEPT ![i] = Head(channel[i])]
    /\ channel' = [channel EXCEPT ![i] = Tail(@)]
    /\ worker' = [worker EXCEPT ![i] = IF Head(channel[i]) = Stop THEN "leaving" ELSE "busy"]
    /\ UNCHANGED <<slots, counters, objects, owner, finished, ref, pc>>

(* After a contained panic the loop is left, after anything else it goes on. *)
AfterRequest == {"serving", "leaving"}

(* A forwarded request returns or panics; either way the caller gets a reply. *)
WorkerReplies(i) ==
    /\ worker[i] = "busy"
    /\ current[i].type = "Call"
    /\ Goto(current[i].thread, "Replied")
    /\ \E w \in AfterRequest : worker' = [worker EXCEPT ![i] = w]
    /\ current' = [current EXCEPT ![i] = Nothing]
    /\ UNCHANGED <<slots, counters, objects, owner, channel, finished, ref>>

WorkerFinishesOnSuccess(i) ==
    /\ worker[i] = "busy"
    /\ current[i].type = "Apply"
    /\ finished' = finished \union {current[i].job} \/ UNCHANGED finished
    /\ worker' = [worker EXCEPT ![i] = "serving"]
    /\ current' = [current EXCEPT ![i] = Nothing]
    /\ UNCHANGED <<slots, counters, objects, owner, channel, ref, pc>>

(* execute_job: the job is finished with a result, an error or a contained panic. *)
WorkerFinishes(i) ==
    /\ worker[i] = "busy"
    /\ current[i].type = "Apply"
    /\ finished' = finished \union {current[i].job}
    /\ \E w \in AfterRequest : worker' = [worker EXCEPT ![i] = w]
    /\ current' = [current EXCEPT ![i] = Nothing]
    /\ UNCHANGED <<slots, counters, objects, owner, channel, ref, pc>>

WorkerLeavesReplyOpen(i) ==
    /\ worker[i] = "leaving"
    /\ worker' = [worker EXCEPT ![i] = "gone"]
    /\ channel' = [channel EXCEPT ![i] = << >>]
    /\ current' = [current EXCEPT ![i] = Nothing]
    /\ UNCHANGED <<slots, counters, objects, owner, finished, ref, pc>>

(* The facade and the receiver are dropped; a queued call sees its reply channel close. *)
WorkerLeaves(i) ==
    /\ worker[i] = "leaving"
    /\ worker' = [worker EXCEPT ![i] = "gone"]
    /\ channel' = [channel EXCEPT ![i] = << >>]
    /\ current' = [current EXCEPT ![i] = Nothing]
    /\ pc' = [t \in Threads |-> IF channel[i] = <<Call(t)>> THEN "Replied" ELSE pc[t]]
    /\ UNCHANGED <<slots, counters, objects, owner, finished, ref>>

-----------------------------------------------------------------------------
Inside(t) ==
    \/ OpenReady(t) \/ OpenFails(t)
    \/ CallTryLock(t) \/ CallAnswered(t) \/ JobClose(t) \/ ApplyStart(t) \/ CallForwarded(t)
    \/ CallReturns(t) \/ DropArc(t)
    \/ CloseLock(t) \/ CloseSend(t) \/ CloseJoin(t)

Work(i) ==
    WorkerInit(i) \/ WorkerTake(i) \/ WorkerReplies(i) \/ WorkerFinishes(i) \/ WorkerLeaves(i)

Next ==
    \/ \E t \in Threads : OpenStart(t) \/ CallLookup(t) \/ CloseRemove(t) \/ Inside(t)
    \/ \E i \in Ids : Work(i)

Spec == Init /\ [][Next]_vars

(***************************************************************************)
(* The scheduler runs threads inside a library call and the workers, and   *)
(* requests are assumed to return.  Nothing is assumed of the order in     *)
(* which a contended mutex is granted: only threads that looked the handle *)
(* up before it was removed can still compete with close.                  *)
(***************************************************************************)
FairSpec ==
    /\ Spec
    /\ \A t \in Threads : WF_vars(Inside(t))
    /\ \A i \in Ids : WF_vars(Work(i))

-----------------------------------------------------------------------------
(***************************************************************************)
(* Slot and Context::shutdown: a worker thread that has not ended always   *)
(* belongs to a context that is still counted, so MAX_CONTEXTS bounds the  *)
(* threads and none outlives the last reference to its context.            *)
(***************************************************************************)
WorkersAreCounted ==
    /\ slots = Cardinality(Live)
    /\ \A i \in Ids : worker[i] \notin {"none", "gone"} => i \in Live

(***************************************************************************)
(* call: no other request is forwarded to or processed by a worker whose   *)
(* job has not finished, and the thread that forwarded it has the mutex.   *)
(***************************************************************************)
JobRunsAlone ==
    \A i \in Ids, t \in Threads :
        (current[i] = Call(t) \/ channel[i] = <<Call(t)>>) =>
            /\ owner[i] = t
            /\ job[i] # None => job[i] \in finished

(***************************************************************************)
(* open_with, call and close return, although close waits for the mutex,   *)
(* for room in the channel and for the worker, and workers may panic.      *)
(***************************************************************************)
CallsReturn == \A t \in Threads : pc[t] # "Idle" ~> pc[t] = "Idle"

(***************************************************************************)
(* execute_job: a job that was accepted while its worker still served is   *)
(* finished, whatever the job does and whoever closes the context.         *)
(***************************************************************************)
ServedJobsFinish ==
    \A i, j \in Ids : (job[i] = j /\ worker[i] \in {"serving", "busy"}) ~> j \in finished

(***************************************************************************)
(* "Panic ends the background owner rather than leaving a permanently      *)
(* active or successful job": every job that was accepted finishes.        *)
(***************************************************************************)
JobsFinish == \A i, j \in Ids : job[i] = j ~> j \in finished

=============================================================================

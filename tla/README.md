# A verification of disksgraph

disksgraph observes the storage of a Linux host, lets a user draft changes to it, turns the
draft into a plan of typed actions, and executes the plan action by action under a
host-wide lock and a durable marker of the attempt in progress. This directory holds TLA+
models of its parts, the TLC configurations that check them on small instances, and TLAPS
proofs about the execution core for every value of the constants.

All paths below are relative to `src/`. `PROJECT.json` maps every definition to the lines
it models, and lists runs, mutations, hazards, findings and theorems.

## The system

| Part | Source | Here |
|---|---|---|
| Topology graph | `storage-core/src/model` | `Topology` |
| Probe: readings to graph, assembly, publication | `storage-probe` | `NativeProbe`, `ProbeAssembly`, `ProbeRun` |
| Provider contracts | `storage-provider/src/{contract,logical,luks}.rs` | `ProviderContract` |
| Simulation | `storage-engine/src/{simulate,simulation_evidence,prerequisites,effects}.rs` | `Simulation` |
| Analysis of a plan | `storage-engine/src/{simulate,validate}.rs` | `PlanReport` |
| Lowering and coverage of requests | `storage-engine/src/editing` | `PlanRequests` |
| Composition | `storage-engine/src/compose.rs` | `Composer` |
| Live evidence, correlation | `storage-engine/src/live*`, `editing/correlate.rs` | `LiveEvidence` |
| Editing sessions, drafts, rebases | `storage-engine/src/editing` | `PlanSession` |
| Lifecycle of a run | `storage-engine/src/execution.rs` | `ActionLifecycle`, `ExecutionRun`, `RunReplay` |
| Host lock | `storage-runtime/src/lease.rs` | `HostMutex`, `HostLock` |
| Active-attempt marker | `storage-runtime/src/checkpoint*` | `CheckpointStore`, `CheckpointCalls` |
| Coordinator, incidents | `storage-runtime/src/{coordinator,incident}.rs` | `Coordinator`, `AttemptLedger` |
| Bindings, targets, live host | `storage-runtime/src/{bindings,targets,filesystem,host}.rs` | `OutputBindings`, `LiveTargets` |
| Endpoints, native backends | `storage-runtime/src/{endpoint,native_*}.rs` | `LiveHost`, `LiveRun` |
| Facade, command protocol | `disksgraph/src` | `Facade` |
| Backend process, operator confirmation | `dg-cli/src/{backend4,confirmation}.rs` | `Backend4` |
| C interface: contexts, workers, jobs | `disksgraph-ffi` | `Registry` |

A probe publishes an observation. A client drafts requests on it in a session; the requests
are lowered to fragments, composed into a dependency graph of actions, simulated, and
reviewed. A confirmed plan becomes an `ExecutionRun`, an in-memory record that accepts
evidence in a fixed order and keeps a bounded ring of events. `ExecutionCoordinator` drives
the run: it takes the host lock, inspects the marker, probes, lets the live host judge the
publication, admits the action, arms the marker, calls the backend, probes again, verifies,
and clears the marker. Whatever goes wrong after the marker is armed leaves it in place: the
next process finds an incident, which only an explicit review and acknowledgment removes.

## Modules

### Planning

**Topology** is the graph of `storage-core`: nodes with kind, attributes, size and observed
facts, edges, mounts. An optional value is a set with at most one element, here and below.

**ProviderContract** gives for each typed action what it requires, touches, changes and
promises in a given graph, and when it is refused before that. A contract is put together
from parts with `&&`.

**Simulation** checks one action against a predicted state and applies it: validation,
prerequisites, effects, sizes of what lies above, and the evidence carried along
(activations, interfaces, free extents, which filesystems count as checked).

**PlanReport** replays a plan and reports on it: goals, protected scope, intents.
**PlanRequests** lowers the requests of a draft to fragments and has the independent coverage
checks of the editor. **Composer** is `compose` as a state machine: a draft is added request by
request, flattened, bound to the outputs it needs, replayed (and replayed from the start
whenever a missing output adds a dependency), resolved, replayed once more, and published
unless a resource conflict is unordered. The editor chains its fragments in the order of the
requests; a library caller passes fragments without an order.

**PlanSession** is `editing/session.rs` with drafts, documents and rebases. A request is its
kind and the node it refers to; a preview is a function of baseline and draft. Identities are
numbers given in order; as the code's are random, a baseline is observed only if it has none that
is yet to be allocated (`Observable`). The ghost variables `line` and `pos` hold the drafts since
the last rebase or branch.

### Observation

**LiveEvidence** evaluates prerequisites, postconditions and goals on a publication with three
values, and correlates the nodes of two publications.

**NativeProbe** has the entries each native library returns, and the enrichments that turn
block devices, partitions, signatures, LUKS, device-mapper, loop, swap, multipath, MD and LVM
into nodes and edges. **ProbeAssembly** adds Btrfs, ZFS, NVMe and mounts, the four providers,
and the assembly of their contributions with its conflicts and validation. Node identities
that the code hashes are tuples of what is hashed. **ProbeRun** is a service that takes the
readings one at a time while the machine changes between them and any of them may fail; later
readings ask only about what earlier ones found.

### Execution

**ActionLifecycle** has the states of an action and the pure conditions on them that
`ExecutionRun` and `Coordinator` share.

**ExecutionRun** is the struct of the same name, one action per public mutation. Reports are
sequences of checks with observation references. Sequence numbers have the width `U64Max`. An
admission publishes two events, and the room for both is asked for before anything changes.
**RunReplay** adds a client that polls `events_page` and falls back to the snapshot after a gap.

**HostMutex** is the lock as its users see it. **HostLock** is `try_lock_host` system call by
system call: open, validate, flock, validate. Between any two of them the lock file may be
removed and recreated, also with the inode number of a deleted file (`Replace`, external), as
long as no guard is held. `ImplementsMutex` is the refinement.

**CheckpointStore** has `arm` and `clear` as sequences of steps that a caller composes:
`visible` is the directory entry running processes see, `durable` the one that survives a
power loss, `synced` the attempts whose content is on disk. Each step may fail where the code
has a `?`. After an ambiguous failure the handle is poisoned. `Writeback` lets the kernel make
the entry durable at any time. **CheckpointCalls** uses the store under `HostLock` without any
discipline: any attempt, any order, errors, deaths, power losses.

**Coordinator** composes lifecycle, lock and marker with the control flow of `execute_run`,
`execute_action`, `review_incident` and `acknowledge_incident` in several processes. `pc[p]` is
the control point; an action is the code between two points at which another process, a
crash, a power loss or a native operation can be observed. Every `?` is an alternative that
returns. A native operation is `inflight` from `Invoke` until it stops, has its effect at any
time in between, and outlives its process. `begun` and `closed` are history variables.
**AttemptLedger** is the promise: an attempt begins at most once, never while another is
unresolved, and an unresolved one stays so until it is verified or acknowledged.

**OutputBindings** records verified outputs of a run, finds them again in a later publication
and decides whether everything else still is what was reviewed. **LiveTargets** resolves an
action to its targets, admits it and verifies it (`check_admission`, `verify_*`). **LiveHost**
is a machine with one volume group as the two probes read it: `GuestProbe` of
`dg-cli/examples/support/guest.rs`, under which the recipe is exercised, and
`NativeSystemProvider` through `ProbeAssembly`. **LiveRun** runs the write recipe on it: pass by
pass, check, call and verification, with other tools acting between any two steps.

### Process

**Facade** has the objects an application retains (sessions, plans, runs, reviews), each table
bounded by `MaxObjects`, and every protocol request that changes them. Refused and read-only
requests leave everything as it is. **Backend4** is the process around it: one frame at a
time, applies with their confirmation read from the same stream, restarts, and other
processes that leave or remove a marker in between. Here the coordinator's marker and lock are
one step each; `Coordinator` has them in detail.

**Registry** is `disksgraph-ffi/src/registry.rs` and `jobs.rs`: application threads, the lookup,
a mutex, a channel of capacity one and a worker thread per context, capacity slots, and the
retained job.

**MC*** modules only give the constants their values.

## Runs

| Run | Question | Instance |
|---|---|---|
| `execution_run` | Can any order of calls, with any evidence, break the record of a run, or show a polling client something else? | three actions, `a1` before `a2`, `a3` unordered; seven epochs; ring of 2; 20 sequence numbers; complete, incomplete, foreign and repeating reports |
| `checkpoint_calls` | Are arm and clear durable when they say so, under a lock whose file may be replaced? | two processes, two attempts, three inodes, power losses |
| `coordinator` | Can a native operation be overlapped, repeated or forgotten? | two processes, two runs, two actions in order |
| `registry` | Are workers counted and jobs alone, do calls return and jobs finish? | three threads, capacity one, contexts and jobs in turn, panics |
| `registry_panic` | Does every accepted job finish? **Violated** | two threads, panics |
| `plan_session` | Do preview, revision, histories, identities and rebases stay consistent? | one session with four revisions and limits 0 and 1, one with five and limit 1, two sessions on two baselines with three |
| `composer` | Is what is composed what is replayed, and is it safe? | four hosts, every draft of up to three requests or fragments, protected scopes, one goal |
| `composer_order` | Does a composed plan mean the same in every order it allows? **Violated** | two hosts, drafts of two |
| `probe` | Is a pass published, complete when it says nothing, and are things recognised in the next? | three families of machines, four services, two epochs, one change, one failed reading |
| `live` | Does the recipe touch only its own volume, on the reviewed machine, and report only what is? | guest probe, two other volumes, two interventions of other tools, one fault or unanswered question, two device numbers |
| `live_native` | Does the recipe run to its end with the production probe? **Violated** | no interference, no fault |
| `backend4` | Is every native call consented to, every started run kept, every rebase the session's own? | three documents (two of one plan), two baselines, tables of 2, three scopes |

What the properties say is stated at each definition. The deepest ones: `ImplementsLedger` and
`NativeExclusion` (a native operation that outlives its process is never overlapped),
`ArmedSurvives` (a marker reported armed survives every crash until its own clear),
`CurrentViewIsExact` (a client that misses events still ends with the run's true state),
`ReplayAgrees` (composition with restarts, replay in the final order and coverage, three
independent pieces of code, agree), `CheckedIsFresh` and `LedgerExact` (evidence carried
through a simulation is never stale), `ProtectedUntouched` (checks on declared effects
protect the predicted state), `SameThing` (path-based identities never confuse two
things between passes), `SilenceIsComplete` (no diagnostic means nothing is missing),
`NativeHitsOwn` and `VerifiedIsReal` (descriptor checks and torn readings),
`ConsentIsExact`.

Every property has a mutation of the code's model that violates it, in `PROJECT.json`.

**Why the bounds are enough.** Two processes suffice for every race between a holder of the
lock and another, because a third could only get Busy. Two runs give one that crashed and one
that follows, two actions a predecessor and a successor; `execution_run` adds an unordered
third. With three inodes one is free for the next creation of the lock file while both
processes keep an unlinked one open, so acquisitions straddle any number of replacements. The
event ring is smaller than the number of events of one action, so gaps happen in every run.
`MaxEpoch`, `MaxRevision` and the scopes bound counters; `U64Max` is also the code's own limit,
and the exhausted counter is among the states checked. With capacity one, opening must wait
for the slot of a closed context. Histories need one session and a branch after two undos
under a changed limit; rebases need two sessions, one opened from a document of the other.
Drafts of three requests have every pair of interacting requests after or around a third
(create, then use, then disturb); two interventions of other tools can replace one volume by
another under its name or number; one change between two passes, or inside one, moves a
machine between any two variants of its family. Symmetry is used in `coordinator` only.

**Deadlock** is checked in `checkpoint_calls`, `coordinator`, `composer` and `composer_order`.
Where `CHECK_DEADLOCK FALSE` stands, the system really may stop: a finished run, an exhausted
revision, exhausted identities, a machine that is no longer changed.

**Fairness** is assumed in `registry` and `registry_panic` only: weak fairness of threads
inside a library call and of worker threads, which the scheduler runs, and requests return.
Nothing is assumed about the order in which a contended mutex is granted: after `close`
removed the handle only the threads that had looked it up can compete for it. Composition
terminates by `RestartsAddDependency`, a safety property.

## Assumptions that carry the results

- A receipt `Succeeded` or `Failed` means that the native tool was waited for; an unknown
  outcome says nothing about whether it still runs.
- In `Coordinator` a postcondition is reported Satisfied only if the probe saw the effect;
  `live` checks this of the recipe (`VerifiedIsReal`).
- `IncidentAcknowledgmentPolicy` is positive only if the operation had stopped in the fresh
  state it is shown (the contract in `incident.rs` 227–237). The production policies never
  answer positively. A policy that takes the free flock for quiescence breaks
  `NativeExclusion`, since native operations outlive their process.
- Effects of native operations survive a power loss; the operations themselves do not.
- fsync of a file or directory that returns success is durable.
- Run identities (UUID v7) are not drawn twice.
- The execution root's contract: `execution.lock` is replaced only while no guard is held.
- In `live`, creating a volume and reading back its UUID is one step. `invoke_create` passes
  no option about activation, so the new volume may come up mapped (lvcreate's default) or not
  (the mock library of the tests); the run explores both. Activation is a check, a
  call by name, and a read-back. From the admission of ext4 creation or mount to its
  verification other tools keep away from the guarded volume, as the exclusion that the
  policy attests says (`capability.rs`); nothing keeps them away before.
- A mapped volume with an open descriptor cannot be deactivated, a mounted one neither
  deactivated nor formatted: the kernel's rules.

## What the models showed besides

- The scope check works on readings. A filesystem made and mounted on another volume within
  one guest pass may be missed; the format's own signature check then still protects data.
- The native mount has no check of the filesystem UUID; verification finds a substitution.
- The goal check does not refuse mounts beyond the reviewed and planned ones.
- After a failed dispatch the coordinator still probes before it stops; nothing depends on it.
- With `LibmountProvider` beside other providers (used in tests only), a mount through a
  `/dev/mapper` alias may name a source that the graph does not have; the pass is refused,
  never published wrong. `PassIsPublished` is about services with the system provider.
- A clone that replaces its original between two passes, and reports the same identities, is
  not told apart, by design; two clones at once are not correlated at all (`SameThing`).
- Growing a partition carries no condition on its neighbours in the contract: the native
  tool has to refuse an overlap.
- A rebase that the session refuses because it has moved on consumes its review
  (`Facade.Accept`): the client has to prepare another one.

## Findings

**A job lost after a panic** (`registry_panic`). `disksgraph-ffi/src/registry.rs:681` says "Panic
ends the background owner rather than leaving a permanently active or successful job." A
worker whose forwarded request panics sends the panic reply (233) and then leaves its loop
(234). A thread that calls `ApplyStart` after the reply and before the receiver is dropped
gets its job accepted; the message is dropped unprocessed and the job never finishes: polls
report it unfinished and `JobClose` reports Busy until the context is closed, which still
works. A job accepted while the worker still serves always finishes, and calls return in
any case (`registry`).

**Plans that rely on an incidental order** (`composer_order`). `storage-provider/README.md:216`
says "Final replay and shared-resource checks still reject unsafe transitions and incidental
ordering; effects without named outputs require an explicit transition recipe.", and
`compose.rs:643` "Rejects conflicting accesses when the DAG does not define
their order." The check compares declared resources. Closing the mapping `map` and opening
another container as `map` declare none in common, and neither do the deactivation of a volume
group and the creation of an active volume in it: both plans are composed, and another order
that their dependencies allow is refused or ends elsewhere. A plan is executed in its
topological order, which is the one that was replayed, so a run that follows the plan is not
affected; the DAG promises more than it holds.

**The recipe with the production probe** (`live_native`). `README.md:13` says «Поддержанный
native write-рецепт — `CreateLv → activation → ext4 → Mount(Host)`.» and `docs/embedding.md:6`
the same. `open_with_policy` probes through `NativeSystemProvider`, which gives an active volume
the `Provides` edge of its group, a `Backs` edge from the device-mapper table, and its
`/dev/mapper` alias as a second path. `find_lv` (`bindings.rs` 492–559) accepts a volume with
exactly one parent edge, and endpoints with exactly one path. An active volume does not
resolve: when `lvcreate` leaves the new volume active, as it does by default, the run stops at
the verification of the creation, otherwise at that of the activation, with the marker in
place. `docs/product-contract.md:45` calls the final native acceptance of the owned constructors
outstanding. The unit test of the enrichment uses a table without dependencies, and the experiment
in a virtual machine uses `GuestProbe`, for which `live` shows that the recipe completes.

## Proofs

`CoordinatorProofs` proves, for any sets of processes, runs and actions, any plan order
and any number of crashes and power losses:

| Theorem | Statement |
|---|---|
| `TypeCorrect` | `Spec => []TypeOK` |
| `AlwaysMarked` | `Spec => []UnresolvedIsMarked` |
| `Exclusion` | `Spec => []NativeExclusion` |
| `AtMostOnce` | `Spec => InvokedAtMostOnce` |
| `LedgerRefinement` | `Spec => ImplementsLedger` |

They rest on `AttemptAssumption`, `NobodyAssumption` and `CoordinatorAssumption` (special
values are not members of the sets they extend, attempts are pairs of run and action, the
plan order is a sequence of actions), which TLC evaluates in the runs.

None of the properties is inductive. That an unresolved attempt is marked needs to know
what the marker names at each control point; that nobody else changes the marker needs the
lock; that an action is not invoked again needs its state, and that the state belongs to
this run needs fresh run identities; that only stopped operations are cleared needs what
the receipt or the policy said several steps earlier. `IInv` in `CoordinatorInvariant`
collects this: `LockInv` (who holds the lock where), `CallInv` (which call, which attempt),
`MarkerInv`, `IdentityInv`, `PhaseInv` and `BegunInv` (states before and after invocation),
`InflightInv`, `StoppedInv`, `ApprovedInv`. TLC checked `IInv` before it was proved. Each
conjunct has a lemma with one step per action, the types, lock, calls, marker and identities in
`CoordinatorInvariant`, the others in `CoordinatorProofs`, which puts them together and derives
the theorems; the refinement maps `open` to the unresolved attempt and `done` to `closed`.

`CoordinatorProofs` also proves, from the same assumptions, what a coordinator may claim:

| Theorem | Statement |
|---|---|
| `VerifiedIsTrue` | `Spec => []VerifiedHasEffect` |
| `VerifiedIsClean` | `Spec => []VerifiedRunIsClean` |
| `RemovalHasReason` | `Spec => RemovalIsJustified` |

`IInv` says which attempts are open, not what a process knows of its own. `OInv` adds, for each
process: `WorkInv` (the state of the attempt in hand at each control point, and that a seen
effect happened), `OrderInv` (actions leave Waiting in the plan's order), `LatchInv` (while a
verified action may still be marked, the stop latch is set, so the goal cannot be recorded),
`CleanInv` (with an open latch, no verified action of the run is on disk) and `ReviewInv` (nothing
happens between the comparison of an acknowledgment and the removal). A step is a step of one
process, which leaves the memory of the others alone (`OthersKeep`), while the shared histories
only grow (`HistoriesGrow`): that keeps the proof to one process at a time.

`CheckpointProofs` proves, for any processes, attempts and inodes, with crashes and power
losses between any two system calls, from `AttemptAssumption`, `NobodyAssumption` and
`InodeAssumption`:

| Theorem | Statement |
|---|---|
| `LockRefinement` | `LockSpec => ImplementsMutex` of `HostLock` |
| `ArmIsDurable` | `CallSpec => []ArmedSurvives` |
| `ClearIsDurable` | `CallSpec => []ClearedStaysCleared` |
| `CallersRefineMutex` | `CallSpec => ImplementsMutex` |

For the lock, the inductive invariant `LockInv` is `LockType`, `FlockInv` (an open descriptor has
an inode, and a process past the flock is the owner of that inode's flock) and `GuardIsNamed`:
every guard is on the inode that the name still has, so two guards would be one flock. With
`LockRefinement`, `Coordinator`, which uses the abstract lock, stands on the system calls. A step
of the callers is a step of `HostLock` or a power loss, which drops every descriptor. `CallInv`
adds to `LockInv` `CallerInv`
(a process inside a call has the guard, so it is the only one), `PhaseInv` (what a call in
progress knows of the entry, and a call about to return of the disk), and `SyncedInv` (the
content of a published file was synchronised before it was named, without which a power loss
would leave an armed marker unreadable).

`ExecutionRunProofs` proves, for any plan, any reports that callers may bring in any order,
any capacity of the event ring and any width of its counter, from `RunAssumption`:

| Theorem | Statement |
|---|---|
| `EvidenceAlwaysBacks` | `Spec => []EvidenceBacksState` |
| `AdmittedAfterPredecessors` | `Spec => []AdmissionSeesPredecessors` |
| `AlwaysSerial` | `Spec => []SerialExecution` |
| `LogAlwaysContiguous` | `Spec => []EventLogContiguous` |
| `ViewExactWhenCurrent` | `ReplaySpec => []CurrentViewIsExact` |

The first three are proved together. That an admission saw the effects of the predecessors
needs `OrderInv` (predecessors stay Verified once a check has begun, and completions come
after that) and `LatestInv` (no retained observation is later than the latest one, against
which the next is compared). The log is independent of them: `PushKeepsRing` shows that one
push keeps the ring contiguous whether or not it evicts, and an admission uses it twice. TLC
checked both invariants on the instance of `execution_run`, and `CallInv` on that of
`checkpoint_calls`. The last theorem is about a client that polls now and then: it rests on the
contiguous ring and on `ViewInv`, by which for every action the last event retained about it tells
its state (`Told`), and a view that differs from the state is either behind a gap, so that the
next poll takes the snapshot, or contradicted by an event after the cursor (`Follows`).

`RegistryProofs` proves, for any threads, identities and capacity, from `RegistryAssumption`
and `ThreadAssumption` (the numbers are natural, and no thread is called None):

| Theorem | Statement |
|---|---|
| `WorkersAlwaysCounted` | `Spec => []WorkersAreCounted` |
| `JobAlwaysAlone` | `Spec => []JobRunsAlone` |
| `WorkersWithinCapacity` | `Spec => [](Cardinality(Running) <= MaxContexts)` |

The slot is returned by the thread that drops the last reference, the worker is joined by the one
that closes. `RInv` says who may refer to a context at which control point (`RefInv`, `FreshInv`,
`HeldInv`), what the counter counts (`SlotInv`), who has the mutex (`OwnerInv`), and which message
can be in the channel or with the worker while a job is retained (`JobInv`, `MessageInv`).

`PlanSessionProofs` proves, for any sessions, baselines, correlations and limits, from
`SessionAssumption`:

| Theorem | Statement |
|---|---|
| `HistoryAlwaysTimeline` | `Spec => []HistoryIsTimeline` |
| `IdentitiesAlwaysStable` | `Spec => []IdentitiesAreStable` |
| `RevisionAlwaysNamesContent` | `Spec => RevisionNamesContent` |
| `RemovalNeverStrands` | `Spec => RemovalStrandsNothing` |
| `RebaseAlwaysTranslates` | `Spec => RebaseTranslates` |

`PlanSessionEdits` has what each command does to sequences of any length: the fields of the
session it leaves, the operations of the draft it makes, and its move along the line of drafts.
Over these, `HistoryInv` strengthens the timeline by the length of the stacks: `push_history` with
limit zero leaves a stack as it is, which is right only because the stack is empty then.
`ReviewInv` says that a review translates the document it was prepared from, so that
`accept_rebase`, which compares only that document, publishes a translation of the current draft.
`OperationInv` ranges over every draft on a line, saved or under review, because undo, load and
rebase bring any of them back; a fresh identity is then new to all of them. `NeighbourInv` is the
two-way form of `RemovalStrandsNothing` between neighbours on a line: undoing an addition removes
an operation, and nothing older can refer to its output, since every input was a known node when it
was entered. This is where `Observable` is needed: the output identities that
`PlanOperation::new` allocates are random, so no baseline has one of them before it is allocated.
TLC checked all these invariants on the instance of `plan_session`.

`Backend4Proofs` proves, for any plan documents, requests, answers and restarts, and any number of
retained objects, from `FacadeAssumption` (the numbers are natural, and a saved draft has the
fields of a session):

| Theorem | Statement |
|---|---|
| `ConsentHolds` | `Spec => []ConsentIsExact` |
| `RecordsHold` | `Spec => []StartedIsKept` |
| `RebasesAreOwned` | `Spec => RebaseIsOwned` |

A confirmation is checked two calls before the dispatch that relies on it, and the policy keeps it
between them. `BInv` therefore follows it: `PolicyInv` (what is on record as confirmed has the client's
consent, and the policy is about the run in progress while it is asked), `ShownInv` (reviews are shown of
drawn runs, under tokens in the order they were drawn, and a run that was asked has its answer or
is being asked now), `ExecInv` (the run in progress is the last one drawn, has no record yet, and
still has the room that was found for it) and `CallsInv` (the calls of a run are those up to where
it is, so that a verified record has all of them). `AppInv` is about the retained objects: handles
were drawn, none is drawn again, and every kind is within its bound. Each request is shown to keep
`AppInv`, the records and the ownership of rebases (`RequestServes`), each step of an apply to keep
`BInv`; every way a run may end is one lemma (`FinishKeeps`). TLC checked `BInv` on the instance of
`backend4`.

Only model-checked:

- every liveness property, since fairness and `ENABLED` are outside the prover;
- `Composer` and what it calls, `PlanRequests`, `PlanReport` and `Simulation`, and the observation
  modules `NativeProbe`, `ProbeAssembly` and `LiveEvidence`: their properties are about what folds
  and recursive definitions compute, which needs induction over data;
- `LiveRun` and `ProbeRun`, whose properties relate a run or a pass to what these definitions
  compute from its readings.

## Not modelled

- Reading the operating system: the bindings of `storage-provider/src/dylib`, framing of
  `transport.rs`, the text parsers and the lsblk fixture provider of `storage-probe`. The
  readings they return are inputs of `NativeProbe`.
- Serialisation with its versions and limits: `storage-engine/src/wire.rs`, the JSON of plan
  documents and of `checkpoint.rs`, the decoding of requests, the C entry points.
- The argument strings of the native calls; `LiveRun` has their checks and effects.
- `provider_compatibility.rs`, size formatting, error codes and messages: data without state.
- Backend manifests, loaded once before any state exists.
- The wording of an incident's assessment; the observations compared at an acknowledgment are
  modelled by whether the effect is there.
- Restart policies and relation effects in contracts: no provider produces them.
- The callback of `disksgraph-ffi/src/policy.rs` and the progress that a poll reports.
- The command line (`commands.rs`, `repl.rs`, `files.rs`), where each command is one use of the
  facade, and the sample consumer under `packaging`.

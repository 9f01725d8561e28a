------------------------------ MODULE Composer ------------------------------
(* storage-engine/src/compose.rs: fragments become one DAG of actions.  The
   draft is flattened, ordered by what is declared, replayed (and replayed
   again from the start whenever a missing output adds an edge), resolved,
   replayed once more, and published unless a resource conflict is unordered.
   The editor chains its fragments in the order of the requests; a library
   caller passes fragments without ordering. *)
EXTENDS PlanRequests

CONSTANTS Baselines,      \* [graph, runtime, capacity, requests, fragments, scopes, goal]
          MaxFragments    \* length of a draft

VARIABLES base, editor,   \* the observed state and who composes
          draft,          \* sequence of [request, created] or fragments
          phase, error,
          deps,           \* dependencies between global identities, a set of [from, to]
          p, steps,       \* the replay in progress
          report
vars == <<base, editor, draft, phase, error, deps, p, steps, report>>

Start(b) == Projection(b.graph, b.runtime, b.capacity)
CompositionError == {"Draft", "FragmentHasErrors", "DuplicateLocalAction",
    "UnknownLocalDependency", "UnknownRequirementAction", "SelfDependency",
    "UnknownOrderingAction", "PlannedNodeAlreadyExists", "DuplicatePlannedNode",
    "UnresolvedInput", "DependencyCycle", "ActionValidation", "ActionRejected", "Effect",
    "RequirementNotInContract", "AmbiguousRequirement", "UnresolvedRequirement",
    "AmbiguousResourceOrder", "UnknownIntentOrigin",
    "UncoveredIntent", "FinalSimulation", "ProtectedScopeViolation", "GoalNotReached"}

-----------------------------------------------------------------------------
\* Maintenance requests are the intents, in the order of the draft.
IsRequest(o) == "request" \in DOMAIN o
MaintenanceUpTo(k) ==
    SelectSeq(SubSeq(draft, 1, k), LAMBDA o : IsRequest(o) /\ o.request.request = "Maintenance")
Goal == IF editor THEN {} ELSE base.goal
Intents == IF editor THEN [k \in DOMAIN MaintenanceUpTo(Len(draft)) |->
                              MaintenanceUpTo(Len(draft))[k].request]
           ELSE IF Goal = {} THEN <<>> ELSE (CHOOSE g \in Goal : TRUE).intents
Lowered(k) == IF IsRequest(draft[k])
              THEN lower_operation(draft[k].request, draft[k].created, Len(MaintenanceUpTo(k)))
              ELSE {draft[k]}
fragments == [k \in DOMAIN draft |-> CHOOSE f \in Lowered(k) : TRUE]

\* fragment_action_ids: the position of an action in the flattened draft is its identity.
fragment_action_ids ==
    FlattenSeq([f \in DOMAIN fragments |->
        [i \in DOMAIN fragments[f].actions |-> <<f, fragments[f].actions[i].id>>]])
Known(f, local) == <<f, local>> \in Range(fragment_action_ids)
Global(f, local) == CHOOSE i \in DOMAIN fragment_action_ids : fragment_action_ids[i] = <<f, local>>
Actions == FlattenSeq([f \in DOMAIN fragments |->
    [i \in DOMAIN fragments[f].actions |->
        [origin |-> fragments[f].origin] @@ fragments[f].actions[i].operation]])
Requirements == FlattenSeq([f \in DOMAIN fragments |->
    [i \in DOMAIN fragments[f].requirements |->
        [action |-> Global(f, fragments[f].requirements[i].action),
         condition |-> fragments[f].requirements[i].condition]]])

\* With a goal, each of its intents needs the actions that implement it.
validate_intent_coverage ==
    IF Goal = {} THEN {}
    ELSE FirstOf(<<
        Code(\E a \in Range(Actions) : a.origin > Len(Intents), "UnknownIntentOrigin"),
        Code(\E k \in DOMAIN Intents :
                 ~actions_cover_intent(Intents[k], {a \in Range(Actions) : a.origin = k}),
             "UncoveredIntent")>>)

planned_node(a) ==
    IF a.op \in {"PartitionCreateTable", "PartitionCreate", "LuksFormat", "LuksOpen",
                 "LvmCreatePv", "LvmCreateVg", "LvmCreateLv", "FilesystemCreate",
                 "BtrfsCreate", "BtrfsCreateSubvolume"}
    THEN {a.planned} ELSE {}
referenced_nodes(a) ==
    CASE a.op \in {"LvmCreateVg", "BtrfsCreate"} -> Range(a.members)
      [] a.op \in {"BtrfsAddDevice", "BtrfsRemoveDevice"} -> {a.node, a.device}
      [] a.op \in {"Mount", "Persist"} -> mount_source_node(a.entry.source)
      [] a.op \in {"Unmount", "RemovePersistent"} -> {}
      [] OTHER -> {a.node}
Creators(n) == {i \in DOMAIN Actions : n \in planned_node(Actions[i])}

\* validate_draft of the editor.
validate_draft ==
    LET created == [k \in DOMAIN draft |-> draft[k].created]
        outputs == {n \in Range(created) : n # "none"}
    IN /\ \A k \in DOMAIN draft : created[k] # "none" =>
              ~Has(base.graph, created[k]) /\ \A j \in 1..(k - 1) : created[j] # created[k]
       /\ \A k \in DOMAIN draft : Lowered(k) # {} =>
              \A n \in referenced_nodes(Action(draft[k].request, created[k])) :
                  Has(base.graph, n) \/ n \in outputs

\* The first error of flatten_fragments, of the explicit ordering and of bind_planned_nodes.
LocalDeps == UNION {{[from |-> <<f, d.before>>, to |-> <<f, d.after>>] : d \in fragments[f].deps} :
                    f \in DOMAIN fragments}
Ordering == IF editor THEN {[from |-> e.before, to |-> e.after] : e \in requested_order(fragments)}
            ELSE {}
Declared == {[from |-> Global(e.from[1], e.from[2]), to |-> Global(e.to[1], e.to[2])] :
                 e \in LocalDeps \cup Ordering}
flatten_fragments ==
    LET Dangling(edges) == \E e \in edges : \E x \in {e.from, e.to} : ~Known(x[1], x[2])
    IN FirstOf(<<
        Code(~IsInjective(fragment_action_ids), "DuplicateLocalAction"),
        Code(\E f \in Range(fragments) : f.errors, "FragmentHasErrors"),
        Code(Dangling(LocalDeps), "UnknownLocalDependency"),
        Code(\E f \in DOMAIN fragments : \E r \in Range(fragments[f].requirements) :
                 ~Known(f, r.action), "UnknownRequirementAction"),
        Code(Dangling(Ordering), "UnknownOrderingAction"),
        Code(\E e \in Declared : e.from = e.to, "SelfDependency")>>)
Creation == UNION {{[from |-> c, to |-> i] : c \in UNION {Creators(n) :
                        n \in referenced_nodes(Actions[i]) \ DOMAIN base.graph.nodes}} :
                   i \in DOMAIN Actions}
bind_planned_nodes ==
    LET made == UNION {planned_node(Actions[i]) : i \in DOMAIN Actions}
    IN FirstOf(<<
        Code(\E n \in made : Has(base.graph, n), "PlannedNodeAlreadyExists"),
        Code(\E n \in made : Cardinality(Creators(n)) > 1, "DuplicatePlannedNode"),
        Code(\E i \in DOMAIN Actions : \E n \in referenced_nodes(Actions[i]) :
                 ~Has(base.graph, n) /\ n \notin made, "UnresolvedInput"),
        Code(\E e \in Creation : e.from = e.to, "SelfDependency")>>)

\* Parents are prepared before children; children are removed before parents.
runtime_mount_target(a) ==
    IF a.op = "Mount" THEN {[target |-> a.entry.target, context |-> a.entry.context]}
    ELSE IF a.op = "Unmount" THEN {[target |-> a.target, context |-> a.context]} ELSE {}
bind_mount_order(known) ==
    LET Bind(D, pair) ==
            LET parent == pair[1]
                child == pair[2]
                nested == \E x \in runtime_mount_target(Actions[parent]) :
                          \E y \in runtime_mount_target(Actions[child]) :
                              /\ x.context = y.context /\ x.target # y.target
                              /\ IsPrefix(x.target, y.target)
            IN IF ~nested \/ dependency_path(D, parent, child) \/ dependency_path(D, child, parent)
               THEN D
               ELSE D \cup {IF Actions[child].op = "Unmount" THEN [from |-> child, to |-> parent]
                            ELSE [from |-> parent, to |-> child]}
        n == Len(Actions)
    IN FoldLeft(Bind, known, [k \in 1..(n * n) |-> <<1 + ((k - 1) \div n), 1 + ((k - 1) % n)>>])

-----------------------------------------------------------------------------
\* An output that establishes a condition.
output_satisfies(o, c) ==
    CASE o.o = "Node" /\ c.c = "NodeExists" -> o.node = c.node
      [] o.o = "Node" /\ c.c = "NodeKind" -> o.node = c.node /\ matches_kind(o.spec, c.class)
      [] o.o = "FilesystemCheckPassed" /\ c.c = "FilesystemCheckPassed" -> o.node = c.node
      [] o.o = "BlockInterface" /\ c.c = "Writable" ->
             o.node = c.node /\ o.access = "ReadWrite"
      [] OTHER -> FALSE
\* The provider of a requirement among the contracts: none, one, or several when ambiguous.
requirement_provider(r, contracts, dependencies) ==
    LET providers == {i \in DOMAIN contracts :
                         /\ i # r.action /\ ~dependency_path(dependencies, r.action, i)
                         /\ \E o \in contracts[i].out : output_satisfies(o, r.condition)}
        before == {i \in providers : dependency_path(dependencies, i, r.action)}
        latest == {i \in before :
                      \A j \in before : j = i \/ dependency_path(dependencies, j, i)}
    IN IF latest # {} THEN latest ELSE providers

Emitted == {steps[k].action : k \in DOMAIN steps}
Order == topological_order(Len(Actions), deps)
Owned(i) == SelectSeq(Requirements, LAMBDA r : r.action = i)
Missing(i, r) == r.condition \notin describe_action(p.graph, Actions[i]).pre
\* Providers are looked for among the actions not replayed yet, as they are described now.
Pending(i, r) ==
    IF evaluate_prerequisite(p, r.condition) \in Satisfied THEN {}
    ELSE requirement_provider(r, [j \in DOMAIN Actions \ Emitted |->
                                      describe_action(p.graph, Actions[j])], deps)
\* The requirements of action i that do not simply hold; the first one decides.
bind_contextual_outputs(i) ==
    SelectSeq(Owned(i), LAMBDA r : Missing(i, r) \/ Pending(i, r) # {})

\* Contracts and checks of a completed replay.  Each requirement is resolved with the
\* dependencies already added for the ones before it.
StepOf(i) == CHOOSE s \in Range(steps) : s.action = i
Contracts == [i \in Emitted |-> StepOf(i).contract]
resolve_requirements ==
    LET Resolve(acc, r) ==
            LET check == StepOf(r.action).checks[r.condition]
                providers == requirement_provider(r, Contracts, acc.deps)
            IN IF acc.error # {} \/ check = "ObservedSnapshot" THEN acc
               ELSE IF Cardinality(providers) > 1
               THEN [acc EXCEPT !.error = {"AmbiguousRequirement"}]
               ELSE IF providers = {} /\ check = "Violated"
               THEN [acc EXCEPT !.error = {"UnresolvedRequirement"}]
               ELSE [acc EXCEPT !.deps = @ \cup {[from |-> i, to |-> r.action] : i \in providers}]
    IN FoldLeft(Resolve, [error |-> {}, deps |-> deps], Requirements)
validate_declared_requirements ==
    \A r \in Range(Requirements) : r.condition \in Contracts[r.action].pre
conflicting_resource(c, d) ==
    \E x \in c.acc, y \in d.acc : x.resource = y.resource /\ "Write" \in {x.mode, y.mode}
Ordered(i, j) == dependency_path(deps, i, j) \/ dependency_path(deps, j, i)
validate_resource_order ==
    \A i, j \in Emitted : i < j /\ conflicting_resource(Contracts[i], Contracts[j]) => Ordered(i, j)

-----------------------------------------------------------------------------
Restart == p' = Start(base) /\ steps' = <<>>
Reject(errors) == /\ error' \in errors \cap CompositionError /\ phase' = "rejected" /\ deps' = {}
                  /\ Restart /\ UNCHANGED <<base, editor, draft, report>>

Add == /\ phase = "draft" /\ Len(draft) < MaxFragments
       /\ \E o \in base.requests \cup (IF editor THEN {} ELSE base.fragments) :
              draft' = Append(draft, o)
       /\ UNCHANGED <<base, editor, phase, error, deps, p, steps, report>>

\* Mutation: the new dependency is not kept for the next attempt.
ExtendForgetting(extended, next) ==
    deps' = deps /\ next /\ Restart /\ UNCHANGED <<base, editor, draft, error, report>>

\* A cycle is an error; otherwise the replay starts (again) under the new dependencies.
Extend(extended, next) ==
    IF Len(topological_order(Len(Actions), extended)) < Len(Actions)
    THEN Reject({"DependencyCycle"})
    ELSE deps' = extended /\ next /\ Restart /\ UNCHANGED <<base, editor, draft, error, report>>

\* Everything before the first replay.
Flattened ==
    IF (editor /\ ~validate_draft) \/ \E k \in DOMAIN draft : Lowered(k) = {} THEN {"Draft"}
    ELSE FirstOf(<<validate_intent_coverage, flatten_fragments, bind_planned_nodes>>)
Flatten == /\ phase = "draft"
           /\ \E failed \in {Flattened} :
                  IF failed # {} THEN Reject(failed)
                  ELSE Extend(bind_mount_order(Declared \cup Creation), phase' = "trace")

\* A missing output adds an edge to its provider, and the replay starts again.
Rebind ==
    /\ phase = "trace" /\ Len(steps) < Len(Actions)
    /\ \E i \in {Order[Len(steps) + 1]} : \E bound \in {bind_contextual_outputs(i)} :
           /\ bound # <<>>
           /\ \E providers \in {Pending(i, Head(bound))} :
                  IF Missing(i, Head(bound)) THEN Reject({"RequirementNotInContract"})
                  ELSE IF Cardinality(providers) > 1 THEN Reject({"AmbiguousRequirement"})
                  ELSE Extend(deps \cup {[from |-> j, to |-> i] : j \in providers},
                              UNCHANGED phase)

ErrorOf == [Validation |-> "ActionValidation", PrerequisitesViolated |-> "ActionRejected",
            Effect |-> "Effect"]
\* One action of the replay.
Simulate ==
    /\ phase \in {"trace", "final"} /\ Len(steps) < Len(Actions)
    /\ \E i \in {Order[Len(steps) + 1]} :
           /\ phase = "trace" => bind_contextual_outputs(i) = <<>>
           /\ \E result \in {simulate_action(p, Actions[i])} :
                  IF result.error # "none" THEN Reject({ErrorOf[result.error]})
                  ELSE /\ p' = result.next
                       /\ steps' = Append(steps, SimulatedStep(i, p, result))
                       /\ UNCHANGED <<base, editor, draft, phase, error, deps, report>>

Resolve ==
    /\ phase = "trace" /\ Len(steps) = Len(Actions)
    /\ IF ~validate_declared_requirements THEN Reject({"RequirementNotInContract"})
       ELSE \E resolved \in {resolve_requirements} :
                IF resolved.error # {} THEN Reject(resolved.error)
                ELSE Extend(resolved.deps, phase' = "final")

\* ExecutionPlan::new with the contracts of the final replay.
Publish ==
    /\ phase = "final" /\ Len(steps) = Len(Actions)
    /\ IF ~validate_declared_requirements THEN Reject({"RequirementNotInContract"})
       ELSE IF ~validate_resource_order THEN Reject({"AmbiguousResourceOrder"})
       ELSE phase' = "composed" /\ UNCHANGED <<base, editor, draft, error, deps, p, steps, report>>
\* Mutation: the plan is published with its declared dependencies only.
PlanAsDeclared == ExecutionPlan(Actions, Contracts, Declared)
Plan == ExecutionPlan(Actions, Contracts, deps)

\* The preview of the editor keeps what it finds; composing for a goal refuses it.
Refused(r) ==
    FirstOf(<<Code(r.error # "none", "FinalSimulation"),
              Code(r.violations # {}, "ProtectedScopeViolation"),
              Code("Violated" \in r.goals, "GoalNotReached")>>)
\* What the preview adds for the editor: whether the actions of every request are its recipe.
Preview(r) ==
    IF ~editor THEN r
    ELSE LET Operations(f) == [i \in DOMAIN f.actions |-> f.actions[i].operation]
             recipes == \A k \in DOMAIN draft :
                 request_coverage(draft[k].request, draft[k].created, Operations(fragments[k]))
         IN r @@ [recipes |-> recipes, status |-> status(r, recipes)]
Analyse ==
    /\ phase = "composed"
    /\ \E scope \in base.scopes :
           \E r \in {analyse_plan(Start(base), Plan, Intents, scope, Goal)} :
               IF Goal # {} /\ Refused(r) # {} THEN Reject(Refused(r))
               ELSE /\ report' = {Preview(r) @@ [scope |-> scope]} /\ phase' = "analysed"
                    /\ UNCHANGED <<base, editor, draft, error, deps, p, steps>>

Init == /\ base \in Baselines /\ editor \in BOOLEAN /\ draft = <<>>
        /\ phase = "draft" /\ error = "none" /\ deps = {} /\ p = Start(base) /\ steps = <<>>
        /\ report = {}
Returned == phase \in {"analysed", "rejected"} /\ UNCHANGED vars
Next == Add \/ Flatten \/ Rebind \/ Simulate \/ Resolve \/ Publish \/ Analyse \/ Returned
Spec == Init /\ [][Next]_vars

-----------------------------------------------------------------------------
\* The final predictions of all orders the dependencies allow, up to what is merely stale;
\* {} stands for an order in which some action is refused.
RECURSIVE Outcomes(_, _)
Outcomes(q, done) ==
    LET ready == {i \in DOMAIN Actions \ done : \A d \in deps : d.to = i => d.from \in done}
    IN IF ready = {} THEN {{[q EXCEPT !.ev.stale = {}]}}
       ELSE UNION {UNION {IF r.error # "none" THEN {{}} ELSE Outcomes(r.next, done \cup {i}) :
                              r \in {simulate_action(q, Actions[i])}} : i \in ready}
\* A composed plan never relies on an incidental order: whatever its dependencies leave
\* open, every order of its actions is accepted and predicts the same state
\* (validate_resource_order after the final replay).
AnyOrderAgrees ==
    phase = "composed" => Outcomes(Start(base), {}) = {{[p EXCEPT !.ev.stale = {}]}}

\* The analysis of a composed plan never meets a contract that differs from its own
\* recalculation, refuses no action, and predicts what composition predicted: every contract
\* was taken from the last replay, in the order of the final dependencies.  For the editor
\* the independent check of the final state finds every request covered, and only a
\* protected scope blocks a draft that was composed.
ReplayAgrees ==
    \A r \in report : r.error \notin {"InvalidProtectedMount", "UnknownIntentOrigin"} =>
        /\ r.error = "none" /\ r.p = p
        /\ editor => r.covered /\ (r.status = "Blocked" <=> r.violations # {})

\* A step after which an earlier check of filesystem f says nothing about it.
Disturbs(step, f) ==
    LET a == Actions[step.action]
    IN \/ a.op = "Mount" /\ a.entry.source.s \in {"Filesystem", "Bind", "Other"}
          /\ (a.entry.source.s = "Filesystem" => a.entry.source.node = f)
       \/ a.op \in {"FilesystemResize", "FilesystemRepair"} /\ a.node = f
       \/ a.op \in {"PartitionResize", "LvmResizeLv", "LuksResize", "PartitionDelete",
                    "LvmRemoveLv", "LuksClose", "LuksFormat", "FilesystemCreate"}
          /\ a.node \in Below(step.before.graph.deps, {f})
\* Wherever a replay stands, a filesystem that counts as checked was checked by force in this
\* very replay, and nothing since has mounted it, written it or moved what it lies on: the
\* condition under which a shrink is accepted (invalidate_filesystem_checks, apply_outputs).
CheckedIsFresh ==
    \A f \in p.ev.checked : \E k \in DOMAIN steps :
        /\ Actions[steps[k].action].op = "FilesystemCheck"
        /\ Actions[steps[k].action].node = f /\ Actions[steps[k].action].force
        /\ \A j \in (k + 1)..Len(steps) : ~Disturbs(steps[j], f)

\* Extents of a group: those still free and those of its volumes.
Extents(q, vg) ==
    q.ev.free[vg] + FoldSet(LAMBDA e, sum : sum +
        (CHOOSE x \in lvm_lv_allocation(q.graph, vg, e.to, q.graph.nodes[e.to].size) : TRUE),
        0, From(q.graph, vg, "Provides"))
\* While the free extents of a volume group count as known, creating, resizing and removing
\* volumes in any accepted sequence neither loses nor invents one (apply_allocation_effects).
LedgerExact == \A vg \in DOMAIN p.ev.free : Extents(p, vg) = Extents(Start(base), vg)

\* Every predicted state is one a host can be in: known sizes fit what they lie on, and a
\* mounted node exists.  No sequence of resizes, removals and mounts that the prerequisites
\* accept leaves a layer without room or a mount without its source.
PredictionIsSound ==
    /\ \A e \in p.graph.deps : e.kind = "Backs" =>
           \A s \in p.graph.nodes[e.to].size, b \in p.graph.nodes[e.from].size : s <= b
    /\ \A m \in p.runtime : \A n \in mount_source_node(m.source) : Has(p.graph, n)

\* The part of a predicted state that a scope protects.
Protected(q, scope) ==
    [nodes |-> [n \in scope.nodes \cap DOMAIN q.graph.nodes |->
                    <<SpecOf(q.graph.nodes[n]), Incident(q.graph, n)>>],
     mounts |-> {m \in q.runtime : \E x \in scope.runtime :
                     m.context = x.context /\ (\/ IsPrefix(m.target, x.target)
                                               \/ IsPrefix(x.target, m.target))},
     persistent |-> {m \in q.persistent : \E x \in scope.persistent : m.context = x.context}]
\* A plan reported without protection violations (a preview that is not blocked) leaves every
\* protected node, its edges, and every protected mount as they were, at the end and at each
\* step on the way (check_protected_scope reads only what the contracts declare).
ProtectedUntouched ==
    \A r \in report : (IF editor THEN r.status \notin {"Invalid", "Blocked"}
                       ELSE r.error = "none" /\ r.violations = {}) =>
        \A q \in {s.before : s \in Range(r.steps)} \cup {r.p} :
            Protected(q, r.scope) = Protected(Start(base), r.scope)

\* Composition comes to an end although it starts over whenever an output is missing: each
\* restart keeps all dependencies and adds one that was not there, of which there are only
\* finitely many, and no step before the end is stuck (simulate_order).
RestartsAddDependency ==
    [][phase = "trace" /\ phase' = "trace" /\ Len(steps') <= Len(steps) =>
           deps \subseteq deps' /\ deps # deps']_vars
=============================================================================

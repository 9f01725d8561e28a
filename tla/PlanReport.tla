----------------------------- MODULE PlanReport -----------------------------
(* storage-engine/src/simulate.rs and validate.rs: what is said about a plan
   that was replayed: its goals, its protected scope, its intents.  A plan is
   its actions by identity, the contract of each, and the dependencies among
   them; an action carries the index of its intent, 0 for none. *)
EXTENDS Simulation

\* Identities of the actions are 1..n; the lowest one whose predecessors are out comes next.
\* The result is shorter than n when the dependencies have a cycle.
topological_order(n, deps) ==
    LET Step(order, i) ==
            LET ready == {k \in 1..n : /\ k \notin Range(order)
                                       /\ \A d \in deps : d.to = k => d.from \in Range(order)}
            IN IF ready = {} THEN order ELSE Append(order, Min(ready))
    IN FoldLeft(Step, <<>>, [i \in 1..n |-> i])
dependency_path(deps, before, after) ==
    \E d \in deps : d.from = before /\ after \in Above(deps, {d.to})

ExecutionPlan(actions, contracts, deps) ==
    [actions |-> actions, contracts |-> contracts, deps |-> deps]
ordered_actions(plan) == topological_order(Len(plan.actions), plan.deps)

\* SimulatedStep; an invalidated activation includes everything above the node.
InvalidatedFacts(p, c) ==
    c.stale \cup [scope : Above(p.graph.deps, {i.scope : i \in {j \in c.stale : j.kind = "Activation"}}),
                  kind : {"Activation"}]
SimulatedStep(i, p, result) ==
    [action |-> i, contract |-> result.contract, checks |-> result.checks,
     invalidated |-> InvalidatedFacts(p, result.contract), before |-> p]

\* The replay of a frozen plan stops at the first action it refuses.
replay_plan(start, plan) ==
    LET Extend(r, i, result) ==
            IF result.error # "none" THEN [r EXCEPT !.error = "Action"]
            ELSE [r EXCEPT !.p = result.next, !.steps = Append(@, SimulatedStep(i, r.p, result))]
        Next(r, i) ==
            IF r.error # "none" THEN r
            ELSE IF verify_imported_contract(r.p.graph, plan.actions[i], plan.contracts[i]) = {}
            THEN [r EXCEPT !.error = "ContractMismatch"]
            ELSE Extend(r, i, simulate_action(r.p, plan.actions[i]))
    IN FoldLeft(Next, [error |-> "none", p |-> start, steps |-> <<>>], ordered_actions(plan))

-----------------------------------------------------------------------------
\* Goals are compared with three values; only a requested size of {} leaves capacity unmanaged.
compare_graph(projected, requested) ==
    LET same == /\ DOMAIN projected.nodes = DOMAIN requested.nodes
                /\ \A n \in DOMAIN projected.nodes :
                       /\ projected.nodes[n].kind = requested.nodes[n].kind
                       /\ projected.nodes[n].attrs = requested.nodes[n].attrs
                /\ projected.deps = requested.deps /\ projected.rels = requested.rels
        managed == {n \in DOMAIN requested.nodes : requested.nodes[n].size # {}}
    IN IF ~same THEN "Violated"
       ELSE IF \E n \in managed : projected.nodes[n].size \notin {{}, requested.nodes[n].size}
       THEN "Violated"
       ELSE IF \E n \in managed : projected.nodes[n].size = {} THEN "Unknown" ELSE "Satisfied"
runtime_mount_check(p, entry) == IF entry \in p.runtime THEN "Satisfied" ELSE "Violated"
persistent_mount_check(p, entry) ==
    IF entry \in p.persistent THEN "Satisfied"
    ELSE IF <<entry.target, entry.context>> \in p.ev.persistent THEN "Violated" ELSE "Unknown"
\* A goal is a graph, mounts, whether boot is managed, and the intents.
compare_goal(p, goal) ==
    {compare_graph(p.graph, goal.graph)}
    \cup {runtime_mount_check(p, entry) : entry \in goal.runtime}
    \cup {persistent_mount_check(p, entry) : entry \in goal.persistent}
    \cup {IF goal.boot = "Unmanaged" THEN "Satisfied" ELSE "Unknown"}

\* Typed operations that implement an explicit intent.
actions_cover_intent(intent, actions) ==
    LET Done(op, n) == {a \in actions : a.op = op /\ a.node = n}
    IN CASE intent.intent = "Check" ->
                \E a \in Done("FilesystemCheck", intent.node) : a.force = intent.force
         [] intent.intent = "Repair" ->
                \E a \in Done("FilesystemRepair", intent.node) : a.force = intent.force
         [] intent.intent = "ConvertBtrfsProfiles" ->
                \E a \in Done("BtrfsConvertProfiles", intent.node) : a.allocation = intent.allocation
         [] intent.intent = "SetActivation" ->
                \E a \in Done("LvmSetActivation", intent.node) : a.active = intent.active
         [] intent.intent = "ReplaceMember" ->
                /\ \E a \in Done("BtrfsRemoveDevice", intent.node) : a.device = intent.old
                /\ \E a \in Done("BtrfsAddDevice", intent.node) : a.device = intent.new
         [] intent.intent = "Reformat" -> FALSE

-----------------------------------------------------------------------------
\* ProtectedScope: nodes, and targets of runtime and persistent mounts with their contexts.
ProtectedScope(nodes, runtime, persistent) ==
    [nodes |-> nodes, runtime |-> runtime, persistent |-> persistent]
ProtectedMount(target, context) == [target |-> target, context |-> context]
validate_protected_scope(scope) ==
    \A m \in scope.runtime \cup scope.persistent :
        /\ valid_mount_path(m.target)
        /\ m.context.k = "TargetRoot" => valid_mount_path(m.context.root)
graph_effect_touches(x, n) ==
    IF x.e \in {"InsertDependency", "RemoveDependency"} THEN n \in {x.edge.from, x.edge.to}
    ELSE x.node = n
NodeTouched(step, n) ==
    LET c == step.contract
        mutating == \/ \E x \in c.acc : x.mode = "Write"
                    \/ c.graph # <<>> \/ c.mounts # <<>> \/ c.alloc # <<>>
    IN \/ \E x \in c.acc : /\ x.mode = "Write"
                           /\ x.resource \in {Resource(r, n) :
                                                  r \in {"Node", "PartitionTable", "LvmMetadata"}}
       \/ mutating /\ \E i \in step.invalidated : i.kind # "Mount" /\ i.scope = n
       \/ \E x \in Range(c.graph) : graph_effect_touches(x, n)
\* Mutation: mounts above and below a protected one are overlooked.
RuntimeTouchedExactly(step, m) ==
    \E x \in Range(step.contract.mounts) :
        \/ x.m = "AddRuntime" /\ x.entry.context = m.context /\ x.entry.target = m.target
        \/ x.m = "RemoveRuntime" /\ x.context = m.context /\ x.target = m.target
RuntimeTouched(step, m) ==
    LET targets == {x.entry : x \in {y \in Range(step.contract.mounts) : y.m = "AddRuntime"}}
                   \cup {x \in Range(step.contract.mounts) : x.m = "RemoveRuntime"}
    IN \E x \in targets : /\ x.context = m.context
                          /\ IsPrefix(m.target, x.target) \/ IsPrefix(x.target, m.target)
PersistentTouched(step, m) ==
    [resource |-> PersistentConfig(m.context), mode |-> "Write"] \in step.contract.acc
\* ProtectionViolation: the action and the aspect it touches.
check_protected_scope(steps, scope) ==
    UNION {{<<s.action, "Node">> : n \in {x \in scope.nodes : NodeTouched(s, x)}}
           \cup {<<s.action, "RuntimeMount">> : m \in {x \in scope.runtime : RuntimeTouched(s, x)}}
           \cup {<<s.action, "PersistentMount">> :
                     m \in {x \in scope.persistent : PersistentTouched(s, x)}} : s \in Range(steps)}

\* Unknown conditions and goals stay obligations.
SimulationReport(replay, plan, intents, scope, goal) ==
    LET known == \A a \in Range(plan.actions) : a.origin \in 0..Len(intents)
    IN [error |-> IF ~validate_protected_scope(scope) THEN "InvalidProtectedMount"
                  ELSE IF ~known THEN "UnknownIntentOrigin" ELSE replay.error,
        steps |-> replay.steps, p |-> replay.p,
        goals |-> UNION {compare_goal(replay.p, g) : g \in goal},
        violations |-> check_protected_scope(replay.steps, scope),
        covered |-> \A k \in DOMAIN intents : actions_cover_intent(intents[k],
                        {a \in Range(plan.actions) : a.origin = k}),
        obligations |-> UNION {{<<s.action, c.c>> : c \in {x \in s.contract.pre :
                                    s.checks[x] = "Unknown"}} : s \in Range(replay.steps)}]
analyse_plan(start, plan, intents, scope, goal) ==
    SimulationReport(replay_plan(start, plan), plan, intents, scope, goal)
is_complete(report) ==
    /\ report.violations = {} /\ report.obligations = {} /\ report.covered
    /\ report.goals \subseteq {"Satisfied"}
=============================================================================

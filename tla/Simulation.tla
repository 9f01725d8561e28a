----------------------------- MODULE Simulation -----------------------------
(* storage-engine/src/effects.rs, prerequisites.rs, simulation_evidence.rs:
   one typed action checked against, and applied to, a predicted state.  A
   projection is the predicted configuration (graph, runtime and persistent
   mounts) with the evidence gathered so far; a step that fails yields {}. *)
EXTENDS ProviderContract

\* SimulationEvidence: activations, block interfaces and free extents are partial functions.
SimulationEvidence(capacity) ==
    [persistent |-> {}, active |-> <<>>, iface |-> <<>>, free |-> capacity, spent |-> {},
     projected |-> {}, checked |-> {}, mounted |-> FALSE, stale |-> {}]
\* DesiredState::from_current keeps the runtime mounts; persistent ones are unread.
Projection(graph, runtime, capacity) ==
    [graph |-> graph, runtime |-> runtime, persistent |-> {}, ev |-> SimulationEvidence(capacity)]
Without(f, keys) == Restrict(f, DOMAIN f \ keys)
At(p, target, context) == {m \in p.runtime : m.target = target /\ m.context = context}

\* CheckStatus; a satisfied one names its evidence.
Satisfied == {"ObservedSnapshot", "PredictedEffect"}
Evidence(predicted) == IF predicted THEN "PredictedEffect" ELSE "ObservedSnapshot"
satisfied_for_node(p, n) == Evidence(n \in p.ev.projected)
mount_evidence(p) == Evidence(p.ev.mounted)
IfHas(p, n, status) == IF Has(p.graph, n) THEN status ELSE "Violated"
is_observation_stale(p, n, kind) == [scope |-> n, kind |-> kind] \in p.ev.stale
has_mounted_descendant(p, target, context) ==
    \E m \in p.runtime : m.context = context /\ m.target # target /\ IsPrefix(target, m.target)
UnresolvedMounts(p) == \E m \in p.runtime : m.source.s \in {"Bind", "Other"}

\* A predicted deactivation or interface supersedes the observed endpoint.
evaluate_endpoint(p, n, writable) ==
    LET block == p.graph.nodes[n].facts.block
        read_only == UNION {b.ro : b \in block}
    IN IF ~Has(p.graph, n) \/ (n \in DOMAIN p.ev.active /\ ~p.ev.active[n]) THEN "Violated"
       ELSE IF n \in DOMAIN p.ev.iface
       THEN IF writable /\ p.ev.iface[n] = "ReadOnly" THEN "Violated" ELSE "PredictedEffect"
       ELSE IF \E k \in {"Activation", "Presence"} : is_observation_stale(p, n, k) THEN "Unknown"
       ELSE IF ~writable THEN IF block # {} THEN "ObservedSnapshot" ELSE "Unknown"
       ELSE IF read_only = {} THEN "Unknown"
       ELSE IF TRUE \in read_only THEN "Violated" ELSE "ObservedSnapshot"

evaluate_mount_source(p, source) ==
    LET node == mount_source_node(source)
        n == CHOOSE m \in node : TRUE
        backing == {e.from : e \in Into(p.graph, n, "Backs")}
    IN IF node = {} THEN "Unknown"
       ELSE IF ~IsKind(p.graph, n, {SourceKinds[source.s]}) THEN "Violated"
       ELSE IF /\ p.graph.nodes[n].kind = "Filesystem" /\ p.graph.nodes[n].attrs.fs # "Btrfs"
               /\ Cardinality(Into(p.graph, n, "Backs")) = 1
               /\ \A b \in backing : matches_kind(p.graph.nodes[b], "Block")
       THEN evaluate_endpoint(p, CHOOSE b \in backing : TRUE, FALSE)
       ELSE "Unknown"

\* Mutation: the new size is compared with the present one, not with what rests on the node.
evaluate_dependent_sizes_of_node(p, n, size) ==
    IF \E s \in p.graph.nodes[n].size : size > s + 1 THEN "Violated" ELSE "Unknown"
evaluate_dependent_sizes(p, n, size) ==
    LET above == {e.to : e \in From(p.graph, n, "Backs")}
    IN IF \E m \in above : \E s \in p.graph.nodes[m].size : s > size THEN "Violated"
       ELSE IF \E m \in above : p.graph.nodes[m].size = {} THEN "Unknown"
       ELSE Evidence((above \cup {n}) \cap p.ev.projected # {})
evaluate_backing_size(p, n, size) ==
    LET below == {e.from : e \in Into(p.graph, n, "Backs")}
        sizes == UNION {p.graph.nodes[m].size : m \in below}
    IN IF Cardinality(Into(p.graph, n, "Backs")) # 1 \/ sizes = {} THEN "Unknown"
       ELSE IF \E s \in sizes : s < size THEN "Violated"
       ELSE Evidence((below \cup {n}) \cap p.ev.projected # {})
evaluate_capacity(p, vg, amount) ==
    IF amount = {} \/ vg \notin DOMAIN p.ev.free THEN "Unknown"
    ELSE IF \E n \in amount : p.ev.free[vg] < n THEN "Violated"
    ELSE Evidence(vg \in p.ev.spent)

\* A node is in use when something rests on it or it is mounted; unresolved mounts may hide a use.
Unused(p, n, used, predicted) ==
    IF ~Has(p.graph, n) \/ used THEN "Violated"
    ELSE IF UnresolvedMounts(p) THEN "Unknown" ELSE predicted
evaluate_prerequisite(p, c) ==
    CASE c.c = "NodeExists" -> IfHas(p, c.node, satisfied_for_node(p, c.node))
      [] c.c = "NodeKind" ->
             IF Has(p.graph, c.node) /\ matches_kind(p.graph.nodes[c.node], c.class)
             THEN satisfied_for_node(p, c.node) ELSE "Violated"
      [] c.c = "NoUnexpectedConsumers" ->
             Unused(p, c.node, \/ \E e \in p.graph.deps : e.from = c.node
                               \/ \E m \in p.runtime : c.node \in mount_source_node(m.source),
                    satisfied_for_node(p, c.node))
      [] c.c = "NoUnexpectedRelations" ->
             IF Has(p.graph, c.node) /\ \A e \in p.graph.rels : c.node \notin {e.from, e.to}
             THEN satisfied_for_node(p, c.node) ELSE "Violated"
      [] c.c = "Writable" -> evaluate_endpoint(p, c.node, TRUE)
      [] c.c = "MountSourceAvailable" -> evaluate_mount_source(p, c.source)
      [] c.c = "FilesystemUnmounted" ->
             Unused(p, c.node,
                    \E m \in p.runtime : m.source.s = "Filesystem" /\ m.source.node = c.node,
                    mount_evidence(p))
      [] c.c = "FilesystemCheckPassed" ->
             IF c.node \in p.ev.checked THEN "PredictedEffect" ELSE "Violated"
      [] c.c \in {"FilesystemMinimumSize", "DestructiveApproval", "CredentialAvailable",
                  "ExtentAvailable"} -> "Unknown"
      [] c.c = "DistinctNodes" -> IF IsInjective(c.members) THEN "PredictedEffect" ELSE "Violated"
      [] c.c = "DependentsFitWithin" ->
             IfHas(p, c.node, evaluate_dependent_sizes(p, c.node, c.size))
      [] c.c = "BackingSizeAtLeast" ->
             IfHas(p, c.node, evaluate_backing_size(p, c.node, c.size))
      [] c.c = "CapacityAvailable" -> evaluate_capacity(p, c.vg, c.amount)
      [] c.c = "MountTargetAvailable" ->
             IF At(p, c.target, c.context) # {} THEN "Violated" ELSE mount_evidence(p)
      [] c.c = "MountDescendantsAbsent" ->
             IF has_mounted_descendant(p, c.target, c.context) THEN "Violated"
             ELSE mount_evidence(p)
evaluate_prerequisites(p, conditions) == [c \in conditions |-> evaluate_prerequisite(p, c)]

-----------------------------------------------------------------------------
\* Activation is lost by everything above; a stale endpoint revokes what was predicted of it.
invalidate_observations(p, stale) ==
    LET nodes(kinds) == {i.scope : i \in {j \in stale : j.kind \in kinds}}
        inactive == Above(p.graph.deps, nodes({"Activation"}))
        revoked == inactive \cup nodes({"Presence"})
    IN [p EXCEPT !.ev.stale = @ \cup stale \cup [scope : inactive, kind : {"Activation"}],
                 !.ev.iface = Without(@, revoked), !.ev.active = Without(@, revoked)]
\* Mutation: only a change of the filesystem itself ends its check.
invalidate_filesystem_checks_in_place(p, stale) ==
    [p EXCEPT !.ev.checked = @ \ {i.scope : i \in {j \in stale : j.kind = "Content"}}]
invalidate_filesystem_checks(p, stale) ==
    LET carried == {e \in p.graph.deps : e.kind \in {"Backs", "Contains"}}
        touched == {i.scope : i \in {j \in stale : j.kind \in {"Content", "Geometry", "Presence"}}}
    IN [p EXCEPT !.ev.checked = @ \ Above(carried, touched)]

\* Effects on a projection; {} where the code returns an error.
update_node(p, x, allowed, updated) ==
    IF Has(p.graph, x.node) /\ allowed
    THEN {[p EXCEPT !.graph.nodes[x.node] = updated, !.ev.projected = @ \cup {x.node}]} ELSE {}
GraphEffect(p, x) ==
    CASE x.e = "InsertNode" ->
             IF Has(p.graph, x.node) THEN {}
             ELSE {[p EXCEPT !.graph = insert_new(@, x.node, Node(x.spec, NodeFacts)),
                             !.ev.projected = @ \cup {x.node}]}
      [] x.e = "RemoveNode" ->
             IF ~Has(p.graph, x.node) THEN {}
             ELSE {[p EXCEPT !.graph = remove_node(@, x.node), !.ev.projected = @ \ {x.node},
                             !.ev.active = Without(@, {x.node}), !.ev.iface = Without(@, {x.node})]}
      [] x.e = "SetNodeSize" ->
             update_node(p, x, TRUE, [p.graph.nodes[x.node] EXCEPT !.size = x.size])
      [] x.e = "SetAttribute" ->
             update_node(p, x, matches_kind(p.graph.nodes[x.node], x.class),
                         [p.graph.nodes[x.node] EXCEPT !.attrs[x.field] = x.value])
      [] x.e = "InsertDependency" -> {[p EXCEPT !.graph.deps = @ \cup {x.edge}]}
      [] x.e = "RemoveDependency" ->
             IF x.edge \in p.graph.deps THEN {[p EXCEPT !.graph.deps = @ \ {x.edge}]} ELSE {}
      [] x.e = "SetActivation" ->
             IF ~Has(p.graph, x.node) THEN {}
             ELSE {[p EXCEPT !.ev.active = (x.node :> x.active) @@ @,
                             !.ev.iface = IF x.active THEN @ ELSE Without(@, {x.node})]}
MountEffect(p, x) ==
    CASE x.m = "AddRuntime" ->
             LET source == x.entry.source
             IN IF \/ At(p, x.entry.target, x.entry.context) # {}
                   \/ has_mounted_descendant(p, x.entry.target, x.entry.context)
                THEN {}
                ELSE {[p EXCEPT !.runtime = @ \cup {x.entry}, !.ev.mounted = TRUE, !.ev.checked =
                          IF source.s \in {"Bind", "Other"} THEN {}
                          ELSE IF source.s = "Filesystem" THEN @ \ {source.node} ELSE @]}
      [] x.m = "RemoveRuntime" ->
             IF has_mounted_descendant(p, x.target, x.context) THEN {}
             ELSE {[p EXCEPT !.runtime = @ \ At(p, x.target, x.context), !.ev.mounted = TRUE]}
      [] x.m = "SetPersistent" ->
             {[p EXCEPT !.persistent = {m \in @ : \/ m.target # x.entry.target
                                                   \/ m.context # x.entry.context}
                                       \cup {x.entry},
                        !.ev.persistent = @ \cup {<<x.entry.target, x.entry.context>>}]}
      [] x.m = "RemovePersistent" ->
             {[p EXCEPT !.persistent = {m \in @ : m.target # x.target \/ m.context # x.context},
                        !.ev.persistent = @ \cup {<<x.target, x.context>>}]}
\* Mutation: released extents are not given back.
AllocationEffectUnreleased(p, x) ==
    IF x.a = "Invalidate"
    THEN {[p EXCEPT !.ev.free = Without(@, {x.vg}), !.ev.spent = @ \cup {x.vg}]}
    ELSE IF x.vg \notin DOMAIN p.ev.free \/ x.a = "Release" THEN {p}
    ELSE {[p EXCEPT !.ev.free[x.vg] = @ - n, !.ev.spent = @ \cup {x.vg}] :
              n \in {m \in x.amount : m <= p.ev.free[x.vg]}}
AllocationEffect(p, x) ==
    LET known == x.vg \in DOMAIN p.ev.free
        left == {p.ev.free[x.vg] + (IF x.a = "Release" THEN n ELSE -n) : n \in x.amount}
    IN IF x.a = "Invalidate"
       THEN {[p EXCEPT !.ev.free = Without(@, {x.vg}), !.ev.spent = @ \cup {x.vg}]}
       ELSE IF ~known THEN {p}
       ELSE {[p EXCEPT !.ev.free[x.vg] = n, !.ev.spent = @ \cup {x.vg}] :
                 n \in left \cap 0..BytesMax}
Each(effect(_, _), projections, effects) ==
    FoldLeft(LAMBDA S, x : UNION {effect(p, x) : p \in S}, projections, effects)

\* All effects of a contract or none.
apply_effect_with_invalidations(p, c) ==
    LET fresh == invalidate_filesystem_checks(invalidate_observations(p, c.stale), c.stale)
    IN {q \in Each(AllocationEffect, Each(MountEffect, Each(GraphEffect, {fresh}, c.graph), c.mounts),
                    c.alloc) : validate_structure(q.graph)}
apply_outputs(p, outputs) ==
    LET ifaces == {o \in outputs : o.o = "BlockInterface"}
    IN [p EXCEPT !.ev.iface = [n \in {o.node : o \in ifaces} |->
                                   (CHOOSE o \in ifaces : o.node = n).access] @@ @,
                 !.ev.checked = @ \cup {o.node : o \in {x \in outputs :
                                                           x.o = "FilesystemCheckPassed"}}]

\* SimulatedAction, or the kind of ActionSimulationError.
SimulatedAction(p, contract, checks, after) ==
    LET Result(error, next) == [error |-> error, contract |-> contract, checks |-> checks,
                                next |-> next]
    IN IF \E c \in contract.pre : checks[c] = "Violated" THEN Result("PrerequisitesViolated", p)
       ELSE IF after = {} THEN Result("Effect", p)
       ELSE Result("none", apply_outputs(CHOOSE q \in after : TRUE, contract.out))
Described(p, contract) ==
    SimulatedAction(p, contract, evaluate_prerequisites(p, contract.pre),
                    apply_effect_with_invalidations(p, contract))
Invalid(p) == [error |-> "Validation", next |-> p]
simulate_action(p, a) ==
    IF validate_provider_action(p.graph, a) # {} THEN Invalid(p)
    ELSE Described(p, describe_action(p.graph, a))
=============================================================================

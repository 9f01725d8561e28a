---------------------------- MODULE LiveEvidence ----------------------------
(* storage-engine/src/live.rs, live/*.rs, editing/correlate.rs: what one
   publication of a probe establishes about nodes of the reviewed baseline
   and about nodes a run has created.  A publication is
     [instance, epoch, graph, mounts, blocking, free]:
   mounts is a sequence since records may repeat, blocking says that a
   diagnostic other than a warning came with it, and free maps the volume
   groups with validated capacity to their free extents. *)
EXTENDS ProviderContract

\* LiveCheckStatus.  Absence in a partial view is never taken for evidence.
LiveCheckStatus == {"Satisfied", "Violated", "Unknown"}
Verdict(holds) == IF holds THEN "Satisfied" ELSE "Violated"
Known(values, expected) == IF values = {} THEN "Unknown" ELSE Verdict(expected \in values)
Absence(found) == IF found THEN "Violated" ELSE "Unknown"
qualify_observed_status(o, status) ==
    IF status = "Satisfied" /\ o.blocking THEN "Unknown" ELSE status

\* ExternalId; mem::discriminant is the field t.
Id(t, v) == [t |-> t, v |-> v, fs |-> "none"]
FilesystemId(fs, v) == [t |-> "Filesystem", v |-> v, fs |-> fs]
DurableTypes == [LvmVg |-> {"LvmVgUuid"}, LvmLv |-> {"LvmLvUuid"}, LvmPv |-> {"LvmPvUuid"},
    Disk |-> {"Wwn"}, Partition |-> {"GptPartitionUuid"},
    NvmeNamespace |-> {"NvmeUuid", "NvmeNguid", "NvmeEui64"}, Filesystem |-> {"Filesystem"}]
supported_identity(node, id) ==
    /\ node.kind \in DOMAIN DurableTypes /\ id.t \in DurableTypes[node.kind]
    /\ id.v # ""
    /\ id.t = "Filesystem" => id.fs = node.attrs.fs
Supported(node) == {id \in node.facts.ids : supported_identity(node, id)}
OnlyOfType(node, id) == {i \in node.facts.ids : i.t = id.t} = {id}
Bearers(g, id) == {n \in DOMAIN g.nodes : id \in g.nodes[n].facts.ids}
present(g, n) == Has(g, n) /\ g.nodes[n].facts.presence = "Present"
compatible(a, b) ==
    /\ a.kind = b.kind /\ a.kind \in DOMAIN DurableTypes
    /\ a.kind = "LvmLv" => a.attrs.layout = b.attrs.layout
    /\ a.kind = "Filesystem" => a.attrs.fs = b.attrs.fs
    /\ a.kind = "NvmeNamespace" => a.attrs.format = b.attrs.format

\* NodeCorrelation, and the at most one match of a node by its one durable identity.
NodeCorrelation(source, target, identity) ==
    [source |-> source, target |-> target, identity |-> identity]
\* Mutation: a second bearer of the identity is not looked for.
MatchByFirst(current, next, source, id) ==
    {NodeCorrelation(source, target, id) : target \in {t \in Bearers(next, id) :
        present(next, t) /\ compatible(current.nodes[source], next.nodes[t])}}
MatchBy(current, next, source, id) ==
    {NodeCorrelation(source, target, id) : target \in {t \in Bearers(next, id) :
        /\ OnlyOfType(current.nodes[source], id) /\ Bearers(current, id) = {source}
        /\ OnlyOfType(next.nodes[t], id) /\ Bearers(next, id) = {t}
        /\ present(next, t) /\ compatible(current.nodes[source], next.nodes[t])}}
MatchDurable(current, next, source) ==
    IF present(current, source) /\ Cardinality(Supported(current.nodes[source])) = 1
    THEN UNION {MatchBy(current, next, source, id) : id \in Supported(current.nodes[source])}
    ELSE {}
\* A partition table has no identity: it is the only table of its matched disk.
Parents(g, n) == {e \in g.deps : e.to = n}
Tables(g, disk) ==
    {n \in {e.to : e \in From(g, disk, "Backs")} : IsKind(g, n, {"PartitionTable"})}
TableDisk(g, table) ==
    {d \in DOMAIN g.nodes : /\ Parents(g, table) = {Edge(d, table, "Backs")}
                            /\ IsKind(g, d, {"Disk", "NvmeNamespace"}) /\ Tables(g, d) = {table}}
correlate_partition_table(current, next, source) ==
    UNION {{NodeCorrelation(source, target, m.identity) : target \in {t \in Tables(next, m.target) :
                /\ Tables(next, m.target) = {t} /\ Cardinality(Parents(next, t)) = 1
                /\ present(next, t) /\ next.nodes[t].attrs = current.nodes[source].attrs}} :
           m \in UNION {MatchDurable(current, next, d) : d \in TableDisk(current, source)}}
MatchNode(current, next, source) ==
    IF ~present(current, source) THEN {}
    ELSE IF current.nodes[source].kind = "PartitionTable"
    THEN correlate_partition_table(current, next, source)
    ELSE MatchDurable(current, next, source)
\* All selected nodes with distinct targets, or nothing.
AllOrNone(found) ==
    IF /\ \A s \in DOMAIN found : found[s] # {}
       /\ \A s, t \in DOMAIN found : \A a \in found[s], b \in found[t] :
              a.target = b.target => s = t
    THEN {UNION {found[s] : s \in DOMAIN found}} ELSE {}
correlate_nodes(current, next, selected) ==
    IF validate_structure(current) /\ validate_structure(next)
    THEN AllOrNone([s \in selected |-> MatchNode(current, next, s)]) ELSE {}

MountNodes(o) == UNION {mount_source_node(o.mounts[i].source) : i \in DOMAIN o.mounts}
MountsAt(o, target, context) ==
    {i \in DOMAIN o.mounts : o.mounts[i].target = target /\ o.mounts[i].context = context}
\* LiveObservation::validate; nodes carry the epoch of their publication by construction.
validate(o) == validate_structure(o.graph) /\ MountNodes(o) \subseteq DOMAIN o.graph.nodes

correlated_node(baseline, o, source) ==
    {c.target : c \in UNION correlate_nodes(baseline.graph, o.graph, {source})}
\* The identity of a created node: new to the system, and borne by one present LV or filesystem.
BoundOutput(baseline, o, b) ==
    /\ Bearers(baseline.graph, b.identity) = {}
    /\ present(o.graph, b.target)
    /\ IsKind(o.graph, b.target, {"LvmLv", "Filesystem"})
    /\ supported_identity(o.graph.nodes[b.target], b.identity)
    /\ OnlyOfType(o.graph.nodes[b.target], b.identity)
    /\ Bearers(o.graph, b.identity) = {b.target}
result_node(baseline, o, source, bindings) ==
    IF Has(baseline.graph, source) THEN correlated_node(baseline, o, source)
    ELSE {b.target : b \in {c \in bindings : /\ c.source = source
                                             /\ \A d \in bindings \ {c} : d.source # source
                                                                          /\ d.target # c.target
                                             /\ BoundOutput(baseline, o, c)}}
Judge(targets, status(_)) == IF targets = {} THEN "Unknown"
                             ELSE status(CHOOSE t \in targets : TRUE)

ReadOnly(node) == UNION {b.ro : b \in node.facts.block}
NodeFact(o, c, t, node) ==
    CASE c.c = "NodeExists" -> "Satisfied"
      [] c.c = "NodeKind" -> Verdict(matches_kind(node, c.class))
      [] c.c = "Writable" ->
             IF matches_kind(node, "Block") THEN Known(ReadOnly(node), FALSE) ELSE "Unknown"
      [] c.c = "NoUnexpectedConsumers" ->
             Absence(t \in MountNodes(o) \/ \E e \in o.graph.deps : e.from = t)
      [] c.c = "NoUnexpectedRelations" -> Absence(\E e \in o.graph.rels : t \in {e.from, e.to})
      [] c.c = "FilesystemUnmounted" ->
             Absence(node.kind # "Filesystem" \/ t \in MountNodes(o))
      [] OTHER -> "Unknown"
\* Extents are counted in the unit of the baseline.
check_capacity(baseline, o, vg, amount) ==
    Judge(correlated_node(baseline, o, vg), LAMBDA t :
          IF \/ amount = {} \/ t \notin DOMAIN o.free
             \/ o.graph.nodes[t].attrs.extent # baseline.graph.nodes[vg].attrs.extent
             \/ o.graph.nodes[t].attrs.extent = {}
          THEN "Unknown" ELSE Verdict(\A n \in amount : o.free[t] >= n))
NodeConditions == {"NodeExists", "NodeKind", "Writable", "NoUnexpectedConsumers",
                   "NoUnexpectedRelations", "FilesystemUnmounted"}
check_node_fact(baseline, o, c, bindings) ==
    IF c.c = "CapacityAvailable" THEN check_capacity(baseline, o, c.vg, c.amount)
    ELSE IF c.c \notin NodeConditions THEN "Unknown"
    ELSE Judge(result_node(baseline, o, c.node, bindings),
               LAMBDA t : NodeFact(o, c, t, o.graph.nodes[t]))
\* check_observed_prerequisites and its variants, of a valid publication.
check_prerequisites(baseline, o, conditions, bindings) ==
    [c \in conditions |-> qualify_observed_status(o, check_node_fact(baseline, o, c, bindings))]
-----------------------------------------------------------------------------
\* Mount options are flags here: every option is its own key.
OptionGroups == {{"exec", "noexec"}, {"suid", "nosuid"}, {"dev", "nodev"},
    {"atime", "noatime", "relatime", "strictatime"}, {"diratime", "nodiratime"}}
explicit_options(options) ==
    IF /\ IsInjective(options) /\ Range(options) \cap {"", "defaults"} = {}
       /\ Cardinality(Range(options) \cap {"rw", "ro"}) = 1
       /\ \A group \in OptionGroups : Cardinality(Range(options) \cap group) <= 1
    THEN {Range(options)} ELSE {}
options_status(requested, observed) ==
    IF explicit_options(requested) = {} \/ explicit_options(observed) = {} THEN "Unknown"
    ELSE Verdict(explicit_options(requested) = explicit_options(observed))

\* observed_mount: the status of the record at the target, given the resolved sources.
RecordStatus(o, records, sources) ==
    IF Cardinality(records) # 1 \/ sources = {} THEN "Unknown"
    ELSE LET source == o.mounts[CHOOSE i \in records : TRUE].source
         IN IF source.s = "Other" THEN "Unknown" ELSE Verdict(source \in sources)
observed_mount(baseline, o, entry, bindings) ==
    IF entry.context # Host \/ ~valid_mount_path(entry.target) THEN "Unknown"
    ELSE IF entry.source.s = "Filesystem"
    THEN Judge(result_node(baseline, o, entry.source.node, bindings), LAMBDA t :
               IF o.graph.nodes[t].kind # "Filesystem" THEN "Violated"
               ELSE RecordStatus(o, MountsAt(o, entry.target, Host),
                                 {[s |-> "Filesystem", node |-> t]}))
    ELSE RecordStatus(o, MountsAt(o, entry.target, Host),
                      IF entry.source.s = "Tmpfs" THEN {entry.source} ELSE {})

EdgePresent(o, e, from, to) ==
    \E a \in o.graph.deps : a = [e EXCEPT !.from = from, !.to = to]
ResultEdge(o, p, from, to) ==
    IF from = {} \/ to = {} THEN "Unknown"
    ELSE LET found == EdgePresent(o, p.edge, CHOOSE f \in from : TRUE, CHOOSE t \in to : TRUE)
         IN IF p.p = "DependencyAbsent" THEN Absence(found)
            ELSE IF found THEN "Satisfied" ELSE "Unknown"
ResultNode(p, node) ==
    CASE p.p = "NodeMatches" ->
             IF node.kind # p.spec.kind \/ node.attrs # p.spec.attrs THEN "Violated"
             ELSE IF p.spec.size = {} THEN "Satisfied"
             ELSE Known(node.size, CHOOSE s \in p.spec.size : TRUE)
      [] p.p = "NodeSize" -> Known(node.size, p.size)
      [] p.p = "NodeReprobed" -> "Satisfied"
      [] p.p = "NodeAbsent" -> "Violated"
      [] p.p = "Activation" ->
             IF node.kind = "LvmLv" THEN Known(node.facts.active, p.active) ELSE "Unknown"
      [] p.p = "Attribute" /\ p.field = "label" ->
             Verdict(node.kind = "Filesystem" /\ node.attrs.label = p.value)
      [] OTHER -> "Unknown"
NodeResults == {"NodeMatches", "NodeSize", "NodeReprobed", "NodeAbsent", "Activation", "Attribute"}
check_result(baseline, o, p, bindings) ==
    CASE p.p \in {"DependencyPresent", "DependencyAbsent"} ->
             ResultEdge(o, p, result_node(baseline, o, p.edge.from, bindings),
                        result_node(baseline, o, p.edge.to, bindings))
      [] p.p = "RuntimeMountPresent" -> observed_mount(baseline, o, p.entry, bindings)
      [] p.p = "RuntimeMountAbsent" -> Absence(MountsAt(o, p.target, p.context) # {})
      [] p.p \in NodeResults -> Judge(result_node(baseline, o, p.node, bindings),
                                      LAMBDA t : ResultNode(p, o.graph.nodes[t]))
      [] OTHER -> "Unknown"
check_observed_postconditions(baseline, o, conditions, bindings) ==
    [p \in conditions |-> qualify_observed_status(o, check_result(baseline, o, p, bindings))]

\* An LV with a known writable block interface.
UsableBlock(node) == \E b \in node.facts.block : b.ro = {FALSE} /\ b.geometry # {} /\ b.paths # {}
activation_status(baseline, o, bindings, target, active) ==
    Judge(result_node(baseline, o, target, bindings), LAMBDA t :
          LET node == o.graph.nodes[t]
              known == Known(node.facts.active, active)
          IN IF node.kind # "LvmLv" THEN "Unknown"
             ELSE IF known = "Satisfied" /\ active /\ ~UsableBlock(node) THEN "Unknown" ELSE known)
\* Which failure is reported first depends on the order of nodes; neither is success.
GoalNode(requested, node) ==
    IF requested.kind # node.kind \/ requested.attrs # node.attrs THEN "Violated"
    ELSE IF requested.size = {} THEN "Satisfied"
    ELSE Known(node.size, CHOOSE s \in requested.size : TRUE)
Worst(statuses) == IF "Unknown" \in statuses THEN "Unknown"
                   ELSE IF "Violated" \in statuses THEN "Violated" ELSE "Satisfied"
SameEdges(goal, actual, to) ==
    /\ Cardinality(goal) = Cardinality(actual)
    /\ \A e \in goal : [e EXCEPT !.from = to[@], !.to = to[@]] \in actual
\* Mutation: more than the goal is success too.
GoalTopologyContained(goal, actual, to) ==
    Verdict(\A e \in goal.deps : [e EXCEPT !.from = to[@], !.to = to[@]] \in actual.deps)
GoalTopology(goal, actual, to) ==
    Verdict(/\ Cardinality(DOMAIN goal.nodes) = Cardinality(DOMAIN actual.nodes)
            /\ SameEdges(goal.deps, actual.deps, to) /\ SameEdges(goal.rels, actual.rels, to))
MappedGraph(goal, actual, to) ==
    Worst({GoalNode(goal.nodes[n], actual.nodes[to[n]]) : n \in DOMAIN goal.nodes}
          \cup {GoalTopology(goal, actual, to)})
\* Only the last requested activation of a node is managed.
LastActivations(order) ==
    {order[i] : i \in {j \in DOMAIN order : /\ order[j].op = "LvmSetActivation"
        /\ \A k \in (j + 1)..Len(order) :
               order[k].op = "LvmSetActivation" => order[k].node # order[j].node}}
Resolved(goal, actual, resolved) ==
    IF \/ \E n \in DOMAIN resolved : resolved[n] = {}
       \/ \E m, n \in DOMAIN resolved : m # n /\ resolved[m] = resolved[n]
    THEN "Unknown"
    ELSE MappedGraph(goal, actual, [n \in DOMAIN resolved |-> CHOOSE t \in resolved[n] : TRUE])
IntentStatus(baseline, o, bindings, intent) ==
    IF intent.intent = "SetActivation"
    THEN activation_status(baseline, o, bindings, intent.node, intent.active) ELSE "Unknown"
graph_status(context, o, bindings) ==
    Worst({Resolved(context.goal.graph, o.graph, [n \in DOMAIN context.goal.graph.nodes |->
                        result_node(context.baseline, o, n, bindings)])}
          \cup {activation_status(context.baseline, o, bindings, a.node, a.active) :
                    a \in LastActivations(context.order)}
          \cup {IntentStatus(context.baseline, o, bindings, context.goal.intents[i]) :
                    i \in DOMAIN context.goal.intents})
GoalMount(context, o, bindings, entry) ==
    LET found == observed_mount(context.baseline, o, entry, bindings)
    IN IF found # "Satisfied" THEN found
       ELSE options_status(entry.options,
                o.mounts[CHOOSE i \in MountsAt(o, entry.target, Host) : TRUE].options)
check_observed_goal(context, o, bindings) ==
    {qualify_observed_status(o, s) : s \in {graph_status(context, o, bindings)}
         \cup {GoalMount(context, o, bindings, m) : m \in context.goal.runtime}}
    \cup {"Unknown" : m \in context.goal.persistent}
    \cup {IF context.goal.boot = "Unmanaged" THEN "Satisfied" ELSE "Unknown"}
=============================================================================

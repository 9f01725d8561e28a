------------------------------ MODULE Topology ------------------------------
(* The storage graph of storage-core/src/model/graph.rs.  An optional value
   is a set with at most one element.  A node has a kind with attributes, an
   optional size, and the observed facts of its block endpoint. *)
EXTENDS FiniteSets, Integers, SequencesExt

NodeKind == {"Disk", "NvmeSubsystem", "NvmeController", "NvmeNamespace", "Loop", "Zram",
    "DmMultipath", "PartitionTable", "Partition", "LuksContainer", "DmCryptMapping",
    "DmIntegrity", "DmVerity", "MdArray", "LvmPv", "LvmVg", "LvmLv", "Bcache", "DmCache",
    "DmWritecache", "Filesystem", "Swap", "BtrfsSubvolume", "ZfsPool", "ZfsVdev",
    "ZfsDataset", "ZfsVolume", "Drbd", "Unknown"}

\* Attributes of the kinds that have none the model tells apart.
Plain == [plain |-> TRUE]
\* NodeSpec; a Node adds NodeFacts: observed endpoint, identities, presence, LV activation.
NodeSpec(kind, attrs, size) == [kind |-> kind, attrs |-> attrs, size |-> size]
NodeFacts == [block |-> {}, ids |-> {}, presence |-> "Unknown", active |-> {}]
Node(spec, facts) ==
    [kind |-> spec.kind, attrs |-> spec.attrs, size |-> spec.size, facts |-> facts]
SpecOf(node) == NodeSpec(node.kind, node.attrs, node.size)

\* Dependency; offset belongs to Contains, role to MemberOf and Caches, slot to Md and Btrfs.
Edge(from, to, kind) ==
    [from |-> from, to |-> to, kind |-> kind, offset |-> 0, role |-> "none", slot |-> {}]
ContainsEdge(from, to, offset) == [Edge(from, to, "Contains") EXCEPT !.offset = offset]
MemberOf(from, to, role, slot) ==
    [Edge(from, to, "MemberOf") EXCEPT !.role = role, !.slot = slot]

NodeGraph(nodes, deps, rels) == [nodes |-> nodes, deps |-> deps, rels |-> rels]
Has(g, n) == n \in DOMAIN g.nodes
IsKind(g, n, kinds) == Has(g, n) /\ g.nodes[n].kind \in kinds
Incident(g, n) == {e \in g.deps : n \in {e.from, e.to}}
Into(g, n, kind) == {e \in g.deps : e.to = n /\ e.kind = kind}
From(g, n, kind) == {e \in g.deps : e.from = n /\ e.kind = kind}

insert_new(g, n, node) ==
    [g EXCEPT !.nodes = [m \in DOMAIN @ \cup {n} |-> IF m = n THEN node ELSE @[m]]]
remove_node(g, n) == [g EXCEPT !.nodes = [m \in DOMAIN @ \ {n} |-> @[m]]]

\* Least fixed point from S, by steps; then the nodes a set rests on, and those that rest on it.
Closure(S, domain, Step(_)) ==
    LET grown[T \in SUBSET domain] == IF Step(T) = T THEN T ELSE grown[Step(T)] IN grown[S]
Below(deps, S) ==
    Closure(S, S \cup {e.from : e \in deps},
            LAMBDA T : T \cup {e.from : e \in {d \in deps : d.to \in T}})
Above(deps, S) ==
    Closure(S, S \cup {e.to : e \in deps},
            LAMBDA T : T \cup {e.to : e \in {d \in deps : d.from \in T}})
ancestors(g, n) == Below(g.deps, {n}) \ {n}

\* topological_order succeeds: emitting ready nodes round by round leaves none.
Orderable(deps, nodes) ==
    Closure(nodes, nodes, LAMBDA rest :
        rest \ {n \in rest : \A e \in deps : e.to = n => e.from \notin rest}) = {}

require_endpoints(g, e) == Has(g, e.from) /\ Has(g, e.to)
\* No two edges of the set agree on what f takes from them.
Distinct(edges, f(_)) == \A d, e \in edges : f(d) = f(e) => d = e
LogicalEdge(e) == <<e.from, e.to, e.kind, IF e.kind = "Caches" THEN e.role ELSE "none">>
Target(e) == e.to
Slot(e) == <<e.to, e.slot>>
RoleAt(e) == <<e.to, e.role>>

OwnersUnique(g) ==
    LET owned == {e \in g.deps : e.kind = "Contains"}
    IN /\ Distinct(owned, Target)
       /\ \A e \in owned : g.nodes[e.to].kind = "Partition" =>
              g.nodes[e.to].attrs.offset = e.offset
RolesUnique(g) ==
    /\ \A role \in {"MdData", "Btrfs"} :
           Distinct({e \in g.deps : e.kind = "MemberOf" /\ e.role = role /\ e.slot # {}}, Slot)
    /\ Distinct({e \in g.deps : e.kind = "Caches"}, RoleAt)

validate_structure(g) ==
    /\ \A e \in g.rels : require_endpoints(g, e)
    /\ \A e \in g.deps : require_endpoints(g, e) /\ e.from # e.to
    /\ Distinct(g.deps, LogicalEdge)
    /\ OwnersUnique(g)
    /\ RolesUnique(g)
    /\ Orderable(g.deps, DOMAIN g.nodes)

BlockKinds == {"Disk", "NvmeNamespace", "Loop", "Zram", "DmMultipath", "Partition",
    "LuksContainer", "DmCryptMapping", "DmIntegrity", "DmVerity", "MdArray", "LvmPv", "LvmLv",
    "Bcache", "DmCache", "DmWritecache", "ZfsVolume", "Drbd"}
\* matches_kind: the class of a contract against the kind of a node.
matches_kind(node, class) ==
    CASE class = "Block" -> node.kind \in BlockKinds
      [] class = "BtrfsFilesystem" -> node.kind = "Filesystem" /\ node.attrs.fs = "Btrfs"
      [] OTHER -> node.kind = class
=============================================================================

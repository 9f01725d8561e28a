-------------------------- MODULE ProviderContract --------------------------
(* storage-provider/src/contract.rs, logical.rs, luks.rs: what a typed action
   requires, touches, changes and promises in a given graph, and when it is
   refused before that.  A contract is put together from parts with &&. *)
EXTENDS Topology

CONSTANT BytesMax     \* the largest u64

Contract == [pre |-> {}, out |-> {}, acc |-> {}, graph |-> <<>>, mounts |-> <<>>,
             alloc |-> <<>>, stale |-> {}, post |-> {}]
a && b ==
   [pre |-> a.pre \cup b.pre, out |-> a.out \cup b.out, acc |-> a.acc \cup b.acc,
    graph |-> a.graph \o b.graph, mounts |-> a.mounts \o b.mounts, alloc |-> a.alloc \o b.alloc,
    stale |-> a.stale \cup b.stale, post |-> a.post \cup b.post]
When(condition, part) == IF condition THEN part ELSE Contract

\* ActionPrerequisite about one node; the others carry more fields.
Cond(c, n) == [c |-> c, node |-> n]
NodeKindIs(n, class) == [c |-> "NodeKind", node |-> n, class |-> class]
AtSize(c, n, size) == [c |-> c, node |-> n, size |-> size]
CapacityAvailable(vg, amount) == [c |-> "CapacityAvailable", vg |-> vg, amount |-> amount]
AtMount(c, target, context) == [c |-> c, target |-> target, context |-> context]

\* ActionResource and ResourceAccess.
RuntimeMountState == [r |-> "RuntimeMountState"]
Resource(r, n) == [r |-> r, node |-> n]
MountResource(r, target, context) == [r |-> r, target |-> target, context |-> context]

Requires(P) == [Contract EXCEPT !.pre = P]
Provides(O) == [Contract EXCEPT !.out = O]
Promises(P) == [Contract EXCEPT !.post = P]
Access(mode, R) == [Contract EXCEPT !.acc = {[resource |-> r, mode |-> mode] : r \in R}]
read(R) == Access("Read", R)
write(R) == Access("Write", R)
Changes(effects) == [Contract EXCEPT !.graph = effects]
Mounts(effects) == [Contract EXCEPT !.mounts = effects]
Allocates(effects) == [Contract EXCEPT !.alloc = effects]
invalidate(N, kinds) == [Contract EXCEPT !.stale = [scope : N, kind : kinds]]
invalidate_mount(target, context) ==
    [Contract EXCEPT !.stale = {[target |-> target, context |-> context, kind |-> "Mount"]}]
invalidate_persistent_mount(context) ==
    [Contract EXCEPT !.stale = {[config |-> context, kind |-> "Mount"]}]
require_kind(n, class) == Requires({Cond("NodeExists", n), NodeKindIs(n, class)})

\* ActionOutput.
OutputNode(n, spec) == [o |-> "Node", node |-> n, spec |-> spec]
BlockInterface(n, access) == [o |-> "BlockInterface", node |-> n, access |-> access]
FilesystemCheckPassed(n) == [o |-> "FilesystemCheckPassed", node |-> n]

\* MountSource, MountEntry, MountEffect; runtime entries are identified by target and context.
mount_source_node(source) == IF source.s \in {"Filesystem", "BtrfsSubvolume", "ZfsDataset"}
                             THEN {source.node} ELSE {}
MountEntry(source, target, options, context) ==
    [source |-> source, target |-> target, options |-> options, context |-> context]
Host == [k |-> "Host", root |-> <<"/">>]
TargetRoot(root) == [k |-> "TargetRoot", root |-> root]
AddRuntime(entry) == [m |-> "AddRuntime", entry |-> entry]
SetPersistent(entry) == [m |-> "SetPersistent", entry |-> entry]
RemoveMount(m, target, context) == [m |-> m, target |-> target, context |-> context]

\* GraphEffect.  An empty size is InvalidateNodeSize.
InsertNode(n, spec) == [e |-> "InsertNode", node |-> n, spec |-> spec]
RemoveNode(n) == [e |-> "RemoveNode", node |-> n]
SetNodeSize(n, size) == [e |-> "SetNodeSize", node |-> n, size |-> size]
SetAttribute(n, class, field, value) ==
    [e |-> "SetAttribute", node |-> n, class |-> class, field |-> field, value |-> value]
SetActivation(n, active) == [e |-> "SetActivation", node |-> n, active |-> active]
InsertDependency(edge) == [e |-> "InsertDependency", edge |-> edge]
RemoveDependency(edge) == [e |-> "RemoveDependency", edge |-> edge]

\* Postcondition.
PostEdge(p, edge) == [p |-> p, edge |-> edge]
PostNode(p, n) == [p |-> p, node |-> n]
NodeSize(n, size) == [p |-> "NodeSize", node |-> n, size |-> size]
PostAttribute(n, field, value) == [p |-> "Attribute", node |-> n, field |-> field, value |-> value]
Activation(n, active) == [p |-> "Activation", node |-> n, active |-> active]
PostMount(p, entry) == [p |-> p, entry |-> entry]
MountAbsent(p, target, context) == [p |-> p, target |-> target, context |-> context]
NodeMatches(n, spec) == [p |-> "NodeMatches", node |-> n, spec |-> spec]

insert_node(n, spec) == Changes(<<InsertNode(n, spec)>>) && Promises({NodeMatches(n, spec)})
add_dependency(edge) ==
    Changes(<<InsertDependency(edge)>>) && Promises({PostEdge("DependencyPresent", edge)})
insert_node_with_dependency(n, spec, edge) == insert_node(n, spec) && add_dependency(edge)
Members(edges) == FoldLeft(LAMBDA c, edge : c && add_dependency(edge), Contract, edges)

known_size(g, n) == IF Has(g, n) THEN g.nodes[n].size ELSE {}
is_ext_filesystem(g, n) ==
    IsKind(g, n, {"Filesystem"}) /\ g.nodes[n].attrs.fs \in {"Ext2", "Ext3", "Ext4"}
\* The only owner through edges of one kind, when it has the expected kind.
SoleOwner(g, n, edge, kind) ==
    LET owners == {e.from : e \in Into(g, n, edge)}
    IN IF Cardinality(Into(g, n, edge)) = 1 /\ \A o \in owners : IsKind(g, o, {kind})
       THEN owners ELSE {}
partition_table(g, partition) == SoleOwner(g, partition, "Contains", "PartitionTable")
lvm_volume_group(g, lv) == SoleOwner(g, lv, "Provides", "LvmVg")

\* Extents taken by a volume: only linear layouts with an exact number of them are known.
lvm_allocation(g, vg, size, layout) ==
    IF layout = "Linear" /\ IsKind(g, vg, {"LvmVg"})
    THEN {size \div x : x \in {y \in g.nodes[vg].attrs.extent :
                                  y > 0 /\ size > 0 /\ size % y = 0}}
    ELSE {}
lvm_lv_allocation(g, vg, lv, sizes) ==
    IF IsKind(g, lv, {"LvmLv"})
    THEN UNION {lvm_allocation(g, vg, s, g.nodes[lv].attrs.layout) : s \in sizes} ELSE {}

\* Capacity checks around a resize; an unknown size may turn out on either side.
resize_contract(g, n, size, class, dependents, backing) ==
    LET old == known_size(g, n)
    IN require_kind(n, class)
       && When(dependents /\ \A s \in old : s > size,
               Requires({AtSize("DependentsFitWithin", n, size)}))
       && When(backing /\ \A s \in old : s < size,
               Requires({AtSize("BackingSizeAtLeast", n, size)}))
       && write({Resource("Node", n)})
       && Changes(<<SetNodeSize(n, {size})>>)
       && invalidate({n}, {"Geometry"})
       && Promises({NodeSize(n, size)})

destructive_contract(n) ==
    Requires({Cond(c, n) : c \in {"NodeExists", "Writable", "NoUnexpectedConsumers",
                                  "DestructiveApproval"}} \cup {NodeKindIs(n, "Block")})
    && write({Resource("Node", n)})

remove_node_contract(g, n, class) ==
    require_kind(n, class)
    && Requires({Cond("NoUnexpectedConsumers", n), Cond("NoUnexpectedRelations", n)})
    && write({Resource("Node", n)})
    && Changes(<<RemoveNode(n)>> \o
                   SetToSeq({RemoveDependency(edge) : edge \in Incident(g, n)}))
    && invalidate({n}, {"Presence"})
    && Promises({PostNode("NodeAbsent", n)} \cup
                    {PostEdge("DependencyAbsent", edge) : edge \in Incident(g, n)})

access_filesystem_backing(g, fs, mode) ==
    LET backing == {e.from : e \in Into(g, fs, "Backs")}
    IN Access(mode, {Resource("Node", b) : b \in backing})
       && Requires(IF mode = "Write" THEN {Cond("Writable", b) : b \in backing} ELSE {})
inspection_contract(g, fs) ==
    require_kind(fs, "Filesystem")
    && Requires({Cond("FilesystemUnmounted", fs)})
    && read({RuntimeMountState, Resource("Node", fs)})
    && access_filesystem_backing(g, fs, "Read")
    && invalidate({fs}, {"Content"})
    && Promises({PostNode("NodeReprobed", fs)})
btrfs_membership_contract(fs, device) ==
    require_kind(fs, "BtrfsFilesystem") && require_kind(device, "Block")
    && write({Resource("Node", fs), Resource("Node", device)})
    && invalidate({fs, device}, {"Topology"})
-----------------------------------------------------------------------------
\* Partition actions.  Everything but creation also locks and invalidates the owning table.
CreateTable(g, a) ==
    LET spec == NodeSpec("PartitionTable", [table |-> a.table], known_size(g, a.node))
    IN destructive_contract(a.node) && write({Resource("PartitionTable", a.planned)})
       && insert_node_with_dependency(a.planned, spec, Edge(a.node, a.planned, "Backs"))
       && invalidate({a.node}, {"Topology"})
PartitionCreate(a) ==
    LET spec == NodeSpec("Partition", [number |-> a.number, offset |-> a.offset,
                                       attributes |-> a.attributes], {a.size})
    IN require_kind(a.node, "PartitionTable")
       && Requires({Cond("Writable", a.node), [c |-> "ExtentAvailable", table |-> a.node,
                                               offset |-> a.offset, size |-> a.size]})
       && write({Resource("PartitionTable", a.node)})
       && insert_node_with_dependency(a.planned, spec,
                                      ContainsEdge(a.node, a.planned, a.offset))
       && invalidate({a.node}, {"Topology"})
PartitionDelete(g, a) ==
    remove_node_contract(g, a.node, "Partition")
    && Requires({Cond("DestructiveApproval", a.node)}
                \cup {Cond("Writable", t) : t \in partition_table(g, a.node)})
PartitionSetAttributes(a) ==
    require_kind(a.node, "Partition") && write({Resource("Node", a.node)})
    && Changes(<<SetAttribute(a.node, "Partition", "attributes", a.attributes)>>)
    && invalidate({a.node}, {"Identity"})
    && Promises({PostAttribute(a.node, "attributes", a.attributes)})
TableOf(g, partition) ==
    LET tables == partition_table(g, partition)
    IN write({Resource("PartitionTable", t) : t \in tables}) && invalidate(tables, {"Topology"})
describe_partition(g, a) ==
    CASE a.op = "PartitionCreateTable" -> CreateTable(g, a)
      [] a.op = "PartitionCreate" -> PartitionCreate(a)
      [] a.op = "PartitionResize" ->
            resize_contract(g, a.node, a.size, "Partition", TRUE, FALSE) && TableOf(g, a.node)
      [] a.op = "PartitionDelete" -> PartitionDelete(g, a) && TableOf(g, a.node)
      [] a.op = "PartitionSetAttributes" -> PartitionSetAttributes(a) && TableOf(g, a.node)

LuksFormat(a) ==
    destructive_contract(a.node)
    && Requires({[c |-> "CredentialAvailable", credential |-> a.credential]})
    && insert_node_with_dependency(a.planned, NodeSpec("LuksContainer", Plain, {}),
                                   Edge(a.node, a.planned, "Backs"))
    && invalidate({a.node}, {"Content", "Identity"})
LuksOpen(g, a) ==
    require_kind(a.node, "LuksContainer")
    && When(~a.read_only, Requires({Cond("Writable", a.node)}))
    && Requires({[c |-> "CredentialAvailable", credential |-> a.credential]})
    && read({Resource("Node", a.node)})
    && insert_node_with_dependency(a.planned,
           NodeSpec("DmCryptMapping", [name |-> a.name], known_size(g, a.node)),
           Edge(a.node, a.planned, "Backs"))
    && Provides({BlockInterface(a.planned, IF a.read_only THEN "ReadOnly" ELSE "ReadWrite")})
    && invalidate({a.node}, {"Topology"})
LuksResize(g, a) ==
    IF a.size # {}
    THEN resize_contract(g, a.node, CHOOSE s \in a.size : TRUE, "DmCryptMapping", TRUE, TRUE)
    ELSE require_kind(a.node, "DmCryptMapping") && write({Resource("Node", a.node)})
         && Changes(<<SetNodeSize(a.node, {})>>) && invalidate({a.node}, {"Geometry"})
         && Promises({PostNode("NodeReprobed", a.node)})
describe_luks(g, a) ==
    CASE a.op = "LuksFormat" -> LuksFormat(a)
      [] a.op = "LuksOpen" -> LuksOpen(g, a)
      [] a.op = "LuksClose" -> remove_node_contract(g, a.node, "DmCryptMapping")
      [] a.op = "LuksResize" -> LuksResize(g, a)
\* AllocationEffect in the extents of a volume group; an unknown amount invalidates the domain.
Allocation(kind, vg, amount) == Allocates(
    <<[a |-> IF amount = {} THEN "Invalidate" ELSE kind, vg |-> vg, amount |-> amount]>>)
LvmCreatePv(a) ==
    destructive_contract(a.node)
    && insert_node_with_dependency(a.planned, NodeSpec("LvmPv", Plain, {}),
                                   Edge(a.node, a.planned, "Backs"))
    && invalidate({a.node}, {"Content"})
LvmCreateVg(a) ==
    Requires({[c |-> "DistinctNodes", members |-> a.members]}
             \cup UNION {require_kind(pv, "LvmPv").pre : pv \in Range(a.members)})
    && write({Resource("Node", pv) : pv \in Range(a.members)}
             \cup {Resource("LvmMetadata", a.planned)})
    && insert_node(a.planned, NodeSpec("LvmVg", [name |-> a.name, extent |-> {}], {}))
    && Members([i \in DOMAIN a.members |-> MemberOf(a.members[i], a.planned, "LvmPv", {})])
    && invalidate(Range(a.members), {"Topology"})
LvmCreateLv(g, a) ==
    LET extents == lvm_allocation(g, a.node, a.size, a.layout)
    IN require_kind(a.node, "LvmVg") && Requires({CapacityAvailable(a.node, extents)})
       && write({Resource("LvmMetadata", a.node)})
       && insert_node_with_dependency(a.planned,
              NodeSpec("LvmLv", [name |-> a.name, layout |-> a.layout], {a.size}),
              Edge(a.node, a.planned, "Provides"))
       && Allocation("Reserve", a.node, extents)
       && invalidate({a.node}, {"Geometry", "Topology"})
\* The extents a resize moves between the volume and its group, when both sizes are exact.
ResizeAllocation(vg, old, new) ==
    IF old = {} \/ new = {}
    THEN Requires({CapacityAvailable(vg, {})}) && Allocation("Invalidate", vg, {})
    ELSE LET grown == {n - o : n \in new, o \in old}
             shrunk == {o - n : n \in new, o \in old}
         IN When(\A d \in grown : d > 0,
                 Requires({CapacityAvailable(vg, grown)}) && Allocation("Reserve", vg, grown))
            && When(\A d \in shrunk : d > 0, Allocation("Release", vg, shrunk))
LvmResizeLv(g, a) ==
    LET InGroup(vg) == write({Resource("LvmMetadata", vg)}) && invalidate({vg}, {"Geometry"})
            && ResizeAllocation(vg, lvm_lv_allocation(g, vg, a.node, known_size(g, a.node)),
                                lvm_lv_allocation(g, vg, a.node, {a.size}))
    IN resize_contract(g, a.node, a.size, "LvmLv", TRUE, FALSE)
       && FoldSet(LAMBDA vg, c : c && InGroup(vg), Contract, lvm_volume_group(g, a.node))
LvmRemoveLv(g, a) ==
    LET InGroup(vg) == write({Resource("LvmMetadata", vg)})
            && Allocation("Release", vg, lvm_lv_allocation(g, vg, a.node, known_size(g, a.node)))
            && invalidate({vg}, {"Geometry", "Topology"})
    IN remove_node_contract(g, a.node, "LvmLv")
       && Requires({Cond("DestructiveApproval", a.node)})
       && FoldSet(LAMBDA vg, c : c && InGroup(vg), Contract, lvm_volume_group(g, a.node))
LvmSetActivation(g, a) ==
    Requires({Cond("NodeExists", a.node)}) && write({Resource("Node", a.node)})
    && Changes(<<SetActivation(a.node, a.active)>>) && invalidate({a.node}, {"Activation"})
    && Promises({Activation(a.node, a.active)})
    && When(a.active /\ IsKind(g, a.node, {"LvmLv"}),
            Provides({BlockInterface(a.node, "ReadWrite")}))
describe_lvm(g, a) ==
    CASE a.op = "LvmCreatePv" -> LvmCreatePv(a)
      [] a.op = "LvmCreateVg" -> LvmCreateVg(a)
      [] a.op = "LvmCreateLv" -> LvmCreateLv(g, a)
      [] a.op = "LvmResizeLv" -> LvmResizeLv(g, a)
      [] a.op = "LvmRemoveLv" -> LvmRemoveLv(g, a)
      [] a.op = "LvmSetActivation" -> LvmSetActivation(g, a)

FilesystemCreate(a) ==
    destructive_contract(a.node)
    && insert_node_with_dependency(a.planned,
           NodeSpec("Filesystem", [fs |-> a.fs, label |-> a.label, allocation |-> "none"], {}),
           Edge(a.node, a.planned, "Backs"))
    && invalidate({a.node}, {"Content", "Identity"})
FilesystemResize(g, a) ==
    LET may_shrink == \A s \in known_size(g, a.node) : s > a.size
        is_ext2 == IsKind(g, a.node, {"Filesystem"}) /\ g.nodes[a.node].attrs.fs = "Ext2"
    IN resize_contract(g, a.node, a.size, "Filesystem", FALSE, TRUE)
       && When(may_shrink \/ is_ext2,
               Requires({Cond("FilesystemUnmounted", a.node)}) && read({RuntimeMountState}))
       && When(may_shrink, Requires({Cond("FilesystemCheckPassed", a.node),
                                     AtSize("FilesystemMinimumSize", a.node, a.size)}))
       && access_filesystem_backing(g, a.node, "Write")
FilesystemCheck(g, a) ==
    inspection_contract(g, a.node)
    && When(a.force /\ is_ext_filesystem(g, a.node),
            Provides({FilesystemCheckPassed(a.node)})
            && Promises({PostNode("FilesystemCheckPassed", a.node)}))
FilesystemRepair(g, a) ==
    require_kind(a.node, "Filesystem")
    && Requires({Cond("FilesystemUnmounted", a.node), Cond("NoUnexpectedConsumers", a.node)})
    && read({RuntimeMountState}) && write({Resource("Node", a.node)})
    && access_filesystem_backing(g, a.node, "Write")
    && invalidate({a.node}, {"Content"}) && Promises({PostNode("NodeReprobed", a.node)})
FilesystemSetLabel(g, a) ==
    require_kind(a.node, "Filesystem") && write({Resource("Node", a.node)})
    && access_filesystem_backing(g, a.node, "Write")
    && Changes(<<SetAttribute(a.node, "Filesystem", "label", a.label)>>)
    && invalidate({a.node}, {"Identity"}) && Promises({PostAttribute(a.node, "label", a.label)})
describe_filesystem(g, a) ==
    CASE a.op = "FilesystemCreate" -> FilesystemCreate(a)
      [] a.op = "FilesystemResize" -> FilesystemResize(g, a)
      [] a.op = "FilesystemCheck" -> FilesystemCheck(g, a)
      [] a.op = "FilesystemRepair" -> FilesystemRepair(g, a)
      [] a.op = "FilesystemSetLabel" -> FilesystemSetLabel(g, a)
BtrfsEdge(device, fs) == MemberOf(device, fs, "Btrfs", {})
BtrfsCreate(a) ==
    FoldSet(LAMBDA d, c : c && destructive_contract(d), Contract, Range(a.members))
    && Requires({[c |-> "DistinctNodes", members |-> a.members]})
    && invalidate(Range(a.members), {"Content"})
    && insert_node(a.planned, NodeSpec("Filesystem",
           [fs |-> "Btrfs", label |-> a.label, allocation |-> a.allocation], {}))
    && Members([i \in DOMAIN a.members |-> BtrfsEdge(a.members[i], a.planned)])
BtrfsAddDevice(a) == btrfs_membership_contract(a.node, a.device)
                     && add_dependency(BtrfsEdge(a.device, a.node))
BtrfsRemoveDevice(g, a) ==
    LET known == {e \in From(g, a.device, "MemberOf") : e.to = a.node /\ e.role = "Btrfs"}
        edge == IF known = {} THEN BtrfsEdge(a.device, a.node) ELSE CHOOSE e \in known : TRUE
    IN btrfs_membership_contract(a.node, a.device) && Changes(<<RemoveDependency(edge)>>)
       && Promises({PostEdge("DependencyAbsent", edge)})
BtrfsConvertProfiles(a) ==
    require_kind(a.node, "BtrfsFilesystem") && write({Resource("Node", a.node)})
    && Changes(<<SetAttribute(a.node, "BtrfsFilesystem", "allocation", a.allocation)>>)
    && invalidate({a.node}, {"Geometry"})
    && Promises({PostAttribute(a.node, "allocation", a.allocation)})
BtrfsCreateSubvolume(a) ==
    require_kind(a.node, "BtrfsFilesystem") && write({Resource("Node", a.node)})
    && insert_node_with_dependency(a.planned,
           NodeSpec("BtrfsSubvolume", [name |-> a.name, read_only |-> a.read_only], {}),
           Edge(a.node, a.planned, "Provides"))
    && invalidate({a.node}, {"Topology"})
describe_btrfs(g, a) ==
    CASE a.op = "BtrfsCreate" -> BtrfsCreate(a)
      [] a.op = "BtrfsAddDevice" -> BtrfsAddDevice(a)
      [] a.op = "BtrfsRemoveDevice" -> BtrfsRemoveDevice(g, a)
      [] a.op = "BtrfsConvertProfiles" -> BtrfsConvertProfiles(a)
      [] a.op = "BtrfsCreateSubvolume" -> BtrfsCreateSubvolume(a)

\* A mount also reads everything its source rests on.
MountMount(g, a) ==
    LET source == mount_source_node(a.entry.source)
    IN write({RuntimeMountState, MountResource("MountTarget", a.entry.target, a.entry.context)})
       && Requires({AtMount(c, a.entry.target, a.entry.context) :
                        c \in {"MountDescendantsAbsent", "MountTargetAvailable"}}
                   \cup {Cond("NodeExists", n) : n \in source}
                   \cup {[c |-> "MountSourceAvailable", source |-> a.entry.source] : n \in source})
       && read({Resource("Node", n) : n \in source \cup UNION {ancestors(g, m) : m \in source}})
       && Mounts(<<AddRuntime(a.entry)>>) && invalidate_mount(a.entry.target, a.entry.context)
       && Promises({PostMount("RuntimeMountPresent", a.entry)})
MountUnmount(a) ==
    write({RuntimeMountState, MountResource("MountTarget", a.target, a.context)})
    && Requires({AtMount("MountDescendantsAbsent", a.target, a.context)})
    && Mounts(<<RemoveMount("RemoveRuntime", a.target, a.context)>>)
    && invalidate_mount(a.target, a.context)
    && Promises({MountAbsent("RuntimeMountAbsent", a.target, a.context)})
PersistentConfig(context) == [r |-> "PersistentMountConfig", config |-> context]
MountPersist(a) ==
    LET source == mount_source_node(a.entry.source)
    IN Requires({Cond("NodeExists", n) : n \in source})
       && read({Resource("Node", n) : n \in source})
       && write({PersistentConfig(a.entry.context)}) && Mounts(<<SetPersistent(a.entry)>>)
       && invalidate_persistent_mount(a.entry.context)
       && Promises({PostMount("PersistentMountMatches", a.entry)})
MountRemovePersistent(a) ==
    write({PersistentConfig(a.context)})
    && Mounts(<<RemoveMount("RemovePersistent", a.target, a.context)>>)
    && invalidate_persistent_mount(a.context)
    && Promises({MountAbsent("PersistentMountAbsent", a.target, a.context)})
describe_mount(g, a) ==
    CASE a.op = "Mount" -> MountMount(g, a)
      [] a.op = "Unmount" -> MountUnmount(a)
      [] a.op = "Persist" -> MountPersist(a)
      [] a.op = "RemovePersistent" -> MountRemovePersistent(a)

\* What an action provides follows from its effects; created nodes are locked for writing.
outputs_from_effect(c) ==
    {OutputNode(e.node, e.spec) : e \in {x \in Range(c.graph) : x.e = "InsertNode"}}
    \cup {[o |-> m.m, entry |-> m.entry] :
              m \in {x \in Range(c.mounts) : x.m \in {"AddRuntime", "SetPersistent"}}}
add_output_resources(c) ==
    c && write({Resource("Node", o.node) : o \in {x \in c.out : x.o \in {"Node", "BlockInterface"}}})
ByProvider(g, a) ==
    CASE a.provider = "Partition" -> describe_partition(g, a)
      [] a.provider = "Luks" -> describe_luks(g, a)
      [] a.provider = "Lvm" -> describe_lvm(g, a)
      [] a.provider = "Filesystem" -> describe_filesystem(g, a)
      [] a.provider = "Btrfs" -> describe_btrfs(g, a)
      [] a.provider = "Mount" -> describe_mount(g, a)
Completed(c) ==
    add_output_resources(
        c && Provides(outputs_from_effect(c))
        && When(/\ \E p \in c.pre : p.c = "NoUnexpectedConsumers"
                /\ \A x \in c.acc : x.resource # RuntimeMountState,
                read({RuntimeMountState})))
describe_action(g, a) == Completed(ByProvider(g, a))
\* An imported contract is replaced by the trusted one or refused.  The set-valued fields and
\* SetToSeq already are the canonical form under which the two are compared.
verify_imported_contract(g, a, imported) ==
    {c \in {describe_action(g, a)} : c = imported}

-----------------------------------------------------------------------------
\* Technology checks before a contract is considered: the codes of the diagnostics.
Code(condition, code) == IF condition THEN {code} ELSE {}
FirstOf(codes) ==     \* an early return keeps only the first diagnostic
    IF \A i \in DOMAIN codes : codes[i] = {} THEN {}
    ELSE codes[CHOOSE i \in DOMAIN codes : codes[i] # {} /\ \A j \in 1..(i - 1) : codes[j] = {}]

validate_partition_create(g, a) ==
    LET end == a.offset + a.size
        fits == \A s \in known_size(g, a.node) : end <= s
        occupied == {p \in {e.to : e \in From(g, a.node, "Contains")} : IsKind(g, p, {"Partition"})}
        Overlaps(p) == \E s \in g.nodes[p].size :
            LET from == g.nodes[p].attrs.offset
            IN from + s > BytesMax \/ (a.offset < from + s /\ from < end)
    IN FirstOf(<<Code(end > BytesMax \/ a.size = 0 \/ ~fits, "partition.create.invalid_extent"),
                 Code(\E p \in occupied : g.nodes[p].attrs.number = a.number,
                      "partition.create.duplicate_number"),
                 Code(\E p \in occupied : Overlaps(p), "partition.create.overlap")>>)
validate_filesystem_resize(g, a) ==
    FirstOf(<<Code(a.size = 0, "filesystem.resize.zero_size"),
              Code(~is_ext_filesystem(g, a.node), "filesystem.resize.unsupported"),
              Code(Cardinality(Into(g, a.node, "Backs")) > 1,
                   "filesystem.resize.ambiguous_backing")>>)

valid_mount_path(path) == path # <<>> /\ Head(path) = "/" /\ ".." \notin Range(path)
SourceKinds == [Filesystem |-> "Filesystem", BtrfsSubvolume |-> "BtrfsSubvolume",
                ZfsDataset |-> "ZfsDataset"]
validate_mount_action(g, a) ==
    LET entry == IF a.op \in {"Mount", "Persist"} THEN {a.entry} ELSE {}
        target == {e.target : e \in entry} \cup (IF entry = {} THEN {a.target} ELSE {})
        context == {e.context : e \in entry} \cup (IF entry = {} THEN {a.context} ELSE {})
        paths == target \cup {x.root : x \in {y \in context : y.k = "TargetRoot"}}
                        \cup {e.source.path : e \in {y \in entry : y.source.s = "Bind"}}
    IN Code(\E path \in paths : ~valid_mount_path(path), "mount.action.invalid_path")
       \cup Code(a.op = "Persist" /\ \E n \in mount_source_node(a.entry.source) :
                     Has(g, n) /\ g.nodes[n].kind # SourceKinds[a.entry.source.s],
                 "mount.action.incompatible_source")

\* Size checks of a volume: its group, and whether its layout is linear.
LvmSize(g, vg, size, linear) ==
    LET extent == IF IsKind(g, vg, {"LvmVg"}) THEN g.nodes[vg].attrs.extent ELSE {}
    IN FirstOf(<<Code(size = 0, "lvm.action.zero_size"),
                 Code(0 \in extent, "lvm.action.invalid_extent_size"),
                 Code(linear /\ \E x \in extent : size % x # 0, "lvm.action.unaligned_size")>>)
validate_lvm_action(g, a) ==
    LET vg == lvm_volume_group(g, a.node)
    IN CASE a.op = "LvmCreateLv" -> LvmSize(g, a.node, a.size, a.layout = "Linear")
         [] a.op \in {"LvmResizeLv", "LvmRemoveLv"} /\ vg = {} ->
                {"lvm.action.invalid_vg_ownership"}
         [] a.op = "LvmResizeLv" /\ vg # {} ->
                LvmSize(g, CHOOSE v \in vg : TRUE, a.size, IsKind(g, a.node, {"LvmLv"})
                                                  /\ g.nodes[a.node].attrs.layout = "Linear")
         [] OTHER -> {}

is_format_target == {"Disk", "NvmeNamespace", "Loop", "DmMultipath", "Partition", "MdArray",
                     "LvmLv", "ZfsVolume"}
validate_kind(g, n, kinds, code) ==
    IF Has(g, n) THEN Code(g.nodes[n].kind \notin kinds, code) ELSE {"luks.action.missing_target"}
\* Mapping names are opaque; InvalidNames holds the blank, dotted and slashed ones.
InvalidNames == {"", ".", "..", "a/b"}
validate_luks_action(g, a) ==
    LET names == {g.nodes[n].attrs.name : n \in {m \in DOMAIN g.nodes :
                                                   g.nodes[m].kind = "DmCryptMapping"}}
    IN CASE a.op = "LuksFormat" ->
                validate_kind(g, a.node, is_format_target, "luks.format.unsupported_target")
                \cup Code(a.credential = "nil", "luks.action.invalid_credential")
         [] a.op = "LuksOpen" ->
                validate_kind(g, a.node, {"LuksContainer"}, "luks.open.not_container")
                \cup Code(a.name \in InvalidNames, "luks.open.invalid_mapping_name")
                \cup Code(a.name \in names, "luks.open.mapping_name_in_use")
                \cup Code(a.credential = "nil", "luks.action.invalid_credential")
         [] a.op = "LuksClose" ->
                validate_kind(g, a.node, {"DmCryptMapping"}, "luks.close.not_mapping")
         [] a.op = "LuksResize" ->
                validate_kind(g, a.node, {"DmCryptMapping"}, "luks.resize.not_mapping")
                \cup Code(0 \in a.size, "luks.resize.zero_size")

validate_provider_action(g, a) ==
    CASE a.provider = "Luks" -> validate_luks_action(g, a)
      [] a.provider = "Lvm" -> validate_lvm_action(g, a)
      [] a.provider = "Mount" -> validate_mount_action(g, a)
      [] a.op = "FilesystemResize" -> validate_filesystem_resize(g, a)
      [] a.op = "PartitionCreate" -> validate_partition_create(g, a)
      [] a.op \in {"PartitionResize", "PartitionDelete", "PartitionSetAttributes"} ->
             Code(partition_table(g, a.node) = {}, "partition.action.invalid_table_ownership")
      [] OTHER -> {}
=============================================================================

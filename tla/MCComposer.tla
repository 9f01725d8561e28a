----------------------------- MODULE MCComposer -----------------------------
(* Three hosts: a partitioned disk with a mounted ext4, a volume group with an
   unopened LUKS container beside it, and a btrfs over two disks; and two on
   which a plan relies on the order of actions that it leaves open. *)
EXTENDS Composer

Disk(size) == Node(NodeSpec("Disk", Plain, size), [NodeFacts EXCEPT !.block = {[ro |-> {FALSE}]}])
Of(kind, attrs, size) == Node(NodeSpec(kind, attrs, size), NodeFacts)
Endpoint(kind, attrs, size) ==
    Node(NodeSpec(kind, attrs, size), [NodeFacts EXCEPT !.block = {[ro |-> {FALSE}]}])
Ext4(size) == Of("Filesystem", [fs |-> "Ext4", label |-> "none", allocation |-> "none"], size)
Btrfs == Of("Filesystem", [fs |-> "Btrfs", label |-> "none", allocation |-> "single"], {})
Source(n) == [s |-> "Filesystem", node |-> n]
Subvolume(n) == [s |-> "BtrfsSubvolume", node |-> n]
Entry(source, target) == MountEntry(source, target, <<>>, Host)
M == <<"/", "m">>
MD == <<"/", "m", "d">>

New(request, created) == [request |-> request, created |-> created]
Req(request) == [request |-> request, created |-> "none"]
One(a, requirements) == PlanFragment(<<FragmentAction(0, a)>>, {}, requirements, 0)
Fs(op, n) == [provider |-> "Filesystem", op |-> op, node |-> n]
Check(n, force) == [request |-> "Maintenance", intent |-> "Check", node |-> n, force |-> force]
CreateFs(n, created) ==
    New([request |-> "CreateFilesystem", node |-> n, fs |-> "Ext4", label |-> "x"], created)
ResizeFs(n, size) == [request |-> "ResizeFilesystem", node |-> n, size |-> size]
Checked(n) == <<ExternalRequirement(0, Cond("FilesystemCheckPassed", n))>>
Shrink(n, size) == One([size |-> size] @@ Fs("FilesystemResize", n), Checked(n))
ForcedCheck(n) == One([force |-> TRUE] @@ Fs("FilesystemCheck", n), <<>>)
Open(n, created) ==
    New([request |-> "OpenLuks", node |-> n, name |-> "map", credential |-> "key",
         read_only |-> FALSE], created)

\* ---- a partitioned disk
PartitionAttrs(number, offset) == [number |-> number, offset |-> offset, attributes |-> "none"]
DiskGraph == NodeGraph(
    [disk |-> Disk({8}), table |-> Of("PartitionTable", [table |-> "Gpt"], {8}),
     p1 |-> Endpoint("Partition", PartitionAttrs(1, 1), {3}), fs |-> Ext4({3})],
    {Edge("disk", "table", "Backs"), ContainsEdge("table", "p1", 1), Edge("p1", "fs", "Backs")}, {})
CreateP2 == New([request |-> "CreatePartition", node |-> "table", number |-> 2, offset |-> 4,
                 size |-> 2, attributes |-> "none"], "p2")
Partition(op) == [provider |-> "Partition", op |-> op, node |-> "p1"]
PartitionedDisk == [
    graph |-> DiskGraph, runtime |-> {Entry(Source("fs"), M)}, capacity |-> <<>>,
    requests |-> {CreateP2,
        New([request |-> "FormatLuks", node |-> "p2", credential |-> "key"], "luks"),
        Open("luks", "map"), CreateFs("p2", "fs2"), CreateFs("map", "fs2"),
        Req([request |-> "Mount", entry |-> Entry(Source("fs2"), MD)]),
        Req([request |-> "Unmount", target |-> M, context |-> Host]),
        Req(ResizeFs("fs", 2)), Req(Check("fs", TRUE)),
        Req([request |-> "SetFilesystemLabel", node |-> "fs", label |-> "x"]),
        Req([request |-> "DeletePartition", node |-> "p1"]),
        Req([request |-> "PersistMount", entry |-> Entry(Source("fs"), M)])},
    fragments |-> {One([size |-> 2] @@ Partition("PartitionResize"), <<>>),
        Shrink("fs", 2), ForcedCheck("fs"),
        One([attributes |-> "boot"] @@ Partition("PartitionSetAttributes"), <<>>),
        One([force |-> TRUE] @@ Fs("FilesystemRepair", "fs"), <<>>),
        One([provider |-> "Mount", op |-> "Mount", entry |-> Entry(Source("fs"), MD)], <<>>),
        One([provider |-> "Mount", op |-> "RemovePersistent", target |-> M, context |-> Host], <<>>),
        PlanFragment(<<FragmentAction(0, [force |-> FALSE] @@ Fs("FilesystemCheck", "fs"))>>,
                     {[before |-> 0, after |-> 0]}, <<>>, 0)},
    scopes |-> {ProtectedScope({"fs"}, {}, {}), ProtectedScope({"p1"}, {ProtectedMount(M, Host)}, {}),
                ProtectedScope({}, {}, {ProtectedMount(MD, Host)})},
    goal |-> {}]

\* ---- a volume group, and a container on a second disk
VolumeGraph == NodeGraph(
    [disk |-> Disk({10}), pv |-> Of("LvmPv", Plain, {}), vg |-> Of("LvmVg", [name |-> "vg", extent |-> {2}], {10}),
     lv |-> Endpoint("LvmLv", [name |-> "lv", layout |-> "Linear"], {4}), fs |-> Ext4({4}),
     disk2 |-> Disk({6}), luks |-> Endpoint("LuksContainer", Plain, {6})],
    {Edge("disk", "pv", "Backs"), MemberOf("pv", "vg", "LvmPv", {}), Edge("vg", "lv", "Provides"),
     Edge("lv", "fs", "Backs"), Edge("disk2", "luks", "Backs")}, {})
CreateLv(created, size, activate) ==
    New([request |-> "CreateLv", node |-> "vg", name |-> created, size |-> size, layout |-> "Linear",
         activate |-> activate], created)
Lv(op) == [provider |-> "Lvm", op |-> op, node |-> "lv"]
Activate(n, active) == [provider |-> "Lvm", op |-> "LvmSetActivation", node |-> n, active |-> active]
VolumeGroup == [
    graph |-> VolumeGraph, runtime |-> {}, capacity |-> [vg |-> 2],
    requests |-> {CreateLv("lv2", 2, TRUE), CreateLv("lv3", 4, FALSE), CreateFs("lv2", "fs2"),
        Req([request |-> "ResizeLv", node |-> "lv", size |-> 2]),
        Req([request |-> "ResizeLv", node |-> "lv", size |-> 6]),
        Req([request |-> "RemoveLv", node |-> "lv"]),
        Req(ResizeFs("fs", 6)), Req(Check("fs", TRUE)),
        Open("luks", "map"), CreateFs("map", "fs3"),
        Req([request |-> "CloseLuks", node |-> "map"]),
        Req([request |-> "Mount", entry |-> Entry(Source("fs"), M)])},
    fragments |-> {Shrink("fs", 2), ForcedCheck("fs"), One(Activate("lv", FALSE), <<>>),
        One(Activate("lv3", TRUE), <<>>), CreateFs("lv3", "fs2"),
        One([provider |-> "Luks", op |-> "LuksResize", node |-> "map", size |-> {}], <<>>),
        One([provider |-> "Luks", op |-> "LuksResize", node |-> "map", size |-> {4}], <<>>),
        One([provider |-> "Mount", op |-> "Unmount", target |-> M, context |-> Host], <<>>)},
    scopes |-> {ProtectedScope({"lv"}, {}, {}), ProtectedScope({"vg", "luks"}, {}, {})},
    goal |-> {}]

\* ---- a btrfs
BtrfsGraph == NodeGraph(
    [d1 |-> Disk({8}), d2 |-> Disk({8}), d3 |-> Disk({8}), bt |-> Btrfs,
     sv |-> Of("BtrfsSubvolume", [name |-> "sv", read_only |-> FALSE], {})],
    {MemberOf("d1", "bt", "Btrfs", {1}), MemberOf("d2", "bt", "Btrfs", {2}),
     Edge("bt", "sv", "Provides")}, {})
BtrfsOp(op) == [provider |-> "Btrfs", op |-> op, node |-> "bt"]
CreateSubvolume(created) ==
    [name |-> created, read_only |-> FALSE, planned |-> created] @@ BtrfsOp("BtrfsCreateSubvolume")
Pv(created) == One([provider |-> "Lvm", op |-> "LvmCreatePv", node |-> "d3", planned |-> created],
                   <<ExternalRequirement(0, Cond("Writable", "d3"))>>)
ReplaceD2 == [intent |-> "ReplaceMember", node |-> "bt", old |-> "d2", new |-> "d3"]
BtrfsHost == [
    graph |-> BtrfsGraph, runtime |-> {Entry(Subvolume("sv"), M)}, capacity |-> <<>>,
    requests |-> {Req([request |-> "Unmount", target |-> M, context |-> Host]),
        Req([request |-> "Mount", entry |-> Entry(Subvolume("sv2"), MD)]),
        Req([request |-> "Mount", entry |-> Entry(Subvolume("sv"), MD)])},
    fragments |-> {One([device |-> "d3"] @@ BtrfsOp("BtrfsAddDevice"), <<>>),
        One([device |-> "d2"] @@ BtrfsOp("BtrfsRemoveDevice"), <<>>),
        PlanFragment(<<FragmentAction(0, [device |-> "d3"] @@ BtrfsOp("BtrfsAddDevice")),
                       FragmentAction(1, [device |-> "d2"] @@ BtrfsOp("BtrfsRemoveDevice"))>>,
                     {[before |-> 0, after |-> 1]}, <<>>, 1),
        One([allocation |-> "raid1"] @@ BtrfsOp("BtrfsConvertProfiles"), <<>>),
        One(CreateSubvolume("sv2"), <<>>), Pv("pv"),
        One([provider |-> "Lvm", op |-> "LvmCreateVg", name |-> "vg2", members |-> <<"pv">>, planned |-> "vg2"], <<>>),
        One([provider |-> "Partition", op |-> "PartitionCreateTable", node |-> "d3",
             table |-> "Gpt", planned |-> "table"], <<>>),
        One([members |-> <<"d3", "d3">>, label |-> "none", allocation |-> "single",
             planned |-> "bt2"] @@ BtrfsOp("BtrfsCreate"), <<>>),
        [One(CreateSubvolume("sv2"), <<>>) EXCEPT !.errors = TRUE]},
    scopes |-> {ProtectedScope({"bt"}, {}, {}), ProtectedScope({"d1", "sv"}, {}, {}),
                ProtectedScope({}, {ProtectedMount(<<"m">>, Host)}, {})},
    goal |-> {}]
\* The same host composed for a goal: one device replaced by another.
ReplacedGraph == [BtrfsGraph EXCEPT !.deps = {MemberOf("d1", "bt", "Btrfs", {1}),
    MemberOf("d3", "bt", "Btrfs", {}), Edge("bt", "sv", "Provides")}]
BtrfsGoal == [BtrfsHost EXCEPT !.scopes = {ProtectedScope({"d1"}, {}, {})},
    !.goal = {[graph |-> ReplacedGraph, runtime |-> {Entry(Subvolume("sv"), M)},
               persistent |-> {}, boot |-> "Unmanaged", intents |-> <<ReplaceD2>>]}]

\* A mapping is open under the name that a request wants for another container.
NamedMapping == [VolumeGroup EXCEPT
    !.graph = NodeGraph(
        [disk3 |-> Disk({6}), luks3 |-> Endpoint("LuksContainer", Plain, {6}),
         old |-> Endpoint("DmCryptMapping", [name |-> "map"], {6})] @@ VolumeGraph.nodes,
        VolumeGraph.deps \cup {Edge("disk3", "luks3", "Backs"), Edge("luks3", "old", "Backs")}, {}),
    !.requests = {Open("luks", "map"), Req([request |-> "CloseLuks", node |-> "old"])},
    !.fragments = {}]
\* A group is deactivated beside the creation of a volume in it.
Deactivated == [VolumeGroup EXCEPT
    !.requests = {CreateLv("lv2", 2, TRUE), CreateFs("lv2", "fs2")},
    !.fragments = {One(Activate("vg", FALSE), <<>>)}]
Incidental == {NamedMapping, Deactivated}
Hosts == {PartitionedDisk, VolumeGroup, BtrfsHost, BtrfsGoal}
=============================================================================

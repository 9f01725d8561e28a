--------------------------- MODULE ProbeAssembly ----------------------------
(* storage-probe/src/linux.rs and assemble.rs: the providers built from the
   native readings, and the one state assembled from their contributions.  A
   reading is an option: the set of its one value, or {} when it failed. *)
EXTENDS NativeProbe

\* ---- Btrfs, ZFS and NVMe topology
IsBtrfs(g, n) == IsKind(g, n, {"Filesystem"}) /\ g.nodes[n].attrs.fs = "Btrfs"
btrfs_backing_devices(g) ==
    UNION {UNION {b.paths : b \in g.nodes[e.from].facts.block} :
           e \in {d \in g.deps : d.kind = "Backs" /\ IsBtrfs(g, d.to) /\ Has(g, d.from)}}
\* The filesystem found on a member device, else the content of the first device read.
BtrfsNode(g, fs) ==
    LET paths == {d.path : d \in fs.devices}
        found == {e.to : e \in {d \in g.deps : /\ d.kind = "Backs" /\ IsBtrfs(g, d.to)
                      /\ Has(g, d.from)
                      /\ \E b \in g.nodes[d.from].facts.block : b.paths \cap paths # {}}}
    IN IF found = {} THEN content_node_id(fs.seed) ELSE CHOOSE n \in found : TRUE
EnrichBtrfs(g, fs, id) ==
    WithEdges(IF ~Has(g, id) THEN g
              ELSE [g EXCEPT !.nodes[id].attrs.label = fs.label,
                             !.nodes[id].facts.ids = @ \cup {Id("BtrfsFsid", fs.uuid)}],
              UNION {{MemberOf(m, id, "Btrfs", {d.id}) : m \in AtPath(g, d.path)} :
                     d \in fs.devices})
enrich_btrfs_filesystems(g, entries) ==
    ForEach(LAMBDA h, fs : EnrichBtrfs(h, fs, BtrfsNode(h, fs)), g, entries)
Subvolumes(g, fs, subvolumes) ==
    ForEach(LAMBDA h, v : WithEdges(
                upsert_observation(h, <<"btrfs-subvolume", fs, v.id>>,
                    Node(NodeSpec("BtrfsSubvolume", [name |-> v.name, read_only |-> v.ro], {}),
                         Present)),
                {Edge(fs, <<"btrfs-subvolume", fs, v.id>>, "Provides")}), g, subvolumes)
enrich_btrfs(g, mounts, entries) ==
    ForEach(LAMBDA h, x :
                LET at == {i \in DOMAIN mounts : /\ mounts[i].target = x.target
                                                 /\ mounts[i].source.s = "Filesystem"}
                IN IF at = {} THEN h
                   ELSE Subvolumes(h, mounts[CHOOSE i \in at : \A j \in at : i <= j].source.node,
                                   x.subvolumes), g, entries)

pool_node_id(pool) == <<"zfs-pool", pool.guid, IF pool.guid = {} THEN pool.name ELSE "none">>
vdev_node_id(pool, v) ==
    IF v.guid = {} THEN <<"zfs-vdev", v.guid, pool.name, v.index>> ELSE <<"zfs-vdev", v.guid>>
EnrichVdev(s, pool, v, id) ==
    LET parents == {w \in pool.vdevs : w.guid # {} /\ w.guid = v.parent}
        above == IF parents # {}
                 THEN {MemberOf(id, vdev_node_id(pool, w), "ZfsChild", {}) : w \in parents}
                 ELSE {MemberOf(id, pool_node_id(pool), "ZfsTop", {}) : c \in v.class}
        below == {MemberOf(d, id, "ZfsChild", {}) :
                      d \in UNION {AtPath(s.graph, p) : p \in v.path}}
        node == Node(NodeSpec("ZfsVdev", [layout |-> v.kind], {}),
                     [Present EXCEPT !.presence = IF v.missing THEN "Missing" ELSE "Present",
                                     !.ids = {Id("ZfsGuid", x) : x \in v.guid}])
        known == [s EXCEPT !.graph = WithEdges(upsert_observation(@, id, node), above \cup below)]
    IN IF v.degraded THEN Warn(known, "zfs.vdev") ELSE known
EnrichPool(s, pool) ==
    ForEach(LAMBDA t, v : EnrichVdev(t, pool, v, vdev_node_id(pool, v)),
            [s EXCEPT !.graph = upsert_observation(@, pool_node_id(pool),
                Node(NodeSpec("ZfsPool", [name |-> pool.name], {}),
                     [Present EXCEPT !.ids = {Id("ZfsGuid", x) : x \in pool.guid}]))],
            pool.vdevs)
EnrichDataset(g, zfs, x) ==
    LET id == <<"zfs-dataset", x.name>>
    IN WithEdges(upsert_observation(g, id,
                     Node(NodeSpec(IF x.volume THEN "ZfsVolume" ELSE "ZfsDataset",
                                   [name |-> x.name], x.size), Present)),
                 {Edge(pool_node_id(p), id, "Provides") : p \in {q \in zfs.pools :
                                                                    q.name = Head(x.name)}})
enrich_zfs(s, zfs) ==
    LET pools == ForEach(EnrichPool, s, zfs.pools)
    IN [pools EXCEPT !.graph = ForEach(LAMBDA g, x : EnrichDataset(g, zfs, x), @, zfs.datasets)]

\* A namespace needs a number and a block size; nvme_identities are its identifiers.
NamespaceNode(g, x, id) ==
    [NodeOr(g, id, Node(NodeSpec("Unknown", Plain, {}), Present)) EXCEPT
        !.kind = "NvmeNamespace", !.attrs = [format |-> x.lba], !.size = {x.blocks * x.lba},
        !.facts.ids = @ \cup x.ids]
EnrichSubsystem(g, sub) ==
    LET id == <<"nvme-subsystem", sub.nqn>>
        Controller(h, c) ==
            [upsert_observation(h, <<"nvme-controller", c.name>>,
                 Node(NodeSpec("NvmeController", Plain, {}),
                      [Present EXCEPT !.ids = {Id("Serial", x) : x \in c.serial}]))
             EXCEPT !.rels = @ \cup {Edge(<<"nvme-controller", c.name>>, id, "NvmeAttachedTo")}]
        Namespace(h, x) == WithEdges(
            upsert_observation(h, block_node_id(x.dev), NamespaceNode(h, x, block_node_id(x.dev))),
            {Edge(id, block_node_id(x.dev), "Provides")})
    IN ForEach(Namespace,
               ForEach(Controller, upsert_observation(g, id,
                           Node(NodeSpec("NvmeSubsystem", [nqn |-> sub.nqn], {}), Present)),
                       sub.controllers),
               {x \in sub.namespaces : x.nsid # 0 /\ x.lba # 0})
enrich_nvme(g, subsystems) == ForEach(EnrichSubsystem, g, subsystems)

-----------------------------------------------------------------------------
\* Mount sources: the content of a path, directly or through an alias of its device.
external_mount_source(type) ==
    CASE type = "tmpfs" -> [s |-> "Tmpfs"] [] type = "nfs" -> [s |-> "Network"]
      [] OTHER -> [s |-> "Other"]
ContentAt(g, path) ==
    UNION {{e.to : e \in From(g, b, "Backs")} : b \in AtPath(g, path)}
mount_filesystem_source(g, path) ==
    [s |-> "Filesystem", node |->
        IF Has(g, content_node_id(path)) \/ ContentAt(g, path) = {} THEN content_node_id(path)
        ELSE CHOOSE n \in ContentAt(g, path) : TRUE]
IsDevice(entry) == entry.source # <<>>
\* observed_mount without a graph, as LibmountProvider uses it, and with one.
observed_record(entry, source) == MountEntry(source, entry.target, entry.options, Host)
LibmountRecord(entry) ==
    observed_record(entry, IF IsDevice(entry)
                           THEN [s |-> "Filesystem", node |-> content_node_id(entry.source)]
                           ELSE external_mount_source(entry.type))
Unresolved(g, entry) ==
    IsDevice(entry) /\ ~Has(g, mount_filesystem_source(g, entry.source).node)
SystemRecord(g, entry) ==
    observed_record(entry, IF ~IsDevice(entry) THEN external_mount_source(entry.type)
                           ELSE IF Unresolved(g, entry) THEN [s |-> "Other"]
                           ELSE mount_filesystem_source(g, entry.source))
\* Mutation: an unresolved source stays a reference to a filesystem node.
collect_system_mounts_dangling(s, entries) ==
    [s EXCEPT !.mounts = [i \in DOMAIN entries |->
        IF IsDevice(entries[i])
        THEN observed_record(entries[i], mount_filesystem_source(s.graph, entries[i].source))
        ELSE SystemRecord(s.graph, entries[i])]]
collect_system_mounts(s, entries) ==
    [s EXCEPT !.mounts = [i \in DOMAIN entries |-> SystemRecord(s.graph, entries[i])],
              !.diags = @ \cup {Diagnostic("mount.unresolved_source", "Error") :
                                    i \in {j \in DOMAIN entries : Unresolved(s.graph, entries[j])}}]

\* A failed enrichment leaves its part out and says so.
OrElse(reading, default) == IF reading = {} THEN default ELSE CHOOSE x \in reading : TRUE
Reported(s, readings, names) ==
    ForEach(LAMBDA t, n : IF readings[n] = {} THEN push_native_failure(t, n) ELSE t, s, names)
NoLvm == [vgs |-> {}, pvs |-> {}, lvs |-> {}]
\* The providers, each on top of the one before; {} is a provider that fails as a whole.
NativeBlock(r) ==
    IF r.udev = {} \/ r.fdisk = {} \/ r.blkid = {} THEN {}
    ELSE {ProviderState(assemble_native_block_state(OrElse(r.udev, {}), OrElse(r.fdisk, {}),
                                                    OrElse(r.blkid, {})))}
Mapper(s, r) ==
    LET t == enrich_luks(Reported(s, r, {"luks", "dm"}), OrElse(r.luks, {}))
    IN [t EXCEPT !.graph = enrich_devmapper(@, OrElse(r.udev, {}), OrElse(r.dm, {}))]
Runtime(s, r) ==
    LET t == Reported(s, r, {"loop", "swap", "multipath"})
    IN enrich_multipath(enrich_swap([t EXCEPT !.graph = enrich_loop(@, OrElse(r.loop, {}))],
                                    OrElse(r.swap, {})), OrElse(r.dm, {}), OrElse(r.multipath, {}))
\* Mutation: a failed LVM reading is taken for a host without LVM.
LocalSilent(s, r) ==
    enrich_lvm(enrich_mdraid(Reported(s, r, {"md"}), OrElse(r.md, [arrays |-> {}, members |-> {}])),
               OrElse(r.udev, {}), OrElse(r.dm, {}), OrElse(r.lvm, NoLvm))
Local(s, r) ==
    enrich_lvm(enrich_mdraid(Reported(s, r, {"md", "lvm"}),
                             OrElse(r.md, [arrays |-> {}, members |-> {}])),
               OrElse(r.udev, {}), OrElse(r.dm, {}), OrElse(r.lvm, NoLvm))
Mounted(s, r) == collect_system_mounts(s, OrElse(r.mounts, <<>>))
System(s, r) ==
    LET t == Mounted([Reported(s, r, {"btrfs", "mounts", "subvolumes", "zfs", "nvme"}) EXCEPT
                          !.graph = enrich_btrfs_filesystems(@, OrElse(r.btrfs, {}))], r)
        u == enrich_zfs([t EXCEPT !.graph = enrich_btrfs(@, t.mounts, OrElse(r.subvolumes, {}))],
                        OrElse(r.zfs, [pools |-> {}, datasets |-> {}]))
    IN [u EXCEPT !.graph = enrich_nvme(@, OrElse(r.nvme, {}))]
NativeMapper(r) == {Mapper(s, r) : s \in NativeBlock(r)}
NativeRuntime(r) == {Runtime(s, r) : s \in NativeMapper(r)}
NativeLocal(r) == {Local(s, r) : s \in NativeRuntime(r)}
NativeSystem(r) == {System(s, r) : s \in NativeLocal(r)}
Libmount(r) ==
    {[ProviderState(NodeGraph(<<>>, {}, {})) EXCEPT
         !.mounts = [i \in DOMAIN entries |-> LibmountRecord(entries[i])]] : entries \in r.mounts}

-----------------------------------------------------------------------------
\* assemble.rs: contributions in the order of responsibilities; the first one owns a node.
empty_current_state == ProviderState(NodeGraph(<<>>, {}, {}))
Conflicts(state, contribution) ==
    {n \in DOMAIN state.graph.nodes \cap DOMAIN contribution.graph.nodes :
         state.graph.nodes[n] # contribution.graph.nodes[n]}
merge_provider_state(state, c) ==
    [graph |-> [nodes |-> state.graph.nodes @@ c.graph.nodes,
                deps |-> state.graph.deps \cup c.graph.deps,
                rels |-> state.graph.rels \cup c.graph.rels],
     mounts |-> state.mounts \o c.mounts,
     diags |-> state.diags \cup c.diags \cup {Diagnostic("provider.node_conflict", "Error") :
                                                  n \in Conflicts(state, c)},
     vgs |-> state.vgs \o c.vgs]
\* providers: the contributions by responsibility, with the disputed nodes so far.
Contribute(acc, results) ==
    IF Cardinality(results) # 1
    THEN [acc EXCEPT !.state.diags = @ \cup {Diagnostic("provider.responsibility", "Error")}]
    ELSE LET result == UNION {x.result : x \in results}
         IN IF result = {}
            THEN [acc EXCEPT !.state = push_native_failure(@, "provider.probe_failed")]
            ELSE LET c == CHOOSE x \in result : TRUE
                 IN [state |-> merge_provider_state(acc.state, c),
                     conflicts |-> acc.conflicts \cup Conflicts(acc.state, c)]
probe_with_observations(by_responsibility) ==
    LET acc == FoldLeft(Contribute, [state |-> empty_current_state, conflicts |-> {}],
                        by_responsibility)
    IN [acc.state EXCEPT !.vgs = SelectSeq(@, LAMBDA v : v.node \notin acc.conflicts)]
\* observe.rs: a group record that is exact, and bound to one node by one record.
MatchedNode(g, v) ==
    /\ IsKind(g, v.node, {"LvmVg"}) /\ present(g, v.node)
    /\ g.nodes[v.node].attrs = [name |-> v.vg.name, extent |-> {v.vg.extent}]
    /\ g.nodes[v.node].size = {v.vg.size}
    /\ Cardinality({i \in g.nodes[v.node].facts.ids : i.t = "LvmVgUuid"}) = 1
ExactExtents(vg) == /\ vg.extent # 0 /\ vg.free <= vg.size
                    /\ vg.free % vg.extent = 0 /\ vg.size % vg.extent = 0
UniqueRecord(state, i) ==
    /\ \A j \in DOMAIN state.vgs \ {i} : /\ state.vgs[j].node # state.vgs[i].node
                                         /\ state.vgs[j].vg.uuid # state.vgs[i].vg.uuid
    /\ Bearers(state.graph, Id("LvmVgUuid", state.vgs[i].vg.uuid)) = {state.vgs[i].node}
Measured(state) ==
    {i \in DOMAIN state.vgs : /\ MatchedNode(state.graph, state.vgs[i])
                              /\ ExactExtents(state.vgs[i].vg) /\ UniqueRecord(state, i)
                              /\ ~state.vgs[i].vg.exported /\ state.vgs[i].vg.uuid # ""}
\* LinuxProbe::probe, from_lvm_observations and ProbedObservation::collect.
MeasuredPublication(instance, epoch, state, measured) ==
    [instance |-> instance, epoch |-> epoch, graph |-> state.graph, mounts |-> state.mounts,
     blocking |-> \/ \E d \in state.diags : d.severity # "Warning"
                  \/ measured # DOMAIN state.vgs,
     free |-> [n \in {state.vgs[i].node : i \in measured} |->
                  LET vg == state.vgs[CHOOSE i \in measured : state.vgs[i].node = n].vg
                  IN vg.free \div vg.extent],
     counts |-> [i \in DOMAIN state.vgs |-> <<state.vgs[i].node, state.vgs[i].vg.pvs>>]]
collect(instance, epoch, state) ==
    IF validate_structure(state.graph)
    THEN {o \in {MeasuredPublication(instance, epoch, state, Measured(state))} : validate(o)}
    ELSE {}

\* runtime/probe.rs: every physical volume of a measured group is there, once, on a disk.
MemberKnown(g, pv) ==
    /\ present(g, pv) /\ g.nodes[pv].kind = "LvmPv" /\ g.nodes[pv].size \notin {{}, {0}}
    /\ Cardinality({i \in g.nodes[pv].facts.ids : i.t = "LvmPvUuid"}) = 1
    /\ \A i \in g.nodes[pv].facts.ids :
           i.t = "LvmPvUuid" => i.v # "" /\ Bearers(g, i) = {pv}
    /\ Cardinality({e \in From(g, pv, "MemberOf") : e.role = "LvmPv"}) = 1
    /\ \E n \in ancestors(g, pv) : IsKind(g, n, {"Disk", "NvmeNamespace"})
check_vg_membership(o, vg) ==
    LET counts == SelectSeq(o.counts, LAMBDA c : c[1] = vg)
        members == {e.from : e \in {d \in Into(o.graph, vg, "MemberOf") : d.role = "LvmPv"}}
    IN IF /\ vg \in DOMAIN o.free /\ Len(counts) = 1
          /\ counts[1][2] # 0 /\ Cardinality(members) = counts[1][2]
          /\ \A pv \in members : MemberKnown(o.graph, pv)
       THEN "Satisfied" ELSE "Unknown"
=============================================================================

---------------------------- MODULE NativeProbe -----------------------------
(* storage-probe/src/linux.rs, assemble.rs: the state a probe publishes, as a
   function of the raw native readings.  A reading is a set of entries.  A
   device path is a sequence that starts with the device name;
   partitions and mapper names append to it.  The hashes that make node
   identities out of paths and UUIDs are tuples of what is hashed. *)
EXTENDS LiveEvidence

\* ---- readings: the entries of each library, with the fields the graph depends on
UdevBlockEntry(dev, class, type, devno, size, wwn, aliases) ==
    [dev |-> dev, class |-> class, type |-> type, devno |-> devno, size |-> size,
     wwn |-> wwn, aliases |-> aliases, ro |-> {FALSE}, geometry |-> {1}]
FdiskTable(dev, label, partitions) == [dev |-> dev, label |-> label, partitions |-> partitions]
FdiskPartition(number, offset, size, uuid) ==
    [number |-> number, offset |-> offset, size |-> size, uuid |-> uuid]
BlkidEntry(dev, type, uuid, label) == [dev |-> dev, type |-> type, uuid |-> uuid, label |-> label]
DevmapperEntry(devno, name, uuid, targets, deps) ==
    [devno |-> devno, name |-> name, uuid |-> uuid, targets |-> targets, deps |-> deps,
     ro |-> FALSE]
LibmountEntry(source, type, target, options) ==
    [source |-> source, type |-> type, target |-> target, options |-> options]
CryptsetupEntry(dev, uuid, offset) == [dev |-> dev, uuid |-> uuid, offset |-> offset]
LoopEntry(dev, ro) == [dev |-> dev, ro |-> ro]
SwapEntry(dev, active) == [dev |-> dev, active |-> active]
MdraidArrayEntry(dev, level, uuid, size, degraded) ==
    [dev |-> dev, level |-> level, uuid |-> uuid, size |-> size, degraded |-> degraded]
MdraidMemberEntry(dev, array) == [dev |-> dev, array |-> array]
LvmPvEntry(dev, uuid, vg, size) ==
    [dev |-> dev, uuid |-> uuid, vg |-> vg, size |-> size, missing |-> FALSE]
LvmVgEntry(name, uuid, size, free) ==
    [name |-> name, uuid |-> uuid, size |-> size, extent |-> 1, free |-> free, pvs |-> 1,
     exported |-> FALSE]
\* attributes is the fifth character of lv_attr, "short" if the string is not well formed.
LvmLvEntry(name, vg, uuid, size, attributes, origin) ==
    [name |-> name, vg |-> vg, uuid |-> uuid, size |-> size, layout |-> "Linear",
     attributes |-> attributes, origin |-> origin, pool |-> {}]
activation(lv) ==
    CASE lv.attributes = "a" -> {TRUE} [] lv.attributes = "-" -> {FALSE} [] OTHER -> {}
BtrfsFilesystemEntry(seed, uuid, label, devices) ==
    [seed |-> seed, uuid |-> uuid, label |-> label, devices |-> devices]
BtrfsDeviceEntry(id, path) == [id |-> id, path |-> path]
BtrfsEntry(target, subvolumes) == [target |-> target, subvolumes |-> subvolumes]
BtrfsSubvolumeEntry(id, name, ro) == [id |-> id, name |-> name, ro |-> ro]
ZfsPoolEntry(name, guid, vdevs) == [name |-> name, guid |-> guid, vdevs |-> vdevs]
ZfsVdevEntry(guid, parent, class, kind, path) ==
    [guid |-> guid, parent |-> parent, class |-> class, kind |-> kind, path |-> path,
     index |-> 0, missing |-> FALSE, degraded |-> FALSE]
\* The name of a dataset is a path that starts with its pool.
ZfsDatasetEntry(name, volume, size) == [name |-> name, volume |-> volume, size |-> size]
NvmeSubsystemEntry(nqn, controllers, namespaces) ==
    [nqn |-> nqn, controllers |-> controllers, namespaces |-> namespaces]
NvmeControllerEntry(name, serial) == [name |-> name, serial |-> serial]
NvmeNamespaceEntry(dev, nsid, lba, blocks, ids) ==
    [dev |-> dev, nsid |-> nsid, lba |-> lba, blocks |-> blocks, ids |-> ids]

block_node_id(path) == <<"block-path", path>>
content_node_id(path) == <<"content-path", path>>
table_node_id(path) == <<"partition-table-path", path>>
partition_path(device, number) == Append(device, number)

\* ProviderState; vgs are the raw volume group records with their nodes.
ProviderState(graph) == [graph |-> graph, mounts |-> <<>>, diags |-> {}, vgs |-> <<>>]
Diagnostic(code, severity) == [code |-> code, severity |-> severity]
push_native_failure(s, provider) ==
    [s EXCEPT !.diags = @ \cup {Diagnostic(provider, "MissingInformation")}]
Warn(s, code) == [s EXCEPT !.diags = @ \cup {Diagnostic(code, "Warning")}]
Present == [NodeFacts EXCEPT !.presence = "Present"]
upsert_observation(g, n, node) == insert_new(g, n, node)
WithEdges(g, edges) == [g EXCEPT !.deps = @ \cup edges]
NodeOr(g, n, default) == IF Has(g, n) THEN g.nodes[n] ELSE default
ForEach(step(_, _), g, entries) == FoldSet(LAMBDA x, h : step(h, x), g, entries)
\* The first node that lists a path among the paths of its block endpoint.
AtPath(g, path) ==
    LET found == {n \in DOMAIN g.nodes : \E b \in g.nodes[n].facts.block : path \in b.paths}
    IN IF found = {} THEN {} ELSE {CHOOSE n \in found : TRUE}

native_block_facts(e) ==
    [Present EXCEPT !.ids = {Id("Wwn", w) : w \in e.wwn},
                    !.block = {[paths |-> {e.dev} \cup e.aliases, devno |-> e.devno,
                                geometry |-> e.geometry, ro |-> e.ro]}]
native_endpoint_kind(e) ==
    CASE e.class = "loop" -> "Loop" [] e.class = "zram" -> "Zram"
      [] e.class \notin {"loop", "zram"} -> IF e.type = "disk" THEN "Disk" ELSE "Unknown"
insert_native_endpoint(g, e, kind) ==
    upsert_observation(g, block_node_id(e.dev), Node(NodeSpec(kind, Plain, e.size),
                                                     native_block_facts(e)))
InsertEndpoint(g, e) == insert_native_endpoint(g, e, native_endpoint_kind(e))
InsertUnknown(g, e) == insert_native_endpoint(g, e, "Unknown")

native_partition_table(label) ==
    CASE label = {"gpt"} -> {"Gpt"} [] label = {"dos"} -> {"Mbr"} [] OTHER -> {}
PartitionNode(part, endpoint) ==
    LET facts == IF endpoint = {} THEN Present
                 ELSE native_block_facts(CHOOSE e \in endpoint : TRUE)
    IN Node(NodeSpec("Partition", [number |-> part.number, offset |-> part.offset,
                                   attributes |-> "none"], {part.size}),
            [facts EXCEPT !.ids = @ \cup {Id("GptPartitionUuid", u) : u \in part.uuid}])
InsertTable(g, table, endpoints) ==
    LET id == table_node_id(table.dev)
        InsertPartition(h, part) ==
            LET path == partition_path(table.dev, part.number)
            IN WithEdges(upsert_observation(h, block_node_id(path),
                             PartitionNode(part, {e \in endpoints : e.dev = path})),
                         {ContainsEdge(id, block_node_id(path), part.offset)})
        spec == NodeSpec("PartitionTable",
                         [table |-> CHOOSE t \in native_partition_table(table.label) : TRUE], {})
    IN ForEach(InsertPartition,
               WithEdges(upsert_observation(g, id, Node(spec, Present)),
                         {Edge(block_node_id(table.dev), id, "Backs")}),
               {p \in table.partitions : p.number # 0})

\* Types that are not filesystems; the others become a filesystem of that type.
filesystem_kind(type) == CASE type = "ext4" -> "Ext4" [] type = "btrfs" -> "Btrfs" [] OTHER -> type
ContentSpec(signature, size) ==
    CASE signature.type = "swap" -> NodeSpec("Swap", Plain, size)
      [] signature.type = "LVM2_member" -> NodeSpec("LvmPv", Plain, size)
      [] signature.type \in {"crypto_LUKS", "linux_raid_member"} -> NodeSpec("Unknown", Plain, size)
      [] OTHER -> NodeSpec("Filesystem", [fs |-> filesystem_kind(signature.type),
                               label |-> signature.label, allocation |-> "none"], size)
\* as_str of the filesystem kind is the type blkid names, so identities match kinds.
ContentIds(signature) == {FilesystemId(filesystem_kind(signature.type), u) : u \in signature.uuid}
add_native_content(g, signature, endpoint) ==
    LET id == content_node_id(signature.dev)
    IN WithEdges(upsert_observation(g, id,
                     Node(ContentSpec(signature, UNION {e.size : e \in endpoint}),
                          [Present EXCEPT !.ids = ContentIds(signature)])),
                 {Edge(block_node_id(signature.dev), id, "Backs")})

\* Whole devices, then tables with their partitions, then the endpoints no table explains.
Represented(endpoints, tables) ==
    {e.dev : e \in {x \in endpoints : x.type # "partition"}}
    \cup UNION {{partition_path(t.dev, p.number) : p \in {q \in t.partitions : q.number # 0}} :
                t \in {u \in tables : native_partition_table(u.label) # {}}}
WithTables(g, endpoints, tables) ==
    ForEach(LAMBDA h, t : InsertTable(h, t, endpoints), g,
            {t \in tables : native_partition_table(t.label) # {}})
WithContent(g, endpoints, signatures) ==
    ForEach(LAMBDA h, s : add_native_content(h, s, {e \in endpoints : e.dev = s.dev}), g,
            {s \in signatures : Has(g, block_node_id(s.dev)) /\ s.type # "none"})
assemble_native_block_state(endpoints, tables, signatures) ==
    WithContent(
        ForEach(InsertUnknown,
                WithTables(ForEach(InsertEndpoint, NodeGraph(<<>>, {}, {}),
                                   {e \in endpoints : e.type # "partition"}), endpoints, tables),
                {e \in endpoints : e.dev \notin Represented(endpoints, tables)}),
        endpoints, signatures)

-----------------------------------------------------------------------------
\* The enrichments, in the order of the providers that apply them.
EnrichLuks(s, x) ==
    LET id == content_node_id(x.dev)
        old == s.graph.nodes[id]
        size == {n - x.offset : n \in {m \in old.size : m >= x.offset}}
        new == [old EXCEPT !.kind = "LuksContainer", !.attrs = Plain, !.size = size,
                           !.facts.ids = {i \in @ : i.fs # "crypto_LUKS"}
                                         \cup {Id("LuksUuid", u) : u \in x.uuid}]
    IN IF ~Has(s.graph, id) THEN s
       ELSE [s EXCEPT !.graph = upsert_observation(@, id, new),
                      !.diags = @ \cup {Diagnostic("luks.offset", "MissingInformation") :
                                            n \in {m \in old.size : m < x.offset}}]
enrich_luks(s, entries) == ForEach(EnrichLuks, s, entries)

devmapper_kind(x) ==
    CASE "crypt" \in x.targets -> <<"DmCryptMapping", [name |-> x.name]>>
      [] "multipath" \in x.targets -> <<"DmMultipath", Plain>>
      [] OTHER -> <<"Unknown", Plain>>
PathOf(endpoints, devno) == {e.dev : e \in {x \in endpoints : x.devno = devno}}
MapperPath(endpoints, devno) ==
    IF PathOf(endpoints, devno) = {} THEN <<"dm", devno>>
    ELSE CHOOSE p \in PathOf(endpoints, devno) : TRUE
MapperNode(g, path, x) ==
    LET unseen == Node(NodeSpec("Unknown", Plain, {}), [Present EXCEPT !.block =
                      {[paths |-> {path}, devno |-> x.devno, geometry |-> {}, ro |-> {}]}])
    IN [NodeOr(g, block_node_id(path), unseen) EXCEPT
            !.kind = devmapper_kind(x)[1], !.attrs = devmapper_kind(x)[2],
            !.facts.block = {[b EXCEPT !.paths = @ \cup {<<"mapper", x.name>>}, !.ro = {x.ro}] :
                                 b \in @}]
\* A crypt mapping rests on the LUKS container of its device, others on the device.
MapperSource(g, x, path) ==
    IF "crypt" \in x.targets /\ IsKind(g, content_node_id(path), {"LuksContainer"})
    THEN content_node_id(path) ELSE block_node_id(path)
EnrichMapper(g, x, path, endpoints) ==
    WithEdges(upsert_observation(g, block_node_id(path), MapperNode(g, path, x)),
        {Edge(MapperSource(g, x, p), block_node_id(path),
              IF "multipath" \in x.targets THEN "Path" ELSE "Backs") :
             p \in UNION {PathOf(endpoints, d) : d \in x.deps}})
enrich_devmapper(g, endpoints, entries) ==
    ForEach(LAMBDA h, x : EnrichMapper(h, x, MapperPath(endpoints, x.devno), endpoints), g, entries)

enrich_loop(g, entries) ==
    ForEach(LAMBDA h, x : IF ~Has(h, block_node_id(x.dev)) THEN h
                ELSE [h EXCEPT !.nodes[block_node_id(x.dev)].kind = "Loop",
                               !.nodes[block_node_id(x.dev)].facts.block =
                                   {[b EXCEPT !.ro = {x.ro}] : b \in @}], g, entries)
enrich_swap(s, entries) ==
    ForEach(LAMBDA t, x : IF x.active THEN Warn(t, "swap.active") ELSE t, s, entries)
\* Members that no mapper path explains, when some multipath mapping exists.
enrich_multipath(s, mappings, members) ==
    IF (\E x \in mappings : "multipath" \in x.targets)
       /\ \E m \in members : From(s.graph, block_node_id(m), "Path") = {}
    THEN push_native_failure(s, "multipath.member_unlinked") ELSE s

MdKinds == {"raid0", "raid1", "raid4", "linear", "multipath", "faulty", "container"}
mdraid_kind(array) == IF array.level \in MdKinds THEN "MdArray" ELSE "Unknown"
EnrichArray(s, array) ==
    LET id == block_node_id(array.dev)
        old == NodeOr(s.graph, id, Node(NodeSpec("Unknown", Plain, {}), Present))
        new == [old EXCEPT !.kind = mdraid_kind(array), !.attrs = [level |-> array.level],
                           !.size = {array.size},
                           !.facts.ids = @ \cup {Id("MdUuid", u) : u \in array.uuid}]
        known == [s EXCEPT !.graph = upsert_observation(@, id, new)]
    IN IF array.degraded THEN Warn(known, "mdraid.array_degraded") ELSE known
MdEdges(topology) ==
    UNION {{MemberOf(block_node_id(m.dev), block_node_id(a.dev), "MdData", {}) :
                a \in {x \in topology.arrays : x.uuid # {} /\ x.uuid = m.array}} :
           m \in topology.members}
enrich_mdraid(s, topology) ==
    [ForEach(EnrichArray, s, topology.arrays) EXCEPT !.graph = WithEdges(@, MdEdges(topology))]
-----------------------------------------------------------------------------
\* LVM: groups by UUID, physical volumes by path, volumes by device path when mapped.
vg_node_id(uuid) == <<"lvm-vg", uuid>>
VgNamed(lvm, name) == {vg_node_id(v.uuid) : v \in {w \in lvm.vgs : w.name = name}}
EnrichVg(s, vg) ==
    [s EXCEPT !.graph = upsert_observation(@, vg_node_id(vg.uuid),
                            Node(NodeSpec("LvmVg", [name |-> vg.name, extent |-> {vg.extent} \ {0}],
                                          {vg.size}),
                                 [Present EXCEPT !.ids = {Id("LvmVgUuid", vg.uuid)}])),
              !.vgs = Append(@, [node |-> vg_node_id(vg.uuid), vg |-> vg])]
EnrichPv(s, lvm, pv) ==
    LET id == content_node_id(pv.dev)
        old == NodeOr(s.graph, id, Node(NodeSpec("LvmPv", Plain, {pv.size}), Present))
        new == [old EXCEPT !.kind = "LvmPv", !.attrs = Plain,
                           !.facts.ids = @ \cup {Id("LvmPvUuid", pv.uuid)},
                           !.facts.presence = IF pv.missing THEN "Missing" ELSE "Present"]
        known == [s EXCEPT !.graph = WithEdges(upsert_observation(@, id, new),
                      {MemberOf(id, vg, "LvmPv", {}) : vg \in VgNamed(lvm, pv.vg)})]
    IN IF pv.missing THEN Warn(known, "lvm.pv_missing") ELSE known
\* The mapping of a volume carries its UUID; a volume without one is known by the UUID.
LvPath(endpoints, mappings, lv) ==
    UNION {PathOf(endpoints, x.devno) : x \in {m \in mappings : m.uuid = <<"LVM", lv.uuid>>}}
lv_node_id(endpoints, mappings, lv) ==
    IF LvPath(endpoints, mappings, lv) = {} THEN <<"lvm-lv", lv.uuid>>
    ELSE block_node_id(CHOOSE p \in LvPath(endpoints, mappings, lv) : TRUE)
EnrichLv(g, lvm, lv, id) ==
    LET old == NodeOr(g, id, Node(NodeSpec("LvmLv", Plain, {}), Present)).facts
    IN WithEdges(upsert_observation(g, id,
           Node(NodeSpec("LvmLv", [name |-> lv.name, layout |-> lv.layout], {lv.size}),
                [old EXCEPT !.active = activation(lv), !.ids = @ \cup {Id("LvmLvUuid", lv.uuid)}])),
           {Edge(vg, id, "Provides") : vg \in VgNamed(lvm, lv.vg)})
\* Snapshots are related to their origins, thin volumes provided by their pools.
LvLinks(lvs, ids, names, kind) ==
    {Edge(ids[b], ids[a], kind) : <<a, b>> \in {p \in lvs \X lvs :
         p[2].name \in names[p[1]] /\ p[1].vg = p[2].vg}}
enrich_lvm(s, endpoints, mappings, lvm) ==
    LET ids == [lv \in lvm.lvs |-> lv_node_id(endpoints, mappings, lv)]
        groups == ForEach(EnrichVg, s, lvm.vgs)
        members == ForEach(LAMBDA t, pv : EnrichPv(t, lvm, pv), groups, lvm.pvs)
        volumes == ForEach(LAMBDA g, lv : EnrichLv(g, lvm, lv, ids[lv]), members.graph, lvm.lvs)
        snapshots == LvLinks(lvm.lvs, ids, [lv \in lvm.lvs |-> lv.origin], "SnapshotOf")
    IN [members EXCEPT !.graph =
           [WithEdges(volumes, LvLinks(lvm.lvs, ids, [lv \in lvm.lvs |-> lv.pool], "Provides"))
            EXCEPT !.rels = @ \cup {Edge(e.to, e.from, e.kind) : e \in snapshots}]]
=============================================================================

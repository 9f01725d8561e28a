------------------------------ MODULE LiveHost ------------------------------
(* A machine with one volume group as the two probes read it.  A volume is
   [uuid, name, size, minor, fs]: minor is 0 when it is not mapped, fs the
   filesystem on it.  Mounts are [target, lv].  raw maps each reading to the
   machine as it was when the reading was taken. *)
EXTENDS LiveTargets

CONSTANT Probe           \* "guest" or "native"
VgSize == 8
Volume(uuid, name, minor, fs) ==
    [uuid |-> uuid, name |-> name, size |-> 2, minor |-> minor, fs |-> fs]
Fs(uuid) == {[uuid |-> uuid, label |-> {}]}
Free(h) == VgSize - 2 * Cardinality(h.lvs)
Active(h) == {v \in h.lvs : v.minor # 0}
Minor(h, uuid) == {v.minor : v \in {x \in Active(h) : x.uuid = uuid}}
SignatureAt(h, minor) == UNION {v.fs : v \in {x \in Active(h) : x.minor = minor}}

VgRecord(h) == LvmVgEntry("vg", "v", VgSize, Free(h))
LvRecord(v) == LvmLvEntry(v.name, "vg", v.uuid, v.size, IF v.minor = 0 THEN "-" ELSE "a", {})
MountOptions == <<"rw", "nosuid", "nodev", "noexec", "relatime">>

\* ---- dg-cli/examples/support/guest.rs: GuestProbe over the private disk of the guest
guest_id(epoch, kind, key) == <<"guest", epoch, <<kind, key>>>>
block(minor) == {[paths |-> {<<"dm", minor>>}, devno |-> minor, geometry |-> {1}, ro |-> {FALSE}]}
Identified(spec, id, endpoint, active) ==
    Node(spec, [Present EXCEPT !.ids = {id}, !.block = endpoint, !.active = active])
GuestVg(raw, epoch) ==
    NodeGraph((guest_id(epoch, "disk", "") :>
                   Identified(NodeSpec("Disk", Plain, {9}), Id("Wwn", "w"), block(0), {}))
              @@ (guest_id(epoch, "pv", "") :>
                   Identified(NodeSpec("LvmPv", Plain, {VgSize}), Id("LvmPvUuid", "p"), {}, {}))
              @@ (guest_id(epoch, "vg", "") :>
                   Identified(NodeSpec("LvmVg", [name |-> "vg", extent |-> {1}], {VgSize}),
                          Id("LvmVgUuid", "v"), {}, {})),
              {Edge(guest_id(epoch, "disk", ""), guest_id(epoch, "pv", ""), "Backs"),
               MemberOf(guest_id(epoch, "pv", ""), guest_id(epoch, "vg", ""), "LvmPv", {})}, {})
InsertFilesystem(g, epoch, v, fs) ==
    WithEdges(insert_new(g, guest_id(epoch, "fs", v.uuid),
                  Identified(NodeSpec("Filesystem", Ext4(fs.label), {}),
                         FilesystemId("Ext4", fs.uuid), {}, {})),
              {Edge(guest_id(epoch, "lv", v.uuid), guest_id(epoch, "fs", v.uuid), "Backs")})
\* The volume of the LVM reading, with the endpoint and the signature of later and earlier ones.
InsertVolume(g, raw, epoch, v, minors) ==
    ForEach(LAMBDA h, fs : InsertFilesystem(h, epoch, v, fs),
            WithEdges(insert_new(g, guest_id(epoch, "lv", v.uuid),
                          Identified(NodeSpec("LvmLv", [name |-> v.name, layout |-> "Linear"], {v.size}),
                                 Id("LvmLvUuid", v.uuid), UNION {block(m) : m \in minors},
                                 {v.minor # 0})),
                      {Edge(guest_id(epoch, "vg", ""), guest_id(epoch, "lv", v.uuid), "Provides")}),
            UNION {SignatureAt(raw["blkid"], m) : m \in minors})
GuestGraph(raw, epoch) ==
    ForEach(LAMBDA g, v : InsertVolume(g, raw, epoch, v, Minor(raw["nodes"], v.uuid)),
            GuestVg(raw, epoch), raw["lvm"].lvs)
\* Mounts of devices on which no filesystem was seen are left out.
MountedVolume(raw, epoch, g, m) ==
    {guest_id(epoch, "fs", v.uuid) : v \in {x \in raw["lvm"].lvs :
        /\ Minor(raw["nodes"], x.uuid) \cap Minor(raw["mounts"], m.lv) # {}
        /\ Has(g, guest_id(epoch, "fs", x.uuid))}}
GuestMounts(raw, epoch, g) ==
    FoldLeft(LAMBDA acc, m : acc \o SetToSeq({MountEntry([s |-> "Filesystem", node |-> n], m.target,
                                                         MountOptions, Host) :
                                              n \in MountedVolume(raw, epoch, g, m)}),
             <<>>, raw["mounts"].mounts)
GuestFails(raw) ==
    \/ \E v \in raw["lvm"].lvs : v.minor # 0 /\ Minor(raw["nodes"], v.uuid) = {}
    \/ \E i, j \in DOMAIN raw["mounts"].mounts :
           i # j /\ raw["mounts"].mounts[i].target = raw["mounts"].mounts[j].target
GuestState(raw, epoch, g) ==
    [ProviderState(g) EXCEPT
        !.mounts = GuestMounts(raw, epoch, g),
        !.vgs = <<[node |-> guest_id(epoch, "vg", ""), vg |-> VgRecord(raw["lvm"])]>>]
guest_collect(raw, epoch) ==
    IF GuestFails(raw) THEN {}
    ELSE {GuestState(raw, epoch, g) : g \in {GuestGraph(raw, epoch)}}

\* ---- the readings of NativeSystemProvider on the same machine, its group on a partition
MountedEntry(h, m) == LibmountEntry(<<"dm", CHOOSE minor \in Minor(h, m.lv) : TRUE>>, "ext4",
                                    m.target, MountOptions)
Native(raw) ==
    [udev |-> {{UdevBlockEntry(<<"sda">>, "disk", "disk", 0, {10}, {"w"}, {}),
                UdevBlockEntry(<<"sda", 1>>, "disk", "partition", 100, {9}, {}, {})}
               \cup {UdevBlockEntry(<<"dm", v.minor>>, "dm", "disk", v.minor, {v.size}, {}, {}) :
                         v \in Active(raw["nodes"])}},
     fdisk |-> {{FdiskTable(<<"sda">>, {"gpt"}, {FdiskPartition(1, 1, 9, {"part"})})}},
     blkid |-> {{BlkidEntry(<<"sda", 1>>, "LVM2_member", {"p"}, {})}
                \cup UNION {{BlkidEntry(<<"dm", v.minor>>, "ext4", {f.uuid}, f.label) : f \in v.fs} :
                            v \in Active(raw["blkid"])}},
     luks |-> {{}}, loop |-> {{}}, swap |-> {{}}, multipath |-> {{}}, btrfs |-> {{}},
     subvolumes |-> {{}}, nvme |-> {{}}, zfs |-> {[pools |-> {}, datasets |-> {}]},
     md |-> {[arrays |-> {}, members |-> {}]},
     dm |-> {{DevmapperEntry(v.minor, v.name, <<"LVM", v.uuid>>, {"linear"}, {100}) :
                  v \in Active(raw["nodes"])}},
     lvm |-> {[vgs |-> {VgRecord(raw["lvm"])},
               pvs |-> {LvmPvEntry(<<"sda", 1>>, "p", "vg", VgSize)},
               lvs |-> {LvRecord(v) : v \in raw["lvm"].lvs}]},
     mounts |-> {[i \in DOMAIN raw["mounts"].mounts |->
                    MountedEntry(raw["mounts"], raw["mounts"].mounts[i])]}]

Readings == IF Probe = "guest" THEN <<"lvm", "blkid", "nodes", "mounts">>
            ELSE <<"nodes", "blkid", "lvm", "mounts">>
\* One published observation of the selected prober; {} is an invalid one.
Results(raw, epoch) == IF Probe = "guest" THEN {guest_collect(raw, epoch)}
                       ELSE {NativeSystem(r) : r \in {Native(raw)}}
Publication(raw, epoch) ==
    UNION {collect("live", epoch, state) : state \in
        {probe_with_observations(<<{[id |-> Probe, result |-> r]}>>) : r \in Results(raw, epoch)}}
=============================================================================

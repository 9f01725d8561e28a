------------------------------ MODULE ProbeRun ------------------------------
(* A service that publishes one observation after another while the host
   changes: readings are taken one at a time, later ones ask only about what
   earlier ones found, any of them may fail, and the host may change between
   two of them.  A host is the record of what each reading would return. *)
EXTENDS ProbeAssembly

CONSTANTS
    Moves,       \* the pairs of hosts between which the machine may move
    Services,      \* the selected providers: a sequence of the sets that share a responsibility
    MaxEpoch, MaxChanges, MaxFailures
VARIABLES
    host,          \* what the readings return now
    service,       \* the providers of this service, in the order of their responsibilities
    raw,           \* the readings of the pass in progress, by provider
    todo,          \* the readings still to take
    epoch, changes, failures,
    pub, prev      \* the last two passes: publication or {}, its host, whether torn, what failed
vars == <<host, service, raw, todo, epoch, changes, failures, pub, prev>>

\* The readings of a provider in the order of its calls.
BlockReadings == <<"udev", "fdisk", "blkid">>
LocalReadings == BlockReadings \o <<"luks", "dm", "loop", "swap", "multipath", "md", "lvm">>
SystemReadings == LocalReadings \o <<"btrfs", "mounts", "subvolumes", "zfs", "nvme">>
Readings == [block |-> BlockReadings, local |-> LocalReadings, system |-> SystemReadings,
             libmount |-> <<"mounts">>]
Unread == [x \in Range(SystemReadings) |-> {}]
Result(provider, r) ==
    CASE provider = "block" -> NativeBlock(r) [] provider = "local" -> NativeLocal(r)
      [] provider = "system" -> NativeSystem(r) [] provider = "libmount" -> Libmount(r)

\* Only providers without a rival are called.
Called(s) == FoldLeft(LAMBDA acc, group : IF Cardinality(group) = 1
                                          THEN Append(acc, CHOOSE p \in group : TRUE) ELSE acc,
                      <<>>, s)
Calls(s) == FoldLeft(LAMBDA acc, p : acc \o [i \in DOMAIN Readings[p] |-> <<p, Readings[p][i]>>],
                     <<>>, Called(s))
\* A pass: its publication or {}, the host it began on, and what happened to it.
NoPass == [out |-> {}, done |-> FALSE, on |-> {}, torn |-> FALSE, failed |-> {}]
Begun == [NoPass EXCEPT !.on = {host}]
Start(s) == [p \in Range(Called(s)) |-> Unread]
Init ==
    /\ host \in {c[1] : c \in Moves} /\ service \in Services
    /\ raw = Start(service) /\ todo = Calls(service)
    /\ epoch = 0 /\ changes = 0 /\ failures = 0
    /\ pub = NoPass /\ prev = NoPass

\* What a reading is asked about follows from the readings before it.
Devices(entries, wanted(_)) == {e.dev : e \in {x \in entries : wanted(x)}}
Signed(r, type) == Devices(OrElse(r.blkid, {}), LAMBDA x : x.type = type)
OfClass(r, class) == Devices(OrElse(r.udev, {}), LAMBDA x : x.class = class)
Answer(h, r, reading) ==
    CASE reading = "fdisk" ->
             {t \in h.fdisk : t.dev \in Devices(OrElse(r.udev, {}), LAMBDA x : x.type = "disk")}
      [] reading = "luks" -> {x \in h.luks : x.dev \in Signed(r, "crypto_LUKS")}
      [] reading = "loop" -> {x \in h.loop : x.dev \in OfClass(r, "loop")}
      [] reading = "swap" -> {x \in h.swap : x.dev \in Signed(r, "swap")}
      [] reading = "md" ->
             [arrays |-> {x \in h.md.arrays : x.dev \in OfClass(r, "md")},
              members |-> {x \in h.md.members : x.dev \in Signed(r, "linux_raid_member")}]
      [] reading = "btrfs" ->
             {x \in h.btrfs : \E s \in NativeLocal(r) :
                  {d.path : d \in x.devices} \cap btrfs_backing_devices(s.graph) # {}}
      [] reading = "subvolumes" ->
             {x \in h.subvolumes : \E m \in Range(OrElse(r.mounts, <<>>)) :
                  m.type = "btrfs" /\ m.target = x.target}
      [] OTHER -> h[reading]

\* The first reading of a pass begins its record and retires the one before.
Note(first, change(_)) ==
    /\ pub' = change(IF first THEN Begun ELSE pub)
    /\ prev' = IF first THEN pub ELSE prev
Read ==
    /\ todo # <<>> /\ epoch < MaxEpoch
    /\ \E p \in {Head(todo)[1]}, reading \in {Head(todo)[2]} :
           raw' = [raw EXCEPT ![p][reading] = {Answer(host, raw[p], reading)}]
    /\ Note(todo = Calls(service), LAMBDA pass : pass)
    /\ todo' = Tail(todo)
    /\ UNCHANGED <<host, service, epoch, changes, failures>>
\* A provider of which a block reading failed makes no further calls.
ReadFails ==
    /\ todo # <<>> /\ epoch < MaxEpoch /\ failures < MaxFailures
    /\ failures' = failures + 1
    /\ \E p \in {Head(todo)[1]}, reading \in {Head(todo)[2]} :
           /\ Note(todo = Calls(service),
                   LAMBDA pass : [pass EXCEPT !.failed = @ \cup {reading}])
           /\ todo' = IF reading \in Range(BlockReadings)
                      THEN SelectSeq(todo, LAMBDA t : t[1] # p) ELSE Tail(todo)
    /\ UNCHANGED <<host, service, raw, epoch, changes>>
\* LinuxProbe::probe and ProbedObservation::collect once every adapter has answered.
Publish ==
    /\ todo = <<>> /\ epoch < MaxEpoch
    /\ epoch' = epoch + 1
    /\ pub' = [pub EXCEPT !.done = TRUE, !.out = collect("probe", epoch',
           probe_with_observations([i \in DOMAIN service |->
               IF Cardinality(service[i]) = 1
               THEN {[id |-> p, result |-> Result(p, raw[p])] : p \in service[i]}
               ELSE {[id |-> p, result |-> {}] : p \in service[i]}]))]
    /\ raw' = Start(service) /\ todo' = Calls(service)
    /\ UNCHANGED <<host, service, changes, failures, prev>>
\* The machine changes: a reboot with other names, a replaced volume, an unplugged disk.
Change ==
    /\ changes < MaxChanges /\ epoch < MaxEpoch
    /\ changes' = changes + 1
    /\ \E c \in Moves : c[1] = host /\ c[2] # host /\ host' = c[2]
    /\ pub' = [pub EXCEPT !.torn = @ \/ todo # Calls(service)]
    /\ UNCHANGED <<service, raw, todo, epoch, failures, prev>>
Next == Read \/ ReadFails \/ Publish \/ Change
Spec == Init /\ [][Next]_vars

-----------------------------------------------------------------------------
\* The physical thing a node stands for, on the host where it was observed.
Physical(h, n) ==
    IF n[1] \in {"block-path", "content-path", "partition-table-path"}
    THEN <<n[1], h.obj[n[2]]>>
    ELSE IF n[1] = "lvm-lv" THEN <<"block-path", n[2]>> ELSE n
Sound(pass) == pass.done /\ ~pass.torn
ReadsSystem(s) == \E i \in DOMAIN s : s[i] = {"system"}

(* A pass over a host at rest is published whatever part of it failed: no enrichment that is
   left out makes the others refer to a node that is not there
   (NativeSystemProvider::probe, push_native_failure). *)
PassIsPublished == Sound(pub) /\ ReadsSystem(service) => pub.out # {}

\* Every durable identity the machine reports, and where its mounts really come from.
Identities(h) ==
    UNION {e.wwn : e \in h.udev} \cup UNION {UNION {p.uuid : p \in t.partitions} : t \in h.fdisk}
    \cup UNION {s.uuid : s \in {x \in h.blkid : x.type \in {"ext4", "btrfs"}}}
    \cup {v.uuid : v \in h.lvm.vgs \cup h.lvm.pvs \cup h.lvm.lvs}
    \cup UNION {a.uuid : a \in h.md.arrays} \cup UNION {x.uuid : x \in h.luks}
    \cup UNION {p.guid \cup UNION {v.guid : v \in p.vdevs} : p \in h.zfs.pools}
    \cup UNION {UNION {{i.v : i \in x.ids} : x \in s.namespaces} : s \in h.nvme}
Observed(o) == UNION {{i.v : i \in o.graph.nodes[n].facts.ids} : n \in DOMAIN o.graph.nodes}
DeviceBehind(h, path) ==
    {e.dev : e \in {x \in h.udev : \/ path \in {x.dev} \cup x.aliases
                                   \/ \E m \in h.dm : m.devno = x.devno /\ path = <<"mapper", m.name>>}}
MountIsRight(h, o, i) ==
    IsDevice(h.mounts[i]) =>
        o.mounts[i].source \in {[s |-> "Filesystem", node |-> content_node_id(d)] :
                                   d \in DeviceBehind(h, h.mounts[i].source)}
(* A publication without blocking diagnostics left nothing out: no reading failed, and when
   the host was at rest every identity it reports is on some node and every mount resolves,
   through whatever alias, to the filesystem on the mounted device (push_native_failure,
   mount_filesystem_source; qualify_observed_status trusts the absence of diagnostics). *)
SilenceIsComplete ==
    \A o \in pub.out : ~o.blocking /\ ReadsSystem(service) =>
        /\ pub.failed = {}
        /\ ~pub.torn => \A h \in pub.on : /\ Identities(h) \subseteq Observed(o)
                                          /\ \A i \in DOMAIN h.mounts : MountIsRight(h, o, i)

(* Nodes of two publications are correlated only if they are the same thing, although node
   identities are hashes of device paths and paths change owner between two boots or when a
   volume is replaced; two disks that report one WWN are not correlated at all
   (correlate_nodes). *)
SameThing ==
    Sound(pub) /\ Sound(prev) =>
        \A a \in prev.out, b \in pub.out, g \in prev.on, h \in pub.on :
            \A n \in DOMAIN a.graph.nodes :
                \A c \in UNION correlate_nodes(a.graph, b.graph, {n}) :
                    Physical(g, n) = Physical(h, c.target)
=============================================================================

--------------------------- MODULE OutputBindings ---------------------------
(* storage-runtime/src/bindings.rs, targets.rs, filesystem.rs: which observed
   nodes are the verified outputs of a run, whether everything else still is
   what was reviewed, and what an action of the recipe resolves to.  An
   error is an empty set of results.  Bindings are
     [lvs, filesystems, mounts]: functions from planned nodes, and the sequence of
   verified mounts. *)
EXTENDS ProbeAssembly

NoBindings == [lvs |-> <<>>, filesystems |-> <<>>, mounts |-> <<>>]
\* The publication a binding was verified in: the same prober, at or after it.
Since(b, o) == o.instance = b.instance /\ o.epoch >= b.epoch

OwningGroup(g, vg, vg_uuid) ==
    /\ IsKind(g, vg, {"LvmVg"}) /\ present(g, vg)
    /\ OnlyOfType(g.nodes[vg], Id("LvmVgUuid", vg_uuid))
    /\ Bearers(g, Id("LvmVgUuid", vg_uuid)) = {vg}
find_lv(o, uuid, vg_uuid) ==
    {n \in Bearers(o.graph, Id("LvmLvUuid", uuid)) :
        /\ Bearers(o.graph, Id("LvmLvUuid", uuid)) = {n}
        /\ present(o.graph, n) /\ IsKind(o.graph, n, {"LvmLv"})
        /\ OnlyOfType(o.graph.nodes[n], Id("LvmLvUuid", uuid))
        /\ \E vg \in DOMAIN o.graph.nodes : /\ Parents(o.graph, n) = {Edge(vg, n, "Provides")}
                                            /\ OwningGroup(o.graph, vg, vg_uuid)}
Ext4(label) == [fs |-> "Ext4", label |-> label, allocation |-> "none"]
Unconsumed(g, n) == /\ \A e \in g.deps : e.from # n
                /\ \A e \in g.rels : n \notin {e.from, e.to}
observe_ext4(o, backing, uuid, label) ==
    {n \in Bearers(o.graph, FilesystemId("Ext4", uuid)) :
        /\ Bearers(o.graph, FilesystemId("Ext4", uuid)) = {n}
        /\ present(o.graph, n) /\ present(o.graph, backing)
        /\ IsKind(o.graph, backing, {"LvmLv"}) /\ IsKind(o.graph, n, {"Filesystem"})
        /\ o.graph.nodes[n].attrs = Ext4(label)
        /\ OnlyOfType(o.graph.nodes[n], FilesystemId("Ext4", uuid))
        /\ Unconsumed(o.graph, n) /\ Parents(o.graph, n) = {Edge(backing, n, "Backs")}}
correlate_created_ext4(before, after, planned, backing, uuid, label) ==
    IF \/ Has(before.graph, planned) \/ before.instance # after.instance
       \/ before.epoch >= after.epoch \/ Bearers(before.graph, FilesystemId("Ext4", uuid)) # {}
       \/ ~IsKind(before.graph, backing, {"LvmLv"})
    THEN {}
    ELSE UNION {observe_ext4(after, c.target, uuid, label) :
                    c \in UNION correlate_nodes(before.graph, after.graph, {backing})}

resolve_lv(b, planned, o) ==
    IF planned \in DOMAIN b.lvs /\ Since(b.lvs[planned], o)
    THEN {n \in find_lv(o, b.lvs[planned].uuid, b.lvs[planned].vg_uuid) :
              SpecOf(o.graph.nodes[n]) = b.lvs[planned].spec}
    ELSE {}
resolve_filesystem(b, fs, o) ==
    IF ~Since(fs, o) THEN {}
    ELSE {n \in UNION {observe_ext4(o, backing, fs.uuid, fs.spec.attrs.label) :
                           backing \in resolve_lv(b, fs.backing, o)} :
              SpecOf(o.graph.nodes[n]) = fs.spec}
resolve(b, planned, o) ==
    IF planned \in DOMAIN b.filesystems THEN resolve_filesystem(b, b.filesystems[planned], o)
    ELSE resolve_lv(b, planned, o)
Outputs(b) == DOMAIN b.lvs \cup DOMAIN b.filesystems
Identity(b, planned) == IF planned \in DOMAIN b.lvs THEN Id("LvmLvUuid", b.lvs[planned].uuid)
                        ELSE FilesystemId("Ext4", b.filesystems[planned].uuid)
\* Every output again, or nothing.
correlations(b, o) ==
    IF \E p \in Outputs(b) : resolve(b, p, o) = {} THEN {}
    ELSE {{NodeCorrelation(p, CHOOSE n \in resolve(b, p, o) : TRUE, Identity(b, p)) :
               p \in Outputs(b)}}

\* What was reviewed, with the outputs added as they were verified.
BaselineGroup(g, uuid) ==
    {n \in Bearers(g, Id("LvmVgUuid", uuid)) : g.nodes[n].kind = "LvmVg"}
Verified(spec, id) == Node(spec, [Present EXCEPT !.ids = {id}])
Expected(baseline, b) ==
    [graph |-> [nodes |-> [n \in Outputs(b) |->
                    Verified(IF n \in DOMAIN b.lvs THEN b.lvs[n].spec ELSE b.filesystems[n].spec,
                             Identity(b, n))] @@ baseline.graph.nodes,
                deps |-> baseline.graph.deps
                    \cup UNION {{Edge(vg, n, "Provides") :
                                     vg \in BaselineGroup(baseline.graph, b.lvs[n].vg_uuid)} :
                                n \in DOMAIN b.lvs}
                    \cup {Edge(b.filesystems[n].backing, n, "Backs") : n \in DOMAIN b.filesystems},
                rels |-> baseline.graph.rels],
     mounts |-> baseline.mounts \o b.mounts]
reviewed_scope(baseline, b, o) ==
    IF correlations(b, o) # {} /\ \A n \in DOMAIN b.lvs :
           Cardinality(BaselineGroup(baseline.graph, b.lvs[n].vg_uuid)) = 1
    THEN {Expected(baseline, b)} ELSE {}
-----------------------------------------------------------------------------
\* check_scope: the whole connected component, and all mounts.
Component(g, n) ==
    LET edges == {[from |-> e.from, to |-> e.to] : e \in g.deps \cup g.rels}
    IN Above(edges \cup {[from |-> e.to, to |-> e.from] : e \in edges}, {n})
Touching(edges, nodes) == {e \in edges : e.from \in nodes \/ e.to \in nodes}
Moved(edges, to) == {[e EXCEPT !.from = to[@], !.to = to[@]] : e \in edges}
SameDevice(old, new) ==
    old.kind \in {"Disk", "NvmeNamespace", "Partition"} =>
        \E x \in old.facts.block, y \in new.facts.block :
            /\ old.size \notin {{}, {0}} /\ x.geometry # {} /\ y.geometry = x.geometry
            /\ y.ro = {FALSE}
Sorted(options) == [x \in Range(options) |-> Cardinality({i \in DOMAIN options : options[i] = x})]
MountTargetsUnique(s) == \A i, j \in DOMAIN s.mounts :
    i # j => <<s.mounts[i].target, s.mounts[i].context>> # <<s.mounts[j].target, s.mounts[j].context>>
\* Sources outside the component need a stable identity too.
Remounted(baseline, current, m) ==
    IF mount_source_node(m.source) = {} THEN {[m EXCEPT !.options = Sorted(@)]}
    ELSE {[m EXCEPT !.options = Sorted(@), !.source.node = c.target] :
              c \in UNION correlate_nodes(baseline.graph, current.graph, {m.source.node})}
SameMounts(baseline, current) ==
    /\ MountTargetsUnique(baseline) /\ MountTargetsUnique(current)
    /\ \A i \in DOMAIN baseline.mounts : Remounted(baseline, current, baseline.mounts[i]) # {}
    /\ UNION {Remounted(baseline, current, baseline.mounts[i]) : i \in DOMAIN baseline.mounts}
       = {[current.mounts[i] EXCEPT !.options = Sorted(@)] : i \in DOMAIN current.mounts}
SameScope(baseline, current, to) ==
    /\ \A n \in DOMAIN to : /\ SpecOf(baseline.graph.nodes[n]) = SpecOf(current.graph.nodes[to[n]])
                            /\ SameDevice(baseline.graph.nodes[n], current.graph.nodes[to[n]])
    /\ Moved(Touching(baseline.graph.deps, DOMAIN to), to)
       = Touching(current.graph.deps, Range(to))
    /\ Moved(Touching(baseline.graph.rels, DOMAIN to), to)
       = Touching(current.graph.rels, Range(to))
    /\ SameMounts(baseline, current)
Targets(mapping) == [n \in {c.source : c \in mapping} |->
                        (CHOOSE c \in mapping : c.source = n).target]
\* Mutation: consumers that appeared on reviewed nodes are not compared.
check_scope_of_nodes(baseline, current, source) ==
    \E mapping \in correlate_nodes(baseline.graph, current.graph, Component(baseline.graph, source)) :
        \A c \in mapping : SpecOf(baseline.graph.nodes[c.source]) = SpecOf(current.graph.nodes[c.target])
check_scope(baseline, current, source) ==
    \E mapping \in correlate_nodes(baseline.graph, current.graph, Component(baseline.graph, source)) :
        SameScope(baseline, current, Targets(mapping))
=============================================================================

---------------------------- MODULE LiveTargets -----------------------------
(* storage-runtime/src/targets.rs, bindings.rs, host.rs: what an action of the
   supported recipe resolves to in one publication, when it is admitted, and
   when its completion verifies it.  context is [baseline, goal, order, contracts]
   of the run; policy maps the questions to the trusted host to its answers. *)
EXTENDS OutputBindings

IsMount(a) == a.op = "Mount"
IsExt4(a) == a.op = "FilesystemCreate" /\ a.fs = "Ext4"
\* A path begins with another one.
Under(path, prefix) == IsPrefix(prefix, path)
SupportedOptions == {"rw", "nosuid", "nodev", "noexec", "relatime"}
is_ext4_host_mount(a) ==
    /\ a.entry.source.s = "Filesystem" /\ a.entry.context = Host /\ valid_mount_path(a.entry.target)
    /\ a.entry.target # <<"/">> /\ Range(a.entry.options) = SupportedOptions
    /\ IsInjective(a.entry.options)
\* The filesystem of a mount: verified, mounted nowhere, nothing mounted at or below the target.
MountableAt(b, a, o) ==
    {n \in resolve(b, a.entry.source.node, o) :
        /\ is_ext4_host_mount(a)
        /\ \A i \in DOMAIN o.mounts : o.mounts[i].context = Host =>
               /\ ~Under(o.mounts[i].target, a.entry.target)
               /\ o.mounts[i].source # [s |-> "Filesystem", node |-> n]}
Backing(scope, fs) == {e.from : e \in Into(scope.graph, fs, "Backs")}
\* The volume an action is about; a mount is about the volume under its filesystem.
VolumeOf(scope, a) ==
    IF IsMount(a) THEN Backing(scope, a.entry.source.node)
    ELSE IF IsExt4(a) \/ (a.op = "LvmSetActivation" /\ a.active) THEN {a.node} ELSE {}
FormatEndpoint(o, n, node, label) ==
    /\ \A l \in label : Len(l) <= 16
    /\ node.facts.active = {TRUE} /\ UsableBlock(node) /\ Unconsumed(o.graph, n)
MountEndpoint(node) ==
    /\ node.facts.active = {TRUE}
    /\ \E k \in node.facts.block : k.ro = {FALSE} /\ k.geometry # {} /\ Cardinality(k.paths) = 1
LvTarget(scope, b, a, o) ==
    UNION {{[planned |-> v, observed |-> n, uuid |-> b.lvs[v].uuid,
             name |-> o.graph.nodes[n].attrs.name, size |-> o.graph.nodes[n].size,
             block |-> o.graph.nodes[n].facts.block] :
                n \in {m \in resolve(b, v, o) :
                    /\ IsKind(o.graph, m, {"LvmLv"}) /\ o.graph.nodes[m].attrs.layout = "Linear"
                    /\ Cardinality(Parents(scope.graph, v)) = 1 /\ o.graph.nodes[m].size # {}
                    /\ IsExt4(a) => FormatEndpoint(o, m, o.graph.nodes[m], a.label)
                    /\ IsMount(a) => MountEndpoint(o.graph.nodes[m])}} :
           v \in VolumeOf(scope, a)}
NameTaken(o, vg, name) ==
    \E e \in o.graph.deps : e.from = vg /\ IsKind(o.graph, e.to, {"LvmLv"})
                            /\ o.graph.nodes[e.to].attrs.name = name
\* The group an action is about, correlated by its UUID, and its unchanged scope.
GroupTarget(scope, a, o, vg) ==
    {[planned |-> vg, observed |-> c.target, vg_uuid |-> c.identity.v,
      vg_name |-> o.graph.nodes[c.target].attrs.name] :
        c \in {d \in UNION correlate_nodes(scope.graph, o.graph, {vg}) :
                  /\ d.identity.t = "LvmVgUuid"
                  /\ a.op = "LvmCreateLv" => a.size > 0 /\ ~NameTaken(o, d.target, a.name)
                  /\ check_scope(scope, o, vg)}}
ResolvedAction(a, o, target, lv, fs) ==
    [op |-> a, epoch |-> o.epoch, target |-> target, lv |-> lv, fs |-> fs]
resolve_in(scope, b, a, o) ==
    IF a.op = "LvmCreateLv" /\ a.layout = "Linear"
    THEN {ResolvedAction(a, o, t, {}, {}) : t \in GroupTarget(scope, a, o, a.node)}
    ELSE IF IsMount(a) /\ MountableAt(b, a, o) = {} THEN {}
    ELSE UNION {UNION {{ResolvedAction(a, o, t, {lv},
                            IF IsMount(a) THEN MountableAt(b, a, o) ELSE {}) :
                        t \in GroupTarget(scope, a, o, e.from)} :
                       e \in Parents(scope.graph, lv.planned)} :
                lv \in LvTarget(scope, b, a, o)}
resolve_action_with_bindings(baseline, b, a, o) ==
    UNION {resolve_in(scope, b, a, o) : scope \in reviewed_scope(baseline, b, o)}

-----------------------------------------------------------------------------
\* check_admission.  Questions to the policy: availability, scope, exclusion, authorization,
\* destructive; an answer other than Satisfied is not told apart.
Answered(policy, question, status) ==
    IF status = "Unknown" THEN policy[question] ELSE status
Excluded(a, c) ==
    \/ IsExt4(a) /\ c = Cond("NoUnexpectedConsumers", a.node)
    \/ IsMount(a) /\ c.c \in {"MountSourceAvailable", "MountTargetAvailable",
                              "MountDescendantsAbsent"}
WithExclusion(policy, a, checks) ==
    [c \in DOMAIN checks |-> IF Excluded(a, c) THEN Answered(policy, "exclusion", checks[c])
                             ELSE checks[c]]
NeedsApproval(a, c) == IsExt4(a) /\ c = Cond("DestructiveApproval", a.node)
Approved(policy, a, checks) ==
    \A c \in DOMAIN checks : \/ checks[c] = "Satisfied"
                             \/ /\ NeedsApproval(a, c) /\ checks[c] = "Unknown"
                                /\ policy["destructive"] = "Satisfied"
Admissible(policy, a, checks, o, resolved) ==
    /\ policy["scope"] = "Satisfied"
    /\ check_vg_membership(o, resolved.target.observed) = "Satisfied"
    /\ IsMount(a) => policy["exclusion"] = "Satisfied"
    /\ policy["authorization"] = "Satisfied"
    /\ Approved(policy, a, WithExclusion(policy, a, checks))
Admitted(policy, context, i, b, o, corr) ==
    {r \in resolve_action_with_bindings(context.baseline, b, context.order[i], o) :
        Admissible(policy, context.order[i],
                   check_prerequisites(context.baseline, o, context.contracts[i].pre, corr), o, r)}
check_admission(policy, context, i, b, o) ==
    IF policy["availability"] # "Satisfied" THEN {}
    ELSE UNION {Admitted(policy, context, i, b, o, corr) : corr \in correlations(b, o)}
check_plan(policy) == policy["availability"] = "Satisfied"
verify_goal(policy, context, b, o) ==
    \E corr \in correlations(b, o) :
        /\ check_observed_goal(context, o, corr) = {"Satisfied"}
        /\ policy["final"] = "Satisfied"

-----------------------------------------------------------------------------
\* Verification: the postconditions that hold, and the binding to record; {} is an error.
Holds(context, i, o, corr) ==
    \A s \in Range(check_observed_postconditions(context.baseline, o,
                                                 context.contracts[i].post, corr)) : s = "Satisfied"
OutputSpec(context, i, planned) ==
    (CHOOSE x \in context.contracts[i].out : x.o = "Node" /\ x.node = planned).spec
PendingLvBinding(o, uuid, vg_uuid, spec) ==
    [instance |-> o.instance, epoch |-> o.epoch, uuid |-> uuid, vg_uuid |-> vg_uuid, spec |-> spec]
PendingFilesystemBinding(o, uuid, backing, spec) ==
    [instance |-> o.instance, epoch |-> o.epoch, uuid |-> uuid, backing |-> backing, spec |-> spec]
record_verified(b, planned, binding) ==
    {[b EXCEPT !.lvs = (planned :> binding) @@ @] : x \in {y \in {binding} :
        planned \notin Outputs(b) /\ \A n \in DOMAIN b.lvs : b.lvs[n].uuid # y.uuid}}
record_verified_filesystem(b, planned, binding) ==
    {[b EXCEPT !.filesystems = (planned :> binding) @@ @] : x \in {y \in {binding} :
        /\ planned \notin Outputs(b) /\ y.backing \in DOMAIN b.lvs
        /\ \A n \in DOMAIN b.filesystems : b.filesystems[n].uuid # y.uuid}}
record_verified_mount(b, entry) == {[b EXCEPT !.mounts = Append(@, entry)]}

WithoutNode(o, n) ==
    [o EXCEPT !.graph = [remove_node(@, n) EXCEPT !.deps = {e \in @ : n \notin {e.from, e.to}}]]
ScopeKept(context, b, before, after, vg) ==
    \E scope \in reviewed_scope(context.baseline, b, before) : check_scope(scope, after, vg)
NewLv(context, i, b, r, before, o, uuid) ==
    {n \in find_lv(o, uuid, r.target.vg_uuid) :
        /\ Bearers(before.graph, Id("LvmLvUuid", uuid)) = {} /\ Unconsumed(o.graph, n)
        /\ ScopeKept(context, b, before, WithoutNode(o, n), r.target.planned)
        /\ Holds(context, i, o, {NodeCorrelation(r.op.planned, n, Id("LvmLvUuid", uuid))})}
\* Without the UUID of a receipt nothing about the new volume is ever Satisfied.
verify_created_lv(context, i, b, r, before, o, receipt) ==
    UNION {UNION {record_verified(b, r.op.planned,
                      PendingLvBinding(o, uuid, r.target.vg_uuid,
                                       OutputSpec(context, i, r.op.planned))) :
                  n \in NewLv(context, i, b, r, before, o, uuid)} : uuid \in receipt}
\* Mutation: the receipt of a successful activation is believed.
verify_activation_by_receipt(context, i, b, r, before, o, receipt) ==
    {b : n \in UNION {resolve(b, lv.planned, o) : lv \in r.lv}}
verify_activation(context, i, b, r, before, o, receipt) ==
    {b : n \in {m \in UNION {resolve(b, lv.planned, o) : lv \in r.lv} :
        /\ receipt = {} /\ ScopeKept(context, b, before, o, r.target.planned)
        /\ UsableBlock(o.graph.nodes[m])
        /\ \E corr \in correlations(b, o) : Holds(context, i, o, corr)}}
NewFilesystem(context, i, b, r, before, o, uuid, corr) ==
    {n \in UNION {correlate_created_ext4(before, o, r.op.planned, backing, uuid, r.op.label) :
                      backing \in resolve(b, r.op.node, before)} :
        /\ ScopeKept(context, b, before, WithoutNode(o, n), r.target.planned)
        /\ Holds(context, i, o,
                 corr \cup {NodeCorrelation(r.op.planned, n, FilesystemId("Ext4", uuid))})}
\* The size of a filesystem is not predicted: the first observed one is kept.
verify_created_filesystem(context, i, b, r, before, o, receipt) ==
    UNION {UNION {UNION {record_verified_filesystem(b, r.op.planned,
                             PendingFilesystemBinding(o, uuid, r.op.node,
                                 [OutputSpec(context, i, r.op.planned) EXCEPT
                                      !.size = o.graph.nodes[n].size])) :
                         n \in NewFilesystem(context, i, b, r, before, o, uuid, corr)} :
                  corr \in correlations(b, o)} : uuid \in receipt}
MountedAt(o, entry, fs) ==
    {k \in MountsAt(o, entry.target, entry.context) :
        /\ Cardinality(MountsAt(o, entry.target, entry.context)) = 1
        /\ o.mounts[k].source = [s |-> "Filesystem", node |-> fs]
        /\ Sorted(o.mounts[k].options) = Sorted(entry.options)}
WithoutMount(o, k) ==
    [o EXCEPT !.mounts = [j \in 1..(Len(@) - 1) |-> IF j < k THEN @[j] ELSE @[j + 1]]]
verify_mount(context, i, b, r, before, o) ==
    UNION {record_verified_mount(b, r.op.entry) :
           k \in {j \in UNION {MountedAt(o, r.op.entry, fs) :
                                    fs \in resolve(b, r.op.entry.source.node, o)} :
               /\ ScopeKept(context, b, before, WithoutMount(o, j), r.target.planned)
               /\ \E corr \in correlations(b, o) : Holds(context, i, o, corr)}}
verify(context, i, b, r, before, o, receipt) ==
    CASE IsExt4(r.op) -> verify_created_filesystem(context, i, b, r, before, o, receipt)
      [] IsMount(r.op) -> verify_mount(context, i, b, r, before, o)
      [] r.op.op = "LvmSetActivation" -> verify_activation(context, i, b, r, before, o, receipt)
      [] r.op.op = "LvmCreateLv" -> verify_created_lv(context, i, b, r, before, o, receipt)
=============================================================================

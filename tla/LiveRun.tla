------------------------------ MODULE LiveRun -------------------------------
(* One run of the supported recipe on a live machine: LinuxLiveHost judges
   publications, the native adapters act, and other tools act in between.  A pass
   of the prober reads the machine one library at a time.  A failure after
   admission leaves the outcome unknown, and the run stops. *)
EXTENDS LiveHost, Simulation

CONSTANTS InitHost, Order(_), MaxOutside, MaxMinor, MaxFaults
VARIABLES context, host, outside, faults, pc, purpose, act, epoch, todo, raw, obs, before,
          resolved, bindings, receipt, guard, device, written
passing == <<purpose, todo, raw, epoch>>
judged == <<obs, before, resolved, bindings>>
vars == <<context, host, outside, faults, pc, act, guard, device, receipt, written, passing,
          judged>>

NoReading == [x \in Range(Readings) |-> InitHost]
\* The plan as reviewed: each contract is described in the state its predecessors predict.
After(s, a) == {[p |-> step.next, contracts |-> Append(s.contracts, step.contract)] :
                    step \in {simulate_action(s.p, a)}}
Planned(baseline, order) ==
    FoldLeft(LAMBDA S, a : UNION {After(s, a) : s \in S},
             {[p |-> Projection(baseline.graph, Range(baseline.mounts), baseline.free),
               contracts |-> <<>>]}, order)
Reviewed(baseline, order) ==
    {[baseline |-> baseline, order |-> order, contracts |-> planned.contracts,
      goal |-> [graph |-> planned.p.graph, runtime |-> planned.p.runtime, persistent |-> {},
                boot |-> "Unmanaged", intents |-> <<>>]] : planned \in Planned(baseline, order)}
VgNode(o) == CHOOSE n \in DOMAIN o.graph.nodes : o.graph.nodes[n].kind = "LvmVg"
Plan == context.order

Questions == {"availability", "scope", "exclusion", "authorization", "destructive", "final"}
Granted == [q \in Questions |-> "Satisfied"]
\* Answers of the trusted host to the questions it is asked; a refusal of one of them uses up
\* a fault.
Policies(questions) == {Granted} \cup {[Granted EXCEPT ![q] = "Unknown"] :
                                           q \in IF faults < MaxFaults THEN questions ELSE {}}
Asked(policy) == faults' = IF policy = Granted THEN faults ELSE faults + 1
Op == Plan[act]
AdmissionQuestions == {"availability", "scope", "authorization"}
                      \cup (IF IsExt4(Op) \/ IsMount(Op) THEN {"exclusion"} ELSE {})
                      \cup (IF IsExt4(Op) THEN {"destructive"} ELSE {})
The(option) == CHOOSE x \in option : TRUE
Running == pc \notin {"stopped", "succeeded"}

Init == /\ context \in UNION {Reviewed(o, Order(VgNode(o))) : o \in Publication(NoReading, 0)}
        /\ host = InitHost /\ outside = 0 /\ faults = 0 /\ pc = "plan" /\ purpose = "admit"
        /\ act = 1 /\ epoch = 0 /\ todo = <<>> /\ raw = NoReading /\ obs = {} /\ before = {}
        /\ resolved = {} /\ bindings = NoBindings /\ receipt = {} /\ guard = {} /\ device = {}
        /\ written = {}
\* The run ends unverified; its marker stays.
Stop == pc' = "stopped" /\ UNCHANGED <<act, bindings, passing, receipt, written>>
Forget == guard' = {} /\ device' = {} /\ resolved' = {} /\ before' = {} /\ obs' = {}
BeginPass(p) == /\ pc' = "probe" /\ purpose' = p /\ todo' = Readings /\ raw' = NoReading
                /\ epoch' = epoch + 1
CheckPlan == /\ pc = "plan"
             /\ \E policy \in Policies({"availability"}) :
                    /\ Asked(policy)
                    /\ \/ /\ check_plan(policy) /\ BeginPass("admit")
                          /\ UNCHANGED <<act, bindings, receipt, written>>
                       \/ ~check_plan(policy) /\ Stop
             /\ UNCHANGED <<context, host, outside, guard, device, resolved, before, obs>>

\* One library at a time, then the publication.
Read == /\ pc = "probe" /\ todo # <<>>
        /\ raw' = [raw EXCEPT ![Head(todo)] = host] /\ todo' = Tail(todo)
        /\ UNCHANGED <<context, host, outside, faults, pc, purpose, act, epoch, receipt, guard, device,
                       written, judged>>
\* A structurally invalid publication ends the run.
Publish == /\ pc = "probe" /\ todo = <<>>
           /\ \E published \in {Publication(raw, epoch)} :
                  obs' = published /\ pc' = IF published = {} THEN "stopped" ELSE purpose
           /\ UNCHANGED <<context, host, outside, faults, act, bindings, passing, receipt, written,
                          guard, device, resolved, before>>

\* The host keeps other tools from what a positive answer about ext4 or a mount was given for.
Exclusion(r) == IF IsExt4(r.op) \/ IsMount(r.op) THEN {lv.uuid : lv \in r.lv} ELSE {}
Admit == /\ pc = "admit"
         /\ \E policy \in Policies(AdmissionQuestions), o \in obs :
            \E admitted \in {check_admission(policy, context, act, bindings, o)} :
                /\ Asked(policy)
                /\ \/ \E r \in admitted :
                          /\ pc' = "dispatch" /\ resolved' = {r} /\ before' = obs
                          /\ guard' = IF policy["exclusion"] = "Satisfied" THEN Exclusion(r) ELSE {}
                          /\ UNCHANGED <<act, bindings, passing, receipt, written, device, obs>>
                   \/ admitted = {} /\ Stop /\ Forget
         /\ UNCHANGED <<context, host, outside>>

-----------------------------------------------------------------------------
\* The native adapters.  Call is the part after the last check.
Called(ok, uuid) ==
    /\ IF ok THEN /\ BeginPass("verify") /\ receipt' = uuid /\ UNCHANGED <<act, bindings>>
                  /\ UNCHANGED <<resolved, before, obs, guard>> /\ device' = {}
       ELSE /\ pc' = "stopped" /\ UNCHANGED <<act, bindings, passing, receipt>> /\ Forget
\* An adapter may fail before or after it changed the machine.
Succeeds == {TRUE} \cup (IF faults < MaxFaults THEN {FALSE} ELSE {})
Adapter(before_call, effect, uuid) ==
    \E ok \in Succeeds :
        /\ faults' = IF ok THEN faults ELSE faults + 1
        /\ \/ before_call /\ host' = effect /\ Called(ok, uuid)
           \/ ~(before_call /\ ok) /\ host' = host /\ Called(FALSE, {})
        /\ UNCHANGED <<context, outside>>
Checked(ok) == /\ \/ ok /\ pc' = "call" /\ UNCHANGED <<act, bindings, passing, receipt, resolved,
                                                       before, obs, guard>>
                  \/ ~ok /\ Stop /\ guard' = {} /\ resolved' = {} /\ before' = {} /\ obs' = {}
               /\ UNCHANGED <<context, host, outside, faults, written>>
Named(h, name) == {v \in h.lvs : v.name = name}
CanCreate(h, a) == Named(h, a.name) = {} /\ Free(h) >= a.size
check_target == /\ pc = "dispatch" /\ Op.op = "LvmCreateLv"
                /\ Checked(CanCreate(host, Op)) /\ device' = device
FreeMinors(h) == (1..MaxMinor) \ {v.minor : v \in h.lvs}
\* lvcreate by name, and the new UUID read back in the same session.  Nothing is said about
\* activation: the library may leave the new volume mapped or not.
create_linear_lv ==
    /\ pc = "call" /\ Op.op = "LvmCreateLv" /\ UNCHANGED written
    /\ \E minor \in {0} \cup FreeMinors(host) :
           Adapter(CanCreate(host, Op),
                   [host EXCEPT !.lvs = @ \cup {Volume("lv", Op.name, minor, {})}], {"lv"})

Lv == The(The(resolved).lv)
observed_lv(h, lv) == {v \in h.lvs : /\ v.name = lv.name /\ v.uuid = lv.uuid
                                     /\ \A w \in h.lvs : w.name = lv.name => w = v}
check_activation == /\ pc = "dispatch" /\ Op.op = "LvmSetActivation"
                    /\ Checked(observed_lv(host, Lv) # {}) /\ device' = device
Mapped(h, v, minor) == [h EXCEPT !.lvs = (@ \ {v}) \cup {[v EXCEPT !.minor = minor]}]
\* lvchange by name: it may map a volume that took the name, which the readback notices.
activate_lv ==
    /\ pc = "call" /\ Op.op = "LvmSetActivation" /\ UNCHANGED <<context, written, outside>>
    /\ \E ok \in Succeeds :
           /\ faults' = IF ok THEN faults ELSE faults + 1
           /\ \/ \E v \in Named(host, Lv.name) :
                     \E minor \in IF v.minor = 0 THEN FreeMinors(host) ELSE {v.minor} :
                         /\ host' = Mapped(host, v, minor)
                         /\ Called(ok /\ \E w \in observed_lv(host', Lv) : w.minor # 0, {})
              \/ /\ ~ok \/ Named(host, Lv.name) = {} \/ FreeMinors(host) = {}
                 /\ host' = host /\ Called(FALSE, {})

\* The sole observed path, pinned; the kernel must name the verified volume behind it.
MappedAt(h, minor) == {v \in h.lvs : v.minor = minor}
\* Mutation: whatever is mapped at the observed path.
EndpointAtPath(h, lv) == UNION {MappedAt(h, b.devno) : b \in lv.block}
Endpoint(h, lv) == UNION {{v \in MappedAt(h, b.devno) : v.uuid = lv.uuid} :
                              b \in {k \in lv.block : Cardinality(k.paths) = 1}}
open == /\ pc = "dispatch" /\ (IsExt4(Op) \/ IsMount(Op))
        /\ Checked(Endpoint(host, Lv) # {})
        /\ device' = IF pc' = "call" THEN {v.uuid : v \in Endpoint(host, Lv)} ELSE {}
Pinned == The({v \in host.lvs : v.uuid \in device})
\* Nothing may be recognised on the descriptor before it is formatted.
create_ext4 ==
    /\ pc = "call" /\ IsExt4(Op)
    /\ Adapter(Pinned.fs = {}, [host EXCEPT !.lvs = (@ \ {Pinned})
                                   \cup {[Pinned EXCEPT !.fs = Fs("f")]}], {"f"})
    /\ written' = IF host' # host THEN written \cup device ELSE written
mount_ext4 ==
    /\ pc = "call" /\ IsMount(Op)
    /\ Adapter(Pinned.fs # {}, [host EXCEPT !.mounts = Append(@, [target |-> Op.entry.target,
                                                                  lv |-> Pinned.uuid])], {})
    /\ written' = IF host' # host THEN written \cup device ELSE written

Verify == /\ pc = "verify"
          /\ \E next \in {verify(context, act, bindings, The(resolved), The(before), The(obs),
                                 receipt)} :
                 \/ \E b \in next : /\ bindings' = b /\ act' = act + 1 /\ receipt' = {}
                                    /\ BeginPass(IF act = Len(Plan) THEN "goal" ELSE "admit")
                                    /\ UNCHANGED written
                 \/ next = {} /\ Stop
          /\ Forget /\ UNCHANGED <<context, host, outside, faults>>
VerifyGoal == /\ pc = "goal"
              /\ \E policy \in Policies({"final"}), o \in obs :
                 \E reached \in {verify_goal(policy, context, bindings, o)} :
                     /\ Asked(policy)
                     /\ \/ /\ reached /\ pc' = "succeeded"
                           /\ UNCHANGED <<act, bindings, passing, receipt, written>>
                        \/ ~reached /\ Stop
              /\ Forget /\ UNCHANGED <<context, host, outside>>

-----------------------------------------------------------------------------
\* Other tools of the machine, external.
InUse(h, v) == \E i \in DOMAIN h.mounts : h.mounts[i].lv = v.uuid
Changed(v, w) == [host EXCEPT !.lvs = (@ \ {v}) \cup w]
Names == {"data", "spare"}
MountPoints == {<<"/", "m">>, <<"/", "n">>}
NewUuid == IF outside = 0 THEN "x0" ELSE IF outside = 1 THEN "x1" ELSE "x2"
Quiet == resolved # {} /\ IsMount(The(resolved).op) /\ guard # {}
Tool(v) ==
    \/ ~InUse(host, v) /\ v.minor = 0 /\ host' = Changed(v, {})
    \/ \E name \in Names : Named(host, name) = {} /\ host' = Changed(v, {[v EXCEPT !.name = name]})
    \/ v.minor = 0 /\ \E m \in FreeMinors(host) : host' = Mapped(host, v, m)
    \/ ~InUse(host, v) /\ v.minor # 0 /\ v.uuid \notin device /\ host' = Mapped(host, v, 0)
    \/ ~InUse(host, v) /\ v.minor # 0 /\ host' = Changed(v, {[v EXCEPT !.fs = Fs(NewUuid)]})
    \/ /\ ~Quiet /\ v.minor # 0 /\ v.fs # {}
       /\ \E t \in MountPoints :
              host' = [host EXCEPT !.mounts = Append(@, [target |-> t, lv |-> v.uuid])]
Outside ==
    /\ Running /\ outside < MaxOutside /\ outside' = outside + 1
    /\ \/ \E v \in host.lvs : v.uuid \notin guard /\ Tool(v)
       \/ \E name \in Names : /\ Named(host, name) = {} /\ Free(host) >= 2
                              /\ host' = [host EXCEPT !.lvs = @ \cup {Volume(NewUuid, name, 0, {})}]
       \/ ~Quiet /\ \E i \in DOMAIN host.mounts : /\ host.mounts[i].lv \notin guard
                              /\ host' = [host EXCEPT !.mounts = RemoveAt(@, i)]
    /\ UNCHANGED <<context, faults, pc, act, receipt, guard, device, written, passing, judged>>

Next == \/ CheckPlan \/ Read \/ Publish \/ Admit \/ check_target \/ create_linear_lv
        \/ check_activation \/ activate_lv \/ open \/ create_ext4 \/ mount_ext4
        \/ Verify \/ VerifyGoal \/ Outside
Spec == Init /\ [][Next]_vars
-----------------------------------------------------------------------------
\* The native adapters format and mount only the volume this run created (bindings.rs resolve,
\* endpoint.rs open), not one that took over its name or device number.
NativeHitsOwn == written \subseteq {"lv"}

Own(h) == {v \in h.lvs : v.uuid = "lv"}
\* What the actions are for, in one state of the machine.
Effect(i, h) ==
    CASE Plan[i].op = "LvmCreateLv" -> \E v \in Own(h) : v.name = Plan[i].name
      [] Plan[i].op = "LvmSetActivation" -> \E v \in Own(h) : v.minor # 0
      [] IsExt4(Plan[i]) -> \E v \in Own(h) : v.fs = Fs("f")
      [] IsMount(Plan[i]) -> \E j \in DOMAIN h.mounts :
             h.mounts[j] = [target |-> Plan[i].entry.target, lv |-> "lv"]
\* An action is recorded as verified only if its effect was on the machine at some moment of the
\* pass it was verified with, however the readings of that pass were torn (bindings.rs verify_*).
VerifiedIsReal ==
    [][act' # act => \E x \in Range(Readings) : Effect(act, raw[x])]_vars

Uuids(h) == {v.uuid : v \in h.lvs}
Bound == {bindings.lvs[n].uuid : n \in DOMAIN bindings.lvs}
Kept(h) == /\ Uuids(h) = Uuids(InitHost) \cup Bound
           /\ \A v \in InitHost.lvs : \E w \in h.lvs : w.uuid = v.uuid /\ w.name = v.name
\* Mounts of volumes that had a filesystem when signatures were read.
SeenMounts == {m \in Range(raw["mounts"].mounts) :
                   \E v \in Active(raw["blkid"]) : v.uuid = m.lv /\ v.fs # {}}
\* An action is dispatched only on a machine read as the one that was reviewed: the same volumes
\* under the same names, the same mounts and contents, and nothing besides what this run made
\* (targets.rs check_scope).  A filesystem made and mounted within one pass may be missed.
ScopeIsReviewed ==
    pc \in {"dispatch", "call"} =>
        /\ Kept(raw["lvm"]) /\ SeenMounts = Range(InitHost.mounts)
        /\ \A v \in Active(InitHost), w \in raw["blkid"].lvs : w.uuid = v.uuid => w.fs = v.fs

\* A run succeeds only if its last pass read the goal, with the reviewed volumes and mounts kept
\* (live/goal.rs, host.rs verify_goal).
GoalIsReal ==
    pc = "succeeded" =>
        /\ Kept(raw["lvm"])
        /\ \A i \in DOMAIN Plan : \E x \in Range(Readings) : Effect(i, raw[x])
        /\ Range(InitHost.mounts) \subseteq Range(raw["mounts"].mounts)

\* The recipe runs to its end when no other tool interferes, the host grants everything and no
\* native call fails: CreateLv, activation, ext4, Mount(Host).
RecipeIsSupported == outside = 0 /\ faults = 0 => pc # "stopped"
=============================================================================

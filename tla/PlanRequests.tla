---------------------------- MODULE PlanRequests ----------------------------
(* storage-engine/src/editing/request.rs, lower.rs, build.rs, coverage.rs: the
   requests of a draft become one fragment each, in the order of the draft.
   A request names its main input `node`; the other parameters keep their
   names and are carried into the action. *)
EXTENDS PlanReport

creates_node(r) == r.request \in {"CreatePartition", "FormatLuks", "OpenLuks", "CreateLv",
                                  "CreateFilesystem"}
\* Provider and operation of the first action of each recipe.
Recipe == [
    CreatePartition |-> <<"Partition", "PartitionCreate">>,
    FormatLuks |-> <<"Luks", "LuksFormat">>,
    OpenLuks |-> <<"Luks", "LuksOpen">>,
    CreateLv |-> <<"Lvm", "LvmCreateLv">>,
    ResizeLv |-> <<"Lvm", "LvmResizeLv">>,
    ResizeFilesystem |-> <<"Filesystem", "FilesystemResize">>,
    DeletePartition |-> <<"Partition", "PartitionDelete">>,
    RemoveLv |-> <<"Lvm", "LvmRemoveLv">>,
    CloseLuks |-> <<"Luks", "LuksClose">>,
    CreateFilesystem |-> <<"Filesystem", "FilesystemCreate">>,
    Mount |-> <<"Mount", "Mount">>,
    PersistMount |-> <<"Mount", "Persist">>,
    Unmount |-> <<"Mount", "Unmount">>,
    RemovePersistentMount |-> <<"Mount", "RemovePersistent">>,
    SetFilesystemLabel |-> <<"Filesystem", "FilesystemSetLabel">>,
    Maintenance |-> <<"Filesystem", "FilesystemCheck">>]

\* PlanFragment: actions with local identities, local dependencies, external requirements.
FragmentAction(id, a) == [id |-> id, operation |-> a]
PlanFragment(actions, deps, requirements, origin) ==
    [actions |-> actions, deps |-> deps, requirements |-> requirements, origin |-> origin,
     errors |-> FALSE]
ExternalRequirement(id, condition) == [action |-> id, condition |-> condition]

Supported(r) ==
    /\ r.request = "CreateLv" => r.layout = "Linear"
    /\ r.request = "CreateFilesystem" => r.fs = "Ext4"
    /\ r.request = "Maintenance" => r.intent = "Check"
Action(r, created) ==
    [provider |-> Recipe[r.request][1], op |-> Recipe[r.request][2], planned |-> created] @@ r
\* The fragment of a request, or {}; index is the position among the intents.
lower_operation(r, created, index) ==
    LET first == <<FragmentAction(0, Action(r, created))>>
        activation == IF r.request = "CreateLv" /\ r.activate
                      THEN <<FragmentAction(1, [provider |-> "Lvm", op |-> "LvmSetActivation",
                                                node |-> created, active |-> TRUE])>>
                      ELSE <<>>
        writable == IF r.request \in {"FormatLuks", "CreateFilesystem"}
                    THEN <<ExternalRequirement(0, Cond("Writable", r.node))>> ELSE <<>>
    IN IF creates_node(r) # (created # "none") \/ ~Supported(r) THEN {}
       ELSE {PlanFragment(first \o activation,
                          IF activation = <<>> THEN {} ELSE {[before |-> 0, after |-> 1]},
                          writable, IF r.request = "Maintenance" THEN index ELSE 0)}

\* Exactly the recipe of the request, with its parameters, and nothing beside it.
request_coverage(r, created, actions) ==
    LET Implements(a) == /\ <<a.provider, a.op>> = Recipe[r.request]
                         /\ creates_node(r) => a.planned = created
                         /\ \A field \in DOMAIN r : a[field] = r[field]
        activates == r.request = "CreateLv" /\ r.activate
    IN /\ Supported(r)
       /\ Len(actions) = IF activates THEN 2 ELSE 1
       /\ Implements(actions[1])
       /\ activates => /\ actions[2].op = "LvmSetActivation"
                       /\ actions[2].node = created /\ actions[2].active

\* build_fragments: every action without a local predecessor waits for the last ones of the
\* previous fragment that has actions.
Roots(f) == {a.id : a \in {x \in Range(f.actions) : \A d \in f.deps : d.after # x.id}}
Sinks(f) == {a.id : a \in {x \in Range(f.actions) : \A d \in f.deps : d.before # x.id}}
requested_order(fragments) ==
    LET Previous(f) == {e \in DOMAIN fragments : e < f /\ fragments[e].actions # <<>>}
    IN UNION {{[before |-> <<Max(Previous(f)), b>>, after |-> <<f, a>>] :
                   b \in Sinks(fragments[Max(Previous(f))]), a \in Roots(fragments[f])} :
              f \in {g \in DOMAIN fragments : Previous(g) # {}}}

\* PreviewState::status of a build, with PlanPreview::status.
status(report, requests_covered) ==
    IF report.error # "none" THEN "Invalid"
    ELSE IF report.violations # {} \/ ~requests_covered \/ ~report.covered
       \/ "Violated" \in report.goals
    THEN "Blocked"
    ELSE IF is_complete(report) THEN "Complete" ELSE "Conditional"
=============================================================================

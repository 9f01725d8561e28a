---------------------------- MODULE MCExecutionRun ----------------------------
(***************************************************************************)
(* A plan of three actions: a1 before a2, and a3 that the plan leaves      *)
(* unordered.  Reports are complete, incomplete, foreign or repeat a       *)
(* check; observations come from one probe instance, and from another and  *)
(* the nil one at the last epoch.  A complete run uses every epoch and     *)
(* every sequence number, so that a retry or a progress event exhausts     *)
(* them; one admission fills the ring of two events, so that a client      *)
(* misses any number of events.                                            *)
(***************************************************************************)
EXTENDS RunReplay, TLC

CONSTANTS a1, a2, a3, i1, i2, nil, none, MaxEpoch

MCActions == {a1, a2, a3}
MCBefore == {<<a1, a2>>}
MCPrerequisites == (a1 :> {"c1", "c2"}) @@ (a2 :> {"c1"}) @@ (a3 :> {"c1"})
MCPostconditions == [a \in MCActions |-> {"c1"}]
MCGoalAspects == {"c1"}
MCRequired == [a \in MCActions |-> {<<"vg", "Write">>}]
MCObservations ==
    [instance : {i1}, epoch : 1..MaxEpoch] \union [instance : {i2, nil}, epoch : {MaxEpoch}]
MCOn(c, s) == [condition |-> c, status |-> s]
MCChecks ==
    {<<>>, <<MCOn("c2", "Satisfied")>>, <<MCOn("c1", "Satisfied"), MCOn("c1", "Satisfied")>>}
      \union {<<MCOn("c1", s)>> : s \in LiveCheckStatus}
      \union {<<MCOn("c1", "Satisfied"), MCOn("c2", s)>> : s \in LiveCheckStatus}
MCHeld == {{}, {<<"vg", "Write">>}}

=============================================================================

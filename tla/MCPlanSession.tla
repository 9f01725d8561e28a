---------------------------- MODULE MCPlanSession ----------------------------
(***************************************************************************)
(* Two probes of one machine: node 11 of the first is node 21 of the       *)
(* second, which also contains the first planned output.  Two scopes have  *)
(* one session, with many limits or with a long history; the third has two *)
(* sessions, the second opened from a document of the first, and rebases.  *)
(***************************************************************************)
EXTENDS PlanSession
CONSTANTS s1, s2
MCBaselines == {"old", "new"}
MCGraph == [b \in MCBaselines |-> CASE b = "old" -> {11} [] b = "new" -> {21, 1}]
MCCorrelated == {<<"old", 11, "new", 21>>, <<"new", 21, "old", 11>>}
MCScopes ==
    {[sessions |-> {s1}, baselines |-> {"old"}, limits |-> {0, 1},
      allocated |-> 3, revisions |-> 4],
     [sessions |-> {s1}, baselines |-> {"old"}, limits |-> {1},
      allocated |-> 2, revisions |-> 5],
     [sessions |-> {s1, s2}, baselines |-> MCBaselines, limits |-> {},
      allocated |-> 1, revisions |-> 3]}
=============================================================================

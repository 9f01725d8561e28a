----------------------------- MODULE MCBackend4 -----------------------------
EXTENDS Backend4

(* Two documents of one plan that differ in their digest, one without actions, one protected. *)
MCDocuments ==
    {[plan |-> "p", digest |-> "d", protected |-> FALSE, actions |-> 2],
     [plan |-> "p", digest |-> "e", protected |-> FALSE, actions |-> 1],
     [plan |-> "q", digest |-> "f", protected |-> TRUE, actions |-> 0]}

MCBaselines == {"old", "new"}

MCDrafts == {"draft"}

MCSaved == [uuid |-> 0, revision |-> 0, baseline |-> "old", draft |-> "draft"]

(* Applying: up to three runs of two plans. Editing: copies of a session and their rebases.   *)
(* Both: rebases and incidents compete for the room of the reviews.                          *)
MCScopes ==
    {[sessions |-> 0, plans |-> 2, runs |-> 3, reviews |-> 0, tokens |-> 3],
     [sessions |-> 3, plans |-> 0, runs |-> 0, reviews |-> 2, tokens |-> 0],
     [sessions |-> 1, plans |-> 1, runs |-> 1, reviews |-> 3, tokens |-> 1]}
=============================================================================

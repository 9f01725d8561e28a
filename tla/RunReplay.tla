------------------------------ MODULE RunReplay ------------------------------
(***************************************************************************)
(* An ExecutionRun read by a client that keeps its own view of the action  *)
(* states and an exclusive event cursor.  The client does what the API     *)
(* documents: it applies the page of events_page to its view or, when the  *)
(* page reports a gap, replaces the view by the snapshot and continues     *)
(* after the snapshot's event_sequence.                                    *)
(***************************************************************************)
EXTENDS ExecutionRun

VARIABLES
    cursor,     \* last event sequence the client has seen
    view        \* the client's copy of the action states

replayVars == <<vars, cursor, view>>

ReplayInit ==
    /\ Init
    /\ cursor = 0
    /\ view = state

ReportsState(e, a) == e.kind.type = "ActionState" /\ e.kind.action = a

(* The page is applied in its order, so that its last word about an action stands. *)
ApplyEvents(a) ==
    LET own == {i \in EventsSince(cursor) : ReportsState(events[i], a)}
    IN  IF own = {} THEN view[a]
        ELSE events[CHOOSE i \in own : \A j \in own : j <= i].kind.state

Poll ==
    /\ cursor < next - 1
    /\ view' = IF Gap(cursor) THEN state ELSE [a \in Actions |-> ApplyEvents(a)]
    /\ cursor' = next - 1
    /\ UNCHANGED vars

ReplayNext ==
    \/ Next /\ UNCHANGED <<cursor, view>>
    \/ Poll

ReplaySpec == ReplayInit /\ [][ReplayNext]_replayVars

-----------------------------------------------------------------------------
(***************************************************************************)
(* events_page and snapshot: a client that follows the pages has exactly   *)
(* the run's action states whenever its cursor is current, however many    *)
(* events the bounded ring dropped between two polls.                      *)
(***************************************************************************)
CurrentViewIsExact == cursor = next - 1 => view = state

=============================================================================

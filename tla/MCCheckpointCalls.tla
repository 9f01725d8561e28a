-------------------------- MODULE MCCheckpointCalls --------------------------
(***************************************************************************)
(* Two attempts: a call of any process can find the marker of the same or  *)
(* of the other attempt.  One more inode than processes, so that one is    *)
(* free for the next creation of execution.lock while every process keeps  *)
(* an unlinked one open: acquisitions straddle any number of replacements. *)
(***************************************************************************)
EXTENDS CheckpointCalls
CONSTANTS p1, p2, t1, t2
=============================================================================

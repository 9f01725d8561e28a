---------------------------- MODULE AttemptLedger ----------------------------
(***************************************************************************)
(* What disksgraph promises about native storage operations on one host,   *)
(* whatever processes, runs, crashes and power losses there are: an        *)
(* attempt is begun at most once, never while another one is unresolved,   *)
(* and an unresolved attempt stays so until it is verified or explicitly   *)
(* acknowledged.                                                           *)
(***************************************************************************)
CONSTANTS Attempts, NoAttempt

VARIABLES
    open,    \* the attempt whose outcome is not resolved, or NoAttempt
    done     \* attempts that were resolved

LedgerInit == open = NoAttempt /\ done = {}

Begin(t) ==
    /\ open = NoAttempt
    /\ t \notin done
    /\ open' = t
    /\ UNCHANGED done

Resolve ==
    /\ open # NoAttempt
    /\ done' = done \union {open}
    /\ open' = NoAttempt

LedgerNext == Resolve \/ \E t \in Attempts : Begin(t)

LedgerSpec == LedgerInit /\ [][LedgerNext]_<<open, done>>

=============================================================================

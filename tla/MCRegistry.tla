------------------------------ MODULE MCRegistry ------------------------------
(***************************************************************************)
(* Threads that share the lookup.  The identities that U64Max leaves are   *)
(* used in turn, since one context at a time fits the capacity.            *)
(***************************************************************************)
EXTENDS Registry
CONSTANTS t1, t2, t3
MCThreads == {t1, t2, t3}
MCTwoThreads == {t1, t2}
=============================================================================

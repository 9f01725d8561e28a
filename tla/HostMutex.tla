------------------------------ MODULE HostMutex ------------------------------
(***************************************************************************)
(* What HostExecutionLock (storage-runtime/src/lease.rs) promises to the   *)
(* coordinator and to incident review: a nonblocking lock with one holder, *)
(* released when its guard is dropped or its process dies.  HostLock is    *)
(* the detailed model that implements it.                                  *)
(***************************************************************************)
EXTENDS Naturals

CONSTANTS
    Processes,   \* cooperating host processes that use one execution root
    Nobody       \* not a process

ASSUME NobodyAssumption == Nobody \notin Processes

VARIABLE holder  \* the process whose HostExecutionLock is alive

MutexInit == holder = Nobody

(* try_lock_host succeeds; when it reports Busy or an error nothing changes. *)
TryLockHost(p) == holder = Nobody /\ holder' = p

(* The last guard of p is dropped, or p dies. *)
Unlock(p) == holder = p /\ holder' = Nobody

MutexNext == \E p \in Processes : TryLockHost(p) \/ Unlock(p)

MutexSpec == MutexInit /\ [][MutexNext]_holder

=============================================================================

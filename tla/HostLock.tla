------------------------------- MODULE HostLock -------------------------------
(***************************************************************************)
(* try_lock_host of storage-runtime/src/lease.rs at the granularity of its *)
(* system calls.  The lock is a flock on the inode that execution.lock     *)
(* names when it is opened; the name may meanwhile be bound to another     *)
(* inode.  The root's contract forbids replacing a lock that is in use, so *)
(* Replace happens only while no guard is held, which still lets it fall   *)
(* between the open, the flock and the checks of an acquisition.           *)
(***************************************************************************)
EXTENDS Naturals, FiniteSets

CONSTANTS
    Processes,
    Nobody,
    Inodes,      \* inode numbers that execution.lock may be given
    NoInode      \* the name is absent, or no descriptor is open

VARIABLES
    named,       \* inode that execution.lock names
    fd,          \* fd[p]: inode of the open lock descriptor of p
    flocked,     \* flocked[i]: process whose descriptor holds the flock on i
    stage        \* stage[p]: how far the acquisition of p has got

lockVars == <<named, fd, flocked, stage>>

LockInit ==
    /\ named = NoInode
    /\ fd = [p \in Processes |-> NoInode]
    /\ flocked = [i \in Inodes |-> Nobody]
    /\ stage = [p \in Processes |-> "none"]

Guarded == {p \in Processes : stage[p] = "held"}

(***************************************************************************)
(* openat with CREATE: an absent name is created as a new inode, which may *)
(* reuse the number of an unlinked one once no descriptor refers to it.    *)
(***************************************************************************)
Open(p) ==
    /\ stage[p] = "none"
    /\ \/ named # NoInode /\ UNCHANGED named
       \/ named = NoInode /\ named' \in Inodes \ {fd[q] : q \in Processes}
    /\ fd' = [fd EXCEPT ![p] = named']
    /\ stage' = [stage EXCEPT ![p] = "opened"]
    /\ UNCHANGED flocked

(* validate_lock: the descriptor is still the singly linked named file. *)
ValidLock(p) == fd[p] = named

(* Every exit drops the descriptor, and with it the flock. *)
Close(p) ==
    /\ fd' = [fd EXCEPT ![p] = NoInode]
    /\ flocked' = [i \in Inodes |-> IF flocked[i] = p THEN Nobody ELSE flocked[i]]
    /\ stage' = [stage EXCEPT ![p] = "none"]
    /\ UNCHANGED named

ValidateOpened(p) ==
    /\ stage[p] = "opened"
    /\ IF ValidLock(p)
         THEN stage' = [stage EXCEPT ![p] = "checked"] /\ UNCHANGED <<named, fd, flocked>>
         ELSE Close(p)

FlockWithoutBusy(p) ==
    /\ stage[p] = "checked"
    /\ flocked' = [flocked EXCEPT ![fd[p]] = p]
    /\ stage' = [stage EXCEPT ![p] = "flocked"]
    /\ UNCHANGED <<named, fd>>

Flock(p) ==
    /\ stage[p] = "checked"
    /\ IF flocked[fd[p]] = Nobody
         THEN /\ flocked' = [flocked EXCEPT ![fd[p]] = p]
              /\ stage' = [stage EXCEPT ![p] = "flocked"]
              /\ UNCHANGED <<named, fd>>
         ELSE Close(p)   \* Busy

ValidateFlocked(p) ==
    /\ stage[p] = "flocked"
    /\ IF ValidLock(p)
         THEN stage' = [stage EXCEPT ![p] = "held"] /\ UNCHANGED <<named, fd, flocked>>
         ELSE Close(p)

(* An error after the open, the drop of a guard, or the death of p. *)
Release(p) == stage[p] # "none" /\ Close(p)

(* External: the idle root is cleaned and execution.lock is unlinked. *)
Replace ==
    /\ Guarded = {}
    /\ named # NoInode
    /\ named' = NoInode
    /\ UNCHANGED <<fd, flocked, stage>>

LockNext ==
    \/ \E p \in Processes :
         Open(p) \/ ValidateOpened(p) \/ Flock(p) \/ ValidateFlocked(p) \/ Release(p)
    \/ Replace

LockSpec == LockInit /\ [][LockNext]_lockVars

-----------------------------------------------------------------------------
(***************************************************************************)
(* try_lock_host: every guard holds the flock of the inode that            *)
(* execution.lock still names, so two processes never hold one at once     *)
(* although the file may be removed and recreated between their opens.     *)
(***************************************************************************)
GuardIsNamed == \A p \in Guarded : fd[p] = named /\ flocked[named] = p

Mutex == INSTANCE HostMutex WITH
    holder <- IF Guarded = {} THEN Nobody ELSE CHOOSE p \in Processes : p \in Guarded

(***************************************************************************)
(* HostLock implements HostMutex: the system calls of lease.rs behave as   *)
(* the atomic TryLockHost and Unlock that the coordinator relies on.       *)
(***************************************************************************)
ImplementsMutex == Mutex!MutexSpec

=============================================================================

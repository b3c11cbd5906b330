------------------------------- MODULE Lease -------------------------------
(***************************************************************************)
(* What the lock directory of fs/lock.ts promises its callers, without the *)
(* directories: at any moment the lease is free, held by one process, or   *)
(* orphaned by a process that died before releasing it.  An orphaned lease *)
(* is never handed to anybody: it is first taken away, which leaves it     *)
(* free, and only then acquired.                                           *)
(***************************************************************************)
CONSTANTS Procs, Free, Orphaned

VARIABLE lease

Init == lease = Free

Acquire(p) == lease = Free /\ lease' = p

Release(p) == lease = p /\ lease' = Free

(* The holder, or a process between mkdir and its lease, dies.             *)
Orphan == lease # Orphaned /\ lease' = Orphaned

(* A recoverer quarantines what the dead process left behind.              *)
Recover == lease = Orphaned /\ lease' = Free

Next == (\E p \in Procs : Acquire(p) \/ Release(p)) \/ Orphan \/ Recover

Spec == Init /\ [][Next]_lease
=============================================================================

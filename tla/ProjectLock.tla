---------------------------- MODULE ProjectLock ----------------------------
(***************************************************************************)
(* The interprocess lock of packages/project-fs/src/fs/lock.ts.            *)
(*                                                                         *)
(* The lock is a directory .robopomelo-<kind>.lock that holds owner.json.  *)
(* A process takes it with mkdir, then writes owner.json; it gives it back *)
(* by removing owner.json and then the directory.  A process that finds    *)
(* the directory of a dead owner takes a second directory, the recovery    *)
(* claim .robopomelo-<kind>.recovery, checks the lock again, renames it to *)
(* a quarantine name and releases the claim.  Every step below is one      *)
(* file system call (or a run of calls on files no other process touches): *)
(* processes interleave and die between any two of them.                   *)
(*                                                                         *)
(* An entry is a directory with the identity the file system gave it and   *)
(* the parsed owner.json, NoOwner while that file is absent or incomplete  *)
(* (read() fails on both alike).  What the code calls a Record is such an  *)
(* entry as some process once read it.                                     *)
(***************************************************************************)
EXTENDS Naturals

CONSTANTS Procs,            \* process slots: a pid on some host
          Hosts,            \* machines that share the folder
          HostOf,           \* the machine a process runs on
          Inodes,           \* directory identities, reused once free
          Nonces,           \* values of randomBytes(32)
          NoEntry, NoOwner, \* an absent path; a missing or partial owner.json
          BootKnown,        \* the platform reports a boot identity
          PidReuse,         \* a dead pid may be given to a new process
          MaxCrashes,       \* bound: crashes in a behaviour
          MaxBoots          \* bound: reboots of one machine

ASSUME HostAssumption == HostOf \in [Procs -> Hosts]

ASSUME DistinctAssumption ==
  /\ NoEntry \notin [ino : Inodes, owner : [pid : Procs, boot : Nat, nonce : Nonces] \cup {NoOwner}]
  /\ NoOwner \notin [pid : Procs, boot : Nat, nonce : Nonces]

ASSUME BoundsAssumption ==
  /\ BootKnown \in BOOLEAN /\ PidReuse \in BOOLEAN
  /\ MaxCrashes \in Nat /\ MaxBoots \in Nat

VARIABLES lock,        \* what is at .robopomelo-<kind>.lock
          claim,       \* what is at .robopomelo-<kind>.recovery
          quarantine,  \* the entries renamed away
          pc,          \* where each process is
          record,      \* the record a process holds of its own lock
          claimRecord, \* the record a process holds of its own claim
          candidate,   \* the record of the stale lock a process recovers
          recovered,   \* a process has quarantined a lock in this attempt
          boot,        \* the boot identity of each machine
          crashes

vars == <<lock, claim, quarantine, pc, record, claimRecord, candidate,
          recovered, boot, crashes>>

Owner   == [pid : Procs, boot : Nat, nonce : Nonces]
Record  == [ino : Inodes, owner : Owner]
Entry   == [ino : Inodes, owner : Owner \cup {NoOwner}]

(* Where a process can be.  Locking: inside lock.ts, from a directory it   *)
(* made at the lock path to its removal.  Claiming: the same of the claim. *)
Locking  == {"write", "readBack", "confirm", "held", "release", "unlink", "rmdir"}
Claiming == {"claimWrite", "claimReadBack", "recheck", "recheckOwner", "verify",
             "rename", "unclaim", "unlinkClaim", "rmdirClaim"}
Stages   == Locking \cup Claiming \cup
            {"idle", "probe", "make", "inspectDir", "inspectFile", "inspectOwner",
             "claimMake", "lost", "dead"}

Dead(p) == pc[p] = "dead"

(* Inodes and nonces somebody still knows of.  A nonce nobody remembers is *)
(* as good as one never drawn, so fresh means: not among these.            *)
KnownEntries ==
  {lock, claim} \cup quarantine \cup {record[p] : p \in Procs}
    \cup {claimRecord[p] : p \in Procs} \cup {candidate[p] : p \in Procs}

FreshNonce(n) == \A e \in KnownEntries \ {NoEntry} :
                    e.owner # NoOwner => e.owner.nonce # n

(* currentOwner.  Nonces are only compared, so any fresh one will do: one  *)
(* is chosen, which keeps TLC from exploring renamings of a state.         *)
CurrentOwner(p) == [pid   |-> p,
                    boot  |-> boot[HostOf[p]],
                    nonce |-> CHOOSE n \in Nonces : FreshNonce(n)]
NonceDrawn == \E n \in Nonces : FreshNonce(n)

FreeInode(i) == \A e \in ({lock, claim} \cup quarantine) \ {NoEntry} : e.ino # i

(* Mutant: process.kill is asked about a foreign pid, and answers ESRCH.   *)
OwnerLivenessAnyHost(p, o) ==
  IF HostOf[o.pid] # HostOf[p] \/ Dead(o.pid) THEN "absent" ELSE "alive"

(* ownerLiveness: a foreign host or another boot is never called absent.   *)
OwnerLiveness(p, o) ==
  CASE HostOf[o.pid] # HostOf[p]                 -> "foreign"
    [] HostOf[o.pid] = HostOf[p]
         /\ BootKnown /\ o.boot # boot[HostOf[p]] -> "uncertain"
    [] HostOf[o.pid] = HostOf[p]
         /\ ~(BootKnown /\ o.boot # boot[HostOf[p]]) ->
              IF Dead(o.pid) THEN "absent" ELSE "alive"

(* assertRecord: the path still shows the record taken earlier.            *)
Unchanged(current, taken) == current # NoEntry /\ current = taken

(* removeOwnedEntry and quarantineLock compare directory identities only.  *)
SameDirectory(current, taken) == current # NoEntry /\ current.ino = taken.ino

Goto(p, stage) == pc' = [pc EXCEPT ![p] = stage]

(* An attempt that ends, with a lease given back or with an error.         *)
Finish(p, stage) ==
  /\ pc' = [pc EXCEPT ![p] = stage]
  /\ record' = [record EXCEPT ![p] = NoEntry]
  /\ claimRecord' = [claimRecord EXCEPT ![p] = NoEntry]
  /\ candidate' = [candidate EXCEPT ![p] = NoEntry]
  /\ recovered' = [recovered EXCEPT ![p] = FALSE]

records == <<record, claimRecord, candidate, recovered>>
machine == <<boot, crashes>>

Init ==
  /\ lock = NoEntry /\ claim = NoEntry /\ quarantine = {}
  /\ pc = [p \in Procs |-> "idle"]
  /\ record = [p \in Procs |-> NoEntry]
  /\ claimRecord = [p \in Procs |-> NoEntry]
  /\ candidate = [p \in Procs |-> NoEntry]
  /\ recovered = [p \in Procs |-> FALSE]
  /\ boot = [h \in Hosts |-> 0]
  /\ crashes = 0
-----------------------------------------------------------------------------
(* attempt() and initialize() on the lock path                             *)

(* A call of acquireLock, or the next round of its retry loop.             *)
Attempt(p) ==
  /\ pc[p] = "idle"
  /\ Goto(p, "probe")
  /\ UNCHANGED <<lock, claim, quarantine, records, machine>>

(* exists(claimPath) answers LOCKED, before the first mkdir and again      *)
(* before the one that follows a recovery.                                 *)
Probe(p) ==
  /\ pc[p] = "probe"
  /\ \/ /\ claim # NoEntry
        /\ Finish(p, "idle")
     \/ /\ claim = NoEntry
        /\ Goto(p, "make")
        /\ UNCHANGED records
  /\ UNCHANGED <<lock, claim, quarantine, machine>>

(* Mutant: mkdir with recursive set, which never answers EEXIST.           *)
MakeLockRecursive(p) ==
  /\ pc[p] = "make"
  /\ lock' = IF lock = NoEntry THEN [ino |-> CHOOSE i \in Inodes : FreeInode(i),
                                     owner |-> NoOwner]
                               ELSE lock
  /\ Goto(p, "write")
  /\ UNCHANGED <<claim, quarantine, records, machine>>

(* mkdir of the lock.  EEXIST starts a recovery, but only once.            *)
MakeLock(p) ==
  /\ pc[p] = "make"
  /\ \/ /\ lock = NoEntry
        /\ \E i \in Inodes : /\ FreeInode(i)
                             /\ lock' = [ino |-> i, owner |-> NoOwner]
        /\ Goto(p, "write")
        /\ UNCHANGED records
     \/ /\ lock # NoEntry /\ ~recovered[p]
        /\ Goto(p, "inspectDir")
        /\ UNCHANGED <<lock, records>>
     \/ /\ lock # NoEntry /\ recovered[p]
        /\ Finish(p, "idle")
        /\ UNCHANGED lock
  /\ UNCHANGED <<claim, quarantine, machine>>

(* An entry seen by mkdir's path check that is gone at the recheck is      *)
(* reported as LOCKED: the retry loop goes round once more.  (Also allowed *)
(* here when the path was absent all along: a spurious LOCKED is harmless.) *)
MakeLockVanished(p) ==
  /\ pc[p] = "make" /\ lock = NoEntry
  /\ Finish(p, "idle")
  /\ UNCHANGED <<lock, claim, quarantine, machine>>

(* owner.json, created exclusively, written and synced.                    *)
WriteOwner(p) ==
  /\ pc[p] = "write" /\ NonceDrawn
  /\ IF lock # NoEntry
       THEN /\ lock' = [lock EXCEPT !.owner = CurrentOwner(p)]
            /\ Goto(p, "readBack")
       ELSE Goto(p, "lost") /\ UNCHANGED lock
  /\ UNCHANGED <<claim, quarantine, records, machine>>

(* initialize returns what it reads at the path, not what it wrote.        *)
ReadBack(p) ==
  /\ pc[p] = "readBack"
  /\ IF lock \in Record
       THEN record' = [record EXCEPT ![p] = lock] /\ Goto(p, "confirm")
       ELSE Goto(p, "lost") /\ UNCHANGED record
  /\ UNCHANGED <<lock, claim, quarantine, claimRecord, candidate, recovered, machine>>

(* The claim is looked at once more: a claim sends the lock back.          *)
Confirm(p) ==
  /\ pc[p] = "confirm"
  /\ Goto(p, IF claim = NoEntry THEN "held" ELSE "release")
  /\ UNCHANGED <<lock, claim, quarantine, records, machine>>

(* The caller is done with its lease.                                      *)
EndUse(p) ==
  /\ pc[p] = "held"
  /\ Goto(p, "release")
  /\ UNCHANGED <<lock, claim, quarantine, records, machine>>
-----------------------------------------------------------------------------
(* release(): assertRecord, remove owner.json, remove the directory        *)

AssertLock(p) ==
  /\ pc[p] = "release"
  /\ Goto(p, IF Unchanged(lock, record[p]) THEN "unlink" ELSE "lost")
  /\ UNCHANGED <<lock, claim, quarantine, records, machine>>

UnlinkOwner(p) ==
  /\ pc[p] = "unlink"
  /\ IF Unchanged(lock, record[p])
       THEN lock' = [lock EXCEPT !.owner = NoOwner] /\ Goto(p, "rmdir")
       ELSE Goto(p, "lost") /\ UNCHANGED lock
  /\ UNCHANGED <<claim, quarantine, records, machine>>

RemoveLock(p) ==
  /\ pc[p] = "rmdir"
  /\ IF SameDirectory(lock, record[p])
       THEN lock' = NoEntry /\ Finish(p, "idle")
       ELSE Goto(p, "lost") /\ UNCHANGED <<lock, records>>
  /\ UNCHANGED <<claim, quarantine, machine>>
-----------------------------------------------------------------------------
(* recover(): read the candidate, claim, check again, quarantine, unclaim  *)

(* read() takes the directory's identity and then, a call later, the file: *)
(* the lock may change hands in between.                                   *)
InspectDirectory(p) ==
  /\ pc[p] = "inspectDir"
  /\ \/ /\ lock = NoEntry
        /\ Finish(p, "idle")
     \/ /\ lock # NoEntry
        /\ candidate' = [candidate EXCEPT ![p] = [ino |-> lock.ino, owner |-> NoOwner]]
        /\ Goto(p, "inspectFile")
        /\ UNCHANGED <<record, claimRecord, recovered>>
  /\ UNCHANGED <<lock, claim, quarantine, machine>>

(* Mutant: an owner.json that does not parse is taken for a record.        *)
InspectFileUnparsed(p) ==
  /\ pc[p] = "inspectFile" /\ lock # NoEntry
  /\ candidate' = [candidate EXCEPT ![p].owner = lock.owner]
  /\ Goto(p, "inspectOwner")
  /\ UNCHANGED <<lock, claim, quarantine, record, claimRecord, recovered, machine>>

InspectFile(p) ==
  /\ pc[p] = "inspectFile"
  /\ \/ /\ lock \notin Record
        /\ Finish(p, "idle")
     \/ /\ lock \in Record
        /\ candidate' = [candidate EXCEPT ![p].owner = lock.owner]
        /\ Goto(p, "inspectOwner")
        /\ UNCHANGED <<record, claimRecord, recovered>>
  /\ UNCHANGED <<lock, claim, quarantine, machine>>

InspectOwner(p) ==
  /\ pc[p] = "inspectOwner"
  /\ \/ /\ OwnerLiveness(p, candidate[p].owner) = "absent"
        /\ Goto(p, "claimMake")
        /\ UNCHANGED records
     \/ /\ OwnerLiveness(p, candidate[p].owner) # "absent"
        /\ Finish(p, "idle")
  /\ UNCHANGED <<lock, claim, quarantine, machine>>

(* Mutant: a claim that exists already is shared.                          *)
MakeClaimShared(p) ==
  /\ pc[p] = "claimMake"
  /\ claim' = IF claim = NoEntry THEN [ino |-> CHOOSE i \in Inodes : FreeInode(i),
                                       owner |-> NoOwner]
                                 ELSE claim
  /\ Goto(p, "claimWrite")
  /\ UNCHANGED <<lock, quarantine, records, machine>>

MakeClaim(p) ==
  /\ pc[p] = "claimMake"
  /\ \/ /\ claim = NoEntry
        /\ \E i \in Inodes : /\ FreeInode(i)
                             /\ claim' = [ino |-> i, owner |-> NoOwner]
        /\ Goto(p, "claimWrite")
        /\ UNCHANGED records
     \/ /\ claim # NoEntry
        /\ Finish(p, "idle")
        /\ UNCHANGED claim
  /\ UNCHANGED <<lock, quarantine, machine>>

WriteClaim(p) ==
  /\ pc[p] = "claimWrite" /\ NonceDrawn
  /\ IF claim # NoEntry
       THEN /\ claim' = [claim EXCEPT !.owner = CurrentOwner(p)]
            /\ Goto(p, "claimReadBack")
       ELSE Goto(p, "lost") /\ UNCHANGED claim
  /\ UNCHANGED <<lock, quarantine, records, machine>>

ReadBackClaim(p) ==
  /\ pc[p] = "claimReadBack"
  /\ IF claim \in Record
       THEN claimRecord' = [claimRecord EXCEPT ![p] = claim] /\ Goto(p, "recheck")
       ELSE Goto(p, "lost") /\ UNCHANGED claimRecord
  /\ UNCHANGED <<lock, claim, quarantine, record, candidate, recovered, machine>>

(* assertRecord of the claim and of the candidate: LOCK_CHANGED unclaims.  *)
Recheck(p) ==
  /\ pc[p] = "recheck"
  /\ Goto(p, IF Unchanged(claim, claimRecord[p]) /\ Unchanged(lock, candidate[p])
               THEN "recheckOwner" ELSE "unclaim")
  /\ UNCHANGED <<lock, claim, quarantine, records, machine>>

(* Mutant: the second liveness test has its sense inverted.                *)
RecheckOwnerInverted(p) ==
  /\ pc[p] = "recheckOwner"
  /\ Goto(p, IF OwnerLiveness(p, candidate[p].owner) # "absent"
               THEN "verify" ELSE "unclaim")
  /\ UNCHANGED <<lock, claim, quarantine, records, machine>>

RecheckOwner(p) ==
  /\ pc[p] = "recheckOwner"
  /\ Goto(p, IF OwnerLiveness(p, candidate[p].owner) = "absent"
               THEN "verify" ELSE "unclaim")
  /\ UNCHANGED <<lock, claim, quarantine, records, machine>>

(* quarantineLock compares both directories with what was recorded ...     *)
Verify(p) ==
  /\ pc[p] = "verify"
  /\ Goto(p, IF SameDirectory(lock, candidate[p]) /\ SameDirectory(claim, claimRecord[p])
               THEN "rename" ELSE "unclaim")
  /\ UNCHANGED <<lock, claim, quarantine, records, machine>>

(* ... and then renames whatever is at the lock path.                      *)
Quarantine(p) ==
  /\ pc[p] = "rename"
  /\ lock' = NoEntry
  /\ quarantine' = quarantine \cup ({lock} \ {NoEntry})
  /\ recovered' = [recovered EXCEPT ![p] = (lock # NoEntry)]
  /\ Goto(p, "unclaim")
  /\ UNCHANGED <<claim, record, claimRecord, candidate, machine>>

AssertClaim(p) ==
  /\ pc[p] = "unclaim"
  /\ Goto(p, IF Unchanged(claim, claimRecord[p]) THEN "unlinkClaim" ELSE "lost")
  /\ UNCHANGED <<lock, claim, quarantine, records, machine>>

UnlinkClaim(p) ==
  /\ pc[p] = "unlinkClaim"
  /\ IF Unchanged(claim, claimRecord[p])
       THEN claim' = [claim EXCEPT !.owner = NoOwner] /\ Goto(p, "rmdirClaim")
       ELSE Goto(p, "lost") /\ UNCHANGED claim
  /\ UNCHANGED <<lock, quarantine, records, machine>>

(* With the lock quarantined attempt() goes on to its second mkdir; an     *)
(* error met on the way is thrown now that the claim is gone.              *)
RemoveClaim(p) ==
  /\ pc[p] = "rmdirClaim"
  /\ IF SameDirectory(claim, claimRecord[p])
       THEN /\ claim' = NoEntry
            /\ pc' = [pc EXCEPT ![p] = IF recovered[p] THEN "probe" ELSE "idle"]
            /\ claimRecord' = [claimRecord EXCEPT ![p] = NoEntry]
            /\ candidate' = [candidate EXCEPT ![p] = NoEntry]
            /\ UNCHANGED <<record, recovered>>
       ELSE Goto(p, "lost") /\ UNCHANGED <<claim, records>>
  /\ UNCHANGED <<lock, quarantine, machine>>
-----------------------------------------------------------------------------
(* The environment: processes die, machines reboot, pids are given again   *)

Crash(p) ==
  /\ pc[p] \notin {"idle", "dead"} /\ crashes < MaxCrashes
  /\ Finish(p, "dead")
  /\ crashes' = crashes + 1
  /\ UNCHANGED <<lock, claim, quarantine, boot>>

(* A new process under the pid of a dead one knows nothing of its records. *)
Restart(p) ==
  /\ PidReuse /\ Dead(p)
  /\ Goto(p, "idle")
  /\ UNCHANGED <<lock, claim, quarantine, records, machine>>

(* What the processes of a machine knew is gone with it.                   *)
Wiped(f, h, v) == [p \in Procs |-> IF HostOf[p] = h THEN v ELSE f[p]]

Reboot(h) ==
  /\ boot[h] < MaxBoots
  /\ boot' = [boot EXCEPT ![h] = @ + 1]
  /\ pc' = Wiped(pc, h, "dead")
  /\ record' = Wiped(record, h, NoEntry)
  /\ claimRecord' = Wiped(claimRecord, h, NoEntry)
  /\ candidate' = Wiped(candidate, h, NoEntry)
  /\ recovered' = Wiped(recovered, h, FALSE)
  /\ UNCHANGED <<lock, claim, quarantine, crashes>>

(* The steps of acquireLock and release, which Node runs to their end.     *)
Step(p) ==
  \/ Probe(p) \/ MakeLock(p) \/ MakeLockVanished(p) \/ WriteOwner(p) \/ ReadBack(p)
  \/ Confirm(p) \/ AssertLock(p) \/ UnlinkOwner(p) \/ RemoveLock(p)
  \/ InspectDirectory(p) \/ InspectFile(p) \/ InspectOwner(p)
  \/ MakeClaim(p) \/ WriteClaim(p) \/ ReadBackClaim(p)
  \/ Recheck(p) \/ RecheckOwner(p) \/ Verify(p) \/ Quarantine(p)
  \/ AssertClaim(p) \/ UnlinkClaim(p) \/ RemoveClaim(p)

Next ==
  \/ \E p \in Procs : Attempt(p) \/ Step(p) \/ EndUse(p) \/ Crash(p) \/ Restart(p)
  \/ \E h \in Hosts : Reboot(h)

Spec == Init /\ [][Next]_vars

(* Node runs every started call on, the retry loop of acquireLock starts   *)
(* the next attempt, and every caller releases its lease in a finally.     *)
Fairness == \A p \in Procs : WF_vars(Attempt(p)) /\ WF_vars(Step(p)) /\ WF_vars(EndUse(p))

FairSpec == Spec /\ Fairness
-----------------------------------------------------------------------------
(* What the lock guarantees                                                *)

(* Every variable has its type, a record taken by read() is complete, and  *)
(* a process that went on from read() has the record it goes on with.      *)
TypeOK ==
  /\ lock \in Entry \cup {NoEntry}
  /\ claim \in Entry \cup {NoEntry}
  /\ quarantine \in SUBSET Entry
  /\ pc \in [Procs -> Stages]
  /\ record \in [Procs -> Record \cup {NoEntry}]
  /\ claimRecord \in [Procs -> Record \cup {NoEntry}]
  /\ candidate \in [Procs -> Entry \cup {NoEntry}]
  /\ recovered \in [Procs -> BOOLEAN]
  /\ boot \in [Hosts -> Nat]
  /\ crashes \in Nat
  /\ \A p \in Procs :
       /\ pc[p] \in {"confirm", "held", "release", "unlink", "rmdir"} => record[p] \in Record
       /\ pc[p] \in {"recheck", "recheckOwner", "verify", "rename", "unclaim",
                     "unlinkClaim", "rmdirClaim"} => claimRecord[p] \in Record
       /\ pc[p] = "inspectFile" => candidate[p] \in Entry
       /\ pc[p] \in {"inspectOwner", "claimMake"} \cup Claiming => candidate[p] \in Record

(* No two callers of acquireLock hold the lease at the same time: the      *)
(* critical sections of session.ts, retire.ts, recover.ts, the settings    *)
(* store and the exports never overlap, whatever recoveries are under way. *)
MutualExclusion ==
  \A p, q \in Procs : pc[p] = "held" /\ pc[q] = "held" => p = q

(* While a live process holds the lease the directory is the one it made,  *)
(* so assertHeld never fails and release never reports LOCK_CHANGED:       *)
(* recovery never takes a lock, or a claim, from somebody who is alive.    *)
LeaseIntact ==
  \A p \in Procs : /\ pc[p] = "held" => lock = record[p]
                   /\ pc[p] # "lost"

(* The last checks of recover() are still true when quarantineLock renames *)
(* (lock.ts leaves three awaits in between): the path shows the directory  *)
(* that was checked, and nobody is between its mkdir and its rmdir.        *)
RecoveryCheckHolds ==
  \A p \in Procs : pc[p] = "rename" =>
    /\ lock = candidate[p]
    /\ \A q \in Procs : pc[q] \notin Locking

(* What leaves the lock path does so by its owner's rmdir or, renamed by a *)
(* process of the same machine that owns the claim, after its owner died.  *)
OnlyOwnerOrRecovererRemoves ==
  [][lock # NoEntry /\ lock' = NoEntry =>
       \E p \in Procs :
         \/ pc[p] = "rmdir" /\ lock.ino = record[p].ino
         \/ /\ pc[p] = "rename" /\ claim = claimRecord[p]
            /\ HostOf[lock.owner.pid] = HostOf[p]
            /\ pc[lock.owner.pid] \notin Locking]_vars

(* The strengthening that makes the above inductive.  One process at a     *)
(* time is between mkdir and rmdir of each directory, and finds there what *)
(* it made; a candidate once found absent is no live process's lock; and a *)
(* recheck that succeeded stays true up to the rename.                     *)
OneLocker   == \A p, q \in Procs : pc[p] \in Locking /\ pc[q] \in Locking => p = q
OneClaimer  == \A p, q \in Procs : pc[p] \in Claiming /\ pc[q] \in Claiming => p = q

LockerFindsLock ==
  \A p \in Procs :
    /\ pc[p] \in Locking => lock # NoEntry
    /\ pc[p] = "write" => lock.owner = NoOwner
    /\ pc[p] = "readBack" => lock \in Record /\ lock.owner.pid = p
    /\ pc[p] \in {"confirm", "held", "release", "unlink"} =>
         lock = record[p] /\ lock.owner.pid = p
    /\ pc[p] = "rmdir" => lock.ino = record[p].ino /\ lock.owner = NoOwner

ClaimerFindsClaim ==
  \A p \in Procs :
    /\ pc[p] \in Claiming => claim # NoEntry
    /\ pc[p] = "claimReadBack" => claim \in Record
    /\ pc[p] \in {"recheck", "recheckOwner", "verify", "rename", "unclaim", "unlinkClaim"} =>
         claim = claimRecord[p]
    /\ pc[p] = "rmdirClaim" => claim.ino = claimRecord[p].ino

CandidateIsOrphan ==
  \A r, p \in Procs :
    /\ pc[r] \in {"claimMake"} \cup Claiming
    /\ pc[p] \in Locking /\ lock \in Record
    => lock.owner # candidate[r].owner

CandidateIsLocal ==
  \A r \in Procs : pc[r] \in {"claimMake"} \cup Claiming =>
    HostOf[candidate[r].owner.pid] = HostOf[r]

RecheckHolds ==
  \A r \in Procs : pc[r] \in {"recheckOwner", "verify", "rename"} =>
    /\ lock = candidate[r]
    /\ \A p \in Procs : pc[p] \notin Locking

NeverLost == \A p \in Procs : pc[p] # "lost"

Protocol == /\ OneLocker /\ OneClaimer /\ LockerFindsLock /\ ClaimerFindsClaim
            /\ CandidateIsOrphan /\ CandidateIsLocal /\ RecheckHolds /\ NeverLost

IInv == TypeOK /\ Protocol

(* The lease of Lease.tla: who holds it, and orphaned while the directory  *)
(* stands and the process that made it is gone.                            *)
lease == IF \E p \in Procs : pc[p] = "held"
           THEN CHOOSE p \in Procs : pc[p] = "held"
           ELSE IF lock # NoEntry /\ \A p \in Procs : pc[p] \notin Locking
                  THEN "orphaned" ELSE "free"

L == INSTANCE Lease WITH Free <- "free", Orphaned <- "orphaned"

(* lock.ts with its directories, claims and crashes implements the lease:  *)
(* in particular an orphaned lease is never acquired, only recovered.      *)
ImplementsLease == L!Spec

(* A lock whose owner died with owner.json in place, while a process of the *)
(* same machine and the same boot is there to notice.                      *)
Stale == /\ lock \in Record /\ Dead(lock.owner.pid)
         /\ \E p \in Procs : ~Dead(p) /\ OwnerLiveness(p, lock.owner) = "absent"

(* Such a lock does not stay: as long as processes of that machine keep    *)
(* trying to acquire it, one of them recovers it, and contending           *)
(* recoverers never keep each other from doing so.                         *)
StaleLockRecovered == Stale ~> ~Stale
=============================================================================

------------------------- MODULE ProjectLockProofs -------------------------
(* Proofs about ProjectLock, for any number of processes, machines, inodes *)
(* and nonces, and any number of crashes, reboots and pids given again.    *)
EXTENDS ProjectLock, TLAPS

(* currentOwner draws a well-formed owner.                                 *)
LEMMA OwnerIsTyped ==
  ASSUME TypeOK, NEW p \in Procs, NonceDrawn
  PROVE  CurrentOwner(p) \in Owner
<1>1. (CHOOSE n \in Nonces : FreshNonce(n)) \in Nonces
  BY DEF NonceDrawn
<1>2. boot[HostOf[p]] \in Nat
  BY HostAssumption DEF TypeOK
<1> QED
  BY <1>1, <1>2 DEF CurrentOwner, Owner

(* A drawn owner is none of those any process remembers as a candidate.    *)
LEMMA OwnerIsFresh ==
  ASSUME TypeOK, NEW p \in Procs, NEW r \in Procs, NonceDrawn,
         candidate[r] \in Record
  PROVE  CurrentOwner(p) # candidate[r].owner
<1>1. FreshNonce(CHOOSE n \in Nonces : FreshNonce(n))
  BY DEF NonceDrawn
<1>2. candidate[r] \in KnownEntries /\ candidate[r] # NoEntry /\ candidate[r].owner # NoOwner
  BY DistinctAssumption DEF KnownEntries, Record, Owner
<1>3. candidate[r].owner.nonce # (CHOOSE n \in Nonces : FreshNonce(n))
  BY <1>1, <1>2 DEF FreshNonce
<1> QED
  BY <1>3 DEF CurrentOwner

(* TypeOK, preserved by each action.                                       *)
LEMMA TypeInit == Init => TypeOK
BY HostAssumption DEF Init, TypeOK, Stages, Locking, Claiming

(* Finish forgets a process's records, which keeps the types.              *)
LEMMA FinishTyped ==
  ASSUME TypeOK, NEW p \in Procs, NEW stage \in {"idle", "dead"}, Finish(p, stage),
         lock' \in Entry \cup {NoEntry}, claim' \in Entry \cup {NoEntry},
         UNCHANGED <<quarantine, boot>>, crashes' \in Nat
  PROVE  TypeOK'
BY DistinctAssumption DEF TypeOK, Finish, Record, Entry, Stages, Locking, Claiming

(* Every step keeps the types.                                            *)
LEMMA TypeStep == TypeOK /\ [Next]_vars => TypeOK'
<1> SUFFICES ASSUME TypeOK, [Next]_vars PROVE TypeOK'
  OBVIOUS
<1> USE DistinctAssumption, HostAssumption
    DEF TypeOK, Goto, Finish, records, machine, Record, Entry, Stages, Locking, Claiming
<1>1. ASSUME NEW p \in Procs, Attempt(p) PROVE TypeOK'
  BY <1>1 DEF Attempt
<1>2. ASSUME NEW p \in Procs, Probe(p) PROVE TypeOK'
  <2>1. CASE claim # NoEntry
    BY <1>2, <2>1, FinishTyped DEF Probe
  <2>2. CASE claim = NoEntry
    BY <1>2, <2>2 DEF Probe
  <2> QED
    BY <1>2, <2>1, <2>2 DEF Probe
<1>3. ASSUME NEW p \in Procs, MakeLock(p) PROVE TypeOK'
  <2>1. CASE lock = NoEntry
    BY <1>3, <2>1 DEF MakeLock
  <2>2. CASE lock # NoEntry /\ ~recovered[p]
    BY <1>3, <2>2 DEF MakeLock
  <2>3. CASE lock # NoEntry /\ recovered[p]
    BY <1>3, <2>3, FinishTyped DEF MakeLock
  <2> QED
    BY <1>3, <2>1, <2>2, <2>3 DEF MakeLock
<1>4. ASSUME NEW p \in Procs, MakeLockVanished(p) PROVE TypeOK'
  BY <1>4 DEF MakeLockVanished
<1>5. ASSUME NEW p \in Procs, WriteOwner(p) PROVE TypeOK'
  BY <1>5, OwnerIsTyped DEF WriteOwner
<1>6. ASSUME NEW p \in Procs, ReadBack(p) PROVE TypeOK'
  BY <1>6 DEF ReadBack
<1>7. ASSUME NEW p \in Procs, Confirm(p) PROVE TypeOK'
  BY <1>7 DEF Confirm
<1>8. ASSUME NEW p \in Procs, EndUse(p) PROVE TypeOK'
  BY <1>8 DEF EndUse
<1>9. ASSUME NEW p \in Procs, AssertLock(p) PROVE TypeOK'
  BY <1>9 DEF AssertLock
<1>10. ASSUME NEW p \in Procs, UnlinkOwner(p) PROVE TypeOK'
  BY <1>10 DEF UnlinkOwner, Unchanged
<1>11. ASSUME NEW p \in Procs, RemoveLock(p) PROVE TypeOK'
  <2>1. CASE SameDirectory(lock, record[p])
    BY <1>11, <2>1, FinishTyped DEF RemoveLock
  <2>2. CASE ~SameDirectory(lock, record[p])
    <3>1. /\ pc' = [pc EXCEPT ![p] = "lost"] /\ pc[p] = "rmdir"
          /\ UNCHANGED <<lock, claim, quarantine, record, claimRecord, candidate, recovered,
                        boot, crashes>>
      BY <1>11, <2>2 DEF RemoveLock
    <3> QED
      BY <3>1
  <2> QED
    BY <1>11, <2>1, <2>2 DEF RemoveLock
<1>12. ASSUME NEW p \in Procs, InspectDirectory(p) PROVE TypeOK'
  <2>1. CASE lock = NoEntry
    BY <1>12, <2>1, FinishTyped DEF InspectDirectory
  <2>2. CASE lock # NoEntry
    BY <1>12, <2>2 DEF InspectDirectory
  <2> QED
    BY <1>12, <2>1, <2>2 DEF InspectDirectory
<1>13. ASSUME NEW p \in Procs, InspectFile(p) PROVE TypeOK'
  <2>1. CASE lock \notin Record
    BY <1>13, <2>1, FinishTyped DEF InspectFile
  <2>2. CASE lock \in Record
    BY <1>13, <2>2 DEF InspectFile
  <2> QED
    BY <1>13, <2>1, <2>2 DEF InspectFile
<1>14. ASSUME NEW p \in Procs, InspectOwner(p) PROVE TypeOK'
  <2>1. CASE OwnerLiveness(p, candidate[p].owner) = "absent"
    BY <1>14, <2>1 DEF InspectOwner
  <2>2. CASE OwnerLiveness(p, candidate[p].owner) # "absent"
    BY <1>14, <2>2, FinishTyped DEF InspectOwner
  <2> QED
    BY <1>14, <2>1, <2>2 DEF InspectOwner
<1>15. ASSUME NEW p \in Procs, MakeClaim(p) PROVE TypeOK'
  <2>1. CASE claim = NoEntry
    BY <1>15, <2>1 DEF MakeClaim
  <2>2. CASE claim # NoEntry
    BY <1>15, <2>2, FinishTyped DEF MakeClaim
  <2> QED
    BY <1>15, <2>1, <2>2 DEF MakeClaim
<1>16. ASSUME NEW p \in Procs, WriteClaim(p) PROVE TypeOK'
  BY <1>16, OwnerIsTyped DEF WriteClaim
<1>17. ASSUME NEW p \in Procs, ReadBackClaim(p) PROVE TypeOK'
  <2>1. CASE claim \in Record
    BY <1>17, <2>1 DEF ReadBackClaim
  <2>2. CASE claim \notin Record
    BY <1>17, <2>2 DEF ReadBackClaim
  <2> QED
    BY <2>1, <2>2
<1>18. ASSUME NEW p \in Procs, Recheck(p) PROVE TypeOK'
  BY <1>18 DEF Recheck
<1>19. ASSUME NEW p \in Procs, RecheckOwner(p) PROVE TypeOK'
  BY <1>19 DEF RecheckOwner
<1>20. ASSUME NEW p \in Procs, Verify(p) PROVE TypeOK'
  BY <1>20 DEF Verify
<1>21. ASSUME NEW p \in Procs, Quarantine(p) PROVE TypeOK'
  BY <1>21 DEF Quarantine
<1>22. ASSUME NEW p \in Procs, AssertClaim(p) PROVE TypeOK'
  BY <1>22 DEF AssertClaim
<1>23. ASSUME NEW p \in Procs, UnlinkClaim(p) PROVE TypeOK'
  BY <1>23 DEF UnlinkClaim, Unchanged
<1>24. ASSUME NEW p \in Procs, RemoveClaim(p) PROVE TypeOK'
  <2>1. CASE SameDirectory(claim, claimRecord[p])
    BY <1>24, <2>1 DEF RemoveClaim
  <2>2. CASE ~SameDirectory(claim, claimRecord[p])
    BY <1>24, <2>2 DEF RemoveClaim
  <2> QED
    BY <1>24, <2>1, <2>2 DEF RemoveClaim
<1>25. ASSUME NEW p \in Procs, Crash(p) PROVE TypeOK'
  BY <1>25 DEF Crash
<1>26. ASSUME NEW p \in Procs, Restart(p) PROVE TypeOK'
  BY <1>26 DEF Restart
<1>27. ASSUME NEW h \in Hosts, Reboot(h) PROVE TypeOK'
  <2>1. /\ pc' \in [Procs -> Stages]
        /\ record' \in [Procs -> Record \cup {NoEntry}]
        /\ claimRecord' \in [Procs -> Record \cup {NoEntry}]
        /\ candidate' \in [Procs -> Entry \cup {NoEntry}]
        /\ recovered' \in [Procs -> BOOLEAN]
    BY <1>27 DEF Reboot, Wiped
  <2>2. boot' \in [Hosts -> Nat] /\ UNCHANGED <<lock, claim, quarantine, crashes>>
    BY <1>27 DEF Reboot
  <2>3. ASSUME NEW p \in Procs, HostOf[p] = h PROVE pc'[p] = "dead"
    BY <1>27, <2>3 DEF Reboot, Wiped
  <2>4. ASSUME NEW p \in Procs, HostOf[p] # h
        PROVE  /\ pc'[p] = pc[p] /\ record'[p] = record[p]
               /\ claimRecord'[p] = claimRecord[p] /\ candidate'[p] = candidate[p]
    BY <1>27, <2>4 DEF Reboot, Wiped
  <2> QED
    BY <2>1, <2>2, <2>3, <2>4
<1>28. CASE UNCHANGED vars
  BY <1>28 DEF vars
<1> QED
  BY <1>1, <1>2, <1>3, <1>4, <1>5, <1>6, <1>7, <1>8, <1>9, <1>10, <1>11, <1>12, <1>13,
     <1>14, <1>15, <1>16, <1>17, <1>18, <1>19, <1>20, <1>21, <1>22, <1>23, <1>24, <1>25,
     <1>26, <1>27, <1>28 DEF Next, Step

(* Every state of the lock protocol is well typed.                         *)
THEOREM TypeCorrect == Spec => []TypeOK
<1> QED BY TypeInit, TypeStep, PTL DEF Spec
-----------------------------------------------------------------------------
(* The protocol invariant                                                  *)

(* The protocol holds at the start.                                       *)
LEMMA ProtocolInit == Init => Protocol
BY DEF Init, Protocol, OneLocker, OneClaimer, LockerFindsLock, ClaimerFindsClaim,
       CandidateIsOrphan, CandidateIsLocal, RecheckHolds, NeverLost, Locking, Claiming

(* Leaving an attempt behind, at rest or dead, disturbs nobody else.       *)
LEMMA FinishKeeps ==
  ASSUME IInv, NEW p \in Procs, NEW stage \in {"idle", "dead"}, Finish(p, stage),
         UNCHANGED <<lock, claim>>
  PROVE  Protocol'
<1> USE DEF IInv, TypeOK, Protocol, Finish, Locking, Claiming
<1>1. OneLocker' /\ OneClaimer' /\ NeverLost'
  BY DEF OneLocker, OneClaimer, NeverLost
<1>2. LockerFindsLock'
  BY DEF LockerFindsLock
<1>3. ClaimerFindsClaim'
  BY DEF ClaimerFindsClaim
<1>4. CandidateIsOrphan'
  BY DEF CandidateIsOrphan
<1>5. RecheckHolds'
  BY DEF RecheckHolds
<1>6. CandidateIsLocal'
  BY DEF CandidateIsLocal
<1> QED
  BY <1>1, <1>2, <1>3, <1>4, <1>5, <1>6

(* A complete lock found by a live locker is its own.                      *)
LEMMA LockerIsOwner ==
  ASSUME IInv, NEW q \in Procs, pc[q] \in Locking, lock \in Record
  PROVE  lock.owner.pid = q
BY DistinctAssumption DEF IInv, Protocol, LockerFindsLock, Locking, Record, Owner

(* A directory without owner.json is nobody's candidate.                   *)
LEMMA NoOwnerNoRecord ==
  ASSUME NEW e, e.owner = NoOwner
  PROVE  e \notin Record
BY DistinctAssumption DEF Record, Owner

(* An absent entry is no record.                                          *)
LEMMA NoEntryNoRecord == NoEntry \notin Record
BY DistinctAssumption DEF Record, Owner

(* Writing owner.json completes an entry.                                  *)
LEMMA WrittenIsRecord ==
  ASSUME NEW e \in Entry, NEW o \in Owner
  PROVE  /\ [e EXCEPT !.owner = o] \in Record
         /\ [e EXCEPT !.owner = o] # NoEntry
         /\ [e EXCEPT !.owner = o].owner = o
<1>1. [e EXCEPT !.owner = o] \in Record /\ [e EXCEPT !.owner = o].owner = o
  BY DEF Entry, Record
<1> QED
  BY <1>1, NoEntryNoRecord

(* Removing owner.json leaves the directory there.                         *)
LEMMA ClearedIsEntry ==
  ASSUME NEW e \in Entry
  PROVE  [e EXCEPT !.owner = NoOwner] # NoEntry
<1>1. [e EXCEPT !.owner = NoOwner] \in Entry
  BY DEF Entry
<1> QED
  BY <1>1, DistinctAssumption DEF Entry, Owner

(* Every step keeps the protocol, conjunct by conjunct.                   *)
LEMMA ProtocolStep == IInv /\ [Next]_vars => Protocol'
<1> SUFFICES ASSUME IInv, [Next]_vars PROVE Protocol'
  OBVIOUS
<1> USE DistinctAssumption, HostAssumption
    DEF IInv, Protocol, OneLocker, OneClaimer, LockerFindsLock, ClaimerFindsClaim,
        CandidateIsOrphan, CandidateIsLocal, RecheckHolds, NeverLost, TypeOK,
        Goto, Finish, records, machine, Record, Entry, Stages, Locking, Claiming
<1>1. ASSUME NEW p \in Procs, Attempt(p) PROVE Protocol'
  BY <1>1 DEF Attempt
<1>2. ASSUME NEW p \in Procs, Probe(p) PROVE Protocol'
  <2>1. CASE claim # NoEntry
    BY <1>2, <2>1, FinishKeeps DEF Probe
  <2>2. CASE claim = NoEntry
    BY <1>2, <2>2 DEF Probe
  <2> QED
    BY <1>2, <2>1, <2>2 DEF Probe
<1>3. ASSUME NEW p \in Procs, MakeLock(p) PROVE Protocol'
  <2>1. CASE lock = NoEntry
    <3>1. OneLocker' /\ OneClaimer' /\ NeverLost'
      BY <1>3, <2>1 DEF MakeLock
    <3>2. LockerFindsLock'
      BY <1>3, <2>1 DEF MakeLock
    <3>3. ClaimerFindsClaim'
      BY <1>3, <2>1 DEF MakeLock
    <3>4. CandidateIsOrphan'
      <4>1. lock'.owner = NoOwner
        BY <1>3, <2>1 DEF MakeLock
      <4> QED
        BY <4>1, NoOwnerNoRecord
    <3>5. RecheckHolds' /\ CandidateIsLocal'
      <4>1. \A r \in Procs : pc[r] \notin {"recheckOwner", "verify", "rename"}
        BY <2>1, NoEntryNoRecord
      <4> QED
        BY <1>3, <2>1, <4>1 DEF MakeLock
    <3> QED
      BY <3>1, <3>2, <3>3, <3>4, <3>5
  <2>2. CASE lock # NoEntry /\ ~recovered[p]
    BY <1>3, <2>2 DEF MakeLock
  <2>3. CASE lock # NoEntry /\ recovered[p]
    BY <1>3, <2>3, FinishKeeps DEF MakeLock
  <2> QED
    BY <1>3, <2>1, <2>2, <2>3 DEF MakeLock
<1>4. ASSUME NEW p \in Procs, MakeLockVanished(p) PROVE Protocol'
  BY <1>4, FinishKeeps DEF MakeLockVanished
<1>5. ASSUME NEW p \in Procs, WriteOwner(p) PROVE Protocol'
  <2>1. OneLocker' /\ OneClaimer' /\ NeverLost'
    BY <1>5 DEF WriteOwner
  <2>2. LockerFindsLock'
    <3>1. CurrentOwner(p) \in Owner /\ CurrentOwner(p).pid = p
      BY <1>5, OwnerIsTyped DEF WriteOwner, CurrentOwner
    <3>2. lock # NoEntry /\ lock' = [lock EXCEPT !.owner = CurrentOwner(p)]
      BY <1>5 DEF WriteOwner
    <3>3. lock' \in Record /\ lock' # NoEntry /\ lock'.owner.pid = p
      BY <3>1, <3>2, WrittenIsRecord
    <3>4. \A q \in Procs \ {p} : pc[q] \notin Locking
      BY <1>5 DEF WriteOwner
    <3> QED
      BY <1>5, <3>3, <3>4 DEF WriteOwner
  <2>3. ClaimerFindsClaim'
    BY <1>5 DEF WriteOwner
  <2>4. CandidateIsOrphan'
    <3>1. NonceDrawn /\ lock # NoEntry /\ lock' = [lock EXCEPT !.owner = CurrentOwner(p)]
      BY <1>5 DEF WriteOwner
    <3>2. lock'.owner = CurrentOwner(p)
      BY <3>1
    <3>3. \A r \in Procs : candidate[r] \in Record => lock'.owner # candidate[r].owner
      BY <3>1, <3>2, OwnerIsFresh
    <3> QED
      BY <1>5, <3>3 DEF WriteOwner
  <2>5. RecheckHolds' /\ CandidateIsLocal'
    BY <1>5 DEF WriteOwner
  <2> QED
    BY <2>1, <2>2, <2>3, <2>4, <2>5
<1>6. ASSUME NEW p \in Procs, ReadBack(p) PROVE Protocol'
  BY <1>6 DEF ReadBack
<1>7. ASSUME NEW p \in Procs, Confirm(p) PROVE Protocol'
  BY <1>7 DEF Confirm
<1>8. ASSUME NEW p \in Procs, EndUse(p) PROVE Protocol'
  BY <1>8 DEF EndUse
<1>9. ASSUME NEW p \in Procs, AssertLock(p) PROVE Protocol'
  BY <1>9 DEF AssertLock, Unchanged
<1>10. ASSUME NEW p \in Procs, UnlinkOwner(p) PROVE Protocol'
  <2>1. OneLocker' /\ OneClaimer' /\ NeverLost'
    BY <1>10 DEF UnlinkOwner, Unchanged
  <2>2. LockerFindsLock'
    BY <1>10 DEF UnlinkOwner, Unchanged
  <2>3. ClaimerFindsClaim'
    BY <1>10 DEF UnlinkOwner, Unchanged
  <2>4. CandidateIsOrphan'
    <3>1. lock'.owner = NoOwner
      BY <1>10 DEF UnlinkOwner, Unchanged
    <3> QED
      BY <3>1, NoOwnerNoRecord
  <2>5. RecheckHolds' /\ CandidateIsLocal'
    BY <1>10 DEF UnlinkOwner, Unchanged
  <2> QED
    BY <2>1, <2>2, <2>3, <2>4, <2>5
<1>11. ASSUME NEW p \in Procs, RemoveLock(p) PROVE Protocol'
  <2>1. OneLocker' /\ OneClaimer' /\ NeverLost'
    BY <1>11 DEF RemoveLock, SameDirectory
  <2>2. LockerFindsLock'
    BY <1>11 DEF RemoveLock, SameDirectory
  <2>3. ClaimerFindsClaim'
    BY <1>11 DEF RemoveLock, SameDirectory
  <2>4. CandidateIsOrphan'
    BY <1>11 DEF RemoveLock, SameDirectory
  <2>5. RecheckHolds' /\ CandidateIsLocal'
    BY <1>11 DEF RemoveLock, SameDirectory
  <2> QED
    BY <2>1, <2>2, <2>3, <2>4, <2>5
<1>12. ASSUME NEW p \in Procs, InspectDirectory(p) PROVE Protocol'
  <2>1. CASE lock = NoEntry
    BY <1>12, <2>1, FinishKeeps DEF InspectDirectory
  <2>2. CASE lock # NoEntry
    <3>1. OneLocker' /\ OneClaimer' /\ NeverLost'
      BY <1>12, <2>2 DEF InspectDirectory
    <3>2. LockerFindsLock'
      BY <1>12, <2>2 DEF InspectDirectory
    <3>3. ClaimerFindsClaim'
      BY <1>12, <2>2 DEF InspectDirectory
    <3>4. CandidateIsOrphan'
      BY <1>12, <2>2 DEF InspectDirectory
    <3>5. RecheckHolds' /\ CandidateIsLocal'
      BY <1>12, <2>2 DEF InspectDirectory
    <3> QED
      BY <3>1, <3>2, <3>3, <3>4, <3>5
  <2> QED
    BY <1>12, <2>1, <2>2 DEF InspectDirectory
<1>13. ASSUME NEW p \in Procs, InspectFile(p) PROVE Protocol'
  <2>1. CASE lock \notin Record
    BY <1>13, <2>1, FinishKeeps DEF InspectFile
  <2>2. CASE lock \in Record
    <3>1. OneLocker' /\ OneClaimer' /\ NeverLost'
      BY <1>13, <2>2 DEF InspectFile
    <3>2. LockerFindsLock'
      BY <1>13, <2>2 DEF InspectFile
    <3>3. ClaimerFindsClaim'
      BY <1>13, <2>2 DEF InspectFile
    <3>4. CandidateIsOrphan'
      BY <1>13, <2>2 DEF InspectFile
    <3>5. RecheckHolds' /\ CandidateIsLocal'
      BY <1>13, <2>2 DEF InspectFile
    <3> QED
      BY <3>1, <3>2, <3>3, <3>4, <3>5
  <2> QED
    BY <1>13, <2>1, <2>2 DEF InspectFile
<1>14. ASSUME NEW p \in Procs, InspectOwner(p) PROVE Protocol'
  <2>1. CASE OwnerLiveness(p, candidate[p].owner) = "absent"
    <3>1. OneLocker' /\ OneClaimer' /\ NeverLost'
      BY <1>14, <2>1 DEF InspectOwner, OwnerLiveness, Dead
    <3>2. LockerFindsLock'
      BY <1>14, <2>1 DEF InspectOwner, OwnerLiveness, Dead
    <3>3. ClaimerFindsClaim'
      BY <1>14, <2>1 DEF InspectOwner, OwnerLiveness, Dead
    <3>4. CandidateIsOrphan'
      <4>1. Dead(candidate[p].owner.pid)
        BY <1>14, <2>1 DEF InspectOwner, OwnerLiveness
      <4>2. \A q \in Procs : pc[q] \in Locking /\ lock \in Record => lock.owner # candidate[p].owner
        BY <4>1, LockerIsOwner DEF Dead
      <4> QED
        BY <1>14, <2>1, <4>2 DEF InspectOwner
    <3>5. RecheckHolds' /\ CandidateIsLocal'
      BY <1>14, <2>1 DEF InspectOwner, OwnerLiveness, Dead
    <3> QED
      BY <3>1, <3>2, <3>3, <3>4, <3>5
  <2>2. CASE OwnerLiveness(p, candidate[p].owner) # "absent"
    BY <1>14, <2>2, FinishKeeps DEF InspectOwner
  <2> QED
    BY <1>14, <2>1, <2>2 DEF InspectOwner
<1>15. ASSUME NEW p \in Procs, MakeClaim(p) PROVE Protocol'
  <2>1. CASE claim = NoEntry
    BY <1>15, <2>1 DEF MakeClaim
  <2>2. CASE claim # NoEntry
    BY <1>15, <2>2, FinishKeeps DEF MakeClaim
  <2> QED
    BY <1>15, <2>1, <2>2 DEF MakeClaim
<1>16. ASSUME NEW p \in Procs, WriteClaim(p) PROVE Protocol'
  <2>1. OneLocker' /\ OneClaimer' /\ NeverLost'
    BY <1>16 DEF WriteClaim
  <2>2. LockerFindsLock'
    BY <1>16 DEF WriteClaim
  <2>3. ClaimerFindsClaim'
    <3>1. CurrentOwner(p) \in Owner
      BY <1>16, OwnerIsTyped DEF WriteClaim
    <3>2. claim # NoEntry /\ claim' = [claim EXCEPT !.owner = CurrentOwner(p)]
      BY <1>16 DEF WriteClaim
    <3>3. claim' \in Record /\ claim' # NoEntry
      BY <3>1, <3>2, WrittenIsRecord
    <3>4. \A q \in Procs \ {p} : pc[q] \notin Claiming
      BY <1>16 DEF WriteClaim
    <3> QED
      BY <1>16, <3>3, <3>4 DEF WriteClaim
  <2>4. CandidateIsOrphan'
    BY <1>16 DEF WriteClaim
  <2>5. RecheckHolds' /\ CandidateIsLocal'
    BY <1>16 DEF WriteClaim
  <2> QED
    BY <2>1, <2>2, <2>3, <2>4, <2>5
<1>17. ASSUME NEW p \in Procs, ReadBackClaim(p) PROVE Protocol'
  BY <1>17 DEF ReadBackClaim
<1>18. ASSUME NEW p \in Procs, Recheck(p) PROVE Protocol'
  BY <1>18 DEF Recheck, Unchanged
<1>19. ASSUME NEW p \in Procs, RecheckOwner(p) PROVE Protocol'
  BY <1>19 DEF RecheckOwner
<1>20. ASSUME NEW p \in Procs, Verify(p) PROVE Protocol'
  BY <1>20 DEF Verify, SameDirectory
<1>21. ASSUME NEW p \in Procs, Quarantine(p) PROVE Protocol'
  BY <1>21 DEF Quarantine
<1>22. ASSUME NEW p \in Procs, AssertClaim(p) PROVE Protocol'
  BY <1>22 DEF AssertClaim, Unchanged
<1>23. ASSUME NEW p \in Procs, UnlinkClaim(p) PROVE Protocol'
  BY <1>23 DEF UnlinkClaim, Unchanged
<1>24. ASSUME NEW p \in Procs, RemoveClaim(p) PROVE Protocol'
  <2>1. OneLocker' /\ OneClaimer' /\ NeverLost'
    BY <1>24 DEF RemoveClaim, SameDirectory
  <2>2. LockerFindsLock'
    BY <1>24 DEF RemoveClaim, SameDirectory
  <2>3. ClaimerFindsClaim'
    BY <1>24 DEF RemoveClaim, SameDirectory
  <2>4. CandidateIsOrphan'
    BY <1>24 DEF RemoveClaim, SameDirectory
  <2>5. RecheckHolds' /\ CandidateIsLocal'
    BY <1>24 DEF RemoveClaim, SameDirectory
  <2> QED
    BY <2>1, <2>2, <2>3, <2>4, <2>5
<1>25. ASSUME NEW p \in Procs, Crash(p) PROVE Protocol'
  BY <1>25 DEF Crash
<1>26. ASSUME NEW p \in Procs, Restart(p) PROVE Protocol'
  BY <1>26 DEF Restart, Dead
<1>27. ASSUME NEW h \in Hosts, Reboot(h) PROVE Protocol'
  BY <1>27 DEF Reboot, Wiped
<1>28. CASE UNCHANGED vars
  BY <1>28 DEF vars
<1> QED
  BY <1>1, <1>2, <1>3, <1>4, <1>5, <1>6, <1>7, <1>8, <1>9, <1>10, <1>11, <1>12, <1>13, <1>14,
       <1>15, <1>16, <1>17, <1>18, <1>19, <1>20, <1>21, <1>22, <1>23, <1>24, <1>25, <1>26, <1>27,
            <1>28 DEF Next, Step

(* The strengthened invariant: at most one process is between mkdir and    *)
(* rmdir of either directory, and what recovery checked stays true.        *)
THEOREM ProtocolInvariant == Spec => []IInv
<1>1. Init => IInv
  BY TypeInit, ProtocolInit DEF IInv
<1>2. IInv /\ [Next]_vars => IInv'
  BY TypeStep, ProtocolStep DEF IInv
<1> QED
  BY <1>1, <1>2, PTL DEF Spec

(* At most one caller of acquireLock holds the lease, for any processes,   *)
(* machines, crashes, reboots, reused pids and reused inodes.              *)
THEOREM MutualExclusionHolds == Spec => []MutualExclusion
<1>1. IInv => MutualExclusion
  BY DEF IInv, Protocol, OneLocker, MutualExclusion, Locking
<1> QED
  BY <1>1, ProtocolInvariant, PTL

(* A live holder's directory is never taken away or replaced.              *)
THEOREM LeaseIntactHolds == Spec => []LeaseIntact
<1>1. IInv => LeaseIntact
  BY DEF IInv, Protocol, LockerFindsLock, NeverLost, LeaseIntact
<1> QED
  BY <1>1, ProtocolInvariant, PTL

(* quarantineLock renames the directory that was checked, and nobody's.    *)
THEOREM RecoveryCheckStaysTrue == Spec => []RecoveryCheckHolds
<1>1. IInv => RecoveryCheckHolds
  BY DEF IInv, Protocol, RecheckHolds, RecoveryCheckHolds
<1> QED
  BY <1>1, ProtocolInvariant, PTL
-----------------------------------------------------------------------------
(* The lock implements Lease.tla                                           *)

HeldBy(p) == pc[p] = "held"

(* What the mapped lease is, in each situation the invariant allows.       *)
LEMMA LeaseValue ==
  IInv =>
    /\ \A p \in Procs : HeldBy(p) => lease = p
    /\ (\A p \in Procs : ~HeldBy(p)) =>
         lease = IF lock # NoEntry /\ \A p \in Procs : pc[p] \notin Locking
                   THEN "orphaned" ELSE "free"
BY DEF IInv, Protocol, OneLocker, Locking, lease, HeldBy

(* The value of the lease, read off the processes.                        *)
LEMMA LeaseValueNext ==
  IInv' =>
    /\ \A p \in Procs : HeldBy(p)' => lease' = p
    /\ (\A p \in Procs : ~HeldBy(p)') =>
         lease' = IF lock' # NoEntry /\ \A p \in Procs : pc'[p] \notin Locking
                    THEN "orphaned" ELSE "free"
BY DEF IInv, Protocol, OneLocker, Locking, lease, HeldBy

(* A step that takes nobody into or out of a lease, or into or out of the  *)
(* lock directory, and leaves the path occupied or free, is a stutter.     *)
LEMMA LeaseStutters ==
  ASSUME IInv, IInv', lock = NoEntry <=> lock' = NoEntry,
         \A p \in Procs : /\ HeldBy(p) <=> HeldBy(p)'
                          /\ pc[p] \in Locking <=> pc'[p] \in Locking
  PROVE  lease' = lease
<1>1. CASE \E p \in Procs : HeldBy(p)
  BY <1>1, LeaseValue, LeaseValueNext
<1>2. CASE \A p \in Procs : ~HeldBy(p)
  BY <1>2, LeaseValue, LeaseValueNext
<1> QED
  BY <1>1, <1>2

(* Every step of the lock is a step of the lease, or leaves it.           *)
LEMMA LeaseStep == IInv /\ IInv' /\ [Next]_vars => [L!Next]_lease
<1> SUFFICES ASSUME IInv, IInv', [Next]_vars PROVE L!Next \/ lease' = lease
  OBVIOUS
<1> USE DEF HeldBy, Locking
<1> DEFINE Still == /\ lock = NoEntry <=> lock' = NoEntry
                   /\ \A q \in Procs : /\ HeldBy(q) <=> HeldBy(q)'
                                       /\ pc[q] \in Locking <=> pc'[q] \in Locking
<1>s. Still => lease' = lease
  BY LeaseStutters
<1>t. TypeOK /\ LockerFindsLock /\ OneLocker /\ NeverLost
  BY DEF IInv, Protocol
<1>n. TypeOK' /\ NeverLost' /\ LockerFindsLock'
  BY DEF IInv, Protocol
<1>1. ASSUME NEW p \in Procs, Attempt(p) PROVE Still
  BY <1>1, <1>t, <1>n DEF Attempt, Goto, Finish, TypeOK
<1>2. ASSUME NEW p \in Procs, Probe(p) PROVE Still
  BY <1>2, <1>t, <1>n DEF Probe, Goto, Finish, TypeOK
<1>3. ASSUME NEW p \in Procs, MakeLockVanished(p) PROVE Still
  BY <1>3, <1>t, <1>n DEF MakeLockVanished, Goto, Finish, TypeOK
<1>4. ASSUME NEW p \in Procs, WriteOwner(p) PROVE lease' = lease
  <2>1. /\ NonceDrawn /\ lock \in Entry /\ lock' = [lock EXCEPT !.owner = CurrentOwner(p)]
        /\ pc[p] = "write" /\ pc' = [pc EXCEPT ![p] = "readBack"]
    BY <1>4, <1>t DEF WriteOwner, Goto, LockerFindsLock, TypeOK
  <2>2. lock # NoEntry /\ lock' # NoEntry
    BY <1>4, <1>t, <2>1, OwnerIsTyped, WrittenIsRecord DEF LockerFindsLock
  <2>3. /\ lock = NoEntry <=> lock' = NoEntry
        /\ \A q \in Procs : /\ HeldBy(q) <=> HeldBy(q)'
                            /\ pc[q] \in Locking <=> pc'[q] \in Locking
    BY <2>1, <2>2, <1>t DEF TypeOK
  <2> QED
    BY <2>3, LeaseStutters
<1>5. ASSUME NEW p \in Procs, ReadBack(p) PROVE Still
  BY <1>5, <1>t, <1>n DEF ReadBack, Goto, Finish, NeverLost, TypeOK
<1>6. ASSUME NEW p \in Procs, AssertLock(p) PROVE Still
  BY <1>6, <1>t, <1>n DEF AssertLock, Goto, Finish, TypeOK, Unchanged, NeverLost
<1>7. ASSUME NEW p \in Procs, UnlinkOwner(p) PROVE lease' = lease
  <2>1. /\ lock \in Entry /\ lock # NoEntry /\ lock' = [lock EXCEPT !.owner = NoOwner]
        /\ pc[p] = "unlink" /\ pc' = [pc EXCEPT ![p] = "rmdir"]
    BY <1>7, <1>t, <1>n DEF UnlinkOwner, Goto, LockerFindsLock, NeverLost, TypeOK, Unchanged
  <2>2. lock' # NoEntry
    BY <2>1, ClearedIsEntry
  <2>3. \A q \in Procs : /\ HeldBy(q) <=> HeldBy(q)'
                        /\ pc[q] \in Locking <=> pc'[q] \in Locking
    BY <2>1, <1>t DEF TypeOK
  <2> QED
    BY <2>1, <2>2, <2>3, LeaseStutters
<1>8. ASSUME NEW p \in Procs, InspectDirectory(p) PROVE Still
  BY <1>8, <1>t, <1>n DEF InspectDirectory, Goto, Finish, TypeOK
<1>9. ASSUME NEW p \in Procs, InspectFile(p) PROVE Still
  BY <1>9, <1>t, <1>n DEF InspectFile, Goto, Finish, TypeOK
<1>10. ASSUME NEW p \in Procs, InspectOwner(p) PROVE Still
  BY <1>10, <1>t, <1>n DEF InspectOwner, Goto, Finish, TypeOK
<1>11. ASSUME NEW p \in Procs, MakeClaim(p) PROVE Still
  BY <1>11, <1>t, <1>n DEF MakeClaim, Goto, Finish, TypeOK
<1>12. ASSUME NEW p \in Procs, WriteClaim(p) PROVE Still
  BY <1>12, <1>t, <1>n DEF WriteClaim, Goto, Finish, NeverLost, TypeOK
<1>13. ASSUME NEW p \in Procs, ReadBackClaim(p) PROVE Still
  BY <1>13, <1>t, <1>n DEF ReadBackClaim, Goto, Finish, NeverLost, TypeOK
<1>14. ASSUME NEW p \in Procs, Recheck(p) PROVE Still
  BY <1>14, <1>t, <1>n DEF Recheck, Goto, Finish, TypeOK, Unchanged
<1>15. ASSUME NEW p \in Procs, RecheckOwner(p) PROVE Still
  BY <1>15, <1>t, <1>n DEF RecheckOwner, Goto, Finish, TypeOK
<1>16. ASSUME NEW p \in Procs, Verify(p) PROVE Still
  BY <1>16, <1>t, <1>n DEF Verify, Goto, Finish, TypeOK, SameDirectory
<1>17. ASSUME NEW p \in Procs, AssertClaim(p) PROVE Still
  BY <1>17, <1>t, <1>n DEF AssertClaim, Goto, Finish, NeverLost, TypeOK, Unchanged
<1>18. ASSUME NEW p \in Procs, UnlinkClaim(p) PROVE Still
  BY <1>18, <1>t, <1>n DEF UnlinkClaim, Goto, Finish, NeverLost, TypeOK, Unchanged
<1>19. ASSUME NEW p \in Procs, RemoveClaim(p) PROVE Still
  BY <1>19, <1>t, <1>n DEF RemoveClaim, Goto, Finish, NeverLost, TypeOK, SameDirectory
<1>20. ASSUME NEW p \in Procs, Restart(p) PROVE Still
  BY <1>20, <1>t, <1>n DEF Restart, Goto, Finish, TypeOK, Dead
<1>21. ASSUME NEW p \in Procs, MakeLock(p) PROVE lease' = lease
  <2>1. CASE lock = NoEntry
    <3>1. lock' # NoEntry /\ pc'[p] = "write" /\ \A q \in Procs \ {p} : pc'[q] = pc[q]
      BY <1>21, <2>1, <1>n, <1>t DEF MakeLock, Goto, TypeOK, LockerFindsLock
    <3>2. \A q \in Procs : ~HeldBy(q) /\ ~HeldBy(q)'
      BY <2>1, <1>t, <3>1 DEF LockerFindsLock
    <3> QED
      BY <2>1, <3>1, <3>2, LeaseValue, LeaseValueNext
  <2>2. CASE lock # NoEntry
    <3>1. /\ lock = NoEntry <=> lock' = NoEntry
          /\ \A q \in Procs : /\ HeldBy(q) <=> HeldBy(q)'
                              /\ pc[q] \in Locking <=> pc'[q] \in Locking
      BY <1>21, <2>2, <1>t DEF MakeLock, Goto, Finish, TypeOK
    <3> QED
      BY <3>1, LeaseStutters
  <2> QED
    BY <2>1, <2>2
<1>22. ASSUME NEW p \in Procs, Confirm(p) PROVE L!Acquire(p) \/ lease' = lease
  <2>1. CASE claim = NoEntry
    <3>1. HeldBy(p)' /\ lock # NoEntry /\ \A q \in Procs : ~HeldBy(q)
      BY <1>22, <2>1, <1>t DEF Confirm, Goto, TypeOK, OneLocker, LockerFindsLock
    <3>2. lease = "free" /\ lease' = p
      BY <1>22, <3>1, LeaseValue, LeaseValueNext DEF Confirm
    <3> QED
      BY <3>2 DEF L!Acquire
  <2>2. CASE claim # NoEntry
    <3>1. /\ lock = NoEntry <=> lock' = NoEntry
          /\ \A q \in Procs : /\ HeldBy(q) <=> HeldBy(q)'
                              /\ pc[q] \in Locking <=> pc'[q] \in Locking
      BY <1>22, <2>2, <1>t DEF Confirm, Goto, TypeOK
    <3> QED
      BY <3>1, LeaseStutters
  <2> QED
    BY <2>1, <2>2
<1>23. ASSUME NEW p \in Procs, EndUse(p) PROVE L!Release(p)
  <2>1. HeldBy(p) /\ pc'[p] = "release" /\ \A q \in Procs : ~HeldBy(q)'
    BY <1>23, <1>t DEF EndUse, Goto, TypeOK, OneLocker
  <2>2. lease = p /\ lease' = "free"
    BY <2>1, LeaseValue, LeaseValueNext
  <2> QED
    BY <2>2 DEF L!Release
<1>24. ASSUME NEW p \in Procs, RemoveLock(p) PROVE lease' = lease
  <2>1. /\ pc[p] = "rmdir" /\ lock # NoEntry /\ lock' = NoEntry
        /\ \A q \in Procs : ~HeldBy(q) /\ ~HeldBy(q)'
    BY <1>24, <1>t, <1>n DEF RemoveLock, SameDirectory, Goto, Finish, TypeOK, OneLocker,
       LockerFindsLock, NeverLost
  <2> QED
    BY <2>1, LeaseValue, LeaseValueNext
<1>25. ASSUME NEW p \in Procs, Quarantine(p) PROVE L!Recover
  <2>1. RecheckHolds
    BY DEF IInv, Protocol
  <2>2. /\ lock # NoEntry /\ lock' = NoEntry
        /\ \A q \in Procs : pc[q] \notin Locking /\ ~HeldBy(q) /\ ~HeldBy(q)'
    BY <1>25, <1>t, <2>1, NoEntryNoRecord DEF Quarantine, RecheckHolds, Goto, TypeOK, Claiming
  <2>3. lease = "orphaned" /\ lease' = "free"
    BY <2>2, LeaseValue, LeaseValueNext
  <2> QED
    BY <2>3 DEF L!Recover
<1>26. ASSUME NEW p \in Procs, Crash(p) PROVE L!Orphan \/ lease' = lease
  <2>1. pc'[p] = "dead" /\ lock' = lock /\ \A q \in Procs \ {p} : pc'[q] = pc[q]
    BY <1>26, <1>t DEF Crash, Finish, TypeOK
  <2>2. CASE pc[p] \in Locking
    <3>1. lock # NoEntry /\ \A q \in Procs : pc'[q] \notin Locking
      BY <2>1, <2>2, <1>t DEF OneLocker, LockerFindsLock
    <3>2. lease' = "orphaned"
      BY <2>1, <3>1, LeaseValueNext
    <3> QED
      BY <3>2 DEF L!Orphan
  <2>3. CASE pc[p] \notin Locking
    <3>1. \A q \in Procs : /\ HeldBy(q) <=> HeldBy(q)'
                           /\ pc[q] \in Locking <=> pc'[q] \in Locking
      BY <2>1, <2>3
    <3> QED
      BY <2>1, <3>1, LeaseStutters
  <2> QED
    BY <2>2, <2>3
<1>27. ASSUME NEW h \in Hosts, Reboot(h) PROVE L!Orphan \/ lease' = lease
  <2>1. lock' = lock /\ \A q \in Procs : pc'[q] = IF HostOf[q] = h THEN "dead" ELSE pc[q]
    BY <1>27 DEF Reboot, Wiped
  <2>2. CASE \E p \in Procs : pc[p] \in Locking /\ HostOf[p] = h
    <3>1. lock # NoEntry /\ \A q \in Procs : pc'[q] \notin Locking
      BY <2>1, <2>2, <1>t DEF OneLocker, LockerFindsLock
    <3>2. lease' = "orphaned"
      BY <2>1, <3>1, LeaseValueNext
    <3> QED
      BY <3>2 DEF L!Orphan
  <2>3. CASE \A p \in Procs : pc[p] \in Locking => HostOf[p] # h
    <3>1. \A q \in Procs : /\ HeldBy(q) <=> HeldBy(q)'
                           /\ pc[q] \in Locking <=> pc'[q] \in Locking
      BY <2>1, <2>3
    <3> QED
      BY <2>1, <3>1, LeaseStutters
  <2> QED
    BY <2>2, <2>3
<1>28. CASE UNCHANGED vars
  BY <1>28, LeaseStutters DEF vars
<1> HIDE DEF Still
<1> QED
  BY <1>s, <1>1, <1>2, <1>3, <1>4, <1>5, <1>6, <1>7, <1>8, <1>9, <1>10, <1>11, <1>12, <1>13,
     <1>14, <1>15, <1>16, <1>17, <1>18, <1>19, <1>20, <1>21, <1>22, <1>23, <1>24, <1>25,
     <1>26, <1>27, <1>28 DEF Next, Step, L!Next

(* lock.ts implements the lease: an acquired lease was free, and a lease   *)
(* orphaned by a crash is taken away by a recovery before anybody gets it. *)
THEOREM LockImplementsLease == Spec => ImplementsLease
<1>1. Init => L!Init
  BY DEF Init, L!Init, lease
<1>2. IInv /\ IInv' /\ [Next]_vars => [L!Next]_lease
  BY LeaseStep
<1> QED
  BY <1>1, <1>2, ProtocolInvariant, PTL DEF Spec, ImplementsLease, L!Spec

(* Only the owner's rmdir or a recovery under the claim frees the path.    *)
THEOREM OnlyOwnerOrRecoverer == Spec => OnlyOwnerOrRecovererRemoves
<1>1. IInv /\ [Next]_vars =>
        [lock # NoEntry /\ lock' = NoEntry =>
           \E p \in Procs :
             \/ pc[p] = "rmdir" /\ lock.ino = record[p].ino
             \/ /\ pc[p] = "rename" /\ claim = claimRecord[p]
                /\ HostOf[lock.owner.pid] = HostOf[p]
                /\ pc[lock.owner.pid] \notin Locking]_vars
  <2> SUFFICES ASSUME IInv, [Next]_vars, lock # NoEntry, lock' = NoEntry
               PROVE  \E p \in Procs :
                        \/ pc[p] = "rmdir" /\ lock.ino = record[p].ino
                        \/ /\ pc[p] = "rename" /\ claim = claimRecord[p]
                           /\ HostOf[lock.owner.pid] = HostOf[p]
                           /\ pc[lock.owner.pid] \notin Locking
    OBVIOUS
  <2>t. TypeOK /\ LockerFindsLock /\ lock \in Entry
    BY DEF IInv, Protocol, TypeOK
  <2>1. PICK p \in Procs : RemoveLock(p) \/ Quarantine(p)
    <3>1. ASSUME NEW p \in Procs, WriteOwner(p) PROVE FALSE
      <4>1. NonceDrawn /\ lock' = [lock EXCEPT !.owner = CurrentOwner(p)]
        BY <3>1 DEF WriteOwner
      <4> QED
        BY <2>t, <4>1, OwnerIsTyped, WrittenIsRecord
    <3>2. ASSUME NEW p \in Procs, UnlinkOwner(p) PROVE FALSE
      <4>1. lock' = [lock EXCEPT !.owner = NoOwner] \/ lock' = lock
        BY <3>2 DEF UnlinkOwner
      <4> QED
        BY <2>t, <4>1, ClearedIsEntry
    <3>3. \A p \in Procs : ~MakeLock(p)
      BY DEF MakeLock
    <3>5. \A h \in Hosts : ~Reboot(h)
      BY DEF Reboot
    <3>6. lock' # lock
      OBVIOUS
    <3> QED
      BY <3>1, <3>2, <3>3, <3>5, <3>6
         DEF Next, Step, vars, Attempt, Probe, MakeLockVanished, ReadBack, Confirm, EndUse,
             AssertLock, InspectDirectory, InspectFile, InspectOwner, MakeClaim, WriteClaim,
             ReadBackClaim, Recheck, RecheckOwner, Verify, AssertClaim, UnlinkClaim,
             RemoveClaim, Crash, Restart
  <2>2. CASE RemoveLock(p)
    BY <2>2 DEF RemoveLock, SameDirectory
  <2>3. CASE Quarantine(p)
    <3>1. pc[p] = "rename"
      BY <2>3 DEF Quarantine
    <3>2. claim = claimRecord[p]
      BY <3>1 DEF IInv, Protocol, ClaimerFindsClaim
    <3>3. lock = candidate[p] /\ \A q \in Procs : pc[q] \notin Locking
      BY <3>1 DEF IInv, Protocol, RecheckHolds
    <3>4. HostOf[candidate[p].owner.pid] = HostOf[p]
      BY <3>1 DEF IInv, Protocol, CandidateIsLocal, Claiming
    <3>5. candidate[p] \in Record
      BY <3>1, <2>t DEF TypeOK, Claiming
    <3>6. candidate[p].owner.pid \in Procs
      BY <3>5 DEF Record, Owner
    <3> QED
      BY <3>1, <3>2, <3>3, <3>4, <3>6
  <2> QED
    BY <2>1, <2>2, <2>3
<1> QED
  BY <1>1, ProtocolInvariant, PTL DEF Spec, OnlyOwnerOrRecovererRemoves
=============================================================================

--------------------------- MODULE ApprovalProofs ---------------------------
(* Proofs about Approval, for any number of calls, grants, mutations,      *)
(* starts and faults.                                                      *)
EXTENDS Approval, FiniteSetTheorems, TLAPS

(* The types of what TypeOK leaves open.                                   *)
Ahead   == {"lockSettings", "readSettings", "writeSettings", "revokeRun",
            "status", "lineage", "lockProject", "evaluate"}
Stages  == Ahead \cup {"idle", "saveCandidate", "saveRecord", "prepare", "authorize",
                       "replace", "unlockGuard", "finalize"}
Call    == [pc : Stages, op : {"none", "grant", "revoke", "forget", "revokeRun", "commit", "apply"},
            m : Mutations \cup {None}, g : Grants \cup {None}, next : Revisions, mode : Modes,
            draft : Settings \cup {None}]
Journal == [next : Revisions, marker : BOOLEAN]

Types ==
  /\ settings \in Settings
  /\ runs \in [Runs -> TrustGrant \cup {None}]
  /\ issued \in [Grants -> Generations]
  /\ locks \in [Locks -> Calls \cup {None}]
  /\ source \in Revisions /\ drawn \in Revisions /\ source <= drawn
  /\ requests \in [Mutations -> Request \cup {None}]
  /\ proposals \in [Mutations -> Proposal]
  /\ journals \in [Mutations -> Journal]
  /\ calls \in [Calls -> Call]
  /\ starts \in 0..MaxStarts /\ faults \in 0..MaxFaults

(* What a call works on: a settings operation on a grant, a commit on a    *)
(* request under a grant that was handed out, an approval on a proposal.   *)
Settles(c) == calls[c].pc \in {"lockSettings", "readSettings", "writeSettings"}
Commits(c) == calls[c].pc \notin {"idle", "lockSettings", "readSettings", "writeSettings", "revokeRun"}
Subject(c) ==
  /\ Settles(c) => calls[c].op \in {"grant", "revoke", "forget"}
  /\ Settles(c) /\ calls[c].op # "forget" => calls[c].g \in Remembered
  /\ Settles(c) /\ calls[c].op = "grant" => issued[calls[c].g] = 0
  /\ Settles(c) /\ calls[c].op = "revoke" => issued[calls[c].g] # 0
  /\ At(c, "revokeRun") => calls[c].g \in Runs /\ runs[calls[c].g] # None
  /\ Commits(c) => /\ calls[c].op \in {"commit", "apply"}
                   /\ calls[c].m \in Mutations /\ requests[calls[c].m] # None
                   /\ calls[c].g \in Grants /\ issued[calls[c].g] # 0
                   /\ calls[c].op = "apply" => Stored(calls[c].m)

(* A grant is made by one call: it gets its id from randomUUID().          *)
GrantsApart ==
  \A c, d \in Calls :
    Settles(c) /\ Settles(d) /\ calls[c].op = "grant" /\ calls[d].op = "grant"
      /\ calls[c].g = calls[d].g => c = d

(* Which locks a call holds: exactly those of the stage it is in.          *)
Holds(c, l) ==
  \/ l = "project" /\ calls[c].pc \in HeldAt("project")
  \/ l = "settings" /\ calls[c].pc \in {"readSettings", "writeSettings"}
  \/ l = Guard(calls[c].g) /\ calls[c].pc \in {"replace", "unlockGuard"}
LocksHeld == \A c \in Calls, l \in Locks : locks[l] = c <=> Holds(c, l)

(* Every revision and every generation was drawn by a call that was        *)
(* started for it: those that have still to draw fit into the bound.       *)
Drawing == {c \in Calls : calls[c].pc \in Ahead}
Budget ==
  /\ drawn + Cardinality(Drawing) <= starts
  /\ settings.generation + Cardinality(Drawing) <= starts + 1
  /\ \A g \in Runs : runs[g] # None => runs[g].generation + Cardinality(Drawing) <= starts + 1

(* What is about to be renamed is settings.json as it is, changed.         *)
DraftIsCurrent ==
  \A c \in Calls : At(c, "writeSettings") =>
    /\ calls[c].draft = settings
    /\ calls[c].op = "revoke" => settings.grants[calls[c].g] # None

AtMostOneLive ==
  \A g, h \in Remembered :
    /\ settings.grants[g] # None /\ ~settings.grants[g].revoked
    /\ settings.grants[h] # None /\ ~settings.grants[h].revoked
    => g = h

(* No revision is in use before it is drawn.                               *)
Drawn == /\ \A c \in Calls : calls[c].next <= drawn
         /\ \A m \in Mutations : proposals[m].next <= drawn

(* A stored proposal was made for the request of its mutation.             *)
ProposalsFit ==
  \A m \in Mutations : Stored(m) => requests[m] # None /\ proposals[m].base = requests[m].base

(* A candidate between its evaluation and the replacement of the source.   *)
Candidate(c) ==
  LET m == calls[c].m
  IN /\ At(c, "saveCandidate") \/ At(c, "saveRecord") => ~Stored(m)
     /\ calls[c].pc \in {"prepare", "authorize", "replace"} =>
          /\ source = requests[m].base
          /\ Stored(m) => calls[c].next = proposals[m].next
          /\ calls[c].op = "commit" /\ GrantOf(calls[c].g) # None =>
               GrantOf(calls[c].g).mode # "review-each-change"
     /\ At(c, "replace") => Check(calls[c].g)

IInv ==
  /\ Types /\ (\A c \in Calls : Subject(c)) /\ GrantsApart /\ LocksHeld /\ Budget /\ DraftIsCurrent
  /\ AtMostOneLive /\ Drawn /\ ProposalsFit /\ (\A c \in Calls : Candidate(c))
-----------------------------------------------------------------------------
(* Types                                                                   *)

LEMMA TypesOfRecords ==
  /\ Idle \in Call
  /\ \A call \in Call, pc \in Stages : [call EXCEPT !.pc = pc] \in Call
  /\ \A grant \in TrustGrant, n \in Generations : Tombstone(grant, n) \in TrustGrant
  /\ \A g \in Grants : Guard(g) \in Locks
<1>1. Idle \in Call
  BY SizesAssumption DEF Idle, Call, Stages, Modes, Revisions
<1>2. ASSUME NEW call \in Call, NEW pc \in Stages PROVE [call EXCEPT !.pc = pc] \in Call
  BY DEF Call
<1>3. ASSUME NEW grant \in TrustGrant, NEW n \in Generations PROVE Tombstone(grant, n) \in TrustGrant
  BY DEF Tombstone, TrustGrant
<1>4. \A g \in Grants : Guard(g) \in Locks
  BY DEF Grants, Guard, Locks
<1> QED
  BY <1>1, <1>2, <1>3, <1>4

(* The call c does one step, and no other call is disturbed.               *)
Moves(c) == \E call \in Call : calls' = [calls EXCEPT ![c] = call]

LEMMA IdleFields ==
  /\ Idle \in Call /\ Idle.pc = "idle" /\ Idle.op = "none" /\ Idle.m = None /\ Idle.g = None
  /\ Idle.next = 0
<1>1. /\ Idle.pc = "idle" /\ Idle.op = "none" /\ Idle.m = None /\ Idle.g = None
      /\ Idle.next = 0
  BY DEF Idle
<1> QED
  BY <1>1, TypesOfRecords

LEMMA Goes ==
  ASSUME calls \in [Calls -> Call], NEW c \in Calls, NEW pc \in Stages, Goto(c, pc)
  PROVE  /\ Moves(c)
         /\ calls'[c].pc = pc
         /\ calls'[c].op = calls[c].op /\ calls'[c].m = calls[c].m /\ calls'[c].g = calls[c].g
         /\ calls'[c].next = calls[c].next /\ calls'[c].draft = calls[c].draft
<1>1. [calls[c] EXCEPT !.pc = pc] \in Call
  BY TypesOfRecords
<1>2. calls' = [calls EXCEPT ![c] = [calls[c] EXCEPT !.pc = pc]]
  BY DEF Goto
<1> QED
  BY <1>1, <1>2 DEF Moves, Call

LEMMA Ends ==
  ASSUME calls \in [Calls -> Call], NEW c \in Calls, End(c)
  PROVE  Moves(c) /\ calls'[c] = Idle
BY TypesOfRecords DEF Moves, End

LEMMA Stays ==
  ASSUME calls \in [Calls -> Call], NEW c \in Calls, Moves(c)
  PROVE  calls' \in [Calls -> Call] /\ \A d \in Calls : d # c => calls'[d] = calls[d]
BY DEF Moves

(* A call as it is when it has just been started.                          *)
Started(c, pc, op, m, g) ==
  /\ Moves(c) /\ At(c, "idle")
  /\ starts' = starts + 1 /\ starts' \in 0..MaxStarts
  /\ calls'[c].pc = pc /\ calls'[c].op = op /\ calls'[c].m = m /\ calls'[c].g = g
  /\ calls'[c].next = 0

LEMMA Starts ==
  ASSUME calls \in [Calls -> Call], starts \in 0..MaxStarts, NEW c \in Calls, NEW call \in Call,
         Start(c, call), call.next = 0
  PROVE  Started(c, call.pc, call.op, call.m, call.g)
<1>1. calls' = [calls EXCEPT ![c] = call] /\ At(c, "idle") /\ starts' = starts + 1 /\ starts < MaxStarts
  BY DEF Start
<1>2. Moves(c) /\ calls'[c] = call
  BY <1>1 DEF Moves
<1>3. starts' \in 0..MaxStarts
  BY <1>1, SizesAssumption
<1> QED
  BY <1>1, <1>2, <1>3 DEF Started

LEMMA StartsSettles ==
  ASSUME calls \in [Calls -> Call], starts \in 0..MaxStarts, NEW c \in Calls
  PROVE  /\ \A g \in Remembered, mode \in Modes :
              StartGrant(c, g, mode) => Started(c, "lockSettings", "grant", None, g)
         /\ \A g \in Remembered : StartRevoke(c, g) => Started(c, "lockSettings", "revoke", None, g)
         /\ StartForget(c) => Started(c, "lockSettings", "forget", None, None)
<1>1. ASSUME NEW g \in Remembered, NEW mode \in Modes, StartGrant(c, g, mode)
      PROVE  Started(c, "lockSettings", "grant", None, g)
  <2> DEFINE call == [Idle EXCEPT !.pc = "lockSettings", !.op = "grant", !.g = g, !.mode = mode]
  <2>1. /\ call \in Call /\ call.next = 0
        /\ call.pc = "lockSettings" /\ call.op = "grant" /\ call.m = None /\ call.g = g
    BY IdleFields DEF Call, Stages, Ahead, Grants
  <2>2. Start(c, call)
    BY <1>1 DEF StartGrant
  <2> QED
    BY <2>1, <2>2, Starts
<1>2. ASSUME NEW g \in Remembered, StartRevoke(c, g)
      PROVE  Started(c, "lockSettings", "revoke", None, g)
  <2> DEFINE call == [Idle EXCEPT !.pc = "lockSettings", !.op = "revoke", !.g = g]
  <2>1. /\ call \in Call /\ call.next = 0
        /\ call.pc = "lockSettings" /\ call.op = "revoke" /\ call.m = None /\ call.g = g
    BY IdleFields DEF Call, Stages, Ahead, Grants
  <2>2. Start(c, call)
    BY <1>2 DEF StartRevoke
  <2> QED
    BY <2>1, <2>2, Starts
<1>3. ASSUME StartForget(c)
      PROVE  Started(c, "lockSettings", "forget", None, None)
  <2> DEFINE call == [Idle EXCEPT !.pc = "lockSettings", !.op = "forget"]
  <2>1. /\ call \in Call /\ call.next = 0
        /\ call.pc = "lockSettings" /\ call.op = "forget" /\ call.m = None /\ call.g = None
    BY IdleFields DEF Call, Stages, Ahead
  <2>2. Start(c, call)
    BY <1>3 DEF StartForget
  <2> QED
    BY <2>1, <2>2, Starts
<1> QED
  BY <1>1, <1>2, <1>3

LEMMA StartsOthers ==
  ASSUME calls \in [Calls -> Call], starts \in 0..MaxStarts, NEW c \in Calls
  PROVE  /\ \A g \in Runs : StartRevokeRun(c, g) => Started(c, "revokeRun", "revokeRun", None, g)
         /\ \A m \in Mutations, g \in Grants, s \in Mutations \cup {None} :
              StartCommit(c, m, g, s) => Started(c, "lockProject", "commit", m, g)
         /\ \A m \in Mutations, g \in Grants : StartApply(c, m, g) => Started(c, "status", "apply", m, g)
<1>1. ASSUME NEW g \in Runs, StartRevokeRun(c, g)
      PROVE  Started(c, "revokeRun", "revokeRun", None, g)
  <2> DEFINE call == [Idle EXCEPT !.pc = "revokeRun", !.op = "revokeRun", !.g = g]
  <2>1. /\ call \in Call /\ call.next = 0
        /\ call.pc = "revokeRun" /\ call.op = "revokeRun" /\ call.m = None /\ call.g = g
    BY IdleFields DEF Call, Stages, Ahead, Grants
  <2>2. Start(c, call)
    BY <1>1 DEF StartRevokeRun
  <2> QED
    BY <2>1, <2>2, Starts
<1>2. ASSUME NEW m \in Mutations, NEW g \in Grants, NEW s \in Mutations \cup {None}, StartCommit(c, m, g, s)
      PROVE  Started(c, "lockProject", "commit", m, g)
  <2> DEFINE call == [Idle EXCEPT !.pc = "lockProject", !.op = "commit", !.m = m, !.g = g]
  <2>1. /\ call \in Call /\ call.next = 0
        /\ call.pc = "lockProject" /\ call.op = "commit" /\ call.m = m /\ call.g = g
    BY IdleFields DEF Call, Stages, Ahead
  <2>2. Start(c, call)
    BY <1>2 DEF StartCommit
  <2> QED
    BY <2>1, <2>2, Starts
<1>3. ASSUME NEW m \in Mutations, NEW g \in Grants, StartApply(c, m, g)
      PROVE  Started(c, "status", "apply", m, g)
  <2> DEFINE call == [Idle EXCEPT !.pc = "status", !.op = "apply", !.m = m, !.g = g]
  <2>1. /\ call \in Call /\ call.next = 0
        /\ call.pc = "status" /\ call.op = "apply" /\ call.m = m /\ call.g = g
    BY IdleFields DEF Call, Stages, Ahead
  <2>2. Start(c, call)
    BY <1>3 DEF StartApply
  <2> QED
    BY <2>1, <2>2, Starts
<1> QED
  BY <1>1, <1>2, <1>3
-----------------------------------------------------------------------------
(* Who changes what                                                        *)

(* However a call ends early, it gives back its locks, and only its own    *)
(* proposal may be left half written.                                      *)
Fails(c) ==
  /\ End(c)
  /\ Damage(c)
  /\ locks' = [l \in Locks |-> IF locks[l] = c THEN None ELSE locks[l]]
  /\ faults' = faults \/ (faults' = faults + 1 /\ faults < MaxFaults)
  /\ UNCHANGED <<trust, source, drawn, requests, journals, starts>>

LEMMA Failures ==
  ASSUME NEW c \in Calls,
         \/ RevokeVanished(c) \/ RefuseLineage(c) \/ EvaluateEnds(c) \/ PendingDiff(c)
         \/ EvaluateDenied(c) \/ Deny(c) \/ TimedOut(c) \/ IOError(c)
  PROVE  Fails(c)
<1>1. CASE Throw(c)
  BY <1>1 DEF Throw, Fails, Damage, files
<1>2. CASE IOError(c)
  BY <1>2 DEF IOError, Fails
<1> QED
  BY <1>1, <1>2 DEF RevokeVanished, RefuseLineage, EvaluateEnds, PendingDiff, EvaluateDenied, Deny, TimedOut

(* Every step of a call, failures taken together.                          *)
Goes1(c) ==
  \/ LockSettings(c) \/ ReadSettings(c) \/ ReadStatus(c) \/ Lineage(c) \/ LockProject(c)
  \/ SaveCandidate(c) \/ Prepare(c) \/ Authorize(c) \/ Replace(c) \/ UnlockGuard(c)

LEMMA StepOf ==
  ASSUME NEW c \in Calls, Step(c) \/ TimedOut(c) \/ IOError(c)
  PROVE  \/ Goes1(c) \/ Fails(c) \/ Evaluate(c)
         \/ WriteSettings(c) \/ RevokeRun(c) \/ SaveRecord(c) \/ Finalize(c)
BY Failures DEF Step, Goes1

LEMMA BeginMoves ==
  ASSUME Types, NEW c \in Calls, Begin(c)
  PROVE  \E pc \in {"lockSettings", "revokeRun", "lockProject", "status"} : \E op, m, g :
           Started(c, pc, op, m, g)
BY StartsSettles, StartsOthers DEF Begin, Types

(* The calls that have still to draw a revision or a generation.           *)
LEMMA DrawingFinite ==
  /\ IsFiniteSet(Drawing) /\ Cardinality(Drawing) \in Nat
  /\ \A c \in Calls : calls[c].pc \in Ahead => Cardinality(Drawing) >= 1
<1>1. IsFiniteSet(Drawing) /\ Cardinality(Drawing) \in Nat
  BY FiniteAssumption, FS_Subset, FS_CardinalityType DEF Drawing
<1>2. ASSUME NEW c \in Calls, calls[c].pc \in Ahead PROVE Cardinality(Drawing) >= 1
  <2>1. c \in Drawing
    BY <1>2 DEF Drawing
  <2>2. Cardinality(Drawing) # 0
    BY <1>1, <2>1, FS_EmptySet
  <2> QED
    BY <1>1, <2>2
<1> QED
  BY <1>1, <1>2

(* A revision that is drawn is within the bound.                           *)
LEMMA DrawFits ==
  ASSUME IInv, NEW c \in Calls, Evaluate(c)
  PROVE  /\ RevisionFor(calls[c].m) \in Revisions
         /\ drawn' \in Revisions /\ drawn <= drawn' /\ drawn' <= drawn + 1
         /\ RevisionFor(calls[c].m) <= drawn'
<1> DEFINE m == calls[c].m
<1>1. At(c, "evaluate") /\ drawn' = IF RevisionFor(m) > drawn THEN drawn + 1 ELSE drawn
  BY DEF Evaluate
<1>2. m \in Mutations /\ proposals[m].next <= drawn /\ proposals[m].next \in Revisions
  BY <1>1 DEF IInv, Subject, Commits, At, Drawn, Types, Proposal
<1>3. drawn + Cardinality(Drawing) <= starts /\ drawn \in Nat /\ starts \in Nat /\ starts <= MaxStarts
  BY SizesAssumption DEF IInv, Budget, Types, Revisions
<1>4. drawn + 1 \in Revisions
  BY <1>1, <1>3, DrawingFinite, SizesAssumption DEF At, Ahead, Revisions
<1>5. RevisionFor(m) \in Revisions /\ RevisionFor(m) <= drawn + 1
  BY <1>2, <1>3, <1>4 DEF RevisionFor, Revisions
<1>6. drawn' \in Revisions /\ drawn <= drawn' /\ drawn' <= drawn + 1 /\ RevisionFor(m) <= drawn'
  <2> DEFINE r == RevisionFor(m)
  <2>1. r \in Revisions /\ r <= drawn + 1 /\ drawn' = IF r > drawn THEN drawn + 1 ELSE drawn
    BY <1>1, <1>5
  <2>2. drawn \in Revisions
    BY DEF IInv, Types
  <2> HIDE DEF r
  <2>3. drawn' \in Revisions /\ drawn <= drawn' /\ drawn' <= drawn + 1 /\ r <= drawn'
    BY <1>4, <2>1, <2>2, SizesAssumption DEF Revisions
  <2> QED
    BY <2>3 DEF r
<1> QED
  BY <1>5, <1>6

LEMMA Reads ==
  ASSUME Types, NEW c \in Calls, ReadSettings(c)
  PROVE  /\ Moves(c)
         /\ calls'[c].pc = "writeSettings" /\ calls'[c].draft = settings
         /\ calls'[c].op = calls[c].op /\ calls'[c].m = calls[c].m /\ calls'[c].g = calls[c].g
         /\ calls'[c].next = calls[c].next
<1> DEFINE call == [calls[c] EXCEPT !.pc = "writeSettings", !.draft = settings]
<1>1. calls' = [calls EXCEPT ![c] = call]
  BY DEF ReadSettings
<1>2. calls[c] \in Call /\ settings \in Settings
  BY DEF Types
<1>3. /\ call \in Call /\ call.pc = "writeSettings" /\ call.draft = settings
      /\ call.op = calls[c].op /\ call.m = calls[c].m /\ call.g = calls[c].g
      /\ call.next = calls[c].next
  BY <1>2 DEF Call, Stages, Ahead
<1> QED
  BY <1>1, <1>3 DEF Moves, Types

(* A candidate goes on to be stored or to be committed.                    *)
Drawn1(c, pc) ==
  /\ Moves(c)
  /\ calls'[c].pc = pc /\ calls'[c].next = RevisionFor(calls[c].m)
  /\ calls'[c].op = calls[c].op /\ calls'[c].m = calls[c].m /\ calls'[c].g = calls[c].g
  /\ UNCHANGED locks

Review(c) == GrantOf(calls[c].g).mode = "review-each-change" /\ calls[c].op # "apply"

LEMMA Evaluates ==
  ASSUME IInv, NEW c \in Calls, Evaluate(c)
  PROVE  \/ Review(c) /\ Stored(calls[c].m) /\ End(c) /\ Drop("project")
         \/ Review(c) /\ ~Stored(calls[c].m) /\ Drawn1(c, "saveCandidate")
         \/ ~Review(c) /\ Drawn1(c, "prepare")
<1> DEFINE m == calls[c].m
           Next1(pc) == [calls[c] EXCEPT !.next = RevisionFor(m), !.pc = pc]
<1>1. ASSUME NEW pc \in Stages, calls' = [calls EXCEPT ![c] = Next1(pc)], UNCHANGED locks PROVE Drawn1(c, pc)
  <2>1. calls[c] \in Call /\ RevisionFor(m) \in Revisions /\ calls \in [Calls -> Call]
    BY DrawFits DEF Types, IInv
  <2>2. /\ Next1(pc) \in Call /\ Next1(pc).pc = pc /\ Next1(pc).next = RevisionFor(m)
        /\ Next1(pc).op = calls[c].op /\ Next1(pc).m = m /\ Next1(pc).g = calls[c].g
    BY <2>1 DEF Call
  <2>3. calls'[c] = Next1(pc)
    BY <1>1, <2>1
  <2>4. Moves(c)
    BY <1>1, <2>2 DEF Moves
  <2> QED
    BY <1>1, <2>2, <2>3, <2>4 DEF Drawn1
<1>2. Evaluated(c, m)
  BY DEF Evaluate
<1>3. CASE Review(c) /\ Stored(m)
  BY <1>2, <1>3 DEF Evaluated, Review
<1>4. CASE Review(c) /\ ~Stored(m)
  BY <1>1, <1>2, <1>4 DEF Evaluated, Review, Stages
<1>5. CASE ~Review(c)
  BY <1>1, <1>2, <1>5 DEF Evaluated, Review, Stages
<1> QED
  BY <1>3, <1>4, <1>5

Works(c) == Begin(c) \/ Step(c) \/ TimedOut(c) \/ IOError(c)

LEMMA CallsMove ==
  ASSUME IInv, NEW c \in Calls, Works(c)
  PROVE  Moves(c)
<1>1. CASE Begin(c)
  BY <1>1, BeginMoves DEF Started, IInv
<1>2. CASE Goes1(c)
  <2>1. CASE ReadSettings(c)
    BY <2>1, Reads DEF IInv
  <2>2. ASSUME ~ReadSettings(c) PROVE \E pc \in Stages : Goto(c, pc)
    <3>1. PICK pc \in {"readSettings", "lockProject", "lineage", "evaluate", "saveRecord", "authorize",
                       "replace", "unlockGuard", "finalize"} : Goto(c, pc)
      BY <1>2, <2>2 DEF Goes1, LockSettings, ReadStatus, Lineage, LockProject, SaveCandidate, Prepare,
         Authorize, Replace, UnlockGuard
    <3> QED
      BY <3>1 DEF Stages, Ahead
  <2> QED
    BY <2>1, <2>2, Goes DEF IInv, Types
<1>3. CASE Evaluate(c)
  BY <1>3, Evaluates, Ends DEF Drawn1, IInv, Types
<1>4. CASE End(c)
  BY <1>4, Ends DEF IInv, Types
<1> QED
  BY <1>1, <1>2, <1>3, <1>4, StepOf DEF Works, Fails, WriteSettings, RevokeRun, SaveRecord, Finalize

-----------------------------------------------------------------------------
(* The types of the state after a step                                     *)

LEMMA MutatedTyped ==
  ASSUME IInv, NEW c \in Calls, At(c, "writeSettings")
  PROVE  [generation |-> calls[c].draft.generation + 1, grants |-> Mutated(calls[c])] \in Settings
<1> DEFINE generation == settings.generation + 1
           old == settings.grants
           new == Mutated(calls[c])
<1>1. calls[c].draft = settings /\ (calls[c].op = "revoke" => old[calls[c].g] # None)
  BY DEF IInv, DraftIsCurrent
<1>2. generation \in Generations
  <2>1. settings.generation \in Nat /\ starts \in Nat /\ starts <= MaxStarts
    BY SizesAssumption DEF IInv, Types, Settings, Generations
  <2>2. settings.generation + Cardinality(Drawing) <= starts + 1 /\ Cardinality(Drawing) >= 1
    BY DrawingFinite DEF IInv, Budget, At, Ahead
  <2> QED
    BY <2>1, <2>2, DrawingFinite, SizesAssumption DEF Generations
<1>3. old \in [Remembered -> TrustGrant \cup {None}]
  BY DEF IInv, Types, Settings
<1>4. /\ calls[c].op \in {"grant", "revoke", "forget"} /\ calls[c].mode \in Modes
      /\ calls[c].op # "forget" => calls[c].g \in Remembered
  BY DEF IInv, Subject, Settles, At, Types, Call
<1>5. ASSUME calls[c].op = "grant" PROVE new \in [Remembered -> TrustGrant \cup {None}]
  <2>1. new = [g \in Remembered |->
                IF g = calls[c].g THEN [generation |-> generation, mode |-> calls[c].mode, revoked |-> FALSE]
                ELSE IF old[g] # None /\ ~old[g].revoked THEN Tombstone(old[g], generation)
                ELSE old[g]]
    BY <1>1, <1>5 DEF Mutated
  <2>2. [generation |-> generation, mode |-> calls[c].mode, revoked |-> FALSE] \in TrustGrant
    BY <1>2, <1>4 DEF TrustGrant
  <2>3. \A g \in Remembered : old[g] # None => Tombstone(old[g], generation) \in TrustGrant
    BY <1>2, <1>3, TypesOfRecords
  <2> HIDE DEF new, generation, old
  <2> QED
    BY <1>3, <2>1, <2>2, <2>3
<1>6. ASSUME calls[c].op = "revoke" PROVE new \in [Remembered -> TrustGrant \cup {None}]
  <2>1. new = [old EXCEPT ![calls[c].g] = Tombstone(old[calls[c].g], generation)]
    BY <1>1, <1>6 DEF Mutated
  <2>2. Tombstone(old[calls[c].g], generation) \in TrustGrant
    BY <1>1, <1>2, <1>3, <1>4, <1>6, TypesOfRecords
  <2> HIDE DEF new, generation, old
  <2> QED
    BY <1>3, <2>1, <2>2
<1>7. ASSUME calls[c].op = "forget" PROVE new \in [Remembered -> TrustGrant \cup {None}]
  BY <1>7 DEF Mutated
<1>8. new \in [Remembered -> TrustGrant \cup {None}]
  BY <1>4, <1>5, <1>6, <1>7
<1> HIDE DEF new, generation
<1>9. [generation |-> generation, grants |-> new] \in Settings
  BY <1>2, <1>8 DEF Settings
<1> QED
  BY <1>1, <1>9 DEF new, generation

(* Beginning a call makes at most a request.                               *)
LEMMA BeginFrame ==
  ASSUME NEW c \in Calls, Begin(c)
  PROVE  /\ UNCHANGED <<settings, runs, issued, locks, source, drawn, proposals, journals, faults>>
         /\ \/ UNCHANGED requests
            \/ \E m \in Mutations, g \in Grants, s \in Mutations \cup {None} :
                 StartCommit(c, m, g, s) /\ requests[m] = None
                 /\ requests' = [requests EXCEPT ![m] = [base |-> source, supersedes |-> s]]
BY DEF Begin, StartRevoke, StartGrant, StartForget, StartRevokeRun, StartApply, StartCommit, trust, files

LEMMA NextCases ==
  ASSUME Next
  PROVE  \/ \E c \in Calls : Works(c)
         \/ \E g \in Runs, mode \in Modes : AuthorizeRun(g, mode)
         \/ Crash
BY DEF Next, Works

(* What becomes of a proposal whose writing is interrupted.                *)
LEMMA Damages ==
  ASSUME IInv, NEW c \in Calls, Damage(c)
  PROVE  /\ proposals' \in [Mutations -> Proposal]
         /\ \A m \in Mutations : /\ proposals'[m].next = proposals[m].next
                                 /\ proposals'[m].base = proposals[m].base
                                 /\ proposals'[m].state = "stored" <=> proposals[m].state = "stored"
<1>1. CASE UNCHANGED proposals
  BY <1>1 DEF IInv, Types
<1>2. ASSUME NEW rest \in Leftover(c), proposals' = [proposals EXCEPT ![calls[c].m].state = rest]
      PROVE  /\ proposals' \in [Mutations -> Proposal]
             /\ \A m \in Mutations : /\ proposals'[m].next = proposals[m].next
                                     /\ proposals'[m].base = proposals[m].base
                                     /\ proposals'[m].state = "stored" <=> proposals[m].state = "stored"
  <2> DEFINE m == calls[c].m
  <2>1. rest \in {"none", "candidate", "torn"} /\ calls[c].pc \in {"saveCandidate", "saveRecord"}
    BY DEF Leftover, At
  <2>2. m \in Mutations /\ ~Stored(m)
    BY <2>1 DEF IInv, Subject, Commits, Candidate, At
  <2>3. proposals \in [Mutations -> Proposal]
    BY DEF IInv, Types
  <2>4. [proposals[m] EXCEPT !.state = rest] \in Proposal
    BY <2>1, <2>2, <2>3 DEF Proposal
  <2>5. proposals' = [proposals EXCEPT ![m] = [proposals[m] EXCEPT !.state = rest]]
    BY <1>2
  <2>6. proposals' \in [Mutations -> Proposal]
    BY <2>3, <2>4, <2>5
  <2> QED
    BY <2>1, <2>2, <2>3, <2>5, <2>6 DEF Stored, Proposal
<1> QED
  BY <1>1, <1>2 DEF Damage

LEMMA TypesStep ==
  ASSUME IInv, Next
  PROVE  Types'
<1> USE DEF trust, files
<1>1. Types
  BY DEF IInv
<1>2. ASSUME NEW c \in Calls, Works(c) PROVE calls' \in [Calls -> Call]
  BY <1>1, <1>2, CallsMove, Stays DEF Types
<1>3. ASSUME NEW c \in Calls, Begin(c) PROVE Types'
  <2>1. calls' \in [Calls -> Call] /\ starts' \in 0..MaxStarts
    BY <1>1, <1>2, <1>3, BeginMoves DEF Works, Started
  <2>2. requests' \in [Mutations -> Request \cup {None}]
    BY <1>1, <1>3, BeginFrame DEF Types, Request
  <2> QED
    BY <1>1, <1>3, <2>1, <2>2, BeginFrame DEF Types
<1>4. ASSUME NEW c \in Calls, LockSettings(c) \/ ReadSettings(c) \/ ReadStatus(c) \/ Lineage(c)
                              \/ LockProject(c) \/ Authorize(c) \/ UnlockGuard(c)
      PROVE  Types'
  <2>1. calls' \in [Calls -> Call]
    BY <1>2, <1>4 DEF Works, Step
  <2> QED
    BY <1>1, <1>4, <2>1 DEF Types, LockSettings, ReadSettings, ReadStatus, Lineage, LockProject, Authorize,
       UnlockGuard, Take, Drop
<1>5. ASSUME NEW c \in Calls, SaveCandidate(c) PROVE Types'
  <2>1. calls' \in [Calls -> Call]
    BY <1>2, <1>5 DEF Works, Step
  <2>2. proposals' \in [Mutations -> Proposal]
    BY <1>1, <1>5 DEF Types, SaveCandidate, Proposal
  <2> QED
    BY <1>1, <1>5, <2>1, <2>2 DEF Types, SaveCandidate
<1>6. ASSUME NEW c \in Calls, SaveRecord(c) PROVE Types'
  <2>1. calls' \in [Calls -> Call]
    BY <1>2, <1>6 DEF Works, Step
  <2>2. [state |-> "stored", base |-> requests[calls[c].m].base, next |-> calls[c].next,
         supersedes |-> requests[calls[c].m].supersedes] \in Proposal
    <3>1. requests[calls[c].m] \in Request /\ calls[c].next \in Revisions
      BY <1>1, <1>6 DEF IInv, Types, Subject, Commits, SaveRecord, At, Call
    <3> QED
      BY <3>1 DEF Request, Proposal
  <2> QED
    BY <1>1, <1>6, <2>1, <2>2 DEF Types, SaveRecord, Drop
<1>7. ASSUME NEW c \in Calls, Prepare(c) \/ Finalize(c) PROVE Types'
  <2>1. calls' \in [Calls -> Call]
    BY <1>2, <1>7 DEF Works, Step
  <2>2. journals' \in [Mutations -> Journal]
    <3>1. /\ calls[c].next \in Revisions
          /\ \A j \in Journal, n \in Revisions :
               [j EXCEPT !.next = n] \in Journal /\ [j EXCEPT !.marker = TRUE] \in Journal
      BY <1>1 DEF Types, Journal, Call
    <3>2. \/ journals' = [journals EXCEPT ![calls[c].m] = [journals[calls[c].m] EXCEPT !.next = calls[c].next]]
          \/ journals' = [journals EXCEPT ![calls[c].m] = [journals[calls[c].m] EXCEPT !.marker = TRUE]]
      BY <1>7 DEF Prepare, Finalize
    <3> QED
      BY <1>1, <3>1, <3>2 DEF Types
  <2> QED
    BY <1>1, <1>7, <2>1, <2>2 DEF Types, Prepare, Finalize, Drop
<1>8. ASSUME NEW c \in Calls, Replace(c) PROVE Types'
  <2>1. calls' \in [Calls -> Call]
    BY <1>2, <1>8 DEF Works, Step
  <2>2. source' \in Revisions /\ source' <= drawn
    BY <1>1, <1>8 DEF IInv, Drawn, Types, Call, Replace
  <2> QED
    BY <1>1, <1>8, <2>1, <2>2 DEF Types, Replace
<1>9. ASSUME NEW c \in Calls, Evaluate(c) PROVE Types'
  <2>1. calls' \in [Calls -> Call]
    BY <1>2, <1>9 DEF Works, Step
  <2>2. drawn' \in Revisions /\ source <= drawn'
    <3>1. source \in Nat /\ drawn \in Nat /\ source <= drawn
      BY <1>1 DEF Types, Revisions
    <3> QED
      BY <1>9, <3>1, DrawFits DEF Revisions
  <2>3. locks' \in [Locks -> Calls \cup {None}]
    BY <1>1, <1>9, Evaluates DEF Drawn1, Drop, Types
  <2> QED
    BY <1>1, <1>9, <2>1, <2>2, <2>3 DEF Types, Evaluate
<1>10. ASSUME NEW c \in Calls, WriteSettings(c) PROVE Types'
  <2>1. calls' \in [Calls -> Call]
    BY <1>2, <1>10 DEF Works, Step
  <2>2. settings' \in Settings
    BY <1>10, MutatedTyped DEF WriteSettings
  <2>3. issued' \in [Grants -> Generations]
    BY <1>1, <1>10, <2>2 DEF WriteSettings, Types, Settings
  <2> QED
    BY <1>1, <1>10, <2>1, <2>2, <2>3 DEF Types, WriteSettings, Drop
<1>11. ASSUME NEW c \in Calls, RevokeRun(c) PROVE Types'
  <2>1. calls' \in [Calls -> Call]
    BY <1>2, <1>11 DEF Works, Step
  <2> DEFINE g == calls[c].g
  <2>2. g \in Runs /\ runs[g] # None /\ runs[g] \in TrustGrant
    BY <1>1, <1>11 DEF IInv, Subject, RevokeRun, Types, At
  <2>3. runs[g].generation + 1 \in Generations
    <3>1. runs[g].generation \in Nat /\ starts \in Nat /\ starts <= MaxStarts
      BY <1>1, <2>2, SizesAssumption DEF Types, TrustGrant, Generations
    <3>2. runs[g].generation + Cardinality(Drawing) <= starts + 1
      BY <2>2 DEF IInv, Budget
    <3>3. Cardinality(Drawing) >= 1
      BY <1>11, DrawingFinite DEF RevokeRun, At, Ahead
    <3> QED
      BY <3>1, <3>2, <3>3, DrawingFinite, SizesAssumption DEF Generations
  <2>4. runs' = [runs EXCEPT ![g] = Tombstone(runs[g], runs[g].generation + 1)]
    BY <1>11 DEF RevokeRun
  <2>5. runs' \in [Runs -> TrustGrant \cup {None}]
    BY <1>1, <2>2, <2>3, <2>4, TypesOfRecords DEF Types
  <2> QED
    BY <1>1, <1>11, <2>1, <2>5 DEF Types, RevokeRun
<1>12. ASSUME NEW c \in Calls, Fails(c), Works(c) PROVE Types'
  <2>1. calls' \in [Calls -> Call] /\ proposals' \in [Mutations -> Proposal]
    BY <1>2, <1>12, Damages DEF Fails
  <2>2. faults' \in 0..MaxFaults
    BY <1>1, <1>12, SizesAssumption DEF Fails, Types
  <2> QED
    BY <1>1, <1>12, <2>1, <2>2 DEF Types, Fails
<1>13. ASSUME NEW g \in Runs, NEW mode \in Modes, AuthorizeRun(g, mode) PROVE Types'
  <2>1. [generation |-> 1, mode |-> mode, revoked |-> FALSE] \in TrustGrant /\ 1 \in Generations
    BY SizesAssumption DEF TrustGrant, Generations
  <2> QED
    BY <1>1, <1>13, <2>1 DEF Types, AuthorizeRun, Grants
<1>14. ASSUME Crash PROVE Types'
  <2>1. proposals' \in [Mutations -> Proposal]
    BY <1>14, Damages DEF Crash
  <2>2. faults' \in 0..MaxFaults
    BY <1>1, <1>14, SizesAssumption DEF Crash, Types
  <2> QED
    BY <1>1, <1>14, <2>1, <2>2, TypesOfRecords DEF Types, Crash
<1>15. ASSUME NEW c \in Calls, Works(c) PROVE Types'
  BY <1>3, <1>4, <1>5, <1>6, <1>7, <1>8, <1>9, <1>10, <1>11, <1>12, <1>15, StepOf DEF Works, Goes1
<1> QED
  BY <1>13, <1>14, <1>15, NextCases

-----------------------------------------------------------------------------
(* What is never undone                                                    *)

LEMMA StoredStays ==
  ASSUME IInv, Next, NEW m \in Mutations, Stored(m)
  PROVE  Stored(m)' /\ proposals'[m].base = proposals[m].base /\ proposals'[m].next = proposals[m].next
<1>1. CASE UNCHANGED proposals
  BY <1>1 DEF Stored
<1>2. ASSUME NEW c \in Calls, Damage(c)
      PROVE  Stored(m)' /\ proposals'[m].base = proposals[m].base /\ proposals'[m].next = proposals[m].next
  BY <1>2, Damages DEF Stored
<1>3. ASSUME NEW c \in Calls, SaveCandidate(c) \/ SaveRecord(c)
      PROVE  Stored(m)' /\ proposals'[m].base = proposals[m].base /\ proposals'[m].next = proposals[m].next
  <2>1. m # calls[c].m
    BY <1>3 DEF IInv, Candidate, SaveCandidate, SaveRecord
  <2> QED
    BY <1>3, <2>1 DEF SaveCandidate, SaveRecord, Stored, IInv, Types
<1>4. ASSUME NEW c \in Calls, Works(c)
      PROVE  UNCHANGED proposals \/ Damage(c) \/ SaveCandidate(c) \/ SaveRecord(c)
  <2>1. CASE Begin(c)
    BY <2>1, BeginFrame
  <2>2. CASE Goes1(c)
    BY <2>2 DEF Goes1, LockSettings, ReadSettings, ReadStatus, Lineage, LockProject, Prepare, Authorize,
       Replace, UnlockGuard, files
  <2>3. CASE Fails(c)
    BY <2>3 DEF Fails
  <2> QED
    BY <1>4, <2>1, <2>2, <2>3, StepOf DEF Works, Evaluate, WriteSettings, RevokeRun, Finalize, files
<1> QED
  BY <1>1, <1>2, <1>3, <1>4, NextCases DEF AuthorizeRun, Crash, files

LEMMA RequestsStay ==
  ASSUME IInv, Next, NEW m \in Mutations, requests[m] # None
  PROVE  requests'[m] = requests[m]
<1>1. CASE UNCHANGED requests
  BY <1>1
<1>2. ASSUME NEW c \in Calls, Begin(c) PROVE requests'[m] = requests[m]
  BY <1>2, BeginFrame DEF IInv, Types
<1>3. ASSUME NEW c \in Calls, Works(c), ~Begin(c) PROVE UNCHANGED requests
  <2>1. CASE Goes1(c)
    BY <2>1 DEF Goes1, LockSettings, ReadSettings, ReadStatus, Lineage, LockProject, SaveCandidate, Prepare,
       Authorize, Replace, UnlockGuard, files
  <2> QED
    BY <1>3, <2>1, StepOf DEF Works, Fails, Evaluate, WriteSettings, RevokeRun, SaveRecord, Finalize, files
<1> QED
  BY <1>1, <1>2, <1>3, NextCases DEF AuthorizeRun, Crash, files

(* The settings are changed by WriteSettings alone, and so are, but for    *)
(* the authorization of a run, the generations that were handed out.       *)
LEMMA SettingsFrame ==
  ASSUME NEW c \in Calls, Works(c), ~WriteSettings(c)
  PROVE  UNCHANGED <<settings, issued>>
<1>1. CASE Goes1(c)
  BY <1>1 DEF Goes1, LockSettings, ReadSettings, ReadStatus, Lineage, LockProject, SaveCandidate, Prepare,
     Authorize, Replace, UnlockGuard, trust
<1> QED
  BY <1>1, BeginFrame, StepOf DEF Works, Fails, Evaluate, RevokeRun, SaveRecord, Finalize, trust

LEMMA RunsFrame ==
  ASSUME NEW c \in Calls, Works(c), ~RevokeRun(c)
  PROVE  UNCHANGED runs
<1>1. CASE Goes1(c)
  BY <1>1 DEF Goes1, LockSettings, ReadSettings, ReadStatus, Lineage, LockProject, SaveCandidate, Prepare,
     Authorize, Replace, UnlockGuard, trust
<1> QED
  BY <1>1, BeginFrame, StepOf DEF Works, Fails, Evaluate, WriteSettings, SaveRecord, Finalize, trust

(* Only what is unused is handed out, and it is handed out for good.       *)
LEMMA IssuedStays ==
  ASSUME IInv, Next, NEW g \in Grants
  PROVE  /\ issued[g] # 0 => issued'[g] # 0
         /\ issued[g] = 0 /\ issued'[g] # 0 =>
              \/ \E c \in Calls : /\ WriteSettings(c) /\ At(c, "writeSettings")
                                  /\ calls[c].op = "grant" /\ calls[c].g = g
              \/ \E mode \in Modes : g \in Runs /\ AuthorizeRun(g, mode) /\ Unused(g)
<1>1. CASE UNCHANGED issued
  BY <1>1
<1>2. ASSUME NEW c \in Calls, WriteSettings(c)
      PROVE  /\ issued[g] # 0 => issued'[g] # 0
             /\ issued[g] = 0 /\ issued'[g] # 0 =>
                  At(c, "writeSettings") /\ calls[c].op = "grant" /\ calls[c].g = g
  <2>1. At(c, "writeSettings") /\ settings' \in Settings
        /\ settings'.generation = calls[c].draft.generation + 1
    BY <1>2, MutatedTyped DEF WriteSettings
  <2>2. settings'.generation # 0
    <3>1. calls[c].draft = settings /\ settings.generation \in Nat
      BY <2>1, SizesAssumption DEF IInv, DraftIsCurrent, Types, Settings, Generations
    <3> QED
      BY <2>1, <3>1
  <2> QED
    BY <1>2, <2>1, <2>2 DEF WriteSettings, IInv, Types
<1>3. ASSUME NEW h \in Runs, NEW mode \in Modes, AuthorizeRun(h, mode)
      PROVE  /\ issued[g] # 0 => issued'[g] # 0
             /\ issued[g] = 0 /\ issued'[g] # 0 => g = h /\ Unused(g)
  BY <1>3 DEF AuthorizeRun, IInv, Types
<1> QED
  BY <1>1, <1>2, <1>3, NextCases, SettingsFrame DEF Crash

(* A run grant is forgotten only when the process dies.                    *)
LEMMA RunsStay ==
  ASSUME IInv, NEW c \in Calls, Works(c), NEW g \in Runs, runs[g] # None
  PROVE  runs'[g] # None
<1>1. CASE ~RevokeRun(c)
  BY <1>1, RunsFrame
<1>2. CASE RevokeRun(c) /\ calls[c].g # g
  BY <1>2 DEF RevokeRun, IInv, Types
<1>3. CASE RevokeRun(c) /\ calls[c].g = g
  <2>1. runs' = [runs EXCEPT ![g] = Tombstone(runs[g], runs[g].generation + 1)]
    BY <1>3 DEF RevokeRun
  <2>2. Tombstone(runs[g], runs[g].generation + 1) # None
    <3>1. runs[g] \in TrustGrant
      BY DEF IInv, Types
    <3>2. runs[g].generation + 1 \in Generations
      <4>1. starts \in Nat /\ starts <= MaxStarts /\ runs[g].generation \in Nat
        BY <3>1, SizesAssumption DEF IInv, Types, TrustGrant, Generations
      <4>2. runs[g].generation + Cardinality(Drawing) <= starts + 1
        BY DEF IInv, Budget
      <4>3. Cardinality(Drawing) >= 1
        BY <1>3, DrawingFinite DEF RevokeRun, At, Ahead
      <4> QED
        BY <4>1, <4>2, <4>3, DrawingFinite, SizesAssumption DEF Generations
    <3> QED
      BY <3>1, <3>2, TypesOfRecords, NoneAssumption
  <2> QED
    BY <2>1, <2>2 DEF IInv, Types
<1> QED
  BY <1>1, <1>2, <1>3

-----------------------------------------------------------------------------
(* What the calls work on                                                  *)

(* The steps that keep a call at its work.                                 *)
LEMMA GoesOn ==
  ASSUME IInv, NEW c \in Calls, Goes1(c)
  PROVE  /\ calls'[c].op = calls[c].op /\ calls'[c].m = calls[c].m /\ calls'[c].g = calls[c].g
         /\ calls'[c].next = calls[c].next
         /\ <<calls[c].pc, calls'[c].pc>> \in
              {<<"lockSettings", "readSettings">>, <<"readSettings", "writeSettings">>,
               <<"status", "lockProject">>, <<"status", "lineage">>, <<"lineage", "lockProject">>,
               <<"lockProject", "evaluate">>, <<"saveCandidate", "saveRecord">>,
               <<"prepare", "authorize">>, <<"authorize", "replace">>, <<"replace", "unlockGuard">>,
               <<"unlockGuard", "finalize">>}
<1>0. calls \in [Calls -> Call] /\ Types
  BY DEF IInv, Types
<1>1. CASE ReadSettings(c)
  BY <1>0, <1>1, Reads DEF ReadSettings, At
<1>2. ASSUME NEW from \in Stages, NEW pc \in Stages, calls[c].pc = from, Goto(c, pc)
      PROVE  /\ calls'[c].op = calls[c].op /\ calls'[c].m = calls[c].m /\ calls'[c].g = calls[c].g
             /\ calls'[c].next = calls[c].next /\ calls[c].pc = from /\ calls'[c].pc = pc
  BY <1>0, <1>2, Goes
<1>3. CASE ReadStatus(c)
  <2>1. Goto(c, "lockProject") \/ Goto(c, "lineage")
    BY <1>3 DEF ReadStatus
  <2> QED
    BY <1>2, <1>3, <2>1 DEF ReadStatus, At, Stages, Ahead
<1>4. CASE LockSettings(c) \/ Lineage(c) \/ LockProject(c) \/ SaveCandidate(c)
  BY <1>2, <1>4 DEF LockSettings, Lineage, LockProject, SaveCandidate, At, Stages, Ahead
<1>5. CASE Prepare(c) \/ Authorize(c) \/ Replace(c) \/ UnlockGuard(c)
  BY <1>2, <1>5 DEF Prepare, Authorize, Replace, UnlockGuard, At, Stages
<1> QED
  BY <1>1, <1>3, <1>4, <1>5 DEF Goes1

LEMMA SubjectStep ==
  ASSUME IInv, Next, NEW e \in Calls
  PROVE  Subject(e)'
<1>0. Types /\ Subject(e) /\ calls \in [Calls -> Call]
  BY DEF IInv, Types
<1>1. ASSUME Settles(e), calls[e].op = "grant", ~WriteSettings(e) PROVE issued'[calls[e].g] = 0
  <2>1. calls[e].g \in Remembered /\ issued[calls[e].g] = 0
    BY <1>0, <1>1 DEF Subject
  <2>2. ASSUME NEW c \in Calls, WriteSettings(c), At(c, "writeSettings"), calls[c].op = "grant",
               calls[c].g = calls[e].g
        PROVE  FALSE
    BY <1>1, <2>2 DEF IInv, GrantsApart, Settles, At
  <2> QED
    BY <2>1, <2>2, IssuedStays, GrantsAssumption DEF Grants
<1>2. ASSUME calls'[e] = calls[e], ~WriteSettings(e), ~Crash PROVE Subject(e)'
  <2>1. At(e, "revokeRun") => runs'[calls[e].g] # None
    <3>1. ASSUME NEW g \in Runs, NEW mode \in Modes, AuthorizeRun(g, mode), At(e, "revokeRun")
          PROVE  runs'[calls[e].g] # None
      BY <1>0, <3>1 DEF AuthorizeRun, Unused, Subject, Types
    <3> QED
      BY <1>0, <1>2, <3>1, RunsStay, NextCases DEF Subject
  <2>2. Settles(e) /\ calls[e].op = "revoke" => issued'[calls[e].g] # 0
    BY <1>0, IssuedStays DEF Subject, Grants
  <2>3. Commits(e) => /\ requests'[calls[e].m] # None /\ issued'[calls[e].g] # 0
                      /\ calls[e].op = "apply" => proposals'[calls[e].m].state = "stored"
    BY <1>0, IssuedStays, RequestsStay, StoredStays DEF Subject, Stored
  <2>4. Settles(e) /\ calls[e].op = "grant" => issued'[calls[e].g] = 0
    BY <1>1, <1>2
  <2> QED
    BY <1>0, <1>2, <2>1, <2>2, <2>3, <2>4 DEF Subject, Settles, Commits, At, Stored
<1>3. ASSUME Goes1(e), Works(e) PROVE Subject(e)'
  <2>1. UNCHANGED issued
    BY <1>3, SettingsFrame DEF Goes1, WriteSettings, LockSettings, ReadSettings, ReadStatus, Lineage,
       LockProject, SaveCandidate, Prepare, Authorize, Replace, UnlockGuard, trust
  <2>2. Commits(e) => requests'[calls[e].m] # None /\ (calls[e].op = "apply" => proposals'[calls[e].m].state = "stored")
    BY <1>0, RequestsStay, StoredStays DEF Subject, Stored
  <2> QED
    BY <1>0, <1>3, <2>1, <2>2, GoesOn DEF Subject, Settles, Commits, At, Stored
<1>4. ASSUME calls'[e].pc = "idle" PROVE Subject(e)'
  BY <1>4 DEF Subject, Settles, Commits, At
<1>5. ASSUME Begin(e) PROVE Subject(e)'
  <2>1. UNCHANGED <<runs, issued, proposals>>
    BY <1>5, BeginFrame
  <2>2. ASSUME NEW g \in Remembered, NEW mode \in Modes, StartGrant(e, g, mode) PROVE Subject(e)'
    <3>1. Started(e, "lockSettings", "grant", None, g) /\ issued'[g] = 0
      BY <1>0, <2>1, <2>2, StartsSettles DEF StartGrant, Unused, Types
    <3> QED
      BY <3>1 DEF Started, Subject, Settles, Commits, At
  <2>3. ASSUME NEW g \in Remembered, StartRevoke(e, g) PROVE Subject(e)'
    <3>1. Started(e, "lockSettings", "revoke", None, g) /\ issued'[g] # 0
      BY <1>0, <2>1, <2>3, StartsSettles DEF StartRevoke, Types
    <3> QED
      BY <3>1 DEF Started, Subject, Settles, Commits, At
  <2>4. CASE StartForget(e)
    <3>1. Started(e, "lockSettings", "forget", None, None)
      BY <1>0, <2>4, StartsSettles DEF Types
    <3> QED
      BY <3>1 DEF Started, Subject, Settles, Commits, At
  <2>5. ASSUME NEW g \in Runs, StartRevokeRun(e, g) PROVE Subject(e)'
    <3>1. Started(e, "revokeRun", "revokeRun", None, g) /\ runs'[g] # None
      BY <1>0, <2>1, <2>5, StartsOthers DEF StartRevokeRun, Types
    <3> QED
      BY <3>1 DEF Started, Subject, Settles, Commits, At
  <2>6. ASSUME NEW m \in Mutations, NEW g \in Grants, NEW s \in Mutations \cup {None}, StartCommit(e, m, g, s)
        PROVE  Subject(e)'
    <3>1. Started(e, "lockProject", "commit", m, g) /\ issued'[g] # 0
      BY <1>0, <2>1, <2>6, StartsOthers DEF StartCommit, Types
    <3>2. requests'[m] # None
      <4>1. [base |-> source, supersedes |-> s] \in Request
        BY <1>0 DEF Request, Types
      <4> QED
        BY <1>0, <2>6, <4>1, NoneAssumption DEF StartCommit, Types
    <3> QED
      BY <3>1, <3>2 DEF Started, Subject, Settles, Commits, At
  <2>7. ASSUME NEW m \in Mutations, NEW g \in Grants, StartApply(e, m, g) PROVE Subject(e)'
    <3>1. Started(e, "status", "apply", m, g) /\ issued'[g] # 0 /\ Stored(m)' /\ requests'[m] # None
      BY <1>0, <2>1, <2>7, StartsOthers, RequestsStay DEF StartApply, Types, Stored, IInv, ProposalsFit
    <3> QED
      BY <3>1 DEF Started, Subject, Settles, Commits, At, Stored
  <2> QED
    BY <1>5, <2>2, <2>3, <2>4, <2>5, <2>6, <2>7 DEF Begin
<1>6. ASSUME Evaluate(e), Works(e) PROVE Subject(e)'
  <2>1. ASSUME NEW pc \in {"saveCandidate", "prepare"}, Drawn1(e, pc) PROVE Subject(e)'
    <3>1. Commits(e) /\ calls[e].m \in Mutations /\ calls[e].g \in Grants
      BY <1>0, <1>6 DEF Evaluate, Commits, At, Subject
    <3>2. /\ requests'[calls[e].m] # None /\ issued'[calls[e].g] # 0
          /\ calls[e].op = "apply" => proposals'[calls[e].m].state = "stored"
      BY <1>0, <3>1, IssuedStays, RequestsStay, StoredStays DEF Subject, Stored
    <3> QED
      BY <1>0, <2>1, <3>1, <3>2 DEF Drawn1, Subject, Settles, Commits, At, Stored
  <2>2. ASSUME End(e) PROVE Subject(e)'
    BY <1>0, <1>4, <2>2, Ends, IdleFields
  <2> QED
    BY <1>6, <2>1, <2>2, Evaluates
<1>7. ASSUME End(e) PROVE Subject(e)'
  BY <1>0, <1>4, <1>7, Ends, IdleFields
<1>8. ASSUME NEW c \in Calls, Works(c), c # e PROVE Subject(e)'
  <2>1. calls'[e] = calls[e]
    BY <1>0, <1>8, CallsMove, Stays
  <2>2. CASE WriteSettings(e)
    BY <1>0, <1>7, <2>2 DEF WriteSettings
  <2>3. CASE Crash
    BY <1>4, <2>3, IdleFields DEF Crash
  <2> QED
    BY <1>2, <2>1, <2>2, <2>3
<1>9. ASSUME NEW g \in Runs, NEW mode \in Modes, AuthorizeRun(g, mode) PROVE Subject(e)'
  <2>1. calls'[e] = calls[e]
    BY <1>9 DEF AuthorizeRun
  <2>2. CASE WriteSettings(e)
    BY <1>0, <1>7, <2>2 DEF WriteSettings
  <2>3. CASE Crash
    BY <1>4, <2>3, IdleFields DEF Crash
  <2> QED
    BY <1>2, <2>1, <2>2, <2>3
<1>10. CASE Crash
  BY <1>4, <1>10, IdleFields DEF Crash
<1>11. CASE Works(e)
  BY <1>3, <1>5, <1>6, <1>7, <1>11, StepOf
     DEF Works, Fails, WriteSettings, RevokeRun, SaveRecord, Finalize
<1> QED
  BY <1>8, <1>9, <1>10, <1>11, NextCases

(* A call that makes a grant has made it from the start, or the grant is   *)
(* nobody's yet.                                                           *)
LEMMA GrantsApartStep ==
  ASSUME IInv, Next
  PROVE  GrantsApart'
<1>0. Types /\ calls \in [Calls -> Call] /\ GrantsApart
  BY DEF IInv, Types
<1>1. ASSUME NEW c \in Calls, Works(c), Settles(c)', calls'[c].op = "grant"
      PROVE  \/ Settles(c) /\ calls[c].op = "grant" /\ calls'[c].g = calls[c].g
             \/ \A d \in Calls : calls[d].g # calls'[c].g
  <2>1. CASE Goes1(c)
    BY <1>1, <2>1, GoesOn DEF Settles
  <2>2. CASE calls'[c].pc \in {"idle", "saveCandidate", "prepare"}
    BY <1>1, <2>2 DEF Settles
  <2>3. CASE Begin(c)
    <3>1. ASSUME NEW g \in Remembered, NEW mode \in Modes, StartGrant(c, g, mode)
          PROVE  calls'[c].g = g /\ \A d \in Calls : calls[d].g # g
      BY <1>0, <3>1, StartsSettles DEF StartGrant, Unused, Started, Types
    <3>2. ASSUME NEW pc, NEW op, NEW m, NEW g, Started(c, pc, op, m, g), op # "grant" PROVE FALSE
      BY <1>1, <3>2 DEF Started
    <3>3. ASSUME NEW g \in Remembered, StartRevoke(c, g) PROVE FALSE
      BY <1>0, <3>2, <3>3, StartsSettles DEF Types
    <3>4. ASSUME StartForget(c) PROVE FALSE
      BY <1>0, <3>2, <3>4, StartsSettles DEF Types
    <3>5. ASSUME NEW g \in Runs, StartRevokeRun(c, g) PROVE FALSE
      BY <1>0, <3>2, <3>5, StartsOthers DEF Types
    <3>6. ASSUME NEW m \in Mutations, NEW g \in Grants, NEW s \in Mutations \cup {None},
                 StartApply(c, m, g) \/ StartCommit(c, m, g, s)
          PROVE  FALSE
      BY <1>0, <3>2, <3>6, StartsOthers DEF Types
    <3> QED
      BY <2>3, <3>1, <3>3, <3>4, <3>5, <3>6 DEF Begin
  <2>4. CASE End(c)
    BY <1>0, <2>2, <2>4, Ends, IdleFields
  <2>5. CASE Evaluate(c)
    BY <1>0, <2>2, <2>4, <2>5, Evaluates DEF Drawn1
  <2> QED
    BY <1>1, <2>1, <2>3, <2>4, <2>5, StepOf
       DEF Works, Fails, WriteSettings, RevokeRun, SaveRecord, Finalize
<1>2. ASSUME NEW x \in Calls, Works(x) PROVE GrantsApart'
  <2>1. \A d \in Calls : d # x => calls'[d] = calls[d]
    BY <1>0, <1>2, CallsMove, Stays
  <2> SUFFICES ASSUME NEW c \in Calls, NEW d \in Calls, c # d,
                      Settles(c)', Settles(d)', calls'[c].op = "grant", calls'[d].op = "grant",
                      calls'[c].g = calls'[d].g
               PROVE  FALSE
    BY DEF GrantsApart
  <2> QED
    BY <1>0, <1>1, <1>2, <2>1 DEF GrantsApart, Settles
<1> QED
  BY <1>0, <1>2, NextCases, IdleFields DEF AuthorizeRun, Crash, GrantsApart, Settles

-----------------------------------------------------------------------------
(* Locks                                                                   *)

(* The stages in which a call has the project to itself.                   *)
Inside == {"evaluate", "saveCandidate", "saveRecord", "prepare", "authorize", "replace",
           "unlockGuard", "finalize"}

LEMMA HeldStages ==
  /\ HeldAt("project") = Inside
  /\ HeldAt("settings") = {"readSettings", "writeSettings", "replace", "unlockGuard"}
  /\ \A g \in Runs : HeldAt(g) = {"replace", "unlockGuard"}
BY GrantsAssumption DEF HeldAt, Inside

(* Two calls are never inside of the same lock.                            *)
LEMMA Excluded ==
  ASSUME IInv, NEW c \in Calls, NEW d \in Calls, c # d
  PROVE  /\ calls[c].pc \in Inside => calls[d].pc \notin Inside
         /\ calls[c].pc \in {"readSettings", "writeSettings"} =>
              calls[d].pc \notin {"readSettings", "writeSettings"}
         /\ calls[c].pc \in {"replace", "unlockGuard"} =>
              /\ locks[Guard(calls[c].g)] = c
              /\ Guard(calls[c].g) = "settings" => calls[d].pc \notin {"readSettings", "writeSettings"}
<1>1. \A l \in Locks : locks[l] = c <=> Holds(c, l)
  BY DEF IInv, LocksHeld
<1>2. \A l \in Locks : locks[l] = d <=> Holds(d, l)
  BY DEF IInv, LocksHeld
<1>3. "project" \in Locks /\ "settings" \in Locks
  BY DEF Locks
<1>4. calls[c].pc \in {"replace", "unlockGuard"} => Guard(calls[c].g) \in Locks
  BY TypesOfRecords DEF IInv, Subject, Commits
<1> QED
  BY <1>1, <1>2, <1>3, <1>4, HeldStages DEF Holds

(* One call changes what it holds, in step with the stage it is in.        *)
LEMMA LocksKept ==
  ASSUME IInv, NEW c \in Calls, Moves(c),
         \A l \in Locks : locks'[l] = c <=> Holds(c, l)',
         \A l \in Locks : locks'[l] = locks[l] \/ {locks[l], locks'[l]} \subseteq {c, None}
  PROVE  LocksHeld'
<1> SUFFICES ASSUME NEW d \in Calls, NEW l \in Locks, d # c PROVE locks'[l] = d <=> Holds(d, l)'
  BY DEF LocksHeld
<1>1. calls'[d] = calls[d]
  BY Stays DEF IInv, Types
<1>2. locks[l] = d <=> Holds(d, l)
  BY DEF IInv, LocksHeld
<1>3. d # None
  BY NoneAssumption
<1> QED
  BY <1>1, <1>2, <1>3 DEF Holds

LEMMA LocksHeldStep ==
  ASSUME IInv, Next
  PROVE  LocksHeld'
<1>0. Types /\ calls \in [Calls -> Call] /\ locks \in [Locks -> Calls \cup {None}]
  BY DEF IInv, Types
<1>1. \A c \in Calls, l \in Locks : locks[l] = c <=> Holds(c, l)
  BY DEF IInv, LocksHeld
<1>2. /\ "project" \in Locks /\ "settings" \in Locks
      /\ \A c \in Calls : calls[c].g \in Grants => Guard(calls[c].g) \in Locks \ {"project"}
  BY TypesOfRecords, GrantsAssumption DEF Locks, Guard
<1>3. ASSUME NEW c \in Calls, Works(c), UNCHANGED locks,
             \A l \in Locks : Holds(c, l)' <=> Holds(c, l)
      PROVE  LocksHeld'
  BY <1>1, <1>3, CallsMove, LocksKept
<1>4. ASSUME NEW c \in Calls, Works(c), NEW l \in Locks, Take(c, l),
             \A k \in Locks : Holds(c, k)' <=> k = l \/ Holds(c, k)
      PROVE  LocksHeld'
  <2>1. locks[l] = None /\ locks' = [locks EXCEPT ![l] = c]
    BY <1>4 DEF Take
  <2> QED
    BY <1>0, <1>1, <1>4, <2>1, CallsMove, LocksKept
<1>5. ASSUME NEW c \in Calls, Works(c), NEW l \in Locks, Drop(l), Holds(c, l),
             \A k \in Locks : Holds(c, k)' <=> k # l /\ Holds(c, k)
      PROVE  LocksHeld'
  <2>1. locks[l] = c /\ locks' = [locks EXCEPT ![l] = None] /\ c # None
    BY <1>1, <1>5, NoneAssumption DEF Drop
  <2> QED
    BY <1>0, <1>1, <1>5, <2>1, CallsMove, LocksKept
<1>6. ASSUME NEW c \in Calls, Works(c), End(c) PROVE \A l \in Locks : ~Holds(c, l)'
  BY <1>0, <1>6, Ends, IdleFields, HeldStages DEF Holds, Inside
<1>7. ASSUME NEW c \in Calls, Begin(c) PROVE LocksHeld'
  <2>1. calls[c].pc = "idle" /\ calls'[c].pc \in {"lockSettings", "revokeRun", "lockProject", "status"}
    BY <1>0, <1>7, BeginMoves DEF Started, At
  <2> QED
    BY <1>3, <1>7, <2>1, BeginFrame, HeldStages DEF Holds, Inside, Works
<1>8. ASSUME NEW c \in Calls, ReadSettings(c) \/ ReadStatus(c) \/ Lineage(c) \/ SaveCandidate(c)
                              \/ Prepare(c) \/ Replace(c)
      PROVE  LocksHeld'
  <2>1. UNCHANGED locks /\ Goes1(c) /\ Works(c)
    BY <1>8 DEF ReadSettings, ReadStatus, Lineage, SaveCandidate, Prepare, Replace, Goes1, Works, Step
  <2>2. calls'[c].g = calls[c].g
    BY <2>1, GoesOn
  <2>3. <<calls[c].pc, calls'[c].pc>> \in
          {<<"readSettings", "writeSettings">>, <<"status", "lockProject">>, <<"status", "lineage">>,
           <<"lineage", "lockProject">>, <<"saveCandidate", "saveRecord">>, <<"prepare", "authorize">>,
           <<"replace", "unlockGuard">>}
    BY <1>8, <2>1, GoesOn DEF ReadSettings, ReadStatus, Lineage, SaveCandidate, Prepare, Replace, At
  <2> QED
    BY <1>3, <2>1, <2>2, <2>3, HeldStages DEF Holds, Inside
<1>9. ASSUME NEW c \in Calls, LockSettings(c) PROVE LocksHeld'
  <2>1. Works(c) /\ Take(c, "settings") /\ calls[c].pc = "lockSettings" /\ calls'[c].pc = "readSettings"
    BY <1>0, <1>9, Goes DEF LockSettings, Works, Step, At, Stages, Ahead
  <2> QED
    BY <1>2, <1>4, <2>1, HeldStages DEF Holds, Inside
<1>10. ASSUME NEW c \in Calls, LockProject(c) PROVE LocksHeld'
  <2>1. Works(c) /\ Take(c, "project") /\ calls[c].pc = "lockProject" /\ calls'[c].pc = "evaluate"
    BY <1>0, <1>10, Goes DEF LockProject, Works, Step, At, Stages, Ahead
  <2> QED
    BY <1>2, <1>4, <2>1, HeldStages DEF Holds, Inside
<1>11. ASSUME NEW c \in Calls, Authorize(c) PROVE LocksHeld'
  <2>1. /\ Works(c) /\ Take(c, Guard(calls[c].g))
        /\ calls[c].pc = "authorize" /\ calls'[c].pc = "replace" /\ calls'[c].g = calls[c].g
    BY <1>0, <1>11, Goes DEF Authorize, Works, Step, At, Stages
  <2>2. Guard(calls[c].g) \in Locks \ {"project"}
    BY <1>2, <2>1 DEF IInv, Subject, Commits
  <2> QED
    BY <1>4, <2>1, <2>2, HeldStages DEF Holds, Inside
<1>12. ASSUME NEW c \in Calls, UnlockGuard(c) PROVE LocksHeld'
  <2>1. /\ Works(c) /\ Drop(Guard(calls[c].g))
        /\ calls[c].pc = "unlockGuard" /\ calls'[c].pc = "finalize" /\ calls'[c].g = calls[c].g
    BY <1>0, <1>12, Goes DEF UnlockGuard, Works, Step, At, Stages
  <2>2. Guard(calls[c].g) \in Locks \ {"project"}
    BY <1>2, <2>1 DEF IInv, Subject, Commits
  <2> QED
    BY <1>5, <2>1, <2>2, HeldStages DEF Holds, Inside
<1>13. ASSUME NEW c \in Calls, WriteSettings(c) PROVE LocksHeld'
  <2>1. Works(c) /\ Drop("settings") /\ calls[c].pc = "writeSettings" /\ End(c)
    BY <1>13 DEF WriteSettings, Works, Step, At
  <2> QED
    BY <1>2, <1>5, <1>6, <2>1, HeldStages DEF Holds, Inside
<1>14. ASSUME NEW c \in Calls, SaveRecord(c) \/ Finalize(c) PROVE LocksHeld'
  <2>1. Works(c) /\ Drop("project") /\ calls[c].pc \in {"saveRecord", "finalize"} /\ End(c)
    BY <1>14 DEF SaveRecord, Finalize, Works, Step, At
  <2> QED
    BY <1>2, <1>5, <1>6, <2>1, HeldStages DEF Holds, Inside
<1>15. ASSUME NEW c \in Calls, RevokeRun(c) PROVE LocksHeld'
  <2>1. Works(c) /\ UNCHANGED locks /\ calls[c].pc = "revokeRun" /\ End(c)
    BY <1>15 DEF RevokeRun, Works, Step, At
  <2> QED
    BY <1>3, <1>6, <2>1, HeldStages DEF Holds, Inside
<1>16. ASSUME NEW c \in Calls, Evaluate(c) PROVE LocksHeld'
  <2>1. Works(c) /\ calls[c].pc = "evaluate"
    BY <1>16 DEF Evaluate, Works, Step, At
  <2>2. ASSUME End(c), Drop("project") PROVE LocksHeld'
    BY <1>2, <1>5, <1>6, <2>1, <2>2, HeldStages DEF Holds, Inside
  <2>3. ASSUME NEW pc \in {"saveCandidate", "prepare"}, Drawn1(c, pc) PROVE LocksHeld'
    BY <1>3, <2>1, <2>3, HeldStages DEF Holds, Inside, Drawn1
  <2> QED
    BY <1>16, <2>2, <2>3, Evaluates
<1>17. ASSUME NEW c \in Calls, Works(c), Fails(c) PROVE LocksHeld'
  <2>1. \A l \in Locks : locks'[l] = IF locks[l] = c THEN None ELSE locks[l]
    BY <1>17 DEF Fails
  <2>2. \A l \in Locks : locks'[l] # c
    BY <2>1, NoneAssumption
  <2> QED
    BY <1>6, <1>17, <2>1, <2>2, CallsMove, LocksKept DEF Fails
<1>18. CASE Crash
  BY <1>18, IdleFields, HeldStages, NoneAssumption DEF Crash, LocksHeld, Holds, Inside
<1>19. ASSUME NEW g \in Runs, NEW mode \in Modes, AuthorizeRun(g, mode) PROVE LocksHeld'
  BY <1>1, <1>19 DEF AuthorizeRun, LocksHeld, Holds
<1>20. ASSUME NEW c \in Calls, Works(c) PROVE LocksHeld'
  BY <1>7, <1>8, <1>9, <1>10, <1>11, <1>12, <1>13, <1>14, <1>15, <1>16, <1>17, <1>20, StepOf
     DEF Works, Goes1
<1> QED
  BY <1>18, <1>19, <1>20, NextCases

-----------------------------------------------------------------------------
(* Settings                                                                *)

LEMMA DraftIsCurrentStep ==
  ASSUME IInv, Next
  PROVE  DraftIsCurrent'
<1> SUFFICES ASSUME NEW e \in Calls, calls'[e].pc = "writeSettings"
             PROVE  /\ calls'[e].draft = settings'
                    /\ calls'[e].op = "revoke" => settings'.grants[calls'[e].g] # None
  BY DEF DraftIsCurrent, At
<1>0. Types /\ calls \in [Calls -> Call]
  BY DEF IInv, Types
<1>1. CASE ReadSettings(e)
  <2>1. UNCHANGED settings /\ ~Vanished(e)
    BY <1>1 DEF ReadSettings, trust
  <2> QED
    BY <1>0, <1>1, <2>1, Reads DEF Vanished
<1>2. ASSUME calls'[e] = calls[e], UNCHANGED settings
      PROVE  /\ calls'[e].draft = settings'
             /\ calls'[e].op = "revoke" => settings'.grants[calls'[e].g] # None
  BY <1>2 DEF IInv, DraftIsCurrent, At
<1>3. ASSUME NEW c \in Calls, Works(c), c # e
      PROVE  calls'[e] = calls[e] /\ UNCHANGED settings
  <2>1. calls'[e] = calls[e]
    BY <1>0, <1>3, CallsMove, Stays
  <2>2. ~WriteSettings(c)
    BY <1>3, <2>1, Excluded DEF WriteSettings, At
  <2> QED
    BY <1>3, <2>1, <2>2, SettingsFrame
<1>4. CASE Works(e)
  <2>1. ~Begin(e) /\ ~End(e)
    BY <1>0, BeginMoves, Ends, IdleFields DEF Started
  <2>2. CASE Goes1(e)
    BY <1>0, <1>1, <2>2, GoesOn DEF Goes1, LockSettings, ReadStatus, Lineage, LockProject, SaveCandidate,
       Prepare, Authorize, Replace, UnlockGuard, At
  <2>3. ~Evaluate(e)
    BY <2>1, Evaluates DEF Drawn1
  <2> QED
    BY <1>4, <2>1, <2>2, <2>3, StepOf DEF Works, Fails, WriteSettings, RevokeRun, SaveRecord, Finalize
<1> QED
  BY <1>2, <1>3, <1>4, NextCases, IdleFields DEF AuthorizeRun, Crash, trust

(* What grant, revoke and forget leave of each grant.                      *)
LEMMA MutatedGrants ==
  ASSUME IInv, NEW c \in Calls, At(c, "writeSettings"), NEW g \in Remembered
  PROVE  \/ calls[c].op = "grant" /\ g = calls[c].g
         \/ Mutated(calls[c])[g] = None
         \/ /\ settings.grants[g] # None /\ Mutated(calls[c])[g] # None
            /\ Mutated(calls[c])[g].mode = settings.grants[g].mode
            /\ Mutated(calls[c])[g].revoked
         \/ calls[c].op = "revoke" /\ Mutated(calls[c])[g] = settings.grants[g]
<1> DEFINE generation == settings.generation + 1
           old == settings.grants
           new == Mutated(calls[c])
<1>1. /\ calls[c].draft = settings /\ (calls[c].op = "revoke" => old[calls[c].g] # None)
      /\ calls[c].op \in {"grant", "revoke", "forget"}
      /\ calls[c].op # "forget" => calls[c].g \in Remembered
  BY DEF IInv, DraftIsCurrent, Subject, Settles, At
<1>2. generation \in Generations /\ new \in [Remembered -> TrustGrant \cup {None}]
  BY <1>1, MutatedTyped DEF Settings
<1>3. old \in [Remembered -> TrustGrant \cup {None}]
  BY DEF IInv, Types, Settings
<1>4. ASSUME NEW grant \in TrustGrant
      PROVE  /\ Tombstone(grant, generation).mode = grant.mode /\ Tombstone(grant, generation).revoked
             /\ Tombstone(grant, generation) # None
  BY <1>2, NoneAssumption, TypesOfRecords DEF Tombstone, TrustGrant
<1>5. ASSUME calls[c].op = "grant", g # calls[c].g
      PROVE  IF old[g] # None /\ ~old[g].revoked THEN new[g] = Tombstone(old[g], generation)
             ELSE new[g] = old[g]
  BY <1>1, <1>5 DEF Mutated
<1>6. ASSUME calls[c].op = "revoke"
      PROVE  new[g] = IF g = calls[c].g THEN Tombstone(old[g], generation) ELSE old[g]
  <2>1. new = [old EXCEPT ![calls[c].g] = Tombstone(old[calls[c].g], generation)]
    BY <1>1, <1>6 DEF Mutated
  <2> HIDE DEF new, old, generation
  <2> QED
    BY <1>1, <1>3, <1>6, <2>1
<1>7. ASSUME calls[c].op = "forget" PROVE new[g] = None
  BY <1>7 DEF Mutated
<1> HIDE DEF new, old, generation
<1>8. \/ calls[c].op = "grant" /\ g = calls[c].g
      \/ new[g] = None
      \/ old[g] # None /\ new[g] # None /\ new[g].mode = old[g].mode /\ new[g].revoked
      \/ calls[c].op = "revoke" /\ new[g] = old[g]
  BY <1>1, <1>3, <1>4, <1>5, <1>6, <1>7
<1> QED
  BY <1>8 DEF new, old

LEMMA AtMostOneLiveStep ==
  ASSUME IInv, Next
  PROVE  AtMostOneLive'
<1>1. CASE UNCHANGED settings
  BY <1>1 DEF IInv, AtMostOneLive
<1>2. ASSUME NEW c \in Calls, WriteSettings(c) PROVE AtMostOneLive'
  <2>1. At(c, "writeSettings") /\ settings'.grants = Mutated(calls[c])
    BY <1>2 DEF WriteSettings
  <2> DEFINE Live(f, g) == f[g] # None /\ ~f[g].revoked
  <2>2. ASSUME NEW g \in Remembered, Live(settings'.grants, g)
        PROVE  \/ calls[c].op = "grant" /\ g = calls[c].g
               \/ calls[c].op = "revoke" /\ Live(settings.grants, g)
    BY <2>1, <2>2, MutatedGrants
  <2>3. ASSUME NEW g \in Remembered, NEW h \in Remembered,
               Live(settings.grants, g), Live(settings.grants, h)
        PROVE  g = h
    BY <2>3 DEF IInv, AtMostOneLive
  <2>4. ASSUME NEW g \in Remembered, NEW h \in Remembered,
               Live(settings'.grants, g), Live(settings'.grants, h)
        PROVE  g = h
    BY <2>2, <2>3, <2>4
  <2> QED
    BY <2>4 DEF AtMostOneLive
<1> QED
  BY <1>1, <1>2, SettingsFrame, NextCases DEF AuthorizeRun, Crash

(* What a step may make of a grant that was handed out: it dies, or stays  *)
(* what it is.                                                             *)
LEMMA GrantChanges ==
  ASSUME IInv, Next, NEW g \in Grants, issued[g] # 0
  PROVE  /\ issued'[g] = issued[g]
         /\ \/ GrantOf(g)' = GrantOf(g)
            \/ GrantOf(g)' = None
            \/ /\ GrantOf(g) # None /\ GrantOf(g)' # None
               /\ GrantOf(g)'.mode = GrantOf(g).mode /\ GrantOf(g)'.revoked
<1>0. Types
  BY DEF IInv
<1>1. ASSUME NEW c \in Calls, WriteSettings(c)
      PROVE  /\ issued'[g] = issued[g]
             /\ \/ GrantOf(g)' = GrantOf(g)
                \/ GrantOf(g)' = None
                \/ /\ GrantOf(g) # None /\ GrantOf(g)' # None
                   /\ GrantOf(g)'.mode = GrantOf(g).mode /\ GrantOf(g)'.revoked
  <2>1. At(c, "writeSettings") /\ settings'.grants = Mutated(calls[c]) /\ UNCHANGED runs
    BY <1>1 DEF WriteSettings
  <2>2. calls[c].op = "grant" => calls[c].g # g
    BY <2>1 DEF IInv, Subject, Settles, At
  <2>3. issued'[g] = issued[g]
    BY <1>0, <1>1, <2>2 DEF WriteSettings, Types
  <2>4. CASE g \in Runs
    BY <2>1, <2>3, <2>4 DEF GrantOf
  <2>5. CASE g \in Remembered
    <3>1. GrantOf(g) = settings.grants[g] /\ GrantOf(g)' = Mutated(calls[c])[g]
      BY <2>1, <2>5, GrantsAssumption DEF GrantOf
    <3> QED
      BY <2>1, <2>2, <2>3, <2>5, <3>1, MutatedGrants
  <2> QED
    BY <2>4, <2>5 DEF Grants
<1>2. ASSUME NEW c \in Calls, RevokeRun(c)
      PROVE  /\ issued'[g] = issued[g]
             /\ \/ GrantOf(g)' = GrantOf(g)
                \/ /\ GrantOf(g) # None /\ GrantOf(g)' # None
                   /\ GrantOf(g)'.mode = GrantOf(g).mode /\ GrantOf(g)'.revoked
  <2> DEFINE h == calls[c].g
  <2>1. UNCHANGED <<settings, issued>> /\ runs' = [runs EXCEPT ![h] = Tombstone(runs[h], runs[h].generation + 1)]
    BY <1>2 DEF RevokeRun
  <2>2. h \in Runs /\ runs[h] # None /\ runs[h] \in TrustGrant /\ Works(c)
    BY <1>0, <1>2 DEF IInv, Subject, RevokeRun, Types, At, Works, Step
  <2>3. runs'[h].mode = runs[h].mode /\ runs'[h].revoked /\ runs'[h] # None
    BY <1>0, <2>1, <2>2, RunsStay DEF Types, Tombstone, TrustGrant
  <2> QED
    BY <1>0, <2>1, <2>2, <2>3 DEF GrantOf, Types
<1>3. ASSUME NEW h \in Runs, NEW mode \in Modes, AuthorizeRun(h, mode)
      PROVE  issued'[g] = issued[g] /\ GrantOf(g)' = GrantOf(g)
  BY <1>0, <1>3 DEF AuthorizeRun, Unused, GrantOf, Types
<1>4. ASSUME UNCHANGED <<settings, runs, issued>>
      PROVE  issued'[g] = issued[g] /\ GrantOf(g)' = GrantOf(g)
  BY <1>4 DEF GrantOf
<1>5. CASE Crash
  BY <1>5 DEF Crash, GrantOf
<1> QED
  BY <1>1, <1>2, <1>3, <1>4, <1>5, SettingsFrame, RunsFrame, NextCases

-----------------------------------------------------------------------------
(* Revisions and proposals                                                 *)

LEMMA DrawnGrows ==
  ASSUME IInv, Next
  PROVE  /\ drawn <= drawn'
         /\ drawn' # drawn => \E c \in Calls : Evaluate(c)
<1>0. drawn \in Nat
  BY DEF IInv, Types, Revisions
<1>1. ASSUME NEW c \in Calls, Works(c), ~Evaluate(c) PROVE UNCHANGED drawn
  <2>1. CASE Goes1(c)
    BY <2>1 DEF Goes1, LockSettings, ReadSettings, ReadStatus, Lineage, LockProject, SaveCandidate, Prepare,
       Authorize, Replace, UnlockGuard, files
  <2> QED
    BY <1>1, <2>1, BeginFrame, StepOf DEF Works, Fails, WriteSettings, RevokeRun, SaveRecord, Finalize, files
<1>2. ASSUME NEW c \in Calls, Evaluate(c) PROVE drawn <= drawn'
  BY <1>2, DrawFits
<1>3. CASE UNCHANGED drawn
  BY <1>0, <1>3
<1> QED
  BY <1>1, <1>2, <1>3, NextCases DEF AuthorizeRun, Crash, files

(* A proposal is stored by SaveRecord alone, and nothing else gives one    *)
(* another base or another revision.                                       *)
LEMMA ProposalsFrame ==
  ASSUME IInv, NEW c \in Calls, Works(c), ~SaveRecord(c), NEW m \in Mutations
  PROVE  /\ proposals'[m].state = "stored" => Stored(m)
         /\ proposals'[m].base = proposals[m].base /\ proposals'[m].next = proposals[m].next
<1>1. CASE UNCHANGED proposals
  BY <1>1 DEF Stored
<1>2. CASE Damage(c)
  BY <1>2, Damages DEF Stored
<1>3. CASE SaveCandidate(c)
  BY <1>3 DEF SaveCandidate, Stored, IInv, Types, Proposal
<1>4. CASE Goes1(c)
  BY <1>1, <1>3, <1>4 DEF Goes1, LockSettings, ReadSettings, ReadStatus, Lineage, LockProject, Prepare,
     Authorize, Replace, UnlockGuard, files
<1> QED
  BY <1>1, <1>2, <1>4, BeginFrame, StepOf DEF Works, Fails, Evaluate, WriteSettings, RevokeRun, Finalize, files

LEMMA Saves ==
  ASSUME IInv, NEW c \in Calls, SaveRecord(c), NEW m \in Mutations
  PROVE  IF m = calls[c].m
         THEN ~Stored(m) /\ requests[m] # None
              /\ proposals'[m].base = requests[m].base /\ proposals'[m].next = calls[c].next
         ELSE proposals'[m] = proposals[m]
BY DEF SaveRecord, At, IInv, Types, Candidate, Subject, Commits

LEMMA DrawnStep ==
  ASSUME IInv, Next
  PROVE  Drawn'
<1>0. Types /\ Drawn /\ drawn \in Nat /\ drawn' \in Nat /\ drawn <= drawn'
      /\ calls \in [Calls -> Call] /\ \A c \in Calls : calls[c].next \in Nat
      /\ \A m \in Mutations : proposals[m].next \in Nat
  BY DrawnGrows, TypesStep DEF IInv, Types, Revisions, Call, Proposal
<1>1. ASSUME NEW c \in Calls, Works(c) PROVE calls'[c].next <= drawn'
  <2>1. CASE Begin(c)
    BY <1>0, <2>1, BeginMoves DEF Started
  <2>2. CASE Goes1(c)
    BY <1>0, <2>2, GoesOn DEF Drawn
  <2>3. CASE End(c)
    BY <1>0, <2>3, Ends, IdleFields
  <2>4. CASE Evaluate(c)
    BY <2>3, <2>4, Evaluates, DrawFits DEF Drawn1
  <2> QED
    BY <1>1, <2>1, <2>2, <2>3, <2>4, StepOf DEF Works, Fails, WriteSettings, RevokeRun, SaveRecord, Finalize
<1>2. ASSUME NEW c \in Calls, Works(c) PROVE Drawn'
  <2>1. ASSUME NEW d \in Calls PROVE calls'[d].next <= drawn'
    <3>1. CASE d = c
      BY <1>1, <1>2, <3>1
    <3>2. CASE d # c
      BY <1>0, <1>2, <3>2, CallsMove, Stays DEF Drawn
    <3> QED
      BY <3>1, <3>2
  <2>2. ASSUME NEW m \in Mutations PROVE proposals'[m].next <= drawn'
    <3>1. proposals'[m].next = proposals[m].next \/ proposals'[m].next = calls[c].next
      BY <1>2, ProposalsFrame, Saves
    <3> QED
      BY <1>0, <3>1 DEF Drawn
  <2> QED
    BY <2>1, <2>2 DEF Drawn
<1>3. CASE Crash
  <2>1. \A m \in Mutations : proposals'[m].next = proposals[m].next
    BY <1>3, Damages DEF Crash
  <2> QED
    BY <1>0, <1>3, <2>1, IdleFields DEF Crash, Drawn
<1>4. ASSUME NEW g \in Runs, NEW mode \in Modes, AuthorizeRun(g, mode) PROVE Drawn'
  BY <1>0, <1>4 DEF AuthorizeRun, Drawn, files
<1> QED
  BY <1>2, <1>3, <1>4, NextCases

LEMMA ProposalsFitStep ==
  ASSUME IInv, Next
  PROVE  ProposalsFit'
<1> SUFFICES ASSUME NEW m \in Mutations, proposals'[m].state = "stored"
             PROVE  requests'[m] # None /\ proposals'[m].base = requests'[m].base
  BY DEF ProposalsFit, Stored
<1>1. ASSUME Stored(m), proposals'[m].base = proposals[m].base
      PROVE  requests'[m] # None /\ proposals'[m].base = requests'[m].base
  BY <1>1, RequestsStay DEF IInv, ProposalsFit
<1>2. ASSUME NEW c \in Calls, Works(c)
      PROVE  requests'[m] # None /\ proposals'[m].base = requests'[m].base
  <2>1. CASE SaveRecord(c) /\ m = calls[c].m
    BY <2>1, Saves, RequestsStay
  <2>2. CASE SaveRecord(c) /\ m # calls[c].m
    BY <1>1, <2>2, Saves DEF Stored
  <2>3. CASE ~SaveRecord(c)
    BY <1>1, <1>2, <2>3, ProposalsFrame
  <2> QED
    BY <2>1, <2>2, <2>3
<1>3. CASE Crash
  <2>1. Stored(m) /\ proposals'[m].base = proposals[m].base
    BY <1>3, Damages DEF Crash, Stored
  <2> QED
    BY <1>1, <2>1
<1>4. ASSUME NEW g \in Runs, NEW mode \in Modes, AuthorizeRun(g, mode)
      PROVE  requests'[m] # None /\ proposals'[m].base = requests'[m].base
  BY <1>1, <1>4 DEF AuthorizeRun, files, Stored
<1> QED
  BY <1>2, <1>3, <1>4, NextCases

(* The source is replaced by Replace alone.                                *)
LEMMA SourceFrame ==
  ASSUME NEW c \in Calls, Works(c), ~Replace(c)
  PROVE  UNCHANGED source
<1>1. CASE Goes1(c)
  BY <1>1 DEF Goes1, LockSettings, ReadSettings, ReadStatus, Lineage, LockProject, SaveCandidate, Prepare,
     Authorize, UnlockGuard, files
<1> QED
  BY <1>1, BeginFrame, StepOf DEF Works, Fails, Evaluate, WriteSettings, RevokeRun, SaveRecord, Finalize, files

(* While a call replaces the source, its grant stays what it is: the other *)
(* calls are kept out by the settings lock, or by the queue of the run.    *)
LEMMA GrantIsGuarded ==
  ASSUME IInv, Next, NEW e \in Calls, At(e, "replace"), NEW g \in Grants, g = calls[e].g,
         NEW c \in Calls, Works(c), c # e
  PROVE  GrantOf(g)' = GrantOf(g)
<1>0. runs \in [Runs -> TrustGrant \cup {None}]
  BY DEF IInv, Types
<1>1. locks[Guard(g)] = e /\ (Guard(g) = "settings" => ~WriteSettings(c))
  BY Excluded DEF At, WriteSettings
<1>2. CASE g \in Runs
  <2>1. RevokeRun(c) => calls[c].g # g
    <3>1. locks[g] = e /\ e # None
      BY <1>1, <1>2, NoneAssumption DEF Guard
    <3> QED
      BY <3>1 DEF RevokeRun
  <2>2. runs'[g] = runs[g]
    BY <1>0, <1>2, <2>1, RunsFrame DEF RevokeRun
  <2> QED
    BY <1>2, <2>2 DEF GrantOf
<1>3. CASE g \notin Runs
  BY <1>1, <1>3, SettingsFrame DEF Guard, GrantOf
<1> QED
  BY <1>2, <1>3

LEMMA CandidateStep ==
  ASSUME IInv, Next, NEW e \in Calls
  PROVE  Candidate(e)'
<1>0. Types /\ calls \in [Calls -> Call] /\ Candidate(e) /\ Subject(e)
  BY DEF IInv, Types
<1> DEFINE m == calls[e].m
           g == calls[e].g
<1>1. ASSUME calls'[e].pc \in {"idle", "lockSettings", "readSettings", "writeSettings", "revokeRun",
                               "status", "lineage", "lockProject", "evaluate", "unlockGuard", "finalize"}
      PROVE  Candidate(e)'
  BY <1>1 DEF Candidate, At
<1>2. ASSUME calls[e].pc \in Inside
      PROVE  /\ m \in Mutations /\ g \in Grants /\ issued[g] # 0
             /\ requests'[m] = requests[m]
             /\ Stored(m) => proposals'[m].state = "stored" /\ proposals'[m].next = proposals[m].next
  <2>1. m \in Mutations /\ g \in Grants /\ issued[g] # 0 /\ requests[m] # None
    BY <1>0, <1>2 DEF Subject, Commits, Inside
  <2> QED
    BY <2>1, RequestsStay, StoredStays DEF Stored
<1>3. ASSUME calls'[e] = calls[e], UNCHANGED source, calls[e].pc \in Inside,
             proposals'[m].state = "stored" => Stored(m),
             At(e, "replace") => Check(g) /\ GrantOf(g)' = GrantOf(g)
      PROVE  Candidate(e)'
  <2>1. m \in Mutations /\ g \in Grants /\ issued'[g] = issued[g] /\ requests'[m] = requests[m]
        /\ (Stored(m) => proposals'[m].state = "stored" /\ proposals'[m].next = proposals[m].next)
    BY <1>2, <1>3, GrantChanges
  <2>2. GrantOf(g)' # None => GrantOf(g) # None /\ GrantOf(g)'.mode = GrantOf(g).mode
    BY <1>2, <1>3, GrantChanges
  <2> QED
    BY <1>0, <1>3, <2>1, <2>2 DEF Candidate, At, Stored, Check
<1>4. ASSUME NEW c \in Calls, Works(c), c # e PROVE Candidate(e)'
  <2>1. calls'[e] = calls[e]
    BY <1>0, <1>4, CallsMove, Stays
  <2>2. CASE calls[e].pc \notin Inside
    BY <2>1, <2>2 DEF Inside, Candidate, At
  <2>3. CASE calls[e].pc \in Inside
    <3>1. ~Replace(c) /\ ~SaveRecord(c) /\ m \in Mutations /\ g \in Grants
      BY <1>2, <1>4, <2>3, Excluded DEF Replace, SaveRecord, At, Inside
    <3>2. UNCHANGED source /\ (proposals'[m].state = "stored" => Stored(m))
      BY <1>4, <3>1, SourceFrame, ProposalsFrame
    <3>3. At(e, "replace") => Check(g) /\ GrantOf(g)' = GrantOf(g)
      BY <1>0, <1>4, <2>1, <3>1, GrantIsGuarded DEF Candidate, GrantOf
    <3> QED
      BY <1>3, <2>1, <2>3, <3>2, <3>3
  <2> QED
    BY <2>2, <2>3
<1>5. ASSUME NEW h \in Runs, NEW mode \in Modes, AuthorizeRun(h, mode) PROVE Candidate(e)'
  <2>1. calls'[e] = calls[e] /\ UNCHANGED <<source, proposals>>
    BY <1>5 DEF AuthorizeRun, files
  <2>2. CASE calls[e].pc \notin Inside
    BY <2>1, <2>2 DEF Inside, Candidate, At
  <2>3. CASE calls[e].pc \in Inside
    <3>1. GrantOf(g)' = GrantOf(g)
      BY <1>0, <1>2, <1>5, <2>3 DEF AuthorizeRun, Unused, GrantOf, Types
    <3> QED
      BY <1>0, <1>3, <2>1, <2>3, <3>1 DEF Candidate, Stored
  <2> QED
    BY <2>2, <2>3
<1>6. CASE Crash
  BY <1>1, <1>6, IdleFields DEF Crash
<1>7. CASE End(e)
  BY <1>0, <1>1, <1>7, Ends, IdleFields
<1>8. CASE Begin(e)
  BY <1>0, <1>1, <1>8, BeginMoves DEF Started
<1>9. CASE Evaluate(e)
  <2>1. /\ calls[e].pc = "evaluate" /\ ~Answered(m) /\ UNCHANGED <<source, proposals, requests, settings, runs>>
    BY <1>9 DEF Evaluate, At, trust
  <2>2. source = requests[m].base
    BY <2>1 DEF Answered
  <2>3. ASSUME ~Stored(m), Drawn1(e, "saveCandidate") PROVE Candidate(e)'
    BY <2>1, <2>3 DEF Drawn1, Candidate, At, Stored
  <2>4. ASSUME ~Review(e), Drawn1(e, "prepare") PROVE Candidate(e)'
    <3>1. calls'[e].op = "commit" => GrantOf(g)'.mode # "review-each-change"
      BY <2>1, <2>4 DEF Drawn1, Review, GrantOf
    <3> QED
      BY <2>1, <2>2, <2>4, <3>1 DEF Drawn1, Candidate, At, Stored, RevisionFor
  <2> QED
    BY <1>7, <1>9, <2>3, <2>4, Evaluates
<1>10. CASE SaveCandidate(e)
  <2>1. calls'[e].pc = "saveRecord" /\ calls'[e].m = m /\ calls[e].pc \in Inside
    BY <1>0, <1>10, Goes DEF SaveCandidate, Stages, At, Inside
  <2>2. proposals'[m].state = "candidate"
    BY <1>0, <1>2, <1>10, <2>1 DEF SaveCandidate, Types, Proposal
  <2> QED
    BY <2>1, <2>2 DEF Candidate, At, Stored
<1>11. CASE Prepare(e) \/ Authorize(e)
  <2>1. /\ calls'[e].op = calls[e].op /\ calls'[e].m = m /\ calls'[e].g = g /\ calls'[e].next = calls[e].next
        /\ \/ calls[e].pc = "prepare" /\ calls'[e].pc = "authorize"
           \/ calls[e].pc = "authorize" /\ calls'[e].pc = "replace" /\ Check(g)
    BY <1>0, <1>11, Goes DEF Prepare, Authorize, Stages, At
  <2>2. UNCHANGED <<source, proposals, requests, settings, runs, issued>>
    BY <1>11 DEF Prepare, Authorize, trust, files
  <2>3. Check(g) => Check(g)'
    BY <2>1, <2>2 DEF Check, GrantOf
  <2> QED
    BY <1>0, <2>1, <2>2, <2>3 DEF Candidate, At, Stored, GrantOf
<1>12. CASE Goes1(e) /\ ~SaveCandidate(e) /\ ~Prepare(e) /\ ~Authorize(e)
  BY <1>1, <1>12, GoesOn DEF Goes1, LockSettings, ReadSettings, ReadStatus, Lineage, LockProject, Replace,
     UnlockGuard, At
<1>13. CASE Works(e)
  BY <1>7, <1>8, <1>9, <1>10, <1>11, <1>12, <1>13, StepOf
     DEF Works, Fails, WriteSettings, RevokeRun, SaveRecord, Finalize
<1> QED
  BY <1>4, <1>5, <1>6, <1>13, NextCases
-----------------------------------------------------------------------------
(* What is drawn fits into the bound                                       *)

LEMMA DrawingAfter ==
  ASSUME IInv, NEW c \in Calls, Works(c)
  PROVE  /\ Cardinality(Drawing)' \in Nat
         /\ calls[c].pc \in Ahead /\ calls'[c].pc \notin Ahead =>
              Cardinality(Drawing)' = Cardinality(Drawing) - 1
         /\ calls[c].pc \notin Ahead /\ calls'[c].pc \in Ahead =>
              Cardinality(Drawing)' = Cardinality(Drawing) + 1
         /\ (calls[c].pc \in Ahead <=> calls'[c].pc \in Ahead) =>
              Cardinality(Drawing)' = Cardinality(Drawing)
<1>1. \A d \in Calls : d # c => calls'[d] = calls[d]
  BY CallsMove, Stays DEF IInv, Types
<1>2. IsFiniteSet(Drawing) /\ Cardinality(Drawing) \in Nat
  BY DrawingFinite
<1>3. CASE calls[c].pc \in Ahead /\ calls'[c].pc \notin Ahead
  <2>1. c \in Drawing /\ Drawing' = Drawing \ {c}
    BY <1>1, <1>3 DEF Drawing
  <2> QED
    BY <1>2, <1>3, <2>1, FS_RemoveElement, FS_CardinalityType
<1>4. CASE calls[c].pc \notin Ahead /\ calls'[c].pc \in Ahead
  <2>1. c \notin Drawing /\ Drawing' = Drawing \cup {c}
    BY <1>1, <1>4 DEF Drawing
  <2> QED
    BY <1>2, <1>4, <2>1, FS_AddElement, FS_CardinalityType
<1>5. CASE calls[c].pc \in Ahead <=> calls'[c].pc \in Ahead
  <2>1. Drawing' = Drawing
    BY <1>1, <1>5 DEF Drawing
  <2> QED
    BY <1>2, <1>5, <2>1
<1> QED
  BY <1>3, <1>4, <1>5

LEMMA BudgetStep ==
  ASSUME IInv, Next
  PROVE  Budget'
<1>0. /\ Types /\ Budget /\ calls \in [Calls -> Call]
      /\ drawn \in Nat /\ starts \in Nat /\ settings.generation \in Nat
      /\ \A g \in Runs : runs[g] # None => runs[g].generation \in Nat
  BY SizesAssumption DEF IInv, Types, Revisions, Settings, TrustGrant, Generations
<1>1. Cardinality(Drawing) \in Nat
  BY DrawingFinite
<1>2. ASSUME Cardinality(Drawing)' \in Nat, Cardinality(Drawing)' <= Cardinality(Drawing),
             UNCHANGED <<drawn, settings, starts>>,
             \A g \in Runs : runs'[g] = runs[g] \/ runs'[g] = None
      PROVE  Budget'
  BY <1>0, <1>1, <1>2 DEF Budget
<1>3. ASSUME NEW c \in Calls, Begin(c) PROVE Budget'
  <2>1. calls[c].pc = "idle" /\ calls'[c].pc \in Ahead /\ starts' = starts + 1 /\ Works(c)
    BY <1>0, <1>3, BeginMoves DEF Started, At, Ahead, Works
  <2>2. Cardinality(Drawing)' = Cardinality(Drawing) + 1
    BY <2>1, DrawingAfter DEF Ahead
  <2> QED
    BY <1>0, <1>1, <1>3, <2>1, <2>2, BeginFrame DEF Budget
<1>4. ASSUME NEW c \in Calls, Works(c), Goes1(c) PROVE Budget'
  <2>1. calls[c].pc \in Ahead <=> calls'[c].pc \in Ahead
    BY <1>4, GoesOn DEF Ahead
  <2>2. UNCHANGED <<drawn, settings, runs, starts>>
    BY <1>4 DEF Goes1, LockSettings, ReadSettings, ReadStatus, Lineage, LockProject, SaveCandidate, Prepare,
       Authorize, Replace, UnlockGuard, trust, files
  <2> QED
    BY <1>1, <1>2, <1>4, <2>1, <2>2, DrawingAfter
<1>5. ASSUME NEW c \in Calls, Works(c), End(c)
      PROVE  /\ Cardinality(Drawing)' \in Nat
             /\ Cardinality(Drawing)' <= Cardinality(Drawing)
             /\ calls[c].pc \in Ahead => Cardinality(Drawing)' = Cardinality(Drawing) - 1
  <2>1. calls'[c].pc \notin Ahead
    BY <1>0, <1>5, Ends, IdleFields DEF Ahead
  <2> QED
    BY <1>1, <1>5, <2>1, DrawingAfter
<1>6. ASSUME NEW c \in Calls, Works(c), Fails(c) \/ SaveRecord(c) \/ Finalize(c) PROVE Budget'
  <2>1. End(c) /\ UNCHANGED <<drawn, settings, runs, starts>>
    BY <1>6 DEF Fails, SaveRecord, Finalize, trust
  <2> QED
    BY <1>2, <1>5, <1>6, <2>1
<1>7. ASSUME NEW c \in Calls, Evaluate(c) PROVE Budget'
  <2>1. Works(c) /\ calls[c].pc \in Ahead /\ UNCHANGED <<settings, runs, starts>>
    BY <1>7 DEF Evaluate, Works, Step, At, Ahead, trust
  <2>2. Cardinality(Drawing)' = Cardinality(Drawing) - 1
    <3>1. calls'[c].pc \notin Ahead
      BY <1>0, <1>7, Evaluates, Ends, IdleFields DEF Drawn1, Ahead
    <3> QED
      BY <2>1, <3>1, DrawingAfter
  <2>3. drawn' \in Nat /\ drawn' <= drawn + 1
    BY <1>7, DrawFits DEF Revisions
  <2> QED
    BY <1>0, <1>1, <2>1, <2>2, <2>3 DEF Budget
<1>8. ASSUME NEW c \in Calls, WriteSettings(c) PROVE Budget'
  <2>1. /\ Works(c) /\ calls[c].pc \in Ahead /\ End(c) /\ UNCHANGED <<drawn, runs, starts>>
        /\ settings'.generation = settings.generation + 1
    BY <1>8 DEF WriteSettings, Works, Step, At, Ahead, files, IInv, DraftIsCurrent
  <2>2. Cardinality(Drawing)' = Cardinality(Drawing) - 1
    BY <1>5, <2>1
  <2> QED
    BY <1>0, <1>1, <2>1, <2>2 DEF Budget
<1>9. ASSUME NEW c \in Calls, RevokeRun(c) PROVE Budget'
  <2> DEFINE h == calls[c].g
  <2>1. /\ Works(c) /\ calls[c].pc \in Ahead /\ End(c) /\ UNCHANGED <<drawn, settings, starts>>
        /\ runs' = [runs EXCEPT ![h] = Tombstone(runs[h], runs[h].generation + 1)]
    BY <1>9 DEF RevokeRun, Works, Step, At, Ahead, files
  <2>2. Cardinality(Drawing)' = Cardinality(Drawing) - 1
    BY <1>5, <2>1
  <2>3. h \in Runs /\ runs[h] # None /\ runs[h] \in TrustGrant
    BY <1>0, <1>9 DEF IInv, Subject, RevokeRun, Types, At
  <2>4. runs'[h].generation = runs[h].generation + 1 /\ \A g \in Runs : g # h => runs'[g] = runs[g]
    BY <1>0, <2>1, <2>3 DEF Types, Tombstone, TrustGrant
  <2>5. ASSUME NEW g \in Runs, runs'[g] # None PROVE runs'[g].generation + Cardinality(Drawing)' <= starts' + 1
    <3>1. CASE g = h
      BY <1>0, <1>1, <2>1, <2>2, <2>3, <2>4, <3>1 DEF Budget
    <3>2. CASE g # h
      BY <1>0, <1>1, <2>1, <2>2, <2>4, <2>5, <3>2 DEF Budget
    <3> QED
      BY <3>1, <3>2
  <2> QED
    BY <1>0, <1>1, <2>1, <2>2, <2>5 DEF Budget
<1>10. ASSUME NEW h \in Runs, NEW mode \in Modes, AuthorizeRun(h, mode) PROVE Budget'
  <2>1. /\ UNCHANGED <<drawn, settings, starts>> /\ Drawing' = Drawing
        /\ runs' = [runs EXCEPT ![h] = [generation |-> 1, mode |-> mode, revoked |-> FALSE]]
    BY <1>10 DEF AuthorizeRun, files, Drawing
  <2>2. ASSUME NEW g \in Runs, runs'[g] # None PROVE runs'[g].generation + Cardinality(Drawing) <= starts + 1
    <3>1. CASE g = h
      BY <1>0, <1>1, <2>1, <3>1 DEF Budget, Types
    <3>2. CASE g # h
      BY <1>0, <2>1, <2>2, <3>2 DEF Budget, Types
    <3> QED
      BY <3>1, <3>2
  <2> QED
    BY <1>0, <2>1, <2>2 DEF Budget
<1>11. CASE Crash
  <2>1. Drawing' = {}
    BY <1>11, IdleFields DEF Crash, Drawing, Ahead
  <2>2. Cardinality(Drawing)' = 0
    BY <2>1, FS_EmptySet
  <2> QED
    BY <1>1, <1>2, <1>11, <2>2 DEF Crash
<1>12. ASSUME NEW c \in Calls, Works(c) PROVE Budget'
  BY <1>3, <1>4, <1>6, <1>7, <1>8, <1>9, <1>12, StepOf DEF Works
<1> QED
  BY <1>10, <1>11, <1>12, NextCases
-----------------------------------------------------------------------------
(* The theorems                                                            *)

LEMMA InitIInv == Init => IInv
<1> SUFFICES ASSUME Init PROVE IInv
  OBVIOUS
<1>1. /\ \A c \in Calls : calls[c] = Idle
      /\ calls \in [Calls -> Call]
  BY IdleFields DEF Init
<1>2. /\ settings \in Settings /\ settings.generation = 1
      /\ \A g \in Remembered : settings.grants[g] # None =>
           settings.grants[g].generation = 1 /\ ~settings.grants[g].revoked
  BY SizesAssumption DEF Init, Settings, Generations
<1>3. Types
  <2>1. issued \in [Grants -> Generations]
    BY SizesAssumption DEF Init, Generations
  <2>2. Unsaved \in Proposal
    BY SizesAssumption DEF Unsaved, Proposal, Revisions
  <2>3. [next |-> 0, marker |-> FALSE] \in Journal
    BY SizesAssumption DEF Journal, Revisions
  <2>4. /\ runs \in [Runs -> TrustGrant \cup {None}] /\ locks \in [Locks -> Calls \cup {None}]
        /\ requests \in [Mutations -> Request \cup {None}]
        /\ source \in Revisions /\ drawn \in Revisions /\ source <= drawn
        /\ starts \in 0..MaxStarts /\ faults \in 0..MaxFaults
    BY SizesAssumption DEF Init, Revisions
  <2>5. proposals \in [Mutations -> Proposal] /\ journals \in [Mutations -> Journal]
    BY <2>2, <2>3 DEF Init
  <2> QED
    BY <1>1, <1>2, <2>1, <2>4, <2>5 DEF Types
<1>4. \A c \in Calls : Subject(c) /\ Candidate(c)
  BY <1>1, IdleFields DEF Subject, Settles, Commits, Candidate, At
<1>5. GrantsApart /\ LocksHeld /\ DraftIsCurrent
  BY <1>1, IdleFields, HeldStages, NoneAssumption
     DEF Init, GrantsApart, Settles, LocksHeld, Holds, Inside, DraftIsCurrent, At
<1>6. Budget
  <2>1. Drawing = {}
    BY <1>1, IdleFields DEF Drawing, Ahead
  <2>2. Cardinality(Drawing) = 0
    BY <2>1, FS_EmptySet
  <2> QED
    BY <1>2, <2>2 DEF Init, Budget
<1>7. AtMostOneLive
  <2> DEFINE Kept == {g \in Remembered : settings.grants[g] # None}
  <2>1. IsFiniteSet(Kept) /\ Cardinality(Kept) \in Nat /\ Cardinality(Kept) <= 1
    BY FiniteAssumption, FS_Subset, FS_CardinalityType DEF Init
  <2>2. ASSUME NEW g \in Kept, NEW h \in Kept PROVE g = h
    <3>1. Cardinality(Kept) = 1
      BY <2>1, FS_EmptySet
    <3>2. PICK x : Kept = {x}
      BY <2>1, <3>1, FS_Singleton
    <3> QED
      BY <3>2
  <2> QED
    BY <2>2 DEF AtMostOneLive
<1>8. Drawn /\ ProposalsFit
  BY <1>1, IdleFields DEF Init, Drawn, ProposalsFit, Stored, Unsaved
<1> QED
  BY <1>3, <1>4, <1>5, <1>6, <1>7, <1>8 DEF IInv

LEMMA NextIInv == IInv /\ [Next]_vars => IInv'
<1>1. CASE Next
  BY <1>1, TypesStep, SubjectStep, GrantsApartStep, LocksHeldStep, BudgetStep, DraftIsCurrentStep,
     AtMostOneLiveStep, DrawnStep, ProposalsFitStep, CandidateStep DEF IInv
<1>2. CASE UNCHANGED vars
  BY <1>2 DEF vars, IInv, Types, Subject, Settles, Commits, GrantsApart, LocksHeld, Holds, Budget, Drawing,
     DraftIsCurrent, AtMostOneLive, Drawn, ProposalsFit, Candidate, Check, GrantOf, Stored, At
<1> QED
  BY <1>1, <1>2

(* The inductive invariant holds of every state a process reaches, however *)
(* many calls it runs, grants it makes and faults it meets.                *)
THEOREM Invariance == Spec => []IInv
BY InitIInv, NextIInv, PTL DEF Spec

(* The invariant implies what settings, stored proposals, journals and     *)
(* locks promise of their types: a lock is held only by a call that is in  *)
(* one of the stages the lock protects, whichever way calls end.           *)
THEOREM TypeCorrect == Spec => []TypeOK
<1>1. IInv => TypeOK
  <2> SUFFICES ASSUME IInv PROVE TypeOK
    OBVIOUS
  <2>1. Types
    BY DEF IInv
  <2>2. ASSUME NEW l \in Locks, locks[l] # None PROVE calls[locks[l]].pc \in HeldAt(l)
    <3>1. PICK c \in Calls : locks[l] = c /\ Holds(c, l)
      BY <2>1, <2>2 DEF IInv, LocksHeld, Types
    <3>2. l = "project" \/ l = "settings" \/ l \in Runs
      BY DEF Locks
    <3> QED
      BY <3>1, <3>2, HeldStages, GrantsAssumption DEF Holds, Inside
  <2>3. \A c \in Calls : calls[c].draft \in Settings \cup {None}
    BY <2>1 DEF Types, Call
  <2> QED
    BY <2>1, <2>2, <2>3 DEF TypeOK, Types, Journal
<1> QED
  BY <1>1, Invariance, PTL

LEMMA OneIsLeft == IInv => OneRememberedGrant
<1> SUFFICES ASSUME IInv PROVE OneRememberedGrant
  OBVIOUS
<1> DEFINE Live == {g \in Remembered : settings.grants[g] # None /\ ~settings.grants[g].revoked}
<1>1. IsFiniteSet(Live)
  BY FiniteAssumption, FS_Subset
<1>2. CASE Live = {}
  BY <1>2, FS_EmptySet DEF OneRememberedGrant
<1>3. CASE Live # {}
  <2>1. PICK g : g \in Live
    BY <1>3
  <2>2. Live = {g}
    BY <2>1 DEF IInv, AtMostOneLive
  <2>3. Cardinality(Live) = 1
    BY <2>2, FS_Singleton
  <2> QED
    BY <2>3 DEF OneRememberedGrant
<1> QED
  BY <1>2, <1>3

(* Settings operations of any number of processes leave at most one        *)
(* remembered grant that authorizes; a grant that was revoked, replaced or *)
(* forgotten never authorizes again; and deployment.yaml is replaced only  *)
(* while the grant of the call that replaces it authorizes.                *)
THEOREM GrantsAreKept == Spec => GrantsHold
<1>1. IInv /\ [Next]_vars => [DeadGrantsStayDead /\ GrantCoversReplacement]_vars
  <2> SUFFICES ASSUME IInv, Next PROVE DeadGrantsStayDead /\ GrantCoversReplacement
    OBVIOUS
  <2>1. DeadGrantsStayDead
    BY GrantChanges DEF DeadGrantsStayDead, Check, GrantOf
  <2>2. ASSUME source' # source PROVE \E c \in Calls : At(c, "replace") /\ Check(calls[c].g)
    <3>1. PICK c \in Calls : Replace(c)
      BY <2>2, SourceFrame, NextCases DEF AuthorizeRun, Crash, files
    <3> QED
      BY <3>1 DEF Replace, IInv, Candidate
  <2> QED
    BY <2>1, <2>2 DEF GrantCoversReplacement
<1> QED
  BY <1>1, OneIsLeft, Invariance, PTL DEF Spec, GrantsHold

(* Under a grant that demands review, deployment.yaml changes only to the  *)
(* candidate that was stored for its base, and only through an approval.   *)
THEOREM ReviewsAreKept == Spec => ReviewedCandidate
<1> DEFINE Reviewed ==
      \A c \in Calls :
        /\ source' # source /\ At(c, "replace")
        /\ GrantOf(calls[c].g).mode = "review-each-change"
        => LET m == calls[c].m
           IN calls[c].op = "apply" /\ Stored(m) /\ source = proposals[m].base
              /\ source' = proposals[m].next
<1>1. IInv /\ [Next]_vars => [Reviewed]_vars
  <2> SUFFICES ASSUME IInv, Next, NEW c \in Calls, source' # source, At(c, "replace"),
                      GrantOf(calls[c].g).mode = "review-each-change"
               PROVE  LET m == calls[c].m
                      IN calls[c].op = "apply" /\ Stored(m) /\ source = proposals[m].base
                         /\ source' = proposals[m].next
    OBVIOUS
  <2>1. PICK d \in Calls : Replace(d)
    BY SourceFrame, NextCases DEF AuthorizeRun, Crash, files
  <2>2. c = d
    BY <2>1, Excluded DEF Replace, At, Inside
  <2>3. source' = calls[c].next /\ source = requests[calls[c].m].base
    BY <2>1, <2>2 DEF Replace, IInv, Candidate, At
  <2>4. /\ calls[c].op = "apply" /\ calls[c].m \in Mutations /\ Stored(calls[c].m)
        /\ calls[c].next = proposals[calls[c].m].next
    BY DEF IInv, Candidate, Subject, Commits, Check, At
  <2> QED
    BY <2>3, <2>4 DEF IInv, ProposalsFit
<1>2. ReviewedCandidate <=> [][Reviewed]_vars
  BY DEF ReviewedCandidate
<1> QED
  BY <1>1, <1>2, Invariance, PTL DEF Spec

(* Who has a guard, or holds the settings lock for itself, waits for       *)
(* nothing; and who has the project lock waits at most for a guard.        *)
LEMMA WaitsAreShort ==
  ASSUME IInv
  PROVE  NoCircle
<1>1. Types /\ LocksHeld /\ \A c \in Calls : Subject(c)
  BY DEF IInv
<1>2. ASSUME NEW l \in Locks, locks[l] # None
      PROVE  locks[l] \in Busy /\ Holds(locks[l], l)
  <2>1. locks[l] \in Calls /\ Holds(locks[l], l)
    BY <1>1, <1>2 DEF Types, LocksHeld
  <2> QED
    BY <2>1 DEF Holds, HeldAt, At, Busy
<1>3. ASSUME NEW l \in Locks \ {"project"}, locks[l] # None
      PROVE  locks[l] \in Busy /\ ~Blocked(locks[l])
  <2>1. locks[l] \in Busy
    BY <1>2, <1>3
  <2>2. calls[locks[l]].pc \in {"readSettings", "writeSettings", "replace", "unlockGuard"}
    BY <1>2, <1>3 DEF Holds
  <2> QED
    BY <2>1, <2>2 DEF Blocked, Awaited, At
<1>4. ASSUME NEW c \in Busy, Blocked(c), calls[c].pc # "lockProject"
      PROVE  \E d \in Calls : Hinders(d, c) /\ ~Blocked(d)
  <2>1. PICK l \in Locks \ {"project"} :
          /\ locks[l] # None
          /\ (Awaited(c) # "none" /\ Awaited(c) = l) \/ (At(c, "revokeRun") /\ calls[c].g = l)
    <3>1. CASE At(c, "revokeRun")
      BY <1>1, <1>4, <3>1, GrantsAssumption DEF Busy, Blocked, Awaited, At, Subject, Locks
    <3>2. CASE At(c, "lockSettings")
      BY <1>4, <3>2 DEF Blocked, Awaited, At, Locks
    <3>3. CASE At(c, "evaluate") \/ At(c, "authorize")
      <4>1. calls[c].g \in Grants
        BY <1>1, <1>4, <3>3 DEF Busy, Subject, Commits, At
      <4>2. Guard(calls[c].g) \in Locks \ {"project"}
        BY <4>1, GrantsAssumption DEF Guard, Locks
      <4>3. Awaited(c) = Guard(calls[c].g) /\ ~At(c, "revokeRun")
        BY <3>3 DEF Awaited, At
      <4>4. Awaited(c) # "none" /\ locks[Awaited(c)] # None
        BY <1>4, <4>3 DEF Blocked
      <4> QED
        BY <4>2, <4>3, <4>4
    <3> QED
      BY <1>4, <3>1, <3>2, <3>3 DEF Blocked, Awaited, At
  <2>2. locks[l] \in Calls /\ Hinders(locks[l], c) /\ ~Blocked(locks[l])
    BY <1>3, <2>1 DEF Hinders, Busy
  <2> QED
    BY <2>2
<1>5. ASSUME NEW c \in Busy, Blocked(c), calls[c].pc = "lockProject"
      PROVE  \E d \in Calls : Hinders(d, c) /\ calls[d].pc # "lockProject"
  <2>1. Awaited(c) = "project" /\ locks["project"] # None /\ "project" \in Locks
    BY <1>5 DEF Blocked, Awaited, At, Locks
  <2>2. locks["project"] \in Busy /\ calls[locks["project"]].pc # "lockProject"
    BY <1>2, <2>1 DEF Holds, HeldAt
  <2>3. locks["project"] \in Calls /\ Hinders(locks["project"], c)
    BY <2>1, <2>2 DEF Hinders, Busy
  <2> QED
    BY <2>2, <2>3
<1>6. ASSUME NEW c \in Busy, Blocked(c)
      PROVE  \E d \in Calls : /\ Hinders(d, c)
                              /\ Blocked(d) => \E e \in Calls : Hinders(e, d) /\ ~Blocked(e)
  <2>1. CASE calls[c].pc # "lockProject"
    BY <1>4, <1>6, <2>1
  <2>2. CASE calls[c].pc = "lockProject"
    <3>1. PICK d \in Calls : Hinders(d, c) /\ calls[d].pc # "lockProject"
      BY <1>5, <1>6, <2>2
    <3>2. d \in Busy
      BY <3>1 DEF Hinders
    <3> QED
      BY <1>4, <3>1, <3>2
  <2> QED
    BY <2>1, <2>2
<1> QED
  BY <1>6 DEF NoCircle

(* No calls wait on one another in a circle, however many there are and    *)
(* however they fail: a chain of waits has two links at most, and ends at  *)
(* a call that goes on without any timeout.                                *)
THEOREM NobodyWaitsInCircles == Spec => []NoCircle
<1>1. IInv => NoCircle
  BY WaitsAreShort
<1> QED
  BY <1>1, Invariance, PTL
-----------------------------------------------------------------------------
(* The commits keep the ledger                                             *)

(* The stages in which a call has a candidate that is not the source yet.  *)
Making == {"saveCandidate", "saveRecord", "prepare", "authorize", "replace"}

(* Which mutation a revision was drawn for: by its journal, by its stored  *)
(* proposal, or by the call that makes it.                                 *)
Claims(m, r) ==
  \/ Begun(m) /\ journals[m].next = r
  \/ Stored(m) /\ proposals[m].next = r
  \/ \E c \in Calls : calls[c].pc \in Making /\ calls[c].m = m /\ calls[c].next = r

RevisionsApart == \A m, n \in Mutations, r \in Revisions : Claims(m, r) /\ Claims(n, r) => m = n
ClaimsDrawn ==
  /\ \A m \in Mutations, r \in Revisions : Claims(m, r) => r # 0 /\ r <= drawn
  /\ \A r \in Revisions : Used(r) => r <= drawn

(* What has not been put in place is nobody's source and nobody's base.    *)
StillUnused ==
  /\ \A m \in Mutations : Stored(m) /\ ~Begun(m) => ~Used(proposals[m].next)
  /\ \A c \in Calls : calls[c].pc \in Making => ~Used(calls[c].next)

(* What the journal of its mutation says to a call at each stage.          *)
Journaled(c) ==
  LET m == calls[c].m
  IN /\ calls[c].pc \in {"saveCandidate", "saveRecord", "prepare"} => ~Begun(m)
     /\ calls[c].pc \in {"authorize", "replace"} =>
          journals[m].next = calls[c].next /\ ~journals[m].marker
     /\ calls[c].pc \in {"unlockGuard", "finalize"} => Begun(m) /\ source = journals[m].next
MarkersFit == \A m \in Mutations : journals[m].marker => Begun(m)

LInv == /\ IInv /\ RevisionsApart /\ ClaimsDrawn /\ StillUnused /\ MarkersFit
        /\ \A c \in Calls : Journaled(c)

LEMMA JournalsFrame ==
  ASSUME NEW c \in Calls, Works(c), ~Prepare(c), ~Finalize(c)
  PROVE  UNCHANGED journals
<1>1. CASE Goes1(c)
  BY <1>1 DEF Goes1, LockSettings, ReadSettings, ReadStatus, Lineage, LockProject, SaveCandidate,
     Authorize, Replace, UnlockGuard, files
<1> QED
  BY <1>1, BeginFrame, StepOf DEF Works, Fails, Evaluate, WriteSettings, RevokeRun, SaveRecord, files

LEMMA RequestsFrame ==
  ASSUME NEW c \in Calls, Works(c), ~Begin(c)
  PROVE  UNCHANGED requests
<1>1. CASE Goes1(c)
  BY <1>1 DEF Goes1, LockSettings, ReadSettings, ReadStatus, Lineage, LockProject, SaveCandidate, Prepare,
     Authorize, Replace, UnlockGuard, files
<1> QED
  BY <1>1, StepOf DEF Works, Fails, Evaluate, WriteSettings, RevokeRun, SaveRecord, Finalize, files

(* A request is built on the source, so only Replace puts a revision to use. *)
LEMMA UsedStays ==
  ASSUME IInv, NEW c \in Calls, Works(c), ~Replace(c), NEW r
  PROVE  Used(r)' <=> Used(r)
<1>1. UNCHANGED source
  BY SourceFrame
<1>2. CASE UNCHANGED requests
  BY <1>1, <1>2 DEF Used
<1>3. ASSUME NEW m \in Mutations, NEW s \in Mutations \cup {None}, requests[m] = None,
             requests' = [requests EXCEPT ![m] = [base |-> source, supersedes |-> s]]
      PROVE  Used(r)' <=> Used(r)
  <2>1. requests \in [Mutations -> Request \cup {None}]
    BY DEF IInv, Types
  <2>2. requests'[m].base = source /\ \A n \in Mutations : n # m => requests'[n] = requests[n]
    BY <1>3, <2>1
  <2> QED
    BY <1>1, <1>3, <2>2 DEF Used
<1> QED
  BY <1>2, <1>3, BeginFrame, RequestsFrame

LEMMA ReplaceFacts ==
  ASSUME LInv, NEW c \in Calls, Replace(c)
  PROVE  /\ calls[c].pc = "replace" /\ calls'[c].pc = "unlockGuard"
         /\ calls'[c].m = calls[c].m /\ calls'[c].next = calls[c].next
         /\ calls[c].m \in Mutations /\ calls[c].next \in Revisions
         /\ source' = calls[c].next /\ UNCHANGED <<requests, journals, proposals, drawn>>
         /\ requests[calls[c].m] # None /\ requests[calls[c].m].base = source
         /\ Begun(calls[c].m) /\ journals[calls[c].m].next = calls[c].next
         /\ ~journals[calls[c].m].marker /\ ~Used(calls[c].next)
         /\ \A r : Used(r)' <=> Used(r) \/ r = calls[c].next
<1>1. /\ calls[c].pc = "replace" /\ source' = calls[c].next /\ Goto(c, "unlockGuard")
      /\ UNCHANGED <<requests, journals, proposals, drawn>>
  BY DEF Replace, At
<1>2. /\ calls'[c].pc = "unlockGuard" /\ calls'[c].m = calls[c].m /\ calls'[c].next = calls[c].next
      /\ calls[c].next \in Revisions
  BY <1>1, Goes DEF LInv, IInv, Types, Call, Stages
<1>3. /\ calls[c].m \in Mutations /\ requests[calls[c].m] # None /\ requests[calls[c].m].base = source
  BY <1>1 DEF LInv, IInv, Subject, Commits, Candidate
<1>4. /\ journals[calls[c].m].next = calls[c].next /\ ~journals[calls[c].m].marker
      /\ ~Used(calls[c].next)
  BY <1>1 DEF LInv, Journaled, StillUnused, Making
<1>5. calls[c].next # 0
  BY <1>1, <1>2, <1>3 DEF LInv, ClaimsDrawn, Claims, Making
<1>6. Begun(calls[c].m)
  BY <1>4, <1>5 DEF Begun
<1>7. \A r : Used(r)' <=> Used(r) \/ r = calls[c].next
  BY <1>1, <1>3 DEF Used
<1> QED
  BY <1>1, <1>2, <1>3, <1>4, <1>6, <1>7

(* A journal is begun for the revision that its call has in hand.          *)
LEMMA PrepareFacts ==
  ASSUME LInv, NEW c \in Calls, Prepare(c)
  PROVE  /\ calls[c].pc = "prepare" /\ calls[c].m \in Mutations /\ ~Begun(calls[c].m)
         /\ calls[c].next \in Revisions /\ calls[c].next # 0 /\ ~Used(calls[c].next)
         /\ ~journals[calls[c].m].marker
         /\ journals'[calls[c].m].next = calls[c].next /\ ~journals'[calls[c].m].marker
         /\ \A n \in Mutations : n # calls[c].m => journals'[n] = journals[n]
         /\ UNCHANGED <<source, requests, proposals, drawn>>
<1>1. /\ calls[c].pc = "prepare" /\ journals' = [journals EXCEPT ![calls[c].m].next = calls[c].next]
      /\ UNCHANGED <<source, requests, proposals, drawn>>
  BY DEF Prepare, At
<1>2. calls[c].m \in Mutations /\ calls[c].next \in Revisions /\ journals \in [Mutations -> Journal]
  BY <1>1 DEF LInv, IInv, Types, Call, Subject, Commits
<1>3. ~Begun(calls[c].m) /\ ~Used(calls[c].next)
  BY <1>1 DEF LInv, Journaled, StillUnused, Making
<1>4. calls[c].next # 0
  BY <1>1, <1>2 DEF LInv, ClaimsDrawn, Claims, Making
<1>5. ~journals[calls[c].m].marker
  BY <1>2, <1>3 DEF LInv, MarkersFit
<1>6. /\ journals'[calls[c].m].next = calls[c].next
      /\ journals'[calls[c].m].marker = journals[calls[c].m].marker
      /\ \A n \in Mutations : n # calls[c].m => journals'[n] = journals[n]
  BY <1>1, <1>2 DEF Journal
<1> QED
  BY <1>1, <1>2, <1>3, <1>4, <1>5, <1>6

LEMMA FinalizeFacts ==
  ASSUME LInv, NEW c \in Calls, Finalize(c)
  PROVE  /\ calls[c].pc = "finalize" /\ calls[c].m \in Mutations /\ Begun(calls[c].m)
         /\ source = journals[calls[c].m].next
         /\ \A n \in Mutations : /\ journals'[n].next = journals[n].next
                                 /\ n # calls[c].m => journals'[n] = journals[n]
         /\ UNCHANGED <<source, requests, proposals, drawn>>
<1>1. /\ calls[c].pc = "finalize" /\ journals' = [journals EXCEPT ![calls[c].m].marker = TRUE]
      /\ UNCHANGED <<source, requests, proposals, drawn>>
  BY DEF Finalize, At
<1>2. calls[c].m \in Mutations /\ journals \in [Mutations -> Journal]
  BY <1>1 DEF LInv, IInv, Types, Subject, Commits
<1>3. Begun(calls[c].m) /\ source = journals[calls[c].m].next
  BY <1>1 DEF LInv, Journaled
<1>4. \A n \in Mutations : /\ journals'[n].next = journals[n].next
                           /\ n # calls[c].m => journals'[n] = journals[n]
  BY <1>1, <1>2 DEF Journal
<1> QED
  BY <1>1, <1>2, <1>3, <1>4

LEMMA BegunStays ==
  ASSUME LInv, Next, NEW m \in Mutations, Begun(m)
  PROVE  Begun(m)' /\ journals'[m].next = journals[m].next
<1>1. CASE UNCHANGED journals
  BY <1>1 DEF Begun
<1>2. ASSUME NEW c \in Calls, Prepare(c) PROVE Begun(m)' /\ journals'[m].next = journals[m].next
  <2>1. m # calls[c].m
    BY <1>2, PrepareFacts
  <2> QED
    BY <1>2, <2>1, PrepareFacts DEF Begun
<1>3. ASSUME NEW c \in Calls, Finalize(c) PROVE Begun(m)' /\ journals'[m].next = journals[m].next
  BY <1>3, FinalizeFacts DEF Begun
<1> QED
  BY <1>1, <1>2, <1>3, JournalsFrame, NextCases DEF AuthorizeRun, Crash, files

(* A revision is claimed by the mutation that claimed it before, or it has *)
(* just been drawn.                                                        *)
Draws(m, r) == \E c \in Calls : Evaluate(c) /\ m = calls[c].m /\ r = drawn + 1 /\ drawn' = drawn + 1

LEMMA WorkersClaims ==
  ASSUME LInv, NEW c \in Calls, Works(c), NEW m \in Mutations, NEW r \in Revisions,
         calls'[c].pc \in Making, calls'[c].m = m, calls'[c].next = r
  PROVE  Claims(m, r) \/ Draws(m, r)
<1>0. Types /\ calls \in [Calls -> Call]
  BY DEF LInv, IInv, Types
<1>1. CASE Begin(c)
  BY <1>0, <1>1, BeginMoves DEF Started, Making
<1>2. CASE End(c)
  BY <1>0, <1>2, Ends, IdleFields DEF Making
<1>3. CASE Goes1(c)
  <2>1. calls'[c].m = calls[c].m /\ calls'[c].next = calls[c].next /\ calls[c].pc \in Making
    BY <1>3, GoesOn DEF LInv, Making
  <2> QED
    BY <2>1 DEF Claims
<1>4. CASE Evaluate(c)
  <2>1. calls[c].m = m /\ r = RevisionFor(m)
    BY <1>2, <1>4, Evaluates, Ends, IdleFields DEF LInv, Drawn1, IInv, Types, Making
  <2>2. CASE Stored(m)
    BY <2>1, <2>2 DEF RevisionFor, Claims
  <2>3. CASE ~Stored(m)
    <3>1. r = drawn + 1 /\ drawn' = IF r > drawn THEN drawn + 1 ELSE drawn
      BY <1>4, <2>1, <2>3 DEF RevisionFor, Evaluate
    <3>2. drawn \in Nat
      BY <1>0 DEF Types, Revisions
    <3>3. drawn' = drawn + 1
      BY <3>1, <3>2
    <3> QED
      BY <1>4, <2>1, <3>1, <3>3 DEF Draws
  <2> QED
    BY <2>2, <2>3
<1> QED
  BY <1>1, <1>2, <1>3, <1>4, StepOf DEF Works, Fails, WriteSettings, RevokeRun, SaveRecord, Finalize

LEMMA ClaimsStay ==
  ASSUME LInv, Next, NEW m \in Mutations, NEW r \in Revisions, Claims(m, r)'
  PROVE  Claims(m, r) \/ Draws(m, r)
<1>0. Types /\ calls \in [Calls -> Call]
  BY DEF LInv, IInv, Types
<1>1. ASSUME NEW c \in Calls, Works(c) PROVE Claims(m, r) \/ Draws(m, r)
  <2>1. ASSUME Begun(m)', journals'[m].next = r PROVE Claims(m, r)
    <3>1. CASE Prepare(c) /\ m = calls[c].m
      BY <2>1, <3>1, PrepareFacts DEF Claims, Making
    <3>2. CASE Prepare(c) /\ m # calls[c].m
      BY <2>1, <3>2, PrepareFacts DEF Claims, Begun
    <3>3. CASE Finalize(c)
      BY <2>1, <3>3, FinalizeFacts DEF Claims, Begun
    <3> QED
      BY <1>1, <2>1, <3>1, <3>2, <3>3, JournalsFrame DEF Claims, Begun
  <2>2. ASSUME Stored(m)', proposals'[m].next = r PROVE Claims(m, r)
    <3>1. CASE SaveRecord(c) /\ m = calls[c].m
      BY <2>2, <3>1, Saves DEF LInv, Claims, Making, SaveRecord, At
    <3>2. CASE SaveRecord(c) /\ m # calls[c].m
      BY <2>2, <3>2, Saves DEF LInv, Claims, Stored
    <3>3. CASE ~SaveRecord(c)
      BY <1>1, <2>2, <3>3, ProposalsFrame DEF LInv, Claims, Stored
    <3> QED
      BY <3>1, <3>2, <3>3
  <2>3. ASSUME NEW d \in Calls, calls'[d].pc \in Making, calls'[d].m = m, calls'[d].next = r
        PROVE  Claims(m, r) \/ Draws(m, r)
    <3>1. CASE d = c
      BY <1>1, <2>3, <3>1, WorkersClaims
    <3>2. CASE d # c
      <4>1. calls'[d] = calls[d]
        BY <1>0, <1>1, <3>2, CallsMove, Stays DEF LInv
      <4> QED
        BY <2>3, <4>1 DEF Claims
    <3> QED
      BY <3>1, <3>2
  <2> QED
    BY <2>1, <2>2, <2>3 DEF Claims
<1>2. CASE Crash
  <2>1. /\ proposals'[m].next = proposals[m].next
        /\ proposals'[m].state = "stored" <=> proposals[m].state = "stored"
        /\ UNCHANGED journals /\ \A d \in Calls : calls'[d].pc = "idle"
    BY <1>2, Damages, IdleFields DEF LInv, Crash
  <2> QED
    BY <2>1 DEF Claims, Begun, Stored, Making
<1>3. ASSUME NEW g \in Runs, NEW mode \in Modes, AuthorizeRun(g, mode) PROVE Claims(m, r)
  BY <1>3 DEF AuthorizeRun, files, Claims, Begun, Stored
<1> QED
  BY <1>1, <1>2, <1>3, NextCases

LEMMA RevisionsApartStep ==
  ASSUME LInv, Next
  PROVE  RevisionsApart' /\ \A m \in Mutations, r \in Revisions : Claims(m, r)' => r # 0 /\ r <= drawn'
<1>1. drawn \in Nat /\ drawn' \in Nat /\ drawn <= drawn'
  BY DrawnGrows, TypesStep DEF LInv, IInv, Types, Revisions
<1>2. ASSUME NEW m \in Mutations, NEW n \in Mutations, NEW r \in Revisions, Claims(m, r)', Claims(n, r)'
      PROVE  m = n
  <2>1. CASE Claims(m, r) /\ Claims(n, r)
    BY <2>1 DEF LInv, RevisionsApart
  <2>2. CASE Draws(m, r) /\ Draws(n, r)
    <3>1. PICK c \in Calls : Evaluate(c) /\ m = calls[c].m
      BY <2>2 DEF Draws
    <3>2. PICK d \in Calls : Evaluate(d) /\ n = calls[d].m
      BY <2>2 DEF Draws
    <3>3. c = d
      BY <3>1, <3>2, Excluded DEF LInv, Evaluate, At, Inside
    <3> QED
      BY <3>1, <3>2, <3>3
  <2>3. ASSUME NEW k \in Mutations, Claims(k, r), r = drawn + 1 PROVE FALSE
    <3>1. r <= drawn
      BY <2>3 DEF LInv, ClaimsDrawn
    <3> QED
      BY <1>1, <2>3, <3>1
  <2> QED
    BY <1>2, <2>1, <2>2, <2>3, ClaimsStay DEF Draws
<1>3. ASSUME NEW m \in Mutations, NEW r \in Revisions, Claims(m, r)' PROVE r # 0 /\ r <= drawn'
  <2>0. r \in Nat
    BY DEF Revisions
  <2>1. CASE Claims(m, r)
    <3>1. r # 0 /\ r <= drawn
      BY <2>1 DEF LInv, ClaimsDrawn
    <3> QED
      BY <1>1, <2>0, <3>1
  <2>2. CASE Draws(m, r)
    <3>1. r = drawn + 1 /\ drawn' = drawn + 1
      BY <2>2 DEF Draws
    <3> QED
      BY <1>1, <3>1
  <2> QED
    BY <1>3, <2>1, <2>2, ClaimsStay
<1> QED
  BY <1>2, <1>3 DEF RevisionsApart

(* Only what a call replaces the source by comes into use.                 *)
LEMMA UsedGrows ==
  ASSUME LInv, Next, NEW r
  PROVE  /\ Used(r) => Used(r)'
         /\ Used(r)' => Used(r) \/ \E c \in Calls : Replace(c) /\ r = calls[c].next
<1>1. ASSUME NEW c \in Calls, Works(c)
      PROVE  /\ Used(r) => Used(r)'
             /\ Used(r)' => Used(r) \/ (Replace(c) /\ r = calls[c].next)
  <2>1. CASE Replace(c)
    BY <2>1, ReplaceFacts
  <2>2. CASE ~Replace(c)
    BY <1>1, <2>2, UsedStays DEF LInv
  <2> QED
    BY <2>1, <2>2
<1>2. CASE UNCHANGED <<source, requests>>
  BY <1>2 DEF Used
<1> QED
  BY <1>1, <1>2, NextCases DEF AuthorizeRun, Crash, files

LEMMA ClaimsDrawnStep ==
  ASSUME LInv, Next
  PROVE  ClaimsDrawn'
<1>1. drawn \in Nat /\ drawn' \in Nat /\ drawn <= drawn'
  BY DrawnGrows, TypesStep DEF LInv, IInv, Types, Revisions
<1>2. ASSUME NEW r \in Revisions, Used(r)' PROVE r <= drawn'
  <2>1. CASE Used(r)
    <3>1. r <= drawn /\ r \in Nat
      BY <2>1 DEF LInv, ClaimsDrawn, Revisions
    <3> QED
      BY <1>1, <3>1
  <2>2. ASSUME NEW c \in Calls, r = calls[c].next PROVE r <= drawn'
    <3>1. r <= drawn /\ r \in Nat
      BY <2>2 DEF LInv, IInv, Drawn, Revisions
    <3> QED
      BY <1>1, <3>1
  <2> QED
    BY <1>2, <2>1, <2>2, UsedGrows
<1> QED
  BY <1>2, RevisionsApartStep DEF ClaimsDrawn

LEMMA StillUnusedStep ==
  ASSUME LInv, Next
  PROVE  StillUnused'
<1>0. Types /\ calls \in [Calls -> Call]
  BY DEF LInv, IInv, Types
<1>1. ASSUME NEW m \in Mutations, Stored(m), ~Begun(m)', NEW r, r = proposals'[m].next PROVE ~Used(r)'
  <2>1. ~Begun(m) /\ proposals[m].next = r /\ r \in Revisions /\ ~Used(r) /\ Claims(m, r)
    BY <1>0, <1>1, BegunStays, StoredStays DEF LInv, StillUnused, Types, Proposal, Claims
  <2>2. ASSUME NEW c \in Calls, Replace(c), r = calls[c].next PROVE FALSE
    <3>1. Claims(calls[c].m, r) /\ calls[c].m \in Mutations /\ Begun(calls[c].m)
      BY <2>2, ReplaceFacts DEF Claims
    <3>2. m = calls[c].m
      BY <2>1, <3>1 DEF LInv, RevisionsApart
    <3> QED
      BY <2>1, <3>1, <3>2
  <2> QED
    BY <2>1, <2>2, UsedGrows
<1>2. ASSUME NEW m \in Mutations, NEW c \in Calls, SaveRecord(c), m = calls[c].m,
             NEW r, r = proposals'[m].next
      PROVE  ~Used(r)'
  <2>1. r = calls[c].next /\ ~Used(r)
    BY <1>2, Saves DEF LInv, StillUnused, SaveRecord, At, Making
  <2>2. UNCHANGED <<source, requests>>
    BY <1>2 DEF SaveRecord
  <2> QED
    BY <2>1, <2>2 DEF Used
<1>3. ASSUME NEW m \in Mutations, Stored(m)', ~Stored(m) PROVE \E c \in Calls : SaveRecord(c) /\ m = calls[c].m
  <2>1. ASSUME NEW c \in Calls, Works(c) PROVE SaveRecord(c) /\ m = calls[c].m
    BY <1>3, <2>1, ProposalsFrame, Saves DEF LInv, Stored
  <2>2. CASE Crash
    BY <1>3, <2>2, Damages DEF LInv, Crash, Stored
  <2> QED
    BY <1>3, <2>1, <2>2, NextCases DEF AuthorizeRun, files, Stored
<1>4. ASSUME NEW e \in Calls, calls'[e].pc \in Making, NEW r, r = calls'[e].next PROVE ~Used(r)'
  <2>1. ASSUME calls'[e] = calls[e] PROVE ~Used(r)'
    <3>1. calls[e].pc \in Making /\ ~Used(r)
      BY <1>4, <2>1 DEF LInv, StillUnused
    <3>2. ASSUME NEW c \in Calls, Replace(c) PROVE FALSE
      <4>1. c # e
        BY <1>4, <3>2, ReplaceFacts DEF Making
      <4> QED
        BY <3>1, <3>2, <4>1, Excluded, ReplaceFacts DEF LInv, Making, Inside
    <3> QED
      BY <3>1, <3>2, UsedGrows
  <2>2. ASSUME Goes1(e) PROVE ~Used(r)'
    <3>1. r = calls[e].next /\ calls[e].pc \in Making /\ ~Replace(e)
      BY <1>4, <2>2, GoesOn, ReplaceFacts DEF LInv, Making
    <3>2. ~Used(r)
      BY <3>1 DEF LInv, StillUnused
    <3>3. UNCHANGED <<source, requests>>
      BY <2>2, <3>1 DEF Goes1, LockSettings, ReadSettings, ReadStatus, Lineage, LockProject, SaveCandidate,
         Prepare, Authorize, UnlockGuard, files
    <3> QED
      BY <3>2, <3>3 DEF Used
  <2>3. ASSUME Evaluate(e) PROVE ~Used(r)'
    <3> DEFINE m == calls[e].m
    <3>1. r = RevisionFor(m) /\ m \in Mutations
      BY <1>0, <1>4, <2>3, Evaluates, Ends, IdleFields DEF LInv, Drawn1, IInv, Subject, Commits, Making, Evaluate, At
    <3>2. ~Begun(m) /\ UNCHANGED <<source, requests>>
      BY <2>3 DEF Evaluate, Refused
    <3>3. ~Used(r)
      <4>1. CASE Stored(m)
        BY <3>1, <3>2, <4>1 DEF LInv, StillUnused, RevisionFor
      <4>2. CASE ~Stored(m)
        <5>1. r = drawn + 1 /\ drawn \in Nat /\ r \in Revisions
          BY <1>0, <2>3, <3>1, <4>2, DrawFits DEF LInv, RevisionFor, Types, Revisions
        <5>2. Used(r) => r <= drawn
          BY <5>1 DEF LInv, ClaimsDrawn
        <5> QED
          BY <5>1, <5>2
      <4> QED
        BY <4>1, <4>2
    <3> QED
      BY <3>2, <3>3 DEF Used
  <2>4. CASE End(e)
    BY <1>0, <1>4, <2>4, Ends, IdleFields DEF Making
  <2>5. CASE Begin(e)
    BY <1>0, <1>4, <2>5, BeginMoves DEF Started, Making
  <2>6. CASE Works(e)
    BY <2>2, <2>3, <2>4, <2>5, <2>6, StepOf DEF Works, Fails, WriteSettings, RevokeRun, SaveRecord, Finalize
  <2>7. ASSUME NEW c \in Calls, Works(c), c # e PROVE calls'[e] = calls[e]
    BY <1>0, <2>7, CallsMove, Stays DEF LInv
  <2>8. CASE Crash
    BY <1>4, <2>8, IdleFields DEF Crash, Making
  <2> QED
    BY <2>1, <2>6, <2>7, <2>8, NextCases DEF AuthorizeRun
<1>5. ASSUME NEW m \in Mutations, Stored(m)', ~Begun(m)', NEW r, r = proposals'[m].next PROVE ~Used(r)'
  BY <1>1, <1>2, <1>3, <1>5
<1> QED
  BY <1>4, <1>5 DEF StillUnused, Used

LEMMA JournaledStep ==
  ASSUME LInv, Next
  PROVE  MarkersFit' /\ \A e \in Calls : Journaled(e)'
<1>0. Types /\ calls \in [Calls -> Call]
  BY DEF LInv, IInv, Types
<1>1. ASSUME NEW m \in Mutations, journals'[m].marker PROVE Begun(m)'
  <2>1. CASE journals[m].marker
    BY <2>1, BegunStays DEF LInv, MarkersFit
  <2>2. CASE ~journals[m].marker
    <3>1. CASE UNCHANGED journals
      BY <1>1, <2>2, <3>1
    <3>2. ASSUME NEW c \in Calls, Prepare(c) PROVE FALSE
      BY <1>1, <2>2, <3>2, PrepareFacts
    <3>3. ASSUME NEW c \in Calls, Finalize(c) PROVE Begun(m)
      BY <1>1, <2>2, <3>3, FinalizeFacts
    <3> QED
      BY <3>1, <3>2, <3>3, BegunStays, JournalsFrame, NextCases DEF AuthorizeRun, Crash, files
  <2> QED
    BY <2>1, <2>2
<1>2. ASSUME NEW e \in Calls PROVE Journaled(e)'
  <2> DEFINE m == calls[e].m
  <2>1. ASSUME calls'[e].pc \notin {"saveCandidate", "saveRecord", "prepare", "authorize", "replace",
                                    "unlockGuard", "finalize"}
        PROVE  Journaled(e)'
    BY <2>1 DEF Journaled
  <2>2. ASSUME calls'[e] = calls[e], UNCHANGED <<source, journals>> PROVE Journaled(e)'
    BY <2>2 DEF LInv, Journaled, Begun
  <2>3. ASSUME NEW c \in Calls, Works(c), c # e PROVE Journaled(e)'
    <3>1. calls'[e] = calls[e]
      BY <1>0, <2>3, CallsMove, Stays DEF LInv
    <3>2. CASE calls[e].pc \in Inside
      <4>1. ~Prepare(c) /\ ~Finalize(c) /\ ~Replace(c)
        BY <2>3, <3>2, Excluded DEF LInv, Prepare, Finalize, Replace, At, Inside
      <4> QED
        BY <2>2, <2>3, <3>1, <4>1, JournalsFrame, SourceFrame
    <3>3. CASE calls[e].pc \notin Inside
      BY <2>1, <3>1, <3>3 DEF Inside
    <3> QED
      BY <3>2, <3>3
  <2>4. CASE Begin(e)
    BY <1>0, <2>1, <2>4, BeginMoves DEF Started
  <2>5. CASE End(e)
    BY <1>0, <2>1, <2>5, Ends, IdleFields
  <2>6. CASE Evaluate(e)
    <3>1. ~Begun(m) /\ UNCHANGED journals
      BY <2>6 DEF Evaluate, Refused
    <3>2. ASSUME NEW pc \in {"saveCandidate", "prepare"}, Drawn1(e, pc) PROVE Journaled(e)'
      BY <3>1, <3>2 DEF Drawn1, Journaled, Begun
    <3> QED
      BY <2>5, <2>6, <3>2, Evaluates DEF LInv
  <2>7. CASE Prepare(e)
    <3>1. calls'[e].pc = "authorize" /\ calls'[e].m = m /\ calls'[e].next = calls[e].next
      BY <1>0, <2>7, Goes DEF Prepare, Stages
    <3> QED
      BY <2>7, <3>1, PrepareFacts DEF Journaled
  <2>8. CASE Replace(e)
    BY <2>8, ReplaceFacts DEF Journaled, Begun
  <2>9. CASE SaveCandidate(e) \/ Authorize(e) \/ UnlockGuard(e)
    <3>1. /\ calls'[e].m = m /\ calls'[e].next = calls[e].next
          /\ <<calls[e].pc, calls'[e].pc>> \in {<<"saveCandidate", "saveRecord">>,
               <<"authorize", "replace">>, <<"unlockGuard", "finalize">>}
      BY <1>0, <2>9, Goes DEF SaveCandidate, Authorize, UnlockGuard, Stages, At
    <3>2. UNCHANGED <<source, journals>>
      BY <2>9 DEF SaveCandidate, Authorize, UnlockGuard, files
    <3> QED
      BY <3>1, <3>2 DEF LInv, Journaled, Begun
  <2>10. CASE LockSettings(e) \/ ReadSettings(e) \/ ReadStatus(e) \/ Lineage(e) \/ LockProject(e)
    <3>1. Goes1(e) /\ calls[e].pc \in {"lockSettings", "readSettings", "status", "lineage", "lockProject"}
      BY <2>10 DEF Goes1, LockSettings, ReadSettings, ReadStatus, Lineage, LockProject, At
    <3>2. calls'[e].pc \in {"readSettings", "writeSettings", "lockProject", "lineage", "evaluate"}
      BY <3>1, GoesOn DEF LInv
    <3> QED
      BY <2>1, <3>2
  <2>11. CASE Works(e)
    BY <2>4, <2>5, <2>6, <2>7, <2>8, <2>9, <2>10, <2>11, StepOf
       DEF Works, Goes1, Fails, WriteSettings, RevokeRun, SaveRecord, Finalize
  <2>12. CASE Crash
    BY <2>1, <2>12, IdleFields DEF Crash
  <2>13. ASSUME NEW g \in Runs, NEW mode \in Modes, AuthorizeRun(g, mode) PROVE Journaled(e)'
    BY <2>2, <2>13 DEF AuthorizeRun, files
  <2> QED
    BY <2>3, <2>11, <2>12, <2>13, NextCases
<1> QED
  BY <1>1, <1>2 DEF MarkersFit

LEMMA InitLInv == Init => LInv /\ Mutation!Init
<1> SUFFICES ASSUME Init PROVE LInv /\ Mutation!Init
  OBVIOUS
<1>1. IInv /\ source = 0 /\ source \in Revisions
  BY InitIInv DEF Init, IInv, Types
<1>2. /\ \A m \in Mutations : ~Begun(m) /\ ~journals[m].marker /\ ~Stored(m) /\ requests[m] = None
      /\ \A c \in Calls : calls[c].pc = "idle"
  BY IdleFields DEF Init, Begun, Stored, Unsaved
<1>3. \A r : Used(r) => r = 0
  BY <1>1, <1>2 DEF Used
<1>4. \A m \in Mutations : \A r : ~Claims(m, r)
  BY <1>2 DEF Claims, Making
<1>5. ClaimsDrawn
  <2>1. \A r : Used(r) => r <= drawn
    BY <1>1, <1>3 DEF IInv, Types
  <2> QED
    BY <1>4, <2>1 DEF ClaimsDrawn
<1>6. RevisionsApart /\ StillUnused /\ MarkersFit /\ \A c \in Calls : Journaled(c)
  BY <1>2, <1>4 DEF RevisionsApart, StillUnused, MarkersFit, Journaled, Making
<1>7. outcome = [m \in Mutations |-> None]
  BY <1>2 DEF outcome, Applied
<1> QED
  BY <1>1, <1>5, <1>6, <1>7 DEF LInv, Mutation!Init

LEMMA NextLInv == LInv /\ [Next]_vars => LInv'
<1>1. LInv /\ Next => LInv'
  BY NextIInv, RevisionsApartStep, ClaimsDrawnStep, StillUnusedStep, JournaledStep DEF LInv
<1>2. LInv /\ UNCHANGED vars => LInv'
  <2> SUFFICES ASSUME LInv, UNCHANGED vars PROVE LInv'
    OBVIOUS
  <2>1. IInv'
    BY NextIInv DEF LInv
  <2>2. UNCHANGED <<source, drawn, requests, proposals, journals, calls>>
    BY DEF vars
  <2> QED
    BY <2>1, <2>2 DEF LInv, RevisionsApart, ClaimsDrawn, StillUnused, MarkersFit, Journaled, Claims, Used,
       Begun, Stored
<1> QED
  BY <1>1, <1>2

(* What outcome says of each mutation decides what it is.                  *)
LEMMA OutcomeIs ==
  ASSUME NEW m \in Mutations
  PROVE  /\ outcome[m] = IF Applied(m) THEN journals[m].next ELSE None
         /\ outcome'[m] = IF Applied(m)' THEN journals'[m].next ELSE None
BY DEF outcome

LEMMA OutcomeStays ==
  ASSUME \A m \in Mutations : outcome'[m] = outcome[m]
  PROVE  outcome' = outcome
BY DEF outcome

(* The replacement of the source applies the mutation, for the first time. *)
LEMMA ReplaceApplies ==
  ASSUME LInv, NEW c \in Calls, Replace(c)
  PROVE  Mutation!Apply(calls[c].m, calls[c].next)
<1> SUFFICES ASSUME NEW m \in Mutations, m = calls[c].m, NEW r \in Revisions, r = calls[c].next
             PROVE  Mutation!Apply(m, r)
  BY ReplaceFacts
<1>1. /\ m \in Mutations /\ r \in Revisions /\ source' = r /\ UNCHANGED <<requests, journals>>
      /\ requests[m] # None /\ requests[m].base = source
      /\ Begun(m) /\ journals[m].next = r /\ ~journals[m].marker /\ ~Used(r)
  BY ReplaceFacts
<1>2. \A u : Used(u)' <=> Used(u) \/ u = r
  BY ReplaceFacts
<1>3. ASSUME NEW n \in Mutations, Begun(n), journals[n].next = r PROVE n = m
  BY <1>1, <1>3 DEF LInv, RevisionsApart, Claims
<1>4. ASSUME NEW n \in Mutations, n # m PROVE outcome'[n] = outcome[n]
  <2>1. Applied(n)' <=> Applied(n)
    <3>1. Begun(n)' <=> Begun(n)
      BY <1>1 DEF Begun
    <3>2. Begun(n) => (Used(journals[n].next)' <=> Used(journals[n].next))
      <4> SUFFICES ASSUME NEW u, u = journals[n].next, Begun(n) PROVE Used(u)' <=> Used(u)
        BY <1>1 DEF Used
      <4>1. u # r
        BY <1>3, <1>4
      <4> QED
        BY <1>2, <4>1
    <3> QED
      BY <1>1, <3>1, <3>2 DEF Applied, Used, Begun
  <2> QED
    BY <1>1, <2>1, OutcomeIs
<1>5. outcome[m] = None
  BY <1>1, OutcomeIs DEF Applied
<1>6. outcome'[m] = r
  <2>1. Applied(m)'
    BY <1>1 DEF Applied, Begun, Used
  <2> QED
    BY <1>1, <2>1, OutcomeIs
<1>7. outcome' = [outcome EXCEPT ![m] = r]
  <2>1. outcome = [n \in Mutations |-> outcome[n]] /\ outcome' = [n \in Mutations |-> outcome'[n]]
    BY DEF outcome
  <2> DEFINE f == outcome
             g == outcome'
  <2>2. f = [n \in Mutations |-> f[n]] /\ g = [n \in Mutations |-> g[n]]
    BY <2>1
  <2>3. m \in Mutations /\ g[m] = r /\ \A n \in Mutations : n # m => g[n] = f[n]
    BY <1>1, <1>4, <1>6
  <2> HIDE DEF f, g
  <2>4. g = [f EXCEPT ![m] = r]
    BY <2>2, <2>3
  <2> QED
    BY <2>4 DEF f, g
<1>8. ASSUME NEW n \in Mutations PROVE outcome[n] # r
  <2>1. r # None
    BY <1>1, NoneAssumption
  <2>2. CASE Applied(n)
    <3>1. journals[n].next # r
      BY <1>1, <1>3, <1>5, <2>1, <2>2, OutcomeIs DEF Applied
    <3> QED
      BY <2>2, <3>1, OutcomeIs
  <2> QED
    BY <2>1, <2>2, OutcomeIs
<1> QED
  BY <1>1, <1>5, <1>7, <1>8 DEF Mutation!Apply

(* Whatever else a call does, what took effect did and what did not did not. *)
LEMMA OthersKeepLedger ==
  ASSUME LInv, NEW c \in Calls, Works(c), ~Replace(c)
  PROVE  UNCHANGED <<source, outcome>>
<1>1. UNCHANGED source
  BY SourceFrame
<1>2. \A r : Used(r)' <=> Used(r)
  BY UsedStays DEF LInv
<1>3. ASSUME NEW n \in Mutations, journals'[n] = journals[n] PROVE outcome'[n] = outcome[n]
  <2>1. Used(journals[n].next)' <=> Used(journals[n].next)
    <3> SUFFICES ASSUME NEW u, u = journals[n].next PROVE Used(u)' <=> Used(u)
      BY <1>3 DEF Used
    <3> QED
      BY <1>2
  <2>2. Applied(n)' <=> Applied(n)
    BY <1>3, <2>1 DEF Applied, Used, Begun
  <2> QED
    BY <1>3, <2>2, OutcomeIs
<1>4. ASSUME NEW n \in Mutations PROVE outcome'[n] = outcome[n]
  <2>1. CASE Prepare(c) /\ n = calls[c].m
    <3>1. PICK r \in Revisions : r = calls[c].next
      BY <2>1, PrepareFacts
    <3>2. ~Begun(n) /\ ~Used(r)' /\ journals'[n].next = r /\ ~journals'[n].marker
      BY <1>2, <2>1, <3>1, PrepareFacts
    <3>3. ~Applied(n) /\ ~Applied(n)'
      BY <3>2 DEF Applied, Used
    <3> QED
      BY <3>3, OutcomeIs
  <2>2. CASE Finalize(c) /\ n = calls[c].m
    <3>1. /\ Begun(n) /\ source = journals[n].next /\ journals'[n].next = journals[n].next
      BY <2>2, FinalizeFacts
    <3>2. Applied(n) /\ Applied(n)'
      BY <1>1, <3>1 DEF Applied, Used, Begun
    <3> QED
      BY <3>1, <3>2, OutcomeIs
  <2>3. CASE (Prepare(c) \/ Finalize(c)) /\ n # calls[c].m
    BY <1>3, <2>3, PrepareFacts, FinalizeFacts
  <2> QED
    BY <1>3, <2>1, <2>2, <2>3, JournalsFrame
<1> QED
  BY <1>1, <1>4, OutcomeStays

LEMMA LedgerStep ==
  ASSUME LInv, Next
  PROVE  [\E m \in Mutations, r \in Revisions : Mutation!Apply(m, r)]_<<source, outcome>>
<1>1. ASSUME NEW c \in Calls, Works(c)
      PROVE  [\E m \in Mutations, r \in Revisions : Mutation!Apply(m, r)]_<<source, outcome>>
  <2>1. CASE Replace(c)
    <3>1. Mutation!Apply(calls[c].m, calls[c].next) /\ calls[c].m \in Mutations /\ calls[c].next \in Revisions
      BY <2>1, ReplaceApplies, ReplaceFacts
    <3> QED
      BY <3>1
  <2>2. CASE ~Replace(c)
    BY <1>1, <2>2, OthersKeepLedger
  <2> QED
    BY <2>1, <2>2
<1>2. CASE UNCHANGED <<source, requests, journals>>
  BY <1>2 DEF outcome, Applied, Used, Begun
<1> QED
  BY <1>1, <1>2, NextCases DEF AuthorizeRun, Crash, files

(* Commits, proposals and approvals keep the ledger: a mutation that is    *)
(* sent again, stored, approved twice, timed out or interrupted by a crash *)
(* is applied at most once, as a revision that no other mutation has, and  *)
(* nothing else changes deployment.yaml.                                   *)
THEOREM CommitsKeepLedger == Spec => ImplementsLedger
<1> DEFINE Applies == \E m \in Mutations, r \in Revisions : Mutation!Apply(m, r)
<1>1. Init => LInv /\ Mutation!Init
  BY InitLInv
<1>2. LInv /\ [Next]_vars => LInv'
  BY NextLInv
<1>3. LInv /\ [Next]_vars => [Applies]_<<source, outcome>>
  <2>1. LInv /\ Next => [Applies]_<<source, outcome>>
    BY LedgerStep
  <2>2. UNCHANGED vars => UNCHANGED <<source, outcome>>
    BY DEF vars, outcome, Applied, Used, Begun
  <2> QED
    BY <2>1, <2>2
<1>4. Applies => Mutation!Next
  BY DEF Mutation!Next
<1>5. ImplementsLedger <=> Mutation!Spec /\ [][Applies]_<<source, outcome>>
  BY DEF ImplementsLedger
<1> HIDE DEF Applies
<1> QED
  BY <1>1, <1>2, <1>3, <1>4, <1>5, PTL DEF Spec, Mutation!Spec
=============================================================================

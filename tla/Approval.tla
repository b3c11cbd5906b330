------------------------------ MODULE Approval ------------------------------
(***************************************************************************)
(* Who may change a project, and through which stored proposal: machine    *)
(* settings with remembered grants, grants of one run, and commits in      *)
(* autonomous and in review-each-change mode.  The calls of a process      *)
(* interleave at every await.  A commit holds the project lock and takes   *)
(* the short settings lock inside it; settings operations take only the    *)
(* settings lock.  Both are the lease that ProjectLock implements.  The    *)
(* journal and the history of a commit, which Transactions details, are    *)
(* one step each.  There is one project binding, and every grant has the   *)
(* scope its mutations need.                                               *)
(***************************************************************************)
EXTENDS Integers, FiniteSets

CONSTANTS
  Calls,         \* concurrent calls of the process
  Remembered,    \* ids of grants kept in settings.json
  Runs,          \* ids of grants of one run, kept in memory
  Mutations,     \* mutation ids, which are also proposal ids
  MaxStarts,     \* bound: calls that are started
  MaxFaults,     \* bound: I/O errors and process deaths
  None

ASSUME SizesAssumption == MaxStarts \in Nat /\ MaxFaults \in Nat
ASSUME GrantsAssumption == /\ Remembered \cap Runs = {}
                           /\ {"project", "settings"} \cap Runs = {}
ASSUME FiniteAssumption == IsFiniteSet(Calls) /\ IsFiniteSet(Remembered)

VARIABLES
  settings,      \* settings.json: its generation and its remembered grants
  runs,          \* TrustStore.#runs of the process
  issued,        \* the generation each grant was handed out with, 0 if never
  locks,         \* holder of the project lock, the settings lock, each run queue
  source,        \* the revision deployment.yaml holds
  drawn,         \* the last revision id that was drawn
  requests,      \* the base and the lineage a client built each mutation with
  proposals,     \* .robopomelo/proposals
  journals,      \* .robopomelo/recovery: next revision and commit marker
  calls,         \* what each call is doing
  starts, faults \* what the bounds count

vars == <<settings, runs, issued, locks, source, drawn, requests, proposals,
          journals, calls, starts, faults>>
files == <<source, drawn, requests, proposals, journals>>
trust == <<settings, runs, issued>>

Grants == Remembered \cup Runs
Modes == {"autonomous", "review-each-change"}
Revisions == 0..MaxStarts
Generations == 0..(MaxStarts + 1)
TrustGrant == [generation : Generations, mode : Modes, revoked : BOOLEAN]
Settings == [generation : Generations, grants : [Remembered -> TrustGrant \cup {None}]]

(* "candidate" is a .yaml without its .json, "torn" a .json half written.  *)
Proposal == [state : {"none", "candidate", "torn", "stored"}, base : Revisions,
             next : Revisions, supersedes : Mutations \cup {None}]
(* What a client builds a mutation with: its base and the proposal it replaces. *)
Request == [base : Revisions, supersedes : Mutations \cup {None}]

ASSUME NoneAssumption == None \notin Calls \cup Remembered \cup Runs \cup Mutations
                                    \cup TrustGrant \cup Request \cup Revisions

Unsaved == [state |-> "none", base |-> 0, next |-> 0, supersedes |-> None]
Stored(m) == proposals[m].state = "stored"

Locks == {"project", "settings"} \cup Runs
Guard(g) == IF g \in Runs THEN g ELSE "settings"
GrantOf(g) == IF g \in Runs THEN runs[g] ELSE settings.grants[g]

(* The grant is there, not revoked, and of the generation handed out.      *)
Check(g) == /\ GrantOf(g) # None
            /\ ~GrantOf(g).revoked
            /\ GrantOf(g).generation = issued[g]

Idle == [pc |-> "idle", op |-> "none", m |-> None, g |-> None, next |-> 0,
         mode |-> "autonomous", draft |-> None]

(* A project is open, and may have been granted to this user before.       *)
Init ==
  /\ settings \in {[generation |-> 1, grants |-> f] : f \in [Remembered -> TrustGrant \cup {None}]}
  /\ Cardinality({g \in Remembered : settings.grants[g] # None}) <= 1
  /\ \A g \in Remembered : settings.grants[g] # None =>
       settings.grants[g].generation = 1 /\ ~settings.grants[g].revoked
  /\ runs = [g \in Runs |-> None]
  /\ issued = [g \in Grants |-> IF g \in Remembered /\ settings.grants[g] # None THEN 1 ELSE 0]
  /\ locks = [l \in Locks |-> None]
  /\ source = 0
  /\ drawn = 0
  /\ requests = [m \in Mutations |-> None]
  /\ proposals = [m \in Mutations |-> Unsaved]
  /\ journals = [m \in Mutations |-> [next |-> 0, marker |-> FALSE]]
  /\ calls = [c \in Calls |-> Idle]
  /\ starts = 0
  /\ faults = 0

-----------------------------------------------------------------------------
(* Steps of a call *)
At(c, pc) == calls[c].pc = pc
Goto(c, pc) == calls' = [calls EXCEPT ![c].pc = pc]
End(c) == calls' = [calls EXCEPT ![c] = Idle]
(* Mutant: a lock that is taken already is taken again.                    *)
TakeShared(c, l) == locks' = [locks EXCEPT ![l] = c]

Take(c, l) == locks[l] = None /\ locks' = [locks EXCEPT ![l] = c]
Drop(l) == locks' = [locks EXCEPT ![l] = None]

(* Mutant: a call that throws keeps its locks.                             *)
ThrowHolding(c) == End(c) /\ UNCHANGED <<trust, locks, files, starts, faults>>

(* The call throws: its finally blocks release what it holds.              *)
Throw(c) == /\ End(c)
            /\ locks' = [l \in Locks |-> IF locks[l] = c THEN None ELSE locks[l]]
            /\ UNCHANGED <<trust, files, starts, faults>>

Start(c, call) == /\ At(c, "idle")
                  /\ starts < MaxStarts
                  /\ starts' = starts + 1
                  /\ calls' = [calls EXCEPT ![c] = call]

-----------------------------------------------------------------------------
(* Settings operations: read, mutate and replace under the settings lock.  *)

Unused(g) == issued[g] = 0 /\ \A c \in Calls : calls[c].g # g

StartGrant(c, g, mode) ==
  /\ Unused(g)
  /\ Start(c, [Idle EXCEPT !.pc = "lockSettings", !.op = "grant", !.g = g, !.mode = mode])
  /\ UNCHANGED <<trust, locks, files, faults>>

StartRevoke(c, g) ==
  /\ issued[g] # 0
  /\ Start(c, [Idle EXCEPT !.pc = "lockSettings", !.op = "revoke", !.g = g])
  /\ UNCHANGED <<trust, locks, files, faults>>

StartForget(c) ==
  /\ Start(c, [Idle EXCEPT !.pc = "lockSettings", !.op = "forget"])
  /\ UNCHANGED <<trust, locks, files, faults>>

LockSettings(c) ==
  /\ At(c, "lockSettings")
  /\ Take(c, "settings")
  /\ Goto(c, "readSettings")
  /\ UNCHANGED <<trust, files, starts, faults>>

(* The callback of a revocation throws when the grant has been forgotten.  *)
Vanished(c) == calls[c].op = "revoke" /\ settings.grants[calls[c].g] = None

ReadSettings(c) ==
  /\ At(c, "readSettings")
  /\ ~Vanished(c)
  /\ calls' = [calls EXCEPT ![c].pc = "writeSettings", ![c].draft = settings]
  /\ UNCHANGED <<trust, locks, files, starts, faults>>

RevokeVanished(c) == At(c, "readSettings") /\ Vanished(c) /\ Throw(c)

Tombstone(grant, generation) == [grant EXCEPT !.revoked = TRUE, !.generation = generation]

(* What grant, revoke and forget make of the grants of the binding.        *)
Mutated(call) ==
  LET old == call.draft.grants
      generation == call.draft.generation + 1
  IN CASE call.op = "grant" ->
            [g \in Remembered |->
               IF g = call.g THEN [generation |-> generation, mode |-> call.mode, revoked |-> FALSE]
               ELSE IF old[g] # None /\ ~old[g].revoked THEN Tombstone(old[g], generation)
               ELSE old[g]]
       [] call.op = "revoke" -> [old EXCEPT ![call.g] = Tombstone(@, generation)]
       [] call.op = "forget" -> [g \in Remembered |-> None]

(* The rename of settings.json, and the release.  From here on lookup      *)
(* hands out the grant.                                                    *)
WriteSettings(c) ==
  /\ At(c, "writeSettings")
  /\ settings' = [generation |-> calls[c].draft.generation + 1, grants |-> Mutated(calls[c])]
  /\ issued' = IF calls[c].op = "grant" THEN [issued EXCEPT ![calls[c].g] = settings'.generation]
               ELSE issued
  /\ Drop("settings")
  /\ End(c)
  /\ UNCHANGED <<runs, files, starts, faults>>

-----------------------------------------------------------------------------
(* Grants of one run.  revokeRun waits in the queue of its grant.          *)

AuthorizeRun(g, mode) ==
  /\ Unused(g)
  /\ runs' = [runs EXCEPT ![g] = [generation |-> 1, mode |-> mode, revoked |-> FALSE]]
  /\ issued' = [issued EXCEPT ![g] = 1]
  /\ UNCHANGED <<settings, locks, files, calls, starts, faults>>

StartRevokeRun(c, g) ==
  /\ runs[g] # None
  /\ Start(c, [Idle EXCEPT !.pc = "revokeRun", !.op = "revokeRun", !.g = g])
  /\ UNCHANGED <<trust, locks, files, faults>>

RevokeRun(c) ==
  /\ At(c, "revokeRun")
  /\ locks[calls[c].g] = None
  /\ runs' = [runs EXCEPT ![calls[c].g] = Tombstone(@, @.generation + 1)]
  /\ End(c)
  /\ UNCHANGED <<settings, issued, locks, files, starts, faults>>

-----------------------------------------------------------------------------
(* Commits.  A mutation id stands for one request: a retry sends it again. *)

StartCommit(c, m, g, s) ==
  /\ issued[g] # 0
  /\ \/ /\ requests[m] = None
        /\ s # m
        /\ s # None => Stored(s)
        /\ requests' = [requests EXCEPT ![m] = [base |-> source, supersedes |-> s]]
     \/ /\ requests[m] # None
        /\ requests[m].supersedes = s
        /\ UNCHANGED requests
  /\ Start(c, [Idle EXCEPT !.pc = "lockProject", !.op = "commit", !.m = m, !.g = g])
  /\ UNCHANGED <<trust, locks, source, drawn, proposals, journals, faults>>

(* applyStoredProposal: the approval names the digest of a whole proposal. *)
StartApply(c, m, g) ==
  /\ issued[g] # 0
  /\ Stored(m)
  /\ Start(c, [Idle EXCEPT !.pc = "status", !.op = "apply", !.m = m, !.g = g])
  /\ UNCHANGED <<trust, locks, files, faults>>

Begun(m) == journals[m].next # 0
Committed(m) == Begun(m) /\ (journals[m].marker \/ source = journals[m].next)

ReadStatus(c) ==
  /\ At(c, "status")
  /\ Goto(c, IF Committed(calls[c].m) THEN "lockProject" ELSE "lineage")
  /\ UNCHANGED <<trust, locks, files, starts, faults>>

Superseded(m) == \E n \in Mutations : Stored(n) /\ proposals[n].supersedes = m

(* allProposals reads every record; one that is torn ends the call.        *)
Lineage(c) ==
  /\ At(c, "lineage")
  /\ \A n \in Mutations : proposals[n].state # "torn"
  /\ ~Superseded(calls[c].m)
  /\ Goto(c, "lockProject")
  /\ UNCHANGED <<trust, locks, files, starts, faults>>

RefuseLineage(c) ==
  /\ At(c, "lineage")
  /\ Superseded(calls[c].m) \/ \E n \in Mutations : proposals[n].state = "torn"
  /\ Throw(c)

LockProject(c) ==
  /\ At(c, "lockProject")
  /\ Take(c, "project")
  /\ Goto(c, "evaluate")
  /\ UNCHANGED <<trust, files, starts, faults>>

(* What a commit finds under the project lock before it asks for authority. *)
Answered(m) == Committed(m) \/ source # requests[m].base
Refused(m) == \/ Begun(m)
              \/ proposals[m].state \in {"candidate", "torn"}
              \/ /\ ~Stored(m)
                 /\ requests[m].supersedes # None
                 /\ requests[requests[m].supersedes].base # requests[m].base

(* Already applied, or in need of recovery.                                *)
EvaluateEnds(c) ==
  /\ At(c, "evaluate")
  /\ Committed(calls[c].m) \/ Refused(calls[c].m)
  /\ Throw(c)

(* A conflict shows the submitted change on its old base: it is evaluated  *)
(* under the grant too, and what goes wrong there is caught.               *)
PendingDiff(c) ==
  /\ At(c, "evaluate")
  /\ ~Begun(calls[c].m) /\ source # requests[calls[c].m].base
  /\ locks[Guard(calls[c].g)] = None
  /\ Throw(c)

EvaluateDenied(c) ==
  /\ At(c, "evaluate")
  /\ locks[Guard(calls[c].g)] = None
  /\ ~Check(calls[c].g)
  /\ Throw(c)

(* Mutant: an approval makes a candidate of its own.                       *)
RevisionAnew(m) == drawn + 1
(* The candidate keeps the revision id of the stored proposal.             *)
RevisionFor(m) == IF Stored(m) THEN proposals[m].next ELSE drawn + 1

(* Mutant: the settings lock of the evaluation is not given back.          *)
EvaluatedInside(c, m) ==
  /\ calls' = [calls EXCEPT ![c].next = RevisionFor(m), ![c].pc = "prepare"]
  /\ Take(c, Guard(calls[c].g))

(* Under a grant that demands review the candidate becomes a proposal, and *)
(* is answered again when it is one already; an approval commits it.       *)
Evaluated(c, m) ==
  LET review == GrantOf(calls[c].g).mode = "review-each-change" /\ calls[c].op # "apply"
  IN IF review /\ Stored(m)
     THEN End(c) /\ Drop("project")
     ELSE /\ calls' = [calls EXCEPT ![c].next = RevisionFor(m),
                         ![c].pc = IF review THEN "saveCandidate" ELSE "prepare"]
          /\ UNCHANGED locks

Evaluate(c) ==
  /\ At(c, "evaluate")
  /\ ~Answered(calls[c].m) /\ ~Refused(calls[c].m)
  /\ locks[Guard(calls[c].g)] = None
  /\ Check(calls[c].g)
  /\ Evaluated(c, calls[c].m)
  /\ drawn' = IF RevisionFor(calls[c].m) > drawn THEN drawn + 1 ELSE drawn
  /\ UNCHANGED <<trust, source, requests, proposals, journals, starts, faults>>

SaveCandidate(c) ==
  /\ At(c, "saveCandidate")
  /\ proposals' = [proposals EXCEPT ![calls[c].m].state = "candidate"]
  /\ Goto(c, "saveRecord")
  /\ UNCHANGED <<trust, locks, source, drawn, requests, journals, starts, faults>>

SaveRecord(c) ==
  LET m == calls[c].m
  IN /\ At(c, "saveRecord")
     /\ proposals' = [proposals EXCEPT ![m] =
          [state |-> "stored", base |-> requests[m].base,
           next |-> calls[c].next, supersedes |-> requests[m].supersedes]]
     /\ Drop("project")
     /\ End(c)
     /\ UNCHANGED <<trust, source, drawn, requests, journals, starts, faults>>

Prepare(c) ==
  /\ At(c, "prepare")
  /\ journals' = [journals EXCEPT ![calls[c].m].next = calls[c].next]
  /\ Goto(c, "authorize")
  /\ UNCHANGED <<trust, locks, source, drawn, requests, proposals, starts, faults>>

(* withAuthorization holds the settings lock, or the queue of the run      *)
(* grant, from the check of the grant until deployment.yaml is replaced.   *)
Authorize(c) ==
  /\ At(c, "authorize")
  /\ Check(calls[c].g)
  /\ Take(c, Guard(calls[c].g))
  /\ Goto(c, "replace")
  /\ UNCHANGED <<trust, files, starts, faults>>

Deny(c) ==
  /\ At(c, "authorize")
  /\ locks[Guard(calls[c].g)] = None
  /\ ~Check(calls[c].g)
  /\ Throw(c)

Replace(c) ==
  /\ At(c, "replace")
  /\ source' = calls[c].next
  /\ Goto(c, "unlockGuard")
  /\ UNCHANGED <<trust, locks, drawn, requests, proposals, journals, starts, faults>>

UnlockGuard(c) ==
  /\ At(c, "unlockGuard")
  /\ Drop(Guard(calls[c].g))
  /\ Goto(c, "finalize")
  /\ UNCHANGED <<trust, files, starts, faults>>

Finalize(c) ==
  /\ At(c, "finalize")
  /\ journals' = [journals EXCEPT ![calls[c].m].marker = TRUE]
  /\ Drop("project")
  /\ End(c)
  /\ UNCHANGED <<trust, source, drawn, requests, proposals, starts, faults>>

-----------------------------------------------------------------------------
(* Faults *)

(* acquireLock gives up after ten seconds; a run queue has no timeout.     *)
Awaited(c) == CASE At(c, "lockProject") -> "project"
                [] At(c, "lockSettings") -> "settings"
                [] At(c, "evaluate") \/ At(c, "authorize") -> Guard(calls[c].g)
                [] OTHER -> "none"
TimedOut(c) == /\ Awaited(c) \in {"project", "settings"}
               /\ locks[Awaited(c)] # None
               /\ Throw(c)

(* What an interrupted write leaves: immutable() makes the name first.     *)
Leftover(c) == IF At(c, "saveRecord") THEN {"candidate", "torn"}
               ELSE IF At(c, "saveCandidate") THEN {"none", "candidate"}
               ELSE {}

Damage(c) == \/ UNCHANGED proposals
             \/ \E rest \in Leftover(c) : proposals' = [proposals EXCEPT ![calls[c].m].state = rest]

IOError(c) ==
  /\ ~At(c, "idle")
  /\ faults < MaxFaults
  /\ faults' = faults + 1
  /\ Damage(c)
  /\ End(c)
  /\ locks' = [l \in Locks |-> IF locks[l] = c THEN None ELSE locks[l]]
  /\ UNCHANGED <<trust, source, drawn, requests, journals, starts>>

(* The process dies; its locks are recovered, its run grants are gone.     *)
Crash ==
  /\ faults < MaxFaults
  /\ faults' = faults + 1
  /\ calls # [c \in Calls |-> Idle]
  /\ \E c \in Calls : Damage(c)
  /\ calls' = [c \in Calls |-> Idle]
  /\ locks' = [l \in Locks |-> None]
  /\ runs' = [g \in Runs |-> None]
  /\ UNCHANGED <<settings, issued, source, drawn, requests, journals, starts>>

-----------------------------------------------------------------------------
Begin(c) ==
  \/ \E g \in Remembered : StartRevoke(c, g) \/ \E mode \in Modes : StartGrant(c, g, mode)
  \/ StartForget(c)
  \/ \E g \in Runs : StartRevokeRun(c, g)
  \/ \E m \in Mutations, g \in Grants : \/ StartApply(c, m, g)
                                        \/ \E s \in Mutations \cup {None} : StartCommit(c, m, g, s)

Step(c) ==
  \/ LockSettings(c) \/ ReadSettings(c) \/ RevokeVanished(c) \/ WriteSettings(c)
  \/ RevokeRun(c)
  \/ ReadStatus(c) \/ Lineage(c) \/ RefuseLineage(c) \/ LockProject(c)
  \/ EvaluateEnds(c) \/ PendingDiff(c) \/ EvaluateDenied(c) \/ Evaluate(c)
  \/ SaveCandidate(c) \/ SaveRecord(c)
  \/ Prepare(c) \/ Authorize(c) \/ Deny(c) \/ Replace(c) \/ UnlockGuard(c)
  \/ Finalize(c)

Next ==
  \/ \E c \in Calls : Begin(c) \/ Step(c) \/ TimedOut(c) \/ IOError(c)
  \/ \E g \in Runs, mode \in Modes : AuthorizeRun(g, mode)
  \/ Crash

Spec == Init /\ [][Next]_vars

-----------------------------------------------------------------------------
(* Where a call holds which lock. *)
HeldAt(l) == CASE l = "project" -> {"evaluate", "saveCandidate", "saveRecord", "prepare",
                                    "authorize", "replace", "unlockGuard", "finalize"}
               [] l = "settings" -> {"readSettings", "writeSettings", "replace", "unlockGuard"}
               [] OTHER -> {"replace", "unlockGuard"}

(* The state: grants, stored proposals, journals and calls, as records of  *)
(* settings.json, .robopomelo and the TrustStore; a lock is held only by a *)
(* call that is inside of it, whichever way calls end.                     *)
TypeOK ==
  /\ settings \in Settings
  /\ runs \in [Runs -> TrustGrant \cup {None}]
  /\ issued \in [Grants -> Generations]
  /\ locks \in [Locks -> Calls \cup {None}]
  /\ source \in Revisions /\ drawn \in Revisions /\ source <= drawn
  /\ \A m \in Mutations : /\ proposals[m] \in Proposal
                          /\ requests[m] \in Request \cup {None}
                          /\ journals[m] \in [next : Revisions, marker : BOOLEAN]
  /\ \A c \in Calls : calls[c].draft \in Settings \cup {None}
  /\ \A l \in Locks : locks[l] # None => calls[locks[l]].pc \in HeldAt(l)
  /\ starts \in 0..MaxStarts /\ faults \in 0..MaxFaults

(* Grants hold what they promise.  grant() replaces the remembered grant   *)
(* of a binding: however settings operations interleave and fail, at most  *)
(* one is left to authorize.  One that was revoked, replaced or forgotten  *)
(* never authorizes again, although other processes write the same         *)
(* settings.json.  And deployment.yaml is replaced only while the grant of *)
(* the call that does it authorizes: a completed revocation is never       *)
(* overtaken by a commit that had been evaluated, or journaled, before.    *)
OneRememberedGrant ==
  Cardinality({g \in Remembered : settings.grants[g] # None /\ ~settings.grants[g].revoked}) <= 1
DeadGrantsStayDead == \A g \in Grants : issued[g] # 0 /\ ~Check(g) => ~Check(g)'
GrantCoversReplacement ==
  source' # source => \E c \in Calls : At(c, "replace") /\ Check(calls[c].g)
GrantsHold == []OneRememberedGrant /\ [][DeadGrantsStayDead /\ GrantCoversReplacement]_vars

(* In review-each-change mode deployment.yaml changes only to the very     *)
(* candidate that was stored, against the base it was stored for, and only *)
(* through an approval; retries, other modes and crashes do not help.      *)
ReviewedCandidate ==
  [][\A c \in Calls :
       /\ source' # source /\ At(c, "replace")
       /\ GrantOf(calls[c].g).mode = "review-each-change"
       => LET m == calls[c].m
          IN calls[c].op = "apply" /\ Stored(m) /\ source = proposals[m].base
             /\ source' = proposals[m].next]_vars

(* A call that waits for a lock or a queue that another call has.          *)
Blocked(c) == \/ Awaited(c) # "none" /\ locks[Awaited(c)] # None
              \/ At(c, "revokeRun") /\ locks[calls[c].g] # None
Busy == {c \in Calls : ~At(c, "idle")}

(* The call d under way has what c waits for.                              *)
Hinders(d, c) == \/ d \in Busy /\ Awaited(c) # "none" /\ locks[Awaited(c)] = d
                 \/ d \in Busy /\ At(c, "revokeRun") /\ locks[calls[c].g] = d

(* No calls wait on one another in a circle, nor for a call that is gone:  *)
(* the project lock comes first, the settings lock or a run queue inside   *)
(* it, so that whoever is blocked is so by a call that goes on, or that    *)
(* itself is blocked by one that does, without any timeout.                *)
NoCircle ==
  \A c \in Busy : Blocked(c) =>
    \E d \in Calls : /\ Hinders(d, c)
                     /\ Blocked(d) => \E e \in Calls : Hinders(e, d) /\ ~Blocked(e)

(* No calls wait for ever, because each that is not blocked can go on.     *)
CallsProceed == NoCircle /\ \A c \in Busy : ~Blocked(c) => ENABLED Step(c)

(* A revision that is the source or that somebody built a request on; and  *)
(* a mutation that took effect, marker or not.                             *)
Used(r) == r = source \/ \E n \in Mutations : requests[n] # None /\ requests[n].base = r
Applied(m) == Begun(m) /\ (journals[m].marker \/ Used(journals[m].next))

(* The commits keep the ledger that Transactions implements, and where no  *)
(* editor is at work the source changes by nothing else: a mutation, sent  *)
(* again, stored, approved twice or interrupted, is applied at most once,  *)
(* as a revision of its own.                                               *)
outcome == [m \in Mutations |-> IF Applied(m) THEN journals[m].next ELSE None]
Mutation == INSTANCE Ledger WITH current <- source, Versions <- Revisions,
                                 NoVersion <- None, Open <- None, Retired <- "retired"
ImplementsLedger ==
  /\ Mutation!Spec
  /\ [][\E m \in Mutations, r \in Revisions : Mutation!Apply(m, r)]_<<source, outcome>>
=============================================================================

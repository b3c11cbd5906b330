---------------------------- MODULE Transactions ----------------------------
(***************************************************************************)
(* Source transactions: session.ts and packages/project-fs/src/            *)
(* transactions/.  A commit prepares a directory under .robopomelo/        *)
(* recovery (old.yaml, new.yaml, replacement.yaml, journal.json), publishes*)
(* its evidence, renames replacement.yaml over deployment.yaml, and then   *)
(* completes the history and committed.json.  recover() completes what a   *)
(* crash left after the rename, retirePrepared() gives up what it left     *)
(* before.  All three work under the project lease of Lease.tla, which     *)
(* ProjectLock implements; editors of deployment.yaml take no lease.       *)
(*                                                                         *)
(* A version of deployment.yaml is the revision ID in it and whether it    *)
(* was edited by hand under that ID: two versions differ iff their byte    *)
(* hashes do.  immutable() creates a file, then writes it: what interrupts *)
(* the writing leaves the file there, Torn.                                *)
(***************************************************************************)
EXTENDS Naturals, FiniteSets

CONSTANTS Sessions,        \* ProjectSessions, in processes of their own
          Mutations,       \* mutation IDs, each with one request
          Reconciliations, \* those that are requests of reconcileExternal
          Revisions,       \* revision IDs that options.id() draws
          FirstRevision,   \* the revision of the source at the start
          None, Torn, Unreadable,
          Free, Orphaned,  \* the values of a lease nobody holds
          Open, Retired,   \* outcomes of a mutation that was not applied
          TornWrites,      \* an interrupted write leaves a torn file
          MaxEdits,        \* bound: external edits in a behaviour
          MaxFaults        \* bound: crashes and I/O errors in a behaviour

ASSUME MutationAssumption ==
  Reconciliations \subseteq Mutations /\ FirstRevision \in Revisions

ASSUME DistinctAssumption ==
  /\ Free \notin Sessions /\ Orphaned \notin Sessions /\ Free # Orphaned
  /\ None \notin Mutations /\ Torn # None
  /\ {None, Unreadable} \cap [rev : Revisions, edited : BOOLEAN] = {}
  /\ None \notin [version : [rev : Revisions, edited : BOOLEAN], by : Mutations \cup {None}]
  /\ Torn \notin [version : [rev : Revisions, edited : BOOLEAN], by : Mutations \cup {None}]
  /\ Open \notin [rev : Revisions, edited : BOOLEAN] \cup {Retired}
  /\ Retired \notin [rev : Revisions, edited : BOOLEAN]

ASSUME LimitAssumption ==
  TornWrites \in BOOLEAN /\ MaxEdits \in Nat /\ MaxFaults \in Nat

VARIABLES source,    \* deployment.yaml
          txn,       \* the recovery directory of each mutation
          history,   \* .robopomelo/history: <<revision, "yaml" or "json">>
          lease,     \* the project lease
          pc,        \* where each session is
          job,       \* the mutation a session works on
          todo,      \* the entries a recover() has still to look at
          baseline,  \* #baseline of each session
          plan,      \* the source a session has planned to reconcile
          edits, faults

vars == <<source, txn, history, lease, pc, job, todo, baseline, plan, edits, faults>>

Versions == [rev : Revisions, edited : BOOLEAN]
Entries  == [version : Versions, by : Mutations \cup {None}]
Files    == Revisions \X {"yaml", "json"}
FileState == {"none", "torn", "whole"}

(* A directory exists from "preparing" on and is a transaction once its    *)
(* journal is whole.  candidate: replacement.yaml is there.                *)
Directories ==
  [stage : {"none", "preparing", "prepared"}, prior : Versions \cup {None},
   next : Versions \cup {None}, candidate : BOOLEAN,
   evidence : {"staged", "published"}, marker : FileState, retired : FileState]

HistoryStages == {"baseYaml", "baseJson", "nextYaml", "nextJson"}
Stages == HistoryStages \cup
          {"idle", "prepare", "publish", "check", "rename", "marker", "recovering", "retire"}

NoDirectory == [stage |-> "none", prior |-> None, next |-> None, candidate |-> FALSE,
                evidence |-> "staged", marker |-> "none", retired |-> "none"]

Lock == INSTANCE Lease WITH Procs <- Sessions

Yaml(r) == history[<<r, "yaml">>]
Json(r) == history[<<r, "json">>]

(* Init: a project whose first revision is in the history, or one (made by *)
(* hand, or without its .robopomelo folder) that has none.                 *)
Init ==
  LET first == [rev |-> FirstRevision, edited |-> FALSE]
      empty == [f \in Files |-> None]
  IN /\ source = first
     /\ txn = [m \in Mutations |-> NoDirectory]
     /\ history \in {empty, [empty EXCEPT ![<<FirstRevision, "yaml">>] = first,
                                          ![<<FirstRevision, "json">>] =
                                             [version |-> first, by |-> None]]}
     /\ lease = Free
     /\ pc = [p \in Sessions |-> "idle"]
     /\ job = [p \in Sessions |-> None]
     /\ todo = [p \in Sessions |-> {}]
     /\ baseline = [p \in Sessions |-> None]
     /\ plan = [p \in Sessions |-> None]
     /\ edits = 0 /\ faults = 0
-----------------------------------------------------------------------------
(* What the project shows: history, baseline, receipts                     *)

Registered  == {r \in Revisions : Json(r) \notin {None, Torn}}
HistoryTorn == \E r \in Revisions : Json(r) = Torn

(* Mutations whose journal is whole, and those whose candidate is renamed. *)
Prepared  == {m \in Mutations : txn[m].stage = "prepared"}
Installed == {m \in Prepared : ~txn[m].candidate}

ParentOf(r) == {txn[m].prior.rev : m \in {n \in Prepared : txn[n].next.rev = r}}

Heads == {r \in Registered : \A q \in Registered : r \notin ParentOf(q)}

HeadVersion == Json(CHOOSE r \in Heads : TRUE).version

(* knownBaseline of a readable source; None where it throws.               *)
KnownBaseline ==
  CASE source.rev \in Registered -> Json(source.rev).version
    [] source.rev \notin Registered /\ ~HistoryTorn /\ Registered = {} -> source
    [] source.rev \notin Registered /\ ~HistoryTorn /\ Cardinality(Heads) = 1 -> HeadVersion
    [] OTHER -> None

(* #checkExternal: does it let the commit pass, and the #baseline it leaves.*)
Check(p) ==
  LET known  == source.rev \in Registered
      first  == IF known /\ baseline[p] = None THEN Json(source.rev).version ELSE baseline[p]
      looks  == first \in {None, source}
      second == IF looks /\ Cardinality(Heads) = 1 THEN HeadVersion ELSE first
  IN CASE known /\ Json(source.rev).version = source -> [passes |-> TRUE, baseline |-> source]
       [] Json(source.rev) = Torn -> [passes |-> FALSE, baseline |-> baseline[p]]
       [] Json(source.rev) # Torn /\ looks /\ HistoryTorn -> [passes |-> FALSE, baseline |-> first]
       [] OTHER -> [passes   |-> second \in {None, source},
                    baseline |-> IF second = None THEN source ELSE second]

(* readRetirement of a recovery directory: it throws on a torn file, and   *)
(* on a retirement beside a committed marker, torn or whole.               *)
ReadRetirement(t) ==
  CASE t.retired = "none" -> "none"
    [] t.retired = "whole" /\ t.marker = "none" -> "retired"
    [] OTHER -> "invalid"

(* mutationStatus, asked with the digest that was recorded.  What throws,  *)
(* as a marker that the history contradicts does, is caught and reported   *)
(* as indeterminate.                                                       *)
Status(m) ==
  LET t == txn[m]
      retirement == ReadRetirement(t)
      entry == Json(t.next.rev)
      backed == t.marker = "whole" /\ entry # None
  IN CASE t.stage = "none" -> "not-found"
       [] t.stage = "preparing" \/ retirement = "invalid" -> "indeterminate"
       [] t.stage = "prepared" /\ retirement = "retired" -> "retired"
       [] t.stage = "prepared" /\ retirement = "none" ->
            CASE source = t.next ->
                   IF t.evidence = "published" THEN "committed" ELSE "indeterminate"
              [] source # t.next /\ backed /\ entry # Torn /\ entry.version = t.next ->
                   "committed"
              [] source = t.prior /\ t.marker # "torn" /\ ~backed -> "pending"
              [] OTHER -> "indeterminate"
-----------------------------------------------------------------------------
(* Steps                                                                   *)

Goto(p, stage) == pc' = [pc EXCEPT ![p] = stage]

(* A session serves one call at a time.                                    *)
Idle(p) == pc[p] = "idle" /\ plan[p] = None

(* The session gives its lease back, or, inside recover(), which catches   *)
(* what an entry throws, goes on with the next entry.                      *)
Leave(p) ==
  /\ job' = [job EXCEPT ![p] = None]
  /\ IF todo[p] = {}
       THEN /\ Goto(p, "idle") /\ Lock!Release(p)
            /\ UNCHANGED todo
       ELSE /\ Goto(p, "recovering")
            /\ todo' = [todo EXCEPT ![p] = @ \ {job[p]}]
            /\ UNCHANGED lease

(* options.id() draws a revision nobody has seen.                          *)
UsedRevisions ==
  {FirstRevision} \cup {txn[m].next.rev : m \in {n \in Mutations : txn[n].stage # "none"}}

(* open(): the baseline of a session that has none, or whose project has   *)
(* moved to a registered version.                                          *)
OpenProject(p) ==
  /\ Idle(p) /\ source # Unreadable
  /\ \/ /\ source.rev \in Registered /\ Json(source.rev).version = source
        /\ baseline' = [baseline EXCEPT ![p] = source]
     \/ /\ baseline[p] = None /\ KnownBaseline # None
        /\ Json(source.rev) # Torn
        /\ baseline' = [baseline EXCEPT ![p] = KnownBaseline]
  /\ UNCHANGED <<source, txn, history, lease, pc, job, todo, plan, edits, faults>>

(* The mkdir of prepare(), for a version under a revision of its own.      *)
StartTransaction(p, m) ==
  /\ txn' = [txn EXCEPT ![m] =
       [NoDirectory EXCEPT !.stage = "preparing", !.prior = source,
                           !.next = [rev    |-> CHOOSE r \in Revisions \ UsedRevisions : TRUE,
                                     edited |-> FALSE]]]
  /\ job' = [job EXCEPT ![p] = m]
  /\ Goto(p, "prepare")

(* Mutant: the lease is not waited for.                                    *)
BeginUnlocked(p, m) ==
  /\ pc[p] = "idle" /\ source # Unreadable
  /\ Status(m) = "not-found" /\ Revisions \ UsedRevisions # {}
  /\ lease' = p
  /\ StartTransaction(p, m)
  /\ UNCHANGED <<source, history, todo, baseline, plan, edits, faults>>

(* prepareExternalReconciliation, before the lease is asked for: there is  *)
(* a baseline other than the source, or the history tells one.             *)
PlanReconciliation(p) ==
  /\ Idle(p) /\ source # Unreadable
  /\ baseline[p] \notin {None, source} \/ KnownBaseline # None
  /\ plan' = [plan EXCEPT ![p] = source]
  /\ UNCHANGED <<source, txn, history, lease, pc, job, todo, baseline, edits, faults>>

(* The plan comes to nothing: the lease is not had in time, or the source  *)
(* is not the expected one any more.                                       *)
DropPlan(p) ==
  /\ pc[p] = "idle" /\ plan[p] # None
  /\ plan' = [plan EXCEPT ![p] = None]
  /\ UNCHANGED <<source, txn, history, lease, pc, job, todo, baseline, edits, faults>>

(* #commitEvaluated under the lease, up to the mkdir of prepare().  Every  *)
(* receipt but not-found, a source that is unreadable or not the expected  *)
(* one, and a failed check end it; only the check leaves a trace.  A       *)
(* reconciliation goes by its plan, for which #checkExternal is not called.*)
Begin(p, m) ==
  /\ pc[p] = "idle" /\ lease = Free /\ source # Unreadable
  /\ Status(m) = "not-found" /\ Revisions \ UsedRevisions # {}
  /\ \/ /\ m \in Reconciliations /\ plan[p] = source
        /\ plan' = [plan EXCEPT ![p] = None]
        /\ Lock!Acquire(p) /\ StartTransaction(p, m)
        /\ UNCHANGED baseline
     \/ /\ m \notin Reconciliations /\ Idle(p) /\ Check(p).passes
        /\ baseline' = [baseline EXCEPT ![p] = Check(p).baseline]
        /\ Lock!Acquire(p) /\ StartTransaction(p, m)
        /\ UNCHANGED plan
     \/ /\ m \notin Reconciliations /\ Idle(p) /\ ~Check(p).passes
        /\ baseline' = [baseline EXCEPT ![p] = Check(p).baseline]
        /\ UNCHANGED <<txn, lease, pc, job, plan>>
  /\ UNCHANGED <<source, history, todo, edits, faults>>

(* Mutant: the evidence stays staged.                                      *)
PrepareUnpublished(p) ==
  /\ pc[p] = "prepare"
  /\ txn' = [txn EXCEPT ![job[p]].stage = "prepared", ![job[p]].candidate = TRUE]
  /\ Goto(p, "check")
  /\ UNCHANGED <<source, history, lease, job, todo, baseline, plan, edits, faults>>

(* prepare(): snapshots, candidate and, last, the journal are flushed.     *)
Prepare(p) ==
  /\ pc[p] = "prepare"
  /\ txn' = [txn EXCEPT ![job[p]].stage = "prepared", ![job[p]].candidate = TRUE]
  /\ Goto(p, "publish")
  /\ UNCHANGED <<source, history, lease, job, todo, baseline, plan, edits, faults>>

Publish(p) ==
  /\ pc[p] = "publish"
  /\ txn' = [txn EXCEPT ![job[p]].evidence = "published"]
  /\ Goto(p, "check")
  /\ UNCHANGED <<source, history, lease, job, todo, baseline, plan, edits, faults>>

(* replaceSource reads the source once more: STALE_BASE ends the commit.   *)
CheckSource(p) ==
  /\ pc[p] = "check"
  /\ IF source = txn[job[p]].prior
       THEN Goto(p, "rename") /\ UNCHANGED <<lease, job, todo>>
       ELSE Leave(p)
  /\ UNCHANGED <<source, txn, history, baseline, plan, edits, faults>>

(* Mutant: the prior revision is recorded whether or not it is there.      *)
FirstHistoryStageAlways(m) == "baseYaml"

(* finalizeHistory looks for the metadata of the prior revision only.      *)
FirstHistoryStage(m) == IF Json(txn[m].prior.rev) = None THEN "baseYaml" ELSE "nextYaml"

(* The commit point.  Windows may refuse the rename with EPERM: everything *)
(* is checked again.                                                       *)
Rename(p) ==
  /\ pc[p] = "rename"
  /\ \/ /\ source' = txn[job[p]].next
        /\ txn' = [txn EXCEPT ![job[p]].candidate = FALSE]
        /\ Goto(p, FirstHistoryStage(job[p]))
     \/ Goto(p, "check") /\ UNCHANGED <<source, txn>>
  /\ UNCHANGED <<history, lease, job, todo, baseline, plan, edits, faults>>

(* The file a session writes, what it writes there and what follows.       *)
Target(p) ==
  LET t == txn[job[p]] IN
  CASE pc[p] = "baseYaml" -> <<t.prior.rev, "yaml">>
    [] pc[p] = "baseJson" -> <<t.prior.rev, "json">>
    [] pc[p] = "nextYaml" -> <<t.next.rev, "yaml">>
    [] pc[p] = "nextJson" -> <<t.next.rev, "json">>

Content(p) ==
  LET t == txn[job[p]] IN
  CASE pc[p] = "baseYaml" -> t.prior
    [] pc[p] = "baseJson" -> [version |-> t.prior, by |-> None]
    [] pc[p] = "nextYaml" -> t.next
    [] pc[p] = "nextJson" -> [version |-> t.next, by |-> job[p]]

Following(stage) ==
  CASE stage = "baseYaml" -> "baseJson"
    [] stage = "baseJson" -> "nextYaml"
    [] stage = "nextYaml" -> "nextJson"
    [] stage = "nextJson" -> "marker"

(* Mutant: committed.json before the metadata of the new revision.         *)
WriteHistoryMarkerFirst(p) ==
  /\ pc[p] \in HistoryStages
  /\ LET f == Target(p) IN
     \/ /\ history[f] \in {None, Content(p)}
        /\ history' = [history EXCEPT ![f] = Content(p)]
        /\ Goto(p, IF pc[p] = "nextYaml" THEN "marker" ELSE Following(pc[p]))
        /\ UNCHANGED <<lease, job, todo>>
     \/ /\ history[f] \notin {None, Content(p)}
        /\ Leave(p)
        /\ UNCHANGED history
  /\ UNCHANGED <<source, txn, baseline, plan, edits, faults>>

(* One immutable() of finalizeHistory: equal bytes pass, other bytes, torn *)
(* ones among them, are HISTORY_TAMPERED.                                  *)
WriteHistory(p) ==
  /\ pc[p] \in HistoryStages
  /\ LET f == Target(p) IN
     \/ /\ history[f] \in {None, Content(p)}
        /\ history' = [history EXCEPT ![f] = Content(p)]
        /\ Goto(p, Following(pc[p]))
        /\ UNCHANGED <<lease, job, todo>>
     \/ /\ history[f] \notin {None, Content(p)}
        /\ Leave(p)
        /\ UNCHANGED history
  /\ UNCHANGED <<source, txn, baseline, plan, edits, faults>>

(* committed.json; a commit then adopts its version as the baseline.       *)
WriteMarker(p) ==
  /\ pc[p] = "marker"
  /\ txn' = [txn EXCEPT ![job[p]].marker = "whole"]
  /\ baseline' = IF todo[p] = {} THEN [baseline EXCEPT ![p] = txn[job[p]].next] ELSE baseline
  /\ Leave(p)
  /\ UNCHANGED <<source, history, plan, edits, faults>>
-----------------------------------------------------------------------------
(* recoverTransactions                                                     *)

Recover(p) ==
  /\ Idle(p) /\ Lock!Acquire(p)
  /\ todo' = [todo EXCEPT ![p] = {m \in Mutations : txn[m].stage # "none"}]
  /\ Goto(p, "recovering")
  /\ UNCHANGED <<source, txn, history, job, baseline, plan, edits, faults>>

(* Mutant: the source is not compared with the new version.                *)
NeedsHistoryAnySource(m) ==
  /\ txn[m].stage = "prepared" /\ txn[m].retired = "none" /\ txn[m].marker = "none"

(* recoverJournal goes on to finalizeHistory only for an intact journal    *)
(* that is neither retired nor finalized and whose new version is there.   *)
NeedsHistory(m) ==
  LET t == txn[m] IN
  /\ t.stage = "prepared" /\ t.retired = "none"
  /\ t.marker = "none" \/ (t.marker = "whole" /\ Json(t.next.rev) = None)
  /\ source = t.next /\ t.evidence = "published"

RecoverEntry(p, m) ==
  /\ pc[p] = "recovering" /\ m \in todo[p]
  /\ \/ /\ NeedsHistory(m)
        /\ job' = [job EXCEPT ![p] = m]
        /\ Goto(p, FirstHistoryStage(m))
        /\ UNCHANGED todo
     \/ /\ ~NeedsHistory(m)
        /\ todo' = [todo EXCEPT ![p] = @ \ {m}]
        /\ UNCHANGED <<pc, job>>
  /\ UNCHANGED <<source, txn, history, lease, baseline, plan, edits, faults>>

RecoverEnd(p) ==
  /\ pc[p] = "recovering" /\ todo[p] = {}
  /\ Leave(p)
  /\ UNCHANGED <<source, txn, history, baseline, plan, edits, faults>>
-----------------------------------------------------------------------------
(* retirePrepared                                                          *)

(* Mutant: replacement.yaml is not looked for.                             *)
RetireNoCandidate(p, m) ==
  /\ Idle(p) /\ Lock!Acquire(p)
  /\ txn[m].stage = "prepared" /\ txn[m].retired = "none" /\ txn[m].marker = "none"
  /\ source = txn[m].prior
  /\ job' = [job EXCEPT ![p] = m]
  /\ Goto(p, "retire")
  /\ UNCHANGED <<source, txn, history, todo, baseline, plan, edits, faults>>

(* An attempt is given up only when nothing of it was committed: no        *)
(* committed.json, the prior version in place, the candidate still there.  *)
Retire(p, m) ==
  /\ Idle(p) /\ Lock!Acquire(p)
  /\ txn[m].stage = "prepared" /\ txn[m].retired = "none" /\ txn[m].marker = "none"
  /\ source = txn[m].prior /\ txn[m].candidate
  /\ job' = [job EXCEPT ![p] = m]
  /\ Goto(p, "retire")
  /\ UNCHANGED <<source, txn, history, todo, baseline, plan, edits, faults>>

WriteRetirement(p) ==
  /\ pc[p] = "retire"
  /\ txn' = [txn EXCEPT ![job[p]].retired = "whole"]
  /\ Leave(p)
  /\ UNCHANGED <<source, history, baseline, plan, edits, faults>>
-----------------------------------------------------------------------------
(* The environment: errors, crashes, other processes, editors              *)

(* What an interrupted step leaves of the file it was writing.             *)
Interrupted(p) ==
  \/ UNCHANGED <<txn, history>>
  \/ /\ TornWrites
     /\ \/ /\ pc[p] \in HistoryStages /\ history[Target(p)] = None
           /\ history' = [history EXCEPT ![Target(p)] = Torn]
           /\ UNCHANGED txn
        \/ /\ pc[p] = "marker" /\ txn[job[p]].marker = "none"
           /\ txn' = [txn EXCEPT ![job[p]].marker = "torn"]
           /\ UNCHANGED history
        \/ /\ pc[p] = "retire"
           /\ txn' = [txn EXCEPT ![job[p]].retired = "torn"]
           /\ UNCHANGED history

(* A call fails (disk full, authorization revoked, progress callback): the *)
(* handler throws, its finally releases the lease.                         *)
Fault(p) ==
  /\ pc[p] \notin {"idle", "recovering"} /\ faults < MaxFaults
  /\ Interrupted(p) /\ Leave(p)
  /\ faults' = faults + 1
  /\ UNCHANGED <<source, baseline, plan, edits>>

(* The process dies with the lease; its successor knows no baseline.       *)
Crash(p) ==
  /\ pc[p] # "idle" /\ faults < MaxFaults
  /\ Interrupted(p) /\ Lock!Orphan
  /\ faults' = faults + 1
  /\ Goto(p, "idle")
  /\ job' = [job EXCEPT ![p] = None]
  /\ todo' = [todo EXCEPT ![p] = {}]
  /\ baseline' = [baseline EXCEPT ![p] = None]
  /\ UNCHANGED <<source, plan, edits>>

RecoverLease ==
  /\ Lock!Recover
  /\ UNCHANGED <<source, txn, history, pc, job, todo, baseline, plan, edits, faults>>

(* Another session takes the place of an idle one.                         *)
Reopen(p) ==
  /\ Idle(p) /\ baseline[p] # None
  /\ baseline' = [baseline EXCEPT ![p] = None]
  /\ UNCHANGED <<source, txn, history, lease, pc, job, todo, plan, edits, faults>>

(* Somebody edits the file, breaks it, or puts back a revision that was    *)
(* once there (a checkout, a backup, an undo).                             *)
Edit(v) ==
  /\ edits < MaxEdits /\ source # v
  /\ v \in {Unreadable} \cup [rev : {FirstRevision} \cup {txn[m].next.rev : m \in Installed},
                            edited : BOOLEAN]
  /\ source' = v
  /\ edits' = edits + 1
  /\ UNCHANGED <<txn, history, lease, pc, job, todo, baseline, plan, faults>>

Next ==
  \/ \E p \in Sessions :
       \/ OpenProject(p) \/ PlanReconciliation(p) \/ DropPlan(p)
       \/ Prepare(p) \/ Publish(p) \/ CheckSource(p) \/ Rename(p)
       \/ WriteHistory(p) \/ WriteMarker(p) \/ Recover(p) \/ RecoverEnd(p)
       \/ WriteRetirement(p) \/ Fault(p) \/ Crash(p) \/ Reopen(p)
       \/ \E m \in Mutations : Begin(p, m) \/ RecoverEntry(p, m) \/ Retire(p, m)
  \/ RecoverLease
  \/ \E v \in Versions \cup {Unreadable} : Edit(v)

Spec == Init /\ [][Next]_vars
-----------------------------------------------------------------------------
(* What the transactions guarantee                                         *)

(* Every variable has its type, and a session that works holds the lease.  *)
TypeOK ==
  /\ source \in Versions \cup {Unreadable}
  /\ txn \in [Mutations -> Directories]
  /\ history \in [Files -> Versions \cup Entries \cup {None, Torn}]
  /\ \A r \in Revisions : /\ Yaml(r) \in Versions \cup {None, Torn}
                         /\ Json(r) \in Entries \cup {None, Torn}
  /\ lease \in Sessions \cup {Free, Orphaned}
  /\ pc \in [Sessions -> Stages]
  /\ job \in [Sessions -> Mutations \cup {None}]
  /\ todo \in [Sessions -> SUBSET Mutations]
  /\ baseline \in [Sessions -> Versions \cup {None}]
  /\ plan \in [Sessions -> Versions \cup {None}]
  /\ edits \in Nat /\ faults \in Nat
  /\ \A p \in Sessions : pc[p] # "idle" => lease = p

(* The ledger: outcomes as the files tell them.                            *)
outcome == [m \in Mutations |->
              IF txn[m].retired = "whole" THEN Retired
              ELSE IF m \in Installed THEN txn[m].next ELSE Open]

Mutation == INSTANCE Ledger WITH current <- source, NoVersion <- Unreadable

(* Journals, staging, recovery, retirement and retries implement Ledger: a *)
(* mutation is applied at most once and never after or before it is        *)
(* retired, and recovery never writes deployment.yaml.                     *)
ImplementsLedger == Mutation!Spec

(* committed.json stands for a receipt that no later commit, edit, crash,  *)
(* recovery or retirement can take back: mutationStatus goes on answering  *)
(* committed, from the immutable history.                                  *)
FinalizedReceiptKept == \A m \in Mutations : txn[m].marker = "whole" => Status(m) = "committed"

(* The history is a chain: metadata never precedes its source bytes and    *)
(* tells their version, and what a mutation made has its prior revision    *)
(* recorded.                                                               *)
Chained(r) ==
  /\ Yaml(r) = Json(r).version
  /\ Json(r).by # None =>
       /\ Json(r).version = txn[Json(r).by].next /\ Json(r).by \in Installed
       /\ Json(txn[Json(r).by].prior.rev) # None

HistoryChain == \A r \in Registered : Chained(r)

(* deployment.yaml never refers to evidence that is not at its final path. *)
EvidenceInPlace == \A m \in Installed : txn[m].evidence = "published"

(* The strengthening that makes these inductive.  What a recovery directory*)
(* holds goes together: versions from the mkdir on, a candidate until the  *)
(* rename, a retirement only beside a candidate, committed.json only after *)
(* the metadata.                                                           *)
Shape(m) ==
  LET t == txn[m] IN
  /\ t.stage # "none" => t.prior \in Versions /\ t.next \in Versions
  /\ t.stage # "prepared" => ~t.candidate /\ t.marker = "none" /\ t.retired = "none"
  /\ t.retired # "none" => t.candidate
  /\ t.candidate => t.marker = "none"
  /\ t.marker = "whole" => Json(t.next.rev) = [version |-> t.next, by |-> m]

DirectoryShape == \A m \in Mutations : Shape(m)

(* No two transactions have the same new revision.                         *)
RevisionsDistinct ==
  \A m, n \in Mutations :
    txn[m].stage # "none" /\ txn[n].stage # "none" /\ txn[m].next.rev = txn[n].next.rev
    => m = n

(* What can be read in deployment.yaml was installed there, or was there   *)
(* from the start; a new revision is another one than the first.           *)
SourceInstalled ==
  /\ source # Unreadable =>
       source.rev \in {FirstRevision} \cup {txn[m].next.rev : m \in Installed}
  /\ \A m \in Mutations : txn[m].stage # "none" => txn[m].next.rev # FirstRevision

(* What a session at each stage has done with the directory of its job.    *)
InOrder(p) ==
  LET m == job[p]
      t == txn[job[p]]
  IN /\ pc[p] \notin {"idle", "recovering"} => m \in Mutations
     /\ pc[p] = "prepare" => t.stage = "preparing"
     /\ pc[p] \in {"publish", "check", "rename", "retire"} =>
          t.stage = "prepared" /\ t.candidate /\ t.retired = "none"
     /\ pc[p] \in {"check", "rename"} => t.evidence = "published"
     /\ pc[p] \in HistoryStages \cup {"marker"} => m \in Installed
     /\ pc[p] = "baseJson" => Yaml(t.prior.rev) = t.prior
     /\ pc[p] \in {"nextYaml", "nextJson", "marker"} => Json(t.prior.rev) # None
     /\ pc[p] = "nextJson" => Yaml(t.next.rev) = t.next
     /\ pc[p] = "marker" => Json(t.next.rev) = [version |-> t.next, by |-> m]

JobInOrder == \A p \in Sessions : InOrder(p)

IInv == /\ TypeOK /\ DirectoryShape /\ RevisionsDistinct /\ SourceInstalled
        /\ JobInOrder /\ HistoryChain /\ EvidenceInPlace

(* A commit replaces the version it was prepared on: nobody's work is lost.*)
ReplacesPrior ==
  [][\A m \in Mutations :
       txn[m].candidate /\ ~txn'[m].candidate => source = txn[m].prior]_vars

(* A receipt that said committed goes on saying so.                        *)
CommittedReceiptKept ==
  [][\A m \in Mutations : Status(m) = "committed" => (Status(m))' = "committed"]_vars

(* recover() finalizes every intact transaction whose new version is the   *)
(* source, unless an error or a crash stops it again.                      *)
RecoveryFinalizes ==
  [][\A p \in Sessions, m \in Mutations :
       /\ m \in todo[p] /\ m \notin todo'[p] /\ faults' = faults
       /\ m \in Installed /\ source = txn[m].next
       => txn'[m].marker = "whole"]_vars
=============================================================================

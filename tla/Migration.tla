----------------------------- MODULE Migration -----------------------------
(***************************************************************************)
(* Backup, migration, recovery of a migration, restoration of a backup     *)
(* into an empty folder, and creation of a project, in several folders.    *)
(* Each call holds project locks, reads and writes files one await at a    *)
(* time, and may die in between; an editor takes no lock.  Commits of      *)
(* Transactions are one step.  A revision stands for the bytes of a        *)
(* deployment.yaml; whether an adapter can migrate it is its "outdated".   *)
(***************************************************************************)
EXTENDS Integers, FiniteSets

CONSTANTS
  Jobs,          \* calls that run at the same time
  Folders,       \* project folders
  Backups,       \* generated names of backup directories
  MaxJobs,       \* bound: calls that are started
  MaxRevisions,  \* bound: revisions that are made
  MaxMishaps,    \* bound: calls that die
  NoFolder, NoBackup

(* What the constants are taken to be.                                     *)
AbsentAssumption == NoFolder \notin Folders /\ NoBackup \notin Backups /\ "free" \notin Jobs
BoundsAssumption == MaxJobs \in Nat /\ MaxRevisions \in Nat \ {0} /\ MaxMishaps \in Nat

VARIABLES
  sources,       \* deployment.yaml of each folder, or Missing
  members,       \* what else of the project each folder holds
  histories,     \* revisions whose history is whole in each folder
  folderLocks,   \* holder of the project lock of each folder
  backups,       \* the backup directories, each inside of one folder
  outdated,      \* revisions of an older specification
  newest,        \* the last revision that was made
  jobs,          \* what each call is doing
  jobsStarted, mishaps

mvars == <<sources, members, histories, folderLocks, backups, outdated, newest,
           jobs, jobsStarted, mishaps>>
counts == <<jobsStarted, mishaps>>

Missing == -1
Revisions == 0..MaxRevisions
Members == {"evidence", "records"}
FileStates == {"none", "torn", "whole"}

(* manifest.json, migration.json and applied.json of a backup directory,   *)
(* and the copies the manifest lists.                                      *)
NoDirectory == [folder |-> NoFolder, source |-> Missing, members |-> {}, manifest |-> "none",
                log |-> "none", target |-> Missing, applied |-> "none"]
Directory == [folder : Folders \cup {NoFolder}, source : Revisions \cup {Missing},
              members : SUBSET Members, manifest : FileStates, log : FileStates,
              target : Revisions \cup {Missing}, applied : FileStates]

Resting == [pc |-> "idle", op |-> "none", at |-> NoFolder, to |-> NoFolder,
            b |-> NoBackup, plan |-> Missing, target |-> Missing, copied |-> {}]

(* Folders hold different projects of the older specification, or nothing. *)
Init ==
  /\ sources \in [Folders -> {0, 1, Missing}]
  /\ \A f, g \in Folders : f # g /\ sources[f] = sources[g] => sources[f] = Missing
  /\ members = [f \in Folders |-> IF sources[f] = Missing THEN {} ELSE Members]
  /\ histories = [f \in Folders |-> {}]
  /\ folderLocks = [f \in Folders |-> "free"]
  /\ backups = [b \in Backups |-> NoDirectory]
  /\ outdated = {0, 1}
  /\ newest = 1
  /\ jobs = [j \in Jobs |-> Resting]
  /\ jobsStarted = 0
  /\ mishaps = 0

-----------------------------------------------------------------------------
In(j, pc) == jobs[j].pc = pc
To(j, pc) == jobs' = [jobs EXCEPT ![j].pc = pc]
Rest(j) == jobs' = [jobs EXCEPT ![j] = Resting]
Holding(j, f) == folderLocks[f] = j
Release(j) == folderLocks' = [f \in Folders |-> IF Holding(j, f) THEN "free" ELSE folderLocks[f]]
Obtain(j, f) == folderLocks[f] = "free" /\ folderLocks' = [folderLocks EXCEPT ![f] = j]
(* Mutant: a call that ends keeps its locks.                               *)
QuitHolding(j) == Rest(j) /\ UNCHANGED folderLocks
Quit(j) == Rest(j) /\ Release(j)

(* root.list() also shows the lock and the metadata directory.             *)
Emptied(f) == /\ sources[f] = Missing
              /\ members[f] = {}
              /\ \A b \in Backups : backups[b].folder # f
Unlocked(f) == folderLocks[f] = "free"

(* verifyBackup: a whole manifest, whose copies are verified.              *)
Verified(b) == backups[b].manifest = "whole"

BeginJob(j, job) == /\ In(j, "idle")
                    /\ jobsStarted < MaxJobs
                    /\ jobsStarted' = jobsStarted + 1
                    /\ jobs' = [jobs EXCEPT ![j] = job]
                    /\ UNCHANGED <<sources, members, histories, folderLocks, backups, outdated, mishaps>>

StartBackup(j, f) ==
  /\ sources[f] # Missing
  /\ BeginJob(j, [Resting EXCEPT !.pc = "lock", !.op = "backup", !.at = f])
  /\ UNCHANGED newest

(* preview: the plan keeps the bytes it read and the next revision id.     *)
StartApply(j, f) ==
  /\ sources[f] \in outdated
  /\ newest < MaxRevisions
  /\ newest' = newest + 1
  /\ BeginJob(j, [Resting EXCEPT !.pc = "lock", !.op = "apply", !.at = f,
                                 !.plan = sources[f], !.target = newest'])

StartRecover(j, b) ==
  /\ backups[b].folder # NoFolder
  /\ BeginJob(j, [Resting EXCEPT !.pc = "lock", !.op = "recover", !.at = backups[b].folder, !.b = b])
  /\ UNCHANGED newest

StartRestore(j, b, g) ==
  /\ Verified(b)
  /\ g # backups[b].folder
  /\ BeginJob(j, [Resting EXCEPT !.pc = "empty", !.op = "restore", !.at = backups[b].folder,
                                 !.to = g, !.b = b])
  /\ UNCHANGED newest

StartCreate(j, g) ==
  /\ newest < MaxRevisions
  /\ newest' = newest + 1
  /\ BeginJob(j, [Resting EXCEPT !.pc = "empty", !.op = "create", !.at = g, !.to = g,
                                 !.target = newest'])

-----------------------------------------------------------------------------
(* Backup, apply and recover under the project lock. *)

Unplanned(j) == jobs[j].op = "apply" /\ sources[jobs[j].at] # jobs[j].plan

Lock(j) ==
  LET f == jobs[j].at
  IN /\ In(j, "lock")
     /\ Obtain(j, f)
     /\ jobs' = [jobs EXCEPT
          ![j].pc = CASE jobs[j].op = "recover" -> "inspect"
                      [] jobs[j].op = "restore" -> "lockTarget"
                      [] jobs[j].op = "apply" -> "check"
                      [] OTHER -> "collect",
          ![j].plan = IF jobs[j].op = "backup" THEN sources[f] ELSE @]
     /\ UNCHANGED <<sources, members, histories, backups, outdated, newest, counts>>

(* STALE_BASE, BACKUP_MISMATCH, or an answer that changes nothing.         *)
Stop(j) == Quit(j) /\ UNCHANGED <<sources, members, histories, backups, outdated, newest, counts>>

(* The source must still be the one that was previewed.                    *)
Check(j) ==
  /\ In(j, "check")
  /\ ~Unplanned(j)
  /\ To(j, "collect")
  /\ UNCHANGED <<sources, members, histories, folderLocks, backups, outdated, newest, counts>>

CheckStale(j) == In(j, "check") /\ Unplanned(j) /\ Stop(j)

(* createBackup copies deployment.yaml and the members it finds, which are *)
(* not the ones it expects if somebody saved since.                        *)
Collect(j) ==
  LET f == jobs[j].at
  IN /\ In(j, "collect")
     /\ \E b \in Backups :
          /\ backups[b] = NoDirectory
          /\ backups' = [backups EXCEPT ![b] = [NoDirectory EXCEPT
               !.folder = f, !.source = sources[f], !.members = members[f]]]
          /\ jobs' = [jobs EXCEPT ![j].pc = "manifest", ![j].b = b]
     /\ UNCHANGED <<sources, members, histories, folderLocks, outdated, newest, counts>>

(* Mutant: the copy is not compared with the bytes the plan was made from. *)
CopiedAny(j) == TRUE
Copied(j) == /\ sources[jobs[j].at] = jobs[j].plan
             /\ backups[jobs[j].b].source = jobs[j].plan

WriteManifest(j) ==
  /\ In(j, "manifest")
  /\ Copied(j)
  /\ backups' = [backups EXCEPT ![jobs[j].b].manifest = "whole"]
  /\ IF jobs[j].op = "apply" THEN To(j, "log") /\ UNCHANGED folderLocks ELSE Quit(j)
  /\ UNCHANGED <<sources, members, histories, outdated, newest, counts>>

ManifestStale(j) == In(j, "manifest") /\ ~Copied(j) /\ Stop(j)

WriteLog(j) ==
  /\ In(j, "log")
  /\ backups' = [backups EXCEPT ![jobs[j].b].log = "whole", ![jobs[j].b].target = jobs[j].target]
  /\ To(j, "recheck")
  /\ UNCHANGED <<sources, members, histories, folderLocks, outdated, newest, counts>>

Recheck(j) ==
  /\ In(j, "recheck")
  /\ ~Unplanned(j)
  /\ To(j, "rename")
  /\ UNCHANGED <<sources, members, histories, folderLocks, backups, outdated, newest, counts>>

RecheckStale(j) == In(j, "recheck") /\ Unplanned(j) /\ Stop(j)

Rename(j) ==
  /\ In(j, "rename")
  /\ sources' = [sources EXCEPT ![jobs[j].at] = jobs[j].target]
  /\ To(j, "history")
  /\ UNCHANGED <<members, histories, folderLocks, backups, outdated, newest, counts>>

WriteHistory(j) ==
  /\ In(j, "history")
  /\ histories' = [histories EXCEPT ![jobs[j].at] = @ \cup {jobs[j].target}]
  /\ To(j, "marker")
  /\ UNCHANGED <<sources, members, folderLocks, backups, outdated, newest, counts>>

WriteMarker(j) ==
  /\ In(j, "marker")
  /\ backups' = [backups EXCEPT ![jobs[j].b].applied = "whole"]
  /\ Quit(j)
  /\ UNCHANGED <<sources, members, histories, outdated, newest, counts>>

(* recoverMigration finishes the bookkeeping only when the exact target is *)
(* the source; otherwise it answers or throws.                             *)
Finishable(b) == /\ Verified(b)
                 /\ backups[b].log = "whole"
                 /\ backups[b].applied # "torn"
                 /\ sources[backups[b].folder] = backups[b].target

Inspect(j) ==
  LET b == jobs[j].b
  IN /\ In(j, "inspect")
     /\ Finishable(b)
     /\ jobs' = [jobs EXCEPT ![j].pc = "history", ![j].target = backups[b].target]
     /\ UNCHANGED <<sources, members, histories, folderLocks, backups, outdated, newest, counts>>

InspectOnly(j) == In(j, "inspect") /\ ~Finishable(jobs[j].b) /\ Stop(j)

-----------------------------------------------------------------------------
(* Restoration into an empty folder, and creation of a project, which      *)
(* takes no lock at all.                                                   *)

SeenEmpty(g) == Emptied(g) /\ Unlocked(g)

CheckEmpty(j) ==
  /\ In(j, "empty")
  /\ SeenEmpty(jobs[j].to)
  /\ To(j, IF jobs[j].op = "create" THEN "create" ELSE "lock")
  /\ UNCHANGED <<sources, members, histories, folderLocks, backups, outdated, newest, counts>>

NotEmpty(j) == In(j, "empty") /\ ~SeenEmpty(jobs[j].to) /\ Stop(j)

LockTarget(j) ==
  /\ In(j, "lockTarget")
  /\ Obtain(j, jobs[j].to)
  /\ To(j, "emptyAgain")
  /\ UNCHANGED <<sources, members, histories, backups, outdated, newest, counts>>

CheckEmptyAgain(j) ==
  /\ In(j, "emptyAgain")
  /\ Emptied(jobs[j].to)
  /\ To(j, "copyOut")
  /\ UNCHANGED <<sources, members, histories, folderLocks, backups, outdated, newest, counts>>

FilledMeanwhile(j) == In(j, "emptyAgain") /\ ~Emptied(jobs[j].to) /\ Stop(j)

(* copyVerified, a member at a time; deployment.yaml goes to a stage.      *)
CopyOut(j) ==
  LET g == jobs[j].to
  IN /\ In(j, "copyOut")
     /\ \E m \in backups[jobs[j].b].members \ jobs[j].copied :
          /\ members' = [members EXCEPT ![g] = @ \cup {m}]
          /\ jobs' = [jobs EXCEPT ![j].copied = @ \cup {m}]
     /\ UNCHANGED <<sources, histories, folderLocks, backups, outdated, newest, counts>>

AllCopied(j) == jobs[j].copied = backups[jobs[j].b].members

(* renameNoReplace: a project created meanwhile is left as it is.          *)
Publish(j) ==
  LET g == jobs[j].to
  IN /\ In(j, "copyOut")
     /\ AllCopied(j)
     /\ sources' = IF sources[g] = Missing THEN [sources EXCEPT ![g] = backups[jobs[j].b].source]
                   ELSE sources
     /\ Quit(j)
     /\ UNCHANGED <<members, histories, backups, outdated, newest, counts>>

(* initializeProject: createExclusive of deployment.yaml, then its history. *)
Create(j) ==
  LET g == jobs[j].at
  IN /\ In(j, "create")
     /\ sources[g] = Missing
     /\ sources' = [sources EXCEPT ![g] = jobs[j].target]
     /\ To(j, "createHistory")
     /\ UNCHANGED <<members, histories, folderLocks, backups, outdated, newest, counts>>

CreateLate(j) == In(j, "create") /\ sources[jobs[j].at] # Missing /\ Stop(j)

CreateHistory(j) ==
  LET g == jobs[j].at
  IN /\ In(j, "createHistory")
     /\ histories' = [histories EXCEPT ![g] = @ \cup {jobs[j].target}]
     /\ members' = [members EXCEPT ![g] = @ \cup {"records"}]
     /\ Rest(j)
     /\ UNCHANGED <<sources, folderLocks, backups, outdated, newest, counts>>

-----------------------------------------------------------------------------
(* The rest of the world. *)

(* A session commits over registered history, or reconciles what has none. *)
Commit(f) ==
  /\ sources[f] \in Revisions \ outdated
  /\ Unlocked(f)
  /\ newest < MaxRevisions
  /\ newest' = newest + 1
  /\ sources' = [sources EXCEPT ![f] = newest']
  /\ histories' = [histories EXCEPT ![f] = @ \cup {sources[f], newest'}]
  /\ members' = [members EXCEPT ![f] = @ \cup {"records"}]
  /\ UNCHANGED <<folderLocks, backups, outdated, jobs, counts>>

(* An editor saves deployment.yaml, or undoes what it saved, whoever holds *)
(* the lock.                                                               *)
Edit(f) ==
  /\ sources[f] # Missing
  /\ newest < MaxRevisions
  /\ newest' = newest + 1
  /\ sources' = [sources EXCEPT ![f] = newest']
  /\ outdated' = IF sources[f] \in outdated THEN outdated \cup {newest'} ELSE outdated
  /\ UNCHANGED <<members, histories, folderLocks, backups, jobs, counts>>

Undo(f) ==
  /\ \E j \in Jobs : jobs[j].at = f /\ jobs[j].op = "apply" /\ sources' = [sources EXCEPT ![f] = jobs[j].plan]
  /\ sources[f] \in outdated
  /\ UNCHANGED <<members, histories, folderLocks, backups, outdated, newest, jobs, counts>>

(* A call dies; what it was writing may be torn.  Its locks are recovered. *)
Torn(j) == CASE In(j, "manifest") -> [backups EXCEPT ![jobs[j].b].manifest = "torn"]
             [] In(j, "log") -> [backups EXCEPT ![jobs[j].b].log = "torn"]
             [] In(j, "marker") /\ backups[jobs[j].b].applied = "none" ->
                  [backups EXCEPT ![jobs[j].b].applied = "torn"]
             [] OTHER -> backups

Die(j) ==
  /\ ~In(j, "idle")
  /\ mishaps < MaxMishaps
  /\ mishaps' = mishaps + 1
  /\ backups' \in {backups, Torn(j)}
  /\ Quit(j)
  /\ UNCHANGED <<sources, members, histories, outdated, newest, jobsStarted>>

Step(j) ==
  \/ Lock(j) \/ Check(j) \/ CheckStale(j) \/ Collect(j) \/ WriteManifest(j) \/ ManifestStale(j)
  \/ WriteLog(j) \/ Recheck(j) \/ RecheckStale(j) \/ Rename(j) \/ WriteHistory(j)
  \/ WriteMarker(j) \/ Inspect(j) \/ InspectOnly(j)
  \/ CheckEmpty(j) \/ NotEmpty(j) \/ LockTarget(j) \/ CheckEmptyAgain(j)
  \/ FilledMeanwhile(j) \/ CopyOut(j) \/ Publish(j)
  \/ Create(j) \/ CreateLate(j) \/ CreateHistory(j)

(* acquireLock gives up after ten seconds.                                 *)
GiveUp(j) ==
  /\ \/ In(j, "lock") /\ ~Unlocked(jobs[j].at)
     \/ In(j, "lockTarget") /\ ~Unlocked(jobs[j].to)
  /\ Stop(j)

Next ==
  \/ \E j \in Jobs :
       \/ Step(j) \/ GiveUp(j) \/ Die(j)
       \/ \E f \in Folders : StartBackup(j, f) \/ StartApply(j, f) \/ StartCreate(j, f)
       \/ \E b \in Backups : StartRecover(j, b) \/ \E g \in Folders : StartRestore(j, b, g)
  \/ \E f \in Folders : Commit(f) \/ Edit(f) \/ Undo(f)

Spec == Init /\ [][Next]_mvars

-----------------------------------------------------------------------------
(* Folders, backup directories and calls; a lock is held only by a call    *)
(* that is past it.                                                        *)
TypeOK ==
  /\ sources \in [Folders -> Revisions \cup {Missing}]
  /\ members \in [Folders -> SUBSET Members]
  /\ histories \in [Folders -> SUBSET Revisions]
  /\ backups \in [Backups -> Directory]
  /\ outdated \subseteq Revisions /\ newest \in Revisions
  /\ \A f \in Folders : ~Unlocked(f) =>
       /\ folderLocks[f] \in Jobs
       /\ jobs[folderLocks[f]].pc \notin {"idle", "lock", "empty", "create", "createHistory"}
  /\ jobsStarted \in 0..MaxJobs /\ mishaps \in 0..MaxMishaps

(* Explicit migration requires a verified restorable backup: whenever a    *)
(* migrated source is in place, or about to be, the bytes it was made from *)
(* are in a whole backup, although an editor may save at any time.         *)
MigratedIsBackedUp ==
  /\ \A j \in Jobs : In(j, "rename") =>
       Verified(jobs[j].b) /\ backups[jobs[j].b].source = jobs[j].plan
  /\ \A b \in Backups : backups[b].target # Missing =>
       Verified(b) /\ backups[b].source \in outdated

(* A migration that is marked as applied has its history, so the sessions  *)
(* that come after it find a registered source, whether apply or a         *)
(* recovery after a crash finished it.                                     *)
AppliedHasHistory ==
  \A b \in Backups : backups[b].applied = "whole" =>
    backups[b].target \in histories[backups[b].folder]

(* A restored folder becomes a project only when everything that one       *)
(* manifest lists is there: a folder with the same deployment.yaml as some *)
(* backup of another folder holds all members of a verified backup of it,  *)
(* and an interrupted restoration leaves no deployment.yaml.               *)
RestoredWhole ==
  \A g \in Folders :
    LET same == {b \in Backups : sources[g] # Missing /\ backups[b].source = sources[g]}
    IN (\E b \in same : backups[b].folder # g) =>
         \E b \in same : Verified(b) /\ backups[b].members \subseteq members[g]

(* A restoration holds the lock of its source while it waits for the lock  *)
(* of its destination.  No two wait for each other, because a folder with  *)
(* a backup is never an empty destination.                                 *)
RestoresProceed ==
  \A i, j \in Jobs : In(i, "lockTarget") /\ In(j, "lockTarget") =>
    ~(Holding(i, jobs[j].to) /\ Holding(j, jobs[i].to))

(* The strengthening that makes these inductive.  What a call is doing, at *)
(* which folder and with which backup, at each of its stages.              *)
Job == [pc : {"idle", "lock", "check", "collect", "manifest", "log", "recheck", "rename", "history",
              "marker", "inspect", "empty", "lockTarget", "emptyAgain", "copyOut", "create",
              "createHistory"},
        op : {"none", "backup", "apply", "recover", "restore", "create"},
        at : Folders \cup {NoFolder}, to : Folders \cup {NoFolder}, b : Backups \cup {NoBackup},
        plan : Revisions \cup {Missing}, target : Revisions \cup {Missing}, copied : SUBSET Members]

Typed == TypeOK /\ jobs \in [Jobs -> Job] /\ folderLocks \in [Folders -> Jobs \cup {"free"}]

Placed(j) ==
  \/ jobs[j].op = "none" /\ In(j, "idle") /\ jobs[j].at = NoFolder
  \/ /\ jobs[j].at \in Folders
     /\ \/ jobs[j].op = "backup" /\ jobs[j].pc \in {"lock", "collect", "manifest"}
        \/ /\ jobs[j].op = "apply"
           /\ jobs[j].pc \in {"lock", "check", "collect", "manifest", "log", "recheck", "rename",
                              "history", "marker"}
        \/ jobs[j].op = "recover" /\ jobs[j].pc \in {"lock", "inspect", "history", "marker"}
        \/ /\ jobs[j].op = "restore" /\ jobs[j].to \in Folders \ {jobs[j].at}
           /\ jobs[j].pc \in {"empty", "lock", "lockTarget", "emptyAgain", "copyOut"}
        \/ /\ jobs[j].op = "create" /\ jobs[j].to = jobs[j].at
           /\ jobs[j].pc \in {"empty", "create", "createHistory"}

(* The call that made a backup directory and has not finished with it.     *)
Owns(j) == /\ jobs[j].op \in {"backup", "apply"}
           /\ jobs[j].pc \notin {"lock", "check", "collect"}

InOrder(j) ==
  LET job == jobs[j]
      dir == backups[jobs[j].b]
  IN /\ Placed(j)
     /\ Owns(j) \/ job.op \in {"recover", "restore"} => job.b \in Backups /\ dir.folder = job.at
     /\ job.op = "apply" => job.plan \in outdated
     /\ job.op \in {"apply", "create"} => job.target # Missing
     /\ In(j, "manifest") => dir.manifest = "none" /\ dir.target = Missing
     /\ In(j, "log") => dir.target = Missing
     /\ job.op = "apply" /\ job.pc \in {"log", "recheck", "rename", "history", "marker"} =>
          dir.manifest = "whole" /\ dir.source = job.plan
     /\ \/ job.op = "apply" /\ job.pc \in {"recheck", "rename", "history", "marker"}
        \/ job.op = "recover" /\ job.pc \in {"history", "marker"}
        => job.target # Missing /\ dir.target = job.target
     /\ In(j, "marker") => job.target \in histories[job.at]
     /\ job.op = "restore" => dir.manifest = "whole"
     /\ IF In(j, "copyOut") THEN job.copied \subseteq members[job.to] ELSE job.copied = {}

OwnersApart == \A i, j \in Jobs : i # j /\ Owns(i) /\ Owns(j) => jobs[i].b # jobs[j].b

(* What a backup directory says, whoever works on it.                      *)
Sound(b) ==
  /\ backups[b].folder = NoFolder => backups[b] = NoDirectory
  /\ backups[b].folder # NoFolder => backups[b].members \subseteq members[backups[b].folder]
  /\ backups[b].log = "whole" => backups[b].target # Missing
  /\ backups[b].target # Missing => Verified(b) /\ backups[b].source \in outdated
  /\ backups[b].applied = "whole" => backups[b].target \in histories[backups[b].folder]

(* A lock is of the folder its holder works at, or restores into.          *)
LocksPlaced ==
  \A f \in Folders : ~Unlocked(f) =>
    \/ f = jobs[folderLocks[f]].at
    \/ f = jobs[folderLocks[f]].to /\ jobs[folderLocks[f]].pc \in {"emptyAgain", "copyOut"}

(* Of two restorations whose destination was seen empty, not each goes     *)
(* where the other one comes from.                                         *)
Destined(j) == jobs[j].op = "restore" /\ ~In(j, "empty")
NotCrossing ==
  \A i, j \in Jobs : Destined(i) /\ Destined(j) =>
    ~(jobs[i].to = jobs[j].at /\ jobs[j].to = jobs[i].at)

(* A folder shows a revision that is its source, or may be once more when  *)
(* an editor undoes what it saved.                                         *)
Shows(f, r) ==
  \/ sources[f] = r
  \/ \E j \in Jobs : jobs[j].op = "apply" /\ jobs[j].at = f /\ jobs[j].plan = r

(* A revision that a call will put in place is nowhere before.             *)
Reserves(j) ==
  \/ /\ jobs[j].op = "apply"
     /\ jobs[j].pc \in {"lock", "check", "collect", "manifest", "log", "recheck", "rename"}
  \/ jobs[j].op = "create" /\ jobs[j].pc \in {"empty", "create"}

Nowhere(r) == (\A f \in Folders : ~Shows(f, r)) /\ \A b \in Backups : backups[b].source # r

Reserved ==
  /\ \A r \in Revisions : r > newest => Nowhere(r)
  /\ \A j \in Jobs : jobs[j].target <= newest
  /\ \A j \in Jobs : Reserves(j) => Nowhere(jobs[j].target)
  /\ \A i, j \in Jobs : i # j /\ Reserves(i) /\ Reserves(j) => jobs[i].target # jobs[j].target

(* A revision that is shown in two folders, or is in one and in a backup   *)
(* of another, came there from a verified backup, with all its members.    *)
Backed(g, r) ==
  \E b \in Backups : /\ backups[b].source = r /\ Verified(b)
                     /\ backups[b].members \subseteq members[g]
Elsewhere(g, r) ==
  \/ \E f \in Folders \ {g} : Shows(f, r)
  \/ \E b \in Backups : backups[b].source = r /\ backups[b].folder # g
Spread == \A g \in Folders, r \in Revisions : Shows(g, r) /\ Elsewhere(g, r) => Backed(g, r)

MigrationInv ==
  /\ Typed /\ (\A j \in Jobs : InOrder(j)) /\ OwnersApart /\ (\A b \in Backups : Sound(b))
  /\ LocksPlaced /\ NotCrossing /\ Reserved /\ Spread
=============================================================================

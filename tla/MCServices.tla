----------------------------- MODULE MCServices -----------------------------
(***************************************************************************)
(* The services of an open project and their users, checked for safety:    *)
(* migration, evidence, export, confined files, reviews, the terminal      *)
(* wizard and its input, the dialogs of the browser, and the cache of      *)
(* releases.  Each is a specification of its own that shares no state with *)
(* the others.  The initial state says which of them runs, and v1, v2, ... *)
(* are its variables in the order in which its module declares them.       *)
(***************************************************************************)
EXTENDS Integers, Sequences, FiniteSets, TLC

CONSTANTS
  Calls,                \* calls, jobs and sessions that run at the same time
  Items,                \* folders, uploads, previews, cached runtimes
  Names,                \* backups, names of exports
  Mutations,            \* mutations that attach
  Plans, OpenIssue,     \* of Review
  Ops, Paths,           \* of SafeRoot
  Releases, Signed,     \* of Release
  Person, Foreign,      \* of Wizard: what the person and others enter
  MaxStarts, MaxFaults, \* bounds: jobs, calls and operations; mishaps
  MigrationRevisions, StoredRevisions, ReviewRevisions, DialogRevisions, \* bounds: revisions
  MaxPreviews, FirstRules, Rules, MaxApprovals, MaxTurns, MaxIds,
  MaxRedirects, MaxInstalls, MaxLines, MaxCommands, MaxLosses,
  None

VARIABLES component, v1, v2, v3, v4, v5, v6, v7, v8, v9, v10, v11, v12, v13, v14

M == INSTANCE Migration WITH
  Jobs <- Calls, Folders <- Items, Backups <- Names, MaxJobs <- MaxStarts, MaxRevisions <- MigrationRevisions,
  MaxMishaps <- MaxFaults, NoFolder <- None, NoBackup <- None,
  sources <- v1, members <- v2, histories <- v3, folderLocks <- v4, backups <- v5,
  outdated <- v6, newest <- v7, jobs <- v8, jobsStarted <- v9, mishaps <- v10

E == INSTANCE Evidence WITH
  Uploads <- Items, MaxRevisions <- StoredRevisions,
  MaxDeaths <- MaxFaults,
  file <- v1, uploads <- v2, parts <- v3, finals <- v4, receipts <- v5, lease <- v6,
  revision <- v7, calls <- v8, starts <- v9, deaths <- v10

F == INSTANCE SafeRoot WITH
  MaxOps <- MaxStarts, NoOp <- None,
  tails <- v1, ops <- v2, handles <- v3, open <- v4, closed <- v5, closing <- v6,
  pinned <- v7, opsStarted <- v8

X == INSTANCE Export WITH
  Previews <- Items, MaxRevisions <- StoredRevisions,
  source <- v1, attachment <- v2, frozen <- v3, previews <- v4, stages <- v5,
  exports <- v6, lease <- v7, calls <- v8, startsDone <- v9

V == INSTANCE Review WITH
  Sessions <- Calls, MaxRevisions <- ReviewRevisions,
  source <- v1, revisions <- v2, writer <- v3, present <- v4, rules <- v5,
  observed <- v6, turns <- v7

W == INSTANCE Wizard WITH
  Entries <- Person, MaxMishaps <- MaxFaults,
  source <- v1, store <- v2, applied <- v3, mode <- v4, draft <- v5, intent <- v6,
  tools <- v7, drawn <- v8, saved <- v9, told <- v10, report <- v11, mishaps <- v12,
  kept <- v13

R == INSTANCE Release WITH
  Procs <- Calls, Dirs <- Items, MaxStarts <- MaxInstalls, MaxMishaps <- MaxFaults,
  shape <- v1, dirs <- v2, lock <- v3, late <- v4, mine <- v5, touched <- v6, starts <- v7,
  mishaps <- v8

T == INSTANCE Terminal WITH
  typed <- v1, lines <- v2, end <- v3, waiting <- v4, handed <- v5, prompt <- v6,
  gathered <- v7, read <- v8, outcome <- v9

D == INSTANCE Dialogs WITH
  MaxRevisions <- DialogRevisions,
  kind <- v1, mode <- v2, revision <- v3, receipts <- v4, wire <- v5, commands <- v6,
  snapshot <- v7, told <- v8, pending <- v9, call <- v10, upload <- v11, open <- v12,
  losses <- v13, refused <- v14

ASSUME ServicesAssumption ==
  /\ M!AbsentAssumption /\ M!BoundsAssumption
  /\ E!EvidenceBounds /\ E!NobodyAssumption
  /\ F!OpsAssumption /\ X!LimitsAssumption /\ X!NoneIsNone
  /\ V!ReviewAssumption /\ W!WizardAssumption
  /\ R!ReleaseAssumption /\ T!TerminalAssumption /\ D!DialogsAssumption

vars == <<component, v1, v2, v3, v4, v5, v6, v7, v8, v9, v10, v11, v12, v13, v14>>

Is(name) == component = name

Init ==
  \/ Is("migration") /\ M!Init /\ v11 = 0 /\ v12 = 0 /\ v13 = 0 /\ v14 = 0
  \/ Is("evidence")  /\ E!Init /\ v11 = 0 /\ v12 = 0 /\ v13 = 0 /\ v14 = 0
  \/ Is("files")     /\ F!Init /\ v9 = 0 /\ v10 = 0 /\ v11 = 0 /\ v12 = 0 /\ v13 = 0 /\ v14 = 0
  \/ Is("export")    /\ X!Init /\ v10 = 0 /\ v11 = 0 /\ v12 = 0 /\ v13 = 0 /\ v14 = 0
  \/ Is("review")    /\ V!Init /\ v8 = 0 /\ v9 = 0 /\ v10 = 0 /\ v11 = 0 /\ v12 = 0 /\ v13 = 0
                     /\ v14 = 0
  \/ Is("wizard")    /\ W!Init /\ v14 = 0
  \/ Is("release")   /\ R!Init /\ v9 = 0 /\ v10 = 0 /\ v11 = 0 /\ v12 = 0 /\ v13 = 0 /\ v14 = 0
  \/ Is("terminal")  /\ T!Init /\ v10 = 0 /\ v11 = 0 /\ v12 = 0 /\ v13 = 0 /\ v14 = 0
  \/ Is("dialogs")   /\ D!Init

MigrationStep == Is("migration") /\ M!Next /\ UNCHANGED <<component, v11, v12, v13, v14>>
EvidenceStep  == Is("evidence")  /\ E!Next /\ UNCHANGED <<component, v11, v12, v13, v14>>
FileStep      == Is("files")     /\ F!Next /\ UNCHANGED <<component, v9, v10, v11, v12, v13, v14>>
ExportStep    == Is("export")    /\ X!Next /\ UNCHANGED <<component, v10, v11, v12, v13, v14>>
ReviewStep    == Is("review")    /\ V!Next /\ UNCHANGED <<component, v8, v9, v10, v11, v12, v13, v14>>
WizardStep    == Is("wizard")    /\ W!Next /\ UNCHANGED <<component, v14>>
ReleaseStep   == Is("release")   /\ R!Next /\ UNCHANGED <<component, v9, v10, v11, v12, v13, v14>>
TerminalStep  == Is("terminal")  /\ T!Next /\ UNCHANGED <<component, v10, v11, v12, v13, v14>>
DialogStep    == Is("dialogs")   /\ D!Next /\ UNCHANGED component

Next ==
  \/ MigrationStep \/ EvidenceStep \/ FileStep \/ ExportStep
  \/ ReviewStep \/ WizardStep \/ ReleaseStep \/ TerminalStep \/ DialogStep

Spec == Init /\ [][Next]_vars

(* What the model checker may take for the same: which call or name is     *)
(* which.  Paths, operations on files and plans stay apart.                *)
Symmetry == Permutations(Calls) \cup Permutations(Items) \cup Permutations(Names)

-----------------------------------------------------------------------------
(* Every variable of the component that runs has its type.                 *)
TypeOK ==
  /\ Is("migration") => M!TypeOK
  /\ Is("evidence") => E!TypeOK
  /\ Is("files") => F!TypeOK
  /\ Is("export") => X!TypeOK
  /\ Is("review") => V!TypeOK
  /\ Is("wizard") => W!TypeOK
  /\ Is("release") => R!TypeOK
  /\ Is("terminal") => T!TypeOK
  /\ Is("dialogs") => D!TypeOK

(* Migration: a migrated source is never in place, or about to be, without *)
(* a whole verified backup of the bytes it was made from; a migration that *)
(* is marked as applied has its history, whether apply or a recovery after *)
(* a crash finished it; a restored folder becomes a project only when      *)
(* everything that one manifest lists is there; and although a restoration *)
(* holds the lock of its source while it waits for the one of its          *)
(* destination, no two wait for each other.                                *)
MigrationSafe ==
  Is("migration") => /\ M!MigratedIsBackedUp /\ M!AppliedHasHistory
                     /\ M!RestoredWhole /\ M!RestoresProceed

(* Evidence: of two calls that both found the upload not busy, neither     *)
(* takes or removes the part the other is writing; and at every moment, a  *)
(* crash included, a committed record has the selected bytes under         *)
(* evidence/ and a proposal or a journal still has them in its part.       *)
EvidenceSafe == Is("evidence") => E!PartBelongsToWriter /\ E!EvidenceKept

(* SafeRoot: a file is never replaced while a buffered read of it is in    *)
(* progress, nor by two operations at once, whichever operations fail; and *)
(* when nothing runs no descriptor is open and no path is left queued,     *)
(* although the root may have been closed under an open().                 *)
FilesSafe == Is("files") => F!TurnsExclude /\ F!NothingLeaks

(* Export: a published package is whole and of the revision that the       *)
(* preview it was persisted for froze, and its attachment has the declared *)
(* bytes, although files change and change back while they are verified    *)
(* and copied.                                                             *)
PackageFaithful == Is("export") => X!PackageFaithful

(* Review: an approval that any tool shows as current was given on this    *)
(* planning content, and every revision recorded since had the same        *)
(* content, rules and evidence: nothing that was changed and changed back, *)
(* restored or reconciled makes an approval current again.  Required       *)
(* obligations leave the recorded content only under the scope for         *)
(* decisions; an approval is current as soon as it is recorded, so that    *)
(* the gate of approve and the assessment of its result agree; and what a  *)
(* running session saw invalid its next commit records.                    *)
ReviewsHold ==
  /\ [](Is("review") => V!CurrentAsReviewed)
  /\ [][Is("review") => V!ObligationsKept /\ V!ApprovalTakes /\ V!SeenIsRecorded]_vars

(* Release: a runtime that installing or listing answers, unless its files *)
(* change meanwhile, is one release of the publisher, all of it and        *)
(* nothing else; and a cached runtime with its receipt is, unless it was   *)
(* damaged, through aborted downloads and processes that die.              *)
RuntimeIsSigned == Is("release") => R!RuntimeIsSigned

(* Wizard, its terminal and the dialogs of the browser.  What a person     *)
(* entered in the wizard and did not discard or reload away is in the      *)
(* working draft, in the source or in a stored proposal, through           *)
(* conflicts, failed saves, tools and the end of input, and the final      *)
(* report calls nothing saved that is only in memory.  Typed lines reach   *)
(* the prompts in order and each once, and none waits after the input has  *)
(* ended.  A decision entered in a dialog is recorded again only after the *)
(* dialog was told that it is recorded, and a file is attached at most     *)
(* once, however often answers are lost and the user presses again.        *)
EnteredIsKept ==
  /\ Is("wizard") => W!EnteredIsKept
  /\ Is("terminal") => T!LinesReachPrompts
  /\ Is("dialogs") => D!RecordedKnowingly
=============================================================================

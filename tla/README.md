# RoboPomelo: a verification project

RoboPomelo keeps a robot deployment in one folder: `deployment.yaml`, the files of
evidence it refers to, and a `.robopomelo` folder with the revision history, the
recovery directories of transactions and a lock. Several processes work on that
folder at once (a local server with a browser, the command line, a terminal wizard,
agents), an editor may save `deployment.yaml` at any time, and any process may die.
The program itself runs as a *runtime* that a *launcher* selects from a verified
cache shared by all of its processes.

The modules here translate the code that has to be right about this from
`packages/project-fs/src`, `packages/core/src`, `apps/cli/src` and `apps/web/src`. TLC
checks them on small instances. TLAPS proves, for every instance, what matters most about
the lock, the transactions, approval, updates, the project service and the launcher, the
browser draft, confined files, export, evidence, the terminal, the dialogs and the wizard.

## 1. Inventory

| component | state | operations | interacts with | module |
|---|---|---|---|---|
| **Lock** (`fs/lock.ts`, `fs/owner.ts`) | `.robopomelo-<kind>.lock/owner.json`, `.robopomelo-<kind>.recovery`, quarantined directories | `acquireLock`, `assertHeld`, `release`, recovery of a stale lock | every writer of the project, the settings and the cache | `ProjectLock` |
| **Transactions** (`session.ts`, `transactions/`) | `recovery/<mutation>/{old,new,replacement}.yaml, journal.json, committed.json`, tombstones | commit, reconcile, recover, retire, `mutationStatus` | lock, history, evidence, settings, external editors | `Transactions` |
| **History** (`history.ts`) | `.robopomelo/history/<revision>.{yaml,json}` | `finalizeHistory`, `writeInitialHistory`, `historyList`, `historyRead` | transactions, migration, readers | `Transactions` |
| **External edits** (`external-edits.ts`) | baseline of a session | `knownBaseline`, planning a reconciliation | transactions; editors that take no lock | `Transactions`, `Review` |
| **Settings and trust** (`settings/store.ts`, `settings/trust.ts`) | `settings.json`, grants of one run and their queues | grant, revoke, forget, `withAuthorization` | transactions (settings lock inside the project lock) | `Approval` |
| **Proposals** (`proposals/`) | candidates and records | save, list, apply, supersede | transactions, trust | `Approval` |
| **Reviews** (`packages/core/src`: reviews, review validity, permissions, mutation, restore, planning hash) | the review ledger of the source, what a session observed | patch, restore, acknowledge, waive, approve, revoke | every commit; sessions that run other versions | `Review` |
| **Evidence** (`evidence/`) | staged parts, busy flag of an upload | prepare, accept, approve | publication inside a transaction | `Evidence` |
| **Export** (`export/`) | frozen previews, stages | plan, preview, persist | lock, project files | `Export` |
| **Migration** (`migrate.ts`, `migration/`, `init.ts`) | backups, migration log and marker | backup, apply, recover, restore, create | lock (two of them), history: a second writer of the source | `Migration` |
| **File access** (`fs/safe-fs.ts`, `fs/file-access.ts`) | identity of the root, handles, a queue per path | reads, replacements, close | everything above | `SafeRoot` |
| **Update preferences** (`settings/updates.ts`) | policy, rollback hold, generation | configure, hold, resume | update service | `Updates` |
| **Update service** (`runtime/update.ts`, `selection.ts`, `compatibility.ts`) | pointer of the cache, cache lock | status, startup, check, install, rollback, launch | preferences, registry, launcher | `Updates` |
| **Runtime cache, package verification** (`runtime/cache.ts`, `network.ts`, `verify.ts`, `archive.ts`, `extract.ts`) | `runtimes/<uuid>/` file by file | install, list, load | registry, mirrors, update service | `Release` |
| **Launcher** (`runtime/launcher.ts`, `probe.ts`) | one child process | spawn, handshake, hand over, kill | update service | `Launcher` |
| **Project service, HTTP server** (`services/project.ts`, `server/`) | selected project, epoch, busy set, launch link | open, create, use, bootstrap, close | sessions, requests | `ProjectService` |
| **Web application** (`apps/web/src`) | draft, uncertain patch, calls, conflicts; dialogs of decisions and evidence | edit, autosave, proposals, conflicts, refresh, record | HTTP server | `Draft`, `Dialogs` |
| **Terminal wizard** (`apps/cli/src/wizard`) | working draft, intent, lines and prompts | enter, save, tools, exit | session, terminal | `Wizard`, `Terminal` |
| Validation rules (but for the three that `Review` keeps), schemas, YAML layout, artifacts, argument parsing | none of their own | parsing, formatting, predicates over one document | - | - |

What is hard here, and tested least, is listed at its line under `hazards` in
`PROJECT.json`. In short:

- *Exclusion without an operating-system lock.* The lock is a directory; a process that
  finds it taken decides from a recorded pid, host and boot whether its owner is gone.
  Pids come back, folders are shared between machines, machines reboot.
- *Checks and renames with awaits in between.* Recovery quarantines what it looked at
  a moment ago; a commit replaces what it hashed a moment ago; a promotion follows
  a policy it read a moment ago.
- *Crashes between durable writes.* A commit is a dozen of them; readers, retries and
  recovery see every prefix, and files that are created first and written later may be
  torn.
- *Lost answers.* A client asks for the receipt of its mutation or repeats it, in another
  session, after a recovery or a retirement.
- *Writers that take no lock*, first of all the user's editor.
- *Several processes over one selection*: startups, installs, rollbacks and settings.
- *State read before an await and used after it*, in nearly every service: a superseding
  proposal, the `busy` flag of an upload, the plan of an export, the epoch of a request.
- *Answers that arrive late, twice or never* at a browser in which the user types on.

Properties that make the components correct: at most one holder and no stolen lease
(lock); each mutation applied at most once, receipts that stay, a history without holes,
evidence in place (transactions); no write under a revoked grant, nothing committed that was
not reviewed, no deadlock of the two locks (approval); an approval is only ever current for
what was reviewed (reviews); no migrated source without a backup, no part or attachment
that is not what was selected or declared (services); a selection that can be launched and
preferences that are not undone (updates); only signed runtimes (cache); no request on a
project it was not meant for, and none that waits for ever (server); nothing a person
entered is lost, or recorded twice unawares (browser, wizard).

## 2. What is modelled

### `Lease`, `ProjectLock`: the lock

`Lease` is the promise: `Acquire` of a free lease, `Release` by its holder, a crash
orphans it, `Recover` frees an orphaned one.

`ProjectLock` is `lock.ts` with one action per await. `lock` and `claim` are the entries at
the two paths (a directory identity and its `owner.json`, or none yet), `quarantine` what
recoveries renamed away, `record`, `claimRecord` and `candidate` the local variables that
`initialize` and `recover` hold across awaits, `pc` the await a process is at.
`Probe`/`MakeLock`/`WriteOwner`/`ReadBack`/`Confirm` are `attempt` and `initialize`;
`AssertLock`/`UnlinkOwner`/`RemoveLock` are `release`; `InspectDirectory` to `RemoveClaim` are
`recover` and `SafeRoot.quarantineLock`, whose last check and whose rename are two steps
(`Verify`, `Quarantine`). `OwnerLiveness` is `ownerLiveness`: foreign hosts and unclear boots
are never called absent. The environment adds `Crash`, `Restart` (the pid of a dead process
is given again) and `Reboot`; freed directory identities are used again.

### `Ledger`, `Transactions`: commits, recovery and retirement

`Ledger` is the promise: each mutation is open, applied once under a version of its own, or
retired for good, and nothing but an application or an editor changes `deployment.yaml`. `Approval`,
`Draft` and `Wizard` instantiate it too, each with what a mutation comes to in its own terms
(`outcome`), so what they do with a commit is held to the same promise.

`Transactions` is `session.ts` and `transactions/` under a lease that is `Lease` itself
(`Lock == INSTANCE Lease`), so the two proofs compose. A version of the source is its
revision and whether it was edited by hand; `txn[m]` is the recovery directory of a mutation;
`history` has two files per revision, each absent, torn or whole. `Begin` is the part of
`#commitEvaluated` up to the mkdir (idempotent retries, retired mutations, `#checkExternal`
with its cached `baseline`, the recheck of a reconciliation planned before the lease);
`Prepare`, `Publish`, `CheckSource`, `Rename`, `WriteHistory` (four stages) and `WriteMarker` are
the durable writes, with the two checks of `replaceSource` apart from its rename; `Recover`,
`RecoverEntry`, `RecoverEnd` and `Retire`, `WriteRetirement` are recovery and retirement; `Status`
is `mutationStatus`. `Fault` is an I/O error that a `finally` survives, `Crash` one that nothing
survives; both may leave the file being written torn. `Edit` is an editor, which may also
put back an earlier version or break the file.

### `Updates`: launches, installs and rollbacks

`Updates` has one action per await of `UpdateService` over `RuntimeCache` and
`UpdatePreferences`. `main[p]` is what a launch awaits, `job[p]` what its startup update or a
command awaits; the two run side by side once the startup deadline fired (`Deadline`), as in
`Promise.race`. `status()` is three reads (`ReadPolicy`, `ReadPointer`, and the list of the cache
in the step that goes on with it), each of which sees another moment. The cache lock is held
over `Download` and from `Promote` to `Publish`; waiting for it may be given up. `cache[d]` is
what a `runtimes/<uuid>` holds: nothing that counts, a verified version, or a torn
`verified.json`, on which `list()` throws. Users configure, hold (by `rollback`) and
resume; releases appear; processes die. Versions are numbers in the order of `semver.gt`,
with `Major`, `Stable` and `Compatible` as parameters.

### `Approval`: trust, proposals and commits over two locks

Two calls of one process or of two commit, approve, grant, forget and revoke. `settings` is the
file with remembered grants and their generations, `runs` the grants of one run, `proposals[m]`
the candidate and the record of a mutation (none, only the candidate, torn, whole),
`journals[m]` its transaction. `locks` has the project lock, the settings lock and the queue of
each run grant. A commit passes `LockProject`, `Evaluate` (the first `withAuthorization`),
`SaveCandidate`/`SaveRecord` in review mode or `Prepare`, `Authorize` (the second one, held over
`Replace` until `UnlockGuard`) and `Finalize`. `PendingDiff` is the evaluation that a conflict
makes on the old base, which waits for the same locks.

### `Review`: when is an approval current

The source is its planning content (a plan and whether evidence is required), a note that a
waiver may cite, and the ledger: acknowledgments, waivers, approvals, revocations, and the
invalidations that commits recorded. `Reasons` is `approvalDetails`, `finishMutation` the common
end of patches, restores and reviews, `LostBy` the invalidations it adds, `Seen` what a session
observed in a snapshot. Sessions may run different rule sets, an editor changes the source, the
attachment moves away and comes back, and a session ends with what it observed.

### `Migration`, `Evidence`, `Export`, `SafeRoot`, `Release`: services on files

`Migration` is backup, apply, recover, restore and project creation over folders with their
locks, each a job of one action per durable write. `Evidence` is `accept` from its status query
over the exclusive creation of the part to publication, by two calls of one upload, with a
proposal that keeps the part. `Export` freezes a plan and streams it under the lease while
source and attachment change; a package carries the preview it was persisted for. `SafeRoot` is the chain of `FileAccess.run` and the life of a
descriptor between `open`, registration and `close`. `Release` is the download with its
redirects and its abort, whose late chunk still arrives, then verification, the archive walk,
extraction, the marker, and `list`/`load` in another process; a signature is that of a release
in `Signed`, whatever the shape of the bytes that carry it.

### `ProjectService`, `Launcher`: what must go on

`ProjectService` is a request from its headers (`Arrive`: the epoch) over its body to its use,
the queue of `open`, the attach of the next project, `Drain` of the busy set and the switch; the
link that makes one session; and the shutdown. `Launcher` has the events of the child in a
queue and every order of them: hello, error, exit, close of the pipes, the timer, an interrupt.
`Handle` is the listener, `Sent` the answer to `start`, `Escalate` the kill after the grace
period; the child may be a wrong one, may ignore signals, and ends when it wants to.

### `Draft`, `Dialogs`, `Wizard`, `Terminal`: what a person enters

`Draft` is `DraftController` with its view, its timer and its uncertain patch; `wire` holds what
the server may still receive and `calls` what the browser awaits, so an answer may be lost and
the patch looked up or sent again. `Serve` is the local server with the verdict of a commit. The
conflict dialog, proposals, the notice of an external source and refreshes are actions of their
own. `Dialogs` is the two dialogs whose request cannot be taken back, a decision and an upload. After a
commit the refresh may fail and leave the dialog open with the old page; an approval closes it, an
acknowledgment, a waiver or a revocation leaves it to be pressed again. The history variable `told`
holds the commands that the dialog was answered to be recorded; what the user entered is not modelled.
`Wizard` is the working draft of the terminal with its intent (one mutation id per content),
saves, conflicts, proposals, tools and exit; `Terminal` is `NodeTerminal` between a readline that
delivers lines and prompts that await them, up to the end of input.

Each definition's lines are in `PROJECT.json` under `map`. Definitions whose comment begins
with "Mutant" are not the program: each is a wrong variant of the definition below it that a
run must tell from the right one.

## 3. What the runs show

| run | instance | shows |
|---|---|---|
| `ProjectLock` | 3 processes, 1 machine, 1 crash, 1 reboot, pids reused, 3 inodes | `MutualExclusion`; `LeaseIntact`: a live holder's directory is never taken; `RecoveryCheckHolds`: what `recover` checked is still true at its rename |
| `Transactions` | 2 sessions, a patch and a reconciliation, 1 edit, faults, torn files | `FinalizedReceiptKept`, `HistoryChain`, `EvidenceInPlace`, `ImplementsLedger` |
| `TransactionsQuiet` | 2 sessions, 3 mutations, no editor, no torn file, 2 faults | `ReplacesPrior`: no commit overwrites another version than the one it was prepared on; `RecoveryFinalizes` |
| `Updates` | a launch against one process that launches, installs or rolls back; 3 versions of 2 majors, one of them incompatible; 2 updates of the settings; 1 crash | `SelectionFits`, `HeldVersionKept`, `ResumeKeepsPreferences`, `LoneUpdateRaises` |
| `Approval` | 2 calls at a time, 4 in all, 2 mutations, 2 remembered grants and one of a run, 1 fault | `CallsProceed`: nobody waits for a lock in a circle; `GrantsHold`: no source is replaced under a grant that was revoked before, and what is revoked stays so; `ReviewedCandidate`: what an approval commits is the stored candidate |
| `Services` | 2 calls, 2 of every name, 1 fault; nine components | `MigrationSafe`, `EvidenceSafe`, `FilesSafe`, `PackageFaithful`, `RuntimeIsSigned`, `ReviewsHold`, and `EnteredIsKept` of the wizard, the terminal and the dialogs |
| `Draft` | 2 fields of 2 values, 2 edits, 2 patches, 1 commit of another process, 1 lost answer | `NothingLost`: each field of the user is shown, saved, proposed or given up by her; `Truthful`: what the view calls saved or proposed is; `LossIsHarmless`: lost answers save nothing twice; `EditsSettle`: an armed timer leads to an answer |
| `Progress` | the lock on 2 machines with 1 crash and 1 reboot; 3 requests on 2 projects; one launch | `OnlyOwnerOrRecovererRemoves`, `ImplementsLease`, `StaleLockRecovered`; `RunsOnOpenProject`, `NothingHangs`; `LaunchSafe` |

Four runs show where the code does something else than the repository says (quoted under
`findings`):

- `TransactionsEditor`: a save between the last check of `replaceSource` and its rename is
  overwritten without a conflict (`ReplacesPrior` with an editor).
- `TransactionsTorn`: a torn history file keeps recovery from finalizing a committed
  transaction, for ever (`RecoveryFinalizes` with torn files).
- `TransactionsReceipt`: a receipt said committed and later says indeterminate, because the
  process stopped before `committed.json` and another commit followed
  (`CommittedReceiptKept`). With the marker in place it stays (`FinalizedReceiptKept`).
- `UpdatesPolicy`: a policy configured while `promote` waits and verifies again does not stop
  the promotion (`PolicyStillAgrees`).

**Components that share a run.** The nine components of `MCServices` and the three of
`MCProgress` touch nothing in common. A constant part of the state, `component`, says which of
them a behaviour is about, so the states add up instead of multiplying; the properties of
each begin with its name. In `MCServices` the components take turns with the variables `v1`, `v2`, ...

**Bounds.** Every bound is a constant whose comment says "bound". Three contenders are
what recovery of the lock needs: the dead owner's heir, a recoverer and one that takes the lock
in between; one crash produces each stale state and the pid that comes back needs no
second one. Two sessions and two mutations give every pair of operations that the lease
lets alternate, and two faults a crash during the recovery of a crash; three
mutations (`TransactionsQuiet`) add a predecessor and a successor of the interrupted one.
`Updates` starts at most two operations, from an empty or a filled cache: the interesting
cases are pairs, and an earlier operation is in the initial state. `Approval`: four calls are a
proposal, its successor, the approval of one and a revocation or a retry; two at a time are enough
because more than two wait in the same queues. `Services`: two calls interleave, four are
started; two folders make the crossing restorations, two plans and four revisions a change and the
change back, one preview fills the cache of them so that the second evicts. `Draft`: the second
edit is the one made while the first is saved. `Dialogs`: three commands, three commits and one
lost answer are a press, its retry and two that follow. The theorems below have no
bounds but those of the constants.

**Symmetry** is used where no liveness is checked and no constant names a process.
**Deadlock** is checked for `Transactions`, where an idle session can always go on; elsewhere
the system may stop when the crashes or operations of the bound are used up. That nobody
waits for ever is stated where it matters: `CallsProceed`, `MigrationSafe` (no two restorations
wait for each other), `EvidenceSafe` and `FilesSafe` at rest, `NothingHangs`.

**Fairness.** Only `Progress` and `Draft` assume any, all of it weak.

- Lock: `Attempt`, `Step` and `EndUse` of each process. Node runs a started asynchronous call to
  its end, the loop of `acquireLock` starts the next attempt after its delay, and every caller
  releases its lease in a `finally`.
- Project service: each request goes on (`Progress`), and the server that was told to stop closes.
  An operation ends because everything it awaits has a timeout or is a file operation.
- Launcher: timers fire, messages and exits that happened are handled, and the pipes of a dead
  child close. That the child ends by itself, or obeys a signal other than `SIGKILL`, is not
  assumed.
- Draft: the timer fires, and a call is answered, lost or looked up (`Serve`, `LookUp`,
  `SaveEnds`). The server is not fair to requests that nobody awaits.

`MCProgress` states fairness once for the three components, as weak fairness of disjunctions of one
action of each. As `component` never changes, two disjuncts of different components are never
enabled in one behaviour, so this is weak fairness of each; and of the actions of a process
of the lock exactly one is enabled at a time. Nothing is fair that the environment decides:
crashes, restarts, reboots, lost messages. `StaleLockRecovered`
speaks of owners whose `owner.json` is whole: a process that dies before writing it leaves a
lock that stays until somebody removes it, which the code reports and does not repair.

**Where a property stops short.** Modelling showed cases that the properties exclude, each
with its hazard or by name:

- *A superseded proposal can be applied.* `applyStoredProposal` looks for a superseding proposal
  before it waits for the lease (session.ts:351); one stored in between does not stop it.
  `ReviewedCandidate` does not speak of it. The plan of the frontend
  (docs/superpowers/plans/robopomelo-frontend.md:211) says that superseded proposals cannot be
  applied silently.
- *A conflict dialog that is closed while it resolves.* With `ClosesBusyDialog = TRUE`, which is
  what the modal allows (ui.tsx), the resolution replaces what was typed since, and `NothingLost` is
  violated. The run keeps the dialog open.
- *An uncertain patch whose retry is refused* is forgotten (draft.ts:284) and its edits are sent again
  under a fresh id: `LossIsHarmless` excludes refused retries. The same in the decision dialog
  (DecisionDialog.tsx:60), where `RecordedKnowingly` excludes them; there the kept command is also
  sent when the user chose another action meanwhile.
- *A decision that is pressed again after it was recorded.* A waiver or a revocation leaves every
  field and an enabled button (DecisionDialog.tsx:98-129), and reviews.ts:87-102 accepts the second
  record of it. A refresh that fails after a commit (DecisionDialog.tsx:73, Workspace.tsx:101-110)
  leaves the dialog open with its command dropped and only the error of the refresh shown; the next
  press conflicts on the old base, or records again once the page shows the new one. A dialog that
  is closed while an outcome is unknown forgets its command. `RecordedKnowingly` speaks of one dialog
  and allows the first two: a decision is recorded again only after the dialog had the answer that
  it is recorded.
- *An upload whose receipt is not found* may be closed while the request is still on its way;
  it is then attached once, unseen.
- *`list()` in another process* throws while `verified.json` is created and not yet written
  (cache.ts:237), as it does for ever when the writer died there.
- *Grants of a selected project*: revoking a grant of one run leaves a remembered one for
  the next open (project.ts:187-199), and two reads that both attach replace each other's grant
  (project.ts:154). Nothing is written under a revoked grant because of it (`GrantsHold`).

## 4. What is proved

Each proof module extends a component's module, states the inductive invariant where the
component's module does not, has one lemma per action or group of like actions, and ends with
the theorems that `PROJECT.json` lists. They hold for any processes, machines, sessions,
mutations, versions, calls, paths and lines, and any number of crashes, reboots, edits, faults
and lost answers, from the named assumptions of the modules: special values (`None`, `NoEntry`,
`Torn`, `Free`, ...) differ from what they stand beside, bounds are numbers, sets of grants and
calls that are counted are finite, maps map what they should. TLC evaluates each assumption,
and each inductive invariant held on the instance of its run before it was proved.

| module | about | theorems |
|---|---|---|
| `ProjectLockProofs` | `ProjectLock`, `Lease` | `TypeCorrect`, `MutualExclusionHolds`, `LeaseIntactHolds`, `RecoveryCheckStaysTrue`, `OnlyOwnerOrRecoverer`, `LockImplementsLease` |
| `TransactionsProofs` | `Transactions`, `Ledger` | `TransactionTypes`, `FinalizedReceiptsHold`, `HistoryIsChain`, `EvidenceIsInPlace`, `CommitsReplacePrior`, `RecoveryIsThorough`, `TransactionsImplementLedger` |
| `ApprovalProofs` | `Approval`, `Ledger` | `TypeCorrect`, `GrantsAreKept`, `ReviewsAreKept`, `NobodyWaitsInCircles`, `CommitsKeepLedger` |
| `UpdatesProofs` | `Updates` | `TypeCorrect`, `SelectionIsFit`, `HeldVersionIsKept`, `PreferencesAreKept`, `UpdatesRaise`, `CacheOnlyGrows` |
| `ProgressProofs` | `ProjectService`, `Launcher`, the lock beside them | `TypesHold`, `OperationsRunOnOpenProject`, `ProjectStaysGuarded`, `LockGoesOn` |
| `DraftProofs` | `Draft`, `Ledger` | `TypeCorrect`, `DraftIsTruthful`, `NothingIsLost`, `LossIsHarmlessHolds`, `ServerImplementsLedger` |
| `ServicesProofs` | `SafeRoot`, `Export`, `Evidence`, `Release`, `Review` | `FilesAreSafe`, `PackagesAreFaithful`, `EvidenceStaysSafe`, `RuntimesAreSigned`, `ReviewsAreHeld` |
| `EntryProofs` | `Terminal`, `Dialogs`, `Wizard`, `Migration` | `EnteredStaysKept`, `MigrationsAreSafe`, `WizardImplementsLedger`; with the services, `ServicesTypes` |

**The lock.** `TypeOK` is shown first. It says also which of a process's records are there at
which await; the rest of the argument reads them. `MutualExclusion` and `LeaseIntact`
are not inductive: they say nothing about a process between `mkdir` and its confirmation,
nor about a recoverer. `IInv` adds `Protocol`, in which

- `OneLocker`, `OneClaimer`: one process at a time is between the mkdir and the rmdir of each
  directory (`LockerFindsLock`, `ClaimerFindsClaim`: and finds there what it made);
- `CandidateIsLocal`, `CandidateIsOrphan`: an owner that was found absent on this machine
  is no live process's owner again, because a new process draws a new nonce;
- `RecheckHolds`: from the recheck under the claim to the rename the path shows the checked
  directory and nobody is between mkdir and rmdir. This is the heart: the only process
  that could change the path is another recoverer, and that one needs the claim.

**Transactions.** Here `TypeOK` includes that a session that works holds the lease, so after a
step only the worker's stage has to be looked at (lemmas `Alone`, `OrderOfWorker`). `IInv`
ties together

- `DirectoryShape`: which files of a recovery directory exist together;
- `RevisionsDistinct`, `SourceInstalled`: a revision belongs to one transaction, and what the
  source shows was installed: a candidate that was not renamed is nobody's source;
- `JobInOrder`: what the session at each stage has done with the directory of its job;
- `HistoryChain`, `EvidenceInPlace` themselves.

The history steps are shown by one lemma: a write either completes a link of the chain,
or leaves what is whole alone (`HistoryGrows`, `WriteKeepsChain`), so torn files break nothing
that was there. `TransactionsImplementLedger` maps each step to an application, a retirement, an
edit or a stutter; `CommitsReplacePrior` assumes that there are no edits. `RecoveryIsThorough`
assumes in addition that no file is torn, without which it is false (section 3). Then a revision is one
version, what was replaced is never the source again, and a base is recorded only where there was
none (`Quiet`): so no history that a recovery meets is refused as tampered.

**Approval.** `GrantsHold` has two halves. One is an action property, that no source is
replaced without a grant that authorizes it; it needs to know that between `Authorize` and
`Replace` nobody revokes, hence `LocksHeld`: a call in a stage that a lock protects holds that
lock, for each of the two locks and of the queues of the run grants. The other, one remembered
grant and no revival, is `AtMostOneLive` and `Drawn` (generations and revisions are drawn upwards,
so an equal generation is the same grant) with `GrantsApart` and `Budget`. `ReviewedCandidate` needs
`ProposalsFit` and `Candidate`, which say which candidate a call has in hand at each stage, and
`DraftIsCurrent`: what was evaluated under the project lock still is about this source.

`NobodyWaitsInCircles` is freedom from circular waits for any number of calls: a call that holds the
project lock waits at most for a guard of the settings or of a run grant, and a call that holds
a guard waits for nothing (`LocksHeld` says which stage holds what), so a chain of waits has two links
at most. `CommitsKeepLedger` says that commits, approvals, retries and crashes of these calls
make one revision per mutation. Its invariant `LInv` is about who claims a revision:
each one that was drawn belongs to a single mutation, by its journal, its stored proposal or the call that
makes it (`RevisionsApart`), and is not in use before it replaces the source (`StillUnused`). A mutation
is applied when its marker says so, or when its revision is the source or the base of a later request.

**Updates.** The difficulty is that everything an operation acts on was read some awaits ago.
`CacheOnlyGrows` is the heart: a directory that has a whole `verified.json` never loses or changes
it. So whatever was once found in the cache stays found, and the invariant can say of every
process what it found, in terms of the cache as it is now (`Places`, `Found`, `Raising` for the two
programs of each process). `PointerFits` and `HeldVersionKept` follow for what a process is about to
publish; `HoldIsPast` says that a hold carries a generation no later than that of the settings, which
is what `ResumeKeepsPreferences` turns on. `LoneUpdateRaises` is then a fact of one step.

**Project service, launcher.** In `ServiceInv`, `Queue` says that an open that waits is in the queue
once and that only its head attaches, `Projects` that a request with a project in use names the epoch and
the session it was admitted to, and that the switch waits for the busy set: hence
`RunsOnOpenProject`. In `LaunchInv`, `ChildInv` bounds the events that the child can have sent by what
it did, and `ParentInv` says what the launcher has told it at each stage; `ProjectIsGuarded` reads both.
`LockGoesOn` shows that the composed system is a behaviour of the lock alone, so that the
theorems about the lock hold inside of it.

**Draft.** `IInv` has `Shape` (types), `Named` (every identity in use is one of a patch), `Apart` (saves
and the dialog have patches of their own), `OnItsWay` (what is waited for is on the wire), `Answering` (an
answer that has not been handled says what the server stored), `Saving` (what is sent is what the draft
holds or held) and `Truthful`. `NothingLost` needs more: `KInv` adds `Resolving`, what a conflict dialog
may replace. It is proved under the hypothesis `~ClosesBusyDialog`, without which it is false
(section 3).

`LossIsHarmless` relates the draft to every patch it ever sent, some of which may still be on the wire.
Its invariant `HInv` is written for what the draft shows and for its unsettled save, the one it
waits for or whose outcome it does not know (`Unsettled`). As long as nothing was given up or refused:
the unsettled save is based on what the draft shows and replaces its proposal (`OnTop`); a proposal has
the base of the one it replaces (`Lineage`); whatever the server could still commit is the unsettled
save, the patch of the dialog or the proposal of the draft (`InHand`); a revision of the draft that it does
not show is that of the save or of the dialog (`OwnRevisions`); a conflict is shown only when
somebody else has made a revision since (`Says`); and a dialog resolves a foreign change, unless the draft
has nothing of its own (`Compares`). So a late request finds its base gone, and of two pending
proposals (`OnePending`) one would have replaced the other or would be on an older source.
`ServerImplementsLedger` is the server's side: requests that are repeated, that come late or that race
with the dialog, the proposals and other processes apply each patch once, under a revision of its own.

**Files, export, evidence, releases.** `RootInv` says that the operations on a path form a queue in which each
awaits its predecessor, so the chain of promises is a mutex (`TurnsExclude`); and that a descriptor
is open, being registered or being closed, one of the three, at every await (`NothingLeaks`).
`ExportInv` has, for each call at each step, that its stage is of the preview the call persists, that the
documents in it are those of that plan and the attachment has the declared bytes, and that what a preview
froze never changes. So `PackageFaithful` relates a published package to its own preview, whatever the source
became; that `verifyFrozen` also refuses a source that moved is not needed for it. `EvidenceInv` ties the part of each
upload to its creator, by the exclusive create, and the bytes of a record to wherever its
mutation stands: in the part before the journal, in both at the publication, under `evidence/` after.
`ReleaseInv` says that who installs holds the lock of the cache and has a directory to itself, without
a receipt before the end and with no aborted download in it (`Located`); so whoever lists is elsewhere.
`Checked` adds what each stage of `#load` has established about the files as they are now, as long
as nobody damaged them since; at its end that is a genuine release.

**Review.** `Grounded` looks back over the history: for an approving decision that is current and
that nobody took back or recorded as invalid, every revision since its base has the same planning
content, was made under the same rules, and had the attachment in place where one is required,
whatever source, rules or disk show now. A commit that decides nothing anew either finds that this
still holds or records the approval as invalid; a decision names its own base; and a change
from outside only changes what is shown, not what was recorded. So `CurrentAsReviewed` follows for
whoever computes the status, on any rules.

**Migration.** `InOrder` says of a call at each stage which backup it works on and what is
written of it, `OwnersApart` that the directory it made is its own, `Sound` what a directory says
whoever works on it: these give `MigratedIsBackedUp` and `AppliedHasHistory`. `RestoredWhole` needs to
know where a revision can be: `Reserved` says that a revision which a call will put in place is
nowhere before, and `Spread` that one which shows in two folders, or in one and in a backup of
another, got there through a verified backup with all its members. A folder shows also what an editor
may undo to (`Shows`). `NotCrossing` is what keeps restorations from waiting for each other: a
destination that was seen empty had no backup, so nobody who was on the way there can have come from it.

**Entry.** `TerminalInv` numbers the lines: those handed to prompts, then those waiting,
are the typed ones in order, without a gap, and none of both remains after the end. `DialogsInv`
says that every command but the pending one is settled: a proposal, known to the dialog as recorded, or
never to be recorded, because its base is older than the source. The pending one is the last, so what
was recorded before another command was made is known. In `WizardInv`, what a clean draft or the source has of the person is
stored, and an intent that took effect stored exactly the draft it was made for: then a lost
answer and its retry, which adopts what the first attempt made, lose nothing. `WizardImplementsLedger`
adds that retried saves, tools and applied proposals make one revision each: what was committed under
an identity is no later than the source (`AppliedEarlier`), so the next revision is nobody's yet.

**Model-checked only.**

- Of `CallsProceed` of `Approval`, the first half is `NobodyWaitsInCircles`; that a call which waits for
  nobody has a step is about ENABLED. `StaleLockRecovered`, `NothingHangs`,
  `LaunchSafe` (whose safety half is `ProjectStaysGuarded`'s) and `EditsSettle` are liveness under
  fairness. The prover handles neither.
- `PolicyStillAgrees` and the other three that the code violates.

No module that is proved about declares a RECURSIVE operator, which would take the SMT
backend away; nor is anything proved by induction over data, which the installed
provers cannot instantiate.

## 5. What is not modelled

- Power loss: a file that `fsync` returned for is there after a crash; the order of
  unsynced writes is not modelled.
- In `Transactions`: the contents of a patch; a source is a version. A lease that is lost while
  it is used does not occur, as `LeaseIntactHolds` shows. Where another module needs a commit
  (`Evidence`, `Draft`, `Wizard`, `Dialogs`, `Migration`) it has the verdict and the effect of one,
  which `Transactions` justifies; for `Approval`, `Draft` and `Wizard` it is proved that what they make of
  it keeps the `Ledger` that `Transactions` implements.
- In `Updates`: what is only displayed (`lastOutcome`, `pendingVersion`), overrides for one run,
  source checkouts, and the inside of the handshake (`Launcher`) and of a download (`Release`).
- In `Approval`: more than one scope, more than one project per settings file.
- In `Review`: the catalogue but for three rules that stand for a warning, a waivable warning and
  a blocker; cross references of a deployment.
- In `Evidence`: references and removals, which are commits without a part; `observe`, which reads.
- In `ProjectService`: the grants of the selected project and the late attach of `read()`.
- In the wizard: which question is asked next, and the editing of single records.
- Validation rules, schemas, YAML layout, artifacts, argument parsing,
  screens: pure functions or formatting over one document, for which tests are the better
  tool. Scripts, packaging and tests are not the program.

## 6. Plan

Modelled and checked: everything in the table of section 1 that has a module. Proved: what the table of
section 4 lists, which is every safety property of the passing runs but the ENABLED half of
`CallsProceed`. Liveness stays with TLC. What could be added:

1. `ProjectService`: the late attach of `read()` and the grants of the selected project, which would
   cover the hazard at project.ts:154.
2. `Dialogs`, `Review` and `Evidence` as further users of `Ledger`.
3. More of the web application: planning and review screens send single commands, as `Dialogs` does.

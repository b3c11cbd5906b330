------------------------------ MODULE Updates ------------------------------
(***************************************************************************)
(* The updater of the launcher: UpdateService (apps/cli/src/runtime/       *)
(* update.ts), the verified runtime cache with its selection pointer       *)
(* (cache.ts) and the stored update policy (project-fs settings/           *)
(* updates.ts).  Launches, `update install` and `update rollback` run in   *)
(* processes of their own over one cache directory and one settings file,  *)
(* next to a registry that publishes releases and a user who configures.   *)
(*                                                                         *)
(* The cache lock covers a whole download and a whole promotion; the       *)
(* settings lock covers one update of the settings, which is therefore one *)
(* step.  Everything else is read without a lock, and every await between  *)
(* two such reads is a point where other processes move.                   *)
(*                                                                         *)
(* Left out: lastOutcome and pendingVersion, which are only displayed;     *)
(* skippedVersions, which no command sets; the overrides of one run        *)
(* (--offline, --update-mode), for which the stored policy stands; source  *)
(* checkouts, which manage no runtime; a payload that changes after it was *)
(* verified.                                                               *)
(***************************************************************************)
EXTENDS Naturals, TLC

CONSTANTS
  Procs,          \* launchers and update commands
  Versions,       \* releases, numbered in the order of semver.gt
  Bundle,         \* the version inside the launcher's own package
  Major(_),       \* semver.major
  Stable,         \* versions that are no prerelease and of the stable channel
  Compatible,     \* versions that pass assertCompatible on this machine
  Installed,      \* versions an earlier update may have selected
  Requests,       \* exact versions users name on a command line
  Patches,        \* the policy changes users make with `update configure`
  Dirs,           \* how many directories runtimes/<uuid> may come to exist
  None,           \* null
  Empty,          \* no directory, or one without verified.json
  Torn,           \* a verified.json a crash left unfinished
  Bundled,        \* the descriptor of the launcher's own runtime
  Starts,         \* which operations each process may be started for
  MaxStarts,      \* bound: operations that are started
  MaxGeneration,  \* bound: updates of the settings
  MaxCrashes      \* bound: processes that die

ASSUME VersionsAssumption ==
  /\ Versions \subseteq Nat
  /\ Bundle \in Versions /\ Bundle \in Compatible
  /\ Requests \subseteq Versions
  /\ Installed \subseteq Versions \cap Compatible
  /\ Stable \subseteq Versions /\ Compatible \subseteq Versions
  /\ Starts \in [Procs -> SUBSET {"launch", "install", "rollback"}]
  /\ Dirs \in Nat \ {0} /\ MaxStarts \in Nat
  /\ MaxGeneration \in Nat /\ MaxCrashes \in Nat

ASSUME DistinctAssumption ==
  /\ {None, Empty, Torn, Bundled} \cap (Versions \cup (1 .. Dirs)) = {}
  /\ None \notin {Empty, Torn, Bundled} /\ Empty \notin {Torn, Bundled} /\ Torn # Bundled
  /\ None \notin Procs

VARIABLES
  settings,   \* the `updates` section of settings.json
  cache,      \* what each cache directory holds
  pointer,    \* selection.json: active and previous directory
  cacheLock,  \* the process inside RuntimeCache.#locked
  latest,     \* the version the registry tags `latest`
  main,       \* what the launch of a process awaits
  job,        \* what its update, install or rollback awaits
  stage,      \* which read of status() is next
  mine,       \* the local variables of each process; one that is not read
              \* again is reset to its first value
  started,    \* operations started so far
  crashes     \* processes that died so far

sides == <<settings, cache, pointer, cacheLock, latest>>
procs == <<main, job, stage, mine>>
counts == <<started, crashes>>
vars == <<sides, procs, counts>>
-----------------------------------------------------------------------------
(* Policies and runtimes.                                                  *)

Policy == [mode : {"auto", "notify", "off"}, offline : BOOLEAN,
           pinned : Versions \cup {None}]

(* configure() parses what it stores.                                      *)
ASSUME PatchesAssumption ==
  \A patch \in Patches, policy \in Policy : patch @@ policy \in Policy

Hold == [version : Versions, prior : Policy, generation : Nat]

Settings == [policy : Policy, hold : Hold \cup {None}, generation : Nat]

(* Repository default: automatic updates, online, no pin and no hold.      *)
DefaultSettings ==
  [policy |-> [mode |-> "auto", offline |-> FALSE, pinned |-> None],
   hold |-> None, generation |-> 0]

DirIds == 1 .. Dirs

VersionOf(r) == IF r = Bundled THEN Bundle ELSE cache[r]

(* The version of a cache reference, null for a null reference.            *)
RefVersion(d) == IF d = None THEN None ELSE cache[d]

Verified == {d \in DirIds : cache[d] \in Versions}

(* RuntimeCache.list throws on the first entry that does not load.         *)
ListFails == \E d \in DirIds : cache[d] = Torn

(* What a hold or a pin demands, null when the selection is free.          *)
Required(s) == IF s.hold # None THEN s.hold.version ELSE s.policy.pinned

(* What selectRuntime is bound to: an explicit version of a launch first.  *)
Exact(p) ==
  IF mine[p].want # None THEN mine[p].want ELSE Required(mine[p].seen)

(* The runtimes that carry the selected version.                           *)
Candidates(p) ==
  LET exact  == Exact(p)
      listed == IF ListFails THEN {} ELSE Verified
      with(v) == {d \in listed : cache[d] = v}
  IN CASE exact = Bundle -> {Bundled}
       [] exact # None /\ exact # Bundle -> with(exact)
       [] exact = None /\ with(mine[p].active) # {} -> with(mine[p].active)
       [] OTHER -> {Bundled}

(* The runtimes status() may answer; none when it throws.  Only the free   *)
(* selection falls back to the bundle.                                     *)
Runtimes(p) ==
  LET fits(r) == VersionOf(r) \in Compatible
  IN IF Exact(p) = None
       THEN {IF fits(r) THEN r ELSE Bundled : r \in Candidates(p)}
       ELSE IF ListFails THEN {} ELSE {r \in Candidates(p) : fits(r)}

(* status() threw because the exact version is not available locally.      *)
Unavailable(p) == ~ListFails /\ Exact(p) # None /\ Candidates(p) = {}

(* An update that the launcher started by itself.                          *)
Automatic(p) == main[p] # "command"

(* Mutant: an update to the running version counts as newer.               *)
NewerOrSame(v, from) == v \in Stable /\ v >= from /\ Major(v) = Major(from)

(* What an automatic update may install over the running version.          *)
Newer(v, from) == v \in Stable /\ v > from /\ Major(v) = Major(from)

Suits(p, v) ==
  v \in Compatible /\ (Automatic(p) => Newer(v, mine[p].from))
-----------------------------------------------------------------------------
Idle == [want |-> None, target |-> None, before |-> None, auto |-> FALSE,
         base |-> Bundled, seen |-> DefaultSettings, active |-> None,
         from |-> Bundle, runtime |-> Bundled, chosen |-> Bundled,
         aborted |-> FALSE]

MainPlaces == {"idle", "before", "baseline", "racing", "spawn", "restore",
               "leaving", "command"}

JobPlaces == {"none", "check", "metadata", "install", "repair", "get",
              "fetch", "download", "agree", "promote", "publish", "settle",
              "target", "local", "hold", "bundle"}

(* The local variables of a process.                                       *)
Locals == [want : Versions \cup {None}, target : Versions \cup {None},
           before : DirIds \cup {None}, auto : BOOLEAN, base : DirIds \cup {Bundled},
           seen : Settings, active : Versions \cup {None}, from : Versions,
           runtime : DirIds \cup {Bundled}, chosen : DirIds \cup {Bundled},
           aborted : BOOLEAN]

TypeOK ==
  /\ settings \in Settings
  /\ cache \in [DirIds -> Versions \cup {Empty, Torn}]
  /\ pointer \in [active : DirIds \cup {None}, previous : DirIds \cup {None}]
  /\ cacheLock \in Procs \cup {None}
  /\ latest \in Versions
  /\ main \in [Procs -> MainPlaces]
  /\ job \in [Procs -> JobPlaces]
  /\ stage \in [Procs -> {"none", "policy", "pointer", "list"}]
  /\ mine \in [Procs -> Locals]
  /\ started \in 0 .. MaxStarts /\ crashes \in 0 .. MaxCrashes
  /\ \A p \in Procs : job[p] \in {"download", "publish"} <=> cacheLock = p

Init ==
  /\ settings = DefaultSettings
  /\ \/ /\ cache = [d \in DirIds |-> Empty]
        /\ pointer = [active |-> None, previous |-> None]
     \/ \E v \in Installed :
          /\ cache = [d \in DirIds |-> IF d = 1 THEN v ELSE Empty]
          /\ pointer = [active |-> 1, previous |-> None]
  /\ cacheLock = None
  /\ latest \in Versions
  /\ main = [p \in Procs |-> "idle"]
  /\ job = [p \in Procs |-> "none"]
  /\ stage = [p \in Procs |-> "none"]
  /\ mine = [p \in Procs |-> Idle]
  /\ started = 0 /\ crashes = 0
-----------------------------------------------------------------------------
(* Moves shared by the steps below.                                        *)

Go(p, place) == job' = [job EXCEPT ![p] = place]

(* An update forgets what it read and keeps what its launch still needs.   *)
Forget(p) ==
  mine' = [mine EXCEPT ![p] = [Idle EXCEPT !.before = mine[p].before,
             !.base = mine[p].base, !.chosen = mine[p].chosen,
             !.aborted = mine[p].aborted]]

(* Await status() on the way to a place.                                   *)
GoReading(p, place) == Go(p, place) /\ stage' = [stage EXCEPT ![p] = "policy"]

Read(p) == stage' = [stage EXCEPT ![p] = "none"]

Free(p) == cacheLock' = IF cacheLock = p THEN None ELSE cacheLock

(* The launch goes on with a runtime and will hand the project to it.      *)
Select(p, r) ==
  /\ main' = [main EXCEPT ![p] = "spawn"]
  /\ mine' = [mine EXCEPT ![p] =
       [Idle EXCEPT !.before = IF r = Bundled THEN None ELSE mine[p].before,
                    !.chosen = r]]

(* The launch has nothing left to do but to wait for its child.            *)
Leave(p) ==
  /\ main' = [main EXCEPT ![p] = "leaving"]
  /\ mine' = [mine EXCEPT ![p].before = None, ![p].chosen = Bundled]

(* A user starts an operation.                                             *)
May(p, operation) ==
  /\ main[p] = "idle" /\ operation \in Starts[p] /\ started < MaxStarts
  /\ started' = started + 1

(* The update ends without a result: startup() falls back to its baseline  *)
(* if the deadline did not, a command reports the error and exits.         *)
JobEnds(p) ==
  /\ Go(p, "none") /\ Read(p)
  /\ \/ main[p] = "racing" /\ Select(p, mine[p].base)
     \/ /\ main[p] = "command"
        /\ main' = [main EXCEPT ![p] = "idle"]
        /\ mine' = [mine EXCEPT ![p] = Idle]
     \/ /\ main[p] \notin {"racing", "command"}
        /\ mine' = [mine EXCEPT ![p] = [Idle EXCEPT !.before = mine[p].before,
                                                    !.chosen = mine[p].chosen]]
        /\ UNCHANGED main
-----------------------------------------------------------------------------
(* status(): settings, then the pointer, then the list of the cache.  The  *)
(* step that reads the list also runs the code behind it, up to the next   *)
(* await.                                                                  *)

ReadPolicy(p) ==
  /\ stage[p] = "policy"
  /\ mine' = [mine EXCEPT ![p].seen = settings]
  /\ stage' = [stage EXCEPT ![p] = "pointer"]
  /\ UNCHANGED <<sides, main, job, counts>>

ReadPointer(p) ==
  /\ stage[p] = "pointer"
  /\ mine' = [mine EXCEPT ![p].active = RefVersion(pointer.active)]
  /\ stage' = [stage EXCEPT ![p] = "list"]
  /\ UNCHANGED <<sides, main, job, counts>>
-----------------------------------------------------------------------------
(* launch() and startup().                                                 *)

StartLaunch(p) ==
  /\ May(p, "launch")
  /\ main' = [main EXCEPT ![p] = "before"]
  /\ \E v \in Requests \cup {None} : mine' = [mine EXCEPT ![p].want = v]
  /\ UNCHANGED <<sides, job, stage, crashes>>

ReadBefore(p) ==
  /\ main[p] = "before"
  /\ main' = [main EXCEPT ![p] = "baseline"]
  /\ stage' = [stage EXCEPT ![p] = "policy"]
  /\ mine' = [mine EXCEPT ![p].before = pointer.active]
  /\ UNCHANGED <<sides, job, counts>>

(* The policies under which startup() leaves the network alone.            *)
NoStartupCheck(p) ==
  LET s == mine[p].seen
  IN \/ mine[p].want # None \/ Required(s) # None
     \/ s.policy.offline \/ s.policy.mode = "off"

Baseline(p) ==
  /\ main[p] = "baseline" /\ stage[p] = "list"
  /\ \/ /\ Runtimes(p) = {}
        /\ main' = [main EXCEPT ![p] = "leaving"]
        /\ mine' = [mine EXCEPT ![p] = Idle]
        /\ Read(p) /\ UNCHANGED job
     \/ \E r \in Runtimes(p) :      \* also readOnly and update commands
          Select(p, r) /\ Read(p) /\ UNCHANGED job
     \/ /\ ~NoStartupCheck(p)
        /\ \E r \in Runtimes(p) :
             mine' = [mine EXCEPT ![p] =
               [Idle EXCEPT !.before = mine[p].before, !.base = r,
                            !.auto = mine[p].seen.policy.mode = "auto"]]
        /\ main' = [main EXCEPT ![p] = "racing"]
        /\ GoReading(p, "check")
  /\ UNCHANGED <<sides, counts>>

(* The startup timer: the update is aborted and goes on in the background. *)
Deadline(p) ==
  /\ main[p] = "racing"
  /\ main' = [main EXCEPT ![p] = "spawn"]
  /\ mine' = [mine EXCEPT ![p].aborted = TRUE, ![p].chosen = mine[p].base,
                          ![p].base = Bundled]
  /\ UNCHANGED <<sides, job, stage, counts>>

(* The handshake succeeds and the project is handed over, or it fails.     *)
Spawn(p) ==
  /\ main[p] = "spawn"
  /\ \/ Leave(p)
     \/ /\ mine[p].chosen # Bundled
        /\ main' = [main EXCEPT ![p] = "restore"]
        /\ UNCHANGED mine
  /\ UNCHANGED <<sides, job, stage, counts>>

Restore(p) ==
  /\ main[p] = "restore"
  /\ Leave(p)
  /\ \/ cacheLock # None /\ UNCHANGED pointer       \* gave up waiting
     \/ /\ cacheLock = None
        /\ pointer' = IF RefVersion(pointer.active) = cache[mine[p].chosen]
                        THEN [active |-> mine[p].before, previous |-> None]
                        ELSE pointer
  /\ UNCHANGED <<settings, cache, cacheLock, latest, job, stage, counts>>

(* The child has ended and no update runs in the background.               *)
Exit(p) ==
  /\ main[p] = "leaving" /\ job[p] = "none"
  /\ main' = [main EXCEPT ![p] = "idle"]
  /\ mine' = [mine EXCEPT ![p] = Idle]
  /\ UNCHANGED <<sides, job, stage, counts>>
-----------------------------------------------------------------------------
(* update() of startup(): check, install when automatic, status again.     *)

Check(p) ==
  /\ job[p] = "check" /\ stage[p] = "list"
  /\ \/ Runtimes(p) = {} /\ JobEnds(p)
     \/ /\ mine[p].seen.policy.offline /\ Runtimes(p) # {}
        /\ GoReading(p, "settle") /\ Forget(p) /\ UNCHANGED main
     \/ /\ ~mine[p].seen.policy.offline
        /\ \E r \in Runtimes(p) :
             mine' = [mine EXCEPT ![p].from = VersionOf(r),
                        ![p].seen = DefaultSettings, ![p].active = None]
        /\ Go(p, "metadata") /\ Read(p) /\ UNCHANGED main
  /\ UNCHANGED <<sides, counts>>

(* The registry answers, or the request fails or is aborted.               *)
Metadata(p) ==
  /\ job[p] = "metadata"
  /\ \/ JobEnds(p)
     \/ LET install == /\ latest \in Stable /\ latest > mine[p].from
                       /\ mine[p].auto
                       /\ Major(latest) = Major(VersionOf(mine[p].base))
        IN /\ GoReading(p, IF install THEN "install" ELSE "settle")
           /\ mine' = [mine EXCEPT ![p].auto = FALSE, ![p].from = Bundle,
                  ![p].target = IF install THEN latest ELSE None]
           /\ UNCHANGED main
  /\ UNCHANGED <<sides, counts>>

Settle(p) ==
  /\ job[p] = "settle" /\ stage[p] = "list"
  /\ \/ (Runtimes(p) = {} \/ main[p] # "racing") /\ JobEnds(p)
     \/ /\ main[p] = "racing"
        /\ \E r \in Runtimes(p) : Select(p, r)
        /\ Go(p, "none") /\ Read(p)
  /\ UNCHANGED <<sides, counts>>
-----------------------------------------------------------------------------
(* #install, for an update command and inside startup().                   *)

StartInstall(p) ==
  /\ May(p, "install")
  /\ main' = [main EXCEPT ![p] = "command"]
  /\ \E v \in Requests \cup {None} : mine' = [mine EXCEPT ![p].target = v]
  /\ GoReading(p, "install")
  /\ UNCHANGED <<sides, crashes>>

InstallStatus(p) ==
  /\ job[p] = "install" /\ stage[p] = "list"
  /\ LET held == Required(mine[p].seen)
         target == mine[p].target
     IN \/ \E r \in Runtimes(p) :
             IF held # None /\ held # target THEN JobEnds(p)
             ELSE /\ mine' = [mine EXCEPT ![p].from = VersionOf(r)]
                  /\ Go(p, "get") /\ Read(p) /\ UNCHANGED main
        \/ /\ Runtimes(p) = {}
           /\ IF Unavailable(p) /\ target # None /\ ~Automatic(p)
                THEN Go(p, "repair") /\ Read(p) /\ UNCHANGED <<main, mine>>
                ELSE JobEnds(p)
  /\ UNCHANGED <<sides, counts>>

(* The exact version a pin or hold demands is missing: installing it by    *)
(* name is a repair.                                                       *)
Repair(p) ==
  /\ job[p] = "repair"
  /\ IF Required(settings) = mine[p].target
       THEN /\ mine' = [mine EXCEPT ![p].seen = settings, ![p].from = Bundle]
            /\ Go(p, "get") /\ UNCHANGED <<main, stage>>
       ELSE JobEnds(p)
  /\ UNCHANGED <<sides, counts>>

Holding(v) == {d \in Verified : cache[d] = v}

Get(p) ==
  LET target == mine[p].target
      asked  == target # None
  IN /\ job[p] = "get"
     /\ \/ asked /\ ListFails /\ JobEnds(p)
        \/ /\ asked /\ ~ListFails
           /\ \E d \in Holding(target) :
                IF Suits(p, target)
                  THEN /\ mine' = [mine EXCEPT ![p].runtime = d]
                       /\ Go(p, "agree") /\ UNCHANGED <<main, stage>>
                  ELSE JobEnds(p)
        \/ /\ asked => ~ListFails /\ Holding(target) = {}
           /\ IF mine[p].seen.policy.offline THEN JobEnds(p)
              ELSE Go(p, "fetch") /\ UNCHANGED <<main, stage, mine>>
     /\ UNCHANGED <<sides, counts>>

(* Mutant: the download begins without waiting for the cache lock.         *)
FetchUnlocked(p) ==
  LET v == IF mine[p].target = None THEN latest ELSE mine[p].target
  IN /\ job[p] = "fetch"
     /\ Automatic(p) => Newer(v, mine[p].from)
     /\ cacheLock' = p
     /\ mine' = [mine EXCEPT ![p].target = v]
     /\ Go(p, "download")
     /\ UNCHANGED <<settings, cache, pointer, latest, main, stage, counts>>

(* Metadata and attestations; then RuntimeCache.install takes the lock.    *)
Fetch(p) ==
  LET v == IF mine[p].target = None THEN latest ELSE mine[p].target
  IN /\ job[p] = "fetch"
     /\ \/ JobEnds(p) /\ UNCHANGED cacheLock
        \/ /\ cacheLock = None
           /\ Automatic(p) => Newer(v, mine[p].from)
           /\ cacheLock' = p
           /\ mine' = [mine EXCEPT ![p].target = v]
           /\ Go(p, "download") /\ UNCHANGED <<main, stage>>
     /\ UNCHANGED <<settings, cache, pointer, latest, counts>>

NewDir(d) == cache[d] = Empty /\ \A e \in 1 .. (d - 1) : cache[e] # Empty

(* Download, verify and extract; verified.json makes the directory count.  *)
Download(p) ==
  /\ job[p] = "download"
  /\ cacheLock' = None
  /\ \/ JobEnds(p) /\ UNCHANGED cache
     \/ \E d \in DirIds :
          /\ NewDir(d)
          /\ cache' = [cache EXCEPT ![d] = mine[p].target]
          /\ IF Suits(p, mine[p].target)
               THEN /\ mine' = [mine EXCEPT ![p].runtime = d]
                    /\ Go(p, "agree") /\ UNCHANGED <<main, stage>>
               ELSE JobEnds(p)
  /\ UNCHANGED <<settings, pointer, latest, counts>>

(* The policy must still be the one the install began with.                *)
Agree(p) ==
  /\ job[p] = "agree"
  /\ IF settings.generation = mine[p].seen.generation /\ ~mine[p].aborted
       THEN Go(p, "promote") /\ UNCHANGED <<main, stage, mine>>
       ELSE JobEnds(p)
  /\ UNCHANGED <<sides, counts>>

(* promote() waits for the cache lock, at most ten seconds, and verifies   *)
(* the runtime again, up to its last look at the abort signal.             *)
Promote(p) ==
  /\ job[p] = "promote"
  /\ \/ cacheLock # None /\ JobEnds(p) /\ UNCHANGED cacheLock
     \/ /\ cacheLock = None
        /\ IF mine[p].aborted THEN JobEnds(p) /\ UNCHANGED cacheLock
           ELSE /\ cacheLock' = p
                /\ Go(p, "publish") /\ UNCHANGED <<main, stage, mine>>
  /\ UNCHANGED <<settings, cache, pointer, latest, counts>>

(* Mutant: the selection that stays becomes its own predecessor.           *)
PublishRepeated(p) ==
  /\ job[p] = "publish"
  /\ cacheLock' = None
  /\ pointer' = [active |-> mine[p].runtime, previous |-> pointer.active]
  /\ \/ Automatic(p) /\ GoReading(p, "settle") /\ Forget(p) /\ UNCHANGED main
     \/ JobEnds(p)
  /\ UNCHANGED <<settings, cache, latest, counts>>

Publish(p) ==
  /\ job[p] = "publish"
  /\ cacheLock' = None
  /\ pointer' = [active   |-> mine[p].runtime,
                 previous |-> IF pointer.active = mine[p].runtime
                                THEN pointer.previous ELSE pointer.active]
  /\ \/ Automatic(p) /\ GoReading(p, "settle") /\ Forget(p) /\ UNCHANGED main
     \/ JobEnds(p)       \* a command is done, or outcome() failed
  /\ UNCHANGED <<settings, cache, latest, counts>>
-----------------------------------------------------------------------------
(* rollback().                                                             *)

StartRollback(p) ==
  /\ May(p, "rollback")
  /\ main' = [main EXCEPT ![p] = "command"]
  /\ \E v \in Requests \cup {None} : mine' = [mine EXCEPT ![p].target = v]
  /\ Go(p, "target")
  /\ UNCHANGED <<sides, stage, crashes>>

RollbackTarget(p) ==
  /\ job[p] = "target"
  /\ mine' = [mine EXCEPT ![p].target =
       CASE @ # None -> @
         [] @ = None /\ pointer.previous # None -> cache[pointer.previous]
         [] OTHER -> Bundle]
  /\ Go(p, "local")
  /\ UNCHANGED <<sides, main, stage, counts>>

(* Mutant: a version is held that is not looked up in the cache.           *)
RollbackRuntimeUnchecked(p) ==
  /\ job[p] = "local" /\ mine[p].target \in Compatible
  /\ \E r \in Holding(mine[p].target) \cup {Bundled} :
       mine' = [mine EXCEPT ![p].runtime = r]
  /\ Go(p, "hold")
  /\ UNCHANGED <<sides, main, stage, counts>>

RollbackRuntime(p) ==
  LET target == mine[p].target
      local  == CASE target = Bundle -> {Bundled}
                  [] target # Bundle /\ ListFails -> {}
                  [] OTHER -> Holding(target)
  IN /\ job[p] = "local"
     /\ IF local # {} /\ target \in Compatible
          THEN /\ \E r \in local : mine' = [mine EXCEPT ![p].runtime = r]
               /\ Go(p, "hold") /\ UNCHANGED <<main, stage>>
          ELSE JobEnds(p)
     /\ UNCHANGED <<sides, counts>>

HoldVersion(p) ==
  /\ job[p] = "hold"
  /\ \/ JobEnds(p) /\ UNCHANGED settings        \* gave up waiting for the lock
     \/ /\ settings.generation < MaxGeneration
        /\ settings' = [settings EXCEPT
             !.hold = [version |-> mine[p].target, prior |-> settings.policy,
                       generation |-> settings.generation + 1],
             !.generation = @ + 1]
        /\ Go(p, IF mine[p].runtime = Bundled THEN "bundle" ELSE "promote")
        /\ mine' = [mine EXCEPT ![p].seen = settings']
        /\ UNCHANGED <<main, stage>>
  /\ UNCHANGED <<cache, pointer, cacheLock, latest, counts>>

SelectBundled(p) ==
  /\ job[p] = "bundle"
  /\ \/ cacheLock # None /\ UNCHANGED pointer        \* gave up waiting
     \/ /\ cacheLock = None
        /\ pointer' = [active   |-> None,
                       previous |-> IF pointer.active # None
                                      THEN pointer.active ELSE pointer.previous]
  /\ JobEnds(p)
  /\ UNCHANGED <<settings, cache, cacheLock, latest, counts>>
-----------------------------------------------------------------------------
(* The user, the registry and crashes.                                     *)

(* Mutant: a configuration that does not count as a generation.            *)
ConfigureUncounted ==
  /\ \E patch \in Patches : settings' = [settings EXCEPT !.policy = patch @@ @]
  /\ UNCHANGED <<cache, pointer, cacheLock, latest, procs, counts>>

Configure ==
  /\ settings.generation < MaxGeneration
  /\ \E patch \in Patches :
       settings' = [settings EXCEPT !.policy = patch @@ @, !.generation = @ + 1]
  /\ UNCHANGED <<cache, pointer, cacheLock, latest, procs, counts>>

Resume ==
  /\ settings.generation < MaxGeneration
  /\ settings' =
       [policy |-> IF /\ settings.hold # None
                      /\ settings.hold.generation = settings.generation
                     THEN settings.hold.prior ELSE settings.policy,
        hold |-> None, generation |-> settings.generation + 1]
  /\ UNCHANGED <<cache, pointer, cacheLock, latest, procs, counts>>

Release ==
  /\ \E v \in Versions : v > latest /\ latest' = v
  /\ UNCHANGED <<settings, cache, pointer, cacheLock, procs, counts>>

(* A process dies; the next taker recovers its lock.  A directory it was   *)
(* filling is left without verified.json, with a torn or a complete one.   *)
Crash(p) ==
  /\ main[p] # "idle" /\ crashes < MaxCrashes
  /\ crashes' = crashes + 1
  /\ main' = [main EXCEPT ![p] = "idle"]
  /\ mine' = [mine EXCEPT ![p] = Idle]
  /\ Go(p, "none") /\ Read(p) /\ Free(p)
  /\ \/ UNCHANGED cache
     \/ /\ job[p] = "download"
        /\ \E d \in DirIds, c \in {Torn, mine[p].target} :
             NewDir(d) /\ cache' = [cache EXCEPT ![d] = c]
  /\ UNCHANGED <<settings, pointer, latest, started>>
-----------------------------------------------------------------------------
Launch(p) == \/ ReadBefore(p) \/ Baseline(p) \/ Deadline(p)
             \/ Spawn(p) \/ Restore(p) \/ Exit(p)

Update(p) == \/ Check(p) \/ Metadata(p) \/ Settle(p)
             \/ InstallStatus(p) \/ Repair(p) \/ Get(p) \/ Fetch(p)
             \/ Download(p) \/ Agree(p) \/ Promote(p) \/ Publish(p)
             \/ RollbackTarget(p) \/ RollbackRuntime(p)
             \/ HoldVersion(p) \/ SelectBundled(p)

Next == \/ \E p \in Procs : \/ StartLaunch(p) \/ StartInstall(p)
                            \/ StartRollback(p)
                            \/ ReadPolicy(p) \/ ReadPointer(p)
                            \/ Launch(p) \/ Update(p) \/ Crash(p)
        \/ Configure \/ Resume \/ Release

Spec == Init /\ [][Next]_vars
-----------------------------------------------------------------------------
(* Properties.                                                             *)

(* The pointer names runtimes that were verified and fit this machine, two *)
(* different directories if it names two, and a launch hands the project   *)
(* to nothing else, whatever was configured, published or crashed since.   *)
SelectionFits ==
  /\ \A d \in {pointer.active, pointer.previous} \ {None} :
       d \in Verified /\ cache[d] \in Compatible
  /\ pointer.active # None => pointer.active # pointer.previous
  /\ \A p \in Procs : main[p] \in {"spawn", "restore"} =>
       VersionOf(mine[p].chosen) \in Compatible

(* Rollback holds before it selects, and may die in between: the version   *)
(* it holds is still there to be launched.                                 *)
HeldVersionKept ==
  settings.hold # None =>
    \/ settings.hold.version = Bundle
    \/ \E d \in Verified : cache[d] = settings.hold.version

(* Resume puts the policy of the time of the hold back exactly when no     *)
(* update of the settings came in between, so it never undoes a later      *)
(* preference.                                                             *)
ResumeKeepsPreferences ==
  settings.hold # None /\ settings.hold.generation = settings.generation
    => settings.policy = settings.hold.prior

(* An update that startup began raises the selection, or the bundle when   *)
(* nothing is selected, unless another process moved the selection after   *)
(* this one read it.                                                       *)
LoneUpdateRaises ==
  [][\A p \in Procs :
       Publish(p) /\ Automatic(p) /\ RefVersion(pointer.active) = mine[p].active
         => cache[mine[p].runtime] >
              IF pointer.active = None THEN Bundle ELSE cache[pointer.active]]_vars

(* docs/update-policy.md: a policy change during verification prevents     *)
(* stale policy from promoting a runtime.                                  *)
PolicyStillAgrees ==
  [][\A p \in Procs :
       job[p] = "publish" /\ job'[p] # "publish" /\ pointer' # pointer
         => mine[p].seen.generation = settings.generation]_vars
=============================================================================

--------------------------- MODULE UpdatesProofs ---------------------------
(* Proofs about Updates, for any number of processes, versions and cache   *)
(* directories, and for every policy change.                               *)
EXTENDS Updates, TLAPS

(* A directory that was verified and whose version fits this machine.      *)
Fits(d) == d \in DirIds /\ cache[d] \in Versions /\ cache[d] \in Compatible
Runs(r) == r = Bundled \/ Fits(r)

(* What the selection stands for when a process has read it.               *)
Selected(p) == IF mine[p].active = None THEN Bundle ELSE mine[p].active

(* Which updates a launch and a command run, and where they read status(). *)
Places(p) ==
  /\ stage[p] # "none" => main[p] = "baseline" \/ job[p] \in {"check", "settle", "install"}
  /\ main[p] \in {"idle", "before", "baseline"} => job[p] = "none"
  /\ main[p] = "command" => job[p] \notin {"check", "metadata", "settle"}
  /\ main[p] # "command" => job[p] \notin {"repair", "target", "local", "hold", "bundle"}

(* What a process has read and found stays good: nothing that was verified *)
(* leaves the cache.                                                       *)
Found(p) ==
  /\ mine[p].before # None => Fits(mine[p].before)
  /\ mine[p].active # None => \E d \in DirIds : Fits(d) /\ cache[d] = mine[p].active
  /\ main[p] = "racing" => Runs(mine[p].base)
  /\ main[p] \in {"spawn", "restore"} => Runs(mine[p].chosen)
  /\ job[p] \in {"agree", "promote", "publish"} => Fits(mine[p].runtime)
  /\ job[p] \in {"download", "local", "hold"} => mine[p].target \in Versions
  /\ job[p] = "hold" => Runs(mine[p].runtime) /\ VersionOf(mine[p].runtime) = mine[p].target

(* What an update of startup() is about to select is newer than what it    *)
(* found selected.  A pin that asks for the running version never passes   *)
(* Newer, and with a torn entry the lookup in the cache ends the update.   *)
Raising(p) ==
  main[p] # "command" =>
    /\ job[p] # "none" => mine[p].want = None
    /\ job[p] \in {"install", "get", "fetch", "download"} => mine[p].target \in Versions
    /\ job[p] \in {"get", "fetch", "download"} =>
         \/ mine[p].from = Selected(p) \/ mine[p].from = mine[p].target
         \/ job[p] = "get" /\ ListFails
    /\ job[p] \in {"agree", "promote", "publish"} => cache[mine[p].runtime] > Selected(p)

PointerFits ==
  /\ pointer.active # None => Fits(pointer.active)
  /\ pointer.previous # None => Fits(pointer.previous)
  /\ pointer.active # None => pointer.active # pointer.previous

(* A hold is never of a later generation than the settings.                *)
HoldIsPast == settings.hold # None => settings.hold.generation <= settings.generation

IInv ==
  /\ TypeOK /\ PointerFits /\ HeldVersionKept /\ ResumeKeepsPreferences /\ HoldIsPast
  /\ \A p \in Procs : Places(p) /\ Found(p) /\ Raising(p)
-----------------------------------------------------------------------------
(* Records                                                                 *)

LEMMA IdleTyped == Idle \in Locals /\ DefaultSettings \in Settings
<1>1. DefaultSettings \in Settings
  BY DEF DefaultSettings, Settings, Policy
<1> QED
  BY <1>1, VersionsAssumption DEF Idle, Locals

LEMMA IdleFields ==
  /\ Idle.want = None /\ Idle.target = None /\ Idle.before = None /\ Idle.active = None
  /\ Idle.base = Bundled /\ Idle.runtime = Bundled /\ Idle.chosen = Bundled
BY DEF Idle

LEMMA BundleFits ==
  /\ Bundle \in Versions \cap Compatible
  /\ \A d \in DirIds : d # Bundled /\ d # None
  /\ \A v \in Versions : v # None /\ v # Empty /\ v # Torn
BY VersionsAssumption, DistinctAssumption DEF DirIds

-----------------------------------------------------------------------------
(* The cache only grows                                                    *)

Grows == \A d \in DirIds : cache[d] # Empty => cache'[d] = cache[d]

LEMMA CacheGrows ==
  ASSUME TypeOK, Next
  PROVE  Grows
<1>1. CASE UNCHANGED cache
  BY <1>1 DEF Grows
<1>2. ASSUME NEW d \in DirIds, NEW v, NewDir(d), cache' = [cache EXCEPT ![d] = v] PROVE Grows
  BY <1>2 DEF Grows, NewDir, TypeOK
<1>3. ASSUME NEW p \in Procs, Download(p) \/ Crash(p) PROVE Grows
  BY <1>1, <1>2, <1>3 DEF Download, Crash
<1>4. ASSUME NEW p \in Procs, StartLaunch(p) \/ StartInstall(p) \/ StartRollback(p)
                              \/ ReadPolicy(p) \/ ReadPointer(p) \/ Launch(p)
      PROVE  UNCHANGED cache
  BY <1>4 DEF StartLaunch, StartInstall, StartRollback, ReadPolicy, ReadPointer, Launch, ReadBefore, Baseline,
     Deadline, Spawn, Restore, Exit, sides
<1>5. ASSUME NEW p \in Procs, Update(p), ~Download(p) PROVE UNCHANGED cache
  BY <1>5 DEF Update, Check, Metadata, Settle, InstallStatus, Repair, Get, Fetch, Agree, Promote, Publish,
     RollbackTarget, RollbackRuntime, HoldVersion, SelectBundled, sides
<1>6. CASE Configure \/ Resume \/ Release
  BY <1>1, <1>6 DEF Configure, Resume, Release
<1> QED
  BY <1>1, <1>3, <1>4, <1>5, <1>6 DEF Next

(* What has been found is found again.                                     *)
LEMMA FitsStays ==
  ASSUME Grows
  PROVE  /\ \A d : Fits(d) => Fits(d)' /\ cache'[d] = cache[d]
         /\ \A r : Runs(r) => Runs(r)' /\ VersionOf(r)' = VersionOf(r)
         /\ ListFails => ListFails'
<1>1. ASSUME NEW d, Fits(d) PROVE Fits(d)' /\ cache'[d] = cache[d]
  BY <1>1, BundleFits DEF Grows, Fits
<1>2. ASSUME NEW r, Runs(r) PROVE Runs(r)' /\ VersionOf(r)' = VersionOf(r)
  BY <1>1, <1>2 DEF Runs, VersionOf
<1>3. ListFails => ListFails'
  <2>1. Torn # Empty
    BY DistinctAssumption
  <2> QED
    BY <2>1 DEF Grows, ListFails
<1> QED
  BY <1>1, <1>2, <1>3
-----------------------------------------------------------------------------
(* The steps of a process                                                  *)

Own(p) == Places(p) /\ Found(p) /\ Raising(p)

(* One process moves: the others stay where they are, and it takes or      *)
(* gives back the cache lock as the place it is in demands.                *)
Steps(p) ==
  /\ mine' \in [Procs -> Locals] /\ main' \in [Procs -> MainPlaces]
  /\ job' \in [Procs -> JobPlaces] /\ stage' \in [Procs -> {"none", "policy", "pointer", "list"}]
  /\ \A q \in Procs \ {p} : mine'[q] = mine[q] /\ main'[q] = main[q]
                           /\ job'[q] = job[q] /\ stage'[q] = stage[q]
Locked(p) ==
  /\ job'[p] \in {"download", "publish"} <=> cacheLock' = p
  /\ cacheLock' = cacheLock \/ {cacheLock, cacheLock'} \subseteq {p, None}

LEMMA OthersKept ==
  ASSUME IInv, Grows, NEW q \in Procs, mine'[q] = mine[q], main'[q] = main[q],
         job'[q] = job[q], stage'[q] = stage[q]
  PROVE  Own(q)'
<1>1. Places(q)'
  BY DEF IInv, Places
<1>2. Found(q)'
  BY FitsStays DEF IInv, Found
<1>3. Raising(q)'
  <2>1. job[q] \in {"agree", "promote", "publish"} => Fits(mine[q].runtime)
    BY DEF IInv, Found
  <2> QED
    BY <2>1, FitsStays DEF IInv, Raising, Selected
<1> QED
  BY <1>1, <1>2, <1>3 DEF Own

(* Idle, but for what a launch still needs.                                *)
LEMMA Kept ==
  ASSUME NEW b \in DirIds \cup {None}, NEW r \in DirIds \cup {Bundled}
  PROVE  LET x == [Idle EXCEPT !.before = b, !.chosen = r]
         IN x \in Locals /\ x.before = b /\ x.active = None /\ x.chosen = r /\ x.want = None
BY IdleTyped, IdleFields DEF Locals

LEMMA Selects ==
  ASSUME TypeOK, NEW p \in Procs, NEW r \in DirIds \cup {Bundled}, Select(p, r)
  PROVE  /\ mine' \in [Procs -> Locals] /\ main' \in [Procs -> MainPlaces]
         /\ \A q \in Procs \ {p} : mine'[q] = mine[q] /\ main'[q] = main[q]
         /\ main'[p] = "spawn" /\ mine'[p].before \in {None, mine[p].before}
         /\ mine'[p].active = None /\ mine'[p].chosen = r /\ mine'[p].want = None
<1> DEFINE b == IF r = Bundled THEN None ELSE mine[p].before
           x == [Idle EXCEPT !.before = b, !.chosen = r]
<1>1. mine \in [Procs -> Locals] /\ main \in [Procs -> MainPlaces]
  BY DEF TypeOK
<1>2. b \in DirIds \cup {None} /\ b \in {None, mine[p].before}
  BY <1>1 DEF Locals
<1>3. mine' = [mine EXCEPT ![p] = x] /\ main' = [main EXCEPT ![p] = "spawn"]
  BY DEF Select
<1> HIDE DEF b
<1>4. x \in Locals /\ x.before = b /\ x.active = None /\ x.chosen = r /\ x.want = None
  BY <1>2, Kept
<1> HIDE DEF x
<1> QED
  <2>1. mine'[p] = x /\ mine' \in [Procs -> Locals] /\ \A q \in Procs \ {p} : mine'[q] = mine[q]
    BY <1>1, <1>3, <1>4
  <2>2. main'[p] = "spawn" /\ main' \in [Procs -> MainPlaces] /\ \A q \in Procs \ {p} : main'[q] = main[q]
    BY <1>1, <1>3 DEF MainPlaces
  <2> QED
    BY <1>2, <1>4, <2>1, <2>2

(* However an update ends, what its launch still needs is kept.            *)
LEMMA JobEnded ==
  ASSUME IInv, Grows, NEW p \in Procs, JobEnds(p), job[p] # "none"
  PROVE  Steps(p) /\ Own(p)' /\ job'[p] = "none"
<1>0. /\ mine \in [Procs -> Locals] /\ mine[p] \in Locals
      /\ main \in [Procs -> MainPlaces] /\ job \in [Procs -> JobPlaces]
      /\ stage \in [Procs -> {"none", "policy", "pointer", "list"}]
      /\ Places(p) /\ Found(p)
  BY DEF IInv, TypeOK
<1>1. /\ job' = [job EXCEPT ![p] = "none"] /\ stage' = [stage EXCEPT ![p] = "none"]
      /\ stage'[p] = "none"
  BY DEF JobEnds, Go, Read, IInv, TypeOK
<1>2. CASE main[p] = "racing" /\ Select(p, mine[p].base)
  <2>1. mine[p].base \in DirIds \cup {Bundled} /\ Runs(mine[p].base)
    BY <1>0, <1>2 DEF Locals, Found
  <2>2. /\ Steps(p) /\ main'[p] = "spawn" /\ job'[p] = "none"
        /\ mine'[p].before \in {None, mine[p].before} /\ mine'[p].active = None
        /\ mine'[p].chosen = mine[p].base
    BY <1>0, <1>1, <1>2, <2>1, Selects DEF IInv, Steps, JobPlaces
  <2>3. Own(p)'
    BY <1>0, <1>1, <2>1, <2>2, FitsStays DEF Own, Places, Found, Raising
  <2> QED
    BY <2>2, <2>3
<1>3. CASE main[p] = "command" /\ main' = [main EXCEPT ![p] = "idle"] /\ mine' = [mine EXCEPT ![p] = Idle]
  <2>1. mine'[p] = Idle /\ main'[p] = "idle" /\ job'[p] = "none" /\ Steps(p)
    BY <1>0, <1>1, <1>3, IdleTyped DEF Steps, MainPlaces, JobPlaces
  <2>2. Own(p)'
    BY <1>1, <2>1, IdleFields DEF Own, Places, Found, Raising
  <2> QED
    BY <2>1, <2>2
<1>4. CASE /\ main[p] \notin {"racing", "command"}
           /\ mine' = [mine EXCEPT ![p] = [Idle EXCEPT !.before = mine[p].before, !.chosen = mine[p].chosen]]
           /\ UNCHANGED main
  <2> DEFINE x == [Idle EXCEPT !.before = mine[p].before, !.chosen = mine[p].chosen]
  <2>1. x \in Locals /\ x.before = mine[p].before /\ x.active = None /\ x.chosen = mine[p].chosen
    BY <1>0, IdleTyped, IdleFields DEF Locals
  <2>2. mine'[p] = x /\ main'[p] = main[p] /\ job'[p] = "none" /\ Steps(p)
    BY <1>0, <1>1, <1>4, <2>1 DEF Steps, MainPlaces, JobPlaces
  <2> HIDE DEF x
  <2>3. Own(p)'
    BY <1>0, <1>1, <1>4, <2>1, <2>2, FitsStays DEF Own, Places, Found, Raising
  <2> QED
    BY <2>2, <2>3
<1> QED
  BY <1>2, <1>3, <1>4 DEF JobEnds

(* status() answers a verified runtime that fits; what is demanded         *)
(* exactly, it answers exactly, and else what is selected if it can list.  *)
LEMMA RuntimesFit ==
  ASSUME IInv, NEW p \in Procs, NEW r \in Runtimes(p)
  PROVE  /\ Runs(r) /\ r \in DirIds \cup {Bundled} /\ VersionOf(r) \in Versions
         /\ Exact(p) # None => VersionOf(r) = Exact(p)
         /\ Exact(p) = None => VersionOf(r) = Selected(p) \/ ListFails
<1> DEFINE listed == IF ListFails THEN {} ELSE Verified
           with(v) == {d \in listed : cache[d] = v}
<1>1. \A d \in listed : d \in DirIds /\ cache[d] \in Versions
  BY DEF Verified
<1>2. Candidates(p) = CASE Exact(p) = Bundle -> {Bundled}
                        [] Exact(p) # None /\ Exact(p) # Bundle -> with(Exact(p))
                        [] Exact(p) = None /\ with(mine[p].active) # {} -> with(mine[p].active)
                        [] OTHER -> {Bundled}
  BY DEF Candidates
<1>3. Bundle # None
  BY BundleFits
<1>4. CASE Exact(p) = Bundle
  <2>1. Candidates(p) = {Bundled}
    BY <1>2, <1>3, <1>4
  <2>2. r = Bundled
    BY <1>3, <1>4, <2>1 DEF Runtimes
  <2> QED
    BY <1>3, <1>4, <2>2, BundleFits DEF Runs, VersionOf
<1>5. CASE Exact(p) # None /\ Exact(p) # Bundle
  <2>1. Candidates(p) = with(Exact(p))
    BY <1>2, <1>5
  <2>2. r \in with(Exact(p)) /\ VersionOf(r) \in Compatible
    BY <1>5, <2>1 DEF Runtimes
  <2>3. r \in DirIds /\ cache[r] = Exact(p) /\ cache[r] \in Versions /\ VersionOf(r) = cache[r]
    BY <1>1, <2>2, BundleFits DEF VersionOf
  <2> QED
    BY <1>5, <2>2, <2>3 DEF Runs, Fits
<1>6. CASE Exact(p) = None
  <2> DEFINE with1 == with(mine[p].active)
  <2>1. Candidates(p) = IF with1 # {} THEN with1 ELSE {Bundled}
    BY <1>2, <1>3, <1>6
  <2>2. PICK c \in Candidates(p) : r = IF VersionOf(c) \in Compatible THEN c ELSE Bundled
    BY <1>6 DEF Runtimes
  <2>3. CASE with1 # {}
    <3>1. c \in DirIds /\ cache[c] = mine[p].active /\ cache[c] \in Versions /\ VersionOf(c) = cache[c]
      BY <1>1, <2>1, <2>2, <2>3, BundleFits DEF VersionOf
    <3>2. mine[p].active # None
      BY <3>1, BundleFits
    <3>3. cache[c] \in Compatible
      BY <3>1, <3>2 DEF IInv, Found, Fits
    <3> QED
      BY <1>6, <2>2, <3>1, <3>2, <3>3 DEF Runs, Fits, Selected
  <2>4. CASE with1 = {}
    <3>1. r = Bundled
      BY <2>1, <2>2, <2>4
    <3>2. mine[p].active # None => ListFails
      <4> SUFFICES ASSUME mine[p].active # None, ~ListFails PROVE FALSE
        OBVIOUS
      <4>1. PICK d \in DirIds : Fits(d) /\ cache[d] = mine[p].active
        BY DEF IInv, Found
      <4>2. d \in with1
        BY <4>1 DEF Fits, Verified
      <4> QED
        BY <2>4, <4>2
    <3> QED
      BY <1>6, <3>1, <3>2, BundleFits DEF Runs, VersionOf, Selected
  <2> QED
    BY <2>3, <2>4
<1> QED
  BY <1>4, <1>5, <1>6

-----------------------------------------------------------------------------
(* launch() and startup()                                                  *)

Good(p) == Steps(p) /\ Own(p)' /\ Locked(p)

(* What the invariant says of one process.                                 *)
LEMMA Here ==
  ASSUME IInv, NEW p \in Procs
  PROVE  /\ mine \in [Procs -> Locals] /\ mine[p] \in Locals
         /\ main \in [Procs -> MainPlaces] /\ job \in [Procs -> JobPlaces]
         /\ stage \in [Procs -> {"none", "policy", "pointer", "list"}]
         /\ Places(p) /\ Found(p) /\ Raising(p) /\ p # None
         /\ job[p] \in {"download", "publish"} <=> cacheLock = p
BY DistinctAssumption DEF IInv, TypeOK

LEMMA ReadsGood ==
  ASSUME IInv, Grows, NEW p \in Procs, ReadPolicy(p) \/ ReadPointer(p)
  PROVE  Good(p)
<1> DEFINE x == mine[p]
<1>1. UNCHANGED <<settings, cache, pointer, cacheLock, main, job>>
  BY DEF ReadPolicy, ReadPointer, sides
<1>2. CASE ReadPolicy(p)
  <2> DEFINE y == [x EXCEPT !.seen = settings]
  <2>1. mine' = [mine EXCEPT ![p] = y] /\ stage' = [stage EXCEPT ![p] = "pointer"]
    BY <1>2 DEF ReadPolicy
  <2>2. y \in Locals /\ y.want = x.want /\ y.target = x.target /\ y.before = x.before /\ y.base = x.base
        /\ y.active = x.active /\ y.from = x.from /\ y.runtime = x.runtime /\ y.chosen = x.chosen
    BY Here DEF Locals, IInv, TypeOK
  <2> HIDE DEF y
  <2>3. Steps(p) /\ Locked(p) /\ mine'[p] = y /\ stage'[p] # "none" /\ stage[p] # "none"
    BY <1>1, <1>2, <2>1, <2>2, Here DEF Steps, Locked, ReadPolicy
  <2>4. Own(p)'
    BY <1>1, <2>2, <2>3, Here, FitsStays DEF Own, Places, Found, Raising, Selected, Fits, ListFails, Runs, VersionOf
  <2> QED
    BY <2>3, <2>4 DEF Good
<1>3. CASE ReadPointer(p)
  <2> DEFINE v == RefVersion(pointer.active)
             y == [x EXCEPT !.active = v]
  <2>1. mine' = [mine EXCEPT ![p] = y] /\ stage' = [stage EXCEPT ![p] = "list"]
    BY <1>3 DEF ReadPointer
  <2>2. v \in Versions \cup {None} /\ (v # None => \E d \in DirIds : Fits(d) /\ cache[d] = v)
    BY DEF IInv, PointerFits, RefVersion, Fits
  <2> HIDE DEF v
  <2>3. y \in Locals /\ y.want = x.want /\ y.target = x.target /\ y.before = x.before /\ y.base = x.base
        /\ y.active = v /\ y.from = x.from /\ y.runtime = x.runtime /\ y.chosen = x.chosen
    BY <2>2, Here DEF Locals
  <2> HIDE DEF y
  <2>4. Steps(p) /\ Locked(p) /\ mine'[p] = y
    BY <1>1, <2>1, <2>3, Here DEF Steps, Locked
  <2>5. job[p] \in {"none", "check", "settle", "install"} /\ stage'[p] # "none" /\ stage[p] # "none"
    BY <1>3, <2>1, Here DEF ReadPointer, Places
  <2>6. Own(p)'
    BY <1>1, <2>2, <2>3, <2>4, <2>5, Here, FitsStays
       DEF Own, Places, Found, Raising, Fits, ListFails, Runs, VersionOf
  <2> QED
    BY <2>4, <2>6 DEF Good
<1> QED
  BY <1>2, <1>3

(* A launch is told a version, and it drops what it does not need again.   *)
LEMMA Launches ==
  ASSUME NEW x \in Locals
  PROVE  /\ \A v \in Versions \cup {None} :
              LET y == [x EXCEPT !.want = v]
              IN /\ y \in Locals /\ y.target = x.target /\ y.before = x.before /\ y.active = x.active
                 /\ y.from = x.from /\ y.runtime = x.runtime
         /\ LET y == [x EXCEPT !.aborted = TRUE, !.chosen = x.base, !.base = Bundled]
            IN /\ y \in Locals /\ y.want = x.want /\ y.target = x.target /\ y.before = x.before
               /\ y.active = x.active /\ y.from = x.from /\ y.runtime = x.runtime /\ y.chosen = x.base
         /\ LET y == [x EXCEPT !.before = None, !.chosen = Bundled]
            IN /\ y \in Locals /\ y.want = x.want /\ y.target = x.target /\ y.before = None
               /\ y.active = x.active /\ y.from = x.from /\ y.runtime = x.runtime
<1>1. ASSUME NEW v \in Versions \cup {None}
      PROVE  LET y == [x EXCEPT !.want = v]
             IN /\ y \in Locals /\ y.target = x.target /\ y.before = x.before /\ y.active = x.active
                /\ y.from = x.from /\ y.runtime = x.runtime
  BY DEF Locals
<1>2. LET y == [x EXCEPT !.aborted = TRUE, !.chosen = x.base, !.base = Bundled]
      IN /\ y \in Locals /\ y.want = x.want /\ y.target = x.target /\ y.before = x.before
         /\ y.active = x.active /\ y.from = x.from /\ y.runtime = x.runtime /\ y.chosen = x.base
  BY DEF Locals
<1>3. LET y == [x EXCEPT !.before = None, !.chosen = Bundled]
      IN /\ y \in Locals /\ y.want = x.want /\ y.target = x.target /\ y.before = None
         /\ y.active = x.active /\ y.from = x.from /\ y.runtime = x.runtime
  BY DEF Locals
<1> QED
  BY <1>1, <1>2, <1>3

LEMMA LaunchGood ==
  ASSUME IInv, Grows, NEW p \in Procs,
         StartLaunch(p) \/ ReadBefore(p) \/ Deadline(p) \/ Spawn(p) \/ Restore(p) \/ Exit(p)
  PROVE  Good(p)
<1> DEFINE x == mine[p]
<1>1. UNCHANGED <<cacheLock, cache, job>>
  BY DEF StartLaunch, ReadBefore, Deadline, Spawn, Restore, Exit, sides
<1>2. Locked(p)
  BY <1>1, Here DEF Locked
<1>3. CASE StartLaunch(p)
  <2>1. PICK v \in Requests \cup {None} : mine' = [mine EXCEPT ![p].want = v]
    BY <1>3 DEF StartLaunch
  <2> DEFINE y == [x EXCEPT !.want = v]
  <2>2. v \in Versions \cup {None} /\ x \in Locals
    BY VersionsAssumption, Here
  <2>3. /\ y \in Locals /\ y.target = x.target /\ y.before = x.before
        /\ y.active = x.active /\ y.from = x.from /\ y.runtime = x.runtime
    BY <2>2, Launches
  <2>4. mine' = [mine EXCEPT ![p] = y]
    BY <2>1
  <2> HIDE DEF y
  <2>5. /\ Steps(p) /\ mine'[p] = y /\ main'[p] = "before" /\ job'[p] = "none" /\ job[p] = "none"
        /\ stage'[p] = "none"
    BY <1>1, <1>3, <2>3, <2>4, Here DEF Steps, StartLaunch, May, MainPlaces, Places
  <2>6. Own(p)'
    BY <2>3, <2>5, Here, FitsStays DEF Own, Places, Found, Raising
  <2> QED
    BY <1>2, <2>5, <2>6 DEF Good
<1>4. CASE ReadBefore(p)
  <2> DEFINE b == pointer.active
             y == [x EXCEPT !.before = b]
  <2>1. mine' = [mine EXCEPT ![p] = y]
    BY <1>4 DEF ReadBefore
  <2>2. b \in DirIds \cup {None} /\ (b # None => Fits(b))
    BY DEF IInv, TypeOK, PointerFits
  <2> HIDE DEF b
  <2>3. y \in Locals /\ y.before = b /\ y.active = x.active
    BY <2>2, Here DEF Locals
  <2> HIDE DEF y
  <2>4. /\ Steps(p) /\ mine'[p] = y /\ main'[p] = "baseline" /\ job'[p] = "none" /\ stage'[p] = "policy"
    BY <1>1, <1>4, <2>1, <2>3, Here DEF Steps, ReadBefore, MainPlaces, Places
  <2>5. Own(p)'
    BY <2>2, <2>3, <2>4, Here, FitsStays DEF Own, Places, Found, Raising
  <2> QED
    BY <1>2, <2>4, <2>5 DEF Good
<1>5. CASE Deadline(p)
  <2> DEFINE y == [x EXCEPT !.aborted = TRUE, !.chosen = x.base, !.base = Bundled]
  <2>1. mine' = [mine EXCEPT ![p] = y]
    BY <1>5 DEF Deadline
  <2>2. /\ y \in Locals /\ y.want = x.want /\ y.target = x.target /\ y.before = x.before
        /\ y.active = x.active /\ y.from = x.from /\ y.runtime = x.runtime /\ y.chosen = x.base
    BY Here, Launches
  <2> HIDE DEF y
  <2>3. /\ Steps(p) /\ mine'[p] = y /\ main[p] = "racing" /\ main'[p] = "spawn" /\ job'[p] = job[p]
        /\ stage'[p] = stage[p]
    <3>1. main' = [main EXCEPT ![p] = "spawn"] /\ main[p] = "racing" /\ UNCHANGED stage
      BY <1>5 DEF Deadline
    <3> QED
      BY <1>1, <2>1, <2>2, <3>1, Here DEF Steps, MainPlaces
  <2>4. Places(p)'
    BY <2>3, Here DEF Places
  <2>5. Found(p)'
    BY <2>2, <2>3, Here, FitsStays DEF Found
  <2>6. Raising(p)'
    BY <1>1, <2>2, <2>3, Here, FitsStays DEF Raising, Selected, ListFails
  <2> QED
    BY <1>2, <2>3, <2>4, <2>5, <2>6 DEF Good, Own
<1>6. ASSUME Leave(p), main[p] \in {"spawn", "restore"}, UNCHANGED stage PROVE Good(p)
  <2> DEFINE y == [x EXCEPT !.before = None, !.chosen = Bundled]
  <2>1. mine' = [mine EXCEPT ![p] = y]
    BY <1>6 DEF Leave
  <2>2. /\ y \in Locals /\ y.want = x.want /\ y.target = x.target /\ y.before = None
        /\ y.active = x.active /\ y.from = x.from /\ y.runtime = x.runtime
    BY Here, Launches
  <2> HIDE DEF y
  <2>3. /\ Steps(p) /\ mine'[p] = y /\ main'[p] = "leaving" /\ job'[p] = job[p] /\ stage'[p] = stage[p]
    <3>1. main' = [main EXCEPT ![p] = "leaving"]
      BY <1>6 DEF Leave
    <3> QED
      BY <1>1, <1>6, <2>1, <2>2, <3>1, Here DEF Steps, MainPlaces
  <2>4. Places(p)'
    BY <1>6, <2>3, Here DEF Places
  <2>5. Found(p)'
    BY <2>2, <2>3, Here, FitsStays DEF Found
  <2>6. Raising(p)'
    BY <1>1, <1>6, <2>2, <2>3, Here, FitsStays DEF Raising, Selected, ListFails
  <2> QED
    BY <1>2, <2>3, <2>4, <2>5, <2>6 DEF Good, Own
<1>7. CASE Spawn(p) /\ main'[p] = "restore"
  <2>1. /\ Steps(p) /\ mine'[p] = x /\ main[p] = "spawn" /\ job'[p] = job[p] /\ stage'[p] = stage[p]
    BY <1>1, <1>7, Here DEF Steps, Spawn, Leave, MainPlaces
  <2>4. Places(p)'
    BY <1>7, <2>1, Here DEF Places
  <2>5. Found(p)'
    BY <1>7, <2>1, Here, FitsStays DEF Found
  <2>6. Raising(p)'
    BY <1>1, <1>7, <2>1, Here, FitsStays DEF Raising, Selected, ListFails
  <2> QED
    BY <1>2, <2>1, <2>4, <2>5, <2>6 DEF Good, Own
<1>8. CASE Spawn(p)
  <2>1. main'[p] = "restore" \/ (Leave(p) /\ UNCHANGED stage)
    BY <1>8, Here DEF Spawn
  <2> QED
    BY <1>6, <1>7, <1>8, <2>1 DEF Spawn
<1>9. CASE Restore(p)
  BY <1>6, <1>9 DEF Restore
<1>10. CASE Exit(p)
  <2>1. /\ Steps(p) /\ mine'[p] = Idle /\ main'[p] = "idle" /\ job'[p] = "none" /\ stage'[p] = "none"
    BY <1>1, <1>10, Here, IdleTyped DEF Steps, Exit, MainPlaces, Places
  <2>2. Own(p)'
    BY <2>1, IdleFields DEF Own, Places, Found, Raising
  <2> QED
    BY <1>2, <2>1, <2>2 DEF Good
<1> QED
  BY <1>3, <1>4, <1>5, <1>8, <1>9, <1>10
-----------------------------------------------------------------------------
(* Steps of an update                                                      *)

LEMMA Moved ==
  ASSUME IInv, NEW p \in Procs, NEW y \in Locals, NEW place \in JobPlaces,
         NEW s \in {"none", "policy", "pointer", "list"},
         mine' = [mine EXCEPT ![p] = y], Go(p, place),
         stage' = [stage EXCEPT ![p] = s] \/ (UNCHANGED stage /\ stage[p] = s), UNCHANGED main
  PROVE  Steps(p) /\ mine'[p] = y /\ job'[p] = place /\ stage'[p] = s /\ main'[p] = main[p]
BY Here DEF Steps, Go

LEMMA Ended ==
  ASSUME IInv, Grows, NEW p \in Procs, JobEnds(p), job[p] # "none",
         IF job[p] \in {"download", "publish"} THEN cacheLock' = None ELSE UNCHANGED cacheLock
  PROVE  Good(p)
<1>1. Steps(p) /\ Own(p)' /\ job'[p] = "none"
  BY JobEnded
<1>2. Locked(p)
  BY <1>1, Here DEF Locked
<1> QED
  BY <1>1, <1>2 DEF Good

LEMMA Handed ==
  ASSUME IInv, Grows, NEW p \in Procs, NEW r \in DirIds \cup {Bundled}, Runs(r), Select(p, r),
         Go(p, "none"), Read(p), job[p] \notin {"download", "publish"}, UNCHANGED cacheLock
  PROVE  Good(p)
<1>1. /\ mine' \in [Procs -> Locals] /\ main' \in [Procs -> MainPlaces]
      /\ \A q \in Procs \ {p} : mine'[q] = mine[q] /\ main'[q] = main[q]
      /\ main'[p] = "spawn" /\ mine'[p].before \in {None, mine[p].before}
      /\ mine'[p].active = None /\ mine'[p].chosen = r /\ mine'[p].want = None
  BY Selects DEF IInv
<1>2. Steps(p) /\ job'[p] = "none" /\ stage'[p] = "none"
  BY <1>1, Here DEF Steps, Go, Read, JobPlaces
<1>3. Own(p)'
  BY <1>1, <1>2, Here, FitsStays DEF Own, Places, Found, Raising
<1>4. Locked(p)
  BY <1>2, Here DEF Locked
<1> QED
  BY <1>2, <1>3, <1>4 DEF Good

LEMMA BaselineGood ==
  ASSUME IInv, Grows, NEW p \in Procs, Baseline(p)
  PROVE  Good(p)
<1>1. job[p] = "none" /\ UNCHANGED cacheLock
  BY Here DEF Baseline, Places, sides
<1>2. CASE main' = [main EXCEPT ![p] = "leaving"] /\ mine' = [mine EXCEPT ![p] = Idle] /\ Read(p) /\ UNCHANGED job
  <2>1. Steps(p) /\ mine'[p] = Idle /\ main'[p] = "leaving" /\ job'[p] = "none" /\ stage'[p] = "none"
    BY <1>1, <1>2, Here, IdleTyped DEF Steps, Read, MainPlaces
  <2>2. Own(p)' /\ Locked(p)
    BY <1>1, <2>1, Here, IdleFields DEF Own, Places, Found, Raising, Locked
  <2> QED
    BY <2>1, <2>2 DEF Good
<1>3. ASSUME NEW r \in Runtimes(p), Select(p, r), Read(p), UNCHANGED job PROVE Good(p)
  <2>1. Go(p, "none")
    BY <1>1, <1>3, Here DEF Go
  <2>2. Runs(r) /\ r \in DirIds \cup {Bundled}
    BY RuntimesFit
  <2> QED
    BY <1>1, <1>3, <2>1, <2>2, Handed
<1>4. ASSUME NEW r \in Runtimes(p),
             mine' = [mine EXCEPT ![p] = [Idle EXCEPT !.before = mine[p].before, !.base = r,
                                                      !.auto = mine[p].seen.policy.mode = "auto"]],
             main' = [main EXCEPT ![p] = "racing"], GoReading(p, "check")
      PROVE  Good(p)
  <2> DEFINE a == mine[p].seen.policy.mode = "auto"
             y == [Idle EXCEPT !.before = mine[p].before, !.base = r, !.auto = a]
  <2>1. Runs(r) /\ r \in DirIds \cup {Bundled} /\ mine[p].before \in DirIds \cup {None} /\ a \in BOOLEAN
    BY RuntimesFit, Here DEF Locals
  <2>2. mine' = [mine EXCEPT ![p] = y] /\ main' = [main EXCEPT ![p] = "racing"] /\ GoReading(p, "check")
    BY <1>4
  <2> HIDE DEF a
  <2>3. y \in Locals /\ y.before = mine[p].before /\ y.base = r /\ y.want = None /\ y.active = None
    BY <2>1, IdleTyped, IdleFields DEF Locals
  <2> HIDE DEF y
  <2>4. /\ Steps(p) /\ mine'[p] = y /\ main'[p] = "racing" /\ job'[p] = "check" /\ stage'[p] = "policy"
    BY <2>2, <2>3, Here DEF Steps, GoReading, Go, MainPlaces, JobPlaces
  <2>5. Own(p)'
    BY <2>1, <2>3, <2>4, Here, FitsStays DEF Own, Places, Found, Raising
  <2>6. Locked(p)
    BY <1>1, <2>4, Here DEF Locked
  <2> QED
    BY <2>4, <2>5, <2>6 DEF Good
<1> QED
  BY <1>2, <1>3, <1>4 DEF Baseline

(* What an update forgets when it reads the selection again.               *)
LEMMA Forgets ==
  ASSUME NEW x \in Locals
  PROVE  LET y == [Idle EXCEPT !.before = x.before, !.base = x.base, !.chosen = x.chosen, !.aborted = x.aborted]
         IN /\ y \in Locals /\ y.want = None /\ y.before = x.before /\ y.base = x.base
            /\ y.active = None /\ y.chosen = x.chosen
BY IdleTyped, IdleFields DEF Locals

LEMMA CheckGood ==
  ASSUME IInv, Grows, NEW p \in Procs, Check(p)
  PROVE  Good(p)
<1> DEFINE x == mine[p]
<1>1. /\ job[p] = "check" /\ main[p] \notin {"idle", "before", "baseline", "command"}
      /\ x.want = None /\ x \in Locals /\ UNCHANGED cacheLock
  BY Here DEF Check, Places, Raising, sides
<1>2. CASE JobEnds(p)
  BY <1>1, <1>2, Ended
<1>3. CASE GoReading(p, "settle") /\ Forget(p) /\ UNCHANGED main
  <2> DEFINE y == [Idle EXCEPT !.before = x.before, !.base = x.base, !.chosen = x.chosen, !.aborted = x.aborted]
  <2>1. /\ y \in Locals /\ y.want = None /\ y.before = x.before /\ y.base = x.base
        /\ y.active = None /\ y.chosen = x.chosen
    BY <1>1, Forgets
  <2>2. mine' = [mine EXCEPT ![p] = y]
    BY <1>3 DEF Forget
  <2> HIDE DEF y
  <2>3. Steps(p) /\ mine'[p] = y /\ job'[p] = "settle" /\ stage'[p] = "policy" /\ main'[p] = main[p]
    BY <1>3, <2>1, <2>2, Moved DEF GoReading, JobPlaces
  <2>4. Own(p)'
    BY <1>1, <2>1, <2>3, Here, FitsStays DEF Own, Places, Found, Raising
  <2>5. Locked(p)
    BY <1>1, <2>3, Here DEF Locked
  <2> QED
    BY <2>3, <2>4, <2>5 DEF Good
<1>4. ASSUME NEW r \in Runtimes(p), Go(p, "metadata"), Read(p), UNCHANGED main,
             mine' = [mine EXCEPT ![p].from = VersionOf(r), ![p].seen = DefaultSettings, ![p].active = None]
      PROVE  Good(p)
  <2> DEFINE v == VersionOf(r)
             y == [x EXCEPT !.from = v, !.seen = DefaultSettings, !.active = None]
  <2>1. v \in Versions
    BY RuntimesFit
  <2>2. mine' = [mine EXCEPT ![p] = y]
    BY <1>4
  <2> HIDE DEF v
  <2>3. /\ y \in Locals /\ y.want = None /\ y.before = x.before /\ y.base = x.base
        /\ y.active = None /\ y.chosen = x.chosen
    BY <1>1, <2>1, IdleTyped DEF Locals
  <2> HIDE DEF y
  <2>4. Steps(p) /\ mine'[p] = y /\ job'[p] = "metadata" /\ stage'[p] = "none" /\ main'[p] = main[p]
    BY <1>4, <2>2, <2>3, Moved DEF Read, JobPlaces
  <2>5. Own(p)'
    BY <1>1, <2>3, <2>4, Here, FitsStays DEF Own, Places, Found, Raising
  <2>6. Locked(p)
    BY <1>1, <2>4, Here DEF Locked
  <2> QED
    BY <2>4, <2>5, <2>6 DEF Good
<1> QED
  BY <1>2, <1>3, <1>4 DEF Check

LEMMA MetadataGood ==
  ASSUME IInv, Grows, NEW p \in Procs, Metadata(p)
  PROVE  Good(p)
<1> DEFINE x == mine[p]
<1>1. /\ job[p] = "metadata" /\ main[p] \notin {"idle", "before", "baseline", "command"}
      /\ x.want = None /\ x \in Locals /\ UNCHANGED cacheLock
  BY Here DEF Metadata, Places, Raising, sides
<1>2. CASE JobEnds(p)
  BY <1>1, <1>2, Ended
<1>3. ASSUME NEW install \in BOOLEAN, GoReading(p, IF install THEN "install" ELSE "settle"), UNCHANGED main,
             mine' = [mine EXCEPT ![p].auto = FALSE, ![p].from = Bundle,
                        ![p].target = IF install THEN latest ELSE None]
      PROVE  Good(p)
  <2> DEFINE v == IF install THEN latest ELSE None
             place == IF install THEN "install" ELSE "settle"
             y == [x EXCEPT !.auto = FALSE, !.from = Bundle, !.target = v]
  <2>1. v \in Versions \cup {None} /\ place \in JobPlaces /\ place \in {"install", "settle"}
        /\ (place = "install" => v \in Versions)
    BY DEF IInv, TypeOK, JobPlaces
  <2>2. mine' = [mine EXCEPT ![p] = y] /\ GoReading(p, place)
    BY <1>3
  <2> HIDE DEF v, place
  <2>3. /\ y \in Locals /\ y.want = None /\ y.before = x.before /\ y.base = x.base
        /\ y.active = x.active /\ y.chosen = x.chosen /\ y.target = v
    BY <1>1, <2>1, VersionsAssumption DEF Locals
  <2> HIDE DEF y
  <2>4. Steps(p) /\ mine'[p] = y /\ job'[p] = place /\ stage'[p] = "policy" /\ main'[p] = main[p]
    BY <1>3, <2>1, <2>2, <2>3, Moved DEF GoReading
  <2>5. Own(p)'
    BY <1>1, <2>1, <2>3, <2>4, Here, FitsStays DEF Own, Places, Found, Raising
  <2>6. Locked(p)
    BY <1>1, <2>1, <2>4, Here DEF Locked
  <2> QED
    BY <2>4, <2>5, <2>6 DEF Good
<1> DEFINE install == /\ latest \in Stable /\ latest > mine[p].from
                      /\ mine[p].auto
                      /\ Major(latest) = Major(VersionOf(mine[p].base))
<1>4. JobEnds(p) \/ (/\ GoReading(p, IF install THEN "install" ELSE "settle") /\ UNCHANGED main
                     /\ mine' = [mine EXCEPT ![p].auto = FALSE, ![p].from = Bundle,
                                   ![p].target = IF install THEN latest ELSE None])
  BY DEF Metadata
<1>5. install \in BOOLEAN
  OBVIOUS
<1> HIDE DEF install
<1> QED
  BY <1>2, <1>3, <1>4, <1>5

LEMMA SettleGood ==
  ASSUME IInv, Grows, NEW p \in Procs, Settle(p)
  PROVE  Good(p)
<1>1. job[p] = "settle" /\ UNCHANGED cacheLock
  BY DEF Settle, sides
<1>2. CASE JobEnds(p)
  BY <1>1, <1>2, Ended
<1>3. ASSUME NEW r \in Runtimes(p), Select(p, r), Go(p, "none"), Read(p) PROVE Good(p)
  <2>1. Runs(r) /\ r \in DirIds \cup {Bundled}
    BY RuntimesFit
  <2> QED
    BY <1>1, <1>3, <2>1, Handed
<1> QED
  BY <1>2, <1>3 DEF Settle
-----------------------------------------------------------------------------
(* #install                                                                *)

LEMMA StartsGood ==
  ASSUME IInv, Grows, NEW p \in Procs, StartInstall(p) \/ StartRollback(p)
  PROVE  Good(p)
<1> DEFINE x == mine[p]
<1>1. /\ main[p] = "idle" /\ job[p] = "none" /\ stage[p] = "none" /\ x \in Locals /\ UNCHANGED cacheLock
  BY Here DEF StartInstall, StartRollback, May, Places, sides
<1>2. PICK v \in Requests \cup {None} : mine' = [mine EXCEPT ![p].target = v]
  BY DEF StartInstall, StartRollback
<1>3. v \in Versions \cup {None}
  BY VersionsAssumption
<1> DEFINE y == [x EXCEPT !.target = v]
<1>4. y \in Locals /\ y.before = x.before /\ y.active = x.active
  BY <1>1, <1>3 DEF Locals
<1>5. mine' = [mine EXCEPT ![p] = y] /\ main' = [main EXCEPT ![p] = "command"]
  BY <1>2 DEF StartInstall, StartRollback
<1>6. CASE StartInstall(p)
  <2>1. job' = [job EXCEPT ![p] = "install"] /\ stage' = [stage EXCEPT ![p] = "policy"]
    BY <1>6 DEF StartInstall, GoReading, Go
  <2> HIDE DEF y
  <2>2. Steps(p) /\ mine'[p] = y /\ main'[p] = "command" /\ job'[p] = "install" /\ stage'[p] = "policy"
    BY <1>4, <1>5, <2>1, Here DEF Steps, MainPlaces, JobPlaces
  <2>3. Own(p)' /\ Locked(p)
    BY <1>1, <1>4, <2>2, Here, FitsStays DEF Own, Places, Found, Raising, Locked
  <2> QED
    BY <2>2, <2>3 DEF Good
<1>7. CASE StartRollback(p)
  <2>1. job' = [job EXCEPT ![p] = "target"] /\ UNCHANGED stage
    BY <1>7 DEF StartRollback, Go
  <2> HIDE DEF y
  <2>2. Steps(p) /\ mine'[p] = y /\ main'[p] = "command" /\ job'[p] = "target" /\ stage'[p] = "none"
    BY <1>1, <1>4, <1>5, <2>1, Here DEF Steps, MainPlaces, JobPlaces
  <2>3. Own(p)' /\ Locked(p)
    BY <1>1, <1>4, <2>2, Here, FitsStays DEF Own, Places, Found, Raising, Locked
  <2> QED
    BY <2>2, <2>3 DEF Good
<1> QED
  BY <1>6, <1>7

(* The runtime an operation has found changes nothing that its launch      *)
(* needs.                                                                  *)
LEMMA Finds ==
  ASSUME NEW x \in Locals, NEW d \in DirIds \cup {Bundled}
  PROVE  LET y == [x EXCEPT !.runtime = d]
         IN /\ y \in Locals /\ y.want = x.want /\ y.target = x.target /\ y.before = x.before
            /\ y.base = x.base /\ y.active = x.active /\ y.runtime = d /\ y.chosen = x.chosen
BY DEF Locals

LEMMA InstallStatusGood ==
  ASSUME IInv, Grows, NEW p \in Procs, InstallStatus(p)
  PROVE  Good(p)
<1> DEFINE x == mine[p]
           held == Required(x.seen)
<1>1. /\ job[p] = "install" /\ main[p] \notin {"idle", "before", "baseline"} /\ x \in Locals /\ UNCHANGED cacheLock
      /\ main[p] # "command" => x.want = None /\ x.target \in Versions
  BY Here DEF InstallStatus, Places, Raising, sides
<1>2. CASE JobEnds(p)
  BY <1>1, <1>2, Ended
<1>3. ASSUME NEW r \in Runtimes(p), ~(held # None /\ held # x.target),
             mine' = [mine EXCEPT ![p].from = VersionOf(r)], Go(p, "get"), Read(p), UNCHANGED main
      PROVE  Good(p)
  <2> DEFINE v == VersionOf(r)
             y == [x EXCEPT !.from = v]
  <2>1. /\ v \in Versions /\ (Exact(p) # None => v = Exact(p))
        /\ Exact(p) = None => v = Selected(p) \/ ListFails
    BY RuntimesFit
  <2>2. mine' = [mine EXCEPT ![p] = y]
    BY <1>3
  <2>3. main[p] # "command" => v = x.target \/ v = Selected(p) \/ ListFails
    <3>1. main[p] # "command" => Exact(p) = held
      BY <1>1 DEF Exact
    <3> QED
      BY <1>3, <2>1, <3>1
  <2> HIDE DEF v
  <2>4. /\ y \in Locals /\ y.want = x.want /\ y.target = x.target /\ y.before = x.before
        /\ y.base = x.base /\ y.active = x.active /\ y.from = v /\ y.chosen = x.chosen
    BY <1>1, <2>1 DEF Locals
  <2> HIDE DEF y
  <2>5. Steps(p) /\ mine'[p] = y /\ job'[p] = "get" /\ stage'[p] = "none" /\ main'[p] = main[p]
    BY <1>3, <2>2, <2>4, Moved DEF Read, JobPlaces
  <2>6. Places(p)'
    BY <1>1, <2>5 DEF Places
  <2>7. Found(p)'
    BY <2>4, <2>5, Here, FitsStays DEF Found
  <2>8. Raising(p)'
    BY <1>1, <2>3, <2>4, <2>5, Here, FitsStays DEF Raising, Selected
  <2>9. Locked(p)
    BY <1>1, <2>5, Here DEF Locked
  <2> QED
    BY <2>5, <2>6, <2>7, <2>8, <2>9 DEF Good, Own
<1>4. ASSUME ~Automatic(p), Go(p, "repair"), Read(p), UNCHANGED <<main, mine>> PROVE Good(p)
  <2>1. main[p] = "command" /\ mine' = [mine EXCEPT ![p] = x]
    BY <1>4, Here DEF Automatic
  <2>2. Steps(p) /\ mine'[p] = x /\ job'[p] = "repair" /\ stage'[p] = "none" /\ main'[p] = main[p]
    BY <1>1, <1>4, <2>1, Moved DEF Read, JobPlaces
  <2>3. Own(p)' /\ Locked(p)
    BY <1>1, <2>1, <2>2, Here, FitsStays DEF Own, Places, Found, Raising, Locked
  <2> QED
    BY <2>2, <2>3 DEF Good
<1> QED
  BY <1>2, <1>3, <1>4 DEF InstallStatus

LEMMA RepairGood ==
  ASSUME IInv, Grows, NEW p \in Procs, Repair(p)
  PROVE  Good(p)
<1> DEFINE x == mine[p]
<1>1. job[p] = "repair" /\ main[p] = "command" /\ stage[p] = "none" /\ x \in Locals /\ UNCHANGED cacheLock
  BY Here DEF Repair, Places, sides
<1>2. CASE JobEnds(p)
  BY <1>1, <1>2, Ended
<1>3. CASE mine' = [mine EXCEPT ![p].seen = settings, ![p].from = Bundle] /\ Go(p, "get") /\ UNCHANGED <<main, stage>>
  <2> DEFINE y == [x EXCEPT !.seen = settings, !.from = Bundle]
  <2>1. y \in Locals /\ y.before = x.before /\ y.active = x.active
    BY <1>1, VersionsAssumption DEF Locals, IInv, TypeOK
  <2>2. mine' = [mine EXCEPT ![p] = y]
    BY <1>3
  <2> HIDE DEF y
  <2>3. Steps(p) /\ mine'[p] = y /\ job'[p] = "get" /\ stage'[p] = "none" /\ main'[p] = main[p]
    BY <1>1, <1>3, <2>1, <2>2, Moved DEF JobPlaces
  <2>4. Own(p)' /\ Locked(p)
    BY <1>1, <2>1, <2>3, Here, FitsStays DEF Own, Places, Found, Raising, Locked
  <2> QED
    BY <2>3, <2>4 DEF Good
<1> QED
  BY <1>2, <1>3 DEF Repair

(* What suits an update of startup() and is found is newer than what that  *)
(* update found selected.                                                  *)
LEMMA SuitsRaises ==
  ASSUME IInv, NEW p \in Procs, Suits(p, mine[p].target), mine[p].target \in Versions, main[p] # "command",
         mine[p].from = Selected(p) \/ mine[p].from = mine[p].target
  PROVE  mine[p].target > Selected(p)
<1>1. mine[p].target > mine[p].from
  BY DEF Suits, Automatic, Newer
<1>2. mine[p].target \in Nat
  BY VersionsAssumption
<1> QED
  BY <1>1, <1>2

LEMMA GetGood ==
  ASSUME IInv, Grows, NEW p \in Procs, Get(p)
  PROVE  Good(p)
<1> DEFINE x == mine[p]
           target == x.target
           asked == target # None
<1>1. /\ job[p] = "get" /\ main[p] \notin {"idle", "before", "baseline"} /\ stage[p] = "none"
      /\ x \in Locals /\ UNCHANGED <<cacheLock, cache>>
      /\ main[p] # "command" =>
           /\ x.want = None /\ target \in Versions
           /\ x.from = Selected(p) \/ x.from = target \/ ListFails
  <2>1. job[p] = "get" /\ UNCHANGED <<cacheLock, cache>>
    BY DEF Get, sides
  <2>2. main[p] = "baseline" => job[p] = "none"
    BY Here DEF Places
  <2> QED
    BY <2>1, <2>2, Here DEF Places, Raising
<1>2. CASE JobEnds(p)
  BY <1>1, <1>2, Ended
<1>3. ASSUME asked, ~ListFails, NEW d \in Holding(target), Suits(p, target),
             mine' = [mine EXCEPT ![p].runtime = d], Go(p, "agree"), UNCHANGED <<main, stage>>
      PROVE  Good(p)
  <2> DEFINE y == [x EXCEPT !.runtime = d]
  <2>1. d \in DirIds /\ cache[d] = target /\ Fits(d) /\ target \in Versions
    BY <1>3 DEF Holding, Verified, Fits, Suits
  <2>2. mine' = [mine EXCEPT ![p] = y]
    BY <1>3
  <2>3. /\ y \in Locals /\ y.want = x.want /\ y.target = x.target /\ y.before = x.before
        /\ y.base = x.base /\ y.active = x.active /\ y.runtime = d /\ y.chosen = x.chosen
    BY <1>1, <2>1, Finds
  <2> HIDE DEF y
  <2>4. Steps(p) /\ mine'[p] = y /\ job'[p] = "agree" /\ stage'[p] = "none" /\ main'[p] = main[p]
    BY <1>1, <1>3, <2>2, <2>3, Moved DEF JobPlaces
  <2>5. main[p] # "command" => cache[d] > Selected(p)
    BY <1>1, <1>3, <2>1, SuitsRaises
  <2>6. Places(p)'
    BY <1>1, <2>4 DEF Places
  <2>7. Found(p)'
    BY <2>1, <2>3, <2>4, Here, FitsStays DEF Found
  <2>8. Raising(p)'
    BY <1>1, <2>3, <2>4, <2>5 DEF Raising, Selected
  <2>9. Locked(p)
    BY <1>1, <2>4, Here DEF Locked
  <2> QED
    BY <2>4, <2>6, <2>7, <2>8, <2>9 DEF Good, Own
<1>4. ASSUME asked => ~ListFails, Go(p, "fetch"), UNCHANGED <<main, stage, mine>> PROVE Good(p)
  <2>1. mine' = [mine EXCEPT ![p] = x]
    BY <1>4, Here
  <2>2. Steps(p) /\ mine'[p] = x /\ job'[p] = "fetch" /\ stage'[p] = "none" /\ main'[p] = main[p]
    BY <1>1, <1>4, <2>1, Moved DEF JobPlaces
  <2>3. target \in Versions => asked
    BY BundleFits
  <2>4. Places(p)'
    BY <1>1, <2>2 DEF Places
  <2>5. Found(p)'
    BY <2>2, Here, FitsStays DEF Found
  <2>6. Raising(p)'
    BY <1>1, <1>4, <2>2, <2>3 DEF Raising, Selected
  <2>7. Locked(p)
    BY <1>1, <2>2, Here DEF Locked
  <2> QED
    BY <2>2, <2>4, <2>5, <2>6, <2>7 DEF Good, Own
<1> QED
  BY <1>2, <1>3, <1>4 DEF Get

LEMMA FetchGood ==
  ASSUME IInv, Grows, NEW p \in Procs, Fetch(p)
  PROVE  Good(p)
<1> DEFINE x == mine[p]
           v == IF x.target = None THEN latest ELSE x.target
<1>1. job[p] = "fetch" /\ UNCHANGED cache
  BY DEF Fetch
<1>2. /\ main[p] \notin {"idle", "before", "baseline"} /\ stage[p] = "none"
      /\ x \in Locals /\ v \in Versions
      /\ main[p] # "command" =>
           /\ x.want = None /\ x.target = v
           /\ x.from = Selected(p) \/ x.from = v
  <2>1. latest \in Versions /\ x \in Locals
    BY Here DEF IInv, TypeOK
  <2>2. v \in Versions /\ (x.target \in Versions => x.target = v)
    BY <2>1, BundleFits DEF Locals
  <2>3. main[p] = "baseline" => job[p] = "none"
    BY Here DEF Places
  <2> QED
    BY <1>1, <2>1, <2>2, <2>3, Here DEF Places, Raising
<1>3. CASE JobEnds(p) /\ UNCHANGED cacheLock
  BY <1>1, <1>3, Ended
<1>4. CASE /\ cacheLock = None /\ cacheLock' = p /\ mine' = [mine EXCEPT ![p].target = v]
           /\ Go(p, "download") /\ UNCHANGED <<main, stage>>
  <2> DEFINE y == [x EXCEPT !.target = v]
  <2>1. mine' = [mine EXCEPT ![p] = y]
    BY <1>4
  <2> HIDE DEF v
  <2>2. /\ y \in Locals /\ y.want = x.want /\ y.target = v /\ y.before = x.before
        /\ y.base = x.base /\ y.active = x.active /\ y.chosen = x.chosen /\ y.from = x.from
    BY <1>2 DEF Locals
  <2> HIDE DEF y
  <2>3. Steps(p) /\ mine'[p] = y /\ job'[p] = "download" /\ stage'[p] = "none" /\ main'[p] = main[p]
    BY <1>2, <1>4, <2>1, <2>2, Moved DEF JobPlaces
  <2>4. Places(p)'
    BY <1>2, <2>3 DEF Places
  <2>5. Found(p)'
    BY <1>2, <2>2, <2>3, Here, FitsStays DEF Found
  <2>6. Raising(p)'
    BY <1>2, <2>2, <2>3 DEF Raising, Selected
  <2>7. Locked(p)
    BY <1>4, <2>3, Here DEF Locked
  <2> QED
    BY <2>3, <2>4, <2>5, <2>6, <2>7 DEF Good, Own
<1> QED
  BY <1>3, <1>4 DEF Fetch

LEMMA DownloadGood ==
  ASSUME IInv, Grows, NEW p \in Procs, Download(p)
  PROVE  Good(p)
<1> DEFINE x == mine[p]
<1>1. job[p] = "download" /\ cacheLock' = None
  BY DEF Download
<1>2. /\ main[p] \notin {"idle", "before", "baseline"} /\ stage[p] = "none"
      /\ x \in Locals /\ x.target \in Versions
      /\ main[p] # "command" =>
           /\ x.want = None
           /\ x.from = Selected(p) \/ x.from = x.target
  <2>1. main[p] = "baseline" => job[p] = "none"
    BY Here DEF Places
  <2> QED
    BY <1>1, <2>1, Here DEF Places, Raising, Found
<1>3. CASE JobEnds(p)
  BY <1>1, <1>3, Ended
<1>4. ASSUME NEW d \in DirIds, cache' = [cache EXCEPT ![d] = x.target], Suits(p, x.target),
             mine' = [mine EXCEPT ![p].runtime = d], Go(p, "agree"), UNCHANGED <<main, stage>>
      PROVE  Good(p)
  <2> DEFINE y == [x EXCEPT !.runtime = d]
  <2>1. mine' = [mine EXCEPT ![p] = y]
    BY <1>4
  <2>2. /\ y \in Locals /\ y.want = x.want /\ y.target = x.target /\ y.before = x.before
        /\ y.base = x.base /\ y.active = x.active /\ y.runtime = d /\ y.chosen = x.chosen
    BY <1>2, Finds
  <2> HIDE DEF y
  <2>3. Steps(p) /\ mine'[p] = y /\ job'[p] = "agree" /\ stage'[p] = "none" /\ main'[p] = main[p]
    BY <1>2, <1>4, <2>1, <2>2, Moved DEF JobPlaces
  <2>4. cache'[d] = x.target /\ Fits(d)'
    BY <1>2, <1>4 DEF IInv, TypeOK, Fits, Suits
  <2>5. main[p] # "command" => x.target > Selected(p)
    BY <1>2, <1>4, SuitsRaises
  <2>6. Places(p)'
    BY <1>2, <2>3 DEF Places
  <2>7. Found(p)'
    BY <2>2, <2>3, <2>4, Here, FitsStays DEF Found
  <2>8. Raising(p)'
    BY <1>2, <2>2, <2>3, <2>4, <2>5 DEF Raising, Selected
  <2>9. Locked(p)
    BY <1>1, <2>3, Here DEF Locked
  <2> QED
    BY <2>3, <2>6, <2>7, <2>8, <2>9 DEF Good, Own
<1> QED
  BY <1>3, <1>4 DEF Download

LEMMA ProceedGood ==
  ASSUME IInv, Grows, NEW p \in Procs, job[p] \in {"agree", "promote"}, UNCHANGED <<main, stage, mine, cache>>,
         \/ job' = [job EXCEPT ![p] = "promote"] /\ UNCHANGED cacheLock
         \/ job' = [job EXCEPT ![p] = "publish"] /\ cacheLock = None /\ cacheLock' = p
  PROVE  Good(p)
<1>1. job'[p] \in {"promote", "publish"} /\ Steps(p)
  BY Here DEF Steps, JobPlaces
<1>2. main[p] = "baseline" => job[p] = "none"
  BY Here DEF Places
<1>3. Places(p)'
  BY <1>1, <1>2, Here DEF Places
<1>4. Found(p)'
  BY <1>1, Here, FitsStays DEF Found
<1>5. Raising(p)'
  BY <1>1, Here DEF Raising, Selected
<1>6. Locked(p)
  BY Here DEF Locked
<1> QED
  BY <1>1, <1>3, <1>4, <1>5, <1>6 DEF Good, Own

LEMMA PromoteGood ==
  ASSUME IInv, Grows, NEW p \in Procs, Agree(p) \/ Promote(p)
  PROVE  Good(p)
<1>1. job[p] \in {"agree", "promote"} /\ UNCHANGED cache
  BY DEF Agree, Promote, sides
<1>2. CASE JobEnds(p) /\ UNCHANGED cacheLock
  BY <1>1, <1>2, Ended
<1>3. CASE /\ UNCHANGED <<main, stage, mine>>
           /\ \/ Go(p, "promote") /\ UNCHANGED cacheLock
              \/ Go(p, "publish") /\ cacheLock = None /\ cacheLock' = p
  BY <1>1, <1>3, ProceedGood DEF Go
<1> QED
  BY <1>2, <1>3 DEF Agree, Promote, sides

LEMMA PublishGood ==
  ASSUME IInv, Grows, NEW p \in Procs, Publish(p)
  PROVE  Good(p)
<1> DEFINE x == mine[p]
<1>1. job[p] = "publish" /\ cacheLock' = None /\ UNCHANGED cache
  BY DEF Publish
<1>2. CASE JobEnds(p)
  BY <1>1, <1>2, Ended
<1>3. CASE Automatic(p) /\ GoReading(p, "settle") /\ Forget(p) /\ UNCHANGED main
  <2> DEFINE y == [Idle EXCEPT !.before = x.before, !.base = x.base, !.chosen = x.chosen, !.aborted = x.aborted]
  <2>1. x \in Locals /\ main[p] \notin {"idle", "before", "baseline", "command"}
    BY <1>1, <1>3, Here DEF Places, Automatic
  <2>2. /\ y \in Locals /\ y.want = None /\ y.before = x.before /\ y.base = x.base
        /\ y.active = None /\ y.chosen = x.chosen
    BY <2>1, Forgets
  <2>3. mine' = [mine EXCEPT ![p] = y]
    BY <1>3 DEF Forget
  <2> HIDE DEF y
  <2>4. Steps(p) /\ mine'[p] = y /\ job'[p] = "settle" /\ stage'[p] = "policy" /\ main'[p] = main[p]
    BY <1>3, <2>2, <2>3, Moved DEF GoReading, JobPlaces
  <2>5. Own(p)'
    BY <2>1, <2>2, <2>4, Here, FitsStays DEF Own, Places, Found, Raising
  <2>6. Locked(p)
    BY <1>1, <2>4, Here DEF Locked
  <2> QED
    BY <2>4, <2>5, <2>6 DEF Good
<1> QED
  BY <1>2, <1>3 DEF Publish
-----------------------------------------------------------------------------
(* rollback()                                                              *)

LEMMA HoldTyped ==
  ASSUME IInv, NEW v \in Versions
  PROVE  LET s == [settings EXCEPT
                     !.hold = [version |-> v, prior |-> settings.policy, generation |-> settings.generation + 1],
                     !.generation = @ + 1]
         IN /\ s \in Settings /\ s.policy = settings.policy /\ s.generation = settings.generation + 1
            /\ s.hold # None => /\ s.hold.version = v /\ s.hold.prior = settings.policy
                                /\ s.hold.generation = settings.generation + 1
<1> DEFINE h == [version |-> v, prior |-> settings.policy, generation |-> settings.generation + 1]
<1>1. settings \in Settings /\ settings.policy \in Policy /\ settings.generation \in Nat
  BY DEF IInv, TypeOK, Settings
<1>2. h \in Hold /\ h.version = v /\ h.prior = settings.policy /\ h.generation = settings.generation + 1
  BY <1>1 DEF Hold
<1> HIDE DEF h
<1>3. ASSUME NEW n \in Nat
      PROVE  LET s == [settings EXCEPT !.hold = h, !.generation = n]
             IN s \in Settings /\ s.policy = settings.policy /\ s.generation = n /\ s.hold = h
  BY <1>1, <1>2 DEF Settings
<1>4. settings.generation + 1 \in Nat
  BY <1>1
<1> QED
  BY <1>2, <1>3, <1>4 DEF h

LEMMA RollbackTargetGood ==
  ASSUME IInv, Grows, NEW p \in Procs, RollbackTarget(p)
  PROVE  Good(p)
<1> DEFINE x == mine[p]
           v == CASE x.target # None -> x.target
                  [] x.target = None /\ pointer.previous # None -> cache[pointer.previous]
                  [] OTHER -> Bundle
           y == [x EXCEPT !.target = v]
<1>1. /\ job[p] = "target" /\ main[p] = "command" /\ stage[p] = "none"
      /\ x \in Locals /\ UNCHANGED <<cacheLock, cache>>
  BY Here DEF RollbackTarget, Places, sides
<1>2. mine' = [mine EXCEPT ![p] = y] /\ Go(p, "local") /\ UNCHANGED <<main, stage>>
  BY Here DEF RollbackTarget
<1>3. v \in Versions
  <2>1. x.target # None => x.target \in Versions
    BY <1>1 DEF Locals
  <2>2. pointer.previous # None => cache[pointer.previous] \in Versions
    BY DEF IInv, PointerFits, Fits
  <2> QED
    BY <2>1, <2>2, VersionsAssumption
<1> HIDE DEF v
<1>4. y \in Locals /\ y.before = x.before /\ y.active = x.active /\ y.target = v
  BY <1>1, <1>3 DEF Locals
<1> HIDE DEF y
<1>5. Steps(p) /\ mine'[p] = y /\ job'[p] = "local" /\ stage'[p] = "none" /\ main'[p] = main[p]
  BY <1>1, <1>2, <1>4, Moved DEF JobPlaces
<1>6. Own(p)' /\ Locked(p)
  BY <1>1, <1>3, <1>4, <1>5, Here, FitsStays DEF Own, Places, Found, Raising, Locked
<1> QED
  BY <1>5, <1>6 DEF Good

LEMMA RollbackRuntimeGood ==
  ASSUME IInv, Grows, NEW p \in Procs, RollbackRuntime(p)
  PROVE  Good(p)
<1> DEFINE x == mine[p]
           target == x.target
           local == CASE target = Bundle -> {Bundled}
                      [] target # Bundle /\ ListFails -> {}
                      [] OTHER -> Holding(target)
<1>1. /\ job[p] = "local" /\ main[p] = "command" /\ stage[p] = "none"
      /\ x \in Locals /\ UNCHANGED <<cacheLock, cache>>
  BY Here DEF RollbackRuntime, Places, sides
<1>2. CASE JobEnds(p)
  BY <1>1, <1>2, Ended
<1>3. ASSUME NEW r \in local, target \in Compatible, mine' = [mine EXCEPT ![p].runtime = r], Go(p, "hold"),
             UNCHANGED <<main, stage>>
      PROVE  Good(p)
  <2> DEFINE y == [x EXCEPT !.runtime = r]
  <2>1. Runs(r) /\ r \in DirIds \cup {Bundled} /\ VersionOf(r) = target /\ target \in Versions
    <3>1. CASE target = Bundle
      BY <3>1, BundleFits DEF Runs, VersionOf
    <3>2. CASE target # Bundle
      <4>1. r \in Holding(target)
        BY <3>2
      <4> QED
        BY <1>3, <4>1, BundleFits DEF Holding, Verified, Runs, Fits, VersionOf
    <3> QED
      BY <3>1, <3>2
  <2>2. mine' = [mine EXCEPT ![p] = y]
    BY <1>3
  <2>3. /\ y \in Locals /\ y.want = x.want /\ y.target = x.target /\ y.before = x.before
        /\ y.base = x.base /\ y.active = x.active /\ y.runtime = r /\ y.chosen = x.chosen
    BY <1>1, <2>1, Finds
  <2> HIDE DEF y
  <2>4. Steps(p) /\ mine'[p] = y /\ job'[p] = "hold" /\ stage'[p] = "none" /\ main'[p] = main[p]
    BY <1>1, <1>3, <2>2, <2>3, Moved DEF JobPlaces
  <2>5. Own(p)' /\ Locked(p)
    BY <1>1, <2>1, <2>3, <2>4, Here, FitsStays DEF Own, Places, Found, Raising, Locked
  <2> QED
    BY <2>4, <2>5 DEF Good
<1> QED
  BY <1>2, <1>3 DEF RollbackRuntime

LEMMA HoldVersionGood ==
  ASSUME IInv, Grows, NEW p \in Procs, HoldVersion(p)
  PROVE  Good(p)
<1> DEFINE x == mine[p]
<1>1. /\ job[p] = "hold" /\ main[p] = "command" /\ stage[p] = "none" /\ x \in Locals
      /\ Runs(x.runtime) /\ x.target \in Versions /\ UNCHANGED <<cacheLock, cache>>
  BY Here DEF HoldVersion, Places, Found
<1>2. CASE JobEnds(p)
  BY <1>1, <1>2, Ended
<1>3. CASE /\ settings' = [settings EXCEPT
                !.hold = [version |-> x.target, prior |-> settings.policy, generation |-> settings.generation + 1],
                !.generation = @ + 1]
           /\ Go(p, IF x.runtime = Bundled THEN "bundle" ELSE "promote")
           /\ mine' = [mine EXCEPT ![p].seen = settings']
           /\ UNCHANGED <<main, stage>>
  <2> DEFINE s == settings'
             place == IF x.runtime = Bundled THEN "bundle" ELSE "promote"
             y == [x EXCEPT !.seen = s]
  <2>1. s \in Settings
    BY <1>1, <1>3, HoldTyped
  <2>2. mine' = [mine EXCEPT ![p] = y] /\ Go(p, place) /\ UNCHANGED <<main, stage>>
    BY <1>3
  <2>3. place \in JobPlaces /\ place \in {"bundle", "promote"} /\ (place = "promote" => Fits(x.runtime))
    BY <1>1 DEF JobPlaces, Runs
  <2> HIDE DEF s, place
  <2>4. y \in Locals /\ y.before = x.before /\ y.active = x.active /\ y.runtime = x.runtime
    BY <1>1, <2>1 DEF Locals
  <2> HIDE DEF y
  <2>5. Steps(p) /\ mine'[p] = y /\ job'[p] = place /\ stage'[p] = "none" /\ main'[p] = main[p]
    BY <1>1, <2>2, <2>3, <2>4, Moved
  <2>6. Own(p)' /\ Locked(p)
    BY <1>1, <2>3, <2>4, <2>5, Here, FitsStays DEF Own, Places, Found, Raising, Locked
  <2> QED
    BY <2>5, <2>6 DEF Good
<1> QED
  BY <1>2, <1>3 DEF HoldVersion

LEMMA SelectBundledGood ==
  ASSUME IInv, Grows, NEW p \in Procs, SelectBundled(p)
  PROVE  Good(p)
BY Ended DEF SelectBundled

LEMMA CrashGood ==
  ASSUME IInv, Grows, NEW p \in Procs, Crash(p)
  PROVE  Good(p)
<1>1. /\ main' = [main EXCEPT ![p] = "idle"] /\ mine' = [mine EXCEPT ![p] = Idle]
      /\ job' = [job EXCEPT ![p] = "none"] /\ stage' = [stage EXCEPT ![p] = "none"]
  BY DEF Crash, Go, Read
<1>2. Steps(p) /\ mine'[p] = Idle /\ main'[p] = "idle" /\ job'[p] = "none" /\ stage'[p] = "none"
  BY <1>1, Here, IdleTyped DEF Steps, MainPlaces, JobPlaces
<1>3. Own(p)'
  BY <1>2, IdleFields DEF Own, Places, Found, Raising
<1>4. Locked(p)
  BY <1>2, Here DEF Locked, Crash, Free
<1> QED
  BY <1>2, <1>3, <1>4 DEF Good
-----------------------------------------------------------------------------
(* Settings, selection and cache                                           *)

(* Only these steps write the settings and the selection.                  *)
LEMMA Writers ==
  ASSUME Next
  PROVE  /\ \/ UNCHANGED settings \/ Configure \/ Resume
            \/ \E p \in Procs : HoldVersion(p)
         /\ \/ UNCHANGED pointer
            \/ \E p \in Procs : Publish(p) \/ Restore(p) \/ SelectBundled(p)
<1>1. ASSUME NEW p \in Procs, StartLaunch(p) \/ StartInstall(p) \/ StartRollback(p) \/ ReadPolicy(p)
                              \/ ReadPointer(p) \/ Crash(p)
      PROVE  UNCHANGED <<settings, pointer>>
  BY <1>1 DEF StartLaunch, StartInstall, StartRollback, ReadPolicy, ReadPointer, Crash, sides
<1>2. ASSUME NEW p \in Procs, Launch(p), ~Restore(p) PROVE UNCHANGED <<settings, pointer>>
  BY <1>2 DEF Launch, ReadBefore, Baseline, Deadline, Spawn, Exit, sides
<1>3. ASSUME NEW p \in Procs, Update(p), ~Publish(p), ~SelectBundled(p), ~HoldVersion(p)
      PROVE  UNCHANGED <<settings, pointer>>
  BY <1>3 DEF Update, Check, Metadata, Settle, InstallStatus, Repair, Get, Fetch, Download, Agree, Promote,
     RollbackTarget, RollbackRuntime, sides
<1>4. ASSUME NEW p \in Procs, Restore(p) \/ Publish(p) \/ SelectBundled(p) PROVE UNCHANGED settings
  BY <1>4 DEF Restore, Publish, SelectBundled
<1>5. ASSUME NEW p \in Procs, HoldVersion(p) PROVE UNCHANGED pointer
  BY <1>5 DEF HoldVersion
<1>6. (Configure \/ Resume => UNCHANGED pointer) /\ (Release => UNCHANGED <<settings, pointer>>)
  BY DEF Configure, Resume, Release
<1> QED
  BY <1>1, <1>2, <1>3, <1>4, <1>5, <1>6 DEF Next

LEMMA SettingsGood ==
  ASSUME IInv, Next, Grows
  PROVE  settings' \in Settings /\ (HeldVersionKept /\ ResumeKeepsPreferences /\ HoldIsPast)'
<1>1. /\ settings \in Settings /\ settings.policy \in Policy /\ settings.generation \in Nat
      /\ settings.hold # None => settings.hold \in Hold
      /\ HeldVersionKept /\ ResumeKeepsPreferences /\ HoldIsPast
  BY DEF IInv, TypeOK, Settings
<1>2. ASSUME NEW v, NEW d \in Verified, cache[d] = v PROVE d \in Verified' /\ cache'[d] = v
  BY <1>2, BundleFits DEF Grows, Verified
<1>3. CASE UNCHANGED settings
  <2>1. HeldVersionKept'
    BY <1>1, <1>2, <1>3 DEF HeldVersionKept
  <2> QED
    BY <1>1, <1>3, <2>1 DEF ResumeKeepsPreferences, HoldIsPast
<1>4. CASE Configure
  <2>1. PICK patch \in Patches :
          settings' = [settings EXCEPT !.policy = patch @@ settings.policy, !.generation = settings.generation + 1]
    BY <1>4 DEF Configure
  <2> DEFINE q == patch @@ settings.policy
             n == settings.generation + 1
  <2>2. q \in Policy /\ n \in Nat /\ n > settings.generation
    BY <1>1, PatchesAssumption
  <2>3. settings' = [settings EXCEPT !.policy = q, !.generation = n]
    BY <2>1
  <2> HIDE DEF q, n
  <2>4. settings' \in Settings /\ settings'.hold = settings.hold /\ settings'.generation = n
    BY <1>1, <2>2, <2>3 DEF Settings
  <2>5. HoldIsPast' /\ ResumeKeepsPreferences'
    BY <1>1, <2>2, <2>4 DEF HoldIsPast, ResumeKeepsPreferences, Hold
  <2>6. HeldVersionKept'
    BY <1>1, <1>2, <2>4 DEF HeldVersionKept
  <2> QED
    BY <2>4, <2>5, <2>6
<1>5. CASE Resume
  <2> DEFINE q == IF settings.hold # None /\ settings.hold.generation = settings.generation
                    THEN settings.hold.prior ELSE settings.policy
  <2>1. q \in Policy
    BY <1>1 DEF Hold
  <2>2. settings' = [policy |-> q, hold |-> None, generation |-> settings.generation + 1]
    BY <1>5 DEF Resume
  <2> HIDE DEF q
  <2>3. settings' \in Settings /\ settings'.hold = None
    BY <1>1, <2>1, <2>2 DEF Settings
  <2> QED
    BY <2>3 DEF HeldVersionKept, HoldIsPast, ResumeKeepsPreferences
<1>6. ASSUME NEW p \in Procs, HoldVersion(p) PROVE settings' \in Settings /\ (HeldVersionKept /\ ResumeKeepsPreferences /\ HoldIsPast)'
  <2> DEFINE v == mine[p].target
  <2>1. v \in Versions /\ Runs(mine[p].runtime) /\ VersionOf(mine[p].runtime) = v
    BY <1>6, Here DEF HoldVersion, Found
  <2> SUFFICES ASSUME settings' = [settings EXCEPT
                        !.hold = [version |-> v, prior |-> settings.policy, generation |-> settings.generation + 1],
                        !.generation = @ + 1]
               PROVE  settings' \in Settings /\ (HeldVersionKept /\ ResumeKeepsPreferences /\ HoldIsPast)'
    BY <1>3, <1>6 DEF HoldVersion
  <2>2. v = Bundle \/ \E d \in Verified : cache[d] = v
    BY <2>1 DEF Runs, Fits, VersionOf, Verified
  <2> HIDE DEF v
  <2>3. /\ settings' \in Settings /\ settings'.policy = settings.policy
        /\ settings'.generation = settings.generation + 1
        /\ settings'.hold # None => /\ settings'.hold.version = v /\ settings'.hold.prior = settings.policy
                                    /\ settings'.hold.generation = settings.generation + 1
    BY <2>1, HoldTyped
  <2>4. HeldVersionKept'
    BY <1>2, <2>2, <2>3 DEF HeldVersionKept
  <2>5. HoldIsPast' /\ ResumeKeepsPreferences'
    BY <1>1, <2>3 DEF HoldIsPast, ResumeKeepsPreferences
  <2> QED
    BY <2>3, <2>4, <2>5
<1> QED
  BY <1>3, <1>4, <1>5, <1>6, Writers

LEMMA PointerGood ==
  ASSUME IInv, Next, Grows
  PROVE  pointer' \in [active : DirIds \cup {None}, previous : DirIds \cup {None}] /\ PointerFits'
<1>1. /\ pointer \in [active : DirIds \cup {None}, previous : DirIds \cup {None}]
      /\ PointerFits
  BY DEF IInv, TypeOK
<1>2. ASSUME NEW a \in DirIds \cup {None}, NEW b \in DirIds \cup {None}, a # None => a # b,
             a # None => Fits(a), b # None => Fits(b), pointer' = [active |-> a, previous |-> b]
      PROVE  pointer' \in [active : DirIds \cup {None}, previous : DirIds \cup {None}] /\ PointerFits'
  BY <1>2, FitsStays DEF PointerFits
<1>3. CASE UNCHANGED pointer
  BY <1>1, <1>3, FitsStays DEF PointerFits
<1>4. ASSUME NEW p \in Procs, Publish(p) PROVE pointer' \in [active : DirIds \cup {None}, previous : DirIds \cup {None}] /\ PointerFits'
  <2> DEFINE r == mine[p].runtime
             b == IF pointer.active = r THEN pointer.previous ELSE pointer.active
  <2>1. Fits(r) /\ r \in DirIds
    BY <1>4, Here DEF Publish, Found, Fits
  <2>2. b \in DirIds \cup {None} /\ r # b /\ (b # None => Fits(b))
    BY <1>1, <2>1, BundleFits DEF PointerFits
  <2>3. pointer' = [active |-> r, previous |-> b]
    BY <1>4 DEF Publish
  <2> HIDE DEF r, b
  <2> QED
    BY <1>2, <2>1, <2>2, <2>3
<1>5. ASSUME NEW p \in Procs, Restore(p) PROVE pointer' \in [active : DirIds \cup {None}, previous : DirIds \cup {None}] /\ PointerFits'
  <2> DEFINE a == mine[p].before
  <2>1. a \in DirIds \cup {None} /\ (a # None => Fits(a) /\ a # None)
    BY <1>5, Here DEF Restore, Found, Locals
  <2>2. pointer' = pointer \/ pointer' = [active |-> a, previous |-> None]
    BY <1>5 DEF Restore
  <2> HIDE DEF a
  <2> QED
    BY <1>2, <1>3, <2>1, <2>2
<1>6. ASSUME NEW p \in Procs, SelectBundled(p) PROVE pointer' \in [active : DirIds \cup {None}, previous : DirIds \cup {None}] /\ PointerFits'
  <2> DEFINE b == IF pointer.active # None THEN pointer.active ELSE pointer.previous
  <2>1. b \in DirIds \cup {None} /\ (b # None => Fits(b))
    BY <1>1 DEF PointerFits
  <2>2. pointer' = pointer \/ pointer' = [active |-> None, previous |-> b]
    BY <1>6 DEF SelectBundled
  <2> HIDE DEF b
  <2> QED
    BY <1>2, <1>3, <2>1, <2>2
<1> QED
  BY <1>3, <1>4, <1>5, <1>6, Writers

LEMMA CacheGood ==
  ASSUME IInv, Next
  PROVE  cache' \in [DirIds -> Versions \cup {Empty, Torn}]
<1>1. cache \in [DirIds -> Versions \cup {Empty, Torn}]
  BY DEF IInv, TypeOK
<1>2. ASSUME NEW p \in Procs, Download(p) \/ Crash(p) PROVE cache' \in [DirIds -> Versions \cup {Empty, Torn}]
  <2>1. job[p] = "download" => mine[p].target \in Versions
    BY Here DEF Found
  <2>2. UNCHANGED cache \/ \E d \in DirIds, c \in {Torn, mine[p].target} :
                              job[p] = "download" /\ cache' = [cache EXCEPT ![d] = c]
    BY <1>2 DEF Download, Crash
  <2> QED
    BY <1>1, <2>1, <2>2
<1>3. ASSUME NEW p \in Procs, StartLaunch(p) \/ StartInstall(p) \/ StartRollback(p)
                              \/ ReadPolicy(p) \/ ReadPointer(p) \/ Launch(p)
      PROVE  UNCHANGED cache
  BY <1>3 DEF StartLaunch, StartInstall, StartRollback, ReadPolicy, ReadPointer, Launch, ReadBefore, Baseline,
     Deadline, Spawn, Restore, Exit, sides
<1>4. ASSUME NEW p \in Procs, Update(p), ~Download(p) PROVE UNCHANGED cache
  BY <1>4 DEF Update, Check, Metadata, Settle, InstallStatus, Repair, Get, Fetch, Agree, Promote, Publish,
     RollbackTarget, RollbackRuntime, HoldVersion, SelectBundled, sides
<1>5. Configure \/ Resume \/ Release => UNCHANGED cache
  BY DEF Configure, Resume, Release
<1> QED
  BY <1>1, <1>2, <1>3, <1>4, <1>5 DEF Next

LEMMA CountsGood ==
  ASSUME IInv, Next
  PROVE  latest' \in Versions /\ started' \in 0 .. MaxStarts /\ crashes' \in 0 .. MaxCrashes
<1>1. latest \in Versions /\ started \in 0 .. MaxStarts /\ crashes \in 0 .. MaxCrashes
  BY DEF IInv, TypeOK
<1>2. ASSUME NEW p \in Procs, StartLaunch(p) \/ StartInstall(p) \/ StartRollback(p)
      PROVE  UNCHANGED <<latest, crashes>> /\ started' \in 0 .. MaxStarts
  BY <1>1, <1>2, VersionsAssumption DEF StartLaunch, StartInstall, StartRollback, May, sides
<1>3. ASSUME NEW p \in Procs, Crash(p) PROVE UNCHANGED <<latest, started>> /\ crashes' \in 0 .. MaxCrashes
  BY <1>1, <1>3, VersionsAssumption DEF Crash
<1>4. ASSUME NEW p \in Procs, ReadPolicy(p) \/ ReadPointer(p) \/ Launch(p)
      PROVE  UNCHANGED <<latest, started, crashes>>
  BY <1>4 DEF ReadPolicy, ReadPointer, Launch, ReadBefore, Baseline, Deadline, Spawn, Restore, Exit, sides, counts
<1>5. ASSUME NEW p \in Procs, Update(p) PROVE UNCHANGED <<latest, started, crashes>>
  BY <1>5 DEF Update, Check, Metadata, Settle, InstallStatus, Repair, Get, Fetch, Download, Agree, Promote,
     Publish, RollbackTarget, RollbackRuntime, HoldVersion, SelectBundled, sides, counts
<1>6. Configure \/ Resume \/ Release => latest' \in Versions /\ UNCHANGED <<started, crashes>>
  BY <1>1 DEF Configure, Resume, Release, counts
<1> QED
  BY <1>1, <1>2, <1>3, <1>4, <1>5, <1>6 DEF Next
-----------------------------------------------------------------------------
(* The invariant                                                           *)

LEMMA InitOK == ASSUME Init PROVE IInv
<1>1. /\ mine \in [Procs -> Locals] /\ \A p \in Procs : mine[p] = Idle
      /\ main \in [Procs -> MainPlaces] /\ \A p \in Procs : main[p] = "idle"
      /\ job \in [Procs -> JobPlaces] /\ \A p \in Procs : job[p] = "none"
      /\ stage \in [Procs -> {"none", "policy", "pointer", "list"}] /\ \A p \in Procs : stage[p] = "none"
  BY IdleTyped DEF Init, MainPlaces, JobPlaces
<1>2. settings \in Settings /\ settings.hold = None
  <2>1. DefaultSettings.hold = None
    BY DEF DefaultSettings
  <2> QED
    BY <2>1, IdleTyped DEF Init
<1>3. /\ cache \in [DirIds -> Versions \cup {Empty, Torn}]
      /\ pointer \in [active : DirIds \cup {None}, previous : DirIds \cup {None}]
      /\ PointerFits
  <2>1. CASE cache = [d \in DirIds |-> Empty] /\ pointer = [active |-> None, previous |-> None]
    BY <2>1 DEF PointerFits
  <2>2. ASSUME NEW v \in Installed, cache = [d \in DirIds |-> IF d = 1 THEN v ELSE Empty],
               pointer = [active |-> 1, previous |-> None]
        PROVE  /\ cache \in [DirIds -> Versions \cup {Empty, Torn}]
               /\ pointer \in [active : DirIds \cup {None}, previous : DirIds \cup {None}]
               /\ PointerFits
    <3>1. v \in Versions /\ v \in Compatible /\ 1 \in DirIds
      BY VersionsAssumption DEF DirIds
    <3>2. cache \in [DirIds -> Versions \cup {Empty, Torn}] /\ Fits(1)
      BY <2>2, <3>1 DEF Fits
    <3> QED
      BY <2>2, <3>1, <3>2, BundleFits DEF PointerFits
  <2> QED
    BY <2>1, <2>2 DEF Init
<1>4. TypeOK
  BY <1>1, <1>2, <1>3, VersionsAssumption, DistinctAssumption DEF Init, TypeOK
<1>5. \A p \in Procs : Places(p) /\ Found(p) /\ Raising(p)
  BY <1>1, IdleFields DEF Places, Found, Raising
<1>6. HeldVersionKept /\ ResumeKeepsPreferences /\ HoldIsPast
  BY <1>2 DEF HeldVersionKept, ResumeKeepsPreferences, HoldIsPast
<1> QED
  BY <1>3, <1>4, <1>5, <1>6 DEF IInv

LEMMA ProcessGood ==
  ASSUME IInv, Grows, NEW p \in Procs,
         \/ StartLaunch(p) \/ StartInstall(p) \/ StartRollback(p)
         \/ ReadPolicy(p) \/ ReadPointer(p) \/ Launch(p) \/ Update(p) \/ Crash(p)
  PROVE  Good(p)
<1>1. CASE StartLaunch(p) \/ StartInstall(p) \/ StartRollback(p) \/ ReadPolicy(p) \/ ReadPointer(p) \/ Crash(p)
  BY <1>1, LaunchGood, StartsGood, ReadsGood, CrashGood
<1>2. CASE Launch(p)
  BY <1>2, LaunchGood, BaselineGood DEF Launch
<1>3. CASE Update(p)
  BY <1>3, CheckGood, MetadataGood, SettleGood, InstallStatusGood, RepairGood, GetGood, FetchGood, DownloadGood,
     PromoteGood, PublishGood, RollbackTargetGood, RollbackRuntimeGood, HoldVersionGood, SelectBundledGood
     DEF Update
<1> QED
  BY <1>1, <1>2, <1>3

LEMMA ProcessesGood ==
  ASSUME IInv, Next, Grows
  PROVE  /\ mine' \in [Procs -> Locals] /\ main' \in [Procs -> MainPlaces] /\ job' \in [Procs -> JobPlaces]
         /\ stage' \in [Procs -> {"none", "policy", "pointer", "list"}]
         /\ cacheLock' \in Procs \cup {None}
         /\ \A q \in Procs : job'[q] \in {"download", "publish"} <=> cacheLock' = q
         /\ \A q \in Procs : Own(q)'
<1>1. cacheLock \in Procs \cup {None} /\ \A q \in Procs : job[q] \in {"download", "publish"} <=> cacheLock = q
  BY DEF IInv, TypeOK
<1>2. CASE Configure \/ Resume \/ Release
  <2>1. UNCHANGED <<mine, main, job, stage, cacheLock>>
    BY <1>2 DEF Configure, Resume, Release, procs
  <2>2. ASSUME NEW q \in Procs PROVE Own(q)'
    BY <2>1, OthersKept
  <2> QED
    BY <1>1, <2>1, <2>2 DEF IInv, TypeOK
<1>3. ASSUME NEW p \in Procs, Good(p)
      PROVE  /\ mine' \in [Procs -> Locals] /\ main' \in [Procs -> MainPlaces] /\ job' \in [Procs -> JobPlaces]
             /\ stage' \in [Procs -> {"none", "policy", "pointer", "list"}]
             /\ cacheLock' \in Procs \cup {None}
             /\ \A q \in Procs : job'[q] \in {"download", "publish"} <=> cacheLock' = q
             /\ \A q \in Procs : Own(q)'
  <2>1. Steps(p) /\ Own(p)' /\ Locked(p)
    BY <1>3 DEF Good
  <2>2. ASSUME NEW q \in Procs PROVE Own(q)'
    BY <2>1, OthersKept DEF Steps
  <2>3. cacheLock' \in Procs \cup {None}
    BY <1>1, <2>1 DEF Locked
  <2>4. ASSUME NEW q \in Procs PROVE job'[q] \in {"download", "publish"} <=> cacheLock' = q
    <3>1. CASE q = p
      BY <2>1, <3>1 DEF Locked
    <3>2. CASE q # p
      BY <1>1, <2>1, <3>2, Here DEF Steps, Locked
    <3> QED
      BY <3>1, <3>2
  <2> QED
    BY <2>1, <2>2, <2>3, <2>4 DEF Steps
<1> QED
  BY <1>2, <1>3, ProcessGood DEF Next

LEMMA NextOK == ASSUME IInv, [Next]_vars PROVE IInv'
<1>1. CASE Next
  <2>1. Grows
    BY <1>1, CacheGrows DEF IInv
  <2>2. TypeOK'
    BY <1>1, <2>1, SettingsGood, PointerGood, CacheGood, CountsGood, ProcessesGood DEF TypeOK
  <2>3. (PointerFits /\ HeldVersionKept /\ ResumeKeepsPreferences /\ HoldIsPast)'
    BY <1>1, <2>1, SettingsGood, PointerGood
  <2>4. ASSUME NEW p \in Procs PROVE (Places(p) /\ Found(p) /\ Raising(p))'
    BY <1>1, <2>1, ProcessesGood DEF Own
  <2> QED
    BY <2>2, <2>3, <2>4 DEF IInv
<1>2. CASE UNCHANGED vars
  BY <1>2 DEF vars, sides, procs, counts, IInv, TypeOK, PointerFits, HeldVersionKept, ResumeKeepsPreferences,
     HoldIsPast, Places, Found, Raising, Fits, Runs, Selected, ListFails, VersionOf, Verified
<1> QED
  BY <1>1, <1>2

(* The inductive invariant: whatever processes, the registry, the user and *)
(* crashes do, what an operation has read and found stays good until it    *)
(* acts on it, because cache directories are only ever filled.             *)
THEOREM Invariance == Spec => []IInv
<1>1. Init => IInv
  BY InitOK
<1>2. IInv /\ [Next]_vars => IInv'
  BY NextOK
<1> QED
  BY <1>1, <1>2, PTL DEF Spec

(* Settings, cache, pointer and the variables of every operation keep      *)
(* their types, and the cache lock belongs exactly to the process that     *)
(* downloads or publishes.                                                 *)
THEOREM TypeCorrect == Spec => []TypeOK
<1>1. IInv => TypeOK
  BY DEF IInv
<1> QED
  BY <1>1, Invariance, PTL

(* A directory of the cache that has a verified.json keeps it, and its     *)
(* version.                                                                *)
THEOREM CacheOnlyGrows ==
  Spec => [][\A d \in DirIds : cache[d] # Empty => cache'[d] = cache[d]]_vars
<1>1. IInv /\ [Next]_vars => [\A d \in DirIds : cache[d] # Empty => cache'[d] = cache[d]]_vars
  BY CacheGrows DEF IInv, Grows
<1> QED
  BY <1>1, Invariance, PTL DEF Spec

(* The selection names verified runtimes that fit this machine, and a      *)
(* launch hands the project to nothing else.                               *)
THEOREM SelectionIsFit == Spec => []SelectionFits
<1>1. IInv => SelectionFits
  <2> SUFFICES ASSUME IInv PROVE SelectionFits
    OBVIOUS
  <2>1. \A d \in {pointer.active, pointer.previous} \ {None} : d \in Verified /\ cache[d] \in Compatible
    BY DEF IInv, PointerFits, Fits, Verified
  <2>2. ASSUME NEW p \in Procs, main[p] \in {"spawn", "restore"} PROVE VersionOf(mine[p].chosen) \in Compatible
    <3>1. Runs(mine[p].chosen)
      BY <2>2, Here DEF Found
    <3> QED
      BY <3>1, BundleFits DEF Runs, Fits, VersionOf
  <2> QED
    BY <2>1, <2>2 DEF IInv, PointerFits, SelectionFits
<1> QED
  BY <1>1, Invariance, PTL

(* The version a rollback holds can still be launched, even when the       *)
(* rollback died before it selected that version.                          *)
THEOREM HeldVersionIsKept == Spec => []HeldVersionKept
<1>1. IInv => HeldVersionKept
  BY DEF IInv
<1> QED
  BY <1>1, Invariance, PTL

(* Resume restores the policy of the time of the hold only when no update  *)
(* of the settings came in between.                                        *)
THEOREM PreferencesAreKept == Spec => []ResumeKeepsPreferences
<1>1. IInv => ResumeKeepsPreferences
  BY DEF IInv
<1> QED
  BY <1>1, Invariance, PTL

(* An update that startup() began raises the selection it found: it asks   *)
(* for a newer version than the one it read, and only a runtime that       *)
(* carries the version asked for reaches the pointer.                      *)
THEOREM UpdatesRaise == Spec => LoneUpdateRaises
<1> DEFINE Raises ==
      \A p \in Procs :
        Publish(p) /\ Automatic(p) /\ RefVersion(pointer.active) = mine[p].active
          => cache[mine[p].runtime] >
               IF pointer.active = None THEN Bundle ELSE cache[pointer.active]
<1>1. IInv /\ [Next]_vars => [Raises]_vars
  <2> SUFFICES ASSUME IInv, NEW p \in Procs, Publish(p), Automatic(p),
                      RefVersion(pointer.active) = mine[p].active
               PROVE  cache[mine[p].runtime] > IF pointer.active = None THEN Bundle ELSE cache[pointer.active]
    OBVIOUS
  <2>1. cache[mine[p].runtime] > Selected(p)
    BY Here DEF Publish, Automatic, Raising
  <2>2. Selected(p) = IF pointer.active = None THEN Bundle ELSE cache[pointer.active]
    <3>1. pointer.active # None => cache[pointer.active] # None
      BY BundleFits DEF IInv, PointerFits, Fits
    <3> QED
      BY <3>1 DEF RefVersion, Selected
  <2> QED
    BY <2>1, <2>2
<1>2. LoneUpdateRaises <=> [][Raises]_vars
  BY DEF LoneUpdateRaises
<1> HIDE DEF Raises
<1> QED
  BY <1>1, <1>2, Invariance, PTL DEF Spec
=============================================================================

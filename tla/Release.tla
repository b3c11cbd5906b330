------------------------------ MODULE Release ------------------------------
(***************************************************************************)
(* How a release gets into the runtime cache and is trusted there:         *)
(* RuntimeCache.install, list and #load (apps/cli/src/runtime/cache.ts)    *)
(* with the download (network.ts), the verification of its provenance      *)
(* (verify.ts), the archive (archive.ts, extract.ts) and the comparison of *)
(* every file with the signed manifest (manifest.ts, cache-io.ts).         *)
(*                                                                         *)
(* Installing holds the lock of the cache; listing does not.  Processes    *)
(* die between any two steps, a request is aborted while a chunk of it is  *)
(* still on its way to the disk, and files on the disk get damaged.        *)
(*                                                                         *)
(* A release is its bytes: two chunks, named by the release they are from, *)
(* so that a payload is that of a release when all its chunks are.  Bytes  *)
(* of no release (a wrong mixture, a damaged file) hash to nothing that    *)
(* was signed and do not unpack.  Left out: Sigstore's own cryptography,   *)
(* which either accepts a statement of the publisher or does not; the      *)
(* numbers in the limits.                                                  *)
(***************************************************************************)
EXTENDS Naturals, Sequences

CONSTANTS
  Procs,         \* launchers and update commands
  Dirs,          \* runtimes/<uuid>
  Releases,      \* what the registry may serve under this version
  Signed,        \* those the publisher's workflow attested
  MaxRedirects,  \* 3 in the code
  MaxStarts,     \* bound: operations that are started
  MaxMishaps,    \* bound: processes that die and files that are damaged
  None

ReleaseAssumption ==
  /\ Signed \subseteq Releases /\ None \notin Releases \cup Procs \cup Dirs
  /\ None \notin Seq(Releases \cup {"damaged"}) /\ "torn" \notin Releases \cup {None}
  /\ MaxRedirects \in Nat /\ MaxStarts \in Nat /\ MaxMishaps \in Nat

VARIABLES
  shape,    \* how the publisher packed the archives
  dirs,     \* what each directory of the cache holds
  lock,     \* the process inside #locked
  late,     \* directories with an aborted download that may still write
  mine,     \* the local variables of each process
  touched,  \* history: directories damaged since they were created
  starts, mishaps

rvars == <<shape, dirs, lock, late, mine, touched, starts, mishaps>>
-----------------------------------------------------------------------------
(* Archives, manifests and provenance                                      *)

Damaged == "damaged"
Torn    == "torn"
Files   == {"runtime-manifest.json", "index.mjs", "notes.txt"}
Shapes  == {"whole", "lacks a file", "unlisted file", "no manifest", "entry twice"}
Chunks  == 2

Whole(r) == [i \in 1 .. Chunks |-> r]

Unpacks(payload) == \E r \in Releases : payload = Whole(r)

(* The entries of an archive, in their order.                              *)
Entries ==
  CASE shape = "whole"         -> <<"runtime-manifest.json", "index.mjs">>
    [] shape = "lacks a file"  -> <<"runtime-manifest.json">>
    [] shape = "unlisted file" -> <<"runtime-manifest.json", "index.mjs", "notes.txt">>
    [] shape = "no manifest"   -> <<"index.mjs">>
    [] shape = "entry twice"   -> <<"runtime-manifest.json", "index.mjs", "index.mjs">>

Named == {Entries[i] : i \in DOMAIN Entries}

(* The manifest and the files it lists, as parseRuntimeManifest admits it. *)
Listed == {"runtime-manifest.json", "index.mjs"}

(* Mutant: the checksum of the metadata is taken for provenance.           *)
VerifiesChecksum(metadata, payload, attested) == payload = Whole(metadata)

(* verifyRelease: the payload is what the metadata declares and what one   *)
(* statement, signed by the publisher's workflow, names as its subject.    *)
Verifies(metadata, payload, attested) ==
  /\ payload = Whole(metadata)
  /\ attested \in Signed /\ payload = Whole(attested)

(* inspectRuntimeArchive and the comparison of its files with the manifest *)
(* in it.                                                                  *)
ArchiveAgrees ==
  /\ \A i, j \in DOMAIN Entries : Entries[i] = Entries[j] => i = j
  /\ Named = Listed

-----------------------------------------------------------------------------
NoDir == [payload |-> None, package |-> [f \in Files |-> None],
          metadata |-> None, attested |-> None, verified |-> None]

Idle == [at |-> "idle", dir |-> None, metadata |-> None, attested |-> None, hops |-> 0,
         digest |-> <<>>, receipt |-> None, entry |-> 1, todo |-> {},
         steady |-> TRUE]

At(p, where)    == mine[p].at = where
Dir(p)          == dirs[mine[p].dir]
Become(p, next) == mine' = [mine EXCEPT ![p] = next]
Holds(p)        == lock = p

(* An exception leaves install through the release of its lock; list has   *)
(* none.  The directory stays behind as it is.                             *)
Throw(p) ==
  /\ mine' = [mine EXCEPT ![p] = Idle]
  /\ lock' = IF Holds(p) THEN None ELSE lock

Start(p) == At(p, "idle") /\ starts < MaxStarts /\ starts' = starts + 1

-----------------------------------------------------------------------------
(* Installing                                                              *)

(* releaseMetadata and the attestations answer, with whatever the registry *)
(* says, before install is called.                                         *)
Fetch(p) ==
  /\ Start(p)
  /\ \E r, a \in Releases :
       Become(p, [Idle EXCEPT !.at = "locking", !.metadata = r, !.attested = a])
  /\ UNCHANGED <<shape, dirs, lock, late, touched, mishaps>>

Enter(p) ==
  /\ At(p, "locking") /\ lock = None /\ lock' = p
  /\ \E d \in Dirs :
       /\ dirs[d].payload = None
       /\ dirs' = [dirs EXCEPT ![d].payload = <<>>]
       /\ Become(p, [mine[p] EXCEPT !.at = "request", !.dir = d])
  /\ UNCHANGED <<shape, late, touched, starts, mishaps>>

(* A redirect to another permitted address; the one too many throws.       *)
Redirect(p) ==
  /\ At(p, "request")
  /\ IF mine[p].hops < MaxRedirects
       THEN Become(p, [mine[p] EXCEPT !.hops = @ + 1]) /\ UNCHANGED lock
       ELSE Throw(p)
  /\ UNCHANGED <<shape, dirs, late, touched, starts, mishaps>>

Accepted(p) ==
  /\ At(p, "request") /\ Become(p, [mine[p] EXCEPT !.at = "body"])
  /\ UNCHANGED <<shape, dirs, lock, late, touched, starts, mishaps>>

(* A chunk of any bytes is hashed and written; one beyond the limit throws.*)
Chunk(p) ==
  /\ At(p, "body")
  /\ IF Len(mine[p].digest) < Chunks
       THEN \E r \in Releases :
              /\ Become(p, [mine[p] EXCEPT !.digest = Append(@, r)])
              /\ dirs' = [dirs EXCEPT ![mine[p].dir].payload = Append(@, r)]
              /\ UNCHANGED lock
       ELSE Throw(p) /\ UNCHANGED dirs
  /\ UNCHANGED <<shape, late, touched, starts, mishaps>>

(* A timeout, a signal or a failed response.  Promise.race throws at once, *)
(* and the loop that reads the body may be about to write a chunk.         *)
Abort(p) ==
  /\ At(p, "request") \/ At(p, "body")
  /\ Throw(p)
  /\ late' = IF At(p, "body") THEN late \cup {mine[p].dir} ELSE late
  /\ UNCHANGED <<shape, dirs, touched, starts, mishaps>>

LateChunk(d) ==
  /\ d \in late /\ late' = late \ {d}
  /\ \/ UNCHANGED dirs
     \/ \E r \in Releases :
          /\ Len(dirs[d].payload) < Chunks
          /\ dirs' = [dirs EXCEPT ![d].payload = Append(@, r)]
  /\ UNCHANGED <<shape, lock, mine, touched, starts, mishaps>>

(* The end of the body: the hashed bytes are verified.  metadata.json and  *)
(* attestations.json are written next, which nobody reads in a directory   *)
(* without verified.json.                                                  *)
Received(p) ==
  /\ At(p, "body")
  /\ IF Verifies(mine[p].metadata, mine[p].digest, mine[p].attested)
       THEN /\ Become(p, [mine[p] EXCEPT !.at = "extract", !.receipt = mine[p].metadata,
                                      !.digest = <<>>])
            /\ dirs' = [dirs EXCEPT ![mine[p].dir].metadata = mine[p].metadata,
                                    ![mine[p].dir].attested = mine[p].attested]
            /\ UNCHANGED lock
       ELSE Throw(p) /\ UNCHANGED dirs
  /\ UNCHANGED <<shape, late, touched, starts, mishaps>>

(* extractRuntime: the payload is read from the disk again and unpacked    *)
(* entry by entry; a second entry of one name throws.                      *)
Extract(p) ==
  /\ At(p, "extract")
  /\ LET i == mine[p].entry
         d == mine[p].dir
     IN CASE ~Unpacks(Dir(p).payload) -> Throw(p) /\ UNCHANGED dirs
          [] Unpacks(Dir(p).payload) /\ i > Len(Entries) ->
               /\ Become(p, [mine[p] EXCEPT !.at = "load", !.entry = 1, !.steady = TRUE])
               /\ UNCHANGED <<dirs, lock>>
          [] Unpacks(Dir(p).payload) /\ i <= Len(Entries) ->
               IF \E j \in 1 .. i - 1 : Entries[j] = Entries[i]
                 THEN Throw(p) /\ UNCHANGED dirs
                 ELSE /\ dirs' = [dirs EXCEPT ![d].package[Entries[i]] = Head(Dir(p).payload)]
                      /\ Become(p, [mine[p] EXCEPT !.entry = i + 1]) /\ UNCHANGED lock
  /\ UNCHANGED <<shape, late, touched, starts, mishaps>>

(* writeJson of verified.json: the file is there before its content is.    *)
Mark(p) ==
  /\ At(p, "mark") /\ Become(p, [mine[p] EXCEPT !.at = "marked"])
  /\ dirs' = [dirs EXCEPT ![mine[p].dir].verified = Torn]
  /\ UNCHANGED <<shape, lock, late, touched, starts, mishaps>>

Finish(p) ==
  /\ At(p, "marked")
  /\ dirs' = [dirs EXCEPT ![mine[p].dir].verified = mine[p].receipt]
  /\ Throw(p)
  /\ UNCHANGED <<shape, late, touched, starts, mishaps>>

-----------------------------------------------------------------------------
(* Listing and loading                                                     *)

List(p) ==
  /\ Start(p)
  /\ Become(p, [Idle EXCEPT !.at = "listing", !.todo = {d \in Dirs : dirs[d].payload # None}])
  /\ UNCHANGED <<shape, dirs, lock, late, touched, mishaps>>

(* The next directory: without verified.json it is passed over.            *)
Visit(p) ==
  /\ At(p, "listing")
  /\ IF mine[p].todo = {}
       THEN Throw(p)
       ELSE \E d \in mine[p].todo :
              /\ IF dirs[d].verified = None
                   THEN Become(p, [mine[p] EXCEPT !.todo = @ \ {d}])
                   ELSE Become(p, [mine[p] EXCEPT !.at = "load", !.todo = @ \ {d}, !.dir = d,
                                                  !.steady = TRUE])
              /\ UNCHANGED lock
  /\ UNCHANGED <<shape, dirs, late, touched, starts, mishaps>>

(* One stage of #load: it goes on when what it read is right.              *)
Stage(p, from, right, next) ==
  /\ At(p, from)
  /\ IF right THEN Become(p, next) /\ UNCHANGED lock ELSE Throw(p)
  /\ UNCHANGED <<shape, dirs, late, touched, starts, mishaps>>

LoadMetadata(p) ==
  Stage(p, "load", TRUE, [mine[p] EXCEPT !.at = "digest", !.metadata = Dir(p).metadata])

(* hashFile, and attestations.json, which is not written again.            *)
LoadDigest(p) ==
  Stage(p, "digest", TRUE,
        [mine[p] EXCEPT !.at = "provenance", !.digest = Dir(p).payload,
                        !.attested = Dir(p).attested])

(* An installation has its own receipt, a listing that of verified.json.   *)
LoadProvenance(p) ==
  LET saved == IF Holds(p) THEN mine[p].receipt ELSE Dir(p).verified
  IN Stage(p, "provenance",
           /\ Verifies(mine[p].metadata, mine[p].digest, mine[p].attested)
           /\ saved = mine[p].metadata,
           [mine[p] EXCEPT !.at = "archive", !.digest = <<>>])

(* The payload is read a second time, for its manifest and inventory.      *)
LoadArchive(p) ==
  Stage(p, "archive", Unpacks(Dir(p).payload) /\ ArchiveAgrees,
        [mine[p] EXCEPT !.at = "inventory"])

(* validatePayloadFiles: the names first, then the bytes.                  *)
LoadInventory(p) ==
  Stage(p, "inventory", {f \in Files : Dir(p).package[f] # None} = Listed,
        [mine[p] EXCEPT !.at = "files"])

LoadFiles(p) ==
  Stage(p, "files", \A f \in Listed : Dir(p).package[f] = mine[p].metadata,
        [mine[p] EXCEPT !.at = IF Holds(p) THEN "mark" ELSE "found"])

(* #load returned a descriptor to list.                                    *)
Found(p) ==
  /\ At(p, "found")
  /\ Become(p, [Idle EXCEPT !.at = "listing", !.todo = mine[p].todo])
  /\ UNCHANGED <<shape, dirs, lock, late, touched, starts, mishaps>>

-----------------------------------------------------------------------------
(* A process dies; its lock is recovered by the next one.                  *)
Crash(p) ==
  /\ ~At(p, "idle") /\ mishaps < MaxMishaps /\ mishaps' = mishaps + 1
  /\ Throw(p)
  /\ UNCHANGED <<shape, dirs, late, touched, starts>>

(* A file changes on the disk: it is lost, or holds other bytes, or is one *)
(* that no runtime has.                                                    *)
Damage(d) ==
  /\ dirs[d].payload # None /\ mishaps < MaxMishaps /\ mishaps' = mishaps + 1
  /\ \/ dirs' = [dirs EXCEPT ![d].payload = <<Damaged>>]
     \/ dirs[d].verified # None /\ dirs' = [dirs EXCEPT ![d].verified = Torn]
     \/ \E f \in Files, what \in {None, Damaged} : dirs' = [dirs EXCEPT ![d].package[f] = what]
  /\ touched' = touched \cup {d}
  /\ mine' = [p \in Procs |->
                IF mine[p].dir = d THEN [mine[p] EXCEPT !.steady = FALSE] ELSE mine[p]]
  /\ UNCHANGED <<shape, lock, late, starts>>

Init ==
  /\ shape \in Shapes
  /\ dirs = [d \in Dirs |-> NoDir] /\ lock = None /\ late = {} /\ touched = {}
  /\ mine = [p \in Procs |-> Idle] /\ starts = 0 /\ mishaps = 0

Next ==
  \/ \E p \in Procs :
       \/ Fetch(p) \/ Enter(p) \/ Redirect(p) \/ Accepted(p) \/ Chunk(p) \/ Abort(p)
       \/ Received(p) \/ Extract(p) \/ Mark(p) \/ Finish(p)
       \/ List(p) \/ Visit(p) \/ LoadMetadata(p) \/ LoadDigest(p) \/ LoadProvenance(p)
       \/ LoadArchive(p) \/ LoadInventory(p) \/ LoadFiles(p) \/ Found(p) \/ Crash(p)
  \/ \E d \in Dirs : LateChunk(d) \/ Damage(d)

Spec == Init /\ [][Next]_rvars
-----------------------------------------------------------------------------
TypeOK ==
  /\ shape \in Shapes /\ lock \in Procs \cup {None}
  /\ late \subseteq Dirs /\ touched \subseteq Dirs
  /\ \A d \in Dirs :
       /\ dirs[d].payload = None \/ Len(dirs[d].payload) <= Chunks + 1
       /\ dirs[d].package \in [Files -> Releases \cup {None, Damaged}]
       /\ dirs[d].verified \in Releases \cup {None, Torn}
  /\ \A p \in Procs : mine[p].dir \in Dirs \cup {None} /\ mine[p].hops \in 0 .. MaxRedirects
  /\ \A p \in Procs : lock = p => mine[p].dir # None

(* A directory that holds one release of the publisher, all of it and      *)
(* nothing else.                                                           *)
Genuine(d) ==
  \E r \in Signed :
    /\ dirs[d].payload = Whole(r) /\ shape = "whole" /\ dirs[d].metadata = r
    /\ dirs[d].package = [f \in Files |-> IF f \in Listed THEN r ELSE None]

(* A runtime that install or list answers is a genuine release, unless its *)
(* files changed since its loading began; and a directory that has its     *)
(* receipt and was not damaged is genuine, whenever downloads are aborted  *)
(* and processes die, so that an installed runtime loads.                  *)
RuntimeIsSigned ==
  /\ \A p \in Procs : (At(p, "mark") \/ At(p, "found")) /\ mine[p].steady => Genuine(mine[p].dir)
  /\ \A d \in Dirs \ touched :
       dirs[d].verified \in Releases => Genuine(d) /\ dirs[d].metadata = dirs[d].verified

(* The strengthening that makes these inductive: what each variable holds, *)
(* and what a process knows of the directory it works in.                  *)
Bytes == Releases \cup {Damaged}
Known == Releases \cup {None}

Installing == {"request", "body", "extract", "mark", "marked"}
Loading    == {"load", "digest", "provenance", "archive", "inventory", "files"}
Elsewhere  == {"idle", "locking", "listing"}

Directory == [payload : Seq(Bytes) \cup {None}, package : [Files -> Bytes \cup {None}],
              metadata : Known, attested : Known, verified : Known \cup {Torn}]

Locals == [at : Elsewhere \cup Installing \cup Loading \cup {"found"}, dir : Dirs \cup {None},
           metadata : Known, attested : Known, hops : 0 .. MaxRedirects, digest : Seq(Bytes),
           receipt : Known, entry : Nat, todo : SUBSET Dirs, steady : BOOLEAN]

Typed ==
  /\ shape \in Shapes /\ lock \in Procs \cup {None} /\ late \subseteq Dirs /\ touched \subseteq Dirs
  /\ dirs \in [Dirs -> Directory] /\ mine \in [Procs -> Locals]

(* Who installs holds the lock and has a directory of its own, which has   *)
(* no receipt before the end; who loads for a list is in one that has.     *)
Located(p) ==
  /\ mine[p].at \in Elsewhere => mine[p].digest = <<>>
  /\ mine[p].at \in Elsewhere <=> mine[p].dir = None
  /\ mine[p].at \in Installing => Holds(p)
  /\ Holds(p) =>
       /\ mine[p].at \in Installing \cup Loading
       /\ Dir(p).payload # None /\ mine[p].dir \notin late
       /\ Dir(p).verified = IF At(p, "marked") THEN Torn ELSE None
  /\ ~Holds(p) /\ mine[p].dir # None => Dir(p).verified # None
  /\ ~mine[p].steady => mine[p].dir \in touched
  /\ mine[p].at \in {"request", "body"} =>
       Len(mine[p].digest) <= Chunks /\ Len(Dir(p).payload) <= Len(mine[p].digest) + 1

(* What the stages of #load have established, unless the files changed.    *)
Checked(p) ==
  LET at == mine[p].at
      m  == mine[p].metadata
  IN /\ Holds(p) /\ at \notin {"request", "body"} =>
          mine[p].receipt \in Releases /\ mine[p].receipt = Dir(p).metadata
     /\ mine[p].steady =>
          /\ at \in {"digest", "provenance", "archive", "inventory", "files", "found", "mark", "marked"} =>
               m = Dir(p).metadata
          /\ at = "provenance" => mine[p].digest = Dir(p).payload /\ mine[p].attested = Dir(p).attested
          /\ at \in {"archive", "inventory", "files", "found", "mark", "marked"} =>
               m \in Signed /\ Dir(p).payload = Whole(m)
          /\ at \in {"inventory", "files", "found", "mark", "marked"} => shape = "whole"
          /\ at \in {"files", "found", "mark", "marked"} =>
               {f \in Files : Dir(p).package[f] # None} = Listed
          /\ at \in {"found", "mark", "marked"} => \A f \in Listed : Dir(p).package[f] = m

(* A directory, whoever works in it.                                       *)
Settled(d) ==
  /\ dirs[d].payload = None => dirs[d].verified = None
  /\ dirs[d].payload # None => Len(dirs[d].payload) <= Chunks + 1
  /\ d \in late => dirs[d].payload # None /\ dirs[d].verified = None
  /\ d \notin touched /\ dirs[d].verified \in Releases =>
       Genuine(d) /\ dirs[d].metadata = dirs[d].verified

ReleaseInv ==
  /\ Typed
  /\ \A p \in Procs : Located(p) /\ Checked(p)
  /\ \A d \in Dirs : Settled(d)
=============================================================================

------------------------------ MODULE Evidence ------------------------------
(***************************************************************************)
(* Evidence files of one project: a local file is selected and pinned, its *)
(* upload is prepared, received into a staged part, and committed together *)
(* with the record that names it.  Calls for the same upload interleave at *)
(* every await; the file the user selected may change while it is read;    *)
(* the process may die.  The project lock is the lease of ProjectLock, and *)
(* of the commit protocol only what happens to evidence is kept.           *)
(***************************************************************************)
EXTENDS Integers

CONSTANTS
  Calls,         \* concurrent calls of accept and of applyStoredProposal
  Uploads,       \* generated upload ids, one part each
  Mutations,     \* mutation ids, which name the final file
  MaxStarts,     \* bound: calls that are started
  MaxRevisions,  \* bound: revisions of the source
  MaxDeaths,     \* bound: process deaths
  None

(* What the constants are taken to be.                                     *)
EvidenceBounds == MaxStarts \in Nat /\ MaxRevisions \in Nat /\ MaxDeaths \in Nat
NobodyAssumption == None \notin Calls \cup Uploads \cup Mutations

VARIABLES
  file,          \* the bytes of the file on the disk of the user
  uploads,       \* EvidenceService.#uploads of the live session
  parts,         \* .robopomelo/recovery/uploads: who created each, which bytes
  finals,        \* evidence/: the bytes of the attachment of each mutation
  receipts,      \* what the store knows of each mutation
  lease,         \* holder of the project lock
  revision,      \* the revision deployment.yaml holds
  calls, starts, deaths

evars == <<file, uploads, parts, finals, receipts, lease, revision, calls, starts, deaths>>

Bytes == {"old", "new"}
Nothing == "nothing"
Unused == [state |-> "unused", m |-> None, bytes |-> Nothing, base |-> 0, busy |-> FALSE]
Absent == [by |-> None, bytes |-> Nothing, whole |-> FALSE]
Unknown == [state |-> "not-found", u |-> None, bytes |-> Nothing]
Ended == [pc |-> "idle", u |-> None, approves |-> FALSE]

Init ==
  /\ file \in Bytes
  /\ uploads = [u \in Uploads |-> Unused]
  /\ parts = [u \in Uploads |-> Absent]
  /\ finals = [m \in Mutations |-> Nothing]
  /\ receipts = [m \in Mutations |-> Unknown]
  /\ lease = None
  /\ revision = 0
  /\ calls = [c \in Calls |-> Ended]
  /\ starts = 0
  /\ deaths = 0

-----------------------------------------------------------------------------
At(c, pc) == calls[c].pc = pc
Goto(c, pc) == calls' = [calls EXCEPT ![c].pc = pc]
Up(c) == uploads[calls[c].u]
Part(c) == parts[calls[c].u]
Receipt(c) == receipts[Up(c).m]
bounds == <<starts, deaths>>
stored == <<parts, finals, receipts, revision>>

(* The digest of a mutation covers the hash of the selected bytes.         *)
Conflicts(u) == LET r == receipts[uploads[u].m]
                IN r.state # "not-found" /\ r.bytes # uploads[u].bytes

(* An exception or an answer leaves accept: busy is reset only by a call   *)
(* that has set it.                                                        *)
Leave(c) ==
  /\ calls' = [calls EXCEPT ![c] = Ended]
  /\ uploads' = IF At(c, "status") \/ calls[c].approves THEN uploads
                ELSE [uploads EXCEPT ![calls[c].u].busy = FALSE]
  /\ lease' = IF lease = c THEN None ELSE lease

ChangeFile == /\ file' \in Bytes \ {file}
              /\ UNCHANGED <<uploads, lease, calls, stored, bounds>>

(* FileSelection.open pins the bytes and prepare binds them to a mutation, *)
(* which is new or is repeated after a lost answer.                        *)
Prepare(u, m) ==
  /\ uploads[u] = Unused
  /\ \/ receipts[m].state = "not-found"
     \/ receipts[m].state \in {"committed", "proposed"} /\ receipts[m].bytes = file
  /\ uploads' = [uploads EXCEPT ![u] = [state |-> "ready", m |-> m, bytes |-> file,
                                        base |-> revision, busy |-> FALSE]]
  /\ UNCHANGED <<file, lease, calls, stored, bounds>>

Begin(c, call) == /\ At(c, "idle")
                  /\ starts < MaxStarts
                  /\ starts' = starts + 1
                  /\ calls' = [calls EXCEPT ![c] = call]
                  /\ UNCHANGED <<file, uploads, lease, stored, deaths>>

Accept(c, u) == /\ uploads[u].state = "ready"
                /\ ~uploads[u].busy
                /\ Begin(c, [pc |-> "status", u |-> u, approves |-> FALSE])

(* applyStoredProposal commits the part that was staged for the proposal.  *)
Approve(c, m) == /\ receipts[m].state = "proposed"
                 /\ Begin(c, [pc |-> "lock", u |-> receipts[m].u, approves |-> TRUE])

(* mutationStatus, awaited between the test of busy and its assignment.    *)
StatusKnown(c) ==
  /\ At(c, "status")
  /\ ~Conflicts(calls[c].u)
  /\ Receipt(c).state \in {"committed", "proposed"}
  /\ Goto(c, "lock")
  /\ UNCHANGED <<file, uploads, lease, stored, bounds>>

StatusRefused(c) ==
  /\ At(c, "status")
  /\ Conflicts(calls[c].u) \/ Receipt(c).state = "pending"
  /\ Leave(c)
  /\ UNCHANGED <<file, stored, bounds>>

StatusNew(c) ==
  /\ At(c, "status")
  /\ Receipt(c).state = "not-found"
  /\ uploads' = [uploads EXCEPT ![calls[c].u].busy = TRUE]
  /\ Goto(c, "create")
  /\ UNCHANGED <<file, lease, stored, bounds>>

(* A grant that was revoked, or a part that is there: createExclusive      *)
(* fails, and nothing is removed.                                          *)
CreateRefused(c) ==
  /\ At(c, "create")
  /\ Leave(c)
  /\ UNCHANGED <<file, stored, bounds>>

(* Mutant: the part is opened also when it exists, and truncated.          *)
CreatesShared(u) == TRUE
Creates(u) == parts[u] = Absent

CreatePart(c) ==
  /\ At(c, "create")
  /\ Creates(calls[c].u)
  /\ parts' = [parts EXCEPT ![calls[c].u] = [Absent EXCEPT !.by = c]]
  /\ Goto(c, "receive")
  /\ UNCHANGED <<file, uploads, lease, finals, receipts, revision, bounds>>

(* Size and hash of what was streamed are those of the selected bytes.     *)
Receive(c) ==
  /\ At(c, "receive")
  /\ file = Up(c).bytes
  /\ parts' = [parts EXCEPT ![calls[c].u].bytes = file, ![calls[c].u].whole = TRUE]
  /\ Goto(c, "lock")
  /\ UNCHANGED <<file, uploads, lease, finals, receipts, revision, bounds>>

(* Other bytes, a broken stream or a full disk.                            *)
ReceiveFailed(c) ==
  /\ At(c, "receive")
  /\ Goto(c, "discard")
  /\ UNCHANGED <<file, uploads, lease, stored, bounds>>

(* removeOwnedEntry compares the identity with the one that was created.   *)
Discard(c) ==
  /\ At(c, "discard")
  /\ parts' = IF Part(c).by = c THEN [parts EXCEPT ![calls[c].u] = Absent] ELSE parts
  /\ Leave(c)
  /\ UNCHANGED <<file, finals, receipts, revision, bounds>>

-----------------------------------------------------------------------------
(* session.commit, as far as evidence is concerned. *)

Lock(c) ==
  /\ At(c, "lock")
  /\ lease = None
  /\ lease' = c
  /\ Goto(c, "commit")
  /\ UNCHANGED <<file, uploads, stored, bounds>>

LockTimeout(c) ==
  /\ At(c, "lock")
  /\ lease # None
  /\ Leave(c)
  /\ UNCHANGED <<file, stored, bounds>>

(* Already committed or proposed, a stale base, or a refused mutation.     *)
Settled(c) == \/ Conflicts(calls[c].u)
              \/ Receipt(c).state \in {"committed", "pending"}
              \/ Receipt(c).state = "proposed" /\ ~calls[c].approves
              \/ Up(c).base # revision

Answer(c) ==
  /\ At(c, "commit")
  /\ Settled(c)
  /\ Leave(c)
  /\ UNCHANGED <<file, stored, bounds>>

(* review-each-change: the proposal keeps the path of the part.            *)
Propose(c) ==
  /\ At(c, "commit")
  /\ ~Settled(c)
  /\ ~calls[c].approves
  /\ receipts' = [receipts EXCEPT ![Up(c).m] =
       [state |-> "proposed", u |-> calls[c].u, bytes |-> Up(c).bytes]]
  /\ Leave(c)
  /\ UNCHANGED <<file, parts, finals, revision, bounds>>

(* prepare verifies the part, which is always the selected one here; then  *)
(* the journal is written.                                                 *)
Verified(c) == Part(c).whole /\ Part(c).bytes = Up(c).bytes

Journal(c) ==
  /\ At(c, "commit")
  /\ ~Settled(c)
  /\ Verified(c)
  /\ receipts' = [receipts EXCEPT ![Up(c).m] =
       [state |-> "pending", u |-> calls[c].u, bytes |-> Up(c).bytes]]
  /\ Goto(c, "publish")
  /\ UNCHANGED <<file, uploads, lease, parts, finals, revision, bounds>>

(* renameNoReplace: a link, then the removal of the name of the part.      *)
Publish(c) ==
  /\ At(c, "publish")
  /\ finals' = [finals EXCEPT ![Up(c).m] = Part(c).bytes]
  /\ Goto(c, "unlink")
  /\ UNCHANGED <<file, uploads, lease, parts, receipts, revision, bounds>>

Unlink(c) ==
  /\ At(c, "unlink")
  /\ parts' = [parts EXCEPT ![calls[c].u] = Absent]
  /\ Goto(c, "replace")
  /\ UNCHANGED <<file, uploads, lease, finals, receipts, revision, bounds>>

Replaces(c) == At(c, "replace")

Replace(c) ==
  /\ Replaces(c)
  /\ revision' = revision + 1
  /\ receipts' = [receipts EXCEPT ![Up(c).m].state = "committed"]
  /\ Leave(c)
  /\ UNCHANGED <<file, parts, finals, bounds>>

-----------------------------------------------------------------------------
(* Somebody else commits a mutation of another kind.                       *)
CommitElsewhere ==
  /\ lease = None
  /\ revision < MaxRevisions
  /\ revision' = revision + 1
  /\ UNCHANGED <<file, uploads, lease, calls, parts, finals, receipts, bounds>>

(* The process dies: the session forgets its uploads, the files stay.      *)
Die ==
  /\ deaths < MaxDeaths
  /\ deaths' = deaths + 1
  /\ calls' = [c \in Calls |-> Ended]
  /\ lease' = None
  /\ uploads' = [u \in Uploads |-> IF uploads[u] = Unused THEN Unused
                   ELSE [uploads[u] EXCEPT !.busy = FALSE, !.state = "lost"]]
  /\ UNCHANGED <<file, stored, starts>>

Step(c) ==
  \/ StatusKnown(c) \/ StatusRefused(c) \/ StatusNew(c)
  \/ CreateRefused(c) \/ CreatePart(c) \/ Receive(c) \/ ReceiveFailed(c) \/ Discard(c)
  \/ Lock(c) \/ LockTimeout(c) \/ Answer(c) \/ Propose(c) \/ Journal(c)
  \/ Publish(c) \/ Unlink(c) \/ Replace(c)

Next ==
  \/ \E c \in Calls :
       \/ Step(c)
       \/ \E u \in Uploads : Accept(c, u)
       \/ \E m \in Mutations : Approve(c, m)
  \/ \E u \in Uploads, m \in Mutations : Prepare(u, m)
  \/ ChangeFile \/ CommitElsewhere \/ Die

Spec == Init /\ [][Next]_evars

-----------------------------------------------------------------------------
Upload == [state : {"unused", "ready", "lost"}, m : Mutations \cup {None},
           bytes : Bytes \cup {Nothing}, base : Nat, busy : BOOLEAN]
Record == [state : {"not-found", "proposed", "pending", "committed"},
           u : Uploads \cup {None}, bytes : Bytes \cup {Nothing}]

(* A call that is past the lock holds it; an upload that nobody receives   *)
(* is not busy, so that it can be tried again.                             *)
TypeOK ==
  /\ file \in Bytes
  /\ uploads \in [Uploads -> Upload]
  /\ parts \in [Uploads -> [by : Calls \cup {None}, bytes : Bytes \cup {Nothing}, whole : BOOLEAN]]
  /\ finals \in [Mutations -> Bytes \cup {Nothing}]
  /\ receipts \in [Mutations -> Record]
  /\ \A c \in Calls : lease = c <=> calls[c].pc \in {"commit", "publish", "unlink", "replace"}
  /\ \A u \in Uploads : uploads[u].busy => \E c \in Calls : calls[c].u = u
  /\ revision \in Nat /\ starts \in 0..MaxStarts /\ deaths \in 0..MaxDeaths

(* Two calls can both find the upload not busy.  The part that one of them *)
(* is writing is never taken or removed by the other, whatever each of     *)
(* them fails at.                                                          *)
PartBelongsToWriter ==
  \A c \in Calls : calls[c].pc \in {"receive", "discard"} => Part(c).by = c /\ ~Part(c).whole

(* At every moment, a crash included, a committed record has the bytes     *)
(* that were selected under evidence/, and a proposal or a journal still   *)
(* has them in its part.                                                   *)
EvidenceKept ==
  \A m \in Mutations :
    LET r == receipts[m]
    IN /\ r.state = "committed" => finals[m] = r.bytes
       /\ r.state = "pending" => finals[m] = r.bytes \/ parts[r.u].bytes = r.bytes
       /\ r.state = "proposed" => parts[r.u].whole /\ parts[r.u].bytes = r.bytes

-----------------------------------------------------------------------------
(* The inductive invariant behind both: an upload stays what was selected, *)
(* the records of a mutation name one of its uploads, and each point of a  *)
(* call goes with what its part, its receipt and the final file hold.      *)
Points == {"idle", "status", "create", "receive", "discard", "lock", "commit", "publish",
           "unlink", "replace"}
Committing == {"commit", "publish", "unlink", "replace"}

Selected(u) == /\ uploads[u].state \in {"ready", "lost"}
               /\ uploads[u].m \in Mutations /\ uploads[u].bytes \in Bytes

Staged(u) == parts[u].whole /\ parts[u].bytes = uploads[u].bytes

(* What a receipt says of the upload it names. *)
Named(m) ==
  receipts[m].state # "not-found" =>
    LET u == receipts[m].u
    IN /\ u \in Uploads /\ Selected(u)
       /\ uploads[u].m = m /\ uploads[u].bytes = receipts[m].bytes
       /\ receipts[m].state = "proposed" => Staged(u)
       /\ receipts[m].state = "pending" => Staged(u) \/ finals[m] = uploads[u].bytes
       /\ receipts[m].state = "committed" => finals[m] = uploads[u].bytes

(* What a call has done so far. *)
Progressing(c) ==
  LET u == calls[c].u
      r == receipts[uploads[u].m]
  IN /\ calls[c].pc # "idle" => u \in Uploads /\ Selected(u)
     /\ calls[c].approves => calls[c].pc \in {"lock"} \cup Committing
     /\ calls[c].pc \in {"lock", "commit"} => r.state # "not-found" \/ Staged(u)
     /\ calls[c].pc \in {"receive", "discard"} => parts[u].by = c /\ ~parts[u].whole
     /\ calls[c].pc \in {"publish", "unlink", "replace"} =>
          /\ r.state = "pending" /\ r.u = u
          /\ calls[c].pc \in {"publish", "unlink"} => Staged(u)
          /\ calls[c].pc \in {"unlink", "replace"} => finals[uploads[u].m] = uploads[u].bytes

EvidenceInv ==
  /\ TypeOK
  /\ calls \in [Calls -> [pc : Points, u : Uploads \cup {None}, approves : BOOLEAN]]
  /\ lease \in Calls \cup {None}
  /\ \A u \in Uploads : uploads[u] = Unused \/ Selected(u)
  /\ \A u \in Uploads : uploads[u].busy =>
       \E c \in Calls : calls[c].u = u /\ ~calls[c].approves /\ calls[c].pc \notin {"idle", "status"}
  /\ \A m \in Mutations : Named(m)
  /\ \A c \in Calls : Progressing(c)
=============================================================================

------------------------------- MODULE Export -------------------------------
(***************************************************************************)
(* Review packages of one project.  A preview freezes the bytes of one     *)
(* source revision and the hashes of the selected attachments; persisting  *)
(* it writes a ZIP file or a directory to a generated stage under the      *)
(* project lock and publishes it under a name.  The editor and the user    *)
(* change deployment.yaml and the attachments without any lock, commits    *)
(* change the source under it, and a call may be cancelled or die.         *)
(***************************************************************************)
EXTENDS Integers, Sequences, FiniteSets

CONSTANTS
  Calls,         \* concurrent calls of preview and of persist
  Previews,      \* generated preview ids
  Names,         \* output names under exports/
  MaxPreviews,   \* previews the service remembers (16 in the code)
  MaxRevisions,  \* bound: revisions of the source
  MaxStarts,     \* bound: calls that are started
  None

(* What the constants are taken to be.                                     *)
LimitsAssumption == /\ MaxPreviews \in Nat \ {0}
                    /\ MaxRevisions \in Nat /\ MaxStarts \in Nat
NoneIsNone == None \notin Calls \cup Previews \cup Names

VARIABLES
  source,        \* the revision deployment.yaml holds
  attachment,    \* bytes of the selected attachment: the declared ones or others
  frozen,        \* revision that each preview froze
  previews,      \* ExportService.#previews, the oldest first
  stages,        \* exports/.incomplete-*, the stage of each call
  exports,       \* what each name under exports/ holds
  lease,         \* holder of the project lock
  calls, startsDone

xvars == <<source, attachment, frozen, previews, stages, exports, lease, calls, startsDone>>

Members == {"documents", "attachment"}
Revisions == 0..MaxRevisions
Stray == -1
AttachmentBytes == {"declared", "other"}
Missing == [preview |-> None, revision |-> Stray, members |-> {}, attachment |-> "declared"]
Resting == [pc |-> "idle", id |-> None, name |-> None, format |-> "zip"]

Init ==
  /\ source = 0
  /\ attachment \in AttachmentBytes
  /\ frozen = [i \in Previews |-> Stray]
  /\ previews = <<>>
  /\ stages = [c \in Calls |-> Missing]
  /\ exports \in [Names -> {Missing}]
  /\ lease = None
  /\ calls = [c \in Calls |-> Resting]
  /\ startsDone = 0

-----------------------------------------------------------------------------
At(c, pc) == calls[c].pc = pc
Goto(c, pc) == calls' = [calls EXCEPT ![c].pc = pc]
Plan(c) == frozen[calls[c].id]
disk == <<source, attachment, exports>>

Start(c, call) == /\ At(c, "idle")
                  /\ startsDone < MaxStarts
                  /\ startsDone' = startsDone + 1
                  /\ calls' = [calls EXCEPT ![c] = call]
                  /\ UNCHANGED <<disk, previews, stages, lease>>

(* verifyFrozen: the source, then the attachment, each read by itself.     *)
SourceFrozen(c) == source = Plan(c)
AttachmentFrozen == attachment = "declared"

(* The documents of a preview are made from one read of the source.        *)
StartPreview(c, i) ==
  /\ frozen[i] = Stray
  /\ frozen' = [frozen EXCEPT ![i] = source]
  /\ Start(c, [Resting EXCEPT !.pc = "freeze", !.id = i])

(* Verified: the preview is kept, and the oldest one is dropped for it.    *)
Keep(c) ==
  /\ At(c, "freeze")
  /\ SourceFrozen(c) /\ AttachmentFrozen
  /\ previews' = Append(IF Len(previews) >= MaxPreviews THEN Tail(previews) ELSE previews, calls[c].id)
  /\ calls' = [calls EXCEPT ![c] = Resting]
  /\ UNCHANGED <<disk, frozen, stages, lease, startsDone>>

(* Whatever fails, or is cancelled, leaves its stage and frees the lock.   *)
Abort(c) ==
  /\ ~At(c, "idle")
  /\ calls' = [calls EXCEPT ![c] = Resting]
  /\ stages' = [stages EXCEPT ![c] = Missing]
  /\ lease' = IF lease = c THEN None ELSE lease
  /\ UNCHANGED <<disk, frozen, previews, startsDone>>

StartPersist(c, i, n, format) ==
  /\ \E k \in 1..Len(previews) : previews[k] = i
  /\ Start(c, [pc |-> "lock", id |-> i, name |-> n, format |-> format])
  /\ UNCHANGED frozen

LeaseFree(c) == lease = None

Lock(c) ==
  /\ At(c, "lock")
  /\ LeaseFree(c)
  /\ lease' = c
  /\ Goto(c, "verifySource")
  /\ UNCHANGED <<disk, frozen, previews, stages, startsDone>>

VerifySource(c) ==
  /\ calls[c].pc \in {"verifySource", "verifyAgain"}
  /\ SourceFrozen(c)
  /\ Goto(c, IF At(c, "verifySource") THEN "verifyMembers" ELSE "verifyMembersAgain")
  /\ UNCHANGED <<disk, frozen, previews, stages, lease, startsDone>>

VerifyMembers(c) ==
  /\ calls[c].pc \in {"verifyMembers", "verifyMembersAgain"}
  /\ AttachmentFrozen
  /\ stages' = IF At(c, "verifyMembers") THEN [stages EXCEPT ![c].preview = calls[c].id] ELSE stages
  /\ Goto(c, IF At(c, "verifyMembers") THEN "write" ELSE "publish")
  /\ UNCHANGED <<disk, frozen, previews, lease, startsDone>>

Streamed == attachment = "declared"

(* Mutant: the documents are made from the source when they are written.   *)
DocumentsOnDisk(c) == source
Documents(c) == Plan(c)

(* memberStream: the documents are the bytes of the plan in memory,        *)
(* whatever the source holds now, the attachment is read from the disk.    *)
WriteMember(c, m) ==
  /\ At(c, "write")
  /\ m \notin stages[c].members
  /\ m = "attachment" => Streamed
  /\ stages' = [stages EXCEPT ![c].members = @ \cup {m},
                              ![c].revision = IF m = "documents" THEN Documents(c) ELSE @,
                              ![c].attachment = IF m = "attachment" THEN attachment ELSE @]
  /\ UNCHANGED <<disk, frozen, previews, lease, calls, startsDone>>

Written(c) == stages[c].members = Members

Flush(c) ==
  /\ At(c, "write")
  /\ Written(c)
  /\ Goto(c, "verifyAgain")
  /\ UNCHANGED <<disk, frozen, previews, stages, lease, startsDone>>

(* A ZIP is linked, which never replaces; publishExportDirectory inspects  *)
(* the name and then renames, under the lock.                              *)
Inspect(c) ==
  /\ At(c, "publish")
  /\ exports[calls[c].name] = Missing
  /\ Goto(c, "rename")
  /\ UNCHANGED <<disk, frozen, previews, stages, lease, startsDone>>

Rename(c) ==
  /\ At(c, "rename")
  /\ \/ calls[c].format = "files"
     \/ exports[calls[c].name] = Missing
  /\ exports' = [exports EXCEPT ![calls[c].name] = stages[c]]
  /\ stages' = [stages EXCEPT ![c] = Missing]
  /\ lease' = IF lease = c THEN None ELSE lease
  /\ calls' = [calls EXCEPT ![c] = Resting]
  /\ UNCHANGED <<source, attachment, frozen, previews, startsDone>>

-----------------------------------------------------------------------------
Commit == /\ lease = None
          /\ source < MaxRevisions
          /\ source' = source + 1
          /\ UNCHANGED <<attachment, frozen, previews, stages, exports, lease, calls, startsDone>>

(* An editor saves any text, again later one that was there before, or the *)
(* user touches the attachment.                                            *)
EditSource == /\ source' \in Revisions \ {source}
              /\ UNCHANGED <<attachment, frozen, previews, stages, exports, lease, calls, startsDone>>
EditAttachment == /\ attachment' \in AttachmentBytes \ {attachment}
                  /\ UNCHANGED <<source, frozen, previews, stages, exports, lease, calls, startsDone>>

Next ==
  \/ \E c \in Calls :
       \/ Keep(c) \/ Abort(c) \/ Lock(c) \/ VerifySource(c) \/ VerifyMembers(c)
       \/ Flush(c) \/ Inspect(c) \/ Rename(c)
       \/ \E m \in Members : WriteMember(c, m)
       \/ \E i \in Previews : StartPreview(c, i)
       \/ \E i \in Previews, n \in Names, format \in {"zip", "files"} : StartPersist(c, i, n, format)
  \/ Commit \/ EditSource \/ EditAttachment

Spec == Init /\ [][Next]_xvars

-----------------------------------------------------------------------------
Package == [preview : Previews \cup {None}, revision : Revisions \cup {Stray},
            members : SUBSET Members, attachment : AttachmentBytes]

(* Previews are verified ones; past the lock a call holds it.              *)
TypeOK ==
  /\ source \in Revisions /\ attachment \in AttachmentBytes
  /\ frozen \in [Previews -> Revisions \cup {Stray}]
  /\ previews \in Seq(Previews) /\ Len(previews) <= MaxPreviews
  /\ \A k \in 1..Len(previews) : frozen[previews[k]] # Stray
  /\ stages \in [Calls -> Package] /\ exports \in [Names -> Package]
  /\ \A c \in Calls : lease = c <=> calls[c].pc \notin {"idle", "freeze", "lock"}
  /\ startsDone \in 0..MaxStarts

(* A published package is whole and of one version: every member is there, *)
(* the documents are of the revision that the preview it was persisted for *)
(* froze, not of another one that was committed, edited or previewed      *)
(* since, and the attachment has the bytes that revision declares, although *)
(* change and change back while they are verified and copied.              *)
PackageFaithful ==
  \A n \in Names : exports[n] # Missing =>
    /\ exports[n].members = Members
    /\ exports[n].preview \in Previews
    /\ exports[n].revision = frozen[exports[n].preview] /\ exports[n].revision # Stray
    /\ exports[n].attachment = "declared"

-----------------------------------------------------------------------------
(* The inductive invariant behind it: a stage is of the preview its call   *)
(* persists and only ever holds the documents of that plan and an          *)
(* attachment that was compared with it, it is complete before it is       *)
(* checked again, and what a preview froze stays.                          *)
Points == {"idle", "freeze", "lock", "verifySource", "verifyMembers", "write", "verifyAgain",
           "verifyMembersAgain", "publish", "rename"}
Done == {"verifyAgain", "verifyMembersAgain", "publish", "rename"}

Works(c) ==
  /\ calls[c].pc \notin {"idle"} => calls[c].id \in Previews /\ Plan(c) # Stray
  /\ calls[c].pc \notin {"idle", "freeze"} => calls[c].name \in Names
  /\ IF calls[c].pc \in {"write"} \cup Done THEN stages[c].preview = calls[c].id
                                           ELSE stages[c] = Missing
  /\ "documents" \in stages[c].members => stages[c].revision = Plan(c)
  /\ calls[c].pc \in Done => stages[c].members = Members
  /\ "attachment" \in stages[c].members => stages[c].attachment = "declared"

ExportInv ==
  /\ TypeOK
  /\ calls \in [Calls -> [pc : Points, id : Previews \cup {None}, name : Names \cup {None},
                          format : {"zip", "files"}]]
  /\ lease \in Calls \cup {None}
  /\ \A c \in Calls : Works(c)
  /\ PackageFaithful
=============================================================================

------------------------------- MODULE Draft -------------------------------
(***************************************************************************)
(* The browser's draft of the deployment and the way it is saved: edits    *)
(* that wait for a timer, one save at a time, an answer that may be lost   *)
(* and is then looked for in the receipts, proposals, and the dialog that  *)
(* resolves a conflict.  The server handles one mutation in one step (the  *)
(* modules Transactions and Approval say how); a document is the value of  *)
(* every field, and a patch the document it leads to from its base.        *)
(***************************************************************************)
EXTENDS Integers, Sequences, FiniteSets, Functions

CONSTANTS
  Fields, Values, None,
  MaxPatches,    \* bound: mutation identities
  MaxEdits,      \* bound: edits of the user
  MaxOthers,     \* bound: commits of another process
  MaxMishaps,    \* bound: answers lost and requests refused
  ClosesBusyDialog \* whether the user closes the conflict dialog while it applies

(* What the constants are taken to be.                                     *)
ASSUME DraftBounds ==
  /\ MaxPatches \in Nat /\ MaxEdits \in Nat /\ MaxOthers \in Nat /\ MaxMishaps \in Nat
  /\ Values # {}
  /\ None \notin Values
  /\ None \notin [id : Nat, newer : BOOLEAN] \cup [rev : Nat, doc : [Fields -> Values]]

VARIABLES
  source,        \* the committed source: its revision and its document
  authors,       \* who made each revision
  mode,          \* of the grant: autonomous or review-each-change
  results,       \* what the server has stored for each mutation
  wire,          \* how often a request is under way
  patches,       \* the patches that have been given an identity
  view,          \* what the draft publishes
  timer,         \* the save timer is armed
  uncertain,     \* the save whose outcome is unknown
  calls,         \* the save and the resolution under way, if any
  applying,      \* the proposal that is being applied
  dialog,        \* the source the conflict dialog compares with, and its patch
  edits, others, mishaps,
  wanted,        \* ghost: what the user last entered and has not given up
  abandoned,     \* ghost: a save or a proposal of the draft was given up
  refused        \* ghost: the server refused a request

dvars == <<source, authors, mode, results, wire, patches, view, timer, uncertain, calls,
           applying, dialog, edits, others, mishaps, wanted, abandoned, refused>>

repository == <<source, authors, mode, results>>
counts == <<edits, others, mishaps>>
ghosts == <<wanted, abandoned, refused>>

Documents == [Fields -> Values]
Snapshots == [rev : Nat, doc : Documents]
Ids == 1..MaxPatches
Channels == {"save", "resolve"}
Nothing == [kind |-> "none", snapshot |-> None]
Result(kind, snapshot) == [kind |-> kind, snapshot |-> snapshot]
NoCall == [step |-> "idle", id |-> 0, newer |-> FALSE, answer |-> Nothing]
NoDialog == [on |-> FALSE, current |-> None, patch |-> 0]
NotApplying == [id |-> 0, touched |-> FALSE, waits |-> FALSE, answer |-> Nothing]
Failing == {"Changes conflict", "Outcome unknown", "Save failed"}
NotWanted == [f \in Fields |-> None]
Patch(base, sent, supersedes) == [base |-> base, sent |-> sent, supersedes |-> supersedes]

(* operationsBetween names the fields that differ, applyLocal sets them.   *)
operationsBetween(base, candidate) == {f \in Fields : base[f] # candidate[f]}
applyLocal(doc, from, fields) == [f \in Fields |-> IF f \in fields THEN from[f] ELSE doc[f]]

Fresh(snapshot) == [committed |-> snapshot, deployment |-> snapshot.doc, state |-> "Saved",
                    proposalId |-> 0, dirty |-> FALSE]

Init ==
  /\ source = [rev |-> 1, doc |-> [f \in Fields |-> CHOOSE v \in Values : TRUE]]
  /\ authors = <<"other">>
  /\ mode \in {"autonomous", "review-each-change"}
  /\ results = [i \in Ids |-> Nothing]
  /\ wire = [i \in Ids |-> 0]
  /\ patches = <<>>
  /\ view = Fresh(source)
  /\ timer = FALSE
  /\ uncertain = None
  /\ calls = [c \in Channels |-> NoCall]
  /\ applying = NotApplying
  /\ dialog = NoDialog
  /\ edits = 0 /\ others = 0 /\ mishaps = 0
  /\ wanted = NotWanted
  /\ abandoned = FALSE
  /\ refused = FALSE

-----------------------------------------------------------------------------
(* The server.                                                             *)

Superseded(id) == \E q \in 1..Len(patches) : results[q].kind # "none" /\ patches[q].supersedes = id
NextRevision(doc) == [rev |-> source.rev + 1, doc |-> doc]

(* A mutation that is committed is answered again; one whose base is no    *)
(* longer the source conflicts; a grant that reviews each change stores a  *)
(* proposal, with the lineage checked against its base.                    *)
Verdict(id) ==
  LET p == patches[id]
  IN  CASE results[id].kind = "committed" -> results[id]
        [] results[id].kind # "committed" /\ p.base.rev # source.rev -> Result("conflict", None)
        [] results[id].kind = "proposal" /\ p.base.rev = source.rev -> results[id]
        [] results[id].kind = "none" /\ p.base.rev = source.rev ->
             IF p.supersedes # 0 /\ patches[p.supersedes].base.rev # p.base.rev
             THEN Result("refused", None)
             ELSE IF mode = "review-each-change" THEN Result("proposal", None)
             ELSE Result("committed", NextRevision(p.sent))

Executed(id, by) ==
  LET r == Verdict(id)
  IN  /\ results' = [results EXCEPT ![id] = IF r.kind \in {"committed", "proposal"} THEN r ELSE @]
      /\ IF r.kind = "committed" /\ results[id].kind # "committed"
         THEN source' = r.snapshot /\ authors' = Append(authors, by)
         ELSE UNCHANGED <<source, authors>>
      /\ UNCHANGED mode

Awaits(c, id) == calls[c].id = id /\ calls[c].step \in {"asked", "replayed"} /\ calls[c].answer = Nothing
Awaited(id) == \E c \in Channels : Awaits(c, id)

(* The request of a call reaches the server, and its answer the browser.   *)
Serve(c) ==
  /\ \E id \in Ids : Awaits(c, id)
  /\ LET id == calls[c].id
     IN  /\ Executed(id, c)
         /\ wire' = [wire EXCEPT ![id] = @ - 1]
         /\ calls' = [calls EXCEPT ![c].answer = Verdict(id)]
  /\ UNCHANGED <<patches, view, timer, uncertain, applying, dialog, counts, ghosts>>

(* A request that the browser no longer waits for reaches the server.      *)
ServeLate(id) ==
  /\ wire[id] > IF Awaited(id) THEN 1 ELSE 0
  /\ Executed(id, "save")
  /\ wire' = [wire EXCEPT ![id] = @ - 1]
  /\ UNCHANGED <<patches, view, timer, uncertain, calls, applying, dialog, counts, ghosts>>

(* The grant is gone or the lock is busy: the request is refused before    *)
(* its receipt is looked at.                                               *)
Refuse(c, how) ==
  /\ \E id \in Ids : Awaits(c, id)
  /\ mishaps < MaxMishaps
  /\ mishaps' = mishaps + 1
  /\ wire' = [wire EXCEPT ![calls[c].id] = @ - 1]
  /\ calls' = [calls EXCEPT ![c].answer = Result(how, None)]
  /\ refused' = TRUE
  /\ UNCHANGED <<repository, patches, view, timer, uncertain, applying, dialog, edits, others,
                 wanted, abandoned>>

(* Another process commits.                                                *)
CommitOther(f, v) ==
  /\ others < MaxOthers
  /\ source.doc[f] # v
  /\ others' = others + 1
  /\ source' = NextRevision([source.doc EXCEPT ![f] = v])
  /\ authors' = Append(authors, "other")
  /\ UNCHANGED <<mode, results, wire, patches, view, timer, uncertain, calls, applying, dialog,
                 edits, mishaps, ghosts>>

-----------------------------------------------------------------------------
(* api.commit: the request, its receipt when the answer is lost, and one   *)
(* replay when there is none.                                              *)

Lose(c) ==
  /\ calls[c].step = "asked" \/ (calls[c].step = "replayed" /\ calls[c].answer.kind # "unknown")
  /\ mishaps < MaxMishaps
  /\ mishaps' = mishaps + 1
  /\ calls' = [calls EXCEPT ![c].step = IF @ = "asked" THEN "receipt" ELSE "answered",
                            ![c].answer = IF calls[c].step = "asked" THEN Nothing
                                          ELSE Result("unknown", None)]
  /\ UNCHANGED <<repository, wire, patches, view, timer, uncertain, applying, dialog, edits, others, ghosts>>

LookUp(c) ==
  /\ calls[c].step = "receipt"
  /\ LET id == calls[c].id
     IN  IF results[id] = Nothing
         THEN /\ wire[id] < 3
              /\ wire' = [wire EXCEPT ![id] = @ + 1]
              /\ calls' = [calls EXCEPT ![c].step = "replayed"]
         ELSE /\ calls' = [calls EXCEPT ![c].step = "answered", ![c].answer = results[id]]
              /\ UNCHANGED wire
  /\ UNCHANGED <<repository, patches, view, timer, uncertain, applying, dialog, counts, ghosts>>

(* The receipt is pending, or cannot be read, or what it names cannot.     *)
Unreadable(c) ==
  /\ calls[c].step = "receipt"
  /\ calls' = [calls EXCEPT ![c].step = "answered", ![c].answer = Result("unknown", None)]
  /\ UNCHANGED <<repository, wire, patches, view, timer, uncertain, applying, dialog, counts, ghosts>>

(* What the caller is told: a refusal of the replay leaves it unknown.     *)
Told(c) ==
  IF calls[c].step = "replayed" /\ calls[c].answer.kind \in {"refused", "busy"}
  THEN Result("unknown", None) ELSE calls[c].answer
Answered(c) == calls[c].answer # Nothing

-----------------------------------------------------------------------------
(* DraftController.                                                        *)

Armed == [calls EXCEPT !["save"].newer = TRUE]
Older == IF uncertain = None THEN None ELSE [uncertain EXCEPT !.newer = TRUE]

edit(f, v) ==
  /\ edits < MaxEdits
  /\ ~dialog.on
  /\ view.deployment[f] # v
  /\ edits' = edits + 1
  /\ view' = [view EXCEPT !.deployment[f] = v, !.state = "Editing", !.dirty = TRUE]
  /\ timer' = TRUE
  /\ calls' = IF calls["save"].step = "idle" THEN calls ELSE Armed
  /\ uncertain' = Older
  /\ applying' = [applying EXCEPT !.touched = TRUE]
  /\ wanted' = [wanted EXCEPT ![f] = v]
  /\ UNCHANGED <<repository, wire, patches, dialog, others, mishaps, abandoned, refused>>

(* From view v #save ends, or sends the patch u whose outcome is unknown   *)
(* again, or a new one for all that is in the draft.                       *)
Sends(v, u) ==
  LET sent == IF u # None THEN patches[u.id].sent ELSE v.deployment
      id == IF u # None THEN u.id ELSE Len(patches) + 1
      done == ~v.dirty \/ operationsBetween(v.committed.doc, sent) = {}
  IN  /\ uncertain' = IF done THEN u ELSE None
      /\ \/ /\ done
            /\ view' = IF v.dirty THEN [v EXCEPT !.dirty = FALSE, !.state = "Saved"] ELSE v
            /\ calls' = [calls EXCEPT !["save"] = NoCall]
            /\ UNCHANGED <<wire, patches>>
         \/ /\ ~done
            /\ id <= MaxPatches
            /\ view' = [v EXCEPT !.state = "Saving"]
            /\ patches' = IF u # None THEN patches ELSE Append(patches, Patch(v.committed, sent, v.proposalId))
            /\ calls' = [calls EXCEPT !["save"] = [NoCall EXCEPT !.step = "asked", !.id = id,
                                                         !.newer = u # None /\ u.newer]]
            /\ wire' = [wire EXCEPT ![id] = @ + 1]

(* Mutant: a save sends once, and leaves what came later to another flush. *)
LoopsOnce(v, u) ==
  IF calls["save"].step = "idle" THEN Sends(v, u)
  ELSE /\ view' = v
       /\ calls' = [calls EXCEPT !["save"] = NoCall]
       /\ UNCHANGED <<uncertain, wire, patches>>

(* Its loop goes on while the view is dirty.                               *)
Loops(v, u) == Sends(v, u)

(* flush joins the save that is under way.  The timer may fire again.      *)
flush ==
  /\ applying.id = 0
  /\ timer' = FALSE
  /\ IF calls["save"].step = "idle"
     THEN (view.dirty \/ timer) /\ Loops(view, uncertain)
     ELSE timer /\ UNCHANGED <<view, calls, wire, patches, uncertain>>
  /\ UNCHANGED <<repository, applying, dialog, counts, ghosts>>

(* A flush waits while a proposal is applied.                              *)
flushWaits ==
  /\ applying.id # 0
  /\ timer \/ (view.dirty /\ ~applying.waits)
  /\ timer' = FALSE
  /\ applying' = [applying EXCEPT !.waits = TRUE]
  /\ UNCHANGED <<repository, wire, patches, view, uncertain, calls, dialog, counts, ghosts>>

(* The save is answered: what was entered after it was sent stays, on top  *)
(* of the snapshot that came back, and is saved next.                      *)
(* Mutant: the snapshot replaces what was entered meanwhile.               *)
RebasedOver(snapshot, sent, now) == snapshot.doc
Rebased(snapshot, sent, now) == applyLocal(snapshot.doc, now, operationsBetween(sent, now))

Merged(snapshot, sent) ==
  LET left == operationsBetween(sent, view.deployment)
  IN  [committed |-> snapshot, deployment |-> Rebased(snapshot, sent, view.deployment),
       proposalId |-> 0, state |-> IF left = {} THEN "Saved" ELSE "Editing", dirty |-> left # {}]

(* Mutant: a stored proposal leaves nothing to save.                       *)
ProposedAll(id, newer) == [view EXCEPT !.proposalId = id, !.state = "Proposed", !.dirty = FALSE]
Proposed(id, newer) == [view EXCEPT !.proposalId = id, !.state = "Proposed", !.dirty = newer]

(* Mutant: an unknown outcome is retried as a new mutation.                *)
KeptNone(id, newer) == None
Kept(id, newer) == [id |-> id, newer |-> newer]

(* Mutant: a save that failed leaves nothing to save.                      *)
FailedClean(state) == [view EXCEPT !.state = state, !.dirty = FALSE]
Failed(state) == [view EXCEPT !.state = state]

Fails(state, kept) ==
  /\ view' = Failed(state)
  /\ calls' = [calls EXCEPT !["save"] = NoCall]
  /\ uncertain' = kept
  /\ UNCHANGED <<wire, patches>>

SaveEnds ==
  LET c == calls["save"]
      r == Told("save")
  IN  /\ Answered("save")
      /\ \/ /\ r.kind = "committed"
            /\ Loops(Merged(r.snapshot, patches[c.id].sent), None)
            /\ wanted' = [f \in Fields |-> IF r.snapshot.doc[f] = wanted[f] THEN None ELSE wanted[f]]
         \/ /\ r.kind = "proposal"
            /\ Loops(Proposed(c.id, c.newer), None)
         \/ /\ r.kind \in {"conflict", "busy"}
            /\ Fails("Changes conflict", None)
         \/ /\ r.kind = "refused"
            /\ Fails("Save failed", None)
         \/ /\ r.kind = "unknown"
            /\ Fails("Outcome unknown", Kept(c.id, c.newer))
      /\ applying' = [applying EXCEPT !.touched = TRUE]
      /\ (r.kind = "committed" \/ UNCHANGED wanted)
      /\ UNCHANGED <<repository, timer, dialog, counts, abandoned, refused>>

(* replace takes a snapshot for the whole draft.                           *)
GivesUp == uncertain # None \/ view.proposalId # 0 \/ calls["save"].step # "idle"
replace(snapshot) ==
  /\ view' = Fresh(snapshot)
  /\ timer' = FALSE
  /\ uncertain' = None

(* The user discards the buffer after a flush has failed; the flush she    *)
(* asked for again may still be under way.                                 *)
discard ==
  /\ view.state \in Failing \cup {"Saving"}
  /\ view.deployment # view.committed.doc
  /\ replace(view.committed)
  /\ applying' = [applying EXCEPT !.touched = TRUE]
  /\ wanted' = NotWanted
  /\ abandoned' = (abandoned \/ GivesUp)
  /\ UNCHANGED <<repository, wire, patches, calls, dialog, counts, refused>>

(* Workspace.refresh, of a draft that has nothing of its own.              *)
canRefreshSource == ~view.dirty /\ view.state = "Saved" /\ view.proposalId = 0

(* The last answer of the poll for the source the view shows: another one. *)
(* An answer for an earlier source is dropped; the time between two polls  *)
(* is a step not taken yet.                                                *)
Noticed == source.rev # view.committed.rev

(* Recheck source: the notice calls Workspace.refresh.                     *)
refresh ==
  /\ canRefreshSource
  /\ ~dialog.on
  /\ Noticed
  /\ replace(source)
  /\ applying' = [applying EXCEPT !.touched = TRUE]
  /\ wanted' = NotWanted
  /\ UNCHANGED <<repository, wire, patches, calls, dialog, counts, abandoned, refused>>

(* Continue editing a proposal, on a screen that a flush has led to.       *)
loadProposal(id) ==
  /\ results[id].kind = "proposal"
  /\ ~Superseded(id)
  /\ patches[id].base.rev = view.committed.rev
  /\ ~view.dirty /\ calls["save"].step = "idle" /\ ~dialog.on
  /\ id # view.proposalId
  /\ view' = [view EXCEPT !.deployment = patches[id].sent, !.proposalId = id, !.state = "Proposed"]
  /\ timer' = FALSE
  /\ applying' = [applying EXCEPT !.touched = TRUE]
  /\ wanted' = NotWanted
  /\ abandoned' = (abandoned \/ view.proposalId # 0)
  /\ UNCHANGED <<repository, wire, patches, uncertain, calls, dialog, counts, refused>>

(* applyProposal adopts exactly the stored proposal.                       *)
applyProposal(id) ==
  /\ applying.id = 0 /\ calls["save"].step = "idle" /\ ~dialog.on
  /\ results[id].kind = "proposal"
  /\ ~view.dirty /\ view.state \in {"Saved", "Proposed"}
  /\ view.proposalId \in {0, id}
  /\ patches[id].base.rev = view.committed.rev
  /\ applying' = [NotApplying EXCEPT !.id = id]
  /\ wanted' = NotWanted
  /\ UNCHANGED <<repository, wire, patches, view, timer, uncertain, calls, dialog, counts, abandoned, refused>>

(* The server applies it: again, or unless it is superseded or too old.    *)
ServeProposal ==
  LET p == patches[applying.id]
      old == results[applying.id]
      fits == p.base.rev = source.rev /\ ~Superseded(applying.id)
  IN  /\ applying.id # 0 /\ applying.answer = Nothing
      /\ \/ /\ old.kind = "committed"
            /\ applying' = [applying EXCEPT !.answer = old]
            /\ UNCHANGED <<results, source, authors>>
         \/ /\ old.kind = "proposal" /\ fits
            /\ source' = NextRevision(p.sent)
            /\ authors' = Append(authors, "proposal")
            /\ results' = [results EXCEPT ![applying.id] = Result("committed", NextRevision(p.sent))]
            /\ applying' = [applying EXCEPT !.answer = Result("committed", NextRevision(p.sent))]
         \/ /\ old.kind = "proposal" /\ ~fits
            /\ applying' = [applying EXCEPT !.answer = Result("conflict", None)]
            /\ UNCHANGED <<results, source, authors>>
  /\ UNCHANGED <<mode, wire, patches, view, timer, uncertain, calls, dialog, counts, ghosts>>

LoseProposal ==
  /\ applying.id # 0 /\ applying.answer.kind \in {"none", "committed"}
  /\ mishaps < MaxMishaps
  /\ mishaps' = mishaps + 1
  /\ applying' = [applying EXCEPT !.answer = Result("unknown", None)]
  /\ UNCHANGED <<repository, wire, patches, view, timer, uncertain, calls, dialog, edits, others, ghosts>>

Adopts == ~applying.touched

ProposalApplied ==
  /\ applying.answer.kind = "committed"
  /\ IF Adopts
     THEN replace(applying.answer.snapshot)
     ELSE /\ view' = [view EXCEPT !.state = "Changes conflict"]
          /\ timer' = FALSE
          /\ UNCHANGED uncertain
  /\ applying' = NotApplying
  /\ UNCHANGED <<repository, wire, patches, calls, dialog, counts, ghosts>>

ProposalNotApplied ==
  /\ applying.answer.kind \in {"conflict", "unknown"}
  /\ applying' = NotApplying
  /\ UNCHANGED <<repository, wire, patches, view, timer, uncertain, calls, dialog, counts, ghosts>>

-----------------------------------------------------------------------------
(* ConflictDialog.                                                         *)

Compare ==
  /\ ~dialog.on
  /\ view.state \in Failing \/ (Noticed /\ ~canRefreshSource)
  /\ dialog' = [NoDialog EXCEPT !.on = TRUE, !.current = source]
  /\ UNCHANGED <<repository, wire, patches, view, timer, uncertain, calls, applying, counts, ghosts>>

(* Fields that the user and the source both changed, differently.          *)
Conflicting(current) ==
  {f \in operationsBetween(view.committed.doc, view.deployment) :
     /\ current.doc[f] # view.committed.doc[f]
     /\ current.doc[f] # view.deployment[f]}

(* The candidate takes the user's fields, but for those she gives up.      *)
Check(givenUp) ==
  LET mine == operationsBetween(view.committed.doc, view.deployment) \ givenUp
      candidate == applyLocal(dialog.current.doc, view.deployment, mine)
  IN  /\ dialog.on /\ dialog.patch = 0
      /\ givenUp \subseteq Conflicting(dialog.current)
      /\ candidate # dialog.current.doc
      /\ Len(patches) < MaxPatches
      /\ patches' = Append(patches, Patch(dialog.current, candidate, 0))
      /\ dialog' = [dialog EXCEPT !.patch = Len(patches) + 1]
      /\ wanted' = [f \in Fields |-> IF f \in mine THEN wanted[f] ELSE None]
  /\ UNCHANGED <<repository, wire, view, timer, uncertain, calls, applying, counts, abandoned, refused>>

(* Apply the checked patch, again when its outcome is unknown.             *)
Resolve ==
  /\ dialog.patch # 0 /\ calls["resolve"].step = "idle"
  /\ wire[dialog.patch] < 2
  /\ calls' = [calls EXCEPT !["resolve"] = [NoCall EXCEPT !.step = "asked", !.id = dialog.patch]]
  /\ wire' = [wire EXCEPT ![dialog.patch] = @ + 1]
  /\ abandoned' = (abandoned \/ GivesUp)
  /\ UNCHANGED <<repository, patches, view, timer, uncertain, applying, dialog, counts, wanted, refused>>

(* Its answer replaces the draft, wherever the dialog is by then.          *)
ResolveEnds ==
  LET r == Told("resolve")
      id == calls["resolve"].id
      p == patches[id]
  IN  /\ Answered("resolve")
      /\ calls' = [calls EXCEPT !["resolve"] = NoCall]
      /\ \/ /\ r.kind = "committed"
            /\ replace(r.snapshot)
         \/ /\ r.kind = "proposal"
            /\ view' = [Fresh(p.base) EXCEPT !.deployment = p.sent, !.proposalId = id, !.state = "Proposed"]
            /\ timer' = FALSE /\ uncertain' = None
      /\ dialog' = NoDialog
      /\ applying' = [applying EXCEPT !.touched = TRUE]
      /\ abandoned' = (abandoned \/ GivesUp)
  /\ UNCHANGED <<repository, wire, patches, counts, wanted, refused>>

ResolveFails ==
  /\ Answered("resolve") /\ Told("resolve").kind \notin {"committed", "proposal"}
  /\ calls' = [calls EXCEPT !["resolve"] = NoCall]
  /\ UNCHANGED <<repository, wire, patches, view, timer, uncertain, applying, dialog, counts, ghosts>>

CloseDialog ==
  /\ dialog.on
  /\ calls["resolve"].step = "idle" \/ ClosesBusyDialog
  /\ dialog' = NoDialog
  /\ abandoned' = (abandoned \/ dialog.patch # 0)
  /\ UNCHANGED <<repository, wire, patches, view, timer, uncertain, calls, applying, counts, wanted, refused>>

-----------------------------------------------------------------------------
Next ==
  \/ \E f \in Fields, v \in Values : edit(f, v) \/ CommitOther(f, v)
  \/ \E c \in Channels :
       Serve(c) \/ Lose(c) \/ LookUp(c) \/ Unreadable(c) \/ (\E how \in {"refused", "busy"} : Refuse(c, how))
  \/ \E id \in Ids : ServeLate(id) \/ loadProposal(id) \/ applyProposal(id)
  \/ flush \/ flushWaits \/ SaveEnds \/ discard \/ refresh
  \/ ServeProposal \/ LoseProposal \/ ProposalApplied \/ ProposalNotApplied
  \/ Compare \/ (\E given \in SUBSET Fields : Check(given)) \/ Resolve \/ ResolveEnds \/ ResolveFails
  \/ CloseDialog

(* A timer fires, a call is answered or lost, and an answer is handled.    *)
Fairness ==
  /\ WF_dvars(timer /\ flush)
  /\ \A c \in Channels : WF_dvars(Serve(c)) /\ WF_dvars(LookUp(c))
  /\ WF_dvars(SaveEnds)

Spec == Init /\ [][Next]_dvars /\ Fairness

-----------------------------------------------------------------------------
(* Every variable has its type, and an unknown outcome is still to save.   *)
TypeOK ==
  /\ source \in Snapshots /\ Len(authors) = source.rev
  /\ mode \in {"autonomous", "review-each-change"}
  /\ DOMAIN results = Ids /\ wire \in [Ids -> Nat]
  /\ \A p \in Range(patches) : p.base \in Snapshots /\ p.sent \in Documents /\ p.supersedes \in 0..MaxPatches
  /\ view.committed \in Snapshots /\ view.deployment \in Documents /\ view.dirty \in BOOLEAN
  /\ view.state \in Failing \cup {"Editing", "Saving", "Saved", "Proposed"}
  /\ timer \in BOOLEAN
  /\ uncertain # None => calls["save"].step = "idle" /\ (view.dirty \/ abandoned)
  /\ \A c \in Channels : Awaits(c, calls[c].id) => wire[calls[c].id] > 0

(* What the user entered last and has not given up stays in the draft,     *)
(* whatever is committed, proposed, refused or lost meanwhile.             *)
NothingLost == \A f \in Fields : wanted[f] # None => view.deployment[f] = wanted[f]

(* A draft that says it is saved holds what is committed, and one that     *)
(* says it is proposed holds the proposal that the server has stored.      *)
Truthful ==
  /\ view.state = "Saved" /\ ~view.dirty /\ ~abandoned => view.deployment = view.committed.doc
  /\ view.state = "Proposed" /\ ~view.dirty /\ ~abandoned =>
       /\ results[view.proposalId].kind # "none"
       /\ patches[view.proposalId].sent = view.deployment

(* A conflict is never with the user's own save: somebody else changed the *)
(* source, although answers are lost and requests come late.               *)
NoSelfConflict ==
  view.state = "Changes conflict" /\ ~abandoned /\ ~refused =>
    \E r \in view.committed.rev + 1..source.rev : authors[r] # "save"

(* The proposals of one draft form a line: only its last one is pending.   *)
OneProposal ==
  ~abandoned /\ ~refused =>
    Cardinality({id \in 1..Len(patches) : /\ results[id].kind = "proposal" /\ ~Superseded(id)
                               /\ patches[id].base.rev = source.rev}) <= 1

(* A lost answer costs the user nothing: no conflict with herself and no   *)
(* second proposal of what she has proposed.                               *)
LossIsHarmless == NoSelfConflict /\ OneProposal

(* The server keeps the ledger that Transactions implements: a mutation is *)
(* applied once, under a revision of its own, however often, in whatever   *)
(* order and however late its requests arrive.                             *)
outcome == [id \in Ids |-> IF results[id].kind = "committed" THEN results[id].snapshot ELSE None]
Mutation == INSTANCE Ledger WITH current <- source, Mutations <- Ids, Versions <- Snapshots,
                                 NoVersion <- None, Open <- None, Retired <- Nothing
ImplementsLedger == Mutation!Spec

(* An edit is saved or the user is told why not, unless a proposal was     *)
(* being applied when its timer fired: a flush that waited then gives up.  *)
EditsSettle ==
  timer ~> (~view.dirty \/ view.state \in Failing \/ applying.id # 0 \/ Len(patches) = MaxPatches)
=============================================================================

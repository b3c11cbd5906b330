------------------------------- MODULE Wizard -------------------------------
(***************************************************************************)
(* The terminal wizard (apps/cli/src/wizard): one person answers prompts,  *)
(* and what they enter lives in a draft in memory until it is saved with   *)
(* one mutation, as a commit or as a stored proposal.  The wizard itself   *)
(* is sequential.  Around it other processes commit, an I/O error may hide *)
(* that a save took effect, and the input may end at any prompt.           *)
(*                                                                         *)
(* A content is the set of edits it holds.  What a save does to the source *)
(* is what ProjectSession.commit answers for its mutation ID.              *)
(***************************************************************************)
EXTENDS Naturals, FiniteSets

CONSTANTS
  Entries,     \* what the person may enter
  Foreign,     \* what other processes may commit
  None,
  MaxIds,      \* bound on the mutations of the wizard
  MaxMishaps   \* bound on the lost answers

(* What the constants are taken to be.                                     *)
WizardAssumption == /\ Entries \cap Foreign = {} /\ None \notin Entries \cup Foreign
                    /\ None \notin [rev : Nat, content : SUBSET (Entries \cup Foreign)]
                    /\ MaxIds \in Nat /\ MaxMishaps \in Nat

VARIABLES
  source,    \* deployment.yaml: its revision and its content
  store,     \* the proposals: content, base, and what became of them
  applied,   \* the mutations that were committed, with what they made
  mode,      \* the authorization of this run
  draft,     \* WizardDraft: base, value, persisted, proposal
  intent,    \* the mutation of the last save, and what it was made for
  tools,     \* toolProposals
  drawn,     \* the mutation IDs drawn so far
  saved,     \* the counter of the final report
  told,      \* what the person was told last
  report,    \* the final report, once the wizard has ended
  mishaps,
  kept       \* history: what was entered and never given up explicitly

wvars == <<source, store, applied, mode, draft, intent, tools, drawn, saved, told, report,
           mishaps, kept>>

Contents == SUBSET (Entries \cup Foreign)
Source   == [rev : Nat, content : Contents]
Draft    == [base : Source, value : Contents, persisted : Contents, proposal : Nat]
Ids      == 1..MaxIds

Running == report = None

dirty == draft.value # draft.persisted

(* WizardDraft.adopt.                                                      *)
Adopted(s) == [base |-> s, value |-> s.content, persisted |-> s.content, proposal |-> 0]

(* The key of an intent: the draft, and the actor and purpose, of which    *)
(* only that they were entered anew matters.                               *)
Fresh == intent = None \/ intent.value # draft.value

(* intent(): the same draft, actor and purpose are saved under the same ID.*)
intentId == IF Fresh THEN drawn + 1 ELSE intent.id

-----------------------------------------------------------------------------
(* ProjectSession, as the wizard meets it                                  *)

(* What a save of the draft under id comes to: the mutation is known, the  *)
(* source is another one, the proposal is known or stored, or it commits.  *)
Verdict(id) ==
  CASE id \in DOMAIN applied                                   -> "alreadyApplied"
    [] id \notin DOMAIN applied /\ source.rev # draft.base.rev -> "conflict"
    [] id \notin DOMAIN applied /\ source.rev = draft.base.rev ->
         IF mode = "review-each-change" THEN "proposal" ELSE "committed"

Commit(id, content) ==
  LET next == [rev |-> source.rev + 1, content |-> content] IN
  /\ source' = next
  /\ applied' = [i \in DOMAIN applied \cup {id} |-> IF i = id THEN next ELSE applied[i]]

Propose(id) ==
  store' = [i \in DOMAIN store \cup {id} |->
              IF i = id THEN [content |-> draft.value, base |-> draft.base.rev,
                              supersedes |-> draft.proposal, open |-> TRUE]
              ELSE store[i]]

(* A proposal that no later one supersedes and that was not applied.       *)
Pending(i) == /\ i \in DOMAIN store /\ store[i].open
              /\ \A j \in DOMAIN store : store[j].supersedes # i

(* A commit of another process.                                            *)
Other(e) ==
  /\ Running /\ e \notin source.content
  /\ source' = [rev |-> source.rev + 1, content |-> source.content \cup {e}]
  /\ UNCHANGED <<store, applied, mode, draft, intent, tools, drawn, saved, told, report,
                 mishaps, kept>>

-----------------------------------------------------------------------------
(* The draft                                                               *)

(* editRecord, editCollection and editQuestions change the working value.  *)
Enter(e) ==
  /\ Running /\ e \notin draft.value
  /\ draft' = [draft EXCEPT !.value = @ \cup {e}]
  /\ kept' = kept \cup {e} /\ told' = None
  /\ UNCHANGED <<source, store, applied, mode, intent, tools, drawn, saved, report, mishaps>>

(* saveDraft before apply(): a mutation for exactly this draft.  A draft   *)
(* that violates the schema or a scope that is not granted end it here.    *)
Intends(id) ==
  /\ Running /\ dirty /\ id = intentId /\ id \in Ids
  /\ drawn' = IF id > drawn THEN id ELSE drawn

(* Mutant: a conflict reloads the draft from what the source says now.     *)
ConflictedReloads(id) ==
  /\ Verdict(id) = "conflict"
  /\ draft' = Adopted(source) /\ intent' = [id |-> id, value |-> draft.value]
  /\ told' = "conflict" /\ UNCHANGED <<source, store, applied, saved>>

(* A conflict, or a refusal: the pending draft is retained.                *)
Conflicted(id) ==
  /\ Verdict(id) = "conflict"
  /\ intent' = [id |-> id, value |-> draft.value] /\ told' = "conflict"
  /\ UNCHANGED <<source, store, applied, draft, saved>>

(* A proposal is stored, which is no commit: markProposed.                 *)
Proposed(id) ==
  /\ Verdict(id) = "proposal" /\ Propose(id)
  /\ draft' = [draft EXCEPT !.proposal = id, !.persisted = draft.value]
  /\ intent' = [id |-> id, value |-> draft.value] /\ told' = "proposal"
  /\ UNCHANGED <<source, applied, saved>>

Committed(id) ==
  /\ Verdict(id) = "committed" /\ Commit(id, draft.value)
  /\ draft' = Adopted(source') /\ intent' = None /\ saved' = saved + 1
  /\ told' = "committed" /\ UNCHANGED store

(* The retry of a save that had taken effect: the answer carries what that *)
(* mutation made, whatever was committed since.                            *)
Repeated(id) ==
  /\ Verdict(id) = "alreadyApplied"
  /\ draft' = Adopted(applied[id]) /\ intent' = None /\ saved' = saved + 1
  /\ told' = "committed" /\ UNCHANGED <<source, store, applied>>

saveDraft(id) ==
  /\ Intends(id)
  /\ Conflicted(id) \/ Proposed(id) \/ Committed(id) \/ Repeated(id)
  /\ UNCHANGED <<mode, tools, report, mishaps, kept>>

(* apply() throws: nothing happened, or the rename was done before a write *)
(* of the history failed, or the proposal was stored.                      *)
SaveFails(id, effective) ==
  /\ Intends(id) /\ mishaps < MaxMishaps /\ mishaps' = mishaps + 1
  /\ intent' = [id |-> id, value |-> draft.value] /\ told' = "failed"
  /\ IF effective
       THEN \/ Verdict(id) = "committed" /\ Commit(id, draft.value) /\ UNCHANGED store
            \/ Verdict(id) = "proposal" /\ Propose(id) /\ UNCHANGED <<source, applied>>
       ELSE UNCHANGED <<source, store, applied>>
  /\ UNCHANGED <<mode, draft, tools, saved, report, kept>>

(* Explicit reload, from the tools or to clean the draft for one of them.  *)
Reload ==
  /\ Running
  /\ draft' = Adopted(source) /\ intent' = None /\ tools' = {} /\ told' = "reloaded"
  /\ kept' = kept \ (draft.value \ draft.persisted)
  /\ UNCHANGED <<source, store, applied, mode, drawn, saved, report, mishaps>>

(* Edit mutation recorder and purpose: the next save is another mutation.  *)
EditActor ==
  /\ Running /\ intent # None
  /\ intent' = None /\ told' = None
  /\ UNCHANGED <<source, store, applied, mode, draft, tools, drawn, saved, report, mishaps, kept>>

-----------------------------------------------------------------------------
(* The tools                                                               *)

(* cleanDraft: review and evidence start from committed source.            *)
Clean == ~dirty /\ draft.proposal = 0 /\ tools = {}

(* suppliedReview and copyEvidence, which take a fresh snapshot: the       *)
(* review or evidence e is committed, or stored and remembered.            *)
RunTool(e) ==
  LET id == drawn + 1 IN
  /\ Running /\ Clean /\ id \in Ids /\ e \notin source.content
  /\ drawn' = id /\ kept' = kept \cup {e} /\ told' = None
  /\ IF mode = "review-each-change"
       THEN /\ store' = [i \in DOMAIN store \cup {id} |->
                           IF i = id THEN [content |-> source.content \cup {e}, base |-> source.rev,
                                           supersedes |-> 0, open |-> TRUE]
                           ELSE store[i]]
            /\ tools' = tools \cup {id}
            /\ UNCHANGED <<source, applied, draft, intent, saved>>
       ELSE /\ Commit(id, source.content \cup {e})
            /\ draft' = Adopted(source') /\ intent' = None /\ saved' = saved + 1
            /\ UNCHANGED <<store, tools>>
  /\ UNCHANGED <<mode, report, mishaps>>

(* applyProposal: any pending proposal, whose base still is the source.    *)
applyProposal(i) ==
  /\ Running /\ ~dirty /\ Pending(i) /\ store[i].base = source.rev
  /\ Commit(i, store[i].content)
  /\ store' = [store EXCEPT ![i].open = FALSE]
  /\ draft' = Adopted(source') /\ intent' = None /\ saved' = saved + 1
  /\ tools' = tools \ {i} /\ told' = "committed"
  /\ UNCHANGED <<mode, drawn, report, mishaps, kept>>

-----------------------------------------------------------------------------
(* The end                                                                 *)

Report(status, pending) ==
  report' = [status |-> status, saved |-> saved > 0,
             proposed |-> draft.proposal # 0 \/ tools # {}, pending |-> pending]

(* exit with nothing pending, or after the choice to discard it.           *)
Exit ==
  /\ Running
  /\ draft' = [draft EXCEPT !.value = draft.persisted]
  /\ kept' = kept \ (draft.value \ draft.persisted)
  /\ Report("exited", FALSE)
  /\ UNCHANGED <<source, store, applied, mode, intent, tools, drawn, saved, told, mishaps>>

(* WizardEnd: the input ended, or the person interrupted.                  *)
End ==
  /\ Running /\ Report("cancelled", dirty)
  /\ UNCHANGED <<source, store, applied, mode, draft, intent, tools, drawn, saved, told, mishaps,
                 kept>>

Init ==
  /\ source = [rev |-> 0, content |-> {}] /\ store = <<>> /\ applied = <<>>
  /\ mode \in {"autonomous", "review-each-change"}
  /\ draft = Adopted(source) /\ intent = None /\ tools = {} /\ drawn = 0 /\ saved = 0
  /\ told = None /\ report = None /\ mishaps = 0 /\ kept = {}

Next ==
  \/ \E e \in Foreign : Other(e)
  \/ \E e \in Entries : Enter(e) \/ RunTool(e)
  \/ \E id \in Ids : \/ saveDraft(id)
                     \/ \E effective \in BOOLEAN : SaveFails(id, effective)
                     \/ applyProposal(id)
  \/ Reload \/ EditActor \/ Exit \/ End

Spec == Init /\ [][Next]_wvars
-----------------------------------------------------------------------------
TypeOK ==
  /\ source \in Source /\ draft \in Draft /\ drawn \in 0..MaxIds /\ mishaps \in 0..MaxMishaps
  /\ DOMAIN store \cup DOMAIN applied \subseteq 1..drawn /\ tools \subseteq DOMAIN store
  /\ \A i \in DOMAIN applied : applied[i] \in Source
  /\ draft.proposal \in DOMAIN store \cup {0} /\ kept \subseteq Entries
  /\ intent # None => intent.id \in 1..drawn /\ intent.value \in Contents

(* What a person entered and did not discard or reload away is in the      *)
(* working draft, in the source or in a stored proposal, through conflicts,*)
(* failed saves, tools and the end of input; and the final report does not *)
(* call anything saved that only is in memory.                             *)
Stored == (UNION {applied[i].content : i \in DOMAIN applied})
          \cup (UNION {store[i].content : i \in DOMAIN store})
EnteredIsKept ==
  /\ kept \subseteq draft.value \cup Stored
  /\ report # None /\ ~report.pending => kept \subseteq Stored

(* The saves of the wizard keep the ledger that Transactions implements: a *)
(* save that is repeated, a tool and an applied proposal make one revision *)
(* each, at most.                                                          *)
outcome == [id \in Ids |-> IF id \in DOMAIN applied THEN applied[id] ELSE None]
Mutation == INSTANCE Ledger WITH current <- source, Mutations <- Ids, Versions <- Source,
                                 NoVersion <- None, Open <- None, Retired <- "retired"
ImplementsLedger == Mutation!Spec
-----------------------------------------------------------------------------
(* The inductive invariant behind it: what the source and the clean draft  *)
(* have of the person is stored, and an intent that took effect stored     *)
(* exactly what it was made for.                                           *)
Made(content) == content \cap Entries \subseteq Stored

IntentHolds ==
  intent # None =>
    /\ intent.id \in 1..drawn /\ intent.value \in Contents
    /\ intent.id \in DOMAIN applied => applied[intent.id].content = intent.value
    /\ intent.id \in DOMAIN store => store[intent.id].content = intent.value

StoreTyped ==
  \A i \in DOMAIN store : /\ store[i] \in [content : Contents, base : Nat, supersedes : Nat,
                                           open : BOOLEAN]
                          /\ store[i].open => i \notin DOMAIN applied

WizardInv ==
  /\ TypeOK
  /\ mode \in {"autonomous", "review-each-change"}
  /\ mode = "autonomous" => DOMAIN store = {}
  /\ StoreTyped /\ IntentHolds
  /\ Made(source.content) /\ Made(draft.persisted)
  /\ EnteredIsKept
=============================================================================

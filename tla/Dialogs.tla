------------------------------ MODULE Dialogs ------------------------------
(***************************************************************************)
(* Two dialogs of the web application that record what cannot be taken     *)
(* back: a supplied decision, waiver or revocation (DecisionDialog.tsx)    *)
(* and a file of evidence (AddEvidence.tsx).  Their requests run on the    *)
(* server (review-routes.ts, evidence-routes.ts, ProjectService.mutate)    *)
(* although the answer is lost or the browser no longer waits, the source  *)
(* changes meanwhile, and the user presses again.                          *)
(*                                                                         *)
(* A decision sends a command that is made once and kept while its outcome *)
(* is unknown; an upload has one mutation identity for as long as the      *)
(* dialog is open.  The server commits a mutation once and answers it from *)
(* its receipt after that (module Transactions); api.commit looks for the  *)
(* receipt of a lost answer itself (module Draft), so that a decision is   *)
(* told "unknown" only when that failed too.  References, which are sent   *)
(* once under the identity of the dialog, are not told apart from uploads. *)
(***************************************************************************)
EXTENDS Naturals, Sequences

CONSTANTS
  MaxCommands,   \* bound: mutation identities
  MaxRevisions,  \* bound: revisions of the source
  MaxLosses      \* bound: answers that are lost

DialogsAssumption == /\ {MaxCommands, MaxLosses} \subseteq Nat
                     /\ MaxRevisions \in Nat \ {0}

VARIABLES
  kind,       \* which dialog is open: "decision" or "upload"
  mode,       \* of the grant: autonomous or review-each-change
  revision,   \* of the source
  receipts,   \* per command: "none", "committed" or "proposed"
  wire,       \* commands a request of which may still reach the server
  commands,   \* the base revision that each identity was made for
  snapshot,   \* the revision the page shows
  told,       \* history: commands that the dialog knows to be recorded
  pending,    \* the command that is kept: pending.current, binding
  call,       \* the request the dialog awaits and the answer it got
  upload,     \* its retryAllowed and outcomeKnown
  open,       \* TRUE, or how the dialog was closed
  losses,
  refused     \* history: a request of a command was refused

gvars == <<kind, mode, revision, receipts, wire, commands, snapshot, told, pending, call,
           upload, open, losses, refused>>

server == <<kind, mode, revision, receipts>>
Ids    == 1 .. MaxCommands
NoCall == [step |-> "idle", answer |-> "none"]
IsOpen == open = "open"
Free   == IsOpen /\ call = NoCall

-----------------------------------------------------------------------------
(* The server                                                              *)

(* What has a receipt is answered from it; another base conflicts.         *)
Verdict(id) ==
  CASE receipts[id] # "none" -> receipts[id]
    [] receipts[id] = "none" /\ commands[id] # revision -> "conflict"
    [] receipts[id] = "none" /\ commands[id] = revision ->
         IF mode = "autonomous" THEN "committed" ELSE "proposed"

(* The request is handled, whether the dialog awaits it or not.            *)
Serve(id) ==
  /\ id \in wire /\ wire' = wire \ {id}
  /\ LET is == Verdict(id) IN
       /\ receipts' = [receipts EXCEPT ![id] = IF is = "conflict" THEN @ ELSE is]
       /\ IF is = "committed" /\ receipts[id] # "committed"
            THEN revision < MaxRevisions /\ revision' = revision + 1
            ELSE UNCHANGED revision
       /\ call' = IF call.step = "sent" /\ call.answer = "none" /\ pending = id
                    THEN [call EXCEPT !.answer = is] ELSE call
  /\ UNCHANGED <<kind, mode, commands, snapshot, told, pending, upload, open, losses, refused>>

(* The grant is gone or the lock is busy; a request of an earlier press    *)
(* may still be on its way.                                                *)
Refuse ==
  /\ call = [step |-> "sent", answer |-> "none"] /\ pending \in wire
  /\ call' = [call EXCEPT !.answer = "refused"] /\ refused' = TRUE
  /\ wire' \in {wire \ {pending}} \cup (IF losses > 0 THEN {wire} ELSE {})
  /\ UNCHANGED <<server, commands, snapshot, told, pending, upload, open, losses>>

(* The answer is lost; the request was handled, will be, or never is.      *)
Lose ==
  /\ call.step = "sent" /\ losses < MaxLosses /\ losses' = losses + 1
  /\ call' = [call EXCEPT !.answer = "unknown"]
  /\ wire' \in {wire, wire \ {pending}}
  /\ UNCHANGED <<server, commands, snapshot, told, pending, upload, open, refused>>

(* Another process commits.                                                *)
CommitOther ==
  /\ revision < MaxRevisions /\ revision' = revision + 1
  /\ UNCHANGED <<kind, mode, receipts, wire, commands, snapshot, told, pending, call, upload,
                 open, losses, refused>>

-----------------------------------------------------------------------------
(* The dialogs                                                             *)

(* The command or the upload is kept from the press before, or made now:   *)
(* pending.current ??= command(input); if (!binding) prepare().            *)
Command ==
  IF pending # 0
    THEN UNCHANGED <<pending, commands>>
    ELSE /\ pending' = Len(commands) + 1
         /\ commands' = Append(commands, snapshot)

(* The button of the dialog is disabled while a request runs; for a bound  *)
(* upload it is one of a retry.                                            *)
Pressable == Free /\ (kind = "upload" => upload.retry /\ ~upload.known)

submit ==
  /\ Pressable
  /\ Command /\ pending' <= MaxCommands
  /\ wire' = wire \cup {pending'} /\ call' = [step |-> "sent", answer |-> "none"]
  /\ upload' = [upload EXCEPT !.retry = kind = "decision"]
  /\ UNCHANGED <<server, snapshot, told, open, losses, refused>>

(* The dialog is answered that its command is recorded: onRefresh shows the *)
(* current source and the dialog goes on, or it fails, and all that the     *)
(* dialog shows is that error.                                              *)
Recorded(goesOn) ==
  /\ told' = told \cup {pending}
  /\ \/ snapshot' = revision /\ open' \in goesOn
     \/ UNCHANGED <<snapshot, open>>

(* The answer of a decision: an approval closes the dialog, after an       *)
(* acknowledgment, a waiver or a revocation it stays and can be pressed    *)
(* again.  The command is kept only when its outcome is unknown.           *)
DecisionEnds ==
  /\ kind = "decision" /\ IsOpen /\ call.answer # "none" /\ call' = NoCall
  /\ pending' = IF call.answer = "unknown" THEN pending ELSE 0
  /\ IF call.answer = "committed" THEN Recorded({"recorded", "open"})
                                  ELSE UNCHANGED <<told, snapshot, open>>
  /\ UNCHANGED <<server, wire, commands, upload, losses, refused>>

(* The answer of an upload: nothing but a commit or a proposal is final.   *)
UploadEnds ==
  /\ kind = "upload" /\ IsOpen /\ call.step = "sent" /\ call.answer # "none" /\ call' = NoCall
  /\ upload' = [upload EXCEPT !.known = call.answer = "proposed"]
  /\ IF call.answer = "committed" THEN Recorded({"recorded"})
                                  ELSE UNCHANGED <<told, snapshot, open>>
  /\ UNCHANGED <<server, wire, commands, pending, losses, refused>>

(* checkReceipt: a receipt that does not exist allows a retry; one that is *)
(* pending or indeterminate, or a request that fails, tells nothing.       *)
checkReceipt ==
  /\ kind = "upload" /\ Free /\ pending # 0
  /\ CASE receipts[pending] = "committed" -> Recorded({"recorded"}) /\ UNCHANGED upload
       [] receipts[pending] = "proposed" ->
            upload' = [upload EXCEPT !.known = TRUE] /\ UNCHANGED <<told, snapshot, open>>
       [] receipts[pending] = "none" ->
            /\ upload' \in {upload, [upload EXCEPT !.retry = TRUE]}
            /\ UNCHANGED <<told, snapshot, open>>
  /\ UNCHANGED <<server, wire, commands, pending, call, losses, refused>>

(* The page shows the current source.                                      *)
Refresh ==
  /\ IsOpen /\ snapshot # revision /\ snapshot' = revision
  /\ UNCHANGED <<server, wire, commands, told, pending, call, upload, open, losses, refused>>

(* The user closes the dialog: a bound upload stays until its outcome is   *)
(* known or a retry is allowed.                                            *)
Close ==
  /\ IsOpen /\ ~(kind = "upload" /\ pending # 0 /\ ~upload.retry /\ ~upload.known)
  /\ open' = "left"
  /\ UNCHANGED <<server, wire, commands, snapshot, told, pending, call, upload, losses, refused>>

Init ==
  /\ kind \in {"decision", "upload"} /\ mode \in {"autonomous", "review-each-change"}
  /\ revision = 1 /\ snapshot = 1 /\ receipts = [i \in Ids |-> "none"]
  /\ wire = {} /\ commands = <<>> /\ told = {} /\ pending = 0 /\ call = NoCall
  /\ upload = [retry |-> TRUE, known |-> FALSE] /\ open = "open" /\ losses = 0 /\ refused = FALSE

Next ==
  \/ \E id \in Ids : Serve(id)
  \/ Refuse \/ Lose \/ CommitOther
  \/ submit \/ DecisionEnds \/ UploadEnds \/ checkReceipt \/ Refresh \/ Close

Spec == Init /\ [][Next]_gvars
-----------------------------------------------------------------------------
TypeOK ==
  /\ kind \in {"decision", "upload"} /\ mode \in {"autonomous", "review-each-change"}
  /\ revision \in 1 .. MaxRevisions /\ snapshot \in 1 .. MaxRevisions /\ told \subseteq Ids
  /\ commands \in Seq(Nat) /\ Len(commands) <= MaxCommands
  /\ receipts \in [Ids -> {"none", "committed", "proposed"}] /\ wire \subseteq Ids
  /\ pending \in 0 .. Len(commands)
  /\ call \in [step : {"idle", "sent"},
                answer : {"none", "committed", "proposed", "conflict", "refused", "unknown"}]
  /\ upload \in [retry : BOOLEAN, known : BOOLEAN] /\ refused \in BOOLEAN
  /\ open \in {"open", "recorded", "left"}

Committed == {i \in DOMAIN commands : receipts[i] = "committed"}

(* A decision is recorded a second time only knowingly: whatever is lost   *)
(* or arrives late, and however often the user presses, every command that *)
(* is recorded is still kept by the dialog or the dialog was told of it,   *)
(* and it was told of the first one before another was recorded, unless    *)
(* the server refused a retry of a command whose outcome was unknown.  A   *)
(* file is attached at most once even then.  The dialog is never told of,  *)
(* and never closes for, what is not recorded.                             *)
RecordedKnowingly ==
  /\ kind = "decision" /\ ~refused =>
       /\ \A i \in Committed : i \in told \/ i = pending
       /\ \A i, j \in Committed : i < j => i \in told
  /\ kind = "upload" => \A i, j \in Committed : i = j
  /\ told \subseteq Committed
  /\ open = "recorded" => told # {}
-----------------------------------------------------------------------------
(* The inductive invariant behind it: a command that the dialog no longer  *)
(* keeps is a proposal, is known to be recorded, or never will be          *)
(* recorded, because the source moved past its base.                       *)
Dead(i) == receipts[i] = "none" /\ commands[i] < revision

Settled(i) == receipts[i] = "proposed" \/ i \in told \/ Dead(i)

Receipted ==
  /\ wire \subseteq 1 .. Len(commands) /\ snapshot <= revision
  /\ \A i \in 1 .. Len(commands) : commands[i] <= revision
  /\ \A i \in Ids : i > Len(commands) => receipts[i] = "none"
  /\ \A i \in Ids : receipts[i] = "proposed" => mode = "review-each-change"
  /\ \A i \in Ids : receipts[i] = "committed" => mode = "autonomous"
  /\ \A i \in told : receipts[i] = "committed"
  /\ open = "recorded" => told # {}

Bound ==
  /\ pending # 0 => pending = Len(commands)
  /\ kind = "upload" => Len(commands) <= 1 /\ (pending = 0 => Len(commands) = 0)

Answered ==
  /\ call.answer # "none" => call.step = "sent"
  /\ call.step = "sent" => pending # 0
  /\ call.answer \in {"committed", "proposed"} => receipts[pending] = call.answer
  /\ call.answer = "conflict" => Dead(pending)
  /\ call.answer = "refused" => refused

Known ==
  kind = "decision" /\ ~refused => \A i \in 1 .. Len(commands) : i # pending => Settled(i)

DialogsInv == TypeOK /\ Receipted /\ Bound /\ Answered /\ Known
=============================================================================

---------------------------- MODULE DraftProofs ----------------------------
(* Proofs about Draft, for any fields and values and any number of         *)
(* mutations, edits, commits of others and mishaps.                        *)
EXTENDS Draft, SequenceTheorems, FiniteSetTheorems, TLAPS

(* The types of the records.                                               *)
Kinds == {"none", "committed", "proposal", "conflict", "refused", "busy", "unknown"}
Authors == {"other", "save", "resolve", "proposal"}
Answers == [kind : Kinds, snapshot : Snapshots \cup {None}]
Patches == [base : Snapshots, sent : Documents, supersedes : 0..MaxPatches]
Views == [committed : Snapshots, deployment : Documents,
          state : Failing \cup {"Editing", "Saving", "Saved", "Proposed"},
          proposalId : 0..MaxPatches, dirty : BOOLEAN]
Calls == [step : {"idle", "asked", "receipt", "replayed", "answered"}, id : 0..MaxPatches,
          newer : BOOLEAN, answer : Answers]
Unknowns == [id : Ids, newer : BOOLEAN]
Applications == [id : 0..MaxPatches, touched : BOOLEAN, waits : BOOLEAN, answer : Answers]
DialogStates == [on : BOOLEAN, current : Snapshots \cup {None}, patch : 0..MaxPatches]

Shape ==
  /\ source \in Snapshots
  /\ authors \in Seq(Authors)
  /\ Len(authors) = source.rev
  /\ mode \in {"autonomous", "review-each-change"}
  /\ results \in [Ids -> Answers]
  /\ wire \in [Ids -> Nat]
  /\ patches \in Seq(Patches)
  /\ Len(patches) <= MaxPatches
  /\ view \in Views
  /\ timer \in BOOLEAN
  /\ uncertain = None \/ uncertain \in Unknowns
  /\ calls \in [Channels -> Calls]
  /\ applying \in Applications
  /\ dialog \in DialogStates
  /\ wanted \in [Fields -> Values \cup {None}]
  /\ abandoned \in BOOLEAN

(* Every identity that is in use is one of a patch.                        *)
Named ==
  /\ \A id \in Ids : wire[id] > 0 \/ results[id].kind # "none" => id <= Len(patches)
  /\ \A c \in Channels : calls[c].step # "idle" => calls[c].id \in 1..Len(patches)
  /\ \A c \in Channels : calls[c].step = "idle" => calls[c] = NoCall
  /\ uncertain # None => uncertain.id <= Len(patches)
  /\ dialog.patch <= Len(patches)
  /\ dialog.on => dialog.current \in Snapshots
  /\ view.proposalId <= Len(patches)
  /\ view.state = "Proposed" => view.proposalId # 0
  /\ applying.id <= Len(patches)
  /\ applying.id = 0 => applying.answer = Nothing

(* The saves and the dialog have patches of their own.                     *)
Own(id) == id # dialog.patch /\ id # calls["resolve"].id
Apart ==
  /\ calls["save"].step # "idle" => Own(calls["save"].id)
  /\ uncertain # None => Own(uncertain.id)

(* What a request has an answer for is on its way, or was.                 *)
OnItsWay == \A c \in Channels : Awaits(c, calls[c].id) => wire[calls[c].id] > 0

(* A result for patch p: what is committed is the document that was sent,  *)
(* and what has been answered the server has stored.                       *)
Holds(r, p) ==
  r.kind = "committed" => r.snapshot \in Snapshots /\ r.snapshot.doc = patches[p].sent
Stored(r, p) == r.kind \in {"committed", "proposal"} => results[p].kind # "none"
Answering ==
  /\ \A id \in Ids : results[id].kind \in {"none", "committed", "proposal"} /\ Holds(results[id], id)
  /\ \A c \in Channels : Holds(calls[c].answer, calls[c].id) /\ Stored(calls[c].answer, calls[c].id)
  /\ applying.id # 0 => Holds(applying.answer, applying.id)

(* A save, or one whose outcome is unknown, sent something that is not     *)
(* committed, and all of the draft but for what is newer.                  *)
Sent(id, newer) ==
  ~abandoned => /\ view.dirty
                /\ patches[id].sent # view.committed.doc
                /\ ~newer => patches[id].sent = view.deployment
Saving ==
  /\ calls["save"].step # "idle" =>
       uncertain = None /\ applying.id = 0 /\ Sent(calls["save"].id, calls["save"].newer)
  /\ uncertain # None => Sent(uncertain.id, uncertain.newer)

IInv == Shape /\ Named /\ Apart /\ OnItsWay /\ Answering /\ Saving /\ Truthful

(* While the dialog stays open as long as it resolves, its patch and the   *)
(* proposal that is applied hold what the user wants.                      *)
Resolving ==
  /\ applying.id # 0 /\ ~applying.touched => wanted = NotWanted
  /\ calls["resolve"].step # "idle" => dialog.on /\ dialog.patch = calls["resolve"].id
  /\ dialog.patch # 0 =>
       dialog.on /\ \A f \in Fields : wanted[f] # None => patches[dialog.patch].sent[f] = wanted[f]
KInv == IInv /\ NothingLost /\ Resolving
-----------------------------------------------------------------------------
(* Records                                                                 *)

LEMMA Records ==
  /\ NoCall \in Calls
  /\ NotApplying \in Applications
  /\ NoDialog \in DialogStates
  /\ Nothing \in Answers
  /\ \A k \in Kinds, s \in Snapshots \cup {None} : Result(k, s) \in Answers
<1>1. MaxPatches \in Nat
  BY DraftBounds
<1>2. Nothing \in Answers
  BY DEF Nothing, Answers, Kinds
<1>3. \A k \in Kinds, s \in Snapshots \cup {None} : Result(k, s) \in Answers
  BY DEF Result, Answers
<1>4. NoCall \in Calls
  BY <1>1, <1>2 DEF NoCall, Calls
<1>5. NotApplying \in Applications
  BY <1>1, <1>2 DEF NotApplying, Applications
<1>6. NoDialog \in DialogStates
  BY <1>1 DEF NoDialog, DialogStates
<1> QED
  BY <1>2, <1>3, <1>4, <1>5, <1>6

LEMMA FreshTyped ==
  ASSUME NEW s \in Snapshots
  PROVE  Fresh(s) \in Views
<1>1. s.doc \in Documents
  BY DEF Snapshots
<1>2. MaxPatches \in Nat
  BY DraftBounds
<1> QED
  BY <1>1, <1>2 DEF Fresh, Views

(* A patch with an identity is one of the draft or of its dialog.          *)
LEMMA PatchTyped ==
  ASSUME Shape, NEW id \in 1..Len(patches)
  PROVE  /\ id \in Ids
         /\ patches[id] \in Patches
         /\ patches[id].base \in Snapshots
         /\ patches[id].sent \in Documents
         /\ patches[id].supersedes \in 0..MaxPatches
<1>1. patches \in Seq(Patches) /\ Len(patches) <= MaxPatches
  BY DEF Shape
<1>2. patches[id] \in Patches
  BY <1>1
<1>3. id \in Ids
  BY <1>1, DraftBounds DEF Ids
<1> QED
  BY <1>2, <1>3 DEF Patches

(* The fields that differ, and documents with some fields of another.      *)
LEMMA Differ ==
  ASSUME NEW a \in Documents, NEW b \in Documents
  PROVE  /\ operationsBetween(a, b) \subseteq Fields
         /\ operationsBetween(a, b) = {} <=> a = b
<1>1. operationsBetween(a, b) = {} => a = b
  BY DEF operationsBetween, Documents
<1> QED
  BY <1>1 DEF operationsBetween

LEMMA Applied ==
  ASSUME NEW a \in Documents, NEW b \in Documents, NEW fields
  PROVE  /\ applyLocal(a, b, fields) \in Documents
         /\ fields = {} => applyLocal(a, b, fields) = a
<1>1. applyLocal(a, b, fields) \in Documents
  BY DEF applyLocal, Documents
<1>2. ASSUME fields = {} PROVE applyLocal(a, b, fields) = a
  BY <1>2 DEF applyLocal, Documents
<1> QED
  BY <1>1, <1>2

LEMMA RevisionTyped ==
  ASSUME Shape, NEW doc \in Documents
  PROVE  NextRevision(doc) \in Snapshots /\ NextRevision(doc).doc = doc
         /\ NextRevision(doc).rev = source.rev + 1
<1>1. source.rev \in Nat
  BY DEF Shape, Snapshots
<1> QED
  BY <1>1 DEF NextRevision, Snapshots

(* A call that waits for an answer, and one that is under way.             *)
LEMMA CallTyped ==
  ASSUME Shape, Named, NEW c \in Channels
  PROVE  /\ calls[c] \in Calls
         /\ calls[c].answer \in Answers
         /\ calls[c].answer.kind \in Kinds
         /\ calls[c].answer # Nothing => calls[c].step # "idle"
         /\ calls[c].step # "idle" => calls[c].id \in 1..Len(patches)
         /\ calls[c].step = "idle" => calls[c].id = 0
<1>1. calls[c] \in Calls
  BY DEF Shape
<1>2. calls[c].answer \in Answers /\ calls[c].answer.kind \in Kinds
  BY <1>1 DEF Calls, Answers
<1>3. calls[c].step = "idle" => calls[c].answer = Nothing /\ calls[c].id = 0
  BY DEF Named, NoCall
<1> QED
  BY <1>1, <1>2, <1>3 DEF Named
-----------------------------------------------------------------------------
(* The server                                                              *)

(* What the server says of a mutation is its stored result, a new commit   *)
(* of what was sent, or that there is none.                                *)
LEMMA Verdicts ==
  ASSUME Shape, Named, Answering, NEW id \in 1..Len(patches)
  PROVE  \/ results[id].kind \in {"committed", "proposal"} /\ Verdict(id) = results[id]
         \/ /\ results[id].kind # "committed"
            /\ Verdict(id) = Result("committed", NextRevision(patches[id].sent))
         \/ Verdict(id) \in {Result("conflict", None), Result("refused", None), Result("proposal", None)}
<1> DEFINE p == patches[id]
<1> DEFINE fits == p.base.rev = source.rev
<1> DEFINE k == results[id].kind
<1>1. k \in {"none", "committed", "proposal"}
  BY PatchTyped DEF Answering
<1>2. CASE k = "committed"
  BY <1>2 DEF Verdict
<1>3. CASE k # "committed" /\ ~fits
  BY <1>3 DEF Verdict
<1>4. CASE k = "proposal" /\ fits
  BY <1>4 DEF Verdict
<1>5. CASE k = "none" /\ fits
  BY <1>5 DEF Verdict
<1> QED
  BY <1>1, <1>2, <1>3, <1>4, <1>5

(* The request of a mutation is handled: nothing that is stored is lost,   *)
(* and the answer is stored when it is a commit or a proposal.             *)
Handled(id) ==
  /\ Verdict(id) \in Answers /\ Verdict(id) # Nothing
  /\ Holds(Verdict(id), id)
  /\ source' \in Snapshots /\ authors' \in Seq(Authors) /\ Len(authors') = source'.rev
  /\ mode' = mode
  /\ results' \in [Ids -> Answers]
  /\ \A i \in Ids : results[i].kind # "none" => results'[i].kind # "none"
  /\ \A i \in Ids : results'[i].kind # "none" => i <= Len(patches)
  /\ \A i \in Ids : results'[i].kind \in {"none", "committed", "proposal"} /\ Holds(results'[i], i)
  /\ Verdict(id).kind \in {"committed", "proposal"} => results'[id].kind # "none"

LEMMA Handling ==
  ASSUME Shape, Named, Answering, NEW id \in 1..Len(patches), NEW by \in {"save", "resolve"},
         Executed(id, by)
  PROVE  Handled(id)
<1> DEFINE v == Verdict(id)
<1> DEFINE new == NextRevision(patches[id].sent)
<1>1. id \in Ids /\ patches[id].sent \in Documents
  BY PatchTyped
<1>2. new \in Snapshots /\ new.doc = patches[id].sent /\ new.rev = source.rev + 1
  BY <1>1, RevisionTyped
<1>3. results[id] \in Answers /\ Holds(results[id], id)
  BY <1>1 DEF Shape, Answering
<1>4. \/ results[id].kind \in {"committed", "proposal"} /\ v = results[id]
      \/ results[id].kind # "committed" /\ v = Result("committed", new)
      \/ v \in {Result("conflict", None), Result("refused", None), Result("proposal", None)}
  BY Verdicts
<1>5. v \in Answers /\ v # Nothing /\ Holds(v, id) /\ v.kind # "none"
  <2>1. CASE results[id].kind \in {"committed", "proposal"} /\ v = results[id]
    BY <2>1, <1>3 DEF Nothing
  <2>2. CASE v = Result("committed", new)
    BY <2>2, <1>2, Records DEF Result, Holds, Nothing, Kinds
  <2>3. CASE v \in {Result("conflict", None), Result("refused", None), Result("proposal", None)}
    BY <2>3, Records DEF Result, Holds, Nothing, Kinds
  <2> QED
    BY <1>4, <2>1, <2>2, <2>3
<1>6. results' = [results EXCEPT ![id] = IF v.kind \in {"committed", "proposal"} THEN v ELSE @]
  BY DEF Executed
<1>7. results \in [Ids -> Answers]
  BY DEF Shape
<1> HIDE DEF v
<1>8. results' \in [Ids -> Answers]
  BY <1>1, <1>5, <1>6, <1>7
<1>9. \A i \in Ids : i # id => results'[i] = results[i]
  BY <1>6, <1>7
<1>10. results'[id] = IF v.kind \in {"committed", "proposal"} THEN v ELSE results[id]
  BY <1>1, <1>6, <1>7
<1>11. /\ results[id].kind # "none" => results'[id].kind # "none"
       /\ results'[id].kind \in {"none", "committed", "proposal"} /\ Holds(results'[id], id)
       /\ v.kind \in {"committed", "proposal"} => results'[id].kind # "none"
  BY <1>1, <1>3, <1>5, <1>10 DEF Answering
<1>12. \A i \in Ids : results'[i].kind # "none" => i <= Len(patches)
  BY <1>9 DEF Named
<1>13. source' \in Snapshots /\ authors' \in Seq(Authors) /\ Len(authors') = source'.rev
  <2>1. source \in Snapshots /\ authors \in Seq(Authors) /\ Len(authors) = source.rev
    BY DEF Shape
  <2>2. CASE v.kind = "committed" /\ results[id].kind # "committed"
    <3>1. v = Result("committed", new)
      BY <1>4, <2>2 DEF Result
    <3>2. source' = new /\ authors' = Append(authors, by)
      BY <2>2, <3>1 DEF Executed, Result, v
    <3> QED
      BY <1>2, <2>1, <3>2, AppendProperties DEF Authors
  <2>3. CASE ~(v.kind = "committed" /\ results[id].kind # "committed")
    BY <2>1, <2>3 DEF Executed, v
  <2> QED
    BY <2>2, <2>3
<1>14. mode' = mode
  BY DEF Executed
<1> QED
  BY <1>5, <1>8, <1>9, <1>11, <1>12, <1>13, <1>14 DEF Handled, Answering, v

(* What the draft says stays true while results are added.                 *)
LEMMA StillTruthful ==
  ASSUME Shape, Named, Truthful,
         \A i \in Ids : results[i].kind # "none" => results'[i].kind # "none",
         UNCHANGED <<view, patches, abandoned>>
  PROVE  Truthful'
<1>1. view.proposalId \in 0..MaxPatches
  BY DEF Shape, Views
<1>2. view.state = "Proposed" => view.proposalId \in Ids
  BY <1>1, DraftBounds DEF Named, Ids
<1> QED
  BY <1>2 DEF Truthful

(* Nothing but what a call has been answered changes.                      *)
LEMMA ServeStep ==
  ASSUME IInv, NEW c \in Channels, Serve(c)
  PROVE  IInv'
<1> DEFINE id == calls[c].id
<1> DEFINE v == Verdict(id)
<1>1. Shape /\ Named /\ Apart /\ OnItsWay /\ Answering /\ Saving /\ Truthful
  BY DEF IInv
<1>2. calls[c].step \in {"asked", "replayed"} /\ calls[c].answer = Nothing
  BY DEF Serve, Awaits
<1>3. id \in 1..Len(patches) /\ id \in Ids
  BY <1>1, <1>2, PatchTyped DEF Named
<1>4. Handled(id)
  <2>1. Executed(id, c) /\ c \in {"save", "resolve"}
    BY DEF Serve, Channels
  <2> QED
    BY <1>1, <1>3, <2>1, Handling
<1>5. UNCHANGED <<patches, view, timer, uncertain, applying, dialog, abandoned, wanted>>
  BY DEF Serve, ghosts
<1>6. calls \in [Channels -> Calls] /\ wire \in [Ids -> Nat] /\ wire[id] > 0
  BY <1>1, <1>2 DEF Shape, OnItsWay, Awaits
<1>7. calls' = [calls EXCEPT ![c].answer = v] /\ wire' = [wire EXCEPT ![id] = @ - 1]
  BY DEF Serve
<1>8. v \in Answers /\ v # Nothing
  BY <1>4 DEF Handled
<1> HIDE DEF v
<1>9. calls' \in [Channels -> Calls]
  BY <1>6, <1>7, <1>8 DEF Calls
<1>10. /\ calls'[c].answer = v /\ calls'[c].step = calls[c].step /\ calls'[c].id = id
       /\ calls'[c].newer = calls[c].newer
       /\ \A d \in Channels : d # c => calls'[d] = calls[d]
  BY <1>6, <1>7 DEF Calls
<1>11. wire' \in [Ids -> Nat] /\ \A i \in Ids : i # id => wire'[i] = wire[i]
  BY <1>3, <1>6, <1>7
<1>12. Shape'
  BY <1>1, <1>4, <1>5, <1>9, <1>11 DEF Shape, Handled
<1>13. Named'
  <2>1. \A i \in Ids : wire'[i] > 0 \/ results'[i].kind # "none" => i <= Len(patches)
    BY <1>1, <1>3, <1>4, <1>11 DEF Named, Handled
  <2>2. \A d \in Channels : /\ calls'[d].step # "idle" => calls'[d].id \in 1..Len(patches)
                            /\ calls'[d].step = "idle" => calls'[d] = NoCall
    BY <1>1, <1>2, <1>3, <1>10 DEF Named
  <2> QED
    BY <1>1, <1>5, <2>1, <2>2 DEF Named
<1>14. \A d \in Channels : calls'[d].id = calls[d].id /\ calls'[d].step = calls[d].step /\ calls'[d].newer = calls[d].newer
  BY <1>10
<1>15. Apart' /\ Saving'
  <2>1. \A i : Own(i)' <=> Own(i)
    BY <1>5, <1>14 DEF Own, Channels
  <2>2. \A i, n : Sent(i, n)' <=> Sent(i, n)
    BY <1>5 DEF Sent
  <2> QED
    BY <1>1, <1>5, <1>14, <2>1, <2>2 DEF Apart, Saving, Channels
<1>16. OnItsWay'
  <2> SUFFICES ASSUME NEW d \in Channels, Awaits(d, calls[d].id)' PROVE wire'[calls'[d].id] > 0
    BY DEF OnItsWay
  <2>1. d # c
    BY <1>8, <1>10 DEF Awaits
  <2>2. Awaits(d, calls[d].id)
    BY <1>10, <2>1 DEF Awaits
  <2>3. calls[d].id # calls[c].id
    BY <1>1, <1>2, <2>1, <2>2 DEF Apart, Own, Awaits, Channels
  <2>4. calls[d].id \in Ids
    BY <1>1, <2>2, PatchTyped DEF Named, Awaits
  <2> QED
    BY <1>1, <1>10, <1>11, <2>1, <2>2, <2>3, <2>4 DEF OnItsWay
<1>17. Answering'
  <2>1. \A i \in Ids : results'[i].kind \in {"none", "committed", "proposal"} /\ Holds(results[i], i)'
    BY <1>4, <1>5 DEF Handled, Holds
  <2>2. Holds(calls[c].answer, id)' /\ Stored(calls[c].answer, id)'
    BY <1>4, <1>5, <1>10 DEF Handled, Holds, Stored, v
  <2>3. \A d \in Channels : d # c => Holds(calls[d].answer, calls[d].id)' /\ Stored(calls[d].answer, calls[d].id)'
    <3> SUFFICES ASSUME NEW d \in Channels, d # c
                 PROVE  Holds(calls[d].answer, calls[d].id)' /\ Stored(calls[d].answer, calls[d].id)'
      OBVIOUS
    <3>1. calls[d].answer.kind \in {"committed", "proposal"} => calls[d].id \in Ids
      BY <1>1, CallTyped, PatchTyped DEF Nothing
    <3>2. Holds(calls[d].answer, calls[d].id) /\ Stored(calls[d].answer, calls[d].id)
      BY <1>1 DEF Answering
    <3> QED
      BY <1>4, <1>5, <1>10, <3>1, <3>2 DEF Holds, Stored, Handled
  <2>4. applying.id # 0 => Holds(applying.answer, applying.id)'
    BY <1>1, <1>5 DEF Answering, Holds
  <2> QED
    BY <1>5, <1>10, <2>1, <2>2, <2>3, <2>4 DEF Answering
<1>18. Truthful'
  BY <1>1, <1>4, <1>5, StillTruthful DEF Handled
<1> QED
  BY <1>12, <1>13, <1>15, <1>16, <1>17, <1>18 DEF IInv

(* A request that nobody waits for is handled.                             *)
LEMMA ServeLateStep ==
  ASSUME IInv, NEW id \in Ids, ServeLate(id)
  PROVE  IInv'
<1>1. Shape /\ Named /\ Apart /\ OnItsWay /\ Answering /\ Saving /\ Truthful
  BY DEF IInv
<1>2. wire \in [Ids -> Nat] /\ wire[id] > IF Awaited(id) THEN 1 ELSE 0
  BY <1>1 DEF Shape, ServeLate
<1>3. wire[id] > 0 /\ wire[id] \in Nat
  BY <1>2
<1>4. id \in 1..Len(patches)
  BY <1>1, <1>3 DEF Named, Ids
<1>5. Handled(id)
  BY <1>1, <1>4, Handling DEF ServeLate
<1>6. UNCHANGED <<patches, view, timer, uncertain, calls, applying, dialog, abandoned, wanted>>
  BY DEF ServeLate, ghosts
<1>7. wire' = [wire EXCEPT ![id] = @ - 1]
  BY DEF ServeLate
<1>8. wire' \in [Ids -> Nat] /\ wire'[id] = wire[id] - 1 /\ \A i \in Ids : i # id => wire'[i] = wire[i]
  BY <1>2, <1>3, <1>7
<1>9. Shape'
  BY <1>1, <1>5, <1>6, <1>8 DEF Shape, Handled
<1>10. Named'
  <2>1. \A i \in Ids : wire'[i] > 0 \/ results'[i].kind # "none" => i <= Len(patches)
    BY <1>1, <1>4, <1>5, <1>8 DEF Named, Handled
  <2> QED
    BY <1>1, <1>6, <2>1 DEF Named
<1>11. Apart' /\ Saving'
  BY <1>1, <1>6 DEF Apart, Saving, Own, Sent
<1>12. OnItsWay'
  <2> SUFFICES ASSUME NEW c \in Channels, Awaits(c, calls[c].id) PROVE wire'[calls[c].id] > 0
    BY <1>6 DEF OnItsWay, Awaits
  <2>1. wire[calls[c].id] > 0 /\ calls[c].id \in Ids
    BY <1>1, PatchTyped DEF OnItsWay, Awaits, Named
  <2>2. CASE calls[c].id = id
    <3>1. Awaited(id)
      BY <2>2 DEF Awaited
    <3>2. wire[id] > 1
      BY <1>2, <3>1
    <3> QED
      BY <1>3, <1>8, <2>2, <3>2
  <2>3. CASE calls[c].id # id
    BY <1>8, <2>1, <2>3
  <2> QED
    BY <2>2, <2>3
<1>13. Answering'
  <2>1. \A i \in Ids : results'[i].kind \in {"none", "committed", "proposal"} /\ Holds(results[i], i)'
    BY <1>5, <1>6 DEF Handled, Holds
  <2>2. \A c \in Channels : Holds(calls[c].answer, calls[c].id)' /\ Stored(calls[c].answer, calls[c].id)'
    <3> SUFFICES ASSUME NEW c \in Channels
                 PROVE  Holds(calls[c].answer, calls[c].id)' /\ Stored(calls[c].answer, calls[c].id)'
      OBVIOUS
    <3>1. calls[c].answer.kind \in {"committed", "proposal"} => calls[c].id \in Ids
      BY <1>1, CallTyped, PatchTyped DEF Nothing
    <3>2. Holds(calls[c].answer, calls[c].id) /\ Stored(calls[c].answer, calls[c].id)
      BY <1>1 DEF Answering
    <3> QED
      BY <1>5, <1>6, <3>1, <3>2 DEF Holds, Stored, Handled
  <2>3. applying.id # 0 => Holds(applying.answer, applying.id)'
    BY <1>1, <1>6 DEF Answering, Holds
  <2> QED
    BY <1>6, <2>1, <2>2, <2>3 DEF Answering
<1>14. Truthful'
  BY <1>1, <1>5, <1>6, StillTruthful DEF Handled
<1> QED
  BY <1>9, <1>10, <1>11, <1>12, <1>13, <1>14 DEF IInv

LEMMA CommitOtherStep ==
  ASSUME IInv, NEW f \in Fields, NEW x \in Values, CommitOther(f, x)
  PROVE  IInv'
<1>1. Shape /\ Named /\ Apart /\ OnItsWay /\ Answering /\ Saving /\ Truthful
  BY DEF IInv
<1>2. source \in Snapshots /\ authors \in Seq(Authors) /\ Len(authors) = source.rev
  BY <1>1 DEF Shape
<1>3. UNCHANGED <<mode, results, wire, patches, view, timer, uncertain, calls, applying, dialog, wanted, abandoned>>
  BY DEF CommitOther, ghosts
<1>4. [source.doc EXCEPT ![f] = x] \in Documents
  BY <1>2 DEF Snapshots, Documents
<1>5. source' \in Snapshots /\ source'.rev = source.rev + 1
  BY <1>1, <1>4, RevisionTyped DEF CommitOther
<1>6. authors' \in Seq(Authors) /\ Len(authors') = source'.rev
  BY <1>2, <1>5, AppendProperties DEF CommitOther, Authors
<1>7. Shape'
  BY <1>1, <1>3, <1>5, <1>6 DEF Shape
<1>8. Named' /\ Apart' /\ OnItsWay' /\ Saving'
  BY <1>1, <1>3 DEF Named, Apart, Own, OnItsWay, Awaits, Saving, Sent
<1>9. Answering'
  BY <1>1, <1>3 DEF Answering, Holds, Stored
<1>10. Truthful'
  BY <1>1, <1>3 DEF Truthful
<1> QED
  BY <1>7, <1>8, <1>9, <1>10 DEF IInv
-----------------------------------------------------------------------------
(* api.commit                                                              *)

(* Two calls that wait for an answer have different patches.               *)
LEMMA CallsApart ==
  ASSUME Named, Apart, NEW c \in Channels, NEW d \in Channels, c # d, calls[c].step # "idle",
         calls[d].step # "idle"
  PROVE  calls[c].id # calls[d].id
BY DEF Apart, Own, Channels, Named

(* A call goes on, and gets no answer that is not the server's.            *)
LEMMA CallGoesOn ==
  ASSUME IInv, NEW c \in Channels, calls[c].step # "idle",
         NEW call \in Calls, calls' = [calls EXCEPT ![c] = call],
         call.step # "idle", call.id = calls[c].id, call.newer = calls[c].newer,
         Holds(call.answer, call.id), Stored(call.answer, call.id),
         wire' \in [Ids -> Nat], \A i \in Ids : wire'[i] > 0 => i <= Len(patches), OnItsWay',
         UNCHANGED <<repository, patches, view, timer, uncertain, applying, dialog, wanted, abandoned>>
  PROVE  IInv'
<1>1. Shape /\ Named /\ Apart /\ OnItsWay /\ Answering /\ Saving /\ Truthful
  BY DEF IInv
<1>2. calls \in [Channels -> Calls]
  BY <1>1 DEF Shape
<1>3. calls' \in [Channels -> Calls] /\ calls'[c] = call /\ \A d \in Channels : d # c => calls'[d] = calls[d]
  BY <1>2
<1>4. UNCHANGED <<source, authors, mode, results>>
  BY DEF repository
<1>5. Shape'
  BY <1>1, <1>3, <1>4 DEF Shape
<1>6. Named'
  <2>1. \A d \in Channels : /\ calls'[d].step # "idle" => calls'[d].id \in 1..Len(patches)
                            /\ calls'[d].step = "idle" => calls'[d] = NoCall
    BY <1>1, <1>3 DEF Named
  <2>2. \A i \in Ids : wire'[i] > 0 \/ results[i].kind # "none" => i <= Len(patches)
    BY <1>1 DEF Named
  <2> QED
    BY <1>1, <1>4, <2>1, <2>2 DEF Named
<1>7. \A d \in Channels : /\ calls'[d].id = calls[d].id /\ calls'[d].newer = calls[d].newer
                          /\ calls'[d].step = "idle" <=> calls[d].step = "idle"
  BY <1>3
<1>8. Apart' /\ Saving'
  <2>1. \A i : Own(i)' <=> Own(i)
    BY <1>7 DEF Own, Channels
  <2>2. \A i, n : Sent(i, n)' <=> Sent(i, n)
    BY DEF Sent
  <2> QED
    BY <1>1, <1>7, <2>1, <2>2 DEF Apart, Saving, Channels
<1>9. Answering'
  <2>1. \A d \in Channels : Holds(calls'[d].answer, calls'[d].id) /\ Stored(calls'[d].answer, calls'[d].id)
    BY <1>1, <1>3 DEF Answering
  <2> QED
    BY <1>1, <1>4, <2>1 DEF Answering, Holds, Stored
<1>10. Truthful'
  BY <1>1, <1>4 DEF Truthful
<1> QED
  BY <1>5, <1>6, <1>8, <1>9, <1>10 DEF IInv

(* No answer, and an answer that says nothing of the repository.           *)
LEMMA NoCommit ==
  ASSUME NEW k \in {"none", "conflict", "refused", "busy", "unknown"}, NEW p
  PROVE  /\ Holds(Result(k, None), p) /\ Stored(Result(k, None), p)
         /\ Result(k, None) \in Answers
         /\ k # "none" => Result(k, None) # Nothing
         /\ Result("none", None) = Nothing
<1>1. Result(k, None) \in Answers
  BY Records DEF Kinds
<1> QED
  BY <1>1 DEF Holds, Stored, Result, Nothing

LEMMA RefuseStep ==
  ASSUME IInv, NEW c \in Channels, NEW how \in {"refused", "busy"}, Refuse(c, how)
  PROVE  IInv'
<1> DEFINE r == Result(how, None)
<1> DEFINE call == [calls[c] EXCEPT !.step = calls[c].step, !.answer = r]
<1>1. Shape /\ Named /\ Apart /\ OnItsWay /\ Answering
  BY DEF IInv
<1>2. calls[c].step \in {"asked", "replayed"} /\ calls[c].answer = Nothing
  BY DEF Refuse, Awaits
<1>3. calls[c].id \in 1..Len(patches) /\ calls[c].id \in Ids
  BY <1>1, <1>2, PatchTyped DEF Named
<1>4. wire \in [Ids -> Nat] /\ wire[calls[c].id] > 0 /\ calls \in [Channels -> Calls]
  BY <1>1, <1>2 DEF Shape, OnItsWay, Awaits
<1>5. wire' = [wire EXCEPT ![calls[c].id] = @ - 1] /\ calls' = [calls EXCEPT ![c].answer = r]
  BY DEF Refuse
<1>6. UNCHANGED <<repository, patches, view, timer, uncertain, applying, dialog, wanted, abandoned>>
  BY DEF Refuse
<1>7. Holds(r, calls[c].id) /\ Stored(r, calls[c].id) /\ r \in Answers /\ r # Nothing
  BY NoCommit
<1> HIDE DEF r
<1>8. call \in Calls /\ call.step = calls[c].step /\ call.id = calls[c].id /\ call.newer = calls[c].newer
      /\ call.answer = r
  BY <1>2, <1>4, <1>7 DEF Calls
<1>9. calls' = [calls EXCEPT ![c] = call]
  BY <1>4, <1>5 DEF Calls
<1> HIDE DEF call
<1>10. wire' \in [Ids -> Nat] /\ \A i \in Ids : wire'[i] > 0 => i <= Len(patches)
  BY <1>1, <1>3, <1>4, <1>5 DEF Named
<1>11. OnItsWay'
  <2> SUFFICES ASSUME NEW d \in Channels, Awaits(d, calls[d].id)' PROVE wire'[calls'[d].id] > 0
    BY DEF OnItsWay
  <2>1. d # c
    BY <1>4, <1>7, <1>8, <1>9 DEF Awaits
  <2>2. calls'[d] = calls[d]
    BY <1>4, <1>9, <2>1
  <2>3. Awaits(d, calls[d].id)
    BY <2>2 DEF Awaits
  <2>4. calls[d].id # calls[c].id /\ calls[d].id \in Ids
    BY <1>1, <1>2, <2>1, <2>3, CallsApart, PatchTyped DEF Named, Awaits
  <2>5. wire'[calls[d].id] = wire[calls[d].id]
    BY <1>4, <1>5, <2>4
  <2> QED
    BY <1>1, <2>2, <2>3, <2>5 DEF OnItsWay
<1> QED
  BY <1>2, <1>6, <1>7, <1>8, <1>9, <1>10, <1>11, CallGoesOn

LEMMA LoseStep ==
  ASSUME IInv, NEW c \in Channels, Lose(c)
  PROVE  IInv'
<1> DEFINE st == IF calls[c].step = "asked" THEN "receipt" ELSE "answered"
<1> DEFINE r == IF calls[c].step = "asked" THEN Nothing ELSE Result("unknown", None)
<1> DEFINE call == [calls[c] EXCEPT !.step = st, !.answer = r]
<1>1. Shape /\ Named /\ OnItsWay
  BY DEF IInv
<1>2. calls[c].step \in {"asked", "replayed"}
  BY DEF Lose
<1>3. calls \in [Channels -> Calls] /\ wire \in [Ids -> Nat]
  BY <1>1 DEF Shape
<1>4. calls' = [calls EXCEPT ![c].step = IF @ = "asked" THEN "receipt" ELSE "answered",
                             ![c].answer = IF calls[c].step = "asked" THEN Nothing
                                           ELSE Result("unknown", None)]
  BY DEF Lose
<1>5. UNCHANGED <<repository, wire, patches, view, timer, uncertain, applying, dialog, wanted, abandoned>>
  BY DEF Lose, ghosts
<1>6. Holds(r, calls[c].id) /\ Stored(r, calls[c].id) /\ r \in Answers
  BY NoCommit, Records
<1>7. calls' = [calls EXCEPT ![c] = call]
  BY <1>3, <1>4 DEF Calls
<1>8. st \in {"receipt", "answered"}
  OBVIOUS
<1> HIDE DEF r, st
<1>9. call \in Calls /\ call.step = st /\ call.id = calls[c].id /\ call.newer = calls[c].newer
      /\ call.answer = r
  BY <1>3, <1>6, <1>8 DEF Calls
<1> HIDE DEF call
<1>10. \A i \in Ids : wire[i] > 0 => i <= Len(patches)
  BY <1>1 DEF Named
<1>11. OnItsWay'
  BY <1>1, <1>3, <1>5, <1>7, <1>8, <1>9 DEF OnItsWay, Awaits
<1> QED
  BY <1>2, <1>3, <1>5, <1>6, <1>7, <1>8, <1>9, <1>10, <1>11, CallGoesOn

LEMMA UnreadableStep ==
  ASSUME IInv, NEW c \in Channels, Unreadable(c)
  PROVE  IInv'
<1> DEFINE r == Result("unknown", None)
<1> DEFINE call == [calls[c] EXCEPT !.step = "answered", !.answer = r]
<1>1. Shape /\ Named /\ OnItsWay
  BY DEF IInv
<1>2. calls \in [Channels -> Calls] /\ wire \in [Ids -> Nat]
  BY <1>1 DEF Shape
<1>3. calls' = [calls EXCEPT ![c].step = "answered", ![c].answer = r] /\ calls[c].step = "receipt"
  BY DEF Unreadable
<1>4. UNCHANGED <<repository, wire, patches, view, timer, uncertain, applying, dialog, wanted, abandoned>>
  BY DEF Unreadable, ghosts
<1>5. Holds(r, calls[c].id) /\ Stored(r, calls[c].id) /\ r \in Answers
  BY NoCommit
<1>6. calls' = [calls EXCEPT ![c] = call]
  BY <1>2, <1>3 DEF Calls
<1> HIDE DEF r
<1>7. call \in Calls /\ call.step = "answered" /\ call.id = calls[c].id /\ call.newer = calls[c].newer
      /\ call.answer = r
  BY <1>2, <1>5 DEF Calls
<1> HIDE DEF call
<1>8. \A i \in Ids : wire[i] > 0 => i <= Len(patches)
  BY <1>1 DEF Named
<1>9. OnItsWay'
  BY <1>1, <1>2, <1>4, <1>6, <1>7 DEF OnItsWay, Awaits
<1> QED
  BY <1>2, <1>3, <1>4, <1>5, <1>6, <1>7, <1>8, <1>9, CallGoesOn

LEMMA LookUpStep ==
  ASSUME IInv, NEW c \in Channels, LookUp(c)
  PROVE  IInv'
<1> DEFINE id == calls[c].id
<1>1. Shape /\ Named /\ OnItsWay /\ Answering
  BY DEF IInv
<1>2. calls \in [Channels -> Calls] /\ wire \in [Ids -> Nat] /\ results \in [Ids -> Answers]
  BY <1>1 DEF Shape
<1>3. calls[c].step = "receipt"
  BY DEF LookUp
<1>4. id \in 1..Len(patches) /\ id \in Ids
  BY <1>1, <1>3, PatchTyped DEF Named
<1>5. UNCHANGED <<repository, patches, view, timer, uncertain, applying, dialog, wanted, abandoned>>
  BY DEF LookUp, ghosts
<1>6. \A i \in Ids : wire[i] > 0 => i <= Len(patches)
  BY <1>1 DEF Named
<1>7. Holds(calls[c].answer, id) /\ Stored(calls[c].answer, id)
  BY <1>1 DEF Answering
<1>8. CASE results[id] = Nothing
  <2> DEFINE call == [calls[c] EXCEPT !.step = "replayed", !.answer = calls[c].answer]
  <2>1. wire' = [wire EXCEPT ![id] = @ + 1] /\ calls' = [calls EXCEPT ![c].step = "replayed"]
    BY <1>8 DEF LookUp
  <2>2. calls' = [calls EXCEPT ![c] = call]
    BY <1>2, <2>1 DEF Calls
  <2>3. call \in Calls /\ call.step = "replayed" /\ call.id = id /\ call.newer = calls[c].newer
        /\ call.answer = calls[c].answer
    BY <1>2 DEF Calls
  <2> HIDE DEF call
  <2>4. wire' \in [Ids -> Nat] /\ wire'[id] > 0 /\ \A i \in Ids : i # id => wire'[i] = wire[i]
    BY <1>2, <1>4, <2>1
  <2>5. \A i \in Ids : wire'[i] > 0 => i <= Len(patches)
    BY <1>4, <1>6, <2>4
  <2>6. OnItsWay'
    <3> SUFFICES ASSUME NEW d \in Channels, Awaits(d, calls[d].id)' PROVE wire'[calls'[d].id] > 0
      BY DEF OnItsWay
    <3>1. CASE calls'[d].id = id
      BY <2>4, <3>1
    <3>2. CASE calls'[d].id # id
      <4>1. calls'[d] = calls[d]
        BY <1>2, <2>2, <2>3, <3>2
      <4>2. Awaits(d, calls[d].id)
        BY <4>1 DEF Awaits
      <4>3. calls[d].id \in Ids
        BY <1>1, <4>2, PatchTyped DEF Named, Awaits
      <4> QED
        BY <1>1, <2>4, <3>2, <4>1, <4>2, <4>3 DEF OnItsWay
    <3> QED
      BY <3>1, <3>2
  <2> QED
    BY <1>3, <1>5, <1>7, <2>2, <2>3, <2>4, <2>5, <2>6, CallGoesOn
<1>9. CASE results[id] # Nothing
  <2> DEFINE r == results[id]
  <2> DEFINE call == [calls[c] EXCEPT !.step = "answered", !.answer = r]
  <2>1. wire' = wire /\ calls' = [calls EXCEPT ![c].step = "answered", ![c].answer = r]
    BY <1>9 DEF LookUp
  <2>2. calls' = [calls EXCEPT ![c] = call]
    BY <1>2, <2>1 DEF Calls
  <2>3. r \in Answers /\ Holds(r, id) /\ Stored(r, id)
    BY <1>1, <1>2, <1>4 DEF Answering, Stored
  <2> HIDE DEF r
  <2>4. call \in Calls /\ call.step = "answered" /\ call.id = id /\ call.newer = calls[c].newer
        /\ call.answer = r
    BY <1>2, <2>3 DEF Calls
  <2> HIDE DEF call
  <2>5. OnItsWay'
    BY <1>1, <1>2, <2>1, <2>2, <2>4 DEF OnItsWay, Awaits
  <2> QED
    BY <1>2, <1>3, <1>5, <1>6, <2>1, <2>2, <2>3, <2>4, <2>5, CallGoesOn
<1> QED
  BY <1>8, <1>9
-----------------------------------------------------------------------------
(* DraftController                                                         *)

(* What calls wait for, and what they have been answered, while only the   *)
(* draft changes.                                                          *)
LEMMA RequestsStay ==
  ASSUME OnItsWay, Answering, UNCHANGED <<results, wire, patches, calls>>
  PROVE  /\ OnItsWay'
         /\ (applying.id # 0 => Holds(applying.answer, applying.id))' => Answering'
<1>1. OnItsWay'
  BY DEF OnItsWay, Awaits
<1>2. ASSUME (applying.id # 0 => Holds(applying.answer, applying.id))' PROVE Answering'
  BY <1>2 DEF Answering, Holds, Stored
<1> QED
  BY <1>1, <1>2

LEMMA editStep ==
  ASSUME IInv, NEW f \in Fields, NEW x \in Values, edit(f, x)
  PROVE  IInv'
<1>1. Shape /\ Named /\ Apart /\ OnItsWay /\ Answering /\ Saving
  BY DEF IInv
<1>2. calls \in [Channels -> Calls] /\ view \in Views /\ applying \in Applications
      /\ wanted \in [Fields -> Values \cup {None}] /\ (uncertain = None \/ uncertain \in Unknowns)
  BY <1>1 DEF Shape
<1>3. UNCHANGED <<source, authors, mode, results, wire, patches, dialog, abandoned>>
  BY DEF edit, repository
<1>4. /\ view' = [view EXCEPT !.deployment[f] = x, !.state = "Editing", !.dirty = TRUE]
      /\ timer' = TRUE
      /\ calls' = IF calls["save"].step = "idle" THEN calls ELSE [calls EXCEPT !["save"].newer = TRUE]
      /\ uncertain' = IF uncertain = None THEN None ELSE [uncertain EXCEPT !.newer = TRUE]
      /\ applying' = [applying EXCEPT !.touched = TRUE]
      /\ wanted' = [wanted EXCEPT ![f] = x]
  BY DEF edit, Armed, Older
<1>5. view' \in Views /\ view'.committed = view.committed /\ view'.proposalId = view.proposalId
      /\ view'.state = "Editing"
  <2>1. [view.deployment EXCEPT ![f] = x] \in Documents
    BY <1>2 DEF Views, Documents
  <2> QED
    BY <1>2, <1>4, <2>1 DEF Views
<1>6. view'.dirty
  <2>1. view'.dirty = TRUE
    BY <1>2, <1>4 DEF Views
  <2> QED
    BY <2>1
<1>7. calls' \in [Channels -> Calls] /\ calls'["resolve"] = calls["resolve"]
      /\ \A c \in Channels : calls'[c].step = calls[c].step /\ calls'[c].id = calls[c].id
                             /\ calls'[c].answer = calls[c].answer
  BY <1>2, <1>4 DEF Calls, Channels
<1>71. calls'["save"].step = calls["save"].step /\ calls'["save"].id = calls["save"].id
  BY <1>7 DEF Channels
<1>72. \A c \in Channels : calls'[c].step = "idle" => calls'[c] = calls[c]
  BY <1>2, <1>4 DEF Calls, Channels
<1>8. calls["save"].step # "idle" => calls'["save"].newer
  <2>1. calls["save"].step # "idle" => calls'["save"].newer = TRUE
    BY <1>2, <1>4 DEF Calls, Channels
  <2> QED
    BY <2>1
<1>9. uncertain' = None \/ (uncertain' \in Unknowns /\ uncertain # None /\ uncertain'.id = uncertain.id)
  BY <1>2, <1>4 DEF Unknowns
<1>10. uncertain' # None => uncertain'.newer
  <2>1. uncertain' # None => uncertain'.newer = TRUE
    BY <1>2, <1>4 DEF Unknowns
  <2> QED
    BY <2>1
<1>11. applying' \in Applications /\ applying'.id = applying.id /\ applying'.answer = applying.answer
  BY <1>2, <1>4 DEF Applications
<1>12. Shape'
  <2>1. wanted' \in [Fields -> Values \cup {None}]
    BY <1>2, <1>4
  <2> QED
    BY <1>1, <1>3, <1>4, <1>5, <1>7, <1>9, <1>11, <2>1 DEF Shape
<1>13. Named'
  <2>1. \A c \in Channels : /\ calls'[c].step # "idle" => calls'[c].id \in 1..Len(patches)
                            /\ calls'[c].step = "idle" => calls'[c] = NoCall
    BY <1>1, <1>7, <1>72 DEF Named
  <2>2. \A id \in Ids : wire'[id] > 0 \/ results'[id].kind # "none" => id <= Len(patches)
    BY <1>1, <1>3 DEF Named
  <2> QED
    BY <1>1, <1>3, <1>4, <1>5, <1>9, <1>11, <2>1, <2>2 DEF Named
<1>14. Apart'
  BY <1>1, <1>3, <1>7, <1>71, <1>9 DEF Apart, Own
<1>15. OnItsWay'
  BY <1>1, <1>3, <1>7 DEF OnItsWay, Awaits
<1>16. Answering'
  <2>1. \A c \in Channels : Holds(calls[c].answer, calls[c].id)' /\ Stored(calls[c].answer, calls[c].id)'
    <3> SUFFICES ASSUME NEW c \in Channels
                 PROVE  Holds(calls[c].answer, calls[c].id)' /\ Stored(calls[c].answer, calls[c].id)'
      OBVIOUS
    <3>1. Holds(calls[c].answer, calls[c].id) /\ Stored(calls[c].answer, calls[c].id)
      BY <1>1 DEF Answering
    <3>2. calls'[c].answer = calls[c].answer /\ calls'[c].id = calls[c].id
      BY <1>7
    <3> QED
      BY <1>3, <3>1, <3>2 DEF Holds, Stored
  <2>2. \A id \in Ids : results'[id].kind \in {"none", "committed", "proposal"} /\ Holds(results[id], id)'
    BY <1>1, <1>3 DEF Answering, Holds
  <2>3. (applying.id # 0 => Holds(applying.answer, applying.id))'
    BY <1>1, <1>3, <1>11 DEF Answering, Holds
  <2> QED
    BY <2>1, <2>2, <2>3 DEF Answering
<1>17. Saving'
  <2>1. calls'["save"].step # "idle" =>
          uncertain' = None /\ applying'.id = 0 /\ Sent(calls["save"].id, calls["save"].newer)'
    BY <1>1, <1>3, <1>4, <1>5, <1>6, <1>7, <1>71, <1>8, <1>11 DEF Saving, Sent, Channels
  <2>2. uncertain' # None => Sent(uncertain.id, uncertain.newer)'
    BY <1>1, <1>3, <1>4, <1>5, <1>6, <1>9, <1>10 DEF Saving, Sent
  <2> QED
    BY <2>1, <2>2 DEF Saving
<1>18. Truthful'
  BY <1>5 DEF Truthful
<1> QED
  BY <1>12, <1>13, <1>14, <1>15, <1>16, <1>17, <1>18 DEF IInv

(* A patch more leaves those there were, and what is known of them.        *)
LEMMA OneMore ==
  ASSUME Shape, NEW p \in Patches, patches' = Append(patches, p)
  PROVE  /\ patches' \in Seq(Patches) /\ Len(patches') = Len(patches) + 1 /\ Len(patches) \in Nat
         /\ \A i \in 1..Len(patches) : patches'[i] = patches[i]
         /\ patches'[Len(patches) + 1] = p
<1>1. patches \in Seq(Patches)
  BY DEF Shape
<1> QED
  BY <1>1, AppendProperties, LenProperties

LEMMA KnownStays ==
  ASSUME Shape, Named, Answering, results' = results,
         \A i \in 1..Len(patches) : patches'[i] = patches[i]
  PROVE  /\ \A id \in Ids : /\ results'[id].kind \in {"none", "committed", "proposal"}
                            /\ Holds(results[id], id)'
         /\ \A c \in Channels : calls'[c] = calls[c] =>
               Holds(calls[c].answer, calls[c].id)' /\ Stored(calls[c].answer, calls[c].id)'
<1>1. Len(patches) \in Nat
  BY LenProperties DEF Shape
<1>2. ASSUME NEW id \in Ids
      PROVE  results'[id].kind \in {"none", "committed", "proposal"} /\ Holds(results[id], id)'
  <2>1. results[id].kind # "none" => id \in 1..Len(patches)
    BY <1>1 DEF Named, Ids
  <2> QED
    BY <2>1 DEF Answering, Holds
<1>3. ASSUME NEW c \in Channels, calls'[c] = calls[c]
      PROVE  Holds(calls[c].answer, calls[c].id)' /\ Stored(calls[c].answer, calls[c].id)'
  <2>1. calls[c].answer.kind # "none" => calls[c].id \in 1..Len(patches)
    BY CallTyped DEF Nothing
  <2>2. Holds(calls[c].answer, calls[c].id) /\ Stored(calls[c].answer, calls[c].id)
    BY DEF Answering
  <2> QED
    BY <1>3, <2>1, <2>2 DEF Holds, Stored
<1> QED
  BY <1>2, <1>3

(* What a view may say.                                                    *)
TruthfulOf(v) ==
  ~abandoned /\ ~v.dirty =>
    /\ v.state = "Saved" => v.deployment = v.committed.doc
    /\ v.state = "Proposed" => /\ results[v.proposalId].kind # "none"
                               /\ patches[v.proposalId].sent = v.deployment

LEMMA TruthfulView == Truthful <=> TruthfulOf(view)
BY DEF Truthful, TruthfulOf

(* What is sent from a view.                                               *)
Sendable(v, u) ==
  /\ v.proposalId <= Len(patches)
  /\ v.state = "Proposed" => v.proposalId # 0
  /\ TruthfulOf(v)
  /\ u # None => /\ u \in Unknowns /\ u.id <= Len(patches) /\ Own(u.id)
                 /\ ~abandoned => /\ v.dirty /\ patches[u.id].sent # v.committed.doc
                                  /\ ~u.newer => patches[u.id].sent = v.deployment

(* A save that goes on: it ends, or sends what is not committed.           *)
LEMMA SendsStep ==
  ASSUME IInv, NEW v \in Views, NEW u, Sendable(v, u), Sends(v, u),
         UNCHANGED <<repository, dialog, abandoned>>, timer' \in BOOLEAN,
         wanted' \in [Fields -> Values \cup {None}], applying' \in Applications,
         applying.id = 0, applying'.id = 0, applying'.answer = applying.answer
  PROVE  IInv'
<1> DEFINE sent == IF u # None THEN patches[u.id].sent ELSE v.deployment
<1> DEFINE id == IF u # None THEN u.id ELSE Len(patches) + 1
<1> DEFINE done == ~v.dirty \/ operationsBetween(v.committed.doc, sent) = {}
<1>1. Shape /\ Named /\ Apart /\ OnItsWay /\ Answering
  BY DEF IInv
<1>2. UNCHANGED <<source, authors, mode, results>>
  BY DEF repository
<1>3. calls \in [Channels -> Calls] /\ wire \in [Ids -> Nat] /\ patches \in Seq(Patches)
      /\ Len(patches) \in Nat /\ Len(patches) <= MaxPatches
  BY <1>1, LenProperties DEF Shape
<1>4. v.committed \in Snapshots /\ v.committed.doc \in Documents /\ v.deployment \in Documents
      /\ v.proposalId \in 0..MaxPatches /\ v.dirty \in BOOLEAN
  BY DEF Views, Snapshots
<1>5. u # None => u.id \in 1..Len(patches) /\ patches[u.id].sent \in Documents
  BY <1>1, <1>3, PatchTyped DEF Sendable, Unknowns, Ids
<1>6. sent \in Documents
  BY <1>4, <1>5
<1>7. operationsBetween(v.committed.doc, sent) = {} <=> v.committed.doc = sent
  BY <1>4, <1>6, Differ
<1>8. CASE done
  <2>1. /\ uncertain' = u
        /\ view' = IF v.dirty THEN [v EXCEPT !.dirty = FALSE, !.state = "Saved"] ELSE v
        /\ calls' = [calls EXCEPT !["save"] = NoCall]
        /\ UNCHANGED <<wire, patches>>
    BY <1>8 DEF Sends
  <2>2. calls' \in [Channels -> Calls] /\ calls'["save"] = NoCall /\ calls'["resolve"] = calls["resolve"]
    BY <1>3, <2>1, Records DEF Channels
  <2>3. view' \in Views /\ view'.proposalId = v.proposalId
    BY <2>1 DEF Views
  <2>4. NoCall.step = "idle" /\ NoCall.answer = Nothing
    BY DEF NoCall
  <2>5. ~abandoned => u = None \/ ~(v.dirty /\ v.committed.doc = sent)
    BY DEF Sendable
  <2>6. u # None => abandoned
    BY <1>7, <1>8, <2>5 DEF Sendable
  <2>7. Shape'
    BY <1>1, <1>2, <2>1, <2>2, <2>3 DEF Shape, Sendable
  <2>8. Named'
    <3>1. \A c \in Channels : /\ calls'[c].step # "idle" => calls'[c].id \in 1..Len(patches)
                              /\ calls'[c].step = "idle" => calls'[c] = NoCall
      BY <1>1, <2>2, <2>4 DEF Named, Channels
    <3>2. view'.state = "Proposed" => view'.proposalId # 0
      BY <2>1, <2>3 DEF Sendable, Views
    <3> QED
      BY <1>1, <1>2, <2>1, <2>3, <3>1, <3>2 DEF Named, Sendable
  <2>9. Apart'
    BY <2>1, <2>2, <2>4 DEF Apart, Own, Sendable
  <2>10. OnItsWay'
    BY <1>1, <2>1, <2>2, <2>4 DEF OnItsWay, Awaits, Channels
  <2>11. Answering'
    <3>1. \A c \in Channels : Holds(calls[c].answer, calls[c].id)' /\ Stored(calls[c].answer, calls[c].id)'
      <4>1. Holds(calls["save"].answer, calls["save"].id)' /\ Stored(calls["save"].answer, calls["save"].id)'
        BY <2>2, <2>4 DEF Holds, Stored, Nothing
      <4> QED
        BY <1>1, <1>2, <2>1, <2>2, <4>1, KnownStays DEF Channels
    <3> QED
      BY <1>1, <1>2, <2>1, <3>1, KnownStays DEF Answering
  <2>12. Saving'
    BY <2>1, <2>2, <2>4, <2>6 DEF Saving, Sent
  <2>13. TruthfulOf(view)'
    <3>1. CASE v.dirty
      <4>1. view'.state = "Saved" /\ view'.deployment = v.deployment /\ view'.committed = v.committed
        BY <2>1, <3>1 DEF Views
      <4>2. abandoned \/ v.deployment = v.committed.doc
        BY <1>7, <1>8, <2>6, <3>1
      <4> QED
        BY <4>1, <4>2 DEF TruthfulOf
    <3>2. CASE ~v.dirty
      BY <1>2, <2>1, <3>2 DEF TruthfulOf, Sendable
    <3> QED
      BY <3>1, <3>2
  <2>14. Truthful'
    BY <2>13 DEF Truthful, TruthfulOf
  <2> QED
    BY <2>7, <2>8, <2>9, <2>10, <2>11, <2>12, <2>14 DEF IInv
<1>9. CASE ~done
  <2> DEFINE newer == u # None /\ u.newer
  <2> DEFINE call == [NoCall EXCEPT !.step = "asked", !.id = id, !.newer = newer]
  <2>1. /\ uncertain' = None
        /\ id <= MaxPatches
        /\ view' = [v EXCEPT !.state = "Saving"]
        /\ patches' = IF u # None THEN patches ELSE Append(patches, Patch(v.committed, sent, v.proposalId))
        /\ calls' = [calls EXCEPT !["save"] = call]
        /\ wire' = [wire EXCEPT ![id] = @ + 1]
    BY <1>9 DEF Sends
  <2>2. id \in 1..MaxPatches /\ id \in Ids
    BY <1>3, <1>5, <2>1, DraftBounds DEF Ids
  <2>3. call \in Calls /\ call.step = "asked" /\ call.id = id /\ call.answer = Nothing
        /\ call.newer = newer
    <3>1. newer \in BOOLEAN
      <4>1. CASE u = None
        BY <4>1
      <4>2. CASE u # None
        <5>1. u.newer \in BOOLEAN
          BY <4>2 DEF Sendable, Unknowns
        <5> QED
          BY <4>2, <5>1
      <4> QED
        BY <4>1, <4>2
    <3>2. NoCall \in Calls /\ id \in 0..MaxPatches
      BY <2>2, Records
    <3>3. NoCall.answer = Nothing
      BY DEF NoCall
    <3> HIDE DEF newer, id
    <3> QED
      BY <3>1, <3>2, <3>3 DEF Calls
  <2>4. calls' \in [Channels -> Calls] /\ calls'["save"] = call /\ calls'["resolve"] = calls["resolve"]
    BY <1>3, <2>1, <2>3 DEF Channels
  <2> HIDE DEF call
  <2>5. view' \in Views /\ view'.proposalId = v.proposalId /\ view'.state = "Saving"
        /\ view'.committed = v.committed /\ view'.deployment = v.deployment /\ view'.dirty = v.dirty
    BY <2>1 DEF Views
  <2>6. /\ patches' \in Seq(Patches) /\ Len(patches') \in Nat /\ Len(patches') <= MaxPatches
        /\ Len(patches) <= Len(patches') /\ id \in 1..Len(patches') /\ patches'[id].sent = sent
        /\ \A i \in 1..Len(patches) : patches'[i] = patches[i]
    <3>1. CASE u # None
      BY <1>3, <1>5, <2>1, <3>1
    <3>2. CASE u = None
      <4> DEFINE p == Patch(v.committed, sent, v.proposalId)
      <4>1. p \in Patches /\ p.sent = sent
        BY <1>4, <1>6 DEF Patch, Patches
      <4>2. patches' = Append(patches, p)
        BY <2>1, <3>2
      <4> HIDE DEF p
      <4> QED
        BY <1>1, <1>3, <2>1, <3>2, <4>1, <4>2, OneMore
    <3> QED
      BY <3>1, <3>2
  <2>7. id # dialog.patch /\ id # calls["resolve"].id
    <3>1. CASE u # None
      BY <3>1 DEF Sendable, Own
    <3>2. CASE u = None
      BY <1>1, <1>3, <3>2, CallTyped DEF Named, Channels
    <3> QED
      BY <3>1, <3>2
  <2>8. wire' \in [Ids -> Nat] /\ wire'[id] > 0 /\ \A i \in Ids : i # id => wire'[i] = wire[i]
    BY <1>3, <2>1, <2>2
  <2> HIDE DEF id, sent, done, newer
  <2>9. Shape'
    BY <1>1, <1>2, <2>1, <2>4, <2>5, <2>6, <2>8 DEF Shape
  <2>10. Named'
    <3>1. \A c \in Channels : /\ calls'[c].step # "idle" => calls'[c].id \in 1..Len(patches')
                              /\ calls'[c].step = "idle" => calls'[c] = NoCall
      BY <1>1, <1>3, <2>3, <2>4, <2>6 DEF Named, Channels
    <3>2. \A i \in Ids : wire'[i] > 0 \/ results'[i].kind # "none" => i <= Len(patches')
      BY <1>1, <1>2, <1>3, <2>6, <2>8 DEF Named, Ids
    <3>3. applying'.id = 0 => applying'.answer = Nothing
      BY <1>1 DEF Named
    <3>4. dialog.patch <= Len(patches')
      BY <1>1, <1>3, <2>6 DEF Named, Shape, DialogStates
    <3>5. v.proposalId <= Len(patches')
      BY <1>3, <1>4, <2>6 DEF Sendable
    <3> QED
      BY <1>1, <1>3, <2>1, <2>5, <2>6, <3>1, <3>2, <3>3, <3>4, <3>5 DEF Named
  <2>11. Apart'
    BY <2>1, <2>3, <2>4, <2>7 DEF Apart, Own
  <2>12. OnItsWay'
    <3>1. Awaits("resolve", calls["resolve"].id)' => wire'[calls'["resolve"].id] > 0
      <4>1. Awaits("resolve", calls["resolve"].id)' => calls["resolve"].id \in Ids
        BY <1>1, <2>4, PatchTyped DEF Named, Awaits, Channels
      <4> QED
        BY <1>1, <2>4, <2>7, <2>8, <4>1 DEF OnItsWay, Awaits, Channels
    <3> QED
      BY <2>3, <2>4, <2>8, <3>1 DEF OnItsWay, Channels
  <2>13. Answering'
    <3>1. \A c \in Channels : Holds(calls[c].answer, calls[c].id)' /\ Stored(calls[c].answer, calls[c].id)'
      <4>1. Holds(calls["save"].answer, calls["save"].id)' /\ Stored(calls["save"].answer, calls["save"].id)'
        BY <2>3, <2>4 DEF Holds, Stored, Nothing
      <4> QED
        BY <1>1, <1>2, <2>4, <2>6, <4>1, KnownStays DEF Channels
    <3> QED
      BY <1>1, <1>2, <2>6, <3>1, KnownStays DEF Answering
  <2>14. Saving'
    <3>1. v.dirty /\ sent # v.committed.doc
      BY <1>7, <1>9 DEF done
    <3>2. ~abandoned /\ ~newer => sent = v.deployment
      BY DEF sent, newer, Sendable
    <3> QED
      BY <2>1, <2>3, <2>4, <2>5, <2>6, <3>1, <3>2 DEF Saving, Sent
  <2>15. Truthful'
    BY <2>5 DEF Truthful
  <2> QED
    BY <2>9, <2>10, <2>11, <2>12, <2>13, <2>14, <2>15 DEF IInv
<1> QED
  BY <1>8, <1>9

LEMMA flushStep ==
  ASSUME IInv, flush
  PROVE  IInv'
<1>1. Shape /\ Named /\ Apart /\ OnItsWay /\ Answering /\ Saving /\ Truthful
  BY DEF IInv
<1>2. applying.id = 0 /\ timer' = FALSE
      /\ UNCHANGED <<repository, applying, dialog, abandoned, wanted>>
  BY DEF flush, ghosts
<1>3. CASE calls["save"].step = "idle"
  <2>1. Sends(view, uncertain)
    BY <1>3 DEF flush, Loops
  <2>2. Sendable(view, uncertain)
    BY <1>1, TruthfulView DEF Sendable, Named, Apart, Saving, Sent, Shape
  <2> QED
    BY <1>1, <1>2, <2>1, <2>2, SendsStep DEF Shape
<1>4. CASE calls["save"].step # "idle"
  <2>1. UNCHANGED <<view, calls, wire, patches, uncertain>>
    BY <1>4 DEF flush
  <2>2. UNCHANGED <<source, authors, mode, results>>
    BY <1>2 DEF repository
  <2>3. Shape'
    BY <1>1, <1>2, <2>1, <2>2 DEF Shape
  <2>4. Named' /\ Apart' /\ OnItsWay' /\ Answering' /\ Saving' /\ Truthful'
    BY <1>1, <1>2, <2>1, <2>2 DEF Named, Apart, Own, OnItsWay, Awaits, Answering, Holds, Stored,
       Saving, Sent, Truthful
  <2> QED
    BY <2>3, <2>4 DEF IInv
<1> QED
  BY <1>3, <1>4

(* What a step leaves when it changes nothing that proposals are made of.  *)
LEMMA ApplyingOnly ==
  ASSUME IInv, UNCHANGED <<repository, wire, patches, view, uncertain, calls, dialog, abandoned>>,
         timer' \in BOOLEAN, wanted' \in [Fields -> Values \cup {None}],
         applying' \in Applications, applying'.id <= Len(patches),
         applying'.id = 0 => applying'.answer = Nothing,
         applying'.id # 0 => Holds(applying'.answer, applying'.id) /\ calls["save"].step = "idle"
  PROVE  IInv'
<1>1. Shape /\ Named /\ Apart /\ OnItsWay /\ Answering /\ Saving /\ Truthful
  BY DEF IInv
<1>2. UNCHANGED <<source, authors, mode, results>>
  BY DEF repository
<1>3. Shape'
  BY <1>1, <1>2 DEF Shape
<1>4. Named' /\ Apart'
  BY <1>1, <1>2 DEF Named, Apart, Own
<1>5. (applying.id # 0 => Holds(applying.answer, applying.id))'
  BY DEF Holds
<1>6. OnItsWay' /\ Answering'
  BY <1>1, <1>2, <1>5, RequestsStay
<1>7. Saving' /\ Truthful'
  BY <1>1, <1>2 DEF Saving, Sent, Truthful
<1> QED
  BY <1>3, <1>4, <1>6, <1>7 DEF IInv

LEMMA flushWaitsStep ==
  ASSUME IInv, flushWaits
  PROVE  IInv'
<1>1. Shape /\ Named /\ Answering /\ Saving
  BY DEF IInv
<1>2. applying \in Applications /\ wanted \in [Fields -> Values \cup {None}]
  BY <1>1 DEF Shape
<1>3. applying' \in Applications /\ applying'.id = applying.id /\ applying'.answer = applying.answer
  BY <1>2 DEF flushWaits, Applications
<1>4. UNCHANGED <<repository, wire, patches, view, uncertain, calls, dialog, abandoned, wanted>> /\ timer' \in BOOLEAN
  BY DEF flushWaits, ghosts
<1>5. applying'.id <= Len(patches) /\ applying'.id # 0 /\ Holds(applying'.answer, applying'.id)
      /\ calls["save"].step = "idle"
  BY <1>1, <1>3 DEF flushWaits, Named, Answering, Saving
<1> QED
  BY <1>2, <1>3, <1>4, <1>5, ApplyingOnly

(* The snapshot of a commit with what was entered after it was sent.       *)
LEMMA MergedIs ==
  ASSUME Shape, NEW s \in Snapshots, NEW sent \in Documents
  PROVE  /\ Merged(s, sent) \in Views
         /\ Merged(s, sent).proposalId = 0 /\ Merged(s, sent).committed = s
         /\ Merged(s, sent).state # "Proposed"
         /\ ~Merged(s, sent).dirty => Merged(s, sent).deployment = s.doc
<1> DEFINE left == operationsBetween(sent, view.deployment)
<1>1. view.deployment \in Documents /\ s.doc \in Documents /\ MaxPatches \in Nat
  BY DraftBounds DEF Shape, Views, Snapshots
<1>2. /\ Rebased(s, sent, view.deployment) \in Documents
      /\ left = {} => Rebased(s, sent, view.deployment) = s.doc
  BY <1>1, Applied DEF Rebased
<1> DEFINE more == left # {}
<1> DEFINE state == IF left = {} THEN "Saved" ELSE "Editing"
<1> DEFINE doc == Rebased(s, sent, view.deployment)
<1>3. Merged(s, sent) = [committed |-> s, deployment |-> doc, proposalId |-> 0, state |-> state,
                         dirty |-> more]
  BY DEF Merged
<1> HIDE DEF left, doc
<1>4. more \in BOOLEAN /\ state \in {"Saved", "Editing"}
  OBVIOUS
<1>5. doc \in Documents /\ (~more => doc = s.doc)
  BY <1>2 DEF doc
<1> HIDE DEF more, state
<1>6. Merged(s, sent) \in Views
  BY <1>1, <1>3, <1>4, <1>5 DEF Views
<1>7. /\ Merged(s, sent).proposalId = 0 /\ Merged(s, sent).committed = s
      /\ Merged(s, sent).state = state /\ Merged(s, sent).deployment = doc
      /\ Merged(s, sent).dirty = more
  BY <1>3
<1> QED
  BY <1>4, <1>5, <1>6, <1>7

(* What a caller is told is an answer of the server, or that it is unknown. *)
LEMMA ToldIs ==
  ASSUME Shape, Named, Answering, NEW c \in Channels
  PROVE  /\ Told(c) \in Answers
         /\ Told(c).kind \in {"committed", "proposal"} => /\ Told(c) = calls[c].answer
                                                          /\ results[calls[c].id].kind # "none"
         /\ Holds(Told(c), calls[c].id)
<1>1. Told(c) = calls[c].answer \/ Told(c) = Result("unknown", None)
  BY DEF Told
<1>2. Told(c) = calls[c].answer /\ Told(c).kind \in {"committed", "proposal"}
        => results[calls[c].id].kind # "none"
  BY DEF Answering, Stored
<1>3. Result("unknown", None) \in Answers /\ Result("unknown", None).kind = "unknown"
  BY Records DEF Result, Kinds
<1>4. Holds(calls[c].answer, calls[c].id) /\ Holds(Result("unknown", None), calls[c].id)
  BY <1>3 DEF Answering, Holds
<1> QED
  BY <1>1, <1>2, <1>3, <1>4, CallTyped

LEMMA FailsStep ==
  ASSUME IInv, NEW state \in Failing, NEW kept, Fails(state, kept),
         kept = None \/ kept = Kept(calls["save"].id, calls["save"].newer),
         UNCHANGED <<repository, timer, dialog, abandoned>>, calls["save"].step # "idle",
         wanted' \in [Fields -> Values \cup {None}], applying' \in Applications,
         applying.id = 0, applying'.id = 0, applying'.answer = applying.answer
  PROVE  IInv'
<1>1. Shape /\ Named /\ Apart /\ OnItsWay /\ Answering /\ Saving
  BY DEF IInv
<1>2. UNCHANGED <<source, authors, mode, results>>
  BY DEF repository
<1>3. calls \in [Channels -> Calls] /\ view \in Views
  BY <1>1 DEF Shape
<1>4. view' = [view EXCEPT !.state = state] /\ calls' = [calls EXCEPT !["save"] = NoCall]
      /\ uncertain' = kept /\ UNCHANGED <<wire, patches>>
  BY DEF Fails, Failed
<1>5. view' \in Views /\ view'.proposalId = view.proposalId /\ view'.state \in Failing
      /\ view'.committed = view.committed /\ view'.deployment = view.deployment /\ view'.dirty = view.dirty
  BY <1>3, <1>4 DEF Views
<1>6. calls' \in [Channels -> Calls] /\ calls'["save"] = NoCall /\ calls'["resolve"] = calls["resolve"]
  BY <1>3, <1>4, Records DEF Channels
<1>7. NoCall.step = "idle" /\ NoCall.answer = Nothing
  BY DEF NoCall
<1>8. calls["save"].id \in 1..Len(patches) /\ calls["save"].id \in Ids /\ calls["save"].newer \in BOOLEAN
  BY <1>1, <1>3, CallTyped, PatchTyped DEF Channels, Calls
<1>9. uncertain' = None \/ (/\ uncertain' \in Unknowns /\ uncertain'.id = calls["save"].id
                            /\ uncertain'.newer = calls["save"].newer)
  BY <1>4, <1>8 DEF Kept, Unknowns
<1>10. "Proposed" \notin Failing /\ "Saved" \notin Failing
  BY DEF Failing
<1>11. Shape'
  <2>1. uncertain' = None \/ uncertain' \in Unknowns
    BY <1>9
  <2> QED
    BY <1>1, <1>2, <1>4, <1>5, <1>6, <2>1 DEF Shape
<1>12. Named'
  <2>1. \A c \in Channels : /\ calls'[c].step # "idle" => calls'[c].id \in 1..Len(patches)
                            /\ calls'[c].step = "idle" => calls'[c] = NoCall
    BY <1>1, <1>6, <1>7 DEF Named, Channels
  <2>2. uncertain' # None => uncertain'.id <= Len(patches)
    BY <1>8, <1>9
  <2> QED
    BY <1>1, <1>2, <1>4, <1>5, <1>10, <2>1, <2>2 DEF Named
<1>13. Apart'
  BY <1>1, <1>6, <1>7, <1>9 DEF Apart, Own
<1>14. OnItsWay'
  BY <1>1, <1>4, <1>6, <1>7 DEF OnItsWay, Awaits, Channels
<1>15. Answering'
  <2>1. \A c \in Channels : Holds(calls[c].answer, calls[c].id)' /\ Stored(calls[c].answer, calls[c].id)'
    <3>1. Holds(calls["save"].answer, calls["save"].id)' /\ Stored(calls["save"].answer, calls["save"].id)'
      BY <1>6, <1>7 DEF Holds, Stored, Nothing
    <3> QED
      BY <1>1, <1>2, <1>4, <1>6, <3>1, KnownStays DEF Channels
  <2> QED
    BY <1>1, <1>2, <1>4, <2>1, KnownStays DEF Answering
<1>16. Saving'
  BY <1>1, <1>4, <1>5, <1>6, <1>7, <1>9 DEF Saving, Sent
<1>17. Truthful'
  BY <1>5, <1>10 DEF Truthful
<1> QED
  BY <1>11, <1>12, <1>13, <1>14, <1>15, <1>16, <1>17 DEF IInv

LEMMA SaveEndsStep ==
  ASSUME IInv, SaveEnds
  PROVE  IInv'
<1> DEFINE c == calls["save"]
<1> DEFINE r == Told("save")
<1>1. Shape /\ Named /\ Apart /\ OnItsWay /\ Answering /\ Saving
  BY DEF IInv
<1>2. "save" \in Channels
  BY DEF Channels
<1>3. c.step # "idle" /\ c.id \in 1..Len(patches) /\ c \in Calls
  BY <1>1, <1>2, CallTyped DEF SaveEnds, Answered
<1>4. patches[c.id].sent \in Documents /\ c.id \in Ids
  BY <1>1, <1>3, PatchTyped
<1>5. applying.id = 0 /\ Sent(c.id, c.newer)
  BY <1>1, <1>3 DEF Saving
<1>6. applying' = [applying EXCEPT !.touched = TRUE]
      /\ UNCHANGED <<repository, timer, dialog, abandoned>>
  BY DEF SaveEnds
<1>7. applying' \in Applications /\ applying'.id = 0 /\ applying'.answer = applying.answer
  BY <1>1, <1>5, <1>6 DEF Shape, Applications
<1>8. /\ r \in Answers /\ Holds(r, c.id)
      /\ r.kind \in {"committed", "proposal"} => results[c.id].kind # "none"
  BY <1>1, <1>2, ToldIs
<1>9. view \in Views /\ timer' \in BOOLEAN
  BY <1>1, <1>6 DEF Shape
<1>10. wanted' \in [Fields -> Values \cup {None}]
  <2>1. wanted \in [Fields -> Values \cup {None}]
    BY <1>1 DEF Shape
  <2>2. CASE r.kind = "committed"
    <3>1. wanted' = [f \in Fields |-> IF r.snapshot.doc[f] = wanted[f] THEN None ELSE wanted[f]]
      BY <2>2 DEF SaveEnds
    <3> QED
      BY <2>1, <3>1
  <2>3. CASE r.kind # "committed"
    BY <2>1, <2>3 DEF SaveEnds
  <2> QED
    BY <2>2, <2>3
<1>11. CASE r.kind = "committed"
  <2> DEFINE v == Merged(r.snapshot, patches[c.id].sent)
  <2>1. r.snapshot \in Snapshots
    BY <1>8, <1>11 DEF Holds
  <2>2. /\ v \in Views
        /\ v.proposalId = 0 /\ v.state # "Proposed" /\ v.committed = r.snapshot
        /\ ~v.dirty => v.deployment = r.snapshot.doc
    BY <1>1, <1>4, <2>1, MergedIs
  <2>3. Sends(v, None)
    BY <1>11 DEF SaveEnds, Loops
  <2> HIDE DEF v, r
  <2>4. Sendable(v, None)
    <3>1. 0 <= Len(patches)
      BY <1>1, LenProperties DEF Shape
    <3> QED
      BY <2>2, <3>1 DEF Sendable, TruthfulOf
  <2> QED
    BY <1>5, <1>6, <1>7, <1>9, <1>10, <2>2, <2>3, <2>4, SendsStep
<1>12. CASE r.kind = "proposal"
  <2> DEFINE v == Proposed(c.id, c.newer)
  <2>1. Sends(v, None)
    BY <1>12 DEF SaveEnds, Loops
  <2>2. v = [view EXCEPT !.proposalId = c.id, !.state = "Proposed", !.dirty = c.newer]
    BY DEF Proposed
  <2>3. c.newer \in BOOLEAN /\ c.id \in 0..MaxPatches
    BY <1>3 DEF Calls
  <2> HIDE DEF v, r, c
  <2>4. v \in Views /\ v.proposalId = c.id /\ v.deployment = view.deployment /\ v.dirty = c.newer
        /\ v.state = "Proposed" /\ v.committed = view.committed
    BY <1>9, <2>2, <2>3 DEF Views
  <2>5. TruthfulOf(v)
    BY <1>5, <1>8, <1>12, <2>4 DEF TruthfulOf, Sent
  <2>6. Sendable(v, None)
    BY <1>3, <2>4, <2>5 DEF Sendable
  <2> QED
    BY <1>5, <1>6, <1>7, <1>9, <1>10, <2>1, <2>4, <2>6, SendsStep
<1>13. CASE r.kind \notin {"committed", "proposal"}
  <2>1. \E state \in Failing : \E kept \in {None, Kept(c.id, c.newer)} : Fails(state, kept)
    BY <1>13 DEF SaveEnds, Failing
  <2> QED
    BY <1>3, <1>5, <1>6, <1>7, <1>10, <2>1, FailsStep
<1> QED
  BY <1>11, <1>12, <1>13

(* The draft or the dialog changes, and no request: what is under way is   *)
(* given up, or the draft still holds it.                                  *)
LEMMA DraftChanges ==
  ASSUME IInv, NEW v \in Views, view' = v, UNCHANGED <<repository, wire, patches>>,
         uncertain' \in {None, uncertain}, timer' \in BOOLEAN,
         abandoned' \in BOOLEAN, abandoned => abandoned',
         wanted' \in [Fields -> Values \cup {None}], applying' \in Applications,
         \/ applying' = NotApplying
         \/ applying'.id = applying.id /\ applying'.answer = applying.answer,
         calls' \in {calls, [calls EXCEPT !["resolve"] = NoCall]},
         dialog' \in DialogStates, dialog'.patch \in {0, dialog.patch},
         dialog'.on => dialog'.current \in Snapshots,
         v.proposalId <= Len(patches), v.state = "Proposed" => v.proposalId # 0, TruthfulOf(v),
         calls["save"].step # "idle" \/ uncertain' # None =>
           \/ abandoned'
           \/ /\ v.committed = view.committed /\ v.deployment = view.deployment
              /\ v.dirty = view.dirty
  PROVE  IInv'
<1>1. Shape /\ Named /\ Apart /\ OnItsWay /\ Answering /\ Saving
  BY DEF IInv
<1>2. UNCHANGED <<source, authors, mode, results>>
  BY DEF repository
<1>3. calls \in [Channels -> Calls]
  BY <1>1 DEF Shape
<1>4. NoCall.step = "idle" /\ NoCall.answer = Nothing /\ NoCall.id = 0
  BY DEF NoCall
<1>5. calls' \in [Channels -> Calls] /\ calls'["save"] = calls["save"]
      /\ (calls'["resolve"] = calls["resolve"] \/ calls'["resolve"] = NoCall)
  BY <1>3, Records DEF Channels
<1>6. Len(patches) \in Nat /\ \A i \in 1..Len(patches) : i # 0
  BY <1>1, LenProperties DEF Shape
<1>7. Shape'
  <2>1. uncertain' = None \/ uncertain' \in Unknowns
    BY <1>1 DEF Shape
  <2> QED
    BY <1>1, <1>2, <1>5, <2>1 DEF Shape
<1>8. Named'
  <2>1. \A c \in Channels : /\ calls'[c].step # "idle" => calls'[c].id \in 1..Len(patches)
                            /\ calls'[c].step = "idle" => calls'[c] = NoCall
    BY <1>1, <1>4, <1>5 DEF Named, Channels
  <2>2. applying'.id <= Len(patches) /\ (applying'.id = 0 => applying'.answer = Nothing)
    BY <1>1, <1>6 DEF Named, NotApplying
  <2>3. dialog'.patch <= Len(patches)
    BY <1>1, <1>6 DEF Named
  <2>4. uncertain' # None => uncertain'.id <= Len(patches)
    BY <1>1 DEF Named
  <2> QED
    BY <1>1, <1>2, <2>1, <2>2, <2>3, <2>4 DEF Named
<1>9. Apart'
  <2>1. calls["save"].step # "idle" => calls["save"].id # 0
    BY <1>1, <1>6, CallTyped DEF Channels
  <2>2. uncertain' # None => uncertain'.id # 0
    BY <1>1, DraftBounds DEF Shape, Unknowns, Ids
  <2>3. calls["save"].step # "idle" => Own(calls["save"].id)'
    BY <1>1, <1>4, <1>5, <2>1 DEF Apart, Own
  <2>4. uncertain' # None => Own(uncertain.id)'
    BY <1>1, <1>4, <1>5, <2>2 DEF Apart, Own
  <2> QED
    BY <1>5, <2>3, <2>4 DEF Apart
<1>10. OnItsWay'
  BY <1>1, <1>4, <1>5 DEF OnItsWay, Awaits, Channels
<1>11. Answering'
  <2>1. \A c \in Channels : Holds(calls[c].answer, calls[c].id)' /\ Stored(calls[c].answer, calls[c].id)'
    <3> SUFFICES ASSUME NEW c \in Channels
                 PROVE  Holds(calls[c].answer, calls[c].id)' /\ Stored(calls[c].answer, calls[c].id)'
      OBVIOUS
    <3>1. CASE calls'[c] = calls[c]
      BY <1>1, <1>2, <3>1, KnownStays
    <3>2. CASE calls'[c] = NoCall
      BY <1>4, <3>2 DEF Holds, Stored, Nothing
    <3> QED
      BY <1>5, <3>1, <3>2 DEF Channels
  <2>2. applying'.id # 0 => Holds(applying.answer, applying.id)'
    BY <1>1, <1>2 DEF Answering, Holds, NotApplying
  <2> QED
    BY <1>1, <1>2, <2>1, <2>2, KnownStays DEF Answering
<1>12. Saving'
  <2>1. calls["save"].step # "idle" =>
          uncertain' = None /\ applying'.id = 0 /\ Sent(calls["save"].id, calls["save"].newer)'
    <3> SUFFICES ASSUME calls["save"].step # "idle"
                 PROVE  /\ uncertain' = None /\ applying'.id = 0
                        /\ Sent(calls["save"].id, calls["save"].newer)'
      OBVIOUS
    <3>1. uncertain' = None /\ applying'.id = 0
      BY <1>1 DEF Saving, NotApplying
    <3>2. Sent(calls["save"].id, calls["save"].newer)'
      BY <1>1, <1>5 DEF Saving, Sent
    <3> QED
      BY <3>1, <3>2
  <2>2. uncertain' # None => Sent(uncertain.id, uncertain.newer)'
    BY <1>1 DEF Saving, Sent
  <2> QED
    BY <1>5, <2>1, <2>2 DEF Saving
<1>13. Truthful'
  BY <1>2 DEF Truthful, TruthfulOf
<1> QED
  BY <1>7, <1>8, <1>9, <1>10, <1>11, <1>12, <1>13 DEF IInv

LEMMA Counts == ASSUME Shape PROVE Len(patches) \in Nat /\ 0 <= Len(patches)
BY LenProperties DEF Shape

LEMMA FreshIs ==
  ASSUME NEW s \in Snapshots
  PROVE  /\ Fresh(s).proposalId = 0 /\ Fresh(s).state = "Saved" /\ Fresh(s).deployment = s.doc
         /\ Fresh(s).committed = s /\ TruthfulOf(Fresh(s))
BY DEF Fresh, TruthfulOf

(* A proposal that is being applied is left alone, but for being touched.  *)
LEMMA Touched ==
  ASSUME Shape, applying' = [applying EXCEPT !.touched = TRUE]
  PROVE  applying' \in Applications /\ applying'.id = applying.id /\ applying'.answer = applying.answer
BY DEF Shape, Applications

LEMMA discardStep ==
  ASSUME IInv, discard
  PROVE  IInv'
<1>1. Shape /\ Named
  BY DEF IInv
<1>2. view.committed \in Snapshots /\ dialog \in DialogStates /\ abandoned \in BOOLEAN
      /\ NotWanted \in [Fields -> Values \cup {None}]
  BY <1>1 DEF Shape, Views, NotWanted
<1>3. view' = Fresh(view.committed) /\ timer' = FALSE /\ uncertain' = None
      /\ applying' = [applying EXCEPT !.touched = TRUE] /\ wanted' = NotWanted
      /\ UNCHANGED <<repository, wire, patches, calls, dialog>>
  BY DEF discard, replace
<1>4. abandoned' \in BOOLEAN /\ (abandoned => abandoned') /\ (calls["save"].step # "idle" => abandoned')
  <2>1. abandoned' = (abandoned \/ GivesUp)
    BY DEF discard
  <2> QED
    BY <1>2, <2>1 DEF GivesUp
<1>5. Fresh(view.committed) \in Views
  BY <1>2, FreshTyped
<1>6. dialog.on => dialog.current \in Snapshots
  BY <1>1 DEF Named
<1> QED
  BY <1>1, <1>2, <1>3, <1>4, <1>5, <1>6, Counts, Touched, FreshIs, DraftChanges

LEMMA refreshStep ==
  ASSUME IInv, refresh
  PROVE  IInv'
<1>1. Shape /\ Named /\ Saving
  BY DEF IInv
<1>2. source \in Snapshots /\ dialog \in DialogStates /\ abandoned \in BOOLEAN
      /\ NotWanted \in [Fields -> Values \cup {None}]
  BY <1>1 DEF Shape, NotWanted
<1>3. view' = Fresh(source) /\ timer' = FALSE /\ uncertain' = None
      /\ applying' = [applying EXCEPT !.touched = TRUE] /\ wanted' = NotWanted
      /\ UNCHANGED <<repository, wire, patches, calls, dialog, abandoned>>
  BY DEF refresh, replace
<1>4. calls["save"].step # "idle" => abandoned
  BY <1>1 DEF refresh, canRefreshSource, Saving, Sent
<1>5. Fresh(source) \in Views
  BY <1>2, FreshTyped
<1>6. dialog.on => dialog.current \in Snapshots
  BY <1>1 DEF Named
<1> QED
  BY <1>1, <1>2, <1>3, <1>4, <1>5, <1>6, Counts, Touched, FreshIs, DraftChanges

LEMMA loadProposalStep ==
  ASSUME IInv, NEW id \in Ids, loadProposal(id)
  PROVE  IInv'
<1> DEFINE v == [view EXCEPT !.deployment = patches[id].sent, !.proposalId = id, !.state = "Proposed"]
<1>1. Shape /\ Named /\ Saving
  BY DEF IInv
<1>2. view \in Views /\ dialog \in DialogStates /\ abandoned \in BOOLEAN
      /\ NotWanted \in [Fields -> Values \cup {None}]
  BY <1>1 DEF Shape, NotWanted
<1>3. view' = v /\ timer' = FALSE
      /\ applying' = [applying EXCEPT !.touched = TRUE] /\ wanted' = NotWanted
      /\ UNCHANGED <<repository, wire, patches, uncertain, calls, dialog>>
  BY DEF loadProposal
<1>4. results[id].kind = "proposal" /\ ~view.dirty /\ calls["save"].step = "idle"
  BY DEF loadProposal
<1>5. id \in 1..Len(patches)
  BY <1>1, <1>4, Counts DEF Named, Ids
<1>6. patches[id].sent \in Documents /\ id \in 0..MaxPatches /\ id # 0
  BY <1>1, <1>5, PatchTyped DEF Ids
<1>7. v \in Views /\ v.proposalId = id /\ v.state = "Proposed" /\ v.deployment = patches[id].sent
  BY <1>2, <1>6 DEF Views
<1>8. abandoned' \in BOOLEAN /\ (abandoned => abandoned')
  <2>1. abandoned' = (abandoned \/ view.proposalId # 0)
    BY DEF loadProposal
  <2> QED
    BY <1>2, <2>1
<1>9. uncertain # None => abandoned'
  BY <1>1, <1>4, <1>8 DEF Saving, Sent
<1> HIDE DEF v
<1>10. TruthfulOf(v)
  BY <1>4, <1>7 DEF TruthfulOf
<1>11. dialog.on => dialog.current \in Snapshots
  BY <1>1 DEF Named
<1>12. id <= Len(patches)
  BY <1>5
<1> QED
  BY <1>1, <1>2, <1>3, <1>4, <1>6, <1>7, <1>8, <1>9, <1>10, <1>11, <1>12, Touched, DraftChanges

LEMMA applyProposalStep ==
  ASSUME IInv, NEW id \in Ids, applyProposal(id)
  PROVE  IInv'
<1>1. Shape /\ Named
  BY DEF IInv
<1>2. applying' = [NotApplying EXCEPT !.id = id] /\ wanted' = NotWanted
      /\ UNCHANGED <<repository, wire, patches, view, timer, uncertain, calls, dialog, abandoned>>
      /\ results[id].kind = "proposal" /\ calls["save"].step = "idle"
  BY DEF applyProposal
<1>3. id \in 0..MaxPatches
  BY DraftBounds DEF Ids
<1>4. applying' \in Applications /\ applying'.id = id /\ applying'.answer = Nothing
  BY <1>2, <1>3, Records DEF Applications, NotApplying
<1>5. id <= Len(patches)
  BY <1>1, <1>2 DEF Named
<1>6. Holds(Nothing, id)
  BY DEF Holds, Nothing
<1>7. NotWanted \in [Fields -> Values \cup {None}] /\ timer \in BOOLEAN
  BY <1>1 DEF Shape, NotWanted
<1> QED
  BY <1>2, <1>4, <1>5, <1>6, <1>7, ApplyingOnly

LEMMA ServeProposalStep ==
  ASSUME IInv, ServeProposal
  PROVE  IInv'
<1> DEFINE id == applying.id
<1> DEFINE p == patches[id]
<1> DEFINE fits == p.base.rev = source.rev /\ ~Superseded(id)
<1> DEFINE new == NextRevision(p.sent)
<1> DEFINE r == Result("committed", new)
<1>1. Shape /\ Named /\ Apart /\ OnItsWay /\ Answering /\ Saving /\ Truthful
  BY DEF IInv
<1>2. UNCHANGED <<mode, wire, patches, view, timer, uncertain, calls, dialog, wanted, abandoned>> /\ id # 0
  BY DEF ServeProposal, ghosts
<1>3. applying \in Applications /\ results \in [Ids -> Answers] /\ source \in Snapshots
      /\ authors \in Seq(Authors) /\ Len(authors) = source.rev
  BY <1>1 DEF Shape
<1>4. id \in 1..Len(patches) /\ id \in Ids
  BY <1>1, <1>2, <1>3, Counts, PatchTyped DEF Named, Applications
<1>5. p.sent \in Documents
  BY <1>1, <1>4, PatchTyped
<1>6. new \in Snapshots /\ new.doc = p.sent /\ new.rev = source.rev + 1
  BY <1>1, <1>5, RevisionTyped
<1>7. r \in Answers /\ Holds(r, id) /\ r.kind = "committed"
  BY <1>6, Records DEF Result, Holds, Kinds
<1>8. /\ source' \in Snapshots /\ authors' \in Seq(Authors) /\ Len(authors') = source'.rev
      /\ results' \in [Ids -> Answers]
      /\ \A i \in Ids : i # id => results'[i] = results[i]
      /\ results'[id] = results[id] \/ results'[id] = r
      /\ applying' \in Applications /\ applying'.id = id /\ Holds(applying'.answer, id)
  <2>1. CASE results[id].kind = "committed"
    <3>1. applying' = [applying EXCEPT !.answer = results[id]] /\ UNCHANGED <<results, source, authors>>
      BY <2>1 DEF ServeProposal
    <3>2. Holds(results[id], id) /\ results[id] \in Answers
      BY <1>1, <1>3, <1>4 DEF Answering
    <3> QED
      BY <1>3, <1>4, <3>1, <3>2 DEF Applications
  <2>2. CASE results[id].kind = "proposal" /\ fits
    <3>1. source' = new /\ authors' = Append(authors, "proposal")
          /\ results' = [results EXCEPT ![id] = r] /\ applying' = [applying EXCEPT !.answer = r]
      BY <2>2 DEF ServeProposal
    <3>2. authors' \in Seq(Authors) /\ Len(authors') = Len(authors) + 1
      BY <1>3, <3>1, AppendProperties DEF Authors
    <3> HIDE DEF new, r
    <3> QED
      BY <1>3, <1>4, <1>6, <1>7, <3>1, <3>2 DEF Applications
  <2>3. CASE results[id].kind = "proposal" /\ ~fits
    <3>1. applying' = [applying EXCEPT !.answer = Result("conflict", None)]
          /\ UNCHANGED <<results, source, authors>>
      BY <2>3 DEF ServeProposal
    <3>2. Holds(Result("conflict", None), id) /\ Result("conflict", None) \in Answers
      BY NoCommit
    <3> QED
      BY <1>3, <1>4, <3>1, <3>2 DEF Applications
  <2> QED
    BY <2>1, <2>2, <2>3 DEF ServeProposal
<1>9. /\ \A i \in Ids : results[i].kind # "none" => results'[i].kind # "none"
      /\ \A i \in Ids : results'[i].kind \in {"none", "committed", "proposal"} /\ Holds(results'[i], i)
  BY <1>1, <1>7, <1>8 DEF Answering
<1>10. \A i \in Ids : results'[i].kind # "none" => i <= Len(patches)
  BY <1>1, <1>4, <1>8 DEF Named
<1> HIDE DEF r, new, fits, p
<1>11. Shape'
  BY <1>1, <1>2, <1>8 DEF Shape
<1>12. Named'
  BY <1>1, <1>2, <1>8, <1>10 DEF Named
<1>13. Apart' /\ OnItsWay'
  BY <1>1, <1>2 DEF Apart, Own, OnItsWay, Awaits
<1>14. Answering'
  <2>1. \A i \in Ids : results'[i].kind \in {"none", "committed", "proposal"} /\ Holds(results[i], i)'
    BY <1>2, <1>9 DEF Holds
  <2>2. \A c \in Channels : Holds(calls[c].answer, calls[c].id)' /\ Stored(calls[c].answer, calls[c].id)'
    <3> SUFFICES ASSUME NEW c \in Channels
                 PROVE  Holds(calls[c].answer, calls[c].id)' /\ Stored(calls[c].answer, calls[c].id)'
      OBVIOUS
    <3>1. calls[c].answer.kind \in {"committed", "proposal"} => calls[c].id \in Ids
      BY <1>1, CallTyped, PatchTyped DEF Nothing
    <3>2. Holds(calls[c].answer, calls[c].id) /\ Stored(calls[c].answer, calls[c].id)
      BY <1>1 DEF Answering
    <3> QED
      BY <1>2, <1>9, <3>1, <3>2 DEF Holds, Stored
  <2>3. Holds(applying.answer, applying.id)'
    BY <1>2, <1>8 DEF Holds
  <2> QED
    BY <2>1, <2>2, <2>3 DEF Answering
<1>15. Saving'
  <2>1. calls["save"].step = "idle"
    BY <1>1, <1>2 DEF Saving
  <2> QED
    BY <1>1, <1>2, <2>1 DEF Saving, Sent
<1>16. Truthful'
  BY <1>1, <1>2, <1>9, StillTruthful
<1> QED
  BY <1>11, <1>12, <1>13, <1>14, <1>15, <1>16 DEF IInv

LEMMA LoseProposalStep ==
  ASSUME IInv, LoseProposal
  PROVE  IInv'
<1>1. Shape /\ Named /\ Saving
  BY DEF IInv
<1>2. applying' = [applying EXCEPT !.answer = Result("unknown", None)] /\ applying.id # 0
      /\ UNCHANGED <<repository, wire, patches, view, timer, uncertain, calls, dialog, wanted, abandoned>>
  BY DEF LoseProposal, ghosts
<1>3. Result("unknown", None) \in Answers /\ Holds(Result("unknown", None), applying.id)
  BY NoCommit
<1>4. applying' \in Applications /\ applying'.id = applying.id /\ applying'.answer = Result("unknown", None)
  BY <1>1, <1>2, <1>3 DEF Shape, Applications
<1>5. applying.id <= Len(patches) /\ calls["save"].step = "idle"
  BY <1>1, <1>2 DEF Named, Saving
<1>6. wanted \in [Fields -> Values \cup {None}] /\ timer \in BOOLEAN
  BY <1>1 DEF Shape
<1> QED
  BY <1>2, <1>3, <1>4, <1>5, <1>6, ApplyingOnly

LEMMA ProposalNotAppliedStep ==
  ASSUME IInv, ProposalNotApplied
  PROVE  IInv'
<1>1. Shape
  BY DEF IInv
<1>2. applying' = NotApplying
      /\ UNCHANGED <<repository, wire, patches, view, timer, uncertain, calls, dialog, wanted, abandoned>>
  BY DEF ProposalNotApplied, ghosts
<1>3. NotApplying \in Applications /\ NotApplying.id = 0 /\ NotApplying.answer = Nothing
  BY Records DEF NotApplying
<1>4. wanted \in [Fields -> Values \cup {None}] /\ timer \in BOOLEAN
  BY <1>1 DEF Shape
<1> QED
  BY <1>1, <1>2, <1>3, <1>4, Counts, ApplyingOnly

LEMMA ProposalAppliedStep ==
  ASSUME IInv, ProposalApplied
  PROVE  IInv'
<1>1. Shape /\ Named /\ Answering /\ Saving
  BY DEF IInv
<1>2. view \in Views /\ dialog \in DialogStates /\ abandoned \in BOOLEAN
      /\ wanted \in [Fields -> Values \cup {None}] /\ NotApplying \in Applications
  BY <1>1, Records DEF Shape
<1>3. applying.answer.kind = "committed" /\ applying' = NotApplying
      /\ UNCHANGED <<repository, wire, patches, calls, dialog, wanted, abandoned>>
  BY DEF ProposalApplied, ghosts
<1>4. applying.id # 0
  BY <1>1, <1>3 DEF Named, Nothing
<1>5. calls["save"].step = "idle" /\ applying.answer.snapshot \in Snapshots
  BY <1>1, <1>3, <1>4 DEF Saving, Answering, Holds
<1>6. dialog.on => dialog.current \in Snapshots
  BY <1>1 DEF Named
<1>7. CASE Adopts
  <2>1. view' = Fresh(applying.answer.snapshot) /\ timer' = FALSE /\ uncertain' = None
    BY <1>7 DEF ProposalApplied, replace
  <2>2. Fresh(applying.answer.snapshot) \in Views
    BY <1>5, FreshTyped
  <2> QED
    BY <1>1, <1>2, <1>3, <1>5, <1>6, <2>1, <2>2, Counts, FreshIs, DraftChanges
<1>8. CASE ~Adopts
  <2> DEFINE v == [view EXCEPT !.state = "Changes conflict"]
  <2>1. view' = v /\ timer' = FALSE /\ uncertain' = uncertain
    BY <1>8 DEF ProposalApplied
  <2>2. v \in Views /\ v.committed = view.committed /\ v.deployment = view.deployment
        /\ v.dirty = view.dirty /\ v.proposalId = view.proposalId /\ v.state = "Changes conflict"
    BY <1>2 DEF Views, Failing
  <2> HIDE DEF v
  <2>3. TruthfulOf(v)
    BY <2>2 DEF TruthfulOf
  <2>4. v.proposalId <= Len(patches)
    BY <1>1, <2>2 DEF Named
  <2> QED
    BY <1>2, <1>3, <1>5, <1>6, <2>1, <2>2, <2>3, <2>4, DraftChanges
<1> QED
  BY <1>7, <1>8
-----------------------------------------------------------------------------
(* ConflictDialog                                                          *)

(* The dialog changes, and the draft stays as it is.                       *)
LEMMA DialogOnly ==
  ASSUME IInv, UNCHANGED <<repository, wire, patches, view, timer, uncertain, applying, wanted>>,
         abandoned' \in BOOLEAN, abandoned => abandoned',
         calls' \in {calls, [calls EXCEPT !["resolve"] = NoCall]},
         dialog' \in DialogStates, dialog'.patch \in {0, dialog.patch},
         dialog'.on => dialog'.current \in Snapshots
  PROVE  IInv'
<1>1. Shape /\ Named /\ Truthful
  BY DEF IInv
<1>2. view \in Views /\ timer \in BOOLEAN /\ wanted \in [Fields -> Values \cup {None}]
      /\ applying \in Applications
  BY <1>1 DEF Shape
<1>3. /\ view.proposalId <= Len(patches) /\ TruthfulOf(view)
      /\ view.state = "Proposed" => view.proposalId # 0
  BY <1>1, TruthfulView DEF Named
<1> QED
  BY <1>2, <1>3, DraftChanges

LEMMA CompareStep ==
  ASSUME IInv, Compare
  PROVE  IInv'
<1>1. Shape /\ source \in Snapshots /\ abandoned \in BOOLEAN
  BY DEF IInv, Shape
<1>2. dialog' = [NoDialog EXCEPT !.on = TRUE, !.current = source]
      /\ UNCHANGED <<repository, wire, patches, view, timer, uncertain, calls, applying, wanted, abandoned>>
  BY DEF Compare, ghosts
<1>3. dialog' \in DialogStates /\ dialog'.patch = 0 /\ dialog'.current = source
  BY <1>1, <1>2, Records DEF DialogStates, NoDialog
<1> QED
  BY <1>1, <1>2, <1>3, DialogOnly

LEMMA ResolveFailsStep ==
  ASSUME IInv, ResolveFails
  PROVE  IInv'
<1>1. calls' = [calls EXCEPT !["resolve"] = NoCall]
      /\ UNCHANGED <<repository, wire, patches, view, timer, uncertain, applying, dialog, wanted, abandoned>>
  BY DEF ResolveFails, ghosts
<1>2. dialog \in DialogStates /\ abandoned \in BOOLEAN /\ (dialog.on => dialog.current \in Snapshots)
  BY DEF IInv, Shape, Named
<1> QED
  BY <1>1, <1>2, DialogOnly

LEMMA CloseDialogStep ==
  ASSUME IInv, CloseDialog
  PROVE  IInv'
<1>1. dialog' = NoDialog /\ abandoned' = (abandoned \/ dialog.patch # 0)
      /\ UNCHANGED <<repository, wire, patches, view, timer, uncertain, calls, applying, wanted>>
  BY DEF CloseDialog
<1>2. abandoned \in BOOLEAN
  BY DEF IInv, Shape
<1>3. abandoned' \in BOOLEAN /\ (abandoned => abandoned')
  BY <1>1, <1>2
<1>4. NoDialog \in DialogStates /\ NoDialog.patch = 0
  BY Records DEF NoDialog
<1>5. ~NoDialog.on
  BY DEF NoDialog
<1> QED
  BY <1>1, <1>3, <1>4, <1>5, DialogOnly

LEMMA CheckStep ==
  ASSUME IInv, NEW givenUp \in SUBSET Fields, Check(givenUp)
  PROVE  IInv'
<1> DEFINE mine == operationsBetween(view.committed.doc, view.deployment) \ givenUp
<1> DEFINE candidate == applyLocal(dialog.current.doc, view.deployment, mine)
<1> DEFINE p == Patch(dialog.current, candidate, 0)
<1>1. Shape /\ Named /\ Apart /\ OnItsWay /\ Answering /\ Saving /\ Truthful
  BY DEF IInv
<1>2. view.deployment \in Documents /\ wanted \in [Fields -> Values \cup {None}]
      /\ dialog \in DialogStates /\ calls \in [Channels -> Calls]
  BY <1>1 DEF Shape, Views
<1>3. dialog.current \in Snapshots /\ dialog.current.doc \in Documents
  BY <1>1 DEF Check, Named, Snapshots
<1>4. candidate \in Documents
  BY <1>2, <1>3, Applied
<1>5. p \in Patches /\ p.sent = candidate
  BY <1>3, <1>4, DraftBounds DEF Patch, Patches
<1>6. /\ patches' = Append(patches, p) /\ Len(patches) < MaxPatches
      /\ dialog' = [dialog EXCEPT !.patch = Len(patches) + 1]
      /\ wanted' = [f \in Fields |-> IF f \in mine THEN wanted[f] ELSE None]
      /\ UNCHANGED <<source, authors, mode, results, wire, view, timer, uncertain, calls, applying, abandoned>>
  BY DEF Check, repository
<1> HIDE DEF p
<1>7. /\ patches' \in Seq(Patches) /\ Len(patches') = Len(patches) + 1 /\ Len(patches) \in Nat
      /\ \A i \in 1..Len(patches) : patches'[i] = patches[i]
  BY <1>1, <1>5, <1>6, OneMore
<1>8. wanted' \in [Fields -> Values \cup {None}]
  BY <1>2, <1>6
<1>9. dialog' \in DialogStates /\ dialog'.patch = Len(patches) + 1
      /\ dialog'.current = dialog.current
  <2>1. Len(patches) + 1 \in 0..MaxPatches
    BY <1>6, <1>7, DraftBounds
  <2> QED
    BY <1>2, <1>6, <2>1 DEF DialogStates
<1>10. Shape'
  BY <1>1, <1>6, <1>7, <1>8, <1>9, DraftBounds DEF Shape
<1>11. Named'
  <2>1. \A c \in Channels : /\ calls'[c].step # "idle" => calls'[c].id \in 1..Len(patches')
                            /\ calls'[c].step = "idle" => calls'[c] = NoCall
    BY <1>1, <1>6, <1>7 DEF Named
  <2>2. \A i \in Ids : wire'[i] > 0 \/ results'[i].kind # "none" => i <= Len(patches')
    BY <1>1, <1>6, <1>7 DEF Named, Ids
  <2>3. uncertain' # None => uncertain'.id <= Len(patches')
    BY <1>1, <1>6, <1>7, DraftBounds DEF Named, Shape, Unknowns, Ids
  <2>4. view'.proposalId <= Len(patches') /\ applying'.id <= Len(patches')
    BY <1>1, <1>6, <1>7, DraftBounds DEF Named, Shape, Views, Applications
  <2>5. dialog'.on => dialog'.current \in Snapshots
    BY <1>3, <1>9
  <2> QED
    BY <1>1, <1>6, <1>7, <1>9, <2>1, <2>2, <2>3, <2>4, <2>5 DEF Named
<1>12. Apart'
  <2>1. calls["save"].step # "idle" => calls["save"].id \in 1..Len(patches)
    BY <1>1, CallTyped DEF Channels
  <2>2. uncertain # None => uncertain.id \in 1..Len(patches)
    BY <1>1, <1>7 DEF Named, Shape, Unknowns, Ids
  <2>3. calls["save"].step # "idle" => Own(calls["save"].id)'
    BY <1>1, <1>6, <1>7, <1>9, <2>1 DEF Apart, Own
  <2>4. uncertain # None => Own(uncertain.id)'
    BY <1>1, <1>6, <1>7, <1>9, <2>2 DEF Apart, Own
  <2> QED
    BY <1>6, <2>3, <2>4 DEF Apart
<1>13. OnItsWay'
  BY <1>1, <1>6 DEF OnItsWay, Awaits
<1>14. Answering'
  <2>1. applying.id # 0 => Holds(applying.answer, applying.id)'
    <3>1. applying.id # 0 => applying.id \in 1..Len(patches)
      BY <1>1, <1>7 DEF Named, Shape, Applications
    <3> QED
      BY <1>1, <1>6, <1>7, <3>1 DEF Answering, Holds
  <2>2. \A c \in Channels : Holds(calls[c].answer, calls[c].id)' /\ Stored(calls[c].answer, calls[c].id)'
    BY <1>1, <1>6, <1>7, KnownStays
  <2> QED
    BY <1>1, <1>6, <1>7, <2>1, <2>2, KnownStays DEF Answering
<1>15. Saving'
  <2>1. calls["save"].step # "idle" => calls["save"].id \in 1..Len(patches)
    BY <1>1, CallTyped DEF Channels
  <2>2. uncertain # None => uncertain.id \in 1..Len(patches)
    BY <1>1, <1>7 DEF Named, Shape, Unknowns, Ids
  <2>3. calls["save"].step # "idle" => Sent(calls["save"].id, calls["save"].newer)'
    BY <1>1, <1>6, <1>7, <2>1 DEF Saving, Sent
  <2>4. uncertain # None => Sent(uncertain.id, uncertain.newer)'
    BY <1>1, <1>6, <1>7, <2>2 DEF Saving, Sent
  <2> QED
    BY <1>1, <1>6, <2>3, <2>4 DEF Saving
<1>16. Truthful'
  <2>1. view.state = "Proposed" => view.proposalId \in 1..Len(patches)
    BY <1>1, <1>7 DEF Named, Shape, Views
  <2> QED
    BY <1>1, <1>6, <1>7, <2>1 DEF Truthful
<1> QED
  BY <1>10, <1>11, <1>12, <1>13, <1>14, <1>15, <1>16 DEF IInv

LEMMA ResolveStep ==
  ASSUME IInv, Resolve
  PROVE  IInv'
<1> DEFINE id == dialog.patch
<1> DEFINE call == [NoCall EXCEPT !.step = "asked", !.id = id]
<1>1. Shape /\ Named /\ Apart /\ OnItsWay /\ Answering /\ Saving /\ Truthful
  BY DEF IInv
<1>2. id # 0 /\ calls' = [calls EXCEPT !["resolve"] = call] /\ wire' = [wire EXCEPT ![id] = @ + 1]
      /\ UNCHANGED <<source, authors, mode, results, patches, view, timer, uncertain, applying, dialog, wanted>>
  BY DEF Resolve, repository
<1>3. abandoned' \in BOOLEAN /\ (abandoned => abandoned')
  <2>1. abandoned' = (abandoned \/ GivesUp) /\ abandoned \in BOOLEAN
    BY <1>1 DEF Resolve, Shape
  <2> QED
    BY <2>1
<1>4. id \in 1..Len(patches) /\ id \in Ids /\ id \in 0..MaxPatches
  BY <1>1, <1>2, Counts, PatchTyped DEF Named, Shape, DialogStates
<1>5. call \in Calls /\ call.step = "asked" /\ call.id = id /\ call.answer = Nothing
  BY <1>4, Records DEF Calls, NoCall
<1>6. calls \in [Channels -> Calls] /\ wire \in [Ids -> Nat]
  BY <1>1 DEF Shape
<1> HIDE DEF call
<1>7. calls' \in [Channels -> Calls] /\ calls'["resolve"] = call /\ calls'["save"] = calls["save"]
  BY <1>2, <1>5, <1>6 DEF Channels
<1>8. wire' \in [Ids -> Nat] /\ wire'[id] > 0 /\ \A i \in Ids : i # id => wire'[i] = wire[i]
  BY <1>2, <1>4, <1>6
<1>9. Shape'
  BY <1>1, <1>2, <1>3, <1>7, <1>8 DEF Shape
<1>10. Named'
  <2>1. \A c \in Channels : /\ calls'[c].step # "idle" => calls'[c].id \in 1..Len(patches)
                            /\ calls'[c].step = "idle" => calls'[c] = NoCall
    BY <1>1, <1>4, <1>5, <1>7 DEF Named, Channels
  <2>2. \A i \in Ids : wire'[i] > 0 \/ results[i].kind # "none" => i <= Len(patches)
    BY <1>1, <1>4, <1>8 DEF Named
  <2> QED
    BY <1>1, <1>2, <2>1, <2>2 DEF Named
<1>11. Apart'
  BY <1>1, <1>2, <1>5, <1>7 DEF Apart, Own
<1>12. OnItsWay'
  <2>1. Awaits("save", calls["save"].id) => calls["save"].id \in Ids
    BY <1>1, PatchTyped DEF Named, Awaits, Channels
  <2>2. Awaits("save", calls["save"].id)' => wire'[calls'["save"].id] > 0
    BY <1>1, <1>7, <1>8, <2>1 DEF OnItsWay, Awaits, Channels, Apart, Own
  <2> QED
    BY <1>5, <1>7, <1>8, <2>2 DEF OnItsWay, Channels
<1>13. Answering'
  <2>1. \A c \in Channels : Holds(calls[c].answer, calls[c].id)' /\ Stored(calls[c].answer, calls[c].id)'
    <3>1. Holds(calls["resolve"].answer, calls["resolve"].id)' /\ Stored(calls["resolve"].answer, calls["resolve"].id)'
      BY <1>5, <1>7 DEF Holds, Stored, Nothing
    <3> QED
      BY <1>1, <1>2, <1>7, <3>1, KnownStays DEF Channels
  <2>2. applying.id # 0 => Holds(applying.answer, applying.id)'
    BY <1>1, <1>2 DEF Answering, Holds
  <2> QED
    BY <1>1, <1>2, <2>1, <2>2, KnownStays DEF Answering
<1>14. Saving' /\ Truthful'
  BY <1>1, <1>2, <1>3, <1>7 DEF Saving, Sent, Truthful
<1> QED
  BY <1>9, <1>10, <1>11, <1>12, <1>13, <1>14 DEF IInv

LEMMA ResolveEndsStep ==
  ASSUME IInv, ResolveEnds
  PROVE  IInv'
<1> DEFINE r == Told("resolve")
<1> DEFINE id == calls["resolve"].id
<1> DEFINE p == patches[id]
<1>1. Shape /\ Named /\ Answering /\ abandoned \in BOOLEAN
  BY DEF IInv, Shape
<1>2. "resolve" \in Channels
  BY DEF Channels
<1>3. calls["resolve"].step # "idle" /\ id \in 1..Len(patches)
  BY <1>1, <1>2, CallTyped DEF ResolveEnds, Answered
<1>4. p.sent \in Documents /\ p.base \in Snapshots /\ id \in Ids /\ id \in 0..MaxPatches /\ id # 0
  BY <1>1, <1>3, PatchTyped DEF Ids
<1>5. /\ Holds(r, id)
      /\ r.kind \in {"committed", "proposal"} => results[id].kind # "none"
  BY <1>1, <1>2, ToldIs
<1>6. /\ calls' = [calls EXCEPT !["resolve"] = NoCall]
      /\ dialog' = NoDialog /\ timer' = FALSE /\ uncertain' = None
      /\ applying' = [applying EXCEPT !.touched = TRUE]
      /\ UNCHANGED <<repository, wire, patches, wanted>>
  BY DEF ResolveEnds, replace
<1>7. abandoned' \in BOOLEAN /\ (abandoned => abandoned') /\ (calls["save"].step # "idle" => abandoned')
  <2>1. abandoned' = (abandoned \/ GivesUp)
    BY DEF ResolveEnds
  <2> QED
    BY <1>1, <2>1 DEF GivesUp
<1>8. NoDialog \in DialogStates /\ NoDialog.patch = 0
  BY Records DEF NoDialog
<1>9. ~NoDialog.on
  BY DEF NoDialog
<1>10. wanted \in [Fields -> Values \cup {None}]
  BY <1>1 DEF Shape
<1>11. CASE r.kind = "committed"
  <2>1. view' = Fresh(r.snapshot) /\ r.snapshot \in Snapshots
    BY <1>5, <1>11 DEF ResolveEnds, replace, Holds
  <2> HIDE DEF r
  <2> QED
    BY <1>1, <1>6, <1>7, <1>8, <1>9, <1>10, <2>1, FreshTyped, Counts, Touched, FreshIs, DraftChanges
<1>12. CASE r.kind = "proposal"
  <2> DEFINE v == [Fresh(p.base) EXCEPT !.deployment = p.sent, !.proposalId = id, !.state = "Proposed"]
  <2>1. view' = v
    BY <1>12 DEF ResolveEnds
  <2>2. Fresh(p.base) \in Views
    BY <1>4, FreshTyped
  <2>3. v \in Views /\ v.state = "Proposed" /\ v.proposalId = id /\ v.deployment = p.sent
    BY <1>4, <2>2 DEF Views
  <2>4. results[id].kind # "none" /\ id <= Len(patches)
    BY <1>3, <1>5, <1>12
  <2> HIDE DEF v, r
  <2>5. TruthfulOf(v)
    BY <2>3, <2>4 DEF TruthfulOf
  <2> HIDE DEF id, p
  <2> QED
    BY <1>1, <1>4, <1>6, <1>7, <1>8, <1>9, <1>10, <2>1, <2>3, <2>4, <2>5, Touched, DraftChanges
<1> QED
  BY <1>11, <1>12 DEF ResolveEnds
-----------------------------------------------------------------------------
LEMMA InitHolds ==
  ASSUME Init
  PROVE  IInv
<1> DEFINE first == [f \in Fields |-> CHOOSE x \in Values : TRUE]
<1>1. first \in Documents
  BY DraftBounds DEF Documents
<1>2. source = [rev |-> 1, doc |-> first]
  BY DEF Init
<1> HIDE DEF first
<1>3. source \in Snapshots /\ source.rev = 1
  BY <1>1, <1>2 DEF Snapshots
<1>4. authors \in Seq(Authors) /\ Len(authors) = 1
  BY DEF Init, Authors
<1>5. patches \in Seq(Patches) /\ Len(patches) = 0
  BY DEF Init
<1>6. view = Fresh(source) /\ view \in Views
  BY <1>3, FreshTyped DEF Init
<1>7. calls \in [Channels -> Calls] /\ \A c \in Channels : calls[c] = NoCall
  BY Records DEF Init
<1>8. NoCall.step = "idle" /\ NoCall.id = 0 /\ NoCall.answer = Nothing
  BY DEF NoCall
<1>9. uncertain = None /\ dialog = NoDialog /\ applying = NotApplying /\ timer = FALSE
      /\ abandoned = FALSE /\ wanted = NotWanted /\ mode \in {"autonomous", "review-each-change"}
  BY DEF Init
<1>10. dialog.patch = 0 /\ applying.id = 0 /\ applying.answer = Nothing
  BY <1>9 DEF NoDialog, NotApplying
<1>11. ~dialog.on
  BY <1>9 DEF NoDialog
<1>12. results = [i \in Ids |-> Nothing] /\ wire = [i \in Ids |-> 0]
  BY DEF Init
<1>13. results \in [Ids -> Answers] /\ wire \in [Ids -> Nat]
  BY <1>12, Records
<1>14. Shape
  <2>1. wanted \in [Fields -> Values \cup {None}]
    BY <1>9 DEF NotWanted
  <2>2. timer \in BOOLEAN /\ abandoned \in BOOLEAN
    BY <1>9
  <2>3. dialog \in DialogStates /\ applying \in Applications
    BY <1>9, Records
  <2>4. Len(patches) <= MaxPatches /\ Len(authors) = source.rev
    BY <1>3, <1>4, <1>5, DraftBounds
  <2> QED
    BY <1>3, <1>4, <1>5, <1>6, <1>7, <1>9, <1>13, <2>1, <2>2, <2>3, <2>4 DEF Shape
<1>15. Named
  <2>1. view.proposalId = 0 /\ view.state = "Saved"
    BY <1>6 DEF Fresh
  <2>2. \A i \in Ids : ~(wire[i] > 0 \/ results[i].kind # "none")
    BY <1>12 DEF Nothing
  <2> QED
    BY <1>5, <1>7, <1>8, <1>9, <1>10, <1>11, <2>1, <2>2 DEF Named
<1>16. Apart /\ OnItsWay /\ Saving
  BY <1>7, <1>8, <1>9 DEF Apart, OnItsWay, Awaits, Saving, Channels
<1>17. Answering
  BY <1>7, <1>8, <1>10, <1>12 DEF Answering, Holds, Stored, Nothing
<1>18. Truthful
  BY <1>3, <1>6, FreshIs DEF Truthful, TruthfulOf
<1> QED
  BY <1>14, <1>15, <1>16, <1>17, <1>18 DEF IInv

LEMMA Stutter ==
  ASSUME IInv, UNCHANGED dvars
  PROVE  IInv'
<1>1. Shape /\ Named /\ Apart /\ OnItsWay /\ Answering /\ Saving /\ Truthful
  BY DEF IInv
<1>2. UNCHANGED <<source, authors, mode, results, wire, patches, view, timer, uncertain, calls,
                  applying, dialog, wanted, abandoned>>
  BY DEF dvars
<1>3. Shape' /\ Named' /\ Apart'
  BY <1>1, <1>2 DEF Shape, Named, Apart, Own
<1>4. OnItsWay' /\ Answering' /\ Saving' /\ Truthful'
  BY <1>1, <1>2 DEF OnItsWay, Awaits, Answering, Holds, Stored, Saving, Sent, Truthful
<1> QED
  BY <1>3, <1>4 DEF IInv

LEMMA NextHolds ==
  ASSUME IInv, [Next]_dvars
  PROVE  IInv'
<1>1. ASSUME NEW f \in Fields, NEW x \in Values, edit(f, x) \/ CommitOther(f, x) PROVE IInv'
  BY <1>1, editStep, CommitOtherStep
<1>2. ASSUME NEW c \in Channels, Serve(c) \/ Lose(c) \/ LookUp(c) \/ Unreadable(c) PROVE IInv'
  BY <1>2, ServeStep, LoseStep, LookUpStep, UnreadableStep
<1>3. ASSUME NEW c \in Channels, NEW how \in {"refused", "busy"}, Refuse(c, how) PROVE IInv'
  BY <1>3, RefuseStep
<1>4. ASSUME NEW id \in Ids, ServeLate(id) \/ loadProposal(id) \/ applyProposal(id) PROVE IInv'
  BY <1>4, ServeLateStep, loadProposalStep, applyProposalStep
<1>5. CASE flush \/ flushWaits \/ SaveEnds \/ discard \/ refresh
  BY <1>5, flushStep, flushWaitsStep, SaveEndsStep, discardStep, refreshStep
<1>6. CASE ServeProposal \/ LoseProposal \/ ProposalApplied \/ ProposalNotApplied
  BY <1>6, ServeProposalStep, LoseProposalStep, ProposalAppliedStep, ProposalNotAppliedStep
<1>7. ASSUME NEW givenUp \in SUBSET Fields, Check(givenUp) PROVE IInv'
  BY <1>7, CheckStep
<1>8. CASE Compare \/ Resolve \/ ResolveEnds \/ ResolveFails \/ CloseDialog
  BY <1>8, CompareStep, ResolveStep, ResolveEndsStep, ResolveFailsStep, CloseDialogStep
<1>9. CASE UNCHANGED dvars
  BY <1>9, Stutter
<1> QED
  BY <1>1, <1>2, <1>3, <1>4, <1>5, <1>6, <1>7, <1>8, <1>9 DEF Next

(* The inductive invariant: what is sent, stored and answered for a patch  *)
(* is what the draft holds, whatever is lost, late or given up.            *)
THEOREM Invariance == Spec => []IInv
<1>1. Init => IInv
  BY InitHolds
<1>2. IInv /\ [Next]_dvars => IInv'
  BY NextHolds
<1> QED
  BY <1>1, <1>2, PTL DEF Spec

(* Every variable has its type, an unknown outcome is still to save, and a *)
(* request that is waited for is on its way.                               *)
THEOREM TypeCorrect == Spec => []TypeOK
<1>1. IInv => TypeOK
  <2> SUFFICES ASSUME IInv PROVE TypeOK
    OBVIOUS
  <2>1. Shape /\ OnItsWay /\ Saving
    BY DEF IInv
  <2>2. \A p \in Range(patches) :
          p.base \in Snapshots /\ p.sent \in Documents /\ p.supersedes \in 0..MaxPatches
    <3>1. DOMAIN patches = 1..Len(patches)
      BY <2>1, LenProperties DEF Shape
    <3> QED
      BY <2>1, <3>1, PatchTyped DEF Range
  <2>3. view.committed \in Snapshots /\ view.deployment \in Documents /\ view.dirty \in BOOLEAN
        /\ view.state \in Failing \cup {"Editing", "Saving", "Saved", "Proposed"}
    BY <2>1 DEF Shape, Views
  <2>4. uncertain # None => calls["save"].step = "idle" /\ (view.dirty \/ abandoned)
    BY <2>1 DEF Saving, Sent
  <2>5. \A c \in Channels : Awaits(c, calls[c].id) => wire[calls[c].id] > 0
    BY <2>1 DEF OnItsWay
  <2>6. /\ source \in Snapshots /\ Len(authors) = source.rev
        /\ mode \in {"autonomous", "review-each-change"}
        /\ DOMAIN results = Ids /\ wire \in [Ids -> Nat] /\ timer \in BOOLEAN
    BY <2>1 DEF Shape
  <2> QED
    BY <2>2, <2>3, <2>4, <2>5, <2>6 DEF TypeOK
<1> QED
  BY <1>1, Invariance, PTL

(* A draft that says it is saved holds what is committed, and one that     *)
(* says it is proposed holds the proposal that the server has stored.      *)
THEOREM DraftIsTruthful == Spec => []Truthful
<1>1. IInv => Truthful
  BY DEF IInv
<1> QED
  BY <1>1, Invariance, PTL
-----------------------------------------------------------------------------
(* What the user wants                                                     *)

(* What a save leaves alone, whatever it sends.                            *)
LEMMA SendsKeeps ==
  ASSUME Shape, NEW v \in Views, NEW u, Sends(v, u)
  PROVE  /\ view'.deployment = v.deployment
         /\ calls'["resolve"] = calls["resolve"]
         /\ \A i \in 1..Len(patches) : patches'[i] = patches[i]
<1>1. view'.deployment = v.deployment
  BY DEF Sends, Views
<1>2. calls'["resolve"] = calls["resolve"]
  BY DEF Sends, Shape, Channels
<1>3. \A i \in 1..Len(patches) : patches'[i] = patches[i]
  BY AppendProperties, LenProperties DEF Sends, Shape
<1> QED
  BY <1>1, <1>2, <1>3

(* A step that enters nothing and leaves the dialog alone.                 *)
LEMMA ResolvingStays ==
  ASSUME IInv, Resolving,
         \A f \in Fields : wanted'[f] = None \/ wanted'[f] = wanted[f],
         wanted = NotWanted => wanted' = NotWanted,
         \A i \in 1..Len(patches) : patches'[i] = patches[i],
         applying'.id # 0 /\ ~applying'.touched =>
           wanted' = NotWanted \/ (applying.id # 0 /\ ~applying.touched),
         dialog' = dialog,
         calls'["resolve"].step # "idle" =>
           calls["resolve"].step # "idle" /\ calls'["resolve"].id = calls["resolve"].id
  PROVE  Resolving'
<1>1. dialog.patch # 0 => dialog.patch \in 1..Len(patches)
  BY Counts DEF IInv, Shape, Named, DialogStates
<1>2. applying'.id # 0 /\ ~applying'.touched => wanted' = NotWanted
  BY DEF Resolving
<1>3. calls'["resolve"].step # "idle" => dialog'.on /\ dialog'.patch = calls'["resolve"].id
  BY DEF Resolving
<1>4. dialog'.patch # 0 => dialog'.on
  BY DEF Resolving
<1>5. ASSUME dialog'.patch # 0, NEW f \in Fields, wanted'[f] # None
      PROVE  patches'[dialog'.patch].sent[f] = wanted'[f]
  BY <1>1, <1>5 DEF Resolving
<1> QED
  BY <1>2, <1>3, <1>4, <1>5 DEF Resolving

(* The same, when the buffer stays as well or nothing is wanted.           *)
LEMMA WantedStays ==
  ASSUME IInv, NothingLost, Resolving,
         wanted' = wanted \/ wanted' = NotWanted,
         view'.deployment = view.deployment \/ wanted' = NotWanted,
         \A i \in 1..Len(patches) : patches'[i] = patches[i],
         applying'.id # 0 /\ ~applying'.touched =>
           wanted' = NotWanted \/ (applying.id # 0 /\ ~applying.touched),
         dialog' = dialog,
         calls'["resolve"].step # "idle" =>
           calls["resolve"].step # "idle" /\ calls'["resolve"].id = calls["resolve"].id
  PROVE  NothingLost' /\ Resolving'
<1>1. \A f \in Fields : NotWanted[f] = None
  BY DEF NotWanted
<1>2. NothingLost'
  BY <1>1 DEF NothingLost
<1>3. Resolving'
  BY <1>1, ResolvingStays
<1> QED
  BY <1>2, <1>3

LEMMA RequestsKeep ==
  ASSUME IInv, NothingLost, Resolving, NEW c \in Channels,
         Serve(c) \/ Lose(c) \/ LookUp(c) \/ Unreadable(c) \/ (\E how \in {"refused", "busy"} : Refuse(c, how))
  PROVE  NothingLost' /\ Resolving'
<1>1. UNCHANGED <<view, patches, applying, dialog, wanted>>
  BY DEF Serve, Lose, LookUp, Unreadable, Refuse, ghosts
<1>2. calls \in [Channels -> Calls]
  BY DEF IInv, Shape
<1>3. calls[c].step # "idle"
  BY DEF Serve, Awaits, Lose, LookUp, Unreadable, Refuse
<1>4. calls'["resolve"].id = calls["resolve"].id
  <2>1. CASE Serve(c)
    BY <1>2, <2>1 DEF Serve, Calls, Channels
  <2>2. CASE Lose(c)
    BY <1>2, <2>2 DEF Lose, Calls, Channels
  <2>3. CASE LookUp(c)
    BY <1>2, <2>3 DEF LookUp, Calls, Channels
  <2>4. CASE Unreadable(c)
    BY <1>2, <2>4 DEF Unreadable, Calls, Channels
  <2>5. ASSUME NEW how \in {"refused", "busy"}, Refuse(c, how)
        PROVE  calls'["resolve"].id = calls["resolve"].id
    BY <1>2, <2>5 DEF Refuse, Calls, Channels
  <2> QED
    BY <2>1, <2>2, <2>3, <2>4, <2>5
<1>5. calls'["resolve"].step # "idle" => calls["resolve"].step # "idle"
  <2>1. c # "resolve" => calls'["resolve"] = calls["resolve"]
    BY <1>2 DEF Serve, Lose, LookUp, Unreadable, Refuse, Channels
  <2> QED
    BY <1>3, <2>1
<1> QED
  BY <1>1, <1>4, <1>5, WantedStays

LEMMA ServersKeep ==
  ASSUME IInv, NothingLost, Resolving,
         \/ \E id \in Ids : ServeLate(id)
         \/ \E f \in Fields, x \in Values : CommitOther(f, x)
         \/ ServeProposal \/ LoseProposal \/ flushWaits
  PROVE  NothingLost' /\ Resolving'
<1>1. UNCHANGED <<view, patches, calls, dialog, wanted>>
  BY DEF ServeLate, CommitOther, ServeProposal, LoseProposal, flushWaits, ghosts
<1>2. applying \in Applications
  BY DEF IInv, Shape
<1>3. applying'.id = applying.id /\ applying'.touched = applying.touched
  BY <1>2 DEF ServeLate, CommitOther, ServeProposal, LoseProposal, flushWaits, Applications
<1> QED
  BY <1>1, <1>3, WantedStays

LEMMA editKeeps ==
  ASSUME IInv, NothingLost, Resolving, NEW f \in Fields, NEW x \in Values, edit(f, x)
  PROVE  NothingLost' /\ Resolving'
<1>1. view \in Views /\ calls \in [Channels -> Calls] /\ applying \in Applications
      /\ wanted \in [Fields -> Values \cup {None}]
  BY DEF IInv, Shape
<1>2. /\ view' = [view EXCEPT !.deployment[f] = x, !.state = "Editing", !.dirty = TRUE]
      /\ calls' = IF calls["save"].step = "idle" THEN calls ELSE [calls EXCEPT !["save"].newer = TRUE]
      /\ applying' = [applying EXCEPT !.touched = TRUE]
      /\ wanted' = [wanted EXCEPT ![f] = x]
      /\ UNCHANGED <<patches, dialog>>
  BY DEF edit, Armed
<1>3. ~dialog.on
  BY DEF edit
<1>4. dialog.patch = 0 /\ calls["resolve"].step = "idle"
  BY <1>3 DEF Resolving
<1>5. calls'["resolve"] = calls["resolve"]
  BY <1>1, <1>2 DEF Channels
<1>6. applying'.touched
  <2>1. applying'.touched = TRUE
    BY <1>1, <1>2 DEF Applications
  <2> QED
    BY <2>1
<1>7. NothingLost'
  <2>1. view.deployment \in [Fields -> Values]
    BY <1>1 DEF Views, Documents
  <2>2. view'.deployment = [view.deployment EXCEPT ![f] = x]
    BY <1>1, <1>2 DEF Views
  <2> QED
    BY <1>1, <1>2, <2>1, <2>2 DEF NothingLost
<1> QED
  BY <1>2, <1>4, <1>5, <1>6, <1>7 DEF Resolving

LEMMA flushKeeps ==
  ASSUME IInv, NothingLost, Resolving, flush
  PROVE  NothingLost' /\ Resolving'
<1>1. UNCHANGED <<applying, dialog, wanted>>
  BY DEF flush, ghosts
<1>2. Shape /\ view \in Views
  BY DEF IInv, Shape
<1>3. CASE calls["save"].step = "idle"
  <2>1. Sends(view, uncertain)
    BY <1>3 DEF flush, Loops
  <2> QED
    BY <1>1, <1>2, <2>1, SendsKeeps, WantedStays
<1>4. CASE calls["save"].step # "idle"
  <2>1. UNCHANGED <<view, calls, patches>>
    BY <1>4 DEF flush
  <2> QED
    BY <1>1, <2>1, WantedStays
<1> QED
  BY <1>3, <1>4

(* What was sent comes back committed, and what is newer stays on top.     *)
LEMMA SaveEndsKeeps ==
  ASSUME IInv, NothingLost, Resolving, SaveEnds
  PROVE  NothingLost' /\ Resolving'
<1> DEFINE c == calls["save"]
<1> DEFINE r == Told("save")
<1>1. Shape /\ Named /\ Answering
  BY DEF IInv
<1>2. view \in Views /\ calls \in [Channels -> Calls] /\ applying \in Applications
      /\ wanted \in [Fields -> Values \cup {None}]
  BY <1>1 DEF Shape
<1>3. c.step # "idle" /\ c.id \in 1..Len(patches) /\ c.id \in Ids /\ c \in Calls
  BY <1>1, CallTyped, PatchTyped DEF SaveEnds, Answered, Channels
<1>4. Holds(r, c.id)
  BY <1>1, ToldIs DEF Channels
<1>5. dialog' = dialog /\ applying' = [applying EXCEPT !.touched = TRUE]
  BY DEF SaveEnds
<1>6. applying'.touched
  <2>1. applying'.touched = TRUE
    BY <1>2, <1>5 DEF Applications
  <2> QED
    BY <2>1
<1>7. CASE r.kind = "committed"
  <2> DEFINE sent == patches[c.id].sent
  <2> DEFINE v == Merged(r.snapshot, sent)
  <2>1. r.snapshot \in Snapshots /\ r.snapshot.doc = sent /\ sent \in Documents
    BY <1>1, <1>3, <1>4, <1>7, PatchTyped DEF Holds
  <2>2. Sends(v, None) /\ wanted' = [f \in Fields |-> IF r.snapshot.doc[f] = wanted[f] THEN None ELSE wanted[f]]
    BY <1>7 DEF SaveEnds, Loops
  <2>3. v \in Views
    BY <1>1, <2>1, MergedIs
  <2>4. /\ view'.deployment = v.deployment
        /\ calls'["resolve"] = calls["resolve"]
        /\ \A i \in 1..Len(patches) : patches'[i] = patches[i]
    BY <1>1, <2>2, <2>3, SendsKeeps
  <2>5. \A f \in Fields : view'.deployment[f] = IF sent[f] # view.deployment[f] THEN view.deployment[f]
                                                ELSE r.snapshot.doc[f]
    BY <2>4 DEF Merged, Rebased, applyLocal, operationsBetween
  <2>6. \A f \in Fields : wanted'[f] = IF sent[f] = wanted[f] THEN None ELSE wanted[f]
    BY <2>1, <2>2
  <2>7. NothingLost'
    BY <2>1, <2>5, <2>6 DEF NothingLost
  <2>8. wanted = NotWanted => wanted' = NotWanted
    BY <2>2 DEF NotWanted
  <2>9. Resolving'
    BY <1>5, <1>6, <2>4, <2>6, <2>8, ResolvingStays
  <2> QED
    BY <2>7, <2>9
<1>8. CASE r.kind = "proposal"
  <2> DEFINE v == Proposed(c.id, c.newer)
  <2>1. Sends(v, None) /\ wanted' = wanted
    BY <1>8 DEF SaveEnds, Loops
  <2>2. c.newer \in BOOLEAN /\ c.id \in 0..MaxPatches
    BY <1>3 DEF Calls
  <2>3. v \in Views /\ v.deployment = view.deployment
    BY <1>2, <2>2 DEF Proposed, Views
  <2> HIDE DEF v
  <2>4. /\ view'.deployment = view.deployment
        /\ calls'["resolve"] = calls["resolve"]
        /\ \A i \in 1..Len(patches) : patches'[i] = patches[i]
    BY <1>1, <2>1, <2>3, SendsKeeps
  <2> QED
    BY <1>5, <1>6, <2>1, <2>4, WantedStays
<1>9. CASE r.kind \notin {"committed", "proposal"}
  <2>1. wanted' = wanted
    BY <1>9 DEF SaveEnds
  <2>2. \E state \in Failing : view' = Failed(state) /\ calls' = [calls EXCEPT !["save"] = NoCall]
                               /\ patches' = patches
    BY <1>9 DEF SaveEnds, Fails, Failing
  <2>3. view'.deployment = view.deployment
    BY <1>2, <2>2 DEF Failed, Views
  <2>4. calls'["resolve"] = calls["resolve"] /\ patches' = patches
    BY <1>2, <2>2 DEF Channels
  <2> QED
    BY <1>5, <1>6, <2>1, <2>3, <2>4, WantedStays
<1> QED
  BY <1>7, <1>8, <1>9

(* What the user gives up is no longer wanted.                             *)
LEMMA GivenUpKeeps ==
  ASSUME IInv, NothingLost, Resolving,
         discard \/ refresh \/ (\E id \in Ids : loadProposal(id) \/ applyProposal(id))
  PROVE  NothingLost' /\ Resolving'
<1>1. wanted' = NotWanted /\ UNCHANGED <<patches, calls, dialog>>
  BY DEF discard, refresh, loadProposal, applyProposal
<1> QED
  BY <1>1, WantedStays

LEMMA ProposalsKeep ==
  ASSUME IInv, NothingLost, Resolving, ProposalApplied \/ ProposalNotApplied
  PROVE  NothingLost' /\ Resolving'
<1>1. UNCHANGED <<patches, calls, dialog, wanted>> /\ applying' = NotApplying
  BY DEF ProposalApplied, ProposalNotApplied, ghosts
<1>2. applying'.id = 0
  BY <1>1 DEF NotApplying
<1>3. CASE ProposalApplied
  <2>1. applying.id # 0
    <3>1. applying.answer.kind = "committed"
      BY <1>3 DEF ProposalApplied
    <3>2. applying.id = 0 => applying.answer = Nothing
      BY DEF IInv, Named
    <3> QED
      BY <3>1, <3>2 DEF Nothing
  <2>2. CASE Adopts
    <3>1. wanted = NotWanted
      BY <2>1, <2>2 DEF Adopts, Resolving
    <3> QED
      BY <1>1, <1>2, <3>1, WantedStays
  <2>3. CASE ~Adopts
    <3>1. view \in Views /\ view' = [view EXCEPT !.state = "Changes conflict"]
      BY <1>3, <2>3 DEF ProposalApplied, IInv, Shape
    <3>2. view'.deployment = view.deployment
      BY <3>1 DEF Views
    <3> QED
      BY <1>1, <1>2, <3>2, WantedStays
  <2> QED
    BY <2>2, <2>3
<1>4. CASE ProposalNotApplied
  <2>1. view' = view
    BY <1>4 DEF ProposalNotApplied
  <2> QED
    BY <1>1, <1>2, <2>1, WantedStays
<1> QED
  BY <1>3, <1>4

LEMMA CompareKeeps ==
  ASSUME IInv, NothingLost, Resolving, Compare
  PROVE  NothingLost' /\ Resolving'
<1>1. UNCHANGED <<view, calls, applying, wanted>> /\ dialog' = [NoDialog EXCEPT !.on = TRUE, !.current = source]
  BY DEF Compare, ghosts
<1>2. dialog'.patch = 0
  BY <1>1 DEF NoDialog
<1>3. calls["resolve"].step = "idle"
  BY DEF Compare, Resolving
<1> QED
  BY <1>1, <1>2, <1>3 DEF NothingLost, Resolving

(* The candidate holds what is wanted of it.                               *)
LEMMA CheckKeeps ==
  ASSUME IInv, NothingLost, Resolving, NEW givenUp \in SUBSET Fields, Check(givenUp)
  PROVE  NothingLost' /\ Resolving'
<1> DEFINE mine == operationsBetween(view.committed.doc, view.deployment) \ givenUp
<1> DEFINE candidate == applyLocal(dialog.current.doc, view.deployment, mine)
<1> DEFINE p == Patch(dialog.current, candidate, 0)
<1>1. /\ patches' = Append(patches, p)
      /\ dialog' = [dialog EXCEPT !.patch = Len(patches) + 1]
      /\ wanted' = [f \in Fields |-> IF f \in mine THEN wanted[f] ELSE None]
      /\ UNCHANGED <<view, calls, applying>>
      /\ dialog.on /\ dialog.patch = 0
  BY DEF Check
<1>2. Shape /\ patches \in Seq(Patches) /\ dialog \in DialogStates
  BY DEF IInv, Shape
<1>3. patches'[Len(patches) + 1] = p
  BY <1>1, <1>2, AppendProperties, LenProperties
<1>4. calls["resolve"].step = "idle"
  <2>1. calls["resolve"].step # "idle" => calls["resolve"].id \in 1..Len(patches)
    BY <1>2, CallTyped DEF IInv, Channels
  <2> QED
    BY <1>1, <1>2, <2>1, Counts DEF Resolving
<1>5. dialog'.patch = Len(patches) + 1
  BY <1>1, <1>2 DEF DialogStates
<1>6. dialog'.on
  <2>1. dialog' = [on |-> dialog.on, current |-> dialog.current, patch |-> Len(patches) + 1]
    BY <1>1, <1>2 DEF DialogStates
  <2> QED
    BY <1>1, <2>1
<1>7. \A f \in Fields : wanted'[f] # None => candidate[f] = wanted[f] /\ wanted'[f] = wanted[f]
  BY <1>1 DEF NothingLost, applyLocal
<1>8. p.sent = candidate
  BY DEF Patch
<1>9. NothingLost'
  BY <1>1 DEF NothingLost
<1>10. wanted = NotWanted => wanted' = NotWanted
  BY <1>1 DEF NotWanted
<1> HIDE DEF candidate, p, mine
<1>11. Resolving'
  BY <1>1, <1>3, <1>4, <1>5, <1>6, <1>7, <1>8, <1>10 DEF Resolving
<1> QED
  BY <1>9, <1>11

LEMMA ResolveKeeps ==
  ASSUME IInv, NothingLost, Resolving, Resolve
  PROVE  NothingLost' /\ Resolving'
<1> DEFINE call == [NoCall EXCEPT !.step = "asked", !.id = dialog.patch]
<1>1. UNCHANGED <<view, patches, applying, dialog, wanted>> /\ dialog.patch # 0
      /\ calls' = [calls EXCEPT !["resolve"] = call]
  BY DEF Resolve
<1>2. calls \in [Channels -> Calls]
  BY DEF IInv, Shape
<1>3. call.id = dialog.patch
  BY DEF NoCall
<1>4. calls'["resolve"].id = dialog.patch
  BY <1>1, <1>2, <1>3 DEF Channels
<1>5. NothingLost'
  BY <1>1 DEF NothingLost
<1>6. dialog.on
  BY <1>1 DEF Resolving
<1> HIDE DEF call
<1>7. Resolving'
  BY <1>1, <1>4, <1>6 DEF Resolving
<1> QED
  BY <1>5, <1>7

(* What comes back of the dialog is what it sent.                          *)
LEMMA ResolveEndsKeeps ==
  ASSUME IInv, NothingLost, Resolving, ResolveEnds
  PROVE  NothingLost' /\ Resolving'
<1> DEFINE r == Told("resolve")
<1> DEFINE id == calls["resolve"].id
<1> DEFINE p == patches[id]
<1>1. Shape /\ Named /\ Answering
  BY DEF IInv
<1>2. calls["resolve"].step # "idle" /\ id \in 1..Len(patches)
  BY <1>1, CallTyped DEF ResolveEnds, Answered, Channels
<1>3. Holds(r, id) /\ p.base \in Snapshots /\ p.sent \in Documents
  BY <1>1, <1>2, ToldIs, PatchTyped DEF Channels
<1>4. id # 0 /\ dialog.patch = id
  BY <1>1, <1>2, Counts DEF Resolving
<1>5. \A f \in Fields : wanted[f] # None => p.sent[f] = wanted[f]
  BY <1>4 DEF Resolving
<1>6. /\ calls' = [calls EXCEPT !["resolve"] = NoCall]
      /\ dialog' = NoDialog
      /\ applying' = [applying EXCEPT !.touched = TRUE]
      /\ wanted' = wanted
  BY DEF ResolveEnds
<1>7. calls'["resolve"].step = "idle" /\ dialog'.patch = 0
  BY <1>1, <1>6 DEF Shape, Channels, NoCall, NoDialog
<1>8. applying'.touched
  <2>1. applying'.touched = TRUE
    BY <1>1, <1>6 DEF Shape, Applications
  <2> QED
    BY <2>1
<1>9. view'.deployment = p.sent
  <2>1. CASE r.kind = "committed"
    <3>1. view' = Fresh(r.snapshot)
      BY <2>1 DEF ResolveEnds, replace
    <3>2. r.snapshot \in Snapshots /\ r.snapshot.doc = p.sent
      BY <1>3, <2>1 DEF Holds
    <3> QED
      BY <3>1, <3>2, FreshIs
  <2>2. CASE r.kind = "proposal"
    <3>1. view' = [Fresh(p.base) EXCEPT !.deployment = p.sent, !.proposalId = id, !.state = "Proposed"]
      BY <2>2 DEF ResolveEnds
    <3>2. Fresh(p.base) \in Views
      BY <1>3, FreshTyped
    <3> QED
      BY <3>1, <3>2 DEF Views
  <2> QED
    BY <2>1, <2>2 DEF ResolveEnds
<1> HIDE DEF p, id, r
<1>10. NothingLost'
  BY <1>5, <1>6, <1>9 DEF NothingLost
<1>11. Resolving'
  BY <1>7, <1>8 DEF Resolving
<1> QED
  BY <1>10, <1>11

(* A dialog that resolves stays open.                                      *)
LEMMA DialogEndsKeeps ==
  ASSUME IInv, NothingLost, Resolving, ResolveFails \/ CloseDialog, ~ClosesBusyDialog
  PROVE  NothingLost' /\ Resolving'
<1>1. UNCHANGED <<view, patches, applying, wanted>>
  BY DEF ResolveFails, CloseDialog, ghosts
<1>2. CASE ResolveFails
  <2>1. dialog' = dialog /\ calls' = [calls EXCEPT !["resolve"] = NoCall]
    BY <1>2 DEF ResolveFails
  <2>2. calls'["resolve"].step = "idle"
    BY <2>1 DEF IInv, Shape, Channels, NoCall
  <2> QED
    BY <1>1, <2>1, <2>2, WantedStays
<1>3. CASE CloseDialog
  <2>1. dialog' = NoDialog /\ calls' = calls
    BY <1>3 DEF CloseDialog
  <2>2. calls["resolve"].step = "idle"
    BY <1>3 DEF CloseDialog
  <2>3. dialog'.patch = 0
    BY <2>1 DEF NoDialog
  <2> QED
    BY <1>1, <2>1, <2>2, <2>3 DEF NothingLost, Resolving
<1> QED
  BY <1>2, <1>3

LEMMA KeptByNext ==
  ASSUME KInv, [Next]_dvars, ~ClosesBusyDialog
  PROVE  KInv'
<1>1. IInv /\ NothingLost /\ Resolving
  BY DEF KInv
<1>2. IInv'
  BY <1>1, NextHolds
<1>3. NothingLost' /\ Resolving'
  <2>1. ASSUME NEW f \in Fields, NEW x \in Values, edit(f, x)
        PROVE  NothingLost' /\ Resolving'
    BY <1>1, <2>1, editKeeps
  <2>2. ASSUME NEW c \in Channels,
               Serve(c) \/ Lose(c) \/ LookUp(c) \/ Unreadable(c) \/ (\E how \in {"refused", "busy"} : Refuse(c, how))
        PROVE  NothingLost' /\ Resolving'
    BY <1>1, <2>2, RequestsKeep
  <2>3. CASE \/ \E id \in Ids : ServeLate(id)
             \/ \E f \in Fields, x \in Values : CommitOther(f, x)
             \/ ServeProposal \/ LoseProposal \/ flushWaits
    BY <1>1, <2>3, ServersKeep
  <2>4. CASE flush
    BY <1>1, <2>4, flushKeeps
  <2>5. CASE SaveEnds
    BY <1>1, <2>5, SaveEndsKeeps
  <2>6. CASE discard \/ refresh \/ (\E id \in Ids : loadProposal(id) \/ applyProposal(id))
    BY <1>1, <2>6, GivenUpKeeps
  <2>7. CASE ProposalApplied \/ ProposalNotApplied
    BY <1>1, <2>7, ProposalsKeep
  <2>8. CASE Compare
    BY <1>1, <2>8, CompareKeeps
  <2>9. ASSUME NEW givenUp \in SUBSET Fields, Check(givenUp)
        PROVE  NothingLost' /\ Resolving'
    BY <1>1, <2>9, CheckKeeps
  <2>10. CASE Resolve
    BY <1>1, <2>10, ResolveKeeps
  <2>11. CASE ResolveEnds
    BY <1>1, <2>11, ResolveEndsKeeps
  <2>12. CASE ResolveFails \/ CloseDialog
    BY <1>1, <2>12, DialogEndsKeeps
  <2>13. CASE UNCHANGED dvars
    BY <1>1, <2>13 DEF dvars, NothingLost, Resolving
  <2> QED
    BY <2>1, <2>2, <2>3, <2>4, <2>5, <2>6, <2>7, <2>8, <2>9, <2>10, <2>11, <2>12, <2>13 DEF Next
<1> QED
  BY <1>2, <1>3 DEF KInv

(* Nothing is wanted at first.                                             *)
LEMMA KeptAtFirst ==
  ASSUME Init
  PROVE  KInv
<1>1. IInv
  BY InitHolds
<1>2. wanted = NotWanted /\ dialog = NoDialog /\ \A c \in Channels : calls[c] = NoCall
  BY DEF Init
<1>3. NothingLost
  BY <1>2 DEF NothingLost, NotWanted
<1>4. calls["resolve"].step = "idle" /\ dialog.patch = 0
  BY <1>2 DEF NoCall, NoDialog, Channels
<1>5. Resolving
  BY <1>2, <1>4 DEF Resolving
<1> QED
  BY <1>1, <1>3, <1>5 DEF KInv

(* What the user entered last and has not given up stays in the draft,     *)
(* whatever is committed, proposed, refused or lost meanwhile, as long as  *)
(* the conflict dialog is not closed while it resolves.                    *)
THEOREM NothingIsLost == ~ClosesBusyDialog => (Spec => []NothingLost)
<1> SUFFICES ASSUME ~ClosesBusyDialog PROVE Spec => []NothingLost
  OBVIOUS
<1>1. Init => KInv
  BY KeptAtFirst
<1>2. KInv /\ [Next]_dvars => KInv'
  BY KeptByNext
<1>3. KInv => NothingLost
  BY DEF KInv
<1> QED
  BY <1>1, <1>2, <1>3, PTL DEF Spec
-----------------------------------------------------------------------------
(* What lost answers cost                                                  *)

(* The save whose outcome the draft waits for, or does not know yet.       *)
Unsettled == IF calls["save"].step # "idle" THEN calls["save"].id
             ELSE IF uncertain # None THEN uncertain.id ELSE 0

Base(id) == patches[id].base.rev

(* What the server can still commit.                                       *)
Live(id) ==
  /\ Base(id) = source.rev
  /\ results[id].kind = "none" \/ (results[id].kind = "proposal" /\ ~Superseded(id))

(* Somebody else made a revision after from and up to to.                  *)
Foreign(from, to) == \E r \in from + 1 .. to : authors[r] # "save"

(* A commit makes the revision after its base, and an answer is the result *)
(* that the server has stored.                                             *)
Numbered ==
  /\ view.committed.rev <= source.rev
  /\ dialog.on => dialog.current.rev <= source.rev
  /\ \A id \in 1..Len(patches) : Base(id) <= source.rev
  /\ \A id \in 1..Len(patches) : results[id].kind = "committed" =>
       results[id].snapshot.rev = Base(id) + 1 /\ Base(id) + 1 <= source.rev
  /\ \A c \in Channels : calls[c].answer.kind = "committed" => calls[c].answer = results[calls[c].id]
  /\ applying.answer.kind = "committed" => applying.answer = results[applying.id]

(* The following are about a draft that shows v and has the unsettled save *)
(* s (0 for none), as long as nothing was given up or refused.  The save   *)
(* is based on what the draft shows.                                       *)
OnTop(v, s) ==
  s # 0 =>
    /\ Base(s) = v.committed.rev
    /\ patches[s].supersedes = v.proposalId
    /\ results[s].kind = "committed" => authors[Base(s) + 1] = "save"

(* A proposal that is replaced has the base of the one that replaces it.   *)
Lineage(v) ==
  /\ v.proposalId # 0 => Base(v.proposalId) = v.committed.rev
  /\ \A id \in 1..Len(patches) : patches[id].supersedes # 0 =>
       patches[id].supersedes \in 1..Len(patches) /\ Base(patches[id].supersedes) = Base(id)

(* The draft has in hand all that can still be committed.                  *)
InHand(v, s) ==
  \A id \in 1..Len(patches) : Live(id) =>
    id = s \/ id = dialog.patch \/ (id = v.proposalId /\ results[id].kind = "proposal")

Says(v, s) ==
  /\ v.state = "Outcome unknown" => s # 0
  /\ v.state # "Save failed"
  /\ v.state = "Changes conflict" => Foreign(v.committed.rev, source.rev)

(* A revision of the draft that it does not show is the one of the save,   *)
(* or of the dialog.                                                       *)
OwnRevisions(v, s) ==
  \A r \in v.committed.rev + 1 .. source.rev : authors[r] = "save" =>
    \/ s # 0 /\ results[s].kind = "committed" /\ r = v.committed.rev + 1
    \/ dialog.patch # 0 /\ results[dialog.patch].kind = "committed" /\ r = Base(dialog.patch) + 1

(* The proposal that is being applied is the one of the draft, or is too   *)
(* old or replaced.                                                        *)
Applies(v, s) ==
  applying.id # 0 =>
    /\ s = 0
    /\ results[applying.id].kind # "none"
    /\ applying.id # v.proposalId =>
         results[applying.id].kind = "proposal" /\ ~Live(applying.id)
    /\ results[applying.id].kind = "committed" => authors[Base(applying.id) + 1] = "proposal"

(* Nothing is under way and nothing can be while the dialog is open.       *)
Resting(v, s) ==
  ~v.dirty /\ v.state = "Saved" /\ v.proposalId = 0 /\ s = 0 /\ applying.id = 0

(* The patch of the dialog was not sent, or comes too late.                *)
Harmless(id) ==
  /\ results[id].kind = "none"
  /\ Base(id) < source.rev \/ (wire[id] = 0 /\ calls["resolve"].step = "idle")

(* The dialog compares with what somebody else made, unless the draft has  *)
(* a save or a proposal of its own, or nothing at all; and it resolves     *)
(* only what somebody else changed before.                                 *)
Compares(v, s) ==
  /\ calls["resolve"].step # "idle" => dialog.patch = calls["resolve"].id
  /\ dialog.on =>
       Foreign(v.committed.rev, source.rev) \/ s # 0 \/ v.proposalId # 0 \/ Resting(v, s)
  /\ dialog.patch # 0 =>
       /\ dialog.on /\ dialog.patch # v.proposalId
       /\ \/ Foreign(v.committed.rev, Base(dialog.patch))
          \/ Resting(v, s)
          \/ Harmless(dialog.patch)
       /\ results[dialog.patch].kind # "none" => v.committed.rev <= Base(dialog.patch)

(* No answer is a refusal, a conflict is for ever, and a proposal stays    *)
(* one while its answer is on the way.                                     *)
Heard ==
  \A c \in Channels :
    /\ calls[c].answer.kind \notin {"refused", "busy"}
    /\ calls[c].answer.kind = "proposal" => results[calls[c].id].kind = "proposal"
    /\ calls[c].answer.kind = "conflict" =>
         results[calls[c].id].kind # "committed" /\ Base(calls[c].id) < source.rev

Fine(v, s) ==
  /\ OnTop(v, s) /\ Lineage(v) /\ InHand(v, s) /\ Says(v, s)
  /\ OwnRevisions(v, s) /\ Applies(v, s) /\ Compares(v, s)

HInv == IInv /\ Numbered /\ (~abandoned /\ ~refused => Heard /\ Fine(view, Unsettled))

LEMMA UnsettledIs ==
  ASSUME IInv
  PROVE  /\ Unsettled \in 0..Len(patches)
         /\ Unsettled = 0 <=> calls["save"].step = "idle" /\ uncertain = None
         /\ GivesUp <=> Unsettled # 0 \/ view.proposalId # 0
         /\ Unsettled # 0 => Unsettled # dialog.patch
         /\ calls["save"].step # "idle" => uncertain = None /\ applying.id = 0
<1>1. Shape /\ Named /\ Apart /\ Saving /\ Len(patches) \in Nat
  BY Counts DEF IInv
<1>2. calls["save"].step # "idle" => calls["save"].id \in 1..Len(patches) /\ Own(calls["save"].id)
  BY <1>1 DEF Named, Apart, Channels
<1>3. uncertain # None => uncertain.id \in 1..Len(patches) /\ Own(uncertain.id)
  BY <1>1, DraftBounds DEF Shape, Named, Apart, Unknowns, Ids
<1>4. calls["save"].step # "idle" => uncertain = None /\ applying.id = 0
  BY <1>1 DEF Saving
<1> QED
  BY <1>1, <1>2, <1>3, <1>4 DEF Unsettled, GivesUp, Own

(* What the arguments below use of the types.                              *)
LEMMA Sorts ==
  ASSUME IInv
  PROVE  /\ source.rev \in Nat /\ authors \in Seq(Authors) /\ Len(authors) = source.rev
         /\ view.committed.rev \in Nat /\ Len(patches) \in Nat
         /\ \A id \in 1..Len(patches) :
              /\ Base(id) \in Nat /\ id \in Ids
              /\ results[id].kind \in {"none", "committed", "proposal"}
         /\ dialog.patch \in 0..Len(patches) /\ view.proposalId \in 0..Len(patches)
         /\ applying.id \in 0..Len(patches)
         /\ dialog.on => dialog.current.rev \in Nat
         /\ \A c \in Channels : calls[c].step # "idle" => calls[c].id \in 1..Len(patches)
<1>1. Shape /\ Named /\ Answering /\ Len(patches) \in Nat
  BY Counts DEF IInv
<1>2. source.rev \in Nat /\ authors \in Seq(Authors) /\ Len(authors) = source.rev
      /\ view.committed.rev \in Nat
  BY <1>1 DEF Shape, Snapshots, Views
<1>3. ASSUME NEW id \in 1..Len(patches)
      PROVE  /\ Base(id) \in Nat /\ id \in Ids
             /\ results[id].kind \in {"none", "committed", "proposal"}
  BY <1>1, <1>3, PatchTyped DEF Base, Snapshots, Answering
<1>4. dialog.patch \in 0..Len(patches) /\ view.proposalId \in 0..Len(patches)
      /\ applying.id \in 0..Len(patches)
  BY <1>1, DraftBounds DEF Shape, Named, DialogStates, Views, Applications
<1>5. dialog.on => dialog.current.rev \in Nat
  BY <1>1 DEF Named, Snapshots
<1>6. \A c \in Channels : calls[c].step # "idle" => calls[c].id \in 1..Len(patches)
  BY <1>1 DEF Named
<1> QED
  BY <1>1, <1>2, <1>3, <1>4, <1>5, <1>6

(* A step that leaves the server, the patches and the dialog alone, and    *)
(* the draft on the same source and with the same save unsettled.          *)
LEMMA QuietFine ==
  ASSUME NEW v, NEW s, Fine(v, s),
         UNCHANGED <<source, authors, results, patches, dialog>>,
         view'.committed = v.committed, view'.proposalId = v.proposalId,
         Unsettled' = s, applying'.id \in {0, applying.id},
         \/ view'.state = v.state
         \/ view'.state \in {"Editing", "Saving", "Saved", "Proposed"}
         \/ view'.state = "Outcome unknown" /\ s # 0,
         Resting(v, s) /\ dialog.on => ~view'.dirty /\ view'.state = "Saved",
         calls'["resolve"].step # "idle" =>
           calls["resolve"].step # "idle" /\ calls'["resolve"].id = calls["resolve"].id,
         dialog.patch # 0 =>
           wire'[dialog.patch] = wire[dialog.patch] \/ calls["resolve"].step # "idle"
  PROVE  Fine(view, Unsettled)'
<1>1. \A id : Base(id)' = Base(id) /\ (Live(id)' <=> Live(id))
  BY DEF Base, Live, Superseded
<1>2. \A from, to : Foreign(from, to)' <=> Foreign(from, to)
  BY DEF Foreign
<1>3. OnTop(view, Unsettled)' /\ Lineage(view)' /\ InHand(view, Unsettled)' /\ OwnRevisions(view, Unsettled)'
  BY <1>1 DEF Fine, OnTop, Lineage, InHand, OwnRevisions
<1>4. Says(view, Unsettled)'
  BY <1>2 DEF Fine, Says
<1>5. Applies(view, Unsettled)'
  BY <1>1 DEF Fine, Applies
<1>6. Compares(view, Unsettled)'
  <2>1. dialog.on /\ Resting(v, s) => Resting(view, Unsettled)'
    BY DEF Resting
  <2>2. dialog.patch # 0 /\ Harmless(dialog.patch) => Harmless(dialog.patch)'
    BY <1>1 DEF Harmless
  <2> QED
    BY <1>1, <1>2, <2>1, <2>2 DEF Fine, Compares
<1> QED
  BY <1>3, <1>4, <1>5, <1>6 DEF Fine

(* A commit: of the unsettled save, of the dialog, of the proposal of the  *)
(* draft, or of somebody else (0).                                         *)
LEMMA CommitFine ==
  ASSUME IInv, Numbered, Fine(view, Unsettled),
         UNCHANGED <<patches, view, uncertain, dialog>>,
         Unsettled' = Unsettled, applying'.id = applying.id,
         calls'["resolve"].step = calls["resolve"].step, calls'["resolve"].id = calls["resolve"].id,
         NEW by, authors' = Append(authors, by), source'.rev = source.rev + 1,
         NEW x \in 0..Len(patches),
         \A id \in 1..Len(patches) : id # x => results'[id] = results[id],
         x = 0 => by # "save",
         x # 0 => Live(x) /\ results'[x].kind = "committed",
         \/ x = 0
         \/ x = Unsettled /\ by = "save"
         \/ x = dialog.patch /\ (wire[x] > 0 \/ calls["resolve"].step # "idle") /\ by \in {"save", "resolve"}
         \/ x = applying.id /\ x = view.proposalId /\ by = "proposal"
  PROVE  Fine(view, Unsettled)'
<1> DEFINE s == Unsettled
<1> DEFINE d == dialog.patch
<1> DEFINE n == source.rev
<1>1. /\ n \in Nat /\ Len(authors) = n /\ authors \in Seq(Authors) /\ Len(patches) \in Nat
      /\ \A id \in 1..Len(patches) : Base(id) \in Nat /\ Base(id) <= n
      /\ view.committed.rev \in Nat /\ view.committed.rev <= n
      /\ s \in 0..Len(patches) /\ d \in 0..Len(patches) /\ applying.id \in 0..Len(patches)
      /\ s # 0 => s # d /\ s \in 1..Len(patches)
      /\ d # 0 => d \in 1..Len(patches)
  BY Sorts, UnsettledIs DEF Numbered
<1>2. \A id : Base(id)' = Base(id)
  BY DEF Base
<1>3. \A id \in 1..Len(patches) : ~Live(id)'
  BY <1>1, <1>2 DEF Live
<1>4. authors'[n + 1] = by /\ \A r \in 1..n : authors'[r] = authors[r]
  <2>1. \A i \in 1..Len(authors) : Append(authors, by)[i] = authors[i]
    BY <1>1
  <2>2. Append(authors, by)[Len(authors) + 1] = by
    BY <1>1
  <2> QED
    BY <1>1, <2>1, <2>2
<1>5. \A id \in 1..Len(patches) : results[id].kind = "committed" => Base(id) + 1 \in 1..n
  BY <1>1 DEF Numbered
<1>6. x # 0 => Base(x) = n /\ results[x].kind # "committed"
  BY DEF Live
<1>7. \A to \in Nat : \A r \in view.committed.rev + 1 .. to :
        to <= n /\ authors[r] # "save" => authors'[r] # "save"
  BY <1>1, <1>4
<1>8. Foreign(view.committed.rev, n) => Foreign(view.committed.rev, source.rev)'
  BY <1>1, <1>7 DEF Foreign
<1>9. \A id \in 1..Len(patches) : results[id].kind = "committed" => results'[id] = results[id]
  BY <1>6
<1>10. OnTop(view, s)'
  <2> SUFFICES ASSUME s # 0
               PROVE  /\ Base(s) = view.committed.rev /\ patches[s].supersedes = view.proposalId
                      /\ results'[s].kind = "committed" => authors'[Base(s) + 1] = "save"
    BY <1>2 DEF OnTop
  <2>1. /\ Base(s) = view.committed.rev /\ patches[s].supersedes = view.proposalId
        /\ results[s].kind = "committed" => authors[Base(s) + 1] = "save"
    BY DEF Fine, OnTop
  <2>2. CASE x = s
    <3>1. by = "save"
      BY <1>1, <2>2, UnsettledIs DEF Fine, Applies
    <3> QED
      BY <1>4, <1>6, <2>1, <2>2, <3>1
  <2>3. CASE x # s
    BY <1>1, <1>4, <1>5, <2>1, <2>3
  <2> QED
    BY <2>2, <2>3
<1>11. Lineage(view)'
  BY <1>2 DEF Fine, Lineage
<1>12. InHand(view, s)'
  BY <1>3 DEF InHand
<1>13. Says(view, s)'
  BY <1>8 DEF Fine, Says
<1>14. OwnRevisions(view, s)'
  <2> SUFFICES ASSUME NEW r \in view.committed.rev + 1 .. n + 1, authors'[r] = "save"
               PROVE  \/ s # 0 /\ results'[s].kind = "committed" /\ r = view.committed.rev + 1
                      \/ d # 0 /\ results'[d].kind = "committed" /\ r = Base(d) + 1
    BY <1>2 DEF OwnRevisions
  <2>1. CASE r \in view.committed.rev + 1 .. n
    <3>1. authors[r] = "save"
      BY <1>1, <1>4, <2>1
    <3>2. \/ s # 0 /\ results[s].kind = "committed" /\ r = view.committed.rev + 1
          \/ d # 0 /\ results[d].kind = "committed" /\ r = Base(d) + 1
      BY <2>1, <3>1 DEF Fine, OwnRevisions
    <3> QED
      <4>1. s # 0 /\ results[s].kind = "committed" => results'[s].kind = "committed"
        BY <1>1, <1>9
      <4>2. d # 0 /\ results[d].kind = "committed" => results'[d].kind = "committed"
        BY <1>1, <1>9
      <4> QED
        BY <3>2, <4>1, <4>2
  <2>2. CASE r = n + 1
    <3>1. by = "save"
      BY <1>4, <2>2
    <3>2. x # 0 /\ (x = s \/ x = d)
      BY <3>1
    <3>3. x = s => r = view.committed.rev + 1
      BY <1>6, <2>2, <3>2 DEF Fine, OnTop
    <3> QED
      BY <1>6, <2>2, <3>2, <3>3
  <2> QED
    BY <1>1, <2>1, <2>2
<1>15. Applies(view, s)'
  <2> SUFFICES ASSUME applying.id # 0
               PROVE  /\ s = 0 /\ results'[applying.id].kind # "none"
                      /\ applying.id # view.proposalId => results'[applying.id].kind = "proposal"
                      /\ results'[applying.id].kind = "committed" => authors'[Base(applying.id) + 1] = "proposal"
    <3>1. applying.id # 0 => ~Live(applying.id)'
      BY <1>1, <1>3
    <3> QED
      BY <1>2, <3>1 DEF Applies
  <2>1. /\ s = 0 /\ results[applying.id].kind # "none"
        /\ applying.id # view.proposalId => results[applying.id].kind = "proposal" /\ ~Live(applying.id)
        /\ results[applying.id].kind = "committed" => authors[Base(applying.id) + 1] = "proposal"
    BY DEF Fine, Applies
  <2>2. CASE x = applying.id
    <3>1. x = view.proposalId
      BY <2>1, <2>2
    <3>2. by = "proposal"
      BY <2>1, <2>2, <3>1 DEF Fine, Compares
    <3> QED
      BY <1>4, <1>6, <2>1, <2>2, <3>1, <3>2
  <2>3. CASE x # applying.id
    BY <1>1, <1>4, <1>5, <2>1, <2>3
  <2> QED
    BY <2>2, <2>3
<1>16. Compares(view, s)'
  <2>1. Resting(view, s)' <=> Resting(view, s)
    BY DEF Resting
  <2>2. ASSUME d # 0
        PROVE  /\ \/ Foreign(view.committed.rev, Base(d))'
                  \/ Resting(view, s)
                  \/ Harmless(d)'
               /\ results'[d].kind # "none" => view.committed.rev <= Base(d)
    <3>1. /\ Foreign(view.committed.rev, Base(d)) \/ Resting(view, s) \/ Harmless(d)
          /\ results[d].kind # "none" => view.committed.rev <= Base(d)
      BY <2>2 DEF Fine, Compares
    <3>2. Foreign(view.committed.rev, Base(d)) => Foreign(view.committed.rev, Base(d))'
      BY <1>1, <1>2, <1>7, <2>2 DEF Foreign
    <3>3. CASE x = d
      <4>1. wire[d] > 0 \/ calls["resolve"].step # "idle"
        BY <2>2, <3>3, <1>1, UnsettledIs DEF Fine, Compares
      <4>2. Base(d) = n
        BY <1>6, <2>2, <3>3
      <4>3. ~Harmless(d)
        <5>1. wire[d] > 0 => wire[d] # 0
          BY <1>1, <2>2, Sorts DEF IInv, Shape
        <5> QED
          BY <1>1, <4>1, <4>2, <5>1 DEF Harmless
      <4> QED
        BY <1>1, <3>1, <3>2, <4>2, <4>3
    <3>4. CASE x # d
      <4>1. results'[d] = results[d]
        <5>1. d \in 1..Len(patches)
          BY <1>1, <2>2
        <5> QED
          BY <3>4, <5>1
      <4>2. Base(d) < source'.rev
        BY <1>1, <2>2
      <4>3. Harmless(d) => Harmless(d)'
        BY <1>2, <4>1, <4>2 DEF Harmless
      <4> QED
        BY <3>1, <3>2, <4>1, <4>3
    <3> QED
      BY <3>3, <3>4
  <2> QED
    BY <1>2, <1>8, <2>1, <2>2 DEF Fine, Compares
<1> QED
  BY <1>10, <1>11, <1>12, <1>13, <1>14, <1>15, <1>16 DEF Fine

(* A proposal is stored: of the unsettled save or of the dialog.           *)
LEMMA StoreFine ==
  ASSUME IInv, Numbered, Fine(view, Unsettled),
         UNCHANGED <<source, authors, patches, view, uncertain, dialog>>,
         Unsettled' = Unsettled, applying'.id = applying.id,
         calls'["resolve"].step = calls["resolve"].step, calls'["resolve"].id = calls["resolve"].id,
         NEW x \in 1..Len(patches), Base(x) = source.rev,
         results[x].kind = "none", results'[x].kind = "proposal",
         \A id \in 1..Len(patches) : id # x => results'[id] = results[id],
         dialog.patch # 0 /\ dialog.patch # x => wire'[dialog.patch] = wire[dialog.patch],
         \/ x = Unsettled
         \/ x = dialog.patch /\ (wire[x] > 0 \/ calls["resolve"].step # "idle")
  PROVE  Fine(view, Unsettled)'
<1> DEFINE s == Unsettled
<1> DEFINE d == dialog.patch
<1>1. /\ Len(patches) \in Nat /\ Base(x) \in Nat /\ source.rev \in Nat
      /\ view.committed.rev \in Nat /\ view.committed.rev <= source.rev
      /\ s # 0 => s # d /\ s \in 1..Len(patches)
      /\ d # 0 => d \in 1..Len(patches)
      /\ applying.id # 0 => applying.id \in 1..Len(patches)
  BY Sorts, UnsettledIs DEF Numbered
<1>2. \A id : Base(id)' = Base(id)
  BY DEF Base
<1>3. \A id \in 1..Len(patches) :
        /\ results'[id].kind = "committed" <=> results[id].kind = "committed"
        /\ results[id].kind # "none" => results'[id] = results[id]
        /\ results[id].kind = "proposal" => results'[id].kind = "proposal"
  OBVIOUS
<1>4. ASSUME NEW id \in 1..Len(patches), id # x, Live(id)'
      PROVE  Live(id)
  <2>1. Superseded(id) => Superseded(id)'
    BY DEF Superseded
  <2> QED
    BY <1>2, <1>4, <2>1 DEF Live
<1>5. Live(x)
  BY DEF Live
<1>6. \A from, to : Foreign(from, to)' <=> Foreign(from, to)
  BY DEF Foreign
<1>7. OnTop(view, s)'
  BY <1>1, <1>2, <1>3 DEF Fine, OnTop
<1>8. Lineage(view)'
  BY <1>2 DEF Fine, Lineage
<1>9. InHand(view, s)'
  <2> SUFFICES ASSUME NEW id \in 1..Len(patches), Live(id)'
               PROVE  id = s \/ id = d \/ (id = view.proposalId /\ results'[id].kind = "proposal")
    BY DEF InHand
  <2>1. CASE id # x
    BY <1>3, <1>4, <2>1 DEF Fine, InHand
  <2> QED
    BY <2>1
<1>10. Says(view, s)'
  BY <1>6 DEF Fine, Says
<1>11. OwnRevisions(view, s)'
  BY <1>1, <1>2, <1>3 DEF Fine, OwnRevisions
<1>12. Applies(view, s)'
  <2> SUFFICES ASSUME applying.id # 0 PROVE Applies(view, s)'
    BY DEF Applies
  <2>1. applying.id # x /\ applying.id \in 1..Len(patches)
    BY <1>1 DEF Fine, Applies
  <2> QED
    BY <1>2, <1>3, <1>4, <2>1 DEF Fine, Applies
<1>13. Compares(view, s)'
  <2>1. Resting(view, s)' <=> Resting(view, s)
    BY DEF Resting
  <2>2. ASSUME d # 0
        PROVE  /\ Foreign(view.committed.rev, Base(d)) \/ Resting(view, s) \/ Harmless(d)'
               /\ results'[d].kind # "none" => view.committed.rev <= Base(d)
    <3>1. /\ Foreign(view.committed.rev, Base(d)) \/ Resting(view, s) \/ Harmless(d)
          /\ results[d].kind # "none" => view.committed.rev <= Base(d)
      BY <2>2 DEF Fine, Compares
    <3>2. CASE x = d
      <4>1. wire[d] > 0 \/ calls["resolve"].step # "idle"
        BY <1>1, <2>2, <3>2
      <4>2. wire[d] > 0 => wire[d] # 0
        BY <1>1, <2>2, Sorts DEF IInv, Shape
      <4> QED
        BY <1>1, <3>1, <3>2, <4>1, <4>2 DEF Harmless
    <3>3. CASE x # d
      <4>1. results'[d] = results[d] /\ wire'[d] = wire[d]
        BY <1>1, <2>2, <3>3
      <4> QED
        BY <1>2, <3>1, <4>1 DEF Harmless
    <3> QED
      BY <3>2, <3>3
  <2> QED
    BY <1>2, <1>6, <2>1, <2>2 DEF Fine, Compares
<1> QED
  BY <1>7, <1>8, <1>9, <1>10, <1>11, <1>12, <1>13 DEF Fine

(* What the server answers to a patch, and what it then does.              *)
LEMMA Outcomes ==
  ASSUME IInv, NEW x \in 1..Len(patches), NEW by, Executed(x, by)
  PROVE  /\ \A id \in 1..Len(patches) : id # x => results'[id] = results[id]
         /\ \/ /\ results[x].kind \in {"committed", "proposal"} /\ Verdict(x) = results[x]
               /\ UNCHANGED <<source, authors, results>>
            \/ /\ results[x].kind # "committed" /\ Base(x) # source.rev
               /\ Verdict(x).kind = "conflict" /\ UNCHANGED <<source, authors, results>>
            \/ /\ patches[x].supersedes # 0 /\ Base(patches[x].supersedes) # Base(x)
               /\ Verdict(x).kind = "refused" /\ UNCHANGED <<source, authors, results>>
            \/ /\ results[x].kind = "none" /\ Base(x) = source.rev
               /\ Verdict(x).kind = "proposal" /\ results'[x].kind = "proposal"
               /\ UNCHANGED <<source, authors>>
            \/ /\ results[x].kind = "none" /\ Base(x) = source.rev
               /\ Verdict(x).kind = "committed" /\ results'[x] = Verdict(x)
               /\ authors' = Append(authors, by) /\ source'.rev = source.rev + 1
               /\ Verdict(x).snapshot.rev = source.rev + 1
<1> DEFINE v == Verdict(x)
<1>1. x \in Ids /\ results \in [Ids -> Answers] /\ results[x].kind \in {"none", "committed", "proposal"}
  BY Sorts DEF IInv, Shape
<1>2. results' = [results EXCEPT ![x] = IF v.kind \in {"committed", "proposal"} THEN v ELSE @]
      /\ IF v.kind = "committed" /\ results[x].kind # "committed"
         THEN source' = v.snapshot /\ authors' = Append(authors, by)
         ELSE UNCHANGED <<source, authors>>
  BY DEF Executed
<1>3. \A id \in 1..Len(patches) : id # x => results'[id] = results[id]
  BY <1>1, <1>2, Sorts
<1>4. results'[x] = IF v.kind \in {"committed", "proposal"} THEN v ELSE results[x]
  BY <1>1, <1>2
<1>5. v.kind \notin {"committed", "proposal"} => results' = results
  BY <1>1, <1>2
<1>6. CASE results[x].kind = "committed"
  <2>1. v = results[x]
    BY <1>6 DEF Verdict
  <2> QED
    BY <1>1, <1>2, <1>3, <1>6, <2>1
<1>7. CASE results[x].kind # "committed" /\ Base(x) # source.rev
  <2>1. v = Result("conflict", None)
    BY <1>7 DEF Verdict, Base
  <2> QED
    BY <1>2, <1>3, <1>5, <1>7, <2>1 DEF Result
<1>8. CASE results[x].kind = "proposal" /\ Base(x) = source.rev
  <2>1. v = results[x]
    BY <1>8 DEF Verdict, Base
  <2> QED
    BY <1>1, <1>2, <1>3, <1>8, <2>1
<1>9. CASE results[x].kind = "none" /\ Base(x) = source.rev
  <2>1. v = IF patches[x].supersedes # 0 /\ Base(patches[x].supersedes) # Base(x)
            THEN Result("refused", None)
            ELSE IF mode = "review-each-change" THEN Result("proposal", None)
            ELSE Result("committed", NextRevision(patches[x].sent))
    BY <1>9 DEF Verdict, Base
  <2>2. NextRevision(patches[x].sent).rev = source.rev + 1
    BY DEF NextRevision
  <2>3. CASE v = Result("refused", None) /\ patches[x].supersedes # 0 /\ Base(patches[x].supersedes) # Base(x)
    BY <1>2, <1>3, <1>5, <2>3 DEF Result
  <2>4. CASE v = Result("proposal", None)
    BY <1>2, <1>3, <1>4, <1>9, <2>4 DEF Result
  <2>5. CASE v = Result("committed", NextRevision(patches[x].sent))
    BY <1>2, <1>3, <1>4, <1>9, <2>2, <2>5 DEF Result
  <2> QED
    BY <2>1, <2>3, <2>4, <2>5
<1> QED
  BY <1>1, <1>6, <1>7, <1>8, <1>9

(* The server commits or stores mutation x, or none (0).                   *)
LEMMA NumberedServes ==
  ASSUME IInv, Numbered, UNCHANGED <<patches, view, dialog>>,
         source'.rev \in {source.rev, source.rev + 1},
         NEW x \in 0..Len(patches),
         \A id \in 1..Len(patches) : id # x => results'[id] = results[id],
         x # 0 /\ results[x].kind = "committed" => results'[x] = results[x],
         x # 0 /\ results[x].kind # "committed" /\ results'[x].kind = "committed" =>
           results'[x].snapshot.rev = Base(x) + 1 /\ Base(x) + 1 = source'.rev,
         \A c \in Channels : calls'[c].answer.kind = "committed" =>
           calls'[c] = calls[c] \/ calls'[c].answer = results'[calls'[c].id],
         applying'.answer.kind = "committed" =>
           applying' = applying \/ applying'.answer = results'[applying'.id]
  PROVE  Numbered'
<1>1. /\ source.rev \in Nat /\ view.committed.rev \in Nat /\ Len(patches) \in Nat
      /\ \A id \in 1..Len(patches) : Base(id) \in Nat
      /\ dialog.on => dialog.current.rev \in Nat
  BY Sorts
<1>2. \A id : Base(id)' = Base(id)
  BY DEF Base
<1>3. \A id \in 1..Len(patches) : results[id].kind = "committed" => results'[id] = results[id]
  OBVIOUS
<1>4. /\ view'.committed.rev <= source'.rev
      /\ dialog'.on => dialog'.current.rev <= source'.rev
      /\ \A id \in 1..Len(patches) : Base(id) <= source'.rev
  BY <1>1 DEF Numbered
<1>5. ASSUME NEW id \in 1..Len(patches), results'[id].kind = "committed"
      PROVE  results'[id].snapshot.rev = Base(id) + 1 /\ Base(id) + 1 <= source'.rev
  <2>1. CASE results[id].kind = "committed"
    BY <1>1, <1>3, <2>1 DEF Numbered
  <2>2. CASE results[id].kind # "committed"
    <3>1. id = x
      BY <1>5, <2>2
    <3> QED
      BY <1>1, <1>5, <2>2, <3>1
  <2> QED
    BY <2>1, <2>2
<1>6. ASSUME NEW c \in Channels, calls'[c].answer.kind = "committed"
      PROVE  calls'[c].answer = results'[calls'[c].id]
  <2> SUFFICES ASSUME calls'[c] = calls[c] PROVE calls[c].answer = results'[calls[c].id]
    BY <1>6
  <2>1. calls[c].answer = results[calls[c].id]
    BY <1>6 DEF Numbered
  <2>2. calls[c].id \in 1..Len(patches)
    BY <1>6, CallTyped DEF IInv, Nothing
  <2> QED
    BY <1>3, <1>6, <2>1, <2>2
<1>7. ASSUME applying'.answer.kind = "committed" PROVE applying'.answer = results'[applying'.id]
  <2> SUFFICES ASSUME applying' = applying PROVE applying.answer = results'[applying.id]
    BY <1>7
  <2>1. applying.answer = results[applying.id]
    BY <1>7 DEF Numbered
  <2>2. applying.id \in 1..Len(patches)
    BY <1>1, <1>7, Sorts DEF IInv, Named, Nothing
  <2> QED
    BY <1>3, <1>7, <2>1, <2>2
<1> QED
  BY <1>2, <1>4, <1>5, <1>6, <1>7 DEF Numbered

(* What calls have been told stays true.                                   *)
LEMMA HeardStays ==
  ASSUME IInv, Numbered, Heard, UNCHANGED patches,
         source'.rev \in {source.rev, source.rev + 1},
         \A id \in 1..Len(patches) : results'[id].kind = "committed" =>
           results[id].kind = "committed" \/ Base(id) = source.rev,
         \A c \in Channels : calls[c].answer.kind = "proposal" =>
           (results[calls[c].id].kind = "proposal" => results'[calls[c].id].kind = "proposal"),
         NEW c \in Channels,
         \/ calls'[c].answer = calls[c].answer /\ calls'[c].id = calls[c].id
         \/ calls'[c].answer.kind \in {"none", "unknown"}
  PROVE  /\ calls'[c].answer.kind \notin {"refused", "busy"}
         /\ calls'[c].answer.kind = "proposal" => results'[calls'[c].id].kind = "proposal"
         /\ calls'[c].answer.kind = "conflict" =>
              results'[calls'[c].id].kind # "committed" /\ Base(calls[c].id)' < source'.rev
<1> SUFFICES ASSUME calls'[c].answer = calls[c].answer /\ calls'[c].id = calls[c].id
             PROVE  /\ calls'[c].answer.kind \notin {"refused", "busy"}
                    /\ calls'[c].answer.kind = "proposal" => results'[calls'[c].id].kind = "proposal"
                    /\ calls'[c].answer.kind = "conflict" =>
                         results'[calls'[c].id].kind # "committed" /\ Base(calls[c].id)' < source'.rev
  OBVIOUS
<1>1. /\ calls[c].answer.kind \notin {"refused", "busy"}
      /\ calls[c].answer.kind = "proposal" => results[calls[c].id].kind = "proposal"
      /\ calls[c].answer.kind = "conflict" =>
           results[calls[c].id].kind # "committed" /\ Base(calls[c].id) < source.rev
  BY DEF Heard
<1>2. ASSUME calls[c].answer.kind = "conflict"
      PROVE  results'[calls[c].id].kind # "committed" /\ Base(calls[c].id)' < source'.rev
  <2>1. calls[c].id \in 1..Len(patches)
    BY <1>2, CallTyped DEF IInv, Nothing
  <2>2. source.rev \in Nat /\ Base(calls[c].id) \in Nat
    BY <2>1, Sorts
  <2>3. Base(calls[c].id)' = Base(calls[c].id)
    BY DEF Base
  <2>4. Base(calls[c].id) < source.rev /\ results[calls[c].id].kind # "committed"
    BY <1>1, <1>2
  <2> QED
    BY <2>1, <2>2, <2>3, <2>4
<1> QED
  BY <1>1, <1>2

(* A request is handled: of a call, or one nobody waits for.               *)
LEMMA ServesHold ==
  ASSUME HInv, NEW x \in 1..Len(patches), NEW by, Executed(x, by),
         UNCHANGED <<patches, view, uncertain, dialog, applying, abandoned, refused>>,
         wire \in [Ids -> Nat], wire[x] > 0, wire' = [wire EXCEPT ![x] = @ - 1],
         \A c \in Channels :
           \/ calls'[c] = calls[c]
           \/ calls'[c].step = calls[c].step /\ calls'[c].id = x /\ x = calls[c].id /\ calls'[c].answer = Verdict(x),
         by = "save" \/ (by = "resolve" /\ x = calls["resolve"].id /\ calls["resolve"].step # "idle")
  PROVE  Numbered' /\ (~abandoned' /\ ~refused' => Heard' /\ Fine(view, Unsettled)')
<1> DEFINE v == Verdict(x)
<1>1. IInv /\ Numbered
  BY DEF HInv
<1>2. /\ \A id \in 1..Len(patches) : id # x => results'[id] = results[id]
      /\ \/ /\ results[x].kind \in {"committed", "proposal"} /\ v = results[x]
            /\ UNCHANGED <<source, authors, results>>
         \/ /\ results[x].kind # "committed" /\ Base(x) # source.rev
            /\ v.kind = "conflict" /\ UNCHANGED <<source, authors, results>>
         \/ /\ patches[x].supersedes # 0 /\ Base(patches[x].supersedes) # Base(x)
            /\ v.kind = "refused" /\ UNCHANGED <<source, authors, results>>
         \/ /\ results[x].kind = "none" /\ Base(x) = source.rev
            /\ v.kind = "proposal" /\ results'[x].kind = "proposal"
            /\ UNCHANGED <<source, authors>>
         \/ /\ results[x].kind = "none" /\ Base(x) = source.rev
            /\ v.kind = "committed" /\ results'[x] = v
            /\ authors' = Append(authors, by) /\ source'.rev = source.rev + 1
            /\ v.snapshot.rev = source.rev + 1
  BY <1>1, Outcomes
<1> HIDE DEF v
<1>3. source'.rev \in {source.rev, source.rev + 1}
  BY <1>2
<1>4. source.rev \in Nat /\ Base(x) \in Nat /\ Base(x) <= source.rev /\ x \in Ids
  BY <1>1, Sorts DEF Numbered
<1>5. Numbered'
  <2>1. results[x].kind = "committed" => results'[x] = results[x]
    BY <1>2
  <2>2. results[x].kind # "committed" /\ results'[x].kind = "committed" =>
          results'[x].snapshot.rev = Base(x) + 1 /\ Base(x) + 1 = source'.rev
    BY <1>2
  <2>3. v.kind = "committed" => v = results'[x]
    BY <1>2
  <2>4. \A c \in Channels : calls'[c].answer.kind = "committed" =>
          calls'[c] = calls[c] \/ calls'[c].answer = results'[calls'[c].id]
    BY <2>3 DEF v
  <2> QED
    BY <1>1, <1>2, <1>3, <2>1, <2>2, <2>4, NumberedServes
<1> SUFFICES ASSUME Heard, Fine(view, Unsettled)
             PROVE  Heard' /\ Fine(view, Unsettled)'
  BY <1>5 DEF HInv
<1>6. v.kind # "refused"
  <2>1. patches[x].supersedes # 0 => Base(patches[x].supersedes) = Base(x)
    BY DEF Fine, Lineage
  <2> QED
    BY <1>2, <2>1
<1>7. \A c \in Channels : calls'[c].step = calls[c].step /\ calls'[c].id = calls[c].id
  OBVIOUS
<1>8. Unsettled' = Unsettled
  BY <1>7 DEF Unsettled, Channels
<1>9. Heard'
  <2> SUFFICES ASSUME NEW c \in Channels
               PROVE  /\ calls'[c].answer.kind \notin {"refused", "busy"}
                      /\ calls'[c].answer.kind = "proposal" => results'[calls'[c].id].kind = "proposal"
                      /\ calls'[c].answer.kind = "conflict" =>
                           results'[calls'[c].id].kind # "committed" /\ Base(calls[c].id)' < source'.rev
    BY DEF Heard
  <2>1. CASE calls'[c] = calls[c]
    <3>1. \A id \in 1..Len(patches) : results'[id].kind = "committed" =>
            results[id].kind = "committed" \/ Base(id) = source.rev
      BY <1>2
    <3>2. \A id \in 1..Len(patches) : results[id].kind = "proposal" => results'[id].kind = "proposal"
      BY <1>2
    <3>3. \A d \in Channels : calls[d].answer.kind = "proposal" => calls[d].id \in 1..Len(patches)
      BY <1>1, CallTyped DEF IInv, Nothing
    <3> QED
      BY <1>1, <1>3, <2>1, <3>1, <3>2, <3>3, HeardStays
  <2>2. CASE calls'[c].id = x /\ x = calls[c].id /\ calls'[c].answer = v
    <3>1. Base(calls[c].id)' = Base(x)
      BY <2>2 DEF Base
    <3>2. /\ v.kind = "proposal" => results'[x].kind = "proposal"
          /\ v.kind = "conflict" => results'[x].kind # "committed" /\ Base(x) < source'.rev
          /\ v.kind \notin {"refused", "busy"}
      BY <1>2, <1>4, <1>6
    <3> QED
      BY <2>2, <3>1, <3>2
  <2> QED
    BY <2>1, <2>2 DEF v
<1>10. /\ dialog.patch # 0 /\ dialog.patch # x => wire'[dialog.patch] = wire[dialog.patch]
       /\ dialog.patch = x => wire[dialog.patch] > 0
  BY <1>1, Sorts
<1>11. Fine(view, Unsettled)'
  <2>1. CASE UNCHANGED <<source, authors, results>>
    <3>1. \A id : Base(id)' = Base(id) /\ (Live(id)' <=> Live(id))
      BY <2>1 DEF Base, Live, Superseded
    <3>2. \A from, to : Foreign(from, to)' <=> Foreign(from, to)
      BY <2>1 DEF Foreign
    <3>3. Resting(view, Unsettled)' <=> Resting(view, Unsettled)
      BY <1>8 DEF Resting
    <3>4. ASSUME dialog.patch # 0, Harmless(dialog.patch)
          PROVE  Harmless(dialog.patch)'
      <4>1. dialog.patch # x => wire'[dialog.patch] = wire[dialog.patch]
        BY <1>10, <3>4
      <4>2. dialog.patch = x => Base(x) < source.rev
        BY <3>4 DEF Harmless
      <4> QED
        BY <1>7, <2>1, <3>1, <3>4, <4>1, <4>2 DEF Harmless, Channels
    <3>5. Compares(view, Unsettled)'
      BY <1>7, <1>8, <2>1, <3>1, <3>2, <3>3, <3>4 DEF Fine, Compares, Channels
    <3> QED
      BY <1>8, <2>1, <3>1, <3>2, <3>5 DEF Fine, OnTop, Lineage, InHand, Says, OwnRevisions, Applies
  <2>2. CASE ~UNCHANGED <<source, authors, results>>
    <3>1. results[x].kind = "none" /\ Base(x) = source.rev
      BY <1>2, <2>2
    <3>2. Live(x)
      BY <3>1 DEF Live
    <3>3. x = Unsettled \/ x = dialog.patch
      BY <3>1, <3>2 DEF Fine, InHand
    <3>4. by = "resolve" => x = dialog.patch
      BY DEF Fine, Compares
    <3>5. CASE v.kind = "committed"
      <4>1. /\ results'[x].kind = "committed" /\ authors' = Append(authors, by)
            /\ source'.rev = source.rev + 1
        BY <1>2, <2>2, <3>5
      <4>2. x # 0 /\ x \in 0..Len(patches)
        BY <1>4, <1>1, Sorts
      <4>3. x = Unsettled => by = "save"
        BY <1>1, <3>4, <4>2, UnsettledIs
      <4> QED
        BY <1>1, <1>2, <1>7, <1>8, <3>2, <3>3, <4>1, <4>2, <4>3, CommitFine DEF Channels
    <3>6. CASE v.kind # "committed"
      <4>1. results'[x].kind = "proposal" /\ UNCHANGED <<source, authors>>
        BY <1>2, <2>2, <3>6
      <4> QED
        BY <1>1, <1>2, <1>7, <1>8, <1>10, <3>1, <3>3, <4>1, StoreFine DEF Channels
    <3> QED
      BY <3>5, <3>6
  <2> QED
    BY <2>1, <2>2
<1> QED
  BY <1>5, <1>9, <1>11

LEMMA ServeHolds ==
  ASSUME HInv, NEW c \in Channels, Serve(c)
  PROVE  HInv'
<1> DEFINE x == calls[c].id
<1>1. IInv
  BY DEF HInv
<1>2. calls[c].step \in {"asked", "replayed"}
  BY DEF Serve, Awaits
<1>3. x \in 1..Len(patches) /\ wire \in [Ids -> Nat] /\ wire[x] > 0
  <2>1. OnItsWay /\ Awaits(c, x)
    BY <1>1 DEF IInv, Serve, Awaits
  <2> QED
    BY <1>1, <1>2, <2>1, Sorts DEF IInv, Shape, OnItsWay
<1>4. Executed(x, c) /\ wire' = [wire EXCEPT ![x] = @ - 1]
  BY DEF Serve
<1>5. UNCHANGED <<patches, view, uncertain, dialog, applying, abandoned, refused>>
  BY DEF Serve, ghosts
<1>6. \A d \in Channels :
        \/ calls'[d] = calls[d]
        \/ calls'[d].step = calls[d].step /\ calls'[d].id = x /\ x = calls[d].id /\ calls'[d].answer = Verdict(x)
  <2>1. calls \in [Channels -> Calls] /\ calls' = [calls EXCEPT ![c].answer = Verdict(x)]
    BY <1>1 DEF Serve, IInv, Shape
  <2> QED
    BY <2>1 DEF Calls
<1>7. c = "save" \/ (c = "resolve" /\ x = calls["resolve"].id /\ calls["resolve"].step # "idle")
  BY <1>2 DEF Channels
<1>8. Numbered' /\ (~abandoned' /\ ~refused' => Heard' /\ Fine(view, Unsettled)')
  BY <1>3, <1>4, <1>5, <1>6, <1>7, ServesHold
<1> QED
  BY <1>1, <1>8, ServeStep DEF HInv

LEMMA ServeLateHolds ==
  ASSUME HInv, NEW x \in Ids, ServeLate(x)
  PROVE  HInv'
<1>1. IInv
  BY DEF HInv
<1>2. wire \in [Ids -> Nat] /\ wire[x] > 0 /\ x \in 1..Len(patches)
  <2>1. wire \in [Ids -> Nat] /\ Named
    BY <1>1 DEF IInv, Shape
  <2>2. wire[x] > 0
    BY <2>1 DEF ServeLate
  <2> QED
    BY <2>1, <2>2 DEF Named, Ids
<1>3. UNCHANGED <<patches, view, uncertain, dialog, applying, calls, abandoned, refused>>
  BY DEF ServeLate, ghosts
<1>4. Executed(x, "save") /\ wire' = [wire EXCEPT ![x] = @ - 1]
  BY DEF ServeLate
<1>5. Numbered' /\ (~abandoned' /\ ~refused' => Heard' /\ Fine(view, Unsettled)')
  BY <1>2, <1>3, <1>4, ServesHold
<1> QED
  BY <1>1, <1>5, ServeLateStep DEF HInv

LEMMA CommitOtherHolds ==
  ASSUME HInv, NEW f \in Fields, NEW y \in Values, CommitOther(f, y)
  PROVE  HInv'
<1>1. IInv /\ Numbered
  BY DEF HInv
<1>2. UNCHANGED <<results, wire, patches, view, uncertain, calls, applying, dialog, abandoned, refused>>
      /\ authors' = Append(authors, "other") /\ source'.rev = source.rev + 1
  BY DEF CommitOther, ghosts, NextRevision
<1>3. 0 \in 0..Len(patches)
  BY <1>1, Sorts
<1>4. Numbered'
  BY <1>1, <1>2, <1>3, NumberedServes
<1> SUFFICES ASSUME Heard, Fine(view, Unsettled)
             PROVE  Heard' /\ Fine(view, Unsettled)'
  BY <1>1, <1>2, <1>4, CommitOtherStep DEF HInv
<1>5. Unsettled' = Unsettled
  BY <1>2 DEF Unsettled
<1>6. Fine(view, Unsettled)'
  BY <1>1, <1>2, <1>3, <1>5, CommitFine
<1>7. ASSUME NEW c \in Channels
      PROVE  /\ calls'[c].answer.kind \notin {"refused", "busy"}
             /\ calls'[c].answer.kind = "proposal" => results'[calls'[c].id].kind = "proposal"
             /\ calls'[c].answer.kind = "conflict" =>
                  results'[calls'[c].id].kind # "committed" /\ Base(calls[c].id)' < source'.rev
  BY <1>1, <1>2, HeardStays
<1> QED
  BY <1>6, <1>7 DEF Heard

(* The proposal that is applied is the one of the draft, or it conflicts.  *)
LEMMA ServeProposalHolds ==
  ASSUME HInv, ServeProposal
  PROVE  HInv'
<1> DEFINE a == applying.id
<1>1. IInv /\ Numbered
  BY DEF HInv
<1>2. UNCHANGED <<wire, patches, view, uncertain, calls, dialog, abandoned, refused>>
      /\ a # 0 /\ applying.answer = Nothing
  BY DEF ServeProposal, ghosts
<1>3. a \in 1..Len(patches) /\ a \in Ids /\ applying \in Applications /\ results \in [Ids -> Answers]
      /\ source.rev \in Nat /\ Len(patches) \in Nat
  BY <1>1, <1>2, Sorts DEF IInv, Shape
<1>4. \/ /\ results[a].kind \in {"committed", "proposal"} /\ UNCHANGED <<source, authors, results>>
         /\ applying'.answer = results[a] \/ applying'.answer.kind = "conflict"
      \/ /\ results[a].kind = "proposal" /\ Live(a)
         /\ authors' = Append(authors, "proposal") /\ source'.rev = source.rev + 1
         /\ results'[a] = Result("committed", NextRevision(patches[a].sent))
         /\ \A id \in 1..Len(patches) : id # a => results'[id] = results[id]
         /\ applying'.answer = results'[a]
  <2>1. CASE results[a].kind = "committed"
    BY <1>3, <2>1 DEF ServeProposal, Applications
  <2>2. CASE results[a].kind = "proposal" /\ ~(patches[a].base.rev = source.rev /\ ~Superseded(a))
    BY <1>3, <2>2 DEF ServeProposal, Applications, Result
  <2>3. CASE results[a].kind = "proposal" /\ patches[a].base.rev = source.rev /\ ~Superseded(a)
    <3>1. Live(a)
      BY <2>3 DEF Live, Base
    <3>2. /\ source' = NextRevision(patches[a].sent)
          /\ authors' = Append(authors, "proposal")
          /\ results' = [results EXCEPT ![a] = Result("committed", NextRevision(patches[a].sent))]
          /\ applying' = [applying EXCEPT !.answer = Result("committed", NextRevision(patches[a].sent))]
      BY <2>3 DEF ServeProposal
    <3>3. source'.rev = source.rev + 1
      BY <3>2 DEF NextRevision
    <3>4. applying'.answer = Result("committed", NextRevision(patches[a].sent))
      BY <1>3, <3>2 DEF Applications
    <3>5. \A id \in 1..Len(patches) : id \in Ids
      BY <1>1, Sorts
    <3> QED
      BY <1>3, <2>3, <3>1, <3>2, <3>3, <3>4, <3>5
  <2> QED
    BY <2>1, <2>2, <2>3 DEF ServeProposal
<1>5. applying'.id = a
  BY <1>3 DEF ServeProposal, Applications
<1>6. Result("committed", NextRevision(patches[a].sent)).kind = "committed"
      /\ Result("committed", NextRevision(patches[a].sent)).snapshot.rev = source.rev + 1
  BY DEF Result, NextRevision
<1>7. Numbered'
  <2>1. source'.rev \in {source.rev, source.rev + 1}
    BY <1>4
  <2>2. \A id \in 1..Len(patches) : id # a => results'[id] = results[id]
    BY <1>4
  <2>3. results[a].kind = "committed" => results'[a] = results[a]
    BY <1>4
  <2>4. results[a].kind # "committed" /\ results'[a].kind = "committed" =>
          results'[a].snapshot.rev = Base(a) + 1 /\ Base(a) + 1 = source'.rev
    BY <1>4, <1>6 DEF Live
  <2>5. applying'.answer.kind = "committed" => applying'.answer = results'[applying'.id]
    BY <1>4, <1>5
  <2>6. a \in 0..Len(patches)
    BY <1>1, Sorts
  <2> QED
    BY <1>1, <1>2, <2>1, <2>2, <2>3, <2>4, <2>5, <2>6, NumberedServes
<1> SUFFICES ASSUME Heard, Fine(view, Unsettled)
             PROVE  Heard' /\ Fine(view, Unsettled)'
  BY <1>1, <1>2, <1>7, ServeProposalStep DEF HInv
<1>8. Unsettled' = Unsettled
  BY <1>2 DEF Unsettled
<1>9. CASE UNCHANGED <<source, authors, results>>
  <2>1. Fine(view, Unsettled)'
    BY <1>1, <1>2, <1>5, <1>8, <1>9, QuietFine DEF Resting
  <2>2. Heard'
    BY <1>2, <1>9 DEF Heard, Base
  <2> QED
    BY <2>1, <2>2
<1>10. CASE ~UNCHANGED <<source, authors, results>>
  <2>1. /\ results[a].kind = "proposal" /\ Live(a)
        /\ authors' = Append(authors, "proposal") /\ source'.rev = source.rev + 1
        /\ results'[a].kind = "committed"
        /\ \A id \in 1..Len(patches) : id # a => results'[id] = results[id]
    BY <1>4, <1>6, <1>10
  <2>2. a = view.proposalId
    BY <1>2, <2>1 DEF Fine, Applies
  <2>3. Fine(view, Unsettled)'
    <3>1. a \in 0..Len(patches)
      BY <1>1, Sorts
    <3> QED
      BY <1>1, <1>2, <1>5, <1>8, <2>1, <2>2, <3>1, CommitFine
  <2>4. ASSUME NEW c \in Channels, calls[c].answer.kind = "proposal"
        PROVE  calls[c].id \in 1..Len(patches) /\ calls[c].id # a
    <3>1. calls[c].step # "idle" /\ calls[c].id \in 1..Len(patches)
      BY <1>1, <2>4, CallTyped DEF IInv, Nothing
    <3>2. c = "resolve"
      BY <1>1, <1>2, <3>1, UnsettledIs DEF Channels
    <3> QED
      BY <1>2, <2>2, <3>1, <3>2 DEF Fine, Compares
  <2>5. \A id \in 1..Len(patches) : results'[id].kind = "committed" =>
          results[id].kind = "committed" \/ Base(id) = source.rev
    BY <2>1 DEF Live
  <2>6. ASSUME NEW c \in Channels
        PROVE  /\ calls'[c].answer.kind \notin {"refused", "busy"}
               /\ calls'[c].answer.kind = "proposal" => results'[calls'[c].id].kind = "proposal"
               /\ calls'[c].answer.kind = "conflict" =>
                    results'[calls'[c].id].kind # "committed" /\ Base(calls[c].id)' < source'.rev
    <3>1. \A d \in Channels : calls[d].answer.kind = "proposal" =>
            (results[calls[d].id].kind = "proposal" => results'[calls[d].id].kind = "proposal")
      BY <2>1, <2>4
    <3> QED
      BY <1>1, <1>2, <2>1, <2>5, <3>1, HeardStays
  <2> QED
    BY <1>2, <2>3, <2>6 DEF Heard
<1> QED
  BY <1>9, <1>10

(* A step that leaves the server and the patches alone, and what a call or *)
(* an application has been answered, or adds what the server has stored.   *)
LEMMA NumberedQuiet ==
  ASSUME Numbered, UNCHANGED <<source, results, patches>>,
         view'.committed.rev <= source.rev,
         dialog'.on => dialog' = dialog \/ dialog'.current.rev <= source.rev,
         \A c \in Channels :
           \/ calls'[c].answer = calls[c].answer /\ calls'[c].id = calls[c].id
           \/ calls'[c].answer.kind # "committed"
           \/ calls'[c].answer = results[calls'[c].id],
         applying'.answer.kind # "committed" \/
           (applying'.answer = applying.answer /\ applying'.id = applying.id)
  PROVE  Numbered'
<1>1. \A id : Base(id)' = Base(id)
  BY DEF Base
<1>2. dialog'.on => dialog'.current.rev <= source.rev
  BY DEF Numbered
<1>3. \A c \in Channels : calls'[c].answer.kind = "committed" => calls'[c].answer = results[calls'[c].id]
  BY DEF Numbered
<1>4. applying'.answer.kind = "committed" => applying'.answer = results[applying'.id]
  BY DEF Numbered
<1> QED
  BY <1>1, <1>2, <1>3, <1>4 DEF Numbered

LEMMA HeardQuiet ==
  ASSUME IInv, Heard, UNCHANGED <<source, results>>,
         \A c \in Channels : calls'[c].answer.kind = "conflict" => patches' = patches,
         \A c \in Channels :
           \/ calls'[c].answer = calls[c].answer /\ calls'[c].id = calls[c].id
           \/ calls'[c].answer.kind \in {"none", "unknown"}
           \/ calls'[c].answer = results[calls'[c].id] /\ calls'[c].id \in 1..Len(patches)
  PROVE  Heard'
<1>1. \A id \in 1..Len(patches) : results[id].kind \in {"none", "committed", "proposal"}
  BY Sorts
<1> SUFFICES ASSUME NEW c \in Channels
             PROVE  /\ calls'[c].answer.kind \notin {"refused", "busy"}
                    /\ calls'[c].answer.kind = "proposal" => results[calls'[c].id].kind = "proposal"
                    /\ calls'[c].answer.kind = "conflict" =>
                         results[calls'[c].id].kind # "committed" /\ Base(calls[c].id)' < source.rev
  BY DEF Heard
<1>2. CASE calls'[c].answer = calls[c].answer /\ calls'[c].id = calls[c].id
  <2>1. calls'[c].answer.kind = "conflict" => Base(calls[c].id)' = Base(calls[c].id)
    BY <1>2 DEF Base
  <2> QED
    BY <1>2, <2>1 DEF Heard
<1>3. CASE calls'[c].answer.kind \in {"none", "unknown"}
  BY <1>3
<1>4. CASE calls'[c].answer = results[calls'[c].id] /\ calls'[c].id \in 1..Len(patches)
  BY <1>1, <1>4
<1> QED
  BY <1>2, <1>3, <1>4

LEMMA QuietHolds ==
  ASSUME HInv, IInv',
         UNCHANGED <<source, authors, results, patches, dialog, refused>>,
         abandoned => abandoned',
         view'.committed = view.committed, view'.proposalId = view.proposalId,
         \/ view'.state = view.state
         \/ view'.state \in {"Editing", "Saving", "Saved", "Proposed"}
         \/ view'.state = "Outcome unknown" /\ Unsettled # 0,
         Resting(view, Unsettled) /\ dialog.on => ~view'.dirty /\ view'.state = "Saved",
         Unsettled' = Unsettled, applying'.id \in {0, applying.id},
         applying'.answer.kind # "committed" \/
           (applying'.answer = applying.answer /\ applying'.id = applying.id),
         calls'["resolve"].step # "idle" =>
           calls["resolve"].step # "idle" /\ calls'["resolve"].id = calls["resolve"].id,
         dialog.patch # 0 =>
           wire'[dialog.patch] = wire[dialog.patch] \/ calls["resolve"].step # "idle",
         \A c \in Channels :
           \/ calls'[c].answer = calls[c].answer /\ calls'[c].id = calls[c].id
           \/ calls'[c].answer.kind \in {"none", "unknown"}
           \/ calls'[c].answer = results[calls'[c].id] /\ calls'[c].id \in 1..Len(patches)
  PROVE  HInv'
<1>1. IInv /\ Numbered
  BY DEF HInv
<1>2. Numbered'
  <2>1. view'.committed.rev <= source.rev
    BY <1>1 DEF Numbered
  <2>2. \A c \in Channels :
           \/ calls'[c].answer = calls[c].answer /\ calls'[c].id = calls[c].id
           \/ calls'[c].answer.kind # "committed"
           \/ calls'[c].answer = results[calls'[c].id]
    OBVIOUS
  <2> QED
    BY <1>1, <2>1, <2>2, NumberedQuiet
<1> SUFFICES ASSUME Heard, Fine(view, Unsettled)
             PROVE  Heard' /\ Fine(view, Unsettled)'
  BY <1>2 DEF HInv
<1>3. Heard'
  BY <1>1, HeardQuiet
<1>4. Fine(view, Unsettled)'
  BY <1>1, QuietFine
<1> QED
  BY <1>3, <1>4

(* A call goes on: its answer is lost, or is what the receipt says.        *)
LEMMA CallHolds ==
  ASSUME HInv, IInv', NEW c \in Channels, calls[c].step # "idle",
         calls'[c].step # "idle", calls'[c].id = calls[c].id,
         \A d \in Channels : d # c => calls'[d] = calls[d],
         \/ calls'[c].answer = calls[c].answer
         \/ calls'[c].answer.kind \in {"none", "unknown"}
         \/ calls'[c].answer = results[calls[c].id],
         \A id \in Ids : id # calls[c].id => wire'[id] = wire[id],
         UNCHANGED <<repository, patches, view, uncertain, applying, dialog, abandoned, refused>>
  PROVE  HInv'
<1>1. IInv
  BY DEF HInv
<1>2. calls[c].id \in 1..Len(patches) /\ calls[c].id \in Ids
  BY <1>1, Sorts
<1>3. Unsettled' = Unsettled
  BY DEF Unsettled, Channels
<1>4. calls'["resolve"].step # "idle" =>
        calls["resolve"].step # "idle" /\ calls'["resolve"].id = calls["resolve"].id
  BY DEF Channels
<1>5. dialog.patch # 0 => wire'[dialog.patch] = wire[dialog.patch] \/ calls["resolve"].step # "idle"
  <2>1. c = "save" => calls[c].id # dialog.patch
    BY <1>1 DEF IInv, Apart, Own
  <2>2. dialog.patch # 0 => dialog.patch \in Ids
    BY <1>1, Sorts
  <2> QED
    BY <2>1, <2>2 DEF Channels
<1>6. \A d \in Channels :
        \/ calls'[d].answer = calls[d].answer /\ calls'[d].id = calls[d].id
        \/ calls'[d].answer.kind \in {"none", "unknown"}
        \/ calls'[d].answer = results[calls'[d].id] /\ calls'[d].id \in 1..Len(patches)
  BY <1>2
<1>7. UNCHANGED <<source, authors, results>>
  BY DEF repository
<1> QED
  BY <1>1, <1>3, <1>4, <1>5, <1>6, <1>7, QuietHolds DEF Resting

LEMMA LoseHolds ==
  ASSUME HInv, NEW c \in Channels, Lose(c)
  PROVE  HInv'
<1>1. IInv /\ calls \in [Channels -> Calls]
  BY DEF HInv, IInv, Shape
<1>2. calls[c].step # "idle"
  BY DEF Lose
<1>3. /\ calls'[c].step \in {"receipt", "answered"} /\ calls'[c].id = calls[c].id
      /\ calls'[c].answer \in {Nothing, Result("unknown", None)}
      /\ \A d \in Channels : d # c => calls'[d] = calls[d]
  BY <1>1 DEF Lose, Calls
<1>4. calls'[c].answer.kind \in {"none", "unknown"}
  BY <1>3 DEF Nothing, Result
<1>5. UNCHANGED <<repository, wire, patches, view, uncertain, applying, dialog, abandoned, refused>>
  BY DEF Lose, ghosts
<1>6. IInv'
  BY <1>1, LoseStep
<1> QED
  BY <1>2, <1>3, <1>4, <1>5, <1>6, CallHolds

LEMMA UnreadableHolds ==
  ASSUME HInv, NEW c \in Channels, Unreadable(c)
  PROVE  HInv'
<1>1. IInv /\ calls \in [Channels -> Calls]
  BY DEF HInv, IInv, Shape
<1>2. calls[c].step # "idle"
  BY DEF Unreadable
<1>3. /\ calls'[c].step = "answered" /\ calls'[c].id = calls[c].id
      /\ calls'[c].answer = Result("unknown", None)
      /\ \A d \in Channels : d # c => calls'[d] = calls[d]
  BY <1>1 DEF Unreadable, Calls
<1>4. calls'[c].answer.kind = "unknown"
  BY <1>3 DEF Result
<1>5. UNCHANGED <<repository, wire, patches, view, uncertain, applying, dialog, abandoned, refused>>
  BY DEF Unreadable, ghosts
<1>6. IInv'
  BY <1>1, UnreadableStep
<1> QED
  BY <1>2, <1>3, <1>4, <1>5, <1>6, CallHolds

LEMMA LookUpHolds ==
  ASSUME HInv, NEW c \in Channels, LookUp(c)
  PROVE  HInv'
<1> DEFINE x == calls[c].id
<1>1. IInv /\ calls \in [Channels -> Calls] /\ wire \in [Ids -> Nat]
  BY DEF HInv, IInv, Shape
<1>2. calls[c].step # "idle"
  BY DEF LookUp
<1>3. x \in Ids
  BY <1>1, <1>2, Sorts
<1>4. UNCHANGED <<repository, patches, view, uncertain, applying, dialog, abandoned, refused>>
  BY DEF LookUp, ghosts
<1>5. IInv'
  BY <1>1, LookUpStep
<1>6. CASE results[x] = Nothing
  <2>1. wire' = [wire EXCEPT ![x] = @ + 1] /\ calls' = [calls EXCEPT ![c].step = "replayed"]
    BY <1>6 DEF LookUp
  <2>2. \A id \in Ids : id # x => wire'[id] = wire[id]
    BY <1>1, <1>3, <2>1
  <2>3. /\ calls'[c].step = "replayed" /\ calls'[c].id = x /\ calls'[c].answer = calls[c].answer
        /\ \A d \in Channels : d # c => calls'[d] = calls[d]
    BY <1>1, <2>1 DEF Calls
  <2> QED
    BY <1>2, <1>4, <1>5, <2>2, <2>3, CallHolds
<1>7. CASE results[x] # Nothing
  <2>1. wire' = wire /\ calls' = [calls EXCEPT ![c].step = "answered", ![c].answer = results[x]]
    BY <1>7 DEF LookUp
  <2>2. /\ calls'[c].step = "answered" /\ calls'[c].id = x /\ calls'[c].answer = results[x]
        /\ \A d \in Channels : d # c => calls'[d] = calls[d]
    BY <1>1, <2>1 DEF Calls
  <2> QED
    BY <1>2, <1>4, <1>5, <2>1, <2>2, CallHolds
<1> QED
  BY <1>6, <1>7

LEMMA RefuseHolds ==
  ASSUME HInv, NEW c \in Channels, NEW how \in {"refused", "busy"}, Refuse(c, how)
  PROVE  HInv'
<1>1. IInv /\ Numbered /\ calls \in [Channels -> Calls]
  BY DEF HInv, IInv, Shape
<1>2. UNCHANGED <<source, results, patches, view, applying, dialog>> /\ refused'
  BY DEF Refuse, repository
<1>3. calls'[c].answer = Result(how, None) /\ \A d \in Channels : d # c => calls'[d] = calls[d]
  BY <1>1 DEF Refuse, Calls
<1>4. calls'[c].answer.kind # "committed"
  BY <1>3 DEF Result
<1>5. view'.committed.rev <= source.rev
  BY <1>1, <1>2 DEF Numbered
<1>6. Numbered'
  BY <1>1, <1>2, <1>3, <1>4, <1>5, NumberedQuiet
<1> QED
  BY <1>1, <1>2, <1>6, RefuseStep DEF HInv

LEMMA LoseProposalHolds ==
  ASSUME HInv, LoseProposal
  PROVE  HInv'
<1>1. IInv /\ applying \in Applications
  BY DEF HInv, IInv, Shape
<1>2. UNCHANGED <<source, authors, results, wire, patches, view, uncertain, calls, dialog, abandoned, refused>>
  BY DEF LoseProposal, repository, ghosts
<1>3. applying'.id = applying.id /\ applying'.answer = Result("unknown", None)
  BY <1>1 DEF LoseProposal, Applications
<1>4. applying'.answer.kind # "committed"
  BY <1>3 DEF Result
<1>5. IInv' /\ Unsettled' = Unsettled
  BY <1>1, <1>2, LoseProposalStep DEF Unsettled
<1> QED
  BY <1>2, <1>3, <1>4, <1>5, QuietHolds DEF Resting

LEMMA flushWaitsHolds ==
  ASSUME HInv, flushWaits
  PROVE  HInv'
<1>1. IInv /\ applying \in Applications
  BY DEF HInv, IInv, Shape
<1>2. UNCHANGED <<source, authors, results, wire, patches, view, uncertain, calls, dialog, abandoned, refused>>
  BY DEF flushWaits, repository, ghosts
<1>3. applying'.id = applying.id /\ applying'.answer = applying.answer
  BY <1>1 DEF flushWaits, Applications
<1>4. IInv' /\ Unsettled' = Unsettled
  BY <1>1, <1>2, flushWaitsStep DEF Unsettled
<1> QED
  BY <1>2, <1>3, <1>4, QuietHolds DEF Resting

LEMMA ProposalNotAppliedHolds ==
  ASSUME HInv, ProposalNotApplied
  PROVE  HInv'
<1>1. IInv
  BY DEF HInv
<1>2. UNCHANGED <<source, authors, results, wire, patches, view, uncertain, calls, dialog, abandoned, refused>>
      /\ applying' = NotApplying
  BY DEF ProposalNotApplied, repository, ghosts
<1>3. applying'.id = 0 /\ applying'.answer.kind # "committed"
  BY <1>2 DEF NotApplying, Nothing
<1>4. IInv' /\ Unsettled' = Unsettled
  BY <1>1, <1>2, ProposalNotAppliedStep DEF Unsettled
<1> QED
  BY <1>2, <1>3, <1>4, QuietHolds DEF Resting

LEMMA ResolveFailsHolds ==
  ASSUME HInv, ResolveFails
  PROVE  HInv'
<1>1. IInv /\ calls \in [Channels -> Calls]
  BY DEF HInv, IInv, Shape
<1>2. UNCHANGED <<source, authors, results, wire, patches, view, uncertain, applying, dialog, abandoned, refused>>
  BY DEF ResolveFails, repository, ghosts
<1>3. calls'["resolve"] = NoCall /\ calls'["save"] = calls["save"]
  BY <1>1 DEF ResolveFails, Channels
<1>4. calls'["resolve"].answer.kind = "none" /\ calls'["resolve"].step = "idle"
  BY <1>3 DEF NoCall, Nothing
<1>5. IInv' /\ Unsettled' = Unsettled
  BY <1>1, <1>2, <1>3, ResolveFailsStep DEF Unsettled
<1> QED
  BY <1>2, <1>3, <1>4, <1>5, QuietHolds DEF Resting, Channels

LEMMA NoneUnknown ==
  ASSUME NEW u \in Unknowns
  PROVE  u # None
<1>1. u \in [id : Nat, newer : BOOLEAN]
  BY DraftBounds DEF Unknowns, Ids
<1> QED
  BY <1>1, DraftBounds

(* An edit keeps the save that is unsettled.                               *)
LEMMA editHolds ==
  ASSUME HInv, NEW f \in Fields, NEW y \in Values, edit(f, y)
  PROVE  HInv'
<1>1. IInv /\ calls \in [Channels -> Calls] /\ applying \in Applications /\ view \in Views
      /\ (uncertain = None \/ uncertain \in Unknowns)
  BY DEF HInv, IInv, Shape
<1>2. UNCHANGED <<source, authors, results, wire, patches, dialog, abandoned, refused>>
  BY DEF edit, repository
<1>3. view'.committed = view.committed /\ view'.proposalId = view.proposalId /\ view'.state = "Editing"
  BY <1>1 DEF edit, Views
<1>4. applying'.id = applying.id /\ applying'.answer = applying.answer
  BY <1>1 DEF edit, Applications
<1>5. \A c \in Channels : calls'[c].step = calls[c].step /\ calls'[c].id = calls[c].id
                           /\ calls'[c].answer = calls[c].answer
  <2>1. calls' \in {calls, [calls EXCEPT !["save"].newer = TRUE]}
    BY DEF edit, Armed
  <2>2. ASSUME calls' = [calls EXCEPT !["save"].newer = TRUE]
        PROVE  \A c \in Channels : calls'[c].step = calls[c].step /\ calls'[c].id = calls[c].id
                           /\ calls'[c].answer = calls[c].answer
    BY <1>1, <2>2 DEF Calls, Channels
  <2> QED
    BY <2>1, <2>2
<1>6. uncertain' = None <=> uncertain = None
  <2>1. uncertain # None => uncertain' \in Unknowns
    BY <1>1 DEF edit, Older, Unknowns
  <2> QED
    BY <2>1, NoneUnknown DEF edit, Older
<1>7. uncertain # None => uncertain'.id = uncertain.id
  BY <1>1 DEF edit, Older, Unknowns
<1>8. Unsettled' = Unsettled
  BY <1>5, <1>6, <1>7 DEF Unsettled, Channels
<1>9. IInv' /\ ~dialog.on
  BY <1>1, editStep DEF edit
<1> QED
  BY <1>2, <1>3, <1>4, <1>5, <1>8, <1>9, QuietHolds DEF Channels

(* While nothing is given up a clean draft has no unsettled save.          *)
LEMMA CleanIsSettled ==
  ASSUME IInv, ~abandoned, ~view.dirty
  PROVE  Unsettled = 0 /\ uncertain = None /\ calls["save"].step = "idle"
<1>1. calls["save"].step = "idle" /\ uncertain = None
  BY DEF IInv, Saving, Sent
<1> QED
  BY <1>1 DEF Unsettled

(* The dialog is closed, and the draft has nothing that is unsettled.      *)
LEMMA SettledFine ==
  ASSUME Lineage(view), UNCHANGED <<source, authors, results, patches>>,
         Unsettled' = 0, ~dialog'.on, dialog'.patch = 0, calls'["resolve"].step = "idle",
         view'.proposalId # 0 => Base(view'.proposalId) = view'.committed.rev,
         \A id \in 1..Len(patches) : Live(id) => id = view'.proposalId /\ results[id].kind = "proposal",
         view'.state \notin Failing,
         \A r \in view'.committed.rev + 1 .. source.rev : authors[r] # "save",
         applying'.id # 0 =>
           /\ results[applying'.id].kind = "proposal"
           /\ applying'.id # view'.proposalId => ~Live(applying'.id)
  PROVE  Fine(view, Unsettled)'
<1>1. \A id : Live(id)' <=> Live(id)
  BY DEF Live, Base, Superseded
<1>2. OnTop(view, Unsettled)'
  BY DEF OnTop
<1>3. Lineage(view)'
  BY DEF Lineage, Base
<1>4. InHand(view, Unsettled)'
  BY <1>1 DEF InHand
<1>5. Says(view, Unsettled)'
  BY DEF Says, Failing
<1>6. OwnRevisions(view, Unsettled)'
  BY DEF OwnRevisions
<1>7. Applies(view, Unsettled)'
  <2>1. applying'.id # 0 /\ applying'.id # view'.proposalId => ~Live(applying.id)'
    BY DEF Live, Base, Superseded
  <2> QED
    BY <2>1 DEF Applies
<1>8. Compares(view, Unsettled)'
  BY DEF Compares
<1> QED
  BY <1>2, <1>3, <1>4, <1>5, <1>6, <1>7, <1>8 DEF Fine

(* A closed dialog has no patch and resolves nothing.                      *)
LEMMA Closed ==
  ASSUME IInv, Compares(view, Unsettled), ~dialog.on
  PROVE  dialog.patch = 0 /\ calls["resolve"].step = "idle"
<1>1. dialog.patch = 0
  BY DEF Compares
<1>2. calls["resolve"].step # "idle" => calls["resolve"].id # 0
  BY Sorts DEF Channels
<1> QED
  BY <1>1, <1>2 DEF Compares

LEMMA discardHolds ==
  ASSUME HInv, discard
  PROVE  HInv'
<1>1. IInv /\ Numbered /\ applying \in Applications /\ view \in Views
  BY DEF HInv, IInv, Shape
<1>2. UNCHANGED <<source, authors, results, wire, patches, calls, dialog, refused>>
      /\ abandoned' = (abandoned \/ GivesUp)
  BY DEF discard, repository
<1>3. /\ view'.committed = view.committed /\ view'.proposalId = 0 /\ view'.state = "Saved"
      /\ ~view'.dirty /\ uncertain' = None
  BY DEF discard, replace, Fresh
<1>4. applying'.id = applying.id /\ applying'.answer = applying.answer
  BY <1>1 DEF discard, Applications
<1>5. IInv'
  BY <1>1, discardStep
<1>6. CASE abandoned'
  <2>1. view'.committed.rev <= source.rev
    BY <1>1, <1>3 DEF Numbered
  <2>2. Numbered'
    BY <1>1, <1>2, <1>4, <2>1, NumberedQuiet
  <2> QED
    BY <1>5, <1>6, <2>2 DEF HInv
<1>7. CASE ~abandoned'
  <2>1. ~abandoned /\ Unsettled = 0 /\ view.proposalId = 0
    BY <1>1, <1>2, <1>7, UnsettledIs
  <2>2. calls["save"].step = "idle"
    BY <1>1, <2>1, UnsettledIs
  <2>3. Unsettled' = 0
    BY <1>2, <1>3, <2>2 DEF Unsettled
  <2> QED
    BY <1>2, <1>3, <1>4, <1>5, <2>1, <2>3, QuietHolds
<1> QED
  BY <1>6, <1>7

LEMMA refreshHolds ==
  ASSUME HInv, refresh
  PROVE  HInv'
<1>1. IInv /\ Numbered /\ applying \in Applications /\ source.rev \in Nat
  BY Sorts DEF HInv, IInv, Shape
<1>2. UNCHANGED <<source, authors, results, wire, patches, calls, dialog, abandoned, refused>>
      /\ ~dialog.on /\ ~view.dirty /\ view.proposalId = 0
  BY DEF refresh, repository, canRefreshSource
<1>3. /\ view'.committed = source /\ view'.proposalId = 0 /\ view'.state = "Saved"
      /\ uncertain' = None
  BY DEF refresh, replace, Fresh
<1>4. applying'.id = applying.id /\ applying'.answer = applying.answer
  BY <1>1 DEF refresh, Applications
<1>5. IInv'
  BY <1>1, refreshStep
<1>6. Numbered'
  <2>1. view'.committed.rev <= source.rev
    BY <1>1, <1>3
  <2> QED
    BY <1>1, <1>2, <1>4, <2>1, NumberedQuiet
<1> SUFFICES ASSUME ~abandoned, Heard, Fine(view, Unsettled)
             PROVE  Heard' /\ Fine(view, Unsettled)'
  BY <1>2, <1>5, <1>6 DEF HInv
<1>7. Unsettled = 0 /\ calls["save"].step = "idle" /\ dialog.patch = 0 /\ calls["resolve"].step = "idle"
  BY <1>1, <1>2, CleanIsSettled, Closed DEF Fine
<1>8. Unsettled' = 0
  BY <1>2, <1>3, <1>7 DEF Unsettled
<1>9. \A id \in 1..Len(patches) : ~Live(id)
  BY <1>2, <1>7 DEF Fine, InHand
<1>10. \A r \in view'.committed.rev + 1 .. source.rev : authors[r] # "save"
  BY <1>1, <1>3
<1>11. applying'.id # 0 => results[applying'.id].kind = "proposal" /\ ~Live(applying'.id)
  BY <1>2, <1>4 DEF Fine, Applies
<1>12. Heard'
  BY <1>1, <1>2, HeardQuiet
<1>13. view'.state \notin Failing
  BY <1>3 DEF Failing
<1> QED
  BY <1>2, <1>3, <1>7, <1>8, <1>9, <1>10, <1>11, <1>12, <1>13, SettledFine DEF Fine

LEMMA loadProposalHolds ==
  ASSUME HInv, NEW p \in Ids, loadProposal(p)
  PROVE  HInv'
<1>1. IInv /\ Numbered /\ applying \in Applications /\ view \in Views
  BY DEF HInv, IInv, Shape
<1>2. UNCHANGED <<source, authors, results, wire, patches, uncertain, calls, dialog, refused>>
      /\ ~dialog.on /\ ~view.dirty /\ results[p].kind = "proposal"
      /\ Base(p) = view.committed.rev /\ abandoned' = (abandoned \/ view.proposalId # 0)
  BY DEF loadProposal, repository, Base
<1>3. view'.committed = view.committed /\ view'.proposalId = p /\ view'.state = "Proposed"
  BY <1>1 DEF loadProposal, Views
<1>4. applying'.id = applying.id /\ applying'.answer = applying.answer
  BY <1>1 DEF loadProposal, Applications
<1>5. IInv'
  BY <1>1, loadProposalStep
<1>6. Numbered'
  <2>1. view'.committed.rev <= source.rev
    BY <1>1, <1>3 DEF Numbered
  <2> QED
    BY <1>1, <1>2, <1>4, <2>1, NumberedQuiet
<1> SUFFICES ASSUME ~abandoned, view.proposalId = 0, Heard, Fine(view, Unsettled)
             PROVE  Heard' /\ Fine(view, Unsettled)'
  BY <1>2, <1>5, <1>6 DEF HInv
<1>7. Unsettled = 0 /\ calls["save"].step = "idle" /\ uncertain = None
      /\ dialog.patch = 0 /\ calls["resolve"].step = "idle"
  BY <1>1, <1>2, CleanIsSettled, Closed DEF Fine
<1>8. Unsettled' = 0
  BY <1>2, <1>7 DEF Unsettled
<1>9. \A id \in 1..Len(patches) : ~Live(id)
  BY <1>7 DEF Fine, InHand
<1>10. \A r \in view'.committed.rev + 1 .. source.rev : authors[r] # "save"
  BY <1>3, <1>7 DEF Fine, OwnRevisions
<1>11. applying'.id # 0 => results[applying'.id].kind = "proposal" /\ ~Live(applying'.id)
  BY <1>4 DEF Fine, Applies
<1>12. Heard'
  BY <1>1, <1>2, HeardQuiet
<1>13. view'.state \notin Failing
  BY <1>3 DEF Failing
<1> QED
  BY <1>2, <1>3, <1>7, <1>8, <1>9, <1>10, <1>11, <1>12, <1>13, SettledFine DEF Fine

LEMMA applyProposalHolds ==
  ASSUME HInv, NEW p \in Ids, applyProposal(p)
  PROVE  HInv'
<1>1. IInv /\ Numbered /\ applying \in Applications
  BY DEF HInv, IInv, Shape
<1>2. UNCHANGED <<source, authors, results, wire, patches, view, uncertain, calls, dialog, abandoned, refused>>
      /\ ~dialog.on /\ ~view.dirty /\ results[p].kind = "proposal" /\ view.proposalId \in {0, p}
      /\ view.state \notin Failing
  BY DEF applyProposal, repository, Failing
<1>3. applying'.id = p /\ applying'.answer.kind # "committed"
  BY DEF applyProposal, NotApplying, Nothing
<1>4. p \in 1..Len(patches)
  BY <1>1, <1>2 DEF IInv, Named, Ids
<1>5. IInv'
  BY <1>1, applyProposalStep
<1>6. Numbered'
  <2>1. view'.committed.rev <= source.rev
    BY <1>1, <1>2 DEF Numbered
  <2> QED
    BY <1>1, <1>2, <1>3, <2>1, NumberedQuiet
<1> SUFFICES ASSUME ~abandoned, Heard, Fine(view, Unsettled)
             PROVE  Heard' /\ Fine(view, Unsettled)'
  BY <1>2, <1>5, <1>6 DEF HInv
<1>7. Unsettled = 0 /\ dialog.patch = 0 /\ calls["resolve"].step = "idle"
  BY <1>1, <1>2, CleanIsSettled, Closed DEF Fine
<1>8. Unsettled' = 0
  BY <1>2, <1>7 DEF Unsettled
<1>9. \A id \in 1..Len(patches) : Live(id) => id = view.proposalId /\ results[id].kind = "proposal"
  BY <1>7 DEF Fine, InHand
<1>10. \A r \in view.committed.rev + 1 .. source.rev : authors[r] # "save"
  BY <1>7 DEF Fine, OwnRevisions
<1>11. view.proposalId # p => ~Live(p)
  BY <1>4, <1>9
<1>12. Heard'
  BY <1>1, <1>2, HeardQuiet
<1>13. Lineage(view) /\ (view.proposalId # 0 => Base(view.proposalId) = view.committed.rev)
  BY DEF Fine, Lineage
<1> QED
  BY <1>2, <1>3, <1>7, <1>8, <1>9, <1>10, <1>11, <1>12, <1>13, SettledFine

(* The dialog gives way to what it has committed or proposed.              *)
LEMMA ResolveEndsHolds ==
  ASSUME HInv, ResolveEnds
  PROVE  HInv'
<1> DEFINE d == calls["resolve"].id
<1> DEFINE r == Told("resolve")
<1>1. IInv /\ Numbered /\ applying \in Applications /\ calls \in [Channels -> Calls]
      /\ Shape /\ Named /\ Answering
  BY DEF HInv, IInv, Shape
<1>2. UNCHANGED <<source, authors, results, wire, patches, refused>> /\ dialog' = NoDialog
      /\ abandoned' = (abandoned \/ GivesUp) /\ calls' = [calls EXCEPT !["resolve"] = NoCall]
  BY DEF ResolveEnds, repository
<1>3. applying'.id = applying.id /\ applying'.answer = applying.answer
  BY <1>1 DEF ResolveEnds, Applications
<1>4. /\ calls'["resolve"] = NoCall /\ calls'["save"] = calls["save"]
      /\ NoCall.step = "idle" /\ NoCall.answer.kind = "none"
      /\ ~NoDialog.on /\ NoDialog.patch = 0
  BY <1>1, <1>2 DEF NoCall, NoDialog, Nothing, Channels
<1>5. calls["resolve"].step # "idle" /\ d \in 1..Len(patches)
  <2>1. calls["resolve"].answer # Nothing /\ "resolve" \in Channels
    BY DEF ResolveEnds, Answered, Channels
  <2> QED
    BY <1>1, <2>1, CallTyped
<1>6. r.kind \in {"committed", "proposal"} /\ r = calls["resolve"].answer
  <2>1. r.kind \in {"committed", "proposal"} /\ "resolve" \in Channels
    BY DEF ResolveEnds, Channels
  <2> QED
    BY <1>1, <2>1, ToldIs
<1>7. /\ r.kind = "committed" /\ view' = Fresh(r.snapshot)
      \/ /\ r.kind = "proposal"
         /\ view' = [Fresh(patches[d].base) EXCEPT !.deployment = patches[d].sent, !.proposalId = d,
                                                   !.state = "Proposed"]
  BY DEF ResolveEnds, replace
<1>8. uncertain' = None
  BY DEF ResolveEnds, replace
<1>9. /\ view'.state \notin Failing
      /\ \/ /\ r.kind = "committed" /\ r = results[d]
            /\ view'.committed.rev = Base(d) + 1 /\ Base(d) + 1 <= source.rev /\ view'.proposalId = 0
         \/ r.kind = "proposal" /\ view'.committed.rev = Base(d) /\ Base(d) <= source.rev /\ view'.proposalId = d
  <2>1. CASE r.kind = "committed" /\ view' = Fresh(r.snapshot)
    <3>1. view'.committed = r.snapshot /\ view'.proposalId = 0 /\ view'.state = "Saved"
      BY <2>1 DEF Fresh
    <3>2. r = results[d]
      BY <1>1, <1>6, <2>1 DEF Numbered, Channels
    <3> QED
      BY <1>1, <1>5, <2>1, <3>1, <3>2 DEF Numbered, Failing
  <2>2. CASE r.kind = "proposal" /\ view' = [Fresh(patches[d].base) EXCEPT !.deployment = patches[d].sent,
                                               !.proposalId = d, !.state = "Proposed"]
    BY <1>1, <1>5, <2>2 DEF Numbered, Fresh, Failing, Base
  <2> QED
    BY <1>7, <2>1, <2>2
<1> HIDE DEF r
<1>10. IInv'
  BY <1>1, ResolveEndsStep
<1>11. Numbered'
  <2>1. \A c \in Channels : calls'[c] = calls[c] \/ calls'[c].answer.kind = "none"
    BY <1>4 DEF Channels
  <2> QED
    BY <1>1, <1>2, <1>3, <1>4, <1>9, <2>1, NumberedQuiet
<1> SUFFICES ASSUME ~abandoned, ~GivesUp, Heard, Fine(view, Unsettled)
             PROVE  Heard' /\ Fine(view, Unsettled)'
  BY <1>2, <1>10, <1>11 DEF HInv
<1>12. Unsettled = 0 /\ view.proposalId = 0 /\ calls["save"].step = "idle"
  BY <1>1, UnsettledIs
<1>13. Unsettled' = 0
  BY <1>4, <1>8, <1>12 DEF Unsettled
<1>14. dialog.patch = d /\ (results[d].kind # "none" => view.committed.rev <= Base(d))
  BY <1>5 DEF Fine, Compares
<1>15. results[d].kind = r.kind
  BY <1>6, <1>9 DEF Heard, Channels
<1>16. \A id \in 1..Len(patches) : Live(id) => id = view'.proposalId /\ results[id].kind = "proposal"
  <2>1. \A id \in 1..Len(patches) : Live(id) => id = d
    BY <1>12, <1>14 DEF Fine, InHand
  <2>2. Live(d) => results[d].kind # "committed"
    BY DEF Live
  <2> QED
    BY <1>9, <1>15, <2>1, <2>2
<1>17. \A x \in view'.committed.rev + 1 .. source.rev : authors[x] # "save"
  <2> SUFFICES ASSUME NEW x \in view'.committed.rev + 1 .. source.rev, authors[x] = "save"
               PROVE  FALSE
    OBVIOUS
  <2>1. source.rev \in Nat /\ view.committed.rev \in Nat /\ Base(d) \in Nat
    BY <1>1, <1>5, Sorts
  <2>2. view.committed.rev <= Base(d)
    BY <1>6, <1>14, <1>15
  <2>3. x \in view.committed.rev + 1 .. source.rev
    BY <1>9, <2>1, <2>2
  <2>4. results[d].kind = "committed" /\ x = Base(d) + 1
    BY <1>12, <1>14, <2>3 DEF Fine, OwnRevisions
  <2> QED
    BY <1>9, <1>15, <2>1, <2>4
<1>18. applying'.id # 0 => results[applying'.id].kind = "proposal" /\ ~Live(applying'.id)
  BY <1>3, <1>12 DEF Fine, Applies
<1>19. Heard'
  <2>1. \A c \in Channels :
          \/ calls'[c].answer = calls[c].answer /\ calls'[c].id = calls[c].id
          \/ calls'[c].answer.kind = "none"
    BY <1>4 DEF Channels
  <2> QED
    BY <1>1, <1>2, <2>1, HeardQuiet
<1>20. view'.proposalId # 0 => Base(view'.proposalId) = view'.committed.rev
  BY <1>9
<1> QED
  BY <1>2, <1>4, <1>9, <1>13, <1>16, <1>17, <1>18, <1>19, <1>20, SettledFine DEF Fine

(* The draft adopts what it has applied, or is in conflict with it.        *)
LEMMA ProposalAppliedHolds ==
  ASSUME HInv, ProposalApplied
  PROVE  HInv'
<1> DEFINE a == applying.id
<1> DEFINE d == dialog.patch
<1> DEFINE snapshot == applying.answer.snapshot
<1>1. IInv /\ Numbered /\ view \in Views
  BY DEF HInv, IInv, Shape
<1>2. UNCHANGED <<source, authors, results, wire, patches, calls, dialog, abandoned, refused>>
      /\ applying' = NotApplying
  BY DEF ProposalApplied, repository, ghosts
<1>3. applying'.id = 0 /\ applying'.answer.kind # "committed"
  BY <1>2 DEF NotApplying, Nothing
<1>4. a \in 1..Len(patches) /\ results[a].kind = "committed" /\ snapshot.rev = Base(a) + 1
      /\ Base(a) + 1 <= source.rev
  <2>1. a # 0
    <3>1. applying.answer.kind = "committed"
      BY DEF ProposalApplied
    <3>2. applying.id = 0 => applying.answer = Nothing
      BY <1>1 DEF IInv, Named
    <3> QED
      BY <3>1, <3>2 DEF Nothing
  <2>2. a \in 1..Len(patches)
    BY <1>1, <2>1, Sorts
  <2> QED
    BY <1>1, <2>2 DEF ProposalApplied, Numbered
<1>5. \/ view' = Fresh(snapshot) /\ uncertain' = None
      \/ view' = [view EXCEPT !.state = "Changes conflict"] /\ uncertain' = uncertain
  BY DEF ProposalApplied, replace
<1>6. \/ /\ view'.committed = snapshot /\ view'.proposalId = 0 /\ view'.state = "Saved" /\ ~view'.dirty
         /\ uncertain' = None
      \/ /\ view'.committed = view.committed /\ view'.proposalId = view.proposalId
         /\ view'.state = "Changes conflict" /\ uncertain' = uncertain
  <2>1. CASE view' = Fresh(snapshot) /\ uncertain' = None
    BY <2>1 DEF Fresh
  <2>2. CASE view' = [view EXCEPT !.state = "Changes conflict"] /\ uncertain' = uncertain
    BY <1>1, <2>2 DEF Views
  <2> QED
    BY <1>5, <2>1, <2>2
<1>7. IInv'
  BY <1>1, ProposalAppliedStep
<1>8. Numbered'
  <2>1. view'.committed.rev <= source.rev
    BY <1>1, <1>4, <1>6 DEF Numbered
  <2> QED
    BY <1>1, <1>2, <1>3, <2>1, NumberedQuiet
<1> SUFFICES ASSUME Heard, Fine(view, Unsettled)
             PROVE  Heard' /\ Fine(view, Unsettled)'
  BY <1>2, <1>7, <1>8 DEF HInv
<1>9. /\ Unsettled = 0 /\ a = view.proposalId /\ authors[Base(a) + 1] = "proposal"
      /\ Base(a) = view.committed.rev
  <2>1. Unsettled = 0 /\ a = view.proposalId /\ authors[Base(a) + 1] = "proposal"
    BY <1>4 DEF Fine, Applies
  <2> QED
    BY <1>4, <2>1 DEF Fine, Lineage
<1>10. Unsettled' = 0
  BY <1>1, <1>2, <1>6, <1>9, UnsettledIs DEF Unsettled
<1>11. Heard'
  BY <1>1, <1>2, HeardQuiet
<1>12. /\ source.rev \in Nat /\ Base(a) \in Nat
       /\ d # 0 => d \in 1..Len(patches) /\ Base(d) \in Nat
  <2>1. d # 0 => d \in 1..Len(patches)
    BY <1>1, Sorts
  <2> QED
    BY <1>1, <1>4, <2>1, Sorts
<1>13. d # 0 => Foreign(view.committed.rev, Base(d)) \/ Harmless(d)
  BY <1>4 DEF Fine, Compares, Resting
<1>14. \A id : Base(id)' = Base(id) /\ (Live(id)' <=> Live(id))
  BY <1>2 DEF Base, Live, Superseded
<1>15. OnTop(view, Unsettled)' /\ Applies(view, Unsettled)'
  BY <1>3, <1>10 DEF OnTop, Applies
<1>16. CASE view'.committed = snapshot /\ view'.proposalId = 0 /\ view'.state = "Saved" /\ ~view'.dirty
  <2>1. Lineage(view)'
    BY <1>2, <1>14, <1>16 DEF Fine, Lineage
  <2>2. InHand(view, Unsettled)'
    <3>1. \A id \in 1..Len(patches) : Live(id) => id = d
      BY <1>4, <1>9 DEF Fine, InHand
    <3> QED
      BY <1>2, <1>14, <3>1 DEF InHand
  <2>3. Says(view, Unsettled)'
    BY <1>16 DEF Says
  <2>4. OwnRevisions(view, Unsettled)'
    <3>1. \A r \in snapshot.rev + 1 .. source.rev : r \in view.committed.rev + 1 .. source.rev
      BY <1>4, <1>9, <1>12
    <3> QED
      BY <1>2, <1>9, <1>14, <1>16, <3>1 DEF Fine, OwnRevisions
  <2>5. Resting(view, Unsettled)'
    BY <1>3, <1>10, <1>16 DEF Resting
  <2>6. d # 0 /\ results[d].kind # "none" => snapshot.rev <= Base(d)
    <3> SUFFICES ASSUME d # 0, results[d].kind # "none" PROVE snapshot.rev <= Base(d)
      OBVIOUS
    <3>1. Foreign(view.committed.rev, Base(d))
      BY <1>13 DEF Harmless
    <3> QED
      BY <1>4, <1>9, <1>12, <3>1 DEF Foreign
  <2>7. Compares(view, Unsettled)'
    BY <1>2, <1>14, <1>16, <2>5, <2>6 DEF Fine, Compares
  <2> QED
    BY <1>11, <1>15, <2>1, <2>2, <2>3, <2>4, <2>7 DEF Fine
<1>17. CASE /\ view'.committed = view.committed /\ view'.proposalId = view.proposalId
            /\ view'.state = "Changes conflict" /\ uncertain' = uncertain
  <2>1. Lineage(view)'
    BY <1>2, <1>14, <1>17 DEF Fine, Lineage
  <2>2. InHand(view, Unsettled)'
    BY <1>2, <1>9, <1>10, <1>14, <1>17 DEF Fine, InHand
  <2>3. Foreign(view.committed.rev, source.rev)
    BY <1>4, <1>9, <1>12 DEF Foreign
  <2>4. Foreign(view.committed.rev, source.rev)'
    BY <1>2, <1>17, <2>3 DEF Foreign
  <2>5. Says(view, Unsettled)'
    BY <1>17, <2>4 DEF Says
  <2>6. OwnRevisions(view, Unsettled)'
    BY <1>2, <1>9, <1>10, <1>14, <1>17 DEF Fine, OwnRevisions
  <2>7. d # 0 => Foreign(view.committed.rev, Base(d))' \/ Harmless(d)'
    BY <1>2, <1>13, <1>14, <1>17 DEF Foreign, Harmless
  <2>8. Compares(view, Unsettled)'
    BY <1>2, <1>14, <1>17, <2>4, <2>7 DEF Fine, Compares
  <2> QED
    BY <1>11, <1>15, <2>1, <2>2, <2>5, <2>6, <2>8 DEF Fine
<1> QED
  BY <1>6, <1>16, <1>17

(* A patch more is unsent, and changes nothing about those there were.     *)
LEMMA Appended ==
  ASSUME IInv, NEW p \in Patches, patches' = Append(patches, p), Len(patches) < MaxPatches,
         UNCHANGED <<source, results>>
  PROVE  /\ Len(patches') = Len(patches) + 1 /\ Len(patches) + 1 \in Ids
         /\ patches'[Len(patches) + 1] = p
         /\ \A id \in 1..Len(patches') : id \in 1..Len(patches) \/ id = Len(patches) + 1
         /\ \A id \in 1..Len(patches) :
              /\ id \in 1..Len(patches') /\ patches'[id] = patches[id]
              /\ patches'[id].base.rev = Base(id) /\ (Live(id)' <=> Live(id))
         /\ results[Len(patches) + 1].kind = "none" /\ wire[Len(patches) + 1] = 0
<1>1. Shape /\ Named /\ Answering
  BY DEF IInv
<1>2. /\ Len(patches') = Len(patches) + 1 /\ Len(patches) \in Nat
      /\ \A i \in 1..Len(patches) : patches'[i] = patches[i]
      /\ patches'[Len(patches) + 1] = p
  BY <1>1, OneMore
<1>3. Len(patches) + 1 \in Ids
  BY <1>2, DraftBounds DEF Ids
<1>4. results[Len(patches) + 1].kind = "none" /\ wire[Len(patches) + 1] = 0
  <2>1. ~(Len(patches) + 1 <= Len(patches))
    BY <1>2
  <2>2. wire[Len(patches) + 1] \in Nat
    BY <1>1, <1>3 DEF Shape
  <2> QED
    BY <1>1, <1>3, <2>1, <2>2 DEF Named
<1>5. \A id : Superseded(id)' <=> Superseded(id)
  BY <1>2, <1>4 DEF Superseded
<1>6. \A id \in 1..Len(patches) : patches'[id].base.rev = Base(id) /\ (Live(id)' <=> Live(id))
  BY <1>2, <1>5 DEF Live, Base
<1> QED
  BY <1>2, <1>3, <1>4, <1>6

LEMMA AppendedHolds ==
  ASSUME IInv, Numbered, NEW p \in Patches, patches' = Append(patches, p), Len(patches) < MaxPatches,
         p.base.rev <= source.rev, UNCHANGED <<source, results>>,
         view'.committed.rev <= source.rev,
         dialog'.on => dialog.on /\ dialog'.current = dialog.current,
         applying'.answer = applying.answer, applying'.id = applying.id,
         \A c \in Channels :
           calls'[c].answer.kind = "none" \/ (calls'[c].answer = calls[c].answer /\ calls'[c].id = calls[c].id)
  PROVE  Numbered' /\ (Heard => Heard')
<1>1. /\ Len(patches') = Len(patches) + 1
      /\ patches'[Len(patches) + 1] = p
      /\ \A id \in 1..Len(patches') : id \in 1..Len(patches) \/ id = Len(patches) + 1
      /\ \A id \in 1..Len(patches) : patches'[id].base.rev = Base(id)
      /\ results[Len(patches) + 1].kind = "none"
  BY Appended
<1>2. \A id \in 1..Len(patches') :
        /\ patches'[id].base.rev <= source.rev
        /\ results[id].kind = "committed" =>
             results[id].snapshot.rev = patches'[id].base.rev + 1 /\ patches'[id].base.rev + 1 <= source.rev
  BY <1>1 DEF Numbered
<1>3. \A c \in Channels : calls'[c].answer.kind = "committed" => calls'[c].answer = results[calls'[c].id]
  BY DEF Numbered
<1>4. Numbered'
  BY <1>2, <1>3 DEF Numbered, Base
<1>5. ASSUME Heard PROVE Heard'
  <2> SUFFICES ASSUME NEW c \in Channels, calls'[c].answer.kind # "none"
               PROVE  /\ calls'[c].answer.kind \notin {"refused", "busy"}
                      /\ calls'[c].answer.kind = "proposal" => results[calls'[c].id].kind = "proposal"
                      /\ calls'[c].answer.kind = "conflict" =>
                           results[calls'[c].id].kind # "committed" /\ patches'[calls'[c].id].base.rev < source.rev
    BY DEF Heard, Base
  <2>1. calls'[c].answer = calls[c].answer /\ calls'[c].id = calls[c].id
    OBVIOUS
  <2>2. calls[c].id \in 1..Len(patches)
    BY <2>1, CallTyped DEF IInv, Nothing
  <2> QED
    BY <1>1, <1>5, <2>1, <2>2 DEF Heard
<1> QED
  BY <1>4, <1>5

(* The dialog opens because of somebody else, or of what is unsettled.     *)
LEMMA CompareHolds ==
  ASSUME HInv, Compare
  PROVE  HInv'
<1>1. IInv /\ Numbered
  BY DEF HInv
<1>2. UNCHANGED <<source, authors, results, wire, patches, view, uncertain, calls, applying, abandoned, refused>>
      /\ dialog' = [NoDialog EXCEPT !.on = TRUE, !.current = source] /\ ~dialog.on
  BY DEF Compare, repository, ghosts
<1>3. dialog'.current = source /\ dialog'.patch = 0
  BY <1>2 DEF NoDialog
<1>4. source.rev \in Nat /\ view.committed.rev \in Nat /\ view.committed.rev <= source.rev
  BY <1>1, Sorts DEF Numbered
<1>5. Numbered'
  <2>1. dialog'.current.rev <= source.rev
    BY <1>3, <1>4
  <2> QED
    BY <1>1, <1>2, <1>4, <2>1, NumberedQuiet
<1> SUFFICES ASSUME Heard, Fine(view, Unsettled)
             PROVE  Heard' /\ Fine(view, Unsettled)'
  BY <1>1, <1>2, <1>5, CompareStep DEF HInv
<1>6. dialog.patch = 0 /\ calls["resolve"].step = "idle"
  BY <1>1, <1>2, Closed DEF Fine
<1>7. Unsettled' = Unsettled /\ Heard'
  BY <1>2 DEF Unsettled, Heard, Base
<1>8. Foreign(view.committed.rev, source.rev) \/ Unsettled # 0 \/ view.proposalId # 0
  <2> SUFFICES ASSUME Unsettled = 0, view.proposalId = 0
               PROVE  Foreign(view.committed.rev, source.rev)
    OBVIOUS
  <2>1. CASE view.state \in Failing
    BY <2>1 DEF Fine, Says, Failing
  <2>2. CASE Noticed
    <3>1. view.committed.rev + 1 \in view.committed.rev + 1 .. source.rev
      BY <1>4, <2>2 DEF Noticed
    <3>2. authors[view.committed.rev + 1] # "save"
      BY <1>6, <3>1 DEF Fine, OwnRevisions
    <3> QED
      BY <3>1, <3>2 DEF Foreign
  <2> QED
    BY <2>1, <2>2 DEF Compare
<1>9. \A id : Base(id)' = Base(id) /\ (Live(id)' <=> Live(id))
  BY <1>2 DEF Base, Live, Superseded
<1>10. \A from, to : Foreign(from, to)' <=> Foreign(from, to)
  BY <1>2 DEF Foreign
<1>11. Compares(view, Unsettled)'
  BY <1>2, <1>3, <1>6, <1>7, <1>8, <1>10 DEF Compares
<1> QED
  BY <1>2, <1>3, <1>6, <1>7, <1>9, <1>10, <1>11 DEF Fine, OnTop, Lineage, InHand, Says, OwnRevisions, Applies

LEMMA CloseDialogHolds ==
  ASSUME HInv, CloseDialog
  PROVE  HInv'
<1>1. IInv /\ Numbered
  BY DEF HInv
<1>2. UNCHANGED <<source, authors, results, wire, patches, view, uncertain, calls, applying, refused>>
      /\ dialog' = NoDialog /\ abandoned' = (abandoned \/ dialog.patch # 0)
  BY DEF CloseDialog, repository
<1>3. ~dialog'.on /\ dialog'.patch = 0
  BY <1>2 DEF NoDialog
<1>4. Numbered'
  <2>1. view'.committed.rev <= source.rev
    BY <1>1, <1>2 DEF Numbered
  <2> QED
    BY <1>1, <1>2, <1>3, <2>1, NumberedQuiet
<1> SUFFICES ASSUME dialog.patch = 0, Heard, Fine(view, Unsettled)
             PROVE  Heard' /\ Fine(view, Unsettled)'
  BY <1>1, <1>2, <1>4, CloseDialogStep DEF HInv
<1>5. Unsettled' = Unsettled /\ Heard'
  BY <1>2 DEF Unsettled, Heard, Base
<1>6. \A id : Base(id)' = Base(id) /\ (Live(id)' <=> Live(id))
  BY <1>2 DEF Base, Live, Superseded
<1>7. \A from, to : Foreign(from, to)' <=> Foreign(from, to)
  BY <1>2 DEF Foreign
<1>8. Compares(view, Unsettled)'
  BY <1>2, <1>3 DEF Fine, Compares
<1> QED
  BY <1>2, <1>3, <1>5, <1>6, <1>7, <1>8 DEF Fine, OnTop, Lineage, InHand, Says, OwnRevisions, Applies

(* A patch is checked, and not yet sent.                                   *)
LEMMA CheckHolds ==
  ASSUME HInv, NEW givenUp \in SUBSET Fields, Check(givenUp)
  PROVE  HInv'
<1> DEFINE mine == operationsBetween(view.committed.doc, view.deployment) \ givenUp
<1> DEFINE candidate == applyLocal(dialog.current.doc, view.deployment, mine)
<1> DEFINE p == Patch(dialog.current, candidate, 0)
<1> DEFINE n == Len(patches) + 1
<1>1. IInv /\ Numbered /\ dialog \in DialogStates
  BY DEF HInv, IInv, Shape
<1>2. /\ patches' = Append(patches, p) /\ Len(patches) < MaxPatches
      /\ dialog.on /\ dialog.patch = 0 /\ dialog' = [dialog EXCEPT !.patch = n]
      /\ UNCHANGED <<source, authors, results, wire, view, uncertain, calls, applying, abandoned, refused>>
  BY DEF Check, repository
<1>3. dialog'.on /\ dialog'.current = dialog.current /\ dialog'.patch = n
  BY <1>1, <1>2 DEF DialogStates
<1>4. p \in Patches /\ p.supersedes = 0 /\ p.base.rev <= source.rev
  <2>1. dialog.current \in Snapshots /\ dialog.current.doc \in Documents /\ view.deployment \in Documents
    BY <1>1, <1>2 DEF IInv, Named, Shape, Views, Snapshots
  <2>2. candidate \in Documents
    BY <2>1, Applied
  <2> QED
    BY <1>1, <1>2, <2>1, <2>2, DraftBounds DEF Numbered, Patch, Patches
<1> HIDE DEF p
<1>5. /\ Len(patches') = n /\ n \in Ids /\ patches'[n] = p
      /\ \A id \in 1..Len(patches') : id \in 1..Len(patches) \/ id = n
      /\ \A id \in 1..Len(patches) :
           /\ id \in 1..Len(patches') /\ patches'[id] = patches[id]
           /\ patches'[id].base.rev = Base(id) /\ (Live(id)' <=> Live(id))
      /\ results[n].kind = "none" /\ wire[n] = 0
  BY <1>1, <1>2, <1>4, Appended
<1>6. Numbered' /\ (Heard => Heard')
  <2>1. view'.committed.rev <= source.rev
    BY <1>1, <1>2 DEF Numbered
  <2> QED
    BY <1>1, <1>2, <1>3, <1>4, <2>1, AppendedHolds
<1> SUFFICES ASSUME Heard, Fine(view, Unsettled)
             PROVE  Fine(view, Unsettled)'
  BY <1>1, <1>2, <1>6, CheckStep DEF HInv
<1>7. Unsettled' = Unsettled
  BY <1>2 DEF Unsettled
<1>8. /\ Unsettled \in 0..Len(patches) /\ view.proposalId \in 0..Len(patches)
      /\ applying.id \in 0..Len(patches) /\ Len(patches) \in Nat
      /\ Unsettled # 0 => Unsettled \in 1..Len(patches)
      /\ view.proposalId # 0 => view.proposalId \in 1..Len(patches)
      /\ applying.id # 0 => applying.id \in 1..Len(patches)
      /\ calls["resolve"].step = "idle"
  <2>1. calls["resolve"].step # "idle" => calls["resolve"].id = 0
    BY <1>2 DEF Fine, Compares
  <2> QED
    BY <1>1, <2>1, Sorts, UnsettledIs DEF Channels
<1>9. \A id \in 1..Len(patches) : Base(id)' = Base(id)
  BY <1>5 DEF Base
<1>10. \A from, to : Foreign(from, to)' <=> Foreign(from, to)
  BY <1>2 DEF Foreign
<1>11. OnTop(view, Unsettled)'
  BY <1>2, <1>5, <1>7, <1>8, <1>9 DEF Fine, OnTop
<1>12. Lineage(view)'
  <2>1. view.proposalId # 0 => Base(view.proposalId)' = view.committed.rev
    BY <1>2, <1>8, <1>9 DEF Fine, Lineage
  <2>2. ASSUME NEW id \in 1..Len(patches'), patches'[id].supersedes # 0
        PROVE  /\ patches'[id].supersedes \in 1..Len(patches')
               /\ patches'[patches'[id].supersedes].base.rev = patches'[id].base.rev
    BY <1>4, <1>5, <2>2 DEF Fine, Lineage
  <2> QED
    BY <1>2, <2>1, <2>2 DEF Lineage, Base
<1>13. InHand(view, Unsettled)'
  BY <1>2, <1>3, <1>5, <1>7 DEF Fine, InHand
<1>14. Says(view, Unsettled)' /\ OwnRevisions(view, Unsettled)'
  <2>1. Says(view, Unsettled)'
    BY <1>2, <1>7, <1>10 DEF Fine, Says
  <2>2. OwnRevisions(view, Unsettled)'
    BY <1>2, <1>7 DEF Fine, OwnRevisions
  <2> QED
    BY <2>1, <2>2
<1>15. Applies(view, Unsettled)'
  BY <1>2, <1>5, <1>7, <1>8, <1>9 DEF Fine, Applies
<1>16. Harmless(dialog.patch)'
  BY <1>2, <1>3, <1>5, <1>8 DEF Harmless
<1>17. Compares(view, Unsettled)'
  <2>1. Resting(view, Unsettled)' <=> Resting(view, Unsettled)
    BY <1>2, <1>7 DEF Resting
  <2>2. n # view.proposalId
    BY <1>8
  <2> QED
    BY <1>2, <1>3, <1>5, <1>7, <1>8, <1>10, <1>16, <2>1, <2>2 DEF Fine, Compares
<1> QED
  BY <1>11, <1>12, <1>13, <1>14, <1>15, <1>17 DEF Fine

(* The dialog sends its patch when the draft has nothing unsettled, so     *)
(* that it answers what somebody else has done.                            *)
LEMMA ResolveHolds ==
  ASSUME HInv, Resolve
  PROVE  HInv'
<1> DEFINE d == dialog.patch
<1>1. IInv /\ Numbered /\ calls \in [Channels -> Calls] /\ wire \in [Ids -> Nat]
  BY DEF HInv, IInv, Shape
<1>2. /\ calls' = [calls EXCEPT !["resolve"] = [NoCall EXCEPT !.step = "asked", !.id = d]]
      /\ abandoned' = (abandoned \/ GivesUp) /\ d # 0
      /\ UNCHANGED <<source, authors, results, patches, view, uncertain, applying, dialog, refused>>
  BY DEF Resolve, repository
<1>3. /\ calls'["resolve"].id = d /\ calls'["resolve"].answer.kind = "none"
      /\ calls'["save"] = calls["save"]
  BY <1>1, <1>2 DEF NoCall, Nothing, Channels
<1>4. d \in 1..Len(patches) /\ Base(d) \in Nat /\ source.rev \in Nat /\ Base(d) <= source.rev
  <2>1. d \in 1..Len(patches)
    BY <1>1, <1>2, Sorts
  <2> QED
    BY <1>1, <2>1, Sorts DEF Numbered
<1>5. Numbered'
  <2>1. view'.committed.rev <= source.rev
    BY <1>1, <1>2 DEF Numbered
  <2>2. \A c \in Channels : calls'[c] = calls[c] \/ calls'[c].answer.kind = "none"
    BY <1>3 DEF Channels
  <2> QED
    BY <1>1, <1>2, <2>1, <2>2, NumberedQuiet
<1> SUFFICES ASSUME ~GivesUp, Heard, Fine(view, Unsettled)
             PROVE  Heard' /\ Fine(view, Unsettled)'
  BY <1>1, <1>2, <1>5, ResolveStep DEF HInv
<1>6. Unsettled = 0 /\ view.proposalId = 0 /\ Unsettled' = 0
  <2>1. Unsettled = 0 /\ view.proposalId = 0
    BY <1>1, UnsettledIs
  <2> QED
    BY <1>2, <1>3, <2>1 DEF Unsettled
<1>7. Heard'
  <2>1. \A c \in Channels :
          \/ calls'[c].answer = calls[c].answer /\ calls'[c].id = calls[c].id
          \/ calls'[c].answer.kind = "none"
    BY <1>3 DEF Channels
  <2> QED
    BY <1>1, <1>2, <2>1, HeardQuiet
<1>8. \A id : Base(id)' = Base(id) /\ (Live(id)' <=> Live(id))
  BY <1>2 DEF Base, Live, Superseded
<1>9. \A from, to : Foreign(from, to)' <=> Foreign(from, to)
  BY <1>2 DEF Foreign
<1>10. Compares(view, Unsettled)'
  <2>1. Resting(view, Unsettled)' <=> Resting(view, Unsettled)
    BY <1>2, <1>6 DEF Resting
  <2>2. dialog.on /\ (Foreign(view.committed.rev, source.rev) \/ Resting(view, Unsettled))
    BY <1>2, <1>6 DEF Fine, Compares
  <2>3. Foreign(view.committed.rev, Base(d)) \/ Resting(view, Unsettled) \/ Harmless(d)'
    <3>1. Foreign(view.committed.rev, Base(d)) \/ Resting(view, Unsettled) \/ Harmless(d)
      BY <1>2 DEF Fine, Compares
    <3>2. CASE Harmless(d) /\ Base(d) < source.rev
      BY <1>2, <1>8, <3>2 DEF Harmless
    <3>3. CASE Base(d) = source.rev
      BY <2>2, <3>3
    <3> QED
      BY <1>4, <3>1, <3>2, <3>3
  <2> QED
    BY <1>2, <1>3, <1>8, <1>9, <2>1, <2>2, <2>3 DEF Fine, Compares
<1> QED
  BY <1>2, <1>6, <1>7, <1>8, <1>9, <1>10 DEF Fine, OnTop, Lineage, InHand, Says, OwnRevisions, Applies

(* A view that has nothing left to save, and a new save on top of it.      *)
Settled(v) == IF v.dirty THEN [v EXCEPT !.dirty = FALSE, !.state = "Saved"] ELSE v

LEMMA SettledIs ==
  ASSUME NEW v \in Views
  PROVE  /\ Settled(v).committed = v.committed /\ Settled(v).proposalId = v.proposalId
         /\ Settled(v).state = IF v.dirty THEN "Saved" ELSE v.state
         /\ ~Settled(v).dirty
<1>1. CASE v.dirty
  BY <1>1 DEF Settled, Views
<1>2. CASE ~v.dirty
  BY <1>2 DEF Settled
<1> QED
  BY <1>1, <1>2

LEMMA NewSaveFine ==
  ASSUME IInv, NEW v \in Views, Fine(Settled(v), 0), v.proposalId <= Len(patches),
         dialog.patch # 0 => Foreign(v.committed.rev, Base(dialog.patch)) \/ Harmless(dialog.patch),
         UNCHANGED <<source, authors, results, dialog>>,
         NEW sent, Patch(v.committed, sent, v.proposalId) \in Patches,
         patches' = Append(patches, Patch(v.committed, sent, v.proposalId)), Len(patches) < MaxPatches,
         Unsettled' = Len(patches) + 1, applying'.id = 0,
         view'.committed = v.committed, view'.proposalId = v.proposalId, view'.state = "Saving",
         calls'["resolve"] = calls["resolve"],
         \A id \in Ids : id # Len(patches) + 1 => wire'[id] = wire[id]
  PROVE  Fine(view, Unsettled)'
<1> DEFINE n == Len(patches) + 1
<1> DEFINE p == Patch(v.committed, sent, v.proposalId)
<1> DEFINE d == dialog.patch
<1>1. p.base = v.committed /\ p.supersedes = v.proposalId
  BY DEF Patch
<1> HIDE DEF p
<1>2. /\ Len(patches') = n /\ patches'[n] = p
      /\ \A id \in 1..Len(patches') : id \in 1..Len(patches) \/ id = n
      /\ \A id \in 1..Len(patches) :
           /\ id \in 1..Len(patches') /\ patches'[id] = patches[id]
           /\ patches'[id].base.rev = Base(id) /\ (Live(id)' <=> Live(id))
      /\ results[n].kind = "none"
  BY Appended DEF p
<1>3. /\ Len(patches) \in Nat
      /\ d # 0 => d \in 1..Len(patches) /\ d \in Ids /\ d # n
      /\ v.proposalId # 0 => v.proposalId \in 1..Len(patches)
  <2>1. d # 0 => d \in 1..Len(patches)
    BY Sorts
  <2>2. v.proposalId # 0 => v.proposalId \in 1..Len(patches)
    BY Sorts, DraftBounds DEF Views
  <2>3. d # 0 => d \in Ids
    BY <2>1, Sorts
  <2> QED
    BY <2>1, <2>2, <2>3, Sorts
<1>4. Settled(v).committed = v.committed /\ Settled(v).proposalId = v.proposalId
  BY SettledIs
<1>5. \A from, to : Foreign(from, to)' <=> Foreign(from, to)
  BY DEF Foreign
<1>6. OnTop(view, Unsettled)'
  BY <1>1, <1>2 DEF OnTop, Base
<1>7. Lineage(view)'
  <2>1. v.proposalId # 0 => patches'[v.proposalId].base.rev = v.committed.rev
    BY <1>2, <1>3, <1>4 DEF Fine, Lineage
  <2>2. ASSUME NEW id \in 1..Len(patches'), patches'[id].supersedes # 0
        PROVE  /\ patches'[id].supersedes \in 1..Len(patches')
               /\ patches'[patches'[id].supersedes].base.rev = patches'[id].base.rev
    <3>1. CASE id = n
      BY <1>1, <1>2, <1>3, <2>1, <2>2, <3>1
    <3>2. CASE id \in 1..Len(patches)
      BY <1>2, <2>2, <3>2 DEF Fine, Lineage
    <3> QED
      BY <1>2, <3>1, <3>2
  <2> QED
    BY <2>1, <2>2 DEF Lineage, Base
<1>8. InHand(view, Unsettled)'
  BY <1>2, <1>4 DEF Fine, InHand
<1>9. Says(view, Unsettled)'
  BY DEF Says
<1>10. OwnRevisions(view, Unsettled)'
  <2>1. d # 0 => Base(dialog.patch)' = Base(d)
    BY <1>2, <1>3 DEF Base
  <2> QED
    BY <1>4, <2>1 DEF Fine, OwnRevisions
<1>11. Applies(view, Unsettled)'
  BY DEF Applies
<1>12. Compares(view, Unsettled)'
  <2>1. d # 0 => Base(dialog.patch)' = Base(d)
    BY <1>2, <1>3 DEF Base
  <2>2. d # 0 => wire'[d] = wire[d]
    BY <1>3
  <2>3. d # 0 /\ Harmless(d) => Harmless(dialog.patch)'
    BY <2>1, <2>2 DEF Harmless
  <2> QED
    BY <1>3, <1>4, <1>5, <2>1, <2>3 DEF Fine, Compares
<1> QED
  BY <1>6, <1>7, <1>8, <1>9, <1>10, <1>11, <1>12 DEF Fine

(* The save ends, or sends: what it leaves is fine when the view is that   *)
(* has nothing left to save, and the dialog does not rest on it.           *)
LEMMA SendsHolds ==
  ASSUME IInv, Numbered, IInv', NEW v \in Views, NEW u, Sendable(v, u), Sends(v, u),
         v.committed.rev <= source.rev,
         UNCHANGED <<repository, dialog, abandoned, refused>>,
         applying.id = 0, applying'.id = 0, applying'.answer = applying.answer,
         ~abandoned /\ ~refused =>
           /\ Heard /\ Fine(Settled(v), IF u = None THEN 0 ELSE u.id)
           /\ v.dirty /\ dialog.patch # 0 =>
                Foreign(v.committed.rev, Base(dialog.patch)) \/ Harmless(dialog.patch)
  PROVE  HInv'
<1> DEFINE sent == IF u # None THEN patches[u.id].sent ELSE v.deployment
<1> DEFINE id == IF u # None THEN u.id ELSE Len(patches) + 1
<1> DEFINE done == ~v.dirty \/ operationsBetween(v.committed.doc, sent) = {}
<1> DEFINE calm == ~abandoned /\ ~refused
<1>1. calls \in [Channels -> Calls] /\ wire \in [Ids -> Nat] /\ Len(patches) \in Nat
  BY Sorts DEF IInv, Shape
<1>2. UNCHANGED <<source, authors, results>>
  BY DEF repository
<1>3. v.committed \in Snapshots /\ v.committed.doc \in Documents /\ v.deployment \in Documents
      /\ v.proposalId \in 0..MaxPatches
  BY DEF Views, Snapshots
<1>4. u # None => u.id \in 1..Len(patches) /\ u.id \in Ids /\ patches[u.id].sent \in Documents
                  /\ u.id # dialog.patch
  <2>1. u # None => u.id \in 1..Len(patches)
    BY <1>1 DEF Sendable, Unknowns, Ids
  <2> QED
    BY <2>1, PatchTyped DEF Sendable, Own, IInv
<1>5. sent \in Documents
  BY <1>3, <1>4
<1>6. operationsBetween(v.committed.doc, sent) = {} <=> v.committed.doc = sent
  BY <1>3, <1>5, Differ
<1>7. Settled(v).committed = v.committed /\ Settled(v).proposalId = v.proposalId /\ ~Settled(v).dirty
      /\ Settled(v).state = IF v.dirty THEN "Saved" ELSE v.state
  BY SettledIs
<1>8. CASE done
  <2>1. /\ uncertain' = u /\ view' = Settled(v) /\ calls' = [calls EXCEPT !["save"] = NoCall]
        /\ UNCHANGED <<wire, patches>>
    BY <1>8 DEF Sends, Settled
  <2>2. /\ calls'["save"] = NoCall /\ calls'["resolve"] = calls["resolve"]
        /\ NoCall.step = "idle" /\ NoCall.answer.kind = "none"
    BY <1>1, <2>1 DEF NoCall, Nothing, Channels
  <2>3. \A c \in Channels :
          calls'[c] = calls[c] \/ calls'[c].answer.kind = "none"
    BY <2>2 DEF Channels
  <2>4. Numbered'
    BY <1>2, <1>7, <2>1, <2>3, NumberedQuiet
  <2>5. ASSUME calm PROVE Heard' /\ Fine(view, Unsettled)'
    <3>1. Heard'
      BY <1>2, <2>1, <2>3, <2>5, HeardQuiet
    <3>2. u = None
      BY <1>6, <1>8, <2>5 DEF Sendable
    <3>3. Unsettled' = 0
      BY <2>1, <2>2, <3>2 DEF Unsettled
    <3>4. Fine(Settled(v), 0)
      BY <2>5, <3>2
    <3>5. Resting(Settled(v), 0) => ~view'.dirty /\ view'.state = "Saved"
      BY <2>1 DEF Resting
    <3>6. Fine(view, Unsettled)'
      BY <1>2, <2>1, <2>2, <3>3, <3>4, <3>5, QuietFine
    <3> QED
      BY <3>1, <3>6
  <2> QED
    BY <2>4, <2>5 DEF HInv
<1>9. CASE ~done
  <2> DEFINE newer == u # None /\ u.newer
  <2> DEFINE p == Patch(v.committed, sent, v.proposalId)
  <2> DEFINE call == [NoCall EXCEPT !.step = "asked", !.id = id, !.newer = newer]
  <2>1. /\ uncertain' = None /\ id <= MaxPatches /\ view' = [v EXCEPT !.state = "Saving"]
        /\ patches' = IF u # None THEN patches ELSE Append(patches, p)
        /\ calls' = [calls EXCEPT !["save"] = call]
        /\ wire' = [wire EXCEPT ![id] = @ + 1]
    BY <1>9 DEF Sends
  <2>2. call.step = "asked" /\ call.id = id /\ call.answer.kind = "none"
    BY DEF NoCall, Nothing
  <2>3. calls'["save"] = call /\ calls'["resolve"] = calls["resolve"]
    BY <1>1, <2>1 DEF Channels
  <2> HIDE DEF call
  <2>4. view'.committed = v.committed /\ view'.proposalId = v.proposalId /\ view'.state = "Saving"
    BY <2>1 DEF Views
  <2>5. \A i \in Ids : i # id => wire'[i] = wire[i]
    BY <1>1, <2>1
  <2>6. Unsettled' = id
    BY <2>2, <2>3 DEF Unsettled
  <2>7. \A c \in Channels :
          \/ calls'[c].answer.kind = "none"
          \/ calls'[c].answer = calls[c].answer /\ calls'[c].id = calls[c].id
    BY <2>2, <2>3 DEF Channels
  <2>8. CASE u # None
    <3>1. Numbered'
      BY <1>2, <2>1, <2>4, <2>7, <2>8, NumberedQuiet
    <3>2. ASSUME calm PROVE Heard' /\ Fine(view, Unsettled)'
      <4>1. Heard'
        BY <1>2, <2>1, <2>7, <2>8, <3>2, HeardQuiet
      <4>2. Unsettled' = u.id /\ u.id # 0
        BY <1>1, <1>4, <2>6, <2>8
      <4>3. Fine(Settled(v), u.id)
        BY <2>8, <3>2
      <4>4. dialog.patch # 0 => wire'[dialog.patch] = wire[dialog.patch]
        BY <1>4, <2>5, <2>8, Sorts
      <4>5. ~Resting(Settled(v), u.id)
        BY <4>2 DEF Resting
      <4>6. Fine(view, Unsettled)'
        BY <1>2, <1>7, <2>1, <2>3, <2>4, <2>8, <4>2, <4>3, <4>4, <4>5, QuietFine
      <4> QED
        BY <4>1, <4>6
    <3> QED
      BY <3>1, <3>2 DEF HInv
  <2>9. CASE u = None
    <3>1. patches' = Append(patches, p) /\ id = Len(patches) + 1 /\ Len(patches) < MaxPatches
      BY <1>1, <2>1, <2>9, DraftBounds
    <3>2. p \in Patches /\ p.base.rev <= source.rev
      BY <1>3, <1>5 DEF Patch, Patches
    <3>3. Numbered' /\ (Heard => Heard')
      <4> HIDE DEF p
      <4> QED
        BY <1>2, <2>4, <2>7, <3>1, <3>2, AppendedHolds
    <3>4. ASSUME calm PROVE Fine(view, Unsettled)'
      <4>1. v.dirty /\ v.proposalId <= Len(patches)
        BY <1>9 DEF Sendable
      <4>2. Fine(Settled(v), 0)
        BY <2>9, <3>4
      <4>3. dialog.patch # 0 => Foreign(v.committed.rev, Base(dialog.patch)) \/ Harmless(dialog.patch)
        BY <3>4, <4>1
      <4> HIDE DEF sent, id
      <4> QED
        BY <1>2, <2>3, <2>4, <2>5, <2>6, <3>1, <3>2, <4>1, <4>2, <4>3, NewSaveFine
    <3> QED
      BY <3>3, <3>4 DEF HInv
  <2> QED
    BY <2>8, <2>9
<1> QED
  BY <1>8, <1>9

(* The timer fires.                                                        *)
LEMMA flushHolds ==
  ASSUME HInv, flush
  PROVE  HInv'
<1>1. IInv /\ Numbered /\ view \in Views
  BY DEF HInv, IInv, Shape
<1>2. applying.id = 0 /\ UNCHANGED <<repository, source, authors, results, applying, dialog, abandoned, refused>>
  BY DEF flush, ghosts, repository
<1>3. IInv'
  BY <1>1, flushStep
<1>4. CASE calls["save"].step = "idle"
  <2>1. Sends(view, uncertain)
    BY <1>4 DEF flush, Loops
  <2>2. Sendable(view, uncertain)
    BY <1>1, TruthfulView DEF IInv, Sendable, Named, Apart, Saving, Sent, Shape
  <2>3. Unsettled = IF uncertain = None THEN 0 ELSE uncertain.id
    BY <1>4 DEF Unsettled
  <2>4. ASSUME Fine(view, Unsettled)
        PROVE  /\ Fine(Settled(view), Unsettled)
               /\ view.dirty /\ dialog.patch # 0 =>
                    Foreign(view.committed.rev, Base(dialog.patch)) \/ Harmless(dialog.patch)
    <3>1. CASE view.dirty
      <4>1. ~Resting(view, Unsettled)
        BY <3>1 DEF Resting
      <4>2. Settled(view).committed = view.committed /\ Settled(view).proposalId = view.proposalId
            /\ Settled(view).state = "Saved"
        BY <1>1, <3>1, SettledIs
      <4>3. Compares(Settled(view), Unsettled)
        BY <2>4, <4>1, <4>2 DEF Fine, Compares
      <4>4. view.dirty /\ dialog.patch # 0 =>
              Foreign(view.committed.rev, Base(dialog.patch)) \/ Harmless(dialog.patch)
        BY <2>4, <4>1 DEF Fine, Compares
      <4>5. OnTop(Settled(view), Unsettled) /\ Lineage(Settled(view)) /\ InHand(Settled(view), Unsettled)
        BY <2>4, <4>2 DEF Fine, OnTop, Lineage, InHand
      <4>6. Says(Settled(view), Unsettled) /\ OwnRevisions(Settled(view), Unsettled)
        BY <2>4, <4>2 DEF Fine, Says, OwnRevisions
      <4>7. Applies(Settled(view), Unsettled)
        BY <2>4, <4>2 DEF Fine, Applies
      <4> QED
        BY <4>3, <4>4, <4>5, <4>6, <4>7 DEF Fine
    <3>2. CASE ~view.dirty
      BY <2>4, <3>2 DEF Settled
    <3> QED
      BY <3>1, <3>2
  <2>5. view.committed.rev <= source.rev
    BY <1>1 DEF Numbered
  <2>6. ~abandoned /\ ~refused =>
          /\ Heard /\ Fine(Settled(view), IF uncertain = None THEN 0 ELSE uncertain.id)
          /\ view.dirty /\ dialog.patch # 0 =>
               Foreign(view.committed.rev, Base(dialog.patch)) \/ Harmless(dialog.patch)
    BY <2>3, <2>4 DEF HInv
  <2> QED
    BY <1>1, <1>2, <1>3, <2>1, <2>2, <2>5, <2>6, SendsHolds
<1>5. CASE calls["save"].step # "idle"
  <2>1. UNCHANGED <<view, calls, wire, patches, uncertain>>
    BY <1>5 DEF flush
  <2>2. Unsettled' = Unsettled
    BY <2>1 DEF Unsettled
  <2> QED
    BY <1>2, <1>3, <2>1, <2>2, QuietHolds DEF Resting
<1> QED
  BY <1>4, <1>5

(* What the draft keeps when its save is committed: the revision it now    *)
(* shows is its own, and what somebody else made comes after it.           *)
LEMMA MergedFine ==
  ASSUME IInv, Numbered, Fine(view, Unsettled), NEW v, Unsettled # 0, applying.id = 0,
         results[Unsettled].kind = "committed",
         v.committed.rev = Base(Unsettled) + 1, v.proposalId = 0, v.state = "Saved", ~v.dirty
  PROVE  /\ Fine(v, 0)
         /\ dialog.patch # 0 => Foreign(v.committed.rev, Base(dialog.patch)) \/ Harmless(dialog.patch)
<1> DEFINE s == Unsettled
<1> DEFINE d == dialog.patch
<1>1. /\ s \in 1..Len(patches) /\ Base(s) = view.committed.rev /\ authors[Base(s) + 1] = "save"
      /\ Base(s) + 1 <= source.rev /\ Base(s) \in Nat /\ source.rev \in Nat
      /\ d # 0 => Base(d) \in Nat /\ d \in 1..Len(patches) /\ Base(d) <= source.rev
  <2>1. s \in 1..Len(patches)
    BY UnsettledIs, Sorts
  <2>2. d # 0 => d \in 1..Len(patches)
    BY Sorts
  <2> QED
    BY <2>1, <2>2, Sorts DEF Fine, OnTop, Numbered
<1>2. OnTop(v, 0)
  BY DEF OnTop
<1>3. Lineage(v)
  BY DEF Fine, Lineage
<1>4. InHand(v, 0)
  <2> SUFFICES ASSUME NEW id \in 1..Len(patches), Live(id) PROVE id = d
    BY DEF InHand
  <2>1. Base(id) = source.rev
    BY DEF Live
  <2>2. id # s /\ id # view.proposalId
    BY <1>1, <2>1 DEF Fine, Lineage
  <2> QED
    BY <2>2 DEF Fine, InHand
<1>5. Says(v, 0) /\ Applies(v, 0)
  BY DEF Says, Applies
<1>6. OwnRevisions(v, 0)
  <2> SUFFICES ASSUME NEW r \in v.committed.rev + 1 .. source.rev, authors[r] = "save"
               PROVE  d # 0 /\ results[d].kind = "committed" /\ r = Base(d) + 1
    BY DEF OwnRevisions
  <2>1. r \in view.committed.rev + 1 .. source.rev /\ r # view.committed.rev + 1
    BY <1>1
  <2> QED
    BY <2>1 DEF Fine, OwnRevisions
<1>7. d # 0 => Foreign(view.committed.rev, Base(d)) \/ Harmless(d)
  BY DEF Fine, Compares, Resting
<1>8. ASSUME d # 0, Foreign(view.committed.rev, Base(d))
      PROVE  Foreign(v.committed.rev, Base(d)) /\ v.committed.rev <= Base(d)
  <2>1. PICK r \in view.committed.rev + 1 .. Base(d) : authors[r] # "save"
    BY <1>8 DEF Foreign
  <2>2. r # view.committed.rev + 1
    BY <1>1, <2>1
  <2>3. r \in v.committed.rev + 1 .. Base(d) /\ v.committed.rev <= Base(d)
    BY <1>1, <1>8, <2>1, <2>2
  <2> QED
    BY <2>1, <2>3 DEF Foreign
<1>9. Resting(v, 0)
  BY DEF Resting
<1>10. Compares(v, 0)
  <2>1. d # 0 /\ results[d].kind # "none" => v.committed.rev <= Base(d)
    BY <1>7, <1>8 DEF Harmless
  <2> QED
    BY <1>1, <1>9, <2>1 DEF Fine, Compares
<1> QED
  BY <1>2, <1>3, <1>4, <1>5, <1>6, <1>7, <1>8, <1>10 DEF Fine

(* When it is stored as a proposal: the one before is replaced.            *)
LEMMA ProposedFine ==
  ASSUME IInv, Fine(view, Unsettled), NEW v, Unsettled # 0, applying.id = 0,
         results[Unsettled].kind = "proposal",
         v.committed = view.committed, v.proposalId = Unsettled, v.state \in {"Saved", "Proposed"}
  PROVE  /\ Fine(v, 0)
         /\ dialog.patch # 0 => Foreign(v.committed.rev, Base(dialog.patch)) \/ Harmless(dialog.patch)
<1> DEFINE s == Unsettled
<1> DEFINE d == dialog.patch
<1>1. s \in 1..Len(patches) /\ Base(s) = view.committed.rev /\ patches[s].supersedes = view.proposalId
      /\ s # d
  <2>1. s \in 1..Len(patches) /\ s # d
    BY UnsettledIs, Sorts
  <2> QED
    BY <2>1 DEF Fine, OnTop
<1>2. OnTop(v, 0) /\ Says(v, 0) /\ Applies(v, 0)
  BY DEF OnTop, Says, Applies
<1>3. Lineage(v)
  BY <1>1 DEF Fine, Lineage
<1>4. InHand(v, 0)
  <2> SUFFICES ASSUME NEW id \in 1..Len(patches), Live(id), id # d PROVE id = s
    BY DEF InHand
  <2>1. results[id].kind = "proposal" => ~Superseded(id)
    BY DEF Live
  <2>2. Superseded(view.proposalId)
    BY <1>1 DEF Superseded
  <2> QED
    BY <2>1, <2>2 DEF Fine, InHand
<1>5. OwnRevisions(v, 0)
  BY DEF Fine, OwnRevisions
<1>6. d # 0 => Foreign(view.committed.rev, Base(d)) \/ Harmless(d)
  BY DEF Fine, Compares, Resting
<1>7. Compares(v, 0)
  BY <1>1, <1>6 DEF Fine, Compares
<1> QED
  BY <1>2, <1>3, <1>4, <1>5, <1>6, <1>7 DEF Fine

(* When it is a conflict: somebody else made the next revision.            *)
LEMMA ConflictIsForeign ==
  ASSUME IInv, Numbered, Fine(view, Unsettled), Unsettled # 0,
         results[Unsettled].kind # "committed", Base(Unsettled) < source.rev
  PROVE  /\ Foreign(view.committed.rev, source.rev) /\ ~Live(Unsettled)
         /\ dialog.patch # 0 =>
              Foreign(view.committed.rev, Base(dialog.patch)) \/ Harmless(dialog.patch)
<1> DEFINE s == Unsettled
<1> DEFINE d == dialog.patch
<1>1. s \in 1..Len(patches) /\ Base(s) = view.committed.rev /\ source.rev \in Nat /\ Base(s) \in Nat
  <2>1. s \in 1..Len(patches)
    BY Sorts, UnsettledIs
  <2> QED
    BY <2>1, Sorts DEF Fine, OnTop
<1>2. d # 0 => Foreign(view.committed.rev, Base(d)) \/ Harmless(d)
  BY DEF Fine, Compares, Resting
<1>3. Foreign(view.committed.rev, source.rev)
  <2>1. view.committed.rev + 1 \in view.committed.rev + 1 .. source.rev
    BY <1>1
  <2>2. SUFFICES ASSUME authors[view.committed.rev + 1] = "save" PROVE FALSE
    BY <2>1 DEF Foreign
  <2>3. d # 0 /\ results[d].kind = "committed" /\ view.committed.rev + 1 = Base(d) + 1
    BY <2>1, <2>2 DEF Fine, OwnRevisions
  <2>4. Base(d) \in Nat
    <3>1. d \in 1..Len(patches)
      BY <2>3, Sorts
    <3> QED
      BY <3>1, Sorts
  <2>5. Base(d) = view.committed.rev
    BY <1>1, <2>3, <2>4
  <2>6. ~Foreign(view.committed.rev, Base(d))
    BY <1>1, <2>5 DEF Foreign
  <2> QED
    BY <1>2, <2>3, <2>6 DEF Harmless
<1>4. ~Live(s)
  BY <1>1 DEF Live
<1> QED
  BY <1>2, <1>3, <1>4

LEMMA ConflictFine ==
  ASSUME IInv, Numbered, Fine(view, Unsettled), Unsettled # 0,
         results[Unsettled].kind # "committed", Base(Unsettled) < source.rev,
         UNCHANGED <<source, authors, results, patches, dialog, wire>>, calls'["resolve"] = calls["resolve"],
         Unsettled' = 0, applying'.id = 0,
         view'.committed = view.committed, view'.proposalId = view.proposalId,
         view'.state = "Changes conflict"
  PROVE  Fine(view, Unsettled)'
<1> DEFINE d == dialog.patch
<1>1. /\ Foreign(view.committed.rev, source.rev) /\ ~Live(Unsettled)
      /\ d # 0 => Foreign(view.committed.rev, Base(d)) \/ Harmless(d)
  BY ConflictIsForeign
<1>2. \A id : Base(id)' = Base(id) /\ (Live(id)' <=> Live(id))
  BY DEF Base, Live, Superseded
<1>3. \A from, to : Foreign(from, to)' <=> Foreign(from, to)
  BY DEF Foreign
<1>4. OnTop(view, Unsettled)' /\ Says(view, Unsettled)' /\ Applies(view, Unsettled)'
  BY <1>1, <1>3 DEF OnTop, Says, Applies
<1>5. Lineage(view)'
  BY <1>2 DEF Fine, Lineage
<1>6. InHand(view, Unsettled)'
  <2>1. \A id \in 1..Len(patches) : Live(id) =>
          id = d \/ (id = view.proposalId /\ results[id].kind = "proposal")
    BY <1>1 DEF Fine, InHand
  <2> QED
    BY <1>2, <2>1 DEF InHand
<1>7. OwnRevisions(view, Unsettled)'
  BY <1>2 DEF Fine, OwnRevisions
<1>8. Compares(view, Unsettled)'
  <2>1. Harmless(d) => Harmless(dialog.patch)'
    BY <1>2 DEF Harmless
  <2> QED
    BY <1>1, <1>2, <1>3, <2>1 DEF Fine, Compares
<1> QED
  BY <1>4, <1>5, <1>6, <1>7, <1>8 DEF Fine

(* The save is answered.                                                   *)
LEMMA SaveEndsHolds ==
  ASSUME HInv, SaveEnds
  PROVE  HInv'
<1> DEFINE c == calls["save"]
<1> DEFINE r == Told("save")
<1> DEFINE calm == ~abandoned /\ ~refused
<1>1. IInv /\ Numbered /\ Shape /\ Named /\ Answering /\ view \in Views /\ applying \in Applications
      /\ "save" \in Channels
  BY DEF HInv, IInv, Shape, Channels
<1>2. /\ c.step # "idle" /\ c.id \in 1..Len(patches) /\ c.id # 0 /\ c.newer \in BOOLEAN
      /\ c.id \in 0..MaxPatches
  <2>1. c.step # "idle" /\ c.id \in 1..Len(patches) /\ c \in Calls
    BY <1>1, CallTyped DEF SaveEnds, Answered
  <2> QED
    BY <2>1 DEF Calls
<1>3. Unsettled = c.id /\ uncertain = None /\ applying.id = 0
  BY <1>1, <1>2, UnsettledIs DEF Unsettled
<1>4. UNCHANGED <<repository, source, authors, results, dialog, abandoned, refused>>
      /\ applying' = [applying EXCEPT !.touched = TRUE]
  BY DEF SaveEnds, repository
<1>5. applying'.id = 0 /\ applying'.answer = applying.answer
  BY <1>1, <1>3, <1>4 DEF Applications
<1>6. IInv'
  BY <1>1, SaveEndsStep
<1>7. calm => Heard /\ Fine(view, Unsettled)
  BY DEF HInv
<1>8. r.kind \in {"committed", "proposal"} => r = c.answer
  BY <1>1, ToldIs
<1>9. patches[c.id].sent \in Documents
  BY <1>1, <1>2, PatchTyped
<1>10. CASE r.kind = "committed"
  <2> DEFINE v == Merged(r.snapshot, patches[c.id].sent)
  <2>1. r = results[c.id] /\ r.snapshot \in Snapshots /\ r.snapshot.rev = Base(c.id) + 1
        /\ r.snapshot.rev <= source.rev
    <3>1. r = results[c.id]
      BY <1>1, <1>8, <1>10 DEF Numbered
    <3>2. r.snapshot.rev = Base(c.id) + 1 /\ Base(c.id) + 1 <= source.rev
      BY <1>1, <1>2, <1>10, <3>1 DEF Numbered
    <3>3. r.snapshot \in Snapshots
      BY <1>1, <1>10, ToldIs DEF Holds
    <3> QED
      BY <3>1, <3>2, <3>3
  <2>2. /\ v \in Views
        /\ v.proposalId = 0 /\ v.state # "Proposed" /\ v.committed = r.snapshot
        /\ ~v.dirty => v.deployment = r.snapshot.doc
    BY <1>1, <1>9, <2>1, MergedIs
  <2>3. Sends(v, None) /\ (v.state = "Saved" \/ v.dirty)
    <3>1. Sends(v, None)
      BY <1>10 DEF SaveEnds, Loops
    <3>2. v.state = "Saved" \/ v.dirty
      BY DEF Merged
    <3> QED
      BY <3>1, <3>2
  <2> HIDE DEF v
  <2>4. Sendable(v, None)
    <3>1. 0 <= Len(patches)
      BY <1>1, Counts
    <3> QED
      BY <2>2, <3>1 DEF Sendable, TruthfulOf
  <2>5. Settled(v).committed = r.snapshot /\ Settled(v).proposalId = 0 /\ ~Settled(v).dirty
        /\ Settled(v).state = "Saved"
    BY <2>2, <2>3, SettledIs
  <2>6. calm => /\ Heard /\ Fine(Settled(v), 0)
                /\ dialog.patch # 0 =>
                     Foreign(v.committed.rev, Base(dialog.patch)) \/ Harmless(dialog.patch)
    <3> HIDE DEF r, c
    <3> SUFFICES ASSUME Fine(view, Unsettled)
                 PROVE  /\ Fine(Settled(v), 0)
                        /\ dialog.patch # 0 =>
                             Foreign(v.committed.rev, Base(dialog.patch)) \/ Harmless(dialog.patch)
      BY <1>7
    <3>1. results[Unsettled].kind = "committed" /\ Unsettled # 0
          /\ Settled(v).committed.rev = Base(Unsettled) + 1
      BY <1>2, <1>3, <1>10, <2>1, <2>5
    <3> QED
      BY <1>1, <1>3, <2>2, <2>5, <3>1, MergedFine
  <2>7. v.committed.rev <= source.rev
    BY <2>1, <2>2
  <2> HIDE DEF r, c
  <2> QED
    BY <1>1, <1>3, <1>4, <1>5, <1>6, <2>2, <2>3, <2>4, <2>6, <2>7, SendsHolds
<1>11. CASE r.kind = "proposal"
  <2> DEFINE v == Proposed(c.id, c.newer)
  <2>1. Sends(v, None)
    BY <1>11 DEF SaveEnds, Loops
  <2>2. v = [view EXCEPT !.proposalId = c.id, !.state = "Proposed", !.dirty = c.newer]
    BY DEF Proposed
  <2> HIDE DEF v, r, c
  <2>3. v \in Views /\ v.proposalId = c.id /\ v.deployment = view.deployment /\ v.dirty = c.newer
        /\ v.state = "Proposed" /\ v.committed = view.committed
    BY <1>1, <1>2, <2>2 DEF Views
  <2>4. Sendable(v, None)
    <3>1. IInv /\ Answering /\ (~abandoned /\ ~c.newer => patches[c.id].sent = view.deployment)
      BY <1>1, <1>2 DEF IInv, Saving, Sent, c
    <3>2. results[c.id].kind # "none"
      BY <1>1, <1>11, ToldIs DEF c, r
    <3>3. TruthfulOf(v)
      BY <2>3, <3>1, <3>2 DEF TruthfulOf
    <3> QED
      BY <1>2, <2>3, <3>3 DEF Sendable
  <2>5. Settled(v).committed = view.committed /\ Settled(v).proposalId = c.id
        /\ Settled(v).state \in {"Saved", "Proposed"}
    BY <2>3, SettledIs
  <2>6. calm => /\ Heard /\ Fine(Settled(v), 0)
                /\ dialog.patch # 0 =>
                     Foreign(v.committed.rev, Base(dialog.patch)) \/ Harmless(dialog.patch)
    <3> SUFFICES ASSUME Heard, Fine(view, Unsettled)
                 PROVE  /\ Fine(Settled(v), 0)
                        /\ dialog.patch # 0 =>
                             Foreign(v.committed.rev, Base(dialog.patch)) \/ Harmless(dialog.patch)
      BY <1>7
    <3>1. results[c.id].kind = "proposal"
      BY <1>1, <1>8, <1>11 DEF Heard, c
    <3>2. results[Unsettled].kind = "proposal" /\ Unsettled # 0 /\ Settled(v).proposalId = Unsettled
      BY <1>2, <1>3, <2>5, <3>1
    <3> QED
      BY <1>1, <1>3, <2>3, <2>5, <3>2, ProposedFine
  <2>7. v.committed.rev <= source.rev
    BY <1>1, <2>3 DEF Numbered
  <2> QED
    BY <1>1, <1>3, <1>4, <1>5, <1>6, <2>1, <2>3, <2>4, <2>6, <2>7, SendsHolds
<1>12. CASE r.kind \notin {"committed", "proposal"}
  <2>1. \/ r.kind \in {"conflict", "busy"} /\ Fails("Changes conflict", None)
        \/ r.kind = "refused" /\ Fails("Save failed", None)
        \/ r.kind = "unknown" /\ Fails("Outcome unknown", Kept(c.id, c.newer))
    BY <1>12 DEF SaveEnds
  <2>2. /\ view'.committed = view.committed /\ view'.proposalId = view.proposalId
        /\ \/ r.kind \in {"conflict", "busy"} /\ view'.state = "Changes conflict" /\ uncertain' = None
           \/ r.kind = "refused" /\ view'.state = "Save failed" /\ uncertain' = None
           \/ r.kind = "unknown" /\ view'.state = "Outcome unknown" /\ uncertain' = Kept(c.id, c.newer)
        /\ calls' = [calls EXCEPT !["save"] = NoCall] /\ UNCHANGED <<wire, patches>>
    <3> HIDE DEF r, c
    <3> QED
      BY <1>1, <2>1 DEF Fails, Failed, Views
  <2>3. /\ calls'["save"] = NoCall /\ calls'["resolve"] = calls["resolve"]
        /\ NoCall.step = "idle" /\ NoCall.answer.kind = "none"
    BY <1>1, <2>2 DEF Shape, NoCall, Nothing, Channels
  <2>4. \A ch \in Channels : calls'[ch] = calls[ch] \/ calls'[ch].answer.kind = "none"
    BY <2>3 DEF Channels
  <2>5. Numbered'
    <3>1. view'.committed.rev <= source.rev
      BY <1>1, <2>2 DEF Numbered
    <3>2. UNCHANGED <<source, results, patches, dialog>>
      BY <1>4, <2>2
    <3>3. \A ch \in Channels :
            \/ calls'[ch].answer = calls[ch].answer /\ calls'[ch].id = calls[ch].id
            \/ calls'[ch].answer.kind # "committed"
            \/ calls'[ch].answer = results[calls'[ch].id]
      BY <2>4
    <3>4. applying'.answer = applying.answer /\ applying'.id = applying.id
      BY <1>3, <1>5
    <3> QED
      BY <1>1, <3>1, <3>2, <3>3, <3>4, NumberedQuiet
  <2> SUFFICES ASSUME calm PROVE Heard' /\ Fine(view, Unsettled)'
    BY <1>4, <1>6, <2>5 DEF HInv
  <2>6. Heard /\ Fine(view, Unsettled)
    BY <1>7
  <2>7. Heard'
    BY <1>1, <1>4, <2>2, <2>4, <2>6, HeardQuiet
  <2>8. r.kind \notin {"refused", "busy"}
    BY <1>1, <2>6 DEF Told, Heard, Result
  <2>9. CASE r.kind = "conflict"
    <3>1. c.answer.kind = "conflict"
      BY <2>9 DEF Told, Result
    <3>2. results[c.id].kind # "committed" /\ Base(c.id) < source.rev
      BY <1>1, <2>6, <3>1 DEF Heard
    <3>3. Unsettled' = 0
      BY <2>2, <2>3, <2>9 DEF Unsettled
    <3> HIDE DEF r, c
    <3>4. view'.state = "Changes conflict"
      BY <2>2, <2>9
    <3>5. Unsettled # 0 /\ results[Unsettled].kind # "committed" /\ Base(Unsettled) < source.rev
      BY <1>2, <1>3, <3>2
    <3>6. Fine(view, Unsettled)'
      BY <1>1, <1>4, <1>5, <2>2, <2>3, <2>6, <3>3, <3>4, <3>5, ConflictFine
    <3> QED
      BY <2>7, <3>6
  <2>10. CASE r.kind = "unknown"
    <3>1. Kept(c.id, c.newer) \in Unknowns /\ Kept(c.id, c.newer).id = c.id
      BY <1>1, <1>2, Sorts DEF Kept, Unknowns
    <3>2. Unsettled' = Unsettled
      BY <1>3, <2>2, <2>3, <2>10, <3>1, NoneUnknown DEF Unsettled
    <3> HIDE DEF r, c
    <3>3. view'.state = "Outcome unknown" /\ Unsettled # 0
      BY <1>2, <1>3, <2>2, <2>10
    <3>4. ~Resting(view, Unsettled)
      BY <3>3 DEF Resting
    <3>5. Fine(view, Unsettled)'
      BY <1>4, <1>5, <2>2, <2>3, <2>6, <3>2, <3>3, <3>4, QuietFine
    <3> QED
      BY <2>7, <3>5
  <2> QED
    BY <2>1, <2>8, <2>9, <2>10
<1> QED
  BY <1>10, <1>11, <1>12
LEMMA HarmlessAtFirst ==
  ASSUME Init
  PROVE  HInv
<1>1. IInv
  BY InitHolds
<1>2. /\ source.rev = 1 /\ patches = <<>> /\ view = Fresh(source)
      /\ uncertain = None /\ dialog = NoDialog /\ applying = NotApplying
      /\ \A c \in Channels : calls[c] = NoCall
  BY DEF Init
<1>3. view.committed.rev = 1 /\ view.proposalId = 0 /\ view.state = "Saved"
  BY <1>2 DEF Fresh
<1>4. dialog.patch = 0 /\ ~dialog.on /\ applying.id = 0 /\ applying.answer.kind = "none"
  BY <1>2 DEF NoDialog, NotApplying, Nothing
<1>5. \A c \in Channels : calls[c].step = "idle" /\ calls[c].answer.kind = "none"
  BY <1>2 DEF NoCall, Nothing
<1>6. Unsettled = 0
  BY <1>2, <1>5 DEF Unsettled, Channels
<1>7. 1..Len(patches) = {}
  BY <1>2
<1>8. Numbered
  BY <1>2, <1>3, <1>4, <1>5, <1>7 DEF Numbered
<1>9. Heard
  BY <1>5 DEF Heard
<1>10. view.committed.rev + 1 .. source.rev = {}
  BY <1>2, <1>3
<1>11. OnTop(view, Unsettled) /\ Lineage(view) /\ InHand(view, Unsettled) /\ Applies(view, Unsettled)
  BY <1>3, <1>4, <1>6, <1>7 DEF OnTop, Lineage, InHand, Applies
<1>12. Says(view, Unsettled) /\ OwnRevisions(view, Unsettled)
  BY <1>3, <1>10 DEF Says, OwnRevisions
<1>13. Compares(view, Unsettled)
  BY <1>4, <1>5 DEF Compares, Channels
<1> QED
  BY <1>1, <1>8, <1>9, <1>11, <1>12, <1>13 DEF HInv, Fine

LEMMA StutterHolds ==
  ASSUME HInv, UNCHANGED dvars
  PROVE  HInv'
<1>1. IInv'
  BY Stutter DEF HInv
<1>2. UNCHANGED <<source, authors, results, wire, patches, view, uncertain, calls, applying, dialog,
                  abandoned, refused>>
  BY DEF dvars
<1>3. Unsettled' = Unsettled
  BY <1>2 DEF Unsettled
<1> QED
  BY <1>1, <1>2, <1>3, QuietHolds DEF Resting

LEMMA HarmlessByNext ==
  ASSUME HInv, [Next]_dvars
  PROVE  HInv'
<1>1. ASSUME NEW f \in Fields, NEW x \in Values, edit(f, x) \/ CommitOther(f, x) PROVE HInv'
  BY <1>1, editHolds, CommitOtherHolds
<1>2. ASSUME NEW c \in Channels, Serve(c) \/ Lose(c) \/ LookUp(c) \/ Unreadable(c) PROVE HInv'
  BY <1>2, ServeHolds, LoseHolds, LookUpHolds, UnreadableHolds
<1>3. ASSUME NEW c \in Channels, NEW how \in {"refused", "busy"}, Refuse(c, how) PROVE HInv'
  BY <1>3, RefuseHolds
<1>4. ASSUME NEW id \in Ids, ServeLate(id) \/ loadProposal(id) \/ applyProposal(id) PROVE HInv'
  BY <1>4, ServeLateHolds, loadProposalHolds, applyProposalHolds
<1>5. CASE flush \/ flushWaits \/ SaveEnds \/ discard \/ refresh
  BY <1>5, flushHolds, flushWaitsHolds, SaveEndsHolds, discardHolds, refreshHolds
<1>6. CASE ServeProposal \/ LoseProposal \/ ProposalApplied \/ ProposalNotApplied
  BY <1>6, ServeProposalHolds, LoseProposalHolds, ProposalAppliedHolds, ProposalNotAppliedHolds
<1>7. ASSUME NEW givenUp \in SUBSET Fields, Check(givenUp) PROVE HInv'
  BY <1>7, CheckHolds
<1>8. CASE Compare \/ Resolve \/ ResolveEnds \/ ResolveFails \/ CloseDialog
  BY <1>8, CompareHolds, ResolveHolds, ResolveEndsHolds, ResolveFailsHolds, CloseDialogHolds
<1>9. CASE UNCHANGED dvars
  BY <1>9, StutterHolds
<1> QED
  BY <1>1, <1>2, <1>3, <1>4, <1>5, <1>6, <1>7, <1>8, <1>9 DEF Next

(* Two proposals that are pending on the source would both be in hand: the *)
(* unsettled save replaces the one of the draft, and the dialog resolves   *)
(* what somebody else has made since.                                      *)
LEMMA OnePending ==
  ASSUME IInv, Fine(view, Unsettled),
         NEW p \in 1..Len(patches), results[p].kind = "proposal", Live(p),
         NEW q \in 1..Len(patches), results[q].kind = "proposal", Live(q)
  PROVE  p = q
<1> DEFINE s == Unsettled
           d == dialog.patch
           own == view.proposalId
<1>1. /\ p = s \/ p = d \/ p = own
      /\ q = s \/ q = d \/ q = own
  BY DEF Fine, InHand
<1>2. /\ s \in 0..Len(patches) /\ d \in 0..Len(patches) /\ own \in 0..Len(patches)
      /\ source.rev \in Nat /\ view.committed.rev \in Nat /\ Len(patches) \in Nat
  BY Sorts, UnsettledIs
<1>3. Base(p) = source.rev /\ Base(q) = source.rev /\ ~Superseded(p) /\ ~Superseded(q)
  BY DEF Live
<1>4. ASSUME s \in {p, q}, own \in {p, q} PROVE FALSE
  <2>1. s # 0 /\ patches[s].supersedes = own /\ results[s].kind # "none"
    BY <1>2, <1>4 DEF Fine, OnTop
  <2> QED
    BY <1>2, <1>3, <1>4, <2>1 DEF Superseded
<1>5. ASSUME d \in {p, q}, s \in {p, q} \/ own \in {p, q} PROVE FALSE
  <2>1. d # 0 /\ (s # 0 \/ own # 0) /\ results[d].kind = "proposal" /\ Base(d) = source.rev
    BY <1>2, <1>3, <1>5
  <2>2. Foreign(view.committed.rev, source.rev)
    BY <2>1 DEF Fine, Compares, Resting, Harmless
  <2>3. view.committed.rev < source.rev
    <3>1. PICK r \in view.committed.rev + 1 .. source.rev : TRUE
      BY <2>2 DEF Foreign
    <3> QED
      BY <1>2, <3>1
  <2>4. Base(s) = view.committed.rev \/ s \notin {p, q}
    BY <1>2 DEF Fine, OnTop
  <2>5. Base(own) = view.committed.rev \/ own \notin {p, q}
    BY <1>2 DEF Fine, Lineage
  <2> QED
    BY <1>2, <1>3, <1>5, <2>3, <2>4, <2>5
<1> QED
  BY <1>1, <1>4, <1>5

(* A lost answer costs the user nothing, under the same assumptions about  *)
(* requests that are refused and drafts that are given up.                 *)
THEOREM LossIsHarmlessHolds == Spec => []LossIsHarmless
<1>1. Init => HInv
  BY HarmlessAtFirst
<1>2. HInv /\ [Next]_dvars => HInv'
  BY HarmlessByNext
<1>3. HInv => LossIsHarmless
  <2> SUFFICES ASSUME HInv, ~abandoned, ~refused PROVE LossIsHarmless
    BY DEF LossIsHarmless, NoSelfConflict, OneProposal
  <2>1. IInv /\ Fine(view, Unsettled)
    BY DEF HInv
  <2>2. NoSelfConflict
    BY <2>1 DEF NoSelfConflict, Fine, Says, Foreign
  <2> DEFINE pending == {id \in 1..Len(patches) : /\ results[id].kind = "proposal" /\ ~Superseded(id)
                                                  /\ patches[id].base.rev = source.rev}
  <2>3. \A p, q \in pending : p = q
    <3>1. \A p \in pending : p \in 1..Len(patches) /\ results[p].kind = "proposal" /\ Live(p)
      BY DEF Live, Base
    <3> QED
      BY <2>1, <3>1, OnePending
  <2>4. Cardinality(pending) <= 1
    <3>1. CASE pending = {}
      BY <3>1, FS_EmptySet
    <3>2. CASE pending # {}
      <4>1. PICK p \in pending : TRUE
        BY <3>2
      <4>2. pending = {p}
        BY <2>3, <4>1
      <4>3. Cardinality({p}) = 1
        BY FS_Singleton
      <4> HIDE DEF pending
      <4>4. Cardinality(pending) = 1
        BY <4>2, <4>3, Zenon
      <4> QED
        BY <4>4, SMT
    <3> QED
      BY <3>1, <3>2
  <2>5. OneProposal
    BY <2>4 DEF OneProposal
  <2> QED
    BY <2>2, <2>5 DEF LossIsHarmless
<1> QED
  BY <1>1, <1>2, <1>3, PTL DEF Spec
-----------------------------------------------------------------------------
(* The server keeps the ledger                                             *)

LEMMA NoneIsNoSnapshot == None \notin Snapshots
  BY DraftBounds DEF Snapshots, Documents

(* A commit of a mutation is an application under a new version.           *)
LEMMA CommitApplies ==
  ASSUME HInv, NEW x \in 1..Len(patches), results[x].kind # "committed",
         NEW s \in Snapshots, s.rev = source.rev + 1, source' = s,
         NEW r, results' = [results EXCEPT ![x] = r], r.kind = "committed", r.snapshot = s
  PROVE  Mutation!Next
<1>1. IInv /\ Numbered /\ x \in Ids /\ results \in [Ids -> Answers]
  BY Sorts DEF HInv, IInv, Shape
<1>2. outcome[x] = None
  BY <1>1 DEF outcome
<1>3. ASSUME NEW n \in Ids PROVE outcome[n] # s
  <2>1. CASE results[n].kind # "committed"
    BY <2>1, NoneIsNoSnapshot DEF outcome
  <2>2. CASE results[n].kind = "committed"
    <3>1. n \in 1..Len(patches)
      BY <1>1, <2>2, Counts, DraftBounds DEF IInv, Named, Ids
    <3>2. results[n].snapshot.rev <= source.rev /\ source.rev \in Nat
      BY <1>1, <2>2, <3>1, Sorts DEF Numbered
    <3>3. results[n].snapshot.rev # s.rev
      BY <3>2
    <3> QED
      BY <2>2, <3>3 DEF outcome
  <2> QED
    BY <2>1, <2>2
<1>4. outcome' = [outcome EXCEPT ![x] = s]
  BY <1>1 DEF outcome
<1>5. Mutation!Apply(x, s)
  BY <1>1, <1>2, <1>3, <1>4 DEF Mutation!Apply
<1> QED
  BY <1>1, <1>5 DEF Mutation!Next

(* A request that the server handles commits, or no outcome changes.       *)
LEMMA RequestKeepsLedger ==
  ASSUME HInv, NEW x \in 1..Len(patches), NEW by, Executed(x, by)
  PROVE  [Mutation!Next]_<<source, outcome>>
<1> DEFINE v == Verdict(x)
<1>1. IInv /\ Shape /\ x \in Ids /\ results \in [Ids -> Answers]
      /\ results[x].kind \in {"none", "committed", "proposal"} /\ patches[x].sent \in Documents
  BY Sorts, PatchTyped DEF HInv, IInv, Shape
<1>2. results' = [results EXCEPT ![x] = IF v.kind \in {"committed", "proposal"} THEN v ELSE @]
      /\ IF v.kind = "committed" /\ results[x].kind # "committed"
         THEN source' = v.snapshot
         ELSE UNCHANGED source
  BY DEF Executed
<1>3. CASE v.kind = "committed" /\ results[x].kind # "committed"
  <2>1. v = Result("committed", NextRevision(patches[x].sent))
    BY <1>1, <1>3 DEF Verdict, Result
  <2>2. NextRevision(patches[x].sent) \in Snapshots
        /\ NextRevision(patches[x].sent).rev = source.rev + 1
    BY <1>1, RevisionTyped
  <2>3. v.snapshot = NextRevision(patches[x].sent)
    BY <2>1 DEF Result
  <2>4. results' = [results EXCEPT ![x] = v] /\ source' = v.snapshot
    BY <1>2, <1>3
  <2> HIDE DEF v
  <2> QED
    BY <1>3, <2>2, <2>3, <2>4, CommitApplies
<1>4. CASE ~(v.kind = "committed" /\ results[x].kind # "committed")
  <2>1. results[x].kind = "committed" => v = results[x]
    BY DEF Verdict
  <2>2. \A id \in Ids : results'[id].kind = "committed" <=> results[id].kind = "committed"
    BY <1>1, <1>2, <1>4, <2>1
  <2>3. \A id \in Ids : results[id].kind = "committed" => results'[id] = results[id]
    BY <1>1, <1>2, <1>4, <2>1
  <2>4. outcome' = outcome
    BY <2>2, <2>3 DEF outcome
  <2> QED
    BY <1>2, <1>4, <2>4
<1> QED
  BY <1>3, <1>4

LEMMA LedgerByNext ==
  ASSUME HInv, [Next]_dvars
  PROVE  [Mutation!Next]_<<source, outcome>>
<1>1. IInv /\ Shape
  BY DEF HInv, IInv
<1>2. ASSUME UNCHANGED <<source, results>> PROVE [Mutation!Next]_<<source, outcome>>
  BY <1>2 DEF outcome
<1>3. ASSUME NEW f \in Fields, NEW x \in Values, CommitOther(f, x)
      PROVE  [Mutation!Next]_<<source, outcome>>
  <2>1. [source.doc EXCEPT ![f] = x] \in Documents
    BY <1>1 DEF Shape, Snapshots, Documents
  <2>2. source' \in Snapshots
    BY <1>1, <1>3, <2>1, RevisionTyped DEF CommitOther
  <2>3. outcome' = outcome
    BY <1>3 DEF CommitOther, outcome
  <2> QED
    BY <2>2, <2>3 DEF Mutation!Next, Mutation!Edit
<1>4. ASSUME NEW c \in Channels, Serve(c) PROVE [Mutation!Next]_<<source, outcome>>
  <2>1. calls[c].id \in 1..Len(patches)
    BY <1>1, <1>4, Sorts DEF Serve, Awaits
  <2>2. Executed(calls[c].id, c)
    BY <1>4 DEF Serve
  <2> QED
    BY <2>1, <2>2, RequestKeepsLedger
<1>5. ASSUME NEW id \in Ids, ServeLate(id) PROVE [Mutation!Next]_<<source, outcome>>
  <2>1. wire[id] > 0
    BY <1>1, <1>5 DEF ServeLate, Shape
  <2>2. id \in 1..Len(patches)
    BY <1>1, <2>1, Counts, DraftBounds DEF IInv, Named, Ids
  <2>3. Executed(id, "save")
    BY <1>5 DEF ServeLate
  <2> QED
    BY <2>2, <2>3, RequestKeepsLedger
<1>6. ASSUME ServeProposal PROVE [Mutation!Next]_<<source, outcome>>
  <2>1. CASE UNCHANGED <<source, results>>
    BY <1>2, <2>1
  <2>2. CASE results[applying.id].kind = "proposal"
             /\ source' = NextRevision(patches[applying.id].sent)
             /\ results' = [results EXCEPT ![applying.id] =
                              Result("committed", NextRevision(patches[applying.id].sent))]
    <3> DEFINE s == NextRevision(patches[applying.id].sent)
    <3>1. applying.id \in 1..Len(patches)
      BY <1>1, <1>6, Sorts DEF ServeProposal
    <3>2. s \in Snapshots /\ s.rev = source.rev + 1
      BY <1>1, <3>1, PatchTyped, RevisionTyped
    <3>3. Result("committed", s).kind = "committed" /\ Result("committed", s).snapshot = s
      BY DEF Result
    <3> HIDE DEF s
    <3> QED
      BY <2>2, <3>1, <3>2, <3>3, CommitApplies DEF s
  <2> QED
    BY <1>6, <2>1, <2>2 DEF ServeProposal
<1>7. ASSUME NEW f \in Fields, NEW x \in Values, edit(f, x) PROVE UNCHANGED <<source, results>>
  BY <1>7 DEF edit, repository
<1>8. ASSUME NEW c \in Channels, Lose(c) \/ LookUp(c) \/ Unreadable(c) PROVE UNCHANGED <<source, results>>
  BY <1>8 DEF Lose, LookUp, Unreadable, repository
<1>9. ASSUME NEW c \in Channels, NEW how \in {"refused", "busy"}, Refuse(c, how)
      PROVE  UNCHANGED <<source, results>>
  BY <1>9 DEF Refuse, repository
<1>10. ASSUME NEW id \in Ids, loadProposal(id) \/ applyProposal(id) PROVE UNCHANGED <<source, results>>
  BY <1>10 DEF loadProposal, applyProposal, repository
<1>11. ASSUME flush \/ flushWaits \/ SaveEnds \/ discard \/ refresh PROVE UNCHANGED <<source, results>>
  BY <1>11 DEF flush, flushWaits, SaveEnds, discard, refresh, repository
<1>12. ASSUME LoseProposal \/ ProposalApplied \/ ProposalNotApplied PROVE UNCHANGED <<source, results>>
  BY <1>12 DEF LoseProposal, ProposalApplied, ProposalNotApplied, repository
<1>13. ASSUME NEW givenUp \in SUBSET Fields, Check(givenUp) PROVE UNCHANGED <<source, results>>
  BY <1>13 DEF Check, repository
<1>14. ASSUME Compare \/ Resolve \/ ResolveEnds \/ ResolveFails \/ CloseDialog
       PROVE  UNCHANGED <<source, results>>
  BY <1>14 DEF Compare, Resolve, ResolveEnds, ResolveFails, CloseDialog, repository
<1>15. ASSUME UNCHANGED dvars PROVE UNCHANGED <<source, results>>
  BY <1>15 DEF dvars
<1> QED
  BY <1>2, <1>3, <1>4, <1>5, <1>6, <1>7, <1>8, <1>9, <1>10, <1>11, <1>12, <1>13, <1>14, <1>15 DEF Next

(* The server that the draft meets keeps the promise which Transactions    *)
(* implements: a mutation is applied at most once, under a revision of its *)
(* own, and nothing but a commit changes the source.                       *)
THEOREM ServerImplementsLedger == Spec => ImplementsLedger
<1>1. Init => Mutation!Init
  <2> SUFFICES ASSUME Init PROVE Mutation!Init
    OBVIOUS
  <2>1. source \in Snapshots
    BY InitHolds DEF IInv, Shape
  <2>2. \A id \in Ids : results[id].kind = "none"
    BY DEF Init, Nothing
  <2> QED
    BY <2>1, <2>2 DEF Mutation!Init, outcome
<1>2. Init => HInv
  BY HarmlessAtFirst
<1>3. HInv /\ [Next]_dvars => HInv'
  BY HarmlessByNext
<1>4. HInv /\ [Next]_dvars => [Mutation!Next]_<<source, outcome>>
  BY LedgerByNext
<1> QED
  BY <1>1, <1>2, <1>3, <1>4, PTL DEF Spec, ImplementsLedger, Mutation!Spec
=============================================================================

------------------------------- MODULE Review -------------------------------
(***************************************************************************)
(* The review ledger of deployment.yaml (packages/core): acknowledgments,  *)
(* waivers, approvals, revocations and the invalidations that core keeps   *)
(* itself.  Whether an approval counts as current is never stored: it is   *)
(* assessed from the ledger, the planning content, the rules of the tool   *)
(* that asks and the evidence it finds on disk (approvalDetails).  What    *)
(* may not come back is stored: finishMutation writes an invalidation when *)
(* the selected approval lost its ground before the mutation, through it,  *)
(* or earlier in the same session.                                         *)
(*                                                                         *)
(* Each commit is one step here; that commits of several sessions exclude  *)
(* each other and follow on the last revision is what Transactions shows.  *)
(***************************************************************************)
EXTENDS Integers, Sequences, FiniteSets

CONSTANTS
  Sessions,      \* open project sessions, each of some tool
  Plans,         \* what the planning collections may say
  OpenIssue,     \* the plans with an owned open issue, which is a warning
  Rules,         \* rule set versions of the tools at hand
  FirstRules,    \* the version every session starts with
  None,
  MaxRevisions,  \* bound on the revisions, the first one included
  MaxApprovals,  \* bound on the decisions
  MaxTurns       \* bound on what happens outside: edits, evidence, tools

(* What the constants are taken to be.                                     *)
ReviewAssumption ==
  /\ OpenIssue \subseteq Plans /\ FirstRules \in Rules
  /\ None \notin Plans \cup Sessions /\ Plans # {}
  /\ MaxRevisions \in Nat \ {0} /\ MaxApprovals \in Nat /\ MaxTurns \in Nat

VARIABLES
  source,     \* deployment.yaml: its content and its review ledger
  revisions,  \* the history: what every commit made
  writer,     \* the session and the scope of the last commit
  present,    \* the planning attachment is on disk with its declared hash
  rules,      \* the rule set version of each session's tool
  observed,   \* per session, the approvals it saw invalid (EvaluationState)
  turns

rvars == <<source, revisions, writer, present, rules, observed, turns>>

(* A deployment: the plan, whether a required verification of it rests on  *)
(* the attachment, and whether the decision-only evidence is recorded.     *)
Content == [plan : Plans, required : BOOLEAN, note : BOOLEAN]

(* planningHash: the projection leaves decision-only evidence out.         *)
planningHash(c) == [plan |-> c.plan, required |-> c.required]

(* A finding is what its fingerprint is made of; rules say what it is.     *)
Findings(c, at, version) ==
  LET f(rule) == [rule |-> rule, version |-> version] IN
    (IF c.plan \in OpenIssue THEN {f("RP-071")} ELSE {})
    \cup (IF ~at THEN {f("RP-061")} ELSE {})
    \cup (IF c.required /\ ~at THEN {f("RP-062")} ELSE {})
Warning(f)  == f.rule \in {"RP-071", "RP-061"}
Waivable(f) == f.rule = "RP-061"

-----------------------------------------------------------------------------
(* review-validity.ts and rules/review-records.ts                          *)

matchesAcknowledgment(a, f, c) ==
  Warning(f) /\ a.planning = planningHash(c) /\ a.finding = f

(* A waiver may rest on decision evidence, which must still be recorded.   *)
matchesWaiver(w, f, c) ==
  Waivable(f) /\ matchesAcknowledgment(w, f, c) /\ (w.cites => c.note)

Decided(f, a, c) ==
  \/ \E k \in a.acks : matchesAcknowledgment(k, f, c)
  \/ \E w \in a.waivers : matchesWaiver(w, f, c)

(* The reasons for which approvalDetails calls decision i of s stale.      *)
Reasons(s, i, at, version) ==
  LET a == s.review.approvals[i]
      c == s.content
      F == Findings(c, at, version)
  IN (IF i \in s.review.invalidated THEN {"invalidated"} ELSE {})
     \cup (IF a.planning # planningHash(c) THEN {"planning-content-changed"} ELSE {})
     \cup (IF a.ruleSet # version THEN {"rule-context-changed"} ELSE {})
     \cup (IF \E f \in F : f.rule = "RP-062" THEN {"required-evidence-changed"} ELSE {})
     \cup (IF /\ a.decision = "approved"
              /\ \E f \in F : ~Warning(f) \/ ~Decided(f, a, c)
             THEN {"validation-blocked"} ELSE {})

Material(reasons) ==
  reasons \cap {"planning-content-changed", "rule-context-changed", "required-evidence-changed"} # {}

approvalStatus(s, at, version) ==
  LET i == s.review.current IN
  CASE i = 0                            -> "none"
    [] i # 0 /\ i \in s.review.revoked  -> "revoked"
    [] i # 0 /\ i \notin s.review.revoked ->
         IF Reasons(s, i, at, version) # {} THEN "stale" ELSE s.review.approvals[i].decision

StatusFor(p) == approvalStatus(source, present, rules[p])

(* recordObservations: what this session's snapshot shows of the decision. *)
Seen(p) ==
  LET i == source.review.current IN
  IF i # 0 /\ i \notin source.review.revoked /\ Material(Reasons(source, i, present, rules[p]))
    THEN observed[p] \cup {i} ELSE observed[p]

-----------------------------------------------------------------------------
(* mutation-common.ts                                                      *)

(* Mutant: only the source is assessed, not what the mutation makes of it. *)
LostByBefore(p, before, candidate) ==
  LET i == before.review.current IN
  /\ i # 0 /\ i \notin before.review.invalidated \cup before.review.revoked
  /\ (Material(Reasons(before, i, present, rules[p])) \/ i \in observed[p])

(* Whether the selected decision lost its ground.  The assessment of the   *)
(* candidate is made with the selection as it was.                         *)
LostBy(p, before, candidate) ==
  LET i == before.review.current IN
  /\ i # 0 /\ i \notin before.review.invalidated \cup before.review.revoked
  /\ \/ Material(Reasons(before, i, present, rules[p]))
     \/ i \notin candidate.review.revoked /\ Material(Reasons(candidate, i, present, rules[p]))
     \/ i \in Seen(p)

(* finishMutation, and the commit of what it made.                         *)
finishMutation(p, scope, before, candidate) ==
  LET invalidated == candidate.review.invalidated
        \cup (IF LostBy(p, before, candidate) THEN {before.review.current} ELSE {})
  IN /\ Len(revisions) < MaxRevisions
     /\ source' = [candidate EXCEPT !.review.invalidated = invalidated]
     /\ revisions' = Append(revisions, [content |-> candidate.content, at |-> present,
                                        ruleSet |-> rules[p]])
     /\ writer' = [by |-> p, scope |-> scope]
     /\ observed' = [observed EXCEPT ![p] = Seen(p)]
     /\ UNCHANGED <<present, rules, turns>>

Recorded == revisions[Len(revisions)].content

(* assertMutationBase, and #checkExternal before it: the session works on  *)
(* the source it registered last.                                          *)
OnBase == source.content = Recorded

(* checkRecordPermissions: required verification and decision evidence are *)
(* protected.                                                              *)
Permitted(scope, before, after) ==
  (before.required = after.required /\ before.note = after.note) \/ scope = "decisions"

Scopes == {"author", "decisions"}

-----------------------------------------------------------------------------
(* The mutations                                                           *)

(* patches.ts: an authored change.                                         *)
evaluatePatch(p, scope, c) ==
  /\ OnBase /\ c # source.content /\ Permitted(scope, source.content, c)
  /\ finishMutation(p, scope, source, [source EXCEPT !.content = c])

(* restore.ts: the content of an earlier revision under the ledger of now. *)
evaluateRestore(p, scope, i) ==
  /\ OnBase /\ i < Len(revisions) /\ revisions[i].content # source.content
  /\ Permitted(scope, source.content, revisions[i].content)
  /\ finishMutation(p, scope, source, [source EXCEPT !.content = revisions[i].content])

(* external-edits.ts: the same evaluation, of the bytes an editor left     *)
(* against the content recorded last.                                      *)
reconcile(p, scope) ==
  /\ ~OnBase /\ Permitted(scope, Recorded, source.content)
  /\ finishMutation(p, scope, [source EXCEPT !.content = Recorded], source)

(* reviews.ts, acknowledge: a person accepts an applicable warning.        *)
acknowledge(p, f) ==
  LET a == [finding |-> f, planning |-> planningHash(source.content)] IN
  /\ OnBase /\ Warning(f) /\ a \notin source.review.acks
  /\ finishMutation(p, "decisions", source, [source EXCEPT !.review.acks = @ \cup {a}])

(* waive: with or without the decision evidence.                           *)
waive(p, f, cites) ==
  LET w == [finding |-> f, planning |-> planningHash(source.content), cites |-> cites] IN
  /\ OnBase /\ Waivable(f) /\ w \notin source.review.waivers
  /\ cites => source.content.note
  /\ finishMutation(p, "decisions", source, [source EXCEPT !.review.waivers = @ \cup {w}])

(* revoke: any approval of the ledger, also a historical one.              *)
revoke(p, i) ==
  /\ OnBase /\ i \notin source.review.revoked
  /\ finishMutation(p, "decisions", source, [source EXCEPT !.review.revoked = @ \cup {i}])

(* approve: the warning decisions it names bind applicable findings; an    *)
(* approval needs every warning decided among them and no blocker.         *)
approve(p, decision, acks, waivers) ==
  LET c == source.content
      F == Findings(c, present, rules[p])
      a == [decision |-> decision, planning |-> planningHash(c), ruleSet |-> rules[p],
            base |-> Len(revisions), acks |-> acks, waivers |-> waivers]
  IN /\ OnBase /\ Len(source.review.approvals) < MaxApprovals
     /\ \A k \in acks : \E f \in F : matchesAcknowledgment(k, f, c)
     /\ \A w \in waivers : \E f \in F : matchesWaiver(w, f, c)
     /\ decision = "approved" => \A f \in F : Warning(f) /\ Decided(f, a, c)
     /\ finishMutation(p, "decisions", source,
          [source EXCEPT !.review.approvals = Append(@, a),
                         !.review.current = Len(source.review.approvals) + 1])

(* A snapshot is read and shown; nothing is written.                       *)
read(p) ==
  /\ Seen(p) # observed[p]
  /\ observed' = [observed EXCEPT ![p] = Seen(p)]
  /\ UNCHANGED <<source, revisions, writer, present, rules, turns>>

-----------------------------------------------------------------------------
(* Outside the tool                                                        *)

Turn == turns < MaxTurns /\ turns' = turns + 1

(* An editor changes the plan or drops an obligation.  Hand edits of the   *)
(* ledger are refused by reconciliation and left out.                      *)
EditSource(c) ==
  /\ Turn /\ c # source.content /\ c.note = source.content.note
  /\ source' = [source EXCEPT !.content = c]
  /\ UNCHANGED <<revisions, writer, present, rules, observed>>

(* The attachment is lost, or put back.                                    *)
MoveAttachment ==
  /\ Turn /\ present' = ~present
  /\ UNCHANGED <<source, revisions, writer, rules, observed>>

(* The session ends; the next one may be of a tool with other rules.       *)
Reopen(p, version) ==
  /\ rules[p] # version \/ observed[p] # {}
  /\ Turn /\ rules' = [rules EXCEPT ![p] = version]
  /\ observed' = [observed EXCEPT ![p] = {}]
  /\ UNCHANGED <<source, revisions, writer, present>>

Init ==
  \E c \in Content :
    /\ c.plan \notin OpenIssue /\ c.required /\ ~c.note
    /\ source = [content |-> c,
                 review |-> [acks |-> {}, waivers |-> {}, approvals |-> <<>>, revoked |-> {},
                             invalidated |-> {}, current |-> 0]]
    /\ revisions = <<[content |-> c, at |-> TRUE, ruleSet |-> FirstRules]>>
    /\ writer = [by |-> None, scope |-> "decisions"]
    /\ present = TRUE /\ rules = [p \in Sessions |-> FirstRules]
    /\ observed = [p \in Sessions |-> {}] /\ turns = 0

Decide(p) ==
  \/ \E f \in Findings(source.content, present, rules[p]) :
       acknowledge(p, f) \/ \E cites \in BOOLEAN : waive(p, f, cites)
  \/ \E i \in 1..Len(source.review.approvals) : revoke(p, i)
  \/ \E decision \in {"approved", "rejected"}, acks \in SUBSET source.review.acks,
        waivers \in SUBSET source.review.waivers : approve(p, decision, acks, waivers)

Next ==
  \/ \E p \in Sessions :
       \/ \E scope \in Scopes, c \in Content : evaluatePatch(p, scope, c)
       \/ \E scope \in Scopes, i \in 1..MaxRevisions : evaluateRestore(p, scope, i)
       \/ \E scope \in Scopes : reconcile(p, scope)
       \/ Decide(p)
       \/ read(p)
       \/ \E version \in Rules : Reopen(p, version)
  \/ \E c \in Content : EditSource(c)
  \/ MoveAttachment

Spec == Init /\ [][Next]_rvars
-----------------------------------------------------------------------------
(* Types: a decision refers to an approval of the ledger, and an approval  *)
(* to a revision of the history.                                           *)
TypeOK ==
  LET Made == 1..Len(source.review.approvals) IN
  /\ source.content \in Content /\ present \in BOOLEAN /\ turns \in 0..MaxTurns
  /\ writer \in [by : Sessions \cup {None}, scope : Scopes]
  /\ rules \in [Sessions -> Rules] /\ observed \in [Sessions -> SUBSET Made]
  /\ Len(revisions) \in 1..MaxRevisions
  /\ source.review.revoked \cup source.review.invalidated \subseteq Made
  /\ source.review.current \in Made \cup {0}
  /\ \A i \in Made : source.review.approvals[i].base \in 1..(Len(revisions) - 1)

(* An approval that any tool shows as current was given on this planning   *)
(* content, and every revision recorded since had the same content, was    *)
(* recorded under the same rules and with the required evidence in place:  *)
(* nothing that changed and was changed back, restored or reconciled makes *)
(* an approval current again.                                              *)
CurrentAsReviewed ==
  \A p \in Sessions : StatusFor(p) = "approved" =>
    LET a == source.review.approvals[source.review.current]
    IN /\ planningHash(revisions[a.base].content) = a.planning
       /\ \A i \in (a.base + 1)..Len(revisions) :
            /\ planningHash(revisions[i].content) = a.planning
            /\ revisions[i].ruleSet = a.ruleSet
            /\ revisions[i].content.required => revisions[i].at

(* Required obligations leave the recorded content only under the scope to *)
(* record decisions, whether they are patched away, restored away or       *)
(* edited away and reconciled.                                             *)
ObligationsKept == Recorded.required /\ ~(Recorded').required => writer'.scope = "decisions"

(* An approval is current as soon as it is recorded: the gate of approve   *)
(* and the assessment of approvalDetails agree, and neither the decision   *)
(* itself nor the one it replaces stands in its way.                       *)
ApprovalTakes ==
  \A p \in Sessions :
    /\ Len(source'.review.approvals) > Len(source.review.approvals)
    /\ writer'.by = p
    /\ source'.review.approvals[source'.review.current].decision = "approved"
    => StatusFor(p)' = "approved"

(* What a running session saw invalid it records with its next commit: the *)
(* approval is not current in any revision that session writes.            *)
SeenIsRecorded ==
  \A p \in Sessions :
    /\ Len(revisions') > Len(revisions) /\ writer'.by = p
    /\ StatusFor(p)' = "approved"
    => source'.review.current \notin observed[p]

(* The strengthening that makes these inductive: what a ledger consists of *)
(* and what the history says of an approval that nobody took back.         *)
Projection == [plan : Plans, required : BOOLEAN]
Finding    == [rule : {"RP-071", "RP-061", "RP-062"}, version : Rules]
Ack        == [finding : Finding, planning : Projection]
Waiver     == [finding : Finding, planning : Projection, cites : BOOLEAN]
Approval   == [decision : {"approved", "rejected"}, planning : Projection, ruleSet : Rules,
               base : Nat, acks : SUBSET Ack, waivers : SUBSET Waiver]
Ledger     == [acks : SUBSET Ack, waivers : SUBSET Waiver, approvals : Seq(Approval),
               revoked : SUBSET Nat, invalidated : SUBSET Nat, current : Nat]
Revision   == [content : Content, at : BOOLEAN, ruleSet : Rules]

Typed == source \in [content : Content, review : Ledger] /\ revisions \in Seq(Revision)

(* Whatever the source, the rules or the disk show at the moment: every    *)
(* commit since the approval kept its ground, or took it back.             *)
Grounded ==
  LET k == source.review.current
      a == source.review.approvals[k]
  IN /\ k # 0 /\ k \notin source.review.revoked \cup source.review.invalidated
     /\ a.decision = "approved"
     => /\ planningHash(revisions[a.base].content) = a.planning
        /\ \A i \in (a.base + 1)..Len(revisions) :
             /\ planningHash(revisions[i].content) = a.planning
             /\ revisions[i].ruleSet = a.ruleSet
             /\ revisions[i].content.required => revisions[i].at

ReviewInv == Typed /\ TypeOK /\ Grounded
=============================================================================

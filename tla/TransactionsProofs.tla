------------------------- MODULE TransactionsProofs -------------------------
(* Proofs about Transactions, for any number of sessions, mutations,       *)
(* revisions, external edits, crashes and I/O errors.                      *)
EXTENDS Transactions, FiniteSetTheorems, TLAPS

(* What the invariant says of the files, apart from who works on them.     *)
Data == /\ DirectoryShape /\ RevisionsDistinct /\ SourceInstalled
        /\ HistoryChain /\ EvidenceInPlace

data == <<source, txn, history>>

(* A session that works is the only one: it has the lease.                 *)
LEMMA Alone ==
  ASSUME TypeOK, NEW p \in Sessions, NEW q \in Sessions, pc[p] # "idle", q # p
  PROVE  pc[q] = "idle"
BY DEF TypeOK

(* While the lease is free nobody works.                                  *)
LEMMA AllIdle ==
  ASSUME TypeOK, lease = Free, NEW q \in Sessions
  PROVE  pc[q] = "idle"
BY DistinctAssumption DEF TypeOK

(* So after a step of p only p has to be shown in order.                   *)
LEMMA OrderOfWorker ==
  ASSUME NEW p \in Sessions, InOrder(p)', \A q \in Sessions \ {p} : pc'[q] = "idle"
  PROVE  JobInOrder'
<1> SUFFICES ASSUME NEW q \in Sessions, q # p PROVE InOrder(q)'
  BY DEF JobInOrder
<1>1. pc'[q] = "idle"
  OBVIOUS
<1> QED
  BY <1>1 DEF InOrder, HistoryStages

(* The lease is handed on as the stage tells.                              *)
LEMMA OthersStayIdle ==
  ASSUME TypeOK, NEW p \in Sessions, NEW stage, pc[p] # "idle" \/ lease = Free,
         Goto(p, stage)
  PROVE  /\ \A q \in Sessions \ {p} : pc'[q] = "idle"
         /\ pc'[p] = stage
BY Alone, AllIdle DEF TypeOK, Goto

(* Leaving a job, for good or for the next entry of recover().             *)
LEMMA LeaveKeeps ==
  ASSUME TypeOK, NEW p \in Sessions, pc[p] # "idle", Leave(p)
  PROVE  /\ JobInOrder'
         /\ lease' \in Sessions \cup {Free, Orphaned}
         /\ pc' \in [Sessions -> Stages]
         /\ job' \in [Sessions -> Mutations \cup {None}]
         /\ todo' \in [Sessions -> SUBSET Mutations]
         /\ \A q \in Sessions : pc'[q] # "idle" => lease' = q
<1>1. \E stage \in {"idle", "recovering"} : Goto(p, stage)
  BY DEF Leave
<1>2. \A q \in Sessions \ {p} : pc'[q] = "idle"
  BY <1>1, OthersStayIdle
<1>3. pc'[p] \in {"idle", "recovering"}
  BY <1>1, OthersStayIdle
<1>4. JobInOrder'
  <2>1. InOrder(p)'
    BY <1>3 DEF InOrder, HistoryStages
  <2> QED
    BY <1>2, <2>1, OrderOfWorker
<1>5. CASE todo[p] = {}
  BY <1>4, <1>5, Alone DEF Leave, Lock!Release, Goto, TypeOK, Stages
<1>6. CASE todo[p] # {}
  BY <1>4, <1>6, Alone DEF Leave, Goto, TypeOK, Stages
<1> QED
  BY <1>5, <1>6

(* What only depends on the files stays with them.                         *)
LEMMA DataFrame == ASSUME Data, UNCHANGED data PROVE Data'
BY DEF Data, data, DirectoryShape, Shape, RevisionsDistinct, SourceInstalled, HistoryChain,
       Chained, EvidenceInPlace, Registered, Installed, Prepared, Yaml, Json
(* The baselines a session can end up with are versions.                   *)
LEMMA HeadTyped ==
  ASSUME TypeOK, Cardinality(Heads) = 1
  PROVE  HeadVersion \in Versions
<1>1. Heads # {}
  BY FS_EmptySet
<1>2. (CHOOSE r \in Heads : TRUE) \in Registered
  BY <1>1 DEF Heads
<1> QED
  BY <1>2 DEF HeadVersion, Registered, TypeOK, Entries

(* knownBaseline finds a version.                                         *)
LEMMA KnownTyped ==
  ASSUME TypeOK, source # Unreadable
  PROVE  KnownBaseline \in Versions \cup {None}
<1>1. source \in Versions /\ source.rev \in Revisions
  BY DEF TypeOK, Versions
<1>2. source.rev \in Registered => Json(source.rev).version \in Versions
  BY DEF Registered, TypeOK, Entries
<1> QED
  BY <1>1, <1>2, HeadTyped DEF KnownBaseline

(* #checkExternal leaves a version, or none.                              *)
LEMMA CheckTyped ==
  ASSUME TypeOK, source # Unreadable, NEW p \in Sessions
  PROVE  Check(p).baseline \in Versions \cup {None}
<1>1. source \in Versions /\ baseline[p] \in Versions \cup {None}
  BY DEF TypeOK
<1>2. source.rev \in Registered => Json(source.rev).version \in Versions
  BY DEF Registered, TypeOK, Entries
<1> QED
  BY <1>1, <1>2, HeadTyped DEF Check

(* What finalizeHistory writes, and where.                                 *)
LEMMA WriteTyped ==
  ASSUME TypeOK, DirectoryShape, NEW p \in Sessions, InOrder(p), pc[p] \in HistoryStages
  PROVE  /\ job[p] \in Mutations /\ job[p] \in Installed
         /\ txn[job[p]].prior \in Versions /\ txn[job[p]].next \in Versions
         /\ txn[job[p]].prior.rev \in Revisions /\ txn[job[p]].next.rev \in Revisions
         /\ Target(p) \in Files
         /\ Target(p) = <<Target(p)[1], "yaml">> =>
              Content(p) \in Versions /\ Content(p).rev = Target(p)[1]
         /\ Target(p) = <<Target(p)[1], "json">> =>
              Content(p) \in Entries /\ Content(p).version.rev = Target(p)[1]
         /\ Target(p)[1] \in Revisions
         /\ Target(p) = <<Target(p)[1], "yaml">> \/ Target(p) = <<Target(p)[1], "json">>
<1>1. job[p] \in Mutations /\ job[p] \in Installed
  BY DEF InOrder, HistoryStages
<1>2. txn[job[p]].prior \in Versions /\ txn[job[p]].next \in Versions
  BY <1>1 DEF DirectoryShape, Shape, Installed, Prepared
<1>3. txn[job[p]].prior.rev \in Revisions /\ txn[job[p]].next.rev \in Revisions
  BY <1>2 DEF Versions
<1>4. CASE pc[p] = "baseYaml"
  BY <1>1, <1>2, <1>3, <1>4 DEF Target, Content, Files
<1>5. CASE pc[p] = "baseJson"
  BY <1>1, <1>2, <1>3, <1>5 DEF Target, Content, Files, Entries
<1>6. CASE pc[p] = "nextYaml"
  BY <1>1, <1>2, <1>3, <1>6 DEF Target, Content, Files
<1>7. CASE pc[p] = "nextJson"
  BY <1>1, <1>2, <1>3, <1>7 DEF Target, Content, Files, Entries
<1> QED
  BY <1>4, <1>5, <1>6, <1>7 DEF HistoryStages

(* A record of a version or of metadata is none of the marks.              *)
LEMMA WholeIsNotMark ==
  /\ \A v \in Versions : v # None
  /\ \A e \in Entries : e # None /\ e # Torn
BY DistinctAssumption DEF Versions, Entries

(* What is whole in the history stays as it is, whatever is written.       *)
LEMMA HistoryGrows ==
  ASSUME TypeOK, DirectoryShape, NEW p \in Sessions, InOrder(p), pc[p] \in HistoryStages,
         NEW c \in {Content(p), Torn},
         history[Target(p)] = None \/ (c = Content(p) /\ history[Target(p)] = c),
         history' = [history EXCEPT ![Target(p)] = c]
  PROVE  /\ history' \in [Files -> Versions \cup Entries \cup {None, Torn}]
         /\ \A r \in Revisions : /\ Yaml(r)' \in Versions \cup {None, Torn}
                                 /\ Json(r)' \in Entries \cup {None, Torn}
         /\ \A r \in Revisions : /\ Yaml(r) # None => Yaml(r)' = Yaml(r)
                                 /\ Json(r) # None => Json(r)' = Json(r)
<1> DEFINE k == Target(p)[1]
<1>1. /\ Target(p) \in Files /\ k \in Revisions
      /\ Target(p) = <<k, "yaml">> => Content(p) \in Versions
      /\ Target(p) = <<k, "json">> => Content(p) \in Entries
      /\ Target(p) = <<k, "yaml">> \/ Target(p) = <<k, "json">>
  BY WriteTyped
<1>2. history' \in [Files -> Versions \cup Entries \cup {None, Torn}]
  BY <1>1 DEF TypeOK
<1>3. \A f \in Files : history[f] # None => history'[f] = history[f]
  BY <1>1 DEF TypeOK
<1>4. \A r \in Revisions : <<r, "yaml">> \in Files /\ <<r, "json">> \in Files
  BY DEF Files
<1>5. \A r \in Revisions : Yaml(r)' \in Versions \cup {None, Torn}
  <2> SUFFICES ASSUME NEW r \in Revisions PROVE history'[<<r, "yaml">>] \in Versions \cup {None,
       Torn}
    BY DEF Yaml
  <2>1. CASE <<r, "yaml">> = Target(p)
    BY <1>1, <2>1 DEF TypeOK
  <2>2. CASE <<r, "yaml">> # Target(p)
    BY <1>1, <1>4, <2>2 DEF TypeOK, Yaml
  <2> QED
    BY <2>1, <2>2
<1>6. \A r \in Revisions : Json(r)' \in Entries \cup {None, Torn}
  <2> SUFFICES ASSUME NEW r \in Revisions PROVE history'[<<r, "json">>] \in Entries \cup {None,
       Torn}
    BY DEF Json
  <2>1. CASE <<r, "json">> = Target(p)
    BY <1>1, <2>1 DEF TypeOK
  <2>2. CASE <<r, "json">> # Target(p)
    BY <1>1, <1>4, <2>2 DEF TypeOK, Json
  <2> QED
    BY <2>1, <2>2
<1> QED
  BY <1>2, <1>3, <1>4, <1>5, <1>6 DEF Yaml, Json

(* Everything but the chain itself is then kept at once.                   *)
LEMMA GrowthKeepsShape ==
  ASSUME DirectoryShape, RevisionsDistinct, SourceInstalled, EvidenceInPlace,
         UNCHANGED <<source, txn>>,
         \A r \in Revisions : Json(r) # None => Json(r)' = Json(r)
  PROVE  /\ DirectoryShape' /\ RevisionsDistinct' /\ SourceInstalled' /\ EvidenceInPlace'
<1>1. DirectoryShape'
  <2> SUFFICES ASSUME NEW m \in Mutations PROVE Shape(m)'
    BY DEF DirectoryShape
  <2>1. Shape(m)
    BY DEF DirectoryShape
  <2>2. txn[m].marker = "whole" => Json(txn[m].next.rev)' = [version |-> txn[m].next, by |-> m]
    <3> SUFFICES ASSUME txn[m].marker = "whole"
                 PROVE  Json(txn[m].next.rev)' = [version |-> txn[m].next, by |-> m]
      OBVIOUS
    <3>1. txn[m].stage # "none" /\ txn[m].next \in Versions
      BY <2>1 DEF Shape
    <3>2. [version |-> txn[m].next, by |-> m] # None
      BY <3>1, WholeIsNotMark DEF Entries
    <3> QED
      BY <2>1, <3>1, <3>2 DEF Shape, Versions
  <2> QED
    BY <2>1, <2>2 DEF Shape
<1>2. RevisionsDistinct' /\ SourceInstalled' /\ EvidenceInPlace'
  BY DEF RevisionsDistinct, SourceInstalled, EvidenceInPlace, Installed, Prepared
<1> QED
  BY <1>1, <1>2

(* A link of the chain that is there stays linked.                         *)
LEMMA LinkKept ==
  ASSUME TypeOK, DirectoryShape, HistoryChain, UNCHANGED txn, NEW r \in Registered,
         \A q \in Revisions : /\ Yaml(q) # None => Yaml(q)' = Yaml(q)
                              /\ Json(q) # None => Json(q)' = Json(q)
  PROVE  Chained(r)'
<1>1. r \in Revisions /\ Json(r) \in Entries /\ Json(r)' = Json(r) /\ Chained(r)
  BY DEF Registered, TypeOK, HistoryChain
<1>2. Json(r).version \in Versions
  BY <1>1 DEF Entries
<1>3. Yaml(r)' = Yaml(r)
  BY <1>1, <1>2, WholeIsNotMark DEF Chained
<1>4. CASE Json(r).by = None
  BY <1>1, <1>3, <1>4 DEF Chained
<1>5. CASE Json(r).by # None
  <2>1. Json(r).by \in Installed /\ Json(r).by \in Mutations
    BY <1>1, <1>5 DEF Chained, Installed, Prepared
  <2>2. txn[Json(r).by].prior.rev \in Revisions
    BY <2>1 DEF Installed, Prepared, DirectoryShape, Shape, Versions
  <2> QED
    BY <1>1, <1>3, <1>5, <2>1, <2>2 DEF Chained, Installed, Prepared
<1> QED
  BY <1>4, <1>5

(* immutable() of finalizeHistory lengthens the chain by whole links.      *)
LEMMA WriteKeepsChain ==
  ASSUME TypeOK, DirectoryShape, HistoryChain, NEW p \in Sessions, InOrder(p),
         pc[p] \in HistoryStages, UNCHANGED txn,
         history[Target(p)] \in {None, Content(p)},
         history' = [history EXCEPT ![Target(p)] = Content(p)]
  PROVE  HistoryChain'
<1>1. \A q \in Revisions : /\ Yaml(q) # None => Yaml(q)' = Yaml(q)
                           /\ Json(q) # None => Json(q)' = Json(q)
  BY HistoryGrows
<1> SUFFICES ASSUME NEW r \in Revisions, r \in Registered', r \notin Registered
             PROVE  Chained(r)'
  BY <1>1, LinkKept DEF HistoryChain, Registered
<1>2. /\ job[p] \in Installed /\ Target(p) \in Files
      /\ txn[job[p]].prior \in Versions /\ txn[job[p]].next \in Versions
      /\ txn[job[p]].prior.rev \in Revisions /\ txn[job[p]].next.rev \in Revisions
  BY WriteTyped
<1>3. <<r, "json">> = Target(p) /\ Json(r)' = Content(p)
  <2>1. <<r, "json">> \in Files
    BY DEF Files
  <2>2. Json(r) \in {None, Torn} /\ Json(r)' \notin {None, Torn}
    BY DEF Registered
  <2> QED
    BY <2>1, <2>2, <1>2 DEF Json, TypeOK
<1>4. CASE pc[p] = "baseJson"
  <2>1. /\ r = txn[job[p]].prior.rev
        /\ Content(p) = [version |-> txn[job[p]].prior, by |-> None]
    BY <1>3, <1>4 DEF Target, Content
  <2>2. Yaml(r) = txn[job[p]].prior
    BY <2>1, <1>4 DEF InOrder
  <2>3. Yaml(r)' = Yaml(r)
    BY <2>2, <1>1, <1>2, WholeIsNotMark
  <2> QED
    BY <1>3, <2>1, <2>2, <2>3 DEF Chained
<1>5. CASE pc[p] = "nextJson"
  <2>1. /\ r = txn[job[p]].next.rev
        /\ Content(p) = [version |-> txn[job[p]].next, by |-> job[p]]
    BY <1>3, <1>5 DEF Target, Content
  <2>2. Yaml(r) = txn[job[p]].next /\ Json(txn[job[p]].prior.rev) # None
    BY <2>1, <1>5 DEF InOrder
  <2>3. PICK m \in Mutations : m = job[p]
    BY <1>2 DEF Installed, Prepared
  <2>4. PICK q \in Revisions : q = txn[m].prior.rev
    BY <1>2, <2>3
  <2>5. Yaml(r)' = txn[m].next
    BY <2>2, <2>3, <1>1, <1>2, WholeIsNotMark
  <2>6. Json(q)' # None
    BY <2>2, <2>3, <2>4, <1>1
  <2>7. Json(r)' = [version |-> txn[m].next, by |-> m]
    BY <1>3, <2>1, <2>3
  <2> QED
    BY <1>2, <2>3, <2>4, <2>5, <2>6, <2>7 DEF Chained, Installed, Prepared
<1> QED
  BY <1>3, <1>4, <1>5 DEF HistoryStages, Target

(* An interrupted immutable() leaves the chain as it was.                  *)
LEMMA TearKeepsChain ==
  ASSUME TypeOK, DirectoryShape, HistoryChain, NEW p \in Sessions, InOrder(p),
         pc[p] \in HistoryStages, UNCHANGED txn,
         history[Target(p)] = None,
         history' = [history EXCEPT ![Target(p)] = Torn]
  PROVE  HistoryChain'
<1>1. \A q \in Revisions : /\ Yaml(q) # None => Yaml(q)' = Yaml(q)
                           /\ Json(q) # None => Json(q)' = Json(q)
  BY HistoryGrows
<1>2. \A r \in Revisions : Json(r) \in {None, Torn} => Json(r)' \in {None, Torn}
  BY WriteTyped DEF Json, TypeOK, Files
<1> QED
  BY <1>1, <1>2, LinkKept DEF HistoryChain, Registered

(* A later stage of one directory keeps what was established about it.     *)
LEMMA DirectoryUpdated ==
  ASSUME TypeOK, Data, NEW m \in Mutations, NEW t \in Directories,
         txn[m].stage # "none", t.stage # "none",
         t.prior = txn[m].prior, t.next = txn[m].next,
         txn' = [txn EXCEPT ![m] = t], UNCHANGED history,
         m \in Installed => t.stage = "prepared" /\ ~t.candidate,
         t.stage = "prepared" /\ ~t.candidate => t.evidence = "published",
         Shape(m)',
         source' = source \/ (source' = t.next /\ t.stage = "prepared" /\ ~t.candidate)
  PROVE  txn' \in [Mutations -> Directories] /\ Data'
<1>1. /\ txn' \in [Mutations -> Directories] /\ txn'[m] = t
      /\ \A n \in Mutations \ {m} : txn'[n] = txn[n]
  BY DEF TypeOK
<1>2. \A n \in Mutations : /\ txn'[n].prior = txn[n].prior /\ txn'[n].next = txn[n].next
                           /\ txn'[n].stage # "none" <=> txn[n].stage # "none"
  BY <1>1
<1>3. Installed \subseteq Installed'
  BY <1>1 DEF Installed, Prepared
<1>4. DirectoryShape'
  <2> SUFFICES ASSUME NEW n \in Mutations, n # m PROVE Shape(n)'
    BY DEF DirectoryShape
  <2>1. Shape(n)
    BY DEF Data, DirectoryShape
  <2> QED
    BY <1>1, <2>1 DEF Shape, Json
<1>5. RevisionsDistinct'
  BY <1>2 DEF Data, RevisionsDistinct
<1>6. SourceInstalled'
  <2>1. source # Unreadable =>
          \/ source.rev = FirstRevision
          \/ \E n \in Mutations : n \in Installed /\ source.rev = txn[n].next.rev
    BY DEF Data, SourceInstalled, Installed, Prepared
  <2>2. CASE source' = source
    BY <1>2, <1>3, <2>1, <2>2 DEF Data, SourceInstalled
  <2>3. CASE source' = t.next /\ t.stage = "prepared" /\ ~t.candidate
    <3>1. m \in Installed'
      BY <1>1, <2>3 DEF Installed, Prepared
    <3> QED
      BY <1>1, <1>2, <2>3, <3>1 DEF Data, SourceInstalled
  <2> QED
    BY <2>2, <2>3
<1>7. HistoryChain'
  <2> SUFFICES ASSUME NEW r \in Registered PROVE Chained(r)'
    BY DEF HistoryChain, Registered, Json
  <2>1. Chained(r) /\ Yaml(r)' = Yaml(r) /\ Json(r)' = Json(r)
    BY DEF Data, HistoryChain, Yaml, Json
  <2>2. CASE Json(r).by = None
    BY <2>1, <2>2 DEF Chained
  <2>3. CASE Json(r).by # None
    <3>1. PICK n \in Installed : n = Json(r).by
      BY <2>1, <2>3 DEF Chained
    <3>2. n \in Mutations /\ n \in Installed'
      BY <1>3 DEF Installed, Prepared
    <3>3. txn'[n].prior = txn[n].prior /\ txn'[n].next = txn[n].next
      BY <1>2, <3>2
    <3> QED
      BY <2>1, <2>3, <3>1, <3>2, <3>3 DEF Chained, Json
  <2> QED
    BY <2>2, <2>3
<1>8. EvidenceInPlace'
  BY <1>1 DEF Data, EvidenceInPlace, Installed, Prepared
<1> QED
  BY <1>1, <1>4, <1>5, <1>6, <1>7, <1>8 DEF Data

(* The parts by which the lemmas below take the invariant.                 *)
LEMMA Invariants == IInv <=> TypeOK /\ Data /\ JobInOrder
BY DEF IInv, Data

(* The initial states.                                                     *)
LEMMA InitInvariant == Init => IInv
<1> SUFFICES ASSUME Init PROVE IInv
  OBVIOUS
<1> DEFINE first == [rev |-> FirstRevision, edited |-> FALSE]
           entry == [version |-> first, by |-> None]
<1>1. first \in Versions /\ entry \in Entries /\ FirstRevision \in Revisions
  BY MutationAssumption DEF Versions, Entries
<1>2. /\ history \in [Files -> Versions \cup Entries \cup {None, Torn}]
      /\ \A r \in Revisions : /\ Yaml(r) = None /\ Json(r) = None
                              \/ /\ r = FirstRevision
                                 /\ Yaml(r) = first /\ Json(r) = entry
  <2> DEFINE empty == [f \in Files |-> None]
  <2>1. CASE history = empty
    BY <2>1 DEF Yaml, Json, Files
  <2>2. CASE history = [empty EXCEPT ![<<FirstRevision, "yaml">>] = first,
                                     ![<<FirstRevision, "json">>] = entry]
    BY <1>1, <2>2 DEF Yaml, Json, Files
  <2> QED
    BY <2>1, <2>2 DEF Init
<1>3. /\ source = first /\ lease = Free /\ edits = 0 /\ faults = 0
      /\ txn = [m \in Mutations |-> NoDirectory]
      /\ pc = [p \in Sessions |-> "idle"] /\ job = [p \in Sessions |-> None]
      /\ todo = [p \in Sessions |-> {}] /\ baseline = [p \in Sessions |-> None]
      /\ plan = [p \in Sessions |-> None]
  BY DEF Init
<1>4. TypeOK
  BY <1>1, <1>2, <1>3 DEF TypeOK, NoDirectory, Directories, FileState, Stages
<1>5. Data
  <2>1. DirectoryShape /\ RevisionsDistinct /\ EvidenceInPlace
    BY <1>3 DEF DirectoryShape, Shape, RevisionsDistinct, EvidenceInPlace, Installed, Prepared,
                NoDirectory
  <2>2. SourceInstalled
    BY <1>3 DEF SourceInstalled, NoDirectory
  <2>3. HistoryChain
    <3> SUFFICES ASSUME NEW r \in Revisions, Json(r) # None PROVE Chained(r)
      BY DEF HistoryChain, Registered
    <3>1. Yaml(r) = first /\ Json(r) = entry
      BY <1>2
    <3>2. entry.version = first /\ entry.by = None
      OBVIOUS
    <3> QED
      BY <3>1, <3>2 DEF Chained
  <2> QED
    BY <2>1, <2>2, <2>3 DEF Data
<1>6. JobInOrder
  BY <1>3 DEF JobInOrder, InOrder, HistoryStages
<1> QED
  BY <1>4, <1>5, <1>6, Invariants

(* A session that works on nothing else than before is still in order.     *)
LEMMA OrderFrame ==
  ASSUME JobInOrder, UNCHANGED <<txn, history, pc, job>>
  PROVE  JobInOrder'
BY DEF JobInOrder, InOrder, Installed, Prepared, Yaml, Json

(* Only a mutation without a directory has no receipt.                     *)
LEMMA NotFoundIsNew ==
  ASSUME TypeOK, NEW m \in Mutations, Status(m) = "not-found"
  PROVE  txn[m].stage = "none"
<1>1. txn[m].stage \in {"none", "preparing", "prepared"} /\ txn[m].retired \in FileState
  BY DEF TypeOK, Directories
<1>2. CASE txn[m].stage = "preparing"
  BY <1>2 DEF Status, ReadRetirement
<1>3. CASE txn[m].stage = "prepared" /\ txn[m].retired = "torn"
  BY <1>3 DEF Status, ReadRetirement
<1>4. CASE txn[m].stage = "prepared" /\ txn[m].retired = "whole"
  BY <1>4 DEF Status, ReadRetirement
<1>5. CASE txn[m].stage = "prepared" /\ txn[m].retired = "none"
  BY <1>5 DEF Status, ReadRetirement
<1> QED
  BY <1>1, <1>2, <1>3, <1>4, <1>5 DEF FileState

(* The mkdir of prepare().                                                 *)
LEMMA DirectoryMade ==
  ASSUME TypeOK, Data, NEW m \in Mutations, NEW v \in Versions,
         txn[m].stage = "none", v.rev \notin UsedRevisions, source \in Versions,
         txn' = [txn EXCEPT ![m] = [NoDirectory EXCEPT !.stage = "preparing", !.prior = source,
                                                       !.next = v]],
         UNCHANGED <<source, history>>
  PROVE  txn' \in [Mutations -> Directories] /\ Data'
<1> DEFINE t == [NoDirectory EXCEPT !.stage = "preparing", !.prior = source, !.next = v]
<1>1. /\ t \in Directories /\ t.stage = "preparing" /\ t.prior = source /\ t.next = v
      /\ ~t.candidate /\ t.marker = "none" /\ t.retired = "none"
  BY DEF NoDirectory, Directories, FileState
<1>2. /\ txn' \in [Mutations -> Directories] /\ txn'[m] = t
      /\ \A n \in Mutations \ {m} : txn'[n] = txn[n]
  BY <1>1 DEF TypeOK
<1>3. Installed' = Installed
  BY <1>1, <1>2 DEF Installed, Prepared
<1>4. v.rev # FirstRevision /\ \A n \in Mutations : txn[n].stage # "none" => txn[n].next.rev # v.rev
  BY DEF UsedRevisions
<1>5. DirectoryShape'
  <2>1. Shape(m)'
    BY <1>1, <1>2 DEF Shape
  <2>2. ASSUME NEW n \in Mutations, n # m PROVE Shape(n)'
    BY <1>2, <2>2 DEF Data, DirectoryShape, Shape, Json
  <2> QED
    BY <2>1, <2>2 DEF DirectoryShape
<1>6. RevisionsDistinct'
  BY <1>1, <1>2, <1>4 DEF Data, RevisionsDistinct
<1>7. \A n \in Installed : n \in Mutations /\ n # m /\ txn'[n] = txn[n]
  BY <1>2 DEF Installed, Prepared
<1>8. SourceInstalled'
  BY <1>1, <1>2, <1>3, <1>4, <1>7 DEF Data, SourceInstalled
<1>9. HistoryChain'
  <2> SUFFICES ASSUME NEW r \in Registered PROVE Chained(r)'
    BY DEF HistoryChain, Registered, Json
  <2>1. Chained(r) /\ Yaml(r)' = Yaml(r) /\ Json(r)' = Json(r)
    BY DEF Data, HistoryChain, Yaml, Json
  <2> QED
    BY <1>3, <1>7, <2>1 DEF Chained, Json
<1>10. EvidenceInPlace'
  BY <1>3, <1>7 DEF Data, EvidenceInPlace
<1> QED
  BY <1>2, <1>5, <1>6, <1>8, <1>9, <1>10 DEF Data

(* Actions that leave the files alone.                                     *)
LEMMA OpenProjectKeeps ==
  ASSUME IInv, NEW p \in Sessions, OpenProject(p)
  PROVE  IInv'
<1>1. TypeOK /\ Data /\ JobInOrder
  BY Invariants
<1>2. baseline' \in [Sessions -> Versions \cup {None}]
  BY <1>1, KnownTyped DEF OpenProject, TypeOK
<1>3. TypeOK'
  BY <1>1, <1>2 DEF OpenProject, TypeOK, Yaml, Json
<1> QED
  BY <1>1, <1>3, DataFrame, OrderFrame DEF OpenProject, data, IInv, Data

(* A reconciliation that is planned or dropped.                           *)
LEMMA PlanKeeps ==
  ASSUME IInv, NEW p \in Sessions, PlanReconciliation(p) \/ DropPlan(p)
  PROVE  IInv'
<1>1. TypeOK /\ Data /\ JobInOrder
  BY Invariants
<1>2. UNCHANGED <<source, txn, history, lease, pc, job, todo, baseline, edits, faults>>
  BY DEF PlanReconciliation, DropPlan
<1>3. plan' \in [Sessions -> Versions \cup {None}]
  BY <1>1 DEF PlanReconciliation, DropPlan, TypeOK
<1>4. TypeOK'
  BY <1>1, <1>2, <1>3 DEF TypeOK, Yaml, Json
<1> QED
  BY <1>1, <1>2, <1>4, DataFrame, OrderFrame DEF data, IInv, Data

(* A session that takes the place of another.                             *)
LEMMA ReopenKeeps ==
  ASSUME IInv, NEW p \in Sessions, Reopen(p)
  PROVE  IInv'
<1>1. TypeOK /\ Data /\ JobInOrder
  BY Invariants
<1>2. TypeOK'
  BY <1>1 DEF Reopen, TypeOK, Yaml, Json
<1> QED
  BY <1>1, <1>2, DataFrame, OrderFrame DEF Reopen, data, IInv, Data

(* An orphaned lease that is freed.                                       *)
LEMMA RecoverLeaseKeeps ==
  ASSUME IInv, RecoverLease
  PROVE  IInv'
<1>1. TypeOK /\ Data /\ JobInOrder
  BY Invariants
<1>2. TypeOK'
  BY <1>1, DistinctAssumption DEF RecoverLease, Lock!Recover, TypeOK, Yaml, Json
<1> QED
  BY <1>1, <1>2, DataFrame, OrderFrame DEF RecoverLease, data, IInv, Data

(* An editor puts back a version that was there, or something unreadable.  *)
LEMMA EditKeeps ==
  ASSUME IInv, NEW v \in Versions \cup {Unreadable}, Edit(v)
  PROVE  IInv'
<1>1. TypeOK /\ Data /\ JobInOrder
  BY Invariants
<1>2. TypeOK'
  BY <1>1 DEF Edit, TypeOK, Yaml, Json
<1>3. SourceInstalled'
  <2>1. CASE v = Unreadable
    BY <1>1, <2>1 DEF Edit, Data, SourceInstalled
  <2>2. CASE v # Unreadable
    BY <1>1, <2>2 DEF Edit, Data, SourceInstalled, Installed, Prepared
  <2> QED
    BY <2>1, <2>2
<1>4. Data'
  BY <1>1, <1>3 DEF Edit, Data, DirectoryShape, Shape, RevisionsDistinct, HistoryChain,
                    Chained, EvidenceInPlace, Registered, Installed, Prepared, Yaml, Json
<1> QED
  BY <1>1, <1>2, <1>4, OrderFrame DEF Edit, IInv, Data

(* The invariant, read for one directory.                                  *)
LEMMA DirectoryKnown ==
  ASSUME TypeOK, Data, NEW m \in Mutations
  PROVE  /\ txn[m] \in Directories /\ Shape(m)
         /\ txn[m].stage # "none" => txn[m].prior \in Versions /\ txn[m].next \in Versions
BY DEF TypeOK, Data, DirectoryShape, Shape
(* Commits.                                                                *)
LEMMA BeginKeeps ==
  ASSUME IInv, NEW p \in Sessions, NEW m \in Mutations, Begin(p, m)
  PROVE  IInv'
<1>1. TypeOK /\ Data /\ JobInOrder
  BY Invariants
<1>2. /\ baseline' \in [Sessions -> Versions \cup {None}]
      /\ plan' \in [Sessions -> Versions \cup {None}]
  BY <1>1, CheckTyped DEF Begin, TypeOK
<1>3. CASE UNCHANGED <<txn, lease, pc, job>>
  <2>1. UNCHANGED <<source, txn, history, lease, pc, job, todo, edits, faults>>
    BY <1>3 DEF Begin
  <2>2. TypeOK'
    BY <1>1, <1>2, <2>1 DEF TypeOK, Yaml, Json
  <2> QED
    BY <1>1, <2>1, <2>2, DataFrame, OrderFrame DEF data, IInv, Data
<1>4. CASE Lock!Acquire(p) /\ StartTransaction(p, m)
  <2> DEFINE v == [rev |-> CHOOSE r \in Revisions \ UsedRevisions : TRUE, edited |-> FALSE]
  <2>1. /\ lease = Free /\ lease' = p /\ StartTransaction(p, m) /\ source \in Versions
        /\ UNCHANGED <<source, history, todo, edits, faults>>
    BY <1>1, <1>4 DEF Begin, Lock!Acquire, TypeOK
  <2>2. v \in Versions /\ v.rev \notin UsedRevisions
    BY DEF Begin, Versions
  <2>3. txn[m].stage = "none"
    BY <1>1, NotFoundIsNew DEF Begin
  <2>4. txn' \in [Mutations -> Directories] /\ Data'
    BY <1>1, <2>1, <2>2, <2>3, DirectoryMade DEF StartTransaction
  <2>5. pc'[p] = "prepare" /\ \A q \in Sessions \ {p} : pc'[q] = "idle"
    BY <1>1, <2>1, OthersStayIdle DEF StartTransaction
  <2>6. TypeOK'
    BY <1>1, <1>2, <2>1, <2>4, <2>5 DEF TypeOK, Yaml, Json, StartTransaction, Goto, Stages
  <2>7. InOrder(p)'
    <3>1. job'[p] = m /\ txn'[m].stage = "preparing"
      BY <1>1, <2>1 DEF StartTransaction, TypeOK, NoDirectory
    <3> QED
      BY <2>5, <3>1 DEF InOrder, HistoryStages
  <2> QED
    BY <2>4, <2>5, <2>6, <2>7, OrderOfWorker DEF IInv, Data
<1> QED
  BY <1>3, <1>4 DEF Begin

(* The journal is written.                                                *)
LEMMA PrepareKeeps ==
  ASSUME IInv, NEW p \in Sessions, Prepare(p)
  PROVE  IInv'
<1>1. TypeOK /\ Data /\ JobInOrder /\ InOrder(p)
  BY Invariants DEF JobInOrder
<1>2. PICK m \in Mutations : m = job[p] /\ txn[m].stage = "preparing"
  BY <1>1 DEF InOrder, Prepare
<1> DEFINE t == [txn[m] EXCEPT !.stage = "prepared", !.candidate = TRUE]
<1>3. t \in Directories /\ t.stage = "prepared" /\ t.candidate /\ t.retired = "none"
      /\ t.marker = "none" /\ t.prior = txn[m].prior /\ t.next = txn[m].next
      /\ t.prior \in Versions /\ t.next \in Versions
  <2>1. txn[m] \in Directories /\ Shape(m)
    BY <1>1, DirectoryKnown
  <2>2. t \in Directories
    BY <2>1 DEF Directories, FileState
  <2>3. txn[m].marker = "none" /\ txn[m].retired = "none"
    BY <1>2, <2>1 DEF Shape
  <2>4. txn[m].prior \in Versions /\ txn[m].next \in Versions
    BY <1>2, <2>1 DEF Shape
  <2> QED
    BY <1>2, <2>1, <2>2, <2>3, <2>4 DEF Directories
<1>4. txn' = [txn EXCEPT ![m] = t] /\ txn'[m] = t
  BY <1>1, <1>2 DEF Prepare, TypeOK, Directories
<1>5. txn' \in [Mutations -> Directories] /\ Data'
  <2>1. Shape(m)'
    BY <1>3, <1>4 DEF Shape
  <2>2. m \notin Installed
    BY <1>2 DEF Installed, Prepared
  <2> QED
    BY <1>1, <1>2, <1>3, <1>4, <2>1, <2>2, DirectoryUpdated DEF Prepare
<1>6. pc'[p] = "publish" /\ \A q \in Sessions \ {p} : pc'[q] = "idle"
  BY <1>1, OthersStayIdle DEF Prepare
<1>7. TypeOK'
  BY <1>1, <1>5, <1>6 DEF Prepare, TypeOK, Yaml, Json, Goto, Stages
<1>8. InOrder(p)'
  BY <1>2, <1>3, <1>4, <1>6 DEF Prepare, InOrder, HistoryStages
<1> QED
  BY <1>5, <1>6, <1>7, <1>8, OrderOfWorker DEF IInv, Data

(* The evidence goes to its final path.                                   *)
LEMMA PublishKeeps ==
  ASSUME IInv, NEW p \in Sessions, Publish(p)
  PROVE  IInv'
<1>1. TypeOK /\ Data /\ JobInOrder /\ InOrder(p)
  BY Invariants DEF JobInOrder
<1>2. PICK m \in Mutations : m = job[p] /\ txn[m].stage = "prepared" /\ txn[m].candidate
                               /\ txn[m].retired = "none"
  BY <1>1 DEF InOrder, Publish
<1> DEFINE t == [txn[m] EXCEPT !.evidence = "published"]
<1>3. t \in Directories /\ t.stage = "prepared" /\ t.candidate /\ t.retired = "none"
      /\ t.marker = "none" /\ t.prior = txn[m].prior /\ t.next = txn[m].next
      /\ t.prior \in Versions /\ t.next \in Versions /\ t.evidence = "published"
  <2>1. txn[m] \in Directories /\ Shape(m)
    BY <1>1, DirectoryKnown
  <2>2. t \in Directories
    BY <2>1 DEF Directories, FileState
  <2>3. txn[m].marker = "none" /\ txn[m].retired = "none"
    BY <1>2, <2>1 DEF Shape
  <2>4. txn[m].prior \in Versions /\ txn[m].next \in Versions
    BY <1>2, <2>1 DEF Shape
  <2> QED
    BY <1>2, <2>1, <2>2, <2>3, <2>4 DEF Directories
<1>4. txn' = [txn EXCEPT ![m] = t] /\ txn'[m] = t
  BY <1>1, <1>2 DEF Publish, TypeOK
<1>5. txn' \in [Mutations -> Directories] /\ Data'
  <2>1. Shape(m)'
    BY <1>3, <1>4 DEF Shape
  <2>2. m \notin Installed
    BY <1>2 DEF Installed, Prepared
  <2> QED
    BY <1>1, <1>2, <1>3, <1>4, <2>1, <2>2, DirectoryUpdated DEF Publish
<1>6. pc'[p] = "check" /\ \A q \in Sessions \ {p} : pc'[q] = "idle"
  BY <1>1, OthersStayIdle DEF Publish
<1>7. TypeOK'
  BY <1>1, <1>5, <1>6 DEF Publish, TypeOK, Yaml, Json, Goto, Stages
<1>8. InOrder(p)'
  BY <1>2, <1>3, <1>4, <1>6 DEF Publish, InOrder, HistoryStages
<1> QED
  BY <1>5, <1>6, <1>7, <1>8, OrderOfWorker DEF IInv, Data

(* replaceSource looks at the source.                                     *)
LEMMA CheckSourceKeeps ==
  ASSUME IInv, NEW p \in Sessions, CheckSource(p)
  PROVE  IInv'
<1>1. TypeOK /\ Data /\ JobInOrder /\ InOrder(p)
  BY Invariants DEF JobInOrder
<1>2. Data'
  BY <1>1, DataFrame DEF CheckSource, data
<1>3. CASE source = txn[job[p]].prior
  <2>1. /\ Goto(p, "rename") /\ UNCHANGED <<lease, job, todo>>
        /\ UNCHANGED <<source, txn, history, baseline, plan, edits, faults>> /\ pc[p] = "check"
    BY <1>3 DEF CheckSource
  <2>2. pc'[p] = "rename" /\ \A q \in Sessions \ {p} : pc'[q] = "idle"
    BY <1>1, <2>1, OthersStayIdle
  <2>3. TypeOK'
    BY <1>1, <2>1, <2>2 DEF TypeOK, Yaml, Json, Goto, Stages
  <2>4. InOrder(p)'
    BY <1>1, <2>1, <2>2 DEF InOrder, HistoryStages
  <2> QED
    BY <1>2, <2>2, <2>3, <2>4, OrderOfWorker DEF IInv, Data
<1>4. CASE source # txn[job[p]].prior
  <2>1. Leave(p) /\ UNCHANGED <<source, txn, history, baseline, plan, edits,
       faults>> /\ pc[p] = "check"
    BY <1>4 DEF CheckSource
  <2>2. TypeOK' /\ JobInOrder'
    BY <1>1, <2>1, LeaveKeeps DEF TypeOK, Yaml, Json
  <2> QED
    BY <1>2, <2>2 DEF IInv, Data
<1> QED
  BY <1>3, <1>4

(* Where finalizeHistory starts.                                          *)
LEMMA FirstStage ==
  ASSUME NEW m \in Mutations
  PROVE  /\ FirstHistoryStage(m) \in {"baseYaml", "nextYaml"}
         /\ FirstHistoryStage(m) = "nextYaml" => Json(txn[m].prior.rev) # None
BY DEF FirstHistoryStage

(* The commit point.                                                      *)
LEMMA RenameKeeps ==
  ASSUME IInv, NEW p \in Sessions, Rename(p)
  PROVE  IInv'
<1>1. TypeOK /\ Data /\ JobInOrder /\ InOrder(p) /\ pc[p] = "rename"
  BY Invariants DEF JobInOrder, Rename
<1>2. PICK m \in Mutations : m = job[p] /\ txn[m].stage = "prepared" /\ txn[m].candidate
                               /\ txn[m].retired = "none" /\ txn[m].evidence = "published"
  BY <1>1 DEF InOrder
<1>3. CASE Goto(p, "check") /\ UNCHANGED <<source, txn>>
  <2>1. UNCHANGED <<source, txn, history, lease, job, todo, baseline, plan, edits, faults>>
    BY <1>3 DEF Rename
  <2>2. pc'[p] = "check" /\ \A q \in Sessions \ {p} : pc'[q] = "idle"
    BY <1>1, <1>3, OthersStayIdle
  <2>3. TypeOK' /\ Data'
    BY <1>1, <1>3, <2>1, <2>2, DataFrame DEF data, TypeOK, Yaml, Json, Goto, Stages
  <2>4. InOrder(p)'
    BY <1>1, <2>1, <2>2 DEF InOrder, HistoryStages
  <2> QED
    BY <2>2, <2>3, <2>4, OrderOfWorker DEF IInv, Data
<1>4. CASE /\ source' = txn[job[p]].next
           /\ txn' = [txn EXCEPT ![job[p]].candidate = FALSE]
           /\ Goto(p, FirstHistoryStage(job[p]))
  <2> DEFINE t == [txn[m] EXCEPT !.candidate = FALSE]
  <2>1. UNCHANGED <<history, lease, job, todo, baseline, plan, edits, faults>>
    BY DEF Rename
  <2>2. txn[m] \in Directories /\ Shape(m) /\ txn[m].prior \in Versions /\ txn[m].next \in Versions
    BY <1>1, <1>2, DirectoryKnown
  <2>3. t \in Directories /\ t.stage = "prepared" /\ ~t.candidate /\ t.retired = "none"
        /\ t.prior = txn[m].prior /\ t.next = txn[m].next /\ t.evidence = "published"
        /\ t.marker = txn[m].marker
    BY <1>2, <2>2 DEF Directories
  <2>4. t.marker = "none"
    BY <1>2, <2>2, <2>3 DEF Shape
  <2>5. txn' = [txn EXCEPT ![m] = t] /\ txn'[m] = t /\ source' = t.next
    BY <1>1, <1>2, <1>4, <2>3 DEF TypeOK
  <2>6. txn' \in [Mutations -> Directories] /\ Data'
    <3>1. Shape(m)'
      BY <2>2, <2>3, <2>4, <2>5 DEF Shape
    <3> QED
      BY <1>1, <1>2, <2>1, <2>2, <2>3, <2>5, <3>1, DirectoryUpdated
  <2>7. /\ pc'[p] = FirstHistoryStage(m) /\ pc'[p] \in {"baseYaml", "nextYaml"}
        /\ \A q \in Sessions \ {p} : pc'[q] = "idle"
    BY <1>1, <1>2, <1>4, FirstStage, OthersStayIdle
  <2>8. TypeOK'
    BY <1>1, <1>4, <2>1, <2>2, <2>3, <2>5, <2>6, <2>7
       DEF TypeOK, Yaml, Json, Goto, Stages, HistoryStages
  <2>9. InOrder(p)'
    <3>1. m \in Installed' /\ job'[p] = m /\ txn'[m].prior = txn[m].prior
      BY <1>2, <2>1, <2>3, <2>5 DEF Installed, Prepared
    <3>2. pc'[p] = "nextYaml" => history'[<<txn'[m].prior.rev, "json">>] # None
      BY <2>1, <2>7, <3>1, FirstStage DEF Json
    <3> QED
      BY <2>7, <3>1, <3>2 DEF InOrder, HistoryStages, Json
  <2> QED
    BY <2>6, <2>7, <2>8, <2>9, OrderOfWorker DEF IInv, Data
<1> QED
  BY <1>3, <1>4 DEF Rename

(* One file of the history.                                               *)
LEMMA WriteHistoryKeeps ==
  ASSUME IInv, NEW p \in Sessions, WriteHistory(p)
  PROVE  IInv'
<1>1. TypeOK /\ Data /\ JobInOrder /\ InOrder(p) /\ pc[p] \in HistoryStages /\ pc[p] # "idle"
      /\ UNCHANGED <<source, txn, baseline, plan, edits, faults>>
  BY Invariants DEF JobInOrder, WriteHistory, HistoryStages
<1>2. CASE history[Target(p)] \notin {None, Content(p)}
  <2>1. Leave(p) /\ UNCHANGED history
    BY <1>2 DEF WriteHistory
  <2>2. TypeOK' /\ JobInOrder' /\ Data'
    BY <1>1, <2>1, LeaveKeeps, DataFrame DEF TypeOK, Yaml, Json, data
  <2> QED
    BY <2>2 DEF IInv, Data
<1>3. CASE history[Target(p)] \in {None, Content(p)}
  <2>1. /\ history' = [history EXCEPT ![Target(p)] = Content(p)]
        /\ Goto(p, Following(pc[p])) /\ UNCHANGED <<lease, job, todo>>
    BY <1>3 DEF WriteHistory
  <2>2. /\ history' \in [Files -> Versions \cup Entries \cup {None, Torn}]
        /\ \A r \in Revisions : /\ Yaml(r)' \in Versions \cup {None, Torn}
                                /\ Json(r)' \in Entries \cup {None, Torn}
        /\ \A r \in Revisions : /\ Yaml(r) # None => Yaml(r)' = Yaml(r)
                                /\ Json(r) # None => Json(r)' = Json(r)
    BY <1>1, <1>3, <2>1, HistoryGrows DEF Data
  <2>3. Data'
    BY <1>1, <1>3, <2>1, <2>2, GrowthKeepsShape, WriteKeepsChain DEF Data
  <2>4. pc'[p] = Following(pc[p]) /\ \A q \in Sessions \ {p} : pc'[q] = "idle"
    BY <1>1, <2>1, OthersStayIdle
  <2>5. Following(pc[p]) \in {"baseJson", "nextYaml", "nextJson", "marker"}
    BY <1>1 DEF Following, HistoryStages
  <2>6. TypeOK'
    BY <1>1, <2>1, <2>2, <2>4, <2>5 DEF TypeOK, Goto, Stages, HistoryStages
  <2>7. InOrder(p)'
    <3>1. PICK m \in Mutations : m = job[p] /\ m \in Installed
      BY <1>1, WriteTyped DEF Data, Installed, Prepared
    <3>2. /\ txn[m].prior \in Versions /\ txn[m].next \in Versions /\ Target(p) \in Files
          /\ txn[m].prior.rev \in Revisions /\ txn[m].next.rev \in Revisions
      BY <1>1, <3>1, WriteTyped DEF Data
    <3>3. history'[Target(p)] = Content(p)
      BY <1>1, <2>1, <3>2 DEF TypeOK
    <3>4. job'[p] = m /\ txn'[m] = txn[m] /\ m \in Installed'
      BY <1>1, <2>1, <3>1 DEF Installed, Prepared
    <3>5. CASE pc[p] = "baseYaml"
      <4>1. pc'[p] = "baseJson" /\ history'[<<txn[m].prior.rev, "yaml">>] = txn[m].prior
        BY <2>4, <3>1, <3>3, <3>5 DEF Following, Target, Content
      <4> QED
        BY <3>4, <4>1 DEF InOrder, HistoryStages, Yaml
    <3>6. CASE pc[p] = "baseJson"
      <4>1. pc'[p] = "nextYaml"
            /\ history'[<<txn[m].prior.rev, "json">>] = [version |-> txn[m].prior, by |-> None]
        BY <2>4, <3>1, <3>3, <3>6 DEF Following, Target, Content
      <4>2. [version |-> txn[m].prior, by |-> None] # None
        BY <3>2, WholeIsNotMark DEF Entries
      <4> QED
        BY <3>4, <4>1, <4>2 DEF InOrder, HistoryStages, Json
    <3>7. CASE pc[p] \in {"nextYaml", "nextJson"}
      <4>1. history[<<txn[m].prior.rev, "json">>] # None
        BY <1>1, <3>1, <3>7 DEF InOrder, Json
      <4>2. history'[<<txn[m].prior.rev, "json">>] # None
        BY <2>2, <3>2, <4>1 DEF Json
      <4>3. CASE pc[p] = "nextYaml"
        <5>1. pc'[p] = "nextJson" /\ history'[<<txn[m].next.rev, "yaml">>] = txn[m].next
          BY <2>4, <3>1, <3>3, <4>3 DEF Following, Target, Content
        <5> QED
          BY <3>4, <4>2, <5>1 DEF InOrder, HistoryStages, Json, Yaml
      <4>4. CASE pc[p] = "nextJson"
        <5>1. pc'[p] = "marker"
              /\ history'[<<txn[m].next.rev, "json">>] = [version |-> txn[m].next, by |-> m]
          BY <2>4, <3>1, <3>3, <4>4 DEF Following, Target, Content
        <5> QED
          BY <3>4, <4>2, <5>1 DEF InOrder, HistoryStages, Json
      <4> QED
        BY <3>7, <4>3, <4>4
    <3> QED
      BY <1>1, <3>5, <3>6, <3>7 DEF HistoryStages
  <2> QED
    BY <2>3, <2>4, <2>6, <2>7, OrderOfWorker DEF IInv, Data
<1> QED
  BY <1>2, <1>3

(* committed.json.                                                        *)
LEMMA WriteMarkerKeeps ==
  ASSUME IInv, NEW p \in Sessions, WriteMarker(p)
  PROVE  IInv'
<1>1. TypeOK /\ Data /\ JobInOrder /\ InOrder(p) /\ pc[p] = "marker" /\ Leave(p)
      /\ UNCHANGED <<source, history, plan, edits, faults>>
  BY Invariants DEF JobInOrder, WriteMarker
<1>2. PICK m \in Mutations :
        /\ m = job[p] /\ m \in Installed /\ txn[m].stage = "prepared" /\ ~txn[m].candidate
        /\ Json(txn[m].next.rev) = [version |-> txn[m].next, by |-> m]
  BY <1>1 DEF InOrder, Installed, Prepared
<1> DEFINE t == [txn[m] EXCEPT !.marker = "whole"]
<1>3. txn[m] \in Directories /\ Shape(m) /\ txn[m].prior \in Versions /\ txn[m].next \in Versions
  BY <1>1, <1>2, DirectoryKnown
<1>4. t \in Directories /\ t.stage = "prepared" /\ ~t.candidate /\ t.retired = txn[m].retired
      /\ t.prior = txn[m].prior /\ t.next = txn[m].next /\ t.evidence = txn[m].evidence
      /\ t.marker = "whole"
  BY <1>2, <1>3 DEF Directories, FileState
<1>5. txn' = [txn EXCEPT ![m] = t] /\ txn'[m] = t
  BY <1>1, <1>2, <1>4 DEF WriteMarker, TypeOK
<1>6. txn' \in [Mutations -> Directories] /\ Data'
  <2>1. Shape(m)'
    BY <1>1, <1>2, <1>3, <1>4, <1>5 DEF Shape, Json
  <2>2. t.evidence = "published"
    BY <1>1, <1>2, <1>4 DEF Data, EvidenceInPlace
  <2> QED
    BY <1>1, <1>2, <1>3, <1>4, <1>5, <2>1, <2>2, DirectoryUpdated
<1>7. baseline' \in [Sessions -> Versions \cup {None}]
  BY <1>1, <1>2, <1>3 DEF WriteMarker, TypeOK
<1>8. TypeOK' /\ JobInOrder'
  BY <1>1, <1>6, <1>7, LeaveKeeps DEF TypeOK, Yaml, Json
<1> QED
  BY <1>6, <1>8 DEF IInv, Data

(* Recovery.                                                               *)
LEMMA RecoverKeeps ==
  ASSUME IInv, NEW p \in Sessions, Recover(p)
  PROVE  IInv'
<1>1. TypeOK /\ Data /\ JobInOrder /\ lease = Free /\ lease' = p /\ Goto(p, "recovering")
      /\ UNCHANGED <<source, txn, history, job, baseline, plan, edits, faults>>
  BY Invariants DEF Recover, Lock!Acquire
<1>2. pc'[p] = "recovering" /\ \A q \in Sessions \ {p} : pc'[q] = "idle"
  BY <1>1, OthersStayIdle
<1>3. todo' \in [Sessions -> SUBSET Mutations]
  BY <1>1 DEF Recover, TypeOK
<1>4. TypeOK'
  BY <1>1, <1>2, <1>3 DEF TypeOK, Yaml, Json, Goto, Stages
<1>5. InOrder(p)'
  BY <1>2 DEF InOrder, HistoryStages
<1> QED
  BY <1>1, <1>2, <1>4, <1>5, DataFrame, OrderOfWorker DEF data, IInv, Data

(* A source that shows a new version shows an installed one.               *)
LEMMA SourceTellsInstalled ==
  ASSUME TypeOK, Data, NEW m \in Mutations, txn[m].stage = "prepared", source = txn[m].next
  PROVE  m \in Installed
<1>1. txn[m].next \in Versions
  BY DirectoryKnown
<1>2. source # Unreadable /\ txn[m].next.rev # FirstRevision
  BY <1>1, DistinctAssumption DEF Data, SourceInstalled, Versions
<1>3. PICK n \in Installed : source.rev = txn[n].next.rev
  BY <1>2 DEF Data, SourceInstalled
<1>4. n \in Mutations /\ txn[n].stage = "prepared"
  BY <1>3 DEF Installed, Prepared
<1> QED
  BY <1>3, <1>4 DEF Data, RevisionsDistinct

(* One entry of recoverTransactions.                                      *)
LEMMA RecoverEntryKeeps ==
  ASSUME IInv, NEW p \in Sessions, NEW m \in Mutations, RecoverEntry(p, m)
  PROVE  IInv'
<1>1. TypeOK /\ Data /\ JobInOrder /\ InOrder(p) /\ pc[p] = "recovering"
      /\ UNCHANGED <<source, txn, history, lease, baseline, plan, edits, faults>>
  BY Invariants DEF JobInOrder, RecoverEntry
<1>2. Data'
  BY <1>1, DataFrame DEF data
<1>3. CASE ~NeedsHistory(m)
  <2>1. todo' = [todo EXCEPT ![p] = @ \ {m}] /\ UNCHANGED <<pc, job>>
    BY <1>3 DEF RecoverEntry
  <2>2. TypeOK'
    BY <1>1, <2>1 DEF TypeOK, Yaml, Json
  <2> QED
    BY <1>1, <1>2, <2>1, <2>2, OrderFrame DEF IInv, Data
<1>4. CASE NeedsHistory(m)
  <2>1. job' = [job EXCEPT ![p] = m] /\ Goto(p, FirstHistoryStage(m)) /\ UNCHANGED todo
    BY <1>4 DEF RecoverEntry
  <2>2. m \in Installed
    BY <1>1, <1>4, SourceTellsInstalled DEF NeedsHistory
  <2>3. /\ pc'[p] = FirstHistoryStage(m) /\ pc'[p] \in {"baseYaml", "nextYaml"}
        /\ \A q \in Sessions \ {p} : pc'[q] = "idle"
    BY <1>1, <2>1, FirstStage, OthersStayIdle
  <2>4. TypeOK'
    BY <1>1, <2>1, <2>3 DEF TypeOK, Yaml, Json, Goto, Stages, HistoryStages
  <2>5. InOrder(p)'
    <3>1. job'[p] = m /\ m \in Installed'
      BY <1>1, <2>1, <2>2 DEF TypeOK, Installed, Prepared
    <3>2. pc'[p] = "nextYaml" => history'[<<txn'[m].prior.rev, "json">>] # None
      BY <1>1, <2>3, FirstStage DEF Json
    <3> QED
      BY <2>3, <3>1, <3>2 DEF InOrder, HistoryStages, Json
  <2> QED
    BY <1>2, <2>3, <2>4, <2>5, OrderOfWorker DEF IInv, Data
<1> QED
  BY <1>3, <1>4

(* The end of recoverTransactions.                                        *)
LEMMA RecoverEndKeeps ==
  ASSUME IInv, NEW p \in Sessions, RecoverEnd(p)
  PROVE  IInv'
<1>1. TypeOK /\ Data /\ pc[p] # "idle" /\ Leave(p)
      /\ UNCHANGED <<source, txn, history, baseline, plan, edits, faults>>
  BY Invariants DEF RecoverEnd
<1>2. TypeOK' /\ JobInOrder'
  BY <1>1, LeaveKeeps DEF TypeOK, Yaml, Json
<1> QED
  BY <1>1, <1>2, DataFrame DEF data, IInv, Data

(* Retirement.                                                             *)
LEMMA RetireKeeps ==
  ASSUME IInv, NEW p \in Sessions, NEW m \in Mutations, Retire(p, m)
  PROVE  IInv'
<1>1. /\ TypeOK /\ Data /\ JobInOrder /\ lease = Free /\ lease' = p /\ Goto(p, "retire")
      /\ job' = [job EXCEPT ![p] = m]
      /\ UNCHANGED <<source, txn, history, todo, baseline, plan, edits, faults>>
      /\ txn[m].stage = "prepared" /\ txn[m].candidate /\ txn[m].retired = "none"
  BY Invariants DEF Retire, Lock!Acquire
<1>2. pc'[p] = "retire" /\ \A q \in Sessions \ {p} : pc'[q] = "idle"
  BY <1>1, OthersStayIdle
<1>3. TypeOK'
  BY <1>1, <1>2 DEF TypeOK, Yaml, Json, Goto, Stages
<1>4. InOrder(p)'
  BY <1>1, <1>2 DEF InOrder, HistoryStages, TypeOK
<1> QED
  BY <1>1, <1>2, <1>3, <1>4, DataFrame, OrderOfWorker DEF data, IInv, Data

(* A retirement, whole or torn, is only ever put beside a candidate.       *)
LEMMA RetirementKeepsData ==
  ASSUME TypeOK, Data, NEW m \in Mutations, NEW s \in {"torn", "whole"},
         txn[m].stage = "prepared", txn[m].candidate,
         txn' = [txn EXCEPT ![m].retired = s], UNCHANGED <<source, history>>
  PROVE  txn' \in [Mutations -> Directories] /\ Data'
<1> DEFINE t == [txn[m] EXCEPT !.retired = s]
<1>1. txn[m] \in Directories /\ Shape(m) /\ txn[m].prior \in Versions /\ txn[m].next \in Versions
  BY DirectoryKnown
<1>2. t \in Directories /\ t.stage = "prepared" /\ t.candidate /\ t.retired = s
      /\ t.prior = txn[m].prior /\ t.next = txn[m].next /\ t.marker = txn[m].marker
  BY <1>1 DEF Directories, FileState
<1>3. txn' = [txn EXCEPT ![m] = t] /\ txn'[m] = t
  BY <1>2 DEF TypeOK
<1>4. Shape(m)'
  BY <1>1, <1>2, <1>3 DEF Shape
<1>5. m \notin Installed
  BY DEF Installed, Prepared
<1> QED
  BY <1>1, <1>2, <1>3, <1>4, <1>5, DirectoryUpdated

(* retired.json.                                                          *)
LEMMA WriteRetirementKeeps ==
  ASSUME IInv, NEW p \in Sessions, WriteRetirement(p)
  PROVE  IInv'
<1>1. TypeOK /\ Data /\ InOrder(p) /\ pc[p] = "retire" /\ Leave(p)
      /\ UNCHANGED <<source, history, baseline, plan, edits, faults>>
      /\ txn' = [txn EXCEPT ![job[p]].retired = "whole"]
  BY Invariants DEF JobInOrder, WriteRetirement
<1>2. txn' \in [Mutations -> Directories] /\ Data'
  BY <1>1, RetirementKeepsData DEF InOrder
<1>3. TypeOK' /\ JobInOrder'
  BY <1>1, <1>2, LeaveKeeps DEF TypeOK, Yaml, Json
<1> QED
  BY <1>2, <1>3 DEF IInv, Data

(* Errors and crashes.                                                     *)
LEMMA InterruptedKeeps ==
  ASSUME IInv, NEW p \in Sessions, Interrupted(p), UNCHANGED source
  PROVE  /\ Data'
         /\ txn' \in [Mutations -> Directories]
         /\ history' \in [Files -> Versions \cup Entries \cup {None, Torn}]
         /\ \A r \in Revisions : /\ Yaml(r)' \in Versions \cup {None, Torn}
                                 /\ Json(r)' \in Entries \cup {None, Torn}
<1>1. TypeOK /\ Data /\ InOrder(p)
  BY Invariants DEF JobInOrder
<1>2. CASE UNCHANGED <<txn, history>>
  BY <1>1, <1>2, DataFrame DEF data, TypeOK, Yaml, Json
<1>3. CASE /\ pc[p] \in HistoryStages /\ history[Target(p)] = None
           /\ history' = [history EXCEPT ![Target(p)] = Torn] /\ UNCHANGED txn
  <2>1. /\ history' \in [Files -> Versions \cup Entries \cup {None, Torn}]
        /\ \A r \in Revisions : /\ Yaml(r)' \in Versions \cup {None, Torn}
                                /\ Json(r)' \in Entries \cup {None, Torn}
        /\ \A r \in Revisions : Json(r) # None => Json(r)' = Json(r)
    BY <1>1, <1>3, HistoryGrows DEF Data
  <2>2. DirectoryShape' /\ RevisionsDistinct' /\ SourceInstalled' /\ EvidenceInPlace'
    BY <1>1, <1>3, <2>1, GrowthKeepsShape DEF Data
  <2>3. HistoryChain'
    BY <1>1, <1>3, TearKeepsChain DEF Data
  <2> QED
    BY <1>1, <1>3, <2>1, <2>2, <2>3 DEF Data, TypeOK
<1>4. CASE /\ pc[p] = "marker" /\ txn[job[p]].marker = "none"
           /\ txn' = [txn EXCEPT ![job[p]].marker = "torn"] /\ UNCHANGED history
  <2>1. PICK m \in Mutations : m = job[p] /\ m \in Installed /\ txn[m].stage = "prepared"
                               /\ ~txn[m].candidate
    BY <1>1, <1>4 DEF InOrder, Installed, Prepared
  <2> DEFINE t == [txn[m] EXCEPT !.marker = "torn"]
  <2>2. txn[m] \in Directories /\ Shape(m) /\ txn[m].prior \in Versions /\ txn[m].next \in Versions
    BY <1>1, <2>1, DirectoryKnown
  <2>3. t \in Directories /\ t.stage = "prepared" /\ ~t.candidate /\ t.retired = txn[m].retired
        /\ t.prior = txn[m].prior /\ t.next = txn[m].next /\ t.evidence = txn[m].evidence
        /\ t.marker = "torn"
    BY <2>1, <2>2 DEF Directories, FileState
  <2>4. txn' = [txn EXCEPT ![m] = t] /\ txn'[m] = t
    BY <1>1, <1>4, <2>1, <2>3 DEF TypeOK
  <2>5. Shape(m)'
    BY <2>1, <2>2, <2>3, <2>4 DEF Shape
  <2>6. t.evidence = "published"
    BY <1>1, <2>1, <2>3 DEF Data, EvidenceInPlace
  <2>7. txn' \in [Mutations -> Directories] /\ Data'
    BY <1>1, <1>4, <2>1, <2>2, <2>3, <2>4, <2>5, <2>6, DirectoryUpdated
  <2> QED
    BY <1>1, <1>4, <2>7 DEF TypeOK, Yaml, Json
<1>5. CASE /\ pc[p] = "retire" /\ txn' = [txn EXCEPT ![job[p]].retired = "torn"]
           /\ UNCHANGED history
  <2>1. txn' \in [Mutations -> Directories] /\ Data'
    BY <1>1, <1>5, RetirementKeepsData DEF InOrder
  <2> QED
    BY <1>1, <1>5, <2>1 DEF TypeOK, Yaml, Json
<1> QED
  BY <1>2, <1>3, <1>4, <1>5 DEF Interrupted

(* A call that throws.                                                    *)
LEMMA FaultKeeps ==
  ASSUME IInv, NEW p \in Sessions, Fault(p)
  PROVE  IInv'
<1>1. TypeOK /\ pc[p] # "idle" /\ Leave(p) /\ Interrupted(p)
      /\ faults' = faults + 1 /\ UNCHANGED <<source, baseline, plan, edits>>
  BY Invariants DEF Fault
<1>2. /\ Data' /\ txn' \in [Mutations -> Directories]
      /\ history' \in [Files -> Versions \cup Entries \cup {None, Torn}]
      /\ \A r \in Revisions : /\ Yaml(r)' \in Versions \cup {None, Torn}
                              /\ Json(r)' \in Entries \cup {None, Torn}
  BY <1>1, InterruptedKeeps
<1>3. TypeOK' /\ JobInOrder'
  BY <1>1, <1>2, LeaveKeeps DEF TypeOK
<1> QED
  BY <1>2, <1>3 DEF IInv, Data

(* A process that dies.                                                   *)
LEMMA CrashKeeps ==
  ASSUME IInv, NEW p \in Sessions, Crash(p)
  PROVE  IInv'
<1>1. /\ TypeOK /\ pc[p] # "idle" /\ Goto(p, "idle") /\ Interrupted(p) /\ Lock!Orphan
      /\ faults' = faults + 1 /\ UNCHANGED <<source, plan, edits>>
      /\ job' = [job EXCEPT ![p] = None] /\ todo' = [todo EXCEPT ![p] = {}]
      /\ baseline' = [baseline EXCEPT ![p] = None]
  BY Invariants DEF Crash
<1>2. /\ Data' /\ txn' \in [Mutations -> Directories]
      /\ history' \in [Files -> Versions \cup Entries \cup {None, Torn}]
      /\ \A r \in Revisions : /\ Yaml(r)' \in Versions \cup {None, Torn}
                              /\ Json(r)' \in Entries \cup {None, Torn}
  BY <1>1, InterruptedKeeps
<1>3. \A q \in Sessions : pc'[q] = "idle"
  BY <1>1, OthersStayIdle
<1>4. TypeOK'
  BY <1>1, <1>2, <1>3 DEF TypeOK, Lock!Orphan, Goto, Stages
<1>5. JobInOrder'
  BY <1>3 DEF JobInOrder, InOrder, HistoryStages
<1> QED
  BY <1>2, <1>4, <1>5 DEF IInv, Data

(* Every step keeps the invariant.                                        *)
LEMMA InvariantStep == IInv /\ [Next]_vars => IInv'
<1> SUFFICES ASSUME IInv, [Next]_vars PROVE IInv'
  OBVIOUS
<1>1. CASE UNCHANGED vars
  <2>1. TypeOK'
    BY <1>1, Invariants DEF vars, TypeOK, Yaml, Json
  <2> QED
    BY <1>1, <2>1, Invariants, DataFrame, OrderFrame DEF vars, data, IInv, Data
<1>2. CASE Next
  BY <1>2, OpenProjectKeeps, PlanKeeps, ReopenKeeps, RecoverLeaseKeeps, EditKeeps, BeginKeeps,
       PrepareKeeps,
     PublishKeeps, CheckSourceKeeps, RenameKeeps, WriteHistoryKeeps, WriteMarkerKeeps,
     RecoverKeeps, RecoverEntryKeeps, RecoverEndKeeps, RetireKeeps, WriteRetirementKeeps,
     FaultKeeps, CrashKeeps DEF Next
<1> QED
  BY <1>1, <1>2

(* The invariant of the transactions: recovery directories, history and    *)
(* sessions agree, in every state of every behaviour.                      *)
THEOREM TransactionInvariant == Spec => []IInv
BY InitInvariant, InvariantStep, PTL DEF Spec

(* Type correctness; a session that works has the project lease.           *)
THEOREM TransactionTypes == Spec => []TypeOK
<1>1. IInv => TypeOK
  BY DEF IInv
<1> QED
  BY <1>1, TransactionInvariant, PTL

(* No crash, torn write, edit, retirement or later commit takes back what  *)
(* mutationStatus answers once committed.json is whole.                    *)
THEOREM FinalizedReceiptsHold == Spec => []FinalizedReceiptKept
<1>1. IInv => FinalizedReceiptKept
  <2> SUFFICES ASSUME IInv, NEW m \in Mutations, txn[m].marker = "whole"
               PROVE  Status(m) = "committed"
    BY DEF FinalizedReceiptKept
  <2>1. TypeOK /\ Data
    BY Invariants
  <2>2. txn[m] \in Directories /\ Shape(m) /\ txn[m].stage \in {"none", "preparing", "prepared"}
    BY <2>1, DirectoryKnown DEF Directories
  <2>3. /\ txn[m].stage = "prepared" /\ ~txn[m].candidate /\ txn[m].retired = "none"
        /\ txn[m].next \in Versions /\ Json(txn[m].next.rev) = [version |-> txn[m].next, by |-> m]
    BY <2>2 DEF Shape, Directories
  <2>4. txn[m].evidence = "published"
    BY <2>1, <2>3 DEF Data, EvidenceInPlace, Installed, Prepared
  <2>5. Json(txn[m].next.rev) # None /\ Json(txn[m].next.rev) # Torn
        /\ Json(txn[m].next.rev).version = txn[m].next
    BY <2>3, WholeIsNotMark DEF Entries
  <2>6. CASE source = txn[m].next
    BY <2>3, <2>4, <2>5, <2>6, SMTT(30) DEF Status, ReadRetirement
  <2>7. CASE source # txn[m].next
    BY <2>3, <2>5, <2>7 DEF Status, ReadRetirement
  <2> QED
    BY <2>6, <2>7
<1> QED
  BY <1>1, TransactionInvariant, PTL

(* The history is a chain of whole links, whatever was torn on the way.    *)
THEOREM HistoryIsChain == Spec => []HistoryChain
<1>1. IInv => HistoryChain
  BY DEF IInv
<1> QED
  BY <1>1, TransactionInvariant, PTL

(* Evidence is at its final path before deployment.yaml can refer to it.   *)
THEOREM EvidenceIsInPlace == Spec => []EvidenceInPlace
<1>1. IInv => EvidenceInPlace
  BY DEF IInv
<1> QED
  BY <1>1, TransactionInvariant, PTL

(* The refinement: each step is a step of the ledger or changes nothing.   *)
LEMMA OutcomeFrame ==
  ASSUME \A m \in Mutations : /\ txn'[m].next = txn[m].next
                                \/ (m \notin Installed /\ m \notin Installed')
                              /\ (m \in Installed) <=> (m \in Installed')
                              /\ txn'[m].retired = "whole" <=> txn[m].retired = "whole"
  PROVE  outcome' = outcome
BY DEF outcome

(* Outcomes are a matter of the directories.                              *)
LEMMA OutcomeSame == ASSUME UNCHANGED txn PROVE outcome' = outcome
BY DEF outcome, Installed, Prepared

(* Every step is one of the ledger, or changes neither source nor outcome.*)
LEMMA LedgerStep == IInv /\ [Next]_vars => [Mutation!Next]_<<source, outcome>>
<1> SUFFICES ASSUME IInv, [Next]_vars PROVE [Mutation!Next]_<<source, outcome>>
  OBVIOUS
<1>1. TypeOK /\ Data /\ JobInOrder
  BY Invariants
<1>2. ASSUME UNCHANGED source, UNCHANGED txn PROVE [Mutation!Next]_<<source, outcome>>
  BY <1>2, OutcomeSame
<1>3. CASE UNCHANGED vars
  BY <1>2, <1>3 DEF vars
<1>4. ASSUME NEW p \in Sessions,
             OpenProject(p) \/ PlanReconciliation(p) \/ DropPlan(p) \/ CheckSource(p)
                  \/ WriteHistory(p) \/ Recover(p) \/ RecoverEnd(p)
               \/ Reopen(p) \/ \E m \in Mutations : RecoverEntry(p, m) \/ Retire(p, m)
      PROVE  UNCHANGED source /\ UNCHANGED txn
  BY <1>4 DEF OpenProject, PlanReconciliation, DropPlan, CheckSource, WriteHistory, Recover,
       RecoverEnd, Reopen,
              RecoverEntry, Retire
<1>5. ASSUME RecoverLease PROVE UNCHANGED source /\ UNCHANGED txn
  BY <1>5 DEF RecoverLease
<1>6. ASSUME NEW v \in Versions \cup {Unreadable}, Edit(v) PROVE Mutation!Next
  BY <1>6, OutcomeSame DEF Edit, Mutation!Next, Mutation!Edit
<1>7. ASSUME NEW m \in Mutations, NEW t, txn' = [txn EXCEPT ![m] = t], UNCHANGED source,
             m \notin Installed \/ t.next = txn[m].next,
             (t.stage = "prepared" /\ ~t.candidate) <=> m \in Installed,
             t.retired = "whole" <=> txn[m].retired = "whole"
      PROVE  UNCHANGED <<source, outcome>>
  <2>1. txn'[m] = t /\ \A n \in Mutations \ {m} : txn'[n] = txn[n]
    BY <1>1, <1>7 DEF TypeOK
  <2>2. \A n \in Mutations : (n \in Installed) <=> (n \in Installed')
    BY <1>7, <2>1 DEF Installed, Prepared
  <2> QED
    BY <1>7, <2>1, <2>2, OutcomeFrame
<1>8. ASSUME NEW p \in Sessions, NEW m \in Mutations, Begin(p, m)
      PROVE  UNCHANGED <<source, outcome>>
  <2>1. CASE UNCHANGED txn
    BY <1>8, <2>1, OutcomeSame DEF Begin
  <2>2. CASE StartTransaction(p, m)
    <3>1. PICK v : txn' = [txn EXCEPT ![m] = [NoDirectory EXCEPT !.stage = "preparing",
                                                !.prior = source, !.next = v]]
      BY <2>2 DEF StartTransaction
    <3>2. txn[m].stage = "none" /\ txn[m].retired = "none"
      BY <1>1, <1>8, NotFoundIsNew, DirectoryKnown DEF Begin, Shape
    <3>3. m \notin Installed
      BY <3>2 DEF Installed, Prepared
    <3>4. UNCHANGED source
      BY <1>8 DEF Begin
    <3> QED
      BY <1>7, <3>1, <3>2, <3>3, <3>4 DEF NoDirectory
  <2> QED
    BY <1>8, <2>1, <2>2 DEF Begin
<1>9. ASSUME NEW p \in Sessions, Prepare(p) \/ Publish(p) PROVE UNCHANGED <<source, outcome>>
  <2>1. PICK m \in Mutations : m = job[p] /\ (txn[m].stage = "preparing" \/ txn[m].candidate)
    BY <1>1, <1>9 DEF JobInOrder, InOrder, Prepare, Publish
  <2>2. m \notin Installed /\ txn[m] \in Directories
    BY <1>1, <2>1, DirectoryKnown DEF Installed, Prepared
  <2>3. CASE Prepare(p)
    <3>1. txn' = [txn EXCEPT ![m] = [@ EXCEPT !.stage = "prepared", !.candidate = TRUE]]
      BY <1>1, <2>1, <2>2, <2>3 DEF Prepare, TypeOK, Directories
    <3> QED
      BY <1>7, <2>2, <2>3, <3>1 DEF Prepare, Directories
  <2>4. CASE Publish(p)
    <3>1. txn[m].stage = "prepared" /\ txn[m].candidate
      BY <1>1, <2>1, <2>4 DEF Publish, JobInOrder, InOrder
    <3>2. txn' = [txn EXCEPT ![m] = [@ EXCEPT !.evidence = "published"]]
      BY <1>1, <2>1, <2>2, <2>4 DEF Publish, TypeOK
    <3> QED
      BY <1>7, <2>2, <2>4, <3>1, <3>2 DEF Publish, Directories
  <2> QED
    BY <1>9, <2>3, <2>4
<1>10. ASSUME NEW p \in Sessions, Rename(p) PROVE [Mutation!Next]_<<source, outcome>>
  <2>1. CASE UNCHANGED <<source, txn>>
    BY <1>2, <2>1
  <2>2. CASE /\ source' = txn[job[p]].next
             /\ txn' = [txn EXCEPT ![job[p]].candidate = FALSE]
    <3>1. PICK m \in Mutations : m = job[p] /\ txn[m].stage = "prepared" /\ txn[m].candidate
                                   /\ txn[m].retired = "none"
      BY <1>1, <1>10 DEF JobInOrder, InOrder, Rename
    <3>2. txn[m].next \in Versions /\ txn[m] \in Directories
      BY <1>1, <3>1, DirectoryKnown
    <3>3. /\ txn'[m].stage = "prepared" /\ ~txn'[m].candidate /\ txn'[m].retired = "none"
          /\ txn'[m].next = txn[m].next
          /\ \A n \in Mutations \ {m} : txn'[n] = txn[n]
      BY <1>1, <2>2, <3>1, <3>2 DEF TypeOK, Directories
    <3>4. m \notin Installed /\ m \in Installed'
          /\ \A n \in Mutations \ {m} : (n \in Installed) <=> (n \in Installed')
      BY <3>1, <3>3 DEF Installed, Prepared
    <3>5. outcome[m] = Open /\ outcome' = [outcome EXCEPT ![m] = txn[m].next]
      BY <3>1, <3>3, <3>4 DEF outcome
    <3>6. \A n \in Mutations : outcome[n] # txn[m].next
      <4> SUFFICES ASSUME NEW n \in Mutations, outcome[n] = txn[m].next PROVE FALSE
        OBVIOUS
      <4>1. n \in Installed /\ outcome[n] = txn[n].next
        BY <3>2, DistinctAssumption DEF outcome, Versions
      <4>2. n = m
        BY <1>1, <3>1, <4>1 DEF Data, RevisionsDistinct, Installed, Prepared
      <4> QED
        BY <3>4, <4>1, <4>2
    <3> QED
      BY <2>2, <3>1, <3>2, <3>5, <3>6 DEF Mutation!Next, Mutation!Apply
  <2> QED
    BY <1>10, <2>1, <2>2 DEF Rename
<1>11. ASSUME NEW p \in Sessions, NEW s, pc[p] = "marker", UNCHANGED source,
              txn' = [txn EXCEPT ![job[p]].marker = s]
       PROVE  UNCHANGED <<source, outcome>>
  <2>1. PICK m \in Mutations : m = job[p] /\ m \in Installed /\ txn[m] \in Directories
    BY <1>1, <1>11, DirectoryKnown DEF JobInOrder, InOrder
  <2>2. txn' = [txn EXCEPT ![m] = [@ EXCEPT !.marker = s]]
    BY <1>1, <1>11, <2>1 DEF TypeOK
  <2> QED
    BY <1>7, <1>11, <2>1, <2>2 DEF Directories, Installed, Prepared
<1>12. ASSUME NEW p \in Sessions, WriteMarker(p) PROVE UNCHANGED <<source, outcome>>
  BY <1>11, <1>12 DEF WriteMarker
<1>13. ASSUME NEW p \in Sessions, NEW s, pc[p] = "retire", UNCHANGED source,
              txn' = [txn EXCEPT ![job[p]].retired = s]
       PROVE  \E m \in Mutations :
                /\ m = job[p] /\ m \notin Installed /\ outcome[m] = Open
                /\ outcome' = [outcome EXCEPT ![m] = IF s = "whole" THEN Retired ELSE Open]
  <2>1. PICK m \in Mutations : m = job[p] /\ txn[m].stage = "prepared" /\ txn[m].candidate
                                 /\ txn[m].retired = "none" /\ txn[m] \in Directories
    BY <1>1, <1>13, DirectoryKnown DEF JobInOrder, InOrder
  <2>2. txn'[m] = [txn[m] EXCEPT !.retired = s] /\ \A n \in Mutations \ {m} : txn'[n] = txn[n]
    BY <1>1, <1>13, <2>1 DEF TypeOK
  <2>3. txn'[m].candidate /\ txn'[m].retired = s
    BY <2>1, <2>2 DEF Directories
  <2>4. m \notin Installed /\ m \notin Installed'
        /\ \A n \in Mutations \ {m} : (n \in Installed) <=> (n \in Installed')
    BY <2>1, <2>2, <2>3 DEF Installed, Prepared
  <2>5. outcome[m] = Open
    BY <2>1, <2>4 DEF outcome
  <2>6. outcome' = [outcome EXCEPT ![m] = IF s = "whole" THEN Retired ELSE Open]
    BY <2>2, <2>3, <2>4 DEF outcome
  <2> QED
    BY <2>1, <2>4, <2>5, <2>6
<1>14. ASSUME NEW p \in Sessions, WriteRetirement(p) PROVE Mutation!Next
  BY <1>13, <1>14 DEF WriteRetirement, Mutation!Next, Mutation!Retire
<1>15. ASSUME NEW p \in Sessions, Interrupted(p), UNCHANGED source
       PROVE  UNCHANGED <<source, outcome>>
  <2>1. CASE UNCHANGED txn
    BY <1>15, <2>1, OutcomeSame
  <2>2. CASE pc[p] = "marker" /\ txn' = [txn EXCEPT ![job[p]].marker = "torn"]
    BY <1>11, <1>15, <2>2
  <2>3. CASE pc[p] = "retire" /\ txn' = [txn EXCEPT ![job[p]].retired = "torn"]
    <3> DEFINE torn == "torn"
    <3>1. \E m \in Mutations :
            /\ m = job[p] /\ m \notin Installed /\ outcome[m] = Open
            /\ outcome' = [outcome EXCEPT ![m] = IF torn = "whole" THEN Retired ELSE Open]
      <4>1. txn' = [txn EXCEPT ![job[p]].retired = torn] /\ pc[p] = "retire"
        BY <2>3
      <4>2. UNCHANGED source
        BY <1>15
      <4> HIDE DEF torn
      <4> QED
        BY <1>13, <4>1, <4>2
    <3>2. torn # "whole"
      OBVIOUS
    <3> QED
      BY <1>15, <3>1, <3>2 DEF outcome
  <2> QED
    BY <1>15, <2>1, <2>2, <2>3 DEF Interrupted
<1>16. ASSUME NEW p \in Sessions, Fault(p) \/ Crash(p) PROVE UNCHANGED <<source, outcome>>
  BY <1>15, <1>16 DEF Fault, Crash
<1> QED
  BY <1>2, <1>3, <1>4, <1>5, <1>6, <1>8, <1>9, <1>10, <1>12, <1>14, <1>16 DEF Next

(* Journals, staging, history and recovery implement the ledger: every     *)
(* mutation is applied at most once, or retired and then never applied.    *)
THEOREM TransactionsImplementLedger == Spec => ImplementsLedger
<1>1. Init => Mutation!Init
  <2> SUFFICES ASSUME Init PROVE Mutation!Init
    OBVIOUS
  <2>1. source \in Versions
    BY MutationAssumption DEF Init, Versions
  <2>2. \A m \in Mutations : txn[m].retired = "none" /\ m \notin Installed
    BY DEF Init, NoDirectory, Installed, Prepared
  <2> QED
    BY <2>1, <2>2 DEF Mutation!Init, outcome
<1> QED
  BY <1>1, LedgerStep, TransactionInvariant, PTL DEF Spec, ImplementsLedger, Mutation!Spec

(* Where nobody edits deployment.yaml from outside, the check that         *)
(* replaceSource makes before its rename is still true at the rename.      *)
CheckHolds == \A p \in Sessions : pc[p] = "rename" => source = txn[job[p]].prior

(* Every step keeps the check, as nobody edits.                           *)
LEMMA CheckStep ==
  ASSUME MaxEdits = 0
  PROVE  IInv /\ CheckHolds /\ [Next]_vars => CheckHolds'
<1> SUFFICES ASSUME IInv, CheckHolds, [Next]_vars, NEW q \in Sessions, pc'[q] = "rename"
             PROVE  source' = txn'[job'[q]].prior
  BY DEF CheckHolds
<1>1. TypeOK /\ Data /\ JobInOrder
  BY Invariants
<1>2. CASE pc[q] = "rename" /\ UNCHANGED <<source, txn, job>>
  BY <1>2 DEF CheckHolds
<1>3. ASSUME NEW p \in Sessions, NEW stage, Goto(p, stage), pc[p] # "idle" \/ lease = Free,
             stage # "rename"
      PROVE  FALSE
  BY <1>1, <1>3, OthersStayIdle
<1>4. ASSUME NEW p \in Sessions, pc[p] # "idle", Leave(p) PROVE FALSE
  <2>1. \E stage \in {"idle", "recovering"} : Goto(p, stage)
    BY <1>4 DEF Leave
  <2> QED
    BY <1>3, <1>4, <2>1
<1>5. CASE UNCHANGED vars
  BY <1>2, <1>5 DEF vars
<1>6. ASSUME NEW v, Edit(v) PROVE FALSE
  BY <1>1, <1>6 DEF Edit, TypeOK
<1>7. ASSUME RecoverLease PROVE source' = txn'[job'[q]].prior
  BY <1>2, <1>7 DEF RecoverLease
<1>8. ASSUME NEW p \in Sessions, OpenProject(p) \/ PlanReconciliation(p) \/ DropPlan(p) \/ Reopen(p)
      PROVE  source' = txn'[job'[q]].prior
  BY <1>2, <1>8 DEF OpenProject, PlanReconciliation, DropPlan, Reopen
<1>9. ASSUME NEW p \in Sessions, NEW m \in Mutations, Begin(p, m)
      PROVE  source' = txn'[job'[q]].prior
  <2>1. CASE UNCHANGED <<source, txn, pc, job>>
    BY <1>2, <2>1
  <2>2. CASE StartTransaction(p, m)
    BY <1>3, <1>9, <2>2 DEF Begin, StartTransaction
  <2> QED
    BY <1>9, <2>1, <2>2 DEF Begin
<1>10. ASSUME NEW p \in Sessions, CheckSource(p) PROVE source' = txn'[job'[q]].prior
  <2>1. CASE source = txn[job[p]].prior
    <3>1. q = p
      BY <1>1, <1>10, <2>1, OthersStayIdle DEF CheckSource
    <3> QED
      BY <1>10, <2>1, <3>1 DEF CheckSource
  <2>2. CASE source # txn[job[p]].prior
    BY <1>4, <1>10, <2>2 DEF CheckSource
  <2> QED
    BY <2>1, <2>2
<1>11. ASSUME NEW p \in Sessions, Prepare(p) \/ Publish(p) \/ Recover(p) \/ RecoverEnd(p)
         \/ WriteMarker(p) \/ WriteRetirement(p) \/ Fault(p) \/ Crash(p)
       PROVE  FALSE
  BY <1>3, <1>4, <1>11 DEF Prepare, Publish, Recover, RecoverEnd, WriteMarker, WriteRetirement,
                            Fault, Crash, Lock!Acquire
<1>12. ASSUME NEW p \in Sessions, Rename(p) PROVE FALSE
  <2>1. pc[p] # "idle" /\ (Goto(p, "check") \/ Goto(p, FirstHistoryStage(job[p])))
    BY <1>12 DEF Rename
  <2>2. FirstHistoryStage(job[p]) # "rename"
    BY DEF FirstHistoryStage
  <2> QED
    BY <1>3, <2>1, <2>2
<1>13. ASSUME NEW p \in Sessions, WriteHistory(p) PROVE FALSE
  <2>1. pc[p] # "idle" /\ (Leave(p) \/ Goto(p, Following(pc[p])))
    BY <1>13 DEF WriteHistory, HistoryStages
  <2>2. Following(pc[p]) # "rename"
    BY <1>13 DEF WriteHistory, HistoryStages, Following
  <2> QED
    BY <1>3, <1>4, <2>1, <2>2
<1>14. ASSUME NEW p \in Sessions, NEW m \in Mutations, RecoverEntry(p, m)
       PROVE  source' = txn'[job'[q]].prior
  <2>1. CASE UNCHANGED <<pc, job>>
    BY <1>2, <1>14, <2>1 DEF RecoverEntry
  <2>2. CASE Goto(p, FirstHistoryStage(m))
    BY <1>3, <1>14, <2>2, FirstStage DEF RecoverEntry
  <2> QED
    BY <1>14, <2>1, <2>2 DEF RecoverEntry
<1>15. ASSUME NEW p \in Sessions, NEW m \in Mutations, Retire(p, m) PROVE FALSE
  BY <1>3, <1>15 DEF Retire, Lock!Acquire
<1> QED
  BY <1>5, <1>6, <1>7, <1>8, <1>9, <1>10, <1>11, <1>12, <1>13, <1>14, <1>15 DEF Next

(* A candidate is only ever consumed by the rename of its own commit.      *)
LEMMA CandidateKept ==
  ASSUME IInv, [Next]_vars, NEW m \in Mutations, txn[m].candidate, ~txn'[m].candidate
  PROVE  \E p \in Sessions : pc[p] = "rename" /\ job[p] = m
<1>1. TypeOK /\ Data /\ JobInOrder
  BY Invariants
<1>2. txn[m] \in Directories /\ Shape(m) /\ txn[m].stage = "prepared"
  BY <1>1, DirectoryKnown DEF Shape, Directories
<1>3. ASSUME NEW p \in Sessions, NEW n \in Mutations, Begin(p, n) PROVE FALSE
  <2>1. n # m
    BY <1>1, <1>2, <1>3, NotFoundIsNew DEF Begin
  <2> QED
    BY <1>1, <1>3, <2>1 DEF Begin, StartTransaction, TypeOK
<1>4. ASSUME NEW p \in Sessions, Prepare(p) PROVE FALSE
  BY <1>1, <1>2, <1>4 DEF Prepare, TypeOK, Directories
<1>5. ASSUME NEW p \in Sessions, Publish(p) PROVE FALSE
  BY <1>1, <1>2, <1>5 DEF Publish, TypeOK, Directories
<1>6. ASSUME NEW p \in Sessions, WriteMarker(p) PROVE FALSE
  BY <1>1, <1>2, <1>6 DEF WriteMarker, TypeOK, Directories
<1>7. ASSUME NEW p \in Sessions, WriteRetirement(p) PROVE FALSE
  BY <1>1, <1>2, <1>7 DEF WriteRetirement, TypeOK, Directories
<1>8. ASSUME NEW p \in Sessions, Interrupted(p) PROVE FALSE
  <2>1. CASE pc[p] = "marker" /\ txn' = [txn EXCEPT ![job[p]].marker = "torn"]
    BY <1>1, <1>2, <2>1 DEF TypeOK, Directories
  <2>2. CASE pc[p] = "retire" /\ txn' = [txn EXCEPT ![job[p]].retired = "torn"]
    BY <1>1, <1>2, <2>2 DEF TypeOK, Directories
  <2>3. CASE UNCHANGED txn
    BY <2>3
  <2> QED
    BY <1>8, <2>1, <2>2, <2>3 DEF Interrupted
<1>9. ASSUME NEW p \in Sessions, Rename(p) PROVE pc[p] = "rename" /\ job[p] = m
  <2>1. CASE UNCHANGED txn
    BY <2>1
  <2>2. CASE txn' = [txn EXCEPT ![job[p]].candidate = FALSE]
    BY <1>1, <1>2, <1>9, <2>2 DEF Rename, TypeOK
  <2> QED
    BY <1>9, <2>1, <2>2 DEF Rename
<1>10. CASE UNCHANGED txn
  BY <1>10
<1>11. CASE Next
  <2>1. ASSUME NEW p \in Sessions, Fault(p) \/ Crash(p) PROVE FALSE
    BY <1>8, <2>1 DEF Fault, Crash
  <2> QED
    BY <1>3, <1>4, <1>5, <1>6, <1>7, <1>9, <1>10, <1>11, <2>1
       DEF Next, OpenProject, PlanReconciliation, DropPlan, CheckSource, WriteHistory, Recover,
            RecoverEntry, RecoverEnd,
           Retire, Reopen, RecoverLease, Edit
<1> QED
  BY <1>10, <1>11 DEF vars

(* Without an editor at work, a commit, whatever crashes and retries       *)
(* surround it, only ever replaces the version it was prepared on.         *)
THEOREM CommitsReplacePrior ==
  ASSUME MaxEdits = 0
  PROVE  Spec => ReplacesPrior
<1>1. Init => CheckHolds
  BY DEF Init, CheckHolds
<1>2. IInv /\ CheckHolds /\ [Next]_vars
        => \A m \in Mutations : txn[m].candidate /\ ~txn'[m].candidate => source = txn[m].prior
  BY CandidateKept DEF CheckHolds
<1>3. IInv /\ CheckHolds /\ [Next]_vars
        => [\A m \in Mutations :
              txn[m].candidate /\ ~txn'[m].candidate => source = txn[m].prior]_vars
  BY <1>2
<1> QED
  BY <1>1, <1>3, CheckStep, TransactionInvariant, PTL DEF Spec, ReplacesPrior

-----------------------------------------------------------------------------
(* Without edits and torn writes nothing in the way of recovery comes to   *)
(* be: a revision is one version, a prior version is one that was          *)
(* installed and is never the source again once something replaced it.     *)
Plain(r) == [rev |-> r, edited |-> FALSE]

Replaced(r) == \E m \in Installed : txn[m].prior.rev = r

Versioned ==
  /\ source = Plain(source.rev)
  /\ ~Replaced(source.rev)
  /\ \A m \in Mutations : txn[m].stage # "none" =>
       /\ txn[m].prior = Plain(txn[m].prior.rev) /\ txn[m].next = Plain(txn[m].next.rev)
       /\ txn[m].prior.rev \in {FirstRevision} \cup {txn[n].next.rev : n \in Installed}
  /\ \A m \in Mutations : txn[m].marker # "torn"

Books ==
  \A r \in Revisions :
    /\ Yaml(r) \in {None, Plain(r)}
    /\ Json(r) # None =>
         /\ Json(r) # Torn /\ Json(r).version = Plain(r)
         /\ Json(r).by = None => r = FirstRevision \/ Replaced(r)

(* A recovery is at its entries or at the history of one of them, and a    *)
(* base is recorded only where there was none.                             *)
AtWork(p) ==
  /\ todo[p] # {} => pc[p] \in HistoryStages \cup {"marker", "recovering"}
  /\ pc[p] \in {"baseYaml", "baseJson"} => Json(txn[job[p]].prior.rev) = None

Quiet == Versioned /\ Books /\ \A p \in Sessions : AtWork(p)

(* What the source, the directories and the history say.                   *)
LEMMA QuietData ==
  ASSUME Versioned, Books, UNCHANGED <<source, txn, history>>
  PROVE  Versioned' /\ Books'
BY DEF Versioned, Books, Replaced, Installed, Prepared, Yaml, Json

LEMMA QuietOthers ==
  ASSUME TypeOK, Quiet, NEW p \in Sessions, AtWork(p)',
         \A q \in Sessions \ {p} : pc'[q] = "idle",
         \A q \in Sessions \ {p} : todo'[q] = todo[q] \/ todo'[q] = {},
         pc[p] # "idle" \/ lease = Free
  PROVE  \A q \in Sessions : AtWork(q)'
<1> SUFFICES ASSUME NEW q \in Sessions, q # p PROVE AtWork(q)'
  OBVIOUS
<1>1. pc[q] = "idle" /\ pc'[q] = "idle"
  BY Alone, AllIdle
<1>2. todo[q] = {}
  BY <1>1 DEF Quiet, AtWork, HistoryStages
<1> QED
  BY <1>1, <1>2 DEF AtWork, HistoryStages

(* A call ends, or goes on with the next entry.                            *)
LEMMA QuietLeave ==
  ASSUME TypeOK, Quiet, NEW p \in Sessions, pc[p] # "idle", Leave(p)
  PROVE  \A q \in Sessions : AtWork(q)'
<1>1. \E stage \in {"idle", "recovering"} : Goto(p, stage)
  BY DEF Leave
<1>2. \A q \in Sessions \ {p} : pc'[q] = "idle"
  BY <1>1, OthersStayIdle
<1>3. \A q \in Sessions \ {p} : todo'[q] = todo[q]
  BY DEF Leave, TypeOK
<1>4. AtWork(p)'
  <2>1. CASE todo[p] = {}
    <3>1. pc'[p] = "idle" /\ todo'[p] = {}
      BY <2>1, OthersStayIdle DEF Leave
    <3> QED
      BY <3>1 DEF AtWork
  <2>2. CASE todo[p] # {}
    <3>1. pc'[p] = "recovering"
      BY <2>2, OthersStayIdle DEF Leave
    <3> QED
      BY <3>1 DEF AtWork
  <2> QED
    BY <2>1, <2>2
<1> QED
  BY <1>2, <1>3, <1>4, QuietOthers

(* The directory of one mutation changes, other than by the rename.        *)
LEMMA QuietDirectory ==
  ASSUME TypeOK, Quiet, UNCHANGED <<source, history>>, Installed' = Installed,
         \A m \in Mutations : txn'[m].marker # "torn",
         \A m \in Installed : txn'[m].prior = txn[m].prior /\ txn'[m].next = txn[m].next,
         \A m \in Mutations : txn'[m].stage # "none" =>
           /\ txn'[m].prior = Plain(txn'[m].prior.rev) /\ txn'[m].next = Plain(txn'[m].next.rev)
           /\ txn'[m].prior.rev \in {FirstRevision} \cup {txn[n].next.rev : n \in Installed}
  PROVE  Versioned' /\ Books'
<1>1. \A r : Replaced(r)' <=> \E m \in Installed : txn'[m].prior.rev = r
  BY DEF Replaced
<1>2. \A r : (\E m \in Installed : txn'[m].prior.rev = r) <=> \E m \in Installed : txn[m].prior.rev = r
  OBVIOUS
<1>3. {txn'[n].next.rev : n \in Installed'} = {txn[n].next.rev : n \in Installed}
  OBVIOUS
<1>4. ~Replaced(source.rev)'
  BY <1>1, <1>2 DEF Quiet, Versioned, Replaced
<1>5. Versioned'
  BY <1>3, <1>4 DEF Quiet, Versioned
<1>6. Books'
  <2> SUFFICES ASSUME NEW r \in Revisions
               PROVE  /\ Yaml(r)' \in {None, Plain(r)}
                      /\ Json(r)' # None =>
                           /\ Json(r)' # Torn /\ Json(r)'.version = Plain(r)
                           /\ Json(r)'.by = None => r = FirstRevision \/ Replaced(r)'
    BY DEF Books
  <2>1. Yaml(r)' = Yaml(r) /\ Json(r)' = Json(r)
    BY DEF Yaml, Json
  <2>2. Replaced(r)' <=> Replaced(r)
    BY <1>1, <1>2 DEF Replaced
  <2> QED
    BY <2>1, <2>2 DEF Quiet, Books
<1> QED
  BY <1>5, <1>6

LEMMA QuietBegin ==
  ASSUME IInv, Quiet, NEW p \in Sessions, NEW m \in Mutations, Begin(p, m)
  PROVE  Quiet'
<1>1. TypeOK /\ Data /\ UNCHANGED <<source, history, todo>> /\ pc[p] = "idle" /\ lease = Free
      /\ txn[m].stage = "none"
  BY Invariants, NotFoundIsNew DEF Begin
<1>2. CASE StartTransaction(p, m)
  <2> DEFINE v == [rev |-> CHOOSE r \in Revisions \ UsedRevisions : TRUE, edited |-> FALSE]
  <2>1. /\ txn' = [txn EXCEPT ![m] = [NoDirectory EXCEPT !.stage = "preparing",
                                        !.prior = source, !.next = v]]
        /\ v = Plain(v.rev)
    BY <1>2 DEF StartTransaction, Plain
  <2> HIDE DEF v
  <2>2. /\ txn'[m].stage = "preparing" /\ txn'[m].prior = source /\ txn'[m].next = v
        /\ txn'[m].marker = "none"
        /\ \A n \in Mutations : n # m => txn'[n] = txn[n]
    BY <1>1, <2>1 DEF TypeOK, NoDirectory
  <2>3. Installed' = Installed
    BY <1>1, <2>2 DEF Installed, Prepared
  <2>4. source.rev \in {FirstRevision} \cup {txn[n].next.rev : n \in Installed}
    BY <1>1 DEF Data, SourceInstalled, Begin
  <2>5. Versioned' /\ Books'
    <3>1. \A n \in Installed : txn'[n].prior = txn[n].prior /\ txn'[n].next = txn[n].next
      BY <1>1, <2>2 DEF Installed, Prepared
    <3>2. \A n \in Mutations : txn'[n].marker # "torn"
      BY <2>2 DEF Quiet, Versioned
    <3>3. \A n \in Mutations : txn'[n].stage # "none" =>
             /\ txn'[n].prior = Plain(txn'[n].prior.rev) /\ txn'[n].next = Plain(txn'[n].next.rev)
             /\ txn'[n].prior.rev \in {FirstRevision} \cup {txn[k].next.rev : k \in Installed}
      BY <2>1, <2>2, <2>4 DEF Quiet, Versioned
    <3> QED
      BY <1>1, <2>3, <3>1, <3>2, <3>3, QuietDirectory
  <2>6. Goto(p, "prepare")
    BY <1>2 DEF StartTransaction
  <2>7. pc'[p] = "prepare" /\ \A q \in Sessions \ {p} : pc'[q] = "idle"
    BY <1>1, <2>6, OthersStayIdle
  <2>8. AtWork(p)'
    BY <1>1, <2>7 DEF AtWork, Quiet, HistoryStages
  <2>9. \A q \in Sessions : AtWork(q)'
    BY <1>1, <2>7, <2>8, QuietOthers
  <2> QED
    BY <2>5, <2>9 DEF Quiet
<1>3. CASE UNCHANGED <<txn, lease, pc, job, plan>>
  <2>1. Versioned' /\ Books'
    BY <1>1, <1>3, QuietData DEF Quiet
  <2>2. \A q \in Sessions : AtWork(q)'
    BY <1>1, <1>3 DEF Quiet, AtWork, Json
  <2> QED
    BY <2>1, <2>2 DEF Quiet
<1> QED
  BY <1>2, <1>3 DEF Begin

(* Steps that do not touch source, directories or history.                 *)
LEMMA QuietElsewhere ==
  ASSUME IInv, Quiet, NEW p \in Sessions, UNCHANGED <<source, txn, history>>,
         \/ UNCHANGED <<pc, job, todo>>
         \/ pc[p] # "idle" /\ Leave(p)
         \/ /\ pc[p] # "idle" \/ lease = Free
            /\ \E stage \in Stages : Goto(p, stage)
            /\ \A q \in Sessions \ {p} : todo'[q] = todo[q] \/ todo'[q] = {}
            /\ AtWork(p)'
  PROVE  Quiet'
<1>1. TypeOK
  BY DEF IInv
<1>2. Versioned' /\ Books'
  BY QuietData DEF Quiet
<1>3. \A q \in Sessions : AtWork(q)'
  <2>1. CASE UNCHANGED <<pc, job, todo>>
    BY <2>1 DEF Quiet, AtWork, Json
  <2>2. CASE pc[p] # "idle" /\ Leave(p)
    BY <1>1, <2>2, QuietLeave
  <2>3. CASE /\ pc[p] # "idle" \/ lease = Free
             /\ \E stage \in Stages : Goto(p, stage)
             /\ \A q \in Sessions \ {p} : todo'[q] = todo[q] \/ todo'[q] = {}
             /\ AtWork(p)'
    <3>1. \A q \in Sessions \ {p} : pc'[q] = "idle"
      BY <1>1, <2>3, OthersStayIdle
    <3> QED
      BY <1>1, <2>3, <3>1, QuietOthers
  <2> QED
    BY <2>1, <2>2, <2>3
<1> QED
  BY <1>2, <1>3 DEF Quiet

(* The steps that only prepare, check, look or give up.                    *)
LEMMA QuietAround ==
  ASSUME IInv, Quiet, ~TornWrites, NEW p \in Sessions, NEW m,
         \/ OpenProject(p) \/ PlanReconciliation(p) \/ DropPlan(p) \/ Reopen(p) \/ CheckSource(p)
         \/ Recover(p) \/ RecoverEntry(p, m) \/ RecoverEnd(p) \/ Retire(p, m) \/ Fault(p) \/ Crash(p)
  PROVE  Quiet'
<1>1. TypeOK /\ AtWork(p) /\ (pc[p] = "idle" => todo[p] = {})
  BY DEF IInv, Quiet, AtWork, HistoryStages
<1>2. CASE OpenProject(p) \/ PlanReconciliation(p) \/ DropPlan(p) \/ Reopen(p)
  BY <1>2, QuietElsewhere DEF OpenProject, PlanReconciliation, DropPlan, Reopen
<1>3. CASE CheckSource(p)
  <2>1. CASE Leave(p)
    BY <1>3, <2>1, QuietElsewhere DEF CheckSource
  <2>2. CASE Goto(p, "rename") /\ UNCHANGED <<lease, job, todo>>
    <3>1. pc'[p] = "rename" /\ "rename" \in Stages
      BY <1>1, <1>3, <2>2, OthersStayIdle DEF CheckSource, Stages
    <3>2. AtWork(p)'
      BY <1>1, <1>3, <2>2, <3>1 DEF AtWork, CheckSource, HistoryStages
    <3> QED
      BY <1>3, <2>2, <3>1, <3>2, QuietElsewhere DEF CheckSource
  <2> QED
    BY <1>3, <2>1, <2>2 DEF CheckSource
<1>4. CASE Recover(p)
  <2>1. Goto(p, "recovering") /\ lease = Free /\ UNCHANGED <<source, txn, history>>
    BY <1>4 DEF Recover, Lock!Acquire
  <2>2. pc'[p] = "recovering" /\ "recovering" \in Stages
    BY <1>1, <2>1, OthersStayIdle DEF Stages
  <2>3. AtWork(p)'
    BY <2>2 DEF AtWork
  <2>4. \A q \in Sessions \ {p} : todo'[q] = todo[q]
    BY <1>1, <1>4 DEF Recover, TypeOK
  <2> QED
    BY <2>1, <2>2, <2>3, <2>4, QuietElsewhere
<1>5. CASE RecoverEntry(p, m)
  <2>1. pc[p] = "recovering" /\ UNCHANGED <<source, txn, history>>
    BY <1>5 DEF RecoverEntry
  <2>2. CASE job' = [job EXCEPT ![p] = m] /\ Goto(p, FirstHistoryStage(m)) /\ UNCHANGED todo
    <3>1. FirstHistoryStage(m) \in HistoryStages /\ FirstHistoryStage(m) \in Stages
      BY DEF FirstHistoryStage, HistoryStages, Stages
    <3>2. pc'[p] = FirstHistoryStage(m) /\ job'[p] = m
      BY <1>1, <2>1, <2>2, OthersStayIdle DEF TypeOK
    <3>3. FirstHistoryStage(m) \in {"baseYaml", "baseJson"} => Json(txn[m].prior.rev)' = None
      BY <2>1 DEF FirstHistoryStage, Json
    <3>4. AtWork(p)'
      BY <2>1, <3>1, <3>2, <3>3 DEF AtWork, Json
    <3> QED
      BY <2>1, <2>2, <3>1, <3>4, QuietElsewhere
  <2>3. CASE todo' = [todo EXCEPT ![p] = @ \ {m}] /\ UNCHANGED <<pc, job>>
    <3>1. AtWork(p)'
      BY <2>1, <2>3 DEF AtWork
    <3>2. Goto(p, "recovering") /\ "recovering" \in Stages
      BY <1>1, <2>1, <2>3 DEF Goto, TypeOK, Stages
    <3>3. \A q \in Sessions \ {p} : todo'[q] = todo[q]
      BY <1>1, <2>3 DEF TypeOK
    <3> QED
      BY <2>1, <3>1, <3>2, <3>3, QuietElsewhere
  <2> QED
    BY <1>5, <2>2, <2>3 DEF RecoverEntry
<1>6. CASE RecoverEnd(p)
  BY <1>6, QuietElsewhere DEF RecoverEnd
<1>7. CASE Retire(p, m)
  <2>1. Goto(p, "retire") /\ lease = Free /\ pc[p] = "idle" /\ UNCHANGED <<source, txn, history, todo>>
    BY <1>7 DEF Retire, Lock!Acquire, Idle
  <2>2. pc'[p] = "retire" /\ "retire" \in Stages
    BY <1>1, <2>1, OthersStayIdle DEF Stages
  <2>3. AtWork(p)'
    BY <1>1, <2>1, <2>2 DEF AtWork
  <2> QED
    BY <2>1, <2>2, <2>3, QuietElsewhere
<1>8. CASE Fault(p)
  BY <1>8, QuietElsewhere DEF Fault, Interrupted
<1>9. CASE Crash(p)
  <2>1. /\ Goto(p, "idle") /\ pc[p] # "idle" /\ UNCHANGED <<source, txn, history>>
        /\ todo' = [todo EXCEPT ![p] = {}]
    BY <1>9 DEF Crash, Interrupted
  <2>2. pc'[p] = "idle" /\ "idle" \in Stages
    BY <1>1, <2>1, OthersStayIdle DEF Stages
  <2>3. todo'[p] = {} /\ \A q \in Sessions \ {p} : todo'[q] = todo[q]
    BY <1>1, <2>1 DEF TypeOK
  <2>4. AtWork(p)'
    BY <2>2, <2>3 DEF AtWork
  <2> QED
    BY <2>1, <2>2, <2>3, <2>4, QuietElsewhere
<1> QED
  BY <1>2, <1>3, <1>4, <1>5, <1>6, <1>7, <1>8, <1>9

(* A field of the directory of the job is written.                         *)
LEMMA QuietField ==
  ASSUME IInv, Quiet, NEW m \in Mutations, NEW t, txn' = [txn EXCEPT ![m] = t],
         UNCHANGED <<source, history>>, txn[m].stage # "none",
         t.prior = txn[m].prior, t.next = txn[m].next, t.marker # "torn",
         m \in Installed <=> t.stage = "prepared" /\ ~t.candidate
  PROVE  Versioned' /\ Books'
<1>1. TypeOK
  BY DEF IInv
<1>2. txn'[m] = t /\ \A n \in Mutations : n # m => txn'[n] = txn[n]
  BY <1>1 DEF TypeOK
<1>3. Installed' = Installed
  BY <1>2 DEF Installed, Prepared
<1>4. \A n \in Mutations : txn'[n].marker # "torn"
  BY <1>2 DEF Quiet, Versioned
<1>5. \A n \in Mutations : txn'[n].prior = txn[n].prior /\ txn'[n].next = txn[n].next
  BY <1>2
<1>6. \A n \in Mutations : txn'[n].stage # "none" => txn[n].stage # "none"
  BY <1>2
<1>7. \A n \in Mutations : txn'[n].stage # "none" =>
        /\ txn'[n].prior = Plain(txn'[n].prior.rev) /\ txn'[n].next = Plain(txn'[n].next.rev)
        /\ txn'[n].prior.rev \in {FirstRevision} \cup {txn[k].next.rev : k \in Installed}
  BY <1>5, <1>6 DEF Quiet, Versioned
<1>8. \A n \in Installed : txn'[n].prior = txn[n].prior /\ txn'[n].next = txn[n].next
  BY <1>5 DEF Installed, Prepared
<1> QED
  BY <1>1, <1>3, <1>4, <1>7, <1>8, QuietDirectory

LEMMA QuietWrites ==
  ASSUME IInv, Quiet, NEW p \in Sessions,
         Prepare(p) \/ Publish(p) \/ WriteMarker(p) \/ WriteRetirement(p)
  PROVE  Quiet'
<1>1. TypeOK /\ Data /\ InOrder(p) /\ pc[p] # "idle" /\ UNCHANGED <<source, history>>
  BY Invariants DEF JobInOrder, Prepare, Publish, WriteMarker, WriteRetirement
<1>2. PICK m \in Mutations : /\ m = job[p] /\ txn[m].stage # "none"
                             /\ pc[p] = "prepare" => txn[m].stage = "preparing"
                             /\ pc[p] \in {"publish", "retire"} => txn[m].stage = "prepared"
                             /\ pc[p] = "marker" => m \in Installed
  BY <1>1 DEF InOrder, Prepare, Publish, WriteMarker, WriteRetirement, Installed, Prepared
<1>3. txn[m] \in Directories /\ txn[m].marker # "torn"
  BY <1>1 DEF TypeOK, Quiet, Versioned
<1>4. Versioned' /\ Books'
  <2>1. CASE Prepare(p)
    <3> DEFINE t == [txn[m] EXCEPT !.stage = "prepared", !.candidate = TRUE]
    <3>1. txn' = [txn EXCEPT ![m] = t] /\ pc[p] = "prepare"
      BY <1>1, <1>2, <2>1 DEF Prepare, TypeOK
    <3>2. t.prior = txn[m].prior /\ t.next = txn[m].next /\ t.marker # "torn" /\ t.candidate
      BY <1>3 DEF Directories
    <3>3. m \notin Installed
      BY <1>2, <3>1 DEF Installed, Prepared
    <3> HIDE DEF t
    <3> QED
      BY <1>1, <1>2, <3>1, <3>2, <3>3, QuietField
  <2>2. CASE Publish(p)
    <3> DEFINE t == [txn[m] EXCEPT !.evidence = "published"]
    <3>1. txn' = [txn EXCEPT ![m] = t]
      BY <1>1, <1>2, <2>2 DEF Publish, TypeOK
    <3>2. t.prior = txn[m].prior /\ t.next = txn[m].next /\ t.marker # "torn"
          /\ t.candidate = txn[m].candidate /\ t.stage = txn[m].stage
      BY <1>3 DEF Directories
    <3>3. m \in Installed <=> t.stage = "prepared" /\ ~t.candidate
      BY <3>2 DEF Installed, Prepared
    <3> HIDE DEF t
    <3> QED
      BY <1>1, <1>2, <3>1, <3>2, <3>3, QuietField
  <2>3. CASE WriteMarker(p)
    <3> DEFINE t == [txn[m] EXCEPT !.marker = "whole"]
    <3>1. txn' = [txn EXCEPT ![m] = t]
      BY <1>1, <1>2, <2>3 DEF WriteMarker, TypeOK
    <3>2. t.prior = txn[m].prior /\ t.next = txn[m].next /\ t.marker # "torn"
          /\ t.candidate = txn[m].candidate /\ t.stage = txn[m].stage
      BY <1>3 DEF Directories
    <3>3. m \in Installed <=> t.stage = "prepared" /\ ~t.candidate
      BY <3>2 DEF Installed, Prepared
    <3> HIDE DEF t
    <3> QED
      BY <1>1, <1>2, <3>1, <3>2, <3>3, QuietField
  <2>4. CASE WriteRetirement(p)
    <3> DEFINE t == [txn[m] EXCEPT !.retired = "whole"]
    <3>1. txn' = [txn EXCEPT ![m] = t]
      BY <1>1, <1>2, <2>4 DEF WriteRetirement, TypeOK
    <3>2. t.prior = txn[m].prior /\ t.next = txn[m].next /\ t.marker # "torn"
          /\ t.candidate = txn[m].candidate /\ t.stage = txn[m].stage
      BY <1>3 DEF Directories
    <3>3. m \in Installed <=> t.stage = "prepared" /\ ~t.candidate
      BY <3>2 DEF Installed, Prepared
    <3> HIDE DEF t
    <3> QED
      BY <1>1, <1>2, <3>1, <3>2, <3>3, QuietField
  <2> QED
    BY <2>1, <2>2, <2>3, <2>4
<1>5. \A q \in Sessions : AtWork(q)'
  <2>1. CASE WriteMarker(p) \/ WriteRetirement(p)
    BY <1>1, <2>1, QuietLeave DEF WriteMarker, WriteRetirement
  <2>2. CASE Prepare(p) \/ Publish(p)
    <3>1. /\ pc[p] \in {"prepare", "publish"} /\ todo' = todo
          /\ \E stage \in {"publish", "check"} : Goto(p, stage)
      BY <2>2 DEF Prepare, Publish
    <3>2. pc'[p] \in {"publish", "check"} /\ \A q \in Sessions \ {p} : pc'[q] = "idle"
      BY <1>1, <3>1, OthersStayIdle
    <3>3. todo'[p] = {}
      BY <3>1 DEF Quiet, AtWork, HistoryStages
    <3>4. AtWork(p)'
      BY <3>2, <3>3 DEF AtWork
    <3> QED
      BY <1>1, <3>1, <3>2, <3>4, QuietOthers
  <2> QED
    BY <2>1, <2>2
<1> QED
  BY <1>4, <1>5 DEF Quiet

(* The commit point: the new version is nobody's prior version yet.        *)
LEMMA QuietRename ==
  ASSUME IInv, Quiet, NEW p \in Sessions, Rename(p)
  PROVE  Quiet'
<1>1. TypeOK /\ Data /\ InOrder(p) /\ pc[p] = "rename" /\ UNCHANGED <<history, lease, job, todo>>
  BY Invariants DEF JobInOrder, Rename
<1>2. PICK m \in Mutations : m = job[p] /\ txn[m].stage = "prepared" /\ txn[m].candidate
  BY <1>1 DEF InOrder
<1>3. todo[p] = {}
  BY <1>1 DEF Quiet, AtWork, HistoryStages
<1>4. CASE Goto(p, "check") /\ UNCHANGED <<source, txn>>
  <2>1. pc'[p] = "check" /\ "check" \in Stages
    BY <1>1, <1>4, OthersStayIdle DEF Stages
  <2>2. AtWork(p)'
    BY <1>1, <1>3, <2>1 DEF AtWork
  <2> QED
    BY <1>1, <1>4, <2>1, <2>2, QuietElsewhere
<1>5. CASE /\ source' = txn[m].next /\ txn' = [txn EXCEPT ![m].candidate = FALSE]
           /\ Goto(p, FirstHistoryStage(m))
  <2>1. /\ txn'[m].stage = "prepared" /\ ~txn'[m].candidate /\ txn'[m].prior = txn[m].prior
        /\ txn'[m].next = txn[m].next /\ txn'[m].marker = txn[m].marker
        /\ \A n \in Mutations : n # m => txn'[n] = txn[n]
    BY <1>1, <1>2, <1>5 DEF TypeOK, Directories
  <2>2. Installed' = Installed \cup {m} /\ m \notin Installed
    BY <1>2, <2>1 DEF Installed, Prepared
  <2>3. \A n \in Mutations : /\ txn'[n].prior = txn[n].prior /\ txn'[n].next = txn[n].next
                             /\ txn'[n].marker = txn[n].marker /\ txn'[n].stage = txn[n].stage
    BY <1>2, <2>1
  <2>4. \A n \in Installed' : txn[n].stage # "none" /\ n \in Mutations
    BY <1>2, <2>2 DEF Installed, Prepared
  <2>5. \A n \in Mutations : txn[n].stage # "none" => txn[n].prior.rev # txn[m].next.rev
    <3> SUFFICES ASSUME NEW n \in Mutations, txn[n].stage # "none",
                        txn[n].prior.rev = txn[m].next.rev
                 PROVE  FALSE
      OBVIOUS
    <3>1. txn[m].next.rev # FirstRevision
      BY <1>1, <1>2 DEF Data, SourceInstalled
    <3>2. PICK k \in Installed : txn[k].next.rev = txn[m].next.rev
      BY <3>1 DEF Quiet, Versioned
    <3>3. k = m
      BY <1>1, <1>2, <3>2 DEF Data, RevisionsDistinct, Installed, Prepared
    <3> QED
      BY <2>2, <3>3
  <2>6. ~Replaced(source.rev)'
    BY <1>5, <2>3, <2>4, <2>5 DEF Replaced
  <2>7. {txn[n].next.rev : n \in Installed} \subseteq {txn'[n].next.rev : n \in Installed'}
    <3> SUFFICES ASSUME NEW n \in Installed PROVE txn[n].next.rev \in {txn'[k].next.rev : k \in Installed'}
      OBVIOUS
    <3>1. n \in Mutations /\ n \in Installed'
      BY <2>2 DEF Installed, Prepared
    <3> QED
      BY <2>3, <3>1
  <2>8. Versioned'
    <3>1. source' = Plain(source'.rev)
      BY <1>2, <1>5 DEF Quiet, Versioned
    <3>2. \A n \in Mutations : txn[n].stage # "none" =>
            /\ txn[n].prior = Plain(txn[n].prior.rev) /\ txn[n].next = Plain(txn[n].next.rev)
            /\ txn[n].prior.rev \in {FirstRevision} \cup {txn'[k].next.rev : k \in Installed'}
      BY <2>7 DEF Quiet, Versioned
    <3>3. \A n \in Mutations : txn[n].marker # "torn"
      BY DEF Quiet, Versioned
    <3> QED
      BY <2>3, <2>6, <3>1, <3>2, <3>3 DEF Versioned
  <2>9. \A r : Replaced(r) => Replaced(r)'
    BY <2>2, <2>3, <2>4 DEF Replaced
  <2>10. Books'
    BY <1>1, <2>9 DEF Quiet, Books, Yaml, Json
  <2>11. pc'[p] = FirstHistoryStage(m) /\ \A q \in Sessions \ {p} : pc'[q] = "idle"
    BY <1>1, <1>5, OthersStayIdle
  <2>12. AtWork(p)'
    <3>1. FirstHistoryStage(m) \in {"baseYaml", "baseJson"} => Json(txn[m].prior.rev) = None
      BY DEF FirstHistoryStage
    <3> QED
      BY <1>1, <1>2, <1>3, <2>1, <2>11, <3>1 DEF AtWork, Json
  <2>13. \A q \in Sessions : AtWork(q)'
    BY <1>1, <2>11, <2>12, QuietOthers
  <2> QED
    BY <2>8, <2>10, <2>13 DEF Quiet
<1> QED
  BY <1>2, <1>4, <1>5 DEF Rename

(* A file of the history is written as finalizeHistory writes it.          *)
LEMMA QuietYaml ==
  ASSUME TypeOK, Quiet, UNCHANGED <<source, txn>>, NEW k \in Revisions,
         history' = [history EXCEPT ![<<k, "yaml">>] = Plain(k)]
  PROVE  Versioned' /\ Books' /\ \A r \in Revisions : Json(r)' = Json(r)
<1>1. Versioned'
  BY DEF Quiet, Versioned, Replaced, Installed, Prepared
<1>2. \A r \in Revisions : <<r, "yaml">> \in Files /\ <<r, "json">> \in Files
  BY DEF Files
<1>3. \A r \in Revisions : Json(r)' = Json(r)
  BY <1>2 DEF TypeOK, Json
<1>4. \A r \in Revisions : Yaml(r)' = Yaml(r) \/ Yaml(r)' = Plain(r)
  BY <1>2 DEF TypeOK, Yaml
<1>5. \A r : Replaced(r)' <=> Replaced(r)
  BY DEF Replaced, Installed, Prepared
<1> QED
  BY <1>1, <1>3, <1>4, <1>5 DEF Quiet, Books

LEMMA QuietJson ==
  ASSUME TypeOK, Quiet, UNCHANGED <<source, txn>>, NEW k \in Revisions, NEW c \in Entries,
         history' = [history EXCEPT ![<<k, "json">>] = c],
         c.version = Plain(k), c.by = None => k = FirstRevision \/ Replaced(k)
  PROVE  Versioned' /\ Books'
<1>1. Versioned'
  BY DEF Quiet, Versioned, Replaced, Installed, Prepared
<1>2. \A r \in Revisions : <<r, "yaml">> \in Files /\ <<r, "json">> \in Files
  BY DEF Files
<1>3. \A r \in Revisions : Yaml(r)' = Yaml(r)
  BY <1>2 DEF TypeOK, Yaml
<1>4. \A r \in Revisions : Json(r)' = Json(r) \/ (r = k /\ Json(r)' = c)
  BY <1>2 DEF TypeOK, Json
<1>5. \A r : Replaced(r)' <=> Replaced(r)
  BY DEF Replaced, Installed, Prepared
<1>6. c # Torn
  BY WholeIsNotMark
<1>7. \A r \in Revisions : Yaml(r)' \in {None, Plain(r)}
  BY <1>3 DEF Quiet, Books
<1>8. ASSUME NEW r \in Revisions, Json(r)' # None
      PROVE  /\ Json(r)' # Torn /\ Json(r)'.version = Plain(r)
             /\ Json(r)'.by = None => r = FirstRevision \/ Replaced(r)
  <2>1. CASE Json(r)' = Json(r)
    BY <1>8, <2>1 DEF Quiet, Books
  <2>2. CASE r = k /\ Json(r)' = c
    BY <1>6, <2>2
  <2> QED
    BY <1>4, <2>1, <2>2
<1>9. Books'
  BY <1>5, <1>7, <1>8 DEF Books
<1> QED
  BY <1>1, <1>9

(* A base is recorded of a version that the job has replaced.              *)
LEMMA QuietHistory ==
  ASSUME IInv, Quiet, NEW p \in Sessions, WriteHistory(p)
  PROVE  Quiet'
<1>1. /\ TypeOK /\ InOrder(p) /\ DirectoryShape /\ pc[p] \in HistoryStages /\ pc[p] # "idle"
      /\ UNCHANGED <<source, txn>>
  BY DEF IInv, JobInOrder, WriteHistory, HistoryStages
<1>2. CASE Leave(p) /\ UNCHANGED history
  BY <1>1, <1>2, QuietElsewhere
<1>3. CASE /\ history' = [history EXCEPT ![Target(p)] = Content(p)]
           /\ Goto(p, Following(pc[p])) /\ UNCHANGED <<lease, job, todo>>
  <2>1. PICK m \in Mutations :
          /\ m = job[p] /\ m \in Installed /\ txn[m].prior.rev \in Revisions
          /\ txn[m].next.rev \in Revisions /\ txn[m].stage # "none"
    BY <1>1, WriteTyped DEF Installed, Prepared
  <2>2. txn[m].prior = Plain(txn[m].prior.rev) /\ txn[m].next = Plain(txn[m].next.rev)
        /\ Replaced(txn[m].prior.rev)
    BY <2>1 DEF Quiet, Versioned, Replaced
  <2>3. /\ pc'[p] = Following(pc[p]) /\ \A q \in Sessions \ {p} : pc'[q] = "idle"
    BY <1>1, <1>3, OthersStayIdle
  <2>4. CASE pc[p] = "baseYaml"
    <3>1. history' = [history EXCEPT ![<<txn[m].prior.rev, "yaml">>] = Plain(txn[m].prior.rev)]
      BY <1>3, <2>1, <2>2, <2>4 DEF Target, Content
    <3>2. Versioned' /\ Books' /\ Json(txn[m].prior.rev)' = Json(txn[m].prior.rev)
      BY <1>1, <2>1, <3>1, QuietYaml
    <3>3. Json(txn[m].prior.rev) = None
      BY <2>1, <2>4 DEF Quiet, AtWork
    <3>4. pc'[p] = "baseJson" /\ job' = job /\ todo' = todo /\ txn' = txn
      BY <1>1, <1>3, <2>3, <2>4 DEF Following
    <3>5. Json(txn[job[p]].prior.rev)' = None
      BY <2>1, <3>2, <3>3, <3>4 DEF Json
    <3>6. AtWork(p)'
      BY <3>4, <3>5 DEF AtWork, HistoryStages, Json
    <3> QED
      BY <1>1, <1>3, <2>3, <3>2, <3>6, QuietOthers DEF Quiet
  <2>5. CASE pc[p] # "baseYaml"
    <3>1. Versioned' /\ Books'
      <4>1. CASE pc[p] = "baseJson"
        <5> DEFINE c == [version |-> txn[m].prior, by |-> None]
        <5>1. history' = [history EXCEPT ![<<txn[m].prior.rev, "json">>] = c]
          BY <1>3, <2>1, <4>1 DEF Target, Content
        <5>2. c \in Entries /\ c.version = Plain(txn[m].prior.rev)
          BY <1>1, <2>1, <2>2, WriteTyped DEF Entries
        <5> HIDE DEF c
        <5> QED
          BY <1>1, <2>1, <2>2, <5>1, <5>2, QuietJson
      <4>2. CASE pc[p] = "nextYaml"
        <5>1. history' = [history EXCEPT ![<<txn[m].next.rev, "yaml">>] = Plain(txn[m].next.rev)]
          BY <1>3, <2>1, <2>2, <4>2 DEF Target, Content
        <5> QED
          BY <1>1, <2>1, <5>1, QuietYaml
      <4>3. CASE pc[p] = "nextJson"
        <5> DEFINE c == [version |-> txn[m].next, by |-> m]
        <5>1. history' = [history EXCEPT ![<<txn[m].next.rev, "json">>] = c]
          BY <1>3, <2>1, <4>3 DEF Target, Content
        <5>2. c \in Entries /\ c.version = Plain(txn[m].next.rev) /\ c.by = m
          BY <1>1, <2>1, <2>2, WriteTyped DEF Entries
        <5>3. c.by # None
          BY <5>2, DistinctAssumption
        <5> HIDE DEF c
        <5> QED
          BY <1>1, <2>1, <5>1, <5>2, <5>3, QuietJson
      <4> QED
        BY <1>1, <2>5, <4>1, <4>2, <4>3 DEF HistoryStages
    <3>2. pc'[p] \in {"nextYaml", "nextJson", "marker"}
      BY <1>1, <2>3, <2>5 DEF Following, HistoryStages
    <3>3. AtWork(p)'
      BY <3>2 DEF AtWork, HistoryStages
    <3> QED
      BY <1>1, <1>3, <2>3, <3>1, <3>3, QuietOthers DEF Quiet
  <2> QED
    BY <2>4, <2>5
<1> QED
  BY <1>2, <1>3 DEF WriteHistory

LEMMA QuietInit == Init => Quiet
<1> SUFFICES ASSUME Init PROVE Quiet
  OBVIOUS
<1>1. Installed = {} /\ \A r : ~Replaced(r)
  BY DEF Init, Installed, Prepared, NoDirectory, Replaced
<1>2. Versioned
  BY <1>1 DEF Init, Versioned, NoDirectory, Plain
<1>3. \A p \in Sessions : AtWork(p)
  BY DEF Init, AtWork
<1>4. Books
  <2> DEFINE first == [rev |-> FirstRevision, edited |-> FALSE]
             entry == [version |-> first, by |-> None]
  <2>1. first = Plain(FirstRevision) /\ first \in Versions /\ entry \in Entries
    BY MutationAssumption DEF Plain, Versions, Entries
  <2>2. \A r \in Revisions : /\ <<r, "yaml">> \in Files /\ <<r, "json">> \in Files
    BY DEF Files
  <2>3. \A r \in Revisions : /\ Yaml(r) = None \/ (r = FirstRevision /\ Yaml(r) = first)
                             /\ Json(r) = None \/ (r = FirstRevision /\ Json(r) = entry)
    BY <2>2 DEF Init, Yaml, Json
  <2>4. entry # Torn /\ entry.version = first
    BY <2>1, WholeIsNotMark
  <2> HIDE DEF first, entry
  <2> QED
    BY <2>1, <2>3, <2>4 DEF Books
<1> QED
  BY <1>2, <1>3, <1>4 DEF Quiet

LEMMA QuietStep ==
  ASSUME MaxEdits = 0, TornWrites = FALSE
  PROVE  IInv /\ Quiet /\ [Next]_vars => Quiet'
<1> SUFFICES ASSUME IInv, Quiet, [Next]_vars PROVE Quiet'
  OBVIOUS
<1>1. CASE UNCHANGED vars
  <2>1. Versioned' /\ Books'
    BY <1>1, QuietData DEF Quiet, vars
  <2>2. \A p \in Sessions : AtWork(p)'
    BY <1>1 DEF Quiet, AtWork, Json, vars
  <2> QED
    BY <2>1, <2>2 DEF Quiet
<1>2. CASE RecoverLease
  <2>1. Versioned' /\ Books'
    BY <1>2, QuietData DEF Quiet, RecoverLease
  <2>2. \A p \in Sessions : AtWork(p)'
    BY <1>2 DEF Quiet, AtWork, Json, RecoverLease
  <2> QED
    BY <2>1, <2>2 DEF Quiet
<1>3. ASSUME NEW v, Edit(v) PROVE FALSE
  BY <1>3 DEF Edit, IInv, TypeOK
<1>4. ASSUME NEW p \in Sessions,
             \/ OpenProject(p) \/ PlanReconciliation(p) \/ DropPlan(p) \/ Reopen(p)
             \/ CheckSource(p) \/ Recover(p) \/ RecoverEnd(p) \/ Fault(p) \/ Crash(p)
      PROVE  Quiet'
  BY <1>4, QuietAround
<1>5. ASSUME NEW p \in Sessions, NEW m \in Mutations, RecoverEntry(p, m) \/ Retire(p, m)
      PROVE  Quiet'
  BY <1>5, QuietAround
<1>6. CASE Next
  BY <1>2, <1>3, <1>4, <1>5, <1>6, QuietBegin, QuietWrites, QuietRename, QuietHistory DEF Next
<1> QED
  BY <1>1, <1>6

(* Nothing a recovery finds is in the way of the history of its entry.     *)
LEMMA HistoryFits ==
  ASSUME IInv, Quiet, NEW p \in Sessions, pc[p] \in HistoryStages, source = txn[job[p]].next
  PROVE  history[Target(p)] \in {None, Content(p)}
<1>1. TypeOK /\ InOrder(p) /\ DirectoryShape /\ RevisionsDistinct /\ SourceInstalled /\ HistoryChain
  BY DEF IInv, JobInOrder
<1>2. PICK m \in Mutations :
        /\ m = job[p] /\ m \in Installed /\ txn[m].prior.rev \in Revisions
        /\ txn[m].next.rev \in Revisions /\ txn[m].stage # "none" /\ source = txn[m].next
  BY <1>1, WriteTyped DEF Installed, Prepared
<1>3. txn[m].prior = Plain(txn[m].prior.rev) /\ txn[m].next = Plain(txn[m].next.rev)
  BY <1>2 DEF Quiet, Versioned
<1>4. CASE pc[p] = "baseYaml"
  <2>1. Target(p) = <<txn[m].prior.rev, "yaml">> /\ Content(p) = txn[m].prior
    BY <1>2, <1>4 DEF Target, Content
  <2>2. Yaml(txn[m].prior.rev) \in {None, Plain(txn[m].prior.rev)}
    BY <1>2 DEF Quiet, Books
  <2> QED
    BY <1>3, <2>1, <2>2 DEF Yaml
<1>5. CASE pc[p] = "baseJson"
  <2>1. Target(p) = <<txn[m].prior.rev, "json">>
    BY <1>2, <1>5 DEF Target
  <2> QED
    BY <1>2, <1>5, <2>1 DEF Quiet, AtWork, Json
<1>6. CASE pc[p] = "nextYaml"
  <2>1. Target(p) = <<txn[m].next.rev, "yaml">> /\ Content(p) = txn[m].next
    BY <1>2, <1>6 DEF Target, Content
  <2>2. Yaml(txn[m].next.rev) \in {None, Plain(txn[m].next.rev)}
    BY <1>2 DEF Quiet, Books
  <2> QED
    BY <1>3, <2>1, <2>2 DEF Yaml
<1>7. CASE pc[p] = "nextJson"
  <2> DEFINE r == txn[m].next.rev
             e == Json(txn[m].next.rev)
  <2>1. Target(p) = <<r, "json">> /\ Content(p) = [version |-> txn[m].next, by |-> m]
    BY <1>2, <1>7 DEF Target, Content
  <2>2. ASSUME e # None PROVE e = [version |-> txn[m].next, by |-> m]
    <3>1. e # Torn /\ e.version = txn[m].next
      BY <1>2, <1>3, <2>2 DEF Quiet, Books
    <3>2. r # FirstRevision /\ ~Replaced(r)
      BY <1>1, <1>2 DEF SourceInstalled, Quiet, Versioned
    <3>3. e.by # None
      BY <1>2, <2>2, <3>2 DEF Quiet, Books
    <3>4. e \in Entries
      BY <1>1, <1>2, <2>2, <3>1 DEF TypeOK
    <3>5. Chained(r)
      BY <1>1, <1>2, <2>2, <3>1 DEF HistoryChain, Registered
    <3>6. e.by \in Mutations /\ e.by \in Installed /\ e.version = txn[e.by].next
      BY <3>3, <3>4, <3>5 DEF Chained, Entries
    <3>7. e.by = m
      BY <1>1, <1>2, <3>1, <3>6 DEF RevisionsDistinct, Installed, Prepared
    <3> QED
      BY <3>1, <3>4, <3>7 DEF Entries
  <2> QED
    BY <2>1, <2>2 DEF Json
<1> QED
  BY <1>4, <1>5, <1>6, <1>7 DEF HistoryStages

(* Which step may take an entry off the list, and what it leaves behind.   *)
LEMMA EntryFinalized ==
  ASSUME IInv, Quiet, MaxEdits = 0, TornWrites = FALSE, [Next]_vars,
         NEW p \in Sessions, NEW m \in Mutations,
         m \in todo[p], m \notin todo'[p], faults' = faults,
         m \in Installed, source = txn[m].next
  PROVE  txn'[m].marker = "whole"
<1>1. TypeOK /\ AtWork(p) /\ pc[p] # "idle" /\ todo[p] # {}
  BY DEF IInv, Quiet, AtWork, HistoryStages
<1>2. ASSUME NEW q \in Sessions, todo' # todo, pc[q] # "idle" \/ lease = Free PROVE q = p
  BY <1>1, <1>2, Alone, AllIdle
<1>3. ASSUME NEW q \in Sessions, Leave(q), pc[q] # "idle" PROVE q = p /\ m = job[p]
  <2>1. todo' # todo
    OBVIOUS
  <2>2. q = p
    BY <1>2, <1>3, <2>1
  <2>3. todo' = [todo EXCEPT ![p] = @ \ {job[p]}]
    BY <1>1, <1>3, <2>2 DEF Leave
  <2> QED
    BY <1>1, <2>2, <2>3 DEF TypeOK
<1>4. ASSUME NEW q \in Sessions, WriteMarker(q) PROVE txn'[m].marker = "whole"
  <2>1. q = p /\ m = job[p]
    BY <1>3, <1>4 DEF WriteMarker
  <2> QED
    BY <1>1, <1>4, <2>1 DEF WriteMarker, TypeOK, Directories
<1>5. ASSUME NEW q \in Sessions, CheckSource(q) \/ WriteRetirement(q) PROVE FALSE
  <2>1. CheckSource(q) => Leave(q)
    BY <1>5 DEF CheckSource, WriteRetirement
  <2>2. q = p
    BY <1>3, <1>5, <2>1 DEF CheckSource, WriteRetirement
  <2> QED
    BY <1>1, <1>5, <2>2 DEF AtWork, HistoryStages, CheckSource, WriteRetirement
<1>6. ASSUME NEW q \in Sessions, WriteHistory(q) PROVE FALSE
  <2>1. Leave(q) /\ pc[q] \in HistoryStages /\ history[Target(q)] \notin {None, Content(q)}
    BY <1>6 DEF WriteHistory
  <2>2. q = p /\ m = job[p]
    BY <1>3, <2>1 DEF HistoryStages
  <2> QED
    BY <2>1, <2>2, HistoryFits
<1>7. ASSUME NEW q \in Sessions, Recover(q) PROVE FALSE
  <2>1. lease = Free
    BY <1>7 DEF Recover, Lock!Acquire
  <2> QED
    BY <1>1, <2>1, AllIdle
<1>8. ASSUME NEW q \in Sessions, RecoverEnd(q) PROVE FALSE
  <2>1. q = p
    BY <1>3, <1>8 DEF RecoverEnd
  <2> QED
    BY <1>1, <1>8, <2>1 DEF RecoverEnd
<1>9. ASSUME NEW q \in Sessions, NEW n \in Mutations, RecoverEntry(q, n)
      PROVE  txn'[m].marker = "whole"
  <2>1. ~NeedsHistory(n) /\ todo' = [todo EXCEPT ![q] = @ \ {n}] /\ txn' = txn
    BY <1>9 DEF RecoverEntry
  <2>2. n = m
    BY <1>1, <2>1 DEF TypeOK
  <2>3. txn[m].retired = "none" /\ txn[m].evidence = "published" /\ txn[m].stage = "prepared"
    <3>1. Shape(m) /\ EvidenceInPlace /\ txn[m].retired \in FileState
      BY DEF IInv, DirectoryShape, TypeOK, Directories
    <3> QED
      BY <3>1 DEF Shape, EvidenceInPlace, Installed, Prepared
  <2>4. txn[m].marker \in FileState /\ txn[m].marker # "torn" /\ txn[m].marker # "none"
    BY <1>1, <2>1, <2>2, <2>3 DEF NeedsHistory, TypeOK, Directories, Quiet, Versioned
  <2> QED
    BY <2>1, <2>4 DEF FileState
<1>10. ASSUME NEW q \in Sessions, Fault(q) \/ Crash(q) PROVE FALSE
  BY <1>1, <1>10 DEF Fault, Crash, TypeOK
<1>11. CASE Next
  <2>1. todo' # todo
    OBVIOUS
  <2> QED
    BY <1>4, <1>5, <1>6, <1>7, <1>8, <1>9, <1>10, <1>11, <2>1
       DEF Next, OpenProject, PlanReconciliation, DropPlan, Prepare, Publish, Rename, Reopen,
           Begin, Retire, RecoverLease, Edit
<1> QED
  BY <1>11 DEF vars

(* Where nobody edits the source and no interrupted write leaves a torn    *)
(* file, recover() finalizes every transaction whose new version it finds  *)
(* installed: none of the history it meets is refused as tampered.         *)
THEOREM RecoveryIsThorough ==
  ASSUME MaxEdits = 0, TornWrites = FALSE
  PROVE  Spec => RecoveryFinalizes
<1>1. IInv /\ Quiet /\ [Next]_vars
        => \A p \in Sessions, m \in Mutations :
             /\ m \in todo[p] /\ m \notin todo'[p] /\ faults' = faults
             /\ m \in Installed /\ source = txn[m].next
             => txn'[m].marker = "whole"
  BY EntryFinalized
<1>2. IInv /\ Quiet /\ [Next]_vars
        => [\A p \in Sessions, m \in Mutations :
             /\ m \in todo[p] /\ m \notin todo'[p] /\ faults' = faults
             /\ m \in Installed /\ source = txn[m].next
             => txn'[m].marker = "whole"]_vars
  BY <1>1
<1> QED
  BY <1>2, QuietInit, QuietStep, TransactionInvariant, PTL DEF Spec, RecoveryFinalizes
=============================================================================

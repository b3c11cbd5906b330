--------------------------- MODULE ServicesProofs ---------------------------
(***************************************************************************)
(* Proofs about the services of an open project that module MCServices     *)
(* composes.  Each section is about one of them: the inductive invariant   *)
(* that its module states, one lemma for each action or group of actions   *)
(* alike, and that the invariant implies what the service promises.  As in *)
(* MCServices, v1, v2, ... are the variables of the component in the order *)
(* in which its module declares them.                                      *)
(***************************************************************************)
EXTENDS MCServices, SequenceTheorems, TLAPS

-----------------------------------------------------------------------------
(* SafeRoot: v1 tails, v2 ops, v3 handles, v4 open, v5 closed, v6 closing, *)
(* v7 pinned, v8 opsStarted.                                               *)

LEMMA RootConstants ==
  /\ None \notin Ops
  /\ Paths # {}
  /\ MaxStarts \in Nat
BY ServicesAssumption DEF F!OpsAssumption

LEMMA RootStarts == F!Init => F!RootInv
<1> SUFFICES ASSUME F!Init PROVE F!RootInv
  OBVIOUS
<1> USE RootConstants DEF F!Init, F!Free
<1>1. F!Typed
  <2>1. (CHOOSE p \in Paths : TRUE) \in Paths
    OBVIOUS
  <2> QED
    BY <2>1 DEF F!Typed, F!Stages
<1>2. F!Queues
  <2> SUFFICES ASSUME NEW p \in Paths
               PROVE  \E queue \in Seq(Ops) : F!QueueOf(p, queue)
    BY DEF F!Queues
  <2>1. <<>> \in Seq(Ops) /\ Len(<<>>) = 0
    OBVIOUS
  <2>2. F!QueueOf(p, <<>>)
    BY <2>1 DEF F!QueueOf, F!InLine, F!At
  <2> QED
    BY <2>1, <2>2
<1>3. F!Closable
  BY DEF F!Closable
<1> QED
  BY <1>1, <1>2, <1>3 DEF F!RootInv, F!At

(* The operation whose turn it is stands first in the queue of its path,   *)
(* and every member knows whom it awaits.                                  *)
LEMMA First ==
  ASSUME F!RootInv, NEW o \in Ops, ~F!At(o, "idle"),
         ~F!At(o, "wait") \/ v2[o].previous = None,
         NEW p \in Paths, NEW queue \in Seq(Ops), F!QueueOf(p, queue)
  PROVE  \A k \in 1..Len(queue) : queue[k] = o => k = 1
<1> SUFFICES ASSUME NEW k \in 1..Len(queue), queue[k] = o, k # 1 PROVE FALSE
  OBVIOUS
<1>1. F!At(o, "wait") /\ v2[o].previous = queue[k - 1]
  BY DEF F!QueueOf, F!InLine
<1>2. queue[k - 1] \in Ops
  BY ElementOfSeq
<1> QED
  BY <1>1, <1>2, RootConstants

(* An operation whose turn it is goes on: the queues stay as they are.     *)
LEMMA TurnGoesOn ==
  ASSUME F!RootInv, NEW o \in Ops, ~F!At(o, "idle"),
         ~F!At(o, "wait") \/ v2[o].previous = None,
         NEW pc \in F!Stages, pc # "idle",
         F!Goto(o, pc), v1' = v1
  PROVE  F!Typed' /\ F!Queues' /\ \A q \in Ops : F!At(q, "idle")' => v2'[q].previous = None
<1> USE DEF F!RootInv
<1>1. F!Typed'
  BY DEF F!Typed, F!Goto
<1>2. \A q \in Ops : /\ v2'[q].path = v2[q].path
                     /\ v2'[q].previous = v2[q].previous
                     /\ F!At(q, "idle")' <=> F!At(q, "idle")
                     /\ q # o => v2'[q].pc = v2[q].pc
  BY DEF F!Typed, F!Goto, F!At
<1>3. F!Queues'
  <2> SUFFICES ASSUME NEW p \in Paths
               PROVE  \E queue \in Seq(Ops) : F!QueueOf(p, queue)'
    BY DEF F!Queues
  <2>1. PICK queue \in Seq(Ops) : F!QueueOf(p, queue)
    BY DEF F!Queues
  <2>2. \A k \in 1..Len(queue) : queue[k] \in Ops
    BY ElementOfSeq
  <2>3. \A k \in 1..Len(queue) : queue[k] = o => k = 1
    BY <2>1, First
  <2>4. F!InLine(p, queue)'
    <3>1. v1'[p] = IF queue = <<>> THEN None ELSE queue[Len(queue)]
      BY <2>1 DEF F!QueueOf, F!InLine
    <3>2. ASSUME NEW k \in 1..Len(queue)
          PROVE  /\ v2'[queue[k]].path = p
                 /\ ~F!At(queue[k], "idle")'
                 /\ v2'[queue[k]].previous = IF k = 1 THEN None ELSE queue[k - 1]
                 /\ k > 1 => F!At(queue[k], "wait")'
      BY <1>2, <2>1, <2>2, <2>3 DEF F!QueueOf, F!InLine, F!Path, F!At
    <3>3. \A k, l \in 1..Len(queue) : queue[k] = queue[l] => k = l
      BY <2>1 DEF F!QueueOf, F!InLine
    <3> QED
      BY <3>1, <3>2, <3>3 DEF F!InLine, F!Path
  <2>5. \A q \in Ops : F!Path(q)' = p /\ ~F!At(q, "idle")' => F!InQueue(q, queue)
    BY <1>2, <2>1 DEF F!QueueOf, F!Path
  <2>6. F!QueueOf(p, queue)'
    BY <2>4, <2>5 DEF F!QueueOf, F!InQueue
  <2> QED
    BY <2>6
<1>4. \A q \in Ops : F!At(q, "idle")' => v2'[q].previous = None
  BY <1>2
<1> QED
  BY <1>1, <1>3, <1>4

LEMMA RunQueues ==
  ASSUME F!RootInv, NEW o \in Ops, NEW kind \in {"read", "replace"}, NEW p \in Paths,
         F!Run(o, kind, p)
  PROVE  F!RootInv'
<1> USE RootConstants DEF F!RootInv, F!Run
<1>1. F!Typed' /\ v1' \in [Paths -> Ops \cup {None}]
  BY DEF F!Typed, F!Stages
<1>2. /\ v2'[o] = [pc |-> "wait", kind |-> kind, path |-> p, previous |-> v1[p]]
      /\ \A q \in Ops : q # o => v2'[q] = v2[q]
      /\ \A q \in Paths : v1'[q] = IF q = p THEN o ELSE v1[q]
  BY DEF F!Typed
<1>3. F!Queues'
  <2> SUFFICES ASSUME NEW r \in Paths
               PROVE  \E queue \in Seq(Ops) : F!QueueOf(r, queue)'
    BY DEF F!Queues
  <2>1. PICK queue \in Seq(Ops) : F!QueueOf(r, queue)
    BY DEF F!Queues
  <2>2. \A k \in 1..Len(queue) : queue[k] \in Ops /\ queue[k] # o
    BY <2>1, ElementOfSeq DEF F!QueueOf, F!InLine
  <2>3. CASE r # p
    <3>1. F!InLine(r, queue)'
      BY <1>2, <2>1, <2>2, <2>3 DEF F!QueueOf, F!InLine, F!Path, F!At
    <3>2. \A q \in Ops : F!Path(q)' = r /\ ~F!At(q, "idle")' => F!InQueue(q, queue)
      BY <1>2, <2>1, <2>3 DEF F!QueueOf, F!Path, F!At
    <3>3. F!QueueOf(r, queue)'
      BY <3>1, <3>2 DEF F!QueueOf, F!InQueue
    <3> QED
      BY <3>3
  <2>4. CASE r = p
    <3> DEFINE longer == Append(queue, o)
    <3>1. /\ longer \in Seq(Ops) /\ Len(longer) = Len(queue) + 1
          /\ longer[Len(queue) + 1] = o
          /\ \A k \in 1..Len(queue) : longer[k] = queue[k]
          /\ longer # <<>>
      BY AppendProperties
    <3> HIDE DEF longer
    <3>2. Len(queue) \in Nat
      OBVIOUS
    <3>3. v1'[r] = longer[Len(longer)]
      BY <1>2, <2>4, <3>1
    <3>4. v1[p] = IF queue = <<>> THEN None ELSE queue[Len(queue)]
      BY <2>1, <2>4 DEF F!QueueOf, F!InLine
    <3>5. queue = <<>> <=> Len(queue) = 0
      BY EmptySeq
    <3>6. ASSUME NEW k \in 1..Len(longer)
          PROVE  /\ v2'[longer[k]].path = r
                 /\ ~F!At(longer[k], "idle")'
                 /\ v2'[longer[k]].previous = IF k = 1 THEN None ELSE longer[k - 1]
                 /\ k > 1 => F!At(longer[k], "wait")'
      <4>1. CASE k \in 1..Len(queue)
        <5>1. longer[k] = queue[k] /\ v2'[queue[k]] = v2[queue[k]]
          BY <4>1, <3>1, <2>2, <1>2
        <5>2. k # 1 => longer[k - 1] = queue[k - 1]
          BY <4>1, <3>1, <3>2
        <5> QED
          BY <4>1, <5>1, <5>2, <2>1, <2>4 DEF F!QueueOf, F!InLine, F!Path, F!At
      <4>2. CASE k = Len(queue) + 1
        <5>1. longer[k] = o
          BY <4>2, <3>1
        <5>2. k # 1 => longer[k - 1] = queue[Len(queue)]
          BY <4>2, <3>1, <3>2
        <5>3. v1[p] = IF k = 1 THEN None ELSE longer[k - 1]
          BY <4>2, <5>2, <3>2, <3>4, <3>5
        <5> QED
          BY <5>1, <5>3, <1>2, <2>4 DEF F!At
      <4> QED
        BY <4>1, <4>2, <3>1, <3>2
    <3>7. \A k, l \in 1..Len(longer) : longer[k] = longer[l] => k = l
      <4>1. \A k, l \in 1..Len(queue) : queue[k] = queue[l] => k = l
        BY <2>1 DEF F!QueueOf, F!InLine
      <4>2. \A k \in 1..Len(longer) : k \in 1..Len(queue) \/ k = Len(queue) + 1
        BY <3>1, <3>2
      <4> QED
        BY <4>1, <4>2, <3>1, <2>2
    <3>8. F!InLine(r, longer)'
      BY <3>1, <3>3, <3>6, <3>7 DEF F!InLine, F!Path
    <3>9. \A q \in Ops : v2'[q].path = r /\ ~F!At(q, "idle")' => F!InQueue(q, longer)
      <4> SUFFICES ASSUME NEW q \in Ops, v2'[q].path = r, ~F!At(q, "idle")'
                   PROVE  F!InQueue(q, longer)
        OBVIOUS
      <4>1. CASE q = o
        BY <4>1, <3>1, <3>2 DEF F!InQueue
      <4>2. CASE q # o
        <5>1. F!InQueue(q, queue)
          BY <4>2, <1>2, <2>1 DEF F!QueueOf, F!Path, F!At
        <5> QED
          BY <5>1, <3>1, <3>2 DEF F!InQueue
      <4> QED
        BY <4>1, <4>2
    <3>10. F!QueueOf(r, longer)'
      BY <3>8, <3>9 DEF F!QueueOf, F!InQueue, F!Path
    <3> QED
      BY <3>1, <3>10
  <2> QED
    BY <2>3, <2>4
<1>4. \A q \in Ops : F!At(q, "idle")' => v2'[q].previous = None
  BY <1>2 DEF F!At
<1>5. F!Closable'
  BY <1>2 DEF F!Closable, F!At
<1>6. v8' \in 0..MaxStarts /\ (v6' # {} => v5')
  BY DEF F!root
<1> QED
  BY <1>1, <1>3, <1>4, <1>5, <1>6

(* The operation that ends leaves the queue to the next one, which may     *)
(* have queued at any time meanwhile.                                      *)
LEMMA ReleasePasses ==
  ASSUME F!RootInv, NEW o \in Ops, F!Release(o)
  PROVE  F!RootInv'
<1> USE RootConstants DEF F!RootInv, F!Release
<1>1. F!Free \in [pc : F!Stages, kind : {"read", "replace"}, path : Paths, previous : Ops \cup {None}]
  <2>1. (CHOOSE p \in Paths : TRUE) \in Paths
    OBVIOUS
  <2> QED
    BY <2>1 DEF F!Free, F!Stages
<1>2. F!Typed' /\ v1' \in [Paths -> Ops \cup {None}]
  BY <1>1 DEF F!Typed, F!IsTail
<1>3. /\ v2'[o].pc = "idle" /\ v2'[o].previous = None
      /\ \A q \in Ops : q # o =>
           /\ v2'[q].pc = v2[q].pc /\ v2'[q].path = v2[q].path
           /\ v2'[q].previous = IF v2[q].previous = o THEN None ELSE v2[q].previous
  BY DEF F!Typed, F!Free
<1>4. F!At(o, "release") /\ v2[o].path \in Paths
  BY DEF F!Typed
<1>5. F!Queues'
  <2> SUFFICES ASSUME NEW r \in Paths
               PROVE  \E queue \in Seq(Ops) : F!QueueOf(r, queue)'
    BY DEF F!Queues
  <2>1. PICK queue \in Seq(Ops) : F!QueueOf(r, queue)
    BY DEF F!Queues
  <2>2. \A k \in 1..Len(queue) : queue[k] \in Ops
    BY ElementOfSeq
  <2>3. Len(queue) \in Nat /\ (queue = <<>> <=> Len(queue) = 0)
    BY EmptySeq
  <2>4. /\ v1[r] = IF queue = <<>> THEN None ELSE queue[Len(queue)]
        /\ \A k, l \in 1..Len(queue) : queue[k] = queue[l] => k = l
    BY <2>1 DEF F!QueueOf, F!InLine
  <2>5. CASE r # v2[o].path
    <3>1. \A k \in 1..Len(queue) : queue[k] # o
      BY <2>1, <2>5 DEF F!QueueOf, F!InLine, F!Path
    <3>2. v1'[r] = v1[r]
      BY <2>5, <1>4 DEF F!IsTail, F!Path
    <3>3. ASSUME NEW k \in 1..Len(queue)
          PROVE  /\ v2'[queue[k]].path = r
                 /\ ~F!At(queue[k], "idle")'
                 /\ v2'[queue[k]].previous = IF k = 1 THEN None ELSE queue[k - 1]
                 /\ k > 1 => F!At(queue[k], "wait")'
      <4>1. queue[k] \in Ops /\ queue[k] # o
        BY <2>2, <3>1
      <4>2. v2[queue[k]].previous = IF k = 1 THEN None ELSE queue[k - 1]
        BY <2>1 DEF F!QueueOf, F!InLine
      <4>3. v2[queue[k]].previous # o
        BY <4>2, <3>1, <2>3
      <4> QED
        BY <4>1, <4>2, <4>3, <1>3, <2>1 DEF F!QueueOf, F!InLine, F!Path, F!At
    <3>4. F!InLine(r, queue)'
      BY <3>2, <3>3, <2>4 DEF F!InLine, F!Path
    <3>5. \A q \in Ops : v2'[q].path = r /\ ~F!At(q, "idle")' => F!InQueue(q, queue)
      BY <1>3, <2>1, <2>5 DEF F!QueueOf, F!Path, F!At
    <3>6. F!QueueOf(r, queue)'
      BY <3>4, <3>5 DEF F!QueueOf, F!InQueue, F!Path
    <3> QED
      BY <3>6
  <2>6. CASE r = v2[o].path
    <3>1. PICK j \in 1..Len(queue) : queue[j] = o
      BY <2>1, <2>6, <1>4 DEF F!QueueOf, F!InQueue, F!Path, F!At
    <3>2. j = 1
      BY <3>1, <2>1, <1>4, First DEF F!At
    <3>3. queue[1] = o /\ Len(queue) >= 1 /\ queue # <<>>
      BY <3>1, <3>2, <2>3
    <3> DEFINE rest == Tail(queue)
    <3>4. /\ rest \in Seq(Ops) /\ Len(rest) = Len(queue) - 1
          /\ \A k \in 1..Len(rest) : rest[k] = queue[k + 1]
      BY <3>3, HeadTailProperties
    <3>5. rest = <<>> <=> Len(rest) = 0
      BY <3>4, EmptySeq
    <3>5a. Len(rest) = Len(queue) - 1
      BY <3>4
    <3> HIDE DEF rest
    <3>6. v1'[r] = IF rest = <<>> THEN None ELSE rest[Len(rest)]
      <4>1. CASE Len(queue) = 1
        <5>1. v1[r] = o /\ rest = <<>>
          BY <4>1, <3>3, <3>4, <3>5, <2>4
        <5> QED
          BY <5>1, <2>6 DEF F!IsTail, F!Path
      <4>2. CASE Len(queue) # 1
        <5>0. Len(queue) \in 1..Len(queue) /\ 1 \in 1..Len(queue)
          BY <3>3, <2>3
        <5>1. v1[r] = queue[Len(queue)] /\ queue[Len(queue)] # o
          BY <4>2, <5>0, <3>3, <2>4
        <5>2. rest # <<>> /\ rest[Len(rest)] = queue[Len(queue)]
          BY <4>2, <3>4, <3>5, <2>3
        <5> QED
          BY <5>1, <5>2, <2>6 DEF F!IsTail, F!Path
      <4> QED
        BY <4>1, <4>2
    <3>7. ASSUME NEW k \in 1..Len(rest)
          PROVE  /\ v2'[rest[k]].path = r
                 /\ ~F!At(rest[k], "idle")'
                 /\ v2'[rest[k]].previous = IF k = 1 THEN None ELSE rest[k - 1]
                 /\ k > 1 => F!At(rest[k], "wait")'
      <4>1. k + 1 \in 1..Len(queue) /\ k + 1 # 1 /\ k + 1 > 1 /\ k \in 1..Len(queue)
        BY <3>4, <2>3
      <4>2. rest[k] = queue[k + 1] /\ queue[k + 1] \in Ops /\ queue[k + 1] # o
        BY <4>1, <3>3, <3>4, <2>2, <2>4
      <4>3. v2[queue[k + 1]].previous = queue[k]
        BY <4>1, <2>1 DEF F!QueueOf, F!InLine
      <4>4. k = 1 => v2'[rest[k]].previous = None
        BY <4>2, <4>3, <3>3, <1>3
      <4>5. k # 1 => v2'[rest[k]].previous = rest[k - 1]
        <5> SUFFICES ASSUME k # 1 PROVE v2'[rest[k]].previous = rest[k - 1]
          OBVIOUS
        <5>1. queue[k] # o
          BY <4>1, <3>3, <2>4
        <5>2. k - 1 \in 1..Len(rest) /\ (k - 1) + 1 = k
          BY <3>5a, <2>3
        <5>3. rest[k - 1] = queue[k]
          BY <5>2, <3>4
        <5> QED
          BY <5>1, <5>3, <4>2, <4>3, <1>3
      <4>6. /\ v2[queue[k + 1]].path = r
            /\ ~F!At(queue[k + 1], "idle")
            /\ F!At(queue[k + 1], "wait")
        BY <4>1, <2>1 DEF F!QueueOf, F!InLine, F!Path
      <4> QED
        BY <4>2, <4>4, <4>5, <4>6, <1>3 DEF F!At
    <3>8. \A k, l \in 1..Len(rest) : rest[k] = rest[l] => k = l
      <4> SUFFICES ASSUME NEW k \in 1..Len(rest), NEW l \in 1..Len(rest), rest[k] = rest[l]
                   PROVE  k = l
        OBVIOUS
      <4>1. k + 1 \in 1..Len(queue) /\ l + 1 \in 1..Len(queue)
        BY <3>4, <2>3
      <4>2. k + 1 = l + 1
        BY <4>1, <3>4, <2>4
      <4> QED
        BY <4>2
    <3>9. F!InLine(r, rest)'
      BY <3>6, <3>7, <3>8 DEF F!InLine, F!Path
    <3>10. \A q \in Ops : v2'[q].path = r /\ ~F!At(q, "idle")' => F!InQueue(q, rest)
      <4> SUFFICES ASSUME NEW q \in Ops, v2'[q].path = r, ~F!At(q, "idle")'
                   PROVE  F!InQueue(q, rest)
        OBVIOUS
      <4>1. q # o
        BY <1>3 DEF F!At
      <4>2. PICK l \in 1..Len(queue) : queue[l] = q
        BY <4>1, <1>3, <2>1 DEF F!QueueOf, F!InQueue, F!Path, F!At
      <4>3. l # 1
        BY <4>1, <4>2, <3>3
      <4>4. l - 1 \in 1..Len(rest) /\ (l - 1) + 1 = l
        BY <4>3, <3>5a, <2>3
      <4>5. rest[l - 1] = queue[l]
        BY <4>4, <3>4
      <4> QED
        BY <4>2, <4>4, <4>5 DEF F!InQueue
    <3>11. F!QueueOf(r, rest)'
      BY <3>9, <3>10 DEF F!QueueOf, F!InQueue, F!Path
    <3> QED
      BY <3>4, <3>11
  <2> QED
    BY <2>5, <2>6
<1>6. \A q \in Ops : F!At(q, "idle")' => v2'[q].previous = None
  BY <1>3 DEF F!At
<1>7. F!Closable'
  BY <1>3, <1>4 DEF F!Closable, F!At
<1>8. v8' \in 0..MaxStarts /\ (v6' # {} => v5')
  BY DEF F!root
<1> QED
  BY <1>2, <1>5, <1>6, <1>7, <1>8

(* The other steps of an operation only move it on, and handle its file.   *)
LEMMA StepKeepsRoot ==
  ASSUME F!RootInv, NEW o \in Ops, F!Step(o), ~F!Release(o), ~F!CloseHandle(o)
  PROVE  F!RootInv'
<1> USE DEF F!RootInv
<1>1. \A q \in Ops : v2[q].pc \in F!Stages
  BY DEF F!Typed
<1>2. CASE F!Turn(o)
  <2>1. PICK pc \in {"checked", "release"} : F!Goto(o, pc)
    BY <1>2 DEF F!Turn
  <2>2. F!Typed' /\ F!Queues' /\ \A q \in Ops : F!At(q, "idle")' => v2'[q].previous = None
    BY <1>2, <2>1, TurnGoesOn DEF F!Turn, F!At, F!Stages
  <2>3. \A q \in Ops : v2'[q].pc = IF q = o THEN pc ELSE v2[q].pc
    BY <2>1 DEF F!Goto, F!Typed
  <2>4. F!Closable'
    BY <1>2, <2>3 DEF F!Closable, F!Turn, F!At
  <2> QED
    BY <1>2, <2>2, <2>4 DEF F!Turn, F!root
<1>3. CASE \/ F!OpenFile(o) \/ F!Inspect(o) \/ F!InspectFailed(o) \/ F!Register(o)
           \/ F!Read(o) \/ F!CloseFile(o) \/ F!Replace(o) \/ F!Replaced(o)
  <2> USE DEF F!OpenFile, F!Inspect, F!InspectFailed, F!Register, F!Read, F!CloseFile,
              F!Replace, F!Replaced
  <2>1. PICK pc \in F!Stages \ {"idle"} : F!Goto(o, pc)
    BY <1>3 DEF F!Stages
  <2>2. ~F!At(o, "idle") /\ ~F!At(o, "wait") /\ v1' = v1
    BY <1>3 DEF F!At
  <2>3. F!Typed' /\ F!Queues' /\ \A q \in Ops : F!At(q, "idle")' => v2'[q].previous = None
    BY <2>1, <2>2, TurnGoesOn
  <2>4. /\ v2'[o].pc = pc
        /\ \A q \in Ops : q # o => v2'[q].pc = v2[q].pc
    BY <2>1 DEF F!Goto, F!Typed
  <2>5. F!Closable'
    <3>1. CASE F!OpenFile(o)
      <4>1. v2'[o].pc = "opened"
        BY <3>1 DEF F!Goto, F!Typed
      <4> QED
        BY <3>1, <4>1, <2>4 DEF F!Closable, F!At
    <3>2. CASE F!Inspect(o)
      <4>1. v2'[o].pc = "register"
        BY <3>2 DEF F!Goto, F!Typed
      <4> QED
        BY <3>2, <4>1, <2>4 DEF F!Closable, F!At
    <3>3. CASE F!InspectFailed(o)
      <4>1. v2'[o].pc = "release"
        BY <3>3 DEF F!Goto, F!Typed
      <4> QED
        BY <3>3, <4>1, <2>4 DEF F!Closable, F!At, F!Abandons
    <3>4. CASE F!Register(o)
      <4>1. v2'[o].pc = "reading"
        BY <3>4 DEF F!Goto, F!Typed
      <4> QED
        BY <3>4, <4>1, <2>4 DEF F!Closable, F!At
    <3>5. CASE F!Read(o)
      <4>1. v2'[o].pc = "closeFile"
        BY <3>5 DEF F!Goto, F!Typed
      <4> QED
        BY <3>5, <4>1, <2>4 DEF F!Closable, F!At
    <3>6. CASE F!CloseFile(o)
      <4>1. v2'[o].pc = "release"
        BY <3>6 DEF F!Goto, F!Typed
      <4> QED
        BY <3>6, <4>1, <2>4 DEF F!Closable, F!At
    <3>7. CASE F!Replace(o) \/ F!Replaced(o)
      <4>1. v2'[o].pc \in {"replacing", "release"}
        BY <3>7 DEF F!Goto, F!Typed
      <4> QED
        BY <3>7, <4>1, <2>4 DEF F!Closable, F!At
    <3> QED
      BY <1>3, <3>1, <3>2, <3>3, <3>4, <3>5, <3>6, <3>7
  <2>6. v8' = v8 /\ v6' = v6 /\ v5' = v5
    BY <1>3 DEF F!root
  <2> QED
    BY <2>2, <2>3, <2>5, <2>6
<1> QED
  BY <1>2, <1>3 DEF F!Step

(* Closing the root, and closing one of the handles for it.                *)
LEMMA ClosingKeepsRoot ==
  ASSUME F!RootInv, v1' = v1, v2' = v2, v8' = v8, F!Closable', v6' # {} => v5'
  PROVE  F!RootInv'
<1>1. F!Queues'
  BY DEF F!RootInv, F!Queues, F!QueueOf, F!InLine, F!InQueue, F!Path, F!At
<1> QED
  BY <1>1 DEF F!RootInv, F!Typed, F!At

LEMMA RootNext ==
  ASSUME F!RootInv, F!Next PROVE F!RootInv'
<1>1. ASSUME NEW o \in Ops, F!Step(o) PROVE F!RootInv'
  <2>1. CASE F!Release(o)
    BY <2>1, ReleasePasses
  <2>2. CASE F!CloseHandle(o)
    <3>1. F!Closable'
      BY <2>2 DEF F!CloseHandle, F!RootInv, F!Closable
    <3> QED
      BY <2>2, <3>1, ClosingKeepsRoot DEF F!CloseHandle, F!RootInv
  <2> QED
    BY <1>1, <2>1, <2>2, StepKeepsRoot
<1>2. ASSUME NEW o \in Ops, NEW kind \in {"read", "replace"}, NEW p \in Paths, F!Run(o, kind, p)
      PROVE  F!RootInv'
  BY <1>2, RunQueues
<1>3. CASE F!Close \/ F!Move
  <2>1. F!Closable'
    BY <1>3 DEF F!Close, F!Move, F!RootInv, F!Closable
  <2> QED
    BY <1>3, <2>1, ClosingKeepsRoot DEF F!Close, F!Move, F!RootInv
<1> QED
  BY <1>1, <1>2, <1>3 DEF F!Next

LEMMA RootIsSafe ==
  ASSUME F!RootInv PROVE F!TypeOK /\ F!TurnsExclude /\ F!NothingLeaks
<1> USE RootConstants DEF F!RootInv
<1>1. \A p \in Paths : v1[p] # None => ~F!At(v1[p], "idle") /\ F!Path(v1[p]) = p
  <2> SUFFICES ASSUME NEW p \in Paths, v1[p] # None
               PROVE  ~F!At(v1[p], "idle") /\ F!Path(v1[p]) = p
    OBVIOUS
  <2>1. PICK queue \in Seq(Ops) : F!QueueOf(p, queue)
    BY DEF F!Queues
  <2>2. queue # <<>> /\ v1[p] = queue[Len(queue)]
    BY <2>1 DEF F!QueueOf, F!InLine
  <2>3. Len(queue) \in 1..Len(queue)
    BY <2>2, EmptySeq
  <2> QED
    BY <2>1, <2>2, <2>3 DEF F!QueueOf, F!InLine
<1>2. ASSUME NEW o \in Ops, ~F!At(o, "idle")
      PROVE  \E queue \in Seq(Ops) : F!QueueOf(F!Path(o), queue) /\ F!InQueue(o, queue)
  <2>1. F!Path(o) \in Paths
    BY DEF F!Path, F!Typed
  <2> QED
    BY <2>1, <1>2 DEF F!Queues, F!QueueOf
<1>3. \A o \in Ops : v2[o].previous # None =>
        F!At(o, "wait") /\ ~F!At(v2[o].previous, "idle") /\ F!Path(v2[o].previous) = F!Path(o)
  <2> SUFFICES ASSUME NEW o \in Ops, v2[o].previous # None
               PROVE  /\ F!At(o, "wait") /\ ~F!At(v2[o].previous, "idle")
                      /\ F!Path(v2[o].previous) = F!Path(o)
    OBVIOUS
  <2>1. ~F!At(o, "idle")
    OBVIOUS
  <2>2. PICK queue \in Seq(Ops) : F!QueueOf(F!Path(o), queue) /\ F!InQueue(o, queue)
    BY <2>1, <1>2
  <2>3. PICK k \in 1..Len(queue) : queue[k] = o
    BY <2>2 DEF F!InQueue
  <2>4. k # 1 /\ v2[o].previous = queue[k - 1]
    BY <2>2, <2>3 DEF F!QueueOf, F!InLine
  <2>5. k > 1 /\ k - 1 \in 1..Len(queue)
    BY <2>4
  <2> QED
    BY <2>2, <2>3, <2>4, <2>5 DEF F!QueueOf, F!InLine
<1>4. F!TurnsExclude
  <2> SUFFICES ASSUME NEW o \in Ops, NEW q \in Ops, o # q, F!Path(o) = F!Path(q),
                      ~F!At(o, "idle"), ~F!At(q, "idle")
               PROVE  F!At(o, "wait") \/ F!At(q, "wait")
    BY DEF F!TurnsExclude, F!At
  <2>1. PICK queue \in Seq(Ops) : F!QueueOf(F!Path(o), queue)
    BY <1>2
  <2>2. PICK k \in 1..Len(queue) : queue[k] = o
    BY <2>1 DEF F!QueueOf, F!InQueue
  <2>3. PICK l \in 1..Len(queue) : queue[l] = q
    BY <2>1 DEF F!QueueOf, F!InQueue
  <2>4. k > 1 \/ l > 1
    BY <2>2, <2>3
  <2> QED
    BY <2>1, <2>2, <2>3, <2>4 DEF F!QueueOf, F!InLine
<1>5. F!NothingLeaks
  <2> SUFFICES ASSUME \A o \in Ops : F!At(o, "idle")
               PROVE  v4 = {} /\ \A p \in Paths : v1[p] = None
    BY DEF F!NothingLeaks
  <2>1. v4 = {}
    BY DEF F!Closable, F!At
  <2> QED
    BY <2>1, <1>1
<1>6. F!TypeOK
  BY <1>1, <1>3 DEF F!TypeOK, F!Closable
<1> QED
  BY <1>4, <1>5, <1>6

-----------------------------------------------------------------------------
(* Export: v1 source, v2 attachment, v3 frozen, v4 previews, v5 stages,    *)
(* v6 exports, v7 lease, v8 calls, v9 startsDone.                          *)

LEMMA ExportConstants ==
  /\ None \notin Calls /\ None \notin Items /\ None \notin Names
  /\ MaxPreviews \in Nat \ {0} /\ StoredRevisions \in Nat /\ MaxStarts \in Nat
BY ServicesAssumption DEF X!LimitsAssumption, X!NoneIsNone

LEMMA PackageTypes ==
  /\ X!Missing \in X!Package
  /\ X!Missing.members = {}
  /\ \A s \in X!Package : /\ s.preview \in Items \cup {None}
                          /\ s.revision \in X!Revisions \cup {X!Stray}
                          /\ s.members \in SUBSET X!Members
                          /\ s.attachment \in X!AttachmentBytes
BY DEF X!Missing, X!Package, X!AttachmentBytes, X!Members

(* A call that does not move keeps what it works on: what is frozen stays  *)
(* frozen.                                                                 *)
LEMMA WorkGoesOn ==
  ASSUME X!ExportInv, NEW c \in Calls, v8'[c] = v8[c], v5'[c] = v5[c],
         \A i \in Items : v3[i] # X!Stray => v3'[i] = v3[i]
  PROVE  X!Works(c)'
<1>1. X!Works(c)
  BY DEF X!ExportInv
<1>2. CASE v8[c].pc = "idle"
  <2>1. v5[c].members = {} /\ v5[c] = X!Missing
    BY <1>1, <1>2, PackageTypes DEF X!Works, X!Done
  <2> QED
    BY <1>2, <2>1 DEF X!Works, X!Done
<1>3. CASE v8[c].pc # "idle"
  <2>1. v8[c].id \in Items /\ v3[v8[c].id] # X!Stray /\ v3'[v8[c].id] = v3[v8[c].id]
    BY <1>1, <1>3 DEF X!Works, X!Plan
  <2> QED
    BY <1>1, <2>1 DEF X!Works, X!Plan
<1> QED
  BY <1>2, <1>3

LEMMA RestingTypes ==
  X!Resting \in [pc : X!Points, id : Items \cup {None}, name : Names \cup {None}, format : {"zip", "files"}]
BY DEF X!Resting, X!Points

LEMMA ExportStarts == X!Init => X!ExportInv
<1> SUFFICES ASSUME X!Init PROVE X!ExportInv
  OBVIOUS
<1> USE ExportConstants, PackageTypes, RestingTypes DEF X!Init
<1>1. X!TypeOK
  <2>1. <<>> \in Seq(Items) /\ Len(<<>>) = 0
    OBVIOUS
  <2>2. v6 \in [Names -> X!Package] /\ v5 \in [Calls -> X!Package]
    OBVIOUS
  <2>3. \A c \in Calls : v8[c].pc = "idle" /\ v7 # c
    BY DEF X!Resting
  <2>4. v4 \in Seq(Items) /\ Len(v4) <= MaxPreviews /\ \A k \in 1..Len(v4) : FALSE
    BY <2>1
  <2>5. v1 \in X!Revisions /\ v2 \in X!AttachmentBytes /\ v3 \in [Items -> X!Revisions \cup {X!Stray}]
    BY DEF X!Revisions
  <2>6. \A c \in Calls : v7 = c <=> v8[c].pc \notin {"idle", "freeze", "lock"}
    BY <2>3
  <2>7. v9 \in 0..MaxStarts
    OBVIOUS
  <2> QED
    BY <2>2, <2>4, <2>5, <2>6, <2>7 DEF X!TypeOK
<1>2. \A c \in Calls : X!Works(c)
  <2>1. \A c \in Calls : v8[c].pc = "idle" /\ v5[c].members = {} /\ v5[c] = X!Missing
    BY DEF X!Resting
  <2> QED
    BY <2>1 DEF X!Works, X!Done
<1>3. X!PackageFaithful
  BY DEF X!PackageFaithful
<1> QED
  BY <1>1, <1>2, <1>3 DEF X!ExportInv

(* What is published stays what it is, and so does what its preview froze. *)
LEMMA PublishedStays ==
  ASSUME X!ExportInv, v6' = v6, \A i \in Items : v3[i] # X!Stray => v3'[i] = v3[i]
  PROVE  X!PackageFaithful'
BY DEF X!ExportInv, X!PackageFaithful

(* What a step leaves alone, said once for the steps that only move a call. *)
LEMMA CallMoves ==
  ASSUME X!ExportInv, NEW c \in Calls, NEW call,
         call \in [pc : X!Points, id : Items \cup {None}, name : Names \cup {None},
                   format : {"zip", "files"}],
         v8' = [v8 EXCEPT ![c] = call],
         v7' \in Calls \cup {None},
         v7' = c <=> call.pc \notin {"idle", "freeze", "lock"},
         \A q \in Calls \ {c} : v7' = q <=> v7 = q,
         v5' \in [Calls -> X!Package], \A q \in Calls \ {c} : v5'[q] = v5[q],
         v3' \in [Items -> X!Revisions \cup {X!Stray}],
         \A i \in Items : v3[i] # X!Stray => v3'[i] = v3[i],
         v4' \in Seq(Items) /\ Len(v4') <= MaxPreviews,
         \A k \in 1..Len(v4') : v3'[v4'[k]] # X!Stray,
         v6' \in [Names -> X!Package], X!PackageFaithful', X!Works(c)',
         v1' = v1, v2' = v2, v9' \in 0..MaxStarts
  PROVE  X!ExportInv'
<1> USE DEF X!ExportInv
<1>1. v8' \in [Calls -> [pc : X!Points, id : Items \cup {None}, name : Names \cup {None},
                         format : {"zip", "files"}]]
  OBVIOUS
<1>2. \A q \in Calls \ {c} : v8'[q] = v8[q]
  OBVIOUS
<1>3. v8'[c] = call
  OBVIOUS
<1>4. \A q \in Calls : v7' = q <=> v8'[q].pc \notin {"idle", "freeze", "lock"}
  BY <1>2, <1>3 DEF X!TypeOK
<1>5. X!TypeOK'
  BY <1>4 DEF X!TypeOK
<1>6. \A q \in Calls : X!Works(q)'
  BY <1>2, WorkGoesOn
<1> QED
  BY <1>1, <1>5, <1>6

(* Each step of a call, with what it moves to.                             *)
LEMMA CallStepKeepsExport ==
  ASSUME X!ExportInv, NEW c \in Calls,
         \/ X!Abort(c) \/ X!Lock(c) \/ X!VerifySource(c) \/ X!VerifyMembers(c)
         \/ X!Flush(c) \/ X!Inspect(c)
  PROVE  X!ExportInv'
<1> USE ExportConstants, PackageTypes, RestingTypes DEF X!ExportInv
<1> DEFINE CallSet == [pc : X!Points, id : Items \cup {None}, name : Names \cup {None},
                       format : {"zip", "files"}]
<1>1. v8[c] \in CallSet /\ v5[c] \in X!Package
  BY DEF X!TypeOK
<1>2. /\ v3 \in [Items -> X!Revisions \cup {X!Stray}]
      /\ v4 \in Seq(Items) /\ Len(v4) <= MaxPreviews
      /\ \A k \in 1..Len(v4) : v3[v4[k]] # X!Stray
      /\ v5 \in [Calls -> X!Package] /\ v6 \in [Names -> X!Package]
      /\ v9 \in 0..MaxStarts
      /\ v1 \in X!Revisions
      /\ \A q \in Calls : v7 = q <=> v8[q].pc \notin {"idle", "freeze", "lock"}
  BY DEF X!TypeOK
<1>3. v1' = v1 /\ v2' = v2 /\ v3' = v3 /\ v4' = v4 /\ v6' = v6 /\ v9' = v9
  BY DEF X!Abort, X!Lock, X!VerifySource, X!VerifyMembers, X!Flush, X!Inspect, X!disk
<1>4. X!PackageFaithful'
  BY <1>3 DEF X!PackageFaithful
<1>5. X!Works(c)
  OBVIOUS
<1>6. CASE X!Abort(c)
  <2>1. v8' = [v8 EXCEPT ![c] = X!Resting] /\ X!Resting.pc = "idle"
    BY <1>6 DEF X!Abort, X!Resting
  <2>2. v5' \in [Calls -> X!Package] /\ (\A q \in Calls \ {c} : v5'[q] = v5[q]) /\ v5'[c] = X!Missing
    BY <1>2, <1>6 DEF X!Abort
  <2>3. v7' \in Calls \cup {None} /\ v7' # c /\ \A q \in Calls \ {c} : v7' = q <=> v7 = q
    BY <1>6 DEF X!Abort
  <2>4. v8'[c].pc = "idle" /\ v5'[c].members = {} /\ v5'[c] = X!Missing
    BY <2>1, <2>2
  <2>5. X!Works(c)'
    BY <2>4 DEF X!Works, X!Done
  <2>6. X!Resting \in CallSet
    BY RestingTypes
  <2> QED
    BY <1>2, <1>3, <1>4, <2>1, <2>2, <2>3, <2>5, <2>6, CallMoves
<1>7. CASE X!Lock(c)
  <2> USE <1>7 DEF X!Lock
  <2> DEFINE call == [v8[c] EXCEPT !.pc = "verifySource"]
  <2>1. v8' = [v8 EXCEPT ![c] = call] /\ call \in CallSet /\ call.pc = "verifySource"
    BY <1>1 DEF X!Goto, X!Points
  <2>2. v7' = c /\ v5' = v5 /\ v7 = None
    BY DEF X!LeaseFree
  <2>3. X!Works(c)'
    BY <2>1, <2>2, <1>1, <1>3, <1>5 DEF X!Works, X!Plan, X!At, X!Done
  <2> HIDE DEF call
  <2> QED
    BY <1>2, <1>3, <1>4, <2>1, <2>2, <2>3, CallMoves
<1>8. CASE \/ X!VerifySource(c) \/ X!VerifyMembers(c) \/ X!Flush(c) \/ X!Inspect(c)
  <2> USE <1>8 DEF X!VerifySource, X!VerifyMembers, X!Flush, X!Inspect
  <2>1. PICK pc \in {"verifyMembers", "verifyMembersAgain", "write", "publish", "verifyAgain", "rename"} :
          v8' = [v8 EXCEPT ![c].pc = pc]
    BY DEF X!Goto
  <2> DEFINE call == [v8[c] EXCEPT !.pc = pc]
  <2>2. v8' = [v8 EXCEPT ![c] = call] /\ call \in CallSet /\ call.pc = pc
    BY <1>1, <2>1 DEF X!Points
  <2>3. v7' = v7 /\ v8[c].pc \notin {"idle", "freeze", "lock"}
    BY DEF X!At
  <2>4. v3[v8[c].id] \in X!Revisions /\ v8[c].id \in Items
    BY <1>2, <1>5, <2>3 DEF X!Works, X!Plan
  <2>5. v5' \in [Calls -> X!Package] /\ (\A q \in Calls \ {c} : v5'[q] = v5[q])
    <3>1. CASE X!VerifyMembers(c)
      <4>1. [v5[c] EXCEPT !.preview = v8[c].id] \in X!Package
        BY <1>1, <2>4 DEF X!Package
      <4>2. v5' = [v5 EXCEPT ![c] = [v5[c] EXCEPT !.preview = v8[c].id]] \/ v5' = v5
        BY <3>1
      <4> QED
        BY <4>1, <4>2, <1>2
    <3>2. CASE ~X!VerifyMembers(c)
      BY <3>2, <1>2
    <3> QED
      BY <3>1, <3>2
  <2>6. X!Works(c)'
    <3>1. v8'[c].pc = pc /\ v8'[c].id = v8[c].id /\ v8'[c].name = v8[c].name
      BY <2>1, <1>1
    <3>2. /\ v5'[c].members = v5[c].members /\ v5'[c].attachment = v5[c].attachment
          /\ v5'[c].revision = v5[c].revision
      <4>1. v5'[c] = v5[c] \/ v5'[c] = [v5[c] EXCEPT !.preview = v8[c].id]
        BY <1>2
      <4> QED
        BY <4>1, <1>1 DEF X!Package
    <3>3. IF pc \in {"write"} \cup X!Done THEN v5'[c].preview = v8[c].id ELSE v5'[c] = X!Missing
      <4>1. CASE X!VerifyMembers(c)
        <5>1. CASE v8[c].pc = "verifyMembers"
          <6>1. pc = "write" /\ v5' = [v5 EXCEPT ![c].preview = v8[c].id]
            BY <4>1, <5>1, <3>1, <1>1 DEF X!VerifyMembers, X!Goto, X!At
          <6> QED
            BY <6>1, <1>1, <1>2 DEF X!Package
        <5>2. CASE v8[c].pc = "verifyMembersAgain"
          <6>1. pc = "publish" /\ v5' = v5
            BY <4>1, <5>2, <3>1, <1>1 DEF X!VerifyMembers, X!Goto, X!At
          <6> QED
            BY <6>1, <5>2, <1>5 DEF X!Works, X!Done
        <5> QED
          BY <4>1, <5>1, <5>2
      <4>2. CASE X!VerifySource(c)
        <5>1. v5' = v5 /\ \/ v8[c].pc = "verifySource" /\ pc = "verifyMembers"
                          \/ v8[c].pc = "verifyAgain" /\ pc = "verifyMembersAgain"
          BY <4>2, <3>1, <1>1 DEF X!Goto, X!At
        <5> QED
          BY <5>1, <1>5 DEF X!Works, X!Done
      <4>3. CASE X!Flush(c) \/ X!Inspect(c)
        <5>1. v5' = v5 /\ \/ v8[c].pc = "write" /\ pc = "verifyAgain"
                          \/ v8[c].pc = "publish" /\ pc = "rename"
          BY <4>3, <3>1, <1>1 DEF X!Goto, X!At
        <5> QED
          BY <5>1, <1>5 DEF X!Works, X!Done
      <4> QED
        BY <4>1, <4>2, <4>3
    <3>4. pc \in X!Done => v5'[c].members = X!Members
      <4>1. CASE X!VerifyMembers(c)
        <5>1. v8[c].pc = "verifyMembers" => v8'[c].pc = "write"
          BY <4>1, <1>1 DEF X!Goto, X!At
        <5> QED
          BY <4>1, <5>1, <3>1, <3>2, <1>5 DEF X!Works, X!Done
      <4>2. CASE X!VerifySource(c)
        <5>1. v8[c].pc = "verifySource" => v8'[c].pc = "verifyMembers"
          BY <4>2, <1>1 DEF X!Goto, X!At
        <5> QED
          BY <4>2, <5>1, <3>1, <3>2, <1>5 DEF X!Works, X!Done
      <4>3. CASE X!Flush(c) \/ X!Inspect(c)
        BY <4>3, <3>2, <1>5 DEF X!Works, X!At, X!Done, X!Written
      <4> QED
        BY <4>1, <4>2, <4>3
    <3> QED
      BY <3>1, <3>2, <3>3, <3>4, <1>3, <1>5, <2>3 DEF X!Works, X!Plan
  <2>7. v7 = c
    BY <1>2, <2>3
  <2> HIDE DEF call
  <2> QED
    BY <1>2, <1>3, <1>4, <2>2, <2>3, <2>5, <2>6, <2>7, CallMoves
<1> QED
  BY <1>6, <1>7, <1>8

LEMMA KeepKeepsExport ==
  ASSUME X!ExportInv, NEW c \in Calls, X!Keep(c)
  PROVE  X!ExportInv'
<1> DEFINE kept == IF Len(v4) >= MaxPreviews THEN Tail(v4) ELSE v4
<1>1. /\ v4 \in Seq(Items) /\ Len(v4) <= MaxPreviews
      /\ \A k \in 1..Len(v4) : v3[v4[k]] # X!Stray
      /\ v3 \in [Items -> X!Revisions \cup {X!Stray}]
      /\ v5 \in [Calls -> X!Package] /\ v6 \in [Names -> X!Package]
      /\ v9 \in 0..MaxStarts /\ v7 \in Calls \cup {None}
      /\ \A q \in Calls : v7 = q <=> v8[q].pc \notin {"idle", "freeze", "lock"}
  BY DEF X!ExportInv, X!TypeOK
<1>2. v8[c].pc = "freeze" /\ v8[c].id \in Items /\ v3[v8[c].id] # X!Stray
  BY DEF X!Keep, X!At, X!ExportInv, X!Works, X!Plan
<1>3. /\ kept \in Seq(Items) /\ Len(kept) <= MaxPreviews - 1
      /\ \A k \in 1..Len(kept) : v3[kept[k]] # X!Stray
  <2>1. Len(v4) \in Nat
    BY <1>1
  <2>2. CASE Len(v4) >= MaxPreviews
    <3>1. v4 # <<>>
      BY <1>1, <2>1, <2>2, ExportConstants, EmptySeq
    <3>2. /\ Tail(v4) \in Seq(Items) /\ Len(Tail(v4)) = Len(v4) - 1
          /\ \A k \in 1..Len(Tail(v4)) : Tail(v4)[k] = v4[k + 1]
      BY <3>1, <1>1, HeadTailProperties
    <3>3. \A k \in 1..Len(Tail(v4)) : k + 1 \in 1..Len(v4)
      BY <3>2, <2>1
    <3> QED
      BY <3>2, <3>3, <1>1, <2>1, <2>2, ExportConstants
  <2>3. CASE ~(Len(v4) >= MaxPreviews)
    BY <1>1, <2>1, <2>3, ExportConstants
  <2> QED
    BY <2>2, <2>3
<1>4. v4' = Append(kept, v8[c].id)
  BY DEF X!Keep
<1> HIDE DEF kept
<1>5. v4' \in Seq(Items) /\ Len(v4') <= MaxPreviews /\ \A k \in 1..Len(v4') : v3[v4'[k]] # X!Stray
  <2>1. /\ v4' \in Seq(Items) /\ Len(v4') = Len(kept) + 1
        /\ \A k \in 1..Len(kept) : v4'[k] = kept[k]
        /\ v4'[Len(kept) + 1] = v8[c].id
    BY <1>2, <1>3, <1>4, AppendProperties
  <2>2. Len(kept) \in Nat
    BY <1>3
  <2>3. \A k \in 1..Len(v4') : k \in 1..Len(kept) \/ k = Len(kept) + 1
    BY <2>1, <2>2
  <2>4. Len(v4') <= MaxPreviews
    BY <2>1, <2>2, <1>3, ExportConstants
  <2> QED
    BY <2>1, <2>3, <2>4, <1>2, <1>3
<1>6. v1' = v1 /\ v2' = v2 /\ v3' = v3 /\ v5' = v5 /\ v6' = v6 /\ v7' = v7 /\ v9' = v9
  BY DEF X!Keep, X!disk
<1>7. v8' = [v8 EXCEPT ![c] = X!Resting] /\ X!Resting.pc = "idle"
  BY DEF X!Keep, X!Resting
<1>8. X!Works(c)'
  <2>1. v8'[c].pc = "idle"
    BY <1>7 DEF X!ExportInv
  <2>2. v5'[c] = X!Missing
    BY <1>2, <1>6 DEF X!ExportInv, X!Works, X!Done
  <2> QED
    BY <2>1, <2>2, PackageTypes DEF X!Works, X!Done
<1>9. X!PackageFaithful'
  BY <1>6 DEF X!ExportInv, X!PackageFaithful
<1>10. v7' = c <=> X!Resting.pc \notin {"idle", "freeze", "lock"}
  BY <1>1, <1>2, <1>6, <1>7
<1> QED
  BY <1>1, <1>5, <1>6, <1>7, <1>8, <1>9, <1>10, RestingTypes, CallMoves

(* What is streamed into the stage was compared with what is frozen.       *)
LEMMA WriteKeepsExport ==
  ASSUME X!ExportInv, NEW c \in Calls, NEW m \in X!Members, X!WriteMember(c, m)
  PROVE  X!ExportInv'
<1> USE DEF X!ExportInv
<1>1. v5[c] \in X!Package /\ v2 \in X!AttachmentBytes /\ v5 \in [Calls -> X!Package]
  BY DEF X!TypeOK
<1>0. v3[v8[c].id] \in X!Revisions \cup {X!Stray} /\ X!Works(c) /\ v8[c].pc = "write"
  BY DEF X!WriteMember, X!At, X!Works, X!TypeOK
<1> DEFINE stage == [v5[c] EXCEPT !.members = v5[c].members \cup {m},
                                  !.revision = IF m = "documents" THEN X!Plan(c)
                                                                  ELSE v5[c].revision,
                                  !.attachment = IF m = "attachment" THEN v2 ELSE v5[c].attachment]
<1>2. v5' = [v5 EXCEPT ![c] = stage]
  BY DEF X!WriteMember, X!Documents
<1>3. /\ stage.revision = IF m = "documents" THEN X!Plan(c) ELSE v5[c].revision
      /\ stage.preview = v5[c].preview
      /\ stage.members = v5[c].members \cup {m}
      /\ stage.attachment = IF m = "attachment" THEN v2 ELSE v5[c].attachment
      /\ stage \in X!Package
  BY <1>0, <1>1 DEF X!Package, X!Plan
<1> HIDE DEF stage
<1>4. v5' \in [Calls -> X!Package] /\ v5'[c] = stage /\ \A q \in Calls \ {c} : v5'[q] = v5[q]
  BY <1>1, <1>2, <1>3
<1>5. /\ v1' = v1 /\ v2' = v2 /\ v3' = v3 /\ v4' = v4 /\ v6' = v6 /\ v7' = v7 /\ v8' = v8
      /\ v9' = v9
  BY DEF X!WriteMember, X!disk
<1>6. X!TypeOK'
  BY <1>4, <1>5 DEF X!TypeOK
<1>7. X!PackageFaithful'
  BY <1>5 DEF X!PackageFaithful
<1>8. X!Works(c)'
  <2>1. m = "attachment" => v2 = "declared"
    BY DEF X!WriteMember, X!Streamed
  <2> QED
    BY <1>0, <1>3, <1>4, <1>5, <2>1 DEF X!Works, X!Plan, X!Done
<1>9. \A q \in Calls \ {c} : X!Works(q)'
  BY <1>4, <1>5, WorkGoesOn
<1> QED
  BY <1>5, <1>6, <1>7, <1>8, <1>9

(* The stage that is published was complete and checked twice.             *)
LEMMA RenameKeepsExport ==
  ASSUME X!ExportInv, NEW c \in Calls, X!Rename(c)
  PROVE  X!ExportInv'
<1>1. /\ v3 \in [Items -> X!Revisions \cup {X!Stray}]
      /\ v4 \in Seq(Items) /\ Len(v4) <= MaxPreviews
      /\ \A k \in 1..Len(v4) : v3[v4[k]] # X!Stray
      /\ v5 \in [Calls -> X!Package] /\ v6 \in [Names -> X!Package]
      /\ v9 \in 0..MaxStarts /\ v7 \in Calls \cup {None}
      /\ \A q \in Calls : v7 = q <=> v8[q].pc \notin {"idle", "freeze", "lock"}
  BY DEF X!ExportInv, X!TypeOK
<1>2. /\ v8[c].name \in Names /\ v5[c].preview = v8[c].id /\ v8[c].id \in Items
      /\ v5[c].revision = v3[v8[c].id] /\ v3[v8[c].id] # X!Stray
      /\ v5[c].members = X!Members /\ v5[c].attachment = "declared"
  <2>1. v8[c].pc = "rename" /\ X!Works(c)
    BY DEF X!Rename, X!At, X!ExportInv
  <2> QED
    BY <2>1 DEF X!Works, X!Done, X!Members, X!Plan
<1>3. v6' = [v6 EXCEPT ![v8[c].name] = v5[c]]
  BY DEF X!Rename
<1>4. v6' \in [Names -> X!Package] /\ X!PackageFaithful'
  <2>1. v6' \in [Names -> X!Package] /\ \A n \in Names : v6'[n] = IF n = v8[c].name THEN v5[c] ELSE v6[n]
    BY <1>1, <1>2, <1>3
  <2>2. v3' = v3
    BY DEF X!Rename
  <2> QED
    BY <1>2, <2>1, <2>2 DEF X!ExportInv, X!PackageFaithful
<1>5. v8' = [v8 EXCEPT ![c] = X!Resting] /\ X!Resting.pc = "idle"
  BY DEF X!Rename, X!Resting
<1>6. v5' \in [Calls -> X!Package] /\ (\A q \in Calls \ {c} : v5'[q] = v5[q]) /\ v5'[c] = X!Missing
  BY <1>1, PackageTypes DEF X!Rename
<1>7. v7' \in Calls \cup {None} /\ v7' # c /\ \A q \in Calls \ {c} : v7' = q <=> v7 = q
  BY <1>1, ExportConstants DEF X!Rename
<1>8. v1' = v1 /\ v2' = v2 /\ v3' = v3 /\ v4' = v4 /\ v9' = v9
  BY DEF X!Rename
<1>9. X!Works(c)'
  <2>1. v8'[c].pc = "idle" /\ v5'[c].members = {} /\ v5'[c] = X!Missing
    BY <1>5, <1>6, PackageTypes DEF X!ExportInv
  <2> QED
    BY <2>1 DEF X!Works, X!Done
<1> QED
  BY <1>1, <1>4, <1>5, <1>6, <1>7, <1>8, <1>9, RestingTypes, CallMoves

LEMMA StartsKeepExport ==
  ASSUME X!ExportInv, NEW c \in Calls, NEW i \in Items,
         X!StartPreview(c, i) \/ \E n \in Names, f \in {"zip", "files"} : X!StartPersist(c, i, n, f)
  PROVE  X!ExportInv'
<1>1. /\ v3 \in [Items -> X!Revisions \cup {X!Stray}]
      /\ v4 \in Seq(Items) /\ Len(v4) <= MaxPreviews
      /\ \A k \in 1..Len(v4) : v3[v4[k]] # X!Stray
      /\ v5 \in [Calls -> X!Package] /\ v6 \in [Names -> X!Package]
      /\ v9 \in 0..MaxStarts /\ v7 \in Calls \cup {None} /\ v1 \in X!Revisions
      /\ \A q \in Calls : v7 = q <=> v8[q].pc \notin {"idle", "freeze", "lock"}
  BY DEF X!ExportInv, X!TypeOK
<1>2. \A r \in X!Revisions : r # X!Stray
  BY ExportConstants DEF X!Revisions, X!Stray
<1>3. /\ v8[c].pc = "idle" /\ v1' = v1 /\ v2' = v2 /\ v4' = v4 /\ v5' = v5 /\ v6' = v6 /\ v7' = v7
      /\ v9' = v9 + 1 /\ v9 < MaxStarts
  BY DEF X!StartPreview, X!StartPersist, X!Start, X!At, X!disk
<1>4. v9' \in 0..MaxStarts
  BY <1>1, <1>3, ExportConstants
<1>5. X!PackageFaithful'
  <2>1. \A j \in Items : v3[j] # X!Stray => v3'[j] = v3[j]
    BY <1>1 DEF X!StartPreview, X!StartPersist
  <2> QED
    BY <1>3, <2>1, PublishedStays
<1>6. v5[c] = X!Missing /\ v5[c].members = {}
  BY <1>3, PackageTypes DEF X!ExportInv, X!Works, X!Done
<1>7. v7' # c /\ v7' \in Calls \cup {None} /\ \A q \in Calls \ {c} : v7' = q <=> v7 = q
  BY <1>1, <1>3
<1>8. CASE X!StartPreview(c, i)
  <2> DEFINE call == [X!Resting EXCEPT !.pc = "freeze", !.id = i]
  <2>1. v8' = [v8 EXCEPT ![c] = call]
    BY <1>8 DEF X!StartPreview, X!Start
  <2>2. /\ call.pc = "freeze" /\ call.id = i
        /\ call \in [pc : X!Points, id : Items \cup {None}, name : Names \cup {None},
                     format : {"zip", "files"}]
    BY DEF X!Resting, X!Points
  <2> HIDE DEF call
  <2>3. /\ v3' \in [Items -> X!Revisions \cup {X!Stray}] /\ v3'[i] # X!Stray
        /\ \A j \in Items : v3[j] # X!Stray => v3'[j] = v3[j]
    BY <1>1, <1>2, <1>8 DEF X!StartPreview
  <2>4. \A k \in 1..Len(v4) : v4[k] \in Items
    BY <1>1, ElementOfSeq
  <2>5. \A k \in 1..Len(v4') : v3'[v4'[k]] # X!Stray
    BY <1>1, <1>3, <2>3, <2>4
  <2>6. v8'[c] = call
    BY <2>1 DEF X!ExportInv
  <2>7. X!Works(c)'
    BY <2>2, <2>3, <2>6, <1>3, <1>6 DEF X!Works, X!Plan, X!Done
  <2> QED
    BY <1>1, <1>3, <1>4, <1>5, <1>7, <2>1, <2>2, <2>3, <2>5, <2>7, CallMoves
<1>9. ASSUME NEW n \in Names, NEW f \in {"zip", "files"}, X!StartPersist(c, i, n, f)
      PROVE  X!ExportInv'
  <2> DEFINE call == [pc |-> "lock", id |-> i, name |-> n, format |-> f]
  <2>1. v8' = [v8 EXCEPT ![c] = call] /\ v3' = v3
    BY <1>9 DEF X!StartPersist, X!Start
  <2>2. /\ call.pc = "lock" /\ call.id = i /\ call.name = n
        /\ call \in [pc : X!Points, id : Items \cup {None}, name : Names \cup {None},
                     format : {"zip", "files"}]
    BY DEF X!Points
  <2> HIDE DEF call
  <2>3. v3[i] # X!Stray
    BY <1>1, <1>9 DEF X!StartPersist
  <2>4. v8'[c] = call
    BY <2>1 DEF X!ExportInv
  <2>5. X!Works(c)'
    BY <2>1, <2>2, <2>3, <2>4, <1>3, <1>6 DEF X!Works, X!Plan, X!Done
  <2> QED
    BY <1>1, <1>3, <1>4, <1>5, <1>7, <2>1, <2>2, <2>5, CallMoves
<1> QED
  BY <1>8, <1>9

LEMMA ExportNext == ASSUME X!ExportInv, X!Next PROVE X!ExportInv'
<1>1. CASE X!Commit \/ X!EditSource \/ X!EditAttachment
  <2>1. /\ v3' = v3 /\ v4' = v4 /\ v5' = v5 /\ v6' = v6 /\ v7' = v7 /\ v8' = v8 /\ v9' = v9
    BY <1>1 DEF X!Commit, X!EditSource, X!EditAttachment
  <2>2. v1 \in X!Revisions /\ v2 \in X!AttachmentBytes
    BY DEF X!ExportInv, X!TypeOK
  <2>3. v1' \in X!Revisions /\ v2' \in X!AttachmentBytes
    BY <1>1, <2>2, ExportConstants DEF X!Commit, X!EditSource, X!EditAttachment, X!Revisions
  <2>4. X!TypeOK'
    BY <2>1, <2>3 DEF X!ExportInv, X!TypeOK
  <2>5. \A c \in Calls : X!Works(c)'
    BY <2>1, WorkGoesOn
  <2> QED
    BY <2>1, <2>4, <2>5 DEF X!ExportInv, X!PackageFaithful
<1> QED
  BY <1>1, CallStepKeepsExport, KeepKeepsExport, WriteKeepsExport, RenameKeepsExport, StartsKeepExport
  DEF X!Next

-----------------------------------------------------------------------------
(* Evidence: v1 file, v2 uploads, v3 parts, v4 finals, v5 receipts,        *)
(* v6 lease, v7 revision, v8 calls, v9 starts, v10 deaths.                 *)

EvidenceCall == [pc : E!Points, u : Items \cup {None}, approves : BOOLEAN]
EvidencePart == [by : Calls \cup {None}, bytes : E!Bytes \cup {E!Nothing}, whole : BOOLEAN]

(* What was selected stays selected, for the same mutation.                *)
SelectionKept ==
  \A u \in Items : E!Selected(u) =>
    E!Selected(u)' /\ v2'[u].m = v2[u].m /\ v2'[u].bytes = v2[u].bytes

StagedKept == \A u \in Items : E!Selected(u) /\ E!Staged(u) => E!Staged(u)'

BusyWorks ==
  \A u \in Items : v2[u].busy =>
    \E c \in Calls : v8[c].u = u /\ ~v8[c].approves /\ v8[c].pc \notin {"idle", "status"}

LEMMA EvidenceConstants ==
  /\ None \notin Calls /\ None \notin Items /\ None \notin Mutations
  /\ MaxStarts \in Nat /\ StoredRevisions \in Nat /\ MaxFaults \in Nat
BY ServicesAssumption DEF E!EvidenceBounds, E!NobodyAssumption

LEMMA EvidenceTypes ==
  ASSUME E!EvidenceInv
  PROVE  /\ v1 \in E!Bytes
         /\ v2 \in [Items -> E!Upload] /\ v3 \in [Items -> EvidencePart]
         /\ v4 \in [Mutations -> E!Bytes \cup {E!Nothing}] /\ v5 \in [Mutations -> E!Record]
         /\ \A c \in Calls : v6 = c <=> v8[c].pc \in E!Committing
         /\ v7 \in Nat /\ v9 \in 0..MaxStarts /\ v10 \in 0..MaxFaults
         /\ v8 \in [Calls -> EvidenceCall]
         /\ v6 \in Calls \cup {None}
BY DEF E!EvidenceInv, E!TypeOK, E!Committing, EvidenceCall, EvidencePart

LEMMA FreshTypes ==
  /\ E!Ended \in EvidenceCall /\ E!Ended.pc = "idle" /\ E!Ended.approves = FALSE
  /\ E!Absent \in EvidencePart /\ E!Absent.whole = FALSE /\ E!Absent.by = None
  /\ E!Unused \in E!Upload /\ E!Unused.state = "unused" /\ E!Unused.busy = FALSE
  /\ E!Unknown \in E!Record /\ E!Unknown.state = "not-found"
BY DEF E!Ended, E!Absent, E!Unused, E!Unknown, EvidenceCall, EvidencePart, E!Upload, E!Record,
       E!Points

(* The invariant, put together from what the next state holds.             *)
LEMMA EvidenceTogether ==
  ASSUME v1' \in E!Bytes,
         v2' \in [Items -> E!Upload], v3' \in [Items -> EvidencePart],
         v4' \in [Mutations -> E!Bytes \cup {E!Nothing}], v5' \in [Mutations -> E!Record],
         \A c \in Calls : v6' = c <=> v8'[c].pc \in E!Committing,
         v7' \in Nat, v9' \in 0..MaxStarts, v10' \in 0..MaxFaults,
         v8' \in [Calls -> EvidenceCall], v6' \in Calls \cup {None},
         \A u \in Items : v2'[u] = E!Unused \/ E!Selected(u)',
         BusyWorks', \A m \in Mutations : E!Named(m)', \A c \in Calls : E!Progressing(c)'
  PROVE  E!EvidenceInv'
<1>1. E!TypeOK'
  <2>1. \A u \in Items : v2'[u].busy => \E c \in Calls : v8'[c].u = u
    BY DEF BusyWorks
  <2> QED
    BY <2>1 DEF E!TypeOK, E!Committing, EvidencePart
<1> QED
  BY <1>1 DEF E!EvidenceInv, BusyWorks, EvidenceCall

(* A receipt that a step does not write stays true.                        *)
LEMMA NamedStays ==
  ASSUME E!EvidenceInv, NEW m \in Mutations, v5'[m] = v5[m], v4'[m] = v4[m],
         SelectionKept, StagedKept
  PROVE  E!Named(m)'
<1>1. E!Named(m)
  BY DEF E!EvidenceInv
<1> QED
  BY <1>1 DEF E!Named, SelectionKept, StagedKept

(* A call that a step does not move stays where its part and its receipt   *)
(* are.                                                                    *)
LEMMA ProgressStays ==
  ASSUME E!EvidenceInv, NEW c \in Calls, v8'[c] = v8[c], SelectionKept, StagedKept,
         v8[c].pc \in {"receive", "discard"} => v3'[v8[c].u] = v3[v8[c].u],
         \A m \in Mutations : v5[m].state # "not-found" => v5'[m].state # "not-found",
         v8[c].pc \in {"publish", "unlink", "replace"} => v4' = v4 /\ v5' = v5
  PROVE  E!Progressing(c)'
<1>1. E!Progressing(c)
  BY DEF E!EvidenceInv
<1>2. CASE v8[c].pc = "idle"
  BY <1>1, <1>2 DEF E!Progressing, E!Committing
<1>3. CASE v8[c].pc # "idle"
  <2> DEFINE u == v8[c].u
  <2>1. u \in Items /\ E!Selected(u)
    BY <1>1, <1>3 DEF E!Progressing
  <2>2. E!Selected(u)' /\ v2'[u].m = v2[u].m /\ v2'[u].bytes = v2[u].bytes /\ v2[u].m \in Mutations
    BY <2>1 DEF SelectionKept, E!Selected
  <2>3. E!Staged(u) => E!Staged(u)'
    BY <2>1 DEF StagedKept
  <2> QED
    BY <1>1, <1>3, <2>1, <2>2, <2>3 DEF E!Progressing
<1> QED
  BY <1>2, <1>3

(* An answer or an exception ends the call: it frees the lock that it      *)
(* holds, and the upload that it had made busy.                            *)
LEMMA CallLeaves ==
  ASSUME E!EvidenceInv, NEW c \in Calls, v8[c].pc # "idle", E!Leave(c)
  PROVE  /\ v8' \in [Calls -> EvidenceCall] /\ v6' \in Calls \cup {None}
         /\ \A q \in Calls : q # c => v8'[q] = v8[q]
         /\ \A q \in Calls : v6' = q <=> v8'[q].pc \in E!Committing
         /\ v2' \in [Items -> E!Upload]
         /\ \A u \in Items : v2'[u] = E!Unused \/ E!Selected(u)'
         /\ SelectionKept /\ BusyWorks' /\ E!Progressing(c)'
<1> DEFINE w == v8[c].u
<1>1. w \in Items /\ E!Selected(w)
  BY DEF E!EvidenceInv, E!Progressing
<1>2. v8' = [v8 EXCEPT ![c] = E!Ended]
  BY DEF E!Leave
<1>3. /\ v8' \in [Calls -> EvidenceCall]
      /\ \A q \in Calls : q # c => v8'[q] = v8[q]
      /\ v8'[c].pc = "idle" /\ v8'[c].approves = FALSE
  BY <1>2, EvidenceTypes, FreshTypes
<1>4. v6' = IF v6 = c THEN None ELSE v6
  BY DEF E!Leave
<1>5. v6' \in Calls \cup {None} /\ \A q \in Calls : v6' = q <=> v8'[q].pc \in E!Committing
  BY <1>3, <1>4, EvidenceTypes, EvidenceConstants DEF E!Committing
<1>6. \/ v2' = v2
      \/ v2' = [v2 EXCEPT ![w].busy = FALSE]
  BY DEF E!Leave
<1>7. /\ v2' \in [Items -> E!Upload]
      /\ \A u \in Items : /\ v2'[u].state = v2[u].state /\ v2'[u].m = v2[u].m
                          /\ v2'[u].bytes = v2[u].bytes
                          /\ v2'[u] = v2[u] \/ u = w
  <2>1. v2[w] \in E!Upload /\ v2 \in [Items -> E!Upload]
    BY <1>1, EvidenceTypes
  <2>2. CASE v2' = v2
    BY <2>1, <2>2
  <2>3. CASE v2' = [v2 EXCEPT ![w].busy = FALSE]
    <3>1. [v2[w] EXCEPT !.busy = FALSE] \in E!Upload
      BY <2>1 DEF E!Upload
    <3>2. v2' = [v2 EXCEPT ![w] = [v2[w] EXCEPT !.busy = FALSE]]
      BY <2>3
    <3>3. v2' \in [Items -> E!Upload]
      BY <2>1, <3>1, <3>2
    <3>4. \A u \in Items : v2'[u] = IF u = w THEN [v2[w] EXCEPT !.busy = FALSE] ELSE v2[u]
      BY <2>1, <3>2, <1>1
    <3> QED
      BY <2>1, <3>3, <3>4 DEF E!Upload
  <2> QED
    BY <1>6, <2>2, <2>3
<1>8. SelectionKept
  BY <1>7 DEF SelectionKept, E!Selected
<1>9. \A u \in Items : v2'[u] = E!Unused \/ E!Selected(u)'
  BY <1>1, <1>7, <1>8 DEF E!EvidenceInv, SelectionKept
<1>10. BusyWorks'
  <2> SUFFICES ASSUME NEW u \in Items, v2'[u].busy
               PROVE  \E q \in Calls : /\ v8'[q].u = u /\ ~v8'[q].approves
                                       /\ v8'[q].pc \notin {"idle", "status"}
    BY DEF BusyWorks
  <2>1. v2[u].busy /\ (u = w => v8[c].pc = "status" \/ v8[c].approves)
    <3>1. CASE v8[c].pc = "status" \/ v8[c].approves
      BY <3>1 DEF E!Leave, E!At
    <3>2. CASE ~(v8[c].pc = "status" \/ v8[c].approves)
      <4>1. v2' = [v2 EXCEPT ![w].busy = FALSE]
        BY <3>2 DEF E!Leave, E!At
      <4>2. u # w
        <5> SUFFICES ASSUME u = w PROVE FALSE
          OBVIOUS
        <5>1. v2'[w].busy = FALSE
          BY <4>1, <1>1, EvidenceTypes DEF E!Upload
        <5> QED
          BY <5>1
      <4> QED
        BY <4>1, <4>2, EvidenceTypes
    <3> QED
      BY <3>1, <3>2
  <2>2. PICK q \in Calls : /\ v8[q].u = u /\ ~v8[q].approves
                           /\ v8[q].pc \notin {"idle", "status"}
    BY <2>1 DEF E!EvidenceInv
  <2>3. q # c
    BY <2>1, <2>2
  <2> QED
    BY <2>2, <2>3, <1>3
<1>11. E!Progressing(c)'
  BY <1>3 DEF E!Progressing, E!Committing
<1> QED
  BY <1>3, <1>5, <1>7, <1>8, <1>9, <1>10, <1>11

(* A call goes on to its next point, with the upload it has.               *)
LEMMA CallGoesOn ==
  ASSUME E!EvidenceInv, NEW c \in Calls, v8[c].pc # "idle",
         NEW pc \in E!Points \ {"idle", "status"}, E!Goto(c, pc), v2' = v2
  PROVE  /\ v8' \in [Calls -> EvidenceCall]
         /\ \A q \in Calls : q # c => v8'[q] = v8[q]
         /\ v8'[c].pc = pc /\ v8'[c].u = v8[c].u /\ v8'[c].approves = v8[c].approves
         /\ v8[c].u \in Items /\ E!Selected(v8[c].u) /\ E!Selected(v8[c].u)'
         /\ v2[v8[c].u].m \in Mutations
         /\ v2' \in [Items -> E!Upload]
         /\ \A u \in Items : v2'[u] = E!Unused \/ E!Selected(u)'
         /\ SelectionKept /\ BusyWorks'
<1>1. v8[c].u \in Items /\ E!Selected(v8[c].u)
  BY DEF E!EvidenceInv, E!Progressing
<1>2. /\ v8' \in [Calls -> EvidenceCall]
      /\ \A q \in Calls : q # c => v8'[q] = v8[q]
      /\ v8'[c].pc = pc /\ v8'[c].u = v8[c].u /\ v8'[c].approves = v8[c].approves
  BY EvidenceTypes DEF E!Goto, EvidenceCall
<1>3. \A u \in Items : (E!Selected(u) <=> E!Selected(u)')
  BY DEF E!Selected
<1>4. SelectionKept
  BY <1>3 DEF SelectionKept
<1>5. BusyWorks'
  <2> SUFFICES ASSUME NEW u \in Items, v2'[u].busy
               PROVE  \E q \in Calls : /\ v8'[q].u = u /\ ~v8'[q].approves
                                       /\ v8'[q].pc \notin {"idle", "status"}
    BY DEF BusyWorks
  <2>1. PICK q \in Calls : /\ v8[q].u = u /\ ~v8[q].approves
                           /\ v8[q].pc \notin {"idle", "status"}
    BY DEF E!EvidenceInv
  <2> QED
    BY <2>1, <1>2
<1> QED
  BY <1>1, <1>2, <1>3, <1>4, <1>5, EvidenceTypes DEF E!EvidenceInv, E!Selected

(* Calls that only read, wait for the lock, or give up.                    *)
LEMMA ReadersKeepEvidence ==
  ASSUME E!EvidenceInv, NEW c \in Calls,
         \/ E!StatusRefused(c) \/ E!CreateRefused(c) \/ E!LockTimeout(c) \/ E!Answer(c)
         \/ E!StatusKnown(c) \/ E!ReceiveFailed(c) \/ E!Lock(c)
  PROVE  E!EvidenceInv'
<1>1. v1' = v1 /\ v3' = v3 /\ v4' = v4 /\ v5' = v5 /\ v7' = v7 /\ v9' = v9 /\ v10' = v10
  BY DEF E!StatusRefused, E!CreateRefused, E!LockTimeout, E!Answer, E!StatusKnown, E!ReceiveFailed,
         E!Lock, E!stored, E!bounds
<1>2. v8[c].pc # "idle"
  BY DEF E!StatusRefused, E!CreateRefused, E!LockTimeout, E!Answer, E!StatusKnown, E!ReceiveFailed,
         E!Lock, E!At
<1>3. ASSUME SelectionKept PROVE StagedKept
  BY <1>1, <1>3 DEF StagedKept, SelectionKept, E!Staged
<1>4. CASE E!StatusRefused(c) \/ E!CreateRefused(c) \/ E!LockTimeout(c) \/ E!Answer(c)
  <2>1. E!Leave(c)
    BY <1>4 DEF E!StatusRefused, E!CreateRefused, E!LockTimeout, E!Answer
  <2>2. SelectionKept /\ StagedKept
    BY <2>1, <1>2, <1>3, CallLeaves
  <2>3. \A m \in Mutations : E!Named(m)'
    BY <1>1, <2>2, NamedStays
  <2>4. \A q \in Calls : E!Progressing(q)'
    BY <1>1, <1>2, <2>1, <2>2, CallLeaves, ProgressStays
  <2> QED
    BY <1>1, <1>2, <2>1, <2>3, <2>4, CallLeaves, EvidenceTypes, EvidenceTogether
<1>5. CASE E!StatusKnown(c) \/ E!ReceiveFailed(c) \/ E!Lock(c)
  <2>1. PICK pc \in {"lock", "discard", "commit"} : E!Goto(c, pc)
    BY <1>5 DEF E!StatusKnown, E!ReceiveFailed, E!Lock
  <2>2. v2' = v2 /\ pc \in E!Points \ {"idle", "status"}
    BY <1>5 DEF E!StatusKnown, E!ReceiveFailed, E!Lock, E!Points
  <2>3. /\ v8'[c].pc = pc /\ v8'[c].u = v8[c].u /\ v8'[c].approves = v8[c].approves
        /\ v8[c].u \in Items /\ E!Selected(v8[c].u)'
        /\ \A q \in Calls : q # c => v8'[q] = v8[q]
        /\ SelectionKept
    BY <1>2, <2>1, <2>2, CallGoesOn
  <2>4. StagedKept
    BY <2>3, <1>3
  <2>5. \A m \in Mutations : E!Named(m)'
    BY <1>1, <2>3, <2>4, NamedStays
  <2>6. E!Progressing(c)'
    <3>1. E!Progressing(c) /\ v8[c].u \in Items /\ v8[c] \in EvidenceCall
      BY <2>3, EvidenceTypes DEF E!EvidenceInv
    <3>2. CASE E!StatusKnown(c)
      <4>1. pc = "lock" /\ v8'[c].pc = "lock"
        BY <3>2, <2>3, EvidenceTypes DEF E!StatusKnown, E!Goto, EvidenceCall
      <4>2. v8[c].pc = "status" /\ v5[v2[v8[c].u].m].state \in {"committed", "proposed"}
        BY <3>2 DEF E!StatusKnown, E!At, E!Receipt, E!Up
      <4> QED
        BY <3>1, <4>1, <4>2, <1>1, <2>2, <2>3 DEF E!Progressing
    <3>3. CASE E!ReceiveFailed(c)
      <4>1. pc = "discard" /\ v8'[c].pc = "discard"
        BY <3>3, <2>3, EvidenceTypes DEF E!ReceiveFailed, E!Goto, EvidenceCall
      <4>2. v8[c].pc = "receive"
        BY <3>3 DEF E!ReceiveFailed, E!At
      <4> QED
        BY <3>1, <4>1, <4>2, <1>1, <2>2, <2>3 DEF E!Progressing, E!Committing
    <3>4. CASE E!Lock(c)
      <4>1. pc = "commit" /\ v8'[c].pc = "commit"
        BY <3>4, <2>3, EvidenceTypes DEF E!Lock, E!Goto, EvidenceCall
      <4>2. v8[c].pc = "lock"
        BY <3>4 DEF E!Lock, E!At
      <4> QED
        BY <3>1, <4>1, <4>2, <1>1, <2>2, <2>3 DEF E!Progressing, E!Committing, E!Staged
    <3> QED
      BY <1>5, <3>2, <3>3, <3>4
  <2>7. \A q \in Calls : E!Progressing(q)'
    BY <1>1, <2>3, <2>4, <2>6, ProgressStays
  <2>8. v6' \in Calls \cup {None} /\ \A q \in Calls : v6' = q <=> v8'[q].pc \in E!Committing
    <3>1. CASE E!Lock(c)
      <4>1. v6 = None /\ v6' = c /\ v8'[c].pc = "commit"
        BY <3>1, <2>3, EvidenceTypes DEF E!Lock, E!Goto, EvidenceCall
      <4>2. \A q \in Calls : v8[q].pc \notin E!Committing
        BY <4>1, EvidenceTypes, EvidenceConstants
      <4> QED
        BY <4>1, <4>2, <2>3 DEF E!Committing
    <3>2. CASE E!StatusKnown(c) \/ E!ReceiveFailed(c)
      <4>1. v6' = v6 /\ v8[c].pc \in {"status", "receive"} /\ v8'[c].pc \in {"lock", "discard"}
        BY <3>2, <2>3, EvidenceTypes DEF E!StatusKnown, E!ReceiveFailed, E!Goto, EvidenceCall, E!At
      <4> QED
        BY <4>1, <2>3, EvidenceTypes DEF E!Committing
    <3> QED
      BY <1>5, <3>1, <3>2
  <2> QED
    BY <1>1, <1>2, <2>1, <2>2, <2>5, <2>7, <2>8, CallGoesOn, EvidenceTypes, EvidenceTogether
<1> QED
  BY <1>4, <1>5

(* A call begins, on an upload or on the part of a stored proposal.        *)
LEMMA BeginKeepsEvidence ==
  ASSUME E!EvidenceInv, NEW c \in Calls,
         (\E u \in Items : E!Accept(c, u)) \/ (\E m \in Mutations : E!Approve(c, m))
  PROVE  E!EvidenceInv'
<1>1. PICK call \in EvidenceCall :
        /\ v8' = [v8 EXCEPT ![c] = call]
        /\ call.u \in Items /\ E!Selected(call.u)
        /\ \/ call.pc = "status" /\ ~call.approves
           \/ call.pc = "lock" /\ v5[v2[call.u].m].state # "not-found"
  <2>1. ASSUME NEW u \in Items, E!Accept(c, u)
        PROVE  \E call \in EvidenceCall :
                 /\ v8' = [v8 EXCEPT ![c] = call]
                 /\ call.u \in Items /\ E!Selected(call.u)
                 /\ call.pc = "status" /\ ~call.approves
    <3> DEFINE call == [pc |-> "status", u |-> u, approves |-> FALSE]
    <3>1. call \in EvidenceCall /\ call.u = u /\ call.pc = "status" /\ ~call.approves
      BY DEF EvidenceCall, E!Points
    <3>2. v8' = [v8 EXCEPT ![c] = call]
      BY <2>1 DEF E!Accept, E!Begin
    <3>3. E!Selected(u)
      BY <2>1, FreshTypes DEF E!Accept, E!EvidenceInv
    <3> HIDE DEF call
    <3> QED
      BY <3>1, <3>2, <3>3
  <2>2. ASSUME NEW m \in Mutations, E!Approve(c, m)
        PROVE  \E call \in EvidenceCall :
                 /\ v8' = [v8 EXCEPT ![c] = call]
                 /\ call.u \in Items /\ E!Selected(call.u)
                 /\ call.pc = "lock" /\ v5[v2[call.u].m].state # "not-found"
    <3> DEFINE call == [pc |-> "lock", u |-> v5[m].u, approves |-> TRUE]
    <3>1. v5[m].state = "proposed" /\ E!Named(m)
      BY <2>2 DEF E!Approve, E!EvidenceInv
    <3>2. v5[m].u \in Items /\ E!Selected(v5[m].u) /\ v2[v5[m].u].m = m
      BY <3>1 DEF E!Named
    <3>3. call \in EvidenceCall /\ call.u = v5[m].u /\ call.pc = "lock"
      BY <3>2 DEF EvidenceCall, E!Points
    <3>4. v8' = [v8 EXCEPT ![c] = call]
      BY <2>2 DEF E!Approve, E!Begin
    <3> HIDE DEF call
    <3> QED
      BY <3>1, <3>2, <3>3, <3>4
  <2> QED
    BY <2>1, <2>2
<1>2. /\ v8[c].pc = "idle" /\ v9' = v9 + 1 /\ v9 < MaxStarts
      /\ v1' = v1 /\ v2' = v2 /\ v3' = v3 /\ v4' = v4 /\ v5' = v5 /\ v6' = v6 /\ v7' = v7
      /\ v10' = v10
  BY DEF E!Accept, E!Approve, E!Begin, E!At, E!stored
<1>3. v8' \in [Calls -> EvidenceCall] /\ v8'[c] = call /\ \A q \in Calls : q # c => v8'[q] = v8[q]
  BY <1>1, EvidenceTypes
<1>4. SelectionKept /\ StagedKept /\ \A u \in Items : v2'[u] = E!Unused \/ E!Selected(u)'
  BY <1>2 DEF SelectionKept, StagedKept, E!Selected, E!Staged, E!EvidenceInv
<1>5. \A m \in Mutations : E!Named(m)'
  BY <1>2, <1>4, NamedStays
<1>6. E!Progressing(c)'
  <2>1. call.approves => call.pc = "lock"
    BY <1>1
  <2> QED
    BY <1>1, <1>2, <1>3, <2>1 DEF E!Progressing, E!Committing, E!Selected
<1>7. \A q \in Calls : E!Progressing(q)'
  BY <1>2, <1>3, <1>4, <1>6, ProgressStays
<1>8. BusyWorks'
  <2> SUFFICES ASSUME NEW u \in Items, v2'[u].busy
               PROVE  \E q \in Calls : /\ v8'[q].u = u /\ ~v8'[q].approves
                                       /\ v8'[q].pc \notin {"idle", "status"}
    BY DEF BusyWorks
  <2>1. PICK q \in Calls : /\ v8[q].u = u /\ ~v8[q].approves
                           /\ v8[q].pc \notin {"idle", "status"}
    BY <1>2 DEF E!EvidenceInv
  <2> QED
    BY <2>1, <1>2, <1>3
<1>9. \A q \in Calls : v6' = q <=> v8'[q].pc \in E!Committing
  BY <1>1, <1>2, <1>3, EvidenceTypes DEF E!Committing
<1>10. v9' \in 0..MaxStarts
  BY <1>2, EvidenceTypes, EvidenceConstants
<1> QED
  BY <1>2, <1>3, <1>4, <1>5, <1>7, <1>8, <1>9, <1>10, EvidenceTypes, EvidenceTogether

LEMMA StatusNewKeepsEvidence ==
  ASSUME E!EvidenceInv, NEW c \in Calls, E!StatusNew(c)
  PROVE  E!EvidenceInv'
<1> DEFINE w == v8[c].u
<1>1. w \in Items /\ E!Selected(w) /\ v8[c].pc = "status" /\ ~v8[c].approves
  <2>1. v8[c].pc = "status" /\ E!Progressing(c) /\ v8[c] \in EvidenceCall
    BY EvidenceTypes DEF E!StatusNew, E!At, E!EvidenceInv
  <2>2. w \in Items /\ E!Selected(w)
    BY <2>1 DEF E!Progressing
  <2>3. ~v8[c].approves
    BY <2>1 DEF E!Progressing, E!Committing, EvidenceCall
  <2> QED
    BY <2>1, <2>2, <2>3
<1>2. /\ v1' = v1 /\ v3' = v3 /\ v4' = v4 /\ v5' = v5 /\ v6' = v6 /\ v7' = v7
      /\ v9' = v9 /\ v10' = v10
  BY DEF E!StatusNew, E!stored, E!bounds
<1>3. /\ v8' \in [Calls -> EvidenceCall]
      /\ \A q \in Calls : q # c => v8'[q] = v8[q]
      /\ v8'[c].pc = "create" /\ v8'[c].u = w /\ v8'[c].approves = v8[c].approves
  BY EvidenceTypes DEF E!StatusNew, E!Goto, EvidenceCall, E!Points
<1>4. v2[w] \in E!Upload /\ v2 \in [Items -> E!Upload]
  BY <1>1, EvidenceTypes
<1>5. v2' = [v2 EXCEPT ![w] = [v2[w] EXCEPT !.busy = TRUE]]
  BY DEF E!StatusNew
<1>6. /\ v2' \in [Items -> E!Upload]
      /\ \A u \in Items : /\ v2'[u].state = v2[u].state /\ v2'[u].m = v2[u].m
                          /\ v2'[u].bytes = v2[u].bytes
                          /\ v2'[u] = v2[u] \/ u = w
  <2>1. [v2[w] EXCEPT !.busy = TRUE] \in E!Upload
    BY <1>4 DEF E!Upload
  <2>2. \A u \in Items : v2'[u] = IF u = w THEN [v2[w] EXCEPT !.busy = TRUE] ELSE v2[u]
    BY <1>1, <1>4, <1>5
  <2>3. v2' \in [Items -> E!Upload]
    BY <1>4, <1>5, <2>1
  <2> QED
    BY <1>4, <2>2, <2>3 DEF E!Upload
<1>7. SelectionKept
  BY <1>6 DEF SelectionKept, E!Selected
<1>8. StagedKept
  BY <1>2, <1>7 DEF StagedKept, SelectionKept, E!Staged
<1>9. \A u \in Items : v2'[u] = E!Unused \/ E!Selected(u)'
  BY <1>1, <1>6, <1>7 DEF E!EvidenceInv, SelectionKept
<1>10. \A m \in Mutations : E!Named(m)'
  BY <1>2, <1>7, <1>8, NamedStays
<1>11. E!Progressing(c)'
  BY <1>1, <1>3, <1>7 DEF E!Progressing, E!Committing, SelectionKept
<1>12. \A q \in Calls : E!Progressing(q)'
  BY <1>2, <1>3, <1>7, <1>8, <1>11, ProgressStays
<1>13. BusyWorks'
  <2> SUFFICES ASSUME NEW u \in Items, v2'[u].busy
               PROVE  \E q \in Calls : /\ v8'[q].u = u /\ ~v8'[q].approves
                                       /\ v8'[q].pc \notin {"idle", "status"}
    BY DEF BusyWorks
  <2>1. CASE u = w
    BY <2>1, <1>1, <1>3
  <2>2. CASE u # w
    <3>1. PICK q \in Calls : /\ v8[q].u = u /\ ~v8[q].approves
                             /\ v8[q].pc \notin {"idle", "status"}
      BY <2>2, <1>6 DEF E!EvidenceInv
    <3> QED
      BY <3>1, <2>2, <1>3
  <2> QED
    BY <2>1, <2>2
<1>14. \A q \in Calls : v6' = q <=> v8'[q].pc \in E!Committing
  BY <1>1, <1>2, <1>3, EvidenceTypes DEF E!Committing
<1> QED
  BY <1>2, <1>3, <1>6, <1>9, <1>10, <1>12, <1>13, <1>14, EvidenceTypes, EvidenceTogether

(* The part of an upload is created by one call, which alone fills it.     *)
LEMMA CreateAndReceiveKeepEvidence ==
  ASSUME E!EvidenceInv, NEW c \in Calls, E!CreatePart(c) \/ E!Receive(c)
  PROVE  E!EvidenceInv'
<1> DEFINE w == v8[c].u
<1>1. /\ v1' = v1 /\ v2' = v2 /\ v4' = v4 /\ v5' = v5 /\ v6' = v6 /\ v7' = v7
      /\ v9' = v9 /\ v10' = v10
  BY DEF E!CreatePart, E!Receive, E!bounds
<1>2. PICK pc \in {"receive", "lock"} : E!Goto(c, pc)
  BY DEF E!CreatePart, E!Receive
<1>3. v8[c].pc \in {"create", "receive"} /\ pc \in E!Points \ {"idle", "status"}
  BY DEF E!CreatePart, E!Receive, E!At, E!Points
<1>4. /\ v8'[c].pc = pc /\ v8'[c].u = w /\ v8'[c].approves = v8[c].approves
      /\ w \in Items /\ E!Selected(w) /\ E!Selected(w)'
      /\ \A q \in Calls : q # c => v8'[q] = v8[q]
      /\ SelectionKept
  BY <1>1, <1>2, <1>3, CallGoesOn
<1>5. v3 \in [Items -> EvidencePart] /\ v3[w] \in EvidencePart
  BY <1>4, EvidenceTypes
<1>6. PICK part \in EvidencePart :
        /\ v3' = [v3 EXCEPT ![w] = part]
        /\ E!CreatePart(c) => part.by = c /\ part.whole = FALSE
        /\ E!Receive(c) => part.whole /\ part.bytes = v2[w].bytes
  <2>1. CASE E!CreatePart(c)
    <3> DEFINE part == [E!Absent EXCEPT !.by = c]
    <3>1. part \in EvidencePart /\ part.by = c /\ part.whole = FALSE
      BY DEF E!Absent, EvidencePart
    <3>2. v3' = [v3 EXCEPT ![w] = part] /\ ~E!Receive(c)
      BY <2>1 DEF E!CreatePart, E!Receive, E!At
    <3> HIDE DEF part
    <3> QED
      BY <3>1, <3>2
  <2>2. CASE E!Receive(c)
    <3> DEFINE part == [v3[w] EXCEPT !.bytes = v1, !.whole = TRUE]
    <3>1. part \in EvidencePart /\ part.whole /\ part.bytes = v1
      BY <1>5, EvidenceTypes DEF EvidencePart
    <3>2. v3' = [v3 EXCEPT ![w] = part] /\ ~E!CreatePart(c) /\ v1 = v2[w].bytes
      BY <2>2, <1>4, <1>5 DEF E!CreatePart, E!Receive, E!At, E!Up
    <3> HIDE DEF part
    <3> QED
      BY <3>1, <3>2
  <2> QED
    BY <2>1, <2>2
<1>7. /\ v3' \in [Items -> EvidencePart] /\ v3'[w] = part
      /\ \A u \in Items : u # w => v3'[u] = v3[u]
  BY <1>4, <1>5, <1>6
<1>8. ~v3[w].whole /\ \A q \in Calls : q # c /\ v8[q].pc \in {"receive", "discard"} => v8[q].u # w
  <2>1. CASE E!CreatePart(c)
    <3>1. v3[w] = E!Absent
      BY <2>1 DEF E!CreatePart, E!Creates
    <3> QED
      BY <3>1, FreshTypes, EvidenceConstants DEF E!EvidenceInv, E!Progressing
  <2>2. CASE E!Receive(c)
    <3>1. v8[c].pc = "receive"
      BY <2>2 DEF E!Receive, E!At
    <3> QED
      BY <3>1 DEF E!EvidenceInv, E!Progressing
  <2> QED
    BY <2>1, <2>2
<1>9. StagedKept
  BY <1>1, <1>7, <1>8 DEF StagedKept, E!Staged
<1>10. \A m \in Mutations : E!Named(m)'
  BY <1>1, <1>4, <1>9, NamedStays
<1>11. ASSUME NEW q \in Calls, q # c PROVE E!Progressing(q)'
  <2>1. v8[q].pc \in {"receive", "discard"} => v3'[v8[q].u] = v3[v8[q].u]
    <3>1. v8[q].pc \in {"receive", "discard"} => v8[q].u \in Items
      BY DEF E!EvidenceInv, E!Progressing
    <3> QED
      BY <3>1, <1>7, <1>8, <1>11
  <2> QED
    BY <2>1, <1>1, <1>4, <1>9, <1>11, ProgressStays
<1>12. E!Progressing(c)'
  <2>1. E!Progressing(c) /\ v8[c] \in EvidenceCall
    BY EvidenceTypes DEF E!EvidenceInv
  <2>2. ~v8[c].approves
    BY <2>1, <1>3 DEF E!Progressing, E!Committing, EvidenceCall
  <2>3. CASE E!CreatePart(c)
    <3>1. pc = "receive"
      BY <2>3, <1>4, EvidenceTypes DEF E!CreatePart, E!Goto, EvidenceCall
    <3> QED
      BY <2>2, <2>3, <3>1, <1>4, <1>6, <1>7 DEF E!Progressing, E!Committing
  <2>4. CASE E!Receive(c)
    <3>1. pc = "lock"
      BY <2>4, <1>4, EvidenceTypes DEF E!Receive, E!Goto, EvidenceCall
    <3>2. E!Staged(w)'
      BY <2>4, <1>1, <1>4, <1>6, <1>7 DEF E!Staged
    <3> QED
      BY <2>2, <2>4, <3>1, <3>2, <1>4 DEF E!Progressing, E!Committing, E!Staged
  <2> QED
    BY <2>3, <2>4
<1>13. \A q \in Calls : v6' = q <=> v8'[q].pc \in E!Committing
  BY <1>1, <1>3, <1>4, EvidenceTypes DEF E!Committing
<1> QED
  BY <1>1, <1>2, <1>3, <1>7, <1>10, <1>11, <1>12, <1>13, CallGoesOn, EvidenceTypes, EvidenceTogether

LEMMA DiscardKeepsEvidence ==
  ASSUME E!EvidenceInv, NEW c \in Calls, E!Discard(c)
  PROVE  E!EvidenceInv'
<1> DEFINE w == v8[c].u
<1>1. /\ v1' = v1 /\ v4' = v4 /\ v5' = v5 /\ v7' = v7 /\ v9' = v9 /\ v10' = v10 /\ E!Leave(c)
  BY DEF E!Discard, E!bounds
<1>2. v8[c].pc = "discard"
  BY DEF E!Discard, E!At
<1>3. w \in Items /\ v3[w].by = c /\ ~v3[w].whole
  BY <1>2 DEF E!EvidenceInv, E!Progressing
<1>4. v3' = [v3 EXCEPT ![w] = E!Absent]
  BY <1>3 DEF E!Discard, E!Part
<1>5. v3' \in [Items -> EvidencePart] /\ \A u \in Items : u # w => v3'[u] = v3[u]
  BY <1>3, <1>4, EvidenceTypes, FreshTypes
<1>6. SelectionKept /\ \A q \in Calls : q # c => v8'[q] = v8[q]
  BY <1>1, <1>2, CallLeaves
<1>7. StagedKept
  BY <1>3, <1>5, <1>6 DEF StagedKept, SelectionKept, E!Staged
<1>8. \A m \in Mutations : E!Named(m)'
  BY <1>1, <1>6, <1>7, NamedStays
<1>9. ASSUME NEW q \in Calls, q # c PROVE E!Progressing(q)'
  <2>1. v8[q].pc \in {"receive", "discard"} => v8[q].u \in Items /\ v3[v8[q].u].by = q
    BY DEF E!EvidenceInv, E!Progressing
  <2>2. v8[q].pc \in {"receive", "discard"} => v3'[v8[q].u] = v3[v8[q].u]
    BY <2>1, <1>3, <1>5, <1>9
  <2> QED
    BY <2>2, <1>1, <1>6, <1>7, <1>9, ProgressStays
<1> QED
  BY <1>1, <1>2, <1>5, <1>8, <1>9, CallLeaves, EvidenceTypes, EvidenceTogether

(* Only the holder of the lock publishes, and nobody else writes receipts  *)
(* or final files meanwhile.                                               *)
LEMMA OneCommits ==
  ASSUME E!EvidenceInv, NEW c \in Calls, v8[c].pc \in E!Committing,
         NEW q \in Calls, q # c
  PROVE  v8[q].pc \notin E!Committing
BY EvidenceTypes

LEMMA UnlinkKeepsEvidence ==
  ASSUME E!EvidenceInv, NEW c \in Calls, E!Unlink(c)
  PROVE  E!EvidenceInv'
<1> DEFINE w == v8[c].u
           mine == v2[w].m
<1>1. /\ v1' = v1 /\ v2' = v2 /\ v4' = v4 /\ v5' = v5 /\ v6' = v6 /\ v7' = v7
      /\ v9' = v9 /\ v10' = v10 /\ E!Goto(c, "replace")
      /\ v3' = [v3 EXCEPT ![w] = E!Absent]
  BY DEF E!Unlink, E!bounds
<1>2. v8[c].pc = "unlink" /\ E!Progressing(c)
  BY DEF E!Unlink, E!At, E!EvidenceInv
<1>3. /\ v8'[c].pc = "replace" /\ v8'[c].u = w /\ v8'[c].approves = v8[c].approves
      /\ w \in Items /\ E!Selected(w) /\ E!Selected(w)' /\ mine \in Mutations
      /\ \A q \in Calls : q # c => v8'[q] = v8[q]
      /\ SelectionKept
  BY <1>1, <1>2, CallGoesOn DEF E!Points
<1>4. /\ v5[mine].state = "pending" /\ v5[mine].u = w
      /\ v4[mine] = v2[w].bytes /\ v3[w].whole
  BY <1>2 DEF E!Progressing, E!Staged
<1>5. v3' \in [Items -> EvidencePart] /\ \A u \in Items : u # w => v3'[u] = v3[u]
  BY <1>1, <1>3, EvidenceTypes, FreshTypes
<1>6. ASSUME NEW m \in Mutations PROVE E!Named(m)'
  <2>1. E!Named(m)
    BY DEF E!EvidenceInv
  <2>2. CASE m = mine
    BY <2>1, <2>2, <1>1, <1>3, <1>4 DEF E!Named, E!Selected
  <2>3. CASE m # mine
    <3>1. v5[m].state # "not-found" => v5[m].u # w /\ v5[m].u \in Items
      BY <2>1, <2>3 DEF E!Named
    <3> QED
      BY <2>1, <3>1, <1>1, <1>5 DEF E!Named, E!Selected, E!Staged
  <2> QED
    BY <2>2, <2>3
<1>7. ASSUME NEW q \in Calls, q # c PROVE E!Progressing(q)'
  <2>1. E!Progressing(q) /\ v8'[q] = v8[q] /\ v8[q].pc \notin E!Committing
    BY <1>2, <1>3, <1>7, OneCommits DEF E!EvidenceInv, E!Committing
  <2>2. CASE v8[q].u = w
    BY <2>1, <2>2, <1>1, <1>4 DEF E!Progressing, E!Committing, E!Selected
  <2>3. CASE v8[q].u # w
    <3>1. CASE v8[q].pc = "idle"
      BY <2>1, <3>1 DEF E!Progressing, E!Committing
    <3>2. CASE v8[q].pc # "idle"
      <4>1. v8[q].u \in Items /\ v3'[v8[q].u] = v3[v8[q].u]
        BY <2>1, <2>3, <3>2, <1>5 DEF E!Progressing
      <4> QED
        BY <2>1, <3>2, <4>1, <1>1 DEF E!Progressing, E!Committing, E!Selected, E!Staged
    <3> QED
      BY <3>1, <3>2
  <2> QED
    BY <2>2, <2>3
<1>8. E!Progressing(c)'
  BY <1>1, <1>2, <1>3, <1>4 DEF E!Progressing, E!Committing
<1>9. \A q \in Calls : v6' = q <=> v8'[q].pc \in E!Committing
  BY <1>1, <1>2, <1>3, EvidenceTypes DEF E!Committing
<1>10. "replace" \in E!Points \ {"idle", "status"}
  BY DEF E!Points
<1> QED
  BY <1>1, <1>2, <1>5, <1>6, <1>7, <1>8, <1>9, <1>10, CallGoesOn, EvidenceTypes, EvidenceTogether

(* A proposal, or the journal of a commit, is recorded with its part.      *)
LEMMA RecordsKeepEvidence ==
  ASSUME E!EvidenceInv, NEW c \in Calls, E!Propose(c) \/ E!Journal(c)
  PROVE  E!EvidenceInv'
<1>0. PICK w \in Items, mine \in Mutations :
        w = v8[c].u /\ mine = v2[w].m /\ E!Selected(w) /\ v2[w] \in E!Upload
  <2>1. v8[c].pc # "idle" /\ E!Progressing(c)
    BY DEF E!Propose, E!Journal, E!Replace, E!Replaces, E!At, E!EvidenceInv
  <2> QED
    BY <2>1, EvidenceTypes DEF E!Progressing, E!Selected
<1>1. v1' = v1 /\ v3' = v3 /\ v4' = v4 /\ v7' = v7 /\ v9' = v9 /\ v10' = v10
  BY <1>0 DEF E!Propose, E!Journal, E!bounds
<1>2. v8[c].pc = "commit" /\ E!Progressing(c) /\ v8[c].pc # "idle"
  BY <1>0 DEF E!Propose, E!Journal, E!At, E!EvidenceInv
<1>3. w \in Items /\ E!Selected(w) /\ mine \in Mutations /\ v2[w] \in E!Upload
  BY <1>0, <1>2, EvidenceTypes DEF E!Progressing, E!Selected
<1>4. /\ SelectionKept /\ \A q \in Calls : q # c => v8'[q] = v8[q]
      /\ v8' \in [Calls -> EvidenceCall] /\ v6' \in Calls \cup {None}
      /\ \A q \in Calls : v6' = q <=> v8'[q].pc \in E!Committing
      /\ v2' \in [Items -> E!Upload]
      /\ \A u \in Items : v2'[u] = E!Unused \/ E!Selected(u)'
      /\ BusyWorks'
  <2>1. CASE E!Propose(c)
    <3>1. E!Leave(c)
      BY <1>0, <2>1 DEF E!Propose
    <3> QED
      BY <1>0, <3>1, <1>2, CallLeaves
  <2>2. CASE E!Journal(c)
    <3>1. E!Goto(c, "publish") /\ v2' = v2 /\ v6' = v6 /\ "publish" \in E!Points \ {"idle", "status"}
      BY <1>0, <2>2 DEF E!Journal, E!Points
    <3>2. v8'[c].pc = "publish" /\ \A q \in Calls : q # c => v8'[q] = v8[q]
      BY <1>0, <3>1, <1>2, CallGoesOn
    <3>3. \A q \in Calls : v6' = q <=> v8'[q].pc \in E!Committing
      BY <1>0, <3>1, <3>2, <1>2, EvidenceTypes DEF E!Committing
    <3> QED
      BY <1>0, <3>1, <3>3, <1>2, CallGoesOn, EvidenceTypes
  <2> QED
    BY <1>0, <2>1, <2>2
<1>5. PICK state \in {"proposed", "pending"} :
        /\ v5' = [v5 EXCEPT ![mine] = [state |-> state, u |-> w, bytes |-> v2[w].bytes]]
        /\ E!Journal(c) => state = "pending"
  BY <1>0, <1>2 DEF E!Propose, E!Journal, E!Up
<1>6. /\ v5' \in [Mutations -> E!Record]
      /\ v5'[mine] = [state |-> state, u |-> w, bytes |-> v2[w].bytes]
      /\ \A m \in Mutations : m # mine => v5'[m] = v5[m]
  <2>1. [state |-> state, u |-> w, bytes |-> v2[w].bytes] \in E!Record
    BY <1>0, <1>3 DEF E!Record, E!Upload
  <2> QED
    BY <1>0, <1>3, <1>5, <2>1, EvidenceTypes
<1>7. E!Staged(w) /\ v5[mine].state # "committed"
  <2>1. CASE E!Journal(c)
    BY <1>0, <2>1 DEF E!Journal, E!Verified, E!Part, E!Up, E!Staged, E!Settled, E!Receipt
  <2>2. CASE E!Propose(c)
    <3>1. v5[mine].state = "not-found"
      <4>1. v5[mine].state \in {"not-found", "proposed", "pending", "committed"}
        BY <1>0, <1>3, EvidenceTypes DEF E!Record
      <4> QED
        BY <1>0, <4>1, <2>2 DEF E!Propose, E!Settled, E!Receipt, E!Up
    <3> QED
      BY <1>0, <3>1, <1>2 DEF E!Progressing, E!Staged
  <2> QED
    BY <1>0, <2>1, <2>2
<1>8. StagedKept
  BY <1>0, <1>1, <1>4 DEF StagedKept, SelectionKept, E!Staged
<1>9. v2'[w].m = mine /\ v2'[w].bytes = v2[w].bytes /\ E!Selected(w)' /\ E!Staged(w)'
  BY <1>0, <1>3, <1>4, <1>7, <1>8 DEF SelectionKept, StagedKept
<1>10. ASSUME NEW m \in Mutations PROVE E!Named(m)'
  <2>1. CASE m = mine
    BY <1>0, <2>1, <1>3, <1>6, <1>9 DEF E!Named
  <2>2. CASE m # mine
    BY <1>0, <2>2, <1>1, <1>4, <1>6, <1>8, NamedStays
  <2> QED
    BY <1>0, <2>1, <2>2
<1>11. \A m \in Mutations : v5[m].state # "not-found" => v5'[m].state # "not-found"
  BY <1>0, <1>6
<1>12. ASSUME NEW q \in Calls, q # c PROVE E!Progressing(q)'
  <2>1. v8[q].pc \notin {"publish", "unlink", "replace"}
    BY <1>0, <1>2, <1>12, OneCommits DEF E!Committing
  <2> QED
    BY <1>0, <2>1, <1>1, <1>4, <1>8, <1>11, <1>12, ProgressStays
<1>13. E!Progressing(c)'
  <2>1. CASE E!Propose(c)
    BY <1>0, <2>1, <1>2, CallLeaves DEF E!Propose
  <2>2. CASE E!Journal(c)
    <3>1. /\ v8'[c].pc = "publish" /\ v8'[c].u = w /\ v8'[c].approves = v8[c].approves
          /\ state = "pending"
      BY <1>0, <2>2, <1>5, EvidenceTypes DEF E!Journal, E!Goto, EvidenceCall
    <3>2. v5'[mine].state = "pending" /\ v5'[mine].u = w
      BY <1>0, <1>6, <3>1
    <3> QED
      BY <1>0, <3>1, <3>2, <1>3, <1>9 DEF E!Progressing, E!Committing
  <2> QED
    BY <1>0, <2>1, <2>2
<1> QED
  BY <1>0, <1>1, <1>4, <1>6, <1>10, <1>12, <1>13, EvidenceTypes, EvidenceTogether

LEMMA PublishKeepsEvidence ==
  ASSUME E!EvidenceInv, NEW c \in Calls, E!Publish(c)
  PROVE  E!EvidenceInv'
<1> DEFINE w == v8[c].u
           mine == v2[w].m
<1>1. /\ v1' = v1 /\ v2' = v2 /\ v3' = v3 /\ v5' = v5 /\ v6' = v6 /\ v7' = v7
      /\ v9' = v9 /\ v10' = v10 /\ E!Goto(c, "unlink")
      /\ v4' = [v4 EXCEPT ![mine] = v3[w].bytes]
  BY DEF E!Publish, E!bounds, E!Up, E!Part
<1>2. v8[c].pc = "publish" /\ E!Progressing(c)
  BY DEF E!Publish, E!At, E!EvidenceInv
<1>3. /\ v8'[c].pc = "unlink" /\ v8'[c].u = w /\ v8'[c].approves = v8[c].approves
      /\ w \in Items /\ E!Selected(w) /\ E!Selected(w)' /\ mine \in Mutations
      /\ \A q \in Calls : q # c => v8'[q] = v8[q]
      /\ SelectionKept
  BY <1>1, <1>2, CallGoesOn DEF E!Points
<1>4. v5[mine].state = "pending" /\ v5[mine].u = w /\ E!Staged(w) /\ v3[w].bytes = v2[w].bytes
  BY <1>2 DEF E!Progressing, E!Staged
<1>5. /\ v4' \in [Mutations -> E!Bytes \cup {E!Nothing}] /\ v4'[mine] = v2[w].bytes
      /\ \A m \in Mutations : m # mine => v4'[m] = v4[m]
  BY <1>1, <1>3, <1>4, EvidenceTypes DEF E!Selected
<1>6. StagedKept
  BY <1>1 DEF StagedKept, E!Staged
<1>7. ASSUME NEW m \in Mutations PROVE E!Named(m)'
  <2>1. E!Named(m)
    BY DEF E!EvidenceInv
  <2>2. CASE m = mine
    BY <2>1, <2>2, <1>1, <1>3, <1>4, <1>5 DEF E!Named, E!Staged
  <2>3. CASE m # mine
    BY <2>3, <1>1, <1>3, <1>5, <1>6, NamedStays
  <2> QED
    BY <2>2, <2>3
<1>8. ASSUME NEW q \in Calls, q # c PROVE E!Progressing(q)'
  <2>1. v8[q].pc \notin {"publish", "unlink", "replace"}
    BY <1>2, <1>8, OneCommits DEF E!Committing
  <2> QED
    BY <2>1, <1>1, <1>3, <1>6, <1>8, ProgressStays
<1>9. E!Progressing(c)'
  BY <1>1, <1>2, <1>3, <1>4, <1>5 DEF E!Progressing, E!Committing, E!Staged
<1>10. \A q \in Calls : v6' = q <=> v8'[q].pc \in E!Committing
  BY <1>1, <1>2, <1>3, EvidenceTypes DEF E!Committing
<1>11. "unlink" \in E!Points \ {"idle", "status"}
  BY DEF E!Points
<1> QED
  BY <1>1, <1>2, <1>5, <1>7, <1>8, <1>9, <1>10, <1>11, CallGoesOn, EvidenceTypes, EvidenceTogether

LEMMA ReplaceKeepsEvidence ==
  ASSUME E!EvidenceInv, NEW c \in Calls, E!Replace(c)
  PROVE  E!EvidenceInv'
<1>0. PICK w \in Items, mine \in Mutations :
        w = v8[c].u /\ mine = v2[w].m /\ E!Selected(w) /\ v2[w] \in E!Upload
  <2>1. v8[c].pc # "idle" /\ E!Progressing(c)
    BY DEF E!Propose, E!Journal, E!Replace, E!Replaces, E!At, E!EvidenceInv
  <2> QED
    BY <2>1, EvidenceTypes DEF E!Progressing, E!Selected
<1>1. /\ v1' = v1 /\ v3' = v3 /\ v4' = v4 /\ v7' = v7 + 1 /\ v9' = v9 /\ v10' = v10 /\ E!Leave(c)
      /\ v5' = [v5 EXCEPT ![mine].state = "committed"]
  BY <1>0 DEF E!Replace, E!bounds, E!Up
<1>2. v8[c].pc = "replace" /\ E!Progressing(c)
  BY <1>0 DEF E!Replace, E!Replaces, E!At, E!EvidenceInv
<1>3. w \in Items /\ E!Selected(w) /\ mine \in Mutations
  BY <1>0, <1>2 DEF E!Progressing, E!Selected
<1>4. v5[mine].state = "pending" /\ v5[mine].u = w /\ v4[mine] = v2[w].bytes
  BY <1>0, <1>2 DEF E!Progressing
<1>5. SelectionKept /\ \A q \in Calls : q # c => v8'[q] = v8[q]
  BY <1>0, <1>1, <1>2, CallLeaves
<1>6. /\ v5' \in [Mutations -> E!Record]
      /\ v5'[mine].state = "committed" /\ v5'[mine].u = v5[mine].u
      /\ v5'[mine].bytes = v5[mine].bytes
      /\ \A m \in Mutations : m # mine => v5'[m] = v5[m]
  <2>1. v5[mine] \in E!Record /\ v5 \in [Mutations -> E!Record]
    BY <1>0, <1>3, EvidenceTypes
  <2>2. [v5[mine] EXCEPT !.state = "committed"] \in E!Record
    BY <1>0, <2>1 DEF E!Record
  <2>3. v5' = [v5 EXCEPT ![mine] = [v5[mine] EXCEPT !.state = "committed"]]
    BY <1>0, <1>1
  <2>4. v5'[mine] = [v5[mine] EXCEPT !.state = "committed"]
    BY <1>0, <1>3, <2>1, <2>3
  <2>5. v5' \in [Mutations -> E!Record] /\ \A m \in Mutations : m # mine => v5'[m] = v5[m]
    BY <1>0, <2>1, <2>2, <2>3
  <2> QED
    BY <1>0, <2>1, <2>4, <2>5 DEF E!Record
<1>7. StagedKept
  BY <1>0, <1>1, <1>5 DEF StagedKept, SelectionKept, E!Staged
<1>8. ASSUME NEW m \in Mutations PROVE E!Named(m)'
  <2>1. E!Named(m)
    BY <1>0 DEF E!EvidenceInv
  <2>2. CASE m = mine
    <3>1. E!Selected(w)' /\ v2'[w].m = mine /\ v2'[w].bytes = v2[w].bytes
      BY <1>0, <1>5 DEF SelectionKept
    <3>2. v2[w].bytes = v5[mine].bytes
      BY <2>1, <2>2, <1>4 DEF E!Named
    <3>3. v4'[mine] = v2[w].bytes
      BY <1>1, <1>4
    <3> QED
      BY <2>2, <3>1, <3>2, <3>3, <1>0, <1>4, <1>6 DEF E!Named
  <2>3. CASE m # mine
    BY <1>0, <2>3, <1>1, <1>5, <1>6, <1>7, NamedStays
  <2> QED
    BY <1>0, <2>2, <2>3
<1>9. \A m \in Mutations : v5[m].state # "not-found" => v5'[m].state # "not-found"
  BY <1>0, <1>6
<1>10. ASSUME NEW q \in Calls, q # c PROVE E!Progressing(q)'
  <2>1. v8[q].pc \notin {"publish", "unlink", "replace"}
    BY <1>0, <1>2, <1>10, OneCommits DEF E!Committing
  <2> QED
    BY <1>0, <2>1, <1>1, <1>5, <1>7, <1>9, <1>10, ProgressStays
<1>11. v7' \in Nat
  BY <1>0, <1>1, EvidenceTypes
<1> QED
  BY <1>0, <1>1, <1>2, <1>6, <1>8, <1>10, <1>11, CallLeaves, EvidenceTypes, EvidenceTogether

(* The user selects another file, or the process dies: what was selected   *)
(* before keeps its bytes, and what is on the disk stays there.            *)
LEMMA PrepareKeepsEvidence ==
  ASSUME E!EvidenceInv, NEW u \in Items, NEW m \in Mutations, E!Prepare(u, m)
  PROVE  E!EvidenceInv'
<1> DEFINE fresh == [state |-> "ready", m |-> m, bytes |-> v1, base |-> v7, busy |-> FALSE]
<1>1. /\ v1' = v1 /\ v3' = v3 /\ v4' = v4 /\ v5' = v5 /\ v6' = v6 /\ v7' = v7 /\ v8' = v8
      /\ v9' = v9 /\ v10' = v10
      /\ v2[u] = E!Unused /\ v2' = [v2 EXCEPT ![u] = fresh]
  BY DEF E!Prepare, E!stored, E!bounds
<1>2. /\ fresh \in E!Upload /\ fresh.state = "ready" /\ fresh.m = m /\ fresh.bytes \in E!Bytes
      /\ fresh.busy = FALSE
  BY EvidenceTypes DEF E!Upload
<1> HIDE DEF fresh
<1>3. v2' \in [Items -> E!Upload] /\ v2'[u] = fresh /\ \A w \in Items : w # u => v2'[w] = v2[w]
  BY <1>1, <1>2, EvidenceTypes
<1>4. ~E!Selected(u)
  BY <1>1, FreshTypes DEF E!Selected
<1>5. SelectionKept
  BY <1>3, <1>4 DEF SelectionKept, E!Selected
<1>6. StagedKept
  BY <1>1, <1>5 DEF StagedKept, SelectionKept, E!Staged
<1>7. \A w \in Items : v2'[w] = E!Unused \/ E!Selected(w)'
  BY <1>2, <1>3, <1>5 DEF E!EvidenceInv, E!Selected, SelectionKept
<1>8. BusyWorks'
  BY <1>1, <1>2, <1>3 DEF BusyWorks, E!EvidenceInv
<1>9. \A n \in Mutations : E!Named(n)'
  BY <1>1, <1>5, <1>6, NamedStays
<1>10. \A q \in Calls : E!Progressing(q)'
  BY <1>1, <1>5, <1>6, ProgressStays
<1> QED
  BY <1>1, <1>3, <1>7, <1>8, <1>9, <1>10, EvidenceTypes, EvidenceTogether

LEMMA DieKeepsEvidence ==
  ASSUME E!EvidenceInv, E!Die
  PROVE  E!EvidenceInv'
<1>1. /\ v1' = v1 /\ v3' = v3 /\ v4' = v4 /\ v5' = v5 /\ v6' = None /\ v7' = v7
      /\ v8' = [c \in Calls |-> E!Ended] /\ v9' = v9 /\ v10' = v10 + 1 /\ v10 < MaxFaults
  BY DEF E!Die, E!stored
<1>2. /\ v8' \in [Calls -> EvidenceCall]
      /\ \A c \in Calls : v8'[c].pc = "idle" /\ v8'[c].approves = FALSE
  BY <1>1, FreshTypes
<1>3. v2' \in [Items -> E!Upload]
      /\ \A u \in Items : /\ v2'[u].busy = FALSE
                          /\ v2[u] = E!Unused => v2'[u] = E!Unused
                          /\ v2[u] # E!Unused => /\ v2'[u].state = "lost" /\ v2'[u].m = v2[u].m
                                                 /\ v2'[u].bytes = v2[u].bytes
  <2>1. v2' = [u \in Items |-> IF v2[u] = E!Unused THEN E!Unused
                               ELSE [v2[u] EXCEPT !.busy = FALSE, !.state = "lost"]]
    BY DEF E!Die
  <2>2. ASSUME NEW u \in Items
        PROVE  /\ v2'[u] \in E!Upload
               /\ v2'[u].busy = FALSE
               /\ v2[u] = E!Unused => v2'[u] = E!Unused
               /\ v2[u] # E!Unused => /\ v2'[u].state = "lost" /\ v2'[u].m = v2[u].m
                                      /\ v2'[u].bytes = v2[u].bytes
    <3>1. v2[u] \in E!Upload
      BY EvidenceTypes
    <3>2. CASE v2[u] = E!Unused
      BY <2>1, <3>2, FreshTypes
    <3>3. CASE v2[u] # E!Unused
      <4>1. v2'[u] = [v2[u] EXCEPT !.busy = FALSE, !.state = "lost"]
        BY <2>1, <3>3
      <4> QED
        BY <3>1, <3>3, <4>1 DEF E!Upload
    <3> QED
      BY <3>2, <3>3
  <2>3. v2' \in [Items -> E!Upload]
    BY <2>1, <2>2
  <2> QED
    BY <2>2, <2>3
<1>4. SelectionKept
  <2>1. \A u \in Items : E!Selected(u) => v2[u] # E!Unused
    BY FreshTypes DEF E!Selected
  <2> QED
    BY <1>3, <2>1 DEF SelectionKept, E!Selected
<1>5. StagedKept
  BY <1>1, <1>4 DEF StagedKept, SelectionKept, E!Staged
<1>6. \A u \in Items : v2'[u] = E!Unused \/ E!Selected(u)'
  BY <1>3, <1>4 DEF E!EvidenceInv, SelectionKept
<1>7. BusyWorks'
  BY <1>3 DEF BusyWorks
<1>8. \A m \in Mutations : E!Named(m)'
  BY <1>1, <1>4, <1>5, NamedStays
<1>9. \A c \in Calls : E!Progressing(c)'
  BY <1>2 DEF E!Progressing, E!Committing
<1>10. \A c \in Calls : v6' = c <=> v8'[c].pc \in E!Committing
  BY <1>1, <1>2, EvidenceConstants DEF E!Committing
<1>11. v10' \in 0..MaxFaults
  BY <1>1, EvidenceTypes, EvidenceConstants
<1> QED
  BY <1>1, <1>2, <1>3, <1>6, <1>7, <1>8, <1>9, <1>10, <1>11, EvidenceTypes, EvidenceTogether

LEMMA ElsewhereKeepsEvidence ==
  ASSUME E!EvidenceInv, E!ChangeFile \/ E!CommitElsewhere
  PROVE  E!EvidenceInv'
<1>1. /\ v2' = v2 /\ v3' = v3 /\ v4' = v4 /\ v5' = v5 /\ v6' = v6 /\ v8' = v8
      /\ v9' = v9 /\ v10' = v10
  BY DEF E!ChangeFile, E!CommitElsewhere, E!stored, E!bounds
<1>2. v1' \in E!Bytes /\ v7' \in Nat
  BY EvidenceTypes DEF E!ChangeFile, E!CommitElsewhere, E!stored
<1>3. SelectionKept /\ StagedKept /\ \A u \in Items : v2'[u] = E!Unused \/ E!Selected(u)'
  BY <1>1 DEF SelectionKept, StagedKept, E!Selected, E!Staged, E!EvidenceInv
<1>4. \A m \in Mutations : E!Named(m)'
  BY <1>1, <1>3, NamedStays
<1>5. \A c \in Calls : E!Progressing(c)'
  BY <1>1, <1>3, ProgressStays
<1>6. BusyWorks'
  BY <1>1 DEF BusyWorks, E!EvidenceInv
<1> QED
  BY <1>1, <1>2, <1>3, <1>4, <1>5, <1>6, EvidenceTypes, EvidenceTogether

LEMMA EvidenceStarts == E!Init => E!EvidenceInv
<1> SUFFICES ASSUME E!Init PROVE E!EvidenceInv
  OBVIOUS
<1> USE EvidenceConstants, FreshTypes DEF E!Init
<1>1. E!TypeOK
  <2>1. v3 \in [Items -> [by : Calls \cup {None}, bytes : E!Bytes \cup {E!Nothing}, whole : BOOLEAN]]
    BY DEF EvidencePart
  <2>2. /\ \A c \in Calls : v6 = c <=> v8[c].pc \in {"commit", "publish", "unlink", "replace"}
        /\ \A u \in Items : ~v2[u].busy
    OBVIOUS
  <2> QED
    BY <2>1, <2>2 DEF E!TypeOK
<1>2. v8 \in [Calls -> [pc : E!Points, u : Items \cup {None}, approves : BOOLEAN]]
  BY DEF EvidenceCall
<1>3. \A m \in Mutations : E!Named(m)
  BY DEF E!Named
<1>4. \A c \in Calls : E!Progressing(c)
  BY DEF E!Progressing, E!Committing
<1> QED
  BY <1>1, <1>2, <1>3, <1>4 DEF E!EvidenceInv

LEMMA EvidenceNext == ASSUME E!EvidenceInv, E!Next PROVE E!EvidenceInv'
<1>1. ASSUME NEW c \in Calls, E!Step(c) PROVE E!EvidenceInv'
  BY <1>1, ReadersKeepEvidence, StatusNewKeepsEvidence, CreateAndReceiveKeepEvidence,
     DiscardKeepsEvidence, RecordsKeepEvidence, PublishKeepsEvidence, UnlinkKeepsEvidence,
     ReplaceKeepsEvidence
  DEF E!Step
<1> QED
  BY <1>1, BeginKeepsEvidence, PrepareKeepsEvidence, DieKeepsEvidence, ElsewhereKeepsEvidence
  DEF E!Next

LEMMA EvidenceIsSafe ==
  ASSUME E!EvidenceInv PROVE E!PartBelongsToWriter /\ E!EvidenceKept
<1>1. E!PartBelongsToWriter
  BY DEF E!PartBelongsToWriter, E!EvidenceInv, E!Progressing, E!Part
<1>2. E!EvidenceKept
  <2> SUFFICES ASSUME NEW m \in Mutations
               PROVE  /\ v5[m].state = "committed" => v4[m] = v5[m].bytes
                      /\ v5[m].state = "pending" =>
                           v4[m] = v5[m].bytes \/ v3[v5[m].u].bytes = v5[m].bytes
                      /\ v5[m].state = "proposed" =>
                           v3[v5[m].u].whole /\ v3[v5[m].u].bytes = v5[m].bytes
    BY DEF E!EvidenceKept
  <2>1. E!Named(m)
    BY DEF E!EvidenceInv
  <2> QED
    BY <2>1 DEF E!Named, E!Staged
<1> QED
  BY <1>1, <1>2

-----------------------------------------------------------------------------
(* Release: v1 shape, v2 dirs, v3 lock, v4 late, v5 mine, v6 touched,      *)
(* v7 starts, v8 mishaps.                                                  *)

LEMMA ReleaseConstants == R!ReleaseAssumption
BY ServicesAssumption

(* A payload is that of one release at most.                               *)
LEMMA WholeIs ==
  /\ \A r, s : R!Whole(r) = R!Whole(s) => r = s
  /\ \A r \in Releases : R!Whole(r) \in Seq(Releases) /\ R!Whole(r) # <<>> /\ Head(R!Whole(r)) = r
                         /\ Len(R!Whole(r)) = 2
  /\ \A r \in R!Bytes : R!Whole(r) # None
<1>1. R!Chunks = 2
  BY DEF R!Chunks
<1>2. ASSUME NEW r, NEW s, R!Whole(r) = R!Whole(s) PROVE r = s
  <2>1. R!Whole(r)[1] = r /\ R!Whole(s)[1] = s
    BY <1>1 DEF R!Whole
  <2> QED
    BY <1>2, <2>1
<1>3. ASSUME NEW r \in R!Bytes PROVE R!Whole(r) \in Seq(R!Bytes) /\ Len(R!Whole(r)) = 2
  BY <1>1 DEF R!Whole
<1>4. ASSUME NEW r \in Releases
      PROVE  R!Whole(r) \in Seq(Releases) /\ R!Whole(r) # <<>> /\ Head(R!Whole(r)) = r /\ Len(R!Whole(r)) = 2
  BY <1>1 DEF R!Whole
<1>5. None \notin Seq(R!Bytes)
  BY ReleaseConstants DEF R!ReleaseAssumption, R!Bytes, R!Damaged
<1> QED
  BY <1>2, <1>3, <1>4, <1>5

LEMMA IdleTyped ==
  R!Idle \in R!Locals /\ R!Idle.at = "idle" /\ R!Idle.dir = None /\ R!Idle.steady /\ R!Idle.digest = <<>>
BY ReleaseConstants DEF R!ReleaseAssumption, R!Idle, R!Locals, R!Elsewhere, R!Known

(* A directory without a receipt is used by the one who installs into it.  *)
LEMMA NobodyElse ==
  ASSUME NEW q \in Calls, R!Located(q), v5[q].dir # None, R!Dir(q).verified = None
  PROVE  R!Holds(q)
BY DEF R!Located

(* What a process knows stays true while its directory stays.              *)
LEMMA StillThere ==
  ASSUME R!Typed, NEW q \in Calls, R!Located(q), R!Checked(q), v5'[q] = v5[q], v1' = v1,
         v3' = q <=> v3 = q, v6 \subseteq v6',
         v5[q].dir # None =>
           /\ R!Dir(q)'.payload = R!Dir(q).payload /\ R!Dir(q)'.package = R!Dir(q).package
           /\ R!Dir(q)'.metadata = R!Dir(q).metadata /\ R!Dir(q)'.attested = R!Dir(q).attested
           /\ R!Dir(q).verified # None => R!Dir(q)'.verified # None
           /\ R!Holds(q) => R!Dir(q)'.verified = R!Dir(q).verified /\ v5[q].dir \notin v4'
  PROVE  R!Located(q)' /\ R!Checked(q)'
<1>1. v5[q].dir = None => v5[q].at \in R!Elsewhere /\ ~R!Holds(q) /\ v5[q].steady
  BY ReleaseConstants DEF R!Located, R!Elsewhere, R!Installing, R!Loading, R!Typed, R!ReleaseAssumption
<1>2. R!Holds(q)' <=> R!Holds(q)
  BY DEF R!Holds
<1>3. R!Located(q)'
  BY <1>1, <1>2 DEF R!Located, R!At, R!Elsewhere, R!Installing, R!Loading
<1>4. R!Checked(q)'
  BY <1>1, <1>2 DEF R!Checked, R!Elsewhere
<1> QED
  BY <1>3, <1>4

(* After a step of p, what the others know.                                *)
LEMMA OthersStay ==
  ASSUME R!ReleaseInv, NEW p \in Calls, NEW v, v5' = [v5 EXCEPT ![p] = v],
         v1' = v1, v6' = v6,
         v3' = v3 \/ (v3 = p /\ v3' = None) \/ (v3 = None /\ v3' = p),
         \A e \in v4' : e \in v4 \/ (R!Holds(p) /\ e = v5[p].dir),
         \A e \in Items :
           \/ v2'[e] = v2[e]
           \/ v2[e].verified = None /\ (v3 = None \/ (R!Holds(p) /\ e = v5[p].dir))
           \/ /\ R!Holds(p) /\ e = v5[p].dir
              /\ v2'[e].payload = v2[e].payload /\ v2'[e].package = v2[e].package
              /\ v2'[e].metadata = v2[e].metadata /\ v2'[e].attested = v2[e].attested
              /\ v2'[e].verified # None
  PROVE  \A q \in Calls \ {p} : R!Located(q)' /\ R!Checked(q)'
<1> SUFFICES ASSUME NEW q \in Calls, q # p PROVE R!Located(q)' /\ R!Checked(q)'
  OBVIOUS
<1>1. R!Typed /\ R!Located(q) /\ R!Checked(q) /\ R!Located(p)
  BY DEF R!ReleaseInv
<1>2. v5'[q] = v5[q]
  BY <1>1 DEF R!Typed
<1>3. v3' = q <=> v3 = q
  BY ReleaseConstants DEF R!ReleaseAssumption
<1>4. v5[q].dir # None => v5[q].dir \in Items
  BY <1>1 DEF R!Typed, R!Locals
<1>5. R!Holds(q) => ~R!Holds(p) /\ v3 # None
  BY ReleaseConstants DEF R!ReleaseAssumption, R!Holds
<1>6. v5[q].dir # None =>
           /\ R!Dir(q)'.payload = R!Dir(q).payload /\ R!Dir(q)'.package = R!Dir(q).package
           /\ R!Dir(q)'.metadata = R!Dir(q).metadata /\ R!Dir(q)'.attested = R!Dir(q).attested
           /\ R!Dir(q).verified # None => R!Dir(q)'.verified # None
           /\ R!Holds(q) => R!Dir(q)'.verified = R!Dir(q).verified /\ v5[q].dir \notin v4'
  <2> SUFFICES ASSUME v5[q].dir # None
               PROVE /\ R!Dir(q)'.payload = R!Dir(q).payload /\ R!Dir(q)'.package = R!Dir(q).package
                     /\ R!Dir(q)'.metadata = R!Dir(q).metadata /\ R!Dir(q)'.attested = R!Dir(q).attested
                     /\ R!Dir(q).verified # None => R!Dir(q)'.verified # None
                     /\ R!Holds(q) => R!Dir(q)'.verified = R!Dir(q).verified /\ v5[q].dir \notin v4'
    OBVIOUS
  <2> DEFINE e == v5[q].dir
  <2>1. e \in Items /\ R!Dir(q) = v2[e] /\ R!Dir(q)' = v2'[e]
    BY <1>2, <1>4 DEF R!Dir
  <2>2. R!Holds(q) => e \notin v4'
    BY <1>1, <1>5 DEF R!Located
  <2>3. v2[e].verified = None => R!Holds(q)
    BY <1>1, <2>1, NobodyElse
  <2> HIDE DEF e
  <2> QED
    BY <1>5, <2>1, <2>2, <2>3 DEF e
<1> QED
  BY <1>1, <1>2, <1>3, <1>6, StillThere

LEMMA SettledStays ==
  ASSUME NEW e \in Items, R!Settled(e), v2'[e] = v2[e], UNCHANGED <<v1, v6>>, e \notin v4' \/ e \in v4
  PROVE  R!Settled(e)'
<1>1. R!Genuine(e) => R!Genuine(e)'
  BY DEF R!Genuine
<1> QED
  BY <1>1 DEF R!Settled

(* The directories stay.                                                   *)
LEMMA DirectoriesStay ==
  ASSUME R!ReleaseInv, UNCHANGED <<v1, v2, v6>>,
         \A e \in v4' : e \in v4 \/ (v2[e].payload # None /\ v2[e].verified = None)
  PROVE  \A d \in Items : R!Settled(d)'
BY DEF R!ReleaseInv, R!Settled, R!Genuine

(* A step of p in its directory.                                           *)
LEMMA StepKeepsRelease ==
  ASSUME R!ReleaseInv, NEW p \in Calls, NEW v \in R!Locals, v5' = [v5 EXCEPT ![p] = v],
         UNCHANGED <<v1, v2, v4, v6, v3>>, R!Located(p)', R!Checked(p)'
  PROVE  R!ReleaseInv'
<1>1. R!Typed'
  BY DEF R!ReleaseInv, R!Typed
<1>2. \A q \in Calls \ {p} : R!Located(q)' /\ R!Checked(q)'
  BY OthersStay
<1>3. \A d \in Items : R!Settled(d)'
  BY DirectoriesStay
<1> QED
  BY <1>1, <1>2, <1>3 DEF R!ReleaseInv

LEMMA ThrowKeepsRelease ==
  ASSUME R!ReleaseInv, NEW p \in Calls, R!Throw(p), UNCHANGED <<v1, v2, v6>>,
         \/ v4' = v4
         \/ R!Holds(p) /\ ~R!At(p, "marked") /\ v4' = v4 \cup {v5[p].dir}
  PROVE  R!ReleaseInv'
<1>1. R!Typed /\ R!Located(p)
  BY DEF R!ReleaseInv
<1>2. v5' = [v5 EXCEPT ![p] = R!Idle] /\ v5'[p] = R!Idle
  BY <1>1 DEF R!Throw, R!Typed
<1>3. v3' # p /\ (v3' = v3 \/ (v3 = p /\ v3' = None)) /\ v3' \in Calls \cup {None}
  BY <1>1, ReleaseConstants DEF R!ReleaseAssumption, R!Throw, R!Holds, R!Typed
<1>4. R!Located(p)' /\ R!Checked(p)'
  BY <1>2, <1>3, IdleTyped DEF R!Located, R!Checked, R!At, R!Holds, R!Elsewhere, R!Installing
<1>5. R!Holds(p) => v5[p].dir \in Items
  BY <1>1 DEF R!Located, R!Typed, R!Locals, R!Installing, R!Loading, R!Elsewhere
<1>6. \A e \in v4' : e \in v4 \/ (R!Holds(p) /\ e = v5[p].dir
                                     /\ v2[e].payload # None /\ v2[e].verified = None)
  BY <1>1 DEF R!Located, R!Dir
<1>7. R!Typed'
  BY <1>1, <1>2, <1>3, <1>5, IdleTyped DEF R!Typed
<1>8. \A q \in Calls \ {p} : R!Located(q)' /\ R!Checked(q)'
  BY <1>2, <1>3, <1>6, OthersStay
<1>9. \A d \in Items : R!Settled(d)'
  BY <1>6, DirectoriesStay
<1> QED
  BY <1>4, <1>7, <1>8, <1>9 DEF R!ReleaseInv

(* An archive that agrees with its manifest lists and holds each file once.*)
LEMMA AgreeingIsWhole == v1 \in R!Shapes /\ R!ArchiveAgrees => v1 = "whole"
<1> SUFFICES ASSUME v1 \in R!Shapes, R!ArchiveAgrees, v1 # "whole" PROVE FALSE
  OBVIOUS
<1>1. CASE v1 = "lacks a file"
  <2>1. R!Entries = <<"runtime-manifest.json">>
    BY <1>1 DEF R!Entries
  <2>2. "index.mjs" \notin R!Named
    BY <2>1 DEF R!Named
  <2> QED
    BY <2>2 DEF R!ArchiveAgrees, R!Listed
<1>2. CASE v1 = "unlisted file"
  <2>1. R!Entries = <<"runtime-manifest.json", "index.mjs", "notes.txt">>
    BY <1>2 DEF R!Entries
  <2>2. "notes.txt" \in R!Named
    BY <2>1 DEF R!Named
  <2> QED
    BY <2>2 DEF R!ArchiveAgrees, R!Listed
<1>3. CASE v1 = "no manifest"
  <2>1. R!Entries = <<"index.mjs">>
    BY <1>3 DEF R!Entries
  <2>2. "runtime-manifest.json" \notin R!Named
    BY <2>1 DEF R!Named
  <2> QED
    BY <2>2 DEF R!ArchiveAgrees, R!Listed
<1>4. CASE v1 = "entry twice"
  <2>1. R!Entries = <<"runtime-manifest.json", "index.mjs", "index.mjs">>
    BY <1>4 DEF R!Entries
  <2>2. 2 \in DOMAIN R!Entries /\ 3 \in DOMAIN R!Entries /\ R!Entries[2] = R!Entries[3]
    BY <2>1
  <2> QED
    BY <2>2 DEF R!ArchiveAgrees
<1> QED
  BY <1>1, <1>2, <1>3, <1>4 DEF R!Shapes

(* The stages of #load: what each has read, it read right.                 *)
LEMMA LoadingKeepsRelease ==
  ASSUME R!ReleaseInv, NEW p \in Calls, NEW from, NEW right, NEW v \in R!Locals,
         R!Stage(p, from, right, v), from \in R!Loading,
         right => v.at \in R!Loading \cup {"found", "mark"},
         right => (v.at = "mark" => R!Holds(p)) /\ (v.at = "found" => ~R!Holds(p)),
         v.dir = v5[p].dir, v.receipt = v5[p].receipt, v.steady = v5[p].steady,
         right => \A m \in {v.metadata} : v.steady =>
           /\ v.at # "load" => m = R!Dir(p).metadata
           /\ v.at = "provenance" => v.digest = R!Dir(p).payload /\ v.attested = R!Dir(p).attested
           /\ v.at \in {"archive", "inventory", "files", "found", "mark"} =>
                m \in Signed /\ R!Dir(p).payload = R!Whole(m)
           /\ v.at \in {"inventory", "files", "found", "mark"} => v1 = "whole"
           /\ v.at \in {"files", "found", "mark"} =>
                {f \in R!Files : R!Dir(p).package[f] # None} = R!Listed
           /\ v.at \in {"found", "mark"} => \A f \in R!Listed : R!Dir(p).package[f] = m
  PROVE  UNCHANGED <<v1, v2, v4, v6>> => R!ReleaseInv'
<1> SUFFICES ASSUME UNCHANGED <<v1, v2, v4, v6>> PROVE R!ReleaseInv'
  OBVIOUS
<1>1. R!Typed /\ R!Located(p) /\ R!Checked(p) /\ v5[p].at = from
  BY DEF R!ReleaseInv, R!Stage, R!At
<1>2. CASE right
  <2>1. v5' = [v5 EXCEPT ![p] = v] /\ v5'[p] = v /\ v3' = v3
    BY <1>1, <1>2 DEF R!Stage, R!Become, R!Typed
  <2>2. R!Holds(p)' <=> R!Holds(p)
    BY <2>1 DEF R!Holds
  <2>3. R!Dir(p)' = R!Dir(p)
    BY <2>1 DEF R!Dir
  <2>4. R!Located(p)'
    BY <1>1, <1>2, <2>1, <2>2, <2>3 DEF R!Located, R!At, R!Elsewhere, R!Installing, R!Loading
  <2>5. R!Checked(p)'
    BY <1>1, <1>2, <2>1, <2>2, <2>3 DEF R!Checked, R!Loading
  <2> QED
    BY <2>1, <2>4, <2>5, StepKeepsRelease
<1>3. CASE ~right
  BY <1>3, ThrowKeepsRelease DEF R!Stage
<1> QED
  BY <1>2, <1>3

LEMMA LoadsKeepRelease ==
  ASSUME R!ReleaseInv, NEW p \in Calls,
         \/ R!LoadMetadata(p) \/ R!LoadDigest(p) \/ R!LoadProvenance(p)
         \/ R!LoadArchive(p) \/ R!LoadInventory(p) \/ R!LoadFiles(p)
  PROVE  R!ReleaseInv'
<1>1. R!Typed /\ R!Located(p) /\ R!Checked(p) /\ v5[p] \in R!Locals /\ v5[p].at \in R!Loading
  BY DEF R!ReleaseInv, R!Typed, R!LoadMetadata, R!LoadDigest, R!LoadProvenance, R!LoadArchive, R!LoadInventory,
         R!LoadFiles, R!Stage, R!At, R!Loading
<1>2. v5[p].dir \in Items /\ R!Dir(p) \in R!Directory
  BY <1>1 DEF R!Located, R!Typed, R!Locals, R!Dir, R!Elsewhere, R!Loading
<1>3. R!Dir(p).payload \in Seq(R!Bytes)
  <2>1. R!Dir(p).payload # None
    <3>1. R!Dir(p).payload = None => R!Dir(p).verified = None
      BY <1>2 DEF R!ReleaseInv, R!Settled, R!Dir
    <3>2. R!Holds(p) => R!Dir(p).payload # None
      BY <1>1 DEF R!Located
    <3>3. ~R!Holds(p) => R!Dir(p).verified # None
      BY <1>1 DEF R!Located, R!Elsewhere, R!Loading
    <3> QED
      BY <3>1, <3>2, <3>3
  <2>2. R!Dir(p).payload \in Seq(R!Bytes) \cup {None}
    BY <1>2 DEF R!Directory
  <2> QED
    BY <2>1, <2>2
<1>4. CASE R!LoadMetadata(p)
  <2> DEFINE v == [v5[p] EXCEPT !.at = "digest", !.metadata = R!Dir(p).metadata]
  <2>1. v \in R!Locals
    BY <1>1, <1>2 DEF R!Locals, R!Directory, R!Loading
  <2>2. /\ v.at = "digest" /\ v.dir = v5[p].dir /\ v.receipt = v5[p].receipt
        /\ v.steady = v5[p].steady /\ v.metadata = R!Dir(p).metadata
    BY <1>1 DEF R!Locals
  <2>3. R!Stage(p, "load", TRUE, v) /\ UNCHANGED <<v1, v2, v4, v6>>
    BY <1>4 DEF R!LoadMetadata, R!Stage
  <2> HIDE DEF v
  <2> QED
    BY <2>1, <2>2, <2>3, LoadingKeepsRelease DEF R!Loading
<1>5. CASE R!LoadDigest(p)
  <2> DEFINE v == [v5[p] EXCEPT !.at = "provenance", !.digest = R!Dir(p).payload,
                                  !.attested = R!Dir(p).attested]
  <2>1. v \in R!Locals
    BY <1>1, <1>2, <1>3 DEF R!Locals, R!Directory, R!Loading
  <2>2. /\ v.at = "provenance" /\ v.dir = v5[p].dir /\ v.receipt = v5[p].receipt
        /\ v.steady = v5[p].steady /\ v.metadata = v5[p].metadata
        /\ v.digest = R!Dir(p).payload /\ v.attested = R!Dir(p).attested
    BY <1>1 DEF R!Locals
  <2>3. R!Stage(p, "digest", TRUE, v) /\ UNCHANGED <<v1, v2, v4, v6>>
    BY <1>5 DEF R!LoadDigest, R!Stage
  <2>4. v.steady => v.metadata = R!Dir(p).metadata
    BY <1>1, <2>2, <2>3 DEF R!Checked, R!Stage, R!At
  <2> HIDE DEF v
  <2> QED
    BY <2>1, <2>2, <2>3, <2>4, LoadingKeepsRelease DEF R!Loading
<1>6. CASE R!LoadProvenance(p)
  <2> DEFINE v == [v5[p] EXCEPT !.at = "archive", !.digest = <<>>]
             saved == IF R!Holds(p) THEN v5[p].receipt ELSE R!Dir(p).verified
             right == /\ R!Verifies(v5[p].metadata, v5[p].digest, v5[p].attested)
                      /\ saved = v5[p].metadata
  <2>1. v \in R!Locals
    <3>1. <<>> \in Seq(R!Bytes)
      BY EmptySeq
    <3> QED
      BY <1>1, <3>1 DEF R!Locals, R!Loading
  <2>2. /\ v.at = "archive" /\ v.dir = v5[p].dir /\ v.receipt = v5[p].receipt
        /\ v.steady = v5[p].steady /\ v.metadata = v5[p].metadata
    BY <1>1 DEF R!Locals
  <2>3. R!Stage(p, "provenance", right, v) /\ UNCHANGED <<v1, v2, v4, v6>>
    BY <1>6 DEF R!LoadProvenance, R!Stage
  <2>4. v.steady => /\ v.metadata = R!Dir(p).metadata
                    /\ v5[p].digest = R!Dir(p).payload /\ v5[p].attested = R!Dir(p).attested
    BY <1>1, <2>2, <2>3 DEF R!Checked, R!Stage, R!At
  <2>5. right => /\ v5[p].digest = R!Whole(v5[p].metadata)
                 /\ v5[p].attested \in Signed /\ v5[p].attested = v5[p].metadata
    BY WholeIs DEF R!Verifies
  <2> HIDE DEF v, right
  <2> QED
    BY <2>1, <2>2, <2>3, <2>4, <2>5, LoadingKeepsRelease DEF R!Loading
<1>7. CASE R!LoadArchive(p)
  <2> DEFINE v == [v5[p] EXCEPT !.at = "inventory"]
             right == R!Unpacks(R!Dir(p).payload) /\ R!ArchiveAgrees
  <2>1. v \in R!Locals
    BY <1>1 DEF R!Locals, R!Loading
  <2>2. /\ v.at = "inventory" /\ v.dir = v5[p].dir /\ v.receipt = v5[p].receipt
        /\ v.steady = v5[p].steady /\ v.metadata = v5[p].metadata
    BY <1>1 DEF R!Locals
  <2>3. R!Stage(p, "archive", right, v) /\ UNCHANGED <<v1, v2, v4, v6>>
    BY <1>7 DEF R!LoadArchive, R!Stage
  <2>4. v.steady => /\ v.metadata = R!Dir(p).metadata
                    /\ v.metadata \in Signed /\ R!Dir(p).payload = R!Whole(v.metadata)
    BY <1>1, <2>2, <2>3 DEF R!Checked, R!Stage, R!At
  <2>5. right => v1 = "whole"
    BY <1>1, AgreeingIsWhole DEF R!Typed
  <2> HIDE DEF v, right
  <2> QED
    BY <2>1, <2>2, <2>3, <2>4, <2>5, LoadingKeepsRelease DEF R!Loading
<1>8. CASE R!LoadInventory(p)
  <2> DEFINE v == [v5[p] EXCEPT !.at = "files"]
             right == {f \in R!Files : R!Dir(p).package[f] # None} = R!Listed
  <2>1. v \in R!Locals
    BY <1>1 DEF R!Locals, R!Loading
  <2>2. /\ v.at = "files" /\ v.dir = v5[p].dir /\ v.receipt = v5[p].receipt
        /\ v.steady = v5[p].steady /\ v.metadata = v5[p].metadata
    BY <1>1 DEF R!Locals
  <2>3. R!Stage(p, "inventory", right, v) /\ UNCHANGED <<v1, v2, v4, v6>>
    BY <1>8 DEF R!LoadInventory, R!Stage
  <2>4. v.steady => /\ v.metadata = R!Dir(p).metadata /\ v1 = "whole"
                    /\ v.metadata \in Signed /\ R!Dir(p).payload = R!Whole(v.metadata)
    BY <1>1, <2>2, <2>3 DEF R!Checked, R!Stage, R!At
  <2> HIDE DEF v
  <2> QED
    BY <2>1, <2>2, <2>3, <2>4, LoadingKeepsRelease DEF R!Loading
<1>9. CASE R!LoadFiles(p)
  <2> DEFINE v == [v5[p] EXCEPT !.at = IF R!Holds(p) THEN "mark" ELSE "found"]
             right == \A f \in R!Listed : R!Dir(p).package[f] = v5[p].metadata
  <2>1. v \in R!Locals
    BY <1>1 DEF R!Locals, R!Installing
  <2>2. /\ v.at = (IF R!Holds(p) THEN "mark" ELSE "found")
        /\ v.dir = v5[p].dir /\ v.receipt = v5[p].receipt
        /\ v.steady = v5[p].steady /\ v.metadata = v5[p].metadata
    BY <1>1 DEF R!Locals
  <2>3. R!Stage(p, "files", right, v) /\ UNCHANGED <<v1, v2, v4, v6>>
    BY <1>9 DEF R!LoadFiles, R!Stage
  <2>4. v.steady => /\ v.metadata = R!Dir(p).metadata /\ v1 = "whole"
                    /\ v.metadata \in Signed /\ R!Dir(p).payload = R!Whole(v.metadata)
                    /\ {f \in R!Files : R!Dir(p).package[f] # None} = R!Listed
    BY <1>1, <2>2, <2>3 DEF R!Checked, R!Stage, R!At
  <2> HIDE DEF v
  <2> QED
    BY <2>1, <2>2, <2>3, <2>4, LoadingKeepsRelease DEF R!Loading
<1> QED
  BY <1>4, <1>5, <1>6, <1>7, <1>8, <1>9

(* A process that is in no directory.                                      *)
LEMMA OutsideKeepsRelease ==
  ASSUME R!ReleaseInv, NEW p \in Calls, NEW v \in R!Locals, v5' = [v5 EXCEPT ![p] = v],
         UNCHANGED <<v1, v2, v4, v6, v3>>, ~R!Holds(p),
         v.at \in R!Elsewhere, v.dir = None, v.digest = <<>>, v.steady
  PROVE  R!ReleaseInv'
<1>1. v5'[p] = v /\ ~R!Holds(p)'
  BY DEF R!ReleaseInv, R!Typed, R!Holds
<1>2. R!Located(p)'
  BY <1>1 DEF R!Located, R!Elsewhere, R!Installing
<1>3. R!Checked(p)'
  BY <1>1 DEF R!Checked, R!Elsewhere
<1> QED
  BY <1>2, <1>3, StepKeepsRelease

LEMMA OutsideIs ==
  ASSUME R!ReleaseInv, NEW p \in Calls, v5[p].at \in R!Elsewhere \cup {"found"}
  PROVE  /\ ~R!Holds(p)
         /\ v5[p].at \in R!Elsewhere => v5[p].dir = None /\ v5[p].digest = <<>> /\ v5[p].steady
BY ReleaseConstants DEF R!ReleaseAssumption, R!ReleaseInv, R!Located, R!Typed, R!Elsewhere, R!Installing, R!Loading

LEMMA ListsKeepRelease ==
  ASSUME R!ReleaseInv, NEW p \in Calls, R!Fetch(p) \/ R!List(p) \/ R!Visit(p) \/ R!Found(p)
  PROVE  R!ReleaseInv'
<1>1. /\ ~R!Holds(p) /\ v5[p] \in R!Locals /\ UNCHANGED <<v1, v2, v4, v6>>
      /\ v5[p].at \in R!Elsewhere => v5[p].dir = None /\ v5[p].digest = <<>> /\ v5[p].steady
  BY OutsideIs DEF R!Fetch, R!List, R!Visit, R!Found, R!Start, R!At, R!Elsewhere, R!ReleaseInv, R!Typed
<1>2. CASE R!Fetch(p)
  <2>1. PICK r \in Releases, a \in Releases :
          R!Become(p, [R!Idle EXCEPT !.at = "locking", !.metadata = r, !.attested = a])
    BY <1>2 DEF R!Fetch
  <2> DEFINE v == [R!Idle EXCEPT !.at = "locking", !.metadata = r, !.attested = a]
  <2>2. v \in R!Locals /\ v.at = "locking" /\ v.dir = None /\ v.digest = <<>> /\ v.steady
    BY IdleTyped DEF R!Locals, R!Elsewhere, R!Known
  <2>3. v5' = [v5 EXCEPT ![p] = v] /\ v3' = v3
    BY <1>2, <2>1 DEF R!Become, R!Fetch
  <2> HIDE DEF v
  <2> QED
    BY <1>1, <2>2, <2>3, OutsideKeepsRelease DEF R!Elsewhere
<1>3. CASE R!List(p)
  <2> DEFINE v == [R!Idle EXCEPT !.at = "listing", !.todo = {d \in Items : v2[d].payload # None}]
  <2>1. v \in R!Locals /\ v.at = "listing" /\ v.dir = None /\ v.digest = <<>> /\ v.steady
    BY IdleTyped DEF R!Locals, R!Elsewhere
  <2>2. v5' = [v5 EXCEPT ![p] = v] /\ v3' = v3
    BY <1>3 DEF R!Become, R!List
  <2> HIDE DEF v
  <2> QED
    BY <1>1, <2>1, <2>2, OutsideKeepsRelease DEF R!Elsewhere
<1>4. CASE R!Found(p)
  <2> DEFINE v == [R!Idle EXCEPT !.at = "listing", !.todo = v5[p].todo]
  <2>1. v \in R!Locals /\ v.at = "listing" /\ v.dir = None /\ v.digest = <<>> /\ v.steady
    BY <1>1, IdleTyped DEF R!Locals, R!Elsewhere
  <2>2. v5' = [v5 EXCEPT ![p] = v] /\ v3' = v3
    BY <1>4 DEF R!Become, R!Found
  <2> HIDE DEF v
  <2> QED
    BY <1>1, <2>1, <2>2, OutsideKeepsRelease DEF R!Elsewhere
<1>5. CASE R!Visit(p)
  <2>1. v5[p].at = "listing" /\ v5[p].dir = None /\ v5[p].digest = <<>> /\ v5[p].steady
    BY <1>1, <1>5 DEF R!Visit, R!At, R!Elsewhere
  <2>2. CASE R!Throw(p)
    BY <1>1, <1>5, <2>2, ThrowKeepsRelease DEF R!Visit
  <2>3. CASE ~R!Throw(p)
    <3>1. PICK d \in v5[p].todo :
            /\ IF v2[d].verified = None
                 THEN R!Become(p, [v5[p] EXCEPT !.todo = @ \ {d}])
                 ELSE R!Become(p, [v5[p] EXCEPT !.at = "load", !.todo = @ \ {d}, !.dir = d,
                                                !.steady = TRUE])
            /\ v3' = v3
      BY <1>5, <2>3 DEF R!Visit
    <3>2. d \in Items
      BY <1>1 DEF R!Locals
    <3>3. CASE v2[d].verified = None
      <4> DEFINE v == [v5[p] EXCEPT !.todo = @ \ {d}]
      <4>1. v \in R!Locals /\ v.at = "listing" /\ v.dir = None /\ v.digest = <<>> /\ v.steady
        BY <1>1, <2>1 DEF R!Locals
      <4>2. v5' = [v5 EXCEPT ![p] = v]
        BY <3>1, <3>3 DEF R!Become
      <4> HIDE DEF v
      <4> QED
        BY <1>1, <3>1, <4>1, <4>2, OutsideKeepsRelease DEF R!Elsewhere
    <3>4. CASE v2[d].verified # None
      <4> DEFINE v == [v5[p] EXCEPT !.at = "load", !.todo = @ \ {d}, !.dir = d, !.steady = TRUE]
      <4>1. v \in R!Locals /\ v.at = "load" /\ v.dir = d /\ v.steady
        BY <1>1, <3>2 DEF R!Locals, R!Loading
      <4>2. v5' = [v5 EXCEPT ![p] = v]
        BY <3>1, <3>4 DEF R!Become
      <4> HIDE DEF v
      <4>3. v5'[p] = v /\ ~R!Holds(p)' /\ R!Dir(p)' = v2[d]
        BY <1>1, <3>1, <4>1, <4>2 DEF R!ReleaseInv, R!Typed, R!Holds, R!Dir
      <4>4. R!Located(p)' /\ R!Checked(p)'
        BY <3>2, <3>4, <4>1, <4>3, ReleaseConstants
           DEF R!ReleaseAssumption, R!Located, R!Checked, R!Elsewhere, R!Installing
      <4> QED
        BY <1>1, <3>1, <4>1, <4>2, <4>4, StepKeepsRelease
    <3> QED
      BY <3>3, <3>4
  <2> QED
    BY <2>2, <2>3
<1> QED
  BY <1>2, <1>3, <1>4, <1>5

(* An installation: nobody else is in its directory.                       *)
LEMMA EnterKeepsRelease ==
  ASSUME R!ReleaseInv, NEW p \in Calls, R!Enter(p)
  PROVE  R!ReleaseInv'
<1>1. /\ ~R!Holds(p) /\ v5[p] \in R!Locals /\ UNCHANGED <<v1, v4, v6>> /\ v3 = None
      /\ v5[p].dir = None /\ v5[p].digest = <<>> /\ v5[p].steady /\ v3' = p
  BY OutsideIs DEF R!Enter, R!At, R!Elsewhere, R!ReleaseInv, R!Typed
<1>2. PICK d \in Items : /\ v2[d].payload = None
                         /\ v2' = [v2 EXCEPT ![d].payload = <<>>]
                         /\ R!Become(p, [v5[p] EXCEPT !.at = "request", !.dir = d])
  BY DEF R!Enter
<1> DEFINE v == [v5[p] EXCEPT !.at = "request", !.dir = d]
           w == [v2[d] EXCEPT !.payload = <<>>]
<1>3. /\ v \in R!Locals /\ v.at = "request" /\ v.dir = d /\ v.digest = <<>> /\ v.steady
      /\ v5' = [v5 EXCEPT ![p] = v]
  BY <1>1, <1>2 DEF R!Locals, R!Installing, R!Become
<1>4. v2[d] \in R!Directory /\ v2[d].verified = None /\ d \notin v4
  BY <1>2 DEF R!ReleaseInv, R!Typed, R!Settled
<1>5. <<>> \in Seq(R!Bytes) /\ <<>> # None
  BY ReleaseConstants, EmptySeq DEF R!ReleaseAssumption, R!Bytes, R!Damaged
<1>6. w \in R!Directory /\ w.payload = <<>> /\ w.verified = None
  BY <1>4, <1>5 DEF R!Directory
<1>7. v2' = [v2 EXCEPT ![d] = w]
  BY <1>2
<1> HIDE DEF v, w
<1>8. v5'[p] = v /\ R!Holds(p)' /\ v2'[d] = w /\ \A e \in Items : e # d => v2'[e] = v2[e]
  BY <1>1, <1>3, <1>7 DEF R!ReleaseInv, R!Typed, R!Holds
<1>9. R!Typed'
  BY <1>1, <1>3, <1>6, <1>7 DEF R!ReleaseInv, R!Typed
<1>10. R!Dir(p)' = w
  BY <1>3, <1>8 DEF R!Dir
<1>11. Len(v.digest) = 0 /\ Len(w.payload) = 0 /\ R!Chunks = 2
  BY <1>3, <1>6 DEF R!Chunks
<1>12. R!Located(p)'
  BY <1>1, <1>3, <1>4, <1>5, <1>6, <1>8, <1>10, <1>11, ReleaseConstants
     DEF R!Located, R!At, R!Elsewhere, R!Installing, R!ReleaseAssumption
<1>13. R!Checked(p)'
  BY <1>3, <1>8 DEF R!Checked
<1>14. \A q \in Calls \ {p} : R!Located(q)' /\ R!Checked(q)'
  BY <1>1, <1>3, <1>4, <1>8, OthersStay
<1>15. \A e \in Items : R!Settled(e)'
  <2> SUFFICES ASSUME NEW e \in Items PROVE R!Settled(e)'
    OBVIOUS
  <2>1. CASE e = d
    BY <1>1, <1>4, <1>5, <1>6, <1>8, <1>11, <2>1, ReleaseConstants DEF R!Settled, R!ReleaseAssumption
  <2>2. CASE e # d
    BY <1>1, <1>8, <2>2, SettledStays DEF R!ReleaseInv
  <2> QED
    BY <2>1, <2>2
<1> QED
  BY <1>9, <1>12, <1>13, <1>14, <1>15 DEF R!ReleaseInv

(* What the holder of the lock does before it marks the directory.         *)
LEMMA WriteKeepsRelease ==
  ASSUME R!ReleaseInv, NEW p \in Calls, R!Holds(p), ~R!At(p, "marked"),
         NEW v \in R!Locals, v5' = [v5 EXCEPT ![p] = v],
         NEW w \in R!Directory, v2' = [v2 EXCEPT ![v5[p].dir] = w],
         UNCHANGED <<v1, v4, v6, v3>>,
         w.payload # None, Len(w.payload) <= R!Chunks + 1, w.verified = None,
         v.at \in {"body", "extract"}, v.dir = v5[p].dir, v.steady = v5[p].steady,
         v.at = "body" => Len(v.digest) <= R!Chunks /\ Len(w.payload) <= Len(v.digest) + 1,
         v.at = "extract" => v.receipt \in Releases /\ v.receipt = w.metadata
  PROVE  R!ReleaseInv'
<1> DEFINE d == v5[p].dir
<1>1. R!Typed /\ R!Located(p) /\ d \in Items /\ d \notin v4 /\ v2[d].verified = None
  BY DEF R!ReleaseInv, R!Located, R!Typed, R!Locals, R!Dir, R!Installing, R!Loading, R!Elsewhere
<1>2. /\ v5'[p] = v /\ v2'[d] = w /\ \A e \in Items : e # d => v2'[e] = v2[e]
  BY <1>1 DEF R!Typed
<1>3. R!Dir(p)' = w /\ R!Holds(p)'
  BY <1>2 DEF R!Dir, R!Holds
<1>4. R!Typed'
  BY <1>1 DEF R!Typed
<1>5. R!Located(p)'
  BY <1>1, <1>2, <1>3, ReleaseConstants
     DEF R!Located, R!At, R!Elsewhere, R!Installing, R!ReleaseAssumption
<1>6. R!Checked(p)'
  BY <1>2, <1>3 DEF R!Checked
<1>7. \A q \in Calls \ {p} : R!Located(q)' /\ R!Checked(q)'
  BY <1>1, <1>2, OthersStay
<1>8. \A e \in Items : R!Settled(e)'
  <2> SUFFICES ASSUME NEW e \in Items PROVE R!Settled(e)'
    OBVIOUS
  <2>1. CASE e = d
    BY <1>1, <1>2, <2>1, ReleaseConstants DEF R!Settled, R!ReleaseAssumption
  <2>2. CASE e # d
    BY <1>2, <2>2, SettledStays DEF R!ReleaseInv
  <2> QED
    BY <2>1, <2>2
<1> QED
  BY <1>4, <1>5, <1>6, <1>7, <1>8 DEF R!ReleaseInv

LEMMA InstallerIs ==
  ASSUME R!ReleaseInv, NEW p \in Calls, v5[p].at \in R!Installing \cup {"extract"}
  PROVE  /\ R!Holds(p) /\ v5[p] \in R!Locals /\ v5[p].dir \in Items /\ v5[p].dir \notin v4
         /\ R!Dir(p) \in R!Directory /\ R!Dir(p).payload \in Seq(R!Bytes) /\ R!Dir(p).payload # None
         /\ R!Dir(p).verified = IF R!At(p, "marked") THEN R!Torn ELSE None
         /\ R!Dir(p) = v2[v5[p].dir]
<1>1. R!Typed /\ R!Located(p) /\ R!Holds(p) /\ v5[p] \in R!Locals
  BY DEF R!ReleaseInv, R!Located, R!Installing, R!Typed
<1>2. v5[p].dir \in Items
  BY <1>1 DEF R!Located, R!Locals, R!Elsewhere, R!Installing
<1>3. R!Dir(p) \in R!Directory /\ R!Dir(p).payload # None
  BY <1>1, <1>2 DEF R!Located, R!Typed, R!Dir
<1>4. R!Dir(p).payload \in Seq(R!Bytes)
  BY <1>3 DEF R!Directory
<1> QED
  BY <1>1, <1>2, <1>3, <1>4 DEF R!Located, R!Dir

LEMMA RequestKeepsRelease ==
  ASSUME R!ReleaseInv, NEW p \in Calls, R!Redirect(p) \/ R!Accepted(p) \/ R!Abort(p)
  PROVE  R!ReleaseInv'
<1>1. /\ v5[p].at \in {"request", "body"} /\ R!Holds(p) /\ v5[p] \in R!Locals
      /\ v5[p].dir \in Items /\ UNCHANGED <<v1, v2, v6>> /\ R!Located(p) /\ R!Checked(p)
  BY InstallerIs DEF R!Redirect, R!Accepted, R!Abort, R!At, R!Installing, R!ReleaseInv
<1>2. CASE R!Throw(p)
  BY <1>1, <1>2, ThrowKeepsRelease DEF R!Redirect, R!Accepted, R!Abort, R!At
<1>3. CASE ~R!Throw(p)
  <2>1. /\ UNCHANGED <<v3, v4>>
        /\ \/ /\ v5[p].hops < MaxRedirects
              /\ R!Become(p, [v5[p] EXCEPT !.hops = @ + 1])
           \/ R!Become(p, [v5[p] EXCEPT !.at = "body"])
    BY <1>3 DEF R!Redirect, R!Accepted, R!Abort
  <2>2. ASSUME NEW v \in R!Locals, R!Become(p, v), v.at \in {"request", "body"},
               v.dir = v5[p].dir, v.digest = v5[p].digest, v.steady = v5[p].steady
        PROVE  R!ReleaseInv'
    <3>1. v5' = [v5 EXCEPT ![p] = v] /\ v5'[p] = v /\ R!Holds(p)' /\ R!Dir(p)' = R!Dir(p)
      BY <1>1, <2>1, <2>2 DEF R!Become, R!ReleaseInv, R!Typed, R!Holds, R!Dir
    <3>2. R!Located(p)'
      BY <1>1, <2>1, <2>2, <3>1 DEF R!Located, R!At, R!Elsewhere, R!Installing
    <3>3. R!Checked(p)'
      BY <2>2, <3>1 DEF R!Checked
    <3> QED
      BY <1>1, <2>1, <3>1, <3>2, <3>3, StepKeepsRelease
  <2>3. CASE v5[p].hops < MaxRedirects /\ R!Become(p, [v5[p] EXCEPT !.hops = @ + 1])
    <3> DEFINE v == [v5[p] EXCEPT !.hops = @ + 1]
    <3>1. v5[p].hops + 1 \in 0 .. MaxRedirects
      BY <1>1, <2>3, ReleaseConstants DEF R!Locals, R!ReleaseAssumption
    <3>2. /\ v \in R!Locals /\ v.at = v5[p].at /\ v.dir = v5[p].dir
          /\ v.digest = v5[p].digest /\ v.steady = v5[p].steady
      BY <1>1, <3>1 DEF R!Locals
    <3> HIDE DEF v
    <3>3. R!Become(p, v)
      BY <2>3 DEF v
    <3> QED
      BY <1>1, <2>2, <3>2, <3>3
  <2>4. CASE R!Become(p, [v5[p] EXCEPT !.at = "body"])
    <3> DEFINE v == [v5[p] EXCEPT !.at = "body"]
    <3>1. /\ v \in R!Locals /\ v.at = "body" /\ v.dir = v5[p].dir
          /\ v.digest = v5[p].digest /\ v.steady = v5[p].steady
      BY <1>1 DEF R!Locals, R!Installing
    <3> HIDE DEF v
    <3>2. R!Become(p, v)
      BY <2>4 DEF v
    <3> QED
      BY <2>2, <3>1, <3>2
  <2> QED
    BY <2>1, <2>3, <2>4
<1> QED
  BY <1>2, <1>3

LEMMA ChunkKeepsRelease ==
  ASSUME R!ReleaseInv, NEW p \in Calls, R!Chunk(p)
  PROVE  R!ReleaseInv'
<1>1. /\ v5[p].at = "body" /\ R!Holds(p) /\ v5[p] \in R!Locals /\ v5[p].dir \in Items
      /\ R!Dir(p) \in R!Directory /\ R!Dir(p).payload \in Seq(R!Bytes) /\ R!Dir(p).verified = None
      /\ R!Dir(p) = v2[v5[p].dir] /\ UNCHANGED <<v1, v4, v6>>
  BY InstallerIs DEF R!Chunk, R!At, R!Installing
<1>2. v5[p].digest \in Seq(R!Bytes) /\ Len(R!Dir(p).payload) <= Len(v5[p].digest) + 1
  BY <1>1 DEF R!ReleaseInv, R!Located, R!Locals
<1>3. CASE R!Throw(p) /\ UNCHANGED v2
  BY <1>1, <1>3, ThrowKeepsRelease
<1>4. CASE ~(R!Throw(p) /\ UNCHANGED v2)
  <2>1. Len(v5[p].digest) < R!Chunks
    BY <1>4 DEF R!Chunk
  <2>2. PICK r \in Releases :
          /\ R!Become(p, [v5[p] EXCEPT !.digest = Append(@, r)])
          /\ v2' = [v2 EXCEPT ![v5[p].dir].payload = Append(@, r)]
          /\ v3' = v3
    BY <1>4 DEF R!Chunk
  <2>3. r \in R!Bytes
    BY DEF R!Bytes
  <2> DEFINE digest == Append(v5[p].digest, r)
             payload == Append(R!Dir(p).payload, r)
             v == [v5[p] EXCEPT !.digest = digest]
             w == [R!Dir(p) EXCEPT !.payload = payload]
  <2>4. digest \in Seq(R!Bytes) /\ Len(digest) = Len(v5[p].digest) + 1 /\ Len(v5[p].digest) \in Nat
    BY <1>2, <2>3
  <2>5. payload \in Seq(R!Bytes) /\ Len(payload) = Len(R!Dir(p).payload) + 1 /\ Len(R!Dir(p).payload) \in Nat
    BY <1>1, <2>3
  <2>6. R!Become(p, v) /\ v2' = [v2 EXCEPT ![v5[p].dir] = w]
    BY <1>1, <2>2
  <2> HIDE DEF digest, payload
  <2>7. /\ v \in R!Locals /\ v.at = "body" /\ v.dir = v5[p].dir /\ v.digest = digest
        /\ v.steady = v5[p].steady
    BY <1>1, <2>4 DEF R!Locals
  <2>8. w \in R!Directory /\ w.payload = payload /\ w.verified = None
    BY <1>1, <2>5 DEF R!Directory
  <2>9. payload # None
    BY <2>5, ReleaseConstants DEF R!ReleaseAssumption, R!Bytes, R!Damaged
  <2> HIDE DEF v, w
  <2>10. R!Chunks = 2 /\ Len(digest) <= R!Chunks /\ Len(payload) <= Len(digest) + 1 /\ Len(payload) <= R!Chunks + 1
    BY <1>2, <2>1, <2>4, <2>5 DEF R!Chunks
  <2> QED
    BY <1>1, <2>2, <2>6, <2>7, <2>8, <2>9, <2>10, WriteKeepsRelease DEF R!Become, R!At
<1> QED
  BY <1>3, <1>4

LEMMA ReceivedKeepsRelease ==
  ASSUME R!ReleaseInv, NEW p \in Calls, R!Received(p)
  PROVE  R!ReleaseInv'
<1>1. /\ v5[p].at = "body" /\ R!Holds(p) /\ v5[p] \in R!Locals /\ v5[p].dir \in Items
      /\ R!Dir(p) \in R!Directory /\ R!Dir(p).payload # None /\ R!Dir(p).verified = None
      /\ R!Dir(p) = v2[v5[p].dir] /\ UNCHANGED <<v1, v4, v6>>
  BY InstallerIs DEF R!Received, R!At, R!Installing
<1>2. CASE R!Throw(p) /\ UNCHANGED v2
  BY <1>1, <1>2, ThrowKeepsRelease
<1>3. CASE ~(R!Throw(p) /\ UNCHANGED v2)
  <2>1. /\ R!Verifies(v5[p].metadata, v5[p].digest, v5[p].attested)
        /\ R!Become(p, [v5[p] EXCEPT !.at = "extract", !.receipt = v5[p].metadata, !.digest = <<>>])
        /\ v2' = [v2 EXCEPT ![v5[p].dir].metadata = v5[p].metadata,
                                ![v5[p].dir].attested = v5[p].attested]
        /\ v3' = v3
    BY <1>3 DEF R!Received
  <2>2. v5[p].metadata \in Releases
    BY <2>1, WholeIs, ReleaseConstants DEF R!Verifies, R!ReleaseAssumption
  <2> DEFINE v == [v5[p] EXCEPT !.at = "extract", !.receipt = v5[p].metadata, !.digest = <<>>]
             w == [R!Dir(p) EXCEPT !.metadata = v5[p].metadata, !.attested = v5[p].attested]
  <2>3. <<>> \in Seq(R!Bytes)
    BY EmptySeq
  <2>4. /\ v \in R!Locals /\ v.at = "extract" /\ v.dir = v5[p].dir /\ v.receipt = v5[p].metadata
        /\ v.steady = v5[p].steady
    BY <1>1, <2>3 DEF R!Locals, R!Installing
  <2>5. /\ w \in R!Directory /\ w.payload = R!Dir(p).payload /\ w.verified = None
        /\ w.metadata = v5[p].metadata
    BY <1>1 DEF R!Directory, R!Locals
  <2>6. v2' = [v2 EXCEPT ![v5[p].dir] = w]
    BY <1>1, <2>1 DEF R!ReleaseInv, R!Typed, R!Directory
  <2>7. Len(w.payload) <= R!Chunks + 1
    BY <1>1, <2>5 DEF R!ReleaseInv, R!Settled
  <2>8. v5' = [v5 EXCEPT ![p] = v]
    BY <2>1 DEF R!Become
  <2>9. ~R!At(p, "marked") /\ UNCHANGED <<v1, v4, v6, v3>>
    BY <1>1, <2>1 DEF R!At
  <2>10. /\ w.payload # None /\ w.verified = None /\ v.at \in {"body", "extract"}
         /\ v.at # "body" /\ v.receipt \in Releases /\ v.receipt = w.metadata
    BY <1>1, <2>2, <2>4, <2>5
  <2> HIDE DEF v, w
  <2> QED
    BY <1>1, <2>4, <2>5, <2>6, <2>7, <2>8, <2>9, <2>10, WriteKeepsRelease
<1> QED
  BY <1>2, <1>3

LEMMA ExtractKeepsRelease ==
  ASSUME R!ReleaseInv, NEW p \in Calls, R!Extract(p)
  PROVE  R!ReleaseInv'
<1>1. /\ v5[p].at = "extract" /\ R!Holds(p) /\ v5[p] \in R!Locals /\ v5[p].dir \in Items
      /\ R!Dir(p) \in R!Directory /\ R!Dir(p).payload # None /\ R!Dir(p).verified = None
      /\ R!Dir(p) = v2[v5[p].dir] /\ v5[p].dir \notin v4
      /\ UNCHANGED <<v1, v4, v6>> /\ R!Located(p)
      /\ v5[p].receipt \in Releases /\ v5[p].receipt = R!Dir(p).metadata
  BY InstallerIs DEF R!Extract, R!At, R!Installing, R!ReleaseInv, R!Checked
<1>2. CASE R!Throw(p) /\ UNCHANGED v2
  BY <1>1, <1>2, ThrowKeepsRelease
<1>3. CASE /\ R!Become(p, [v5[p] EXCEPT !.at = "load", !.entry = 1, !.steady = TRUE])
           /\ UNCHANGED <<v2, v3>>
  <2> DEFINE v == [v5[p] EXCEPT !.at = "load", !.entry = 1, !.steady = TRUE]
  <2>1. v \in R!Locals /\ v.at = "load" /\ v.dir = v5[p].dir /\ v.receipt = v5[p].receipt /\ v.steady
    BY <1>1 DEF R!Locals, R!Loading
  <2>2. v5' = [v5 EXCEPT ![p] = v]
    BY <1>3 DEF R!Become
  <2> HIDE DEF v
  <2>3. v5'[p] = v /\ R!Holds(p)' /\ R!Dir(p)' = R!Dir(p)
    BY <1>1, <1>3, <2>1, <2>2 DEF R!ReleaseInv, R!Typed, R!Holds, R!Dir
  <2>4. R!Located(p)' /\ R!Checked(p)'
    BY <1>1, <2>1, <2>3 DEF R!Located, R!Checked, R!At, R!Elsewhere, R!Installing, R!Loading
  <2> QED
    BY <1>1, <1>3, <2>1, <2>2, <2>4, StepKeepsRelease
<1>4. CASE /\ R!Unpacks(R!Dir(p).payload)
           /\ v2' = [v2 EXCEPT ![v5[p].dir].package[R!Entries[v5[p].entry]] = Head(R!Dir(p).payload)]
           /\ R!Become(p, [v5[p] EXCEPT !.entry = v5[p].entry + 1]) /\ UNCHANGED v3
  <2> DEFINE v == [v5[p] EXCEPT !.entry = v5[p].entry + 1]
             f == [R!Dir(p).package EXCEPT ![R!Entries[v5[p].entry]] = Head(R!Dir(p).payload)]
             w == [R!Dir(p) EXCEPT !.package = f]
  <2>1. Head(R!Dir(p).payload) \in R!Bytes
    BY <1>4, WholeIs DEF R!Unpacks, R!Bytes
  <2>2. f \in [R!Files -> R!Bytes \cup {None}]
    BY <1>1, <2>1 DEF R!Directory
  <2>3. v2' = [v2 EXCEPT ![v5[p].dir] = w]
    BY <1>1, <1>4
  <2> HIDE DEF f
  <2>4. /\ v \in R!Locals /\ v.at = "extract" /\ v.dir = v5[p].dir /\ v.receipt = v5[p].receipt
        /\ v.steady = v5[p].steady
    BY <1>1 DEF R!Locals
  <2>5. /\ w \in R!Directory /\ w.payload = R!Dir(p).payload /\ w.verified = None
        /\ w.metadata = R!Dir(p).metadata
    BY <1>1, <2>2 DEF R!Directory
  <2>6. v5' = [v5 EXCEPT ![p] = v]
    BY <1>4 DEF R!Become
  <2> HIDE DEF v, w
  <2>7. Len(w.payload) <= R!Chunks + 1
    BY <1>1, <2>5 DEF R!ReleaseInv, R!Settled
  <2>8. ~R!At(p, "marked") /\ UNCHANGED <<v1, v4, v6, v3>>
    BY <1>1, <1>4 DEF R!At
  <2>9. /\ w.payload # None /\ w.verified = None /\ v.at \in {"body", "extract"}
        /\ v.at # "body" /\ v.receipt \in Releases /\ v.receipt = w.metadata
    BY <1>1, <2>4, <2>5
  <2> QED
    BY <1>1, <2>3, <2>4, <2>5, <2>6, <2>7, <2>8, <2>9, WriteKeepsRelease
<1>5. v5[p].entry > Len(R!Entries) \/ v5[p].entry <= Len(R!Entries)
  <2>1. Len(R!Entries) \in Nat
    BY DEF R!ReleaseInv, R!Typed, R!Shapes, R!Entries
  <2> QED
    BY <1>1, <2>1 DEF R!Locals
<1>6. \/ R!Throw(p) /\ UNCHANGED v2
      \/ /\ R!Become(p, [v5[p] EXCEPT !.at = "load", !.entry = 1, !.steady = TRUE])
         /\ UNCHANGED <<v2, v3>>
      \/ /\ R!Unpacks(R!Dir(p).payload)
         /\ v2' = [v2 EXCEPT ![v5[p].dir].package[R!Entries[v5[p].entry]] = Head(R!Dir(p).payload)]
         /\ R!Become(p, [v5[p] EXCEPT !.entry = v5[p].entry + 1]) /\ UNCHANGED v3
  BY <1>5, Zenon DEF R!Extract
<1> QED
  BY <1>2, <1>3, <1>4, <1>6

(* Where the files of a directory have been checked it is genuine.         *)
LEMMA CheckedIsGenuine ==
  ASSUME R!ReleaseInv, NEW p \in Calls, v5[p].at \in {"mark", "marked", "found"}, v5[p].steady
  PROVE  R!Genuine(v5[p].dir)
<1>1. /\ v5[p].metadata \in Signed /\ v5[p].metadata = R!Dir(p).metadata
      /\ R!Dir(p).payload = R!Whole(v5[p].metadata) /\ v1 = "whole"
      /\ {f \in R!Files : R!Dir(p).package[f] # None} = R!Listed
      /\ \A f \in R!Listed : R!Dir(p).package[f] = v5[p].metadata
  BY DEF R!ReleaseInv, R!Checked
<1>2. v5[p].dir \in Items
  BY DEF R!ReleaseInv, R!Located, R!Typed, R!Locals, R!Elsewhere
<1>3. R!Dir(p).package \in [R!Files -> R!Bytes \cup {None}]
  BY <1>2 DEF R!ReleaseInv, R!Typed, R!Dir, R!Directory
<1>4. R!Dir(p).package = [f \in R!Files |-> IF f \in R!Listed THEN v5[p].metadata ELSE None]
  BY <1>1, <1>3
<1> QED
  BY <1>1, <1>4 DEF R!Genuine, R!Dir

LEMMA MarkKeepsRelease ==
  ASSUME R!ReleaseInv, NEW p \in Calls, R!Mark(p)
  PROVE  R!ReleaseInv'
<1> DEFINE d == v5[p].dir
           v == [v5[p] EXCEPT !.at = "marked"]
           w == [R!Dir(p) EXCEPT !.verified = R!Torn]
<1>1. /\ v5[p].at = "mark" /\ R!Holds(p) /\ v5[p] \in R!Locals /\ d \in Items
      /\ R!Dir(p) \in R!Directory /\ R!Dir(p).payload # None /\ R!Dir(p).verified = None
      /\ R!Dir(p) = v2[d] /\ d \notin v4
      /\ UNCHANGED <<v1, v3, v4, v6>> /\ R!Located(p) /\ R!Checked(p)
      /\ v5' = [v5 EXCEPT ![p] = v] /\ v2' = [v2 EXCEPT ![d].verified = R!Torn]
  BY InstallerIs DEF R!Mark, R!At, R!Installing, R!ReleaseInv, R!Become
<1>2. /\ v \in R!Locals /\ v.at = "marked" /\ v.dir = d /\ v.receipt = v5[p].receipt
      /\ v.steady = v5[p].steady /\ v.metadata = v5[p].metadata
  BY <1>1 DEF R!Locals, R!Installing
<1>3. /\ w \in R!Directory /\ w.payload = R!Dir(p).payload /\ w.package = R!Dir(p).package
      /\ w.metadata = R!Dir(p).metadata /\ w.attested = R!Dir(p).attested /\ w.verified = R!Torn
  BY <1>1 DEF R!Directory
<1>4. v2' = [v2 EXCEPT ![d] = w]
  BY <1>1
<1> HIDE DEF v, w
<1>5. /\ v5'[p] = v /\ v2'[d] = w /\ (\A e \in Items : e # d => v2'[e] = v2[e])
      /\ R!Holds(p)' /\ R!Dir(p)' = w
  BY <1>1, <1>2, <1>4 DEF R!ReleaseInv, R!Typed, R!Holds, R!Dir
<1>6. R!Torn # None /\ R!Torn \notin Releases
  BY ReleaseConstants DEF R!ReleaseAssumption, R!Torn
<1>7. R!Typed'
  BY <1>1, <1>2, <1>3, <1>4 DEF R!ReleaseInv, R!Typed
<1>8. R!Located(p)'
  BY <1>1, <1>2, <1>3, <1>5 DEF R!Located, R!At, R!Elsewhere, R!Installing
<1>9. R!Checked(p)'
  BY <1>1, <1>2, <1>3, <1>5 DEF R!Checked
<1>10. \A q \in Calls \ {p} : R!Located(q)' /\ R!Checked(q)'
  BY <1>1, <1>3, <1>5, <1>6, OthersStay
<1>11. \A e \in Items : R!Settled(e)'
  <2> SUFFICES ASSUME NEW e \in Items PROVE R!Settled(e)'
    OBVIOUS
  <2>1. CASE e = d
    BY <1>1, <1>3, <1>5, <1>6, <2>1 DEF R!Settled, R!ReleaseInv
  <2>2. CASE e # d
    BY <1>1, <1>5, <2>2, SettledStays DEF R!ReleaseInv
  <2> QED
    BY <2>1, <2>2
<1> QED
  BY <1>7, <1>8, <1>9, <1>10, <1>11 DEF R!ReleaseInv

(* The receipt of what was checked.                                        *)
LEMMA FinishKeepsRelease ==
  ASSUME R!ReleaseInv, NEW p \in Calls, R!Finish(p)
  PROVE  R!ReleaseInv'
<1> DEFINE d == v5[p].dir
           w == [R!Dir(p) EXCEPT !.verified = v5[p].receipt]
<1>1. /\ v5[p].at = "marked" /\ R!Holds(p) /\ v5[p] \in R!Locals /\ d \in Items
      /\ R!Dir(p) \in R!Directory /\ R!Dir(p).payload # None /\ R!Dir(p).verified = R!Torn
      /\ R!Dir(p) = v2[d] /\ d \notin v4
      /\ UNCHANGED <<v1, v4, v6>> /\ R!Located(p) /\ R!Checked(p) /\ R!Typed
      /\ v5[p].receipt \in Releases /\ v5[p].receipt = R!Dir(p).metadata
      /\ R!Throw(p) /\ v2' = [v2 EXCEPT ![d].verified = v5[p].receipt]
  BY InstallerIs DEF R!Finish, R!At, R!Installing, R!ReleaseInv, R!Checked
<1>2. /\ w \in R!Directory /\ w.payload = R!Dir(p).payload /\ w.package = R!Dir(p).package
      /\ w.metadata = R!Dir(p).metadata /\ w.attested = R!Dir(p).attested
      /\ w.verified = v5[p].receipt
  BY <1>1 DEF R!Directory, R!Known
<1>3. v2' = [v2 EXCEPT ![d] = w]
  BY <1>1
<1> HIDE DEF w
<1>4. /\ v5' = [v5 EXCEPT ![p] = R!Idle] /\ v5'[p] = R!Idle /\ v3 = p /\ v3' = None
      /\ v2'[d] = w /\ \A e \in Items : e # d => v2'[e] = v2[e]
  BY <1>1, <1>3 DEF R!Typed, R!Throw, R!Holds
<1>5. ~R!Holds(p)' /\ None \notin Releases
  BY <1>4, ReleaseConstants DEF R!Holds, R!ReleaseAssumption
<1>6. R!Typed'
  BY <1>1, <1>2, <1>3, <1>4, IdleTyped DEF R!Typed
<1>7. R!Located(p)' /\ R!Checked(p)'
  BY <1>4, <1>5, IdleTyped DEF R!Located, R!Checked, R!At, R!Elsewhere, R!Installing
<1>8. w.verified # None
  BY <1>1, <1>2, <1>5
<1>9. \A q \in Calls \ {p} : R!Located(q)' /\ R!Checked(q)'
  BY <1>1, <1>2, <1>4, <1>8, OthersStay
<1>10. \A e \in Items : R!Settled(e)'
  <2> SUFFICES ASSUME NEW e \in Items PROVE R!Settled(e)'
    OBVIOUS
  <2>1. CASE e = d
    <3>1. e \notin v6 => R!Genuine(e)
      BY <1>1, <2>1, CheckedIsGenuine DEF R!Located
    <3>2. R!Genuine(e) => R!Genuine(e)'
      BY <1>1, <1>2, <1>4, <2>1 DEF R!Genuine
    <3> QED
      BY <1>1, <1>2, <1>4, <2>1, <3>1, <3>2 DEF R!Settled, R!ReleaseInv
  <2>2. CASE e # d
    BY <1>1, <1>4, <2>2, SettledStays DEF R!ReleaseInv
  <2> QED
    BY <2>1, <2>2
<1> QED
  BY <1>6, <1>7, <1>9, <1>10 DEF R!ReleaseInv

(* What an aborted download still writes is in nobody's directory.         *)
LEMMA LateChunkKeepsRelease ==
  ASSUME R!ReleaseInv, NEW d \in Items, R!LateChunk(d)
  PROVE  R!ReleaseInv'
<1>1. /\ R!Typed /\ d \in v4 /\ UNCHANGED <<v1, v3, v5, v6>> /\ v4' = v4 \ {d}
      /\ v2[d] \in R!Directory /\ v2[d].payload # None /\ v2[d].verified = None
      /\ v2[d].payload \in Seq(R!Bytes)
  BY DEF R!ReleaseInv, R!LateChunk, R!Settled, R!Typed, R!Directory
<1>2. PICK w \in R!Directory :
        /\ v2' = [v2 EXCEPT ![d] = w] /\ w.payload # None /\ w.verified = None
        /\ Len(w.payload) <= R!Chunks + 1
  <2>1. CASE UNCHANGED v2
    <3>1. v2' = [v2 EXCEPT ![d] = v2[d]]
      BY <1>1, <2>1 DEF R!Typed
    <3> QED
      BY <1>1, <3>1 DEF R!ReleaseInv, R!Settled
  <2>2. ASSUME NEW r \in Releases, Len(v2[d].payload) < R!Chunks,
               v2' = [v2 EXCEPT ![d].payload = Append(@, r)]
        PROVE  \E w \in R!Directory :
                 /\ v2' = [v2 EXCEPT ![d] = w] /\ w.payload # None /\ w.verified = None
                 /\ Len(w.payload) <= R!Chunks + 1
    <3> DEFINE payload == Append(v2[d].payload, r)
               w == [v2[d] EXCEPT !.payload = payload]
    <3>1. r \in R!Bytes
      BY DEF R!Bytes
    <3>2. payload \in Seq(R!Bytes) /\ Len(payload) = Len(v2[d].payload) + 1 /\ Len(v2[d].payload) \in Nat
      BY <1>1, <3>1
    <3>3. payload # None
      BY <3>2, ReleaseConstants DEF R!ReleaseAssumption, R!Bytes, R!Damaged
    <3>4. v2' = [v2 EXCEPT ![d] = w]
      BY <2>2
    <3> HIDE DEF payload
    <3>5. w \in R!Directory /\ w.payload = payload /\ w.verified = None
      BY <1>1, <3>2 DEF R!Directory
    <3>6. Len(payload) <= R!Chunks + 1
      BY <2>2, <3>2 DEF R!Chunks
    <3> HIDE DEF w
    <3> QED
      BY <3>3, <3>4, <3>5, <3>6
  <2> QED
    BY <2>1, <2>2 DEF R!LateChunk
<1>3. v2'[d] = w /\ \A e \in Items : e # d => v2'[e] = v2[e]
  BY <1>1, <1>2 DEF R!Typed
<1>4. R!Typed'
  BY <1>1, <1>2 DEF R!Typed
<1>5. ASSUME NEW q \in Calls PROVE R!Located(q)' /\ R!Checked(q)'
  <2>1. R!Located(q) /\ R!Checked(q) /\ v5'[q] = v5[q]
    BY <1>1 DEF R!ReleaseInv
  <2>2. v5[q].dir # d
    <3> SUFFICES ASSUME v5[q].dir = d PROVE FALSE
      OBVIOUS
    <3>1. d # None
      BY ReleaseConstants DEF R!ReleaseAssumption
    <3>2. R!Holds(q)
      BY <1>1, <2>1, <3>1, NobodyElse DEF R!Dir
    <3> QED
      BY <1>1, <2>1, <3>2 DEF R!Located
  <2>3. v5[q].dir # None => R!Dir(q)' = R!Dir(q) /\ v5[q].dir \in Items
    BY <1>1, <1>3, <2>2 DEF R!Dir, R!Typed, R!Locals
  <2>4. R!Holds(q) => v5[q].dir \notin v4'
    BY <1>1, <2>1 DEF R!Located
  <2> QED
    BY <1>1, <2>1, <2>3, <2>4, StillThere
<1>6. \A e \in Items : R!Settled(e)'
  <2> SUFFICES ASSUME NEW e \in Items PROVE R!Settled(e)'
    OBVIOUS
  <2>1. CASE e = d
    BY <1>1, <1>2, <1>3, <2>1, ReleaseConstants DEF R!Settled, R!ReleaseAssumption
  <2>2. CASE e # d
    BY <1>1, <1>3, <2>2, SettledStays DEF R!ReleaseInv
  <2> QED
    BY <2>1, <2>2
<1> QED
  BY <1>4, <1>5, <1>6 DEF R!ReleaseInv

(* A damaged directory is touched, and whoever loads it unsteady.          *)
LEMMA DamageKeepsRelease ==
  ASSUME R!ReleaseInv, NEW d \in Items, R!Damage(d)
  PROVE  R!ReleaseInv'
<1>1. /\ R!Typed /\ UNCHANGED <<v1, v3, v4>> /\ v6' = v6 \cup {d}
      /\ v2[d] \in R!Directory /\ v2[d].payload # None /\ R!Settled(d)
      /\ v5' = [p \in Calls |->
                    IF v5[p].dir = d THEN [v5[p] EXCEPT !.steady = FALSE] ELSE v5[p]]
  BY DEF R!ReleaseInv, R!Damage, R!Typed
<1>2. R!Damaged \in R!Bytes /\ R!Torn # None /\ R!Torn \notin Releases
  BY ReleaseConstants DEF R!ReleaseAssumption, R!Torn, R!Bytes
<1>3. PICK w \in R!Directory :
        /\ v2' = [v2 EXCEPT ![d] = w] /\ w.metadata = v2[d].metadata
        /\ w.payload # None
        /\ w.payload = v2[d].payload \/ Len(w.payload) = 1
        /\ w.verified = v2[d].verified \/ (v2[d].verified # None /\ w.verified = R!Torn)
  <2>1. CASE v2' = [v2 EXCEPT ![d].payload = <<R!Damaged>>]
    <3> DEFINE payload == <<R!Damaged>>
               w == [v2[d] EXCEPT !.payload = payload]
    <3>1. payload \in Seq(R!Bytes) /\ Len(payload) = 1
      BY <1>2
    <3>2. payload # None
      BY <3>1, ReleaseConstants DEF R!ReleaseAssumption, R!Bytes, R!Damaged
    <3>3. v2' = [v2 EXCEPT ![d] = w]
      BY <2>1
    <3> HIDE DEF payload
    <3>4. w \in R!Directory /\ w.payload = payload /\ w.verified = v2[d].verified
          /\ w.metadata = v2[d].metadata
      BY <1>1, <3>1 DEF R!Directory
    <3> HIDE DEF w
    <3> QED
      BY <3>1, <3>2, <3>3, <3>4
  <2>2. CASE v2[d].verified # None /\ v2' = [v2 EXCEPT ![d].verified = R!Torn]
    <3> DEFINE w == [v2[d] EXCEPT !.verified = R!Torn]
    <3>1. v2' = [v2 EXCEPT ![d] = w]
      BY <2>2
    <3>2. w \in R!Directory /\ w.payload = v2[d].payload /\ w.verified = R!Torn
          /\ w.metadata = v2[d].metadata
      BY <1>1 DEF R!Directory
    <3> HIDE DEF w
    <3> QED
      BY <1>1, <2>2, <3>1, <3>2
  <2>3. ASSUME NEW f \in R!Files, NEW what \in {None, R!Damaged},
               v2' = [v2 EXCEPT ![d].package[f] = what]
        PROVE  \E w \in R!Directory :
                 /\ v2' = [v2 EXCEPT ![d] = w] /\ w.metadata = v2[d].metadata
                 /\ w.payload # None
                 /\ w.payload = v2[d].payload \/ Len(w.payload) = 1
                 /\ w.verified = v2[d].verified \/ (v2[d].verified # None /\ w.verified = R!Torn)
    <3> DEFINE g == [v2[d].package EXCEPT ![f] = what]
               w == [v2[d] EXCEPT !.package = g]
    <3>1. g \in [R!Files -> R!Bytes \cup {None}]
      BY <1>1, <1>2 DEF R!Directory
    <3>2. v2' = [v2 EXCEPT ![d] = w]
      BY <2>3
    <3> HIDE DEF g
    <3>3. w \in R!Directory /\ w.payload = v2[d].payload /\ w.verified = v2[d].verified
          /\ w.metadata = v2[d].metadata
      BY <1>1, <3>1 DEF R!Directory
    <3> HIDE DEF w
    <3> QED
      BY <1>1, <3>2, <3>3
  <2> QED
    BY <2>1, <2>2, <2>3 DEF R!Damage
<1>4. v2'[d] = w /\ \A e \in Items : e # d => v2'[e] = v2[e]
  BY <1>1, <1>3 DEF R!Typed
<1>5. \A q \in Calls :
        /\ v5'[q] \in R!Locals /\ v5'[q].at = v5[q].at /\ v5'[q].dir = v5[q].dir
        /\ v5'[q].metadata = v5[q].metadata /\ v5'[q].attested = v5[q].attested
        /\ v5'[q].digest = v5[q].digest /\ v5'[q].receipt = v5[q].receipt
        /\ v5[q].dir = d => ~v5'[q].steady
        /\ v5[q].dir # d => v5'[q] = v5[q]
  BY <1>1 DEF R!Typed, R!Locals
<1>6. R!Typed'
  <2>1. v5' \in [Calls -> R!Locals]
    BY <1>1, <1>5
  <2> QED
    BY <1>1, <1>3, <2>1 DEF R!Typed
<1>7. ASSUME NEW q \in Calls PROVE R!Located(q)' /\ R!Checked(q)'
  <2>1. R!Located(q) /\ R!Checked(q)
    BY DEF R!ReleaseInv
  <2>2. CASE v5[q].dir # d
    <3>1. v5[q].dir # None => R!Dir(q)' = R!Dir(q)
      BY <1>1, <1>4, <1>5, <2>2 DEF R!Dir, R!Typed, R!Locals
    <3>2. R!Holds(q) => v5[q].dir \notin v4'
      BY <1>1, <2>1 DEF R!Located
    <3>3. v5'[q] = v5[q] /\ v6 \subseteq v6'
      BY <1>1, <1>5, <2>2
    <3> QED
      BY <1>1, <2>1, <3>1, <3>2, <3>3, StillThere
  <2>3. CASE v5[q].dir = d
    <3>1. R!Dir(q) = v2[d] /\ R!Dir(q)' = w /\ (R!Holds(q)' <=> R!Holds(q)) /\ ~v5'[q].steady
      BY <1>1, <1>4, <1>5, <2>3 DEF R!Dir, R!Holds
    <3>2. R!Holds(q) => w.verified = IF R!At(q, "marked") THEN R!Torn ELSE None
      BY <1>3, <2>1, <3>1 DEF R!Located
    <3>3. ~R!Holds(q) => w.verified # None
      BY <1>2, <1>3, <2>1, <2>3, <3>1, ReleaseConstants DEF R!Located, R!ReleaseAssumption
    <3>4. v5[q].at \in {"request", "body"} => Len(w.payload) <= Len(v5[q].digest) + 1
      <4>1. Len(v5[q].digest) \in Nat
        BY DEF R!ReleaseInv, R!Typed, R!Locals
      <4>2. CASE w.payload = v2[d].payload
        <5>1. v5[q].at \in {"request", "body"} => Len(v2[d].payload) <= Len(v5[q].digest) + 1
          BY <2>1, <3>1 DEF R!Located
        <5> QED
          BY <4>2, <5>1
      <4>3. CASE Len(w.payload) = 1
        BY <4>1, <4>3
      <4> QED
        BY <1>3, <4>2, <4>3
    <3>5. R!Located(q)'
      BY <1>1, <1>3, <1>5, <2>1, <2>3, <3>1, <3>2, <3>3, <3>4 DEF R!Located, R!At
    <3>6. R!Checked(q)'
      BY <1>3, <1>5, <2>1, <3>1 DEF R!Checked
    <3> QED
      BY <3>5, <3>6
  <2> QED
    BY <2>2, <2>3
<1>8. \A e \in Items : R!Settled(e)'
  <2> SUFFICES ASSUME NEW e \in Items PROVE R!Settled(e)'
    OBVIOUS
  <2>1. CASE e = d
    <3>1. Len(w.payload) <= R!Chunks + 1
      <4>1. CASE w.payload = v2[d].payload
        <5>1. Len(v2[d].payload) <= R!Chunks + 1
          BY <1>1 DEF R!Settled
        <5> QED
          BY <4>1, <5>1
      <4>2. CASE Len(w.payload) = 1
        BY <4>2 DEF R!Chunks
      <4> QED
        BY <1>3, <4>1, <4>2
    <3> QED
      BY <1>1, <1>3, <1>4, <2>1, <3>1 DEF R!Settled
  <2>2. CASE e # d
    <3>1. R!Settled(e) /\ v2'[e] = v2[e] /\ v1' = v1 /\ v4' = v4 /\ (e \in v6' <=> e \in v6)
      BY <1>1, <1>4, <2>2 DEF R!ReleaseInv
    <3>2. R!Genuine(e) => R!Genuine(e)'
      BY <3>1 DEF R!Genuine
    <3> QED
      BY <3>1, <3>2 DEF R!Settled
  <2> QED
    BY <2>1, <2>2
<1> QED
  BY <1>6, <1>7, <1>8 DEF R!ReleaseInv

LEMMA ReleaseStarts == R!Init => R!ReleaseInv
<1> SUFFICES ASSUME R!Init PROVE R!ReleaseInv
  OBVIOUS
<1>1. R!NoDir \in R!Directory /\ R!NoDir.payload = None /\ R!NoDir.verified = None
  BY DEF R!NoDir, R!Directory, R!Known
<1>2. v3 = None /\ \A p \in Calls : v5[p] = R!Idle /\ ~R!Holds(p)
  BY ReleaseConstants DEF R!Init, R!Holds, R!ReleaseAssumption
<1>3. R!Typed
  BY <1>1, IdleTyped DEF R!Init, R!Typed
<1>4. \A p \in Calls : R!Located(p) /\ R!Checked(p)
  BY <1>2, IdleTyped DEF R!Located, R!Checked, R!Elsewhere, R!Installing
<1>5. \A d \in Items : R!Settled(d)
  BY <1>1, ReleaseConstants DEF R!Init, R!Settled, R!ReleaseAssumption
<1> QED
  BY <1>3, <1>4, <1>5 DEF R!ReleaseInv

LEMMA ReleaseNext == ASSUME R!ReleaseInv, R!Next PROVE R!ReleaseInv'
<1>1. ASSUME NEW p \in Calls, R!Crash(p) PROVE R!ReleaseInv'
  BY <1>1, ThrowKeepsRelease DEF R!Crash
<1>2. ASSUME NEW p \in Calls,
             \/ R!Fetch(p) \/ R!Enter(p) \/ R!Redirect(p) \/ R!Accepted(p) \/ R!Chunk(p) \/ R!Abort(p)
             \/ R!Received(p) \/ R!Extract(p) \/ R!Mark(p) \/ R!Finish(p)
             \/ R!List(p) \/ R!Visit(p) \/ R!LoadMetadata(p) \/ R!LoadDigest(p) \/ R!LoadProvenance(p)
             \/ R!LoadArchive(p) \/ R!LoadInventory(p) \/ R!LoadFiles(p) \/ R!Found(p)
      PROVE  R!ReleaseInv'
  BY <1>2, ListsKeepRelease, EnterKeepsRelease, RequestKeepsRelease, ChunkKeepsRelease, ReceivedKeepsRelease, ExtractKeepsRelease,
     MarkKeepsRelease, FinishKeepsRelease, LoadsKeepRelease
<1> QED
  BY <1>1, <1>2, LateChunkKeepsRelease, DamageKeepsRelease DEF R!Next

LEMMA ReleaseIsSigned == R!ReleaseInv => R!RuntimeIsSigned
<1> SUFFICES ASSUME R!ReleaseInv PROVE R!RuntimeIsSigned
  OBVIOUS
<1>1. \A p \in Calls : (R!At(p, "mark") \/ R!At(p, "found")) /\ v5[p].steady => R!Genuine(v5[p].dir)
  BY CheckedIsGenuine DEF R!At
<1>2. \A d \in Items \ v6 :
        v2[d].verified \in Releases => R!Genuine(d) /\ v2[d].metadata = v2[d].verified
  BY DEF R!ReleaseInv, R!Settled
<1> QED
  BY <1>1, <1>2 DEF R!RuntimeIsSigned

LEMMA ReleaseTypes == R!ReleaseInv => R!TypeOK
<1> SUFFICES ASSUME R!ReleaseInv PROVE R!TypeOK
  OBVIOUS
<1>1. ASSUME NEW d \in Items
      PROVE  /\ v2[d].payload = None \/ Len(v2[d].payload) <= R!Chunks + 1
             /\ v2[d].package \in [R!Files -> Releases \cup {None, R!Damaged}]
             /\ v2[d].verified \in Releases \cup {None, R!Torn}
  <2>1. v2[d] \in R!Directory /\ R!Settled(d)
    BY DEF R!ReleaseInv, R!Typed
  <2>2. R!Bytes \cup {None} = Releases \cup {None, R!Damaged} /\ R!Known \cup {R!Torn} = Releases \cup {None, R!Torn}
    BY DEF R!Bytes, R!Known
  <2> QED
    BY <2>1, <2>2 DEF R!Directory, R!Settled
<1>2. \A p \in Calls : v5[p].dir \in Items \cup {None} /\ v5[p].hops \in 0 .. MaxRedirects
  BY DEF R!ReleaseInv, R!Typed, R!Locals
<1>3. \A p \in Calls : v3 = p => v5[p].dir # None
  BY DEF R!ReleaseInv, R!Located, R!Holds, R!Elsewhere, R!Installing, R!Loading
<1> QED
  BY <1>1, <1>2, <1>3 DEF R!TypeOK, R!ReleaseInv, R!Typed

-----------------------------------------------------------------------------
(* Review: v1 source, v2 revisions, v3 writer, v4 present, v5 rules,       *)
(* v6 observed, v7 turns.                                                  *)

LEMMA ReviewConstants == V!ReviewAssumption
BY ServicesAssumption

(* What an assessment comes to.                                            *)
LEMMA FindingsAre ==
  ASSUME NEW c, NEW at, NEW version
  PROVE  /\ (\E f \in V!Findings(c, at, version) : f.rule = "RP-062") <=> c.required /\ ~at
         /\ version \in Rules => V!Findings(c, at, version) \subseteq V!Finding
<1> DEFINE f(rule) == [rule |-> rule, version |-> version]
<1>1. /\ f("RP-071").rule = "RP-071" /\ f("RP-061").rule = "RP-061" /\ f("RP-062").rule = "RP-062"
      /\ version \in Rules => f("RP-071") \in V!Finding /\ f("RP-061") \in V!Finding /\ f("RP-062") \in V!Finding
  BY DEF V!Finding
<1>2. V!Findings(c, at, version) =
        (IF c.plan \in OpenIssue THEN {f("RP-071")} ELSE {})
        \cup (IF ~at THEN {f("RP-061")} ELSE {})
        \cup (IF c.required /\ ~at THEN {f("RP-062")} ELSE {})
  BY DEF V!Findings
<1> HIDE DEF f
<1>3. \A x : x \in V!Findings(c, at, version) <=>
               \/ x = f("RP-071") /\ c.plan \in OpenIssue
               \/ x = f("RP-061") /\ ~at
               \/ x = f("RP-062") /\ c.required /\ ~at
  BY <1>2
<1> QED
  BY <1>1, <1>3

LEMMA ReasonsAre ==
  ASSUME NEW s, NEW i, NEW at, NEW version
  PROVE  LET a == s.review.approvals[i]
             lost == \/ a.planning # V!planningHash(s.content)
                     \/ a.ruleSet # version
                     \/ s.content.required /\ ~at
         IN /\ V!Material(V!Reasons(s, i, at, version)) <=> lost
            /\ V!Reasons(s, i, at, version) = {} <=>
                 /\ i \notin s.review.invalidated /\ ~lost
                 /\ ~(/\ a.decision = "approved"
                      /\ \E f \in V!Findings(s.content, at, version) :
                           ~V!Warning(f) \/ ~V!Decided(f, a, s.content))
<1> DEFINE a == s.review.approvals[i]
           found == V!Findings(s.content, at, version)
           changed == a.planning # V!planningHash(s.content)
           ruled == a.ruleSet # version
           gone == \E f \in found : f.rule = "RP-062"
           blocked == /\ a.decision = "approved"
                      /\ \E f \in found : ~V!Warning(f) \/ ~V!Decided(f, a, s.content)
           reasons == (IF i \in s.review.invalidated THEN {"invalidated"} ELSE {})
                      \cup (IF changed THEN {"planning-content-changed"} ELSE {})
                      \cup (IF ruled THEN {"rule-context-changed"} ELSE {})
                      \cup (IF gone THEN {"required-evidence-changed"} ELSE {})
                      \cup (IF blocked THEN {"validation-blocked"} ELSE {})
<1>1. V!Reasons(s, i, at, version) = reasons
  BY DEF V!Reasons
<1>2. gone <=> s.content.required /\ ~at
  BY FindingsAre
<1> HIDE DEF changed, ruled, gone, blocked
<1>3. V!Material(reasons) <=> changed \/ ruled \/ gone
  BY DEF V!Material
<1>4. reasons = {} <=> i \notin s.review.invalidated /\ ~changed /\ ~ruled /\ ~gone /\ ~blocked
  OBVIOUS
<1> QED
  BY <1>1, <1>2, <1>3, <1>4 DEF changed, ruled, blocked

LEMMA StatusIs ==
  ASSUME NEW s, NEW at, NEW version
  PROVE  V!approvalStatus(s, at, version) = "approved" <=>
           /\ s.review.current # 0 /\ s.review.current \notin s.review.revoked
           /\ V!Reasons(s, s.review.current, at, version) = {}
           /\ s.review.approvals[s.review.current].decision = "approved"
<1>1. CASE s.review.current = 0
  BY <1>1 DEF V!approvalStatus
<1>2. CASE s.review.current # 0 /\ s.review.current \in s.review.revoked
  BY <1>2 DEF V!approvalStatus
<1>3. CASE s.review.current # 0 /\ s.review.current \notin s.review.revoked
  BY <1>3 DEF V!approvalStatus
<1> QED
  BY <1>1, <1>2, <1>3

LEMMA CurrentIs ==
  ASSUME NEW s, NEW at, NEW version, V!approvalStatus(s, at, version) = "approved"
  PROVE  /\ s.review.current # 0
         /\ s.review.current \notin s.review.revoked \cup s.review.invalidated
         /\ s.review.approvals[s.review.current].decision = "approved"
<1>1. /\ s.review.current # 0 /\ s.review.current \notin s.review.revoked
      /\ V!Reasons(s, s.review.current, at, version) = {}
      /\ s.review.approvals[s.review.current].decision = "approved"
  BY StatusIs
<1>2. s.review.current \notin s.review.invalidated
  BY <1>1, ReasonsAre
<1> QED
  BY <1>1, <1>2

(* What a session saw is about decisions of the ledger.                    *)
LEMMA SeenTypes ==
  ASSUME V!Typed, V!TypeOK, NEW p \in Calls
  PROVE  /\ V!Seen(p) \subseteq 1 .. Len(v1.review.approvals)
         /\ v6[p] \subseteq V!Seen(p)
BY DEF V!Seen, V!TypeOK

(* A candidate that follows on the source, and a commit of it: what the    *)
(* commit writes.                                                          *)
Follows(candidate) ==
  /\ candidate \in [content : V!Content, review : V!Ledger]
  /\ Len(candidate.review.approvals) >= Len(v1.review.approvals)
  /\ candidate.review.revoked \cup candidate.review.invalidated
       \subseteq 1 .. Len(candidate.review.approvals)
  /\ candidate.review.current \in 0 .. Len(candidate.review.approvals)
  /\ \A i \in 1 .. Len(candidate.review.approvals) :
       candidate.review.approvals[i].base \in 1 .. Len(v2)

Committed(p, scope, before, candidate) ==
  /\ v1'.content = candidate.content
  /\ v1'.review.approvals = candidate.review.approvals
  /\ v1'.review.revoked = candidate.review.revoked
  /\ v1'.review.current = candidate.review.current
  /\ v1'.review.invalidated = candidate.review.invalidated
       \cup (IF V!LostBy(p, before, candidate) THEN {v1.review.current} ELSE {})
  /\ Len(v2') = Len(v2) + 1
  /\ \A i \in 1 .. Len(v2) : v2'[i] = v2[i]
  /\ v2'[Len(v2) + 1] =
       [content |-> candidate.content, at |-> v4, ruleSet |-> v5[p]]
  /\ v3' = [by |-> p, scope |-> scope]
  /\ v4' = v4 /\ v5' = v5

LEMMA CommitIs ==
  ASSUME V!Typed, V!TypeOK, NEW p \in Calls, NEW scope \in V!Scopes, NEW before, NEW candidate,
         before.review = v1.review, Follows(candidate),
         V!finishMutation(p, scope, before, candidate)
  PROVE  V!Typed' /\ V!TypeOK' /\ Committed(p, scope, before, candidate)
<1> USE DEF Follows
<1> DEFINE lost == IF V!LostBy(p, before, candidate) THEN {v1.review.current} ELSE {}
           gone == candidate.review.invalidated \cup lost
           next == [content |-> candidate.content, at |-> v4, ruleSet |-> v5[p]]
<1>1. /\ Len(v2) < ReviewRevisions
      /\ v1' = [candidate EXCEPT !.review.invalidated = gone]
      /\ v2' = Append(v2, next)
      /\ v3' = [by |-> p, scope |-> scope]
      /\ v6' = [v6 EXCEPT ![p] = V!Seen(p)]
      /\ UNCHANGED <<v4, v5, v7>>
  BY DEF V!finishMutation
<1>2. lost \subseteq 1 .. Len(v1.review.approvals)
  <2>1. V!LostBy(p, before, candidate) => v1.review.current # 0
    BY DEF V!LostBy
  <2> QED
    BY <2>1 DEF V!TypeOK
<1>3. /\ candidate.review \in V!Ledger /\ candidate.content \in V!Content /\ next \in V!Revision
      /\ Len(candidate.review.approvals) \in Nat /\ Len(v1.review.approvals) \in Nat
      /\ Len(v2) \in Nat /\ v2 \in Seq(V!Revision)
  <2>1. candidate.review.approvals \in Seq(V!Approval) /\ v1.review.approvals \in Seq(V!Approval)
    BY DEF V!Typed, V!Ledger
  <2>2. v4 \in BOOLEAN /\ v5[p] \in Rules
    BY DEF V!TypeOK
  <2> QED
    BY <2>1, <2>2 DEF V!Typed, V!Revision
<1> HIDE DEF lost, next
<1>4. gone \subseteq 1 .. Len(candidate.review.approvals)
  <2>1. 1 .. Len(v1.review.approvals) \subseteq 1 .. Len(candidate.review.approvals)
    BY <1>3
  <2> QED
    BY <1>2, <2>1
<1>5. gone \in SUBSET Nat
  BY <1>3, <1>4
<1> HIDE DEF gone
<1>6. /\ v1' \in [content : V!Content, review : V!Ledger]
      /\ v1'.content = candidate.content
      /\ v1'.review.acks = candidate.review.acks
      /\ v1'.review.waivers = candidate.review.waivers
      /\ v1'.review.approvals = candidate.review.approvals
      /\ v1'.review.revoked = candidate.review.revoked
      /\ v1'.review.current = candidate.review.current
      /\ v1'.review.invalidated = gone
  BY <1>1, <1>3, <1>5 DEF V!Ledger
<1>7. /\ v2' \in Seq(V!Revision) /\ Len(v2') = Len(v2) + 1
      /\ \A i \in 1 .. Len(v2) : v2'[i] = v2[i]
      /\ v2'[Len(v2) + 1] = next
  BY <1>1, <1>3
<1>8. V!Typed'
  BY <1>6, <1>7 DEF V!Typed
<1>9. V!TypeOK'
  <2>1. v6' \in [Calls -> SUBSET (1 .. Len(v1'.review.approvals))]
    <3>1. 1 .. Len(v1.review.approvals) \subseteq 1 .. Len(v1'.review.approvals)
      BY <1>3, <1>6
    <3>2. v6 \in [Calls -> SUBSET (1 .. Len(v1.review.approvals))]
      BY DEF V!TypeOK
    <3> QED
      BY <1>1, <3>1, <3>2, SeenTypes
  <2>2. Len(v2') \in 1 .. ReviewRevisions
    BY <1>1, <1>3, <1>7, ReviewConstants DEF V!ReviewAssumption
  <2>3. v3' \in [by : Calls \cup {None}, scope : V!Scopes]
    BY <1>1
  <2>4. \A i \in 1 .. Len(v1'.review.approvals) :
          v1'.review.approvals[i].base \in 1 .. (Len(v2') - 1)
    BY <1>3, <1>6, <1>7
  <2>5. v1'.review.current \in 1 .. Len(v1'.review.approvals) \cup {0}
    BY <1>3, <1>6
  <2>6. v1'.review.revoked \cup v1'.review.invalidated
          \subseteq 1 .. Len(v1'.review.approvals)
    BY <1>4, <1>6
  <2>7. v1'.content \in V!Content /\ v4' \in BOOLEAN /\ v7' \in 0 .. MaxTurns
        /\ v5' \in [Calls -> Rules]
    BY <1>1, <1>3, <1>6 DEF V!TypeOK
  <2> QED
    BY <2>1, <2>2, <2>3, <2>4, <2>5, <2>6, <2>7 DEF V!TypeOK
<1> QED
  BY <1>1, <1>6, <1>7, <1>8, <1>9 DEF gone, lost, next, Committed

(* A commit that decides nothing anew: it leaves the approvals and the     *)
(* selection as they were.  What stands after it, it examined.             *)
LEMMA CommitKeepsReview ==
  ASSUME V!ReviewInv, NEW p \in Calls, NEW scope \in V!Scopes, NEW before, NEW candidate,
         candidate \in [content : V!Content, review : V!Ledger],
         before.review = v1.review,
         candidate.review.approvals = v1.review.approvals,
         candidate.review.current = v1.review.current,
         candidate.review.invalidated = v1.review.invalidated,
         v1.review.revoked \subseteq candidate.review.revoked,
         candidate.review.revoked \subseteq 1 .. Len(v1.review.approvals),
         V!finishMutation(p, scope, before, candidate)
  PROVE  /\ V!ReviewInv' /\ V!ApprovalTakes /\ V!SeenIsRecorded
         /\ V!Recorded' = candidate.content /\ v3'.scope = scope
<1> DEFINE k == v1.review.current
           n == Len(v2)
           a == v1.review.approvals[k]
<1>1. V!Typed /\ V!TypeOK /\ V!Grounded
  BY DEF V!ReviewInv
<1>2. /\ Len(v1.review.approvals) \in Nat /\ n \in Nat /\ n >= 1
      /\ k \in 0 .. Len(v1.review.approvals)
      /\ \A i \in 1 .. Len(v1.review.approvals) :
           v1.review.approvals[i].base \in 1 .. n /\ v1.review.approvals[i].base \in 1 .. (n - 1)
  <2>1. v1.review.approvals \in Seq(V!Approval) /\ v2 \in Seq(V!Revision)
    BY <1>1 DEF V!Typed, V!Ledger
  <2>2. Len(v1.review.approvals) \in Nat /\ n \in Nat
    BY <2>1
  <2>3. /\ n \in 1 .. ReviewRevisions /\ k \in 1 .. Len(v1.review.approvals) \cup {0}
        /\ \A i \in 1 .. Len(v1.review.approvals) : v1.review.approvals[i].base \in 1 .. (n - 1)
    BY <1>1 DEF V!TypeOK
  <2> QED
    BY <2>2, <2>3
<1>3. v1.review.revoked \cup v1.review.invalidated \subseteq 1 .. Len(v1.review.approvals)
  BY <1>1 DEF V!TypeOK
<1>4. /\ V!Typed' /\ V!TypeOK'
      /\ v1'.content = candidate.content
      /\ v1'.review.approvals = v1.review.approvals
      /\ v1'.review.revoked = candidate.review.revoked
      /\ v1'.review.current = k
      /\ v1'.review.invalidated = v1.review.invalidated
           \cup (IF V!LostBy(p, before, candidate) THEN {k} ELSE {})
      /\ Len(v2') = n + 1
      /\ \A i \in 1 .. n : v2'[i] = v2[i]
      /\ v2'[n + 1] = [content |-> candidate.content, at |-> v4, ruleSet |-> v5[p]]
      /\ v3' = [by |-> p, scope |-> scope]
  <2>1. Follows(candidate)
    BY <1>2, <1>3 DEF Follows
  <2>2. V!Typed' /\ V!TypeOK' /\ Committed(p, scope, before, candidate)
    BY <1>1, <2>1, CommitIs
  <2> QED
    BY <2>2 DEF Committed
<1>5. V!Recorded' = candidate.content /\ v3'.scope = scope
  BY <1>4 DEF V!Recorded
<1>6. V!ApprovalTakes
  BY <1>2, <1>4 DEF V!ApprovalTakes
(* If the approval still counts then the mutation found nothing.           *)
<1>7. k # 0 /\ k \notin v1'.review.revoked \cup v1'.review.invalidated =>
        /\ k \notin v1.review.revoked \cup v1.review.invalidated
        /\ ~V!Material(V!Reasons(candidate, k, v4, v5[p]))
        /\ k \notin V!Seen(p)
  BY <1>4 DEF V!LostBy
<1>8. V!SeenIsRecorded
  <2> SUFFICES ASSUME NEW q \in Calls, v3'.by = q, V!StatusFor(q)' = "approved"
               PROVE  v1'.review.current \notin v6[q]
    BY DEF V!SeenIsRecorded
  <2>1. q = p
    BY <1>4
  <2>2. k # 0 /\ k \notin v1'.review.revoked \cup v1'.review.invalidated
    BY <1>4, CurrentIs DEF V!StatusFor
  <2> QED
    BY <1>1, <1>4, <1>7, <2>1, <2>2, SeenTypes
<1>9. V!Grounded'
  <2> SUFFICES ASSUME k # 0, k \notin v1'.review.revoked \cup v1'.review.invalidated,
                      a.decision = "approved"
               PROVE  /\ V!planningHash(v2'[a.base].content) = a.planning
                      /\ \A i \in (a.base + 1)..Len(v2') :
                           /\ V!planningHash(v2'[i].content) = a.planning
                           /\ v2'[i].ruleSet = a.ruleSet
                           /\ v2'[i].content.required => v2'[i].at
    BY <1>4 DEF V!Grounded
  <2>1. /\ V!planningHash(v2[a.base].content) = a.planning
        /\ \A i \in (a.base + 1) .. n :
             /\ V!planningHash(v2[i].content) = a.planning
             /\ v2[i].ruleSet = a.ruleSet
             /\ v2[i].content.required => v2[i].at
    BY <1>1, <1>7 DEF V!Grounded
  <2>2. a.base \in 1 .. n
    BY <1>2
  <2>3. /\ V!planningHash(candidate.content) = a.planning /\ a.ruleSet = v5[p]
        /\ candidate.content.required => v4
    BY <1>7, ReasonsAre
  <2>4. ASSUME NEW i \in (a.base + 1) .. Len(v2')
        PROVE  /\ V!planningHash(v2'[i].content) = a.planning
               /\ v2'[i].ruleSet = a.ruleSet
               /\ v2'[i].content.required => v2'[i].at
    <3>1. CASE i = n + 1
      BY <1>4, <2>3, <3>1
    <3>2. CASE i # n + 1
      <4>1. i \in (a.base + 1) .. n /\ i \in 1 .. n
        BY <1>2, <1>4, <2>2, <3>2
      <4> QED
        BY <1>4, <2>1, <4>1
    <3> QED
      BY <3>1, <3>2
  <2> QED
    BY <1>4, <2>1, <2>2, <2>4
<1> QED
  BY <1>4, <1>5, <1>6, <1>8, <1>9 DEF V!ReviewInv

(* The gate of approve lets only decided warnings by, so what it records   *)
(* is current; and the decision it replaces is not the one it records.     *)
LEMMA ApproveKeepsReview ==
  ASSUME V!ReviewInv, NEW p \in Calls, NEW decision \in {"approved", "rejected"},
         NEW acks \in SUBSET v1.review.acks, NEW waivers \in SUBSET v1.review.waivers,
         V!approve(p, decision, acks, waivers)
  PROVE  V!ReviewInv' /\ V!ObligationsKept /\ V!ApprovalTakes /\ V!SeenIsRecorded
<1> DEFINE c == v1.content
           found == V!Findings(c, v4, v5[p])
           n == Len(v2)
           k == Len(v1.review.approvals) + 1
           a == [decision |-> decision, planning |-> V!planningHash(c), ruleSet |-> v5[p],
                 base |-> n, acks |-> acks, waivers |-> waivers]
           made == Append(v1.review.approvals, a)
           next == [v1 EXCEPT !.review.approvals = Append(@, a),
                              !.review.current = Len(v1.review.approvals) + 1]
<1>1. V!Typed /\ V!TypeOK /\ V!Grounded
  BY DEF V!ReviewInv
<1>2. /\ v1.review.approvals \in Seq(V!Approval) /\ k \in Nat /\ n \in Nat /\ n >= 1
      /\ v1.review \in V!Ledger /\ c \in V!Content
      /\ v2 \in Seq(V!Revision)
  <2>1. v1.review.approvals \in Seq(V!Approval) /\ v2 \in Seq(V!Revision)
    BY <1>1 DEF V!Typed, V!Ledger
  <2> QED
    BY <1>1, <2>1 DEF V!TypeOK, V!Typed
<1>3. /\ V!OnBase
      /\ decision = "approved" => \A f \in found : V!Warning(f) /\ V!Decided(f, a, c)
      /\ V!finishMutation(p, "decisions", v1, next)
  BY DEF V!approve
<1>4. a \in V!Approval
  <2>1. V!planningHash(c) \in V!Projection
    BY <1>2 DEF V!planningHash, V!Projection, V!Content
  <2>2. v5[p] \in Rules /\ acks \in SUBSET V!Ack /\ waivers \in SUBSET V!Waiver
    BY <1>1, <1>2 DEF V!TypeOK, V!Ledger
  <2> QED
    BY <1>2, <2>1, <2>2 DEF V!Approval
<1>5. /\ a.decision = decision /\ a.planning = V!planningHash(c) /\ a.ruleSet = v5[p] /\ a.base = n
  OBVIOUS
<1> HIDE DEF a
<1>6. /\ made \in Seq(V!Approval) /\ Len(made) = k /\ made[k] = a
      /\ \A i \in 1 .. Len(v1.review.approvals) : made[i] = v1.review.approvals[i]
  BY <1>2, <1>4
<1>7. /\ next \in [content : V!Content, review : V!Ledger]
      /\ next.content = c /\ next.review.approvals = made /\ next.review.current = k
      /\ next.review.revoked = v1.review.revoked
      /\ next.review.invalidated = v1.review.invalidated
  BY <1>1, <1>2, <1>6 DEF V!Typed, V!Ledger
<1> HIDE DEF made, next
<1>8. /\ v1.review.revoked \cup v1.review.invalidated \subseteq 1 .. Len(v1.review.approvals)
      /\ v1.review.current \in 0 .. Len(v1.review.approvals)
      /\ \A i \in 1 .. Len(v1.review.approvals) :
           v1.review.approvals[i].base \in 1 .. (n - 1)
  BY <1>1, <1>2 DEF V!TypeOK
<1>9. /\ Len(next.review.approvals) >= Len(v1.review.approvals)
      /\ next.review.revoked \cup next.review.invalidated \subseteq 1 .. Len(next.review.approvals)
      /\ next.review.current \in 0 .. Len(next.review.approvals)
      /\ \A i \in 1 .. Len(next.review.approvals) :
           next.review.approvals[i].base \in 1 .. Len(v2)
  <2>1. Len(v1.review.approvals) \in Nat
    BY <1>2
  <2>2. 1 .. Len(v1.review.approvals) \subseteq 1 .. k
    BY <2>1
  <2>3. ASSUME NEW i \in 1 .. k PROVE made[i].base \in 1 .. n
    <3>1. CASE i = k
      BY <1>2, <1>5, <1>6, <3>1
    <3>2. CASE i # k
      <4>1. i \in 1 .. Len(v1.review.approvals)
        BY <2>1, <3>2
      <4>2. v1.review.approvals[i].base \in 1 .. (n - 1)
        BY <1>8, <4>1
      <4> QED
        BY <1>2, <1>6, <4>1, <4>2
    <3> QED
      BY <3>1, <3>2
  <2> QED
    BY <1>6, <1>7, <1>8, <2>1, <2>2, <2>3
<1>10. /\ V!Typed' /\ V!TypeOK'
       /\ v1'.content = next.content
       /\ v1'.review.approvals = next.review.approvals
       /\ v1'.review.revoked = next.review.revoked
       /\ v1'.review.current = next.review.current
       /\ v1'.review.invalidated = next.review.invalidated
            \cup (IF V!LostBy(p, v1, next) THEN {v1.review.current} ELSE {})
       /\ Len(v2') = Len(v2) + 1
       /\ \A i \in 1 .. Len(v2) : v2'[i] = v2[i]
       /\ v2'[Len(v2) + 1] =
            [content |-> next.content, at |-> v4, ruleSet |-> v5[p]]
       /\ v3' = [by |-> p, scope |-> "decisions"]
       /\ v4' = v4 /\ v5' = v5
  <2>1. "decisions" \in V!Scopes
    BY DEF V!Scopes
  <2>2. Follows(next)
    BY <1>7, <1>9 DEF Follows
  <2>3. V!Typed' /\ V!TypeOK' /\ Committed(p, "decisions", v1, next)
    BY <1>1, <1>3, <2>1, <2>2, CommitIs
  <2> QED
    BY <2>3 DEF Committed
<1>11. k \notin v1'.review.revoked \cup v1'.review.invalidated
  BY <1>2, <1>7, <1>8, <1>10
<1>12. v1'.content = c /\ v1'.review.approvals[k] = a /\ v1'.review.current = k
  BY <1>6, <1>7, <1>10
<1>13. decision = "approved" => ~(c.required /\ ~v4)
  BY <1>3, FindingsAre DEF V!Warning
<1>14. V!ObligationsKept
  BY <1>10 DEF V!ObligationsKept
<1>15. V!ApprovalTakes
  <2> SUFFICES ASSUME decision = "approved" PROVE V!StatusFor(p)' = "approved"
    BY <1>5, <1>10, <1>12 DEF V!ApprovalTakes
  <2>1. V!Reasons(v1', k, v4, v5[p]) = {}
    BY <1>3, <1>5, <1>11, <1>12, <1>13, ReasonsAre
  <2> QED
    BY <1>2, <1>5, <1>10, <1>11, <1>12, <2>1, StatusIs DEF V!StatusFor
<1>16. V!SeenIsRecorded
  BY <1>1, <1>2, <1>12 DEF V!SeenIsRecorded, V!TypeOK
<1>17. V!Grounded'
  <2>1. v2[n].content = c
    BY <1>3 DEF V!OnBase, V!Recorded
  <2>2. \A i \in (n + 1) .. Len(v2') : i = n + 1
    BY <1>2, <1>10
  <2>3. v2'[n].content = c
    BY <1>2, <1>10, <2>1
  <2> QED
    BY <1>5, <1>7, <1>10, <1>12, <1>13, <2>2, <2>3 DEF V!Grounded
<1> QED
  BY <1>10, <1>14, <1>15, <1>16, <1>17 DEF V!ReviewInv

(* What commits nothing.                                                   *)
LEMMA NoCommitKeepsReview ==
  ASSUME V!ReviewInv, UNCHANGED <<v2, v3>>, v1'.review = v1.review,
         v1' \in [content : V!Content, review : V!Ledger], V!TypeOK'
  PROVE  V!ReviewInv' /\ V!ObligationsKept /\ V!ApprovalTakes /\ V!SeenIsRecorded
<1>1. Len(v2) \in Nat /\ Len(v1.review.approvals) \in Nat
  BY DEF V!ReviewInv, V!Typed, V!Ledger
<1>2. V!Typed' /\ V!Grounded'
  BY DEF V!ReviewInv, V!Typed, V!Grounded
<1>3. V!ObligationsKept /\ V!ApprovalTakes /\ V!SeenIsRecorded
  BY <1>1 DEF V!ObligationsKept, V!ApprovalTakes, V!SeenIsRecorded, V!Recorded
<1> QED
  BY <1>2, <1>3 DEF V!ReviewInv

LEMMA OutsideKeepsReview ==
  ASSUME V!ReviewInv,
         \/ \E p \in Calls : V!read(p) \/ \E version \in Rules : V!Reopen(p, version)
         \/ \E c \in V!Content : V!EditSource(c)
         \/ V!MoveAttachment
  PROVE  V!ReviewInv' /\ V!ObligationsKept /\ V!ApprovalTakes /\ V!SeenIsRecorded
<1>1. v1 \in [content : V!Content, review : V!Ledger] /\ V!TypeOK
  BY DEF V!ReviewInv, V!Typed
<1>2. v7 \in Nat /\ v7 < MaxTurns => v7 + 1 \in 0 .. MaxTurns
  BY ReviewConstants DEF V!ReviewAssumption
<1>3. ASSUME NEW p \in Calls, V!read(p) PROVE V!TypeOK' /\ UNCHANGED <<v2, v3, v1>>
  BY <1>1, <1>3, SeenTypes DEF V!read, V!TypeOK, V!ReviewInv
<1>4. ASSUME NEW p \in Calls, NEW version \in Rules, V!Reopen(p, version)
      PROVE  V!TypeOK' /\ UNCHANGED <<v2, v3, v1>>
  BY <1>1, <1>2, <1>4 DEF V!Reopen, V!Turn, V!TypeOK
<1>5. ASSUME NEW c \in V!Content, V!EditSource(c)
      PROVE  /\ V!TypeOK' /\ UNCHANGED <<v2, v3>> /\ v1'.review = v1.review
             /\ v1' \in [content : V!Content, review : V!Ledger]
  <2>1. v1' = [v1 EXCEPT !.content = c]
    BY <1>5 DEF V!EditSource
  <2>2. /\ v1' \in [content : V!Content, review : V!Ledger]
        /\ v1'.review = v1.review /\ v1'.content \in V!Content
    BY <1>1, <2>1
  <2> QED
    BY <1>1, <1>2, <1>5, <2>2 DEF V!EditSource, V!Turn, V!TypeOK
<1>6. ASSUME V!MoveAttachment PROVE V!TypeOK' /\ UNCHANGED <<v2, v3, v1>>
  BY <1>1, <1>2, <1>6 DEF V!MoveAttachment, V!Turn, V!TypeOK
<1> QED
  BY <1>1, <1>3, <1>4, <1>5, <1>6, NoCommitKeepsReview

(* A change of the content, whoever made it.                               *)
LEMMA ContentKeepsReview ==
  ASSUME V!ReviewInv, NEW p \in Calls, NEW scope \in V!Scopes,
         \/ \E c \in V!Content : V!evaluatePatch(p, scope, c)
         \/ \E i \in 1..ReviewRevisions : V!evaluateRestore(p, scope, i)
         \/ V!reconcile(p, scope)
  PROVE  V!ReviewInv' /\ V!ObligationsKept /\ V!ApprovalTakes /\ V!SeenIsRecorded
<1>1. v1 \in [content : V!Content, review : V!Ledger] /\ v1.review \in V!Ledger /\ V!TypeOK
      /\ v2 \in Seq(V!Revision) /\ Len(v2) \in Nat /\ Len(v2) >= 1
  BY DEF V!ReviewInv, V!Typed, V!TypeOK
<1>2. ASSUME NEW i \in 1 .. Len(v2) PROVE v2[i].content \in V!Content
  <2>1. v2[i] \in V!Revision
    BY <1>1
  <2> QED
    BY <2>1 DEF V!Revision
<1>3. ASSUME NEW c \in V!Content, V!OnBase, V!Permitted(scope, v1.content, c),
             V!finishMutation(p, scope, v1, [v1 EXCEPT !.content = c])
      PROVE  V!ReviewInv' /\ V!ObligationsKept /\ V!ApprovalTakes /\ V!SeenIsRecorded
  <2> DEFINE next == [v1 EXCEPT !.content = c]
  <2>1. /\ next \in [content : V!Content, review : V!Ledger]
        /\ next.content = c /\ next.review = v1.review
    BY <1>1
  <2>2. v1.review.revoked \subseteq 1 .. Len(v1.review.approvals)
    BY <1>1 DEF V!TypeOK
  <2> HIDE DEF next
  <2>3. /\ V!ReviewInv' /\ V!ApprovalTakes /\ V!SeenIsRecorded
        /\ V!Recorded' = next.content /\ v3'.scope = scope
    BY <1>3, <2>1, <2>2, CommitKeepsReview DEF next
  <2> QED
    BY <1>3, <2>1, <2>3 DEF V!ObligationsKept, V!Permitted, V!OnBase
<1>4. ASSUME NEW i \in 1..ReviewRevisions, V!evaluateRestore(p, scope, i)
      PROVE  V!ReviewInv' /\ V!ObligationsKept /\ V!ApprovalTakes /\ V!SeenIsRecorded
  <2>1. v2[i].content \in V!Content
    BY <1>1, <1>2, <1>4 DEF V!evaluateRestore
  <2> QED
    BY <1>3, <1>4, <2>1 DEF V!evaluateRestore
<1>5. ASSUME V!reconcile(p, scope)
      PROVE  V!ReviewInv' /\ V!ObligationsKept /\ V!ApprovalTakes /\ V!SeenIsRecorded
  <2> DEFINE before == [v1 EXCEPT !.content = V!Recorded]
  <2>1. before.review = v1.review
    BY <1>1
  <2>2. v1.review.revoked \subseteq 1 .. Len(v1.review.approvals)
    BY <1>1 DEF V!TypeOK
  <2>3. V!finishMutation(p, scope, before, v1)
    BY <1>5 DEF V!reconcile
  <2> HIDE DEF before
  <2>4. /\ V!ReviewInv' /\ V!ApprovalTakes /\ V!SeenIsRecorded
        /\ V!Recorded' = v1.content /\ v3'.scope = scope
    BY <1>1, <2>1, <2>2, <2>3, CommitKeepsReview
  <2> QED
    BY <1>5, <2>4 DEF V!reconcile, V!ObligationsKept, V!Permitted
<1> QED
  BY <1>3, <1>4, <1>5 DEF V!evaluatePatch

(* Decisions about findings, and a revocation.                             *)
LEMMA DecideKeepsReview ==
  ASSUME V!ReviewInv, NEW p \in Calls, V!Decide(p)
  PROVE  V!ReviewInv' /\ V!ObligationsKept /\ V!ApprovalTakes /\ V!SeenIsRecorded
<1>1. v1 \in [content : V!Content, review : V!Ledger] /\ v1.review \in V!Ledger /\ V!TypeOK
  BY DEF V!ReviewInv, V!Typed
<1>2. v1.review.revoked \subseteq 1 .. Len(v1.review.approvals)
      /\ Len(v1.review.approvals) \in Nat
  BY <1>1 DEF V!TypeOK, V!Ledger
<1>3. V!planningHash(v1.content) \in V!Projection
  BY <1>1 DEF V!planningHash, V!Projection, V!Content
<1>4. V!Findings(v1.content, v4, v5[p]) \subseteq V!Finding
  BY <1>1, FindingsAre DEF V!TypeOK
(* What a decision leaves of the ledger suffices.                          *)
<1>5. ASSUME NEW next, next \in [content : V!Content, review : V!Ledger],
             next.content = v1.content,
             next.review.approvals = v1.review.approvals,
             next.review.current = v1.review.current,
             next.review.invalidated = v1.review.invalidated,
             v1.review.revoked \subseteq next.review.revoked,
             next.review.revoked \subseteq 1 .. Len(v1.review.approvals),
             V!finishMutation(p, "decisions", v1, next)
      PROVE  V!ReviewInv' /\ V!ObligationsKept /\ V!ApprovalTakes /\ V!SeenIsRecorded
  <2>1. "decisions" \in V!Scopes
    BY DEF V!Scopes
  <2>2. V!ReviewInv' /\ V!ApprovalTakes /\ V!SeenIsRecorded /\ v3'.scope = "decisions"
    BY <1>5, <2>1, CommitKeepsReview
  <2> QED
    BY <2>2 DEF V!ObligationsKept
<1>6. ASSUME NEW f \in V!Finding, V!acknowledge(p, f)
      PROVE  V!ReviewInv' /\ V!ObligationsKept /\ V!ApprovalTakes /\ V!SeenIsRecorded
  <2> DEFINE k == [finding |-> f, planning |-> V!planningHash(v1.content)]
             next == [v1 EXCEPT !.review.acks = @ \cup {k}]
  <2>1. k \in V!Ack
    BY <1>3 DEF V!Ack
  <2>2. V!finishMutation(p, "decisions", v1, next)
    BY <1>6 DEF V!acknowledge
  <2> HIDE DEF k
  <2>3. /\ next \in [content : V!Content, review : V!Ledger]
        /\ next.content = v1.content
        /\ next.review.approvals = v1.review.approvals
        /\ next.review.current = v1.review.current
        /\ next.review.invalidated = v1.review.invalidated
        /\ next.review.revoked = v1.review.revoked
    BY <1>1, <2>1 DEF V!Ledger
  <2> HIDE DEF next
  <2> QED
    BY <1>2, <1>5, <2>2, <2>3
<1>7. ASSUME NEW f \in V!Finding, NEW cites \in BOOLEAN, V!waive(p, f, cites)
      PROVE  V!ReviewInv' /\ V!ObligationsKept /\ V!ApprovalTakes /\ V!SeenIsRecorded
  <2> DEFINE w == [finding |-> f, planning |-> V!planningHash(v1.content), cites |-> cites]
             next == [v1 EXCEPT !.review.waivers = @ \cup {w}]
  <2>1. w \in V!Waiver
    BY <1>3 DEF V!Waiver
  <2>2. V!finishMutation(p, "decisions", v1, next)
    BY <1>7 DEF V!waive
  <2> HIDE DEF w
  <2>3. /\ next \in [content : V!Content, review : V!Ledger]
        /\ next.content = v1.content
        /\ next.review.approvals = v1.review.approvals
        /\ next.review.current = v1.review.current
        /\ next.review.invalidated = v1.review.invalidated
        /\ next.review.revoked = v1.review.revoked
    BY <1>1, <2>1 DEF V!Ledger
  <2> HIDE DEF next
  <2> QED
    BY <1>2, <1>5, <2>2, <2>3
<1>8. ASSUME NEW i \in 1..Len(v1.review.approvals), V!revoke(p, i)
      PROVE  V!ReviewInv' /\ V!ObligationsKept /\ V!ApprovalTakes /\ V!SeenIsRecorded
  <2> DEFINE next == [v1 EXCEPT !.review.revoked = @ \cup {i}]
  <2>1. V!finishMutation(p, "decisions", v1, next)
    BY <1>8 DEF V!revoke
  <2>2. /\ next \in [content : V!Content, review : V!Ledger]
        /\ next.content = v1.content
        /\ next.review.approvals = v1.review.approvals
        /\ next.review.current = v1.review.current
        /\ next.review.invalidated = v1.review.invalidated
        /\ next.review.revoked = v1.review.revoked \cup {i}
    <3>1. v1.review.revoked \cup {i} \in SUBSET Nat
      BY <1>1 DEF V!Ledger
    <3> QED
      BY <1>1, <3>1 DEF V!Ledger
  <2> HIDE DEF next
  <2>3. v1.review.revoked \subseteq next.review.revoked
        /\ next.review.revoked \subseteq 1 .. Len(v1.review.approvals)
    BY <1>2, <2>2
  <2> QED
    BY <1>5, <2>1, <2>2, <2>3
<1> QED
  BY <1>4, <1>6, <1>7, <1>8, ApproveKeepsReview DEF V!Decide

LEMMA ReviewStarts == V!Init => V!ReviewInv
<1> SUFFICES ASSUME V!Init PROVE V!ReviewInv
  OBVIOUS
<1> DEFINE empty == [acks |-> {}, waivers |-> {}, approvals |-> <<>>, revoked |-> {},
                     invalidated |-> {}, current |-> 0]
<1>1. PICK c \in V!Content :
        /\ v1 = [content |-> c, review |-> empty]
        /\ v2 = <<[content |-> c, at |-> TRUE, ruleSet |-> FirstRules]>>
        /\ v3 = [by |-> None, scope |-> "decisions"]
        /\ v4 = TRUE /\ v5 = [p \in Calls |-> FirstRules]
        /\ v6 = [p \in Calls |-> {}] /\ v7 = 0
  BY DEF V!Init
<1>2. <<>> \in Seq(V!Approval) /\ Len(<<>>) = 0
  OBVIOUS
<1>3. empty \in V!Ledger /\ empty.approvals = <<>> /\ empty.current = 0
      /\ empty.revoked = {} /\ empty.invalidated = {}
  BY <1>2 DEF V!Ledger
<1> HIDE DEF empty
<1>4. V!Typed /\ Len(v2) = 1
  BY <1>1, <1>3, ReviewConstants DEF V!Typed, V!Revision, V!ReviewAssumption
<1>5. V!TypeOK
  BY <1>1, <1>2, <1>3, <1>4, ReviewConstants DEF V!TypeOK, V!ReviewAssumption, V!Scopes
<1>6. V!Grounded
  BY <1>1, <1>3 DEF V!Grounded
<1> QED
  BY <1>4, <1>5, <1>6 DEF V!ReviewInv

LEMMA ReviewNext ==
  ASSUME V!ReviewInv, V!Next
  PROVE  V!ReviewInv' /\ V!ObligationsKept /\ V!ApprovalTakes /\ V!SeenIsRecorded
BY ContentKeepsReview, DecideKeepsReview, OutsideKeepsReview DEF V!Next

(* What any tool shows as approved nobody took back, so it is grounded.    *)
LEMMA ReviewIsSafe == V!ReviewInv => V!CurrentAsReviewed
BY CurrentIs DEF V!ReviewInv, V!Grounded, V!CurrentAsReviewed, V!StatusFor

-----------------------------------------------------------------------------
(* One component runs, which is chosen in the initial state; the others    *)
(* leave it alone.                                                         *)

LEMMA OneRuns ==
  ASSUME [Next]_vars
  PROVE  /\ Is("files")' <=> Is("files")
         /\ Is("export")' <=> Is("export")
         /\ Is("evidence")' <=> Is("evidence")
         /\ Is("release")' <=> Is("release")
         /\ Is("review")' <=> Is("review")
         /\ Is("files") => F!Next \/ UNCHANGED F!svars
         /\ Is("export") => X!Next \/ UNCHANGED X!xvars
         /\ Is("evidence") => E!Next \/ UNCHANGED E!evars
         /\ Is("release") => R!Next \/ UNCHANGED R!rvars
         /\ Is("review") => V!Next \/ UNCHANGED V!rvars
<1>1. CASE Next
  <2>1. component' = component
    BY <1>1 DEF Next, MigrationStep, EvidenceStep, FileStep, ExportStep, ReviewStep, WizardStep,
                ReleaseStep, TerminalStep, DialogStep
  <2>2. Is("files") => F!Next
    BY <1>1 DEF Next, MigrationStep, EvidenceStep, FileStep, ExportStep, ReviewStep, WizardStep,
                ReleaseStep, TerminalStep, DialogStep, Is
  <2>3. Is("export") => X!Next
    BY <1>1 DEF Next, MigrationStep, EvidenceStep, FileStep, ExportStep, ReviewStep, WizardStep,
                ReleaseStep, TerminalStep, DialogStep, Is
  <2>4. Is("evidence") => E!Next
    BY <1>1 DEF Next, MigrationStep, EvidenceStep, FileStep, ExportStep, ReviewStep, WizardStep,
                ReleaseStep, TerminalStep, DialogStep, Is
  <2>5. Is("release") => R!Next
    BY <1>1 DEF Next, MigrationStep, EvidenceStep, FileStep, ExportStep, ReviewStep, WizardStep,
                ReleaseStep, TerminalStep, DialogStep, Is
  <2>6. Is("review") => V!Next
    BY <1>1 DEF Next, MigrationStep, EvidenceStep, FileStep, ExportStep, ReviewStep, WizardStep,
                ReleaseStep, TerminalStep, DialogStep, Is
  <2> QED
    BY <2>1, <2>2, <2>3, <2>4, <2>5, <2>6 DEF Is
<1>2. CASE UNCHANGED vars
  BY <1>2 DEF vars, Is, F!svars, X!xvars, E!evars, R!rvars, V!rvars
<1> QED
  BY <1>1, <1>2

LEMMA Stuttering ==
  /\ F!RootInv /\ UNCHANGED F!svars => F!RootInv'
  /\ X!ExportInv /\ UNCHANGED X!xvars => X!ExportInv'
  /\ E!EvidenceInv /\ UNCHANGED E!evars => E!EvidenceInv'
  /\ R!ReleaseInv /\ UNCHANGED R!rvars => R!ReleaseInv'
  /\ V!ReviewInv /\ UNCHANGED V!rvars =>
       V!ReviewInv' /\ V!ObligationsKept /\ V!ApprovalTakes /\ V!SeenIsRecorded
<1>1. ASSUME F!RootInv, UNCHANGED F!svars PROVE F!RootInv'
  <2>1. F!Closable' /\ (v6' # {} => v5')
    BY <1>1 DEF F!svars, F!RootInv, F!Closable
  <2> QED
    BY <1>1, <2>1, ClosingKeepsRoot DEF F!svars
<1>2. ASSUME X!ExportInv, UNCHANGED X!xvars PROVE X!ExportInv'
  <2>1. \A c \in Calls : X!Works(c)'
    BY <1>2, WorkGoesOn DEF X!xvars
  <2>2. X!TypeOK' /\ X!PackageFaithful'
    BY <1>2 DEF X!xvars, X!ExportInv, X!TypeOK, X!PackageFaithful
  <2> QED
    BY <1>2, <2>1, <2>2 DEF X!xvars, X!ExportInv
<1>3. ASSUME E!EvidenceInv, UNCHANGED E!evars PROVE E!EvidenceInv'
  <2> USE <1>3 DEF E!evars
  <2>1. SelectionKept /\ StagedKept /\ \A u \in Items : v2'[u] = E!Unused \/ E!Selected(u)'
    BY DEF SelectionKept, StagedKept, E!Selected, E!Staged, E!EvidenceInv
  <2>2. \A m \in Mutations : E!Named(m)'
    BY <2>1, NamedStays
  <2>3. \A c \in Calls : E!Progressing(c)'
    BY <2>1, ProgressStays
  <2>4. BusyWorks'
    BY DEF BusyWorks, E!EvidenceInv
  <2> QED
    BY <2>1, <2>2, <2>3, <2>4, EvidenceTypes, EvidenceTogether
<1>4. ASSUME R!ReleaseInv, UNCHANGED R!rvars PROVE R!ReleaseInv'
  <2> USE <1>4 DEF R!rvars
  <2>1. R!Typed'
    BY DEF R!ReleaseInv, R!Typed
  <2>2. \A c \in Calls : R!Located(c)' /\ R!Checked(c)'
    BY DEF R!ReleaseInv, R!Located, R!Checked, R!Holds, R!Dir, R!At
  <2>3. \A u \in Items : R!Settled(u)'
    BY DEF R!ReleaseInv, R!Settled, R!Genuine
  <2> QED
    BY <2>1, <2>2, <2>3 DEF R!ReleaseInv
<1>5. ASSUME V!ReviewInv, UNCHANGED V!rvars
      PROVE  V!ReviewInv' /\ V!ObligationsKept /\ V!ApprovalTakes /\ V!SeenIsRecorded
  <2>1. v1 \in [content : V!Content, review : V!Ledger] /\ V!TypeOK
    BY <1>5 DEF V!ReviewInv, V!Typed
  <2>2. V!TypeOK'
    BY <1>5, <2>1 DEF V!rvars, V!TypeOK
  <2> QED
    BY <1>5, <2>1, <2>2, NoCommitKeepsReview DEF V!rvars
<1> QED
  BY <1>1, <1>2, <1>3, <1>4, <1>5

(* What the services that keep files and reviews rest on, each while it is *)
(* the one that runs.                                                      *)
KeeperInv ==
  /\ Is("files") => F!RootInv
  /\ Is("export") => X!ExportInv
  /\ Is("evidence") => E!EvidenceInv
  /\ Is("release") => R!ReleaseInv
  /\ Is("review") => V!ReviewInv

(* The inductive invariant of confined files, export, evidence, the cache  *)
(* of releases and the ledger of reviews, for any number of operations,    *)
(* calls, uploads, names, runtimes, processes, sessions and decisions.     *)
THEOREM KeeperInvariance == Spec => []KeeperInv
<1>1. Init => KeeperInv
  <2> SUFFICES ASSUME Init PROVE KeeperInv
    OBVIOUS
  <2>1. /\ Is("files") => F!Init
        /\ Is("export") => X!Init
        /\ Is("evidence") => E!Init
        /\ Is("release") => R!Init
        /\ Is("review") => V!Init
    BY DEF Init, Is
  <2> QED
    BY <2>1, RootStarts, ExportStarts, EvidenceStarts, ReleaseStarts, ReviewStarts
       DEF KeeperInv
<1>2. KeeperInv /\ [Next]_vars => KeeperInv'
  <2> SUFFICES ASSUME KeeperInv, [Next]_vars PROVE KeeperInv'
    OBVIOUS
  <2>1. Is("files")' => F!RootInv'
    BY OneRuns, Stuttering, RootNext DEF KeeperInv
  <2>2. Is("export")' => X!ExportInv'
    BY OneRuns, Stuttering, ExportNext DEF KeeperInv
  <2>3. Is("evidence")' => E!EvidenceInv'
    BY OneRuns, Stuttering, EvidenceNext DEF KeeperInv
  <2>4. Is("release")' => R!ReleaseInv'
    BY OneRuns, Stuttering, ReleaseNext DEF KeeperInv
  <2>5. Is("review")' => V!ReviewInv'
    BY OneRuns, Stuttering, ReviewNext DEF KeeperInv
  <2> QED
    BY <2>1, <2>2, <2>3, <2>4, <2>5 DEF KeeperInv
<1> QED
  BY <1>1, <1>2, PTL DEF Spec

(* SafeRoot: a file is never replaced while it is read or by two at once,  *)
(* and nothing stays open or queued when nothing runs, whatever fails and  *)
(* whenever the root is closed or moved away.                              *)
THEOREM FilesAreSafe == Spec => []FilesSafe
<1>1. KeeperInv => FilesSafe
  BY RootIsSafe DEF KeeperInv, FilesSafe
<1> QED
  BY <1>1, KeeperInvariance, PTL

(* Export: a published package is whole, its documents are of the revision *)
(* that the preview it was persisted for froze, and its attachment is the  *)
(* declared one, although the source and the attachment change and change  *)
(* back while they are verified and copied.                                *)
THEOREM PackagesAreFaithful == Spec => []PackageFaithful
<1>1. KeeperInv => PackageFaithful
  BY DEF KeeperInv, PackageFaithful, X!ExportInv
<1> QED
  BY <1>1, KeeperInvariance, PTL

(* Evidence: no call takes or removes the part that another is writing,    *)
(* and a committed, journaled or proposed record has its selected bytes on *)
(* the disk at every moment, also after the process died.                  *)
THEOREM EvidenceStaysSafe == Spec => []EvidenceSafe
<1>1. KeeperInv => EvidenceSafe
  BY EvidenceIsSafe DEF KeeperInv, EvidenceSafe
<1> QED
  BY <1>1, KeeperInvariance, PTL

(* Release: a runtime that installing or listing answers, unless its files *)
(* change meanwhile, is one release of the publisher, all of it and        *)
(* nothing else; and so is a cached runtime that has its receipt and was   *)
(* not damaged, whenever downloads are aborted and processes die.          *)
THEOREM RuntimesAreSigned == Spec => []RuntimeIsSigned
<1>1. KeeperInv => RuntimeIsSigned
  BY ReleaseIsSigned DEF KeeperInv, RuntimeIsSigned
<1> QED
  BY <1>1, KeeperInvariance, PTL

(* Review: an approval that any tool shows as current was given on this    *)
(* planning content, and every revision since kept its ground; obligations *)
(* leave only under the scope for decisions; an approval is current as     *)
(* soon as it is recorded; and what a session saw invalid it records.      *)
THEOREM ReviewsAreHeld == Spec => ReviewsHold
<1>1. KeeperInv => (Is("review") => V!CurrentAsReviewed)
  BY ReviewIsSafe DEF KeeperInv
<1>2. KeeperInv /\ [Next]_vars =>
        [Is("review") => V!ObligationsKept /\ V!ApprovalTakes /\ V!SeenIsRecorded]_vars
  BY OneRuns, Stuttering, ReviewNext DEF KeeperInv
<1> QED
  BY <1>1, <1>2, KeeperInvariance, PTL DEF Spec, ReviewsHold
=============================================================================

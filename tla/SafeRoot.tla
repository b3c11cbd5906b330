------------------------------ MODULE SafeRoot ------------------------------
(***************************************************************************)
(* One pinned project root: buffered reads and replacements of its files   *)
(* take turns for each path (FileAccess), and every handle is registered   *)
(* so that close can close it.  Operations interleave at every await, and  *)
(* the root may be closed, or its directory replaced, in the middle.       *)
(***************************************************************************)
EXTENDS Integers, Sequences, FiniteSets

CONSTANTS
  Ops,           \* operations that run at the same time
  Paths,         \* files of the project
  MaxOps,        \* bound: operations that are started
  NoOp

(* What the constants are taken to be.                                     *)
OpsAssumption == MaxOps \in Nat /\ NoOp \notin Ops /\ Paths # {}

VARIABLES
  tails,         \* FileAccess.#tails: the last operation that queued on a path
  ops,           \* what each operation is doing
  handles,       \* SafeRoot.#handles
  open,          \* operations whose file descriptor the system holds
  closed,        \* SafeRoot.#closed
  closing,       \* handles that close() has still to close
  pinned,        \* whether the path still leads to the pinned directory
  opsStarted

svars == <<tails, ops, handles, open, closed, closing, pinned, opsStarted>>

Free == [pc |-> "idle", kind |-> "read", path |-> CHOOSE p \in Paths : TRUE, previous |-> NoOp]

Init ==
  /\ tails = [p \in Paths |-> NoOp]
  /\ ops = [o \in Ops |-> Free]
  /\ handles = {}
  /\ open = {}
  /\ closed = FALSE
  /\ closing = {}
  /\ pinned = TRUE
  /\ opsStarted = 0

-----------------------------------------------------------------------------
At(o, pc) == ops[o].pc = pc
Goto(o, pc) == ops' = [ops EXCEPT ![o].pc = pc]
Path(o) == ops[o].path
root == <<closed, closing, pinned>>

(* #checkRoot *)
Usable == pinned /\ ~closed

(* FileAccess.run: the operation becomes the tail and awaits the previous. *)
Run(o, kind, p) ==
  /\ At(o, "idle")
  /\ opsStarted < MaxOps
  /\ opsStarted' = opsStarted + 1
  /\ ops' = [ops EXCEPT ![o] = [pc |-> "wait", kind |-> kind, path |-> p, previous |-> tails[p]]]
  /\ tails' = [tails EXCEPT ![p] = o]
  /\ UNCHANGED <<handles, open, root>>

(* The operation that resolved a promise tells every one that awaits it.   *)
Turn(o) ==
  /\ At(o, "wait")
  /\ ops[o].previous = NoOp
  /\ Goto(o, IF Usable THEN "checked" ELSE "release")
  /\ UNCHANGED <<tails, handles, open, root, opsStarted>>

(* #openFile opens what it inspected, inspects again, and registers.       *)
OpenFile(o) ==
  /\ At(o, "checked")
  /\ ops[o].kind = "read"
  /\ open' = open \cup {o}
  /\ Goto(o, "opened")
  /\ UNCHANGED <<tails, handles, root, opsStarted>>

Inspect(o) ==
  /\ At(o, "opened")
  /\ Usable
  /\ Goto(o, "register")
  /\ UNCHANGED <<tails, handles, open, root, opsStarted>>

Abandons(o) == open \ {o}

InspectFailed(o) ==
  /\ At(o, "opened")
  /\ ~Usable
  /\ open' = Abandons(o)
  /\ Goto(o, "release")
  /\ UNCHANGED <<tails, handles, root, opsStarted>>

Register(o) ==
  /\ At(o, "register")
  /\ handles' = handles \cup {o}
  /\ Goto(o, "reading")
  /\ UNCHANGED <<tails, open, root, opsStarted>>

(* readChunk, guarded before and after; the caller closes in any case.     *)
Read(o) ==
  /\ At(o, "reading")
  /\ Goto(o, "closeFile")
  /\ UNCHANGED <<tails, handles, open, root, opsStarted>>

CloseFile(o) ==
  /\ At(o, "closeFile")
  /\ IF o \in handles THEN handles' = handles \ {o} /\ open' = open \ {o}
     ELSE UNCHANGED <<handles, open>>
  /\ Goto(o, "release")
  /\ UNCHANGED <<tails, root, opsStarted>>

(* renameReplace *)
Replace(o) ==
  /\ At(o, "checked")
  /\ ops[o].kind = "replace"
  /\ Goto(o, "replacing")
  /\ UNCHANGED <<tails, handles, open, root, opsStarted>>

Replaced(o) ==
  /\ At(o, "replacing")
  /\ Goto(o, "release")
  /\ UNCHANGED <<tails, handles, open, root, opsStarted>>

(* Mutant: the entry of the path is dropped whoever queued meanwhile.      *)
DropsTail(o) == TRUE
IsTail(o) == tails[Path(o)] = o

Release(o) ==
  /\ At(o, "release")
  /\ tails' = IF IsTail(o) THEN [tails EXCEPT ![Path(o)] = NoOp] ELSE tails
  /\ ops' = [q \in Ops |-> IF q = o THEN Free
                           ELSE IF ops[q].previous = o THEN [ops[q] EXCEPT !.previous = NoOp]
                           ELSE ops[q]]
  /\ UNCHANGED <<handles, open, root, opsStarted>>

-----------------------------------------------------------------------------
(* close() takes the handles that are registered when it is called.        *)
Close ==
  /\ ~closed
  /\ closed' = TRUE
  /\ closing' = handles
  /\ UNCHANGED <<tails, ops, handles, open, pinned, opsStarted>>

CloseHandle(o) ==
  /\ o \in closing
  /\ closing' = closing \ {o}
  /\ IF o \in handles THEN handles' = handles \ {o} /\ open' = open \ {o}
     ELSE UNCHANGED <<handles, open>>
  /\ UNCHANGED <<tails, ops, closed, pinned, opsStarted>>

(* Somebody moves the project folder away, and perhaps back.               *)
Move == /\ pinned' = ~pinned
        /\ UNCHANGED <<tails, ops, handles, open, closed, closing, opsStarted>>

Step(o) == \/ Turn(o) \/ OpenFile(o) \/ Inspect(o) \/ InspectFailed(o) \/ Register(o)
           \/ Read(o) \/ CloseFile(o) \/ Replace(o) \/ Replaced(o) \/ Release(o)
           \/ CloseHandle(o)

Next == \/ \E o \in Ops :
             \/ Step(o)
             \/ \E kind \in {"read", "replace"}, p \in Paths : Run(o, kind, p)
        \/ Close \/ Move

Spec == Init /\ [][Next]_svars

-----------------------------------------------------------------------------
(* The queue of a path is linked by "previous", its last member is the     *)
(* tail; registered handles are open.                                      *)
TypeOK ==
  /\ tails \in [Paths -> Ops \cup {NoOp}]
  /\ \A p \in Paths : tails[p] # NoOp => ~At(tails[p], "idle") /\ Path(tails[p]) = p
  /\ \A o \in Ops : ops[o].previous # NoOp =>
       At(o, "wait") /\ ~At(ops[o].previous, "idle") /\ Path(ops[o].previous) = Path(o)
  /\ handles \subseteq open
  /\ closing # {} => closed
  /\ opsStarted \in 0..MaxOps

(* A file is never replaced while a buffered read of it is in progress,    *)
(* nor by two operations at once, although operations queue, finish and    *)
(* fail in any order: on Windows the rename would fail.                    *)
TurnsExclude ==
  \A o, q \in Ops : o # q /\ Path(o) = Path(q)
    => {ops[o].pc, ops[q].pc} \cap {"idle", "wait"} # {}

(* When nothing runs, no file descriptor is left open, and no path is left *)
(* in the map, whether operations failed or the root was closed meanwhile. *)
NothingLeaks ==
  (\A o \in Ops : At(o, "idle")) => open = {} /\ \A p \in Paths : tails[p] = NoOp

-----------------------------------------------------------------------------
(* The inductive invariant behind both: the operations of a path stand in  *)
(* one queue, each behind the one that it awaits, and an open descriptor   *)
(* is of an operation that is going to close it, itself or through its     *)
(* handle.                                                                 *)
Stages == {"idle", "wait", "checked", "opened", "register", "reading", "closeFile",
           "replacing", "release"}

Typed ==
  ops \in [Ops -> [pc : Stages, kind : {"read", "replace"}, path : Paths, previous : Ops \cup {NoOp}]]

InQueue(o, queue) == \E k \in 1..Len(queue) : queue[k] = o

InLine(p, queue) ==
  /\ tails[p] = IF queue = <<>> THEN NoOp ELSE queue[Len(queue)]
  /\ \A k \in 1..Len(queue) :
       /\ Path(queue[k]) = p /\ ~At(queue[k], "idle")
       /\ ops[queue[k]].previous = IF k = 1 THEN NoOp ELSE queue[k - 1]
       /\ k > 1 => At(queue[k], "wait")
  /\ \A k, l \in 1..Len(queue) : queue[k] = queue[l] => k = l

QueueOf(p, queue) ==
  /\ InLine(p, queue)
  /\ \A o \in Ops : Path(o) = p /\ ~At(o, "idle") => InQueue(o, queue)

Queues == \A p \in Paths : \E queue \in Seq(Ops) : QueueOf(p, queue)

Closable ==
  /\ handles \subseteq open /\ open \subseteq Ops
  /\ \A o \in open : ops[o].pc \in {"opened", "register", "reading", "closeFile"}
  /\ \A o \in open : o \in handles <=> ops[o].pc \in {"reading", "closeFile"}
  /\ \A o \in Ops : ops[o].pc \in {"opened", "register"} => o \in open

RootInv ==
  /\ tails \in [Paths -> Ops \cup {NoOp}]
  /\ Typed
  /\ \A o \in Ops : At(o, "idle") => ops[o].previous = NoOp
  /\ Queues
  /\ Closable
  /\ closing # {} => closed
  /\ opsStarted \in 0..MaxOps
=============================================================================

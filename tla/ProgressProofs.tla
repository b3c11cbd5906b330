--------------------------- MODULE ProgressProofs ---------------------------
(* Proofs about the three components of MCProgress: any number of lock     *)
(* processes and of requests, projects that are opened and folders that    *)
(* cannot be closed, and whatever the launched child sends.                *)
EXTENDS MCProgress, ProjectLockProofs, SequenceTheorems

-----------------------------------------------------------------------------
(* The project service                                                     *)

Requested == [pc : {"idle", "body", "run", "queued", "attach", "drain", "close"}, kind : S!Kinds,
              epoch : 0 .. MaxEpochs, on : 0 .. MaxEpochs]

Opens(r) == requests[r].pc \in {"queued", "attach", "drain", "close"}
Among(r, s) == \E k \in 1 .. Len(s) : s[k] = r
Distinct(s) == \A i, j \in 1 .. Len(s) : s[i] = s[j] => i = j

ServiceTyped ==
  /\ server \in {"listening", "closing", "closed"} /\ consumed \in BOOLEAN /\ expired \in BOOLEAN
  /\ requests \in [Procs -> Requested]
  /\ arrivals \in 0 .. MaxArrivals /\ failures \in 0 .. MaxFailures
  /\ sessions \in {0, 1} /\ (sessions = 0 \/ consumed)

(* An open waits in the queue exactly once, and only the first one works.  *)
Queue ==
  /\ selection \in Seq(Procs) /\ Distinct(selection)
  /\ \A r \in Procs : Opens(r) <=> Among(r, selection)
  /\ \A r \in Procs : requests[r].pc \in {"attach", "drain", "close"} => S!First(r)

(* Once the next project is ready the present one takes no more requests,  *)
(* so that nothing runs on it any more when its root is closed.            *)
Projects ==
  /\ status = epoch /\ epoch \in 0 .. MaxEpochs /\ current \in {0, epoch}
  /\ closedRoots \subseteq closing /\ closing \subseteq 1 .. MaxEpochs
  /\ \A r \in Procs : requests[r].pc \in {"drain", "close"} =>
       epoch < MaxEpochs /\ (current = 0 \/ current \in closing)
  /\ \A r \in Procs : requests[r].pc = "close" => S!Busy(current) = {}
  /\ \A r \in Procs : requests[r].pc = "run" =>
       /\ requests[r].on = requests[r].epoch
       /\ requests[r].on # 0 /\ requests[r].on \notin closedRoots

ServiceInv == ServiceTyped /\ Queue /\ Projects

LEMMA QuietTyped ==
  S!Quiet \in Requested /\ S!Quiet.pc = "idle"
BY ServiceAssumption DEF S!Quiet, S!None, S!Kinds, S!ServiceBounds, Requested

(* The queue of opens.                                                     *)
LEMMA Joins ==
  ASSUME NEW s \in Seq(Procs), NEW r \in Procs, Distinct(s), ~Among(r, s)
  PROVE  /\ Append(s, r) \in Seq(Procs) /\ Distinct(Append(s, r))
         /\ \A q \in Procs : Among(q, Append(s, r)) <=> q = r \/ Among(q, s)
         /\ s # <<>> => Append(s, r) # <<>> /\ Head(Append(s, r)) = Head(s)
<1> DEFINE t == Append(s, r)
<1>1. /\ t \in Seq(Procs) /\ Len(t) = Len(s) + 1 /\ Len(s) \in Nat /\ t[Len(t)] = r
      /\ \A k \in 1 .. Len(s) : t[k] = s[k]
  OBVIOUS
<1> HIDE DEF t
<1>2. Distinct(t)
  BY <1>1 DEF Distinct, Among
<1>3. ASSUME NEW q \in Procs PROVE Among(q, t) <=> q = r \/ Among(q, s)
  BY <1>1 DEF Among
<1>4. s # <<>> => t # <<>> /\ Head(t) = Head(s)
  BY <1>1
<1> QED
  BY <1>1, <1>2, <1>3, <1>4 DEF t

LEMMA Leaves ==
  ASSUME NEW s \in Seq(Procs), Distinct(s), s # <<>>
  PROVE  /\ Tail(s) \in Seq(Procs) /\ Distinct(Tail(s)) /\ Among(Head(s), s)
         /\ \A q \in Procs : Among(q, Tail(s)) <=> q # Head(s) /\ Among(q, s)
<1> DEFINE t == Tail(s)
<1>1. /\ t \in Seq(Procs) /\ Len(t) = Len(s) - 1 /\ Len(s) \in Nat \ {0} /\ Head(s) = s[1]
      /\ \A k \in 1 .. Len(t) : t[k] = s[k + 1]
  OBVIOUS
<1> HIDE DEF t
<1>2. Distinct(t)
  BY <1>1 DEF Distinct
<1>3. ASSUME NEW q \in Procs PROVE Among(q, t) <=> q # Head(s) /\ Among(q, s)
  <2>1. ASSUME Among(q, t) PROVE q # Head(s) /\ Among(q, s)
    <3>1. PICK k \in 1 .. Len(t) : t[k] = q
      BY <2>1 DEF Among
    <3>2. k + 1 \in 1 .. Len(s) /\ s[k + 1] = q /\ k + 1 # 1
      BY <1>1, <3>1
    <3> QED
      BY <1>1, <3>2 DEF Among, Distinct
  <2>2. ASSUME q # Head(s), Among(q, s) PROVE Among(q, t)
    <3>1. PICK k \in 1 .. Len(s) : s[k] = q
      BY <2>2 DEF Among
    <3>2. k - 1 \in 1 .. Len(t) /\ t[k - 1] = q
      BY <1>1, <2>2, <3>1
    <3> QED
      BY <3>2 DEF Among
  <2> QED
    BY <2>1, <2>2
<1>4. Among(Head(s), s)
  BY <1>1 DEF Among
<1> QED
  BY <1>1, <1>2, <1>3, <1>4 DEF t

-----------------------------------------------------------------------------
(* Steps of the service                                                    *)

LEMMA ServiceStarts == ASSUME S!Init PROVE ServiceInv
<1>1. /\ requests \in [Procs -> Requested] /\ \A r \in Procs : requests[r].pc = "idle"
      /\ selection = <<>> /\ current = 0 /\ epoch = 0 /\ status = 0 /\ closing = {} /\ closedRoots = {}
  BY QuietTyped DEF S!Init, S!None
<1>2. ServiceTyped
  <2>1. arrivals \in 0 .. MaxArrivals /\ failures \in 0 .. MaxFailures /\ sessions = 0
    BY ServiceAssumption DEF S!Init, S!ServiceBounds
  <2>2. server = "listening" /\ consumed = FALSE /\ expired = FALSE
    BY DEF S!Init
  <2> QED
    BY <1>1, <2>1, <2>2 DEF ServiceTyped
<1>3. Queue
  BY <1>1 DEF Queue, Distinct, Among, Opens
<1>4. Projects
  BY <1>1, ServiceAssumption DEF Projects, S!ServiceBounds
<1> QED
  BY <1>2, <1>3, <1>4 DEF ServiceInv

(* Where a request may go, and what is left alone when it does.            *)
LEMMA RequestMoves ==
  ASSUME ServiceInv, NEW r \in Procs
  PROVE  /\ requests \in [Procs -> Requested] /\ requests[r] \in Requested
         /\ S!Answer(r) => /\ requests' \in [Procs -> Requested] /\ requests'[r].pc = "idle"
                           /\ \A q \in Procs \ {r} : requests'[q] = requests[q]
         /\ \A place \in {"queued", "attach", "drain", "close"} : S!Goto(r, place) =>
              /\ requests' \in [Procs -> Requested] /\ requests'[r].pc = place
              /\ \A q \in Procs \ {r} : requests'[q] = requests[q]
<1>1. requests \in [Procs -> Requested] /\ requests[r] \in Requested
  BY DEF ServiceInv, ServiceTyped
<1>2. ASSUME S!Answer(r)
      PROVE  /\ requests' \in [Procs -> Requested] /\ requests'[r].pc = "idle"
             /\ \A q \in Procs \ {r} : requests'[q] = requests[q]
  BY <1>1, <1>2, QuietTyped DEF S!Answer
<1>3. ASSUME NEW place \in {"queued", "attach", "drain", "close"}, S!Goto(r, place)
      PROVE  /\ requests' \in [Procs -> Requested] /\ requests'[r].pc = place
             /\ \A q \in Procs \ {r} : requests'[q] = requests[q]
  <2> DEFINE y == [requests[r] EXCEPT !.pc = place]
  <2>1. y \in Requested /\ y.pc = place
    BY <1>1 DEF Requested
  <2>2. requests' = [requests EXCEPT ![r] = y]
    BY <1>3 DEF S!Goto
  <2> HIDE DEF y
  <2> QED
    BY <1>1, <2>1, <2>2
<1> QED
  BY <1>1, <1>2, <1>3

(* A request arrives; a project operation starts.                          *)
LEMMA Arrives ==
  ASSUME ServiceInv, NEW r \in Procs, NEW kind \in S!Kinds, NEW header, S!Arrive(r, kind, header)
  PROVE  /\ requests' \in [Procs -> Requested] /\ requests'[r].pc = "body"
         /\ \A q \in Procs \ {r} : requests'[q] = requests[q]
<1> DEFINE y == [pc |-> "body", kind |-> kind, epoch |-> status, on |-> S!None]
<1>1. y \in Requested /\ y.pc = "body"
  BY ServiceAssumption DEF Requested, ServiceInv, Projects, S!None, S!ServiceBounds
<1>2. requests' = [requests EXCEPT ![r] = y]
  BY DEF S!Arrive
<1> HIDE DEF y
<1> QED
  BY <1>1, <1>2, RequestMoves

LEMMA Uses ==
  ASSUME ServiceInv, NEW r \in Procs, S!Use(r)
  PROVE  /\ requests' \in [Procs -> Requested] /\ requests'[r].pc = "run"
         /\ requests'[r].on = current /\ requests'[r].epoch = requests[r].epoch
         /\ \A q \in Procs \ {r} : requests'[q] = requests[q]
<1> DEFINE y == [requests[r] EXCEPT !.pc = "run", !.on = current]
<1>1. y \in Requested /\ y.pc = "run" /\ y.on = current /\ y.epoch = requests[r].epoch
  <2>1. current \in 0 .. MaxEpochs
    BY ServiceAssumption DEF ServiceInv, Projects, S!ServiceBounds
  <2> QED
    BY <2>1, RequestMoves DEF Requested
<1>2. requests' = [requests EXCEPT ![r] = y]
  BY DEF S!Use
<1> HIDE DEF y
<1> QED
  BY <1>1, <1>2, RequestMoves

LEMMA ServiceTypedStep == ASSUME ServiceInv, S!Next PROVE ServiceTyped'
<1> USE DEF ServiceTyped, S!link, S!project
<1>1. ServiceTyped
  BY DEF ServiceInv
<1>2. ASSUME NEW r \in Procs, S!Answer(r), UNCHANGED <<server, consumed, expired, sessions, arrivals>>,
             failures' \in 0 .. MaxFailures
      PROVE  ServiceTyped'
  BY <1>1, <1>2, RequestMoves
<1>3. ASSUME NEW r \in Procs,
             S!BodyLost(r) \/ S!ExchangeRefused(r) \/ S!UseRefused(r) \/ S!Finish(r)
             \/ S!OpenRefused(r) \/ S!OpenFailed(r) \/ S!Switch(r)
      PROVE  ServiceTyped'
  BY <1>1, <1>2, <1>3 DEF S!BodyLost, S!ExchangeRefused, S!UseRefused, S!Finish, S!OpenRefused, S!OpenFailed, S!Switch
<1>4. ASSUME NEW r \in Procs, S!SwitchFailed(r) PROVE ServiceTyped'
  <2>1. failures' \in 0 .. MaxFailures
    BY <1>1, <1>4, ServiceAssumption DEF S!SwitchFailed, S!ServiceBounds
  <2> QED
    BY <1>2, <1>4, <2>1 DEF S!SwitchFailed
<1>5. ASSUME NEW r \in Procs, S!Exchange(r) PROVE ServiceTyped'
  BY <1>1, <1>5, RequestMoves DEF S!Exchange, S!LinkGood
<1>6. ASSUME NEW r \in Procs, NEW place \in {"queued", "attach", "drain", "close"}, S!Goto(r, place),
             UNCHANGED <<server, consumed, expired, sessions, arrivals, failures>>
      PROVE  ServiceTyped'
  BY <1>1, <1>6, RequestMoves
<1>7. ASSUME NEW r \in Procs, S!Enqueue(r) \/ S!OpenRoot(r) \/ S!Attach(r) \/ S!Drain(r) PROVE ServiceTyped'
  BY <1>6, <1>7 DEF S!Enqueue, S!OpenRoot, S!Attach, S!Drain
<1>8. ASSUME NEW r \in Procs, S!Use(r) PROVE ServiceTyped'
  BY <1>1, <1>8, Uses DEF S!Use
<1>9. ASSUME NEW r \in Procs, NEW kind \in S!Kinds, NEW header, S!Arrive(r, kind, header) PROVE ServiceTyped'
  <2>1. arrivals' \in 0 .. MaxArrivals
    BY <1>1, <1>9, ServiceAssumption DEF S!Arrive, S!ServiceBounds
  <2>2. UNCHANGED <<server, consumed, expired, sessions, failures>>
    BY <1>9 DEF S!Arrive
  <2> QED
    BY <1>1, <1>9, <2>1, <2>2, Arrives
<1>10. CASE S!Expire \/ S!StopListening \/ S!CloseProject
  <2>1. /\ server' \in {"listening", "closing", "closed"} /\ expired' \in BOOLEAN
        /\ UNCHANGED <<consumed, sessions, requests, arrivals, failures>>
    BY <1>1, <1>10 DEF S!Expire, S!StopListening, S!CloseProject
  <2> QED
    BY <1>1, <2>1
<1> QED
  BY <1>3, <1>4, <1>5, <1>7, <1>8, <1>9, <1>10 DEF S!Next, S!Progress

LEMMA QueueStep == ASSUME ServiceInv, S!Next PROVE Queue'
<1>1. /\ selection \in Seq(Procs) /\ Distinct(selection)
      /\ \A r \in Procs : Opens(r) <=> Among(r, selection)
      /\ \A r \in Procs : requests[r].pc \in {"attach", "drain", "close"} => S!First(r)
  BY DEF ServiceInv, Queue
<1>2. ASSUME NEW r \in Procs, ~Opens(r), ~Opens(r)', UNCHANGED selection,
             \A q \in Procs \ {r} : requests'[q] = requests[q]
      PROVE  Queue'
  BY <1>1, <1>2 DEF Queue, Opens, S!First
<1>3. ASSUME NEW r \in Procs,
             S!BodyLost(r) \/ S!Exchange(r) \/ S!ExchangeRefused(r) \/ S!UseRefused(r) \/ S!Finish(r)
      PROVE  Queue'
  BY <1>2, <1>3, RequestMoves
     DEF Opens, S!At, S!BodyLost, S!Exchange, S!ExchangeRefused, S!UseRefused, S!Finish
<1>4. ASSUME NEW r \in Procs, S!Use(r) PROVE Queue'
  BY <1>2, <1>4, Uses DEF Opens, S!At, S!Use
<1>5. ASSUME NEW r \in Procs, NEW kind \in S!Kinds, NEW header, S!Arrive(r, kind, header) PROVE Queue'
  BY <1>2, <1>5, Arrives DEF Opens, S!At, S!Arrive
<1>6. ASSUME NEW r \in Procs, S!Enqueue(r) PROVE Queue'
  <2>1. ~Opens(r) /\ selection' = Append(selection, r) /\ S!Goto(r, "queued")
    BY <1>6 DEF S!Enqueue, S!At, Opens
  <2>2. requests'[r].pc = "queued" /\ \A q \in Procs \ {r} : requests'[q] = requests[q]
    BY <2>1, RequestMoves
  <2>3. /\ selection' \in Seq(Procs) /\ Distinct(selection')
        /\ \A q \in Procs : Among(q, selection') <=> q = r \/ Among(q, selection)
        /\ selection # <<>> => selection' # <<>> /\ Head(selection') = Head(selection)
    BY <1>1, <2>1, Joins
  <2> QED
    BY <1>1, <2>2, <2>3 DEF Queue, Opens, S!First
<1>7. ASSUME NEW r \in Procs, S!First(r), selection' = Tail(selection), S!Answer(r) PROVE Queue'
  <2>1. requests'[r].pc = "idle" /\ \A q \in Procs \ {r} : requests'[q] = requests[q]
    BY <1>7, RequestMoves
  <2>2. /\ selection' \in Seq(Procs) /\ Distinct(selection') /\ r = Head(selection)
        /\ \A q \in Procs : Among(q, selection') <=> q # r /\ Among(q, selection)
    BY <1>1, <1>7, Leaves DEF S!First
  <2> QED
    BY <1>1, <2>1, <2>2 DEF Queue, Opens, S!First
<1>8. ASSUME NEW r \in Procs,
             S!OpenRefused(r) \/ S!OpenFailed(r) \/ S!Switch(r) \/ S!SwitchFailed(r)
      PROVE  Queue'
  <2>1. S!First(r)
    BY <1>1, <1>8 DEF S!OpenRefused, S!OpenFailed, S!Switch, S!SwitchFailed, S!At
  <2> QED
    BY <1>7, <1>8, <2>1 DEF S!OpenRefused, S!OpenFailed, S!Switch, S!SwitchFailed
<1>9. ASSUME NEW r \in Procs, S!OpenRoot(r) \/ S!Attach(r) \/ S!Drain(r) PROVE Queue'
  <2>1. S!First(r) /\ Opens(r) /\ UNCHANGED selection
    BY <1>1, <1>9 DEF S!OpenRoot, S!Attach, S!Drain, S!At, Opens
  <2>2. requests'[r].pc \in {"attach", "drain", "close"} /\ \A q \in Procs \ {r} : requests'[q] = requests[q]
    BY <1>9, RequestMoves DEF S!OpenRoot, S!Attach, S!Drain
  <2> QED
    BY <1>1, <2>1, <2>2 DEF Queue, Opens, S!First
<1>10. CASE S!Expire \/ S!StopListening \/ S!CloseProject
  <2>1. UNCHANGED <<requests, selection>>
    BY <1>10 DEF S!Expire, S!StopListening, S!CloseProject
  <2> QED
    BY <1>1, <2>1 DEF Queue, Opens, S!First
<1> QED
  BY <1>3, <1>4, <1>5, <1>6, <1>8, <1>9, <1>10 DEF S!Next, S!Progress

LEMMA ProjectsStep == ASSUME ServiceInv, S!Next PROVE Projects'
<1>1. /\ Projects /\ requests \in [Procs -> Requested]
      /\ \A r, q \in Procs : /\ requests[r].pc \in {"attach", "drain", "close"}
                             /\ requests[q].pc \in {"attach", "drain", "close"}
                             => r = q
  BY DEF ServiceInv, ServiceTyped, Queue, S!First
<1>2. ASSUME NEW r \in Procs, \A q \in Procs \ {r} : requests'[q] = requests[q],
             requests'[r].pc \in {"idle", "body", "queued", "attach"},
             UNCHANGED <<status, epoch, current, closing, closedRoots>>
      PROVE  Projects'
  BY <1>1, <1>2 DEF Projects, S!Busy, S!At
<1>3. ASSUME NEW r \in Procs,
             S!BodyLost(r) \/ S!Exchange(r) \/ S!ExchangeRefused(r) \/ S!UseRefused(r) \/ S!Finish(r)
             \/ S!OpenRefused(r) \/ S!OpenFailed(r) \/ S!Enqueue(r) \/ S!OpenRoot(r)
      PROVE  Projects'
  BY <1>2, <1>3, RequestMoves
     DEF S!project, S!BodyLost, S!Exchange, S!ExchangeRefused, S!UseRefused, S!Finish, S!OpenRefused, S!OpenFailed,
         S!Enqueue, S!OpenRoot
<1>4. ASSUME NEW r \in Procs, NEW kind \in S!Kinds, NEW header, S!Arrive(r, kind, header) PROVE Projects'
  BY <1>2, <1>4, Arrives DEF S!Arrive, S!project
<1>5. ASSUME NEW r \in Procs, S!Use(r) PROVE Projects'
  <2>1. /\ UNCHANGED <<status, epoch, current, closing, closedRoots>> /\ requests[r].epoch = status
        /\ current # 0 /\ current \notin closing
    BY <1>5 DEF S!Use, S!project, S!StillSelected, S!Serves, S!None
  <2>2. /\ requests'[r].pc = "run" /\ requests'[r].on = current /\ requests'[r].epoch = requests[r].epoch
        /\ \A q \in Procs \ {r} : requests'[q] = requests[q]
    BY <1>5, Uses
  <2>3. \A q \in Procs : requests'[q].pc \notin {"drain", "close"}
    BY <1>1, <2>1, <2>2 DEF Projects
  <2>4. current = epoch /\ current \notin closedRoots
    BY <1>1, <2>1 DEF Projects
  <2> QED
    BY <1>1, <2>1, <2>2, <2>3, <2>4 DEF Projects
<1>6. ASSUME NEW r \in Procs, S!Attach(r) PROVE Projects'
  <2>1. /\ UNCHANGED <<status, epoch, current, closedRoots>> /\ epoch < MaxEpochs
        /\ closing' = closing \cup ({current} \ {0}) /\ requests[r].pc = "attach"
    BY <1>6 DEF S!Attach, S!At, S!None
  <2>2. requests'[r].pc = "drain" /\ \A q \in Procs \ {r} : requests'[q] = requests[q]
    BY <1>6, RequestMoves DEF S!Attach
  <2>3. \A q \in Procs : requests'[q].pc # "close"
    BY <1>1, <2>1, <2>2
  <2>4. closing' \subseteq 1 .. MaxEpochs /\ closedRoots' \subseteq closing' /\ (current = 0 \/ current \in closing')
    BY <1>1, <2>1, ServiceAssumption DEF Projects, S!ServiceBounds
  <2> QED
    BY <1>1, <2>1, <2>2, <2>3, <2>4 DEF Projects
<1>7. ASSUME NEW r \in Procs, S!Drain(r) PROVE Projects'
  <2>1. /\ UNCHANGED <<status, epoch, current, closing, closedRoots>> /\ S!Busy(current) = {} /\ requests[r].pc = "drain"
    BY <1>7 DEF S!Drain, S!At, S!Drained, S!project
  <2>2. requests'[r].pc = "close" /\ \A q \in Procs \ {r} : requests'[q] = requests[q]
    BY <1>7, RequestMoves DEF S!Drain
  <2>3. S!Busy(current)' = {}
    BY <2>1, <2>2 DEF S!Busy, S!At
  <2> QED
    BY <1>1, <2>1, <2>2, <2>3 DEF Projects
<1>8. ASSUME NEW r \in Procs, S!Switch(r) \/ S!SwitchFailed(r) PROVE Projects'
  <2>1. requests[r].pc = "close" /\ S!Busy(current) = {} /\ epoch < MaxEpochs /\ (current = 0 \/ current \in closing)
    BY <1>1, <1>8 DEF Projects, S!Switch, S!SwitchFailed, S!At
  <2>2. requests'[r].pc = "idle" /\ \A q \in Procs \ {r} : requests'[q] = requests[q]
    BY <1>8, RequestMoves DEF S!Switch, S!SwitchFailed
  <2>3. \A q \in Procs : requests'[q].pc \notin {"drain", "close"}
    BY <1>1, <2>1, <2>2
  <2>4. closedRoots' = closedRoots \cup ({current} \ {0}) /\ UNCHANGED closing
    BY <1>8 DEF S!Switch, S!SwitchFailed, S!None
  <2>5. status' = epoch' /\ epoch' \in 0 .. MaxEpochs /\ current' \in {0, epoch'}
    <3>1. CASE S!Switch(r)
      BY <1>1, <2>1, <3>1, ServiceAssumption DEF Projects, S!Switch, S!ServiceBounds
    <3>2. CASE S!SwitchFailed(r)
      BY <1>1, <3>2 DEF Projects, S!SwitchFailed
    <3> QED
      BY <1>8, <3>1, <3>2
  <2>6. ASSUME NEW q \in Procs, requests'[q].pc = "run"
        PROVE  /\ requests'[q].on = requests'[q].epoch
               /\ requests'[q].on # 0 /\ requests'[q].on \notin closedRoots'
    <3>1. requests[q].pc = "run" /\ requests'[q] = requests[q]
      BY <2>2, <2>6
    <3>2. requests[q].on # current
      BY <2>1, <3>1 DEF S!Busy, S!At
    <3> QED
      BY <1>1, <2>4, <3>1, <3>2 DEF Projects
  <2> QED
    BY <1>1, <2>1, <2>3, <2>4, <2>5, <2>6 DEF Projects
<1>9. CASE S!Expire \/ S!StopListening
  <2>1. UNCHANGED <<requests, status, epoch, current, closing, closedRoots>>
    BY <1>9 DEF S!Expire, S!StopListening, S!project
  <2> QED
    BY <1>1, <2>1 DEF Projects, S!Busy, S!At
<1>10. CASE S!CloseProject
  <2>1. /\ \A q \in Procs : requests'[q].pc = "idle"
        /\ closing' = closing \cup ({current} \ {0}) /\ closedRoots' = closedRoots \cup ({current} \ {0})
        /\ current' = 0 /\ UNCHANGED <<status, epoch>>
    BY <1>10 DEF S!CloseProject, S!At, S!None
  <2>2. closedRoots' \subseteq closing' /\ closing' \subseteq 1 .. MaxEpochs
    BY <1>1, <2>1, ServiceAssumption DEF Projects, S!ServiceBounds
  <2> QED
    BY <1>1, <2>1, <2>2 DEF Projects
<1> QED
  BY <1>3, <1>4, <1>5, <1>6, <1>7, <1>8, <1>9, <1>10 DEF S!Next, S!Progress

LEMMA ServiceKept == ASSUME ServiceInv, S!Next \/ UNCHANGED serviceVars PROVE ServiceInv'
<1>1. CASE S!Next
  BY <1>1, ServiceTypedStep, QueueStep, ProjectsStep DEF ServiceInv
<1>2. CASE UNCHANGED serviceVars
  BY <1>2 DEF serviceVars, ServiceInv, ServiceTyped, Queue, Projects, Opens, S!First, S!Busy, S!At
<1> QED
  BY <1>1, <1>2

LEMMA ServiceIsSafe == ASSUME ServiceInv PROVE S!TypeOK /\ RunsOnOpenProject
<1>1. sessions \in Nat /\ sessions <= 1 /\ {consumed, expired} \subseteq BOOLEAN
  BY DEF ServiceInv, ServiceTyped
<1>2. S!TypeOK
  BY <1>1 DEF S!TypeOK, ServiceInv, ServiceTyped, Queue, Projects, Opens, Among, S!None, S!Epochs
<1>3. S!RunsOnItsProject /\ S!NeverOnClosedRoot /\ S!LinkUsedOnce
  BY <1>1 DEF S!RunsOnItsProject, S!NeverOnClosedRoot, S!LinkUsedOnce, ServiceInv, Projects, S!At
<1> QED
  BY <1>2, <1>3 DEF RunsOnOpenProject
-----------------------------------------------------------------------------
(* The launcher                                                            *)

(* How many events the child can have sent, by the place it is in.         *)
Heard == [place \in {"none", "starting", "waiting", "running", "exited", "closed"} |->
            CASE place \in {"none", "starting"}   -> 0
              [] place \in {"waiting", "running"} -> 1
              [] place = "exited"                 -> 2
              [] place = "closed"                 -> 3]

ChildInv ==
  /\ child \in {"none", "starting", "waiting", "running", "exited", "closed"}
  /\ events \in Seq({"message", "error", "exit", "close"}) /\ Len(events) <= Heard[child]
  /\ \A k \in 1 .. Len(events) : events[k] = "close" => child = "closed"
  /\ closed \in BOOLEAN /\ (closed => child = "closed")
  /\ child = "none" <=> parent = "idle"

(* Nothing of the project was sent before the identity was right, and no   *)
(* failure of the handshake comes after something was sent.                *)
ParentInv ==
  /\ parent \in {"idle", "handshake", "sending", "closing", "returned", "threw"}
  /\ start \in {"no", "sent", "read"} /\ phase \in R!Handshake \cup {"none", "command-transfer"}
  /\ piped \in BOOLEAN /\ escalation \in BOOLEAN /\ stubborn \in BOOLEAN
  /\ escalation => parent = "closing" /\ phase # "none"
  /\ parent \in {"idle", "handshake"} => start = "no" /\ ~piped /\ phase = "none"
  /\ parent \in {"sending", "returned"} => identity = "right" /\ phase = "none"
  /\ start # "no" \/ piped => identity = "right"
  /\ phase \in R!Handshake => start = "no" /\ ~piped
  /\ parent = "threw" => child = "closed"

LaunchInv == ChildInv /\ ParentInv

LEMMA HeardCounts ==
  /\ Heard["none"] = 0 /\ Heard["starting"] = 0 /\ Heard["waiting"] = 1
  /\ Heard["running"] = 1 /\ Heard["exited"] = 2 /\ Heard["closed"] = 3
BY DEF Heard

(* An event of the child is one more to be handled, or one less.           *)
LEMMA Hears ==
  ASSUME ChildInv, NEW e \in {"message", "error", "exit", "close"}
  PROVE  /\ R!Happens(e) =>
              /\ events' \in Seq({"message", "error", "exit", "close"}) /\ Len(events') = Len(events) + 1
              /\ \A k \in 1 .. Len(events') : events'[k] = "close" => e = "close" \/ child = "closed"
         /\ R!Handle(e) =>
              /\ events' \in Seq({"message", "error", "exit", "close"}) /\ Len(events') <= Len(events)
              /\ \A k \in 1 .. Len(events') : events'[k] = "close" => child = "closed"
              /\ e = "close" => child = "closed"
<1> DEFINE E == {"message", "error", "exit", "close"}
<1>1. /\ events \in Seq(E) /\ Len(events) \in Nat
      /\ \A k \in 1 .. Len(events) : events[k] = "close" => child = "closed"
  BY DEF ChildInv
<1>2. ASSUME R!Happens(e)
      PROVE  /\ events' \in Seq(E) /\ Len(events') = Len(events) + 1
             /\ \A k \in 1 .. Len(events') : events'[k] = "close" => e = "close" \/ child = "closed"
  BY <1>1, <1>2 DEF R!Happens
<1>3. ASSUME R!Handle(e)
      PROVE  /\ events' \in Seq(E) /\ Len(events') <= Len(events)
             /\ \A k \in 1 .. Len(events') : events'[k] = "close" => child = "closed"
             /\ e = "close" => child = "closed"
  <2>1. /\ events # <<>> /\ events' = Tail(events) /\ events[1] = e /\ 1 \in 1 .. Len(events)
        /\ Len(events') = Len(events) - 1 /\ events' \in Seq(E)
        /\ \A k \in 1 .. Len(events') : events'[k] = events[k + 1] /\ k + 1 \in 1 .. Len(events)
    BY <1>1, <1>3 DEF R!Handle
  <2> QED
    BY <1>1, <2>1
<1> QED
  BY <1>2, <1>3

LEMMA LaunchStarts == ASSUME R!Init PROVE LaunchInv
<1>1. events \in Seq({"message", "error", "exit", "close"}) /\ Len(events) = 0
  BY DEF R!Init
<1>2. ChildInv
  <2>1. closed \in BOOLEAN /\ (closed => child = "closed")
    BY Zenon DEF R!Init
  <2>2. child = "none" /\ parent = "idle"
    BY DEF R!Init
  <2> QED
    BY <1>1, <2>1, <2>2, HeardCounts DEF ChildInv
<1>3. ParentInv
  BY DEF R!Init, ParentInv, R!Handshake
<1> QED
  BY <1>2, <1>3 DEF LaunchInv

LEMMA ChildStep == ASSUME LaunchInv, R!Next PROVE ChildInv'
<1>1. ChildInv /\ ParentInv
  BY DEF LaunchInv
<1>2. ASSUME NEW e \in {"message", "error", "exit", "close"}, R!Happens(e), UNCHANGED <<parent, closed>>,
             \/ e = "message" /\ child = "starting" /\ child' = "waiting"
             \/ e \in {"error", "exit"} /\ R!Alive /\ child' = "exited"
             \/ e = "close" /\ child = "exited" /\ child' = "closed"
      PROVE  ChildInv'
  <2>1. /\ events' \in Seq({"message", "error", "exit", "close"}) /\ Len(events') = Len(events) + 1
        /\ \A k \in 1 .. Len(events') : events'[k] = "close" => e = "close" \/ child = "closed"
    BY <1>1, <1>2, Hears
  <2>2. Len(events) \in Nat /\ Len(events) <= Heard[child]
    BY <1>1 DEF ChildInv
  <2>3. Len(events') <= Heard[child']
    BY <1>2, <2>1, <2>2, HeardCounts DEF R!Alive
  <2> QED
    BY <1>1, <1>2, <2>1, <2>3 DEF ChildInv, R!Alive
<1>3. CASE R!SpawnFails \/ R!SendReady \/ R!ChildExits \/ R!ChildCloses \/ R!Terminate \/ R!Interrupt
  BY <1>2, <1>3 DEF R!SpawnFails, R!SendReady, R!ChildExits, R!ChildCloses, R!Terminate, R!Interrupt, R!Alive
<1>4. CASE R!Escalate
  <2>1. CASE R!Alive
    BY <1>2, <1>4, <2>1 DEF R!Escalate
  <2>2. CASE ~R!Alive
    BY <1>1, <1>4, <2>2 DEF R!Escalate, ChildInv
  <2> QED
    BY <2>1, <2>2
<1>5. CASE R!ReadStart
  BY <1>1, <1>5, HeardCounts DEF R!ReadStart, ChildInv
<1>6. CASE R!Launch
  BY <1>1, <1>6, HeardCounts DEF R!Launch, ChildInv
<1>7. CASE R!Timeout \/ R!Sent
  BY <1>1, <1>7 DEF R!Timeout, R!Sent, R!Fails, ChildInv
<1>8. ASSUME NEW e \in {"message", "error", "exit", "close"}, R!Handle(e), UNCHANGED child,
             closed' = closed \/ (e = "close" /\ closed' = TRUE), parent = "idle" <=> parent' = "idle"
      PROVE  ChildInv'
  <2>1. /\ events' \in Seq({"message", "error", "exit", "close"}) /\ Len(events') <= Len(events)
        /\ \A k \in 1 .. Len(events') : events'[k] = "close" => child = "closed"
        /\ e = "close" => child = "closed"
    BY <1>1, <1>8, Hears
  <2>2. Len(events') <= Heard[child'] /\ child' = child
    BY <1>1, <1>8, <2>1, HeardCounts DEF ChildInv
  <2>3. closed' \in BOOLEAN /\ (closed' => child = "closed")
    <3>1. closed \in BOOLEAN /\ (closed => child = "closed")
      BY <1>1 DEF ChildInv
    <3>2. closed' = closed \/ (child = "closed" /\ closed' = TRUE)
      BY <1>8, <2>1
    <3>3. CASE closed' = closed
      BY <3>1, <3>3
    <3>4. CASE child = "closed" /\ closed' = TRUE
      BY <3>4, Zenon
    <3> QED
      BY <3>2, <3>3, <3>4
  <2> QED
    BY <1>1, <1>8, <2>1, <2>2, <2>3 DEF ChildInv
<1>9. CASE R!Ready
  BY <1>8, <1>9 DEF R!Ready, R!Fails
<1>10. ASSUME NEW e \in {"error", "exit"}, NEW why, R!Ended(e, why) PROVE ChildInv'
  BY <1>8, <1>10 DEF R!Ended, R!Fails
<1>11. CASE R!Closed
  BY <1>8, <1>11 DEF R!Closed
<1> QED
  BY <1>3, <1>4, <1>5, <1>6, <1>7, <1>9, <1>10, <1>11 DEF R!Next

LEMMA ParentStep == ASSUME LaunchInv, R!Next PROVE ParentInv'
<1>1. ParentInv /\ ChildInv /\ closed \in BOOLEAN /\ (closed => child = "closed")
  BY DEF LaunchInv, ChildInv
<1>2. ASSUME UNCHANGED <<parent, identity, stubborn, start, piped, escalation, phase>>,
             parent = "threw" => child' = "closed"
      PROVE  ParentInv'
  BY <1>1, <1>2 DEF ParentInv
<1>3. ASSUME NEW why \in {"timeout", "identity", "spawn-error", "child-exit", "command-transfer"}, R!Fails(why),
             parent = "handshake" \/ (parent = "sending" /\ why = "command-transfer"),
             UNCHANGED <<child, identity, stubborn, start, piped>>
      PROVE  ParentInv'
  <2>1. phase' = why /\ why # "none" /\ (why \in R!Handshake => parent = "handshake")
    BY <1>3 DEF R!Fails, R!Handshake
  <2>2. parent' \in {"threw", "closing"} /\ (parent' = "threw" => closed)
    BY <1>3 DEF R!Fails
  <2>3. escalation' \in BOOLEAN /\ (escalation' => parent' = "closing")
    BY <1>1, <1>3 DEF R!Fails
  <2> QED
    BY <1>1, <1>3, <2>1, <2>2, <2>3 DEF ParentInv, R!Handshake
<1>4. CASE R!SpawnFails \/ R!SendReady \/ R!ChildExits \/ R!ChildCloses \/ R!Interrupt \/ R!Terminate
  <2>1. UNCHANGED <<parent, identity, stubborn, start, piped, escalation, phase>>
    BY <1>4 DEF R!SpawnFails, R!SendReady, R!ChildExits, R!ChildCloses, R!Interrupt, R!Terminate
  <2>2. child # "closed"
    BY <1>4 DEF R!SpawnFails, R!SendReady, R!ChildExits, R!ChildCloses, R!Interrupt, R!Terminate, R!Alive
  <2> QED
    BY <1>1, <1>2, <2>1, <2>2 DEF ParentInv
<1>5. CASE R!ReadStart
  BY <1>1, <1>5 DEF R!ReadStart, ParentInv
<1>6. CASE R!Launch
  BY <1>1, <1>6 DEF R!Launch, ParentInv
<1>7. CASE R!Timeout
  BY <1>3, <1>7 DEF R!Timeout
<1>8. CASE R!Ready
  <2>1. CASE parent = "handshake" /\ identity = "right"
    <3>1. parent' = "sending" /\ start' = "sent" /\ UNCHANGED <<identity, stubborn, piped, phase, escalation, child>>
      BY <1>8, <2>1 DEF R!Ready
    <3> QED
      BY <1>1, <2>1, <3>1 DEF ParentInv, R!Handshake
  <2>2. CASE parent = "handshake" /\ identity # "right"
    BY <1>3, <1>8, <2>2 DEF R!Ready
  <2>3. CASE parent # "handshake"
    BY <1>1, <1>2, <1>8, <2>3 DEF R!Ready, ParentInv
  <2> QED
    BY <2>1, <2>2, <2>3
<1>9. ASSUME NEW e, NEW why \in {"spawn-error", "child-exit"}, R!Ended(e, why) PROVE ParentInv'
  BY <1>1, <1>2, <1>3, <1>9 DEF R!Ended, ParentInv
<1>10. CASE R!Sent
  <2>1. CASE parent' = "returned" /\ piped' = TRUE /\ UNCHANGED <<phase, escalation>>
    <3>1. parent = "sending" /\ UNCHANGED <<identity, stubborn, start, child>>
      BY <1>10 DEF R!Sent
    <3> QED
      BY <1>1, <2>1, <3>1 DEF ParentInv, R!Handshake
  <2> QED
    BY <1>3, <1>10, <2>1 DEF R!Sent
<1>11. CASE R!Escalate
  <2>1. /\ parent = "closing" /\ escalation' = FALSE /\ UNCHANGED <<parent, identity, stubborn, start, piped, phase>>
    BY <1>11 DEF R!Escalate
  <2> QED
    BY <1>1, <2>1 DEF ParentInv
<1>12. CASE R!Closed
  <2>1. /\ piped' = FALSE /\ UNCHANGED <<child, identity, stubborn, start, phase>>
        /\ \/ parent = "closing" /\ parent' = "threw" /\ escalation' = FALSE
           \/ parent # "closing" /\ UNCHANGED <<parent, escalation>>
    BY <1>12 DEF R!Closed
  <2>2. child = "closed"
    BY <1>1, <1>12, Hears DEF R!Closed
  <2>3. piped' \in BOOLEAN /\ ~piped'
    BY <2>1, Zenon
  <2>4. escalation' \in BOOLEAN /\ (escalation' => parent' = "closing" /\ phase' # "none")
    <3>1. CASE escalation' = FALSE
      BY <3>1, Zenon
    <3>2. CASE UNCHANGED <<parent, escalation>>
      BY <1>1, <2>1, <3>2 DEF ParentInv
    <3> QED
      BY <2>1, <3>1, <3>2
  <2> QED
    BY <1>1, <2>1, <2>2, <2>3, <2>4 DEF ParentInv
<1> QED
  BY <1>4, <1>5, <1>6, <1>7, <1>8, <1>9, <1>10, <1>11, <1>12 DEF R!Next

LEMMA LaunchKept == ASSUME LaunchInv, R!Next \/ UNCHANGED launchVars PROVE LaunchInv'
<1>1. CASE R!Next
  BY <1>1, ChildStep, ParentStep DEF LaunchInv
<1>2. CASE UNCHANGED launchVars
  BY <1>2 DEF launchVars, LaunchInv, ChildInv, ParentInv
<1> QED
  BY <1>1, <1>2

LEMMA LaunchIsSafe == ASSUME LaunchInv PROVE R!TypeOK /\ R!ProjectIsGuarded
<1>1. ChildInv /\ ParentInv
  BY DEF LaunchInv
<1>2. Len(events) <= 3
  <2>1. Len(events) \in Nat /\ Len(events) <= Heard[child]
    BY <1>1 DEF ChildInv
  <2>2. Heard[child] \in 0 .. 3
    BY <1>1, HeardCounts DEF ChildInv
  <2> QED
    BY <2>1, <2>2
<1>3. {piped, closed, escalation, stubborn} \subseteq BOOLEAN
  BY <1>1, Zenon DEF ChildInv, ParentInv
<1>4. R!TypeOK
  BY <1>1, <1>2, <1>3 DEF R!TypeOK, ChildInv, ParentInv
<1>5. R!ProjectIsGuarded
  BY <1>1 DEF R!ProjectIsGuarded, ParentInv
<1> QED
  BY <1>4, <1>5
-----------------------------------------------------------------------------
(* The composition: the component that runs makes its own steps, and the   *)
(* others rest.                                                            *)

LEMMA Composed ==
  ASSUME [Steps]_all
  PROVE  /\ [Next]_vars
         /\ S!Next \/ UNCHANGED serviceVars
         /\ R!Next \/ UNCHANGED launchVars
BY DEF Steps, LockStep, ServiceStep, LaunchStep, InLock, InService, InLaunch, all

(* Every behaviour of the composition is one of the lock, to which the     *)
(* theorems about the lock apply.                                          *)
THEOREM LockGoesOn == Progress => Spec
<1>1. Starts => Init
  BY DEF Starts
<1>2. [Steps]_all => [Next]_vars
  BY Composed
<1> QED
  BY <1>1, <1>2, PTL DEF Progress, Spec

(* The inductive invariant of the project service: an open that waits is   *)
(* in the queue once, only the first works, and a project that is being    *)
(* replaced serves nobody.                                                 *)
THEOREM ServiceInvariance == Progress => []ServiceInv
<1>1. Starts => ServiceInv
  BY ServiceStarts DEF Starts
<1>2. ServiceInv /\ [Steps]_all => ServiceInv'
  BY Composed, ServiceKept
<1> QED
  BY <1>1, <1>2, PTL DEF Progress

(* The inductive invariant of the launcher: what the child can have sent,  *)
(* and what the launcher has told it.                                      *)
THEOREM LaunchInvariance == Progress => []LaunchInv
<1>1. Starts => LaunchInv
  BY LaunchStarts DEF Starts
<1>2. LaunchInv /\ [Steps]_all => LaunchInv'
  BY Composed, LaunchKept
<1> QED
  BY <1>1, <1>2, PTL DEF Progress

(* Lock, service and launcher keep the types of their variables.           *)
THEOREM TypesHold == Progress => []Types
<1>1. Init => TypeOK
  BY TypeInit
<1>2. TypeOK /\ [Next]_vars => TypeOK'
  BY TypeStep
<1>3. Spec => []TypeOK
  BY <1>1, <1>2, PTL DEF Spec
<1>4. TypeOK /\ ServiceInv /\ LaunchInv => Types
  BY ServiceIsSafe, LaunchIsSafe DEF Types
<1> QED
  BY <1>3, <1>4, LockGoesOn, ServiceInvariance, LaunchInvariance, PTL

(* An operation runs on the project whose epoch its client named and never *)
(* on one whose root is closed, for any number of requests, opens and      *)
(* folders that cannot be closed; the launch link makes one session.       *)
THEOREM OperationsRunOnOpenProject == Progress => []RunsOnOpenProject
<1>1. ServiceInv => RunsOnOpenProject
  BY ServiceIsSafe
<1> QED
  BY <1>1, ServiceInvariance, PTL

(* Command, folder and terminal input only go to a child that proved its   *)
(* identity, and a launch that threw leaves no process behind.             *)
THEOREM ProjectStaysGuarded == Progress => []R!ProjectIsGuarded
<1>1. LaunchInv => R!ProjectIsGuarded
  BY LaunchIsSafe
<1> QED
  BY <1>1, LaunchInvariance, PTL
=============================================================================

--------------------------- MODULE ProjectService ---------------------------
(***************************************************************************)
(* The local server of one workspace and the project that is selected in   *)
(* it.  Requests are checked against the epoch of the project when their   *)
(* headers and when their bodies are there, run on the selected project,   *)
(* and are waited for before another project replaces it.  Opening waits   *)
(* in a queue.  What runs between two awaits is one step.                  *)
(***************************************************************************)
EXTENDS Integers, Sequences, FiniteSets

CONSTANTS
  Requests,      \* HTTP requests that are handled at the same time
  MaxEpochs,     \* bound: projects that are opened
  MaxArrivals,   \* bound: requests that arrive
  MaxFailures    \* bound: folders that cannot be closed

(* What the constants are taken to be.                                     *)
ServiceBounds == MaxEpochs \in Nat /\ MaxArrivals \in Nat /\ MaxFailures \in Nat

VARIABLES
  server,        \* listening, closing or closed
  consumed,      \* the launch link has been exchanged
  expired,       \* the launch link is too old
  sessions,      \* browser sessions that were given a credential
  status,        \* the epoch the server checks requests against
  epoch,         \* the epoch of the project service, the last one drawn
  current,       \* the selected project, named by its epoch, or 0
  closing,       \* projects that take no more requests
  closedRoots,   \* projects whose root is closed
  selection,     \* opens in the order in which they were asked for
  requests, arrivals, failures

pvars == <<server, consumed, expired, sessions, status, epoch, current, closing,
           closedRoots, selection, requests, arrivals, failures>>

Epochs == 1..MaxEpochs
None == 0
Kinds == {"exchange", "use", "open", "create"}
Quiet == [pc |-> "idle", kind |-> "use", epoch |-> None, on |-> None]

(* Requests before the exchange are refused; the model starts without a    *)
(* project.                                                                *)
Init ==
  /\ server = "listening"
  /\ consumed = FALSE
  /\ expired = FALSE
  /\ sessions = 0
  /\ status = None
  /\ epoch = None
  /\ current = None
  /\ closing = {}
  /\ closedRoots = {}
  /\ selection = <<>>
  /\ requests = [r \in Requests |-> Quiet]
  /\ arrivals = 0
  /\ failures = 0

-----------------------------------------------------------------------------
At(r, pc) == requests[r].pc = pc
Is(r, kind) == requests[r].kind = kind
Goto(r, pc) == requests' = [requests EXCEPT ![r].pc = pc]
Answer(r) == requests' = [requests EXCEPT ![r] = Quiet]
Busy(p) == {r \in Requests : At(r, "run") /\ requests[r].on = p}
link == <<consumed, expired, sessions>>
project == <<status, epoch, current, closing, closedRoots>>

(* What the headers decide: the exchange needs no credential, a project    *)
(* operation needs the present epoch, which every client has been told.    *)
Admitted(kind, header) ==
  CASE kind = "exchange" -> TRUE
    [] kind = "use" -> sessions > 0 /\ header = status
    [] OTHER -> sessions > 0

Arrive(r, kind, header) ==
  /\ server = "listening"
  /\ At(r, "idle")
  /\ arrivals < MaxArrivals
  /\ Admitted(kind, header)
  /\ arrivals' = arrivals + 1
  /\ requests' = [requests EXCEPT ![r] = [pc |-> "body", kind |-> kind, epoch |-> status, on |-> None]]
  /\ UNCHANGED <<server, link, project, selection, failures>>

(* jsonBody fails, or the client goes away.                                *)
BodyLost(r) ==
  /\ At(r, "body")
  /\ Answer(r)
  /\ UNCHANGED <<server, link, project, selection, arrivals, failures>>

(* POST /api/session looks at the link once its body is there.             *)
LinkGood == ~consumed /\ ~expired

Exchange(r) ==
  /\ At(r, "body") /\ Is(r, "exchange")
  /\ LinkGood
  /\ consumed' = TRUE
  /\ sessions' = sessions + 1
  /\ Answer(r)
  /\ UNCHANGED <<server, expired, project, selection, arrivals, failures>>

ExchangeRefused(r) ==
  /\ At(r, "body") /\ Is(r, "exchange")
  /\ ~LinkGood
  /\ Answer(r)
  /\ UNCHANGED <<server, link, project, selection, arrivals, failures>>

Expire == /\ ~expired
          /\ expired' = TRUE
          /\ UNCHANGED <<server, consumed, sessions, project, selection, requests, arrivals, failures>>

(* The epoch is compared again and withProject registers the operation,    *)
(* without an await in between.                                            *)
(* Mutant: the epoch is not compared again when the body is there.         *)
StillSelectedOnce(r) == TRUE
StillSelected(r) == requests[r].epoch = status
Serves == current # None /\ current \notin closing

Use(r) ==
  /\ At(r, "body") /\ Is(r, "use")
  /\ StillSelected(r)
  /\ Serves
  /\ requests' = [requests EXCEPT ![r].pc = "run", ![r].on = current]
  /\ UNCHANGED <<server, link, project, selection, arrivals, failures>>

UseRefused(r) ==
  /\ At(r, "body") /\ Is(r, "use")
  /\ ~StillSelected(r) \/ ~Serves
  /\ Answer(r)
  /\ UNCHANGED <<server, link, project, selection, arrivals, failures>>

Finish(r) ==
  /\ At(r, "run")
  /\ Answer(r)
  /\ UNCHANGED <<server, link, project, selection, arrivals, failures>>

-----------------------------------------------------------------------------
(* open and create: the projects are closed and selected one at a time.    *)

Enqueue(r) ==
  /\ At(r, "body") /\ requests[r].kind \in {"open", "create"}
  /\ selection' = Append(selection, r)
  /\ Goto(r, "queued")
  /\ UNCHANGED <<server, link, project, arrivals, failures>>

First(r) == selection # <<>> /\ Head(selection) = r
Outdated(r) == Is(r, "open") /\ requests[r].epoch # epoch

OpenRefused(r) ==
  /\ At(r, "queued") /\ First(r)
  /\ Outdated(r)
  /\ selection' = Tail(selection)
  /\ Answer(r)
  /\ UNCHANGED <<server, link, project, arrivals, failures>>

OpenRoot(r) ==
  /\ At(r, "queued") /\ First(r)
  /\ ~Outdated(r)
  /\ Goto(r, "attach")
  /\ UNCHANGED <<server, link, project, selection, arrivals, failures>>

(* There is no such folder, or no deployment.yaml in it.                   *)
OpenFailed(r) ==
  /\ At(r, "attach")
  /\ selection' = Tail(selection)
  /\ Answer(r)
  /\ UNCHANGED <<server, link, project, arrivals, failures>>

(* The new project is ready: the one before takes no more requests.        *)
Attach(r) ==
  /\ At(r, "attach")
  /\ epoch < MaxEpochs
  /\ closing' = closing \cup ({current} \ {None})
  /\ Goto(r, "drain")
  /\ UNCHANGED <<server, link, status, epoch, current, closedRoots, selection, arrivals, failures>>

(* Mutant: the project is closed when no request at all is active, the one *)
(* that opens included.                                                    *)
DrainedAll(p) == \A r \in Requests : At(r, "idle")

Drained(p) == Busy(p) = {}

Drain(r) ==
  /\ At(r, "drain")
  /\ Drained(current)
  /\ Goto(r, "close")
  /\ UNCHANGED <<server, link, project, selection, arrivals, failures>>

(* The root is closed, the next project selected, and onStatus tells the   *)
(* server, before any other request is looked at.                          *)
Switch(r) ==
  /\ At(r, "close")
  /\ closedRoots' = closedRoots \cup ({current} \ {None})
  /\ epoch' = epoch + 1
  /\ current' = epoch'
  /\ status' = epoch'
  /\ selection' = Tail(selection)
  /\ Answer(r)
  /\ UNCHANGED <<server, link, closing, arrivals, failures>>

(* Closing fails: the project stays selected and refuses every request     *)
(* until a project is opened.                                              *)
SwitchFailed(r) ==
  /\ At(r, "close")
  /\ current # None
  /\ failures < MaxFailures
  /\ failures' = failures + 1
  /\ closedRoots' = closedRoots \cup {current}
  /\ selection' = Tail(selection)
  /\ Answer(r)
  /\ UNCHANGED <<server, link, status, epoch, current, closing, arrivals>>

-----------------------------------------------------------------------------
(* close(): no new requests, then the active ones, then the project.       *)
StopListening ==
  /\ server = "listening"
  /\ server' = "closing"
  /\ UNCHANGED <<link, project, selection, requests, arrivals, failures>>

CloseProject ==
  /\ server = "closing"
  /\ \A r \in Requests : At(r, "idle")
  /\ server' = "closed"
  /\ closing' = closing \cup ({current} \ {None})
  /\ closedRoots' = closedRoots \cup ({current} \ {None})
  /\ current' = None
  /\ UNCHANGED <<link, status, epoch, selection, requests, arrivals, failures>>

(* The body of a request, or its loss, and then what its handler does.     *)
Progress(r) ==
  \/ BodyLost(r) \/ Exchange(r) \/ ExchangeRefused(r)
  \/ Use(r) \/ UseRefused(r) \/ Finish(r)
  \/ Enqueue(r) \/ OpenRefused(r) \/ OpenRoot(r) \/ OpenFailed(r)
  \/ Attach(r) \/ Drain(r) \/ Switch(r) \/ SwitchFailed(r)

Next ==
  \/ \E r \in Requests :
       \/ Progress(r)
       \/ \E kind \in Kinds, header \in {None} \cup Epochs : Arrive(r, kind, header)
  \/ Expire \/ StopListening \/ CloseProject

(* The timeouts of the server end a request whose body does not come, and  *)
(* every operation of a project returns.                                   *)
Fairness == (\A r \in Requests : WF_pvars(Progress(r))) /\ WF_pvars(CloseProject)
Spec == Init /\ [][Next]_pvars /\ Fairness

-----------------------------------------------------------------------------
(* The selected project is the last one opened; opens wait in the queue.   *)
TypeOK ==
  /\ server \in {"listening", "closing", "closed"}
  /\ sessions \in Nat /\ {consumed, expired} \subseteq BOOLEAN
  /\ status = epoch /\ epoch \in 0..MaxEpochs /\ current \in {None, epoch}
  /\ closedRoots \subseteq closing /\ closing \subseteq Epochs
  /\ \A r \in Requests : requests[r].pc \in {"queued", "attach", "drain", "close"} <=>
       \E k \in 1..Len(selection) : selection[k] = r
  /\ \A r \in Requests : requests[r].pc \in {"attach", "drain", "close"} => First(r)
  /\ arrivals \in 0..MaxArrivals /\ failures \in 0..MaxFailures

(* An operation runs on the project whose epoch its client named, although *)
(* another project may be opened between its headers and its body.         *)
RunsOnItsProject == \A r \in Requests : At(r, "run") => requests[r].on = requests[r].epoch

(* No operation runs on a project whose root has been closed, whether      *)
(* another project was opened or the server stopped.                       *)
NeverOnClosedRoot == \A r \in Requests : At(r, "run") => requests[r].on \notin closedRoots

(* The launch link makes one browser session, although two exchanges may   *)
(* be waiting for their bodies at the same time.                           *)
LinkUsedOnce == sessions <= 1

(* Every request is answered: an open that waits for the operations of the *)
(* project before it, and the requests queued behind it, never wait for    *)
(* each other; and a server that is told to stop does stop.                *)
NothingHangs == /\ \A r \in Requests : ~At(r, "idle") ~> At(r, "idle")
                /\ server = "closing" ~> server = "closed"
=============================================================================

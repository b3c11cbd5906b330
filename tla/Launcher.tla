------------------------------ MODULE Launcher ------------------------------
(***************************************************************************)
(* launchRuntime (apps/cli/src/runtime/launcher.ts): the launcher forks    *)
(* the selected runtime and waits for its identity before it tells it the  *)
(* command, the working directory or the terminal input.  The messages and *)
(* events of the child, a timer and the callback of send race; a launch    *)
(* that fails kills the child, with SIGKILL after a second, and waits for  *)
(* its close event before it throws, because its caller then takes the     *)
(* selection of the runtime back.                                          *)
(***************************************************************************)
EXTENDS Sequences, Naturals

VARIABLES
  parent,      \* where launchRuntime is
  child,       \* the forked process
  identity,    \* what the child will send first
  stubborn,    \* whether the child ignores SIGTERM
  events,      \* events of the child that the launcher has not handled
  start,       \* the start message: "no", sent, or read by the child
  piped,       \* terminal input is piped to the child
  closed,      \* the variable of this name: the close event was handled
  escalation,  \* the timer of one second is set
  phase        \* the phase a failure is reported with

lvars == <<parent, child, identity, stubborn, events, start, piped, closed, escalation, phase>>

Handshake == {"timeout", "identity", "spawn-error", "child-exit"}
Alive     == child \in {"starting", "waiting", "running"}

Happens(e) == events' = Append(events, e)
Handle(e)  == events # <<>> /\ Head(events) = e /\ events' = Tail(events)

-----------------------------------------------------------------------------
(* The child process                                                       *)

(* The executable cannot be started.                                       *)
SpawnFails ==
  /\ child = "starting" /\ child' = "exited" /\ Happens("error")
  /\ UNCHANGED <<parent, identity, stubborn, start, piped, closed, escalation, phase>>

(* entry() of main.ts: the bundle is loaded and the identity sent.         *)
SendReady ==
  /\ child = "starting" /\ child' = "waiting" /\ Happens("message")
  /\ UNCHANGED <<parent, identity, stubborn, start, piped, closed, escalation, phase>>

ReadStart ==
  /\ child = "waiting" /\ start = "sent"
  /\ child' = "running" /\ start' = "read"
  /\ UNCHANGED <<parent, identity, stubborn, events, piped, closed, escalation, phase>>

(* The child ends by itself, at any time.                                  *)
ChildExits ==
  /\ Alive /\ child' = "exited" /\ Happens("exit")
  /\ UNCHANGED <<parent, identity, stubborn, start, piped, closed, escalation, phase>>

(* Its pipes are closed: the close event follows exit and error.           *)
ChildCloses ==
  /\ child = "exited" /\ child' = "closed" /\ Happens("close")
  /\ UNCHANGED <<parent, identity, stubborn, start, piped, closed, escalation, phase>>

-----------------------------------------------------------------------------
(* The launcher                                                            *)

(* fork(), the listeners and the timer.                                    *)
Launch ==
  /\ parent = "idle" /\ parent' = "handshake" /\ child' = "starting"
  /\ UNCHANGED <<identity, stubborn, events, start, piped, closed, escalation, phase>>

(* fail(), and the catch clause up to its await: the listeners are removed *)
(* and, unless it is closed already, the child is asked to end.            *)
Fails(why) ==
  /\ phase' = why
  /\ parent' = IF closed THEN "threw" ELSE "closing"
  /\ escalation' = ~closed

Timeout ==
  /\ parent = "handshake" /\ Fails("timeout")
  /\ UNCHANGED <<child, identity, stubborn, events, start, piped, closed>>

(* ready(): the first message decides; one that comes after a failure is   *)
(* not listened to any more.                                               *)
Ready ==
  /\ Handle("message")
  /\ CASE parent = "handshake" /\ identity = "right" ->
            parent' = "sending" /\ start' = "sent" /\ UNCHANGED <<phase, escalation>>
       [] parent = "handshake" /\ identity # "right" -> Fails("identity") /\ UNCHANGED start
       [] parent # "handshake" -> UNCHANGED <<parent, start, phase, escalation>>
  /\ UNCHANGED <<child, identity, stubborn, piped, closed>>

(* spawnFailed and exited, while they are listened to.                     *)
Ended(e, why) ==
  /\ Handle(e)
  /\ IF parent = "handshake" THEN Fails(why) ELSE UNCHANGED <<parent, phase, escalation>>
  /\ UNCHANGED <<child, identity, stubborn, start, piped, closed>>

(* The callback of send: an error when the channel is gone, and possibly   *)
(* none although the child ends before it reads the message.               *)
Sent ==
  /\ parent = "sending"
  /\ \/ parent' = "returned" /\ piped' = TRUE /\ UNCHANGED <<phase, escalation>>
     \/ ~Alive /\ Fails("command-transfer") /\ UNCHANGED piped
  /\ UNCHANGED <<child, identity, stubborn, events, start, closed>>

(* kill(): SIGTERM ends a child that does not ignore it.                   *)
Terminate ==
  /\ parent = "closing" /\ Alive /\ ~stubborn
  /\ child' = "exited" /\ Happens("exit")
  /\ UNCHANGED <<parent, identity, stubborn, start, piped, closed, escalation, phase>>

(* Mutant: the child is asked once, with SIGTERM.                          *)
EscalateNever == FALSE /\ UNCHANGED lvars

(* After a second: SIGKILL.                                                *)
Escalate ==
  /\ parent = "closing" /\ escalation /\ escalation' = FALSE
  /\ IF Alive THEN child' = "exited" /\ Happens("exit") ELSE UNCHANGED <<child, events>>
  /\ UNCHANGED <<parent, identity, stubborn, start, piped, closed, phase>>

(* The close event resolves completed, which unpipes the terminal input of *)
(* a launch that returned and ends the wait of one that failed.            *)
Closed ==
  /\ Handle("close") /\ closed' = TRUE /\ piped' = FALSE
  /\ IF parent = "closing" THEN parent' = "threw" /\ escalation' = FALSE
                           ELSE UNCHANGED <<parent, escalation>>
  /\ UNCHANGED <<child, identity, stubborn, start, phase>>

(* launcher-main.ts forwards SIGINT and SIGTERM to the child it launched.  *)
Interrupt ==
  /\ parent = "returned" /\ Alive /\ ~stubborn
  /\ child' = "exited" /\ Happens("exit")
  /\ UNCHANGED <<parent, identity, stubborn, start, piped, closed, escalation, phase>>

Init ==
  /\ parent = "idle" /\ child = "none" /\ events = <<>> /\ start = "no"
  /\ identity \in {"right", "wrong"} /\ stubborn \in BOOLEAN
  /\ piped = FALSE /\ closed = FALSE /\ escalation = FALSE /\ phase = "none"

Next ==
  \/ SpawnFails \/ SendReady \/ ReadStart \/ ChildExits \/ ChildCloses
  \/ Launch \/ Timeout \/ Ready \/ Ended("error", "spawn-error") \/ Ended("exit", "child-exit")
  \/ Sent \/ Terminate \/ Escalate \/ Closed \/ Interrupt

(* Node runs timers, callbacks and events; the system delivers SIGKILL and *)
(* closes the pipes of a process that ended.  Nothing is assumed of a      *)
(* child that lives.                                                       *)
Fairness ==
  /\ WF_lvars(Timeout) /\ WF_lvars(Sent) /\ WF_lvars(Escalate) /\ WF_lvars(ChildCloses)
  /\ WF_lvars(Ready \/ Ended("error", "spawn-error") \/ Ended("exit", "child-exit") \/ Closed)

Spec == Init /\ [][Next]_lvars /\ Fairness
-----------------------------------------------------------------------------
TypeOK ==
  /\ parent \in {"idle", "handshake", "sending", "closing", "returned", "threw"}
  /\ child \in {"none", "starting", "waiting", "running", "exited", "closed"}
  /\ events \in Seq({"message", "error", "exit", "close"}) /\ Len(events) <= 3
  /\ start \in {"no", "sent", "read"} /\ phase \in Handshake \cup {"none", "command-transfer"}
  /\ {piped, closed, escalation, stubborn} \subseteq BOOLEAN
  /\ escalation => parent = "closing" /\ phase # "none"

(* The command, the folder and the terminal input only go to a child that  *)
(* proved its identity, and a failure that says the project was not        *)
(* supplied is right; a launch that threw leaves no process behind, which  *)
(* the caller relies on when it takes the selection back.                  *)
ProjectIsGuarded ==
  /\ start # "no" \/ piped => identity = "right"
  /\ phase \in Handshake => start = "no" /\ ~piped
  /\ parent = "threw" => child = "closed"

(* A launch returns or throws, whatever the child does or ignores.         *)
LaunchSettles == parent = "handshake" ~> parent \in {"returned", "threw"}
=============================================================================

----------------------------- MODULE MCProgress -----------------------------
(***************************************************************************)
(* Three components that must go on: the lock on two machines that share a *)
(* folder, the local server with its selected project, and the launch of a *)
(* runtime.  They share no state; the initial state says which of them     *)
(* runs, and the others rest in an initial state.  Fairness is stated for  *)
(* the one that runs.                                                      *)
(***************************************************************************)
EXTENDS MCProjectLock

CONSTANTS
  MaxEpochs, MaxArrivals, MaxFailures    \* bounds of ProjectService

VARIABLES
  component,
  server, consumed, expired, sessions, status, epoch, current, closing, closedRoots,
  selection, requests, arrivals, failures,
  parent, child, identity, stubborn, events, start, piped, closed, escalation, phase

S == INSTANCE ProjectService WITH Requests <- Procs
R == INSTANCE Launcher

ASSUME ServiceAssumption == S!ServiceBounds

serviceVars == <<server, consumed, expired, sessions, status, epoch, current, closing, closedRoots,
                 selection, requests, arrivals, failures>>
launchVars == <<parent, child, identity, stubborn, events, start, piped, closed, escalation, phase>>
all == <<component, vars, serviceVars, launchVars>>

Starts ==
  /\ component \in {"lock", "service", "launch"}
  /\ Init /\ S!Init /\ R!Init
  /\ component # "launch" => identity = "right" /\ ~stubborn

InLock    == component = "lock"    /\ UNCHANGED <<component, serviceVars, launchVars>>
InService == component = "service" /\ UNCHANGED <<component, vars, launchVars>>
InLaunch  == component = "launch"  /\ UNCHANGED <<component, vars, serviceVars>>

LockStep    == InLock    /\ Next
ServiceStep == InService /\ S!Next
LaunchStep  == InLaunch  /\ R!Next

Steps == LockStep \/ ServiceStep \/ LaunchStep

(* The fairness of each module, for its own steps.  Because one component  *)
(* runs, weak fairness of a disjunction of steps of different components   *)
(* is weak fairness of the one that belongs to the component that runs;    *)
(* and a process of the lock can attempt, step or end its use, never two   *)
(* of them in one state.                                                   *)
LockProcess(p) == InLock /\ (Attempt(p) \/ Step(p) \/ EndUse(p))

AllFairness ==
  /\ WF_all(LockProcess(p1) \/ (InService /\ S!Progress(p1)) \/ (InLaunch /\ R!Timeout))
  /\ WF_all(LockProcess(p2) \/ (InService /\ S!Progress(p2)) \/ (InLaunch /\ R!Sent))
  /\ WF_all(LockProcess(p3) \/ (InService /\ S!Progress(p3)) \/ (InLaunch /\ R!Escalate))
  /\ WF_all((InService /\ S!CloseProject) \/ (InLaunch /\ R!ChildCloses))
  /\ WF_all(InLaunch /\ \/ R!Ready \/ R!Closed
                        \/ R!Ended("error", "spawn-error") \/ R!Ended("exit", "child-exit"))

Progress == Starts /\ [][Steps]_all /\ AllFairness

-----------------------------------------------------------------------------
(* Every variable has its type, of those that rest too.                    *)
Types == TypeOK /\ S!TypeOK /\ R!TypeOK

(* ProjectService: an operation runs on the project whose epoch its client *)
(* named, and never on one whose root is closed, although another project  *)
(* is opened or the server told to stop between its headers and its body;  *)
(* and the launch link makes one browser session.                          *)
RunsOnOpenProject == S!RunsOnItsProject /\ S!NeverOnClosedRoot /\ S!LinkUsedOnce

(* ProjectService: every request is answered; an open that waits for the   *)
(* operations of the project before it and the requests queued behind it   *)
(* never wait for each other; a server that is told to stop does stop.     *)
NothingHangs == S!NothingHangs

(* Launcher: command, folder and terminal input only go to a child that    *)
(* proved its identity, a launch that threw leaves no process behind, and  *)
(* every launch returns or throws, whatever the child does or ignores.     *)
LaunchSafe == []R!ProjectIsGuarded /\ R!LaunchSettles
=============================================================================

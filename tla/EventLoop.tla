---- MODULE EventLoop ----
(***************************************************************************)
(* How a mahimahi process supervises its children: EventLoop reads signals *)
(* from a signalfd, reaps and mirrors the state of its ChildProcesses, and *)
(* ends them when it ends.  The kernel is modelled as far as the code sees *)
(* it: a signal that is pending is pending once, so SIGCHLDs coalesce; of  *)
(* the changes of state of a child only the latest can be waited for.      *)
(***************************************************************************)
EXTENDS Integers, FiniteSets

CONSTANTS N,               \* children are 1..N, in the order they were added
          ContinueStatuses, \* what continue_status may be
          Statuses,        \* the statuses with which children exit
          MaxStops,        \* bound on how often a child is stopped from outside
          MaxSignals       \* bound on the signals users send to the parent

Children == 1..N

ASSUME ChildrenAssumption ==
  /\ N \in Nat \ {0}
  /\ ContinueStatuses \subseteq [Children -> Int]
  /\ Statuses \subseteq 0..255
  /\ MaxStops \in Nat /\ MaxSignals \in Nat

VARIABLES state,        \* kernel: "running", "stopped" or "exited"
          status,       \* kernel: exit status
          event,        \* kernel: what waitid() would report of a child
          hangup,       \* kernel: the child has been sent its termination signal
          pending,      \* kernel: signals pending for the parent
          suspended,    \* kernel: the parent is stopped
          continue_status,  \* the status with which a child may quit alone, or -1
          running, terminated, exit_status,   \* ChildProcess members
          phase,           \* "poll", "scan", "destroy" or "done"
          next,         \* the child the loop over child_processes_ is at
          result,       \* how the loop ended: "none", "exit" or "threw"
          stops, signals   \* bounded counts

kernel == <<state, status, event, hangup, pending, suspended>>
views == <<continue_status, running, terminated, exit_status>>
control == <<phase, next, result>>
bounds == <<stops, signals>>
vars == <<kernel, views, control, bounds>>

Init ==
  /\ state = [c \in Children |-> "running"]
  /\ status = [c \in Children |-> 0]
  /\ event = [c \in Children |-> "none"]
  /\ hangup = [c \in Children |-> FALSE]
  /\ pending = {} /\ suspended = FALSE
  /\ continue_status \in ContinueStatuses
  /\ running = [c \in Children |-> TRUE]
  /\ terminated = [c \in Children |-> FALSE]
  /\ exit_status = [c \in Children |-> 0]
  /\ phase = "poll" /\ next = 1 /\ result = "none"
  /\ stops = 0 /\ signals = 0
----
(***************************************************************************)
(* The children and the users.                                             *)
(***************************************************************************)
ChildExits(c, s) ==
  /\ state[c] = "running"
  /\ state' = [state EXCEPT ![c] = "exited"]
  /\ status' = [status EXCEPT ![c] = s]
  /\ event' = [event EXCEPT ![c] = "exited"]
  /\ pending' = pending \cup {"CHLD"}
  /\ UNCHANGED <<hangup, suspended, views, control, bounds>>

ChildStops(c) ==
  /\ stops < MaxStops
  /\ state[c] = "running"
  /\ state' = [state EXCEPT ![c] = "stopped"]
  /\ event' = [event EXCEPT ![c] = "stopped"]
  /\ pending' = pending \cup {"CHLD"}
  /\ stops' = stops + 1
  /\ UNCHANGED <<status, hangup, suspended, views, control, signals>>

UserSignals(sig) ==
  /\ signals < MaxSignals /\ phase # "done"
  /\ pending' = pending \cup {sig}
  /\ suspended' = (suspended /\ sig # "CONT")
  /\ signals' = signals + 1
  /\ UNCHANGED <<state, status, event, hangup, views, control, stops>>

\* ChildProcess::resume() of the children in R: SIGCONT to those believed to be
\* stopped; it wakes those that are.
Woken(R) == {c \in R : ~ running[c] /\ ~ terminated[c] /\ state[c] = "stopped"}
Resume(R, signalled) ==
  /\ state' = [c \in Children |-> IF c \in Woken(R) THEN "running" ELSE state[c]]
  /\ event' = [c \in Children |-> IF c \in Woken(R) THEN "continued" ELSE event[c]]
  /\ pending' = signalled \cup (IF Woken(R) # {} THEN {"CHLD"} ELSE {})
----
(***************************************************************************)
(* EventLoop::handle_signal().  A signalfd hands over the pending signal   *)
(* with the lowest number: SIGTERM, SIGCHLD, SIGCONT.                      *)
(***************************************************************************)
LoopRuns == phase = "poll" /\ ~ suspended

HandleTerm ==
  /\ LoopRuns /\ "TERM" \in pending
  /\ pending' = pending \ {"TERM"}
  /\ phase' = "destroy" /\ next' = 1 /\ result' = "exit"
  /\ UNCHANGED <<state, status, event, hangup, suspended, views, bounds>>

HandleChild ==
  /\ LoopRuns /\ "TERM" \notin pending /\ "CHLD" \in pending
  /\ pending' = pending \ {"CHLD"}
  /\ phase' = "scan" /\ next' = 1
  /\ UNCHANGED <<state, status, event, hangup, suspended, views, result, bounds>>

HandleCont ==
  /\ LoopRuns /\ pending = {"CONT"}
  /\ Resume(Children, {})
  /\ UNCHANGED <<status, hangup, suspended, views, control, bounds>>

Scanning == phase = "scan" /\ ~ suspended
Waitable(c) == event[c] # "none"

SkipChild ==
  /\ Scanning /\ next \in Children
  /\ terminated[next] \/ ~ Waitable(next)
  /\ next' = next + 1
  /\ UNCHANGED <<kernel, views, phase, result, bounds>>

\* Slip: waiting for any child throws the reports of the others away.
FoundAny(c) ==
  /\ Scanning /\ c = next
  /\ ~ terminated[c] /\ Waitable(c)
  /\ event' = [x \in Children |-> "none"]

\* wait() of a child that the scan has found waitable.
FoundWaitable(c) ==
  /\ Scanning /\ c = next
  /\ ~ terminated[c] /\ Waitable(c)
  /\ event' = [event EXCEPT ![c] = "none"]

\* How handle_signal() returns when it has reaped c.
AllTerminated == \A c \in Children : terminated[c]
Outcome(c) ==
  IF status[c] # 0 /\ status[c] # continue_status[c] THEN "threw"
  ELSE IF AllTerminated' \/ status[c] # continue_status[c] THEN "exit"
  ELSE "none"

ChildTerminated(c) ==
  /\ FoundWaitable(c) /\ event[c] = "exited"
  /\ terminated' = [terminated EXCEPT ![c] = TRUE]
  /\ exit_status' = [exit_status EXCEPT ![c] = status[c]]
  /\ result' = Outcome(c)
  /\ phase' = IF result' = "none" THEN "poll" ELSE "destroy"
  /\ next' = 1
  /\ UNCHANGED <<state, status, hangup, pending, suspended, continue_status,
                 running, bounds>>

\* raise( SIGSTOP ): the parent stops too, in the middle of its loop.  A SIGCONT
\* that was pending is discarded.
ChildStopped(c) ==
  /\ FoundWaitable(c) /\ event[c] = "stopped"
  /\ running' = [running EXCEPT ![c] = FALSE]
  /\ suspended' = TRUE
  /\ pending' = pending \ {"CONT"}
  /\ next' = next + 1
  /\ UNCHANGED <<state, status, hangup, continue_status, terminated,
                 exit_status, phase, result, bounds>>

ChildContinued(c) ==
  /\ FoundWaitable(c) /\ event[c] = "continued"
  /\ running' = [running EXCEPT ![c] = TRUE]
  /\ next' = next + 1
  /\ UNCHANGED <<state, status, hangup, pending, suspended, continue_status,
                 terminated, exit_status, phase, result, bounds>>

ScanEnds ==
  /\ Scanning /\ next \notin Children
  /\ phase' = "poll" /\ next' = 1
  /\ UNCHANGED <<kernel, views, result, bounds>>
----
(***************************************************************************)
(* ~ChildProcess(): resume, signal, wait, until the child has terminated.  *)
(***************************************************************************)
Destroying(c) == phase = "destroy" /\ c = next

\* Slip: a child is signalled without being resumed.
EndWithoutResume(c) ==
  /\ Destroying(c) /\ ~ terminated[c] /\ ~ hangup[c]
  /\ hangup' = [hangup EXCEPT ![c] = TRUE]
  /\ UNCHANGED <<state, status, event, pending, suspended, views, control, bounds>>

EndChild(c) ==
  /\ Destroying(c) /\ ~ terminated[c] /\ ~ hangup[c]
  /\ Resume({c}, pending)
  /\ hangup' = [hangup EXCEPT ![c] = TRUE]
  /\ UNCHANGED <<status, suspended, views, control, bounds>>

\* A blocking wait(); it may report a stop that the loop had not seen, and then
\* the destructor goes round again.
WaitForEnd(c) ==
  /\ Destroying(c) /\ ~ terminated[c] /\ hangup[c] /\ Waitable(c)
  /\ event' = [event EXCEPT ![c] = "none"]
  /\ terminated' = [terminated EXCEPT ![c] = (event[c] = "exited")]
  /\ exit_status' = [exit_status EXCEPT ![c] =
                       IF event[c] = "exited" THEN status[c] ELSE @]
  /\ running' = [running EXCEPT ![c] =
                   IF event[c] = "exited" THEN @ ELSE event[c] = "continued"]
  /\ hangup' = [hangup EXCEPT ![c] = (event[c] = "exited")]
  /\ UNCHANGED <<state, status, pending, suspended, continue_status, control,
                 bounds>>

ChildDestroyed(c) ==
  /\ Destroying(c) /\ terminated[c]
  /\ next' = next + 1
  /\ phase' = IF c = N THEN "done" ELSE phase
  /\ UNCHANGED <<kernel, views, result, bounds>>

ParentStep ==
  \/ HandleTerm \/ HandleChild \/ HandleCont
  \/ SkipChild \/ ScanEnds
  \/ \E c \in Children :
       \/ ChildTerminated(c) \/ ChildStopped(c) \/ ChildContinued(c)
       \/ EndChild(c) \/ WaitForEnd(c) \/ ChildDestroyed(c)

\* A child that was sent its termination signal obeys it, once it runs.
ChildObeys(c) == hangup[c] /\ ChildExits(c, 0)

Next ==
  \/ \E c \in Children : (\E s \in Statuses : ChildExits(c, s)) \/ ChildStops(c)
  \/ \E c \in Children : ChildObeys(c)
  \/ \E sig \in {"TERM", "CONT"} : UserSignals(sig)
  \/ ParentStep

Spec ==
  /\ Init /\ [][Next]_vars
  /\ WF_vars(ParentStep)
  /\ \A c \in Children : WF_vars(ChildObeys(c))
----
\* Every variable keeps the type its declaration gives it.
TypeOK ==
  /\ state \in [Children -> {"running", "stopped", "exited"}]
  /\ status \in [Children -> 0..255] /\ exit_status \in [Children -> 0..255]
  /\ event \in [Children -> {"none", "stopped", "continued", "exited"}]
  /\ continue_status \in [Children -> Int]
  /\ hangup \in [Children -> BOOLEAN] /\ running \in [Children -> BOOLEAN]
  /\ terminated \in [Children -> BOOLEAN]
  /\ pending \subseteq {"TERM", "CHLD", "CONT"} /\ suspended \in BOOLEAN
  /\ phase \in {"poll", "scan", "destroy", "done"} /\ next \in 1..(N + 1)
  /\ result \in {"none", "exit", "threw"}
  /\ stops \in Nat /\ signals \in Nat

\* No child is forgotten and none is waited for twice: a child that exited is
\* either known to be terminated, with its status, or can still be waited for.
ExitsAreNotLost ==
  \A c \in Children : state[c] = "exited" =>
    IF terminated[c] THEN exit_status[c] = status[c] /\ event[c] = "none"
    ELSE event[c] = "exited"

\* A parent that has seen a child stop and believes it is still stopped can wake
\* it: a stopped child the parent believes to be running has told it so, and the
\* report still waits to be read.
StopsAreNotLost ==
  \A c \in Children : state[c] = "stopped" /\ running[c] => event[c] = "stopped"

\* When a process has ended, so have all its children: no orphan keeps a network
\* namespace or a TUN device.
NoOrphans == phase = "done" => \A c \in Children : state[c] = "exited"

\* A process that starts to end does end, although children stop, or had been
\* stopped without its knowledge, when their turn comes.
ShutdownCompletes == (phase = "destroy") ~> (phase = "done")

\* "quit if all children have quit": once every child has exited, the loop ends
\* (unless the process is itself suspended).
QuitsWhenAllHaveQuit ==
  (\A c \in Children : state[c] = "exited") ~> (phase = "done" \/ suspended)
====

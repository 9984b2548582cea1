---- MODULE PacketShell ----
(***************************************************************************)
(* How a shell is set up and taken down.  The setuid program builds what   *)
(* needs root (a TUN device, a DNS proxy, NAT rules), then clones two      *)
(* ferries: "uplink" in a network namespace of its own, with dnsmasq and   *)
(* the user's command as children, and "downlink", which waits for the     *)
(* uplink to hand it the inner TUN device.  Any step may throw, and        *)
(* a signal may come between any two.  What runs in the ferries' loops is  *)
(* FrontEnds and LinkFerry; how a loop reaps a stopped child is EventLoop. *)
(***************************************************************************)
EXTENDS Integers, Sequences, FiniteSets

CONSTANTS Assigned,    \* sets of addresses that interfaces and routes may hold
          LastOctet,   \* the last address of the block, 255
          MaxKills     \* bound on the signals from outside

Parents == {"shell", "uplink", "downlink"}
Procs == Parents \cup {"dnsmasq", "command"}

\* child_processes_ of each loop, in the order they are added.
Kids(p) == CASE p = "shell" -> <<"uplink", "downlink">>
             [] p = "uplink" -> <<"dnsmasq", "command">>
             [] OTHER -> <<>>

\* continue_status: the status with which one child may quit alone.
ContinueStatus(p) == IF p = "shell" THEN 77 ELSE -1

VARIABLES procs,     \* at, root (effective), env ("cleared" or "user"), blocked
                     \* (signals are masked), hup (one is pending), status
          waited,    \* children whose terminated_ is true
          inUse,     \* addresses_in_use_, with the base of the outermost shell
          rules,     \* the kernel's NAT rules of this shell
          tunFd,     \* the descriptor in the socket pair: "none", "sent", "received"
          kills,
          chld,      \* parents that have a SIGCHLD pending
          merged     \* whether a second one came to the shell while one was

sigchld == <<chld, merged>>
setupVars == <<procs, waited, inUse, rules, tunFd, kills, sigchld>>

NoProcess == [at |-> "none", root |-> FALSE, env |-> "cleared", blocked |-> FALSE,
              hup |-> FALSE, status |-> 0]

\* main() has cleared the environment.
SetupInit ==
  /\ procs = [p \in Procs |-> IF p = "shell"
                              THEN [NoProcess EXCEPT !.at = "main", !.root = TRUE]
                              ELSE NoProcess]
  /\ waited = {} /\ inUse \in Assigned
  /\ rules = {} /\ tunFd = "none" /\ kills = 0
  /\ chld = {} /\ merged = FALSE

Stage(p) == procs[p].at
Alive(p) == Stage(p) \notin {"none", "exited"}
Goes(p, from, to) == Stage(p) = from /\ procs' = [procs EXCEPT ![p].at = to]
\* The stack of p unwinds.  The shell, which never dropped them for good, has its
\* privileges and its empty environment back.
Unwound(p, status) ==
  [procs[p] EXCEPT !.at = "unwinding", !.status = status, !.root = @ \/ p = "shell",
                   !.env = IF p = "shell" THEN "cleared" ELSE @]

\* When c exits its parent is sent a SIGCHLD, which is pending once.
Parent(c) == IF c \in {"uplink", "downlink"} THEN "shell" ELSE "uplink"
TellsParent(c) ==
  /\ chld' = chld \cup {Parent(c)}
  /\ merged' = (merged \/ (Parent(c) = "shell" /\ "shell" \in chld))
----
(***************************************************************************)
(* The constructor of PacketShell.                                         *)
(***************************************************************************)
\* check_requirements(): effective root, and no environment.
CheckRequirements ==
  /\ procs["shell"].root /\ procs["shell"].env = "cleared"
  /\ Goes("shell", "main", "checked")
  /\ UNCHANGED <<waited, inUse, rules, tunFd, kills, sigchld>>

\* Slip: the environment is entered first, the privileges given up after it.
EnvironmentFirst ==
  /\ Stage("shell") = "checked"
  /\ procs' = [procs EXCEPT !["shell"].at = "unprivileged", !["shell"].env = "user"]
  /\ UNCHANGED <<waited, inUse, rules, tunFd, kills, sigchld>>

\* get_mahimahi_base(): TemporarilyUnprivileged, then TemporaryEnvironment, each
\* undone by its destructor.
GiveUpPrivileges ==
  /\ Stage("shell") = "checked"
  /\ procs' = [procs EXCEPT !["shell"].at = "unprivileged", !["shell"].root = FALSE]
  /\ UNCHANGED <<waited, inUse, rules, tunFd, kills, sigchld>>

ReadBase ==
  /\ Stage("shell") = "unprivileged"
  /\ procs' = [procs EXCEPT !["shell"].at = "base", !["shell"].env = "user"]
  /\ UNCHANGED <<waited, inUse, rules, tunFd, kills, sigchld>>

ClearEnvironment ==
  /\ Stage("shell") = "base"
  /\ procs' = [procs EXCEPT !["shell"].at = "cleared", !["shell"].env = "cleared"]
  /\ UNCHANGED <<waited, inUse, rules, tunFd, kills, sigchld>>

RegainPrivileges ==
  /\ Stage("shell") = "cleared"
  /\ procs' = [procs EXCEPT !["shell"].at = "privileged", !["shell"].root = TRUE]
  /\ UNCHANGED <<waited, inUse, rules, tunFd, kills, sigchld>>

\* first_unassigned_address( last_octet ): none, or the first; 0 stands for none.
FirstUnassigned(octet) ==
  LET free == octet..LastOctet \ inUse
  IN IF free = {} THEN 0 ELSE CHOOSE a \in free : \A b \in free : a <= b

\* two_unassigned_addresses(); it throws when there are no two.
FindAddresses ==
  LET one == FirstUnassigned(1)
      two == FirstUnassigned(one + 1)
  IN /\ Stage("shell") = "privileged"
     /\ IF one = 0 \/ two = 0
        THEN procs' = [procs EXCEPT !["shell"] = Unwound("shell", 1)]
        ELSE Goes("shell", "privileged", "addressed")
     /\ UNCHANGED <<waited, inUse, rules, tunFd, kills, sigchld>>

\* egress_tun_ and dns_outside_: members that need root.
MakeTunAndProxy ==
  /\ procs["shell"].root
  /\ Goes("shell", "addressed", "proxied")
  /\ UNCHANGED <<waited, inUse, rules, tunFd, kills, sigchld>>

\* run() of iptables: as root ezexec() insists on an empty environment.
RunsIptables == procs["shell"].root /\ procs["shell"].env = "cleared"

AddRule(rule, from, to) ==
  /\ RunsIptables
  /\ Goes("shell", from, to)
  /\ rules' = rules \cup {rule}
  /\ UNCHANGED <<waited, inUse, tunFd, kills, sigchld>>

\* pipe_, and event_loop_, which blocks the signals from here on.
MakePipeAndLoop ==
  /\ procs["shell"].env = "cleared"
  /\ Stage("shell") = "ruled"
  /\ procs' = [procs EXCEPT !["shell"].at = "constructed", !["shell"].blocked = TRUE]
  /\ UNCHANGED <<waited, inUse, rules, tunFd, kills, sigchld>>
----
(***************************************************************************)
(* Children.                                                               *)
(***************************************************************************)
\* Slip: the child inherits the mask of its parent.
BornMasked(p, at) == [procs[p] EXCEPT !.at = at, !.hup = FALSE]

\* ChildProcess(): a copy of the parent, with no signal masked.
Born(p, at) == [procs[p] EXCEPT !.at = at, !.blocked = FALSE, !.hup = FALSE]

\* start_uplink() and start_downlink(): a clone each.
StartFerry(c, from, to) ==
  /\ Stage("shell") = from
  /\ procs' = [procs EXCEPT !["shell"].at = to, ![c] = Born("shell", "born")]
  /\ UNCHANGED <<waited, inUse, rules, tunFd, kills, sigchld>>

\* ingress_tun, lo and the default route, in the new namespace.
MakeInside ==
  /\ procs["uplink"].root
  /\ Goes("uplink", "born", "routed")
  /\ UNCHANGED <<waited, inUse, rules, tunFd, kills, sigchld>>

\* Slip: inner_ferry does not mask the signals.
UnmaskedFerry ==
  /\ Goes("uplink", "routed", "ferry")
  /\ UNCHANGED <<waited, inUse, rules, tunFd, kills, sigchld>>

\* inner_ferry, and dns_inside_ on it.
MakeInnerFerry ==
  /\ Stage("uplink") = "routed"
  /\ procs' = [procs EXCEPT !["uplink"].at = "ferry", !["uplink"].blocked = TRUE]
  /\ UNCHANGED <<waited, inUse, rules, tunFd, kills, sigchld>>

\* start_dnsmasq(): ezexec() as root, without a search of PATH.
StartDnsmasq ==
  /\ Stage("uplink") = "ferry" /\ procs["uplink"].env = "cleared"
  /\ procs' = [procs EXCEPT !["uplink"].at = "resolving",
                            !["dnsmasq"] = Born("uplink", "running")]
  /\ UNCHANGED <<waited, inUse, rules, tunFd, kills, sigchld>>

\* The busy-wait for it; after 20 attempts start_dnsmasq() throws.
DnsmasqAnswers ==
  /\ Goes("uplink", "resolving", "resolved")
  /\ UNCHANGED <<waited, inUse, rules, tunFd, kills, sigchld>>

DropPrivileges(p, from) ==
  /\ Stage(p) = from
  /\ procs' = [procs EXCEPT ![p].at = "dropped", ![p].root = FALSE]
  /\ UNCHANGED <<waited, inUse, rules, tunFd, kills, sigchld>>

\* environ = user_environment_
RestoreEnvironment(p, to) ==
  /\ Stage(p) = "dropped"
  /\ procs' = [procs EXCEPT ![p].at = to, ![p].env = "user"]
  /\ UNCHANGED <<waited, inUse, rules, tunFd, kills, sigchld>>

\* ezexec( command, true ) in the child; root may not search PATH.
StartCommand ==
  /\ Stage("uplink") = "environ"
  /\ procs' = [procs EXCEPT !["uplink"].at = "commanded",
                            !["command"] = Born("uplink", "running")]
  /\ UNCHANGED <<waited, inUse, rules, tunFd, kills, sigchld>>

SendTun ==
  /\ Goes("uplink", "commanded", "loop")
  /\ tunFd' = "sent"
  /\ UNCHANGED <<waited, inUse, rules, kills, sigchld>>

\* recv_fd() blocks until it comes; outer_ferry masks the signals.
ReceiveTun ==
  /\ Stage("downlink") = "receiving" /\ tunFd = "sent"
  /\ procs' = [procs EXCEPT !["downlink"].at = "loop", !["downlink"].blocked = TRUE]
  /\ tunFd' = "received"
  /\ UNCHANGED <<waited, inUse, rules, kills, sigchld>>
----
(***************************************************************************)
(* Loops and ends.                                                         *)
(***************************************************************************)
\* wait_for_exit(): internal_loop() is TemporarilyUnprivileged; it throws when the
\* signals are not masked.
EnterLoop ==
  /\ Stage("shell") = "started" /\ procs["shell"].blocked
  /\ procs' = [procs EXCEPT !["shell"].at = "loop", !["shell"].root = FALSE]
  /\ UNCHANGED <<waited, inUse, rules, tunFd, kills, sigchld>>

\* Any step but the last ones may throw: EXIT_FAILURE.
Throws(p) ==
  /\ Stage(p) \notin {"none", "exited", "unwinding", "ended", "killed"}
  /\ procs' = [procs EXCEPT ![p] = Unwound(p, 1)]
  /\ UNCHANGED <<waited, inUse, rules, tunFd, kills, sigchld>>

\* The queue of a ferry is finished.
Finishes(p) ==
  /\ p # "shell" /\ Stage(p) = "loop"
  /\ procs' = [procs EXCEPT ![p] = Unwound(p, 77)]
  /\ UNCHANGED <<waited, inUse, rules, tunFd, kills, sigchld>>

HandlesHangup(p) ==
  /\ Stage(p) = "loop" /\ procs[p].hup
  /\ procs' = [procs EXCEPT ![p] = [Unwound(p, 0) EXCEPT !.hup = FALSE]]
  /\ UNCHANGED <<waited, inUse, rules, tunFd, kills, sigchld>>

Kid(p, k) == Kids(p)[k]
\* Children that can be waited for, by their places in child_processes_.
WaitableKids(p) ==
  {k \in DOMAIN Kids(p) : Stage(Kid(p, k)) = "exited" /\ Kid(p, k) \notin waited}

\* What handle_signal() makes of child c: as EventLoop!Outcome.
ReapOutcome(p, c) ==
  LET status == procs[c].status
      all == \A k \in DOMAIN Kids(p) : Kid(p, k) \in waited'
      Ends(s) == procs' = [procs EXCEPT ![p] = Unwound(p, s)]
  IN IF status \notin {0, ContinueStatus(p)} THEN Ends(1)
     ELSE IF all \/ status # ContinueStatus(p) THEN Ends(0)
     ELSE procs' = procs

\* handle_signal() of a SIGCHLD, which the signalfd hands over after a SIGHUP: it
\* returns at the first child that has terminated, whoever else may have.
HandlesChild(p) ==
  /\ Stage(p) = "loop" /\ p \in chld /\ ~procs[p].hup
  /\ chld' = chld \ {p}
  /\ \/ WaitableKids(p) = {} /\ UNCHANGED <<procs, waited>>
     \/ \E k \in WaitableKids(p) :
          /\ \A j \in WaitableKids(p) : k <= j
          /\ waited' = waited \cup {Kid(p, k)}
          /\ ReapOutcome(p, Kid(p, k))
  /\ UNCHANGED <<inUse, rules, tunFd, kills, merged>>

\* How c takes a termination signal.
Signalled(c) == IF procs[c].blocked THEN [procs[c] EXCEPT !.hup = TRUE]
                ELSE [procs[c] EXCEPT !.at = "exited", !.status = 15]

\* The destructors of p's loop have come to c.
Destroys(p, c) ==
  /\ Stage(p) = "unwinding" /\ Stage(c) # "none" /\ c \notin waited
  /\ \E k \in DOMAIN Kids(p) :
       Kids(p)[k] = c /\ \A j \in 1..(k - 1) : Stage(Kids(p)[j]) = "none" \/ Kids(p)[j] \in waited

SignalsChild(p, c) ==
  /\ Destroys(p, c) /\ Alive(c) /\ ~procs[c].hup
  /\ procs' = [procs EXCEPT ![c] = Signalled(c)]
  /\ IF procs[c].blocked THEN UNCHANGED sigchld ELSE TellsParent(c)
  /\ UNCHANGED <<waited, inUse, rules, tunFd, kills>>

WaitsForChild(p, c) ==
  /\ Destroys(p, c) /\ Stage(c) = "exited"
  /\ waited' = waited \cup {c}
  /\ UNCHANGED <<procs, inUse, rules, tunFd, kills, sigchld>>

ChildrenEnded(p) ==
  Stage(p) = "unwinding" /\ \A k \in DOMAIN Kids(p) : ~Destroys(p, Kids(p)[k])

\* _exit() of a ferry.
FerryExited(p) ==
  /\ p # "shell" /\ ChildrenEnded(p)
  /\ procs' = [procs EXCEPT ![p].at = "exited"] /\ TellsParent(p)
  /\ UNCHANGED <<waited, inUse, rules, tunFd, kills>>

\* ~NATRule(), post_ before pre_; iptables needs root, and the destructor goes on
\* when it fails.
RemoveRule ==
  /\ ChildrenEnded("shell") /\ rules # {} /\ RunsIptables
  /\ rules' = rules \ (IF "post_" \in rules THEN {"post_"} ELSE {"pre_"})
  /\ UNCHANGED <<procs, waited, inUse, tunFd, kills, sigchld>>

ShellEnds ==
  /\ ChildrenEnded("shell") /\ (rules = {} \/ ~RunsIptables)
  /\ procs' = [procs EXCEPT !["shell"].at = "ended"]
  /\ UNCHANGED <<waited, inUse, rules, tunFd, kills, sigchld>>

\* dnsmasq and the command end by themselves.
ProgramExits(c, status) ==
  /\ c \in {"dnsmasq", "command"} /\ Stage(c) = "running"
  /\ procs' = [procs EXCEPT ![c].at = "exited", ![c].status = status]
  /\ TellsParent(c)
  /\ UNCHANGED <<waited, inUse, rules, tunFd, kills>>

\* A termination signal from outside, to any process.
Killed(p) ==
  /\ kills < MaxKills /\ kills' = kills + 1
  /\ Alive(p) /\ Stage(p) \notin {"ended", "killed"}
  /\ procs' = [procs EXCEPT ![p] = IF p = "shell" /\ ~procs[p].blocked
                                   THEN [@ EXCEPT !.at = "killed"] ELSE Signalled(p)]
  /\ IF p = "shell" \/ procs[p].blocked THEN UNCHANGED sigchld ELSE TellsParent(p)
  /\ UNCHANGED <<waited, inUse, rules, tunFd>>

LoopSteps(p) ==
  \/ HandlesHangup(p) \/ HandlesChild(p) \/ FerryExited(p)
  \/ \E c \in Procs : SignalsChild(p, c) \/ WaitsForChild(p, c)

ShellSteps ==
  \/ CheckRequirements \/ GiveUpPrivileges \/ ReadBase \/ ClearEnvironment
  \/ RegainPrivileges \/ FindAddresses \/ MakeTunAndProxy
  \/ AddRule("pre_", "proxied", "half ruled") \/ AddRule("post_", "half ruled", "ruled")
  \/ MakePipeAndLoop
  \/ StartFerry("uplink", "constructed", "up") \/ StartFerry("downlink", "up", "started")
  \/ EnterLoop \/ LoopSteps("shell") \/ RemoveRule \/ ShellEnds

UplinkSteps ==
  \/ MakeInside \/ MakeInnerFerry \/ StartDnsmasq \/ DnsmasqAnswers
  \/ DropPrivileges("uplink", "resolved") \/ RestoreEnvironment("uplink", "environ")
  \/ StartCommand \/ SendTun \/ LoopSteps("uplink")

DownlinkSteps ==
  \/ DropPrivileges("downlink", "born") \/ RestoreEnvironment("downlink", "receiving")
  \/ ReceiveTun \/ LoopSteps("downlink")

SetupNext ==
  \/ ShellSteps \/ UplinkSteps \/ DownlinkSteps
  \/ \E p \in Parents : Throws(p) \/ Finishes(p)
  \/ \E c \in Procs : Killed(c) \/ \E status \in {0, 1} : ProgramExits(c, status)
----
Over(p) == Stage(p) \in {"exited", "ended", "killed"}

\* "our security rule of not looking at the user's environment before dropping
\* privileges" (packetshell.cc:216): no process has both, not while the shell
\* looks for its base, nor between the forks; and the command never has root.
UserRunsUnprivileged ==
  \A p \in Procs : Alive(p) =>
    /\ procs[p].env = "user" => ~procs[p].root
    /\ p = "command" => procs[p].env = "user"

\* Whichever step throws, and whoever is signalled when: a ferry that has exited
\* leaves no child (child_process.cc:148), a shell that has ended no NAT rule
\* either (nat.cc:28); a signal can end it without its destructors only before it
\* has children.
LeavesNothingBehind ==
  /\ \A p \in Parents, c \in Procs :
       Over(p) /\ (\E k \in DOMAIN Kids(p) : Kids(p)[k] = c) => ~Alive(c)
  /\ Stage("shell") = "ended" => rules = {}

Failed(p) == Stage(p) = "exited" /\ procs[p].status # 77

\* It has reaped an uplink that finished, and waits for a SIGCHLD of the downlink that
\* was one with the uplink's.
MissesDownlink ==
  /\ Stage("shell") = "loop" /\ ~procs["shell"].hup /\ merged
  /\ "uplink" \in waited /\ ~Failed("uplink") /\ "downlink" \notin waited

\* A signal to the shell, and an uplink that fails, even before it has sent what the
\* downlink waits for in recv_fd(), end the shell (packetshell.cc:150).  So does a
\* downlink that fails, unless its SIGCHLD is one with that of the uplink, for the
\* shell reaps the uplink alone then (event_loop.cc:62).
FailureEndsShell ==
  (procs["shell"].hup \/ Failed("uplink") \/ Failed("downlink"))
    ~> (Stage("shell") = "ended" \/ MissesDownlink)
====

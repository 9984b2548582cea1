---- MODULE FrontEnds ----
(***************************************************************************)
(* The shells that need no trace: mm-delay, mm-loss, mm-onoff and mm-meter. *)
(* Each hands one of DelayQueue, IIDLoss, SwitchingLink and MeterQueue to  *)
(* the loop of a ferry, which asks how long it may sleep, polls, reads a   *)
(* datagram and writes what is pending.  Between any two of those steps the *)
(* clock moves on, also between the reading from which a wait is computed  *)
(* and the start of the poll() that counts it; it is the wall clock, so it *)
(* may also be set back.                                                   *)
(***************************************************************************)
EXTENDS Integers, Sequences

CONSTANTS Kinds,       \* of "delay", "iid", "switching", "meter"; or "graph", no ferry
          Delay,       \* delay_ms_
          Samples,     \* what the two exponential distributions may yield
          Longest,     \* the bound on a sample, 2^30 ms
          LongestWait, \* the wait of a queue that has nothing to do, 2^16 - 1 ms
          MaxDatagrams,
          MaxTime      \* the clock stops here unless a packet waits for it

ASSUME FrontEndsAssumption ==
  /\ Delay \in Nat /\ Samples \subseteq Nat
  /\ Longest \in Nat \ {0} /\ LongestWait \in Nat \ {0}

VARIABLES kind,      \* which shell
          impaired,  \* whether the command line named this direction
          clock,     \* timestamp()
          setBack,   \* whether the clock was ever set back
          packets,   \* packet_queue_: the packets' release times, 0 without a delay
          on, nextSwitch,   \* link_is_on_, next_switch_time_
          pc,        \* where the ferry is
          tun, sent, \* datagrams waiting in the TUN device, and all so far
          lost,      \* datagrams dropped
          asked,     \* when wait_time() read the clock
          awake,     \* how long the ferry has since then been out of poll()
          before,    \* and how long in the turn before
          wait,      \* what it returned
          polled,    \* when poll() started
          interest, revents, \* as in the Poller
          wrote      \* whether the callback has written its descriptor

queueVars == <<packets, on, nextSwitch>>
loopVars == <<pc, asked, wait, polled, interest, revents, wrote>>
history == <<awake, before>>
frontVars == <<kind, impaired, clock, setBack, queueVars, tun, sent, lost, loopVars,
               history>>

FrontInit ==
  /\ kind \in Kinds /\ impaired \in BOOLEAN
  /\ impaired => kind \in {"iid", "switching"}
  /\ clock = 0 /\ setBack = FALSE
  /\ packets = <<>> /\ on = FALSE /\ nextSwitch = clock
  /\ tun = 0 /\ sent = 0 /\ lost = 0
  /\ pc = "turn" /\ asked = 0 /\ wait = 0 /\ polled = 0
  /\ interest = {} /\ revents = {} /\ wrote = FALSE
  /\ awake = 0 /\ before = 0
----
ReadyNow == interest \ (IF tun = 0 THEN {"tun"} ELSE {})
Expired == clock >= polled + wait

\* The kernel wakes the ferry on time.
ClockTicks ==
  /\ clock < MaxTime \/ \E k \in DOMAIN packets : clock < packets[k]
  /\ pc = "poll" => ReadyNow = {} /\ ~Expired
  /\ clock' = clock + 1
  /\ awake' = IF pc = "poll" THEN awake ELSE awake + 1
  /\ UNCHANGED <<kind, impaired, setBack, queueVars, tun, sent, lost, loopVars, before>>

\* poll() measures its timeout on another clock.
ClockIsSetBack ==
  /\ ~setBack /\ clock > 0
  /\ setBack' = TRUE /\ clock' = clock - 1 /\ polled' = polled - 1
  /\ UNCHANGED <<kind, impaired, queueVars, tun, sent, lost,
                 pc, asked, wait, interest, revents, wrote, history>>

FrontArrives ==
  /\ sent < MaxDatagrams
  /\ tun' = tun + 1 /\ sent' = sent + 1
  /\ UNCHANGED <<kind, impaired, clock, setBack, queueVars, lost, loopVars, history>>
----
\* bound(sample) of the distribution of the state just entered.  A direction
\* that the command line does not name has a mean on-time of the largest double,
\* which always yields the bound, and a mean off-time of zero, which yields 0.
Periods(isOn) ==
  IF impaired THEN {IF x > Longest THEN Longest ELSE x : x \in Samples}
  ELSE IF isOn THEN {Longest} ELSE {0}

AskWaitTime ==
  /\ pc = "turn"
  /\ pc' = "asking" /\ asked' = clock
  /\ before' = awake /\ awake' = 0
  /\ UNCHANGED <<kind, impaired, clock, setBack, queueVars, tun, sent, lost,
                 wait, polled, interest, revents, wrote>>

\* Slip: a switch that is due now is left.
LateSwitchIsDue == kind = "switching" /\ nextSwitch < asked

SwitchIsDue == kind = "switching" /\ nextSwitch <= asked

\* One turn of the loop in SwitchingLink::wait_time().
Switch(p) ==
  /\ pc = "asking" /\ SwitchIsDue
  /\ p \in Periods(~on)
  /\ on' = ~on /\ nextSwitch' = nextSwitch + p
  /\ UNCHANGED <<kind, impaired, clock, setBack, packets, tun, sent, lost, loopVars,
                 history>>

AtMost(a, b) == IF a < b THEN a ELSE b

\* Slip: the wait is that of the packet that came last.
WaitForLast ==
  CASE packets = <<>> /\ kind = "switching" -> AtMost(nextSwitch - asked, LongestWait)
    [] packets = <<>> /\ kind # "switching" -> LongestWait
    [] packets # <<>> /\ kind = "delay" ->
         IF packets[Len(packets)] <= asked THEN 0 ELSE packets[Len(packets)] - asked
    [] OTHER -> 0

\* wait_time() of the four queues, once the switches are made.
Wait ==
  CASE packets = <<>> /\ kind = "switching" -> AtMost(nextSwitch - asked, LongestWait)
    [] packets = <<>> /\ kind # "switching" -> LongestWait
    [] packets # <<>> /\ kind = "delay" ->
         IF packets[1] <= asked THEN 0 ELSE packets[1] - asked
    [] OTHER -> 0

WaitTimeReturns ==
  /\ pc = "asking" /\ ~SwitchIsDue
  /\ wait' = Wait /\ pc' = "interest"
  /\ UNCHANGED <<kind, impaired, clock, setBack, queueVars, tun, sent, lost,
                 asked, polled, interest, revents, wrote, history>>

\* The test of pending_output() and of the loop in write_packets(), at a clock
\* of their own each time.
Releasable == packets # <<>> /\ (kind = "delay" => packets[1] <= clock)

PendingOutput == Releasable

\* Poller::poll() asks which actions are of interest.  These queues are never
\* finished().
AskInterest ==
  /\ pc = "interest"
  /\ interest' = {"tun"} \cup (IF PendingOutput THEN {"write"} ELSE {})
  /\ pc' = "polling"
  /\ UNCHANGED <<kind, impaired, clock, setBack, queueVars, tun, sent, lost,
                 asked, wait, polled, revents, wrote, history>>

\* ::poll() counts its timeout from here.
PollBegins ==
  /\ pc = "polling"
  /\ polled' = clock /\ pc' = "poll"
  /\ UNCHANGED <<kind, impaired, clock, setBack, queueVars, tun, sent, lost,
                 asked, wait, interest, revents, wrote, history>>

PollExpires ==
  /\ pc = "poll" /\ ReadyNow = {}
  /\ Expired \/ clock >= MaxTime   \* MaxTime stands for any later time
  /\ pc' = "turn"
  /\ UNCHANGED <<kind, impaired, clock, setBack, queueVars, tun, sent, lost,
                 asked, wait, polled, interest, revents, wrote, history>>

PollIsReady ==
  /\ pc = "poll" /\ ReadyNow # {}
  /\ revents' = ReadyNow /\ pc' = "callbacks"
  /\ UNCHANGED <<kind, impaired, clock, setBack, queueVars, tun, sent, lost,
                 asked, wait, polled, interest, wrote, history>>

\* drop_packet(): by lot (a rate of 0 drops none), or while the link is off.
MayDrop == \/ kind = "iid" /\ impaired
           \/ kind = "switching" /\ ~on
MayKeep == kind = "switching" => on

\* The TUN callback: read_packet() stamps the packet with a clock of its own.
ReadsPacket ==
  /\ pc = "callbacks" /\ "tun" \in revents
  /\ tun' = tun - 1 /\ revents' = revents \ {"tun"}
  /\ \/ /\ MayKeep
        /\ packets' = Append(packets, IF kind = "delay" THEN clock + Delay ELSE 0)
        /\ lost' = lost
     \/ MayDrop /\ lost' = lost + 1 /\ packets' = packets
  /\ UNCHANGED <<kind, impaired, clock, setBack, on, nextSwitch, sent,
                 pc, asked, wait, polled, interest, wrote, history>>

WritingStarts ==
  /\ pc = "callbacks" /\ "tun" \notin revents /\ "write" \in revents
  /\ pc' = "writing" /\ wrote' = FALSE /\ revents' = revents \ {"write"}
  /\ UNCHANGED <<kind, impaired, clock, setBack, queueVars, tun, sent, lost,
                 asked, wait, polled, interest, history>>

WritesPacket ==
  /\ pc = "writing" /\ Releasable
  /\ packets' = Tail(packets) /\ wrote' = TRUE
  /\ UNCHANGED <<kind, impaired, clock, setBack, on, nextSwitch, tun, sent, lost,
                 pc, asked, wait, polled, interest, revents, history>>

\* A callback that wrote nothing is a busy wait, and the Poller throws.
WritingEnds ==
  /\ pc = "writing" /\ ~Releasable
  /\ pc' = IF wrote THEN "callbacks" ELSE "threw"
  /\ UNCHANGED <<kind, impaired, clock, setBack, queueVars, tun, sent, lost,
                 asked, wait, polled, interest, revents, wrote, history>>

CallbacksEnd ==
  /\ pc = "callbacks" /\ revents = {}
  /\ pc' = "turn"
  /\ UNCHANGED <<kind, impaired, clock, setBack, queueVars, tun, sent, lost,
                 asked, wait, polled, interest, revents, wrote, history>>

FrontRuns ==
  \/ AskWaitTime \/ \E p \in Samples \cup {0, Longest} : Switch(p)
  \/ WaitTimeReturns \/ AskInterest \/ PollBegins \/ PollExpires \/ PollIsReady
  \/ ReadsPacket \/ WritingStarts \/ WritesPacket \/ WritingEnds \/ CallbacksEnd

FrontNext == ClockTicks \/ ClockIsSetBack \/ FrontArrives \/ FrontRuns

----
\* With a clock that nobody sets back, all that makes a ferry late is the time that
\* it is out of poll(), in this turn and the one before: so long at most a packet
\* waits after its release, however many others have come since; so long ago, in
\* this turn, was the switch by which drop_packet() should have judged a datagram
\* (delay_queue.cc:24, loss_queue.cc:57).  A clock that ticks between the reading in
\* wait_time() and the start of poll() does make it sleep so much longer.
LateOnlyWhileAwake ==
  ~setBack =>
    /\ kind = "delay" =>
         \A k \in DOMAIN packets : clock <= packets[k] + awake + before
    /\ kind = "switching" /\ pc = "callbacks" => clock <= nextSwitch + awake
    /\ kind # "delay" /\ pc = "poll" /\ "write" \notin interest => packets = <<>>

\* The direction that the command line does not name loses nothing, though its
\* link starts off and is switched off again at each bound of its on-time
\* (onoffshell.cc, lossshell.cc).
OtherDirectionLosesNothing == ~impaired => lost = 0
====

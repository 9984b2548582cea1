---- MODULE LinkFerry ----
(***************************************************************************)
(* The process that carries packets across an emulated link: Ferry::loop() *)
(* drives a LinkQueue with the Poller.  Each turn asks the link how long it *)
(* may sleep, computes from the state of that moment which of the three    *)
(* actions (read the TUN device, write to the sibling's, exit) is of       *)
(* interest, polls, and calls back the ready ones in that order.           *)
(***************************************************************************)
EXTENDS LinkQueue

VARIABLES pc,        \* where the loop is
          tun,       \* datagrams waiting in the TUN device
          interest,  \* the pollfds with events set: "tun", "write", "exit"
          revents,   \* ready ones whose callback has not been called yet
          deadline   \* when ::poll() times out

ferry == <<pc, tun, interest, revents, deadline>>
ferryVars == <<vars, ferry>>

\* The timeout of a finished link is negative: poll() waits for an event.
Forever == -1

FerryInit ==
  /\ Init
  /\ pc = "turn" /\ tun = 0
  /\ interest = {} /\ revents = {} /\ deadline = Forever

\* The clock of this composition only moves forward, a millisecond at a time.
FerryTick ==
  /\ clock < MaxClock
  /\ clock' = clock + 1
  /\ UNCHANGED <<trace, packets, call, opp, arrived, ferry>>

DatagramArrives ==
  /\ pc # "exited"
  /\ tun + arrived + (IF call.op = "read_packet" THEN 1 ELSE 0) < MaxArrivals
  /\ tun' = tun + 1
  /\ UNCHANGED <<vars, pc, interest, revents, deadline>>

\* internal_loop(): the argument of poll() is evaluated first.
CallWaitTime ==
  /\ pc = "turn"
  /\ WaitTime
  /\ pc' = "wait_time"
  /\ UNCHANGED <<tun, interest, revents, deadline>>

\* The steps a method of the link takes before it returns.
LinkRuns ==
  /\ UseOpportunity \/ StartPacket(Front(queue)) \/ SendBytes \/ EndOpportunity
  /\ UNCHANGED ferry

\* Slips: an action is of interest always, or never.
AlwaysWriting == {"tun", "write"} \cup (IF finished THEN {"exit"} ELSE {})
NeverExiting == {"tun"} \cup (IF output # <<>> THEN {"write"} ELSE {})

\* The actions of interest: tun always, write if pending_output(), exit if
\* finished().
Interest == {"tun"} \cup (IF output # <<>> THEN {"write"} ELSE {})
                    \cup (IF finished THEN {"exit"} ELSE {})

\* wait_time() returns; poll() computes what it is interested in and sleeps.
PollStarts ==
  /\ pc = "wait_time"
  /\ ReturnWait
  /\ deadline' = IF finished THEN Forever
                 ELSE clock + (NextDeliveryTime - call.now)
  /\ interest' = Interest
  /\ pc' = "poll"
  /\ UNCHANGED <<tun, revents>>

\* The sibling's TUN device is always ready for writing.
Ready == interest \ (IF tun = 0 THEN {"tun"} ELSE {})

PollTimesOut ==
  /\ pc = "poll"
  /\ Ready = {} /\ deadline # Forever
  /\ clock >= deadline \/ clock = MaxClock   \* MaxClock stands for any later time
  /\ pc' = "turn"
  /\ UNCHANGED <<vars, tun, interest, revents, deadline>>

PollReturns ==
  /\ pc = "poll"
  /\ Ready # {}
  /\ revents' = Ready
  /\ pc' = "callbacks"
  /\ UNCHANGED <<vars, tun, interest, deadline>>

TunCallback(size, ecn) ==
  /\ pc = "callbacks" /\ "tun" \in revents
  /\ ReadPacket(size, ecn)
  /\ tun' = tun - 1
  /\ revents' = revents \ {"tun"}
  /\ pc' = "reading"
  /\ UNCHANGED <<interest, deadline>>

TunCallbackReturns ==
  /\ pc = "reading"
  /\ EnqueuePacket
  /\ pc' = "callbacks"
  /\ UNCHANGED <<tun, interest, revents, deadline>>

\* A callback that did not write its descriptor is a busy wait: the Poller
\* throws.
WriteCallback ==
  /\ pc = "callbacks" /\ "tun" \notin revents /\ "write" \in revents
  /\ WritePackets
  /\ revents' = revents \ {"write"}
  /\ pc' = IF output = <<>> THEN "threw" ELSE pc
  /\ UNCHANGED <<tun, interest, deadline>>

\* Slip: the exit action is looked at before the others.
ExitFirst ==
  /\ pc = "callbacks" /\ "exit" \in revents
  /\ pc' = "exited"
  /\ UNCHANGED <<vars, tun, interest, revents, deadline>>

ExitCallback ==
  /\ pc = "callbacks" /\ revents = {"exit"}
  /\ pc' = "exited"
  /\ UNCHANGED <<vars, tun, interest, revents, deadline>>

TurnEnds ==
  /\ pc = "callbacks" /\ revents = {}
  /\ pc' = "turn"
  /\ UNCHANGED <<vars, tun, interest, revents, deadline>>

FerryStep ==
  \/ CallWaitTime \/ LinkRuns \/ PollStarts \/ PollTimesOut \/ PollReturns
  \/ \E size \in Sizes, ecn \in Ecns : TunCallback(size, ecn)
  \/ TunCallbackReturns \/ WriteCallback \/ ExitCallback \/ TurnEnds

FerryNext == FerryTick \/ DatagramArrives \/ FerryStep

\* The process keeps running and time passes; datagrams need not arrive.
FerrySpec ==
  /\ FerryInit /\ [][FerryNext]_ferryVars
  /\ WF_ferryVars(FerryStep) /\ WF_ferryVars(FerryTick)
----
\* A ferry does not exit over packets that have left the link: all that the
\* link delivered has been written to the sibling's device by then, though the
\* trace may run out inside either callback or inside wait_time().
ExitsFlushed == pc = "exited" => output = <<>>

\* The Poller's busy-wait check never ends a ferry (poller.cc:71): when
\* write_packets() is called there is something to write, although interest was
\* computed before the TUN callback ran.
NeverThrows == pc # "threw"

\* A ferry whose trace ends exits (a packetshell stays up until both do).
FerryExits == <>(pc = "exited")
====

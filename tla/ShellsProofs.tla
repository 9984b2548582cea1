---- MODULE ShellsProofs ----
(***************************************************************************)
(* What holds of the shells without a trace for every delay, distribution, *)
(* number of datagrams, set of addresses and number of signals: of their   *)
(* ferries, of how their processes are set up and taken down, of the live  *)
(* graph, and of the loop in which a process supervises its children.      *)
(***************************************************************************)
EXTENDS Shells, EventLoop, WellFoundedInduction, TLAPS
----
(***************************************************************************)
(* The ferries (FrontEnds).                                                *)
(***************************************************************************)
FrontTypeOK ==
  /\ clock \in Nat /\ asked \in Nat /\ nextSwitch \in Nat
  /\ wait \in Nat /\ polled \in Int /\ awake \in Nat /\ before \in Nat
  /\ packets \in Seq(Nat) /\ on \in BOOLEAN /\ lost \in Nat
  /\ setBack \in BOOLEAN /\ impaired \in BOOLEAN

\* The link of a direction that is not named is on whenever a datagram may be
\* read; it is off only at the very start, and between the two switches that
\* wait_time() makes when the bound of its on-time is reached.
OtherLinkIsOn ==
  ~impaired /\ kind = "switching" =>
    /\ pc \in {"interest", "polling", "poll", "callbacks", "writing", "threw"} => on
    /\ pc = "turn" => on \/ nextSwitch = 0
    /\ pc = "asking" => on \/ nextSwitch <= asked

\* Up to poll() the ferry has been awake since it read the clock; poll() counts
\* its timeout from there.
AwakeSinceReading ==
  ~setBack =>
    /\ pc \in {"asking", "interest", "polling"} => clock = asked + awake
    /\ pc = "poll" => polled = asked + awake

\* Packets stamped by a clock that nobody sets back leave in the order they came.
ReleasesInOrder ==
  ~setBack /\ kind = "delay" =>
    /\ \A k \in DOMAIN packets : packets[k] <= clock + Delay
    /\ \A j, k \in DOMAIN packets : j <= k => packets[j] <= packets[k]

\* A write has been promised, or is being made.
WillWrite ==
  \/ pc \in {"polling", "poll"} /\ "write" \in interest
  \/ pc = "callbacks" /\ "write" \in revents
  \/ pc = "writing"

\* What wait_time() returned ends at the next event, unless there is one now, which
\* the next question to the queue shows.
WaitEndsInTime ==
  ~setBack /\ pc \in {"interest", "polling", "poll"} =>
    /\ kind = "switching" => asked + wait <= nextSwitch
    /\ kind = "delay" =>
         \A k \in DOMAIN packets :
           \/ asked + wait <= packets[k] \/ WillWrite
           \/ pc = "interest" /\ packets[1] <= asked

\* The queues without a delay offer what they hold.
NothingIsHeldBack ==
  kind # "delay" /\ pc \in {"polling", "poll"} /\ "write" \notin interest
    => packets = <<>>

\* How late a ferry is in each part of its turn.
LateInTurn ==
  ~setBack =>
    /\ kind = "delay" =>
         \A k \in DOMAIN packets :
           /\ clock <= packets[k] + awake + before
           /\ pc \in {"asking", "interest"} \/ WillWrite
              \/ clock <= packets[k] + awake
    /\ kind = "switching" /\ pc \in {"interest", "polling", "poll", "callbacks", "writing"}
         => clock <= nextSwitch + awake

FrontIInv ==
  /\ FrontTypeOK
  /\ OtherLinkIsOn /\ OtherDirectionLosesNothing
  /\ AwakeSinceReading /\ ReleasesInOrder /\ WaitEndsInTime
  /\ NothingIsHeldBack /\ LateInTurn

LEMMA InitFrontIInv == FrontInit => FrontIInv
  <1> SUFFICES ASSUME FrontInit
               PROVE  FrontIInv
    OBVIOUS
  <1>1. FrontTypeOK
    <2>1. /\ clock = 0 /\ asked = 0 /\ nextSwitch = 0 /\ lost = 0 /\ packets = <<>>
          /\ wait = 0 /\ polled = 0 /\ awake = 0 /\ before = 0
      BY DEF FrontInit
    <2>2. on \in BOOLEAN /\ setBack \in BOOLEAN /\ impaired \in BOOLEAN
      BY Zenon DEF FrontInit
    <2> QED BY <2>1, <2>2 DEF FrontTypeOK
  <1>2. OtherLinkIsOn /\ OtherDirectionLosesNothing
    BY DEF FrontInit, OtherLinkIsOn, OtherDirectionLosesNothing
  <1>3. AwakeSinceReading /\ WaitEndsInTime /\ NothingIsHeldBack
    BY DEF FrontInit, AwakeSinceReading, WaitEndsInTime, NothingIsHeldBack
  <1>4. ReleasesInOrder /\ LateInTurn
    BY DEF FrontInit, ReleasesInOrder, LateInTurn
  <1> QED BY <1>1, <1>2, <1>3, <1>4 DEF FrontIInv

\* The clock.  While the ferry is in poll() it goes no further than the timeout, and
\* not at all when a write is offered there.
LEMMA TickKeepsFrontIInv ==
  ASSUME FrontIInv, ClockTicks
  PROVE  FrontIInv'
  <1> USE DEF FrontIInv, ClockTicks, queueVars, loopVars
  <1>1. FrontTypeOK'
    BY DEF FrontTypeOK
  <1>2. OtherLinkIsOn' /\ OtherDirectionLosesNothing' /\ NothingIsHeldBack'
    BY DEF OtherLinkIsOn, OtherDirectionLosesNothing, NothingIsHeldBack
  <1>3. AwakeSinceReading' /\ WaitEndsInTime'
    BY DEF AwakeSinceReading, WaitEndsInTime, WillWrite, FrontTypeOK
  <1>4. ReleasesInOrder'
    BY FrontEndsAssumption DEF ReleasesInOrder, FrontTypeOK
  <1>5. LateInTurn'
    <2>1. \A k \in DOMAIN packets : packets[k] \in Nat
      BY DEF FrontTypeOK
    <2>2. CASE pc = "poll"
      <3>1. ~WillWrite /\ clock < polled + wait
        <4>1. ReadyNow = {} /\ ~Expired
          BY <2>2
        <4>2. "write" \notin interest
          BY <4>1 DEF ReadyNow
        <4> QED BY <2>2, <4>1, <4>2 DEF WillWrite, Expired, FrontTypeOK
      <3>2. ~setBack => clock + 1 <= asked + awake + wait
        BY <2>2, <3>1 DEF AwakeSinceReading, FrontTypeOK
      <3> QED BY <2>1, <2>2, <3>1, <3>2 DEF LateInTurn, WaitEndsInTime, FrontTypeOK
    <2>3. CASE pc # "poll"
      BY <2>1, <2>3 DEF LateInTurn, WillWrite, FrontTypeOK
    <2> QED BY <2>2, <2>3
  <1> QED BY <1>1, <1>2, <1>3, <1>4, <1>5

LEMMA SetBackKeepsFrontIInv ==
  ASSUME FrontIInv, ClockIsSetBack
  PROVE  FrontIInv'
  BY DEF FrontIInv, ClockIsSetBack, queueVars, history, FrontTypeOK, OtherLinkIsOn,
         OtherDirectionLosesNothing, AwakeSinceReading, ReleasesInOrder,
         WaitEndsInTime, NothingIsHeldBack, LateInTurn

\* A step that leaves the clock, the queue and where the ferry is alone.
LEMMA ArrivalKeepsFrontIInv ==
  ASSUME FrontIInv, FrontArrives
  PROVE  FrontIInv'
  BY DEF FrontIInv, FrontArrives, queueVars, loopVars, history, FrontTypeOK,
         OtherLinkIsOn, OtherDirectionLosesNothing, AwakeSinceReading,
         ReleasesInOrder, WaitEndsInTime, NothingIsHeldBack, LateInTurn, WillWrite

\* With a new reading of the clock the time awake becomes that of the turn before.
LEMMA AskKeepsFrontIInv ==
  ASSUME FrontIInv, AskWaitTime
  PROVE  FrontIInv'
  <1> USE DEF FrontIInv, AskWaitTime, queueVars
  <1>1. FrontTypeOK'
    BY DEF FrontTypeOK
  <1>2. /\ OtherLinkIsOn' /\ OtherDirectionLosesNothing' /\ NothingIsHeldBack'
        /\ WaitEndsInTime' /\ ReleasesInOrder'
    BY DEF OtherLinkIsOn, OtherDirectionLosesNothing, NothingIsHeldBack,
           WaitEndsInTime, ReleasesInOrder, FrontTypeOK
  <1>3. AwakeSinceReading'
    BY DEF AwakeSinceReading, FrontTypeOK
  <1>4. LateInTurn'
    <2>1. \A k \in DOMAIN packets : packets[k] \in Nat
      BY DEF FrontTypeOK
    <2>2. pc = "turn" /\ ~WillWrite
      BY DEF WillWrite
    <2> QED BY <2>1, <2>2 DEF LateInTurn, FrontTypeOK
  <1> QED BY <1>1, <1>2, <1>3, <1>4

\* The unnamed direction stays on for the bound, and off for no time at all.
LEMMA SwitchKeepsFrontIInv ==
  ASSUME FrontIInv, NEW p \in Samples \cup {0, Longest}, Switch(p)
  PROVE  FrontIInv'
  <1> USE DEF FrontIInv, Switch, SwitchIsDue, loopVars, history
  <1>1. p \in Nat
    BY FrontEndsAssumption
  <1>2. FrontTypeOK'
    BY <1>1 DEF FrontTypeOK
  <1>3. OtherLinkIsOn'
    <2>1. CASE impaired
      BY <2>1 DEF OtherLinkIsOn
    <2>2. CASE ~impaired /\ on
      <3>1. on' = FALSE /\ nextSwitch' = nextSwitch /\ asked' = asked /\ pc' = "asking"
        BY <2>2 DEF Periods, FrontTypeOK
      <3>2. nextSwitch <= asked
        OBVIOUS
      <3> QED BY <3>1, <3>2 DEF OtherLinkIsOn
    <2>3. CASE ~impaired /\ ~on
      BY <2>3 DEF OtherLinkIsOn, FrontTypeOK
    <2> QED BY <2>1, <2>2, <2>3 DEF FrontTypeOK
  <1>4. OtherDirectionLosesNothing' /\ AwakeSinceReading' /\ NothingIsHeldBack'
    BY DEF OtherDirectionLosesNothing, AwakeSinceReading, NothingIsHeldBack
  <1>5. ReleasesInOrder' /\ WaitEndsInTime' /\ LateInTurn'
    BY DEF ReleasesInOrder, WaitEndsInTime, LateInTurn
  <1> QED BY <1>2, <1>3, <1>4, <1>5

\* The wait that a queue reports ends at its next event, if it has one.
LEMMA WaitIsShort ==
  ASSUME FrontTypeOK, ~SwitchIsDue
  PROVE  /\ Wait \in Nat
         /\ kind = "switching" => asked + Wait <= nextSwitch
         /\ packets # <<>> /\ kind = "delay" /\ asked <= packets[1]
               => asked + Wait <= packets[1]
  <1>1. kind = "switching" => asked < nextSwitch
    BY DEF SwitchIsDue, FrontTypeOK
  <1>2. CASE packets = <<>> /\ kind = "switching"
    <2>1. Wait = AtMost(nextSwitch - asked, LongestWait)
      BY <1>2 DEF Wait
    <2> QED BY <1>1, <1>2, <2>1, FrontEndsAssumption DEF AtMost, FrontTypeOK
  <1>3. CASE packets = <<>> /\ kind # "switching"
    <2>1. Wait = LongestWait
      BY <1>3 DEF Wait
    <2> QED BY <1>3, <2>1, FrontEndsAssumption
  <1>4. CASE packets # <<>> /\ kind = "delay"
    <2>1. packets[1] \in Nat
      BY <1>4 DEF FrontTypeOK
    <2>2. Wait = IF packets[1] <= asked THEN 0 ELSE packets[1] - asked
      BY <1>4 DEF Wait
    <2> QED BY <1>4, <2>1, <2>2 DEF FrontTypeOK
  <1>5. CASE packets # <<>> /\ kind # "delay"
    <2>1. Wait = 0
      BY <1>5 DEF Wait
    <2> QED BY <1>1, <1>5, <2>1 DEF FrontTypeOK
  <1> QED BY <1>2, <1>3, <1>4, <1>5

LEMMA WaitKeepsFrontIInv ==
  ASSUME FrontIInv, WaitTimeReturns
  PROVE  FrontIInv'
  <1> USE DEF FrontIInv, WaitTimeReturns, queueVars, history
  <1>1. FrontTypeOK'
    BY WaitIsShort DEF FrontTypeOK
  <1>2. OtherLinkIsOn'
    BY DEF OtherLinkIsOn, SwitchIsDue, FrontTypeOK
  <1>3. OtherDirectionLosesNothing' /\ AwakeSinceReading' /\ NothingIsHeldBack'
    BY DEF OtherDirectionLosesNothing, AwakeSinceReading, NothingIsHeldBack
  <1>4. ReleasesInOrder'
    BY DEF ReleasesInOrder
  <1>5. WaitEndsInTime'
    <2> SUFFICES ASSUME ~setBack
                 PROVE  /\ kind = "switching" => asked + Wait <= nextSwitch
                        /\ kind = "delay" =>
                             \A k \in DOMAIN packets :
                               asked + Wait <= packets[k] \/ packets[1] <= asked
      BY DEF WaitEndsInTime
    <2>1. ASSUME kind = "delay", NEW k \in DOMAIN packets, ~(packets[1] <= asked)
          PROVE  asked + Wait <= packets[k]
      <3>1. packets # <<>> /\ 1 \in DOMAIN packets /\ 1 <= k
        BY DEF FrontTypeOK
      <3>2. packets[1] \in Nat /\ packets[k] \in Nat
        BY <3>1 DEF FrontTypeOK
      <3>3. packets[1] <= packets[k]
        BY <2>1, <3>1 DEF ReleasesInOrder
      <3>4. asked + Wait <= packets[1]
        BY <2>1, <3>1, <3>2, WaitIsShort DEF FrontTypeOK
      <3> QED BY <3>2, <3>3, <3>4, WaitIsShort DEF FrontTypeOK
    <2> QED BY <2>1, WaitIsShort
  <1>6. LateInTurn'
    <2>1. kind = "switching" /\ ~setBack => clock <= nextSwitch + awake
      BY DEF SwitchIsDue, AwakeSinceReading, FrontTypeOK
    <2> QED BY <2>1 DEF LateInTurn
  <1> QED BY <1>1, <1>2, <1>3, <1>4, <1>5, <1>6

\* A queue that offers nothing has no packet that is due.
LEMMA NotReleasable ==
  ASSUME FrontIInv, ~Releasable, ~setBack, kind = "delay", NEW k \in DOMAIN packets
  PROVE  clock < packets[1] /\ packets[1] <= packets[k] /\ packets[1] \in Nat
         /\ packets[k] \in Nat
  <1>1. packets # <<>> /\ 1 \in DOMAIN packets /\ 1 <= k
    BY DEF FrontIInv, FrontTypeOK
  <1>2. packets[1] \in Nat /\ packets[k] \in Nat
    BY <1>1 DEF FrontIInv, FrontTypeOK
  <1>3. ~(packets[1] <= clock)
    BY <1>1 DEF Releasable
  <1>4. packets[1] <= packets[k]
    BY <1>1 DEF FrontIInv, ReleasesInOrder
  <1> QED BY <1>2, <1>3, <1>4 DEF FrontIInv, FrontTypeOK

LEMMA InterestKeepsFrontIInv ==
  ASSUME FrontIInv, AskInterest
  PROVE  FrontIInv'
  <1> USE DEF FrontIInv, AskInterest, queueVars, history
  <1>1. FrontTypeOK' /\ OtherLinkIsOn' /\ OtherDirectionLosesNothing'
    BY DEF FrontTypeOK, OtherLinkIsOn, OtherDirectionLosesNothing
  <1>2. AwakeSinceReading' /\ ReleasesInOrder'
    BY DEF AwakeSinceReading, ReleasesInOrder
  <1>3. NothingIsHeldBack'
    BY DEF NothingIsHeldBack, PendingOutput, Releasable
  <1>4. ~WillWrite' => ~Releasable
    BY DEF WillWrite, PendingOutput
  <1>5. ASSUME ~setBack, kind = "delay", NEW k \in DOMAIN packets, ~WillWrite'
        PROVE  asked + wait <= packets[k] /\ clock <= packets[k] + awake
    <2>1. /\ clock < packets[1] /\ packets[1] <= packets[k]
          /\ packets[1] \in Nat /\ packets[k] \in Nat
      BY <1>4, <1>5, NotReleasable
    <2>2. ~(packets[1] <= asked)
      BY <1>5, <2>1 DEF AwakeSinceReading, FrontTypeOK
    <2>3. asked + wait <= packets[k]
      BY <1>5, <2>2 DEF WaitEndsInTime, WillWrite
    <2> QED BY <2>1, <2>3 DEF FrontTypeOK
  <1>6. WaitEndsInTime'
    BY <1>5 DEF WaitEndsInTime
  <1>7. LateInTurn'
    BY <1>5 DEF LateInTurn
  <1> QED BY <1>1, <1>2, <1>3, <1>6, <1>7

LEMMA PollKeepsFrontIInv ==
  ASSUME FrontIInv, PollBegins
  PROVE  FrontIInv'
  <1> USE DEF FrontIInv, PollBegins, queueVars, history
  <1>1. FrontTypeOK' /\ OtherLinkIsOn' /\ OtherDirectionLosesNothing'
    BY DEF FrontTypeOK, OtherLinkIsOn, OtherDirectionLosesNothing
  <1>2. AwakeSinceReading' /\ ReleasesInOrder' /\ NothingIsHeldBack'
    BY DEF AwakeSinceReading, ReleasesInOrder, NothingIsHeldBack
  <1>3. WaitEndsInTime' /\ LateInTurn'
    BY DEF WaitEndsInTime, LateInTurn, WillWrite
  <1> QED BY <1>1, <1>2, <1>3

\* poll() returns: with the timeout only when no write is offered, and otherwise
\* with each descriptor that is ready.
LEMMA ReturnKeepsFrontIInv ==
  ASSUME FrontIInv, PollExpires \/ PollIsReady
  PROVE  FrontIInv'
  <1> USE DEF FrontIInv, PollExpires, PollIsReady, queueVars, history
  <1>1. FrontTypeOK' /\ OtherLinkIsOn' /\ OtherDirectionLosesNothing'
    BY DEF FrontTypeOK, OtherLinkIsOn, OtherDirectionLosesNothing
  <1>2. AwakeSinceReading' /\ ReleasesInOrder' /\ NothingIsHeldBack' /\ WaitEndsInTime'
    BY DEF AwakeSinceReading, ReleasesInOrder, NothingIsHeldBack, WaitEndsInTime
  <1>3. WillWrite => WillWrite'
    BY DEF WillWrite, ReadyNow
  <1>4. LateInTurn'
    BY <1>3 DEF LateInTurn
  <1> QED BY <1>1, <1>2, <1>4

LEMMA ReadKeepsFrontIInv ==
  ASSUME FrontIInv, ReadsPacket
  PROVE  FrontIInv'
  <1> USE DEF FrontIInv, ReadsPacket, history
  <1>1. FrontTypeOK'
    BY FrontEndsAssumption DEF FrontTypeOK, MayDrop
  <1>2. OtherLinkIsOn' /\ AwakeSinceReading' /\ NothingIsHeldBack' /\ WaitEndsInTime'
    BY DEF OtherLinkIsOn, AwakeSinceReading, NothingIsHeldBack, WaitEndsInTime
  <1>3. OtherDirectionLosesNothing'
    <2>1. MayDrop => impaired
      BY DEF MayDrop, OtherLinkIsOn
    <2> QED BY <2>1 DEF OtherDirectionLosesNothing
  <1>4. WillWrite' <=> WillWrite
    BY DEF WillWrite
  <1>5. CASE packets' = packets
    <2>1. ReleasesInOrder' /\ LateInTurn'
      BY <1>4, <1>5 DEF ReleasesInOrder, LateInTurn
    <2> QED BY <1>1, <1>2, <1>3, <2>1
  <1>6. CASE packets' = Append(packets, IF kind = "delay" THEN clock + Delay ELSE 0)
    <2>1. ASSUME kind = "delay", NEW k \in DOMAIN packets'
          PROVE  \/ k \in DOMAIN packets /\ packets'[k] = packets[k]
                    /\ packets[k] \in Nat /\ k <= Len(packets)
                 \/ k = Len(packets) + 1 /\ packets'[k] = clock + Delay
      BY <1>6, <2>1 DEF FrontTypeOK
    <2>2. ReleasesInOrder'
      <3> SUFFICES ASSUME ~setBack, kind = "delay"
                   PROVE  /\ \A k \in DOMAIN packets' : packets'[k] <= clock + Delay
                          /\ \A j, k \in DOMAIN packets' :
                               j <= k => packets'[j] <= packets'[k]
        BY DEF ReleasesInOrder
      <3>1. ASSUME NEW k \in DOMAIN packets'
            PROVE  packets'[k] <= clock + Delay
        BY <2>1, FrontEndsAssumption DEF ReleasesInOrder, FrontTypeOK
      <3>2. ASSUME NEW j \in DOMAIN packets', NEW k \in DOMAIN packets', j <= k
            PROVE  packets'[j] <= packets'[k]
        <4>1. CASE k = Len(packets) + 1
          <5>1. packets'[k] = clock + Delay
            BY <2>1, <4>1 DEF FrontTypeOK
          <5> QED BY <3>1, <5>1
        <4>2. CASE k # Len(packets) + 1
          <5>1. k \in DOMAIN packets /\ packets'[k] = packets[k] /\ k <= Len(packets)
            BY <2>1, <4>2
          <5>2. j \in DOMAIN packets /\ packets'[j] = packets[j]
            BY <2>1, <3>2, <5>1 DEF FrontTypeOK
          <5> QED BY <3>2, <5>1, <5>2 DEF ReleasesInOrder
        <4> QED BY <4>1, <4>2
      <3> QED BY <3>1, <3>2
    <2>3. LateInTurn'
      <3>1. ASSUME ~setBack, kind = "delay", NEW k \in DOMAIN packets'
            PROVE  /\ clock <= packets'[k] + awake + before
                   /\ WillWrite \/ clock <= packets'[k] + awake
        <4>1. CASE k \in DOMAIN packets /\ packets'[k] = packets[k]
          BY <3>1, <4>1 DEF LateInTurn
        <4>2. CASE packets'[k] = clock + Delay
          BY <4>2, FrontEndsAssumption DEF FrontTypeOK
        <4> QED BY <2>1, <3>1, <4>1, <4>2
      <3> QED BY <1>4, <3>1 DEF LateInTurn
    <2> QED BY <1>1, <1>2, <1>3, <2>2, <2>3
  <1> QED BY <1>5, <1>6

\* Writing ends when nothing is due.
LEMMA WriteKeepsFrontIInv ==
  ASSUME FrontIInv, WritingStarts \/ WritesPacket \/ WritingEnds \/ CallbacksEnd
  PROVE  FrontIInv'
  <1> USE DEF FrontIInv, queueVars, history
  <1>1. CASE WritingStarts \/ CallbacksEnd
    <2> USE <1>1 DEF WritingStarts, CallbacksEnd
    <2>1. FrontTypeOK' /\ OtherLinkIsOn' /\ OtherDirectionLosesNothing'
      BY DEF FrontTypeOK, OtherLinkIsOn, OtherDirectionLosesNothing
    <2>2. /\ AwakeSinceReading' /\ ReleasesInOrder' /\ NothingIsHeldBack'
          /\ WaitEndsInTime'
      BY DEF AwakeSinceReading, ReleasesInOrder, NothingIsHeldBack, WaitEndsInTime
    <2>3. LateInTurn'
      BY DEF LateInTurn, WillWrite
    <2> QED BY <2>1, <2>2, <2>3
  <1>2. CASE WritesPacket
    <2> USE <1>2 DEF WritesPacket
    <2>1. packets # <<>> /\ packets' = Tail(packets) /\ pc = "writing" /\ pc' = pc
      BY DEF Releasable
    <2>2. Tail(packets) \in Seq(Nat)
      BY <2>1 DEF FrontTypeOK
    <2>3. FrontTypeOK' /\ OtherLinkIsOn' /\ OtherDirectionLosesNothing'
      BY <2>1, <2>2 DEF FrontTypeOK, OtherLinkIsOn, OtherDirectionLosesNothing
    <2>4. AwakeSinceReading' /\ NothingIsHeldBack' /\ WaitEndsInTime'
      BY <2>1 DEF AwakeSinceReading, NothingIsHeldBack, WaitEndsInTime
    <2>5. ASSUME NEW k \in DOMAIN packets'
          PROVE  k + 1 \in DOMAIN packets /\ packets'[k] = packets[k + 1] /\ k \in Nat
      BY <2>1 DEF FrontTypeOK
    <2>6. ReleasesInOrder' /\ LateInTurn'
      BY <2>1, <2>5 DEF ReleasesInOrder, LateInTurn, WillWrite
    <2> QED BY <2>3, <2>4, <2>6
  <1>3. CASE WritingEnds
    <2> USE <1>3 DEF WritingEnds
    <2>1. FrontTypeOK' /\ OtherLinkIsOn' /\ OtherDirectionLosesNothing'
      BY DEF FrontTypeOK, OtherLinkIsOn, OtherDirectionLosesNothing
    <2>2. /\ AwakeSinceReading' /\ ReleasesInOrder' /\ NothingIsHeldBack'
          /\ WaitEndsInTime'
      BY DEF AwakeSinceReading, ReleasesInOrder, NothingIsHeldBack, WaitEndsInTime
    <2>3. ASSUME ~setBack, kind = "delay", NEW k \in DOMAIN packets
          PROVE  clock <= packets[k] + awake
      BY <2>3, NotReleasable DEF FrontTypeOK
    <2>4. LateInTurn'
      BY <2>3 DEF LateInTurn
    <2> QED BY <2>1, <2>2, <2>4
  <1> QED BY <1>1, <1>2, <1>3

LEMMA FrontNextKeepsIInv ==
  ASSUME FrontIInv, [FrontNext]_frontVars
  PROVE  FrontIInv'
  <1>1. CASE UNCHANGED frontVars
    BY <1>1 DEF frontVars, queueVars, loopVars, history, FrontIInv, FrontTypeOK,
                OtherLinkIsOn, OtherDirectionLosesNothing, AwakeSinceReading,
                ReleasesInOrder, WaitEndsInTime, NothingIsHeldBack, LateInTurn,
                WillWrite
  <1>2. CASE FrontRuns
    BY <1>2, AskKeepsFrontIInv, SwitchKeepsFrontIInv, WaitKeepsFrontIInv,
       InterestKeepsFrontIInv, PollKeepsFrontIInv, ReturnKeepsFrontIInv,
       ReadKeepsFrontIInv, WriteKeepsFrontIInv DEF FrontRuns
  <1> QED BY <1>1, <1>2, TickKeepsFrontIInv, SetBackKeepsFrontIInv,
             ArrivalKeepsFrontIInv DEF FrontNext

\* The other shells leave the ferry alone.
LEMMA ShellsStepIsFrontStep ==
  [ShellsNext]_shellsVars => [FrontNext]_frontVars
  BY DEF ShellsNext, shellsVars

LEMMA FrontInvariant == ShellsSpec => []FrontIInv
  <1>1. ShellsInit => FrontIInv
    BY InitFrontIInv DEF ShellsInit
  <1>2. FrontIInv /\ [ShellsNext]_shellsVars => FrontIInv'
    BY FrontNextKeepsIInv, ShellsStepIsFrontStep
  <1> QED BY <1>1, <1>2, PTL DEF ShellsSpec

\* A ferry is late only by the time that it spends out of poll(), for every delay,
\* every distribution of the periods and any number of datagrams: wait_time(),
\* pending_output() and write_packets() of DelayQueue and of SwitchingLink, in the
\* turn of the loop in which the Poller calls them.
THEOREM FerriesWakeInTime == ShellsSpec => []LateOnlyWhileAwake
  <1>1. FrontIInv => LateOnlyWhileAwake
    BY DEF FrontIInv, LateOnlyWhileAwake, LateInTurn, NothingIsHeldBack
  <1> QED BY <1>1, FrontInvariant, PTL

\* The direction that mm-loss or mm-onoff was not asked to impair loses nothing,
\* however the clock is set: its link, which starts off, is on at each
\* drop_packet().
THEOREM UnnamedDirectionIsLossless == ShellsSpec => []OtherDirectionLosesNothing
  <1>1. FrontIInv => OtherDirectionLosesNothing
    BY DEF FrontIInv
  <1> QED BY <1>1, FrontInvariant, PTL
----
(***************************************************************************)
(* Setting up and taking down (PacketShell).                               *)
(***************************************************************************)
Stages ==
  {"none", "main", "checked", "unprivileged", "base", "cleared", "privileged",
   "addressed", "proxied", "half ruled", "ruled", "constructed", "up", "started",
   "loop", "unwinding", "ended", "killed", "born", "routed", "ferry", "resolving",
   "resolved", "dropped", "environ", "commanded", "receiving", "running", "exited"}

Proc == [at : Stages, root : BOOLEAN, env : {"cleared", "user"},
         blocked : BOOLEAN, hup : BOOLEAN, status : Int]

SetupTypeOK ==
  /\ procs \in [Procs -> Proc]
  /\ waited \subseteq Procs

\* Where the environment is entered the privileges are gone already; the shell is
\* in its user's environment only while it looks for its base, and the uplink
\* enters it before it starts the command.
EnvironmentComesLast ==
  /\ \A p \in Procs : procs[p].env = "user" => ~procs[p].root
  /\ procs["shell"].env = "user" => Stage("shell") \in {"base", "killed"}
  /\ Stage("shell") = "unprivileged" => ~procs["shell"].root
  /\ \A p \in {"uplink", "downlink"} : Stage(p) = "dropped" => ~procs[p].root
  /\ Stage("uplink") = "environ" => procs["uplink"].env = "user"
  /\ Alive("command") => procs["command"].env = "user"

\* Signals are masked before the first child, and stay so.
MaskedWithChildren ==
  /\ Stage("shell") \in {"constructed", "up", "started", "loop"}
       => procs["shell"].blocked
  /\ Stage("uplink") \in {"ferry", "resolving", "resolved", "dropped", "environ",
                          "commanded", "loop"}
       => procs["uplink"].blocked
  /\ Stage("shell") = "killed" => ~procs["shell"].blocked
  /\ ~procs["shell"].blocked => Stage("uplink") = "none" /\ Stage("downlink") = "none"
  /\ ~procs["uplink"].blocked => Stage("dnsmasq") = "none" /\ Stage("command") = "none"

\* A child is there only once its parent has come to where it is started.
StartedInOrder ==
  /\ Stage("uplink") # "none"
       => Stage("shell") \in {"up", "started", "loop", "unwinding", "ended"}
  /\ Stage("downlink") # "none"
       => Stage("shell") \in {"started", "loop", "unwinding", "ended"}
  /\ Stage("dnsmasq") # "none"
       => Stage("uplink") \in {"resolving", "resolved", "dropped", "environ",
                              "commanded", "loop", "unwinding", "exited"}
  /\ Stage("command") # "none"
       => Stage("uplink") \in {"commanded", "loop", "unwinding", "exited"}

ChildrenOf(p) == CASE p = "shell" -> {"uplink", "downlink"}
                   [] p = "uplink" -> {"dnsmasq", "command"}
                   [] OTHER -> {}

\* Who is waited for has exited, and who is over has no child that has not.
WaitedBeforeOver ==
  /\ \A c \in waited : Stage(c) = "exited"
  /\ \A p \in Parents : Over(p) => \A c \in ChildrenOf(p) : ~Alive(c)

\* The shell unwinds as root, so that iptables obeys it until it ends.
UnwindsAsRoot ==
  /\ Stage("shell") = "unwinding" => RunsIptables
  /\ Stage("shell") = "ended" => rules = {}

SetupIInv ==
  /\ SetupTypeOK
  /\ EnvironmentComesLast /\ MaskedWithChildren /\ StartedInOrder
  /\ WaitedBeforeOver /\ UnwindsAsRoot

LEMMA ProcFacts ==
  /\ Procs = {"shell", "uplink", "downlink", "dnsmasq", "command"}
  /\ Parents = {"shell", "uplink", "downlink"}
  BY DEF Procs, Parents

LEMMA StatusFacts == 0 \in Int /\ 1 \in Int /\ 77 \in Int
  BY SMT

\* Whom a loop looks after.
LEMMA KidsAreChildren ==
  ASSUME NEW p \in Procs, NEW c
  PROVE  (\E k \in DOMAIN Kids(p) : Kids(p)[k] = c) <=> c \in ChildrenOf(p)
  <1>1. CASE p = "shell"
    <2>1. Kids(p) = <<"uplink", "downlink">> /\ DOMAIN Kids(p) = {1, 2}
      BY <1>1 DEF Kids
    <2>2. ChildrenOf(p) = {"uplink", "downlink"}
      BY <1>1 DEF ChildrenOf
    <2> QED BY <2>1, <2>2
  <1>2. CASE p = "uplink"
    <2>1. Kids(p) = <<"dnsmasq", "command">> /\ DOMAIN Kids(p) = {1, 2}
      BY <1>2 DEF Kids
    <2>2. ChildrenOf(p) = {"dnsmasq", "command"}
      BY <1>2 DEF ChildrenOf
    <2> QED BY <2>1, <2>2
  <1>3. CASE p # "shell" /\ p # "uplink"
    <2>1. DOMAIN Kids(p) = {} /\ ChildrenOf(p) = {}
      BY <1>3 DEF Kids, ChildrenOf
    <2> QED BY <2>1
  <1> QED BY <1>1, <1>2, <1>3

\* Once the destructors of a loop have nobody left, all its children have been
\* waited for.
LEMMA EndedAreWaitedFor ==
  ASSUME NEW p \in Procs, ChildrenEnded(p)
  PROVE  \A c \in ChildrenOf(p) : Stage(c) = "none" \/ c \in waited
  <1>1. Stage(p) = "unwinding" /\ \A k \in DOMAIN Kids(p) : ~Destroys(p, Kids(p)[k])
    BY DEF ChildrenEnded
  <1>2. ASSUME NEW a, NEW b, Kids(p) = <<a, b>>
        PROVE  \A c \in {a, b} : Stage(c) = "none" \/ c \in waited
    <2>1. DOMAIN Kids(p) = {1, 2} /\ Kids(p)[1] = a /\ Kids(p)[2] = b
      BY <1>2
    <2>2. Stage(a) = "none" \/ a \in waited
      <3>1. ~Destroys(p, a)
        BY <1>1, <2>1
      <3>2. \A j \in 1..(1 - 1) : Stage(Kids(p)[j]) = "none" \/ Kids(p)[j] \in waited
        OBVIOUS
      <3> QED BY <1>1, <2>1, <3>1, <3>2 DEF Destroys
    <2>3. Stage(b) = "none" \/ b \in waited
      <3>1. ~Destroys(p, b)
        BY <1>1, <2>1
      <3>2. \A j \in 1..(2 - 1) : Stage(Kids(p)[j]) = "none" \/ Kids(p)[j] \in waited
        BY <2>1, <2>2
      <3> QED BY <1>1, <2>1, <3>1, <3>2 DEF Destroys
    <2> QED BY <2>2, <2>3
  <1> QED BY <1>2 DEF Kids, ChildrenOf

LEMMA InitSetupIInv == SetupInit => SetupIInv
  <1> SUFFICES ASSUME SetupInit
               PROVE  SetupIInv
    OBVIOUS
  <1>1. \A p \in Procs : procs[p] = IF p = "shell"
                                    THEN [NoProcess EXCEPT !.at = "main", !.root = TRUE]
                                    ELSE NoProcess
    BY DEF SetupInit
  <1>2. SetupTypeOK
    <2>1. NoProcess \in Proc /\ "main" \in Stages
      BY DEF NoProcess, Stages, Proc
    <2>2. \A r \in Proc : [r EXCEPT !.at = "main", !.root = TRUE] \in Proc
      BY <2>1 DEF Proc
    <2> QED BY <2>1, <2>2 DEF SetupInit, SetupTypeOK
  <1>3. Stage("shell") = "main" /\ procs["shell"].env = "cleared"
    BY <1>1, ProcFacts DEF NoProcess, Stage
  <1>4. \A p \in Procs \ {"shell"} : Stage(p) = "none" /\ procs[p].env = "cleared"
    BY <1>1 DEF NoProcess, Stage
  <1>5. waited = {} /\ rules = {}
    BY DEF SetupInit
  <1>6. EnvironmentComesLast /\ MaskedWithChildren /\ StartedInOrder
    BY <1>3, <1>4, ProcFacts
       DEF EnvironmentComesLast, MaskedWithChildren, StartedInOrder, Alive
  <1>7. WaitedBeforeOver /\ UnwindsAsRoot
    BY <1>3, <1>4, <1>5, ProcFacts DEF WaitedBeforeOver, UnwindsAsRoot, Over
  <1> QED BY <1>2, <1>6, <1>7 DEF SetupIInv

\* What a step makes of the one process it changes.
Becomes(p, stage, root, env, blocked) ==
  /\ procs' \in [Procs -> Proc]
  /\ \A q \in Procs \ {p} : procs'[q] = procs[q]
  /\ procs'[p].at = stage /\ procs'[p].root = root
  /\ procs'[p].env = env /\ procs'[p].blocked = blocked

LEMMA MovesOn ==
  ASSUME SetupTypeOK, NEW p \in Procs, NEW stage \in Stages,
         procs' = [procs EXCEPT ![p].at = stage]
  PROVE  Becomes(p, stage, procs[p].root, procs[p].env, procs[p].blocked)
  BY DEF SetupTypeOK, Becomes, Proc

LEMMA MovesAsRootOrNot ==
  ASSUME SetupTypeOK, NEW p \in Procs, NEW stage \in Stages, NEW root \in BOOLEAN,
         procs' = [procs EXCEPT ![p].at = stage, ![p].root = root]
  PROVE  Becomes(p, stage, root, procs[p].env, procs[p].blocked)
  BY ZenonT(30) DEF SetupTypeOK, Becomes, Proc

LEMMA MovesInEnvironment ==
  ASSUME SetupTypeOK, NEW p \in Procs, NEW stage \in Stages,
         NEW env \in {"cleared", "user"},
         procs' = [procs EXCEPT ![p].at = stage, ![p].env = env]
  PROVE  Becomes(p, stage, procs[p].root, env, procs[p].blocked)
  BY ZenonT(30) DEF SetupTypeOK, Becomes, Proc

LEMMA MovesMasked ==
  ASSUME SetupTypeOK, NEW p \in Procs, NEW stage \in Stages,
         procs' = [procs EXCEPT ![p].at = stage, ![p].blocked = TRUE]
  PROVE  Becomes(p, stage, procs[p].root, procs[p].env, TRUE)
  BY DEF SetupTypeOK, Becomes, Proc

LEMMA Unwinds ==
  ASSUME SetupTypeOK, NEW p \in Procs, NEW code \in Int,
         \/ procs' = [procs EXCEPT ![p] = Unwound(p, code)]
         \/ procs' = [procs EXCEPT ![p] = [Unwound(p, code) EXCEPT !.hup = FALSE]]
  PROVE  Becomes(p, "unwinding", procs[p].root \/ p = "shell",
                 IF p = "shell" THEN "cleared" ELSE procs[p].env, procs[p].blocked)
  <1> DEFINE r == Unwound(p, code)
             root == procs[p].root \/ p = "shell"
             env == IF p = "shell" THEN "cleared" ELSE procs[p].env
  <1>1. "unwinding" \in Stages /\ procs[p] \in Proc
    BY DEF Stages, SetupTypeOK
  <1>2. /\ r \in Proc /\ r.at = "unwinding" /\ r.root = root
        /\ r.env = env /\ r.blocked = procs[p].blocked
    BY <1>1 DEF Unwound, Proc
  <1>3. /\ [r EXCEPT !.hup = FALSE] \in Proc
        /\ \A f \in {"at", "root", "env", "blocked"} : [r EXCEPT !.hup = FALSE][f] = r[f]
    BY <1>2 DEF Proc
  <1> HIDE DEF r
  <1>4. PICK q \in {r, [r EXCEPT !.hup = FALSE]} : procs' = [procs EXCEPT ![p] = q]
    BY DEF r
  <1> QED BY <1>2, <1>3, <1>4 DEF SetupTypeOK, Becomes

LEMMA ShellUnwinds ==
  ASSUME SetupTypeOK, NEW code \in Int,
         \/ procs' = [procs EXCEPT !["shell"] = Unwound("shell", code)]
         \/ procs' = [procs EXCEPT !["shell"] = [Unwound("shell", code)
                                                EXCEPT !.hup = FALSE]]
  PROVE  Becomes("shell", "unwinding", TRUE, "cleared", procs["shell"].blocked)
  <1>1. Becomes("shell", "unwinding", procs["shell"].root \/ "shell" = "shell",
                IF "shell" = "shell" THEN "cleared" ELSE procs["shell"].env,
                procs["shell"].blocked)
    BY Unwinds, ProcFacts
  <1> QED BY <1>1

LEMMA IsSignalled ==
  ASSUME SetupTypeOK, NEW p \in Procs, procs' = [procs EXCEPT ![p] = Signalled(p)]
  PROVE  Becomes(p, IF procs[p].blocked THEN Stage(p) ELSE "exited",
                 procs[p].root, procs[p].env, procs[p].blocked)
  <1> DEFINE r == Signalled(p)
             stage == IF procs[p].blocked THEN Stage(p) ELSE "exited"
  <1>1. "exited" \in Stages /\ procs[p] \in Proc
    BY DEF Stages, SetupTypeOK
  <1>2. /\ r \in Proc /\ r.at = stage /\ r.root = procs[p].root
        /\ r.env = procs[p].env /\ r.blocked = procs[p].blocked
    <2>1. CASE procs[p].blocked
      BY <1>1, <2>1 DEF Signalled, Proc, Stage
    <2>2. CASE ~procs[p].blocked
      <3>1. r = [procs[p] EXCEPT !.at = "exited", !.status = 15]
        BY <2>2 DEF Signalled
      <3>2. stage = "exited" /\ 15 \in Int
        BY <2>2
      <3> QED BY <1>1, <3>1, <3>2 DEF Proc
    <2> QED BY <2>1, <2>2
  <1> HIDE DEF r
  <1>3. procs' = [procs EXCEPT ![p] = r]
    BY DEF r
  <1> QED BY <1>2, <1>3 DEF SetupTypeOK, Becomes

\* Of those a step adds to waited, all have exited.
WaitsForExited ==
  /\ waited' \subseteq Procs
  /\ \A c \in waited' : c \in waited \/ Stage(c)' = "exited"

\* A step changes at most the one process.
Alone(p) ==
  /\ procs' \in [Procs -> Proc]
  /\ \A q \in Procs \ {p} : procs'[q] = procs[q]
  /\ WaitsForExited

\* A step of the shell, with or without children.
LEMMA ShellMoves ==
  ASSUME SetupIInv, Alone("shell"),
         Stage("shell") # "exited" /\ Stage("shell")' # "exited",
         procs["shell"].env' = "user"
           => ~procs["shell"].root' /\ Stage("shell")' \in {"base", "killed"},
         Stage("shell")' = "unprivileged" => ~procs["shell"].root',
         Stage("shell")' \in {"constructed", "up", "started", "loop"}
           => procs["shell"].blocked',
         Stage("shell")' = "killed" => ~procs["shell"].blocked',
         procs["shell"].blocked => procs["shell"].blocked',
         Stage("uplink") # "none"
           => Stage("shell")' \in {"up", "started", "loop", "unwinding", "ended"},
         Stage("downlink") # "none"
           => Stage("shell")' \in {"started", "loop", "unwinding", "ended"},
         Stage("shell")' = "ended" => \A c \in ChildrenOf("shell") : ~Alive(c),
         UnwindsAsRoot'
  PROVE  SetupIInv'
  <1>1. \A q \in Procs \ {"shell"} : procs'[q] = procs[q] /\ Stage(q)' = Stage(q)
    BY DEF Alone, Stage
  <1>2. SetupTypeOK'
    BY DEF SetupTypeOK, Alone, WaitsForExited
  <1>3. EnvironmentComesLast'
    BY <1>1, ProcFacts DEF SetupIInv, EnvironmentComesLast, Alive
  <1>4. MaskedWithChildren'
    BY <1>1, ProcFacts DEF SetupIInv, MaskedWithChildren
  <1>5. StartedInOrder'
    BY <1>1, ProcFacts DEF SetupIInv, StartedInOrder
  <1>6. WaitedBeforeOver'
    <2>1. \A c \in waited : Stage(c)' = "exited"
      BY <1>1 DEF SetupIInv, SetupTypeOK, WaitedBeforeOver
    <2>2. \A p \in Parents : \A c \in ChildrenOf(p) : c \in Procs \ {"shell"}
      BY ProcFacts DEF ChildrenOf
    <2>3. ASSUME NEW p \in Parents, Over(p)', NEW c \in ChildrenOf(p)
          PROVE  ~Alive(c)
      <3>1. CASE p = "shell"
        <4>1. Stage("shell")' \in {"ended", "killed"}
          BY <1>1, <2>3, <3>1 DEF Over
        <4>2. CASE Stage("shell")' = "killed"
          <5>1. Stage("uplink") = "none" /\ Stage("downlink") = "none"
            BY <4>2
          <5> QED BY <5>1, <2>3, <3>1 DEF ChildrenOf, Alive
        <4> QED BY <4>1, <4>2, <2>3, <3>1
      <3>2. CASE p # "shell"
        <4>1. Over(p)
          BY <1>1, <2>3, <3>2, ProcFacts DEF Over
        <4> QED BY <4>1, <2>3 DEF SetupIInv, WaitedBeforeOver
      <3> QED BY <3>1, <3>2
    <2> QED BY <1>1, <2>1, <2>2, <2>3
            DEF Alone, WaitsForExited, WaitedBeforeOver, Alive
  <1> QED BY <1>2, <1>3, <1>4, <1>5, <1>6 DEF SetupIInv

LEMMA ShellTypes ==
  ASSUME SetupTypeOK, NEW p \in Procs
  PROVE  /\ procs[p] \in Proc /\ Stage(p) \in Stages
         /\ procs[p].root \in BOOLEAN /\ procs[p].blocked \in BOOLEAN
         /\ procs[p].env \in {"cleared", "user"}
  BY DEF SetupTypeOK, Proc, Stage

\* The constructor of the shell, before it has children.
LEMMA ConstructorKeepsSetupIInv ==
  ASSUME SetupIInv,
         \/ CheckRequirements \/ GiveUpPrivileges \/ ReadBase \/ ClearEnvironment
         \/ RegainPrivileges \/ FindAddresses \/ MakeTunAndProxy
         \/ AddRule("pre_", "proxied", "half ruled")
         \/ AddRule("post_", "half ruled", "ruled")
         \/ MakePipeAndLoop
  PROVE  SetupIInv'
  <1> DEFINE shell == procs["shell"]
  <1>1. /\ SetupTypeOK /\ EnvironmentComesLast /\ MaskedWithChildren /\ StartedInOrder
        /\ shell.root \in BOOLEAN /\ shell.env \in {"cleared", "user"}
        /\ shell.blocked \in BOOLEAN /\ "shell" \in Procs
    BY ShellTypes, ProcFacts DEF SetupIInv
  <1>2. WaitsForExited
    <2>1. waited' = waited
      BY DEF CheckRequirements, GiveUpPrivileges, ReadBase, ClearEnvironment,
             RegainPrivileges, FindAddresses, MakeTunAndProxy, AddRule, MakePipeAndLoop
    <2> QED BY <2>1, <1>1 DEF WaitsForExited, SetupTypeOK
  <1>3. Stage("shell") \in {"main", "checked", "unprivileged", "base", "cleared",
                            "privileged", "addressed", "proxied", "half ruled", "ruled"}
    BY DEF CheckRequirements, GiveUpPrivileges, ReadBase, ClearEnvironment,
           RegainPrivileges, FindAddresses, MakeTunAndProxy, AddRule, MakePipeAndLoop,
           Goes, Stage
  <1>4. Stage("uplink") = "none" /\ Stage("downlink") = "none"
    BY <1>1, <1>3 DEF StartedInOrder
  <1>5. /\ shell.env = "user" => Stage("shell") = "base" /\ ~shell.root
        /\ Stage("shell") = "unprivileged" => ~shell.root
    BY <1>1, <1>3 DEF EnvironmentComesLast
  <1>6. ASSUME procs' \in [Procs -> Proc],
               \A q \in Procs \ {"shell"} : procs'[q] = procs[q],
               Stage("shell")' \notin {"exited", "killed", "ended"},
               shell.env' = "user" => ~shell.root' /\ Stage("shell")' = "base",
               Stage("shell")' = "unprivileged" => ~shell.root',
               Stage("shell")' \in {"constructed", "up", "started", "loop"}
                 => shell.blocked',
               shell.blocked => shell.blocked',
               Stage("shell")' = "unwinding" => shell.root' /\ shell.env' = "cleared"
        PROVE  SetupIInv'
    <2>1. Alone("shell")
      BY <1>2, <1>6 DEF Alone
    <2>2. UnwindsAsRoot'
      BY <1>6, <2>1 DEF UnwindsAsRoot, RunsIptables
    <2> QED BY <1>3, <1>4, <1>6, <2>1, <2>2, ShellMoves
  <1>7. ASSUME NEW stage \in {"checked", "addressed", "proxied", "half ruled", "ruled"},
               procs' = [procs EXCEPT !["shell"].at = stage], Stage("shell") # "base"
        PROVE  SetupIInv'
    <2>1. Becomes("shell", stage, shell.root, shell.env, shell.blocked)
      BY <1>1, <1>7, MovesOn, ZenonT(30) DEF Stages
    <2> QED BY <1>5, <1>6, <1>7, <2>1 DEF Becomes, Stage
  <1>8. CASE \/ CheckRequirements \/ MakeTunAndProxy
             \/ AddRule("pre_", "proxied", "half ruled")
             \/ AddRule("post_", "half ruled", "ruled")
    BY <1>7, <1>8 DEF CheckRequirements, MakeTunAndProxy, AddRule, Goes
  <1>9. CASE GiveUpPrivileges
    <2>1. Becomes("shell", "unprivileged", FALSE, shell.env, shell.blocked)
      BY <1>1, <1>9, MovesAsRootOrNot DEF Stages, GiveUpPrivileges
    <2> QED BY <1>5, <1>6, <1>9, <2>1 DEF GiveUpPrivileges, Becomes, Stage
  <1>10. CASE ReadBase
    <2>1. Becomes("shell", "base", shell.root, "user", shell.blocked)
      BY <1>1, <1>10, MovesInEnvironment DEF Stages, ReadBase
    <2> QED BY <1>5, <1>6, <1>10, <2>1, SMTT(30) DEF ReadBase, Becomes, Stage
  <1>11. CASE ClearEnvironment
    <2>1. Becomes("shell", "cleared", shell.root, "cleared", shell.blocked)
      BY <1>1, <1>11, MovesInEnvironment DEF Stages, ClearEnvironment
    <2> QED BY <1>6, <2>1, ZenonT(30) DEF Becomes, Stage
  <1>12. CASE RegainPrivileges
    <2>1. Becomes("shell", "privileged", TRUE, shell.env, shell.blocked)
      BY <1>1, <1>12, MovesAsRootOrNot DEF Stages, RegainPrivileges
    <2> QED BY <1>5, <1>6, <1>12, <2>1, SMTT(30) DEF RegainPrivileges, Becomes, Stage
  <1>13. CASE FindAddresses
    <2>1. CASE procs' = [procs EXCEPT !["shell"] = Unwound("shell", 1)]
      <3>1. Becomes("shell", "unwinding", TRUE, "cleared", shell.blocked)
        BY <1>1, <2>1, StatusFacts, ShellUnwinds
      <3> QED BY <1>6, <3>1 DEF Becomes, Stage
    <2>2. CASE Goes("shell", "privileged", "addressed")
      BY <1>7, <2>2 DEF Goes
    <2> QED BY <1>13, <2>1, <2>2 DEF FindAddresses
  <1>14. CASE MakePipeAndLoop
    <2>1. Becomes("shell", "constructed", shell.root, shell.env, TRUE)
      BY <1>1, <1>14, MovesMasked DEF Stages, MakePipeAndLoop
    <2> QED BY <1>5, <1>6, <1>14, <2>1, SMTT(30) DEF MakePipeAndLoop, Becomes, Stage
  <1> QED BY <1>8, <1>9, <1>10, <1>11, <1>12, <1>13, <1>14

\* A step of the uplink, or of something upon it.
LEMMA UplinkMoves ==
  ASSUME SetupIInv, Alone("uplink"), rules' = rules,
         Stage("uplink") # "none" /\ Stage("uplink")' # "none",
         Stage("uplink") = "exited" => Stage("uplink")' = "exited",
         procs["uplink"].env' = "user" => ~procs["uplink"].root',
         Stage("uplink")' = "dropped" => ~procs["uplink"].root',
         Stage("uplink")' = "environ" => procs["uplink"].env' = "user",
         Stage("uplink")' \in {"ferry", "resolving", "resolved", "dropped", "environ",
                               "commanded", "loop"}
           => procs["uplink"].blocked',
         procs["uplink"].blocked => procs["uplink"].blocked',
         Stage("dnsmasq") # "none"
           => Stage("uplink")' \in {"resolving", "resolved", "dropped", "environ",
                                    "commanded", "loop", "unwinding", "exited"},
         Stage("command") # "none"
           => Stage("uplink")' \in {"commanded", "loop", "unwinding", "exited"},
         Over("uplink")' => Over("uplink") \/ \A c \in ChildrenOf("uplink") : ~Alive(c)
  PROVE  SetupIInv'
  <1>1. \A q \in Procs \ {"uplink"} : procs'[q] = procs[q] /\ Stage(q)' = Stage(q)
    BY DEF Alone, Stage
  <1>2. SetupTypeOK'
    BY DEF SetupTypeOK, Alone, WaitsForExited
  <1>3. EnvironmentComesLast'
    BY <1>1, ProcFacts DEF SetupIInv, EnvironmentComesLast, Alive
  <1>4. MaskedWithChildren'
    BY <1>1, ProcFacts DEF SetupIInv, MaskedWithChildren
  <1>5. StartedInOrder'
    BY <1>1, ProcFacts DEF SetupIInv, StartedInOrder
  <1>6. WaitedBeforeOver'
    <2>1. \A c \in waited : Stage(c)' = "exited"
      BY <1>1 DEF SetupIInv, SetupTypeOK, WaitedBeforeOver
    <2>2. \A c \in Procs : Alive(c)' => Alive(c)
      BY <1>1 DEF Alive
    <2>3. \A p \in Parents : \A c \in ChildrenOf(p) : c \in Procs
      BY ProcFacts DEF ChildrenOf
    <2>4. ASSUME NEW p \in Parents, Over(p)', NEW c \in ChildrenOf(p)
          PROVE  ~Alive(c)
      <3>1. Over(p) \/ p = "uplink"
        BY <1>1, <2>4, ProcFacts DEF Over
      <3> QED BY <2>4, <3>1 DEF SetupIInv, WaitedBeforeOver
    <2> QED BY <2>1, <2>2, <2>3, <2>4 DEF Alone, WaitsForExited, WaitedBeforeOver
  <1>7. UnwindsAsRoot'
    BY <1>1, ProcFacts DEF SetupIInv, UnwindsAsRoot, RunsIptables
  <1> QED BY <1>2, <1>3, <1>4, <1>5, <1>6, <1>7 DEF SetupIInv

\* A step of the downlink, of dnsmasq or of the command, or of something upon it.
LEMMA LeafMoves ==
  ASSUME SetupIInv, NEW p \in {"downlink", "dnsmasq", "command"},
         Alone(p), rules' = rules,
         Stage(p) # "none" /\ Stage(p)' # "none",
         Stage(p) = "exited" => Stage(p)' = "exited",
         procs[p].env' = "user" => ~procs[p].root',
         p = "downlink" /\ Stage(p)' = "dropped" => ~procs[p].root',
         p = "command" => procs[p].env' = procs[p].env
  PROVE  SetupIInv'
  <1>1. \A q \in Procs \ {p} : procs'[q] = procs[q] /\ Stage(q)' = Stage(q)
    BY DEF Alone, Stage
  <1>2. SetupTypeOK'
    BY DEF SetupTypeOK, Alone, WaitsForExited
  <1>3. EnvironmentComesLast'
    BY <1>1, ProcFacts DEF SetupIInv, EnvironmentComesLast, Alive
  <1>4. MaskedWithChildren'
    BY <1>1, ProcFacts DEF SetupIInv, MaskedWithChildren
  <1>5. StartedInOrder'
    BY <1>1, ProcFacts DEF SetupIInv, StartedInOrder
  <1>6. WaitedBeforeOver'
    <2>1. \A c \in waited : Stage(c)' = "exited"
      BY <1>1 DEF SetupIInv, SetupTypeOK, WaitedBeforeOver
    <2>2. \A c \in Procs : Alive(c)' => Alive(c)
      BY <1>1 DEF Alive
    <2>3. \A q \in Parents : \A c \in ChildrenOf(q) : c \in Procs
      BY ProcFacts DEF ChildrenOf
    <2>4. ASSUME NEW q \in Parents, Over(q)', NEW c \in ChildrenOf(q)
          PROVE  ~Alive(c)
      <3>1. ChildrenOf("downlink") = {}
        BY DEF ChildrenOf
      <3>2. q # p
        BY <2>4, <3>1, ProcFacts
      <3>3. Over(q)
        BY <1>1, <2>4, <3>2, ProcFacts DEF Over
      <3> QED BY <2>4, <3>3 DEF SetupIInv, WaitedBeforeOver
    <2> QED BY <2>1, <2>2, <2>3, <2>4 DEF Alone, WaitsForExited, WaitedBeforeOver
  <1>7. UnwindsAsRoot'
    BY <1>1, ProcFacts DEF SetupIInv, UnwindsAsRoot, RunsIptables
  <1> QED BY <1>2, <1>3, <1>4, <1>5, <1>6, <1>7 DEF SetupIInv

\* A step that changes no process: a child is waited for, or a rule removed.
LEMMA NobodyMoves ==
  ASSUME SetupIInv, procs' = procs, WaitsForExited, rules' \subseteq rules
  PROVE  SetupIInv'
  <1> USE DEF SetupIInv, Stage, Alive, Over
  <1>1. SetupTypeOK'
    BY DEF SetupTypeOK, WaitsForExited
  <1>2. EnvironmentComesLast' /\ MaskedWithChildren' /\ StartedInOrder'
    BY DEF EnvironmentComesLast, MaskedWithChildren, StartedInOrder
  <1>3. WaitedBeforeOver'
    BY DEF WaitedBeforeOver, WaitsForExited
  <1>4. UnwindsAsRoot'
    BY DEF UnwindsAsRoot, RunsIptables
  <1> QED BY <1>1, <1>2, <1>3, <1>4

\* Whoever unwinds.
LEMMA UnwindingKeepsSetupIInv ==
  ASSUME SetupIInv, NEW p \in Parents, NEW code \in Int,
         \/ procs' = [procs EXCEPT ![p] = Unwound(p, code)]
         \/ procs' = [procs EXCEPT ![p] = [Unwound(p, code) EXCEPT !.hup = FALSE]],
         Stage(p) \notin {"none", "exited", "unwinding", "ended", "killed"},
         WaitsForExited, rules' = rules
  PROVE  SetupIInv'
  <1>1. /\ SetupTypeOK /\ EnvironmentComesLast /\ MaskedWithChildren
        /\ StartedInOrder
    BY DEF SetupIInv
  <1>2. Becomes(p, "unwinding", procs[p].root \/ p = "shell",
                IF p = "shell" THEN "cleared" ELSE procs[p].env, procs[p].blocked)
    BY <1>1, Unwinds, ProcFacts
  <1>3. Alone(p) /\ Stage(p)' = "unwinding" /\ procs[p].blocked' = procs[p].blocked
    BY <1>2 DEF Becomes, Alone, Stage
  <1>4. CASE p = "shell"
    <2>1. procs["shell"].root' /\ procs["shell"].env' = "cleared"
      BY <1>2, <1>4 DEF Becomes
    <2>2. UnwindsAsRoot'
      BY <1>3, <1>4, <2>1 DEF UnwindsAsRoot, RunsIptables
    <2> QED BY <1>3, <1>4, <2>1, <2>2, ShellMoves
  <1>5. CASE p # "shell"
    <2>1. procs[p].root' = procs[p].root /\ procs[p].env' = procs[p].env
      <3>1. procs[p].root \in BOOLEAN
        BY <1>1, ShellTypes, ProcFacts
      <3>2. (procs[p].root \/ p = "shell") = procs[p].root
        BY <1>5, <3>1
      <3> QED BY <1>2, <1>5, <3>2 DEF Becomes
    <2>2. procs[p].env' = "user" => ~procs[p].root'
      BY <1>1, <2>1, ProcFacts DEF EnvironmentComesLast
    <2>3. CASE p = "uplink"
      BY <1>3, <2>2, <2>3, UplinkMoves, <1>1 DEF StartedInOrder, Over
    <2>4. CASE p = "downlink"
      BY <1>3, <2>2, <2>4, LeafMoves
    <2> QED BY <1>5, <2>3, <2>4, ProcFacts
  <1> QED BY <1>4, <1>5

\* Whoever is signalled: those who mask signals only note it.
LEMMA SignalKeepsSetupIInv ==
  ASSUME SetupIInv, NEW p \in Procs, procs' = [procs EXCEPT ![p] = Signalled(p)],
         Alive(p), p = "shell" => procs[p].blocked,
         waited' = waited, rules' = rules
  PROVE  SetupIInv'
  <1>1. /\ SetupTypeOK /\ EnvironmentComesLast /\ MaskedWithChildren
        /\ StartedInOrder /\ WaitedBeforeOver /\ UnwindsAsRoot
    BY DEF SetupIInv
  <1>2. Becomes(p, IF procs[p].blocked THEN Stage(p) ELSE "exited",
                procs[p].root, procs[p].env, procs[p].blocked)
    BY <1>1, IsSignalled
  <1>3. /\ Alone(p) /\ Stage(p)' = IF procs[p].blocked THEN Stage(p) ELSE "exited"
        /\ procs[p].root' = procs[p].root /\ procs[p].env' = procs[p].env
        /\ procs[p].blocked' = procs[p].blocked
    BY <1>1, <1>2 DEF Becomes, Alone, Stage, WaitsForExited, SetupTypeOK
  <1>4. Stage(p) # "none" /\ Stage(p) # "exited"
    BY DEF Alive
  <1>5. procs[p].env' = "user" => ~procs[p].root'
    BY <1>1, <1>3 DEF EnvironmentComesLast
  <1>6. CASE p = "shell"
    <2>1. UnwindsAsRoot'
      BY <1>1, <1>3, <1>6 DEF UnwindsAsRoot, RunsIptables
    <2>2. Stage("shell") = "ended" => \A c \in ChildrenOf("shell") : ~Alive(c)
      BY <1>1, ProcFacts DEF WaitedBeforeOver, Over
    <2> QED BY <1>1, <1>3, <1>4, <1>5, <1>6, <2>1, <2>2, ShellMoves
            DEF EnvironmentComesLast, MaskedWithChildren, StartedInOrder
  <1>7. CASE p = "uplink"
    <2>1. ~procs["uplink"].blocked => \A c \in ChildrenOf("uplink") : ~Alive(c)
      BY <1>1 DEF MaskedWithChildren, ChildrenOf, Alive
    <2>2. Over("uplink")' => Over("uplink") \/ \A c \in ChildrenOf("uplink") : ~Alive(c)
      BY <1>3, <1>7, <2>1 DEF Over
    <2> QED BY <1>1, <1>3, <1>4, <1>5, <1>7, <2>2, UplinkMoves
            DEF EnvironmentComesLast, MaskedWithChildren, StartedInOrder
  <1>8. CASE p \in {"downlink", "dnsmasq", "command"}
    BY <1>1, <1>3, <1>4, <1>5, <1>8, LeafMoves DEF EnvironmentComesLast
  <1> QED BY <1>6, <1>7, <1>8, ProcFacts

\* A process that its parent has just made.
IsBorn(p, c, stage) ==
  /\ procs'[c].at = stage /\ procs'[c].root = procs'[p].root
  /\ procs'[c].env = procs'[p].env /\ ~procs'[c].blocked

Bears(p, c, to, stage) ==
  procs' = [procs EXCEPT ![p].at = to, ![c] = Born(p, stage)]

LEMMA BirthFacts ==
  ASSUME SetupTypeOK, NEW p \in Procs, NEW c \in Procs, p # c, NEW to \in Stages,
         NEW stage \in Stages, Bears(p, c, to, stage)
  PROVE  /\ procs' \in [Procs -> Proc] /\ IsBorn(p, c, stage)
         /\ procs'[p].at = to /\ procs'[p].root = procs[p].root
         /\ procs'[p].env = procs[p].env /\ procs'[p].blocked = procs[p].blocked
         /\ \A q \in Procs \ {p, c} : procs'[q] = procs[q]
  <1>1. procs[p] \in Proc
    BY DEF SetupTypeOK
  <1>2. /\ Born(p, stage) \in Proc /\ Born(p, stage).at = stage
        /\ Born(p, stage).root = procs[p].root
        /\ Born(p, stage).env = procs[p].env /\ ~Born(p, stage).blocked
    BY <1>1 DEF Born, Proc
  <1>3. /\ [procs[p] EXCEPT !.at = to] \in Proc /\ [procs[p] EXCEPT !.at = to].at = to
        /\ [procs[p] EXCEPT !.at = to].root = procs[p].root
        /\ [procs[p] EXCEPT !.at = to].env = procs[p].env
        /\ [procs[p] EXCEPT !.at = to].blocked = procs[p].blocked
    BY <1>1 DEF Proc
  <1>4. /\ procs' \in [Procs -> Proc] /\ procs'[c] = Born(p, stage)
        /\ procs'[p] = [procs[p] EXCEPT !.at = to]
        /\ \A q \in Procs \ {p, c} : procs'[q] = procs[q]
    BY <1>2, <1>3 DEF SetupTypeOK, Bears
  <1> QED BY <1>2, <1>3, <1>4 DEF IsBorn

\* clone(): a ferry starts with what the shell is by then.
LEMMA FerryIsStarted ==
  ASSUME SetupIInv,
         \/ StartFerry("uplink", "constructed", "up")
         \/ StartFerry("downlink", "up", "started")
  PROVE  SetupIInv'
  <1>1. /\ SetupTypeOK /\ EnvironmentComesLast /\ MaskedWithChildren
        /\ StartedInOrder /\ WaitedBeforeOver /\ UnwindsAsRoot
    BY DEF SetupIInv
  <1>2. ASSUME NEW c \in {"uplink", "downlink"}, NEW to \in {"up", "started"},
               Stage("shell") \in {"constructed", "up"}, Stage(c) = "none",
               c = "downlink" => to = "started",
               Stage("downlink") # "none" => to = "started",
               Bears("shell", c, to, "born"),
               waited' = waited, rules' = rules
        PROVE  SetupIInv'
    <2>1. "shell" \in Procs /\ c \in Procs /\ "shell" # c
          /\ to \in Stages /\ "born" \in Stages
      BY <1>2, ProcFacts DEF Stages
    <2>2. /\ procs' \in [Procs -> Proc] /\ IsBorn("shell", c, "born")
          /\ procs'["shell"].at = to /\ procs'["shell"].root = procs["shell"].root
          /\ procs'["shell"].env = procs["shell"].env
          /\ procs'["shell"].blocked = procs["shell"].blocked
          /\ \A q \in Procs \ {"shell", c} : procs'[q] = procs[q]
      BY <1>1, <1>2, <2>1, BirthFacts
    <2>3. /\ Stage("shell")' = to /\ Stage(c)' = "born"
          /\ \A q \in Procs \ {"shell", c} : procs'[q] = procs[q] /\ Stage(q)' = Stage(q)
          /\ procs["shell"].env = "cleared" /\ procs["shell"].blocked
          /\ procs'[c].env = "cleared" /\ ~procs'[c].blocked
      <3>1. procs["shell"].env = "cleared" /\ procs["shell"].blocked
        BY <1>1, <1>2, <2>1, ShellTypes DEF EnvironmentComesLast, MaskedWithChildren
      <3> QED BY <2>2, <3>1 DEF Stage, IsBorn
    <2>4. SetupTypeOK'
      BY <1>1, <1>2, <2>2 DEF SetupTypeOK
    <2>5. EnvironmentComesLast'
      BY <1>1, <1>2, <2>2, <2>3, ProcFacts DEF EnvironmentComesLast, Alive
    <2>6. MaskedWithChildren'
      BY <1>1, <1>2, <2>2, <2>3, ProcFacts DEF MaskedWithChildren, StartedInOrder
    <2>7. StartedInOrder'
      BY <1>1, <1>2, <2>3, ProcFacts DEF StartedInOrder
    <2>8. WaitedBeforeOver'
      <3>1. \A q \in waited : Stage(q)' = "exited"
        BY <1>1, <1>2, <2>3 DEF WaitedBeforeOver, SetupTypeOK
      <3>2. \A p \in Parents : Over(p)' => Over(p) /\ p # "shell"
        BY <1>2, <2>3, ProcFacts DEF Over
      <3>3. \A p \in Parents \ {"shell"} : \A q \in ChildrenOf(p) :
              q \in {"dnsmasq", "command"}
        BY ProcFacts DEF ChildrenOf
      <3>4. \A q \in {"dnsmasq", "command"} : Alive(q)' => Alive(q)
        BY <1>2, <2>3, ProcFacts DEF Alive
      <3> QED BY <1>1, <1>2, <3>1, <3>2, <3>3, <3>4 DEF WaitedBeforeOver
    <2>9. UnwindsAsRoot'
      BY <1>2, <2>3 DEF UnwindsAsRoot
    <2> QED BY <2>4, <2>5, <2>6, <2>7, <2>8, <2>9 DEF SetupIInv
  <1>3. CASE StartFerry("uplink", "constructed", "up")
    <2>1. Stage("uplink") = "none" /\ Stage("downlink") = "none"
      BY <1>1, <1>3 DEF StartFerry, StartedInOrder
    <2> QED BY <1>2, <1>3, <2>1 DEF StartFerry, Bears
  <1>4. CASE StartFerry("downlink", "up", "started")
    <2>1. Stage("downlink") = "none"
      BY <1>1, <1>4 DEF StartFerry, StartedInOrder
    <2> QED BY <1>2, <1>4, <2>1 DEF StartFerry, Bears
  <1> QED BY <1>3, <1>4

\* dnsmasq and the command start with what the uplink is by then: the command
\* without privileges.
LEMMA ProgramIsStarted ==
  ASSUME SetupIInv, StartDnsmasq \/ StartCommand
  PROVE  SetupIInv'
  <1>1. /\ SetupTypeOK /\ EnvironmentComesLast /\ MaskedWithChildren
        /\ StartedInOrder /\ WaitedBeforeOver /\ UnwindsAsRoot
    BY DEF SetupIInv
  <1>2. ASSUME NEW c \in {"dnsmasq", "command"}, NEW to \in {"resolving", "commanded"},
               Stage("uplink") = IF c = "command" THEN "environ" ELSE "ferry",
               to = IF c = "command" THEN "commanded" ELSE "resolving",
               Stage(c) = "none",
               Bears("uplink", c, to, "running"),
               waited' = waited, rules' = rules
        PROVE  SetupIInv'
    <2>1. "uplink" \in Procs /\ c \in Procs /\ "uplink" # c
          /\ to \in Stages /\ "running" \in Stages
      BY <1>2, ProcFacts DEF Stages
    <2>2. /\ procs' \in [Procs -> Proc] /\ IsBorn("uplink", c, "running")
          /\ procs'["uplink"].at = to /\ procs'["uplink"].root = procs["uplink"].root
          /\ procs'["uplink"].env = procs["uplink"].env
          /\ procs'["uplink"].blocked = procs["uplink"].blocked
          /\ \A q \in Procs \ {"uplink", c} : procs'[q] = procs[q]
      BY <1>1, <1>2, <2>1, BirthFacts
    <2>3. /\ Stage("uplink")' = to /\ Stage(c)' = "running"
          /\ \A q \in Procs \ {"uplink", c} : procs'[q] = procs[q] /\ Stage(q)' = Stage(q)
          /\ procs["uplink"].blocked
          /\ procs'[c].env = procs["uplink"].env /\ procs'[c].root = procs["uplink"].root
          /\ c = "command" => procs["uplink"].env = "user"
      <3>1. procs["uplink"].blocked /\ (c = "command" => procs["uplink"].env = "user")
        BY <1>1, <1>2 DEF EnvironmentComesLast, MaskedWithChildren
      <3> QED BY <2>2, <3>1 DEF Stage, IsBorn
    <2>4. SetupTypeOK'
      BY <1>1, <1>2, <2>2 DEF SetupTypeOK
    <2>5. EnvironmentComesLast'
      <3>1. procs["uplink"].env = "user" => ~procs["uplink"].root
        BY <1>1, <2>1 DEF EnvironmentComesLast
      <3> QED BY <1>1, <1>2, <2>2, <2>3, <3>1, ProcFacts DEF EnvironmentComesLast, Alive
    <2>6. MaskedWithChildren'
      BY <1>1, <1>2, <2>2, <2>3, ProcFacts DEF MaskedWithChildren
    <2>7. StartedInOrder'
      BY <1>1, <1>2, <2>3, ProcFacts DEF StartedInOrder
    <2>8. WaitedBeforeOver'
      <3>1. \A q \in waited : Stage(q)' = "exited"
        BY <1>1, <1>2, <2>3 DEF WaitedBeforeOver, SetupTypeOK
      <3>2. \A p \in Parents : Over(p)' => Over(p) /\ p # "uplink"
        BY <1>2, <2>3, ProcFacts DEF Over
      <3>3. ASSUME Over("shell")
            PROVE  FALSE
        <4>1. "uplink" \in ChildrenOf("shell") /\ "shell" \in Parents
          BY ProcFacts DEF ChildrenOf
        <4> QED BY <1>1, <1>2, <3>3, <4>1 DEF WaitedBeforeOver, Alive
      <3>4. ChildrenOf("downlink") = {}
        BY DEF ChildrenOf
      <3> QED BY <1>2, <3>1, <3>2, <3>3, <3>4, ProcFacts DEF WaitedBeforeOver
    <2>9. UnwindsAsRoot'
      BY <1>1, <1>2, <2>3, ProcFacts DEF UnwindsAsRoot, RunsIptables
    <2> QED BY <2>4, <2>5, <2>6, <2>7, <2>8, <2>9 DEF SetupIInv
  <1>3. CASE StartDnsmasq
    <2>1. Stage("dnsmasq") = "none"
      BY <1>1, <1>3 DEF StartDnsmasq, StartedInOrder
    <2> QED BY <1>2, <1>3, <2>1 DEF StartDnsmasq, Bears
  <1>4. CASE StartCommand
    <2>1. Stage("command") = "none"
      BY <1>1, <1>4 DEF StartCommand, StartedInOrder
    <2> QED BY <1>2, <1>4, <2>1 DEF StartCommand, Bears
  <1> QED BY <1>3, <1>4

\* The uplink sets up the inside, gives up its privileges for good and serves.
LEMMA UplinkKeepsSetupIInv ==
  ASSUME SetupIInv,
         \/ MakeInside \/ MakeInnerFerry \/ DnsmasqAnswers
         \/ DropPrivileges("uplink", "resolved") \/ RestoreEnvironment("uplink", "environ")
         \/ SendTun
  PROVE  SetupIInv'
  <1> DEFINE uplink == procs["uplink"]
  <1>1. /\ SetupTypeOK /\ EnvironmentComesLast /\ MaskedWithChildren /\ StartedInOrder
        /\ uplink.root \in BOOLEAN /\ uplink.env \in {"cleared", "user"}
        /\ uplink.blocked \in BOOLEAN /\ "uplink" \in Procs
    BY ShellTypes, ProcFacts DEF SetupIInv
  <1>2. waited' = waited /\ rules' = rules /\ WaitsForExited
    <2>1. waited' = waited /\ rules' = rules
      BY DEF MakeInside, MakeInnerFerry, DnsmasqAnswers, DropPrivileges,
             RestoreEnvironment, SendTun
    <2> QED BY <2>1, <1>1 DEF WaitsForExited, SetupTypeOK
  <1>3. Stage("uplink") \in {"born", "routed", "resolving", "resolved", "dropped",
                             "commanded"}
    BY DEF MakeInside, MakeInnerFerry, DnsmasqAnswers, DropPrivileges,
           RestoreEnvironment, SendTun, Goes, Stage
  <1>4. /\ uplink.env = "user" => ~uplink.root
        /\ Stage("uplink") = "dropped" => ~uplink.root
        /\ Stage("uplink") \in {"resolving", "resolved", "dropped", "commanded"}
             => uplink.blocked
    BY <1>1 DEF EnvironmentComesLast, MaskedWithChildren
  <1>5. /\ Stage("dnsmasq") # "none"
             => Stage("uplink") \in {"resolving", "resolved", "dropped", "commanded"}
        /\ Stage("command") # "none" => Stage("uplink") = "commanded"
    BY <1>1, <1>3 DEF StartedInOrder
  <1>6. CASE MakeInside
    <2>1. Becomes("uplink", "routed", uplink.root, uplink.env, uplink.blocked)
      BY <1>1, <1>6, MovesOn DEF Stages, MakeInside, Goes
    <2>2. Alone("uplink") /\ Stage("uplink")' = "routed" /\ Stage("uplink") = "born"
      BY <1>2, <1>6, <2>1 DEF Becomes, Alone, Stage, MakeInside, Goes
    <2> QED BY <1>2, <1>4, <1>5, <2>1, <2>2, UplinkMoves DEF Becomes, Over
  <1>7. CASE MakeInnerFerry
    <2>1. Becomes("uplink", "ferry", uplink.root, uplink.env, TRUE)
      BY <1>1, <1>7, MovesMasked DEF Stages, MakeInnerFerry
    <2>2. Alone("uplink") /\ Stage("uplink")' = "ferry" /\ Stage("uplink") = "routed"
      BY <1>2, <1>7, <2>1 DEF Becomes, Alone, Stage, MakeInnerFerry
    <2> QED BY <1>2, <1>4, <1>5, <2>1, <2>2, UplinkMoves, SMTT(30) DEF Becomes, Over
  <1>8. CASE DnsmasqAnswers
    <2>1. Becomes("uplink", "resolved", uplink.root, uplink.env, uplink.blocked)
      BY <1>1, <1>8, MovesOn DEF Stages, DnsmasqAnswers, Goes
    <2>2. /\ Alone("uplink") /\ Stage("uplink")' = "resolved"
          /\ Stage("uplink") = "resolving"
      BY <1>2, <1>8, <2>1 DEF Becomes, Alone, Stage, DnsmasqAnswers, Goes
    <2> QED BY <1>2, <1>4, <1>5, <2>1, <2>2, UplinkMoves DEF Becomes, Over
  <1>9. CASE DropPrivileges("uplink", "resolved")
    <2>1. Becomes("uplink", "dropped", FALSE, uplink.env, uplink.blocked)
      BY <1>1, <1>9, MovesAsRootOrNot DEF Stages, DropPrivileges
    <2>2. /\ Alone("uplink") /\ Stage("uplink")' = "dropped"
          /\ Stage("uplink") = "resolved"
      BY <1>2, <1>9, <2>1 DEF Becomes, Alone, Stage, DropPrivileges
    <2> QED BY <1>2, <1>4, <1>5, <2>1, <2>2, UplinkMoves, SMTT(30) DEF Becomes, Over
  <1>10. CASE RestoreEnvironment("uplink", "environ")
    <2>1. Becomes("uplink", "environ", uplink.root, "user", uplink.blocked)
      BY <1>1, <1>10, MovesInEnvironment DEF Stages, RestoreEnvironment
    <2>2. /\ Alone("uplink") /\ Stage("uplink")' = "environ"
          /\ Stage("uplink") = "dropped"
      BY <1>2, <1>10, <2>1 DEF Becomes, Alone, Stage, RestoreEnvironment
    <2> QED BY <1>2, <1>4, <1>5, <2>1, <2>2, UplinkMoves, SMTT(30) DEF Becomes, Over
  <1>11. CASE SendTun
    <2>1. Becomes("uplink", "loop", uplink.root, uplink.env, uplink.blocked)
      BY <1>1, <1>11, MovesOn DEF Stages, SendTun, Goes
    <2>2. /\ Alone("uplink") /\ Stage("uplink")' = "loop"
          /\ Stage("uplink") = "commanded"
      BY <1>2, <1>11, <2>1 DEF Becomes, Alone, Stage, SendTun, Goes
    <2> QED BY <1>2, <1>4, <1>5, <2>1, <2>2, UplinkMoves DEF Becomes, Over
  <1> QED BY <1>6, <1>7, <1>8, <1>9, <1>10, <1>11

\* The downlink, and a program that ends by itself.
LEMMA LeavesKeepSetupIInv ==
  ASSUME SetupIInv,
         \/ DropPrivileges("downlink", "born")
         \/ RestoreEnvironment("downlink", "receiving") \/ ReceiveTun
         \/ \E c \in Procs : \E code \in {0, 1} : ProgramExits(c, code)
  PROVE  SetupIInv'
  <1>1. SetupTypeOK /\ EnvironmentComesLast /\ "downlink" \in Procs
    BY ProcFacts DEF SetupIInv
  <1>2. waited' = waited /\ rules' = rules /\ WaitsForExited
    <2>1. waited' = waited /\ rules' = rules
      BY DEF DropPrivileges, RestoreEnvironment, ReceiveTun, ProgramExits
    <2> QED BY <2>1, <1>1 DEF WaitsForExited, SetupTypeOK
  <1>3. CASE DropPrivileges("downlink", "born")
    <2>1. Becomes("downlink", "dropped", FALSE, procs["downlink"].env,
                  procs["downlink"].blocked)
      BY <1>1, <1>3, MovesAsRootOrNot DEF Stages, DropPrivileges
    <2>2. /\ Alone("downlink") /\ Stage("downlink")' = "dropped"
          /\ Stage("downlink") = "born"
      BY <1>2, <1>3, <2>1 DEF Becomes, Alone, Stage, DropPrivileges
    <2> QED BY <1>2, <2>1, <2>2, LeafMoves DEF Becomes
  <1>4. CASE RestoreEnvironment("downlink", "receiving")
    <2>1. Becomes("downlink", "receiving", procs["downlink"].root, "user",
                  procs["downlink"].blocked)
      BY <1>1, <1>4, MovesInEnvironment DEF Stages, RestoreEnvironment
    <2>2. /\ Alone("downlink") /\ Stage("downlink")' = "receiving"
          /\ Stage("downlink") = "dropped" /\ ~procs["downlink"].root
      BY <1>1, <1>2, <1>4, <2>1
         DEF Becomes, Alone, Stage, RestoreEnvironment, EnvironmentComesLast
    <2> QED BY <1>2, <2>1, <2>2, LeafMoves, SMTT(30) DEF Becomes
  <1>5. CASE ReceiveTun
    <2>1. Becomes("downlink", "loop", procs["downlink"].root, procs["downlink"].env, TRUE)
      BY <1>1, <1>5, MovesMasked DEF Stages, ReceiveTun
    <2>2. /\ Alone("downlink") /\ Stage("downlink")' = "loop"
          /\ Stage("downlink") = "receiving"
      BY <1>2, <1>5, <2>1 DEF Becomes, Alone, Stage, ReceiveTun
    <2>3. procs["downlink"].env = "user" => ~procs["downlink"].root
      BY <1>1 DEF EnvironmentComesLast
    <2> QED BY <1>2, <2>1, <2>2, <2>3, LeafMoves, SMTT(30) DEF Becomes
  <1>6. ASSUME NEW c \in Procs, NEW code \in {0, 1}, ProgramExits(c, code)
        PROVE  SetupIInv'
    <2>1. /\ c \in {"dnsmasq", "command"} /\ Stage(c) = "running"
          /\ procs' = [procs EXCEPT ![c].at = "exited", ![c].status = code]
      BY <1>6 DEF ProgramExits
    <2>2. "exited" \in Stages /\ code \in Int
      BY StatusFacts DEF Stages
    <2>3. Becomes(c, "exited", procs[c].root, procs[c].env, procs[c].blocked)
      BY <1>1, <2>1, <2>2, ZenonT(30) DEF SetupTypeOK, Becomes, Proc
    <2>4. Alone(c) /\ Stage(c)' = "exited"
      BY <1>2, <2>3 DEF Becomes, Alone, Stage
    <2>5. procs[c].env = "user" => ~procs[c].root
      BY <1>1 DEF EnvironmentComesLast
    <2> QED BY <1>2, <2>1, <2>3, <2>4, <2>5, LeafMoves DEF Becomes
  <1> QED BY <1>3, <1>4, <1>5, <1>6

\* Whoever throws, finishes, is told to stop or reaps a child that ended badly.
LEMMA StopsKeepSetupIInv ==
  ASSUME SetupIInv, NEW p \in Parents,
         \/ Throws(p) \/ Finishes(p) \/ HandlesHangup(p)
         \/ HandlesChild(p)
  PROVE  SetupIInv'
  <1>1. SetupTypeOK /\ p \in Procs
    BY ProcFacts DEF SetupIInv
  <1>2. CASE Throws(p)
    <2>1. waited' = waited /\ rules' = rules /\ WaitsForExited
      BY <1>1, <1>2 DEF Throws, WaitsForExited, SetupTypeOK
    <2> QED BY <1>2, <2>1, StatusFacts, UnwindingKeepsSetupIInv DEF Throws
  <1>3. CASE Finishes(p)
    <2>1. waited' = waited /\ rules' = rules /\ WaitsForExited
      BY <1>1, <1>3 DEF Finishes, WaitsForExited, SetupTypeOK
    <2> QED BY <1>3, <2>1, StatusFacts, UnwindingKeepsSetupIInv DEF Finishes
  <1>4. CASE HandlesHangup(p)
    <2>1. waited' = waited /\ rules' = rules /\ WaitsForExited
      BY <1>1, <1>4 DEF HandlesHangup, WaitsForExited, SetupTypeOK
    <2> QED BY <1>4, <2>1, StatusFacts, UnwindingKeepsSetupIInv DEF HandlesHangup
  <1>5. ASSUME HandlesChild(p), WaitableKids(p) = {}
        PROVE  SetupIInv'
    <2>1. procs' = procs /\ waited' = waited /\ rules' = rules
      BY <1>5 DEF HandlesChild
    <2>2. WaitsForExited
      BY <1>1, <2>1 DEF WaitsForExited, SetupTypeOK
    <2> QED BY <2>1, <2>2, NobodyMoves
  <1>6. ASSUME HandlesChild(p), WaitableKids(p) # {}
        PROVE  SetupIInv'
    <2> PICK k \in WaitableKids(p) :
          waited' = waited \cup {Kid(p, k)} /\ ReapOutcome(p, Kid(p, k))
      BY <1>6 DEF HandlesChild
    <2> DEFINE c == Kid(p, k)
    <2>1. /\ Stage(p) = "loop" /\ Stage(c) = "exited" /\ waited' = waited \cup {c}
          /\ rules' = rules /\ c # p
          /\ \/ procs' = [procs EXCEPT ![p] = Unwound(p, 0)]
             \/ procs' = [procs EXCEPT ![p] = Unwound(p, 1)]
             \/ procs' = procs
      <3>1. Stage(p) = "loop" /\ rules' = rules
        BY <1>6 DEF HandlesChild
      <3>2. Stage(c) = "exited" /\ c # p
        BY <3>1 DEF WaitableKids
      <3>3. \/ procs' = [procs EXCEPT ![p] = Unwound(p, 0)]
            \/ procs' = [procs EXCEPT ![p] = Unwound(p, 1)]
            \/ procs' = procs
        BY DEF ReapOutcome
      <3> QED BY <3>1, <3>2, <3>3
    <2>4. c \in Procs
      <3>1. c \in ChildrenOf(p)
        BY <1>1, KidsAreChildren DEF WaitableKids, Kid
      <3> QED BY <3>1, ProcFacts DEF ChildrenOf
    <2> HIDE DEF c
    <2>2. ASSUME NEW s \in {0, 1}, procs' = [procs EXCEPT ![p] = Unwound(p, s)]
          PROVE  SetupIInv'
      <3>1. Stage(c)' = "exited"
        BY <1>1, <2>1, <2>2, <2>4 DEF Stage, SetupTypeOK
      <3>2. WaitsForExited
        BY <1>1, <2>1, <2>4, <3>1 DEF WaitsForExited, SetupTypeOK
      <3>3. s \in Int
        BY StatusFacts
      <3> QED BY <2>1, <2>2, <3>2, <3>3, UnwindingKeepsSetupIInv
    <2>3. ASSUME procs' = procs
          PROVE  SetupIInv'
      <3>1. WaitsForExited
        BY <1>1, <2>1, <2>3, <2>4 DEF WaitsForExited, SetupTypeOK, Stage
      <3> QED BY <2>1, <2>3, <3>1, NobodyMoves
    <2> QED BY <2>1, <2>2, <2>3
  <1> QED BY <1>2, <1>3, <1>4, <1>5, <1>6

\* The destructors, and signals from outside.
LEMMA EndsKeepSetupIInv ==
  ASSUME SetupIInv,
         \/ EnterLoop \/ RemoveRule \/ ShellEnds \/ \E p \in Procs : Killed(p)
         \/ \E p \in Parents : \/ FerryExited(p)
                               \/ \E c \in Procs : SignalsChild(p, c) \/ WaitsForChild(p, c)
  PROVE  SetupIInv'
  <1> DEFINE shell == procs["shell"]
  <1>1. /\ SetupTypeOK /\ EnvironmentComesLast /\ MaskedWithChildren /\ StartedInOrder
        /\ WaitedBeforeOver /\ UnwindsAsRoot
        /\ "shell" \in Procs /\ "shell" \in Parents
    BY ProcFacts DEF SetupIInv
  <1>2. CASE EnterLoop
    <2>1. Becomes("shell", "loop", FALSE, shell.env, shell.blocked)
      BY <1>1, <1>2, MovesAsRootOrNot DEF Stages, EnterLoop
    <2>2. /\ Alone("shell") /\ Stage("shell")' = "loop" /\ Stage("shell") = "started"
          /\ shell.blocked' /\ shell.blocked /\ shell.env' = shell.env
      BY <1>1, <1>2, <2>1 DEF Becomes, Alone, Stage, EnterLoop, WaitsForExited, SetupTypeOK
    <2>3. shell.env # "user" /\ UnwindsAsRoot'
      BY <1>1, <2>2 DEF EnvironmentComesLast, UnwindsAsRoot
    <2> QED BY <1>1, <2>2, <2>3, ShellMoves, SMTT(30)
  <1>3. CASE RemoveRule
    <2>1. WaitsForExited
      BY <1>1, <1>3 DEF RemoveRule, WaitsForExited, SetupTypeOK
    <2> QED BY <1>3, <2>1, NobodyMoves DEF RemoveRule
  <1>4. CASE ShellEnds
    <2>1. \A c \in ChildrenOf("shell") : ~Alive(c)
      BY <1>1, <1>4, EndedAreWaitedFor DEF ShellEnds, WaitedBeforeOver, Alive
    <2>2. Stage("shell") = "unwinding" /\ rules' = {}
      BY <1>1, <1>4 DEF ShellEnds, ChildrenEnded, UnwindsAsRoot
    <2>3. Becomes("shell", "ended", shell.root, shell.env, shell.blocked)
      BY <1>1, <1>4, MovesOn DEF Stages, ShellEnds
    <2>4. /\ Alone("shell") /\ Stage("shell")' = "ended"
          /\ shell.env' = shell.env /\ shell.blocked' = shell.blocked
      BY <1>1, <1>4, <2>3
         DEF Becomes, Alone, Stage, ShellEnds, WaitsForExited, SetupTypeOK
    <2>5. shell.env # "user" /\ UnwindsAsRoot'
      BY <1>1, <2>2, <2>4 DEF EnvironmentComesLast, UnwindsAsRoot
    <2> QED BY <1>1, <2>1, <2>2, <2>4, <2>5, ShellMoves
  <1>5. ASSUME NEW p \in Procs, Killed(p)
        PROVE  SetupIInv'
    <2>1. /\ Alive(p) /\ Stage(p) \notin {"ended", "killed", "none", "exited"}
          /\ waited' = waited /\ rules' = rules
      BY <1>5 DEF Killed, Alive
    <2>2. CASE p = "shell" /\ ~shell.blocked
      <3>1. procs' = [procs EXCEPT !["shell"].at = "killed"]
        BY <1>5, <2>2 DEF Killed
      <3>2. Becomes("shell", "killed", shell.root, shell.env, shell.blocked)
        BY <1>1, <3>1, MovesOn DEF Stages
      <3>3. /\ Alone("shell") /\ Stage("shell")' = "killed"
            /\ shell.env' = shell.env /\ shell.root' = shell.root
            /\ shell.blocked' = shell.blocked
        BY <1>1, <2>1, <3>2 DEF Becomes, Alone, Stage, WaitsForExited, SetupTypeOK
      <3>4. /\ Stage("uplink") = "none" /\ Stage("downlink") = "none"
            /\ shell.env = "user" => ~shell.root
            /\ UnwindsAsRoot'
        BY <1>1, <2>2, <3>3 DEF MaskedWithChildren, EnvironmentComesLast, UnwindsAsRoot
      <3> QED BY <2>1, <2>2, <3>3, <3>4, ShellMoves
    <2>3. CASE ~(p = "shell" /\ ~shell.blocked)
      <3>1. procs' = [procs EXCEPT ![p] = Signalled(p)]
        BY <1>5, <2>3 DEF Killed
      <3> QED BY <2>1, <2>3, <3>1, SignalKeepsSetupIInv
    <2> QED BY <2>2, <2>3
  <1>6. ASSUME NEW p \in Parents, FerryExited(p)
        PROVE  SetupIInv'
    <2>1. \A c \in ChildrenOf(p) : ~Alive(c)
      BY <1>1, <1>6, EndedAreWaitedFor, ProcFacts DEF FerryExited, WaitedBeforeOver, Alive
    <2>2. p \in {"uplink", "downlink"} /\ p \in Procs /\ Stage(p) = "unwinding"
      BY <1>6, ProcFacts DEF FerryExited, ChildrenEnded
    <2>3. Becomes(p, "exited", procs[p].root, procs[p].env, procs[p].blocked)
      BY <1>1, <1>6, <2>2, MovesOn DEF Stages, FerryExited
    <2>4. /\ Alone(p) /\ Stage(p)' = "exited" /\ rules' = rules
          /\ procs[p].env' = procs[p].env /\ procs[p].root' = procs[p].root
          /\ procs[p].blocked' = procs[p].blocked
      BY <1>1, <1>6, <2>3
         DEF Becomes, Alone, Stage, FerryExited, WaitsForExited, SetupTypeOK
    <2>5. procs[p].env = "user" => ~procs[p].root
      BY <1>1, <2>2 DEF EnvironmentComesLast
    <2>6. CASE p = "uplink"
      BY <2>1, <2>2, <2>4, <2>5, <2>6, UplinkMoves
    <2>7. CASE p = "downlink"
      BY <2>2, <2>4, <2>5, <2>7, LeafMoves
    <2> QED BY <2>2, <2>6, <2>7
  <1>7. ASSUME NEW p \in Parents, NEW c \in Procs, SignalsChild(p, c)
        PROVE  SetupIInv'
    <2>1. c \in ChildrenOf(p) /\ p \in Procs
      BY <1>7, KidsAreChildren, ProcFacts DEF SignalsChild, Destroys
    <2>2. c # "shell"
      BY <2>1 DEF ChildrenOf
    <2> QED BY <1>7, <2>2, SignalKeepsSetupIInv DEF SignalsChild
  <1>8. ASSUME NEW p \in Parents, NEW c \in Procs, WaitsForChild(p, c)
        PROVE  SetupIInv'
    <2>1. WaitsForExited
      BY <1>1, <1>8 DEF WaitsForChild, WaitsForExited, SetupTypeOK, Stage
    <2> QED BY <1>8, <2>1, NobodyMoves DEF WaitsForChild
  <1> QED BY <1>2, <1>3, <1>4, <1>5, <1>6, <1>7, <1>8

LEMMA SetupNextKeepsIInv ==
  ASSUME SetupIInv, [SetupNext]_setupVars
  PROVE  SetupIInv'
  <1>1. CASE UNCHANGED setupVars
    <2>1. WaitsForExited
      BY <1>1 DEF setupVars, SetupIInv, SetupTypeOK, WaitsForExited
    <2> QED BY <1>1, <2>1, NobodyMoves DEF setupVars
  <1>2. ASSUME NEW p \in Parents, LoopSteps(p)
        PROVE  SetupIInv'
    BY <1>2, StopsKeepSetupIInv, EndsKeepSetupIInv DEF LoopSteps
  <1>3. CASE ShellSteps
    BY <1>2, <1>3, ProcFacts, ConstructorKeepsSetupIInv, FerryIsStarted,
       EndsKeepSetupIInv DEF ShellSteps
  <1>4. CASE UplinkSteps
    BY <1>2, <1>4, ProcFacts, UplinkKeepsSetupIInv, ProgramIsStarted DEF UplinkSteps
  <1>5. CASE DownlinkSteps
    BY <1>2, <1>5, ProcFacts, LeavesKeepSetupIInv DEF DownlinkSteps
  <1>6. CASE \E p \in Parents : Throws(p) \/ Finishes(p)
    BY <1>6, StopsKeepSetupIInv
  <1>7. CASE \E c \in Procs : Killed(c) \/ \E code \in {0, 1} : ProgramExits(c, code)
    BY <1>7, EndsKeepSetupIInv, LeavesKeepSetupIInv
  <1> QED BY <1>1, <1>3, <1>4, <1>5, <1>6, <1>7 DEF SetupNext

\* The other shells leave the processes alone.
LEMMA ShellsStepIsSetupStep ==
  [ShellsNext]_shellsVars => [SetupNext]_setupVars
  BY DEF ShellsNext, shellsVars

LEMMA SetupInvariant == ShellsSpec => []SetupIInv
  <1>1. ShellsInit => SetupIInv
    BY InitSetupIInv DEF ShellsInit
  <1>2. SetupIInv /\ [ShellsNext]_shellsVars => SetupIInv'
    BY SetupNextKeepsIInv, ShellsStepIsSetupStep
  <1> QED BY <1>1, <1>2, PTL DEF ShellsSpec

\* The security rule of packetshell.cc:216: whatever throws and whoever is
\* signalled, no process of a shell has root privileges and the user's
\* environment at once, and the user's command runs in that environment only.
THEOREM EnvironmentIsUnprivileged == ShellsSpec => []UserRunsUnprivileged
  <1>1. SetupIInv => UserRunsUnprivileged
    BY DEF SetupIInv, EnvironmentComesLast, UserRunsUnprivileged
  <1> QED BY <1>1, SetupInvariant, PTL

\* Every way of ending runs the destructors that are owed: no ferry exits before
\* its children, the shell not before its ferries and its NAT rules, and a signal
\* kills it outright only before it has any (child_process.cc:148, nat.cc:28).
THEOREM ShellCleansUp == ShellsSpec => []LeavesNothingBehind
  <1>1. SetupIInv => LeavesNothingBehind
    <2>1. \A p \in Parents, c \in Procs :
            (\E k \in DOMAIN Kids(p) : Kids(p)[k] = c) => c \in ChildrenOf(p)
      BY KidsAreChildren, ProcFacts
    <2> QED BY <2>1 DEF SetupIInv, WaitedBeforeOver, UnwindsAsRoot, LeavesNothingBehind
  <1> QED BY <1>1, SetupInvariant, PTL
----
(***************************************************************************)
(* The live graph (LiveGraph).                                             *)
(***************************************************************************)
WriterPlaces ==
  {"starting", "idle", "called", "advancing", "advanced", "adding", "joining", "done",
   "crashed"}
AnimatorPlaces ==
  {"checking", "frame", "advancing", "estimating", "drawing", "presenting",
   "presented", "ended", "died", "crashed"}

Point == [bin : Nat, value : Int]

GraphTypeOK ==
  /\ current_bin \in Nat /\ now \in Nat /\ loaded \in Int
  /\ value_this_bin \in [Lines(graph) -> Int]
  /\ fed \in [Lines(graph) -> Int] /\ given \in [Lines(graph) -> Int]
  /\ points \in [Lines(graph) -> Seq(Point)]
  /\ at \in [Threads -> WriterPlaces \cup AnimatorPlaces]
  /\ ts \in [Threads -> Nat] /\ line \in [Threads -> Nat]

\* Whoever closes bins, or has read a value to add to it, holds the mutex.
MutexIsHeld ==
  /\ at["writer"] \in {"advancing", "adding"} => mutex = "writer"
  /\ at["animator"] = "advancing" => mutex = "animator"
  /\ at["animator"] # "adding"

\* The writer is at a line of the graph, and what it has read is still there.
WriterKnows ==
  /\ at["writer"] \in {"starting", "adding"} => line["writer"] \in Lines(graph)
  /\ at["writer"] \in {"called", "advancing", "advanced"} => loaded \in Lines(graph)
  /\ at["writer"] = "adding" => loaded = value_this_bin[line["writer"]]

\* The lines that have the point of the bin that is being closed.
Emitted == {l \in Lines(graph) : \E t \in Threads : at[t] = "advancing" /\ l < line[t]}

\* A bin is being closed only before the time that advance() read.
ClosesInThePast ==
  \A t \in Threads : at[t] = "advancing" /\ line[t] > 0 => BinsLeft(t)

\* The last point of each line is that of the last bin closed for it.
LastBin(l) == IF l \in Emitted THEN current_bin + 1 ELSE current_bin
LinesAreCurrent ==
  Ran => \A l \in Lines(graph) :
           Consecutive(points[l]) /\ EndsIn(points[l], {LastBin(l)})

GraphIInv ==
  /\ GraphTypeOK /\ MutexIsHeld /\ WriterKnows
  /\ ClosesInThePast /\ LinesAreCurrent
  /\ ValuesAreConserved

LEMMA ThreadFacts ==
  /\ Threads = {"writer", "animator"}
  /\ \A g : Lines(g) \subseteq Nat /\ 0 \in Lines(g)
  /\ \A g, i : i \in Nat /\ i \notin Lines(g) /\ 0 < i => \A l \in Lines(g) : l < i
  BY DEF Threads, Lines
----
(***************************************************************************)
(* What is done to the points of a line.                                   *)
(***************************************************************************)
LEMMA ClosedPointAppended ==
  ASSUME NEW s \in Seq(Point), NEW b \in Nat, NEW value \in Int,
         Consecutive(s), EndsIn(s, {b})
  PROVE  LET t == Append(s, [bin |-> b + 1, value |-> value]) IN
           t \in Seq(Point) /\ Consecutive(t) /\ EndsIn(t, {b + 1})
  <1> DEFINE e == [bin |-> b + 1, value |-> value]
             t == Append(s, e)
             n == Len(s)
  <1>1. e \in Point /\ e.bin = b + 1 /\ e.bin > 0
    BY DEF Point
  <1> HIDE DEF e
  <1>2. /\ t \in Seq(Point) /\ n \in Nat /\ DOMAIN s = 1..n /\ DOMAIN t = 1..(n + 1)
        /\ t[n + 1] = e /\ \A k \in 1..n : t[k] = s[k]
    BY <1>1
  <1> HIDE DEF t, n
  <1>3. ClosedBins(t) = ClosedBins(s) \cup {n + 1} /\ ClosedBins(s) \subseteq 1..n
    BY <1>1, <1>2 DEF ClosedBins
  <1>4. EndsIn(t, {b + 1})
    <2> SUFFICES ASSUME NEW k \in ClosedBins(t), \A i \in ClosedBins(t) : i <= k
                 PROVE  t[k].bin = b + 1
      BY DEF EndsIn
    <2>1. n + 1 <= k /\ k \in 1..(n + 1)
      BY <1>2, <1>3
    <2>2. k = n + 1
      BY <1>2, <2>1
    <2> QED BY <1>1, <1>2, <2>2
  <1>5. Consecutive(t)
    <2> SUFFICES ASSUME NEW j \in ClosedBins(t), NEW k \in ClosedBins(t), j < k,
                        \A i \in ClosedBins(t) : i <= j \/ k <= i
                 PROVE  t[k].bin = t[j].bin + 1
      BY DEF Consecutive
    <2>1. j \in ClosedBins(s) /\ j \in 1..n /\ t[j] = s[j]
      BY <1>2, <1>3
    <2>2. CASE k = n + 1
      <3>1. \A i \in ClosedBins(s) : i <= j
        BY <1>2, <1>3, <2>2
      <3>2. s[j].bin = b
        BY <2>1, <3>1 DEF EndsIn
      <3> QED BY <1>1, <1>2, <2>1, <2>2, <3>2
    <2>3. CASE k # n + 1
      <3>1. k \in ClosedBins(s) /\ t[k] = s[k]
        BY <1>2, <1>3, <2>3
      <3> QED BY <1>3, <2>1, <3>1 DEF Consecutive
    <2> QED BY <2>2, <2>3
  <1> QED BY <1>2, <1>4, <1>5 DEF t, e

LEMMA FirstPointAppended ==
  ASSUME NEW s \in Seq(Point), NEW b \in Nat, Consecutive(s), EndsIn(s, {b})
  PROVE  LET t == Append(s, [bin |-> 0, value |-> 0]) IN
           t \in Seq(Point) /\ Consecutive(t) /\ EndsIn(t, {b})
  <1> DEFINE e == [bin |-> 0, value |-> 0]
             t == Append(s, e)
             n == Len(s)
  <1>1. e \in Point /\ ~(e.bin > 0)
    BY DEF Point
  <1> HIDE DEF e
  <1>2. /\ t \in Seq(Point) /\ n \in Nat /\ DOMAIN s = 1..n /\ DOMAIN t = 1..(n + 1)
        /\ t[n + 1] = e /\ \A k \in 1..n : t[k] = s[k]
    BY <1>1
  <1> HIDE DEF t, n
  <1>3. /\ ClosedBins(t) = ClosedBins(s) /\ ClosedBins(s) \subseteq 1..n
        /\ \A k \in ClosedBins(s) : t[k] = s[k]
    BY <1>1, <1>2 DEF ClosedBins
  <1>4. Consecutive(t) /\ EndsIn(t, {b})
    BY <1>3 DEF Consecutive, EndsIn
  <1> QED BY <1>2, <1>4 DEF t, e

\* Points that are dropped from the front leave the others in order.
LEMMA PointsDropped ==
  ASSUME NEW s \in Seq(Point), NEW b \in Nat, NEW m \in Nat \ {0},
         Consecutive(s), EndsIn(s, {b})
  PROVE  LET t == SubSeq(s, m, Len(s)) IN
           t \in Seq(Point) /\ Consecutive(t) /\ EndsIn(t, {b})
  <1> DEFINE n == Len(s)
             t == SubSeq(s, m, n)
             d == m - 1
  <1>1. n \in Nat /\ DOMAIN s = 1..n /\ d \in Nat
    OBVIOUS
  <1>2. /\ t \in Seq(Point)
        /\ \A k : k \in DOMAIN t <=> k \in Nat /\ 1 <= k /\ k + d <= n
        /\ \A k \in DOMAIN t : t[k] = s[k + d]
    BY <1>1
  <1> HIDE DEF t, n, d
  <1>3. \A k : k \in ClosedBins(t) <=> k \in Nat /\ 1 <= k /\ k + d \in ClosedBins(s)
    BY <1>1, <1>2 DEF ClosedBins
  <1>4. \A k \in ClosedBins(t) : t[k] = s[k + d]
    BY <1>2 DEF ClosedBins
  <1>5. \A i \in ClosedBins(s) : i > d => i - d \in ClosedBins(t)
    BY <1>1, <1>3 DEF ClosedBins
  <1>6. Consecutive(t)
    <2> SUFFICES ASSUME NEW j \in ClosedBins(t), NEW k \in ClosedBins(t), j < k,
                        \A i \in ClosedBins(t) : i <= j \/ k <= i
                 PROVE  t[k].bin = t[j].bin + 1
      BY DEF Consecutive
    <2>1. /\ j + d \in ClosedBins(s) /\ k + d \in ClosedBins(s) /\ j + d < k + d
          /\ j \in Nat /\ k \in Nat
      BY <1>1, <1>3
    <2>2. ASSUME NEW i \in ClosedBins(s)
          PROVE  i <= j + d \/ k + d <= i
      <3>1. CASE i > d
        <4>1. i - d <= j \/ k <= i - d
          BY <1>5, <3>1
        <4> QED BY <1>1, <2>1, <4>1 DEF ClosedBins
      <3>2. CASE ~(i > d)
        BY <1>1, <2>1, <3>2 DEF ClosedBins
      <3> QED BY <3>1, <3>2
    <2>3. s[k + d].bin = s[j + d].bin + 1
      BY <2>1, <2>2 DEF Consecutive
    <2> QED BY <1>4, <2>3
  <1>7. EndsIn(t, {b})
    <2> SUFFICES ASSUME NEW k \in ClosedBins(t), \A i \in ClosedBins(t) : i <= k
                 PROVE  t[k].bin = b
      BY DEF EndsIn
    <2>1. k + d \in ClosedBins(s) /\ k \in Nat /\ 1 <= k
      BY <1>3
    <2>2. ASSUME NEW i \in ClosedBins(s)
          PROVE  i <= k + d
      <3>1. CASE i > d
        <4>1. i - d <= k
          BY <1>5, <3>1
        <4> QED BY <1>1, <2>1, <4>1 DEF ClosedBins
      <3>2. CASE ~(i > d)
        BY <1>1, <2>1, <3>2 DEF ClosedBins
      <3> QED BY <3>1, <3>2
    <2> QED BY <1>4, <2>1, <2>2 DEF EndsIn
  <1> QED BY <1>2, <1>6, <1>7 DEF t, n
LEMMA GreatestOfSome ==
  ASSUME NEW n \in Nat, NEW S \in SUBSET (1..n), S # {}
  PROVE  \E x \in S : \A y \in S : y <= x
  <1> DEFINE T == {n - x : x \in S}
  <1>1. T \in SUBSET Nat /\ T # {}
    <2>1. \A x \in S : x \in 1..n
      OBVIOUS
    <2>2. \A x \in S : n - x \in Nat
      BY <2>1
    <2> QED BY <2>2
  <1>2. IsWellFoundedOn(OpToRel(<, Nat), Nat)
    BY NatLessThanWellFounded
  <1>3. PICK t \in T : \A u \in T : <<u, t>> \notin OpToRel(<, Nat)
    BY <1>1, <1>2, WFMin
  <1>4. PICK x \in S : t = n - x
    BY <1>3
  <1>5. ASSUME NEW y \in S
        PROVE  y <= x
    <2>1. n - y \in T /\ n - y \in Nat /\ t \in Nat
      BY <1>1
    <2>2. ~(n - y < t)
      BY <1>3, <2>1 DEF OpToRel
    <2> QED BY <1>4, <2>2
  <1> QED BY <1>5

\* Pruning drops points from the front.
LEMMA PrunedIsSuffix ==
  ASSUME NEW s \in Seq(Point)
  PROVE  \E m \in Nat \ {0} : Pruned(s) = SubSeq(s, m, Len(s))
  <1> DEFINE leading == {k \in DOMAIN s : \A j \in 1..k : OutOfWindow(s[j])}
             S == {1} \cup leading
  <1>1. S \in SUBSET (1..(Len(s) + 1)) /\ S # {} /\ Len(s) + 1 \in Nat
    OBVIOUS
  <1> HIDE DEF S
  <1>2. \E x \in S : \A y \in S : y <= x
    BY <1>1, GreatestOfSome
  <1>3. MaxOf(S) \in S
    BY <1>2 DEF MaxOf
  <1>4. MaxOf(S) \in Nat \ {0}
    <2>1. MaxOf(S) \in 1..(Len(s) + 1)
      BY <1>1, <1>3
    <2> QED BY <1>1, <2>1
  <1> QED BY <1>4 DEF Pruned, S
----
LEMMA InitGraphIInv == GraphInit => GraphIInv
  <1> SUFFICES ASSUME GraphInit
               PROVE  GraphIInv
    OBVIOUS
  <1>1. at = [t \in Threads |-> IF t = "writer" THEN "starting" ELSE "checking"]
    BY ThreadFacts DEF GraphInit
  <1>2. at["writer"] = "starting" /\ at["animator"] = "checking"
    BY <1>1, ThreadFacts
  <1>3. /\ points = [l \in Lines(graph) |-> <<>>] /\ current_bin = 0 /\ loaded = 0
        /\ now = 0 /\ line = [t \in Threads |-> 0] /\ ts = [t \in Threads |-> 0]
        /\ value_this_bin = [l \in Lines(graph) |-> 0]
        /\ fed = [l \in Lines(graph) |-> 0] /\ given = [l \in Lines(graph) |-> 0]
    BY DEF GraphInit
  <1>4. GraphTypeOK
    <2>1. at \in [Threads -> WriterPlaces \cup AnimatorPlaces]
      BY <1>1 DEF WriterPlaces, AnimatorPlaces
    <2> QED BY <1>3, <2>1 DEF GraphTypeOK
  <1>5. MutexIsHeld
    BY <1>2 DEF MutexIsHeld
  <1>6. WriterKnows
    BY <1>2, <1>3, ThreadFacts DEF WriterKnows
  <1>7. ClosesInThePast
    BY <1>3, ThreadFacts DEF ClosesInThePast
  <1>8. LinesAreCurrent
    <2>1. \A l \in Lines(graph) : points[l] = <<>>
      BY <1>3
    <2>2. ClosedBins(<<>>) = {}
      BY DEF ClosedBins
    <2> QED BY <2>1, <2>2 DEF LinesAreCurrent, Consecutive, EndsIn
  <1>9. ValuesAreConserved
    BY <1>3 DEF ValuesAreConserved
  <1> QED BY <1>4, <1>5, <1>6, <1>7, <1>8, <1>9 DEF GraphIInv

\* Who is closing bins, and where.
SameClosing ==
  \A t \in Threads :
    /\ at'[t] = "advancing" <=> at[t] = "advancing"
    /\ at[t] = "advancing" => line'[t] = line[t] /\ ts'[t] = ts[t]

\* A step that touches no bin, and neither takes the mutex nor lets it go.
LEMMA QuietKeepsGraphIInv ==
  ASSUME GraphIInv, GraphTypeOK', WriterKnows', graph' = graph,
         UNCHANGED <<binVars, fed, mutex>>, SameClosing, Ran' => Ran,
         at'["writer"] = "adding" => at["writer"] = "adding",
         at'["animator"] # "adding"
  PROVE  GraphIInv'
  <1> USE DEF GraphIInv
  <1>1. MutexIsHeld'
    BY ThreadFacts DEF MutexIsHeld, SameClosing
  <1>2. ClosesInThePast'
    BY DEF ClosesInThePast, SameClosing, BinsLeft, binVars
  <1>3. Emitted' = Emitted
    BY DEF Emitted, SameClosing
  <1>4. LinesAreCurrent'
    BY <1>3 DEF LinesAreCurrent, LastBin, binVars
  <1>5. ValuesAreConserved'
    BY DEF ValuesAreConserved, binVars
  <1> QED BY <1>1, <1>2, <1>4, <1>5

\* The clock, the server of the window, and what the threads do between calls.
LEMMA QuietSteps ==
  ASSUME GraphIInv,
         \/ GraphClockTicks \/ Constructs \/ Joins \/ Halts
         \/ ChecksHalt \/ Estimates \/ Presents \/ FrameEnds
         \/ \E e \in {"complete", "idle"} : HandlesEvent(e)
         \/ \E l \in Lines(graph) : Records(l)
  PROVE  GraphIInv'
  <1> USE ThreadFacts
  <1>1. GraphTypeOK /\ WriterKnows /\ MutexIsHeld
    BY DEF GraphIInv
  <1>2. CASE GraphClockTicks
    <2> USE <1>2 DEF GraphClockTicks
    <2>1. GraphTypeOK'
      BY <1>1, LiveGraphAssumption DEF GraphTypeOK, binVars
    <2>2. WriterKnows' /\ SameClosing /\ (Ran' => Ran) /\ at' = at
      BY <1>1 DEF WriterKnows, SameClosing, Ran, binVars
    <2> QED BY <1>1, <2>1, <2>2, QuietKeepsGraphIInv DEF MutexIsHeld
  <1>3. CASE Constructs \/ \E e \in {"complete", "idle"} : HandlesEvent(e)
    <2> USE <1>3 DEF Constructs, HandlesEvent
    <2>1. GraphTypeOK'
      BY <1>1 DEF GraphTypeOK, binVars
    <2>2. WriterKnows' /\ SameClosing /\ (Ran' => Ran) /\ at' = at
      BY <1>1 DEF WriterKnows, SameClosing, Ran, binVars
    <2> QED BY <1>1, <2>1, <2>2, QuietKeepsGraphIInv DEF MutexIsHeld
  <1>4. CASE Joins \/ Halts
    <2>1. /\ at["writer"] \in {"idle", "joining"}
          /\ \E w \in {"joining", "done"} : at' = [at EXCEPT !["writer"] = w]
          /\ UNCHANGED <<graph, now, binVars, mutex, ts, line, loaded, fed>>
      BY <1>4 DEF Joins, Halts, At
    <2>2. GraphTypeOK'
      BY <1>1, <2>1 DEF GraphTypeOK, binVars, WriterPlaces
    <2>3. /\ at'["writer"] \in {"joining", "done"} /\ at'["animator"] = at["animator"]
      BY <1>1, <2>1 DEF GraphTypeOK
    <2>4. WriterKnows' /\ SameClosing /\ (Ran' => Ran)
      BY <2>1, <2>3 DEF WriterKnows, SameClosing, Ran
    <2> QED BY <1>1, <2>1, <2>2, <2>3, <2>4, QuietKeepsGraphIInv DEF MutexIsHeld
  <1>5. CASE ChecksHalt \/ Estimates \/ Presents \/ FrameEnds
    <2>1. /\ at["animator"] \in {"checking", "estimating", "presenting", "presented"}
          /\ \/ at' = at
             \/ \E a \in {"ended", "frame", "drawing", "presented", "checking"} :
                  at' = [at EXCEPT !["animator"] = a]
          /\ \/ line' = line
             \/ line' = [line EXCEPT !["animator"] = 0]
             \/ line' = [line EXCEPT !["animator"] = line["animator"] + 1]
          /\ UNCHANGED <<graph, now, binVars, mutex, ts, loaded, fed>>
      BY <1>5 DEF ChecksHalt, Estimates, Presents, FrameEnds, At
    <2>2. GraphTypeOK'
      BY <1>1, <2>1, SMTT(30) DEF GraphTypeOK, binVars, AnimatorPlaces
    <2>3. /\ at'["writer"] = at["writer"] /\ line'["writer"] = line["writer"]
          /\ at'["animator"] \in {"ended", "frame", "drawing", "presented", "checking",
                                  "estimating", "presenting"}
      BY <1>1, <2>1 DEF GraphTypeOK
    <2>4. WriterKnows' /\ SameClosing /\ (Ran' => Ran)
      BY <1>1, <2>1, <2>3 DEF WriterKnows, SameClosing, Ran, binVars
    <2> QED BY <1>1, <2>1, <2>2, <2>3, <2>4, QuietKeepsGraphIInv
  <1>6. ASSUME NEW l \in Lines(graph), Records(l)
        PROVE  GraphIInv'
    <2>1. /\ at["writer"] = "idle" /\ at' = [at EXCEPT !["writer"] = "called"]
          /\ line' = [line EXCEPT !["writer"] = l] /\ loaded' = l
          /\ UNCHANGED <<graph, now, binVars, mutex, ts, fed>>
      BY <1>6 DEF Records, At
    <2>2. GraphTypeOK'
      BY <1>1, <2>1, SMTT(30) DEF GraphTypeOK, binVars, WriterPlaces
    <2>3. /\ at'["writer"] = "called" /\ at'["animator"] = at["animator"]
          /\ line'["animator"] = line["animator"]
      BY <1>1, <2>1 DEF GraphTypeOK
    <2>4. WriterKnows' /\ SameClosing /\ (Ran' => Ran)
      BY <1>1, <2>1, <2>3 DEF WriterKnows, SameClosing, Ran
    <2> QED BY <1>1, <2>1, <2>2, <2>3, <2>4, QuietKeepsGraphIInv DEF MutexIsHeld
  <1> QED BY <1>2, <1>3, <1>4, <1>5, <1>6

\* What is recorded of a bin follows it, whoever closes it.
BinsAreEmptied(l) ==
  /\ given' = [given EXCEPT ![l] = given[l] + value_this_bin[l]]
  /\ value_this_bin' = [value_this_bin EXCEPT ![l] = NewBin(graph)]

LEMMA EmittingConserves ==
  ASSUME GraphTypeOK, ValuesAreConserved, NEW l \in Lines(graph), BinsAreEmptied(l),
         fed' = fed, graph' = graph, Ran' => Ran
  PROVE  /\ ValuesAreConserved'
         /\ given' \in [Lines(graph) -> Int] /\ value_this_bin' \in [Lines(graph) -> Int]
  <1>1. NewBin(graph) \in Int /\ (graph = "throughput" => NewBin(graph) = 0)
    BY DEF NewBin
  <1>2. given' \in [Lines(graph) -> Int] /\ value_this_bin' \in [Lines(graph) -> Int]
    BY <1>1 DEF GraphTypeOK, BinsAreEmptied
  <1>3. ASSUME Ran', graph = "throughput", NEW m \in Lines(graph)
        PROVE  fed[m] = given'[m] + value_this_bin'[m]
    <2>1. fed[m] = given[m] + value_this_bin[m]
      BY <1>3 DEF ValuesAreConserved
    <2>2. CASE m = l
      <3>1. given'[m] = given[l] + value_this_bin[l] /\ value_this_bin'[m] = 0
        BY <1>1, <1>3, <2>2 DEF GraphTypeOK, BinsAreEmptied
      <3> QED BY <2>1, <2>2, <3>1 DEF GraphTypeOK
    <2>3. CASE m # l
      BY <2>1, <2>3 DEF GraphTypeOK, BinsAreEmptied
    <2> QED BY <2>2, <2>3
  <1> QED BY <1>2, <1>3 DEF ValuesAreConserved

\* The inner loop of advance(): the line it is at gets the next point, and no
\* line has it twice.
LEMMA EmitKeepsGraphIInv ==
  ASSUME GraphIInv, NEW t \in Threads, EmitBin(t)
  PROVE  GraphIInv'
  <1> DEFINE l == line[t]
  <1>1. /\ GraphTypeOK /\ WriterKnows /\ MutexIsHeld /\ ClosesInThePast
        /\ LinesAreCurrent /\ ValuesAreConserved
    BY DEF GraphIInv
  <1>2. /\ at[t] = "advancing" /\ BinsLeft(t) /\ l \in Lines(graph)
        /\ points' = [points EXCEPT ![l] =
             Append(points[l], [bin |-> current_bin + 1, value |-> value_this_bin[l]])]
        /\ BinsAreEmptied(l)
        /\ line' = [line EXCEPT ![t] = l + 1]
        /\ UNCHANGED <<graph, now, current_bin, mutex, at, ts, loaded, fed>>
    BY DEF EmitBin, BinsAreEmptied
  <1>3. \A u \in Threads : at[u] = "advancing" => u = t
    BY <1>1, <1>2, ThreadFacts DEF MutexIsHeld
  <1>4. at["writer"] # "adding" /\ (at["writer"] = "starting" => t # "writer")
    BY <1>1, <1>2, ThreadFacts DEF MutexIsHeld
  <1>5. Ran' = Ran
    BY <1>2 DEF Ran
  <1>6. l \in Nat /\ line'[t] = l + 1 /\ \A u \in Threads \ {t} : line'[u] = line[u]
    BY <1>1, <1>2 DEF GraphTypeOK
  <1>7. Emitted' = Emitted \cup {l} /\ l \notin Emitted
    <2>1. \A m \in Lines(graph) : m \in Emitted <=> m < l
      BY <1>2, <1>3 DEF Emitted
    <2>2. \A m \in Lines(graph) : m \in Emitted' <=> m < l + 1
      BY <1>2, <1>3, <1>6 DEF Emitted
    <2>3. \A m \in Lines(graph) : m < l + 1 <=> m < l \/ m = l
      BY <1>6, ThreadFacts
    <2> QED BY <1>2, <1>6, <2>1, <2>2, <2>3 DEF Emitted
  <1>8. /\ points[l] \in Seq(Point) /\ value_this_bin[l] \in Int /\ current_bin \in Nat
        /\ points'[l] = Append(points[l],
                               [bin |-> current_bin + 1, value |-> value_this_bin[l]])
        /\ \A m \in Lines(graph) \ {l} : points'[m] = points[m]
    BY <1>1, <1>2 DEF GraphTypeOK
  <1>9. ASSUME Ran
        PROVE  Consecutive(points'[l]) /\ EndsIn(points'[l], {current_bin + 1})
    <2>1. Consecutive(points[l]) /\ EndsIn(points[l], {current_bin})
      BY <1>1, <1>2, <1>7, <1>9 DEF LinesAreCurrent, LastBin
    <2> QED BY <1>8, <2>1, ClosedPointAppended
  <1>10. LinesAreCurrent'
    BY <1>1, <1>2, <1>5, <1>7, <1>8, <1>9 DEF LinesAreCurrent, LastBin
  <1>11. /\ ValuesAreConserved'
         /\ given' \in [Lines(graph) -> Int] /\ value_this_bin' \in [Lines(graph) -> Int]
    BY <1>1, <1>2, <1>5, EmittingConserves
  <1>12. GraphTypeOK'
    <2>1. Append(points[l], [bin |-> current_bin + 1, value |-> value_this_bin[l]])
            \in Seq(Point)
      BY <1>8 DEF Point
    <2>2. points' \in [Lines(graph) -> Seq(Point)]
      BY <1>1, <1>2, <2>1 DEF GraphTypeOK
    <2>3. line' \in [Threads -> Nat]
      BY <1>1, <1>2 DEF GraphTypeOK
    <2> QED BY <1>1, <1>2, <1>11, <2>2, <2>3 DEF GraphTypeOK
  <1>13. MutexIsHeld'
    BY <1>1, <1>2 DEF MutexIsHeld
  <1>14. WriterKnows'
    BY <1>1, <1>2, <1>4, <1>6, ThreadFacts DEF WriterKnows
  <1>15. ClosesInThePast'
    BY <1>2, <1>3 DEF ClosesInThePast, BinsLeft
  <1> QED BY <1>10, <1>11, <1>12, <1>13, <1>14, <1>15 DEF GraphIInv

\* advance() takes the mutex, goes from bin to bin, and lets it go.
LEMMA AdvanceKeepsGraphIInv ==
  ASSUME GraphIInv, NEW t \in Threads, AdvanceBegins(t) \/ NextBin(t) \/ AdvanceEnds(t)
  PROVE  GraphIInv'
  <1>1. /\ GraphTypeOK /\ WriterKnows /\ MutexIsHeld /\ ClosesInThePast
        /\ LinesAreCurrent /\ ValuesAreConserved
    BY DEF GraphIInv
  <1>2. CASE AdvanceBegins(t)
    <2>1. /\ at[t] = IF t = "writer" THEN "called" ELSE "frame"
          /\ mutex = "free" /\ mutex' = t
          /\ ts' = [ts EXCEPT ![t] = now] /\ line' = [line EXCEPT ![t] = 0]
          /\ at' = [at EXCEPT ![t] = "advancing"]
          /\ UNCHANGED <<graph, now, binVars, loaded, fed>>
      BY <1>2 DEF AdvanceBegins, At
    <2>2. \A u \in Threads : at[u] \notin {"advancing", "adding"}
      BY <1>1, <2>1, ThreadFacts DEF MutexIsHeld
    <2>3. /\ at'[t] = "advancing" /\ line'[t] = 0
          /\ \A u \in Threads \ {t} : at'[u] = at[u] /\ line'[u] = line[u]
      BY <1>1, <2>1 DEF GraphTypeOK
    <2>4. Emitted' = {} /\ Emitted = {}
      BY <2>1, <2>2, <2>3, ThreadFacts DEF Emitted
    <2>5. Ran' => Ran
      BY <2>1, <2>3, ThreadFacts DEF Ran
    <2>6. GraphTypeOK'
      BY <1>1, <2>1 DEF GraphTypeOK, binVars, WriterPlaces
    <2>7. MutexIsHeld'
      BY <2>1, <2>2, <2>3, ThreadFacts DEF MutexIsHeld
    <2>8. WriterKnows'
      BY <1>1, <2>1, <2>3, ThreadFacts DEF WriterKnows, binVars
    <2>9. ClosesInThePast'
      BY <2>2, <2>3 DEF ClosesInThePast
    <2>10. LinesAreCurrent'
      BY <1>1, <2>1, <2>4, <2>5 DEF LinesAreCurrent, LastBin, binVars
    <2>11. ValuesAreConserved'
      BY <1>1, <2>1, <2>5 DEF ValuesAreConserved, binVars
    <2> QED BY <2>6, <2>7, <2>8, <2>9, <2>10, <2>11 DEF GraphIInv
  <1>3. CASE NextBin(t)
    <2>1. /\ at[t] = "advancing" /\ BinsLeft(t) /\ line[t] \notin Lines(graph)
          /\ current_bin' = current_bin + 1 /\ line' = [line EXCEPT ![t] = 0]
          /\ UNCHANGED <<graph, now, value_this_bin, points, given, mutex, at, ts,
                         loaded, fed>>
      BY <1>3 DEF NextBin
    <2>2. /\ \A u \in Threads : at[u] = "advancing" => u = t
          /\ at["writer"] # "adding"
          /\ at["writer"] = "starting" => t # "writer"
      BY <1>1, <2>1, ThreadFacts DEF MutexIsHeld
    <2>3. line'[t] = 0 /\ \A u \in Threads \ {t} : line'[u] = line[u]
      BY <1>1, <2>1 DEF GraphTypeOK
    <2>4. Emitted = Lines(graph) /\ Emitted' = {}
      <3>1. line[t] \in Nat /\ 0 < line[t]
        BY <1>1, <2>1, ThreadFacts DEF GraphTypeOK
      <3>2. \A l \in Lines(graph) : l < line[t]
        BY <2>1, <3>1, ThreadFacts
      <3>3. \A l \in Lines(graph) : ~(l < 0)
        BY ThreadFacts
      <3> QED BY <2>1, <2>2, <2>3, <3>2, <3>3 DEF Emitted
    <2>5. Ran' = Ran
      BY <2>1 DEF Ran
    <2>6. GraphTypeOK'
      BY <1>1, <2>1 DEF GraphTypeOK
    <2>7. MutexIsHeld'
      BY <1>1, <2>1 DEF MutexIsHeld
    <2>8. WriterKnows'
      BY <1>1, <2>1, <2>2, <2>3, ThreadFacts DEF WriterKnows
    <2>9. ClosesInThePast'
      BY <2>1, <2>2, <2>3 DEF ClosesInThePast
    <2>10. LinesAreCurrent'
      <3>1. \A l \in Lines(graph) : LastBin(l) = current_bin + 1 /\ LastBin(l)' = current_bin'
        BY <2>4 DEF LastBin
      <3> QED BY <1>1, <2>1, <2>5, <3>1 DEF LinesAreCurrent
    <2>11. ValuesAreConserved'
      BY <1>1, <2>1, <2>5 DEF ValuesAreConserved
    <2> QED BY <2>6, <2>7, <2>8, <2>9, <2>10, <2>11 DEF GraphIInv
  <1>4. CASE AdvanceEnds(t)
    <2> DEFINE to == IF t = "writer" THEN "advanced" ELSE "estimating"
    <2>1. /\ at[t] = "advancing" /\ ~BinsLeft(t) /\ mutex' = "free"
          /\ line' = [line EXCEPT ![t] = 0] /\ at' = [at EXCEPT ![t] = to]
          /\ ts' = IF t = "writer" THEN [ts EXCEPT ![t] = 0] ELSE ts
          /\ UNCHANGED <<graph, now, binVars, loaded, fed>>
      BY <1>4 DEF AdvanceEnds, At
    <2>2. /\ \A u \in Threads : at[u] = "advancing" => u = t
          /\ at["writer"] # "adding"
      BY <1>1, <2>1, ThreadFacts DEF MutexIsHeld
    <2>3. /\ at'[t] = to /\ line'[t] = 0
          /\ \A u \in Threads \ {t} : at'[u] = at[u] /\ line'[u] = line[u]
      BY <1>1, <2>1 DEF GraphTypeOK
    <2>4. Emitted = {} /\ Emitted' = {}
      <3>1. line[t] = 0
        BY <1>1, <2>1 DEF ClosesInThePast, GraphTypeOK
      <3>2. \A l \in Lines(graph) : ~(l < 0)
        BY ThreadFacts
      <3> QED BY <2>2, <2>3, <3>1, <3>2 DEF Emitted
    <2>5. Ran' => Ran
      BY <2>1, <2>3, ThreadFacts DEF Ran
    <2>6. GraphTypeOK'
      BY <1>1, <2>1 DEF GraphTypeOK, binVars, WriterPlaces, AnimatorPlaces
    <2>7. MutexIsHeld'
      BY <1>1, <2>2, <2>3, ThreadFacts DEF MutexIsHeld
    <2>8. WriterKnows'
      BY <1>1, <2>1, <2>2, <2>3, ThreadFacts DEF WriterKnows
    <2>9. ClosesInThePast'
      BY <2>2, <2>3 DEF ClosesInThePast
    <2>10. LinesAreCurrent'
      BY <1>1, <2>1, <2>4, <2>5 DEF LinesAreCurrent, LastBin, binVars
    <2>11. ValuesAreConserved'
      BY <1>1, <2>1, <2>5 DEF ValuesAreConserved, binVars
    <2> QED BY <2>6, <2>7, <2>8, <2>9, <2>10, <2>11 DEF GraphIInv
  <1> QED BY <1>2, <1>3, <1>4

\* After the empty function was called, nothing is promised.
LEMMA UnmadeKeepsGraphIInv ==
  ASSUME GraphIInv, CallsUnmade
  PROVE  GraphIInv'
  <1>1. GraphTypeOK /\ WriterKnows /\ MutexIsHeld /\ ClosesInThePast
    BY DEF GraphIInv
  <1>2. /\ at["animator"] = "advancing" /\ mutex' = "free"
        /\ \/ at' = [at EXCEPT !["animator"] = "died"]
           \/ at' = [t \in Threads |-> "crashed"]
        /\ points' = [points EXCEPT ![0] =
             Append(points[0], [bin |-> current_bin + 1, value |-> value_this_bin[0]])]
        /\ UNCHANGED <<graph, now, value_this_bin, current_bin, given, ts, line,
                       loaded, fed>>
    BY DEF CallsUnmade, At
  <1>3. at["writer"] \notin {"advancing", "adding"}
    BY <1>1, <1>2 DEF MutexIsHeld
  <1>4. /\ at'["animator"] \in {"died", "crashed"}
        /\ at'["writer"] = at["writer"] \/ at'["writer"] = "crashed"
        /\ ~Ran'
    <2>1. CASE at' = [at EXCEPT !["animator"] = "died"]
      BY <1>1, <2>1, ThreadFacts DEF GraphTypeOK, Ran
    <2>2. CASE at' = [t \in Threads |-> "crashed"]
      BY <2>2, ThreadFacts DEF Ran
    <2> QED BY <1>2, <2>1, <2>2
  <1>5. GraphTypeOK'
    <2>1. at' \in [Threads -> WriterPlaces \cup AnimatorPlaces]
      BY <1>1, <1>2 DEF GraphTypeOK, AnimatorPlaces
    <2>2. Append(points[0], [bin |-> current_bin + 1, value |-> value_this_bin[0]])
            \in Seq(Point)
      BY <1>1, ThreadFacts DEF GraphTypeOK, Point
    <2>3. points' \in [Lines(graph) -> Seq(Point)]
      BY <1>1, <1>2, <2>2 DEF GraphTypeOK
    <2> QED BY <1>1, <1>2, <2>1, <2>3 DEF GraphTypeOK
  <1>6. MutexIsHeld' /\ ClosesInThePast'
    BY <1>3, <1>4, ThreadFacts DEF MutexIsHeld, ClosesInThePast
  <1>7. WriterKnows'
    BY <1>1, <1>2, <1>3, <1>4 DEF WriterKnows
  <1>8. LinesAreCurrent' /\ ValuesAreConserved'
    BY <1>4 DEF LinesAreCurrent, ValuesAreConserved
  <1> QED BY <1>5, <1>6, <1>7, <1>8 DEF GraphIInv

\* What the writer reads under the mutex is what it adds to.
LEMMA AddingKeepsGraphIInv ==
  ASSUME GraphIInv,
         \/ \E l \in {0, 1} : LoadsValue(l)
         \/ \E amount \in {1, 2} : StoresValue(amount)
  PROVE  GraphIInv'
  <1>1. /\ GraphTypeOK /\ WriterKnows /\ MutexIsHeld /\ ClosesInThePast
        /\ LinesAreCurrent /\ ValuesAreConserved
    BY DEF GraphIInv
  <1>2. ASSUME NEW l \in {0, 1}, LoadsValue(l)
        PROVE  GraphIInv'
    <2>1. /\ at["writer"] = "advanced" /\ l = loaded /\ mutex = "free"
          /\ mutex' = "writer" /\ line' = [line EXCEPT !["writer"] = l]
          /\ loaded' = value_this_bin[l] /\ at' = [at EXCEPT !["writer"] = "adding"]
          /\ UNCHANGED <<graph, now, binVars, ts, fed>>
      BY <1>2 DEF LoadsValue, At
    <2>2. l \in Lines(graph)
      BY <1>1, <2>1 DEF WriterKnows
    <2>3. /\ at'["writer"] = "adding" /\ at'["animator"] = at["animator"]
          /\ line'["writer"] = l /\ line'["animator"] = line["animator"]
      BY <1>1, <2>1, ThreadFacts DEF GraphTypeOK
    <2>4. /\ at["animator"] # "advancing" /\ (Ran' => Ran)
      BY <1>1, <2>1, <2>3 DEF MutexIsHeld, Ran
    <2>5. GraphTypeOK'
      BY <1>1, <2>1, <2>2, ThreadFacts DEF GraphTypeOK, binVars, WriterPlaces
    <2>6. MutexIsHeld' /\ ClosesInThePast'
      BY <1>1, <2>1, <2>3, <2>4, ThreadFacts DEF MutexIsHeld, ClosesInThePast
    <2>7. WriterKnows'
      BY <2>1, <2>2, <2>3 DEF WriterKnows, binVars
    <2>8. Emitted' = {} /\ Emitted = {}
      BY <2>1, <2>3, <2>4, ThreadFacts DEF Emitted
    <2>9. LinesAreCurrent' /\ ValuesAreConserved'
      BY <1>1, <2>1, <2>4, <2>8 DEF LinesAreCurrent, LastBin, ValuesAreConserved, binVars
    <2> QED BY <2>5, <2>6, <2>7, <2>9 DEF GraphIInv
  <1>3. ASSUME NEW amount \in {1, 2}, StoresValue(amount)
        PROVE  GraphIInv'
    <2> DEFINE l == line["writer"]
               value == IF graph = "delay"
                        THEN IF loaded < amount THEN amount ELSE loaded
                        ELSE loaded + amount
    <2>1. /\ at["writer"] = "adding"
          /\ value_this_bin' = [value_this_bin EXCEPT ![l] = value]
          /\ fed' = [fed EXCEPT ![l] = fed[l] + amount]
          /\ mutex' = "free" /\ loaded' = 0 /\ at' = [at EXCEPT !["writer"] = "idle"]
          /\ UNCHANGED <<graph, now, current_bin, points, given, ts, line>>
      BY <1>3 DEF StoresValue, At
    <2>2. l \in Lines(graph) /\ loaded = value_this_bin[l] /\ loaded \in Int
      BY <1>1, <2>1 DEF WriterKnows, GraphTypeOK
    <2>3. at'["writer"] = "idle" /\ at'["animator"] = at["animator"]
      BY <1>1, <2>1, ThreadFacts DEF GraphTypeOK
    <2>4. at["animator"] # "advancing" /\ (Ran' => Ran)
      BY <1>1, <2>1, <2>3 DEF MutexIsHeld, Ran
    <2>5. value \in Int /\ amount \in Int
      BY <2>2
    <2> HIDE DEF value
    <2>6. GraphTypeOK'
      <3>1. value_this_bin' \in [Lines(graph) -> Int] /\ fed' \in [Lines(graph) -> Int]
        <4>1. fed[l] + amount \in Int
          BY <1>1, <2>2, <2>5 DEF GraphTypeOK
        <4> QED BY <1>1, <2>1, <2>5, <4>1 DEF GraphTypeOK
      <3>2. at' \in [Threads -> WriterPlaces \cup AnimatorPlaces]
        BY <1>1, <2>1 DEF GraphTypeOK, WriterPlaces
      <3> QED BY <1>1, <2>1, <3>1, <3>2 DEF GraphTypeOK
    <2>7. MutexIsHeld' /\ ClosesInThePast' /\ WriterKnows'
      BY <1>1, <2>1, <2>3, <2>4, ThreadFacts DEF MutexIsHeld, ClosesInThePast, WriterKnows
    <2>8. Emitted' = {} /\ Emitted = {}
      BY <2>1, <2>3, <2>4, ThreadFacts DEF Emitted
    <2>9. LinesAreCurrent'
      BY <1>1, <2>1, <2>4, <2>8 DEF LinesAreCurrent, LastBin
    <2>10. ValuesAreConserved'
      <3> SUFFICES ASSUME Ran', graph = "throughput", NEW m \in Lines(graph)
                   PROVE  fed'[m] = given[m] + value_this_bin'[m]
        BY <2>1 DEF ValuesAreConserved
      <3>1. fed[m] = given[m] + value_this_bin[m]
        BY <1>1, <2>4 DEF ValuesAreConserved
      <3>2. value = loaded + amount
        BY DEF value
      <3>3. CASE m = l
        <4>1. fed'[m] = fed[m] + amount /\ value_this_bin'[m] = value_this_bin[m] + amount
          BY <1>1, <2>1, <2>2, <3>2, <3>3 DEF GraphTypeOK
        <4> QED BY <1>1, <2>5, <3>1, <4>1 DEF GraphTypeOK
      <3>4. CASE m # l
        BY <1>1, <2>1, <3>1, <3>4 DEF GraphTypeOK
      <3> QED BY <3>3, <3>4
    <2> QED BY <2>6, <2>7, <2>9, <2>10 DEF GraphIInv
  <1> QED BY <1>2, <1>3

\* The points that stand for no bin: the first of each line, and those that
\* have left the window.
LEMMA PointsKeepGraphIInv ==
  ASSUME GraphIInv, AddsFirstPoint \/ Draws
  PROVE  GraphIInv'
  <1>1. /\ GraphTypeOK /\ WriterKnows /\ MutexIsHeld /\ ClosesInThePast
        /\ LinesAreCurrent /\ ValuesAreConserved
    BY DEF GraphIInv
  <1>2. \A m \in Lines(graph) : points[m] \in Seq(Point) /\ LastBin(m) \in Nat
    BY <1>1 DEF GraphTypeOK, LastBin
  <1>3. CASE AddsFirstPoint
    <2> DEFINE l == line["writer"]
    <2>1. /\ at["writer"] = "starting"
          /\ points' = [points EXCEPT ![l] = Append(points[l], [bin |-> 0, value |-> 0])]
          /\ \/ /\ l + 1 \in Lines(graph) /\ at' = at
                /\ line' = [line EXCEPT !["writer"] = l + 1]
             \/ line' = [line EXCEPT !["writer"] = 0] /\ at' = [at EXCEPT !["writer"] = "idle"]
          /\ UNCHANGED <<graph, now, value_this_bin, current_bin, given, mutex, ts,
                         loaded, fed>>
      BY <1>3 DEF AddsFirstPoint, At
    <2>2. /\ at'["writer"] \in {"starting", "idle"} /\ at'["animator"] = at["animator"]
          /\ at'["writer"] = "starting" => line'["writer"] \in Lines(graph)
          /\ line'["animator"] = line["animator"] /\ l \in Lines(graph)
      <3>1. l \in Lines(graph)
        BY <1>1, <2>1 DEF WriterKnows
      <3> QED BY <1>1, <2>1, <3>1, ThreadFacts DEF GraphTypeOK
    <2>3. Ran' => Ran
      BY <2>1, <2>2 DEF Ran
    <2>4. /\ points'[l] = Append(points[l], [bin |-> 0, value |-> 0])
          /\ \A m \in Lines(graph) \ {l} : points'[m] = points[m]
      BY <1>1, <2>1, <2>2 DEF GraphTypeOK
    <2>5. GraphTypeOK'
      <3>1. Append(points[l], [bin |-> 0, value |-> 0]) \in Seq(Point)
        BY <1>2, <2>2 DEF Point
      <3>2. points' \in [Lines(graph) -> Seq(Point)]
        BY <1>1, <2>1, <3>1 DEF GraphTypeOK
      <3>3. at' \in [Threads -> WriterPlaces \cup AnimatorPlaces]
        BY <1>1, <2>1 DEF GraphTypeOK, WriterPlaces
      <3>4. line' \in [Threads -> Nat]
        <4>1. 0 \in Nat /\ l + 1 \in Nat
          BY <1>1, ThreadFacts DEF GraphTypeOK
        <4> QED BY <1>1, <2>1, <4>1 DEF GraphTypeOK
      <3> QED BY <1>1, <2>1, <3>2, <3>3, <3>4 DEF GraphTypeOK
    <2>6. MutexIsHeld' /\ ClosesInThePast' /\ WriterKnows'
      BY <1>1, <2>1, <2>2, ThreadFacts
         DEF MutexIsHeld, ClosesInThePast, WriterKnows, BinsLeft
    <2>7. Emitted' = Emitted
      BY <2>1, <2>2, ThreadFacts DEF Emitted
    <2>8. LinesAreCurrent'
      <3> SUFFICES ASSUME Ran', NEW m \in Lines(graph)
                   PROVE  Consecutive(points'[m]) /\ EndsIn(points'[m], {LastBin(m)})
        BY <2>1, <2>7 DEF LinesAreCurrent, LastBin
      <3>1. Consecutive(points[m]) /\ EndsIn(points[m], {LastBin(m)})
        BY <1>1, <2>3 DEF LinesAreCurrent
      <3> QED BY <1>2, <2>4, <3>1, FirstPointAppended
    <2>9. ValuesAreConserved'
      BY <1>1, <2>1, <2>3 DEF ValuesAreConserved
    <2> QED BY <2>5, <2>6, <2>8, <2>9 DEF GraphIInv
  <1>4. CASE Draws
    <2>1. /\ at["animator"] = "drawing"
          /\ points' = [m \in Lines(graph) |-> Pruned(points[m])]
          /\ ts' = [ts EXCEPT !["animator"] = 0] /\ at' = [at EXCEPT !["animator"] = "presenting"]
          /\ UNCHANGED <<graph, now, value_this_bin, current_bin, given, mutex, line,
                         loaded, fed>>
      BY <1>4 DEF Draws, At
    <2>2. /\ at'["writer"] = at["writer"] /\ at'["animator"] = "presenting"
          /\ ts'["writer"] = ts["writer"]
      BY <1>1, <2>1, ThreadFacts DEF GraphTypeOK
    <2>3. Ran' => Ran
      BY <2>1, <2>2 DEF Ran
    <2>4. ASSUME NEW m \in Lines(graph), NEW b \in Nat,
                 Consecutive(points[m]), EndsIn(points[m], {b})
          PROVE  Consecutive(points'[m]) /\ EndsIn(points'[m], {b})
      <3>1. PICK k \in Nat \ {0} : Pruned(points[m]) = SubSeq(points[m], k, Len(points[m]))
        BY <1>2, PrunedIsSuffix
      <3> QED BY <1>2, <2>1, <2>4, <3>1, PointsDropped
    <2>5. GraphTypeOK'
      <3>1. ASSUME NEW m \in Lines(graph)
            PROVE  Pruned(points[m]) \in Seq(Point)
        <4>1. PICK k \in Nat \ {0} : Pruned(points[m]) = SubSeq(points[m], k, Len(points[m]))
          BY <1>2, PrunedIsSuffix
        <4> QED BY <1>2, <4>1
      <3>2. points' \in [Lines(graph) -> Seq(Point)]
        BY <2>1, <3>1
      <3>3. ts' \in [Threads -> Nat] /\ at' \in [Threads -> WriterPlaces \cup AnimatorPlaces]
        BY <1>1, <2>1 DEF GraphTypeOK, AnimatorPlaces
      <3> QED BY <1>1, <2>1, <3>2, <3>3 DEF GraphTypeOK
    <2>6. MutexIsHeld' /\ ClosesInThePast' /\ WriterKnows'
      BY <1>1, <2>1, <2>2, ThreadFacts
         DEF MutexIsHeld, ClosesInThePast, WriterKnows, BinsLeft
    <2>7. Emitted' = Emitted
      BY <2>1, <2>2, ThreadFacts DEF Emitted
    <2>8. LinesAreCurrent'
      BY <1>1, <1>2, <2>1, <2>3, <2>4, <2>7 DEF LinesAreCurrent, LastBin
    <2>9. ValuesAreConserved'
      BY <1>1, <2>1, <2>3 DEF ValuesAreConserved
    <2> QED BY <2>5, <2>6, <2>8, <2>9 DEF GraphIInv
  <1> QED BY <1>3, <1>4

LEMMA GraphNextKeepsIInv ==
  ASSUME GraphIInv, [GraphNext]_graphVars
  PROVE  GraphIInv'
  <1>1. CASE UNCHANGED graphVars
    <2>1. /\ UNCHANGED <<graph, now, binVars, mutex, at, ts, line, loaded, fed>>
      BY <1>1 DEF graphVars
    <2>2. GraphTypeOK' /\ WriterKnows'
      BY <2>1 DEF GraphIInv, GraphTypeOK, WriterKnows, binVars
    <2>3. SameClosing /\ (Ran' => Ran) /\ at' = at
      BY <2>1 DEF SameClosing, Ran
    <2>4. at["animator"] # "adding"
      BY DEF GraphIInv, MutexIsHeld
    <2> QED BY <2>1, <2>2, <2>3, <2>4, QuietKeepsGraphIInv
  <1>2. ASSUME NEW t \in Threads, Advances(t)
        PROVE  GraphIInv'
    BY <1>2, AdvanceKeepsGraphIInv, EmitKeepsGraphIInv DEF Advances
  <1>3. CASE WriterRuns
    BY <1>2, <1>3, ThreadFacts, QuietSteps, PointsKeepGraphIInv, AddingKeepsGraphIInv
       DEF WriterRuns
  <1>4. CASE AnimatorRuns
    BY <1>2, <1>4, ThreadFacts, QuietSteps, PointsKeepGraphIInv, UnmadeKeepsGraphIInv
       DEF AnimatorRuns
  <1>5. CASE GraphClockTicks \/ (\E l \in Lines(graph) : Records(l)) \/ Halts
    BY <1>5, QuietSteps
  <1> QED BY <1>1, <1>3, <1>4, <1>5 DEF GraphNext

\* The other shells leave the graph alone.
LEMMA ShellsStepIsGraphStep ==
  [ShellsNext]_shellsVars => [GraphNext]_graphVars
  BY DEF ShellsNext, shellsVars

LEMMA GraphInvariant == ShellsSpec => []GraphIInv
  <1>1. ShellsInit => GraphIInv
    BY InitGraphIInv DEF ShellsInit
  <1>2. GraphIInv /\ [ShellsNext]_shellsVars => GraphIInv'
    BY GraphNextKeepsIInv, ShellsStepIsGraphStep
  <1> QED BY <1>1, <1>2, PTL DEF ShellsSpec

\* Nothing metered is lost or counted twice, for every width of the bins and
\* every clock, though both threads close bins and the writer adds to a bin that
\* it did not find (binned_livegraph.cc:97).
THEOREM MetersConserve == ShellsSpec => []ValuesAreConserved
  <1>1. GraphIInv => ValuesAreConserved
    BY DEF GraphIInv
  <1> QED BY <1>1, GraphInvariant, PTL

\* Every line has one point for each bin, in order, for every window and however
\* the threads alternate (binned_livegraph.cc:80).
THEOREM LinesAreInOrder == ShellsSpec => []BinsInOrder
  <1>1. GraphIInv => BinsInOrder
    BY DEF GraphIInv, LinesAreCurrent, LastBin, BinsInOrder, EndsIn
  <1> QED BY <1>1, GraphInvariant, PTL
-----
(***************************************************************************)
(* The supervision of any number of children (EventLoop), however often    *)
(* they are stopped, users send signals and the parent is suspended.       *)
(***************************************************************************)
\* The kernel's report of a child is never behind the child: it tells the state
\* the child is in.
ReportsAreCurrent ==
  \A c \in Children :
    /\ event[c] = "stopped" => state[c] = "stopped"
    /\ event[c] = "continued" => state[c] = "running"
    /\ event[c] = "exited" => state[c] = "exited"

\* A child that the parent knows to have terminated has exited.
TerminatedHaveExited ==
  \A c \in Children : terminated[c] => state[c] = "exited"

\* The destructors run in order: of the children that the parent has passed,
\* all have terminated.
DestroyedInOrder ==
  \A c \in Children :
    (phase = "destroy" /\ c < next) \/ phase = "done" => terminated[c]

IInv ==
  /\ TypeOK
  /\ ReportsAreCurrent /\ TerminatedHaveExited /\ DestroyedInOrder
  /\ ExitsAreNotLost /\ StopsAreNotLost

LEMMA ChildrenFacts ==
  /\ N \in Nat /\ N > 0 /\ 1 \in 1..(N + 1)
  /\ \A i \in 1..(N + 1) : i \in Children => i + 1 \in 1..(N + 1)
  /\ \A c \in Children : c \in Int /\ c <= N
  BY ChildrenAssumption, SMT DEF Children

LEMMA InitIInv == Init => IInv
  <1> SUFFICES ASSUME Init
               PROVE  IInv
    OBVIOUS
  <1>1. continue_status \in [Children -> Int]
    BY ChildrenAssumption DEF Init
  <1>2. 0 \in 0..255 /\ 0 \in Nat
    BY SMT
  <1>3. TypeOK
    BY <1>1, <1>2, ChildrenFacts DEF Init, TypeOK
  <1>4. ReportsAreCurrent /\ TerminatedHaveExited /\ DestroyedInOrder
    BY SMT DEF Init, ReportsAreCurrent, TerminatedHaveExited, DestroyedInOrder
  <1>5. ExitsAreNotLost /\ StopsAreNotLost
    BY SMT DEF Init, ExitsAreNotLost, StopsAreNotLost
  <1> QED BY <1>3, <1>4, <1>5 DEF IInv

\* Children that exit or stop, and users, disturb what the kernel knows only.
LEMMA ExitKeepsIInv ==
  ASSUME IInv, NEW c \in Children, NEW s \in 0..255, ChildExits(c, s)
  PROVE  IInv'
  <1> USE DEF IInv, TypeOK, ChildExits, views, control, bounds
  <1>1. ~ terminated[c]
    BY DEF TerminatedHaveExited
  <1>2. TypeOK'
    BY SMT
  <1>3. ReportsAreCurrent'
    BY DEF ReportsAreCurrent
  <1>4. TerminatedHaveExited'
    BY DEF TerminatedHaveExited
  <1>5. DestroyedInOrder'
    BY DEF DestroyedInOrder
  <1>6. ExitsAreNotLost'
    BY <1>1 DEF ExitsAreNotLost
  <1>7. StopsAreNotLost'
    BY DEF StopsAreNotLost
  <1> QED BY <1>2, <1>3, <1>4, <1>5, <1>6, <1>7

LEMMA StopKeepsIInv ==
  ASSUME IInv, NEW c \in Children, ChildStops(c)
  PROVE  IInv'
  <1> USE DEF IInv, TypeOK, ChildStops, views, control
  <1>1. TypeOK'
    BY SMT
  <1>2. ReportsAreCurrent'
    BY DEF ReportsAreCurrent
  <1>3. TerminatedHaveExited'
    BY DEF TerminatedHaveExited
  <1>4. DestroyedInOrder'
    BY DEF DestroyedInOrder
  <1>5. ExitsAreNotLost'
    BY DEF ExitsAreNotLost
  <1>6. StopsAreNotLost'
    BY DEF StopsAreNotLost
  <1> QED BY <1>1, <1>2, <1>3, <1>4, <1>5, <1>6

\* Resuming wakes children that are stopped and believed to be; it loses no
\* report but that of a stop which the parent has acted upon.
LEMMA ResumeKeeps ==
  ASSUME IInv, NEW R \in SUBSET Children,
         NEW signalled \in SUBSET {"TERM", "CHLD", "CONT"},
         Resume(R, signalled),
         UNCHANGED <<status, suspended, views, bounds>>
  PROVE  /\ state' \in [Children -> {"running", "stopped", "exited"}]
         /\ event' \in [Children -> {"none", "stopped", "continued", "exited"}]
         /\ pending' \subseteq {"TERM", "CHLD", "CONT"}
         /\ ReportsAreCurrent' /\ TerminatedHaveExited'
         /\ ExitsAreNotLost' /\ StopsAreNotLost'
  <1> USE DEF IInv, TypeOK, Resume, Woken, views, bounds
  <1>1. /\ state' \in [Children -> {"running", "stopped", "exited"}]
        /\ event' \in [Children -> {"none", "stopped", "continued", "exited"}]
        /\ pending' \subseteq {"TERM", "CHLD", "CONT"}
    BY SMT
  <1>2. ReportsAreCurrent'
    BY DEF ReportsAreCurrent
  <1>3. TerminatedHaveExited'
    BY DEF TerminatedHaveExited
  <1>4. ExitsAreNotLost'
    BY DEF ExitsAreNotLost
  <1>5. StopsAreNotLost'
    BY DEF StopsAreNotLost
  <1> QED BY <1>1, <1>2, <1>3, <1>4, <1>5

\* Signals read by the loop, and the steps of its search that reap nothing.
LEMMA HandlersKeepIInv ==
  ASSUME IInv, HandleTerm \/ HandleChild \/ HandleCont \/ SkipChild \/ ScanEnds
  PROVE  IInv'
  <1> USE DEF IInv
  <1>1. CASE HandleCont
    <2>1. /\ Resume(Children, {})
          /\ UNCHANGED <<status, hangup, suspended, views, control, bounds>>
      BY <1>1 DEF HandleCont
    <2>2. /\ state' \in [Children -> {"running", "stopped", "exited"}]
          /\ event' \in [Children -> {"none", "stopped", "continued", "exited"}]
          /\ pending' \subseteq {"TERM", "CHLD", "CONT"}
          /\ ReportsAreCurrent' /\ TerminatedHaveExited'
          /\ ExitsAreNotLost' /\ StopsAreNotLost'
      BY <2>1, ResumeKeeps
    <2>3. TypeOK'
      BY <2>1, <2>2 DEF TypeOK, views, control, bounds
    <2>4. DestroyedInOrder'
      BY <2>1 DEF DestroyedInOrder, views, control
    <2> QED BY <2>2, <2>3, <2>4
  <1>2. CASE HandleTerm \/ HandleChild
    <2> USE <1>2 DEF HandleTerm, HandleChild, views, control, bounds
    <2>1. TypeOK'
      BY ChildrenFacts, ZenonT(30) DEF TypeOK
    <2>2. ReportsAreCurrent' /\ TerminatedHaveExited'
      BY DEF ReportsAreCurrent, TerminatedHaveExited
    <2>3. DestroyedInOrder'
      <3>1. phase' \in {"scan", "destroy"} /\ next' = 1
        OBVIOUS
      <3>2. \A c \in Children : ~ (c < next')
        BY <3>1, SMT DEF Children
      <3> QED BY <3>1, <3>2 DEF DestroyedInOrder
    <2>4. ExitsAreNotLost' /\ StopsAreNotLost'
      BY DEF ExitsAreNotLost, StopsAreNotLost
    <2> QED BY <2>1, <2>2, <2>3, <2>4
  <1>3. CASE SkipChild \/ ScanEnds
    <2>0. /\ UNCHANGED <<kernel, views, result, bounds>>
          /\ phase' \in {"poll", "scan", "destroy", "done"} /\ next' \in 1..(N + 1)
      <3>1. CASE SkipChild
        BY <3>1, ChildrenFacts DEF SkipChild, Scanning, TypeOK
      <3>2. CASE ScanEnds
        BY <3>2, ChildrenFacts DEF ScanEnds
      <3> QED BY <1>3, <3>1, <3>2
    <2>1. TypeOK'
      BY <2>0 DEF TypeOK, kernel, views, bounds
    <2> USE <1>3 DEF SkipChild, ScanEnds, Scanning, kernel, views, bounds
    <2>2. ReportsAreCurrent' /\ TerminatedHaveExited'
      BY DEF ReportsAreCurrent, TerminatedHaveExited
    <2>3. DestroyedInOrder'
      <3>1. phase' \in {"poll", "scan"}
        OBVIOUS
      <3> QED BY <3>1 DEF DestroyedInOrder
    <2>4. ExitsAreNotLost' /\ StopsAreNotLost'
      BY DEF ExitsAreNotLost, StopsAreNotLost
    <2> QED BY <2>1, <2>2, <2>3, <2>4
  <1> QED BY <1>1, <1>2, <1>3

\* wait() found that the child has terminated.
LEMMA TerminatedKeepsIInv ==
  ASSUME IInv, NEW c \in Children, ChildTerminated(c)
  PROVE  IInv'
  <1> USE DEF IInv, TypeOK
  <1>1. /\ c = next /\ ~ terminated[c] /\ event[c] = "exited" /\ phase = "scan"
        /\ event' = [event EXCEPT ![c] = "none"]
        /\ terminated' = [terminated EXCEPT ![c] = TRUE]
        /\ exit_status' = [exit_status EXCEPT ![c] = status[c]]
        /\ phase' \in {"poll", "destroy"} /\ next' = 1
        /\ result' \in {"none", "exit", "threw"}
        /\ UNCHANGED <<state, status, hangup, pending, suspended,
                      continue_status, running, stops, signals>>
    BY DEF ChildTerminated, FoundWaitable, Scanning, Outcome, bounds
  <1>2. state[c] = "exited"
    BY <1>1 DEF ReportsAreCurrent
  <1>3. TypeOK'
    BY <1>1, ChildrenFacts, SMT
  <1>4. ReportsAreCurrent' /\ TerminatedHaveExited'
    BY <1>1, <1>2 DEF ReportsAreCurrent, TerminatedHaveExited
  <1>5. DestroyedInOrder'
    BY <1>1, ChildrenFacts, SMT DEF DestroyedInOrder, Children
  <1>6. ExitsAreNotLost' /\ StopsAreNotLost'
    BY <1>1, <1>2 DEF ExitsAreNotLost, StopsAreNotLost
  <1> QED BY <1>3, <1>4, <1>5, <1>6

\* wait() found that the child was stopped or continued.
LEMMA ChangedKeepsIInv ==
  ASSUME IInv, NEW c \in Children, ChildStopped(c) \/ ChildContinued(c)
  PROVE  IInv'
  <1> USE DEF IInv, TypeOK
  <1>1. /\ c = next /\ phase = "scan" /\ next' = next + 1
        /\ event[c] \in {"stopped", "continued"}
        /\ event' = [event EXCEPT ![c] = "none"]
        /\ running' = [running EXCEPT ![c] = (event[c] = "continued")]
        /\ pending' \subseteq pending /\ suspended' \in BOOLEAN
        /\ UNCHANGED <<state, status, hangup, continue_status, terminated,
                      exit_status, phase, result, stops, signals>>
    BY DEF ChildStopped, ChildContinued, FoundWaitable, Scanning, bounds
  <1>2. state[c] # "exited" /\ (event[c] = "continued" => state[c] = "running")
    BY <1>1 DEF ReportsAreCurrent
  <1>3. TypeOK'
    BY <1>1, ChildrenFacts, SMT
  <1>4. ReportsAreCurrent' /\ TerminatedHaveExited' /\ DestroyedInOrder'
    BY <1>1 DEF ReportsAreCurrent, TerminatedHaveExited, DestroyedInOrder
  <1>5. ExitsAreNotLost' /\ StopsAreNotLost'
    BY <1>1, <1>2 DEF ExitsAreNotLost, StopsAreNotLost
  <1> QED BY <1>3, <1>4, <1>5

\* The wait() of a destructor takes over whatever it is told.
LEMMA WaitKeepsIInv ==
  ASSUME IInv, NEW c \in Children, WaitForEnd(c)
  PROVE  IInv'
  <1> USE DEF IInv, TypeOK
  <1>1. /\ c = next /\ phase = "destroy" /\ ~ terminated[c] /\ event[c] # "none"
        /\ event' = [event EXCEPT ![c] = "none"]
        /\ terminated' = [terminated EXCEPT ![c] = (event[c] = "exited")]
        /\ exit_status' = [exit_status EXCEPT ![c] =
                             IF event[c] = "exited" THEN status[c] ELSE @]
        /\ running' = [running EXCEPT ![c] =
                         IF event[c] = "exited" THEN @ ELSE event[c] = "continued"]
        /\ hangup' = [hangup EXCEPT ![c] = (event[c] = "exited")]
        /\ UNCHANGED <<state, status, pending, suspended, continue_status, phase,
                      next, result, stops, signals>>
    BY DEF WaitForEnd, Destroying, Waitable, control, bounds
  <1>2. /\ event[c] = "exited" => state[c] = "exited"
        /\ event[c] = "continued" => state[c] = "running"
        /\ event[c] = "stopped" => state[c] = "stopped"
        /\ event[c] \in {"stopped", "continued", "exited"}
    BY <1>1 DEF ReportsAreCurrent
  <1>3. TypeOK'
    BY <1>1
  <1>4. ReportsAreCurrent' /\ TerminatedHaveExited' /\ DestroyedInOrder'
    BY <1>1, <1>2 DEF ReportsAreCurrent, TerminatedHaveExited, DestroyedInOrder
  <1>5. ExitsAreNotLost'
    BY <1>1, <1>2 DEF ExitsAreNotLost
  <1>6. StopsAreNotLost'
    BY <1>1, <1>2 DEF StopsAreNotLost
  <1> QED BY <1>3, <1>4, <1>5, <1>6

\* The destructors.
LEMMA DestructorsKeepIInv ==
  ASSUME IInv, NEW c \in Children, EndChild(c) \/ ChildDestroyed(c)
  PROVE  IInv'
  <1> USE DEF IInv
  <1>1. CASE EndChild(c)
    <2>1. /\ Resume({c}, pending)
          /\ hangup' = [hangup EXCEPT ![c] = TRUE]
          /\ UNCHANGED <<status, suspended, views, control, bounds>>
      BY <1>1 DEF EndChild
    <2>2. /\ state' \in [Children -> {"running", "stopped", "exited"}]
          /\ event' \in [Children -> {"none", "stopped", "continued", "exited"}]
          /\ pending' \subseteq {"TERM", "CHLD", "CONT"}
          /\ ReportsAreCurrent' /\ TerminatedHaveExited'
          /\ ExitsAreNotLost' /\ StopsAreNotLost'
      <3>1. {c} \in SUBSET Children /\ pending \in SUBSET {"TERM", "CHLD", "CONT"}
        BY DEF TypeOK
      <3> QED BY <2>1, <3>1, ResumeKeeps
    <2>3. TypeOK'
      BY <2>1, <2>2 DEF TypeOK, views, control, bounds
    <2>4. DestroyedInOrder'
      BY <2>1 DEF DestroyedInOrder, views, control
    <2> QED BY <2>2, <2>3, <2>4
  <1>2. CASE ChildDestroyed(c)
    <2> USE <1>2 DEF ChildDestroyed, Destroying, kernel, views, bounds
    <2>1. TypeOK'
      BY ChildrenFacts, SMT DEF TypeOK
    <2>2. ReportsAreCurrent' /\ TerminatedHaveExited'
      BY DEF ReportsAreCurrent, TerminatedHaveExited
    <2>3. DestroyedInOrder'
      BY ChildrenFacts, SMT DEF DestroyedInOrder, TypeOK, Children
    <2>4. ExitsAreNotLost' /\ StopsAreNotLost'
      BY DEF ExitsAreNotLost, StopsAreNotLost
    <2> QED BY <2>1, <2>2, <2>3, <2>4
  <1> QED BY <1>1, <1>2

LEMMA NextKeepsIInv == IInv /\ [Next]_vars => IInv'
  <1> SUFFICES ASSUME IInv, [Next]_vars
               PROVE  IInv'
    OBVIOUS
  <1>1. ASSUME NEW c \in Children, NEW s \in Statuses, ChildExits(c, s)
        PROVE  IInv'
    <2>1. s \in 0..255
      BY ChildrenAssumption
    <2> QED BY <1>1, <2>1, ExitKeepsIInv
  <1>2. ASSUME NEW c \in Children, ChildStops(c)
        PROVE  IInv'
    BY <1>2, StopKeepsIInv
  <1>3. ASSUME NEW c \in Children, ChildObeys(c)
        PROVE  IInv'
    <2>1. ChildExits(c, 0) /\ 0 \in 0..255
      BY <1>3, SMT DEF ChildObeys
    <2> QED BY <2>1, ExitKeepsIInv
  <1>4. ASSUME NEW sig \in {"TERM", "CONT"}, UserSignals(sig)
        PROVE  IInv'
    BY <1>4 DEF UserSignals, IInv, TypeOK, ReportsAreCurrent,
                TerminatedHaveExited, DestroyedInOrder, ExitsAreNotLost,
                StopsAreNotLost, views, control
  <1>5. CASE ParentStep
    BY <1>5, HandlersKeepIInv, TerminatedKeepsIInv, ChangedKeepsIInv,
       WaitKeepsIInv, DestructorsKeepIInv DEF ParentStep
  <1>6. CASE UNCHANGED vars
    BY <1>6 DEF vars, kernel, views, control, bounds, IInv, TypeOK,
                ReportsAreCurrent, TerminatedHaveExited, DestroyedInOrder,
                ExitsAreNotLost, StopsAreNotLost
  <1> QED BY <1>1, <1>2, <1>3, <1>4, <1>5, <1>6 DEF Next

\* Every variable keeps its type; the search over the children never runs
\* beyond the last one.
THEOREM LoopTypes == Spec => []TypeOK
  <1>1. IInv => TypeOK
    BY DEF IInv
  <1> QED BY <1>1, InitIInv, NextKeepsIInv, PTL DEF Spec

\* However many SIGCHLDs coalesce, the exit of a child is known to the parent,
\* with its status, or can still be waited for.
THEOREM LoopLosesNoExit == Spec => []ExitsAreNotLost
  <1>1. IInv => ExitsAreNotLost
    BY DEF IInv
  <1> QED BY <1>1, InitIInv, NextKeepsIInv, PTL DEF Spec

\* A stopped child is known to be stopped, or its report waits to be read.
THEOREM LoopLosesNoStop == Spec => []StopsAreNotLost
  <1>1. IInv => StopsAreNotLost
    BY DEF IInv
  <1> QED BY <1>1, InitIInv, NextKeepsIInv, PTL DEF Spec

\* A process that has ended has left no child behind.
THEOREM LoopLeavesNoOrphans == Spec => []NoOrphans
  <1>1. IInv => NoOrphans
    BY DEF IInv, NoOrphans, DestroyedInOrder, TerminatedHaveExited
  <1> QED BY <1>1, InitIInv, NextKeepsIInv, PTL DEF Spec
====

---- MODULE LinkProofs ----
(***************************************************************************)
(* What holds of a link for every trace, packet size and queue limit, and  *)
(* for a clock that moves as it likes: of the link itself, and of the two  *)
(* programs that use it, the ferry and the link whose queue is the ABC     *)
(* router, which marks packets as it hands them out.                       *)
(***************************************************************************)
EXTENDS AbcLink, LinkFerry, TLAPS

\* While an opportunity is used, all that can be sent arrived before it.
OpportunityComesAfter == opp.open => \A p \in Unsent : p.arrival < opp.time

IInv ==
  /\ TypeOK
  /\ NoPacketIsLate
  /\ OpportunityComesAfter
  /\ left <= transit.size

LEMMA ScheduleFacts ==
  /\ Len(Schedule) \in Nat \ {0}
  /\ \A i \in 0..(Len(Schedule) - 1) : Schedule[i + 1] \in Nat
  /\ Schedule[1] \in Nat /\ Schedule[Len(Schedule)] \in Nat
  BY ScheduleAssumption

LEMMA PacketFacts ==
  /\ NoPacket \in Packets
  /\ NoCall \in [op : {"none", "read_packet", "wait_time"}, now : Nat,
                 size : 0..PacketSize, ecn : EcnFields]
  /\ NoOpp \in [time : Nat, left : 0..PacketSize, open : BOOLEAN]
  /\ EmptyQueue \in [pkts : Seq(Packets), bytes : Int, packets : Int]
  <1>1. 0 \in 0..PacketSize /\ "none" \in EcnFields /\ 0 \in Nat /\ 0 \in Int
    BY LinkAssumption DEF EcnFields
  <1>2. <<>> \in Seq(Packets)
    OBVIOUS
  <1> QED BY <1>1, <1>2 DEF Packets, NoPacket, NoCall, NoOpp, EmptyQueue

LEMMA InitIInv == Init => IInv
  <1> SUFFICES ASSUME Init
               PROVE  IInv
    OBVIOUS
  <1>1. left = 0 /\ transit = NoPacket /\ queue = EmptyQueue /\ opp = NoOpp
    BY DEF Init
  <1>2. Unsent = {}
    BY <1>1 DEF Unsent, Queued, EmptyQueue
  <1>3. /\ next_delivery \in 0..(Len(Schedule) - 1) /\ 0 \in 0..PacketSize
        /\ 0 \in Nat /\ <<>> \in Seq(Packets)
    BY ScheduleFacts, LinkAssumption DEF Init
  <1>4. TypeOK
    BY <1>3, PacketFacts DEF Init, TypeOK
  <1>5. left <= transit.size
    BY <1>1 DEF NoPacket
  <1> QED BY <1>2, <1>4, <1>5 DEF IInv, NoPacketIsLate, OpportunityComesAfter

\* The next opportunity of a trace never comes before the one it follows, also
\* where the trace repeats.
LEMMA TraceMovesOn ==
  ASSUME TypeOK, UseOpportunity
  PROVE  /\ NextDeliveryTime \in Nat
         /\ base' \in Nat /\ next_delivery' \in 0..(Len(Schedule) - 1)
         /\ finished' \in BOOLEAN
         /\ ~ finished' => NextDeliveryTime <= NextDeliveryTime'
  <1> DEFINE L == Len(Schedule)
  <1>1. /\ next_delivery' = (next_delivery + 1) % L
        /\ base' = IF next_delivery' = 0 /\ Repeat THEN base + Schedule[L] ELSE base
        /\ finished' = (next_delivery' = 0 /\ ~ Repeat)
    BY DEF UseOpportunity
  <1>2. /\ next_delivery \in 0..(L - 1) /\ base \in Nat /\ L \in Nat \ {0}
    BY ScheduleFacts DEF TypeOK
  <1>3. NextDeliveryTime \in Nat
    BY <1>2, ScheduleFacts DEF NextDeliveryTime
  <1>4. finished' \in BOOLEAN
    BY <1>1
  <1>5. CASE next_delivery + 1 < L
    <2>1. next_delivery' = next_delivery + 1
      BY <1>1, <1>2, <1>5, SMT
    <2>2. base' = base /\ next_delivery' \in 0..(L - 1)
      BY <1>1, <1>2, <1>5, <2>1
    <2>3. Schedule[next_delivery + 1] <= Schedule[next_delivery + 2]
      BY <1>2, <1>5, ScheduleAssumption
    <2>4. /\ Schedule[next_delivery + 1] \in Nat
          /\ Schedule[next_delivery + 2] \in Nat
      <3>1. next_delivery + 1 \in 0..(L - 1)
        BY <1>2, <1>5
      <3> QED BY <1>2, <3>1, ScheduleFacts
    <2>5. NextDeliveryTime' = base + Schedule[next_delivery + 2]
      BY <1>2, <2>1, <2>2 DEF NextDeliveryTime
    <2> QED BY <1>2, <1>3, <1>4, <2>2, <2>3, <2>4, <2>5 DEF NextDeliveryTime
  <1>6. CASE next_delivery + 1 = L
    <2>1. next_delivery' = 0
      BY <1>1, <1>2, <1>6, SMT
    <2>2. 0 \in 0..(L - 1)
      BY <1>2
    <2>3. CASE Repeat
      <3>1. base' = base + Schedule[L]
        BY <1>1, <2>1, <2>3
      <3>2. NextDeliveryTime = base + Schedule[L]
        BY <1>6 DEF NextDeliveryTime
      <3>3. NextDeliveryTime' = base + Schedule[L] + Schedule[1]
        BY <2>1, <3>1 DEF NextDeliveryTime
      <3> QED BY <1>2, <1>3, <1>4, <2>1, <2>2, <3>1, <3>2, <3>3, ScheduleFacts
    <2>4. CASE ~ Repeat
      BY <1>1, <1>2, <1>3, <1>4, <2>1, <2>2, <2>4
    <2> QED BY <2>3, <2>4
  <1> QED BY <1>2, <1>5, <1>6

\* The trace and the clock are all that NoPacketIsLate depends on but for the
\* packets still to be sent: it survives where those only become fewer.
LEMMA FewerPackets ==
  ASSUME IInv, UNCHANGED trace, opp'.open => opp.open /\ opp'.time = opp.time,
         \A p \in Unsent' : \E q \in Unsent : p.arrival = q.arrival
  PROVE  NoPacketIsLate' /\ OpportunityComesAfter'
  <1>1. NextDeliveryTime' = NextDeliveryTime /\ finished' = finished
    BY DEF trace, NextDeliveryTime
  <1>2. NoPacketIsLate'
    BY <1>1 DEF IInv, NoPacketIsLate
  <1>3. OpportunityComesAfter'
    BY DEF IInv, OpportunityComesAfter
  <1> QED BY <1>2, <1>3

\* A step that neither sends nor receives.
LEMMA SamePackets ==
  ASSUME IInv, TypeOK', UNCHANGED <<trace, queue, transit, left>>,
         opp'.open => opp.open /\ opp'.time = opp.time
  PROVE  IInv'
  <1>1. Unsent' = Unsent
    BY DEF Unsent, Queued
  <1>2. NoPacketIsLate' /\ OpportunityComesAfter'
    BY <1>1, FewerPackets
  <1> QED BY <1>2 DEF IInv

LEMMA CallsKeepIInv ==
  ASSUME IInv,
         \/ Tick \/ WaitTime \/ ReturnWait \/ WritePackets \/ EndOpportunity
         \/ \E size \in Sizes, ecn \in Ecns : ReadPacket(size, ecn)
  PROVE  IInv'
  <1> USE DEF IInv, packets
  <1>1. CASE Tick
    <2>1. clock' \in Nat
      BY <1>1, LinkAssumption DEF Tick
    <2>2. TypeOK'
      BY <1>1, <2>1 DEF Tick, TypeOK, trace
    <2> QED BY <1>1, <2>2, SamePackets DEF Tick
  <1>2. CASE WaitTime
    <2>1. TypeOK'
      BY <1>2, PacketFacts DEF WaitTime, TypeOK, trace
    <2> QED BY <1>2, <2>1, SamePackets DEF WaitTime
  <1>3. CASE ReturnWait
    <2>1. TypeOK'
      BY <1>3, PacketFacts DEF ReturnWait, TypeOK, trace
    <2> QED BY <1>3, <2>1, SamePackets DEF ReturnWait
  <1>4. CASE WritePackets
    <2>1. TypeOK'
      BY <1>4 DEF WritePackets, TypeOK, trace
    <2> QED BY <1>4, <2>1, SamePackets DEF WritePackets
  <1>5. CASE EndOpportunity
    <2>1. TypeOK'
      BY <1>5, PacketFacts DEF EndOpportunity, TypeOK, trace
    <2>2. ~ opp'.open
      BY <1>5 DEF EndOpportunity, NoOpp
    <2> QED BY <1>5, <2>1, <2>2, SamePackets DEF EndOpportunity
  <1>6. ASSUME NEW size \in Sizes, NEW ecn \in Ecns, ReadPacket(size, ecn)
        PROVE  IInv'
    <2>1. size \in 0..PacketSize /\ ecn \in EcnFields
      BY LinkAssumption DEF EcnFields
    <2>2. TypeOK'
      BY <1>6, <2>1 DEF ReadPacket, TypeOK, trace
    <2> QED BY <1>6, <2>2, SamePackets DEF ReadPacket
  <1> QED BY <1>1, <1>2, <1>3, <1>4, <1>5, <1>6

LEMMA UseKeepsIInv ==
  ASSUME IInv, UseOpportunity
  PROVE  IInv'
  <1> USE DEF IInv
  <1>1. /\ ~ finished
        /\ opp' = [time |-> NextDeliveryTime, left |-> PacketSize, open |-> TRUE]
        /\ used' = used + 1
        /\ UNCHANGED <<clock, queue, transit, left, output, last, call, arrived>>
    BY DEF UseOpportunity, IsDue, packets
  <1>2. /\ NextDeliveryTime \in Nat
        /\ base' \in Nat /\ next_delivery' \in 0..(Len(Schedule) - 1)
        /\ finished' \in BOOLEAN
        /\ ~ finished' => NextDeliveryTime <= NextDeliveryTime'
    BY TraceMovesOn
  <1>3. Unsent' = Unsent
    BY <1>1 DEF Unsent, Queued
  <1>4. \A p \in Unsent : p.arrival < NextDeliveryTime /\ p.arrival \in Nat
    <2>1. \A p \in Unsent : p \in Packets
      BY DEF Unsent, Queued, TypeOK
    <2> QED BY <1>1, <2>1 DEF NoPacketIsLate, Packets
  <1>5. OpportunityComesAfter'
    BY <1>1, <1>3, <1>4 DEF OpportunityComesAfter
  <1>6. NoPacketIsLate'
    <2> SUFFICES ASSUME ~ finished', NEW p \in Unsent
                 PROVE  p.arrival < NextDeliveryTime'
      BY <1>3 DEF NoPacketIsLate
    <2>1. NextDeliveryTime' \in Int
      <3>1. NextDeliveryTime' = base' + Schedule[next_delivery' + 1]
        BY DEF NextDeliveryTime
      <3> QED BY <1>2, <3>1, ScheduleFacts
    <2> QED BY <1>2, <1>4, <2>1
  <1>7. TypeOK'
    <2>1. PacketSize \in 0..PacketSize /\ used + 1 \in Nat
      BY LinkAssumption DEF TypeOK
    <2> QED BY <1>1, <1>2, <2>1 DEF TypeOK
  <1> QED BY <1>1, <1>5, <1>6, <1>7

\* The packet that the queue hands out may have been marked on its way.
Remarks(ret) ==
  /\ ret \in Packets
  /\ ret.size = Front(queue).size /\ ret.arrival = Front(queue).arrival
  /\ ret.due = Front(queue).due

LEMMA QueueFacts ==
  ASSUME TypeOK, ~ IsEmpty(queue)
  PROVE  /\ Front(queue) \in Packets /\ Front(queue) \in Queued
         /\ Dequeued(queue) \in [pkts : Seq(Packets), bytes : Int, packets : Int]
         /\ \A i \in 1..Len(Dequeued(queue).pkts) : Dequeued(queue).pkts[i] \in Queued
  <1>1. queue.pkts \in Seq(Packets) /\ queue.pkts # <<>>
        /\ queue.bytes \in Int /\ queue.packets \in Int
    BY DEF TypeOK, IsEmpty
  <1>2. Len(queue.pkts) \in Nat /\ Len(queue.pkts) >= 1
    BY <1>1
  <1>3. Front(queue) = queue.pkts[1] /\ Front(queue) \in Packets
    BY <1>1, <1>2 DEF Front
  <1>4. /\ Tail(queue.pkts) \in Seq(Packets)
        /\ Len(Tail(queue.pkts)) = Len(queue.pkts) - 1
        /\ \A i \in 1..Len(Tail(queue.pkts)) :
             Tail(queue.pkts)[i] = queue.pkts[i + 1]
    BY <1>1, <1>2
  <1>5. Front(queue).size \in Int
    BY <1>3, LinkAssumption DEF Packets
  <1>6. Dequeued(queue) \in [pkts : Seq(Packets), bytes : Int, packets : Int]
    BY <1>1, <1>4, <1>5 DEF Dequeued
  <1>7. \A i \in 1..Len(Dequeued(queue).pkts) : Dequeued(queue).pkts[i] \in Queued
    BY <1>2, <1>4 DEF Dequeued, Queued
  <1> QED BY <1>2, <1>3, <1>6, <1>7 DEF Queued

LEMMA StartKeepsIInv ==
  ASSUME IInv, NEW ret, Remarks(ret), StartPacket(ret)
  PROVE  IInv'
  <1> USE DEF IInv
  <1>1. /\ ~ IsEmpty(queue) /\ left = 0
        /\ queue' = Dequeued(queue) /\ transit' = ret /\ left' = ret.size
        /\ UNCHANGED <<clock, trace, output, last, call, opp, arrived>>
    BY DEF StartPacket
  <1>2. ret \in Packets /\ ret.size \in 0..PacketSize
    BY DEF Remarks, Packets
  <1>3. TypeOK'
    BY <1>1, <1>2, QueueFacts DEF TypeOK, trace
  <1>4. \A p \in Unsent' : \E q \in Unsent : p.arrival = q.arrival
    <2> SUFFICES ASSUME NEW p \in Unsent'
                 PROVE  \E q \in Unsent : p.arrival = q.arrival
      OBVIOUS
    <2>1. CASE p \in Queued'
      BY <1>1, <2>1, QueueFacts DEF Queued, Unsent
    <2>2. CASE p = ret
      BY <1>1, <2>2, QueueFacts DEF Remarks, Unsent
    <2> QED BY <1>1, <2>1, <2>2 DEF Unsent
  <1>5. NoPacketIsLate' /\ OpportunityComesAfter'
    BY <1>1, <1>4, FewerPackets
  <1>6. left' <= transit'.size
    BY <1>1, <1>2, LinkAssumption
  <1> QED BY <1>3, <1>5, <1>6

LEMMA SendKeepsIInv ==
  ASSUME IInv, SendBytes
  PROVE  IInv'
  <1> USE DEF IInv
  <1> DEFINE n == AmountToSend
  <1>1. /\ opp.open /\ opp.left > 0 /\ left > 0
        /\ left' = left - n /\ opp' = [opp EXCEPT !.left = @ - n]
        /\ output' = IF left' = 0 THEN Append(output, transit) ELSE output
        /\ last' = IF left' = 0 THEN transit.id ELSE last
        /\ UNCHANGED <<clock, trace, queue, transit, call, arrived>>
    BY DEF SendBytes
  <1>2. /\ opp \in [time : Nat, left : 0..PacketSize, open : BOOLEAN]
        /\ left \in 0..PacketSize /\ PacketSize \in Nat /\ transit \in Packets
        /\ output \in Seq(Packets) /\ last \in Nat
    BY LinkAssumption DEF TypeOK
  <1>3. n \in 1..PacketSize /\ n <= left /\ n <= opp.left
    BY <1>1, <1>2 DEF AmountToSend
  <1>4. transit.id \in Nat /\ transit.size \in 0..PacketSize
    BY <1>2 DEF Packets
  <1> HIDE DEF n
  <1>5. left' \in 0..PacketSize /\ left' < left
    BY <1>1, <1>2, <1>3
  <1>6. opp' \in [time : Nat, left : 0..PacketSize, open : BOOLEAN]
        /\ opp'.time = opp.time /\ opp'.open = opp.open
    <2>1. opp.left - n \in 0..PacketSize
      BY <1>2, <1>3
    <2>2. opp = [time |-> opp.time, left |-> opp.left, open |-> opp.open]
      BY <1>2
    <2>3. opp' = [time |-> opp.time, left |-> opp.left - n, open |-> opp.open]
      BY <1>1, <2>2
    <2>4. opp.time \in Nat /\ opp.open \in BOOLEAN
      BY <1>2
    <2> QED BY <2>1, <2>3, <2>4
  <1>7. TypeOK'
    <2>1. output' \in Seq(Packets) /\ last' \in Nat
      BY <1>1, <1>2, <1>4
    <2> QED BY <1>1, <1>5, <1>6, <2>1 DEF TypeOK, trace
  <1>8. \A p \in Unsent' : \E q \in Unsent : p.arrival = q.arrival
    BY <1>1 DEF Unsent, Queued
  <1>9. NoPacketIsLate' /\ OpportunityComesAfter'
    BY <1>1, <1>6, <1>8, FewerPackets
  <1>10. left' <= transit'.size
    BY <1>1, <1>2, <1>4, <1>5
  <1> QED BY <1>7, <1>9, <1>10

LEMMA EnqueueKeepsIInv ==
  ASSUME IInv, EnqueuePacket
  PROVE  IInv'
  <1> USE DEF IInv
  <1> DEFINE p == [id |-> arrived + 1, size |-> call.size, ecn |-> call.ecn,
                   arrival |-> call.now, due |-> DueOpportunity(call.size)]
  <1>1. /\ ~ opp.open /\ ~ IsDue(call.now)
        /\ queue' = TailEnqueue(queue, p)
        /\ arrived' = arrived + 1 /\ call' = NoCall
        /\ UNCHANGED <<clock, trace, transit, left, output, last, opp>>
    BY DEF EnqueuePacket, Rationalized
  <1>2. /\ call.size \in 0..PacketSize /\ call.now \in Nat
        /\ call.ecn \in EcnFields /\ arrived + 1 \in Nat
        /\ queue \in [pkts : Seq(Packets), bytes : Int, packets : Int]
    BY DEF TypeOK
  <1>3. DueOpportunity(call.size) \in Int
    <2>1. queue.bytes + left + call.size + PacketSize - 1 \in Int
          /\ PacketSize \in Nat \ {0} /\ used \in Nat
      BY <1>2, LinkAssumption DEF TypeOK
    <2>2. (queue.bytes + left + call.size + PacketSize - 1) \div PacketSize \in Int
      BY <2>1, SMT
    <2> QED BY <2>1, <2>2 DEF DueOpportunity, Ceiling
  <1>4. p \in Packets /\ p.arrival = call.now /\ p.size = call.size
    BY <1>2, <1>3 DEF Packets
  <1> HIDE DEF p
  <1>5. Accept(queue, p) \in [pkts : Seq(Packets), bytes : Int, packets : Int]
    BY <1>2, <1>4, LinkAssumption DEF Accept
  <1>6. queue' = queue \/ queue' = Accept(queue, p)
    BY <1>1 DEF TailEnqueue
  <1>7. TypeOK'
    BY <1>1, <1>2, <1>5, <1>6, PacketFacts DEF TypeOK, trace
  <1>8. \A q \in Unsent' : q = p \/ q \in Unsent
    <2>1. CASE queue' = queue
      BY <1>1, <2>1 DEF Unsent, Queued
    <2>2. CASE queue' = Accept(queue, p)
      <3>1. queue'.pkts = Append(queue.pkts, p)
        BY <2>2 DEF Accept
      <3>2. \A i \in 1..Len(queue'.pkts) : queue'.pkts[i] = p
                                            \/ queue'.pkts[i] \in Queued
        BY <1>2, <3>1 DEF Queued
      <3> QED BY <1>1, <3>2 DEF Unsent, Queued
    <2> QED BY <1>6, <2>1, <2>2
  <1>9. NextDeliveryTime' = NextDeliveryTime /\ finished' = finished
    BY <1>1 DEF trace, NextDeliveryTime
  <1>10. ~ finished => p.arrival < NextDeliveryTime
    <2>1. NextDeliveryTime \in Int
      BY ScheduleFacts, SMTT(30) DEF NextDeliveryTime, TypeOK
    <2> QED BY <1>1, <1>2, <1>4, <2>1 DEF IsDue
  <1>11. NoPacketIsLate'
    BY <1>8, <1>9, <1>10 DEF NoPacketIsLate
  <1>12. OpportunityComesAfter' /\ left' <= transit'.size
    BY <1>1 DEF OpportunityComesAfter
  <1> QED BY <1>7, <1>11, <1>12

\* The steps of a link whose queue may mark what it hands out.
LinkStep ==
  \/ Tick \/ WaitTime \/ ReturnWait \/ WritePackets \/ EndOpportunity
  \/ \E size \in Sizes, ecn \in Ecns : ReadPacket(size, ecn)
  \/ UseOpportunity \/ SendBytes \/ EnqueuePacket
  \/ \E ret \in Packets : Remarks(ret) /\ StartPacket(ret)

LEMMA LinkStepKeepsIInv == IInv /\ [LinkStep]_vars => IInv'
  <1> SUFFICES ASSUME IInv, [LinkStep]_vars
               PROVE  IInv'
    OBVIOUS
  <1>1. CASE LinkStep
    BY <1>1, CallsKeepIInv, UseKeepsIInv, SendKeepsIInv, EnqueueKeepsIInv,
       StartKeepsIInv DEF LinkStep
  <1>2. CASE UNCHANGED vars
    <2>1. TypeOK'
      BY <1>2 DEF vars, trace, packets, IInv, TypeOK
    <2> QED BY <1>2, <2>1, SamePackets DEF vars, packets
  <1> QED BY <1>1, <1>2

LEMMA NextIsLinkStep ==
  ASSUME TypeOK, [Next]_vars
  PROVE  [LinkStep]_vars
  <1>1. ASSUME StartPacket(Front(queue))
        PROVE  LinkStep
    <2>1. ~ IsEmpty(queue)
      BY <1>1 DEF StartPacket
    <2>2. Front(queue) \in Packets /\ Remarks(Front(queue))
      BY <2>1, QueueFacts DEF Remarks
    <2> QED BY <1>1, <2>2 DEF LinkStep
  <1> QED BY <1>1 DEF Next, Running, LinkStep

LEMMA IInvImplies == IInv => TypeOK /\ NoPacketIsLate /\ AssertionsHold
  <1> SUFFICES ASSUME IInv, opp.open, left > 0
               PROVE  /\ transit.arrival <= opp.time
                      /\ left <= PacketSize /\ left <= transit.size
    BY DEF IInv, AssertionsHold
  <1>1. transit \in Unsent
    BY DEF Unsent
  <1>2. transit.arrival < opp.time
    BY <1>1 DEF IInv, OpportunityComesAfter
  <1>3. transit.arrival \in Nat /\ opp.time \in Nat
    BY DEF IInv, TypeOK, Packets
  <1> QED BY <1>2, <1>3, LinkAssumption DEF IInv, TypeOK

LEMMA NextKeepsIInv == IInv /\ [Next]_vars => IInv'
  BY LinkStepKeepsIInv, NextIsLinkStep DEF IInv

\* Every variable of a link keeps its type: the bytes left of a packet and of an
\* opportunity never go below zero.
THEOREM LinkTypes == Spec => []TypeOK
  <1>1. IInv => TypeOK
    BY IInvImplies
  <1> QED BY <1>1, InitIInv, NextKeepsIInv, PTL DEF Spec

\* For every trace and every clock, no packet is left to wait for an opportunity
\* that came before it arrived.
THEOREM LinkIsNeverLate == Spec => []NoPacketIsLate
  <1>1. IInv => NoPacketIsLate
    BY IInvImplies
  <1> QED BY <1>1, InitIInv, NextKeepsIInv, PTL DEF Spec

\* The assertions of rationalize() never fail.
THEOREM LinkAssertions == Spec => []AssertionsHold
  <1>1. IInv => AssertionsHold
    BY IInvImplies
  <1> QED BY <1>1, InitIInv, NextKeepsIInv, PTL DEF Spec
----
(***************************************************************************)
(* The same for the link under a ferry, and under the ABC router.  Every   *)
(* step of theirs is a step of the link or leaves it alone, the marks of   *)
(* the router included.                                                    *)
(***************************************************************************)
LEMMA MarkedIsRemarks ==
  ASSUME TypeOK, ~ IsEmpty(queue), NEW ecn \in Ecns \cup {"ce"}
  PROVE  /\ [Front(queue) EXCEPT !.ecn = ecn] \in Packets
         /\ Remarks([Front(queue) EXCEPT !.ecn = ecn])
  <1>1. Front(queue) \in Packets /\ ecn \in EcnFields
    BY QueueFacts DEF EcnFields
  <1>2. [Front(queue) EXCEPT !.ecn = ecn] \in Packets
    BY <1>1 DEF Packets
  <1> QED BY <1>1, <1>2 DEF Remarks, Packets

LEMMA AbcIsLinkStep ==
  ASSUME TypeOK, [AbcNext]_abcVars
  PROVE  [LinkStep]_vars
  <1>1. ASSUME NEW ecn \in Ecns \cup {"ce"}, AbcStartPacket(ecn)
        PROVE  LinkStep
    <2> DEFINE ret == [Front(queue) EXCEPT !.ecn = ecn]
    <2>1. StartPacket(ret) /\ ~ IsEmpty(queue)
      BY <1>1 DEF AbcStartPacket, StartPacket
    <2>2. ret \in Packets /\ Remarks(ret)
      BY <2>1, MarkedIsRemarks
    <2> QED BY <2>1, <2>2 DEF LinkStep
  <1>2. CASE AbcRunning
    BY <1>1, <1>2 DEF AbcRunning, AbcEndOpportunity, AbcEnqueuePacket, LinkStep
  <1>3. CASE UNCHANGED abcVars
    BY <1>3 DEF abcVars
  <1> QED BY <1>2, <1>3 DEF AbcNext, LinkStep

LEMMA FerryTickIsTick ==
  ASSUME TypeOK, FerryTick
  PROVE  Tick
  <1>1. clock' \in 0..MaxClock
    BY LinkAssumption DEF TypeOK, FerryTick
  <1> QED BY <1>1 DEF FerryTick, Tick

LEMMA FerryIsLinkStep ==
  ASSUME TypeOK, [FerryNext]_ferryVars
  PROVE  [LinkStep]_vars
  <1>1. CASE FerryTick
    BY <1>1, FerryTickIsTick DEF LinkStep
  <1>2. ASSUME LinkRuns
        PROVE  [LinkStep]_vars
    <2>1. Running
      BY <1>2 DEF LinkRuns, Running
    <2> QED BY <2>1, NextIsLinkStep DEF Next
  <1>3. ASSUME NEW size \in Sizes, NEW ecn \in Ecns, TunCallback(size, ecn)
        PROVE  LinkStep
    BY <1>3 DEF TunCallback, LinkStep
  <1>4. ASSUME \/ CallWaitTime \/ PollStarts \/ TunCallbackReturns
               \/ WriteCallback
        PROVE  LinkStep
    BY <1>4 DEF CallWaitTime, PollStarts, TunCallbackReturns, WriteCallback,
                LinkStep
  <1>5. ASSUME \/ DatagramArrives \/ PollTimesOut \/ PollReturns
               \/ ExitCallback \/ TurnEnds \/ UNCHANGED ferryVars
        PROVE  UNCHANGED vars
    BY <1>5 DEF DatagramArrives, PollTimesOut, PollReturns, ExitCallback,
                TurnEnds, ferryVars
  <1> QED BY <1>1, <1>2, <1>3, <1>4, <1>5 DEF FerryNext, FerryStep

LEMMA AbcKeepsIInv == IInv /\ [AbcNext]_abcVars => IInv'
  BY LinkStepKeepsIInv, AbcIsLinkStep DEF IInv

LEMMA FerryKeepsIInv == IInv /\ [FerryNext]_ferryVars => IInv'
  BY LinkStepKeepsIInv, FerryIsLinkStep DEF IInv

\* Every variable of a link keeps its type under an ABC router, whatever it
\* marks and however the clock jumps.
THEOREM AbcLinkTypes == AbcSpec => []TypeOK
  <1>1. AbcInit => IInv
    BY InitIInv DEF AbcInit
  <1>2. IInv => TypeOK
    BY IInvImplies
  <1> QED BY <1>1, <1>2, AbcKeepsIInv, PTL DEF AbcSpec

\* No packet of an ABC link waits for an opportunity that came before it.
THEOREM AbcLinkIsNeverLate == AbcSpec => []NoPacketIsLate
  <1>1. AbcInit => IInv
    BY InitIInv DEF AbcInit
  <1>2. IInv => NoPacketIsLate
    BY IInvImplies
  <1> QED BY <1>1, <1>2, AbcKeepsIInv, PTL DEF AbcSpec

\* The assertions of rationalize() never fail on an ABC link.
THEOREM AbcLinkAssertions == AbcSpec => []AssertionsHold
  <1>1. AbcInit => IInv
    BY InitIInv DEF AbcInit
  <1>2. IInv => AssertionsHold
    BY IInvImplies
  <1> QED BY <1>1, <1>2, AbcKeepsIInv, PTL DEF AbcSpec

\* Every variable of a ferry's link keeps its type.
THEOREM FerryTypes == FerrySpec => []TypeOK
  <1>1. FerryInit => IInv
    BY InitIInv DEF FerryInit
  <1>2. IInv => TypeOK
    BY IInvImplies
  <1> QED BY <1>1, <1>2, FerryKeepsIInv, PTL DEF FerrySpec

\* The ferry calls the link only in ways that keep its packets on time.
THEOREM FerryIsNeverLate == FerrySpec => []NoPacketIsLate
  <1>1. FerryInit => IInv
    BY InitIInv DEF FerryInit
  <1>2. IInv => NoPacketIsLate
    BY IInvImplies
  <1> QED BY <1>1, <1>2, FerryKeepsIInv, PTL DEF FerrySpec

\* The assertions of rationalize() never fail in a ferry.
THEOREM FerryAssertions == FerrySpec => []AssertionsHold
  <1>1. FerryInit => IInv
    BY InitIInv DEF FerryInit
  <1>2. IInv => AssertionsHold
    BY IInvImplies
  <1> QED BY <1>1, <1>2, FerryKeepsIInv, PTL DEF FerrySpec
----
(***************************************************************************)
(* The loop of a ferry.                                                    *)
(***************************************************************************)
InCall == pc \in {"wait_time", "reading"}

\* What a turn found to do when it asked poll() is still to be done when its
\* callbacks run; and a trace that had ended by then leaves the link at rest.
FerryIInv ==
  /\ pc \in {"turn", "wait_time", "poll", "callbacks", "reading", "exited"}
  /\ ~ InCall => call = NoCall /\ ~ opp.open
  /\ pc = "poll" =>
       /\ "write" \in interest <=> output # <<>>
       /\ "exit" \in interest => finished
  /\ pc \in {"callbacks", "reading"} =>
       /\ "write" \in revents => output # <<>>
       /\ "exit" \in revents => /\ finished /\ ~ opp.open
                                /\ output # <<>> => "write" \in revents
  /\ pc = "exited" => output = <<>> /\ finished

LEMMA InitFerryIInv == FerryInit => FerryIInv
  BY DEF FerryInit, Init, FerryIInv, InCall, NoOpp

\* The link runs only inside a call, and it sends only while its trace lasts.
LEMMA LinkRunsInCalls ==
  ASSUME IInv, FerryIInv, LinkRuns
  PROVE  FerryIInv'
  <1> USE DEF FerryIInv, InCall
  <1>1. UNCHANGED <<pc, interest, revents, call>> /\ InCall
    BY DEF LinkRuns, ferry, UseOpportunity, StartPacket, SendBytes, EndOpportunity
  <1>2. output # <<>> => output' # <<>>
    <2>1. CASE SendBytes
      <3>1. output \in Seq(Packets) /\ transit \in Packets
        BY DEF IInv, TypeOK
      <3>2. output' = Append(output, transit) \/ output' = output
        BY <2>1 DEF SendBytes
      <3> QED BY <3>1, <3>2
    <2>2. CASE UseOpportunity \/ StartPacket(Front(queue)) \/ EndOpportunity
      BY <2>2 DEF UseOpportunity, StartPacket, EndOpportunity, packets
    <2> QED BY <2>1, <2>2 DEF LinkRuns
  <1>3. finished /\ ~ opp.open => finished' /\ ~ opp'.open /\ output' = output
    BY DEF LinkRuns, UseOpportunity, IsDue, StartPacket, SendBytes, EndOpportunity, trace
  <1> QED BY <1>1, <1>2, <1>3

\* The steps of the loop itself.
LEMMA FerryStepKeeps ==
  ASSUME IInv, FerryIInv, [FerryNext]_ferryVars
  PROVE  FerryIInv'
  <1> USE DEF FerryIInv, InCall, trace, packets
  <1>1. ASSUME FerryTick \/ DatagramArrives \/ UNCHANGED ferryVars
        PROVE  FerryIInv'
    <2>1. UNCHANGED <<pc, interest, revents, call, opp, output, finished>>
      BY <1>1 DEF FerryTick, DatagramArrives, ferryVars, ferry, vars
    <2> QED BY <2>1
  <1>2. CASE CallWaitTime
    BY <1>2 DEF CallWaitTime, WaitTime
  <1>3. CASE PollStarts
    BY <1>3 DEF PollStarts, ReturnWait, Rationalized, Interest
  <1>4. CASE PollTimesOut
    BY <1>4 DEF PollTimesOut, vars
  <1>5. CASE PollReturns
    BY <1>5 DEF PollReturns, Ready, vars
  <1>6. ASSUME NEW size \in Sizes, NEW ecn \in Ecns, TunCallback(size, ecn)
        PROVE  FerryIInv'
    BY <1>6 DEF TunCallback, ReadPacket
  <1>7. CASE TunCallbackReturns
    BY <1>7 DEF TunCallbackReturns, EnqueuePacket, Rationalized
  <1>8. CASE WriteCallback
    BY <1>8 DEF WriteCallback, WritePackets
  <1>9. CASE ExitCallback
    BY <1>9 DEF ExitCallback, vars
  <1>10. CASE TurnEnds
    BY <1>10 DEF TurnEnds, vars
  <1> QED BY <1>1, <1>2, <1>3, <1>4, <1>5, <1>6, <1>7, <1>8, <1>9, <1>10, LinkRunsInCalls
          DEF FerryNext, FerryStep

\* A ferry keeps what holds of its link and of its loop.
LEMMA FerryIsSound == FerrySpec => [](IInv /\ FerryIInv)
  <1>1. FerryInit => IInv /\ FerryIInv
    BY InitIInv, InitFerryIInv DEF FerryInit
  <1>2. IInv /\ FerryIInv /\ [FerryNext]_ferryVars => (IInv /\ FerryIInv)'
    BY FerryKeepsIInv, FerryStepKeeps
  <1> QED BY <1>1, <1>2, PTL DEF FerrySpec

\* The Poller's busy-wait check never ends a ferry: a packet that was there to be
\* written when interest was computed is there when the callback runs, whatever
\* the callback of the TUN device did to the link in between.
THEOREM FerryNeverThrows == FerrySpec => []NeverThrows
  <1>1. FerryIInv => NeverThrows
    BY DEF FerryIInv, NeverThrows
  <1> QED BY <1>1, FerryIsSound, PTL

\* A ferry that exits has written every packet that left its link, wherever in
\* the turn the trace ran out.
THEOREM FerryFlushes == FerrySpec => []ExitsFlushed
  <1>1. FerryIInv => ExitsFlushed
    BY DEF FerryIInv, ExitsFlushed
  <1> QED BY <1>1, FerryIsSound, PTL
----
(***************************************************************************)
(* The trace.  The link keeps only where it is in the trace and when this  *)
(* turn of it began; how often it came round is nowhere in the code.       *)
(***************************************************************************)
Period == Schedule[Len(Schedule)]

\* The opportunities used are those of n whole turns and of a part of the next,
\* which began n periods after the start; or of the one turn there is.
TraceIsPlayed ==
  IF Repeat
  THEN ~ finished /\ \E n \in Nat : /\ base = n * Period
                                   /\ used = n * Len(Schedule) + next_delivery
  ELSE base = 0 /\ used = IF finished THEN Len(Schedule) ELSE next_delivery

LEMMA InitTrace == Init => TraceIsPlayed
  <1> SUFFICES ASSUME Init
               PROVE  TraceIsPlayed
    OBVIOUS
  <1>1. base = 0 /\ next_delivery = 0 /\ used = 0 /\ ~ finished
    BY DEF Init
  <1>2. Period \in Nat /\ Len(Schedule) \in Nat
    BY ScheduleFacts DEF Period
  <1>3. base = 0 * Period /\ used = 0 * Len(Schedule) + next_delivery
    BY <1>1, <1>2
  <1>4. \E n \in Nat : base = n * Period /\ used = n * Len(Schedule) + next_delivery
    BY <1>3
  <1> QED BY <1>1, <1>4 DEF TraceIsPlayed

\* An opportunity moves the trace on by one, round its end or over it.
LEMMA UseKeepsTrace ==
  ASSUME TypeOK, TraceIsPlayed, UseOpportunity
  PROVE  TraceIsPlayed'
  <1> DEFINE L == Len(Schedule)
  <1>1. /\ next_delivery' = (next_delivery + 1) % L /\ used' = used + 1 /\ ~ finished
        /\ base' = IF next_delivery' = 0 /\ Repeat THEN base + Period ELSE base
        /\ finished' = (next_delivery' = 0 /\ ~ Repeat)
    BY DEF UseOpportunity, IsDue, Period
  <1>2. next_delivery \in 0..(L - 1) /\ L \in Nat \ {0} /\ Period \in Nat
    BY ScheduleFacts DEF TypeOK, Period
  <1>3. /\ next_delivery + 1 < L => next_delivery' = next_delivery + 1 /\ next_delivery' # 0
        /\ ~ (next_delivery + 1 < L) => next_delivery' = 0 /\ next_delivery + 1 = L
    BY <1>1, <1>2, SMT
  <1>4. CASE Repeat
    <2>1. PICK n \in Nat : base = n * Period /\ used = n * L + next_delivery
      BY <1>4 DEF TraceIsPlayed
    <2> HIDE DEF L
    <2>2. CASE next_delivery + 1 < L
      <3>1. n * L \in Nat
        BY <1>2
      <3>2. base' = n * Period /\ used' = n * L + next_delivery'
        BY <1>1, <1>2, <1>3, <2>1, <2>2, <3>1
      <3> QED BY <1>1, <1>4, <3>2 DEF TraceIsPlayed, L
    <2>3. CASE ~ (next_delivery + 1 < L)
      <3>1. (n + 1) * L = n * L + L /\ (n + 1) * Period = n * Period + Period /\ n * L \in Nat
        BY <1>2, SMT
      <3>2. n + 1 \in Nat /\ base' = (n + 1) * Period /\ used' = (n + 1) * L + next_delivery'
        BY <1>1, <1>2, <1>3, <1>4, <2>1, <2>3, <3>1
      <3> QED BY <1>1, <1>4, <3>2 DEF TraceIsPlayed, L
    <2> QED BY <2>2, <2>3
  <1>5. CASE ~ Repeat
    BY <1>1, <1>2, <1>3, <1>5 DEF TraceIsPlayed
  <1> QED BY <1>4, <1>5

LEMMA LinkStepKeepsTrace ==
  ASSUME TypeOK, TraceIsPlayed, [LinkStep]_vars
  PROVE  TraceIsPlayed'
  <1>1. CASE UseOpportunity
    BY <1>1, UseKeepsTrace
  <1>2. CASE ~ UseOpportunity
    <2>1. UNCHANGED trace
      BY <1>2 DEF LinkStep, Tick, WaitTime, ReturnWait, WritePackets, EndOpportunity,
                  ReadPacket, SendBytes, EnqueuePacket, StartPacket, vars
    <2> QED BY <2>1 DEF TraceIsPlayed, trace
  <1> QED BY <1>1, <1>2

\* The trace is played as it was recorded: no opportunity is skipped or repeated,
\* and however often the trace came round, the times of its opportunities have not
\* drifted, whatever the clock and the calls that brought the link up to date.
THEOREM LinkPlaysTrace == Spec => []TraceIsPlayed
  <1>1. Init => IInv /\ TraceIsPlayed
    BY InitIInv, InitTrace
  <1>2. IInv /\ TraceIsPlayed /\ [Next]_vars => (IInv /\ TraceIsPlayed)'
    BY NextKeepsIInv, NextIsLinkStep, LinkStepKeepsTrace DEF IInv
  <1> QED BY <1>1, <1>2, PTL DEF Spec

\* A ferry exits only when its trace has ended, which a repeated one never does,
\* and after exactly the opportunities that are in it: an exit action that was of
\* interest once stays so, since no opportunity is due any more.
THEOREM FerryExitsAtTheEnd ==
  FerrySpec => [](pc = "exited" => finished /\ ~ Repeat /\ used = Len(Schedule))
  <1>1. FerryInit => TraceIsPlayed
    BY InitTrace DEF FerryInit
  <1>2. IInv /\ TraceIsPlayed /\ [FerryNext]_ferryVars => TraceIsPlayed'
    BY FerryIsLinkStep, LinkStepKeepsTrace DEF IInv
  <1>3. FerryIInv /\ TraceIsPlayed => (pc = "exited" => finished /\ ~ Repeat /\ used = Len(Schedule))
    BY DEF FerryIInv, TraceIsPlayed
  <1> QED BY <1>1, <1>2, <1>3, FerryIsSound, PTL DEF FerrySpec
----
(***************************************************************************)
(* Opportunities and bytes.  Each byte that is to be sent has its place    *)
(* among the bytes that the opportunities of the trace can carry, and      *)
(* keeps it until it is sent.                                              *)
(***************************************************************************)
\* How many bytes the opportunities used so far have carried, or let go by.
Carried == used * PacketSize - (IF opp.open THEN opp.left ELSE 0)

\* Opportunity n is the one that carries byte e.
Carries(n, e) == (n - 1) * PacketSize < e /\ e <= n * PacketSize

\* e[i] is the place of the last byte of packet i, after byte "from".
Placed(pkts, from, e) ==
  /\ e \in [0..Len(pkts) -> Int] /\ e[0] = from
  /\ \A i \in 1..Len(pkts) : e[i] = e[i - 1] + pkts[i].size /\ Carries(pkts[i].due, e[i])

EachHasItsPlace ==
  /\ \E e : /\ Placed(queue.pkts, Carried + left, e)
            /\ e[Len(queue.pkts)] = Carried + left + queue.bytes
  /\ left > 0 => Carries(transit.due, Carried + left)

\* Products keep their order; no byte is carried by two opportunities.
LEMMA OneCarries ==
  ASSUME NEW m \in Int, NEW n \in Int, NEW e \in Int, Carries(m, e), Carries(n, e)
  PROVE  m = n
  <1>1. \A x, y \in Int : y <= x => y * PacketSize <= x * PacketSize
    <2>1. PacketSize \in Nat
      BY LinkAssumption
    <2> QED BY <2>1
  <1>2. m - 1 < n /\ n - 1 < m
    <2>1. ~ (n <= m - 1) /\ ~ (m <= n - 1)
      <3>1. /\ (m - 1) * PacketSize \in Int /\ n * PacketSize \in Int
            /\ (n - 1) * PacketSize \in Int /\ m * PacketSize \in Int
        BY LinkAssumption
      <3>2. n <= m - 1 => n * PacketSize <= (m - 1) * PacketSize
        BY <1>1
      <3>3. m <= n - 1 => m * PacketSize <= (n - 1) * PacketSize
        BY <1>1
      <3> QED BY <3>1, <3>2, <3>3 DEF Carries
    <2> QED BY <2>1
  <1> QED BY <1>2

\* The opportunity computed for x bytes behind those of u opportunities.
LEMMA CeilingCarries ==
  ASSUME NEW u \in Int, NEW x \in Int
  PROVE  /\ Carries(u + Ceiling(x, PacketSize), u * PacketSize + x)
         /\ u + Ceiling(x, PacketSize) \in Int
  <1> DEFINE d == PacketSize
             c == Ceiling(x, d)
  <1>1. d \in Int /\ d > 0
    BY LinkAssumption
  <1> HIDE DEF d
  <1>2. c \in Int /\ c * d <= x + d - 1 /\ x + d - 1 < c * d + d
    <2>1. \A y, k \in Int : k > 0 =>
            y \div k \in Int /\ (y \div k) * k <= y /\ y < (y \div k) * k + k
      OBVIOUS
    <2> QED BY <1>1, <2>1 DEF Ceiling
  <1> HIDE DEF c
  <1>3. /\ (u + c - 1) * d = u * d + c * d - d
        /\ (u + c) * d = u * d + c * d
    BY <1>1, <1>2
  <1>4. u * d \in Int /\ c * d \in Int
    BY <1>1, <1>2
  <1>5. (u + c - 1) * d < u * d + x /\ u * d + x <= (u + c) * d
    BY <1>1, <1>2, <1>3, <1>4
  <1> QED BY <1>2, <1>5 DEF Carries, c, d

LEMMA CarriedIsInt ==
  ASSUME TypeOK
  PROVE  Carried \in Int /\ left \in Nat /\ used * PacketSize \in Int
  <1>1. used * PacketSize \in Int
    BY LinkAssumption DEF TypeOK
  <1>2. opp.left \in Int /\ left \in Nat
    BY LinkAssumption DEF TypeOK
  <1> QED BY <1>1, <1>2 DEF Carried

\* A step that moves no packet, and no byte past another, moves no place.
LEMMA SamePlaces ==
  ASSUME EachHasItsPlace, UNCHANGED <<queue, transit, left>>, Carried' = Carried
  PROVE  EachHasItsPlace'
  BY DEF EachHasItsPlace, Placed, Carries

\* Calls and returns, the clock and the sibling's device.
LEMMA CallsKeepPlaces ==
  ASSUME IInv, EachHasItsPlace,
         \/ Tick \/ WaitTime \/ ReturnWait \/ WritePackets \/ UNCHANGED vars
         \/ \E size \in Sizes, ecn \in Ecns : ReadPacket(size, ecn)
  PROVE  EachHasItsPlace'
  <1>1. UNCHANGED <<queue, transit, left, used, opp>>
    BY DEF Tick, WaitTime, ReturnWait, WritePackets, ReadPacket, vars, trace, packets
  <1> QED BY <1>1, SamePlaces DEF Carried

\* An opportunity begins with all its bytes to come.
LEMMA UseKeepsPlaces ==
  ASSUME IInv, EachHasItsPlace, UseOpportunity
  PROVE  EachHasItsPlace'
  <1>1. /\ ~ opp.open /\ opp'.left = PacketSize /\ opp'.open /\ used' = used + 1
        /\ UNCHANGED <<queue, transit, left>>
    BY DEF UseOpportunity, packets
  <1>2. used \in Int /\ PacketSize \in Int
    BY LinkAssumption DEF IInv, TypeOK
  <1>3. (used + 1) * PacketSize - PacketSize = used * PacketSize - 0
    BY <1>2
  <1>4. Carried' = Carried
    BY <1>1, <1>3 DEF Carried
  <1> QED BY <1>1, <1>4, SamePlaces

\* Sending moves what is carried and what is left together.
LEMMA SendKeepsPlaces ==
  ASSUME IInv, EachHasItsPlace, SendBytes
  PROVE  /\ EachHasItsPlace'
         /\ last' # last => used = transit.due
  <1> DEFINE n == AmountToSend
             at == Carried + left
  <1>1. /\ opp.open /\ opp.left > 0 /\ left > 0
        /\ left' = left - n /\ opp' = [opp EXCEPT !.left = @ - n]
        /\ last' = IF left' = 0 THEN transit.id ELSE last
        /\ UNCHANGED <<used, queue, transit>>
    BY DEF SendBytes, trace
  <1>2. /\ opp \in [time : Nat, left : 0..PacketSize, open : BOOLEAN]
        /\ left \in 0..PacketSize /\ PacketSize \in Nat /\ used \in Int
        /\ transit.due \in Int
    BY LinkAssumption DEF IInv, TypeOK, Packets
  <1>3. n \in Nat /\ n >= 1 /\ n <= left /\ n <= opp.left
    BY <1>1, <1>2 DEF AmountToSend
  <1> HIDE DEF n
  <1>4. opp'.open /\ opp'.left = opp.left - n
    BY <1>1, <1>2
  <1>5. /\ Carried \in Int /\ used * PacketSize \in Int
    BY CarriedIsInt DEF IInv
  <1>6. Carried = used * PacketSize - opp.left /\ Carried' = used * PacketSize - (opp.left - n)
    BY <1>1, <1>4 DEF Carried
  <1>7. Carried' + left' = at /\ Carried' \in Int /\ left' \in Nat /\ at \in Int
    BY <1>1, <1>2, <1>3, <1>5, <1>6
  <1>8. Carries(transit.due, at)
    BY <1>1 DEF EachHasItsPlace
  <1>9. PICK e : Placed(queue.pkts, at, e) /\ e[Len(queue.pkts)] = at + queue.bytes
    BY DEF EachHasItsPlace
  <1>10. ASSUME left' = 0
         PROVE  used = transit.due
    <2>1. at = used * PacketSize - (opp.left - n)
      BY <1>5, <1>6, <1>7, <1>10, <1>2, <1>3
    <2>2. (used - 1) * PacketSize = used * PacketSize - PacketSize
      BY <1>2
    <2>3. Carries(used, at)
      BY <1>2, <1>3, <1>5, <2>1, <2>2 DEF Carries
    <2> QED BY <1>2, <1>7, <1>8, <2>3, OneCarries
  <1>11. EachHasItsPlace'
    <2>1. Placed(queue'.pkts, Carried' + left', e)
          /\ e[Len(queue'.pkts)] = Carried' + left' + queue'.bytes
      BY <1>1, <1>7, <1>9
    <2>2. Carries(transit'.due, Carried' + left')
      BY <1>1, <1>7, <1>8
    <2> HIDE DEF at
    <2> QED BY <2>1, <2>2 DEF EachHasItsPlace, Placed, Carries
  <1> QED BY <1>1, <1>10, <1>11

\* What an opportunity does not carry it lets go by only when nothing waits.
LEMMA EndKeepsPlaces ==
  ASSUME IInv, EachHasItsPlace, EndOpportunity
  PROVE  EachHasItsPlace'
  <1>1. /\ opp.open /\ ~ opp'.open
        /\ opp.left = 0 \/ (left = 0 /\ IsEmpty(queue))
        /\ UNCHANGED <<used, queue, transit, left>>
    BY DEF EndOpportunity, NoOpp, trace, packets
  <1>2. Carried \in Int /\ used * PacketSize \in Int /\ left \in Nat
    BY CarriedIsInt DEF IInv
  <1>3. Carried' = used * PacketSize - 0
    BY <1>1 DEF Carried
  <1>4. CASE opp.left = 0
    <2>1. Carried' = Carried
      BY <1>1, <1>3, <1>4 DEF Carried
    <2> QED BY <1>1, <2>1, SamePlaces
  <1>5. CASE left = 0 /\ IsEmpty(queue)
    <2>1. PICK e : /\ Placed(queue.pkts, Carried + left, e)
                   /\ e[Len(queue.pkts)] = Carried + left + queue.bytes
      BY DEF EachHasItsPlace
    <2>2. queue.pkts = <<>> /\ Len(queue.pkts) = 0 /\ queue.bytes \in Int
      BY <1>5 DEF IsEmpty, IInv, TypeOK
    <2>3. queue.bytes = 0
      BY <1>2, <2>1, <2>2 DEF Placed
    <2>4. Carried' \in Int
      BY <1>2, <1>3
    <2> DEFINE f == [i \in 0..0 |-> Carried']
    <2>5. Placed(queue'.pkts, Carried' + left', f)
          /\ f[Len(queue'.pkts)] = Carried' + left' + queue'.bytes
      BY <1>1, <1>5, <2>2, <2>3, <2>4 DEF Placed
    <2> HIDE DEF f
    <2>6. ~ (left' > 0)
      BY <1>1, <1>5
    <2> QED BY <2>5, <2>6 DEF EachHasItsPlace, Placed, Carries
  <1> QED BY <1>1, <1>4, <1>5

\* The packet that goes into transit takes its place with it.
LEMMA StartKeepsPlaces ==
  ASSUME IInv, EachHasItsPlace, NEW ret, Remarks(ret), StartPacket(ret)
  PROVE  EachHasItsPlace'
  <1> DEFINE s == queue.pkts
             n == Len(s)
  <1>1. /\ left = 0 /\ ~ IsEmpty(queue)
        /\ queue' = Dequeued(queue) /\ transit' = ret /\ left' = ret.size
        /\ UNCHANGED <<used, opp>>
    BY DEF StartPacket, trace
  <1>2. /\ s \in Seq(Packets) /\ n \in Nat /\ n >= 1 /\ queue.bytes \in Int
        /\ Front(queue) = s[1] /\ Front(queue) \in Packets
    BY <1>1 DEF IInv, TypeOK, IsEmpty, Front
  <1>3. Carried' = Carried /\ Carried \in Int
    BY <1>1, CarriedIsInt DEF Carried, IInv
  <1>4. PICK e : Placed(s, Carried + left, e) /\ e[n] = Carried + left + queue.bytes
    BY DEF EachHasItsPlace
  <1>5. /\ queue'.pkts = Tail(s) /\ queue'.bytes = queue.bytes - ret.size
        /\ ret.size = s[1].size /\ ret.due = s[1].due /\ ret.size \in Int
    BY <1>1, <1>2, LinkAssumption, SMTT(30) DEF Dequeued, Remarks, Packets
  <1>6. /\ Len(Tail(s)) = n - 1
        /\ \A i \in 1..(n - 1) : Tail(s)[i] = s[i + 1]
    BY <1>2
  <1>7. /\ e \in [0..n -> Int] /\ e[0] = Carried
        /\ \A i \in 1..n : e[i] = e[i - 1] + s[i].size /\ Carries(s[i].due, e[i])
    BY <1>1, <1>3, <1>4 DEF Placed
  <1>8. e[1] = Carried + ret.size /\ Carries(ret.due, e[1])
    <2>1. 1 \in 1..n /\ e[1 - 1] = e[0]
      BY <1>2
    <2> QED BY <1>5, <1>7, <2>1
  <1> DEFINE f == [i \in 0..(n - 1) |-> e[i + 1]]
  <1>9. f \in [0..(n - 1) -> Int] /\ f[0] = Carried' + left'
    BY <1>1, <1>2, <1>3, <1>7, <1>8
  <1>10. ASSUME NEW i \in 1..(n - 1)
         PROVE  f[i] = f[i - 1] + Tail(s)[i].size /\ Carries(Tail(s)[i].due, f[i])
    <2>1. /\ i + 1 \in 1..n /\ i \in 0..(n - 1) /\ i - 1 \in 0..(n - 1)
          /\ (i - 1) + 1 = i /\ (i + 1) - 1 = i
      BY <1>2
    <2>2. f[i] = e[i + 1] /\ f[i - 1] = e[i]
      BY <2>1
    <2>3. e[i + 1] = e[(i + 1) - 1] + s[i + 1].size /\ Carries(s[i + 1].due, e[i + 1])
      BY <1>7, <2>1
    <2> QED BY <1>6, <2>1, <2>2, <2>3
  <1>11. Placed(queue'.pkts, Carried' + left', f)
    BY <1>5, <1>6, <1>9, <1>10 DEF Placed
  <1>12. f[n - 1] = Carried' + left' + queue'.bytes
    <2>1. f[n - 1] = e[n]
      BY <1>2
    <2> QED BY <1>1, <1>2, <1>3, <1>4, <1>5, <2>1
  <1>13. Carries(transit'.due, Carried' + left')
    BY <1>1, <1>3, <1>8
  <1> HIDE DEF f
  <1>14. f[Len(queue'.pkts)] = Carried' + left' + queue'.bytes
    BY <1>5, <1>6, <1>12
  <1> QED BY <1>11, <1>13, <1>14 DEF EachHasItsPlace, Placed, Carries

\* A packet that joins the queue is placed behind all that waits.
LEMMA EnqueueKeepsPlaces ==
  ASSUME IInv, EachHasItsPlace, EnqueuePacket
  PROVE  EachHasItsPlace'
  <1> DEFINE s == queue.pkts
             n == Len(s)
             due == DueOpportunity(call.size)
             p == [id |-> arrived + 1, size |-> call.size, ecn |-> call.ecn,
                   arrival |-> call.now, due |-> due]
             at == Carried + left
  <1>1. /\ ~ opp.open /\ queue' = TailEnqueue(queue, p)
        /\ UNCHANGED <<used, transit, left, opp>>
    BY DEF EnqueuePacket, Rationalized, trace
  <1>2. Carried' = Carried
    BY <1>1 DEF Carried
  <1>3. CASE queue' = queue
    BY <1>1, <1>2, <1>3, SamePlaces
  <1>4. CASE queue' = Accept(queue, p)
    <2>1. /\ s \in Seq(Packets) /\ n \in Nat /\ queue.bytes \in Int /\ call.size \in Int
          /\ used \in Int
      BY LinkAssumption DEF IInv, TypeOK
    <2>2. Carried = used * PacketSize /\ Carried \in Int /\ left \in Int /\ at \in Int
      BY <1>1, CarriedIsInt DEF Carried, IInv
    <2>3. PICK e : Placed(s, at, e) /\ e[n] = at + queue.bytes
      BY DEF EachHasItsPlace
    <2> DEFINE x == queue.bytes + left + call.size
    <2>4. x \in Int /\ at + queue.bytes + call.size = used * PacketSize + x
      BY <2>1, <2>2
    <2>5. due = used + Ceiling(x, PacketSize)
      BY DEF DueOpportunity
    <2>6. Carries(due, at + queue.bytes + call.size)
      <3> HIDE DEF x, due, at
      <3> QED BY <2>1, <2>4, <2>5, CeilingCarries
    <2>7. p.size = call.size /\ p.due = due
      OBVIOUS
    <2> HIDE DEF p, due, x, at
    <2>8. queue'.pkts = Append(s, p) /\ queue'.bytes = queue.bytes + call.size
      BY <1>4, <2>7 DEF Accept
    <2>9. /\ Len(Append(s, p)) = n + 1 /\ Append(s, p)[n + 1] = p
          /\ \A i \in 1..n : Append(s, p)[i] = s[i]
      BY <2>1
    <2>10. /\ e \in [0..n -> Int] /\ e[0] = at
           /\ \A i \in 1..n : e[i] = e[i - 1] + s[i].size /\ Carries(s[i].due, e[i])
      BY <2>3 DEF Placed
    <2> DEFINE f == [i \in 0..(n + 1) |-> IF i = n + 1 THEN e[n] + call.size ELSE e[i]]
    <2>11. /\ f \in [0..(n + 1) -> Int] /\ f[n + 1] = e[n] + call.size
           /\ \A i \in 0..n : f[i] = e[i]
      <3>1. e[n] + call.size \in Int
        BY <2>1, <2>2, <2>3
      <3>2. \A i \in 0..(n + 1) : i = n + 1 \/ i \in 0..n
        BY <2>1
      <3>3. n + 1 \in 0..(n + 1) /\ \A i \in 0..n : i \in 0..(n + 1) /\ i # n + 1
        BY <2>1
      <3> QED BY <2>10, <3>1, <3>2, <3>3
    <2> HIDE DEF f
    <2>12. ASSUME NEW i \in 1..(n + 1)
           PROVE  /\ f[i] = f[i - 1] + Append(s, p)[i].size
                  /\ Carries(Append(s, p)[i].due, f[i])
      <3>1. CASE i \in 1..n
        <4>1. i \in 0..n /\ i - 1 \in 0..n
          BY <2>1, <3>1
        <4> QED BY <2>9, <2>10, <2>11, <3>1, <4>1
      <3>2. CASE i = n + 1
        <4>1. i - 1 = n /\ n \in 0..n
          BY <2>1, <3>2
        <4> QED BY <2>3, <2>6, <2>7, <2>9, <2>11, <3>2, <4>1
      <3> QED BY <2>1, <3>1, <3>2
    <2>13. f[0] = at
      <3>1. 0 \in 0..n
        BY <2>1
      <3> QED BY <2>10, <2>11, <3>1
    <2>14. at = Carried' + left'
      BY <1>1, <1>2 DEF at
    <2>15. Placed(queue'.pkts, Carried' + left', f)
      BY <2>8, <2>9, <2>11, <2>12, <2>13, <2>14 DEF Placed
    <2>16. f[Len(queue'.pkts)] = Carried' + left' + queue'.bytes
      <3>1. at + (queue.bytes + call.size) = (at + queue.bytes) + call.size
        BY <2>1, <2>2
      <3> QED BY <2>3, <2>8, <2>9, <2>11, <2>14, <3>1
    <2>17. left' > 0 => Carries(transit'.due, Carried' + left')
      BY <1>1, <1>2 DEF EachHasItsPlace
    <2> QED BY <2>15, <2>16, <2>17 DEF EachHasItsPlace, Placed, Carries
  <1>5. queue' = queue \/ queue' = Accept(queue, p)
    BY <1>1 DEF TailEnqueue
  <1> QED BY <1>3, <1>4, <1>5

LEMMA InitPlaces == Init => EachHasItsPlace
  <1> SUFFICES ASSUME Init
               PROVE  EachHasItsPlace
    OBVIOUS
  <1>1. /\ left = 0 /\ queue.pkts = <<>> /\ queue.bytes = 0 /\ used = 0 /\ ~ opp.open
    BY DEF Init, NoOpp, EmptyQueue
  <1>2. Carried = 0
    BY <1>1, LinkAssumption DEF Carried
  <1> DEFINE e == [i \in 0..0 |-> 0]
  <1>3. Placed(queue.pkts, Carried + left, e) /\ e[Len(queue.pkts)] = Carried + left + queue.bytes
    BY <1>1, <1>2 DEF Placed
  <1> HIDE DEF e
  <1>4. ~ (left > 0)
    BY <1>1
  <1> QED BY <1>3, <1>4 DEF EachHasItsPlace

\* A step of a link keeps every place, and sends a packet's last byte in the
\* opportunity of that place.
LEMMA LinkStepKeepsPlaces ==
  ASSUME IInv, EachHasItsPlace, [LinkStep]_vars
  PROVE  EachHasItsPlace' /\ (last' # last => used = transit.due)
  <1>1. CASE SendBytes
    BY <1>1, SendKeepsPlaces
  <1>2. CASE [LinkStep]_vars /\ ~ SendBytes
    <2>1. last' = last
      BY <1>2 DEF LinkStep, Tick, WaitTime, ReturnWait, WritePackets, EndOpportunity,
              ReadPacket, UseOpportunity, EnqueuePacket, StartPacket, vars, packets
    <2>2. EachHasItsPlace'
      BY <1>2, CallsKeepPlaces, UseKeepsPlaces, EndKeepsPlaces, StartKeepsPlaces,
         EnqueueKeepsPlaces DEF LinkStep
    <2> QED BY <2>1, <2>2
  <1> QED BY <1>1, <1>2

\* For every trace, packet size and limit of the queue, a packet leaves an
\* emulated link in the opportunity that the bytes before it imply: none is
\* wasted while something waits, and none is counted twice.
THEOREM LinkLeavesWhenDue == Spec => LeavesWhenDue
  <1>1. Init => IInv /\ EachHasItsPlace
    BY InitIInv, InitPlaces
  <1>2. IInv /\ EachHasItsPlace /\ [Next]_vars
        => (IInv /\ EachHasItsPlace)' /\ [last' # last => used = transit.due]_vars
    BY NextIsLinkStep, LinkStepKeepsIInv, LinkStepKeepsPlaces DEF IInv
  <1> QED BY <1>1, <1>2, PTL DEF Spec, LeavesWhenDue

\* The same for the link of an ABC router, which marks packets and drops none
\* that was admitted.
THEOREM AbcLeavesWhenDue == AbcSpec => LeavesWhenDue
  <1>1. AbcInit => IInv /\ EachHasItsPlace
    BY InitIInv, InitPlaces DEF AbcInit
  <1>2. IInv /\ EachHasItsPlace /\ [AbcNext]_abcVars
        => (IInv /\ EachHasItsPlace)' /\ [last' # last => used = transit.due]_vars
    BY AbcIsLinkStep, LinkStepKeepsIInv, LinkStepKeepsPlaces DEF IInv
  <1> QED BY <1>1, <1>2, PTL DEF AbcSpec, LeavesWhenDue
----
(***************************************************************************)
(* The ABC router as the link sees it, when every packet fills one         *)
(* delivery opportunity: the router is asked once in each.                 *)
(***************************************************************************)
RouterProofs == INSTANCE CellularProofs WITH returned <- transit, Jumps <- {1}

\* The router of the theorems is the router of the link.
LEMMA SameConstants == RouterProofs!RouterAssumption /\ RouterProofs!LimitsAssumption
  <1>1. Sizes \subseteq Nat \ {0} /\ {1} \subseteq Int
    BY LinkAssumption
  <1>2. RouterProofs!RouterAssumption
    BY <1>1, AbcAssumption, LinkAssumption DEF RouterProofs!RouterAssumption
  <1> QED BY <1>2, LimitsAssumption DEF RouterProofs!LimitsAssumption

LEMMA SameOperators ==
  /\ Router!FullCredit = RouterProofs!FullCredit
  /\ \A s, n : Router!Sampled(s, n) = RouterProofs!Sampled(s, n)
  /\ \A c, d, q : Router!Credit(c, d, q) = RouterProofs!Credit(c, d, q)
  <1>1. Router!FullCredit = RouterProofs!FullCredit
    BY DEF Router!FullCredit, RouterProofs!FullCredit
  <1>2. \A s, n : Router!IsStale(s, n) = RouterProofs!IsStale(s, n)
    BY DEF Router!IsStale, RouterProofs!IsStale
  <1>3. \A s, n : Router!Pruned(s, n) = RouterProofs!Pruned(s, n)
    BY DEF Router!Pruned, RouterProofs!Pruned, Router!IsStale, RouterProofs!IsStale
  <1>4. \A s, n : Router!Sampled(s, n) = RouterProofs!Sampled(s, n)
    BY <1>3 DEF Router!Sampled, RouterProofs!Sampled
  <1>5. \A c, d, q : Router!Credit(c, d, q) = RouterProofs!Credit(c, d, q)
    BY DEF Router!Credit, RouterProofs!Credit, Router!FullCredit, RouterProofs!FullCredit,
           Router!AtLeast, RouterProofs!AtLeast
  <1> QED BY <1>1, <1>4, <1>5

LEMMA SameDepartures ==
  ASSUME NEW now, NEW ret
  PROVE  /\ Router!DequeueEmpty(now) => RouterProofs!DequeueEmpty(now)
         /\ Router!DequeueEct(now, ret) => RouterProofs!DequeueEct(now, ret)
         /\ Router!DequeueNotEct(ret) =>
              UNCHANGED <<link_capacity_queue, dq_queue, tokens, accelerated, chances>>
  <1>1. Router!DequeueEmpty(now) => RouterProofs!DequeueEmpty(now)
    BY SameOperators DEF Router!DequeueEmpty, RouterProofs!DequeueEmpty, Router!IsEmpty,
       RouterProofs!IsEmpty
  <1>2. Router!DequeueEct(now, ret) => RouterProofs!DequeueEct(now, ret)
    BY SameOperators DEF Router!DequeueEct, RouterProofs!DequeueEct, Router!IsEmpty,
       RouterProofs!IsEmpty, Router!Front, RouterProofs!Front, Router!Dequeued,
       RouterProofs!Dequeued, Router!Measured, RouterProofs!Measured, Router!Spent,
       RouterProofs!Spent, Router!AtMost, RouterProofs!AtMost, Router!Remarked,
       RouterProofs!Remarked
  <1>3. Router!DequeueNotEct(ret) =>
          UNCHANGED <<link_capacity_queue, dq_queue, tokens, accelerated, chances>>
    BY DEF Router!DequeueNotEct, Router!meter
  <1> QED BY <1>1, <1>2, <1>3

\* The opportunity that is open and that the router has not been asked in yet.
Unasked == IF opp.open /\ opp.left > 0 /\ left = 0 THEN 1 ELSE 0

Full ==
  /\ RouterProofs!MeterInv
  /\ left \in {0, PacketSize}
  /\ opp.open => opp.left \in {0, PacketSize}
  /\ \A i \in 1..Len(queue.pkts) : queue.pkts[i].size = PacketSize
  /\ call.op = "read_packet" => call.size = PacketSize
  /\ chances + Unasked <= used

LEMMA InitFull == AbcInit => Full
  <1> SUFFICES ASSUME AbcInit
               PROVE  Full
    OBVIOUS
  <1>1. RouterProofs!MeterInv
    <2>1. /\ link_capacity_queue = <<0>> /\ dq_queue = <<0>>
          /\ tokens = TokenLimit * Scale /\ accelerated = 0 /\ chances = 0
      BY DEF AbcInit, Router!RouterInit
    <2>2. RouterProofs!FullCredit \in Nat /\ TokenLimit * Scale \in Nat
      BY SameConstants, RouterProofs!CreditFacts
    <2>3. <<0>> \in Seq(Nat) /\ Len(<<0>>) = 1
      OBVIOUS
    <2>4. 0 * Scale = 0 /\ RouterProofs!FullCredit * 0 = 0
      BY <2>2, AbcAssumption
    <2>5. RouterProofs!AccelerationWithinBudget
      BY <2>1, <2>2, <2>4 DEF RouterProofs!AccelerationWithinBudget
    <2> QED BY <2>1, <2>2, <2>3, <2>5
            DEF RouterProofs!MeterInv, RouterProofs!Times, RouterProofs!WindowsNeverEmpty,
                RouterProofs!Capacity, RouterProofs!DequeueRate
  <1>2. /\ left = 0 /\ ~ opp.open /\ queue.pkts = <<>> /\ call.op = "none" /\ used = 0
        /\ chances = 0
    BY DEF AbcInit, Init, NoOpp, EmptyQueue, NoCall, Router!RouterInit
  <1> QED BY <1>1, <1>2 DEF Full, Unasked

\* The promise of the router about a departure, for the router of the link.
LEMMA DeparturesKeepBudget ==
  ASSUME RouterProofs!MeterInv, NEW now \in Nat, NEW ret
  PROVE  /\ Router!DequeueEmpty(now) =>
              RouterProofs!MeterInv' /\ chances' = chances + 1
         /\ Router!DequeueEct(now, ret) /\ queue'.packets \in Int =>
              RouterProofs!MeterInv' /\ chances' = chances + 1
  <1>1. Router!DequeueEmpty(now) => RouterProofs!MeterInv' /\ chances' = chances + 1
    BY SameConstants, SameDepartures, RouterProofs!DequeueEmptyKeeps
  <1>2. Router!DequeueEct(now, ret) /\ queue'.packets \in Int =>
          RouterProofs!MeterInv' /\ chances' = chances + 1
    BY SameConstants, SameDepartures, RouterProofs!DequeueEctKeeps
  <1> QED BY <1>1, <1>2

LEMMA UnaskedRouterKeepsBudget ==
  ASSUME RouterProofs!MeterInv, UNCHANGED routerOnly
  PROVE  RouterProofs!MeterInv' /\ chances' = chances
  <1>1. UNCHANGED <<RouterProofs!meter, tokens, accelerated, chances>>
    BY DEF routerOnly, RouterProofs!meter
  <1> QED BY <1>1, SameConstants, RouterProofs!UnmeasuredKeeps DEF routerOnly

LEMMA FullTypes ==
  ASSUME IInv, Full
  PROVE  /\ PacketSize \in Nat \ {0} /\ chances \in Nat /\ used \in Nat
         /\ Unasked \in {0, 1} /\ left \in {0, PacketSize} /\ opp.left \in Int
         /\ clock % Wrap \in Nat
  <1>1. clock \in Nat /\ used \in Nat /\ opp.left \in 0..PacketSize
    BY DEF IInv, TypeOK
  <1>2. clock % Wrap \in Nat
    BY <1>1, AbcAssumption, SMT
  <1>3. chances \in Nat
    BY DEF Full, RouterProofs!MeterInv
  <1> QED BY <1>1, <1>2, <1>3, LinkAssumption DEF Unasked, Full

\* An opportunity opens: the router can be asked once more.
LEMMA UseKeepsFull ==
  ASSUME IInv, Full, UseOpportunity, UNCHANGED routerOnly
  PROVE  Full'
  <1>1. /\ ~ opp.open /\ used' = used + 1
        /\ opp' = [time |-> NextDeliveryTime, left |-> PacketSize, open |-> TRUE]
        /\ UNCHANGED <<queue, left, call>>
    BY DEF UseOpportunity, packets
  <1>2. RouterProofs!MeterInv' /\ chances' = chances
    BY UnaskedRouterKeepsBudget DEF Full
  <1>3. Unasked = 0 /\ Unasked' \in {0, 1} /\ opp'.left = PacketSize
    BY <1>1 DEF Unasked
  <1>4. chances' + Unasked' <= used'
    BY <1>1, <1>2, <1>3, FullTypes DEF Full
  <1> QED BY <1>1, <1>2, <1>3, <1>4 DEF Full

\* The opportunity asks for a packet, which fills it.
LEMMA StartKeepsFull ==
  ASSUME IInv, Full, NEW ecn \in Ecns \cup {"ce"}, AbcStartPacket(ecn)
  PROVE  Full'
  <1> DEFINE ret == [Front(queue) EXCEPT !.ecn = ecn]
  <1>1. /\ opp.open /\ opp.left > 0 /\ left = 0 /\ ~ IsEmpty(queue)
        /\ queue' = Dequeued(queue) /\ left' = ret.size
        /\ UNCHANGED <<used, call, opp>>
        /\ Router!DequeueNotEct(ret) \/ Router!DequeueEct(clock % Wrap, ret)
    BY DEF AbcStartPacket, StartPacket, trace
  <1>2. ret.size = Front(queue).size
    BY <1>1, MarkedIsRemarks DEF Remarks, IInv
  <1> HIDE DEF ret
  <1>3. /\ Front(queue).size = PacketSize
        /\ \A i \in 1..Len(queue'.pkts) : queue'.pkts[i].size = PacketSize
        /\ queue'.packets \in Int
    <2>1. /\ Dequeued(queue) \in [pkts : Seq(Packets), bytes : Int, packets : Int]
          /\ \A i \in 1..Len(Dequeued(queue).pkts) : Dequeued(queue).pkts[i] \in Queued
          /\ Front(queue) \in Queued
      BY <1>1, QueueFacts DEF IInv
    <2>2. \A p \in Queued : p.size = PacketSize
      BY DEF Queued, Full
    <2> QED BY <1>1, <2>1, <2>2
  <1>4. RouterProofs!MeterInv' /\ (chances' = chances \/ chances' = chances + 1)
    <2>1. CASE Router!DequeueNotEct(ret)
      <3>1. UNCHANGED routerOnly
        BY <2>1, SameDepartures DEF routerOnly
      <3> QED BY <3>1, UnaskedRouterKeepsBudget DEF Full
    <2>2. CASE Router!DequeueEct(clock % Wrap, ret)
      BY <1>3, <2>2, FullTypes, DeparturesKeepBudget DEF Full
    <2> QED BY <1>1, <2>1, <2>2
  <1>5. left' = PacketSize /\ Unasked = 1 /\ Unasked' = 0
    BY <1>1, <1>2, <1>3, FullTypes DEF Unasked
  <1>6. chances' + Unasked' <= used'
    BY <1>1, <1>4, <1>5, FullTypes DEF Full
  <1> QED BY <1>1, <1>3, <1>4, <1>5, <1>6 DEF Full

\* Sending the packet uses the opportunity up.
LEMMA SendKeepsFull ==
  ASSUME IInv, Full, SendBytes, UNCHANGED routerOnly
  PROVE  Full'
  <1>1. /\ opp.open /\ opp.left > 0 /\ left > 0
        /\ left' = left - AmountToSend
        /\ opp' = [opp EXCEPT !.left = @ - AmountToSend]
        /\ UNCHANGED <<used, queue, call>>
    BY DEF SendBytes, trace
  <1>2. opp.left = PacketSize /\ left = PacketSize
    BY <1>1, FullTypes DEF Full
  <1>3. AmountToSend = PacketSize
    BY <1>2 DEF AmountToSend
  <1>4. opp \in [time : Nat, left : 0..PacketSize, open : BOOLEAN]
    BY DEF IInv, TypeOK
  <1>5. left' = 0 /\ opp'.left = 0
    BY <1>1, <1>2, <1>3, <1>4, FullTypes
  <1>6. RouterProofs!MeterInv' /\ chances' = chances
    BY UnaskedRouterKeepsBudget DEF Full
  <1>7. Unasked' = 0
    BY <1>5 DEF Unasked
  <1>8. chances' + Unasked' <= used'
    BY <1>1, <1>6, <1>7, FullTypes DEF Full
  <1> QED BY <1>1, <1>5, <1>6, <1>8 DEF Full

\* An opportunity that nothing waited for is reported to the router when it
\* ends; one that a packet filled was asked for when the packet started.
LEMMA EndKeepsFull ==
  ASSUME IInv, Full, AbcEndOpportunity
  PROVE  Full'
  <1>1. /\ opp.open /\ (opp.left = 0 \/ left = 0) /\ opp' = NoOpp
        /\ UNCHANGED <<used, queue, left, call>>
        /\ IF opp.left > 0 THEN Router!DequeueEmpty(clock % Wrap)
           ELSE UNCHANGED routerOnly
    BY DEF AbcEndOpportunity, EndOpportunity, trace, packets
  <1>2. ~ opp'.open /\ Unasked' = 0
    BY <1>1 DEF NoOpp, Unasked
  <1>3. RouterProofs!MeterInv' /\ chances' <= chances + Unasked
    <2>1. CASE opp.left > 0
      <3>1. RouterProofs!MeterInv' /\ chances' = chances + 1
        BY <1>1, <2>1, FullTypes, DeparturesKeepBudget DEF Full
      <3>2. Unasked = 1
        BY <1>1, <2>1, FullTypes DEF Unasked
      <3> QED BY <3>1, <3>2, FullTypes
    <2>2. CASE ~ (opp.left > 0)
      BY <1>1, <2>2, FullTypes, UnaskedRouterKeepsBudget DEF Full
    <2> QED BY <2>1, <2>2
  <1>4. chances' \in Nat
    BY <1>3 DEF RouterProofs!MeterInv
  <1>5. chances' + Unasked' <= used'
    BY <1>1, <1>2, <1>3, <1>4, FullTypes DEF Full
  <1> QED BY <1>1, <1>2, <1>3, <1>5 DEF Full

\* What joins the queue is what was read, a packet that fills an opportunity.
LEMMA EnqueueKeepsFull ==
  ASSUME IInv, Full, AbcEnqueuePacket
  PROVE  Full'
  <1> DEFINE p == [id |-> arrived + 1, size |-> call.size, ecn |-> call.ecn,
                   arrival |-> call.now, due |-> DueOpportunity(call.size)]
  <1>1. /\ call.op = "read_packet"
        /\ queue' = TailEnqueue(queue, p) /\ call' = NoCall
        /\ UNCHANGED <<used, left, opp>> /\ UNCHANGED routerOnly
    BY DEF AbcEnqueuePacket, EnqueuePacket, trace
  <1>2. p.size = PacketSize
    BY <1>1 DEF Full
  <1> HIDE DEF p
  <1>3. \A i \in 1..Len(queue'.pkts) : queue'.pkts[i].size = PacketSize
    <2>1. CASE queue' = queue
      BY <2>1 DEF Full
    <2>2. CASE queue' = Accept(queue, p)
      <3>1. queue'.pkts = Append(queue.pkts, p)
        BY <2>2 DEF Accept
      <3>2. queue.pkts \in Seq(Packets)
        BY DEF IInv, TypeOK
      <3>3. \A i \in 1..Len(queue'.pkts) :
              queue'.pkts[i] = p \/ (i \in 1..Len(queue.pkts)
                                       /\ queue'.pkts[i] = queue.pkts[i])
        BY <3>1, <3>2
      <3> QED BY <1>2, <3>3 DEF Full
    <2> QED BY <1>1, <2>1, <2>2 DEF TailEnqueue
  <1>4. RouterProofs!MeterInv' /\ chances' = chances
    BY <1>1, UnaskedRouterKeepsBudget DEF Full
  <1>5. Unasked' = Unasked
    BY <1>1 DEF Unasked
  <1> QED BY <1>1, <1>3, <1>4, <1>5 DEF Full, NoCall

\* Calls, the clock and the writing of packets that were sent.
LEMMA CallsKeepFull ==
  ASSUME IInv, Full, Sizes = {PacketSize}, UNCHANGED routerOnly,
         \/ Tick \/ WaitTime \/ ReturnWait \/ WritePackets
         \/ \E size \in Sizes, ecn \in Ecns : ReadPacket(size, ecn)
         \/ UNCHANGED vars
  PROVE  Full'
  <1>1. /\ UNCHANGED <<used, queue, left, opp>>
        /\ call'.op = "read_packet" => call'.size = PacketSize
    <2>1. CASE Tick
      BY <2>1 DEF Tick, trace, packets, Full
    <2>2. CASE WaitTime
      BY <2>2 DEF WaitTime, trace, packets, NoCall
    <2>3. CASE ReturnWait
      BY <2>3 DEF ReturnWait, trace, packets, NoCall
    <2>4. CASE WritePackets
      BY <2>4 DEF WritePackets, trace, Full
    <2>5. CASE \E size \in Sizes, ecn \in Ecns : ReadPacket(size, ecn)
      BY <2>5 DEF ReadPacket, trace, packets
    <2>6. CASE UNCHANGED vars
      BY <2>6 DEF vars, trace, packets, Full
    <2> QED BY <2>1, <2>2, <2>3, <2>4, <2>5, <2>6
  <1>2. RouterProofs!MeterInv' /\ chances' = chances
    BY UnaskedRouterKeepsBudget DEF Full
  <1>3. Unasked' = Unasked
    BY <1>1 DEF Unasked
  <1> QED BY <1>1, <1>2, <1>3 DEF Full

LEMMA AbcKeepsFull ==
  ASSUME IInv, Full, Sizes = {PacketSize}, [AbcNext]_abcVars
  PROVE  Full'
  <1>1. CASE AbcRunning
    BY <1>1, StartKeepsFull, EndKeepsFull, EnqueueKeepsFull, UseKeepsFull,
       SendKeepsFull, CallsKeepFull DEF AbcRunning
  <1>2. CASE /\ \/ Tick
                \/ \E size \in Sizes, ecn \in Ecns : ReadPacket(size, ecn)
                \/ WaitTime \/ WritePackets
             /\ UNCHANGED routerOnly
    BY <1>2, CallsKeepFull
  <1>3. CASE UNCHANGED abcVars
    BY <1>3, CallsKeepFull DEF abcVars
  <1> QED BY <1>1, <1>2, <1>3 DEF AbcNext

LEMMA FullAccelerates ==
  ASSUME IInv, Full
  PROVE  AcceleratesWithinTrace
  <1>1. accelerated * Scale + tokens
          <= TokenLimit * Scale + RouterProofs!FullCredit * chances
    BY DEF Full, RouterProofs!MeterInv, RouterProofs!AccelerationWithinBudget
  <1>2. chances <= used /\ chances \in Nat /\ used \in Nat
    BY FullTypes DEF Full
  <1>3. RouterProofs!FullCredit \in Nat /\ TokenLimit * Scale \in Nat
    BY SameConstants, RouterProofs!CreditFacts
  <1>4. \A c, a, b \in Nat : a <= b => c * a <= c * b /\ c * a \in Nat /\ c * b \in Nat
    BY SMT
  <1>5. /\ RouterProofs!FullCredit * chances <= RouterProofs!FullCredit * used
        /\ RouterProofs!FullCredit * chances \in Nat
        /\ RouterProofs!FullCredit * used \in Nat
    BY <1>2, <1>3, <1>4
  <1>6. accelerated * Scale \in Nat /\ tokens \in Nat
    <2>1. accelerated \in Nat /\ tokens \in Nat
      BY DEF Full, RouterProofs!MeterInv
    <2> QED BY <2>1, AbcAssumption, SMT
  <1>7. accelerated * Scale + tokens
          <= TokenLimit * Scale + RouterProofs!FullCredit * used
    BY <1>1, <1>3, <1>5, <1>6
  <1> QED BY <1>7, SameOperators DEF AcceleratesWithinTrace

\* For every trace, every capacity and all parameters of the router: when each
\* packet fills a delivery opportunity, the router, asked once in each, lets
\* through at most the initial tokens and 0.49 packets per opportunity.
THEOREM RouterAcceleratesWithinTrace ==
  ASSUME Sizes = {PacketSize}
  PROVE  AbcSpec => []AcceleratesWithinTrace
  <1>1. AbcInit => IInv /\ Full
    BY InitIInv, InitFull DEF AbcInit
  <1>2. IInv /\ Full /\ [AbcNext]_abcVars => (IInv /\ Full)'
    BY AbcKeepsIInv, AbcKeepsFull
  <1>3. IInv /\ Full => AcceleratesWithinTrace
    BY FullAccelerates
  <1> QED BY <1>1, <1>2, <1>3, PTL DEF AbcSpec
====

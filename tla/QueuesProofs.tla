---- MODULE QueuesProofs ----
(***************************************************************************)
(* What holds of the queues that drop packets for all limits, packet sizes *)
(* and parameters, whatever arrives and whenever the link takes a packet.  *)
(***************************************************************************)
EXTENDS Queues, WellFoundedInduction, TLAPS

AnyPacket == [id : Nat, size : Nat] \cup [id : Nat, size : Nat, arrival : Nat]

\* A queue of packets that arrived after packet low, none after packet high, in
\* the order in which they arrived.
Holds(q, low, high) ==
  /\ q \in [pkts : Seq(AnyPacket), bytes : Int, packets : Int]
  /\ \A i \in 1..Len(q.pkts) : low < q.pkts[i].id /\ q.pkts[i].id <= high
  /\ \A i, j \in 1..Len(q.pkts) : i < j => q.pkts[i].id < q.pkts[j].id
Ids(q) == {q.pkts[i].id : i \in 1..Len(q.pkts)}

LEMMA PacketTypes == \A p \in AnyPacket : p.id \in Nat /\ p.size \in Nat
  BY DEF AnyPacket

\* One packet more, at the back.
LEMMA AcceptHolds ==
  ASSUME NEW q, NEW low \in Nat, NEW high \in Nat, Holds(q, low, high), low <= high,
         NEW p \in AnyPacket, p.id = high + 1
  PROVE  /\ Holds(Accept(q, p), low, high + 1)
         /\ Ids(Accept(q, p)) = Ids(q) \cup {high + 1}
         /\ ~ IsEmpty(Accept(q, p))
  <1>1. /\ q \in [pkts : Seq(AnyPacket), bytes : Int, packets : Int]
        /\ p.size \in Nat
    BY PacketTypes DEF Holds
  <1> DEFINE longer == Append(q.pkts, p)
  <1>2. /\ longer \in Seq(AnyPacket) /\ Len(longer) = Len(q.pkts) + 1
        /\ Len(q.pkts) \in Nat /\ longer[Len(q.pkts) + 1] = p
        /\ \A i \in 1..Len(q.pkts) : longer[i] = q.pkts[i]
    BY <1>1
  <1>3. Accept(q, p) = [pkts |-> longer, bytes |-> q.bytes + p.size,
                        packets |-> q.packets + 1]
    BY DEF Accept
  <1> HIDE DEF longer
  <1>4. /\ Accept(q, p).pkts = longer
        /\ Accept(q, p) \in [pkts : Seq(AnyPacket), bytes : Int, packets : Int]
    BY <1>1, <1>2, <1>3
  <1>5. \A i \in 1..Len(q.pkts) :
          /\ low < q.pkts[i].id /\ q.pkts[i].id <= high /\ q.pkts[i].id \in Nat
    BY <1>1, PacketTypes DEF Holds
  <1>6. \A i \in 1..Len(longer) : low < longer[i].id /\ longer[i].id <= high + 1
    <2> SUFFICES ASSUME NEW i \in 1..Len(longer)
                 PROVE  low < longer[i].id /\ longer[i].id <= high + 1
      OBVIOUS
    <2>1. CASE i = Len(q.pkts) + 1
      BY <1>2, <2>1
    <2>2. CASE i \in 1..Len(q.pkts)
      <3>1. /\ low < q.pkts[i].id /\ q.pkts[i].id <= high
            /\ q.pkts[i].id \in Nat /\ longer[i] = q.pkts[i]
        BY <1>2, <1>5, <2>2
      <3> QED BY <3>1
    <2> QED BY <1>2, <2>1, <2>2
  <1>7. /\ Len(longer) = Len(q.pkts) + 1 /\ Len(q.pkts) \in Nat
        /\ longer[Len(q.pkts) + 1].id = high + 1
    BY <1>2
  <1>8. \A i \in 1..Len(q.pkts) :
          i \in 1..Len(longer) /\ longer[i].id = q.pkts[i].id
    BY <1>2
  <1>9. \A i, j \in 1..Len(longer) : i < j => longer[i].id < longer[j].id
    <2> SUFFICES ASSUME NEW i \in 1..Len(longer), NEW j \in 1..Len(longer), i < j
                 PROVE  longer[i].id < longer[j].id
      OBVIOUS
    <2>1. i \in 1..Len(q.pkts)
      BY <1>7
    <2>2. CASE j = Len(q.pkts) + 1
      <3>1. longer[i].id <= high /\ longer[i].id \in Nat
        BY <1>5, <1>8, <2>1
      <3>2. longer[j].id = high + 1
        BY <1>7, <2>2
      <3> QED BY <3>1, <3>2
    <2>3. CASE j \in 1..Len(q.pkts)
      <3>1. longer[i].id = q.pkts[i].id /\ longer[j].id = q.pkts[j].id
        BY <1>8, <2>1, <2>3
      <3>2. \A a, b \in 1..Len(q.pkts) : a < b => q.pkts[a].id < q.pkts[b].id
        BY DEF Holds
      <3>3. q.pkts[i].id < q.pkts[j].id
        BY <2>1, <2>3, <3>2
      <3> QED BY <3>1, <3>3
    <2>4. j = Len(q.pkts) + 1 \/ j \in 1..Len(q.pkts)
      BY <1>7
    <2> QED BY <2>2, <2>3, <2>4
  <1>10. Ids(Accept(q, p)) = Ids(q) \cup {high + 1}
    <2>1. Ids(Accept(q, p)) = {longer[i].id : i \in 1..Len(longer)}
      BY <1>4 DEF Ids
    <2>2. ASSUME NEW i \in 1..Len(longer)
          PROVE  longer[i].id \in Ids(q) \cup {high + 1}
      <3>1. i = Len(q.pkts) + 1 \/ i \in 1..Len(q.pkts)
        BY <1>7
      <3>2. CASE i \in 1..Len(q.pkts)
        BY <1>8, <3>2 DEF Ids
      <3> QED BY <1>7, <3>1, <3>2
    <2>3. ASSUME NEW x \in Ids(q)
          PROVE  x \in {longer[i].id : i \in 1..Len(longer)}
      <3>1. PICK i \in 1..Len(q.pkts) : x = q.pkts[i].id
        BY DEF Ids
      <3> QED BY <1>8, <3>1
    <2>4. high + 1 \in {longer[i].id : i \in 1..Len(longer)}
      <3>1. Len(q.pkts) + 1 \in 1..Len(longer)
        BY <1>7
      <3> QED BY <1>7, <3>1
    <2> QED BY <2>1, <2>2, <2>3, <2>4
  <1>11. ~ IsEmpty(Accept(q, p))
    BY <1>4, <1>7 DEF IsEmpty
  <1> QED BY <1>4, <1>6, <1>9, <1>10, <1>11 DEF Holds

\* The packet in front is taken: those behind it came later.
LEMMA DequeueHolds ==
  ASSUME NEW q, NEW low \in Nat, NEW high \in Nat, Holds(q, low, high), ~ IsEmpty(q)
  PROVE  /\ Front(q) \in AnyPacket /\ Front(q) = q.pkts[1]
         /\ low < Front(q).id /\ Front(q).id <= high
         /\ Holds(Dequeued(q), Front(q).id, high)
         /\ Ids(q) = Ids(Dequeued(q)) \cup {Front(q).id}
         /\ \A x \in Ids(Dequeued(q)) : x > Front(q).id
         /\ Len(q.pkts) \in Nat /\ Len(q.pkts) >= 1
         /\ Len(Dequeued(q).pkts) = Len(q.pkts) - 1
         /\ \A i \in 1..(Len(q.pkts) - 1) : Dequeued(q).pkts[i] = q.pkts[i + 1]
  <1>1. q \in [pkts : Seq(AnyPacket), bytes : Int, packets : Int]
    BY DEF Holds
  <1>2. Len(q.pkts) \in Nat /\ Len(q.pkts) >= 1
    BY <1>1 DEF IsEmpty
  <1>3. Front(q) = q.pkts[1] /\ q.pkts[1] \in AnyPacket /\ Front(q).size \in Nat
    BY <1>1, <1>2, PacketTypes DEF Front
  <1> DEFINE shorter == Tail(q.pkts)
  <1>4. /\ shorter \in Seq(AnyPacket) /\ Len(shorter) = Len(q.pkts) - 1
        /\ \A i \in 1..(Len(q.pkts) - 1) : shorter[i] = q.pkts[i + 1]
    BY <1>1, <1>2
  <1>5. Dequeued(q) = [pkts |-> shorter, bytes |-> q.bytes - Front(q).size,
                       packets |-> q.packets - 1]
    BY DEF Dequeued
  <1> HIDE DEF shorter
  <1>6. /\ Dequeued(q).pkts = shorter
        /\ Dequeued(q) \in [pkts : Seq(AnyPacket), bytes : Int, packets : Int]
    BY <1>1, <1>3, <1>4, <1>5
  <1>7. /\ \A i \in 1..Len(q.pkts) : low < q.pkts[i].id /\ q.pkts[i].id <= high
        /\ \A i, j \in 1..Len(q.pkts) : i < j => q.pkts[i].id < q.pkts[j].id
    BY DEF Holds
  <1>8. \A i \in 1..Len(shorter) :
          /\ q.pkts[1].id < shorter[i].id /\ shorter[i].id <= high
          /\ shorter[i] = q.pkts[i + 1] /\ i + 1 \in 1..Len(q.pkts)
    BY <1>2, <1>4, <1>7
  <1>9. \A i, j \in 1..Len(shorter) : i < j => shorter[i].id < shorter[j].id
    <2> SUFFICES ASSUME NEW i \in 1..Len(shorter), NEW j \in 1..Len(shorter), i < j
                 PROVE  shorter[i].id < shorter[j].id
      OBVIOUS
    <2>1. i + 1 < j + 1
      BY <1>2, <1>4
    <2> QED BY <1>7, <1>8, <2>1
  <1>10. Ids(q) = Ids(Dequeued(q)) \cup {Front(q).id}
    <2>1. \A i \in 1..Len(q.pkts) : i = 1 \/ (i - 1 \in 1..Len(shorter)
                                                /\ q.pkts[i] = shorter[i - 1])
      BY <1>2, <1>4
    <2>2. ASSUME NEW x \in Ids(q)
          PROVE  x \in Ids(Dequeued(q)) \cup {Front(q).id}
      <3>1. PICK i \in 1..Len(q.pkts) : x = q.pkts[i].id
        BY <2>2 DEF Ids
      <3>2. CASE i = 1
        BY <1>3, <3>1, <3>2
      <3>3. CASE i - 1 \in 1..Len(shorter) /\ q.pkts[i] = shorter[i - 1]
        BY <1>6, <3>1, <3>3 DEF Ids
      <3> QED BY <2>1, <3>2, <3>3
    <2>3. ASSUME NEW x \in Ids(Dequeued(q)) \cup {Front(q).id}
          PROVE  x \in Ids(q)
      <3>1. CASE x = Front(q).id
        BY <1>2, <1>3, <3>1 DEF Ids
      <3>2. CASE x \in Ids(Dequeued(q))
        BY <1>6, <1>8, <3>2 DEF Ids
      <3> QED BY <2>3, <3>1, <3>2
    <2> QED BY <2>2, <2>3
  <1>11. \A x \in Ids(Dequeued(q)) : x > Front(q).id
    <2> SUFFICES ASSUME NEW i \in 1..Len(shorter)
                 PROVE  shorter[i].id > Front(q).id
      BY <1>6 DEF Ids
    <2>1. shorter[i].id \in Nat /\ q.pkts[1].id \in Nat
      BY <1>3, <1>4, PacketTypes
    <2> QED BY <1>3, <1>8, <2>1
  <1>12. 1 \in 1..Len(q.pkts)
    BY <1>2
  <1> QED BY <1>2, <1>3, <1>4, <1>6, <1>7, <1>8, <1>9, <1>10, <1>11, <1>12 DEF Holds

LEMMA HoldsLonger ==
  ASSUME NEW q, NEW low \in Nat, NEW high \in Nat, Holds(q, low, high),
         NEW low2 \in Nat, low2 <= low, NEW high2 \in Nat, high <= high2
  PROVE  Holds(q, low2, high2)
  <1>1. \A i \in 1..Len(q.pkts) : q.pkts[i].id \in Nat
    BY PacketTypes DEF Holds
  <1> QED BY <1>1 DEF Holds
----
(***************************************************************************)
(* Every discipline is a FIFO that may lose packets.                       *)
(***************************************************************************)
\* The last packet that was taken: returned already, unless CoDel still looks
\* for others to drop.
Taken == IF pc = "idle" THEN last ELSE r.id

\* The inductive invariant.
IInv ==
  /\ discipline \in Disciplines \cup {"pie", "codel"}
  /\ discipline # "codel" => pc = "idle"
  /\ arrived \in Nat /\ last \in Nat /\ clock \in Nat /\ Taken \in Nat
  /\ last <= Taken /\ Taken <= arrived
  /\ pc # "idle" => last < Taken
  /\ Holds(queue, Taken, arrived)

\* What a step of any discipline does to the packets.
Receives ==
  /\ pc = "idle" /\ pc' = "idle" /\ last' = last
  /\ arrived' = arrived + 1
  /\ \E p \in AnyPacket :
       /\ p.id = arrived + 1
       /\ queue' = queue \/ queue' = Accept(queue, p)
            \/ queue' = Dequeued(Accept(queue, p))
HandsOut ==
  /\ pc = "idle" /\ pc' = "idle" /\ ~ IsEmpty(queue)
  /\ queue' = Dequeued(queue) /\ last' = Front(queue).id /\ arrived' = arrived
Takes ==
  /\ discipline = "codel" /\ pc = "idle" /\ pc' # "idle" /\ ~ IsEmpty(queue)
  /\ queue' = Dequeued(queue) /\ r' = Front(queue)
  /\ UNCHANGED <<arrived, last>>
Loses ==
  /\ pc # "idle" /\ pc' # "idle" /\ ~ IsEmpty(queue)
  /\ queue' = Dequeued(queue)
  /\ UNCHANGED <<arrived, last, r>>
Returns ==
  /\ pc # "idle" /\ pc' = "idle" /\ last' = r.id
  /\ UNCHANGED <<arrived, queue>>
Stays ==
  /\ pc' = "idle" <=> pc = "idle"
  /\ UNCHANGED <<arrived, last, queue, r>>
Moves == Receives \/ HandsOut \/ Takes \/ Loses \/ Returns \/ Stays

\* The packets that are made here.
LEMMA MadePackets ==
  ASSUME NEW size \in Nat, arrived \in Nat, clock \in Nat
  PROVE  /\ Arrival(size) \in AnyPacket /\ Arrival(size).id = arrived + 1
         /\ [id |-> arrived + 1, size |-> size, arrival |-> clock] \in AnyPacket
  <1>1. arrived + 1 \in Nat
    OBVIOUS
  <1> QED BY <1>1 DEF Arrival, AnyPacket

LEMMA PassiveMoves ==
  ASSUME IInv, PassiveNext
  PROVE  Moves
  <1>1. discipline \in Disciplines /\ UNCHANGED <<clock, pie, early, codel, pc, r>>
    BY DEF PassiveNext, codelVars, pieVars, locals
  <1>2. pc = "idle"
    BY <1>1, DisciplinesAssumption DEF IInv
  <1>3. CASE Dequeue
    BY <1>1, <1>2, <1>3 DEF Dequeue, HandsOut, Moves
  <1>4. ASSUME NEW size \in Sizes, Enqueue(size)
        PROVE  Moves
    <2>1. /\ arrived' = arrived + 1 /\ last' = last
          /\ \/ queue' = queue \/ queue' = Accept(queue, Arrival(size))
             \/ queue' = Dequeued(Accept(queue, Arrival(size)))
      BY <1>4 DEF Enqueue, InfiniteEnqueue, DropTailEnqueue, DropHeadEnqueue, TailEnqueue
    <2>2. Arrival(size) \in AnyPacket /\ Arrival(size).id = arrived + 1
      BY MadePackets, SizesAssumption DEF IInv
    <2> QED BY <1>1, <1>2, <2>1, <2>2 DEF Receives, Moves
  <1> QED BY <1>3, <1>4 DEF PassiveNext, Next

LEMMA PieMoves ==
  ASSUME IInv, PieNext, UNCHANGED codelVars
  PROVE  Moves
  <1>1. UNCHANGED <<pc, r>>
    BY DEF codelVars, locals
  <1>2. discipline = "pie" /\ pc = "idle"
    <2>1. discipline = "pie"
      BY DEF PieNext, PieDequeue, PieTick, PieArrive, PieEnqueue
    <2> QED BY <2>1 DEF IInv
  <1>3. CASE PieDequeue
    BY <1>1, <1>2, <1>3 DEF PieDequeue, HandsOut, Moves
  <1>4. CASE PieTick
    BY <1>1, <1>4 DEF PieTick, vars, Stays, Moves
  <1>5. ASSUME NEW size \in PieSizes, PieArrive(size)
        PROVE  Moves
    <2>1. /\ arrived' = arrived + 1 /\ last' = last
          /\ queue' = queue \/ queue' = Accept(queue, Arrival(size))
      BY <1>5 DEF PieArrive, PieEnqueue, TailEnqueue
    <2>2. Arrival(size) \in AnyPacket /\ Arrival(size).id = arrived + 1
      BY MadePackets, PieAssumption DEF IInv
    <2> QED BY <1>1, <1>2, <2>1, <2>2 DEF Receives, Moves
  <1> QED BY <1>3, <1>4, <1>5 DEF PieNext

LEMMA CodelMoves ==
  ASSUME IInv, CodelNext
  PROVE  Moves
  <1>1. CASE CodelDequeue
    BY <1>1 DEF CodelDequeue, DoDequeue, Takes, Moves
  <1>2. CASE DropMore
    BY <1>2 DEF DropMore, MustDropMore, LosePacket, DoDequeue, locals, Loses, Moves
  <1>3. CASE DropEnough
    BY <1>3 DEF DropEnough, vars, Stays, Moves
  <1>4. CASE EnterDropping
    BY <1>4 DEF EnterDropping, LosePacket, DoDequeue, Loses, Moves
  <1>5. CASE CodelReturn
    BY <1>5 DEF CodelReturn, Returns, Moves
  <1>6. CASE CodelTick
    BY <1>6 DEF CodelTick, vars, codelVars, locals, Stays, Moves
  <1>7. ASSUME NEW size \in CodelSizes, CodelEnqueue(size)
        PROVE  Moves
    <2> DEFINE p == [id |-> arrived + 1, size |-> size, arrival |-> clock]
    <2>1. /\ arrived' = arrived + 1 /\ last' = last /\ pc = "idle" /\ pc' = "idle"
          /\ queue' = queue \/ queue' = Accept(queue, p)
      BY <1>7 DEF CodelEnqueue, TailEnqueue, codelVars, locals
    <2>2. size \in Nat
      BY CodelAssumption
    <2>3. p \in AnyPacket
      BY <2>2, MadePackets DEF IInv
    <2>4. p.id = arrived + 1
      OBVIOUS
    <2> HIDE DEF p
    <2> QED BY <2>1, <2>3, <2>4 DEF Receives, Moves
  <1> QED BY <1>1, <1>2, <1>3, <1>4, <1>5, <1>6, <1>7 DEF CodelNext

\* The discipline is chosen once; the clock of a queue does not go back.
LEMMA DisciplineStays ==
  ASSUME IInv, [QueuesNext]_queuesVars
  PROVE  /\ discipline' = discipline /\ clock' \in Nat
         /\ discipline # "codel" => pc' = pc
  <1>1. CASE PassiveNext
    BY <1>1, DisciplinesAssumption DEF PassiveNext, Next, Dequeue, Enqueue, codelVars, locals, IInv
  <1>2. CASE PieNext /\ UNCHANGED codelVars
    BY <1>2 DEF PieNext, PieDequeue, PieTick, PieArrive, Tick, vars, codelVars, locals, IInv
  <1>3. CASE CodelNext
    <2>1. CASE CodelDequeue
      BY <2>1 DEF CodelDequeue, IInv
    <2>2. CASE DropMore \/ EnterDropping \/ DropEnough \/ CodelReturn
      BY <2>2 DEF DropMore, MustDropMore, EnterDropping, DropEnough, CodelReturn, vars, IInv
    <2>3. CASE CodelTick
      BY <2>3 DEF CodelTick, Tick, vars, IInv
    <2>4. CASE \E size \in CodelSizes : CodelEnqueue(size)
      BY <2>4 DEF CodelEnqueue, IInv
    <2> QED BY <1>3, <2>1, <2>2, <2>3, <2>4 DEF CodelNext
  <1>4. CASE UNCHANGED queuesVars
    BY <1>4 DEF queuesVars, vars, codelVars, locals, IInv
  <1> QED BY <1>1, <1>2, <1>3, <1>4 DEF QueuesNext

LEMMA NextMoves ==
  ASSUME IInv, [QueuesNext]_queuesVars
  PROVE  Moves
  <1>1. CASE UNCHANGED queuesVars
    BY <1>1 DEF queuesVars, vars, codelVars, locals, Stays, Moves
  <1> QED BY <1>1, PassiveMoves, PieMoves, CodelMoves DEF QueuesNext

\* A step of a FIFO, seen through the refinement, and what it leaves behind.
Waiting == {queue.pkts[i].id : i \in 1..Len(queue.pkts)} \cup {x \in {r.id} : pc # "idle"}

LEMMA WaitingIs ==
  /\ Waiting = IF pc = "idle" THEN Ids(queue) ELSE Ids(queue) \cup {r.id}
  /\ Waiting' = IF pc' = "idle" THEN Ids(queue') ELSE Ids(queue') \cup {r'.id}
  BY DEF Waiting, Ids

LEMMA ReceivesKeeps ==
  ASSUME IInv, Receives
  PROVE  /\ Taken' \in Nat /\ last' <= Taken' /\ Taken' <= arrived'
         /\ Holds(queue', Taken', arrived') /\ arrived' \in Nat /\ last' \in Nat
         /\ Waiting' \in SUBSET (Waiting \cup {arrived + 1})
  <1>1. PICK p \in AnyPacket :
          /\ p.id = arrived + 1
          /\ queue' = queue \/ queue' = Accept(queue, p)
               \/ queue' = Dequeued(Accept(queue, p))
    BY DEF Receives
  <1>2. /\ pc = "idle" /\ pc' = "idle" /\ last' = last /\ arrived' = arrived + 1
        /\ Taken = last /\ Taken' = last /\ arrived \in Nat /\ last \in Nat
        /\ last <= arrived /\ Holds(queue, last, arrived)
    BY DEF Receives, IInv, Taken
  <1>3. /\ Holds(Accept(queue, p), last, arrived + 1) /\ ~ IsEmpty(Accept(queue, p))
        /\ Ids(Accept(queue, p)) = Ids(queue) \cup {arrived + 1}
    BY <1>1, <1>2, AcceptHolds
  <1>4. arrived + 1 \in Nat /\ last <= arrived + 1
    BY <1>2
  <1>5. Holds(queue', last, arrived + 1) /\ Ids(queue') \subseteq Ids(queue) \cup {arrived + 1}
    <2>1. CASE queue' = queue
      BY <1>2, <1>4, <2>1, HoldsLonger
    <2>2. CASE queue' = Accept(queue, p)
      BY <1>3, <2>2
    <2>3. CASE queue' = Dequeued(Accept(queue, p))
      <3> DEFINE full == Accept(queue, p)
      <3>1. /\ Front(full) \in AnyPacket /\ last < Front(full).id
            /\ Holds(Dequeued(full), Front(full).id, arrived + 1)
            /\ Ids(full) = Ids(Dequeued(full)) \cup {Front(full).id}
        BY <1>2, <1>3, <1>4, DequeueHolds
      <3>2. Front(full).id \in Nat
        BY <3>1, PacketTypes
      <3> HIDE DEF full
      <3>3. Holds(Dequeued(full), last, arrived + 1)
        BY <1>2, <1>4, <3>1, <3>2, HoldsLonger
      <3> QED BY <1>3, <2>3, <3>1, <3>3 DEF full
    <2> QED BY <1>1, <2>1, <2>2, <2>3
  <1>6. Waiting' \in SUBSET (Waiting \cup {arrived + 1})
    BY <1>2, <1>5, WaitingIs
  <1> QED BY <1>2, <1>4, <1>5, <1>6

LEMMA TakingKeeps ==
  ASSUME IInv, HandsOut \/ Takes \/ Loses
  PROVE  /\ Taken' \in Nat /\ last' <= Taken' /\ Taken' <= arrived'
         /\ Holds(queue', Taken', arrived') /\ arrived' \in Nat /\ last' \in Nat
         /\ pc' # "idle" => last' < Taken'
         /\ arrived' = arrived
         /\ HandsOut => /\ last' \in Waiting
                        /\ Waiting' \in SUBSET {y \in Waiting : y > last'}
         /\ ~ HandsOut => last' = last /\ Waiting' \in SUBSET Waiting
  <1>1. /\ ~ IsEmpty(queue) /\ queue' = Dequeued(queue) /\ arrived' = arrived
        /\ arrived \in Nat /\ Taken \in Nat /\ Holds(queue, Taken, arrived)
        /\ last \in Nat /\ last <= Taken /\ Taken <= arrived
        /\ pc # "idle" => last < Taken
    BY DEF HandsOut, Takes, Loses, IInv
  <1> DEFINE f == Front(queue)
  <1>2. /\ f \in AnyPacket /\ Taken < f.id /\ f.id <= arrived
        /\ Holds(queue', f.id, arrived)
        /\ Ids(queue) = Ids(queue') \cup {f.id}
        /\ \A x \in Ids(queue') : x > f.id
    BY <1>1, DequeueHolds
  <1>3. f.id \in Nat
    BY <1>2, PacketTypes
  <1> HIDE DEF f
  <1>4. Holds(queue', Taken, arrived)
    BY <1>1, <1>2, <1>3, HoldsLonger
  <1>5. CASE HandsOut
    <2>1. pc = "idle" /\ pc' = "idle" /\ last' = f.id /\ Taken' = f.id
      BY <1>5 DEF HandsOut, Taken, f
    <2>2. Waiting = Ids(queue') \cup {f.id} /\ Waiting' = Ids(queue')
      BY <1>2, <2>1, WaitingIs
    <2>3. last' \in Waiting /\ Waiting' \in SUBSET {y \in Waiting : y > last'}
      BY <1>2, <2>1, <2>2
    <2> QED BY <1>1, <1>2, <1>3, <1>5, <2>1, <2>3
  <1>6. CASE Takes
    <2>1. /\ pc = "idle" /\ pc' # "idle" /\ last' = last /\ r' = f
          /\ Taken' = f.id /\ ~ HandsOut
      BY <1>6 DEF Takes, HandsOut, Taken, f
    <2>2. Waiting = Ids(queue') \cup {f.id} /\ Waiting' = Ids(queue') \cup {f.id}
      BY <1>2, <2>1, WaitingIs
    <2> QED BY <1>1, <1>2, <1>3, <2>1, <2>2
  <1>7. CASE Loses
    <2>1. /\ pc # "idle" /\ pc' # "idle" /\ last' = last /\ r' = r
          /\ Taken' = Taken /\ ~ HandsOut
      BY <1>7 DEF Loses, HandsOut, Taken
    <2>2. Waiting' \in SUBSET Waiting
      BY <1>2, <2>1, WaitingIs
    <2> QED BY <1>1, <1>4, <2>1, <2>2
  <1> QED BY <1>5, <1>6, <1>7

LEMMA ReturnKeeps ==
  ASSUME IInv, Returns
  PROVE  /\ Taken' \in Nat /\ last' = Taken' /\ Taken' <= arrived' /\ pc' = "idle"
         /\ Holds(queue', Taken', arrived') /\ arrived' = arrived /\ arrived \in Nat
         /\ last' \in Waiting /\ Waiting' \in SUBSET {y \in Waiting : y > last'}
  <1>1. /\ pc # "idle" /\ pc' = "idle" /\ last' = r.id /\ Taken = r.id /\ Taken' = r.id
        /\ arrived' = arrived /\ queue' = queue
    BY DEF Returns, Taken
  <1>2. Taken \in Nat /\ Taken <= arrived /\ Holds(queue, Taken, arrived) /\ arrived \in Nat
    BY DEF IInv
  <1>3. Waiting = Ids(queue) \cup {r.id} /\ Waiting' = Ids(queue)
    BY <1>1, WaitingIs
  <1>4. \A x \in Ids(queue) : x > r.id
    <2>1. \A i \in 1..Len(queue.pkts) : Taken < queue.pkts[i].id /\ queue.pkts[i].id \in Nat
      BY <1>2, PacketTypes DEF Holds
    <2> QED BY <1>1, <1>2, <2>1 DEF Ids
  <1> QED BY <1>1, <1>2, <1>3, <1>4

LEMMA StayKeeps ==
  ASSUME IInv, Stays
  PROVE  UNCHANGED <<Taken, Waiting>>
  BY WaitingIs DEF Stays, Taken

LEMMA NextKeepsIInv == IInv /\ [QueuesNext]_queuesVars => IInv'
  <1> SUFFICES ASSUME IInv, [QueuesNext]_queuesVars
               PROVE  IInv'
    OBVIOUS
  <1>1. /\ discipline' = discipline /\ clock' \in Nat
        /\ discipline # "codel" => pc' = "idle"
        /\ discipline \in Disciplines \cup {"pie", "codel"}
    BY DisciplineStays DEF IInv
  <1>2. CASE Receives
    BY <1>1, <1>2, ReceivesKeeps DEF IInv, Receives
  <1>3. CASE HandsOut \/ Takes \/ Loses
    BY <1>1, <1>3, TakingKeeps DEF IInv
  <1>4. CASE Returns
    BY <1>1, <1>4, ReturnKeeps DEF IInv
  <1>5. CASE Stays
    BY <1>1, <1>5, StayKeeps DEF IInv, Stays
  <1> QED BY <1>2, <1>3, <1>4, <1>5, NextMoves DEF Moves

LEMMA InitIInv == QueuesInit => IInv
  <1> SUFFICES ASSUME QueuesInit
               PROVE  IInv
    OBVIOUS
  <1>1. /\ pc = "idle" /\ queue = EmptyQueue /\ arrived = 0 /\ last = 0 /\ clock = 0
        /\ discipline \in Disciplines \cup {"pie", "codel"}
    BY DEF QueuesInit, CodelInit
  <1>2. Holds(EmptyQueue, 0, 0)
    <2>1. <<>> \in Seq(AnyPacket) /\ Len(<<>>) = 0
      OBVIOUS
    <2> QED BY <2>1 DEF Holds, EmptyQueue
  <1> QED BY <1>1, <1>2 DEF IInv, Taken

\* Every discipline, for all its parameters, implements the lossy FIFO: no
\* packet is invented, none handed out twice or out of order, whatever is
\* dropped at its head, at its tail or, by CoDel, while one is taken.
THEOREM QueuesAreFifo == QueuesSpec => AnyFifoSpec
  <1>1. QueuesInit => AnyFifo!FifoInit
    <2> SUFFICES ASSUME QueuesInit
                 PROVE  AnyFifo!FifoInit
      OBVIOUS
    <2>1. /\ pc = "idle" /\ queue = EmptyQueue /\ arrived = 0 /\ last = 0
      BY DEF QueuesInit, CodelInit
    <2> QED BY <2>1 DEF AnyFifo!FifoInit, EmptyQueue
  <1>2. IInv /\ [QueuesNext]_queuesVars => [AnyFifo!FifoNext]_AnyFifo!fifoVars
    <2> SUFFICES ASSUME IInv, Moves
                 PROVE  [AnyFifo!FifoNext]_AnyFifo!fifoVars
      BY NextMoves
    <2>1. CASE Receives
      <3>1. /\ Waiting' \in SUBSET (Waiting \cup {arrived + 1})
            /\ arrived' = arrived + 1 /\ last' = last
        BY <2>1, ReceivesKeeps DEF Receives
      <3> QED BY <3>1 DEF Waiting, AnyFifo!FifoNext, AnyFifo!Arrive
    <2>2. CASE HandsOut \/ Returns
      <3>1. /\ last' \in Waiting /\ arrived' = arrived
            /\ Waiting' \in SUBSET {y \in Waiting : y > last'}
        BY <2>2, TakingKeeps, ReturnKeeps
      <3>2. \E x \in Waiting : /\ last' = x /\ UNCHANGED arrived
                               /\ Waiting' \in SUBSET {y \in Waiting : y > x}
        BY <3>1
      <3> QED BY <3>2 DEF Waiting, AnyFifo!FifoNext, AnyFifo!HandOut
    <2>3. CASE (Takes \/ Loses) /\ ~ HandsOut
      <3>1. Waiting' \in SUBSET Waiting /\ arrived' = arrived /\ last' = last
        BY <2>3, TakingKeeps
      <3> QED BY <3>1 DEF Waiting, AnyFifo!FifoNext, AnyFifo!Lose
    <2>4. CASE Stays
      <3>1. Waiting' = Waiting /\ arrived' = arrived /\ last' = last
        BY <2>4, StayKeeps DEF Stays
      <3> QED BY <3>1 DEF Waiting, AnyFifo!fifoVars
    <2> QED BY <2>1, <2>2, <2>3, <2>4 DEF Moves
  <1> QED BY <1>1, <1>2, InitIInv, NextKeepsIInv, PTL
          DEF QueuesSpec, AnyFifoSpec, AnyFifo!FifoSpec
----
(***************************************************************************)
(* The limits of a queue, which it asserts after every call.               *)
(***************************************************************************)
LEMMA DequeuedIsGood ==
  ASSUME NEW q, NEW low \in Nat, NEW high \in Nat, Holds(q, low, high), ~ IsEmpty(q),
         Good(q)
  PROVE  Good(Dequeued(q))
  <1>1. Front(q).size \in Nat /\ q.bytes \in Int /\ q.packets \in Int
    BY DequeueHolds, PacketTypes DEF Holds
  <1>2. /\ Dequeued(q).bytes = q.bytes - Front(q).size
        /\ Dequeued(q).packets = q.packets - 1
    BY DEF Dequeued
  <1> QED BY <1>1, <1>2, LimitsAssumption DEF Good, GoodWith

LEMMA TailEnqueueIsGood ==
  ASSUME NEW q, NEW p, Good(q)
  PROVE  Good(TailEnqueue(q, p))
  BY DEF TailEnqueue, HasRoomFor, Good, Accept

\* No assertion has failed, and a queue that makes them is within its limits.
Kept ==
  /\ ~ aborted
  /\ discipline # "infinite" => Good(queue)

\* Only the drophead queue can be made to exceed a limit, that of its bytes: it
\* makes room for a packet by dropping one.
LEMMA PassiveKeeps ==
  ASSUME ByteLimit = 0 \/ "drophead" \notin Disciplines, IInv, Kept, PassiveNext
  PROVE  Kept'
  <1>1. /\ discipline \in Disciplines /\ discipline' = discipline
        /\ discipline # "pie" /\ discipline # "codel"
    BY DisciplinesAssumption DEF PassiveNext, Next, Dequeue, Enqueue
  <1>2. Holds(queue, Taken, arrived) /\ Taken \in Nat /\ arrived \in Nat /\ Taken <= arrived
    BY DEF IInv
  <1>3. CASE Dequeue
    <2>1. /\ ~ IsEmpty(queue) /\ queue' = Dequeued(queue)
          /\ aborted' = (discipline # "infinite" /\ ~ Good(queue'))
      BY <1>3 DEF Dequeue
    <2>2. discipline # "infinite" => Good(queue')
      BY <1>2, <2>1, DequeuedIsGood DEF Kept
    <2>3. Good(queue') <=> Good(queue)'
      BY DEF Good, GoodWith
    <2> QED BY <1>1, <2>1, <2>2, <2>3 DEF Kept
  <1>4. ASSUME NEW size \in Sizes, Enqueue(size)
        PROVE  Kept'
    <2> DEFINE p == Arrival(size)
    <2>1. InfiniteEnqueue(p) \/ DropTailEnqueue(p) \/ DropHeadEnqueue(p)
      BY <1>4 DEF Enqueue
    <2>2. Good(queue') <=> Good(queue)'
      BY DEF Good, GoodWith
    <2>3. size \in Nat /\ p \in AnyPacket /\ p.id = arrived + 1 /\ p.size = size
      BY SizesAssumption, MadePackets DEF IInv, Arrival
    <2> HIDE DEF p
    <2>4. CASE InfiniteEnqueue(p)
      BY <1>1, <2>4 DEF InfiniteEnqueue, Kept
    <2>5. CASE DropTailEnqueue(p)
      <3>1. Good(queue') /\ aborted' = ~ Good(queue')
        BY <2>5, TailEnqueueIsGood DEF DropTailEnqueue, Kept
      <3> QED BY <2>2, <3>1 DEF Kept
    <2>6. CASE DropHeadEnqueue(p)
      <3> DEFINE full == Accept(queue, p)
      <3>1. /\ discipline = "drophead" /\ ByteLimit = 0 /\ Good(queue)
            /\ queue' = IF Good(full) THEN full ELSE Dequeued(full)
            /\ aborted' = ~ Good(queue')
        BY <1>1, <2>6 DEF DropHeadEnqueue, Kept
      <3>2. Good(Dequeued(full))
        <4>1. full.packets = queue.packets + 1 /\ queue.packets \in Int
          BY <1>2 DEF Accept, Holds
        <4> HIDE DEF full
        <4>2. Dequeued(full).packets = queue.packets
          BY <4>1 DEF Dequeued
        <4> QED BY <3>1, <4>2 DEF Good, GoodWith
      <3>3. Good(queue')
        BY <3>1, <3>2
      <3> QED BY <2>2, <3>1, <3>3 DEF Kept
    <2> QED BY <2>1, <2>4, <2>5, <2>6
  <1> QED BY <1>3, <1>4 DEF PassiveNext, Next

LEMMA PieKeeps ==
  ASSUME IInv, Kept, PieNext
  PROVE  Kept'
  <1>1. Holds(queue, Taken, arrived) /\ Taken \in Nat /\ arrived \in Nat
    BY DEF IInv
  <1>2. Good(queue') <=> Good(queue)'
    BY DEF Good, GoodWith
  <1>3. discipline = "pie" /\ Good(queue) /\ ~ aborted
    BY DEF PieNext, PieDequeue, PieTick, PieArrive, PieEnqueue, Kept
  <1>4. CASE PieDequeue
    <2>1. ~ IsEmpty(queue) /\ queue' = Dequeued(queue) /\ aborted' = ~ Good(queue')
      BY <1>4 DEF PieDequeue
    <2> QED BY <1>1, <1>2, <1>3, <2>1, DequeuedIsGood DEF Kept
  <1>5. CASE PieTick
    BY <1>3, <1>5 DEF PieTick, vars, Kept, Good
  <1>6. ASSUME NEW size \in PieSizes, PieArrive(size)
        PROVE  Kept'
    <2>1. /\ queue' = queue \/ queue' = TailEnqueue(queue, Arrival(size))
          /\ aborted' = ~ Good(queue')
      BY <1>6 DEF PieArrive, PieEnqueue
    <2> QED BY <1>2, <1>3, <2>1, TailEnqueueIsGood DEF Kept
  <1> QED BY <1>4, <1>5, <1>6 DEF PieNext

\* CoDel takes a packet again only if it has just seen another behind the one it
\* took: its assertion that there is one never fails.
LEMMA CodelKeeps ==
  ASSUME IInv, Kept, CodelNext
  PROVE  Kept'
  <1>1. Holds(queue, Taken, arrived) /\ Taken \in Nat /\ arrived \in Nat
    BY DEF IInv
  <1>2. Good(queue') <=> Good(queue)'
    BY DEF Good, GoodWith
  <1>3. discipline = "codel" /\ Good(queue) /\ ~ aborted
    <2>1. discipline = "codel"
      BY DEF CodelNext, CodelDequeue, DropMore, MustDropMore, DropEnough, EnterDropping,
         CodelReturn, CodelTick, CodelEnqueue, IInv
    <2> QED BY <2>1 DEF Kept
  <1>4. ASSUME ~ IsEmpty(queue), queue' = Dequeued(queue),
               CallsAgain' => ~ IsEmpty(queue'), Asserted
        PROVE  Kept'
    <2>1. Good(queue')
      BY <1>1, <1>3, <1>4, DequeuedIsGood
    <2> QED BY <1>2, <1>4, <2>1 DEF Asserted, Kept
  <1>5. CASE CodelDequeue
    <2>1. /\ ~ IsEmpty(queue) /\ queue' = Dequeued(queue) /\ Asserted
          /\ pc' = IF ~ OkToDrop(clock) THEN "return"
                   ELSE IF dropping THEN "loop" ELSE "enter"
      BY <1>5 DEF CodelDequeue, DoDequeue
    <2>2. OkToDrop(clock) => ~ IsEmpty(queue')
      BY <2>1 DEF OkToDrop, Delayed
    <2> QED BY <1>4, <2>1, <2>2 DEF CallsAgain, MustDropMore
  <1>6. CASE DropMore
    <2>1. /\ ~ IsEmpty(queue) /\ queue' = Dequeued(queue) /\ Asserted
          /\ pc' = "loop" /\ dropping' = OkToDrop(now)
      BY <1>6 DEF DropMore, MustDropMore, LosePacket, DoDequeue, locals
    <2>2. OkToDrop(now) => ~ IsEmpty(queue')
      BY <2>1 DEF OkToDrop, Delayed
    <2> QED BY <1>4, <2>1, <2>2 DEF CallsAgain, MustDropMore
  <1>7. CASE EnterDropping
    <2>1. /\ ~ IsEmpty(queue) /\ queue' = Dequeued(queue) /\ Asserted /\ pc' = "return"
      BY <1>7 DEF EnterDropping, LosePacket, DoDequeue
    <2> QED BY <1>4, <2>1 DEF CallsAgain, MustDropMore
  <1>8. CASE DropEnough \/ CodelReturn \/ CodelTick
    BY <1>3, <1>8 DEF DropEnough, CodelReturn, CodelTick, vars, Kept, Good
  <1>9. ASSUME NEW size \in CodelSizes, CodelEnqueue(size)
        PROVE  Kept'
    <2>1. PICK p : queue' = TailEnqueue(queue, p) /\ aborted' = ~ Good(queue')
      BY <1>9 DEF CodelEnqueue
    <2> QED BY <1>2, <1>3, <2>1, TailEnqueueIsGood DEF Kept
  <1> QED BY <1>5, <1>6, <1>7, <1>8, <1>9 DEF CodelNext

\* For all limits and packet sizes, whichever discipline is chosen: no assertion
\* fails.  The drophead queue with a limit to its bytes is left out: there the
\* assertion does fail.
THEOREM QueuesNeverAbort ==
  ASSUME ByteLimit = 0 \/ "drophead" \notin Disciplines
  PROVE  QueuesSpec => []NoAssertionFails
  <1>1. QueuesInit => IInv /\ Kept
    <2> SUFFICES ASSUME QueuesInit
                 PROVE  Kept
      BY InitIInv
    <2>1. Good(EmptyQueue)
      BY LimitsAssumption DEF Good, GoodWith, EmptyQueue
    <2> QED BY <2>1 DEF QueuesInit, Kept
  <1>2. IInv /\ Kept /\ [QueuesNext]_queuesVars => (IInv /\ Kept)'
    <2>1. ASSUME IInv, Kept, UNCHANGED queuesVars
          PROVE  Kept'
      BY <2>1 DEF queuesVars, vars, Kept, Good
    <2> QED BY <2>1, PassiveKeeps, PieKeeps, CodelKeeps, NextKeepsIInv DEF QueuesNext
  <1>3. Kept => NoAssertionFails
    BY DEF Kept, NoAssertionFails
  <1> QED BY <1>1, <1>2, <1>3, PTL DEF QueuesSpec
----
(***************************************************************************)
(* CoDel, which judges by the bytes behind a packet whether it is alone.   *)
(***************************************************************************)
\* The byte counter of a queue counts the bytes of its packets: sums[i] is what
\* the first i of them come to.
Sums(pkts, bytes) ==
  \E sums \in [0..Len(pkts) -> Int] :
    /\ sums[0] = 0 /\ sums[Len(pkts)] = bytes
    /\ \A i \in 1..Len(pkts) : sums[i] = sums[i - 1] + pkts[i].size

LEMMA AcceptSums ==
  ASSUME NEW q, NEW low \in Nat, NEW high \in Nat, Holds(q, low, high),
         NEW p \in AnyPacket, Sums(q.pkts, q.bytes)
  PROVE  Sums(Accept(q, p).pkts, Accept(q, p).bytes)
  <1>1. q.pkts \in Seq(AnyPacket) /\ q.bytes \in Int /\ p.size \in Int
    BY PacketTypes DEF Holds
  <1> DEFINE n == Len(q.pkts)
             longer == Append(q.pkts, p)
  <1>2. /\ n \in Nat /\ Len(longer) = n + 1 /\ longer[n + 1] = p
        /\ \A i \in 1..n : longer[i] = q.pkts[i]
    BY <1>1
  <1>3. PICK sums \in [0..n -> Int] :
          /\ sums[0] = 0 /\ sums[n] = q.bytes
          /\ \A i \in 1..n : sums[i] = sums[i - 1] + q.pkts[i].size
    BY DEF Sums
  <1> HIDE DEF n, longer
  <1> DEFINE more == [i \in 0..(n + 1) |-> IF i = n + 1 THEN q.bytes + p.size ELSE sums[i]]
  <1>4. more \in [0..(n + 1) -> Int]
    <2> SUFFICES ASSUME NEW i \in 0..(n + 1)
                 PROVE  (IF i = n + 1 THEN q.bytes + p.size ELSE sums[i]) \in Int
      OBVIOUS
    <2>1. CASE i = n + 1
      BY <1>1, <2>1
    <2>2. CASE i \in 0..n
      BY <1>2, <1>3, <2>2
    <2> QED BY <1>2, <2>1, <2>2
  <1>5. /\ more[0] = 0 /\ more[n + 1] = q.bytes + p.size
        /\ \A i \in 0..n : more[i] = sums[i]
    BY <1>2, <1>3
  <1> HIDE DEF more
  <1>6. \A i \in 1..(n + 1) : more[i] = more[i - 1] + longer[i].size
    <2> SUFFICES ASSUME NEW i \in 1..(n + 1)
                 PROVE  more[i] = more[i - 1] + longer[i].size
      OBVIOUS
    <2>1. CASE i = n + 1
      <3>1. i - 1 = n /\ more[n] = q.bytes /\ longer[i] = p
        BY <1>2, <1>3, <1>5, <2>1
      <3> QED BY <1>5, <2>1, <3>1
    <2>2. CASE i \in 1..n
      <3>1. more[i] = sums[i] /\ more[i - 1] = sums[i - 1] /\ longer[i] = q.pkts[i]
        BY <1>2, <1>5, <2>2
      <3> QED BY <1>3, <2>2, <3>1
    <2> QED BY <1>2, <2>1, <2>2
  <1>7. Accept(q, p).pkts = longer /\ Accept(q, p).bytes = q.bytes + p.size
    BY DEF Accept, longer
  <1>8. Sums(longer, q.bytes + p.size)
    BY <1>2, <1>4, <1>5, <1>6 DEF Sums
  <1> QED BY <1>7, <1>8

LEMMA DequeueSums ==
  ASSUME NEW q, NEW low \in Nat, NEW high \in Nat, Holds(q, low, high), ~ IsEmpty(q),
         Sums(q.pkts, q.bytes)
  PROVE  Sums(Dequeued(q).pkts, Dequeued(q).bytes)
  <1> DEFINE n == Len(q.pkts)
             shorter == Dequeued(q).pkts
             first == Front(q).size
  <1>1. /\ n \in Nat /\ n >= 1 /\ Len(shorter) = n - 1 /\ Front(q) = q.pkts[1]
        /\ \A i \in 1..(n - 1) : shorter[i] = q.pkts[i + 1]
        /\ first \in Int
    <2>1. q \in [pkts : Seq(AnyPacket), bytes : Int, packets : Int]
      BY DEF Holds
    <2>2. n \in Nat /\ n >= 1
      BY <2>1 DEF IsEmpty
    <2>3. Front(q) = q.pkts[1] /\ q.pkts[1] \in AnyPacket
      BY <2>1, <2>2 DEF Front
    <2>4. first \in Int
      BY <2>3, PacketTypes
    <2>5. /\ Len(shorter) = n - 1
          /\ \A i \in 1..(n - 1) : shorter[i] = q.pkts[i + 1]
      BY DequeueHolds
    <2> QED BY <2>2, <2>3, <2>4, <2>5
  <1>2. Dequeued(q).bytes = q.bytes - first
    BY DEF Dequeued
  <1>3. PICK sums \in [0..n -> Int] :
          /\ sums[0] = 0 /\ sums[n] = q.bytes
          /\ \A i \in 1..n : sums[i] = sums[i - 1] + q.pkts[i].size
    BY DEF Sums
  <1> HIDE DEF n, shorter, first
  <1> DEFINE less == [i \in 0..(n - 1) |-> sums[i + 1] - first]
  <1>4. \A i \in 0..(n - 1) : i + 1 \in 0..n /\ sums[i + 1] \in Int
    BY <1>1, <1>3
  <1>5. less \in [0..(n - 1) -> Int]
    BY <1>1, <1>4
  <1>6. \A i \in 0..(n - 1) : less[i] = sums[i + 1] - first
    OBVIOUS
  <1> HIDE DEF less
  <1>7. less[0] = 0 /\ less[n - 1] = q.bytes - first
    <2>1. sums[1] = 0 + first
      BY <1>1, <1>3 DEF first
    <2>2. less[0] = sums[1] - first /\ less[n - 1] = sums[n] - first
      BY <1>1, <1>6
    <2> QED BY <1>1, <1>3, <2>1, <2>2
  <1>8. \A i \in 1..(n - 1) : less[i] = less[i - 1] + shorter[i].size
    <2> SUFFICES ASSUME NEW i \in 1..(n - 1)
                 PROVE  less[i] = less[i - 1] + shorter[i].size
      OBVIOUS
    <2>1. /\ less[i] = sums[i + 1] - first /\ less[i - 1] = sums[i] - first
      BY <1>1, <1>6
    <2>2. sums[i + 1] = sums[i] + q.pkts[i + 1].size
      BY <1>1, <1>3
    <2>3. sums[i] \in Int /\ sums[i + 1] \in Int /\ q.pkts[i + 1].size \in Int
      <3>1. i + 1 \in 1..Len(q.pkts)
        BY <1>1 DEF n
      <3>2. q.pkts[i + 1] \in AnyPacket
        BY <3>1 DEF Holds
      <3>3. i \in 0..n /\ i + 1 \in 0..n
        BY <1>1
      <3>4. sums[i] \in Int /\ sums[i + 1] \in Int
        BY <1>3, <3>3
      <3>5. q.pkts[i + 1].size \in Int
        BY <3>2, PacketTypes
      <3> QED BY <3>4, <3>5
    <2>4. shorter[i] = q.pkts[i + 1] /\ first \in Int
      BY <1>1
    <2> QED BY <2>1, <2>2, <2>3, <2>4
  <1>9. Sums(shorter, q.bytes - first)
    BY <1>1, <1>5, <1>7, <1>8 DEF Sums
  <1> QED BY <1>2, <1>9 DEF shorter

\* More bytes than a packet may have are those of two packets.
LEMMA TwoPackets ==
  ASSUME NEW pkts \in Seq(AnyPacket), NEW bytes, Sums(pkts, bytes),
         \A i \in 1..Len(pkts) : pkts[i].size <= PacketSize, bytes > PacketSize
  PROVE  Len(pkts) >= 2
  <1> SUFFICES ASSUME Len(pkts) < 2
               PROVE  FALSE
    OBVIOUS
  <1>1. PICK sums \in [0..Len(pkts) -> Int] :
          /\ sums[0] = 0 /\ sums[Len(pkts)] = bytes
          /\ \A i \in 1..Len(pkts) : sums[i] = sums[i - 1] + pkts[i].size
    BY DEF Sums
  <1>2. CASE Len(pkts) = 0
    BY <1>1, <1>2, AqmAssumption
  <1>3. CASE Len(pkts) = 1
    <2>1. sums[1] = sums[0] + pkts[1].size /\ pkts[1].size <= PacketSize
      BY <1>1, <1>3
    <2>2. pkts[1].size \in Nat
      BY <1>3, PacketTypes
    <2> QED BY <1>1, <1>3, <2>1, <2>2, AqmAssumption
  <1> QED BY <1>2, <1>3

\* While CoDel is about to take a packet that it will lose, two are queued.
Small(q) ==
  /\ Sums(q.pkts, q.bytes)
  /\ \A i \in 1..Len(q.pkts) : q.pkts[i].size <= PacketSize
OnlyInv ==
  /\ ~ lost_only
  /\ discipline = "codel" => Small(queue) /\ (CallsAgain => Len(queue.pkts) >= 2)

LEMMA DequeuedIsSmall ==
  ASSUME IInv, Small(queue), ~ IsEmpty(queue)
  PROVE  /\ Small(Dequeued(queue))
         /\ \A t : OkToDrop(t) => Len(Dequeued(queue).pkts) >= 2
         /\ Len(Dequeued(queue).pkts) = Len(queue.pkts) - 1
         /\ Len(queue.pkts) \in Nat
  <1> DEFINE rest == Dequeued(queue)
  <1>1. Taken \in Nat /\ arrived \in Nat /\ Holds(queue, Taken, arrived)
    BY DEF IInv
  <1>2. /\ Len(queue.pkts) \in Nat /\ Len(queue.pkts) >= 1
        /\ Len(rest.pkts) = Len(queue.pkts) - 1
        /\ \A i \in 1..(Len(queue.pkts) - 1) : rest.pkts[i] = queue.pkts[i + 1]
        /\ Front(queue).id \in Nat /\ Holds(rest, Front(queue).id, arrived)
    BY <1>1, DequeueHolds, PacketTypes
  <1>3. Sums(rest.pkts, rest.bytes)
    BY <1>1, DequeueSums DEF Small
  <1> HIDE DEF rest
  <1>4. \A i \in 1..Len(rest.pkts) : rest.pkts[i].size <= PacketSize
    <2> SUFFICES ASSUME NEW i \in 1..Len(rest.pkts)
                 PROVE  rest.pkts[i].size <= PacketSize
      OBVIOUS
    <2>1. i + 1 \in 1..Len(queue.pkts) /\ rest.pkts[i] = queue.pkts[i + 1]
      BY <1>2
    <2> QED BY <2>1 DEF Small
  <1>5. rest.pkts \in Seq(AnyPacket)
    BY <1>2 DEF Holds
  <1>6. \A t : OkToDrop(t) => rest.bytes > PacketSize
    BY DEF OkToDrop, Delayed, rest
  <1>7. \A t : OkToDrop(t) => Len(rest.pkts) >= 2
    BY <1>3, <1>4, <1>5, <1>6, TwoPackets
  <1> QED BY <1>2, <1>3, <1>4, <1>7 DEF Small, rest

LEMMA NextQueue ==
  /\ Small(queue)' <=> Small(queue')
  /\ IsEmpty(queue)' <=> IsEmpty(queue')
  BY DEF Small, Sums, IsEmpty

\* A packet that is lost has another behind it.
LEMMA LosePacketKeepsOne ==
  ASSUME IInv, OnlyInv, discipline = "codel", CallsAgain, LosePacket
  PROVE  /\ ~ lost_only' /\ ~ IsEmpty(queue) /\ queue' = Dequeued(queue)
         /\ Small(queue')
  <1>1. /\ ~ IsEmpty(queue) /\ queue' = Dequeued(queue)
        /\ lost_only' = (lost_only \/ IsEmpty(Dequeued(queue)))
    BY DEF LosePacket, DoDequeue
  <1>2. Small(queue) /\ Len(queue.pkts) >= 2 /\ ~ lost_only
    BY DEF OnlyInv
  <1>3. Len(Dequeued(queue).pkts) >= 1
    BY <1>1, <1>2, DequeuedIsSmall
  <1>4. ~ IsEmpty(Dequeued(queue))
    BY <1>3 DEF IsEmpty
  <1> QED BY <1>1, <1>2, <1>4, DequeuedIsSmall

LEMMA CodelKeepsOne ==
  ASSUME IInv, OnlyInv, CodelNext
  PROVE  OnlyInv'
  <1>1. discipline = "codel"
    BY DEF CodelNext, CodelDequeue, DropMore, MustDropMore, DropEnough, EnterDropping,
       CodelReturn, CodelTick, CodelEnqueue, IInv
  <1>2. ~ lost_only /\ Small(queue) /\ (CallsAgain => Len(queue.pkts) >= 2)
    BY <1>1 DEF OnlyInv
  <1>3. CASE CodelDequeue
    <2>1. /\ ~ IsEmpty(queue) /\ queue' = Dequeued(queue) /\ lost_only' = lost_only
          /\ pc' = IF ~ OkToDrop(clock) THEN "return"
                   ELSE IF dropping THEN "loop" ELSE "enter"
      BY <1>3 DEF CodelDequeue, DoDequeue, losses
    <2>2. Small(queue') /\ (OkToDrop(clock) => Len(queue'.pkts) >= 2)
      BY <1>2, <2>1, DequeuedIsSmall
    <2>3. CallsAgain' => OkToDrop(clock)
      BY <2>1 DEF CallsAgain, MustDropMore
    <2> QED BY <1>2, <2>1, <2>2, <2>3, NextQueue DEF OnlyInv
  <1>4. CASE DropMore
    <2>1. LosePacket /\ MustDropMore /\ pc' = "loop" /\ dropping' = OkToDrop(now)
      BY <1>4 DEF DropMore, MustDropMore, locals
    <2>2. ~ lost_only' /\ ~ IsEmpty(queue) /\ queue' = Dequeued(queue) /\ Small(queue')
      BY <1>1, <2>1, LosePacketKeepsOne DEF CallsAgain
    <2>3. OkToDrop(now) => Len(queue'.pkts) >= 2
      BY <1>2, <2>2, DequeuedIsSmall
    <2>4. CallsAgain' => OkToDrop(now)
      BY <2>1 DEF CallsAgain, MustDropMore
    <2> QED BY <2>2, <2>3, <2>4, NextQueue DEF OnlyInv
  <1>5. CASE EnterDropping
    <2>1. LosePacket /\ pc = "enter" /\ pc' = "return"
      BY <1>5 DEF EnterDropping
    <2>2. ~ lost_only' /\ Small(queue')
      BY <1>1, <2>1, LosePacketKeepsOne DEF CallsAgain
    <2>3. ~ CallsAgain'
      BY <2>1 DEF CallsAgain, MustDropMore
    <2> QED BY <2>2, <2>3, NextQueue DEF OnlyInv
  <1>6. CASE DropEnough \/ CodelReturn
    <2>1. UNCHANGED <<queue, lost_only>> /\ pc' \in {"return", "idle"}
      BY <1>6 DEF DropEnough, CodelReturn, vars, losses
    <2>2. ~ CallsAgain'
      BY <2>1 DEF CallsAgain, MustDropMore
    <2> QED BY <1>2, <2>1, <2>2, NextQueue DEF OnlyInv
  <1>7. CASE CodelTick
    BY <1>2, <1>7 DEF CodelTick, vars, codelVars, codel, locals, losses, OnlyInv, Small,
       CallsAgain, MustDropMore
  <1>8. ASSUME NEW size \in CodelSizes, CodelEnqueue(size)
        PROVE  OnlyInv'
    <2> DEFINE p == [id |-> arrived + 1, size |-> size, arrival |-> clock]
    <2>1. queue' = TailEnqueue(queue, p) /\ lost_only' = lost_only /\ pc' = "idle"
      BY <1>8 DEF CodelEnqueue, codelVars, locals, losses
    <2>2. /\ size \in Nat /\ size <= PacketSize /\ arrived \in Nat /\ clock \in Nat
          /\ Taken \in Nat /\ Holds(queue, Taken, arrived)
      BY CodelAssumption, AqmAssumption DEF IInv
    <2>3. p \in AnyPacket /\ p.size = size
      BY <2>2, MadePackets
    <2> HIDE DEF p
    <2>4. Small(Accept(queue, p))
      <3>1. Sums(Accept(queue, p).pkts, Accept(queue, p).bytes)
        BY <1>2, <2>2, <2>3, AcceptSums DEF Small
      <3>2. Accept(queue, p).pkts = Append(queue.pkts, p) /\ queue.pkts \in Seq(AnyPacket)
        BY <2>2 DEF Accept, Holds
      <3>3. \A i \in 1..Len(Append(queue.pkts, p)) :
              \/ Append(queue.pkts, p)[i] = p
              \/ i \in 1..Len(queue.pkts) /\ Append(queue.pkts, p)[i] = queue.pkts[i]
        BY <3>2
      <3> QED BY <1>2, <2>2, <2>3, <3>1, <3>2, <3>3 DEF Small
    <2>5. Small(queue')
      BY <1>2, <2>1, <2>4 DEF TailEnqueue
    <2>6. ~ CallsAgain'
      BY <2>1 DEF CallsAgain, MustDropMore
    <2> QED BY <1>2, <2>1, <2>5, <2>6, NextQueue DEF OnlyInv
  <1> QED BY <1>3, <1>4, <1>5, <1>6, <1>7, <1>8 DEF CodelNext

\* For all packet sizes up to PACKET_SIZE, targets and intervals, and however
\* the clock moves while dequeue() runs: CoDel never loses the only packet.
THEOREM CodelKeepsOnlyPacket == QueuesSpec => []OnlyPacketIsKept
  <1>1. QueuesInit => IInv /\ OnlyInv
    <2> SUFFICES ASSUME QueuesInit
                 PROVE  OnlyInv
      BY InitIInv
    <2>1. Small(EmptyQueue)
      <3>1. <<>> \in Seq(AnyPacket) /\ Len(<<>>) = 0
        OBVIOUS
      <3>2. [i \in {0} |-> 0] \in [0..0 -> Int] /\ [i \in {0} |-> 0][0] = 0
        OBVIOUS
      <3>3. \A i \in 1..0 : FALSE
        OBVIOUS
      <3>4. EmptyQueue.pkts = <<>> /\ EmptyQueue.bytes = 0
        BY DEF EmptyQueue
      <3>5. \E sums \in [0..0 -> Int] : sums[0] = 0
        BY <3>2
      <3>6. Sums(<<>>, 0)
        BY <3>1, <3>3, <3>5 DEF Sums
      <3> QED BY <3>1, <3>3, <3>4, <3>6 DEF Small
    <2>2. queue = EmptyQueue /\ ~ lost_only /\ ~ CallsAgain
      BY DEF QueuesInit, CodelInit, CallsAgain, MustDropMore
    <2> QED BY <2>1, <2>2 DEF OnlyInv
  <1>2. IInv /\ OnlyInv /\ [QueuesNext]_queuesVars => (IInv /\ OnlyInv)'
    <2>1. ASSUME IInv, OnlyInv, PassiveNext \/ PieNext, UNCHANGED codelVars
          PROVE  OnlyInv'
      <3>1. discipline # "codel" /\ discipline' = discipline
        BY <2>1, DisciplinesAssumption, DisciplineStays
           DEF PassiveNext, PieNext, PieDequeue, PieTick, PieArrive, PieEnqueue, QueuesNext
      <3> QED BY <2>1, <3>1 DEF OnlyInv, codelVars, losses
    <2>2. ASSUME OnlyInv, UNCHANGED queuesVars
          PROVE  OnlyInv'
      BY <2>2 DEF queuesVars, vars, codelVars, codel, locals, losses, OnlyInv, Small,
         CallsAgain, MustDropMore
    <2>3. PassiveNext => UNCHANGED codelVars
      BY DEF PassiveNext
    <2> QED BY <2>1, <2>2, <2>3, CodelKeepsOne, NextKeepsIInv DEF QueuesNext
  <1>3. OnlyInv => OnlyPacketIsKept
    BY DEF OnlyInv, OnlyPacketIsKept
  <1> QED BY <1>1, <1>2, <1>3, PTL DEF QueuesSpec
----
(***************************************************************************)
(* PIE, whose controller makes up for the updates it missed.               *)
(***************************************************************************)
\* Induction over the natural numbers, with a set in place of a predicate.
LEMMA Induction ==
  ASSUME NEW T, 0 \in T, \A n \in Nat : n \in T => n + 1 \in T
  PROVE  \A n \in Nat : n \in T
  <1> DEFINE others == {n \in Nat : n \notin T}
             R == OpToRel(<, Nat)
  <1> SUFFICES ASSUME others # {}
               PROVE  FALSE
    OBVIOUS
  <1>1. IsWellFoundedOn(R, Nat) /\ others \in SUBSET Nat
    BY NatLessThanWellFounded
  <1>2. PICK n \in others : \A m \in others : <<m, n>> \notin R
    BY <1>1, WFMin
  <1>3. n \in Nat /\ n \notin T /\ n # 0
    BY <1>2
  <1>4. n - 1 \in Nat /\ n - 1 < n /\ (n - 1) + 1 = n
    BY <1>3
  <1>5. n - 1 \in T
    <2>1. <<n - 1, n>> \in R
      BY <1>3, <1>4 DEF OpToRel
    <2> QED BY <1>2, <1>4, <2>1
  <1> QED BY <1>3, <1>4, <1>5

\* The updates that are due can be made one after the other.
LEMMA UpdatesExist ==
  ASSUME NEW s, NEW bytes, NEW due \in Nat
  PROVE  \E f : f = [n \in 0..due |-> IF n = 0 THEN s ELSE Update(f[n - 1], bytes)]
  <1> DEFINE Made(f, m) ==
               f = [n \in 0..m |-> IF n = 0 THEN s ELSE Update(f[n - 1], bytes)]
             T == {m \in Nat : \E f : Made(f, m)}
  <1>1. 0 \in T
    <2>1. Made([n \in 0..0 |-> s], 0)
      OBVIOUS
    <2> QED BY <2>1
  <1>2. ASSUME NEW m \in Nat, m \in T
        PROVE  m + 1 \in T
    <2>1. PICK f : Made(f, m)
      BY <1>2
    <2> DEFINE g == [n \in 0..(m + 1) |-> IF n = m + 1 THEN Update(f[m], bytes) ELSE f[n]]
    <2>2. \A n \in 0..m : f[n] = IF n = 0 THEN s ELSE Update(f[n - 1], bytes)
      BY <2>1
    <2>3. \A n \in 0..m : g[n] = f[n]
      OBVIOUS
    <2>4. ASSUME NEW n \in 0..(m + 1)
          PROVE  g[n] = IF n = 0 THEN s ELSE Update(g[n - 1], bytes)
      <3>1. CASE n = m + 1
        <4>1. n # 0 /\ n - 1 = m /\ g[n] = Update(f[m], bytes) /\ m \in 0..m
          BY <3>1
        <4>2. g[m] = f[m]
          BY <2>3, <4>1
        <4> HIDE DEF g
        <4> QED BY <4>1, <4>2
      <3>2. CASE n \in 0..m
        <4>1. n = 0 \/ n - 1 \in 0..m
          BY <3>2
        <4>2. g[n] = f[n] /\ (n # 0 => g[n - 1] = f[n - 1])
          BY <2>3, <3>2, <4>1
        <4> HIDE DEF g
        <4> QED BY <2>2, <3>2, <4>2
      <3> QED BY <3>1, <3>2
    <2>5. g = [n \in 0..(m + 1) |-> g[n]]
      OBVIOUS
    <2> HIDE DEF g
    <2>6. Made(g, m + 1)
      BY <2>4, <2>5
    <2> QED BY <2>6
  <1> HIDE DEF T
  <1>3. \A m \in Nat : m \in T
    BY <1>1, <1>2, Induction
  <1> QED BY <1>3 DEF T

\* So the controller does what its loop does, as often as its loop is entered.
LEMMA RecalculatedIs ==
  ASSUME NEW s, NEW bytes,
         NotNegative((clock - s.last_update - 1) \div TUpdate) \in Nat
  PROVE  \E f : /\ Recalculated(s, bytes)
                     = f[NotNegative((clock - s.last_update - 1) \div TUpdate)]
                /\ f[0] = s
                /\ \A n \in 1..NotNegative((clock - s.last_update - 1) \div TUpdate) :
                     f[n] = Update(f[n - 1], bytes)
  <1> DEFINE due == NotNegative((clock - s.last_update - 1) \div TUpdate)
             after == CHOOSE f : f = [n \in 0..due |->
                                        IF n = 0 THEN s ELSE Update(f[n - 1], bytes)]
  <1>1. Recalculated(s, bytes) = after[due]
    BY DEF Recalculated
  <1> HIDE DEF due
  <1>2. due \in Nat
    BY DEF due
  <1>3. after = [n \in 0..due |-> IF n = 0 THEN s ELSE Update(after[n - 1], bytes)]
    BY <1>2, UpdatesExist
  <1> HIDE DEF after
  <1>4. after[0] = s
    BY <1>2, <1>3
  <1>5. \A n \in 1..due : after[n] = Update(after[n - 1], bytes)
    BY <1>2, <1>3
  <1> QED BY <1>1, <1>4, <1>5 DEF due

PieState == [drop_prob : Int, burst_allowance : Nat, qdelay_old : Int,
             current_qdelay : Int, dq_count : Int, dq_tstamp : Int,
             avg_dq_rate : Int, last_update : Int, granted : Int]

\* Up to when the time has been measured.
MeasuredUntil(s, t) == IF s.dq_count = Invalid THEN t ELSE s.dq_tstamp

\* An allowance for a burst, less the time that was updated since it was given
\* and the time that was measured, is still there at time t.
Budget(s, t) ==
  /\ s \in PieState
  /\ s.granted <= s.last_update /\ s.last_update <= t /\ MeasuredUntil(s, t) <= t
  /\ s.burst_allowance + (s.last_update - s.granted) + (MeasuredUntil(s, t) - s.granted)
       >= MaxBurst

LEMMA PieConstants ==
  /\ MaxBurst \in Nat /\ TUpdate \in Nat \ {0} /\ PUnit \in Nat \ {0}
  /\ QdelayRef \in Int /\ DqThreshold \in Nat /\ Invalid = -1
  BY PieAssumption DEF Invalid

LEMMA BudgetLater ==
  ASSUME NEW s, NEW t \in Int, NEW t2 \in Int, t <= t2, Budget(s, t)
  PROVE  Budget(s, t2)
  BY PieConstants DEF Budget, MeasuredUntil, PieState

LEMMA Division ==
  /\ \A a \in Int, b \in Int : b > 0 => a \div b \in Int
  /\ \A a \in Nat, b \in Nat \ {0} : b * (a \div b) <= a /\ a \div b \in Nat
  <1>1. \A a \in Int, b \in Int : b > 0 => a \div b \in Int
    BY SMT
  <1>2. \A a \in Nat, b \in Nat \ {0} : b * (a \div b) <= a /\ a \div b \in Nat
    BY SMT
  <1> QED BY <1>1, <1>2

LEMMA AdjustmentIsInt ==
  ASSUME NEW s \in PieState, NEW delay \in Int
  PROVE  Adjustment(s, delay) \in Int
  <1> DEFINE divisor == CASE 100 * s.drop_prob < PUnit -> 128
                          [] 10 * s.drop_prob < PUnit -> 32
                          [] OTHER -> 16
             dividend == PUnit * ((delay - QdelayRef) + 10 * (delay - s.current_qdelay))
  <1>1. divisor \in {128, 32, 16}
    OBVIOUS
  <1>2. dividend \in Int
    <2>1. (delay - QdelayRef) + 10 * (delay - s.current_qdelay) \in Int
      BY PieConstants DEF PieState
    <2>2. \A a, b \in Int : a * b \in Int
      BY SMT
    <2> QED BY <2>1, <2>2, PieConstants
  <1>3. Adjustment(s, delay) = dividend \div (8 * divisor)
    BY DEF Adjustment
  <1> HIDE DEF divisor, dividend
  <1>4. 8 * divisor \in Int /\ 8 * divisor > 0
    BY <1>1
  <1> QED BY <1>2, <1>3, <1>4, Division

\* One update takes TUpdate from the allowance, or gives a new one.
LEMMA UpdateKeepsBudget ==
  ASSUME NEW s, NEW t \in Int, Budget(s, t), NEW bytes \in Int,
         s.last_update + TUpdate <= t
  PROVE  /\ Budget(Update(s, bytes), t)
         /\ Update(s, bytes).last_update = s.last_update + TUpdate
  <1> DEFINE delay == IF s.avg_dq_rate > 0 THEN bytes \div s.avg_dq_rate ELSE 0
             known == ~ (delay = 0 /\ bytes # 0)
             moved == s.drop_prob + Adjustment(s, delay)
             prob == Between(0, moved, PUnit)
             idle == delay = 0 /\ s.current_qdelay = 0 /\ known /\ moved <= PUnit
             dropped == IF idle THEN (98 * prob) \div 100 ELSE prob
             spent == NotNegative(s.burst_allowance - TUpdate)
             updated == [s EXCEPT !.qdelay_old = s.current_qdelay,
                                  !.current_qdelay = delay,
                                  !.drop_prob = dropped,
                                  !.burst_allowance = spent,
                                  !.last_update = s.last_update + TUpdate]
  <1>1. /\ s \in PieState
        /\ s.granted <= s.last_update /\ MeasuredUntil(s, t) <= t
        /\ s.burst_allowance + (s.last_update - s.granted)
             + (MeasuredUntil(s, t) - s.granted) >= MaxBurst
    BY DEF Budget
  <1>2. delay \in Int
    BY <1>1, Division DEF PieState
  <1>3. dropped \in Int
    <2>1. Adjustment(s, delay) \in Int
      <3> HIDE DEF delay
      <3> QED BY <1>1, <1>2, AdjustmentIsInt
    <2>2. moved \in Int
      <3> HIDE DEF delay
      <3> QED BY <1>1, <2>1 DEF PieState
    <2>3. prob \in Int
      <3> HIDE DEF moved
      <3> QED BY <2>2, PieConstants DEF Between
    <2> HIDE DEF prob, idle
    <2> QED BY <2>3
  <1>4. spent \in Nat /\ spent >= s.burst_allowance - TUpdate
    BY <1>1, PieConstants DEF NotNegative, PieState
  <1>5. Update(s, bytes) = updated \/ Update(s, bytes) = Grant(updated)
    BY DEF Update
  <1> HIDE DEF delay, dropped, spent
  <1>6. s.last_update + TUpdate \in Int
    BY <1>1, PieConstants DEF PieState
  <1>7. /\ updated \in PieState
        /\ updated.burst_allowance = spent /\ updated.granted = s.granted
        /\ updated.last_update = s.last_update + TUpdate
        /\ updated.dq_count = s.dq_count /\ updated.dq_tstamp = s.dq_tstamp
    BY <1>1, <1>2, <1>3, <1>4, <1>6 DEF PieState
  <1> HIDE DEF updated
  <1>8. /\ s.burst_allowance \in Int /\ s.last_update \in Int /\ s.granted \in Int
        /\ MeasuredUntil(s, t) \in Int
    BY <1>1 DEF PieState, MeasuredUntil
  <1>9. Budget(updated, t)
    <2>1. MeasuredUntil(updated, t) = MeasuredUntil(s, t)
      BY <1>7 DEF MeasuredUntil
    <2> QED BY <1>1, <1>4, <1>7, <1>8, <2>1, PieConstants DEF Budget
  <1>10. Budget(Grant(updated), t) /\ Grant(updated).last_update = updated.last_update
    <2> DEFINE g == Grant(updated)
    <2>1. /\ g \in PieState /\ g.dq_count = Invalid /\ g.burst_allowance = MaxBurst
          /\ g.granted = updated.last_update /\ g.last_update = updated.last_update
      <3>1. Invalid \in Int /\ MaxBurst \in Nat /\ updated.last_update \in Int
        BY <1>6, <1>7, PieConstants
      <3>2. g = [updated EXCEPT !.dq_count = Invalid, !.avg_dq_rate = 0,
                                !.burst_allowance = MaxBurst,
                                !.granted = updated.last_update]
        BY DEF Grant
      <3> HIDE DEF g
      <3>3. updated \in PieState
        BY <1>7
      <3>4. /\ g.dq_count = Invalid /\ g.burst_allowance = MaxBurst
            /\ g.granted = updated.last_update /\ g.last_update = updated.last_update
        BY <3>2, <3>3 DEF PieState
      <3>5. g = [drop_prob |-> updated.drop_prob, burst_allowance |-> MaxBurst,
                 qdelay_old |-> updated.qdelay_old,
                 current_qdelay |-> updated.current_qdelay,
                 dq_count |-> Invalid, dq_tstamp |-> updated.dq_tstamp,
                 avg_dq_rate |-> 0, last_update |-> updated.last_update,
                 granted |-> updated.last_update]
        BY <3>2, <3>3 DEF PieState
      <3>6. g \in PieState
        <4>1. /\ updated.drop_prob \in Int /\ updated.qdelay_old \in Int
              /\ updated.current_qdelay \in Int /\ updated.dq_tstamp \in Int
              /\ 0 \in Int
          BY <3>3 DEF PieState
        <4> QED BY <3>1, <3>5, <4>1 DEF PieState
      <3> QED BY <3>4, <3>6
    <2> HIDE DEF g
    <2>2. MeasuredUntil(g, t) = t
      BY <2>1 DEF MeasuredUntil
    <2>3. updated.last_update \in Int /\ updated.last_update <= t
      BY <1>6, <1>7
    <2>4. Budget(g, t)
      BY <2>1, <2>2, <2>3, PieConstants DEF Budget
    <2> QED BY <2>1, <2>4 DEF g
  <1> QED BY <1>5, <1>7, <1>9, <1>10

\* So do all that are due: the last is made for a time that has passed.
LEMMA RecalculatedKeepsBudget ==
  ASSUME clock \in Nat, NEW s, Budget(s, clock), NEW bytes \in Int
  PROVE  Budget(Recalculated(s, bytes), clock)
  <1> DEFINE elapsed == clock - s.last_update - 1
             due == NotNegative(elapsed \div TUpdate)
  <1>1. s.last_update \in Int /\ s.last_update <= clock
    BY DEF Budget, PieState
  <1>2. elapsed \in Int /\ elapsed >= -1
    BY <1>1
  <1>3. due \in Nat /\ s.last_update + due * TUpdate <= clock
    <2> HIDE DEF elapsed
    <2>1. CASE elapsed \in Nat
      <3>1. elapsed \div TUpdate \in Nat /\ TUpdate * (elapsed \div TUpdate) <= elapsed
        BY <2>1, Division, PieConstants
      <3>2. due = elapsed \div TUpdate
        BY <3>1 DEF NotNegative
      <3>3. due * TUpdate = TUpdate * due /\ TUpdate * due \in Nat
        <4>1. \A a, b \in Nat : a * b = b * a /\ a * b \in Nat
          BY SMT
        <4> QED BY <3>1, <3>2, <4>1, PieConstants
      <3> HIDE DEF due
      <3>4. due * TUpdate <= elapsed /\ due * TUpdate \in Nat
        BY <3>1, <3>2, <3>3
      <3> QED BY <1>1, <2>1, <3>1, <3>2, <3>4 DEF elapsed
    <2>2. CASE elapsed = -1
      <3>1. (-1) \div TUpdate <= 0
        BY PieConstants, SMT
      <3>2. due = 0
        <4>1. (-1) \div TUpdate \in Int
          BY Division, PieConstants
        <4> QED BY <2>2, <3>1, <4>1 DEF NotNegative
      <3>3. 0 * TUpdate = 0
        BY PieConstants
      <3> HIDE DEF due
      <3> QED BY <1>1, <3>2, <3>3
    <2> QED BY <1>2, <2>1, <2>2
  <1>4. PICK f : /\ Recalculated(s, bytes) = f[due] /\ f[0] = s
                 /\ \A n \in 1..due : f[n] = Update(f[n - 1], bytes)
    <2>1. due \in Nat
      BY <1>3
    <2> QED BY <2>1, RecalculatedIs
  <1> HIDE DEF due, elapsed
  <1> DEFINE T == {n \in Nat : n <= due =>
                     Budget(f[n], clock) /\ f[n].last_update = s.last_update + n * TUpdate}
  <1>5. 0 \in T
    <2>1. 0 * TUpdate = 0
      BY PieConstants
    <2> QED BY <1>1, <1>4, <2>1
  <1>6. ASSUME NEW n \in Nat, n \in T
        PROVE  n + 1 \in T
    <2> SUFFICES ASSUME n + 1 <= due
                 PROVE  /\ Budget(f[n + 1], clock)
                        /\ f[n + 1].last_update = s.last_update + (n + 1) * TUpdate
      OBVIOUS
    <2>1. n <= due /\ n + 1 \in 1..due /\ (n + 1) - 1 = n
      BY <1>3
    <2>2. /\ Budget(f[n], clock) /\ f[n].last_update = s.last_update + n * TUpdate
          /\ f[n + 1] = Update(f[n], bytes)
      BY <1>4, <1>6, <2>1
    <2>3. /\ (n + 1) * TUpdate = n * TUpdate + TUpdate
          /\ (n + 1) * TUpdate <= due * TUpdate
          /\ n * TUpdate \in Nat /\ due * TUpdate \in Nat
      <3>1. \A a, b \in Nat : a * b \in Nat /\ (a + 1) * b = a * b + b
        BY SMT
      <3>2. \A a, b, c \in Nat : a <= c => a * b <= c * b
        BY SMT
      <3> QED BY <1>3, <3>1, <3>2, PieConstants
    <2>4. f[n].last_update + TUpdate = s.last_update + (n + 1) * TUpdate
      BY <1>1, <2>2, <2>3, PieConstants
    <2>5. f[n].last_update + TUpdate <= clock
      BY <1>1, <1>3, <2>3, <2>4, PieConstants
    <2>6. /\ Budget(Update(f[n], bytes), clock)
          /\ Update(f[n], bytes).last_update = f[n].last_update + TUpdate
      BY <2>2, <2>5, UpdateKeepsBudget
    <2> QED BY <2>2, <2>4, <2>6
  <1> HIDE DEF T
  <1>7. due \in T
    BY <1>3, <1>5, <1>6, Induction
  <1> QED BY <1>3, <1>4, <1>7 DEF T

\* The state with another count and time of its measurement.
Restamped(s, n, t) == [s EXCEPT !.dq_count = n, !.dq_tstamp = t]

\* Restarting the measurement changes its count and its time only.
LEMMA RestampedState ==
  ASSUME NEW s \in PieState, NEW n \in Int, NEW t \in Int
  PROVE  /\ Restamped(s, n, t) \in PieState
         /\ Restamped(s, n, t).dq_count = n /\ Restamped(s, n, t).dq_tstamp = t
         /\ Restamped(s, n, t).granted = s.granted
         /\ Restamped(s, n, t).last_update = s.last_update
         /\ Restamped(s, n, t).burst_allowance = s.burst_allowance
  <1> DEFINE m == Restamped(s, n, t)
  <1>0. m = [s EXCEPT !.dq_count = n, !.dq_tstamp = t]
    BY DEF Restamped
  <1> HIDE DEF m
  <1>1. m = [drop_prob |-> s.drop_prob, burst_allowance |-> s.burst_allowance,
             qdelay_old |-> s.qdelay_old, current_qdelay |-> s.current_qdelay,
             dq_count |-> n, dq_tstamp |-> t,
             avg_dq_rate |-> s.avg_dq_rate, last_update |-> s.last_update,
             granted |-> s.granted]
    BY <1>0 DEF PieState
  <1>2. /\ s.drop_prob \in Int /\ s.burst_allowance \in Nat /\ s.qdelay_old \in Int
        /\ s.current_qdelay \in Int /\ s.avg_dq_rate \in Int
        /\ s.last_update \in Int /\ s.granted \in Int
    BY DEF PieState
  <1>3. m \in PieState
    BY <1>1, <1>2 DEF PieState
  <1>4. /\ m.dq_count = n /\ m.dq_tstamp = t /\ m.granted = s.granted
        /\ m.last_update = s.last_update /\ m.burst_allowance = s.burst_allowance
    BY <1>1
  <1> QED BY <1>3, <1>4 DEF m

\* A measurement takes what it lasted, and begins where the last one ended or
\* later.
LEMMA MeasuredKeepsBudget ==
  ASSUME clock \in Nat, NEW s, Budget(s, clock), NEW size \in Nat, NEW bytes \in Int
  PROVE  Budget(Measured(s, size, bytes), clock)
  <1> DEFINE starts == bytes >= DqThreshold /\ s.dq_count = Invalid
             m == IF starts THEN [s EXCEPT !.dq_count = size, !.dq_tstamp = clock]
                  ELSE IF s.dq_count = Invalid THEN s
                       ELSE [s EXCEPT !.dq_count = s.dq_count + size]
             dtime == clock - m.dq_tstamp
             sample == m.dq_count \div dtime
             rate == IF m.avg_dq_rate = 0 THEN sample
                     ELSE m.avg_dq_rate - m.avg_dq_rate \div 8 + sample \div 8
             e == [Restarted(m, bytes) EXCEPT
                     !.avg_dq_rate = rate,
                     !.burst_allowance = NotNegative(Restarted(m, bytes).burst_allowance - dtime)]
  <1>0. clock \in Int /\ size \in Int /\ 0 \in Int
    OBVIOUS
  <1>1. /\ s \in PieState /\ s.dq_count \in Int /\ s.dq_tstamp \in Int
        /\ s.granted \in Int /\ s.last_update \in Int /\ s.burst_allowance \in Nat
        /\ s.granted <= s.last_update /\ s.last_update <= clock
        /\ MeasuredUntil(s, clock) <= clock
        /\ s.burst_allowance + (s.last_update - s.granted)
             + (MeasuredUntil(s, clock) - s.granted) >= MaxBurst
    BY DEF Budget, PieState
  <1>2. Measured(s, size, bytes) = m
          \/ (Measured(s, size, bytes) = e /\ m.dq_count > DqThreshold /\ dtime > 0)
    BY DEF Measured
  <1>3. Budget(m, clock)
    <2>1. CASE starts
      <3>1. m = Restamped(s, size, clock)
        BY <2>1 DEF Restamped
      <3> HIDE DEF m
      <3>2. s \in PieState
        BY <1>1
      <3>3. /\ m \in PieState /\ m.dq_count = size /\ m.dq_tstamp = clock
            /\ m.granted = s.granted /\ m.last_update = s.last_update
            /\ m.burst_allowance = s.burst_allowance
        BY ONLY <1>0, <3>1, <3>2, RestampedState
      <3>4. MeasuredUntil(m, clock) = clock /\ MeasuredUntil(s, clock) = clock
        BY <2>1, <3>3 DEF MeasuredUntil
      <3> QED BY <1>1, <3>3, <3>4 DEF Budget
    <2>2. CASE ~ starts /\ s.dq_count = Invalid
      BY <2>2
    <2>3. CASE ~ starts /\ s.dq_count # Invalid
      <3>1. m = [s EXCEPT !.dq_count = s.dq_count + size]
        BY <2>3
      <3> HIDE DEF m
      <3>2. m \in PieState
        BY <1>1, <3>1 DEF PieState
      <3>3. /\ m.dq_tstamp = s.dq_tstamp /\ m.granted = s.granted
            /\ m.last_update = s.last_update /\ m.burst_allowance = s.burst_allowance
        BY <1>1, <3>1 DEF PieState
      <3>4. /\ MeasuredUntil(s, clock) = s.dq_tstamp
            /\ MeasuredUntil(m, clock) \in {clock, s.dq_tstamp}
        BY <2>3, <3>3 DEF MeasuredUntil
      <3> QED BY <1>1, <3>2, <3>3, <3>4, PieConstants DEF Budget
    <2> QED BY <2>1, <2>2, <2>3
  <1> HIDE DEF m
  <1>4. ASSUME m.dq_count > DqThreshold, dtime > 0
        PROVE  Budget(e, clock)
    <2>1. /\ m \in PieState /\ m.dq_count \in Int /\ m.dq_tstamp \in Int
          /\ m.granted \in Int /\ m.last_update \in Int /\ m.burst_allowance \in Nat
          /\ m.avg_dq_rate \in Int
          /\ m.granted <= m.last_update /\ m.last_update <= clock
          /\ m.burst_allowance + (m.last_update - m.granted)
               + (MeasuredUntil(m, clock) - m.granted) >= MaxBurst
      BY <1>3 DEF Budget, PieState
    <2>2. MeasuredUntil(m, clock) = m.dq_tstamp
      BY <1>4, <2>1, PieConstants DEF MeasuredUntil
    <2>3. dtime \in Int
      BY <2>1
    <2>4. rate \in Int
      <3>1. sample \in Int
        BY <1>4, <2>1, <2>3, Division
      <3> HIDE DEF sample, dtime
      <3>2. sample \div 8 \in Int /\ m.avg_dq_rate \div 8 \in Int
        BY <2>1, <3>1, Division
      <3> QED BY <2>1, <3>1, <3>2
    <2> DEFINE r1 == Restarted(m, bytes)
    <2>5. /\ r1 \in PieState /\ r1.granted = m.granted
          /\ r1.last_update = m.last_update /\ r1.burst_allowance = m.burst_allowance
          /\ r1.dq_count = Invalid \/ r1.dq_tstamp = clock
      <3>1. CASE bytes < DqThreshold
        <4>1. r1 = [m EXCEPT !.dq_count = Invalid]
          BY <3>1 DEF Restarted
        <4>2. Invalid \in Int
          BY PieConstants
        <4> HIDE DEF r1
        <4> QED BY <2>1, <4>1, <4>2 DEF PieState
      <3>2. CASE ~ (bytes < DqThreshold)
        <4>1. r1 = Restamped(m, 0, clock)
          BY <3>2 DEF Restarted, Restamped
        <4> HIDE DEF r1
        <4>2. m \in PieState
          BY <2>1
        <4>3. /\ r1 \in PieState /\ r1.dq_count = 0 /\ r1.dq_tstamp = clock
              /\ r1.granted = m.granted /\ r1.last_update = m.last_update
              /\ r1.burst_allowance = m.burst_allowance
          BY ONLY <1>0, <4>1, <4>2, RestampedState
        <4> QED BY <4>3
      <3> QED BY <3>1, <3>2
    <2> DEFINE left == NotNegative(r1.burst_allowance - dtime)
    <2>6. left \in Nat /\ left >= m.burst_allowance - dtime
      <3> HIDE DEF dtime, r1
      <3> QED BY <2>1, <2>3, <2>5 DEF NotNegative
    <2>7. e = [r1 EXCEPT !.avg_dq_rate = rate, !.burst_allowance = left]
      OBVIOUS
    <2> HIDE DEF r1, left, rate, e
    <2>8. e \in PieState
      BY <2>4, <2>5, <2>6, <2>7 DEF PieState
    <2>9. /\ e.granted = m.granted /\ e.last_update = m.last_update
          /\ e.burst_allowance = left
          /\ e.dq_count = Invalid \/ e.dq_tstamp = clock
      BY <2>5, <2>7 DEF PieState
    <2>10. MeasuredUntil(e, clock) = clock
      BY <2>9 DEF MeasuredUntil
    <2> QED BY <2>1, <2>2, <2>6, <2>8, <2>9, <2>10, PieConstants DEF Budget
  <1> QED BY <1>2, <1>3, <1>4

\* The inductive invariant of a PIE queue.
PieInv ==
  /\ discipline # "pie" => ~ early
  /\ discipline = "pie" => Budget(pie, clock)
  /\ PieSparesBursts

\* An arrival is dropped early only when nothing is left of the allowance, of
\* which updates and measurements took no more than the time, each.
LEMMA SpentBudget ==
  ASSUME NEW s, NEW t \in Nat, Budget(s, t), s.burst_allowance = 0
  PROVE  2 * (t - s.granted) >= MaxBurst
  <1>1. /\ s.granted \in Int /\ s.last_update \in Int /\ MeasuredUntil(s, t) \in Int
        /\ s.last_update <= t /\ MeasuredUntil(s, t) <= t
        /\ 0 + (s.last_update - s.granted) + (MeasuredUntil(s, t) - s.granted) >= MaxBurst
    BY DEF Budget, PieState, MeasuredUntil
  <1> QED BY <1>1, PieConstants

LEMMA PieStepKeeps ==
  ASSUME IInv, PieInv, PieNext
  PROVE  PieInv'
  <1>1. discipline = "pie" /\ discipline' = "pie"
    BY DEF PieNext, PieDequeue, PieTick, PieArrive, PieEnqueue, vars
  <1>2. clock \in Nat /\ Budget(pie, clock) /\ queue.bytes \in Int
    BY <1>1 DEF IInv, PieInv, Holds
  <1>3. Budget(pie, clock)' <=> Budget(pie', clock')
    BY DEF Budget, MeasuredUntil
  <1>4. CASE PieDequeue
    <2>1. /\ ~ IsEmpty(queue) /\ queue' = Dequeued(queue) /\ clock' = clock /\ ~ early'
          /\ pie' = Recalculated(Measured(pie, Front(queue).size, queue'.bytes),
                                 queue'.bytes)
      BY <1>4 DEF PieDequeue
    <2>2. Front(queue).size \in Nat /\ queue'.bytes \in Int
      <3>1. Taken \in Nat /\ arrived \in Nat /\ Holds(queue, Taken, arrived)
        BY DEF IInv
      <3> QED BY <2>1, <3>1, DequeueHolds, PacketTypes DEF Holds
    <2>3. Budget(pie', clock)
      BY <1>2, <2>1, <2>2, MeasuredKeepsBudget, RecalculatedKeepsBudget
    <2> QED BY <1>1, <1>3, <2>1, <2>3 DEF PieInv, PieSparesBursts
  <1>5. CASE PieTick
    <2>1. clock' = clock + 1 /\ pie' = pie /\ ~ early'
      BY <1>5 DEF PieTick, Tick
    <2>2. Budget(pie, clock + 1)
      BY <1>2, BudgetLater
    <2> QED BY <1>1, <1>3, <2>1, <2>2 DEF PieInv, PieSparesBursts
  <1>6. ASSUME NEW size \in PieSizes, PieArrive(size)
        PROVE  PieInv'
    <2>1. /\ clock' = clock /\ pie' = Recalculated(pie, queue.bytes)
          /\ early' = FALSE \/ MayDrop(pie')
      BY <1>6 DEF PieArrive, PieEnqueue
    <2>2. Budget(pie', clock)
      BY <1>2, <2>1, RecalculatedKeepsBudget
    <2>3. early' => 2 * (clock' - pie'.granted) >= MaxBurst
      <3>1. MayDrop(pie') => pie'.burst_allowance = 0
        <4>1. pie'.burst_allowance \in Nat
          BY <2>2 DEF Budget, PieState
        <4> QED BY <4>1 DEF MayDrop, Spared
      <3> QED BY <1>2, <2>1, <2>2, <3>1, SpentBudget
    <2> QED BY <1>1, <1>3, <2>1, <2>2, <2>3 DEF PieInv, PieSparesBursts
  <1> QED BY <1>4, <1>5, <1>6 DEF PieNext

\* For all parameters of PIE, all arrivals and departures, and however long the
\* controller was not called: an allowance spares every packet from an early
\* drop for half its time at least.
THEOREM PieSparesEveryBurst == QueuesSpec => []PieSparesBursts
  <1>1. QueuesInit => IInv /\ PieInv
    <2> SUFFICES ASSUME QueuesInit
                 PROVE  PieInv
      BY InitIInv
    <2>1. early = FALSE /\ clock = 0
          /\ pie = [drop_prob |-> 0, burst_allowance |-> 0, qdelay_old |-> 0,
                    current_qdelay |-> 0, dq_count |-> Invalid, dq_tstamp |-> 0,
                    avg_dq_rate |-> 0, last_update |-> 0, granted |-> - MaxBurst]
      BY DEF QueuesInit, PieInit
    <2>2. - MaxBurst \in Int /\ - MaxBurst <= 0
      BY PieConstants
    <2>3. pie \in PieState
      BY <2>1, <2>2, PieConstants DEF PieState
    <2>4. MeasuredUntil(pie, 0) = 0
      BY <2>1 DEF MeasuredUntil
    <2>5. Budget(pie, 0)
      BY <2>1, <2>2, <2>3, <2>4, PieConstants DEF Budget
    <2> QED BY <2>1, <2>5 DEF PieInv, PieSparesBursts
  <1>2. IInv /\ PieInv /\ [QueuesNext]_queuesVars => (IInv /\ PieInv)'
    <2>1. ASSUME IInv, PieInv, PassiveNext \/ CodelNext, UNCHANGED pieVars
          PROVE  PieInv'
      <3>1. discipline # "pie" /\ discipline' = discipline
        <4>1. discipline # "pie"
          BY <2>1, DisciplinesAssumption
             DEF PassiveNext, CodelNext, CodelDequeue, DropMore, MustDropMore, DropEnough,
                 EnterDropping, CodelReturn, CodelTick, CodelEnqueue, IInv
        <4>2. [QueuesNext]_queuesVars
          BY <2>1 DEF QueuesNext
        <4> QED BY <2>1, <4>1, <4>2, DisciplineStays
      <3> QED BY <2>1, <3>1 DEF PieInv, PieSparesBursts, pieVars
    <2>2. ASSUME PieInv, UNCHANGED queuesVars
          PROVE  PieInv'
      BY <2>2 DEF queuesVars, vars, pieVars, PieInv, PieSparesBursts, Budget, MeasuredUntil
    <2>3. PassiveNext => UNCHANGED pieVars
      BY DEF PassiveNext
    <2> QED BY <2>1, <2>2, <2>3, PieStepKeeps, NextKeepsIInv DEF QueuesNext
  <1>3. PieInv => PieSparesBursts
    BY DEF PieInv
  <1> QED BY <1>1, <1>2, <1>3, PTL DEF QueuesSpec
====

---- MODULE LinkQueue ----
(***************************************************************************)
(* One direction of an emulated link (mm-link): a trace of delivery        *)
(* opportunities is replayed against a packet queue.  read_packet() and    *)
(* wait_time() first bring the link up to the present (rationalize), one   *)
(* opportunity at a time; the loops of rationalize() are steps of their    *)
(* own here, between the call and the return of the method, and no other   *)
(* method runs meanwhile, as the code is single-threaded.  The clock is    *)
(* CLOCK_REALTIME: it may jump, forward or back, at any moment.            *)
(***************************************************************************)
EXTENDS PacketQueue

CONSTANTS Schedule,     \* schedule_: the trace, in ms
          Repeat,       \* repeat_
          PacketSize,   \* PACKET_SIZE, the bytes of one opportunity
          Sizes,        \* the packet sizes that the TUN device hands over
          Ecns,         \* the ECN fields of those packets
          MaxArrivals,  \* bound on the packets of a run
          MaxClock      \* bound on the clock

ASSUME ScheduleAssumption ==
  /\ Schedule \in Seq(Nat) /\ Len(Schedule) > 0
  /\ \A i, j \in 1..Len(Schedule) : i <= j => Schedule[i] <= Schedule[j]
  /\ Schedule[Len(Schedule)] > 0
ASSUME LinkAssumption ==
  /\ Repeat \in BOOLEAN
  /\ PacketSize \in Nat \ {0}
  /\ Sizes \subseteq 1..PacketSize
  /\ MaxArrivals \in Nat /\ MaxClock \in Nat

VARIABLES clock,          \* timestamp()
          base,           \* base_timestamp_
          next_delivery,  \* index into the trace, from 0
          finished,       \* finished_
          queue,          \* packet_queue_
          transit,        \* packet_in_transit_
          left,           \* packet_in_transit_bytes_left_
          output,         \* output_queue_
          call,           \* the method that runs, with its local now
          opp,            \* rationalize()'s this_delivery_time and its bytes left
          arrived,        \* history: packets read
          last,           \* history: id of the last packet fully sent
          used            \* history: opportunities used

trace == <<base, next_delivery, finished, used>>
packets == <<queue, transit, left, output, last>>
vars == <<clock, trace, packets, call, opp, arrived>>

NoPacket == [id |-> 0, size |-> 0, ecn |-> "none", arrival |-> 0, due |-> 0]
NoCall == [op |-> "none", now |-> 0, size |-> 0, ecn |-> "none"]
NoOpp == [time |-> 0, left |-> 0, open |-> FALSE]

Init ==
  /\ clock = 0
  /\ base = 0 /\ next_delivery = 0 /\ finished = FALSE /\ used = 0
  /\ queue = EmptyQueue /\ transit = NoPacket /\ left = 0
  /\ output = <<>> /\ last = 0
  /\ call = NoCall /\ opp = NoOpp /\ arrived = 0

\* Meaningful until the trace is over; then it is never due again.
NextDeliveryTime == base + Schedule[next_delivery + 1]
IsDue(now) == ~ finished /\ NextDeliveryTime <= now

\* History: the opportunity in which a packet leaves if none ahead of it is
\* dropped and no opportunity is wasted.
Ceiling(n, d) == (n + d - 1) \div d
DueOpportunity(size) == used + Ceiling(queue.bytes + left + size, PacketSize)
----
Tick ==
  /\ \E t \in 0..MaxClock : clock' = t
  /\ UNCHANGED <<trace, packets, call, opp, arrived>>

\* read_packet() and wait_time() read the clock once, on entry.
ReadPacket(size, ecn) ==
  /\ call = NoCall
  /\ arrived < MaxArrivals
  /\ call' = [op |-> "read_packet", now |-> clock, size |-> size, ecn |-> ecn]
  /\ UNCHANGED <<clock, trace, packets, opp, arrived>>

WaitTime ==
  /\ call = NoCall
  /\ call' = [NoCall EXCEPT !.op = "wait_time", !.now = clock]
  /\ UNCHANGED <<clock, trace, packets, opp, arrived>>

\* rationalize(): the head of its outer loop, with use_a_delivery_opportunity().
UseOpportunity ==
  /\ call # NoCall /\ ~ opp.open
  /\ IsDue(call.now)
  /\ opp' = [time |-> NextDeliveryTime, left |-> PacketSize, open |-> TRUE]
  /\ next_delivery' = (next_delivery + 1) % Len(Schedule)
  /\ base' = IF next_delivery' = 0 /\ Repeat
             THEN base + Schedule[Len(Schedule)] ELSE base
  /\ finished' = (next_delivery' = 0 /\ ~ Repeat)
  /\ used' = used + 1
  /\ UNCHANGED <<clock, packets, call, arrived>>

\* rationalize(): take the next packet from the queue; ret is what dequeue()
\* returns.
StartPacket(ret) ==
  /\ opp.open /\ opp.left > 0
  /\ left = 0 /\ ~ IsEmpty(queue)
  /\ queue' = Dequeued(queue)
  /\ transit' = ret
  /\ left' = ret.size
  /\ UNCHANGED <<clock, trace, output, last, call, opp, arrived>>

\* rationalize(): how many bytes of the opportunity the packet can use.
AmountToSend == IF opp.left < left THEN opp.left ELSE left

\* Slip: the opportunity is not charged for what is sent.
SendForFree ==
  /\ opp.open /\ opp.left > 0 /\ left > 0
  /\ left' = left - AmountToSend
  /\ output' = IF left' = 0 THEN Append(output, transit) ELSE output
  /\ last' = IF left' = 0 THEN transit.id ELSE last
  /\ UNCHANGED <<clock, trace, queue, transit, call, opp, arrived>>

SendBytes ==
  /\ opp.open /\ opp.left > 0 /\ left > 0
  /\ left' = left - AmountToSend
  /\ opp' = [opp EXCEPT !.left = @ - AmountToSend]
  /\ output' = IF left' = 0 THEN Append(output, transit) ELSE output
  /\ last' = IF left' = 0 THEN transit.id ELSE last
  /\ UNCHANGED <<clock, trace, queue, transit, call, arrived>>

\* rationalize(): the inner loop ends, its bytes used up or nothing to send.
EndOpportunity ==
  /\ opp.open
  /\ opp.left = 0 \/ (left = 0 /\ IsEmpty(queue))
  /\ opp' = NoOpp
  /\ UNCHANGED <<clock, trace, packets, call, arrived>>

Rationalized == call # NoCall /\ ~ opp.open /\ ~ IsDue(call.now)

\* Slip: read_packet() does not bring the link up to date first.
EnqueueAtOnce ==
  /\ call.op = "read_packet" /\ ~ opp.open
  /\ queue' = TailEnqueue(queue, [id |-> arrived + 1, size |-> call.size,
                                  ecn |-> call.ecn, arrival |-> call.now,
                                  due |-> DueOpportunity(call.size)])
  /\ arrived' = arrived + 1
  /\ call' = NoCall
  /\ UNCHANGED <<clock, trace, transit, left, output, last, opp>>

\* read_packet(): the packet joins the queue once the link is up to date.
EnqueuePacket ==
  /\ Rationalized /\ call.op = "read_packet"
  /\ queue' = TailEnqueue(queue, [id |-> arrived + 1, size |-> call.size,
                                  ecn |-> call.ecn, arrival |-> call.now,
                                  due |-> DueOpportunity(call.size)])
  /\ arrived' = arrived + 1
  /\ call' = NoCall
  /\ UNCHANGED <<clock, trace, transit, left, output, last, opp>>

ReturnWait ==
  /\ Rationalized /\ call.op = "wait_time"
  /\ call' = NoCall
  /\ UNCHANGED <<clock, trace, packets, opp, arrived>>

WritePackets ==
  /\ call = NoCall
  /\ output' = <<>>
  /\ UNCHANGED <<clock, trace, queue, transit, left, last, call, opp, arrived>>

\* The steps a method takes on its own once it has been called.
Running ==
  UseOpportunity \/ StartPacket(Front(queue)) \/ SendBytes \/ EndOpportunity
    \/ EnqueuePacket \/ ReturnWait

Next ==
  \/ Tick
  \/ \E size \in Sizes, ecn \in Ecns : ReadPacket(size, ecn)
  \/ WaitTime
  \/ Running
  \/ WritePackets

Spec == Init /\ [][Next]_vars /\ WF_vars(Running)
----
EcnFields == Ecns \cup {"none", "ce"}   \* a router may mark
Packets == [id : Nat, size : 0..PacketSize, ecn : EcnFields, arrival : Nat,
            due : Int]

\* Every variable keeps the type its declaration gives it.
TypeOK ==
  /\ clock \in Nat /\ base \in Nat
  /\ next_delivery \in 0..(Len(Schedule) - 1) /\ finished \in BOOLEAN
  /\ queue \in [pkts : Seq(Packets), bytes : Int, packets : Int]
  /\ transit \in Packets /\ left \in 0..PacketSize
  /\ output \in Seq(Packets)
  /\ call \in [op : {"none", "read_packet", "wait_time"}, now : Nat,
               size : 0..PacketSize, ecn : EcnFields]
  /\ opp \in [time : Nat, left : 0..PacketSize, open : BOOLEAN]
  /\ arrived \in Nat /\ last \in Nat /\ used \in Nat

Queued == {queue.pkts[i] : i \in 1..Len(queue.pkts)}
Unsent == Queued \cup (IF left > 0 THEN {transit} ELSE {})

\* No packet waits for an opportunity that came before it: while the trace
\* lasts, every packet that is queued or in transit arrived strictly before the
\* next opportunity, although the clock may step back between two calls.  This
\* is why read_packet() calls rationalize() before it enqueues.
NoPacketIsLate ==
  ~ finished => \A p \in Unsent : p.arrival < NextDeliveryTime

\* The assertions of rationalize() (link_queue.cc:215-218) hold whenever they
\* are reached: the packet being sent arrived by the time of the opportunity
\* that sends it, and some of its bytes, no more than it has, are left.
AssertionsHold ==
  opp.open /\ opp.left > 0 /\ left > 0 =>
    /\ transit.arrival <= opp.time
    /\ left <= PacketSize
    /\ left <= transit.size

\* No opportunity is wasted and none is counted twice: a packet finishes in the
\* opportunity computed, when it arrived, from the bytes ahead of it (the
\* droptail and infinite queues drop nothing that was admitted).
LeavesWhenDue == [][last' # last => used = transit.due]_vars
====

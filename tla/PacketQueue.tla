---- MODULE PacketQueue ----
(***************************************************************************)
(* The packet queue every emulated link owns, as operators on its state: a *)
(* sequence of packets with the byte and packet counters that              *)
(* DroppingPacketQueue maintains beside it.  Packets carry a serial number *)
(* id, which the code has no need of and the properties do.                *)
(***************************************************************************)
EXTENDS Integers, Sequences

CONSTANTS PacketLimit,   \* packet_limit_, 0 for none
          ByteLimit      \* byte_limit_, 0 for none

ASSUME LimitsAssumption == PacketLimit \in Nat /\ ByteLimit \in Nat

(***************************************************************************)
(* A queue with neither limit is InfinitePacketQueue: DroppingPacketQueue's *)
(* constructor refuses it.                                                 *)
(***************************************************************************)
EmptyQueue == [pkts |-> <<>>, bytes |-> 0, packets |-> 0]

IsEmpty(q) == q.pkts = <<>>

GoodWith(bytes, packets) ==
  /\ ByteLimit # 0 => bytes <= ByteLimit
  /\ PacketLimit # 0 => packets <= PacketLimit

Good(q) == GoodWith(q.bytes, q.packets)

\* accept: put a packet on the back of the queue.
Accept(q, p) == [pkts    |-> Append(q.pkts, p),
                 bytes   |-> q.bytes + p.size,
                 packets |-> q.packets + 1]

\* dequeue: the packet it returns is Front(q), the queue it leaves Dequeued(q).
Front(q) == Head(q.pkts)

\* Slip: the packet is taken from the wrong end.
DequeuedAtBack(q) == [pkts    |-> SubSeq(q.pkts, 1, Len(q.pkts) - 1),
                      bytes   |-> q.bytes - Front(q).size,
                      packets |-> q.packets - 1]

Dequeued(q) == [pkts    |-> Tail(q.pkts),
                bytes   |-> q.bytes - Front(q).size,
                packets |-> q.packets - 1]

\* The admission test of droptail and of the AQM queues built on it.
HasRoomFor(q, p) == GoodWith(q.bytes + p.size, q.packets + 1)

TailEnqueue(q, p) == IF HasRoomFor(q, p) THEN Accept(q, p) ELSE q
====

---- MODULE DroppingQueue ----
(***************************************************************************)
(* The infinite, droptail and drophead queues as a component: any sequence *)
(* of enqueue and dequeue calls a link can make.  assert() is live in the  *)
(* build, so a failed assertion ends the process: aborted.                 *)
(***************************************************************************)
EXTENDS PacketQueue

CONSTANTS Disciplines,   \* of "infinite", "droptail" and "drophead"
          Sizes,         \* the packet sizes that arrive
          MaxArrivals    \* bound on the packets of a run

ASSUME DisciplinesAssumption ==
  /\ Disciplines \subseteq {"infinite", "droptail", "drophead"}
  /\ PacketLimit > 0 \/ ByteLimit > 0
ASSUME SizesAssumption == Sizes \subseteq Nat \ {0} /\ MaxArrivals \in Nat

VARIABLES discipline, \* the class of the queue, chosen when the link is made
          queue,     \* internal_queue_ and its two counters
          aborted,   \* an assertion has failed
          arrived,   \* history: packets that were enqueued
          last       \* history: id of the last packet dequeue() returned

vars == <<discipline, queue, aborted, arrived, last>>

Init ==
  /\ discipline \in Disciplines
  /\ queue = EmptyQueue /\ aborted = FALSE /\ arrived = 0 /\ last = 0

Arrival(size) == [id |-> arrived + 1, size |-> size]

InfiniteEnqueue(p) ==
  /\ discipline = "infinite"
  /\ queue' = Accept(queue, p)
  /\ UNCHANGED aborted   \* it has no limits and asserts none

\* droptail: its closing assert( good() ).
DropTailEnqueue(p) ==
  /\ discipline = "droptail"
  /\ queue' = TailEnqueue(queue, p)
  /\ aborted' = ~ Good(queue')

\* Slip: the limit is tested before the packet is accepted.
DropHeadTooLate(p) ==
  /\ discipline = "drophead"
  /\ queue' = Accept(IF Good(queue) THEN queue ELSE Dequeued(queue), p)
  /\ aborted' = ~ Good(queue')

\* drophead: dequeue() asserts good() after every packet it removes, so its
\* loop either ends after one dequeue() or ends the process.
DropHeadEnqueue(p) ==
  LET full == Accept(queue, p) IN
  /\ discipline = "drophead"
  /\ queue' = IF Good(full) THEN full ELSE Dequeued(full)
  /\ aborted' = ~ Good(queue')

Enqueue(size) ==
  /\ ~ aborted
  /\ arrived < MaxArrivals
  /\ LET p == Arrival(size) IN
       InfiniteEnqueue(p) \/ DropTailEnqueue(p) \/ DropHeadEnqueue(p)
  /\ arrived' = arrived + 1
  /\ UNCHANGED <<discipline, last>>

\* A link calls dequeue() only after it has seen that the queue is not empty.
Dequeue ==
  /\ ~ aborted
  /\ ~ IsEmpty(queue)
  /\ queue' = Dequeued(queue)
  /\ last' = Front(queue).id
  /\ aborted' = (discipline # "infinite" /\ ~ Good(queue'))
  /\ UNCHANGED <<discipline, arrived>>

Next == Dequeue \/ \E size \in Sizes : Enqueue(size)

Spec == Init /\ [][Next]_vars
----
Packets == [id : 1..MaxArrivals, size : Sizes]

\* No assert( good() ) of the droptail or drophead queue fails
\* (dropping_packet_queue.cc:30, drop_tail_packet_queue.hh:27).
NoAssertionFails == ~ aborted
====

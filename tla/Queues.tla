---- MODULE Queues ----
(***************************************************************************)
(* Every queueing discipline of get_packet_queue() that drops packets: one *)
(* is chosen when the link is made, and the link calls its methods.        *)
(***************************************************************************)
EXTENDS PieQueue, CodelQueue

queuesVars == <<vars, clock, pieVars, codelVars>>

QueuesInit ==
  /\ discipline \in Disciplines \cup {"pie", "codel"}
  /\ queue = EmptyQueue /\ aborted = FALSE
  /\ arrived = 0 /\ last = 0 /\ clock = 0
  /\ PieInit /\ CodelInit

\* The queues that look at no clock.
PassiveNext ==
  /\ discipline \in Disciplines
  /\ Next
  /\ UNCHANGED <<clock, pieVars, codelVars>>

QueuesNext ==
  \/ PassiveNext
  \/ PieNext /\ UNCHANGED codelVars
  \/ CodelNext /\ UNCHANGED pieVars

QueuesSpec == QueuesInit /\ [][QueuesNext]_queuesVars
----
\* Each queue, whatever its discipline and whenever it drops, is a FIFO that may
\* lose packets: none is invented, returned twice or out of order.  The packet
\* that CoDel has taken and not yet returned waits still.
AnyFifo == INSTANCE LossyFifo
  WITH waiting <- {queue.pkts[i].id : i \in 1..Len(queue.pkts)} \cup {x \in {r.id} : pc # "idle"}
AnyFifoSpec == AnyFifo!FifoSpec
====

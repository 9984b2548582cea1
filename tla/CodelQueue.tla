---- MODULE CodelQueue ----
(***************************************************************************)
(* The CODEL packet queue: drop decisions are made when a packet is taken  *)
(* from the queue.  dequeue() may call dodequeue() many times; each call is *)
(* a step here, and no other method runs until dequeue() returns.  In the  *)
(* code the result of every call but the first is a variable that shadows  *)
(* r: dequeue() returns the first packet and loses the others.             *)
(***************************************************************************)
EXTENDS AqmQueue

CONSTANTS Target,       \* target_, in ms
          Interval,     \* interval_, in ms
          CodelSizes,   \* the packet sizes that arrive at a CoDel queue
          MaxToCodel,   \* bound on them
          CodelClock    \* bound on the clock of a CoDel queue

ASSUME CodelAssumption ==
  /\ Target \in Nat \ {0} /\ Interval \in Nat \ {0}
  /\ CodelSizes \subseteq 1..PacketSize
  /\ MaxToCodel \in Nat /\ CodelClock \in Nat

VARIABLES first_above_time, drop_next, count, lastcount, dropping,
          pc,          \* where dequeue() is: "idle", "loop", "enter", "return"
          r, now,      \* its locals: the packet to return, the time it began
          lost_only,   \* history: a packet alone in the queue was lost
          lost_spared  \* history: one was lost that was not to be dropped

codel == <<first_above_time, drop_next, count, lastcount, dropping>>
locals == <<pc, r, now>>
losses == <<lost_only, lost_spared>>
codelVars == <<codel, locals, losses>>

NoPacket == [id |-> 0, size |-> 0, arrival |-> 0]

CodelInit ==
  /\ first_above_time = 0 /\ drop_next = 0
  /\ count = 0 /\ lastcount = 0 /\ dropping = FALSE
  /\ pc = "idle" /\ r = NoPacket /\ now = 0
  /\ lost_only = FALSE /\ lost_spared = FALSE

CodelTick ==
  /\ discipline = "codel" /\ clock < CodelClock
  /\ Tick
  /\ UNCHANGED <<vars, codelVars>>

CodelEnqueue(size) ==
  /\ discipline = "codel" /\ ~ aborted
  /\ pc = "idle" /\ arrived < MaxToCodel
  /\ queue' = TailEnqueue(queue, [id |-> arrived + 1, size |-> size,
                                  arrival |-> clock])
  /\ aborted' = ~ Good(queue')
  /\ arrived' = arrived + 1
  /\ UNCHANGED <<discipline, clock, last, codelVars>>

\* Slip: one packet behind it is enough.
DelayedByOne(t) ==
  LET rest == Dequeued(queue) IN
  /\ ~ IsEmpty(rest)
  /\ t - Front(queue).arrival >= Target
  /\ rest.bytes >= PacketSize

\* dodequeue(): is the packet it takes late, and others wait behind it?
Delayed(t) ==
  LET rest == Dequeued(queue) IN
  /\ ~ IsEmpty(rest)
  /\ t - Front(queue).arrival >= Target
  /\ rest.bytes > PacketSize

OkToDrop(t) ==
  Delayed(t) /\ first_above_time # 0 /\ t >= first_above_time

DoDequeue(t) ==
  /\ ~ IsEmpty(queue)
  /\ queue' = Dequeued(queue)
  /\ first_above_time' =
       IF ~ Delayed(t) THEN 0
       ELSE IF first_above_time = 0 THEN t + Interval ELSE first_above_time

\* interval_ / sqrt( n ), rounded down.
ControlLaw(t, n) ==
  t + CHOOSE d \in 0..Interval : /\ d * d * n <= Interval * Interval
                                 /\ (d + 1) * (d + 1) * n > Interval * Interval

\* dequeue() is about to call dodequeue() again.
MustDropMore == pc = "loop" /\ dropping /\ now >= drop_next
CallsAgain == pc = "enter" \/ MustDropMore

\* DroppingPacketQueue::dequeue(): its assertion that the limits are kept, and
\* the one that there is a packet, should it be called again.
Asserted ==
  aborted' = (~ Good(queue') \/ (IsEmpty(queue') /\ CallsAgain'))

\* dequeue(): its first call of dodequeue().
CodelDequeue ==
  /\ discipline = "codel" /\ ~ aborted
  /\ pc = "idle" /\ ~ IsEmpty(queue)
  /\ DoDequeue(clock)
  /\ r' = Front(queue) /\ now' = clock
  /\ dropping' = (dropping /\ OkToDrop(clock))
  /\ pc' = IF ~ OkToDrop(clock) THEN "return"
           ELSE IF dropping THEN "loop" ELSE "enter"
  /\ UNCHANGED <<discipline, clock, arrived, last, drop_next, count, lastcount,
                 losses>>
  /\ Asserted

\* What a further dodequeue() takes is lost.
LosePacket ==
  /\ DoDequeue(now)
  /\ lost_only' = (lost_only \/ IsEmpty(Dequeued(queue)))
  /\ lost_spared' = (lost_spared \/ ~ OkToDrop(now))

DropMore ==
  /\ ~ aborted /\ MustDropMore
  /\ LosePacket
  /\ count' = count + 1
  /\ dropping' = OkToDrop(now)
  /\ drop_next' = IF dropping' THEN ControlLaw(drop_next, count') ELSE drop_next
  /\ UNCHANGED <<discipline, clock, arrived, last, lastcount, locals>>
  /\ Asserted

DropEnough ==
  /\ ~ aborted /\ pc = "loop" /\ ~ MustDropMore
  /\ pc' = "return"
  /\ UNCHANGED <<vars, clock, codel, r, now, losses>>

\* now - drop_next_ is unsigned: a drop_next_ in the future is long ago.
RecentlyDropped == now >= drop_next /\ now - drop_next < 16 * Interval

EnterDropping ==
  /\ ~ aborted /\ pc = "enter"
  /\ LosePacket
  /\ dropping' = TRUE
  /\ count' = IF count - lastcount > 1 /\ RecentlyDropped
              THEN count - lastcount ELSE 1
  /\ drop_next' = ControlLaw(now, count')
  /\ lastcount' = count'
  /\ pc' = "return"
  /\ UNCHANGED <<discipline, clock, arrived, last, r, now>>
  /\ Asserted

CodelReturn ==
  /\ ~ aborted /\ pc = "return"
  /\ last' = r.id
  /\ pc' = "idle"
  /\ UNCHANGED <<discipline, queue, aborted, arrived, clock, codel, r, now, losses>>

CodelNext ==
  \/ CodelDequeue \/ DropMore \/ DropEnough \/ EnterDropping
  \/ CodelReturn \/ CodelTick
  \/ \E size \in CodelSizes : CodelEnqueue(size)
----
\* "we ignore the drop decision if the current packet is the only one in the
\* queue" (codel_packet_queue.cc:24): no packet that is alone in the queue is
\* ever lost.  It holds although dequeue() does not look at the queue again:
\* more than PACKET_SIZE bytes behind a packet are two packets at least.
OnlyPacketIsKept == ~ lost_only

\* "CoDel makes drop decisions at dequeueing" (codel_packet_queue.cc:23): a
\* packet that is taken from the queue and not returned is one of which
\* dodequeue() said that it may be dropped.
DropsAreDecided == ~ lost_spared
====

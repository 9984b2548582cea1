---- MODULE CellularQueue ----
(***************************************************************************)
(* The ABC router: the CELLULAR packet queue.  At every departure it       *)
(* estimates the capacity of the link and the rate at which it dequeues    *)
(* over a window of time, turns them into a credit, and lets the packet    *)
(* pass unmarked (accelerate) if the token bucket holds more than one      *)
(* token; otherwise it marks it CE (brake).                                *)
(*                                                                         *)
(* The double arithmetic of the token bucket is done in units of 1/Scale   *)
(* token, rounded; the rates divide out of the formula of the credit.      *)
(***************************************************************************)
EXTENDS PacketQueue

CONSTANTS QdelayRef,    \* qdelay_ref, in ms
          Delta,        \* delta, in ms
          Window,       \* the 20 ms over which rates are measured
          TokenLimit,   \* token_limit, in tokens
          Scale,        \* units of a token
          Wrap,         \* 2^32: timestamps are uint32_t
          MaxSamples,   \* bound on the samples a window holds
          Sizes,        \* the packet sizes that arrive
          Ecns,         \* their ECN fields: "not_ect", "ect", "ce"
          MaxArrivals,  \* bound on the packets of a run
          MaxClock,     \* bound on the clock
          Jumps         \* by how much the clock moves: CLOCK_REALTIME may step

ASSUME RouterAssumption ==
  /\ QdelayRef \in Nat \ {0} /\ Delta \in Nat \ {0}
  /\ Window \in Nat \ {0} /\ TokenLimit \in Nat \ {0}
  /\ Scale \in Nat \ {0} /\ Wrap \in Nat \ {0} /\ MaxSamples \in Nat
  /\ Sizes \subseteq Nat \ {0} /\ Ecns \subseteq {"not_ect", "ect", "ce"}
  /\ MaxArrivals \in Nat /\ MaxClock \in Nat /\ Jumps \subseteq Int

VARIABLES queue,                 \* internal_queue_ and its counters
          link_capacity_queue,   \* when the link could have sent a packet
          dq_queue,              \* when an ECN-capable packet was dequeued
          tokens,                \* tokens, in units of 1/Scale
          accelerated,           \* history: packets let through for a token
          chances,               \* history: times the bucket was credited
          clock,                 \* timestamp()
          arrived,               \* history: packets that reached the queue
          returned               \* history: the last packet dequeue() returned

meter == <<link_capacity_queue, dq_queue>>
router == <<queue, meter, tokens, accelerated, chances>>
vars == <<router, clock, arrived, returned>>

RouterInit ==
  /\ queue = EmptyQueue
  /\ link_capacity_queue = <<0>>
  /\ dq_queue = <<0>>
  /\ tokens = TokenLimit * Scale
  /\ accelerated = 0 /\ chances = 0

AtMost(a, b) == IF a < b THEN a ELSE b
AtLeast(a, b) == IF a > b THEN a ELSE b

\* enqueue()
RouterEnqueue(p) ==
  /\ queue' = TailEnqueue(queue, p)
  /\ UNCHANGED <<meter, tokens, accelerated, chances>>

\* 0.49 of a token: what an idle opportunity earns, and an ECN-capable packet
\* when there is no queueing delay to reduce (0.98 * 0.5).
FullCredit == (49 * Scale) \div 100

\* Slip: an idle opportunity earns a whole token.
IdleEarnsToken(now) ==
  /\ IsEmpty(queue)
  /\ Len(link_capacity_queue) < MaxSamples
  /\ link_capacity_queue' = Append(link_capacity_queue, now)
  /\ tokens' = tokens + Scale
  /\ chances' = chances + 1
  /\ UNCHANGED <<queue, dq_queue, accelerated>>

\* dequeue() of an empty queue: the delivery opportunity went unused.
DequeueEmpty(now) ==
  /\ IsEmpty(queue)
  /\ Len(link_capacity_queue) < MaxSamples
  /\ link_capacity_queue' = Append(link_capacity_queue, now)
  /\ tokens' = tokens + FullCredit
  /\ chances' = chances + 1
  /\ UNCHANGED <<queue, dq_queue, accelerated>>

\* dequeue() of a packet that is not ECN-capable: it is not measured.
DequeueNotEct(ret) ==
  /\ ~ IsEmpty(queue)
  /\ ret = Front(queue)
  /\ ret.ecn = "not_ect"
  /\ queue' = Dequeued(queue)
  /\ UNCHANGED <<meter, tokens, accelerated, chances>>

\* One more turn of the loops that forget old samples: uint32_t subtraction.
IsStale(samples, now) ==
  /\ (now - samples[1]) % Wrap > Window
  /\ Len(samples) > 1
  /\ now > samples[2]

\* The loop ends at the first suffix whose head is not stale.
Pruned(samples, now) ==
  LET suffix(i) == SubSeq(samples, i, Len(samples))
      ends == {i \in 1..Len(samples) : ~ IsStale(suffix(i), now)}
  IN suffix(CHOOSE i \in ends : \A j \in ends : i <= j)

Sampled(samples, now) == Append(Pruned(samples, now), now)

\* The two windows take the departure in.
Measured(now) ==
  /\ link_capacity_queue' = Sampled(link_capacity_queue, now)
  /\ dq_queue' = Sampled(dq_queue, now)

\* credit_prob_, clamped: capacity and dequeued count samples, qsize the packets
\* that remain; the packet in hand waited (qsize + 1) * Window / capacity.
Credit(capacity, dequeued, qsize) ==
  LET excess == AtLeast(0, Window * (qsize + 1) - QdelayRef * capacity)
      brake == (Scale * excess) \div (2 * Delta * dequeued)
  IN AtLeast(0, FullCredit - brake)

\* Slip: the packet that passes is not paid for.
Unpaid(credited, takes) == credited

\* What is left in the bucket when an acceleration has been paid for.
Spent(credited, takes) == IF takes THEN credited - Scale ELSE credited

\* A packet that does not pass is marked.
Remarked(p, passes) == IF passes THEN p ELSE [p EXCEPT !.ecn = "ce"]

\* dequeue() of an ECN-capable packet; ret is what the caller gets.
DequeueEct(now, ret) ==
  /\ ~ IsEmpty(queue)
  /\ Front(queue).ecn # "not_ect"
  /\ Len(link_capacity_queue) < MaxSamples
  /\ queue' = Dequeued(queue)
  /\ Measured(now)
  /\ chances' = chances + 1
  /\ LET credited == tokens + Credit(Len(link_capacity_queue') - 1,
                                     Len(dq_queue') - 1, queue'.packets)
         passes == credited > Scale
         takes == passes /\ Front(queue).ecn # "ce"
     IN /\ tokens' = AtMost(Spent(credited, takes), TokenLimit * Scale)
        /\ accelerated' = IF takes THEN accelerated + 1 ELSE accelerated
        /\ ret = Remarked(Front(queue), passes)
----
(***************************************************************************)
(* The router by itself: packets of any kind arrive, and the link asks for *)
(* one at any time, whether there is one or not.                           *)
(***************************************************************************)
NoPacket == [id |-> 0, size |-> 0, ecn |-> "not_ect"]

Init == RouterInit /\ clock = 0 /\ arrived = 0 /\ returned = NoPacket

Arrive(size, ecn) ==
  /\ arrived < MaxArrivals
  /\ RouterEnqueue([id |-> arrived + 1, size |-> size, ecn |-> ecn])
  /\ arrived' = arrived + 1
  /\ UNCHANGED <<clock, returned>>

Idle == DequeueEmpty(clock % Wrap) /\ UNCHANGED <<clock, arrived, returned>>

Depart(ecn) ==
  LET ret == [Front(queue) EXCEPT !.ecn = ecn] IN
  /\ ~ IsEmpty(queue)
  /\ DequeueNotEct(ret) \/ DequeueEct(clock % Wrap, ret)
  /\ returned' = ret
  /\ UNCHANGED <<clock, arrived>>

Tick ==
  /\ \E d \in Jumps : clock + d \in 0..MaxClock /\ clock' = clock + d
  /\ UNCHANGED <<router, arrived, returned>>

Next ==
  \/ \E size \in Sizes, ecn \in Ecns : Arrive(size, ecn)
  \/ Idle
  \/ \E ecn \in Ecns \cup {"ce"} : Depart(ecn)
  \/ Tick

Spec == Init /\ [][Next]_vars
----
\* What both windows measure, as counts of samples.
Capacity == Len(link_capacity_queue) - 1
DequeueRate == Len(dq_queue) - 1

Packets == [id : 0..MaxArrivals, size : Nat, ecn : {"not_ect", "ect", "ce"}]
Times == Seq(Nat)

\* Every variable keeps the type its declaration gives it; the token bucket
\* never goes below zero.
TypeOK ==
  /\ queue \in [pkts : Seq(Packets), bytes : Int, packets : Int]
  /\ link_capacity_queue \in Times /\ dq_queue \in Times
  /\ tokens \in Nat /\ accelerated \in Nat /\ chances \in Nat
  /\ clock \in Nat /\ arrived \in 0..MaxArrivals /\ returned \in Packets

\* The token bucket is a budget: packets accelerated plus tokens left never
\* exceed the initial tokens plus 0.49 per opportunity or ECN-capable departure.
\* So the router accelerates at most about half of the packets the link could
\* carry, whatever arrives and however the clock moves.
AccelerationWithinBudget ==
  accelerated * Scale + tokens <= TokenLimit * Scale + FullCredit * chances

\* Neither window is ever empty, so that after an ECN-capable departure each
\* holds two samples: the divisions by link_capacity_ and observed_dq_rate_ in
\* dequeue() are defined.
WindowsNeverEmpty == Capacity >= 0 /\ DequeueRate >= 0
====

---- MODULE WeightedQueue ----
(***************************************************************************)
(* The weighted queue: an ABC router and a droptail queue share a link.    *)
(* A flow belongs to one or the other by its source port.  The queue keeps *)
(* a decaying rate for each flow, fills the link's rate with the flows as  *)
(* one fills a vessel with water, weighs the two classes by what their     *)
(* flows then get, and serves one of the two at random with that weight.   *)
(*                                                                         *)
(* The class of ABC is the state of CellularQueue.  Rates are in units of  *)
(* a tenth, so that the tenth by which some are raised stays whole.  The   *)
(* lists of recent flows (zombie1, zombie2) and the credits feed only ways *)
(* of weighing that weighted_mode, a constant, does not choose; they are   *)
(* left out with them.                                                     *)
(***************************************************************************)
EXTENDS CellularQueue, FiniteSetsExt, Functions

CONSTANTS Ports,    \* the source ports that arrive
          Decay,    \* 1/alpha: how slowly a rate decays
          Step,     \* alpha, in the units of rates
          Cent,     \* 1.0, in the units of weights
          MixedEcns,            \* the ECN fields that arrive
          MaxMixed, MixedClock  \* bounds on the packets of a run and the clock

ASSUME WeightAssumption ==
  /\ Ports \subseteq Nat /\ Decay \in Nat \ {0} /\ Step \in Nat \ {0}
  /\ Cent \in Nat \ {0} /\ MaxMixed \in Nat /\ MixedClock \in Nat

VARIABLES queue1,         \* the droptail queue
          category,       \* category1 and category2: the rate of each flow seen
          weight,         \* the share of queue1
          actual_deque    \* the share of departures that queue1 had of late

weightedVars == <<queue1, category, weight, actual_deque>>

IsClass1(port) == port < 5200
IsRaised(port) == port >= 5197

WeightedInit ==
  /\ queue1 = EmptyQueue
  /\ category = <<>>
  /\ weight = Cent \div 2 /\ actual_deque = Cent \div 2

\* A flow is charged for the packet, whether its queue takes it or not.
Charged(port) ==
  [q \in DOMAIN category \cup {port} |->
     (IF q \in DOMAIN category THEN category[q] ELSE 0) + (IF q = port THEN Step ELSE 0)]

\* enqueue()
WeightedEnqueue(p, port) ==
  /\ category' = Charged(port)
  /\ IF IsClass1(port)
     THEN queue1' = TailEnqueue(queue1, p) /\ UNCHANGED router
     ELSE RouterEnqueue(p) /\ UNCHANGED queue1
  /\ UNCHANGED <<weight, actual_deque>>
----
Total(f) == FoldFunction(+, 0, f)

\* What a flow may have, in tenths: some are raised by a tenth of their rate.
Demand(rates) == [q \in DOMAIN rates |-> (IF IsRaised(q) THEN 11 ELSE 10) * rates[q]]

\* The demands in increasing order (v3), with the sum of the smaller ones (v4).
\* Flows of equal demand come in any order.
InOrder(v) ==
  LET n == Cardinality(DOMAIN v)
  IN CHOOSE s \in [1..n -> DOMAIN v] :
       /\ \A i, j \in 1..n : i < j => s[i] # s[j] /\ v[s[i]] <= v[s[j]]

SumBelow(v, s, i) == Total([j \in 1..(i - 1) |-> v[s[j]]])

\* Slip: the flows that are left do not share what the smaller ones leave.
UnsharedLevel(v, total) ==
  LET s == InOrder(v)
      n == Len(s)
      over == {i \in 1..n : SumBelow(v, s, i) + v[s[i]] * (n - i + 1) > total}
  IN IF over = {} THEN <<v[s[n]], 1>>
     ELSE <<total - SumBelow(v, s, Min(over)), n - Min(over) + 2>>

\* The level of the water (alpha_water), as a fraction: the first flow that does
\* not fit shares what is left with all the larger ones.
WaterLevel(v, total) ==
  LET s == InOrder(v)
      n == Len(s)
      over == {i \in 1..n : SumBelow(v, s, i) + v[s[i]] * (n - i + 1) > total}
      first == Min(over)
  IN IF over = {} THEN <<v[s[n]], 1>>
     ELSE <<total - SumBelow(v, s, first), n - first + 1>>

\* What the flows of a class get, times the denominator of the level; flows that
\* are not raised get their rate, above the level or not.
Share(rates, level, class1) ==
  Total([q \in {r \in DOMAIN rates : IsClass1(r) = class1} |->
           IF IsRaised(q) THEN AtMost(Demand(rates)[q] * level[2], level[1])
           ELSE Demand(rates)[q] * level[2]])

Clamped(w, low, high) == AtMost(high, AtLeast(low, w))

\* The new weight stays near what queue1 had of late, and leaves both a share.
Weight(rates) ==
  LET level == WaterLevel(Demand(rates), 10 * Total(rates))
      rand1 == Share(rates, level, TRUE)
      rand2 == Share(rates, level, FALSE)
      near == Clamped((Cent * rand1) \div (rand1 + rand2),
                      (8 * actual_deque) \div 10, (12 * actual_deque) \div 10)
  IN Clamped(near, Cent \div 20, (19 * Cent) \div 20)

Decayed(x) == x - x \div Decay

\* The queue1 half of dequeue(); the router learns of an opportunity it left.
ServeQueue1(random) ==
  /\ IsEmpty(queue) \/ (random < weight' /\ ~ IsEmpty(queue1))
  /\ queue1' = Dequeued(queue1)
  /\ actual_deque' = Decayed(actual_deque) + Cent \div Decay
  /\ IF IsEmpty(queue) /\ ~ (random < weight')
     THEN DequeueEmpty(clock % Wrap) ELSE UNCHANGED router
  /\ returned' = Front(queue1)

\* The queue2 half: what the ABC router does.
ServeQueue2(random, ecn) ==
  /\ ~ IsEmpty(queue) /\ (random >= weight' \/ IsEmpty(queue1))
  /\ UNCHANGED queue1
  /\ actual_deque' = Decayed(actual_deque)
  /\ returned' = [Front(queue) EXCEPT !.ecn = ecn]
  /\ DequeueNotEct(returned') \/ DequeueEct(clock % Wrap, returned')

WeightedDequeue(random, ecn) ==
  /\ ~ (IsEmpty(queue1) /\ IsEmpty(queue))
  /\ category' = [q \in DOMAIN category |-> Decayed(category[q])]
  /\ weight' = Weight(category')
  /\ ServeQueue1(random) \/ ServeQueue2(random, ecn)

\* Both queues are empty: the router learns of the opportunity.
WeightedIdle ==
  /\ IsEmpty(queue1)
  /\ DequeueEmpty(clock % Wrap)
  /\ UNCHANGED <<weightedVars, returned>>
----
\* The draw matters only as below the weight or not.
Draws == {0, Cent - 1}

WeightedArrive(size, ecn, port) ==
  /\ arrived < MaxMixed
  /\ WeightedEnqueue([id |-> arrived + 1, size |-> size, ecn |-> ecn], port)
  /\ arrived' = arrived + 1
  /\ UNCHANGED <<clock, returned>>

WeightedTick ==
  /\ \E d \in Jumps : clock + d \in 0..MixedClock /\ clock' = clock + d
  /\ UNCHANGED <<router, weightedVars, arrived, returned>>

WeightedNext ==
  \/ \E size \in Sizes, ecn \in MixedEcns, port \in Ports : WeightedArrive(size, ecn, port)
  \/ /\ WeightedIdle \/ \E random \in Draws, ecn \in MixedEcns \cup {"ce"} : WeightedDequeue(random, ecn)
     /\ UNCHANGED <<clock, arrived>>
  \/ WeightedTick
----
\* The loop over the sorted rates finds the level of max-min fairness: when no
\* flow may have more than its demand or the level, whichever is less, together
\* they have exactly the rate that all flows were measured to have, be the level
\* among the demands, above all of them, or below the least.
WaterLevelIsFair ==
  category # <<>> =>
    LET v == Demand(category)
        total == 10 * Total(category)
        level == WaterLevel(v, total)
    IN Total([q \in DOMAIN v |-> AtMost(v[q] * level[2], level[1])]) = total * level[2]
====

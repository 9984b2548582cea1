---- MODULE CellularProofs ----
(***************************************************************************)
(* What holds of the ABC router for all its parameters and for a clock     *)
(* that moves as it likes, forward, back and over the wrap of its 32 bits. *)
(***************************************************************************)
EXTENDS CellularQueue, WellFoundedInduction, TLAPS

\* The inductive invariant.  The bucket is bounded because each acceleration is
\* paid for, and it does not go below zero because a credit is a natural number,
\* which it is because the windows never are empty.
IInv == TypeOK /\ WindowsNeverEmpty /\ AccelerationWithinBudget

\* The part of it that the packets of the queue have no say in.
MeterInv ==
  /\ link_capacity_queue \in Times /\ dq_queue \in Times
  /\ tokens \in Nat /\ accelerated \in Nat /\ chances \in Nat
  /\ WindowsNeverEmpty /\ AccelerationWithinBudget

LEMMA CreditFacts == FullCredit \in Nat /\ TokenLimit * Scale \in Nat
  BY RouterAssumption, SMT DEF FullCredit

LEMMA InitIInv == Init => IInv
  <1> SUFFICES ASSUME Init
               PROVE  IInv
    OBVIOUS
  <1>1. /\ <<0>> \in Seq(Nat) /\ Len(<<0>>) = 1 /\ <<>> \in Seq(Packets)
        /\ 0 \in 0..MaxArrivals /\ 0 \in Nat /\ 0 \in Int
    BY RouterAssumption
  <1>2. EmptyQueue \in [pkts : Seq(Packets), bytes : Int, packets : Int]
    BY <1>1 DEF EmptyQueue
  <1>3. NoPacket \in Packets
    BY <1>1 DEF NoPacket, Packets
  <1>4. TypeOK
    BY <1>1, <1>2, <1>3, CreditFacts DEF Init, RouterInit, TypeOK, Times
  <1>5. WindowsNeverEmpty
    BY <1>1 DEF Init, RouterInit, WindowsNeverEmpty, Capacity, DequeueRate
  <1>6. AccelerationWithinBudget
    BY CreditFacts, RouterAssumption, SMT DEF Init, RouterInit, AccelerationWithinBudget
  <1> QED BY <1>4, <1>5, <1>6 DEF IInv

\* A set of natural numbers that is not empty has a least element.
LEMMA LeastNatural ==
  ASSUME NEW T \in SUBSET Nat, T # {}
  PROVE  \E x \in T : \A y \in T : x <= y
  <1> DEFINE R == OpToRel(<, Nat)
  <1>1. IsWellFoundedOn(R, Nat)
    BY NatLessThanWellFounded
  <1>2. PICK x \in T : \A y \in T : <<y, x>> \notin R
    BY <1>1, WFMin
  <1>3. \A y \in T : ~ (y < x)
    BY <1>2 DEF OpToRel
  <1> QED BY <1>3

\* Forgetting old samples never forgets the last one.
LEMMA PrunedFacts ==
  ASSUME NEW samples \in Seq(Nat), Len(samples) >= 1, NEW now \in Nat
  PROVE  Pruned(samples, now) \in Seq(Nat) /\ Len(Pruned(samples, now)) >= 1
  <1> DEFINE suffix(i) == SubSeq(samples, i, Len(samples))
             ends == {i \in 1..Len(samples) : ~ IsStale(suffix(i), now)}
  <1>1. \A i \in 1..Len(samples) :
          suffix(i) \in Seq(Nat) /\ Len(suffix(i)) = Len(samples) - i + 1
    OBVIOUS
  <1>2. Len(samples) \in ends
    <2>1. Len(samples) \in 1..Len(samples)
      OBVIOUS
    <2>2. Len(suffix(Len(samples))) = 1
      BY <1>1, <2>1
    <2> QED BY <2>1, <2>2 DEF IsStale
  <1>3. ends \in SUBSET Nat /\ ends # {}
    BY <1>2
  <1> HIDE DEF ends
  <1>4. \E i \in ends : \A j \in ends : i <= j
    BY <1>3, LeastNatural
  <1>5. (CHOOSE i \in ends : \A j \in ends : i <= j) \in ends
    BY <1>4
  <1>6. (CHOOSE i \in ends : \A j \in ends : i <= j) \in 1..Len(samples)
    BY <1>5 DEF ends
  <1> HIDE DEF suffix
  <1>7. Pruned(samples, now) = suffix(CHOOSE i \in ends : \A j \in ends : i <= j)
    BY DEF Pruned, suffix, ends
  <1> QED BY <1>1, <1>6, <1>7

LEMMA SampledFacts ==
  ASSUME NEW samples \in Seq(Nat), Len(samples) >= 1, NEW now \in Nat
  PROVE  Sampled(samples, now) \in Seq(Nat) /\ Len(Sampled(samples, now)) >= 2
  BY PrunedFacts DEF Sampled

\* With a sample in the window the credit is defined, and it is never more than
\* 0.49 tokens nor less than none.
LEMMA CreditIsBounded ==
  ASSUME NEW capacity \in Nat, NEW dequeued \in Nat \ {0}, NEW qsize \in Int
  PROVE  /\ Credit(capacity, dequeued, qsize) \in Nat
         /\ Credit(capacity, dequeued, qsize) <= FullCredit
  <1> DEFINE excess == AtLeast(0, Window * (qsize + 1) - QdelayRef * capacity)
             divisor == 2 * Delta * dequeued
             brake == (Scale * excess) \div divisor
  <1>1. Window * (qsize + 1) - QdelayRef * capacity \in Int
    BY RouterAssumption, SMT
  <1>2. excess \in Nat
    BY <1>1 DEF AtLeast
  <1>3. divisor \in Nat /\ divisor > 0
    BY RouterAssumption, SMT
  <1> HIDE DEF excess, divisor
  <1>4. Scale * excess \in Nat
    BY <1>2, RouterAssumption, SMT
  <1>5. brake \in Nat
    BY <1>3, <1>4, SMT
  <1>6. Credit(capacity, dequeued, qsize) = AtLeast(0, FullCredit - brake)
    BY DEF Credit, excess, divisor
  <1> HIDE DEF brake
  <1> QED BY <1>5, <1>6, CreditFacts DEF AtLeast

LEMMA QueueFacts ==
  ASSUME TypeOK, ~ IsEmpty(queue)
  PROVE  /\ Front(queue) \in Packets
         /\ Dequeued(queue) \in [pkts : Seq(Packets), bytes : Int, packets : Int]
  <1>1. /\ queue.pkts \in Seq(Packets) /\ queue.pkts # <<>>
        /\ queue.bytes \in Int /\ queue.packets \in Int
    BY DEF TypeOK, IsEmpty
  <1>2. Front(queue) \in Packets /\ Tail(queue.pkts) \in Seq(Packets)
    BY <1>1 DEF Front
  <1>3. Front(queue).size \in Int
    BY <1>2 DEF Packets
  <1> QED BY <1>1, <1>2, <1>3 DEF Dequeued

\* Arrivals, and the passing of time.
LEMMA ArriveKeepsIInv ==
  ASSUME IInv, NEW size \in Sizes, NEW ecn \in Ecns, Arrive(size, ecn)
  PROVE  IInv'
  <1> DEFINE p == [id |-> arrived + 1, size |-> size, ecn |-> ecn]
  <1>1. /\ arrived + 1 \in 0..MaxArrivals /\ size \in Nat
        /\ ecn \in {"not_ect", "ect", "ce"}
    BY RouterAssumption DEF Arrive, IInv, TypeOK
  <1>2. p \in Packets /\ p.size \in Int
    BY <1>1 DEF Packets
  <1>3. queue' = TailEnqueue(queue, p) /\ arrived' = arrived + 1
        /\ UNCHANGED <<meter, tokens, accelerated, chances, clock, returned>>
    BY DEF Arrive, RouterEnqueue
  <1> HIDE DEF p
  <1>4. queue' \in [pkts : Seq(Packets), bytes : Int, packets : Int]
    <2>1. queue \in [pkts : Seq(Packets), bytes : Int, packets : Int]
      BY DEF IInv, TypeOK
    <2>2. Accept(queue, p) \in [pkts : Seq(Packets), bytes : Int, packets : Int]
      BY <1>2, <2>1 DEF Accept
    <2> QED BY <1>3, <2>1, <2>2 DEF TailEnqueue
  <1>5. TypeOK'
    BY <1>1, <1>3, <1>4 DEF IInv, TypeOK, meter
  <1> QED BY <1>3, <1>5 DEF IInv, WindowsNeverEmpty, AccelerationWithinBudget,
                            Capacity, DequeueRate, meter

LEMMA TickKeepsIInv ==
  ASSUME IInv, Tick
  PROVE  IInv'
  <1>1. clock' \in Nat /\ UNCHANGED <<router, arrived, returned>>
    BY RouterAssumption DEF Tick
  <1> QED BY <1>1 DEF IInv, TypeOK, router, meter, WindowsNeverEmpty,
                      AccelerationWithinBudget, Capacity, DequeueRate

\* The bucket after a departure: what was credited less what was taken, and
\* never more than the limit.
LEMMA BucketIsPaid ==
  ASSUME NEW credit \in Nat, credit <= FullCredit, NEW takes \in BOOLEAN,
         NEW t \in Nat, NEW a \in Nat, NEW n \in Nat,
         takes => t + credit > Scale,
         a * Scale + t <= TokenLimit * Scale + FullCredit * n
  PROVE  /\ AtMost(Spent(t + credit, takes), TokenLimit * Scale) \in Nat
         /\ (IF takes THEN a + 1 ELSE a) * Scale
              + AtMost(Spent(t + credit, takes), TokenLimit * Scale)
            <= TokenLimit * Scale + FullCredit * (n + 1)
  <1> DEFINE spent == Spent(t + credit, takes)
             bucket == AtMost(spent, TokenLimit * Scale)
  <1>1. /\ FullCredit * (n + 1) = FullCredit * n + FullCredit
        /\ (a + 1) * Scale = a * Scale + Scale
        /\ FullCredit * n \in Int /\ a * Scale \in Int /\ Scale \in Nat
    BY CreditFacts, RouterAssumption, SMT
  <1>2. spent \in Nat /\ (takes => spent = t + credit - Scale)
        /\ (~ takes => spent = t + credit)
    BY <1>1 DEF Spent
  <1> HIDE DEF spent
  <1>3. bucket \in Nat /\ bucket <= spent
    BY <1>2, CreditFacts DEF AtMost
  <1> HIDE DEF bucket
  <1>4. CASE takes
    <2>1. (a + 1) * Scale + bucket <= TokenLimit * Scale + FullCredit * (n + 1)
      BY <1>1, <1>2, <1>3, <1>4, CreditFacts
    <2> QED BY <1>3, <1>4, <2>1 DEF bucket, spent
  <1>5. CASE ~ takes
    <2>1. a * Scale + bucket <= TokenLimit * Scale + FullCredit * (n + 1)
      BY <1>1, <1>2, <1>3, <1>5, CreditFacts
    <2> QED BY <1>3, <1>5, <2>1 DEF bucket, spent
  <1> QED BY <1>4, <1>5

\* A window of two samples or more spans at least one interval.
LEMMA SpansAnInterval ==
  ASSUME NEW s \in Seq(Nat), Len(s) >= 2
  PROVE  Len(s) - 1 \in Nat \ {0}
  <1>1. Len(s) \in Nat
    OBVIOUS
  <1>2. \A n \in Nat : n >= 2 => n - 1 \in Nat /\ n - 1 # 0
    OBVIOUS
  <1>3. Len(s) - 1 \in Nat /\ Len(s) - 1 # 0
    BY <1>1, <1>2
  <1> QED BY <1>3

\* The empty queue of a delivery opportunity earns 0.49 tokens.
LEMMA DequeueEmptyKeeps ==
  ASSUME MeterInv, NEW now \in Nat, DequeueEmpty(now)
  PROVE  MeterInv' /\ chances' = chances + 1
  <1>1. /\ link_capacity_queue' = Append(link_capacity_queue, now)
        /\ tokens' = tokens + FullCredit /\ chances' = chances + 1
        /\ UNCHANGED <<dq_queue, accelerated>>
    BY DEF DequeueEmpty
  <1>2. /\ link_capacity_queue \in Seq(Nat) /\ tokens \in Nat /\ chances \in Nat
        /\ accelerated \in Nat
    BY DEF MeterInv, Times
  <1>3. /\ link_capacity_queue' \in Seq(Nat)
        /\ Len(link_capacity_queue') = Len(link_capacity_queue) + 1
    BY <1>1, <1>2
  <1>4. WindowsNeverEmpty'
    BY <1>1, <1>2, <1>3 DEF MeterInv, WindowsNeverEmpty, Capacity, DequeueRate
  <1>5. AccelerationWithinBudget'
    <2>1. FullCredit * (chances + 1) = FullCredit * chances + FullCredit
      BY <1>2, CreditFacts, SMT
    <2>2. accelerated * Scale \in Int /\ FullCredit * chances \in Int
      BY <1>2, CreditFacts, RouterAssumption, SMT
    <2> QED BY <1>1, <1>2, <2>1, <2>2, CreditFacts
            DEF MeterInv, AccelerationWithinBudget
  <1> QED BY <1>1, <1>2, <1>3, <1>4, <1>5, CreditFacts DEF MeterInv, Times

\* A departure that may be accelerated earns its credit and is paid for.
LEMMA DequeueEctKeeps ==
  ASSUME MeterInv, NEW now \in Nat, NEW ret, DequeueEct(now, ret), queue'.packets \in Int
  PROVE  MeterInv' /\ chances' = chances + 1
  <1> DEFINE credit == Credit(Len(link_capacity_queue') - 1,
                              Len(dq_queue') - 1, queue'.packets)
             takes == tokens + credit > Scale /\ Front(queue).ecn # "ce"
  <1>1. /\ link_capacity_queue \in Seq(Nat) /\ dq_queue \in Seq(Nat)
        /\ Len(link_capacity_queue) >= 1 /\ Len(dq_queue) >= 1
        /\ tokens \in Nat /\ accelerated \in Nat /\ chances \in Nat
    BY DEF MeterInv, Times, WindowsNeverEmpty, Capacity, DequeueRate
  <1>2. /\ link_capacity_queue' = Sampled(link_capacity_queue, now)
        /\ dq_queue' = Sampled(dq_queue, now)
        /\ chances' = chances + 1
        /\ tokens' = AtMost(Spent(tokens + credit, takes), TokenLimit * Scale)
        /\ accelerated' = IF takes THEN accelerated + 1 ELSE accelerated
    BY DEF DequeueEct, Measured
  <1>3. /\ link_capacity_queue' \in Seq(Nat) /\ Len(link_capacity_queue') >= 2
        /\ dq_queue' \in Seq(Nat) /\ Len(dq_queue') >= 2
    BY <1>1, <1>2, SampledFacts
  <1>4. credit \in Nat /\ credit <= FullCredit
    <2>1. /\ Len(link_capacity_queue') - 1 \in Nat
          /\ Len(dq_queue') - 1 \in Nat \ {0}
      <3> HIDE DEF credit, takes
      <3> QED BY <1>3, SpansAnInterval
    <2> QED BY <2>1, CreditIsBounded
  <1>5. takes \in BOOLEAN /\ (takes => tokens + credit > Scale)
    OBVIOUS
  <1> HIDE DEF credit, takes
  <1>6. /\ AtMost(Spent(tokens + credit, takes), TokenLimit * Scale) \in Nat
        /\ (IF takes THEN accelerated + 1 ELSE accelerated) * Scale
             + AtMost(Spent(tokens + credit, takes), TokenLimit * Scale)
           <= TokenLimit * Scale + FullCredit * (chances + 1)
    BY <1>1, <1>4, <1>5, BucketIsPaid DEF MeterInv, AccelerationWithinBudget
  <1>7. AccelerationWithinBudget'
    BY <1>2, <1>6 DEF AccelerationWithinBudget, FullCredit
  <1>8. WindowsNeverEmpty'
    BY <1>3 DEF WindowsNeverEmpty, Capacity, DequeueRate
  <1>9. accelerated' \in Nat /\ chances' \in Nat /\ tokens' \in Nat
    BY <1>1, <1>2, <1>6
  <1> QED BY <1>2, <1>3, <1>7, <1>8, <1>9 DEF MeterInv, Times

\* A packet that is not ECN-capable goes unmeasured, as does every other step.
LEMMA UnmeasuredKeeps ==
  ASSUME MeterInv, UNCHANGED <<meter, tokens, accelerated, chances>>
  PROVE  MeterInv'
  BY DEF MeterInv, WindowsNeverEmpty, AccelerationWithinBudget, Capacity, DequeueRate, meter

LEMMA MeterInvIsPart == IInv <=> TypeOK /\ MeterInv
  BY DEF IInv, MeterInv, TypeOK

LEMMA IdleKeepsIInv ==
  ASSUME IInv, Idle
  PROVE  IInv'
  <1>1. clock % Wrap \in Nat
    BY RouterAssumption, SMT DEF IInv, TypeOK
  <1>2. DequeueEmpty(clock % Wrap) /\ UNCHANGED <<queue, clock, arrived, returned>>
    BY DEF Idle, DequeueEmpty
  <1>3. MeterInv'
    BY <1>1, <1>2, DequeueEmptyKeeps, MeterInvIsPart
  <1> QED BY <1>2, <1>3 DEF IInv, TypeOK, MeterInv

LEMMA DepartKeepsIInv ==
  ASSUME IInv, NEW ecn \in Ecns \cup {"ce"}, Depart(ecn)
  PROVE  IInv'
  <1> DEFINE ret == [Front(queue) EXCEPT !.ecn = ecn]
             now == clock % Wrap
  <1>1. ~ IsEmpty(queue) /\ returned' = ret /\ UNCHANGED <<clock, arrived>>
        /\ (DequeueNotEct(ret) \/ DequeueEct(now, ret))
    BY DEF Depart
  <1>2. now \in Nat
    BY RouterAssumption, SMT DEF IInv, TypeOK
  <1>3. /\ Front(queue) \in Packets
        /\ Dequeued(queue) \in [pkts : Seq(Packets), bytes : Int, packets : Int]
    BY <1>1, QueueFacts DEF IInv
  <1>4. ret \in Packets
    BY <1>3, RouterAssumption DEF Packets
  <1> HIDE DEF ret, now
  <1>5. queue' = Dequeued(queue)
    BY <1>1 DEF DequeueNotEct, DequeueEct
  <1>6. queue'.packets \in Int
    BY <1>3, <1>5
  <1>7. MeterInv'
    BY <1>1, <1>2, <1>6, DequeueEctKeeps, UnmeasuredKeeps, MeterInvIsPart DEF DequeueNotEct
  <1> QED BY <1>1, <1>3, <1>4, <1>5, <1>7 DEF IInv, TypeOK, MeterInv

LEMMA NextKeepsIInv == IInv /\ [Next]_vars => IInv'
  <1> SUFFICES ASSUME IInv, [Next]_vars
               PROVE  IInv'
    OBVIOUS
  <1>1. CASE UNCHANGED vars
    BY <1>1 DEF vars, router, meter, IInv, TypeOK, WindowsNeverEmpty,
                AccelerationWithinBudget, Capacity, DequeueRate
  <1> QED BY <1>1, ArriveKeepsIInv, IdleKeepsIInv, DepartKeepsIInv, TickKeepsIInv
          DEF Next

\* Every variable keeps its type: the token bucket never goes below zero.
THEOREM RouterTypes == Spec => []TypeOK
  <1>1. IInv => TypeOK
    BY DEF IInv
  <1> QED BY <1>1, InitIInv, NextKeepsIInv, PTL DEF Spec

\* Packets accelerated are paid from a budget, for all parameters of the router,
\* any traffic and any clock.
THEOREM RouterBudget == Spec => []AccelerationWithinBudget
  <1>1. IInv => AccelerationWithinBudget
    BY DEF IInv
  <1> QED BY <1>1, InitIInv, NextKeepsIInv, PTL DEF Spec

\* The router never divides by zero, also after its clock was set back.
THEOREM RouterDivides == Spec => []WindowsNeverEmpty
  <1>1. IInv => WindowsNeverEmpty
    BY DEF IInv
  <1> QED BY <1>1, InitIInv, NextKeepsIInv, PTL DEF Spec
====

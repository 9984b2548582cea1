---- MODULE SenderProofs ----
(***************************************************************************)
(* What holds of the senders for every initial window, every size of the   *)
(* sequence space and every sequence of acknowledgments: first of the      *)
(* module without Cubic, then of the one with it.  The bounds on windows,  *)
(* ACKs and events are guards, of which the proofs make no use.            *)
(***************************************************************************)
EXTENDS Endpoints, WellFoundedInduction, TLAPS

\* The floor is a positive number, at most six and at most the initial window.
LEMMA FloorFacts == Floor \in Nat \ {0} /\ Floor <= 6 /\ Floor <= InitCwnd
  BY SenderAssumption, SMT DEF Floor

\* The number of packets in so many bytes is a natural number.
LEMMA PacketsAreNat ==
  ASSUME NEW bytes \in Nat
  PROVE  bytes \div Segment \in Nat
  <1>1. Segment \in Nat /\ Segment > 0
    BY SenderAssumption, SMT
  <1> QED BY <1>1, SMT

\* What an ACK is worth is a natural number, whether or not numbers wrap.
LEMMA AckedBytesAreNat ==
  ASSUME TypeOK, NEW una \in Nat, NEW win_update \in BOOLEAN
  PROVE  AckedBytes(una, win_update) \in Nat
  <1>1. (una - prior_snd_una) % SeqSpace \in Nat
    BY SenderAssumption, SMT DEF TypeOK
  <1> QED BY <1>1, SenderAssumption DEF AckedBytes

\* The inductive invariant: the three properties together, since the bound on
\* the increase rests on the floor of the window.
IInv == TypeOK /\ WindowFloor /\ IncreaseIsSlow

LEMMA InitIInv == Init => IInv
  BY FloorFacts, SenderAssumption, SMT
     DEF Init, IInv, TypeOK, WindowFloor, IncreaseIsSlow

\* The additive increase keeps its account: each packet it adds has been paid
\* for with Floor ACKs at least.
LEMMA IncreaseIsPaid ==
  ASSUME IInv
  PROVE  /\ AiCwnd \in Nat /\ Increased \in Nat /\ Increased >= Floor
         /\ (IF AiDue THEN increases + 1 ELSE increases) * Floor + AiCwnd
              <= counted + 1
  <1> USE DEF IInv, TypeOK, WindowFloor, IncreaseIsSlow
  <1>1. CASE AiDue
    <2>1. /\ AiCwnd = ai_cwnd + 1 - loss_cwnd /\ Increased = loss_cwnd + 1
          /\ ai_cwnd + 1 > loss_cwnd
      BY <1>1 DEF AiDue, AiCwnd, Increased
    <2>2. (increases + 1) * Floor = increases * Floor + Floor
      BY FloorFacts, SMT
    <2>3. increases * Floor \in Nat
      BY FloorFacts, SMT
    <2> QED BY <1>1, <2>1, <2>2, <2>3, FloorFacts, SMT
  <1>2. CASE ~ AiDue
    <2>1. AiCwnd = ai_cwnd + 1 /\ Increased = loss_cwnd
      BY <1>2 DEF AiCwnd, Increased
    <2>2. increases * Floor \in Nat
      BY FloorFacts, SMT
    <2> QED BY <1>2, <2>1, <2>2, FloorFacts, SMT
  <1> QED BY <1>1, <1>2

\* Whatever the ACK says, the window it leaves is at or above the floor: the
\* brake is taken only when more than five packets remain.
LEMMA AdjustedKeepsFloor ==
  ASSUME NEW cwnd \in Nat, cwnd >= Floor, NEW n \in Nat, NEW ece \in BOOLEAN
  PROVE  Adjusted(cwnd, n, ece) \in Nat /\ Adjusted(cwnd, n, ece) >= Floor
  BY FloorFacts, SMT DEF Adjusted, CanBrake

LEMMA InAckKeepsIInv ==
  ASSUME IInv, NEW advance \in Nat, NEW win_update \in BOOLEAN,
         NEW ece \in BOOLEAN, InAck(advance, win_update, ece)
  PROVE  IInv'
  <1> DEFINE una == (snd_una + advance) % SeqSpace
             bytes == AckedBytes(una, win_update)
             n == bytes \div Segment
  <1>1. una \in Nat
    BY SenderAssumption, SMT DEF IInv, TypeOK
  <1>2. bytes \in Nat
    BY <1>1, AckedBytesAreNat DEF IInv
  <1>3. n \in Nat
    BY <1>2, PacketsAreNat
  <1>4. snd_una' = una /\ UNCHANGED <<sk_pacing_rate, rtt>>
    BY DEF InAck
  <1>5. CASE bytes = 0
    <2>1. UNCHANGED <<prior_snd_una, loss_cwnd, ai_cwnd, snd_cwnd, history>>
      BY <1>5 DEF InAck
    <2> QED BY <1>1, <1>4, <2>1
            DEF IInv, TypeOK, WindowFloor, IncreaseIsSlow, history
  <1>6. CASE bytes # 0
    <2>1. /\ ai_cwnd' = AiCwnd /\ prior_snd_una' = una
          /\ loss_cwnd' = Adjusted(Increased, n, ece) /\ snd_cwnd' = loss_cwnd'
          /\ counted' = counted + 1
          /\ increases' = IF AiDue THEN increases + 1 ELSE increases
          /\ ignored' = IF ece /\ ~ CanBrake(Increased, n)
                        THEN ignored + n ELSE ignored
      BY <1>6 DEF InAck
    <2>2. AiCwnd \in Nat /\ Increased \in Nat /\ Increased >= Floor
      BY IncreaseIsPaid
    <2>3. loss_cwnd' \in Nat /\ loss_cwnd' >= Floor
      BY <1>3, <2>1, <2>2, AdjustedKeepsFloor
    <2>4. increases' * Floor + ai_cwnd' <= counted'
      BY <2>1, IncreaseIsPaid
    <2>5. /\ counted' \in Nat /\ increases' \in Nat /\ ignored' \in Nat
      BY <1>3, <2>1, SMT DEF IInv, TypeOK
    <2>6. TypeOK'
      BY <1>1, <1>4, <2>1, <2>2, <2>3, <2>5 DEF IInv, TypeOK
    <2> QED BY <2>3, <2>4, <2>6 DEF IInv, WindowFloor, IncreaseIsSlow, Floor
  <1> QED BY <1>5, <1>6

\* What an integer division and its remainder make of a number.
LEMMA Divided ==
  ASSUME NEW a \in Int, NEW n \in Int, n > 0
  PROVE  /\ a \div n \in Int /\ a % n \in Int /\ a = n * (a \div n) + (a % n)
         /\ 0 <= a % n /\ a % n < n
         /\ a >= 0 => a \div n >= 0
  BY SMT

\* The pacing rate is a natural number.
LEMMA PacingRateIsNat ==
  ASSUME NEW cwnd \in Nat, NEW r \in Nat, r > 0
  PROVE  PacingRate(cwnd, r) \in Nat
  <1> DEFINE share == (29 * Second) \div r
             all == (cwnd * 100) * share
  <1>1. RateSpace \in Int /\ RateSpace > 0 /\ 29 * Second \in Int
    BY SenderAssumption, SMT
  <1>2. share \in Int
    BY <1>1, Divided
  <1> HIDE DEF share
  <1>3. all \in Int
    BY <1>2
  <1> HIDE DEF all
  <1>4. all % RateSpace \in Nat
    BY <1>1, <1>3, Divided
  <1> QED BY <1>4 DEF PacingRate, share, all

LEMMA NextKeepsIInv == IInv /\ [Next]_vars => IInv'
  <1> SUFFICES ASSUME IInv, [Next]_vars
               PROVE  IInv'
    OBVIOUS
  <1> USE DEF IInv, TypeOK, WindowFloor, IncreaseIsSlow, Floor
  <1>1. ASSUME NEW advance \in Acked, NEW win_update \in BOOLEAN,
               NEW ece \in BOOLEAN, InAck(advance, win_update, ece)
        PROVE  IInv'
    <2>1. advance \in Nat
      BY SenderAssumption, SMT
    <2> QED BY <1>1, <2>1, InAckKeepsIInv
  <1>2. ASSUME NEW r \in Rtts, PktsAcked(r)
        PROVE  IInv'
    <2>1. r \in Nat /\ r > 0
      BY SenderAssumption
    <2>2. PacingRate(loss_cwnd, r) \in Nat
      BY <2>1, PacingRateIsNat
    <2> QED BY <1>2, <2>1, <2>2 DEF PktsAcked, window, history
  <1>3. CASE EnterLoss
    BY <1>3 DEF EnterLoss, history
  <1>4. CASE Undo
    BY <1>4 DEF Undo, history
  <1>5. CASE UNCHANGED vars
    BY <1>5 DEF vars, window, history
  <1> QED BY <1>1, <1>2, <1>3, <1>4, <1>5 DEF Next

\* A connection that uses this module takes its steps only.
LEMMA SenderInEndpoints == [EndpointsNext]_<<module, vars, cubicVars>> => [Next]_vars
  BY DEF EndpointsNext

\* Every variable keeps its type, although the code subtracts windows and
\* sequence numbers that it never compares as signed.
THEOREM SenderTypes == EndpointsSpec => []TypeOK
  <1>1. EndpointsInit => IInv
    BY InitIInv DEF EndpointsInit
  <1>2. IInv => TypeOK
    BY DEF IInv
  <1> QED BY <1>1, <1>2, NextKeepsIInv, SenderInEndpoints, PTL DEF EndpointsSpec

\* The window never falls below six packets (or where it began), however many
\* packets each ACK brakes for: the u32 subtraction in abc_in_ack() cannot wrap.
THEOREM SenderFloor == EndpointsSpec => []WindowFloor
  <1>1. EndpointsInit => IInv
    BY InitIInv DEF EndpointsInit
  <1>2. IInv => WindowFloor
    BY DEF IInv
  <1> QED BY <1>1, <1>2, NextKeepsIInv, SenderInEndpoints, PTL DEF EndpointsSpec

\* The additive increase adds at most one packet in Floor ACKs, whatever brakes
\* do to the window between them.
THEOREM SenderIncrease == EndpointsSpec => []IncreaseIsSlow
  <1>1. EndpointsInit => IInv
    BY InitIInv DEF EndpointsInit
  <1>2. IInv => IncreaseIsSlow
    BY DEF IInv
  <1> QED BY <1>1, <1>2, NextKeepsIInv, SenderInEndpoints, PTL DEF EndpointsSpec

\* 29 s over a round-trip time r, times r: the division never adds to what it
\* divides, and loses less than half of it when r is at most 29 s.
LEMMA HalfIsKept ==
  ASSUME NEW time \in Nat, NEW r \in Nat, r > 0
  PROVE  /\ time \div r \in Nat /\ (time \div r) * r <= time
         /\ r <= time => 2 * ((time \div r) * r) > time
  <1> DEFINE q == time \div r
             left == time % r
  <1>1. /\ q \in Int /\ left \in Int /\ time = r * q + left
        /\ 0 <= left /\ left < r /\ q >= 0
    BY Divided, SMT
  <1> HIDE DEF q, left
  <1>2. r * q = q * r /\ q * r \in Int
    BY <1>1, SMT
  <1>3. q * r <= time
    BY <1>1, <1>2, SMT
  <1>4. ASSUME r <= time
        PROVE  2 * (q * r) > time
    <2>1. q >= 1
      BY <1>1, <1>4, SMT
    <2>2. q * r >= r
      BY <1>1, <2>1, SMT
    <2> QED BY <1>1, <1>2, <2>2, SMT
  <1> QED BY <1>1, <1>3, <1>4 DEF q

\* The window and the round trip that a new pacing rate comes from.
LEMMA PacingStep ==
  ASSUME TypeOK, [Next]_vars, <<sk_pacing_rate, rtt>>' # <<sk_pacing_rate, rtt>>
  PROVE  /\ rtt' \in Nat /\ rtt' > 0
         /\ sk_pacing_rate' = PacingRate(loss_cwnd, rtt')
  <1>1. PICK r \in Rtts : PktsAcked(r)
    BY DEF Next, InAck, EnterLoss, Undo, vars
  <1> QED BY <1>1, SenderAssumption DEF PktsAcked

\* A rate lets two packets of 1450 bytes out in a round trip for each packet of
\* the window at most, and one at least when nothing wraps within 29 s.
LEMMA PacedWithinBounds ==
  ASSUME NEW cwnd \in Nat, NEW r \in Nat, r > 0
  PROVE  /\ PacingRate(cwnd, r) * r <= 2900 * cwnd * Second
         /\ r <= 29 * Second /\ ~ RateWraps(cwnd, r)
              => PacingRate(cwnd, r) * r >= Segment * cwnd * Second
  <1> DEFINE time == 29 * Second
             share == time \div r
             all == (cwnd * 100) * share
             rate == all % RateSpace
  <1>1. /\ RateSpace \in Int /\ RateSpace > 0 /\ time \in Nat
        /\ Second \in Nat /\ Segment \in Nat /\ Segment <= 1450
    BY SenderAssumption, SMT
  <1>2. rate = PacingRate(cwnd, r) /\ (RateWraps(cwnd, r) <=> all >= RateSpace)
    BY DEF PacingRate, RateWraps
  <1>3. time = 29 * Second
    OBVIOUS
  <1> HIDE DEF time
  <1>4. /\ share \in Nat /\ share * r <= time
        /\ r <= time => 2 * (share * r) > time
    BY <1>1, HalfIsKept
  <1> HIDE DEF share
  <1>5. all \in Nat /\ all * r = (cwnd * 100) * (share * r)
    BY <1>4, SMT
  <1>6. all = (cwnd * 100) * share
    OBVIOUS
  <1> HIDE DEF all
  <1>7. /\ rate \in Nat /\ rate <= all
        /\ all < RateSpace => rate = all
    BY <1>1, <1>5, SMT
  <1> HIDE DEF rate
  <1> DEFINE spread == share * r
  <1>8. spread \in Nat /\ spread <= 29 * Second
    BY <1>3, <1>4, SMT
  <1>9. all * r = (cwnd * 100) * spread
    BY <1>5
  <1>10. r <= time => 2 * spread > 29 * Second
    BY <1>3, <1>4
  <1> HIDE DEF spread
  <1>11. rate * r <= all * r
    BY <1>5, <1>7, SMT
  <1>12. (cwnd * 100) * spread <= (cwnd * 100) * (29 * Second)
    BY <1>1, <1>8, SMT
  <1>13. (cwnd * 100) * (29 * Second) = 2900 * cwnd * Second
    BY <1>1, SMT
  <1>14. rate * r <= 2900 * cwnd * Second
    BY <1>1, <1>5, <1>7, <1>8, <1>9, <1>11, <1>12, <1>13, SMT
  <1>15. ASSUME r <= time, all < RateSpace
         PROVE  rate * r >= Segment * cwnd * Second
    <2>1. rate * r = (cwnd * 100) * spread
      BY <1>7, <1>9, <1>15
    <2>2. (cwnd * 50) * (2 * spread) >= (cwnd * 50) * (29 * Second)
      BY <1>1, <1>8, <1>10, <1>15, SMT
    <2>3. (cwnd * 50) * (2 * spread) = (cwnd * 100) * spread
      BY <1>8, SMT
    <2>4. (cwnd * 50) * (29 * Second) = 1450 * (cwnd * Second)
      BY <1>1, SMT
    <2> DEFINE window_s == cwnd * Second
    <2>5. window_s \in Nat /\ Segment * cwnd * Second = Segment * window_s
      BY <1>1, SMT
    <2>6. rate * r >= 1450 * window_s
      BY <2>1, <2>2, <2>3, <2>4
    <2>7. rate * r \in Int
      BY <1>5, <1>7, SMT
    <2> HIDE DEF window_s
    <2>8. 1450 * window_s >= Segment * window_s
      BY <1>1, <2>5, SMT
    <2> DEFINE paced == rate * r
               least == Segment * window_s
    <2>9. least \in Int
      BY <1>1, <2>5
    <2> HIDE DEF paced, least
    <2>10. paced >= least
      BY <2>5, <2>6, <2>7, <2>8, <2>9, SMT DEF paced, least
    <2> QED BY <2>5, <2>10 DEF paced, least
  <1> QED BY <1>1, <1>2, <1>3, <1>5, <1>14, <1>15, SMT

\* The pacing rate is between one and two packets of 1450 bytes for each packet
\* of the window and round trip, for every round trip up to 29 s whose product
\* fits in 32 bits; it is never above that, whatever the round trip.
THEOREM SenderPaces == EndpointsSpec => PacingFollowsWindow
  <1>1. EndpointsInit => IInv
    BY InitIInv DEF EndpointsInit
  <1>2. IInv /\ [Next]_vars
        => [<<sk_pacing_rate, rtt>>' # <<sk_pacing_rate, rtt>> =>
            /\ sk_pacing_rate' * rtt' <= 2900 * loss_cwnd * Second
            /\ rtt' <= 29 * Second /\ ~ RateWraps(loss_cwnd, rtt')
                 => sk_pacing_rate' * rtt' >= Segment * loss_cwnd * Second]_vars
    <2> SUFFICES ASSUME IInv, [Next]_vars,
                        <<sk_pacing_rate, rtt>>' # <<sk_pacing_rate, rtt>>
                 PROVE  /\ sk_pacing_rate' * rtt' <= 2900 * loss_cwnd * Second
                        /\ rtt' <= 29 * Second /\ ~ RateWraps(loss_cwnd, rtt')
                             => sk_pacing_rate' * rtt' >= Segment * loss_cwnd * Second
      OBVIOUS
    <2>1. TypeOK /\ loss_cwnd \in Nat
      BY DEF IInv, TypeOK
    <2>2. /\ rtt' \in Nat /\ rtt' > 0
          /\ sk_pacing_rate' = PacingRate(loss_cwnd, rtt')
      BY <2>1, PacingStep
    <2> QED BY <2>1, <2>2, PacedWithinBounds
  <1> QED BY <1>1, <1>2, NextKeepsIInv, SenderInEndpoints, PTL
          DEF EndpointsSpec, PacingFollowsWindow
----
(***************************************************************************)
(* The module with Cubic.                                                  *)
(***************************************************************************)
Connection ==
  [snd_cwnd : Nat, snd_cwnd_cnt : Nat, snd_ssthresh : Nat, prior_cwnd : Nat,
   cnt : Int, last_max_cwnd : Nat, last_cwnd : Nat, last_time : Nat,
   bic_origin_point : Nat, bic_K : Nat, delay_min : Nat, epoch_start : Nat,
   ack_cnt : Int, tcp_cwnd : Int, sample_cnt : Nat, found : BOOLEAN,
   round_start : Nat, end_seq_high : BOOLEAN, last_ack : Nat, curr_rtt : Nat,
   cubic_snd_cwnd : Nat, loss_cwnd : Nat, ai_cwnd : Int, sk_pacing_rate : Nat]

\* How far the Cubic window can go, and the window of its last loss.
Reach == AtLeast(Clamp, 10)

\* Both windows hold a packet, so that one is left after a timeout.
Windows(s) ==
  /\ s.loss_cwnd >= 1 /\ s.snd_ssthresh >= 1
  /\ s.cubic_snd_cwnd \in 1..Reach /\ s.last_max_cwnd \in 0..Reach

\* The count that a window was noted with is at least two, so that Update() may
\* keep it while the window stays.
Holds(s) == Windows(s) /\ (s.last_cwnd # 0 => s.cnt >= 2)
Fit(s) == s \in Connection /\ Holds(s)

Obeys(s) == s.snd_cwnd <= s.loss_cwnd /\ s.snd_cwnd <= s.cubic_snd_cwnd

\* The inductive invariant of the module.
CubicTypes ==
  /\ jiffies \in Nat
  /\ acking \in Advances \cup {NoAck} /\ undone \in BOOLEAN
  /\ credited \in Int /\ grown \in Int
CubicIInv ==
  /\ CubicTypes /\ Fit(ca) /\ CubicGrowthIsBounded
  /\ InitCwnd <= 10 => NeitherWindowExceeded

\* The lesser of the two windows is above neither.
LEMMA LesserObeys ==
  ASSUME NEW s \in Connection
  PROVE  /\ [s EXCEPT !.snd_cwnd = Lesser(s)] \in Connection
         /\ Obeys([s EXCEPT !.snd_cwnd = Lesser(s)])
         /\ Holds(s) => Holds([s EXCEPT !.snd_cwnd = Lesser(s)])
         /\ [s EXCEPT !.snd_cwnd = Lesser(s)].snd_cwnd_cnt = s.snd_cwnd_cnt
  <1>1. Lesser(s) \in Nat /\ Lesser(s) <= s.loss_cwnd /\ Lesser(s) <= s.cubic_snd_cwnd
    BY DEF Connection, Lesser, AtMost
  <1> HIDE DEF Lesser
  <1> QED BY <1>1 DEF Connection, Obeys, Holds, Windows

\* A brake leaves a packet at least.
LEMMA AdjustedHolds ==
  ASSUME NEW cwnd \in Nat, cwnd >= 1, NEW n \in Nat, NEW ece \in BOOLEAN
  PROVE  Adjusted(cwnd, n, ece) \in Nat /\ Adjusted(cwnd, n, ece) >= 1
  BY SMT DEF Adjusted, CanBrake

\* An ACK, but for a window update, gives the kernel the lesser window.
LEMMA InAckEventFits ==
  ASSUME NEW s, Fit(s), NEW advance \in Nat, NEW win_update \in BOOLEAN,
         NEW ece \in BOOLEAN
  PROVE  /\ Fit(InAckEvent(s, advance, win_update, ece))
         /\ InAckEvent(s, advance, win_update, ece).snd_cwnd_cnt = s.snd_cwnd_cnt
         /\ ~ (advance = 0 /\ win_update) => Obeys(InAckEvent(s, advance, win_update, ece))
         /\ advance = 0 /\ win_update => InAckEvent(s, advance, win_update, ece) = s
  <1>1. CASE advance = 0 /\ win_update
    BY <1>1 DEF InAckEvent
  <1>2. CASE ~ (advance = 0 /\ win_update)
    <2> DEFINE due == s.ai_cwnd + 1 > s.loss_cwnd
               increased == IF due THEN s.loss_cwnd + 1 ELSE s.loss_cwnd
               ai == s.ai_cwnd + 1 - (IF due THEN s.loss_cwnd ELSE 0)
               cwnd == Adjusted(increased, advance, ece)
               acked == [s EXCEPT !.ai_cwnd = ai, !.loss_cwnd = cwnd]
    <2>1. InAckEvent(s, advance, win_update, ece) = [acked EXCEPT !.snd_cwnd = Lesser(acked)]
      BY <1>2 DEF InAckEvent, Fit, Connection
    <2>2. s.ai_cwnd \in Int /\ s.loss_cwnd \in Nat /\ s.loss_cwnd >= 1
      BY DEF Fit, Connection, Holds, Windows
    <2>3. ai \in Int /\ increased \in Nat /\ increased >= 1
      BY <2>2, SMT
    <2>4. cwnd \in Nat /\ cwnd >= 1
      BY <2>3, AdjustedHolds
    <2> HIDE DEF ai, cwnd
    <2>5. acked \in Connection /\ Holds(acked) /\ acked.snd_cwnd_cnt = s.snd_cwnd_cnt
      BY <2>3, <2>4 DEF Fit, Connection, Holds, Windows
    <2> HIDE DEF acked
    <2> QED BY <1>2, <2>1, <2>5, LesserObeys DEF Fit
  <1> QED BY <1>1, <1>2

\* The factors of the curve are positive numbers.
LEMMA CubicFacts ==
  /\ BetaScale \in Int /\ BetaScale >= 8
  /\ CubeDivisor \in Int /\ CubeDivisor > 0
  /\ Hz \in Nat /\ Hz > 0 /\ MsPerJiffy \in Nat /\ MsPerJiffy > 0
  /\ BetaBase \in Nat /\ BetaPermil \in Nat /\ BetaPermil >= 1 /\ BetaPermil < BetaBase
  /\ Clamp \in Nat /\ Clamp >= 1 /\ Reach \in Nat /\ Reach >= 10 /\ Clamp <= Reach
  /\ BicScale \in Nat /\ CurveUnit \in Nat /\ JiffySpace \in Nat /\ JiffySpace > 0
  <1>1. BetaBase \in Nat /\ BetaPermil \in Nat /\ BetaPermil >= 1 /\ BetaPermil < BetaBase
    BY CubicAssumption, SMT
  <1>2. (8 * (BetaBase + BetaPermil)) \div 3 \in Int
    BY <1>1, SMT
  <1>3. BetaScale \in Int
    BY <1>1, <1>2, Divided DEF BetaScale
  <1>4. CurveUnit \in Int /\ CurveUnit > 0
    BY CubicAssumption, SMT
  <1>5. CurveUnit * CurveUnit > 0
    BY <1>4, SMT
  <1>6. (CurveUnit * CurveUnit) * CurveUnit > 0
    BY <1>4, <1>5, SMT
  <1>7. CubeDivisor = 1024 * ((CurveUnit * CurveUnit) * CurveUnit)
    BY <1>4, SMT DEF CubeDivisor
  <1>8. CubeDivisor \in Int /\ CubeDivisor > 0
    BY <1>4, <1>5, <1>6, <1>7, SMT
  <1>9. Reach \in Nat /\ Reach >= 10 /\ Clamp <= Reach
    BY CubicAssumption, SMT DEF Reach, AtLeast
  <1> QED BY <1>1, <1>3, <1>8, <1>9, CubicAssumption, FactorsAssumption, SMT

\* The clocks that the module reads are natural numbers.
LEMMA ClockFacts ==
  ASSUME jiffies \in Nat
  PROVE  Jiffies32 \in Nat /\ MsClock \in Nat
  <1>1. /\ JiffySpace \in Int /\ JiffySpace > 0 /\ MsSpace \in Int /\ MsSpace > 0
        /\ jiffies * MsPerJiffy \in Int
    BY CubicAssumption, SMT
  <1>2. jiffies % JiffySpace \in Nat
    BY <1>1, Divided
  <1> DEFINE ms == jiffies * MsPerJiffy
  <1> HIDE DEF ms
  <1>3. ms \in Int
    BY <1>1 DEF ms
  <1>4. ms % MsSpace \in Nat
    BY <1>1, <1>3, Divided
  <1> QED BY <1>2, <1>4 DEF Jiffies32, MsClock, ms

\* Slow start does not go past the threshold nor the clamp.
LEMMA SlowStartFits ==
  ASSUME jiffies \in Nat, NEW s, Fit(s), NEW acked \in Nat, NEW high \in BOOLEAN
  PROVE  /\ Fit(SlowStart(s, acked, high))
         /\ SlowStart(s, acked, high).snd_cwnd_cnt = s.snd_cwnd_cnt
         /\ InSlowStart(s) => Obeys(SlowStart(s, acked, high))
         /\ ~ InSlowStart(s) => SlowStart(s, acked, high) = s
         /\ Unused(s, acked) \in Nat
  <1>1. CASE ~ InSlowStart(s)
    BY <1>1 DEF SlowStart, Unused
  <1>2. CASE InSlowStart(s)
    <2> DEFINE round == IF s.end_seq_high THEN HystartReset(s, high) ELSE s
               target == AtMost(SlowStartTarget(s, acked), Clamp)
               grew == [round EXCEPT !.cubic_snd_cwnd = target]
    <2>1. SlowStart(s, acked, high) = [grew EXCEPT !.snd_cwnd = Lesser(grew)]
      BY <1>2 DEF SlowStart
    <2>2. MsClock \in Nat
      BY ClockFacts
    <2>3. HystartReset(s, high) \in Connection /\ Holds(HystartReset(s, high))
          /\ HystartReset(s, high).snd_cwnd_cnt = s.snd_cwnd_cnt
      BY <2>2 DEF Fit, Connection, Holds, Windows, HystartReset
    <2>4. round \in Connection /\ Holds(round) /\ round.snd_cwnd_cnt = s.snd_cwnd_cnt
      BY <2>3 DEF Fit
    <2>5. /\ s.cubic_snd_cwnd \in Nat /\ s.cubic_snd_cwnd >= 1
          /\ s.snd_ssthresh \in Nat /\ s.snd_ssthresh >= 1
          /\ s.cubic_snd_cwnd < s.snd_ssthresh
      BY <1>2, CubicFacts DEF Fit, Connection, Holds, Windows, InSlowStart
    <2>6. /\ SlowStartTarget(s, acked) \in Nat
          /\ SlowStartTarget(s, acked) >= s.cubic_snd_cwnd
          /\ SlowStartTarget(s, acked) <= s.cubic_snd_cwnd + acked
      BY <2>5, SMT DEF SlowStartTarget, AtMost
    <2>7. target \in 1..Reach
      BY <2>5, <2>6, CubicFacts, SMT DEF AtMost
    <2>8. Unused(s, acked) \in Nat
      BY <1>2, <2>5, <2>6, SMT DEF Unused
    <2> HIDE DEF round, target
    <2>9. grew \in Connection /\ Holds(grew) /\ grew.snd_cwnd_cnt = s.snd_cwnd_cnt
      BY <2>4, <2>7, CubicFacts DEF Connection, Holds, Windows
    <2> HIDE DEF grew
    <2> QED BY <1>2, <2>1, <2>8, <2>9, LesserObeys DEF Fit
  <1> QED BY <1>1, <1>2

\* The caps by what is in flight leave a packet, and the lesser window.
LEMMA CappedFits ==
  ASSUME NEW s, Fit(s), NEW inflight \in Nat
  PROVE  /\ Fit(Capped(s, inflight)) /\ Obeys(Capped(s, inflight))
         /\ Capped(s, inflight).snd_cwnd_cnt = s.snd_cwnd_cnt
  <1> DEFINE cubic == AtMost(s.cubic_snd_cwnd, 2 * inflight + 5)
             loss == AtMost(s.loss_cwnd, 2 * inflight + 5)
             capped == [s EXCEPT !.cubic_snd_cwnd = cubic, !.loss_cwnd = loss]
  <1>1. Capped(s, inflight) = [capped EXCEPT !.snd_cwnd = Lesser(capped)]
    BY DEF Capped
  <1>2. s.cubic_snd_cwnd \in 1..Reach /\ s.loss_cwnd \in Nat /\ s.loss_cwnd >= 1
    BY DEF Fit, Connection, Holds, Windows
  <1>3. cubic \in 1..Reach /\ loss \in Nat /\ loss >= 1
    BY <1>2, CubicFacts, SMT DEF AtMost
  <1> HIDE DEF cubic, loss
  <1>4. cubic \in Nat
    BY <1>3, CubicFacts
  <1>5. capped \in Connection
    BY <1>3, <1>4 DEF Fit, Connection
  <1>6. Holds(capped) /\ capped.snd_cwnd_cnt = s.snd_cwnd_cnt
    BY <1>3 DEF Fit, Connection, Holds, Windows
  <1> HIDE DEF capped
  <1> QED BY <1>1, <1>5, <1>6, LesserObeys DEF Fit

\* A part of a number is no more than it.
LEMMA PartOf ==
  ASSUME NEW x \in Nat, NEW b \in Nat, NEW c \in Nat, b <= c, c > 0
  PROVE  (x * b) \div c \in Nat /\ (x * b) \div c <= x
  BY SMT

\* A loss leaves at least two packets to the Cubic window, and no more than it had.
LEMMA RecalculatedFits ==
  ASSUME NEW s, Fit(s), NEW inflight \in Nat
  PROVE  /\ Fit(Recalculated(s, inflight)) /\ Obeys(Recalculated(s, inflight))
         /\ Recalculated(s, inflight).snd_cwnd_cnt = s.snd_cwnd_cnt
  <1> DEFINE max == IF s.cubic_snd_cwnd < s.last_max_cwnd
                    THEN (s.cubic_snd_cwnd * (BetaBase + BetaPermil)) \div (2 * BetaBase)
                    ELSE s.cubic_snd_cwnd
             reduced == AtLeast((s.cubic_snd_cwnd * BetaPermil) \div BetaBase, 2)
             after == [s EXCEPT !.epoch_start = 0, !.last_max_cwnd = max,
                                !.prior_cwnd = s.snd_cwnd, !.cubic_snd_cwnd = reduced,
                                !.snd_ssthresh = reduced]
  <1>1. Recalculated(s, inflight) = Capped(after, inflight)
    BY DEF Recalculated
  <1>2. s.cubic_snd_cwnd \in Nat /\ s.cubic_snd_cwnd \in 1..Reach /\ s.snd_cwnd \in Nat
    BY CubicFacts DEF Fit, Connection, Holds, Windows
  <1>3. max \in 0..Reach
    <2>1. BetaBase + BetaPermil \in Nat /\ BetaBase + BetaPermil <= 2 * BetaBase
          /\ 2 * BetaBase \in Nat /\ 2 * BetaBase > 0
      BY CubicFacts, SMT
    <2> QED BY <1>2, <2>1, PartOf, CubicFacts
  <1>4. reduced \in 1..Reach
    <2>1. /\ (s.cubic_snd_cwnd * BetaPermil) \div BetaBase \in Nat
          /\ (s.cubic_snd_cwnd * BetaPermil) \div BetaBase <= s.cubic_snd_cwnd
      BY <1>2, PartOf, CubicFacts
    <2> QED BY <1>2, <2>1, CubicFacts DEF AtLeast
  <1> HIDE DEF max, reduced
  <1>5. max \in Nat /\ reduced \in Nat
    BY <1>3, <1>4, CubicFacts
  <1>6. after \in Connection
    BY <1>2, <1>5 DEF Fit, Connection
  <1>7. Holds(after) /\ after.snd_cwnd_cnt = s.snd_cwnd_cnt
    BY <1>3, <1>4 DEF Fit, Connection, Holds, Windows
  <1> HIDE DEF after
  <1> QED BY <1>1, <1>6, <1>7, CappedFits DEF Fit

\* The windows and what congestion avoidance counts stay as they are.
Kept(r, s) ==
  /\ r.snd_cwnd = s.snd_cwnd /\ r.loss_cwnd = s.loss_cwnd
  /\ r.cubic_snd_cwnd = s.cubic_snd_cwnd /\ r.snd_cwnd_cnt = s.snd_cwnd_cnt

\* HyStart may end slow start, at the window of Cubic.
LEMMA HystartFits ==
  ASSUME jiffies \in Nat, NEW s, Fit(s), NEW delay \in Nat
  PROVE  Fit(HystartUpdate(s, delay)) /\ Kept(HystartUpdate(s, delay), s)
  <1> DEFINE close == Signed(MsClock - s.last_ack, MsSpace) <= AckDelta
             train == close /\ (MsClock - s.round_start) % MsSpace > s.delay_min \div 16
             limit == AtMost(DelayMax, AtLeast(DelayMin, s.delay_min \div 8))
             late == s.sample_cnt >= MinSamples /\ s.curr_rtt > s.delay_min + limit
             sampled == IF s.sample_cnt >= MinSamples THEN s
                        ELSE [s EXCEPT !.sample_cnt = @ + 1,
                               !.curr_rtt = IF @ = 0 THEN delay ELSE AtMost(@, delay)]
             ended == train \/ late
             last == IF close THEN MsClock ELSE sampled.last_ack
             over == IF ended THEN s.cubic_snd_cwnd ELSE sampled.snd_ssthresh
             after == [sampled EXCEPT !.last_ack = last, !.found = ended,
                                      !.snd_ssthresh = over]
  <1>1. CASE s.found
    BY <1>1 DEF HystartUpdate, Kept
  <1>2. CASE ~ s.found
    <2>1. HystartUpdate(s, delay) = after
      BY <1>2 DEF HystartUpdate, Fit, Connection
    <2>2. MsClock \in Nat /\ ended \in BOOLEAN
      BY ClockFacts
    <2> HIDE DEF ended
    <2>3. sampled \in Connection /\ Holds(sampled) /\ Kept(sampled, s)
      <3>1. AtMost(s.curr_rtt, delay) \in Nat /\ s.sample_cnt + 1 \in Nat
        BY DEF AtMost, Fit, Connection
      <3> QED BY <3>1 DEF Fit, Connection, Holds, Windows, Kept
    <2> HIDE DEF sampled
    <2>4. s.cubic_snd_cwnd \in Nat /\ s.cubic_snd_cwnd >= 1 /\ s.snd_ssthresh >= 1
      BY CubicFacts DEF Fit, Connection, Holds, Windows
    <2>5. last \in Nat /\ over \in Nat /\ over >= 1
      BY <2>2, <2>3, <2>4 DEF Connection, Holds, Windows
    <2> HIDE DEF last, over
    <2>6. after \in Connection
      BY <2>2, <2>3, <2>5 DEF Connection
    <2>7. Holds(after) /\ Kept(after, s)
      BY <2>3, <2>5 DEF Connection, Holds, Windows, Kept
    <2> HIDE DEF after
    <2> QED BY <2>1, <2>6, <2>7 DEF Fit
  <1> QED BY <1>1, <1>2

\* A sample of the round trip moves no window.
LEMMA RttSampledFits ==
  ASSUME jiffies \in Nat, NEW s, Fit(s), NEW rtt_us \in Nat
  PROVE  Fit(RttSampled(s, rtt_us)) /\ Kept(RttSampled(s, rtt_us), s)
  <1>1. ASSUME NEW r, Fit(r)
        PROVE  Fit(Paced(r, rtt_us)) /\ Kept(Paced(r, rtt_us), r)
    <2>1. CASE rtt_us = 0
      BY <1>1, <2>1 DEF Paced, Kept
    <2>2. CASE rtt_us # 0
      <3> DEFINE rate == PacingRate(r.snd_cwnd, rtt_us)
      <3>1. r.snd_cwnd \in Nat /\ rtt_us > 0
        BY <1>1, <2>2 DEF Fit, Connection
      <3>2. rate \in Nat
        BY <3>1, PacingRateIsNat
      <3>3. Paced(r, rtt_us) = [r EXCEPT !.sk_pacing_rate = rate]
        BY <2>2 DEF Paced
      <3> HIDE DEF rate
      <3> QED BY <1>1, <3>2, <3>3 DEF Fit, Connection, Holds, Windows, Kept
    <2> QED BY <2>1, <2>2
  <1> DEFINE eighths == (8 * rtt_us * 1000) \div Second
             delay == AtLeast(eighths, 1)
             shortest == IF s.delay_min = 0 THEN delay ELSE AtMost(s.delay_min, delay)
             timed == [s EXCEPT !.delay_min = shortest]
             updated == IF s.snd_cwnd < s.snd_ssthresh /\ s.cubic_snd_cwnd >= LowWindow
                        THEN HystartUpdate(timed, delay) ELSE timed
  <1>2. CASE s.epoch_start # 0 /\ Since(s.epoch_start) < Hz
    BY <1>2 DEF RttSampled, Kept
  <1>3. CASE ~ (s.epoch_start # 0 /\ Since(s.epoch_start) < Hz)
    <2>1. RttSampled(s, rtt_us) = Paced(updated, rtt_us)
      BY <1>3 DEF RttSampled
    <2>2. delay \in Nat
      <3>1. Second \in Int /\ Second > 0 /\ 8 * rtt_us * 1000 \in Int
        BY SenderAssumption, SMT
      <3> DEFINE us == 8 * rtt_us * 1000
      <3> HIDE DEF us
      <3>2. us \in Int
        BY <3>1 DEF us
      <3>3. us \div Second \in Int
        BY <3>1, <3>2, Divided
      <3>4. eighths \in Int
        BY <3>3 DEF us
      <3> HIDE DEF eighths
      <3> QED BY <3>4 DEF AtLeast
    <2> HIDE DEF delay
    <2>3. shortest \in Nat
      BY <2>2 DEF AtMost, Fit, Connection
    <2> HIDE DEF shortest
    <2>4. Fit(timed) /\ Kept(timed, s)
      BY <2>3 DEF Fit, Connection, Holds, Windows, Kept
    <2> HIDE DEF timed
    <2>5. Fit(updated) /\ Kept(updated, s)
      BY <2>2, <2>4, HystartFits DEF Kept
    <2> HIDE DEF updated
    <2> QED BY <1>1, <2>1, <2>5 DEF Kept
  <1> QED BY <1>2, <1>3

\* A difference of two times, on a clock that wraps, is a number.
LEMMA SinceIsInt ==
  ASSUME jiffies \in Nat, NEW t \in Nat
  PROVE  Since(t) \in Int
  <1>1. JiffySpace \div 2 \in Int /\ JiffySpace \in Int /\ JiffySpace > 0
    BY CubicFacts, Divided
  <1>2. jiffies - t + JiffySpace \div 2 \in Int
    BY <1>1
  <1>3. (jiffies - t + JiffySpace \div 2) % JiffySpace \in Int
    BY <1>1, <1>2, Divided
  <1> QED BY <1>1, <1>3 DEF Since, Signed

----
(***************************************************************************)
(* The cube root that the curve asks for.                                  *)
(***************************************************************************)
\* A set of naturals with zero and the successor of each of its members.
LEMMA Induction ==
  ASSUME NEW T, 0 \in T, \A n \in Nat : n \in T => n + 1 \in T
  PROVE  \A n \in Nat : n \in T
  <1> DEFINE others == {n \in Nat : n \notin T}
             R == OpToRel(<, Nat)
  <1> SUFFICES ASSUME others # {}
               PROVE  FALSE
    OBVIOUS
  <1>1. IsWellFoundedOn(R, Nat) /\ others \in SUBSET Nat
    BY NatLessThanWellFounded
  <1>2. PICK n \in others : \A m \in others : <<m, n>> \notin R
    BY <1>1, WFMin
  <1>3. n \in Nat /\ n \notin T /\ n # 0
    BY <1>2
  <1>4. n - 1 \in Nat /\ n - 1 < n /\ (n - 1) + 1 = n
    BY <1>3
  <1>5. n - 1 \in T
    <2>1. <<n - 1, n>> \in R
      BY <1>3, <1>4 DEF OpToRel
    <2> QED BY <1>2, <1>4, <2>1
  <1> QED BY <1>3, <1>4, <1>5

\* A function that is 1 at zero and doubles from each number to the next.
Doubles(f, k) == f = [i \in 0..k |-> IF i = 0 THEN 1 ELSE 2 * f[i - 1]]

LEMMA DoublesExists ==
  ASSUME NEW n \in Nat
  PROVE  \E f : Doubles(f, n)
  <1> DEFINE T == {k \in Nat : \E f : Doubles(f, k)}
  <1>1. 0 \in T
    <2> DEFINE g == [i \in 0..0 |-> 1]
    <2>1. \A i \in 0..0 : i = 0
      OBVIOUS
    <2>2. Doubles(g, 0)
      BY <2>1 DEF Doubles
    <2> QED BY <2>2
  <1>2. ASSUME NEW k \in Nat, k \in T
        PROVE  k + 1 \in T
    <2>1. PICK f : Doubles(f, k)
      BY <1>2
    <2> DEFINE g == [i \in 0..(k + 1) |-> IF i = k + 1 THEN 2 * f[k] ELSE f[i]]
    <2>2. \A i \in 0..k : f[i] = IF i = 0 THEN 1 ELSE 2 * f[i - 1]
      BY <2>1 DEF Doubles
    <2>3. ASSUME NEW i \in 0..(k + 1)
          PROVE  g[i] = IF i = 0 THEN 1 ELSE 2 * g[i - 1]
      <3>1. CASE i = k + 1
        <4>1. i # 0 /\ i - 1 = k /\ k \in 0..(k + 1) /\ k # k + 1
          BY <3>1
        <4> QED BY <3>1, <4>1
      <3>2. CASE i # k + 1
        <4>1. i \in 0..k /\ (i # 0 => i - 1 \in 0..(k + 1) /\ i - 1 # k + 1)
          BY <3>2
        <4>2. g[i] = f[i] /\ (i # 0 => g[i - 1] = f[i - 1])
          BY <3>2, <4>1
        <4> HIDE DEF g
        <4> QED BY <2>2, <4>1, <4>2
      <3> QED BY <3>1, <3>2
    <2>4. g = [i \in 0..(k + 1) |-> g[i]]
      OBVIOUS
    <2> HIDE DEF g
    <2>5. Doubles(g, k + 1)
      BY <2>3, <2>4 DEF Doubles
    <2> QED BY <2>5
  <1> HIDE DEF T
  <1>3. n \in T
    BY <1>1, <1>2, Induction
  <1> QED BY <1>3 DEF T

\* The powers of two that a word knows.
LEMMA PowerFacts ==
  /\ Power[0] = 1
  /\ \A i \in 0..(WordBits - 1) : Power[i + 1] = 2 * Power[i]
  /\ \A i \in 0..WordBits : Power[i] \in Nat \ {0}
  <1>0. WordBits \in Nat
    BY FactorsAssumption
  <1>1. Power = CHOOSE f : Doubles(f, WordBits)
    BY DEF Power, Doubles
  <1>2. Doubles(Power, WordBits)
    BY <1>0, <1>1, DoublesExists
  <1>3. \A i \in 0..WordBits : Power[i] = IF i = 0 THEN 1 ELSE 2 * Power[i - 1]
    <2> DEFINE P == Power
    <2>1. Doubles(P, WordBits)
      BY <1>2
    <2> HIDE DEF P
    <2>2. \A i \in 0..WordBits : P[i] = IF i = 0 THEN 1 ELSE 2 * P[i - 1]
      BY <2>1 DEF Doubles
    <2> QED BY <2>2 DEF P
  <1>4. Power[0] = 1
    BY <1>0, <1>3
  <1>5. ASSUME NEW i \in 0..(WordBits - 1)
        PROVE  Power[i + 1] = 2 * Power[i]
    <2>1. i + 1 \in 0..WordBits /\ i + 1 # 0 /\ (i + 1) - 1 = i
      BY <1>0
    <2> QED BY <1>3, <2>1
  <1> DEFINE T == {k \in Nat : k <= WordBits => Power[k] \in Nat \ {0}}
  <1>6. 0 \in T
    BY <1>4
  <1>7. ASSUME NEW k \in Nat, k \in T
        PROVE  k + 1 \in T
    <2> SUFFICES ASSUME k + 1 <= WordBits
                 PROVE  Power[k + 1] \in Nat \ {0}
      OBVIOUS
    <2>1. k \in 0..(WordBits - 1) /\ Power[k] \in Nat \ {0}
      BY <1>0, <1>7
    <2>2. Power[k + 1] = 2 * Power[k]
      BY <1>5, <2>1
    <2> QED BY <2>1, <2>2
  <1>8. \A k \in Nat : k \in T
    <2> HIDE DEF T
    <2> QED BY <1>6, <1>7, Induction
  <1>9. \A i \in 0..WordBits : Power[i] \in Nat \ {0}
    BY <1>0, <1>8
  <1> QED BY <1>4, <1>5, <1>9

\* fls64(): a number that fits in a word lies between two powers of two.
LEMMA BitLengthFacts ==
  ASSUME NEW a \in Nat, a < Power[WordBits], a >= 64
  PROVE  /\ BitLength(a) \in 7..WordBits
         /\ a < Power[BitLength(a)] /\ a >= Power[BitLength(a) - 1]
  <1> DEFINE T == {k \in Nat : k <= WordBits /\ a < Power[k]
                     => \E n \in 0..WordBits : a < Power[n] /\ (n = 0 \/ a >= Power[n - 1])}
             n == BitLength(a)
  <1>0. WordBits \in Nat /\ WordBits >= 7
    BY FactorsAssumption
  <1>1. 0 \in T
    BY <1>0
  <1>2. ASSUME NEW k \in Nat, k \in T
        PROVE  k + 1 \in T
    <2> SUFFICES ASSUME k + 1 <= WordBits, a < Power[k + 1]
                 PROVE  \E m \in 0..WordBits : a < Power[m] /\ (m = 0 \/ a >= Power[m - 1])
      OBVIOUS
    <2>1. CASE a < Power[k]
      BY <1>0, <1>2, <2>1
    <2>2. CASE ~ (a < Power[k])
      <3>1. k + 1 \in 0..WordBits /\ k \in 0..WordBits /\ (k + 1) - 1 = k
        BY <1>0
      <3>2. a >= Power[k]
        BY <2>2, <3>1, PowerFacts
      <3> QED BY <3>1, <3>2
    <2> QED BY <2>1, <2>2
  <1>3. WordBits \in T
    <2>1. \A k \in Nat : k \in T
      <3> HIDE DEF T
      <3> QED BY <1>1, <1>2, Induction
    <2> QED BY <1>0, <2>1
  <1>4. n \in 0..WordBits /\ a < Power[n] /\ (n = 0 \/ a >= Power[n - 1])
    BY <1>0, <1>3 DEF BitLength
  <1>5. /\ Power[0] = 1 /\ Power[1] = 2 /\ Power[2] = 4 /\ Power[3] = 8
        /\ Power[4] = 16 /\ Power[5] = 32 /\ Power[6] = 64
    <2>1. /\ 0 \in 0..(WordBits - 1) /\ 1 \in 0..(WordBits - 1) /\ 2 \in 0..(WordBits - 1)
          /\ 3 \in 0..(WordBits - 1) /\ 4 \in 0..(WordBits - 1) /\ 5 \in 0..(WordBits - 1)
      BY <1>0
    <2>2. /\ Power[0 + 1] = 2 * Power[0] /\ Power[1 + 1] = 2 * Power[1]
          /\ Power[2 + 1] = 2 * Power[2] /\ Power[3 + 1] = 2 * Power[3]
          /\ Power[4 + 1] = 2 * Power[4] /\ Power[5 + 1] = 2 * Power[5]
      BY <2>1, PowerFacts
    <2> QED BY <2>2, PowerFacts
  <1> HIDE DEF n
  <1>6. n \notin 0..6
    <2>1. n = 0 \/ n = 1 \/ n = 2 \/ n = 3 \/ n = 4 \/ n = 5 \/ n = 6 \/ n \notin 0..6
      OBVIOUS
    <2> QED BY <1>4, <1>5, <2>1
  <1>7. n \in 7..WordBits
    BY <1>0, <1>4, <1>6
  <1> QED BY <1>4, <1>7 DEF n

\* The three to five bits that are left of a number index the table past its
\* smallest entries.
LEMMA LeadingBits ==
  ASSUME NEW a \in Nat, a < Power[WordBits], a >= 64,
         NEW b \in Int, b = (BitLength(a) * 84) \div 256 - 1
  PROVE  /\ b \in 1..WordBits /\ b * 3 \in 0..WordBits
         /\ a \div Power[b * 3] \in 8..63
  <1> DEFINE n == BitLength(a)
             c == b * 3
             m == Power[c]
  <1>1. n \in 7..WordBits /\ WordBits \in 7..64 /\ a < Power[n] /\ a >= Power[n - 1]
    BY BitLengthFacts, FactorsAssumption
  <1>2. b >= 1 /\ c + 4 <= n /\ n <= c + 6
    <2> HIDE DEF n
    <2>1. n \in 7..64
      BY <1>1
    <2> QED BY <2>1, SMT DEF n
  <1>3. n \in Int /\ c \in Int /\ b <= WordBits /\ c + 6 >= n
    BY <1>1, <1>2
  <1> HIDE DEF n, c
  <1>4. c \in 0..WordBits /\ m \in Nat \ {0}
    BY <1>1, <1>2, <1>3, PowerFacts DEF c
  <1>5. Power[c + 3] = 8 * m
    <2>1. c \in 0..(WordBits - 1) /\ c + 1 \in 0..(WordBits - 1) /\ c + 2 \in 0..(WordBits - 1)
          /\ (c + 1) + 1 = c + 2 /\ (c + 2) + 1 = c + 3
      BY <1>1, <1>2, <1>3, <1>4
    <2>2. Power[c + 1] = 2 * m /\ Power[(c + 1) + 1] = 2 * Power[c + 1]
          /\ Power[(c + 2) + 1] = 2 * Power[c + 2]
      BY <2>1, PowerFacts
    <2> HIDE DEF m
    <2> QED BY <1>4, <2>1, <2>2
  <1>6. /\ c + 4 <= WordBits => Power[c + 4] = 16 * m
        /\ c + 5 <= WordBits => Power[c + 5] = 32 * m
        /\ c + 6 <= WordBits => Power[c + 6] = 64 * m
    <2>1. /\ c + 4 <= WordBits => Power[(c + 3) + 1] = 2 * Power[c + 3]
          /\ c + 5 <= WordBits => Power[(c + 4) + 1] = 2 * Power[c + 4]
          /\ c + 6 <= WordBits => Power[(c + 5) + 1] = 2 * Power[c + 5]
      BY <1>1, <1>4, PowerFacts
    <2>2. (c + 3) + 1 = c + 4 /\ (c + 4) + 1 = c + 5 /\ (c + 5) + 1 = c + 6
      BY <1>3
    <2> HIDE DEF m
    <2> QED BY <1>1, <1>3, <1>4, <1>5, <2>1, <2>2
  <1>7. Power[n] <= 64 * m /\ Power[n - 1] >= 8 * m
    <2>1. n = c + 4 \/ n = c + 5 \/ n = c + 6
      BY <1>2, <1>3
    <2>2. CASE n = c + 4
      <3>1. n - 1 = c + 3 /\ c + 4 <= WordBits
        BY <1>1, <1>3, <2>2
      <3> HIDE DEF m
      <3> QED BY <1>4, <1>5, <1>6, <2>2, <3>1
    <2>3. CASE n = c + 5
      <3>1. n - 1 = c + 4 /\ c + 4 <= WordBits /\ c + 5 <= WordBits
        BY <1>1, <1>3, <2>3
      <3> HIDE DEF m
      <3> QED BY <1>4, <1>6, <2>3, <3>1
    <2>4. CASE n = c + 6
      <3>1. n - 1 = c + 5 /\ c + 5 <= WordBits /\ c + 6 <= WordBits
        BY <1>1, <1>3, <2>4
      <3> HIDE DEF m
      <3> QED BY <1>4, <1>6, <2>4, <3>1
    <2> QED BY <2>1, <2>2, <2>3, <2>4
  <1>8. Power[n] \in Int /\ Power[n - 1] \in Int
    BY <1>1, PowerFacts
  <1>9. a < 64 * m /\ a >= 8 * m
    <2> HIDE DEF m
    <2> QED BY <1>1, <1>4, <1>7, <1>8
  <1>10. a \div m \in 8..63
    <2> DEFINE q == a \div m
    <2> HIDE DEF m
    <2>1. q \in Int /\ a = m * q + (a % m) /\ 0 <= a % m /\ a % m < m /\ a % m \in Int
      BY <1>4, Divided
    <2> HIDE DEF q
    <2>2. q >= 8
      <3> SUFFICES ASSUME q <= 7
                   PROVE  FALSE
        BY <2>1
      <3>1. m * q <= m * 7
        BY <1>4, <2>1, SMT
      <3> QED BY <1>4, <1>9, <2>1, <3>1, SMT
    <2>3. q <= 63
      <3> SUFFICES ASSUME q >= 64
                   PROVE  FALSE
        BY <2>1
      <3>1. m * q >= m * 64
        BY <1>4, <2>1, SMT
      <3> QED BY <1>4, <1>9, <2>1, <3>1, SMT
    <2> QED BY <2>1, <2>2, <2>3 DEF q
  <1> QED BY <1>2, <1>3, <1>4, <1>10 DEF c

\* The entries of the table.
LEMMA TableFacts ==
  /\ \A i \in 1..64 : RootTable[i] \in Nat
  /\ \A i \in 9..64 : RootTable[i] >= 123
  BY SMT DEF RootTable

\* cubic_root() looks into its table only where there are entries, and divides by
\* no zero: the estimate of any number of a word past the table is four at least.
THEOREM CubicRootIsSafe ==
  \A a \in 64..(Power[WordBits] - 1), b \in Int :
    b = (BitLength(a) * 84) \div 256 - 1
      => LET leading == a \div Power[b * 3]
             x == RootEstimate(leading, b)
         IN /\ b \in 1..WordBits /\ leading \in 8..63
            /\ x \in Nat /\ x >= 4 /\ x * (x - 1) \in Nat \ {0}
  <1> SUFFICES ASSUME NEW a \in 64..(Power[WordBits] - 1), NEW b \in Int,
                      b = (BitLength(a) * 84) \div 256 - 1
               PROVE  LET leading == a \div Power[b * 3]
                          x == RootEstimate(leading, b)
                      IN /\ b \in 1..WordBits /\ leading \in 8..63
                         /\ x \in Nat /\ x >= 4 /\ x * (x - 1) \in Nat \ {0}
    OBVIOUS
  <1> DEFINE m == Power[b]
             q == a \div Power[b * 3]
             v == RootTable[q + 1]
             x == RootEstimate(q, b)
  <1>1. a \in Nat /\ a >= 64 /\ a < Power[WordBits]
    BY PowerFacts, FactorsAssumption
  <1>2. b \in 1..WordBits /\ q \in 8..63
    BY <1>1, LeadingBits
  <1>3. x = ((v + 10) * m) \div 64
    BY DEF RootEstimate
  <1> HIDE DEF q, x
  <1>4. v \in Nat /\ v >= 123
    <2>1. q + 1 \in 9..64 /\ q + 1 \in 1..64
      BY <1>2
    <2> QED BY <2>1, TableFacts
  <1>5. m \in Nat /\ m >= 2
    <2>1. b - 1 \in 0..(WordBits - 1) /\ b - 1 \in 0..WordBits /\ (b - 1) + 1 = b
      BY <1>2, FactorsAssumption
    <2>2. Power[(b - 1) + 1] = 2 * Power[b - 1] /\ Power[b - 1] \in Nat \ {0}
      BY <2>1, PowerFacts
    <2> QED BY <2>1, <2>2
  <1> HIDE DEF v, m
  <1>6. (v + 10) * m \in Int /\ (v + 10) * m >= 266
    BY <1>4, <1>5, SMT
  <1>7. x \in Nat /\ x >= 4
    <2> DEFINE e == (v + 10) * m
    <2>1. e \in Int /\ e >= 266 /\ x = e \div 64
      BY <1>3, <1>6
    <2> HIDE DEF e
    <2> QED BY <2>1, SMT
  <1>8. x * (x - 1) \in Nat \ {0}
    BY <1>7, SMT
  <1> QED BY <1>2, <1>7, <1>8 DEF q, x

\* The root of what a word holds is a number, found in the table or by the step.
LEMMA CubicRootIsANumber ==
  ASSUME NEW a \in Nat, a < Power[WordBits]
  PROVE  CubicRoot(a) \in Nat
  <1>1. CASE a < 64
    <2>1. a + 1 \in 1..64
      BY <1>1
    <2>2. RootTable[a + 1] \in Nat
      BY <2>1, TableFacts
    <2>3. (RootTable[a + 1] + 35) \div 64 \in Nat
      BY <2>2, Divided
    <2> QED BY <1>1, <2>3 DEF CubicRoot
  <1>2. CASE ~ (a < 64)
    <2> DEFINE b == (BitLength(a) * 84) \div 256 - 1
               x == RootEstimate(a \div Power[b * 3], b)
               d == x * (x - 1)
               y == a \div d
    <2>1. a >= 64 /\ BitLength(a) \in Nat /\ a \in 64..(Power[WordBits] - 1)
      BY <1>2, BitLengthFacts, PowerFacts, FactorsAssumption
    <2>2. b \in Int
      BY <2>1, Divided
    <2>3. x \in Nat /\ d \in Nat \ {0}
      BY <2>1, <2>2, CubicRootIsSafe
    <2>4. CubicRoot(a) = ((2 * x + y) * 341) \div 1024
      BY <1>2 DEF CubicRoot, NewtonStep
    <2> HIDE DEF x, d
    <2>5. y \in Nat
      BY <2>3, Divided
    <2> HIDE DEF y
    <2>6. (2 * x + y) * 341 \in Nat
      BY <2>3, <2>5
    <2> QED BY <2>4, <2>6, Divided
  <1> QED BY <1>1, <1>2

\* The curve asks for the roots of numbers that a word holds.
LEMMA RootOfWindows ==
  ASSUME NEW d \in 1..Reach
  PROVE  CubicRoot(CubeFactor * d) \in Nat
  <1>1. CubeFactor \in Nat
    <2>1. CubeDivisor \in Int /\ CubeDivisor >= 0 /\ BicScale \in Int /\ BicScale > 0
      BY CubicFacts, CubicAssumption
    <2> QED BY <2>1, Divided DEF CubeFactor
  <1>2. Reach \in Nat /\ d \in Nat /\ d <= Reach
    BY CubicFacts
  <1>3. CubeFactor * d \in Nat /\ CubeFactor * Reach \in Nat /\ CubeFactor * d <= CubeFactor * Reach
    <2> DEFINE f == CubeFactor
    <2>1. f \in Nat
      BY <1>1
    <2> HIDE DEF f
    <2>2. f * d \in Nat /\ f * Reach \in Nat /\ f * d <= f * Reach
      BY <1>2, <2>1, SMT
    <2> QED BY <2>2 DEF f
  <1>4. CubeFactor * Reach < Power[WordBits]
    BY FactorsAssumption DEF Reach
  <1>5. Power[WordBits] \in Nat
    BY PowerFacts, FactorsAssumption
  <1> QED BY <1>3, <1>4, <1>5, CubicRootIsANumber
----
\* A new epoch asks for the root of a difference of two windows.
LEMMA NewEpochFits ==
  ASSUME jiffies \in Nat, NEW s \in Connection, Windows(s), NEW acked \in Nat
  PROVE  LET r == NewEpoch(s, s.cubic_snd_cwnd, acked)
         IN r \in Connection /\ Windows(r) /\ Kept(r, s)
  <1> DEFINE cwnd == s.cubic_snd_cwnd
             below == s.last_max_cwnd > cwnd
             k == IF below THEN CubicRoot(CubeFactor * (s.last_max_cwnd - cwnd)) ELSE 0
             origin == IF below THEN s.last_max_cwnd ELSE cwnd
  <1>1. CASE s.epoch_start # 0
    BY <1>1 DEF NewEpoch, Kept
  <1>2. CASE s.epoch_start = 0
    <2>1. s.last_max_cwnd \in 0..Reach /\ cwnd \in 1..Reach
      BY DEF Windows
    <2>2. below => s.last_max_cwnd - cwnd \in 1..Reach
      BY <2>1, CubicFacts
    <2>3. k \in Nat
      BY <2>2, RootOfWindows
    <2>4. NewEpoch(s, cwnd, acked) =
            [s EXCEPT !.epoch_start = Jiffies32, !.ack_cnt = acked, !.tcp_cwnd = cwnd,
                      !.bic_K = k, !.bic_origin_point = origin]
      BY <1>2 DEF NewEpoch
    <2>5. cwnd \in Int /\ origin \in Nat /\ acked \in Int /\ Jiffies32 \in Nat
      BY ClockFacts DEF Connection
    <2> HIDE DEF k, origin
    <2> DEFINE turned == [s EXCEPT !.epoch_start = Jiffies32, !.bic_K = k,
                                   !.bic_origin_point = origin]
               e == [turned EXCEPT !.ack_cnt = acked, !.tcp_cwnd = cwnd]
    <2>6. NewEpoch(s, cwnd, acked) \in Connection
      <3>1. turned \in Connection
        BY <2>3, <2>5 DEF Connection
      <3>2. NewEpoch(s, cwnd, acked) = e
        BY <2>4 DEF Connection
      <3> HIDE DEF turned
      <3>3. \A a, w \in Int : [turned EXCEPT !.ack_cnt = a, !.tcp_cwnd = w] \in Connection
        BY <3>1 DEF Connection
      <3>4. e \in Connection
        BY <2>5, <3>3
      <3> QED BY <3>2, <3>4
    <2>7. Windows(NewEpoch(s, cwnd, acked)) /\ Kept(NewEpoch(s, cwnd, acked), s)
      BY <2>4 DEF Connection, Windows, Kept
    <2> QED BY <2>6, <2>7
  <1> QED BY <1>1, <1>2

\* The curve moves the count only.
LEMMA CurveFits ==
  ASSUME jiffies \in Nat, NEW s \in Connection, Windows(s)
  PROVE  LET r == Curve(s, s.cubic_snd_cwnd)
         IN r \in Connection /\ Windows(r) /\ Kept(r, s)
  <1> DEFINE cwnd == s.cubic_snd_cwnd
             elapsed == Since(s.epoch_start) + JiffiesOf(s.delay_min \div 8)
             t == (elapsed * CurveUnit) \div Hz
             offs == IF t < s.bic_K THEN s.bic_K - t ELSE t - s.bic_K
             cube == BicScale * offs * offs * offs
             delta == cube \div CubeDivisor
             target == IF t < s.bic_K THEN s.bic_origin_point - delta
                       ELSE s.bic_origin_point + delta
             cnt == IF target > cwnd THEN cwnd \div (target - cwnd) ELSE 100 * cwnd
             count == IF s.last_max_cwnd = 0 THEN AtMost(cnt, 20) ELSE cnt
  <1>1. Since(s.epoch_start) \in Int
    BY SinceIsInt DEF Connection
  <1>2. s.delay_min \div 8 \in Int
    BY Divided DEF Connection
  <1>3. JiffiesOf(s.delay_min \div 8) \in Int
    <2>1. s.delay_min \div 8 + MsPerJiffy - 1 \in Int
      BY <1>2, CubicFacts
    <2> QED BY <2>1, Divided, CubicFacts DEF JiffiesOf
  <1>4. elapsed * CurveUnit \in Int
    BY <1>1, <1>3, CubicFacts
  <1> HIDE DEF elapsed
  <1>5. t \in Int
    BY <1>4, Divided, CubicFacts
  <1> HIDE DEF t
  <1>6. offs \in Int
    BY <1>5 DEF Connection
  <1> HIDE DEF offs
  <1>7. cube \in Int
    BY <1>6, CubicFacts
  <1> HIDE DEF cube
  <1>8. delta \in Int
    BY <1>7, Divided, CubicFacts
  <1> HIDE DEF delta
  <1>9. target \in Int /\ cwnd \in Int
    BY <1>8 DEF Connection
  <1> HIDE DEF target
  <1>10. cnt \in Int
    BY <1>9, Divided
  <1> HIDE DEF cnt
  <1>11. count \in Int
    BY <1>10 DEF AtMost
  <1>12. Curve(s, cwnd) = [s EXCEPT !.cnt = count]
    BY DEF Curve, elapsed, t, offs, cube, delta, target, cnt
  <1> HIDE DEF count
  <1> QED BY <1>11, <1>12 DEF Connection, Windows, Kept

\* The estimate of TCP's window makes the count less at most.
LEMMA FriendlyFits ==
  ASSUME NEW s \in Connection, Windows(s)
  PROVE  LET r == Friendly(s, s.cubic_snd_cwnd)
         IN r \in Connection /\ Windows(r) /\ Kept(r, s)
  <1> DEFINE cwnd == s.cubic_snd_cwnd
             delta == (cwnd * BetaScale) \div 8
             turns == IF s.ack_cnt > delta THEN (s.ack_cnt - 1) \div delta ELSE 0
             tcp == s.tcp_cwnd + turns
             acks == s.ack_cnt - turns * delta
             count == IF tcp > cwnd THEN AtMost(s.cnt, cwnd \div (tcp - cwnd)) ELSE s.cnt
  <1>1. cwnd \in Int /\ cwnd >= 1
    BY CubicFacts DEF Connection, Windows
  <1>2. cwnd * BetaScale \in Int /\ cwnd * BetaScale >= 8
    BY <1>1, CubicFacts, SMT
  <1>3. delta \in Int /\ delta >= 1
    BY <1>2, SMT
  <1> HIDE DEF delta
  <1>4. turns \in Int
    BY <1>3, Divided DEF Connection
  <1> HIDE DEF turns
  <1>5. tcp \in Int /\ acks \in Int
    BY <1>3, <1>4 DEF Connection
  <1> HIDE DEF tcp, acks
  <1>6. count \in Int
    BY <1>1, <1>5, Divided DEF Connection, AtMost
  <1>7. Friendly(s, cwnd) = [s EXCEPT !.ack_cnt = acks, !.tcp_cwnd = tcp, !.cnt = count]
    BY DEF Friendly, Connection, delta, turns, tcp, acks
  <1> HIDE DEF count
  <1> QED BY <1>5, <1>6, <1>7, ZenonT(30) DEF Connection, Windows, Kept

\* However the count came about, congestion avoidance divides by two at least.
LEMMA UpdateFits ==
  ASSUME jiffies \in Nat, NEW s, Fit(s), NEW acked \in Nat
  PROVE  /\ Fit(Update(s, acked)) /\ Kept(Update(s, acked), s)
         /\ Update(s, acked).cnt >= 2
  <1> DEFINE cwnd == s.cubic_snd_cwnd
             noted == [s EXCEPT !.ack_cnt = @ + acked]
             timed == [noted EXCEPT !.last_cwnd = cwnd, !.last_time = Jiffies32]
             epoch == NewEpoch(timed, cwnd, acked)
             curved == Curve(epoch, cwnd)
  <1>1. s.ack_cnt + acked \in Int /\ cwnd \in Nat /\ cwnd # 0 /\ Jiffies32 \in Nat
    BY CubicFacts, ClockFacts DEF Fit, Connection, Holds, Windows
  <1>2. noted \in Connection /\ Windows(noted) /\ Kept(noted, s)
        /\ noted.last_cwnd = s.last_cwnd /\ noted.cnt = s.cnt
    BY <1>1 DEF Fit, Connection, Holds, Windows, Kept
  <1> HIDE DEF noted
  <1>3. ASSUME NEW r \in Connection, Windows(r), Kept(r, s)
        PROVE  /\ Fit(GrowthBounded(Friendly(r, cwnd)))
               /\ Kept(GrowthBounded(Friendly(r, cwnd)), s)
               /\ GrowthBounded(Friendly(r, cwnd)).cnt >= 2
    <2> DEFINE f == Friendly(r, cwnd)
               cnt == AtLeast(f.cnt, 2)
    <2>1. f \in Connection /\ Windows(f) /\ Kept(f, s)
      BY <1>3, FriendlyFits DEF Kept
    <2>2. GrowthBounded(f) = [f EXCEPT !.cnt = cnt]
      BY DEF GrowthBounded
    <2> HIDE DEF f
    <2>3. cnt \in Int /\ cnt >= 2
      BY <2>1 DEF Connection, AtLeast
    <2> HIDE DEF cnt
    <2>4. GrowthBounded(f) \in Connection /\ GrowthBounded(f).cnt = cnt
      BY <2>1, <2>2, <2>3 DEF Connection
    <2>5. Windows(GrowthBounded(f)) /\ Kept(GrowthBounded(f), s)
      BY <2>1, <2>2 DEF Connection, Windows, Kept
    <2> QED BY <2>3, <2>4, <2>5 DEF Fit, Holds, f
  <1>4. CASE s.last_cwnd = cwnd /\ Since(s.last_time) <= Hz \div 32
    <2>1. Update(s, acked) = noted
      BY <1>4 DEF Update, noted
    <2> QED BY <1>1, <1>2, <1>4, <2>1 DEF Fit, Holds
  <1>5. CASE /\ ~ (s.last_cwnd = cwnd /\ Since(s.last_time) <= Hz \div 32)
             /\ s.epoch_start # 0 /\ Jiffies32 = s.last_time
    <2>1. Update(s, acked) = GrowthBounded(Friendly(noted, cwnd))
      BY <1>5 DEF Update, noted
    <2> QED BY <1>2, <1>3, <2>1
  <1>6. CASE /\ ~ (s.last_cwnd = cwnd /\ Since(s.last_time) <= Hz \div 32)
             /\ ~ (s.epoch_start # 0 /\ Jiffies32 = s.last_time)
    <2>1. Update(s, acked) = GrowthBounded(Friendly(curved, cwnd))
      BY <1>6 DEF Update, noted
    <2>2. timed \in Connection /\ Windows(timed) /\ Kept(timed, s)
      BY <1>1, <1>2 DEF Connection, Windows, Kept
    <2> HIDE DEF timed
    <2>3. epoch \in Connection /\ Windows(epoch) /\ Kept(epoch, s)
      BY <2>2, NewEpochFits DEF Kept
    <2> HIDE DEF epoch
    <2>4. curved \in Connection /\ Windows(curved) /\ Kept(curved, s)
      BY <2>3, CurveFits DEF Kept
    <2> HIDE DEF curved
    <2> QED BY <1>3, <2>1, <2>4
  <1> QED BY <1>4, <1>5, <1>6

\* A share and the remainder cost no more than what they came from.
LEMMA CreditsSuffice ==
  ASSUME NEW credit \in Nat, NEW cnt \in Int, cnt >= 2
  PROVE  /\ credit \div cnt \in Nat /\ credit % cnt \in Nat
         /\ 2 * (credit \div cnt) + (credit % cnt) <= credit
  BY SMT

\* The segments that counted pay for the growth twice over.
LEMMA CongAvoidAiFits ==
  ASSUME NEW s, Fit(s), s.cnt >= 2, NEW acked \in Nat
  PROVE  LET r == CongAvoidAi(s, acked) IN
         /\ Fit(r)
         /\ 2 * (r.cubic_snd_cwnd - s.cubic_snd_cwnd) + r.snd_cwnd_cnt
              <= s.snd_cwnd_cnt + acked
  <1> DEFINE gentle == s.snd_cwnd_cnt >= s.cnt
             credit == (IF gentle THEN 0 ELSE s.snd_cwnd_cnt) + acked
             share == credit \div s.cnt
             rest == credit % s.cnt
             cwnd == s.cubic_snd_cwnd + (IF gentle THEN 1 ELSE 0) + share
             clamped == AtMost(cwnd, Clamp)
             r == CongAvoidAi(s, acked)
  <1>1. r = [s EXCEPT !.snd_cwnd_cnt = rest, !.cubic_snd_cwnd = clamped]
    BY DEF CongAvoidAi
  <1>2. /\ s.cnt \in Int /\ s.snd_cwnd_cnt \in Nat
        /\ s.cubic_snd_cwnd \in Nat /\ s.cubic_snd_cwnd >= 1
    BY CubicFacts DEF Fit, Connection, Holds, Windows
  <1>3. credit \in Nat /\ gentle \in BOOLEAN
    BY <1>2
  <1>4. share \in Nat /\ rest \in Nat /\ 2 * share + rest <= credit
    <2>1. credit \in Nat /\ s.cnt \in Int /\ s.cnt >= 2
      BY <1>2, <1>3
    <2> HIDE DEF credit
    <2>2. share \in Nat /\ rest \in Nat
      BY <2>1, CreditsSuffice
    <2>3. 2 * share + rest <= credit
      BY <2>1, SMT
    <2> QED BY <2>2, <2>3
  <1> HIDE DEF share, rest
  <1>5. clamped \in 1..Reach /\ clamped \in Nat /\ clamped <= cwnd
    BY <1>2, <1>4, CubicFacts, SMT DEF AtMost
  <1>6. 2 * (cwnd - s.cubic_snd_cwnd) + rest <= s.snd_cwnd_cnt + acked
    BY <1>2, <1>4, SMT
  <1>7. 2 * (clamped - s.cubic_snd_cwnd) + rest <= s.snd_cwnd_cnt + acked
    BY <1>2, <1>4, <1>5, <1>6, SMT
  <1> HIDE DEF clamped
  <1>8. r \in Connection /\ r.cubic_snd_cwnd = clamped /\ r.snd_cwnd_cnt = rest
    BY <1>1, <1>4, <1>5, ZenonT(30) DEF Fit, Connection
  <1>9. Holds(r)
    BY <1>1, <1>5 DEF Fit, Connection, Holds, Windows
  <1> QED BY <1>7, <1>8, <1>9 DEF Fit

\* A timeout leaves one packet, and both windows above it.
LEMMA LossFits ==
  ASSUME jiffies \in Nat, Fit(ca), NEW high \in BOOLEAN, Loss(high)
  PROVE  Fit(ca') /\ Obeys(ca') /\ ca'.snd_cwnd_cnt = 0
  <1> DEFINE taken == [ca EXCEPT !.prior_cwnd = ca.snd_cwnd, !.snd_cwnd = 1,
                                 !.snd_cwnd_cnt = 0]
             reset == Reset(taken)
  <1>1. ca' = HystartReset(reset, high)
    BY DEF Loss
  <1>2. /\ taken \in Connection /\ Windows(taken)
        /\ taken.snd_cwnd = 1 /\ taken.snd_cwnd_cnt = 0
    BY DEF Fit, Connection, Holds, Windows
  <1> HIDE DEF taken
  <1>3. reset \in Connection
    <2> DEFINE half == [taken EXCEPT !.cnt = 0, !.last_max_cwnd = 0, !.last_cwnd = 0,
                                     !.last_time = 0]
               most == [half EXCEPT !.bic_origin_point = 0, !.bic_K = 0, !.delay_min = 0,
                                    !.epoch_start = 0]
    <2>1. \A r \in Connection, a \in Int, n \in Nat :
            [r EXCEPT !.cnt = a, !.last_max_cwnd = n, !.last_cwnd = n,
                      !.last_time = n] \in Connection
      BY ZenonT(30) DEF Connection
    <2>2. \A r \in Connection, n \in Nat :
            [r EXCEPT !.bic_origin_point = n, !.bic_K = n, !.delay_min = n,
                      !.epoch_start = n] \in Connection
      BY ZenonT(30) DEF Connection
    <2>3. \A r \in Connection, a \in Int :
            [r EXCEPT !.ack_cnt = a, !.tcp_cwnd = a, !.found = FALSE] \in Connection
      BY ZenonT(30) DEF Connection
    <2>4. 0 \in Int /\ 0 \in Nat
      OBVIOUS
    <2>5. half \in Connection
      BY <1>2, <2>1, <2>4
    <2>6. reset = [most EXCEPT !.ack_cnt = 0, !.tcp_cwnd = 0, !.found = FALSE]
      BY <1>2 DEF Reset, Connection
    <2> HIDE DEF half
    <2>7. most \in Connection
      BY <2>2, <2>4, <2>5
    <2> HIDE DEF most, reset
    <2> QED BY <2>3, <2>4, <2>6, <2>7
  <1>4. /\ Kept(reset, taken) /\ reset.last_cwnd = 0
        /\ reset.last_max_cwnd = 0 /\ reset.snd_ssthresh = taken.snd_ssthresh
    BY <1>2 DEF Reset, Connection, Kept
  <1>5. Windows(reset)
    BY <1>2, <1>4, CubicFacts DEF Windows, Kept
  <1> HIDE DEF reset
  <1>6. MsClock \in Nat
    BY ClockFacts
  <1>7. /\ ca' \in Connection /\ Kept(ca', reset) /\ ca'.last_cwnd = 0
        /\ ca'.last_max_cwnd = reset.last_max_cwnd
        /\ ca'.snd_ssthresh = reset.snd_ssthresh
    BY <1>1, <1>3, <1>4, <1>6 DEF HystartReset, Connection, Kept
  <1>8. Windows(ca')
    BY <1>5, <1>7 DEF Windows, Kept
  <1>9. ca'.cubic_snd_cwnd >= 1 /\ ca'.loss_cwnd >= 1
    BY <1>8, CubicFacts DEF Windows
  <1>10. ca'.snd_cwnd = 1 /\ ca'.snd_cwnd_cnt = 0
    BY <1>2, <1>4, <1>7 DEF Kept
  <1> QED BY <1>7, <1>8, <1>9, <1>10 DEF Fit, Holds, Obeys

\* Read in the next state, the properties speak of the next connection.
LEMMA NextConnection ==
  /\ Fit(ca)' <=> Fit(ca')
  /\ NeitherWindowExceeded' <=> undone' \/ Obeys(ca')
  /\ CubicGrowthIsBounded' <=> 2 * grown' + ca'.snd_cwnd_cnt <= credited'
  BY DEF Fit, Holds, Windows, Obeys, NeitherWindowExceeded, CubicGrowthIsBounded

LEMMA InitCubicIInv == CubicInit => CubicIInv
  <1> SUFFICES ASSUME CubicInit
               PROVE  CubicIInv
    OBVIOUS
  <1>1. PICK start \in Starts, high \in BOOLEAN :
          /\ jiffies = start
          /\ ca = [snd_cwnd |-> InitCwnd, snd_cwnd_cnt |-> 0, snd_ssthresh |-> Clamp + 1,
             prior_cwnd |-> InitCwnd,
             cnt |-> 0, last_max_cwnd |-> 0, last_cwnd |-> 0, last_time |-> 0,
             bic_origin_point |-> 0, bic_K |-> 0, delay_min |-> 0, epoch_start |-> 0,
             ack_cnt |-> 0, tcp_cwnd |-> 0, sample_cnt |-> 0, found |-> FALSE,
             round_start |-> MsClock, end_seq_high |-> high,
             last_ack |-> MsClock, curr_rtt |-> 0, cubic_snd_cwnd |-> 10,
             loss_cwnd |-> InitCwnd, ai_cwnd |-> 0, sk_pacing_rate |-> 0]
          /\ acking = NoAck /\ undone = FALSE /\ credited = 0 /\ grown = 0
    BY DEF CubicInit
  <1>2. start \in Nat /\ InitCwnd \in Nat /\ InitCwnd >= 1
    BY CubicAssumption, SenderAssumption, SMT
  <1>3. MsClock \in Nat /\ Clamp + 1 \in Nat /\ Clamp + 1 >= 1
    BY <1>1, <1>2, ClockFacts, CubicFacts
  <1>4. ca \in Connection
    BY <1>1, <1>2, <1>3 DEF Connection
  <1>5. /\ ca.loss_cwnd >= 1 /\ ca.snd_ssthresh >= 1 /\ ca.cubic_snd_cwnd = 10
        /\ ca.last_max_cwnd = 0 /\ ca.last_cwnd = 0 /\ ca.snd_cwnd_cnt = 0
        /\ ca.snd_cwnd = ca.loss_cwnd
    BY <1>1, <1>2, <1>3
  <1>6. Fit(ca)
    BY <1>4, <1>5, CubicFacts DEF Fit, Holds, Windows
  <1>7. jiffies \in Nat /\ credited \in Int /\ grown \in Int
    BY <1>1, <1>2
  <1>8. acking \in Advances \cup {NoAck} /\ undone \in BOOLEAN
    BY <1>1
  <1>9. CubicGrowthIsBounded
    BY <1>1, <1>5 DEF CubicGrowthIsBounded
  <1>10. InitCwnd <= 10 => NeitherWindowExceeded
    <2>1. ca.loss_cwnd = InitCwnd
      BY <1>1
    <2> QED BY <1>2, <1>5, <2>1 DEF NeitherWindowExceeded
  <1> QED BY <1>6, <1>7, <1>8, <1>9, <1>10 DEF CubicIInv, CubicTypes

\* The end of an ACK: slow start, then congestion avoidance, then the caps.
LEMMA CongControlFits ==
  ASSUME CubicIInv, NEW inflight \in Inflights, NEW out \in Inflights,
         NEW limited \in BOOLEAN, NEW high \in BOOLEAN,
         CongControl(inflight, out, limited, high)
  PROVE  /\ Fit(ca') /\ credited' \in Int /\ grown' \in Int
         /\ 2 * grown' + ca'.snd_cwnd_cnt <= credited'
         /\ Obeys(ca') \/ (ca' = ca /\ undone' = undone)
         /\ jiffies' = jiffies /\ acking' = NoAck /\ undone' \in BOOLEAN
  <1> DEFINE started == SlowStart(ca, acking, high)
             rest == Unused(ca, acking)
             updated == Update(started, rest)
             avoided == CongAvoidAi(updated, rest)
             limits == IsCwndLimited(ca, out, limited)
             goes == limits /\ ~ (InSlowStart(ca) /\ rest = 0)
  <1>1. /\ acking # NoAck /\ acking' = NoAck
        /\ ca' = IF goes THEN Capped(avoided, inflight) ELSE IF limits THEN started ELSE ca
        /\ credited' = IF goes THEN credited + rest ELSE credited
        /\ grown' = IF goes THEN grown + avoided.cubic_snd_cwnd - started.cubic_snd_cwnd
                    ELSE grown
        /\ undone' = (undone /\ ~ limits)
        /\ jiffies' = jiffies
    BY DEF CongControl
  <1>2. acking \in Nat /\ jiffies \in Nat /\ inflight \in Nat
    BY <1>1, CubicAssumption DEF CubicIInv, CubicTypes
  <1>3. Fit(ca) /\ 2 * grown + ca.snd_cwnd_cnt <= credited
        /\ grown \in Int /\ credited \in Int /\ ca.snd_cwnd_cnt \in Nat
    BY DEF CubicIInv, CubicTypes, CubicGrowthIsBounded, Fit, Connection
  <1>4. /\ Fit(started) /\ started.snd_cwnd_cnt = ca.snd_cwnd_cnt
        /\ InSlowStart(ca) => Obeys(started)
        /\ rest \in Nat
    BY <1>2, <1>3, SlowStartFits
  <1>5. CASE goes
    <2>1. ca' = Capped(avoided, inflight) /\ credited' = credited + rest
          /\ grown' = grown + avoided.cubic_snd_cwnd - started.cubic_snd_cwnd
          /\ undone' = FALSE
      BY <1>1, <1>5
    <2> HIDE DEF started, rest, goes, limits
    <2>2. Fit(updated) /\ Kept(updated, started) /\ updated.cnt >= 2
      BY <1>2, <1>4, UpdateFits
    <2> HIDE DEF updated
    <2>3. /\ Fit(avoided)
          /\ 2 * (avoided.cubic_snd_cwnd - updated.cubic_snd_cwnd) + avoided.snd_cwnd_cnt
               <= updated.snd_cwnd_cnt + rest
      BY <1>4, <2>2, CongAvoidAiFits
    <2> HIDE DEF avoided
    <2>4. /\ Fit(ca') /\ Obeys(ca') /\ ca'.snd_cwnd_cnt = avoided.snd_cwnd_cnt
      BY <1>2, <2>1, <2>3, CappedFits
    <2>5. /\ avoided.cubic_snd_cwnd \in Int /\ avoided.snd_cwnd_cnt \in Int
          /\ started.cubic_snd_cwnd \in Int
          /\ updated.cubic_snd_cwnd = started.cubic_snd_cwnd
          /\ updated.snd_cwnd_cnt = ca.snd_cwnd_cnt
      BY <1>4, <2>2, <2>3 DEF Fit, Connection, Kept
    <2> QED BY <1>1, <1>3, <1>4, <2>1, <2>3, <2>4, <2>5, SMT
  <1>6. CASE ~ goes
    <2>1. /\ ca' = IF limits THEN started ELSE ca
          /\ credited' = credited /\ grown' = grown /\ undone' = (undone /\ ~ limits)
      BY <1>1, <1>6
    <2>2. CASE limits
      <3>1. ca' = started /\ InSlowStart(ca) /\ undone' = FALSE
        BY <1>6, <2>1, <2>2
      <3> QED BY <1>1, <1>3, <1>4, <2>1, <3>1
    <2>3. CASE ~ limits
      <3>1. ca' = ca /\ undone' = undone
        BY <2>1, <2>3 DEF CubicIInv, CubicTypes
      <3>2. undone \in BOOLEAN
        BY DEF CubicIInv, CubicTypes
      <3> QED BY <1>1, <1>3, <2>1, <3>1, <3>2
    <2> QED BY <2>2, <2>3
  <1> QED BY <1>5, <1>6

\* What a step is to show: the growth is still paid for, and both windows are
\* obeyed, unless they were not before or a reduction was undone.
Paid == 2 * grown' + ca'.snd_cwnd_cnt <= credited'
Obedient == undone' \/ Obeys(ca') \/ ((Obeys(ca) => Obeys(ca')) /\ undone' = undone)

LEMMA CubicStep ==
  ASSUME CubicIInv, Fit(ca'), Paid, CubicTypes', Obedient
  PROVE  CubicIInv'
  <1>1. NeitherWindowExceeded => undone \/ Obeys(ca)
    BY DEF NeitherWindowExceeded, Obeys
  <1>2. InitCwnd <= 10 => undone' \/ Obeys(ca')
    BY <1>1 DEF CubicIInv, Obedient
  <1> QED BY <1>2, NextConnection DEF CubicIInv, Paid

LEMMA CubicNextKeepsIInv == CubicIInv /\ [CubicNext]_cubicVars => CubicIInv'
  <1> SUFFICES ASSUME CubicIInv, [CubicNext]_cubicVars
               PROVE  CubicIInv'
    OBVIOUS
  <1>1. /\ Fit(ca) /\ ca.snd_cwnd_cnt \in Nat /\ grown \in Int /\ credited \in Int
        /\ 2 * grown + ca.snd_cwnd_cnt <= credited
        /\ jiffies \in Nat /\ undone \in BOOLEAN
        /\ acking \in Advances \cup {NoAck}
    BY CubicFacts DEF CubicIInv, CubicTypes, CubicGrowthIsBounded, Fit, Connection
  <1>2. Advances \subseteq Nat /\ CubicRtts \subseteq Nat /\ Inflights \subseteq Nat
    BY CubicAssumption
  <1>3. ASSUME NEW advance \in Advances, NEW win_update \in BOOLEAN,
               NEW ece \in BOOLEAN, AckArrives(advance, win_update, ece)
        PROVE  CubicIInv'
    <2>1. /\ ca' = InAckEvent(ca, advance, win_update, ece) /\ acking' = advance
          /\ undone' = (undone /\ advance = 0 /\ win_update)
          /\ UNCHANGED <<jiffies, credited, grown>>
      BY <1>3 DEF AckArrives
    <2>2. /\ Fit(ca') /\ ca'.snd_cwnd_cnt = ca.snd_cwnd_cnt
          /\ ~ (advance = 0 /\ win_update) => Obeys(ca')
          /\ advance = 0 /\ win_update => ca' = ca
      BY <1>1, <1>2, <2>1, InAckEventFits, ZenonT(30)
    <2>3. CubicTypes'
      BY <1>1, <2>1 DEF CubicTypes
    <2>4. Obedient
      BY <1>1, <2>1, <2>2 DEF Obedient
    <2>5. Paid
      BY <1>1, <2>1, <2>2 DEF Paid
    <2> QED BY <2>2, <2>3, <2>4, <2>5, CubicStep
  <1>4. ASSUME NEW r \in CubicRtts, RttSample(r)
        PROVE  CubicIInv'
    <2>1. /\ ca' = RttSampled(ca, r)
          /\ UNCHANGED <<jiffies, acking, undone, credited, grown>>
      BY <1>4 DEF RttSample
    <2>2. Fit(ca') /\ Kept(ca', ca)
      BY <1>1, <1>2, <2>1, RttSampledFits
    <2>3. Obedient
      BY <2>1, <2>2 DEF Kept, Obeys, Obedient
    <2>4. CubicTypes'
      BY <1>1, <2>1 DEF CubicTypes
    <2>5. Paid
      BY <1>1, <2>1, <2>2 DEF Kept, Paid
    <2> QED BY <2>2, <2>3, <2>4, <2>5, CubicStep
  <1>5. ASSUME NEW inflight \in Inflights, EnterRecovery(inflight)
        PROVE  CubicIInv'
    <2>1. /\ ca' = Recalculated(ca, inflight) /\ undone' = FALSE
          /\ UNCHANGED <<jiffies, acking, credited, grown>>
      BY <1>5 DEF EnterRecovery
    <2>2. Fit(ca') /\ Obeys(ca') /\ ca'.snd_cwnd_cnt = ca.snd_cwnd_cnt
      BY <1>1, <1>2, <2>1, RecalculatedFits
    <2>3. CubicTypes'
      BY <1>1, <2>1 DEF CubicTypes
    <2>4. Obedient /\ Paid
      BY <1>1, <2>1, <2>2 DEF Obedient, Paid
    <2> QED BY <2>2, <2>3, <2>4, CubicStep
  <1>6. ASSUME NEW inflight \in Inflights, NEW out \in Inflights, NEW limited \in BOOLEAN,
               NEW high \in BOOLEAN, CongControl(inflight, out, limited, high)
        PROVE  CubicIInv'
    <2>1. /\ Fit(ca') /\ credited' \in Int /\ grown' \in Int
          /\ 2 * grown' + ca'.snd_cwnd_cnt <= credited'
          /\ Obeys(ca') \/ (ca' = ca /\ undone' = undone)
          /\ jiffies' = jiffies /\ acking' = NoAck /\ undone' \in BOOLEAN
      BY <1>6, CongControlFits
    <2>2. CubicTypes'
      BY <1>1, <2>1 DEF CubicTypes
    <2>3. Obedient /\ Paid
      BY <2>1 DEF Obedient, Paid
    <2> QED BY <2>1, <2>2, <2>3, CubicStep
  <1>7. ASSUME NEW idle \in 1..MaxTicks, TxStart(idle)
        PROVE  CubicIInv'
    <2> DEFINE moved == Shifted(ca, idle)
    <2>1. /\ ca' = [ca EXCEPT !.epoch_start = moved]
          /\ UNCHANGED <<jiffies, acking, undone, credited, grown>>
      BY <1>7 DEF TxStart
    <2>2. ca.epoch_start + idle \in Int /\ JiffySpace \in Int /\ JiffySpace > 0
      BY <1>1, CubicAssumption DEF Fit, Connection
    <2>3. (ca.epoch_start + idle) % JiffySpace \in Nat
      BY <2>2, Divided
    <2>4. moved \in Nat
      BY <1>1, <2>3, ClockFacts DEF Shifted
    <2> HIDE DEF moved
    <2>5. Fit(ca') /\ Kept(ca', ca)
      BY <1>1, <2>1, <2>4 DEF Fit, Connection, Holds, Windows, Kept
    <2>6. Obedient
      BY <2>1, <2>5 DEF Kept, Obeys, Obedient
    <2>7. CubicTypes'
      BY <1>1, <2>1 DEF CubicTypes
    <2>8. Paid
      BY <1>1, <2>1, <2>5 DEF Kept, Paid
    <2> QED BY <2>5, <2>6, <2>7, <2>8, CubicStep
  <1>8. ASSUME NEW high \in BOOLEAN, Loss(high)
        PROVE  CubicIInv'
    <2>1. UNCHANGED <<jiffies, acking, undone, credited, grown>>
      BY <1>8 DEF Loss
    <2>2. Fit(ca') /\ Obeys(ca') /\ ca'.snd_cwnd_cnt = 0
      BY <1>1, <1>8, LossFits
    <2>3. CubicTypes'
      BY <1>1, <2>1 DEF CubicTypes
    <2>4. Obedient /\ Paid
      BY <1>1, <2>1, <2>2 DEF Obedient, Paid
    <2> QED BY <2>2, <2>3, <2>4, CubicStep
  <1>9. CASE CubicUndo
    <2> DEFINE cwnd == AtLeast(ca.snd_cwnd, ca.prior_cwnd)
    <2>1. /\ ca' = [ca EXCEPT !.snd_cwnd = cwnd] /\ undone' = TRUE
          /\ UNCHANGED <<jiffies, acking, credited, grown>>
      BY <1>1, <1>9 DEF CubicUndo
    <2>2. cwnd \in Nat
      BY <1>1 DEF AtLeast, Fit, Connection
    <2> HIDE DEF cwnd
    <2>3. Fit(ca') /\ ca'.snd_cwnd_cnt = ca.snd_cwnd_cnt
      BY <1>1, <2>1, <2>2 DEF Fit, Connection, Holds, Windows
    <2>4. CubicTypes'
      BY <1>1, <2>1 DEF CubicTypes
    <2>5. Obedient /\ Paid
      BY <1>1, <2>1, <2>3 DEF Obedient, Paid
    <2> QED BY <2>3, <2>4, <2>5, CubicStep
  <1>10. CASE CubicTick
    <2>1. /\ jiffies' = jiffies + 1
          /\ UNCHANGED <<ca, acking, undone, credited, grown>>
      BY <1>10 DEF CubicTick
    <2>2. jiffies' \in Nat
      BY <1>1, <2>1
    <2>3. CubicTypes'
      BY <1>1, <2>1, <2>2 DEF CubicTypes
    <2>4. Obedient /\ Paid /\ Fit(ca')
      BY <1>1, <2>1 DEF Obedient, Paid
    <2> QED BY <2>3, <2>4, CubicStep
  <1>11. CASE UNCHANGED cubicVars
    <2>1. UNCHANGED <<jiffies, ca, acking, undone, credited, grown>>
      BY <1>11 DEF cubicVars
    <2>2. CubicTypes'
      BY <1>1, <2>1 DEF CubicTypes
    <2>3. Obedient /\ Paid /\ Fit(ca')
      BY <1>1, <2>1 DEF Obedient, Paid
    <2> QED BY <2>2, <2>3, CubicStep
  <1> QED BY <1>3, <1>4, <1>5, <1>6, <1>7, <1>8, <1>9, <1>10, <1>11 DEF CubicNext

LEMMA CubicInEndpoints ==
  [EndpointsNext]_<<module, vars, cubicVars>> => [CubicNext]_cubicVars
  BY DEF EndpointsNext

\* The window the kernel uses is above neither that of ABC nor that of Cubic,
\* but from an undo of the kernel to the next ACK, wherever the kernel starts a
\* connection with ten packets or fewer, as Cubic's window does.
THEOREM CubicObeysBoth ==
  ASSUME InitCwnd <= 10
  PROVE  EndpointsSpec => []NeitherWindowExceeded
  <1>1. EndpointsInit => CubicIInv
    BY InitCubicIInv DEF EndpointsInit
  <1>2. CubicIInv => NeitherWindowExceeded
    BY DEF CubicIInv
  <1> QED BY <1>1, <1>2, CubicNextKeepsIInv, CubicInEndpoints, PTL DEF EndpointsSpec

\* Congestion avoidance adds at most a packet for two that were acknowledged,
\* for every curve, clock, clamp and history of losses.
THEOREM CubicGrowsSlowly == EndpointsSpec => []CubicGrowthIsBounded
  <1>1. EndpointsInit => CubicIInv
    BY InitCubicIInv DEF EndpointsInit
  <1>2. CubicIInv => CubicGrowthIsBounded
    BY DEF CubicIInv
  <1> QED BY <1>1, <1>2, CubicNextKeepsIInv, CubicInEndpoints, PTL DEF EndpointsSpec
====

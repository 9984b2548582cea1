---- MODULE AbcCubic ----
(***************************************************************************)
(* The ABC congestion control module with Cubic (tcp_abccubic.c): it keeps *)
(* an ABC window that follows the marks and a Cubic window that follows    *)
(* losses, and gives the kernel the smaller of the two.  Its receiver half *)
(* is that of AbcReceiver.                                                 *)
(*                                                                         *)
(* What the module keeps for a connection (struct bictcp) and the fields   *)
(* of tcp_sock it uses are one record, its handlers functions of it.       *)
(* snd_una counts segments.  Times are in jiffies and wrap; the scale      *)
(* factors are constants, so that small ones may stand for 2^10 and 2^40.  *)
(***************************************************************************)
EXTENDS AbcSender, FiniteSets

CONSTANTS Hz,            \* jiffies in a second
          JiffySpace,    \* 2^32
          Starts,        \* jiffies when the connection starts
          MsPerJiffy,
          MsSpace,       \* 2^32: milliseconds are kept as u32
          BetaPermil,    \* beta, of BetaBase = BICTCP_BETA_SCALE parts
          BetaBase,
          BicScale,      \* bic_scale * 10, that is cube_rtt_scale
          CurveUnit,     \* 2^BICTCP_HZ: units of the curve in a second
          WordBits,      \* 64: bits of a u64
          Clamp,         \* snd_cwnd_clamp
          LowWindow,     \* hystart_low_window
          MinSamples,    \* HYSTART_MIN_SAMPLES
          AckDelta,      \* hystart_ack_delta, in ms
          DelayMin, DelayMax,  \* HYSTART_DELAY_MIN and _MAX
          Advances,      \* by how many segments an ACK moves snd_una
          Inflights,     \* tcp_packets_in_flight() and max_packets_out
          CubicRtts,     \* round trips sampled, in the unit of Second
          MaxEvents,     \* bound on the callbacks of a run
          MaxTicks       \* bound on the jiffies of a run

ASSUME CubicAssumption ==
  /\ Hz \in Nat \ {0} /\ JiffySpace \in Nat \ {0} /\ MaxTicks * 2 < JiffySpace
  /\ MsPerJiffy \in Nat \ {0} /\ MsSpace \in Nat \ {0}
  /\ Starts \subseteq Nat /\ MaxTicks \in Nat
  /\ BetaBase \in Nat /\ BetaPermil \in 1..(BetaBase - 1) /\ BicScale \in Nat \ {0}
  /\ CurveUnit \in Nat \ {0} /\ Clamp \in Nat \ {0} /\ CubicRtts \subseteq Nat
  /\ Advances \subseteq Nat /\ Inflights \subseteq Nat /\ MinSamples \in Nat
  /\ DelayMin \in Nat /\ DelayMax \in Nat

VARIABLES ca,        \* struct bictcp and the fields of tcp_sock
          jiffies,   \* of 64 bits
          acking,    \* segments of the ACK in hand, or NoAck
          undone,    \* history: a reduction was undone since the last ACK
          credited,  \* history: segments that counted for the Cubic window
          grown,     \* history: what congestion avoidance added to it
          ticks, events

cubicVars == <<ca, jiffies, acking, undone, credited, grown, ticks, events>>

NoAck == -1
AtMost(a, b) == IF a < b THEN a ELSE b
AtLeast(a, b) == IF a > b THEN a ELSE b

\* What a difference of two u32 means as an s32.
Signed(d, space) == ((d + space \div 2) % space) - space \div 2
Jiffies32 == jiffies % JiffySpace
Since(t) == Signed(jiffies - t, JiffySpace)

\* abccubic_register(): the factors computed once.
BetaScale == ((8 * (BetaBase + BetaPermil)) \div 3) \div (BetaBase - BetaPermil)
CubeDivisor == 1024 * CurveUnit * CurveUnit * CurveUnit
CubeFactor == CubeDivisor \div BicScale

\* bictcp_clock(): the ms of 64-bit jiffies, cut to a u32.
MsClock == (jiffies * MsPerJiffy) % MsSpace

Reset(s) ==
  [s EXCEPT !.cnt = 0, !.last_max_cwnd = 0, !.last_cwnd = 0, !.last_time = 0,
            !.bic_origin_point = 0, !.bic_K = 0, !.delay_min = 0, !.epoch_start = 0,
            !.ack_cnt = 0, !.tcp_cwnd = 0, !.found = FALSE]

\* high says whether snd_nxt, which the round is to end at, is before() 0.
HystartReset(s, high) ==
  [s EXCEPT !.round_start = MsClock, !.last_ack = MsClock, !.end_seq_high = high,
            !.curr_rtt = 0, !.sample_cnt = 0]

\* bictcp_init() with abc_init(), before any round trip: snd_ssthresh is
\* infinite, above the clamp.  Whether 0 is after() a sequence number of the
\* connection depends on its half of the sequence space.
CubicInit ==
  \E start \in Starts, high \in BOOLEAN :
    /\ jiffies = start
    /\ ca = [snd_cwnd |-> InitCwnd, snd_cwnd_cnt |-> 0, snd_ssthresh |-> Clamp + 1,
             prior_cwnd |-> InitCwnd,
             cnt |-> 0, last_max_cwnd |-> 0, last_cwnd |-> 0, last_time |-> 0,
             bic_origin_point |-> 0, bic_K |-> 0, delay_min |-> 0, epoch_start |-> 0,
             ack_cnt |-> 0, tcp_cwnd |-> 0, sample_cnt |-> 0, found |-> FALSE,
             round_start |-> MsClock, end_seq_high |-> high,
             last_ack |-> MsClock, curr_rtt |-> 0, cubic_snd_cwnd |-> 10,
             loss_cwnd |-> InitCwnd, ai_cwnd |-> 0, sk_pacing_rate |-> 0]
    /\ acking = NoAck /\ undone = FALSE /\ credited = 0 /\ grown = 0
    /\ ticks = 0 /\ events = 0
----
\* Slip: the window of ABC alone, as without Cubic.
AbcAlone(s) == s.loss_cwnd

\* The window the kernel gets.
Lesser(s) == AtMost(s.loss_cwnd, s.cubic_snd_cwnd)

\* abc_in_ack(): advance segments, or a duplicate, or a window update.
InAckEvent(s, advance, win_update, ece) ==
  IF advance = 0 /\ win_update THEN s
  ELSE LET due == s.ai_cwnd + 1 > s.loss_cwnd
           increased == IF due THEN s.loss_cwnd + 1 ELSE s.loss_cwnd
           acked == [s EXCEPT !.ai_cwnd = @ + 1 - (IF due THEN s.loss_cwnd ELSE 0),
                              !.loss_cwnd = Adjusted(increased, advance, ece)]
       IN [acked EXCEPT !.snd_cwnd = Lesser(acked)]

\* cubic_root(): an estimate from a table of the leading bits, and one step of
\* Newton and Raphson's method.
RootTable ==
  <<0, 54, 54, 54, 118, 118, 118, 118, 123, 129, 134, 138, 143, 147, 151, 156,
    157, 161, 164, 168, 170, 173, 176, 179, 181, 185, 187, 190, 192, 194, 197, 199,
    200, 202, 204, 206, 209, 211, 213, 215, 217, 219, 221, 222, 224, 225, 227, 229,
    231, 232, 234, 236, 237, 239, 240, 242, 244, 245, 246, 248, 250, 251, 252, 254>>

\* The powers of two.
Power[i \in 0..WordBits] == IF i = 0 THEN 1 ELSE 2 * Power[i - 1]

BitLength(a) == CHOOSE n \in 0..WordBits : a < Power[n] /\ (n = 0 \/ a >= Power[n - 1])

RootEstimate(leading, b) == ((RootTable[leading + 1] + 10) * Power[b]) \div 64

NewtonStep(a, x) == ((2 * x + a \div (x * (x - 1))) * 341) \div 1024

CubicRoot(a) ==
  IF a < 64 THEN (RootTable[a + 1] + 35) \div 64
  ELSE LET b == (BitLength(a) * 84) \div 256 - 1
       IN NewtonStep(a, RootEstimate(a \div Power[b * 3], b))

\* The loop of TCP friendliness ends for a window of one packet, and the curve
\* asks for the roots of what a word holds.
ASSUME FactorsAssumption ==
  /\ BetaScale >= 8
  /\ WordBits \in 7..64 /\ CubeFactor * AtLeast(Clamp, 10) < Power[WordBits]
----
\* A new epoch: the curve is to come back to the window of the last loss after K.
NewEpoch(s, cwnd, acked) ==
  IF s.epoch_start # 0 THEN s
  ELSE LET below == s.last_max_cwnd > cwnd
       IN [s EXCEPT
             !.epoch_start = Jiffies32, !.ack_cnt = acked, !.tcp_cwnd = cwnd,
             !.bic_K = IF below THEN CubicRoot(CubeFactor * (s.last_max_cwnd - cwnd)) ELSE 0,
             !.bic_origin_point = IF below THEN s.last_max_cwnd ELSE cwnd]

\* msecs_to_jiffies() rounds up.
JiffiesOf(msecs) == (msecs + MsPerJiffy - 1) \div MsPerJiffy

\* The cubic curve, and from it after how many ACKs the window grows by one.
Curve(s, cwnd) ==
  LET t == ((Since(s.epoch_start) + JiffiesOf(s.delay_min \div 8)) * CurveUnit) \div Hz
      offs == IF t < s.bic_K THEN s.bic_K - t ELSE t - s.bic_K
      delta == (BicScale * offs * offs * offs) \div CubeDivisor
      target == IF t < s.bic_K THEN s.bic_origin_point - delta
                ELSE s.bic_origin_point + delta
      cnt == IF target > cwnd THEN cwnd \div (target - cwnd) ELSE 100 * cwnd
  IN [s EXCEPT !.cnt = IF s.last_max_cwnd = 0 THEN AtMost(cnt, 20) ELSE cnt]

\* No slower than TCP would be: ack_cnt is spent on its estimated window.
Friendly(s, cwnd) ==
  LET delta == (cwnd * BetaScale) \div 8
      turns == IF s.ack_cnt > delta THEN (s.ack_cnt - 1) \div delta ELSE 0
      tcp == s.tcp_cwnd + turns
  IN [s EXCEPT !.ack_cnt = @ - turns * delta, !.tcp_cwnd = tcp,
               !.cnt = IF tcp > cwnd THEN AtMost(@, cwnd \div (tcp - cwnd)) ELSE @]

\* Slip: the window may grow by a packet for every packet.
GrowthUnbounded(s) == [s EXCEPT !.cnt = AtLeast(@, 1)]

\* At most a packet for two packets acknowledged.
GrowthBounded(s) == [s EXCEPT !.cnt = AtLeast(@, 2)]

\* bictcp_update()
Update(s, acked) ==
  LET cwnd == s.cubic_snd_cwnd
      noted == [s EXCEPT !.ack_cnt = @ + acked]
      timed == [noted EXCEPT !.last_cwnd = cwnd, !.last_time = Jiffies32]
  IN IF s.last_cwnd = cwnd /\ Since(s.last_time) <= Hz \div 32 THEN noted
     ELSE IF s.epoch_start # 0 /\ Jiffies32 = s.last_time
     THEN GrowthBounded(Friendly(noted, cwnd))
     ELSE GrowthBounded(Friendly(Curve(NewEpoch(timed, cwnd, acked), cwnd), cwnd))

\* cubictcp_tcp_cong_avoid_ai(): credits that accumulated at a higher count are
\* applied gently.
CongAvoidAi(s, acked) ==
  LET gentle == s.snd_cwnd_cnt >= s.cnt
      credit == (IF gentle THEN 0 ELSE s.snd_cwnd_cnt) + acked
      cwnd == s.cubic_snd_cwnd + (IF gentle THEN 1 ELSE 0) + credit \div s.cnt
  IN [s EXCEPT !.snd_cwnd_cnt = credit % s.cnt, !.cubic_snd_cwnd = AtMost(cwnd, Clamp)]

InSlowStart(s) == s.cubic_snd_cwnd < s.snd_ssthresh

\* What slow start leaves of the acknowledged segments, and what it does.
SlowStartTarget(s, acked) == AtMost(s.cubic_snd_cwnd + acked, s.snd_ssthresh)
Unused(s, acked) ==
  IF InSlowStart(s) THEN acked - (SlowStartTarget(s, acked) - s.cubic_snd_cwnd) ELSE acked

\* The test for the end of a HyStart round compares with an ack of 0; snd_nxt may
\* have come to either half of the sequence space since.
SlowStart(s, acked, high) ==
  IF ~ InSlowStart(s) THEN s
  ELSE LET round == IF s.end_seq_high THEN HystartReset(s, high) ELSE s
           grew == [round EXCEPT !.cubic_snd_cwnd = AtMost(SlowStartTarget(s, acked), Clamp)]
       IN [grew EXCEPT !.snd_cwnd = Lesser(grew)]

\* Both windows are kept to about twice what is in flight.
Capped(s, inflight) ==
  LET capped == [s EXCEPT !.cubic_snd_cwnd = AtMost(@, 2 * inflight + 5),
                          !.loss_cwnd = AtMost(@, 2 * inflight + 5)]
  IN [capped EXCEPT !.snd_cwnd = Lesser(capped)]

IsCwndLimited(s, out, limited) ==
  IF InSlowStart(s) THEN s.cubic_snd_cwnd < 2 * out ELSE limited

\* bictcp_recalc_ssthresh()
Recalculated(s, inflight) ==
  LET max == IF s.cubic_snd_cwnd < s.last_max_cwnd
             THEN (s.cubic_snd_cwnd * (BetaBase + BetaPermil)) \div (2 * BetaBase)
             ELSE s.cubic_snd_cwnd
      reduced == AtLeast((s.cubic_snd_cwnd * BetaPermil) \div BetaBase, 2)
  IN Capped([s EXCEPT !.epoch_start = 0, !.last_max_cwnd = max, !.prior_cwnd = s.snd_cwnd,
                      !.cubic_snd_cwnd = reduced, !.snd_ssthresh = reduced], inflight)

\* hystart_update(): an exit from slow start is found by a train of close ACKs
\* that lasts for half the round trip, or by a delay that has grown.
HystartUpdate(s, delay) ==
  LET close == Signed(MsClock - s.last_ack, MsSpace) <= AckDelta
      train == close /\ (MsClock - s.round_start) % MsSpace > s.delay_min \div 16
      limit == AtMost(DelayMax, AtLeast(DelayMin, s.delay_min \div 8))
      late == s.sample_cnt >= MinSamples /\ s.curr_rtt > s.delay_min + limit
      sampled == IF s.sample_cnt >= MinSamples THEN s
                 ELSE [s EXCEPT !.sample_cnt = @ + 1,
                                !.curr_rtt = IF @ = 0 THEN delay ELSE AtMost(@, delay)]
  IN IF s.found THEN s
     ELSE [sampled EXCEPT !.last_ack = IF close THEN MsClock ELSE @,
                          !.found = train \/ late,
                          !.snd_ssthresh = IF train \/ late THEN s.cubic_snd_cwnd ELSE @]

\* abc_pkts_acked(): the window of the kernel is paced.
Paced(s, r) ==
  IF r = 0 THEN s
  ELSE [s EXCEPT !.sk_pacing_rate = PacingRate(s.snd_cwnd, r)]

\* bictcp_acked(): samples are discarded, and the pacing rate is left, during the
\* first second of an epoch.  Delays are in eighths of a ms.
RttSampled(s, r) ==
  IF s.epoch_start # 0 /\ Since(s.epoch_start) < Hz THEN s
  ELSE LET delay == AtLeast((8 * r * 1000) \div Second, 1)
           shortest == IF s.delay_min = 0 THEN delay ELSE AtMost(s.delay_min, delay)
           timed == [s EXCEPT !.delay_min = shortest]
       IN Paced(IF s.snd_cwnd < s.snd_ssthresh /\ s.cubic_snd_cwnd >= LowWindow
                THEN HystartUpdate(timed, delay) ELSE timed, r)
----
(***************************************************************************)
(* An ACK: tcp_ack() of the kernel calls in_ack_event, then it may report  *)
(* a round trip, enter recovery or undo it, and it ends with cong_control. *)
(***************************************************************************)
HappensNow == events < MaxEvents /\ events' = events + 1

AckArrives(advance, win_update, ece) ==
  /\ acking = NoAck /\ HappensNow
  /\ ca' = InAckEvent(ca, advance, win_update, ece)
  /\ acking' = advance
  /\ undone' = (undone /\ advance = 0 /\ win_update)
  /\ UNCHANGED <<jiffies, credited, grown, ticks>>

RttSample(r) ==
  /\ acking # NoAck /\ HappensNow
  /\ ca' = RttSampled(ca, r)
  /\ UNCHANGED <<jiffies, acking, undone, credited, grown, ticks>>

EnterRecovery(inflight) ==
  /\ acking # NoAck /\ HappensNow
  /\ ca' = Recalculated(ca, inflight)
  /\ undone' = FALSE
  /\ UNCHANGED <<jiffies, acking, credited, grown, ticks>>

\* bictcp_cong_avoid(), the cong_control of the module; its first exits come
\* when the window was not used up and when slow start takes all.
CongControl(inflight, out, limited, high) ==
  LET started == SlowStart(ca, acking, high)
      rest == Unused(ca, acking)
      updated == Update(started, rest)
      avoided == CongAvoidAi(updated, rest)
      limits == IsCwndLimited(ca, out, limited)
      goes == limits /\ ~ (InSlowStart(ca) /\ rest = 0)
  IN
  /\ acking # NoAck /\ acking' = NoAck
  /\ ca' = IF goes THEN Capped(avoided, inflight) ELSE IF limits THEN started ELSE ca
  /\ credited' = IF goes THEN credited + rest ELSE credited
  /\ grown' = IF goes THEN grown + avoided.cubic_snd_cwnd - started.cubic_snd_cwnd
              ELSE grown
  /\ undone' = (undone /\ ~ limits)
  /\ UNCHANGED <<jiffies, ticks, events>>

\* tcp_enter_loss() of the kernel, and bictcp_state(): the Cubic window stays.
Loss(high) ==
  /\ acking = NoAck /\ HappensNow
  /\ ca' = HystartReset(Reset([ca EXCEPT !.prior_cwnd = ca.snd_cwnd, !.snd_cwnd = 1,
                                         !.snd_cwnd_cnt = 0]), high)
  /\ UNCHANGED <<jiffies, acking, undone, credited, grown, ticks>>

\* tcp_reno_undo_cwnd() of the kernel
CubicUndo ==
  /\ acking # NoAck /\ HappensNow
  /\ ca' = [ca EXCEPT !.snd_cwnd = AtLeast(@, ca.prior_cwnd)]
  /\ undone' = TRUE
  /\ UNCHANGED <<jiffies, acking, credited, grown, ticks>>

\* An idle time is taken out of the epoch.
Shifted(s, idle) ==
  LET moved == (s.epoch_start + idle) % JiffySpace
  IN IF Since(moved) < 0 THEN Jiffies32 ELSE moved

\* bictcp_cwnd_event(): sending begins again after an idle time.
TxStart(idle) ==
  /\ acking = NoAck /\ HappensNow /\ ca.epoch_start # 0 /\ idle > 0
  /\ ca' = [ca EXCEPT !.epoch_start = Shifted(ca, idle)]
  /\ UNCHANGED <<jiffies, acking, undone, credited, grown, ticks>>

CubicTick ==
  /\ ticks < MaxTicks /\ ticks' = ticks + 1
  /\ jiffies' = jiffies + 1
  /\ UNCHANGED <<ca, acking, undone, credited, grown, events>>

CubicNext ==
  \/ \E advance \in Advances, win_update, ece \in BOOLEAN :
       AckArrives(advance, win_update, ece)
  \/ \E r \in CubicRtts : RttSample(r)
  \/ \E inflight \in Inflights : EnterRecovery(inflight)
  \/ \E inflight, out \in Inflights, limited, high \in BOOLEAN :
       CongControl(inflight, out, limited, high)
  \/ \E idle \in 1..MaxTicks : TxStart(idle)
  \/ \E high \in BOOLEAN : Loss(high)
  \/ CubicUndo \/ CubicTick
----
\* The connection obeys both controllers: the window the kernel uses is never
\* above that of ABC nor that of Cubic, though each moves on its own occasions;
\* only an undo of the kernel may bring an old window back, until the next ACK.
NeitherWindowExceeded ==
  undone \/ (ca.snd_cwnd <= ca.loss_cwnd /\ ca.snd_cwnd <= ca.cubic_snd_cwnd)

\* "The maximum rate of cwnd increase CUBIC allows is 1 packet per 2 packets
\* ACKed" (tcp_abccubic.c:598): congestion avoidance never adds more, whatever
\* stale count, curve or estimate of TCP the growth came from; and the count it
\* divides by is never zero.
CubicGrowthIsBounded == 2 * grown + ca.snd_cwnd_cnt <= credited
====

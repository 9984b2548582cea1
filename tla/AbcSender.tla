---- MODULE AbcSender ----
(***************************************************************************)
(* The sender half of the ABC congestion control module (tcp_abc.c): the   *)
(* kernel calls abc_in_ack() for each acknowledgment it accepts, after it  *)
(* has moved snd_una.  Sequence numbers and windows are u32; sequence      *)
(* numbers wrap.                                                           *)
(***************************************************************************)
EXTENDS Integers

CONSTANTS InitCwnd,   \* snd_cwnd when abc_init() runs
          Segment,    \* 1448: the bytes that count as a packet
          RcvMss,     \* icsk_ack.rcv_mss
          SeqSpace,   \* 2^32
          Acked,      \* by how much an ACK advances snd_una, 0 for a duplicate
          RateSpace,  \* 2^32: the pacing rate is computed as a u32
          Second,     \* 1000000: round-trip times are sampled in microseconds
          Rtts,       \* the round-trip times sampled
          MaxCwnd,    \* bound on the window
          MaxAcks     \* bound on the acknowledgments of a run

ASSUME SenderAssumption ==
  /\ InitCwnd \in Nat \ {0} /\ Segment \in 1..1450 /\ RcvMss \in Nat
  /\ SeqSpace \in Nat \ {0} /\ Acked \subseteq 0..(SeqSpace - 1)
  /\ RateSpace \in Nat \ {0} /\ Second \in Nat \ {0} /\ Rtts \subseteq Nat \ {0}
  /\ MaxCwnd \in Nat /\ MaxAcks \in Nat

VARIABLES snd_una,         \* the kernel's, moved before abc_in_ack() runs
          prior_snd_una, loss_cwnd, ai_cwnd,
          snd_cwnd,
          sk_pacing_rate,  \* bytes per second
          rtt,             \* history: the round-trip time it was computed from
          counted,         \* history: acknowledgments that counted
          increases,       \* history: times the additive increase added a packet
          ignored          \* history: packets not braked for, at the floor

window == <<snd_una, prior_snd_una, loss_cwnd, ai_cwnd, snd_cwnd>>
history == <<counted, increases, ignored>>
vars == <<window, sk_pacing_rate, rtt, history>>

\* abc_init() of a connection that negotiated ECN.
Init ==
  /\ snd_una = 0 /\ prior_snd_una = 0
  /\ loss_cwnd = InitCwnd /\ ai_cwnd = 0 /\ snd_cwnd = InitCwnd
  /\ sk_pacing_rate = 0 /\ rtt = 0
  /\ counted = 0 /\ increases = 0 /\ ignored = 0

\* What abc_in_ack() makes of an ACK: bytes newly acknowledged, or a segment
\* for a duplicate, nothing for a window update.
AckedBytes(una, win_update) ==
  LET acked == (una - prior_snd_una) % SeqSpace IN
  IF acked = 0 /\ ~ win_update THEN RcvMss ELSE acked

\* Slip: the count of ACKs is not taken down when a packet is added.
UnspentAiCwnd == ai_cwnd + 1

\* The additive increase: one packet each time as many ACKs have come as the
\* window holds packets.
AiDue == ai_cwnd + 1 > loss_cwnd
AiCwnd == IF AiDue THEN ai_cwnd + 1 - loss_cwnd ELSE ai_cwnd + 1
Increased == IF AiDue THEN loss_cwnd + 1 ELSE loss_cwnd

\* Slip: the floor only avoids the wrap.
BrakeToZero(cwnd, n) == cwnd >= n

\* Brake (ECE) or accelerate by the packets the ACK covers.
CanBrake(cwnd, n) == cwnd > 5 + n
Adjusted(cwnd, n, ece) ==
  IF ~ ece THEN cwnd + n
  ELSE IF CanBrake(cwnd, n) THEN cwnd - n ELSE cwnd

\* tcp_ack() of the kernel with abc_in_ack().
InAck(advance, win_update, ece) ==
  LET una == (snd_una + advance) % SeqSpace
      bytes == AckedBytes(una, win_update)
  IN
  /\ counted < MaxAcks /\ loss_cwnd + bytes \div Segment < MaxCwnd
  /\ snd_una' = una
  /\ IF bytes = 0
     THEN UNCHANGED <<prior_snd_una, loss_cwnd, ai_cwnd, snd_cwnd, history>>
     ELSE /\ ai_cwnd' = AiCwnd
          /\ prior_snd_una' = una
          /\ loss_cwnd' = Adjusted(Increased, bytes \div Segment, ece)
          /\ snd_cwnd' = loss_cwnd'
          /\ counted' = counted + 1
          /\ increases' = IF AiDue THEN increases + 1 ELSE increases
          /\ ignored' = IF ece /\ ~ CanBrake(Increased, bytes \div Segment)
                        THEN ignored + bytes \div Segment ELSE ignored
  /\ UNCHANGED <<sk_pacing_rate, rtt>>

\* Slip: the round trips that a second holds are counted before they are scaled.
PacingRateOfSecond(cwnd, r) == ((cwnd * 100) * (29 * (Second \div r))) % RateSpace

\* abc_pkts_acked(): 29000000 us over the sample, in integers.
PacingRate(cwnd, r) == ((cwnd * 100) * ((29 * Second) \div r)) % RateSpace

PktsAcked(r) ==
  /\ sk_pacing_rate' = PacingRate(loss_cwnd, r)
  /\ rtt' = r
  /\ UNCHANGED <<window, history>>

\* The kernel's retransmission timeout takes the window down to one packet.
\* abc_ssthresh() and abc_state() leave everything as it is.
EnterLoss ==
  /\ snd_cwnd' = 1
  /\ UNCHANGED <<snd_una, prior_snd_una, loss_cwnd, ai_cwnd, sk_pacing_rate, rtt,
                 history>>

\* The kernel takes back a reduction it finds was spurious: abc_cwnd_undo().
Undo ==
  /\ snd_cwnd' = IF snd_cwnd > loss_cwnd THEN snd_cwnd ELSE loss_cwnd
  /\ UNCHANGED <<snd_una, prior_snd_una, loss_cwnd, ai_cwnd, sk_pacing_rate, rtt,
                 history>>

Next ==
  \/ \E advance \in Acked, win_update, ece \in BOOLEAN :
       InAck(advance, win_update, ece)
  \/ \E r \in Rtts : PktsAcked(r)
  \/ EnterLoss
  \/ Undo

Spec == Init /\ [][Next]_vars
----
Floor == IF InitCwnd < 6 THEN InitCwnd ELSE 6

\* Every variable keeps the type its declaration gives it.
TypeOK ==
  /\ snd_una \in Nat /\ prior_snd_una \in Nat
  /\ loss_cwnd \in Nat /\ ai_cwnd \in Nat /\ snd_cwnd \in Nat
  /\ sk_pacing_rate \in Nat /\ rtt \in Nat
  /\ counted \in Nat /\ increases \in Nat /\ ignored \in Nat

\* However many packets an ACK brakes for, the subtraction of two u32 never
\* wraps: the window stays at six packets or more (or where it began, if that
\* was less), so a sender that is braked without end can still probe.
WindowFloor == loss_cwnd >= Floor

\* Braking cannot turn the additive increase into a faster one: whatever the
\* window does between two ACKs, a packet is added at most once in Floor ACKs.
IncreaseIsSlow == increases * Floor + ai_cwnd <= counted

\* The product of abc_pkts_acked() does not fit in its 32 bits.
RateWraps(cwnd, r) == (cwnd * 100) * ((29 * Second) \div r) >= RateSpace

\* The pacing rate, for all its integer division, is between one and two packets
\* of 1450 bytes for each packet of the window in each round trip: never more,
\* even when the round trip is above 29 s or the product wraps, and a Segment at
\* least for each when neither happens.
PacingFollowsWindow ==
  [][<<sk_pacing_rate, rtt>>' # <<sk_pacing_rate, rtt>> =>
     /\ sk_pacing_rate' * rtt' <= 2900 * loss_cwnd * Second
     /\ rtt' <= 29 * Second /\ ~ RateWraps(loss_cwnd, rtt')
          => sk_pacing_rate' * rtt' >= Segment * loss_cwnd * Second]_vars
====

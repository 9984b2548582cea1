---- MODULE AbcReceiver ----
(***************************************************************************)
(* The receiver half of the ABC module: the CE state machine that lets the *)
(* kernel delay its ACKs and yet tell the sender, byte for byte, what the  *)
(* router marked.  Segments arrive in order.  The kernel moves rcv_nxt     *)
(* past a segment, reports its mark, and then acknowledges now or later;   *)
(* data that the receiver sends of its own carries an ACK of which the     *)
(* module is not told.                                                     *)
(***************************************************************************)
EXTENDS Integers, Sequences, FiniteSets

CONSTANTS MaxSegments,  \* bound on the segments of a run
          MaxData       \* bound on those that the receiver sends

ASSUME ReceiverAssumption == MaxSegments \in Nat /\ MaxData \in Nat

VARIABLES rcv_nxt,               \* the kernel's, in segments
          prior_rcv_nxt, ce_state, delayed_ack_reserved,
          demand_cwr,            \* TCP_ECN_DEMAND_CWR of ecn_flags: ECE on ACKs
          ack_timer,             \* the kernel's delayed-ACK timer runs
          data,                  \* segments of data that the receiver sent
          ces,                   \* history: the mark of each segment
          acks                   \* history: the ACKs sent

endpoint == <<rcv_nxt, prior_rcv_nxt, ce_state, delayed_ack_reserved, demand_cwr>>
rcvVars == <<endpoint, ack_timer, data, ces, acks>>

RcvInit ==
  /\ rcv_nxt = 0 /\ prior_rcv_nxt = 0
  /\ ce_state = FALSE /\ delayed_ack_reserved = FALSE /\ demand_cwr = FALSE
  /\ ack_timer = FALSE /\ data = 0 /\ ces = <<>> /\ acks = <<>>

Ack(nxt, ece) == [ack |-> nxt, ece |-> ece]

\* Slip: the change of mark flushes nothing.
NeverFlush(ce) == FALSE

\* abc_ce_state_0_to_1() and abc_ce_state_1_to_0(): a mark that differs from
\* the last one flushes the ACK that was held back, with the old mark and up to
\* the old rcv_nxt.
MustFlush(ce) == ce_state # ce /\ delayed_ack_reserved
Flushed(ce) ==
  IF MustFlush(ce) THEN Append(acks, Ack(prior_rcv_nxt, ce_state)) ELSE acks

\* tcp_send_ack() raises NON_DELAYED_ACK, arming the timer DELAYED_ACK.
AckNow(log, nxt, demand) ==
  /\ acks' = Append(log, Ack(nxt, demand))
  /\ delayed_ack_reserved' = FALSE
  /\ ack_timer' = FALSE

AckLater(log) ==
  /\ acks' = log
  /\ delayed_ack_reserved' = TRUE
  /\ ack_timer' = TRUE

\* A segment in order: CA_EVENT_ECN_IS_CE or CA_EVENT_ECN_NO_CE, then the
\* kernel's choice to acknowledge, by what it knows itself.  It cannot delay past
\* two segments.
Receive(ce, later) ==
  LET nxt == rcv_nxt + 1
      held == ack_timer /\ ~ MustFlush(ce)
  IN
  /\ rcv_nxt < MaxSegments
  /\ rcv_nxt' = nxt
  /\ ces' = Append(ces, ce)
  /\ prior_rcv_nxt' = nxt
  /\ ce_state' = ce
  /\ demand_cwr' = ce
  /\ later => ~ held
  /\ IF later THEN AckLater(Flushed(ce)) ELSE AckNow(Flushed(ce), nxt, ce)
  /\ UNCHANGED data

\* The delayed-ACK timer of the kernel.
AckTimer ==
  /\ ack_timer
  /\ AckNow(acks, rcv_nxt, demand_cwr)
  /\ UNCHANGED <<rcv_nxt, prior_rcv_nxt, ce_state, demand_cwr, data, ces>>

\* Data that the receiver sends carries an ACK: the kernel stops its timer and
\* raises no event, so that delayed_ack_reserved is left as it was.
SendData ==
  /\ data < MaxData
  /\ data' = data + 1
  /\ acks' = Append(acks, Ack(rcv_nxt, demand_cwr))
  /\ ack_timer' = FALSE
  /\ UNCHANGED <<endpoint, ces>>

RcvNext == (\E ce, later \in BOOLEAN : Receive(ce, later)) \/ AckTimer \/ SendData

RcvSpec == RcvInit /\ [][RcvNext]_rcvVars /\ WF_rcvVars(AckTimer)
----
\* Every variable keeps the type its declaration gives it.
RcvTypeOK ==
  /\ rcv_nxt \in 0..MaxSegments /\ prior_rcv_nxt \in 0..MaxSegments
  /\ ce_state \in BOOLEAN /\ delayed_ack_reserved \in BOOLEAN
  /\ demand_cwr \in BOOLEAN /\ ack_timer \in BOOLEAN /\ data \in 0..MaxData
  /\ ces \in Seq(BOOLEAN)
  /\ acks \in Seq([ack : 0..MaxSegments, ece : BOOLEAN])

AckedBy(i) == (IF i = 1 THEN 0 ELSE acks[i - 1].ack) + 1 .. acks[i].ack

\* The echo is exact although ACKs are delayed: each ACK speaks only of segments
\* that carried the mark it echoes, so that the sender can accelerate or brake
\* packet by packet.
EchoIsExact ==
  \A i \in 1..Len(acks) : \A s \in AckedBy(i) : ces[s] = acks[i].ece

\* A stale delayed_ack_reserved costs little: of the ACKs that acknowledge
\* nothing, which the sender takes for duplicates and counts, there are never more
\* than the segments of data that the receiver sent.
Repeats == {i \in 1..Len(acks) : AckedBy(i) = {}}
IsStale == delayed_ack_reserved /\ ~ ack_timer
RepeatsAreFew == Cardinality(Repeats) + (IF IsStale THEN 1 ELSE 0) <= data
====

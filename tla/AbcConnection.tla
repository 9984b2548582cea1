---- MODULE AbcConnection ----
(***************************************************************************)
(* An ABC connection: the sender, the routers of the path, which mark each *)
(* segment or not, and the receiver.  Segments arrive in order and none is *)
(* lost; ACKs arrive in order, and some may be lost.  The receiver may     *)
(* send data of its own.                                                   *)
(***************************************************************************)
EXTENDS AbcReceiver

CONSTANTS InitCwnd, Segment, RcvMss, SeqSpace, RateSpace, MaxCwnd,
          MaxLost   \* bound on the ACKs lost

ASSUME ConnAssumption ==
  /\ InitCwnd \in Nat \ {0} /\ Segment \in 1..1450 /\ RcvMss \in Nat
  /\ SeqSpace \in Nat \ {0} /\ RateSpace \in Nat \ {0}
  /\ MaxCwnd \in Nat /\ MaxLost \in Nat

VARIABLES snd_una, prior_snd_una, loss_cwnd, ai_cwnd, snd_cwnd,
          sk_pacing_rate, rtt, counted, increases, ignored,
          sent,      \* segments sent
          seen,      \* ACKs that reached the sender or were lost
          lost,      \* history: ACKs lost
          repeated,  \* history: packets counted for ACKs that acknowledged nothing
          misled     \* history: segments acknowledged by another's ACK

Sender == INSTANCE AbcSender WITH Acked <- {}, Rtts <- {}, Second <- 1,
                                  MaxAcks <- MaxSegments + MaxData

senderVars == <<snd_una, prior_snd_una, loss_cwnd, ai_cwnd, snd_cwnd,
                sk_pacing_rate, rtt, counted, increases, ignored>>
path == <<sent, seen, lost, repeated, misled>>
connVars == <<rcvVars, senderVars, path>>

ConnInit ==
  /\ RcvInit /\ Sender!Init
  /\ sent = 0 /\ seen = 0 /\ lost = 0 /\ repeated = 0 /\ misled = 0

Acknowledged == snd_una \div Segment

\* The kernel sends while the window is open.
Send ==
  /\ sent < MaxSegments
  /\ sent - Acknowledged < snd_cwnd
  /\ sent' = sent + 1
  /\ UNCHANGED <<rcvVars, senderVars, seen, lost, repeated, misled>>

Deliver(ce, later) ==
  /\ rcv_nxt < sent
  /\ Receive(ce, later)
  /\ UNCHANGED <<senderVars, path>>

DelayedAck == AckTimer /\ UNCHANGED <<senderVars, path>>

DataCarriesAck == SendData /\ UNCHANGED <<senderVars, path>>

AckArrives ==
  /\ seen < Len(acks)
  /\ LET a == acks[seen + 1] IN
       /\ Sender!InAck((a.ack - Acknowledged) * Segment, FALSE, a.ece)
       /\ repeated' = IF a.ack = Acknowledged THEN repeated + RcvMss \div Segment
                      ELSE repeated
  /\ seen' = seen + 1
  /\ UNCHANGED <<rcvVars, sent, lost, misled>>

AckIsLost ==
  /\ seen < Len(acks) /\ lost < MaxLost
  /\ seen' = seen + 1
  /\ lost' = lost + 1
  /\ misled' = misled + acks[seen + 1].ack
                      - (IF seen = 0 THEN 0 ELSE acks[seen].ack)
  /\ UNCHANGED <<rcvVars, senderVars, sent, repeated>>

Timeout == Sender!EnterLoss /\ UNCHANGED <<rcvVars, path>>

ConnStep ==
  Send \/ (\E ce, later \in BOOLEAN : Deliver(ce, later)) \/ DelayedAck \/ AckArrives

ConnNext == ConnStep \/ DataCarriesAck \/ AckIsLost \/ Timeout

ConnSpec ==
  /\ ConnInit /\ [][ConnNext]_connVars
  /\ WF_connVars(Send) /\ WF_connVars(DelayedAck) /\ WF_connVars(AckArrives)
  /\ WF_connVars(\E ce, later \in BOOLEAN : Deliver(ce, later))
----
\* Of the segments acknowledged so far, those that a router had marked.
Marked == {s \in 1..Acknowledged : ces[s]}

\* One packet more for each segment let through, one less for each marked.
Feedback == Acknowledged - 2 * Cardinality(Marked)

\* The window is what the routers made it: the initial window, the additive
\* increases, plus one for each segment that was accelerated and less one for
\* each that was braked, but for brakes ignored at the floor.  Delayed ACKs do
\* not disturb the account; a lost ACK does, by two at most for each segment it
\* covered, since the next ACK speaks for it; and an ACK that acknowledges nothing
\* does, by the packets it is taken for.
WindowFollowsMarks ==
  LET error == loss_cwnd - (InitCwnd + increases + ignored + Feedback) IN
  error \in -(2 * misled + repeated) .. 2 * misled + repeated

\* Braking never stalls a connection: if no ACK is lost, every segment is sent,
\* delivered and acknowledged, however hard the routers brake.
TransferCompletes == <>(Acknowledged = MaxSegments \/ lost > 0)
====

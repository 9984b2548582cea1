---- MODULE ReceiverProofs ----
(***************************************************************************)
(* What holds of the receiver for any number of segments, any marks and    *)
(* any choice of the kernel between acknowledging now and later; and, since *)
(* nothing else in a connection touches the receiver, of a connection.     *)
(***************************************************************************)
EXTENDS AbcConnection, FiniteSetTheorems, TLAPS

AckRecord == [ack : Nat, ece : BOOLEAN]

\* What a log of ACKs claims, and how far it goes.
From(log, i) == IF i = 1 THEN 0 ELSE log[i - 1].ack
LogIsExact(log, marks) ==
  \A i \in 1..Len(log) :
    /\ From(log, i) <= log[i].ack
    /\ log[i].ack <= Len(marks)
    /\ \A s \in (From(log, i) + 1)..log[i].ack : marks[s] = log[i].ece
LastOf(log) == IF log = <<>> THEN 0 ELSE log[Len(log)].ack

LEMMA FromIsNat ==
  ASSUME NEW log \in Seq(AckRecord), NEW i \in 1..Len(log)
  PROVE  log[i].ack \in Nat /\ From(log, i) \in Nat
  <1>1. log[i] \in AckRecord
    OBVIOUS
  <1>2. log[i].ack \in Nat
    BY <1>1 DEF AckRecord
  <1>3. CASE i = 1
    BY <1>2, <1>3 DEF From
  <1>4. CASE i # 1
    <2>1. i - 1 \in 1..Len(log)
      BY <1>4
    <2>2. log[i - 1] \in AckRecord
      BY <2>1
    <2> QED BY <1>2, <1>4, <2>2 DEF From, AckRecord
  <1> QED BY <1>3, <1>4

\* An ACK that goes no less far than the log, over segments that all carried the
\* mark it echoes, extends an exact log to an exact log.
LEMMA ExtendLog ==
  ASSUME NEW log \in Seq(AckRecord), NEW marks \in Seq(BOOLEAN),
         NEW a \in AckRecord,
         LogIsExact(log, marks), LastOf(log) <= a.ack, a.ack <= Len(marks),
         \A s \in (LastOf(log) + 1)..a.ack : marks[s] = a.ece
  PROVE  /\ Append(log, a) \in Seq(AckRecord)
         /\ LogIsExact(Append(log, a), marks)
         /\ LastOf(Append(log, a)) = a.ack
  <1> DEFINE longer == Append(log, a)
  <1>1. /\ longer \in Seq(AckRecord) /\ Len(longer) = Len(log) + 1
        /\ longer[Len(log) + 1] = a
        /\ \A i \in 1..Len(log) : longer[i] = log[i]
    OBVIOUS
  <1>2. LastOf(longer) = a.ack
    BY <1>1 DEF LastOf
  <1>3. From(longer, Len(log) + 1) = LastOf(log)
    <2>1. CASE log = <<>>
      BY <2>1 DEF From, LastOf
    <2>2. CASE log # <<>>
      <3>1. Len(log) \in Nat /\ Len(log) > 0
        BY <2>2
      <3>2. From(longer, Len(log) + 1) = longer[Len(log)].ack
        BY <3>1, SMT DEF From
      <3>3. longer[Len(log)] = log[Len(log)]
        BY <1>1, <3>1
      <3> QED BY <2>2, <3>2, <3>3 DEF LastOf
    <2> QED BY <2>1, <2>2
  <1>4. \A i \in 1..Len(log) : From(longer, i) = From(log, i)
    BY <1>1 DEF From
  <1>5. LogIsExact(longer, marks)
    <2> SUFFICES ASSUME NEW i \in 1..(Len(log) + 1)
                 PROVE  /\ From(longer, i) <= longer[i].ack
                        /\ longer[i].ack <= Len(marks)
                        /\ \A s \in (From(longer, i) + 1)..longer[i].ack :
                             marks[s] = longer[i].ece
      BY <1>1 DEF LogIsExact
    <2>1. CASE i \in 1..Len(log)
      BY <2>1, <1>1, <1>4 DEF LogIsExact
    <2>2. CASE i = Len(log) + 1
      BY <2>2, <1>1, <1>3
    <2> QED BY <2>1, <2>2
  <1> QED BY <1>1, <1>2, <1>5

\* A segment more does not disturb what was said of those before it.
LEMMA ExtendMarks ==
  ASSUME NEW log \in Seq(AckRecord), NEW marks \in Seq(BOOLEAN),
         NEW ce \in BOOLEAN, LogIsExact(log, marks)
  PROVE  LogIsExact(log, Append(marks, ce))
  <1> DEFINE longer == Append(marks, ce)
  <1>1. Len(longer) = Len(marks) + 1 /\ \A s \in 1..Len(marks) : longer[s] = marks[s]
    OBVIOUS
  <1> SUFFICES ASSUME NEW i \in 1..Len(log)
               PROVE  /\ From(log, i) <= log[i].ack
                      /\ log[i].ack <= Len(longer)
                      /\ \A s \in (From(log, i) + 1)..log[i].ack :
                           longer[s] = log[i].ece
    BY DEF LogIsExact
  <1>2. log[i].ack \in Nat /\ From(log, i) \in Nat
    BY FromIsNat
  <1>3. /\ From(log, i) <= log[i].ack /\ log[i].ack <= Len(marks)
        /\ \A s \in (From(log, i) + 1)..log[i].ack : marks[s] = log[i].ece
    BY DEF LogIsExact
  <1>4. \A s \in (From(log, i) + 1)..log[i].ack : s \in 1..Len(marks)
    BY <1>2, <1>3
  <1> QED BY <1>1, <1>2, <1>3, <1>4

\* The ACKs of a log that acknowledge nothing.
RepeatsOf(log) == {i \in 1..Len(log) : From(log, i) = log[i].ack}
CountOf(log) == Cardinality(RepeatsOf(log))

LEMMA RepeatsAreFinite ==
  ASSUME NEW log \in Seq(AckRecord)
  PROVE  IsFiniteSet(RepeatsOf(log)) /\ CountOf(log) \in Nat
  <1>1. IsFiniteSet(1..Len(log))
    BY FS_Interval
  <1>2. RepeatsOf(log) \in SUBSET (1..Len(log))
    BY DEF RepeatsOf
  <1>3. IsFiniteSet(RepeatsOf(log))
    BY <1>1, <1>2, FS_Subset
  <1> QED BY <1>3, FS_CardinalityType DEF CountOf

\* One more ACK is one more that acknowledges nothing, or none.
LEMMA ExtendRepeats ==
  ASSUME NEW log \in Seq(AckRecord), NEW a \in AckRecord
  PROVE  CountOf(Append(log, a)) = CountOf(log) + (IF LastOf(log) = a.ack THEN 1 ELSE 0)
  <1> DEFINE longer == Append(log, a)
             new == Len(log) + 1
  <1>1. /\ Len(longer) = new /\ longer[new] = a /\ Len(log) \in Nat
        /\ \A i \in 1..Len(log) : longer[i] = log[i]
    OBVIOUS
  <1>2. From(longer, new) = LastOf(log)
    <2>1. CASE log = <<>>
      BY <2>1 DEF From, LastOf
    <2>2. CASE log # <<>>
      <3>1. Len(log) > 0
        BY <1>1, <2>2
      <3>2. From(longer, new) = longer[Len(log)].ack
        BY <1>1, <3>1, SMT DEF From
      <3>3. longer[Len(log)] = log[Len(log)]
        BY <1>1, <3>1
      <3> QED BY <2>2, <3>2, <3>3 DEF LastOf
    <2> QED BY <2>1, <2>2
  <1>3. \A i \in 1..Len(log) : From(longer, i) = From(log, i)
    BY <1>1 DEF From
  <1>4. 1..new = (1..Len(log)) \cup {new} /\ new \notin 1..Len(log)
    BY <1>1
  <1> HIDE DEF longer, new
  <1>5. RepeatsOf(longer) = RepeatsOf(log) \cup (IF LastOf(log) = a.ack THEN {new} ELSE {})
    BY <1>1, <1>2, <1>3, <1>4 DEF RepeatsOf
  <1>6. new \notin RepeatsOf(log)
    BY <1>4 DEF RepeatsOf
  <1>7. IsFiniteSet(RepeatsOf(log)) /\ CountOf(log) \in Nat
    BY RepeatsAreFinite
  <1>8. CASE LastOf(log) = a.ack
    <2>1. RepeatsOf(longer) = RepeatsOf(log) \cup {new}
      BY <1>5, <1>8
    <2>2. CountOf(longer) = CountOf(log) + 1
      BY <1>6, <1>7, <2>1, FS_AddElement DEF CountOf
    <2> QED BY <1>8, <2>2 DEF longer
  <1>9. CASE LastOf(log) # a.ack
    <2>1. RepeatsOf(longer) = RepeatsOf(log)
      BY <1>5, <1>9
    <2> QED BY <1>7, <1>9, <2>1 DEF CountOf, longer
  <1> QED BY <1>8, <1>9

\* The inductive invariant: the segments not yet acknowledged all carried the
\* mark that the module remembers, which knows of an ACK held back whenever there
\* is one; where it is wrong that there is, the receiver has sent data.
Segments ==
  /\ rcv_nxt \in 0..MaxSegments /\ prior_rcv_nxt = rcv_nxt
  /\ ces \in Seq(BOOLEAN) /\ Len(ces) = rcv_nxt
  /\ acks \in Seq(AckRecord)
  /\ ce_state \in BOOLEAN /\ demand_cwr = ce_state
  /\ LastOf(acks) \in 0..rcv_nxt
  /\ \A s \in (LastOf(acks) + 1)..rcv_nxt : ces[s] = ce_state
  /\ LogIsExact(acks, ces)
Reserved ==
  /\ ack_timer <=> LastOf(acks) < rcv_nxt
  /\ ack_timer => delayed_ack_reserved
  /\ delayed_ack_reserved \in BOOLEAN /\ ack_timer \in BOOLEAN
  /\ data \in 0..MaxData
Few == CountOf(acks) + (IF IsStale THEN 1 ELSE 0) <= data
IInv == Segments /\ Reserved /\ Few

LEMMA InitIInv == RcvInit => IInv
  <1> SUFFICES ASSUME RcvInit
               PROVE  IInv
    OBVIOUS
  <1>1. LastOf(acks) = 0 /\ Len(acks) = 0 /\ Len(ces) = 0
    BY DEF RcvInit, LastOf
  <1>2. LogIsExact(acks, ces)
    BY <1>1 DEF LogIsExact
  <1>3. acks \in Seq(AckRecord) /\ ces \in Seq(BOOLEAN)
    BY DEF RcvInit
  <1>4. \A s \in (0 + 1)..0 : ces[s] = ce_state
    BY SMT
  <1>5. Segments
    <2>1. ce_state \in BOOLEAN /\ demand_cwr = ce_state
      BY DEF RcvInit
    <2>2. /\ rcv_nxt = 0 /\ prior_rcv_nxt = 0
          /\ LastOf(acks) \in 0..rcv_nxt /\ rcv_nxt \in 0..MaxSegments
          /\ \A s \in (LastOf(acks) + 1)..rcv_nxt : ces[s] = ce_state
      BY <1>1, <1>4, ReceiverAssumption DEF RcvInit
    <2> QED BY <1>1, <1>2, <1>3, <2>1, <2>2 DEF Segments
  <1>6. /\ delayed_ack_reserved = FALSE /\ ack_timer = FALSE /\ data = 0
        /\ ~ (LastOf(acks) < rcv_nxt) /\ data \in 0..MaxData
    BY <1>1, ReceiverAssumption DEF RcvInit
  <1>7. CountOf(acks) = 0
    <2>1. RepeatsOf(acks) = {}
      BY <1>1 DEF RepeatsOf
    <2> QED BY <2>1, FS_EmptySet DEF CountOf
  <1>8. Reserved
    BY <1>6 DEF Reserved
  <1>9. ~ IsStale
    BY <1>6 DEF IsStale
  <1>10. Few
    BY <1>6, <1>7, <1>9 DEF Few
  <1> QED BY <1>5, <1>8, <1>10 DEF IInv

\* The log after the flush that a change of mark may force: it is exact, and
\* the segments it leaves open carried the mark of the segment that came.
LEMMA FlushedIsExact ==
  ASSUME IInv, NEW ce \in BOOLEAN
  PROVE  /\ Flushed(ce) \in Seq(AckRecord)
         /\ LogIsExact(Flushed(ce), ces)
         /\ LastOf(Flushed(ce)) \in 0..rcv_nxt
         /\ \A s \in (LastOf(Flushed(ce)) + 1)..rcv_nxt : ces[s] = ce
         /\ CountOf(Flushed(ce)) \in Nat /\ CountOf(Flushed(ce)) <= data
  <1> USE DEF IInv, Segments, Reserved
  <1>1. CountOf(acks) \in Nat /\ data \in Nat
        /\ CountOf(acks) + (IF IsStale THEN 1 ELSE 0) <= data
    BY RepeatsAreFinite DEF Few
  <1>2. CASE MustFlush(ce)
    <2> DEFINE a == Ack(prior_rcv_nxt, ce_state)
    <2>1. a \in AckRecord /\ a.ack = rcv_nxt /\ a.ece = ce_state
      BY ReceiverAssumption DEF Ack, AckRecord
    <2>2. LastOf(acks) <= a.ack /\ a.ack <= Len(ces)
      BY <2>1
    <2>3. Flushed(ce) = Append(acks, a)
      BY <1>2 DEF Flushed
    <2>4. \A s \in (LastOf(acks) + 1)..a.ack : ces[s] = a.ece
      BY <2>1
    <2> HIDE DEF a
    <2>5. /\ Append(acks, a) \in Seq(AckRecord)
          /\ LogIsExact(Append(acks, a), ces)
          /\ LastOf(Append(acks, a)) = a.ack
      BY <2>1, <2>2, <2>4, ExtendLog
    <2>6. LastOf(Flushed(ce)) = rcv_nxt
      BY <2>1, <2>3, <2>5
    <2>7. CountOf(Append(acks, a)) = CountOf(acks) + (IF LastOf(acks) = a.ack THEN 1 ELSE 0)
      BY <2>1, ExtendRepeats
    <2>8. LastOf(acks) = a.ack => IsStale
      BY <1>2, <2>1 DEF IsStale, MustFlush
    <2>9. CountOf(Append(acks, a)) \in Nat /\ CountOf(Append(acks, a)) <= data
      BY <1>1, <2>7, <2>8
    <2> QED BY <2>3, <2>5, <2>6, <2>9
  <1>3. CASE ~ MustFlush(ce)
    <2>1. Flushed(ce) = acks
      BY <1>3 DEF Flushed
    <2>2. ce_state = ce \/ LastOf(acks) = rcv_nxt
      BY <1>3 DEF MustFlush
    <2> QED BY <1>1, <2>1, <2>2
  <1> QED BY <1>2, <1>3

\* Read in the next state, the operators speak of the next log.
LEMMA NextLog ==
  /\ LastOf(acks)' = LastOf(acks')
  /\ LogIsExact(acks, ces)' <=> LogIsExact(acks', ces')
  /\ CountOf(acks)' = CountOf(acks')
  /\ IsStale' <=> delayed_ack_reserved' /\ ~ ack_timer'
  BY DEF LastOf, LogIsExact, From, CountOf, RepeatsOf, IsStale

LEMMA ReceiveKeepsIInv ==
  ASSUME IInv, NEW ce \in BOOLEAN, NEW later \in BOOLEAN, Receive(ce, later)
  PROVE  IInv'
  <1> DEFINE log == Flushed(ce)
  <1>1. /\ rcv_nxt < MaxSegments
        /\ rcv_nxt' = rcv_nxt + 1 /\ prior_rcv_nxt' = rcv_nxt + 1
        /\ ces' = Append(ces, ce) /\ ce_state' = ce /\ demand_cwr' = ce
        /\ IF later THEN AckLater(log) ELSE AckNow(log, rcv_nxt + 1, ce)
        /\ data' = data
    BY DEF Receive
  <1>2. /\ log \in Seq(AckRecord) /\ LogIsExact(log, ces)
        /\ LastOf(log) \in 0..rcv_nxt
        /\ \A s \in (LastOf(log) + 1)..rcv_nxt : ces[s] = ce
        /\ CountOf(log) \in Nat /\ CountOf(log) <= data
        /\ data \in 0..MaxData
    BY FlushedIsExact DEF IInv, Reserved
  <1> HIDE DEF log
  <1>3. /\ rcv_nxt \in Nat /\ Len(ces) = rcv_nxt /\ ces \in Seq(BOOLEAN)
        /\ rcv_nxt + 1 \in 0..MaxSegments
    BY <1>1, ReceiverAssumption DEF IInv, Segments
  <1>4. /\ ces' \in Seq(BOOLEAN) /\ Len(ces') = rcv_nxt + 1
        /\ ces'[rcv_nxt + 1] = ce
        /\ \A s \in 1..rcv_nxt : ces'[s] = ces[s]
    BY <1>1, <1>3
  <1>5. LogIsExact(log, ces')
    BY <1>1, <1>2, <1>3, ExtendMarks
  <1>6. \A s \in (LastOf(log) + 1)..(rcv_nxt + 1) : ces'[s] = ce
    BY <1>2, <1>3, <1>4
  <1>7. CASE later
    <2>1. acks' = log /\ delayed_ack_reserved' = TRUE /\ ack_timer' = TRUE
      BY <1>1, <1>7 DEF AckLater
    <2>2. LastOf(log) < rcv_nxt + 1
      BY <1>2, <1>3
    <2>3. Segments'
      BY <1>1, <1>2, <1>3, <1>4, <1>5, <1>6, <2>1, NextLog DEF Segments
    <2>4. LastOf(acks)' < rcv_nxt'
      BY <1>1, <2>1, <2>2, NextLog
    <2>5. Few'
      BY <1>1, <1>2, <2>1, NextLog DEF Few
    <2> QED BY <1>1, <1>2, <2>1, <2>3, <2>4, <2>5 DEF IInv, Reserved
  <1>8. CASE ~ later
    <2> DEFINE a == Ack(rcv_nxt + 1, ce)
    <2>1. acks' = Append(log, a) /\ delayed_ack_reserved' = FALSE
          /\ ack_timer' = FALSE
      BY <1>1, <1>8 DEF AckNow
    <2>2. a \in AckRecord /\ a.ack = rcv_nxt + 1 /\ a.ece = ce
      BY <1>3 DEF Ack, AckRecord
    <2> HIDE DEF a
    <2>3. LastOf(log) < a.ack /\ LastOf(log) <= a.ack /\ a.ack <= Len(ces')
      BY <1>2, <1>3, <1>4, <2>2
    <2>4. \A s \in (LastOf(log) + 1)..a.ack : ces'[s] = a.ece
      BY <1>6, <2>2
    <2>5. /\ acks' \in Seq(AckRecord) /\ LogIsExact(acks', ces')
          /\ LastOf(acks') = rcv_nxt + 1
      BY <1>2, <1>4, <1>5, <2>1, <2>2, <2>3, <2>4, ExtendLog
    <2>6. Segments'
      BY <1>1, <1>3, <1>4, <2>5, NextLog DEF Segments
    <2>7. ~ (LastOf(acks)' < rcv_nxt')
      BY <1>1, <1>3, <2>5, NextLog
    <2>8. CountOf(acks') = CountOf(log)
      BY <1>2, <2>1, <2>2, <2>3, ExtendRepeats
    <2>9. Few'
      BY <1>1, <1>2, <2>1, <2>8, NextLog DEF Few
    <2> QED BY <1>1, <1>2, <2>1, <2>6, <2>7, <2>9 DEF IInv, Reserved
  <1> QED BY <1>7, <1>8

\* An ACK of all that has come, whoever sends it, with the mark of the last
\* segment: the rest of an ACK is what becomes of the module's copy.
LEMMA AckOfAllIsExact ==
  ASSUME IInv
  PROVE  LET a == Ack(rcv_nxt, demand_cwr) IN
         /\ Append(acks, a) \in Seq(AckRecord) /\ LogIsExact(Append(acks, a), ces)
         /\ LastOf(Append(acks, a)) = rcv_nxt
         /\ CountOf(acks) \in Nat
         /\ CountOf(Append(acks, a)) = CountOf(acks) + (IF ack_timer THEN 0 ELSE 1)
  <1> USE DEF IInv, Segments, Reserved
  <1> DEFINE a == Ack(rcv_nxt, demand_cwr)
  <1>1. a \in AckRecord /\ a.ack = rcv_nxt /\ a.ece = ce_state
    BY ReceiverAssumption DEF Ack, AckRecord
  <1> HIDE DEF a
  <1>2. LastOf(acks) <= a.ack /\ a.ack <= Len(ces)
    BY <1>1
  <1>3. \A s \in (LastOf(acks) + 1)..a.ack : ces[s] = a.ece
    BY <1>1
  <1>4. /\ Append(acks, a) \in Seq(AckRecord) /\ LogIsExact(Append(acks, a), ces)
        /\ LastOf(Append(acks, a)) = rcv_nxt
    BY <1>1, <1>2, <1>3, ExtendLog
  <1>5. LastOf(acks) = a.ack <=> ~ ack_timer
    BY <1>1, ReceiverAssumption
  <1>6. CountOf(Append(acks, a)) = CountOf(acks) + (IF ack_timer THEN 0 ELSE 1)
    BY <1>1, <1>5, ExtendRepeats
  <1> QED BY <1>4, <1>6, RepeatsAreFinite DEF a

LEMMA AckTimerKeepsIInv ==
  ASSUME IInv, AckTimer
  PROVE  IInv'
  <1> USE DEF IInv, Segments
  <1>1. /\ acks' = Append(acks, Ack(rcv_nxt, demand_cwr)) /\ delayed_ack_reserved' = FALSE
        /\ ack_timer' = FALSE /\ ack_timer /\ data \in 0..MaxData
        /\ UNCHANGED <<rcv_nxt, prior_rcv_nxt, ce_state, demand_cwr, data, ces>>
    BY DEF AckTimer, AckNow, Reserved
  <1>2. /\ acks' \in Seq(AckRecord) /\ LogIsExact(acks', ces)
        /\ LastOf(acks') = rcv_nxt
        /\ CountOf(acks') = CountOf(acks) /\ CountOf(acks) \in Nat
    BY <1>1, AckOfAllIsExact
  <1>3. Segments'
    BY <1>1, <1>2, ReceiverAssumption, NextLog
  <1>4. Reserved'
    <2>1. LastOf(acks)' = rcv_nxt' /\ rcv_nxt' \in Nat
      BY <1>1, <1>2, ReceiverAssumption, NextLog
    <2>2. ~ (LastOf(acks)' < rcv_nxt')
      BY <2>1
    <2> QED BY <1>1, <2>2 DEF Reserved
  <1>5. Few'
    <2>1. CountOf(acks) <= data
      BY <1>1, <1>2 DEF Few
    <2> QED BY <1>1, <1>2, <2>1, NextLog DEF Few
  <1> QED BY <1>3, <1>4, <1>5

\* Data that carries an ACK leaves the module's copy as it was: the ACK that it
\* repeats, or the one that the module will flush for nothing, is paid for by it.
LEMMA SendDataKeepsIInv ==
  ASSUME IInv, SendData
  PROVE  IInv'
  <1> USE DEF IInv, Segments
  <1>1. /\ acks' = Append(acks, Ack(rcv_nxt, demand_cwr)) /\ ack_timer' = FALSE
        /\ data' = data + 1 /\ data' \in 0..MaxData /\ data \in 0..MaxData
        /\ ack_timer \in BOOLEAN /\ delayed_ack_reserved \in BOOLEAN
        /\ UNCHANGED <<endpoint, ces>>
    BY ReceiverAssumption DEF SendData, Reserved
  <1>2. /\ acks' \in Seq(AckRecord) /\ LogIsExact(acks', ces)
        /\ LastOf(acks') = rcv_nxt /\ CountOf(acks) \in Nat
        /\ CountOf(acks') = CountOf(acks) + (IF ack_timer THEN 0 ELSE 1)
    BY <1>1, AckOfAllIsExact
  <1>3. UNCHANGED <<rcv_nxt, prior_rcv_nxt, ce_state, demand_cwr, delayed_ack_reserved, ces>>
    BY <1>1 DEF endpoint
  <1>4. Segments'
    BY <1>2, <1>3, ReceiverAssumption, NextLog
  <1>5. Reserved'
    <2>1. LastOf(acks)' = rcv_nxt' /\ rcv_nxt' \in Nat
      BY <1>2, <1>3, ReceiverAssumption, NextLog
    <2>2. ~ (LastOf(acks)' < rcv_nxt')
      BY <2>1
    <2> QED BY <1>1, <1>3, <2>2 DEF Reserved
  <1>6. Few'
    <2>1. CountOf(acks) + (IF delayed_ack_reserved /\ ~ ack_timer THEN 1 ELSE 0) <= data
      BY DEF Few, IsStale
    <2>2. CountOf(acks') + (IF delayed_ack_reserved THEN 1 ELSE 0) <= data + 1
      BY <1>1, <1>2, <2>1
    <2> QED BY <1>1, <1>3, <2>2, NextLog DEF Few
  <1> QED BY <1>4, <1>5, <1>6

LEMMA NextKeepsIInv == IInv /\ [RcvNext]_rcvVars => IInv'
  <1> SUFFICES ASSUME IInv, [RcvNext]_rcvVars
               PROVE  IInv'
    OBVIOUS
  <1>1. CASE UNCHANGED rcvVars
    <2>1. Segments' /\ Reserved'
      BY <1>1, NextLog DEF rcvVars, endpoint, IInv, Segments, Reserved
    <2>2. Few'
      BY <1>1, NextLog DEF rcvVars, endpoint, IInv, Few, IsStale
    <2> QED BY <2>1, <2>2 DEF IInv
  <1> QED BY <1>1, ReceiveKeepsIInv, AckTimerKeepsIInv, SendDataKeepsIInv DEF RcvNext

LEMMA IInvImpliesEcho == IInv => EchoIsExact /\ RepeatsAreFew
  <1> SUFFICES ASSUME IInv
               PROVE  EchoIsExact /\ RepeatsAreFew
    OBVIOUS
  <1>0. ASSUME NEW i \in 1..Len(acks)
        PROVE  /\ \A s \in AckedBy(i) : ces[s] = acks[i].ece
               /\ AckedBy(i) = {} <=> From(acks, i) = acks[i].ack
    <2>1. AckedBy(i) = (From(acks, i) + 1)..acks[i].ack
      BY DEF AckedBy, From
    <2>2. From(acks, i) \in Nat /\ acks[i].ack \in Nat
      BY FromIsNat DEF IInv, Segments
    <2>3. /\ From(acks, i) <= acks[i].ack
          /\ \A s \in (From(acks, i) + 1)..acks[i].ack : ces[s] = acks[i].ece
      BY DEF IInv, Segments, LogIsExact
    <2>4. \A b, c \in Nat : b <= c => ((b + 1)..c = {} <=> b = c)
      <3> SUFFICES ASSUME NEW b \in Nat, NEW c \in Nat, b <= c
                   PROVE  (b + 1)..c = {} <=> b = c
        OBVIOUS
      <3>1. b # c => c \in (b + 1)..c
        OBVIOUS
      <3> QED BY <3>1
    <2> QED BY <2>1, <2>2, <2>3, <2>4
  <1>1. Repeats = RepeatsOf(acks)
    BY <1>0 DEF Repeats, RepeatsOf
  <1> QED BY <1>0, <1>1 DEF EchoIsExact, RepeatsAreFew, IInv, Few, CountOf

\* Whatever else happens in a connection, the receiver takes its own steps only.
LEMMA ReceiverInConnection == [ConnNext]_connVars => [RcvNext]_rcvVars
  BY DEF ConnNext, ConnStep, connVars, Send, Deliver, DelayedAck, DataCarriesAck,
         AckArrives, AckIsLost, Timeout, RcvNext

\* A sequence is typed by its elements.
LEMMA SeqOfElements ==
  ASSUME NEW S, NEW T, NEW s \in Seq(S), \A i \in 1..Len(s) : s[i] \in T
  PROVE  s \in Seq(T)
  OBVIOUS

LEMMA IInvImpliesTypes == IInv => RcvTypeOK
  <1> SUFFICES ASSUME IInv
               PROVE  RcvTypeOK
    OBVIOUS
  <1> USE DEF IInv, Segments
  <1>1. ASSUME NEW i \in 1..Len(acks)
        PROVE  acks[i] \in [ack : 0..MaxSegments, ece : BOOLEAN]
    <2>1. acks[i] \in AckRecord
      OBVIOUS
    <2>2. acks[i].ack <= Len(ces)
      BY DEF LogIsExact
    <2>3. acks[i].ack \in 0..MaxSegments
      BY <2>1, <2>2, ReceiverAssumption DEF AckRecord
    <2> QED BY <2>1, <2>3 DEF AckRecord
  <1>2. acks \in Seq([ack : 0..MaxSegments, ece : BOOLEAN])
    BY <1>1, SeqOfElements
  <1> QED BY <1>2 DEF RcvTypeOK, Reserved

\* The receiver's variables keep their types in every connection.
THEOREM ReceiverTypes == ConnSpec => []RcvTypeOK
  <1>1. ConnInit => IInv
    BY InitIInv DEF ConnInit
  <1>2. IInv => RcvTypeOK
    BY IInvImpliesTypes
  <1> QED BY <1>1, <1>2, NextKeepsIInv, ReceiverInConnection, PTL DEF ConnSpec

\* The echo of marks is exact under delayed ACKs: each ACK of the receiver
\* speaks only of segments that carried the mark it echoes.
THEOREM EchoTheorem == ConnSpec => []EchoIsExact
  <1>1. ConnInit => IInv
    BY InitIInv DEF ConnInit
  <1>2. IInv => EchoIsExact
    BY IInvImpliesEcho
  <1> QED BY <1>1, <1>2, NextKeepsIInv, ReceiverInConnection, PTL DEF ConnSpec

\* The ACKs that acknowledge nothing, which a stale delayed_ack_reserved makes the
\* module flush, are never more than the segments of data that the receiver sent.
THEOREM RepeatsTheorem == ConnSpec => []RepeatsAreFew
  <1>1. ConnInit => IInv
    BY InitIInv DEF ConnInit
  <1>2. IInv => RepeatsAreFew
    BY IInvImpliesEcho
  <1> QED BY <1>1, <1>2, NextKeepsIInv, ReceiverInConnection, PTL DEF ConnSpec
----
(***************************************************************************)
(* The window of the sender, which hears of the marks only through ACKs.   *)
(***************************************************************************)
\* How many of the segments after k up to m a router marked.
MarksBetween(marks, k, m) == Cardinality({s \in (k + 1)..m : marks[s]})

\* Marks are counted piece by piece.
LEMMA MarksAddUp ==
  ASSUME NEW marks, NEW k \in Nat, NEW l \in Nat, NEW m \in Nat, k <= l, l <= m
  PROVE  /\ MarksBetween(marks, k, l) \in 0..(l - k)
         /\ MarksBetween(marks, k, m)
              = MarksBetween(marks, k, l) + MarksBetween(marks, l, m)
  <1> DEFINE S(a, b) == {s \in (a + 1)..b : marks[s]}
  <1>1. \A a, b \in Nat : a <= b =>
          IsFiniteSet(S(a, b)) /\ Cardinality(S(a, b)) \in 0..(b - a)
    <2> SUFFICES ASSUME NEW a \in Nat, NEW b \in Nat, a <= b
                 PROVE  IsFiniteSet(S(a, b)) /\ Cardinality(S(a, b)) \in 0..(b - a)
      OBVIOUS
    <2>1. /\ IsFiniteSet((a + 1)..b)
          /\ Cardinality((a + 1)..b) = IF a + 1 > b THEN 0 ELSE b - (a + 1) + 1
      BY FS_Interval
    <2>2. Cardinality((a + 1)..b) = b - a
      BY <2>1
    <2>3. S(a, b) \in SUBSET ((a + 1)..b)
      OBVIOUS
    <2> HIDE DEF S
    <2>4. IsFiniteSet(S(a, b)) /\ Cardinality(S(a, b)) <= b - a
      BY <2>1, <2>2, <2>3, FS_Subset
    <2>5. Cardinality(S(a, b)) \in Nat
      BY <2>4, FS_CardinalityType
    <2> QED BY <2>4, <2>5
  <1>2. S(k, m) = S(k, l) \cup S(l, m) /\ S(k, l) \cap S(l, m) = {}
    OBVIOUS
  <1>3. /\ MarksBetween(marks, k, l) = Cardinality(S(k, l))
        /\ MarksBetween(marks, l, m) = Cardinality(S(l, m))
        /\ MarksBetween(marks, k, m) = Cardinality(S(k, m))
    BY DEF MarksBetween
  <1> HIDE DEF S
  <1>4. /\ IsFiniteSet(S(k, l)) /\ Cardinality(S(k, l)) \in 0..(l - k)
        /\ IsFiniteSet(S(l, m)) /\ Cardinality(S(l, m)) \in 0..(m - l)
    BY <1>1
  <1>5. Cardinality(S(k, m))
          = Cardinality(S(k, l)) + Cardinality(S(l, m)) - Cardinality({})
    BY <1>2, <1>4, FS_Union
  <1>6. Cardinality(S(k, m)) = Cardinality(S(k, l)) + Cardinality(S(l, m))
    BY <1>4, <1>5, FS_EmptySet
  <1> QED BY <1>3, <1>4, <1>6

\* Segments that all carried the same mark.
LEMMA MarksAgree ==
  ASSUME NEW marks, NEW l \in Nat, NEW m \in Nat, l <= m, NEW e \in BOOLEAN,
         \A s \in (l + 1)..m : marks[s] = e
  PROVE  MarksBetween(marks, l, m) = IF e THEN m - l ELSE 0
  <1>1. CASE e
    <2>1. {s \in (l + 1)..m : marks[s]} = (l + 1)..m
      BY <1>1
    <2>2. Cardinality((l + 1)..m) = IF l + 1 > m THEN 0 ELSE m - (l + 1) + 1
      BY FS_Interval
    <2>3. Cardinality((l + 1)..m) = m - l
      BY <2>2
    <2> QED BY <1>1, <2>1, <2>3 DEF MarksBetween
  <1>2. CASE ~ e
    <2>1. {s \in (l + 1)..m : marks[s]} = {}
      BY <1>2
    <2> QED BY <1>2, <2>1, FS_EmptySet DEF MarksBetween
  <1> QED BY <1>1, <1>2

\* Marks of later segments do not count.
LEMMA MarksBefore ==
  ASSUME NEW marks, NEW longer, NEW k, \A s \in 1..k : longer[s] = marks[s]
  PROVE  MarksBetween(longer, 0, k) = MarksBetween(marks, 0, k)
  <1>1. {s \in 1..k : longer[s]} = {s \in 1..k : marks[s]}
    OBVIOUS
  <1> QED BY <1>1 DEF MarksBetween

\* Nothing that the receiver said or saw is ever taken back.
Extends(longer, log) ==
  /\ Len(log) <= Len(longer)
  /\ \A i \in 1..Len(log) : longer[i] = log[i]

LEMMA AppendExtends ==
  ASSUME NEW S, NEW log \in Seq(S), NEW a
  PROVE  Extends(log, log) /\ Extends(Append(log, a), log)
  BY DEF Extends

LEMMA LogsGrow ==
  ASSUME IInv, [RcvNext]_rcvVars
  PROVE  Extends(acks', acks) /\ Extends(ces', ces)
  <1>1. acks \in Seq(AckRecord) /\ ces \in Seq(BOOLEAN)
    BY DEF IInv, Segments
  <1>2. ASSUME NEW ce \in BOOLEAN, NEW later \in BOOLEAN, Receive(ce, later)
        PROVE  Extends(acks', acks) /\ Extends(ces', ces)
    <2>1. ces' = Append(ces, ce) /\ (acks' = Flushed(ce)
                                      \/ acks' = Append(Flushed(ce), Ack(rcv_nxt + 1, ce)))
      BY <1>2 DEF Receive, AckLater, AckNow
    <2>2. Extends(ces', ces)
      BY <1>1, <2>1, AppendExtends
    <2>3. Flushed(ce) \in Seq(AckRecord)
      BY FlushedIsExact
    <2>4. Extends(Flushed(ce), acks)
      BY <1>1, AppendExtends DEF Flushed
    <2>5. Extends(acks', Flushed(ce))
      BY <2>1, <2>3, AppendExtends
    <2>6. Extends(acks', acks)
      <3>1. Len(acks) \in Nat /\ Len(Flushed(ce)) \in Nat /\ Len(acks') \in Nat
        BY <1>1, <2>1, <2>3
      <3> HIDE DEF Flushed
      <3> QED BY <2>4, <2>5, <3>1 DEF Extends
    <2> QED BY <2>2, <2>6
  <1>3. CASE AckTimer
    BY <1>1, <1>3, AppendExtends DEF AckTimer, AckNow
  <1>4. CASE SendData
    BY <1>1, <1>4, AppendExtends DEF SendData
  <1>5. CASE UNCHANGED rcvVars
    BY <1>1, <1>5, AppendExtends DEF rcvVars, endpoint
  <1> QED BY <1>2, <1>3, <1>4, <1>5 DEF RcvNext

\* The segments that the sender has heard of, or would have but for a lost ACK.
Heard == From(acks, seen + 1)

\* The next ACK speaks for the segments after those.
LEMMA HeardFacts ==
  ASSUME IInv, seen \in 0..Len(acks)
  PROVE  /\ Heard \in Nat /\ Heard <= Len(ces) /\ Len(ces) \in 0..MaxSegments
         /\ seen < Len(acks) =>
              /\ acks[seen + 1].ack \in Nat /\ acks[seen + 1].ece \in BOOLEAN
              /\ Heard <= acks[seen + 1].ack /\ acks[seen + 1].ack <= Len(ces)
              /\ \A s \in (Heard + 1)..acks[seen + 1].ack : ces[s] = acks[seen + 1].ece
              /\ From(acks, (seen + 1) + 1) = acks[seen + 1].ack
  <1>1. /\ acks \in Seq(AckRecord) /\ LogIsExact(acks, ces) /\ Len(ces) = rcv_nxt
        /\ rcv_nxt \in 0..MaxSegments
    BY DEF IInv, Segments
  <1>2. Len(ces) \in 0..MaxSegments /\ Len(acks) \in Nat /\ seen \in Nat
    BY <1>1
  <1>3. Heard \in Nat /\ Heard <= Len(ces)
    <2>1. CASE seen = 0
      BY <1>1, <1>2, <2>1, ReceiverAssumption DEF Heard, From
    <2>2. CASE seen # 0
      <3>1. seen \in 1..Len(acks)
        BY <2>2
      <3>2. acks[seen].ack \in Nat /\ acks[seen].ack <= Len(ces)
        BY <1>1, <3>1, FromIsNat DEF LogIsExact
      <3>3. Heard = acks[seen].ack
        BY <3>1 DEF Heard, From
      <3> QED BY <3>2, <3>3
    <2> QED BY <2>1, <2>2
  <1>4. ASSUME seen < Len(acks)
        PROVE  /\ acks[seen + 1].ack \in Nat /\ acks[seen + 1].ece \in BOOLEAN
               /\ Heard <= acks[seen + 1].ack /\ acks[seen + 1].ack <= Len(ces)
               /\ \A s \in (Heard + 1)..acks[seen + 1].ack :
                    ces[s] = acks[seen + 1].ece
               /\ From(acks, (seen + 1) + 1) = acks[seen + 1].ack
    <2>1. seen + 1 \in 1..Len(acks)
      BY <1>2, <1>4
    <2>2. acks[seen + 1] \in AckRecord
      BY <1>1, <2>1
    <2>3. From(acks, (seen + 1) + 1) = acks[seen + 1].ack
      BY <1>2 DEF From
    <2> QED BY <1>1, <2>1, <2>2, <2>3 DEF LogIsExact, Heard, AckRecord
  <1> QED BY <1>2, <1>3, <1>4

\* What the routers asked for, of the first segments.
Account(marks, k) == k - 2 * MarksBetween(marks, 0, k)
Error == loss_cwnd - (InitCwnd + increases + ignored + Account(ces, Acknowledged))

\* The inductive invariant: the window is off by two at most for each segment
\* misled about, those not counted yet for which the next ACK will speak, and by
\* the packets counted for ACKs that acknowledged nothing.
Lag == Heard - Acknowledged
WindowIInv ==
  /\ seen \in 0..Len(acks)
  /\ Acknowledged \in Nat /\ Acknowledged <= Heard
  /\ snd_una = Acknowledged * Segment /\ prior_snd_una = snd_una
  /\ loss_cwnd \in Int /\ increases \in Int /\ ignored \in Int /\ misled \in Int
  /\ repeated \in Int /\ Lag <= misled
  /\ Error \in -(2 * (misled - Lag) + repeated) .. 2 * (misled - Lag) + repeated

LEMMA NothingMarked == \A marks : MarksBetween(marks, 0, 0) = 0
  <1> SUFFICES ASSUME NEW marks
               PROVE  MarksBetween(marks, 0, 0) = 0
    OBVIOUS
  <1>1. {s \in (0 + 1)..0 : marks[s]} = {}
    OBVIOUS
  <1> QED BY <1>1, FS_EmptySet DEF MarksBetween

LEMMA ExactQuotient ==
  ASSUME NEW k \in Nat, NEW d \in Nat \ {0}
  PROVE  (k * d) \div d = k
  BY SMT

\* The error, where the segments that were misread are settled.
LEMMA ErrorSettles ==
  ASSUME NEW e \in Int, NEW mis \in Int, NEW lag \in Int, NEW r \in Int,
         NEW m \in 0..lag, e \in -(2 * (mis - lag) + r) .. 2 * (mis - lag) + r
  PROVE  /\ e + 2 * m \in -(2 * (mis - 0) + r) .. 2 * (mis - 0) + r
         /\ e - 2 * (lag - m) \in -(2 * (mis - 0) + r) .. 2 * (mis - 0) + r
  BY SMTT(30)

\* The error, where packets are counted twice.
LEMMA ErrorGrows ==
  ASSUME NEW e \in Int, NEW f \in Int, NEW mis \in Int, NEW r \in Int, NEW d \in Nat,
         f - e \in -d .. d,
         e \in -(2 * (mis - 0) + r) .. 2 * (mis - 0) + r
  PROVE  f \in -(2 * (mis - 0) + (r + d)) .. 2 * (mis - 0) + (r + d)
  BY SMTT(30)

\* The error after an ACK that brings d packets of which the routers knew nothing.
LEMMA ErrorOfRepeat ==
  ASSUME NEW w \in Int, NEW w1 \in Int, NEW inc \in {0, 1}, NEW d \in Nat,
         NEW i \in Int, NEW i1 \in Int, NEW g \in Int, NEW g1 \in Int,
         NEW base \in Int, i1 = i + inc,
         \/ g1 = g /\ w1 = w + inc + d
         \/ g1 = g /\ w1 = w + inc - d
         \/ g1 = g + d /\ w1 = w + inc
  PROVE  (w1 - (base + i1 + g1)) - (w - (base + i + g)) \in -d .. d
  BY SMTT(30)

LEMMA InitWindow == ConnInit => WindowIInv
  <1> SUFFICES ASSUME ConnInit
               PROVE  WindowIInv
    OBVIOUS
  <1>1. /\ seen = 0 /\ misled = 0 /\ acks = <<>> /\ snd_una = 0 /\ prior_snd_una = 0
        /\ loss_cwnd = InitCwnd /\ increases = 0 /\ ignored = 0 /\ repeated = 0
    BY DEF ConnInit, RcvInit, Sender!Init
  <1>2. 0 * Segment = 0 /\ (0 * Segment) \div Segment = 0
    BY ExactQuotient, ConnAssumption
  <1>3. Acknowledged = 0 /\ snd_una = Acknowledged * Segment
    BY <1>1, <1>2 DEF Acknowledged
  <1>4. Heard = 0 /\ seen \in 0..Len(acks)
    BY <1>1 DEF Heard, From
  <1>5. Account(ces, Acknowledged) = 0
    BY <1>3, NothingMarked DEF Account
  <1>6. InitCwnd \in Nat
    BY ConnAssumption
  <1>7. Error = 0
    BY <1>1, <1>5, <1>6 DEF Error
  <1> QED BY <1>1, <1>3, <1>4, <1>6, <1>7 DEF WindowIInv, Lag

\* Segments that come, and ACKs that are sent, do not change what was heard.
LEMMA ReceivingKeepsWindow ==
  ASSUME IInv, WindowIInv, Extends(acks', acks), Extends(ces', ces),
         acks' \in Seq(AckRecord),
         UNCHANGED <<snd_una, prior_snd_una, loss_cwnd, increases, ignored, seen,
                     repeated, misled>>
  PROVE  WindowIInv'
  <1>1. Acknowledged' = Acknowledged
    BY DEF Acknowledged
  <1>2. Heard' = Heard /\ seen' \in 0..Len(acks')
    <2>1. seen \in 0..Len(acks) /\ Len(acks) \in Nat /\ Len(acks') \in Nat
      BY DEF WindowIInv, IInv, Segments
    <2>2. seen' \in 0..Len(acks')
      BY <2>1 DEF Extends
    <2>3. CASE seen = 0
      BY <2>3 DEF Heard, From
    <2>4. CASE seen # 0
      <3>1. seen \in 1..Len(acks)
        BY <2>1, <2>4
      <3>2. acks'[seen] = acks[seen]
        BY <3>1 DEF Extends
      <3>3. Heard = acks[seen].ack /\ Heard' = acks'[seen'].ack
        BY <3>1 DEF Heard, From
      <3> QED BY <2>2, <3>2, <3>3
    <2> QED BY <2>2, <2>3, <2>4
  <1>3. Account(ces', Acknowledged) = Account(ces, Acknowledged)
    <2>1. Acknowledged \in Nat /\ Acknowledged <= Len(ces) /\ Len(ces) \in Nat
      BY HeardFacts DEF WindowIInv
    <2>2. \A s \in 1..Acknowledged : ces'[s] = ces[s]
      BY <2>1 DEF Extends
    <2> QED BY <2>2, MarksBefore DEF Account
  <1>4. Error' = Error
    <2>1. Account(ces, Acknowledged)' = Account(ces', Acknowledged')
      BY DEF Account, MarksBetween
    <2> QED BY <1>1, <1>3, <2>1 DEF Error
  <1>5. Lag' = Lag
    BY <1>1, <1>2 DEF Lag
  <1> QED BY <1>1, <1>2, <1>4, <1>5 DEF WindowIInv

\* An ACK that was lost: the next one will speak for its segments.
LEMMA LostAckKeepsWindow ==
  ASSUME IInv, WindowIInv, AckIsLost
  PROVE  WindowIInv'
  <1> DEFINE a == acks[seen + 1]
  <1>1. /\ seen < Len(acks) /\ seen' = seen + 1
        /\ misled' = misled + a.ack - (IF seen = 0 THEN 0 ELSE acks[seen].ack)
        /\ UNCHANGED <<rcvVars, senderVars, repeated>>
    BY DEF AckIsLost
  <1>2. UNCHANGED <<acks, ces, snd_una, prior_snd_una, loss_cwnd, increases, ignored,
                    repeated>>
    BY <1>1 DEF rcvVars, senderVars
  <1>3. seen \in 0..Len(acks) /\ Len(acks) \in Nat
    BY DEF WindowIInv, IInv, Segments
  <1>4. Heard = IF seen = 0 THEN 0 ELSE acks[seen].ack
    BY <1>3 DEF Heard, From
  <1>5. /\ Heard \in Nat /\ a.ack \in Nat /\ Heard <= a.ack
        /\ From(acks, (seen + 1) + 1) = a.ack
    BY <1>1, <1>3, HeardFacts
  <1> HIDE DEF a
  <1>6. Heard' = a.ack /\ misled' = misled + a.ack - Heard
    <2>1. Heard' = From(acks', seen' + 1)
      BY DEF Heard, From
    <2> QED BY <1>1, <1>2, <1>4, <1>5, <2>1
  <1>7. Acknowledged' = Acknowledged /\ Acknowledged \in Nat
    BY <1>2 DEF Acknowledged, WindowIInv
  <1>8. Error' = Error
    BY <1>2, <1>7 DEF Error, Account, MarksBetween
  <1>9. misled' - Lag' = misled - Lag /\ misled' \in Int /\ Lag' \in Int /\ Lag \in Int
    BY <1>5, <1>6, <1>7 DEF Lag, WindowIInv
  <1>10. seen' \in 0..Len(acks')
    BY <1>1, <1>2, <1>3
  <1>11. Lag' <= misled' /\ Acknowledged' <= Heard'
    BY <1>5, <1>6, <1>7, <1>9, SMTT(30) DEF WindowIInv
  <1> QED BY <1>2, <1>7, <1>8, <1>9, <1>10, <1>11 DEF WindowIInv

\* What an ACK does to the window, when sequence numbers do not wrap.
LEMMA AckMovesWindow ==
  ASSUME MaxSegments * Segment < SeqSpace, WindowIInv,
         NEW k \in Nat, k <= MaxSegments, Acknowledged < k, NEW ece \in BOOLEAN,
         Sender!InAck((k - Acknowledged) * Segment, FALSE, ece)
  PROVE  /\ snd_una' = k * Segment /\ prior_snd_una' = snd_una'
         /\ \E inc \in {0, 1} :
              /\ increases' = increases + inc
              /\ \/ /\ ~ ece /\ ignored' = ignored
                    /\ loss_cwnd' = loss_cwnd + inc + (k - Acknowledged)
                 \/ /\ ece /\ ignored' = ignored
                    /\ loss_cwnd' = loss_cwnd + inc - (k - Acknowledged)
                 \/ /\ ece /\ ignored' = ignored + (k - Acknowledged)
                    /\ loss_cwnd' = loss_cwnd + inc
  <1> DEFINE n == k - Acknowledged
             una == (snd_una + n * Segment) % SeqSpace
             bytes == Sender!AckedBytes(una, FALSE)
  <1>1. /\ Acknowledged \in Nat /\ n \in Nat \ {0} /\ Segment \in Nat \ {0}
        /\ MaxSegments \in Nat /\ SeqSpace \in Nat \ {0}
        /\ snd_una = Acknowledged * Segment /\ prior_snd_una = snd_una
    BY ConnAssumption, ReceiverAssumption DEF WindowIInv
  <1>2. \A x, m \in Nat : x < m => x % m = x
    BY SMT
  <1>3. /\ snd_una + n * Segment = k * Segment
        /\ k * Segment \in Nat /\ k * Segment <= MaxSegments * Segment
        /\ k * Segment - snd_una = n * Segment
        /\ n * Segment \in Nat \ {0} /\ n * Segment <= k * Segment
        /\ MaxSegments * Segment \in Nat
    <2>1. \A c, d \in Nat : c * d \in Nat
      BY SMT
    <2>2. \A b, c, d \in Nat : b <= c => b * d <= c * d
      BY SMT
    <2>3. k * Segment = Acknowledged * Segment + n * Segment
      <3>1. k = Acknowledged + n
        BY <1>1
      <3> HIDE DEF n
      <3>2. \A b, c, d \in Nat : (b + c) * d = b * d + c * d
        BY SMT
      <3> QED BY <1>1, <3>1, <3>2
    <2> HIDE DEF n
    <2>4. /\ Acknowledged * Segment \in Nat /\ n * Segment \in Nat /\ k * Segment \in Nat
          /\ MaxSegments * Segment \in Nat /\ k * Segment <= MaxSegments * Segment
      BY <1>1, <2>1, <2>2
    <2>5. 1 * Segment <= n * Segment /\ 1 * Segment = Segment
      BY <1>1, <2>2
    <2> QED BY <1>1, <2>3, <2>4, <2>5
  <1>4. una = k * Segment
    BY <1>1, <1>2, <1>3
  <1>5. bytes = n * Segment
    <2>1. (una - prior_snd_una) % SeqSpace = n * Segment
      <3> HIDE DEF una, n
      <3>1. una - prior_snd_una = n * Segment /\ n * Segment < SeqSpace
        BY <1>1, <1>3, <1>4
      <3> QED BY <1>1, <1>2, <1>3, <3>1
    <2> HIDE DEF una, n
    <2> QED BY <1>3, <2>1 DEF Sender!AckedBytes
  <1>6. bytes # 0 /\ bytes \div Segment = n
    <2> HIDE DEF bytes, n
    <2> QED BY <1>1, <1>3, <1>5, ExactQuotient
  <1>7. /\ snd_una' = una /\ prior_snd_una' = una
        /\ loss_cwnd' = Sender!Adjusted(Sender!Increased, bytes \div Segment, ece)
        /\ increases' = IF Sender!AiDue THEN increases + 1 ELSE increases
        /\ ignored' = IF ece /\ ~ Sender!CanBrake(Sender!Increased, bytes \div Segment)
                      THEN ignored + bytes \div Segment ELSE ignored
    BY <1>6 DEF Sender!InAck
  <1> HIDE DEF n, una, bytes
  <1>8. /\ loss_cwnd' = Sender!Adjusted(Sender!Increased, n, ece)
        /\ ignored' = IF ece /\ ~ Sender!CanBrake(Sender!Increased, n)
                      THEN ignored + n ELSE ignored
    BY <1>6, <1>7
  <1>9. \E inc \in {0, 1} : increases' = increases + inc
                             /\ Sender!Increased = loss_cwnd + inc
    <2>1. increases \in Int /\ loss_cwnd \in Int
      BY DEF WindowIInv
    <2>2. CASE Sender!AiDue
      BY <1>7, <2>2 DEF Sender!Increased
    <2>3. CASE ~ Sender!AiDue
      BY <1>7, <2>1, <2>3 DEF Sender!Increased
    <2> QED BY <2>2, <2>3
  <1>10. PICK inc \in {0, 1} : increases' = increases + inc
                                /\ Sender!Increased = loss_cwnd + inc
    BY <1>9
  <1>11. \/ ~ ece /\ ignored' = ignored /\ loss_cwnd' = loss_cwnd + inc + n
         \/ ece /\ ignored' = ignored /\ loss_cwnd' = loss_cwnd + inc - n
         \/ ece /\ ignored' = ignored + n /\ loss_cwnd' = loss_cwnd + inc
    <2>1. CASE ~ ece
      BY <1>8, <1>10, <2>1 DEF Sender!Adjusted
    <2>2. CASE ece /\ Sender!CanBrake(Sender!Increased, n)
      <3>1. ignored' = ignored
        BY <1>8, <2>2
      <3>2. loss_cwnd' = Sender!Increased - n
        BY <1>8, <2>2 DEF Sender!Adjusted
      <3>3. loss_cwnd \in Int /\ inc \in Int /\ n \in Int
        BY <1>1 DEF WindowIInv
      <3> QED BY <1>10, <2>2, <3>1, <3>2, <3>3
    <2>3. CASE ece /\ ~ Sender!CanBrake(Sender!Increased, n)
      BY <1>8, <1>10, <2>3 DEF Sender!Adjusted
    <2> QED BY <2>1, <2>2, <2>3
  <1> QED BY <1>4, <1>7, <1>10, <1>11 DEF n

\* An ACK that arrives brings the account up to date, and settles what the lost
\* ones before it left open: by two at most for each of their segments.
LEMMA AckKeepsWindow ==
  ASSUME MaxSegments * Segment < SeqSpace, IInv, WindowIInv, AckArrives,
         acks[seen + 1].ack # Acknowledged
  PROVE  WindowIInv'
  <1> DEFINE k == acks[seen + 1].ack
             ece == acks[seen + 1].ece
             before == MarksBetween(ces, 0, Acknowledged)
             misread == MarksBetween(ces, Acknowledged, Heard)
             told == MarksBetween(ces, Heard, k)
  <1>1. /\ seen < Len(acks) /\ seen' = seen + 1
        /\ Sender!InAck((k - Acknowledged) * Segment, FALSE, ece)
        /\ UNCHANGED <<acks, ces, repeated, misled>>
    BY DEF AckArrives, rcvVars, endpoint
  <1>2. /\ seen \in 0..Len(acks) /\ Len(acks) \in Nat
        /\ Acknowledged \in Nat /\ Acknowledged <= Heard /\ misled \in Int
        /\ loss_cwnd \in Int /\ increases \in Int /\ ignored \in Int
    BY DEF WindowIInv, IInv, Segments
  <1>3. /\ Heard \in Nat /\ k \in Nat /\ ece \in BOOLEAN /\ Heard <= k /\ k # Acknowledged
        /\ k <= MaxSegments /\ From(acks, (seen + 1) + 1) = k
        /\ \A s \in (Heard + 1)..k : ces[s] = ece
    BY <1>1, <1>2, HeardFacts, ReceiverAssumption
  <1> HIDE DEF k, ece
  <1>4. /\ snd_una' = k * Segment /\ prior_snd_una' = snd_una'
        /\ \E inc \in {0, 1} :
             /\ increases' = increases + inc
             /\ \/ /\ ~ ece /\ ignored' = ignored
                   /\ loss_cwnd' = loss_cwnd + inc + (k - Acknowledged)
                \/ /\ ece /\ ignored' = ignored
                   /\ loss_cwnd' = loss_cwnd + inc - (k - Acknowledged)
                \/ /\ ece /\ ignored' = ignored + (k - Acknowledged)
                   /\ loss_cwnd' = loss_cwnd + inc
    <2>1. Acknowledged < k
      BY <1>2, <1>3
    <2> QED BY <1>1, <1>3, <2>1, AckMovesWindow
  <1>5. PICK inc \in {0, 1} :
             /\ increases' = increases + inc
             /\ \/ /\ ~ ece /\ ignored' = ignored
                   /\ loss_cwnd' = loss_cwnd + inc + (k - Acknowledged)
                \/ /\ ece /\ ignored' = ignored
                   /\ loss_cwnd' = loss_cwnd + inc - (k - Acknowledged)
                \/ /\ ece /\ ignored' = ignored + (k - Acknowledged)
                   /\ loss_cwnd' = loss_cwnd + inc
    BY <1>4
  <1>6. Acknowledged' = k
    BY <1>3, <1>4, ConnAssumption, ExactQuotient DEF Acknowledged
  <1>7. Heard' = k /\ seen' \in 0..Len(acks') /\ Lag' = 0 /\ Lag = Heard - Acknowledged
    <2>1. Heard' = From(acks', seen' + 1)
      BY DEF Heard, From
    <2>2. Heard' = k
      BY <1>1, <1>3, <2>1
    <2>3. seen' \in 0..Len(acks')
      BY <1>1, <1>2
    <2> QED BY <1>3, <1>6, <2>2, <2>3 DEF Lag
  <1>8. /\ MarksBetween(ces, 0, k) = before + misread + told
        /\ before \in Int /\ misread \in 0..Lag
        /\ told = IF ece THEN k - Heard ELSE 0
    <2>1. /\ before \in Int
          /\ MarksBetween(ces, 0, k) = before + MarksBetween(ces, Acknowledged, k)
      <3>1. Acknowledged <= k /\ 0 <= Acknowledged /\ 0 \in Nat
        BY <1>2, <1>3
      <3>2. /\ MarksBetween(ces, 0, Acknowledged) \in 0..(Acknowledged - 0)
            /\ MarksBetween(ces, 0, k)
                 = MarksBetween(ces, 0, Acknowledged) + MarksBetween(ces, Acknowledged, k)
        <4>1. ASSUME NEW z \in Nat, z <= Acknowledged
              PROVE  /\ MarksBetween(ces, z, Acknowledged) \in 0..(Acknowledged - z)
                     /\ MarksBetween(ces, z, k)
                          = MarksBetween(ces, z, Acknowledged)
                              + MarksBetween(ces, Acknowledged, k)
          <5> HIDE DEF before, misread, told
          <5> QED BY <1>2, <1>3, <3>1, <4>1, MarksAddUp
        <4> QED BY <3>1, <4>1
      <3> QED BY <3>2
    <2>2. /\ misread \in 0..Lag
          /\ MarksBetween(ces, Acknowledged, k) = misread + told
      BY <1>2, <1>3, <1>7, MarksAddUp
    <2>3. told = IF ece THEN k - Heard ELSE 0
      BY <1>3, MarksAgree
    <2> HIDE DEF before, misread, told
    <2>4. told \in Int
      BY <1>3, <2>3
    <2> QED BY <1>2, <2>1, <2>2, <2>3, <2>4
  <1>9. Error = loss_cwnd - (InitCwnd + increases + ignored + (Acknowledged - 2 * before))
    BY DEF Error, Account
  <1>10. Error' = loss_cwnd' - (InitCwnd + increases' + ignored'
                                  + (k - 2 * (before + misread + told)))
    <2>1. Account(ces, Acknowledged)' = k - 2 * MarksBetween(ces, 0, k)
      BY <1>1, <1>6 DEF Account, MarksBetween
    <2> QED BY <1>8, <2>1 DEF Error
  <1> HIDE DEF before, misread, told
  <1>11. loss_cwnd' \in Int /\ increases' \in Int /\ ignored' \in Int
    BY <1>2, <1>3, <1>5
  <1>12. InitCwnd \in Int
    BY ConnAssumption
  <1>13. /\ ~ ece => Error' = Error + 2 * misread
         /\ ece => Error' = Error - 2 * (Lag - misread)
    <2>1. CASE ~ ece
      BY <1>2, <1>3, <1>5, <1>7, <1>8, <1>9, <1>10, <1>12, <2>1
    <2>2. CASE ece
      BY <1>2, <1>3, <1>5, <1>7, <1>8, <1>9, <1>10, <1>12, <2>2
    <2> QED BY <2>1, <2>2
  <1>14. /\ Error' \in -(2 * (misled' - Lag') + repeated') .. 2 * (misled' - Lag') + repeated'
         /\ repeated' \in Int
    <2>1. /\ Error \in -(2 * (misled - Lag) + repeated) .. 2 * (misled - Lag) + repeated
          /\ Lag \in Int /\ misled' = misled /\ repeated' = repeated /\ repeated \in Int
      BY <1>1, <1>2, <1>3 DEF WindowIInv, Lag
    <2>2. Error \in Int
      BY <2>1
    <2>3. /\ Error + 2 * misread \in -(2 * (misled - 0) + repeated) .. 2 * (misled - 0) + repeated
          /\ Error - 2 * (Lag - misread)
               \in -(2 * (misled - 0) + repeated) .. 2 * (misled - 0) + repeated
      BY <1>2, <1>8, <2>1, <2>2, ErrorSettles
    <2>4. /\ Error' \in -(2 * (misled - 0) + repeated) .. 2 * (misled - 0) + repeated
      BY <1>3, <1>13, <2>3
    <2> QED BY <1>7, <2>1, <2>4
  <1>15. Lag' <= misled'
    BY <1>1, <1>2, <1>3, <1>7 DEF WindowIInv
  <1> QED BY <1>1, <1>2, <1>3, <1>4, <1>6, <1>7, <1>11, <1>14, <1>15 DEF WindowIInv

\* An ACK that acknowledges nothing is counted as so many packets all the same.
LEMMA RepeatedAckKeepsWindow ==
  ASSUME MaxSegments * Segment < SeqSpace, IInv, WindowIInv, AckArrives,
         acks[seen + 1].ack = Acknowledged
  PROVE  WindowIInv'
  <1> DEFINE ece == acks[seen + 1].ece
             d == RcvMss \div Segment
             una == (snd_una + 0) % SeqSpace
             bytes == Sender!AckedBytes(una, FALSE)
  <1>1. /\ seen < Len(acks) /\ seen' = seen + 1
        /\ Sender!InAck((Acknowledged - Acknowledged) * Segment, FALSE, ece)
        /\ repeated' = repeated + d
        /\ UNCHANGED <<acks, ces, misled>>
    BY DEF AckArrives, rcvVars, endpoint
  <1>2. /\ seen \in 0..Len(acks) /\ Len(acks) \in Nat
        /\ Acknowledged \in Nat /\ Acknowledged <= Heard /\ misled \in Int
        /\ loss_cwnd \in Int /\ increases \in Int /\ ignored \in Int /\ repeated \in Int
        /\ snd_una = Acknowledged * Segment /\ prior_snd_una = snd_una
    BY DEF WindowIInv, IInv, Segments
  <1>3. /\ Heard = Acknowledged /\ ece \in BOOLEAN /\ Acknowledged <= MaxSegments
        /\ From(acks, (seen + 1) + 1) = Acknowledged
    <2>1. /\ Heard \in Nat /\ Heard <= Acknowledged /\ Heard <= Len(ces)
          /\ Len(ces) \in 0..MaxSegments /\ ece \in BOOLEAN
          /\ From(acks, (seen + 1) + 1) = Acknowledged
      BY <1>1, <1>2, HeardFacts
    <2> QED BY <1>2, <2>1, ReceiverAssumption
  <1>4. /\ Segment \in Nat /\ Segment > 0 /\ SeqSpace \in Nat /\ SeqSpace > 0
        /\ RcvMss \in Nat /\ MaxSegments \in Nat
    BY ConnAssumption, ReceiverAssumption
  <1>5. snd_una \in Nat /\ snd_una < SeqSpace
    <2>1. \A b, c, e \in Nat : b <= c => b * e \in Nat /\ c * e \in Nat /\ b * e <= c * e
      BY SMT
    <2> QED BY <1>2, <1>3, <1>4, <2>1
  <1>6. una = snd_una
    BY <1>4, <1>5, SMT
  <1>7. bytes = RcvMss
    <2>1. (una - prior_snd_una) % SeqSpace = 0
      <3>1. una - prior_snd_una = 0
        BY <1>2, <1>5, <1>6
      <3> QED BY <1>4, <3>1, SMT
    <2> HIDE DEF una
    <2> QED BY <2>1 DEF Sender!AckedBytes
  <1>8. d \in Nat /\ (RcvMss = 0 => d = 0)
    BY <1>4, SMT
  <1>9. (Acknowledged - Acknowledged) * Segment = 0
    BY <1>2, <1>4, SMT
  <1>10. Sender!InAck(0, FALSE, ece)
    BY <1>1, <1>9
  <1> HIDE DEF d
  <1>11. /\ snd_una' = snd_una /\ prior_snd_una' = prior_snd_una
         /\ \E inc \in {0, 1} :
              /\ increases' = increases + inc
              /\ \/ ~ ece /\ ignored' = ignored /\ loss_cwnd' = loss_cwnd + inc + d
                 \/ ece /\ ignored' = ignored /\ loss_cwnd' = loss_cwnd + inc - d
                 \/ ece /\ ignored' = ignored + d /\ loss_cwnd' = loss_cwnd + inc
    <2>1. CASE RcvMss = 0
      <3>1. UNCHANGED <<prior_snd_una, loss_cwnd, increases, ignored>> /\ snd_una' = una
        BY <1>7, <1>10, <2>1 DEF Sender!InAck, Sender!history
      <3>2. snd_una' = snd_una /\ d = 0
        BY <1>6, <1>8, <2>1, <3>1
      <3>3. /\ increases' = increases + 0 /\ ignored' = ignored /\ ignored' = ignored + d
            /\ loss_cwnd' = loss_cwnd + 0 + d /\ loss_cwnd' = loss_cwnd + 0 - d
        BY <1>2, <3>1, <3>2
      <3> HIDE DEF una, bytes
      <3> QED BY <1>3, <3>1, <3>2, <3>3
    <2>2. CASE RcvMss # 0
      <3>1. /\ snd_una' = una /\ prior_snd_una' = una
            /\ loss_cwnd' = Sender!Adjusted(Sender!Increased, d, ece)
            /\ increases' = IF Sender!AiDue THEN increases + 1 ELSE increases
            /\ ignored' = IF ece /\ ~ Sender!CanBrake(Sender!Increased, d)
                          THEN ignored + d ELSE ignored
        BY <1>7, <1>10, <2>2 DEF Sender!InAck, d
      <3>2. \E inc \in {0, 1} : increases' = increases + inc
                                 /\ Sender!Increased = loss_cwnd + inc
        <4>1. CASE Sender!AiDue
          BY <3>1, <4>1 DEF Sender!Increased
        <4>2. CASE ~ Sender!AiDue
          <5>1. increases' = increases + 0 /\ Sender!Increased = loss_cwnd + 0
            BY <1>2, <3>1, <4>2 DEF Sender!Increased
          <5> QED BY <5>1
        <4> QED BY <4>1, <4>2
      <3>3. PICK inc \in {0, 1} : increases' = increases + inc
                                    /\ Sender!Increased = loss_cwnd + inc
        BY <3>2
      <3>4. \/ ~ ece /\ ignored' = ignored /\ loss_cwnd' = loss_cwnd + inc + d
            \/ ece /\ ignored' = ignored /\ loss_cwnd' = loss_cwnd + inc - d
            \/ ece /\ ignored' = ignored + d /\ loss_cwnd' = loss_cwnd + inc
        <4>1. CASE ~ ece
          BY <3>1, <3>3, <4>1 DEF Sender!Adjusted
        <4>2. CASE ece /\ Sender!CanBrake(Sender!Increased, d)
          <5>1. ignored' = ignored /\ loss_cwnd' = Sender!Increased - d
            BY <3>1, <4>2 DEF Sender!Adjusted
          <5>2. loss_cwnd \in Int /\ inc \in Int /\ d \in Int
            BY <1>2, <1>8
          <5> HIDE DEF ece
          <5>3. loss_cwnd' = loss_cwnd + inc - d
            BY <3>3, <5>1, <5>2
          <5> QED BY <4>2, <5>1, <5>3
        <4>3. CASE ece /\ ~ Sender!CanBrake(Sender!Increased, d)
          BY <3>1, <3>3, <4>3 DEF Sender!Adjusted
        <4> QED BY <4>1, <4>2, <4>3
      <3>5. snd_una' = snd_una /\ prior_snd_una' = prior_snd_una
        BY <1>2, <1>6, <3>1
      <3> HIDE DEF una, bytes, ece
      <3> QED BY <3>3, <3>4, <3>5
    <2> QED BY <2>1, <2>2
  <1> HIDE DEF ece, una, bytes
  <1>12. Acknowledged' = Acknowledged
    BY <1>11 DEF Acknowledged
  <1>13. Heard' = Acknowledged /\ seen' \in 0..Len(acks') /\ Lag' = 0 /\ Lag = 0
    <2>1. Heard' = From(acks', seen' + 1)
      BY DEF Heard, From
    <2>2. Heard' = Acknowledged
      BY <1>1, <1>3, <2>1
    <2> QED BY <1>1, <1>2, <1>3, <1>12, <2>2 DEF Lag
  <1> DEFINE account == Account(ces, Acknowledged)
  <1>14. account \in Int
    <2>1. MarksBetween(ces, 0, Acknowledged) \in 0..(Acknowledged - 0)
      <3>1. 0 \in Nat /\ 0 <= Acknowledged /\ Acknowledged <= Acknowledged
        BY <1>2
      <3> QED BY <1>2, <3>1, MarksAddUp
    <2> QED BY <1>2, <2>1 DEF Account
  <1>15. /\ Error = loss_cwnd - (InitCwnd + increases + ignored + account)
         /\ Error' = loss_cwnd' - (InitCwnd + increases' + ignored' + account)
    <2>1. Account(ces, Acknowledged)' = account
      BY <1>1, <1>12 DEF Account, MarksBetween
    <2> QED BY <2>1 DEF Error
  <1> HIDE DEF account
  <1>16. Error' - Error \in -d .. d /\ Error' \in Int /\ Error \in Int
         /\ loss_cwnd' \in Int /\ increases' \in Int /\ ignored' \in Int
    <2>1. PICK inc \in {0, 1} :
              /\ increases' = increases + inc
              /\ \/ ~ ece /\ ignored' = ignored /\ loss_cwnd' = loss_cwnd + inc + d
                 \/ ece /\ ignored' = ignored /\ loss_cwnd' = loss_cwnd + inc - d
                 \/ ece /\ ignored' = ignored + d /\ loss_cwnd' = loss_cwnd + inc
      BY <1>11
    <2>2. loss_cwnd' \in Int /\ increases' \in Int /\ ignored' \in Int /\ InitCwnd \in Int
      BY <1>2, <1>8, <2>1, ConnAssumption
    <2> DEFINE base == InitCwnd + account
    <2>3. /\ base \in Int
          /\ Error = loss_cwnd - (base + increases + ignored)
          /\ Error' = loss_cwnd' - (base + increases' + ignored')
      BY <1>2, <1>14, <1>15, <2>2
    <2> HIDE DEF base
    <2>4. (loss_cwnd' - (base + increases' + ignored'))
            - (loss_cwnd - (base + increases + ignored)) \in -d .. d
      BY <1>2, <1>8, <2>1, <2>2, <2>3, ErrorOfRepeat
    <2> QED BY <1>2, <2>2, <2>3, <2>4
  <1>17. /\ Error' \in -(2 * (misled' - Lag') + repeated') .. 2 * (misled' - Lag') + repeated'
         /\ repeated' \in Int
    <2>1. Error \in -(2 * (misled - Lag) + repeated) .. 2 * (misled - Lag) + repeated
      BY DEF WindowIInv
    <2>2. Error' \in -(2 * (misled - 0) + (repeated + d)) .. 2 * (misled - 0) + (repeated + d)
      BY <1>2, <1>8, <1>13, <1>16, <2>1, ErrorGrows
    <2> QED BY <1>1, <1>2, <1>8, <1>13, <2>2
  <1>18. Lag' <= misled'
    BY <1>1, <1>2, <1>13 DEF WindowIInv
  <1> QED BY <1>1, <1>2, <1>11, <1>12, <1>13, <1>16, <1>17, <1>18 DEF WindowIInv

LEMMA ConnKeepsWindow ==
  ASSUME MaxSegments * Segment < SeqSpace, IInv, IInv', WindowIInv, [ConnNext]_connVars
  PROVE  WindowIInv'
  <1>1. CASE AckArrives
    BY <1>1, AckKeepsWindow, RepeatedAckKeepsWindow
  <1>2. CASE AckIsLost
    BY <1>2, LostAckKeepsWindow
  <1>3. ASSUME UNCHANGED <<snd_una, prior_snd_una, loss_cwnd, increases, ignored,
                           seen, repeated, misled>>
        PROVE  WindowIInv'
    <2>1. Extends(acks', acks) /\ Extends(ces', ces)
      BY ReceiverInConnection, LogsGrow
    <2>2. acks' \in Seq(AckRecord)
      BY DEF IInv, Segments
    <2> QED BY <1>3, <2>1, <2>2, ReceivingKeepsWindow
  <1>4. CASE \/ Send \/ (\E ce, later \in BOOLEAN : Deliver(ce, later))
             \/ DelayedAck \/ DataCarriesAck \/ Timeout \/ UNCHANGED connVars
    BY <1>3, <1>4 DEF Send, Deliver, DelayedAck, DataCarriesAck, Timeout, Sender!EnterLoss, Sender!history,
       senderVars, path, connVars
  <1> QED BY <1>1, <1>2, <1>4 DEF ConnNext, ConnStep

LEMMA WindowIsFollowed ==
  ASSUME IInv, WindowIInv
  PROVE  WindowFollowsMarks
  <1>1. Marked = {s \in (0 + 1)..Acknowledged : ces[s]}
    BY DEF Marked
  <1>2. Feedback = Account(ces, Acknowledged)
    BY <1>1 DEF Feedback, Account, MarksBetween
  <1>3. /\ Heard \in Nat /\ Acknowledged \in Nat /\ Acknowledged <= Heard
        /\ misled \in Int /\ repeated \in Int
        /\ Error \in -(2 * (misled - Lag) + repeated) .. 2 * (misled - Lag) + repeated
    BY HeardFacts DEF WindowIInv
  <1>4. Error \in -(2 * misled + repeated) .. 2 * misled + repeated
    BY <1>3 DEF Lag
  <1> QED BY <1>2, <1>4 DEF WindowFollowsMarks, Error

\* For any number of segments short of the wrap of the sequence numbers, any
\* marks, any choice of the kernel to delay its ACKs, any ACKs lost and any
\* retransmission timeouts: the window of the sender is the initial one, the
\* increases, and the account of the marks, to within two for each segment that
\* only another's ACK spoke for, and the packets that an ACK which acknowledges
\* nothing is taken for.
THEOREM WindowTheorem ==
  ASSUME MaxSegments * Segment < SeqSpace
  PROVE  ConnSpec => []WindowFollowsMarks
  <1>1. ConnInit => IInv /\ WindowIInv
    BY InitIInv, InitWindow DEF ConnInit
  <1>2. IInv /\ WindowIInv /\ [ConnNext]_connVars => (IInv /\ WindowIInv)'
    BY NextKeepsIInv, ReceiverInConnection, ConnKeepsWindow
  <1>3. IInv /\ WindowIInv => WindowFollowsMarks
    BY WindowIsFollowed
  <1> QED BY <1>1, <1>2, <1>3, PTL DEF ConnSpec
====

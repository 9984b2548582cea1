---- MODULE PieQueue ----
(***************************************************************************)
(* The PIE packet queue: a controller moves the probability with which     *)
(* arrivals are dropped, every t_update milliseconds, by the queueing      *)
(* delay it estimates from the size of the queue and the measured rate of  *)
(* departures.  The emulator has no timer for it: each call first makes up *)
(* for the updates that are due.  drop_prob_ is in units of 1/PUnit.       *)
(***************************************************************************)
EXTENDS AqmQueue

CONSTANTS QdelayRef, MaxBurst,  \* of the arguments, in ms
          TUpdate,              \* t_update_, in ms
          DqThreshold,          \* dq_threshold_, in bytes
          PUnit,                \* 1.0, as a drop probability
          PieSizes,             \* the packet sizes that arrive at a PIE queue
          MaxToPie              \* bound on them

ASSUME PieAssumption ==
  /\ QdelayRef \in Nat \ {0} /\ MaxBurst \in Nat \ {0} /\ TUpdate \in Nat \ {0}
  /\ DqThreshold \in Nat /\ PUnit \in Nat \ {0} /\ MaxToPie \in Nat
  /\ PieSizes \subseteq Nat \ {0}

VARIABLES pie,    \* the members of PIEPacketQueue
          early   \* history: the last arrival was dropped for its queue's delay

pieVars == <<pie, early>>

Invalid == -1     \* DQ_COUNT_INVALID: departures are not being measured

\* granted is history: up to when updates were made when the last allowance
\* for a burst was given.
PieInit ==
  /\ early = FALSE
  /\ pie = [drop_prob |-> 0, burst_allowance |-> 0, qdelay_old |-> 0,
            current_qdelay |-> 0, dq_count |-> Invalid, dq_tstamp |-> 0,
            avg_dq_rate |-> 0, last_update |-> clock, granted |-> - MaxBurst]

Between(low, x, high) == IF x < low THEN low ELSE IF x > high THEN high ELSE x
NotNegative(x) == IF x < 0 THEN 0 ELSE x

\* The proportional and the integral term, scaled to the size of drop_prob_:
\* ( 0.125 * a + 1.25 * b ) / divisor.
Adjustment(s, delay) ==
  LET a == delay - QdelayRef
      b == delay - s.current_qdelay
      divisor == CASE 100 * s.drop_prob < PUnit -> 128
                   [] 10 * s.drop_prob < PUnit -> 32
                   [] OTHER -> 16
  IN (PUnit * (a + 10 * b)) \div (8 * divisor)

\* The queue is without delay: the next burst is allowed for, and the departures
\* are measured anew.
Grant(s) ==
  [s EXCEPT !.dq_count = Invalid, !.avg_dq_rate = 0, !.burst_allowance = MaxBurst,
            !.granted = s.last_update]

\* One turn of the loop of calculate_drop_prob(), with bytes in the queue.
Update(s, bytes) ==
  LET delay == IF s.avg_dq_rate > 0 THEN bytes \div s.avg_dq_rate ELSE 0
      known == ~ (delay = 0 /\ bytes # 0)
      moved == s.drop_prob + Adjustment(s, delay)
      prob == Between(0, moved, PUnit)
      idle == delay = 0 /\ s.current_qdelay = 0 /\ known /\ moved <= PUnit
      updated == [s EXCEPT !.qdelay_old = s.current_qdelay,
                           !.current_qdelay = delay,
                           !.drop_prob = IF idle THEN (98 * prob) \div 100 ELSE prob,
                           !.burst_allowance = NotNegative(@ - TUpdate),
                           !.last_update = @ + TUpdate]
      calm == /\ updated.drop_prob = 0 /\ s.avg_dq_rate > 0
              /\ delay < QdelayRef \div 2 /\ s.current_qdelay < QdelayRef \div 2
  IN IF calm THEN Grant(updated) ELSE updated

\* calculate_drop_prob(): the updates that are due, one after the other, all with
\* the bytes that are in the queue now.
Recalculated(s, bytes) ==
  LET due == NotNegative((clock - s.last_update - 1) \div TUpdate)
      after[n \in 0..due] == IF n = 0 THEN s ELSE Update(after[n - 1], bytes)
  IN after[due]

\* Whether drop_early() may answer TRUE, and whether it may answer FALSE; the
\* number it draws is in [0, 1).
Spared(s) ==
  \/ s.burst_allowance > 0
  \/ s.qdelay_old < QdelayRef \div 2 /\ 5 * s.drop_prob < PUnit
  \/ queue.bytes < 2 * PacketSize
MayDrop(s) == ~ Spared(s) /\ s.drop_prob > 0
MayKeep(s) == Spared(s) \/ s.drop_prob < PUnit

PieEnqueue(p) ==
  /\ discipline = "pie"
  /\ pie' = Recalculated(pie, queue.bytes)
  /\ \/ /\ HasRoomFor(queue, p) /\ MayDrop(pie')
        /\ early' = TRUE
        /\ UNCHANGED queue
     \/ /\ ~ HasRoomFor(queue, p) \/ MayKeep(pie')
        /\ early' = FALSE
        /\ queue' = TailEnqueue(queue, p)
  /\ aborted' = ~ Good(queue')

\* What follows a measurement: none, while too little is queued, or the next one.
\* Slip: the next one counts the time of this one again.
RestartedLate(m, bytes) ==
  [m EXCEPT !.dq_count = IF bytes < DqThreshold THEN Invalid ELSE 0]

Restarted(m, bytes) ==
  IF bytes < DqThreshold THEN [m EXCEPT !.dq_count = Invalid]
  ELSE [m EXCEPT !.dq_count = 0, !.dq_tstamp = clock]

\* dequeue(): a measurement begins when there is enough to measure, and ends when
\* more than dq_threshold_ bytes have left; within one millisecond it goes on.
Measured(s, size, bytes) ==
  LET starts == bytes >= DqThreshold /\ s.dq_count = Invalid
      m == IF starts THEN [s EXCEPT !.dq_count = size, !.dq_tstamp = clock]
           ELSE IF s.dq_count = Invalid THEN s ELSE [s EXCEPT !.dq_count = @ + size]
      dtime == clock - m.dq_tstamp
      sample == m.dq_count \div dtime
      rate == IF m.avg_dq_rate = 0 THEN sample
              ELSE m.avg_dq_rate - m.avg_dq_rate \div 8 + sample \div 8
  IN IF m.dq_count > DqThreshold /\ dtime > 0
     THEN [Restarted(m, bytes) EXCEPT
                    !.avg_dq_rate = rate,
                    !.burst_allowance = NotNegative(@ - dtime)]
     ELSE m

PieDequeue ==
  /\ discipline = "pie"
  /\ ~ aborted /\ ~ IsEmpty(queue)
  /\ queue' = Dequeued(queue)
  /\ last' = Front(queue).id
  /\ aborted' = ~ Good(queue')
  /\ pie' = Recalculated(Measured(pie, Front(queue).size, queue'.bytes), queue'.bytes)
  /\ early' = FALSE
  /\ UNCHANGED <<discipline, clock, arrived>>

PieArrive(size) ==
  /\ ~ aborted /\ arrived < MaxToPie
  /\ PieEnqueue(Arrival(size))
  /\ arrived' = arrived + 1
  /\ UNCHANGED <<discipline, clock, last>>

PieTick ==
  /\ discipline = "pie"
  /\ Tick /\ early' = FALSE
  /\ UNCHANGED <<vars, pie>>

PieNext == PieDequeue \/ PieTick \/ \E size \in PieSizes : PieArrive(size)
----
\* PIE allows for bursts: after an allowance of max_burst no packet is dropped
\* early for half of that time.  Half, because the allowance is used up twice,
\* by the updates and by the measurements; each alone takes no more than the
\* time that has passed, as a measurement begins after the allowance was given.
PieSparesBursts == early => 2 * (clock - pie.granted) >= MaxBurst
====

---- MODULE RateQueues ----
(***************************************************************************)
(* The routers that ABC is compared with: RCP, VCP and XCP.  Each is a     *)
(* droptail queue that keeps time windows of arrivals and departures,      *)
(* computes from them what its senders should do, and writes that into the *)
(* header of a departing packet, unless an earlier router on the path      *)
(* wrote something stricter.                                               *)
(*                                                                         *)
(* The header is hidden in the last bytes of the payload.  RCP and XCP     *)
(* write a number, a bit to each pair of bytes: the bit is set if the two  *)
(* are equal, which all are when the sender has filled the packet.  A pair *)
(* is modelled by the difference of its bytes, for VCP by how often they   *)
(* were moved apart: it writes a load into two bytes, and reads it off the *)
(* difference of what is left of them in a signed byte.  What the clock,   *)
(* the arrivals and the droptail queue do is the environment of            *)
(* CellularQueue.                                                          *)
(***************************************************************************)
EXTENDS CellularQueue, FiniteSetsExt, Functions

CONSTANTS Kinds,        \* of "rcp", "vcp" and "xcp"
          Long, Short,  \* 100 ms and 20 ms (VCP's 200 ms are twice Long)
          Alpha, Beta,  \* alpha and beta of the arguments, in hundredths
          Modes,        \* mode of RCP's arguments: 3 is RCP, 1 the ABC target
          Unit,         \* 1000: what a rate is multiplied by in a header
          Bits,         \* 20: the bits of a number in a header
          ByteSpace,    \* 256
          Fill,         \* the byte that senders fill a packet with
          MinCoded,     \* shorter packets are not coded
          Lengths,      \* the packet sizes that arrive
          MaxCoded,     \* bound on the packets of a run
          Targets, Hops \* what earlier routers wrote, and how many they were

ASSUME RateAssumption ==
  /\ Long \in Nat \ {0} /\ Short \in Nat \ {0} /\ Unit \in Nat \ {0}
  /\ Alpha \in Nat \ {0} /\ Beta \in Nat \ {0} /\ Modes \subseteq Nat \ {0}
  /\ Bits \in Nat /\ ByteSpace \in Nat \ {0} /\ Fill \in Int
  /\ Targets \subseteq Nat /\ Hops \in Nat /\ 2 * (Hops + 1) < ByteSpace

VARIABLES kind, mode,
          eq_queue, real_dq_queue,       \* arrivals; opportunities, used or not
          rate_dq_queue,                 \* dq_queue of these queues: departures
          real_dq_queue_our_scheme,      \* the same over the short window
          dq_queue2, qsize_avg,          \* XCP: lengths seen at departures
          rtt_avg,                       \* round trips, one for each departure
          avg_rtt, last_update,
          target_rate,                   \* RCP: in 1/Unit; XCP: eta; VCP: mode
          coded                          \* what the last call returned

windows == <<eq_queue, real_dq_queue, real_dq_queue_our_scheme, rate_dq_queue,
             dq_queue2, qsize_avg, rtt_avg>>
law == <<avg_rtt, last_update, target_rate>>
unused == <<meter, tokens, accelerated, chances, returned>>
rateVars == <<kind, mode, windows, law, coded>>

\* The constructors; RCP starts at half a packet for each ms.
RateInit ==
  /\ kind \in Kinds
  /\ mode \in IF kind = "rcp" THEN Modes ELSE {0}
  /\ eq_queue = <<0>> /\ rate_dq_queue = <<0>> /\ real_dq_queue = <<0>> /\ real_dq_queue_our_scheme = <<0>>
  /\ dq_queue2 = <<0>> /\ qsize_avg = <<0>> /\ rtt_avg = <<Long>>
  /\ avg_rtt = Long /\ last_update = 0
  /\ target_rate = IF kind = "vcp" THEN 0 ELSE Unit \div 2
  /\ coded = <<>>

now == clock % Wrap

\* The loops that forget old samples end at the first one that is not stale.
StaleFor(w, samples) ==
  /\ (now - samples[1]) % Wrap > w
  /\ Len(samples) > 1
  /\ now > samples[2]

Forgotten(w, samples) ==
  Min({n \in 0..(Len(samples) - 1) :
         ~ StaleFor(w, SubSeq(samples, n + 1, Len(samples)))})

Joined(w, samples, value, n) ==
  Append(SubSeq(samples, n + 1, Len(samples)), value)

\* A window takes the present time in.
Noted(w, samples) == Joined(w, samples, now, Forgotten(w, samples))

EqWindow == CASE kind = "rcp" -> Long [] kind = "vcp" -> 2 * Long [] OTHER -> avg_rtt

\* enqueue(): RCP and XCP count an arrival that is dropped, VCP does not.
RateEnqueue(p) ==
  /\ queue' = TailEnqueue(queue, p)
  /\ eq_queue' = IF kind = "vcp" /\ ~ HasRoomFor(queue, p)
                 THEN eq_queue ELSE Noted(EqWindow, eq_queue)
  /\ UNCHANGED <<kind, mode, real_dq_queue, real_dq_queue_our_scheme, rate_dq_queue,
                 dq_queue2, qsize_avg, rtt_avg, law>>
  /\ coded' = <<>>
----
SumOf(samples) == FoldFunction(+, 0, samples)

\* Writing a bit: the pair is made equal, or one step more unequal.
\* Slip: a set bit takes back one step only.
OneStepBack(d, bit) ==
  IF bit = 1 THEN IF d = 0 THEN 0 ELSE (d - 2) % ByteSpace
  ELSE (d + 2) % ByteSpace

Written(d, bit) == IF bit = 1 THEN 0 ELSE (d + 2) % ByteSpace

\* The powers of two.
Power[i \in 0..Bits] == IF i = 0 THEN 1 ELSE 2 * Power[i - 1]

Bit(n, i) == (n \div Power[i]) % 2

Blank == [i \in -1..Bits |-> 0]
Magnitude(cells) ==
  SumOf([i \in 0..(Bits - 1) |-> IF cells[i] = 0 THEN Power[i] ELSE 0])

\* A signed byte that has wrapped around at most once.
Char(b) == CASE 2 * b >= ByteSpace -> b - ByteSpace
             [] 2 * b < - ByteSpace -> b + ByteSpace
             [] OTHER -> b

\* The load in a pair whose bytes were moved apart n times, each by one.
VcpRead(n) ==
  LET apart == Char(Fill + n) - Char(Fill - n)
  IN CASE apart = 4 -> 2 [] apart = 2 -> 1 [] OTHER -> 0

\* What the header says; XCP has a pair for the sign before the number.
Decoded(cells) ==
  CASE kind = "rcp" -> Magnitude(cells)
    [] kind = "xcp" -> IF cells[-1] = 0 THEN Magnitude(cells) ELSE - Magnitude(cells)
    [] kind = "vcp" -> VcpRead(cells[Bits])

WithNumber(cells, n) ==
  [i \in DOMAIN cells |-> IF i \in 0..(Bits - 1) THEN Written(cells[i], Bit(n, i))
                          ELSE cells[i]]

\* RCP writes only a rate that is below the one it finds.
RcpCoded(cells, target) ==
  IF target < Decoded(cells) THEN WithNumber(cells, target) ELSE cells

\* XCP always writes, and adds to the pair of the sign when it is negative.
XcpCoded(cells, target) ==
  LET t == AtMost(target, Decoded(cells))
      signed == IF t < 0 THEN [cells EXCEPT ![-1] = Written(@, 0)] ELSE cells
  IN WithNumber(signed, IF t < 0 THEN - t ELSE t)

\* VCP moves the bytes on by what its load is above the one it finds.
VcpCoded(cells, load) ==
  LET incoming == VcpRead(cells[Bits])
  IN [cells EXCEPT ![Bits] = @ + (AtLeast(incoming, load) - incoming)]

IsCoded(p) == kind = "vcp" \/ p.size >= (IF kind = "rcp" THEN MinCoded ELSE MinCoded + 1)

Coded(cells, target) ==
  CASE kind = "rcp" -> RcpCoded(cells, target)
    [] kind = "xcp" -> XcpCoded(cells, target)
    [] kind = "vcp" -> VcpCoded(cells, target)

\* p.least is what the path asks for, in the order of the kind.
Stricter(a, b) == IF kind = "vcp" THEN AtLeast(a, b) ELSE AtMost(a, b)

Forwarded(p, target) ==
  IF IsCoded(p)
  THEN [p EXCEPT !.cells = Coded(@, target), !.least = Stricter(@, target)]
  ELSE p
----
\* A departure and its round trip join their windows together.
RoundTrips(p, n) ==
  /\ rate_dq_queue' = Joined(avg_rtt, rate_dq_queue, now, n)
  /\ rtt_avg' = Joined(avg_rtt, rtt_avg, Long + ((now - p.at) % Wrap), n)

Average == SumOf(rtt_avg') \div Len(rate_dq_queue')

\* The control law of RCP: the spare capacity, less the queue, moves the rate.
RcpRate(avg) ==
  LET n == Len(real_dq_queue') - 1
      m == Len(eq_queue) - 1
      gain == Alpha * (95 * n - 100 * m) * avg - 100 * Beta * queue'.packets * Long
  IN AtLeast(Unit \div 20, target_rate + (target_rate * Long * gain) \div (9500 * n * avg * avg))

\* The target rate of ABC, written where RCP writes its own.
AbcRate ==
  LET k == Len(real_dq_queue_our_scheme') - 1
      late == AtMost(0, QdelayRef * k - (queue'.packets + 1) * Short)
  IN AtLeast(Unit \div 100, (98 * Unit * k + (Beta * Unit * late) \div Long) \div (100 * Short))

RcpDequeue(p) ==
  LET due == now > (last_update + Long) % Wrap
      avg == IF due THEN Average ELSE avg_rtt
      rate == IF due /\ mode = 3 THEN RcpRate(avg) ELSE target_rate
  IN
  /\ RoundTrips(p, Forgotten(avg_rtt, rate_dq_queue))
  /\ avg_rtt' = avg
  /\ last_update' = IF due THEN now ELSE last_update
  /\ target_rate' = IF mode = 1 THEN AbcRate ELSE rate
  /\ UNCHANGED <<dq_queue2, qsize_avg>>
  /\ coded' = Forwarded(p, target_rate')

\* C++ truncates towards zero.
Truncated(a, b) == IF a < 0 THEN - ((- a) \div b) ELSE a \div b

XcpDequeue(p) ==
  LET n == Forgotten(Long, dq_queue2) IN
  /\ RoundTrips(p, Forgotten(avg_rtt, rate_dq_queue))
  /\ dq_queue2' = Joined(Long, dq_queue2, now, n)
  /\ qsize_avg' = Joined(Long, qsize_avg, queue'.packets, n)
  /\ avg_rtt' = Average
  /\ last_update' = now
  /\ LET spare == Len(real_dq_queue') - Len(eq_queue)
         avg_qsize == Min({qsize_avg'[i] : i \in DOMAIN qsize_avg'})
     IN target_rate' = Truncated(Unit * (Alpha * spare - Beta * avg_qsize),
                                 100 * Len(rate_dq_queue'))
  /\ coded' = Forwarded(p, target_rate')

\* VCP: the load factor is put into one of three classes now and then.
VcpDequeue(p) ==
  LET load == 500 * (2 * Len(eq_queue) + queue'.packets)
      due == (now - last_update) % Wrap > 2 * Long
      class == CASE load < 784 * Len(real_dq_queue') -> 0
                 [] load > 980 * Len(real_dq_queue') -> 2
                 [] OTHER -> 1
  IN
  /\ last_update' = IF due THEN now ELSE last_update
  /\ target_rate' = IF due THEN class ELSE target_rate
  /\ UNCHANGED <<rate_dq_queue, rtt_avg, dq_queue2, qsize_avg, avg_rtt>>
  /\ LET calm == target_rate' = 2 /\ (now - last_update') % Wrap > Long
     IN coded' = Forwarded(p, IF calm THEN 1 ELSE target_rate')

\* The window of opportunities takes every call in, whether there is a packet.
Opportunity ==
  /\ real_dq_queue' = Noted(CASE kind = "rcp" -> Long [] kind = "vcp" -> 2 * Long
                              [] OTHER -> avg_rtt, real_dq_queue)
  /\ real_dq_queue_our_scheme' =
       IF kind = "rcp" THEN Noted(Short, real_dq_queue_our_scheme)
       ELSE real_dq_queue_our_scheme

RateIdle ==
  /\ IsEmpty(queue)
  /\ Len(real_dq_queue) < MaxSamples
  /\ Opportunity
  /\ coded' = <<>>
  /\ UNCHANGED <<queue, kind, mode, eq_queue, rate_dq_queue, dq_queue2, qsize_avg, rtt_avg, law>>

RateDequeue ==
  /\ ~ IsEmpty(queue)
  /\ queue' = Dequeued(queue)
  /\ Opportunity
  /\ CASE kind = "rcp" -> RcpDequeue(Front(queue))
       [] kind = "xcp" -> XcpDequeue(Front(queue))
       [] kind = "vcp" -> VcpDequeue(Front(queue))
  /\ UNCHANGED <<kind, mode, eq_queue>>
----
(***************************************************************************)
(* The path: a packet arrives as its sender filled it, or with what up to  *)
(* Hops earlier routers of the kind have written.                          *)
(***************************************************************************)
Loads == {0, 1, 2}
Asked == CASE kind = "xcp" -> Targets \cup {- t : t \in Targets}
           [] kind = "vcp" -> Loads
           [] OTHER -> Targets
Upstream == UNION {[1..n -> Asked] : n \in 0..Hops}

Most == IF kind = "vcp" THEN 0 ELSE Power[Bits] - 1

\* What the path has asked of a packet so far: the header, and the history.
Travelled(size, path) ==
  LET fresh == [id |-> arrived + 1, size |-> size, at |-> now,
                cells |-> Blank, least |-> Most]
      after[n \in 0..Len(path)] ==
        IF n = 0 THEN fresh ELSE Forwarded(after[n - 1], path[n])
  IN after[Len(path)]

RateArrive(size, path) ==
  /\ arrived < MaxCoded
  /\ RateEnqueue(Travelled(size, path))
  /\ arrived' = arrived + 1
  /\ UNCHANGED <<clock, unused>>

RateTick ==
  /\ \E d \in Jumps : clock + d \in 0..MaxClock /\ clock' = clock + d
  /\ coded' = <<>>
  /\ UNCHANGED <<queue, arrived, kind, mode, windows, law, unused>>

RateNext ==
  \/ \E size \in Lengths, path \in Upstream : RateArrive(size, path)
  \/ (RateIdle \/ RateDequeue) /\ UNCHANGED <<clock, arrived, unused>>
  \/ RateTick
----
\* What leaves a router says what the strictest router of the path asked for,
\* this one included: the bits that several routers wrote over one another
\* still read as one number, and a sender is never told of a rate above it.
PathDecides ==
  coded # <<>> /\ IsCoded(coded) => Decoded(coded.cells) = coded.least
====

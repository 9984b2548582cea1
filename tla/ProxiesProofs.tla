---- MODULE ProxiesProofs ----
(***************************************************************************)
(* What holds of the proxies: of the ring buffer for every size, of the    *)
(* DNS relay for every capacity, of a connection of the recording proxy    *)
(* for any number of requests, and of its parser for any responses.        *)
(***************************************************************************)
EXTENDS Proxies, WellFoundedInduction, TLAPS

\* The inductive invariant: the indices are in the buffer, they count what is
\* held, and what is held is intact.
RingInv == TypeOK /\ CountIsExact /\ BytesAreKept

\* The ring buffer starts empty and intact.
LEMMA RingInit == Init => RingInv
  BY SizeAssumption DEF Init, RingInv, TypeOK, CountIsExact, BytesAreKept,
     available_to_pop, Cells

\* push() writes only free cells, and counts what it wrote.
LEMMA PushKeepsRing ==
  ASSUME RingInv, NEW n \in 1..Size, Push(n)
  PROVE  RingInv'
<1> USE SizeAssumption
<1>1. TypeOK /\ CountIsExact /\ BytesAreKept
  BY DEF RingInv
<1>2. n \in Nat /\ n >= 1 /\ next_byte_to_push + n <= Size
  BY <1>1 DEF Push, Contiguous, TypeOK, Cells, available_to_push
<1>3. n <= available_to_push
  BY <1>1 DEF Push, Contiguous, TypeOK, Cells, available_to_push
<1>4. TypeOK'
  BY <1>1, <1>2 DEF Push, TypeOK, Cells, Advanced
<1>5. CountIsExact'
  BY <1>1, <1>2, <1>3
  DEF Push, TypeOK, Cells, Advanced, CountIsExact, available_to_pop,
      available_to_push, Contiguous
<1>6. BytesAreKept'
  <2> SUFFICES ASSUME NEW k \in 0..(taken' - given' - 1)
               PROVE  buffer'[CellOf(k)'] = given' + 1 + k
    BY DEF BytesAreKept
  <2>a. given' = given /\ taken' = taken + n
        /\ next_byte_to_pop' = next_byte_to_pop
    BY DEF Push
  <2>b. CellOf(k)' = CellOf(k)
    BY <2>a DEF CellOf
  <2>0. k \in 0..(taken + n - given - 1)
    BY <2>a, <1>1, <1>2 DEF TypeOK
  <2>1. CellOf(k) \in Cells
    BY <1>1, <1>2, <1>3, <2>0
    DEF TypeOK, Cells, CellOf, CountIsExact, available_to_pop, available_to_push
  <2>2. CASE k < taken - given
    <3>1. buffer[CellOf(k)] = given + 1 + k
      BY <1>1, <2>0, <2>2 DEF BytesAreKept, TypeOK
    <3>2. ~ (CellOf(k) >= next_byte_to_push /\ CellOf(k) < next_byte_to_push + n)
      BY <1>1, <1>2, <1>3, <2>0, <2>2
      DEF TypeOK, Cells, CellOf, CountIsExact, available_to_pop, available_to_push
    <3> QED
      BY <2>a, <2>b, <2>1, <3>1, <3>2 DEF Push
  <2>3. CASE k >= taken - given
    <3>1. CellOf(k) = next_byte_to_push + (k - (taken - given))
      BY <1>1, <1>2, <1>3, <2>0, <2>3
      DEF TypeOK, Cells, CellOf, CountIsExact, available_to_pop, available_to_push
    <3>2. CellOf(k) >= next_byte_to_push /\ CellOf(k) < next_byte_to_push + n
      BY <1>1, <1>2, <2>0, <2>3, <3>1 DEF TypeOK, Cells
    <3>3. buffer'[CellOf(k)] = taken + 1 + CellOf(k) - next_byte_to_push
      BY <2>1, <3>2 DEF Push
    <3> QED
      BY <1>1, <2>a, <2>b, <2>0, <3>1, <3>3 DEF TypeOK, Cells
  <2> QED
    BY <2>a, <2>b, <2>0, <2>2, <2>3, <1>1, <1>2 DEF TypeOK
<1> QED
  BY <1>4, <1>5, <1>6 DEF RingInv

\* pop() takes bytes off the front and leaves the others where they are.
LEMMA PopKeepsRing ==
  ASSUME RingInv, NEW n \in 1..Size, Pop(n)
  PROVE  RingInv'
<1> USE SizeAssumption
<1>1. TypeOK /\ CountIsExact /\ BytesAreKept
  BY DEF RingInv
<1>2. n \in Nat /\ n >= 1 /\ next_byte_to_pop + n <= Size
  BY <1>1 DEF Pop, Contiguous, TypeOK, Cells, available_to_pop
<1>3. n <= available_to_pop
  BY <1>1 DEF Pop, Contiguous, TypeOK, Cells, available_to_pop
<1>4. TypeOK'
  BY <1>1, <1>2 DEF Pop, TypeOK, Cells, Advanced
<1>5. CountIsExact'
  BY <1>1, <1>2, <1>3
  DEF Pop, TypeOK, Cells, Advanced, CountIsExact, available_to_pop
<1>6. BytesAreKept'
  <2> SUFFICES ASSUME NEW k \in 0..(taken - (given + n) - 1)
               PROVE  buffer[CellOf(k)'] = given + n + 1 + k
    BY DEF Pop, BytesAreKept, CellOf
  <2>1. CellOf(k)' = CellOf(n + k)
    BY <1>1, <1>2, <1>3
    DEF Pop, Advanced, TypeOK, Cells, CellOf, CountIsExact, available_to_pop
  <2>2. n + k \in 0..(taken - given - 1)
    BY <1>1, <1>2 DEF TypeOK
  <2> QED
    BY <1>1, <1>2, <2>1, <2>2 DEF BytesAreKept, TypeOK
<1> QED
  BY <1>4, <1>5, <1>6 DEF RingInv

\* Whatever the buffer's size and however reads and writes split the stream, no
\* byte held is ever overwritten, and the indices count the bytes held.
THEOREM RingIsSound == Spec => [](TypeOK /\ CountIsExact /\ BytesAreKept)
<1>1. Init => RingInv
  BY RingInit
<1>2. RingInv /\ [Next]_vars => RingInv'
  <2> SUFFICES ASSUME RingInv, [Next]_vars PROVE RingInv'
    OBVIOUS
  <2>1. ASSUME NEW n \in 1..Size, Push(n) PROVE RingInv'
    BY <2>1, PushKeepsRing
  <2>2. ASSUME NEW n \in 1..Size, Pop(n) PROVE RingInv'
    BY <2>2, PopKeepsRing
  <2>3. CASE UNCHANGED vars
    BY <2>3 DEF vars, RingInv, TypeOK, CountIsExact, BytesAreKept, CellOf,
       available_to_pop
  <2> QED
    BY <2>1, <2>2, <2>3 DEF Next
<1>3. RingInv => TypeOK /\ CountIsExact /\ BytesAreKept
  BY DEF RingInv
<1> QED
  BY <1>1, <1>2, <1>3, PTL DEF Spec

\* The ring buffer implements a first-in first-out stream of Size - 1 bytes:
\* push() is a Take, pop() is a Give of the very next bytes.
LEMMA RingRefines == Spec => StreamSpec
<1>1. Init => Stream!StreamInit
  BY DEF Init, Stream!StreamInit
<1>2. RingInv /\ [Next]_vars => [Stream!Take \/ Stream!Give]_(Stream!streamVars)
  <2> SUFFICES ASSUME RingInv, [Next]_vars
               PROVE  [Stream!Take \/ Stream!Give]_(Stream!streamVars)
    OBVIOUS
  <2> USE SizeAssumption
  <2>1. ASSUME NEW n \in 1..Size, Push(n) PROVE Stream!Take
    <3>1. n \in 1..(Size - 1 - (taken - given))
      BY <2>1 DEF RingInv, TypeOK, Cells, CountIsExact, available_to_pop, Push,
         Contiguous, available_to_push
    <3> QED
      BY <2>1, <3>1 DEF Push, Stream!Take
  <2>2. ASSUME NEW n \in 1..Size, Pop(n) PROVE Stream!Give
    <3>1. n \in 1..(taken - given) /\ next_byte_to_pop + n <= Size
      BY <2>2 DEF RingInv, TypeOK, Cells, CountIsExact, available_to_pop, Pop,
         Contiguous
    <3>2. CellOf(n - 1) = next_byte_to_pop + n - 1
      BY <3>1 DEF RingInv, TypeOK, Cells, CellOf
    <3>3. buffer[next_byte_to_pop + n - 1] = given + n
      BY <3>1, <3>2 DEF RingInv, BytesAreKept, TypeOK
    <3> QED
      BY <2>2, <3>1, <3>3 DEF Pop, Stream!Give
  <2>3. CASE UNCHANGED vars
    BY <2>3 DEF vars, Stream!streamVars
  <2> QED
    BY <2>1, <2>2, <2>3 DEF Next
<1>3. Spec => []RingInv
  BY RingIsSound, PTL DEF RingInv
<1> QED
  BY <1>1, <1>2, <1>3, PTL DEF Spec, StreamSpec, Stream!StreamSpec

\* A step of the proxies is one of the ring buffer, or leaves it alone.
LEMMA RingInProxies == [ProxiesNext]_proxiesVars => [Next]_vars
  BY DEF ProxiesNext, proxiesVars

\* Where the ring buffer runs among the proxies, it implements the stream.
THEOREM RingImplementsStream == ProxiesSpec => StreamSpec
  <1>1. ProxiesInit => Init
    BY DEF ProxiesInit
  <1> QED BY <1>1, RingInProxies, RingRefines, PTL DEF ProxiesSpec, Spec
----
(***************************************************************************)
(* The DNS relay.                                                          *)
(***************************************************************************)
RelayTypes ==
  /\ relay \in {"turn", "poll", "callbacks", "exited", "aborted", "threw"}
  /\ sent_ \in [Ends -> Nat] /\ unread \in [Ends -> Nat]
  /\ held \in [Ends -> Nat] /\ passed \in [Ends -> Nat]
  /\ shut \subseteq Ends /\ eof \subseteq Ends /\ reset \in BOOLEAN

\* Every byte an end sent is in its socket, in its queue or passed on.
BytesAreSomewhere == \A e \in Ends : sent_[e] = unread[e] + held[e] + passed[e]

\* EOF is read from an end that has shut, after all its bytes.
EofComesLast == \A e \in eof : e \in shut /\ unread[e] = 0

\* A descriptor that poll() found readable stays so until it is read.
StaysReadable == \A e \in Ends : In(e) \in has => unread[e] > 0 \/ e \in shut

\* The inductive invariant of the relay.
RelayIInv ==
  RelayTypes /\ BytesAreSomewhere /\ EofComesLast /\ StaysReadable /\ RelaysEverything

LEMMA EndsFacts ==
  /\ \A e \in Ends : Other(e) \in Ends /\ Other(Other(e)) = e
  /\ \A e, f \in Ends : In(e) # Out(f) /\ (In(e) = In(f) => e = f)
  /\ \A e \in Ends : In(e)[1] = e /\ In(e)[2] = "in" /\ Out(e)[1] = e /\ Out(e)[2] = "out"
  /\ \A e \in Ends : In(e) \in Ends \X {"in", "out"} /\ Out(e) \in Ends \X {"in", "out"}
  BY DEF Ends, Other, In, Out

LEMMA InitRelayIInv == RelayInit => RelayIInv
  <1> SUFFICES ASSUME RelayInit
               PROVE  RelayIInv
    OBVIOUS
  <1>1. RelayTypes
    BY DEF RelayInit, RelayTypes
  <1>2. BytesAreSomewhere
    BY DEF RelayInit, BytesAreSomewhere
  <1>3. EofComesLast /\ StaysReadable /\ RelaysEverything
    BY DEF RelayInit, EofComesLast, StaysReadable, RelaysEverything
  <1> QED BY <1>1, <1>2, <1>3 DEF RelayIInv

\* The relay goes by itself when it has nothing to do: both ends were read to
\* their EOF, and both queues are empty.
LEMMA LeavesDone ==
  ASSUME RelayIInv, RelayPollStarts
  PROVE  RelayIInv'
  <1> USE DEF RelayIInv
  <1>1. /\ wants' = {a \in Ends \X {"in", "out"} : IsOfInterest(a)}
        /\ relay' = IF wants' = {} THEN "exited" ELSE "poll"
        /\ UNCHANGED <<sent_, unread, shut, eof, held, passed, has, reset>>
    BY DEF RelayPollStarts
  <1>2. RelayTypes' /\ BytesAreSomewhere' /\ EofComesLast' /\ StaysReadable'
    BY <1>1 DEF RelayTypes, BytesAreSomewhere, EofComesLast, StaysReadable
  <1>3. ASSUME wants' = {}, NEW e \in Ends
        PROVE  e \in shut /\ passed[e] = sent_[e]
    <2>1. ~ IsOfInterest(In(e)) /\ ~ IsOfInterest(Out(Other(e)))
      BY <1>1, <1>3, EndsFacts
    <2>2. held[e] \in Nat /\ unread[e] \in Nat /\ passed[e] \in Nat /\ sent_[e] \in Nat
      BY DEF RelayTypes
    <2>3. held[e] = 0
      BY <2>1, <2>2, EndsFacts DEF IsOfInterest
    <2>4. e \in eof
      BY <2>1, <2>3, RelayAssumption, EndsFacts DEF IsOfInterest
    <2> QED BY <2>2, <2>3, <2>4 DEF EofComesLast, BytesAreSomewhere
  <1>4. RelaysEverything'
    <2>1. CASE wants' = {}
      <3>1. shut = Ends /\ \A e \in Ends : passed[e] = sent_[e]
        BY <1>3, <2>1 DEF RelayTypes
      <3> QED BY <1>1, <3>1 DEF RelaysEverything
    <2>2. CASE wants' # {}
      BY <1>1, <2>2 DEF RelaysEverything
    <2> QED BY <2>1, <2>2
  <1> QED BY <1>2, <1>4

LEMMA ReadsEndKeeps ==
  ASSUME RelayIInv, NEW e \in Ends, NEW n \in Nat, ReadsEnd(e, n)
  PROVE  RelayIInv'
  <1> USE DEF RelayIInv
  <1>1. /\ relay = "callbacks" /\ In(e) \in has /\ has' = has \ {In(e)}
        /\ UNCHANGED <<sent_, shut, passed, wants, reset>>
    BY DEF ReadsEnd, IsTurnOf
  <1>2. unread[e] \in Nat /\ held[e] \in Nat /\ (unread[e] > 0 \/ e \in shut)
    BY <1>1 DEF RelayTypes, StaysReadable
  <1>3. CASE unread[e] = 0
    <2>1. eof' = eof \cup {e} /\ relay' = relay /\ unread' = unread /\ held' = held
      BY <1>3 DEF ReadsEnd, AtEof
    <2>2. e \in shut
      BY <1>1, <1>3 DEF StaysReadable
    <2>3. RelayTypes' /\ BytesAreSomewhere'
      BY <1>1, <2>1 DEF RelayTypes, BytesAreSomewhere
    <2>4. EofComesLast'
      BY <1>1, <1>3, <2>1, <2>2 DEF EofComesLast
    <2>5. StaysReadable'
      BY <1>1, <2>1 DEF StaysReadable
    <2> QED BY <1>1, <2>1, <2>3, <2>4, <2>5 DEF RelaysEverything
  <1>4. CASE unread[e] # 0
    <2>1. /\ n <= unread[e] /\ eof' = eof
          /\ relay' \in {"callbacks", "aborted"}
          /\ unread' = [unread EXCEPT ![e] = @ - n] /\ held' = [held EXCEPT ![e] = @ + n]
      BY <1>1, <1>4 DEF ReadsEnd
    <2>2. unread[e] \in Nat /\ held[e] \in Nat /\ unread[e] - n \in Nat /\ held[e] + n \in Nat
      BY <2>1 DEF RelayTypes
    <2>3. RelayTypes'
      BY <1>1, <2>1, <2>2 DEF RelayTypes
    <2>4. BytesAreSomewhere'
      BY <1>1, <2>1, <2>2 DEF RelayTypes, BytesAreSomewhere
    <2>5. EofComesLast'
      BY <1>1, <1>4, <2>1 DEF EofComesLast, RelayTypes
    <2>6. StaysReadable'
      BY <1>1, <2>1, EndsFacts DEF StaysReadable, RelayTypes
    <2> QED BY <2>1, <2>3, <2>4, <2>5, <2>6 DEF RelaysEverything
  <1> QED BY <1>3, <1>4

LEMMA WritesEndKeeps ==
  ASSUME RelayIInv, NEW e \in Ends, NEW n \in Nat, WritesEnd(e, n)
  PROVE  RelayIInv'
  <1> USE DEF RelayIInv
  <1> DEFINE from == Other(e)
  <1>1. /\ relay = "callbacks" /\ has' = has \ {Out(e)}
        /\ n <= held[from]
        /\ held' = [held EXCEPT ![from] = @ - n]
        /\ passed' = [passed EXCEPT ![from] = @ + n]
        /\ UNCHANGED <<relay, sent_, unread, shut, eof, wants, reset>>
    BY DEF WritesEnd, IsTurnOf
  <1>2. from \in Ends
    BY EndsFacts
  <1> HIDE DEF from
  <1>3. held[from] \in Nat /\ passed[from] \in Nat /\ held[from] - n \in Nat
    BY <1>1, <1>2 DEF RelayTypes
  <1>4. RelayTypes'
    BY <1>1, <1>2, <1>3 DEF RelayTypes
  <1>5. BytesAreSomewhere'
    BY <1>1, <1>2, <1>3 DEF RelayTypes, BytesAreSomewhere
  <1>6. EofComesLast' /\ StaysReadable'
    BY <1>1 DEF EofComesLast, StaysReadable
  <1> QED BY <1>1, <1>4, <1>5, <1>6 DEF RelaysEverything

LEMMA EndSendsKeeps ==
  ASSUME RelayIInv, NEW e \in Ends, EndSends(e)
  PROVE  RelayIInv'
  <1> USE DEF RelayIInv
  <1>1. /\ e \notin shut
        /\ sent_' = [sent_ EXCEPT ![e] = @ + 1] /\ unread' = [unread EXCEPT ![e] = @ + 1]
        /\ UNCHANGED <<relay, shut, eof, held, passed, wants, has, reset>>
    BY DEF EndSends
  <1>2. sent_[e] \in Nat /\ unread[e] \in Nat
    BY DEF RelayTypes
  <1>3. RelayTypes' /\ BytesAreSomewhere'
    BY <1>1, <1>2 DEF RelayTypes, BytesAreSomewhere
  <1>4. EofComesLast'
    BY <1>1 DEF EofComesLast, RelayTypes
  <1>5. StaysReadable'
    BY <1>1, <1>2 DEF StaysReadable, RelayTypes
  <1>6. RelaysEverything'
    BY <1>1 DEF RelaysEverything
  <1> QED BY <1>3, <1>4, <1>5, <1>6

LEMMA RelayNextKeeps == RelayIInv /\ [RelayNext]_relayVars => RelayIInv'
  <1> SUFFICES ASSUME RelayIInv, [RelayNext]_relayVars
               PROVE  RelayIInv'
    OBVIOUS
  <1> USE DEF RelayIInv
  <1>1. ASSUME NEW e \in Ends, EndShuts(e)
        PROVE  RelayIInv'
    <2>1. /\ shut' = shut \cup {e} /\ e \notin shut
          /\ UNCHANGED <<relay, sent_, unread, eof, held, passed, wants, has, reset>>
      BY <1>1 DEF EndShuts
    <2>2. RelayTypes' /\ BytesAreSomewhere' /\ EofComesLast' /\ StaysReadable'
      BY <2>1 DEF RelayTypes, BytesAreSomewhere, EofComesLast, StaysReadable
    <2> QED BY <2>1, <2>2 DEF RelaysEverything
  <1>2. CASE RelayPollReturns
    <2>1. /\ relay' = "callbacks" /\ has' = {a \in wants : IsReady(a)}
          /\ UNCHANGED <<sent_, unread, shut, eof, held, passed, wants, reset>>
      BY <1>2 DEF RelayPollReturns
    <2>2. StaysReadable'
      BY <2>1, EndsFacts DEF StaysReadable, IsReady
    <2>3. RelayTypes' /\ BytesAreSomewhere' /\ EofComesLast'
      BY <2>1 DEF RelayTypes, BytesAreSomewhere, EofComesLast
    <2> QED BY <2>1, <2>2, <2>3 DEF RelaysEverything
  <1>3. ASSUME \/ RelayTimesOut \/ RelayTurnEnds \/ RelayIsReset
               \/ \E e \in Ends : WriteFails(e)
        PROVE  RelayIInv'
    <2>1. /\ relay' \in {"turn", "exited", "threw"} /\ (relay' = "exited" => reset')
          /\ reset' \in BOOLEAN
          /\ UNCHANGED <<sent_, unread, shut, eof, held, passed, wants, has>>
      BY <1>3 DEF RelayTimesOut, RelayTurnEnds, RelayIsReset, WriteFails, RelayTypes
    <2>2. RelayTypes' /\ BytesAreSomewhere' /\ EofComesLast' /\ StaysReadable'
      BY <2>1 DEF RelayTypes, BytesAreSomewhere, EofComesLast, StaysReadable
    <2> QED BY <2>1, <2>2 DEF RelaysEverything
  <1>4. CASE UNCHANGED relayVars
    BY <1>4 DEF relayVars, RelayTypes, BytesAreSomewhere, EofComesLast, StaysReadable,
            RelaysEverything
  <1>5. \A n \in 0..MaxSent : n \in Nat
    OBVIOUS
  <1>6. \A n \in 1..MaxSent : n \in Nat
    OBVIOUS
  <1> QED BY <1>1, <1>2, <1>3, <1>4, <1>5, <1>6, LeavesDone, ReadsEndKeeps, WritesEndKeeps,
             EndSendsKeeps DEF RelayNext, RelayRuns

\* A relay that ends by itself has passed on every byte of both ends, for every
\* capacity, however reads and writes split the bytes and whichever end is first.
THEOREM RelayPassesAll == ProxiesSpec => []RelaysEverything
  <1>1. ProxiesInit => RelayIInv
    BY InitRelayIInv DEF ProxiesInit
  <1>2. [ProxiesNext]_proxiesVars => [RelayNext]_relayVars
    BY DEF ProxiesNext, proxiesVars
  <1>3. RelayIInv => RelaysEverything
    BY DEF RelayIInv
  <1> QED BY <1>1, <1>2, <1>3, RelayNextKeeps, PTL DEF ProxiesSpec

----
(***************************************************************************)
(* A connection of the recording proxy.  Requests are numbered; those on   *)
(* their way are the numbers that follow each other from queue to queue.   *)
(* The messages of the server are numbered too, interim ones with the      *)
(* others: the parser takes the n-th request for the n-th message.         *)
(***************************************************************************)
\* The numbers after n, in order; and the pairs of them.
Run(s, n) == s \in Seq(Nat) /\ \A i \in 1..Len(s) : s[i] = n + i
Paired(s, n) == s \in Seq(Nat \X Nat) /\ \A i \in 1..Len(s) : s[i] = <<n + i, n + i>>

Stages == {"accepted", "connecting TLS", "accepting TLS", "turn", "poll",
           "callbacks", "exited", "threw", "unmatched"}
Ended == stage \in {"exited", "threw", "unmatched"}

Finished == Len(written) + Len(resps)
Matched == IF open = <<>> THEN Finished ELSE Finished + 1
Noted == Matched + Len(awaiting)
Read == Noted + Len(reqs)

HttpTypes ==
  /\ stage \in Stages /\ tls \in BOOLEAN /\ hup \in BOOLEAN
  /\ clientEof \in BOOLEAN /\ serverEof \in BOOLEAN
  /\ clientClosed \in BOOLEAN /\ serverClosed \in BOOLEAN

\* While the thread runs, each request is in one place, and they are in order.
RequestsInOrder ==
  /\ Paired(resps, Len(written))
  /\ open = <<>> \/ \E p \in {"start", "until EOF"} : open = <<Matched, p, Matched>>
  /\ Run(awaiting, Matched) /\ Run(reqs, Noted) /\ Run(fromClient, Read)
  /\ asked = Read + Len(fromClient)

\* The piece that the parser of responses is at; after the end of a response, or an
\* interim one, it is where a whole one leaves it.
Settled(p) == <<p[1], IF p[2] \in {"end", "interim"} THEN "whole" ELSE p[2]>>
Current == <<Matched, IF open = <<>> THEN "whole" ELSE open[2]>>

\* What may come after piece h.
Follows(p, h) ==
  /\ h[2] # "until EOF"
  /\ IF h[2] = "start" THEN p = <<h[1], "end">> ELSE p[1] = h[1] + 1 /\ p[2] # "end"

\* Pieces that follow each other, from h on, of messages whose numbers are in M.
PieceAt(s, h, i) == IF i = 0 THEN h ELSE Settled(s[i])
Chain(s, h, M) ==
  /\ s \in Seq(Nat \X Pieces)
  /\ \A i \in 1..Len(s) : Follows(s[i], PieceAt(s, h, i - 1)) /\ s[i][1] \in M
LastPiece(s, h) == PieceAt(s, h, Len(s))

\* The server goes on from the last of the pieces on their way to the parser, and
\* they from the message it is in.
ServerIsAt(last) ==
  /\ answering = IF last[2] = "start" THEN last[1] ELSE 0
  /\ answered = IF last[2] = "start" THEN last[1] - 1 ELSE last[1]
  /\ last[2] = "until EOF" => serverClosed
  /\ interims = {} => Noted = last[1] + Len(atServer)

\* The messages begun; of those, each has a request if none of them was interim.
Reach == {m \in 1..Len(meant) : interims = {} => m <= Noted}

PiecesInOrder ==
  /\ Chain(fromServer, Current, Reach) /\ Matched <= Len(meant)
  /\ ServerIsAt(LastPiece(fromServer, Current))

\* What the server has begun to answer: up to the first interim response, the n-th
\* request with the n-th message.
MeantInOrder ==
  /\ meant \in Seq(Nat) /\ atServer \in Seq(Nat) /\ answered \in Nat
  /\ answering = 0 => Len(meant) = answered
  /\ answering # 0 => answering = answered + 1 /\ Len(meant) = answered + 1
  /\ \A m \in 1..Len(meant) : meant[m] = m \/ \E i \in interims : i < m
  /\ interims \subseteq 1..Len(meant)
  /\ interims = {} => Run(atServer, Len(meant))

\* What poll() found to do is still to be done.
StaysReady ==
  /\ stage = "poll" =>
       /\ "server out" \in interest_ => reqs # <<>>
       /\ "client out" \in interest_ => resps # <<>>
  /\ stage = "callbacks" =>
       /\ "server out" \in revents_ => reqs # <<>>
       /\ "client out" \in revents_ => resps # <<>>
       /\ "server in" \in revents_ => fromServer # <<>> \/ serverClosed

\* After EOF of the server nothing is left of its responses.
ServerEofIsLast ==
  serverEof => serverClosed /\ (~Ended => fromServer = <<>> /\ open = <<>>)

\* How a connection ends that neither throws nor hangs up.
EndsInPeace ==
  stage = "exited" /\ ~hup =>
    reqs = <<>> /\ resps = <<>> /\ (~clientEof => serverEof /\ Len(written) = answered)

\* What has been saved and passed on, and what the server has begun.
Records ==
  /\ Paired(written, 0) /\ Len(written) <= Len(meant) /\ MeantInOrder
  /\ stage = "unmatched" => interims # {}

\* The inductive invariant of a connection.
HttpIInv ==
  /\ HttpTypes /\ Records
  /\ ~Ended => RequestsInOrder /\ PiecesInOrder
  /\ StaysReady /\ ServerEofIsLast /\ EndsInPeace

\* Numbers that follow each other go on where they end, and begin after n.
LEMMA RunGrows ==
  ASSUME NEW s, NEW n \in Nat, Run(s, n)
  PROVE  /\ Len(s) \in Nat
         /\ Run(Append(s, n + Len(s) + 1), n)
         /\ Len(Append(s, n + Len(s) + 1)) = Len(s) + 1
  <1>1. s \in Seq(Nat) /\ n + Len(s) + 1 \in Nat
    BY DEF Run
  <1> QED BY <1>1 DEF Run

LEMMA RunShrinks ==
  ASSUME NEW s, NEW n \in Nat, Run(s, n), s # <<>>
  PROVE  /\ Head(s) = n + 1 /\ Run(Tail(s), n + 1) /\ Len(Tail(s)) = Len(s) - 1
         /\ Len(s) \in Nat /\ Len(s) >= 1
  <1>1. /\ s \in Seq(Nat) /\ Len(s) \in Nat /\ Len(s) >= 1
        /\ Tail(s) \in Seq(Nat) /\ Len(Tail(s)) = Len(s) - 1
        /\ Head(s) = s[1]
    BY DEF Run
  <1>2. \A i \in 1..Len(Tail(s)) : Tail(s)[i] = s[i + 1]
    BY <1>1
  <1> QED BY <1>1, <1>2 DEF Run

LEMMA PairedGrows ==
  ASSUME NEW s, NEW n \in Nat, Paired(s, n), NEW k, k = n + Len(s) + 1
  PROVE  /\ Len(s) \in Nat
         /\ Paired(Append(s, <<k, k>>), n)
         /\ Len(Append(s, <<k, k>>)) = Len(s) + 1
  <1> DEFINE pair == <<k, k>>
             t == Append(s, pair)
  <1>1. s \in Seq(Nat \X Nat) /\ Len(s) \in Nat
    BY DEF Paired
  <1>2. k \in Nat
    BY <1>1
  <1>3. pair \in Nat \X Nat
    BY <1>2
  <1> HIDE DEF pair
  <1>4. /\ t \in Seq(Nat \X Nat) /\ Len(t) = Len(s) + 1 /\ t[Len(s) + 1] = pair
        /\ \A i \in 1..Len(s) : t[i] = s[i]
    BY <1>1, <1>3
  <1> HIDE DEF t
  <1>5. ASSUME NEW i \in 1..Len(t)
        PROVE  t[i] = <<n + i, n + i>>
    <2>1. CASE i \in 1..Len(s)
      BY <1>4, <2>1 DEF Paired
    <2>2. CASE i = Len(s) + 1
      <3>1. n + i = k
        BY <1>1, <2>2
      <3> QED BY <1>4, <2>2, <3>1 DEF pair
    <2>3. i \in 1..Len(s) \/ i = Len(s) + 1
      BY <1>1, <1>4
    <2> QED BY <2>1, <2>2, <2>3
  <1>6. Paired(t, n)
    BY <1>4, <1>5 DEF Paired
  <1> QED BY <1>1, <1>4, <1>6 DEF t, pair

LEMMA PairedShrinks ==
  ASSUME NEW s, NEW n \in Nat, Paired(s, n), s # <<>>
  PROVE  /\ Head(s) = <<n + 1, n + 1>> /\ Paired(Tail(s), n + 1)
         /\ Len(Tail(s)) = Len(s) - 1
         /\ Len(s) \in Nat /\ Len(s) >= 1
  <1>1. /\ s \in Seq(Nat \X Nat) /\ Len(s) \in Nat /\ Len(s) >= 1
        /\ Tail(s) \in Seq(Nat \X Nat) /\ Len(Tail(s)) = Len(s) - 1
        /\ Head(s) = s[1]
    BY DEF Paired
  <1>2. \A i \in 1..Len(Tail(s)) : Tail(s)[i] = s[i + 1]
    BY <1>1
  <1> QED BY <1>1, <1>2 DEF Paired

LEMMA LengthFacts ==
  /\ \A s, n : Run(s, n) => Len(s) \in Nat
  /\ \A s, n : Paired(s, n) => Len(s) \in Nat
  BY DEF Run, Paired

\* The counts that the order of requests rests on.
LEMMA CountFacts ==
  ASSUME Paired(written, 0), RequestsInOrder
  PROVE  /\ Len(written) \in Nat /\ Len(resps) \in Nat /\ Len(awaiting) \in Nat
         /\ Len(reqs) \in Nat /\ Len(fromClient) \in Nat
         /\ Finished \in Nat /\ Matched \in Nat /\ Noted \in Nat /\ Read \in Nat
         /\ open # <<>> => Matched >= 1
         /\ open # <<>> => open[1] = Matched /\ open[3] = Matched
                           /\ open[2] \in {"start", "until EOF"}
  <1>1. /\ Len(written) \in Nat /\ Len(resps) \in Nat /\ Len(awaiting) \in Nat
        /\ Len(reqs) \in Nat /\ Len(fromClient) \in Nat
    <2>1. /\ Paired(resps, Len(written)) /\ Run(awaiting, Matched)
          /\ Run(reqs, Noted) /\ Run(fromClient, Read)
      BY DEF RequestsInOrder
    <2> QED BY <2>1, LengthFacts
  <1>2. Finished \in Nat /\ Matched \in Nat /\ Noted \in Nat /\ Read \in Nat
    BY <1>1 DEF Finished, Matched, Noted, Read
  <1>3. open # <<>> => Matched >= 1
    BY <1>1 DEF Finished, Matched
  <1>4. open # <<>> => open[1] = Matched /\ open[3] = Matched
                       /\ open[2] \in {"start", "until EOF"}
    <2> SUFFICES ASSUME open # <<>>
                 PROVE  /\ open[1] = Matched /\ open[3] = Matched
                        /\ open[2] \in {"start", "until EOF"}
      OBVIOUS
    <2>1. PICK q \in {"start", "until EOF"} : open = <<Matched, q, Matched>>
      BY DEF RequestsInOrder
    <2> HIDE DEF Matched
    <2> QED BY <2>1
  <1> QED BY <1>1, <1>2, <1>3, <1>4

\* Read in the next state, the operators speak of the next queues.
LEMMA NextQueues ==
  /\ Paired(written, 0)' <=> Paired(written', 0)
  /\ Paired(resps, Len(written))' <=> Paired(resps', Len(written'))
  /\ Run(awaiting, Matched)' <=> Run(awaiting', Matched')
  /\ Run(reqs, Noted)' <=> Run(reqs', Noted')
  /\ Run(fromClient, Read)' <=> Run(fromClient', Read')
  /\ Finished' = Len(written') + Len(resps')
  /\ Matched' = IF open' = <<>> THEN Finished' ELSE Finished' + 1
  /\ Noted' = Matched' + Len(awaiting') /\ Read' = Noted' + Len(reqs')
  BY DEF Run, Paired, Finished, Matched, Noted, Read

\* A step that leaves the queues of requests alone leaves their order.
LEMMA SameRequests ==
  ASSUME RequestsInOrder,
         UNCHANGED <<written, resps, open, awaiting, reqs, fromClient, asked>>
  PROVE  /\ RequestsInOrder' /\ Matched' = Matched /\ Noted' = Noted
         /\ Finished' = Finished /\ Read' = Read
  <1>1. Finished' = Finished /\ Matched' = Matched /\ Noted' = Noted /\ Read' = Read
    BY DEF Finished, Matched, Noted, Read
  <1> QED BY <1>1, NextQueues DEF RequestsInOrder

\* A piece more at the end, and one less at the beginning.
LEMMA ChainGrows ==
  ASSUME NEW s, NEW h, NEW M, Chain(s, h, M), NEW p \in Nat \X Pieces,
         Follows(p, LastPiece(s, h)), p[1] \in M
  PROVE  /\ Chain(Append(s, p), h, M) /\ LastPiece(Append(s, p), h) = Settled(p)
         /\ Append(s, p) # <<>>
  <1> DEFINE t == Append(s, p)
  <1>1. s \in Seq(Nat \X Pieces) /\ Len(s) \in Nat
    BY DEF Chain
  <1>2. /\ t \in Seq(Nat \X Pieces) /\ Len(t) = Len(s) + 1 /\ t[Len(s) + 1] = p
        /\ \A i \in 1..Len(s) : t[i] = s[i]
    BY <1>1
  <1> HIDE DEF t
  <1>3. t # <<>>
    <2>1. Len(t) # 0
      BY <1>1, <1>2
    <2> QED BY <2>1
  <1>4. \A i \in 0..Len(s) : PieceAt(t, h, i) = PieceAt(s, h, i)
    BY <1>1, <1>2 DEF PieceAt
  <1>5. ASSUME NEW i \in 1..Len(t)
        PROVE  Follows(t[i], PieceAt(t, h, i - 1)) /\ t[i][1] \in M
    <2>1. CASE i \in 1..Len(s)
      <3>1. i - 1 \in 0..Len(s) /\ t[i] = s[i]
        BY <1>1, <1>2, <2>1
      <3> QED BY <1>4, <2>1, <3>1 DEF Chain
    <2>2. CASE i = Len(s) + 1
      <3>1. i - 1 = Len(s) /\ i - 1 \in 0..Len(s) /\ t[i] = p
        BY <1>1, <1>2, <2>2
      <3>2. PieceAt(t, h, i - 1) = LastPiece(s, h)
        BY <1>4, <3>1 DEF LastPiece
      <3> QED BY <3>1, <3>2
    <2>3. i \in 1..Len(s) \/ i = Len(s) + 1
      BY <1>1, <1>2
    <2> QED BY <2>1, <2>2, <2>3
  <1>6. Chain(t, h, M)
    BY <1>2, <1>5 DEF Chain
  <1>7. LastPiece(t, h) = Settled(p)
    BY <1>1, <1>2 DEF LastPiece, PieceAt
  <1> QED BY <1>3, <1>6, <1>7 DEF t

LEMMA ChainShrinks ==
  ASSUME NEW s, NEW h, NEW M, Chain(s, h, M), s # <<>>
  PROVE  /\ Head(s) \in Nat \X Pieces /\ Follows(Head(s), h) /\ Head(s)[1] \in M
         /\ Chain(Tail(s), Settled(Head(s)), M)
         /\ LastPiece(Tail(s), Settled(Head(s))) = LastPiece(s, h)
  <1> DEFINE t == Tail(s)
             g == Settled(Head(s))
  <1>1. /\ s \in Seq(Nat \X Pieces) /\ Len(s) \in Nat /\ Len(s) >= 1
        /\ Head(s) = s[1] /\ Head(s) \in Nat \X Pieces
    BY DEF Chain
  <1>2. t \in Seq(Nat \X Pieces) /\ Len(t) = Len(s) - 1
    BY <1>1
  <1>3. \A i \in 1..Len(t) : t[i] = s[i + 1]
    BY <1>1, <1>2
  <1>4. Follows(Head(s), h) /\ Head(s)[1] \in M
    <2>1. 1 \in 1..Len(s) /\ PieceAt(s, h, 1 - 1) = h
      BY <1>1 DEF PieceAt
    <2> QED BY <1>1, <2>1 DEF Chain
  <1>5. g = PieceAt(s, h, 1)
    BY <1>1 DEF PieceAt
  <1> HIDE DEF t, g
  <1>6. ASSUME NEW i \in 0..Len(t)
        PROVE  PieceAt(t, g, i) = PieceAt(s, h, i + 1)
    <2>1. CASE i = 0
      BY <1>5, <2>1 DEF PieceAt
    <2>2. CASE i # 0
      <3>1. i \in 1..Len(t) /\ i + 1 # 0
        BY <1>1, <1>2, <2>2
      <3> QED BY <1>3, <2>2, <3>1 DEF PieceAt
    <2> QED BY <2>1, <2>2
  <1>7. ASSUME NEW i \in 1..Len(t)
        PROVE  Follows(t[i], PieceAt(t, g, i - 1)) /\ t[i][1] \in M
    <2>1. i - 1 \in 0..Len(t) /\ i + 1 \in 1..Len(s) /\ (i - 1) + 1 = (i + 1) - 1
      BY <1>1, <1>2
    <2>2. PieceAt(t, g, i - 1) = PieceAt(s, h, (i + 1) - 1)
      BY <1>6, <2>1
    <2>3. t[i] = s[i + 1]
      BY <1>3
    <2> QED BY <2>1, <2>2, <2>3 DEF Chain
  <1>8. Chain(t, g, M)
    BY <1>2, <1>7 DEF Chain
  <1>9. LastPiece(t, g) = LastPiece(s, h)
    <2>1. Len(t) \in 0..Len(t) /\ Len(t) + 1 = Len(s)
      BY <1>1, <1>2
    <2> QED BY <1>6, <2>1 DEF LastPiece
  <1> QED BY <1>1, <1>4, <1>8, <1>9 DEF t, g

\* A chain may reach further.
LEMMA ChainWidens ==
  ASSUME NEW s, NEW h, NEW M, NEW N, Chain(s, h, M), M \subseteq N
  PROVE  Chain(s, h, N)
  BY DEF Chain

\* The first number of a chain is not 0, which would mean none; nor is the last.
LEMMA ChainNumbers ==
  ASSUME NEW s, NEW h \in Nat \X Pieces, NEW M, Chain(s, h, M),
         h[2] = "start" => h[1] >= 1
  PROVE  /\ LastPiece(s, h)[1] \in Nat
         /\ LastPiece(s, h)[2] \in Pieces
         /\ LastPiece(s, h)[2] = "start" => LastPiece(s, h)[1] >= 1
  <1> DEFINE n == Len(s)
             last == LastPiece(s, h)
  <1>1. s \in Seq(Nat \X Pieces) /\ n \in Nat
    BY DEF Chain
  <1>2. CASE n = 0
    BY <1>2 DEF LastPiece, PieceAt
  <1>3. ASSUME NEW q \in Nat \X Pieces
        PROVE  /\ Settled(q)[1] = q[1] /\ Settled(q)[1] \in Nat /\ Settled(q)[2] \in Pieces
               /\ Settled(q)[2] = "start" => q[2] = "start"
    BY DEF Settled, Pieces
  <1>4. ASSUME NEW q \in Nat \X Pieces, NEW g, g[1] \in Nat, Follows(q, g)
        PROVE  q[2] = "start" => q[1] >= 1
    <2>1. CASE g[2] = "start"
      <3>1. q = <<g[1], "end">>
        BY <1>4, <2>1 DEF Follows
      <3> QED BY <3>1
    <2>2. CASE g[2] # "start"
      <3>1. q[1] = g[1] + 1
        BY <1>4, <2>2 DEF Follows
      <3> QED BY <1>4, <3>1
    <2> QED BY <2>1, <2>2
  <1>5. CASE n # 0
    <2>1. n \in 1..n /\ s[n] \in Nat \X Pieces
      BY <1>1, <1>5
    <2>2. last = Settled(s[n])
      BY <1>5 DEF LastPiece, PieceAt
    <2>3. Follows(s[n], PieceAt(s, h, n - 1))
      BY <2>1 DEF Chain
    <2>4. PieceAt(s, h, n - 1)[1] \in Nat
      <3>1. CASE n - 1 = 0
        BY <3>1 DEF PieceAt
      <3>2. CASE n - 1 # 0
        <4> HIDE DEF n
        <4>1. n - 1 \in 1..n
          BY <1>1, <1>5, <3>2
        <4>2. s[n - 1] \in Nat \X Pieces
          BY <1>1, <4>1 DEF n
        <4> QED BY <1>3, <3>2, <4>2 DEF PieceAt
      <3> QED BY <3>1, <3>2
    <2> HIDE DEF n
    <2> QED BY <1>3, <1>4, <2>1, <2>2, <2>3, <2>4
  <1> QED BY <1>2, <1>5

\* The parser is at a piece of its own, and so is the last one on its way.
LEMMA CurrentFacts ==
  ASSUME Paired(written, 0), RequestsInOrder
  PROVE  /\ Current \in Nat \X Pieces /\ Current[1] = Matched
         /\ Current[2] = (IF open = <<>> THEN "whole" ELSE open[2])
         /\ Current[2] = "start" => Current[1] >= 1
  <1>1. /\ Matched \in Nat
        /\ open # <<>> => Matched >= 1 /\ open[2] \in {"start", "until EOF"}
    BY CountFacts
  <1> HIDE DEF Matched
  <1> QED BY <1>1 DEF Current, Pieces

\* Read in the next state, the same operators speak of the next pieces.
LEMMA NextPieces ==
  ASSUME NEW last, last = LastPiece(fromServer', Current')
  PROVE  /\ Current' = <<Matched', IF open' = <<>> THEN "whole" ELSE open'[2]>>
         /\ PiecesInOrder' <=>
              /\ Chain(fromServer', Current', Reach') /\ Matched' <= Len(meant')
              /\ answering' = IF last[2] = "start" THEN last[1] ELSE 0
              /\ answered' = IF last[2] = "start" THEN last[1] - 1 ELSE last[1]
              /\ last[2] = "until EOF" => serverClosed'
              /\ interims' = {} => Noted' = last[1] + Len(atServer')
         /\ Reach' = {m \in 1..Len(meant') : interims' = {} => m <= Noted'}
         /\ MeantInOrder' <=>
              /\ meant' \in Seq(Nat) /\ atServer' \in Seq(Nat) /\ answered' \in Nat
              /\ answering' = 0 => Len(meant') = answered'
              /\ answering' # 0 => answering' = answered' + 1 /\ Len(meant') = answered' + 1
              /\ \A m \in 1..Len(meant') : meant'[m] = m \/ \E i \in interims' : i < m
              /\ interims' \subseteq 1..Len(meant')
              /\ interims' = {} => Run(atServer', Len(meant'))
  BY DEF PiecesInOrder, ServerIsAt, Chain, LastPiece, PieceAt, Follows, Settled, Current, Run,
         Reach, MeantInOrder

\* A step that leaves the responses and the server alone leaves the pieces.
LEMMA SamePieces ==
  ASSUME PiecesInOrder, Matched' = Matched, Noted' = Noted,
         UNCHANGED <<open, fromServer, answering, answered, atServer, meant, interims>>,
         serverClosed => serverClosed'
  PROVE  PiecesInOrder' /\ Current' = Current
  <1>1. Current' = Current
    BY DEF Current
  <1> DEFINE last == LastPiece(fromServer, Current)
  <1>2. last = LastPiece(fromServer', Current')
    BY <1>1
  <1>3. /\ Chain(fromServer', Current', Reach') /\ ServerIsAt(last)
        /\ Matched' <= Len(meant')
    <2>1. Reach' = Reach
      BY DEF Reach
    <2> QED BY <1>1, <2>1 DEF PiecesInOrder
  <1> HIDE DEF last
  <1> QED BY <1>1, <1>2, <1>3, NextPieces DEF ServerIsAt

\* What every part of the invariant but the two orders rests on.
Frame ==
  /\ HttpTypes' /\ Records'
  /\ StaysReady' /\ ServerEofIsLast' /\ EndsInPeace'

\* A step that neither writes a response nor sends one leaves the records.
LEMMA SameRecords ==
  ASSUME Records,
         UNCHANGED <<written, meant, answering, answered, interims>>,
         atServer' = atServer,
         stage' = "unmatched" => stage = "unmatched" \/ interims # {}
  PROVE  Records'
  BY DEF Records, MeantInOrder, Run, Paired

LEMMA HttpStep ==
  ASSUME Frame, ~Ended' => RequestsInOrder' /\ PiecesInOrder'
  PROVE  HttpIInv'
  BY DEF Frame, HttpIInv

\* Steps that only move the thread, or tell that a peer is gone.
LEMMA ThreadKeeps ==
  ASSUME HttpIInv,
         \/ Connects \/ ConnectsTls \/ AcceptsTls \/ HttpTurnEnds \/ ReadThrows
         \/ HttpHangsUp \/ UNCHANGED httpVars
  PROVE  HttpIInv'
  <1> USE DEF HttpIInv, Records
  <1>1. /\ UNCHANGED <<tls, netVars, clientEof, serverEof, reqs, awaiting, open,
                       resps, written, interest_, revents_>>
        /\ stage' = stage \/ stage' \in {"connecting TLS", "accepting TLS", "turn", "threw"}
           \/ (stage' = "exited" /\ hup' /\ hup' \in BOOLEAN /\ ~Ended)
        /\ stage' = stage \/ ~Ended
        /\ hup' = hup \/ hup' = TRUE
        /\ stage' = stage \/ stage' # "exited" \/ hup' = TRUE
    BY DEF Connects, ConnectsTls, AcceptsTls, HttpTurnEnds, ReadThrows, HttpHangsUp,
           httpVars, netVars, pollVars, Ended, Turn
  <1>2. UNCHANGED <<asked, fromClient, clientClosed, atServer, answering, fromServer,
                    serverClosed, answered, meant, interims>>
    BY <1>1 DEF netVars
  <1>3. Frame
    <2>1. HttpTypes'
      BY <1>1, <1>2 DEF HttpTypes, Stages
    <2>2. Records'
      BY <1>1, <1>2, SameRecords
    <2>3. StaysReady'
      BY <1>1, <1>2 DEF StaysReady
    <2>4. ServerEofIsLast'
      BY <1>1, <1>2 DEF ServerEofIsLast, Ended
    <2>5. EndsInPeace'
      BY <1>1, <1>2 DEF EndsInPeace
    <2> QED BY <2>1, <2>2, <2>3, <2>4, <2>5 DEF Frame
  <1>4. ASSUME ~Ended'
        PROVE  RequestsInOrder' /\ PiecesInOrder'
    <2>1. ~Ended
      BY <1>1, <1>4 DEF Ended
    <2> QED BY <1>1, <1>2, <2>1, SameRequests, SamePieces
  <1> QED BY <1>3, <1>4, HttpStep

\* Steps of the client: it asks once more at the end of the line, or closes.
LEMMA ClientKeeps ==
  ASSUME HttpIInv, ClientAsks \/ ClientCloses
  PROVE  HttpIInv'
  <1> USE DEF HttpIInv, Records
  <1>1. /\ UNCHANGED <<tls, stage, atServer, answering, fromServer, serverClosed,
                       answered, meant, interims, pollVars>>
        /\ clientClosed' \in BOOLEAN
        /\ \/ asked' = asked /\ fromClient' = fromClient
           \/ asked' = asked + 1 /\ fromClient' = Append(fromClient, asked + 1)
    BY DEF ClientAsks, ClientCloses, HttpTypes
  <1>2. UNCHANGED <<clientEof, serverEof, reqs, awaiting, open, resps, written,
                    interest_, revents_, hup, broken>>
    BY <1>1 DEF pollVars
  <1>3. Frame
    <2>1. HttpTypes'
      BY <1>1, <1>2 DEF HttpTypes
    <2>2. Records'
      BY <1>1, <1>2, SameRecords
    <2>3. StaysReady' /\ ServerEofIsLast' /\ EndsInPeace'
      BY <1>1, <1>2 DEF StaysReady, ServerEofIsLast, EndsInPeace, Ended
    <2> QED BY <2>1, <2>2, <2>3 DEF Frame
  <1>4. ASSUME ~Ended'
        PROVE  RequestsInOrder' /\ PiecesInOrder'
    <2>1. RequestsInOrder /\ PiecesInOrder
      BY <1>1, <1>4 DEF Ended
    <2>2. Finished' = Finished /\ Matched' = Matched /\ Noted' = Noted /\ Read' = Read
      BY <1>2 DEF Finished, Matched, Noted, Read
    <2>3. Run(fromClient, Read) /\ asked = Read + Len(fromClient) /\ Read \in Nat
      BY <2>1, CountFacts DEF RequestsInOrder
    <2>4. Run(fromClient', Read) /\ asked' = Read + Len(fromClient')
      <3>1. CASE asked' = asked /\ fromClient' = fromClient
        BY <2>3, <3>1
      <3>2. CASE asked' = asked + 1 /\ fromClient' = Append(fromClient, asked + 1)
        BY <2>3, <3>2, RunGrows
      <3> QED BY <1>1, <3>1, <3>2
    <2>5. RequestsInOrder'
      BY <1>2, <2>1, <2>2, <2>4, NextQueues DEF RequestsInOrder
    <2> QED BY <1>1, <1>2, <2>1, <2>2, <2>5, SamePieces
  <1> QED BY <1>3, <1>4, HttpStep

\* A server may close after any piece of a response.
LEMMA ServerClosesKeeps ==
  ASSUME HttpIInv, ServerCloses
  PROVE  HttpIInv'
  <1> USE DEF HttpIInv, Records
  <1>1. /\ ~serverClosed /\ serverClosed' = TRUE
        /\ UNCHANGED <<tls, stage, asked, fromClient, clientClosed, atServer, answering,
                       fromServer, answered, meant, interims, pollVars>>
    BY DEF ServerCloses
  <1>2. UNCHANGED <<clientEof, serverEof, reqs, awaiting, open, resps, written,
                    interest_, revents_, hup, broken>>
    BY <1>1 DEF pollVars
  <1>3. Frame
    <2>1. HttpTypes'
      BY <1>1, <1>2 DEF HttpTypes
    <2>2. Records'
      BY <1>1, <1>2, SameRecords
    <2>3. StaysReady' /\ ServerEofIsLast' /\ EndsInPeace'
      BY <1>1, <1>2 DEF StaysReady, ServerEofIsLast, EndsInPeace, Ended
    <2> QED BY <2>1, <2>2, <2>3 DEF Frame
  <1>4. ASSUME ~Ended'
        PROVE  RequestsInOrder' /\ PiecesInOrder'
    <2>1. RequestsInOrder /\ PiecesInOrder
      BY <1>1, <1>4 DEF Ended
    <2> QED BY <1>1, <1>2, <2>1, SameRequests, SamePieces
  <1> QED BY <1>3, <1>4, HttpStep

\* The server begins the messages in the order of the requests, and goes on to the
\* next request unless the message is interim.
LEMMA MeantKeeps ==
  ASSUME MeantInOrder, NEW piece \in Pieces, ServerSends(piece)
  PROVE  /\ MeantInOrder'
         /\ Len(meant) \in Nat /\ Len(atServer') \in Nat
         /\ Len(meant') = answered + 1 /\ Len(meant) <= Len(meant')
         /\ piece # "end" => Len(meant) = answered
         /\ interims' = {} => interims = {}
         /\ interims' = {} => Len(meant') + Len(atServer') = Len(meant) + Len(atServer)
  <1> DEFINE m == answered + 1
             r == Head(atServer)
  <1>1. /\ IF piece = "end" THEN answering # 0 ELSE answering = 0 /\ atServer # <<>>
        /\ answering' = IF piece = "start" THEN m ELSE 0
        /\ answered' = IF piece = "start" THEN answered ELSE m
        /\ interims' = IF piece = "interim" THEN interims \cup {m} ELSE interims
        /\ meant' = IF piece = "end" THEN meant ELSE Append(meant, r)
        /\ atServer' = IF piece \in {"end", "interim"} THEN atServer ELSE Tail(atServer)
    BY DEF ServerSends
  <1>2. /\ meant \in Seq(Nat) /\ atServer \in Seq(Nat) /\ answered \in Nat
        /\ Len(meant) \in Nat /\ Len(atServer) \in Nat
        /\ answering = 0 => Len(meant) = answered
        /\ answering # 0 => answering = answered + 1 /\ Len(meant) = answered + 1
        /\ \A n \in 1..Len(meant) : meant[n] = n \/ \E i \in interims : i < n
        /\ interims \subseteq 1..Len(meant)
        /\ interims = {} => Run(atServer, Len(meant))
    BY DEF MeantInOrder
  <1>3. CASE piece = "end"
    <2>1. /\ answering' = 0 /\ answered' = answered + 1
          /\ UNCHANGED <<interims, meant, atServer>> /\ Len(meant) = answered + 1
      BY <1>1, <1>2, <1>3
    <2>2. MeantInOrder'
      BY <1>2, <2>1, NextPieces
    <2> QED BY <1>2, <1>3, <2>1, <2>2
  <1>4. CASE piece # "end"
    <2>1. /\ answering = 0 /\ atServer # <<>> /\ meant' = Append(meant, r)
          /\ Len(meant) = answered
      BY <1>1, <1>2, <1>4
    <2>2. r \in Nat /\ Tail(atServer) \in Seq(Nat) /\ Len(Tail(atServer)) = Len(atServer) - 1
      BY <1>2, <2>1
    <2>3. /\ meant' \in Seq(Nat) /\ Len(meant') = m /\ meant'[m] = r
          /\ \A n \in 1..Len(meant) : meant'[n] = meant[n]
      BY <1>2, <2>1, <2>2
    <2>4. interims = {} => r = m /\ Run(Tail(atServer), m)
      BY <1>2, <2>1, RunShrinks
    <2>5. interims \subseteq interims' /\ interims' \subseteq 1..m
      BY <1>1, <1>2, <2>1
    <2>6. interims' = {} => interims = {} /\ atServer' = Tail(atServer)
      BY <1>1, <1>4
    <2>7. ASSUME NEW n \in 1..m
          PROVE  meant'[n] = n \/ \E i \in interims' : i < n
      <3>1. CASE n \in 1..Len(meant)
        BY <1>2, <2>3, <2>5, <3>1
      <3>2. CASE n = m
        <4>1. CASE interims = {}
          BY <2>3, <2>4, <3>2, <4>1
        <4>2. CASE interims # {}
          <5>1. PICK i \in interims : i \in 1..Len(meant)
            BY <1>2, <4>2
          <5> QED BY <2>1, <2>5, <3>2, <5>1
        <4> QED BY <4>1, <4>2
      <3>3. n \in 1..Len(meant) \/ n = m
        BY <1>2, <2>1
      <3> QED BY <3>1, <3>2, <3>3
    <2>8. atServer' \in Seq(Nat) /\ Len(atServer') \in Nat
      BY <1>1, <1>2, <2>2
    <2>9. /\ answered' \in Nat
          /\ answering' = 0 => m = answered'
          /\ answering' # 0 => answering' = answered' + 1 /\ m = answered' + 1
      BY <1>1, <1>2
    <2>10. MeantInOrder'
      BY <2>3, <2>4, <2>5, <2>6, <2>7, <2>8, <2>9, NextPieces
    <2>11. interims' = {} => Len(meant') + Len(atServer') = Len(meant) + Len(atServer)
      <3> DEFINE a == Len(atServer)
                 b == Len(meant)
      <3>1. a \in Nat /\ b \in Nat /\ m = b + 1 /\ Len(Tail(atServer)) = a - 1
        BY <1>2, <2>1, <2>2
      <3> HIDE DEF a, b
      <3>2. m + (a - 1) = b + a
        BY <3>1
      <3> QED BY <2>3, <2>6, <3>1, <3>2 DEF a, b
    <2>12. Len(meant) <= Len(meant')
      BY <1>2, <2>1, <2>3
    <2> HIDE DEF r
    <2> QED BY <1>2, <1>4, <2>1, <2>3, <2>6, <2>8, <2>10, <2>11, <2>12
  <1> QED BY <1>3, <1>4

\* The server goes on from the last piece it sent.
LEMMA ServerSendsKeeps ==
  ASSUME HttpIInv, NEW piece \in Pieces, ServerSends(piece)
  PROVE  HttpIInv'
  <1> USE DEF HttpIInv, Records
  <1> DEFINE k == answered + 1
             p == <<k, piece>>
             last == LastPiece(fromServer, Current)
  <1>1. /\ ~serverClosed /\ serverClosed' = (piece = "until EOF")
        /\ IF piece = "end" THEN answering # 0 ELSE answering = 0
        /\ fromServer' = Append(fromServer, p)
        /\ answering' = IF piece = "start" THEN k ELSE 0
        /\ answered' = IF piece = "start" THEN answered ELSE k
        /\ UNCHANGED <<tls, stage, asked, fromClient, clientClosed, pollVars>>
    BY DEF ServerSends
  <1>2. UNCHANGED <<clientEof, serverEof, reqs, awaiting, open, resps, written,
                    interest_, revents_, hup, broken>>
    BY <1>1 DEF pollVars
  <1>3. ~serverEof
    BY <1>1 DEF ServerEofIsLast
  <1>4. /\ MeantInOrder' /\ Len(meant) \in Nat /\ Len(atServer') \in Nat /\ answered \in Nat
        /\ Len(meant') = k /\ Len(meant) <= k
        /\ piece # "end" => Len(meant) = answered
        /\ piece = "end" => Len(meant) = k /\ answering = k
        /\ interims' = {} => interims = {}
        /\ interims' = {} => k + Len(atServer') = Len(meant) + Len(atServer)
    BY <1>1, MeantKeeps DEF MeantInOrder
  <1>5. ASSUME ~Ended'
        PROVE  RequestsInOrder' /\ PiecesInOrder' /\ fromServer' # <<>>
    <2>1. Paired(written, 0) /\ RequestsInOrder /\ PiecesInOrder
      BY <1>1, <1>5 DEF Ended
    <2>2. RequestsInOrder' /\ Matched' = Matched /\ Noted' = Noted
      BY <1>1, <1>2, <2>1, SameRequests
    <2>3. Current' = Current
      BY <1>2, <2>2 DEF Current
    <2>4. /\ Chain(fromServer, Current, Reach) /\ Matched <= Len(meant) /\ ServerIsAt(last)
          /\ Matched \in Nat /\ Noted \in Nat
      BY <2>1, CountFacts DEF PiecesInOrder
    <2>5. last[1] \in Nat /\ (last[2] = "start" => last[1] >= 1)
      BY <2>1, <2>4, CurrentFacts, ChainNumbers
    <2>6. last[2] # "until EOF"
      BY <1>1, <2>4 DEF ServerIsAt
    <2>7. /\ answering = IF last[2] = "start" THEN last[1] ELSE 0
          /\ answered = IF last[2] = "start" THEN last[1] - 1 ELSE last[1]
          /\ interims = {} => Noted = last[1] + Len(atServer)
      BY <2>4 DEF ServerIsAt
    <2> HIDE DEF last
    <2>8. last[1] = Len(meant) /\ Follows(p, last)
      <3>1. CASE piece = "end"
        <4>1. k = last[1] /\ last[2] = "start"
          BY <1>1, <1>4, <2>5, <2>7, <3>1
        <4> QED BY <1>4, <3>1, <4>1 DEF Follows
      <3>2. CASE piece # "end"
        <4>1. last[2] # "start" /\ answered = last[1]
          <5>1. answering = 0
            BY <1>1, <3>2
          <5> QED BY <2>5, <2>7, <5>1
        <4>2. p[1] = last[1] + 1 /\ p[2] # "end"
          BY <3>2, <4>1
        <4> QED BY <1>4, <2>6, <3>2, <4>1, <4>2 DEF Follows
      <3> QED BY <3>1, <3>2
    <2>9. k \in Nat /\ p \in Nat \X Pieces /\ p[1] = k /\ p[2] = piece
      BY <1>4
    <2> HIDE DEF p, k
    <2>10. interims' = {} => Noted' = k + Len(atServer')
      BY <1>4, <2>2, <2>7, <2>8
    <2>11. Reach' = {m \in 1..Len(meant') : interims' = {} => m <= Noted'}
      BY NextPieces
    <2>12. Reach \subseteq Reach'
      <3>1. 1..Len(meant) \subseteq 1..Len(meant')
        BY <1>4, <2>9
      <3> QED BY <1>4, <2>2, <2>11, <3>1 DEF Reach
    <2>13. k \in Reach'
      <3>1. k \in 1..Len(meant')
        BY <1>4, <2>9 DEF k
      <3>2. interims' = {} => k <= Noted'
        BY <1>4, <2>9, <2>10
      <3> QED BY <2>11, <3>1, <3>2
    <2>14. /\ Chain(fromServer', Current', Reach') /\ fromServer' # <<>>
           /\ LastPiece(fromServer', Current') = Settled(p)
      <3>1. Chain(fromServer, Current', Reach') /\ Follows(p, LastPiece(fromServer, Current'))
        BY <2>3, <2>4, <2>8, <2>12, ChainWidens DEF last
      <3> QED BY <1>1, <2>9, <2>13, <3>1, ChainGrows
    <2>15. /\ Settled(p)[1] = k /\ (Settled(p)[2] = "start" <=> piece = "start")
           /\ (Settled(p)[2] = "until EOF" => piece = "until EOF")
      BY <2>9 DEF Settled
    <2>16. answered' = IF piece = "start" THEN k - 1 ELSE k
      <3>1. answered' = IF piece = "start" THEN answered ELSE k
        BY <1>1
      <3>2. k - 1 = answered
        BY <1>4 DEF k
      <3> QED BY <3>1, <3>2
    <2>17. Matched' <= Len(meant')
      BY <1>4, <2>2, <2>4, <2>9
    <2>18. PiecesInOrder'
      BY <1>1, <2>10, <2>14, <2>15, <2>16, <2>17, NextPieces
    <2> QED BY <2>2, <2>14, <2>18
  <1>6. Frame
    <2>1. HttpTypes'
      BY <1>1, <1>2 DEF HttpTypes
    <2>2. Records'
      <3>1. Paired(written, 0)'
        BY <1>2 DEF Paired
      <3>2. Len(written) \in Nat
        BY LengthFacts
      <3>3. Len(written') <= Len(meant')
        BY <1>2, <1>4, <3>2
      <3>4. interims # {} => interims' # {}
        BY <1>4
      <3> QED BY <1>1, <1>4, <3>1, <3>3, <3>4 DEF Records
    <2>3. StaysReady'
      BY <1>1, <1>2, <1>5 DEF StaysReady, Ended
    <2>4. ServerEofIsLast'
      BY <1>2, <1>3 DEF ServerEofIsLast
    <2>5. EndsInPeace'
      BY <1>1, <1>2, <1>3 DEF EndsInPeace
    <2> QED BY <2>1, <2>2, <2>3, <2>4, <2>5 DEF Frame
  <1> QED BY <1>5, <1>6, HttpStep

\* poll() is asked for what there is to do; with nothing left to read or to write
\* the connection ends.
LEMMA PollStartsKeeps ==
  ASSUME HttpIInv, HttpPollStarts
  PROVE  HttpIInv'
  <1> USE DEF HttpIInv, Records
  <1>1. /\ stage = "turn" /\ ~Ended
        /\ interest_' = HttpInterest
        /\ stage' = IF HttpInterest = {} THEN "exited" ELSE "poll"
        /\ UNCHANGED <<tls, netVars, clientEof, serverEof, reqs, awaiting, open, resps,
                       written, revents_, hup, broken>>
    BY DEF HttpPollStarts, Ended
  <1>2. UNCHANGED <<asked, fromClient, clientClosed, atServer, answering, fromServer,
                    serverClosed, answered, meant, interims>>
    BY <1>1 DEF netVars
  <1>3. /\ "server out" \in HttpInterest <=> reqs # <<>>
        /\ "client out" \in HttpInterest <=> resps # <<>>
        /\ "server in" \in HttpInterest <=> ~clientEof /\ ~serverEof
    BY DEF HttpInterest
  <1>4. Paired(written, 0) /\ RequestsInOrder /\ PiecesInOrder
    BY <1>1
  <1>5. ASSUME HttpInterest = {}, ~clientEof
        PROVE  serverEof /\ Len(written) = answered
    <2>1. reqs = <<>> /\ resps = <<>> /\ serverEof
      BY <1>3, <1>5, <1>5
    <2>2. serverClosed /\ fromServer = <<>> /\ open = <<>>
      BY <1>1, <2>1 DEF ServerEofIsLast
    <2>3. Len(written) \in Nat /\ Matched = Len(written)
      BY <1>4, <2>1, <2>2, CountFacts DEF Matched, Finished
    <2>4. LastPiece(fromServer, Current) = Current
      BY <2>2 DEF LastPiece, PieceAt
    <2>5. Current[1] = Matched /\ Current[2] = "whole"
      BY <1>4, <2>2, CurrentFacts
    <2> QED BY <1>4, <2>1, <2>3, <2>4, <2>5 DEF PiecesInOrder, ServerIsAt
  <1>6. Frame
    <2>1. HttpTypes'
      BY <1>1, <1>2 DEF HttpTypes, Stages
    <2>2. Records'
      BY <1>1, <1>2, SameRecords
    <2>3. StaysReady'
      BY <1>1, <1>3 DEF StaysReady
    <2>4. ServerEofIsLast'
      BY <1>1, <1>2 DEF ServerEofIsLast, Ended
    <2>5. EndsInPeace'
      BY <1>1, <1>2, <1>3, <1>5 DEF EndsInPeace
    <2> QED BY <2>1, <2>2, <2>3, <2>4, <2>5 DEF Frame
  <1> QED BY <1>1, <1>2, <1>4, <1>6, HttpStep, SameRequests, SamePieces

\* What poll() reports was asked for, and what is to be read is there.
LEMMA PollReturnsKeeps ==
  ASSUME HttpIInv, HttpPollReturns
  PROVE  HttpIInv'
  <1> USE DEF HttpIInv, Records
  <1>1. /\ stage = "poll" /\ ~Ended /\ stage' = "callbacks"
        /\ revents_' = HttpReady
        /\ UNCHANGED <<tls, netVars, clientEof, serverEof, reqs, awaiting, open, resps,
                       written, interest_, hup, broken>>
    BY DEF HttpPollReturns, Ended
  <1>2. UNCHANGED <<asked, fromClient, clientClosed, atServer, answering, fromServer,
                    serverClosed, answered, meant, interims>>
    BY <1>1 DEF netVars
  <1>3. /\ "server out" \in HttpReady => "server out" \in interest_
        /\ "client out" \in HttpReady => "client out" \in interest_
        /\ "server in" \in HttpReady => fromServer # <<>> \/ serverClosed
    BY DEF HttpReady
  <1>4. Frame
    <2>1. HttpTypes'
      BY <1>1, <1>2 DEF HttpTypes, Stages
    <2>2. Records'
      BY <1>1, <1>2, SameRecords
    <2>3. StaysReady'
      BY <1>1, <1>2, <1>3 DEF StaysReady
    <2>4. ServerEofIsLast'
      BY <1>1, <1>2 DEF ServerEofIsLast, Ended
    <2>5. EndsInPeace'
      BY <1>1 DEF EndsInPeace
    <2> QED BY <2>1, <2>2, <2>3, <2>4, <2>5 DEF Frame
  <1> QED BY <1>1, <1>2, <1>4, HttpStep, SameRequests, SamePieces

\* A request read goes from the end of one line to the end of the next.
LEMMA ReadsRequestKeeps ==
  ASSUME HttpIInv, ReadsRequest
  PROVE  HttpIInv'
  <1> USE DEF HttpIInv, Records
  <1>1. /\ stage = "callbacks" /\ ~Ended
        /\ revents_' = revents_ \ {"client in"}
        /\ \/ fromClient' = fromClient /\ reqs' = reqs
           \/ /\ fromClient # <<>> /\ fromClient' = Tail(fromClient)
              /\ reqs' = Append(reqs, Head(fromClient))
        /\ clientEof' \in BOOLEAN
        /\ UNCHANGED <<tls, stage, asked, clientClosed, atServer, answering, fromServer,
                       serverClosed, answered, meant, interims, serverEof, awaiting, open,
                       resps, written,
                       interest_, hup, broken>>
    BY DEF ReadsRequest, Turn, Ended, HttpTypes
  <1>2. Paired(written, 0) /\ RequestsInOrder /\ PiecesInOrder
    BY <1>1
  <1>3. Finished' = Finished /\ Matched' = Matched /\ Noted' = Noted
    BY <1>1 DEF Finished, Matched, Noted
  <1>4. /\ Run(reqs, Noted) /\ Run(fromClient, Read) /\ asked = Read + Len(fromClient)
        /\ Noted \in Nat /\ Read \in Nat /\ Read = Noted + Len(reqs)
    BY <1>2, CountFacts DEF RequestsInOrder, Read
  <1>5. Run(reqs', Noted) /\ Run(fromClient', Read') /\ asked = Read' + Len(fromClient')
    <2>1. CASE fromClient' = fromClient /\ reqs' = reqs
      <3>1. Read' = Read
        BY <1>3, <2>1, <1>4, NextQueues
      <3> QED BY <1>4, <2>1, <3>1
    <2>2. CASE /\ fromClient # <<>> /\ fromClient' = Tail(fromClient)
               /\ reqs' = Append(reqs, Head(fromClient))
      <3>1. /\ Head(fromClient) = Read + 1 /\ Run(fromClient', Read + 1)
            /\ Len(fromClient') = Len(fromClient) - 1
            /\ Len(fromClient) \in Nat /\ Len(fromClient) >= 1
        BY <1>4, <2>2, RunShrinks
      <3>2. Run(reqs', Noted) /\ Len(reqs') = Len(reqs) + 1 /\ Len(reqs) \in Nat
        BY <1>4, <2>2, <3>1, RunGrows
      <3>3. Read' = Read + 1
        <4>1. Read' = Noted' + Len(reqs')
          BY NextQueues
        <4> QED BY <1>3, <1>4, <3>2, <4>1
      <3> QED BY <1>4, <3>1, <3>2, <3>3
    <2> QED BY <1>1, <2>1, <2>2
  <1>6. RequestsInOrder'
    BY <1>1, <1>2, <1>3, <1>5, NextQueues DEF RequestsInOrder
  <1>7. reqs # <<>> => reqs' # <<>>
    <2>1. Len(reqs) \in Nat /\ Len(reqs') \in Nat /\ reqs \in Seq(Nat) /\ reqs' \in Seq(Nat)
      BY <1>4, <1>5, LengthFacts DEF Run
    <2>2. CASE reqs' = Append(reqs, Head(fromClient)) /\ fromClient # <<>>
      <3>1. Head(fromClient) \in Nat
        BY <1>4, <2>2, RunShrinks
      <3> QED BY <2>1, <2>2, <3>1
    <2> QED BY <1>1, <2>2
  <1>8. Frame
    <2>1. HttpTypes'
      BY <1>1 DEF HttpTypes
    <2>2. Records'
      BY <1>1, <1>2, SameRecords
    <2>3. StaysReady'
      BY <1>1, <1>7 DEF StaysReady
    <2>4. ServerEofIsLast'
      BY <1>1 DEF ServerEofIsLast, Ended
    <2>5. EndsInPeace'
      BY <1>1 DEF EndsInPeace
    <2> QED BY <2>1, <2>2, <2>3, <2>4, <2>5 DEF Frame
  <1> QED BY <1>1, <1>2, <1>3, <1>6, <1>8, HttpStep, SamePieces

\* The request written is the next one for the server, and for the parser.
LEMMA WritesRequestKeeps ==
  ASSUME HttpIInv, WritesRequest
  PROVE  HttpIInv'
  <1> USE DEF HttpIInv, Records
  <1> DEFINE last == LastPiece(fromServer, Current)
             r == Head(reqs)
  <1>1. /\ stage = "callbacks" /\ ~Ended /\ "server out" \in revents_
        /\ revents_' = revents_ \ {"server out"}
        /\ UNCHANGED <<tls, asked, fromClient, clientClosed, answering, fromServer,
                       serverClosed, answered, meant, interims, clientEof, serverEof, open,
                       resps, written,
                       interest_, hup, broken>>
        /\ \/ /\ atServer' = Append(atServer, r) /\ awaiting' = Append(awaiting, r)
              /\ reqs' = Tail(reqs) /\ stage' = stage
           \/ stage' = "threw" /\ atServer' = atServer
    BY DEF WritesRequest, Turn, Ended, ToldOf
  <1>2. Paired(written, 0) /\ RequestsInOrder /\ PiecesInOrder
    BY <1>1
  <1>3. /\ meant \in Seq(Nat) /\ atServer \in Seq(Nat) /\ answered \in Nat
        /\ Len(meant) \in Nat /\ Len(atServer) \in Nat
        /\ answering = 0 => Len(meant) = answered
        /\ answering # 0 => answering = answered + 1 /\ Len(meant) = answered + 1
        /\ interims = {} => Run(atServer, Len(meant))
    BY DEF MeantInOrder
  <1>4. ASSUME stage' # "threw"
        PROVE  RequestsInOrder' /\ PiecesInOrder' /\ MeantInOrder'
    <2>1. /\ atServer' = Append(atServer, r) /\ awaiting' = Append(awaiting, r)
          /\ reqs' = Tail(reqs)
      BY <1>1, <1>4
    <2>2. /\ Run(awaiting, Matched) /\ Run(reqs, Noted)
          /\ Matched \in Nat /\ Noted \in Nat /\ Noted = Matched + Len(awaiting)
          /\ Read = Noted + Len(reqs)
      BY <1>2, CountFacts DEF RequestsInOrder, Noted, Read
    <2>3. reqs # <<>>
      BY <1>1 DEF StaysReady
    <2>4. /\ r = Noted + 1 /\ Run(reqs', Noted + 1) /\ Len(reqs') = Len(reqs) - 1
          /\ Len(reqs) \in Nat /\ Len(reqs) >= 1
      BY <2>1, <2>2, <2>3, RunShrinks
    <2>5. Run(awaiting', Matched) /\ Len(awaiting') = Len(awaiting) + 1 /\ Len(awaiting) \in Nat
      BY <2>1, <2>2, <2>4, RunGrows
    <2>6. Finished' = Finished /\ Matched' = Matched
      BY <1>1 DEF Finished, Matched
    <2>7. Noted' = Noted + 1
      <3>1. Noted' = Matched' + Len(awaiting')
        BY NextQueues
      <3> QED BY <2>2, <2>5, <2>6, <3>1
    <2>8. Read' = Read
      <3>1. Read' = Noted' + Len(reqs')
        BY NextQueues
      <3> QED BY <2>2, <2>4, <2>7, <3>1
    <2>9. RequestsInOrder'
      BY <1>1, <1>2, <2>4, <2>5, <2>6, <2>7, <2>8, NextQueues DEF RequestsInOrder
    <2>10. Current' = Current
      BY <1>1, <2>6 DEF Current
    <2>11. /\ Chain(fromServer, Current, Reach) /\ Matched <= Len(meant) /\ ServerIsAt(last)
      BY <1>2 DEF PiecesInOrder
    <2>12. last[1] \in Nat /\ (last[2] = "start" => last[1] >= 1)
      BY <1>2, <2>11, CurrentFacts, ChainNumbers
    <2> HIDE DEF last
    <2>13. /\ last[1] = Len(meant)
           /\ interims = {} => Noted = Len(meant) + Len(atServer)
      <3>1. /\ answering = IF last[2] = "start" THEN last[1] ELSE 0
            /\ answered = IF last[2] = "start" THEN last[1] - 1 ELSE last[1]
            /\ interims = {} => Noted = last[1] + Len(atServer)
        BY <2>11 DEF ServerIsAt
      <3>2. CASE last[2] = "start"
        <4>1. answering = last[1] /\ answering # 0
          BY <2>12, <3>1, <3>2
        <4>2. Len(meant) = last[1]
          BY <1>3, <4>1
        <4> QED BY <3>1, <4>2
      <3>3. CASE last[2] # "start"
        <4>1. answering = 0 /\ answered = last[1]
          BY <3>1, <3>3
        <4>2. Len(meant) = last[1]
          BY <1>3, <4>1
        <4> QED BY <3>1, <4>2
      <3> QED BY <3>2, <3>3
    <2>14. /\ atServer' \in Seq(Nat) /\ Len(atServer') = Len(atServer) + 1
      BY <1>3, <2>1, <2>2, <2>4
    <2>15. interims = {} => Run(atServer', Len(meant))
      <3>1. interims = {} => r = Len(meant) + Len(atServer) + 1
        BY <2>4, <2>13
      <3> QED BY <1>3, <2>1, <3>1, RunGrows
    <2>16. interims' = {} => Noted' = last[1] + Len(atServer')
      <3>1. interims' = interims
        BY <1>1
      <3> DEFINE a == Len(atServer)
                 b == Len(meant)
      <3>2. a \in Nat /\ b \in Nat /\ Len(atServer') = a + 1 /\ last[1] = b
        BY <1>3, <2>13, <2>14
      <3>3. interims = {} => Noted = b + a
        BY <2>13
      <3> HIDE DEF a, b
      <3> QED BY <2>2, <2>7, <3>1, <3>2, <3>3
    <2>17. Reach \subseteq Reach'
      <3>1. Reach' = {m \in 1..Len(meant) : interims = {} => m <= Noted + 1}
        BY <1>1, <2>7, NextPieces
      <3>2. 1..Len(meant) \subseteq Nat
        BY <1>3
      <3> QED BY <2>2, <3>1, <3>2 DEF Reach
    <2>18. Chain(fromServer', Current', Reach')
      BY <1>1, <2>10, <2>11, <2>17, ChainWidens
    <2>19. last = LastPiece(fromServer', Current')
      BY <1>1, <2>10 DEF last
    <2>20. PiecesInOrder'
      BY <1>1, <2>6, <2>11, <2>16, <2>18, <2>19, NextPieces DEF ServerIsAt
    <2>21. MeantInOrder'
      BY <1>1, <2>14, <2>15, NextPieces DEF MeantInOrder
    <2> QED BY <2>9, <2>20, <2>21
  <1>5. Frame
    <2>1. HttpTypes'
      BY <1>1 DEF HttpTypes, Stages
    <2>2. Records'
      <3>1. CASE stage' = "threw"
        BY <1>1, <3>1, SameRecords
      <3>2. CASE stage' # "threw"
        <4>1. Paired(written, 0)' /\ Len(written') <= Len(meant')
          BY <1>1 DEF Paired
        <4> QED BY <1>1, <1>4, <3>2, <4>1 DEF Records
      <3> QED BY <3>1, <3>2
    <2>3. StaysReady'
      BY <1>1 DEF StaysReady
    <2>4. ServerEofIsLast'
      BY <1>1 DEF ServerEofIsLast, Ended
    <2>5. EndsInPeace'
      BY <1>1 DEF EndsInPeace
    <2> QED BY <2>1, <2>2, <2>3, <2>4, <2>5 DEF Frame
  <1> QED BY <1>4, <1>5, HttpStep DEF Ended

\* The response written is the next one for the client.
LEMMA WritesResponseKeeps ==
  ASSUME HttpIInv, WritesResponse
  PROVE  HttpIInv'
  <1> USE DEF HttpIInv, Records
  <1>1. /\ stage = "callbacks" /\ ~Ended /\ "client out" \in revents_
        /\ revents_' = revents_ \ {"client out"}
        /\ UNCHANGED <<tls, netVars, clientEof, serverEof, reqs, awaiting, open,
                       interest_, hup, broken>>
        /\ \/ written' = Append(written, Head(resps)) /\ resps' = Tail(resps) /\ stage' = stage
           \/ written' = written /\ resps' = resps /\ stage' = "threw"
    BY DEF WritesResponse, Turn, Ended
  <1>2. UNCHANGED <<asked, fromClient, clientClosed, atServer, answering, fromServer,
                    serverClosed, answered, meant, interims>>
    BY <1>1 DEF netVars
  <1>3. Paired(written, 0) /\ RequestsInOrder /\ PiecesInOrder
    BY <1>1
  <1>4. Paired(resps, Len(written)) /\ resps # <<>> /\ Len(written) \in Nat
    BY <1>1, <1>3, CountFacts DEF RequestsInOrder, StaysReady
  <1>5. /\ Head(resps) = <<Len(written) + 1, Len(written) + 1>>
        /\ Paired(Tail(resps), Len(written) + 1)
        /\ Len(Tail(resps)) = Len(resps) - 1
        /\ Len(resps) \in Nat
    BY <1>4, PairedShrinks
  <1>6. /\ Paired(Append(written, Head(resps)), 0)
        /\ Len(Append(written, Head(resps))) = Len(written) + 1
    <2> DEFINE k == Len(written) + 1
    <2>1. k = 0 + Len(written) + 1 /\ Head(resps) = <<k, k>> /\ 0 \in Nat
      BY <1>4, <1>5
    <2> HIDE DEF k
    <2> QED BY <1>3, <2>1, PairedGrows
  <1>7. Frame
    <2>1. HttpTypes'
      BY <1>1, <1>2 DEF HttpTypes, Stages
    <2>2. Records'
      <3>1. Paired(written, 0)'
        BY <1>1, <1>3, <1>6, NextQueues
      <3>2. MeantInOrder'
        BY <1>2, NextPieces DEF MeantInOrder
      <3>3. Len(written) + 1 <= Len(meant)
        <4>1. /\ Matched <= Len(meant) /\ Matched \in Nat /\ Len(meant) \in Nat
              /\ Finished \in Nat
          <5>1. meant \in Seq(Nat)
            BY DEF MeantInOrder
          <5>2. Matched <= Len(meant)
            BY <1>3 DEF PiecesInOrder
          <5>3. Matched \in Nat /\ Finished \in Nat
            BY <1>3, CountFacts
          <5> QED BY <5>1, <5>2, <5>3
        <4>2. Finished <= Matched
          BY <4>1 DEF Matched
        <4>3. /\ Finished = Len(written) + Len(resps)
              /\ Len(resps) \in Nat /\ Len(resps) >= 1
          BY <1>4, PairedShrinks DEF Finished
        <4> QED BY <1>4, <4>1, <4>2, <4>3
      <3>4. Len(written') <= Len(meant')
        BY <1>1, <1>2, <1>4, <1>6, <3>3
      <3> QED BY <1>1, <1>2, <3>1, <3>2, <3>4 DEF Records
    <2>3. StaysReady'
      BY <1>1, <1>2 DEF StaysReady
    <2>4. ServerEofIsLast'
      BY <1>1, <1>2 DEF ServerEofIsLast, Ended
    <2>5. EndsInPeace'
      BY <1>1 DEF EndsInPeace
    <2> QED BY <2>1, <2>2, <2>3, <2>4, <2>5 DEF Frame
  <1>8. ASSUME ~Ended'
        PROVE  RequestsInOrder' /\ PiecesInOrder'
    <2>1. written' = Append(written, Head(resps)) /\ resps' = Tail(resps)
      BY <1>1, <1>8 DEF Ended
    <2>2. Finished' = Finished
      BY <1>4, <1>5, <1>6, <2>1 DEF Finished
    <2>3. Matched' = Matched /\ Noted' = Noted /\ Read' = Read
      BY <1>1, <2>2, NextQueues DEF Matched, Noted, Read
    <2>4. Paired(resps', Len(written'))
      BY <1>5, <1>6, <2>1
    <2>5. RequestsInOrder'
      BY <1>1, <1>2, <1>3, <2>3, <2>4, NextQueues DEF RequestsInOrder
    <2> QED BY <1>1, <1>2, <1>3, <2>3, <2>5, SamePieces
  <1> QED BY <1>7, <1>8, HttpStep

\* The next piece for the parser of responses goes on from the message it is in,
\* and the beginning of a message finds the request that it answers.
LEMMA PieceIsExpected ==
  ASSUME Paired(written, 0), RequestsInOrder, PiecesInOrder, fromServer # <<>>
  PROVE  /\ Head(fromServer) \in Nat \X Pieces
         /\ Head(fromServer)[2] = "end" =>
              open = <<Matched, "start", Matched>> /\ Head(fromServer)[1] = Matched
         /\ Head(fromServer)[2] # "end" => open = <<>> /\ Head(fromServer)[1] = Matched + 1
         /\ Head(fromServer)[2] # "end" /\ interims = {} => awaiting # <<>>
         /\ Head(fromServer)[1] <= Len(meant)
  <1> DEFINE p == Head(fromServer)
  <1>1. /\ p \in Nat \X Pieces /\ Follows(p, Current)
        /\ interims = {} => p[1] <= Noted
        /\ p[1] <= Len(meant)
    <2>1. p \in Nat \X Pieces /\ Follows(p, Current) /\ p[1] \in Reach
      BY ChainShrinks DEF PiecesInOrder
    <2>2. p[1] \in 1..Len(meant) /\ (interims = {} => p[1] <= Noted)
      BY <2>1 DEF Reach
    <2>3. \A m \in 1..Len(meant) : m <= Len(meant)
      OBVIOUS
    <2> QED BY <2>1, <2>2, <2>3
  <1>2. /\ Current[1] = Matched
        /\ Current[2] = (IF open = <<>> THEN "whole" ELSE open[2])
    BY CurrentFacts
  <1>3. /\ Matched \in Nat /\ Len(awaiting) \in Nat /\ Run(awaiting, Matched)
        /\ Noted = Matched + Len(awaiting)
        /\ open # <<>> => open[2] \in {"start", "until EOF"}
    BY CountFacts DEF RequestsInOrder, Noted
  <1>4. open = <<>> \/ \E q \in {"start", "until EOF"} : open = <<Matched, q, Matched>>
    BY DEF RequestsInOrder
  <1> HIDE DEF p, Matched, Current
  <1>5. CASE p[2] = "end"
    <2>1. Current[2] = "start"
      BY <1>1, <1>5 DEF Follows
    <2>2. p = <<Matched, "end">>
      BY <1>1, <1>2, <2>1 DEF Follows
    <2>3. open # <<>> /\ open[2] = "start"
      BY <1>2, <2>1
    <2>4. open = <<Matched, "start", Matched>>
      <3>1. PICK q \in {"start", "until EOF"} : open = <<Matched, q, Matched>>
        BY <1>4, <2>3
      <3>2. q = open[2]
        BY <3>1
      <3> QED BY <2>3, <3>1, <3>2
    <2> QED BY <1>1, <1>5, <2>2, <2>4 DEF p
  <1>6. CASE p[2] # "end"
    <2>1. Current[2] # "until EOF" /\ Current[2] # "start"
      <3>1. /\ Current[2] # "until EOF"
            /\ Current[2] = "start" => p = <<Current[1], "end">>
        BY <1>1 DEF Follows
      <3>2. p = <<Current[1], "end">> => p[2] = "end"
        OBVIOUS
      <3> QED BY <1>6, <3>1, <3>2
    <2>2. open = <<>> /\ p[1] = Matched + 1
      <3>1. open = <<>>
        BY <1>2, <1>3, <2>1
      <3>2. p[1] = Current[1] + 1
        BY <1>1, <2>1 DEF Follows
      <3> QED BY <1>2, <3>1, <3>2
    <2>3. interims = {} => Len(awaiting) # 0
      BY <1>1, <1>3, <2>2
    <2> QED BY <1>1, <1>6, <2>2, <2>3 DEF p
  <1> QED BY <1>5, <1>6

\* After a piece is read, those behind it go on from it.
LEMMA NextPieceKeeps ==
  ASSUME Paired(written, 0), RequestsInOrder, PiecesInOrder, fromServer # <<>>,
         fromServer' = Tail(fromServer), Noted' = Noted,
         Current' = Settled(Head(fromServer)),
         Matched' <= Len(meant),
         UNCHANGED <<answering, answered, atServer, serverClosed, meant, interims>>
  PROVE  PiecesInOrder'
  <1> DEFINE last == LastPiece(fromServer, Current)
  <1>1. Chain(fromServer, Current, Reach) /\ ServerIsAt(last)
    BY DEF PiecesInOrder
  <1>2. Reach' = Reach
    BY DEF Reach
  <1>3. /\ Chain(fromServer', Current', Reach')
        /\ LastPiece(fromServer', Current') = last
    BY <1>1, <1>2, ChainShrinks
  <1> HIDE DEF last
  <1> QED BY <1>1, <1>3, NextPieces DEF ServerIsAt

\* What is read of a response.
LEMMA ReadsPieceKeeps ==
  ASSUME HttpIInv, ReadsResponse, fromServer # <<>>
  PROVE  HttpIInv'
  <1> USE DEF HttpIInv, Records
  <1> DEFINE p == Head(fromServer)
             m == Matched
  <1>1. /\ stage = "callbacks" /\ ~Ended
        /\ revents_' = revents_ \ {"server in"}
        /\ fromServer' = Tail(fromServer) /\ serverEof' = serverEof
        /\ UNCHANGED <<tls, asked, fromClient, clientClosed, atServer, answering,
                       serverClosed, answered, meant, interims, clientEof, reqs, written,
                       interest_, hup,
                       broken>>
    BY DEF ReadsResponse, Turn, Ended
  <1>2. Paired(written, 0) /\ RequestsInOrder /\ PiecesInOrder
    BY <1>1
  <1>3. /\ p \in Nat \X Pieces
        /\ p[2] = "end" => open = <<m, "start", m>> /\ p[1] = m
        /\ p[2] # "end" => open = <<>> /\ p[1] = m + 1
        /\ p[2] # "end" /\ interims = {} => awaiting # <<>>
        /\ p[1] <= Len(meant)
    BY <1>2, PieceIsExpected
  <1>4. p[2] \in {"whole", "start", "end", "until EOF", "interim"}
    BY <1>3 DEF Pieces
  <1>5. /\ m \in Nat /\ Len(written) \in Nat /\ Len(resps) \in Nat /\ Len(awaiting) \in Nat
        /\ Finished = Len(written) + Len(resps) /\ Noted = m + Len(awaiting)
        /\ m = IF open = <<>> THEN Finished ELSE Finished + 1
        /\ Paired(resps, Len(written)) /\ Run(awaiting, m)
    BY <1>2, CountFacts DEF RequestsInOrder, Finished, Noted, Matched
  <1>6. awaiting # <<>> =>
          /\ Head(awaiting) = m + 1 /\ Run(Tail(awaiting), m + 1)
          /\ Len(Tail(awaiting)) = Len(awaiting) - 1
    BY <1>5, RunShrinks
  <1> DEFINE MovesOn ==
        /\ stage' = stage
        /\ Noted' = Noted /\ Current' = Settled(p)
        /\ Paired(resps', Len(written))
        /\ open' = <<>> \/ \E q \in {"start", "until EOF"} : open' = <<Matched', q, Matched'>>
        /\ Run(awaiting', Matched')
        /\ Matched' = p[1]
        /\ resps # <<>> => resps' # <<>>
  <1>11. ASSUME p[2] # "end" => awaiting # <<>>
         PROVE  MovesOn
    <2> HIDE DEF p, m
    <2>1. ASSUME NEW k, k = Finished + 1, resps' = Append(resps, <<k, k>>), open' = <<>>
          PROVE  /\ Paired(resps', Len(written)) /\ Matched' = k
                 /\ Current' = <<k, "whole">> /\ resps' # <<>>
      <3>1. /\ Paired(resps', Len(written)) /\ Len(resps') = Len(resps) + 1
        BY <1>5, <2>1, PairedGrows
      <3>2. Len(written') = Len(written)
        BY <1>1
      <3>3. Matched' = k
        BY <1>5, <2>1, <3>1, <3>2, NextQueues
      <3>4. resps' # <<>>
        BY <1>5, <3>1
      <3>5. Current' = <<Matched', IF open' = <<>> THEN "whole" ELSE open'[2]>>
        BY NextPieces
      <3> QED BY <2>1, <3>1, <3>3, <3>4, <3>5
    <2>2. Noted' = Matched' + Len(awaiting')
      BY NextQueues
    <2>3. CASE p[2] = "end"
      <3>1. open = <<m, "start", m>> /\ p[1] = m /\ open # <<>>
        BY <1>3, <2>3
      <3>2. /\ resps' = Append(resps, <<open[3], open[1]>>) /\ open' = <<>>
            /\ UNCHANGED <<awaiting, stage>>
        BY <2>3 DEF ReadsResponse, p
      <3>3. m = Finished + 1 /\ resps' = Append(resps, <<m, m>>)
        BY <1>5, <3>1, <3>2
      <3>4. /\ Paired(resps', Len(written)) /\ Matched' = m
            /\ Current' = <<m, "whole">> /\ resps' # <<>>
        BY <2>1, <3>2, <3>3
      <3>5. Settled(p) = <<m, "whole">>
        BY <2>3, <3>1 DEF Settled
      <3>6. Noted' = Noted
        BY <1>5, <2>2, <3>2, <3>4
      <3> QED BY <1>5, <3>1, <3>2, <3>4, <3>5, <3>6
    <2>4. CASE p[2] \in {"whole", "interim"}
      <3>1. open = <<>> /\ awaiting # <<>> /\ p[1] = m + 1
        BY <1>3, <1>11, <2>4
      <3>2. /\ resps' = Append(resps, <<Head(awaiting), p[1]>>)
            /\ awaiting' = Tail(awaiting) /\ UNCHANGED <<open, stage>>
        BY <2>4, <3>1 DEF ReadsResponse, p
      <3> DEFINE k == m + 1
      <3>3. k = Finished + 1 /\ resps' = Append(resps, <<k, k>>) /\ p[1] = k
        BY <1>5, <1>6, <3>1, <3>2
      <3>4. Run(awaiting', k) /\ k + Len(awaiting') = Noted
        BY <1>5, <1>6, <3>1, <3>2
      <3> HIDE DEF k
      <3>5. /\ Paired(resps', Len(written)) /\ Matched' = k
            /\ Current' = <<k, "whole">> /\ resps' # <<>>
        BY <2>1, <3>1, <3>2, <3>3
      <3>6. Settled(p) = <<k, "whole">>
        BY <2>4, <3>3 DEF Settled
      <3> QED BY <2>2, <3>1, <3>2, <3>3, <3>4, <3>5, <3>6
    <2>5. CASE p[2] \in {"start", "until EOF"}
      <3>1. /\ open = <<>> /\ awaiting # <<>> /\ p[1] = m + 1
            /\ p[2] # "end" /\ p[2] \notin {"whole", "interim"}
        BY <1>3, <1>11, <2>5
      <3>2. /\ open' = <<p[1], p[2], Head(awaiting)>>
            /\ awaiting' = Tail(awaiting) /\ UNCHANGED <<resps, stage>>
        BY <2>5, <3>1 DEF ReadsResponse, p
      <3> DEFINE k == m + 1
                 q == p[2]
      <3>3. k = Finished + 1 /\ open' = <<k, q, k>> /\ p[1] = k /\ open' # <<>>
        BY <1>5, <1>6, <3>1, <3>2
      <3>4. Run(awaiting', k) /\ k + Len(awaiting') = Noted
        BY <1>5, <1>6, <3>1, <3>2
      <3> HIDE DEF k
      <3>5. Finished' = Finished
        BY <1>1, <3>2 DEF Finished
      <3>6. Matched' = k
        BY <3>3, <3>5, NextQueues
      <3>7. Current' = <<Matched', IF open' = <<>> THEN "whole" ELSE open'[2]>>
        BY NextPieces
      <3>8. open'[2] = q
        BY <3>3
      <3>9. Current' = <<k, q>> /\ Settled(p) = <<k, q>>
        BY <3>1, <3>3, <3>6, <3>7, <3>8 DEF Settled
      <3> QED BY <1>5, <2>2, <2>5, <3>2, <3>3, <3>4, <3>6, <3>9
    <2> QED BY <1>4, <2>3, <2>4, <2>5 DEF p
  <1> HIDE DEF m
  <1>7. CASE p[2] # "end" => awaiting # <<>>
    <2>1. MovesOn
      BY <1>7, <1>11
    <2>2. RequestsInOrder'
      <3>1. Read' = Read
        <4>1. Read' = Noted' + Len(reqs')
          BY NextQueues
        <4> QED BY <1>1, <2>1, <4>1 DEF Read
      <3> HIDE DEF p
      <3> QED BY <1>1, <1>2, <2>1, <3>1, NextQueues DEF RequestsInOrder
    <2>3. PiecesInOrder'
      BY <1>1, <1>2, <1>3, <2>1, NextPieceKeeps
    <2>4. Frame
      <3> HIDE DEF p
      <3>1. HttpTypes'
        BY <1>1, <2>1 DEF HttpTypes
      <3>2. Records'
        BY <1>1, <2>1, SameRecords
      <3>3. StaysReady'
        BY <1>1, <2>1 DEF StaysReady
      <3>4. ServerEofIsLast'
        BY <1>1 DEF ServerEofIsLast
      <3>5. EndsInPeace'
        BY <1>1, <2>1 DEF EndsInPeace
      <3> QED BY <3>1, <3>2, <3>3, <3>4, <3>5 DEF Frame
    <2> QED BY <2>2, <2>3, <2>4, HttpStep
  <1>8. CASE p[2] # "end" /\ awaiting = <<>>
    <2>1. stage' = "unmatched" /\ interims # {} /\ UNCHANGED <<awaiting, open, resps>>
      BY <1>1, <1>3, <1>8 DEF ReadsResponse
    <2>2. Frame
      <3> HIDE DEF p
      <3>1. HttpTypes'
        BY <1>1, <2>1 DEF HttpTypes, Stages
      <3>2. Records'
        BY <1>1, <2>1, SameRecords
      <3>3. StaysReady' /\ EndsInPeace'
        BY <2>1 DEF StaysReady, EndsInPeace
      <3>4. ServerEofIsLast'
        BY <1>1, <2>1 DEF ServerEofIsLast, Ended
      <3> QED BY <3>1, <3>2, <3>3, <3>4 DEF Frame
    <2> QED BY <2>1, <2>2, HttpStep DEF Ended
  <1> QED BY <1>7, <1>8

\* EOF of the server ends the message that lasts until then, and no other is open
\* unless the thread throws.
LEMMA ReadsEofKeeps ==
  ASSUME HttpIInv, ReadsResponse, fromServer = <<>>
  PROVE  HttpIInv'
  <1> USE DEF HttpIInv, Records
  <1> DEFINE m == Matched
             last == LastPiece(fromServer, Current)
  <1>1. /\ stage = "callbacks" /\ ~Ended /\ serverClosed
        /\ revents_' = revents_ \ {"server in"}
        /\ serverEof' = TRUE /\ open' = <<>> /\ resps' = RespsAfterEof
        /\ stage' = IF open # <<>> /\ open[2] = "start" THEN "threw" ELSE stage
        /\ UNCHANGED <<tls, asked, fromClient, clientClosed, atServer, answering,
                       fromServer, serverClosed, answered, meant, interims, clientEof,
                       reqs, written, interest_, hup,
                       broken, awaiting>>
    BY DEF ReadsResponse, Turn, Ended, StaysReady
  <1>2. Paired(written, 0) /\ RequestsInOrder /\ PiecesInOrder
    BY <1>1
  <1>3. /\ m \in Nat /\ Len(written) \in Nat /\ Len(resps) \in Nat
        /\ Finished = Len(written) + Len(resps)
        /\ m = IF open = <<>> THEN Finished ELSE Finished + 1
        /\ Paired(resps, Len(written))
        /\ open = <<>> \/ \E q \in {"start", "until EOF"} : open = <<m, q, m>>
    BY <1>2, CountFacts DEF RequestsInOrder, Finished, Matched
  <1>4. /\ Current = <<m, IF open = <<>> THEN "whole" ELSE open[2]>>
        /\ Matched <= Len(meant) /\ ServerIsAt(last)
        /\ last = Current /\ LastPiece(fromServer', Current') = Current'
    BY <1>1, <1>2 DEF PiecesInOrder, Current, LastPiece, PieceAt
  <1>5. ASSUME NEW h
        PROVE  Chain(fromServer', h, Reach')
    <2>1. fromServer' = <<>> /\ Len(fromServer') = 0
      BY <1>1
    <2> QED BY <2>1 DEF Chain
  <1>8. /\ Len(resps) + 1 # 0
        /\ Len(written) + (Len(resps) + 1) = Finished + 1
    <2>1. Len(written) \in Nat /\ Len(resps) \in Nat /\ Finished = Len(written) + Len(resps)
      BY <1>3
    <2> QED BY <2>1
  <1> HIDE DEF m, last
  <1>6. CASE open # <<>> /\ open[2] = "start"
    <2>1. Ended' /\ stage' = "threw"
      BY <1>1, <1>6 DEF Ended
    <2>2. Frame
      <3>1. HttpTypes'
        BY <1>1, <2>1 DEF HttpTypes, Stages
      <3>2. Records'
        BY <1>1, <2>1, SameRecords
      <3>3. StaysReady' /\ EndsInPeace'
        BY <2>1 DEF StaysReady, EndsInPeace
      <3>4. ServerEofIsLast'
        BY <1>1, <2>1 DEF ServerEofIsLast
      <3> QED BY <3>1, <3>2, <3>3, <3>4 DEF Frame
    <2> QED BY <2>1, <2>2, HttpStep
  <1>7. CASE ~(open # <<>> /\ open[2] = "start")
    <2>1. stage' = stage
      BY <1>1, <1>7
    <2>2. /\ Paired(resps', Len(written)) /\ Matched' = m
          /\ resps # <<>> => resps' # <<>>
      <3>1. Len(written') = Len(written)
        BY <1>1
      <3>2. CASE open = <<>>
        <4>1. resps' = resps
          BY <1>1, <3>2 DEF RespsAfterEof
        <4> QED BY <1>1, <1>3, <3>1, <3>2, <4>1, NextQueues
      <3>3. CASE open = <<m, "until EOF", m>>
        <4>1. open # <<>> /\ resps' = Append(resps, <<m, m>>) /\ m = Finished + 1
          <5>1. /\ open # <<>> /\ open[1] = m /\ open[2] = "until EOF" /\ open[3] = m
            BY <3>3
          <5> QED BY <1>1, <1>3, <5>1 DEF RespsAfterEof
        <4>2. /\ Paired(resps', Len(written)) /\ Len(resps') = Len(resps) + 1
          BY <1>3, <4>1, PairedGrows
        <4>3. Matched' = m
          <5>1. Finished' = Len(written') + Len(resps') /\ Matched' = Finished'
            BY <1>1, NextQueues
          <5>2. Finished' = Len(written) + (Len(resps) + 1)
            BY <3>1, <4>2, <5>1
          <5> QED BY <1>8, <4>1, <5>1, <5>2
        <4>4. resps' # <<>>
          <5>1. Len(resps') # 0
            BY <1>8, <4>2
          <5> QED BY <5>1
        <4> QED BY <4>2, <4>3, <4>4
      <3>4. open = <<>> \/ open = <<m, "until EOF", m>>
        <4>1. ASSUME NEW q \in {"start", "until EOF"}, open = <<m, q, m>>
              PROVE  open = <<m, "until EOF", m>>
          <5>1. open # <<>> /\ open[2] = q
            BY <4>1
          <5>2. q = "until EOF"
            BY <1>7, <5>1
          <5> QED BY <4>1, <5>2
        <4> QED BY <1>3, <4>1
      <3> QED BY <3>2, <3>3, <3>4
    <2>3. Matched' = Matched /\ Noted' = Noted /\ Read' = Read
      BY <1>1, <2>2, NextQueues DEF Noted, Read, m
    <2>4. RequestsInOrder'
      BY <1>1, <1>2, <2>2, <2>3, NextQueues DEF RequestsInOrder
    <2>5. /\ Current' = <<m, "whole">>
      BY <1>1, <2>2, NextPieces
    <2>6. last[1] = m /\ last[2] # "start"
      BY <1>4, <1>7
    <2>7. Current'[1] = m /\ Current'[2] = "whole"
      BY <2>5
    <2>8. PiecesInOrder'
      BY <1>1, <1>4, <1>5, <2>3, <2>6, <2>7, NextPieces DEF ServerIsAt
    <2>9. Frame
      <3>1. HttpTypes'
        BY <1>1, <2>1 DEF HttpTypes
      <3>2. Records'
        BY <1>1, <2>1, SameRecords
      <3>3. StaysReady'
        BY <1>1, <2>1, <2>2 DEF StaysReady
      <3>4. ServerEofIsLast'
        BY <1>1 DEF ServerEofIsLast
      <3>5. EndsInPeace'
        BY <1>1, <2>1 DEF EndsInPeace
      <3> QED BY <3>1, <3>2, <3>3, <3>4, <3>5 DEF Frame
    <2> QED BY <2>4, <2>8, <2>9, HttpStep
  <1> QED BY <1>6, <1>7

\* A connection that has been accepted has nothing in any of its queues.
LEMMA InitHttpIInv == HttpInit => HttpIInv
  <1> SUFFICES ASSUME HttpInit
               PROVE  HttpIInv
    OBVIOUS
  <1>1. /\ stage = "accepted" /\ asked = 0 /\ answering = 0 /\ answered = 0 /\ ~serverEof
        /\ fromClient = <<>> /\ atServer = <<>> /\ fromServer = <<>> /\ reqs = <<>>
        /\ awaiting = <<>> /\ open = <<>> /\ resps = <<>> /\ written = <<>>
        /\ meant = <<>> /\ interims = {}
    BY DEF HttpInit
  <1>2. Run(<<>>, 0) /\ Paired(<<>>, 0) /\ Len(<<>>) = 0
    BY DEF Run, Paired
  <1>3. Finished = 0 /\ Matched = 0 /\ Noted = 0 /\ Read = 0
    BY <1>1, <1>2 DEF Finished, Matched, Noted, Read
  <1>4. HttpTypes
    BY DEF HttpInit, HttpTypes, Stages
  <1>5. RequestsInOrder
    BY <1>1, <1>2, <1>3 DEF RequestsInOrder
  <1>6. Current = <<0, "whole">> /\ LastPiece(fromServer, Current) = Current
    BY <1>1, <1>2, <1>3 DEF Current, LastPiece, PieceAt
  <1>7. Current[1] = 0 /\ Current[2] = "whole"
    BY <1>6
  <1>8. Chain(fromServer, Current, Reach)
    BY <1>1, <1>2 DEF Chain
  <1>9. ServerIsAt(Current)
    BY <1>1, <1>2, <1>3, <1>7 DEF ServerIsAt
  <1>10. PiecesInOrder
    BY <1>1, <1>2, <1>3, <1>6, <1>8, <1>9 DEF PiecesInOrder
  <1>11. Records
    BY <1>1, <1>2 DEF Records, MeantInOrder
  <1> QED BY <1>1, <1>4, <1>5, <1>10, <1>11
          DEF HttpIInv, StaysReady, ServerEofIsLast, EndsInPeace, Ended

\* Every step of the thread, of the client and of the server keeps it.
LEMMA HttpNextKeeps == HttpIInv /\ [HttpNext]_httpVars => HttpIInv'
  BY ThreadKeeps, ClientKeeps, ServerClosesKeeps, ServerSendsKeeps, PollStartsKeeps,
     PollReturnsKeeps, ReadsPieceKeeps, ReadsEofKeeps, ReadsRequestKeeps,
     WritesRequestKeeps, WritesResponseKeeps DEF HttpNext, HttpRuns

\* In every run of the proxies the connection keeps it.
LEMMA ConnectionIsSound == ProxiesSpec => []HttpIInv
  <1>1. ProxiesInit => HttpIInv
    BY InitHttpIInv DEF ProxiesInit
  <1>2. [ProxiesNext]_proxiesVars => [HttpNext]_httpVars
    BY DEF ProxiesNext, proxiesVars
  <1> QED BY <1>1, <1>2, HttpNextKeeps, PTL DEF ProxiesSpec

\* Each message of the server is saved and passed on with the request that it is an
\* answer to, and none comes before the parser knows of its request, for any number
\* of requests, in whatever pieces the responses arrive, as long as none of those
\* before it was interim; a message that finds no request has one before it too.
THEOREM AnswersMatch == ProxiesSpec => []AnswersMatchRequests
  <1>1. HttpIInv => AnswersMatchRequests
    <2> SUFFICES ASSUME Paired(written, 0), Len(written) <= Len(meant), MeantInOrder,
                        stage = "unmatched" => interims # {}
                 PROVE  AnswersMatchRequests
      BY DEF HttpIInv, Records
    <2>1. \A k \in DOMAIN written : k \in 1..Len(written) /\ written[k] = <<0 + k, 0 + k>>
      BY SMTT(30) DEF Paired
    <2>2. \A k \in 1..Len(written) : k \in 1..Len(meant)
      BY LengthFacts DEF MeantInOrder
    <2>3. ASSUME NEW k \in DOMAIN written
          PROVE  written[k][1] = meant[written[k][2]] \/ \E i \in interims : i < k
      <3>1. k \in 1..Len(written) /\ k \in 1..Len(meant) /\ written[k] = <<k, k>>
        BY <2>1, <2>2
      <3> QED BY <3>1 DEF MeantInOrder
    <2> QED BY <2>3 DEF AnswersMatchRequests
  <1> QED BY <1>1, ConnectionIsSound, PTL

\* A connection that ends without an error has passed on every request and, unless
\* the client closed, every response that the server finished.
THEOREM ConnectionPassesAll == ProxiesSpec => []PassesAllOn
  <1>1. HttpIInv => PassesAllOn
    BY DEF HttpIInv, EndsInPeace, PassesAllOn
  <1> QED BY <1>1, ConnectionIsSound, PTL

(***************************************************************************)
(* The parser of HTTP responses.  What a server sends is a concatenation   *)
(* of lines and bodies; first, where each of them is in it, by induction   *)
(* over the responses and over the lines of a header.                      *)
(***************************************************************************)
\* A set of natural numbers that is not empty has a least one: find() returns the
\* first place.
LEMMA LeastOf ==
  ASSUME NEW T \in SUBSET Nat, T # {}
  PROVE  \E x \in T : \A y \in T : x <= y
  <1> DEFINE R == OpToRel(<, Nat)
  <1>1. IsWellFoundedOn(R, Nat)
    BY NatLessThanWellFounded
  <1>2. PICK x \in T : \A y \in T : <<y, x>> \notin R
    BY <1>1, WFMin
  <1>3. \A y \in T : ~ (y < x)
    BY <1>2 DEF OpToRel
  <1> QED BY <1>3

\* Induction over the natural numbers, with a set in place of a predicate: over the
\* responses of a connection and over the lines of a header.
LEMMA Induction ==
  ASSUME NEW T, 0 \in T, \A n \in Nat : n \in T => n + 1 \in T
  PROVE  \A n \in Nat : n \in T
  <1> DEFINE others == {n \in Nat : n \notin T}
  <1> SUFFICES ASSUME others # {}
               PROVE  FALSE
    OBVIOUS
  <1>1. PICK n \in others : \A m \in others : n <= m
    BY LeastOf
  <1>2. n \in Nat /\ n \notin T /\ n # 0
    BY <1>1
  <1>3. n - 1 \in Nat /\ n - 1 < n /\ (n - 1) + 1 = n
    BY <1>2
  <1>4. n - 1 \in T
    BY <1>1, <1>3
  <1> QED BY <1>2, <1>3, <1>4

\* The concatenation of a sequence of texts: what the library's function makes of
\* the first i of them.
Joins(f, s, i) == f[i] = IF i = 1 THEN s[i] ELSE f[i - 1] \o s[i]

\* Such a function exists, for any sequence of texts.
LEMMA JoinsExist ==
  ASSUME NEW s, NEW n \in Nat
  PROVE  \E f : f = [i \in 1..n |-> IF i = 1 THEN s[i] ELSE f[i - 1] \o s[i]]
  <1> DEFINE T == {m \in Nat : \E f : f = [i \in 1..n |-> f[i]] /\ \A i \in 1..n : i <= m => Joins(f, s, i)}
  <1>1. 0 \in T
    <2> DEFINE f == [i \in 1..n |-> 0]
    <2>1. f = [i \in 1..n |-> f[i]]
      OBVIOUS
    <2>2. \A i \in 1..n : ~ (i <= 0)
      OBVIOUS
    <2> HIDE DEF f
    <2> QED BY <2>1, <2>2
  <1>2. ASSUME NEW m \in Nat, m \in T
        PROVE  m + 1 \in T
    <2>1. PICK f : f = [i \in 1..n |-> f[i]] /\ \A i \in 1..n : i <= m => Joins(f, s, i)
      BY <1>2
    <2> DEFINE g == [i \in 1..n |-> IF i = 1 THEN s[i] ELSE f[i - 1] \o s[i]]
    <2>2. g = [i \in 1..n |-> g[i]]
      OBVIOUS
    <2>3. \A i \in 1..n : g[i] = IF i = 1 THEN s[i] ELSE f[i - 1] \o s[i]
      OBVIOUS
    <2> HIDE DEF g
    <2>4. ASSUME NEW i \in 1..n, i <= m + 1
          PROVE  Joins(g, s, i)
      <3>1. CASE i = 1
        BY <2>3, <3>1 DEF Joins
      <3>2. CASE i # 1
        <4>1. i - 1 \in 1..n /\ i - 1 <= m
          BY <2>4, <3>2
        <4>2. g[i - 1] = f[i - 1]
          BY <2>1, <2>3, <4>1 DEF Joins
        <4> QED BY <2>3, <3>2, <4>2 DEF Joins
      <3> QED BY <3>1, <3>2
    <2>5. m + 1 \in Nat
      OBVIOUS
    <2> QED BY <2>2, <2>4, <2>5
  <1>3. n \in T
    <2> HIDE DEF T
    <2> QED BY <1>1, <1>2, Induction
  <1>4. PICK f : f = [i \in 1..n |-> f[i]] /\ \A i \in 1..n : i <= n => Joins(f, s, i)
    BY <1>3
  <1>5. \A i \in 1..n : Joins(f, s, i)
    BY <1>4
  <1> QED BY <1>4, <1>5, ZenonT(30) DEF Joins

\* The function that the library chooses.
Concatenation(s) == CHOOSE f : f = [i \in 1..Len(s) |-> IF i = 1 THEN s[i] ELSE f[i - 1] \o s[i]]

\* What a server sends is the last value of that function.
LEMMA FlattenIs ==
  ASSUME NEW s, Len(s) # 0
  PROVE  FlattenSeq(s) = Concatenation(s)[Len(s)]
  BY DEF FlattenSeq, Concatenation

\* The first m texts of s in one.
Flat(s, m) == FlattenSeq([j \in 1..m |-> s[j]])

\* No texts are no bytes: the first response starts where the stream does.
LEMMA FlatNone ==
  ASSUME NEW s
  PROVE  Flat(s, 0) = <<>>
  <1>1. 1..0 = {}
    OBVIOUS
  <1>2. [j \in 1..0 |-> s[j]] = <<>>
    BY <1>1
  <1> QED BY <1>2 DEF Flat, FlattenSeq

\* What the texts are in one, step by step.
LEMMA FlatUnfolds ==
  ASSUME NEW s, NEW m \in Nat, m # 0
  PROVE  \E f : Flat(s, m) = f[m] /\ \A i \in 1..m : Joins(f, s, i)
  <1> DEFINE u == [j \in 1..m |-> s[j]]
             f == Concatenation(u)
  <1>1. Len(u) = m /\ \A i \in 1..m : u[i] = s[i]
    BY SMTT(30)
  <1> HIDE DEF u
  <1>2. f = [i \in 1..m |-> IF i = 1 THEN u[i] ELSE f[i - 1] \o u[i]]
    BY <1>1, JoinsExist DEF Concatenation
  <1> HIDE DEF f
  <1>3. \A i \in 1..m : Joins(f, s, i)
    BY <1>1, <1>2 DEF Joins
  <1>4. Flat(s, m) = f[m]
    BY <1>1, FlattenIs DEF Flat, u, f
  <1> QED BY <1>3, <1>4

\* One more response, or one more line of a header, follows the others.
LEMMA FlatAdds ==
  ASSUME NEW s, NEW m \in Nat, NEW X, \A j \in 1..(m + 1) : s[j] \in Seq(X)
  PROVE  Flat(s, m + 1) = Flat(s, m) \o s[m + 1]
  <1>1. m + 1 \in Nat /\ m + 1 # 0 /\ (m + 1) - 1 = m /\ m + 1 \in 1..(m + 1)
    OBVIOUS
  <1>2. PICK f : Flat(s, m + 1) = f[m + 1] /\ \A i \in 1..(m + 1) : Joins(f, s, i)
    BY <1>1, FlatUnfolds
  <1>3. CASE m = 0
    <2>1. Flat(s, m + 1) = s[m + 1]
      BY <1>1, <1>2, <1>3 DEF Joins
    <2>2. Flat(s, m) = <<>>
      BY <1>3, FlatNone
    <2>3. s[m + 1] \in Seq(X)
      BY <1>1
    <2> QED BY <2>1, <2>2, <2>3
  <1>4. CASE m # 0
    <2>1. PICK g : Flat(s, m) = g[m] /\ \A i \in 1..m : Joins(g, s, i)
      BY <1>4, FlatUnfolds
    <2> DEFINE T == {i \in Nat : i \in 1..m => g[i] = f[i]}
    <2>2. 0 \in T
      OBVIOUS
    <2>3. ASSUME NEW i \in Nat, i \in T
          PROVE  i + 1 \in T
      <3> SUFFICES ASSUME i + 1 \in 1..m
                   PROVE  g[i + 1] = f[i + 1]
        OBVIOUS
      <3>1. i + 1 \in 1..(m + 1) /\ (i + 1) - 1 = i
        OBVIOUS
      <3>2. CASE i = 0
        BY <1>2, <2>1, <3>1, <3>2 DEF Joins
      <3>3. CASE i # 0
        <4>1. i \in 1..m /\ i + 1 # 1
          BY <3>3
        <4>2. g[i] = f[i]
          BY <2>3, <4>1
        <4> QED BY <1>2, <2>1, <3>1, <4>1, <4>2 DEF Joins
      <3> QED BY <3>2, <3>3
    <2>4. m \in T
      <3> HIDE DEF T
      <3> QED BY <2>2, <2>3, Induction
    <2>5. g[m] = f[m]
      BY <1>4, <2>4
    <2>6. f[m + 1] = f[m] \o s[m + 1]
      <3>1. Joins(f, s, m + 1)
        BY <1>1, <1>2
      <3>2. m + 1 # 1
        BY <1>4
      <3>3. f[m + 1] = f[(m + 1) - 1] \o s[m + 1]
        BY <3>1, <3>2 DEF Joins
      <3> QED BY <1>1, <3>3
    <2> QED BY <1>2, <2>1, <2>5, <2>6
  <1> QED BY <1>3, <1>4

\* Where the texts are in the whole: each is there from behind the one before it.
IsLaidOut(s, m) ==
  \A k \in 1..m :
    /\ Len(Flat(s, k)) = Len(Flat(s, k - 1)) + Len(s[k])
    /\ Len(Flat(s, k)) <= Len(Flat(s, m))
    /\ \A i \in 1..Len(s[k]) : Flat(s, m)[Len(Flat(s, k - 1)) + i] = s[k][i]

\* Each text is found in the whole where it was laid: each response in the stream,
\* each line in its header.
LEMMA LaidOut ==
  ASSUME NEW s, NEW m \in Nat, NEW X, \A j \in 1..m : s[j] \in Seq(X)
  PROVE  (\A k \in 0..m : Flat(s, k) \in Seq(X)) /\ IsLaidOut(s, m)
  <1> DEFINE AreTexts(n) == \A k \in 0..n : Flat(s, k) \in Seq(X)
             T == {n \in Nat : n <= m => AreTexts(n) /\ IsLaidOut(s, n)}
  <1>1. 0 \in T
    <2>1. Flat(s, 0) \in Seq(X)
      <3>1. Flat(s, 0) = <<>>
        BY FlatNone
      <3>2. <<>> \in Seq(X)
        OBVIOUS
      <3> QED BY <3>1, <3>2
    <2>2. IsLaidOut(s, 0)
      BY DEF IsLaidOut
    <2>3. \A k \in 0..0 : k = 0
      OBVIOUS
    <2> QED BY <2>1, <2>2, <2>3
  <1>2. ASSUME NEW n \in Nat, n \in T
        PROVE  n + 1 \in T
    <2> SUFFICES ASSUME n + 1 <= m
                 PROVE  AreTexts(n + 1) /\ IsLaidOut(s, n + 1)
      OBVIOUS
    <2> DEFINE old == Flat(s, n)
               new == Flat(s, n + 1)
               text == s[n + 1]
    <2>1. AreTexts(n) /\ old \in Seq(X) /\ IsLaidOut(s, n)
      BY <1>2
    <2>2. n + 1 \in 1..m /\ text \in Seq(X) /\ (n + 1) - 1 = n
      OBVIOUS
    <2>3. new = old \o text
      <3>1. \A j \in 1..(n + 1) : s[j] \in Seq(X)
        OBVIOUS
      <3> QED BY <3>1, FlatAdds
    <2> HIDE DEF old, new, text
    <2>4. /\ new \in Seq(X) /\ Len(new) = Len(old) + Len(text)
          /\ \A i \in 1..Len(old) : new[i] = old[i]
          /\ \A i \in 1..Len(text) : new[Len(old) + i] = text[i]
      BY <2>1, <2>2, <2>3
    <2>5. Len(old) \in Nat /\ Len(text) \in Nat
      BY <2>1, <2>2
    <2>6. ASSUME NEW k \in 1..(n + 1)
          PROVE  /\ Len(Flat(s, k)) = Len(Flat(s, k - 1)) + Len(s[k])
                 /\ Len(Flat(s, k)) <= Len(new)
                 /\ \A i \in 1..Len(s[k]) : new[Len(Flat(s, k - 1)) + i] = s[k][i]
      <3>1. CASE k = n + 1
        BY <2>2, <2>4, <2>5, <3>1 DEF old, new, text
      <3>2. CASE k # n + 1
        <4>1. k \in 1..n
          BY <3>2
        <4>2. /\ Len(Flat(s, k)) = Len(Flat(s, k - 1)) + Len(s[k])
              /\ Len(Flat(s, k)) <= Len(old)
              /\ \A i \in 1..Len(s[k]) : old[Len(Flat(s, k - 1)) + i] = s[k][i]
          BY <2>1, <4>1 DEF IsLaidOut, old
        <4>3. Len(Flat(s, k - 1)) \in Nat /\ Len(Flat(s, k)) \in Nat /\ Len(s[k]) \in Nat
          <5>1. s[k] \in Seq(X)
            BY <4>1
          <5>2. k - 1 \in 0..n /\ k \in 0..n
            BY <4>1
          <5>3. Flat(s, k) \in Seq(X) /\ Flat(s, k - 1) \in Seq(X)
            BY <2>1, <5>2
          <5> QED BY <5>1, <5>3
        <4> DEFINE a == Len(Flat(s, k - 1))
                   b == Len(s[k])
                   c == Len(Flat(s, k))
        <4>4. ASSUME NEW i \in 1..b
              PROVE  new[a + i] = s[k][i]
          <5> HIDE DEF a, b, c
          <5>1. a \in Nat /\ b \in Nat /\ c \in Nat /\ c = a + b /\ c <= Len(old)
            BY <4>2, <4>3 DEF a, b, c
          <5>2. a + i \in 1..Len(old)
            BY <2>5, <5>1
          <5>3. old[a + i] = s[k][i]
            BY <4>2 DEF a, b
          <5> QED BY <2>4, <5>2, <5>3
        <4>5. c <= Len(new)
          <5> HIDE DEF a, b, c
          <5>1. c \in Nat /\ c <= Len(old)
            BY <4>2, <4>3 DEF c
          <5> QED BY <2>4, <2>5, <5>1
        <4> QED BY <4>2, <4>4, <4>5
      <3> QED BY <3>1, <3>2
    <2>7. IsLaidOut(s, n + 1)
      BY <2>6 DEF IsLaidOut, new
    <2>8. AreTexts(n + 1)
      <3>1. \A k \in 0..(n + 1) : k \in 0..n \/ k = n + 1
        OBVIOUS
      <3> QED BY <2>1, <2>4, <3>1 DEF new
    <2> HIDE DEF AreTexts
    <2> QED BY <2>7, <2>8
  <1>3. m \in T
    <2> HIDE DEF T
    <2> QED BY <1>1, <1>2, Induction
  <1> QED BY <1>3

\* What c is, of a and then b.
IsConcat(c, a, b) ==
  /\ Len(a) \in Nat /\ Len(b) \in Nat /\ Len(c) = Len(a) + Len(b)
  /\ \A i \in 1..Len(a) : c[i] = a[i]
  /\ \A i \in 1..Len(b) : c[Len(a) + i] = b[i]

\* Concatenation keeps both parts, as append() to buffer_ and to body_ does.
LEMMA ConcatFacts ==
  ASSUME NEW X, NEW a \in Seq(X), NEW b \in Seq(X)
  PROVE  a \o b \in Seq(X) /\ IsConcat(a \o b, a, b)
  <1> DEFINE c == a \o b
  <1>1. c = a \o b
    OBVIOUS
  <1> HIDE DEF c
  <1>2. /\ c \in Seq(X) /\ Len(c) = Len(a) + Len(b)
        /\ \A i \in 1..Len(a) : c[i] = a[i]
        /\ \A i \in 1..Len(b) : c[Len(a) + i] = b[i]
    BY <1>1
  <1>3. Len(a) \in Nat /\ Len(b) \in Nat
    OBVIOUS
  <1>4. IsConcat(c, a, b)
    BY <1>2, <1>3 DEF IsConcat
  <1> QED BY <1>1, <1>2, <1>4, Zenon

\* What a line is made of: its text, and the two bytes of CR LF.
LEMMA PairIs ==
  ASSUME NEW X, NEW x \in X, NEW y \in X
  PROVE  /\ <<x>> \in Seq(X) /\ Len(<<x>>) = 1 /\ <<x>>[1] = x
         /\ <<x, y>> \in Seq(X) /\ Len(<<x, y>>) = 2 /\ <<x, y>>[1] = x /\ <<x, y>>[2] = y
  <1>1. <<x>> \in Seq(X) /\ <<x, y>> \in Seq(X)
    OBVIOUS
  <1>2. Len(<<x>>) = 1 /\ Len(<<x, y>>) = 2
    OBVIOUS
  <1>3. <<x>>[1] = x /\ <<x, y>>[1] = x /\ <<x, y>>[2] = y
    OBVIOUS
  <1> QED BY <1>1, <1>2, <1>3, Zenon

\* What buffer_ holds: delimiters, and names for the text between them.
Bytes == {"CR", "LF", "none"} \cup STRING

\* A sequence of texts is one of bytes.
LEMMA SeqGrows ==
  ASSUME NEW A, NEW B, A \subseteq B, NEW s \in Seq(A)
  PROVE  s \in Seq(B) /\ Len(s) \in Nat
  OBVIOUS

\* The delimiter that find() is given.
LEMMA CrlfIs ==
  CRLF \in Seq(Bytes) /\ Len(CRLF) = 2 /\ CRLF[1] = "CR" /\ CRLF[2] = "LF"
  <1>1. "CR" \in Bytes /\ "LF" \in Bytes
    BY DEF Bytes
  <1> QED BY <1>1, PairIs, Zenon DEF CRLF

\* A line in the wire: its text, CR and LF.
LEMMA LineFacts ==
  ASSUME NEW x \in Bytes
  PROVE  /\ <<x>> \o CRLF \in Seq(Bytes) /\ Len(<<x>> \o CRLF) = 3
         /\ (<<x>> \o CRLF)[1] = x /\ (<<x>> \o CRLF)[2] = "CR" /\ (<<x>> \o CRLF)[3] = "LF"
         /\ CRLF \in Seq(Bytes) /\ Len(CRLF) = 2 /\ CRLF[1] = "CR" /\ CRLF[2] = "LF"
  <1> DEFINE line == <<x>> \o CRLF
  <1>1. <<x>> \in Seq(Bytes) /\ Len(<<x>>) = 1 /\ <<x>>[1] = x
    BY PairIs, Zenon
  <1>a. line = <<x>> \o CRLF /\ 1 = Len(<<x>>) /\ 2 = Len(CRLF)
    BY <1>1, CrlfIs, Zenon
  <1> HIDE DEF line
  <1>2. /\ line \in Seq(Bytes) /\ Len(line) = 1 + 2
        /\ \A i \in 1..1 : line[i] = <<x>>[i]
        /\ \A i \in 1..2 : line[1 + i] = CRLF[i]
    <2>1. line \in Seq(Bytes) /\ IsConcat(line, <<x>>, CRLF)
      BY <1>1, <1>a, CrlfIs, ConcatFacts, Zenon
    <2> QED BY <1>a, <2>1, Zenon DEF IsConcat
  <1>3. 1 \in 1..1 /\ 1 \in 1..2 /\ 2 \in 1..2 /\ 1 + 1 = 2 /\ 1 + 2 = 3
    OBVIOUS
  <1> QED BY <1>1, <1>a, <1>2, <1>3, CrlfIs, Zenon

\* The lines of a header take three places each.
LEMMA LinesFacts ==
  ASSUME NEW h \in Seq(Bytes)
  PROVE  /\ Lines(h) \in Seq(Bytes) /\ Len(Lines(h)) = 3 * Len(h)
         /\ \A j \in 1..Len(h) :
              /\ Lines(h)[3 * (j - 1) + 1] = h[j]
              /\ Lines(h)[3 * (j - 1) + 2] = "CR" /\ Lines(h)[3 * (j - 1) + 3] = "LF"
  <1> DEFINE n == Len(h)
             ls == [k \in DOMAIN h |-> <<h[k]>> \o CRLF]
  <1>1. n \in Nat /\ DOMAIN h = 1..n
    OBVIOUS
  <1>2. \A k \in 1..n : ls[k] = <<h[k]>> \o CRLF
    BY <1>1
  <1>3. \A k \in 1..n : /\ ls[k] \in Seq(Bytes) /\ Len(ls[k]) = 3
                        /\ ls[k][1] = h[k] /\ ls[k][2] = "CR" /\ ls[k][3] = "LF"
    <2> SUFFICES ASSUME NEW k \in 1..n
                 PROVE  /\ ls[k] \in Seq(Bytes) /\ Len(ls[k]) = 3
                        /\ ls[k][1] = h[k] /\ ls[k][2] = "CR" /\ ls[k][3] = "LF"
      OBVIOUS
    <2>1. h[k] \in Bytes /\ ls[k] = <<h[k]>> \o CRLF
      BY <1>1, <1>2
    <2> HIDE DEF ls, n
    <2> QED BY <2>1, LineFacts
  <1>4. Lines(h) = Flat(ls, n)
    <2>1. [k \in 1..n |-> ls[k]] = ls
      BY <1>1
    <2> QED BY <2>1 DEF Lines, Flat
  <1> HIDE DEF ls, n
  <1>5. (\A k \in 0..n : Flat(ls, k) \in Seq(Bytes)) /\ IsLaidOut(ls, n)
    BY <1>1, <1>3, LaidOut
  <1> DEFINE T == {k \in Nat : k <= n => Len(Flat(ls, k)) = 3 * k}
  <1>6. 0 \in T
    BY FlatNone
  <1>7. ASSUME NEW k \in Nat, k \in T
        PROVE  k + 1 \in T
    <2> SUFFICES ASSUME k + 1 <= n
                 PROVE  Len(Flat(ls, k + 1)) = 3 * (k + 1)
      OBVIOUS
    <2>1. k + 1 \in 1..n /\ (k + 1) - 1 = k
      BY <1>1
    <2>2. Len(Flat(ls, k + 1)) = Len(Flat(ls, (k + 1) - 1)) + Len(ls[k + 1])
      BY <1>5, <2>1 DEF IsLaidOut
    <2>3. Len(Flat(ls, k)) = 3 * k
      BY <1>1, <1>7, <2>1
    <2>4. Len(ls[k + 1]) = 3
      BY <1>3, <2>1
    <2>5. Len(Flat(ls, k + 1)) = 3 * k + 3
      BY <2>1, <2>2, <2>3, <2>4
    <2> QED BY <2>5
  <1>8. \A k \in Nat : k \in T
    <2> HIDE DEF T
    <2> QED BY <1>6, <1>7, Induction
  <1>9. \A k \in 0..n : Len(Flat(ls, k)) = 3 * k
    BY <1>1, <1>8
  <1>10. ASSUME NEW j \in 1..n
         PROVE  /\ Lines(h)[3 * (j - 1) + 1] = h[j]
                /\ Lines(h)[3 * (j - 1) + 2] = "CR" /\ Lines(h)[3 * (j - 1) + 3] = "LF"
    <2>1. Len(Flat(ls, j - 1)) = 3 * (j - 1)
      BY <1>1, <1>9
    <2>2. \A i \in 1..3 : Lines(h)[3 * (j - 1) + i] = ls[j][i]
      <3>1. \A i \in 1..Len(ls[j]) : Flat(ls, n)[Len(Flat(ls, j - 1)) + i] = ls[j][i]
        BY <1>5 DEF IsLaidOut
      <3>2. Len(ls[j]) = 3
        BY <1>3
      <3> QED BY <1>4, <2>1, <3>1, <3>2
    <2>3. 1 \in 1..3 /\ 2 \in 1..3 /\ 3 \in 1..3
      OBVIOUS
    <2> QED BY <1>3, <2>2, <2>3
  <1>11. Len(Lines(h)) = 3 * n /\ Lines(h) \in Seq(Bytes)
    BY <1>1, <1>4, <1>5, <1>9
  <1> QED BY <1>10, <1>11 DEF n

\* A response in the wire: its status line, its header lines, an empty one, and its
\* body.
IsWire(text, w, r) ==
  LET n == Len(r.headers)
      b == w + 3 * n + 5
  IN /\ text[w + 1] = r.status /\ text[w + 2] = "CR" /\ text[w + 3] = "LF"
     /\ \A m \in 0..(n - 1) :
          /\ text[w + 3 * m + 4] = r.headers[m + 1]
          /\ text[w + 3 * m + 5] = "CR" /\ text[w + 3 * m + 6] = "LF"
     /\ text[w + 3 * n + 4] = "CR" /\ text[w + 3 * n + 5] = "LF"
     /\ \A i \in 1..Len(r.body) : text[b + i] = r.body[i]

\* Where the status line, the lines of the header and the body are in what is sent
\* for a response.
LEMMA WireFacts ==
  ASSUME NEW r \in Responses
  PROVE  /\ Wire(r) \in Seq(Bytes)
         /\ Len(Wire(r)) = 3 * Len(r.headers) + 5 + Len(r.body)
         /\ IsWire(Wire(r), 0, r)
  <1> DEFINE n == Len(r.headers)
             first == <<r.status>> \o CRLF
             lines == Lines(r.headers)
             front == (first \o lines) \o CRLF
  <1>1. r.status \in Bytes /\ r.headers \in Seq(Bytes) /\ r.body \in Seq(Bytes) /\ n \in Nat
    <2>1. r.status \in STRING /\ r.headers \in Seq(STRING) /\ r.body \in Seq(STRING)
      BY DEF Responses
    <2>2. STRING \subseteq Bytes
      BY DEF Bytes
    <2> QED BY <2>1, <2>2, SeqGrows
  <1>2. /\ first \in Seq(Bytes) /\ Len(first) = 3
        /\ first[1] = r.status /\ first[2] = "CR" /\ first[3] = "LF"
        /\ CRLF \in Seq(Bytes) /\ Len(CRLF) = 2 /\ CRLF[1] = "CR" /\ CRLF[2] = "LF"
    BY <1>1, LineFacts
  <1>3. /\ lines \in Seq(Bytes) /\ Len(lines) = 3 * n
        /\ \A j \in 1..n : /\ lines[3 * (j - 1) + 1] = r.headers[j]
                           /\ lines[3 * (j - 1) + 2] = "CR" /\ lines[3 * (j - 1) + 3] = "LF"
    BY <1>1, LinesFacts
  <1>4. Wire(r) = front \o r.body
    BY DEF Wire
  <1> HIDE DEF first, lines
  <1> DEFINE top == first \o lines
  <1>5. /\ top \in Seq(Bytes) /\ Len(top) = 3 + 3 * n
        /\ \A i \in 1..3 : top[i] = first[i]
        /\ \A i \in 1..(3 * n) : top[3 + i] = lines[i]
    <2> DEFINE k == 3 * n
    <2>1. k \in Nat /\ 3 = Len(first) /\ k = Len(lines) /\ top = first \o lines
      BY <1>1, <1>2, <1>3
    <2> HIDE DEF n, k, top
    <2>2. /\ top \in Seq(Bytes) /\ Len(top) = 3 + k
          /\ \A i \in 1..3 : top[i] = first[i]
          /\ \A i \in 1..k : top[3 + i] = lines[i]
      <3>1. top \in Seq(Bytes) /\ IsConcat(top, first, lines)
        BY <1>2, <1>3, <2>1, ConcatFacts, Zenon
      <3> QED BY <2>1, <3>1, Zenon DEF IsConcat
    <2> QED BY <2>2 DEF k
  <1> HIDE DEF top
  <1>6. front = top \o CRLF
    BY DEF top
  <1> HIDE DEF front
  <1>7. /\ front \in Seq(Bytes) /\ Len(front) = 3 * n + 5
        /\ \A i \in 1..(3 + 3 * n) : front[i] = top[i]
        /\ front[3 * n + 4] = "CR" /\ front[3 * n + 5] = "LF"
    <2> DEFINE k == 3 + 3 * n
    <2>1. k \in Nat /\ k = Len(top) /\ 2 = Len(CRLF) /\ 1 \in 1..2 /\ 2 \in 1..2
      BY <1>1, <1>2, <1>5
    <2>2. k + 1 = 3 * n + 4 /\ k + 2 = 3 * n + 5
      BY <1>1
    <2> HIDE DEF n, k
    <2>3. /\ front \in Seq(Bytes) /\ Len(front) = k + 2
          /\ \A i \in 1..k : front[i] = top[i]
          /\ \A i \in 1..2 : front[k + i] = CRLF[i]
      <3>1. front \in Seq(Bytes) /\ IsConcat(front, top, CRLF)
        BY <1>2, <1>5, <1>6, ConcatFacts, Zenon
      <3> QED BY <2>1, <3>1, Zenon DEF IsConcat
    <2>4. front[k + 1] = "CR" /\ front[k + 2] = "LF"
      BY <1>2, <2>1, <2>3
    <2> QED BY <2>2, <2>3, <2>4 DEF k
  <1>8. /\ Wire(r) \in Seq(Bytes) /\ Len(Wire(r)) = 3 * n + 5 + Len(r.body)
        /\ \A i \in 1..(3 * n + 5) : Wire(r)[i] = front[i]
        /\ \A i \in 1..Len(r.body) : Wire(r)[3 * n + 5 + i] = r.body[i]
    <2> DEFINE k == 3 * n + 5
    <2>1. k = Len(front) /\ k \in Nat
      BY <1>1, <1>7
    <2> HIDE DEF n, k
    <2>2. /\ Wire(r) \in Seq(Bytes) /\ Len(Wire(r)) = k + Len(r.body)
          /\ \A i \in 1..k : Wire(r)[i] = front[i]
          /\ \A i \in 1..Len(r.body) : Wire(r)[k + i] = r.body[i]
      <3>1. Wire(r) \in Seq(Bytes) /\ IsConcat(Wire(r), front, r.body)
        BY <1>1, <1>4, <1>7, ConcatFacts, Zenon
      <3> QED BY <2>1, <3>1, Zenon DEF IsConcat
    <2> QED BY <2>2 DEF k
  <1>9. Wire(r)[1] = r.status /\ Wire(r)[2] = "CR" /\ Wire(r)[3] = "LF"
    <2>1. \A i \in 1..3 : i \in 1..(3 + 3 * n) /\ i \in 1..(3 * n + 5)
      BY <1>1
    <2>2. \A i \in 1..3 : Wire(r)[i] = first[i]
      BY <1>5, <1>7, <1>8, <2>1
    <2>3. 1 \in 1..3 /\ 2 \in 1..3 /\ 3 \in 1..3
      OBVIOUS
    <2> QED BY <1>2, <2>2, <2>3
  <1>10. ASSUME NEW m \in 0..(n - 1)
         PROVE  /\ Wire(r)[3 * m + 4] = r.headers[m + 1]
                /\ Wire(r)[3 * m + 5] = "CR" /\ Wire(r)[3 * m + 6] = "LF"
    <2>1. /\ lines[3 * m + 1] = r.headers[m + 1]
          /\ lines[3 * m + 2] = "CR" /\ lines[3 * m + 3] = "LF"
      <3>1. m + 1 \in 1..n /\ (m + 1) - 1 = m
        BY <1>1
      <3> QED BY <1>3, <3>1, ZenonT(30)
    <2>2. \A i \in 1..3 : Wire(r)[3 * m + 3 + i] = lines[3 * m + i]
      <3> SUFFICES ASSUME NEW i \in 1..3
                   PROVE  Wire(r)[3 * m + 3 + i] = lines[3 * m + i]
        OBVIOUS
      <3>1. /\ 3 * m + i \in 1..(3 * n) /\ 3 * m + 3 + i = 3 + (3 * m + i)
            /\ 3 * m + 3 + i \in 1..(3 + 3 * n) /\ 3 * m + 3 + i \in 1..(3 * n + 5)
        BY <1>1
      <3>2. top[3 + (3 * m + i)] = lines[3 * m + i]
        BY <1>5, <3>1
      <3>3. front[3 * m + 3 + i] = top[3 * m + 3 + i]
        BY <1>7, <3>1
      <3>4. Wire(r)[3 * m + 3 + i] = front[3 * m + 3 + i]
        BY <1>8, <3>1
      <3> QED BY <3>1, <3>2, <3>3, <3>4
    <2>3. 3 * m + 3 + 1 = 3 * m + 4 /\ 3 * m + 3 + 2 = 3 * m + 5 /\ 3 * m + 3 + 3 = 3 * m + 6
      OBVIOUS
    <2>4. /\ Wire(r)[3 * m + 3 + 1] = lines[3 * m + 1] /\ Wire(r)[3 * m + 3 + 2] = lines[3 * m + 2]
          /\ Wire(r)[3 * m + 3 + 3] = lines[3 * m + 3]
      BY <2>2
    <2> QED BY <2>1, <2>3, <2>4
  <1>11. Wire(r)[3 * n + 4] = "CR" /\ Wire(r)[3 * n + 5] = "LF"
    <2>1. 3 * n + 4 \in 1..(3 * n + 5) /\ 3 * n + 5 \in 1..(3 * n + 5)
      BY <1>1
    <2> QED BY <1>7, <1>8, <2>1
  <1>12. IsWire(Wire(r), 0, r)
    <2>1. \A m \in 0..(n - 1) : 0 + 3 * m + 4 = 3 * m + 4 /\ 0 + 3 * m + 5 = 3 * m + 5 /\ 0 + 3 * m + 6 = 3 * m + 6
      OBVIOUS
    <2>2. 0 + 3 * n + 4 = 3 * n + 4 /\ 0 + 3 * n + 5 = 3 * n + 5 /\ 0 + 1 = 1 /\ 0 + 2 = 2 /\ 0 + 3 = 3
      BY <1>1
    <2> QED BY <1>8, <1>9, <1>10, <1>11, <2>1, <2>2 DEF IsWire
  <1> QED BY <1>8, <1>12 DEF n

\* A response is the same wherever it is in the stream.
LEMMA WireMoves ==
  ASSUME NEW r, Len(r.headers) \in Nat, Len(r.body) \in Nat, NEW u, NEW text, NEW w \in Nat,
         IsWire(u, 0, r), \A i \in 1..(3 * Len(r.headers) + 5 + Len(r.body)) : text[w + i] = u[i]
  PROVE  IsWire(text, w, r)
  <1> DEFINE n == Len(r.headers)
             l == Len(r.body)
  <1>1. n \in Nat /\ l \in Nat
    OBVIOUS
  <1>2. /\ u[0 + 1] = r.status /\ u[0 + 2] = "CR" /\ u[0 + 3] = "LF"
        /\ \A m \in 0..(n - 1) :
             /\ u[0 + 3 * m + 4] = r.headers[m + 1]
             /\ u[0 + 3 * m + 5] = "CR" /\ u[0 + 3 * m + 6] = "LF"
        /\ u[0 + 3 * n + 4] = "CR" /\ u[0 + 3 * n + 5] = "LF"
        /\ \A i \in 1..l : u[0 + 3 * n + 5 + i] = r.body[i]
    BY DEF IsWire
  <1>3. \A i \in 1..(3 * n + 5 + l) : text[w + i] = u[i]
    OBVIOUS
  <1> HIDE DEF n, l
  <1>4. text[w + 1] = r.status /\ text[w + 2] = "CR" /\ text[w + 3] = "LF"
    <2>1. /\ 1 \in 1..(3 * n + 5 + l) /\ 2 \in 1..(3 * n + 5 + l) /\ 3 \in 1..(3 * n + 5 + l)
          /\ 0 + 1 = 1 /\ 0 + 2 = 2 /\ 0 + 3 = 3
      BY <1>1
    <2> QED BY <1>2, <1>3, <2>1
  <1>5. ASSUME NEW m \in 0..(n - 1)
        PROVE  /\ text[w + 3 * m + 4] = r.headers[m + 1]
               /\ text[w + 3 * m + 5] = "CR" /\ text[w + 3 * m + 6] = "LF"
    <2>1. \A d \in 4..6 : /\ 3 * m + d \in 1..(3 * n + 5 + l) /\ 0 + 3 * m + d = 3 * m + d
                          /\ w + 3 * m + d = w + (3 * m + d)
      BY <1>1
    <2>2. \A d \in 4..6 : text[w + 3 * m + d] = u[0 + 3 * m + d]
      BY <1>3, <2>1
    <2>3. 4 \in 4..6 /\ 5 \in 4..6 /\ 6 \in 4..6
      OBVIOUS
    <2> QED BY <1>2, <2>2, <2>3
  <1>6. text[w + 3 * n + 4] = "CR" /\ text[w + 3 * n + 5] = "LF"
    <2>1. \A d \in 4..5 : /\ 3 * n + d \in 1..(3 * n + 5 + l) /\ 0 + 3 * n + d = 3 * n + d
                          /\ w + 3 * n + d = w + (3 * n + d)
      BY <1>1
    <2>2. \A d \in 4..5 : text[w + 3 * n + d] = u[0 + 3 * n + d]
      BY <1>3, <2>1
    <2>3. 4 \in 4..5 /\ 5 \in 4..5
      OBVIOUS
    <2> QED BY <1>2, <2>2, <2>3
  <1>7. ASSUME NEW i \in 1..l
        PROVE  text[w + 3 * n + 5 + i] = r.body[i]
    <2>1. /\ 3 * n + 5 + i \in 1..(3 * n + 5 + l) /\ 0 + 3 * n + 5 + i = 3 * n + 5 + i
          /\ w + 3 * n + 5 + i = w + (3 * n + 5 + i)
      BY <1>1
    <2>2. text[w + 3 * n + 5 + i] = u[0 + 3 * n + 5 + i]
      BY <1>3, <2>1
    <2> QED BY <1>2, <2>2
  <1> QED BY <1>4, <1>5, <1>6, <1>7 DEF IsWire, n, l

\* The bytes a response takes.
SizeOfWire(r) == 3 * Len(r.headers) + 5 + Len(r.body)

\* What the server sends on a connection with the responses e, and where the k-th
\* of them ends.
TextOf(e) == FlattenSeq([k \in DOMAIN e |-> Wire(e[k])])
EndOf(e, k) == Len(FlattenSeq([j \in 1..k |-> Wire(e[j])]))

\* Where the responses are in what the server sends.
LEMMA StreamFacts ==
  ASSUME NEW e \in Exchanges
  PROVE  /\ e \in Seq(Responses) /\ Len(e) \in Nat
         /\ TextOf(e) \in Seq(Bytes)
         /\ EndOf(e, 0) = 0 /\ EndOf(e, Len(e)) = Len(TextOf(e))
         /\ \A k \in 0..Len(e) : EndOf(e, k) \in Nat /\ EndOf(e, k) <= Len(TextOf(e))
         /\ \A k \in 1..Len(e) :
              /\ EndOf(e, k) = EndOf(e, k - 1) + SizeOfWire(e[k])
              /\ IsWire(TextOf(e), EndOf(e, k - 1), e[k])
         /\ \A k \in 1..Len(e) : \A j \in 0..(k - 1) : EndOf(e, j) < EndOf(e, k)
  <1> DEFINE m == Len(e)
             s == [k \in DOMAIN e |-> Wire(e[k])]
  <1>1. /\ e \in Seq(Responses) /\ m \in Nat /\ DOMAIN e = 1..m
        /\ \A k \in 1..m : e[k] \in Responses
    <2>1. e \in Seq(Responses)
      BY ParserAssumption
    <2> QED BY <2>1
  <1>2. \A k \in 1..m : s[k] = Wire(e[k])
    BY <1>1
  <1>3. /\ TextOf(e) = Flat(s, m)
        /\ \A k \in 0..m : EndOf(e, k) = Len(Flat(s, k))
    <2>1. s = [j \in 1..m |-> s[j]]
      BY <1>1
    <2>2. TextOf(e) = Flat(s, m)
      BY <2>1 DEF TextOf, Flat
    <2>3. ASSUME NEW k \in 0..m
          PROVE  EndOf(e, k) = Len(Flat(s, k))
      <3>1. \A j \in 1..k : s[j] = Wire(e[j])
        BY <1>1, <1>2
      <3> HIDE DEF s
      <3>2. [j \in 1..k |-> s[j]] = [j \in 1..k |-> Wire(e[j])]
        BY <3>1
      <3> QED BY <3>2 DEF EndOf, Flat
    <2> QED BY <2>2, <2>3
  <1> HIDE DEF m, s
  <1>4. \A k \in 1..m : /\ s[k] \in Seq(Bytes) /\ Len(s[k]) = SizeOfWire(e[k])
                        /\ IsWire(s[k], 0, e[k])
    BY <1>1, <1>2, WireFacts DEF SizeOfWire
  <1>5. ASSUME NEW k \in 0..m
        PROVE  Flat(s, k) \in Seq(Bytes) /\ IsLaidOut(s, k)
    <2>1. k \in Nat /\ \A j \in 1..k : s[j] \in Seq(Bytes)
      BY <1>1, <1>4
    <2>2. k \in 0..k
      BY <2>1
    <2> QED BY <2>1, <2>2, LaidOut
  <1>6. \A k \in 0..m : Len(Flat(s, k)) \in Nat
    BY <1>5
  <1>7. \A k \in 0..m : \A j \in 0..k : EndOf(e, j) <= EndOf(e, k)
    <2> SUFFICES ASSUME NEW k \in 0..m, NEW j \in 0..k
                 PROVE  Len(Flat(s, j)) <= Len(Flat(s, k))
      BY <1>1, <1>3
    <2>1. CASE j = 0
      <3>1. Len(Flat(s, 0)) = 0
        BY FlatNone
      <3> QED BY <1>6, <2>1, <3>1
    <2>2. CASE j # 0
      <3>1. j \in 1..k
        BY <2>2
      <3> QED BY <1>5, <3>1 DEF IsLaidOut
    <2> QED BY <2>1, <2>2
  <1>8. \A k \in 0..m : EndOf(e, k) \in Nat
    BY <1>3, <1>6
  <1>9. m \in 0..m /\ EndOf(e, m) = Len(TextOf(e))
    BY <1>1, <1>3
  <1>10. EndOf(e, 0) = 0
    <2>1. 0 \in 0..m
      BY <1>1
    <2>2. Len(Flat(s, 0)) = 0
      BY FlatNone
    <2> QED BY <1>3, <2>1, <2>2
  <1>11. ASSUME NEW k \in 1..m
         PROVE  /\ EndOf(e, k) = EndOf(e, k - 1) + SizeOfWire(e[k])
                /\ IsWire(TextOf(e), EndOf(e, k - 1), e[k])
    <2>1. k \in 0..m /\ k - 1 \in 0..m
      BY <1>1
    <2>2. /\ Len(Flat(s, k)) = Len(Flat(s, k - 1)) + Len(s[k])
          /\ \A i \in 1..Len(s[k]) : Flat(s, m)[Len(Flat(s, k - 1)) + i] = s[k][i]
      BY <1>5, <1>9 DEF IsLaidOut
    <2>3. e[k].headers \in Seq(STRING) /\ e[k].body \in Seq(STRING)
      BY <1>1 DEF Responses
    <2>4. Len(e[k].headers) \in Nat /\ Len(e[k].body) \in Nat
      BY <2>3
    <2>5. Len(s[k]) = 3 * Len(e[k].headers) + 5 + Len(e[k].body) /\ IsWire(s[k], 0, e[k])
      BY <1>4 DEF SizeOfWire
    <2>6. EndOf(e, k - 1) \in Nat /\ EndOf(e, k - 1) = Len(Flat(s, k - 1)) /\ EndOf(e, k) = Len(Flat(s, k))
      BY <1>3, <1>8, <2>1
    <2>7. \A i \in 1..(3 * Len(e[k].headers) + 5 + Len(e[k].body)) :
            TextOf(e)[EndOf(e, k - 1) + i] = s[k][i]
      BY <1>3, <2>2, <2>5, <2>6
    <2>8. IsWire(TextOf(e), EndOf(e, k - 1), e[k])
      BY <2>4, <2>5, <2>6, <2>7, WireMoves
    <2> QED BY <1>4, <2>2, <2>6, <2>8
  <1>12. ASSUME NEW k \in 1..m, NEW j \in 0..(k - 1)
         PROVE  EndOf(e, j) < EndOf(e, k)
    <2>1. k - 1 \in 0..m /\ k \in 0..m /\ j \in 0..m
      BY <1>1
    <2>2. EndOf(e, j) <= EndOf(e, k - 1)
      BY <1>7, <2>1
    <2>3. e[k].headers \in Seq(STRING) /\ e[k].body \in Seq(STRING)
      BY <1>1 DEF Responses
    <2>a. Len(e[k].headers) \in Nat /\ Len(e[k].body) \in Nat
      BY <2>3
    <2>4. SizeOfWire(e[k]) > 0 /\ SizeOfWire(e[k]) \in Nat
      <3> DEFINE h == Len(e[k].headers)
                 l == Len(e[k].body)
      <3>1. SizeOfWire(e[k]) = 3 * h + 5 + l /\ h \in Nat /\ l \in Nat
        BY <2>a, Zenon DEF SizeOfWire
      <3> HIDE DEF h, l
      <3> QED BY <3>1
    <2>5. EndOf(e, k) = EndOf(e, k - 1) + SizeOfWire(e[k])
      BY <1>11
    <2>6. EndOf(e, j) \in Nat /\ EndOf(e, k - 1) \in Nat
      BY <1>8, <2>1
    <2> QED BY <2>2, <2>4, <2>5, <2>6
  <1>13. TextOf(e) \in Seq(Bytes)
    BY <1>3, <1>5, <1>9
  <1>14. \A k \in 0..m : EndOf(e, k) <= Len(TextOf(e))
    BY <1>7, <1>9
  <1> QED BY <1>1, <1>8, <1>9, <1>10, <1>11, <1>12, <1>13, <1>14 DEF m

(***************************************************************************)
(* Searching and cutting buffers, and what a part of the stream is.        *)
(***************************************************************************)
\* buffer_.find() returns the first place of the needle, or none when there is none.
LEMMA FindIs ==
  ASSUME NEW X, NEW s \in Seq(X), NEW needle, Len(needle) \in Nat
  PROVE  /\ Find(s, needle) \in Nat
         /\ Find(s, needle) = 0 =>
              \A k \in 1..(Len(s) - Len(needle) + 1) : SubSeq(s, k, k + Len(needle) - 1) # needle
         /\ Find(s, needle) # 0 =>
              /\ Find(s, needle) \in 1..(Len(s) - Len(needle) + 1)
              /\ SubSeq(s, Find(s, needle), Find(s, needle) + Len(needle) - 1) = needle
              /\ \A k \in 1..(Find(s, needle) - 1) : SubSeq(s, k, k + Len(needle) - 1) # needle
  <1> DEFINE l == Len(needle)
             Fits(k) == SubSeq(s, k, k + l - 1) = needle
             places == {k \in 1..(Len(s) - l + 1) : Fits(k)}
             f == Find(s, needle)
  <1>1. f = IF places = {} THEN 0 ELSE CHOOSE k \in places : \A j \in places : k <= j
    BY Zenon DEF Find
  <1>2. Len(s) \in Nat /\ places \in SUBSET Nat /\ l \in Nat
    OBVIOUS
  <1> HIDE DEF f, l
  <1> SUFFICES /\ f \in Nat
               /\ f = 0 => \A k \in 1..(Len(s) - l + 1) : ~ Fits(k)
               /\ f # 0 => /\ f \in 1..(Len(s) - l + 1) /\ Fits(f)
                           /\ \A k \in 1..(f - 1) : ~ Fits(k)
    BY Zenon DEF f, l
  <1> HIDE DEF Fits
  <1>3. CASE places = {}
    <2>1. f = 0
      BY <1>1, <1>3
    <2>2. \A k \in 1..(Len(s) - l + 1) : ~ Fits(k)
      BY <1>3
    <2> QED BY <2>1, <2>2
  <1>4. CASE places # {}
    <2> DEFINE P(k) == \A j \in places : k <= j
    <2>1. \E k \in places : P(k)
      <3> HIDE DEF places
      <3> QED BY <1>2, <1>4, LeastOf
    <2>2. f \in places /\ P(f)
      <3> HIDE DEF places
      <3>1. f = CHOOSE k \in places : P(k)
        BY <1>1, <1>4
      <3> HIDE DEF P
      <3> QED BY <2>1, <3>1, Zenon
    <2>3. f \in Nat /\ f # 0 /\ f \in 1..(Len(s) - l + 1) /\ Fits(f)
      BY <1>2, <2>2
    <2>4. ASSUME NEW k \in 1..(f - 1)
          PROVE  ~ Fits(k)
      <3>1. k \in 1..(Len(s) - l + 1) /\ ~ (f <= k)
        BY <1>2, <2>3
      <3> QED BY <2>2, <3>1
    <2> QED BY <2>3, <2>4
  <1> QED BY <1>3, <1>4

\* A piece of a text, byte by byte.
IsPiece(t, s, j, k) ==
  /\ Len(t) = k - j + 1
  /\ \A i \in 1..(k - j + 1) : t[i] = s[j + i - 1]

\* What substr() returns.
LEMMA PieceIs ==
  ASSUME NEW X, NEW s \in Seq(X), NEW j \in Nat, j > 0, NEW k \in Nat, k <= Len(s), j <= k + 1
  PROVE  SubSeq(s, j, k) \in Seq(X) /\ IsPiece(SubSeq(s, j, k), s, j, k)
  BY DEF IsPiece

\* Texts of the same bytes are the same.
LEMMA SameSeq ==
  ASSUME NEW X, NEW Y, NEW s \in Seq(X), NEW t \in Seq(Y), Len(s) = Len(t),
         \A i \in 1..Len(s) : s[i] = t[i]
  PROVE  s = t
  OBVIOUS

\* A delimiter of lines in a text.
LEMMA CrlfAt ==
  ASSUME NEW s \in Seq(Bytes), NEW k \in Nat, k > 0, k + 1 <= Len(s)
  PROVE  SubSeq(s, k, k + 1) = CRLF <=> s[k] = "CR" /\ s[k + 1] = "LF"
  <1> DEFINE t == SubSeq(s, k, k + 1)
  <1>1. t \in Seq(Bytes) /\ Len(t) = 2 /\ \A i \in 1..2 : t[i] = s[k + i - 1]
    <2>1. (k + 1) - k + 1 = 2 /\ k + 1 \in Nat /\ k <= (k + 1) + 1
      OBVIOUS
    <2>2. t \in Seq(Bytes) /\ IsPiece(t, s, k, k + 1)
      BY <2>1, PieceIs, Zenon
    <2> HIDE DEF t
    <2> QED BY <2>1, <2>2, Zenon DEF IsPiece
  <1> HIDE DEF t
  <1>2. t[1] = s[k] /\ t[2] = s[k + 1]
    <2>1. 1 \in 1..2 /\ 2 \in 1..2 /\ k + 1 - 1 = k /\ k + 2 - 1 = k + 1
      OBVIOUS
    <2>2. t[1] = s[k + 1 - 1] /\ t[2] = s[k + 2 - 1]
      BY <1>1, <2>1
    <2> QED BY <2>1, <2>2
  <1>3. t = CRLF => s[k] = "CR" /\ s[k + 1] = "LF"
    BY <1>2, CrlfIs, Zenon
  <1>4. s[k] = "CR" /\ s[k + 1] = "LF" => t = CRLF
    <2> SUFFICES ASSUME s[k] = "CR", s[k + 1] = "LF"
                 PROVE  t = CRLF
      OBVIOUS
    <2>1. t[1] = CRLF[1] /\ t[2] = CRLF[2]
      BY <1>2, CrlfIs
    <2>2. \A i \in 1..2 : i = 1 \/ i = 2
      OBVIOUS
    <2>3. \A i \in 1..Len(t) : t[i] = CRLF[i]
      BY <1>1, <2>1, <2>2, Zenon
    <2>4. Len(t) = Len(CRLF)
      BY <1>1, CrlfIs, Zenon
    <2> QED BY <1>1, <2>3, <2>4, CrlfIs, SameSeq, Zenon
  <1> QED BY <1>3, <1>4 DEF t

\* have_complete_line() finds the first CR LF.
LEMMA FindCrlf ==
  ASSUME NEW s \in Seq(Bytes)
  PROVE  /\ Find(s, CRLF) \in Nat /\ Len(s) \in Nat
         /\ Find(s, CRLF) = 0 => \A k \in 1..(Len(s) - 1) : ~ (s[k] = "CR" /\ s[k + 1] = "LF")
         /\ Find(s, CRLF) > 0 =>
              /\ Find(s, CRLF) + 1 <= Len(s)
              /\ s[Find(s, CRLF)] = "CR" /\ s[Find(s, CRLF) + 1] = "LF"
              /\ \A k \in 1..(Find(s, CRLF) - 1) : ~ (s[k] = "CR" /\ s[k + 1] = "LF")
  <1> DEFINE f == Find(s, CRLF)
  <1>1. /\ f \in Nat
        /\ f = 0 => \A k \in 1..(Len(s) - 2 + 1) : SubSeq(s, k, k + 2 - 1) # CRLF
        /\ f # 0 => /\ f \in 1..(Len(s) - 2 + 1) /\ SubSeq(s, f, f + 2 - 1) = CRLF
                    /\ \A k \in 1..(f - 1) : SubSeq(s, k, k + 2 - 1) # CRLF
    <2>1. Len(CRLF) = 2
      BY CrlfIs
    <2>2. Len(CRLF) \in Nat
      BY <2>1
    <2>3. /\ f \in Nat
          /\ f = 0 => \A k \in 1..(Len(s) - Len(CRLF) + 1) : SubSeq(s, k, k + Len(CRLF) - 1) # CRLF
          /\ f # 0 => /\ f \in 1..(Len(s) - Len(CRLF) + 1)
                      /\ SubSeq(s, f, f + Len(CRLF) - 1) = CRLF
                      /\ \A k \in 1..(f - 1) : SubSeq(s, k, k + Len(CRLF) - 1) # CRLF
      BY <2>2, FindIs, Zenon
    <2> HIDE DEF f
    <2> QED BY <2>1, <2>3
  <1>2. Len(s) \in Nat
    OBVIOUS
  <1>3. \A k \in Nat : k + 2 - 1 = k + 1
    OBVIOUS
  <1>4. ASSUME f = 0, NEW k \in 1..(Len(s) - 1)
        PROVE  ~ (s[k] = "CR" /\ s[k + 1] = "LF")
    <2>1. k \in Nat /\ k > 0 /\ k + 1 <= Len(s) /\ k \in 1..(Len(s) - 2 + 1)
      BY <1>2
    <2>2. SubSeq(s, k, k + 1) # CRLF
      BY <1>1, <1>3, <1>4, <2>1
    <2> QED BY <2>1, <2>2, CrlfAt, Zenon
  <1>5. ASSUME f > 0
        PROVE  /\ f + 1 <= Len(s) /\ s[f] = "CR" /\ s[f + 1] = "LF"
               /\ \A k \in 1..(f - 1) : ~ (s[k] = "CR" /\ s[k + 1] = "LF")
    <2>1. f + 2 - 1 = f + 1
      BY <1>1
    <2>2. f + 1 <= Len(s) /\ SubSeq(s, f, f + 1) = CRLF
      BY <1>1, <1>5, <2>1
    <2>3. s[f] = "CR" /\ s[f + 1] = "LF"
      BY <1>1, <1>5, <2>2, CrlfAt, Zenon
    <2>4. ASSUME NEW k \in 1..(f - 1)
          PROVE  ~ (s[k] = "CR" /\ s[k + 1] = "LF")
      <3>1. k \in Nat /\ k > 0 /\ k + 1 <= Len(s)
        BY <1>1, <1>2, <2>2
      <3>2. SubSeq(s, k, k + 1) # CRLF
        BY <1>1, <1>3, <1>5, <3>1
      <3> QED BY <3>1, <3>2, CrlfAt, Zenon
    <2> QED BY <2>2, <2>3, <2>4
  <1> QED BY <1>1, <1>2, <1>4, <1>5 DEF f

\* The bytes s are those of the text behind the c-th, up to the p-th.
IsPart(s, text, c, p) ==
  /\ s \in Seq(Bytes) /\ c \in Nat /\ p \in Nat /\ c <= p /\ Len(s) = p - c
  /\ \A i \in 1..(p - c) : s[i] = text[c + i]

\* A buffer of which everything was parsed.
LEMMA NoPart ==
  ASSUME NEW text, NEW c \in Nat
  PROVE  IsPart(<<>>, text, c, c)
  <1>1. <<>> \in Seq(Bytes) /\ Len(<<>>) = 0 /\ c - c = 0 /\ c <= c
    OBVIOUS
  <1> QED BY <1>1 DEF IsPart

\* What erase() leaves of a buffer is what follows in the stream.
LEMMA PartMoves ==
  ASSUME NEW s, NEW text, NEW c, NEW p, IsPart(s, text, c, p), NEW d \in Nat, c + d <= p
  PROVE  IsPart(From(s, d + 1), text, c + d, p)
  <1> DEFINE t == From(s, d + 1)
  <1>1. /\ s \in Seq(Bytes) /\ c \in Nat /\ p \in Nat /\ Len(s) = p - c
        /\ \A i \in 1..(p - c) : s[i] = text[c + i]
    BY DEF IsPart
  <1>2. t \in Seq(Bytes) /\ Len(t) = Len(s) - (d + 1) + 1
        /\ \A i \in 1..(Len(s) - (d + 1) + 1) : t[i] = s[(d + 1) + i - 1]
    <2>1. d + 1 \in Nat /\ d + 1 > 0 /\ Len(s) \in Nat /\ Len(s) <= Len(s) /\ d + 1 <= Len(s) + 1
      BY <1>1
    <2>2. t \in Seq(Bytes) /\ IsPiece(t, s, d + 1, Len(s))
      BY <1>1, <2>1, PieceIs, Zenon DEF From
    <2> HIDE DEF t
    <2> QED BY <2>2, Zenon DEF IsPiece
  <1> HIDE DEF t
  <1>3. \A i \in 1..(p - (c + d)) : t[i] = text[(c + d) + i]
    <2> SUFFICES ASSUME NEW i \in 1..(p - (c + d))
                 PROVE  t[i] = text[(c + d) + i]
      OBVIOUS
    <2>1. /\ i \in 1..(Len(s) - (d + 1) + 1) /\ (d + 1) + i - 1 = d + i
          /\ d + i \in 1..(p - c) /\ c + (d + i) = (c + d) + i
      BY <1>1
    <2>2. t[i] = s[d + i]
      BY <1>2, <2>1
    <2> QED BY <1>1, <2>1, <2>2
  <1>4. c + d \in Nat /\ Len(t) = p - (c + d)
    BY <1>1, <1>2
  <1> QED BY <1>1, <1>2, <1>3, <1>4 DEF IsPart, t

\* The beginning of a buffer, as it is appended to body_.
LEMMA PartStarts ==
  ASSUME NEW s, NEW text, NEW c, NEW p, IsPart(s, text, c, p), NEW d \in Nat, c + d <= p
  PROVE  IsPart(SubSeq(s, 1, d), text, c, c + d)
  <1> DEFINE t == SubSeq(s, 1, d)
  <1>1. /\ s \in Seq(Bytes) /\ c \in Nat /\ p \in Nat /\ Len(s) = p - c
        /\ \A i \in 1..(p - c) : s[i] = text[c + i]
    BY DEF IsPart
  <1>2. t \in Seq(Bytes) /\ Len(t) = d - 1 + 1 /\ \A i \in 1..(d - 1 + 1) : t[i] = s[1 + i - 1]
    <2>1. 1 \in Nat /\ 1 > 0 /\ d <= Len(s) /\ 1 <= d + 1
      BY <1>1
    <2>2. t \in Seq(Bytes) /\ IsPiece(t, s, 1, d)
      BY <1>1, <2>1, PieceIs, Zenon
    <2> HIDE DEF t
    <2> QED BY <2>2, Zenon DEF IsPiece
  <1> HIDE DEF t
  <1>3. \A i \in 1..((c + d) - c) : t[i] = text[c + i]
    <2> SUFFICES ASSUME NEW i \in 1..((c + d) - c)
                 PROVE  t[i] = text[c + i]
      OBVIOUS
    <2>1. i \in 1..(d - 1 + 1) /\ 1 + i - 1 = i /\ i \in 1..(p - c)
      BY <1>1
    <2> QED BY <1>1, <1>2, <2>1
  <1>4. c + d \in Nat /\ c <= c + d /\ Len(t) = (c + d) - c
    BY <1>1, <1>2
  <1> QED BY <1>1, <1>2, <1>3, <1>4 DEF IsPart, t

\* A buffer to which the next bytes are appended, as the parser of chunks does with
\* those it is given.
LEMMA PartsJoin ==
  ASSUME NEW s, NEW t, NEW text, NEW c, NEW p, NEW q, IsPart(s, text, c, p), IsPart(t, text, p, q)
  PROVE  IsPart(s \o t, text, c, q)
  <1> DEFINE u == s \o t
  <1>1. /\ s \in Seq(Bytes) /\ c \in Nat /\ p \in Nat /\ Len(s) = p - c /\ c <= p
        /\ \A i \in 1..(p - c) : s[i] = text[c + i]
        /\ t \in Seq(Bytes) /\ q \in Nat /\ Len(t) = q - p /\ p <= q
        /\ \A i \in 1..(q - p) : t[i] = text[p + i]
    BY DEF IsPart
  <1>2. u \in Seq(Bytes) /\ IsConcat(u, s, t)
    BY <1>1, ConcatFacts
  <1> HIDE DEF u
  <1>3. /\ Len(u) = (p - c) + (q - p)
        /\ \A i \in 1..(p - c) : u[i] = s[i]
        /\ \A i \in 1..(q - p) : u[(p - c) + i] = t[i]
    BY <1>1, <1>2, Zenon DEF IsConcat
  <1>4. ASSUME NEW i \in 1..(q - c)
        PROVE  u[i] = text[c + i]
    <2>1. CASE i <= p - c
      <3>1. i \in 1..(p - c)
        BY <1>1, <2>1
      <3> QED BY <1>1, <1>3, <3>1
    <2>2. CASE ~ (i <= p - c)
      <3> DEFINE j == i - (p - c)
      <3>1. j \in 1..(q - p) /\ (p - c) + j = i /\ p + j = c + i
        BY <1>1, <2>2
      <3> HIDE DEF j
      <3>2. u[(p - c) + j] = t[j] /\ t[j] = text[p + j]
        BY <1>1, <1>3, <3>1
      <3> QED BY <3>1, <3>2
    <2> QED BY <2>1, <2>2
  <1>5. Len(u) = q - c /\ c <= q
    BY <1>1, <1>3
  <1> QED BY <1>1, <1>2, <1>4, <1>5 DEF IsPart, u

\* A read appends the bytes that follow.
LEMMA PartGrows ==
  ASSUME NEW text \in Seq(Bytes), NEW s, NEW c, NEW p, IsPart(s, text, c, p),
         NEW n \in Nat, p + n <= Len(text)
  PROVE  IsPart(s \o SubSeq(text, p + 1, p + n), text, c, p + n)
  <1> DEFINE t == SubSeq(text, p + 1, p + n)
  <1>1. p \in Nat
    BY DEF IsPart
  <1>2. t \in Seq(Bytes) /\ Len(t) = (p + n) - (p + 1) + 1
        /\ \A i \in 1..((p + n) - (p + 1) + 1) : t[i] = text[(p + 1) + i - 1]
    <2>1. p + 1 \in Nat /\ p + 1 > 0 /\ p + n \in Nat /\ p + 1 <= (p + n) + 1
      BY <1>1
    <2>2. t \in Seq(Bytes) /\ IsPiece(t, text, p + 1, p + n)
      BY <2>1, PieceIs, Zenon
    <2> HIDE DEF t
    <2> QED BY <2>2, Zenon DEF IsPiece
  <1> HIDE DEF t
  <1>3. \A i \in 1..((p + n) - p) : t[i] = text[p + i]
    <2> SUFFICES ASSUME NEW i \in 1..((p + n) - p)
                 PROVE  t[i] = text[p + i]
      OBVIOUS
    <2>1. i \in 1..((p + n) - (p + 1) + 1) /\ (p + 1) + i - 1 = p + i
      BY <1>1
    <2> QED BY <1>2, <2>1
  <1>4. p + n \in Nat /\ p <= p + n /\ Len(t) = (p + n) - p
    BY <1>1, <1>2, SMTT(30)
  <1>5. IsPart(t, text, p, p + n)
    BY <1>1, <1>2, <1>3, <1>4 DEF IsPart
  <1> QED BY <1>5, PartsJoin DEF t

\* The text u is in the text at b.
IsAt(text, b, u) == \A i \in 1..Len(u) : text[b + i] = u[i]

\* A part of the stream that lies in a body is a part of the body.
LEMMA PartOfBody ==
  ASSUME NEW s, NEW text, NEW u, NEW b \in Nat, NEW c \in Nat, NEW p \in Nat, NEW x, x = b + c,
         NEW y, y = b + p, IsPart(s, text, x, y), Len(u) \in Nat, IsAt(text, b, u), p <= Len(u)
  PROVE  IsPart(s, u, c, p)
  <1> DEFINE m == Len(u)
  <1>a. m \in Nat /\ p <= m /\ \A i \in 1..m : text[b + i] = u[i]
    BY DEF IsAt
  <1> HIDE DEF m
  <1>1. /\ s \in Seq(Bytes) /\ b + c <= b + p /\ Len(s) = (b + p) - (b + c)
        /\ \A i \in 1..((b + p) - (b + c)) : s[i] = text[(b + c) + i]
    BY DEF IsPart
  <1>2. c <= p /\ Len(s) = p - c
    BY <1>1
  <1>3. ASSUME NEW i \in 1..(p - c)
        PROVE  s[i] = u[c + i]
    <2>2. i \in Nat /\ i > 0 /\ i <= p - c
      OBVIOUS
    <2>3. c + i \in 1..m
      BY <1>a, <2>2
    <2>4. (b + p) - (b + c) = p - c
      OBVIOUS
    <2>1. i \in 1..((b + p) - (b + c)) /\ (b + c) + i = b + (c + i) /\ c + i \in 1..m
      BY <2>2, <2>3, <2>4
    <2> QED BY <1>1, <1>a, <2>1
  <1> QED BY <1>1, <1>2, <1>3 DEF IsPart

\* A line that is nothing but this text.
Only(t, x) == t = <<x>>

\* A line of text is found when all of it has arrived, and not before.
LEMMA TextLine ==
  ASSUME NEW s, NEW text, NEW c, NEW p, IsPart(s, text, c, p),
         IsText(text[c + 1]), text[c + 2] = "CR", text[c + 3] = "LF"
  PROVE  /\ Find(s, CRLF) \in {0, 2}
         /\ Find(s, CRLF) = 0 => p < c + 3
         /\ Find(s, CRLF) = 2 => /\ c + 3 <= p /\ Only(SubSeq(s, 1, 1), text[c + 1])
                                 /\ IsPart(From(s, 4), text, c + 3, p)
  <1> DEFINE f == Find(s, CRLF)
  <1>1. /\ s \in Seq(Bytes) /\ c \in Nat /\ p \in Nat /\ Len(s) = p - c
        /\ \A i \in 1..(p - c) : s[i] = text[c + i]
    BY DEF IsPart
  <1>2. /\ f \in Nat
        /\ f = 0 => \A k \in 1..(Len(s) - 1) : ~ (s[k] = "CR" /\ s[k + 1] = "LF")
        /\ f > 0 => /\ f + 1 <= Len(s) /\ s[f] = "CR" /\ s[f + 1] = "LF"
                    /\ \A k \in 1..(f - 1) : ~ (s[k] = "CR" /\ s[k + 1] = "LF")
    BY <1>1, FindCrlf
  <1> HIDE DEF f
  <1>3. p >= c + 1 => s[1] # "CR"
    <2> SUFFICES ASSUME p >= c + 1
                 PROVE  s[1] # "CR"
      OBVIOUS
    <2>1. 1 \in 1..(p - c)
      BY <1>1
    <2> QED BY <1>1, <2>1 DEF IsText
  <1>4. p >= c + 3 => s[2] = "CR" /\ s[2 + 1] = "LF"
    <2> SUFFICES ASSUME p >= c + 3
                 PROVE  s[2] = "CR" /\ s[3] = "LF"
      OBVIOUS
    <2>1. 2 \in 1..(p - c) /\ 3 \in 1..(p - c)
      BY <1>1
    <2> QED BY <1>1, <2>1
  <1>5. ASSUME f > 0
        PROVE  f = 2 /\ c + 3 <= p
    <2>1. p >= c + 1
      BY <1>1, <1>2, <1>5
    <2>2. f # 1
      BY <1>2, <1>3, <1>5, <2>1
    <2>3. p >= c + 3
      BY <1>1, <1>2, <1>5, <2>2
    <2>4. ~ (f > 2)
      <3> SUFFICES ASSUME f > 2
                   PROVE  FALSE
        OBVIOUS
      <3>1. 2 \in 1..(f - 1)
        BY <1>2
      <3> QED BY <1>2, <1>4, <1>5, <2>3, <3>1
    <2> QED BY <1>2, <1>5, <2>2, <2>3, <2>4
  <1>6. ASSUME f = 0
        PROVE  p < c + 3
    <2> SUFFICES ASSUME p >= c + 3
                 PROVE  FALSE
      BY <1>1
    <2>1. 2 \in 1..(Len(s) - 1)
      BY <1>1
    <2> QED BY <1>2, <1>4, <1>6, <2>1
  <1>7. ASSUME c + 3 <= p
        PROVE  Only(SubSeq(s, 1, 1), text[c + 1]) /\ IsPart(From(s, 4), text, c + 3, p)
    <2>1. IsPart(From(s, 3 + 1), text, c + 3, p)
      BY <1>7, PartMoves
    <2>2. IsPart(SubSeq(s, 1, 1), text, c, c + 1)
      BY <1>1, <1>7, PartStarts
    <2> DEFINE t == SubSeq(s, 1, 1)
               x == text[c + 1]
    <2>3. t \in Seq(Bytes) /\ Len(t) = 1 /\ t[1] = x
      <3>1. (c + 1) - c = 1 /\ 1 \in 1..1
        BY <1>1
      <3> QED BY <2>2, <3>1 DEF IsPart
    <2> HIDE DEF t, x
    <2>4. <<x>> \in Seq({x}) /\ Len(<<x>>) = 1 /\ <<x>>[1] = x
      OBVIOUS
    <2>5. \A i \in 1..1 : i = 1
      OBVIOUS
    <2> DEFINE u == <<x>>
    <2>8. u \in Seq({x}) /\ Len(t) = Len(u) /\ \A i \in 1..Len(t) : t[i] = u[i]
      BY <2>3, <2>4, <2>5, Zenon
    <2> HIDE DEF u
    <2>6. t = u
      BY <2>3, <2>8, SameSeq
    <2>7. 3 + 1 = 4
      OBVIOUS
    <2> QED BY <2>1, <2>6, <2>7, Zenon DEF t, u, x, Only
  <1> QED BY <1>2, <1>5, <1>6, <1>7 DEF f

\* So is the empty line behind the headers.
LEMMA EmptyLine ==
  ASSUME NEW s, NEW text, NEW c, NEW p, IsPart(s, text, c, p),
         text[c + 1] = "CR", text[c + 2] = "LF"
  PROVE  /\ Find(s, CRLF) \in {0, 1}
         /\ Find(s, CRLF) = 0 => p < c + 2
         /\ Find(s, CRLF) = 1 => /\ c + 2 <= p /\ SubSeq(s, 1, 0) = <<>>
                                 /\ IsPart(From(s, 3), text, c + 2, p)
  <1> DEFINE f == Find(s, CRLF)
  <1>1. /\ s \in Seq(Bytes) /\ c \in Nat /\ p \in Nat /\ Len(s) = p - c
        /\ \A i \in 1..(p - c) : s[i] = text[c + i]
    BY DEF IsPart
  <1>2. /\ f \in Nat
        /\ f = 0 => \A k \in 1..(Len(s) - 1) : ~ (s[k] = "CR" /\ s[k + 1] = "LF")
        /\ f > 0 => /\ f + 1 <= Len(s) /\ s[f] = "CR" /\ s[f + 1] = "LF"
                    /\ \A k \in 1..(f - 1) : ~ (s[k] = "CR" /\ s[k + 1] = "LF")
    BY <1>1, FindCrlf
  <1> HIDE DEF f
  <1>3. p >= c + 2 => s[1] = "CR" /\ s[1 + 1] = "LF"
    <2> SUFFICES ASSUME p >= c + 2
                 PROVE  s[1] = "CR" /\ s[2] = "LF"
      OBVIOUS
    <2>1. 1 \in 1..(p - c) /\ 2 \in 1..(p - c)
      BY <1>1
    <2> QED BY <1>1, <2>1
  <1>4. ASSUME f > 0
        PROVE  f = 1 /\ c + 2 <= p
    <2>1. p >= c + 2
      BY <1>1, <1>2, <1>4
    <2>2. ~ (f > 1)
      <3> SUFFICES ASSUME f > 1
                   PROVE  FALSE
        OBVIOUS
      <3>1. 1 \in 1..(f - 1)
        BY <1>2
      <3> QED BY <1>2, <1>3, <1>4, <2>1, <3>1
    <2> QED BY <1>2, <1>4, <2>1, <2>2
  <1>5. ASSUME f = 0
        PROVE  p < c + 2
    <2> SUFFICES ASSUME p >= c + 2
                 PROVE  FALSE
      BY <1>1
    <2>1. 1 \in 1..(Len(s) - 1)
      BY <1>1
    <2> QED BY <1>2, <1>3, <1>5, <2>1
  <1>6. ASSUME c + 2 <= p
        PROVE  SubSeq(s, 1, 0) = <<>> /\ IsPart(From(s, 3), text, c + 2, p)
    <2>1. IsPart(From(s, 2 + 1), text, c + 2, p)
      BY <1>6, PartMoves
    <2>2. SubSeq(s, 1, 0) = <<>>
      BY <1>1
    <2>3. 2 + 1 = 3
      OBVIOUS
    <2> QED BY <2>1, <2>2, <2>3
  <1> QED BY <1>2, <1>4, <1>5, <1>6 DEF f

\* Nothing is found in nothing.
LEMMA NoLine ==
  ASSUME NEW s, NEW text, NEW c, IsPart(s, text, c, c)
  PROVE  Find(s, CRLF) = 0 /\ s = <<>>
  <1>1. s \in Seq(Bytes) /\ c \in Nat /\ Len(s) = c - c
    BY DEF IsPart
  <1>2. Len(s) = 0 /\ s = <<>>
    BY <1>1
  <1>3. Find(s, CRLF) \in Nat /\ (Find(s, CRLF) > 0 => Find(s, CRLF) + 1 <= Len(s))
    BY <1>1, FindCrlf
  <1> QED BY <1>2, <1>3

(***************************************************************************)
(* The inductive invariant of the parser: by the state of the message, how *)
(* far it is in the stream, that it has collected what was sent up to      *)
(* there, and that the buffer holds what was read from there on.           *)
(***************************************************************************)
\* The response the parser is at, where it starts and where its body does.
Now == Len(complete_messages_) + 1
Start == EndOf(stream, Len(complete_messages_))
BodyStart == Start + 3 * Len(stream[Now].headers) + 5

\* The types of message_in_progress_, of its ChunkedBodyParser, and of a complete
\* message.
Messages ==
  [state : {"FIRST_LINE_PENDING", "HEADERS_PENDING", "BODY_PENDING", "COMPLETE"},
   request : Bytes, first_line : Bytes, headers : Seq(Bytes), body : Seq(Bytes),
   known : BOOLEAN, size : Nat, parser : {"none", "chunked", "until EOF"}]
ChunkParsers ==
  [buf : Seq(Bytes), state : {"CHUNK_HDR", "CHUNK", "TRAILER"}, size : Nat, acked : Nat,
   parsed : Nat, trailers : BOOLEAN]
Received == [request : Bytes, status : Bytes, headers : Seq(Bytes), body : Seq(Bytes)]

\* The type invariant.
ParserTypes ==
  /\ stream \in Exchanges /\ at_eof \in BOOLEAN
  /\ pos \in Nat /\ pos <= Len(TextOf(stream))
  /\ msg \in Messages /\ chunked \in ChunkParsers
  /\ complete_messages_ \in Seq(Received) /\ Len(complete_messages_) <= Len(stream)
  /\ requests_ \in Seq(Bytes)

\* What is left in buffer_, when the parser is through with the first c bytes.
Unparsed(c) == IsPart(buffer_, TextOf(stream), c, pos)

\* The requests from the k-th are those that wait.
Waiting(k) ==
  /\ Len(requests_) = Len(stream) + 1 - k
  /\ \A i \in 1..Len(requests_) : requests_[i] = stream[k + i - 1].request

\* Between two messages.  After EOF nothing more can come of what is left.
AwaitsFirstLine ==
  /\ msg = NewMessage
  /\ where \in {"idle", "parsing_step"} /\ (where = "idle" \/ at_eof => ~ HaveLine)
  /\ Waiting(Now) /\ Unparsed(Start)

\* A message was begun: the response it will be is the one whose request it took.
IsBegun ==
  /\ Now <= Len(stream) /\ Waiting(Now + 1)
  /\ msg.request = stream[Now].request /\ msg.first_line = stream[Now].status

\* The headers that were added are those that were sent, and none was refused.
ReadsHeaders ==
  /\ IsBegun /\ ~ at_eof
  /\ msg.state = "HEADERS_PENDING" /\ msg.body = <<>>
  /\ where \in {"idle", "parsing_step"} /\ (where = "idle" => ~ HaveLine)
  /\ Len(msg.headers) <= Len(stream[Now].headers)
  /\ \A j \in 1..Len(msg.headers) :
       msg.headers[j] = stream[Now].headers[j] /\ msg.headers[j] \notin Colonless
  /\ Unparsed(Start + 3 * Len(msg.headers) + 3)

\* All the headers are there, and of the body a part, or all.
InBody ==
  /\ IsBegun /\ msg.headers = stream[Now].headers
  /\ Len(msg.body) <= Len(stream[Now].body)
  /\ IsPart(msg.body, stream[Now].body, 0, Len(msg.body))

\* The rest of the body is what comes next.
ReadsBody ==
  /\ InBody /\ ~ at_eof /\ msg.state = "BODY_PENDING"
  /\ Unparsed(BodyStart + Len(msg.body))

\* Rules 1 and 3: the body is over when it has its size.
BodyIsSized ==
  /\ ReadsBody /\ msg.known /\ msg.parser = "none" /\ msg.size = Len(stream[Now].body)
  /\ where \in {"idle", "parsing_step"}
  /\ where = "idle" => buffer_ = <<>> /\ Len(msg.body) < msg.size

\* Rule 5: only the last response can end so.
BodyUntilEof ==
  /\ ReadsBody /\ ~ msg.known /\ msg.parser = "until EOF"
  /\ Now = Len(stream) /\ stream[Now].body = <<"until EOF">>
  /\ where \in {"idle", "parsing_step"}
  /\ where = "idle" => buffer_ = <<>>

\* Where the parser of chunks is.
AtChunk(p, b, starts) ==
  \/ p.state = "CHUNK_HDR" /\ p.parsed \in starts
  \/ \E c \in starts :
       /\ p.parsed = c + 3 /\ p.size = SizeOf(b[c + 1])
       /\ IF b[c + 1] = "0" THEN p.state = "TRAILER" ELSE p.state = "CHUNK"

\* Rule 2.  The parser of chunks keeps what it was given and could not parse: from
\* the place that parsed says, to the end of the body acknowledged so far or, while it
\* runs, of all that was read.
BodyIsChunked ==
  /\ ReadsBody /\ ~ msg.known /\ msg.parser = "chunked"
  /\ "chunked" \in ToSet(stream[Now].headers)
  /\ BodyEnding = Ending(stream[Now])
  /\ Len(msg.body) < Len(stream[Now].body)
  /\ chunked.acked = Len(msg.body)
  /\ \E starts \in SUBSET {c \in 0..(Len(stream[Now].body) - 1) :
                             stream[Now].body[c + 1] \in {"0", "1", "2"}} :
       /\ ChunksStartAt(starts, stream[Now].body, Ending(stream[Now]))
       /\ AtChunk(chunked, stream[Now].body, starts)
  /\ where \in {"idle", "parsing_step", "chunks"}
  /\ where = "idle" => buffer_ = <<>>
  /\ IsPart(chunked.buf, TextOf(stream), BodyStart + chunked.parsed,
            IF where = "chunks" THEN pos ELSE BodyStart + Len(msg.body))

\* The message is complete, or as complete as EOF lets it be.
IsComplete ==
  /\ InBody /\ msg.state = "COMPLETE" /\ where = "parsing_step"
  /\ \/ msg.body = stream[Now].body /\ Unparsed(EndOf(stream, Now)) /\ ~ at_eof
     \/ /\ at_eof /\ EndsAtEof(stream[Now]) /\ buffer_ = <<>> /\ pos <= EndOf(stream, Now)

\* After a message that EOF ended: the responses from here on never arrived.
IsOver ==
  /\ at_eof /\ msg = NewMessage /\ buffer_ = <<>> /\ where \in {"idle", "parsing_step"}
  /\ \A k \in Now..Len(stream) : pos < EndOf(stream, k)

\* Where the parser is: one of these.
IsSomewhere ==
  \/ AwaitsFirstLine \/ ReadsHeaders \/ BodyIsSized \/ BodyUntilEof \/ BodyIsChunked
  \/ IsComplete \/ IsOver

\* Only the last message of all can have been cut short.
AreWhole == \A k \in 1..Len(complete_messages_) : complete_messages_[k] = stream[k]
\* So only between messages, after EOF, can one before have been cut short.
WholeBefore == AreWhole \/ (at_eof /\ msg.state = "FIRST_LINE_PENDING")

\* The inductive invariant: as long as nothing has failed, what was parsed and what is
\* buffered are together what was read.
ParserIInv ==
  /\ MessagesAreThoseSent
  /\ failed = "no" => ParserTypes /\ IsSomewhere /\ WholeBefore

\* What is known of a response, and of its place in the text.
IsResponse(r, last) ==
  /\ r \in Responses /\ r.request \in Bytes /\ r.status \in Bytes
  /\ r.headers \in Seq(Bytes) /\ Len(r.headers) \in Nat
  /\ r.body \in Seq(Bytes) /\ Len(r.body) \in Nat
  /\ IsText(r.status) /\ \A j \in 1..Len(r.headers) : IsText(r.headers[j])
  /\ IsRefused(r) \/ IsDelimited(r, last)

\* Every response of a connection is one that ParserAssumption allows.
LEMMA ResponseFacts ==
  ASSUME NEW e \in Exchanges, NEW k \in 1..Len(e)
  PROVE  IsResponse(e[k], k = Len(e))
  <1>1. e \in Seq(Responses)
    BY StreamFacts
  <1>2. e[k] \in Responses /\ k \in DOMAIN e
    BY <1>1
  <1> DEFINE r == e[k]
  <1>3. r.request \in STRING /\ r.status \in STRING /\ r.headers \in Seq(STRING) /\ r.body \in Seq(STRING)
    BY <1>2 DEF Responses
  <1>4. STRING \subseteq Bytes
    BY DEF Bytes
  <1>5. /\ r.headers \in Seq(Bytes) /\ Len(r.headers) \in Nat
        /\ r.body \in Seq(Bytes) /\ Len(r.body) \in Nat
    BY <1>3, <1>4, SeqGrows, Zenon
  <1>6. DOMAIN r.headers = 1..Len(r.headers)
    BY <1>5
  <1>7. /\ IsText(r.status) /\ \A j \in DOMAIN r.headers : IsText(r.headers[j])
        /\ IsRefused(r) \/ IsDelimited(r, k = Len(e))
    BY <1>2, ParserAssumption, Zenon
  <1> QED BY <1>2, <1>3, <1>4, <1>5, <1>6, <1>7 DEF IsResponse

\* The response that the parser is at, and its place in the stream.
LEMMA NowFacts ==
  ASSUME ParserTypes
  PROVE  /\ Now \in Nat /\ Now >= 1 /\ Now <= Len(stream) + 1 /\ Len(stream) \in Nat
         /\ Start \in Nat /\ Start <= Len(TextOf(stream))
         /\ Now = Len(stream) + 1 => Start = Len(TextOf(stream))
         /\ Now <= Len(stream) =>
              /\ Now \in 1..Len(stream)
              /\ IsResponse(stream[Now], Now = Len(stream))
              /\ IsWire(TextOf(stream), Start, stream[Now])
              /\ BodyStart \in Nat /\ BodyStart >= Start + 5
              /\ EndOf(stream, Now) = BodyStart + Len(stream[Now].body)
              /\ EndOf(stream, Now) <= Len(TextOf(stream))
  <1> DEFINE n == Len(complete_messages_)
  <1>1. n \in Nat /\ n <= Len(stream) /\ stream \in Exchanges
    BY DEF ParserTypes
  <1>2. Len(stream) \in Nat
    BY <1>1, StreamFacts
  <1>3. n \in 0..Len(stream)
    BY <1>1, <1>2
  <1>4. Start \in Nat /\ Start <= Len(TextOf(stream))
    BY <1>1, <1>3, StreamFacts DEF Start
  <1>5. ASSUME Now = Len(stream) + 1
        PROVE  Start = Len(TextOf(stream))
    <2>1. n = Len(stream)
      BY <1>1, <1>2, <1>5 DEF Now
    <2> QED BY <1>1, <2>1, StreamFacts DEF Start
  <1>6. ASSUME Now <= Len(stream)
        PROVE  /\ Now \in 1..Len(stream)
               /\ IsResponse(stream[Now], Now = Len(stream))
               /\ IsWire(TextOf(stream), Start, stream[Now])
               /\ BodyStart \in Nat /\ BodyStart >= Start + 5
               /\ EndOf(stream, Now) = BodyStart + Len(stream[Now].body)
               /\ EndOf(stream, Now) <= Len(TextOf(stream))
    <2>1. Now \in 1..Len(stream) /\ Now - 1 = n /\ Now \in 0..Len(stream)
      BY <1>1, <1>2, <1>6 DEF Now
    <2>2. IsResponse(stream[Now], Now = Len(stream))
      BY <1>1, <2>1, ResponseFacts
    <2>3. /\ EndOf(stream, Now) = Start + SizeOfWire(stream[Now])
          /\ IsWire(TextOf(stream), Start, stream[Now])
      <3>1. /\ EndOf(stream, Now) = EndOf(stream, Now - 1) + SizeOfWire(stream[Now])
            /\ IsWire(TextOf(stream), EndOf(stream, Now - 1), stream[Now])
        BY <1>1, <2>1, StreamFacts, Zenon
      <3> QED BY <2>1, <3>1 DEF Start
    <2>4. EndOf(stream, Now) <= Len(TextOf(stream))
      BY <1>1, <2>1, StreamFacts
    <2> DEFINE h == Len(stream[Now].headers)
               l == Len(stream[Now].body)
    <2>5. h \in Nat /\ l \in Nat
      BY <2>2 DEF IsResponse
    <2>6. SizeOfWire(stream[Now]) = 3 * h + 5 + l /\ BodyStart = Start + 3 * h + 5
      BY DEF SizeOfWire, BodyStart
    <2> HIDE DEF h, l
    <2>7. BodyStart \in Nat /\ BodyStart >= Start + 5 /\ EndOf(stream, Now) = BodyStart + l
      BY <1>4, <2>3, <2>5, <2>6
    <2> QED BY <2>1, <2>2, <2>3, <2>4, <2>7 DEF l
  <1>7. Now \in Nat /\ Now >= 1 /\ Now <= Len(stream) + 1
    BY <1>1, <1>2 DEF Now
  <1> QED BY <1>2, <1>4, <1>5, <1>6, <1>7

\* Until a message is done, the parser stays at the same response.
LEMMA SamePlace ==
  ASSUME stream' = stream, complete_messages_' = complete_messages_
  PROVE  Now' = Now /\ Start' = Start /\ BodyStart' = BodyStart
  <1>1. Now' = Now /\ Start' = Start
    BY DEF Now, Start
  <1> QED BY <1>1 DEF BodyStart

\* A step that ends no message keeps those that are complete; one that fails ends
\* the connection.
LEMMA StepKeeps ==
  ASSUME ParserIInv, stream' = stream, complete_messages_' = complete_messages_,
         failed = "no", at_eof => at_eof',
         failed' = "no" => ParserTypes' /\ IsSomewhere' /\ (at_eof => msg' = msg)
  PROVE  ParserIInv'
  <1>1. MessagesAreThoseSent /\ at_eof \in BOOLEAN /\ WholeBefore
    BY DEF ParserIInv, ParserTypes
  <1>2. MessagesAreThoseSent'
    BY <1>1 DEF MessagesAreThoseSent, AreAnnounced
  <1>3. failed' = "no" => WholeBefore'
    BY <1>1 DEF WholeBefore, AreWhole
  <1> QED BY <1>2, <1>3 DEF ParserIInv

\* What a step of parse() starts from.
LEMMA StepStarts ==
  ASSUME ParserIInv, failed = "no"
  PROVE  ParserTypes /\ IsSomewhere /\ WholeBefore
  BY DEF ParserIInv

\* The state of the message tells which part of the invariant holds.
LEMMA ByState ==
  ASSUME ParserTypes, IsSomewhere
  PROVE  /\ msg.state = "FIRST_LINE_PENDING" => AwaitsFirstLine \/ IsOver
         /\ msg.state = "HEADERS_PENDING" => ReadsHeaders
         /\ msg.state = "BODY_PENDING" => BodyIsSized \/ BodyUntilEof \/ BodyIsChunked
         /\ msg.state = "COMPLETE" => IsComplete
         /\ where = "chunks" => BodyIsChunked
  <1>1. AwaitsFirstLine \/ IsOver => msg.state = "FIRST_LINE_PENDING" /\ where # "chunks"
    BY DEF AwaitsFirstLine, IsOver, NewMessage
  <1>2. ReadsHeaders => msg.state = "HEADERS_PENDING" /\ where # "chunks"
    BY DEF ReadsHeaders
  <1>3. BodyIsSized \/ BodyUntilEof => msg.state = "BODY_PENDING" /\ where # "chunks"
    BY DEF BodyIsSized, BodyUntilEof, ReadsBody
  <1>4. BodyIsChunked => msg.state = "BODY_PENDING"
    BY DEF BodyIsChunked, ReadsBody
  <1>5. IsComplete => msg.state = "COMPLETE" /\ where # "chunks"
    BY DEF IsComplete
  <1> QED BY <1>1, <1>2, <1>3, <1>4, <1>5 DEF IsSomewhere

(***************************************************************************)
(* The steps up to the body.                                               *)
(***************************************************************************)
\* The loop of parse() ends when no line is complete.
LEMMA AwaitsLineKeeps ==
  ASSUME ParserIInv, AwaitsLine
  PROVE  ParserIInv'
  <1>1. /\ failed = "no" /\ ~ HaveLine /\ where' = "idle"
        /\ msg.state \in {"FIRST_LINE_PENDING", "HEADERS_PENDING"}
        /\ UNCHANGED <<stream, pos, at_eof, buffer_, msg, chunked, requests_,
                       complete_messages_, failed>>
    BY DEF AwaitsLine, Stepping
  <1>2. ParserTypes /\ IsSomewhere
    BY <1>1, StepStarts
  <1>3. ParserTypes'
    BY <1>1, <1>2 DEF ParserTypes
  <1>4. Now' = Now /\ Start' = Start /\ HaveLine' = HaveLine
    BY <1>1, SamePlace DEF HaveLine
  <1>5. AwaitsFirstLine => AwaitsFirstLine'
    BY <1>1, <1>4 DEF AwaitsFirstLine, Waiting, Unparsed
  <1>6. ReadsHeaders => ReadsHeaders'
    BY <1>1, <1>4 DEF ReadsHeaders, IsBegun, Waiting, Unparsed
  <1>7. IsOver => IsOver'
    BY <1>1, <1>4 DEF IsOver
  <1>8. IsSomewhere'
    BY <1>1, <1>2, <1>5, <1>6, <1>7, ByState DEF IsSomewhere
  <1>9. at_eof \in BOOLEAN
    BY <1>2 DEF ParserTypes
  <1> QED BY <1>1, <1>3, <1>8, <1>9, StepKeeps

\* set_first_line(): the message takes the request that the response answers, and what
\* comes next is behind the status line.
LEMMA FirstLineKeeps ==
  ASSUME ParserIInv, FirstLine
  PROVE  ParserIInv'
  <1>1. /\ failed = "no" /\ where = "parsing_step" /\ msg.state = "FIRST_LINE_PENDING" /\ HaveLine
        /\ UNCHANGED <<stream, pos, at_eof, where, chunked, complete_messages_>>
    BY DEF FirstLine, Stepping
  <1>2. ParserTypes /\ IsSomewhere
    BY <1>1, StepStarts
  <1>3. Now' = Now /\ Start' = Start
    BY <1>1, SamePlace
  <1>4. at_eof \in BOOLEAN
    BY <1>2 DEF ParserTypes
  <1> SUFFICES ASSUME failed' = "no"
               PROVE  ParserTypes' /\ IsSomewhere' /\ ~ at_eof
    BY <1>1, <1>4, StepKeeps
  <1>5. /\ requests_ # <<>>
        /\ msg' = [msg EXCEPT !.state = "HEADERS_PENDING", !.request = Head(requests_),
                              !.first_line = IF Line = <<>> THEN "none" ELSE Line[1]]
        /\ requests_' = Tail(requests_) /\ buffer_' = AfterLine
    BY DEF FirstLine
  <1>6. AwaitsFirstLine
    <2>1. ~ IsOver
      <3> SUFFICES ASSUME buffer_ = <<>>
                   PROVE  ~ HaveLine
        BY <1>1 DEF IsOver
      <3>1. IsPart(buffer_, <<>>, 0, 0)
        BY NoPart
      <3> QED BY <3>1, NoLine DEF HaveLine
    <2> QED BY <1>1, <1>2, <2>1, ByState
  <1>7. /\ msg = NewMessage /\ ~ at_eof /\ Waiting(Now) /\ IsPart(buffer_, TextOf(stream), Start, pos)
    BY <1>1, <1>4, <1>6 DEF AwaitsFirstLine, Unparsed
  <1>8. requests_ \in Seq(Bytes) /\ Len(requests_) \in Nat /\ Len(requests_) > 0
    <2>1. requests_ \in Seq(Bytes)
      BY <1>2 DEF ParserTypes
    <2> QED BY <1>5, <2>1
  <1>9. /\ Len(requests_) = Len(stream) + 1 - Now
        /\ \A i \in 1..Len(requests_) : requests_[i] = stream[Now + i - 1].request
    BY <1>7 DEF Waiting
  <1>10. Now <= Len(stream) /\ Now \in Nat /\ Start \in Nat /\ Len(stream) \in Nat
    BY <1>2, <1>8, <1>9, NowFacts
  <1>11. /\ IsResponse(stream[Now], Now = Len(stream))
         /\ IsWire(TextOf(stream), Start, stream[Now])
    BY <1>2, <1>10, NowFacts
  <1>12. /\ TextOf(stream)[Start + 1] = stream[Now].status
         /\ TextOf(stream)[Start + 2] = "CR" /\ TextOf(stream)[Start + 3] = "LF"
         /\ IsText(stream[Now].status) /\ stream[Now].status \in Bytes
    BY <1>11 DEF IsWire, IsResponse
  <1>13. Find(buffer_, CRLF) = 2
    BY <1>1, <1>7, <1>12, TextLine DEF HaveLine
  <1>14. /\ Line = <<stream[Now].status>>
         /\ IsPart(AfterLine, TextOf(stream), Start + 3, pos)
    <2>1. 2 - 1 = 1 /\ 2 + 2 = 4
      OBVIOUS
    <2>2. /\ Only(SubSeq(buffer_, 1, 1), TextOf(stream)[Start + 1])
          /\ IsPart(From(buffer_, 4), TextOf(stream), Start + 3, pos)
      BY <1>7, <1>12, <1>13, TextLine
    <2> QED BY <1>12, <1>13, <2>1, <2>2 DEF Line, AfterLine, Only
  <1>15. Line # <<>> /\ Line[1] = stream[Now].status
    BY <1>14
  <1>16. /\ msg'.state = "HEADERS_PENDING" /\ msg'.request = Head(requests_)
         /\ msg'.first_line = stream[Now].status /\ msg'.body = <<>> /\ msg'.headers = <<>>
    BY <1>5, <1>7, <1>15 DEF NewMessage
  <1>17. /\ Head(requests_) \in Bytes /\ Head(requests_) = stream[Now].request
         /\ requests_' \in Seq(Bytes) /\ Len(requests_') = Len(requests_) - 1
         /\ \A i \in 1..Len(requests_') : requests_'[i] = requests_[i + 1]
    <2>1. 1 \in 1..Len(requests_) /\ Now + 1 - 1 = Now
      BY <1>8, <1>10
    <2>2. requests_[1] = stream[Now].request
      BY <1>9, <2>1
    <2> QED BY <1>5, <1>8, <2>1, <2>2
  <1>18. ParserTypes'
    <2>1. msg' \in Messages
      BY <1>2, <1>5, <1>12, <1>15, <1>17 DEF ParserTypes, Messages
    <2> QED BY <1>1, <1>2, <1>17, <2>1 DEF ParserTypes
  <1>19. Waiting(Now + 1)'
    <2>1. Len(requests_') = Len(stream) + 1 - (Now + 1)
      BY <1>8, <1>9, <1>10, <1>17
    <2>2. ASSUME NEW i \in 1..Len(requests_')
          PROVE  requests_'[i] = stream[(Now + 1) + i - 1].request
      <3>1. i + 1 \in 1..Len(requests_) /\ Now + (i + 1) - 1 = (Now + 1) + i - 1
        BY <1>8, <1>10, <1>17
      <3> QED BY <1>9, <1>17, <3>1
    <2> QED BY <1>1, <1>3, <2>1, <2>2 DEF Waiting
  <1>20. IsBegun'
    BY <1>1, <1>3, <1>10, <1>16, <1>17, <1>19 DEF IsBegun
  <1>21. Unparsed(Start + 3 * Len(msg.headers) + 3)'
    <2>1. Len(msg'.headers) = 0 /\ Start + 3 * 0 + 3 = Start + 3
      BY <1>10, <1>16
    <2> QED BY <1>1, <1>3, <1>5, <1>14, <2>1 DEF Unparsed
  <1>22. ReadsHeaders'
    <2>1. Len(msg'.headers) = 0 /\ Len(stream[Now].headers) \in Nat
      BY <1>11, <1>16 DEF IsResponse
    <2> QED BY <1>1, <1>3, <1>7, <1>16, <1>20, <1>21, <2>1 DEF ReadsHeaders
  <1> QED BY <1>7, <1>18, <1>22 DEF IsSomewhere

\* What the next line is, while the headers are read.
LEMMA NextLine ==
  ASSUME ParserTypes, ReadsHeaders, NEW r, r = stream[Now], NEW n, n = Len(msg.headers),
         NEW c, c = Start + 3 * n + 3
  PROVE  /\ IsResponse(r, Now = Len(stream)) /\ n \in Nat /\ n <= Len(r.headers) /\ c \in Nat
         /\ ~ HaveLine => pos < c + 3
         /\ ~ HaveLine /\ n = Len(r.headers) => pos < c + 2
         /\ HaveLine /\ n < Len(r.headers) =>
              Only(Line, r.headers[n + 1]) /\ IsPart(AfterLine, TextOf(stream), c + 3, pos)
         /\ HaveLine /\ n = Len(r.headers) =>
              Line = <<>> /\ IsPart(AfterLine, TextOf(stream), c + 2, pos)
  <1> DEFINE h == Len(r.headers)
             text == TextOf(stream)
             f == Find(buffer_, CRLF)
  <1>1. /\ Now <= Len(stream) /\ n <= h /\ IsPart(buffer_, text, c, pos)
        /\ msg.headers \in Seq(Bytes) /\ pos \in Nat
    BY DEF ReadsHeaders, IsBegun, Unparsed, ParserTypes, Messages
  <1>2. n \in Nat
    BY <1>1
  <1>3. IsResponse(r, Now = Len(stream)) /\ IsWire(text, Start, r) /\ Start \in Nat
    BY <1>1, NowFacts
  <1>4. h \in Nat /\ \A j \in 1..h : IsText(r.headers[j])
    BY <1>3 DEF IsResponse
  <1>5. c \in Nat
    BY <1>2, <1>3
  <1>6. /\ \A m \in 0..(h - 1) : /\ text[Start + 3 * m + 4] = r.headers[m + 1]
                                 /\ text[Start + 3 * m + 5] = "CR" /\ text[Start + 3 * m + 6] = "LF"
        /\ text[Start + 3 * h + 4] = "CR" /\ text[Start + 3 * h + 5] = "LF"
    BY <1>3 DEF IsWire
  <1>7. f \in Nat /\ (HaveLine <=> f # 0)
    <2>1. f \in Nat
      BY <1>1, FindCrlf DEF IsPart
    <2> QED BY <2>1 DEF HaveLine
  <1>8. /\ Line = SubSeq(buffer_, 1, f - 1) /\ AfterLine = From(buffer_, f + 2)
    BY DEF Line, AfterLine
  <1>9. Start + 3 * n + 4 = c + 1 /\ Start + 3 * n + 5 = c + 2 /\ Start + 3 * n + 6 = c + 3
    BY <1>2, <1>3
  <1> HIDE DEF h, text, f
  <1>10. CASE n < h
    <2>1. /\ text[c + 1] = r.headers[n + 1] /\ text[c + 2] = "CR" /\ text[c + 3] = "LF"
          /\ IsText(text[c + 1])
      <3>1. n \in 0..(h - 1) /\ n + 1 \in 1..h
        BY <1>2, <1>4, <1>10
      <3> QED BY <1>4, <1>6, <1>9, <3>1
    <2>2. /\ f \in {0, 2} /\ (f = 0 => pos < c + 3)
          /\ f = 2 => /\ Only(SubSeq(buffer_, 1, 1), text[c + 1])
                      /\ IsPart(From(buffer_, 4), text, c + 3, pos)
      BY <1>1, <2>1, TextLine DEF f
    <2>3. f = 2 => Only(Line, r.headers[n + 1]) /\ IsPart(AfterLine, text, c + 3, pos)
      <3>1. 2 - 1 = 1 /\ 2 + 2 = 4
        OBVIOUS
      <3> QED BY <1>8, <2>1, <2>2, <3>1
    <2>4. n # h
      BY <1>2, <1>10
    <2> QED BY <1>1, <1>2, <1>3, <1>5, <1>7, <1>10, <2>2, <2>3, <2>4 DEF h, text
  <1>11. CASE ~ (n < h)
    <2>1. n = h
      BY <1>1, <1>2, <1>4, <1>11
    <2>2. text[c + 1] = "CR" /\ text[c + 2] = "LF"
      BY <1>6, <1>9, <2>1
    <2>3. /\ f \in {0, 1} /\ (f = 0 => pos < c + 2)
          /\ f = 1 => /\ SubSeq(buffer_, 1, 0) = <<>>
                      /\ IsPart(From(buffer_, 3), text, c + 2, pos)
      BY <1>1, <2>2, EmptyLine DEF f
    <2>4. f = 1 => Line = <<>> /\ IsPart(AfterLine, text, c + 2, pos)
      <3>1. 1 - 1 = 0 /\ 1 + 2 = 3
        OBVIOUS
      <3> QED BY <1>8, <2>3, <3>1
    <2>5. f = 0 => pos < c + 3
      BY <1>1, <1>5, <2>3
    <2> QED BY <1>1, <1>2, <1>3, <1>5, <1>7, <1>11, <2>1, <2>3, <2>4, <2>5 DEF h, text
  <1> QED BY <1>10, <1>11

\* add_header() takes the next line of the header, or refuses it.
LEMMA HeaderLineKeeps ==
  ASSUME ParserIInv, HeaderLine
  PROVE  ParserIInv'
  <1>1. /\ failed = "no" /\ where = "parsing_step" /\ msg.state = "HEADERS_PENDING"
        /\ HaveLine /\ Line # <<>> /\ buffer_' = AfterLine
        /\ UNCHANGED <<stream, pos, at_eof, where, chunked, requests_, complete_messages_>>
    BY DEF HeaderLine, Stepping
  <1>2. ParserTypes /\ IsSomewhere
    BY <1>1, StepStarts
  <1>3. Now' = Now /\ Start' = Start
    BY <1>1, SamePlace
  <1>4. at_eof \in BOOLEAN
    BY <1>2 DEF ParserTypes
  <1> SUFFICES ASSUME failed' = "no"
               PROVE  ParserTypes' /\ IsSomewhere' /\ ~ at_eof
    BY <1>1, <1>4, StepKeeps
  <1>5. Line[1] \notin Colonless /\ msg' = [msg EXCEPT !.headers = Append(@, Line[1])]
    BY DEF HeaderLine
  <1>6. ReadsHeaders
    BY <1>1, <1>2, ByState
  <1> DEFINE r == stream[Now]
             n == Len(msg.headers)
             c == Start + 3 * n + 3
             x == r.headers[n + 1]
  <1>7. /\ IsResponse(r, Now = Len(stream)) /\ n \in Nat /\ n < Len(r.headers) /\ c \in Nat
        /\ Only(Line, x) /\ IsPart(AfterLine, TextOf(stream), c + 3, pos)
    <2>1. /\ IsResponse(r, Now = Len(stream)) /\ n \in Nat /\ n <= Len(r.headers) /\ c \in Nat
          /\ HaveLine /\ n < Len(r.headers) =>
               Only(Line, x) /\ IsPart(AfterLine, TextOf(stream), c + 3, pos)
          /\ HaveLine /\ n = Len(r.headers) => Line = <<>>
      BY <1>2, <1>6, NextLine
    <2>2. Len(r.headers) \in Nat
      BY <2>1 DEF IsResponse
    <2> HIDE DEF r, n, c, x
    <2> QED BY <1>1, <2>1, <2>2
  <1>a. Line[1] = x
    BY <1>7 DEF Only
  <1>8. x \in Bytes /\ Line[1] = x /\ Len(r.headers) \in Nat
    <2>1. r.headers \in Seq(Bytes) /\ Len(r.headers) \in Nat
      BY <1>7 DEF IsResponse
    <2>2. n + 1 \in 1..Len(r.headers)
      BY <1>7, <2>1
    <2> HIDE DEF r, n
    <2> QED BY <1>7, <1>a, <2>1, <2>2
  <1>9. msg \in Messages /\ msg.headers \in Seq(Bytes)
    BY <1>2 DEF ParserTypes, Messages
  <1>10. /\ msg'.headers = Append(msg.headers, x) /\ msg' \in Messages
         /\ msg'.state = msg.state /\ msg'.body = msg.body
         /\ msg'.request = msg.request /\ msg'.first_line = msg.first_line
    <2> HIDE DEF r, n, c, x
    <2>1. Append(msg.headers, x) \in Seq(Bytes)
      BY <1>8, <1>9
    <2> QED BY <1>5, <1>8, <1>9, <2>1 DEF Messages
  <1>11. /\ Len(msg'.headers) = n + 1 /\ msg'.headers[n + 1] = x
         /\ \A j \in 1..n : msg'.headers[j] = msg.headers[j]
    <2> HIDE DEF r, c, x
    <2> QED BY <1>8, <1>9, <1>10
  <1>12. ParserTypes'
    BY <1>1, <1>2, <1>10 DEF ParserTypes
  <1>13. IsBegun'
    <2>1. IsBegun
      BY <1>6 DEF ReadsHeaders
    <2> QED BY <1>1, <1>3, <1>10, <2>1 DEF IsBegun, Waiting
  <1>14. \A j \in 1..(n + 1) : msg'.headers[j] = r.headers[j] /\ msg'.headers[j] \notin Colonless
    <2> SUFFICES ASSUME NEW j \in 1..(n + 1)
                 PROVE  msg'.headers[j] = r.headers[j] /\ msg'.headers[j] \notin Colonless
      OBVIOUS
    <2>1. CASE j = n + 1
      BY <1>5, <1>8, <1>11, <2>1
    <2>2. CASE j # n + 1
      <3>1. j \in 1..n
        BY <1>7, <2>2
      <3>2. msg.headers[j] = r.headers[j] /\ msg.headers[j] \notin Colonless
        BY <1>6, <3>1 DEF ReadsHeaders
      <3> QED BY <1>11, <3>1, <3>2
    <2> QED BY <2>1, <2>2
  <1>15. Unparsed(Start + 3 * Len(msg.headers) + 3)'
    <2>1. Start \in Nat
      BY <1>2, NowFacts
    <2>2. c + 3 = Start + 3 * (n + 1) + 3
      BY <1>7, <2>1
    <2>3. IsPart(buffer_', TextOf(stream), Start + 3 * Len(msg'.headers) + 3, pos)
      BY <1>1, <1>7, <1>11, <2>2
    <2> QED BY <1>1, <1>3, <2>3 DEF Unparsed
  <1>16. Len(msg'.headers) <= Len(r.headers)
    <2> HIDE DEF r, c, x
    <2> QED BY <1>7, <1>8, <1>11
  <1>17. ReadsHeaders'
    <2>1. ~ at_eof /\ msg.body = <<>>
      BY <1>6 DEF ReadsHeaders
    <2> QED BY <1>1, <1>3, <1>10, <1>11, <1>13, <1>14, <1>15, <1>16, <2>1 DEF ReadsHeaders
  <1> QED BY <1>6, <1>12, <1>17 DEF IsSomewhere, ReadsHeaders

\* How the body of a response ends, as the RFC has it, and its headers announce.
LEMMA FramingIs ==
  ASSUME NEW r, NEW last, IsDelimited(r, last), IsAnnounced(r), msg.headers = r.headers,
         msg.request = r.request, msg.first_line = r.status,
         Framing \notin {"invalid", "unsupported"}
  PROVE  \/ Framing = "empty" /\ r.body = <<>>
         \/ /\ Framing = "chunked" /\ "chunked" \in ToSet(r.headers)
            /\ IsChunked(r.body, Ending(r))
         \/ Framing = "sized" /\ Len(r.body) = 2
         \/ Framing = "until EOF" /\ last /\ r.body = <<"until EOF">>
  <1> DEFINE sent(name) == name \in ToSet(r.headers)
  <1>1. \A name : HasHeader(name) <=> sent(name)
    BY DEF HasHeader
  <1>2. IsBodiless <=> r.status \in {"100", "204", "304"} \/ r.request = "HEAD"
    BY DEF IsBodiless
  <1>3. Framing =
          IF msg.first_line \notin StatusLines THEN "invalid"
          ELSE IF IsBodiless THEN "empty"
          ELSE IF sent("chunked") THEN "chunked"
          ELSE IF sent("Content-Length") /\ ~ sent("gzip") THEN "sized"
          ELSE IF sent("multipart/byteranges") THEN "unsupported"
          ELSE "until EOF"
    BY <1>1 DEF Framing
  <1>4. IF r.status \in {"100", "204", "304"} \/ r.request = "HEAD" THEN r.body = <<>>
        ELSE IF sent("chunked")
             THEN \E ending \in TrailerEndings : IsChunked(r.body, ending)
        ELSE IF sent("Content-Length") /\ ~ sent("gzip") THEN Len(r.body) = 2
        ELSE last /\ r.body = <<"until EOF">>
    BY DEF IsDelimited
  <1>a. ASSUME NEW ending, IsChunked(r.body, ending), sent("chunked")
        PROVE  IsChunked(r.body, Ending(r))
    <2>1. PICK starts \in SUBSET {c \in 0..(Len(r.body) - 1) : r.body[c + 1] \in Digits} :
            ChunksStartAt(starts, r.body, ending)
      BY <1>a DEF IsChunked
    <2>2. 0 \in 0..(Len(r.body) - 1)
      BY <2>1 DEF ChunksStartAt
    <2>3. r.body # <<>>
      BY <2>2
    <2> QED BY <1>a, <2>3 DEF IsAnnounced
  <1>b. msg.first_line \in StatusLines
    BY <1>3
  <1> HIDE DEF sent
  <1> DEFINE empty == r.body = <<>>
             two == Len(r.body) = 2
             toEof == r.body = <<"until EOF">>
  <1> HIDE DEF empty, two, toEof
  <1>5. CASE IsBodiless
    BY <1>2, <1>3, <1>4, <1>5, <1>b
  <1>6. CASE ~ IsBodiless /\ sent("chunked")
    BY <1>2, <1>3, <1>4, <1>6, <1>a, <1>b DEF sent
  <1>7. CASE ~ IsBodiless /\ ~ sent("chunked") /\ sent("Content-Length") /\ ~ sent("gzip")
    BY <1>2, <1>3, <1>4, <1>7, <1>b
  <1>8. CASE ~ IsBodiless /\ ~ sent("chunked") /\ ~ (sent("Content-Length") /\ ~ sent("gzip"))
    BY <1>2, <1>3, <1>4, <1>8, <1>b
  <1> QED BY <1>5, <1>6, <1>7, <1>8

\* done_with_headers() chooses the way the body is delimited that was sent.
LEMMA BlankLineKeeps ==
  ASSUME ParserIInv, BlankLine, IsAnnounced(stream[Now])
  PROVE  ParserIInv'
  <1>1. /\ failed = "no" /\ where = "parsing_step" /\ msg.state = "HEADERS_PENDING"
        /\ HaveLine /\ Line = <<>> /\ buffer_' = AfterLine
        /\ UNCHANGED <<stream, pos, at_eof, where, requests_, complete_messages_>>
    BY DEF BlankLine, Stepping
  <1>2. ParserTypes /\ IsSomewhere
    BY <1>1, StepStarts
  <1>3. Now' = Now /\ Start' = Start /\ BodyStart' = BodyStart
    BY <1>1, SamePlace
  <1>4. at_eof \in BOOLEAN
    BY <1>2 DEF ParserTypes
  <1> SUFFICES ASSUME failed' = "no"
               PROVE  ParserTypes' /\ IsSomewhere' /\ ~ at_eof
    BY <1>1, <1>4, StepKeeps
  <1>5. /\ Framing \notin {"invalid", "unsupported"}
        /\ msg' = [msg EXCEPT !.state = "BODY_PENDING",
                        !.known = Framing \in {"empty", "sized"},
                        !.size = IF Framing = "sized" THEN 2 ELSE 0,
                        !.parser = IF Framing \in {"chunked", "until EOF"}
                                   THEN Framing ELSE "none"]
        /\ chunked' = NewChunked(HasHeader("Trailer"))
    BY DEF BlankLine
  <1>6. ReadsHeaders
    BY <1>1, <1>2, ByState
  <1> DEFINE r == stream[Now]
             n == Len(msg.headers)
             c == Start + 3 * n + 3
  <1>7. /\ IsResponse(r, Now = Len(stream)) /\ n \in Nat /\ n = Len(r.headers)
        /\ IsPart(AfterLine, TextOf(stream), c + 2, pos)
    <2>1. /\ IsResponse(r, Now = Len(stream)) /\ n \in Nat /\ n <= Len(r.headers)
          /\ HaveLine /\ n < Len(r.headers) => Only(Line, r.headers[n + 1])
          /\ HaveLine /\ n = Len(r.headers) =>
               Line = <<>> /\ IsPart(AfterLine, TextOf(stream), c + 2, pos)
      BY <1>2, <1>6, NextLine
    <2>2. Len(r.headers) \in Nat
      BY <2>1 DEF IsResponse
    <2>3. ~ Only(Line, r.headers[n + 1])
      BY <1>1 DEF Only
    <2> HIDE DEF r, n, c
    <2> QED BY <1>1, <2>1, <2>2, <2>3
  <1>8. msg \in Messages /\ msg.headers \in Seq(Bytes)
    BY <1>2 DEF ParserTypes, Messages
  <1>9. /\ r \in Responses /\ r.headers \in Seq(Bytes) /\ Len(r.body) \in Nat
        /\ IsRefused(r) \/ IsDelimited(r, Now = Len(stream))
    BY <1>7 DEF IsResponse
  <1>10. \A j \in 1..n : msg.headers[j] = r.headers[j] /\ msg.headers[j] \notin Colonless
    BY <1>6 DEF ReadsHeaders
  <1>11. msg.headers = r.headers
    <2> HIDE DEF r
    <2> QED BY <1>7, <1>8, <1>9, <1>10, SameSeq
  <1>12. ToSet(r.headers) \cap Colonless = {}
    <2>1. DOMAIN msg.headers = 1..n
      BY <1>8
    <2> QED BY <1>10, <1>11, <2>1 DEF ToSet
  <1>13. msg.request = r.request /\ msg.first_line = r.status /\ msg.body = <<>> /\ ~ at_eof
    BY <1>6 DEF ReadsHeaders, IsBegun
  <1>14. \/ Framing = "empty" /\ r.body = <<>>
         \/ /\ Framing = "chunked" /\ "chunked" \in ToSet(r.headers)
            /\ IsChunked(r.body, Ending(r))
         \/ Framing = "sized" /\ Len(r.body) = 2
         \/ Framing = "until EOF" /\ Now = Len(stream) /\ r.body = <<"until EOF">>
    <2>1. IsAnnounced(r)
      OBVIOUS
    <2>2. msg.first_line \in StatusLines
      BY <1>5 DEF Framing
    <2>3. IsDelimited(r, Now = Len(stream))
      BY <1>9, <1>12, <1>13, <2>2 DEF IsRefused
    <2> HIDE DEF r
    <2> QED BY <1>5, <1>11, <1>13, <2>1, <2>3, FramingIs
  <1>15. /\ msg'.state = "BODY_PENDING" /\ msg'.known = (Framing \in {"empty", "sized"})
         /\ msg'.size = (IF Framing = "sized" THEN 2 ELSE 0)
         /\ msg'.parser = (IF Framing \in {"chunked", "until EOF"} THEN Framing ELSE "none")
         /\ msg'.headers = msg.headers /\ msg'.body = <<>>
         /\ msg'.request = msg.request /\ msg'.first_line = msg.first_line
         /\ msg' \in Messages
    <2> DEFINE K == Framing \in {"empty", "sized"}
               Z == IF Framing = "sized" THEN 2 ELSE 0
               P == IF Framing \in {"chunked", "until EOF"} THEN Framing ELSE "none"
    <2>1. K \in BOOLEAN /\ Z \in Nat /\ P \in {"none", "chunked", "until EOF"}
      <3>1. K \in BOOLEAN
        OBVIOUS
      <3>2. Z \in Nat
        OBVIOUS
      <3>3. P \in {"none", "chunked", "until EOF"}
        OBVIOUS
      <3> QED BY <3>1, <3>2, <3>3
    <2>2. msg' = [msg EXCEPT !.state = "BODY_PENDING", !.known = K, !.size = Z, !.parser = P]
      BY <1>5
    <2> HIDE DEF K, Z, P
    <2>3. /\ msg'.state = "BODY_PENDING" /\ msg'.known = K /\ msg'.size = Z /\ msg'.parser = P
          /\ msg'.headers = msg.headers /\ msg'.body = msg.body
          /\ msg'.request = msg.request /\ msg'.first_line = msg.first_line
      BY <1>8, <2>2 DEF Messages
    <2>4. msg' \in Messages
      BY <1>8, <2>1, <2>2 DEF Messages
    <2> QED BY <1>13, <2>3, <2>4 DEF K, Z, P
  <1>16. chunked' \in ChunkParsers
    <2> DEFINE T == HasHeader("Trailer")
    <2>1. T \in BOOLEAN
      BY DEF HasHeader
    <2>2. <<>> \in Seq(Bytes)
      OBVIOUS
    <2>3. chunked' = NewChunked(T)
      BY <1>5
    <2> HIDE DEF T
    <2> QED BY <2>1, <2>2, <2>3 DEF NewChunked, ChunkParsers
  <1>17. ParserTypes'
    BY <1>1, <1>2, <1>15, <1>16 DEF ParserTypes
  <1>18. IsBegun'
    <2>1. IsBegun
      BY <1>6 DEF ReadsHeaders
    <2> QED BY <1>1, <1>3, <1>15, <2>1 DEF IsBegun, Waiting
  <1>19. /\ BodyStart \in Nat /\ c + 2 = BodyStart /\ BodyStart + 0 = BodyStart
    <2>1. Now <= Len(stream)
      BY <1>6 DEF ReadsHeaders, IsBegun
    <2>2. BodyStart \in Nat /\ Start \in Nat
      BY <1>2, <2>1, NowFacts
    <2>3. BodyStart = Start + 3 * n + 5
      BY <1>7 DEF BodyStart
    <2> HIDE DEF n
    <2> QED BY <1>7, <2>2, <2>3
  <1>20. ReadsBody'
    <2>1. Len(msg'.body) = 0 /\ IsPart(msg'.body, r.body, 0, 0)
      BY <1>15, NoPart
    <2>2. Unparsed(BodyStart + Len(msg.body))'
      BY <1>1, <1>3, <1>7, <1>19, <2>1 DEF Unparsed
    <2> HIDE DEF r
    <2>3. 0 <= Len(r.body)
      <3> DEFINE l == Len(r.body)
      <3>1. l \in Nat
        BY <1>9
      <3> HIDE DEF l
      <3> QED BY <3>1 DEF l
    <2>4. InBody'
      BY <1>1, <1>3, <1>11, <1>12, <1>15, <1>18, <2>1, <2>3 DEF InBody, r
    <2> QED BY <1>1, <1>13, <1>15, <2>2, <2>4 DEF ReadsBody
  <1>21. CASE Framing \in {"empty", "sized"}
    <2>1. msg'.known /\ msg'.parser = "none" /\ msg'.size = Len(r.body)
      <3>1. Framing = "empty" => Len(r.body) = 0
        BY <1>14
      <3> HIDE DEF r
      <3> QED BY <1>14, <1>15, <1>21, <3>1
    <2> QED BY <1>1, <1>3, <1>13, <1>17, <1>20, <2>1 DEF BodyIsSized, IsSomewhere
  <1>22. CASE Framing = "until EOF"
    <2>1. ~ msg'.known /\ msg'.parser = "until EOF"
      BY <1>15, <1>22
    <2>2. Now = Len(stream) /\ r.body = <<"until EOF">>
      BY <1>14, <1>22
    <2> QED BY <1>1, <1>3, <1>13, <1>17, <1>20, <2>1, <2>2 DEF BodyUntilEof, IsSomewhere
  <1>23. CASE Framing = "chunked"
    <2>1. ~ msg'.known /\ msg'.parser = "chunked" /\ Len(msg'.body) = 0
      BY <1>15, <1>23
    <2>2. "chunked" \in ToSet(r.headers) /\ IsChunked(r.body, Ending(r))
      BY <1>14, <1>23
    <2>3. /\ chunked'.buf = <<>> /\ chunked'.state = "CHUNK_HDR" /\ chunked'.acked = 0
          /\ chunked'.parsed = 0 /\ chunked'.trailers = ("Trailer" \in ToSet(r.headers))
      BY <1>5, <1>11 DEF NewChunked, HasHeader
    <2>4. BodyEnding' = Ending(r)
      BY <2>3 DEF BodyEnding, Ending
    <2>5. PICK starts \in SUBSET {i \in 0..(Len(r.body) - 1) : r.body[i + 1] \in {"0", "1", "2"}} :
            ChunksStartAt(starts, r.body, Ending(r))
      BY <2>2 DEF IsChunked, Digits
    <2>6. 0 \in starts
      BY <2>5 DEF ChunksStartAt
    <2>7. Len(msg'.body) < Len(r.body)
      <3> DEFINE l == Len(r.body)
      <3>1. l \in Nat /\ 0 \in 0..(l - 1)
        BY <1>9, <2>5, <2>6
      <3> HIDE DEF l
      <3>2. 0 < l
        BY <3>1
      <3> QED BY <2>1, <3>2 DEF l
    <2>8. AtChunk(chunked', r.body, starts)
      BY <2>3, <2>6 DEF AtChunk
    <2>9. IsPart(chunked'.buf, TextOf(stream), BodyStart + chunked'.parsed, BodyStart + Len(msg'.body))
      BY <1>19, <2>1, <2>3, NoPart
    <2> HIDE DEF r
    <2>10. chunked'.acked = Len(msg'.body)
      BY <2>1, <2>3
    <2>11. where' # "chunks" /\ where' # "idle" /\ where' \in {"idle", "parsing_step", "chunks"}
      BY <1>1
    <2>12. BodyIsChunked'
      BY <1>1, <1>3, <1>20, <2>1, <2>2, <2>4, <2>5, <2>7, <2>8, <2>9, <2>10, <2>11 DEF BodyIsChunked, r
    <2> QED BY <1>13, <1>17, <2>12 DEF IsSomewhere
  <1> QED BY <1>14, <1>21, <1>22, <1>23

\* Where the trailer is not as the headers announce, what comes next is not known;
\* the messages before it are as they were sent.
IsAstray ==
  /\ stream \in Exchanges
  /\ \E k \in Nat :
       /\ k <= Len(stream) /\ ~ AreAnnounced(k)
       /\ k <= Len(complete_messages_) + 1
       /\ \A j \in 1..(k - 1) : complete_messages_[j] = stream[j]
       /\ \E S : complete_messages_ \in Seq(S)

\* done_with_headers() of such a response, which comes after whole ones.
LEMMA BlankLineStrays ==
  ASSUME ParserIInv, BlankLine, ~ IsAnnounced(stream[Now])
  PROVE  IsAstray'
  <1>1. /\ failed = "no" /\ msg.state = "HEADERS_PENDING" /\ stream' = stream
        /\ complete_messages_' = complete_messages_
    BY DEF BlankLine, Stepping
  <1>2. ParserTypes /\ IsSomewhere /\ AreWhole
    BY <1>1, StepStarts DEF WholeBefore
  <1>3. Now <= Len(stream)
    BY <1>1, <1>2, ByState DEF ReadsHeaders, IsBegun
  <1>4. Now \in Nat /\ Now >= 1 /\ complete_messages_ \in Seq(Received)
    BY <1>2, NowFacts DEF ParserTypes
  <1>5. Now = Len(complete_messages_) + 1 /\ Now - 1 = Len(complete_messages_)
    BY <1>4 DEF Now
  <1>6. ~ AreAnnounced(Now)
    BY <1>4 DEF AreAnnounced
  <1>7. \A j \in 1..(Now - 1) : complete_messages_[j] = stream[j]
    BY <1>2, <1>5 DEF AreWhole
  <1>8. ~ AreAnnounced(Now)' /\ Now' = Now
    BY <1>1, <1>6 DEF AreAnnounced, Now
  <1> DEFINE P(k) ==
        /\ k <= Len(stream') /\ ~ (\A j \in 1..k : IsAnnounced(stream'[j]))
        /\ k <= Len(complete_messages_') + 1
        /\ \A j \in 1..(k - 1) : complete_messages_'[j] = stream'[j]
        /\ \E S : complete_messages_' \in Seq(S)
  <1>9. P(Now)
    BY <1>1, <1>3, <1>4, <1>5, <1>6, <1>7 DEF AreAnnounced
  <1>10. \E k \in Nat : P(k)
    BY <1>4, <1>9
  <1>11. stream' \in Exchanges
    BY <1>1, <1>2 DEF ParserTypes
  <1> QED BY <1>10, <1>11 DEF IsAstray, AreAnnounced

\* A message more does not change those before it.
LEMMA StaysAstray ==
  ASSUME IsAstray, [ParserNext]_parserVars
  PROVE  IsAstray'
  <1> DEFINE done == complete_messages_
  <1>1. stream' = stream /\ (done' = done \/ \E m : done' = Append(done, m))
    BY DEF ParserNext, parserVars, Parse, ParseEof, AwaitsLine, FirstLine, HeaderLine,
           BlankLine, ReadsSizedBody, ReadsUntilEof, MessageDone, ReadsChunked, ChunkHeader,
           ChunkData, ChunksAwait, ChunksEnd
  <1>2. PICK k \in Nat :
          /\ k <= Len(stream) /\ ~ AreAnnounced(k) /\ k <= Len(done) + 1
          /\ \A j \in 1..(k - 1) : done[j] = stream[j]
          /\ \E S : done \in Seq(S)
    BY DEF IsAstray
  <1>3. PICK S : done \in Seq(S)
    BY <1>2
  <1>4. /\ k <= Len(done') + 1 /\ \A j \in 1..(k - 1) : done'[j] = stream[j]
        /\ \E T : done' \in Seq(T)
    <2>1. CASE done' = done
      BY <1>2, <2>1
    <2>2. ASSUME NEW m, done' = Append(done, m)
          PROVE  /\ k <= Len(done') + 1 /\ \A j \in 1..(k - 1) : done'[j] = stream[j]
                 /\ \E T : done' \in Seq(T)
      <3>1. done \in Seq(S \cup {m}) /\ m \in S \cup {m}
        BY <1>3, SeqGrows
      <3>2. done' \in Seq(S \cup {m}) /\ Len(done') = Len(done) + 1
            /\ \A j \in 1..Len(done) : done'[j] = done[j]
        BY <2>2, <3>1
      <3>3. Len(done) \in Nat /\ \A j \in 1..(k - 1) : j \in 1..Len(done)
        BY <1>2, <1>3
      <3>4. \E T : done' \in Seq(T)
        BY <3>2
      <3> QED BY <1>2, <3>2, <3>3, <3>4
    <2> QED BY <1>1, <2>1, <2>2
  <1> DEFINE P(i) ==
        /\ i <= Len(stream') /\ ~ (\A j \in 1..i : IsAnnounced(stream'[j]))
        /\ i <= Len(done') + 1 /\ \A j \in 1..(i - 1) : done'[j] = stream'[j]
        /\ \E T : done' \in Seq(T)
  <1>5. P(k)
    BY <1>1, <1>2, <1>4 DEF AreAnnounced
  <1>6. \E i \in Nat : P(i)
    BY <1>5
  <1>7. stream' \in Exchanges
    BY <1>1 DEF IsAstray
  <1> QED BY <1>6, <1>7 DEF IsAstray, AreAnnounced

(***************************************************************************)
(* The steps that read, and those in a body.                               *)
(***************************************************************************)
\* A part of all of it.
LEMMA SeqWhole ==
  ASSUME NEW X, NEW s \in Seq(X)
  PROVE  SubSeq(s, 1, Len(s)) = s /\ Len(s) \in Nat
  OBVIOUS

\* parse() appends what was read, which is what comes next in the stream.
LEMMA ParseKeeps ==
  ASSUME ParserIInv, NEW n \in 1..MaxRead, Parse(n)
  PROVE  ParserIInv'
  <1>1. /\ failed = "no" /\ where = "idle" /\ ~ at_eof /\ where' = "parsing_step"
        /\ pos + n <= Len(StreamBytes) /\ pos' = pos + n
        /\ buffer_' = buffer_ \o SubSeq(StreamBytes, pos + 1, pos + n)
        /\ UNCHANGED <<stream, at_eof, msg, chunked, requests_, complete_messages_, failed>>
    BY DEF Parse
  <1>2. ParserTypes /\ IsSomewhere
    BY <1>1, StepStarts
  <1>3. Now' = Now /\ Start' = Start /\ BodyStart' = BodyStart /\ BodyEnding' = BodyEnding
    BY <1>1, SamePlace DEF BodyEnding
  <1>4. StreamBytes = TextOf(stream)
    BY DEF StreamBytes, TextOf
  <1>5. n \in Nat /\ pos \in Nat /\ TextOf(stream) \in Seq(Bytes)
    <2>1. MaxRead \in Nat
      BY ParserAssumption
    <2> QED BY <1>2, <2>1, StreamFacts DEF ParserTypes
  <1>6. ParserTypes'
    BY <1>1, <1>2, <1>4, <1>5 DEF ParserTypes
  <1>7. ASSUME NEW c, IsPart(buffer_, TextOf(stream), c, pos)
        PROVE  IsPart(buffer_', TextOf(stream), c, pos')
    BY <1>1, <1>4, <1>5, <1>7, PartGrows
  <1>8. AwaitsFirstLine => AwaitsFirstLine'
    BY <1>1, <1>3, <1>7 DEF AwaitsFirstLine, Waiting, Unparsed
  <1>9. ReadsHeaders => ReadsHeaders'
    BY <1>1, <1>3, <1>7 DEF ReadsHeaders, IsBegun, Waiting, Unparsed
  <1>10. ReadsBody => ReadsBody'
    BY <1>1, <1>3, <1>7 DEF ReadsBody, InBody, IsBegun, Waiting, Unparsed
  <1>11. BodyIsSized => BodyIsSized'
    BY <1>1, <1>3, <1>10 DEF BodyIsSized
  <1>12. BodyUntilEof => BodyUntilEof'
    BY <1>1, <1>3, <1>10 DEF BodyUntilEof
  <1>13. BodyIsChunked => BodyIsChunked'
    <2> DEFINE b == stream[Now].body
               Places == SUBSET {c \in 0..(Len(b) - 1) : b[c + 1] \in {"0", "1", "2"}}
               At(starts) == ChunksStartAt(starts, b, Ending(stream[Now])) /\ AtChunk(chunked, b, starts)
    <2> SUFFICES ASSUME BodyIsChunked
                 PROVE  BodyIsChunked'
      OBVIOUS
    <2>1. /\ ReadsBody /\ ~ msg.known /\ msg.parser = "chunked"
          /\ "chunked" \in ToSet(stream[Now].headers) /\ BodyEnding = Ending(stream[Now])
          /\ Len(msg.body) < Len(b) /\ chunked.acked = Len(msg.body)
          /\ \E starts \in Places : At(starts)
          /\ IsPart(chunked.buf, TextOf(stream), BodyStart + chunked.parsed, BodyStart + Len(msg.body))
      BY <1>1 DEF BodyIsChunked
    <2>2. (\E starts \in Places : At(starts))'
      BY <1>1, <1>3, <2>1
    <2> QED BY <1>1, <1>3, <1>10, <2>1, <2>2 DEF BodyIsChunked
  <1>14. ~ IsComplete /\ ~ IsOver
    BY <1>1 DEF IsComplete, IsOver
  <1>15. IsSomewhere'
    BY <1>2, <1>8, <1>9, <1>11, <1>12, <1>13, <1>14 DEF IsSomewhere
  <1> QED BY <1>1, <1>6, <1>15, StepKeeps

\* eof() ends a body that EOF may end, and fails otherwise.
LEMMA ParseEofKeeps ==
  ASSUME ParserIInv, ParseEof
  PROVE  ParserIInv'
  <1>1. /\ failed = "no" /\ where = "idle" /\ ~ at_eof /\ at_eof' /\ where' = "parsing_step"
        /\ UNCHANGED <<stream, pos, buffer_, chunked, requests_, complete_messages_>>
    BY DEF ParseEof
  <1>2. ParserTypes /\ IsSomewhere
    BY <1>1, StepStarts
  <1>3. Now' = Now /\ Start' = Start /\ BodyStart' = BodyStart
    BY <1>1, SamePlace
  <1> SUFFICES ASSUME failed' = "no"
               PROVE  ParserTypes' /\ IsSomewhere' /\ ~ at_eof
    BY <1>1, StepKeeps
  <1>4. at_eof' = TRUE
    BY DEF ParseEof
  <1>5. msg \in Messages
    BY <1>2 DEF ParserTypes
  <1>6. \/ msg.state = "FIRST_LINE_PENDING" /\ msg' = msg
        \/ /\ msg.state = "BODY_PENDING" /\ msg.parser # "none"
           /\ msg' = [msg EXCEPT !.state = "COMPLETE"]
    BY <1>5 DEF ParseEof, Messages
  <1>7. CASE msg.state = "FIRST_LINE_PENDING" /\ msg' = msg
    <2>1. AwaitsFirstLine
      BY <1>1, <1>2, <1>7, ByState DEF IsOver
    <2>2. HaveLine' = HaveLine
      BY <1>1 DEF HaveLine
    <2>3. AwaitsFirstLine'
      BY <1>1, <1>3, <1>7, <2>1, <2>2 DEF AwaitsFirstLine, Waiting, Unparsed
    <2>4. ParserTypes'
      BY <1>1, <1>2, <1>4, <1>7 DEF ParserTypes
    <2> QED BY <1>1, <2>3, <2>4 DEF IsSomewhere
  <1>8. CASE /\ msg.state = "BODY_PENDING" /\ msg.parser # "none"
             /\ msg' = [msg EXCEPT !.state = "COMPLETE"]
    <2>1. /\ msg' \in Messages /\ msg'.state = "COMPLETE" /\ msg'.headers = msg.headers
          /\ msg'.body = msg.body /\ msg'.request = msg.request /\ msg'.first_line = msg.first_line
      BY <1>5, <1>8 DEF Messages
    <2>2. ParserTypes'
      BY <1>1, <1>2, <1>4, <2>1 DEF ParserTypes
    <2>3. BodyUntilEof \/ BodyIsChunked
      BY <1>2, <1>8, ByState DEF BodyIsSized
    <2>4. buffer_ = <<>> /\ ReadsBody
      BY <1>1, <2>3 DEF BodyUntilEof, BodyIsChunked
    <2>5. EndsAtEof(stream[Now])
      BY <2>3 DEF EndsAtEof, BodyUntilEof, BodyIsChunked
    <2>6. InBody'
      BY <1>1, <1>3, <2>1, <2>4 DEF ReadsBody, InBody, IsBegun, Waiting
    <2>7. pos <= EndOf(stream, Now)
      <3> DEFINE l == Len(msg.body)
                 m == Len(stream[Now].body)
      <3>1. /\ Now <= Len(stream) /\ l <= m
            /\ IsPart(buffer_, TextOf(stream), BodyStart + l, pos)
        BY <2>4 DEF ReadsBody, InBody, IsBegun, Unparsed
      <3>2. BodyStart \in Nat /\ EndOf(stream, Now) = BodyStart + m
            /\ IsResponse(stream[Now], Now = Len(stream))
        BY <1>2, <3>1, NowFacts
      <3>3. l \in Nat /\ m \in Nat
        <4>1. msg.body \in Seq(Bytes)
          BY <1>5 DEF Messages
        <4>2. m \in Nat
          BY <3>2 DEF IsResponse
        <4> QED BY <4>1, <4>2, SeqWhole
      <3>4. pos \in Nat /\ 0 = pos - (BodyStart + l)
        <4>1. Len(buffer_) = 0
          BY <2>4
        <4> QED BY <3>1, <4>1 DEF IsPart
      <3> HIDE DEF l, m
      <3> QED BY <3>1, <3>2, <3>3, <3>4
    <2>8. IsComplete'
      BY <1>1, <1>3, <2>1, <2>4, <2>5, <2>6, <2>7 DEF IsComplete
    <2> QED BY <1>1, <2>2, <2>8 DEF IsSomewhere
  <1> QED BY <1>6, <1>7, <1>8

\* The body with the next d bytes of the buffer.
NextBody(d) == msg.body \o SubSeq(buffer_, 1, d)

\* What is known when the next d bytes of the buffer belong to the body.
BodyGrown(r, l, d, u) ==
  /\ l \in Nat /\ Len(r.body) \in Nat /\ Len(buffer_) \in Nat /\ BodyStart \in Nat
  /\ pos = BodyStart + l + Len(buffer_)
  /\ EndOf(stream, Now) = BodyStart + Len(r.body)
  /\ u \in Seq(Bytes) /\ Len(u) = l + d /\ IsPart(u, r.body, 0, l + d)
  /\ IsPart(From(buffer_, d + 1), TextOf(stream), BodyStart + (l + d), pos)
  /\ l + d = Len(r.body) => u = r.body

\* The bytes that are moved from the buffer to the body are the next of the body, as
\* long as there are no more of them than belong to it.
LEMMA BodyGrows ==
  ASSUME ParserTypes, ReadsBody,
         NEW d \in Nat, d <= Len(buffer_), Len(msg.body) + d <= Len(stream[Now].body)
  PROVE  BodyGrown(stream[Now], Len(msg.body), d, NextBody(d))
  <1> DEFINE r == stream[Now]
             l == Len(msg.body)
             u == NextBody(d)
  <1>0. l + d <= Len(r.body) /\ u = msg.body \o SubSeq(buffer_, 1, d)
    BY DEF NextBody
  <1>b. r = stream[Now] /\ l = Len(msg.body)
    OBVIOUS
  <1> HIDE DEF r, l, u
  <1> SUFFICES BodyGrown(r, l, d, u)
    BY DEF r, l, u
  <1> DEFINE m == Len(r.body)
             text == TextOf(stream)
  <1>1. /\ Now <= Len(stream) /\ IsPart(buffer_, text, BodyStart + l, pos)
        /\ IsPart(msg.body, r.body, 0, l)
    BY DEF ReadsBody, InBody, IsBegun, Unparsed, r, l
  <1>2. /\ IsResponse(r, Now = Len(stream)) /\ BodyStart \in Nat
        /\ IsWire(text, Start, r) /\ Start \in Nat /\ EndOf(stream, Now) = BodyStart + m
    BY <1>1, NowFacts DEF r
  <1>3. l \in Nat /\ m \in Nat /\ r.body \in Seq(Bytes)
    <2>1. msg.body \in Seq(Bytes)
      BY DEF ParserTypes, Messages
    <2>2. r.body \in Seq(Bytes) /\ m \in Nat
      BY <1>2 DEF IsResponse
    <2> QED BY <2>1, <2>2, SeqWhole DEF l
  <1>4. \A i \in 1..m : text[BodyStart + i] = r.body[i]
    <2>1. Len(r.headers) \in Nat
      BY <1>2 DEF IsResponse
    <2> DEFINE h == Len(r.headers)
    <2>2. BodyStart = Start + 3 * h + 5
      BY DEF BodyStart, r
    <2>3. \A i \in 1..m : text[Start + 3 * h + 5 + i] = r.body[i]
      BY <1>2 DEF IsWire
    <2> HIDE DEF h, m, text
    <2> QED BY <2>2, <2>3
  <1>5. Len(buffer_) \in Nat /\ pos \in Nat /\ pos = BodyStart + l + Len(buffer_)
    <2> DEFINE k == Len(buffer_)
    <2>1. k = pos - (BodyStart + l) /\ pos \in Nat /\ BodyStart + l <= pos
      BY <1>1 DEF IsPart
    <2> HIDE DEF k
    <2>2. k \in Nat /\ pos = BodyStart + l + k
      BY <1>2, <1>3, <2>1
    <2> QED BY <2>1, <2>2 DEF k
  <1>6. (BodyStart + l) + d <= pos /\ BodyStart + (l + d) = (BodyStart + l) + d
    BY <1>2, <1>3, <1>5
  <1> HIDE DEF m, text
  <1>7. IsPart(From(buffer_, d + 1), text, BodyStart + (l + d), pos)
    BY <1>1, <1>6, PartMoves
  <1>8. IsPart(SubSeq(buffer_, 1, d), text, BodyStart + l, BodyStart + (l + d))
    BY <1>1, <1>6, PartStarts
  <1>9. IsPart(SubSeq(buffer_, 1, d), r.body, l, l + d)
    <2> DEFINE p == l + d
    <2>1. p \in Nat /\ p <= m /\ m \in Nat
      BY <1>0, <1>3 DEF m
    <2>2. IsPart(SubSeq(buffer_, 1, d), text, BodyStart + l, BodyStart + p)
      BY <1>8
    <2> HIDE DEF p
    <2>3. IsPart(SubSeq(buffer_, 1, d), r.body, l, p)
      <3> DEFINE t == SubSeq(buffer_, 1, d)
      <3>1. IsPart(t, text, BodyStart + l, BodyStart + p)
        BY <2>2
      <3>2. IsAt(text, BodyStart, r.body) /\ p <= Len(r.body) /\ Len(r.body) \in Nat
        BY <1>4, <2>1 DEF IsAt, m
      <3> HIDE DEF t
      <3>3. IsPart(t, r.body, l, p)
        BY <1>2, <1>3, <2>1, <3>1, <3>2, PartOfBody, Zenon
      <3> QED BY <3>3 DEF t
    <2> QED BY <2>3 DEF p
  <1>10. IsPart(u, r.body, 0, l + d)
    BY <1>0, <1>1, <1>9, PartsJoin
  <1>11. u \in Seq(Bytes) /\ Len(u) = l + d
    <2>1. (l + d) - 0 = l + d
      BY <1>3
    <2> QED BY <1>10, <2>1 DEF IsPart
  <1>12. ASSUME l + d = m
         PROVE  u = r.body
    <2> DEFINE p == l + d
    <2>1. \A i \in 1..(p - 0) : u[i] = r.body[0 + i]
      BY <1>10 DEF IsPart
    <2>4. p \in Nat
      BY <1>3
    <2>5. Len(u) = p
      BY <1>11, Zenon
    <2> HIDE DEF p
    <2>6. \A i \in 1..p : i \in 1..(p - 0) /\ 0 + i = i
      BY <2>4
    <2>2. \A i \in 1..Len(u) : i \in 1..(p - 0) /\ 0 + i = i
      BY <2>5, <2>6, Zenon
    <2>3. \A i \in 1..Len(u) : u[i] = r.body[i]
      BY <2>1, <2>2
    <2> QED BY <1>3, <1>11, <1>12, <2>3, SameSeq DEF m
  <1> QED BY <1>2, <1>3, <1>5, <1>7, <1>10, <1>11, <1>12 DEF m, text, BodyGrown

\* The part of the invariant about the body, after more of it was read.
LEMMA StillInBody ==
  ASSUME ParserTypes, ReadsBody, NEW r, r = stream[Now],
         UNCHANGED <<stream, complete_messages_, requests_>>,
         msg'.request = msg.request, msg'.first_line = msg.first_line,
         msg'.headers = msg.headers, Len(msg'.body) <= Len(r.body),
         IsPart(msg'.body, r.body, 0, Len(msg'.body))
  PROVE  InBody'
  <1>1. Now' = Now
    BY SamePlace
  <1> QED BY <1>1 DEF ReadsBody, InBody, IsBegun, Waiting

\* read_in_body() of a known size takes what belongs to the body, and no more.
LEMMA ReadsSizedBodyKeeps ==
  ASSUME ParserIInv, ReadsSizedBody
  PROVE  ParserIInv'
  <1> DEFINE r == stream[Now]
             l == Len(msg.body)
             b == Len(buffer_)
             left == msg.size - l
             d == IF left < b THEN left ELSE b
             u == msg.body \o SubSeq(buffer_, 1, d)
  <1>1. /\ failed = "no" /\ where = "parsing_step" /\ msg.state = "BODY_PENDING" /\ msg.known
        /\ msg' = [msg EXCEPT !.body = u, !.state = IF d = left THEN "COMPLETE" ELSE @]
        /\ buffer_' = From(buffer_, d + 1)
        /\ where' = IF d = left THEN where ELSE "idle"
        /\ UNCHANGED <<stream, pos, at_eof, chunked, requests_, complete_messages_, failed>>
    BY DEF ReadsSizedBody, Stepping
  <1>2. ParserTypes /\ IsSomewhere
    BY <1>1, StepStarts
  <1>3. Now' = Now /\ BodyStart' = BodyStart
    BY <1>1, SamePlace
  <1>4. BodyIsSized
    BY <1>1, <1>2, ByState DEF BodyUntilEof, BodyIsChunked
  <1>5. /\ ReadsBody /\ ~ at_eof /\ msg.parser = "none" /\ msg.size = Len(r.body)
        /\ l <= Len(r.body)
    BY <1>4 DEF BodyIsSized, ReadsBody, InBody
  <1>6. l \in Nat /\ b \in Nat /\ msg.size \in Nat
    <2>1. msg.body \in Seq(Bytes) /\ buffer_ \in Seq(Bytes) /\ msg.size \in Nat
      BY <1>2, <1>5 DEF ParserTypes, Messages, ReadsBody, Unparsed, IsPart
    <2> QED BY <2>1
  <1>7. /\ left \in Nat /\ d \in Nat /\ d <= b /\ l + d <= Len(r.body)
        /\ d = left => l + d = Len(r.body)
        /\ d # left => l + d < Len(r.body) /\ d = b
    <2> DEFINE m == Len(r.body)
    <2>1. l <= m /\ left = m - l
      BY <1>5
    <2>2. m \in Nat
      BY <1>5, <1>6
    <2> HIDE DEF l, b, m, left
    <2>3. left \in Nat /\ (d = left \/ d = b) /\ d <= left /\ d <= b /\ d \in Nat
      BY <1>6, <2>1, <2>2
    <2>4. d = left => l + d = m
      BY <1>6, <2>1, <2>2, <2>3
    <2>5. d # left => l + d < m /\ d = b
      BY <1>6, <2>1, <2>2, <2>3
    <2>6. l + d <= m
      BY <1>6, <2>1, <2>2, <2>3
    <2> HIDE DEF d
    <2> QED BY <2>3, <2>4, <2>5, <2>6 DEF m
  <1>a. /\ r = stream[Now] /\ l = Len(msg.body) /\ u = msg.body \o SubSeq(buffer_, 1, d)
        /\ d <= Len(buffer_)
    BY <1>7
  <1> HIDE DEF r, d, u, left, l
  <1>8. /\ BodyStart \in Nat /\ pos = BodyStart + l + b
        /\ EndOf(stream, Now) = BodyStart + Len(r.body)
        /\ u \in Seq(Bytes) /\ Len(u) = l + d /\ IsPart(u, r.body, 0, l + d)
        /\ IsPart(buffer_', TextOf(stream), BodyStart + (l + d), pos)
        /\ l + d = Len(r.body) => u = r.body
    <2>1. BodyGrown(stream[Now], Len(msg.body), d, NextBody(d))
      BY <1>2, <1>5, <1>7, <1>a, BodyGrows
    <2>2. BodyGrown(r, l, d, u)
      BY <1>a, <2>1 DEF NextBody
    <2> QED BY <1>1, <2>2 DEF BodyGrown
  <1>9. /\ msg'.body = u /\ msg'.state = (IF d = left THEN "COMPLETE" ELSE "BODY_PENDING")
        /\ msg'.headers = msg.headers /\ msg'.request = msg.request
        /\ msg'.first_line = msg.first_line /\ msg'.known = msg.known
        /\ msg'.parser = msg.parser /\ msg'.size = msg.size /\ msg' \in Messages
    <2>1. msg \in Messages
      BY <1>2 DEF ParserTypes
    <2> QED BY <1>1, <1>8, <2>1 DEF Messages
  <1>10. ParserTypes'
    BY <1>1, <1>2, <1>9 DEF ParserTypes
  <1>11. InBody'
    BY <1>1, <1>2, <1>5, <1>7, <1>8, <1>9, StillInBody DEF r
  <1>12. CASE d = left
    <2>1. Unparsed(EndOf(stream, Now))'
      <3>1. l + d = Len(r.body)
        BY <1>7, <1>12
      <3> QED BY <1>1, <1>3, <1>8, <3>1 DEF Unparsed
    <2>2. IsComplete'
      BY <1>1, <1>3, <1>5, <1>7, <1>8, <1>9, <1>11, <1>12, <2>1 DEF IsComplete, r
    <2> QED BY <1>1, <1>5, <1>10, <2>2, StepKeeps DEF IsSomewhere
  <1>13. CASE d # left
    <2>1. ReadsBody'
      <3>1. Unparsed(BodyStart + Len(msg.body))'
        BY <1>1, <1>3, <1>8, <1>9 DEF Unparsed
      <3> QED BY <1>1, <1>5, <1>9, <1>11, <1>13, <3>1 DEF ReadsBody
    <2>2. buffer_' = <<>>
      <3>1. BodyStart + (l + d) = pos
        BY <1>6, <1>7, <1>8, <1>13, SMTT(30) DEF l
      <3> QED BY <1>8, <3>1, NoLine
    <2>3. BodyIsSized'
      BY <1>1, <1>3, <1>4, <1>5, <1>7, <1>8, <1>9, <1>13, <2>1, <2>2 DEF BodyIsSized, r
    <2> QED BY <1>1, <1>5, <1>10, <2>3, StepKeeps DEF IsSomewhere
  <1> QED BY <1>12, <1>13

\* Under rule 5 all the rest of the stream belongs to the body.
LEMMA ReadsUntilEofKeeps ==
  ASSUME ParserIInv, ReadsUntilEof
  PROVE  ParserIInv'
  <1> DEFINE r == stream[Now]
             l == Len(msg.body)
             b == Len(buffer_)
             u == msg.body \o SubSeq(buffer_, 1, b)
  <1>1. /\ failed = "no" /\ where = "parsing_step" /\ msg.state = "BODY_PENDING"
        /\ msg.parser = "until EOF" /\ msg' = [msg EXCEPT !.body = msg.body \o buffer_]
        /\ buffer_' = <<>> /\ where' = "idle"
        /\ UNCHANGED <<stream, pos, at_eof, chunked, requests_, complete_messages_, failed>>
    BY DEF ReadsUntilEof, Stepping
  <1>2. ParserTypes /\ IsSomewhere
    BY <1>1, StepStarts
  <1>3. Now' = Now /\ BodyStart' = BodyStart
    BY <1>1, SamePlace
  <1>4. BodyUntilEof
    BY <1>1, <1>2, ByState DEF BodyIsSized, BodyIsChunked
  <1>5. /\ ReadsBody /\ ~ at_eof /\ ~ msg.known /\ Now = Len(stream)
        /\ IsPart(buffer_, TextOf(stream), BodyStart + l, pos)
    BY <1>4 DEF BodyUntilEof, ReadsBody, InBody, Unparsed
  <1>6. /\ buffer_ \in Seq(Bytes) /\ b \in Nat /\ SubSeq(buffer_, 1, b) = buffer_
    <2>1. buffer_ \in Seq(Bytes)
      BY <1>5 DEF IsPart
    <2> QED BY <2>1, SeqWhole
  <1>7. l + b <= Len(r.body)
    <2> DEFINE m == Len(r.body)
    <2>1. BodyStart \in Nat /\ IsResponse(r, Now = Len(stream)) /\ EndOf(stream, Now) = BodyStart + m
      <3>1. Now <= Len(stream)
        BY <1>5 DEF ReadsBody, InBody, IsBegun
      <3> QED BY <1>2, <3>1, NowFacts
    <2>2. EndOf(stream, Now) = Len(TextOf(stream))
      BY <1>2, <1>5, StreamFacts DEF ParserTypes
    <2>3. pos \in Nat /\ pos <= Len(TextOf(stream))
      BY <1>2 DEF ParserTypes
    <2>4. b = pos - (BodyStart + l)
      BY <1>5 DEF IsPart
    <2>5. l \in Nat /\ m \in Nat
      <3>1. msg.body \in Seq(Bytes)
        BY <1>2 DEF ParserTypes, Messages
      <3>2. m \in Nat
        BY <2>1 DEF IsResponse
      <3> QED BY <3>1, <3>2, SeqWhole
    <2> HIDE DEF l, b, m
    <2> QED BY <1>6, <2>1, <2>2, <2>3, <2>4, <2>5 DEF m
  <1>a. /\ r = stream[Now] /\ l = Len(msg.body) /\ u = msg.body \o SubSeq(buffer_, 1, b)
        /\ b <= Len(buffer_)
    BY <1>6
  <1> HIDE DEF r, u, l
  <1>8. /\ u \in Seq(Bytes) /\ Len(u) = l + b /\ IsPart(u, r.body, 0, l + b)
        /\ BodyStart \in Nat /\ l \in Nat /\ pos = BodyStart + l + b
    <2>1. BodyGrown(stream[Now], Len(msg.body), b, NextBody(b))
      BY <1>2, <1>5, <1>6, <1>7, <1>a, BodyGrows
    <2>2. BodyGrown(r, l, b, u)
      BY <1>a, <2>1 DEF NextBody
    <2> QED BY <2>2 DEF BodyGrown
  <1>9. /\ msg'.body = u /\ msg'.state = "BODY_PENDING"
        /\ msg'.headers = msg.headers /\ msg'.request = msg.request
        /\ msg'.first_line = msg.first_line /\ msg'.known = msg.known
        /\ msg'.parser = msg.parser /\ msg' \in Messages
    <2>1. msg \in Messages
      BY <1>2 DEF ParserTypes
    <2>2. msg' = [msg EXCEPT !.body = u]
      BY <1>1, <1>6 DEF u
    <2> QED BY <1>1, <1>8, <2>1, <2>2 DEF Messages
  <1>10. ParserTypes'
    BY <1>1, <1>2, <1>9 DEF ParserTypes
  <1>11. InBody'
    BY <1>1, <1>2, <1>5, <1>7, <1>8, <1>9, StillInBody DEF r
  <1>12. IsPart(<<>>, TextOf(stream), BodyStart + Len(u), pos)
    <2>1. pos \in Nat
      BY <1>2 DEF ParserTypes
    <2>2. BodyStart + Len(u) = pos
      BY <1>6, <1>8
    <2> QED BY <2>1, <2>2, NoPart
  <1>13. ReadsBody'
    BY <1>1, <1>3, <1>5, <1>9, <1>11, <1>12 DEF ReadsBody, Unparsed
  <1>14. BodyUntilEof'
    BY <1>1, <1>3, <1>4, <1>9, <1>13 DEF BodyUntilEof
  <1> QED BY <1>1, <1>5, <1>10, <1>14, StepKeeps DEF IsSomewhere

\* What was collected is the response that was sent, with its request.
LEMMA MessageDoneKeeps ==
  ASSUME ParserIInv, MessageDone
  PROVE  ParserIInv'
  <1> DEFINE r == stream[Now]
             m == [request |-> msg.request, status |-> msg.first_line,
                   headers |-> msg.headers, body |-> msg.body]
             done == complete_messages_
             l == Len(msg.body)
  <1>1. /\ failed = "no" /\ where = "parsing_step" /\ msg.state = "COMPLETE"
        /\ done' = Append(done, m) /\ msg' = NewMessage
        /\ UNCHANGED <<stream, pos, at_eof, where, buffer_, chunked, requests_, failed>>
    BY DEF MessageDone, Stepping
  <1>2. ParserTypes /\ IsSomewhere /\ AreWhole
    BY <1>1, StepStarts DEF WholeBefore
  <1>3. IsComplete
    BY <1>1, <1>2, ByState
  <1>4. /\ Now <= Len(stream) /\ Waiting(Now + 1)
        /\ msg.request = r.request /\ msg.first_line = r.status /\ msg.headers = r.headers
        /\ l <= Len(r.body) /\ IsPart(msg.body, r.body, 0, l)
    BY <1>3 DEF IsComplete, InBody, IsBegun
  <1>5. /\ Now \in 1..Len(stream) /\ Len(stream) \in Nat /\ IsResponse(r, Now = Len(stream))
    BY <1>2, <1>4, NowFacts
  <1>6. r \in Responses /\ r.body \in Seq(Bytes) /\ Len(r.body) \in Nat
    BY <1>5 DEF IsResponse
  <1>7. done \in Seq(Received) /\ msg \in Messages /\ msg.body \in Seq(Bytes) /\ l \in Nat
    <2>1. done \in Seq(Received) /\ msg \in Messages /\ msg.body \in Seq(Bytes)
      BY <1>2 DEF ParserTypes, Messages
    <2> QED BY <2>1, SeqWhole
  <1>8. m \in Received /\ NewMessage \in Messages
    <2>1. m \in Received
      BY <1>7 DEF Messages, Received
    <2>2. "none" \in Bytes /\ <<>> \in Seq(Bytes)
      BY DEF Bytes
    <2>3. NewMessage \in Messages
      BY <2>2 DEF NewMessage, Messages
    <2> QED BY <2>1, <2>3
  <1>9. /\ m.request = r.request /\ m.status = r.status /\ m.headers = r.headers /\ m.body = msg.body
    BY <1>4
  <1> HIDE DEF m, r
  <1>10. /\ done' \in Seq(Received) /\ Len(done') = Now /\ done'[Now] = m
         /\ \A k \in 1..(Now - 1) : done'[k] = done[k] /\ k \in 1..Len(done) /\ Len(done) = Now - 1
         /\ DOMAIN done' = 1..Now
    BY <1>1, <1>7, <1>8 DEF Now
  <1>11. \A k \in 1..(Now - 1) : done'[k] = stream[k]
    <2>1. Len(done) = Now - 1
      BY <1>7 DEF Now
    <2> QED BY <1>2, <1>10, <2>1 DEF AreWhole
  <1>12. Now' = Now + 1 /\ Start' = EndOf(stream, Now)
    <2>1. Len(done') = Now
      BY <1>10
    <2> QED BY <1>1, <2>1 DEF Now, Start
  <1>13. ParserTypes'
    BY <1>1, <1>2, <1>4, <1>8, <1>10 DEF ParserTypes
  <1>14. m.body = r.body => m = r
    <2> SUFFICES ASSUME m.body = r.body
                 PROVE  m = r
      OBVIOUS
    <2>1. r = [request |-> r.request, status |-> r.status, headers |-> r.headers, body |-> r.body]
      BY <1>6 DEF Responses
    <2>2. m = [request |-> m.request, status |-> m.status, headers |-> m.headers, body |-> m.body]
      BY DEF m
    <2> QED BY <1>9, <2>1, <2>2
  <1>15. CASE msg.body = r.body /\ Unparsed(EndOf(stream, Now)) /\ ~ at_eof
    <2>1. done'[Now] = stream[Now]
      BY <1>9, <1>10, <1>14, <1>15 DEF r
    <2>2. \A k \in 1..Now : done'[k] = stream[k]
      <3>1. \A k \in 1..Now : k \in 1..(Now - 1) \/ k = Now
        BY <1>5
      <3> QED BY <1>11, <2>1, <3>1
    <2>3. MessagesAreThoseSent'
      BY <1>1, <1>10, <2>2 DEF MessagesAreThoseSent
    <2>4. AreWhole'
      BY <1>1, <1>10, <2>2 DEF AreWhole
    <2>5. Unparsed(Start)'
      BY <1>1, <1>12, <1>15 DEF Unparsed
    <2>6. Waiting(Now)'
      BY <1>1, <1>4, <1>12 DEF Waiting
    <2>7. AwaitsFirstLine'
      BY <1>1, <1>15, <2>5, <2>6 DEF AwaitsFirstLine
    <2> QED BY <1>13, <2>3, <2>4, <2>7 DEF ParserIInv, WholeBefore, IsSomewhere
  <1>16. CASE at_eof /\ EndsAtEof(r) /\ buffer_ = <<>> /\ pos <= EndOf(stream, Now)
    <2>1. [m EXCEPT !.body = <<>>] = [r EXCEPT !.body = <<>>]
      <3>1. r = [request |-> r.request, status |-> r.status, headers |-> r.headers, body |-> r.body]
        BY <1>6 DEF Responses
      <3>2. m = [request |-> m.request, status |-> m.status, headers |-> m.headers, body |-> m.body]
        BY DEF m
      <3>3. [r EXCEPT !.body = <<>>] = [request |-> r.request, status |-> r.status, headers |-> r.headers, body |-> <<>>]
        BY <3>1
      <3>4. [m EXCEPT !.body = <<>>] = [request |-> m.request, status |-> m.status, headers |-> m.headers, body |-> <<>>]
        BY <3>2
      <3> QED BY <1>9, <3>3, <3>4
    <2>2. IsPrefix(m.body, r.body)
      <3> DEFINE s == msg.body
                 t == SubSeq(r.body, 1, l)
      <3>1. IsPart(t, r.body, 0, 0 + l)
        <4>1. IsPart(r.body, r.body, 0, Len(r.body))
          <5> DEFINE w == r.body
                     b == Len(r.body)
          <5>1. w \in Seq(Bytes) /\ b \in Nat /\ Len(w) = b /\ b - 0 = b /\ 0 <= b
            BY <1>6
          <5> HIDE DEF w, b
          <5>2. \A i \in 1..(b - 0) : w[i] = w[0 + i]
            BY <5>1
          <5>3. IsPart(w, w, 0, b)
            BY <5>1, <5>2 DEF IsPart
          <5> QED BY <5>3 DEF w, b
        <4>2. 0 + l <= Len(r.body)
          BY <1>4, <1>7
        <4> QED BY <1>7, <4>1, <4>2, PartStarts
      <3>2. /\ s \in Seq(Bytes) /\ Len(s) = l - 0 /\ \A i \in 1..(l - 0) : s[i] = r.body[0 + i]
            /\ t \in Seq(Bytes) /\ Len(t) = (0 + l) - 0 /\ \A i \in 1..((0 + l) - 0) : t[i] = r.body[0 + i]
        BY <1>4, <3>1 DEF IsPart
      <3>3. l - 0 = l /\ (0 + l) - 0 = l
        BY <1>7
      <3> HIDE DEF s, t
      <3>4. Len(s) = Len(t) /\ \A i \in 1..Len(s) : s[i] = t[i]
        BY <3>2, <3>3
      <3>5. s = t
        BY <3>2, <3>4, SameSeq, Zenon
      <3>6. SubSeq(msg.body, 1, l) = msg.body
        BY <1>7, SeqWhole
      <3> QED BY <1>4, <1>9, <3>5, <3>6 DEF IsPrefix, s, t
    <2>3. ASSUME NEW k \in 1..Now
          PROVE  \/ done'[k] = stream[k]
                 \/ /\ at_eof /\ k = Now /\ EndsAtEof(stream[k])
                    /\ [done'[k] EXCEPT !.body = <<>>] = [stream[k] EXCEPT !.body = <<>>]
                    /\ IsPrefix(done'[k].body, stream[k].body)
      <3>1. CASE k = Now
        BY <1>10, <1>16, <2>1, <2>2, <3>1 DEF r
      <3>2. CASE k # Now
        <4>1. k \in 1..(Now - 1)
          BY <1>5, <3>2
        <4> QED BY <1>11, <4>1
      <3> QED BY <3>1, <3>2
    <2>4. MessagesAreThoseSent'
      BY <1>1, <1>10, <2>3 DEF MessagesAreThoseSent
    <2>5. \A k \in (Now + 1)..Len(stream) : pos < EndOf(stream, k)
      <3> SUFFICES ASSUME NEW k \in (Now + 1)..Len(stream)
                   PROVE  pos < EndOf(stream, k)
        OBVIOUS
      <3>1. k \in 1..Len(stream) /\ Now \in 0..(k - 1) /\ k \in 0..Len(stream) /\ Now \in 0..Len(stream)
        BY <1>5
      <3>2. stream \in Exchanges /\ pos \in Nat
        BY <1>2 DEF ParserTypes
      <3>3. EndOf(stream, Now) < EndOf(stream, k)
        BY <3>1, <3>2, StreamFacts
      <3>4. EndOf(stream, Now) \in Nat /\ EndOf(stream, k) \in Nat
        BY <3>1, <3>2, StreamFacts
      <3> QED BY <1>16, <3>2, <3>3, <3>4
    <2>6. IsOver'
      BY <1>1, <1>12, <1>16, <2>5 DEF IsOver
    <2>7. WholeBefore'
      BY <1>1, <1>16 DEF WholeBefore, NewMessage
    <2> QED BY <1>13, <2>4, <2>6, <2>7 DEF ParserIInv, IsSomewhere
  <1>17. \/ msg.body = r.body /\ Unparsed(EndOf(stream, Now)) /\ ~ at_eof
         \/ at_eof /\ EndsAtEof(r) /\ buffer_ = <<>> /\ pos <= EndOf(stream, Now)
    BY <1>3 DEF IsComplete, r
  <1> QED BY <1>15, <1>16, <1>17

(***************************************************************************)
(* The parser of chunks.                                                   *)
(***************************************************************************)
\* The places where chunks may start in the body b.
ChunkPlaces(b) == {c \in 0..(Len(b) - 1) : b[c + 1] \in {"0", "1", "2"}}

\* What is known of a chunk that starts at c.
IsChunkAt(b, c) ==
  /\ c \in Nat /\ c + 3 <= Len(b)
  /\ b[c + 1] \in {"0", "1", "2"} /\ IsText(b[c + 1]) /\ b[c + 2] = "CR" /\ b[c + 3] = "LF"
  /\ SizeOf(b[c + 1]) \in Nat /\ (SizeOf(b[c + 1]) = 0 <=> b[c + 1] = "0")

\* A chunk that starts at c: its size, then either its data and the next chunk, or the
\* trailer and the end of the body.
LEMMA ChunkFacts ==
  ASSUME NEW b, Len(b) \in Nat, NEW ending, NEW starts \in SUBSET ChunkPlaces(b),
         ChunksStartAt(starts, b, ending), NEW c \in starts
  PROVE  /\ IsChunkAt(b, c)
         /\ b[c + 1] = "0" =>
              /\ Find(From(b, c + 4), ending) > 0
              /\ Find(From(b, c + 4), ending) + Len(ending) - 1 = Len(From(b, c + 4))
         /\ b[c + 1] # "0" => /\ c + 3 + SizeOf(b[c + 1]) + 2 \in starts
                              /\ c + 3 + SizeOf(b[c + 1]) + 2 <= Len(b)
                              /\ LineEndsAt(b, c + 3 + SizeOf(b[c + 1]))
  <1>1. c \in Nat /\ c <= Len(b) - 1 /\ b[c + 1] \in {"0", "1", "2"}
    BY DEF ChunkPlaces, Digits
  <1>2. LineEndsAt(b, c + 1)
    BY DEF ChunksStartAt
  <1>3. c + 3 <= Len(b) /\ b[c + 2] = "CR" /\ b[c + 3] = "LF"
    <2>1. (c + 1) + 2 = c + 3 /\ (c + 1) + 1 = c + 2
      BY <1>1
    <2> QED BY <1>2, <2>1 DEF LineEndsAt
  <1>4. /\ IsText(b[c + 1]) /\ SizeOf(b[c + 1]) \in Nat
        /\ SizeOf(b[c + 1]) = 0 <=> b[c + 1] = "0"
    BY <1>1 DEF IsText, SizeOf
  <1>5. IsChunkAt(b, c)
    BY <1>1, <1>3, <1>4 DEF IsChunkAt
  <1>6. ASSUME b[c + 1] = "0"
        PROVE  /\ Find(From(b, c + 4), ending) > 0
               /\ Find(From(b, c + 4), ending) + Len(ending) - 1 = Len(From(b, c + 4))
    BY <1>6 DEF ChunksStartAt
  <1>7. ASSUME b[c + 1] # "0"
        PROVE  /\ c + 3 + SizeOf(b[c + 1]) + 2 \in starts
               /\ c + 3 + SizeOf(b[c + 1]) + 2 <= Len(b)
               /\ LineEndsAt(b, c + 3 + SizeOf(b[c + 1]))
    BY <1>7 DEF ChunksStartAt, LineEndsAt
  <1> QED BY <1>5, <1>6, <1>7

\* What ends the body is some text.
LEMMA EndingFacts ==
  ASSUME NEW r
  PROVE  Ending(r) \in Seq(Bytes) /\ Len(Ending(r)) \in Nat /\ Len(Ending(r)) > 0
  <1> DEFINE twice == CRLF \o CRLF
  <1>1. CRLF \in Seq(Bytes) /\ Len(CRLF) = 2
    BY CrlfIs
  <1>2. twice \in Seq(Bytes) /\ IsConcat(twice, CRLF, CRLF)
    BY <1>1, ConcatFacts
  <1> HIDE DEF twice
  <1>3. Len(twice) = 4
    BY <1>1, <1>2 DEF IsConcat
  <1>4. Ending(r) = twice \/ Ending(r) = CRLF
    BY DEF Ending, twice
  <1> QED BY <1>1, <1>2, <1>3, <1>4, SMTT(30)

\* Two texts that begin alike have the same pieces there.
LEMMA SamePiece ==
  ASSUME NEW s \in Seq(Bytes), NEW t \in Seq(Bytes), NEW j \in Nat, j > 0, NEW k \in Nat,
         j <= k + 1, k <= Len(s), k <= Len(t),
         \A i \in Nat : i > 0 /\ i <= Len(s) /\ i <= Len(t) => s[i] = t[i]
  PROVE  SubSeq(s, j, k) = SubSeq(t, j, k)
  <1> DEFINE a == SubSeq(s, j, k)
             b == SubSeq(t, j, k)
  <1>1. a \in Seq(Bytes) /\ IsPiece(a, s, j, k) /\ b \in Seq(Bytes) /\ IsPiece(b, t, j, k)
    BY PieceIs
  <1> HIDE DEF a, b
  <1>2. /\ Len(a) = k - j + 1 /\ Len(b) = k - j + 1
        /\ \A i \in 1..(k - j + 1) : a[i] = s[j + i - 1] /\ b[i] = t[j + i - 1]
    BY <1>1 DEF IsPiece
  <1>3. ASSUME NEW i \in 1..(k - j + 1)
        PROVE  a[i] = b[i]
    <2>1. j + i - 1 \in Nat /\ j + i - 1 > 0 /\ j + i - 1 <= Len(s) /\ j + i - 1 <= Len(t)
      <3> DEFINE x == Len(s)
                 y == Len(t)
      <3>1. x \in Nat /\ y \in Nat /\ k <= x /\ k <= y
        OBVIOUS
      <3> HIDE DEF x, y
      <3>2. j + i - 1 \in Nat /\ j + i - 1 > 0 /\ j + i - 1 <= x /\ j + i - 1 <= y
        BY <3>1
      <3> QED BY <3>2 DEF x, y
    <2>2. s[j + i - 1] = t[j + i - 1]
      BY <2>1
    <2> QED BY <1>2, <2>2
  <1>4. a = b
    BY <1>1, <1>2, <1>3, SameSeq
  <1> QED BY <1>4 DEF a, b

\* What ends the body is found as soon as all of the body is there, at its end.
LEMMA FindsEnding ==
  ASSUME NEW s \in Seq(Bytes), NEW t \in Seq(Bytes), NEW needle,
         Len(needle) \in Nat, Len(needle) > 0,
         \A i \in Nat : i > 0 /\ i <= Len(s) /\ i <= Len(t) => s[i] = t[i],
         Find(t, needle) > 0, Find(t, needle) + Len(needle) - 1 = Len(t)
  PROVE  /\ Find(s, needle) \in Nat
         /\ Find(s, needle) > 0 => Find(s, needle) = Find(t, needle) /\ Len(t) <= Len(s)
         /\ Find(s, needle) = 0 => Len(s) < Len(t)
  <1> DEFINE f == Find(s, needle)
             g == Find(t, needle)
             l == Len(needle)
             x == Len(s)
             y == Len(t)
             InS(k) == SubSeq(s, k, k + l - 1) = needle
             InT(k) == SubSeq(t, k, k + l - 1) = needle
  <1>1. /\ f \in Nat /\ (f = 0 => \A k \in 1..(x - l + 1) : ~ InS(k))
        /\ f # 0 => f \in 1..(x - l + 1) /\ InS(f) /\ \A k \in 1..(f - 1) : ~ InS(k)
    BY FindIs, Zenon
  <1>2. /\ g \in Nat
        /\ g # 0 => g \in 1..(y - l + 1) /\ InT(g) /\ \A k \in 1..(g - 1) : ~ InT(k)
    BY FindIs, Zenon
  <1>3. x \in Nat /\ y \in Nat /\ l \in Nat /\ l > 0 /\ g > 0 /\ g + l - 1 = y
    OBVIOUS
  <1>4. ASSUME NEW k \in Nat, k > 0, k + l - 1 <= x, k + l - 1 <= y
        PROVE  InS(k) <=> InT(k)
    <2>1. k + l - 1 \in Nat /\ k <= (k + l - 1) + 1
      BY <1>3, <1>4
    <2>2. SubSeq(s, k, k + l - 1) = SubSeq(t, k, k + l - 1)
      BY <1>4, <2>1, SamePiece
    <2> QED BY <2>2
  <1> HIDE DEF f, g, l, x, y, InS, InT
  <1>5. ASSUME f = 0
        PROVE  x < y
    <2> SUFFICES ASSUME y <= x
                 PROVE  FALSE
      BY <1>3
    <2>1. g \in 1..(x - l + 1) /\ g + l - 1 <= x /\ g + l - 1 <= y
      BY <1>2, <1>3
    <2> QED BY <1>1, <1>2, <1>3, <1>4, <1>5, <2>1
  <1>6. ASSUME f > 0
        PROVE  f = g /\ y <= x
    <2>1. f + l - 1 <= x
      BY <1>1, <1>3, <1>6
    <2>2. ~ (f < g)
      <3> SUFFICES ASSUME f < g
                   PROVE  FALSE
        OBVIOUS
      <3>1. f \in 1..(g - 1) /\ f + l - 1 <= y
        BY <1>1, <1>2, <1>3, <1>6
      <3> QED BY <1>1, <1>2, <1>3, <1>4, <1>6, <2>1, <3>1
    <2>3. ~ (g < f)
      <3> SUFFICES ASSUME g < f
                   PROVE  FALSE
        OBVIOUS
      <3>1. g \in 1..(f - 1) /\ g + l - 1 <= x /\ g + l - 1 <= y
        BY <1>1, <1>2, <1>3, <1>6, <2>1
      <3> QED BY <1>1, <1>2, <1>3, <1>4, <1>6, <3>1
    <2> QED BY <1>1, <1>2, <1>3, <2>1, <2>2, <2>3
  <1> QED BY <1>1, <1>5, <1>6 DEF f, g, x, y

\* Where a chunked body is: in the text from BodyStart.
LEMMA BodyPlace ==
  ASSUME ParserTypes, ReadsBody, NEW r, r = stream[Now]
  PROVE  /\ IsAt(TextOf(stream), BodyStart, r.body) /\ BodyStart \in Nat
         /\ r.body \in Seq(Bytes) /\ Len(r.body) \in Nat
         /\ EndOf(stream, Now) = BodyStart + Len(r.body)
         /\ Len(msg.body) \in Nat /\ pos \in Nat /\ Len(buffer_) \in Nat
         /\ pos = BodyStart + Len(msg.body) + Len(buffer_)
  <1>1. Now <= Len(stream) /\ IsPart(buffer_, TextOf(stream), BodyStart + Len(msg.body), pos)
    BY DEF ReadsBody, InBody, IsBegun, Unparsed
  <1>2. /\ IsResponse(r, Now = Len(stream)) /\ BodyStart \in Nat /\ IsWire(TextOf(stream), Start, r)
        /\ Start \in Nat /\ EndOf(stream, Now) = BodyStart + Len(r.body)
    BY <1>1, NowFacts
  <1>3. r.body \in Seq(Bytes) /\ Len(r.body) \in Nat /\ Len(r.headers) \in Nat
    BY <1>2 DEF IsResponse
  <1> DEFINE h == Len(r.headers)
             m == Len(r.body)
             b == Len(buffer_)
             l == Len(msg.body)
  <1>4. BodyStart = Start + 3 * h + 5 /\ \A i \in 1..m : TextOf(stream)[Start + 3 * h + 5 + i] = r.body[i]
    BY <1>2 DEF IsWire, BodyStart
  <1>5. IsAt(TextOf(stream), BodyStart, r.body)
    BY <1>4 DEF IsAt
  <1>6. msg.body \in Seq(Bytes)
    BY DEF ParserTypes, Messages
  <1>7. l \in Nat
    BY <1>6, SeqWhole
  <1>8. b = pos - (BodyStart + l) /\ pos \in Nat /\ BodyStart + l <= pos
    BY <1>1 DEF IsPart
  <1> HIDE DEF b, l, m
  <1>9. b \in Nat /\ pos = BodyStart + l + b
    BY <1>2, <1>7, <1>8
  <1> QED BY <1>2, <1>3, <1>5, <1>7, <1>8, <1>9 DEF b, l, m

\* A step of the parser of chunks goes to the next place in the body.
LEMMA ChunkStep ==
  ASSUME ParserIInv, ParserTypes, BodyIsChunked, failed = "no", where = "chunks",
         UNCHANGED <<stream, pos, at_eof, where, buffer_, msg, requests_, complete_messages_>>,
         chunked' \in ChunkParsers,
         chunked'.acked = chunked.acked, chunked'.trailers = chunked.trailers,
         NEW starts \in SUBSET ChunkPlaces(stream[Now].body),
         ChunksStartAt(starts, stream[Now].body, Ending(stream[Now])),
         AtChunk(chunked', stream[Now].body, starts),
         IsPart(chunked'.buf, TextOf(stream), BodyStart + chunked'.parsed, pos)
  PROVE  ParserIInv'
  <1> DEFINE r == stream[Now]
  <1>1. Now' = Now /\ BodyStart' = BodyStart /\ BodyEnding' = BodyEnding
    BY SamePlace DEF BodyEnding
  <1>2. /\ ReadsBody /\ ~ msg.known /\ msg.parser = "chunked"
        /\ "chunked" \in ToSet(r.headers) /\ BodyEnding = Ending(r)
        /\ Len(msg.body) < Len(r.body) /\ chunked.acked = Len(msg.body)
    BY DEF BodyIsChunked
  <1>3. ReadsBody' /\ ~ at_eof
    BY <1>1, <1>2 DEF ReadsBody, InBody, IsBegun, Waiting, Unparsed
  <1>4. ParserTypes'
    BY DEF ParserTypes
  <1>5. starts \in SUBSET {c \in 0..(Len(r.body) - 1) : r.body[c + 1] \in {"0", "1", "2"}}
    BY DEF ChunkPlaces, Digits
  <1>6. r' = r
    BY <1>1
  <1> HIDE DEF r
  <1>7. ChunksStartAt(starts, r.body, Ending(r)) /\ AtChunk(chunked', r.body, starts)
    BY DEF r
  <1>8. BodyIsChunked'
    BY <1>1, <1>2, <1>3, <1>5, <1>6, <1>7 DEF BodyIsChunked, r
  <1> QED BY <1>3, <1>4, <1>8, StepKeeps DEF IsSomewhere

\* While chunks are parsed: the place in the body, and what is there.
LEMMA AtSomeChunk ==
  ASSUME BodyIsChunked
  PROVE  \E starts \in SUBSET ChunkPlaces(stream[Now].body) :
           /\ ChunksStartAt(starts, stream[Now].body, Ending(stream[Now]))
           /\ AtChunk(chunked, stream[Now].body, starts)
  BY DEF BodyIsChunked, ChunkPlaces, Digits

\* read() appends its input to what it could not parse before.
LEMMA ReadsChunkedKeeps ==
  ASSUME ParserIInv, ReadsChunked
  PROVE  ParserIInv'
  <1>1. /\ failed = "no" /\ where = "parsing_step" /\ msg.state = "BODY_PENDING"
        /\ msg.parser = "chunked" /\ chunked' = [chunked EXCEPT !.buf = chunked.buf \o buffer_]
        /\ where' = "chunks"
        /\ UNCHANGED <<stream, pos, at_eof, buffer_, msg, requests_, complete_messages_, failed>>
    BY DEF ReadsChunked, Stepping
  <1>2. ParserTypes /\ IsSomewhere
    BY <1>1, StepStarts
  <1>3. Now' = Now /\ BodyStart' = BodyStart
    BY <1>1, SamePlace
  <1>4. BodyIsChunked
    BY <1>1, <1>2, ByState DEF BodyIsSized, BodyUntilEof
  <1> DEFINE r == stream[Now]
             u == chunked.buf \o buffer_
  <1>5. /\ ReadsBody /\ ~ msg.known /\ "chunked" \in ToSet(r.headers) /\ BodyEnding = Ending(r)
        /\ Len(msg.body) < Len(r.body) /\ chunked.acked = Len(msg.body)
        /\ IsPart(chunked.buf, TextOf(stream), BodyStart + chunked.parsed, BodyStart + Len(msg.body))
    BY <1>1, <1>4 DEF BodyIsChunked
  <1>6. IsPart(buffer_, TextOf(stream), BodyStart + Len(msg.body), pos) /\ ~ at_eof
    BY <1>5 DEF ReadsBody, Unparsed
  <1>7. IsPart(u, TextOf(stream), BodyStart + chunked.parsed, pos)
    BY <1>5, <1>6, PartsJoin
  <1>8. u \in Seq(Bytes) /\ chunked \in ChunkParsers
    BY <1>2, <1>7 DEF IsPart, ParserTypes
  <1>9. chunked' = [chunked EXCEPT !.buf = u]
    BY <1>1
  <1> HIDE DEF r, u
  <1>10. /\ chunked'.buf = u /\ chunked'.state = chunked.state /\ chunked'.size = chunked.size
         /\ chunked'.acked = chunked.acked /\ chunked'.parsed = chunked.parsed
         /\ chunked'.trailers = chunked.trailers /\ chunked' \in ChunkParsers
    BY <1>8, <1>9 DEF ChunkParsers
  <1>11. ParserTypes'
    BY <1>1, <1>2, <1>10 DEF ParserTypes
  <1>12. ReadsBody'
    BY <1>1, <1>3, <1>5 DEF ReadsBody, InBody, IsBegun, Waiting, Unparsed
  <1>13. PICK starts \in SUBSET ChunkPlaces(r.body) :
           ChunksStartAt(starts, r.body, Ending(r)) /\ AtChunk(chunked, r.body, starts)
    BY <1>4, AtSomeChunk DEF r
  <1>14. AtChunk(chunked', r.body, starts)
    BY <1>10, <1>13 DEF AtChunk
  <1>15. starts \in SUBSET {c \in 0..(Len(r.body) - 1) : r.body[c + 1] \in {"0", "1", "2"}}
    BY DEF ChunkPlaces, Digits
  <1>16. BodyEnding' = BodyEnding /\ r' = r
    BY <1>1, <1>3, <1>10 DEF BodyEnding, r
  <1>17. BodyIsChunked'
    BY <1>1, <1>3, <1>5, <1>7, <1>10, <1>12, <1>13, <1>14, <1>15, <1>16 DEF BodyIsChunked, r
  <1> QED BY <1>1, <1>6, <1>11, <1>17, StepKeeps DEF IsSomewhere

\* The line with a size is complete: the chunk that starts here is entered.
LEMMA ChunkHeaderKeeps ==
  ASSUME ParserIInv, ChunkHeader
  PROVE  ParserIInv'
  <1>0. SUFFICES ASSUME failed' = "no"
                 PROVE  ParserIInv'
    <2>1. /\ failed = "no" /\ UNCHANGED <<stream, at_eof, complete_messages_>>
      BY DEF ChunkHeader, InChunks
    <2>2. ParserTypes
      BY <2>1, StepStarts
    <2> QED BY <2>1, <2>2, StepKeeps DEF ParserTypes
  <1> DEFINE r == stream[Now]
             b == r.body
             c == chunked.parsed
             f == Find(chunked.buf, CRLF)
             size == SizeOf(chunked.buf[1])
             text == TextOf(stream)
  <1>1. /\ failed = "no" /\ where = "chunks" /\ chunked.state = "CHUNK_HDR" /\ f > 0
        /\ chunked' = [chunked EXCEPT !.size = size,
                         !.state = IF size = 0 THEN "TRAILER" ELSE "CHUNK",
                         !.parsed = c + f + 1, !.buf = From(chunked.buf, f + 2)]
        /\ UNCHANGED <<stream, pos, at_eof, where, buffer_, msg, requests_,
                       complete_messages_, failed>>
    BY <1>0 DEF ChunkHeader, InChunks, ChunkLine
  <1>2. ParserTypes /\ BodyIsChunked
    BY <1>1, StepStarts, ByState
  <1>3. ReadsBody /\ IsPart(chunked.buf, text, BodyStart + c, pos)
    BY <1>1, <1>2 DEF BodyIsChunked
  <1>4. /\ IsAt(text, BodyStart, b) /\ BodyStart \in Nat /\ b \in Seq(Bytes) /\ Len(b) \in Nat
    BY <1>2, <1>3, BodyPlace
  <1> HIDE DEF r
  <1>5. PICK starts \in SUBSET ChunkPlaces(b) :
          ChunksStartAt(starts, b, Ending(r)) /\ AtChunk(chunked, b, starts)
    BY <1>2, AtSomeChunk DEF r
  <1>6. chunked \in ChunkParsers
    BY <1>2 DEF ParserTypes
  <1> HIDE DEF b, c, f, size, text
  <1>7. c \in starts
    <2>1. \A d \in starts : ~ (IF b[d + 1] = "0" THEN chunked.state = "TRAILER" ELSE chunked.state = "CHUNK")
      BY <1>1
    <2> QED BY <1>5, <2>1 DEF AtChunk, c
  <1>8. IsChunkAt(b, c)
    BY <1>4, <1>5, <1>7, ChunkFacts
  <1>9. /\ c \in Nat /\ c + 3 <= Len(b) /\ IsText(b[c + 1]) /\ b[c + 2] = "CR" /\ b[c + 3] = "LF"
        /\ SizeOf(b[c + 1]) \in Nat /\ (SizeOf(b[c + 1]) = 0 <=> b[c + 1] = "0")
    BY <1>8 DEF IsChunkAt
  <1> DEFINE x == BodyStart + c
  <1>10. /\ text[x + 1] = b[c + 1] /\ text[x + 2] = "CR" /\ text[x + 3] = "LF"
    <2>1. \A i \in 1..Len(b) : text[BodyStart + i] = b[i]
      BY <1>4 DEF IsAt
    <2>2. /\ c + 1 \in 1..Len(b) /\ c + 2 \in 1..Len(b) /\ c + 3 \in 1..Len(b)
          /\ x + 1 = BodyStart + (c + 1) /\ x + 2 = BodyStart + (c + 2) /\ x + 3 = BodyStart + (c + 3)
      <3> DEFINE m == Len(b)
      <3>1. m \in Nat /\ c + 3 <= m
        BY <1>4, <1>9
      <3> HIDE DEF m
      <3> QED BY <1>4, <1>9, <3>1 DEF m
    <2> QED BY <1>9, <2>1, <2>2
  <1>11. x \in Nat /\ x + 3 = BodyStart + (c + 3)
    BY <1>4, <1>9
  <1>12. IsPart(chunked.buf, text, x, pos)
    BY <1>3 DEF c, text
  <1> HIDE DEF x
  <1>13. f = 2 /\ x + 3 <= pos /\ IsPart(From(chunked.buf, 4), text, x + 3, pos)
    <2>1. IsText(text[x + 1])
      BY <1>9, <1>10
    <2> QED BY <1>1, <1>10, <1>12, <2>1, TextLine DEF f
  <1>14. chunked.buf[1] = b[c + 1]
    <2>1. pos \in Nat /\ \A i \in 1..(pos - x) : chunked.buf[i] = text[x + i]
      BY <1>12 DEF IsPart
    <2>2. 1 \in 1..(pos - x)
      BY <1>11, <1>13, <2>1
    <2> QED BY <1>10, <2>1, <2>2
  <1>15. size = SizeOf(b[c + 1])
    BY <1>14 DEF size
  <1>16. c + f + 1 = c + 3 /\ f + 2 = 4
    BY <1>9, <1>13
  <1> DEFINE v == From(chunked.buf, 4)
             z == IF size = 0 THEN "TRAILER" ELSE "CHUNK"
             e == c + 3
  <1>17. v \in Seq(Bytes) /\ size \in Nat /\ e \in Nat /\ z \in {"TRAILER", "CHUNK"}
    <2>1. v \in Seq(Bytes)
      BY <1>13 DEF IsPart
    <2> QED BY <1>9, <1>15, <2>1
  <1>18. chunked' = [chunked EXCEPT !.size = size, !.state = z, !.parsed = e, !.buf = v]
    BY <1>1, <1>16
  <1> HIDE DEF v, z, e
  <1>19. /\ chunked'.size = size /\ chunked'.state = z /\ chunked'.parsed = e /\ chunked'.buf = v
         /\ chunked'.acked = chunked.acked /\ chunked'.trailers = chunked.trailers
         /\ chunked' \in ChunkParsers
    BY <1>6, <1>17, <1>18 DEF ChunkParsers
  <1>20. AtChunk(chunked', b, starts)
    <2>1. IF b[c + 1] = "0" THEN z = "TRAILER" ELSE z = "CHUNK"
      BY <1>9, <1>15 DEF z
    <2>2. chunked'.parsed = c + 3 /\ chunked'.size = SizeOf(b[c + 1])
          /\ IF b[c + 1] = "0" THEN chunked'.state = "TRAILER" ELSE chunked'.state = "CHUNK"
      BY <1>15, <1>19, <2>1 DEF e
    <2> QED BY <1>7, <2>2 DEF AtChunk
  <1>21. IsPart(chunked'.buf, text, BodyStart + chunked'.parsed, pos)
    BY <1>11, <1>13, <1>19 DEF v, e
  <1> QED BY <1>1, <1>2, <1>5, <1>19, <1>20, <1>21, ChunkStep DEF b, r, text

\* A chunk of which all the data and its CR LF has arrived is skipped, whatever the
\* data is, even CR LF.
LEMMA ChunkDataKeeps ==
  ASSUME ParserIInv, ChunkData
  PROVE  ParserIInv'
  <1> DEFINE r == stream[Now]
             b == r.body
             p == chunked.parsed
             size == chunked.size
             text == TextOf(stream)
  <1>1. /\ failed = "no" /\ where = "chunks" /\ chunked.state = "CHUNK"
        /\ Len(chunked.buf) >= size + 2
        /\ chunked' = [chunked EXCEPT !.state = "CHUNK_HDR", !.parsed = p + size + 2,
                                      !.buf = From(chunked.buf, size + 3)]
        /\ UNCHANGED <<stream, pos, at_eof, where, buffer_, msg, requests_, complete_messages_>>
    BY DEF ChunkData, InChunks, HasChunk
  <1>2. ParserTypes /\ BodyIsChunked
    BY <1>1, StepStarts, ByState
  <1>3. ReadsBody /\ IsPart(chunked.buf, text, BodyStart + p, pos)
    BY <1>1, <1>2 DEF BodyIsChunked
  <1>4. /\ IsAt(text, BodyStart, b) /\ BodyStart \in Nat /\ b \in Seq(Bytes) /\ Len(b) \in Nat
    BY <1>2, <1>3, BodyPlace
  <1> HIDE DEF r
  <1>5. PICK starts \in SUBSET ChunkPlaces(b) :
          ChunksStartAt(starts, b, Ending(r)) /\ AtChunk(chunked, b, starts)
    BY <1>2, AtSomeChunk DEF r
  <1>6. chunked \in ChunkParsers /\ p \in Nat /\ size \in Nat
    BY <1>2 DEF ParserTypes, ChunkParsers
  <1> HIDE DEF b, p, size, text
  <1>7. PICK c \in starts : p = c + 3 /\ size = SizeOf(b[c + 1]) /\ b[c + 1] # "0"
    BY <1>1, <1>5 DEF AtChunk, p, size
  <1>8. c + 3 + SizeOf(b[c + 1]) + 2 \in starts
    BY <1>4, <1>5, <1>7, ChunkFacts
  <1>9. p + size + 2 \in starts
    BY <1>7, <1>8
  <1>10. IsPart(From(chunked.buf, size + 3), text, BodyStart + (p + size + 2), pos)
    <2> DEFINE x == BodyStart + p
               d == size + 2
    <2>1. IsPart(chunked.buf, text, x, pos) /\ d \in Nat /\ x \in Nat
      BY <1>3, <1>4, <1>6 DEF p, text
    <2>2. pos \in Nat /\ Len(chunked.buf) = pos - x
      BY <2>1 DEF IsPart
    <2>3. x + d <= pos /\ x + d = BodyStart + (p + size + 2) /\ d + 1 = size + 3
      <3> DEFINE q == Len(chunked.buf)
      <3>1. q >= d /\ q = pos - x
        BY <1>1, <2>2
      <3> HIDE DEF q
      <3> QED BY <1>4, <1>6, <2>1, <2>2, <3>1
    <2> HIDE DEF x, d
    <2>4. IsPart(From(chunked.buf, d + 1), text, x + d, pos)
      BY <2>1, <2>3, PartMoves
    <2> QED BY <2>3, <2>4
  <1> DEFINE v == From(chunked.buf, size + 3)
             e == p + size + 2
  <1>11. v \in Seq(Bytes) /\ e \in Nat
    BY <1>6, <1>10 DEF IsPart
  <1>12. chunked' = [chunked EXCEPT !.state = "CHUNK_HDR", !.parsed = e, !.buf = v]
    BY <1>1
  <1> HIDE DEF v, e
  <1>13. /\ chunked'.state = "CHUNK_HDR" /\ chunked'.parsed = e /\ chunked'.buf = v
         /\ chunked'.acked = chunked.acked /\ chunked'.trailers = chunked.trailers
         /\ chunked' \in ChunkParsers
    BY <1>6, <1>11, <1>12 DEF ChunkParsers
  <1>14. AtChunk(chunked', b, starts)
    BY <1>9, <1>13 DEF AtChunk, e
  <1>15. IsPart(chunked'.buf, text, BodyStart + chunked'.parsed, pos)
    BY <1>10, <1>13 DEF v, e
  <1> QED BY <1>1, <1>2, <1>5, <1>13, <1>14, <1>15, ChunkStep DEF b, r, text

\* What is in the text where the chunk starts that starts at c in the body.
LEMMA ChunkLineAt ==
  ASSUME NEW text, NEW b, Len(b) \in Nat, NEW start \in Nat, IsAt(text, start, b),
         NEW c, IsChunkAt(b, c)
  PROVE  /\ start + c \in Nat /\ IsText(text[(start + c) + 1])
         /\ text[(start + c) + 2] = "CR" /\ text[(start + c) + 3] = "LF"
  <1> DEFINE m == Len(b)
             x == start + c
  <1>1. \A i \in 1..m : text[start + i] = b[i]
    BY DEF IsAt
  <1>2. /\ c \in Nat /\ c + 3 <= m /\ m \in Nat
        /\ IsText(b[c + 1]) /\ b[c + 2] = "CR" /\ b[c + 3] = "LF"
    BY DEF IsChunkAt
  <1> HIDE DEF m
  <1>3. /\ c + 1 \in 1..m /\ c + 2 \in 1..m /\ c + 3 \in 1..m /\ x \in Nat
        /\ x + 1 = start + (c + 1) /\ x + 2 = start + (c + 2) /\ x + 3 = start + (c + 3)
    BY <1>2
  <1> HIDE DEF x
  <1>4. IsText(text[x + 1]) /\ text[x + 2] = "CR" /\ text[x + 3] = "LF"
    BY <1>1, <1>2, <1>3
  <1> QED BY <1>3, <1>4 DEF x

\* What is known of the search for the end of the body b, behind its first c bytes.
FoundAtEnd(s, b, start, c, p, needle) ==
  /\ Find(s, needle) \in Nat
  /\ Find(s, needle) > 0 => /\ start + Len(b) <= p
                            /\ c + Find(s, needle) - 1 + Len(needle) = Len(b)
  /\ Find(s, needle) = 0 => p < start + Len(b)

\* In a trailer, the end of the body is found where it is, when it has arrived.
LEMMA TrailerFacts ==
  ASSUME NEW text, NEW b \in Seq(Bytes), Len(b) \in Nat, NEW start \in Nat, IsAt(text, start, b),
         NEW c \in Nat, c <= Len(b), NEW s, NEW p, IsPart(s, text, start + c, p),
         NEW needle, Len(needle) \in Nat, Len(needle) > 0,
         Find(From(b, c + 1), needle) > 0,
         Find(From(b, c + 1), needle) + Len(needle) - 1 = Len(From(b, c + 1))
  PROVE  FoundAtEnd(s, b, start, c, p, needle)
  <1> DEFINE m == Len(b)
             x == start + c
             t == From(b, c + 1)
             l == Len(needle)
             f == Find(s, needle)
  <1>1. /\ s \in Seq(Bytes) /\ x \in Nat /\ p \in Nat /\ x <= p /\ Len(s) = p - x
        /\ \A i \in 1..(p - x) : s[i] = text[x + i]
    BY DEF IsPart
  <1>2. /\ t \in Seq(Bytes) /\ Len(t) = m - c /\ \A i \in 1..(m - c) : t[i] = b[c + i]
    <2>1. c + 1 \in Nat /\ c + 1 > 0 /\ Len(b) \in Nat /\ Len(b) <= Len(b) /\ c + 1 <= Len(b) + 1
      OBVIOUS
    <2>2. t \in Seq(Bytes) /\ IsPiece(t, b, c + 1, Len(b))
      BY <2>1, PieceIs, Zenon DEF From
    <2>3. t \in Seq(Bytes) /\ Len(t) = m - (c + 1) + 1
          /\ \A i \in 1..(m - (c + 1) + 1) : t[i] = b[(c + 1) + i - 1]
      BY <2>2, Zenon DEF IsPiece
    <2>4. m - (c + 1) + 1 = m - c /\ \A i \in 1..(m - c) : (c + 1) + i - 1 = c + i
      <3>1. m \in Nat
        OBVIOUS
      <3> HIDE DEF m
      <3> QED BY <3>1
    <2> HIDE DEF t, m
    <2> QED BY <2>3, <2>4
  <1>3. \A i \in 1..m : text[start + i] = b[i]
    BY DEF IsAt
  <1>4. m \in Nat /\ c <= m /\ l \in Nat /\ l > 0
    OBVIOUS
  <1> HIDE DEF m, t, x
  <1>5. ASSUME NEW i \in Nat, i > 0, i <= Len(s), i <= Len(t)
        PROVE  s[i] = t[i]
    <2>1. i \in 1..(p - x) /\ i \in 1..(m - c) /\ c + i \in 1..m /\ x + i = start + (c + i)
      BY <1>1, <1>2, <1>4, <1>5 DEF x
    <2> QED BY <1>1, <1>2, <1>3, <2>1
  <1>6. /\ f \in Nat
        /\ f > 0 => f = Find(t, needle) /\ Len(t) <= Len(s)
        /\ f = 0 => Len(s) < Len(t)
    <2>1. Find(t, needle) > 0 /\ Find(t, needle) + Len(needle) - 1 = Len(t)
      BY DEF t
    <2> QED BY <1>1, <1>2, <1>4, <1>5, <2>1, FindsEnding
  <1>7. f > 0 => f + l - 1 = m - c /\ m - c <= p - x
    <2>1. Find(t, needle) + l - 1 = Len(t)
      BY DEF t
    <2> QED BY <1>1, <1>2, <1>6, <2>1
  <1>8. f = 0 => p - x < m - c
    BY <1>1, <1>2, <1>6
  <1> HIDE DEF f, l
  <1>9. f > 0 => start + m <= p /\ c + f - 1 + l = m
    BY <1>1, <1>4, <1>6, <1>7 DEF x
  <1>10. f = 0 => p < start + m
    BY <1>1, <1>4, <1>8, SMTT(30) DEF x
  <1> QED BY <1>6, <1>9, <1>10 DEF f, l, m, FoundAtEnd

\* In the trailer, with what ends the body.
LEMMA AtTrailer ==
  ASSUME ParserTypes, BodyIsChunked, where = "chunks", chunked.state = "TRAILER",
         NEW r, r = stream[Now]
  PROVE  /\ Find(chunked.buf, BodyEnding) \in Nat
         /\ Find(chunked.buf, BodyEnding) > 0 =>
              /\ BodyStart + Len(r.body) <= pos
              /\ chunked.parsed + Find(chunked.buf, BodyEnding) - 1 + Len(BodyEnding) = Len(r.body)
         /\ Find(chunked.buf, BodyEnding) = 0 => pos < BodyStart + Len(r.body)
  <1> DEFINE b == r.body
             p == chunked.parsed
             text == TextOf(stream)
  <1>1. /\ ReadsBody /\ IsPart(chunked.buf, text, BodyStart + p, pos) /\ BodyEnding = Ending(r)
    BY DEF BodyIsChunked
  <1>2. /\ IsAt(text, BodyStart, b) /\ BodyStart \in Nat /\ b \in Seq(Bytes) /\ Len(b) \in Nat
    BY <1>1, BodyPlace
  <1>3. PICK starts \in SUBSET ChunkPlaces(b) :
          ChunksStartAt(starts, b, Ending(r)) /\ AtChunk(chunked, b, starts)
    BY AtSomeChunk
  <1> HIDE DEF b, p, text
  <1>4. PICK c \in starts : p = c + 3 /\ b[c + 1] = "0"
    BY <1>3 DEF AtChunk, p
  <1>5. /\ IsChunkAt(b, c) /\ Find(From(b, c + 4), Ending(r)) > 0
        /\ Find(From(b, c + 4), Ending(r)) + Len(Ending(r)) - 1 = Len(From(b, c + 4))
    BY <1>2, <1>3, <1>4, ChunkFacts
  <1>6. p \in Nat /\ p <= Len(b) /\ p + 1 = c + 4
    <2>1. c \in Nat /\ c + 3 <= Len(b)
      BY <1>5 DEF IsChunkAt
    <2>2. c + 3 \in Nat /\ (c + 3) + 1 = c + 4
      BY <2>1
    <2> QED BY <1>4, <2>1, <2>2
  <1>7. /\ Find(From(b, p + 1), BodyEnding) > 0
        /\ Find(From(b, p + 1), BodyEnding) + Len(BodyEnding) - 1 = Len(From(b, p + 1))
    BY <1>1, <1>5, <1>6
  <1>8. Len(BodyEnding) \in Nat /\ Len(BodyEnding) > 0
    BY <1>1, EndingFacts
  <1>9. IsPart(chunked.buf, text, BodyStart + p, pos)
    BY <1>1 DEF p, text
  <1> DEFINE s == chunked.buf
             needle == BodyEnding
             start == BodyStart
  <1>a. /\ b \in Seq(Bytes) /\ Len(b) \in Nat /\ start \in Nat /\ IsAt(text, start, b)
        /\ p \in Nat /\ p <= Len(b) /\ IsPart(s, text, start + p, pos)
        /\ Len(needle) \in Nat /\ Len(needle) > 0 /\ Find(From(b, p + 1), needle) > 0
        /\ Find(From(b, p + 1), needle) + Len(needle) - 1 = Len(From(b, p + 1))
    BY <1>2, <1>6, <1>7, <1>8, <1>9
  <1> HIDE DEF s, needle, start
  <1>10. FoundAtEnd(s, b, start, p, pos, needle)
    BY <1>a, TrailerFacts
  <1> QED BY <1>10 DEF b, p, s, needle, start, FoundAtEnd

\* When the parser of chunks waits, the end of the body has not arrived.
LEMMA EndIsAhead ==
  ASSUME ParserTypes, BodyIsChunked, ChunksAwait, NEW r, r = stream[Now]
  PROVE  pos < BodyStart + Len(r.body)
  <1> DEFINE b == r.body
             m == Len(b)
             p == chunked.parsed
             x == BodyStart + p
             text == TextOf(stream)
  <1>1. /\ where = "chunks"
        /\ \/ chunked.buf = <<>>
           \/ chunked.state = "CHUNK_HDR" /\ Find(chunked.buf, CRLF) = 0
           \/ chunked.state = "CHUNK" /\ ~ (Len(chunked.buf) >= chunked.size + 2)
           \/ chunked.state = "TRAILER" /\ Find(chunked.buf, BodyEnding) = 0
    BY DEF ChunksAwait, InChunks, ChunkLine, HasChunk
  <1>2. ReadsBody /\ IsPart(chunked.buf, text, x, pos)
    BY <1>1 DEF BodyIsChunked
  <1>3. /\ IsAt(text, BodyStart, b) /\ BodyStart \in Nat /\ b \in Seq(Bytes) /\ m \in Nat
    BY <1>2, BodyPlace
  <1>4. PICK starts \in SUBSET ChunkPlaces(b) :
          ChunksStartAt(starts, b, Ending(r)) /\ AtChunk(chunked, b, starts)
    BY AtSomeChunk
  <1>5. chunked.size \in Nat /\ chunked.state \in {"CHUNK_HDR", "CHUNK", "TRAILER"} /\ p \in Nat
    BY DEF ParserTypes, ChunkParsers
  <1>6. pos \in Nat /\ Len(chunked.buf) = pos - x /\ x \in Nat
    BY <1>2 DEF IsPart
  <1> HIDE DEF b, text
  <1>7. CASE chunked.state = "CHUNK_HDR"
    <2>1. p \in starts
      <3>1. \A d \in starts : ~ (IF b[d + 1] = "0" THEN chunked.state = "TRAILER" ELSE chunked.state = "CHUNK")
        BY <1>7
      <3> QED BY <1>4, <3>1 DEF AtChunk
    <2>2. IsChunkAt(b, p)
      BY <1>3, <1>4, <2>1, ChunkFacts
    <2>3. p + 3 <= m
      BY <2>2 DEF IsChunkAt
    <2>4. pos < x + 3
      <3>1. CASE chunked.buf = <<>>
        <4>1. Len(chunked.buf) = 0
          BY <3>1
        <4> HIDE DEF x
        <4> QED BY <1>6, <4>1
      <3>2. CASE Find(chunked.buf, CRLF) = 0
        <4>1. IsText(text[x + 1]) /\ text[x + 2] = "CR" /\ text[x + 3] = "LF"
          BY <1>3, <2>2, ChunkLineAt
        <4>2. IsPart(chunked.buf, text, x, pos)
          BY <1>2 DEF text
        <4> HIDE DEF x
        <4> QED BY <3>2, <4>1, <4>2, TextLine
      <3> QED BY <1>1, <1>7, <3>1, <3>2
    <2> HIDE DEF m, p
    <2>5. pos < BodyStart + m
      BY <1>3, <1>5, <1>6, <2>3, <2>4
    <2> QED BY <2>5 DEF m, b
  <1>8. CASE chunked.state = "CHUNK"
    <2>1. PICK c \in starts : p = c + 3 /\ chunked.size = SizeOf(b[c + 1]) /\ b[c + 1] # "0"
      BY <1>4, <1>8 DEF AtChunk
    <2>2. /\ IsChunkAt(b, c) /\ c + 3 + SizeOf(b[c + 1]) + 2 <= m
      BY <1>3, <1>4, <2>1, ChunkFacts
    <2>3. c \in Nat
      BY <2>2 DEF IsChunkAt
    <2> DEFINE z == chunked.size
    <2>4. p + z + 2 <= m
      BY <2>1, <2>2
    <2>5. pos - x < z + 2
      <3>1. CASE chunked.buf = <<>>
        <4>1. Len(chunked.buf) = 0
          BY <3>1
        <4>2. z \in Nat
          BY <1>5
        <4> HIDE DEF x, z
        <4> QED BY <1>6, <4>1, <4>2
      <3>2. CASE ~ (Len(chunked.buf) >= z + 2)
        <4>2. z \in Nat
          BY <1>5
        <4> HIDE DEF x, z
        <4> QED BY <1>6, <3>2, <4>2
      <3> QED BY <1>1, <1>8, <3>1, <3>2
    <2>6. z \in Nat
      BY <1>5
    <2> HIDE DEF m, p, z
    <2>7. pos < BodyStart + m
      BY <1>3, <1>5, <1>6, <2>4, <2>5, <2>6
    <2> QED BY <2>7 DEF m, b
  <1>9. CASE chunked.state = "TRAILER"
    <2>1. Find(chunked.buf, BodyEnding) = 0 => pos < BodyStart + Len(r.body)
      BY <1>1, <1>9, AtTrailer
    <2>2. ASSUME chunked.buf = <<>>
          PROVE  Find(chunked.buf, BodyEnding) = 0
      <3> DEFINE s == chunked.buf
                 f == Find(s, BodyEnding)
                 l == Len(BodyEnding)
      <3>1. s \in Seq(Bytes) /\ Len(s) = 0
        BY <1>2, <2>2 DEF IsPart
      <3>2. l \in Nat /\ l > 0
        <4>1. BodyEnding = Ending(r)
          BY DEF BodyIsChunked
        <4> QED BY <4>1, EndingFacts
      <3>3. f # 0 => f \in 1..(Len(s) - l + 1)
        BY <3>1, <3>2, FindIs
      <3> HIDE DEF s, l, f
      <3>4. f = 0
        BY <3>1, <3>2, <3>3
      <3> QED BY <3>4 DEF s, f
    <2> QED BY <1>1, <1>9, <2>1, <2>2
  <1> QED BY <1>5, <1>7, <1>8, <1>9

\* The parser of chunks waits for more: all of its input belongs to the body.
LEMMA ChunksAwaitKeeps ==
  ASSUME ParserIInv, ChunksAwait
  PROVE  ParserIInv'
  <1> DEFINE r == stream[Now]
             l == Len(msg.body)
             b == Len(buffer_)
             u == msg.body \o SubSeq(buffer_, 1, b)
             text == TextOf(stream)
  <1>1. /\ failed = "no" /\ where = "chunks"
        /\ chunked' = [chunked EXCEPT !.acked = chunked.acked + b]
        /\ msg' = [msg EXCEPT !.body = msg.body \o buffer_]
        /\ buffer_' = <<>> /\ where' = "idle"
        /\ UNCHANGED <<stream, pos, at_eof, requests_, complete_messages_, failed>>
    BY DEF ChunksAwait, InChunks
  <1>2. ParserTypes /\ BodyIsChunked
    BY <1>1, StepStarts, ByState
  <1>3. Now' = Now /\ BodyStart' = BodyStart
    BY <1>1, SamePlace
  <1>4. pos < BodyStart + Len(r.body)
    BY <1>2, EndIsAhead
  <1>5. /\ ReadsBody /\ ~ at_eof /\ ~ msg.known /\ msg.parser = "chunked"
        /\ "chunked" \in ToSet(r.headers) /\ BodyEnding = Ending(r) /\ chunked.acked = l
        /\ IsPart(chunked.buf, text, BodyStart + chunked.parsed, pos)
    BY <1>1, <1>2 DEF BodyIsChunked, ReadsBody
  <1>6. /\ BodyStart \in Nat /\ Len(r.body) \in Nat /\ l \in Nat /\ pos \in Nat /\ b \in Nat
        /\ pos = BodyStart + l + b
    BY <1>2, <1>5, BodyPlace
  <1>7. l + b < Len(r.body)
    <2> DEFINE m == Len(r.body)
    <2> HIDE DEF l, b, m
    <2>1. pos < BodyStart + m /\ m \in Nat
      BY <1>4, <1>6 DEF m
    <2>2. l + b < m
      BY <1>6, <2>1
    <2> QED BY <2>2 DEF m
  <1>8. buffer_ \in Seq(Bytes) /\ SubSeq(buffer_, 1, b) = buffer_
    <2>1. buffer_ \in Seq(Bytes)
      BY <1>5 DEF ReadsBody, Unparsed, IsPart
    <2> QED BY <2>1, SeqWhole
  <1>9. /\ r = stream[Now] /\ l = Len(msg.body) /\ u = msg.body \o SubSeq(buffer_, 1, b)
        /\ b <= Len(buffer_)
    BY <1>6
  <1>10. PICK starts \in SUBSET ChunkPlaces(r.body) :
           ChunksStartAt(starts, r.body, Ending(r)) /\ AtChunk(chunked, r.body, starts)
    BY <1>2, AtSomeChunk
  <1> HIDE DEF r, u, l
  <1>11. u \in Seq(Bytes) /\ Len(u) = l + b /\ IsPart(u, r.body, 0, l + b)
    <2>1. l + b <= Len(r.body)
      <3> DEFINE m == Len(r.body)
      <3> HIDE DEF m, b
      <3>1. l + b < m /\ m \in Nat
        BY <1>6, <1>7 DEF m
      <3> QED BY <1>6, <3>1 DEF m
    <2>2. BodyGrown(stream[Now], Len(msg.body), b, NextBody(b))
      BY <1>2, <1>5, <1>6, <1>9, <2>1, BodyGrows
    <2>3. BodyGrown(r, l, b, u)
      BY <1>9, <2>2 DEF NextBody
    <2> QED BY <2>3 DEF BodyGrown
  <1>12. /\ msg'.body = u /\ msg'.state = msg.state
         /\ msg'.headers = msg.headers /\ msg'.request = msg.request
         /\ msg'.first_line = msg.first_line /\ msg'.known = msg.known
         /\ msg'.parser = msg.parser /\ msg' \in Messages
    <2>1. msg \in Messages
      BY <1>2 DEF ParserTypes
    <2>2. msg' = [msg EXCEPT !.body = u]
      BY <1>1, <1>8 DEF u
    <2> QED BY <1>11, <2>1, <2>2 DEF Messages
  <1>13. /\ chunked'.acked = l + b /\ chunked'.buf = chunked.buf
         /\ chunked'.state = chunked.state /\ chunked'.size = chunked.size
         /\ chunked'.parsed = chunked.parsed /\ chunked'.trailers = chunked.trailers
         /\ chunked' \in ChunkParsers
    <2> DEFINE a == l + b
    <2>1. chunked \in ChunkParsers
      BY <1>2 DEF ParserTypes
    <2>2. a \in Nat /\ chunked' = [chunked EXCEPT !.acked = a]
      BY <1>1, <1>5, <1>6
    <2> HIDE DEF a
    <2>3. /\ chunked'.acked = a /\ chunked'.buf = chunked.buf
          /\ chunked'.state = chunked.state /\ chunked'.size = chunked.size
          /\ chunked'.parsed = chunked.parsed /\ chunked'.trailers = chunked.trailers
          /\ chunked' \in ChunkParsers
      BY <2>1, <2>2 DEF ChunkParsers
    <2> QED BY <2>3 DEF a
  <1>14. ParserTypes'
    BY <1>1, <1>2, <1>12, <1>13 DEF ParserTypes
  <1>15. /\ Len(msg'.body) = l + b /\ Len(msg'.body) < Len(r.body)
         /\ Len(msg'.body) <= Len(r.body) /\ IsPart(msg'.body, r.body, 0, Len(msg'.body))
    <2> DEFINE m == Len(r.body)
               q == l + b
    <2>1. Len(msg'.body) = q /\ q < m /\ q \in Nat /\ m \in Nat /\ IsPart(msg'.body, r.body, 0, q)
      BY <1>6, <1>7, <1>11, <1>12
    <2> HIDE DEF m, q
    <2>2. q <= m
      BY <2>1
    <2> QED BY <2>1, <2>2 DEF m, q
  <1>16. InBody'
    BY <1>1, <1>2, <1>5, <1>12, <1>15, StillInBody DEF r
  <1>17. BodyStart + (l + b) = pos
    <2> HIDE DEF b
    <2> QED BY <1>6
  <1>18. ReadsBody'
    <2>1. IsPart(<<>>, text, BodyStart + Len(msg'.body), pos)
      BY <1>6, <1>15, <1>17, NoPart
    <2>2. Unparsed(BodyStart + Len(msg.body))'
      BY <1>1, <1>3, <2>1 DEF Unparsed
    <2>3. msg.state = "BODY_PENDING"
      BY <1>5 DEF ReadsBody
    <2> QED BY <1>1, <1>5, <1>12, <1>16, <2>2, <2>3 DEF ReadsBody
  <1>19. BodyIsChunked'
    <2>1. starts \in SUBSET {c \in 0..(Len(r.body) - 1) : r.body[c + 1] \in {"0", "1", "2"}}
      BY DEF ChunkPlaces, Digits
    <2>2. AtChunk(chunked', r.body, starts)
      BY <1>10, <1>13 DEF AtChunk
    <2>3. BodyEnding' = BodyEnding /\ r' = r
      BY <1>1, <1>3, <1>13 DEF BodyEnding, r
    <2>4. IsPart(chunked'.buf, text, BodyStart + chunked'.parsed, BodyStart + Len(msg'.body))
      BY <1>5, <1>13, <1>15, <1>17
    <2>5. chunked'.acked = Len(msg'.body)
      BY <1>13, <1>15
    <2> QED BY <1>1, <1>3, <1>5, <1>10, <1>12, <1>15, <1>18, <2>1, <2>2, <2>3, <2>4, <2>5
         DEF BodyIsChunked, r, text
  <1> QED BY <1>1, <1>5, <1>14, <1>19, StepKeeps DEF IsSomewhere

\* compute_ack_size(): what of the input belongs to the body ends where the body does,
\* however much of it came with earlier calls.
LEMMA ChunksEndKeeps ==
  ASSUME ParserIInv, ChunksEnd
  PROVE  ParserIInv'
  <1> DEFINE r == stream[Now]
             l == Len(msg.body)
             m == Len(r.body)
             b == Len(buffer_)
             f == Find(chunked.buf, BodyEnding)
             parsed == chunked.parsed + f - 1 + Len(BodyEnding)
             n == parsed - chunked.acked
             u == msg.body \o Slice(buffer_, 1, n)
  <1>1. /\ failed = "no" /\ where = "chunks" /\ chunked.state = "TRAILER" /\ f > 0
        /\ msg' = [msg EXCEPT !.body = u, !.state = "COMPLETE"]
        /\ buffer_' = From(buffer_, IF n > 0 THEN n + 1 ELSE 1)
        /\ chunked' = [chunked EXCEPT !.parsed = parsed]
        /\ where' = "parsing_step"
        /\ UNCHANGED <<stream, pos, at_eof, requests_, complete_messages_>>
    BY DEF ChunksEnd, InChunks
  <1>2. ParserTypes /\ BodyIsChunked
    BY <1>1, StepStarts, ByState
  <1>3. Now' = Now
    BY <1>1, SamePlace
  <1>4. /\ ReadsBody /\ ~ at_eof /\ l < m /\ chunked.acked = l
    BY <1>1, <1>2 DEF BodyIsChunked, ReadsBody
  <1>5. /\ BodyStart \in Nat /\ m \in Nat /\ l \in Nat /\ pos \in Nat /\ b \in Nat
        /\ pos = BodyStart + l + b /\ EndOf(stream, Now) = BodyStart + m
    BY <1>2, <1>4, BodyPlace
  <1>6. parsed = m /\ BodyStart + m <= pos
    BY <1>1, <1>2, AtTrailer
  <1>7. n = m - l
    BY <1>4, <1>6
  <1> HIDE DEF parsed, n, f
  <1>8. n \in Nat /\ n > 0 /\ n <= b /\ l + n = m
    <2> HIDE DEF l, m, b
    <2> QED BY <1>4, <1>5, <1>6, <1>7
  <1>9. (IF n > 0 THEN n + 1 ELSE 1) = n + 1 /\ (IF n < b THEN n ELSE b) = n
    <2> HIDE DEF b
    <2> QED BY <1>5, <1>8
  <1>10. Slice(buffer_, 1, n) = SubSeq(buffer_, 1, n)
    BY <1>9 DEF Slice
  <1>11. /\ u \in Seq(Bytes) /\ Len(u) = m /\ IsPart(u, r.body, 0, m) /\ u = r.body
         /\ IsPart(From(buffer_, n + 1), TextOf(stream), BodyStart + m, pos)
    <2>1. /\ n <= Len(buffer_) /\ Len(msg.body) + n <= Len(stream[Now].body)
      <3>1. Len(msg.body) + n = Len(stream[Now].body)
        BY <1>8
      <3> QED BY <1>5, <1>8, <3>1
    <2>2. BodyGrown(stream[Now], Len(msg.body), n, NextBody(n))
      BY <1>2, <1>4, <1>8, <2>1, BodyGrows
    <2>3. BodyGrown(r, l, n, u)
      BY <1>10, <2>2 DEF NextBody
    <2> HIDE DEF r, l, u
    <2>4. /\ u \in Seq(Bytes) /\ Len(u) = l + n /\ IsPart(u, r.body, 0, l + n)
          /\ IsPart(From(buffer_, n + 1), TextOf(stream), BodyStart + (l + n), pos)
          /\ l + n = Len(r.body) => u = r.body
      BY <2>3 DEF BodyGrown
    <2> QED BY <1>8, <2>4
  <1> HIDE DEF u
  <1>12. /\ msg'.body = u /\ msg'.state = "COMPLETE" /\ msg'.headers = msg.headers
         /\ msg'.request = msg.request /\ msg'.first_line = msg.first_line /\ msg' \in Messages
    <2>1. msg \in Messages
      BY <1>2 DEF ParserTypes
    <2> QED BY <1>1, <1>11, <2>1 DEF Messages
  <1>13. chunked' \in ChunkParsers
    <2>1. chunked \in ChunkParsers /\ parsed \in Nat
      BY <1>2, <1>5, <1>6 DEF ParserTypes
    <2> QED BY <1>1, <2>1 DEF ChunkParsers
  <1>14. ParserTypes'
    BY <1>1, <1>2, <1>12, <1>13 DEF ParserTypes
  <1>15. InBody'
    <2>1. Len(msg'.body) = m /\ Len(msg'.body) <= Len(r.body) /\ IsPart(msg'.body, r.body, 0, Len(msg'.body))
      <3>1. m <= m
        BY <1>5
      <3> QED BY <1>11, <1>12, <3>1
    <2> QED BY <1>1, <1>2, <1>4, <1>12, <2>1, StillInBody
  <1>16. Unparsed(EndOf(stream, Now))'
    <2>1. buffer_' = From(buffer_, n + 1)
      BY <1>1, <1>9
    <2>2. IsPart(buffer_', TextOf(stream), EndOf(stream, Now), pos)
      BY <1>5, <1>11, <2>1
    <2> QED BY <1>1, <1>3, <2>2 DEF Unparsed
  <1>17. IsComplete'
    <2>1. msg'.body = stream[Now].body
      BY <1>11, <1>12
    <2> QED BY <1>1, <1>3, <1>4, <1>12, <1>15, <1>16, <2>1 DEF IsComplete
  <1> QED BY <1>1, <1>4, <1>14, <1>17, StepKeeps DEF IsSomewhere

(***************************************************************************)
(* The parser as a whole.                                                  *)
(***************************************************************************)
\* Nothing was read, and every request waits for its response.
LEMMA InitKeeps == ParserInit => ParserIInv
  <1> SUFFICES ASSUME ParserInit
               PROVE  ParserIInv
    OBVIOUS
  <1>1. /\ stream \in Exchanges /\ pos = 0 /\ at_eof = FALSE /\ where = "idle" /\ failed = "no"
        /\ buffer_ = <<>> /\ msg = NewMessage /\ chunked = NewChunked(FALSE)
        /\ requests_ = [k \in DOMAIN stream |-> stream[k].request]
        /\ complete_messages_ = <<>>
    BY DEF ParserInit
  <1> DEFINE l == Len(stream)
             text == TextOf(stream)
  <1>2. /\ stream \in Seq(Responses) /\ l \in Nat /\ text \in Seq(Bytes) /\ EndOf(stream, 0) = 0
    BY <1>1, StreamFacts
  <1>3. Len(complete_messages_) = 0 /\ Now = 1 /\ Start = 0
    <2>1. Len(complete_messages_) = 0
      BY <1>1
    <2> QED BY <1>2, <2>1 DEF Now, Start
  <1>4. requests_ \in Seq(Bytes) /\ Len(requests_) = l /\ \A i \in 1..l : requests_[i] = stream[i].request
    <2> DEFINE S == [k \in 1..l |-> stream[k].request]
    <2>1. \A k \in 1..l : stream[k].request \in Bytes
      <3>1. \A k \in 1..l : stream[k] \in Responses
        BY <1>2
      <3> QED BY <3>1 DEF Responses, Bytes
    <2>2. DOMAIN stream = 1..l
      BY <1>2
    <2>3. requests_ = S
      BY <1>1, <2>2
    <2> HIDE DEF l
    <2>4. S \in Seq(Bytes) /\ Len(S) = l /\ \A i \in 1..l : S[i] = stream[i].request
      BY <1>2, <2>1
    <2> QED BY <2>3, <2>4
  <1>5. Waiting(Now)
    <2> HIDE DEF l
    <2>1. l + 1 - 1 = l /\ \A i \in 1..l : 1 + i - 1 = i
      BY <1>2
    <2>2. Len(requests_) = l + 1 - 1 /\ \A i \in 1..Len(requests_) : requests_[i] = stream[1 + i - 1].request
      BY <1>4, <2>1
    <2> QED BY <1>3, <2>2 DEF Waiting, l
  <1>6. IsPart(buffer_, text, 0, 0)
    BY <1>1, NoPart
  <1>7. AwaitsFirstLine
    <2>1. ~ HaveLine
      <3>1. Find(buffer_, CRLF) = 0
        BY <1>6, NoLine
      <3> QED BY <3>1 DEF HaveLine
    <2>2. Unparsed(Start)
      BY <1>1, <1>3, <1>6 DEF Unparsed
    <2> QED BY <1>1, <1>5, <2>1, <2>2 DEF AwaitsFirstLine
  <1>8. ParserTypes
    <2>1. "none" \in Bytes /\ <<>> \in Seq(Bytes) /\ <<>> \in Seq(Received)
      BY DEF Bytes
    <2>2. msg \in Messages
      BY <1>1, <2>1 DEF NewMessage, Messages
    <2>3. chunked \in ChunkParsers
      BY <1>1, <2>1 DEF NewChunked, ChunkParsers
    <2>4. 0 <= Len(text) /\ 0 <= l
      <3>1. Len(text) \in Nat
        BY <1>2
      <3> DEFINE x == Len(text)
      <3> HIDE DEF x, l
      <3> QED BY <1>2, <3>1 DEF x
    <2> QED BY <1>1, <1>3, <1>4, <2>1, <2>2, <2>3, <2>4 DEF ParserTypes
  <1>9. MessagesAreThoseSent /\ AreWhole
    <2>1. DOMAIN complete_messages_ = {} /\ 1..Len(complete_messages_) = {}
      BY <1>1, <1>3
    <2> QED BY <2>1 DEF MessagesAreThoseSent, AreWhole
  <1> QED BY <1>7, <1>8, <1>9 DEF ParserIInv, IsSomewhere, WholeBefore

\* The inductive invariant: the parser is on course, until a trailer is not as the
\* headers announce.
CourseIInv == ParserIInv \/ IsAstray

\* Every step of the parser keeps the invariant.
LEMMA ParserNextKeeps == CourseIInv /\ [ParserNext]_parserVars => CourseIInv'
  <1> SUFFICES ASSUME ParserIInv, [ParserNext]_parserVars
               PROVE  CourseIInv'
    BY StaysAstray DEF CourseIInv
  <1>1. ASSUME UNCHANGED parserVars
        PROVE  ParserIInv'
    <2>1. MessagesAreThoseSent'
      BY <1>1 DEF parserVars, ParserIInv, MessagesAreThoseSent, AreAnnounced
    <2>2. /\ Now' = Now /\ Start' = Start /\ BodyStart' = BodyStart
          /\ failed' = failed /\ (ParserTypes => ParserTypes') /\ (WholeBefore => WholeBefore')
      BY <1>1 DEF parserVars, ParserTypes, WholeBefore, AreWhole, Now, Start, BodyStart
    <2>3. /\ InBody => InBody'
          /\ ReadsBody => ReadsBody'
      BY <1>1, <2>2 DEF parserVars, InBody, ReadsBody, IsBegun, Unparsed, Waiting
    <2>4. /\ AwaitsFirstLine => AwaitsFirstLine'
          /\ ReadsHeaders => ReadsHeaders'
          /\ IsComplete => IsComplete'
          /\ IsOver => IsOver'
      BY <1>1, <2>2, <2>3 DEF parserVars, AwaitsFirstLine, ReadsHeaders, IsComplete, IsOver, IsBegun,
         Unparsed, Waiting, HaveLine
    <2>5. /\ BodyIsSized => BodyIsSized'
          /\ BodyUntilEof => BodyUntilEof'
          /\ BodyIsChunked => BodyIsChunked'
      BY <1>1, <2>2, <2>3 DEF parserVars, BodyIsSized, BodyUntilEof, BodyIsChunked, BodyEnding
    <2>6. failed' = "no" => ParserTypes' /\ IsSomewhere' /\ WholeBefore'
      BY <2>2, <2>4, <2>5 DEF ParserIInv, IsSomewhere
    <2> QED BY <2>1, <2>6 DEF ParserIInv
  <1> USE DEF CourseIInv
  <1>2. ASSUME NEW n \in 1..MaxRead, Parse(n)
        PROVE  ParserIInv'
    BY <1>2, ParseKeeps
  <1>3. CASE ParseEof
    BY <1>3, ParseEofKeeps
  <1>4. CASE AwaitsLine
    BY <1>4, AwaitsLineKeeps
  <1>5. CASE FirstLine
    BY <1>5, FirstLineKeeps
  <1>6. CASE HeaderLine
    BY <1>6, HeaderLineKeeps
  <1>7. CASE BlankLine
    BY <1>7, BlankLineKeeps, BlankLineStrays
  <1>8. CASE ReadsSizedBody
    BY <1>8, ReadsSizedBodyKeeps
  <1>9. CASE ReadsUntilEof
    BY <1>9, ReadsUntilEofKeeps
  <1>10. CASE MessageDone
    BY <1>10, MessageDoneKeeps
  <1>11. CASE ReadsChunked
    BY <1>11, ReadsChunkedKeeps
  <1>12. CASE ChunkHeader
    BY <1>12, ChunkHeaderKeeps
  <1>13. CASE ChunkData
    BY <1>13, ChunkDataKeeps
  <1>14. CASE ChunksAwait
    BY <1>14, ChunksAwaitKeeps
  <1>15. CASE ChunksEnd
    BY <1>15, ChunksEndKeeps
  <1> QED BY <1>1, <1>2, <1>3, <1>4, <1>5, <1>6, <1>7, <1>8, <1>9, <1>10, <1>11, <1>12, <1>13,
          <1>14, <1>15 DEF ParserNext

\* The parser, run by the proxies.
LEMMA ParserIsSound == ProxiesSpec => []CourseIInv
  <1>1. ProxiesInit => CourseIInv
    BY InitKeeps DEF ProxiesInit, CourseIInv
  <1>2. [ProxiesNext]_proxiesVars => [ParserNext]_parserVars
    BY DEF ProxiesNext, proxiesVars
  <1> QED BY <1>1, <1>2, ParserNextKeeps, PTL DEF ProxiesSpec

\* EOF was read, if it is what ends the k-th response.
EofIsSeen(k) == stream[k].body = <<"until EOF">> => at_eof

\* While the parser is idle, the end of the response it is at has not been read.
LEMMA EndIsUnread ==
  ASSUME ParserTypes, IsSomewhere, where = "idle", Now <= Len(stream),
         Now = Len(stream) => EofIsSeen(Now)
  PROVE  pos < EndOf(stream, Now)
  <1> DEFINE r == stream[Now]
             l == Len(msg.body)
             m == Len(r.body)
             h == Len(r.headers)
             n == Len(msg.headers)
  <1>1. /\ IsResponse(r, Now = Len(stream)) /\ IsWire(TextOf(stream), Start, r)
        /\ Start \in Nat /\ BodyStart \in Nat /\ BodyStart >= Start + 5
        /\ EndOf(stream, Now) = BodyStart + m
    BY NowFacts
  <1>2. pos \in Nat /\ m \in Nat /\ h \in Nat
    BY <1>1 DEF IsResponse, ParserTypes
  <1>3. BodyStart = Start + 3 * h + 5
    BY DEF BodyStart
  <1>4. CASE AwaitsFirstLine
    <2>1. Find(buffer_, CRLF) \in {0, 2} /\ (Find(buffer_, CRLF) = 0 => pos < Start + 3)
      <3>1. IsPart(buffer_, TextOf(stream), Start, pos)
        BY <1>4 DEF AwaitsFirstLine, Unparsed
      <3>2. /\ IsText(TextOf(stream)[Start + 1])
            /\ TextOf(stream)[Start + 2] = "CR" /\ TextOf(stream)[Start + 3] = "LF"
        BY <1>1 DEF IsWire, IsResponse
      <3> QED BY <3>1, <3>2, TextLine
    <2>2. ~ HaveLine
      BY <1>4 DEF AwaitsFirstLine
    <2>3. pos < Start + 3
      BY <2>1, <2>2 DEF HaveLine
    <2> HIDE DEF m
    <2> QED BY <1>1, <1>2, <2>3
  <1>5. CASE ReadsHeaders
    <2> DEFINE c == Start + 3 * n + 3
    <2>1. /\ n \in Nat /\ n <= h /\ c \in Nat
          /\ ~ HaveLine => pos < c + 3
          /\ ~ HaveLine /\ n = h => pos < c + 2
      BY <1>5, NextLine
    <2>2. ~ HaveLine
      BY <1>5 DEF ReadsHeaders
    <2> HIDE DEF n, h, m
    <2>3. pos < BodyStart
      <3>1. CASE n = h
        BY <1>1, <1>2, <1>3, <2>1, <2>2, <3>1
      <3>2. CASE n # h
        BY <1>1, <1>2, <1>3, <2>1, <2>2, <3>2
      <3> QED BY <3>1, <3>2
    <2> QED BY <1>1, <1>2, <2>3
  <1>6. CASE BodyIsSized \/ BodyIsChunked
    <2>1. ReadsBody /\ buffer_ = <<>> /\ l < m
      BY <1>6 DEF BodyIsSized, BodyIsChunked
    <2>2. l \in Nat /\ pos = BodyStart + l + Len(buffer_)
      BY <2>1, BodyPlace
    <2>3. Len(buffer_) = 0
      BY <2>1
    <2> HIDE DEF l, m
    <2> QED BY <1>1, <1>2, <2>1, <2>2, <2>3
  <1>7. ~ BodyUntilEof
    BY DEF BodyUntilEof, ReadsBody, EofIsSeen
  <1>8. ~ IsComplete
    BY DEF IsComplete
  <1>9. CASE IsOver
    <2>1. Now \in Now..Len(stream)
      <3>1. Now \in Nat /\ Len(stream) \in Nat
        BY NowFacts
      <3> QED BY <3>1
    <2> QED BY <1>9, <2>1 DEF IsOver
  <1> QED BY <1>4, <1>5, <1>6, <1>7, <1>8, <1>9 DEF IsSomewhere

\* No response of which all was read, and which EOF need not end, is still awaited.
LEMMA NoneIsHeldBackOnCourse == ParserIInv => NothingIsHeldBack
  <1> SUFFICES ASSUME ParserIInv, where = "idle", failed = "no", NEW k \in DOMAIN stream,
                      AreAnnounced(k), WireEnd(k) <= pos, EofIsSeen(k),
                      ~ (k <= Len(complete_messages_))
               PROVE  FALSE
    BY DEF NothingIsHeldBack, EofIsSeen
  <1>1. ParserTypes /\ IsSomewhere
    BY StepStarts
  <1>2. /\ stream \in Exchanges /\ stream \in Seq(Responses) /\ Len(stream) \in Nat
        /\ pos \in Nat /\ Len(complete_messages_) \in Nat
    <2>1. stream \in Exchanges /\ pos \in Nat /\ complete_messages_ \in Seq(Received)
      BY <1>1 DEF ParserTypes
    <2> QED BY <2>1, StreamFacts
  <1>3. k \in 1..Len(stream)
    BY <1>2
  <1>4. EndOf(stream, k) <= pos
    BY DEF WireEnd, EndOf
  <1>5. Now \in Nat /\ Now <= k /\ Now >= 1 /\ Now <= Len(stream)
    BY <1>2, <1>3 DEF Now
  <1>6. EndOf(stream, Now) \in Nat /\ EndOf(stream, k) \in Nat
    <2>1. Now \in 0..Len(stream) /\ k \in 0..Len(stream)
      BY <1>2, <1>3, <1>5
    <2> QED BY <1>2, <2>1, StreamFacts
  <1>7. CASE Now = k
    <2>1. pos < EndOf(stream, Now)
      BY <1>1, <1>5, <1>7, EndIsUnread
    <2> QED BY <1>2, <1>4, <1>6, <1>7, <2>1
  <1>8. CASE Now # k
    <2>1. EndOf(stream, Now) < EndOf(stream, k)
      <3>1. Now \in 0..(k - 1)
        BY <1>3, <1>5, <1>8
      <3> QED BY <1>2, <1>3, <3>1, StreamFacts
    <2>2. Now # Len(stream)
      BY <1>2, <1>3, <1>5, <1>8
    <2>3. pos < EndOf(stream, Now)
      BY <1>1, <1>5, <2>2, EndIsUnread
    <2> QED BY <1>2, <1>4, <1>6, <2>1, <2>3
  <1> QED BY <1>7, <1>8

\* The messages before the first whose trailer is not as announced are unchanged.
LEMMA AstrayKeepsEarlier == IsAstray => MessagesAreThoseSent /\ NothingIsHeldBack
  <1> SUFFICES ASSUME IsAstray
               PROVE  MessagesAreThoseSent /\ NothingIsHeldBack
    OBVIOUS
  <1>1. PICK i \in Nat :
          /\ i <= Len(stream) /\ ~ AreAnnounced(i) /\ i <= Len(complete_messages_) + 1
          /\ \A j \in 1..(i - 1) : complete_messages_[j] = stream[j]
          /\ \E S : complete_messages_ \in Seq(S)
    BY DEF IsAstray
  <1>2. Len(complete_messages_) \in Nat
    BY <1>1
  <1>3. ASSUME NEW k \in Nat, AreAnnounced(k)
        PROVE  k < i
    <2> SUFFICES ASSUME i <= k
                 PROVE  FALSE
      BY <1>1
    <2>1. 1..i \subseteq 1..k
      BY <1>1
    <2> QED BY <1>1, <1>3, <2>1 DEF AreAnnounced
  <1>4. MessagesAreThoseSent
    <2> SUFFICES ASSUME NEW k \in DOMAIN complete_messages_, AreAnnounced(k)
                 PROVE  complete_messages_[k] = stream[k]
      BY DEF MessagesAreThoseSent
    <2>1. k \in Nat /\ k >= 1
      BY <1>1
    <2>2. k \in 1..(i - 1)
      BY <1>1, <1>3, <2>1
    <2> QED BY <1>1, <2>2
  <1>5. NothingIsHeldBack
    <2> SUFFICES ASSUME NEW k \in DOMAIN stream, AreAnnounced(k)
                 PROVE  k <= Len(complete_messages_)
      BY DEF NothingIsHeldBack
    <2>1. k \in Nat
      <3>1. stream \in Exchanges
        BY DEF IsAstray
      <3>2. stream \in Seq(Responses)
        BY <3>1, StreamFacts
      <3> QED BY <3>2
    <2> QED BY <1>1, <1>2, <1>3, <2>1
  <1> QED BY <1>4, <1>5

\* The messages are those that the server sent, with the requests they answer: for any
\* number of responses of any length, header lines and chunks, wherever reads split them.
THEOREM ParserCutsRight == ProxiesSpec => []MessagesAreThoseSent
  <1>1. CourseIInv => MessagesAreThoseSent
    BY AstrayKeepsEarlier DEF ParserIInv, CourseIInv
  <1> QED BY <1>1, ParserIsSound, PTL

\* A message of which the last byte was read is complete: for the same responses.
THEOREM ParserHoldsNothing == ProxiesSpec => []NothingIsHeldBack
  <1>1. CourseIInv => NothingIsHeldBack
    BY NoneIsHeldBackOnCourse, AstrayKeepsEarlier DEF CourseIInv
  <1> QED BY <1>1, ParserIsSound, PTL
====

---- MODULE ByteStreamQueue ----
(***************************************************************************)
(* The ring buffer between two sockets of a relay.  push() reads from one  *)
(* socket at most the free space up to the end of the buffer; pop() writes *)
(* to the other at most what is held up to the end of the buffer; either   *)
(* may transfer less.  A byte is represented by its number in the stream.  *)
(***************************************************************************)
EXTENDS Integers

CONSTANTS Size,      \* buffer_.size()
          MaxBytes   \* bound on the bytes of a run

ASSUME SizeAssumption == Size \in Nat /\ Size > 1
ASSUME BytesAssumption == MaxBytes \in Nat

VARIABLES buffer, next_byte_to_push, next_byte_to_pop,
          taken, given,   \* history: bytes read and written
          latest          \* history: the last byte written

vars == <<buffer, next_byte_to_push, next_byte_to_pop, taken, given, latest>>

Cells == 0..(Size - 1)

Init ==
  /\ buffer = [i \in Cells |-> 0]
  /\ next_byte_to_push = 0 /\ next_byte_to_pop = 0
  /\ taken = 0 /\ given = 0 /\ latest = 0

available_to_pop ==
  next_byte_to_push - next_byte_to_pop
    + (IF next_byte_to_pop > next_byte_to_push THEN Size ELSE 0)

available_to_push ==
  next_byte_to_pop - next_byte_to_push - 1
    + (IF next_byte_to_pop > next_byte_to_push THEN 0 ELSE Size)

\* The part of an available span that lies before the end of the buffer.
Contiguous(from, available) ==
  IF from + available >= Size THEN Size - from ELSE available

Advanced(from, n) == IF from + n = Size THEN 0 ELSE from + n

\* push() of the n bytes that the read returned.
Push(n) ==
  /\ available_to_push > 0
  /\ n <= Contiguous(next_byte_to_push, available_to_push)
  /\ taken + n <= MaxBytes
  /\ buffer' = [i \in Cells |->
                  IF i >= next_byte_to_push /\ i < next_byte_to_push + n
                  THEN taken + 1 + i - next_byte_to_push ELSE buffer[i]]
  /\ next_byte_to_push' = Advanced(next_byte_to_push, n)
  /\ taken' = taken + n
  /\ UNCHANGED <<next_byte_to_pop, given, latest>>

\* Slip: a short write is taken for a complete one.
PopAll(n) ==
  /\ available_to_pop > 0
  /\ n <= Contiguous(next_byte_to_pop, available_to_pop)
  /\ latest' = buffer[next_byte_to_pop + n - 1]
  /\ next_byte_to_pop' = next_byte_to_push
  /\ given' = given + n
  /\ UNCHANGED <<buffer, next_byte_to_push, taken>>

\* pop() when the write took n bytes.
Pop(n) ==
  /\ available_to_pop > 0
  /\ n <= Contiguous(next_byte_to_pop, available_to_pop)
  /\ latest' = buffer[next_byte_to_pop + n - 1]
  /\ next_byte_to_pop' = Advanced(next_byte_to_pop, n)
  /\ given' = given + n
  /\ UNCHANGED <<buffer, next_byte_to_push, taken>>

Next == \E n \in 1..Size : Push(n) \/ Pop(n)

Spec == Init /\ [][Next]_vars
----
\* Every variable keeps its type; neither index ever leaves the buffer.
TypeOK ==
  /\ buffer \in [Cells -> Nat]
  /\ next_byte_to_push \in Cells /\ next_byte_to_pop \in Cells
  /\ taken \in Nat /\ given \in Nat /\ latest \in Nat

\* The two indices tell full from empty: what available_to_pop() computes from
\* them is the number of bytes held, at every moment and across the wrap.
CountIsExact == available_to_pop = taken - given

\* The cell of the k-th byte held, counting from 0.
CellOf(k) ==
  IF next_byte_to_pop + k < Size THEN next_byte_to_pop + k
  ELSE next_byte_to_pop + k - Size

\* No byte that is held is overwritten: the cells from next_byte_to_pop on, round
\* the end of the buffer, are the bytes read and not yet written, in order.
BytesAreKept ==
  \A k \in 0..(taken - given - 1) : buffer[CellOf(k)] = given + 1 + k

\* The ring buffer is a first-in first-out stream of Size - 1 bytes.
Stream == INSTANCE BoundedStream WITH Capacity <- Size - 1
StreamSpec == Stream!StreamSpec
====

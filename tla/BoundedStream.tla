---- MODULE BoundedStream ----
(***************************************************************************)
(* What a byte stream queue promises: bytes come out in the order in which *)
(* they went in, each once, and never more than Capacity are held.  Bytes  *)
(* are numbered as they are read from the sender.                          *)
(***************************************************************************)
EXTENDS Integers

CONSTANT Capacity

VARIABLES taken,   \* bytes read so far
          given,   \* bytes written so far
          latest   \* the number of the last byte written

streamVars == <<taken, given, latest>>

StreamInit == taken = 0 /\ given = 0 /\ latest = 0

Take == \E n \in 1..(Capacity - (taken - given)) :
          taken' = taken + n /\ UNCHANGED <<given, latest>>

Give == \E n \in 1..(taken - given) :
          given' = given + n /\ latest' = given' /\ UNCHANGED taken

StreamSpec == StreamInit /\ [][Take \/ Give]_streamVars
====

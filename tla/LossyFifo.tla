---- MODULE LossyFifo ----
(***************************************************************************)
(* What every queueing discipline of the emulator promises, whatever it    *)
(* drops: packets are numbered as they arrive; the queue holds some of the *)
(* packets that arrived, and hands out each at most once, in the order in  *)
(* which they arrived.  It may drop any of them at any step.               *)
(***************************************************************************)
EXTENDS Integers

VARIABLES arrived,   \* how many packets have arrived
          waiting,   \* the serial numbers of the packets still held
          last       \* the serial number of the last packet handed out

fifoVars == <<arrived, waiting, last>>

FifoInit == arrived = 0 /\ waiting = {} /\ last = 0

Arrive ==
  /\ arrived' = arrived + 1
  /\ waiting' \in SUBSET (waiting \cup {arrived + 1})
  /\ UNCHANGED last

HandOut ==
  \E x \in waiting :
    /\ last' = x
    /\ waiting' \in SUBSET {y \in waiting : y > x}
    /\ UNCHANGED arrived

Lose == waiting' \in SUBSET waiting /\ UNCHANGED <<arrived, last>>

FifoNext == Arrive \/ HandOut \/ Lose

FifoSpec == FifoInit /\ [][FifoNext]_fifoVars
====

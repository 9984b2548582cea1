---- MODULE AqmQueue ----
(***************************************************************************)
(* What the active queues (CoDel and PIE) share: a plain queue, and a      *)
(* clock that moves between their calls and during them.                   *)
(***************************************************************************)
EXTENDS DroppingQueue

CONSTANTS PacketSize,   \* PACKET_SIZE
          MaxClock      \* bound on the clock

ASSUME AqmAssumption == PacketSize \in Nat /\ MaxClock \in Nat

VARIABLE clock          \* timestamp()

Tick == clock < MaxClock /\ clock' = clock + 1
====

---- MODULE AbcLink ----
(***************************************************************************)
(* An emulated link whose packet queue is the ABC router: LinkQueue        *)
(* composed with CellularQueue.  Each dequeue() that rationalize() makes is *)
(* a step of both; an opportunity that finds the queue empty is reported to *)
(* the router by a dequeue() whose result is thrown away.  The router reads *)
(* the clock itself, later than the opportunity it is asked to serve.      *)
(***************************************************************************)
EXTENDS LinkQueue

CONSTANTS QdelayRef, Delta, Window, TokenLimit, Scale, Wrap, MaxSamples

ASSUME AbcAssumption ==
  /\ QdelayRef \in Nat \ {0} /\ Delta \in Nat \ {0} /\ Window \in Nat \ {0}
  /\ TokenLimit \in Nat \ {0} /\ Scale \in Nat \ {0} /\ Wrap \in Nat \ {0}
  /\ MaxSamples \in Nat /\ Ecns \subseteq {"not_ect", "ect", "ce"}

VARIABLES link_capacity_queue, dq_queue, tokens, accelerated, chances

routerOnly == <<link_capacity_queue, dq_queue, tokens, accelerated, chances>>

Router == INSTANCE CellularQueue WITH returned <- transit, Jumps <- {1}

abcVars == <<vars, routerOnly>>

AbcInit == Init /\ Router!RouterInit

AbcStartPacket(ecn) ==
  LET ret == [Front(queue) EXCEPT !.ecn = ecn] IN
  /\ StartPacket(ret)
  /\ Router!DequeueNotEct(ret) \/ Router!DequeueEct(clock % Wrap, ret)

\* rationalize(): nothing to send in what is left of the opportunity.
AbcEndOpportunity ==
  /\ EndOpportunity
  /\ IF opp.left > 0 THEN Router!DequeueEmpty(clock % Wrap)
     ELSE UNCHANGED routerOnly

AbcEnqueuePacket ==
  /\ EnqueuePacket
  /\ UNCHANGED routerOnly

\* The steps a method takes on its own once it has been called.
AbcRunning ==
  \/ \E ecn \in Ecns \cup {"ce"} : AbcStartPacket(ecn)
  \/ AbcEndOpportunity
  \/ AbcEnqueuePacket
  \/ /\ UseOpportunity \/ SendBytes \/ ReturnWait
     /\ UNCHANGED routerOnly

AbcNext ==
  \/ AbcRunning
  \/ /\ \/ Tick
        \/ \E size \in Sizes, ecn \in Ecns : ReadPacket(size, ecn)
        \/ WaitTime \/ WritePackets
     /\ UNCHANGED routerOnly

AbcSpec == AbcInit /\ [][AbcNext]_abcVars /\ WF_abcVars(AbcRunning)
----
\* The router's promise, seen from the link: when packets fill a delivery
\* opportunity, the router accelerates at most the initial tokens plus 0.49
\* packets for each opportunity of the trace, so two packets per acceleration
\* never come to more than the link can carry.
AcceleratesWithinTrace ==
  accelerated * Scale + tokens <= TokenLimit * Scale + Router!FullCredit * used
====

---- MODULE Relay ----
(***************************************************************************)
(* The DNS proxy's thread for a connection over TCP: a Poller relays bytes *)
(* both ways through two ByteStreamQueues, with four actions in this order: *)
(* read the server, read the client, write the server, write the client.   *)
(* A queue is what BoundedStream says of it.                               *)
(***************************************************************************)
EXTENDS Integers, Sequences

CONSTANTS Capacity,   \* of a ByteStreamQueue: one byte less than its buffer
          MaxSent     \* bytes an end sends

ASSUME RelayAssumption == Capacity \in Nat /\ Capacity > 0 /\ MaxSent \in Nat

Ends == {"server", "client"}
Other(e) == IF e = "server" THEN "client" ELSE "server"

VARIABLES relay,      \* where the TCP thread is
          sent_, unread, \* bytes each end sent, and those of them in its socket
          shut,       \* ends that will send no more
          eof,        \* descriptors that EOF was read from; that action is cancelled
          held,       \* bytes from each end in its queue
          passed,     \* bytes from each end written to the other
          wants, has, \* events and revents of the Poller, by <<end, direction>>
          reset       \* poll() reported an error on a descriptor

relayVars == <<relay, sent_, unread, shut, eof, held, passed, wants, has, reset>>

RelayInit ==
  /\ relay = "turn"
  /\ sent_ = [e \in Ends |-> 0] /\ unread = [e \in Ends |-> 0]
  /\ shut = {} /\ eof = {}
  /\ held = [e \in Ends |-> 0] /\ passed = [e \in Ends |-> 0]
  /\ wants = {} /\ has = {} /\ reset = FALSE
----
EndSends(e) ==
  /\ e \notin shut /\ sent_[e] < MaxSent
  /\ sent_' = [sent_ EXCEPT ![e] = @ + 1] /\ unread' = [unread EXCEPT ![e] = @ + 1]
  /\ UNCHANGED <<relay, shut, eof, held, passed, wants, has, reset>>

EndShuts(e) ==
  /\ e \notin shut /\ shut' = shut \cup {e}
  /\ UNCHANGED <<relay, sent_, unread, eof, held, passed, wants, has, reset>>
----
In(e) == <<e, "in">>
Out(e) == <<e, "out">>
Order == <<In("server"), In("client"), Out("server"), Out("client")>>

\* Slip: a descriptor is read again after its EOF.
StubbornInterest(a) ==
  IF a[2] = "in" THEN held[a[1]] < Capacity ELSE held[Other(a[1])] > 0

\* space_available of the queue from that end, unless it was cancelled or its
\* descriptor had EOF; non_empty of the queue to that end.
IsOfInterest(a) ==
  IF a[2] = "in" THEN a[1] \notin eof /\ held[a[1]] < Capacity
  ELSE held[Other(a[1])] > 0

RelayPollStarts ==
  /\ relay = "turn"
  /\ wants' = {a \in Ends \X {"in", "out"} : IsOfInterest(a)}
  /\ relay' = IF wants' = {} THEN "exited" ELSE "poll"
  /\ UNCHANGED <<sent_, unread, shut, eof, held, passed, has, reset>>

\* Each end takes what it is sent.
IsReady(a) == a[2] = "in" => unread[a[1]] > 0 \/ a[1] \in shut

RelayPollReturns ==
  /\ relay = "poll"
  /\ has' = {a \in wants : IsReady(a)}
  /\ has' # {}
  /\ relay' = "callbacks"
  /\ UNCHANGED <<sent_, unread, shut, eof, held, passed, wants, reset>>

\* After 60 seconds: poll again.
RelayTimesOut ==
  /\ relay = "poll" /\ \A a \in wants : ~IsReady(a)
  /\ relay' = "turn"
  /\ UNCHANGED <<sent_, unread, shut, eof, held, passed, wants, has, reset>>

\* An end is gone altogether: at its place among the callbacks, POLLHUP or POLLERR
\* makes the relay return.
RelayIsReset ==
  /\ relay \in {"poll", "callbacks"} /\ shut # {}
  /\ relay' = "exited" /\ reset' = TRUE
  /\ UNCHANGED <<sent_, unread, shut, eof, held, passed, wants, has>>

\* The callback of a comes next.
IsTurnOf(a) ==
  /\ relay = "callbacks" /\ a \in has
  /\ \A i, j \in DOMAIN Order : Order[j] = a /\ i < j => Order[i] \notin has

\* Slip: EOF ends the relay.
ExitAtEof == "exited"

\* Cancel: the relay goes on with its other actions.
AtEof == relay

\* push(): it asserts that there is space.
ReadsEnd(e, n) ==
  /\ IsTurnOf(In(e))
  /\ has' = has \ {In(e)}
  /\ IF unread[e] = 0
     THEN /\ n = 0 /\ eof' = eof \cup {e} /\ relay' = AtEof
          /\ UNCHANGED <<unread, held>>
     ELSE /\ n > 0 /\ n <= unread[e]
          /\ n <= Capacity - held[e] \/ held[e] >= Capacity
          /\ relay' = IF held[e] < Capacity THEN relay ELSE "aborted"
          /\ unread' = [unread EXCEPT ![e] = @ - n] /\ held' = [held EXCEPT ![e] = @ + n]
          /\ eof' = eof
  /\ UNCHANGED <<sent_, shut, passed, wants, reset>>

\* pop(): it asserts that there is a byte; a write may take a part.
WritesEnd(e, n) ==
  /\ IsTurnOf(Out(e))
  /\ has' = has \ {Out(e)}
  /\ LET from == Other(e) IN
       /\ n > 0 /\ n <= held[from]
       /\ held' = [held EXCEPT ![from] = @ - n]
       /\ passed' = [passed EXCEPT ![from] = @ + n]
  /\ UNCHANGED <<relay, sent_, unread, shut, eof, wants, reset>>

\* An end that is gone may make write() throw.
WriteFails(e) ==
  /\ IsTurnOf(Out(e)) /\ e \in shut
  /\ relay' = "threw"
  /\ UNCHANGED <<sent_, unread, shut, eof, held, passed, wants, has, reset>>

RelayTurnEnds ==
  /\ relay = "callbacks" /\ has = {}
  /\ relay' = "turn"
  /\ UNCHANGED <<sent_, unread, shut, eof, held, passed, wants, has, reset>>
----
RelayRuns ==
  \/ RelayPollStarts \/ RelayPollReturns \/ RelayTimesOut
  \/ \E e \in Ends, n \in 0..MaxSent : ReadsEnd(e, n)
  \/ \E e \in Ends, n \in 1..MaxSent : WritesEnd(e, n)
  \/ RelayTurnEnds

RelayNext ==
  \/ RelayRuns
  \/ \E e \in Ends : EndSends(e) \/ EndShuts(e) \/ WriteFails(e)
  \/ RelayIsReset
----
\* A relay that ends by itself has passed on every byte of both ends, though it
\* cancels the reading of one while the other goes on (dns_proxy.cc:96).
RelaysEverything ==
  relay = "exited" /\ ~reset =>
    shut = Ends /\ \A e \in Ends : passed[e] = sent_[e]

\* When both ends have ended, so does the relay, once it has no action of
\* interest left (dns_proxy.cc:112).
EndsWhenBothDo == shut = Ends ~> relay \in {"exited", "threw"}
====

---- MODULE HttpProxy ----
(***************************************************************************)
(* One connection of the recording proxy: a thread connects to the server  *)
(* that the client meant, sets up TLS on port 443, and then runs a Poller  *)
(* with four actions, in this order: read responses, read requests, write  *)
(* complete requests to the server, write complete responses to the client *)
(* and save them.  A response is read in one or two pieces; one whose end  *)
(* is EOF is ended by that (HttpParser is the parser in detail).  Before   *)
(* the response that a request is answered with, a server may send interim *)
(* ones (status 1xx), which have no body.                                  *)
(***************************************************************************)
EXTENDS Integers, Sequences, FiniteSets

CONSTANTS MaxRequests,   \* bounds: the requests of the client, and
          MaxInterims    \* the interim responses of the server

Pieces == {"whole", "start", "end", "until EOF", "interim"}

VARIABLES tls,           \* port 443
          stage,         \* where the thread is
          asked,         \* requests the client has sent so far
          fromClient, clientClosed, clientEof,
          atServer,      \* requests that the server has received
          answering,     \* the number of the message it is in the middle of, or 0
          fromServer, serverClosed, serverEof,
          reqs,          \* complete messages of request_parser
          awaiting,      \* requests_ of response_parser
          open,          \* its message_in_progress_: <<number, piece>>, or <<>>
          resps,         \* its complete messages: <<request, message of the server>>
          answered,      \* how many messages the server has sent to their end
          meant,         \* the request that each of them is an answer to
          interims,      \* those that were interim
          written,       \* what the client was sent
          interest_, revents_,
          hup,           \* poll() reported an error or a hang-up
          broken         \* the server's TLS handshake failed

netVars == <<asked, fromClient, clientClosed, atServer, answering, fromServer,
             serverClosed, answered, meant, interims>>
pollVars == <<clientEof, serverEof, reqs, awaiting, open, resps, written,
              interest_, revents_, hup, broken>>
httpVars == <<tls, stage, netVars, pollVars>>

HttpInit ==
  /\ tls \in BOOLEAN /\ stage = "accepted"
  /\ asked = 0 /\ fromClient = <<>> /\ clientClosed = FALSE /\ clientEof = FALSE
  /\ atServer = <<>> /\ answering = 0 /\ fromServer = <<>>
  /\ serverClosed = FALSE /\ serverEof = FALSE
  /\ reqs = <<>> /\ awaiting = <<>> /\ open = <<>> /\ resps = <<>>
  /\ answered = 0 /\ meant = <<>> /\ interims = {} /\ written = <<>>
  /\ interest_ = {} /\ revents_ = {} /\ hup = FALSE /\ broken = FALSE
----
(***************************************************************************)
(* The client and the server.                                              *)
(***************************************************************************)
ClientAsks ==
  /\ asked < MaxRequests /\ ~clientClosed
  /\ asked' = asked + 1 /\ fromClient' = Append(fromClient, asked + 1)
  /\ UNCHANGED <<tls, stage, clientClosed, atServer, answering, fromServer,
                 serverClosed, answered, meant, interims, pollVars>>

ClientCloses ==
  /\ ~clientClosed /\ clientClosed' = TRUE
  /\ UNCHANGED <<tls, stage, asked, fromClient, atServer, answering, fromServer,
                 serverClosed, answered, meant, interims, pollVars>>

\* The server takes the requests in order.  An interim response leaves the request
\* to be answered.
ServerSends(piece) ==
  /\ ~serverClosed
  /\ IF piece = "end" THEN answering # 0 ELSE answering = 0 /\ atServer # <<>>
  /\ piece = "interim" => Cardinality(interims) < MaxInterims
  /\ LET m == answered + 1 IN
       /\ fromServer' = Append(fromServer, <<m, piece>>)
       /\ answering' = IF piece = "start" THEN m ELSE 0
       /\ answered' = IF piece = "start" THEN answered ELSE m
       /\ interims' = IF piece = "interim" THEN interims \cup {m} ELSE interims
  /\ meant' = IF piece = "end" THEN meant ELSE Append(meant, Head(atServer))
  /\ atServer' = IF piece \in {"end", "interim"} THEN atServer ELSE Tail(atServer)
  /\ serverClosed' = (piece = "until EOF")
  /\ UNCHANGED <<tls, stage, asked, fromClient, clientClosed, pollVars>>

ServerCloses ==
  /\ ~serverClosed /\ serverClosed' = TRUE
  /\ UNCHANGED <<tls, stage, asked, fromClient, clientClosed, atServer, answering,
                 fromServer, answered, meant, interims, pollVars>>
----
(***************************************************************************)
(* handle_tcp(): connect(), and the two handshakes.  SSL_connect()'s fatal *)
(* failures are negative, which the code does not tell from success: they  *)
(* come out at the first SSL_read().                                       *)
(***************************************************************************)
Connects ==
  /\ stage = "accepted"
  /\ stage' \in {"threw", IF tls THEN "connecting TLS" ELSE "turn"}
  /\ UNCHANGED <<tls, netVars, pollVars>>

ConnectsTls ==
  /\ stage = "connecting TLS"
  /\ stage' \in {"threw", "accepting TLS"}
  /\ broken' \in {FALSE, stage' = "accepting TLS"}
  /\ UNCHANGED <<tls, netVars, clientEof, serverEof, reqs, awaiting, open, resps,
                 written, interest_, revents_, hup>>

AcceptsTls ==
  /\ stage = "accepting TLS"
  /\ stage' \in {"threw", "turn"}
  /\ UNCHANGED <<tls, netVars, pollVars>>
----
\* when_interested() of the four, and no In of a descriptor after its EOF.
HttpInterest ==
  {a \in {"server in", "client in", "server out", "client out"} :
     CASE a = "server in" -> ~clientEof /\ ~serverEof
       [] a = "client in" -> ~clientEof /\ ~serverEof
       [] a = "server out" -> reqs # <<>>
       [] a = "client out" -> resps # <<>>}

HttpPollStarts ==
  /\ stage = "turn"
  /\ interest_' = HttpInterest
  /\ stage' = IF HttpInterest = {} THEN "exited" ELSE "poll"
  /\ UNCHANGED <<tls, netVars, clientEof, serverEof, reqs, awaiting, open, resps,
                 written, revents_, hup, broken>>

HttpReady ==
  {a \in interest_ :
     CASE a = "server in" -> fromServer # <<>> \/ serverClosed
       [] a = "client in" -> fromClient # <<>> \/ clientClosed
       [] OTHER -> TRUE}

HttpPollReturns ==
  /\ stage = "poll" /\ HttpReady # {}
  /\ revents_' = HttpReady /\ stage' = "callbacks"
  /\ UNCHANGED <<tls, netVars, clientEof, serverEof, reqs, awaiting, open, resps,
                 written, interest_, hup, broken>>

\* A peer that is gone altogether: at its place among the callbacks, POLLHUP or
\* POLLERR makes the loop return.
HttpHangsUp ==
  /\ stage \in {"poll", "callbacks"}
  /\ clientClosed \/ serverClosed
  /\ hup' = TRUE /\ stage' = "exited"
  /\ UNCHANGED <<tls, netVars, clientEof, serverEof, reqs, awaiting, open, resps,
                 written, interest_, revents_, broken>>

Turn(a, before) == stage = "callbacks" /\ a \in revents_ /\ revents_ \cap before = {}

\* Slip: a message that EOF ends is not completed.
RespsAsTheyWere == resps

\* What EOF makes of the message in progress.
RespsAfterEof ==
  IF open # <<>> /\ open[2] = "until EOF" THEN Append(resps, <<open[3], open[1]>>)
  ELSE resps

\* What was read goes to response_parser, which takes a request for each message
\* that begins, an interim one too; EOF may end its message, or throw.
ReadsResponse ==
  /\ Turn("server in", {}) /\ ~broken
  /\ revents_' = revents_ \ {"server in"}
  /\ IF fromServer = <<>>
     THEN /\ serverEof' = TRUE /\ open' = <<>>
          /\ UNCHANGED <<fromServer, awaiting>>
          /\ resps' = RespsAfterEof
          /\ stage' = IF open # <<>> /\ open[2] = "start" THEN "threw" ELSE stage
     ELSE LET piece == Head(fromServer) IN
          /\ fromServer' = Tail(fromServer) /\ serverEof' = serverEof
          /\ CASE piece[2] = "end" ->
                    /\ resps' = Append(resps, <<open[3], open[1]>>) /\ open' = <<>>
                    /\ UNCHANGED <<awaiting, stage>>
               [] piece[2] # "end" /\ awaiting = <<>> ->
                    stage' = "unmatched" /\ UNCHANGED <<awaiting, open, resps>>
               [] piece[2] \in {"whole", "interim"} /\ awaiting # <<>> ->
                    /\ resps' = Append(resps, <<Head(awaiting), piece[1]>>)
                    /\ awaiting' = Tail(awaiting) /\ UNCHANGED <<open, stage>>
               [] piece[2] \in {"start", "until EOF"} /\ awaiting # <<>> ->
                    /\ open' = <<piece[1], piece[2], Head(awaiting)>>
                    /\ awaiting' = Tail(awaiting) /\ UNCHANGED <<resps, stage>>
  /\ UNCHANGED <<tls, asked, fromClient, clientClosed, atServer, answering,
                 serverClosed, answered, meant, interims, clientEof, reqs, written,
                 interest_, hup, broken>>

\* A read on a connection whose handshake had failed throws.
ReadThrows ==
  /\ Turn("server in", {}) /\ broken
  /\ stage' = "threw"
  /\ UNCHANGED <<tls, netVars, pollVars>>

ReadsRequest ==
  /\ Turn("client in", {"server in"})
  /\ revents_' = revents_ \ {"client in"}
  /\ IF fromClient = <<>>
     THEN clientEof' = TRUE /\ UNCHANGED <<fromClient, reqs>>
     ELSE /\ reqs' = Append(reqs, Head(fromClient)) /\ fromClient' = Tail(fromClient)
          /\ clientEof' = clientEof
  /\ UNCHANGED <<tls, stage, asked, clientClosed, atServer, answering, fromServer,
                 serverClosed, answered, meant, interims, serverEof, awaiting, open,
                 resps, written, interest_, hup, broken>>

\* Slip: the response parser is told of a request when no other waits.
ToldOfOne(r) == IF awaiting = <<>> THEN <<r>> ELSE awaiting

\* new_request_arrived()
ToldOf(r) == Append(awaiting, r)

\* The request is written first and noted afterwards; this thread reads no
\* response in between.  A server that is gone may make write() throw.
WritesRequest ==
  /\ Turn("server out", {"server in", "client in"})
  /\ revents_' = revents_ \ {"server out"}
  /\ \/ /\ ~broken /\ atServer' = Append(atServer, Head(reqs)) /\ awaiting' = ToldOf(Head(reqs))
        /\ reqs' = Tail(reqs) /\ stage' = stage
     \/ /\ serverClosed \/ broken
        /\ stage' = "threw" /\ UNCHANGED <<atServer, awaiting, reqs>>
  /\ UNCHANGED <<tls, asked, fromClient, clientClosed, answering, fromServer,
                 serverClosed, answered, meant, interims, clientEof, serverEof, open,
                 resps, written, interest_, hup, broken>>

\* The response is written, saved and popped; a client that is gone may make
\* write() throw, and then it is not saved.
WritesResponse ==
  /\ Turn("client out", {"server in", "client in", "server out"})
  /\ revents_' = revents_ \ {"client out"}
  /\ \/ written' = Append(written, Head(resps)) /\ resps' = Tail(resps) /\ stage' = stage
     \/ clientClosed /\ stage' = "threw" /\ UNCHANGED <<written, resps>>
  /\ UNCHANGED <<tls, netVars, clientEof, serverEof, reqs, awaiting, open,
                 interest_, hup, broken>>

HttpTurnEnds ==
  /\ stage = "callbacks" /\ revents_ = {}
  /\ stage' = "turn"
  /\ UNCHANGED <<tls, netVars, pollVars>>

HttpRuns ==
  \/ Connects \/ ConnectsTls \/ AcceptsTls
  \/ HttpPollStarts \/ HttpPollReturns
  \/ ReadsResponse \/ ReadThrows \/ ReadsRequest \/ WritesRequest \/ WritesResponse
  \/ HttpTurnEnds

HttpNext ==
  \/ ClientAsks \/ ClientCloses
  \/ \E piece \in Pieces : ServerSends(piece)
  \/ ServerCloses \/ HttpHangsUp \/ HttpRuns
----
\* Each message of the server is saved and passed on with the request that it is
\* an answer to, and none finds no request, although the request is on its way to
\* the server before the parser of responses knows of it (http_proxy.cc:68): up to
\* the first interim response, which takes the request from the one to come.
AnswersMatchRequests ==
  /\ stage = "unmatched" => interims # {}
  /\ \A k \in DOMAIN written :
       written[k][1] = meant[written[k][2]] \/ \E i \in interims : i < k

\* A connection that ends without an error has passed on all it had: every
\* complete request, and, unless the client has closed, every message that the
\* server had finished before it closed (http_proxy.cc:54, 86).
PassesAllOn ==
  stage = "exited" /\ ~hup =>
    /\ reqs = <<>> /\ resps = <<>>
    /\ ~clientEof => Len(written) = answered
====

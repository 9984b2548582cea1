---- MODULE HttpParser ----
(***************************************************************************)
(* The parser of HTTP responses: HTTPMessageSequence cuts the bytes that   *)
(* were read into messages, HTTPResponse decides how the body of each ends *)
(* (RFC 2616 section 4.4), ChunkedBodyParser finds the end of a chunked    *)
(* one.  TCP may deliver the bytes in any pieces.  A byte is "CR", "LF", a *)
(* digit of a chunk's size, or a name for the whole text of a start line,  *)
(* of a header line or of a piece of a body, which takes one place here.   *)
(***************************************************************************)
EXTENDS Integers, Sequences, SequencesExt

CONSTANTS Exchanges,   \* sequences of responses, as the server answers a connection
          MaxRead      \* the most bytes one read() returns

VARIABLES stream,      \* the responses the server sends: see Wire
          pos, at_eof, \* how much of it was read, and whether EOF was
          where,       \* "idle", or the place in parse()
          buffer_,      \* buffer_: bytes that haven't been parsed yet
          msg,         \* message_in_progress_
          chunked,     \* its ChunkedBodyParser
          requests_,   \* requests that wait for their response
          complete_messages_,
          failed       \* "assert", "throw" or "no"

parserVars == <<stream, pos, at_eof, where, buffer_, msg, chunked, requests_,
                complete_messages_, failed>>

CRLF == <<"CR", "LF">>
Lines(texts) == FlattenSeq([k \in DOMAIN texts |-> <<texts[k]>> \o CRLF])

\* What a server sends for a response [request, status, headers, body].
Wire(r) == <<r.status>> \o CRLF \o Lines(r.headers) \o CRLF \o r.body

StreamBytes == FlattenSeq([k \in DOMAIN stream |-> Wire(stream[k])])
WireEnd(k) == Len(FlattenSeq([j \in 1..k |-> Wire(stream[j])]))

NewMessage == [state |-> "FIRST_LINE_PENDING", request |-> "none", first_line |-> "none",
               headers |-> <<>>, body |-> <<>>, known |-> FALSE, size |-> 0,
               parser |-> "none"]

NewChunked(trailers) == [buf |-> <<>>, state |-> "CHUNK_HDR", size |-> 0,
                         acked |-> 0, parsed |-> 0, trailers |-> trailers]

ParserInit ==
  /\ stream \in Exchanges
  /\ pos = 0 /\ at_eof = FALSE /\ where = "idle" /\ failed = "no"
  /\ buffer_ = <<>> /\ msg = NewMessage /\ chunked = NewChunked(FALSE)
  /\ requests_ = [k \in DOMAIN stream |-> stream[k].request]   \* new_request_arrived()
  /\ complete_messages_ = <<>>

\* buffer_.find(): where the needle begins, or 0.
Find(s, needle) ==
  LET places == {k \in 1..(Len(s) - Len(needle) + 1) :
                   SubSeq(s, k, k + Len(needle) - 1) = needle}
  IN IF places = {} THEN 0 ELSE CHOOSE k \in places : \A j \in places : k <= j

From(s, k) == SubSeq(s, k, Len(s))
Slice(s, j, k) == SubSeq(s, j, IF k < Len(s) THEN k ELSE Len(s))
----
(***************************************************************************)
(* parse(): the connection's reader gives it each piece it read, and an    *)
(* empty one at the end.                                                   *)
(***************************************************************************)
Parse(n) ==
  /\ where = "idle" /\ failed = "no" /\ ~at_eof
  /\ n \in 1..MaxRead /\ pos + n <= Len(StreamBytes)
  /\ buffer_' = buffer_ \o SubSeq(StreamBytes, pos + 1, pos + n)
  /\ pos' = pos + n
  /\ where' = "parsing_step"
  /\ UNCHANGED <<stream, at_eof, msg, chunked, requests_, complete_messages_, failed>>

\* EOF: eof(), which a body that EOF may end survives.
ParseEof ==
  /\ where = "idle" /\ failed = "no" /\ ~at_eof
  /\ at_eof' = TRUE
  /\ where' = "parsing_step"
  /\ CASE msg.state = "FIRST_LINE_PENDING" -> msg' = msg /\ failed' = "no"
       [] msg.state = "HEADERS_PENDING" -> msg' = msg /\ failed' = "throw"
       [] msg.state = "BODY_PENDING" /\ msg.parser # "none" ->
            msg' = [msg EXCEPT !.state = "COMPLETE"] /\ failed' = "no"
       [] msg.state = "BODY_PENDING" /\ msg.parser = "none" ->
            msg' = msg /\ failed' = "throw"
       [] msg.state = "COMPLETE" -> msg' = msg /\ failed' = "assert"
  /\ UNCHANGED <<stream, pos, buffer_, chunked, requests_, complete_messages_>>

Stepping(state) == where = "parsing_step" /\ failed = "no" /\ msg.state = state

HaveLine == Find(buffer_, CRLF) > 0
Line == SubSeq(buffer_, 1, Find(buffer_, CRLF) - 1)
AfterLine == From(buffer_, Find(buffer_, CRLF) + 2)

\* A line is not there yet: the loop of parse() ends.
AwaitsLine ==
  /\ Stepping("FIRST_LINE_PENDING") \/ Stepping("HEADERS_PENDING")
  /\ ~HaveLine
  /\ where' = "idle"
  /\ UNCHANGED <<stream, pos, at_eof, buffer_, msg, chunked, requests_,
                 complete_messages_, failed>>

\* initialize_new_message() and set_first_line(): a response is matched with the
\* first request; one without a request throws.
FirstLine ==
  /\ Stepping("FIRST_LINE_PENDING") /\ HaveLine
  /\ IF requests_ = <<>>
     THEN failed' = "throw" /\ UNCHANGED <<msg, buffer_, requests_>>
     ELSE /\ msg' = [msg EXCEPT !.state = "HEADERS_PENDING", !.request = Head(requests_),
                                !.first_line = IF Line = <<>> THEN "none" ELSE Line[1]]
          /\ requests_' = Tail(requests_) /\ buffer_' = AfterLine /\ failed' = "no"
  /\ UNCHANGED <<stream, pos, at_eof, where, chunked, complete_messages_>>

\* Lines without a colon; status lines, of which "200" stands for most.
StatusLines == {"100", "200", "204", "304"}
Digits == {"0", "1", "2"}
Colonless == {"no colon", "CR", "LF"} \cup StatusLines \cup Digits

\* add_header(); a line without a colon throws.
HeaderLine ==
  /\ Stepping("HEADERS_PENDING") /\ HaveLine /\ Line # <<>>
  /\ IF Line[1] \in Colonless
     THEN failed' = "throw" /\ UNCHANGED msg
     ELSE failed' = "no" /\ msg' = [msg EXCEPT !.headers = Append(@, Line[1])]
  /\ buffer_' = AfterLine
  /\ UNCHANGED <<stream, pos, at_eof, where, chunked, requests_, complete_messages_>>

\* has_header(): names compare without regard to case and leading spaces.
HasHeader(name) == name \in ToSet(msg.headers)

\* Slip: a body that the answer to HEAD describes is waited for.
StatusIsBodiless == msg.first_line \in {"100", "204", "304"}

\* Rule 1.
IsBodiless == msg.first_line \in {"100", "204", "304"} \/ msg.request = "HEAD"

\* calculate_expected_body_size() of a response: status_code() throws for a first
\* line of fewer than three words.  Content-Length is 2 here; the headers "chunked"
\* and "gzip" are a Transfer-Encoding that ends with that.
Framing ==
  IF msg.first_line \notin StatusLines THEN "invalid"
  ELSE IF IsBodiless THEN "empty"
  ELSE IF HasHeader("chunked") THEN "chunked"
  ELSE IF HasHeader("Content-Length") /\ ~HasHeader("gzip") THEN "sized"
  ELSE IF HasHeader("multipart/byteranges") THEN "unsupported"
  ELSE "until EOF"

\* done_with_headers()
BlankLine ==
  /\ Stepping("HEADERS_PENDING") /\ HaveLine /\ Line = <<>>
  /\ buffer_' = AfterLine
  /\ failed' = IF Framing \in {"invalid", "unsupported"} THEN "throw" ELSE "no"
  /\ msg' = [msg EXCEPT !.state = "BODY_PENDING",
                        !.known = Framing \in {"empty", "sized"},
                        !.size = IF Framing = "sized" THEN 2 ELSE 0,
                        !.parser = IF Framing \in {"chunked", "until EOF"}
                                   THEN Framing ELSE "none"]
  /\ chunked' = NewChunked(HasHeader("Trailer"))
  /\ UNCHANGED <<stream, pos, at_eof, where, requests_, complete_messages_>>

\* read_in_body() of a known size: what belongs to the body.
ReadsSizedBody ==
  /\ Stepping("BODY_PENDING") /\ msg.known
  /\ LET left == msg.size - Len(msg.body)
         n == IF left < Len(buffer_) THEN left ELSE Len(buffer_)
     IN /\ msg' = [msg EXCEPT !.body = @ \o SubSeq(buffer_, 1, n),
                              !.state = IF n = left THEN "COMPLETE" ELSE @]
        /\ buffer_' = From(buffer_, n + 1)
        /\ where' = IF n = left THEN where ELSE "idle"
  /\ UNCHANGED <<stream, pos, at_eof, chunked, requests_, complete_messages_, failed>>

\* Rule 5: all of it belongs to the body.
ReadsUntilEof ==
  /\ Stepping("BODY_PENDING") /\ msg.parser = "until EOF"
  /\ msg' = [msg EXCEPT !.body = @ \o buffer_]
  /\ buffer_' = <<>> /\ where' = "idle"
  /\ UNCHANGED <<stream, pos, at_eof, chunked, requests_, complete_messages_, failed>>

\* The message is moved to complete_messages_, and the next one begun.
MessageDone ==
  /\ Stepping("COMPLETE")
  /\ complete_messages_' = Append(complete_messages_,
       [request |-> msg.request, status |-> msg.first_line,
        headers |-> msg.headers, body |-> msg.body])
  /\ msg' = NewMessage
  /\ UNCHANGED <<stream, pos, at_eof, where, buffer_, chunked, requests_, failed>>
----
(***************************************************************************)
(* ChunkedBodyParser: read() is given the new bytes only and keeps those it *)
(* could not parse.  parsed counts the bytes it is through with, acked     *)
(* those of all earlier calls that ended without the end of the body.      *)
(***************************************************************************)
ReadsChunked ==
  /\ Stepping("BODY_PENDING") /\ msg.parser = "chunked"
  /\ chunked' = [chunked EXCEPT !.buf = @ \o buffer_]
  /\ where' = "chunks"
  /\ UNCHANGED <<stream, pos, at_eof, buffer_, msg, requests_, complete_messages_, failed>>

InChunks == where = "chunks" /\ failed = "no"

ChunkLine == Find(chunked.buf, CRLF)
SizeOf(digit) == CASE digit = "0" -> 0 [] digit = "1" -> 1 [] digit = "2" -> 2

\* get_chunk_size(): what is no number throws.
ChunkHeader ==
  /\ InChunks /\ chunked.buf # <<>> /\ chunked.state = "CHUNK_HDR" /\ ChunkLine > 0
  /\ IF chunked.buf[1] \notin Digits
     THEN failed' = "throw" /\ UNCHANGED chunked
     ELSE LET size == SizeOf(chunked.buf[1]) IN
          /\ failed' = "no"
          /\ chunked' = [chunked EXCEPT !.size = size,
                           !.state = IF size = 0 THEN "TRAILER" ELSE "CHUNK",
                           !.parsed = @ + ChunkLine + 1, !.buf = From(@, ChunkLine + 2)]
  /\ UNCHANGED <<stream, pos, at_eof, where, buffer_, msg, requests_, complete_messages_>>

HasChunk == Len(chunked.buf) >= chunked.size + 2

ChunkData ==
  /\ InChunks /\ chunked.buf # <<>> /\ chunked.state = "CHUNK" /\ HasChunk
  /\ failed' = IF Slice(chunked.buf, chunked.size + 1, chunked.size + 2) = CRLF
               THEN "no" ELSE "assert"
  /\ chunked' = [chunked EXCEPT !.state = "CHUNK_HDR", !.parsed = @ + chunked.size + 2,
                                !.buf = From(@, chunked.size + 3)]
  /\ UNCHANGED <<stream, pos, at_eof, where, buffer_, msg, requests_, complete_messages_>>

\* Slip: the trailer is taken for the next message.
NoTrailer == CRLF

\* With trailers, two consecutive CRLFs end the body, else one.
BodyEnding == IF chunked.trailers THEN CRLF \o CRLF ELSE CRLF

\* All of the input belongs to the body, which is not at its end.
ChunksAwait ==
  /\ InChunks
  /\ \/ chunked.buf = <<>>
     \/ chunked.state = "CHUNK_HDR" /\ ChunkLine = 0
     \/ chunked.state = "CHUNK" /\ ~HasChunk
     \/ chunked.state = "TRAILER" /\ Find(chunked.buf, BodyEnding) = 0
  /\ chunked' = [chunked EXCEPT !.acked = @ + Len(buffer_)]
  /\ msg' = [msg EXCEPT !.body = @ \o buffer_]
  /\ buffer_' = <<>> /\ where' = "idle"
  /\ UNCHANGED <<stream, pos, at_eof, requests_, complete_messages_, failed>>

\* compute_ack_size(): the end of the body is parsed - acked bytes into the input.
ChunksEnd ==
  /\ InChunks /\ chunked.buf # <<>> /\ chunked.state = "TRAILER"
  /\ Find(chunked.buf, BodyEnding) > 0
  /\ LET parsed == chunked.parsed + Find(chunked.buf, BodyEnding) - 1 + Len(BodyEnding)
         n == parsed - chunked.acked
     IN /\ failed' = IF n > 0 /\ n <= Len(buffer_) THEN "no" ELSE "assert"
        /\ msg' = [msg EXCEPT !.body = @ \o Slice(buffer_, 1, n), !.state = "COMPLETE"]
        /\ buffer_' = From(buffer_, IF n > 0 THEN n + 1 ELSE 1)
        /\ chunked' = [chunked EXCEPT !.parsed = parsed]
  /\ where' = "parsing_step"
  /\ UNCHANGED <<stream, pos, at_eof, requests_, complete_messages_>>

ParserNext ==
  \/ \E n \in 1..MaxRead : Parse(n)
  \/ ParseEof \/ AwaitsLine \/ FirstLine \/ HeaderLine \/ BlankLine
  \/ ReadsSizedBody \/ ReadsUntilEof \/ MessageDone
  \/ ReadsChunked \/ ChunkHeader \/ ChunkData \/ ChunksAwait \/ ChunksEnd
----
(***************************************************************************)
(* What a server is taken to send: lines of text, and a body delimited as  *)
(* RFC 2616 says in section 4.4, to which the code refers for each rule.   *)
(* Only the last response of a connection can end with it; a response that *)
(* the parser refuses for its status line or a header may have any body.   *)
(* Each answers a request of its own (HttpProxy has interim responses).    *)
(***************************************************************************)
Responses == [request : STRING, status : STRING, headers : Seq(STRING), body : Seq(STRING)]

IsText(x) == x \notin {"CR", "LF"}
LineEndsAt(b, i) == i + 2 <= Len(b) /\ b[i + 1] = "CR" /\ b[i + 2] = "LF"

\* The chunks start at these places: after the data of one starts the next, until
\* one of size 0; the body ends with the first place after that where it may.
ChunksStartAt(starts, b, ending) ==
  /\ 0 \in starts
  /\ \A c \in starts :
       /\ LineEndsAt(b, c + 1)
       /\ IF b[c + 1] = "0"
          THEN LET rest == From(b, c + 4)
               IN Find(rest, ending) > 0 /\ Find(rest, ending) + Len(ending) - 1 = Len(rest)
          ELSE LET end == c + 3 + SizeOf(b[c + 1])
               IN LineEndsAt(b, end) /\ end + 2 \in starts

IsChunked(b, ending) ==
  \E starts \in SUBSET {c \in 0..(Len(b) - 1) : b[c + 1] \in Digits} :
    ChunksStartAt(starts, b, ending)

\* The trailer may have lines, of which the CR LF of the last and one more end the
\* body, or none (section 3.6.1), whatever a Trailer header says.
TrailerEndings == {CRLF, CRLF \o CRLF}

IsDelimited(r, isLast) ==
  LET has(name) == name \in ToSet(r.headers)
  IN IF r.status \in {"100", "204", "304"} \/ r.request = "HEAD" THEN r.body = <<>>
     ELSE IF has("chunked") THEN \E ending \in TrailerEndings : IsChunked(r.body, ending)
     ELSE IF has("Content-Length") /\ ~has("gzip") THEN Len(r.body) = 2
     ELSE isLast /\ r.body = <<"until EOF">>

IsRefused(r) == r.status \notin StatusLines \/ ToSet(r.headers) \cap Colonless # {}

ASSUME ParserAssumption ==
  /\ MaxRead \in Nat
  /\ Exchanges \subseteq Seq(Responses)
  /\ \A e \in Exchanges : \A k \in DOMAIN e :
       /\ IsText(e[k].status) /\ \A j \in DOMAIN e[k].headers : IsText(e[k].headers[j])
       /\ IsRefused(e[k]) \/ IsDelimited(e[k], k = Len(e))
----
EndsAtEof(r) == "chunked" \in ToSet(r.headers) \/ r.body = <<"until EOF">>

\* The trailer has lines if, and only if, there is a Trailer header.  The parser relies
\* on this: where it is otherwise, it takes a piece of the next response for the
\* trailer, or of the trailer for the next response (chunked_parser.cc:80).
Ending(r) == IF "Trailer" \in ToSet(r.headers) THEN CRLF \o CRLF ELSE CRLF
IsAnnounced(r) ==
  "chunked" \in ToSet(r.headers) /\ r.body # <<>> => IsChunked(r.body, Ending(r))
AreAnnounced(n) == \A k \in 1..n : IsAnnounced(stream[k])

\* The messages are those the server sent, byte for byte, each with the request
\* it answers, wherever the reads have split the delimiters; only one that EOF
\* may end is ever cut short, by EOF (chunked_parser.cc:116,
\* http_message_sequence.hh:125).  This holds up to the first response whose trailer
\* is not as its headers announce.
MessagesAreThoseSent ==
  \A k \in DOMAIN complete_messages_ : AreAnnounced(k) =>
    \/ complete_messages_[k] = stream[k]
    \/ /\ at_eof /\ k = Len(complete_messages_) /\ EndsAtEof(stream[k])
       /\ [complete_messages_[k] EXCEPT !.body = <<>>] = [stream[k] EXCEPT !.body = <<>>]
       /\ IsPrefix(complete_messages_[k].body, stream[k].body)

\* A message all of whose bytes have been parsed is complete: nothing waits for
\* more bytes than belong to it, or for EOF that a pipelined connection never
\* sees (http_message_sequence.hh:128), up to the same response.
NothingIsHeldBack ==
  where = "idle" /\ failed = "no" =>
    \A k \in DOMAIN stream :
      /\ AreAnnounced(k) /\ WireEnd(k) <= pos
      /\ stream[k].body = <<"until EOF">> => at_eof
      => k <= Len(complete_messages_)
====

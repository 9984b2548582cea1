---- MODULE MCProxies ----
(***************************************************************************)
(* What a server may answer on one connection: one response or two, with   *)
(* each way of delimiting a body, chunks whose data is itself CR LF, a     *)
(* trailer, with and without the header that announces one, and lines that *)
(* the parser refuses.                                                     *)
(***************************************************************************)
EXTENDS Proxies

Resp(q, s, h, b) == [request |-> q, status |-> s, headers |-> h, body |-> b]

EndOfChunks == <<"0">> \o CRLF

Delimited ==
  {Resp("GET", "204", <<>>, <<>>),
   Resp("HEAD", "200", <<"Content-Length">>, <<>>),
   Resp("GET", "200", <<"other", "Content-Length">>, CRLF),
   Resp("GET", "200", <<"chunked">>,
        <<"1">> \o CRLF \o <<"LF">> \o CRLF \o EndOfChunks \o CRLF),
   Resp("GET", "200", <<"chunked", "Trailer">>,
        <<"2">> \o CRLF \o CRLF \o CRLF \o EndOfChunks \o <<"other">> \o CRLF \o CRLF),
   Resp("GET", "200", <<"chunked", "Trailer">>, EndOfChunks \o CRLF),
   Resp("GET", "200", <<"chunked">>, EndOfChunks \o <<"other">> \o CRLF \o CRLF)}

\* These can only be the last of a connection.
Lasting ==
  {Resp("GET", "200", <<"gzip", "Content-Length">>, <<"until EOF">>),
   Resp("GET", "200", <<"multipart/byteranges">>, <<"until EOF">>),
   Resp("GET", "200", <<"no colon">>, <<>>),
   Resp("GET", "short", <<>>, <<>>)}

MCExchanges ==
  {<<r>> : r \in Delimited \cup Lasting} \cup (Delimited \X (Delimited \cup Lasting))
====

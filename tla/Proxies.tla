---- MODULE Proxies ----
(***************************************************************************)
(* The proxies that serve the processes in a shell.  Each connection has a *)
(* thread to itself and shares nothing with the others, so that one thread *)
(* is run at a time: the ring buffer between two sockets (ByteStreamQueue), *)
(* the DNS proxy that relays with two of them (Relay), the connection of   *)
(* the recording proxy (HttpProxy) and the parser it uses (HttpParser).    *)
(***************************************************************************)
EXTENDS ByteStreamQueue, HttpParser, HttpProxy, Relay

Parts == {"ring", "relay", "connection", "parser"}

VARIABLE part   \* which of them runs

proxiesVars == <<part, vars, parserVars, httpVars, relayVars>>

ProxiesInit ==
  /\ part \in Parts
  /\ Init /\ ParserInit /\ HttpInit /\ RelayInit
  /\ part = "parser" \/ stream = CHOOSE e \in Exchanges : TRUE
  /\ part = "connection" \/ ~tls

ProxiesNext ==
  /\ part' = part
  /\ \/ part = "ring" /\ Next /\ UNCHANGED <<parserVars, httpVars, relayVars>>
     \/ part = "parser" /\ ParserNext /\ UNCHANGED <<vars, httpVars, relayVars>>
     \/ part = "connection" /\ HttpNext /\ UNCHANGED <<vars, parserVars, relayVars>>
     \/ part = "relay" /\ RelayNext /\ UNCHANGED <<vars, parserVars, httpVars>>

\* The relay's thread is scheduled, and poll() returns when a descriptor is ready.
ProxiesSpec ==
  /\ ProxiesInit /\ [][ProxiesNext]_proxiesVars
  /\ WF_relayVars(part = "relay" /\ RelayRuns)
====

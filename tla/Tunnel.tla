------------------------------- MODULE Tunnel -------------------------------
(***************************************************************************)
(* One CONNECT request: ServeHTTP and HandleTunnel (handler.go), the       *)
(* RetryDialer that rescues a blocked destination by resolving it itself   *)
(* (retry.go) and the ProxyDialer that asks the upstream proxy for each    *)
(* tunnel (upstream.go), with the life of every upstream connection.       *)
(*                                                                         *)
(* Each request has a goroutine of its own and the dialers keep no state,  *)
(* so that requests do not meet here.                                      *)
(***************************************************************************)
EXTENDS Integers, Sequences

CONSTANTS
  Host,         \* the destination as the client names it
  Addresses,    \* addresses the resolver can find for it
  Lookups,      \* lists of addresses that LookupNetIP can return
  Protocols     \* major versions of HTTP the server in front can speak

ASSUME TunnelAssumption ==
  /\ Host \notin Addresses
  /\ Lookups \subseteq Seq(Addresses)
  /\ Protocols \subseteq Nat

VARIABLES
  req,          \* the request, as far as the handler looks at it
  pc,           \* what the handler is doing
  gone,         \* the client has gone: the context of the request is done
  attempts,     \* the calls of ProxyDialer.DialContext, oldest first
  dests,        \* destinations still to dial, the current one first
  resolved,     \* the addresses LookupNetIP returned
  reply         \* the status the client was sent, 0 for none yet

vars == <<req, pc, gone, attempts, dests, resolved, reply>>

\* port: RequestURI is a host and a port.  wellFormed: ServeHTTP finds the
\* host where the version of the protocol puts it.
Requests == [wellFormed : BOOLEAN, port : BOOLEAN, proto : Protocols]

\* An attempt and its connection: "unreachable" has none, and ours is open
\* until somebody closes it.
Attempts == [to : Addresses \cup {Host},
             verdict : {"unreachable", "asked", "granted", "blocked", "refused"},
             open : BOOLEAN]

Init ==
  /\ req \in Requests
  /\ pc = "serve"     /\ gone = FALSE
  /\ attempts = <<>> /\ dests = <<>> /\ resolved = <<>>
  /\ reply = 0

Finish(status) == pc' = "done" /\ reply' = status

SilentFailure == pc' = "done" /\ UNCHANGED reply

\* http.Error with the status of every failure to get a tunnel.
BadGateway == Finish(502)

-----------------------------------------------------------------------------
(* ServeHTTP and RetryDialer.DialContext.                                  *)

\* ServeHTTP refuses what it cannot read, and hands a CONNECT to HandleTunnel.
ServeHTTP ==
  /\ pc = "serve"
  /\ IF req.wellFormed
     THEN pc' = "dial" /\ dests' = <<Host>> /\ UNCHANGED reply
     ELSE Finish(400) /\ UNCHANGED dests
  /\ UNCHANGED <<req, gone, attempts, resolved>>

OnlyFirstAddress == dests' = <<>> /\ BadGateway

ReturnsLastConn ==
  /\ dests' = Tail(dests)
  /\ pc' = IF Tail(dests) = <<>> THEN "answer" ELSE "dial"
  /\ UNCHANGED reply

\* The dial failed: the next address of the rescue, or the last error.
AttemptFailed ==
  /\ dests' = Tail(dests)
  /\ IF Tail(dests) = <<>> THEN BadGateway ELSE pc' = "dial" /\ UNCHANGED reply

RescueAnyFailure(verdict) == verdict # "granted" /\ Len(attempts) = 1

\* Only a block of the first dial is rescued, and only with a port to dial.
Rescuable(verdict) == verdict = "blocked" /\ Len(attempts) = 1

\* LookupNetIP: an error, or addresses to dial in their order.  With no
\* address at all the loop is empty and the dial fails as well.
Lookup ==
  /\ pc = "lookup"
  /\ \/ /\ BadGateway
        /\ UNCHANGED <<dests, resolved>>
     \/ \E list \in Lookups :
          /\ resolved' = list
          /\ dests' = list
          /\ IF list = <<>> THEN BadGateway ELSE pc' = "dial" /\ UNCHANGED reply
  /\ UNCHANGED <<req, gone, attempts>>

-----------------------------------------------------------------------------
(* ProxyDialer.DialContext.                                                *)

\* The connection to the endpoint, always the same, for whatever destination.
Dial ==
  /\ pc = "dial"
  /\ \/ /\ attempts' = Append(attempts,
             [to |-> Head(dests), verdict |-> "asked", open |-> TRUE])
        /\ pc' = "exchange"
        /\ UNCHANGED <<dests, reply>>
     \/ /\ attempts' = Append(attempts,
             [to |-> Head(dests), verdict |-> "unreachable", open |-> FALSE])
        /\ AttemptFailed
  /\ UNCHANGED <<req, gone, resolved>>

\* The verdict of the upstream on the current attempt.  The connection stays
\* open, also on the paths that return an error and no connection.
Judged(verdict) == attempts' = [attempts EXCEPT ![Len(attempts)].verdict = verdict]

\* The TLS handshake, the CONNECT request and its response.  "refused" stands
\* for a write or a read that failed, too.
Exchange ==
  /\ pc = "exchange"
  /\ \E verdict \in {"granted", "blocked", "refused"} :
       /\ Judged(verdict)
       /\ \/ /\ verdict = "granted"
             /\ pc' = "answer"
             /\ UNCHANGED <<dests, reply>>
          \/ /\ verdict # "granted"
             /\ ~Rescuable(verdict)
             /\ AttemptFailed
          \/ /\ Rescuable(verdict)
             /\ IF req.port THEN pc' = "lookup" /\ UNCHANGED reply ELSE BadGateway
             /\ UNCHANGED dests
  /\ UNCHANGED <<req, gone, resolved>>

-----------------------------------------------------------------------------
(* HandleTunnel with the connection it was given.                          *)

Relay == pc' = "relay" /\ reply' = 200

\* HTTP/1 is answered over the hijacked connection, HTTP/2 over its stream.
\* A failed hijack and any other version forget the connection.  What the
\* client has sent by then, and the hijack drops, is data and left to Relay.
Answer ==
  /\ pc = "answer"
  /\ \/ req.proto \in {0, 1} /\ (Relay \/ Finish(500))
     \/ req.proto = 2 /\ Relay
     \/ req.proto > 2 /\ Finish(400)
  /\ UNCHANGED <<req, gone, attempts, dests, resolved>>

CloseUpstream == attempts' = [attempts EXCEPT ![Len(attempts)].open = FALSE]

\* proxy and proxyh2 return with the upstream connection closed.
RelayEnds ==
  /\ pc = "relay"
  /\ pc' = "done"
  /\ CloseUpstream
  /\ UNCHANGED <<req, gone, dests, resolved, reply>>

-----------------------------------------------------------------------------
(* The surroundings.                                                       *)

\* The client closes its connection while the handler runs.
ClientLeaves ==
  /\ ~gone /\ pc \notin {"serve", "done"}
  /\ gone' = TRUE
  /\ UNCHANGED <<req, pc, attempts, dests, resolved, reply>>

\* Nobody holds the connection of attempt n any more.
Forgotten(n) == \/ attempts[n].verdict \in {"blocked", "refused"}
                \/ pc = "done"

\* The finalizer of a forgotten connection closes it.
Collect ==
  /\ \E n \in DOMAIN attempts :
       /\ attempts[n].open /\ Forgotten(n)
       /\ attempts' = [attempts EXCEPT ![n].open = FALSE]
  /\ UNCHANGED <<req, pc, gone, dests, resolved, reply>>

Next == \/ ServeHTTP \/ Dial \/ Exchange \/ Lookup \/ Answer \/ RelayEnds
        \/ ClientLeaves \/ Collect

\* What the program does without waiting for anybody: net.Dialer has a
\* timeout, a lookup and the relay end with the context of the request.
ProgramFairness ==
  /\ WF_vars(ServeHTTP) /\ WF_vars(Dial) /\ WF_vars(Answer)
  /\ WF_vars(gone /\ (Lookup \/ RelayEnds))

\* The upstream and the resolver answer, sooner or later.
PeerFairness == WF_vars(Exchange) /\ WF_vars(Lookup)

Spec == Init /\ [][Next]_vars

ProgramSpec == Spec /\ ProgramFairness

FairSpec == ProgramSpec /\ PeerFairness

-----------------------------------------------------------------------------
(* Properties.                                                             *)

\* The type invariant; a handler about to dial has something to dial.
TypeOK ==
  /\ req \in Requests
  /\ pc \in {"serve", "dial", "exchange", "lookup", "answer", "relay", "done"}
  /\ gone \in BOOLEAN
  /\ attempts \in Seq(Attempts)
  /\ dests \in Seq(Addresses \cup {Host})
  /\ pc \in {"dial", "exchange"} => dests # <<>>
  /\ resolved \in Seq(Addresses)
  /\ reply \in {0, 200, 400, 500, 502}

\* A client is told 200 only about a connection for which the upstream
\* granted the tunnel, the last one dialled, and while data is relayed that
\* connection is open: never one of the connections of a failed attempt.
TunnelIsGranted ==
  /\ reply = 200 => attempts[Len(attempts)].verdict = "granted"
  /\ pc = "relay" => attempts[Len(attempts)].open

\* The destinations dialled are the host the client named and then, only if
\* the upstream blocked it, the addresses resolved for it, in their order and
\* none twice; nothing is dialled after a tunnel was granted.
RescueInOrder ==
  /\ Len(attempts) <= 1 + Len(resolved)
  /\ \A n \in DOMAIN attempts : attempts[n].to = (<<Host>> \o resolved)[n]
  /\ Len(attempts) > 1 => attempts[1].verdict = "blocked"
  /\ \A n \in DOMAIN attempts : attempts[n].verdict = "granted" => n = Len(attempts)

\* The handler reports a bad gateway only when it has tried everything it
\* may: the host, and after a block of it every address the resolver gave.
BadGatewayJustified ==
  reply = 502 =>
    /\ \A n \in DOMAIN attempts : attempts[n].verdict # "granted"
    /\ Len(attempts) = 1 + Len(resolved)

\* Every request is answered if the peers answer, however many addresses the
\* rescue goes through.
Answered == pc = "serve" ~> reply # 0

\* README.md:158 and main.go:134 call -timeout the "timeout for network
\* operations"; the handshake and the CONNECT exchange with the upstream are
\* such operations, and without a peer that answers they should end as well.
NetworkOperationsTimeOut == pc = "exchange" ~> pc # "exchange"
=============================================================================

-------------------------------- MODULE Relay --------------------------------
(***************************************************************************)
(* The relay of a granted tunnel (utils.go): proxy for a hijacked HTTP/1   *)
(* connection and proxyh2 for an HTTP/2 stream.  One goroutine copies each *)
(* direction, a third waits for both, and the handler waits for that one   *)
(* or for the end of the request's context.                                *)
(*                                                                         *)
(* The model begins when the upstream has granted the tunnel and the       *)
(* handler (handler.go) has yet to take over the client's connection: a    *)
(* client need not wait for its answer before it sends.                    *)
(***************************************************************************)
EXTENDS Naturals

CONSTANT MaxChunks     \* bound: chunks each peer sends

ASSUME ChunksAssumption == MaxChunks \in Nat

\* The client is on the left, the upstream proxy on the right.
Sides == {"left", "right"}

Other(s) == IF s = "left" THEN "right" ELSE "left"

VARIABLES
  http2,        \* proxyh2 runs, and not proxy
  peer,         \* per side: the peer's end is "open", at its "eof", or "reset"
  sent,         \* per side: chunks the peer has sent
  taken,        \* per side: chunks read from it
  given,        \* per side: chunks read from it that the other side took
  early,        \* HTTP/1: chunks the server's own reader took from the client
  open,         \* per side: our end of the connection is open
  copier,       \* per source side: "off", "read", "write", "close" or "done"
  waiter,       \* the goroutine on the WaitGroup: "wait", "send" or "done"
  main,         \* the handler: "granted", "select", "drain" or "returned"
  ctxDone       \* the context of the request is done

data  == <<sent, taken, given, early>>
ends  == <<peer, open>>
procs == <<copier, waiter, main>>
vars  == <<http2, data, ends, procs, ctxDone>>

Init ==
  /\ http2 \in BOOLEAN
  /\ peer   = [s \in Sides |-> "open"]
  /\ sent   = [s \in Sides |-> 0]
  /\ taken  = [s \in Sides |-> 0]
  /\ given  = [s \in Sides |-> 0]
  /\ early  = 0
  /\ open   = [s \in Sides |-> TRUE]
  /\ copier = [s \in Sides |-> "off"]
  /\ waiter = "wait"
  /\ main = "granted"
  /\ ctxDone \in BOOLEAN

-----------------------------------------------------------------------------
(* From the grant to the start of the relay.                               *)

\* The reader of an HTTP/1 connection takes in what follows the request: with
\* the same read, or in the background while the handler runs.
ServerReads ==
  /\ main = "granted" /\ ~http2
  /\ peer["left"] # "reset" /\ taken["left"] + early < sent["left"]
  /\ early' = early + 1
  /\ UNCHANGED <<http2, sent, taken, given, ends, procs, ctxDone>>

\* Hijack returns the connection together with that reader, which HandleTunnel
\* drops with all that it has taken in.  An HTTP/2 stream keeps its body.
Discarded(s) == IF s = "left" /\ ~http2 THEN early ELSE 0

\* HandleTunnel takes over the connection and the copiers start.
StartRelay ==
  /\ main = "granted"
  /\ main' = "select"
  /\ copier' = [s \in Sides |-> "read"]
  /\ UNCHANGED <<http2, data, ends, waiter, ctxDone>>

-----------------------------------------------------------------------------
(* The copying goroutine that reads from side s.                           *)

At(s, from, to) == copier[s] = from /\ copier' = [copier EXCEPT ![s] = to]

ForgetsBuffered(s) == peer[s] # "open" \/ ~open[s]

\* A read returns no more data: all of it has been read, or the connection is
\* broken or closed.
AtEnd(s) == \/ peer[s] = "eof" /\ taken[s] + Discarded(s) = sent[s]
            \/ peer[s] = "reset"
            \/ ~open[s]

Read(s) ==
  /\ open[s] /\ peer[s] # "reset" /\ taken[s] + Discarded(s) < sent[s]
  /\ At(s, "read", "write")
  /\ taken' = [taken EXCEPT ![s] = @ + 1]
  /\ UNCHANGED <<http2, sent, given, early, ends, waiter, main, ctxDone>>

ReadEnds(s) ==
  /\ AtEnd(s)
  /\ At(s, "read", "close")
  /\ UNCHANGED <<http2, data, ends, waiter, main, ctxDone>>

\* Closing the body of an HTTP/2 request leaves its response writable.
Writable(d) == peer[d] # "reset" /\ (open[d] \/ (http2 /\ d = "left"))

Write(s) ==
  /\ Writable(Other(s))
  /\ At(s, "write", "read")
  /\ given' = [given EXCEPT ![s] = @ + 1]
  /\ UNCHANGED <<http2, sent, taken, early, ends, waiter, main, ctxDone>>

IgnoresWriteError(s) ==
  /\ ~open[Other(s)] \/ peer[Other(s)] = "reset"
  /\ At(s, "write", "read")
  /\ UNCHANGED <<http2, data, ends, waiter, main, ctxDone>>

WriteFails(s) ==
  /\ ~open[Other(s)] \/ peer[Other(s)] = "reset"
  /\ At(s, "write", "close")
  /\ UNCHANGED <<http2, data, ends, waiter, main, ctxDone>>

ClosesNothing(s) == {}

\* What a copying goroutine closes when it is done: its destination, except
\* that the writer of an HTTP/2 response cannot be closed.
Closes(s) == IF http2 /\ s = "right" THEN {} ELSE {Other(s)}

Finish(s) ==
  /\ At(s, "close", "done")
  /\ open' = [d \in Sides |-> open[d] /\ d \notin Closes(s)]
  /\ UNCHANGED <<http2, data, peer, waiter, main, ctxDone>>

Copier(s) == Read(s) \/ ReadEnds(s) \/ Write(s) \/ WriteFails(s) \/ Finish(s)

-----------------------------------------------------------------------------
(* The waiting goroutine and the handler.                                  *)

AllCopied ==
  /\ waiter = "wait"
  /\ \A s \in Sides : copier[s] = "done"
  /\ waiter' = "send"
  /\ UNCHANGED <<http2, data, ends, copier, main, ctxDone>>

ReturnsAtOnce == "returned"

\* After closing both ends the handler still waits for groupdone.
AfterContext == "drain"

ContextEnds ==
  /\ main = "select" /\ ctxDone
  /\ open' = [s \in Sides |-> FALSE]
  /\ main' = AfterContext
  /\ UNCHANGED <<http2, data, peer, copier, waiter, ctxDone>>

\* The handler receives from groupdone.
GroupDone ==
  /\ main \in {"select", "drain"} /\ waiter = "send"
  /\ main' = "returned"
  /\ waiter' = "done"
  /\ UNCHANGED <<http2, data, ends, copier, ctxDone>>

-----------------------------------------------------------------------------
(* The peers and the server.                                               *)

PeerSends(s) ==
  /\ peer[s] = "open" /\ sent[s] < MaxChunks
  /\ sent' = [sent EXCEPT ![s] = @ + 1]
  /\ UNCHANGED <<http2, taken, given, early, ends, procs, ctxDone>>

PeerEnds(s, how) ==
  /\ peer[s] = "open" \/ (peer[s] = "eof" /\ how = "reset")
  /\ peer' = [peer EXCEPT ![s] = how]
  /\ UNCHANGED <<http2, data, open, procs, ctxDone>>

Cancel ==
  /\ ~ctxDone
  /\ ctxDone' = TRUE
  /\ UNCHANGED <<http2, data, ends, procs>>

Next == \/ \E s \in Sides : Copier(s) \/ PeerSends(s)
        \/ \E s \in Sides, how \in {"eof", "reset"} : PeerEnds(s, how)
        \/ ServerReads \/ StartRelay
        \/ AllCopied \/ ContextEnds \/ GroupDone \/ Cancel

\* The goroutines run; the peers read what they are sent, so that no write
\* blocks for ever, but they need not send or close.
Fairness == /\ WF_vars(StartRelay)
            /\ \A s \in Sides : WF_vars(Copier(s))
            /\ WF_vars(AllCopied) /\ WF_vars(ContextEnds) /\ WF_vars(GroupDone)

Spec == Init /\ [][Next]_vars

FairSpec == Spec /\ Fairness

-----------------------------------------------------------------------------
(* Properties.                                                             *)

\* The type invariant; a copier holds one chunk at most, and none when it
\* reads: nothing is skipped or doubled.
TypeOK ==
  /\ http2 \in BOOLEAN /\ ctxDone \in BOOLEAN
  /\ peer \in [Sides -> {"open", "eof", "reset"}]
  /\ sent \in [Sides -> Nat] /\ taken \in [Sides -> Nat] /\ given \in [Sides -> Nat]
  /\ early \in Nat
  /\ open \in [Sides -> BOOLEAN]
  /\ copier \in [Sides -> {"off", "read", "write", "close", "done"}]
  /\ waiter \in {"wait", "send", "done"}
  /\ main \in {"granted", "select", "drain", "returned"}
  /\ \A s \in Sides : /\ given[s] <= taken[s] /\ taken[s] + Discarded(s) <= sent[s]
                      /\ taken[s] <= given[s] + 1
                      /\ copier[s] \in {"off", "read"} => taken[s] = given[s]

\* What a peer sent before it closed reaches the other one to the last chunk,
\* as long as the other end has not closed or broken and the request lives.
\* The one exception is what a client of HTTP/1 sent before its connection was
\* taken over and the server had read by then: these chunks, and no others,
\* are missing from what the upstream gets.
DeliversAll ==
  \A s \in Sides :
    /\ copier[s] = "done"
    /\ peer[s] = "eof" /\ peer[Other(s)] = "open"
    /\ ~ctxDone
    => given[s] + Discarded(s) = sent[s]

\* When the relay returns its three goroutines have ended and the upstream
\* connection is closed, in HTTP/1 the client's as well.
NothingLeft ==
  main = "returned" =>
    /\ waiter = "done"
    /\ \A s \in Sides : copier[s] = "done"
    /\ ~open["right"]
    /\ ~http2 => ~open["left"]

\* The relay ends when the client or the request ends, and in HTTP/1 also when
\* the upstream does.
RelayReturns ==
  (\/ ctxDone
   \/ peer["left"] # "open"
   \/ peer["right"] # "open" /\ ~http2) ~> main = "returned"
=============================================================================

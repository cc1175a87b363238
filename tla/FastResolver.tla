---------------------------- MODULE FastResolver ----------------------------
(***************************************************************************)
(* FastResolver.LookupNetIP (resolver.go): one lookup raced over all       *)
(* upstream resolvers.  A goroutine per upstream hands its answer to the   *)
(* caller over one of two unbuffered channels; the caller returns on the   *)
(* first success, on the end of its context, or after an error of each.    *)
(***************************************************************************)
EXTENDS Naturals, FiniteSets

CONSTANTS Upstreams,     \* the resolvers of -resolver, possibly none
          NoUpstream     \* stands for "no upstream"

ASSUME UpstreamsAssumption == /\ IsFiniteSet(Upstreams)
                              /\ NoUpstream \notin Upstreams

VARIABLES
  answer,     \* per upstream: "none" yet, or what its LookupNetIP returned
  gpc,        \* per goroutine: in the "lookup", in a "send", or "done"
  pc,         \* the caller: "collect" or "returned"
  i,          \* iterations of the collecting loop completed
  errs,       \* upstreams whose error was appended to resErr
  parentDone, \* the context of the request is done
  cancelled,  \* the deferred cl() has cancelled the derived context
  result      \* what LookupNetIP returned: its kind and the upstream it is from

vars == <<answer, gpc, pc, i, errs, parentDone, cancelled, result>>

CtxDone == parentDone \/ cancelled

NoResult == [kind |-> "none", from |-> NoUpstream]

Init ==
  /\ answer = [u \in Upstreams |-> "none"]
  /\ gpc = [u \in Upstreams |-> "lookup"]
  /\ pc = "collect" /\ i = 0 /\ errs = {}
  /\ parentDone = FALSE /\ cancelled = FALSE
  /\ result = NoResult

-----------------------------------------------------------------------------
(* The goroutine of upstream u.                                            *)

\* The lookup returns addresses or an error; a context that is done makes it
\* return, though not necessarily with an error.
Answer(u) ==
  /\ gpc[u] = "lookup"
  /\ \E kind \in {"ok", "err"} : answer' = [answer EXCEPT ![u] = kind]
  /\ gpc' = [gpc EXCEPT ![u] = "send"]
  /\ UNCHANGED <<pc, i, errs, parentDone, cancelled, result>>

NeverAbandons(u) == FALSE

\* The select on ctx.Done() while nobody receives the answer.
Abandon(u) ==
  /\ gpc[u] = "send" /\ CtxDone
  /\ gpc' = [gpc EXCEPT ![u] = "done"]
  /\ UNCHANGED <<answer, pc, i, errs, parentDone, cancelled, result>>

-----------------------------------------------------------------------------
(* The caller.                                                             *)

\* A return: the deferred cl() cancels the derived context.
Return(kind, u) ==
  /\ pc' = "returned"
  /\ result' = [kind |-> kind, from |-> u]
  /\ cancelled' = TRUE

\* One iteration of the loop is running.
Collecting == pc = "collect" /\ i < Cardinality(Upstreams)

\* The unbuffered channel pairs the caller with the goroutine that sends.
Receive(u, kind) ==
  /\ Collecting
  /\ gpc[u] = "send" /\ answer[u] = kind
  /\ gpc' = [gpc EXCEPT ![u] = "done"]

ReceiveSuccess(u) ==
  /\ Receive(u, "ok")
  /\ Return("ok", u)
  /\ UNCHANGED <<answer, i, errs, parentDone>>

CountedTwice(u) == errs' = errs \cup {u} /\ i' = i + 2

\* The error is appended to resErr and its iteration of the loop is over.
Counted(u) == errs' = errs \cup {u} /\ i' = i + 1

ReceiveError(u) ==
  /\ Receive(u, "err")
  /\ Counted(u)
  /\ UNCHANGED <<answer, pc, parentDone, cancelled, result>>

IgnoresContext == FALSE

\* The select on ctx.Done() in the loop.
ContextEnds ==
  /\ Collecting /\ CtxDone
  /\ Return("ctx", NoUpstream)
  /\ UNCHANGED <<answer, gpc, i, errs, parentDone>>

FirstErrorWins == pc = "collect" /\ i >= 1

\* The condition under which the loop over the upstreams is left.
LoopOver == pc = "collect" /\ i = Cardinality(Upstreams)

\* The loop is over: resErr holds an error of every upstream.  With no
\* upstream at all resErr is nil, so that the lookup succeeds with no address.
Exhausted ==
  /\ LoopOver
  /\ Return(IF errs = {} THEN "ok" ELSE "err", NoUpstream)
  /\ UNCHANGED <<answer, gpc, i, errs, parentDone>>

\* The client that asked for the tunnel goes away.
ParentCancelled ==
  /\ ~parentDone
  /\ parentDone' = TRUE
  /\ UNCHANGED <<answer, gpc, pc, i, errs, cancelled, result>>

Caller == \/ ContextEnds
          \/ Exhausted
          \/ \E u \in Upstreams : ReceiveSuccess(u) \/ ReceiveError(u)

Next == \/ Caller
        \/ ParentCancelled
        \/ \E u \in Upstreams : Answer(u) \/ Abandon(u)

\* The caller and the goroutines run.  An upstream owes an answer only once
\* the context it was called with is done: until then it may stay silent.
Fairness ==
  /\ WF_vars(Caller)
  /\ \A u \in Upstreams : WF_vars(Abandon(u)) /\ WF_vars(CtxDone /\ Answer(u))

Spec == Init /\ [][Next]_vars

FairSpec == Spec /\ Fairness

-----------------------------------------------------------------------------
(* Properties.                                                             *)

\* The type invariant, with the counter of the loop tied to the errors it
\* has consumed: no error is counted twice and none is lost.
TypeOK ==
  /\ answer \in [Upstreams -> {"none", "ok", "err"}]
  /\ gpc \in [Upstreams -> {"lookup", "send", "done"}]
  /\ pc \in {"collect", "returned"}
  /\ errs \in SUBSET Upstreams
  /\ i = Cardinality(errs)
  /\ parentDone \in BOOLEAN /\ cancelled \in BOOLEAN
  /\ result \in [kind : {"none", "ok", "err", "ctx"},
                 from : Upstreams \cup {NoUpstream}]

\* What LookupNetIP returns is justified by what the upstreams did: addresses
\* are those of an upstream that found them, an error means that every
\* upstream has failed, the error of the context that the client has gone
\* (never that the lookup cancelled itself), and a success with no address
\* that there is no upstream to ask.
ResultJustified ==
  /\ result.kind = "err" => \A u \in Upstreams : answer[u] = "err"
  /\ result.kind = "ctx" => parentDone
  /\ result.kind = "ok"  => \/ result.from \in Upstreams /\ answer[result.from] = "ok"
                            \/ Upstreams = {}

\* The caller never waits for more than it needs: one success, or the last
\* of the errors, or the end of the client's context makes it return, even
\* if other upstreams stay silent.
CallerReturns ==
  (\/ parentDone
   \/ \E u \in Upstreams : answer[u] = "ok"
   \/ \A u \in Upstreams : answer[u] = "err") ~> pc = "returned"

\* Once the caller has returned every goroutine of the lookup ends, the ones
\* still asking and the ones that nobody receives from any more.
NoGoroutineLeak ==
  pc = "returned" ~> \A u \in Upstreams : gpc[u] = "done"
=============================================================================

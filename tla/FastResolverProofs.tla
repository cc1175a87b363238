------------------------- MODULE FastResolverProofs -------------------------
(***************************************************************************)
(* Proofs about FastResolver, for any finite set of upstreams.             *)
(***************************************************************************)
EXTENDS FastResolver, FiniteSetTheorems, TLAPS

\* The errors counted are those of goroutines that have ended, so that none
\* is counted twice; the lookup does not cancel itself before it returns; and
\* the answer a result rests on cannot change any more.
RaceInv ==
  /\ TypeOK
  /\ \A u \in errs : answer[u] = "err" /\ gpc[u] = "done"
  /\ pc = "collect" => ~cancelled /\ result = NoResult
  /\ result.kind = "err" => errs = Upstreams
  /\ result.kind = "ok" => \/ /\ result.from \in Upstreams
                              /\ answer[result.from] = "ok"
                              /\ gpc[result.from] = "done"
                           \/ Upstreams = {}
  /\ result.kind = "ctx" => parentDone

\* RaceInv holds initially and every step preserves it.
LEMMA RaceInvHolds == Spec => []RaceInv
<1> USE UpstreamsAssumption
<1>1. ASSUME Init PROVE RaceInv
  <2>1. i = Cardinality(errs)
    BY <1>1, FS_EmptySet DEF Init
  <2>2. TypeOK
    BY <1>1, <2>1 DEF Init, TypeOK, NoResult
  <2> QED
    BY <1>1, <2>2 DEF Init, RaceInv, NoResult
<1>2. RaceInv /\ [Next]_vars => RaceInv'
  <2> SUFFICES ASSUME RaceInv, [Next]_vars PROVE RaceInv'
    OBVIOUS
  <2> USE DEF RaceInv, TypeOK
  <2>1. ASSUME NEW u \in Upstreams, Answer(u) PROVE RaceInv'
    BY <2>1 DEF Answer
  <2>2. ASSUME NEW u \in Upstreams, Abandon(u) PROVE RaceInv'
    BY <2>2 DEF Abandon
  <2>3. ASSUME NEW u \in Upstreams, ReceiveSuccess(u) PROVE RaceInv'
    BY <2>3 DEF ReceiveSuccess, Receive, Collecting, Return
  <2>4. ASSUME NEW u \in Upstreams, ReceiveError(u) PROVE RaceInv'
    <3>1. u \notin errs
      BY <2>4 DEF ReceiveError, Receive
    <3>2. IsFiniteSet(errs)
      BY FS_Subset
    <3>3. Cardinality(errs \cup {u}) = Cardinality(errs) + 1
      BY <3>1, <3>2, FS_AddElement
    <3>4. i' = Cardinality(errs') /\ errs' = errs \cup {u}
      BY <2>4, <3>3 DEF ReceiveError, Counted
    <3>5. /\ pc = "collect" /\ gpc[u] = "send" /\ answer[u] = "err"
          /\ gpc' = [gpc EXCEPT ![u] = "done"]
          /\ UNCHANGED <<answer, pc, parentDone, cancelled, result>>
      BY <2>4 DEF ReceiveError, Receive, Collecting
    <3> QED
      BY <3>4, <3>5 DEF NoResult
  <2>5. CASE ContextEnds
    BY <2>5 DEF ContextEnds, Collecting, Return, CtxDone
  <2>6. CASE Exhausted
    <3>1. /\ pc = "collect" /\ i = Cardinality(Upstreams)
          /\ pc' = "returned" /\ cancelled' = TRUE
          /\ UNCHANGED <<answer, gpc, i, errs, parentDone>>
          /\ result' = [kind |-> IF errs = {} THEN "ok" ELSE "err", from |-> NoUpstream]
      BY <2>6 DEF Exhausted, LoopOver, Return
    <3>2. errs = Upstreams
      BY <3>1, FS_Subset
    <3> QED
      BY <3>1, <3>2
  <2>7. CASE ParentCancelled
    BY <2>7 DEF ParentCancelled
  <2>8. CASE UNCHANGED vars
    BY <2>8 DEF vars
  <2> QED
    BY <2>1, <2>2, <2>3, <2>4, <2>5, <2>6, <2>7, <2>8 DEF Next, Caller
<1> QED
  BY <1>1, <1>2, PTL DEF Spec

\* Every variable of a race keeps its type, and the loop counts the errors it
\* has consumed.
THEOREM RaceTypeCorrect == Spec => []TypeOK
BY RaceInvHolds, PTL DEF RaceInv

\* Whatever the order of the answers, addresses come from an upstream that
\* found them, an error means that all have failed, and the error of the
\* context that the client has gone.
THEOREM RaceResultJustified == Spec => []ResultJustified
<1>1. RaceInv => ResultJustified
  BY DEF RaceInv, TypeOK, ResultJustified
<1> QED
  BY <1>1, RaceInvHolds, PTL

-----------------------------------------------------------------------------
(* Nobody waits for nobody.                                                *)

\* A goroutine that offers its answer has a caller that receives or a context
\* that is done; and a caller that waits has a goroutine that has yet to answer,
\* unless its own context is done.  The safety that NoGoroutineLeak and
\* CallerReturns rest on.
NobodyStuck ==
  /\ \A u \in Upstreams : gpc[u] = "send" => Collecting \/ CtxDone
  /\ Collecting => CtxDone \/ \E u \in Upstreams : gpc[u] # "done"

\* The caller cancels as it returns, and a goroutine that has ended before has
\* had its error counted or found the client gone.
EndedInv ==
  /\ pc = "returned" => cancelled
  /\ pc = "collect" => \A u \in Upstreams : gpc[u] = "done" => u \in errs \/ parentDone

\* In a race over any finite set of upstreams, whatever the order of answers,
\* errors and the client's leaving, the unbuffered channels of LookupNetIP
\* leave nobody waiting for somebody who has ended.
THEOREM RaceNeverStuck == Spec => []NobodyStuck
<1>1. Init => EndedInv
  BY DEF Init, EndedInv
<1>2. RaceInv /\ EndedInv /\ [Next]_vars => EndedInv'
  <2> SUFFICES ASSUME RaceInv, EndedInv, [Next]_vars PROVE EndedInv'
    OBVIOUS
  <2> USE DEF EndedInv, RaceInv, TypeOK
  <2>1. ASSUME NEW u \in Upstreams, Answer(u) \/ Abandon(u) PROVE EndedInv'
    BY <2>1 DEF Answer, Abandon, CtxDone
  <2>2. ASSUME NEW u \in Upstreams, ReceiveSuccess(u) \/ ReceiveError(u) PROVE EndedInv'
    BY <2>2 DEF ReceiveSuccess, ReceiveError, Receive, Collecting, Return, Counted
  <2>3. CASE ContextEnds \/ Exhausted
    BY <2>3 DEF ContextEnds, Exhausted, Return
  <2>4. CASE ParentCancelled \/ UNCHANGED vars
    BY <2>4 DEF ParentCancelled, vars
  <2> QED
    BY <2>1, <2>2, <2>3, <2>4 DEF Next, Caller
<1>3. ASSUME RaceInv, EndedInv PROVE NobodyStuck
  <2>1. errs \in SUBSET Upstreams /\ i = Cardinality(errs) /\ pc \in {"collect", "returned"}
    BY <1>3 DEF RaceInv, TypeOK
  <2>2. ASSUME NEW u \in Upstreams, gpc[u] = "send" PROVE Collecting \/ CtxDone
    <3>1. CASE pc = "returned"
      BY <1>3, <3>1 DEF EndedInv, CtxDone
    <3>2. CASE pc = "collect"
      <4>1. errs # Upstreams
        BY <1>3, <2>2 DEF RaceInv
      <4>2. /\ Cardinality(errs) < Cardinality(Upstreams)
        BY <2>1, <4>1, UpstreamsAssumption, FS_Subset, FS_CardinalityType
      <4> QED
        BY <2>1, <3>2, <4>2 DEF Collecting
    <3> QED
      BY <2>1, <3>1, <3>2
  <2>3. ASSUME Collecting, ~CtxDone PROVE \E u \in Upstreams : gpc[u] # "done"
    <3>1. errs # Upstreams
      BY <2>1, <2>3, UpstreamsAssumption, FS_CardinalityType DEF Collecting
    <3> QED
      BY <1>3, <2>1, <2>3, <3>1 DEF EndedInv, Collecting, CtxDone
  <2> QED
    BY <2>2, <2>3 DEF NobodyStuck
<1> QED
  BY <1>1, <1>2, <1>3, RaceInvHolds, PTL DEF Spec
=============================================================================

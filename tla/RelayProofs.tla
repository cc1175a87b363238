---------------------------- MODULE RelayProofs ----------------------------
(***************************************************************************)
(* Proofs about Relay, for both versions of HTTP and any amount of data.   *)
(***************************************************************************)
EXTENDS Relay, TLAPS

\* A copier holds a chunk exactly while it writes, and none runs before the
\* handler has taken over the connection.
ChunkInv ==
  /\ TypeOK
  /\ \A s \in Sides : copier[s] = "write" => taken[s] = given[s] + 1
  /\ main = "granted" => \A s \in Sides : copier[s] = "off"

\* Types are inductive together with what the writing copiers hold.
LEMMA ChunkInvHolds == Spec => []ChunkInv
<1> USE ChunksAssumption
<1>1. Init => ChunkInv
  BY DEF Init, ChunkInv, TypeOK, Sides, Discarded
<1>2. ChunkInv /\ [Next]_vars => ChunkInv'
  <2> SUFFICES ASSUME ChunkInv, [Next]_vars PROVE ChunkInv'
    OBVIOUS
  <2> USE DEF ChunkInv, TypeOK, Discarded, data, ends, procs
  <2>1. ASSUME NEW s \in Sides, Read(s) PROVE ChunkInv'
    BY <2>1 DEF Read, At
  <2>2. ASSUME NEW s \in Sides, ReadEnds(s) \/ WriteFails(s) PROVE ChunkInv'
    BY <2>2 DEF ReadEnds, WriteFails, At
  <2>3. ASSUME NEW s \in Sides, Write(s) PROVE ChunkInv'
    BY <2>3 DEF Write, At
  <2>4. ASSUME NEW s \in Sides, Finish(s) PROVE ChunkInv'
    BY <2>4 DEF Finish, At
  <2>5. ASSUME NEW s \in Sides, PeerSends(s) PROVE ChunkInv'
    BY <2>5 DEF PeerSends
  <2>6. ASSUME NEW s \in Sides, NEW how \in {"eof", "reset"}, PeerEnds(s, how)
        PROVE  ChunkInv'
    BY <2>6 DEF PeerEnds
  <2>7. CASE AllCopied \/ GroupDone \/ Cancel
    <3>1. CASE AllCopied
      BY <3>1 DEF AllCopied
    <3>2. CASE GroupDone
      BY <3>2 DEF GroupDone
    <3>3. CASE Cancel
      BY <3>3 DEF Cancel
    <3> QED
      BY <2>7, <3>1, <3>2, <3>3
  <2>8. CASE ContextEnds
    BY <2>8 DEF ContextEnds, AfterContext
  <2>9. CASE UNCHANGED vars
    BY <2>9 DEF vars
  <2>10. CASE ServerReads
    <3>1. /\ early' = early + 1 /\ taken["left"] + early < sent["left"]
          /\ UNCHANGED <<http2, sent, taken, given, peer, open, copier, waiter, main, ctxDone>>
      BY <2>10 DEF ServerReads
    <3>2. \A s \in Sides : taken[s] + Discarded(s)' <= sent[s]
      <4>1. "left" \in Sides
        BY DEF Sides
      <4> QED
        BY <3>1, <4>1
    <3> QED
      BY <3>1, <3>2
  <2>11. CASE StartRelay
    BY <2>11 DEF StartRelay
  <2> QED
    BY <2>1, <2>2, <2>3, <2>4, <2>5, <2>6, <2>7, <2>8, <2>9, <2>10, <2>11 DEF Next, Copier
<1> QED
  BY <1>1, <1>2, PTL DEF Spec

\* Every variable of the relay keeps its type, and no chunk is skipped or
\* passed on twice.
THEOREM RelayTypeCorrect == Spec => []TypeOK
BY ChunkInvHolds, PTL DEF ChunkInv

-----------------------------------------------------------------------------
(* What the relay leaves behind.                                           *)

\* The stages of the three goroutines and of the handler depend on each other.
StageInv ==
  /\ \A s \in Sides : copier[s] = "done" => \A d \in Closes(s) : ~open[d]
  /\ waiter # "wait" => \A s \in Sides : copier[s] = "done"
  /\ main = "returned" => waiter = "done"

LEMMA StageInvHolds == Spec => []StageInv
<1>1. Init => StageInv
  BY DEF Init, StageInv, Sides
<1>2. ChunkInv /\ StageInv /\ [Next]_vars => StageInv'
  <2> SUFFICES ASSUME ChunkInv, StageInv, [Next]_vars PROVE StageInv'
    OBVIOUS
  <2>0. /\ copier \in [Sides -> {"off", "read", "write", "close", "done"}]
        /\ open \in [Sides -> BOOLEAN]
    BY DEF ChunkInv, TypeOK
  <2> USE <2>0 DEF StageInv, Closes, data, ends, procs
  <2>1. ASSUME NEW s \in Sides, Read(s) \/ ReadEnds(s) \/ Write(s) \/ WriteFails(s)
        PROVE  StageInv'
    BY <2>1 DEF Read, ReadEnds, Write, WriteFails, At
  <2>2. ASSUME NEW s \in Sides, Finish(s) PROVE StageInv'
    <3>1. \A d \in Sides : open'[d] => open[d] /\ d \notin Closes(s)
      BY <2>2 DEF Finish
    <3>2. \A t \in Sides : Closes(t) \subseteq Sides
      BY DEF Sides, Other
    <3> QED
      BY <2>2, <3>1, <3>2 DEF Finish, At
  <2>3. ASSUME NEW s \in Sides, PeerSends(s) PROVE StageInv'
    BY <2>3 DEF PeerSends
  <2>4. ASSUME NEW s \in Sides, NEW how \in {"eof", "reset"}, PeerEnds(s, how)
        PROVE  StageInv'
    BY <2>4 DEF PeerEnds
  <2>5. CASE AllCopied \/ GroupDone \/ Cancel
    BY <2>5 DEF AllCopied, GroupDone, Cancel
  <2>6. CASE ContextEnds
    BY <2>6 DEF ContextEnds, AfterContext, Sides, Other
  <2>7. CASE UNCHANGED vars
    BY <2>7 DEF vars
  <2>8. CASE ServerReads
    BY <2>8 DEF ServerReads
  <2>9. CASE StartRelay
    BY <2>9 DEF StartRelay, ChunkInv, Sides
  <2> QED
    BY <2>1, <2>2, <2>3, <2>4, <2>5, <2>6, <2>7, <2>8, <2>9 DEF Next, Copier
<1> QED
  BY <1>1, <1>2, ChunkInvHolds, PTL DEF Spec

\* When the relay has returned its goroutines have ended, and it has closed
\* what its caller does not.
THEOREM RelayLeavesNothing == Spec => []NothingLeft
<1>1. StageInv => NothingLeft
  BY DEF StageInv, NothingLeft, Closes, Sides, Other
<1> QED
  BY <1>1, StageInvHolds, PTL

-----------------------------------------------------------------------------
(* Delivery.                                                               *)

Ended(s) == copier[s] \in {"close", "done"}

\* Why a copier ends and why a connection is closed, while the request lives:
\* as long as both peers are there nothing of it happens; later, a connection
\* is closed by the copier that writes to it, and a copier whose own peer is
\* still there and whose destination works ends only after the other one.
CauseInv ==
  ~ctxDone => \A s \in Sides :
    /\ peer[s] = "open" /\ peer[Other(s)] = "open" => ~Ended(s) /\ open[s]
    /\ ~open[s] => copier[Other(s)] = "done"
    /\ Ended(s) /\ peer[s] = "open" /\ peer[Other(s)] # "reset" =>
         copier[Other(s)] = "done"
    /\ Ended(s) /\ peer[s] = "eof" /\ peer[Other(s)] = "open" =>
         given[s] + Discarded(s) = sent[s]

\* Other is an involution on the two sides.
LEMMA OtherSide ==
  ASSUME NEW s \in Sides
  PROVE  /\ Other(s) \in Sides /\ Other(s) # s /\ Other(Other(s)) = s
         /\ \A t \in Sides : t = s \/ t = Other(s)
BY DEF Sides, Other

\* CauseInv holds initially and every step preserves it.
LEMMA CauseInvHolds == Spec => []CauseInv
<1>1. Init => CauseInv
  BY OtherSide DEF Init, CauseInv, Ended
<1>2. ChunkInv /\ ChunkInv' /\ CauseInv /\ [Next]_vars => CauseInv'
  <2> SUFFICES ASSUME ChunkInv, CauseInv, [Next]_vars, ~ctxDone'
               PROVE  CauseInv'
    BY DEF CauseInv
  <2>0. /\ copier \in [Sides -> {"off", "read", "write", "close", "done"}]
        /\ open \in [Sides -> BOOLEAN]
        /\ peer \in [Sides -> {"open", "eof", "reset"}]
        /\ given \in [Sides -> Nat] /\ sent \in [Sides -> Nat] /\ taken \in [Sides -> Nat]
        /\ \A s \in Sides : copier[s] = "read" => taken[s] = given[s]
        /\ main = "granted" => \A s \in Sides : copier[s] = "off"
        /\ early \in Nat
    BY DEF ChunkInv, TypeOK
  <2> USE <2>0, OtherSide DEF CauseInv, Ended, Discarded, data, ends, procs
  <2>1. ASSUME NEW s \in Sides, Read(s) \/ Write(s) PROVE CauseInv'
    BY <2>1 DEF Read, Write, At
  <2>2. ASSUME NEW s \in Sides, ReadEnds(s) PROVE CauseInv'
    <3>1. /\ copier[s] = "read" /\ copier' = [copier EXCEPT ![s] = "close"]
          /\ UNCHANGED <<http2, early, peer, open, given, sent, taken, ctxDone>>
      BY <2>2 DEF ReadEnds, At
    <3>2. ~(peer[s] = "open" /\ peer[Other(s)] = "open")
      BY <2>2, <3>1 DEF ReadEnds, AtEnd
    <3>3. peer[s] = "open" /\ peer[Other(s)] # "reset" => copier[Other(s)] = "done"
      BY <2>2, <3>1 DEF ReadEnds, AtEnd
    <3>4. peer[s] = "eof" /\ peer[Other(s)] = "open" => given[s] + Discarded(s) = sent[s]
      <4>1. SUFFICES ASSUME peer[s] = "eof", peer[Other(s)] = "open"
                     PROVE  open[s]
        BY <2>2, <3>1 DEF ReadEnds, AtEnd
      <4> QED
        BY <3>1, <4>1
    <3> QED
      BY <3>1, <3>2, <3>3, <3>4
  <2>3. ASSUME NEW s \in Sides, WriteFails(s) PROVE CauseInv'
    <3>1. /\ copier[s] = "write" /\ copier' = [copier EXCEPT ![s] = "close"]
          /\ UNCHANGED <<http2, early, peer, open, given, sent, taken, ctxDone>>
          /\ ~open[Other(s)] \/ peer[Other(s)] = "reset"
      BY <2>3 DEF WriteFails, At
    <3>2. peer[Other(s)] = "reset"
      BY <3>1
    <3> QED
      BY <3>1, <3>2
  <2>4. ASSUME NEW s \in Sides, Finish(s) PROVE CauseInv'
    <3>1. /\ copier[s] = "close" /\ copier' = [copier EXCEPT ![s] = "done"]
          /\ UNCHANGED <<http2, early, peer, given, sent, taken, ctxDone>>
      BY <2>4 DEF Finish, At
    <3>2. open'[s] = open[s] /\ (open'[Other(s)] => open[Other(s)])
      BY <2>4 DEF Finish, Closes
    <3>3. ~(peer[s] = "open" /\ peer[Other(s)] = "open")
      BY <3>1
    <3> QED
      BY <3>1, <3>2, <3>3
  <2>5. ASSUME NEW s \in Sides, PeerSends(s) PROVE CauseInv'
    BY <2>5 DEF PeerSends
  <2>6. ASSUME NEW s \in Sides, NEW how \in {"eof", "reset"}, PeerEnds(s, how)
        PROVE  CauseInv'
    <3>1. /\ peer' = [peer EXCEPT ![s] = how]
          /\ peer[s] = "open" \/ (peer[s] = "eof" /\ how = "reset")
          /\ UNCHANGED <<http2, early, copier, open, given, sent, taken, ctxDone>>
      BY <2>6 DEF PeerEnds
    <3> QED
      BY <3>1
  <2>7. CASE AllCopied \/ GroupDone
    BY <2>7 DEF AllCopied, GroupDone
  <2>8. CASE ContextEnds \/ Cancel
    BY <2>8 DEF ContextEnds, Cancel
  <2>9. CASE UNCHANGED vars
    BY <2>9 DEF vars
  <2>10. CASE ServerReads
    BY <2>10 DEF ServerReads
  <2>11. CASE StartRelay
    BY <2>11 DEF StartRelay
  <2> QED
    BY <2>1, <2>2, <2>3, <2>4, <2>5, <2>6, <2>7, <2>8, <2>9, <2>10, <2>11 DEF Next, Copier
<1> QED
  BY <1>1, <1>2, ChunkInvHolds, PTL DEF Spec

\* Everything a peer sent before its clean close has reached the other one
\* when its direction ends, unless the other end broke or the request ended,
\* and but for the chunks in the reader that HandleTunnel drops.
THEOREM RelayDeliversAll == Spec => []DeliversAll
<1>1. CauseInv => DeliversAll
  BY DEF CauseInv, DeliversAll, Ended
<1> QED
  BY <1>1, CauseInvHolds, PTL

-----------------------------------------------------------------------------
(* Nobody waits for nobody.                                                *)

\* A connection that the relay has closed wakes who reads from it: the copier
\* of the other direction once one has ended, both once the context of the
\* request is done.  The waiting goroutine sends only to a handler that still
\* receives, and such a handler has somebody to receive from.  The safety that
\* RelayReturns rests on.
NobodyStuck ==
  /\ \A s \in Sides : copier[s] = "done" => \A d \in Closes(s) : AtEnd(d)
  /\ main = "drain" => \A s \in Sides : AtEnd(s)
  /\ waiter = "done" <=> main = "returned"

\* After the end of the context the handler drains connections that are closed.
DrainInv ==
  /\ main = "drain" => \A s \in Sides : ~open[s]
  /\ waiter = "done" <=> main = "returned"

\* The relay leaves nobody waiting on an unbuffered channel or on a connection
\* that only it can end (proxy, proxyh2), for any amount of data.
THEOREM RelayNeverStuck == Spec => []NobodyStuck
<1>1. Init => DrainInv
  BY DEF Init, DrainInv
<1>2. ChunkInv /\ DrainInv /\ [Next]_vars => DrainInv'
  <2> SUFFICES ASSUME ChunkInv, DrainInv, [Next]_vars PROVE DrainInv'
    OBVIOUS
  <2>0. open \in [Sides -> BOOLEAN] /\ waiter \in {"wait", "send", "done"}
        /\ main \in {"granted", "select", "drain", "returned"}
    BY DEF ChunkInv, TypeOK
  <2> USE <2>0 DEF DrainInv, data, ends, procs
  <2>1. ASSUME NEW s \in Sides, Read(s) \/ ReadEnds(s) \/ Write(s) \/ WriteFails(s)
        PROVE  DrainInv'
    BY <2>1 DEF Read, ReadEnds, Write, WriteFails
  <2>2. ASSUME NEW s \in Sides, Finish(s) PROVE DrainInv'
    BY <2>2 DEF Finish
  <2>3. ASSUME NEW s \in Sides, PeerSends(s) PROVE DrainInv'
    BY <2>3 DEF PeerSends
  <2>4. ASSUME NEW s \in Sides, NEW how \in {"eof", "reset"}, PeerEnds(s, how)
        PROVE  DrainInv'
    BY <2>4 DEF PeerEnds
  <2>5. CASE AllCopied \/ GroupDone \/ Cancel
    BY <2>5 DEF AllCopied, GroupDone, Cancel
  <2>6. CASE ContextEnds
    BY <2>6 DEF ContextEnds, AfterContext
  <2>7. CASE UNCHANGED vars
    BY <2>7 DEF vars
  <2>8. CASE ServerReads \/ StartRelay
    BY <2>8 DEF ServerReads, StartRelay
  <2> QED
    BY <2>1, <2>2, <2>3, <2>4, <2>5, <2>6, <2>7, <2>8 DEF Next, Copier
<1>3. StageInv /\ DrainInv => NobodyStuck
  BY DEF StageInv, DrainInv, NobodyStuck, AtEnd
<1> QED
  BY <1>1, <1>2, <1>3, ChunkInvHolds, StageInvHolds, PTL DEF Spec
=============================================================================

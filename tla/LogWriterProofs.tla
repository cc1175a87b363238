--------------------------- MODULE LogWriterProofs ---------------------------
(***************************************************************************)
(* Proofs about LogWriter, for any loggers and any capacity: types, the    *)
(* order of what is written, and the refinement of LossyLog.               *)
(***************************************************************************)
EXTENDS LogWriter, Integers, TLAPS

\* The loop writes messages only, never the nil one.
TypeInv == TypeOK /\ (lpc = "write" => p \in Messages)

LEMMA TypeInvHolds == Spec => []TypeInv
<1> USE LogAssumption
<1>1. Init => TypeInv
  <2>1. <<>> \in Seq(Messages) /\ <<>> \in Seq(Messages \cup {Pill})
    OBVIOUS
  <2> QED
    BY <2>1 DEF Init, TypeInv, TypeOK, NotClosing
<1>2. TypeInv /\ [Next]_vars => TypeInv'
  <2> SUFFICES ASSUME TypeInv, [Next]_vars PROVE TypeInv'
    OBVIOUS
  <2> USE DEF TypeInv, TypeOK, history
  <2>1. ASSUME NEW l \in Loggers, Write(l) PROVE TypeInv'
    <3> DEFINE m == [from |-> l, n |-> formatted[l] + 1]
    <3>1. m \in Messages
      BY <2>1 DEF Write, Messages
    <3>2. CASE Room
      <4>1. /\ Append(ch, m) \in Seq(Messages \cup {Pill})
            /\ Len(Append(ch, m)) = Len(ch) + 1
            /\ Append(accepted, m) \in Seq(Messages)
        BY <3>1
      <4>2. ch' = Append(ch, m) /\ accepted' = Append(accepted, m)
        BY <2>1, <3>2 DEF Write
      <4> QED
        BY <2>1, <3>2, <4>1, <4>2 DEF Write, Room
    <3>3. CASE ~Room
      BY <2>1, <3>3 DEF Write
    <3> QED
      BY <3>2, <3>3
  <2>2. CASE Receive
    <3>1. /\ ch[1] \in Messages \cup {Pill}
          /\ Tail(ch) \in Seq(Messages \cup {Pill}) /\ Len(Tail(ch)) = Len(ch) - 1
      BY <2>2 DEF Receive
    <3> QED
      BY <2>2, <3>1 DEF Receive, AfterReceive
  <2>3. CASE Output
    BY <2>3 DEF Output, Copied, AfterOutput
  <2>4. CASE SendPill
    BY <2>4 DEF SendPill, Room, StartTimer
  <2>5. CASE CloseCalled \/ CloseTimesOut \/ TimerFires \/ Done
    BY <2>5 DEF CloseCalled, CloseTimesOut, TimerFires, Done
  <2>6. CASE UNCHANGED vars
    BY <2>6 DEF vars
  <2> QED
    BY <2>1, <2>2, <2>3, <2>4, <2>5, <2>6 DEF Next, Close
<1> QED
  BY <1>1, <1>2, PTL DEF Spec

\* Every variable of the log writer keeps its type, and the channel never holds
\* more than its capacity.
THEOREM LogTypeCorrect == Spec => []TypeOK
BY TypeInvHolds, PTL DEF TypeInv

-----------------------------------------------------------------------------
(* The order of the messages.                                              *)

\* The nil message was sent and is still in the channel.
PillQueued == due.closing /\ lpc \notin {"signal", "ended"}

\* Where it is: behind the messages accepted before it and not taken yet.
Place == due.upto - Taken + 1

\* Whether entry k of the channel is behind it.
Past(k) == IF PillQueued /\ k > Place THEN 1 ELSE 0

\* The stages of the loop and of Close: once the loop has received the nil
\* message everything accepted before it is written.
StageInv ==
  /\ due.closing <=> cpc \in {"wait", "closed"}
  /\ lpc \in {"signal", "ended"} => due.closing /\ due.upto <= Len(written)
  /\ lpc = "ended" => cpc = "closed"

\* The channel has the nil message in its place and nowhere else.
PillInv ==
  /\ PillQueued => Place \in 1 .. Len(ch)
  /\ \A k \in 1 .. Len(ch) : (ch[k] = Pill) <=> (PillQueued /\ k = Place)

\* What was accepted and where it is.
OrderInv ==
  /\ Len(accepted) = Taken + Len(ch) - (IF PillQueued THEN 1 ELSE 0)
  /\ \A n \in 1 .. Len(written) : written[n] = accepted[n]
  /\ lpc = "write" => p = accepted[Taken]
  /\ \A k \in 1 .. Len(ch) : ch[k] # Pill => ch[k] = accepted[Taken + k - Past(k)]

LogInv == StageInv /\ PillInv /\ OrderInv

LEMMA LogInvInit == Init => LogInv
<1> SUFFICES ASSUME Init PROVE LogInv
  OBVIOUS
<1>1. /\ due.closing = FALSE /\ lpc = "receive" /\ cpc = "open"
      /\ ch = <<>> /\ accepted = <<>> /\ written = <<>>
  BY DEF Init, NotClosing
<1> QED
  BY <1>1 DEF LogInv, StageInv, PillInv, OrderInv, PillQueued, Taken

LEMMA LogInvWrite ==
  ASSUME TypeInv, LogInv, NEW l \in Loggers, Write(l)
  PROVE  LogInv'
<1> DEFINE m == [from |-> l, n |-> formatted[l] + 1]
<1> USE DEF LogInv, history
<1>1. /\ ch \in Seq(Messages \cup {Pill}) /\ accepted \in Seq(Messages)
      /\ written \in Seq(Messages) /\ due \in [closing : BOOLEAN, upto : Nat]
  BY DEF TypeInv, TypeOK
<1>0. m \in Messages /\ m # Pill
  <2>1. formatted[l] + 1 \in 1 .. MaxWrites
    BY LogAssumption DEF Write, TypeInv, TypeOK
  <2>2. m \in Messages
    BY <2>1 DEF Messages
  <2> QED
    BY <2>2, PillAssumption
<1>2. /\ UNCHANGED <<lpc, p, cpc, written, due>>
      /\ Taken' = Taken /\ Taken \in Nat
      /\ PillQueued' <=> PillQueued
      /\ Place' = Place /\ Place \in Int
  BY <1>1 DEF Write, Taken, PillQueued, Place
<1>3. \A k : Past(k)' = Past(k)
  BY <1>2 DEF Past
<1>4. StageInv'
  BY <1>2 DEF StageInv
<1>5. CASE UNCHANGED <<ch, accepted>>
  BY <1>2, <1>3, <1>4, <1>5 DEF PillInv, OrderInv
<1>6. CASE ch' = Append(ch, m) /\ accepted' = Append(accepted, m)
  <2>1. /\ Len(ch') = Len(ch) + 1 /\ ch'[Len(ch) + 1] = m
        /\ \A k \in 1 .. Len(ch) : ch'[k] = ch[k]
    BY <1>1, <1>6
  <2>2. /\ Len(accepted') = Len(accepted) + 1 /\ accepted'[Len(accepted) + 1] = m
        /\ \A k \in 1 .. Len(accepted) : accepted'[k] = accepted[k]
    BY <1>1, <1>6
  <2>3. PillInv'
    <3>1. PillQueued' => Place' \in 1 .. Len(ch')
      BY <1>1, <1>2, <2>1 DEF PillInv
    <3>2. ASSUME NEW k \in 1 .. Len(ch')
          PROVE  (ch'[k] = Pill) <=> (PillQueued /\ k = Place)
      <4>1. CASE k = Len(ch) + 1
        BY <1>0, <1>1, <2>1, <4>1 DEF PillInv
      <4>2. CASE k \in 1 .. Len(ch)
        BY <2>1, <4>2 DEF PillInv
      <4> QED
        BY <1>1, <2>1, <4>1, <4>2
    <3> QED
      BY <1>2, <3>1, <3>2 DEF PillInv
  <2>4. /\ Len(written) <= Len(accepted)
        /\ lpc = "write" => Taken \in 1 .. Len(accepted)
    <3>1. Len(ch) \in Nat /\ Len(written) \in Nat /\ (PillQueued => Len(ch) >= 1)
      BY <1>1, <1>2 DEF PillInv
    <3>2. Len(accepted) >= Taken
      BY <1>2, <3>1 DEF OrderInv
    <3>3. Taken = Len(written) + (IF lpc = "write" THEN 1 ELSE 0)
      BY DEF Taken
    <3>4. Len(accepted) \in Nat
      BY <1>1
    <3> QED
      BY <3>1, <3>2, <3>3, <3>4
  <2>5. ASSUME NEW k \in 1 .. Len(ch'), ch'[k] # Pill
        PROVE  ch'[k] = accepted'[Taken + k - Past(k)]
    <3>1. CASE k = Len(ch) + 1
      <4>1. Past(k) = IF PillQueued THEN 1 ELSE 0
        BY <1>1, <1>2, <3>1 DEF PillInv, Past
      <4>2. Taken + k - Past(k) = Len(accepted) + 1
        BY <1>1, <1>2, <3>1, <4>1 DEF OrderInv
      <4> QED
        BY <2>1, <2>2, <3>1, <4>2
    <3>2. CASE k \in 1 .. Len(ch)
      <4>1. ch[k] # Pill /\ ch[k] = accepted[Taken + k - Past(k)]
        BY <2>1, <2>5, <3>2 DEF OrderInv
      <4>2. ~(PillQueued /\ k = Place)
        BY <3>2, <4>1 DEF PillInv
      <4>3. Taken + k - Past(k) \in 1 .. Len(accepted)
        BY <1>1, <1>2, <3>2, <4>2 DEF OrderInv, PillInv, Past
      <4> QED
        BY <2>1, <2>2, <3>2, <4>1, <4>3
    <3> QED
      BY <1>1, <2>1, <3>1, <3>2
  <2>6. OrderInv'
    <3>1. Len(accepted') = Taken' + Len(ch') - (IF PillQueued' THEN 1 ELSE 0)
      BY <1>1, <1>2, <2>1, <2>2 DEF OrderInv
    <3>2. \A n \in 1 .. Len(written') : written'[n] = accepted'[n]
      BY <1>1, <1>2, <2>2, <2>4 DEF OrderInv
    <3>3. lpc' = "write" => p' = accepted'[Taken']
      BY <1>2, <2>2, <2>4 DEF OrderInv
    <3> QED
      BY <1>2, <1>3, <2>5, <3>1, <3>2, <3>3 DEF OrderInv
  <2> QED
    BY <1>4, <2>3, <2>6
<1> QED
  BY <1>5, <1>6 DEF Write

\* A message, or the nil one, leaves the channel.
LEMMA LogInvReceive ==
  ASSUME TypeInv, LogInv, Receive
  PROVE  LogInv'
<1> USE DEF LogInv, history
<1>1. /\ ch \in Seq(Messages \cup {Pill}) /\ accepted \in Seq(Messages)
      /\ written \in Seq(Messages) /\ due \in [closing : BOOLEAN, upto : Nat]
  BY DEF TypeInv, TypeOK
<1>2. /\ lpc = "receive" /\ Len(ch) >= 1
      /\ p' = ch[1] /\ ch' = Tail(ch)
      /\ lpc' = IF ch[1] = Pill THEN "signal" ELSE "write"
      /\ UNCHANGED <<cpc, accepted, written, due>>
  BY <1>1 DEF Receive, AfterReceive
<1>3. /\ Len(ch') = Len(ch) - 1
      /\ \A k \in 1 .. Len(ch') : ch'[k] = ch[k + 1] /\ k + 1 \in 1 .. Len(ch)
  BY <1>1, <1>2
<1>4. /\ Taken = Len(written) /\ Len(written) \in Nat /\ due.upto \in Nat
      /\ Place = due.upto - Len(written) + 1
      /\ PillQueued <=> due.closing
  BY <1>1, <1>2 DEF Taken, Place, PillQueued
<1>5. CASE ch[1] = Pill
  <2>1. PillQueued /\ Place = 1
    BY <1>2, <1>5 DEF PillInv
  <2>2. /\ lpc' = "signal" /\ ~PillQueued' /\ Taken' = Taken
        /\ \A k : Past(k)' = 0
    BY <1>2, <1>4, <1>5 DEF PillQueued, Taken, Past
  <2>3. StageInv'
    BY <1>2, <1>4, <2>1, <2>2 DEF StageInv
  <2>4. PillInv'
    BY <1>3, <2>1, <2>2 DEF PillInv
  <2>5. ASSUME NEW k \in 1 .. Len(ch') PROVE ch'[k] = accepted'[Taken' + k - Past(k)']
    <3>1. Past(k + 1) = 1
      BY <1>3, <2>1 DEF Past
    <3>2. ch[k + 1] # Pill
      BY <1>3, <2>1 DEF PillInv
    <3>3. ch[k + 1] = accepted[Taken + (k + 1) - 1]
      BY <1>3, <3>1, <3>2 DEF OrderInv
    <3> QED
      BY <1>2, <1>3, <1>4, <2>2, <3>3
  <2>6. Len(accepted') = Taken' + Len(ch') - (IF PillQueued' THEN 1 ELSE 0)
    BY <1>1, <1>2, <1>3, <1>4, <2>1, <2>2 DEF OrderInv
  <2> QED
    BY <1>2, <2>2, <2>3, <2>4, <2>5, <2>6 DEF OrderInv
<1>6. CASE ch[1] # Pill
  <2>1. /\ lpc' = "write" /\ Taken' = Taken + 1 /\ Place' = Place - 1
        /\ PillQueued' <=> PillQueued
        /\ Place # 1 \/ ~PillQueued
    <3>1. lpc' = "write" /\ Taken' = Taken + 1
      BY <1>2, <1>4, <1>6 DEF Taken
    <3>2. Place' = Place - 1
      BY <1>2, <1>4, <3>1 DEF Place
    <3>3. PillQueued' <=> PillQueued
      BY <1>2, <3>1 DEF PillQueued
    <3>4. Place # 1 \/ ~PillQueued
      BY <1>2, <1>6 DEF PillInv
    <3> QED
      BY <3>1, <3>2, <3>3, <3>4
  <2>2. \A k \in 1 .. Len(ch') : Past(k)' = Past(k + 1)
    BY <1>3, <1>4, <2>1 DEF Past
  <2>3. StageInv'
    BY <1>2, <2>1 DEF StageInv
  <2>4. PillInv'
    <3>1. PillQueued' => Place' \in 1 .. Len(ch')
      BY <1>1, <1>3, <1>4, <2>1 DEF PillInv
    <3>2. \A k \in 1 .. Len(ch') : (ch'[k] = Pill) <=> (PillQueued' /\ k = Place')
      <4> SUFFICES ASSUME NEW k \in 1 .. Len(ch')
                   PROVE  (ch'[k] = Pill) <=> (PillQueued' /\ k = Place')
        OBVIOUS
      <4>1. (ch[k + 1] = Pill) <=> (PillQueued /\ k + 1 = Place)
        BY <1>3 DEF PillInv
      <4>2. (k + 1 = Place) <=> (k = Place')
        BY <1>4, <2>1
      <4> QED
        BY <1>3, <2>1, <4>1, <4>2
    <3> QED
      BY <3>1, <3>2 DEF PillInv
  <2>5. ASSUME NEW k \in 1 .. Len(ch'), ch'[k] # Pill
        PROVE  ch'[k] = accepted'[Taken' + k - Past(k)']
    <3>1. ch[k + 1] = accepted[Taken + (k + 1) - Past(k + 1)]
      BY <1>3, <2>5 DEF OrderInv
    <3>2. Taken + (k + 1) - Past(k + 1) = Taken' + k - Past(k)'
      BY <1>4, <2>1, <2>2 DEF Past
    <3> QED
      BY <1>2, <1>3, <3>1, <3>2
  <2>6. p' = accepted'[Taken']
    <3>1. Past(1) = 0
      BY <1>4, <2>1 DEF Past, PillInv
    <3>2. ch[1] = accepted[Taken + 1 - 0]
      BY <1>2, <1>6, <3>1 DEF OrderInv
    <3> QED
      BY <1>2, <1>4, <2>1, <3>2
  <2>7. Len(accepted') = Taken' + Len(ch') - (IF PillQueued' THEN 1 ELSE 0)
    <3>1. Len(accepted) = Taken + Len(ch) - (IF PillQueued THEN 1 ELSE 0)
      BY DEF OrderInv
    <3>2. Len(ch) \in Nat /\ Len(accepted') = Len(accepted)
      BY <1>1, <1>2
    <3> QED
      BY <1>3, <1>4, <2>1, <3>1, <3>2
  <2> QED
    BY <1>2, <2>3, <2>4, <2>5, <2>6, <2>7 DEF OrderInv
<1> QED
  BY <1>5, <1>6

\* The output takes the message that the loop holds.
LEMMA LogInvOutput ==
  ASSUME TypeInv, LogInv, Output
  PROVE  LogInv'
<1> USE DEF LogInv, history
<1>1. /\ accepted \in Seq(Messages) /\ written \in Seq(Messages)
      /\ lpc = "write" /\ lpc' = "receive"
      /\ written' = Append(written, p)
      /\ UNCHANGED <<ch, cpc, accepted, due>>
  BY DEF TypeInv, TypeOK, Output, Copied, AfterOutput
<1>2. /\ Len(written') = Len(written) + 1 /\ written'[Len(written) + 1] = p
      /\ \A n \in 1 .. Len(written) : written'[n] = written[n]
      /\ Len(written) \in Nat
  BY <1>1
<1>3. /\ Taken = Len(written) + 1 /\ Taken' = Taken
      /\ PillQueued' <=> PillQueued
  BY <1>1, <1>2 DEF Taken, PillQueued
<1>4. Place' = Place /\ \A k : Past(k)' = Past(k)
  BY <1>1, <1>3 DEF Place, Past
<1>5. StageInv' /\ PillInv'
  BY <1>1, <1>3, <1>4 DEF StageInv, PillInv
<1>6. \A n \in 1 .. Len(written') : written'[n] = accepted'[n]
  <2> SUFFICES ASSUME NEW n \in 1 .. Len(written') PROVE written'[n] = accepted'[n]
    OBVIOUS
  <2>1. CASE n = Len(written) + 1
    BY <1>1, <1>2, <1>3, <2>1 DEF OrderInv
  <2>2. CASE n \in 1 .. Len(written)
    BY <1>1, <1>2, <2>2 DEF OrderInv
  <2> QED
    BY <1>2, <2>1, <2>2
<1> QED
  BY <1>1, <1>3, <1>4, <1>5, <1>6 DEF OrderInv

\* The nil message goes behind everything accepted so far.
LEMMA LogInvSendPill ==
  ASSUME TypeInv, LogInv, SendPill
  PROVE  LogInv'
<1> USE DEF LogInv, history
<1>1. /\ ch \in Seq(Messages \cup {Pill}) /\ accepted \in Seq(Messages)
      /\ written \in Seq(Messages) /\ due \in [closing : BOOLEAN, upto : Nat]
      /\ cpc = "pill" /\ cpc' = "wait"
      /\ ch' = Append(ch, Pill)
      /\ due' = [closing |-> TRUE, upto |-> Len(accepted)]
      /\ UNCHANGED <<lpc, p, accepted, written>>
  BY DEF TypeInv, TypeOK, SendPill
<1>2. /\ Len(ch') = Len(ch) + 1 /\ ch'[Len(ch) + 1] = Pill
      /\ \A k \in 1 .. Len(ch) : ch'[k] = ch[k]
      /\ Len(ch) \in Nat
  BY <1>1
<1>3. /\ due'.closing = TRUE /\ due'.upto = Len(accepted)
      /\ ~due.closing /\ lpc \notin {"signal", "ended"}
      /\ ~PillQueued /\ PillQueued'
      /\ Taken' = Taken /\ Taken \in Nat
  BY <1>1 DEF StageInv, PillQueued, Taken
<1>4. Len(accepted) = Taken + Len(ch)
  BY <1>2, <1>3 DEF OrderInv
<1>5. Place' = Len(ch) + 1
  BY <1>2, <1>3, <1>4 DEF Place
<1>6. \A k \in 1 .. Len(ch) : ch'[k] # Pill /\ Past(k) = 0 /\ Past(k)' = 0
  BY <1>2, <1>3, <1>5 DEF PillInv, Past
<1>7. StageInv'
  BY <1>1, <1>3 DEF StageInv
<1>8. PillInv'
  BY <1>2, <1>3, <1>5, <1>6 DEF PillInv
<1>9. OrderInv'
  <2>1. Len(accepted') = Taken' + Len(ch') - (IF PillQueued' THEN 1 ELSE 0)
    BY <1>1, <1>2, <1>3, <1>4
  <2>2. ASSUME NEW k \in 1 .. Len(ch'), ch'[k] # Pill
        PROVE  ch'[k] = accepted'[Taken' + k - Past(k)']
    <3>1. k \in 1 .. Len(ch)
      BY <1>2, <2>2
    <3> QED
      BY <1>1, <1>2, <1>3, <1>6, <3>1 DEF OrderInv
  <2> QED
    BY <1>1, <1>3, <2>1, <2>2 DEF OrderInv
<1> QED
  BY <1>7, <1>8, <1>9

LEMMA LogInvHolds == Spec => []LogInv
<1>1. TypeInv /\ LogInv /\ [Next]_vars => LogInv'
  <2> SUFFICES ASSUME TypeInv, LogInv, [Next]_vars PROVE LogInv'
    OBVIOUS
  <2>1. ASSUME CloseCalled \/ TimerFires \/ CloseTimesOut \/ Done \/ UNCHANGED vars
        PROVE  LogInv'
    <3>1. UNCHANGED <<ch, p, accepted, written, due>>
      BY <2>1 DEF CloseCalled, TimerFires, CloseTimesOut, Done, vars, history
    <3>2. /\ (lpc \in {"signal", "ended"}) <=> (lpc' \in {"signal", "ended"})
          /\ (lpc = "write") <=> (lpc' = "write")
      BY <2>1 DEF CloseCalled, TimerFires, CloseTimesOut, Done, vars
    <3>3. /\ Taken' = Taken /\ (PillQueued' <=> PillQueued)
          /\ Place' = Place
      BY <3>1, <3>2 DEF Taken, PillQueued, Place
    <3>4. \A k : Past(k)' = Past(k)
      BY <3>3 DEF Past
    <3>5. StageInv'
      BY <2>1, <3>1 DEF LogInv, StageInv, CloseCalled, TimerFires, CloseTimesOut, Done, vars
    <3> QED
      BY <3>1, <3>2, <3>3, <3>4, <3>5 DEF LogInv, PillInv, OrderInv
  <2> QED
    BY <2>1, LogInvWrite, LogInvReceive, LogInvOutput, LogInvSendPill DEF Next, Close
<1> QED
  BY <1>1, LogInvInit, TypeInvHolds, PTL DEF Spec

\* What was accepted is what was written, is being written, and waits in the
\* channel, in the order of acceptance.
THEOREM LogKeepsOrder == Spec => []InOrder
<1>1. TypeInv /\ LogInv => InOrder
  <2> SUFFICES ASSUME TypeInv, LogInv PROVE InOrder
    OBVIOUS
  <2>1. Len(ch) \in Nat
    BY DEF TypeInv, TypeOK
  <2>2. ASSUME NEW k \in 0 .. Len(ch)
        PROVE  PillsUpTo(k) = IF PillQueued /\ Place <= k THEN 1 ELSE 0
    <3>1. (\E j \in 1 .. k : ch[j] = Pill) <=> (PillQueued /\ Place \in 1 .. k)
      BY <2>1 DEF LogInv, PillInv
    <3>2. PillQueued => Place \in 1 .. Len(ch)
      BY DEF LogInv, PillInv
    <3> QED
      BY <2>1, <3>1, <3>2 DEF PillsUpTo
  <2>3. PillsUpTo(Len(ch)) = IF PillQueued THEN 1 ELSE 0
    BY <2>1, <2>2 DEF LogInv, PillInv
  <2>4. ASSUME NEW k \in 1 .. Len(ch), ch[k] # Pill PROVE PillsUpTo(k) = Past(k)
    BY <2>1, <2>2, <2>4 DEF LogInv, PillInv, Past
  <2> QED
    BY <2>3, <2>4 DEF InOrder, LogInv, OrderInv
<1> QED
  BY <1>1, TypeInvHolds, LogInvHolds, PTL

-----------------------------------------------------------------------------
(* The refinement of LossyLog.                                             *)

\* Every step of the log writer is a step of the lossy log or invisible to it.
THEOREM LossyLogImplemented == Spec => ImplementsLossyLog
<1> DEFINE closed == IF cpc # "closed" THEN "no"
                     ELSE IF lpc = "ended" THEN "flushed" ELSE "timeout"
<1>1. Init => Log!Init
  BY DEF Init, Log!Init, NotClosing, Log!NotClosing
<1>2. TypeInv /\ LogInv /\ [Next]_vars => [Log!Next]_(Log!vars)
  <2> SUFFICES ASSUME TypeInv, LogInv, [Next]_vars PROVE [Log!Next]_(Log!vars)
    OBVIOUS
  <2>0. /\ ch \in Seq(Messages \cup {Pill}) /\ accepted \in Seq(Messages)
        /\ written \in Seq(Messages) /\ QLen \in Nat
        /\ Len(ch) \in Nat /\ Len(accepted) \in Nat /\ Len(written) \in Nat
    BY LogAssumption DEF TypeInv, TypeOK
  <2> USE DEF history
  <2>1. ASSUME NEW l \in Loggers, Write(l) PROVE [Log!Next]_(Log!vars)
    <3> DEFINE m == [from |-> l, n |-> formatted[l] + 1]
    <3>0. closed' = closed
      BY <2>1 DEF Write
    <3>1. m \in Messages
      <4>1. formatted[l] + 1 \in 1 .. MaxWrites
        BY <2>1, LogAssumption DEF Write, TypeInv, TypeOK
      <4> QED
        BY <4>1 DEF Messages
    <3>2. CASE Room
      <4>1. Log!Accept(m)
        BY <2>1, <3>0, <3>2 DEF Write, Log!Accept
      <4> QED
        BY <3>1, <4>1 DEF Log!Next
    <3>3. CASE ~Room
      <4>1. Len(accepted) - Len(written) >= QLen \/ due.closing
        <5>1. Len(ch) >= QLen
          BY <2>0, <3>3 DEF Room
        <5>2. CASE ~due.closing
          <6>1. ~PillQueued
            BY <5>2 DEF PillQueued
          <6>2. Len(accepted) = Taken + Len(ch)
            BY <2>0, <6>1 DEF LogInv, OrderInv, Taken
          <6>3. Taken >= Len(written) /\ Taken \in Nat
            BY <2>0 DEF Taken
          <6> QED
            BY <2>0, <5>1, <6>2, <6>3
        <5> QED
          BY <5>2
      <4>2. Log!Refuse
        BY <2>1, <3>0, <3>3, <4>1 DEF Write, Log!Refuse, Log!Backlog
      <4> QED
        BY <4>2 DEF Log!Next
    <3> QED
      BY <3>2, <3>3
  <2>2. CASE Output
    <3>1. closed' = closed
      BY <2>2 DEF Output, AfterOutput
    <3>2. Taken = Len(written) + 1 /\ p = accepted[Taken]
      BY <2>0, <2>2 DEF Output, Taken, LogInv, OrderInv
    <3>3. Len(accepted) - Len(written) > 0
      <4>1. PillQueued => Len(ch) >= 1
        BY <2>0 DEF LogInv, PillInv
      <4>2. Len(accepted) >= Taken
        BY <2>0, <3>2, <4>1 DEF LogInv, OrderInv
      <4> QED
        BY <2>0, <3>2, <4>2
    <3>4. Log!Output
      BY <2>2, <3>1, <3>2, <3>3 DEF Output, Copied, Log!Output, Log!Backlog
    <3> QED
      BY <3>4 DEF Log!Next
  <2>3. CASE SendPill
    <3>1. closed' = closed
      BY <2>3 DEF SendPill
    <3>2. Log!BeginClose
      BY <2>3, <3>1 DEF SendPill, Log!BeginClose, LogInv, StageInv
    <3> QED
      BY <3>2 DEF Log!Next
  <2>4. CASE CloseTimesOut
    <3>1. closed = "no" /\ closed' = "timeout" /\ due.closing
      BY <2>4 DEF CloseTimesOut, LogInv, StageInv
    <3>2. Log!EndClose("timeout")
      BY <2>4, <3>1 DEF CloseTimesOut, Log!EndClose
    <3> QED
      BY <3>2 DEF Log!Next
  <2>5. CASE Done
    <3>1. closed = "no" /\ closed' = "flushed" /\ due.closing
      BY <2>5 DEF Done, LogInv, StageInv
    <3>2. Len(written) >= due.upto
      BY <2>0, <2>5 DEF Done, LogInv, StageInv, TypeInv, TypeOK
    <3>3. Log!EndClose("flushed")
      BY <2>5, <3>1, <3>2 DEF Done, Log!EndClose
    <3> QED
      BY <3>3 DEF Log!Next
  <2>6. CASE Receive \/ CloseCalled \/ TimerFires \/ UNCHANGED vars
    <3>1. closed' = closed
      BY <2>6 DEF Receive, AfterReceive, CloseCalled, TimerFires, vars
    <3>2. UNCHANGED <<accepted, written, refused, due>>
      BY <2>6 DEF Receive, CloseCalled, TimerFires, vars
    <3> QED
      BY <3>1, <3>2 DEF Log!vars
  <2> QED
    BY <2>1, <2>2, <2>3, <2>4, <2>5, <2>6 DEF Next, Close
<1> QED
  BY <1>1, <1>2, TypeInvHolds, LogInvHolds, PTL DEF Spec, ImplementsLossyLog, Log!Spec

-----------------------------------------------------------------------------
(* Nobody waits for nobody.                                                *)

\* While Close waits for room in the channel its goroutine still drains it, and
\* while Close waits for that goroutine the timer runs or has fired.  A goroutine
\* that signals its end has a Close to signal to, or the process is ending.  The
\* safety that CloseReturns rests on.
NobodyStuck ==
  /\ cpc = "pill" => lpc = "write" \/ (lpc = "receive" /\ (Room \/ ch # <<>>))
  /\ cpc = "wait" => timer \in {"running", "fired"}
  /\ lpc = "signal" => cpc \in {"wait", "closed"}

\* The timer is started with the wait of Close and never stops before it.
TimerInv == cpc = "wait" => timer \in {"running", "fired"}

\* A log writer is never left to a goroutine that has ended, nor a Close to a
\* timer that was not started, for any loggers and any capacity.
THEOREM LogNeverStuck == Spec => []NobodyStuck
<1>1. Init => TimerInv
  BY DEF Init, TimerInv
<1>2. TimerInv /\ [Next]_vars => TimerInv'
  <2> SUFFICES ASSUME TimerInv, [Next]_vars PROVE TimerInv'
    OBVIOUS
  <2> USE DEF TimerInv
  <2>1. ASSUME NEW l \in Loggers, Write(l) PROVE TimerInv'
    BY <2>1 DEF Write
  <2>2. CASE Receive \/ Output
    BY <2>2 DEF Receive, Output
  <2>3. CASE Close
    BY <2>3 DEF Close, CloseCalled, SendPill, StartTimer, CloseTimesOut
  <2>4. CASE TimerFires \/ Done
    BY <2>4 DEF TimerFires, Done
  <2>5. CASE UNCHANGED vars
    BY <2>5 DEF vars
  <2> QED
    BY <2>1, <2>2, <2>3, <2>4, <2>5 DEF Next
<1>3. TypeInv /\ LogInv /\ TimerInv => NobodyStuck
  <2> SUFFICES ASSUME TypeInv, LogInv, TimerInv PROVE NobodyStuck
    OBVIOUS
  <2>1. lpc \in {"receive", "write", "signal", "ended"} /\ Len(ch) \in Nat
    BY DEF TypeInv, TypeOK
  <2>2. ch = <<>> => Room
    BY LogAssumption DEF Room
  <2> QED
    BY <2>1, <2>2 DEF LogInv, StageInv, TimerInv, NobodyStuck
<1> QED
  BY <1>1, <1>2, <1>3, TypeInvHolds, LogInvHolds, PTL DEF Spec
=============================================================================

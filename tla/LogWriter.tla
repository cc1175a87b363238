------------------------------ MODULE LogWriter ------------------------------
(***************************************************************************)
(* The asynchronous log writer (logwriter.go): several loggers share one   *)
(* bounded channel, one goroutine drains it into the output, and main      *)
(* closes it with a nil message and a timeout.                             *)
(***************************************************************************)
EXTENDS Naturals, Sequences, FiniteSets

CONSTANTS
  Loggers,      \* the log.Logger objects that share the writer
  QLen,         \* MAX_LOG_QLEN
  Pill,         \* the nil slice
  MaxWrites     \* bound: messages of each logger

ASSUME LogAssumption == /\ QLen \in Nat \ {0}
                        /\ MaxWrites \in Nat

\* Message n of a logger: every logger formats into a buffer of its own that
\* it uses again for the next message.
Messages == [from : Loggers, n : 1 .. MaxWrites]

ASSUME PillAssumption == Pill \notin Messages

VARIABLES
  formatted,    \* per logger: messages formatted so far
  ch,           \* the channel
  lpc,          \* loop: "receive", "write", "signal" or "ended"
  p,            \* loop: the message received last
  cpc,          \* Close: "open" before it, "pill", "wait", "closed"
  timer,        \* Close: the timer is "off", "running" or "fired"
  accepted,     \* history: the messages Write accepted
  written,      \* history: the messages handed to the output
  refused,      \* history: number of messages Write refused
  due           \* history: the messages accepted when the pill was sent

history == <<accepted, written, refused, due>>
vars == <<formatted, ch, lpc, p, cpc, timer, history>>

NotClosing == [closing |-> FALSE, upto |-> 0]

Init ==
  /\ formatted = [l \in Loggers |-> 0]
  /\ ch = <<>>
  /\ lpc = "receive" /\ p = Pill
  /\ cpc = "open"    /\ timer = "off"
  /\ accepted = <<>> /\ written = <<>>
  /\ refused = 0     /\ due = NotClosing

-----------------------------------------------------------------------------
(* Write.                                                                  *)

OneTooMany == Len(ch) <= QLen

\* The channel takes another message without blocking.
Room == Len(ch) < QLen

\* A logger formats its next message and hands it to Write, which queues a
\* copy or returns the error of an overflow; it never waits.
Write(l) ==
  /\ formatted[l] < MaxWrites
  /\ formatted' = [formatted EXCEPT ![l] = @ + 1]
  /\ LET m == [from |-> l, n |-> formatted[l] + 1] IN
       \/ /\ Room
          /\ ch' = Append(ch, m)
          /\ accepted' = Append(accepted, m)
          /\ UNCHANGED refused
       \/ /\ ~Room
          /\ refused' = refused + 1
          /\ UNCHANGED <<ch, accepted>>
  /\ UNCHANGED <<lpc, p, cpc, timer, written, due>>

-----------------------------------------------------------------------------
(* The loop.                                                               *)

StopsBeforeDraining == IF ch[1] = Pill \/ cpc = "wait" THEN "signal" ELSE "write"

\* What the loop does with the message it receives.
AfterReceive == IF ch[1] = Pill THEN "signal" ELSE "write"

Receive ==
  /\ lpc = "receive" /\ ch # <<>>
  /\ p' = ch[1]
  /\ ch' = Tail(ch)
  /\ lpc' = AfterReceive
  /\ UNCHANGED <<formatted, cpc, timer, history>>

SharesBuffer(m) == [m EXCEPT !.n = formatted[m.from]]

\* The bytes of a queued message: Write made a copy of the logger's buffer.
Copied(m) == m

StopsOnError == "signal"

\* The error of the output is ignored.
AfterOutput == "receive"

\* The output takes the message, which can last as long as it likes.
Output ==
  /\ lpc = "write"
  /\ written' = Append(written, Copied(p))
  /\ lpc' = AfterOutput
  /\ UNCHANGED <<formatted, ch, p, cpc, timer, accepted, refused, due>>

-----------------------------------------------------------------------------
(* Close, deferred by main.                                                *)

CloseCalled ==
  /\ cpc = "open"
  /\ cpc' = "pill"
  /\ UNCHANGED <<formatted, ch, lpc, p, timer, history>>

NoTimer == UNCHANGED timer

StartTimer == timer' = "running"

\* The nil message is sent first, and waits for room without any timeout.
SendPill ==
  /\ cpc = "pill" /\ Room
  /\ ch' = Append(ch, Pill)
  /\ due' = [closing |-> TRUE, upto |-> Len(accepted)]
  /\ StartTimer
  /\ cpc' = "wait"
  /\ UNCHANGED <<formatted, lpc, p, accepted, written, refused>>

TimerFires ==
  /\ timer = "running"
  /\ timer' = "fired"
  /\ UNCHANGED <<formatted, ch, lpc, p, cpc, history>>

CloseTimesOut ==
  /\ cpc = "wait" /\ timer = "fired"
  /\ cpc' = "closed"
  /\ UNCHANGED <<formatted, ch, lpc, p, timer, history>>

\* The loop's send on done meets the select of Close.
Done ==
  /\ cpc = "wait" /\ lpc = "signal"
  /\ cpc' = "closed"
  /\ lpc' = "ended"
  /\ UNCHANGED <<formatted, ch, p, timer, history>>

Close == CloseCalled \/ SendPill \/ CloseTimesOut

Next == \/ \E l \in Loggers : Write(l)
        \/ Receive \/ Output \/ Close \/ TimerFires \/ Done

\* The goroutines run and the timer fires.  A send that waits for room gets
\* the slot that a receive frees, before any send that does not wait.
Fairness ==
  /\ WF_vars(Receive) /\ SF_vars(SendPill) /\ WF_vars(TimerFires)
  /\ WF_vars(CloseTimesOut) /\ WF_vars(Done)

Spec == Init /\ [][Next]_vars

\* The output may be stuck for ever.
FairSpec == Spec /\ Fairness

-----------------------------------------------------------------------------
(* Properties.                                                             *)

Log == INSTANCE LossyLog WITH
         close <- IF cpc # "closed" THEN "no"
                  ELSE IF lpc = "ended" THEN "flushed" ELSE "timeout"

\* The type invariant; the channel never holds more than its capacity.
TypeOK ==
  /\ formatted \in [Loggers -> Nat]
  /\ ch \in Seq(Messages \cup {Pill}) /\ Len(ch) <= QLen
  /\ lpc \in {"receive", "write", "signal", "ended"}
  /\ p \in Messages \cup {Pill}
  /\ cpc \in {"open", "pill", "wait", "closed"}
  /\ timer \in {"off", "running", "fired"}
  /\ accepted \in Seq(Messages) /\ written \in Seq(Messages)
  /\ refused \in Nat
  /\ due \in [closing : BOOLEAN, upto : Nat]

\* Messages that have left the channel.
Taken == Len(written) + (IF lpc = "write" THEN 1 ELSE 0)

\* Whether the nil message is among the first k entries of the channel.
PillsUpTo(k) == IF \E j \in 1 .. k : ch[j] = Pill THEN 1 ELSE 0

\* Every message accepted is written, being written, or in the channel, in
\* the order of acceptance: nothing is lost, doubled or overwritten between
\* Write and the output, also by messages written during and after Close.
InOrder ==
  /\ Len(accepted) = Taken + Len(ch) - PillsUpTo(Len(ch))
  /\ \A n \in 1 .. Len(written) : written[n] = accepted[n]
  /\ lpc = "write" => p = accepted[Taken]
  /\ \A k \in 1 .. Len(ch) : ch[k] # Pill => ch[k] = accepted[Taken + k - PillsUpTo(k)]

\* The log writer implements the lossy log: it refuses a message only with a
\* full backlog or while closing, and a Close that ends through the done
\* channel has flushed what was accepted before.
ImplementsLossyLog == Log!Spec

OutputProgresses == WF_vars(Output)

\* With an output that makes progress every message accepted is written,
\* unless Close returns, and the process ends, before.
AcceptedIsWritten ==
  OutputProgresses =>
    \A k \in 1 .. MaxWrites * Cardinality(Loggers) :
      Len(accepted) >= k ~> Len(written) >= k \/ cpc = "closed"

\* Close returns: always once its nil message is queued, because
\* QUEUE_SHUTDOWN_TIMEOUT bounds the wait of an output that is stuck, and
\* with an output that makes progress also if the queue is full when it is
\* called and the loggers keep writing.
CloseReturns ==
  /\ cpc = "wait" ~> cpc = "closed"
  /\ OutputProgresses => (cpc = "pill" ~> cpc = "closed")
=============================================================================

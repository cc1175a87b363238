------------------------------- MODULE Backoff -------------------------------
(***************************************************************************)
(* One call of Tunnels (holaapi.go) in time: background_init, and then     *)
(* zgettunnels again and again under the exponential backoff of the        *)
(* backoff library, as -backoff-initial and -backoff-deadline set it.      *)
(* Time is counted in the units of the library, of which -1 is its Stop,   *)
(* at the moments at which the code decides.  The flags are not checked:   *)
(* each of them may be negative.                                           *)
(*                                                                         *)
(* The context of the call never ends: every caller hands it the           *)
(* background context.                                                     *)
(***************************************************************************)
EXTENDS Integers

CONSTANTS
  Initials,     \* values of -backoff-initial
  Deadlines,    \* values of -backoff-deadline
  MaxInterval,  \* the 10 minutes of Tunnels
  Timeouts,     \* values of -timeout
  Least,        \* the least duration of the machine
  MaxElapsed    \* bound: when a call that does not end is left alone

ASSUME BackoffAssumption ==
  /\ Initials \subseteq {i \in Int : Least <= i}
  /\ Deadlines \subseteq Int /\ Timeouts \subseteq Int
  /\ MaxInterval \in Nat \ {0} /\ Least \in Int /\ Least < 0
  /\ MaxElapsed \in Nat

VARIABLES
  deadline,     \* -backoff-deadline
  initial,      \* -backoff-initial
  timeout,      \* -timeout
  pc,           \* "init", "attempt", "failed", "pause", or how the call ended:
                \* "tunnels", "refused" (by background_init), "gaveUp"
  elapsed,      \* time since the first attempt of zgettunnels began
  interval,     \* the current interval of the backoff
  pause         \* the randomized interval to wait

flags == <<deadline, initial, timeout>>
vars == <<flags, pc, elapsed, interval, pause>>

Init == /\ deadline \in Deadlines /\ initial \in Initials /\ timeout \in Timeouts
        /\ pc = "init"
        /\ elapsed = 0 /\ interval = 0 /\ pause = 0

NeverStops == 0

\* What Tunnels makes of -backoff-deadline; 0 stands for no limit.
MaxElapsedTime == deadline

\* The backoff starts over with every call.
Reset == interval' = initial /\ elapsed' = 0

\* background_init fails, or is refused by a ban: there is no second attempt.
\* With a timeout that is over at once it can only fail.
BackgroundInit ==
  /\ pc = "init"
  /\ \/ timeout > 0 /\ pc' = "attempt" /\ Reset
     \/ pc' = "refused" /\ UNCHANGED <<interval, elapsed>>
  /\ UNCHANGED <<flags, pause>>

NoTimeout == 1 .. 2 * timeout

\* An attempt takes some time and ends with the context made for it.
AttemptTimes == 1 .. timeout

\* zgettunnels: the tunnels, or an error, which an undecodable answer and an
\* empty list are as well.
ZGetTunnels ==
  /\ pc = "attempt"
  /\ elapsed < MaxElapsed
  /\ \E time \in AttemptTimes : elapsed' = elapsed + time
  /\ pc' \in {"tunnels", "failed"}
  /\ UNCHANGED <<flags, interval, pause>>

\* An interval that grows below the least duration becomes it.
Clipped(i) == IF i < Least THEN Least ELSE i

\* A random value in the interval plus or minus half of it, in whole units and
\* rounded towards 0.
Randomized(i) == IF i >= 0 THEN (i \div 2) .. ((3 * i + 1) \div 2)
                           ELSE Clipped(-((-3 * i - 3) \div 2)) .. -((-i) \div 2)

\* Half as much again: only a positive interval ever meets the limit.
Grown(i) == IF 3 * i >= 2 * MaxInterval THEN MaxInterval
            ELSE IF i >= 0 THEN (3 * i) \div 2 ELSE Clipped(-((-3 * i) \div 2))

Stop == -1

\* The next pause would end after the deadline.
TooLate == MaxElapsedTime # 0 /\ elapsed + pause' > MaxElapsedTime

\* NextBackOff of the library, and what RetryNotify does with its answer: a
\* pause of -1 is not told from the end of the retries.
NextBackOff ==
  /\ pc = "failed"
  /\ pause' \in Randomized(interval)
  /\ interval' = Grown(interval)
  /\ pc' = IF TooLate \/ pause' = Stop THEN "gaveUp" ELSE "pause"
  /\ UNCHANGED <<flags, elapsed>>

\* The timer of a negative pause fires at once.
Pause ==
  /\ pc = "pause"
  /\ elapsed' = IF pause > 0 THEN elapsed + pause ELSE elapsed
  /\ pc' = "attempt"
  /\ UNCHANGED <<flags, interval, pause>>

Next == BackgroundInit \/ ZGetTunnels \/ NextBackOff \/ Pause

Spec == Init /\ [][Next]_vars

\* API calls end with their context, and timers fire.
FairSpec == Spec /\ WF_vars(Next)

-----------------------------------------------------------------------------
(* Properties.                                                             *)

\* The type invariant.
TypeOK ==
  /\ deadline \in Deadlines /\ initial \in Initials /\ timeout \in Timeouts
  /\ pc \in {"init", "attempt", "failed", "pause", "tunnels", "refused", "gaveUp"}
  /\ elapsed \in Nat /\ interval \in Int /\ pause \in Int

\* With a deadline the attempts take at most that long and the one attempt
\* that may have begun just before it, a negative deadline allowing a single
\* attempt; without one the call never gives up.  This holds for every
\* timeout, but only for an initial interval that is not negative: from a
\* negative one the pauses grow downwards, and elapsed time plus pause stays
\* below the deadline for ever.
DeadlineBound ==
  initial >= 0 =>
    /\ deadline > 0 /\ timeout > 0 => elapsed <= deadline + timeout
    /\ deadline < 0 /\ timeout > 0 => elapsed <= timeout
    /\ timeout <= 0 => elapsed = 0
    /\ deadline = 0 => pc # "gaveUp"

\* A call with a deadline ends even if every attempt fails, also for an
\* initial interval of 0, for which the backoff never pauses.  (With a
\* negative one it need not, see DeadlineBound.)
TunnelsEnds ==
  deadline # 0 /\ initial >= 0 ~> pc \in {"tunnels", "refused", "gaveUp"}
=============================================================================

---------------------------- MODULE BackoffProofs ----------------------------
(***************************************************************************)
(* Proofs about Backoff, for any flags, intervals and timeouts, and about  *)
(* the functions of ApiFunctions, for any file, date and width of the      *)
(* integers.                                                               *)
(***************************************************************************)
EXTENDS Backoff, ApiFunctions, SequenceTheorems, TLAPS

\* The pauses and the intervals of the backoff are whole units, and none is
\* negative as long as the interval before it was not.
LEMMA WholeUnits ==
  ASSUME NEW i \in Int
  PROVE  Randomized(i) \subseteq Int /\ Grown(i) \in Int
BY BackoffAssumption DEF Randomized, Grown, Clipped

LEMMA IntervalsStayNatural ==
  ASSUME NEW i \in Nat
  PROVE  Randomized(i) \subseteq Nat /\ Grown(i) \in Nat
BY BackoffAssumption DEF Randomized, Grown

\* Nor does one that was not positive become so.
LEMMA IntervalsStayNegative ==
  ASSUME NEW i \in Int, i <= 0
  PROVE  (\A p \in Randomized(i) : p <= 0) /\ Grown(i) <= 0
<1>1. \A p \in Randomized(i) : p <= 0
  BY BackoffAssumption DEF Randomized, Clipped
<1>2. Grown(i) <= 0
  BY BackoffAssumption DEF Grown, Clipped
<1> QED
  BY <1>1, <1>2

\* A pause that does not end after the deadline ends within it.
LEMMA WithinOrAfter ==
  ASSUME NEW t \in Nat, NEW p \in Int, NEW d \in Int
  PROVE  (t + p > d) \/ (t + p <= d)
OBVIOUS

\* The flags keep their values, which may be negative; time never runs back.
THEOREM BackoffTypeCorrect == Spec => []TypeOK
<1> USE BackoffAssumption
<1>1. Init => TypeOK
  BY DEF Init, TypeOK
<1>2. TypeOK /\ [Next]_vars => TypeOK'
  <2> SUFFICES ASSUME TypeOK, [Next]_vars PROVE TypeOK'
    OBVIOUS
  <2> USE DEF TypeOK, flags
  <2>1. CASE BackgroundInit
    BY <2>1 DEF BackgroundInit, Reset
  <2>2. CASE ZGetTunnels
    BY <2>2 DEF ZGetTunnels, AttemptTimes
  <2>3. CASE NextBackOff
    BY <2>3, WholeUnits DEF NextBackOff
  <2>4. CASE Pause
    BY <2>4 DEF Pause
  <2>5. CASE UNCHANGED vars
    BY <2>5 DEF vars
  <2> QED
    BY <2>1, <2>2, <2>3, <2>4, <2>5 DEF Next
<1> QED
  BY <1>1, <1>2, PTL DEF Spec

\* What an attempt may still add to the time: it begins at once, or within the
\* deadline, which a pause does not reach beyond.  No interval is negative
\* unless the first one was, and a timeout that is over at once lets no
\* attempt begin.
DeadlineInv ==
  /\ initial >= 0 => interval >= 0 /\ pause >= 0
  /\ pc = "init" => elapsed = 0
  /\ pc \in {"attempt", "failed", "pause", "tunnels", "gaveUp"} => timeout > 0
  /\ initial >= 0 /\ pc = "attempt" /\ deadline # 0 => elapsed = 0 \/ elapsed <= deadline
  /\ initial >= 0 /\ pc = "pause" /\ deadline # 0 => elapsed + pause <= deadline
  /\ DeadlineBound

\* From an initial interval that is not negative the attempts of a call exceed
\* its deadline by one attempt at most, for any timeout, and with no deadline
\* it never gives up.
THEOREM BackoffWithinDeadline == Spec => []DeadlineBound
<1> USE BackoffAssumption
<1>1. Init => DeadlineInv
  BY DEF Init, DeadlineInv, DeadlineBound
<1>2. TypeOK /\ DeadlineInv /\ [Next]_vars => DeadlineInv'
  <2> SUFFICES ASSUME TypeOK, DeadlineInv, [Next]_vars PROVE DeadlineInv'
    OBVIOUS
  <2>0. /\ deadline \in Int /\ initial \in Int /\ timeout \in Int
        /\ elapsed \in Nat /\ pause \in Int /\ interval \in Int
    BY DEF TypeOK
  <2> USE <2>0 DEF DeadlineInv, DeadlineBound, flags
  <2>1. CASE BackgroundInit
    BY <2>1 DEF BackgroundInit, Reset
  <2>2. CASE ZGetTunnels
    <3>1. PICK time \in 1 .. timeout : elapsed' = elapsed + time
      BY <2>2 DEF ZGetTunnels, AttemptTimes
    <3> QED
      BY <2>2, <3>1 DEF ZGetTunnels
  <2>3. CASE NextBackOff
    <3>1. pause' \in Int /\ interval' \in Int
      BY <2>3, WholeUnits DEF NextBackOff
    <3>2. initial >= 0 => pause' >= 0 /\ interval' >= 0
      BY <2>3, IntervalsStayNatural DEF NextBackOff
    <3>3. /\ UNCHANGED <<deadline, initial, timeout, elapsed>>
          /\ pc = "failed" /\ pc' \in {"gaveUp", "pause"}
          /\ (deadline = 0 /\ initial >= 0) => (pc' = "pause")
          /\ (pc' = "pause" /\ deadline # 0) => (elapsed + pause' <= deadline)
      <4>1. (elapsed + pause' > deadline) \/ (elapsed + pause' <= deadline)
        BY <2>0, <3>1, WithinOrAfter
      <4>2. initial >= 0 => pause' # Stop
        BY <3>1, <3>2 DEF Stop
      <4> QED
        BY <2>3, <4>1, <4>2 DEF NextBackOff, TooLate, MaxElapsedTime
    <3> QED
      BY <3>1, <3>2, <3>3
  <2>4. CASE Pause
    BY <2>4 DEF Pause
  <2>5. CASE UNCHANGED vars
    BY <2>5 DEF vars
  <2> QED
    BY <2>1, <2>2, <2>3, <2>4, <2>5 DEF Next
<1> QED
  BY <1>1, <1>2, BackoffTypeCorrect, PTL DEF Spec, DeadlineInv

\* What the bound leaves out: from a negative initial interval there is never a
\* pause, so that failing attempts follow each other at once.
THEOREM BackoffNegativeNeverPauses == Spec => [](initial < 0 => pause <= 0)
<1> DEFINE Inv == initial < 0 => interval <= 0 /\ pause <= 0
<1> USE BackoffAssumption
<1>1. Init => Inv
  BY DEF Init
<1>2. TypeOK /\ Inv /\ [Next]_vars => Inv'
  <2> SUFFICES ASSUME TypeOK, Inv, [Next]_vars PROVE Inv'
    OBVIOUS
  <2> USE DEF TypeOK, flags
  <2>1. CASE BackgroundInit
    BY <2>1 DEF BackgroundInit, Reset
  <2>2. CASE NextBackOff
    BY <2>2, IntervalsStayNegative DEF NextBackOff
  <2>3. CASE ZGetTunnels \/ Pause \/ UNCHANGED vars
    BY <2>3 DEF ZGetTunnels, Pause, vars
  <2> QED
    BY <2>1, <2>2, <2>3 DEF Next
<1>3. Inv => (initial < 0 => pause <= 0)
  OBVIOUS
<1> HIDE DEF Inv
<1> QED
  BY <1>1, <1>2, <1>3, BackoffTypeCorrect, PTL DEF Spec

-----------------------------------------------------------------------------
(* The dates of a fallback configuration.                                  *)

\* A number within the width of the machine is kept, one beyond it comes back
\* on the other side.
LEMMA WrapKeeps ==
  ASSUME NEW x \in Int, -Half <= x, x < Half
  PROVE  Wrap(x) = x
<1>1. (x + Half) % (2 * Half) = x + Half
  BY WidthAssumption
<1> QED
  BY <1>1, WidthAssumption DEF Wrap

LEMMA WrapTurnsNegative ==
  ASSUME NEW x \in Int, Half <= x, x < 2 * Half
  PROVE  Wrap(x) < 0
<1>1. (x + Half) % (2 * Half) = x + Half - 2 * Half
  BY WidthAssumption
<1> QED
  BY <1>1, WidthAssumption DEF Wrap

\* A configuration as the service publishes it.
Conf(updated, ttl) == [updated_ts |-> updated, ttl_ms |-> ttl]

\* A fallback configuration expires with its TTL, whenever it was published,
\* as long as the TTL in nanoseconds fits the integers of the machine
\* (FallbackConfig.Expired).
THEOREM ConfigExpires ==
  ASSUME NEW updated \in Int, NEW ttl \in Nat, NEW now \in Int,
         ttl * Scale < Half
  PROVE  Expired(Conf(updated, ttl), now) <=> now > (updated + ttl) * Scale
<1>1. ttl * Scale \in Nat /\ updated * Scale \in Int
  BY WidthAssumption
<1>2. TTL(ttl) = ttl * Scale
  BY <1>1, WrapKeeps, WidthAssumption DEF TTL
<1>3. (updated + ttl) * Scale = updated * Scale + ttl * Scale
  BY WidthAssumption
<1> QED
  BY <1>1, <1>2, <1>3 DEF Expired, UpdatedAt, Conf

\* A TTL that does not fit, but by less than the width, turns negative: such a
\* configuration has expired as soon as it was published, so that every failover
\* would fetch another one.
THEOREM ConfigOverBeforeItBegan ==
  ASSUME NEW updated \in Int, NEW ttl \in Nat,
         Half <= ttl * Scale, ttl * Scale < 2 * Half,
         NEW now \in Int, now >= UpdatedAt(updated)
  PROVE  Expired(Conf(updated, ttl), now)
<1>1. ttl * Scale \in Int /\ updated * Scale \in Int
  BY WidthAssumption
<1>2. TTL(ttl) < 0 /\ TTL(ttl) \in Int
  <2>1. TTL(ttl) < 0
    BY <1>1, WrapTurnsNegative DEF TTL
  <2>2. TTL(ttl) \in Int
    BY <1>1, WidthAssumption DEF TTL, Wrap
  <2> QED
    BY <2>1, <2>2
<1> QED
  BY <1>1, <1>2 DEF Expired, UpdatedAt, Conf

-----------------------------------------------------------------------------
(* The bytes of a fallback configuration.                                  *)

\* Where the bytes of a sequence in two parts come from.
LEMMA InTwoParts ==
  ASSUME NEW S, NEW s \in Seq(S), NEW t \in Seq(S)
  PROVE  /\ s \o t \in Seq(S) /\ Len(s \o t) = Len(s) + Len(t)
         /\ \A k \in 1 .. Len(s) : (s \o t)[k] = s[k]
         /\ \A k \in 1 .. Len(t) : (s \o t)[Len(s) + k] = t[k]
BY ConcatProperties, LenProperties

\* Taking the last three bytes to the front brings back a file whose first
\* three were moved to its end, whatever its length (fetchFallbackConfig).
THEOREM FileIsUnscrambled ==
  ASSUME NEW Byte, NEW raw \in Seq(Byte), Len(raw) >= 4
  PROVE  Decodable(SubSeq(raw, 4, Len(raw)) \o SubSeq(raw, 1, 3)) = {raw}
<1> DEFINE l == Len(raw)
           rest == SubSeq(raw, 4, l)
           head == SubSeq(raw, 1, 3)
           file == rest \o head
           first == SubSeq(file, l - 2, l)
           second == SubSeq(file, 1, l - 3)
<1>0. l \in Nat /\ l >= 4
  BY LenProperties
<1>1. /\ rest \in Seq(Byte) /\ Len(rest) = l - 3
      /\ \A k \in 1 .. l - 3 : rest[k] = raw[k + 3]
  BY SubSeqProperties
<1>2. /\ head \in Seq(Byte) /\ Len(head) = 3
      /\ \A k \in 1 .. 3 : head[k] = raw[k]
  BY SubSeqProperties
<1> HIDE DEF l, rest, head
<1>3. /\ file \in Seq(Byte) /\ Len(file) = l
      /\ \A k \in 1 .. l - 3 : file[k] = raw[k + 3]
      /\ \A k \in 1 .. 3 : file[l - 3 + k] = raw[k]
  <2>1. l - 3 \in Nat /\ 3 \in Nat /\ l - 3 + 3 = l
    BY <1>0
  <2>2. /\ file \in Seq(Byte) /\ Len(file) = Len(rest) + Len(head)
        /\ \A k \in 1 .. Len(rest) : file[k] = rest[k]
        /\ \A k \in 1 .. Len(head) : file[Len(rest) + k] = head[k]
    <3>1. rest \in Seq(Byte) /\ head \in Seq(Byte)
      BY <1>1, <1>2
    <3> QED
      BY <3>1, InTwoParts
  <2> HIDE DEF file
  <2> QED
    BY <1>1, <1>2, <2>1, <2>2
<1> HIDE DEF file
<1>4. /\ first \in Seq(Byte) /\ Len(first) = 3
      /\ \A k \in 1 .. 3 : first[k] = raw[k]
  <2>1. \A k \in l - 2 .. l : file[k] \in Byte
    BY <1>0, <1>3
  <2>2. /\ first \in Seq(Byte) /\ Len(first) = 3
        /\ \A k \in 1 .. 3 : first[k] = file[l - 2 + k - 1]
    BY <1>0, <2>1, SubSeqProperties
  <2>3. \A k \in 1 .. 3 : l - 2 + k - 1 = l - 3 + k
    BY <1>0
  <2> HIDE DEF first
  <2> QED
    BY <1>3, <2>2, <2>3
<1>5. /\ second \in Seq(Byte) /\ Len(second) = l - 3
      /\ \A k \in 1 .. l - 3 : second[k] = raw[k + 3]
  BY <1>0, <1>3, SubSeqProperties
<1> HIDE DEF first, second
<1>6. /\ first \o second \in Seq(Byte) /\ Len(first \o second) = l
      /\ \A k \in 1 .. 3 : (first \o second)[k] = raw[k]
      /\ \A k \in 1 .. l - 3 : (first \o second)[3 + k] = raw[k + 3]
  <2>1. l - 3 \in Nat /\ 3 \in Nat /\ 3 + (l - 3) = l
    BY <1>0
  <2>2. /\ first \o second \in Seq(Byte)
        /\ Len(first \o second) = Len(first) + Len(second)
        /\ \A k \in 1 .. Len(first) : (first \o second)[k] = first[k]
        /\ \A k \in 1 .. Len(second) : (first \o second)[Len(first) + k] = second[k]
    <3>1. first \in Seq(Byte) /\ second \in Seq(Byte)
      BY <1>4, <1>5
    <3> QED
      BY <3>1, InTwoParts
  <2> QED
    BY <1>4, <1>5, <2>1, <2>2
<1>7. ASSUME NEW k \in 1 .. l PROVE (first \o second)[k] = raw[k]
  <2>1. CASE k <= 3
    BY <1>6, <2>1
  <2>2. CASE ~(k <= 3)
    <3>1. k - 3 \in 1 .. l - 3 /\ 3 + (k - 3) = k /\ (k - 3) + 3 = k
      BY <1>0, <2>2
    <3> QED
      BY <1>6, <3>1
  <2> QED
    BY <2>1, <2>2
<1>8. Unscrambled(file) = raw
  <2>1. Unscrambled(file) = first \o second
    BY <1>3 DEF Unscrambled, first, second
  <2> QED
    BY <1>6, <1>7, <2>1, SeqEqual DEF l
<1> QED
  BY <1>0, <1>3, <1>8 DEF Decodable, file, rest, head, l
=============================================================================

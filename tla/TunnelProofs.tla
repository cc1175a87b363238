---------------------------- MODULE TunnelProofs ----------------------------
(***************************************************************************)
(* Proofs about Tunnel, for any addresses and any lists of them a lookup   *)
(* can return; about RescueCredentials, a request while the credentials    *)
(* rotate any number of times; and about ReadResponse, the loop in which   *)
(* an exchange reads what the upstream answers, byte by byte.              *)
(***************************************************************************)
EXTENDS RescueCredentials, ReadResponse, SequenceTheorems, TLAPS

\* The destination of the k-th dial of a request.
Route(k) == IF k = 1 THEN Host ELSE resolved[k - 1]

\* What is left to dial continues what was dialled.
DestsInv ==
  /\ pc = "dial" =>
       /\ Len(attempts) + Len(dests) = 1 + Len(resolved)
       /\ \A k \in 1 .. Len(dests) : dests[k] = Route(Len(attempts) + k)
  /\ pc = "exchange" =>
       /\ Len(attempts) + Len(dests) = 2 + Len(resolved)
       /\ \A k \in 1 .. Len(dests) : dests[k] = Route(Len(attempts) - 1 + k)

\* What is known of the attempts at each stage of the handler.
AttemptsInv ==
  /\ pc = "serve" => attempts = <<>> /\ resolved = <<>> /\ reply = 0
  /\ pc \in {"exchange", "lookup", "answer", "relay"} => Len(attempts) > 0
  /\ pc = "lookup" => /\ Len(attempts) = 1 /\ resolved = <<>>
                      /\ attempts[1].verdict = "blocked"
  /\ Len(attempts) <= 1 + Len(resolved)
  /\ \A n \in 1 .. Len(attempts) : attempts[n].to = Route(n)
  /\ Len(attempts) > 1 \/ resolved # <<>> =>
       Len(attempts) > 0 /\ attempts[1].verdict = "blocked"
  /\ \A n \in 1 .. Len(attempts) : attempts[n].verdict = "granted" =>
       n = Len(attempts) /\ pc \in {"answer", "relay", "done"} /\ reply # 502
  /\ pc = "exchange" => attempts[Len(attempts)].verdict = "asked"
  /\ pc \in {"answer", "relay"} => attempts[Len(attempts)].verdict = "granted"
  /\ pc \in {"exchange", "answer", "relay"} => attempts[Len(attempts)].open

\* What the client has been told.
ReplyInv ==
  /\ reply # 0 => pc \in {"relay", "done"}
  /\ reply = 200 => Len(attempts) > 0 /\ attempts[Len(attempts)].verdict = "granted"
  /\ reply = 502 => Len(attempts) = 1 + Len(resolved)
  /\ \A n \in 1 .. Len(attempts) :
       pc = "done" /\ attempts[n].open /\ attempts[n].verdict = "granted" =>
         reply \in {400, 500}

TunnelInv == TypeOK /\ DestsInv /\ AttemptsInv /\ ReplyInv

-----------------------------------------------------------------------------
(* What the updates of the attempts do.                                    *)

\* A verdict changes the last attempt and nothing else about it.
LEMMA JudgedAttempts ==
  ASSUME NEW v \in {"granted", "blocked", "refused"},
         attempts \in Seq(Attempts), Len(attempts) > 0, Judged(v)
  PROVE  /\ attempts' \in Seq(Attempts) /\ Len(attempts') = Len(attempts)
         /\ \A n \in 1 .. Len(attempts) :
              /\ attempts'[n].to = attempts[n].to
              /\ attempts'[n].open = attempts[n].open
              /\ attempts'[n].verdict =
                   IF n = Len(attempts) THEN v ELSE attempts[n].verdict
<1> DEFINE l == Len(attempts)
           a == [attempts[l] EXCEPT !.verdict = v]
<1>1. l \in 1 .. l /\ attempts[l] \in Attempts
  OBVIOUS
<1>2. /\ a \in Attempts /\ a.to = attempts[l].to /\ a.open = attempts[l].open
      /\ a.verdict = v
  BY <1>1 DEF Attempts
<1>3. attempts' = [attempts EXCEPT ![l] = a]
  BY DEF Judged
<1> QED
  <2> HIDE DEF a
  <2> QED
    BY <1>1, <1>2, <1>3, ExceptSeq

\* The connection of attempt k is closed, by the relay or by its finalizer.
ClosedAt(k) == attempts' = [attempts EXCEPT ![k].open = FALSE]

\* Closing a connection changes nothing else about its attempt.
LEMMA ClosedAttempts ==
  ASSUME NEW k \in 1 .. Len(attempts),
         attempts \in Seq(Attempts), ClosedAt(k)
  PROVE  /\ attempts' \in Seq(Attempts) /\ Len(attempts') = Len(attempts)
         /\ \A n \in 1 .. Len(attempts) :
              /\ attempts'[n].to = attempts[n].to
              /\ attempts'[n].verdict = attempts[n].verdict
              /\ attempts'[n].open <=> (n # k /\ attempts[n].open)
<1> DEFINE a == [attempts[k] EXCEPT !.open = FALSE]
<1>1. \A n \in 1 .. Len(attempts) : attempts[n] \in Attempts
  OBVIOUS
<1>2. /\ a \in Attempts /\ a.to = attempts[k].to /\ a.open = FALSE
      /\ a.verdict = attempts[k].verdict
  BY <1>1 DEF Attempts
<1>3. attempts' = [attempts EXCEPT ![k] = a]
  BY DEF ClosedAt
<1> HIDE DEF a
<1>4. /\ attempts' \in Seq(Attempts) /\ Len(attempts') = Len(attempts)
      /\ \A n \in 1 .. Len(attempts) : attempts'[n] = IF n = k THEN a ELSE attempts[n]
  <2>1. a \in Attempts
    BY <1>2
  <2> QED
    BY <1>3, <2>1, ExceptSeq
<1>5. ASSUME NEW n \in 1 .. Len(attempts)
      PROVE  /\ attempts'[n].to = attempts[n].to
             /\ attempts'[n].verdict = attempts[n].verdict
             /\ attempts'[n].open <=> (n # k /\ attempts[n].open)
  <2>1. attempts[n].open \in BOOLEAN
    BY <1>1 DEF Attempts
  <2>2. CASE n = k
    BY <1>2, <1>4, <2>2
  <2>3. CASE n # k
    BY <1>4, <2>1, <2>3
  <2> QED
    BY <2>2, <2>3
<1> QED
  BY <1>4, <1>5

\* A new attempt leaves the earlier ones alone.
LEMMA AppendedAttempts ==
  ASSUME NEW a \in Attempts,
         attempts \in Seq(Attempts), attempts' = Append(attempts, a)
  PROVE  /\ attempts' \in Seq(Attempts) /\ Len(attempts') = Len(attempts) + 1
         /\ attempts'[Len(attempts) + 1] = a
         /\ \A n \in 1 .. Len(attempts) : attempts'[n] = attempts[n]
BY AppendProperties

-----------------------------------------------------------------------------
(* What the steps do.                                                      *)

\* What remains to dial when the current destination is done with.
LEMMA TailOfDests ==
  ASSUME dests \in Seq(Addresses \cup {Host}), dests # <<>>
  PROVE  /\ Len(dests) \in Nat /\ Len(dests) > 0
         /\ Tail(dests) \in Seq(Addresses \cup {Host})
         /\ Len(Tail(dests)) = Len(dests) - 1
         /\ \A k \in 1 .. Len(dests) - 1 : Tail(dests)[k] = dests[k + 1]
         /\ Tail(dests) = <<>> <=> Len(dests) = 1
         /\ Head(dests) = dests[1] /\ Head(dests) \in Addresses \cup {Host}
<1>1. /\ Len(dests) \in Nat /\ Len(dests) > 0
      /\ Tail(dests) \in Seq(Addresses \cup {Host})
      /\ Len(Tail(dests)) = Len(dests) - 1
      /\ \A k \in 1 .. Len(dests) - 1 : Tail(dests)[k] = dests[k + 1]
  BY HeadTailProperties, EmptySeq, LenProperties
<1>2. Tail(dests) = <<>> <=> Len(dests) = 1
  BY <1>1, EmptySeq, LenProperties
<1>3. Head(dests) = dests[1] /\ Head(dests) \in Addresses \cup {Host}
  BY HeadTailProperties
<1> QED
  BY <1>1, <1>2, <1>3

\* A dial that failed goes on with the next destination or ends the request.
LEMMA FailedAttempt ==
  ASSUME TypeOK, attempts' \in Seq(Attempts), Len(attempts') > 0,
         pc \in {"dial", "exchange"}, reply = 0,
         Len(attempts') + Len(dests) = 2 + Len(resolved),
         \A k \in 1 .. Len(dests) : dests[k] = Route(Len(attempts') - 1 + k),
         \A n \in 1 .. Len(attempts') : attempts'[n].to = Route(n)
                                        /\ attempts'[n].verdict # "granted",
         Len(attempts') > 1 \/ resolved # <<>> => attempts'[1].verdict = "blocked",
         AttemptFailed, UNCHANGED <<req, gone, resolved>>
  PROVE  TunnelInv'
<1> DEFINE l == Len(attempts')
<1>1. /\ dests \in Seq(Addresses \cup {Host}) /\ dests # <<>>
      /\ resolved \in Seq(Addresses) /\ Len(resolved) \in Nat
      /\ l \in Nat /\ dests' = Tail(dests) /\ resolved' = resolved
  BY LenProperties DEF TypeOK, AttemptFailed
<1>2. /\ Len(dests) \in Nat /\ Len(dests) > 0
      /\ dests' \in Seq(Addresses \cup {Host})
      /\ Len(dests') = Len(dests) - 1
      /\ \A k \in 1 .. Len(dests) - 1 : dests'[k] = dests[k + 1]
      /\ dests' = <<>> <=> Len(dests) = 1
  BY <1>1, TailOfDests
<1>3. \/ Len(dests) = 1 /\ pc' = "done" /\ reply' = 502
      \/ Len(dests) > 1 /\ pc' = "dial" /\ reply' = 0
  BY <1>1, <1>2 DEF AttemptFailed, BadGateway, Finish
<1>4. TypeOK'
  <2>1. req' \in Requests /\ gone' \in BOOLEAN
    BY DEF TypeOK
  <2>2. pc' = "dial" => dests' # <<>>
    BY <1>2, <1>3
  <2> QED
    BY <1>1, <1>2, <1>3, <2>1, <2>2 DEF TypeOK
<1>5. DestsInv'
  <2> SUFFICES ASSUME pc' = "dial"
               PROVE  /\ l + Len(dests') = 1 + Len(resolved')
                      /\ \A k \in 1 .. Len(dests') :
                           dests'[k] = IF l + k = 1 THEN Host ELSE resolved'[l + k - 1]
    BY <1>3 DEF DestsInv, Route
  <2>1. ASSUME NEW k \in 1 .. Len(dests')
        PROVE  dests'[k] = IF l + k = 1 THEN Host ELSE resolved'[l + k - 1]
    <3>0. k \in 1 .. Len(dests) - 1
      BY <1>2, <2>1
    <3>1. /\ k \in Int /\ k + 1 \in 1 .. Len(dests)
          /\ dests'[k] = dests[k + 1]
      <4>1. dests'[k] = dests[k + 1]
        BY <1>2, <3>0
      <4>2. k \in Int /\ k + 1 \in 1 .. Len(dests)
        BY <1>2, <3>0
      <4> QED
        BY <4>1, <4>2
    <3>2. dests[k + 1] = Route(l - 1 + (k + 1)) /\ l - 1 + (k + 1) = l + k
      BY <3>1, <1>1
    <3> QED
      BY <3>1, <3>2, <1>1 DEF Route
  <2> QED
    BY <2>1, <1>1, <1>2
<1>6. AttemptsInv'
  BY <1>1, <1>2, <1>3 DEF AttemptsInv, Route
<1>7. ReplyInv'
  BY <1>1, <1>2, <1>3 DEF ReplyInv
<1> QED
  BY <1>4, <1>5, <1>6, <1>7 DEF TunnelInv

\* A request is refused, or its dialling starts with the host it names.
LEMMA ServeHTTPKeepsInv == TunnelInv /\ ServeHTTP => TunnelInv'
<1> SUFFICES ASSUME TunnelInv, ServeHTTP
             PROVE  TunnelInv'
  OBVIOUS
<1>1. /\ pc = "serve" /\ attempts = <<>> /\ resolved = <<>> /\ reply = 0
      /\ UNCHANGED <<req, gone, attempts, resolved>>
      /\ Len(attempts) = 0 /\ Len(resolved) = 0
  BY EmptySeq DEF TunnelInv, AttemptsInv, ServeHTTP
<1>2. \/ pc' = "dial" /\ dests' = <<Host>> /\ reply' = 0
      \/ pc' = "done" /\ dests' = dests /\ reply' = 400
  BY <1>1 DEF ServeHTTP, Finish
<1>3. /\ <<Host>> \in Seq(Addresses \cup {Host}) /\ <<Host>> # <<>>
      /\ Len(<<Host>>) = 1 /\ <<Host>>[1] = Host
  OBVIOUS
<1>4. TypeOK'
  <2>1. dests' \in Seq(Addresses \cup {Host})
    BY <1>2, <1>3 DEF TunnelInv, TypeOK
  <2> QED
    BY <1>1, <1>2, <1>3, <2>1 DEF TunnelInv, TypeOK
<1>5. DestsInv'
  BY <1>1, <1>2, <1>3 DEF DestsInv, Route
<1>6. AttemptsInv'
  BY <1>1, <1>2 DEF TunnelInv, AttemptsInv, Route
<1>7. ReplyInv'
  BY <1>1, <1>2 DEF ReplyInv
<1> QED
  BY <1>4, <1>5, <1>6, <1>7 DEF TunnelInv

\* A dial appends an attempt to the next destination.
LEMMA DialKeepsInv == TunnelInv /\ Dial => TunnelInv'
<1> SUFFICES ASSUME TunnelInv, Dial
             PROVE  TunnelInv'
  OBVIOUS
<1> USE DEF TunnelInv
<1>1. /\ pc = "dial" /\ reply = 0 /\ UNCHANGED <<req, gone, resolved>>
      /\ attempts \in Seq(Attempts) /\ Len(attempts) \in Nat
      /\ resolved \in Seq(Addresses) /\ Len(resolved) \in Nat
      /\ dests \in Seq(Addresses \cup {Host}) /\ dests # <<>>
  BY LenProperties DEF Dial, TypeOK, ReplyInv
<1>2. /\ Len(dests) \in Nat /\ Len(dests) > 0
      /\ Head(dests) = dests[1] /\ Head(dests) \in Addresses \cup {Host}
  BY <1>1, TailOfDests
<1>3. /\ Len(attempts) + Len(dests) = 1 + Len(resolved)
      /\ \A k \in 1 .. Len(dests) : dests[k] = Route(Len(attempts) + k)
  BY <1>1 DEF DestsInv
<1>4. resolved # <<>> <=> Len(resolved) > 0
  BY <1>1, EmptySeq
<1>5. \A n \in 1 .. Len(attempts) : /\ attempts[n].to = Route(n)
                                    /\ attempts[n].verdict # "granted"
  BY <1>1 DEF AttemptsInv
<1>6. PICK v \in {"asked", "unreachable"} :
        /\ attempts' = Append(attempts,
             [to |-> Head(dests), verdict |-> v, open |-> v = "asked"])
        /\ \/ v = "asked" /\ pc' = "exchange" /\ UNCHANGED <<dests, reply>>
           \/ v = "unreachable" /\ AttemptFailed
  BY DEF Dial
<1> DEFINE a == [to |-> Head(dests), verdict |-> v, open |-> v = "asked"]
<1>7. /\ a \in Attempts /\ a.to = Route(Len(attempts) + 1)
      /\ a.verdict = v /\ (a.open <=> v = "asked")
  <2>1. Head(dests) = Route(Len(attempts) + 1)
    BY <1>2, <1>3
  <2>2. (v = "asked") \in BOOLEAN
    OBVIOUS
  <2> QED
    BY <1>2, <2>1, <2>2 DEF Attempts
<1>8. /\ attempts' \in Seq(Attempts) /\ Len(attempts') = Len(attempts) + 1
      /\ attempts'[Len(attempts) + 1] = a
      /\ \A n \in 1 .. Len(attempts) : attempts'[n] = attempts[n]
  <2>1. attempts' = Append(attempts, a)
    BY <1>6
  <2> HIDE DEF a
  <2> QED
    BY <1>1, <1>7, <2>1, AppendedAttempts
<1> HIDE DEF a
<1>9. \A n \in 1 .. Len(attempts') : /\ attempts'[n].to = Route(n)
                                     /\ attempts'[n].verdict # "granted"
  <2> SUFFICES ASSUME NEW n \in 1 .. Len(attempts')
               PROVE  attempts'[n].to = Route(n) /\ attempts'[n].verdict # "granted"
    OBVIOUS
  <2>1. CASE n = Len(attempts) + 1
    BY <2>1, <1>7, <1>8
  <2>2. CASE n # Len(attempts) + 1
    BY <2>2, <1>1, <1>5, <1>8
  <2> QED
    BY <2>1, <2>2
<1>10. Len(attempts') > 1 \/ resolved # <<>> => attempts'[1].verdict = "blocked"
  <2> SUFFICES ASSUME Len(attempts') > 1 \/ resolved # <<>>
               PROVE  attempts'[1].verdict = "blocked"
    OBVIOUS
  <2>1. resolved # <<>>
    BY <1>1, <1>2, <1>3, <1>4, <1>8
  <2>2. Len(attempts) > 0 /\ attempts[1].verdict = "blocked"
    BY <2>1 DEF AttemptsInv
  <2> QED
    BY <2>2, <1>1, <1>8
<1>11. CASE v = "unreachable"
  BY <1>1, <1>3, <1>6, <1>8, <1>9, <1>10, <1>11, FailedAttempt
<1>12. CASE v = "asked"
  <2>1. pc' = "exchange" /\ UNCHANGED <<dests, reply>>
    BY <1>6, <1>12
  <2>2. TypeOK'
    BY <2>1, <1>1, <1>8 DEF TypeOK
  <2>3. DestsInv'
    BY <2>1, <1>1, <1>3, <1>8 DEF DestsInv, Route
  <2>4. AttemptsInv'
    BY <2>1, <1>1, <1>2, <1>3, <1>7, <1>8, <1>9, <1>10, <1>12 DEF AttemptsInv, Route
  <2>5. ReplyInv'
    BY <2>1, <1>1 DEF ReplyInv
  <2> QED
    BY <2>2, <2>3, <2>4, <2>5
<1> QED
  BY <1>11, <1>12

\* The upstream judges the current attempt: granted, to be rescued or failed.
LEMMA ExchangeKeepsInv == TunnelInv /\ Exchange => TunnelInv'
<1> SUFFICES ASSUME TunnelInv, Exchange
             PROVE  TunnelInv'
  OBVIOUS
<1> USE DEF TunnelInv
<1>1. /\ pc = "exchange" /\ reply = 0 /\ UNCHANGED <<req, gone, resolved>>
      /\ attempts \in Seq(Attempts) /\ Len(attempts) \in Nat /\ Len(attempts) > 0
      /\ resolved \in Seq(Addresses) /\ Len(resolved) \in Nat
      /\ dests \in Seq(Addresses \cup {Host}) /\ dests # <<>>
      /\ Len(attempts) + Len(dests) = 2 + Len(resolved)
      /\ \A k \in 1 .. Len(dests) : dests[k] = Route(Len(attempts) - 1 + k)
  BY LenProperties DEF Exchange, TypeOK, ReplyInv, AttemptsInv, DestsInv
<1>2. /\ Len(dests) \in Nat /\ Len(dests) > 0
      /\ Len(resolved) = 0 <=> resolved = <<>>
  BY <1>1, EmptySeq, TailOfDests
<1>3. /\ \A n \in 1 .. Len(attempts) : /\ attempts[n].to = Route(n)
                                       /\ attempts[n].verdict # "granted"
      /\ attempts[Len(attempts)].verdict = "asked" /\ attempts[Len(attempts)].open
      /\ Len(attempts) > 1 \/ resolved # <<>> => attempts[1].verdict = "blocked"
  BY <1>1 DEF AttemptsInv
<1>4. PICK v \in {"granted", "blocked", "refused"} :
        /\ Judged(v)
        /\ \/ v = "granted" /\ pc' = "answer" /\ UNCHANGED <<dests, reply>>
           \/ v # "granted" /\ AttemptFailed
           \/ /\ Rescuable(v) /\ UNCHANGED dests
              /\ IF req.port THEN pc' = "lookup" /\ UNCHANGED reply ELSE BadGateway
  BY DEF Exchange
<1>5. /\ attempts' \in Seq(Attempts) /\ Len(attempts') = Len(attempts)
      /\ \A n \in 1 .. Len(attempts) :
           /\ attempts'[n].to = attempts[n].to
           /\ attempts'[n].open = attempts[n].open
           /\ attempts'[n].verdict =
                IF n = Len(attempts) THEN v ELSE attempts[n].verdict
  BY <1>1, <1>4, JudgedAttempts
<1>6. \A n \in 1 .. Len(attempts') : attempts'[n].to = Route(n)
  BY <1>3, <1>5
\* The first attempt is still undecided, so nothing was resolved for it.
<1>7. Len(attempts) = 1 => resolved = <<>>
  BY <1>1, <1>3
<1>8. Len(attempts') > 1 \/ resolved # <<>> => attempts'[1].verdict = "blocked"
  BY <1>1, <1>3, <1>5, <1>7
<1>9. CASE v = "granted" /\ pc' = "answer" /\ UNCHANGED <<dests, reply>>
  <2>1. TypeOK'
    BY <1>1, <1>5, <1>9 DEF TypeOK
  <2>2. DestsInv'
    BY <1>9 DEF DestsInv
  <2>3. AttemptsInv'
    <3>1. Len(attempts') <= 1 + Len(resolved') /\ resolved' = resolved /\ reply' = 0
      BY <1>1, <1>2, <1>5, <1>9
    <3>2. /\ attempts'[Len(attempts')].verdict = "granted"
          /\ attempts'[Len(attempts')].open
          /\ \A n \in 1 .. Len(attempts') :
               attempts'[n].verdict = "granted" => n = Len(attempts')
      BY <1>1, <1>3, <1>5, <1>9
    <3> QED
      BY <1>1, <1>5, <1>6, <1>8, <1>9, <3>1, <3>2 DEF AttemptsInv, Route
  <2>4. ReplyInv'
    BY <1>1, <1>9 DEF ReplyInv
  <2> QED
    BY <2>1, <2>2, <2>3, <2>4
<1>10. CASE v # "granted" /\ AttemptFailed
  <2>1. \A n \in 1 .. Len(attempts') : attempts'[n].verdict # "granted"
    BY <1>3, <1>5, <1>10
  <2> QED
    BY <1>1, <1>5, <1>6, <1>8, <1>10, <2>1, FailedAttempt
<1>11. CASE /\ Rescuable(v) /\ UNCHANGED dests
            /\ IF req.port THEN pc' = "lookup" /\ UNCHANGED reply ELSE BadGateway
  <2>1. v = "blocked" /\ Len(attempts) = 1 /\ resolved = <<>> /\ Len(resolved) = 0
    BY <1>2, <1>7, <1>11 DEF Rescuable
  <2>2. \/ pc' = "lookup" /\ reply' = 0
        \/ pc' = "done" /\ reply' = 502
    BY <1>1, <1>11 DEF BadGateway, Finish
  <2>3. attempts'[1].verdict = "blocked" /\ Len(attempts') = 1
    BY <1>5, <2>1
  <2>4. TypeOK'
    BY <1>1, <1>5, <1>11, <2>2 DEF TypeOK
  <2>5. DestsInv'
    BY <2>2 DEF DestsInv
  <2>6. AttemptsInv'
    <3>1. resolved' = <<>> /\ Len(resolved') = 0
      BY <1>1, <2>1
    <3>2. \A n \in 1 .. Len(attempts') :
             attempts'[n].to = Route(n) /\ attempts'[n].verdict # "granted"
      BY <1>6, <2>3
    <3> QED
      BY <1>1, <2>2, <2>3, <3>1, <3>2 DEF AttemptsInv, Route
  <2>7. ReplyInv'
    BY <1>1, <2>1, <2>2, <2>3 DEF ReplyInv
  <2> QED
    BY <2>4, <2>5, <2>6, <2>7
<1> QED
  BY <1>4, <1>9, <1>10, <1>11

\* The resolver answers: the addresses it gives are what is left to dial.
LEMMA LookupKeepsInv == TunnelInv /\ Lookup => TunnelInv'
<1> SUFFICES ASSUME TunnelInv, Lookup
             PROVE  TunnelInv'
  OBVIOUS
<1> USE DEF TunnelInv
<1>1. /\ pc = "lookup" /\ reply = 0 /\ UNCHANGED <<req, gone, attempts>>
      /\ attempts \in Seq(Attempts) /\ Len(attempts) = 1
      /\ resolved = <<>> /\ Len(resolved) = 0
      /\ attempts[1].verdict = "blocked" /\ attempts[1].to = Route(1)
  BY EmptySeq DEF Lookup, TypeOK, ReplyInv, AttemptsInv
<1>2. CASE BadGateway /\ UNCHANGED <<dests, resolved>>
  <2>1. pc' = "done" /\ reply' = 502
    BY <1>2 DEF BadGateway, Finish
  <2>2. TypeOK'
    BY <1>1, <1>2, <2>1 DEF TypeOK
  <2>3. DestsInv' /\ AttemptsInv' /\ ReplyInv'
    BY <1>1, <1>2, <2>1 DEF DestsInv, AttemptsInv, ReplyInv, Route
  <2> QED
    BY <2>2, <2>3
<1>3. ASSUME NEW list \in Lookups, resolved' = list, dests' = list,
             IF list = <<>> THEN BadGateway ELSE pc' = "dial" /\ UNCHANGED reply
      PROVE  TunnelInv'
  <2>1. /\ list \in Seq(Addresses) /\ Len(list) \in Nat
        /\ list = <<>> <=> Len(list) = 0
    BY TunnelAssumption, EmptySeq, LenProperties
  <2>2. list \in Seq(Addresses \cup {Host})
    BY <2>1
  <2>3. \/ pc' = "done" /\ reply' = 502 /\ Len(list) = 0
        \/ pc' = "dial" /\ reply' = 0 /\ Len(list) > 0
    BY <1>1, <1>3, <2>1 DEF BadGateway, Finish
  <2>4. TypeOK'
    <3>1. pc' = "dial" => dests' # <<>>
      BY <1>3, <2>1, <2>3
    <3> QED
      BY <1>1, <1>3, <2>1, <2>2, <2>3, <3>1 DEF TypeOK
  <2>5. DestsInv'
    BY <1>1, <1>3, <2>1, <2>3 DEF DestsInv, Route
  <2>6. AttemptsInv'
    BY <1>1, <1>3, <2>1, <2>3 DEF AttemptsInv, Route
  <2>7. ReplyInv'
    BY <1>1, <1>3, <2>1, <2>3 DEF ReplyInv
  <2> QED
    BY <2>4, <2>5, <2>6, <2>7
<1> QED
  BY <1>2, <1>3 DEF Lookup

\* The handler answers the client, or finds that it cannot.
LEMMA AnswerKeepsInv == TunnelInv /\ Answer => TunnelInv'
<1> SUFFICES ASSUME TunnelInv, Answer
             PROVE  TunnelInv'
  OBVIOUS
<1> USE DEF TunnelInv
<1>1. /\ pc = "answer" /\ UNCHANGED <<req, gone, attempts, dests, resolved>>
      /\ \/ pc' = "relay" /\ reply' = 200
         \/ pc' = "done" /\ reply' \in {400, 500}
  BY DEF Answer, Relay, Finish
<1>2. TypeOK'
  BY <1>1 DEF TypeOK
<1>3. DestsInv'
  BY <1>1 DEF DestsInv
<1>4. AttemptsInv'
  BY <1>1 DEF AttemptsInv, Route
<1>5. ReplyInv'
  BY <1>1 DEF ReplyInv, AttemptsInv
<1> QED
  BY <1>2, <1>3, <1>4, <1>5

\* The relay ends with the only granted connection closed.
LEMMA RelayEndsKeepsInv == TunnelInv /\ RelayEnds => TunnelInv'
<1> SUFFICES ASSUME TunnelInv, RelayEnds
             PROVE  TunnelInv'
  OBVIOUS
<1> USE DEF TunnelInv
<1>1. /\ pc = "relay" /\ pc' = "done" /\ ClosedAt(Len(attempts))
      /\ UNCHANGED <<req, gone, dests, resolved, reply>>
      /\ attempts \in Seq(Attempts) /\ Len(attempts) \in 1 .. Len(attempts)
  BY LenProperties DEF RelayEnds, CloseUpstream, ClosedAt, TypeOK, AttemptsInv
<1>2. /\ attempts' \in Seq(Attempts) /\ Len(attempts') = Len(attempts)
      /\ \A n \in 1 .. Len(attempts) :
           /\ attempts'[n].to = attempts[n].to
           /\ attempts'[n].verdict = attempts[n].verdict
           /\ attempts'[n].open <=> (n # Len(attempts) /\ attempts[n].open)
  BY <1>1, ClosedAttempts
<1>3. TypeOK'
  BY <1>1, <1>2 DEF TypeOK
<1>4. DestsInv'
  BY <1>1 DEF DestsInv
<1>5. AttemptsInv'
  BY <1>1, <1>2 DEF AttemptsInv, Route, ReplyInv
<1>6. ReplyInv'
  <2>1. /\ attempts[Len(attempts)].verdict = "granted" /\ reply # 502
        /\ \A n \in 1 .. Len(attempts) :
             attempts[n].verdict = "granted" => n = Len(attempts)
    BY <1>1 DEF AttemptsInv
  <2>2. attempts'[Len(attempts')].verdict = "granted" /\ Len(attempts') > 0
    BY <1>1, <1>2, <2>1
  <2>3. \A n \in 1 .. Len(attempts') :
          ~(attempts'[n].verdict = "granted" /\ attempts'[n].open)
    BY <1>2, <2>1
  <2> QED
    BY <1>1, <2>1, <2>2, <2>3 DEF ReplyInv
<1> QED
  BY <1>3, <1>4, <1>5, <1>6

\* A finalizer never closes the connection somebody still works with.
LEMMA CollectKeepsInv == TunnelInv /\ Collect => TunnelInv'
<1> SUFFICES ASSUME TunnelInv, Collect
             PROVE  TunnelInv'
  OBVIOUS
<1> USE DEF TunnelInv
<1>1. PICK k \in 1 .. Len(attempts) : attempts[k].open /\ Forgotten(k) /\ ClosedAt(k)
  <2>1. attempts \in Seq(Attempts) /\ DOMAIN attempts = 1 .. Len(attempts)
    BY LenProperties DEF TypeOK
  <2> QED
    BY <2>1 DEF Collect, ClosedAt
<1>2. attempts \in Seq(Attempts) /\ UNCHANGED <<req, pc, gone, dests, resolved, reply>>
  BY DEF Collect, TypeOK
<1>3. /\ attempts' \in Seq(Attempts) /\ Len(attempts') = Len(attempts)
      /\ \A n \in 1 .. Len(attempts) :
           /\ attempts'[n].to = attempts[n].to
           /\ attempts'[n].verdict = attempts[n].verdict
           /\ attempts'[n].open <=> (n # k /\ attempts[n].open)
  BY <1>1, <1>2, ClosedAttempts
<1>4. TypeOK'
  BY <1>2, <1>3 DEF TypeOK
<1>5. DestsInv'
  BY <1>2, <1>3 DEF DestsInv, Route
<1>6. AttemptsInv'
  <2>1. pc \in {"exchange", "answer", "relay"} => k # Len(attempts)
    BY <1>1 DEF Forgotten, AttemptsInv
  <2>2. pc' \in {"exchange", "answer", "relay"} => attempts'[Len(attempts')].open
    BY <1>1, <1>2, <1>3, <2>1 DEF AttemptsInv
  <2>3. /\ pc' = "serve" => attempts' = <<>> /\ resolved' = <<>> /\ reply' = 0
        /\ pc' \in {"exchange", "answer", "relay"} => Len(attempts') > 0
    BY <1>1, <1>2, <1>3, EmptySeq DEF AttemptsInv
  <2>4. \A n \in 1 .. Len(attempts') : attempts'[n].verdict = "granted" =>
          n = Len(attempts') /\ pc' \in {"answer", "relay", "done"} /\ reply' # 502
    BY <1>2, <1>3 DEF AttemptsInv
  <2>5. /\ Len(attempts') <= 1 + Len(resolved')
        /\ \A n \in 1 .. Len(attempts') : attempts'[n].to = Route(n)'
    BY <1>2, <1>3 DEF AttemptsInv, Route
  <2>6. Len(attempts') > 1 \/ resolved' # <<>> =>
          Len(attempts') > 0 /\ attempts'[1].verdict = "blocked"
    BY <1>2, <1>3 DEF AttemptsInv
  <2>7. /\ pc' = "lookup" => /\ Len(attempts') = 1 /\ resolved' = <<>>
                             /\ attempts'[1].verdict = "blocked"
        /\ pc' = "lookup" => Len(attempts') > 0
        /\ pc' = "exchange" => attempts'[Len(attempts')].verdict = "asked"
        /\ pc' \in {"answer", "relay"} => attempts'[Len(attempts')].verdict = "granted"
    BY <1>1, <1>2, <1>3 DEF AttemptsInv
  <2> QED
    BY <2>2, <2>3, <2>4, <2>5, <2>6, <2>7 DEF AttemptsInv
<1>7. ReplyInv'
  BY <1>1, <1>2, <1>3 DEF ReplyInv
<1> QED
  BY <1>4, <1>5, <1>6, <1>7

\* The invariant holds in every state of every behaviour.
LEMMA TunnelInvHolds == Spec => []TunnelInv
<1>1. Init => TunnelInv
  <2> SUFFICES ASSUME Init
               PROVE  TunnelInv
    OBVIOUS
  <2>1. /\ <<>> \in Seq(Attempts) /\ <<>> \in Seq(Addresses)
        /\ <<>> \in Seq(Addresses \cup {Host}) /\ Len(<<>>) = 0
    OBVIOUS
  <2>2. TypeOK
    BY <2>1 DEF Init, TypeOK
  <2> QED
    BY <2>1, <2>2 DEF Init, TunnelInv, DestsInv, AttemptsInv, ReplyInv
<1>2. TunnelInv /\ [Next]_vars => TunnelInv'
  <2>1. TunnelInv /\ ClientLeaves => TunnelInv'
    BY DEF ClientLeaves, TunnelInv, TypeOK, DestsInv, AttemptsInv, ReplyInv, Route
  <2>2. TunnelInv /\ UNCHANGED vars => TunnelInv'
    BY DEF vars, TunnelInv, TypeOK, DestsInv, AttemptsInv, ReplyInv, Route
  <2> QED
    BY <2>1, <2>2, ServeHTTPKeepsInv, DialKeepsInv, ExchangeKeepsInv,
       LookupKeepsInv, AnswerKeepsInv, RelayEndsKeepsInv, CollectKeepsInv DEF Next
<1> QED
  BY <1>1, <1>2, PTL DEF Spec

-----------------------------------------------------------------------------
(* The theorems.                                                           *)

\* The handler never reaches a state of another shape, for any list of
\* addresses the resolver returns (HandleTunnel, RetryDialer.DialContext).
THEOREM TunnelTypeCorrect == Spec => []TypeOK
<1>1. TunnelInv => TypeOK
  BY DEF TunnelInv
<1> QED
  BY <1>1, TunnelInvHolds, PTL

\* A client is told 200 only for a tunnel that the upstream granted on the
\* last connection dialled, and that connection is open while data is relayed.
THEOREM TunnelGranted == Spec => []TunnelIsGranted
<1>1. TunnelInv => TunnelIsGranted
  BY DEF TunnelInv, AttemptsInv, ReplyInv, TunnelIsGranted
<1> QED
  BY <1>1, TunnelInvHolds, PTL

\* The rescue dials the host, and after a block the resolved addresses in
\* their order, none twice and nothing after a tunnel was granted.
THEOREM RescueKeepsOrder == Spec => []RescueInOrder
<1>1. ASSUME TunnelInv
      PROVE  RescueInOrder
  <2>1. /\ attempts \in Seq(Attempts) /\ DOMAIN attempts = 1 .. Len(attempts)
        /\ resolved \in Seq(Addresses) /\ Len(resolved) \in Nat
        /\ Len(attempts) \in Nat /\ Len(attempts) <= 1 + Len(resolved)
    BY <1>1, LenProperties DEF TunnelInv, TypeOK, AttemptsInv
  <2>2. ASSUME NEW n \in DOMAIN attempts
        PROVE  attempts[n].to = (<<Host>> \o resolved)[n]
    <3>1. attempts[n].to = Route(n)
      BY <1>1, <2>1 DEF TunnelInv, AttemptsInv
    <3>2. (<<Host>> \o resolved)[n] = Route(n)
      <4>1. <<Host>> \in Seq({Host} \cup Addresses) /\ Len(<<Host>>) = 1 /\ <<Host>>[1] = Host
        OBVIOUS
      <4>2. resolved \in Seq({Host} \cup Addresses)
        BY <2>1
      <4>3. n \in 1 .. Len(<<Host>>) + Len(resolved)
        BY <2>1, <4>1
      <4>4. (<<Host>> \o resolved)[n] =
              IF n <= Len(<<Host>>) THEN <<Host>>[n] ELSE resolved[n - Len(<<Host>>)]
        BY <4>1, <4>2, <4>3, ConcatProperties
      <4> QED
        BY <2>1, <4>1, <4>3, <4>4 DEF Route
    <3> QED
      BY <3>1, <3>2
  <2> QED
    BY <1>1, <2>1, <2>2 DEF TunnelInv, AttemptsInv, RescueInOrder
<1> QED
  BY <1>1, TunnelInvHolds, PTL

\* A bad gateway is reported only after the host and, if the upstream blocked
\* it, every address the resolver gave were tried without a tunnel.
THEOREM BadGatewayExhaustive == Spec => []BadGatewayJustified
<1>1. TunnelInv => BadGatewayJustified
  BY DEF TunnelInv, TypeOK, AttemptsInv, ReplyInv, BadGatewayJustified
<1> QED
  BY <1>1, TunnelInvHolds, PTL

\* A client is answered once: no later step of the handler changes what it was
\* told, not even when the relay ends or the client leaves.
THEOREM TunnelAnswersOnce == Spec => [][reply # 0 => reply' = reply]_vars
<1>1. TunnelInv /\ [Next]_vars => [reply # 0 => reply' = reply]_vars
  <2> SUFFICES ASSUME TunnelInv, Next, reply # 0 PROVE reply' = reply
    OBVIOUS
  <2>1. pc \in {"relay", "done"}
    BY DEF TunnelInv, ReplyInv
  <2> QED
    BY <2>1 DEF Next, ServeHTTP, Dial, Exchange, Lookup, Answer, RelayEnds, ClientLeaves, Collect
<1> QED
  BY <1>1, TunnelInvHolds, PTL DEF Spec

-----------------------------------------------------------------------------
(* A rescue while the credentials rotate.                                  *)

\* Every step of the request with its headers is a step of the request alone
\* or leaves it where it is.
LEMMA StepWithHeader == [NextWithHeader]_allVars => [Next]_vars
<1>1. DialWithHeader => Next
  BY DEF DialWithHeader, Next
<1>2. Authorize \/ Rotate => UNCHANGED vars
  BY DEF Authorize, Rotate
<1>3. OtherStep => Next
  BY DEF OtherStep, Next
<1>4. UNCHANGED allVars => UNCHANGED vars
  BY DEF allVars
<1> QED
  BY <1>1, <1>2, <1>3, <1>4 DEF NextWithHeader

\* The rotation of the credentials does not disturb a request: with its
\* headers it is still a request of Tunnel, so that every theorem about that
\* holds during a rotation, too (RetryDialer and ProxyDialer with auth()).
THEOREM RescueImplementsTunnel == SpecWithHeader => Spec
<1>1. InitWithHeader => Init
  BY DEF InitWithHeader
<1> QED
  BY <1>1, StepWithHeader, PTL DEF SpecWithHeader, Spec

GrantedHeaders == {h \in [login : Nat, key : Nat] : Register!Granted(h)}

\* What has been dialled and what has been sent over it: a connection without
\* a header is the one of the current exchange.
HeadersInv ==
  /\ current \in GrantedHeaders
  /\ seen \in [{Handler} -> [login : Nat, key : Nat]]
  /\ headers \in Seq(GrantedHeaders) /\ dialled \in Seq(GrantedHeaders)
  /\ \/ Len(dialled) = Len(headers)
     \/ Len(dialled) = Len(headers) + 1 /\ pc = "exchange"
  /\ \A n \in 1 .. Len(dialled) : dialled[n].login <= current.login
  /\ \A n \in 1 .. Len(headers) :
       dialled[n].login <= headers[n].login /\ headers[n].login <= current.login

LEMMA GrantedHeaderLogin ==
  \A h \in GrantedHeaders : h.login \in Nat /\ h.login > 0 /\ h.key = h.login
BY DEF GrantedHeaders, Register!Granted

\* A connection is made, and asks for the header of the moment, or it is not.
LEMMA DialKeepsHeaders ==
  ASSUME TunnelInv, HeadersInv, DialWithHeader
  PROVE  HeadersInv'
<1>1. /\ pc = "dial" /\ UNCHANGED <<current, seen, headers>>
      /\ attempts \in Seq(Attempts)
      /\ dests \in Seq(Addresses \cup {Host}) /\ dests # <<>>
  BY DEF DialWithHeader, Dial, registerVars, TunnelInv, TypeOK
<1>2. Len(dialled) = Len(headers) /\ dialled \in Seq(GrantedHeaders)
      /\ current \in GrantedHeaders
  BY <1>1 DEF HeadersInv
<1>3. PICK v \in {"asked", "unreachable"} :
        /\ attempts' = Append(attempts,
             [to |-> Head(dests), verdict |-> v, open |-> v = "asked"])
        /\ v = "asked" => pc' = "exchange"
  BY DEF DialWithHeader, Dial
<1> DEFINE a == [to |-> Head(dests), verdict |-> v, open |-> v = "asked"]
<1>4. a \in Attempts /\ (a.open <=> v = "asked")
  <2>1. Head(dests) \in Addresses \cup {Host}
    BY <1>1, TailOfDests
  <2>2. (v = "asked") \in BOOLEAN
    OBVIOUS
  <2> QED
    BY <2>1, <2>2 DEF Attempts
<1>5. attempts'[Len(attempts')] = a
  <2>1. attempts' = Append(attempts, a)
    BY <1>3
  <2> HIDE DEF a
  <2> QED
    BY <1>1, <1>4, <2>1, AppendedAttempts
<1>6. CASE v = "asked"
  <2>1. dialled' = Append(dialled, current) /\ pc' = "exchange"
    BY <1>3, <1>4, <1>5, <1>6 DEF DialWithHeader
  <2>2. /\ dialled' \in Seq(GrantedHeaders) /\ Len(dialled') = Len(dialled) + 1
        /\ dialled'[Len(dialled) + 1] = current
        /\ \A n \in 1 .. Len(dialled) : dialled'[n] = dialled[n]
    BY <1>2, <2>1, AppendProperties
  <2>3. \A n \in 1 .. Len(dialled') : dialled'[n].login <= current.login
    <3>1. current.login <= current.login
      BY <1>2, GrantedHeaderLogin
    <3>2. Len(dialled) \in Nat
      BY <1>2, LenProperties
    <3>3. \A n \in 1 .. Len(dialled) : dialled[n].login <= current.login
      BY DEF HeadersInv
    <3>4. \A n \in 1 .. Len(dialled') : n \in 1 .. Len(dialled) \/ n = Len(dialled) + 1
      BY <2>2, <3>2
    <3> QED
      BY <2>2, <3>1, <3>3, <3>4
  <2>4. \A n \in 1 .. Len(headers) : n \in 1 .. Len(dialled)
    BY <1>2
  <2> QED
    BY <1>1, <1>2, <2>1, <2>2, <2>3, <2>4 DEF HeadersInv
<1>7. CASE v = "unreachable"
  <2>1. dialled' = dialled
    BY <1>4, <1>5, <1>7 DEF DialWithHeader
  <2> QED
    BY <1>1, <1>2, <2>1 DEF HeadersInv
<1> QED
  BY <1>6, <1>7

\* auth() reads the register, which is no older than at the dial.
LEMMA AuthorizeKeepsHeaders == HeadersInv /\ Authorize => HeadersInv'
<1> SUFFICES ASSUME HeadersInv, Authorize PROVE HeadersInv'
  OBVIOUS
<1>1. /\ pc' = pc /\ UNCHANGED <<current, dialled>>
      /\ seen' = [seen EXCEPT ![Handler] = current]
      /\ headers' = Append(headers, current)
      /\ Len(dialled) = Len(headers) + 1
  BY DEF Authorize, HeaderNow, Authorized, Register!Read, HeadersInv, vars
<1>2. /\ headers' \in Seq(GrantedHeaders) /\ Len(headers') = Len(headers) + 1
      /\ headers'[Len(headers) + 1] = current
      /\ \A n \in 1 .. Len(headers) : headers'[n] = headers[n]
  BY <1>1, AppendProperties DEF HeadersInv
<1>3. seen' \in [{Handler} -> [login : Nat, key : Nat]]
  BY <1>1 DEF HeadersInv, GrantedHeaders
<1>4. ASSUME NEW n \in 1 .. Len(headers')
      PROVE  dialled[n].login <= headers'[n].login /\ headers'[n].login <= current.login
  <2>1. n \in 1 .. Len(dialled) /\ (n \in 1 .. Len(headers) \/ n = Len(headers) + 1)
    BY <1>1, <1>2
  <2>2. current.login \in Nat
    BY GrantedHeaderLogin DEF HeadersInv
  <2> QED
    BY <1>1, <1>2, <2>1, <2>2 DEF HeadersInv
<1> QED
  BY <1>1, <1>2, <1>3, <1>4 DEF HeadersInv

\* A rotation leaves what was sent behind.
LEMMA RotateKeepsHeaders == HeadersInv /\ Rotate => HeadersInv'
<1> SUFFICES ASSUME HeadersInv, Rotate PROVE HeadersInv'
  OBVIOUS
<1>1. /\ UNCHANGED <<pc, seen, headers, dialled>>
      /\ current' = [login |-> current.login + 1, key |-> current.login + 1]
  BY DEF Rotate, Register!Publish, vars
<1>2. current.login \in Nat /\ current'.login = current.login + 1
  BY <1>1, GrantedHeaderLogin DEF HeadersInv
<1>3. current' \in GrantedHeaders
  BY <1>1, <1>2 DEF GrantedHeaders, Register!Granted
<1>4. ASSUME NEW n \in 1 .. Len(dialled) PROVE dialled[n].login <= current'.login
  <2>1. dialled[n].login <= current.login /\ dialled[n].login \in Nat
    BY GrantedHeaderLogin DEF HeadersInv
  <2> QED
    BY <1>2, <2>1
<1>5. ASSUME NEW n \in 1 .. Len(headers)
      PROVE  dialled[n].login <= headers[n].login /\ headers[n].login <= current'.login
  <2>1. headers[n].login <= current.login /\ headers[n].login \in Nat
    BY GrantedHeaderLogin DEF HeadersInv
  <2> QED
    BY <1>2, <2>1 DEF HeadersInv
<1> QED
  BY <1>1, <1>3, <1>4, <1>5 DEF HeadersInv

LEMMA HeadersInvHolds == SpecWithHeader => []HeadersInv
<1>1. InitWithHeader => HeadersInv
  <2> SUFFICES ASSUME InitWithHeader PROVE HeadersInv
    OBVIOUS
  <2>1. current \in GrantedHeaders
    BY DEF InitWithHeader, GrantedHeaders, Register!Granted
  <2>2. seen \in [{Handler} -> [login : Nat, key : Nat]]
    BY DEF InitWithHeader, Register!NoHeader
  <2>3. headers = <<>> /\ dialled = <<>>
    BY DEF InitWithHeader
  <2> QED
    BY <2>1, <2>2, <2>3 DEF HeadersInv
<1>2. TunnelInv /\ HeadersInv /\ [NextWithHeader]_allVars => HeadersInv'
  <2>1. HeadersInv /\ OtherStep => HeadersInv'
    <3> SUFFICES ASSUME HeadersInv, OtherStep PROVE HeadersInv'
      OBVIOUS
    <3>1. UNCHANGED <<current, seen, headers, dialled>>
      BY DEF OtherStep, registerVars
    <3>2. Len(dialled) # Len(headers) => pc' = pc
      BY DEF OtherStep, HeadersInv, Authorized, ServeHTTP, Lookup, Answer, RelayEnds,
             ClientLeaves, Collect
    <3> QED
      BY <3>1, <3>2 DEF HeadersInv
  <2>2. HeadersInv /\ UNCHANGED allVars => HeadersInv'
    BY DEF allVars, vars, registerVars, HeadersInv
  <2> QED
    BY <2>1, <2>2, DialKeepsHeaders, AuthorizeKeepsHeaders, RotateKeepsHeaders
       DEF NextWithHeader
<1>3. SpecWithHeader => []TunnelInv
  BY RescueImplementsTunnel, TunnelInvHolds, PTL
<1> QED
  BY <1>1, <1>2, <1>3, PTL DEF SpecWithHeader

\* Every attempt of a rescue asks with a complete grant that is at least as
\* new as the header at the moment its connection was made, however often the
\* credentials rotate (the call of auth() in ProxyDialer.DialContext).
THEOREM RescueAuthorized == SpecWithHeader => []AttemptsAuthorized
<1>1. ASSUME HeadersInv PROVE AttemptsAuthorized
  <2>1. headers \in Seq(GrantedHeaders) /\ DOMAIN headers = 1 .. Len(headers)
    BY <1>1 DEF HeadersInv
  <2>2. \A n \in 1 .. Len(headers) : Register!Granted(headers[n])
    BY <2>1 DEF GrantedHeaders
  <2> QED
    BY <1>1, <2>1, <2>2 DEF HeadersInv, AttemptsAuthorized
<1> QED
  BY <1>1, HeadersInvHolds, PTL

\* The request and the rotation use the header as the register of
\* CredRegister, once that has been filled: by publishing what is newer and by
\* reading what is current.
THEOREM RescueUsesRegister == SpecWithHeader => [][Register!Next]_Register!vars
<1>1. HeadersInv /\ [NextWithHeader]_allVars => [Register!Next]_Register!vars
  <2> SUFFICES ASSUME HeadersInv, [NextWithHeader]_allVars
               PROVE  [Register!Next]_Register!vars
    OBVIOUS
  <2>1. CASE DialWithHeader \/ OtherStep \/ UNCHANGED allVars
    BY <2>1 DEF DialWithHeader, OtherStep, allVars, registerVars, Register!vars
  <2>2. CASE Authorize
    BY <2>2 DEF Authorize, Register!Next
  <2>3. CASE Rotate
    BY <2>3 DEF Rotate, Register!Next
  <2> QED
    BY <2>1, <2>2, <2>3 DEF NextWithHeader
<1> QED
  BY <1>1, HeadersInvHolds, PTL DEF SpecWithHeader

-----------------------------------------------------------------------------
(* readResponse, with which an exchange reads the upstream's answer.       *)

\* Every variable of the loop of readResponse keeps its type.
THEOREM ReadTypeCorrect == ReadSpec => []ReadTypeOK
<1> USE ResponseAssumption
<1>1. ReadInit => ReadTypeOK
  <2>1. <<>> \in Seq(Bytes)
    OBVIOUS
  <2> QED
    BY <2>1 DEF ReadInit, ReadTypeOK, Bytes
<1>2. ReadTypeOK /\ [ReadNext]_readVars => ReadTypeOK'
  <2> SUFFICES ASSUME ReadTypeOK, [ReadNext]_readVars PROVE ReadTypeOK'
    OBVIOUS
  <2> USE DEF ReadTypeOK, Round, Appended, Outcome
  <2>1. ASSUME NEW byte \in Bytes, NEW failed \in BOOLEAN,
               ReadByte(byte, failed)
        PROVE  ReadTypeOK'
    BY <2>1 DEF ReadByte
  <2>2. CASE ReadNothing
    BY <2>2 DEF ReadNothing
  <2>3. CASE UNCHANGED readVars
    BY <2>3 DEF readVars
  <2> QED
    BY <2>1, <2>2, <2>3 DEF ReadNext
<1> QED
  BY <1>1, <1>2, PTL DEF ReadSpec

\* Where an empty line ends does not depend on what follows.
LEMMA EndsBefore ==
  ASSUME NEW S, NEW s \in Seq(S), NEW x, NEW k \in 1 .. Len(s)
  PROVE  EndsAt(Append(s, x), k) <=> EndsAt(s, k)
<1>1. \A n \in 1 .. Len(s) : Append(s, x)[n] = s[n]
  OBVIOUS
<1> QED
  BY <1>1 DEF EndsAt

\* The byte in the buffer is the last one appended; nothing was appended twice
\* before a read failed, and a failed loop that goes on has too few bytes.
HeadInv ==
  /\ buf # <<>> => b = buf[Len(buf)]
  /\ ~err => buf = consumed
  /\ result = "reading" /\ err => Len(buf) < 4
  /\ HeadIsExact

LEMMA HeadInvByte ==
  ASSUME ReadTypeOK, HeadInv, NEW byte \in Bytes, NEW failed \in BOOLEAN,
         ReadByte(byte, failed)
  PROVE  HeadInv'
<1>1. /\ buf = consumed /\ buf \in Seq(Bytes)
      /\ result = "reading"
      /\ buf' = Append(buf, byte) /\ consumed' = buf'
      /\ b' = byte /\ err' = failed
      /\ result' = Outcome(buf', failed)
  BY DEF ReadByte, Round, Appended, HeadInv, ReadTypeOK
<1>2. Len(buf') = Len(buf) + 1 /\ buf'[Len(buf')] = byte
  BY <1>1
<1>3. ASSUME NEW k \in 1 .. Len(buf) PROVE ~EndsAt(buf', k)
  <2>1. ~EndsAt(buf, k)
    BY <1>1 DEF HeadInv, HeadIsExact
  <2> QED
    BY <1>1, <2>1, EndsBefore
<1>4. Len(buf') < 4 => ~EndsAt(buf', Len(buf'))
  BY <1>1, <1>2 DEF EndsAt
<1>5. /\ result' = "head" => EndsAt(buf', Len(buf'))
      /\ result' # "head" => ~EndsAt(buf', Len(buf'))
      /\ result' = "reading" /\ failed => Len(buf') < 4
  BY <1>1, <1>4 DEF Outcome
<1> QED
  BY <1>1, <1>2, <1>3, <1>5 DEF HeadInv, HeadIsExact

LEMMA HeadInvNothing ==
  ASSUME ReadTypeOK, HeadInv, ReadNothing
  PROVE  HeadInv'
<1>1. /\ buf \in Seq(Bytes) /\ b \in Bytes
      /\ result = "reading"
      /\ buf' = Append(buf, b) /\ consumed' = consumed
      /\ b' = b /\ err' = TRUE
      /\ result' = Outcome(buf', TRUE)
  BY DEF ReadNothing, Round, Appended, ReadTypeOK
<1>2. /\ Len(buf') = Len(buf) + 1 /\ buf'[Len(buf')] = b
      /\ \A n \in 1 .. Len(buf) : buf'[n] = buf[n]
  BY <1>1
<1>3. ~EndsAt(buf', Len(buf'))
  <2> SUFFICES ASSUME Len(buf') >= 4, buf'[Len(buf')] = LF, buf'[Len(buf') - 1] = CR
               PROVE  FALSE
    BY DEF EndsAt
  <2>1. buf'[Len(buf')] = buf'[Len(buf') - 1]
    BY <1>1, <1>2 DEF HeadInv
  <2> QED
    BY <2>1, ResponseAssumption
<1>4. /\ result' # "head"
      /\ result' = "reading" => Len(buf') < 4
  BY <1>1, <1>3 DEF Outcome
<1> QED
  BY <1>1, <1>2, <1>4 DEF HeadInv, HeadIsExact

\* The head that is parsed is exactly what was read up to the first empty line,
\* and nothing behind it was taken from the connection.
THEOREM ReadHeadExact == ReadSpec => []HeadIsExact
<1>1. ReadInit => HeadInv
  BY DEF ReadInit, HeadInv, HeadIsExact, EndsAt
<1>2. ReadTypeOK /\ HeadInv /\ [ReadNext]_readVars => HeadInv'
  <2>1. HeadInv /\ UNCHANGED readVars => HeadInv'
    BY DEF readVars, HeadInv, HeadIsExact, EndsAt
  <2> QED
    BY <2>1, HeadInvByte, HeadInvNothing DEF ReadNext
<1> QED
  BY <1>1, <1>2, ReadTypeCorrect, PTL DEF ReadSpec, HeadInv
=============================================================================

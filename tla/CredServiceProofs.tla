------------------------- MODULE CredServiceProofs --------------------------
(***************************************************************************)
(* Proofs about CredService, for any handlers, agents and configurations,  *)
(* any number of retries, and any bounds.                                  *)
(***************************************************************************)
EXTENDS CredService, SequenceTheorems, TLAPS

-----------------------------------------------------------------------------
(* Type correctness.                                                       *)

\* The variables of the credentials service keep their types through every
\* step of main, the rotating goroutine and the handlers.
THEOREM TypeCorrect == Spec => []TypeOK
<1> USE ConstantsAssumption
<1>1. ASSUME Init PROVE TypeOK
  <2>1. <<>> \in Seq(Agents) /\ <<>> \in Seq(Routes)
    OBVIOUS
  <2>2. cachedFBC \in [agents : Seq(Agents), life : Lives]
    BY <1>1, <2>1 DEF Init, NoConfig, Lives
  <2>3. NoHeader \in Headers
    BY DEF NoHeader, Headers
  <2> QED
    BY <1>1, <2>1, <2>2, <2>3 DEF Init, TypeOK, Routes
<1>2. TypeOK /\ [Next]_vars => TypeOK'
  <2> SUFFICES ASSUME TypeOK, [Next]_vars PROVE TypeOK'
    OBVIOUS
  <2> USE DEF TypeOK, Headers, Routes, NoHeader
  <2>1. CASE BackgroundInit
    BY <2>1 DEF BackgroundInit, NewUserID, AttemptFailed,
         bootVars, tickVars, authVars, handVars
  <2>2. CASE ZGetTunnels
    BY <2>2 DEF ZGetTunnels, AttemptFailed, bootVars, tickVars, authVars, handVars
  <2>3. CASE CheckFallbackConfig
    BY <2>3 DEF CheckFallbackConfig, bootVars, txnVars, tickVars, authVars, handVars
  <2>19. CASE FetchFallbackConfig
    <3>1. cachedFBC' \in [agents : Seq(Agents), life : Lives]
      <4>1. CASE UNCHANGED cachedFBC
        BY <4>1
      <4>2. ASSUME NEW list \in ConfigLists,
                   cachedFBC' = [agents |-> list, life |-> "live"]
            PROVE  cachedFBC' \in [agents : Seq(Agents), life : Lives]
        <5>1. list \in Seq(Agents)
          OBVIOUS
        <5> HIDE ConstantsAssumption
        <5> QED
          BY <4>2, <5>1 DEF Lives
      <4> QED
        BY <2>19, <4>1, <4>2 DEF FetchFallbackConfig
    <3> QED
      BY <2>19, <3>1
         DEF FetchFallbackConfig, bootVars, txnVars, tickVars, authVars, handVars
  <2>20. CASE CloneFallbackConfig
    BY <2>20 DEF CloneFallbackConfig, TakeAgents, bootVars, tickVars, authVars, handVars
  <2>21. Aged \in [agents : Seq(Agents), life : Lives]
    BY DEF Aged, Lives
  <2>4. CASE NextAgent
    <3>1. agents' \in Seq(Agents)
      <4>1. CASE agents = <<>>
        BY <2>4, <4>1 DEF NextAgent
      <4>2. CASE agents # <<>>
        <5>1. agents' = Tail(agents)
          BY <2>4, <4>2 DEF NextAgent
        <5>2. Tail(agents) \in Seq(Agents)
          BY <4>2, HeadTailProperties
        <5> QED
          BY <5>1, <5>2
      <4> QED
        BY <4>1, <4>2
    <3>2. route' \in Routes
      BY <2>4 DEF NextAgent
    <3> QED
      BY <2>4, <3>1, <3>2 DEF NextAgent, bootVars, tickVars, authVars, handVars
  <2>5. CASE TryCredService
    BY <2>5, <2>21 DEF TryCredService, BeginTransaction, tickVars, authVars, handVars
  <2>6. CASE BootFailed
    BY <2>6 DEF BootFailed, txnVars, tickVars, authVars, handVars
  <2>7. CASE BootCommit
    BY <2>7 DEF BootCommit, txnVars, tickVars, handVars
  <2>8. CASE BeginRotation
    <3>1. agents' \in Seq(Agents) /\ tried' \in Seq(Routes)
      BY <2>8 DEF BeginRotation, BeginTransaction
    <3> QED
      BY <2>8, <2>21, <3>1 DEF BeginRotation, BeginTransaction, bootVars, authVars, handVars
  <2>9. CASE RotationFailed
    BY <2>9 DEF RotationFailed, AfterFailedRotation,
         bootVars, txnVars, tickVars, authVars, handVars
  <2>10. CASE RotationLock
    BY <2>10 DEF RotationLock, Lock, bootVars, txnVars, tickVars, handVars
  <2>11. CASE RotationStore
    BY <2>11 DEF RotationStore, bootVars, txnVars, tickVars, handVars
  <2>12. CASE RotationUnlock
    BY <2>12 DEF RotationUnlock, Unlock, bootVars, txnVars, tickVars, handVars
  <2>13. CASE ConfigExpires
    BY <2>13 DEF ConfigExpires, Lives, bootVars, txnVars, tickVars, authVars, handVars
  <2>14. CASE Tick
    BY <2>14 DEF Tick, bootVars, txnVars, authVars, handVars
  <2>15. ASSUME NEW h \in Handlers, AuthCall(h) PROVE TypeOK'
    BY <2>15 DEF AuthCall, bootVars, txnVars, tickVars, authVars
  <2>16. ASSUME NEW h \in Handlers, AuthLock(h) PROVE TypeOK'
    BY <2>16 DEF AuthLock, Lock, bootVars, txnVars, tickVars
  <2>17. ASSUME NEW h \in Handlers, AuthReturn(h) PROVE TypeOK'
    BY <2>17 DEF AuthReturn, Unlock, bootVars, txnVars, tickVars
  <2>18. CASE UNCHANGED vars
    BY <2>18 DEF vars, bootVars, txnVars, tickVars, authVars, handVars
  <2> QED
    BY <2>1, <2>2, <2>3, <2>4, <2>5, <2>6, <2>7, <2>8, <2>9, <2>10, <2>11,
       <2>12, <2>13, <2>14, <2>15, <2>16, <2>17, <2>18, <2>19, <2>20
       DEF Next, Transaction, GetFallbackProxies, Boot, Rotation
<1> QED
  BY <1>1, <1>2, PTL DEF Spec

-----------------------------------------------------------------------------
(* The mutex.                                                              *)

\* The mutex excludes: it is inductive as it stands, relative to the types.
THEOREM MutualExclusion == Spec => []HeaderNeverTorn
<1> USE ConstantsAssumption
<1>1. Init => HeaderNeverTorn
  BY DEF Init, HeaderNeverTorn
<1>2. TypeOK /\ HeaderNeverTorn /\ [Next]_vars => HeaderNeverTorn'
  <2> SUFFICES ASSUME TypeOK, HeaderNeverTorn, [Next]_vars PROVE HeaderNeverTorn'
    OBVIOUS
  <2>1. mux \subseteq Handlers \cup {Rotator} /\ hpc \in [Handlers -> {"idle", "calling", "locked"}]
    BY DEF TypeOK
  <2> USE <2>1 DEF HeaderNeverTorn
  <2>2. ASSUME UNCHANGED <<mux, hpc>>,
               pc' \in {"store", "unlock"} <=> pc \in {"store", "unlock"}
        PROVE  HeaderNeverTorn'
    BY <2>2
  <2>3. CASE Transaction
    BY <2>2, <2>3 DEF Transaction, BackgroundInit, ZGetTunnels, GetFallbackProxies,
         CheckFallbackConfig, FetchFallbackConfig, CloneFallbackConfig,
         NextAgent, AttemptFailed, authVars, handVars
  <2>4. CASE Boot
    BY <2>2, <2>4 DEF Boot, TryCredService, BootFailed, BootCommit,
         BeginTransaction, authVars, handVars
  <2>5. CASE BeginRotation \/ RotationFailed
    BY <2>2, <2>5 DEF BeginRotation, RotationFailed, AfterFailedRotation,
         BeginTransaction, authVars, handVars
  <2>6. CASE RotationLock
    BY <2>6 DEF RotationLock, Lock, handVars
  <2>7. CASE RotationStore
    BY <2>2, <2>7 DEF RotationStore, handVars
  <2>8. CASE RotationUnlock
    BY <2>8 DEF RotationUnlock, Unlock, handVars
  <2>9. CASE ConfigExpires \/ Tick \/ UNCHANGED vars
    BY <2>2, <2>9 DEF ConfigExpires, Tick, vars, authVars, handVars
  <2>10. ASSUME NEW h \in Handlers, AuthCall(h) PROVE HeaderNeverTorn'
    BY <2>10 DEF AuthCall, authVars
  <2>11. ASSUME NEW h \in Handlers, AuthLock(h) PROVE HeaderNeverTorn'
    BY <2>11 DEF AuthLock, Lock
  <2>12. ASSUME NEW h \in Handlers, AuthReturn(h) PROVE HeaderNeverTorn'
    BY <2>12 DEF AuthReturn, Unlock
  <2> QED
    BY <2>3, <2>4, <2>5, <2>6, <2>7, <2>8, <2>9, <2>10, <2>11, <2>12
       DEF Next, Rotation
<1> QED
  BY <1>1, <1>2, TypeCorrect, PTL DEF Spec

-----------------------------------------------------------------------------
(* Headers are grants.                                                     *)

\* HeadersAreGrants is not inductive: it says nothing of the variables the
\* closure of a transaction assigns.  Of these the grant is complete exactly
\* on the way to a commit, and always newer than the current header.
GrantInv ==
  /\ auth_header.login <= user_uuid
  /\ pc = "zget" => session = user_uuid /\ auth_header.login < user_uuid
  /\ pc \in {"commit", "store"} =>
       /\ result = [login |-> user_uuid, key |-> user_uuid]
       /\ auth_header.login < user_uuid
  /\ \A h \in Handlers : hpc[h] # "idle" => phase = "serving"
  /\ HeadersAreGrants

\* What a step leaves alone when it neither touches the header nor comes
\* nearer to a commit.
LEMMA GrantInvKept ==
  ASSUME GrantInv,
         UNCHANGED <<auth_header, user_uuid, hpc, seen>>,
         phase' = phase \/ (phase = "boot" /\ phase' # "serving"),
         pc' # "zget" \/ UNCHANGED <<pc, session>>,
         pc' \in {"commit", "store"} => pc \in {"commit", "store"} /\ UNCHANGED result
  PROVE  GrantInv'
BY DEF GrantInv, HeadersAreGrants, Register!Granted, NoHeader

\* GrantInv holds initially and every step preserves it.
LEMMA GrantInvHolds == Spec => []GrantInv
<1> USE ConstantsAssumption
<1>1. Init => GrantInv
  BY DEF Init, GrantInv, HeadersAreGrants, NoHeader
<1>2. TypeOK /\ GrantInv /\ [Next]_vars => GrantInv'
  <2> SUFFICES ASSUME TypeOK, GrantInv, [Next]_vars PROVE GrantInv'
    OBVIOUS
  <2>0. /\ user_uuid \in Nat /\ auth_header \in Headers /\ session \in Nat
        /\ hpc \in [Handlers -> {"idle", "calling", "locked"}]
        /\ seen \in [Handlers -> Headers]
    BY DEF TypeOK
  <2>1. CASE BackgroundInit
    <3>1. user_uuid' = user_uuid + 1 /\ UNCHANGED <<auth_header, hpc, seen, phase>>
      BY <2>1 DEF BackgroundInit, NewUserID, bootVars, authVars, handVars
    <3>2. \/ pc' = "zget" /\ session' = user_uuid'
          \/ pc' \in {"fallback", "agents"}
      BY <2>1 DEF BackgroundInit, AttemptFailed
    <3> QED
      BY <2>0, <3>1, <3>2 DEF GrantInv, HeadersAreGrants, Headers, Register!Granted, NoHeader
  <2>2. CASE ZGetTunnels
    <3>1. UNCHANGED <<user_uuid, auth_header, hpc, seen, phase>>
      BY <2>2 DEF ZGetTunnels, bootVars, authVars, handVars
    <3>2. \/ pc' = "commit" /\ result' = [login |-> user_uuid, key |-> session]
          \/ pc' \in {"fallback", "agents"}
      BY <2>2 DEF ZGetTunnels, AttemptFailed
    <3>3. session = user_uuid /\ auth_header.login < user_uuid
      BY <2>2 DEF ZGetTunnels, GrantInv
    <3> QED
      BY <2>0, <3>1, <3>2, <3>3 DEF GrantInv, HeadersAreGrants, Register!Granted, NoHeader
  <2>3. CASE GetFallbackProxies \/ NextAgent
    <3>1. UNCHANGED <<auth_header, user_uuid, hpc, seen, session>>
      BY <2>3 DEF GetFallbackProxies, CheckFallbackConfig, FetchFallbackConfig,
         CloneFallbackConfig, NextAgent, bootVars, txnVars, authVars, handVars
    <3>2. phase' = phase \/ (phase = "boot" /\ phase' # "serving")
      BY <2>3 DEF GetFallbackProxies, CheckFallbackConfig, FetchFallbackConfig,
         CloneFallbackConfig, NextAgent, bootVars, txnVars, authVars, handVars
    <3>3. pc' \notin {"zget", "commit", "store"} \/ UNCHANGED <<pc, result>>
      BY <2>3 DEF GetFallbackProxies, CheckFallbackConfig, FetchFallbackConfig,
         CloneFallbackConfig, NextAgent, bootVars, txnVars, authVars, handVars
    <3> QED
      BY <3>1, <3>2, <3>3, GrantInvKept
  <2>4. CASE TryCredService \/ BootFailed
    <3>1. UNCHANGED <<auth_header, user_uuid, hpc, seen, session>>
      BY <2>4 DEF TryCredService, BootFailed, BeginTransaction,
         txnVars, authVars, handVars
    <3>2. phase' = phase \/ (phase = "boot" /\ phase' # "serving")
      BY <2>4 DEF TryCredService, BootFailed, BeginTransaction,
         txnVars, authVars, handVars
    <3>3. pc' \notin {"zget", "commit", "store"} \/ UNCHANGED <<pc, result>>
      BY <2>4 DEF TryCredService, BootFailed, BeginTransaction,
         txnVars, authVars, handVars
    <3> QED
      BY <3>1, <3>2, <3>3, GrantInvKept
  <2>5. ASSUME BootCommit \/ RotationStore PROVE GrantInv'
    <3>1. auth_header' = [login |-> user_uuid, key |-> user_uuid] /\ auth_header.login < user_uuid
      BY <2>5 DEF BootCommit, RotationStore, GrantInv
    <3>2. UNCHANGED <<user_uuid, hpc, seen>> /\ pc' \in {"wait", "off", "unlock"}
      BY <2>5 DEF BootCommit, RotationStore, txnVars, handVars
    <3>3. phase' = phase \/ phase' = "serving"
      BY <2>5 DEF BootCommit, RotationStore, bootVars
    <3> QED
      BY <2>0, <3>1, <3>2, <3>3 DEF GrantInv, HeadersAreGrants, Headers, Register!Granted, NoHeader
  <2>6. CASE BeginRotation \/ RotationFailed
    <3>1. UNCHANGED <<auth_header, user_uuid, hpc, seen, session>>
      BY <2>6 DEF BeginRotation, RotationFailed, AfterFailedRotation,
         BeginTransaction, bootVars, txnVars, authVars, handVars
    <3>2. phase' = phase \/ (phase = "boot" /\ phase' # "serving")
      BY <2>6 DEF BeginRotation, RotationFailed, AfterFailedRotation,
         BeginTransaction, bootVars, txnVars, authVars, handVars
    <3>3. pc' \notin {"zget", "commit", "store"} \/ UNCHANGED <<pc, result>>
      BY <2>6 DEF BeginRotation, RotationFailed, AfterFailedRotation,
         BeginTransaction, bootVars, txnVars, authVars, handVars
    <3> QED
      BY <3>1, <3>2, <3>3, GrantInvKept
  <2>7. CASE RotationLock \/ RotationUnlock
    <3>1. UNCHANGED <<auth_header, user_uuid, hpc, seen, session>>
      BY <2>7 DEF RotationLock, RotationUnlock,
         bootVars, txnVars, authVars, handVars
    <3>2. phase' = phase \/ (phase = "boot" /\ phase' # "serving")
      BY <2>7 DEF RotationLock, RotationUnlock,
         bootVars, txnVars, authVars, handVars
    <3>3. UNCHANGED result /\ ((pc = "commit" /\ pc' = "store") \/ pc' = "wait")
      BY <2>7 DEF RotationLock, RotationUnlock, txnVars
    <3> QED
      BY <3>1, <3>2, <3>3, GrantInvKept
  <2>8. CASE ConfigExpires \/ Tick \/ UNCHANGED vars
    <3>1. UNCHANGED <<auth_header, user_uuid, hpc, seen, session>>
      BY <2>8 DEF ConfigExpires, Tick, vars,
         bootVars, txnVars, authVars, handVars
    <3>2. phase' = phase \/ (phase = "boot" /\ phase' # "serving")
      BY <2>8 DEF ConfigExpires, Tick, vars,
         bootVars, txnVars, authVars, handVars
    <3>3. pc' \notin {"zget", "commit", "store"} \/ UNCHANGED <<pc, result>>
      BY <2>8 DEF ConfigExpires, Tick, vars,
         bootVars, txnVars, authVars, handVars
    <3> QED
      BY <3>1, <3>2, <3>3, GrantInvKept
  <2>9. ASSUME NEW h \in Handlers, AuthCall(h) \/ AuthLock(h) PROVE GrantInv'
    <3>1. UNCHANGED <<phase, pc, user_uuid, session, result, auth_header, seen>>
      BY <2>9 DEF AuthCall, AuthLock, bootVars, txnVars, authVars
    <3>2. \A g \in Handlers : hpc'[g] # "idle" => phase = "serving"
      BY <2>0, <2>9 DEF AuthCall, AuthLock, GrantInv
    <3> QED
      BY <3>1, <3>2 DEF GrantInv, HeadersAreGrants, Register!Granted, NoHeader
  <2>10. ASSUME NEW h \in Handlers, AuthReturn(h) PROVE GrantInv'
    <3>1. UNCHANGED <<phase, pc, user_uuid, session, result, auth_header>>
      BY <2>10 DEF AuthReturn, bootVars, txnVars
    <3>2. seen' = [seen EXCEPT ![h] = auth_header] /\ hpc' = [hpc EXCEPT ![h] = "idle"]
      BY <2>10 DEF AuthReturn
    <3>3. Register!Granted(auth_header)
      BY <2>10 DEF AuthReturn, GrantInv, HeadersAreGrants
    <3> QED
      BY <2>0, <3>1, <3>2, <3>3 DEF GrantInv, HeadersAreGrants, Headers, Register!Granted, NoHeader
  <2> QED
    BY <2>1, <2>2, <2>3, <2>4, <2>5, <2>6, <2>7, <2>8, <2>9, <2>10
       DEF Next, Transaction, Boot, Rotation
<1> QED
  BY <1>1, <1>2, TypeCorrect, PTL DEF Spec

\* Whatever attempts fail in between, the header of a serving proxy and those
\* its handlers hold are complete grants: login and key of one user ID.
THEOREM HeadersGranted == Spec => []HeadersAreGrants
BY GrantInvHolds, PTL DEF GrantInv

-----------------------------------------------------------------------------
(* Refinement.                                                             *)

\* Every step of the service publishes a newer grant, is a read of the
\* current header by one handler, or leaves the register alone.
THEOREM RegisterImplemented == Spec => ImplementsRegister
<1> USE ConstantsAssumption
<1>1. Init => Register!Init
  BY DEF Init, Register!Init, NoHeader, Register!NoHeader
<1>2. TypeOK /\ GrantInv /\ [Next]_vars => [Register!Next]_(Register!vars)
  <2> SUFFICES ASSUME TypeOK, GrantInv, [Next]_vars
               PROVE  Register!Next \/ UNCHANGED <<auth_header, seen>>
    BY DEF Register!vars
  <2>0. user_uuid \in Nat /\ auth_header \in Headers
    BY DEF TypeOK
  <2>1. CASE Transaction
    BY <2>1 DEF Transaction, BackgroundInit, ZGetTunnels, GetFallbackProxies,
         CheckFallbackConfig, FetchFallbackConfig, CloneFallbackConfig,
         NextAgent, authVars, handVars
  <2>2. CASE TryCredService \/ BootFailed
    BY <2>2 DEF TryCredService, BootFailed, authVars, handVars
  <2>3. ASSUME BootCommit \/ RotationStore PROVE Register!Publish
    <3>1. /\ auth_header' = [login |-> user_uuid, key |-> user_uuid]
          /\ auth_header.login < user_uuid
      BY <2>3 DEF BootCommit, RotationStore, GrantInv
    <3>2. UNCHANGED seen
      BY <2>3 DEF BootCommit, RotationStore, handVars
    <3>3. user_uuid > 0
      BY <2>0, <3>1 DEF Headers
    <3> QED
      BY <2>0, <3>1, <3>2, <3>3 DEF Register!Publish, Register!Granted, Headers
  <2>4. CASE BeginRotation \/ RotationFailed \/ RotationLock \/ RotationUnlock
    BY <2>4 DEF BeginRotation, RotationFailed, AfterFailedRotation, RotationLock,
         RotationUnlock, authVars, handVars
  <2>5. CASE ConfigExpires \/ Tick \/ UNCHANGED vars
    BY <2>5 DEF ConfigExpires, Tick, vars, authVars, handVars
  <2>6. ASSUME NEW h \in Handlers, AuthCall(h) \/ AuthLock(h)
        PROVE  UNCHANGED <<auth_header, seen>>
    BY <2>6 DEF AuthCall, AuthLock, authVars
  <2>7. ASSUME NEW h \in Handlers, AuthReturn(h) PROVE Register!Read(h)
    <3>1. Register!Granted(auth_header)
      BY <2>7 DEF AuthReturn, GrantInv, HeadersAreGrants
    <3>2. auth_header # Register!NoHeader
      BY <3>1 DEF Register!Granted, Register!NoHeader
    <3> QED
      BY <2>7, <3>2 DEF AuthReturn, Register!Read
  <2> QED
    BY <2>1, <2>2, <2>3, <2>4, <2>5, <2>6, <2>7
       DEF Next, Boot, Rotation, Register!Next
<1> QED
  BY <1>1, <1>2, TypeCorrect, GrantInvHolds, PTL
     DEF Spec, Register!Spec, ImplementsRegister

-----------------------------------------------------------------------------
(* The retry loop of main.                                                 *)

\* The attempts of main never exceed -init-retries if that is positive.
RetryInv ==
  /\ InitRetries > 0 => attempt <= InitRetries
  /\ GivesUpWhenSpent

\* main exits with code 4 only after exactly -init-retries attempts, and
\* never if that is zero or negative.
THEOREM GivesUpOnlyWhenSpent == Spec => []GivesUpWhenSpent
<1> USE ConstantsAssumption
<1>1. Init => RetryInv
  BY DEF Init, RetryInv, GivesUpWhenSpent
<1>2. TypeOK /\ RetryInv /\ [Next]_vars => RetryInv'
  <2> SUFFICES ASSUME TypeOK, RetryInv, [Next]_vars PROVE RetryInv'
    OBVIOUS
  <2>0. attempt \in Nat
    BY DEF TypeOK
  <2> USE <2>0 DEF RetryInv, GivesUpWhenSpent
  <2>1. CASE TryCredService
    BY <2>1 DEF TryCredService, AttemptsLeft
  <2>2. CASE BootFailed
    BY <2>2 DEF BootFailed, AttemptsLeft
  <2>3. CASE BootCommit
    BY <2>3 DEF BootCommit
  <2>4. CASE Transaction \/ Rotation \/ RotationLock
    BY <2>4 DEF Transaction, BackgroundInit, ZGetTunnels, GetFallbackProxies,
         CheckFallbackConfig, FetchFallbackConfig, CloneFallbackConfig,
         NextAgent, Rotation, BeginRotation, RotationFailed, AfterFailedRotation,
         RotationLock, RotationStore, RotationUnlock, bootVars
  <2>5. CASE ConfigExpires \/ Tick \/ UNCHANGED vars
    BY <2>5 DEF ConfigExpires, Tick, vars, bootVars
  <2>6. ASSUME NEW h \in Handlers, AuthCall(h) \/ AuthLock(h) \/ AuthReturn(h)
        PROVE  RetryInv'
    BY <2>6 DEF AuthCall, AuthLock, AuthReturn, bootVars
  <2> QED
    BY <2>1, <2>2, <2>3, <2>4, <2>5, <2>6 DEF Next, Boot
<1>3. RetryInv => GivesUpWhenSpent
  BY DEF RetryInv
<1> QED
  BY <1>1, <1>2, <1>3, TypeCorrect, PTL DEF Spec

-----------------------------------------------------------------------------
(* The failover.                                                           *)

\* A sequence is its head followed by its tail.
LEMMA HeadThenTail ==
  ASSUME NEW S, NEW s \in Seq(S), s # <<>>
  PROVE  s = <<Head(s)>> \o Tail(s)
<1>1. /\ Head(s) \in S /\ Tail(s) \in Seq(S) /\ Len(Tail(s)) = Len(s) - 1
      /\ \A i \in 1 .. Len(Tail(s)) : Tail(s)[i] = s[i + 1]
  BY HeadTailProperties
<1>2. <<Head(s)>> \in Seq(S) /\ Len(<<Head(s)>>) = 1 /\ <<Head(s)>>[1] = s[1]
  BY <1>1
<1> DEFINE t == <<Head(s)>> \o Tail(s)
<1>3. /\ t \in Seq(S) /\ Len(t) = 1 + Len(Tail(s))
      /\ \A i \in 1 .. 1 + Len(Tail(s)) : t[i] = IF i <= 1 THEN s[1] ELSE Tail(s)[i - 1]
  BY <1>1, <1>2, ConcatProperties
<1> QED
  BY <1>1, <1>3, SeqEqual

\* The routes of a transaction once it has fallen back to the agents.
Plan == <<Direct>> \o cachedFBC.agents

\* What was tried and what is left make up the plan, at every stage.
FailoverInv ==
  /\ pc = "init" /\ route = Direct => tried = <<>>
  /\ pc = "zget" /\ route = Direct => tried = <<Direct>>
  /\ pc \in {"fallback", "fetch", "clone"} => tried = <<Direct>>
  /\ pc = "fetch" => MustFetch
  /\ pc = "init" /\ route # Direct => (tried \o <<route>>) \o agents = Plan
  /\ pc = "zget" /\ route # Direct => tried \o agents = Plan
  /\ pc = "agents" => tried \o agents = Plan
  /\ FailoverExhaustive

\* A transaction fails only after the direct client and every agent of the
\* configuration in its order, or when no live configuration could be had.
THEOREM FailoverIsExhaustive == Spec => []FailoverExhaustive
<1> USE ConstantsAssumption
<1>1. Init => FailoverInv
  BY DEF Init, FailoverInv, FailoverExhaustive
<1>2. TypeOK /\ FailoverInv /\ [Next]_vars => FailoverInv'
  <2> SUFFICES ASSUME TypeOK, FailoverInv, [Next]_vars PROVE FailoverInv'
    OBVIOUS
  <2>0. /\ route \in Routes /\ agents \in Seq(Agents) /\ tried \in Seq(Routes)
        /\ agents \in Seq(Routes) /\ cachedFBC.agents \in Seq(Agents)
        /\ cachedFBC \in [agents : Seq(Agents), life : Lives]
        /\ <<route>> \in Seq(Routes) /\ <<Direct>> \in Seq(Routes)
    BY DEF TypeOK, Routes
  <2>1. CASE BackgroundInit
    <3>1. tried' = Append(tried, route) /\ UNCHANGED <<route, agents, cachedFBC>>
      BY <2>1 DEF BackgroundInit
    <3>2. pc = "init" /\ pc' \in {"zget", IF route = Direct THEN "fallback" ELSE "agents"}
      BY <2>1 DEF BackgroundInit, AttemptFailed
    <3>3. CASE route = Direct
      <4>1. tried' = <<Direct>>
        BY <3>1, <3>2, <3>3 DEF FailoverInv
      <4> QED
        BY <3>1, <3>2, <3>3, <4>1 DEF FailoverInv, FailoverExhaustive
    <3>4. CASE route # Direct
      <4>1. tried' = tried \o <<route>>
        BY <2>0, <3>1, AppendIsConcat
      <4>2. tried' \o agents' = Plan'
        BY <3>1, <3>2, <3>4, <4>1 DEF FailoverInv, Plan
      <4> QED
        BY <3>1, <3>2, <3>4, <4>2 DEF FailoverInv, FailoverExhaustive
    <3> QED
      BY <3>3, <3>4
  <2>2. CASE ZGetTunnels
    <3>1. UNCHANGED <<tried, route, agents, cachedFBC>>
      BY <2>2 DEF ZGetTunnels
    <3>2. /\ pc = "zget"
          /\ pc' \in {"commit", IF route = Direct THEN "fallback" ELSE "agents"}
      BY <2>2 DEF ZGetTunnels, AttemptFailed
    <3> QED
      BY <3>1, <3>2 DEF FailoverInv, FailoverExhaustive, Plan
  <2>3. CASE CheckFallbackConfig
    BY <2>3 DEF CheckFallbackConfig, txnVars, FailoverInv, FailoverExhaustive, Plan, MustFetch
  <2>12. CASE FetchFallbackConfig
    <3>1. tried = <<Direct>> /\ MustFetch
      BY <2>12 DEF FetchFallbackConfig, FailoverInv
    <3>2. UNCHANGED tried /\ (pc' = "clone" \/ (pc' = "failed" /\ UNCHANGED cachedFBC))
      BY <2>12 DEF FetchFallbackConfig, txnVars
    <3> QED
      BY <3>1, <3>2 DEF FailoverInv, FailoverExhaustive, Plan, MustFetch
  <2>13. CASE CloneFallbackConfig
    BY <2>13 DEF CloneFallbackConfig, TakeAgents, FailoverInv, FailoverExhaustive, Plan
  <2>4. CASE NextAgent
    <3>1. UNCHANGED <<tried, cachedFBC>> /\ tried \o agents = Plan
      BY <2>4 DEF NextAgent, FailoverInv
    <3>2. CASE agents # <<>>
      <4>1. pc' = "init" /\ route' = Head(agents) /\ agents' = Tail(agents)
        BY <2>4, <3>2 DEF NextAgent
      <4>2. /\ Head(agents) \in Agents /\ Tail(agents) \in Seq(Routes)
            /\ <<Head(agents)>> \in Seq(Routes)
        BY <2>0, <3>2, HeadTailProperties DEF Routes
      <4>3. agents = <<Head(agents)>> \o Tail(agents)
        BY <2>0, <3>2, HeadThenTail
      <4>4. (tried \o <<Head(agents)>>) \o Tail(agents) = Plan
        BY <2>0, <3>1, <4>2, <4>3, ConcatAssociative
      <4> QED
        BY <3>1, <4>1, <4>2, <4>4 DEF FailoverInv, FailoverExhaustive, Plan
    <3>3. CASE agents = <<>>
      <4>1. pc' = "failed"
        BY <2>4, <3>3 DEF NextAgent
      <4>2. tried = Plan
        BY <2>0, <3>1, <3>3, ConcatEmptySeq
      <4> QED
        BY <3>1, <4>1, <4>2 DEF FailoverInv, FailoverExhaustive, Plan
    <3> QED
      BY <3>2, <3>3
  <2>5. CASE TryCredService \/ BeginRotation
    BY <2>5 DEF TryCredService, BeginRotation, BeginTransaction, FailoverInv, FailoverExhaustive
  <2>6. ASSUME pc' \in {"try", "off", "wait", "store", "unlock"} PROVE FailoverInv'
    BY <2>6 DEF FailoverInv, FailoverExhaustive
  <2>7. CASE BootFailed \/ BootCommit \/ RotationFailed \/ RotationLock
               \/ RotationStore \/ RotationUnlock
    BY <2>6, <2>7 DEF BootFailed, BootCommit, RotationFailed, AfterFailedRotation,
         RotationLock, RotationStore, RotationUnlock
  <2>8. ASSUME UNCHANGED <<pc, route, agents, tried>>,
               cachedFBC'.agents = cachedFBC.agents,
               cachedFBC.life # "live" => cachedFBC'.life # "live"
        PROVE  FailoverInv'
    BY <2>8 DEF FailoverInv, FailoverExhaustive, Plan, MustFetch
  <2>9. CASE ConfigExpires
    <3>1. cachedFBC' = [cachedFBC EXCEPT !.life = "lapsed"]
      BY <2>9 DEF ConfigExpires
    <3>2. cachedFBC'.agents = cachedFBC.agents /\ cachedFBC'.life = "lapsed"
      BY <2>0, <3>1
    <3> QED
      BY <2>8, <2>9, <3>2 DEF ConfigExpires, txnVars
  <2>10. CASE Tick \/ UNCHANGED vars
    BY <2>8, <2>10 DEF Tick, vars, txnVars
  <2>11. ASSUME NEW h \in Handlers, AuthCall(h) \/ AuthLock(h) \/ AuthReturn(h)
         PROVE  FailoverInv'
    BY <2>8, <2>11 DEF AuthCall, AuthLock, AuthReturn, txnVars
  <2> QED
    BY <2>1, <2>2, <2>3, <2>4, <2>5, <2>7, <2>9, <2>10, <2>11, <2>12, <2>13
       DEF Next, Transaction, GetFallbackProxies, Boot, Rotation
<1>3. FailoverInv => FailoverExhaustive
  BY DEF FailoverInv
<1> QED
  BY <1>1, <1>2, <1>3, TypeCorrect, PTL DEF Spec

\* Agents are tried only from a configuration that was alive at some moment
\* of the same transaction, whatever expires between the check, the copy and
\* the last agent.  The invariant is inductive as it stands.
THEOREM AgentsOfThisTransaction == Spec => []AgentsWereLive
<1> USE ConstantsAssumption
<1>1. Init => AgentsWereLive
  BY DEF Init, AgentsWereLive
<1>2. TypeOK /\ AgentsWereLive /\ [Next]_vars => AgentsWereLive'
  <2> SUFFICES ASSUME TypeOK, AgentsWereLive, [Next]_vars PROVE AgentsWereLive'
    OBVIOUS
  <2>0. cachedFBC \in [agents : Seq(Agents), life : Lives]
    BY DEF TypeOK
  <2> USE DEF AgentsWereLive
  <2>1. ASSUME UNCHANGED <<route, cachedFBC>>,
               pc' \notin {"clone", "agents"} \/ pc \in {"clone", "agents"} \/ route # Direct
        PROVE  AgentsWereLive'
    BY <2>1
  <2>2. CASE BackgroundInit \/ ZGetTunnels
    BY <2>1, <2>2 DEF BackgroundInit, ZGetTunnels, AttemptFailed
  <2>3. CASE CheckFallbackConfig
    BY <2>3 DEF CheckFallbackConfig, MustFetch, txnVars
  <2>4. CASE FetchFallbackConfig
    BY <2>4 DEF FetchFallbackConfig, txnVars
  <2>5. CASE CloneFallbackConfig \/ NextAgent
    BY <2>5 DEF CloneFallbackConfig, NextAgent
  <2>6. CASE TryCredService \/ BeginRotation
    BY <2>6 DEF TryCredService, BeginRotation, BeginTransaction
  <2>7. CASE BootFailed \/ BootCommit \/ RotationFailed \/ RotationLock
               \/ RotationStore \/ RotationUnlock
    BY <2>1, <2>7 DEF BootFailed, BootCommit, RotationFailed, AfterFailedRotation,
         RotationLock, RotationStore, RotationUnlock, txnVars
  <2>8. CASE ConfigExpires
    <3>1. cachedFBC'.life = "lapsed"
      BY <2>0, <2>8 DEF ConfigExpires
    <3> QED
      BY <3>1
  <2>9. CASE Tick \/ UNCHANGED vars
    BY <2>1, <2>9 DEF Tick, vars, txnVars
  <2>10. ASSUME NEW h \in Handlers, AuthCall(h) \/ AuthLock(h) \/ AuthReturn(h)
         PROVE  AgentsWereLive'
    BY <2>1, <2>10 DEF AuthCall, AuthLock, AuthReturn, txnVars
  <2> QED
    BY <2>2, <2>3, <2>4, <2>5, <2>6, <2>7, <2>8, <2>9, <2>10
       DEF Next, Transaction, GetFallbackProxies, Boot, Rotation
<1> QED
  BY <1>1, <1>2, TypeCorrect, PTL DEF Spec
=============================================================================

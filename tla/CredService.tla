---------------------------- MODULE CredService -----------------------------
(***************************************************************************)
(* The credentials service (credservice.go) with everything it calls: the  *)
(* transaction with its fallback agents and the cached fallback            *)
(* configuration (EnsureTransaction, GetFallbackProxies), the two API      *)
(* calls of one attempt (Tunnels), main's retry loop around the first call *)
(* and the request handlers that read the header through auth().           *)
(*                                                                         *)
(* One thread at a time runs a transaction: main until the first           *)
(* credentials are in, the rotating goroutine afterwards.  `pc` is the     *)
(* program counter of that thread.                                         *)
(***************************************************************************)
EXTENDS Integers, Sequences

CONSTANTS
  Handlers,     \* goroutines of the HTTP server that call auth()
  Agents,       \* agents a fallback configuration can name
  ConfigLists,  \* agent lists a fetched configuration can hold, as shuffled
  Direct,       \* the route of the client that uses no agent
  Rotator,      \* the rotating goroutine, as a holder of the mutex
  InitRetries,  \* -init-retries: attempts of main, unlimited if <= 0
  Rotate,       \* -rotate is positive
  MaxAttempts,  \* bound: attempts of main explored
  MaxTicks      \* bound: ticks of the rotation timer

ASSUME ConstantsAssumption ==
  /\ ConfigLists \subseteq Seq(Agents)
  /\ Direct \notin Agents
  /\ Rotator \notin Handlers
  /\ InitRetries \in Int
  /\ Rotate \in BOOLEAN
  /\ MaxAttempts \in Nat
  /\ MaxTicks \in Nat

VARIABLES
  phase,        \* "boot" while main runs CredService, then "serving", or "exit"
  attempt,      \* main: attempts of "run credentials service" begun
  pc,           \* the transaction thread: what it does next
  route,        \* the client of the current attempt: Direct or an agent
  agents,       \* EnsureTransaction: agents not tried yet, in order
  tried,        \* history: routes tried by the current transaction
  user_uuid,    \* number of user IDs generated; the last one is in use
  session,      \* user ID for which background_init returned the session key
  result,       \* user_uuid and tunnels as the closure last assigned them
  cachedFBC,    \* the cached fallback configuration
  tick,         \* a tick waits in the channel of the ticker
  ticks,        \* ticks so far
  mux,          \* the mutex: the set of its holders
  auth_header,  \* the current Proxy-Authorization value
  hpc,          \* per handler: "idle", "calling" auth(), or "locked" inside it
  seen          \* per handler: what its last call of auth() returned

bootVars  == <<phase, attempt>>
txnVars   == <<route, agents, tried, user_uuid, session, result>>
tickVars  == <<tick, ticks>>
authVars  == <<mux, auth_header>>
handVars  == <<hpc, seen>>
vars == <<bootVars, pc, txnVars, cachedFBC, tickVars, authVars, handVars>>

\* User IDs and headers are those of the abstract register: a header pairs
\* the user ID in its login with the user ID its key was granted to.
NoHeader == [login |-> 0, key |-> 0]
Headers  == [login : Nat, key : Nat]
Routes   == Agents \cup {Direct}

\* A nil cachedFBC is treated by the code exactly as an expired one.  `life`
\* says when a configuration expired: not yet ("live"), since the current
\* transaction began ("lapsed"), or before ("stale").  The code only ever
\* tells a live one from the others.
Lives    == {"live", "lapsed", "stale"}
NoConfig == [agents |-> <<>>, life |-> "stale"]

Init ==
  /\ phase = "boot"   /\ attempt = 0     /\ pc = "try"
  /\ route = Direct   /\ agents = <<>>   /\ tried = <<>>
  /\ user_uuid = 0    /\ session = 0     /\ result = NoHeader
  /\ cachedFBC = NoConfig
  /\ tick = FALSE     /\ ticks = 0
  /\ mux = {}         /\ auth_header = NoHeader
  /\ hpc = [h \in Handlers |-> "idle"]
  /\ seen = [h \in Handlers |-> NoHeader]

-----------------------------------------------------------------------------
(* The transaction: EnsureTransaction, GetFallbackProxies and Tunnels.     *)

\* What had expired before a transaction began is stale for it.
Aged == [cachedFBC EXCEPT !.life = IF @ = "live" THEN "live" ELSE "stale"]

\* EnsureTransaction is entered: the first client is the direct one.
BeginTransaction ==
  /\ pc' = "init"
  /\ route' = Direct
  /\ agents' = <<>>
  /\ tried' = <<>>
  /\ cachedFBC' = Aged
  /\ UNCHANGED <<user_uuid, session>>

FirstAgentOnly == pc' = IF route = Direct THEN "fallback" ELSE "failed"

\* txn returned false: the fallback mechanism after the direct client, the
\* next agent after an agent.
AttemptFailed == pc' = IF route = Direct THEN "fallback" ELSE "agents"

ReusesUserID == (user_uuid % 2) + 1

\* uuid.New: never the same twice.
NewUserID == user_uuid + 1

\* Tunnels generates a user ID and calls background_init with it.  A request
\* that failed, an undecodable answer and a (temporary or permanent) ban all
\* end this attempt, with no tunnels and the user ID returned.
BackgroundInit ==
  /\ pc = "init"
  /\ user_uuid' = NewUserID
  /\ tried' = Append(tried, route)
  /\ \/ /\ pc' = "zget"
        /\ session' = user_uuid'
        /\ UNCHANGED result
     \/ /\ AttemptFailed
        /\ result' = [login |-> user_uuid', key |-> 0]
        /\ UNCHANGED session
  /\ UNCHANGED <<bootVars, route, agents, cachedFBC, tickVars, authVars, handVars>>

\* zgettunnels under backoff.RetryNotify: the key answers to the session it
\* was asked with, or the backoff stops and Tunnels returns nothing.  An
\* error that is retried changes no state here, so it is a stuttering step.
ZGetTunnels ==
  /\ pc = "zget"
  /\ \/ /\ pc' = "commit"
        /\ result' = [login |-> user_uuid, key |-> session]
     \/ /\ AttemptFailed
        /\ result' = NoHeader
  /\ UNCHANGED <<bootVars, route, agents, tried, user_uuid, session,
                 cachedFBC, tickVars, authVars, handVars>>

NilOnly == cachedFBC = NoConfig

MustFetch == cachedFBC.life # "live"

\* GetFallbackProxies asks once whether the cached configuration is alive.
\* Time goes on afterwards: nothing asks again before the agents are used.
CheckFallbackConfig ==
  /\ pc = "fallback"
  /\ pc' = IF MustFetch THEN "fetch" ELSE "clone"
  /\ UNCHANGED <<bootVars, txnVars, cachedFBC, tickVars, authVars, handVars>>

\* fetchFallbackConfig: a configuration that is alive as it is decoded takes
\* the place of the cached one.  One that has expired by then, one that
\* cannot be decoded and a failed request end the transaction.
FetchFallbackConfig ==
  /\ pc = "fetch"
  /\ \/ /\ \E list \in ConfigLists : cachedFBC' = [agents |-> list, life |-> "live"]
        /\ pc' = "clone"
     \/ /\ pc' = "failed"
        /\ UNCHANGED cachedFBC
  /\ UNCHANGED <<bootVars, txnVars, tickVars, authVars, handVars>>

DirectAmongAgents(list) == agents' = <<Direct>> \o list

TakeAgents(list) == agents' = list

\* The caller gets a copy of the list, whatever its age is by now.
CloneFallbackConfig ==
  /\ pc = "clone"
  /\ pc' = "agents"
  /\ TakeAgents(cachedFBC.agents)
  /\ UNCHANGED <<bootVars, route, tried, user_uuid, session, result,
                 cachedFBC, tickVars, authVars, handVars>>

\* The loop over the cloned agent list: the next agent, or all have failed.
NextAgent ==
  /\ pc = "agents"
  /\ \/ /\ agents # <<>>
        /\ pc' = "init"
        /\ route' = Head(agents)
        /\ agents' = Tail(agents)
     \/ /\ agents = <<>>
        /\ pc' = "failed"
        /\ UNCHANGED <<route, agents>>
  /\ UNCHANGED <<bootVars, tried, user_uuid, session, result,
                 cachedFBC, tickVars, authVars, handVars>>

\* The UpdatedAt + TTL of the cached configuration passes.
ConfigExpires ==
  /\ cachedFBC.life = "live"
  /\ cachedFBC' = [cachedFBC EXCEPT !.life = "lapsed"]
  /\ UNCHANGED <<bootVars, pc, txnVars, tickVars, authVars, handVars>>

-----------------------------------------------------------------------------
(* main: retryPolicy around CredService, until it has credentials.         *)

OneAttemptShort == InitRetries <= 0 \/ attempt + 1 < InitRetries

\* The loop condition of retryPolicy for the attempt to come.
AttemptsLeft == InitRetries <= 0 \/ attempt < InitRetries

TryCredService ==
  /\ phase = "boot" /\ pc = "try"
  /\ AttemptsLeft
  /\ attempt < MaxAttempts
  /\ attempt' = attempt + 1
  /\ BeginTransaction
  /\ result' = NoHeader
  /\ UNCHANGED <<phase, tickVars, authVars, handVars>>

\* A failed transaction: CredService returns the error and main sleeps and
\* tries again, or exits with code 4 when it has used up its attempts.
BootFailed ==
  /\ phase = "boot" /\ pc = "failed"
  /\ IF AttemptsLeft
     THEN pc' = "try" /\ UNCHANGED phase
     ELSE pc' = "off" /\ phase' = "exit"
  /\ UNCHANGED <<attempt, txnVars, cachedFBC, tickVars, authVars, handVars>>

\* The first header is stored without the mutex: nobody else runs yet.
BootCommit ==
  /\ phase = "boot" /\ pc = "commit"
  /\ auth_header' = result
  /\ phase' = "serving"
  /\ pc' = IF Rotate THEN "wait" ELSE "off"
  /\ UNCHANGED <<attempt, txnVars, cachedFBC, tickVars, mux, handVars>>

-----------------------------------------------------------------------------
(* The mutex around the header.                                            *)

SharedLock(x) == mux' = mux \cup {x}

Lock(x) == mux = {} /\ mux' = {x}

NoUnlock(x) == UNCHANGED mux

Unlock(x) == mux' = mux \ {x}

-----------------------------------------------------------------------------
(* The rotating goroutine.                                                 *)

\* The ticker's channel holds one tick; a tick that finds it full is lost.
Tick ==
  /\ phase = "serving" /\ Rotate
  /\ ticks < MaxTicks
  /\ tick' = TRUE
  /\ ticks' = ticks + 1
  /\ UNCHANGED <<bootVars, pc, txnVars, cachedFBC, authVars, handVars>>

BeginRotation ==
  /\ pc = "wait" /\ tick
  /\ tick' = FALSE
  /\ BeginTransaction
  /\ UNCHANGED <<bootVars, result, ticks, authVars, handVars>>

AfterFailedRotation(next) ==
  /\ phase = "serving" /\ pc = "failed"
  /\ pc' = next
  /\ UNCHANGED <<bootVars, txnVars, cachedFBC, tickVars, authVars, handVars>>

RotatorReturns == AfterFailedRotation("off")
StoresAnyway   == AfterFailedRotation("commit")

\* A rotation that failed is logged and the loop continues.
RotationFailed == AfterFailedRotation("wait")

RotationLock ==
  /\ phase = "serving" /\ pc = "commit"
  /\ Lock(Rotator)
  /\ pc' = "store"
  /\ UNCHANGED <<bootVars, txnVars, cachedFBC, tickVars, auth_header, handVars>>

RotationStore ==
  /\ pc = "store"
  /\ auth_header' = result
  /\ pc' = "unlock"
  /\ UNCHANGED <<bootVars, txnVars, cachedFBC, tickVars, mux, handVars>>

RotationUnlock ==
  /\ pc = "unlock"
  /\ Unlock(Rotator)
  /\ pc' = "wait"
  /\ UNCHANGED <<bootVars, txnVars, cachedFBC, tickVars, auth_header, handVars>>

-----------------------------------------------------------------------------
(* The handlers: HandleRequest and ProxyDialer.DialContext call auth().    *)

AuthCall(h) ==
  /\ phase = "serving" /\ hpc[h] = "idle"
  /\ hpc' = [hpc EXCEPT ![h] = "calling"]
  /\ UNCHANGED <<bootVars, pc, txnVars, cachedFBC, tickVars, authVars, seen>>

AuthLock(h) ==
  /\ hpc[h] = "calling"
  /\ Lock(h)
  /\ hpc' = [hpc EXCEPT ![h] = "locked"]
  /\ UNCHANGED <<bootVars, pc, txnVars, cachedFBC, tickVars, auth_header, seen>>

\* auth() reads the header and the deferred Unlock runs as it returns.
AuthReturn(h) ==
  /\ hpc[h] = "locked"
  /\ seen' = [seen EXCEPT ![h] = auth_header]
  /\ Unlock(h)
  /\ hpc' = [hpc EXCEPT ![h] = "idle"]
  /\ UNCHANGED <<bootVars, pc, txnVars, cachedFBC, tickVars, auth_header>>

-----------------------------------------------------------------------------
GetFallbackProxies == CheckFallbackConfig \/ FetchFallbackConfig \/ CloneFallbackConfig
Transaction == BackgroundInit \/ ZGetTunnels \/ GetFallbackProxies \/ NextAgent
Boot        == TryCredService \/ BootFailed \/ BootCommit
Rotation    == BeginRotation \/ RotationFailed \/ RotationStore \/ RotationUnlock

Next ==
  \/ Transaction
  \/ Boot
  \/ Rotation
  \/ RotationLock
  \/ ConfigExpires
  \/ Tick
  \/ \E h \in Handlers : AuthCall(h) \/ AuthLock(h) \/ AuthReturn(h)

\* Every API call and the fetch run under context.WithTimeout, and the
\* backoff stops at its deadline, so the transaction thread never rests
\* inside one.  sync.Mutex hands itself to a waiter that has waited for a
\* millisecond: strong fairness.  Nothing makes requests or ticks come.
Fairness ==
  /\ WF_vars(Transaction)
  /\ WF_vars(Boot)
  /\ WF_vars(Rotation)
  /\ SF_vars(RotationLock)
  /\ \A h \in Handlers : SF_vars(AuthLock(h)) /\ WF_vars(AuthReturn(h))

Spec == Init /\ [][Next]_vars

FairSpec == Spec /\ Fairness

-----------------------------------------------------------------------------
(* Properties.                                                             *)

Register == INSTANCE CredRegister WITH current <- auth_header

\* The type invariant of every variable of the service.
TypeOK ==
  /\ phase \in {"boot", "serving", "exit"}
  /\ attempt \in Nat
  /\ pc \in {"try", "init", "zget", "fallback", "fetch", "clone", "agents",
             "failed", "commit", "wait", "store", "unlock", "off"}
  /\ route \in Routes
  /\ agents \in Seq(Agents)
  /\ tried \in Seq(Routes)
  /\ user_uuid \in Nat /\ session \in Nat
  /\ result \in Headers
  /\ cachedFBC \in [agents : Seq(Agents), life : Lives]
  /\ tick \in BOOLEAN /\ ticks \in Nat
  /\ mux \in SUBSET (Handlers \cup {Rotator})
  /\ auth_header \in Headers
  /\ hpc \in [Handlers -> {"idle", "calling", "locked"}]
  /\ seen \in [Handlers -> Headers]

\* Once the proxy serves requests the header is never empty, and the current
\* header as well as every header a handler still holds pairs the login of
\* one user ID with the key that was granted to that very user ID, whatever
\* attempts of whatever transaction failed in between.
HeadersAreGrants ==
  /\ phase = "serving" => Register!Granted(auth_header)
  /\ \A h \in Handlers :
        seen[h] # NoHeader => /\ Register!Granted(seen[h])
                              /\ seen[h].login <= auth_header.login

\* The mutex: no handler reads the header while the rotation stores it, no
\* two threads are inside at once, and nobody leaves it locked behind.
HeaderNeverTorn ==
  /\ \A a, b \in mux : a = b
  /\ pc \in {"store", "unlock"} <=> Rotator \in mux
  /\ \A h \in Handlers : hpc[h] = "locked" <=> h \in mux

\* A transaction that fails has tried the direct client first and then every
\* agent of the configuration in its order, each exactly once; the only
\* other failure is that no unexpired configuration could be had.
FailoverExhaustive ==
  pc = "failed" => \/ tried = <<Direct>> \o cachedFBC.agents
                   \/ tried = <<Direct>> /\ cachedFBC.life # "live"

\* Agents are tried only from a configuration that was alive at some moment
\* of this very transaction, however many transactions used it before, and
\* although it may expire at any moment between the check and the last agent.
AgentsWereLive ==
  pc \in {"clone", "agents"} \/ route # Direct => cachedFBC.life # "stale"

\* main gives up only with -init-retries positive and that many attempts made.
GivesUpWhenSpent == phase = "exit" => InitRetries > 0 /\ attempt = InitRetries

\* The service implements the abstract register: a header becomes current
\* only as a newer grant, a failed rotation leaves it alone, and auth()
\* returns the header current at one instant of the call.
ImplementsRegister == Register!Spec

\* A transaction ends, however many attempts of it fail.
TransactionEnds ==
  pc \in {"init", "zget", "fallback", "fetch", "clone", "agents", "failed",
          "commit", "store", "unlock"}
    ~> pc \in {"try", "wait", "off"}

\* A tick that waits in the channel while a rotation runs is served later.
TickServed == tick ~> ~tick

\* A handler that calls auth() gets its header, whatever the rotation and
\* the other handlers do with the mutex.
AuthReturns == \A h \in Handlers : hpc[h] = "calling" ~> hpc[h] = "idle"
=============================================================================

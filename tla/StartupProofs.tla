---------------------------- MODULE StartupProofs ----------------------------
(***************************************************************************)
(* Proofs about Startup, for any command lines, URLs and answers.          *)
(***************************************************************************)
EXTENDS Startup, FiniteSetTheorems, TLAPS

-----------------------------------------------------------------------------
(* The log.                                                                *)

\* A message that the verbosity lets through is a step of the log, and one
\* that it does not is none.
LEMMA LogsIsLogStep ==
  ASSUME NEW verb, NEW m \in Messages, Logs(verb, m)
  PROVE  [Log!Next]_logVars
BY DEF Logs, Log!Next

\* So is the reason that run() reports when it returns.
LEMMA AbortIsLogStep ==
  ASSUME stage \in Stages, NEW c, Abort(c)
  PROVE  [Log!Next]_logVars
BY LogsIsLogStep DEF Abort, Messages

LEMMA SetupIsLogStep == Setup => [Log!Next]_logVars
<1> SUFFICES ASSUME Setup PROVE [Log!Next]_logVars
  OBVIOUS
<1> USE DEF Stages
<1>1. CASE ParseArgs \/ UserAgentGiven \/ ExtVerGiven
  BY <1>1 DEF ParseArgs, UserAgentGiven, ExtVerGiven
<1>2. CASE LoadCA
  BY <1>2, AbortIsLogStep DEF LoadCA
<1>3. CASE BaseProxy
  BY <1>3, AbortIsLogStep DEF BaseProxy
<1>4. CASE MakeResolver
  BY <1>4, AbortIsLogStep DEF MakeResolver
<1>5. CASE GetEndpoint
  BY <1>5, AbortIsLogStep DEF GetEndpoint
<1> QED
  BY <1>1, <1>2, <1>3, <1>4, <1>5 DEF Setup

LEMMA NetworkIsLogStep == Network => [Log!Next]_logVars
<1> SUFFICES ASSUME Network PROVE [Log!Next]_logVars
  OBVIOUS
<1>1. ASSUME NEW s, NEW via, Try(s, via) PROVE [Log!Next]_logVars
  BY <1>1, LogsIsLogStep DEF Try, Messages
<1>2. CASE GiveUp
  BY <1>2, AbortIsLogStep DEF GiveUp, Stages
<1> QED
  BY <1>1, <1>2 DEF Network, ListCountries, ListProxies, DiscoverUserAgent,
                    DiscoverExtVer, GetCredentials

LEMMA ExitIsLogStep == Exit => Log!Next
BY DEF Exit, CloseReturns, Log!Next

\* Every step of the process is a step of the log or leaves it alone.
LEMMA StepIsLogStep == [Next]_vars => [Log!Next]_logVars
<1>1. ServeRequest \/ Rotate => UNCHANGED logVars
  BY DEF ServeRequest, Rotate
<1>2. ServerTerminates => [Log!Next]_logVars
  BY AbortIsLogStep DEF ServerTerminates, Stages
<1>3. LogLoop \/ BeginClose => Log!Next
  BY DEF LogLoop, BeginClose, Log!Next
<1>4. UNCHANGED vars => UNCHANGED logVars
  BY DEF vars
<1> QED
  BY <1>1, <1>2, <1>3, <1>4, SetupIsLogStep, NetworkIsLogStep, ExitIsLogStep
     DEF Next, Serve

\* The process uses its log as the lossy log promises to be used: only by
\* accepting or refusing messages, and by one close at most.
THEOREM StartupUsesLossyLog == Spec => Log!Spec
<1>1. Init => Log!Init
  BY DEF Init
<1>2. [Next]_vars => [Log!Next]_Log!vars
  BY StepIsLogStep DEF logVars, Log!vars
<1> QED
  BY <1>1, <1>2, PTL DEF Spec, Log!Spec

\* What the lossy log guarantees in every state.
LogInv ==
  /\ accepted \in Seq(Messages) /\ written \in Seq(Messages)
  /\ refused \in Nat
  /\ due \in [closing : BOOLEAN, upto : Nat]
  /\ close \in {"no", "flushed", "timeout"}
  /\ Len(written) <= Len(accepted)
  /\ \A n \in 1 .. Len(written) : written[n] = accepted[n]
  /\ close # "no" => due.closing
  /\ close = "flushed" => due.upto <= Len(written)

LEMMA LogInvHolds == Log!Spec => []LogInv
<1>1. Log!Init => LogInv
  BY DEF Log!Init, Log!NotClosing, LogInv
<1>2. LogInv /\ [Log!Next]_Log!vars => LogInv'
  <2> SUFFICES ASSUME LogInv, [Log!Next]_Log!vars PROVE LogInv'
    OBVIOUS
  <2> USE DEF LogInv
  <2>1. ASSUME NEW m \in Messages, Log!Accept(m) PROVE LogInv'
    BY <2>1 DEF Log!Accept
  <2>2. CASE Log!Refuse
    BY <2>2 DEF Log!Refuse
  <2>3. CASE Log!Output
    BY <2>3 DEF Log!Output, Log!Backlog
  <2>4. CASE Log!BeginClose
    BY <2>4 DEF Log!BeginClose
  <2>5. ASSUME NEW how \in {"flushed", "timeout"}, Log!EndClose(how) PROVE LogInv'
    BY <2>5 DEF Log!EndClose
  <2>6. CASE UNCHANGED Log!vars
    BY <2>6 DEF Log!vars
  <2> QED
    BY <2>1, <2>2, <2>3, <2>4, <2>5, <2>6 DEF Log!Next
<1> QED
  BY <1>1, <1>2, PTL DEF Log!Spec

-----------------------------------------------------------------------------
(* Types.                                                                  *)

ControlType ==
  /\ flags \in Flags
  /\ stage \in Stages \cup {"closing", "flushing", "exited"}
  /\ attempt \in Nat
  /\ code \in {-1, 0, 2, 3, 4, 5, 6, 7, 8, 15}
  /\ at \in Stages
  /\ calls \in [TryStages -> Nat]
  /\ ok \in SUBSET TryStages

SettingsType ==
  /\ DOMAIN server = {"endpoint", "resolver"}
  /\ userAgent \in UserAgents /\ extVer \in ExtVers
  /\ dialer \in {"direct", "base"} /\ baseDialer \in {"direct", "base"}
  /\ sent \subseteq [by : TryStages \cup {"request", "rescue"}, via : {"direct", "base"},
                     userAgent : UserAgents, extVer : ExtVers]

\* An action of run() without the network.
LEMMA SetupKeepsControl == ControlType /\ Setup => ControlType'
<1> SUFFICES ASSUME ControlType, Setup PROVE ControlType'
  OBVIOUS
<1> USE DEF ControlType, Stages, TryStages, history, Goto, Proceed, Return, ExitNow, Abort
<1>1. CASE ParseArgs
  BY <1>1 DEF ParseArgs
<1>2. CASE LoadCA
  BY <1>2 DEF LoadCA
<1>3. CASE BaseProxy
  BY <1>3 DEF BaseProxy, AfterBase
<1>4. CASE UserAgentGiven
  BY <1>4 DEF UserAgentGiven
<1>5. CASE ExtVerGiven
  BY <1>5 DEF ExtVerGiven, AfterExt
<1>6. CASE MakeResolver
  BY <1>6 DEF MakeResolver
<1>7. CASE GetEndpoint
  BY <1>7 DEF GetEndpoint
<1> QED
  BY <1>1, <1>2, <1>3, <1>4, <1>5, <1>6, <1>7 DEF Setup

\* What an attempt changes, whatever comes of it.
LEMMA TryEffect ==
  ASSUME ControlType, NEW s \in TryStages, NEW via, Try(s, via)
  PROVE  /\ stage = s /\ AttemptsLeft /\ flags' = flags
         /\ calls' \in [TryStages -> Nat]
         /\ calls'[s] = calls[s] + 1
         /\ \A r \in TryStages \ {s} : calls'[r] = calls[r]
BY DEF Try, ControlType

\* How a network stage goes on: it fails and stays, or it succeeds.
FailedAttempt == /\ attempt' = attempt + 1
                 /\ UNCHANGED <<stage, code, at, ok>>

SucceededTo(s) ==
  /\ ok' = ok \cup {stage}
  /\ stage' = s /\ attempt' = 0
  /\ UNCHANGED <<code, at>>

ListedAndReturned ==
  /\ stage \in {"countries", "proxies"}
  /\ ok' = ok \cup {stage}
  /\ stage' = "closing" /\ attempt' = 0
  /\ code' = 0 /\ at' = stage

LEMMA NetworkEffect ==
  ASSUME ControlType, Network, ~GiveUp
  PROVE  \E s \in TryStages, via \in {dialer, baseDialer} :
           /\ Try(s, via)
           /\ ~(s = "chrome" /\ flags.agent) /\ ~(s = "ext" /\ flags.ext)
           /\ \/ FailedAttempt
              \/ ListedAndReturned
              \/ s = "chrome" /\ SucceededTo("ext")
              \/ s = "ext" /\ SucceededTo(AfterExt)
              \/ s = "cred" /\ SucceededTo("endpoint")
<1> USE DEF TryStages, FailedAttempt, SucceededTo, ListedAndReturned, Goto, Proceed, Return,
            Fails, Succeeds
<1>0. \A s, via : Try(s, via) => stage = s
  BY DEF Try
<1>1. CASE ListCountries
  BY <1>0, <1>1 DEF ListCountries
<1>2. CASE DiscoverUserAgent
  BY <1>0, <1>2 DEF DiscoverUserAgent
<1>3. CASE DiscoverExtVer
  BY <1>0, <1>3 DEF DiscoverExtVer
<1>4. CASE ListProxies
  BY <1>0, <1>4 DEF ListProxies
<1>5. CASE GetCredentials
  BY <1>0, <1>5 DEF GetCredentials
<1> QED
  BY <1>1, <1>2, <1>3, <1>4, <1>5 DEF Network

LEMMA NetworkKeepsControl == ControlType /\ Network => ControlType'
<1> SUFFICES ASSUME ControlType, Network PROVE ControlType'
  OBVIOUS
<1>1. CASE GiveUp
  BY <1>1 DEF GiveUp, GiveUpCode, Abort, Return, Goto, history, ControlType, Stages, TryStages
<1>2. CASE ~GiveUp
  <2>1. PICK s \in TryStages, via \in {dialer, baseDialer} :
           /\ Try(s, via)
           /\ ~(s = "chrome" /\ flags.agent) /\ ~(s = "ext" /\ flags.ext)
           /\ \/ FailedAttempt
              \/ ListedAndReturned
              \/ s = "chrome" /\ SucceededTo("ext")
              \/ s = "ext" /\ SucceededTo(AfterExt)
              \/ s = "cred" /\ SucceededTo("endpoint")
    BY <1>2, NetworkEffect
  <2>2. stage = s /\ flags' = flags /\ calls' \in [TryStages -> Nat]
    BY <2>1, TryEffect
  <2> USE DEF ControlType, Stages, TryStages
  <2>3. CASE FailedAttempt
    BY <2>2, <2>3 DEF FailedAttempt
  <2>4. CASE ListedAndReturned
    BY <2>2, <2>4 DEF ListedAndReturned
  <2>5. ASSUME NEW t \in Stages, SucceededTo(t) PROVE ControlType'
    BY <2>2, <2>5 DEF SucceededTo
  <2> QED
    BY <2>1, <2>3, <2>4, <2>5 DEF AfterExt
<1> QED
  BY <1>1, <1>2

\* The rest of the program leaves the flags and the attempts alone.
LEMMA RestKeepsControl ==
  ASSUME ControlType, Serve \/ LogLoop \/ BeginClose \/ Exit \/ UNCHANGED vars
  PROVE  ControlType'
<1> USE DEF ControlType, Stages, history, Goto, Return, Abort, TryStages
<1>1. CASE ServeRequest \/ Rotate
  BY <1>1 DEF ServeRequest, Rotate
<1>2. CASE ServerTerminates
  BY <1>2 DEF ServerTerminates
<1>3. CASE LogLoop
  BY <1>3 DEF LogLoop
<1>4. CASE BeginClose
  BY <1>4 DEF BeginClose
<1>5. CASE Exit
  BY <1>5 DEF Exit
<1>6. CASE UNCHANGED vars
  BY <1>6 DEF vars
<1> QED
  BY <1>1, <1>2, <1>3, <1>4, <1>5, <1>6 DEF Serve

-----------------------------------------------------------------------------
(* What an exit code tells.                                                *)

\* An endpoint that is not the error has an address and a name.
LEMMA EndpointHasAddress ==
  ASSUME NEW tunnels, NEW typ, NEW trial, NEW force,
         NEW e \in get_endpoint(tunnels, typ, trial, force), e # Failed
  PROVE  e.Host # "" /\ e.TLSName # ""
<1>1. PICK x \in SomeEntry(tunnels.IPList) :
        e = IF x.host = "" \/ x.ip = "" \/ ~IsSupported(EffectiveType(typ, force)) THEN Failed
            ELSE [Host |-> x.ip, TLSName |-> x.host,
                  Port |-> PortOf(tunnels.Port, EffectiveType(typ, force), force, trial)]
  BY DEF get_endpoint
<1> QED
  BY <1>1

\* The network stages that may still come once run() is in stage s.
AheadOf(s) ==
  CASE s \in {"args", "ca", "base"} -> TryStages
    [] s = "countries"              -> {"countries"}
    [] s = "chrome"                 -> {"chrome", "ext", "proxies", "cred"}
    [] s = "ext"                    -> {"ext", "proxies", "cred"}
    [] s = "proxies"                -> {"proxies"}
    [] s \in {"resolver", "cred"}   -> {"cred"}
    [] OTHER                        -> {}

\* Where run() is, or was when it returned.
Current == IF code = -1 THEN stage ELSE at

StageInv ==
  /\ code = -1 <=> stage \in Stages
  /\ \A s \in AheadOf(stage) : /\ s \notin ok
                               /\ calls[s] = IF s = stage THEN attempt ELSE 0
  /\ \A s \in TryStages : calls[s] > 0 => s \in ok \/ s = Current
  /\ stage \in TryStages => flags.retries <= 0 \/ attempt <= flags.retries
  /\ (stage = "chrome" /\ flags.agent) \/ (stage = "ext" /\ flags.ext) => attempt = 0
  /\ stage \in Stages \ {"args"} => flags.lists # {"countries", "proxies"}
  /\ stage \in {"countries", "proxies"} => stage \in flags.lists
  /\ stage \in {"endpoint", "serve"} => "cred" \in ok
  /\ ExitExplained

\* The flags, as far as the stages depend on them.
LEMMA FlagsTyped ==
  ControlType => /\ flags.retries \in Int /\ flags.verbosity \in Int
                 /\ flags.parse \in {"fine", "wrong", "help"}
                 /\ flags.lists \subseteq {"countries", "proxies"}
BY StartupAssumption DEF ControlType

LEMMA AheadOfStage ==
  /\ \A s : AheadOf(s) \subseteq TryStages
  /\ \A s \in TryStages : s \in AheadOf(s)
  /\ \A s \in {"closing", "flushing", "exited", "endpoint", "serve"} : AheadOf(s) = {}
BY DEF AheadOf, TryStages

\* Nothing but the current stage was tried, and it is left with what it did.
LeavesStage ==
  /\ ControlType /\ ControlType' /\ StageInv
  /\ stage \in Stages
  /\ flags' = flags
  /\ \A s \in TryStages \ {stage} : calls'[s] = calls[s]
  /\ ok \subseteq ok' /\ ok' \subseteq ok \cup {stage}

\* run() goes on to stage t: what may still come was still to come, and a stage
\* that was tried is left behind with a success.
Advances(t) ==
  /\ t \in Stages \ {"args"}
  /\ stage' = t /\ attempt' = 0 /\ code' = code
  /\ AheadOf(t) \subseteq AheadOf(stage) \ {stage}
  /\ stage \in TryStages => stage \in ok' \/ ~(calls'[stage] > 0)
  /\ flags.lists # {"countries", "proxies"}
  /\ t \in {"countries", "proxies"} => t \in flags.lists
  /\ t \in {"endpoint", "serve"} => "cred" \in ok'
  /\ t = "serve" => server'.endpoint.Host # ""

LEMMA AdvanceKeepsStage ==
  ASSUME LeavesStage, NEW t, Advances(t)
  PROVE  StageInv'
<1>1. code = -1 /\ code' = code /\ stage' = t /\ t \in Stages /\ flags' = flags /\ attempt' = 0
  BY DEF StageInv, Advances, LeavesStage
<1>2. Current = stage /\ Current' = t
  BY <1>1 DEF Current
<1>3. ASSUME NEW s \in AheadOf(t)
      PROVE  s \notin ok' /\ calls'[s] = 0
  <2>1. s \in AheadOf(stage) /\ s # stage /\ s \in TryStages
    BY AheadOfStage DEF Advances
  <2> QED
    BY <2>1 DEF StageInv, LeavesStage
<1>4. ASSUME NEW s \in TryStages, calls'[s] > 0
      PROVE  s \in ok' \/ s = t
  <2>1. CASE s = stage
    BY <1>4, <2>1 DEF Advances
  <2>2. CASE s # stage
    BY <1>2, <1>4, <2>2 DEF StageInv, LeavesStage
  <2> QED
    BY <2>1, <2>2
<1>5. ExitExplained'
  <2>1. code' \notin {0, 3, 4, 8} /\ ~(code' # -1)
    BY <1>1
  <2> QED
    BY <1>1, <2>1 DEF ExitExplained, Advances
<1>6. flags.retries <= 0 \/ 0 <= flags.retries
  BY FlagsTyped DEF LeavesStage
<1>7. /\ flags.lists # {"countries", "proxies"}
      /\ t \in {"countries", "proxies"} => t \in flags.lists
      /\ t \in {"endpoint", "serve"} => "cred" \in ok'
  BY DEF Advances
<1>8. \A s \in AheadOf(stage)' : s \notin ok' /\ calls'[s] = IF s = stage' THEN attempt' ELSE 0
  BY <1>1, <1>3
<1> QED
  BY <1>1, <1>2, <1>4, <1>5, <1>6, <1>7, <1>8 DEF StageInv

\* run() returns from a stage with the code that stands for what happened.
Returns ==
  /\ stage # "args"
  /\ stage' = "closing" /\ at' = stage /\ code' # -1
  /\ code' \in {3, 4, 8} => /\ stage \in TryStages \ ok'
                            /\ flags.retries > 0 /\ calls'[stage] = flags.retries
  /\ code' = 0 => \/ stage = "serve"
                  \/ stage \in {"countries", "proxies"} /\ stage \in ok'

LEMMA ReturnKeepsStage == LeavesStage /\ Returns => StageInv'
<1> SUFFICES ASSUME LeavesStage, Returns PROVE StageInv'
  OBVIOUS
<1>1. /\ code = -1 /\ Current = stage /\ Current' = stage
      /\ flags' = flags /\ flags.lists # {"countries", "proxies"}
      /\ stage' = "closing" /\ at' = stage /\ code' # -1 
  BY DEF StageInv, Current, LeavesStage, Returns
<1>2. ASSUME NEW s \in TryStages, calls'[s] > 0
      PROVE  s \in ok' \/ s = stage
  BY <1>1, <1>2 DEF StageInv, LeavesStage
<1>3. ASSUME stage \in {"countries", "proxies"}
      PROVE  flags.lists = {stage}
  BY <1>1, <1>3, FlagsTyped DEF StageInv, LeavesStage
<1>4. ExitExplained'
  BY <1>1, <1>2, <1>3 DEF ExitExplained, Returns
<1>5. AheadOf(stage)' = {} /\ stage' \notin Stages
  BY <1>1, AheadOfStage DEF Stages, TryStages
<1> QED
  BY <1>1, <1>2, <1>4, <1>5 DEF StageInv, Stages, TryStages

\* A step of run() without the network leaves the attempts alone, and goes on
\* to the next stage, returns with a code of its own, or ends at once.
LEMMA SetupLeavesStage ==
  ASSUME ControlType, StageInv, Setup
  PROVE  LeavesStage /\ UNCHANGED <<calls, ok>>
<1>1. UNCHANGED <<flags, calls, ok>> /\ stage \in Stages
  BY DEF Setup, ParseArgs, LoadCA, BaseProxy, UserAgentGiven, ExtVerGiven, MakeResolver,
         GetEndpoint, history, Stages, TryStages
<1> QED
  BY <1>1, SetupKeepsControl DEF LeavesStage

LEMMA SetupKeepsStage == ControlType /\ SettingsType /\ StageInv /\ Setup => StageInv'
<1> SUFFICES ASSUME ControlType, SettingsType, StageInv, Setup PROVE StageInv'
  OBVIOUS
<1>0. /\ LeavesStage /\ UNCHANGED <<calls, ok>>
      /\ \A s \in AheadOf(stage) : s \notin ok /\ calls[s] = IF s = stage THEN attempt ELSE 0
      /\ code = -1
      /\ stage # "args" => flags.lists # {"countries", "proxies"}
  BY SetupLeavesStage DEF StageInv, LeavesStage
<1> USE DEF Stages, TryStages, Goto, Proceed, Return, ExitNow, Abort
<1>1. CASE ParseArgs
  <2>1. CASE Refused \/ flags.parse = "help" \/ flags.version
    <3>1. /\ stage' = "exited" /\ at' = "args" /\ stage = "args"
          /\ code' = 2 \/ (code' = 0 /\ (flags.parse = "help" \/ flags.version))
      BY <1>1, <2>1 DEF ParseArgs
    <3>2. AheadOf(stage)' = {} /\ flags' = flags
      BY <1>0, <3>1, AheadOfStage DEF LeavesStage
    <3>3. \A s \in TryStages : calls'[s] > 0 => s \in ok'
      BY <1>0, <3>1 DEF StageInv, Current
    <3>4. ExitExplained'
      BY <3>1, <3>2, <3>3 DEF ExitExplained
    <3>5. code' # -1 /\ stage' \notin Stages
      BY <3>1
    <3> QED
      BY <3>2, <3>3, <3>4, <3>5 DEF StageInv
  <2>2. CASE ~Refused /\ flags.parse # "help" /\ ~flags.version
    <3>1. flags.lists # {"countries", "proxies"}
      <4>1. IsFiniteSet({"countries"}) /\ Cardinality({"countries"}) = 1
        BY FS_Singleton
      <4>2. Cardinality({"countries"} \cup {"proxies"}) = 2
        BY <4>1, FS_AddElement
      <4>3. {"countries"} \cup {"proxies"} = {"countries", "proxies"}
        OBVIOUS
      <4> QED
        BY <2>2, <4>2, <4>3, FlagsTyped DEF Refused
    <3>2. Advances("ca")
      BY <1>0, <1>1, <2>2, <3>1 DEF ParseArgs, Advances, AheadOf
    <3> QED
      BY <1>0, <3>2, AdvanceKeepsStage
  <2> QED
    BY <2>1, <2>2
<1>2. CASE LoadCA
  <2>1. Advances("base") \/ Returns
    BY <1>0, <1>2 DEF LoadCA, Advances, AheadOf, Returns
  <2> QED
    BY <1>0, <2>1, AdvanceKeepsStage, ReturnKeepsStage
<1>3. CASE BaseProxy
  <2>1. Advances(AfterBase) \/ Returns
    BY <1>0, <1>3 DEF BaseProxy, Advances, AheadOf, AfterBase, Returns
  <2> QED
    BY <1>0, <2>1, AdvanceKeepsStage, ReturnKeepsStage
<1>4. CASE UserAgentGiven
  <2>1. stage = "chrome" /\ attempt = 0 /\ calls[stage] = 0
    BY <1>0, <1>4, AheadOfStage DEF UserAgentGiven, StageInv
  <2>2. Advances("ext")
    BY <1>0, <1>4, <2>1 DEF UserAgentGiven, Advances, AheadOf
  <2> QED
    BY <1>0, <2>2, AdvanceKeepsStage
<1>5. CASE ExtVerGiven
  <2>1. stage = "ext" /\ attempt = 0 /\ calls[stage] = 0
    BY <1>0, <1>5, AheadOfStage DEF ExtVerGiven, StageInv
  <2>2. Advances(AfterExt)
    BY <1>0, <1>5, <2>1 DEF ExtVerGiven, AfterExt, Advances, AheadOf
  <2> QED
    BY <1>0, <2>2, AdvanceKeepsStage
<1>6. CASE MakeResolver
  <2>1. Advances("cred") \/ Returns
    BY <1>0, <1>6 DEF MakeResolver, Advances, AheadOf, Returns
  <2> QED
    BY <1>0, <2>1, AdvanceKeepsStage, ReturnKeepsStage
<1>7. CASE GetEndpoint
  <2>1. stage = "endpoint" /\ "cred" \in ok
    BY <1>7 DEF GetEndpoint, StageInv
  <2>2. PICK tunnels \in Responses, pf \in PortFlags :
          \E e \in get_endpoint(tunnels, pf.typ, pf.trial, pf.force) :
            \/ e = Failed /\ Abort(5)
            \/ /\ e # Failed
               /\ server' = [server EXCEPT !.endpoint = e]
               /\ Proceed("serve")
    BY <1>7 DEF GetEndpoint
  <2>3. PICK e \in get_endpoint(tunnels, pf.typ, pf.trial, pf.force) :
          \/ e = Failed /\ Abort(5)
          \/ /\ e # Failed
             /\ server' = [server EXCEPT !.endpoint = e]
             /\ Proceed("serve")
    BY <2>2
  <2>4. CASE Abort(5)
    <3>1. Returns
      BY <2>1, <2>4 DEF Returns
    <3> QED
      BY <1>0, <3>1, ReturnKeepsStage
  <2>5. CASE e # Failed /\ server' = [server EXCEPT !.endpoint = e] /\ Proceed("serve")
    <3>1. e.Host # ""
      BY <2>5, EndpointHasAddress
    <3>2. server'.endpoint = e
      BY <2>5 DEF SettingsType
    <3>3. Advances("serve")
      BY <1>0, <2>1, <2>5, <3>1, <3>2 DEF Advances, AheadOf
    <3> QED
      BY <1>0, <3>3, AdvanceKeepsStage
  <2> QED
    BY <2>3, <2>4, <2>5
<1> QED
  BY <1>1, <1>2, <1>3, <1>4, <1>5, <1>6, <1>7 DEF Setup

LEMMA NetworkKeepsStage == ControlType /\ StageInv /\ Network => StageInv'
<1> SUFFICES ASSUME ControlType, StageInv, Network PROVE StageInv'
  OBVIOUS
<1>0. ControlType' /\ stage \in AheadOf(stage)
  BY NetworkKeepsControl, AheadOfStage DEF Network, GiveUp, ListCountries, ListProxies,
     DiscoverUserAgent, DiscoverExtVer, GetCredentials, Try, TryStages
<1>1. /\ stage \in TryStages /\ stage \in Stages
      /\ stage \notin ok /\ calls[stage] = attempt
      /\ flags.lists # {"countries", "proxies"}
  BY <1>0, AheadOfStage DEF StageInv, Stages, TryStages
<1>2. CASE GiveUp
  <2>1. UNCHANGED <<flags, calls, ok>> /\ ~AttemptsLeft
    BY <1>2 DEF GiveUp, history
  <2>2. LeavesStage
    BY <1>0, <1>1, <2>1 DEF LeavesStage
  <2>3. flags.retries > 0 /\ attempt = flags.retries
    BY <1>1, <2>1, FlagsTyped DEF StageInv, AttemptsLeft, ControlType
  <2>4. stage' = "closing" /\ at' = stage /\ code' \in {3, 4, 8}
    BY <1>2 DEF GiveUp, GiveUpCode, Abort, Return, Goto
  <2>5. Returns
    BY <1>1, <2>1, <2>3, <2>4 DEF Returns, TryStages
  <2> QED
    BY <2>2, <2>5, ReturnKeepsStage
<1>3. CASE ~GiveUp
  <2>1. PICK s \in TryStages, via \in {dialer, baseDialer} :
           /\ Try(s, via)
           /\ ~(s = "chrome" /\ flags.agent) /\ ~(s = "ext" /\ flags.ext)
           /\ \/ FailedAttempt
              \/ ListedAndReturned
              \/ s = "chrome" /\ SucceededTo("ext")
              \/ s = "ext" /\ SucceededTo(AfterExt)
              \/ s = "cred" /\ SucceededTo("endpoint")
    BY <1>3, NetworkEffect
  <2>2. /\ stage = s /\ AttemptsLeft /\ flags' = flags
        /\ calls'[s] = calls[s] + 1
        /\ \A r \in TryStages \ {s} : calls'[r] = calls[r]
    BY <2>1, TryEffect
  <2>3. CASE FailedAttempt
    <3>1. UNCHANGED <<flags, stage, code, at, ok>> /\ attempt' = attempt + 1
      BY <2>2, <2>3 DEF FailedAttempt
    <3>2. AheadOf(stage') = AheadOf(stage) /\ Current' = Current /\ Current = stage
      BY <1>1, <3>1 DEF Current, StageInv
    <3>3. attempt \in Nat /\ calls'[stage] = attempt'
      BY <1>1, <2>2, <3>1 DEF ControlType
    <3>4. \A r \in AheadOf(stage)' :
            r \notin ok' /\ calls'[r] = IF r = stage' THEN attempt' ELSE 0
      BY <2>2, <3>1, <3>2, <3>3, AheadOfStage DEF StageInv
    <3>5. \A r \in TryStages : calls'[r] > 0 => r \in ok' \/ r = Current'
      BY <2>2, <3>1, <3>2 DEF StageInv
    <3>6. flags'.retries <= 0 \/ attempt' <= flags'.retries
      BY <2>2, <3>1, <3>3, FlagsTyped DEF AttemptsLeft
    <3>7. code = -1 /\ ExitExplained'
      <4>1. code = -1
        BY <1>1 DEF StageInv
      <4>2. stage' # "serve"
        BY <1>1, <3>1 DEF TryStages
      <4>3. code' \notin {0, 3, 4, 8} /\ ~(code' # -1)
        BY <3>1, <4>1
      <4> QED
        BY <4>1, <4>2, <4>3 DEF ExitExplained
    <3>8. /\ ~(stage' = "chrome" /\ flags'.agent) /\ ~(stage' = "ext" /\ flags'.ext)
          /\ stage' \notin {"endpoint", "serve"}
      BY <1>1, <2>1, <2>2, <3>1 DEF TryStages
    <3>9. /\ code' = -1 <=> stage' \in Stages
          /\ flags'.lists # {"countries", "proxies"}
          /\ stage' \in {"countries", "proxies"} => stage' \in flags'.lists
      BY <1>1, <3>1, <3>7 DEF StageInv
    <3> QED
      BY <3>4, <3>5, <3>6, <3>7, <3>8, <3>9 DEF StageInv
  <2>4. CASE ListedAndReturned
    <3>1. LeavesStage
      BY <1>0, <1>1, <2>2, <2>4 DEF LeavesStage, ListedAndReturned
    <3>2. Returns
      BY <1>1, <2>4 DEF Returns, ListedAndReturned, TryStages
    <3> QED
      BY <3>1, <3>2, ReturnKeepsStage
  <2>5. ASSUME NEW t, SucceededTo(t) PROVE LeavesStage
    BY <1>0, <1>1, <2>2, <2>5 DEF LeavesStage, SucceededTo
  <2>6. CASE s = "chrome" /\ SucceededTo("ext")
    <3>1. Advances("ext")
      BY <1>1, <2>2, <2>6 DEF Advances, SucceededTo, AheadOf, Stages, TryStages
    <3> QED
      BY <2>5, <2>6, <3>1, AdvanceKeepsStage
  <2>7. CASE s = "ext" /\ SucceededTo(AfterExt)
    <3>1. Advances(AfterExt)
      BY <1>1, <2>2, <2>7 DEF Advances, SucceededTo, AheadOf, AfterExt, Stages, TryStages
    <3> QED
      BY <2>5, <2>7, <3>1, AdvanceKeepsStage
  <2>8. CASE s = "cred" /\ SucceededTo("endpoint")
    <3>1. Advances("endpoint")
      BY <1>1, <2>2, <2>8 DEF Advances, SucceededTo, AheadOf, Stages, TryStages
    <3> QED
      BY <2>5, <2>8, <3>1, AdvanceKeepsStage
  <2> QED
    BY <2>1, <2>3, <2>4, <2>6, <2>7, <2>8
<1> QED
  BY <1>2, <1>3

LEMMA RestKeepsStage ==
  ASSUME ControlType, StageInv, Serve \/ LogLoop \/ BeginClose \/ Exit \/ UNCHANGED vars
  PROVE  StageInv'
<1>1. CASE ServerTerminates
  <2>1. stage = "serve" /\ UNCHANGED <<flags, calls, ok>>
    BY <1>1 DEF ServerTerminates, history
  <2>2. LeavesStage
    BY <1>1, <2>1, RestKeepsControl DEF LeavesStage, Serve, Stages
  <2>3. Returns
    BY <1>1, <2>1 DEF ServerTerminates, Returns, Abort, Return, Goto
  <2> QED
    BY <2>2, <2>3, ReturnKeepsStage
<1>2. CASE ServeRequest \/ Rotate \/ LogLoop \/ UNCHANGED vars
  <2>1. UNCHANGED <<flags, stage, attempt, server, code, at, calls, ok>>
    BY <1>2 DEF ServeRequest, Rotate, LogLoop, vars, settings, history
  <2>2. ExitExplained'
    BY <2>1 DEF StageInv, ExitExplained
  <2>3. AheadOf(stage') = AheadOf(stage) /\ Current' = Current
    BY <2>1 DEF Current
  <2> QED
    BY <2>1, <2>2, <2>3 DEF StageInv
<1>3. CASE BeginClose \/ Exit
  <2>1. /\ UNCHANGED <<flags, server, code, at, calls, ok>>
        /\ stage \in {"closing", "flushing"} /\ stage' \in {"flushing", "exited"}
    BY <1>3 DEF BeginClose, Exit, Goto, settings, history
  <2>2. AheadOf(stage)' = {} /\ stage \notin Stages /\ stage' \notin Stages
    BY <2>1, AheadOfStage DEF Stages, TryStages
  <2>3. stage' \notin TryStages \cup {"chrome", "ext", "endpoint", "serve"}
    BY <2>1 DEF TryStages
  <2>4. code # -1 /\ Current = at /\ Current' = at
    BY <2>1, <2>2 DEF StageInv, Current
  <2>5. ExitExplained'
    BY <2>1, <2>3 DEF StageInv, ExitExplained
  <2> QED
    BY <2>1, <2>2, <2>3, <2>4, <2>5 DEF StageInv, TryStages
<1> QED
  BY <1>1, <1>2, <1>3 DEF Serve

-----------------------------------------------------------------------------
(* What is dialled, and with which settings.                               *)

\* Before -proxy is looked at, and after the versions are known.
BeforeBase == {"args", "ca", "base"}
AfterDiscovery == {"proxies", "resolver", "cred", "endpoint", "serve"}

\* How everything but a resolver is to be dialled.
Means == IF flags.base THEN "base" ELSE "direct"

Discovered == IF flags.agent THEN {"given"} ELSE {"discovered", "versionless"}

\* What run() has settled by the time it reaches a stage.
Settled ==
  /\ stage \in BeforeBase => dialer = "direct" /\ baseDialer = "direct"
  /\ stage \in Stages \ BeforeBase => dialer = Means /\ baseDialer = Means
  /\ stage \in AfterDiscovery \cup {"ext"} => userAgent \in Discovered
  /\ flags.ext => extVer = "given"
  /\ stage \in AfterDiscovery => extVer # ""

SettingsInv == SettingsType /\ Settled /\ ServesConfigured

\* What goes out is added to the record, and nothing else.
LEMMA SendsEffect ==
  ASSUME SettingsType, NEW by \in TryStages \cup {"request", "rescue"},
         NEW via \in {"direct", "base"}, Sends(by, via)
  PROVE  /\ sent' \subseteq [by : TryStages \cup {"request", "rescue"}, via : {"direct", "base"},
                             userAgent : UserAgents, extVer : ExtVers]
         /\ \A o \in sent' : \/ o \in sent
                             \/ /\ o.by = by /\ o.via = via
                                /\ o.userAgent = userAgent /\ o.extVer = extVer
BY DEF Sends, SettingsType

\* A transaction about tunnels comes after the discovery, and whatever is
\* dialled after -proxy was looked at goes through its dialer.
LEMMA SendsConfigured ==
  ASSUME SettingsInv, stage \in Stages \ BeforeBase, flags' = flags,
         NEW by \in TryStages \cup {"request", "rescue"},
         NEW via \in {"direct", "base"}, Sends(by, via),
         by \in {"proxies", "cred"} => stage \in AfterDiscovery,
         by # "rescue" => via \in {dialer, baseDialer}
  PROVE  ServesConfigured'
<1> SUFFICES ASSUME NEW o \in sent'
             PROVE  /\ o.by \in {"proxies", "cred"} =>
                         /\ o.userAgent \in Discovered
                         /\ o.extVer # "" /\ (flags.ext => o.extVer = "given")
                    /\ o.by # "rescue" => o.via = Means
  BY DEF ServesConfigured, Discovered, Means
<1>1. CASE o \in sent
  BY <1>1 DEF SettingsInv, ServesConfigured, Discovered, Means
<1>2. CASE o.by = by /\ o.via = via /\ o.userAgent = userAgent /\ o.extVer = extVer
  BY <1>2 DEF SettingsInv, Settled
<1> QED
  BY <1>1, <1>2, SendsEffect DEF SettingsInv

\* A step that sends nothing and does not touch the flags.
LEMMA QuietKeepsConfigured ==
  ASSUME ServesConfigured, UNCHANGED <<flags, sent>> PROVE ServesConfigured'
BY DEF ServesConfigured

\* Once run() has returned, only -ext-ver is still asked for.
LEMMA LeavingKeepsSettled ==
  ASSUME Settled, stage' \in {"closing", "flushing", "exited"}, UNCHANGED <<flags, extVer>>
  PROVE  Settled'
BY DEF Settled, Stages, TryStages, BeforeBase, AfterDiscovery

LEMMA StayingKeepsSettled ==
  ASSUME Settled, UNCHANGED <<flags, stage, userAgent, extVer, dialer, baseDialer>>
  PROVE  Settled'
BY DEF Settled, Means, Discovered

LEMMA SetupKeepsSettings == SettingsInv /\ Setup => SettingsInv'
<1> SUFFICES ASSUME SettingsInv, Setup PROVE SettingsInv'
  OBVIOUS
<1>1. UNCHANGED <<flags, sent>>
  BY DEF Setup, ParseArgs, LoadCA, BaseProxy, UserAgentGiven, ExtVerGiven, MakeResolver,
         GetEndpoint, history
<1> USE DEF SettingsInv, Goto, Proceed, Return, ExitNow, Abort, settings
<1>2. SettingsType'
  <2> USE DEF SettingsType, UserAgents, ExtVers
  <2>1. CASE ParseArgs \/ LoadCA \/ ExtVerGiven
    BY <1>1, <2>1 DEF ParseArgs, LoadCA, ExtVerGiven
  <2>2. CASE BaseProxy
    BY <1>1, <2>2 DEF BaseProxy, UpdateHolaDialer
  <2>3. CASE UserAgentGiven
    BY <1>1, <2>3 DEF UserAgentGiven
  <2>4. CASE MakeResolver
    BY <1>1, <2>4 DEF MakeResolver
  <2>5. CASE GetEndpoint
    BY <1>1, <2>5 DEF GetEndpoint
  <2> QED
    BY <2>1, <2>2, <2>3, <2>4, <2>5 DEF Setup
<1>3. Settled'
  <2>1. CASE stage' \in {"closing", "exited"}
    <3>1. UNCHANGED extVer
      BY DEF Setup, ParseArgs, LoadCA, BaseProxy, UserAgentGiven, ExtVerGiven, MakeResolver,
             GetEndpoint
    <3> QED
      BY <1>1, <2>1, <3>1, LeavingKeepsSettled
  <2>2. CASE stage' \notin {"closing", "exited"}
    <3> USE DEF Settled, Stages, TryStages, BeforeBase, AfterDiscovery, Means, Discovered
    <3>1. CASE ParseArgs
      BY <1>1, <2>2, <3>1 DEF ParseArgs
    <3>2. CASE LoadCA
      BY <1>1, <2>2, <3>2 DEF LoadCA
    <3>3. CASE BaseProxy
      BY <1>1, <2>2, <3>3 DEF BaseProxy, UpdateHolaDialer, AfterBase
    <3>4. CASE UserAgentGiven
      BY <1>1, <2>2, <3>4 DEF UserAgentGiven
    <3>5. CASE ExtVerGiven
      BY <1>1, <2>2, <3>5 DEF ExtVerGiven, AfterExt
    <3>6. CASE MakeResolver
      BY <1>1, <2>2, <3>6 DEF MakeResolver
    <3>7. CASE GetEndpoint
      BY <1>1, <2>2, <3>7 DEF GetEndpoint
    <3> QED
      BY <3>1, <3>2, <3>3, <3>4, <3>5, <3>6, <3>7 DEF Setup
  <2> QED
    BY <2>1, <2>2
<1> QED
  BY <1>1, <1>2, <1>3, QuietKeepsConfigured

\* What a network stage does to the settings, whatever comes of it.
KeepsStage == UNCHANGED <<stage, settings>>
Leaves     == stage' = "closing" /\ UNCHANGED settings
AgentFound == /\ stage = "chrome" /\ ~flags.agent /\ stage' = "ext"
              /\ userAgent' \in {"discovered", "versionless"}
              /\ UNCHANGED <<extVer, dialer, baseDialer, server>>
ExtFound   == /\ stage = "ext" /\ ~flags.ext /\ stage' = AfterExt
              /\ extVer' \in ExtVers \ {""}
              /\ UNCHANGED <<userAgent, dialer, baseDialer, server>>
HasTunnels == stage = "cred" /\ stage' = "endpoint" /\ UNCHANGED settings

LEMMA NetworkSettings ==
  ASSUME Network, ~GiveUp
  PROVE  /\ stage \in TryStages /\ flags' = flags
         /\ \E via \in {dialer, baseDialer} : Sends(stage, via)
         /\ KeepsStage \/ Leaves \/ AgentFound \/ ExtFound \/ HasTunnels
<1> USE DEF KeepsStage, Leaves, AgentFound, ExtFound, HasTunnels, TryStages, Goto, Proceed,
            Return, Fails, settings
<1>1. CASE ListCountries
  BY <1>1 DEF ListCountries, Try
<1>2. CASE DiscoverUserAgent
  BY <1>2 DEF DiscoverUserAgent, Try
<1>3. CASE DiscoverExtVer
  <2>1. ASSUME NEW answer \in VersionAnswers, NEW ver \in GetExtVer(answer)
        PROVE  ver \in ExtVers \ {""}
    BY DEF GetExtVer, ExtVers
  <2> QED
    BY <1>3, <2>1 DEF DiscoverExtVer, Try
<1>4. CASE ListProxies
  BY <1>4 DEF ListProxies, Try
<1>5. CASE GetCredentials
  BY <1>5 DEF GetCredentials, Try
<1> QED
  BY <1>1, <1>2, <1>3, <1>4, <1>5 DEF Network

LEMMA NetworkKeepsSettings == SettingsInv /\ Network => SettingsInv'
<1> SUFFICES ASSUME SettingsInv, Network PROVE SettingsInv'
  OBVIOUS
<1>1. CASE GiveUp
  <2>1. UNCHANGED <<flags, sent, settings>> /\ stage' = "closing"
    BY <1>1 DEF GiveUp, Abort, Return, Goto, history
  <2>2. UNCHANGED <<flags, sent, userAgent, extVer, dialer, baseDialer, server>>
    BY <2>1 DEF settings
  <2> QED
    BY <2>1, <2>2, LeavingKeepsSettled, QuietKeepsConfigured DEF SettingsInv, SettingsType
<1>2. CASE ~GiveUp
  <2>1. /\ stage \in TryStages /\ flags' = flags
        /\ KeepsStage \/ Leaves \/ AgentFound \/ ExtFound \/ HasTunnels
    BY <1>2, NetworkSettings
  <2>2. PICK via \in {dialer, baseDialer} : Sends(stage, via)
    BY <1>2, NetworkSettings
  <2>3. via \in {"direct", "base"}
    BY DEF SettingsInv, SettingsType
  <2>4. stage \in Stages \ BeforeBase /\ (stage \in {"proxies", "cred"} => stage \in AfterDiscovery)
    BY <2>1 DEF Stages, TryStages, BeforeBase, AfterDiscovery
  <2>5. ServesConfigured'
    BY <2>1, <2>2, <2>3, <2>4, SendsConfigured
  <2>6. sent' \subseteq [by : TryStages \cup {"request", "rescue"}, via : {"direct", "base"},
                         userAgent : UserAgents, extVer : ExtVers]
    BY <2>1, <2>2, <2>3, SendsEffect DEF SettingsInv
  <2> USE DEF SettingsInv
  <2>7. CASE KeepsStage
    BY <2>1, <2>5, <2>6, <2>7, StayingKeepsSettled DEF KeepsStage, settings, SettingsType
  <2>8. CASE Leaves
    BY <2>1, <2>5, <2>6, <2>8, LeavingKeepsSettled DEF Leaves, settings, SettingsType
  <2>9. CASE AgentFound
    <3>1. SettingsType'
      BY <2>6, <2>9 DEF AgentFound, SettingsType, UserAgents
    <3>2. Settled'
      BY <2>1, <2>4, <2>9 DEF AgentFound, Settled, Stages, TryStages, BeforeBase,
                              AfterDiscovery, Means, Discovered
    <3> QED
      BY <2>5, <3>1, <3>2
  <2>10. CASE ExtFound
    <3>1. SettingsType'
      BY <2>6, <2>10 DEF ExtFound, SettingsType
    <3>2. Settled'
      BY <2>1, <2>4, <2>10 DEF ExtFound, AfterExt, Settled, Stages, TryStages, BeforeBase,
                              AfterDiscovery, Means, Discovered
    <3> QED
      BY <2>5, <3>1, <3>2
  <2>11. CASE HasTunnels
    <3>1. SettingsType'
      BY <2>6, <2>11 DEF HasTunnels, settings, SettingsType
    <3>2. Settled'
      BY <2>1, <2>4, <2>11 DEF HasTunnels, settings, Settled, Stages, TryStages, BeforeBase,
                              AfterDiscovery, Means, Discovered
    <3> QED
      BY <2>5, <3>1, <3>2
  <2> QED
    BY <2>1, <2>7, <2>8, <2>9, <2>10, <2>11
<1> QED
  BY <1>1, <1>2

LEMMA RestKeepsSettings ==
  ASSUME SettingsInv, Serve \/ LogLoop \/ BeginClose \/ Exit \/ UNCHANGED vars
  PROVE  SettingsInv'
<1>1. CASE ServeRequest \/ Rotate
  <2>1. /\ UNCHANGED <<flags, stage, userAgent, extVer, dialer, baseDialer, server>>
        /\ stage = "serve"
    BY <1>1 DEF ServeRequest, Rotate, settings
  <2>2. PICK by \in {"request", "rescue", "cred"}, via \in {dialer, baseDialer, "direct"} :
          Sends(by, via) /\ (by # "rescue" => via \in {dialer, baseDialer})
    BY <1>1 DEF ServeRequest, Rotate
  <2>3. /\ via \in {"direct", "base"} /\ by \in TryStages \cup {"request", "rescue"}
        /\ stage \in Stages \ BeforeBase /\ stage \in AfterDiscovery
    BY <2>1 DEF SettingsInv, SettingsType, TryStages, Stages, BeforeBase, AfterDiscovery
  <2>4. ServesConfigured'
    BY <2>1, <2>2, <2>3, SendsConfigured
  <2>5. SettingsType'
    BY <2>1, <2>2, <2>3, SendsEffect DEF SettingsInv, SettingsType
  <2>6. Settled'
    BY <2>1, StayingKeepsSettled DEF SettingsInv
  <2> QED
    BY <2>4, <2>5, <2>6 DEF SettingsInv
<1>2. CASE ~(ServeRequest \/ Rotate)
  <2>1. /\ UNCHANGED <<flags, userAgent, extVer, dialer, baseDialer, server, sent>>
        /\ stage' \in {stage, "closing", "flushing", "exited"}
    BY <1>2 DEF Serve, ServerTerminates, Abort, Return, Goto, LogLoop, BeginClose, Exit, vars,
                settings, history
  <2>2. Settled'
    <3>1. CASE stage' = stage
      BY <2>1, <3>1, StayingKeepsSettled DEF SettingsInv
    <3>2. CASE stage' # stage
      BY <2>1, <3>2, LeavingKeepsSettled DEF SettingsInv
    <3> QED
      BY <3>1, <3>2
  <2> QED
    BY <2>1, <2>2, QuietKeepsConfigured DEF SettingsInv, SettingsType
<1> QED
  BY <1>1, <1>2

-----------------------------------------------------------------------------
(* Why the process ended.                                                  *)

Reported(log) == \E n \in DOMAIN log : log[n] = at

\* The reason for the end was given to the log, or the log did not want it.
ReasonGiven == Reported(accepted) \/ refused > 0 \/ flags.verbosity > LevelOf(at)

\* The log stays open as long as run() does, and nothing is logged once its
\* Close has begun, so that Close waits for all that was accepted.
ReasonInv ==
  /\ stage \in Stages \cup {"closing"} => ~due.closing
  /\ stage = "flushing" => due.closing /\ due.upto = Len(accepted)
  /\ stage = "exited" /\ at # "args" => close # "no" /\ due.upto = Len(accepted)
  /\ stage \notin Stages /\ at # "args" /\ (code # 0 \/ at = "serve") => ReasonGiven

\* How run() goes on: it stays or enters another stage, ends before it has a
\* log, or returns, with a reason unless it did what was asked for.
GoesOn ==
  /\ due' = due
  /\ \/ stage' \in Stages
     \/ stage' = "exited" /\ at' = "args"
     \/ stage' = "closing" /\ code' = 0 /\ at' # "serve"
     \/ stage' = "closing" /\ ReasonGiven'

LEMMA LogsKeepsOpen ==
  ASSUME NEW verb, NEW m, Logs(verb, m) PROVE due' = due
BY DEF Logs, Log!Accept, Log!Refuse, logVars

LEMMA AbortGivesReason ==
  ASSUME ControlType, LogInv, stage \in Stages, flags' = flags, NEW c, Abort(c)
  PROVE  GoesOn
<1>1. stage' = "closing" /\ at' = stage /\ Logs(LevelOf(stage), stage)
  BY DEF Abort, Return, Goto
<1>2. due' = due
  BY <1>1, LogsKeepsOpen
<1>3. CASE LevelOf(stage) >= flags.verbosity
  <2>1. CASE Log!Accept(stage)
    <3>1. accepted' = Append(accepted, stage) /\ accepted \in Seq(Messages) /\ stage \in Messages
      BY <2>1 DEF Log!Accept, LogInv, Messages
    <3>2. accepted'[Len(accepted) + 1] = at' /\ Len(accepted) + 1 \in DOMAIN accepted'
      BY <1>1, <3>1
    <3> QED
      BY <1>1, <1>2, <3>2 DEF GoesOn, ReasonGiven, Reported
  <2>2. CASE Log!Refuse
    <3>1. refused' > 0
      BY <2>2 DEF Log!Refuse, LogInv
    <3> QED
      BY <1>1, <1>2, <3>1 DEF GoesOn, ReasonGiven
  <2> QED
    BY <1>1, <1>3, <2>1, <2>2 DEF Logs
<1>4. CASE ~(LevelOf(stage) >= flags.verbosity)
  <2>1. flags'.verbosity > LevelOf(at)'
    <3>1. LevelOf(stage) \in Int /\ flags.verbosity \in Int
      BY FlagsTyped DEF LevelOf, Error, Critical
    <3> QED
      BY <1>1, <1>4, <3>1 DEF LevelOf
  <2> QED
    BY <1>1, <1>2, <2>1 DEF GoesOn, ReasonGiven
<1> QED
  BY <1>3, <1>4

LEMMA SetupGoesOn == ControlType /\ LogInv /\ Setup => stage \in Stages /\ GoesOn
<1> SUFFICES ASSUME ControlType, LogInv, Setup PROVE stage \in Stages /\ GoesOn
  OBVIOUS
<1>1. stage \in Stages
  BY DEF Setup, ParseArgs, LoadCA, BaseProxy, UserAgentGiven, ExtVerGiven, MakeResolver,
         GetEndpoint, Stages, TryStages
<1>2. ASSUME UNCHANGED logVars, NEW t \in Stages, Proceed(t) PROVE GoesOn
  BY <1>2 DEF GoesOn, Proceed, Goto, logVars
<1>3. CASE ParseArgs
  BY <1>2, <1>3 DEF ParseArgs, GoesOn, ExitNow, Proceed, Goto, logVars, Stages
<1>4. CASE LoadCA
  BY <1>1, <1>2, <1>4, AbortGivesReason DEF LoadCA, Stages
<1>5. CASE BaseProxy
  BY <1>1, <1>2, <1>5, AbortGivesReason DEF BaseProxy, AfterBase, Stages, TryStages
<1>6. CASE UserAgentGiven \/ ExtVerGiven
  BY <1>2, <1>6 DEF UserAgentGiven, ExtVerGiven, AfterExt, Stages, TryStages
<1>7. CASE MakeResolver
  BY <1>1, <1>2, <1>7, AbortGivesReason DEF MakeResolver, Stages, TryStages
<1>8. CASE GetEndpoint
  BY <1>1, <1>2, <1>8, AbortGivesReason DEF GetEndpoint, Stages
<1> QED
  BY <1>1, <1>3, <1>4, <1>5, <1>6, <1>7, <1>8 DEF Setup

LEMMA NetworkGoesOn == ControlType /\ LogInv /\ Network => stage \in Stages /\ GoesOn
<1> SUFFICES ASSUME ControlType, LogInv, Network PROVE stage \in Stages /\ GoesOn
  OBVIOUS
<1>1. stage \in Stages
  BY DEF Network, GiveUp, ListCountries, ListProxies, DiscoverUserAgent, DiscoverExtVer,
         GetCredentials, Try, Stages, TryStages
<1>2. CASE GiveUp
  BY <1>1, <1>2, AbortGivesReason DEF GiveUp
<1>3. CASE ~GiveUp
  <2>1. PICK s \in TryStages, via \in {dialer, baseDialer} :
           /\ Try(s, via)
           /\ ~(s = "chrome" /\ flags.agent) /\ ~(s = "ext" /\ flags.ext)
           /\ \/ FailedAttempt
              \/ ListedAndReturned
              \/ s = "chrome" /\ SucceededTo("ext")
              \/ s = "ext" /\ SucceededTo(AfterExt)
              \/ s = "cred" /\ SucceededTo("endpoint")
    BY <1>3, NetworkEffect
  <2>2. due' = due
    BY <2>1, LogsKeepsOpen DEF Try
  <2> QED
    BY <1>1, <2>1, <2>2 DEF GoesOn, FailedAttempt, ListedAndReturned, SucceededTo, AfterExt,
                            Stages, TryStages
<1> QED
  BY <1>1, <1>2, <1>3

LEMMA GoingOnKeepsReason == stage \in Stages /\ GoesOn /\ ReasonInv => ReasonInv'
BY DEF GoesOn, ReasonInv, Stages, TryStages

LEMMA StepKeepsReason ==
  ASSUME ControlType, LogInv, LogInv', ReasonInv, [Next]_vars
  PROVE  ReasonInv'
<1>1. CASE Setup \/ Network
  BY <1>1, SetupGoesOn, NetworkGoesOn, GoingOnKeepsReason
<1>2. CASE ServerTerminates
  <2>1. stage \in Stages /\ flags' = flags /\ Abort(0)
    BY <1>2 DEF ServerTerminates, Stages
  <2> QED
    BY <2>1, AbortGivesReason, GoingOnKeepsReason
<1>3. CASE ServeRequest \/ Rotate \/ LogLoop \/ UNCHANGED vars
  <2>1. UNCHANGED <<flags, stage, code, at, accepted, refused, due, close>>
    BY <1>3 DEF ServeRequest, Rotate, LogLoop, Log!Output, vars, logVars, settings, history
  <2>2. ReasonGiven' = ReasonGiven
    BY <2>1 DEF ReasonGiven, Reported, LevelOf
  <2> QED
    BY <2>1, <2>2 DEF ReasonInv
<1>4. CASE BeginClose \/ Exit
  <2>1. /\ UNCHANGED <<flags, code, at, accepted, refused>>
        /\ \/ stage = "closing" /\ stage' = "flushing"
              /\ due' = [closing |-> TRUE, upto |-> Len(accepted)]
           \/ stage = "flushing" /\ stage' = "exited" /\ close' # "no" /\ due' = due
    BY <1>4 DEF BeginClose, Exit, CloseReturns, Goto, Log!BeginClose, Log!EndClose
  <2>2. ReasonGiven' = ReasonGiven
    BY <2>1 DEF ReasonGiven, Reported, LevelOf
  <2>3. stage \notin Stages /\ stage' \notin Stages \cup {"closing"}
    BY <2>1 DEF Stages, TryStages
  <2> QED
    BY <2>1, <2>2, <2>3 DEF ReasonInv
<1> QED
  BY <1>1, <1>2, <1>3, <1>4 DEF Next, Serve

-----------------------------------------------------------------------------
(* The theorems.                                                           *)

ProcessInv == ControlType /\ StageInv /\ SettingsInv /\ LogInv /\ ReasonInv

LEMMA ProcessInvHolds == Spec => []ProcessInv
<1>1. Init => ControlType /\ StageInv /\ SettingsInv /\ ReasonInv
  <2> SUFFICES ASSUME Init PROVE ControlType /\ StageInv /\ SettingsInv /\ ReasonInv
    OBVIOUS
  <2>1. ControlType
    BY DEF Init, ControlType, Stages, TryStages
  <2>2. StageInv
    <3>1. /\ stage = "args" /\ code = -1 /\ ok = {}
          /\ \A s \in TryStages : calls[s] = 0 /\ s # "args"
      BY DEF Init, TryStages
    <3>2. stage \in Stages /\ AheadOf(stage) \subseteq TryStages
      BY <3>1, AheadOfStage DEF Stages
    <3>3. ExitExplained
      <4>1. code \notin {0, 3, 4, 8} /\ ~(code # -1)
        BY <3>1
      <4> QED
        BY <3>1, <4>1 DEF ExitExplained
    <3>4. \A s \in AheadOf(stage) : s \notin ok /\ calls[s] = IF s = stage THEN attempt ELSE 0
      BY <3>1, <3>2
    <3>5. \A s \in TryStages : ~(calls[s] > 0)
      BY <3>1
    <3> QED
      BY <3>1, <3>2, <3>3, <3>4, <3>5 DEF StageInv, TryStages
  <2>3. SettingsInv
    BY DEF Init, SettingsInv, SettingsType, Settled, ServesConfigured, NoServer, UserAgents,
           ExtVers, BeforeBase, AfterDiscovery, Stages, TryStages
  <2>4. ReasonInv
    BY DEF Init, Log!Init, Log!NotClosing, ReasonInv, Stages, TryStages
  <2> QED
    BY <2>1, <2>2, <2>3, <2>4
<1>2. /\ ControlType /\ StageInv /\ SettingsInv /\ LogInv /\ LogInv' /\ ReasonInv /\ [Next]_vars
      => ControlType' /\ StageInv' /\ SettingsInv' /\ ReasonInv'
  <2> SUFFICES ASSUME ControlType, StageInv, SettingsInv, LogInv, LogInv', ReasonInv, [Next]_vars
               PROVE  ControlType' /\ StageInv' /\ SettingsInv' /\ ReasonInv'
    OBVIOUS
  <2>1. ReasonInv'
    BY StepKeepsReason
  <2>2. SettingsType
    BY DEF SettingsInv
  <2>3. CASE Setup
    BY <2>1, <2>2, <2>3, SetupKeepsControl, SetupKeepsStage, SetupKeepsSettings
  <2>4. CASE Network
    BY <2>1, <2>4, NetworkKeepsControl, NetworkKeepsStage, NetworkKeepsSettings
  <2>5. CASE Serve \/ LogLoop \/ BeginClose \/ Exit \/ UNCHANGED vars
    BY <2>1, <2>5, RestKeepsControl, RestKeepsStage, RestKeepsSettings
  <2> QED
    BY <2>3, <2>4, <2>5 DEF Next
<1>3. Spec => []LogInv
  BY StartupUsesLossyLog, LogInvHolds
<1> QED
  BY <1>1, <1>2, <1>3, PTL DEF Spec, ProcessInv

\* The type invariant of the process: TypeOK holds in every run of run().
THEOREM StartupTypeCorrect == Spec => []TypeOK
<1>1. ProcessInv => TypeOK
  BY DEF ProcessInv, TypeOK, ControlType, SettingsInv, SettingsType, LogInv
<1> QED
  BY <1>1, ProcessInvHolds, PTL

\* An exit code of run() tells what happened: see ExitExplained.
THEOREM StartupExitExplained == Spec => []ExitExplained
<1>1. ProcessInv => ExitExplained
  BY DEF ProcessInv, StageInv
<1> QED
  BY <1>1, ProcessInvHolds, PTL

\* Whatever is dialled goes where -proxy says, and what asks for tunnels
\* carries the settings that were given or discovered: see ServesConfigured.
THEOREM StartupServesConfigured == Spec => []ServesConfigured
<1>1. ProcessInv => ServesConfigured
  BY DEF ProcessInv, SettingsInv
<1> QED
  BY <1>1, ProcessInvHolds, PTL

\* The reason for an error is on the output when the process has ended,
\* unless the log was full, hidden by -verbosity or stuck: see ReasonReported.
THEOREM StartupReasonReported == Spec => []ReasonReported
<1>1. ProcessInv => ReasonReported
  <2> SUFFICES ASSUME ProcessInv, stage = "exited", at # "args", code # 0 \/ at = "serve"
               PROVE  /\ Reported(accepted) \/ refused > 0 \/ flags.verbosity > LevelOf(at)
                      /\ Reported(accepted) => Reported(written) \/ close = "timeout"
    BY DEF ReasonReported, Reported
  <2>1. stage \notin Stages
    BY DEF Stages, TryStages
  <2>2. ReasonGiven /\ close # "no" /\ due.upto = Len(accepted)
    BY <2>1 DEF ProcessInv, ReasonInv
  <2>3. ASSUME close = "flushed", Reported(accepted) PROVE Reported(written)
    <3>1. Len(accepted) <= Len(written)
      BY <2>2, <2>3 DEF ProcessInv, LogInv
    <3>2. /\ accepted \in Seq(Messages) /\ written \in Seq(Messages)
          /\ \A n \in 1 .. Len(written) : written[n] = accepted[n]
      BY DEF ProcessInv, LogInv
    <3>3. PICK n \in 1 .. Len(accepted) : accepted[n] = at
      BY <2>3, <3>2 DEF Reported
    <3>4. n \in 1 .. Len(written)
      BY <3>1, <3>2, <3>3
    <3> QED
      BY <3>2, <3>3, <3>4 DEF Reported
  <2>4. close \in {"no", "flushed", "timeout"}
    BY DEF ProcessInv, LogInv
  <2> QED
    BY <2>2, <2>3, <2>4 DEF ReasonGiven
<1> QED
  BY <1>1, ProcessInvHolds, PTL

\* retryPolicy with a positive -init-retries never makes more attempts, in any
\* of its stages, whatever the other stages needed.
RetriesBounded ==
  flags.retries > 0 => \A s \in TryStages : calls[s] <= flags.retries

LEMMA AttemptKeepsRetriesBounded ==
  ASSUME ControlType, StageInv, RetriesBounded, Network, ~GiveUp
  PROVE  RetriesBounded'
<1>1. PICK s \in TryStages, via \in {dialer, baseDialer} : Try(s, via)
  BY NetworkEffect
<1>2. /\ stage = s /\ AttemptsLeft /\ flags' = flags
      /\ calls'[s] = calls[s] + 1
      /\ \A r \in TryStages \ {s} : calls'[r] = calls[r]
  BY <1>1, TryEffect
<1>3. calls[s] = attempt /\ attempt \in Nat /\ flags.retries \in Int
  BY <1>1, <1>2, AheadOfStage, FlagsTyped DEF StageInv, ControlType
<1> QED
  BY <1>2, <1>3 DEF RetriesBounded, AttemptsLeft

\* The limit of -init-retries holds for every stage of run(), for any value of
\* the flag: see RetriesBounded.
THEOREM StartupRetriesBounded == Spec => []RetriesBounded
<1>1. Init => RetriesBounded
  <2> SUFFICES ASSUME Init, flags.retries > 0
               PROVE  \A s \in TryStages : calls[s] <= flags.retries
    BY DEF RetriesBounded
  <2>1. \A s \in TryStages : calls[s] = 0
    BY DEF Init
  <2>2. flags.retries \in Int
    BY StartupAssumption DEF Init
  <2> QED
    BY <2>1, <2>2
<1>2. ProcessInv /\ RetriesBounded /\ [Next]_vars => RetriesBounded'
  <2> SUFFICES ASSUME ProcessInv, RetriesBounded, [Next]_vars PROVE RetriesBounded'
    OBVIOUS
  <2>1. CASE Network /\ ~GiveUp
    BY <2>1, AttemptKeepsRetriesBounded DEF ProcessInv
  <2>2. CASE ~(Network /\ ~GiveUp)
    <3>1. UNCHANGED <<flags, calls>>
      <4>1. Setup => UNCHANGED <<flags, calls>>
        BY SetupLeavesStage DEF LeavesStage, ProcessInv
      <4>2. GiveUp => UNCHANGED <<flags, calls>>
        BY DEF GiveUp, history
      <4>3. Serve \/ LogLoop \/ BeginClose \/ Exit \/ UNCHANGED vars => UNCHANGED <<flags, calls>>
        BY DEF Serve, ServeRequest, Rotate, ServerTerminates, LogLoop, BeginClose, Exit, vars,
               history
      <4> QED
        BY <2>2, <4>1, <4>2, <4>3 DEF Next
    <3> QED
      BY <3>1 DEF RetriesBounded
  <2> QED
    BY <2>1, <2>2
<1> QED
  BY <1>1, <1>2, ProcessInvHolds, PTL DEF Spec
=============================================================================

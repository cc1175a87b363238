------------------------------- MODULE Startup -------------------------------
(***************************************************************************)
(* The life of the process: run() of main.go with its stages in their      *)
(* order, retryPolicy around those that use the network, what is handed to *)
(* the API client and to the dialers on the way, and the deferred Close of *)
(* the log, whose promise is LossyLog.                                     *)
(*                                                                         *)
(* Inside a network stage only success and failure of an attempt are told  *)
(* apart; CredService models what happens in there.                        *)
(***************************************************************************)
EXTENDS StartupFunctions, FiniteSets

CONSTANTS
  Flags,         \* the command lines, as far as several stages look at them
  BaseURLs,      \* values of -proxy
  ResolverLists, \* values of -resolver
  VersionAnswers, \* answers of the services that know versions, or none
  Responses,     \* answers of zgettunnels
  PortFlags,     \* -proxy-type, -dont-use-trial and -force-port-field
  MaxAttempts,   \* bound: attempts of a stage that retries for ever
  QLen           \* MAX_LOG_QLEN

TryStages == {"countries", "chrome", "ext", "proxies", "cred"}
Stages == TryStages \cup {"args", "ca", "base", "resolver", "endpoint", "serve"}

\* parse: what flag.Parse makes of the command line; "wrong" is a flag it does
\* not know or a value it cannot take, "help" is -h.  nonempty: neither -country
\* nor -proxy-type is the empty string.  agent and ext: -user-agent and -ext-ver
\* are given.
ASSUME StartupAssumption ==
  /\ Flags \subseteq [parse : {"fine", "wrong", "help"}, nonempty : BOOLEAN,
                      lists : SUBSET {"countries", "proxies"}, version : BOOLEAN, base : BOOLEAN,
                      agent : BOOLEAN, ext : BOOLEAN, retries : Int, verbosity : Int]
  /\ VersionAnswers \subseteq [status : Nat, decodes : BOOLEAN, version : STRING]
  /\ MaxAttempts \in Nat /\ QLen \in Nat

UserAgents == {"builtin", "given", "discovered", "versionless"}
ExtVers == {"", "given"} \cup {answer.version : answer \in VersionAnswers}

\* What goes to the log: the end of a stage by which the process ends, named
\* after the stage, and everything else.
Messages == Stages \cup {"progress"}

VARIABLES
  flags,         \* the command line
  stage,         \* what run() does: a stage, "closing", "flushing", "exited"
  attempt,       \* the loop counter of retryPolicy
  userAgent,     \* the global of holaapi.go: "builtin", "given", "discovered",
                 \* or "versionless" if it was discovered without a version
  extVer,        \* args.extVer: "", "given" or what was discovered
  dialer,        \* the dialer of run(): "direct" or "base"
  baseDialer,    \* the global of holaapi.go: the same
  server,        \* the endpoint and the resolver the server is built with
  code,          \* the exit code once run() has returned, -1 before
  at,            \* the stage in which it returned
  calls,         \* history: attempts made in each stage
  ok,            \* history: the network stages that succeeded
  sent,          \* history: what was dialled, by what means, and the settings
                 \* of the API client at that moment
  accepted, written, refused, due, close  \* the log, see LossyLog

logVars == <<accepted, written, refused, due, close>>
settings == <<userAgent, extVer, dialer, baseDialer, server>>
history == <<calls, ok, sent>>
vars == <<flags, stage, attempt, settings, code, at, history, logVars>>

Log == INSTANCE LossyLog

NoServer == [endpoint |-> Failed, resolver |-> [race |-> FALSE, upstreams |-> <<>>]]

Init ==
  /\ flags \in Flags
  /\ stage = "args" /\ attempt = 0
  /\ userAgent = "builtin" /\ extVer = (IF flags.ext THEN "given" ELSE "")
  /\ dialer = "direct" /\ baseDialer = "direct"
  /\ server = NoServer
  /\ code = -1 /\ at = "args"
  /\ calls = [s \in TryStages |-> 0] /\ ok = {} /\ sent = {}
  /\ Log!Init

-----------------------------------------------------------------------------
(* Leaving a stage.                                                        *)

Critical == 50
Error    == 40
Info     == 20

\* CondLogger.log in front of the log writer.
Logs(verb, m) ==
  IF verb >= flags.verbosity THEN Log!Accept(m) \/ Log!Refuse ELSE UNCHANGED logVars

GotoCounting(s) == stage' = s /\ UNCHANGED attempt

\* Every stage has a loop of its own around its attempts.
Goto(s) == stage' = s /\ attempt' = 0

\* A stage is done and run() goes on.
Proceed(s) == Goto(s) /\ UNCHANGED <<code, at>>

\* run() returns; the deferred Close of the log comes next.
Return(c) == Goto("closing") /\ code' = c /\ at' = stage

\* The process ends on the spot, without a log to close.
ExitNow(c) == Goto("exited") /\ code' = c /\ at' = stage

\* The level of the message that gives the reason for leaving in a stage.
LevelOf(s) == IF s = "ca" THEN Error ELSE Critical

\* run() reports why and returns.
Abort(c) == Return(c) /\ Logs(LevelOf(stage), stage)

-----------------------------------------------------------------------------
(* The stages without the network.                                         *)

\* A command line that flag.Parse or parse_args refuses.  -h is answered by
\* flag.Parse, before the checks of parse_args.
Refused ==
  \/ flags.parse = "wrong"
  \/ flags.parse = "fine" /\ (~flags.nonempty \/ Cardinality(flags.lists) = 2)

\* parse_args, which ends the process itself, and the flag -version.
ParseArgs ==
  /\ stage = "args"
  /\ IF Refused THEN ExitNow(2)
     ELSE IF flags.parse = "help" \/ flags.version THEN ExitNow(0) ELSE Proceed("ca")
  /\ UNCHANGED <<flags, settings, history, logVars>>

\* No -cafile or a good one, one that cannot be read, one without certificates.
LoadCA ==
  /\ stage = "ca"
  /\ \/ Proceed("base") /\ UNCHANGED logVars
     \/ Abort(15)
  /\ UNCHANGED <<flags, settings, history>>

\* xproxy.FromURL knows SOCKS and asks ProxyDialerFromURL about the rest.
CanDial(url) == url.scheme \in {"socks5", "socks5h"} \/ ProxyDialerFromURL(url) # {}

NoHolaDialer == UNCHANGED baseDialer

UpdateHolaDialer == baseDialer' = "base"

AfterBase == IF "countries" \in flags.lists THEN "countries" ELSE "chrome"

BaseProxy ==
  /\ stage = "base"
  /\ IF ~flags.base
     THEN Proceed(AfterBase) /\ UNCHANGED <<dialer, baseDialer, logVars>>
     ELSE \E url \in BaseURLs :
       \/ ~url.parses /\ Abort(6) /\ UNCHANGED <<dialer, baseDialer>>
       \/ url.parses /\ ~CanDial(url) /\ Abort(7) /\ UNCHANGED <<dialer, baseDialer>>
       \/ /\ url.parses /\ CanDial(url)
          /\ dialer' = "base" /\ UpdateHolaDialer
          /\ Proceed(AfterBase)
          /\ UNCHANGED logVars
  /\ UNCHANGED <<flags, userAgent, extVer, server, history>>

\* -user-agent and -ext-ver take the place of a discovery.
UserAgentGiven ==
  /\ stage = "chrome" /\ flags.agent
  /\ userAgent' = "given"
  /\ Proceed("ext")
  /\ UNCHANGED <<flags, extVer, dialer, baseDialer, server, history, logVars>>

AfterExt == IF "proxies" \in flags.lists THEN "proxies" ELSE "resolver"

ExtVerGiven ==
  /\ stage = "ext" /\ flags.ext
  /\ Proceed(AfterExt)
  /\ UNCHANGED <<flags, settings, history, logVars>>

MakeResolver ==
  /\ stage = "resolver"
  /\ \E urls \in ResolverLists :
       \/ /\ FastResolverFromURLs(urls) = {}
          /\ Abort(6)
          /\ UNCHANGED server
       \/ /\ \E r \in FastResolverFromURLs(urls) : server' = [server EXCEPT !.resolver = r]
          /\ Proceed("cred")
          /\ UNCHANGED logVars
  /\ UNCHANGED <<flags, userAgent, extVer, dialer, baseDialer, history>>

\* The endpoint is taken from the tunnels of the first transaction.
GetEndpoint ==
  /\ stage = "endpoint"
  /\ \E tunnels \in Responses, pf \in PortFlags :
       \E e \in get_endpoint(tunnels, pf.typ, pf.trial, pf.force) :
         \/ e = Failed /\ Abort(5) /\ UNCHANGED server
         \/ /\ e # Failed
            /\ server' = [server EXCEPT !.endpoint = e]
            /\ Proceed("serve")
            /\ UNCHANGED logVars
  /\ UNCHANGED <<flags, userAgent, extVer, dialer, baseDialer, history>>

-----------------------------------------------------------------------------
(* The stages with the network, each under retryPolicy.                    *)

AttemptsLeft == flags.retries <= 0 \/ attempt < flags.retries

Sends(by, via) ==
  sent' = sent \cup {[by |-> by, via |-> via, userAgent |-> userAgent, extVer |-> extVer]}

\* One round of the loop; its messages count as one, whatever comes of it.
Try(s, via) ==
  /\ stage = s
  /\ AttemptsLeft
  /\ calls[s] < MaxAttempts
  /\ calls' = [calls EXCEPT ![s] = @ + 1]
  /\ Sends(s, via)
  /\ Logs(Info, "progress")
  /\ UNCHANGED flags

Fails == /\ attempt' = attempt + 1
         /\ UNCHANGED <<stage, code, at, settings, ok>>

Succeeds(s) == ok' = ok \cup {s}

\* All attempts of a stage have failed.
GiveUpCode(s) == IF s \in {"countries", "proxies"} THEN 3 ELSE IF s = "cred" THEN 4 ELSE 8

GiveUp ==
  /\ stage \in TryStages
  /\ ~AttemptsLeft
  /\ Abort(GiveUpCode(stage))
  /\ UNCHANGED <<flags, settings, history>>

\* print_countries and print_proxies: the lists go to the standard output.
ListCountries ==
  /\ Try("countries", baseDialer)
  /\ \/ Fails
     \/ Succeeds("countries") /\ Return(0) /\ UNCHANGED settings

ListProxies ==
  /\ Try("proxies", baseDialer)
  /\ \/ Fails
     \/ Succeeds("proxies") /\ Return(0) /\ UNCHANGED settings

\* GetChromeVer and SetUserAgent.
DiscoverUserAgent ==
  /\ ~flags.agent
  /\ Try("chrome", dialer)
  /\ \E answer \in VersionAnswers :
       \/ GetChromeVer(answer) = {} /\ Fails
       \/ \E ver \in GetChromeVer(answer) :
            /\ userAgent' = IF ver = "" THEN "versionless" ELSE "discovered"
            /\ Succeeds("chrome")
            /\ Proceed("ext")
            /\ UNCHANGED <<extVer, dialer, baseDialer, server>>

\* GetExtVer.
DiscoverExtVer ==
  /\ ~flags.ext
  /\ Try("ext", dialer)
  /\ \E answer \in VersionAnswers :
       \/ GetExtVer(answer) = {} /\ Fails
       \/ \E ver \in GetExtVer(answer) :
            /\ extVer' = ver
            /\ Succeeds("ext")
            /\ Proceed(AfterExt)
            /\ UNCHANGED <<userAgent, dialer, baseDialer, server>>

\* CredService: the first header, or an error that counts as one attempt.
GetCredentials ==
  /\ Try("cred", baseDialer)
  /\ \/ Fails
     \/ Succeeds("cred") /\ Proceed("endpoint") /\ UNCHANGED settings

-----------------------------------------------------------------------------
(* Serving, and the end of the process.                                    *)

\* A tunnel or a plain request dials the endpoint; a rescue asks a resolver,
\* which has a dialer of its own.
ServeRequest ==
  /\ stage = "serve"
  /\ \/ Sends("request", dialer)
     \/ server.resolver.upstreams # <<>> /\ Sends("rescue", "direct")
  /\ UNCHANGED <<flags, stage, attempt, settings, code, at, calls, ok, logVars>>

\* A rotation of the credentials.
Rotate ==
  /\ stage = "serve"
  /\ Sends("cred", baseDialer)
  /\ UNCHANGED <<flags, stage, attempt, settings, code, at, calls, ok, logVars>>

\* ListenAndServe returns, always with an error.
ServerTerminates ==
  /\ stage = "serve"
  /\ Abort(0)
  /\ UNCHANGED <<flags, settings, history>>

\* The log's goroutine runs as long as the process does.
LogLoop ==
  /\ stage # "exited"
  /\ Log!Output
  /\ UNCHANGED <<flags, stage, attempt, settings, code, at, history>>

BeginClose ==
  /\ stage = "closing"
  /\ Log!BeginClose
  /\ Goto("flushing")
  /\ UNCHANGED <<flags, settings, code, at, history>>

ClosesAtOnce == close' = "flushed" /\ UNCHANGED <<accepted, written, refused, due>>

CloseReturns == Log!EndClose("flushed") \/ Log!EndClose("timeout")

\* Close returns and os.Exit ends every goroutine.
Exit ==
  /\ stage = "flushing"
  /\ CloseReturns
  /\ Goto("exited")
  /\ UNCHANGED <<flags, settings, code, at, history>>

Setup == \/ ParseArgs \/ LoadCA \/ BaseProxy \/ UserAgentGiven \/ ExtVerGiven
         \/ MakeResolver \/ GetEndpoint
Network == \/ ListCountries \/ DiscoverUserAgent \/ DiscoverExtVer \/ ListProxies
           \/ GetCredentials \/ GiveUp
Serve == ServeRequest \/ Rotate \/ ServerTerminates

Next == Setup \/ Network \/ Serve \/ LogLoop \/ BeginClose \/ Exit

Spec == Init /\ [][Next]_vars

-----------------------------------------------------------------------------
(* Properties.                                                             *)

\* The type invariant of the process.
TypeOK ==
  /\ flags \in Flags
  /\ stage \in Stages \cup {"closing", "flushing", "exited"}
  /\ attempt \in Nat
  /\ userAgent \in UserAgents /\ extVer \in ExtVers
  /\ dialer \in {"direct", "base"} /\ baseDialer \in {"direct", "base"}
  /\ code \in {-1, 0, 2, 3, 4, 5, 6, 7, 8, 15}
  /\ at \in Stages
  /\ calls \in [TryStages -> Nat]
  /\ ok \in SUBSET TryStages
  /\ sent \subseteq [by : TryStages \cup {"request", "rescue"}, via : {"direct", "base"},
                     userAgent : UserAgents, extVer : ExtVers]
  /\ accepted \in Seq(Messages) /\ written \in Seq(Messages)
  /\ refused \in Nat
  /\ due \in [closing : BOOLEAN, upto : Nat]
  /\ close \in {"no", "flushed", "timeout"}

\* What an exit code tells.  Codes 3, 4 and 8 mean that -init-retries is
\* positive and that one stage failed exactly that often, while every stage
\* tried before it succeeded; code 0 means that what was asked for was done,
\* or that the server ended, for whatever reason; and the server is only
\* ever started with credentials and an endpoint that has an address.
ExitExplained ==
  /\ code \in {3, 4, 8} =>
       /\ at \in TryStages \ ok
       /\ flags.retries > 0 /\ calls[at] = flags.retries
  /\ code # -1 => \A s \in TryStages \ {at} : calls[s] > 0 => s \in ok
  /\ code = 0 => \/ flags.parse = "help" \/ flags.version
                 \/ at = "serve" \/ (at \in ok /\ flags.lists = {at})
  /\ stage = "serve" => "cred" \in ok /\ server.endpoint.Host # ""

\* When the process has ended with an error after its log was opened, the
\* reason was reported, unless -verbosity hides it or the log refused
\* messages; and a reason that the log accepted is on the output, unless the
\* output did not take it before Close timed out.
ReasonReported ==
  LET reported(log) == \E n \in DOMAIN log : log[n] = at
  IN stage = "exited" /\ at # "args" /\ (code # 0 \/ at = "serve") =>
       /\ reported(accepted) \/ refused > 0 \/ flags.verbosity > LevelOf(at)
       /\ reported(accepted) => reported(written) \/ close = "timeout"

\* Every transaction with the API that is about tunnels carries the user
\* agent that was given or discovered before it, never the built-in one, and
\* the extension version that was given, or else discovered, never an empty one,
\* and whatever the program dials, the resolvers of the rescue excepted, goes
\* through the base proxy if there is one.
ServesConfigured ==
  \A o \in sent :
    /\ o.by \in {"proxies", "cred"} =>
         /\ o.userAgent \in IF flags.agent THEN {"given"} ELSE {"discovered", "versionless"}
         /\ o.extVer # "" /\ (flags.ext => o.extVer = "given")
    /\ o.by # "rescue" => o.via = IF flags.base THEN "base" ELSE "direct"

\* README.md:154 and main.go:148 say of -proxy that it "sets base proxy to
\* use for all dial-outs".
DialsThroughBase == flags.base => \A o \in sent : o.via = "base"
=============================================================================

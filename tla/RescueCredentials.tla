-------------------------- MODULE RescueCredentials --------------------------
(***************************************************************************)
(* A CONNECT request (Tunnel) while the credentials service, which         *)
(* CredRegister stands for, rotates the header: a rescue dials several     *)
(* times, and each dial calls auth() once it has its connection.           *)
(***************************************************************************)
EXTENDS Tunnel

CONSTANTS
  Handler,         \* the goroutine of the request
  MaxRotations     \* bound: credentials published

ASSUME RotationsAssumption == MaxRotations \in Nat

VARIABLES
  current, seen,   \* the header and what the handler read last, see CredRegister
  headers,         \* the headers sent to the upstream, oldest first
  dialled          \* history: the header that was current when the connection
                   \* of each exchange was made

registerVars == <<current, seen>>
allVars == <<vars, registerVars, headers, dialled>>

Register == INSTANCE CredRegister WITH Handlers <- {Handler}

\* The server starts with the first header in place.
InitWithHeader ==
  /\ Init
  /\ current = [login |-> 1, key |-> 1]
  /\ seen = [h \in {Handler} |-> Register!NoHeader]
  /\ headers = <<>> /\ dialled = <<>>

ReadOnce == IF headers = <<>> THEN current ELSE headers[1]

\* What a dial puts in its CONNECT request.
HeaderNow == current

\* The current exchange has its header.
Authorized == Len(headers) = Len(dialled)

\* auth(), after the connection was made and before the lazy handshake.
Authorize ==
  /\ pc = "exchange" /\ ~Authorized
  /\ Register!Read(Handler)
  /\ headers' = Append(headers, HeaderNow)
  /\ UNCHANGED <<vars, dialled>>

\* A dial makes a connection, or does not.
DialWithHeader ==
  /\ Dial
  /\ dialled' = IF attempts'[Len(attempts')].open THEN Append(dialled, current) ELSE dialled
  /\ UNCHANGED <<registerVars, headers>>

\* Everything else the request does; the exchange goes on once it has a header.
OtherStep ==
  /\ \/ ServeHTTP \/ Lookup \/ Answer \/ RelayEnds \/ ClientLeaves \/ Collect
     \/ Authorized /\ Exchange
  /\ UNCHANGED <<registerVars, headers, dialled>>

\* The credentials service publishes the next header.
Rotate ==
  /\ current.login <= MaxRotations
  /\ current' = [login |-> current.login + 1, key |-> current.login + 1]
  /\ Register!Publish
  /\ UNCHANGED <<vars, headers, dialled>>

NextWithHeader == DialWithHeader \/ Authorize \/ OtherStep \/ Rotate

SpecWithHeader == InitWithHeader /\ [][NextWithHeader]_allVars

\* auth() returns, and otherwise the fairness of Tunnel.
FairSpecWithHeader ==
  SpecWithHeader /\ ProgramFairness /\ PeerFairness /\ WF_allVars(Authorize)

-----------------------------------------------------------------------------
(* Properties.                                                             *)

\* Every attempt of a rescue asks with a complete grant that is at least as
\* new as the header at the moment its connection was made, so that a
\* rotation during the rescue reaches the attempts after it.
AttemptsAuthorized ==
  \A n \in DOMAIN headers :
    /\ Register!Granted(headers[n])
    /\ dialled[n].login <= headers[n].login /\ headers[n].login <= current.login
=============================================================================

---------------------------- MODULE PlainRequests ----------------------------
(***************************************************************************)
(* Plain (not CONNECT) requests: ServeHTTP and HandleRequest (handler.go)  *)
(* for several clients at once, over the connections that PlaintextDialer  *)
(* (plaintext.go) opens and the transport of the standard library keeps,   *)
(* while the credentials service, which CredRegister stands for, rotates   *)
(* the header they all read.                                               *)
(*                                                                         *)
(* A header field is its name; the values matter only for                  *)
(* Proxy-Authorization.  Of a response only the body matters, which is     *)
(* counted in the chunks that the transport hands over: it asks for a      *)
(* compressed body by itself and then expands it, so that neither the      *)
(* fields nor the size a client sees need be those the upstream sent.      *)
(***************************************************************************)
EXTENDS Integers, Sequences, FiniteSets

CONSTANTS
  Handlers,        \* goroutines of the server, with one request each
  Conns,           \* connections to the endpoint
  RequestFields,   \* sets of fields that clients send
  MaxIdle,         \* idle connections that the transport keeps
  MaxChunks,       \* bound: chunks of a body
  MaxRotations     \* bound: credentials published

ASSUME RequestsAssumption ==
  /\ RequestFields \subseteq SUBSET STRING
  /\ MaxIdle \in Nat /\ MaxChunks \in Nat /\ MaxRotations \in Nat

VARIABLES
  current, seen,   \* the header and what each handler read, see CredRegister
  pc,              \* per handler
  gone,            \* the handlers whose client has gone
  fields,          \* per handler: the fields of its request that are left
  auths,           \* per handler: its values of Proxy-Authorization, in order
  conn,            \* per handler: the connection it uses, as a set
  idle,            \* the connections the transport keeps for later
  open,            \* the connections that are open
  reply,           \* per handler: the status the client was sent,
                   \* "nothing", or "upstream" for the upstream's own
  body,            \* per handler: size of the body and what was sent on
  since            \* history: the header when the request arrived

registerVars == <<current, seen>>
connVars == <<conn, idle, open>>
vars == <<registerVars, pc, gone, fields, auths, connVars, reply, body, since>>

Register == INSTANCE CredRegister

\* What a client sends as its own Proxy-Authorization.
Foreign == [login |-> 0, key |-> 0]
NoBody == [size |-> 0, sent |-> 0]

\* The server starts with the first header in place.
Init ==
  /\ current = [login |-> 1, key |-> 1]
  /\ seen = [h \in Handlers |-> Register!NoHeader]
  /\ pc = [h \in Handlers |-> "idle"]
  /\ gone = {}
  /\ fields = [h \in Handlers |-> {}]
  /\ auths = [h \in Handlers |-> <<>>]
  /\ conn = [h \in Handlers |-> {}]
  /\ idle = {} /\ open = {}
  /\ reply = [h \in Handlers |-> "nothing"]
  /\ body = [h \in Handlers |-> NoBody]
  /\ since = [h \in Handlers |-> Register!NoHeader]

Goto(h, s) == pc' = [pc EXCEPT ![h] = s]

Replies(h, status) == reply' = [reply EXCEPT ![h] = status]

-----------------------------------------------------------------------------
(* The header fields.                                                      *)

hopHeaders == {"Connection", "Keep-Alive", "Proxy-Authenticate", "Proxy-Connection",
               "Te", "Trailers", "Transfer-Encoding", "Upgrade"}

delHopHeaders(set) == set \ hopHeaders

-----------------------------------------------------------------------------
(* The request on its way to the upstream.                                 *)

\* A client sends a request: one that names its host, or not.
Arrive(h) ==
  /\ pc[h] = "idle"
  /\ since' = [since EXCEPT ![h] = current]
  /\ \E sent \in RequestFields :
       /\ fields' = [fields EXCEPT ![h] = sent]
       /\ auths' = [auths EXCEPT
            ![h] = IF "Proxy-Authorization" \in sent THEN <<Foreign>> ELSE <<>>]
  /\ \E s \in {"serve", "malformed"} : Goto(h, s)
  /\ UNCHANGED <<registerVars, gone, connVars, reply, body>>

ServeHTTP(h) ==
  /\ \/ pc[h] = "malformed" /\ Replies(h, "400") /\ Goto(h, "done") /\ UNCHANGED fields
     \/ /\ pc[h] = "serve"
        /\ fields' = [fields EXCEPT ![h] = delHopHeaders(@)]
        /\ Goto(h, "auth")
        /\ UNCHANGED reply
  /\ UNCHANGED <<registerVars, gone, auths, connVars, body, since>>

HeaderOfTheStart == [login |-> 1, key |-> 1]

HeaderNow == current

\* auth(), whose result is added to the fields, behind what the client sent.
Authorize(h) ==
  /\ pc[h] = "auth"
  /\ Register!Read(h)
  /\ fields' = [fields EXCEPT ![h] = delHopHeaders(@) \cup {"Proxy-Authorization"}]
  /\ auths' = [auths EXCEPT ![h] = Append(@, HeaderNow)]
  /\ Goto(h, "dial")
  /\ UNCHANGED <<gone, connVars, reply, body, since>>

ServerError(h) == Replies(h, "500") /\ Goto(h, "done")

\* The transport has an idle connection, or has PlaintextDialer dial.
GetConn(h) ==
  /\ pc[h] = "dial"
  /\ \/ \E c \in idle :
          /\ conn' = [conn EXCEPT ![h] = {c}]
          /\ idle' = idle \ {c}
          /\ Goto(h, "exchange")
          /\ UNCHANGED <<open, reply>>
     \/ \E c \in Conns \ open :
          /\ idle = {}
          /\ conn' = [conn EXCEPT ![h] = {c}]
          /\ open' = open \cup {c}
          /\ Goto(h, "handshake")
          /\ UNCHANGED <<idle, reply>>
     \/ idle = {} /\ ServerError(h) /\ UNCHANGED connVars
  /\ UNCHANGED <<registerVars, gone, fields, auths, body, since>>

\* The connection of h is closed, and nobody's any more.
CloseConn(h) == /\ open' = open \ conn[h]
                /\ conn' = [conn EXCEPT ![h] = {}]
                /\ UNCHANGED idle

ForgetConn(h) == conn' = [conn EXCEPT ![h] = {}] /\ UNCHANGED <<open, idle>>

\* PlaintextDialer closes a connection whose handshake failed.
HandshakeFailed(h) == CloseConn(h)

Handshake(h) ==
  /\ pc[h] = "handshake"
  /\ \/ Goto(h, "exchange") /\ UNCHANGED <<connVars, reply>>
     \/ HandshakeFailed(h) /\ ServerError(h)
  /\ UNCHANGED <<registerVars, gone, fields, auths, body, since>>

-----------------------------------------------------------------------------
(* The response on its way back.                                           *)

\* The upstream sends the head of its response, with a body to follow, or the
\* exchange fails.
Exchange(h) ==
  /\ pc[h] = "exchange"
  /\ \/ /\ \E size \in 0 .. MaxChunks : body' = [body EXCEPT ![h] = [size |-> size, sent |-> 0]]
        /\ Replies(h, "upstream")
        /\ Goto(h, "copy")
        /\ UNCHANGED connVars
     \/ CloseConn(h) /\ ServerError(h) /\ UNCHANGED body
  /\ UNCHANGED <<registerVars, gone, fields, auths, since>>

\* copyBody passes a chunk on.
CopyChunk(h) ==
  /\ pc[h] = "copy" /\ body[h].sent < body[h].size
  /\ body' = [body EXCEPT ![h].sent = @ + 1]
  /\ UNCHANGED <<registerVars, pc, gone, fields, auths, connVars, reply, since>>

\* A body read to its end leaves its connection to the transport.
BodyEnds(h) ==
  /\ pc[h] = "copy" /\ body[h].sent = body[h].size
  /\ IF Cardinality(idle) < MaxIdle
     THEN /\ idle' = idle \cup conn[h]
          /\ conn' = [conn EXCEPT ![h] = {}]
          /\ UNCHANGED open
     ELSE CloseConn(h)
  /\ Goto(h, "done")
  /\ UNCHANGED <<registerVars, gone, fields, auths, reply, body, since>>

\* Reading the body or writing to the client fails: the deferred Body.Close
\* closes the connection.  The handler ends as after a whole body.
BodyBreaks(h) ==
  /\ pc[h] = "copy"
  /\ CloseConn(h)
  /\ Goto(h, "done")
  /\ UNCHANGED <<registerVars, gone, fields, auths, reply, body, since>>

-----------------------------------------------------------------------------
(* The surroundings.                                                       *)

\* The credentials service publishes the next header.
Rotate == /\ current.login <= MaxRotations
          /\ current' = [login |-> current.login + 1, key |-> current.login + 1]
          /\ Register!Publish
          /\ UNCHANGED <<pc, gone, fields, auths, connVars, reply, body, since>>

ClientLeaves(h) ==
  /\ pc[h] \notin {"idle", "done"} /\ h \notin gone
  /\ gone' = gone \cup {h}
  /\ UNCHANGED <<registerVars, pc, fields, auths, connVars, reply, body, since>>

\* Where the context of the request is looked at.
HeedsContext == {"dial", "handshake", "exchange", "copy"}

\* The context of a request whose client has gone ends RoundTrip and the
\* reads of the body; a dial under way may still end in the transport's pool.
Abandon(h) ==
  /\ h \in gone /\ pc[h] \in HeedsContext
  /\ \/ CloseConn(h)
     \/ /\ pc[h] = "handshake" /\ Cardinality(idle) < MaxIdle
        /\ idle' = idle \cup conn[h]
        /\ conn' = [conn EXCEPT ![h] = {}]
        /\ UNCHANGED open
  /\ IF pc[h] = "copy" THEN Goto(h, "done") /\ UNCHANGED reply ELSE ServerError(h)
  /\ UNCHANGED <<registerVars, gone, fields, auths, body, since>>

\* An idle connection times out, or the upstream closes it.
IdleCloses(c) ==
  /\ c \in idle
  /\ idle' = idle \ {c} /\ open' = open \ {c}
  /\ UNCHANGED <<registerVars, pc, gone, fields, auths, conn, reply, body, since>>

Handle(h) == \/ ServeHTTP(h) \/ Authorize(h) \/ GetConn(h) \/ Handshake(h)
             \/ Exchange(h) \/ CopyChunk(h) \/ BodyEnds(h) \/ BodyBreaks(h)

Next == \/ \E h \in Handlers : Arrive(h) \/ Handle(h) \/ ClientLeaves(h) \/ Abandon(h)
        \/ \E c \in Conns : IdleCloses(c)
        \/ Rotate

Spec == Init /\ [][Next]_vars

-----------------------------------------------------------------------------
(* Properties.                                                             *)

Fields == (UNION RequestFields) \cup {"Proxy-Authorization"}

\* The type invariant.
TypeOK ==
  /\ current \in [login : Nat, key : Nat] /\ seen \in [Handlers -> [login : Nat, key : Nat]]
  /\ pc \in [Handlers -> {"idle", "malformed", "serve", "auth", "dial", "handshake",
                          "exchange", "copy", "done"}]
  /\ gone \subseteq Handlers
  /\ fields \in [Handlers -> SUBSET Fields]
  /\ auths \in [Handlers -> Seq([login : Nat, key : Nat])]
  /\ conn \in [Handlers -> SUBSET Conns] /\ idle \subseteq Conns /\ open \subseteq Conns
  /\ reply \in [Handlers -> {"nothing", "400", "500", "upstream"}]
  /\ body \in [Handlers -> [size : Nat, sent : Nat]]
  /\ since \in [Handlers -> [login : Nat, key : Nat]]

\* Every open connection is idle or used by exactly one handler, however
\* handshakes, exchanges and bodies fail and whenever clients leave; a handler
\* that has ended holds none.
NothingHeld ==
  /\ open = idle \cup UNION {conn[h] : h \in Handlers}
  /\ \A h \in Handlers :
       /\ conn[h] \cap idle = {}
       /\ \A g \in Handlers \ {h} : conn[g] \cap conn[h] = {}
       /\ pc[h] = "done" => conn[h] = {}

\* What goes to the upstream has no hop-by-hop field of the client's any more
\* and ends with a grant that was the current header at some moment since the
\* request arrived, also when a rotation happens meanwhile; nothing comes
\* before it but what the client itself sent as its Proxy-Authorization.
RequestForwarded ==
  \A h \in Handlers : pc[h] \in {"dial", "handshake", "exchange", "copy"} =>
    /\ fields[h] \cap hopHeaders = {}
    /\ auths[h] # <<>>
    /\ LET header == auths[h][Len(auths[h])]
       IN /\ Register!Granted(header)
          /\ since[h].login <= header.login /\ header.login <= current.login
    /\ Len(auths[h]) = 1 \/ auths[h][1] = Foreign
=============================================================================

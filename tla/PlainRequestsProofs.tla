------------------------- MODULE PlainRequestsProofs -------------------------
(***************************************************************************)
(* Proofs about PlainRequests, for any handlers, connections and header    *)
(* fields, and for bodies of any size.                                     *)
(***************************************************************************)
EXTENDS PlainRequests, TLAPS

Header == [login : Nat, key : Nat]

BodyType == [size : Nat, sent : Nat]

\* The types of what the connections and the requests are about.
ConnType ==
  /\ conn \in [Handlers -> SUBSET Conns] /\ idle \subseteq Conns /\ open \subseteq Conns
  /\ pc \in [Handlers -> {"idle", "malformed", "serve", "auth", "dial", "handshake",
                          "exchange", "copy", "done"}]

RequestType ==
  /\ current \in Header /\ seen \in [Handlers -> Header]
  /\ gone \subseteq Handlers
  /\ fields \in [Handlers -> SUBSET Fields]
  /\ auths \in [Handlers -> Seq(Header)]
  /\ reply \in [Handlers -> {"nothing", "400", "500", "upstream"}]
  /\ body \in [Handlers -> BodyType]
  /\ since \in [Handlers -> Header]

LEMMA HeaderTypes == Foreign \in Header /\ Register!NoHeader \in Header
BY DEF Foreign, Header, Register!NoHeader

LEMMA FieldTypes ==
  ASSUME NEW set \in SUBSET Fields
  PROVE  /\ delHopHeaders(set) \in SUBSET Fields
         /\ delHopHeaders(set) \cup {"Proxy-Authorization"} \in SUBSET Fields
<1>1. "Proxy-Authorization" \in Fields
  BY DEF Fields
<1>2. delHopHeaders(set) \in SUBSET Fields
  BY DEF delHopHeaders
<1> QED
  BY <1>1, <1>2

LEMMA ConnTypeHolds == Spec => []ConnType
<1>1. Init => ConnType
  BY DEF Init, ConnType
<1>2. ConnType /\ [Next]_vars => ConnType'
  <2> SUFFICES ASSUME ConnType, [Next]_vars PROVE ConnType'
    OBVIOUS
  <2> USE DEF ConnType, registerVars, connVars, Goto
  <2>1. ASSUME NEW h \in Handlers, Arrive(h) PROVE ConnType'
    BY <2>1 DEF Arrive
  <2>2. ASSUME NEW h \in Handlers, ServeHTTP(h) \/ Authorize(h) PROVE ConnType'
    BY <2>2 DEF ServeHTTP, Authorize
  <2>3. ASSUME NEW h \in Handlers, GetConn(h) PROVE ConnType'
    BY <2>3 DEF GetConn, ServerError
  <2>4. ASSUME NEW h \in Handlers, Handshake(h) \/ Exchange(h) PROVE ConnType'
    BY <2>4 DEF Handshake, HandshakeFailed, Exchange, ServerError, CloseConn
  <2>5. ASSUME NEW h \in Handlers, CopyChunk(h) \/ BodyEnds(h) \/ BodyBreaks(h)
        PROVE  ConnType'
    BY <2>5 DEF CopyChunk, BodyEnds, BodyBreaks, CloseConn
  <2>6. ASSUME NEW h \in Handlers, ClientLeaves(h) PROVE ConnType'
    BY <2>6 DEF ClientLeaves
  <2>7. ASSUME NEW h \in Handlers, Abandon(h) PROVE ConnType'
    BY <2>7 DEF Abandon, ServerError, CloseConn
  <2>8. ASSUME NEW c \in Conns, IdleCloses(c) PROVE ConnType'
    BY <2>8 DEF IdleCloses
  <2>9. CASE Rotate \/ UNCHANGED vars
    BY <2>9 DEF Rotate, vars
  <2> QED
    BY <2>1, <2>2, <2>3, <2>4, <2>5, <2>6, <2>7, <2>8, <2>9 DEF Next, Handle
<1> QED
  BY <1>1, <1>2, PTL DEF Spec

LEMMA RequestTypeHolds == Spec => []RequestType
<1> USE RequestsAssumption, HeaderTypes
<1>1. Init => RequestType
  BY DEF Init, RequestType, Header, BodyType, NoBody
<1>2. RequestType /\ [Next]_vars => RequestType'
  <2> SUFFICES ASSUME RequestType, [Next]_vars PROVE RequestType'
    OBVIOUS
  <2> USE DEF RequestType, registerVars, connVars, Replies
  <2>1. ASSUME NEW h \in Handlers, Arrive(h) PROVE RequestType'
    <3>1. PICK sent \in RequestFields :
            /\ fields' = [fields EXCEPT ![h] = sent]
            /\ auths' = [auths EXCEPT
                 ![h] = IF "Proxy-Authorization" \in sent THEN <<Foreign>> ELSE <<>>]
      BY <2>1 DEF Arrive
    <3>2. <<Foreign>> \in Seq(Header) /\ <<>> \in Seq(Header)
      OBVIOUS
    <3>3. auths' \in [Handlers -> Seq(Header)]
      BY <3>1, <3>2
    <3>4. fields' \in [Handlers -> SUBSET Fields]
      BY <3>1 DEF Fields
    <3> QED
      BY <2>1, <3>3, <3>4 DEF Arrive
  <2>2. ASSUME NEW h \in Handlers, ServeHTTP(h) PROVE RequestType'
    <3>1. fields' = fields \/ fields' = [fields EXCEPT ![h] = delHopHeaders(fields[h])]
      BY <2>2 DEF ServeHTTP
    <3>2. fields' \in [Handlers -> SUBSET Fields]
      <4>1. delHopHeaders(fields[h]) \in SUBSET Fields
        BY FieldTypes
      <4> QED
        BY <3>1, <4>1
    <3>3. reply' \in [Handlers -> {"nothing", "400", "500", "upstream"}]
      BY <2>2 DEF ServeHTTP
    <3> QED
      BY <2>2, <3>2, <3>3 DEF ServeHTTP
  <2>3. ASSUME NEW h \in Handlers, Authorize(h) PROVE RequestType'
    <3>1. auths' = [auths EXCEPT ![h] = Append(auths[h], current)]
      BY <2>3 DEF Authorize, HeaderNow
    <3>2. Append(auths[h], current) \in Seq(Header)
      OBVIOUS
    <3>3. auths' \in [Handlers -> Seq(Header)]
      BY <3>1, <3>2
    <3>4. fields' = [fields EXCEPT ![h] = delHopHeaders(fields[h]) \cup {"Proxy-Authorization"}]
      BY <2>3 DEF Authorize
    <3>5. fields' \in [Handlers -> SUBSET Fields]
      BY <3>4, FieldTypes
    <3> QED
      BY <2>3, <3>3, <3>5 DEF Authorize, Register!Read
  <2>4. ASSUME NEW h \in Handlers, GetConn(h) \/ Handshake(h) PROVE RequestType'
    <3>1. UNCHANGED <<current, seen, gone, fields, auths, body, since>>
      BY <2>4 DEF GetConn, Handshake
    <3>2. reply' = reply \/ reply' = [reply EXCEPT ![h] = "500"]
      BY <2>4 DEF GetConn, Handshake, ServerError
    <3> QED
      BY <3>1, <3>2
  <2>5. ASSUME NEW h \in Handlers, Exchange(h) PROVE RequestType'
    <3>1. UNCHANGED <<current, seen, gone, fields, auths, since>>
      BY <2>5 DEF Exchange
    <3>2. \E status \in {"500", "upstream"} : reply' = [reply EXCEPT ![h] = status]
      BY <2>5 DEF Exchange, ServerError
    <3>3. body' \in [Handlers -> BodyType]
      <4>1. ASSUME NEW size \in 0 .. MaxChunks
            PROVE  [size |-> size, sent |-> 0] \in BodyType
        BY DEF BodyType
      <4> QED
        BY <2>5, <4>1 DEF Exchange
    <3>4. reply' \in [Handlers -> {"nothing", "400", "500", "upstream"}]
      BY <3>2
    <3> QED
      BY <3>1, <3>3, <3>4
  <2>6. ASSUME NEW h \in Handlers, CopyChunk(h) PROVE RequestType'
    <3>1. body[h] \in BodyType
      OBVIOUS
    <3>2. [body[h] EXCEPT !.sent = body[h].sent + 1] \in BodyType
      <4>1. body[h].sent + 1 \in Nat
        BY <3>1 DEF BodyType
      <4> QED
        BY <3>1, <4>1, Zenon DEF BodyType
    <3>3. body' = [body EXCEPT ![h] = [body[h] EXCEPT !.sent = body[h].sent + 1]]
      BY <2>6 DEF CopyChunk
    <3>4. body' \in [Handlers -> BodyType]
      BY <3>2, <3>3
    <3> QED
      BY <2>6, <3>4 DEF CopyChunk
  <2>7. ASSUME NEW h \in Handlers, BodyEnds(h) \/ BodyBreaks(h) \/ Abandon(h)
        PROVE  RequestType'
    BY <2>7 DEF BodyEnds, BodyBreaks, Abandon, ServerError
  <2>8. ASSUME NEW h \in Handlers, ClientLeaves(h) PROVE RequestType'
    BY <2>8 DEF ClientLeaves
  <2>9. CASE (\E c \in Conns : IdleCloses(c)) \/ UNCHANGED vars
    BY <2>9 DEF IdleCloses, vars
  <2>10. CASE Rotate
    BY <2>10 DEF Rotate, Header, Register!Publish
  <2> QED
    BY <2>1, <2>2, <2>3, <2>4, <2>5, <2>6, <2>7, <2>8, <2>9, <2>10 DEF Next, Handle
<1> QED
  BY <1>1, <1>2, PTL DEF Spec

\* Every variable of the requests keeps its type.
THEOREM PlainTypeCorrect == Spec => []TypeOK
<1>1. ConnType /\ RequestType => TypeOK
  BY DEF ConnType, RequestType, TypeOK, Header, BodyType
<1> QED
  BY <1>1, ConnTypeHolds, RequestTypeHolds, PTL

-----------------------------------------------------------------------------
(* The connections.                                                        *)

\* A handler has a connection only between its dial and its end.
ConnInv ==
  /\ NothingHeld
  /\ \A h \in Handlers :
       pc[h] \in {"idle", "malformed", "serve", "auth", "dial"} => conn[h] = {}

\* However a handler gives up its connection by closing it, the others keep
\* theirs.
LEMMA ClosingConn ==
  ASSUME ConnType, ConnInv, NEW h \in Handlers, CloseConn(h),
         NEW s \in {"done"}, Goto(h, s)
  PROVE  ConnInv'
<1> USE DEF ConnInv, ConnType, NothingHeld
<1>1. /\ conn' = [conn EXCEPT ![h] = {}] /\ open' = open \ conn[h]
      /\ idle' = idle /\ pc' = [pc EXCEPT ![h] = s]
  BY DEF CloseConn, Goto
<1>2. open' = idle' \cup UNION {conn'[g] : g \in Handlers}
  <2>1. \A c \in open' : c \in idle' \/ \E g \in Handlers : c \in conn'[g]
    BY <1>1
  <2>2. \A g \in Handlers : \A c \in conn'[g] : c \in open'
    BY <1>1
  <2>3. \A c \in idle' : c \in open'
    BY <1>1
  <2> QED
    BY <2>1, <2>2, <2>3
<1> QED
  BY <1>1, <1>2

\* Nor does it change theirs if it leaves its connection to the transport.
LEMMA KeepingConn ==
  ASSUME ConnType, ConnInv, NEW h \in Handlers,
         idle' = idle \cup conn[h], conn' = [conn EXCEPT ![h] = {}],
         open' = open, Goto(h, "done")
  PROVE  ConnInv'
<1> USE DEF ConnInv, ConnType, NothingHeld
<1>1. pc' = [pc EXCEPT ![h] = "done"]
  BY DEF Goto
<1>2. open' = idle' \cup UNION {conn'[g] : g \in Handlers}
  OBVIOUS
<1> QED
  BY <1>1, <1>2

\* Every open connection is idle or used by exactly one handler, and a handler
\* that has ended holds none.
THEOREM PlainNothingHeld == Spec => []NothingHeld
<1>1. Init => ConnInv
  BY DEF Init, ConnInv, NothingHeld
<1>2. ConnType /\ ConnInv /\ [Next]_vars => ConnInv'
  <2> SUFFICES ASSUME ConnType, ConnInv, [Next]_vars PROVE ConnInv'
    OBVIOUS
  <2> USE DEF registerVars, connVars
  <2>1. ASSUME NEW h \in Handlers, UNCHANGED connVars,
               pc' = [pc EXCEPT ![h] = pc'[h]],
               conn[h] = {} \/ (pc[h] \notin {"done"} /\ pc'[h] \in {"exchange", "copy"})
        PROVE  ConnInv'
    BY <2>1 DEF ConnInv, ConnType, NothingHeld
  <2>2. ASSUME NEW h \in Handlers, Arrive(h) \/ ServeHTTP(h) \/ Authorize(h) PROVE ConnInv'
    <3>1. conn[h] = {}
      BY <2>2 DEF ConnInv, Arrive, ServeHTTP, Authorize
    <3>2. UNCHANGED connVars /\ pc' = [pc EXCEPT ![h] = pc'[h]]
      BY <2>2 DEF ConnType, Arrive, ServeHTTP, Authorize, Goto
    <3> QED
      BY <2>1, <3>1, <3>2
  <2>3. ASSUME NEW h \in Handlers, GetConn(h) PROVE ConnInv'
    <3>0. conn[h] = {}
      BY <2>3 DEF ConnInv, GetConn
    <3>1. ASSUME NEW c \in idle, conn' = [conn EXCEPT ![h] = {c}], idle' = idle \ {c},
                 Goto(h, "exchange"), open' = open
          PROVE  ConnInv'
      <4>1. open' = idle' \cup UNION {conn'[g] : g \in Handlers}
        BY <3>0, <3>1 DEF ConnInv, ConnType, NothingHeld
      <4> QED
        BY <3>0, <3>1, <4>1 DEF ConnInv, ConnType, NothingHeld, Goto
    <3>2. ASSUME NEW c \in Conns \ open, conn' = [conn EXCEPT ![h] = {c}],
                 open' = open \cup {c}, Goto(h, "handshake"), idle' = idle
          PROVE  ConnInv'
      <4>1. open' = idle' \cup UNION {conn'[g] : g \in Handlers}
        BY <3>0, <3>2 DEF ConnInv, ConnType, NothingHeld
      <4>2. \A g \in Handlers : c \notin conn[g] /\ c \notin idle
        BY <3>2 DEF ConnInv, NothingHeld
      <4> QED
        BY <3>0, <3>2, <4>1, <4>2 DEF ConnInv, ConnType, NothingHeld, Goto
    <3>3. CASE ServerError(h) /\ UNCHANGED connVars
      BY <2>1, <3>0, <3>3 DEF ServerError, Goto, ConnType
    <3> QED
      BY <2>3, <3>1, <3>2, <3>3 DEF GetConn
  <2>4. ASSUME NEW h \in Handlers, Handshake(h) \/ Exchange(h) PROVE ConnInv'
    <3>1. CASE UNCHANGED connVars /\ (Goto(h, "exchange") \/ Goto(h, "copy"))
      BY <2>1, <2>4, <3>1 DEF Handshake, Exchange, Goto, ConnType
    <3>2. CASE CloseConn(h) /\ ServerError(h)
      BY <3>2, ClosingConn DEF ServerError
    <3> QED
      BY <2>4, <3>1, <3>2 DEF Handshake, HandshakeFailed, Exchange
  <2>5. ASSUME NEW h \in Handlers, CopyChunk(h) PROVE ConnInv'
    BY <2>5 DEF CopyChunk, ConnInv, NothingHeld
  <2>6. ASSUME NEW h \in Handlers, BodyEnds(h) \/ BodyBreaks(h) PROVE ConnInv'
    BY <2>6, ClosingConn, KeepingConn DEF BodyEnds, BodyBreaks
  <2>7. ASSUME NEW h \in Handlers, Abandon(h) PROVE ConnInv'
    <3>1. Goto(h, "done")
      BY <2>7 DEF Abandon, ServerError
    <3> QED
      BY <2>7, <3>1, ClosingConn, KeepingConn DEF Abandon
  <2>8. ASSUME NEW c \in Conns, IdleCloses(c) PROVE ConnInv'
    <3>1. open' = idle' \cup UNION {conn'[g] : g \in Handlers}
      BY <2>8 DEF IdleCloses, ConnInv, NothingHeld
    <3> QED
      BY <2>8, <3>1 DEF IdleCloses, ConnInv, NothingHeld
  <2>9. CASE Rotate \/ (\E h \in Handlers : ClientLeaves(h)) \/ UNCHANGED vars
    BY <2>9 DEF Rotate, ClientLeaves, vars, ConnInv, NothingHeld
  <2> QED
    BY <2>2, <2>3, <2>4, <2>5, <2>6, <2>7, <2>8, <2>9 DEF Next, Handle
<1> QED
  BY <1>1, <1>2, ConnTypeHolds, PTL DEF Spec, ConnInv

-----------------------------------------------------------------------------
(* What is sent to the upstream.                                           *)

\* Before its header is read a request has no value of Proxy-Authorization but
\* its client's own, and its header is no older than the request.
HeaderInv ==
  /\ Register!Granted(current)
  /\ \A h \in Handlers :
       /\ pc[h] = "idle" \/ since[h].login <= current.login
       /\ pc[h] \in {"serve", "auth"} => auths[h] \in {<<>>, <<Foreign>>}
  /\ RequestForwarded

\* The values of Proxy-Authorization once the header was added.
LEMMA HeaderAdded ==
  ASSUME NEW before \in {<<>>, <<Foreign>>}, NEW header
  PROVE  LET after == Append(before, header)
         IN  /\ after # <<>> /\ after[Len(after)] = header
             /\ Len(after) = 1 \/ after[1] = Foreign
OBVIOUS

\* A request is forwarded without hop-by-hop fields of its client's, and ends
\* with a grant that was current since it arrived.
THEOREM PlainRequestForwarded == Spec => []RequestForwarded
<1> DEFINE sending == {"dial", "handshake", "exchange", "copy"}
<1>1. Init => HeaderInv
  BY DEF Init, HeaderInv, RequestForwarded, Register!Granted
<1>2. ConnType /\ RequestType /\ HeaderInv /\ [Next]_vars => HeaderInv'
  <2> SUFFICES ASSUME ConnType, RequestType, HeaderInv, [Next]_vars PROVE HeaderInv'
    OBVIOUS
  <2>0. /\ pc \in [Handlers -> {"idle", "malformed", "serve", "auth", "dial",
                                "handshake", "exchange", "copy", "done"}]
        /\ current \in Header /\ since \in [Handlers -> Header]
        /\ auths \in [Handlers -> Seq(Header)]
        /\ fields \in [Handlers -> SUBSET Fields]
    BY DEF ConnType, RequestType
  <2> USE <2>0 DEF HeaderInv, RequestForwarded, Register!Granted, registerVars, connVars
  <2>1. ASSUME NEW h \in Handlers, Arrive(h) PROVE HeaderInv'
    <3>1. current.login \in Nat
      BY DEF Header
    <3>2. /\ UNCHANGED current
          /\ since' = [since EXCEPT ![h] = current]
          /\ \E s \in {"serve", "malformed"} : pc' = [pc EXCEPT ![h] = s]
          /\ \E a \in {<<>>, <<Foreign>>} : auths' = [auths EXCEPT ![h] = a]
          /\ \E f \in SUBSET Fields : fields' = [fields EXCEPT ![h] = f]
      <4>1. \A sent \in RequestFields : sent \in SUBSET Fields
        BY DEF Fields
      <4> QED
        BY <2>1, <4>1 DEF Arrive, Goto
    <3> QED
      BY <3>1, <3>2
  <2>2. ASSUME NEW h \in Handlers, ServeHTTP(h) PROVE HeaderInv'
    BY <2>2 DEF ServeHTTP, Goto
  <2>3. ASSUME NEW h \in Handlers, Authorize(h) PROVE HeaderInv'
    <3>1. /\ auths' = [auths EXCEPT ![h] = Append(auths[h], current)]
          /\ fields' = [fields EXCEPT ![h] =
                          (fields[h] \ hopHeaders) \cup {"Proxy-Authorization"}]
          /\ pc' = [pc EXCEPT ![h] = "dial"]
          /\ UNCHANGED <<current, since>>
          /\ pc[h] = "auth"
      BY <2>3 DEF Authorize, HeaderNow, Register!Read, delHopHeaders, Goto
    <3>2. fields'[h] \cap hopHeaders = {}
      BY <3>1 DEF hopHeaders
    <3>3. /\ auths'[h] # <<>> /\ auths'[h][Len(auths'[h])] = current
          /\ Len(auths'[h]) = 1 \/ auths'[h][1] = Foreign
      <4>1. auths'[h] = Append(auths[h], current)
        BY <3>1
      <4>2. auths[h] \in {<<>>, <<Foreign>>}
        BY <3>1
      <4> HIDE <2>0 DEF HeaderInv, RequestForwarded
      <4> QED
        BY <4>1, <4>2, HeaderAdded
    <3>4. since[h].login <= current.login
      BY <3>1
    <3>5. ASSUME NEW g \in Handlers \ {h}
          PROVE  auths'[g] = auths[g] /\ fields'[g] = fields[g] /\ pc'[g] = pc[g]
      BY <3>1
    <3> QED
      BY <3>1, <3>2, <3>3, <3>4, <3>5 DEF Header
  <2>4. ASSUME NEW h \in Handlers,
               GetConn(h) \/ Handshake(h) \/ Exchange(h) \/ CopyChunk(h)
                 \/ BodyEnds(h) \/ BodyBreaks(h) \/ Abandon(h)
        PROVE  HeaderInv'
    <3>1. UNCHANGED <<current, since, auths, fields>>
      BY <2>4 DEF GetConn, Handshake, Exchange, CopyChunk, BodyEnds, BodyBreaks, Abandon
    <3>2. /\ pc[h] \in sending
          /\ \E s \in sending \cup {"done"} : pc' = [pc EXCEPT ![h] = s]
      BY <2>4 DEF GetConn, Handshake, Exchange, CopyChunk, BodyEnds, BodyBreaks, Abandon,
                  Goto, ServerError, HeedsContext
    <3> QED
      BY <3>1, <3>2
  <2>5. CASE Rotate
    <3>1. /\ current' = [login |-> current.login + 1, key |-> current.login + 1]
          /\ UNCHANGED <<pc, since, auths, fields>>
      BY <2>5 DEF Rotate
    <3>2. current.login \in Nat /\ \A h \in Handlers : since[h].login \in Nat
      BY DEF Header
    <3>3. \A h \in Handlers : pc[h] \in sending =>
            auths[h][Len(auths[h])].login <= current.login + 1
      <4>1. ASSUME NEW h \in Handlers, pc[h] \in sending
            PROVE  auths[h][Len(auths[h])].login <= current.login + 1
        <5>1. auths[h][Len(auths[h])] \in Header
          BY <4>1
        <5>2. auths[h][Len(auths[h])].login <= current.login
          BY <4>1
        <5> QED
          BY <3>2, <5>1, <5>2 DEF Header
      <4> QED
        BY <4>1
    <3> QED
      BY <3>1, <3>2, <3>3
  <2>6. CASE (\E h \in Handlers : ClientLeaves(h)) \/ (\E c \in Conns : IdleCloses(c))
               \/ UNCHANGED vars
    BY <2>6 DEF ClientLeaves, IdleCloses, vars
  <2> QED
    BY <2>1, <2>2, <2>3, <2>4, <2>5, <2>6 DEF Next, Handle
<1> QED
  BY <1>1, <1>2, ConnTypeHolds, RequestTypeHolds, PTL DEF Spec, HeaderInv

-----------------------------------------------------------------------------
(* The header the requests share.                                          *)

\* The handlers and the rotation use the header as the register of
\* CredRegister, once that has been filled: HandleRequest only reads it, in
\* auth(), and only a rotation moves it.
THEOREM PlainUsesRegister == Spec => [][Register!Next]_Register!vars
<1>1. [Next]_vars => [Register!Next]_Register!vars
  <2> SUFFICES ASSUME [Next]_vars PROVE [Register!Next]_Register!vars
    OBVIOUS
  <2>1. ASSUME NEW h \in Handlers, Authorize(h) PROVE Register!Next
    BY <2>1 DEF Authorize, Register!Next
  <2>2. CASE Rotate
    BY <2>2 DEF Rotate, Register!Next
  <2>3. ASSUME NEW h \in Handlers,
               Arrive(h) \/ ServeHTTP(h) \/ GetConn(h) \/ Handshake(h) \/ Exchange(h)
                 \/ CopyChunk(h) \/ BodyEnds(h) \/ BodyBreaks(h) \/ ClientLeaves(h) \/ Abandon(h)
        PROVE  UNCHANGED registerVars
    BY <2>3 DEF Arrive, ServeHTTP, GetConn, Handshake, Exchange, CopyChunk, BodyEnds,
                BodyBreaks, ClientLeaves, Abandon
  <2>4. (\E c \in Conns : IdleCloses(c)) \/ UNCHANGED vars => UNCHANGED registerVars
    BY DEF IdleCloses, vars
  <2> QED
    BY <2>1, <2>2, <2>3, <2>4 DEF Next, Handle, registerVars, Register!vars
<1> QED
  BY <1>1, PTL DEF Spec
=============================================================================

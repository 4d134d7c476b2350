----------------------------- MODULE Protocols -----------------------------
(***************************************************************************)
(* Calls of all protocols but plain HTTP: GraphQLChain, WebSocketChain and *)
(* the gRPC interceptors side by side under one audit store, and what they *)
(* are for.                                                                *)
(***************************************************************************)
EXTENDS GraphQLChain, WebSocketChain, GrpcInterceptors

vars == <<callVars, ip, reply, hijacked, err>>

Grpcs == {"gRPCUnary", "gRPCStream"}

Init ==
    /\ CallsInit
    /\ hijacked = [c \in Call |-> FALSE]
    /\ err = [c \in Call |-> NoError]

\* The server gets control back; net/http commits 200 for a handler that wrote
\* nothing, and closes the connection on a panic
Finish(c) ==
    /\ Leaves(c)
    /\ reply' = [reply EXCEPT ![c] = IF ask[c].proto \in Grpcs \/ panic[c] = "flying"
                                     THEN @ ELSE RawHeader(@, 200)]
    /\ UNCHANGED <<hijacked, err>>

BadSave(c) ==
    /\ \E n \in DOMAIN audit[c] :
          /\ audit[c][n].state = "pending" /\ panic[c] = "none"
          /\ audit' = [audit EXCEPT ![c][n].state = "saved"]
    /\ UNCHANGED <<ask, pc, defers, panic, ctx, ip, reply, hijacked, err>>
Save(c) == Saves(c) /\ UNCHANGED <<reply, hijacked, err>>

Handle(c) ==
    \/ GraphQL(c) /\ UNCHANGED <<hijacked, err>>
    \/ WebSocket(c) /\ UNCHANGED err
    \/ Grpc(c) /\ UNCHANGED <<reply, hijacked>>
    \/ Finish(c)

Over(c) == pc[c] \in {"done", "aborted"}

Settled ==
    /\ \A c \in Call : /\ Over(c)
                       /\ \A n \in DOMAIN audit[c] : audit[c][n].state # "pending"
    /\ UNCHANGED vars

Next == (\E c \in Call : Handle(c) \/ Save(c)) \/ Settled

Spec == Init /\ [][Next]_vars

\* The Go scheduler runs the goroutine of every call and every save goroutine;
\* handlers return or panic at last and the LogStore answers
Fairness == \A c \in Call : WF_vars(Handle(c)) /\ WF_vars(Save(c))

FairSpec == Spec /\ Fairness
-----------------------------------------------------------------------------
\* Every variable has its type.
TypeOK ==
    /\ CallsTypeOK
    /\ reply \in [Call -> Response]
    /\ hijacked \in [Call -> BOOLEAN]
    /\ err \in [Call -> Error]

\* A handler sees only the calls its chain lets in: an upgrade request the
\* authenticator did not reject, a query whose nesting, in any stretch of its
\* text, is within the endpoint's limit, if it is one the chain could read
\* (WebSocketChain, src/ws.go; GraphQLChain and graphqlQueryDepth,
\* src/graphql.go).  A closing brace in a string or a comment lowers the
\* counter: with one, the depth says nothing of the nesting.
HandlersGated ==
    \A c \in Call : pc[c] = "handler" =>
        /\ ask[c].proto = "WebSocket" =>
              /\ ask[c].upgrade
              /\ ask[c].auth \notin {"rejects", "panics"}
        /\ /\ ask[c].proto = "GraphQL" /\ ask[c].maxDepth > 0
           /\ ClosesTruly(Query(ask[c]))
           => Nesting(Query(ask[c])) <= ask[c].maxDepth

\* An entry of a gRPC call says 200 exactly when the client got OK, and the
\* client's code when the handler stated one, after a panic too; 500 stands for
\* an error without a code, which the server turns into one (the deferred
\* functions of src/grpc.go, in their order).
GrpcOutcome ==
    \A c \in Call : \A n \in DOMAIN audit[c] :
        ask[c].proto \in Grpcs =>
            LET status == audit[c][n].status
                code   == ClientCode(err[c])
            IN  /\ (status = 200) <=> (code = 0)
                /\ status \notin {200, 500} => status = code
                /\ panic[c] # "none" => status = Internal /\ code = Internal

\* An entry of a GraphQL call has the status the client got, or none, and then
\* the handler stated none: it panicked, or net/http answered for it.  A
\* WebSocket handler's connection that was upgraded is in the trail as upgraded,
\* and one that is in the trail as upgraded had its status from the handler, a
\* panic or not (the deferred functions of src/graphql.go and src/ws.go).
HttpOutcome ==
    \A c \in Call : \A n \in DOMAIN audit[c] :
        LET status == audit[c][n].status IN
        /\ ask[c].proto = "GraphQL" =>
              \/ status # 0 /\ status = reply[c].code
              \/ status = 0 /\ reply[c].code \in
                    {0, IF panic[c] = "none" THEN 200 ELSE 500}
        /\ ask[c].proto = "WebSocket" =>
              /\ reply[c].code = 101 => status = 101
              /\ status = 101 => reply[c].by = "app"

\* A panic in a handler never gets through to the server, which would close the
\* connection or, under gRPC, end the process; only an authenticator's does.
\* The client of a GraphQL or gRPC handler that panicked gets an error, unless
\* the handler had stated a status before; that of a WebSocket handler is told
\* nothing: it has what the handler sent, or net/http's empty 200 (the
\* recoveries of src/graphql.go, src/ws.go and src/grpc.go).
PanicsStayInside ==
    \A c \in Call :
        /\ pc[c] = "aborted" =>
              ask[c].proto = "WebSocket" /\ ask[c].auth = "panics" /\ ctx[c] = NoTxn
        /\ pc[c] = "done" /\ panic[c] = "caught" =>
              CASE ask[c].proto = "GraphQL" -> reply[c].code \in {500, reply[c].rec}
                [] ask[c].proto \in Grpcs  -> err[c] = StatusError(Internal)
                [] ask[c].proto = "WebSocket" ->
                     reply[c].by = "app" \/ (reply[c].code = 200 /\ reply[c].body = {})

Stage(c) ==
    IF pc[c] = "arrived" THEN "outside"
    ELSE IF \E i \in DOMAIN defers[c] : defers[c][i] = "audit" THEN "inside" ELSE "left"

Trail == INSTANCE AuditTrail WITH
            Request <- Call,
            stage <- [c \in Call |-> Stage(c)],
            trail <- [c \in Call |->
                        [n \in 1..Len(audit[c]) |-> audit[c][n].state]]

\* All protocols implement AuditTrail with its fairness: one entry for every
\* call that got as far as its handler, on every way out, none for any other,
\* and each is settled at last.
TrailSpec == Trail!Spec
-----------------------------------------------------------------------------
\* A statement of the repository that the code does not keep

\* src/graphql.go:145: counting braces is a safe approximation of the depth, so
\* that no well-formed document nested beyond the limit gets to the handler
SafeApproximation ==
    \A c \in Call :
        /\ pc[c] = "handler" /\ ask[c].proto = "GraphQL" /\ ask[c].maxDepth > 0
        /\ Balanced(Query(ask[c]))
        => Nesting(Query(ask[c])) <= ask[c].maxDepth
=============================================================================

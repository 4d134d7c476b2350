---------------------------- MODULE GraphQLChain ----------------------------
(***************************************************************************)
(* GraphQLChain of src/graphql.go.  The recovery is deferred first, so it  *)
(* runs after the audit entry is made; the entry is deferred only once the *)
(* depth limit has let the query in.  reply[c] is the HTTP response: the   *)
(* chain writes to net/http's writer, the handler to the recorder.         *)
(***************************************************************************)
EXTENDS Calls, QueryDepth

\* gqlBody.Query: empty unless a POST body could be read and decodes
Query(a) == IF a.method = "POST" /\ a.body = "query" THEN a.query ELSE << >>

TooDeep(a) ==
    /\ a.maxDepth > 0 /\ Query(a) # << >>
    /\ GraphqlQueryDepth(Query(a)) > a.maxDepth

GraphQLEnters(c) ==
    /\ Arrives(c, "GraphQL")
    /\ TrustsProxy(c)
    /\ IF TooDeep(ask[c])
       THEN /\ ReturnEarly(c, <<"recover">>)
            /\ reply' = [reply EXCEPT ![c] = RawError(@, 400)]
       ELSE /\ CallHandler(c, <<"audit", "recover">>, Txn(c))
            /\ UNCHANGED reply

GraphQLHandler(c) ==
    /\ InHandler(c, {"GraphQL"})
    /\ \/ /\ \/ \E status \in AppStatus :
                  reply' = [reply EXCEPT ![c] = RecorderHeader(@, status)]
             \/ reply' = [reply EXCEPT ![c] = RecorderWrite(@, "app")]
          /\ UNCHANGED callVars
       \/ (HandlerReturns(c) \/ Panics(c)) /\ UNCHANGED reply
    /\ UNCHANGED ip

GraphQLLogs(c) ==
    /\ ask[c].proto = "GraphQL"
    /\ Logs(c, reply[c].rec)
    /\ UNCHANGED reply

GraphQLRecovers(c) ==
    /\ ask[c].proto = "GraphQL"
    /\ Recovers(c)
    /\ reply' = [reply EXCEPT ![c] = IF panic[c] = "flying" THEN RawError(@, 500) ELSE @]

GraphQL(c) ==
    GraphQLEnters(c) \/ GraphQLHandler(c) \/ GraphQLLogs(c) \/ GraphQLRecovers(c)
=============================================================================

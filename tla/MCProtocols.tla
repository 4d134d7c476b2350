---------------------------- MODULE MCProtocols ----------------------------
(***************************************************************************)
(* Every kind of call.  Calls share nothing but the store, so one call at  *)
(* a time shows what there is to see; the queries are all documents of up  *)
(* to five braces, some with names in between, and all of up to four       *)
(* braces of which some are in strings or comments, and a well-formed one  *)
(* of that kind.                                                           *)
(***************************************************************************)
EXTENDS Protocols

Ask0 == [proto |-> "GraphQL", txn |-> "none", peer |-> "a", claimedIP |-> "b", forwarded |-> <<"b">>,
         maxDepth |-> 0, method |-> "POST", body |-> "query", query |-> << >>,
         upgrade |-> FALSE, auth |-> "nil"]

Braces == UNION {[1..n -> {"open", "close"}] : n \in 0..5}

Queries == Braces \cup { <<"open", "name", "close">>,
                         <<"open", "name", "open", "name", "close", "name", "close">> }

\* as in { a(x: "}") { b { c } } }
Argued == <<"open", "name", "quotedClose", "open", "name", "open", "name",
            "close", "close", "close">>

QuotedToo == {Argued} \cup UNION {[1..n -> Opening \cup Closing] : n \in 0..4}

KindsOfAsk ==
    { [Ask0 EXCEPT !.query = q, !.maxDepth = 1] : q \in QuotedToo }
    \cup
    { [Ask0 EXCEPT !.query = q, !.maxDepth = d] : q \in Queries, d \in {0, 1, 2} }
    \cup
    { [Ask0 EXCEPT !.txn = t, !.method = m, !.body = b, !.maxDepth = 1,
                   !.query = <<"open", "open", "open">>] :
        t \in {"t", "none"}, m \in {"GET", "POST"}, b \in {"query", "garbage", "unreadable"} }
    \cup
    { [Ask0 EXCEPT !.proto = "WebSocket", !.txn = t, !.upgrade = u, !.auth = a] :
        t \in {"t", "none"}, u \in BOOLEAN, a \in {"nil", "accepts", "rejects", "panics"} }
    \cup
    { [Ask0 EXCEPT !.proto = p, !.peer = "proxy", !.forwarded = x, !.upgrade = TRUE] :
        p \in {"GraphQL", "WebSocket"}, x \in {<< >>, <<"b", "a">>, <<"garbage">>} }
    \cup
    { [Ask0 EXCEPT !.proto = p, !.txn = t] :
        p \in {"gRPCUnary", "gRPCStream"}, t \in {"t", "none"} }

\* as one set, in which TLC looks a call up instead of searching the parts
MCAsks == {a \in KindsOfAsk : TRUE}

MCTxn == {"t"}
MCAddress == {"a", "b", "proxy"}
MCTrusted == {"proxy"}
MCStatus == {103, 200, 403}
MCCode == {2, 5}
NoHeader == {}
=============================================================================

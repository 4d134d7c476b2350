------------------------------- MODULE Calls -------------------------------
(***************************************************************************)
(* What GraphQLChain, WebSocketChain and the gRPC interceptors have in     *)
(* common: a call runs in a goroutine of its own through one function that *)
(* registers deferred functions, calls the application's handler, and runs *)
(* what it deferred, last in first out, whether the handler returns or     *)
(* panics.  One of the deferred functions hands the audit entry to a save  *)
(* goroutine that outlives the call.                                       *)
(*                                                                         *)
(*   ask[c]     what the client asks for (see AskType), fixed              *)
(*   pc[c]      "arrived", "handler", "unwinding", "done", or "aborted"    *)
(*              when a panic got through to the server                     *)
(*   defers[c]  the deferred functions that are still to run, next first   *)
(*   panic[c]   "none", "flying", or "caught" by a recover()               *)
(*   ctx[c]     the transaction ID in the context the handler was given    *)
(*   ip[c]      the NVX-IP header, or gRPC metadata                         *)
(*   audit[c]   the audit entries handed to the background so far          *)
(*   reply[c]   the HTTP response (ResponseWriter), if the call is HTTP's   *)
(***************************************************************************)
EXTENDS ResponseWriter, TrustedProxy

CONSTANTS Call, TxnID,
          Asks,            \* the calls clients may make
          AppStatus        \* the statuses HTTP handlers set

Protocol == {"GraphQL", "WebSocket", "gRPCUnary", "gRPCStream"}

AskType ==
    [proto : Protocol,
     txn : TxnID \cup {"none"},             \* the NVX-Transaction-ID sent
     peer : Address, claimedIP : Address,   \* who connected; the NVX-IP sent
     forwarded : Forwarded,
     \* GraphQL: the limit of the endpoint, and how the body reads
     maxDepth : Nat, method : {"GET", "POST"},
     body : {"query", "garbage", "unreadable"},
     query : Seq(STRING),
     \* WebSocket: the upgrade headers, and the endpoint's authenticator
     upgrade : BOOLEAN, auth : {"nil", "accepts", "rejects", "panics"}]

\* net/http panics on a status that has not three digits
ASSUME CallsAssumption == Asks \subseteq AskType /\ AppStatus \subseteq 100..999

VARIABLES ask, pc, defers, panic, ctx, ip, audit, reply

callVars == <<ask, pc, defers, panic, ctx, audit>>

NoTxn == <<"none", "none">>

\* transactionID: what the client sent, or an ID generated for this call
Txn(c) == IF ask[c].txn = "none" THEN <<"generated", c>> ELSE <<"sent", ask[c].txn>>

CallsInit ==
    /\ ask \in [Call -> Asks]
    /\ pc = [c \in Call |-> "arrived"]
    /\ defers = [c \in Call |-> << >>]
    /\ panic = [c \in Call |-> "none"]
    /\ ctx = [c \in Call |-> NoTxn]
    /\ ip = [c \in Call |-> ask[c].claimedIP]
    /\ audit = [c \in Call |-> << >>]
    /\ reply = [c \in Call |-> NewResponse]
-----------------------------------------------------------------------------
Arrives(c, proto) == pc[c] = "arrived" /\ ask[c].proto = proto

\* TrustProxy, called for what it does to the header
TrustsProxy(c) == ip' = [ip EXCEPT ![c] = ClientIP(ask[c].peer, ask[c].forwarded)]

\* next.ServeHTTP, or handler(ctx, req), with what is deferred by then
CallHandler(c, deferred, txn) ==
    /\ pc' = [pc EXCEPT ![c] = "handler"]
    /\ defers' = [defers EXCEPT ![c] = deferred]
    /\ ctx' = [ctx EXCEPT ![c] = txn]
    /\ UNCHANGED <<ask, panic, audit>>

\* an early return before the handler is called
ReturnEarly(c, deferred) ==
    /\ pc' = [pc EXCEPT ![c] = "unwinding"]
    /\ defers' = [defers EXCEPT ![c] = deferred]
    /\ UNCHANGED <<ask, panic, ctx, audit>>

InHandler(c, protos) == pc[c] = "handler" /\ ask[c].proto \in protos

HandlerReturns(c) ==
    /\ pc' = [pc EXCEPT ![c] = "unwinding"]
    /\ UNCHANGED <<ask, defers, panic, ctx, audit>>

Panics(c) ==
    /\ pc' = [pc EXCEPT ![c] = "unwinding"]
    /\ panic' = [panic EXCEPT ![c] = "flying"]
    /\ UNCHANGED <<ask, defers, ctx, audit>>

RunsDeferred(c, f, protos) ==
    /\ pc[c] = "unwinding" /\ ask[c].proto \in protos
    /\ defers[c] # << >> /\ Head(defers[c]) = f
    /\ defers' = [defers EXCEPT ![c] = Tail(@)]

BadRecovers(c) ==
    /\ RunsDeferred(c, "recover", Protocol)
    /\ UNCHANGED <<ask, pc, panic, ctx, ip, audit>>
Recovers(c) ==
    /\ RunsDeferred(c, "recover", Protocol)
    /\ panic' = [panic EXCEPT ![c] = IF @ = "flying" THEN "caught" ELSE @]
    /\ UNCHANGED <<ask, pc, ctx, ip, audit>>

\* the entry is filled and handed to its goroutine
Logs(c, status) ==
    /\ RunsDeferred(c, "audit", Protocol)
    /\ audit' = [audit EXCEPT ![c] =
                    Append(@, [status |-> status, txn |-> Txn(c), ip |-> ip[c],
                               state |-> "pending"])]
    /\ UNCHANGED <<ask, pc, panic, ctx, ip>>

\* the function is left for good: back to the server, or with a panic
Leaves(c) ==
    /\ pc[c] = "unwinding" /\ defers[c] = << >>
    /\ pc' = [pc EXCEPT ![c] = IF panic[c] = "flying" THEN "aborted" ELSE "done"]
    /\ UNCHANGED <<ask, defers, panic, ctx, ip, audit>>

\* LogStore.Save in its own goroutine; its error is discarded, its panic caught
Saves(c) ==
    /\ \E n \in DOMAIN audit[c], outcome \in {"saved", "lost"} :
          /\ audit[c][n].state = "pending"
          /\ audit' = [audit EXCEPT ![c][n].state = outcome]
    /\ UNCHANGED <<ask, pc, defers, panic, ctx, ip>>

CallsTypeOK ==
    /\ ask \in [Call -> Asks]
    /\ pc \in [Call -> {"arrived", "handler", "unwinding", "done", "aborted"}]
    /\ defers \in [Call -> Seq({"audit", "recover"})]
    /\ panic \in [Call -> {"none", "flying", "caught"}]
    /\ ctx \in [Call -> {NoTxn} \cup ({"sent"} \X TxnID) \cup ({"generated"} \X Call)]
    /\ ip \in [Call -> Address]
    /\ audit \in [Call -> Seq([status : Nat, txn : ({"sent"} \X TxnID) \cup ({"generated"} \X Call),
                               ip : Address, state : {"pending", "saved", "lost"}])]
=============================================================================

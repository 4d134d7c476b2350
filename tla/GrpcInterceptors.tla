-------------------------- MODULE GrpcInterceptors --------------------------
(***************************************************************************)
(* GRPCUnaryInterceptor and GRPCStreamInterceptor of src/grpc.go.  Nothing *)
(* is refused.  The recovery is deferred last, so it runs first and turns  *)
(* a panic into an error before the entry is made from that error.         *)
(***************************************************************************)
EXTENDS Calls, Integers

CONSTANT AppCode           \* the gRPC codes of the status errors handlers return

\* status.Error with code OK is no error
ASSUME GrpcAssumption == AppCode \subseteq 1..16

VARIABLE err               \* err[c] : the error the call returns

Error == [kind : {"nil", "status", "context", "plain"}, code : 0..16]

NoError == [kind |-> "nil", code |-> 0]
StatusError(code) == [kind |-> "status", code |-> code]

Internal == 13

\* A handler succeeds, returns a status, or an error that carries none: that
\* of an expired context, or any other
HandlerError ==
    {NoError} \cup {StatusError(code) : code \in AppCode}
        \cup {[kind |-> k, code |-> 0] : k \in {"context", "plain"}}

UnaryDefers == <<"recover", "audit">>

BadStreamDefers == <<"audit", "recover">>
StreamDefers == <<"recover", "audit">>

UnaryEnters(c) ==
    /\ Arrives(c, "gRPCUnary")
    /\ CallHandler(c, UnaryDefers, Txn(c))
    /\ UNCHANGED <<err, ip>>

StreamEnters(c) ==
    /\ Arrives(c, "gRPCStream")
    /\ CallHandler(c, StreamDefers, Txn(c))
    /\ UNCHANGED <<err, ip>>

GrpcHandler(c) ==
    /\ InHandler(c, {"gRPCUnary", "gRPCStream"})
    /\ \/ /\ HandlerReturns(c)
          /\ \E e \in HandlerError : err' = [err EXCEPT ![c] = e]
       \/ Panics(c) /\ UNCHANGED err
    /\ UNCHANGED ip

GrpcRecovers(c) ==
    /\ ask[c].proto \in {"gRPCUnary", "gRPCStream"}
    /\ Recovers(c)
    /\ err' = [err EXCEPT ![c] = IF panic[c] = "flying" THEN StatusError(Internal) ELSE @]

\* 200 for success, the gRPC code of a status, 500 for an error without one
BadGrpcStatus(e) == IF e.kind = "nil" THEN -1 ELSE e.code
GrpcStatus(e) ==
    IF e.kind = "nil" THEN 200 ELSE IF e.kind = "status" THEN e.code ELSE 500

\* nobody has corrected the address that the client's metadata names
GrpcLogs(c) ==
    /\ ask[c].proto \in {"gRPCUnary", "gRPCStream"}
    /\ Logs(c, GrpcStatus(err[c]))
    /\ UNCHANGED err

\* what the gRPC server makes of the error: the code the client gets
ClientCode(e) ==
    CASE e.kind \in {"nil", "status"} -> e.code
      [] e.kind = "context"           -> 4
      [] e.kind = "plain"             -> 2

Grpc(c) ==
    UnaryEnters(c) \/ StreamEnters(c) \/ GrpcHandler(c) \/ GrpcRecovers(c) \/ GrpcLogs(c)
=============================================================================

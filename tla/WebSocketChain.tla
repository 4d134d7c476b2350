--------------------------- MODULE WebSocketChain ---------------------------
(***************************************************************************)
(* WebSocketChain of src/ws.go.  Upgrade check and authenticator come      *)
(* before anything is deferred.  The handler writes through wsResponseWriter,*)
(* which remembers a 101; the entry's status is guessed from that alone.   *)
(***************************************************************************)
EXTENDS Calls

VARIABLE hijacked          \* hijacked[c] : wsResponseWriter.hijacked

\* the status is written, and then writeJSON writes it again
Rejected(w) == RawError(RawHeader(SetHeaders(w, {"Content-Type"}), 401), 401)

WebSocketEnters(c) ==
    /\ Arrives(c, "WebSocket")
    /\ IF ask[c].upgrade THEN TrustsProxy(c) ELSE UNCHANGED ip
    /\ IF ~ask[c].upgrade
       THEN /\ ReturnEarly(c, << >>)
            /\ reply' = [reply EXCEPT ![c] = RawError(@, 400)]
       ELSE CASE ask[c].auth \in {"nil", "accepts"} ->
                   CallHandler(c, <<"audit", "recover">>, Txn(c)) /\ UNCHANGED reply
              [] ask[c].auth = "rejects" ->
                   /\ ReturnEarly(c, << >>)
                   /\ reply' = [reply EXCEPT ![c] = Rejected(@)]
              [] ask[c].auth = "panics" -> Panics(c) /\ UNCHANGED reply
    /\ UNCHANGED hijacked

\* wsResponseWriter.WriteHeader
BadWsWriteHeader(c, code) ==
    /\ UNCHANGED hijacked
    /\ reply' = [reply EXCEPT ![c] = AppRawHeader(@, code)]
WsWriteHeader(c, code) ==
    /\ hijacked' = [hijacked EXCEPT ![c] = @ \/ code = 101]
    /\ reply' = [reply EXCEPT ![c] = AppRawHeader(@, code)]

WebSocketHandler(c) ==
    /\ InHandler(c, {"WebSocket"})
    /\ \/ /\ \E status \in AppStatus \cup {101} : WsWriteHeader(c, status)
          /\ UNCHANGED callVars
       \/ /\ reply' = [reply EXCEPT ![c] = AppRawWrite(@)]
          /\ UNCHANGED <<callVars, hijacked>>
       \/ (HandlerReturns(c) \/ Panics(c)) /\ UNCHANGED <<reply, hijacked>>
    /\ UNCHANGED ip

WebSocketLogs(c) ==
    /\ ask[c].proto = "WebSocket"
    /\ Logs(c, IF hijacked[c] THEN 101 ELSE 400)
    /\ UNCHANGED <<reply, hijacked>>

\* the panic guard reports to the operator's log and answers nobody
WebSocketRecovers(c) ==
    /\ ask[c].proto = "WebSocket"
    /\ Recovers(c)
    /\ UNCHANGED <<reply, hijacked>>

WebSocket(c) ==
    WebSocketEnters(c) \/ WebSocketHandler(c) \/ WebSocketLogs(c) \/ WebSocketRecovers(c)
=============================================================================

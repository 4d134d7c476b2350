-------------------------- MODULE ChainProperties --------------------------
(***************************************************************************)
(* What the chains of Chain are for, as properties the runs check and      *)
(* ChainProofs proves.                                                     *)
(***************************************************************************)
EXTENDS Chain

Answered(r) == mode[r] = "done"

Logged(r) == audit[r] # << >>

Recovered(r) == mode[r] \in {"up", "done"} /\ at[r] = Depth.Recoverer

\* A limiter hook answered with the raw writer.  Nothing below Logger knows of
\* that answer, and layers below it may run and write all the same
HookSpoke(r) == resp[r].by = "app"
-----------------------------------------------------------------------------
\* A request holds a throttle token exactly while control is below the
\* throttler, whatever the layers below do: refuse, return, panic, time out
\* (buildOuterChain, src/chain.go).  A leaked token would shrink the route's
\* capacity for good.
SlotDiscipline ==
    \A r \in Request, rt \in Route :
        /\ r \in running[rt] <=> /\ rt = RouteOf(r)
                                 /\ "Throttle" \in LayersOf(r)
                                 /\ Inside(r, "Throttle")
        /\ r \in waiting[rt] => /\ rt = RouteOf(r)
                                /\ mode[r] = "down"
                                /\ at[r] < Depth.Throttle

\* No more handlers of a throttled route run at once than its ThrottleLimit
\* allows (ChainConfig and buildOuterChain, src/chain.go).
HandlersBounded ==
    \A rt \in Route : Config[rt].throttle =>
        Cardinality({r \in Request : RouteOf(r) = rt /\ InApp(r)}) <= Limit[rt]

\* What is seen of the audit trail from outside, per request
Stage(r) ==
    IF Inside(r, "Logger") THEN "inside"
    ELSE IF mode[r] = "down" THEN "outside" ELSE "left"

Trail == INSTANCE AuditTrail WITH
            stage <- [r \in Request |-> Stage(r)],
            trail <- [r \in Request |->
                        [n \in 1..Len(audit[r]) |-> audit[r][n].state]]

\* The chain implements AuditTrail: one entry per request that got past
\* Logger, on every way out, none for any other, settled at most once
\* (Logger and its deferred entry, src/middleware.go).
TrailSpec == Trail!SafeSpec

\* The chain's kind checks signatures, and timestamps' age as well
Signed(r) == Conf(r).kind \notin {"presign", "webhook"}
Timed(r) == Conf(r).kind \in PublicKind

Genuine(r) ==
    /\ Conf(r).kind # "webhook" => input[r].cred \notin {"missing", "malformed"}
    /\ Conf(r).kind \in InternalKind \cup {"public-auth"} => input[r].cred # "notoken"
    /\ Signed(r) => input[r].cred # "badsig"
    /\ Timed(r) => input[r].cred # "stale" /\ ~Unreadable(input[r])

\* The audit store and the application see only requests that passed every
\* gate outside Logger: signature and timestamp, and the quota unless the
\* request is OPTIONS (buildInnerChain's promise, src/chain.go).
NoPollution ==
    \A r \in Request :
        Logged(r) \/ Inside(r, "Logger") =>
            /\ Genuine(r)
            /\ "RateLimit" \in LayersOf(r) /\ input[r].method # "OPTIONS"
                  => charge[r] # "none"

\* Forged, stale or unreadable requests cannot use up anyone's quota ("Rejects
\* bad signatures before RateLimit processes them", PublicChain).
OnlyGenuinePay ==
    \A r \in Request : charge[r] # "none" => Genuine(r)

\* Who a quota belongs to.  rateKeyInjector gives one to each pair of a token
\* and an app ID, or else to each address together with a User-Agent and an
\* app ID; all but the address are the client's to choose
ByBearer(r) == Conf(r).kind \in {"public-auth", "public-api-key"}

SameClient(q, r) ==
    /\ RouteOf(q) = RouteOf(r)
    /\ input[q].app = input[r].app
    /\ IF ByBearer(r) THEN input[q].token = input[r].token
       ELSE input[q].from = input[r].from /\ input[q].agent = input[r].agent

\* TrustProxy believes the leftmost element of what a trusted proxy forwards.
\* That is the client's true address when the proxy puts it there; behind one
\* that only appends it is what the client wrote
Attested(i) ==
    i.peer \in TrustedProxies => i.forwarded # << >> /\ Head(i.forwarded) = i.from

Known(r) == ByBearer(r) \/ Attested(input[r])

\* Within a window nobody is admitted more often than the route's quota under
\* one user agent and app ID, or one token and app ID: no NVX-IP header, no
\* authentication type the client sends, and no X-Forwarded-For of a client
\* that connects directly, is worth another bucket (RateLimit behind TrustProxy
\* and SetHeaderAuthType).  A client whose proxy does not overwrite the
\* leftmost element of X-Forwarded-For is left out: it can name a new address
\* each time.
QuotaKept ==
    \A r \in Request :
        charge[r] = "curr" /\ Known(r) =>
            Cardinality({q \in Request : /\ charge[q] = "curr"
                                        /\ Known(q) /\ SameClient(q, r)})
                <= Quota[RouteOf(r)]

\* Two requests share a bucket only if they are the same client's, unless a
\* proxy forwarded an address that the client itself wrote: nobody who connects
\* directly, or through a proxy that overwrites, uses up another one's quota
\* (buildRateKey*, src/chi.go).
BucketPrivacy ==
    \A q, r \in Request :
        charge[q] # "none" /\ charge[r] # "none" /\ Known(q) /\ Known(r) =>
            (key[q] = key[r] => SameClient(q, r))

\* An audit entry that has a status has the one the client got, whichever layer
\* answers before or after the entry is made; unless a limiter hook answered
\* and let the request go on.
AuditTruthful ==
    \A r \in Request : \A n \in DOMAIN audit[r] :
        audit[r][n].status # 0 /\ ~HookSpoke(r) => audit[r][n].status = resp[r].code

\* An entry whose handler wrote nothing has every header that the client gets,
\* though the answer comes later, from Timeout, Recoverer or net/http; only the
\* Content-Type of the error after a panic is set too late for it.  An entry
\* with a status may lack only those of the headers sent that the handler or
\* RemoveHeaders deleted after the answer had begun.
HeadersAudited ==
    \A r \in Request : \A n \in DOMAIN audit[r] :
        ~HookSpoke(r) =>
            resp[r].sent \ audit[r][n].headers \subseteq
                IF audit[r][n].status # 0 THEN AppHeader \cup RemovedHeader
                ELSE IF Recovered(r) THEN {"Content-Type"} ELSE {}

\* Every answer, errors of any layer included, carries the CORS permission
\* exactly when the origin is allowed; only a wrong method on the presign
\* endpoint is answered outside CORS (PreSignHandler).  It is assumed that the
\* application leaves that header alone.
CorsOnEveryAnswer ==
    \A r \in Request :
        Answered(r) /\ "Allow-Origin" \notin AppHeader =>
            ("Allow-Origin" \in resp[r].sent
                <=> input[r].origin = "allowed" /\ at[r] # Depth.MethodOnly)

\* Every audited answer carries the security headers, also the 413 of
\* MaxBodySize, the refusal of adminCheck and the 500 after a panic, unless a
\* limiter hook had answered before; the application leaves them alone.
SecuredIfLogged ==
    \A r \in Request :
        Answered(r) /\ Logged(r) /\ ~HookSpoke(r) /\ "Security" \notin AppHeader =>
            "Security" \in resp[r].sent

\* No fingerprinting header goes out with a status that the handler, adminCheck
\* or MaxBodySize stated, be it a 200, unless a 1xx came before; one that does
\* go out comes with an implicit 200, an answer of the layers outside
\* RemoveHeaders, or a hook's (headerCleanerResponseWriter).
StrippedWhenStated ==
    \A r \in Request :
        resp[r].sent \cap RemovedHeader # {} =>
            resp[r].by # "cleaner" \/ resp[r].early

\* After a panic, of the handler, adminCheck, ContextInjector or a hook, the
\* client gets what was committed before it, by whichever of them, or else 500,
\* or 504 if the deadline had passed; never a success nobody stated.  On a
\* wrapped route no error body is appended to a started response.
PanicContained ==
    \A r \in Request :
        Answered(r) /\ Recovered(r) =>
            /\ resp[r].by = "raw" => resp[r].code \in {500, 504}
            /\ resp[r].by \in {"recorder", "cleaner"} => resp[r].code = resp[r].rec
            /\ Conf(r).wrapped => resp[r].body # {"app", "error"}

\* control is with adminCheck or the handler
WithApp(r) ==
    \/ InApp(r)
    \/ "AdminCheck" \in LayersOf(r) /\ mode[r] = "down" /\ at[r] >= Depth.MaxBodySize

OneAnswer(r) ==
    resp[r].code # 0 =>
        /\ resp'[r].code = resp[r].code /\ resp'[r].sent = resp[r].sent
        /\ ~HookSpoke(r) =>
              /\ (mode'[r] = "down" /\ at'[r] # at[r]) => WithApp(r)
              /\ (resp'[r].body # resp[r].body) =>
                    \/ WithApp(r)
                    \/ mode[r] = "panic" /\ ~Conf(r).wrapped

\* A request is answered once.  Whichever layer committed a status has turned
\* the request back: no further layer sees it, the status and the headers stay
\* as they are, and nobody but the application itself writes more, except
\* Recoverer after a panic (the early returns of every layer; NeverMixed is
\* about the exception).  A hook that answers and lets the request go on has
\* the status and the headers it sent kept, and no more.
AnsweredOnce == [][\A r \in Request : OneAnswer(r)]_vars

\* Every request is answered: the backlog's timer, the deferred releases and
\* Recoverer leave nobody behind.
AllAnswered == \A r \in Request : <>Answered(r)

\* The chain implements AuditTrail with its fairness: nobody stays inside
\* Logger, and every entry is settled by its goroutine.
TrailLive == Trail!Spec
-----------------------------------------------------------------------------
\* Statements of the repository that the code does not keep

\* src/model/audit_log.go: StatusCode is the HTTP response status code
AuditHasStatus ==
    \A r \in Request : \A n \in DOMAIN audit[r] :
        Answered(r) => audit[r][n].status = resp[r].code

\* src/middleware.go, RemoveHeaders: the headers are stripped before the
\* response reaches the client
AlwaysStripped ==
    \A r \in Request : resp[r].sent \cap RemovedHeader = {}

\* src/middleware.go, Recoverer: abort if the response already started
NeverMixed ==
    \A r \in Request : resp[r].body # {"app", "error"}
=============================================================================

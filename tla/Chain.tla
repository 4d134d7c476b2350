------------------------------- MODULE Chain -------------------------------
(***************************************************************************)
(* The middleware chains of src/chain.go with the layers of                *)
(* src/middleware.go, src/chi.go and src/manager.go they are built from.   *)
(* Every request runs in a goroutine of its own: it descends through the   *)
(* layers its route has, from MethodOnly towards App, until one of them    *)
(* answers, and then unwinds through the layers that deferred something,   *)
(* normally or with a panic in flight.  Requests meet in the throttler     *)
(* (Throttle) and in the buckets of the rate limiter (RateLimit); audit    *)
(* entries are saved by goroutines that outlive the request.               *)
(*                                                                         *)
(*   input[r]  what the client sent (see InputType), fixed                 *)
(*   at[r]     the depth of the layer r entered last, or unwound to last   *)
(*   mode[r]   "down", "up" (unwinding), "panic" (unwinding), "done"       *)
(*   ip[r]     the NVX-IP header       auth[r]  the NVX-Auth-Type header   *)
(*   resp[r]   the response (ResponseWriter)                               *)
(*   audit[r]  the audit entries handed to the background so far           *)
(***************************************************************************)
EXTENDS Throttle, RateLimit, ResponseWriter, TrustedProxy

CONSTANTS Token, Agent, AppID, \* tokens and API keys; User-Agents; app IDs
          Config,            \* Config[rt] : the route's chain and its ChainConfig
          Inputs,            \* the requests clients may send
          LogRequestBodies,  \* Config.LogRequestBodies
          AppStatus,         \* the statuses application code sets
          AppHeader          \* the response headers it sets and deletes

PublicKind == {"public", "public-auth", "public-api-key"}
InternalKind == {"internal", "admin"}

Kind == PublicKind \cup InternalKind \cup {"presign", "webhook"}

(***************************************************************************)
(* wrapped: the application put WrapWithChiWriter outside the chain.       *)
(* callbacks: the application set the limiter hooks and a ContextInjector. *)
(* counter: ConfigLimiter.Counter is a backend that may fail.              *)
(***************************************************************************)
ConfigType == [kind : Kind, throttle : BOOLEAN, timeout : BOOLEAN,
               limitPublic : BOOLEAN, limitAuth : BOOLEAN,
               callbacks : BOOLEAN, counter : BOOLEAN, wrapped : BOOLEAN]

Cred == {"valid", "missing", "malformed", "stale", "notoken", "badsig"}

\* "streamed" is over the limit but announces no length; "upload" is multipart
\* and over its limit; "unsupported" has a content type that is not allowed
Body == {"fits", "oversize", "streamed", "upload", "unsupported"}

InputType == [route : Route, method : {"GET", "POST", "OPTIONS"},
              origin : {"none", "allowed", "foreign"},
              cred : Cred, body : Body,
              claimedIP : Address \cup {"none"},   \* the NVX-IP header sent
              from : Address,                      \* who the client really is
              peer : Address,                      \* who opened the connection
              forwarded : Forwarded,
              agent : Agent, app : AppID, token : Token]

ASSUME ChainAssumption ==
    /\ Config \in [Route -> ConfigType]
    /\ Inputs \subseteq InputType
    /\ LogRequestBodies \in BOOLEAN
    /\ AppStatus \subseteq Nat \ {0}
    /\ AppHeader \subseteq Header

\* A connection that is no trusted proxy's is the client's own
ASSUME DirectAssumption ==
    \A i \in Inputs : i.peer \notin TrustedProxies => i.from = i.peer

\* The headers to remove are none that CORS or SecureHeaders sets
ASSUME HeaderAssumption ==
    {"Allow-Origin", "Allow-Methods", "Security"} \cap RemovedHeader = {}

VARIABLES input, at, mode, ip, auth, resp, audit

vars == <<input, at, mode, ip, auth, resp, audit, running, waiting, key, charge>>
-----------------------------------------------------------------------------
(***************************************************************************)
(* The nesting.  Compress and StripSlashes are left out: neither changes a *)
(* status, a header or a decision modelled here.                           *)
(***************************************************************************)
BadDepthCORS == [MethodOnly |-> 1, CORS |-> 7, Recoverer |-> 3, Throttle |-> 4,
                 Timeout |-> 5, TrustProxy |-> 6, Ensure |-> 2, AuthType |-> 8,
                 RateLimit |-> 9, Logger |-> 10, SecureHeaders |-> 11, RemoveHeaders |-> 12,
                 MaxBodySize |-> 13, AdminCheck |-> 14, App |-> 15]
BadDepthSecure == [MethodOnly |-> 1, CORS |-> 2, Recoverer |-> 3, Throttle |-> 4,
                   Timeout |-> 5, TrustProxy |-> 6, Ensure |-> 7, AuthType |-> 8,
                   RateLimit |-> 9, Logger |-> 10, SecureHeaders |-> 13, RemoveHeaders |-> 12,
                   MaxBodySize |-> 11, AdminCheck |-> 14, App |-> 15]
BadDepthLogger == [MethodOnly |-> 1, CORS |-> 2, Recoverer |-> 3, Throttle |-> 4,
                   Timeout |-> 5, TrustProxy |-> 6, Ensure |-> 7, AuthType |-> 8,
                   RateLimit |-> 10, Logger |-> 9, SecureHeaders |-> 11, RemoveHeaders |-> 12,
                   MaxBodySize |-> 13, AdminCheck |-> 14, App |-> 15]
Depth == [MethodOnly |-> 1, CORS |-> 2, Recoverer |-> 3, Throttle |-> 4,
          Timeout |-> 5, TrustProxy |-> 6, Ensure |-> 7, AuthType |-> 8,
          RateLimit |-> 9, Logger |-> 10, SecureHeaders |-> 11,
          RemoveHeaders |-> 12, MaxBodySize |-> 13, AdminCheck |-> 14,
          App |-> 15]

InnerLayers == {"Logger", "SecureHeaders", "RemoveHeaders", "MaxBodySize", "App"}

BadOuterLayers(c) == {"CORS", "Recoverer", "TrustProxy"}
                       \cup (IF c.timeout THEN {"Timeout"} ELSE {})
                       \cup (IF c.timeout /\ c.throttle THEN {"Throttle"} ELSE {})
OuterLayers(c) == {"CORS", "Recoverer", "TrustProxy"}
                    \cup (IF c.timeout THEN {"Timeout"} ELSE {})
                    \cup (IF c.throttle THEN {"Throttle"} ELSE {})

GateLayers(c) ==
    (IF c.kind = "webhook" THEN {} ELSE {"Ensure", "AuthType"})
      \cup (IF \/ c.limitPublic /\ c.kind \in {"public", "public-api-key", "presign"}
               \/ c.limitAuth /\ c.kind = "public-auth"
            THEN {"RateLimit"} ELSE {})
      \cup (IF c.kind = "admin" THEN {"AdminCheck"} ELSE {})
      \cup (IF c.kind = "presign" THEN {"MethodOnly"} ELSE {})

Layers(rt) == InnerLayers \cup OuterLayers(Config[rt]) \cup GateLayers(Config[rt])

RouteOf(r) == input[r].route
Conf(r) == Config[RouteOf(r)]
LayersOf(r) == Layers(RouteOf(r))
-----------------------------------------------------------------------------
\* r is about to enter layer l: every layer of its route outside l is entered
Reaches(r, l) ==
    /\ mode[r] = "down"
    /\ l \in LayersOf(r)
    /\ at[r] < Depth[l]
    /\ \A k \in LayersOf(r) : Depth[k] <= at[r] \/ Depth[l] <= Depth[k]

BadPass(r, l) == at' = [at EXCEPT ![r] = Depth[l] + 1] /\ UNCHANGED mode
Pass(r, l) == at' = [at EXCEPT ![r] = Depth[l]] /\ UNCHANGED mode

TurnBack(r, l) ==
    /\ at' = [at EXCEPT ![r] = Depth[l]]
    /\ mode' = [mode EXCEPT ![r] = "up"]

\* code of the application called by layer l panics
Blow(r, l) ==
    /\ at' = [at EXCEPT ![r] = Depth[l]]
    /\ mode' = [mode EXCEPT ![r] = "panic"]

Answer(r, w) == resp' = [resp EXCEPT ![r] = w]

\* the layers that deferred work, in the order the unwinding reaches them
Deferred(r) == LayersOf(r) \cap {"Logger", "Timeout", "Throttle"}

Unwinding(r) == mode[r] \in {"up", "panic"}

Leaves(r, l) ==
    /\ Unwinding(r)
    /\ l \in Deferred(r)
    /\ Depth[l] < at[r]
    /\ \A k \in Deferred(r) : Depth[k] <= Depth[l] \/ at[r] <= Depth[k]

Unwound(r) == \A k \in Deferred(r) : at[r] <= Depth[k]

\* control is below layer l, whose deferred work is still to be done
Inside(r, l) ==
    \/ mode[r] = "down" /\ Depth[l] <= at[r]
    \/ Unwinding(r) /\ Depth[l] < at[r]

requestVars == <<ip, auth>>
-----------------------------------------------------------------------------
Init ==
    /\ input \in [Request -> Inputs]
    /\ at = [r \in Request |-> 0]
    /\ mode = [r \in Request |-> "down"]
    /\ ip = [r \in Request |-> input[r].claimedIP]
    /\ auth = [r \in Request |-> "none"]
    /\ resp = [r \in Request |-> NewResponse]
    /\ audit = [r \in Request |-> << >>]
    /\ ThrottleInit
    /\ RateLimitInit
-----------------------------------------------------------------------------
\* The way down: one action per layer

\* Recoverer and Timeout only arm a defer, RemoveHeaders only wraps the writer
Descend(r) ==
    /\ \E l \in {"Recoverer", "Timeout", "RemoveHeaders", "App"} :
          Reaches(r, l) /\ Pass(r, l)
    /\ UNCHANGED <<input, ip, auth, resp, audit, running, waiting, key, charge>>

MethodOnly(r) ==
    /\ Reaches(r, "MethodOnly")
    /\ IF input[r].method = "POST"
       THEN Pass(r, "MethodOnly") /\ UNCHANGED resp
       ELSE TurnBack(r, "MethodOnly") /\ Answer(r, RawError(resp[r], 405))
    /\ UNCHANGED <<input, ip, auth, audit, running, waiting, key, charge>>

CorsHeaders(origin) ==
    CASE origin = "none"    -> {}
      [] origin = "allowed" -> {"Allow-Methods", "Allow-Origin"}
      [] origin = "foreign" -> {"Allow-Methods"}

BadCORS(r) ==
    LET w == SetHeaders(resp[r], CorsHeaders(input[r].origin))
    IN  /\ Reaches(r, "CORS") /\ Pass(r, "CORS")
        /\ Answer(r, IF input[r].origin # "none" /\ input[r].method = "OPTIONS"
                     THEN RawHeader(w, 204) ELSE w)
        /\ UNCHANGED <<input, ip, auth, audit, running, waiting, key, charge>>
CORS(r) ==
    LET w == SetHeaders(resp[r], CorsHeaders(input[r].origin))
    IN  /\ Reaches(r, "CORS")
        /\ IF input[r].origin # "none" /\ input[r].method = "OPTIONS"
           THEN TurnBack(r, "CORS") /\ Answer(r, RawHeader(w, 204))
           ELSE Pass(r, "CORS") /\ Answer(r, w)
        /\ UNCHANGED <<input, ip, auth, audit, running, waiting, key, charge>>

JoinBacklog(r) ==
    /\ Reaches(r, "Throttle")
    /\ Enqueue(RouteOf(r), r)
    /\ UNCHANGED <<input, at, mode, ip, auth, resp, audit, key, charge>>

ThrottleRefuses(r) ==
    /\ Reaches(r, "Throttle")
    /\ Refuse(RouteOf(r), r)
    /\ TurnBack(r, "Throttle")
    /\ Answer(r, RawError(resp[r], 429))
    /\ UNCHANGED <<input, ip, auth, audit, key, charge>>

TakeSlot(r) ==
    /\ Reaches(r, "Throttle")
    /\ Start(RouteOf(r), r)
    /\ Pass(r, "Throttle")
    /\ UNCHANGED <<input, ip, auth, resp, audit, key, charge>>

LeaveBacklog(r) ==
    /\ Reaches(r, "Throttle")
    /\ GiveUp(RouteOf(r), r)
    /\ TurnBack(r, "Throttle")
    /\ Answer(r, RawError(resp[r], 429))
    /\ UNCHANGED <<input, ip, auth, audit, key, charge>>

\* The client as TrustProxy sees it
SeenIP(i) == ClientIP(i.peer, i.forwarded)

TrustProxy(r) ==
    /\ Reaches(r, "TrustProxy") /\ Pass(r, "TrustProxy")
    /\ ip' = [ip EXCEPT ![r] = SeenIP(input[r])]
    /\ UNCHANGED <<input, auth, resp, audit, running, waiting, key, charge>>

(***************************************************************************)
(* EnsurePublic, EnsurePublicAuth, EnsurePublicAPIKey, EnsureInternal and  *)
(* EnsurePreSignHeaders: 0 lets the request in.  The public ones check the *)
(* timestamp's age and sign the body, so a body ReadAndRestoreBody cannot  *)
(* deliver is an invalid signature; the internal one wants a token and     *)
(* looks at neither; the presign one only validates headers.               *)
(***************************************************************************)
Unreadable(i) == i.body \in {"oversize", "streamed"}

HeadersMissing(i, kind) ==
    \/ i.cred \in {"missing", "malformed"}
    \/ i.cred = "notoken" /\ kind = "public-auth"

Expired(i, kind) == kind \in PublicKind /\ i.cred = "stale"

Unsigned(i, kind) ==
    \/ kind \in PublicKind /\ (i.cred = "badsig" \/ Unreadable(i))
    \/ kind \in InternalKind /\ i.cred \in {"notoken", "badsig"}

EnsureStatus(i, kind) ==
    IF HeadersMissing(i, kind) \/ Expired(i, kind) THEN 400
    ELSE IF Unsigned(i, kind) THEN 401 ELSE 0

BadEnsure(r) ==
    LET status == EnsureStatus(input[r], Conf(r).kind)
    IN  /\ Reaches(r, "Ensure") /\ Pass(r, "Ensure")
        /\ Answer(r, IF status = 0 THEN resp[r] ELSE RawError(resp[r], status))
        /\ UNCHANGED <<input, ip, auth, audit, running, waiting, key, charge>>
Ensure(r) ==
    LET status == EnsureStatus(input[r], Conf(r).kind)
    IN  /\ Reaches(r, "Ensure")
        /\ IF status = 0
           THEN Pass(r, "Ensure") /\ UNCHANGED resp
           ELSE TurnBack(r, "Ensure") /\ Answer(r, RawError(resp[r], status))
        /\ UNCHANGED <<input, ip, auth, audit, running, waiting, key, charge>>

AuthType(kind) ==
    IF kind \in {"public", "presign"} THEN "public"
    ELSE IF kind \in InternalKind THEN "internal" ELSE kind

SetHeaderAuthType(r) ==
    /\ Reaches(r, "AuthType") /\ Pass(r, "AuthType")
    /\ auth' = [auth EXCEPT ![r] = AuthType(Conf(r).kind)]
    /\ UNCHANGED <<input, ip, resp, audit, running, waiting, key, charge>>
-----------------------------------------------------------------------------
\* The rate limiter: hook before, key, limiter, hook after.  A request that
\* is charged has the limiter behind it and is at the hook after

KeyOf(r) == RateKey(auth[r], RouteOf(r), ip[r], input[r])

RateBypass(r) ==
    /\ Reaches(r, "RateLimit") /\ Pass(r, "RateLimit")
    /\ input[r].method = "OPTIONS"
    /\ UNCHANGED <<input, ip, auth, resp, audit, running, waiting, key, charge>>

\* any change of the headers that application code makes
HeaderChange(w) == {[w EXCEPT !.hdr = (@ \ AppHeader) \cup hs] : hs \in SUBSET AppHeader}

AtHook(r) ==
    Reaches(r, "RateLimit") /\ Conf(r).callbacks /\ input[r].method # "OPTIONS"

\* a hook has the writer that the chain was given, outside Logger's recorder,
\* and may do with it whatever it likes
HookCalls(r) ==
    /\ AtHook(r)
    /\ \/ \E w \in HeaderChange(resp[r]) : Answer(r, w)
       \/ \E status \in AppStatus : Answer(r, AppRawHeader(resp[r], status))
       \/ Answer(r, AppRawWrite(resp[r]))
    /\ UNCHANGED <<input, at, mode, ip, auth, audit, running, waiting, key, charge>>

\* a hook returns false, answered or not, or panics
HookStops(r) ==
    /\ AtHook(r)
    /\ TurnBack(r, "RateLimit") \/ Blow(r, "RateLimit")
    /\ UNCHANGED <<input, ip, auth, resp, audit, running, waiting, key, charge>>

AtLimiter(r) ==
    /\ Reaches(r, "RateLimit") /\ input[r].method # "OPTIONS"
    /\ charge[r] = "none"

RateAdmits(r) ==
    /\ AtLimiter(r)
    /\ Admit(RouteOf(r), r, KeyOf(r))
    /\ UNCHANGED <<input, at, mode, ip, auth, resp, audit, running, waiting>>

PassRateLimit(r) ==
    /\ Reaches(r, "RateLimit") /\ Pass(r, "RateLimit")
    /\ charge[r] # "none"
    /\ UNCHANGED <<input, ip, auth, resp, audit, running, waiting, key, charge>>

RateDenies(r) ==
    /\ AtLimiter(r)
    /\ Deny(RouteOf(r), r, KeyOf(r))
    /\ TurnBack(r, "RateLimit") /\ Answer(r, RawError(resp[r], 429))
    /\ UNCHANGED <<input, ip, auth, audit, running, waiting>>

RateCounterFails(r) ==
    /\ AtLimiter(r)
    /\ Conf(r).counter
    /\ CounterFails(r, KeyOf(r))
    /\ TurnBack(r, "RateLimit") /\ Answer(r, RawError(resp[r], 428))
    /\ UNCHANGED <<input, ip, auth, audit, running, waiting>>
-----------------------------------------------------------------------------
\* The inner layers

\* The audit entry is deferred only once the body could be read for it
EnterLogger(r) ==
    /\ Reaches(r, "Logger")
    /\ IF LogRequestBodies /\ Unreadable(input[r])
       THEN TurnBack(r, "Logger") /\ Answer(r, RawError(resp[r], 400))
       ELSE Pass(r, "Logger") /\ UNCHANGED resp
    /\ UNCHANGED <<input, ip, auth, audit, running, waiting, key, charge>>

SecureHeaders(r) ==
    /\ Reaches(r, "SecureHeaders") /\ Pass(r, "SecureHeaders")
    /\ Answer(r, SetHeaders(resp[r], {"Security"}))
    /\ UNCHANGED <<input, ip, auth, audit, running, waiting, key, charge>>

\* The announced length and the content type decide; a body without a length
\* meets its limit when the handler reads it
BodyStatus(i) ==
    CASE i.body = "unsupported"            -> 400
      [] i.body \in {"oversize", "upload"} -> 413
      [] OTHER                             -> 0

MaxBodySize(r) ==
    LET status == BodyStatus(input[r])
    IN  /\ Reaches(r, "MaxBodySize")
        /\ IF status = 0
           THEN Pass(r, "MaxBodySize") /\ UNCHANGED resp
           ELSE /\ TurnBack(r, "MaxBodySize")
                /\ Answer(r, CleanerAnswer(resp[r], status, "error"))
        /\ UNCHANGED <<input, ip, auth, audit, running, waiting, key, charge>>

\* ContextInjector runs before the audit entry is deferred
InjectorPanics(r) ==
    /\ Reaches(r, "Logger") /\ Conf(r).callbacks
    /\ Blow(r, "Logger")
    /\ UNCHANGED <<input, ip, auth, resp, audit, running, waiting, key, charge>>
-----------------------------------------------------------------------------
\* The application's code below the chain: the adminCheck the caller of
\* AdminChain supplies, and the handler.  Each is any sequence of calls on the
\* writer it was given, after the commit as well

Written(w) ==
    HeaderChange(w) \cup {CleanerHeader(w, status) : status \in AppStatus}
                    \cup {CleanerWrite(w, "app")}

AdminCheckCalls(r) ==
    /\ Reaches(r, "AdminCheck")
    /\ \E w \in Written(resp[r]) : Answer(r, w)
    /\ UNCHANGED <<input, at, mode, ip, auth, audit, running, waiting, key, charge>>

\* adminCheck calls next, returns without, or panics
AdminCheck(r) ==
    /\ Reaches(r, "AdminCheck")
    /\ Pass(r, "AdminCheck") \/ TurnBack(r, "AdminCheck") \/ Blow(r, "AdminCheck")
    /\ UNCHANGED <<input, ip, auth, resp, audit, running, waiting, key, charge>>

InApp(r) == mode[r] = "down" /\ at[r] = Depth.App

AppCalls(r) ==
    /\ InApp(r) /\ Conf(r).kind # "presign"
    /\ \E w \in Written(resp[r]) : Answer(r, w)
    /\ UNCHANGED <<input, at, mode, ip, auth, audit, running, waiting, key, charge>>

AppReturns(r) ==
    /\ InApp(r) /\ Conf(r).kind # "presign"
    /\ mode' = [mode EXCEPT ![r] = "up"]
    /\ UNCHANGED <<input, at, ip, auth, resp, audit, running, waiting, key, charge>>

AppPanics(r) ==
    /\ InApp(r) /\ Conf(r).kind # "presign"
    /\ mode' = [mode EXCEPT ![r] = "panic"]
    /\ UNCHANGED <<input, at, ip, auth, resp, audit, running, waiting, key, charge>>

\* PreSignHandler's own handler: the body decodes and validates or not, and
\* only then is the timestamp's age checked
PreSign(r) ==
    /\ InApp(r) /\ Conf(r).kind = "presign"
    /\ \E wellFormed \in BOOLEAN :
          Answer(r, IF wellFormed /\ input[r].cred # "stale"
                    THEN CleanerAnswer(resp[r], 200, "app")
                    ELSE CleanerAnswer(resp[r], 400, "error"))
    /\ mode' = [mode EXCEPT ![r] = "up"]
    /\ UNCHANGED <<input, at, ip, auth, audit, running, waiting, key, charge>>
-----------------------------------------------------------------------------
\* The way up: what was deferred, on a return and on a panic alike

Unwind(r, l) == at' = [at EXCEPT ![r] = Depth[l]] /\ UNCHANGED mode

BadEntry(r) == [status |-> resp[r].rec, headers |-> resp[r].sent, state |-> "pending"]
Entry(r) == [status |-> resp[r].rec, headers |-> resp[r].hdr, state |-> "pending"]

BadLeaveLogger(r) ==
    /\ Leaves(r, "Logger") /\ Unwind(r, "Logger")
    /\ audit' = [audit EXCEPT ![r] = IF mode[r] = "up" THEN Append(@, Entry(r)) ELSE @]
    /\ UNCHANGED <<input, ip, auth, resp, running, waiting, key, charge>>
LeaveLogger(r) ==
    /\ Leaves(r, "Logger") /\ Unwind(r, "Logger")
    /\ audit' = [audit EXCEPT ![r] = Append(@, Entry(r))]
    /\ UNCHANGED <<input, ip, auth, resp, running, waiting, key, charge>>

\* the deadline may have passed by the time the handler comes back
LeaveTimeout(r) ==
    /\ Leaves(r, "Timeout") /\ Unwind(r, "Timeout")
    /\ \E w \in {resp[r], RawHeader(resp[r], 504)} : Answer(r, w)
    /\ UNCHANGED <<input, ip, auth, audit, running, waiting, key, charge>>

BadLeaveThrottle(r) ==
    /\ Leaves(r, "Throttle") /\ Unwind(r, "Throttle")
    /\ IF mode[r] = "up" THEN Release(RouteOf(r), r) ELSE UNCHANGED throttleVars
    /\ UNCHANGED <<input, ip, auth, resp, audit, key, charge>>
LeaveThrottle(r) ==
    /\ Leaves(r, "Throttle") /\ Unwind(r, "Throttle")
    /\ Release(RouteOf(r), r)
    /\ UNCHANGED <<input, ip, auth, resp, audit, key, charge>>

\* The check for a started response knows chi's wrapper and the recorder only;
\* the recorder is inside Recoverer, so what is left is a wrapper outside
BadRecoverAgain(r) ==
    /\ mode[r] = "panic" /\ Unwound(r)
    /\ at' = [at EXCEPT ![r] = Depth.Recoverer]
    /\ Answer(r, RawError(resp[r], 500))
    /\ UNCHANGED <<input, mode, ip, auth, audit, running, waiting, key, charge>>
BadRecover(r) ==
    /\ mode[r] = "panic" /\ Unwound(r)
    /\ TurnBack(r, "Recoverer")
    /\ Answer(r, RawError(resp[r], 500))
    /\ UNCHANGED <<input, ip, auth, audit, running, waiting, key, charge>>
Recover(r) ==
    /\ mode[r] = "panic" /\ Unwound(r)
    /\ TurnBack(r, "Recoverer")
    /\ Answer(r, IF Conf(r).wrapped /\ resp[r].code # 0
                 THEN resp[r] ELSE RawError(resp[r], 500))
    /\ UNCHANGED <<input, ip, auth, audit, running, waiting, key, charge>>

\* net/http commits 200 for a handler that wrote nothing
Finish(r) ==
    /\ mode[r] = "up" /\ Unwound(r)
    /\ mode' = [mode EXCEPT ![r] = "done"]
    /\ Answer(r, RawHeader(resp[r], 200))
    /\ UNCHANGED <<input, at, ip, auth, audit, running, waiting, key, charge>>
-----------------------------------------------------------------------------
\* LogStore.Save in its own goroutine: an error or a panic there loses the entry
BadSave(r) ==
    /\ \E n \in DOMAIN audit[r], outcome \in {"saved", "lost"} :
          /\ audit[r][n].state = "pending" /\ audit[r][n].status # 0
          /\ audit' = [audit EXCEPT ![r][n].state = outcome]
    /\ UNCHANGED <<input, at, mode, ip, auth, resp, running, waiting, key, charge>>
Save(r) ==
    /\ \E n \in DOMAIN audit[r], outcome \in {"saved", "lost"} :
          /\ audit[r][n].state = "pending"
          /\ audit' = [audit EXCEPT ![r][n].state = outcome]
    /\ UNCHANGED <<input, at, mode, ip, auth, resp, running, waiting, key, charge>>

Tick(rt) ==
    /\ WindowTick(rt)
    /\ UNCHANGED <<input, at, mode, ip, auth, resp, audit, running, waiting>>

\* every request is answered and every entry settled
Settled ==
    /\ \A r \in Request : /\ mode[r] = "done"
                          /\ \A n \in DOMAIN audit[r] : audit[r][n].state # "pending"
    /\ UNCHANGED vars

Enter(r) ==
    \/ Descend(r) \/ MethodOnly(r) \/ CORS(r)
    \/ JoinBacklog(r) \/ ThrottleRefuses(r) \/ TakeSlot(r) \/ LeaveBacklog(r)
    \/ TrustProxy(r) \/ Ensure(r) \/ SetHeaderAuthType(r)
    \/ RateBypass(r) \/ HookCalls(r) \/ HookStops(r) \/ RateAdmits(r)
    \/ PassRateLimit(r) \/ RateDenies(r) \/ RateCounterFails(r)
    \/ InjectorPanics(r) \/ EnterLogger(r) \/ SecureHeaders(r)
    \/ MaxBodySize(r) \/ AdminCheckCalls(r) \/ AdminCheck(r)

App(r) == AppCalls(r) \/ AppReturns(r) \/ AppPanics(r) \/ PreSign(r)

Exit(r) ==
    LeaveLogger(r) \/ LeaveTimeout(r) \/ LeaveThrottle(r) \/ Recover(r) \/ Finish(r)

Handle(r) == Enter(r) \/ App(r) \/ Exit(r)

Next ==
    \/ \E r \in Request : Handle(r) \/ Save(r)
    \/ \E rt \in Route : Tick(rt)
    \/ Settled

Spec == Init /\ [][Next]_vars

\* The Go scheduler runs every request's goroutine and every save goroutine;
\* the application's handler returns and its LogStore answers
Fairness == \A r \in Request : WF_vars(Handle(r)) /\ WF_vars(Save(r))

FairSpec == Spec /\ Fairness
-----------------------------------------------------------------------------
EntryType == [status : Nat, headers : SUBSET Header,
              state : {"pending", "saved", "lost"}]

Mode == {"down", "up", "panic", "done"}

Key == [endpoint : Route \cup {"none"}, zone : Kind \cup {"none"},
        id : Address \cup Token \cup {"none"},
        agent : Agent \cup {"none"}, app : AppID \cup {"none"}]

\* Every variable has its type.
TypeOK ==
    /\ input \in [Request -> Inputs]
    /\ at \in [Request -> 0..15]
    /\ mode \in [Request -> Mode]
    /\ ip \in [Request -> Address \cup {"none"}]
    /\ auth \in [Request -> Kind \cup {"none"}]
    /\ resp \in [Request -> Response]
    /\ audit \in [Request -> Seq(EntryType)]
    /\ ThrottleTypeOK
    /\ key \in [Request -> Key]
    /\ charge \in [Request -> Window]
=============================================================================

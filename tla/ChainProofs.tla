---------------------------- MODULE ChainProofs ----------------------------
(***************************************************************************)
(* Proofs about the chain for every set of requests, every configuration   *)
(* of every route and every input: type correctness, the throttler's       *)
(* bounds inside the chain, and that tokens are held exactly inside the    *)
(* throttler.                                                              *)
(***************************************************************************)
EXTENDS ChainProperties, ThrottleProofs, ResponseWriterProofs

LayerName == {"MethodOnly", "CORS", "Recoverer", "Throttle", "Timeout",
              "TrustProxy", "Ensure", "AuthType", "RateLimit", "Logger",
              "SecureHeaders", "RemoveHeaders", "MaxBodySize", "AdminCheck",
              "App"}

\* The nesting names every layer once.
LEMMA DepthFacts ==
    /\ \A l \in LayerName : Depth[l] \in 1..15
    /\ \A k, l \in LayerName : Depth[k] = Depth[l] => k = l
BY DEF LayerName, Depth

LEMMA LayersNamed ==
    ASSUME NEW rt \in Route
    PROVE  Layers(rt) \subseteq LayerName
BY DEF Layers, InnerLayers, OuterLayers, GateLayers, LayerName

\* What the type says about one request.
LEMMA RequestTypes ==
    ASSUME TypeOK, NEW r \in Request
    PROVE  /\ input[r] \in InputType /\ RouteOf(r) \in Route
           /\ Conf(r) \in ConfigType /\ LayersOf(r) \subseteq LayerName
           /\ at[r] \in 0..15 /\ resp[r] \in Response
<1>1. input[r] \in InputType  BY ChainAssumption DEF TypeOK
<1>2. RouteOf(r) \in Route  BY <1>1 DEF RouteOf, InputType
<1>3. Conf(r) \in ConfigType  BY <1>2, ChainAssumption DEF Conf
<1>4. LayersOf(r) \subseteq LayerName  BY <1>2, LayersNamed DEF LayersOf
<1> QED  BY <1>1, <1>2, <1>3, <1>4 DEF TypeOK
-----------------------------------------------------------------------------
(***************************************************************************)
(* The shape every step of a request's goroutine has: it moves r and       *)
(* nobody else, writes to r's response through some writer, and meets the  *)
(* other requests only in the throttler and in the limiter.                *)
(***************************************************************************)
MoveStep(r) ==
    /\ \E p \in 0..15 : at' = [at EXCEPT ![r] = p]
    /\ \E m \in Mode : mode' = [mode EXCEPT ![r] = m]

RespStep(r) == \E w : Follows(resp[r], w) /\ Answer(r, w)

HeaderStep(r) ==
    /\ \E s \in Address \cup {"none"} : ip' = [ip EXCEPT ![r] = s]
    /\ \E s \in Kind \cup {"none"} : auth' = [auth EXCEPT ![r] = s]

AuditStep(r) == \E e \in Seq(EntryType) : audit' = [audit EXCEPT ![r] = e]

ThrottleStep(rt, r) ==
    \/ Enqueue(rt, r) \/ Start(rt, r) \/ GiveUp(rt, r) \/ Release(rt, r)
    \/ UNCHANGED throttleVars

LimitStep(rt, r) ==
    \/ Admit(rt, r, KeyOf(r)) \/ Deny(rt, r, KeyOf(r)) \/ CounterFails(r, KeyOf(r))
    \/ UNCHANGED limitVars

Step(r) ==
    /\ UNCHANGED input
    /\ MoveStep(r)
    /\ RespStep(r)
    /\ HeaderStep(r)
    /\ AuditStep(r)
    /\ ThrottleStep(RouteOf(r), r)
    /\ LimitStep(RouteOf(r), r)

\* What a step leaves alone has the shape trivially.
LEMMA IdleParts ==
    ASSUME TypeOK, NEW r \in Request
    PROVE  /\ UNCHANGED <<at, mode>> => MoveStep(r)
           /\ UNCHANGED resp => RespStep(r)
           /\ UNCHANGED <<ip, auth>> => HeaderStep(r)
           /\ UNCHANGED audit => AuditStep(r)
           /\ UNCHANGED <<running, waiting>> => ThrottleStep(RouteOf(r), r)
           /\ UNCHANGED <<key, charge>> => LimitStep(RouteOf(r), r)
<1>1. UNCHANGED <<at, mode>> => MoveStep(r)
  <2> SUFFICES ASSUME UNCHANGED <<at, mode>> PROVE MoveStep(r)  OBVIOUS
  <2>1. at[r] \in 0..15 /\ at' = [at EXCEPT ![r] = at[r]]  BY DEF TypeOK
  <2>2. mode[r] \in Mode /\ mode' = [mode EXCEPT ![r] = mode[r]]  BY DEF TypeOK
  <2> QED  BY <2>1, <2>2 DEF MoveStep
<1>2. UNCHANGED resp => RespStep(r)
  <2> SUFFICES ASSUME UNCHANGED resp PROVE RespStep(r)  OBVIOUS
  <2>1. resp[r] \in Response /\ resp' = [resp EXCEPT ![r] = resp[r]]  BY DEF TypeOK
  <2> QED  BY <2>1, FollowsItself DEF RespStep, Answer
<1>3. UNCHANGED <<ip, auth>> => HeaderStep(r)
  <2> SUFFICES ASSUME UNCHANGED <<ip, auth>> PROVE HeaderStep(r)  OBVIOUS
  <2>1. ip[r] \in Address \cup {"none"} /\ ip' = [ip EXCEPT ![r] = ip[r]]
    BY DEF TypeOK
  <2>2. auth[r] \in Kind \cup {"none"} /\ auth' = [auth EXCEPT ![r] = auth[r]]
    BY DEF TypeOK
  <2> QED  BY <2>1, <2>2 DEF HeaderStep
<1>4. UNCHANGED audit => AuditStep(r)
  <2> SUFFICES ASSUME UNCHANGED audit PROVE AuditStep(r)  OBVIOUS
  <2>1. audit[r] \in Seq(EntryType) /\ audit' = [audit EXCEPT ![r] = audit[r]]
    BY DEF TypeOK
  <2> QED  BY <2>1 DEF AuditStep
<1>5. UNCHANGED <<running, waiting>> => ThrottleStep(RouteOf(r), r)
  BY DEF ThrottleStep, throttleVars
<1>6. UNCHANGED <<key, charge>> => LimitStep(RouteOf(r), r)
  BY DEF LimitStep, limitVars
<1> QED  BY <1>1, <1>2, <1>3, <1>4, <1>5, <1>6

\* Entering, refusing at, panicking in or unwinding to a layer is a move.
LEMMA MoveShape ==
    ASSUME TypeOK, NEW r \in Request, NEW l \in LayerName,
           Pass(r, l) \/ TurnBack(r, l) \/ Blow(r, l) \/ Unwind(r, l)
    PROVE  MoveStep(r)
<1>1. Depth[l] \in 0..15  BY DepthFacts
<1>2. at' = [at EXCEPT ![r] = Depth[l]]  BY DEF Pass, TurnBack, Blow, Unwind
<1>3. \E m \in Mode : mode' = [mode EXCEPT ![r] = m]
  <2>1. CASE UNCHANGED mode
    <3>1. mode[r] \in Mode /\ mode' = [mode EXCEPT ![r] = mode[r]]
      BY <2>1 DEF TypeOK
    <3> QED  BY <3>1
  <2>2. CASE mode' = [mode EXCEPT ![r] = "up"]  BY <2>2 DEF Mode
  <2>3. CASE mode' = [mode EXCEPT ![r] = "panic"]  BY <2>3 DEF Mode
  <2> QED  BY <2>1, <2>2, <2>3 DEF Pass, TurnBack, Blow, Unwind
<1> QED  BY <1>1, <1>2, <1>3 DEF MoveStep

LEMMA AnswerShape ==
    ASSUME NEW r \in Request, NEW w, Follows(resp[r], w), Answer(r, w)
    PROVE  RespStep(r)
BY DEF RespStep

\* An error written at an outer layer, or no write.
LEMMA ErrorShape ==
    ASSUME TypeOK, NEW r \in Request, NEW code \in Nat,
           UNCHANGED resp \/ Answer(r, resp[r]) \/ Answer(r, RawError(resp[r], code))
              \/ Answer(r, RawHeader(resp[r], code))
    PROVE  RespStep(r)
<1>1. resp[r] \in Response  BY DEF TypeOK
<1>2. /\ Follows(resp[r], resp[r])
      /\ Follows(resp[r], RawError(resp[r], code))
      /\ Follows(resp[r], RawHeader(resp[r], code))
  BY <1>1, FollowsItself, RawErrorFollows, RawHeaderFollows
<1> QED  BY <1>2, AnswerShape, IdleParts

\* An answer given at an inner layer, or no write.
LEMMA InnerShape ==
    ASSUME TypeOK, NEW r \in Request, NEW code \in Nat, NEW src \in Source,
           UNCHANGED resp \/ Answer(r, CleanerAnswer(resp[r], code, src))
              \/ Answer(r, CleanerHeader(resp[r], code))
              \/ Answer(r, CleanerWrite(resp[r], src))
    PROVE  RespStep(r)
<1>1. resp[r] \in Response  BY DEF TypeOK
<1>2. /\ Follows(resp[r], CleanerAnswer(resp[r], code, src))
      /\ Follows(resp[r], CleanerHeader(resp[r], code))
      /\ Follows(resp[r], CleanerWrite(resp[r], src))
  BY <1>1, CleanerAnswerFollows, CleanerHeaderFollows, CleanerWriteFollows
<1> QED  BY <1>2, AnswerShape, IdleParts
-----------------------------------------------------------------------------
\* The outer layers, the throttler apart, have the shape.
LEMMA OuterShape ==
    ASSUME TypeOK, NEW r \in Request,
           \/ Descend(r) \/ MethodOnly(r) \/ CORS(r) \/ TrustProxy(r)
           \/ Ensure(r) \/ SetHeaderAuthType(r)
    PROVE  Step(r)
<1>1. /\ input[r] \in InputType /\ RouteOf(r) \in Route
      /\ Conf(r) \in ConfigType /\ resp[r] \in Response
  BY RequestTypes
<1>2. CASE Descend(r)
  <2>1. PICK l \in {"Recoverer", "Timeout", "RemoveHeaders", "App"} : Pass(r, l)
    BY <1>2 DEF Descend
  <2>2. l \in LayerName  BY DEF LayerName
  <2>3. MoveStep(r)  BY <2>1, <2>2, MoveShape
  <2> QED  BY <1>2, <2>3, IdleParts DEF Descend, Step
<1>3. CASE MethodOnly(r)
  <2>1. MoveStep(r)  BY <1>3, MoveShape DEF MethodOnly, LayerName
  <2>2. RespStep(r)  BY <1>3, ErrorShape DEF MethodOnly
  <2> QED  BY <1>3, <2>1, <2>2, IdleParts DEF MethodOnly, Step
<1>4. CASE CORS(r)
  <2> DEFINE w == SetHeaders(resp[r], CorsHeaders(input[r].origin))
  <2>1. MoveStep(r)  BY <1>4, MoveShape DEF CORS, LayerName
  <2>2. CorsHeaders(input[r].origin) \in SUBSET Header
    BY <1>1 DEF CorsHeaders, InputType, Header
  <2>3. Follows(resp[r], w)  BY <1>1, <2>2, SetHeadersFollows
  <2>4. w \in Response  BY <2>3 DEF Follows
  <2>5. Follows(w, RawHeader(w, 204))  BY <2>4, RawHeaderFollows
  <2>6. Follows(resp[r], RawHeader(w, 204))
    BY <1>1, <2>3, <2>5, FollowsTransitive
  <2>7. Answer(r, w) \/ Answer(r, RawHeader(w, 204))  BY <1>4 DEF CORS
  <2>8. RespStep(r)  BY <2>3, <2>6, <2>7, AnswerShape
  <2> QED  BY <1>4, <2>1, <2>8, IdleParts DEF CORS, Step
<1>5. CASE TrustProxy(r)
  <2>1. MoveStep(r)  BY <1>5, MoveShape DEF TrustProxy, LayerName
  <2>2. SeenIP(input[r]) \in Address  BY <1>1 DEF SeenIP, ClientIP, InputType
  <2>3. auth[r] \in Kind \cup {"none"} /\ auth' = [auth EXCEPT ![r] = auth[r]]
    BY <1>5 DEF TrustProxy, TypeOK
  <2>4. HeaderStep(r)  BY <1>5, <2>2, <2>3 DEF TrustProxy, HeaderStep
  <2> QED  BY <1>5, <2>1, <2>4, IdleParts DEF TrustProxy, Step
<1>6. CASE Ensure(r)
  <2> DEFINE status == EnsureStatus(input[r], Conf(r).kind)
  <2>1. MoveStep(r)  BY <1>6, MoveShape DEF Ensure, LayerName
  <2>2. status \in Nat  BY DEF EnsureStatus
  <2>3. RespStep(r)  BY <1>6, <2>2, ErrorShape DEF Ensure
  <2> QED  BY <1>6, <2>1, <2>3, IdleParts DEF Ensure, Step
<1>7. CASE SetHeaderAuthType(r)
  <2>1. MoveStep(r)  BY <1>7, MoveShape DEF SetHeaderAuthType, LayerName
  <2>2. Conf(r).kind \in Kind  BY <1>1 DEF ConfigType
  <2>3. AuthType(Conf(r).kind) \in Kind  BY <2>2 DEF AuthType, Kind, PublicKind, InternalKind
  <2>4. ip[r] \in Address \cup {"none"} /\ ip' = [ip EXCEPT ![r] = ip[r]]
    BY <1>7 DEF SetHeaderAuthType, TypeOK
  <2>5. HeaderStep(r)  BY <1>7, <2>3, <2>4 DEF SetHeaderAuthType, HeaderStep
  <2> QED  BY <1>7, <2>1, <2>5, IdleParts DEF SetHeaderAuthType, Step
<1> QED  BY <1>2, <1>3, <1>4, <1>5, <1>6, <1>7

\* The throttler's four outcomes have the shape.
LEMMA ThrottleShape ==
    ASSUME TypeOK, NEW r \in Request,
           JoinBacklog(r) \/ ThrottleRefuses(r) \/ TakeSlot(r) \/ LeaveBacklog(r)
    PROVE  Step(r)
<1>1. CASE JoinBacklog(r)
  BY <1>1, IdleParts DEF JoinBacklog, Step, ThrottleStep
<1>2. CASE ThrottleRefuses(r)
  <2>1. MoveStep(r)  BY <1>2, MoveShape DEF ThrottleRefuses, LayerName
  <2>2. RespStep(r)  BY <1>2, ErrorShape DEF ThrottleRefuses
  <2>3. ThrottleStep(RouteOf(r), r)
    BY <1>2 DEF ThrottleRefuses, Refuse, ThrottleStep
  <2> QED  BY <1>2, <2>1, <2>2, <2>3, IdleParts DEF ThrottleRefuses, Step
<1>3. CASE TakeSlot(r)
  <2>1. MoveStep(r)  BY <1>3, MoveShape DEF TakeSlot, LayerName
  <2> QED  BY <1>3, <2>1, IdleParts DEF TakeSlot, Step, ThrottleStep
<1>4. CASE LeaveBacklog(r)
  <2>1. MoveStep(r)  BY <1>4, MoveShape DEF LeaveBacklog, LayerName
  <2>2. RespStep(r)  BY <1>4, ErrorShape DEF LeaveBacklog
  <2> QED  BY <1>4, <2>1, <2>2, IdleParts DEF LeaveBacklog, Step, ThrottleStep
<1> QED  BY <1>1, <1>2, <1>3, <1>4

\* A change of the live headers is no write.
LEMMA HeaderChangeFollows ==
    ASSUME NEW w \in Response, NEW v \in HeaderChange(w)
    PROVE  Follows(w, v)
<1>1. PICK hs \in SUBSET AppHeader : v = [w EXCEPT !.hdr = (@ \ AppHeader) \cup hs]
  BY DEF HeaderChange
<1>2. (w.hdr \ AppHeader) \cup hs \in SUBSET Header
  BY ChainAssumption DEF Response
<1> QED  BY <1>1, <1>2 DEF Response, Follows

\* The limiter's hooks, and its outcomes, have the shape.
LEMMA HookShape ==
    ASSUME TypeOK, NEW r \in Request, HookCalls(r) \/ HookStops(r)
    PROVE  Step(r)
<1>1. resp[r] \in Response  BY RequestTypes
<1>2. CASE HookCalls(r)
  <2>1. PICK w : /\ Answer(r, w)
                 /\ \/ w \in HeaderChange(resp[r])
                    \/ \E status \in AppStatus : w = AppRawHeader(resp[r], status)
                    \/ w = AppRawWrite(resp[r])
    BY <1>2 DEF HookCalls
  <2>2. \A status \in AppStatus : status \in Nat  BY ChainAssumption
  <2>3. ASSUME w \in HeaderChange(resp[r]) PROVE RespStep(r)
    BY <1>1, <2>1, <2>3, HeaderChangeFollows DEF RespStep
  <2>4. ASSUME NEW status \in AppStatus, w = AppRawHeader(resp[r], status)
        PROVE  RespStep(r)
    BY <1>1, <2>1, <2>2, <2>4, AppRawFollows DEF RespStep
  <2>5. ASSUME w = AppRawWrite(resp[r]) PROVE RespStep(r)
    BY <1>1, <2>1, <2>5, AppRawFollows DEF RespStep
  <2>6. RespStep(r)  BY <2>1, <2>3, <2>4, <2>5
  <2> QED  BY <1>2, <2>6, IdleParts DEF HookCalls, Step
<1>3. CASE HookStops(r)
  <2>1. MoveStep(r)  BY <1>3, MoveShape DEF HookStops, LayerName
  <2> QED  BY <1>3, <2>1, IdleParts DEF HookStops, Step
<1> QED  BY <1>2, <1>3

LEMMA LimiterShape ==
    ASSUME TypeOK, NEW r \in Request,
           \/ RateBypass(r) \/ RateAdmits(r) \/ PassRateLimit(r)
           \/ RateDenies(r) \/ RateCounterFails(r)
    PROVE  Step(r)
<1>1. CASE RateBypass(r)
  <2>1. MoveStep(r)  BY <1>1, MoveShape DEF RateBypass, LayerName
  <2> QED  BY <1>1, <2>1, IdleParts DEF RateBypass, Step
<1>2. CASE RateAdmits(r)
  BY <1>2, IdleParts DEF RateAdmits, Step, LimitStep
<1>3. CASE PassRateLimit(r)
  <2>1. MoveStep(r)  BY <1>3, MoveShape DEF PassRateLimit, LayerName
  <2> QED  BY <1>3, <2>1, IdleParts DEF PassRateLimit, Step
<1>4. CASE RateDenies(r)
  <2>1. MoveStep(r)  BY <1>4, MoveShape DEF RateDenies, LayerName
  <2>2. RespStep(r)  BY <1>4, ErrorShape DEF RateDenies
  <2> QED  BY <1>4, <2>1, <2>2, IdleParts DEF RateDenies, Step, LimitStep
<1>5. CASE RateCounterFails(r)
  <2>1. MoveStep(r)  BY <1>5, MoveShape DEF RateCounterFails, LayerName
  <2>2. RespStep(r)  BY <1>5, ErrorShape DEF RateCounterFails
  <2> QED  BY <1>5, <2>1, <2>2, IdleParts DEF RateCounterFails, Step, LimitStep
<1> QED  BY <1>1, <1>2, <1>3, <1>4, <1>5

\* What adminCheck or the handler does to the writer respects what is out.
LEMMA WrittenFollows ==
    ASSUME NEW w \in Response, NEW v \in Written(w)
    PROVE  Follows(w, v)
<1>1. \A status \in AppStatus : status \in Nat  BY ChainAssumption
<1>2. CASE v \in HeaderChange(w)  BY <1>2, HeaderChangeFollows
<1>3. ASSUME NEW status \in AppStatus, v = CleanerHeader(w, status)
      PROVE  Follows(w, v)
  BY <1>1, <1>3, CleanerHeaderFollows
<1>4. CASE v = CleanerWrite(w, "app")
  BY <1>4, CleanerWriteFollows DEF Source
<1> QED  BY <1>2, <1>3, <1>4 DEF Written

\* The inner layers, ContextInjector and adminCheck have the shape.
LEMMA InnerLayerShape ==
    ASSUME TypeOK, NEW r \in Request,
           \/ EnterLogger(r) \/ SecureHeaders(r) \/ MaxBodySize(r)
           \/ InjectorPanics(r) \/ AdminCheckCalls(r) \/ AdminCheck(r)
    PROVE  Step(r)
<1>1. resp[r] \in Response  BY RequestTypes
<1>2. CASE EnterLogger(r)
  <2>1. MoveStep(r)  BY <1>2, MoveShape DEF EnterLogger, LayerName
  <2>2. RespStep(r)  BY <1>2, ErrorShape DEF EnterLogger
  <2> QED  BY <1>2, <2>1, <2>2, IdleParts DEF EnterLogger, Step
<1>3. CASE SecureHeaders(r)
  <2>1. MoveStep(r)  BY <1>3, MoveShape DEF SecureHeaders, LayerName
  <2>2. Follows(resp[r], SetHeaders(resp[r], {"Security"}))
    BY <1>1, SetHeadersFollows DEF Header
  <2>3. RespStep(r)  BY <1>3, <2>2, AnswerShape DEF SecureHeaders
  <2> QED  BY <1>3, <2>1, <2>3, IdleParts DEF SecureHeaders, Step
<1>4. CASE MaxBodySize(r)
  <2>1. MoveStep(r)  BY <1>4, MoveShape DEF MaxBodySize, LayerName
  <2>2. BodyStatus(input[r]) \in Nat /\ "error" \in Source
    BY DEF BodyStatus, Source
  <2>3. RespStep(r)  BY <1>4, <2>2, InnerShape DEF MaxBodySize
  <2> QED  BY <1>4, <2>1, <2>3, IdleParts DEF MaxBodySize, Step
<1>5. CASE InjectorPanics(r)
  <2>1. MoveStep(r)  BY <1>5, MoveShape DEF InjectorPanics, LayerName
  <2> QED  BY <1>5, <2>1, IdleParts DEF InjectorPanics, Step
<1>6. CASE AdminCheckCalls(r)
  <2>1. RespStep(r)  BY <1>1, <1>6, WrittenFollows DEF AdminCheckCalls, RespStep
  <2> QED  BY <1>6, <2>1, IdleParts DEF AdminCheckCalls, Step
<1>7. CASE AdminCheck(r)
  <2>1. MoveStep(r)  BY <1>7, MoveShape DEF AdminCheck, LayerName
  <2> QED  BY <1>7, <2>1, IdleParts DEF AdminCheck, Step
<1> QED  BY <1>2, <1>3, <1>4, <1>5, <1>6, <1>7

\* The application's handler and PreSignHandler's own have the shape.
LEMMA AppShape ==
    ASSUME TypeOK, NEW r \in Request, App(r)
    PROVE  Step(r)
<1>1. resp[r] \in Response /\ "app" \in Source /\ "error" \in Source
  BY RequestTypes DEF Source
<1>2. at[r] \in 0..15 /\ at = [at EXCEPT ![r] = at[r]]  BY DEF TypeOK
<1>3. CASE AppCalls(r)
  <2>1. RespStep(r)  BY <1>1, <1>3, WrittenFollows DEF AppCalls, RespStep
  <2> QED  BY <1>3, <2>1, IdleParts DEF AppCalls, Step
<1>4. CASE AppReturns(r)
  <2>1. MoveStep(r)  BY <1>2, <1>4 DEF AppReturns, MoveStep, Mode
  <2> QED  BY <1>4, <2>1, IdleParts DEF AppReturns, Step
<1>5. CASE AppPanics(r)
  <2>1. MoveStep(r)  BY <1>2, <1>5 DEF AppPanics, MoveStep, Mode
  <2> QED  BY <1>5, <2>1, IdleParts DEF AppPanics, Step
<1>6. CASE PreSign(r)
  <2>1. MoveStep(r)  BY <1>2, <1>6 DEF PreSign, MoveStep, Mode
  <2>2. \/ Answer(r, CleanerAnswer(resp[r], 200, "app"))
        \/ Answer(r, CleanerAnswer(resp[r], 400, "error"))
    BY <1>6 DEF PreSign
  <2>3. RespStep(r)  BY <1>1, <2>2, InnerShape
  <2> QED  BY <1>6, <2>1, <2>3, IdleParts DEF PreSign, Step
<1> QED  BY <1>3, <1>4, <1>5, <1>6 DEF App

\* The way up has the shape.
LEMMA ExitShape ==
    ASSUME TypeOK, NEW r \in Request, Exit(r)
    PROVE  Step(r)
<1>1. resp[r] \in Response  BY RequestTypes
<1>2. CASE LeaveLogger(r)
  <2>1. MoveStep(r)  BY <1>2, MoveShape DEF LeaveLogger, LayerName
  <2>2. Entry(r) \in EntryType  BY <1>1 DEF Entry, EntryType, Response
  <2>3. audit[r] \in Seq(EntryType)  BY DEF TypeOK
  <2>4. Append(audit[r], Entry(r)) \in Seq(EntryType)  BY <2>2, <2>3
  <2>5. AuditStep(r)  BY <1>2, <2>4 DEF LeaveLogger, AuditStep
  <2> QED  BY <1>2, <2>1, <2>5, IdleParts DEF LeaveLogger, Step
<1>3. CASE LeaveTimeout(r)
  <2>1. MoveStep(r)  BY <1>3, MoveShape DEF LeaveTimeout, LayerName
  <2>2. RespStep(r)  BY <1>3, ErrorShape DEF LeaveTimeout
  <2> QED  BY <1>3, <2>1, <2>2, IdleParts DEF LeaveTimeout, Step
<1>4. CASE LeaveThrottle(r)
  <2>1. MoveStep(r)  BY <1>4, MoveShape DEF LeaveThrottle, LayerName
  <2> QED  BY <1>4, <2>1, IdleParts DEF LeaveThrottle, Step, ThrottleStep
<1>5. CASE Recover(r)
  <2>1. MoveStep(r)  BY <1>5, MoveShape DEF Recover, LayerName
  <2>2. RespStep(r)  BY <1>5, ErrorShape DEF Recover
  <2> QED  BY <1>5, <2>1, <2>2, IdleParts DEF Recover, Step
<1>6. CASE Finish(r)
  <2>1. at[r] \in 0..15 /\ at = [at EXCEPT ![r] = at[r]]  BY DEF TypeOK
  <2>2. MoveStep(r)  BY <1>6, <2>1 DEF Finish, MoveStep, Mode
  <2>3. RespStep(r)  BY <1>6, ErrorShape DEF Finish
  <2> QED  BY <1>6, <2>2, <2>3, IdleParts DEF Finish, Step
<1> QED  BY <1>2, <1>3, <1>4, <1>5, <1>6 DEF Exit

LEMMA HandleShape ==
    ASSUME TypeOK, NEW r \in Request, Handle(r)
    PROVE  Step(r)
BY OuterShape, ThrottleShape, HookShape, LimiterShape, InnerLayerShape, AppShape, ExitShape
   DEF Handle, Enter
-----------------------------------------------------------------------------
\* Type correctness

LEMMA InitType == Init => TypeOK
<1> SUFFICES ASSUME Init PROVE TypeOK  OBVIOUS
<1>1. input \in [Request -> Inputs]  BY DEF Init
<1>2. \A r \in Request : input[r] \in InputType  BY <1>1, ChainAssumption
<1>3. ip \in [Request -> Address \cup {"none"}]  BY <1>2 DEF Init, InputType
<1>4. resp \in [Request -> Response]  BY NewResponseType DEF Init
<1>5. ThrottleTypeOK  BY DEF Init, ThrottleInit, ThrottleTypeOK
<1>6. key \in [Request -> Key] /\ charge \in [Request -> Window]
  BY DEF Init, RateLimitInit, NoKey, Window, Key
<1>7. audit \in [Request -> Seq(EntryType)]
  <2>1. << >> \in Seq(EntryType)  OBVIOUS
  <2> QED  BY <2>1 DEF Init
<1>8. /\ at \in [Request -> 0..15] /\ mode \in [Request -> Mode]
      /\ auth \in [Request -> Kind \cup {"none"}]
  BY DEF Init, Mode
<1> QED  BY <1>1, <1>3, <1>4, <1>5, <1>6, <1>7, <1>8 DEF TypeOK

\* The key the limiter counts under is made of typed parts.
LEMMA KeyType ==
    ASSUME TypeOK, NEW r \in Request
    PROVE  KeyOf(r) \in Key
<1>1. /\ RouteOf(r) \in Route /\ input[r].token \in Token
      /\ input[r].agent \in Agent /\ input[r].app \in AppID
  BY RequestTypes DEF InputType
<1>2. auth[r] \in Kind \cup {"none"} /\ ip[r] \in Address \cup {"none"}
  BY DEF TypeOK
<1>3. CASE auth[r] \in {"public-api-key", "public-auth"}
  BY <1>1, <1>2, <1>3 DEF KeyOf, RateKey, ByToken, Key, Kind, PublicKind
<1>4. CASE auth[r] \notin {"public-api-key", "public-auth"}
  BY <1>1, <1>2, <1>4 DEF KeyOf, RateKey, ByAddress, Key, Kind, PublicKind
<1> QED  BY <1>3, <1>4

LEMMA StepType ==
    ASSUME TypeOK, NEW r \in Request, Step(r)
    PROVE  TypeOK'
<1>1. input' \in [Request -> Inputs]  BY DEF Step, TypeOK
<1>2. at' \in [Request -> 0..15] /\ mode' \in [Request -> Mode]
  BY DEF Step, MoveStep, TypeOK
<1>3. resp' \in [Request -> Response]
  BY DEF Step, RespStep, Answer, Follows, TypeOK
<1>4. /\ ip' \in [Request -> Address \cup {"none"}]
      /\ auth' \in [Request -> Kind \cup {"none"}]
  BY DEF Step, HeaderStep, TypeOK
<1>5. audit' \in [Request -> Seq(EntryType)]  BY DEF Step, AuditStep, TypeOK
<1>6. ThrottleTypeOK'
  <2>1. RouteOf(r) \in Route  BY RequestTypes
  <2>2. ThrottleTypeOK /\ ThrottleStep(RouteOf(r), r)  BY DEF TypeOK, Step
  <2> QED  BY <2>1, <2>2, ThrottleType DEF ThrottleStep
<1>7. key' \in [Request -> Key] /\ charge' \in [Request -> Window]
  BY KeyType DEF Step, LimitStep, Admit, Deny, CounterFails, limitVars, TypeOK, Window
<1> QED  BY <1>1, <1>2, <1>3, <1>4, <1>5, <1>6, <1>7 DEF TypeOK

\* A save goroutine settles an entry in place.
LEMMA SaveType ==
    ASSUME TypeOK, NEW r \in Request, Save(r)
    PROVE  TypeOK'
<1>1. PICK n \in DOMAIN audit[r], outcome \in {"saved", "lost"} :
        audit' = [audit EXCEPT ![r][n].state = outcome]
  BY DEF Save
<1>2. audit[r] \in Seq(EntryType)  BY DEF TypeOK
<1>3. audit[r][n] \in EntryType  BY <1>2
<1>4. [audit[r][n] EXCEPT !.state = outcome] \in EntryType
  BY <1>3 DEF EntryType
<1>5. [audit[r] EXCEPT ![n].state = outcome] \in Seq(EntryType)
  BY <1>2, <1>4
<1>6. audit' \in [Request -> Seq(EntryType)]  BY <1>1, <1>5 DEF TypeOK
<1> QED  BY <1>6 DEF Save, TypeOK, ThrottleTypeOK

LEMMA TickType ==
    ASSUME TypeOK, NEW rt \in Route, Tick(rt)
    PROVE  TypeOK'
<1>1. charge' \in [Request -> Window]  BY DEF Tick, WindowTick, TypeOK, Window
<1> QED  BY <1>1 DEF Tick, WindowTick, TypeOK, ThrottleTypeOK

LEMMA IdleType ==
    ASSUME TypeOK, UNCHANGED vars
    PROVE  TypeOK'
BY DEF TypeOK, ThrottleTypeOK, vars

LEMMA NextType == TypeOK /\ [Next]_vars => TypeOK'
<1> SUFFICES ASSUME TypeOK, [Next]_vars PROVE TypeOK'  OBVIOUS
<1>1. ASSUME NEW r \in Request, Handle(r) PROVE TypeOK'
  BY <1>1, HandleShape, StepType
<1> QED  BY <1>1, SaveType, TickType, IdleType DEF Next, Settled

\* Every variable keeps its type, for every configuration of the routes.
THEOREM TypeCorrect == Spec => []TypeOK
BY InitType, NextType, PTL DEF Spec
-----------------------------------------------------------------------------
(***************************************************************************)
(* The chain uses the throttler as Throttle prescribes: a refinement that  *)
(* carries the throttler's bounds over to the chain.                       *)
(***************************************************************************)
LEMMA ThrottleSteps == TypeOK /\ [Next]_vars => [ThrottleNext]_throttleVars
<1> SUFFICES ASSUME TypeOK, [Next]_vars PROVE [ThrottleNext]_throttleVars  OBVIOUS
<1>1. ASSUME NEW r \in Request, Handle(r) PROVE [ThrottleNext]_throttleVars
  <2>1. Step(r) /\ RouteOf(r) \in Route  BY <1>1, HandleShape, RequestTypes
  <2> QED  BY <2>1 DEF Step, ThrottleStep, ThrottleNext
<1>2. ASSUME NEW r \in Request, Save(r) PROVE [ThrottleNext]_throttleVars
  BY <1>2 DEF Save, throttleVars
<1>3. ASSUME NEW rt \in Route, Tick(rt) PROVE [ThrottleNext]_throttleVars
  BY <1>3 DEF Tick, throttleVars
<1>4. ASSUME UNCHANGED vars PROVE [ThrottleNext]_throttleVars
  BY <1>4 DEF vars, throttleVars
<1> QED  BY <1>1, <1>2, <1>3, <1>4 DEF Next, Settled

\* The chain implements the throttler.
THEOREM ChainThrottles == Spec => ThrottleSpec
<1>1. Init => ThrottleInit  BY DEF Init
<1> QED  BY <1>1, TypeCorrect, ThrottleSteps, PTL DEF Spec, ThrottleSpec

\* In every chain at most Limit requests of a route are below its throttler
\* and at most Limit + Backlog have entered it (ThrottleLimit and
\* ThrottleBacklog, src/chain.go).
LEMMA ChainCapacity == Spec => []Capacity
BY ChainThrottles, ThrottleCapacity, PTL
-----------------------------------------------------------------------------
(***************************************************************************)
(* Where control goes.  Apart from the throttler's own steps, a step of r  *)
(* enters, refuses at or panics in a layer it reaches; stays in front of   *)
(* it while the application's code there writes, or the limiter admits;    *)
(* moves inside the handler; unwinds to a deferred layer; or is at the end *)
(* of the way up.                                                          *)
(***************************************************************************)
Advance(r) ==
    \E l \in LayersOf(r) \ {"Throttle"} :
        /\ Reaches(r, l)
        /\ Pass(r, l) \/ TurnBack(r, l) \/ Blow(r, l)
        /\ UNCHANGED <<audit, running, waiting>>

Pauses(r) == UNCHANGED <<at, mode, audit, running, waiting>>

InHandler(r) ==
    /\ InApp(r)
    /\ UNCHANGED <<at, audit, running, waiting>>
    /\ \/ UNCHANGED mode
       \/ \E m \in {"up", "panic"} : mode' = [mode EXCEPT ![r] = m]

AtEnd(r) ==
    /\ Unwinding(r) /\ Unwound(r)
    /\ UNCHANGED <<audit, running, waiting>>
    /\ \/ TurnBack(r, "Recoverer")
       \/ UNCHANGED at /\ mode' = [mode EXCEPT ![r] = "done"]

Control(r) ==
    \/ Advance(r) \/ Pauses(r) \/ InHandler(r) \/ AtEnd(r)
    \/ JoinBacklog(r) \/ ThrottleRefuses(r) \/ TakeSlot(r) \/ LeaveBacklog(r)
    \/ LeaveLogger(r) \/ LeaveTimeout(r) \/ LeaveThrottle(r)

\* Entering a layer other than the throttler is an advance.
LEMMA AdvanceBy ==
    ASSUME NEW r \in Request, NEW l, l # "Throttle", Reaches(r, l),
           Pass(r, l) \/ TurnBack(r, l) \/ Blow(r, l),
           UNCHANGED <<audit, running, waiting>>
    PROVE  Advance(r)
BY DEF Advance, Reaches

LEMMA OuterControl ==
    ASSUME NEW r \in Request,
           \/ Descend(r) \/ MethodOnly(r) \/ CORS(r) \/ TrustProxy(r)
           \/ Ensure(r) \/ SetHeaderAuthType(r)
    PROVE  Advance(r)
<1>1. CASE Descend(r)
  <2>1. PICK l \in {"Recoverer", "Timeout", "RemoveHeaders", "App"} :
          Reaches(r, l) /\ Pass(r, l)
    BY <1>1 DEF Descend
  <2>2. UNCHANGED <<audit, running, waiting>>  BY <1>1 DEF Descend
  <2> QED  BY <2>1, <2>2, AdvanceBy
<1>2. CASE MethodOnly(r)  BY <1>2, AdvanceBy DEF MethodOnly
<1>3. CASE CORS(r)  BY <1>3, AdvanceBy DEF CORS
<1>4. CASE TrustProxy(r)  BY <1>4, AdvanceBy DEF TrustProxy
<1>5. CASE Ensure(r)  BY <1>5, AdvanceBy DEF Ensure
<1>6. CASE SetHeaderAuthType(r)  BY <1>6, AdvanceBy DEF SetHeaderAuthType
<1> QED  BY <1>1, <1>2, <1>3, <1>4, <1>5, <1>6

LEMMA LimiterControl ==
    ASSUME NEW r \in Request,
           \/ RateBypass(r) \/ HookCalls(r) \/ HookStops(r) \/ RateAdmits(r)
           \/ PassRateLimit(r) \/ RateDenies(r) \/ RateCounterFails(r)
    PROVE  Advance(r) \/ Pauses(r)
<1>1. CASE RateBypass(r)  BY <1>1, AdvanceBy DEF RateBypass
<1>2. CASE HookCalls(r)  BY <1>2 DEF HookCalls, Pauses
<1>3. CASE HookStops(r)  BY <1>3, AdvanceBy DEF HookStops, AtHook
<1>4. CASE RateAdmits(r)  BY <1>4 DEF RateAdmits, Pauses
<1>5. CASE PassRateLimit(r)  BY <1>5, AdvanceBy DEF PassRateLimit
<1>6. CASE RateDenies(r)  BY <1>6, AdvanceBy DEF RateDenies, AtLimiter
<1>7. CASE RateCounterFails(r)  BY <1>7, AdvanceBy DEF RateCounterFails, AtLimiter
<1> QED  BY <1>1, <1>2, <1>3, <1>4, <1>5, <1>6, <1>7

LEMMA InnerLayerControl ==
    ASSUME NEW r \in Request,
           \/ EnterLogger(r) \/ SecureHeaders(r) \/ MaxBodySize(r)
           \/ InjectorPanics(r) \/ AdminCheckCalls(r) \/ AdminCheck(r)
    PROVE  Advance(r) \/ Pauses(r)
<1>1. CASE EnterLogger(r)  BY <1>1, AdvanceBy DEF EnterLogger
<1>2. CASE SecureHeaders(r)  BY <1>2, AdvanceBy DEF SecureHeaders
<1>3. CASE MaxBodySize(r)  BY <1>3, AdvanceBy DEF MaxBodySize
<1>4. CASE InjectorPanics(r)  BY <1>4, AdvanceBy DEF InjectorPanics
<1>5. CASE AdminCheckCalls(r)  BY <1>5 DEF AdminCheckCalls, Pauses
<1>6. CASE AdminCheck(r)  BY <1>6, AdvanceBy DEF AdminCheck
<1> QED  BY <1>1, <1>2, <1>3, <1>4, <1>5, <1>6

LEMMA HandleControl ==
    ASSUME NEW r \in Request, Handle(r)
    PROVE  Control(r)
<1>1. CASE Enter(r)
  BY <1>1, OuterControl, LimiterControl, InnerLayerControl DEF Enter, Control
<1>2. CASE App(r)
  BY <1>2 DEF App, AppCalls, AppReturns, AppPanics, PreSign, Control, InHandler
<1>3. CASE Exit(r)
  <2>1. CASE Recover(r)  BY <2>1 DEF Recover, Unwinding, AtEnd, Control
  <2>2. CASE Finish(r)  BY <2>2 DEF Finish, Unwinding, AtEnd, Control
  <2> QED  BY <1>3, <2>1, <2>2 DEF Exit, Control
<1> QED  BY <1>1, <1>2, <1>3 DEF Handle
-----------------------------------------------------------------------------
(***************************************************************************)
(* Tokens are held exactly inside the throttler.  The invariant also says  *)
(* where a waiting request is: about to enter its route's throttler.       *)
(***************************************************************************)
Holds(r, rt) ==
    /\ r \in running[rt] <=> /\ rt = RouteOf(r)
                             /\ "Throttle" \in LayersOf(r)
                             /\ Inside(r, "Throttle")
    /\ r \in waiting[rt] => rt = RouteOf(r) /\ Reaches(r, "Throttle")

Slots == \A r \in Request, rt \in Route : Holds(r, rt)

SlotInv == TypeOK /\ Slots

LEMMA SlotInit == Init => SlotInv
<1> SUFFICES ASSUME Init PROVE SlotInv  OBVIOUS
<1>1. TypeOK  BY InitType
<1>2. ASSUME NEW r \in Request, NEW rt \in Route PROVE Holds(r, rt)
  BY DEF Init, ThrottleInit, Holds, Inside, Unwinding, Depth
<1> QED  BY <1>1, <1>2 DEF SlotInv, Slots

\* What the input fixes stays fixed.
LEMMA FixedByInput ==
    ASSUME UNCHANGED input, NEW r \in Request
    PROVE  RouteOf(r)' = RouteOf(r) /\ LayersOf(r)' = LayersOf(r)
BY DEF RouteOf, LayersOf

\* A request about which nothing changes keeps its places.
LEMMA HoldsStill ==
    ASSUME NEW r \in Request, NEW rt \in Route, Holds(r, rt), UNCHANGED input,
           at'[r] = at[r], mode'[r] = mode[r],
           r \in running'[rt] <=> r \in running[rt],
           r \in waiting'[rt] <=> r \in waiting[rt]
    PROVE  Holds(r, rt)'
BY FixedByInput DEF Holds, Inside, Reaches, Unwinding

\* A step of q does not touch the places of r.
LEMMA OthersHold ==
    ASSUME SlotInv, NEW q \in Request, Step(q), NEW r \in Request \ {q},
           NEW rt \in Route
    PROVE  Holds(r, rt)'
<1>1. RouteOf(q) \in Route /\ Holds(r, rt)  BY RequestTypes DEF SlotInv, Slots
<1>2. UNCHANGED input /\ at'[r] = at[r] /\ mode'[r] = mode[r]
  BY DEF Step, MoveStep, SlotInv, TypeOK
<1>3. /\ r \in running'[rt] <=> r \in running[rt]
      /\ r \in waiting'[rt] <=> r \in waiting[rt]
  BY <1>1 DEF Step, ThrottleStep, Enqueue, Start, GiveUp, Release, throttleVars,
     SlotInv, TypeOK, ThrottleTypeOK
<1> QED  BY <1>1, <1>2, <1>3, HoldsStill

\* Two layers that are both next are the same layer.
LEMMA OneNext ==
    ASSUME TypeOK, NEW r \in Request, NEW k, NEW l, Reaches(r, k), Reaches(r, l)
    PROVE  k = l
<1>1. k \in LayerName /\ l \in LayerName  BY RequestTypes DEF Reaches
<1>2. at[r] \in 0..15 /\ Depth[k] \in 1..15 /\ Depth[l] \in 1..15
  BY <1>1, DepthFacts, RequestTypes
<1>3. Depth[k] = Depth[l]  BY <1>2 DEF Reaches
<1> QED  BY <1>1, <1>3, DepthFacts

LEMMA AdvanceHolds ==
    ASSUME SlotInv, NEW r \in Request, Advance(r), UNCHANGED input, NEW rt \in Route
    PROVE  Holds(r, rt)'
<1>1. PICK l \in LayersOf(r) \ {"Throttle"} :
        /\ Reaches(r, l)
        /\ Pass(r, l) \/ TurnBack(r, l) \/ Blow(r, l)
        /\ UNCHANGED <<audit, running, waiting>>
  BY DEF Advance
<1>2. TypeOK /\ Holds(r, rt)  BY DEF SlotInv, Slots
<1>3. r \notin waiting[rt]  BY <1>1, <1>2, OneNext DEF Holds
<1>4. l \in LayerName /\ l # "Throttle"  BY <1>1, <1>2, RequestTypes
<1>5. Depth[l] \in 1..15 /\ at[r] \in 0..15 /\ Depth[l] # 4
  BY <1>2, <1>4, DepthFacts, RequestTypes DEF LayerName, Depth
<1>6. at'[r] = Depth[l] /\ mode'[r] \in {"down", "up", "panic"}
  BY <1>1, <1>2 DEF Pass, TurnBack, Blow, Reaches, TypeOK
<1>7. ASSUME "Throttle" \in LayersOf(r)
      PROVE  Inside(r, "Throttle")' <=> Inside(r, "Throttle")
  <2>1. mode[r] = "down" /\ at[r] < Depth[l] /\ (4 <= at[r] \/ Depth[l] <= 4)
    BY <1>1, <1>7 DEF Reaches, Depth
  <2>2. Inside(r, "Throttle") <=> 4 <= at[r]
    BY <2>1 DEF Inside, Unwinding, Depth
  <2>3. Inside(r, "Throttle")' <=> 4 < Depth[l]
    BY <1>5, <1>6 DEF Inside, Unwinding, Depth
  <2> QED  BY <1>5, <2>1, <2>2, <2>3
<1> QED  BY <1>1, <1>2, <1>3, <1>7, FixedByInput DEF Holds

LEMMA ThrottlerHolds ==
    ASSUME SlotInv, NEW r \in Request, NEW rt \in Route,
           \/ JoinBacklog(r) \/ ThrottleRefuses(r) \/ TakeSlot(r)
           \/ LeaveBacklog(r) \/ LeaveThrottle(r)
    PROVE  Holds(r, rt)'
<1>1. /\ TypeOK /\ Holds(r, rt) /\ RouteOf(r) \in Route /\ at[r] \in 0..15
      /\ running \in [Route -> SUBSET Request]
      /\ waiting \in [Route -> SUBSET Request]
  BY RequestTypes DEF SlotInv, Slots, TypeOK, ThrottleTypeOK
<1>2. UNCHANGED input
  BY DEF JoinBacklog, ThrottleRefuses, TakeSlot, LeaveBacklog, LeaveThrottle
<1>3. RouteOf(r)' = RouteOf(r) /\ LayersOf(r)' = LayersOf(r)
  BY <1>2, FixedByInput
<1>4. CASE JoinBacklog(r)
  <2>1. UNCHANGED <<at, mode>> /\ Reaches(r, "Throttle")
    BY <1>4 DEF JoinBacklog
  <2>2. Reaches(r, "Throttle")' /\ (Inside(r, "Throttle")' <=> Inside(r, "Throttle"))
    BY <1>3, <2>1 DEF Reaches, Inside, Unwinding
  <2> QED  BY <1>1, <1>3, <1>4, <2>2 DEF JoinBacklog, Enqueue, Holds
<1>5. CASE ThrottleRefuses(r)
  <2>1. ~Inside(r, "Throttle")
    BY <1>1, <1>5 DEF ThrottleRefuses, Reaches, Inside, Unwinding, Depth
  <2>2. ~Inside(r, "Throttle")'
    BY <1>1, <1>5 DEF ThrottleRefuses, TurnBack, Inside, Unwinding, Depth, TypeOK
  <2>3. r \notin waiting[rt] /\ UNCHANGED <<running, waiting>>
    BY <1>1, <1>5 DEF ThrottleRefuses, Refuse, Held, throttleVars, Holds
  <2> QED  BY <1>1, <2>1, <2>2, <2>3 DEF Holds
<1>6. CASE TakeSlot(r)
  <2>1. Inside(r, "Throttle")' /\ "Throttle" \in LayersOf(r)
    BY <1>1, <1>6 DEF TakeSlot, Pass, Reaches, Inside, Unwinding, Depth, TypeOK
  <2>2. ~Inside(r, "Throttle")
    BY <1>1, <1>6 DEF TakeSlot, Reaches, Inside, Unwinding, Depth
  <2>3. Start(RouteOf(r), r)  BY <1>6 DEF TakeSlot
  <2>4. r \in running'[rt] <=> rt = RouteOf(r)
    BY <1>1, <2>2, <2>3 DEF Start, Holds
  <2>5. r \notin waiting'[rt]  BY <1>1, <2>3 DEF Start, Holds
  <2> QED  BY <1>3, <2>1, <2>4, <2>5 DEF Holds
<1>7. CASE LeaveBacklog(r)
  <2>1. ~Inside(r, "Throttle")
    BY <1>1, <1>7 DEF LeaveBacklog, Reaches, Inside, Unwinding, Depth
  <2>2. ~Inside(r, "Throttle")'
    BY <1>1, <1>7 DEF LeaveBacklog, TurnBack, Inside, Unwinding, Depth, TypeOK
  <2>3. r \notin waiting'[rt] /\ UNCHANGED running
    BY <1>1, <1>7 DEF LeaveBacklog, GiveUp, Holds
  <2> QED  BY <1>1, <2>1, <2>2, <2>3 DEF Holds
<1>8. CASE LeaveThrottle(r)
  <2>1. ~Inside(r, "Throttle")'
    BY <1>1, <1>8 DEF LeaveThrottle, Unwind, Leaves, Inside, Unwinding, Depth, TypeOK
  <2>2. r \notin running'[rt] /\ UNCHANGED waiting
    BY <1>1, <1>8 DEF LeaveThrottle, Release, Holds
  <2>3. r \notin waiting[rt]
    BY <1>1, <1>8 DEF LeaveThrottle, Leaves, Unwinding, Holds, Reaches
  <2> QED  BY <2>1, <2>2, <2>3 DEF Holds
<1> QED  BY <1>4, <1>5, <1>6, <1>7, <1>8

\* Inside the handler and on the way up past the inner layers the token stays;
\* at the end of the way up there is none left.
LEMMA UnwindHolds ==
    ASSUME SlotInv, NEW r \in Request, NEW rt \in Route, UNCHANGED input,
           InHandler(r) \/ AtEnd(r) \/ LeaveLogger(r) \/ LeaveTimeout(r)
    PROVE  Holds(r, rt)'
<1>1. TypeOK /\ Holds(r, rt) /\ at[r] \in 0..15
  BY RequestTypes DEF SlotInv, Slots
<1>2. RouteOf(r)' = RouteOf(r) /\ LayersOf(r)' = LayersOf(r)  BY FixedByInput
<1>3. UNCHANGED <<running, waiting>>
  BY DEF InHandler, AtEnd, LeaveLogger, LeaveTimeout
<1>4. r \notin waiting[rt]
  BY <1>1 DEF InHandler, InApp, AtEnd, LeaveLogger, LeaveTimeout, Leaves,
     Unwinding, Holds, Reaches, Depth
<1>5. ASSUME "Throttle" \in LayersOf(r)
      PROVE  Inside(r, "Throttle")' <=> Inside(r, "Throttle")
  <2>1. CASE InHandler(r)
    BY <1>1, <2>1 DEF InHandler, InApp, Inside, Unwinding, Depth, TypeOK
  <2>2. CASE AtEnd(r)
    BY <1>1, <1>5, <2>2 DEF AtEnd, TurnBack, Unwound, Deferred, Inside, Unwinding,
       Depth, TypeOK
  <2>3. CASE LeaveLogger(r) \/ LeaveTimeout(r)
    BY <1>1, <2>3 DEF LeaveLogger, LeaveTimeout, Leaves, Unwind, Inside, Unwinding,
       Depth, TypeOK
  <2> QED  BY <2>1, <2>2, <2>3
<1> QED  BY <1>1, <1>2, <1>3, <1>4, <1>5 DEF Holds

LEMMA SlotStep == SlotInv /\ [Next]_vars => SlotInv'
<1> SUFFICES ASSUME SlotInv, [Next]_vars PROVE SlotInv'  OBVIOUS
<1>1. TypeOK'  BY NextType DEF SlotInv
<1>2. ASSUME NEW q \in Request, Handle(q), NEW r \in Request, NEW rt \in Route
      PROVE  Holds(r, rt)'
  <2>1. Step(q) /\ Control(q) /\ UNCHANGED input
    BY <1>2, HandleShape, HandleControl DEF SlotInv, Step
  <2>2. CASE r # q  BY <2>1, <2>2, OthersHold
  <2>3. CASE r = q
    <3>1. CASE Pauses(r)
      BY <2>1, <3>1, HoldsStill DEF Pauses, SlotInv, Slots
    <3> QED  BY <2>1, <2>3, <3>1, AdvanceHolds, ThrottlerHolds, UnwindHolds DEF Control
  <2> QED  BY <2>2, <2>3
<1>3. ASSUME UNCHANGED <<input, at, mode, running, waiting>> PROVE Slots'
  BY <1>3, HoldsStill DEF SlotInv, Slots
<1>4. CASE \E q \in Request : Handle(q)  BY <1>1, <1>2, <1>4 DEF SlotInv, Slots
<1>5. CASE ~ \E q \in Request : Handle(q)
  <2>1. UNCHANGED <<input, at, mode, running, waiting>>
    BY <1>5 DEF Next, Save, Tick, Settled, vars
  <2> QED  BY <1>1, <1>3, <2>1 DEF SlotInv
<1> QED  BY <1>4, <1>5

\* A request holds a throttle token exactly while control is below the
\* throttler: no refusal, return, panic or deadline below it leaks one.
THEOREM TokensReturned == Spec => []SlotDiscipline
<1>1. SlotInv => SlotDiscipline
  BY DEF SlotInv, Slots, Holds, SlotDiscipline, Reaches, Depth
<1> QED  BY <1>1, SlotInit, SlotStep, PTL DEF Spec

\* At most ThrottleLimit handlers of a throttled route run at once: whoever is
\* in the handler is below the throttler and so holds one of its tokens.
THEOREM HandlersThrottled == Spec => []HandlersBounded
<1>1. SlotInv /\ Capacity => HandlersBounded
  <2> SUFFICES ASSUME SlotInv, Capacity, NEW rt \in Route, Config[rt].throttle
               PROVE  Cardinality({r \in Request : RouteOf(r) = rt /\ InApp(r)}) <= Limit[rt]
    BY DEF HandlersBounded
  <2> DEFINE Busy == {r \in Request : RouteOf(r) = rt /\ InApp(r)}
  <2>1. ASSUME NEW r \in Busy PROVE r \in running[rt]
    <3>1. "Throttle" \in LayersOf(r)  BY DEF LayersOf, Layers, OuterLayers
    <3>2. Inside(r, "Throttle")  BY DEF Inside, InApp, Depth
    <3> QED  BY <3>1, <3>2 DEF SlotInv, Slots, Holds
  <2>2. running[rt] \in SUBSET Request  BY DEF SlotInv, TypeOK, ThrottleTypeOK
  <2>3. Cardinality(Busy) <= Cardinality(running[rt])  BY <2>1, <2>2, NoLarger
  <2>4. Cardinality(Busy) \in Nat /\ Cardinality(running[rt]) \in Nat /\ Limit[rt] \in Nat
    BY <2>2, RequestSets, ThrottleAssumption
  <2>5. Cardinality(running[rt]) <= Limit[rt]  BY DEF Capacity
  <2> QED  BY <2>3, <2>4, <2>5
<1> QED  BY <1>1, SlotInit, SlotStep, ChainCapacity, PTL DEF Spec
=============================================================================

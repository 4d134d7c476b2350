----------------------------- MODULE GateProofs -----------------------------
(***************************************************************************)
(* The gates outside Logger, for every set of requests, every              *)
(* configuration and every input: nobody gets past Ensure without being    *)
(* genuine, nor past the limiter without being charged, only genuine       *)
(* requests are charged, under the key of the client they come from, and   *)
(* no client beyond the quota.  And Logger itself: what it leaves of a     *)
(* request implements AuditTrail.                                          *)
(***************************************************************************)
EXTENDS ChainProofs

\* r was charged, if its chain limits it at all
Charged(r) ==
    "RateLimit" \in LayersOf(r) /\ input[r].method # "OPTIONS" => charge[r] # "none"

\* the key r ought to be counted under
OwnKey(r) ==
    RateKey(AuthType(Conf(r).kind), RouteOf(r), SeenIP(input[r]), input[r])

Checked(r) == "Ensure" \in LayersOf(r) /\ Inside(r, "Ensure") => Genuine(r)

Counted(r) == Inside(r, "RateLimit") => Charged(r)

Paid(r) == charge[r] # "none" => Genuine(r)

Clean(r) == Logged(r) => Genuine(r) /\ Charged(r)

Stamped(r) ==
    /\ Inside(r, "TrustProxy") => ip[r] = SeenIP(input[r])
    /\ "AuthType" \in LayersOf(r) /\ Inside(r, "AuthType")
          => auth[r] = AuthType(Conf(r).kind)

Keyed(r) == charge[r] # "none" => key[r] = OwnKey(r)

Gates(r) ==
    Checked(r) /\ Counted(r) /\ Paid(r) /\ Clean(r) /\ Stamped(r) /\ Keyed(r)

GateInv == TypeOK /\ \A r \in Request : Gates(r)
-----------------------------------------------------------------------------
LEMMA GateInit == Init => GateInv
<1> SUFFICES ASSUME Init PROVE GateInv  OBVIOUS
<1>1. TypeOK  BY InitType
<1>2. ASSUME NEW r \in Request PROVE Gates(r)
  <2>1. /\ at[r] = 0 /\ mode[r] = "down" /\ audit[r] = << >>
        /\ charge[r] = "none"
    BY DEF Init, RateLimitInit
  <2>2. \A l \in {"TrustProxy", "Ensure", "AuthType", "RateLimit"} : ~Inside(r, l)
    BY <2>1 DEF Inside, Unwinding, Depth
  <2> QED  BY <2>1, <2>2
      DEF Gates, Checked, Counted, Paid, Clean, Stamped, Keyed, Logged
<1> QED  BY <1>1, <1>2 DEF GateInv

\* What the input and the configuration decide stays decided.
LEMMA Decided ==
    ASSUME UNCHANGED input, NEW r \in Request
    PROVE  /\ RouteOf(r)' = RouteOf(r) /\ LayersOf(r)' = LayersOf(r)
           /\ Conf(r)' = Conf(r) /\ (Genuine(r)' <=> Genuine(r))
           /\ OwnKey(r)' = OwnKey(r)
BY DEF RouteOf, LayersOf, Conf, Genuine, Signed, Timed, OwnKey

\* A webhook chain checks nothing, every other chain has Ensure.
LEMMA NothingToCheck ==
    ASSUME TypeOK, NEW r \in Request, "Ensure" \notin LayersOf(r)
    PROVE  Genuine(r)
<1>1. Conf(r).kind = "webhook"
  BY DEF LayersOf, Layers, GateLayers, Conf, RouteOf
<1> QED  BY <1>1 DEF Genuine, Signed, Timed, PublicKind, InternalKind

\* What gets past Ensure is genuine: its status 0 says so for every kind.
LEMMA EnsureGenuine ==
    ASSUME TypeOK, NEW r \in Request, EnsureStatus(input[r], Conf(r).kind) = 0
    PROVE  Genuine(r)
<1> DEFINE i == input[r]
           k == Conf(r).kind
<1>1. k \in Kind  BY RequestTypes DEF ConfigType
<1>2. ~HeadersMissing(i, k) /\ ~Expired(i, k) /\ ~Unsigned(i, k)
  BY DEF EnsureStatus
<1>3. /\ i.cred \notin {"missing", "malformed"}
      /\ k = "public-auth" => i.cred # "notoken"
  BY <1>2 DEF HeadersMissing
<1>4. CASE k \in {"presign", "webhook"}
  BY <1>3, <1>4 DEF Genuine, Signed, Timed, PublicKind, InternalKind
<1>5. CASE k \in InternalKind
  <2>1. i.cred \notin {"notoken", "badsig"}  BY <1>2, <1>5 DEF Unsigned
  <2>2. k \notin PublicKind  BY <1>5 DEF InternalKind, PublicKind
  <2> QED  BY <1>3, <2>1, <2>2 DEF Genuine, Timed
<1>6. CASE k \in PublicKind
  <2>1. i.cred \notin {"stale", "badsig"} /\ ~Unreadable(i)
    BY <1>2, <1>6 DEF Expired, Unsigned
  <2>2. k \notin InternalKind  BY <1>6 DEF InternalKind, PublicKind
  <2> QED  BY <1>3, <2>1, <2>2 DEF Genuine
<1> QED  BY <1>1, <1>4, <1>5, <1>6 DEF Kind

Gate == {"TrustProxy", "Ensure", "AuthType", "RateLimit"}

\* Only the layer a request is about to enter moves it.
LEMMA AtGate ==
    ASSUME TypeOK, NEW r \in Request, Handle(r)
    PROVE  /\ Reaches(r, "TrustProxy") => TrustProxy(r)
           /\ Reaches(r, "Ensure") => Ensure(r)
           /\ Reaches(r, "AuthType") => SetHeaderAuthType(r)
           /\ Reaches(r, "RateLimit") =>
                 \/ RateBypass(r) \/ HookCalls(r) \/ HookStops(r) \/ RateAdmits(r)
                 \/ PassRateLimit(r) \/ RateDenies(r) \/ RateCounterFails(r)
<1> SUFFICES ASSUME NEW g \in Gate, Reaches(r, g)
             PROVE  \/ g = "TrustProxy" /\ TrustProxy(r)
                    \/ g = "Ensure" /\ Ensure(r)
                    \/ g = "AuthType" /\ SetHeaderAuthType(r)
                    \/ /\ g = "RateLimit"
                       /\ \/ RateBypass(r) \/ HookCalls(r) \/ HookStops(r)
                          \/ RateAdmits(r) \/ PassRateLimit(r) \/ RateDenies(r)
                          \/ RateCounterFails(r)
  BY DEF Gate
<1>1. \A l : Reaches(r, l) => l = g  BY OneNext
<1>2. mode[r] = "down" /\ at[r] # Depth.App  BY DEF Reaches, Depth, Gate
<1>3. ~App(r) /\ ~Exit(r)
  BY <1>2 DEF App, AppCalls, AppReturns, AppPanics, PreSign, InApp, Exit,
     LeaveLogger, LeaveTimeout, LeaveThrottle, Leaves, Unwinding, Recover, Finish
<1>4. Enter(r)  BY <1>3 DEF Handle
<1>5. /\ ~Descend(r) /\ ~MethodOnly(r) /\ ~CORS(r)
      /\ ~JoinBacklog(r) /\ ~ThrottleRefuses(r) /\ ~TakeSlot(r) /\ ~LeaveBacklog(r)
      /\ ~EnterLogger(r) /\ ~SecureHeaders(r) /\ ~MaxBodySize(r)
      /\ ~AdminCheckCalls(r) /\ ~AdminCheck(r) /\ ~InjectorPanics(r)
  BY <1>1 DEF Gate, Descend, MethodOnly, CORS, JoinBacklog, ThrottleRefuses,
     TakeSlot, LeaveBacklog, EnterLogger, SecureHeaders, MaxBodySize,
     AdminCheckCalls, AdminCheck, InjectorPanics
<1>6. /\ TrustProxy(r) => Reaches(r, "TrustProxy")
      /\ Ensure(r) => Reaches(r, "Ensure")
      /\ SetHeaderAuthType(r) => Reaches(r, "AuthType")
      /\ (\/ RateBypass(r) \/ HookCalls(r) \/ HookStops(r) \/ RateAdmits(r)
          \/ PassRateLimit(r) \/ RateDenies(r) \/ RateCounterFails(r))
             => Reaches(r, "RateLimit")
  BY DEF TrustProxy, Ensure, SetHeaderAuthType, RateBypass, HookCalls, HookStops,
     AtHook, AtLimiter, RateAdmits, PassRateLimit, RateDenies, RateCounterFails
<1> QED  BY <1>1, <1>4, <1>5, <1>6 DEF Enter

\* Control gets below a layer only by entering it.
LEMMA EnteredBy ==
    ASSUME TypeOK, NEW r \in Request, Control(r), NEW l \in Gate,
           l \in LayersOf(r), ~Inside(r, l), Inside(r, l)'
    PROVE  Reaches(r, l) /\ Pass(r, l)
<1>1. at[r] \in 0..15 /\ l \in LayerName /\ Depth[l] \in 6..9
  BY RequestTypes DEF Gate, Depth
<1>2. CASE Advance(r)
  <2>1. PICK k \in LayersOf(r) :
          Reaches(r, k) /\ (Pass(r, k) \/ TurnBack(r, k) \/ Blow(r, k))
    BY <1>2 DEF Advance
  <2>2. k \in LayerName /\ Depth[k] \in 1..15  BY <2>1, RequestTypes, DepthFacts
  <2>3. /\ mode[r] = "down" /\ at[r] < Depth[k] /\ at[r] < Depth[l]
        /\ Depth[k] <= Depth[l]
    BY <1>1, <2>1, <2>2 DEF Reaches, Inside
  <2>4. at'[r] = Depth[k]  BY <2>1 DEF Pass, TurnBack, Blow, TypeOK
  <2>5. Pass(r, k) /\ Depth[k] = Depth[l]
    BY <1>1, <2>1, <2>2, <2>3, <2>4
    DEF Pass, TurnBack, Blow, Inside, Unwinding, TypeOK
  <2> QED  BY <1>1, <2>1, <2>2, <2>5, DepthFacts
<1>3. CASE InHandler(r)
  BY <1>1, <1>3 DEF InHandler, InApp, Inside, Depth
<1>4. CASE AtEnd(r)
  BY <1>1, <1>4 DEF AtEnd, TurnBack, Inside, Unwinding, Depth, TypeOK
<1>5. CASE JoinBacklog(r)
  BY <1>5 DEF JoinBacklog, Inside, Unwinding
<1>6. CASE ThrottleRefuses(r) \/ TakeSlot(r) \/ LeaveBacklog(r)
  BY <1>1, <1>6 DEF ThrottleRefuses, TakeSlot, LeaveBacklog, TurnBack, Pass,
     Inside, Unwinding, Depth, TypeOK
<1>7. CASE LeaveLogger(r)
  BY <1>1, <1>7 DEF LeaveLogger, Leaves, Unwind, Inside, Unwinding, Depth, TypeOK
<1>8. CASE LeaveTimeout(r) \/ LeaveThrottle(r)
  BY <1>1, <1>8 DEF LeaveTimeout, LeaveThrottle, Leaves, Unwind, Inside,
     Unwinding, Depth, TypeOK
<1>9. CASE Pauses(r)
  BY <1>9 DEF Pauses, Inside, Unwinding
<1> QED  BY <1>2, <1>3, <1>4, <1>5, <1>6, <1>7, <1>8, <1>9 DEF Control

\* A request that reaches or is below the limiter is below TrustProxy, and
\* below Ensure and SetHeaderAuthType as well.
LEMMA Nested ==
    ASSUME TypeOK, NEW r \in Request,
           Reaches(r, "RateLimit") \/ Inside(r, "Logger")
    PROVE  /\ Inside(r, "TrustProxy")
           /\ "Ensure" \in LayersOf(r) => Inside(r, "Ensure")
           /\ Reaches(r, "RateLimit") =>
                 "AuthType" \in LayersOf(r) /\ Inside(r, "AuthType")
           /\ Inside(r, "Logger") => Inside(r, "RateLimit")
<1>1. at[r] \in 0..15 /\ "TrustProxy" \in LayersOf(r)
  BY RequestTypes DEF LayersOf, Layers, OuterLayers
<1>2. CASE Inside(r, "Logger")
  <2>1. \A l \in Gate : Inside(r, l)
    BY <1>1, <1>2 DEF Inside, Unwinding, Gate, Depth
  <2>2. ~Reaches(r, "RateLimit")
    BY <1>1, <1>2 DEF Inside, Unwinding, Reaches, Depth
  <2> QED  BY <2>1, <2>2 DEF Gate
<1>3. CASE Reaches(r, "RateLimit") /\ ~Inside(r, "Logger")
  <2>1. "AuthType" \in LayersOf(r)
    BY <1>3 DEF Reaches, LayersOf, Layers, InnerLayers, OuterLayers, GateLayers
  <2>2. ASSUME NEW l \in {"TrustProxy", "Ensure", "AuthType"}, l \in LayersOf(r)
        PROVE  Inside(r, l)
    BY <1>1, <1>3, <2>2 DEF Reaches, Inside, Depth
  <2> QED  BY <1>1, <1>3, <2>1, <2>2
<1> QED  BY <1>2, <1>3
-----------------------------------------------------------------------------
\* What r's own step does to its headers, its key and its charge.

Restamp(r) ==
    /\ ip'[r] = ip[r] \/ ip'[r] = SeenIP(input[r])
    /\ auth'[r] = auth[r] \/ auth'[r] = AuthType(Conf(r).kind)

LimitChange(r) ==
    /\ Reaches(r, "RateLimit")
    /\ key'[r] = KeyOf(r)
    /\ charge'[r] = charge[r] \/ charge'[r] = "curr"

LEMMA OnlyLimiterCharges ==
    ASSUME NEW r \in Request, Handle(r),
           ~RateAdmits(r), ~RateDenies(r), ~RateCounterFails(r)
    PROVE  UNCHANGED <<key, charge>>
BY DEF Handle, Enter, App, Exit, Descend, MethodOnly, CORS, JoinBacklog,
   ThrottleRefuses, TakeSlot, LeaveBacklog, TrustProxy, SetHeaderAuthType,
   Ensure, RateBypass, HookCalls, HookStops, PassRateLimit, InjectorPanics,
   EnterLogger, SecureHeaders, MaxBodySize, AdminCheckCalls, AdminCheck,
   AppCalls, AppReturns, AppPanics, PreSign, LeaveLogger, LeaveTimeout,
   LeaveThrottle, Recover, Finish

LEMMA Changes ==
    ASSUME TypeOK, NEW r \in Request, Handle(r)
    PROVE  /\ Restamp(r)
           /\ (key'[r] = key[r] /\ charge'[r] = charge[r]) \/ LimitChange(r)
           /\ charge[r] # "none" => charge'[r] # "none"
<1>1. Restamp(r)
  <2>1. CASE TrustProxy(r)
    BY <2>1 DEF TrustProxy, Restamp, TypeOK
  <2>2. CASE SetHeaderAuthType(r)
    BY <2>2 DEF SetHeaderAuthType, Restamp, TypeOK
  <2>3. CASE ~TrustProxy(r) /\ ~SetHeaderAuthType(r)
    <3>1. UNCHANGED <<ip, auth>>
      BY <2>3 DEF Handle, Enter, App, Exit, Descend, MethodOnly, CORS, JoinBacklog,
         ThrottleRefuses, TakeSlot, LeaveBacklog, Ensure, RateBypass, HookCalls,
         HookStops, RateAdmits, PassRateLimit, RateDenies, RateCounterFails,
         InjectorPanics, EnterLogger, SecureHeaders, MaxBodySize, AdminCheckCalls,
         AdminCheck, AppCalls, AppReturns, AppPanics, PreSign, LeaveLogger,
         LeaveTimeout, LeaveThrottle, Recover, Finish
    <3> QED  BY <3>1 DEF Restamp
  <2> QED  BY <2>1, <2>2, <2>3
<1>2. UNCHANGED <<key, charge>> \/ LimitChange(r)
  <2>1. CASE RateAdmits(r)
    BY <2>1 DEF RateAdmits, AtLimiter, Admit, LimitChange, TypeOK
  <2>2. CASE RateDenies(r) \/ RateCounterFails(r)
    BY <2>2 DEF RateDenies, RateCounterFails, AtLimiter, Deny, CounterFails,
       LimitChange, TypeOK
  <2>3. CASE ~RateAdmits(r) /\ ~RateDenies(r) /\ ~RateCounterFails(r)
    BY <2>3, OnlyLimiterCharges
  <2> QED  BY <2>1, <2>2, <2>3
<1> QED  BY <1>1, <1>2 DEF LimitChange

\* Entering a gate leaves what the gate is for.
LEMMA PassedGate ==
    ASSUME TypeOK, NEW r \in Request, Handle(r), NEW l \in Gate,
           l \in LayersOf(r), ~Inside(r, l), Inside(r, l)'
    PROVE  /\ l = "TrustProxy" => ip'[r] = SeenIP(input[r])
           /\ l = "AuthType" => auth'[r] = AuthType(Conf(r).kind)
           /\ l = "Ensure" => Genuine(r)
           /\ l = "RateLimit" /\ input[r].method # "OPTIONS" => charge'[r] # "none"
<1>1. Reaches(r, l) /\ Pass(r, l)  BY HandleControl, EnteredBy
<1>2. mode'[r] = "down" /\ mode \in [Request -> Mode]
  BY <1>1 DEF Pass, Reaches, TypeOK
<1>3. CASE l = "TrustProxy"
  <2>1. TrustProxy(r)  BY <1>1, <1>3, AtGate
  <2> QED  BY <1>3, <2>1 DEF TrustProxy, TypeOK
<1>4. CASE l = "AuthType"
  <2>1. SetHeaderAuthType(r)  BY <1>1, <1>4, AtGate
  <2> QED  BY <1>4, <2>1 DEF SetHeaderAuthType, TypeOK
<1>5. CASE l = "Ensure"
  <2>1. Ensure(r)  BY <1>1, <1>5, AtGate
  <2>2. EnsureStatus(input[r], Conf(r).kind) = 0
    BY <1>2, <2>1 DEF Ensure, TurnBack
  <2> QED  BY <1>5, <2>2, EnsureGenuine
<1>6. CASE l = "RateLimit" /\ input[r].method # "OPTIONS"
  <2>1. ~HookStops(r)  BY <1>2 DEF HookStops, TurnBack, Blow
  <2>2. ~RateDenies(r) /\ ~RateCounterFails(r)
    BY <1>2 DEF RateDenies, RateCounterFails, TurnBack
  <2>3. ~RateBypass(r)  BY <1>6 DEF RateBypass
  <2>4. ~HookCalls(r) /\ ~RateAdmits(r)
    <3>1. at'[r] # at[r]
      BY <1>1, <1>6, RequestTypes DEF Pass, Reaches, Depth, TypeOK
    <3> QED  BY <3>1 DEF HookCalls, RateAdmits
  <2>5. PassRateLimit(r)  BY <1>1, <1>6, <2>1, <2>2, <2>3, <2>4, AtGate
  <2> QED  BY <1>6, <2>5 DEF PassRateLimit
<1> QED  BY <1>3, <1>4, <1>5, <1>6 DEF Gate

\* Once identity and zone are stamped, the key is the client's own.
LEMMA KeyIsOwn ==
    ASSUME TypeOK, NEW r \in Request, Stamped(r), Reaches(r, "RateLimit")
    PROVE  KeyOf(r) = OwnKey(r)
BY Nested DEF Stamped, KeyOf, OwnKey

\* A step of r keeps r behind its gates.
LEMMA OwnGates ==
    ASSUME GateInv, NEW r \in Request, Handle(r)
    PROVE  Gates(r)'
<1>1. /\ TypeOK /\ UNCHANGED input
      /\ Checked(r) /\ Counted(r) /\ Paid(r) /\ Clean(r) /\ Stamped(r) /\ Keyed(r)
  BY HandleShape DEF GateInv, Gates, Step
<1>2. /\ LayersOf(r)' = LayersOf(r) /\ Conf(r)' = Conf(r)
      /\ (Genuine(r)' <=> Genuine(r)) /\ OwnKey(r)' = OwnKey(r)
      /\ input'[r] = input[r]
  BY <1>1, Decided
<1>3. /\ Restamp(r)
      /\ (key'[r] = key[r] /\ charge'[r] = charge[r]) \/ LimitChange(r)
      /\ charge[r] # "none" => charge'[r] # "none"
  BY <1>1, Changes
<1>4. Charged(r) => Charged(r)'  BY <1>2, <1>3 DEF Charged
<1>5. Checked(r)'
  BY <1>1, <1>2, PassedGate DEF Checked, Gate
<1>6. Counted(r)'
  <2>1. CASE "RateLimit" \notin LayersOf(r) \/ input[r].method = "OPTIONS"
    BY <1>2, <2>1 DEF Counted, Charged
  <2>2. CASE "RateLimit" \in LayersOf(r) /\ input[r].method # "OPTIONS"
    BY <1>1, <1>2, <1>4, <2>2, PassedGate DEF Counted, Charged, Gate
  <2> QED  BY <2>1, <2>2
<1>7. Paid(r)'
  <2>1. Reaches(r, "RateLimit") => Genuine(r)
    BY <1>1, Nested, NothingToCheck DEF Checked
  <2> QED  BY <1>1, <1>2, <1>3, <2>1 DEF Paid, LimitChange
<1>8. Clean(r)'
  <2>1. CASE UNCHANGED audit  BY <1>1, <1>2, <1>4, <2>1 DEF Clean, Logged
  <2>2. CASE ~UNCHANGED audit
    <3>1. LeaveLogger(r)
      BY <2>2, HandleControl DEF Control, Advance, InHandler, AtEnd, JoinBacklog,
         Pauses, ThrottleRefuses, TakeSlot, LeaveBacklog, LeaveTimeout,
         LeaveThrottle
    <3>2. Inside(r, "Logger")  BY <3>1 DEF LeaveLogger, Leaves, Inside
    <3>3. Genuine(r) /\ Charged(r)
      BY <1>1, <3>2, Nested, NothingToCheck DEF Checked, Counted
    <3> QED  BY <1>2, <1>4, <3>3 DEF Clean
  <2> QED  BY <2>1, <2>2
<1>9. Stamped(r)'
  <2>1. "TrustProxy" \in LayersOf(r)  BY DEF LayersOf, Layers, OuterLayers
  <2>2. Inside(r, "TrustProxy")' => ip'[r] = SeenIP(input[r])
    BY <1>1, <1>3, <2>1, PassedGate DEF Stamped, Restamp, Gate
  <2>3. "AuthType" \in LayersOf(r) /\ Inside(r, "AuthType")'
          => auth'[r] = AuthType(Conf(r).kind)
    BY <1>1, <1>3, PassedGate DEF Stamped, Restamp, Gate
  <2> QED  BY <1>2, <2>2, <2>3 DEF Stamped
<1>10. Keyed(r)'
  BY <1>1, <1>2, <1>3, KeyIsOwn DEF Keyed, LimitChange
<1> QED  BY <1>5, <1>6, <1>7, <1>8, <1>9, <1>10 DEF Gates

\* A request that does not move stays behind its gates, while its charge may
\* age from window to window and its entries be settled.
LEMMA GatesStill ==
    ASSUME NEW r \in Request, Gates(r), UNCHANGED input,
           at'[r] = at[r], mode'[r] = mode[r], ip'[r] = ip[r], auth'[r] = auth[r],
           key'[r] = key[r], charge'[r] = "none" <=> charge[r] = "none",
           Logged(r)' => Logged(r)
    PROVE  Gates(r)'
<1>1. /\ LayersOf(r)' = LayersOf(r) /\ Conf(r)' = Conf(r)
      /\ (Genuine(r)' <=> Genuine(r)) /\ OwnKey(r)' = OwnKey(r)
      /\ input'[r] = input[r]
  BY Decided
<1>2. \A l : Inside(r, l)' <=> Inside(r, l)  BY DEF Inside, Unwinding
<1>3. Charged(r)' <=> Charged(r)  BY <1>1 DEF Charged
<1> QED  BY <1>1, <1>2, <1>3
    DEF Gates, Checked, Counted, Paid, Clean, Stamped, Keyed

LEMMA GateStep == GateInv /\ [Next]_vars => GateInv'
<1> SUFFICES ASSUME GateInv, [Next]_vars PROVE GateInv'  OBVIOUS
<1>1. TypeOK /\ TypeOK' /\ \A r \in Request : Gates(r)  BY NextType DEF GateInv
<1>2. ASSUME NEW q \in Request, Handle(q), NEW r \in Request PROVE Gates(r)'
  <2>1. CASE r = q  BY <1>2, <2>1, OwnGates
  <2>2. CASE r # q
    <3>1. Step(q)  BY <1>1, <1>2, HandleShape
    <3>2. /\ UNCHANGED input
          /\ at'[r] = at[r] /\ mode'[r] = mode[r]
          /\ ip'[r] = ip[r] /\ auth'[r] = auth[r] /\ audit'[r] = audit[r]
      BY <1>1, <2>2, <3>1 DEF Step, MoveStep, HeaderStep, AuditStep, TypeOK
    <3>3. key'[r] = key[r] /\ charge'[r] = charge[r]
      BY <1>1, <2>2, <3>1 DEF Step, LimitStep, Admit, Deny, CounterFails,
         limitVars, TypeOK
    <3> QED  BY <1>1, <3>2, <3>3, GatesStill DEF Logged
  <2> QED  BY <2>1, <2>2
<1>3. ASSUME NEW q \in Request, Save(q), NEW r \in Request PROVE Gates(r)'
  <2>1. audit'[r] # << >> => audit[r] # << >>
    BY <1>1, <1>3 DEF Save, TypeOK
  <2> QED  BY <1>1, <1>3, <2>1, GatesStill DEF Save, Logged
<1>4. ASSUME NEW rt \in Route, Tick(rt), NEW r \in Request PROVE Gates(r)'
  <2>1. charge'[r] = "none" <=> charge[r] = "none"
    BY <1>1, <1>4 DEF Tick, WindowTick, TypeOK
  <2> QED  BY <1>1, <1>4, <2>1, GatesStill DEF Tick, WindowTick, Logged
<1>5. ASSUME UNCHANGED vars, NEW r \in Request PROVE Gates(r)'
  BY <1>1, <1>5, GatesStill DEF vars, Logged
<1> QED  BY <1>1, <1>2, <1>3, <1>4, <1>5 DEF GateInv, Next, Settled
LEMMA GatesHold == Spec => []GateInv
BY GateInit, GateStep, PTL DEF Spec
-----------------------------------------------------------------------------
\* The audit store and the handler see only requests that passed signature,
\* timestamp and quota, whatever order requests and clock ticks come in.
THEOREM StoreUnpolluted == Spec => []NoPollution
<1>1. GateInv => NoPollution
  <2> SUFFICES ASSUME GateInv, NEW r \in Request, Logged(r) \/ Inside(r, "Logger")
               PROVE  Genuine(r) /\ Charged(r)
    BY DEF NoPollution, Charged
  <2>1. TypeOK /\ Gates(r)  BY DEF GateInv
  <2>2. CASE Logged(r)  BY <2>1, <2>2 DEF Gates, Clean
  <2>3. CASE Inside(r, "Logger")
    BY <2>1, <2>3, Nested, NothingToCheck DEF Gates, Checked, Counted
  <2> QED  BY <2>2, <2>3
<1> QED  BY <1>1, GatesHold, PTL

\* Only requests that passed Ensure are ever charged to a quota.
THEOREM GenuinePay == Spec => []OnlyGenuinePay
<1>1. GateInv => OnlyGenuinePay  BY DEF GateInv, Gates, Paid, OnlyGenuinePay
<1> QED  BY <1>1, GatesHold, PTL

\* Where its address can be known, a client is seen by its own: it connects
\* directly, or its proxy says who it is.
LEMMA TrueAddress ==
    ASSUME TypeOK, NEW r \in Request, Attested(input[r])
    PROVE  SeenIP(input[r]) = input[r].from
<1>1. input[r] \in Inputs /\ input[r].from \in Address
  BY RequestTypes, ChainAssumption DEF InputType, TypeOK
<1>2. CASE input[r].peer \in TrustedProxies
  BY <1>1, <1>2 DEF Attested, SeenIP, ClientIP
<1>3. CASE input[r].peer \notin TrustedProxies
  BY <1>1, <1>3, DirectAssumption DEF SeenIP, ClientIP
<1> QED  BY <1>2, <1>3

\* The key tells the clients of a route apart, and nothing else does.
LEMMA KeyIsClient ==
    ASSUME GateInv, NEW q \in Request, NEW r \in Request,
           charge[q] # "none", charge[r] # "none", Known(q), Known(r)
    PROVE  key[q] = key[r] <=> SameClient(q, r)
<1>1. key[q] = OwnKey(q) /\ key[r] = OwnKey(r) /\ TypeOK
  BY DEF GateInv, Gates, Keyed
<1>2. CASE RouteOf(q) # RouteOf(r)
  BY <1>1, <1>2 DEF OwnKey, RateKey, ByToken, ByAddress, SameClient
<1>3. CASE RouteOf(q) = RouteOf(r) /\ ByBearer(r)
  <2>1. Conf(q) = Conf(r) /\ AuthType(Conf(r).kind) \in {"public-api-key", "public-auth"}
    BY <1>3 DEF Conf, ByBearer, AuthType, InternalKind
  <2>2. /\ OwnKey(q) = ByToken(AuthType(Conf(r).kind), RouteOf(r), input[q])
        /\ OwnKey(r) = ByToken(AuthType(Conf(r).kind), RouteOf(r), input[r])
    BY <1>3, <2>1 DEF OwnKey, RateKey
  <2> QED  BY <1>1, <1>3, <2>2 DEF ByToken, SameClient
<1>4. CASE RouteOf(q) = RouteOf(r) /\ ~ByBearer(r)
  <2>1. /\ Conf(q) = Conf(r)
        /\ AuthType(Conf(r).kind) \notin {"public-api-key", "public-auth"}
    BY <1>4 DEF Conf, ByBearer, AuthType
  <2>2. /\ SeenIP(input[q]) = input[q].from
        /\ SeenIP(input[r]) = input[r].from
    BY <1>1, <1>4, <2>1, TrueAddress DEF Known, ByBearer
  <2>3. /\ OwnKey(q) = ByAddress(RouteOf(r), input[q].from, input[q])
        /\ OwnKey(r) = ByAddress(RouteOf(r), input[r].from, input[r])
    BY <1>4, <2>1, <2>2 DEF OwnKey, RateKey
  <2> QED  BY <1>1, <1>4, <2>3 DEF ByAddress, SameClient
<1> QED  BY <1>2, <1>3, <1>4

\* Requests in one bucket are the same client's, if their addresses are known:
\* a client that can write what its proxy forwards is left out.
THEOREM BucketsPrivate == Spec => []BucketPrivacy
<1>1. GateInv => BucketPrivacy  BY KeyIsClient DEF BucketPrivacy
<1> QED  BY <1>1, GatesHold, PTL
-----------------------------------------------------------------------------
(***************************************************************************)
(* Quotas.  The invariant bounds the bucket of every key of a route; that  *)
(* a charged request is counted under a key of its own route, and keeps    *)
(* it, is what the gates add.                                              *)
(***************************************************************************)
Current(k) == Bucket(k, "curr")

Fits(k) == k.endpoint \in Route => Cardinality(Current(k)) <= Quota[k.endpoint]

QuotaInv == GateInv /\ \A k \in Key : Fits(k)

LEMMA BucketFinite ==
    ASSUME NEW k
    PROVE  /\ IsFiniteSet(Current(k)) /\ Cardinality(Current(k)) \in Nat
           /\ IsFiniteSet(Current(k)') /\ Cardinality(Current(k)') \in Nat
<1>1. Current(k) \in SUBSET Request /\ Current(k)' \in SUBSET Request
  BY DEF Current, Bucket
<1> QED  BY <1>1, RequestSets

\* A bucket that gained no member is no fuller.
LEMMA BucketShrinks ==
    ASSUME NEW k, Fits(k), Current(k)' \subseteq Current(k)
    PROVE  Fits(k)'
<1>1. Cardinality(Current(k)') <= Cardinality(Current(k))
  BY BucketFinite, FS_Subset
<1>2. ASSUME k.endpoint \in Route
      PROVE  Cardinality(Current(k)') <= Quota[k.endpoint]
  <2>1. Quota[k.endpoint] \in Nat  BY <1>2, RateLimitAssumption
  <2> QED  BY <1>1, <1>2, <2>1, BucketFinite DEF Fits
<1> QED  BY <1>2 DEF Fits

LEMMA QuotaInit == Init => QuotaInv
<1> SUFFICES ASSUME Init, NEW k \in Key PROVE Fits(k)
  BY GateInit DEF QuotaInv
<1>1. Current(k) = {}  BY DEF Init, RateLimitInit, Current, Bucket
<1> QED  BY <1>1, FS_EmptySet, RateLimitAssumption DEF Fits

\* The key a request is counted under names its own route.
LEMMA KeyOfRoute ==
    ASSUME NEW r \in Request
    PROVE  KeyOf(r).endpoint = RouteOf(r)
BY DEF KeyOf, RateKey, ByToken, ByAddress

\* Admission fills one bucket by one, and only below the quota.
LEMMA AdmitFits ==
    ASSUME QuotaInv, NEW r \in Request, Admit(RouteOf(r), r, KeyOf(r)),
           NEW k \in Key
    PROVE  Fits(k)'
<1>1. TypeOK /\ Fits(k) /\ RouteOf(r) \in Route
  BY RequestTypes DEF QuotaInv, GateInv
<1>2. CASE k = KeyOf(r)
  <2>1. Cardinality(Current(k)) < Quota[RouteOf(r)] /\ k.endpoint = RouteOf(r)
    BY <1>2, KeyOfRoute DEF Admit, Current
  <2>2. Current(k)' \in SUBSET (Current(k) \cup {r})
    BY <1>1, <1>2 DEF Admit, Current, Bucket, TypeOK
  <2>3. Current(k) \in SUBSET Request /\ Current(k) \cup {r} \in SUBSET Request
    BY DEF Current, Bucket
  <2>4. /\ Cardinality(Current(k)') <= Cardinality(Current(k) \cup {r})
        /\ Cardinality(Current(k) \cup {r}) <= Cardinality(Current(k)) + 1
    BY <2>2, <2>3, NoLarger, OneMore
  <2>5. /\ Cardinality(Current(k)') \in Nat /\ Cardinality(Current(k)) \in Nat
        /\ Cardinality(Current(k) \cup {r}) \in Nat /\ Quota[RouteOf(r)] \in Nat
    BY <1>1, <2>3, BucketFinite, RequestSets, RateLimitAssumption
  <2> QED  BY <2>1, <2>4, <2>5 DEF Fits
<1>3. CASE k # KeyOf(r)
  <2>1. Current(k)' \subseteq Current(k)
    BY <1>1, <1>3 DEF Admit, Current, Bucket, TypeOK
  <2> QED  BY <1>1, <2>1, BucketShrinks
<1> QED  BY <1>2, <1>3

\* A denial or a failure of the counter fills none: a request that is already
\* charged keeps its key.
LEMMA DenyFits ==
    ASSUME QuotaInv, NEW r \in Request, Reaches(r, "RateLimit"),
           Deny(RouteOf(r), r, KeyOf(r)) \/ CounterFails(r, KeyOf(r)),
           NEW k \in Key
    PROVE  Fits(k)'
<1>1. TypeOK /\ Fits(k) /\ Stamped(r) /\ Keyed(r)
  BY DEF QuotaInv, GateInv, Gates
<1>2. charge[r] # "none" => key'[r] = key[r]
  BY <1>1, KeyIsOwn DEF Keyed, Deny, CounterFails, TypeOK
<1>3. Current(k)' \subseteq Current(k)
  BY <1>1, <1>2 DEF Deny, CounterFails, Current, Bucket, TypeOK
<1> QED  BY <1>1, <1>3, BucketShrinks

\* The limiter's part of a step of r.
LEMMA HandleLimits ==
    ASSUME NEW r \in Request, Handle(r)
    PROVE  \/ UNCHANGED <<key, charge>>
           \/ Admit(RouteOf(r), r, KeyOf(r))
           \/ /\ Reaches(r, "RateLimit")
              /\ Deny(RouteOf(r), r, KeyOf(r)) \/ CounterFails(r, KeyOf(r))
<1>1. CASE RateAdmits(r)  BY <1>1 DEF RateAdmits
<1>2. CASE RateDenies(r) \/ RateCounterFails(r)
  BY <1>2 DEF RateDenies, RateCounterFails, AtLimiter
<1>3. CASE ~RateAdmits(r) /\ ~RateDenies(r) /\ ~RateCounterFails(r)
  BY <1>3, OnlyLimiterCharges
<1> QED  BY <1>1, <1>2, <1>3

LEMMA QuotaStep == QuotaInv /\ [Next]_vars => QuotaInv'
<1> SUFFICES ASSUME QuotaInv, [Next]_vars, NEW k \in Key PROVE Fits(k)'
  BY GateStep DEF QuotaInv
<1>1. TypeOK /\ Fits(k)  BY DEF QuotaInv, GateInv
<1>2. ASSUME UNCHANGED <<key, charge>> PROVE Fits(k)'
  BY <1>1, <1>2 DEF Fits, Current, Bucket
<1>3. ASSUME NEW r \in Request, Handle(r) PROVE Fits(k)'
  BY <1>2, <1>3, HandleLimits, AdmitFits, DenyFits
<1>4. ASSUME NEW rt \in Route, Tick(rt) PROVE Fits(k)'
  <2>1. Current(k)' \subseteq Current(k)
    BY <1>1, <1>4 DEF Tick, WindowTick, Current, Bucket, TypeOK
  <2> QED  BY <1>1, <2>1, BucketShrinks
<1>5. ASSUME NEW r \in Request, Save(r) PROVE UNCHANGED <<key, charge>>
  BY <1>5 DEF Save
<1> QED  BY <1>2, <1>3, <1>4, <1>5 DEF Next, Settled, vars

\* All requests of one known client are counted in one bucket.
LEMMA OneBucket ==
    ASSUME GateInv, NEW r \in Request, charge[r] = "curr", Known(r)
    PROVE  {q \in Request : charge[q] = "curr" /\ Known(q) /\ SameClient(q, r)}
             \subseteq Current(key[r])
<1> SUFFICES ASSUME NEW q \in Request, charge[q] = "curr", Known(q), SameClient(q, r)
             PROVE  key[q] = key[r]
  BY DEF Current, Bucket
<1> QED  BY KeyIsClient

\* No known client is admitted beyond the route's quota within a window under
\* one user agent and app ID, or one token and app ID: all these requests meet
\* in one bucket, and no bucket overflows.  Nothing is said of a client whose
\* proxy forwards the address it writes.
THEOREM QuotasKept == Spec => []QuotaKept
<1>1. QuotaInv => QuotaKept
  <2> SUFFICES ASSUME QuotaInv, NEW r \in Request, charge[r] = "curr", Known(r)
               PROVE  Cardinality({q \in Request : /\ charge[q] = "curr"
                                                  /\ Known(q) /\ SameClient(q, r)})
                        <= Quota[RouteOf(r)]
    BY DEF QuotaKept
  <2> DEFINE Mine == {q \in Request : charge[q] = "curr" /\ Known(q) /\ SameClient(q, r)}
  <2>1. key[r] \in Key /\ RouteOf(r) \in Route /\ key[r] = OwnKey(r)
    BY RequestTypes DEF QuotaInv, GateInv, Gates, Keyed, TypeOK
  <2>2. key[r].endpoint = RouteOf(r)  BY <2>1 DEF OwnKey, RateKey, ByToken, ByAddress
  <2>3. Cardinality(Current(key[r])) <= Quota[RouteOf(r)]
    BY <2>1, <2>2 DEF QuotaInv, Fits
  <2>4. Mine \in SUBSET Current(key[r])  BY OneBucket DEF QuotaInv
  <2>5. Current(key[r]) \in SUBSET Request  BY DEF Current, Bucket
  <2>6. Cardinality(Mine) <= Cardinality(Current(key[r]))  BY <2>4, <2>5, NoLarger
  <2>7. /\ Cardinality(Mine) \in Nat /\ Cardinality(Current(key[r])) \in Nat
        /\ Quota[RouteOf(r)] \in Nat
    BY <2>1, <2>5, RequestSets, RateLimitAssumption
  <2> QED  BY <2>3, <2>6, <2>7
<1> QED  BY <1>1, QuotaInit, QuotaStep, PTL DEF Spec
-----------------------------------------------------------------------------
(***************************************************************************)
(* The trail: every step of the chain is a step of AuditTrail or changes   *)
(* nothing there.  Logger is in every chain, which is all that is used of  *)
(* the configuration.                                                      *)
(***************************************************************************)
StageOf == [r \in Request |-> Stage(r)]

StatesOf(r) == [n \in 1..Len(audit[r]) |-> audit[r][n].state]

TrailOf == [r \in Request |-> StatesOf(r)]

\* Nothing is logged before a request has left, and then at most once
LoggedOnce(r) ==
    /\ Stage(r) # "left" => audit[r] = << >>
    /\ Len(audit[r]) <= 1

AuditInv == TypeOK /\ \A r \in Request : LoggedOnce(r)

\* A step in which r, and only r, goes from stage s to stage t
Moves(r, t) == StageOf' = [StageOf EXCEPT ![r] = t]
-----------------------------------------------------------------------------
\* Where control is decides the stage.
LEMMA StageCases ==
    ASSUME NEW r \in Request, at[r] \in 0..15
    PROVE  /\ mode[r] = "down" /\ at[r] < 10 => Stage(r) = "outside"
           /\ mode[r] = "down" /\ 10 <= at[r] => Stage(r) = "inside"
           /\ Unwinding(r) /\ 10 < at[r] => Stage(r) = "inside"
           /\ Unwinding(r) /\ at[r] <= 10 => Stage(r) = "left"
           /\ mode[r] = "done" => Stage(r) = "left"
BY DEF Stage, Inside, Unwinding, Depth

LEMMA StageCasesNext ==
    ASSUME NEW r \in Request, at'[r] \in 0..15
    PROVE  /\ mode'[r] = "down" /\ at'[r] < 10 => Stage(r)' = "outside"
           /\ mode'[r] = "down" /\ 10 <= at'[r] => Stage(r)' = "inside"
           /\ mode'[r] \in {"up", "panic"} /\ 10 < at'[r] => Stage(r)' = "inside"
           /\ mode'[r] \in {"up", "panic"} /\ at'[r] <= 10 => Stage(r)' = "left"
           /\ mode'[r] = "done" => Stage(r)' = "left"
BY DEF Stage, Inside, Unwinding, Depth

\* Logger is a layer of every chain.
LEMMA LoggerEverywhere ==
    ASSUME NEW r \in Request
    PROVE  "Logger" \in LayersOf(r)
BY DEF LayersOf, Layers, InnerLayers

\* A step of r leaves the stages of the others alone.
LEMMA OneMoves ==
    ASSUME TypeOK, NEW r \in Request, Step(r)
    PROVE  /\ Moves(r, Stage(r)')
           /\ \A q \in Request \ {r} : Stage(q)' = Stage(q)
<1>1. \A q \in Request \ {r} : at'[q] = at[q] /\ mode'[q] = mode[q]
  BY DEF Step, MoveStep, TypeOK
<1>2. \A q \in Request \ {r} : Stage(q)' = Stage(q)
  BY <1>1 DEF Stage, Inside, Unwinding
<1> QED  BY <1>2 DEF Moves, StageOf
-----------------------------------------------------------------------------
(***************************************************************************)
(* The way down and the way up, seen from Logger.                          *)
(***************************************************************************)
\* What a step of r does to its stage when it does not defer the entry.
StageStep(r) ==
    \/ Stage(r)' = Stage(r)
    \/ Stage(r) = "outside" /\ Stage(r)' \in {"inside", "left"}

\* An advance goes on outside, is let in by Logger, is refused, or stays inside.
LEMMA AdvanceStage ==
    ASSUME TypeOK, NEW r \in Request, Advance(r)
    PROVE  StageStep(r)
<1>1. PICK l \in LayersOf(r) :
        Reaches(r, l) /\ (Pass(r, l) \/ TurnBack(r, l) \/ Blow(r, l))
  BY DEF Advance
<1>2. at[r] \in 0..15 /\ Depth[l] \in 1..15  BY <1>1, RequestTypes, DepthFacts
<1>3. mode[r] = "down" /\ at[r] < Depth[l] /\ (10 <= at[r] \/ Depth[l] <= 10)
  BY <1>1, LoggerEverywhere DEF Reaches, Depth
<1>4. at'[r] = Depth[l] /\ mode'[r] \in {"down", "up", "panic"}
  BY <1>1, <1>3 DEF Pass, TurnBack, Blow, TypeOK
<1>5. CASE 10 <= at[r]
  <2>1. Stage(r) = "inside"  BY <1>2, <1>3, <1>5, StageCases
  <2>2. Stage(r)' = "inside"  BY <1>2, <1>3, <1>4, <1>5, StageCasesNext
  <2> QED  BY <2>1, <2>2 DEF StageStep
<1>6. CASE at[r] < 10
  <2>1. Stage(r) = "outside"  BY <1>2, <1>3, <1>6, StageCases
  <2>2. Stage(r)' \in {"outside", "inside", "left"}  BY DEF Stage
  <2> QED  BY <2>1, <2>2 DEF StageStep
<1> QED  BY <1>2, <1>5, <1>6

\* The throttler is outside Logger; the handler inside it; what is deferred
\* outside Logger, and what Recoverer and net/http do, comes after it.
LEMMA OtherStage ==
    ASSUME TypeOK, NEW r \in Request,
           \/ Pauses(r) \/ InHandler(r) \/ AtEnd(r) \/ JoinBacklog(r)
           \/ ThrottleRefuses(r) \/ TakeSlot(r) \/ LeaveBacklog(r)
           \/ LeaveTimeout(r) \/ LeaveThrottle(r)
    PROVE  StageStep(r)
<1>1. at[r] \in 0..15  BY RequestTypes
<1>2. CASE InHandler(r)
  <2>1. at[r] = 15 /\ at'[r] = 15 /\ mode[r] = "down"
    BY <1>2 DEF InHandler, InApp, Depth
  <2>2. mode'[r] \in {"down", "up", "panic"}  BY <1>2, <2>1 DEF InHandler, TypeOK
  <2>3. Stage(r) = "inside" /\ Stage(r)' = "inside"
    BY <2>1, <2>2, StageCases, StageCasesNext
  <2> QED  BY <2>3 DEF StageStep
<1>3. CASE AtEnd(r)
  <2>1. Unwinding(r) /\ at[r] <= 10
    BY <1>3, LoggerEverywhere DEF AtEnd, Unwound, Deferred, Depth
  <2>2. \/ at'[r] = 3 /\ mode'[r] = "up"
        \/ mode'[r] = "done"
    BY <1>3 DEF AtEnd, TurnBack, Depth, TypeOK
  <2>3. Stage(r) = "left"  BY <1>1, <2>1, StageCases
  <2>4. Stage(r)' = "left"  BY <2>2 DEF Stage, Inside, Unwinding, Depth
  <2> QED  BY <2>3, <2>4 DEF StageStep
<1>4. CASE JoinBacklog(r)
  BY <1>4 DEF JoinBacklog, StageStep, Stage, Inside, Unwinding
<1>5. CASE ThrottleRefuses(r) \/ TakeSlot(r) \/ LeaveBacklog(r)
  <2>1. mode[r] = "down" /\ at[r] < 10
    BY <1>1, <1>5 DEF ThrottleRefuses, TakeSlot, LeaveBacklog, Reaches, Depth
  <2>2. Stage(r) = "outside"  BY <1>1, <2>1, StageCases
  <2>3. Stage(r)' \in {"outside", "inside", "left"}  BY DEF Stage
  <2> QED  BY <2>2, <2>3 DEF StageStep
<1>6. CASE LeaveTimeout(r) \/ LeaveThrottle(r)
  <2>1. Unwinding(r) /\ at[r] <= 10
    BY <1>1, <1>6, LoggerEverywhere
    DEF LeaveTimeout, LeaveThrottle, Leaves, Deferred, Depth
  <2>2. at'[r] <= 10 /\ at'[r] \in 0..15 /\ mode'[r] \in {"up", "panic"}
    BY <1>6, <2>1 DEF LeaveTimeout, LeaveThrottle, Unwind, Unwinding, Depth, TypeOK
  <2>3. Stage(r) = "left" /\ Stage(r)' = "left"
    BY <1>1, <2>1, <2>2, StageCases, StageCasesNext
  <2> QED  BY <2>3 DEF StageStep
<1>7. CASE Pauses(r)
  BY <1>7 DEF Pauses, StageStep, Stage, Inside, Unwinding
<1> QED  BY <1>2, <1>3, <1>4, <1>5, <1>6, <1>7

\* Leaving Logger is leaving the chain as the audit trail sees it.
LEMMA LoggerStage ==
    ASSUME TypeOK, NEW r \in Request, LeaveLogger(r)
    PROVE  Stage(r) = "inside" /\ Stage(r)' = "left"
<1>1. at[r] \in 0..15  BY RequestTypes
<1>2. Unwinding(r) /\ 10 < at[r]  BY DEF LeaveLogger, Leaves, Depth
<1>3. at'[r] = 10 /\ mode'[r] \in {"up", "panic"}
  BY <1>2 DEF LeaveLogger, Unwind, Unwinding, Depth, TypeOK
<1> QED  BY <1>1, <1>2, <1>3, StageCases, StageCasesNext

\* Every step of r's goroutine is one or the other.
LEMMA HandleStage ==
    ASSUME TypeOK, NEW r \in Request, Handle(r)
    PROVE  \/ StageStep(r) /\ UNCHANGED audit
           \/ LeaveLogger(r)
<1>1. Control(r)  BY HandleControl
<1>2. ASSUME ~LeaveLogger(r) PROVE StageStep(r)
  BY <1>1, <1>2, AdvanceStage, OtherStage DEF Control
<1>3. ASSUME ~LeaveLogger(r) PROVE UNCHANGED audit
  BY <1>1, <1>3 DEF Control, Advance, InHandler, AtEnd, JoinBacklog,
     Pauses, ThrottleRefuses, TakeSlot, LeaveBacklog, LeaveTimeout, LeaveThrottle
<1> QED  BY <1>2, <1>3
-----------------------------------------------------------------------------
(***************************************************************************)
(* The refinement.                                                         *)
(***************************************************************************)
\* The trail of a request with no entry, and of one with one entry.
LEMMA EmptyTrail ==
    ASSUME NEW r \in Request, audit[r] = << >>
    PROVE  StatesOf(r) = << >>
BY DEF StatesOf

LEMMA EmptyTrailNext ==
    ASSUME NEW r \in Request, audit'[r] = << >>
    PROVE  StatesOf(r)' = << >>
BY DEF StatesOf

LEMMA OneTrail ==
    ASSUME NEW r \in Request, NEW e, audit[r] = <<e>>
    PROVE  StatesOf(r) = <<e.state>>
BY DEF StatesOf

LEMMA OneTrailNext ==
    ASSUME NEW r \in Request, NEW e, audit'[r] = <<e>>
    PROVE  StatesOf(r)' = <<e.state>>
BY DEF StatesOf

\* A step about r leaves the trails of the others alone.
LEMMA OneTrailMoves ==
    ASSUME TypeOK, NEW r \in Request, NEW t, StatesOf(r)' = t,
           \A q \in Request \ {r} : audit'[q] = audit[q]
    PROVE  TrailOf' = [TrailOf EXCEPT ![r] = t]
BY DEF TrailOf, StatesOf

\* A request that has left with its one entry.
LEMMA LeftWithOne ==
    ASSUME NEW r \in Request, NEW e, audit'[r] = <<e>>, Stage(r)' = "left"
    PROVE  LoggedOnce(r)'
<1>1. Len(<<e>>) = 1  OBVIOUS
<1> QED  BY <1>1 DEF LoggedOnce

\* Changing the only element of a sequence.
LEMMA ChangeOne ==
    ASSUME NEW x, NEW y
    PROVE  [<<x>> EXCEPT ![1] = y] = <<y>>
OBVIOUS

LEMMA TrailInit == Init => Trail!Init /\ AuditInv
<1> SUFFICES ASSUME Init PROVE Trail!Init /\ AuditInv  OBVIOUS
<1>1. TypeOK  BY InitType
<1>2. ASSUME NEW r \in Request
      PROVE  Stage(r) = "outside" /\ audit[r] = << >> /\ StatesOf(r) = << >>
  <2>1. at[r] = 0 /\ mode[r] = "down" /\ audit[r] = << >>  BY DEF Init
  <2> QED  BY <2>1, EmptyTrail DEF Stage, Inside, Unwinding, Depth
<1>3. Trail!Init  BY <1>2 DEF Trail!Init, StatesOf
<1>4. AuditInv  BY <1>1, <1>2 DEF AuditInv, LoggedOnce
<1> QED  BY <1>3, <1>4

\* A step that defers no entry is a refusal, an admission or invisible.
LEMMA StageTrail ==
    ASSUME AuditInv, NEW r \in Request, Step(r), StageStep(r), UNCHANGED audit
    PROVE  /\ \A q \in Request : LoggedOnce(q)'
           /\ [Trail!Next]_(Trail!vars)
<1>1. TypeOK  BY DEF AuditInv
<1>2. /\ Moves(r, Stage(r)')
      /\ \A q \in Request \ {r} : Stage(q)' = Stage(q)
  BY <1>1, OneMoves
<1>3. TrailOf' = TrailOf  BY DEF TrailOf, StatesOf
<1>4. ASSUME NEW q \in Request PROVE LoggedOnce(q)'
  <2>1. Stage(q)' # "left" => Stage(q) # "left"  BY <1>2 DEF StageStep
  <2> QED  BY <2>1 DEF AuditInv, LoggedOnce
<1>5. CASE Stage(r)' = Stage(r)
  <2>1. StageOf' = StageOf  BY <1>2, <1>5 DEF StageOf
  <2> QED  BY <1>3, <1>4, <2>1 DEF Trail!vars, StageOf, TrailOf, StatesOf
<1>6. CASE Stage(r) = "outside" /\ Stage(r)' = "inside"
  <2>1. Trail!LetIn(r)
    BY <1>2, <1>3, <1>6 DEF Trail!LetIn, Moves, StageOf, TrailOf, StatesOf
  <2> QED  BY <1>4, <2>1 DEF Trail!Next
<1>7. CASE Stage(r) = "outside" /\ Stage(r)' = "left"
  <2>1. Trail!Refuse(r)
    BY <1>2, <1>3, <1>7 DEF Trail!Refuse, Moves, StageOf, TrailOf, StatesOf
  <2> QED  BY <1>4, <2>1 DEF Trail!Next
<1> QED  BY <1>5, <1>6, <1>7 DEF StageStep

\* Logger's deferred function leaves the one entry.
LEMMA LeaveTrail ==
    ASSUME AuditInv, NEW r \in Request, Step(r), LeaveLogger(r)
    PROVE  (\A q \in Request : LoggedOnce(q)') /\ Trail!Leave(r)
<1>1. TypeOK /\ LoggedOnce(r)  BY DEF AuditInv
<1>2. Stage(r) = "inside" /\ Stage(r)' = "left"  BY <1>1, LoggerStage
<1>3. /\ Moves(r, "left")
      /\ \A q \in Request \ {r} : Stage(q)' = Stage(q)
  BY <1>1, <1>2, OneMoves
<1>4. audit'[r] = <<Entry(r)>>
  <2>1. audit[r] = << >>  BY <1>1, <1>2 DEF LoggedOnce
  <2> QED  BY <1>1, <2>1 DEF LeaveLogger, TypeOK
<1>5. \A q \in Request \ {r} : audit'[q] = audit[q]
  BY <1>1 DEF LeaveLogger, TypeOK
<1>6. StatesOf(r)' = <<"pending">>
  <2>1. Entry(r).state = "pending"  BY DEF Entry
  <2> QED  BY <1>4, <2>1, OneTrailNext
<1>7. TrailOf' = [TrailOf EXCEPT ![r] = <<"pending">>]
  BY <1>1, <1>5, <1>6, OneTrailMoves
<1>8. Trail!Leave(r)
  BY <1>2, <1>3, <1>7 DEF Trail!Leave, Moves, StageOf, TrailOf, StatesOf
<1>9. ASSUME NEW q \in Request PROVE LoggedOnce(q)'
  <2>1. CASE q = r  BY <1>2, <1>4, <2>1, LeftWithOne
  <2>2. CASE q # r  BY <1>3, <1>5, <2>2 DEF AuditInv, LoggedOnce
  <2> QED  BY <2>1, <2>2
<1> QED  BY <1>8, <1>9

\* A save goroutine settles the one entry there is.
LEMMA SaveTrail ==
    ASSUME AuditInv, NEW r \in Request, Save(r)
    PROVE  (\A q \in Request : LoggedOnce(q)') /\ Trail!Settle(r)
<1>1. PICK n \in DOMAIN audit[r], outcome \in {"saved", "lost"} :
        /\ audit[r][n].state = "pending"
        /\ audit' = [audit EXCEPT ![r][n].state = outcome]
  BY DEF Save
<1>2. TypeOK /\ LoggedOnce(r) /\ audit[r] \in Seq(EntryType)
  BY DEF AuditInv, TypeOK
<1>3. n = 1 /\ audit[r] = <<audit[r][1]>>
  BY <1>1, <1>2 DEF LoggedOnce
<1>4. StatesOf(r) = <<"pending">>  BY <1>1, <1>3, OneTrail
<1>5. audit'[r] = <<[audit[r][1] EXCEPT !.state = outcome]>>
  <2> DEFINE e == [audit[r][1] EXCEPT !.state = outcome]
  <2>1. audit'[r] = [audit[r] EXCEPT ![1] = e]  BY <1>1, <1>2, <1>3 DEF TypeOK
  <2>2. [<<audit[r][1]>> EXCEPT ![1] = e] = <<e>>  BY ChangeOne
  <2> QED  BY <1>3, <2>1, <2>2
<1>6. \A q \in Request \ {r} : audit'[q] = audit[q]  BY <1>1, <1>2 DEF TypeOK
<1>7. audit[r][1] \in EntryType  BY <1>2, <1>3
<1>8. StatesOf(r)' = <<outcome>>
  <2>1. [audit[r][1] EXCEPT !.state = outcome].state = outcome
    BY <1>7 DEF EntryType
  <2> QED  BY <1>5, <2>1, OneTrailNext
<1>9. TrailOf' = [TrailOf EXCEPT ![r] = <<outcome>>]
  BY <1>2, <1>6, <1>8, OneTrailMoves
<1>10. \A q \in Request : Stage(q)' = Stage(q)
  BY DEF Save, Stage, Inside, Unwinding
<1>11. Trail!Settle(r)
  <2>1. StageOf' = StageOf  BY <1>10 DEF StageOf
  <2> QED  BY <1>4, <1>9, <2>1 DEF Trail!Settle, StageOf, TrailOf, StatesOf
<1>12. ASSUME NEW q \in Request PROVE LoggedOnce(q)'
  <2>1. CASE q = r
    <3>1. audit[r] # << >>  BY <1>3
    <3>2. Stage(r) = "left"  BY <1>2, <3>1 DEF LoggedOnce
    <3> QED  BY <1>5, <1>10, <2>1, <3>2, LeftWithOne
  <2>2. CASE q # r  BY <1>6, <1>10, <2>2 DEF AuditInv, LoggedOnce
  <2> QED  BY <2>1, <2>2
<1> QED  BY <1>11, <1>12

LEMMA TrailStep == AuditInv /\ [Next]_vars => AuditInv' /\ [Trail!Next]_(Trail!vars)
<1> SUFFICES ASSUME AuditInv, [Next]_vars
             PROVE  AuditInv' /\ [Trail!Next]_(Trail!vars)
  OBVIOUS
<1>1. TypeOK /\ TypeOK'  BY NextType DEF AuditInv
<1>2. ASSUME NEW r \in Request, Handle(r)
      PROVE  (\A q \in Request : LoggedOnce(q)') /\ [Trail!Next]_(Trail!vars)
  <2>1. Step(r)  BY <1>1, <1>2, HandleShape
  <2>2. CASE StageStep(r) /\ UNCHANGED audit  BY <2>1, <2>2, StageTrail
  <2>3. CASE LeaveLogger(r)  BY <2>1, <2>3, LeaveTrail DEF Trail!Next
  <2> QED  BY <1>1, <1>2, <2>2, <2>3, HandleStage
<1>3. ASSUME NEW r \in Request, Save(r)
      PROVE  (\A q \in Request : LoggedOnce(q)') /\ [Trail!Next]_(Trail!vars)
  BY <1>3, SaveTrail DEF Trail!Next
<1>4. ASSUME UNCHANGED <<at, mode, audit>>
      PROVE  (\A q \in Request : LoggedOnce(q)') /\ [Trail!Next]_(Trail!vars)
  <2>1. \A q \in Request : Stage(q)' = Stage(q)
    BY <1>4 DEF Stage, Inside, Unwinding
  <2>2. \A q \in Request : LoggedOnce(q)'
    BY <1>4, <2>1 DEF AuditInv, LoggedOnce
  <2>3. StageOf' = StageOf /\ TrailOf' = TrailOf
    BY <1>4, <2>1 DEF StageOf, TrailOf, StatesOf
  <2> QED  BY <2>2, <2>3 DEF Trail!vars, StageOf, TrailOf, StatesOf
<1>5. CASE UNCHANGED <<at, mode, audit>>  BY <1>1, <1>4, <1>5 DEF AuditInv
<1>6. CASE ~ UNCHANGED <<at, mode, audit>>
  <2>1. \E r \in Request : Handle(r) \/ Save(r)
    BY <1>6 DEF Next, Tick, Settled, vars
  <2> QED  BY <1>1, <1>2, <1>3, <2>1 DEF AuditInv
<1> QED  BY <1>5, <1>6

\* The chain implements AuditTrail: a request refused outside Logger leaves no
\* entry, one let in leaves exactly one, on a return and on a panic alike, and
\* the entry is settled at most once (Logger, src/middleware.go).
THEOREM AuditTrailImplemented == Spec => TrailSpec
BY TrailInit, TrailStep, PTL DEF Spec, TrailSpec, Trail!SafeSpec
=============================================================================

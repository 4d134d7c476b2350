---------------------------- MODULE AnswerProofs ----------------------------
(***************************************************************************)
(* A request is answered once, and what the answer says.  The first        *)
(* invariant (AnswerInv): on the way down only the application's own code  *)
(* has anything on the wire.  So a layer that is reached finds an open     *)
(* response or a hook's, and what can still happen to a committed one is   *)
(* the application's own doing or the unwinding's.  The second (TaleInv)   *)
(* follows the response's headers, status and body, and the audit entry,   *)
(* all the way.                                                            *)
(***************************************************************************)
EXTENDS ChainProofs

OpenUntilApp(r) ==
    mode[r] = "down" /\ resp[r].code # 0 => WithApp(r) \/ HookSpoke(r)

AnswerInv == TypeOK /\ \A r \in Request : OpenUntilApp(r)
-----------------------------------------------------------------------------
LEMMA AnswerInit == Init => AnswerInv
BY InitType DEF Init, AnswerInv, OpenUntilApp, NewResponse

LEMMA EnterReaches ==
    ASSUME NEW r \in Request, Enter(r)
    PROVE  \E l \in LayersOf(r) : Reaches(r, l)
<1>1. ASSUME NEW l, Reaches(r, l) PROVE \E k \in LayersOf(r) : Reaches(r, k)
  BY <1>1 DEF Reaches
<1> QED
  BY <1>1 DEF Enter, Descend, MethodOnly, CORS, JoinBacklog, ThrottleRefuses,
     TakeSlot, LeaveBacklog, TrustProxy, Ensure, SetHeaderAuthType, RateBypass,
     HookCalls, HookStops, AtHook, RateAdmits, AtLimiter, PassRateLimit,
     RateDenies, RateCounterFails, InjectorPanics, EnterLogger, SecureHeaders,
     MaxBodySize, AdminCheckCalls, AdminCheck

\* Whoever commits a status and lets the request go on is a hook, or
\* adminCheck that has not called next yet.
LEMMA PassedOpen ==
    ASSUME TypeOK, NEW r \in Request, Enter(r), mode'[r] = "down",
           resp[r].code = 0, resp'[r].code # 0
    PROVE  HookSpoke(r)' \/ AdminCheckCalls(r)
<1>1. resp[r] \in Response  BY RequestTypes
<1>2. ASSUME NEW l, TurnBack(r, l) \/ Blow(r, l) PROVE FALSE
  BY <1>2 DEF TurnBack, Blow, TypeOK
<1>3. CASE CORS(r)
  BY <1>1, <1>2, <1>3 DEF CORS, Answer, SetHeaders, Response, TypeOK
<1>4. CASE SecureHeaders(r)
  BY <1>1, <1>4 DEF SecureHeaders, Answer, SetHeaders, Response, TypeOK
<1>5. CASE HookCalls(r)
  <2>1. PICK w : /\ Answer(r, w)
                 /\ \/ w \in HeaderChange(resp[r])
                    \/ \E status \in AppStatus : w = AppRawHeader(resp[r], status)
                    \/ w = AppRawWrite(resp[r])
    BY <1>5 DEF HookCalls
  <2>2. resp'[r] = w  BY <2>1 DEF Answer, TypeOK
  <2>3. CASE w \in HeaderChange(resp[r])
    BY <1>1, <2>2, <2>3 DEF HeaderChange, Response
  <2>4. ASSUME NEW status \in AppStatus, w = AppRawHeader(resp[r], status)
        PROVE  HookSpoke(r)'
    BY <1>1, <2>2, <2>4 DEF AppRawHeader, Commit, Response, HookSpoke
  <2>5. CASE w = AppRawWrite(resp[r])
    BY <1>1, <2>2, <2>5
       DEF AppRawWrite, AppRawHeader, WriteBody, Commit, Informational, Response, HookSpoke
  <2> QED  BY <2>1, <2>3, <2>4, <2>5
<1>6. CASE ~CORS(r) /\ ~SecureHeaders(r) /\ ~HookCalls(r) /\ ~AdminCheckCalls(r)
  <2>1. UNCHANGED resp
    BY <1>2, <1>6 DEF Enter, Descend, MethodOnly, JoinBacklog, ThrottleRefuses,
       TakeSlot, LeaveBacklog, TrustProxy, Ensure, SetHeaderAuthType,
       RateBypass, HookStops, RateAdmits, PassRateLimit, RateDenies,
       RateCounterFails, InjectorPanics, EnterLogger, MaxBodySize, AdminCheck
  <2> QED  BY <2>1
<1> QED  BY <1>3, <1>4, <1>5, <1>6
-----------------------------------------------------------------------------
\* What is written first stays, whoever writes next.
LEMMA FirstStays ==
    ASSUME TypeOK, NEW r \in Request, Handle(r), resp[r].code # 0
    PROVE  /\ resp'[r].code = resp[r].code /\ resp'[r].sent = resp[r].sent
           /\ resp'[r].by = resp[r].by
<1>1. PICK w : Follows(resp[r], w) /\ resp' = [resp EXCEPT ![r] = w]
  BY HandleShape DEF Step, RespStep, Answer
<1> QED  BY <1>1 DEF Follows, TypeOK

\* Whoever goes on down does not go back.
LEMMA GoesDown ==
    ASSUME TypeOK, NEW r \in Request, Handle(r), mode[r] = "down", mode'[r] = "down"
    PROVE  at'[r] \in 0..15 /\ at'[r] >= at[r]
<1>1. at[r] \in 0..15  BY RequestTypes
<1>2. ASSUME NEW l, Reaches(r, l), Pass(r, l) \/ TurnBack(r, l) \/ Blow(r, l)
      PROVE  at'[r] \in 0..15 /\ at'[r] >= at[r]
  <2>1. l \in LayerName  BY <1>2, RequestTypes DEF Reaches
  <2>2. Depth[l] \in 1..15  BY <2>1, DepthFacts
  <2>3. at'[r] = Depth[l] /\ at[r] < Depth[l]
    BY <1>2 DEF Reaches, Pass, TurnBack, Blow, TypeOK
  <2> QED  BY <1>1, <2>2, <2>3
<1>3. Control(r)  BY HandleControl
<1>4. CASE Advance(r)  BY <1>2, <1>4 DEF Advance
<1>5. CASE Pauses(r) \/ InHandler(r) \/ JoinBacklog(r)
  BY <1>1, <1>5 DEF Pauses, InHandler, JoinBacklog
<1>6. CASE ThrottleRefuses(r) \/ TakeSlot(r) \/ LeaveBacklog(r)
  BY <1>2, <1>6 DEF ThrottleRefuses, TakeSlot, LeaveBacklog
<1>7. CASE AtEnd(r) \/ LeaveLogger(r) \/ LeaveTimeout(r) \/ LeaveThrottle(r)
  BY <1>7 DEF AtEnd, LeaveLogger, LeaveTimeout, LeaveThrottle, Leaves, Unwinding
<1> QED  BY <1>3, <1>4, <1>5, <1>6, <1>7 DEF Control

LEMMA EnterAnswers ==
    ASSUME AnswerInv, NEW r \in Request, Enter(r)
    PROVE  OneAnswer(r) /\ OpenUntilApp(r)'
<1>1. TypeOK /\ Handle(r) /\ UNCHANGED input
  BY HandleShape DEF AnswerInv, Handle, Step
<1>2. PICK l \in LayersOf(r) : Reaches(r, l)  BY EnterReaches
<1>3. /\ mode[r] = "down" /\ l \in LayerName /\ at[r] < Depth[l] /\ at[r] \in 0..15
      /\ Depth[l] \in 1..15
  BY <1>1, <1>2, RequestTypes, DepthFacts DEF Reaches
<1>4. ~InApp(r)  BY <1>3 DEF InApp, Depth
<1>5. resp[r].code # 0 => /\ resp'[r].code = resp[r].code
                          /\ resp'[r].sent = resp[r].sent
                          /\ resp'[r].by = resp[r].by
  BY <1>1, FirstStays
<1>6. resp[r].code # 0 /\ ~HookSpoke(r) => WithApp(r)
  BY <1>3 DEF AnswerInv, OpenUntilApp
<1>7. LayersOf(r)' = LayersOf(r)  BY <1>1, FixedByInput
<1>8. ASSUME mode'[r] = "down", resp'[r].code # 0, ~HookSpoke(r)'
      PROVE  WithApp(r)'
  <2>1. at'[r] \in 0..15 /\ at'[r] >= at[r]  BY <1>1, <1>3, <1>8, GoesDown
  <2>2. CASE resp[r].code # 0
    <3>1. "AdminCheck" \in LayersOf(r) /\ at[r] >= 13
      BY <1>4, <1>5, <1>6, <1>8, <2>2 DEF HookSpoke, WithApp, Depth
    <3> QED  BY <1>3, <1>7, <1>8, <2>1, <3>1 DEF WithApp, Depth
  <2>3. CASE resp[r].code = 0
    <3>1. AdminCheckCalls(r)  BY <1>1, <1>8, <2>3, PassedOpen
    <3>2. Reaches(r, "AdminCheck")  BY <3>1 DEF AdminCheckCalls
    <3>3. "MaxBodySize" \in LayersOf(r)  BY DEF LayersOf, Layers, InnerLayers
    <3>4. "AdminCheck" \in LayersOf(r) /\ at[r] >= 13
      BY <1>3, <3>2, <3>3 DEF Reaches, Depth
    <3> QED  BY <1>3, <1>7, <1>8, <2>1, <3>4 DEF WithApp, Depth
  <2> QED  BY <2>2, <2>3
<1> QED  BY <1>5, <1>6, <1>8 DEF OneAnswer, OpenUntilApp

LEMMA AppAnswers ==
    ASSUME AnswerInv, NEW r \in Request, App(r)
    PROVE  OneAnswer(r) /\ OpenUntilApp(r)'
<1>1. InApp(r) /\ at' = at
  BY DEF App, AppCalls, AppReturns, AppPanics, PreSign
<1>2. resp[r].code # 0 => resp'[r].code = resp[r].code /\ resp'[r].sent = resp[r].sent
  BY FirstStays DEF Handle, AnswerInv
<1> QED  BY <1>1, <1>2 DEF OneAnswer, OpenUntilApp, WithApp, InApp

\* A second status is ignored, body and all.
LEMMA LateHeader ==
    ASSUME NEW w, NEW code, w.code # 0
    PROVE  RawHeader(w, code) = w
BY DEF RawHeader, Commit

LEMMA ExitAnswers ==
    ASSUME AnswerInv, NEW r \in Request, Exit(r)
    PROVE  OneAnswer(r) /\ OpenUntilApp(r)'
<1>1. mode[r] \in {"up", "panic"} /\ mode'[r] # "down"
  BY DEF Exit, LeaveLogger, LeaveTimeout, LeaveThrottle, Recover, Finish,
     Leaves, Unwinding, Unwind, TurnBack, AnswerInv, TypeOK
<1>2. resp[r].code # 0 => resp'[r].code = resp[r].code /\ resp'[r].sent = resp[r].sent
  BY FirstStays DEF Handle, AnswerInv
<1>3. ASSUME resp[r].code # 0, ~(mode[r] = "panic" /\ ~Conf(r).wrapped)
      PROVE  resp'[r] = resp[r]
  <2>1. CASE LeaveLogger(r) \/ LeaveThrottle(r)
    BY <2>1 DEF LeaveLogger, LeaveThrottle
  <2>2. CASE LeaveTimeout(r) \/ Finish(r)
    BY <1>3, <2>2, LateHeader DEF LeaveTimeout, Finish, Answer, AnswerInv, TypeOK
  <2>3. CASE Recover(r)
    BY <1>3, <2>3 DEF Recover, Answer, AnswerInv, TypeOK
  <2> QED  BY <2>1, <2>2, <2>3 DEF Exit
<1> QED  BY <1>1, <1>2, <1>3 DEF OneAnswer, OpenUntilApp
-----------------------------------------------------------------------------
LEMMA StillOpen ==
    ASSUME NEW r \in Request, OpenUntilApp(r), UNCHANGED input,
           at'[r] = at[r], mode'[r] = mode[r], resp'[r] = resp[r]
    PROVE  OneAnswer(r) /\ OpenUntilApp(r)'
<1>1. LayersOf(r)' = LayersOf(r)  BY FixedByInput
<1> QED  BY <1>1 DEF OneAnswer, OpenUntilApp, WithApp, InApp, HookSpoke

LEMMA AnswerStep ==
    AnswerInv /\ [Next]_vars => AnswerInv' /\ [\A r \in Request : OneAnswer(r)]_vars
<1> SUFFICES ASSUME AnswerInv, [Next]_vars, NEW r \in Request
             PROVE  OneAnswer(r) /\ OpenUntilApp(r)'
  BY NextType DEF AnswerInv
<1>1. ASSUME NEW q \in Request, Handle(q) PROVE OneAnswer(r) /\ OpenUntilApp(r)'
  <2>1. CASE q = r
    BY <1>1, <2>1, EnterAnswers, AppAnswers, ExitAnswers DEF Handle
  <2>2. CASE q # r
    <3>1. /\ at'[r] = at[r] /\ mode'[r] = mode[r] /\ resp'[r] = resp[r]
          /\ UNCHANGED input
      BY <1>1, <2>2, HandleShape
         DEF Step, MoveStep, RespStep, Answer, AnswerInv, TypeOK
    <3> QED  BY <3>1, StillOpen DEF AnswerInv
  <2> QED  BY <2>1, <2>2
<1>2. CASE UNCHANGED <<input, at, mode, resp>>
  BY <1>2, StillOpen DEF AnswerInv
<1>3. ASSUME ~ \E q \in Request : Handle(q) PROVE UNCHANGED <<input, at, mode, resp>>
  BY <1>3 DEF Next, Save, Tick, Settled, vars
<1> QED  BY <1>1, <1>2, <1>3

\* A request is answered once: the status and the headers on the wire are
\* final, whoever wrote them; and unless it was a hook, no further layer sees
\* the request, and only the application and Recoverer's error body write on.
THEOREM AnswersFinal == Spec => AnsweredOnce
BY AnswerInit, AnswerStep, PTL DEF Spec, AnsweredOnce
-----------------------------------------------------------------------------
(***************************************************************************)
(* What an answer says, and what its audit entry says of it.  Tale relates *)
(* where a request is (p), which way it goes (m), its response (w) and its *)
(* entries (log), given its route's configuration (c) and origin (o).      *)
(***************************************************************************)
StatusTale(p, m, w, c) ==
    /\ Coherent(w)
    /\ m = "down" \/ p >= 11 => w.by # "raw"
    /\ m = "down" /\ p < 13 => w.by \in {"nobody", "app"}
    /\ m = "down" /\ p < 2 => w.by = "nobody"
    /\ m # "down" => p >= 1
    /\ m = "panic" => p > 3 /\ (w.by = "raw" => w.code = 504)
    /\ m \in {"down", "panic"} => "error" \notin w.body
    /\ m \in {"up", "done"} /\ p = 3 =>
          /\ w.by # "nobody" /\ (w.by = "raw" => w.code \in {500, 504})
          /\ c.wrapped => w.body # {"app", "error"}
    /\ m = "done" => w.by # "nobody"

Carries(w, h) == w.code # 0 => (h \in w.sent <=> h \in w.hdr)

HeaderTale(p, w, log, o) ==
    /\ w.sent \ w.hdr \subseteq AppHeader \cup RemovedHeader
    /\ "Allow-Origin" \notin AppHeader =>
          /\ "Allow-Origin" \in w.hdr <=> p >= 2 /\ o = "allowed"
          /\ Carries(w, "Allow-Origin")
    /\ "Security" \notin AppHeader =>
          /\ p >= 11 \/ log # << >> => "Security" \in w.hdr
          /\ w.by # "app" => Carries(w, "Security")

Recounts(e, p, m, w) ==
    /\ e.status # 0 => /\ w.code # 0
                       /\ w.by # "app" => e.status = w.code
                       /\ w.sent \ e.headers \subseteq AppHeader \cup RemovedHeader
    /\ e.status = 0 /\ w.code = 0 => e.headers = w.hdr
    /\ e.status = 0 /\ w.by # "app" =>
          w.sent \ e.headers \subseteq
             IF p = 3 /\ m \in {"up", "done"} THEN {"Content-Type"} ELSE {}

Tale(p, m, w, log, c, o) ==
    /\ StatusTale(p, m, w, c)
    /\ HeaderTale(p, w, log, o)
    /\ m = "down" => log = << >>
    /\ \A n \in DOMAIN log : Recounts(log[n], p, m, w)

Told(r) == Tale(at[r], mode[r], resp[r], audit[r], Conf(r), input[r].origin)

TaleInv == TypeOK /\ \A r \in Request : Told(r)

\* The layers between p and q set no header
Between(p, q) == (p >= 2 <=> q >= 2) /\ (p >= 11 <=> q >= 11)

Moves(r, q, m, w, log) ==
    at'[r] = q /\ mode'[r] = m /\ resp'[r] = w /\ audit'[r] = log

\* The headers that a write may take away, or add, once CORS and SecureHeaders
\* have set theirs
Gone == AppHeader \cup RemovedHeader
New == AppHeader \cup {"Content-Type"}
-----------------------------------------------------------------------------
\* A write keeps what is said of the headers.
LEMMA HeadersKept ==
    ASSUME NEW p, NEW w \in Response, NEW log, NEW o, HeaderTale(p, w, log, o),
           Coherent(w), NEW v, Writes(w, v, Gone, New)
    PROVE  HeaderTale(p, v, log, o)
<1>1. /\ "Allow-Origin" \notin RemovedHeader /\ "Security" \notin RemovedHeader
      /\ v \in Response
  BY HeaderAssumption DEF Writes, Follows
<1>2. ASSUME NEW h \in {"Allow-Origin", "Security"}, h \notin AppHeader
      PROVE  h \in v.hdr <=> h \in w.hdr
  BY <1>1, <1>2 DEF Writes, Gone, New
<1>3. CASE w.code # 0
  <2>1. v.code = w.code /\ v.sent = w.sent /\ v.by = w.by
    BY <1>3 DEF Writes, Follows
  <2>2. v.sent \ v.hdr \subseteq AppHeader \cup RemovedHeader
    BY <2>1 DEF HeaderTale, Writes, Gone
  <2> QED  BY <1>2, <2>1, <2>2 DEF HeaderTale, Carries
<1>4. CASE w.code = 0 /\ v.code # 0
  <2>1. v.sent = v.hdr  BY <1>4 DEF Writes
  <2> QED  BY <1>2, <2>1 DEF HeaderTale, Carries
<1>5. CASE v.code = 0
  <2>1. v.sent = {}  BY <1>5 DEF Writes, Coherent
  <2> QED  BY <1>2, <1>5, <2>1 DEF HeaderTale, Carries
<1> QED  BY <1>3, <1>4, <1>5

LEMMA WritesLess ==
    ASSUME NEW w, NEW v, NEW gone, NEW new, Writes(w, v, gone, new),
           gone \subseteq Gone, new \subseteq New
    PROVE  Writes(w, v, Gone, New)
BY DEF Writes

LEMMA TalePasses ==
    ASSUME NEW p \in 0..14, NEW q \in 0..15, p < q, NEW w \in Response, NEW c, NEW o,
           Tale(p, "down", w, << >>, c, o), Between(p, q)
    PROVE  Tale(q, "down", w, << >>, c, o)
BY DEF Tale, StatusTale, HeaderTale, Between

\* A layer outside Logger that turns a request back with an error.
LEMMA TaleRefuses ==
    ASSUME NEW p \in 0..14, NEW q \in 1..10, NEW w \in Response, NEW c, NEW o,
           Tale(p, "down", w, << >>, c, o), Between(p, q), q # 3,
           NEW code \in {400, 401, 405, 428, 429}, NEW v, v = RawError(w, code)
    PROVE  Tale(q, "up", v, << >>, c, o)
<1>1. Coherent(w) /\ code \in Nat \ {0} /\ code \notin Informational
  BY DEF Tale, StatusTale, Informational
<1>2. Writes(w, v, {}, {"Content-Type"})  BY <1>1, RawErrorCoherent
<1>3. Writes(w, v, Gone, New)
  <2>1. {} \subseteq Gone /\ {"Content-Type"} \subseteq New  BY DEF New
  <2> QED  BY <1>2, <2>1, WritesLess
<1>4. HeaderTale(p, v, << >>, o)  BY <1>1, <1>3, HeadersKept DEF Tale
<1>5. HeaderTale(q, v, << >>, o)  BY <1>4 DEF HeaderTale, Between
<1>6. StatusTale(q, "up", v, c)  BY <1>3 DEF StatusTale, Writes
<1> QED  BY <1>5, <1>6 DEF Tale

\* A layer, or the application below it, that turns it back without a word.
LEMMA TaleTurns ==
    ASSUME NEW p \in 0..15, NEW q \in 1..15, NEW w \in Response, NEW c, NEW o,
           Tale(p, "down", w, << >>, c, o), Between(p, q), q # 3
    PROVE  Tale(q, "up", w, << >>, c, o)
BY DEF Tale, StatusTale, HeaderTale, Between

LEMMA TaleBlows ==
    ASSUME NEW p \in 0..15, NEW q \in 4..15, NEW w \in Response, NEW c, NEW o,
           Tale(p, "down", w, << >>, c, o), Between(p, q)
    PROVE  Tale(q, "panic", w, << >>, c, o)
BY DEF Tale, StatusTale, HeaderTale, Between

\* Headers set before anything is written, CORS's preflight answer included.
LEMMA TaleCORS ==
    ASSUME NEW p \in 0..1, NEW w \in Response, NEW c,
           NEW o \in {"none", "allowed", "foreign"},
           Tale(p, "down", w, << >>, c, o),
           NEW v, v = SetHeaders(w, CorsHeaders(o))
    PROVE  /\ Tale(2, "down", v, << >>, c, o)
           /\ Tale(2, "up", RawHeader(v, 204), << >>, c, o)
<1>1. /\ Coherent(w) /\ w.by = "nobody" /\ w.code = 0 /\ "error" \notin w.body
      /\ "Allow-Origin" \notin AppHeader => "Allow-Origin" \notin w.hdr
  BY DEF Tale, StatusTale, HeaderTale, Coherent
<1>2. /\ CorsHeaders(o) \in SUBSET Header
      /\ "Allow-Origin" \in CorsHeaders(o) <=> o = "allowed"
  BY DEF CorsHeaders, Header
<1>3. /\ Writes(w, v, {}, CorsHeaders(o)) /\ v.hdr = w.hdr \cup CorsHeaders(o)
      /\ v.by = w.by /\ v.body = w.body /\ v.code = w.code
  BY <1>1, <1>2, SetHeadersCoherent
<1>4. v \in Response /\ Coherent(v) /\ v.sent = {}
  BY <1>1, <1>3 DEF Writes, Follows, Coherent
<1>5. StatusTale(2, "down", v, c)  BY <1>1, <1>3, <1>4 DEF StatusTale
<1>6. HeaderTale(2, v, << >>, o)
  BY <1>1, <1>2, <1>3, <1>4 DEF HeaderTale, Carries
<1> DEFINE u == RawHeader(v, 204)
<1>7. 204 \in Nat \ {0} /\ 204 \notin Informational  BY DEF Informational
<1>8. Writes(v, u, {}, {})  BY <1>4, <1>7, RawHeaderCoherent
<1> HIDE DEF u
<1>9. Writes(v, u, Gone, New)  BY <1>8, WritesLess
<1>10. HeaderTale(2, u, << >>, o)  BY <1>4, <1>6, <1>9, HeadersKept
<1>11. StatusTale(2, "up", u, c)  BY <1>9 DEF StatusTale, Writes
<1> QED  BY <1>5, <1>6, <1>10, <1>11 DEF Tale, u

LEMMA TaleSecured ==
    ASSUME NEW p \in 2..10, NEW w \in Response, NEW c, NEW o,
           Tale(p, "down", w, << >>, c, o)
    PROVE  Tale(11, "down", SetHeaders(w, {"Security"}), << >>, c, o)
<1> DEFINE v == SetHeaders(w, {"Security"})
<1>1. Coherent(w) /\ w.by \in {"nobody", "app"} /\ "error" \notin w.body
  BY DEF Tale, StatusTale
<1>2. /\ Writes(w, v, {}, {"Security"}) /\ v.hdr = w.hdr \cup {"Security"}
      /\ v.by = w.by /\ v.body = w.body /\ v.code = w.code
  BY <1>1, SetHeadersCoherent DEF Header
<1> HIDE DEF v
<1>3. Coherent(v) /\ (w.code # 0 => v.sent = w.sent) /\ (v.code = 0 => v.sent = {})
  BY <1>2 DEF Writes, Follows, Coherent
<1>4. StatusTale(11, "down", v, c)  BY <1>1, <1>2, <1>3 DEF StatusTale
<1>5. HeaderTale(11, v, << >>, o)
  BY <1>1, <1>2, <1>3 DEF Tale, HeaderTale, Carries, Coherent
<1> QED  BY <1>4, <1>5 DEF Tale, v

\* The application writes and stays where it is: a hook as itself, adminCheck
\* and the handler through the cleaner.
LEMMA TaleWritten ==
    ASSUME NEW p \in 2..15, NEW w \in Response, NEW c, NEW o,
           Tale(p, "down", w, << >>, c, o), NEW v, Writes(w, v, Gone, New),
           v.by \in {w.by, "app"} \/ (p >= 13 /\ v.by # "raw"), "error" \notin v.body
    PROVE  Tale(p, "down", v, << >>, c, o)
<1>1. HeaderTale(p, v, << >>, o)  BY HeadersKept DEF Tale, StatusTale
<1>2. StatusTale(p, "down", v, c)  BY DEF Tale, StatusTale, Writes
<1> QED  BY <1>1, <1>2 DEF Tale

\* MaxBodySize and PreSignHandler answer through the cleaner and turn back.
LEMMA TaleAnswered ==
    ASSUME NEW p \in 0..15, NEW q \in 1..15, NEW w \in Response, NEW c, NEW o,
           Tale(p, "down", w, << >>, c, o), Between(p, q), q # 3,
           NEW v, Writes(w, v, Gone, New), v.by # "raw"
    PROVE  Tale(q, "up", v, << >>, c, o)
<1>1. HeaderTale(p, v, << >>, o)  BY HeadersKept DEF Tale, StatusTale
<1>2. HeaderTale(q, v, << >>, o)  BY <1>1 DEF HeaderTale, Between
<1>3. StatusTale(q, "up", v, c)  BY DEF StatusTale, Writes
<1> QED  BY <1>2, <1>3 DEF Tale

\* Logger's deferred function makes the entry from what there is.
LEMMA TaleLogged ==
    ASSUME NEW p \in 11..15, NEW m \in {"up", "panic"}, NEW w \in Response,
           NEW log \in Seq(EntryType), NEW c, NEW o, Tale(p, m, w, log, c, o),
           NEW e \in EntryType, e.status = w.rec, e.headers = w.hdr
    PROVE  Tale(10, m, w, Append(log, e), c, o)
<1>1. Append(log, e) # << >> /\ DOMAIN Append(log, e) = 1..(Len(log) + 1)
  OBVIOUS
<1>2. Recounts(e, 10, m, w)
  <2>1. /\ Coherent(w) /\ w.by # "raw"
        /\ w.sent \ w.hdr \subseteq AppHeader \cup RemovedHeader
    BY DEF Tale, StatusTale, HeaderTale
  <2>2. w.rec # 0 => w.code # 0 /\ (w.by # "app" => w.rec = w.code)
    BY <2>1 DEF Coherent
  <2>3. w.rec = 0 /\ w.by # "app" => w.sent = {}
    BY <2>1 DEF Coherent, Response, Writer
  <2> QED  BY <2>1, <2>2, <2>3 DEF Recounts
<1>3. ASSUME NEW n \in DOMAIN Append(log, e)
      PROVE  Recounts(Append(log, e)[n], 10, m, w)
  <2>1. CASE n = Len(log) + 1
    <3>1. Append(log, e)[n] = e  BY <2>1
    <3> QED  BY <1>2, <3>1
  <2>2. CASE n # Len(log) + 1
    <3>1. n \in DOMAIN log /\ Append(log, e)[n] = log[n]  BY <1>1, <2>2
    <3>2. Recounts(log[n], p, m, w)  BY <3>1 DEF Tale
    <3>3. Recounts(log[n], 10, m, w)  BY <3>2 DEF Recounts
    <3> QED  BY <3>1, <3>3
  <2> QED  BY <2>1, <2>2
<1>4. StatusTale(10, m, w, c)  BY DEF Tale, StatusTale
<1>5. HeaderTale(10, w, Append(log, e), o)  BY DEF Tale, HeaderTale
<1> QED  BY <1>3, <1>4, <1>5 DEF Tale

\* A late status from outside leaves every entry true: what was not committed
\* goes out with the headers the entry has.
LEMMA LateRecounts ==
    ASSUME NEW p \in 0..15, NEW q \in 0..15, p = 3 => q = 3, NEW m \in {"up", "panic"},
           NEW n \in {m, "done"}, NEW w \in Response,
           Coherent(w), NEW code \in {200, 504}, NEW v, v = RawHeader(w, code),
           NEW e \in EntryType, Recounts(e, p, m, w)
    PROVE  Recounts(e, q, n, v)
<1>1. CASE w.code # 0
  <2>1. v = w  BY <1>1, LateHeader
  <2> QED  BY <1>1, <2>1 DEF Recounts
<1>2. CASE w.code = 0
  <2>1. code \in Nat \ {0} /\ code \notin Informational  BY DEF Informational
  <2>2. Writes(w, v, {}, {}) /\ v.hdr = w.hdr /\ v.code = code
    BY <1>2, <2>1, RawHeaderCoherent
  <2>3. e.status = 0 /\ e.headers = w.hdr /\ v.code # 0
    BY <1>2, <2>1, <2>2 DEF Recounts, EntryType
  <2>4. v.sent = w.hdr  BY <1>2, <2>2, <2>3 DEF Writes
  <2> QED  BY <2>3, <2>4 DEF Recounts
<1> QED  BY <1>1, <1>2

\* The outer layers on the way up: a deadline, or nothing.
LEMMA TaleUnwinds ==
    ASSUME NEW p \in 0..15, NEW q \in {4, 5}, q < p, NEW m \in {"up", "panic"},
           NEW w \in Response, NEW log \in Seq(EntryType), NEW c, NEW o,
           Tale(p, m, w, log, c, o), NEW v, v \in {w, RawHeader(w, 504)}
    PROVE  Tale(q, m, v, log, c, o)
<1>1. CASE v = w
  <2>1. ASSUME NEW n \in DOMAIN log PROVE Recounts(log[n], q, m, w)
    BY DEF Tale, Recounts
  <2>2. StatusTale(q, m, w, c) /\ HeaderTale(q, w, log, o)
    BY DEF Tale, StatusTale, HeaderTale
  <2> QED  BY <1>1, <2>1, <2>2 DEF Tale
<1>2. CASE v = RawHeader(w, 504)
  <2>1. Coherent(w) /\ 504 \in Nat \ {0} /\ 504 \notin Informational
    BY DEF Tale, StatusTale, Informational
  <2>2. /\ Writes(w, v, {}, {}) /\ v.hdr = w.hdr /\ v.body = w.body
        /\ v.code = IF w.code # 0 THEN w.code ELSE 504
        /\ v.by = IF w.code # 0 THEN w.by ELSE "raw"
    BY <1>2, <2>1, RawHeaderCoherent
  <2>3. Writes(w, v, Gone, New)  BY <2>2, WritesLess
  <2>4. HeaderTale(p, v, log, o)  BY <2>1, <2>3, HeadersKept DEF Tale
  <2>5. HeaderTale(q, v, log, o)  BY <2>4 DEF HeaderTale
  <2>6. StatusTale(q, m, v, c)  BY <2>2 DEF Tale, StatusTale, Writes
  <2>7. ASSUME NEW n \in DOMAIN log PROVE Recounts(log[n], q, m, v)
    <3> DEFINE e == log[n]
    <3>1. /\ e \in EntryType /\ Recounts(e, p, m, w)
          /\ p = 3 => q = 3
      BY DEF Tale
    <3> HIDE DEF e
    <3>2. Recounts(e, q, m, v)
      <4>1. q \in 0..15 /\ m \in {m, "done"} /\ 504 \in {200, 504}  OBVIOUS
      <4> QED  BY <1>2, <2>1, <3>1, <4>1, LateRecounts
    <3> QED  BY <3>2 DEF e
  <2> QED  BY <2>5, <2>6, <2>7 DEF Tale
<1> QED  BY <1>1, <1>2

\* Recoverer answers a panic, unless it can see that there is an answer.
LEMMA TaleRecovers ==
    ASSUME NEW p \in 0..15, NEW w \in Response, NEW log \in Seq(EntryType),
           NEW c, NEW o, Tale(p, "panic", w, log, c, o),
           NEW v, v = IF c.wrapped /\ w.code # 0 THEN w ELSE RawError(w, 500)
    PROVE  Tale(3, "up", v, log, c, o)
<1>1. Coherent(w) /\ 500 \in Nat \ {0} /\ 500 \notin Informational
  BY DEF Tale, StatusTale, Informational
<1>2. p > 3 /\ "error" \notin w.body /\ (w.by = "raw" => w.code = 504)
  BY DEF Tale, StatusTale
<1>3. CASE c.wrapped /\ w.code # 0
  <2>1. v = w  BY <1>3
  <2>2. StatusTale(3, "up", w, c)
    BY <1>1, <1>2, <1>3 DEF StatusTale, Coherent
  <2>3. HeaderTale(3, w, log, o)  BY <1>2 DEF Tale, HeaderTale
  <2>4. ASSUME NEW n \in DOMAIN log PROVE Recounts(log[n], 3, "up", w)
    <3>1. Recounts(log[n], p, "panic", w)  BY DEF Tale
    <3> QED  BY <3>1 DEF Recounts
  <2> QED  BY <2>1, <2>2, <2>3, <2>4 DEF Tale
<1>4. CASE ~(c.wrapped /\ w.code # 0)
  <2>1. v = RawError(w, 500)  BY <1>4
  <2>2. /\ Writes(w, v, {}, {"Content-Type"})
        /\ v.body = w.body \cup {"error"}
        /\ v.code = IF w.code # 0 THEN w.code ELSE 500
        /\ v.by = IF w.code # 0 THEN w.by ELSE "raw"
    BY <1>1, <2>1, RawErrorCoherent
  <2>3. Writes(w, v, Gone, New)
    <3>1. {} \subseteq Gone /\ {"Content-Type"} \subseteq New  BY DEF New
    <3> QED  BY <2>2, <3>1, WritesLess
  <2>4. HeaderTale(p, v, log, o)  BY <1>1, <2>3, HeadersKept DEF Tale
  <2>5. HeaderTale(3, v, log, o)  BY <1>2, <2>4 DEF HeaderTale
  <2>6. StatusTale(3, "up", v, c)
    <3>1. c.wrapped => v.body # {"app", "error"}
      <4>1. c.wrapped => w.body = {}  BY <1>1, <1>4 DEF Coherent
      <4> QED  BY <2>2, <4>1
    <3>2. v.by # "nobody" /\ (v.by = "raw" => v.code \in {500, 504})
      BY <1>1, <1>2, <2>2 DEF Coherent
    <3> QED  BY <2>2, <3>1, <3>2 DEF StatusTale, Writes
  <2>7. ASSUME NEW n \in DOMAIN log PROVE Recounts(log[n], 3, "up", v)
    <3>1. log[n] \in EntryType /\ Recounts(log[n], p, "panic", w)  BY DEF Tale
    <3>2. CASE w.code # 0
      <4>1. v.code = w.code /\ v.sent = w.sent /\ v.by = w.by
        BY <2>2, <3>2 DEF Writes, Follows
      <4> QED  BY <3>1, <3>2, <4>1 DEF Recounts
    <3>3. CASE w.code = 0
      <4>1. log[n].status = 0 /\ log[n].headers = w.hdr
        BY <3>1, <3>3 DEF Recounts, EntryType
      <4>2. v.code # 0 /\ v.sent = v.hdr /\ v.hdr \ w.hdr \subseteq {"Content-Type"}
        BY <2>2, <3>3 DEF Writes
      <4> QED  BY <4>1, <4>2 DEF Recounts
    <3> QED  BY <3>2, <3>3
  <2> QED  BY <2>5, <2>6, <2>7 DEF Tale
<1> QED  BY <1>3, <1>4

\* net/http's own 200 for a handler that stated nothing.
LEMMA TaleEnds ==
    ASSUME NEW p \in 0..10, NEW w \in Response, NEW log \in Seq(EntryType),
           NEW c, NEW o, Tale(p, "up", w, log, c, o),
           NEW v, v = RawHeader(w, 200)
    PROVE  Tale(p, "done", v, log, c, o)
<1>1. Coherent(w) /\ 200 \in Nat \ {0} /\ 200 \notin Informational
  BY DEF Tale, StatusTale, Informational
<1>2. /\ Writes(w, v, {}, {}) /\ v.hdr = w.hdr /\ v.body = w.body
      /\ v.code = IF w.code # 0 THEN w.code ELSE 200
      /\ v.by = IF w.code # 0 THEN w.by ELSE "raw"
  BY <1>1, RawHeaderCoherent
<1>3. Writes(w, v, Gone, New)  BY <1>2, WritesLess
<1>4. HeaderTale(p, v, log, o)  BY <1>1, <1>3, HeadersKept DEF Tale
<1>5. StatusTale(p, "done", v, c)
  BY <1>1, <1>2 DEF Tale, StatusTale, Writes, Coherent
<1>6. ASSUME NEW n \in DOMAIN log PROVE Recounts(log[n], p, "done", v)
  <2> DEFINE e == log[n]
  <2>1. e \in EntryType /\ Recounts(e, p, "up", w)  BY DEF Tale
  <2> HIDE DEF e
  <2>2. Recounts(e, p, "done", v)  BY <1>1, <2>1, LateRecounts
  <2> QED  BY <2>2 DEF e
<1> QED  BY <1>4, <1>5, <1>6 DEF Tale

\* What a limiter hook does with the writer, and adminCheck or the handler with
\* theirs.
LEMMA HeaderChangeWrites ==
    ASSUME NEW w \in Response, Coherent(w), NEW v \in HeaderChange(w)
    PROVE  Writes(w, v, Gone, New) /\ v.by = w.by /\ v.body = w.body
<1>1. PICK hs \in SUBSET AppHeader : v = [w EXCEPT !.hdr = (@ \ AppHeader) \cup hs]
  BY DEF HeaderChange
<1> DEFINE new == (w.hdr \ AppHeader) \cup hs
<1>2. new \in SUBSET Header /\ v = [w EXCEPT !.hdr = new]
  BY <1>1, ChainAssumption DEF Response
<1>3. w.hdr \ new \subseteq Gone /\ new \ w.hdr \subseteq New
  BY DEF Gone, New
<1> HIDE DEF new
<1>4. /\ Writes(w, v, w.hdr \ new, new \ w.hdr) /\ v.by = w.by /\ v.body = w.body
  BY <1>2, HeadersCoherent
<1> QED  BY <1>3, <1>4, WritesLess

LEMMA HookWrites ==
    ASSUME NEW w \in Response, Coherent(w), NEW v,
           \/ v \in HeaderChange(w)
           \/ \E status \in AppStatus : v = AppRawHeader(w, status)
           \/ v = AppRawWrite(w)
    PROVE  /\ Writes(w, v, Gone, New) /\ v.by \in {w.by, "app"}
           /\ v.body \subseteq w.body \cup {"app"}
<1>1. CASE v \in HeaderChange(w)  BY <1>1, HeaderChangeWrites
<1>2. ASSUME NEW status \in Nat \ {0},
             v = AppRawHeader(w, status) \/ v = AppRawWrite(w)
      PROVE  /\ Writes(w, v, Gone, New) /\ v.by \in {w.by, "app"}
             /\ v.body \subseteq w.body \cup {"app"}
  BY <1>2, AppRawCoherent, WritesLess
<1>3. AppStatus \subseteq Nat \ {0} /\ 200 \in Nat \ {0}  BY ChainAssumption
<1> QED  BY <1>1, <1>2, <1>3

LEMMA AppWrites ==
    ASSUME NEW w \in Response, Coherent(w), w.by # "raw", NEW v \in Written(w)
    PROVE  /\ Writes(w, v, Gone, New) /\ v.by # "raw"
           /\ v.body \subseteq w.body \cup {"app"}
<1>1. CASE v \in HeaderChange(w)  BY <1>1, HeaderChangeWrites
<1>2. ASSUME NEW status \in AppStatus, v = CleanerHeader(w, status)
      PROVE  /\ Writes(w, v, Gone, New) /\ v.by # "raw"
             /\ v.body \subseteq w.body \cup {"app"}
  <2>1. status \in Nat \ {0}  BY ChainAssumption
  <2>2. /\ Writes(w, v, RemovedHeader, {}) /\ v.body = w.body
        /\ v.by \in {w.by, "cleaner"}
    BY <1>2, <2>1, CleanerHeaderCoherent
  <2>3. RemovedHeader \subseteq Gone  BY DEF Gone
  <2> QED  BY <2>2, <2>3, WritesLess
<1>3. CASE v = CleanerWrite(w, "app")
  <2>1. /\ Writes(w, v, {}, {}) /\ v.by \in {w.by, "recorder"}
        /\ v.body = w.body \cup {"app"}
    BY <1>3, CleanerWriteCoherent DEF Source
  <2> QED  BY <2>1, WritesLess
<1> QED  BY <1>1, <1>2, <1>3 DEF Written
-----------------------------------------------------------------------------
\* Every route has CORS and SecureHeaders: no other layer is entered across them.
LEMMA Crosses ==
    ASSUME TypeOK, NEW r \in Request, NEW l, Reaches(r, l)
    PROVE  /\ l \in LayerName /\ Depth[l] \in 1..15 /\ at[r] \in 0..14
           /\ at[r] < Depth[l]
           /\ l \notin {"CORS", "SecureHeaders"} => Between(at[r], Depth[l])
           /\ l = "CORS" => at[r] \in 0..1
           /\ l = "SecureHeaders" => at[r] \in 2..10
<1>1. l \in LayerName /\ at[r] \in 0..15 /\ at[r] < Depth[l]
  BY RequestTypes DEF Reaches
<1>2. Depth[l] \in 1..15  BY <1>1, DepthFacts
<1>3. /\ Depth["CORS"] <= at[r] \/ Depth[l] <= Depth["CORS"]
      /\ Depth["SecureHeaders"] <= at[r] \/ Depth[l] <= Depth["SecureHeaders"]
  BY DEF Reaches, LayersOf, Layers, InnerLayers, OuterLayers
<1>4. Depth["CORS"] = 2 /\ Depth["SecureHeaders"] = 11  BY DEF Depth
<1>5. /\ l # "CORS" => Depth[l] # 2
      /\ l # "SecureHeaders" => Depth[l] # 11
  BY <1>1, <1>4, DepthFacts DEF LayerName
<1> QED  BY <1>1, <1>2, <1>3, <1>4, <1>5 DEF Between

\* On the way down nothing is logged.
LEMMA DownTale ==
    ASSUME TaleInv, NEW r \in Request, mode[r] = "down"
    PROVE  /\ audit[r] = << >>
           /\ Tale(at[r], "down", resp[r], << >>, Conf(r), input[r].origin)
<1>1. Tale(at[r], mode[r], resp[r], audit[r], Conf(r), input[r].origin)
  BY DEF TaleInv, Told
<1>2. audit[r] = << >>  BY <1>1 DEF Tale
<1> QED  BY <1>1, <1>2

LEMMA ToldBy ==
    ASSUME NEW r \in Request, UNCHANGED input, NEW q, NEW m, NEW w, NEW log,
           Moves(r, q, m, w, log), Tale(q, m, w, log, Conf(r), input[r].origin)
    PROVE  Told(r)'
<1>1. Conf(r)' = Conf(r)  BY DEF Conf, RouteOf
<1> QED  BY <1>1 DEF Moves, Told

LEMMA PassTold ==
    ASSUME TaleInv, NEW r \in Request, NEW l, Reaches(r, l), Pass(r, l),
           l \notin {"CORS", "SecureHeaders"}, UNCHANGED <<input, resp, audit>>
    PROVE  Told(r)'
<1>1. mode[r] = "down" /\ resp[r] \in Response
  BY RequestTypes DEF Reaches, TaleInv
<1>2. Moves(r, Depth[l], "down", resp[r], << >>)
  BY <1>1, DownTale DEF Pass, Moves, TaleInv, TypeOK
<1>3. /\ at[r] \in 0..14 /\ Depth[l] \in 1..15 /\ Depth[l] \in 0..15
      /\ at[r] < Depth[l] /\ Between(at[r], Depth[l])
      /\ Tale(at[r], "down", resp[r], << >>, Conf(r), input[r].origin)
  BY <1>1, DownTale, Crosses DEF TaleInv
<1>4. Tale(Depth[l], "down", resp[r], << >>, Conf(r), input[r].origin)
  BY <1>1, <1>3, TalePasses
<1> QED  BY <1>2, <1>4, ToldBy

LEMMA RefuseTold ==
    ASSUME TaleInv, NEW r \in Request,
           NEW l \in {"MethodOnly", "Throttle", "Ensure", "RateLimit", "Logger"},
           Reaches(r, l), TurnBack(r, l), UNCHANGED <<input, audit>>,
           NEW code \in {400, 401, 405, 428, 429}, Answer(r, RawError(resp[r], code))
    PROVE  Told(r)'
<1> DEFINE p == at[r]
           q == Depth[l]
           w == resp[r]
           v == RawError(w, code)
           c == Conf(r)
           o == input[r].origin
<1>1. mode[r] = "down" /\ w \in Response
  BY RequestTypes DEF Reaches, TaleInv
<1>2. Moves(r, q, "up", v, << >>)
  BY <1>1, DownTale DEF TurnBack, Answer, Moves, TaleInv, TypeOK
<1>3. q \in 1..10 /\ q # 3  BY DEF Depth
<1>4. p \in 0..14 /\ Between(p, q) /\ Tale(p, "down", w, << >>, c, o)
  BY <1>1, DownTale, Crosses DEF TaleInv
<1> HIDE DEF p, q, w, v, c, o
<1>5. Tale(q, "up", v, << >>, c, o)  BY <1>1, <1>3, <1>4, TaleRefuses DEF v
<1> QED  BY <1>2, <1>5, ToldBy DEF c, o

LEMMA TurnTold ==
    ASSUME TaleInv, NEW r \in Request, NEW l \in {"RateLimit", "AdminCheck"},
           Reaches(r, l), TurnBack(r, l) \/ Blow(r, l), UNCHANGED <<input, audit, resp>>
    PROVE  Told(r)'
<1> DEFINE p == at[r]
           q == Depth[l]
           w == resp[r]
           c == Conf(r)
           o == input[r].origin
<1>1. mode[r] = "down" /\ w \in Response
  BY RequestTypes DEF Reaches, TaleInv
<1>2. Moves(r, q, "up", w, << >>) \/ Moves(r, q, "panic", w, << >>)
  BY <1>1, DownTale DEF TurnBack, Blow, Moves, TaleInv, TypeOK
<1>3. q \in 1..15 /\ q \in 4..15 /\ q # 3  BY DEF Depth
<1>4. p \in 0..15 /\ Between(p, q) /\ Tale(p, "down", w, << >>, c, o)
  BY <1>1, DownTale, Crosses DEF TaleInv
<1> HIDE DEF p, q, w, c, o
<1>5. Tale(q, "up", w, << >>, c, o) /\ Tale(q, "panic", w, << >>, c, o)
  BY <1>1, <1>3, <1>4, TaleTurns, TaleBlows
<1> QED  BY <1>2, <1>5, ToldBy DEF c, o

LEMMA BlowTold ==
    ASSUME TaleInv, NEW r \in Request, Reaches(r, "Logger"), Blow(r, "Logger"),
           UNCHANGED <<input, resp, audit>>
    PROVE  Told(r)'
<1>1. mode[r] = "down" /\ resp[r] \in Response
  BY RequestTypes DEF Reaches, TaleInv
<1>2. Moves(r, 10, "panic", resp[r], << >>)
  BY <1>1, DownTale DEF Blow, Moves, TaleInv, TypeOK, Depth
<1>3. /\ at[r] \in 0..15 /\ Between(at[r], Depth["Logger"])
      /\ Tale(at[r], "down", resp[r], << >>, Conf(r), input[r].origin)
  BY <1>1, DownTale, Crosses DEF TaleInv
<1>4. Depth["Logger"] = 10 /\ 10 \in 4..15  BY DEF Depth
<1>5. Tale(10, "panic", resp[r], << >>, Conf(r), input[r].origin)
  BY <1>1, <1>3, <1>4, TaleBlows
<1> QED  BY <1>2, <1>5, ToldBy

\* Application code writes where it is.
LEMMA WriteTold ==
    ASSUME TaleInv, NEW r \in Request, mode[r] = "down", at[r] \in 2..15,
           UNCHANGED <<input, at, mode, audit>>, NEW v, Answer(r, v),
           Writes(resp[r], v, Gone, New), v.body \subseteq resp[r].body \cup {"app"},
           v.by \in {resp[r].by, "app"} \/ (at[r] >= 13 /\ v.by # "raw")
    PROVE  Told(r)'
<1> DEFINE p == at[r]
           w == resp[r]
           c == Conf(r)
           o == input[r].origin
<1>1. w \in Response /\ Tale(p, "down", w, << >>, c, o)
  BY DownTale, RequestTypes DEF TaleInv
<1>2. Moves(r, p, "down", v, << >>)
  BY DownTale DEF Answer, Moves, TaleInv, TypeOK
<1>3. "error" \notin v.body  BY <1>1 DEF Tale, StatusTale
<1>4. /\ p \in 2..15 /\ Writes(w, v, Gone, New)
      /\ v.by \in {w.by, "app"} \/ (p >= 13 /\ v.by # "raw")
  OBVIOUS
<1> HIDE DEF p, w, c, o
<1>5. Tale(p, "down", v, << >>, c, o)  BY <1>1, <1>3, <1>4, TaleWritten
<1> QED  BY <1>2, <1>5, ToldBy DEF c, o

\* MaxBodySize's answer through the cleaner.
LEMMA LimitTold ==
    ASSUME TaleInv, NEW r \in Request, Reaches(r, "MaxBodySize"),
           TurnBack(r, "MaxBodySize"), UNCHANGED <<input, audit>>,
           NEW code \in Nat \ {0}, Answer(r, CleanerAnswer(resp[r], code, "error"))
    PROVE  Told(r)'
<1> DEFINE p == at[r]
           w == resp[r]
           v == CleanerAnswer(w, code, "error")
           c == Conf(r)
           o == input[r].origin
<1>1. mode[r] = "down" /\ w \in Response /\ Depth["MaxBodySize"] = 13
  BY RequestTypes DEF Reaches, TaleInv, Depth
<1>2. Moves(r, 13, "up", v, << >>)
  BY <1>1, DownTale DEF TurnBack, Answer, Moves, TaleInv, TypeOK
<1>3. p \in 0..15 /\ Between(p, 13) /\ Tale(p, "down", w, << >>, c, o)
  BY <1>1, DownTale, Crosses DEF TaleInv
<1> HIDE DEF p, w, c, o
<1>4. /\ Writes(w, v, RemovedHeader, {"Content-Type"})
      /\ v.by \in {w.by, "recorder", "cleaner"} /\ w.by # "raw"
  BY <1>1, <1>3, CleanerAnswerCoherent DEF Tale, StatusTale, Source
<1>5. Writes(w, v, Gone, New)
  <2>1. RemovedHeader \subseteq Gone /\ {"Content-Type"} \subseteq New  BY DEF Gone, New
  <2> QED  BY <1>4, <2>1, WritesLess
<1>6. v.by # "raw" /\ 13 \in 1..15 /\ 13 # 3  BY <1>4
<1> HIDE DEF v
<1>7. Tale(13, "up", v, << >>, c, o)  BY <1>1, <1>3, <1>5, <1>6, TaleAnswered
<1> QED  BY <1>2, <1>7, ToldBy DEF c, o
-----------------------------------------------------------------------------
LEMMA OuterTold ==
    ASSUME TaleInv, NEW r \in Request,
           \/ Descend(r) \/ MethodOnly(r) \/ TrustProxy(r) \/ Ensure(r)
           \/ SetHeaderAuthType(r) \/ ThrottleRefuses(r) \/ TakeSlot(r)
           \/ LeaveBacklog(r) \/ EnterLogger(r)
    PROVE  Told(r)'
<1>1. CASE Descend(r)
  <2>1. PICK l \in {"Recoverer", "Timeout", "RemoveHeaders", "App"} :
          Reaches(r, l) /\ Pass(r, l)
    BY <1>1 DEF Descend
  <2> QED  BY <1>1, <2>1, PassTold DEF Descend
<1>2. CASE MethodOnly(r)
  <2>1. CASE input[r].method = "POST"
    BY <1>2, <2>1, PassTold DEF MethodOnly
  <2>2. CASE input[r].method # "POST"
    BY <1>2, <2>2, RefuseTold DEF MethodOnly
  <2> QED  BY <2>1, <2>2
<1>3. CASE TrustProxy(r)  BY <1>3, PassTold DEF TrustProxy
<1>4. CASE Ensure(r)
  <2> DEFINE status == EnsureStatus(input[r], Conf(r).kind)
  <2>1. status \in {0, 400, 401}  BY DEF EnsureStatus
  <2>2. Reaches(r, "Ensure") /\ UNCHANGED <<input, audit>>  BY <1>4 DEF Ensure
  <2>3. CASE status = 0
    BY <1>4, <2>2, <2>3, PassTold DEF Ensure
  <2>4. CASE status # 0
    <3>1. TurnBack(r, "Ensure") /\ Answer(r, RawError(resp[r], status))
      BY <1>4, <2>4 DEF Ensure
    <3> QED  BY <2>1, <2>2, <2>4, <3>1, RefuseTold
  <2> QED  BY <2>3, <2>4
<1>5. CASE SetHeaderAuthType(r)  BY <1>5, PassTold DEF SetHeaderAuthType
<1>6. CASE ThrottleRefuses(r)  BY <1>6, RefuseTold DEF ThrottleRefuses
<1>7. CASE TakeSlot(r)  BY <1>7, PassTold DEF TakeSlot
<1>8. CASE LeaveBacklog(r)  BY <1>8, RefuseTold DEF LeaveBacklog
<1>9. CASE EnterLogger(r)
  <2>1. CASE LogRequestBodies /\ Unreadable(input[r])
    BY <1>9, <2>1, RefuseTold DEF EnterLogger
  <2>2. CASE ~(LogRequestBodies /\ Unreadable(input[r]))
    BY <1>9, <2>2, PassTold DEF EnterLogger
  <2> QED  BY <2>1, <2>2
<1> QED  BY <1>1, <1>2, <1>3, <1>4, <1>5, <1>6, <1>7, <1>8, <1>9

LEMMA LimiterTold ==
    ASSUME TaleInv, NEW r \in Request,
           \/ RateBypass(r) \/ HookCalls(r) \/ HookStops(r) \/ RateAdmits(r)
           \/ PassRateLimit(r) \/ RateDenies(r) \/ RateCounterFails(r)
    PROVE  Told(r)'
<1>1. CASE RateBypass(r)  BY <1>1, PassTold DEF RateBypass
<1>2. CASE HookCalls(r)
  <2>1. PICK v : /\ Answer(r, v)
                 /\ \/ v \in HeaderChange(resp[r])
                    \/ \E status \in AppStatus : v = AppRawHeader(resp[r], status)
                    \/ v = AppRawWrite(resp[r])
    BY <1>2 DEF HookCalls
  <2>2. mode[r] = "down" /\ Reaches(r, "RateLimit")  BY <1>2 DEF HookCalls, AtHook, Reaches
  <2>3. at[r] \in 2..15  BY <2>2, Crosses DEF Between, Depth, TaleInv
  <2>4. resp[r] \in Response /\ Coherent(resp[r])
    BY <2>2, DownTale, RequestTypes DEF TaleInv, Tale, StatusTale
  <2>5. /\ Writes(resp[r], v, Gone, New) /\ v.by \in {resp[r].by, "app"}
        /\ v.body \subseteq resp[r].body \cup {"app"}
    BY <2>1, <2>4, HookWrites
  <2>6. UNCHANGED <<input, at, mode, audit>>  BY <1>2 DEF HookCalls
  <2>7. Answer(r, v)  BY <2>1
  <2>8. v.by \in {resp[r].by, "app"} \/ (at[r] >= 13 /\ v.by # "raw")  BY <2>5
  <2>9. mode[r] = "down"  BY <2>2
  <2> QED  BY <2>3, <2>5, <2>6, <2>7, <2>8, <2>9, WriteTold
<1>3. CASE HookStops(r)  BY <1>3, TurnTold DEF HookStops, AtHook
<1>4. CASE RateAdmits(r)
  <2>1. UNCHANGED <<input, at, mode, resp, audit>>  BY <1>4 DEF RateAdmits
  <2> QED  BY <2>1 DEF TaleInv, Told, Conf, RouteOf
<1>5. CASE PassRateLimit(r)  BY <1>5, PassTold DEF PassRateLimit
<1>6. CASE RateDenies(r)  BY <1>6, RefuseTold DEF RateDenies, AtLimiter
<1>7. CASE RateCounterFails(r)  BY <1>7, RefuseTold DEF RateCounterFails, AtLimiter
<1> QED  BY <1>1, <1>2, <1>3, <1>4, <1>5, <1>6, <1>7

\* The layers that set headers, and those inside the cleaner.
LEMMA InnerLayersTold ==
    ASSUME TaleInv, NEW r \in Request,
           \/ CORS(r) \/ SecureHeaders(r) \/ MaxBodySize(r) \/ AdminCheckCalls(r)
           \/ AdminCheck(r) \/ InjectorPanics(r)
    PROVE  Told(r)'
<1>1. CASE CORS(r)
  <2> DEFINE w == SetHeaders(resp[r], CorsHeaders(input[r].origin))
  <2>1. /\ mode[r] = "down" /\ resp[r] \in Response /\ at[r] \in 0..1
        /\ input[r].origin \in {"none", "allowed", "foreign"}
    BY <1>1, Crosses, RequestTypes DEF CORS, Reaches, TaleInv, InputType
  <2>2. /\ Tale(2, "down", w, << >>, Conf(r), input[r].origin)
        /\ Tale(2, "up", RawHeader(w, 204), << >>, Conf(r), input[r].origin)
    BY <2>1, DownTale, TaleCORS
  <2>3. \/ Moves(r, 2, "down", w, << >>)
        \/ Moves(r, 2, "up", RawHeader(w, 204), << >>)
    <3>1. CASE Pass(r, "CORS") /\ Answer(r, w)
      BY <1>1, <2>1, <3>1, DownTale DEF CORS, Pass, Answer, Moves, Depth, TaleInv, TypeOK
    <3>2. CASE TurnBack(r, "CORS") /\ Answer(r, RawHeader(w, 204))
      BY <1>1, <2>1, <3>2, DownTale DEF CORS, TurnBack, Answer, Moves, Depth, TaleInv, TypeOK
    <3> QED  BY <1>1, <3>1, <3>2 DEF CORS
  <2>4. UNCHANGED input  BY <1>1 DEF CORS
  <2> HIDE DEF w
  <2> QED  BY <2>2, <2>3, <2>4, ToldBy
<1>2. CASE SecureHeaders(r)
  <2> DEFINE w == SetHeaders(resp[r], {"Security"})
  <2>1. mode[r] = "down" /\ resp[r] \in Response /\ at[r] \in 2..10
    BY <1>2, Crosses, RequestTypes DEF SecureHeaders, Reaches, TaleInv
  <2>2. Tale(11, "down", w, << >>, Conf(r), input[r].origin)
    BY <2>1, DownTale, TaleSecured
  <2>3. Moves(r, 11, "down", w, << >>)
    BY <1>2, <2>1, DownTale DEF SecureHeaders, Pass, Answer, Moves, Depth, TaleInv, TypeOK
  <2>4. UNCHANGED input  BY <1>2 DEF SecureHeaders
  <2> HIDE DEF w
  <2> QED  BY <2>2, <2>3, <2>4, ToldBy
<1>3. CASE MaxBodySize(r)
  <2> DEFINE status == BodyStatus(input[r])
  <2>1. status \in Nat  BY DEF BodyStatus
  <2>2. Reaches(r, "MaxBodySize") /\ UNCHANGED <<input, audit>>
    BY <1>3 DEF MaxBodySize
  <2>3. CASE status = 0
    BY <1>3, <2>2, <2>3, PassTold DEF MaxBodySize
  <2>4. CASE status # 0
    <3>1. /\ TurnBack(r, "MaxBodySize")
          /\ Answer(r, CleanerAnswer(resp[r], status, "error"))
      BY <1>3, <2>4 DEF MaxBodySize
    <3>2. status \in Nat \ {0}  BY <2>1, <2>4
    <3> HIDE DEF status
    <3> QED  BY <2>2, <3>1, <3>2, LimitTold
  <2> QED  BY <2>3, <2>4
<1>4. CASE AdminCheckCalls(r)
  <2>1. PICK v \in Written(resp[r]) : Answer(r, v)  BY <1>4 DEF AdminCheckCalls
  <2>2. mode[r] = "down" /\ Reaches(r, "AdminCheck")
    BY <1>4 DEF AdminCheckCalls, Reaches
  <2>3. "MaxBodySize" \in LayersOf(r)  BY DEF LayersOf, Layers, InnerLayers
  <2>4. at[r] \in 2..15 /\ at[r] >= 13
    BY <2>2, <2>3, Crosses DEF Reaches, Depth, TaleInv
  <2>5. resp[r] \in Response /\ Coherent(resp[r]) /\ resp[r].by # "raw"
    BY <2>2, DownTale, RequestTypes DEF TaleInv, Tale, StatusTale
  <2>6. /\ Writes(resp[r], v, Gone, New) /\ v.by # "raw"
        /\ v.body \subseteq resp[r].body \cup {"app"}
    BY <2>1, <2>5, AppWrites
  <2>7. UNCHANGED <<input, at, mode, audit>>  BY <1>4 DEF AdminCheckCalls
  <2> QED  BY <2>1, <2>2, <2>4, <2>6, <2>7, WriteTold
<1>5. CASE AdminCheck(r)
  <2>1. Reaches(r, "AdminCheck") /\ UNCHANGED <<input, resp, audit>>
    BY <1>5 DEF AdminCheck
  <2>2. CASE Pass(r, "AdminCheck")  BY <2>1, <2>2, PassTold
  <2>3. CASE TurnBack(r, "AdminCheck") \/ Blow(r, "AdminCheck")
    BY <2>1, <2>3, TurnTold
  <2> QED  BY <1>5, <2>2, <2>3 DEF AdminCheck
<1>6. CASE InjectorPanics(r)  BY <1>6, BlowTold DEF InjectorPanics
<1> QED  BY <1>1, <1>2, <1>3, <1>4, <1>5, <1>6

LEMMA EnterTold ==
    ASSUME TaleInv, NEW r \in Request, Enter(r)
    PROVE  Told(r)'
<1>1. CASE JoinBacklog(r)
  <2>1. UNCHANGED <<input, at, mode, resp, audit>>  BY <1>1 DEF JoinBacklog
  <2> QED  BY <2>1 DEF TaleInv, Told, Conf, RouteOf
<1> QED  BY <1>1, OuterTold, LimiterTold, InnerLayersTold DEF Enter

LEMMA AppTold ==
    ASSUME TaleInv, NEW r \in Request, App(r)
    PROVE  Told(r)'
<1>1. /\ mode[r] = "down" /\ at[r] = 15 /\ resp[r] \in Response /\ audit[r] = << >>
      /\ UNCHANGED <<input, at, audit>>
  BY DownTale, RequestTypes
     DEF App, AppCalls, AppReturns, AppPanics, PreSign, InApp, Depth, TaleInv
<1>2. Tale(15, "down", resp[r], << >>, Conf(r), input[r].origin)
  BY <1>1, DownTale
<1>3. Between(15, 15)  BY DEF Between
<1>4. CASE AppCalls(r)
  <2>1. PICK v \in Written(resp[r]) : Answer(r, v)  BY <1>4 DEF AppCalls
  <2>2. Coherent(resp[r]) /\ resp[r].by # "raw"  BY <1>2 DEF Tale, StatusTale
  <2>3. /\ Writes(resp[r], v, Gone, New) /\ v.by # "raw"
        /\ v.body \subseteq resp[r].body \cup {"app"}
    BY <1>1, <2>1, <2>2, AppWrites
  <2>4. UNCHANGED <<input, at, mode, audit>> /\ at[r] \in 2..15 /\ at[r] >= 13
    BY <1>1, <1>4 DEF AppCalls
  <2> QED  BY <1>1, <2>1, <2>3, <2>4, WriteTold
<1>5. CASE AppReturns(r)
  <2>1. Tale(15, "up", resp[r], << >>, Conf(r), input[r].origin)
    BY <1>1, <1>2, <1>3, TaleTurns
  <2>2. Moves(r, 15, "up", resp[r], << >>)
    BY <1>1, <1>5 DEF AppReturns, Moves, TaleInv, TypeOK
  <2> QED  BY <1>1, <2>1, <2>2, ToldBy
<1>6. CASE AppPanics(r)
  <2>1. Tale(15, "panic", resp[r], << >>, Conf(r), input[r].origin)
    BY <1>1, <1>2, <1>3, TaleBlows
  <2>2. Moves(r, 15, "panic", resp[r], << >>)
    BY <1>1, <1>6 DEF AppPanics, Moves, TaleInv, TypeOK
  <2> QED  BY <1>1, <2>1, <2>2, ToldBy
<1>7. CASE PreSign(r)
  <2>1. PICK code \in {200, 400}, src \in Source :
          Answer(r, CleanerAnswer(resp[r], code, src))
    BY <1>7 DEF PreSign, Source
  <2> DEFINE v == CleanerAnswer(resp[r], code, src)
  <2>2. Writes(resp[r], v, RemovedHeader, {"Content-Type"}) /\ v.by # "raw"
    <3>1. Coherent(resp[r]) /\ resp[r].by # "raw"  BY <1>2 DEF Tale, StatusTale
    <3>2. code \in Nat \ {0}  OBVIOUS
    <3> QED  BY <1>1, <3>1, <3>2, CleanerAnswerCoherent
  <2>3. Moves(r, 15, "up", v, << >>)
    BY <1>1, <1>7, <2>1 DEF PreSign, Answer, Moves, TaleInv, TypeOK
  <2> HIDE DEF v
  <2>4. Writes(resp[r], v, Gone, New)
    <3>1. RemovedHeader \subseteq Gone /\ {"Content-Type"} \subseteq New  BY DEF Gone, New
    <3> QED  BY <2>2, <3>1, WritesLess
  <2>5. Tale(15, "up", v, << >>, Conf(r), input[r].origin)
    BY <1>1, <1>2, <1>3, <2>2, <2>4, TaleAnswered
  <2> QED  BY <1>1, <2>3, <2>5, ToldBy
<1> QED  BY <1>4, <1>5, <1>6, <1>7 DEF App

LEMMA ExitTold ==
    ASSUME TaleInv, NEW r \in Request, Exit(r)
    PROVE  Told(r)'
<1> DEFINE w == resp[r]
           log == audit[r]
<1>1. /\ at[r] \in 0..15 /\ w \in Response /\ log \in Seq(EntryType)
      /\ mode[r] \in {"up", "panic"} /\ UNCHANGED input
      /\ Tale(at[r], mode[r], w, log, Conf(r), input[r].origin)
  BY RequestTypes DEF Exit, LeaveLogger, LeaveTimeout, LeaveThrottle, Recover,
     Finish, Leaves, Unwinding, TaleInv, Told, TypeOK
<1>2. CASE LeaveLogger(r)
  <2>1. Entry(r) \in EntryType /\ Entry(r).status = w.rec /\ Entry(r).headers = w.hdr
    BY <1>1 DEF Entry, EntryType, Response
  <2>2. at[r] \in 11..15
    BY <1>1, <1>2 DEF LeaveLogger, Leaves, Depth
  <2>3. Tale(10, mode[r], w, Append(log, Entry(r)), Conf(r), input[r].origin)
    <3> HIDE DEF w, log
    <3> QED  BY <1>1, <2>1, <2>2, TaleLogged
  <2>4. Moves(r, 10, mode[r], w, Append(log, Entry(r)))
    BY <1>2 DEF LeaveLogger, Unwind, Moves, Depth, TaleInv, TypeOK
  <2> QED  BY <1>1, <2>3, <2>4, ToldBy
<1>3. CASE LeaveTimeout(r)
  <2>1. PICK v \in {w, RawHeader(w, 504)} : Answer(r, v)
    BY <1>3 DEF LeaveTimeout
  <2>2. 5 < at[r] /\ Moves(r, 5, mode[r], v, log)
    BY <1>3, <2>1 DEF LeaveTimeout, Leaves, Unwind, Answer, Moves, Depth, TaleInv, TypeOK
  <2>3. Tale(5, mode[r], v, log, Conf(r), input[r].origin)
    <3> HIDE DEF w, log
    <3> QED  BY <1>1, <2>1, <2>2, TaleUnwinds
  <2> QED  BY <1>1, <2>2, <2>3, ToldBy
<1>4. CASE LeaveThrottle(r)
  <2>1. 4 < at[r] /\ Moves(r, 4, mode[r], w, log)
    BY <1>4 DEF LeaveThrottle, Leaves, Unwind, Moves, Depth, TaleInv, TypeOK
  <2>2. Tale(4, mode[r], w, log, Conf(r), input[r].origin)
    <3> HIDE DEF w, log
    <3> QED  BY <1>1, <2>1, TaleUnwinds
  <2> QED  BY <1>1, <2>1, <2>2, ToldBy
<1>5. CASE Recover(r)
  <2> DEFINE v == IF Conf(r).wrapped /\ w.code # 0 THEN w ELSE RawError(w, 500)
  <2>1. mode[r] = "panic" /\ Moves(r, 3, "up", v, log)
    BY <1>5 DEF Recover, TurnBack, Answer, Moves, Depth, TaleInv, TypeOK
  <2>2. Tale(3, "up", v, log, Conf(r), input[r].origin)
    <3> HIDE DEF w, log
    <3> QED  BY <1>1, <2>1, TaleRecovers
  <2> HIDE DEF v
  <2> QED  BY <1>1, <2>1, <2>2, ToldBy
<1>6. CASE Finish(r)
  <2> DEFINE v == RawHeader(w, 200)
  <2>1. mode[r] = "up" /\ Moves(r, at[r], "done", v, log)
    BY <1>6 DEF Finish, Answer, Moves, TaleInv, TypeOK
  <2>2. "Logger" \in Deferred(r)
    BY DEF Deferred, LayersOf, Layers, InnerLayers
  <2>3. at[r] \in 0..10  BY <1>1, <1>6, <2>2 DEF Finish, Unwound, Depth
  <2>4. Tale(at[r], "done", v, log, Conf(r), input[r].origin)
    <3> HIDE DEF w, log
    <3> QED  BY <1>1, <2>1, <2>3, TaleEnds
  <2> HIDE DEF v
  <2> QED  BY <1>1, <2>1, <2>4, ToldBy
<1> QED  BY <1>2, <1>3, <1>4, <1>5, <1>6 DEF Exit

\* A save goroutine changes neither status nor headers of an entry.
LEMMA SaveTold ==
    ASSUME TaleInv, NEW q \in Request, Save(q), NEW r \in Request
    PROVE  Told(r)'
<1>1. PICK n \in DOMAIN audit[q], outcome \in {"saved", "lost"} :
        audit' = [audit EXCEPT ![q][n].state = outcome]
  BY DEF Save
<1>2. UNCHANGED <<input, at, mode, resp>>  BY DEF Save
<1>3. audit[r] \in Seq(EntryType) /\ audit[q] \in Seq(EntryType)
  BY DEF TaleInv, TypeOK
<1>4. Tale(at[r], mode[r], resp[r], audit[r], Conf(r), input[r].origin)
  BY DEF TaleInv, Told
<1>5. CASE q # r
  <2>1. Moves(r, at[r], mode[r], resp[r], audit[r])
    BY <1>1, <1>2, <1>5 DEF Moves, TaleInv, TypeOK
  <2> QED  BY <1>2, <1>4, <2>1, ToldBy
<1>6. CASE q = r
  <2> DEFINE log == [audit[r] EXCEPT ![n].state = outcome]
  <2>1. Moves(r, at[r], mode[r], resp[r], log)
    BY <1>1, <1>2, <1>6 DEF Moves, TaleInv, TypeOK
  <2>2. DOMAIN log = DOMAIN audit[r]  OBVIOUS
  <2>3. ASSUME NEW k \in DOMAIN log
        PROVE  log[k].headers = audit[r][k].headers /\ log[k].status = audit[r][k].status
    BY <1>3, <2>2, <2>3 DEF EntryType
  <2>4. audit[r] # << >>  BY <1>1, <1>3, <1>6
  <2> HIDE DEF log
  <2>5. Tale(at[r], mode[r], resp[r], log, Conf(r), input[r].origin)
    BY <1>4, <2>2, <2>3, <2>4 DEF Tale, HeaderTale, Recounts
  <2> QED  BY <1>2, <2>1, <2>5, ToldBy
<1> QED  BY <1>5, <1>6

LEMMA TaleInit == Init => TaleInv
<1> SUFFICES ASSUME Init, NEW r \in Request PROVE Told(r)
  BY InitType DEF TaleInv
<1>1. at[r] = 0 /\ mode[r] = "down" /\ resp[r] = NewResponse /\ audit[r] = << >>
  BY DEF Init
<1>2. Coherent(NewResponse)  BY DEF Coherent, NewResponse
<1> QED  BY <1>1, <1>2 DEF Told, Tale, StatusTale, HeaderTale, Carries, NewResponse

LEMMA TaleStep == TaleInv /\ [Next]_vars => TaleInv'
<1> SUFFICES ASSUME TaleInv, [Next]_vars, NEW r \in Request PROVE Told(r)'
  BY NextType DEF TaleInv
<1>1. ASSUME NEW q \in Request, Handle(q) PROVE Told(r)'
  <2>1. CASE q = r
    BY <1>1, <2>1, EnterTold, AppTold, ExitTold DEF Handle
  <2>2. CASE q # r
    <3>1. Moves(r, at[r], mode[r], resp[r], audit[r]) /\ UNCHANGED input
      <4>1. Step(q)  BY <1>1, HandleShape DEF TaleInv
      <4>2. at'[r] = at[r] /\ mode'[r] = mode[r]
        BY <2>2, <4>1 DEF Step, MoveStep, TaleInv, TypeOK
      <4>3. resp'[r] = resp[r]
        BY <2>2, <4>1 DEF Step, RespStep, Answer, TaleInv, TypeOK
      <4>4. audit'[r] = audit[r]
        BY <2>2, <4>1 DEF Step, AuditStep, TaleInv, TypeOK
      <4> QED  BY <4>1, <4>2, <4>3, <4>4 DEF Step, Moves
    <3> QED  BY <3>1, ToldBy DEF TaleInv, Told
  <2> QED  BY <2>1, <2>2
<1>2. CASE UNCHANGED <<input, at, mode, resp, audit>>
  BY <1>2 DEF TaleInv, Told, Conf, RouteOf
<1>3. ASSUME ~ \E q \in Request : Handle(q) \/ Save(q)
      PROVE  UNCHANGED <<input, at, mode, resp, audit>>
  BY <1>3 DEF Next, Tick, Settled, vars
<1> QED  BY <1>1, <1>2, <1>3, SaveTold

\* In every state each request's response and entry are what the tale of its
\* place says: the inductive invariant of the theorems below.
THEOREM TalesTold == Spec => []TaleInv
BY TaleInit, TaleStep, PTL DEF Spec
-----------------------------------------------------------------------------
\* An audit entry that has a status has the one the client got, unless a hook
\* had answered.
THEOREM EntriesTruthful == Spec => []AuditTruthful
<1>1. TaleInv => AuditTruthful
  BY DEF TaleInv, Told, Tale, Recounts, HookSpoke, AuditTruthful
<1> QED  BY <1>1, TalesTold, PTL

\* The headers that the client got are in the entry: all of them if the handler
\* wrote nothing, but for the Content-Type of the error after a panic; and if
\* it wrote, all but those it or RemoveHeaders took off the map after that.
THEOREM EntriesComplete == Spec => []HeadersAudited
<1>1. TaleInv => HeadersAudited
  BY DEF TaleInv, Told, Tale, Recounts, HookSpoke, Recovered, Depth, HeadersAudited
<1> QED  BY <1>1, TalesTold, PTL

\* On the wire are the headers that are in the map, if nobody may change them.
LEMMA AnswerCarries ==
    ASSUME TaleInv, NEW r \in Request, Answered(r)
    PROVE  /\ "Allow-Origin" \notin AppHeader =>
                 ("Allow-Origin" \in resp[r].sent <=> "Allow-Origin" \in resp[r].hdr)
           /\ "Security" \notin AppHeader /\ ~HookSpoke(r) =>
                 ("Security" \in resp[r].sent <=> "Security" \in resp[r].hdr)
<1>1. resp[r].code # 0
  BY DEF TaleInv, Told, Tale, StatusTale, Coherent, Answered
<1> QED  BY <1>1 DEF TaleInv, Told, Tale, HeaderTale, Carries, HookSpoke

\* Every answer, errors and a hook's included, carries the CORS permission
\* exactly when the origin is allowed; but for the presign endpoint's 405,
\* which is outside CORS.
THEOREM CorsAnswers == Spec => []CorsOnEveryAnswer
<1>1. TaleInv => CorsOnEveryAnswer
  <2> SUFFICES ASSUME TaleInv, NEW r \in Request, Answered(r),
                      "Allow-Origin" \notin AppHeader
               PROVE  "Allow-Origin" \in resp[r].sent
                        <=> input[r].origin = "allowed" /\ at[r] # Depth.MethodOnly
    BY DEF CorsOnEveryAnswer
  <2>1. "Allow-Origin" \in resp[r].hdr <=> at[r] >= 2 /\ input[r].origin = "allowed"
    BY DEF TaleInv, Told, Tale, HeaderTale
  <2>2. at[r] >= 1 /\ at[r] \in 0..15
    BY RequestTypes DEF TaleInv, Told, Tale, StatusTale, Answered
  <2> QED  BY <2>1, <2>2, AnswerCarries DEF Depth
<1> QED  BY <1>1, TalesTold, PTL

\* Every audited answer carries the security headers, unless it was a hook's.
THEOREM LoggedSecured == Spec => []SecuredIfLogged
<1>1. TaleInv => SecuredIfLogged
  <2> SUFFICES ASSUME TaleInv, NEW r \in Request, Answered(r), Logged(r),
                      ~HookSpoke(r), "Security" \notin AppHeader
               PROVE  "Security" \in resp[r].sent
    BY DEF SecuredIfLogged
  <2>1. "Security" \in resp[r].hdr
    BY DEF TaleInv, Told, Tale, HeaderTale, Logged
  <2> QED  BY <2>1, AnswerCarries
<1> QED  BY <1>1, TalesTold, PTL

\* A header to be removed gets out with no status stated through the cleaner,
\* whatever status that is, except after a 1xx.
THEOREM StatedStripped == Spec => []StrippedWhenStated
<1>1. TaleInv => StrippedWhenStated
  BY DEF TaleInv, Told, Tale, StatusTale, Coherent, StrippedWhenStated
<1> QED  BY <1>1, TalesTold, PTL

\* After a panic the client gets what was committed before, by the handler,
\* adminCheck or a hook, or else 500 or 504; on a wrapped route a started
\* response gets no error body.
THEOREM PanicsContained == Spec => []PanicContained
<1>1. TaleInv => PanicContained
  <2> SUFFICES ASSUME TaleInv, NEW r \in Request, Answered(r), Recovered(r)
               PROVE  /\ resp[r].by = "raw" => resp[r].code \in {500, 504}
                      /\ resp[r].by \in {"recorder", "cleaner"} =>
                            resp[r].code = resp[r].rec
                      /\ Conf(r).wrapped => resp[r].body # {"app", "error"}
    BY DEF PanicContained
  <2>1. at[r] = 3 /\ mode[r] = "done"  BY DEF Recovered, Answered, Depth
  <2>2. StatusTale(3, "done", resp[r], Conf(r))
    BY <2>1 DEF TaleInv, Told, Tale
  <2> QED  BY <2>2 DEF StatusTale, Coherent
<1> QED  BY <1>1, TalesTold, PTL
=============================================================================

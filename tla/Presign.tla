------------------------------ MODULE Presign ------------------------------
(***************************************************************************)
(* Presigned requests: PreSignHandler signs a description of a request for *)
(* a client that has no key, and the gates of the public chains            *)
(* (EnsurePublic and its siblings) let in the request that fits it         *)
(* (src/middleware.go).  Neither side stores anything: what binds a request*)
(* to its description is the signature, and what ends its life is its      *)
(* timestamp.  Requests are delayed, repeated and changed on their way.    *)
(*                                                                         *)
(*   secs    Config.SignatureTimestampExpired, fixed                       *)
(*   now     true time, in ticks; every reading of a node's clock is off by*)
(*           up to Drift, either way                                       *)
(*   issued  the signatures given out, and when (history)                  *)
(*   last    the request that a gate let in last, and when (history)       *)
(***************************************************************************)
EXTENDS Integers, FiniteSets

CONSTANTS Spelling, Method,        \* how clients spell methods, and strings.ToUpper
          Upper,                   \*   of that
          URI, Content,            \* request URIs; bodies, of which "" is empty
          Identity,                \* the signed headers but the timestamp
          Stamp,                   \* NVX-Timestamp, converted to ticks
          Skews,                   \* the values of SignatureTimestampExpired
          Second, MaxInt,          \* ticks in a second; the largest Duration
          Start, MaxClock,         \* the time the model covers
          Drift,                   \* the largest error of a clock
          MaxIssued,               \* bound on the signatures given out
          None                     \* no request yet

ASSUME PresignAssumption ==
    /\ Upper \in [Spelling -> Method]
    /\ Stamp \subseteq Int
    /\ Skews \subseteq Nat /\ Second \in Nat \ {0} /\ MaxInt \in Nat
    /\ Start \in Nat /\ MaxClock \in Nat /\ Start <= MaxClock
    /\ Drift \in Nat /\ MaxIssued \in Nat

VARIABLES secs, now, issued, last

vars == <<secs, now, issued, last>>

Type == {"json", "multipart", "other"}

Hash(content) == <<"sha256", content>>

BodyToken == {<<"UNSIGNED">>, <<"EMPTY">>} \cup {Hash(content) : content \in Content}

\* of the body as ReadAndRestoreBody returns it, which leaves uploads unread
ResolveBodyToken(type, content) ==
    IF type = "multipart" THEN <<"UNSIGNED">>
    ELSE IF content = "" THEN <<"EMPTY">> ELSE Hash(content)

\* What PreSignHandler is told: PresignRequest and the headers it comes with
Description ==
    [method : Spelling, uri : URI, body : BodyToken, id : Identity, ts : Stamp]

\* What a gate is given, the signature apart
Incoming ==
    [method : Spelling, uri : URI, type : Type, content : Content,
     id : Identity, ts : Stamp]

\* HMAC over a canonical list, injective for our purposes: the signature is the list
Signature == Method \X URI \X Identity \X Stamp \X BodyToken

BadDescribed(d) == <<d.method, d.uri, d.id, d.ts, d.body>>
Described(d) == <<Upper[d.method], d.uri, d.id, d.ts, d.body>>

Canonical(i) ==
    <<Upper[i.method], i.uri, i.id, i.ts, ResolveBodyToken(i.type, i.content)>>
-----------------------------------------------------------------------------
\* two's complement
Wrap(n) == ((n + MaxInt + 1) % (2 * (MaxInt + 1))) - (MaxInt + 1)

\* checkTimestamp, when the clock reads t; both products are Durations
BadFresh(ts, t) ==
    LET skew == Wrap(secs * Second) IN ~(ts < t + Wrap(-skew))
BadFreshAtEnd(ts, t) ==
    LET skew == Wrap(secs * Second)
    IN  ~(ts <= t + Wrap(-skew)) /\ ~(ts > t + skew)
Fresh(ts, t) ==
    LET skew == Wrap(secs * Second)
    IN  ~(ts < t + Wrap(-skew)) /\ ~(ts > t + skew)

Reading == {now + off : off \in (-Drift)..Drift}

Init ==
    /\ secs \in Skews
    /\ now = Start
    /\ issued = {}
    /\ last = None

Tick ==
    /\ now < MaxClock
    /\ now' = now + 1
    /\ UNCHANGED <<secs, issued, last>>

PreSign(d) ==
    /\ Cardinality(issued) < MaxIssued
    /\ \E t \in Reading : Fresh(d.ts, t)
    /\ issued' = issued \cup {[sig |-> Described(d), at |-> now]}
    /\ UNCHANGED <<secs, now, last>>

\* A gate: the signature that comes with the request is one that was given out
Enter(i) ==
    /\ \E t \in Reading : Fresh(i.ts, t)
    /\ \E s \in issued : s.sig = Canonical(i)
    /\ last' = [req |-> i, at |-> now]
    /\ UNCHANGED <<secs, now, issued>>

\* the model ends where its clock does
Ended == now = MaxClock /\ UNCHANGED vars

Next ==
    \/ Tick \/ Ended
    \/ \E d \in Description : PreSign(d)
    \/ \E i \in Incoming : Enter(i)

Spec == Init /\ [][Next]_vars
-----------------------------------------------------------------------------
\* Every variable has its type.
TypeOK ==
    /\ secs \in Skews
    /\ now \in Start..MaxClock
    /\ issued \subseteq [sig : Signature, at : Start..MaxClock]
    /\ last \in [req : Incoming, at : Start..MaxClock] \cup {None}

Window == secs * Second

\* A signature is of no use for longer than twice the configured skew, and what
\* the clocks are off, from the moment it was given out, however often and
\* wherever it is presented, and even where the skew overflows a Duration: then
\* the window may shrink to nothing but never widens (checkTimestamp, at the
\* presign endpoint and again at the gate).
Lifetime ==
    last # None =>
        \A s \in issued :
            s.sig = Canonical(last.req) => last.at - s.at <= 2 * (Window + Drift)

\* A signature stays of use for the configured skew, less twice what the clocks
\* are off, from the moment it was given out: no gate finds its timestamp stale,
\* nor from the future, if the client's clock was no worse than the nodes' and
\* the skew fits a Duration (checkTimestamp; both ends of the window belong to
\* it).
StaysUsable ==
    Window <= MaxInt =>
        \A s \in issued :
            (/\ s.sig[4] \in (s.at - Drift)..(s.at + Drift)
             /\ now - s.at + 2 * Drift <= Window)
                => \A t \in Reading : Fresh(s.sig[4], t)
=============================================================================

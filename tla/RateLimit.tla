------------------------------ MODULE RateLimit ------------------------------
(***************************************************************************)
(* The rate limiter RateLimit(cfg, secret) of src/chi.go puts in a chain:  *)
(* the key a request is counted under, and httprate's sliding window       *)
(* (external, modelled as src/chi.go uses it).                             *)
(* A bucket is not stored: it is the set of requests charged to its key.   *)
(* A charge belongs to the current window, to the previous one, or to one  *)
(* that no longer counts.                                                  *)
(***************************************************************************)
EXTENDS Requests

CONSTANT Quota             \* Quota[rt] : ConfigLimiter.RateLimitRequests

ASSUME RateLimitAssumption == Quota \in [Route -> Nat]

VARIABLES key,             \* key[r]    : the NVX rate-key header, NoKey until injected
          charge           \* charge[r] : the window r is charged to

limitVars == <<key, charge>>

NoKey == [endpoint |-> "none", zone |-> "none", id |-> "none",
          agent |-> "none", app |-> "none"]

Window == {"none", "curr", "prev", "old"}

Bucket(k, w) == {q \in Request : key[q] = k /\ charge[q] = w}
-----------------------------------------------------------------------------
RateLimitInit ==
    /\ key = [r \in Request |-> NoKey]
    /\ charge = [r \in Request |-> "none"]

(***************************************************************************)
(* rateKeyInjector: the authentication type that the chain stamped on the  *)
(* request chooses the zone and the identity.  An unknown type is keyed    *)
(* like "public".  sent is what the client wrote into the headers that are *)
(* parts of the key.  The HMAC over the parts is injective for our         *)
(* purposes.                                                               *)
(***************************************************************************)
ByAddress(rt, ip, sent) ==
    [endpoint |-> rt, zone |-> "public", id |-> ip,
     agent |-> sent.agent, app |-> sent.app]

ByToken(authType, rt, sent) ==
    [endpoint |-> rt, zone |-> authType, id |-> sent.token,
     agent |-> "none", app |-> sent.app]

BadRateKey(authType, rt, ip, sent) ==
    IF authType = "public-api-key" THEN ByToken(authType, rt, sent)
    ELSE ByAddress(rt, ip, sent)
RateKey(authType, rt, ip, sent) ==
    IF authType \in {"public-api-key", "public-auth"}
    THEN ByToken(authType, rt, sent) ELSE ByAddress(rt, ip, sent)

(***************************************************************************)
(* httprate admits when round(prev * fraction) + curr + 1 <= limit, where  *)
(* the fraction of the previous window still in view falls from 1 to 0     *)
(* with the clock: any share of the previous window may count.             *)
(***************************************************************************)
Admit(rt, r, k) ==
    /\ Cardinality(Bucket(k, "curr")) < Quota[rt]
    /\ key' = [key EXCEPT ![r] = k]
    /\ charge' = [charge EXCEPT ![r] = "curr"]

Deny(rt, r, k) ==
    /\ Cardinality(Bucket(k, "curr")) + Cardinality(Bucket(k, "prev")) >= Quota[rt]
    /\ key' = [key EXCEPT ![r] = k]
    /\ UNCHANGED charge

\* the backend of ConfigLimiter.Counter fails: 428, nothing is charged
CounterFails(r, k) ==
    /\ key' = [key EXCEPT ![r] = k]
    /\ UNCHANGED charge

\* the clock enters the next window of route rt
WindowTick(rt) ==
    /\ \E q \in Request : key[q].endpoint = rt /\ charge[q] \in {"curr", "prev"}
    /\ charge' = [q \in Request |->
                    IF key[q].endpoint # rt THEN charge[q]
                    ELSE IF charge[q] = "curr" THEN "prev"
                    ELSE IF charge[q] = "prev" THEN "old"
                    ELSE charge[q]]
    /\ UNCHANGED key
=============================================================================

------------------------------ MODULE Throttle ------------------------------
(***************************************************************************)
(* The concurrency throttle ChiThrottleBacklog(limit, backlog, timeout)    *)
(* (src/chi.go) installs.  chi itself is outside the repository; its       *)
(* ThrottleBacklog is modelled as the chain depends on it.  Every          *)
(* application of a chain builds a throttler of its own, so there is one   *)
(* per route: a channel of Limit tokens and one of Limit + Backlog backlog *)
(* tokens.  A request takes a backlog token or is refused at once, then    *)
(* waits for a token until its timer fires or its context is cancelled;    *)
(* both tokens go back when the handler below returns or panics.           *)
(***************************************************************************)
EXTENDS Requests

CONSTANTS Limit,          \* Limit[rt]   : ChainConfig.ThrottleLimit
          Backlog         \* Backlog[rt] : ChainConfig.ThrottleBacklog

ASSUME ThrottleAssumption ==
    /\ Limit \in [Route -> Nat \ {0}]      \* chi panics on a limit below 1
    /\ Backlog \in [Route -> Nat]          \* ... and on a negative backlog

VARIABLES running,        \* running[rt] : requests that hold a token
          waiting         \* waiting[rt] : requests that hold only a backlog token

throttleVars == <<running, waiting>>

Held(rt) == running[rt] \cup waiting[rt]

Full(rt) == Cardinality(Held(rt)) >= Limit[rt] + Backlog[rt]
-----------------------------------------------------------------------------
ThrottleInit ==
    /\ running = [rt \in Route |-> {}]
    /\ waiting = [rt \in Route |-> {}]

Enqueue(rt, r) ==
    /\ r \notin Held(rt)
    /\ ~Full(rt)
    /\ waiting' = [waiting EXCEPT ![rt] = @ \cup {r}]
    /\ UNCHANGED running

\* 429 at once: no backlog token is left
Refuse(rt, r) == r \notin Held(rt) /\ Full(rt) /\ UNCHANGED throttleVars

Start(rt, r) ==
    /\ r \in waiting[rt]
    /\ Cardinality(running[rt]) < Limit[rt]
    /\ running' = [running EXCEPT ![rt] = @ \cup {r}]
    /\ waiting' = [waiting EXCEPT ![rt] = @ \ {r}]

\* the backlog timer fires, or the client goes away, while waiting
GiveUp(rt, r) ==
    /\ r \in waiting[rt]
    /\ waiting' = [waiting EXCEPT ![rt] = @ \ {r}]
    /\ UNCHANGED running

Release(rt, r) ==
    /\ r \in running[rt]
    /\ running' = [running EXCEPT ![rt] = @ \ {r}]
    /\ UNCHANGED waiting
-----------------------------------------------------------------------------
ThrottleTypeOK ==
    /\ running \in [Route -> SUBSET Request]
    /\ waiting \in [Route -> SUBSET Request]
=============================================================================

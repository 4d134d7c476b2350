--------------------------- MODULE ThrottleProofs ---------------------------
(***************************************************************************)
(* Proofs about Throttle for every set of requests and every limit: the    *)
(* inductive invariant is the type and the bounds themselves.              *)
(***************************************************************************)
EXTENDS Throttle, FiniteSetTheorems, TLAPS

\* The token channels are never overdrawn; with the chain's own discipline
\* (Slots, ChainProofs) this bounds its handlers
Capacity ==
    \A rt \in Route : /\ Cardinality(running[rt]) <= Limit[rt]
                      /\ Cardinality(Held(rt)) <= Limit[rt] + Backlog[rt]

ThrottleInv == ThrottleTypeOK /\ Capacity

ThrottleNext ==
    \E rt \in Route, r \in Request :
        Enqueue(rt, r) \/ Start(rt, r) \/ GiveUp(rt, r) \/ Release(rt, r)

ThrottleSpec == ThrottleInit /\ [][ThrottleNext]_throttleVars
-----------------------------------------------------------------------------
\* Sets of requests are finite and have a natural number of members.
LEMMA RequestSets ==
    ASSUME NEW S \in SUBSET Request
    PROVE  IsFiniteSet(S) /\ Cardinality(S) \in Nat
BY RequestAssumption, FS_Subset, FS_CardinalityType

\* Adding a request to a set adds at most one to its size, and not even that
\* if it is a member already; removing one never adds.
LEMMA OneMore ==
    ASSUME NEW S \in SUBSET Request, NEW r \in Request
    PROVE  /\ Cardinality(S \cup {r}) <= Cardinality(S) + 1
           /\ r \in S => Cardinality(S \cup {r}) = Cardinality(S)
           /\ Cardinality(S \ {r}) <= Cardinality(S)
<1>1. IsFiniteSet(S) /\ Cardinality(S) \in Nat  BY RequestSets
<1>2. Cardinality(S \cup {r}) = IF r \in S THEN Cardinality(S) ELSE Cardinality(S) + 1
  BY <1>1, FS_AddElement
<1>3. Cardinality(S \ {r}) = IF r \in S THEN Cardinality(S) - 1 ELSE Cardinality(S)
  BY <1>1, FS_RemoveElement
<1> QED  BY <1>1, <1>2, <1>3

\* A subset is no larger.
LEMMA NoLarger ==
    ASSUME NEW S \in SUBSET Request, NEW T \in SUBSET S
    PROVE  Cardinality(T) <= Cardinality(S)
BY RequestSets, FS_Subset

\* Each of the throttler's steps keeps the type on its own.
LEMMA ThrottleType ==
    ASSUME ThrottleTypeOK, NEW rt \in Route, NEW r \in Request,
           \/ Enqueue(rt, r) \/ Start(rt, r) \/ GiveUp(rt, r) \/ Release(rt, r)
           \/ UNCHANGED throttleVars
    PROVE  ThrottleTypeOK'
BY DEF ThrottleTypeOK, Enqueue, Start, GiveUp, Release, throttleVars

LEMMA ThrottleInitInv == ThrottleInit => ThrottleInv
<1> SUFFICES ASSUME ThrottleInit PROVE ThrottleInv  OBVIOUS
<1>1. ThrottleTypeOK  BY DEF ThrottleInit, ThrottleTypeOK
<1>2. Capacity
  <2> SUFFICES ASSUME NEW rt \in Route
      PROVE  /\ Cardinality(running[rt]) <= Limit[rt]
             /\ Cardinality(Held(rt)) <= Limit[rt] + Backlog[rt]
    BY DEF Capacity
  <2>1. running[rt] = {} /\ Held(rt) = {}  BY DEF ThrottleInit, Held
  <2> QED  BY <2>1, FS_EmptySet, ThrottleAssumption
<1> QED  BY <1>1, <1>2 DEF ThrottleInv
-----------------------------------------------------------------------------
\* Joining the backlog needs a backlog token, so it keeps the second bound.
LEMMA EnqueueInv ==
    ASSUME ThrottleInv, NEW rt \in Route, NEW r \in Request, Enqueue(rt, r)
    PROVE  ThrottleInv'
<1> USE DEF ThrottleInv
<1>1. ThrottleTypeOK'
  BY DEF ThrottleTypeOK, Enqueue, Held
<1>2. ASSUME NEW q \in Route
      PROVE  /\ Cardinality(running'[q]) <= Limit[q]
             /\ Cardinality(Held(q)') <= Limit[q] + Backlog[q]
  <2>1. CASE q = rt
    <3>1. running'[q] = running[q] /\ Held(q)' = Held(q) \cup {r}
      BY <2>1 DEF Enqueue, Held, ThrottleTypeOK
    <3>2. Held(q) \in SUBSET Request  BY DEF Held, ThrottleTypeOK
    <3>3. Cardinality(Held(q) \cup {r}) <= Cardinality(Held(q)) + 1
      BY <3>2, OneMore
    <3>4. Cardinality(Held(q)) \in Nat /\ Cardinality(Held(q) \cup {r}) \in Nat
      BY <3>2, RequestSets
    <3>5. Cardinality(Held(q)) < Limit[q] + Backlog[q]
      BY <2>1, <3>4, ThrottleAssumption DEF Enqueue, Full
    <3> QED  BY <3>1, <3>3, <3>4, <3>5, ThrottleAssumption DEF Capacity
  <2>2. CASE q # rt
    <3>1. running'[q] = running[q] /\ Held(q)' = Held(q)
      BY <2>2 DEF Enqueue, Held, ThrottleTypeOK
    <3> QED  BY <3>1 DEF Capacity
  <2> QED  BY <2>1, <2>2
<1>3. Capacity'  BY <1>2 DEF Capacity, Held
<1> QED  BY <1>1, <1>3

\* Taking a token moves a request, so only the first bound needs the guard.
LEMMA StartInv ==
    ASSUME ThrottleInv, NEW rt \in Route, NEW r \in Request, Start(rt, r)
    PROVE  ThrottleInv'
<1> USE DEF ThrottleInv
<1>1. ThrottleTypeOK'
  BY DEF ThrottleTypeOK, Start
<1>2. ASSUME NEW q \in Route
      PROVE  /\ Cardinality(running'[q]) <= Limit[q]
             /\ Cardinality(Held(q)') <= Limit[q] + Backlog[q]
  <2>1. CASE q = rt
    <3>1. running'[q] = running[q] \cup {r} /\ Held(q)' = Held(q)
      BY <2>1 DEF Start, Held, ThrottleTypeOK
    <3>2. running[q] \in SUBSET Request  BY DEF ThrottleTypeOK
    <3>3. Cardinality(running[q] \cup {r}) <= Cardinality(running[q]) + 1
      BY <3>2, OneMore
    <3>4. Cardinality(running[q]) \in Nat /\ Cardinality(running[q] \cup {r}) \in Nat
      BY <3>2, RequestSets
    <3>5. Cardinality(running[q]) < Limit[q]  BY <2>1 DEF Start
    <3>6. Cardinality(running'[q]) <= Limit[q]
      BY <3>1, <3>3, <3>4, <3>5, ThrottleAssumption
    <3>7. Cardinality(Held(q)') <= Limit[q] + Backlog[q]
      BY <3>1 DEF Capacity
    <3> QED  BY <3>6, <3>7
  <2>2. CASE q # rt
    <3>1. running'[q] = running[q] /\ Held(q)' = Held(q)
      BY <2>2 DEF Start, Held, ThrottleTypeOK
    <3> QED  BY <3>1 DEF Capacity
  <2> QED  BY <2>1, <2>2
<1>3. Capacity'  BY <1>2 DEF Capacity, Held
<1> QED  BY <1>1, <1>3

\* Giving up and releasing only shrink the two sets.
LEMMA LeaveInv ==
    ASSUME ThrottleInv, NEW rt \in Route, NEW r \in Request,
           GiveUp(rt, r) \/ Release(rt, r)
    PROVE  ThrottleInv'
<1> USE DEF ThrottleInv
<1>1. ThrottleTypeOK'
  BY DEF ThrottleTypeOK, GiveUp, Release
<1>2. ASSUME NEW q \in Route
      PROVE  /\ Cardinality(running'[q]) <= Limit[q]
             /\ Cardinality(Held(q)') <= Limit[q] + Backlog[q]
  <2>1. running'[q] \in SUBSET running[q] /\ Held(q)' \in SUBSET Held(q)
    BY DEF GiveUp, Release, Held, ThrottleTypeOK
  <2>2. running[q] \in SUBSET Request /\ Held(q) \in SUBSET Request
    BY DEF Held, ThrottleTypeOK
  <2>3. /\ Cardinality(running'[q]) <= Cardinality(running[q])
        /\ Cardinality(Held(q)') <= Cardinality(Held(q))
    BY <2>1, <2>2, NoLarger
  <2>4. /\ Cardinality(running'[q]) \in Nat /\ Cardinality(running[q]) \in Nat
        /\ Cardinality(Held(q)') \in Nat /\ Cardinality(Held(q)) \in Nat
    BY <2>1, <2>2, RequestSets
  <2> QED  BY <2>3, <2>4, ThrottleAssumption DEF Capacity
<1>3. Capacity'  BY <1>2 DEF Capacity, Held
<1> QED  BY <1>1, <1>3

\* Every step of the throttler, and none, keeps the invariant.
LEMMA ThrottleStepInv ==
    ThrottleInv /\ [ThrottleNext]_throttleVars => ThrottleInv'
<1> SUFFICES ASSUME ThrottleInv, [ThrottleNext]_throttleVars PROVE ThrottleInv'
  OBVIOUS
<1>1. CASE ThrottleNext
  BY <1>1, EnqueueInv, StartInv, LeaveInv DEF ThrottleNext
<1>2. CASE UNCHANGED throttleVars
  BY <1>2 DEF ThrottleInv, ThrottleTypeOK, Capacity, Held, throttleVars
<1> QED  BY <1>1, <1>2
-----------------------------------------------------------------------------
\* What chi promises, for the chain to build on.
LEMMA ThrottleCapacity == ThrottleSpec => []Capacity
<1>1. ThrottleInv => Capacity  BY DEF ThrottleInv
<1> QED  BY ThrottleInitInv, ThrottleStepInv, <1>1, PTL DEF ThrottleSpec
=============================================================================

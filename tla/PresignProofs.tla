--------------------------- MODULE PresignProofs ---------------------------
(***************************************************************************)
(* Proofs about presigned requests for every width of a Duration, every    *)
(* configured skew, every error of the clocks and any number of signatures.*)
(* The arithmetic comes first: whatever the wrapping does, a timestamp     *)
(* that checkTimestamp lets through is within the configured skew.         *)
(***************************************************************************)
EXTENDS Presign, TLAPS

\* Wrapping never makes a natural number larger, and leaves it alone unless it
\* is more than the largest Duration.
LEMMA WrapNat ==
    ASSUME NEW n \in Nat
    PROVE  /\ Wrap(n) \in Int /\ Wrap(n) <= n
           /\ Wrap(n) >= -(MaxInt + 1)
           /\ n <= MaxInt => Wrap(n) = n
<1> DEFINE m == 2 * (MaxInt + 1)
           a == n + MaxInt + 1
<1>1. m \in Nat /\ m > 0 /\ a \in Nat  BY PresignAssumption
<1>2. a % m \in 0..(m - 1)  BY <1>1
<1>3. a % m <= a  BY <1>1
<1>4. a < m => a % m = a  BY <1>1
<1>5. Wrap(n) = (a % m) - (MaxInt + 1)  BY DEF Wrap
<1> HIDE DEF m
<1> QED  BY <1>1, <1>2, <1>3, <1>4, <1>5, PresignAssumption DEF m

\* A Duration negates to its negative, but for the smallest, which stays.
LEMMA WrapNegative ==
    ASSUME NEW d \in Int, -(MaxInt + 1) <= d, d <= MaxInt
    PROVE  /\ Wrap(-d) \in Int
           /\ Wrap(-d) = IF d = -(MaxInt + 1) THEN d ELSE -d
<1> DEFINE m == 2 * (MaxInt + 1)
           a == -d + MaxInt + 1
<1>1. m \in Nat /\ m > 0 /\ a \in 0..m  BY PresignAssumption
<1>2. a < m => a % m = a  BY <1>1
<1>3. m % m = 0  BY <1>1
<1>4. Wrap(-d) = (a % m) - (MaxInt + 1)  BY DEF Wrap
<1> QED  BY <1>1, <1>2, <1>3, <1>4, PresignAssumption

LEMMA WindowNat ==
    ASSUME TypeOK
    PROVE  Window \in Nat
BY PresignAssumption DEF TypeOK, Window

\* An accepted timestamp is no further from the clock than the configured skew.
LEMMA FreshWithin ==
    ASSUME TypeOK, NEW ts \in Int, NEW t \in Int, Fresh(ts, t)
    PROVE  ts <= t + Window /\ t <= ts + Window
<1> DEFINE skew == Wrap(Window)
<1>1. Window \in Nat  BY WindowNat
<1>2. ~(ts < t + Wrap(-skew)) /\ ~(ts > t + skew)  BY DEF Fresh, Window
<1>3. /\ skew \in Int /\ skew <= Window /\ skew >= -(MaxInt + 1)
      /\ Window <= MaxInt => skew = Window
  BY <1>1, WrapNat
<1>4. skew <= MaxInt
  <2>1. Wrap(Window) = ((Window + MaxInt + 1) % (2 * (MaxInt + 1))) - (MaxInt + 1)
    BY DEF Wrap
  <2> DEFINE k == Window + MaxInt + 1
             m == 2 * (MaxInt + 1)
  <2>2. k \in Nat /\ m \in Nat /\ m > 0  BY <1>1, PresignAssumption
  <2>3. k % m \in 0..(m - 1)  BY <2>2
  <2> QED  BY <2>1, <2>3, PresignAssumption
<1> HIDE DEF skew
<1>5. /\ Wrap(-skew) \in Int
      /\ Wrap(-skew) = IF skew = -(MaxInt + 1) THEN skew ELSE -skew
  BY <1>3, <1>4, WrapNegative
<1> QED  BY <1>1, <1>2, <1>3, <1>5, PresignAssumption
-----------------------------------------------------------------------------
\* What a signature remembers of when it was given out, and a request let in of
\* when it came: each is within the skew, and the clocks' error, of the timestamp.
Dated ==
    /\ \A s \in issued : s.at <= now /\ s.sig[4] <= s.at + Window + Drift
    /\ last # None => last.at <= last.req.ts + Window + Drift

PresignInv == TypeOK /\ Dated

LEMMA ReadingWithin ==
    ASSUME TypeOK, NEW t \in Reading
    PROVE  t \in Int /\ now - Drift <= t /\ t <= now + Drift
BY PresignAssumption DEF TypeOK, Reading

LEMMA TokenType ==
    ASSUME NEW type \in Type, NEW content \in Content
    PROVE  ResolveBodyToken(type, content) \in BodyToken
BY DEF ResolveBodyToken, BodyToken

LEMMA PresignInit == Init => PresignInv
BY PresignAssumption DEF Init, PresignInv, TypeOK, Dated

LEMMA PreSignStep ==
    ASSUME PresignInv, NEW d \in Description, PreSign(d)
    PROVE  PresignInv'
<1> DEFINE new == [sig |-> Described(d), at |-> now]
<1>1. /\ issued' = issued \cup {new}
      /\ secs' = secs /\ now' = now /\ last' = last
  BY DEF PreSign
<1>2. Window' = Window  BY <1>1 DEF Window
<1>3. Window \in Nat  BY WindowNat DEF PresignInv
<1>4. Described(d) \in Signature /\ Described(d)[4] = d.ts /\ d.ts \in Int
  BY PresignAssumption DEF Described, Description, Signature
<1>5. TypeOK'  BY <1>1, <1>4 DEF PresignInv, TypeOK
<1>6. new.sig[4] <= new.at + Window + Drift
  <2>1. PICK t \in Reading : Fresh(d.ts, t)  BY DEF PreSign
  <2>2. t \in Int /\ t <= now + Drift  BY <2>1, ReadingWithin DEF PresignInv
  <2>3. d.ts <= t + Window  BY <1>4, <2>1, <2>2, FreshWithin DEF PresignInv
  <2>4. now \in Int  BY PresignAssumption DEF PresignInv, TypeOK
  <2> QED  BY <1>3, <1>4, <2>2, <2>3, <2>4, PresignAssumption
<1>7. Dated'
  <2>1. now <= now  BY PresignAssumption DEF PresignInv, TypeOK
  <2> QED  BY <1>1, <1>2, <1>6, <2>1 DEF PresignInv, Dated
<1> QED  BY <1>5, <1>7 DEF PresignInv

LEMMA EnterStep ==
    ASSUME PresignInv, NEW i \in Incoming, Enter(i)
    PROVE  PresignInv'
<1>1. /\ last' = [req |-> i, at |-> now]
      /\ secs' = secs /\ now' = now /\ issued' = issued
  BY DEF Enter
<1>2. Window' = Window  BY <1>1 DEF Window
<1>3. Window \in Nat  BY WindowNat DEF PresignInv
<1>4. TypeOK'  BY <1>1 DEF PresignInv, TypeOK
<1>5. now <= i.ts + Window + Drift
  <2>1. PICK t \in Reading : Fresh(i.ts, t)  BY DEF Enter
  <2>2. t \in Int /\ now - Drift <= t  BY <2>1, ReadingWithin DEF PresignInv
  <2>3. i.ts \in Int  BY PresignAssumption DEF Incoming
  <2>4. t <= i.ts + Window  BY <2>1, <2>2, <2>3, FreshWithin DEF PresignInv
  <2>5. now \in Int  BY PresignAssumption DEF PresignInv, TypeOK
  <2> QED  BY <1>3, <2>2, <2>3, <2>4, <2>5, PresignAssumption
<1>6. Dated'  BY <1>1, <1>2, <1>5 DEF PresignInv, Dated
<1> QED  BY <1>4, <1>6 DEF PresignInv

LEMMA PresignStep == PresignInv /\ [Next]_vars => PresignInv'
<1> SUFFICES ASSUME PresignInv, [Next]_vars PROVE PresignInv'  OBVIOUS
<1>1. CASE Tick
  <2>1. now' \in Start..MaxClock
    BY <1>1, PresignAssumption DEF Tick, PresignInv, TypeOK
  <2> QED
    BY <1>1, <2>1 DEF Tick, PresignInv, TypeOK, Dated, Window
<1>2. CASE UNCHANGED vars
  BY <1>2 DEF vars, PresignInv, TypeOK, Dated, Window
<1>3. CASE \E d \in Description : PreSign(d)  BY <1>3, PreSignStep
<1>4. CASE \E i \in Incoming : Enter(i)  BY <1>4, EnterStep
<1> QED  BY <1>1, <1>2, <1>3, <1>4 DEF Next, Ended
-----------------------------------------------------------------------------
LEMMA LifetimeFollows == PresignInv => Lifetime
<1> SUFFICES ASSUME PresignInv, last # None,
                    NEW s \in issued, s.sig = Canonical(last.req)
             PROVE  last.at - s.at <= 2 * (Window + Drift)
  BY DEF Lifetime
<1>1. Window \in Nat  BY WindowNat DEF PresignInv
<1>2. s.at \in Int /\ last.at \in Int /\ last.req.ts \in Int
  <2>1. last \in [req : Incoming, at : Start..MaxClock]  BY DEF PresignInv, TypeOK
  <2>2. last.req \in Incoming /\ last.at \in Start..MaxClock  BY <2>1
  <2>3. last.req.ts \in Int  BY <2>2, PresignAssumption DEF Incoming
  <2>4. s.at \in Start..MaxClock  BY DEF PresignInv, TypeOK
  <2> QED  BY <2>2, <2>3, <2>4, PresignAssumption
<1>3. s.sig[4] = last.req.ts  BY DEF Canonical
<1>4. /\ s.sig[4] <= s.at + Window + Drift
      /\ last.at <= last.req.ts + Window + Drift
  BY DEF PresignInv, Dated
<1> QED  BY <1>1, <1>2, <1>3, <1>4, PresignAssumption

LEMMA StaysUsableFollows == PresignInv => StaysUsable
<1> SUFFICES ASSUME PresignInv, Window <= MaxInt, NEW s \in issued,
                    s.sig[4] \in (s.at - Drift)..(s.at + Drift),
                    now - s.at + 2 * Drift <= Window,
                    NEW t \in Reading
             PROVE  Fresh(s.sig[4], t)
  BY DEF StaysUsable
<1> DEFINE ts == s.sig[4]
<1>1. Window \in Nat /\ Drift \in Nat /\ MaxInt \in Nat
  BY WindowNat, PresignAssumption DEF PresignInv
<1>2. t \in Int /\ now - Drift <= t /\ t <= now + Drift
  BY ReadingWithin DEF PresignInv
<1>3. s.at \in Int /\ now \in Int /\ s.at <= now
  BY PresignAssumption DEF PresignInv, TypeOK, Dated
<1>4. ts \in Int /\ s.at - Drift <= ts /\ ts <= s.at + Drift
  BY <1>1, <1>3
<1>5. Wrap(Window) = Window  BY <1>1, WrapNat
<1>6. Wrap(-Window) = -Window  BY <1>1, WrapNegative
<1>7. ~(ts < t + (-Window)) /\ ~(ts > t + Window)
  <2> HIDE DEF ts
  <2> QED  BY <1>1, <1>2, <1>3, <1>4
<1> QED  BY <1>5, <1>6, <1>7 DEF Fresh, Window

\* Every variable keeps its type, for every choice of the constants.
THEOREM PresignTypes == Spec => []TypeOK
<1>1. PresignInv => TypeOK  BY DEF PresignInv
<1> QED  BY <1>1, PresignInit, PresignStep, PTL DEF Spec

\* A signature dies with its timestamp: no gate lets a request in on it later
\* than twice the configured skew after it was given out, up to the error of the
\* clocks, even where the skew is too large for a Duration.
THEOREM SignaturesExpire == Spec => []Lifetime
BY PresignInit, PresignStep, LifetimeFollows, PTL DEF Spec

\* A signature does not die before its timestamp either: within the configured
\* skew, less twice the error of the clocks, every gate finds it fresh.
THEOREM SignaturesLast == Spec => []StaysUsable
BY PresignInit, PresignStep, StaysUsableFollows, PTL DEF Spec
=============================================================================

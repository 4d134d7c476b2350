--------------------------- MODULE ProtocolProofs ---------------------------
(***************************************************************************)
(* The protocols beside plain HTTP, for every set of calls and whatever    *)
(* clients ask: what graphqlQueryDepth counts, for documents of any        *)
(* length; which calls reach a handler; what the client and the trail are  *)
(* told; and that all chains implement AuditTrail.                         *)
(***************************************************************************)
EXTENDS Protocols, ResponseWriterProofs, FiniteSetTheorems, WellFoundedInduction, TLAPS

(***************************************************************************)
(* Induction.  What is said of every n is a set, so that no operator has   *)
(* to be handed to a theorem.                                              *)
(***************************************************************************)
\* A nonempty set of naturals has a least member.
LEMMA LeastNat ==
    ASSUME NEW S \in SUBSET Nat, S # {}
    PROVE  \E n \in S : \A m \in S : n <= m
<1> DEFINE R == OpToRel(<, Nat)
<1>1. IsWellFoundedOn(R, Nat)  BY NatLessThanWellFounded
<1>2. \A m, n \in Nat : m < n => <<m, n>> \in R  BY DEF OpToRel
<1> HIDE DEF R
<1>3. PICK n \in S : \A m \in S : <<m, n>> \notin R  BY <1>1, WFMin
<1>4. ASSUME NEW m \in S PROVE n <= m
  <2>1. m \in Nat /\ n \in Nat /\ <<m, n>> \notin R  BY <1>3
  <2>2. ~(m < n)  BY <1>2, <2>1
  <2> QED  BY <2>1, <2>2
<1> QED  BY <1>4

\* What holds for 0, and for i + 1 if it holds for i, holds up to any bound.
LEMMA SetInduction ==
    ASSUME NEW n \in Nat, NEW S, 0 \in S, \A i \in 0..(n - 1) : i \in S => i + 1 \in S
    PROVE  0..n \subseteq S
<1> SUFFICES ASSUME ~(0..n \subseteq S) PROVE FALSE  OBVIOUS
<1> DEFINE T == (0..n) \ S
<1>1. T \in SUBSET Nat /\ T # {}  OBVIOUS
<1>2. PICK m \in T : \A k \in T : m <= k  BY <1>1, LeastNat
<1>3. m - 1 \in 0..(n - 1) /\ m - 1 \notin T  BY <1>2
<1> QED  BY <1>2, <1>3

\* A set of integers with a bound has a greatest member, and Greatest is it.
LEMMA GreatestIs ==
    ASSUME NEW S, S \subseteq Int, S # {}, NEW b \in Int, \A s \in S : s <= b
    PROVE  Greatest(S) \in S /\ \A s \in S : s <= Greatest(S)
<1> DEFINE T == {b - s : s \in S}
<1>1. T \in SUBSET Nat
  <2>1. \A s \in S : s \in Int /\ b - s \in Nat  OBVIOUS
  <2> QED  BY <2>1
<1>2. T # {}  OBVIOUS
<1>3. PICK t \in T : \A u \in T : t <= u  BY <1>1, <1>2, LeastNat
<1>4. PICK s \in S : t = b - s  BY <1>3
<1>5. \A u \in S : u <= s
  <2> TAKE u \in S
  <2>1. b - s <= b - u  BY <1>3, <1>4
  <2>2. u \in Int /\ s \in Int  OBVIOUS
  <2> QED  BY <2>1, <2>2
<1> QED  BY <1>5 DEF Greatest
-----------------------------------------------------------------------------
\* curDepth after the token at i, if it was d before.
NextDepth(q, d, i) ==
    IF q[i] \in Opening THEN d + 1
    ELSE IF q[i] \in Closing /\ d > 0 THEN d - 1
    ELSE d

\* f follows curDepth through the first n tokens of q.
CountsTo(q, f, n) == f = [i \in 0..n |-> IF i = 0 THEN 0 ELSE NextDepth(q, f[i - 1], i)]

\* The loop of the code defines a function.
LEMMA LoopDefines ==
    ASSUME NEW q \in Seq(STRING)
    PROVE  CountsTo(q, BraceDepth(q), Len(q))
<1> DEFINE S == {n \in 0..Len(q) : \E f : CountsTo(q, f, n)}
<1>1. Len(q) \in Nat  OBVIOUS
<1>2. 0 \in S
  <2>1. CountsTo(q, [i \in 0..0 |-> 0], 0)  BY DEF CountsTo
  <2> QED  BY <1>1, <2>1
<1>3. ASSUME NEW n \in 0..(Len(q) - 1), n \in S PROVE n + 1 \in S
  <2>1. PICK f : CountsTo(q, f, n)  BY <1>3
  <2> DEFINE g == [i \in 0..(n + 1) |->
                     IF i = n + 1 THEN NextDepth(q, f[n], n + 1) ELSE f[i]]
  <2>2. ASSUME NEW i \in 0..(n + 1)
        PROVE  g[i] = IF i = 0 THEN 0 ELSE NextDepth(q, g[i - 1], i)
    <3>1. CASE i = n + 1
      <4>1. i # 0 /\ i - 1 = n /\ n \in 0..(n + 1) /\ n # n + 1  BY <3>1
      <4>2. g[i - 1] = f[n]  BY <4>1
      <4>3. g[i] = NextDepth(q, f[n], i)  BY <3>1
      <4> QED  BY <4>1, <4>2, <4>3
    <3>2. CASE i # n + 1
      <4>1. i \in 0..n /\ g[i] = f[i]  BY <3>2
      <4>2. f[i] = IF i = 0 THEN 0 ELSE NextDepth(q, f[i - 1], i)
        BY <2>1, <4>1 DEF CountsTo
      <4>3. i # 0 => g[i - 1] = f[i - 1]  BY <4>1
      <4> QED  BY <4>1, <4>2, <4>3
    <3> QED  BY <3>1, <3>2
  <2>3. CountsTo(q, g, n + 1)
    <3>1. g = [i \in 0..(n + 1) |-> g[i]]  OBVIOUS
    <3> HIDE DEF g
    <3> QED  BY <2>2, <3>1 DEF CountsTo
  <2> QED  BY <1>1, <2>3
<1>4. Len(q) \in S
  <2> HIDE DEF S
  <2>1. 0..Len(q) \subseteq S  BY <1>1, <1>2, <1>3, SetInduction
  <2> QED  BY <1>1, <2>1
<1>5. \E f : CountsTo(q, f, Len(q))  BY <1>4
<1>6. BraceDepth(q) = CHOOSE f : CountsTo(q, f, Len(q))
  BY DEF BraceDepth, CountsTo, NextDepth
<1> QED  BY <1>5, <1>6

LEMMA BraceDepthStep ==
    ASSUME NEW q \in Seq(STRING)
    PROVE  /\ BraceDepth(q)[0] = 0
           /\ \A i \in 1..Len(q) :
                 BraceDepth(q)[i] = NextDepth(q, BraceDepth(q)[i - 1], i)
<1> DEFINE c == BraceDepth(q)
<1>1. c = [i \in 0..Len(q) |-> IF i = 0 THEN 0 ELSE NextDepth(q, c[i - 1], i)]
  BY LoopDefines DEF CountsTo
<1>2. Len(q) \in Nat  OBVIOUS
<1> HIDE DEF c
<1>3. c[0] = 0  BY <1>1, <1>2
<1>4. \A i \in 1..Len(q) : c[i] = NextDepth(q, c[i - 1], i)  BY <1>1, <1>2
<1> QED  BY <1>3, <1>4 DEF c

\* The counter never goes below zero, nor ahead of the tokens.
LEMMA BraceDepthType ==
    ASSUME NEW q \in Seq(STRING), NEW j \in 0..Len(q)
    PROVE  BraceDepth(q)[j] \in 0..j
<1> DEFINE c == BraceDepth(q)
           S == {n \in 0..Len(q) : c[n] \in 0..n}
<1>1. Len(q) \in Nat  OBVIOUS
<1>2. c[0] = 0 /\ \A i \in 1..Len(q) : c[i] = NextDepth(q, c[i - 1], i)
  BY BraceDepthStep
<1> HIDE DEF c
<1>3. 0 \in S  BY <1>1, <1>2
<1>4. ASSUME NEW n \in 0..(Len(q) - 1), n \in S PROVE n + 1 \in S
  <2>1. n + 1 \in 1..Len(q) /\ (n + 1) - 1 = n /\ c[n] \in 0..n  BY <1>1, <1>4
  <2>2. c[n + 1] = NextDepth(q, c[n], n + 1)  BY <1>2, <2>1
  <2>3. c[n + 1] \in 0..(n + 1)  BY <2>1, <2>2 DEF NextDepth
  <2> QED  BY <2>1, <2>3
<1>5. j \in S
  <2> HIDE DEF S
  <2> QED  BY <1>1, <1>3, <1>4, SetInduction
<1> QED  BY <1>5 DEF c
-----------------------------------------------------------------------------
\* The tokens b of q from the i-th to the n-th.
Among(q, b, i, n) == {k \in i..n : q[k] = b}

\* One token more, one of its kind more.
LEMMA AmongStep ==
    ASSUME NEW q \in Seq(STRING), NEW b, NEW i \in 1..Len(q), NEW n \in 0..(Len(q) - 1)
    PROVE  /\ Cardinality(Among(q, b, i, n)) \in Nat
           /\ n < i => Cardinality(Among(q, b, i, n)) = 0
           /\ i <= n + 1 =>
                Cardinality(Among(q, b, i, n + 1)) =
                  Cardinality(Among(q, b, i, n)) + (IF q[n + 1] = b THEN 1 ELSE 0)
<1>1. Len(q) \in Nat  OBVIOUS
<1>2. IsFiniteSet(Among(q, b, i, n)) /\ Cardinality(Among(q, b, i, n)) \in Nat
  <2>1. IsFiniteSet(i..n)  BY FS_Interval
  <2> QED  BY <2>1, FS_Subset, FS_CardinalityType DEF Among
<1>3. ASSUME n < i PROVE Cardinality(Among(q, b, i, n)) = 0
  <2>1. Among(q, b, i, n) = {}  BY <1>3 DEF Among
  <2> QED  BY <2>1, FS_EmptySet
<1>4. ASSUME i <= n + 1
      PROVE  Cardinality(Among(q, b, i, n + 1)) =
               Cardinality(Among(q, b, i, n)) + (IF q[n + 1] = b THEN 1 ELSE 0)
  <2>1. CASE q[n + 1] = b
    <3>1. /\ Among(q, b, i, n + 1) = Among(q, b, i, n) \cup {n + 1}
          /\ n + 1 \notin Among(q, b, i, n)
      BY <1>1, <1>4, <2>1 DEF Among
    <3> QED  BY <1>2, <2>1, <3>1, FS_AddElement
  <2>2. CASE q[n + 1] # b
    <3>1. Among(q, b, i, n + 1) = Among(q, b, i, n)  BY <1>1, <1>4, <2>2 DEF Among
    <3> QED  BY <1>2, <2>2, <3>1
  <2> QED  BY <2>1, <2>2
<1> QED  BY <1>2, <1>3, <1>4

\* The levels of a stretch that is one token longer.
LEMMA LevelsStep ==
    ASSUME NEW q \in Seq(STRING), NEW i \in 1..Len(q), NEW n \in 0..(Len(q) - 1)
    PROVE  /\ Levels(q, i, n) \in Int
           /\ n < i => Levels(q, i, n) = 0
           /\ i <= n + 1 =>
                Levels(q, i, n + 1) =
                  Levels(q, i, n) + (IF q[n + 1] = "open" THEN 1
                                     ELSE IF q[n + 1] = "close" THEN -1 ELSE 0)
<1>1. /\ Levels(q, i, n) =
           Cardinality(Among(q, "open", i, n)) - Cardinality(Among(q, "close", i, n))
      /\ Levels(q, i, n + 1) =
           Cardinality(Among(q, "open", i, n + 1)) - Cardinality(Among(q, "close", i, n + 1))
  BY DEF Levels, Among
<1>2. /\ Cardinality(Among(q, "open", i, n)) \in Nat
      /\ Cardinality(Among(q, "close", i, n)) \in Nat
  BY AmongStep
<1>3. ASSUME n < i PROVE Levels(q, i, n) = 0
  <2>1. Cardinality(Among(q, "open", i, n)) = 0 /\ Cardinality(Among(q, "close", i, n)) = 0
    BY <1>3, AmongStep
  <2> QED  BY <1>1, <2>1
<1>4. ASSUME i <= n + 1
      PROVE  Levels(q, i, n + 1) =
                Levels(q, i, n) + (IF q[n + 1] = "open" THEN 1
                                   ELSE IF q[n + 1] = "close" THEN -1 ELSE 0)
  <2>1. Cardinality(Among(q, "open", i, n + 1)) =
          Cardinality(Among(q, "open", i, n)) + (IF q[n + 1] = "open" THEN 1 ELSE 0)
    BY <1>4, AmongStep
  <2>2. Cardinality(Among(q, "close", i, n + 1)) =
          Cardinality(Among(q, "close", i, n)) + (IF q[n + 1] = "close" THEN 1 ELSE 0)
    BY <1>4, AmongStep
  <2> QED  BY <1>1, <1>2, <2>1, <2>2
<1> QED  BY <1>1, <1>2, <1>3, <1>4

\* No stretch that ends here opens more levels than the counter has, unless a
\* brace that is none has closed one.
LEMMA DepthBounds ==
    ASSUME NEW q \in Seq(STRING), ClosesTruly(q),
           NEW i \in 1..Len(q), NEW j \in 0..Len(q)
    PROVE  Levels(q, i, j) \in Int /\ Levels(q, i, j) <= BraceDepth(q)[j]
<1> DEFINE c == BraceDepth(q)
           S == {n \in 0..Len(q) : Levels(q, i, n) \in Int /\ Levels(q, i, n) <= c[n]}
<1>1. Len(q) \in Nat  OBVIOUS
<1>2. c[0] = 0 /\ \A n \in 1..Len(q) : c[n] = NextDepth(q, c[n - 1], n)
  BY BraceDepthStep
<1>3. \A n \in 0..Len(q) : c[n] \in 0..n  BY BraceDepthType
<1> HIDE DEF c
<1>4. 0 \in S
  <2>1. 0 \in 0..(Len(q) - 1) /\ 0 < i  BY <1>1
  <2>2. Levels(q, i, 0) = 0  BY <2>1, LevelsStep
  <2> QED  BY <1>1, <1>2, <2>2
<1>5. ASSUME NEW n \in 0..(Len(q) - 1), n \in S PROVE n + 1 \in S
  <2>1. n + 1 \in 1..Len(q) /\ (n + 1) - 1 = n  BY <1>1
  <2>2. c[n + 1] = NextDepth(q, c[n], n + 1) /\ c[n] \in Nat /\ c[n + 1] \in Nat
    BY <1>2, <1>3, <2>1
  <2>3. q[n + 1] # "quotedClose"  BY <2>1 DEF ClosesTruly
  <2>4. CASE n + 1 < i
    <3>1. n + 1 \in 0..(Len(q) - 1)  BY <1>1, <2>4
    <3>2. Levels(q, i, n + 1) = 0  BY <2>4, <3>1, LevelsStep
    <3> QED  BY <2>1, <2>2, <3>2
  <2>5. CASE i <= n + 1
    <3>1. Levels(q, i, n + 1) =
            Levels(q, i, n) + (IF q[n + 1] = "open" THEN 1
                               ELSE IF q[n + 1] = "close" THEN -1 ELSE 0)
      BY <2>5, LevelsStep
    <3>2. Levels(q, i, n) \in Int /\ Levels(q, i, n) <= c[n]  BY <1>5
    <3>3. c[n + 1] >= c[n] + (IF q[n + 1] = "open" THEN 1
                              ELSE IF q[n + 1] = "close" THEN -1 ELSE 0)
      BY <2>2, <2>3 DEF NextDepth, Opening, Closing
    <3> QED  BY <2>1, <2>2, <3>1, <3>2, <3>3
  <2> QED  BY <2>1, <2>4, <2>5
<1>6. j \in S
  <2> HIDE DEF S
  <2> QED  BY <1>1, <1>4, <1>5, SetInduction
<1> QED  BY <1>6 DEF c

\* If every brace is one, the counter has the levels of some stretch ending here.
LEMMA DepthReached ==
    ASSUME NEW q \in Seq(STRING), Plain(q), NEW j \in 0..Len(q)
    PROVE  \/ BraceDepth(q)[j] = 0
           \/ \E i \in 1..j : Levels(q, i, j) = BraceDepth(q)[j]
<1> DEFINE c == BraceDepth(q)
           Reached(n) == c[n] = 0 \/ \E i \in 1..n : Levels(q, i, n) = c[n]
           S == {n \in 0..Len(q) : Reached(n)}
<1>1. Len(q) \in Nat  OBVIOUS
<1>2. c[0] = 0 /\ \A n \in 1..Len(q) : c[n] = NextDepth(q, c[n - 1], n)
  BY BraceDepthStep
<1>3. \A n \in 0..Len(q) : c[n] \in 0..n  BY BraceDepthType
<1> HIDE DEF c
<1>4. 0 \in S  BY <1>1, <1>2
<1>5. ASSUME NEW n \in 0..(Len(q) - 1), n \in S PROVE n + 1 \in S
  <2>1. n + 1 \in 1..Len(q) /\ (n + 1) - 1 = n  BY <1>1
  <2>2. c[n + 1] = NextDepth(q, c[n], n + 1) /\ c[n] \in Nat
    BY <1>2, <1>3, <2>1
  <2>3. q[n + 1] \notin {"quotedOpen", "quotedClose"}  BY <2>1 DEF Plain
  <2>4. CASE c[n] = 0
    <3>1. CASE q[n + 1] = "open"
      <4>1. c[n + 1] = 1  BY <2>2, <2>4, <3>1 DEF NextDepth, Opening
      <4>2. Levels(q, n + 1, n + 1) = Levels(q, n + 1, n) + 1 /\ Levels(q, n + 1, n) = 0
        BY <2>1, <3>1, LevelsStep
      <4> QED  BY <2>1, <4>1, <4>2
    <3>2. CASE q[n + 1] # "open"
      <4>1. c[n + 1] = 0  BY <2>2, <2>3, <2>4, <3>2 DEF NextDepth, Opening, Closing
      <4> QED  BY <2>1, <4>1
    <3> QED  BY <3>1, <3>2
  <2>5. CASE c[n] # 0
    <3>1. PICK i \in 1..n : Levels(q, i, n) = c[n]  BY <1>5, <2>5
    <3>2. i \in 1..Len(q) /\ i \in 1..(n + 1) /\ i <= n + 1  BY <1>1
    <3>3. Levels(q, i, n + 1) =
            c[n] + (IF q[n + 1] = "open" THEN 1 ELSE IF q[n + 1] = "close" THEN -1 ELSE 0)
      BY <3>1, <3>2, LevelsStep
    <3>4. c[n + 1] =
            c[n] + (IF q[n + 1] = "open" THEN 1 ELSE IF q[n + 1] = "close" THEN -1 ELSE 0)
      BY <2>2, <2>3, <2>5 DEF NextDepth, Opening, Closing
    <3> QED  BY <2>1, <3>2, <3>3, <3>4
  <2> QED  BY <2>4, <2>5
<1>6. j \in S
  <2> HIDE DEF S
  <2> QED  BY <1>1, <1>4, <1>5, SetInduction
<1> QED  BY <1>6 DEF c
-----------------------------------------------------------------------------
\* The values of the counter, and the levels of the stretches.
Depths(q) == {BraceDepth(q)[j] : j \in 0..Len(q)}
Stretches(q) == {0} \cup {Levels(q, i, j) : i, j \in 1..Len(q)}

\* Both maxima exist, and each bounds its set.
LEMMA Maxima ==
    ASSUME NEW q \in Seq(STRING), ClosesTruly(q)
    PROVE  /\ Depths(q) \subseteq Int /\ Stretches(q) \subseteq Int
           /\ Greatest(Depths(q)) \in Depths(q)
           /\ \A a \in Depths(q) : a <= Greatest(Depths(q))
           /\ Greatest(Stretches(q)) \in Stretches(q)
           /\ \A b \in Stretches(q) : b <= Greatest(Stretches(q))
<1>1. Len(q) \in Int /\ 0 \in 0..Len(q)  OBVIOUS
<1>2. \A j \in 0..Len(q) : BraceDepth(q)[j] \in 0..Len(q)
  <2> TAKE j \in 0..Len(q)
  <2>1. BraceDepth(q)[j] \in 0..j  BY BraceDepthType
  <2> QED  BY <1>1, <2>1
<1>3. Depths(q) \subseteq Int /\ Depths(q) # {} /\ \A a \in Depths(q) : a <= Len(q)
  BY <1>1, <1>2 DEF Depths
<1>4. \A i, j \in 1..Len(q) : Levels(q, i, j) \in Int /\ Levels(q, i, j) <= Len(q)
  <2> TAKE i, j \in 1..Len(q)
  <2>1. j \in 0..Len(q)  BY <1>1
  <2>2. Levels(q, i, j) \in Int /\ Levels(q, i, j) <= BraceDepth(q)[j]
    BY <2>1, DepthBounds
  <2> QED  BY <1>1, <1>2, <2>1, <2>2
<1>5. /\ Stretches(q) \subseteq Int /\ Stretches(q) # {}
      /\ \A b \in Stretches(q) : b <= Len(q)
  BY <1>1, <1>4 DEF Stretches
<1>6. /\ Greatest(Depths(q)) \in Depths(q)
      /\ \A a \in Depths(q) : a <= Greatest(Depths(q))
  BY <1>1, <1>3, GreatestIs
<1>7. /\ Greatest(Stretches(q)) \in Stretches(q)
      /\ \A b \in Stretches(q) : b <= Greatest(Stretches(q))
  BY <1>1, <1>5, GreatestIs
<1> QED  BY <1>3, <1>5, <1>6, <1>7

\* The counter is a safe approximation, as its comment says, of the nesting of
\* a document in which no string and no comment has a closing brace
\* (graphqlQueryDepth, src/graphql.go).
THEOREM DepthSafe ==
    ASSUME NEW q \in Seq(STRING), ClosesTruly(q)
    PROVE  /\ Nesting(q) \in Int /\ GraphqlQueryDepth(q) \in Int
           /\ Nesting(q) <= GraphqlQueryDepth(q)
<1> DEFINE a == Greatest(Depths(q))
           b == Greatest(Stretches(q))
<1>1. /\ a \in Int /\ b \in Int /\ b \in Stretches(q)
      /\ \A d \in Depths(q) : d \in Int /\ d <= a
  BY Maxima
<1>2. GraphqlQueryDepth(q) = a - 1 /\ Nesting(q) = b - 1
  BY DEF GraphqlQueryDepth, Nesting, Depths, Stretches
<1> HIDE DEF a, b
<1>3. \E d \in Depths(q) : b <= d
  <2>1. CASE b = 0
    <3>1. BraceDepth(q)[0] = 0 /\ 0 \in 0..Len(q)  BY BraceDepthStep
    <3>2. 0 \in Depths(q)  BY <3>1 DEF Depths
    <3> QED  BY <2>1, <3>2
  <2>2. CASE b # 0
    <3>1. PICK i, j \in 1..Len(q) : b = Levels(q, i, j)
      BY <1>1, <2>2 DEF Stretches
    <3>2. j \in 0..Len(q)  OBVIOUS
    <3>3. b <= BraceDepth(q)[j]  BY <3>1, <3>2, DepthBounds
    <3> QED  BY <3>2, <3>3 DEF Depths
  <2> QED  BY <2>1, <2>2
<1>4. b <= a  BY <1>1, <1>3
<1> QED  BY <1>1, <1>2, <1>4

\* If no string and no comment has a brace at all, the counter is exact: it is
\* the nesting of the document, parsed or not (graphqlQueryDepth,
\* src/graphql.go).
THEOREM DepthExact ==
    ASSUME NEW q \in Seq(STRING), Plain(q)
    PROVE  GraphqlQueryDepth(q) = Nesting(q)
<1> DEFINE a == Greatest(Depths(q))
           b == Greatest(Stretches(q))
<1>1. ClosesTruly(q)  BY DEF Plain, ClosesTruly
<1>2. /\ a \in Int /\ b \in Int /\ a \in Depths(q)
      /\ \A d \in Stretches(q) : d <= b
  BY <1>1, Maxima
<1>3. GraphqlQueryDepth(q) = a - 1 /\ Nesting(q) = b - 1
  BY DEF GraphqlQueryDepth, Nesting, Depths, Stretches
<1>4. Nesting(q) <= GraphqlQueryDepth(q)  BY <1>1, DepthSafe
<1> HIDE DEF a, b
<1>5. a \in Stretches(q)
  <2>1. PICK j \in 0..Len(q) : a = BraceDepth(q)[j]  BY <1>2 DEF Depths
  <2>2. CASE a = 0  BY <2>2 DEF Stretches
  <2>3. CASE a # 0
    <3>1. PICK i \in 1..j : Levels(q, i, j) = a  BY <2>1, <2>3, DepthReached
    <3>2. i \in 1..Len(q) /\ j \in 1..Len(q)  OBVIOUS
    <3> QED  BY <3>1, <3>2 DEF Stretches
  <2> QED  BY <2>2, <2>3
<1> QED  BY <1>2, <1>3, <1>4, <1>5
-----------------------------------------------------------------------------
(***************************************************************************)
(* Types.                                                                  *)
(***************************************************************************)
\* What Calls, WebSocketChain and the interceptors keep of a call
CallTypes(c) ==
    /\ ask[c] \in Asks /\ ask[c] \in AskType
    /\ pc[c] \in {"arrived", "handler", "unwinding", "done", "aborted"}
    /\ defers[c] \in Seq({"audit", "recover"})
    /\ panic[c] \in {"none", "flying", "caught"}
    /\ reply[c] \in Response /\ hijacked[c] \in BOOLEAN /\ err[c] \in Error

LEMMA TypesOfCall ==
    ASSUME TypeOK, NEW c \in Call
    PROVE  CallTypes(c)
BY CallsAssumption DEF TypeOK, CallsTypeOK, CallTypes

TxnType == ({"sent"} \X TxnID) \cup ({"generated"} \X Call)

EntryOf == [status : Nat, txn : TxnType, ip : Address,
            state : {"pending", "saved", "lost"}]

LEMMA AuditType ==
    ASSUME TypeOK
    PROVE  audit \in [Call -> Seq(EntryOf)]
BY DEF TypeOK, CallsTypeOK, EntryOf, TxnType

\* A call has a transaction ID, and it is not NoTxn.
LEMMA TxnIs ==
    ASSUME TypeOK, NEW c \in Call
    PROVE  Txn(c) \in TxnType /\ Txn(c) # NoTxn
<1>1. ask[c].txn \in TxnID \cup {"none"}  BY TypesOfCall DEF CallTypes, AskType
<1>2. Txn(c) \in TxnType  BY <1>1 DEF Txn, TxnType
<1>3. Txn(c) # NoTxn  BY DEF Txn, NoTxn
<1> QED  BY <1>2, <1>3

CtxType == {NoTxn} \cup TxnType

PcType == {"arrived", "handler", "unwinding", "done", "aborted"}

\* CallsTypeOK, one variable at a time.
LEMMA CallsTypes ==
    CallsTypeOK <=> /\ ask \in [Call -> Asks] /\ pc \in [Call -> PcType]
                    /\ ip \in [Call -> Address]
                    /\ defers \in [Call -> Seq({"audit", "recover"})]
                    /\ panic \in [Call -> {"none", "flying", "caught"}]
                    /\ ctx \in [Call -> CtxType] /\ audit \in [Call -> Seq(EntryOf)]
BY DEF CallsTypeOK, PcType, CtxType, EntryOf, TxnType

LEMMA CallsTypesNext ==
    CallsTypeOK' <=> /\ ask' \in [Call -> Asks] /\ pc' \in [Call -> PcType]
                     /\ ip' \in [Call -> Address]
                     /\ defers' \in [Call -> Seq({"audit", "recover"})]
                     /\ panic' \in [Call -> {"none", "flying", "caught"}]
                     /\ ctx' \in [Call -> CtxType] /\ audit' \in [Call -> Seq(EntryOf)]
BY DEF CallsTypeOK, PcType, CtxType, EntryOf, TxnType

\* TrustProxy puts an address into the header, and nobody else changes it.
LEMMA IpTypes ==
    ASSUME TypeOK, NEW c \in Call, UNCHANGED ip \/ TrustsProxy(c)
    PROVE  ip' \in [Call -> Address]
<1>1. ip \in [Call -> Address]  BY CallsTypes DEF TypeOK
<1>2. ask[c].peer \in Address  BY TypesOfCall DEF CallTypes, AskType
<1>3. ClientIP(ask[c].peer, ask[c].forwarded) \in Address  BY <1>2 DEF ClientIP
<1> QED  BY <1>1, <1>3 DEF TrustsProxy

\* The steps of a goroutine, whatever they do to the answer.
LEMMA ControlTypes ==
    ASSUME TypeOK, NEW c \in Call, UNCHANGED ip \/ TrustsProxy(c),
           \/ \E f \in Seq({"audit", "recover"}) : CallHandler(c, f, Txn(c)) \/ ReturnEarly(c, f)
           \/ HandlerReturns(c) \/ Panics(c) \/ Recovers(c) \/ Leaves(c)
    PROVE  CallsTypeOK'
<1>1. /\ ask \in [Call -> Asks] /\ pc \in [Call -> PcType]
      /\ defers \in [Call -> Seq({"audit", "recover"})]
      /\ panic \in [Call -> {"none", "flying", "caught"}]
      /\ ctx \in [Call -> CtxType] /\ audit \in [Call -> Seq(EntryOf)]
      /\ ip' \in [Call -> Address]
  BY CallsTypes, IpTypes DEF TypeOK
<1>2. {"handler", "unwinding", "done", "aborted"} \subseteq PcType  BY DEF PcType
<1>3. CASE \E f \in Seq({"audit", "recover"}) : CallHandler(c, f, Txn(c)) \/ ReturnEarly(c, f)
  <2>1. PICK f \in Seq({"audit", "recover"}) : CallHandler(c, f, Txn(c)) \/ ReturnEarly(c, f)
    BY <1>3
  <2>2. Txn(c) \in CtxType  BY TxnIs DEF CtxType
  <2>3. CASE CallHandler(c, f, Txn(c))
    BY <1>1, <1>2, <2>2, <2>3, CallsTypesNext DEF CallHandler
  <2>4. CASE ReturnEarly(c, f)
    BY <1>1, <1>2, <2>4, CallsTypesNext DEF ReturnEarly
  <2> QED  BY <2>1, <2>3, <2>4
<1>4. CASE HandlerReturns(c)
  BY <1>1, <1>2, <1>4, CallsTypesNext DEF HandlerReturns
<1>5. CASE Panics(c)
  BY <1>1, <1>2, <1>5, CallsTypesNext DEF Panics
<1>6. CASE Leaves(c)
  BY <1>1, <1>2, <1>6, CallsTypesNext DEF Leaves
<1>7. CASE Recovers(c)
  <2>1. Tail(defers[c]) \in Seq({"audit", "recover"})
    BY <1>1, <1>7 DEF Recovers, RunsDeferred
  <2> QED  BY <1>1, <1>7, <2>1, CallsTypesNext DEF Recovers, RunsDeferred
<1> QED  BY <1>3, <1>4, <1>5, <1>6, <1>7

LEMMA LogsTypes ==
    ASSUME TypeOK, NEW c \in Call, NEW status \in Nat, Logs(c, status)
    PROVE  CallsTypeOK'
<1>1. CallsTypeOK  BY DEF TypeOK
<1>2. Tail(defers[c]) \in Seq({"audit", "recover"})
  BY <1>1 DEF Logs, RunsDeferred, CallsTypeOK
<1>3. [status |-> status, txn |-> Txn(c), ip |-> ip[c], state |-> "pending"] \in EntryOf
  BY <1>1, TxnIs, CallsTypes DEF EntryOf
<1>4. audit' \in [Call -> Seq(EntryOf)]
  <2>1. audit \in [Call -> Seq(EntryOf)]  BY AuditType
  <2> QED  BY <1>3, <2>1 DEF Logs
<1> QED  BY <1>1, <1>2, <1>4 DEF Logs, RunsDeferred, CallsTypeOK, EntryOf, TxnType

LEMMA SavesTypes ==
    ASSUME TypeOK, NEW c \in Call, Saves(c)
    PROVE  CallsTypeOK'
<1>1. PICK n \in DOMAIN audit[c], outcome \in {"saved", "lost"} :
        audit' = [audit EXCEPT ![c][n].state = outcome]
  BY DEF Saves
<1>2. audit \in [Call -> Seq(EntryOf)]  BY AuditType
<1>3. audit[c][n] \in EntryOf  BY <1>2
<1>4. [audit[c][n] EXCEPT !.state = outcome] \in EntryOf  BY <1>3 DEF EntryOf
<1>5. audit' \in [Call -> Seq(EntryOf)]
  <2> DEFINE s == [audit[c] EXCEPT ![n] = [audit[c][n] EXCEPT !.state = outcome]]
  <2>1. s \in Seq(EntryOf)  BY <1>2, <1>4
  <2>2. audit' = [audit EXCEPT ![c] = s]  BY <1>1, <1>2
  <2> QED  BY <1>2, <2>1, <2>2
<1> QED  BY <1>5 DEF Saves, TypeOK, CallsTypeOK, EntryOf, TxnType

LEMMA AppStatusNat == AppStatus \subseteq Nat
BY CallsAssumption

\* A write on one response leaves the others responses.
LEMMA ReplyTypes ==
    ASSUME TypeOK, NEW c \in Call, NEW v \in Response, reply' = [reply EXCEPT ![c] = v]
    PROVE  reply' \in [Call -> Response]
BY DEF TypeOK

LEMMA GraphQLType ==
    ASSUME TypeOK, NEW c \in Call, GraphQL(c)
    PROVE  CallsTypeOK' /\ reply' \in [Call -> Response]
<1>1. CallsTypeOK /\ reply \in [Call -> Response] /\ reply[c] \in Response
  BY DEF TypeOK
<1>2. CASE GraphQLEnters(c)
  <2>1. <<"recover">> \in Seq({"audit", "recover"})
        /\ <<"audit", "recover">> \in Seq({"audit", "recover"})
    OBVIOUS
  <2>2. CallsTypeOK'  BY <1>2, <2>1, ControlTypes DEF GraphQLEnters
  <2>3. RawError(reply[c], 400) \in Response  BY <1>1, RawErrorFollows DEF Follows
  <2>4. reply' = reply \/ reply' = [reply EXCEPT ![c] = RawError(reply[c], 400)]
    BY <1>1, <1>2 DEF GraphQLEnters
  <2> QED  BY <1>1, <2>2, <2>3, <2>4
<1>3. CASE GraphQLHandler(c)
  <2>1. CASE UNCHANGED callVars
    <3>1. CallsTypeOK'  BY <1>1, <1>3, <2>1 DEF GraphQLHandler, CallsTypeOK, callVars
    <3>2. ASSUME NEW status \in AppStatus PROVE RecorderHeader(reply[c], status) \in Response
      BY <1>1, AppStatusNat, RecorderHeaderFollows DEF Follows
    <3>3. RecorderWrite(reply[c], "app") \in Response
      BY <1>1, CleanerWriteFollows DEF Follows, Source, CleanerWrite
    <3>4. \/ \E status \in AppStatus :
                reply' = [reply EXCEPT ![c] = RecorderHeader(reply[c], status)]
          \/ reply' = [reply EXCEPT ![c] = RecorderWrite(reply[c], "app")]
          \/ reply' = reply
      BY <1>1, <1>3 DEF GraphQLHandler
    <3> QED  BY <1>1, <3>1, <3>2, <3>3, <3>4
  <2>2. CASE (HandlerReturns(c) \/ Panics(c)) /\ UNCHANGED reply
    BY <1>1, <1>3, <2>2, ControlTypes DEF GraphQLHandler
  <2> QED  BY <1>3, <2>1, <2>2 DEF GraphQLHandler
<1>4. CASE GraphQLLogs(c)
  <2>1. reply[c].rec \in Nat  BY <1>1 DEF Response
  <2> QED  BY <1>1, <1>4, <2>1, LogsTypes DEF GraphQLLogs
<1>5. CASE GraphQLRecovers(c)
  <2>1. RawError(reply[c], 500) \in Response  BY <1>1, RawErrorFollows DEF Follows
  <2>2. CallsTypeOK'  BY <1>5, ControlTypes DEF GraphQLRecovers, Recovers
  <2> QED  BY <1>1, <1>5, <2>1, <2>2 DEF GraphQLRecovers
<1> QED  BY <1>2, <1>3, <1>4, <1>5 DEF GraphQL

LEMMA WebSocketType ==
    ASSUME TypeOK, NEW c \in Call, WebSocket(c)
    PROVE  /\ CallsTypeOK' /\ reply' \in [Call -> Response]
           /\ hijacked' \in [Call -> BOOLEAN]
<1>1. /\ CallsTypeOK /\ reply \in [Call -> Response] /\ reply[c] \in Response
      /\ hijacked \in [Call -> BOOLEAN]
  BY DEF TypeOK
<1>2. CASE WebSocketEnters(c)
  <2>1. << >> \in Seq({"audit", "recover"})
        /\ <<"audit", "recover">> \in Seq({"audit", "recover"})
    OBVIOUS
  <2>2. ask[c].auth \in {"nil", "accepts", "rejects", "panics"}
    BY TypesOfCall DEF CallTypes, AskType
  <2>3. /\ \/ ReturnEarly(c, << >>)
           \/ CallHandler(c, <<"audit", "recover">>, Txn(c))
           \/ Panics(c)
        /\ \/ reply' = reply
           \/ reply' = [reply EXCEPT ![c] = RawError(reply[c], 400)]
           \/ reply' = [reply EXCEPT ![c] = Rejected(reply[c])]
        /\ hijacked' = hijacked
        /\ UNCHANGED ip \/ TrustsProxy(c)
    BY <1>1, <1>2, <2>2 DEF WebSocketEnters
  <2>4. CallsTypeOK'  BY <2>1, <2>3, ControlTypes
  <2>5. RawError(reply[c], 400) \in Response  BY <1>1, RawErrorFollows DEF Follows
  <2>6. SetHeaders(reply[c], {"Content-Type"}) \in Response
    BY <1>1, SetHeadersFollows DEF Follows, Header
  <2>7. RawHeader(SetHeaders(reply[c], {"Content-Type"}), 401) \in Response
    BY <2>6, RawHeaderFollows DEF Follows
  <2>8. Rejected(reply[c]) \in Response
    BY <2>7, RawErrorFollows DEF Follows, Rejected
  <2> QED  BY <1>1, <2>3, <2>4, <2>5, <2>8
<1>3. CASE WebSocketHandler(c)
  <2>1. ASSUME NEW status \in AppStatus \cup {101}, WsWriteHeader(c, status), UNCHANGED callVars
        PROVE  /\ CallsTypeOK' /\ reply' \in [Call -> Response]
               /\ hijacked' \in [Call -> BOOLEAN]
    <3>1. AppRawHeader(reply[c], status) \in Response
      BY <1>1, AppStatusNat, AppRawFollows DEF Follows
    <3>2. CallsTypeOK'
      BY <1>1, <1>3, <2>1 DEF WebSocketHandler, CallsTypeOK, callVars
    <3> QED  BY <1>1, <2>1, <3>1, <3>2 DEF WsWriteHeader
  <2>2. CASE reply' = [reply EXCEPT ![c] = AppRawWrite(@)] /\ UNCHANGED <<callVars, hijacked>>
    <3>1. AppRawWrite(reply[c]) \in Response
      <4>1. 200 \in Nat  OBVIOUS
      <4> QED  BY <1>1, <4>1, AppRawFollows DEF Follows
    <3>2. CallsTypeOK'
      BY <1>1, <1>3, <2>2 DEF WebSocketHandler, CallsTypeOK, callVars
    <3> QED  BY <1>1, <2>2, <3>1, <3>2
  <2>3. CASE (HandlerReturns(c) \/ Panics(c)) /\ UNCHANGED <<reply, hijacked>>
    BY <1>1, <1>3, <2>3, ControlTypes DEF WebSocketHandler
  <2> QED  BY <1>3, <2>1, <2>2, <2>3 DEF WebSocketHandler
<1>4. CASE WebSocketLogs(c)
  <2>1. (IF hijacked[c] THEN 101 ELSE 400) \in Nat  OBVIOUS
  <2> QED  BY <1>1, <1>4, <2>1, LogsTypes DEF WebSocketLogs
<1>5. CASE WebSocketRecovers(c)
  BY <1>1, <1>5, ControlTypes DEF WebSocketRecovers, Recovers
<1> QED  BY <1>2, <1>3, <1>4, <1>5 DEF WebSocket

LEMMA GrpcType ==
    ASSUME TypeOK, NEW c \in Call, Grpc(c)
    PROVE  CallsTypeOK' /\ err' \in [Call -> Error]
<1>1. CallsTypeOK /\ err \in [Call -> Error] /\ err[c] \in Error
  BY DEF TypeOK
<1>2. CASE UnaryEnters(c) \/ StreamEnters(c)
  <2>1. <<"recover", "audit">> \in Seq({"audit", "recover"})  OBVIOUS
  <2>2. CallHandler(c, <<"recover", "audit">>, Txn(c)) /\ err' = err /\ UNCHANGED ip
    BY <1>2 DEF UnaryEnters, StreamEnters, UnaryDefers, StreamDefers
  <2> QED  BY <1>1, <2>1, <2>2, ControlTypes
<1>3. CASE GrpcHandler(c)
  <2>1. CallsTypeOK'  BY <1>3, ControlTypes DEF GrpcHandler
  <2>2. HandlerError \subseteq Error
    BY GrpcAssumption DEF HandlerError, Error, NoError, StatusError
  <2> QED  BY <1>1, <1>3, <2>1, <2>2 DEF GrpcHandler
<1>4. CASE GrpcRecovers(c)
  <2>1. StatusError(Internal) \in Error  BY DEF StatusError, Internal, Error
  <2>2. CallsTypeOK'  BY <1>4, ControlTypes DEF GrpcRecovers, Recovers
  <2> QED  BY <1>1, <1>4, <2>1, <2>2 DEF GrpcRecovers
<1>5. CASE GrpcLogs(c)
  <2>1. GrpcStatus(err[c]) \in Nat  BY <1>1 DEF GrpcStatus, Error
  <2> QED  BY <1>1, <1>5, <2>1, LogsTypes DEF GrpcLogs
<1> QED  BY <1>2, <1>3, <1>4, <1>5 DEF Grpc

LEMMA InitTypes == Init => TypeOK
<1> SUFFICES ASSUME Init PROVE TypeOK  OBVIOUS
<1>1. CallsTypeOK
  <2>1. \A c \in Call : ask[c].claimedIP \in Address
    BY CallsAssumption DEF Init, CallsInit, AskType
  <2> QED  BY <2>1 DEF Init, CallsInit, CallsTypeOK
<1>2. reply \in [Call -> Response]  BY NewResponseType DEF Init, CallsInit
<1>3. hijacked \in [Call -> BOOLEAN] /\ err \in [Call -> Error]
  BY DEF Init, NoError, Error
<1> QED  BY <1>1, <1>2, <1>3 DEF TypeOK

LEMMA NextTypes == TypeOK /\ [Next]_vars => TypeOK'
<1> SUFFICES ASSUME TypeOK, [Next]_vars PROVE TypeOK'  OBVIOUS
<1>1. /\ CallsTypeOK /\ reply \in [Call -> Response]
      /\ hijacked \in [Call -> BOOLEAN] /\ err \in [Call -> Error]
  BY DEF TypeOK
<1>2. ASSUME NEW c \in Call, Handle(c) PROVE TypeOK'
  <2>1. CASE GraphQL(c) /\ UNCHANGED <<hijacked, err>>
    BY <1>1, <2>1, GraphQLType DEF TypeOK
  <2>2. CASE WebSocket(c) /\ UNCHANGED err
    BY <1>1, <2>2, WebSocketType DEF TypeOK
  <2>3. CASE Grpc(c) /\ UNCHANGED <<reply, hijacked>>
    BY <1>1, <2>3, GrpcType DEF TypeOK
  <2>4. CASE Finish(c)
    <3>1. RawHeader(reply[c], 200) \in Response  BY <1>1, RawHeaderFollows DEF Follows
    <3>2. CallsTypeOK'  BY <2>4, ControlTypes DEF Finish, Leaves
    <3>3. reply' \in [Call -> Response]  BY <1>1, <2>4, <3>1 DEF Finish
    <3> QED  BY <1>1, <2>4, <3>2, <3>3 DEF Finish, TypeOK
  <2> QED  BY <1>2, <2>1, <2>2, <2>3, <2>4 DEF Handle
<1>3. ASSUME NEW c \in Call, Save(c) PROVE TypeOK'
  BY <1>1, <1>3, SavesTypes DEF Save, TypeOK
<1>4. CASE UNCHANGED vars
  BY <1>1, <1>4 DEF TypeOK, CallsTypeOK, vars, callVars
<1> QED  BY <1>2, <1>3, <1>4 DEF Next, Settled
-----------------------------------------------------------------------------
(***************************************************************************)
(* What is true of a call, by how far it has come: it has just arrived,    *)
(* it was refused before the handler was called, or it is the handler's.   *)
(***************************************************************************)
\* The chain found nothing to refuse in what is asked.
Passes(a) ==
    /\ a.proto = "WebSocket" => a.upgrade /\ a.auth \in {"nil", "accepts"}
    /\ a.proto = "GraphQL" => ~TooDeep(a)

\* What the call registered when it called its handler, and what is left of it
Registered(a) == IF a.proto \in Grpcs THEN <<"recover", "audit">> ELSE <<"audit", "recover">>
Last(a) == IF a.proto \in Grpcs THEN <<"audit">> ELSE <<"recover">>

Awaits(f, g) == f \in {<<"audit", "recover">>, <<"recover", "audit">>, <<g>>}

AuditAwaited(c) == Awaits(defers[c], "audit")
RecoveryAwaited(c) == Awaits(defers[c], "recover")

\* What an entry says of a call
Told(c, e) ==
    /\ ask[c].proto = "GraphQL" => e.status = reply[c].rec
    /\ ask[c].proto = "WebSocket" => e.status = IF hijacked[c] THEN 101 ELSE 400
    /\ ask[c].proto \in Grpcs => e.status = GrpcStatus(err[c])

\* What the recorder missed of a GraphQL response is net/http's 200 or the
\* recovery's 500, and nothing while the recovery is still to come
Recorded(c) ==
    /\ reply[c].rec # 0 => reply[c].code = reply[c].rec
    /\ reply[c].rec = 0 => reply[c].code \in {0, IF panic[c] = "none" THEN 200 ELSE 500}
    /\ RecoveryAwaited(c) => reply[c].code = reply[c].rec
    /\ panic[c] = "caught" => reply[c].code # 0

\* A gRPC error is one a client can tell from success, a panic is Internal
Returned(c) ==
    /\ err[c] \in {NoError} \cup {StatusError(k) : k \in 1..16}
                    \cup {[kind |-> k, code |-> 0] : k \in {"context", "plain"}}
    /\ panic[c] = "caught" => err[c] = StatusError(Internal)

\* A WebSocket handler has stated the status, 101 before the chain's eyes, or
\* has sent nothing, and then net/http says 200 for it at the end
Spoke(w, up) == w.by = "app" /\ w.code # 0 /\ (w.code = 101 => up)
Silent(w, up) == ~up /\ w.body = {} /\ w.code = 0

Framed(c) ==
    \/ Spoke(reply[c], hijacked[c])
    \/ Silent(reply[c], hijacked[c]) /\ pc[c] # "done"
    \/ ~hijacked[c] /\ reply[c].body = {} /\ reply[c].code = 200 /\ pc[c] = "done"

Answered(c) ==
    /\ ask[c].proto = "GraphQL" => Recorded(c)
    /\ ask[c].proto = "WebSocket" => Framed(c)
    /\ ask[c].proto \in Grpcs => Returned(c)

Fresh(c) ==
    /\ pc[c] = "arrived" /\ ctx[c] = NoTxn /\ defers[c] = << >> /\ panic[c] = "none"
    /\ audit[c] = << >> /\ reply[c] = NewResponse /\ err[c] = NoError
    /\ ~hijacked[c]

Refused(c) ==
    /\ ctx[c] = NoTxn /\ audit[c] = << >>
    /\ \/ /\ panic[c] = "none" /\ pc[c] \in {"unwinding", "done"}
          /\ defers[c] \in {<< >>, <<"recover">>}
       \/ /\ panic[c] = "flying" /\ pc[c] \in {"unwinding", "aborted"}
          /\ defers[c] = << >>
          /\ ask[c].proto = "WebSocket" /\ ask[c].auth = "panics"

Served(c) ==
    /\ ctx[c] = Txn(c) /\ Passes(ask[c])
    /\ defers[c] \in {Registered(ask[c]), Last(ask[c]), << >>}
    /\ pc[c] \in {"handler", "unwinding", "done"}
    /\ pc[c] = "handler" => defers[c] = Registered(ask[c]) /\ panic[c] = "none"
    /\ pc[c] = "done" => defers[c] = << >>
    /\ panic[c] = "flying" => RecoveryAwaited(c)
    /\ panic[c] = "caught" => ~RecoveryAwaited(c)
    /\ AuditAwaited(c) => audit[c] = << >>
    /\ ~AuditAwaited(c) => Len(audit[c]) = 1 /\ Told(c, audit[c][1])
    /\ Answered(c)

Phase(c) == Fresh(c) \/ Refused(c) \/ Served(c)

CallInv == TypeOK /\ \A c \in Call : Phase(c)
-----------------------------------------------------------------------------
(***************************************************************************)
(* Calls share nothing, so a step is about one call.                       *)
(***************************************************************************)
Same(d) ==
    /\ ask'[d] = ask[d] /\ pc'[d] = pc[d] /\ defers'[d] = defers[d]
    /\ panic'[d] = panic[d] /\ ctx'[d] = ctx[d] /\ audit'[d] = audit[d]
    /\ reply'[d] = reply[d] /\ hijacked'[d] = hijacked[d] /\ err'[d] = err[d]

LEMMA SamePhase ==
    ASSUME NEW d \in Call, Same(d), Phase(d)
    PROVE  Phase(d)'
<1>1. Txn(d)' = Txn(d)  BY DEF Same, Txn
<1>2. \A e : Told(d, e) => Told(d, e)'  BY <1>1 DEF Same, Told
<1>3. Answered(d) => Answered(d)'
  BY DEF Same, Answered, Recorded, Framed, Returned, RecoveryAwaited
<1>4. Fresh(d) => Fresh(d)'  BY DEF Same, Fresh
<1>5. Refused(d) => Refused(d)'  BY DEF Same, Refused
<1>6. Served(d) => Served(d)'
  BY <1>1, <1>2, <1>3 DEF Same, Served, AuditAwaited, RecoveryAwaited
<1> QED  BY <1>4, <1>5, <1>6 DEF Phase

\* The steps of control and of the trail, whoever makes them.
Steps(c) ==
    \/ \E f, t : CallHandler(c, f, t)
    \/ \E f : ReturnEarly(c, f)
    \/ \E status : Logs(c, status)
    \/ HandlerReturns(c) \/ Panics(c) \/ Recovers(c) \/ Leaves(c) \/ Saves(c)
    \/ UNCHANGED callVars

Alike(d) ==
    /\ ask'[d] = ask[d] /\ pc'[d] = pc[d] /\ defers'[d] = defers[d]
    /\ panic'[d] = panic[d] /\ ctx'[d] = ctx[d] /\ audit'[d] = audit[d]

LEMMA StepsAlike ==
    ASSUME TypeOK, NEW c \in Call, NEW d \in Call, d # c, Steps(c)
    PROVE  Alike(d)
<1>1. /\ ask \in [Call -> Asks] /\ pc \in [Call -> PcType]
      /\ defers \in [Call -> Seq({"audit", "recover"})]
      /\ panic \in [Call -> {"none", "flying", "caught"}]
      /\ ctx \in [Call -> CtxType] /\ audit \in [Call -> Seq(EntryOf)]
  BY CallsTypes DEF TypeOK
<1>2. CASE \E f, t : CallHandler(c, f, t)  BY <1>1, <1>2 DEF CallHandler, Alike
<1>3. CASE \E f : ReturnEarly(c, f)  BY <1>1, <1>3 DEF ReturnEarly, Alike
<1>4. CASE \E status : Logs(c, status)
  BY <1>1, <1>4 DEF Logs, RunsDeferred, Alike
<1>5. CASE HandlerReturns(c)  BY <1>1, <1>5 DEF HandlerReturns, Alike
<1>6. CASE Panics(c)  BY <1>1, <1>6 DEF Panics, Alike
<1>7. CASE Recovers(c)  BY <1>1, <1>7 DEF Recovers, RunsDeferred, Alike
<1>8. CASE Leaves(c)  BY <1>1, <1>8 DEF Leaves, Alike
<1>9. CASE Saves(c)  BY <1>1, <1>9 DEF Saves, Alike
<1>10. CASE UNCHANGED callVars  BY <1>10 DEF callVars, Alike
<1> QED  BY <1>2, <1>3, <1>4, <1>5, <1>6, <1>7, <1>8, <1>9, <1>10 DEF Steps

LEMMA OthersSame ==
    ASSUME TypeOK, NEW c \in Call, NEW d \in Call, d # c, Handle(c) \/ Save(c)
    PROVE  Same(d)
<1>1. Steps(c)
  <2>1. GraphQL(c) => Steps(c)
    BY DEF GraphQL, GraphQLEnters, GraphQLHandler, GraphQLLogs, GraphQLRecovers, Steps
  <2>2. WebSocket(c) => Steps(c)
    <3>1. ask[c].auth \in {"nil", "accepts", "rejects", "panics"}
      BY TypesOfCall DEF CallTypes, AskType
    <3> QED  BY <3>1 DEF WebSocket, WebSocketEnters, WebSocketHandler, WebSocketLogs,
                         WebSocketRecovers, Steps
  <2>3. Grpc(c) => Steps(c)
    BY DEF Grpc, UnaryEnters, StreamEnters, GrpcHandler, GrpcRecovers, GrpcLogs, Steps
  <2> QED  BY <2>1, <2>2, <2>3 DEF Handle, Finish, Save, Steps
<1>2. Alike(d)  BY <1>1, StepsAlike
<1>3. /\ reply \in [Call -> Response] /\ hijacked \in [Call -> BOOLEAN]
      /\ err \in [Call -> Error]
  BY DEF TypeOK
<1>4. reply'[d] = reply[d]
  <2>1. GraphQL(c) => reply'[d] = reply[d]
    BY <1>3 DEF GraphQL, GraphQLEnters, GraphQLHandler, GraphQLLogs, GraphQLRecovers
  <2>2. WebSocket(c) => reply'[d] = reply[d]
    <3>1. ask[c].auth \in {"nil", "accepts", "rejects", "panics"}
      BY TypesOfCall DEF CallTypes, AskType
    <3>2. WebSocketEnters(c) => reply'[d] = reply[d]
      BY <1>3, <3>1 DEF WebSocketEnters
    <3>3. \A status : WsWriteHeader(c, status) => reply'[d] = reply[d]
      BY <1>3 DEF WsWriteHeader
    <3>4. WebSocketHandler(c) => reply'[d] = reply[d]
      BY <1>3, <3>3 DEF WebSocketHandler
    <3> QED  BY <3>2, <3>4 DEF WebSocket, WebSocketLogs, WebSocketRecovers
  <2> QED  BY <1>3, <2>1, <2>2 DEF Handle, Finish, Save
<1>5. hijacked'[d] = hijacked[d]
  <2>1. WebSocketEnters(c) => hijacked' = hijacked  BY DEF WebSocketEnters
  <2>2. WebSocketHandler(c) => hijacked'[d] = hijacked[d]
    <3>1. \A status : WsWriteHeader(c, status) => hijacked'[d] = hijacked[d]
      BY <1>3 DEF WsWriteHeader
    <3> QED  BY <3>1 DEF WebSocketHandler
  <2>3. WebSocketLogs(c) \/ WebSocketRecovers(c) => hijacked' = hijacked
    BY DEF WebSocketLogs, WebSocketRecovers
  <2>4. WebSocket(c) => hijacked'[d] = hijacked[d]
    BY <2>1, <2>2, <2>3 DEF WebSocket
  <2>5. ~WebSocket(c) => hijacked' = hijacked  BY DEF Handle, Finish, Save
  <2> QED  BY <2>4, <2>5
<1>6. err'[d] = err[d]
  <2>1. GrpcHandler(c) \/ GrpcRecovers(c) => err'[d] = err[d]
    BY <1>3 DEF GrpcHandler, GrpcRecovers
  <2>2. UnaryEnters(c) \/ StreamEnters(c) \/ GrpcLogs(c) => err' = err
    BY DEF UnaryEnters, StreamEnters, GrpcLogs
  <2>3. Grpc(c) => err'[d] = err[d]  BY <2>1, <2>2 DEF Grpc
  <2>4. ~Grpc(c) => err' = err  BY DEF Handle, Finish, Save
  <2> QED  BY <2>3, <2>4
<1> QED  BY <1>2, <1>4, <1>5, <1>6 DEF Same, Alike
-----------------------------------------------------------------------------
(***************************************************************************)
(* What a write does to the status of a response.                          *)
(***************************************************************************)
LEMMA RawStatus ==
    ASSUME NEW w \in Response, NEW code \in Nat \ {0}
    PROVE  /\ RawHeader(w, code).rec = w.rec /\ RawHeader(w, code).body = w.body
           /\ RawHeader(w, code).by = w.by \/ w.code = 0
           /\ code \notin Informational =>
                 RawHeader(w, code).code = IF w.code = 0 THEN code ELSE w.code
BY DEF RawHeader, Commit, Response, Writer

LEMMA RawErrorStatus ==
    ASSUME NEW w \in Response, NEW code \in Nat \ {0}, code \notin Informational
    PROVE  /\ RawError(w, code).rec = w.rec
           /\ RawError(w, code).code = IF w.code = 0 THEN code ELSE w.code
<1> DEFINE x == SetHeaders(w, {"Content-Type"})
           v == RawHeader(x, code)
           u == RawHeader(v, 200)
<1>1. x \in Response  BY SetHeadersFollows DEF Follows, Header
<1>2. x.rec = w.rec /\ x.code = w.code  BY DEF SetHeaders, Response
<1> HIDE DEF x
<1>3. v \in Response /\ v.rec = w.rec /\ v.code = IF w.code = 0 THEN code ELSE w.code
  BY <1>1, <1>2, RawStatus, RawHeaderFollows DEF Follows
<1> HIDE DEF v
<1>4. u \in Response /\ u.rec = v.rec /\ u.code = v.code
  BY <1>3, RawStatus, RawHeaderFollows DEF Follows, Informational, Response
<1>5. RawError(w, code) = [u EXCEPT !.body = @ \cup {"error"}]
  BY DEF RawError, RawWrite, WriteBody, v, x
<1> HIDE DEF u
<1> QED  BY <1>3, <1>4, <1>5 DEF Response

\* The recorder saw the status if it has seen all so far.
LEMMA RecorderStatus ==
    ASSUME NEW w \in Response, w.code = w.rec, NEW code \in Nat \ {0}
    PROVE  LET v == RecorderHeader(w, code) IN v \in Response /\ v.code = v.rec
<1>1. RecorderHeader(w, code) \in Response  BY RecorderHeaderFollows DEF Follows
<1> QED  BY <1>1 DEF RecorderHeader, RecordedBy, Commit, Response

LEMMA RecorderWriteStatus ==
    ASSUME NEW w \in Response, w.code = w.rec
    PROVE  LET v == RecorderWrite(w, "app") IN v \in Response /\ v.code = v.rec
<1> DEFINE v == RecorderHeader(w, 200)
<1>1. v \in Response /\ v.code = v.rec  BY RecorderStatus
<1>2. RecorderWrite(w, "app") = [v EXCEPT !.body = @ \cup {"app"}]
  BY DEF RecorderWrite, WriteBody
<1> HIDE DEF v
<1> QED  BY <1>1, <1>2 DEF Response, Source

\* A WebSocket handler that has sent nothing speaks by a status or a byte.
LEMMA SpeaksByStatus ==
    ASSUME NEW w \in Response, NEW up \in BOOLEAN, Spoke(w, up) \/ Silent(w, up),
           NEW code \in Nat \ {0}
    PROVE  LET v == AppRawHeader(w, code)
               upgraded == up \/ code = 101
           IN  v \in Response /\ (Spoke(v, upgraded) \/ Silent(v, upgraded))
<1>1. AppRawHeader(w, code) \in Response  BY AppRawFollows DEF Follows
<1>2. 101 \notin Informational  BY DEF Informational
<1>3. CASE w.code # 0
  BY <1>1, <1>3 DEF AppRawHeader, Commit, Spoke, Silent
<1>4. CASE w.code = 0 /\ code \in Informational
  BY <1>1, <1>2, <1>4 DEF AppRawHeader, Commit, Spoke, Silent, Response
<1>5. CASE w.code = 0 /\ code \notin Informational
  BY <1>1, <1>5 DEF AppRawHeader, Commit, Spoke, Silent, Response
<1> QED  BY <1>3, <1>4, <1>5

LEMMA SpeaksByWrite ==
    ASSUME NEW w \in Response, NEW up \in BOOLEAN, Spoke(w, up) \/ Silent(w, up)
    PROVE  AppRawWrite(w) \in Response /\ Spoke(AppRawWrite(w), up)
<1> DEFINE v == AppRawHeader(w, 200)
<1>1. 200 \notin Informational /\ 200 \in Nat  BY DEF Informational
<1>2. AppRawWrite(w) \in Response /\ v \in Response  BY <1>1, AppRawFollows DEF Follows
<1>3. Spoke(v, up)
  BY <1>1 DEF AppRawHeader, Commit, Spoke, Silent, Response
<1>4. AppRawWrite(w) = [v EXCEPT !.body = @ \cup {"app"}]
  BY DEF AppRawWrite, WriteBody
<1> HIDE DEF v
<1> QED  BY <1>2, <1>3, <1>4 DEF Spoke, Response
-----------------------------------------------------------------------------
(***************************************************************************)
(* The phases, step by step.                                               *)
(***************************************************************************)
\* Every variable is a function of the calls, to be updated at one of them.
Functions ==
    /\ ask \in [Call -> Asks] /\ pc \in [Call -> PcType]
    /\ defers \in [Call -> Seq({"audit", "recover"})]
    /\ panic \in [Call -> {"none", "flying", "caught"}]
    /\ ctx \in [Call -> CtxType] /\ audit \in [Call -> Seq(EntryOf)]
    /\ reply \in [Call -> Response] /\ hijacked \in [Call -> BOOLEAN]
    /\ err \in [Call -> Error]

LEMMA FunctionsHere == TypeOK => Functions
BY CallsTypes DEF TypeOK, Functions

\* Which of the two is still to run.
LEMMA AwaitsCases ==
    /\ \A g \in {"audit", "recover"} :
          /\ Awaits(<<"audit", "recover">>, g) /\ Awaits(<<"recover", "audit">>, g)
          /\ Awaits(<<g>>, g) /\ ~Awaits(<< >>, g)
    /\ ~Awaits(<<"audit">>, "recover") /\ ~Awaits(<<"recover">>, "audit")
<1>1. /\ << >> # <<"audit">> /\ << >> # <<"recover">> /\ <<"audit">> # <<"recover">>
      /\ \A g \in {"audit", "recover"} :
            /\ <<"audit", "recover">> \notin {<< >>, <<g>>}
            /\ <<"recover", "audit">> \notin {<< >>, <<g>>}
  OBVIOUS
<1> QED  BY <1>1 DEF Awaits

\* The handler is called with everything registered: Fresh -> Served.
LEMMA CallsPhase ==
    ASSUME TypeOK, NEW c \in Call, Fresh(c), Passes(ask[c]),
           CallHandler(c, Registered(ask[c]), Txn(c)),
           UNCHANGED <<reply, hijacked, err>>
    PROVE  Served(c)'
<1>1. /\ ask'[c] = ask[c] /\ pc'[c] = "handler" /\ defers'[c] = Registered(ask[c])
      /\ panic'[c] = "none" /\ ctx'[c] = Txn(c) /\ audit'[c] = << >>
  BY FunctionsHere DEF Functions, CallHandler, Fresh
<1>2. reply'[c] = NewResponse /\ err'[c] = NoError  BY DEF Fresh
<1>3. Txn(c)' = Txn(c)  BY <1>1 DEF Txn
<1>4. AuditAwaited(c)' /\ RecoveryAwaited(c)'
  BY <1>1, AwaitsCases DEF Registered, AuditAwaited, RecoveryAwaited
<1>5. Answered(c)'
  BY <1>1, <1>2, <1>4
  DEF Answered, Recorded, Framed, Silent, Returned, NewResponse, Fresh
<1> QED  BY <1>1, <1>3, <1>4, <1>5 DEF Served

\* Fresh -> Refused, early.
LEMMA RefusesPhase ==
    ASSUME TypeOK, NEW c \in Call, Fresh(c), NEW f \in {<< >>, <<"recover">>},
           ReturnEarly(c, f)
    PROVE  Refused(c)'
BY FunctionsHere DEF Functions, ReturnEarly, Fresh, Refused

\* The handler writes, returns or panics: still Served.
LEMMA HandlerPhase ==
    ASSUME TypeOK, NEW c \in Call, Served(c), pc[c] = "handler",
           UNCHANGED callVars \/ HandlerReturns(c) \/ Panics(c),
           /\ ask[c].proto = "GraphQL" => reply'[c].code = reply'[c].rec
           /\ ask[c].proto = "WebSocket" =>
                Spoke(reply'[c], hijacked'[c]) \/ Silent(reply'[c], hijacked'[c])
           /\ ask[c].proto \in Grpcs =>
                err'[c] \in {NoError} \cup {StatusError(k) : k \in 1..16}
                              \cup {[kind |-> k, code |-> 0] : k \in {"context", "plain"}},
           reply'[c] \in Response
    PROVE  Served(c)'
<1>1. /\ ask'[c] = ask[c] /\ pc'[c] \in {"handler", "unwinding"} /\ defers'[c] = defers[c]
      /\ panic'[c] \in {"none", "flying"} /\ (pc'[c] = "handler" => panic'[c] = "none")
      /\ ctx'[c] = ctx[c] /\ audit'[c] = audit[c]
  BY FunctionsHere DEF Functions, callVars, HandlerReturns, Panics, Served
<1>2. defers[c] = Registered(ask[c])  BY DEF Served
<1>3. AuditAwaited(c) /\ AuditAwaited(c)' /\ RecoveryAwaited(c)'
  BY <1>1, <1>2, AwaitsCases DEF Registered, AuditAwaited, RecoveryAwaited
<1>4. Txn(c)' = Txn(c)  BY <1>1 DEF Txn
<1>5. Answered(c)'
  <2>1. ask[c].proto = "GraphQL" => Recorded(c)'
    BY <1>1 DEF Recorded, Response
  <2>2. ask[c].proto \in Grpcs => Returned(c)'  BY <1>1 DEF Returned
  <2>3. ask[c].proto = "WebSocket" => Framed(c)'  BY <1>1 DEF Framed
  <2> QED  BY <1>1, <2>1, <2>2, <2>3 DEF Answered
<1> QED  BY <1>1, <1>2, <1>3, <1>4, <1>5 DEF Served

\* What is registered runs in order.
LEMMA DefersCases ==
    ASSUME TypeOK, NEW c \in Call, Served(c), defers[c] # << >>
    PROVE  /\ ask[c].proto \in Grpcs =>
                \/ defers[c] = <<"recover", "audit">> /\ Tail(defers[c]) = <<"audit">>
                \/ defers[c] = <<"audit">> /\ Tail(defers[c]) = << >>
           /\ ask[c].proto \notin Grpcs =>
                \/ defers[c] = <<"audit", "recover">> /\ Tail(defers[c]) = <<"recover">>
                \/ defers[c] = <<"recover">> /\ Tail(defers[c]) = << >>
<1>1. /\ Tail(<<"recover", "audit">>) = <<"audit">> /\ Tail(<<"audit">>) = << >>
      /\ Tail(<<"audit", "recover">>) = <<"recover">> /\ Tail(<<"recover">>) = << >>
  OBVIOUS
<1>2. defers[c] \in {Registered(ask[c]), Last(ask[c])}  BY DEF Served
<1>3. CASE ask[c].proto \in Grpcs
  <2>1. defers[c] = <<"recover", "audit">> \/ defers[c] = <<"audit">>
    BY <1>2, <1>3 DEF Registered, Last
  <2> QED  BY <1>1, <1>3, <2>1
<1>4. CASE ask[c].proto \notin Grpcs
  <2>1. defers[c] = <<"audit", "recover">> \/ defers[c] = <<"recover">>
    BY <1>2, <1>4 DEF Registered, Last
  <2> QED  BY <1>1, <1>4, <2>1
<1> QED  BY <1>3, <1>4

\* The entry is made: nothing is awaited of it any more.
LEMMA LogsPhase ==
    ASSUME TypeOK, NEW c \in Call, Served(c),
           NEW status, Logs(c, status),
           UNCHANGED <<reply, hijacked, err>>,
           Told(c, [status |-> status, txn |-> Txn(c), ip |-> ip[c], state |-> "pending"])
    PROVE  Served(c)'
<1> DEFINE e == [status |-> status, txn |-> Txn(c), ip |-> ip[c], state |-> "pending"]
<1>1. /\ pc[c] = "unwinding" /\ defers[c] # << >> /\ Head(defers[c]) = "audit"
      /\ ask'[c] = ask[c] /\ pc'[c] = pc[c] /\ defers'[c] = Tail(defers[c])
      /\ panic'[c] = panic[c] /\ ctx'[c] = ctx[c] /\ audit'[c] = Append(audit[c], e)
  BY FunctionsHere DEF Functions, Logs, RunsDeferred
<1>2. \/ ask[c].proto \in Grpcs /\ defers[c] = <<"audit">> /\ defers'[c] = << >>
      \/ /\ ask[c].proto \notin Grpcs
         /\ defers[c] = <<"audit", "recover">> /\ defers'[c] = <<"recover">>
  <2>1. Head(<<"recover", "audit">>) # "audit" /\ Head(<<"recover">>) # "audit"
    OBVIOUS
  <2> QED  BY <1>1, <2>1, DefersCases
<1>3. AuditAwaited(c) /\ ~AuditAwaited(c)' /\ (RecoveryAwaited(c)' <=> RecoveryAwaited(c))
  BY <1>2, AwaitsCases DEF AuditAwaited, RecoveryAwaited
<1>4. Txn(c)' = Txn(c)  BY <1>1 DEF Txn
<1>5. Len(audit'[c]) = 1 /\ audit'[c][1] = e
  <2>1. audit[c] = << >>  BY <1>3 DEF Served
  <2> HIDE DEF e
  <2> QED  BY <1>1, <2>1
<1>6. Told(c, audit[c][1])'
  <2> HIDE DEF e
  <2>1. Told(c, e)  BY DEF e
  <2> QED  BY <1>1, <1>4, <1>5, <2>1 DEF Told
<1>7. Answered(c)'
  BY <1>1, <1>3 DEF Served, Answered, Recorded, Framed, Returned
<1>8. defers'[c] \in {Last(ask[c]), << >>}  BY <1>2 DEF Last
<1> HIDE DEF e
<1> QED  BY <1>1, <1>3, <1>4, <1>5, <1>6, <1>7, <1>8 DEF Served

\* A panic is caught, and answered where the protocol has an answer.
LEMMA RecoversPhase ==
    ASSUME TypeOK, NEW c \in Call, Served(c), Recovers(c), UNCHANGED hijacked,
           ask[c].proto = "GraphQL" =>
              /\ reply'[c].rec = reply[c].rec
              /\ reply'[c].code = IF panic[c] = "flying" /\ reply[c].code = 0 THEN 500
                                  ELSE reply[c].code,
           ask[c].proto # "GraphQL" => reply'[c] = reply[c],
           ask[c].proto \in Grpcs =>
              err'[c] = IF panic[c] = "flying" THEN StatusError(Internal) ELSE err[c],
           ask[c].proto \notin Grpcs => err'[c] = err[c]
    PROVE  Served(c)'
<1>1. /\ pc[c] = "unwinding" /\ defers[c] # << >> /\ Head(defers[c]) = "recover"
      /\ ask'[c] = ask[c] /\ pc'[c] = pc[c] /\ defers'[c] = Tail(defers[c])
      /\ panic'[c] = IF panic[c] = "flying" THEN "caught" ELSE panic[c]
      /\ ctx'[c] = ctx[c] /\ audit'[c] = audit[c]
  BY FunctionsHere DEF Functions, Recovers, RunsDeferred
<1>2. \/ /\ ask[c].proto \in Grpcs
         /\ defers[c] = <<"recover", "audit">> /\ defers'[c] = <<"audit">>
      \/ /\ ask[c].proto \notin Grpcs
         /\ defers[c] = <<"recover">> /\ defers'[c] = << >>
  <2>1. Head(<<"audit", "recover">>) # "recover" /\ Head(<<"audit">>) # "recover"
    OBVIOUS
  <2> QED  BY <1>1, <2>1, DefersCases
<1>3. RecoveryAwaited(c) /\ ~RecoveryAwaited(c)' /\ (AuditAwaited(c)' <=> AuditAwaited(c))
  BY <1>2, AwaitsCases DEF AuditAwaited, RecoveryAwaited
<1>4. Txn(c)' = Txn(c)  BY <1>1 DEF Txn
<1>5. panic[c] \in {"none", "flying"} /\ panic'[c] \in {"none", "caught"}
  BY <1>1, <1>3, FunctionsHere DEF Functions, Served
<1>6. ~AuditAwaited(c)' => Len(audit'[c]) = 1 /\ Told(c, audit[c][1])'
  <2>1. ~AuditAwaited(c)' => ask[c].proto \notin Grpcs
    BY <1>2, <1>3, AwaitsCases DEF AuditAwaited
  <2> QED  BY <1>1, <1>3, <1>4, <2>1 DEF Served, Told, Grpcs
<1>7. Answered(c)'
  <2>1. ask[c].proto = "GraphQL" => Recorded(c)'
    <3>1. ask[c].proto = "GraphQL" => reply[c].code = reply[c].rec
      BY <1>3 DEF Served, Answered, Recorded
    <3> QED  BY <1>1, <1>3, <1>5, <3>1 DEF Recorded
  <2>2. ask[c].proto \in Grpcs => Returned(c)'
    <3>1. ask[c].proto \in Grpcs => Returned(c)  BY DEF Served, Answered
    <3> QED  BY <1>1, <1>5, <3>1 DEF Returned, Internal
  <2>3. ask[c].proto = "WebSocket" => Framed(c)'
    BY <1>1 DEF Served, Answered, Framed
  <2> QED  BY <1>1, <2>1, <2>2, <2>3 DEF Answered
<1>8. defers'[c] \in {Last(ask[c]), << >>}  BY <1>2 DEF Last
<1> QED  BY <1>1, <1>3, <1>4, <1>5, <1>6, <1>7, <1>8 DEF Served

LEMMA FinishPhase ==
    ASSUME TypeOK, NEW c \in Call, Phase(c), Finish(c)
    PROVE  Phase(c)'
<1>1. /\ pc[c] = "unwinding" /\ defers[c] = << >>
      /\ pc'[c] = IF panic[c] = "flying" THEN "aborted" ELSE "done"
      /\ ask'[c] = ask[c] /\ defers'[c] = defers[c] /\ panic'[c] = panic[c]
      /\ ctx'[c] = ctx[c] /\ audit'[c] = audit[c]
      /\ hijacked'[c] = hijacked[c] /\ err'[c] = err[c]
  BY FunctionsHere DEF Functions, Finish, Leaves
<1>2. reply'[c] = IF ask[c].proto \in Grpcs \/ panic[c] = "flying" THEN reply[c]
                  ELSE RawHeader(reply[c], 200)
  BY FunctionsHere DEF Functions, Finish
<1>3. /\ RawHeader(reply[c], 200).rec = reply[c].rec
      /\ RawHeader(reply[c], 200).code = IF reply[c].code = 0 THEN 200 ELSE reply[c].code
      /\ RawHeader(reply[c], 200).body = reply[c].body
      /\ RawHeader(reply[c], 200).by = reply[c].by \/ reply[c].code = 0
  BY RawStatus, FunctionsHere DEF Functions, Informational
<1>4. CASE Refused(c)
  BY <1>1, <1>4 DEF Refused, Phase
<1>5. CASE Served(c)
  <2>1. /\ ~AuditAwaited(c) /\ ~AuditAwaited(c)'
        /\ ~RecoveryAwaited(c) /\ ~RecoveryAwaited(c)'
    BY <1>1, AwaitsCases DEF AuditAwaited, RecoveryAwaited
  <2>2. panic[c] # "flying" /\ pc'[c] = "done"  BY <1>1, <1>5, <2>1 DEF Served
  <2>3. Txn(c)' = Txn(c)  BY <1>1 DEF Txn
  <2>4. reply'[c].rec = reply[c].rec  BY <1>2, <1>3
  <2>5. Told(c, audit[c][1])'
    <3>1. Told(c, audit[c][1])  BY <1>5, <2>1 DEF Served
    <3> QED  BY <1>1, <2>3, <2>4, <3>1 DEF Told
  <2>6. Answered(c)'
    <3>1. Answered(c)  BY <1>5 DEF Served
    <3>2. ask[c].proto = "GraphQL" => Recorded(c)'
      <4>1. SUFFICES ASSUME ask[c].proto = "GraphQL" PROVE Recorded(c)'  OBVIOUS
      <4>2. Recorded(c)  BY <3>1, <4>1 DEF Answered
      <4>3. reply'[c].code = IF reply[c].code = 0 THEN 200 ELSE reply[c].code
        BY <1>2, <1>3, <2>2, <4>1 DEF Grpcs
      <4>4. panic[c] \in {"none", "caught"}  BY <2>2, FunctionsHere DEF Functions
      <4> QED  BY <1>1, <2>1, <2>4, <4>2, <4>3, <4>4 DEF Recorded
    <3>3. ask[c].proto = "WebSocket" => Framed(c)'
      <4>1. SUFFICES ASSUME ask[c].proto = "WebSocket" PROVE Framed(c)'  OBVIOUS
      <4>2. Spoke(reply[c], hijacked[c]) \/ Silent(reply[c], hijacked[c])
        BY <1>1, <3>1, <4>1 DEF Answered, Framed
      <4>3. reply'[c] = RawHeader(reply[c], 200)  BY <1>2, <2>2, <4>1 DEF Grpcs
      <4> QED  BY <1>1, <1>3, <2>2, <4>2, <4>3 DEF Framed, Spoke, Silent
    <3>4. ask[c].proto \in Grpcs => Returned(c)'
      BY <1>1, <3>1 DEF Answered, Returned
    <3> QED  BY <1>1, <3>2, <3>3, <3>4 DEF Answered
  <2> QED  BY <1>1, <1>5, <2>1, <2>2, <2>3, <2>5, <2>6 DEF Served, Phase
<1>6. ~Fresh(c)  BY <1>1 DEF Fresh
<1> QED  BY <1>4, <1>5, <1>6 DEF Phase

\* A save goroutine changes the state of the one entry, and nothing else of it.
LEMMA SavesOne ==
    ASSUME TypeOK, NEW c \in Call, Phase(c), Save(c)
    PROVE  /\ Served(c) /\ ~AuditAwaited(c)
           /\ audit[c] = <<audit[c][1]>> /\ audit[c][1].state = "pending"
           /\ \E outcome \in {"saved", "lost"} :
                 audit'[c] = <<[audit[c][1] EXCEPT !.state = outcome]>>
<1>1. PICK n \in DOMAIN audit[c], outcome \in {"saved", "lost"} :
        /\ audit[c][n].state = "pending"
        /\ audit' = [audit EXCEPT ![c][n].state = outcome]
  BY DEF Save, Saves
<1>2. audit \in [Call -> Seq(EntryOf)]  BY FunctionsHere DEF Functions
<1>3. Served(c) /\ ~AuditAwaited(c) /\ Len(audit[c]) = 1
  BY <1>1 DEF Phase, Fresh, Refused, Served
<1>4. n = 1 /\ audit[c] = <<audit[c][1]>>  BY <1>1, <1>2, <1>3
<1>5. audit'[c] = <<[audit[c][1] EXCEPT !.state = outcome]>>
  <2> DEFINE e == [audit[c][1] EXCEPT !.state = outcome]
  <2>1. audit'[c] = [audit[c] EXCEPT ![1] = e]  BY <1>1, <1>2, <1>4
  <2>2. \A x, y : [<<x>> EXCEPT ![1] = y] = <<y>>  OBVIOUS
  <2> HIDE DEF e
  <2>3. audit'[c] = <<e>>  BY <1>4, <2>1, <2>2
  <2> QED  BY <2>3 DEF e
<1> QED  BY <1>1, <1>3, <1>4, <1>5

LEMMA SavePhase ==
    ASSUME TypeOK, NEW c \in Call, Phase(c), Save(c)
    PROVE  Phase(c)'
<1>1. Served(c) /\ ~AuditAwaited(c)  BY SavesOne
<1>2. PICK outcome \in {"saved", "lost"} :
        audit'[c] = <<[audit[c][1] EXCEPT !.state = outcome]>>
  BY SavesOne
<1>3. UNCHANGED <<ask, pc, defers, panic, ctx, reply, hijacked, err>>
  BY DEF Save, Saves
<1>4. Txn(c)' = Txn(c)  BY <1>3 DEF Txn
<1>5. audit[c][1] \in EntryOf
  <2>1. audit[c] \in Seq(EntryOf) /\ Len(audit[c]) = 1
    BY <1>1, FunctionsHere DEF Functions, Served
  <2> QED  BY <2>1
<1>6. /\ Len(audit'[c]) = 1 /\ audit'[c][1].status = audit[c][1].status
  BY <1>2, <1>5 DEF EntryOf
<1>7. Told(c, audit[c][1])'
  <2>1. Told(c, audit[c][1])  BY <1>1 DEF Served
  <2> QED  BY <1>3, <1>4, <1>6, <2>1 DEF Told
<1>8. ~AuditAwaited(c)' /\ (RecoveryAwaited(c)' <=> RecoveryAwaited(c))
  BY <1>1, <1>3 DEF AuditAwaited, RecoveryAwaited
<1>9. Answered(c)'
  BY <1>1, <1>3, <1>8 DEF Served, Answered, Recorded, Framed, Returned
<1> QED  BY <1>1, <1>3, <1>4, <1>6, <1>7, <1>8, <1>9 DEF Served, Phase
-----------------------------------------------------------------------------
\* Where control is tells the phase.
LEMMA PhaseIs ==
    ASSUME NEW c \in Call, Phase(c)
    PROVE  /\ pc[c] = "arrived" => Fresh(c)
           /\ pc[c] = "handler" => Served(c)
           /\ defers[c] # << >> /\ Head(defers[c]) = "audit" => Served(c)
           /\ defers[c] # << >> /\ Head(defers[c]) = "recover" =>
                Served(c) \/ (Refused(c) /\ defers[c] = <<"recover">> /\ panic[c] = "none")
<1>1. Head(<<"recover">>) = "recover"  OBVIOUS
<1> QED  BY <1>1 DEF Phase, Fresh, Refused, Served

\* The deferred recovery of a call that was refused has nothing to do.
LEMMA RefusedRecovers ==
    ASSUME TypeOK, NEW c \in Call, Refused(c), defers[c] = <<"recover">>,
           panic[c] = "none", Recovers(c)
    PROVE  Refused(c)'
<1>1. Tail(<<"recover">>) = << >>  OBVIOUS
<1>2. /\ pc[c] = "unwinding" /\ pc'[c] = pc[c] /\ defers'[c] = << >>
      /\ panic'[c] = "none" /\ ctx'[c] = ctx[c] /\ audit'[c] = audit[c]
  BY <1>1, FunctionsHere DEF Functions, Recovers, RunsDeferred
<1> QED  BY <1>2 DEF Refused

LEMMA AppStatusIs == AppStatus \subseteq Nat \ {0}
BY CallsAssumption

LEMMA GraphQLPhase ==
    ASSUME TypeOK, NEW c \in Call, Phase(c), GraphQL(c), UNCHANGED <<hijacked, err>>
    PROVE  Phase(c)'
<1>1. reply \in [Call -> Response] /\ reply[c] \in Response  BY DEF TypeOK
<1>2. ask[c].proto = "GraphQL" /\ ask[c].proto \notin Grpcs
  BY DEF GraphQL, GraphQLEnters, GraphQLHandler, GraphQLLogs, GraphQLRecovers,
     Arrives, InHandler, Grpcs
<1>3. CASE GraphQLEnters(c)
  <2>1. Fresh(c)  BY <1>3, PhaseIs DEF GraphQLEnters, Arrives
  <2>2. CASE TooDeep(ask[c])
    <3>1. ReturnEarly(c, <<"recover">>)  BY <1>3, <2>2 DEF GraphQLEnters
    <3> QED  BY <2>1, <3>1, RefusesPhase DEF Phase
  <2>3. CASE ~TooDeep(ask[c])
    <3>1. CallHandler(c, <<"audit", "recover">>, Txn(c)) /\ UNCHANGED reply
      BY <1>3, <2>3 DEF GraphQLEnters
    <3>2. Passes(ask[c]) /\ Registered(ask[c]) = <<"audit", "recover">>
      BY <1>2, <2>3 DEF Passes, Registered
    <3> QED  BY <2>1, <3>1, <3>2, CallsPhase DEF Phase
  <2> QED  BY <2>2, <2>3
<1>4. CASE GraphQLHandler(c)
  <2>1. pc[c] = "handler" /\ Served(c)
    BY <1>4, PhaseIs DEF GraphQLHandler, InHandler
  <2>2. reply[c].code = reply[c].rec
    <3>1. defers[c] = <<"audit", "recover">>  BY <1>2, <2>1 DEF Served, Registered
    <3>2. RecoveryAwaited(c)  BY <3>1, AwaitsCases DEF RecoveryAwaited
    <3> QED  BY <1>2, <2>1, <3>2 DEF Served, Answered, Recorded
  <2>3. reply'[c] \in Response /\ reply'[c].code = reply'[c].rec
    <3>1. \/ \E status \in AppStatus : reply'[c] = RecorderHeader(reply[c], status)
          \/ reply'[c] = RecorderWrite(reply[c], "app")
          \/ reply'[c] = reply[c]
      BY <1>1, <1>4 DEF GraphQLHandler
    <3>2. ASSUME NEW status \in AppStatus
          PROVE  LET v == RecorderHeader(reply[c], status) IN v \in Response /\ v.code = v.rec
      BY <1>1, <2>2, AppStatusIs, RecorderStatus
    <3>3. LET v == RecorderWrite(reply[c], "app") IN v \in Response /\ v.code = v.rec
      BY <1>1, <2>2, RecorderWriteStatus
    <3> QED  BY <1>1, <2>2, <3>1, <3>2, <3>3
  <2>4. UNCHANGED callVars \/ HandlerReturns(c) \/ Panics(c)
    BY <1>4 DEF GraphQLHandler
  <2> QED  BY <1>2, <2>1, <2>3, <2>4, HandlerPhase DEF Phase
<1>5. CASE GraphQLLogs(c)
  <2>1. Logs(c, reply[c].rec) /\ UNCHANGED reply
    BY <1>5 DEF GraphQLLogs
  <2>2. Served(c)  BY <2>1, PhaseIs DEF Logs, RunsDeferred
  <2>3. Told(c, [status |-> reply[c].rec, txn |-> Txn(c), ip |-> ip[c],
                 state |-> "pending"])
    BY <1>2 DEF Told
  <2> QED  BY <2>1, <2>2, <2>3, LogsPhase DEF Phase
<1>6. CASE GraphQLRecovers(c)
  <2>1. Recovers(c)  BY <1>6 DEF GraphQLRecovers
  <2>2. CASE Refused(c) /\ defers[c] = <<"recover">> /\ panic[c] = "none"
    BY <2>1, <2>2, RefusedRecovers DEF Phase
  <2>3. CASE Served(c)
    <3>1. reply'[c] = IF panic[c] = "flying" THEN RawError(reply[c], 500) ELSE reply[c]
      BY <1>1, <1>6 DEF GraphQLRecovers
    <3>2. /\ RawError(reply[c], 500).rec = reply[c].rec
          /\ RawError(reply[c], 500).code = IF reply[c].code = 0 THEN 500 ELSE reply[c].code
      BY <1>1, RawErrorStatus DEF Informational
    <3>3. /\ reply'[c].rec = reply[c].rec
          /\ reply'[c].code = IF panic[c] = "flying" /\ reply[c].code = 0 THEN 500
                              ELSE reply[c].code
      BY <3>1, <3>2
    <3> QED  BY <1>2, <2>1, <2>3, <3>3, RecoversPhase DEF Phase
  <2> QED  BY <2>1, <2>2, <2>3, PhaseIs DEF Recovers, RunsDeferred
<1> QED  BY <1>3, <1>4, <1>5, <1>6 DEF GraphQL

LEMMA WebSocketPhase ==
    ASSUME TypeOK, NEW c \in Call, Phase(c), WebSocket(c), UNCHANGED err
    PROVE  Phase(c)'
<1>1. reply \in [Call -> Response] /\ reply[c] \in Response /\ hijacked \in [Call -> BOOLEAN]
  BY DEF TypeOK
<1>2. /\ ask[c].proto = "WebSocket" /\ ask[c].proto \notin Grpcs
      /\ ask[c].auth \in {"nil", "accepts", "rejects", "panics"}
  BY TypesOfCall DEF WebSocket, WebSocketEnters, WebSocketHandler, WebSocketLogs,
     WebSocketRecovers, Arrives, InHandler, Grpcs, CallTypes, AskType
<1>3. CASE WebSocketEnters(c)
  <2>1. Fresh(c)  BY <1>3, PhaseIs DEF WebSocketEnters, Arrives
  <2>2. CASE ~ask[c].upgrade \/ ask[c].auth = "rejects"
    <3>1. ReturnEarly(c, << >>)  BY <1>3, <2>2 DEF WebSocketEnters
    <3> QED  BY <2>1, <3>1, RefusesPhase DEF Phase
  <2>3. CASE ask[c].upgrade /\ ask[c].auth \in {"nil", "accepts"}
    <3>1. /\ CallHandler(c, <<"audit", "recover">>, Txn(c))
          /\ UNCHANGED <<reply, hijacked, err>>
      BY <1>3, <2>3 DEF WebSocketEnters
    <3>2. Passes(ask[c]) /\ Registered(ask[c]) = <<"audit", "recover">>
      BY <1>2, <2>3 DEF Passes, Registered
    <3> QED  BY <2>1, <3>1, <3>2, CallsPhase DEF Phase
  <2>4. CASE ask[c].upgrade /\ ask[c].auth = "panics"
    <3>1. Panics(c)  BY <1>3, <2>4 DEF WebSocketEnters
    <3>2. /\ pc'[c] = "unwinding" /\ panic'[c] = "flying" /\ defers'[c] = << >>
          /\ ctx'[c] = NoTxn /\ audit'[c] = << >> /\ ask'[c] = ask[c]
      BY <2>1, <3>1, FunctionsHere DEF Functions, Panics, Fresh
    <3>3. Refused(c)'  BY <1>2, <2>4, <3>2 DEF Refused
    <3> QED  BY <3>3 DEF Phase
  <2> QED  BY <1>2, <2>2, <2>3, <2>4
<1>4. CASE WebSocketHandler(c)
  <2>1. pc[c] = "handler" /\ Served(c)
    BY <1>4, PhaseIs DEF WebSocketHandler, InHandler
  <2>2. Spoke(reply[c], hijacked[c]) \/ Silent(reply[c], hijacked[c])
    BY <1>2, <2>1 DEF Served, Answered, Framed
  <2> DEFINE Fine == Spoke(reply'[c], hijacked'[c]) \/ Silent(reply'[c], hijacked'[c])
  <2>3. /\ UNCHANGED callVars \/ HandlerReturns(c) \/ Panics(c)
        /\ reply'[c] \in Response /\ Fine
    <3>1. ASSUME NEW status \in AppStatus \cup {101}, WsWriteHeader(c, status)
          PROVE  reply'[c] \in Response /\ Fine
      <4>1. /\ reply'[c] = AppRawHeader(reply[c], status)
            /\ hijacked'[c] = (hijacked[c] \/ status = 101)
        BY <1>1, <3>1 DEF WsWriteHeader
      <4>2. status \in Nat \ {0} /\ hijacked[c] \in BOOLEAN  BY <1>1, AppStatusIs
      <4> QED  BY <1>1, <2>2, <4>1, <4>2, SpeaksByStatus
    <3>2. CASE reply' = [reply EXCEPT ![c] = AppRawWrite(@)] /\ UNCHANGED <<callVars, hijacked>>
      <4>1. reply'[c] = AppRawWrite(reply[c]) /\ hijacked'[c] = hijacked[c]
        BY <1>1, <3>2
      <4>2. hijacked[c] \in BOOLEAN  BY <1>1
      <4> QED  BY <1>1, <2>2, <3>2, <4>1, <4>2, SpeaksByWrite
    <3>3. CASE (HandlerReturns(c) \/ Panics(c)) /\ UNCHANGED <<reply, hijacked>>
      BY <1>1, <2>2, <3>3
    <3> HIDE DEF Fine
    <3> QED  BY <1>4, <3>1, <3>2, <3>3 DEF WebSocketHandler
  <2> QED  BY <1>2, <2>1, <2>3, HandlerPhase DEF Phase
<1>5. CASE WebSocketLogs(c)
  <2>1. Logs(c, IF hijacked[c] THEN 101 ELSE 400) /\ UNCHANGED <<reply, hijacked>>
    BY <1>5 DEF WebSocketLogs
  <2>2. Served(c)  BY <2>1, PhaseIs DEF Logs, RunsDeferred
  <2>3. Told(c, [status |-> IF hijacked[c] THEN 101 ELSE 400, txn |-> Txn(c),
                 ip |-> ip[c], state |-> "pending"])
    BY <1>2 DEF Told
  <2> QED  BY <2>1, <2>2, <2>3, LogsPhase DEF Phase
<1>6. CASE WebSocketRecovers(c)
  <2>1. Recovers(c) /\ UNCHANGED <<reply, hijacked>>  BY <1>6 DEF WebSocketRecovers
  <2>2. CASE Refused(c) /\ defers[c] = <<"recover">> /\ panic[c] = "none"
    BY <2>1, <2>2, RefusedRecovers DEF Phase
  <2>3. CASE Served(c)  BY <1>2, <2>1, <2>3, RecoversPhase DEF Phase
  <2> QED  BY <2>1, <2>2, <2>3, PhaseIs DEF Recovers, RunsDeferred
<1> QED  BY <1>3, <1>4, <1>5, <1>6 DEF WebSocket

LEMMA GrpcPhase ==
    ASSUME TypeOK, NEW c \in Call, Phase(c), Grpc(c), UNCHANGED <<reply, hijacked>>
    PROVE  Phase(c)'
<1>1. reply[c] \in Response /\ err \in [Call -> Error]  BY DEF TypeOK
<1>2. ask[c].proto \in Grpcs /\ ask[c].proto \notin {"GraphQL", "WebSocket"}
  BY DEF Grpc, UnaryEnters, StreamEnters, GrpcHandler, GrpcRecovers, GrpcLogs,
     Arrives, InHandler, Grpcs
<1>3. CASE UnaryEnters(c) \/ StreamEnters(c)
  <2>1. Fresh(c)  BY <1>3, PhaseIs DEF UnaryEnters, StreamEnters, Arrives
  <2>2. CallHandler(c, <<"recover", "audit">>, Txn(c)) /\ UNCHANGED <<reply, hijacked, err>>
    BY <1>3 DEF UnaryEnters, StreamEnters, UnaryDefers, StreamDefers
  <2>3. Passes(ask[c]) /\ Registered(ask[c]) = <<"recover", "audit">>
    BY <1>2 DEF Passes, Registered
  <2> QED  BY <2>1, <2>2, <2>3, CallsPhase DEF Phase
<1>4. CASE GrpcHandler(c)
  <2>1. pc[c] = "handler" /\ Served(c)  BY <1>4, PhaseIs DEF GrpcHandler, InHandler
  <2> DEFINE Errors == {NoError} \cup {StatusError(k) : k \in 1..16}
                         \cup {[kind |-> k, code |-> 0] : k \in {"context", "plain"}}
  <2>2. err[c] \in Errors  BY <1>2, <2>1 DEF Served, Answered, Returned
  <2>3. HandlerError \subseteq Errors  BY GrpcAssumption DEF HandlerError
  <2> HIDE DEF Errors
  <2>4. err'[c] \in Errors  BY <1>1, <1>4, <2>2, <2>3 DEF GrpcHandler
  <2>5. HandlerReturns(c) \/ Panics(c)  BY <1>4 DEF GrpcHandler
  <2> QED  BY <1>1, <1>2, <2>1, <2>4, <2>5, HandlerPhase DEF Phase, Errors
<1>5. CASE GrpcRecovers(c)
  <2>1. /\ Recovers(c)
        /\ err'[c] = IF panic[c] = "flying" THEN StatusError(Internal) ELSE err[c]
    BY <1>1, <1>5 DEF GrpcRecovers
  <2>2. CASE Refused(c) /\ defers[c] = <<"recover">> /\ panic[c] = "none"
    BY <2>1, <2>2, RefusedRecovers DEF Phase
  <2>3. CASE Served(c)  BY <1>2, <2>1, <2>3, RecoversPhase DEF Phase
  <2> QED  BY <2>1, <2>2, <2>3, PhaseIs DEF Recovers, RunsDeferred
<1>6. CASE GrpcLogs(c)
  <2>1. Logs(c, GrpcStatus(err[c])) /\ UNCHANGED err
    BY <1>6 DEF GrpcLogs
  <2>2. Served(c)  BY <2>1, PhaseIs DEF Logs, RunsDeferred
  <2>3. Told(c, [status |-> GrpcStatus(err[c]), txn |-> Txn(c), ip |-> ip[c],
                 state |-> "pending"])
    BY <1>2 DEF Told
  <2> QED  BY <2>1, <2>2, <2>3, LogsPhase DEF Phase
<1> QED  BY <1>3, <1>4, <1>5, <1>6 DEF Grpc

LEMMA InitCalls == Init => CallInv
<1> SUFFICES ASSUME Init PROVE CallInv  OBVIOUS
<1>1. TypeOK  BY InitTypes
<1>2. ASSUME NEW c \in Call PROVE Fresh(c)  BY DEF Init, CallsInit, Fresh
<1> QED  BY <1>1, <1>2 DEF CallInv, Phase

LEMMA NextCalls == CallInv /\ [Next]_vars => CallInv'
<1> SUFFICES ASSUME CallInv, [Next]_vars PROVE CallInv'  OBVIOUS
<1>1. TypeOK /\ \A d \in Call : Phase(d)  BY DEF CallInv
<1>2. TypeOK'  BY <1>1, NextTypes
<1>3. ASSUME NEW c \in Call, Handle(c) \/ Save(c), NEW d \in Call
      PROVE  Phase(d)'
  <2>1. CASE d # c  BY <1>1, <1>3, <2>1, OthersSame, SamePhase
  <2>2. CASE d = c
    BY <1>1, <1>3, <2>2, GraphQLPhase, WebSocketPhase, GrpcPhase, FinishPhase, SavePhase
    DEF Handle
  <2> QED  BY <2>1, <2>2
<1>4. CASE UNCHANGED vars
  <2>1. \A d \in Call : Same(d)  BY <1>4 DEF Same, vars, callVars
  <2> QED  BY <1>1, <1>2, <2>1, SamePhase DEF CallInv
<1> QED  BY <1>2, <1>3, <1>4 DEF CallInv, Next, Settled

LEMMA CallsInductive == Spec => []CallInv
BY InitCalls, NextCalls, PTL DEF Spec
-----------------------------------------------------------------------------
(***************************************************************************)
(* What the invariant says.                                                *)
(***************************************************************************)
\* A document of no tokens is at depth -1.
LEMMA EmptyDepth == GraphqlQueryDepth(<< >>) = -1
<1>1. << >> \in Seq(STRING) /\ Len(<< >>) = 0  OBVIOUS
<1>2. BraceDepth(<< >>)[0] = 0  BY <1>1, BraceDepthStep
<1>3. Depths(<< >>) = {0}  BY <1>1, <1>2 DEF Depths
<1>4. Greatest({0}) = 0
  <2>1. {0} \subseteq Int /\ {0} # {} /\ \A s \in {0} : s <= 0  OBVIOUS
  <2> QED  BY <2>1, GreatestIs
<1>5. GraphqlQueryDepth(<< >>) = Greatest(Depths(<< >>)) - 1
  BY DEF GraphqlQueryDepth, Depths
<1> QED  BY <1>3, <1>4, <1>5

\* What passes the depth limit is within it.
LEMMA PassesWithin ==
    ASSUME NEW a \in AskType, Passes(a), a.proto = "GraphQL", a.maxDepth > 0,
           ClosesTruly(Query(a))
    PROVE  Nesting(Query(a)) <= a.maxDepth
<1>1. Query(a) \in Seq(STRING) /\ a.maxDepth \in Nat
  <2>1. a.query \in Seq(STRING) /\ a.maxDepth \in Nat  BY DEF AskType
  <2>2. << >> \in Seq(STRING)  OBVIOUS
  <2> QED  BY <2>1, <2>2 DEF Query
<1>2. /\ Nesting(Query(a)) \in Int /\ GraphqlQueryDepth(Query(a)) \in Int
      /\ Nesting(Query(a)) <= GraphqlQueryDepth(Query(a))
  BY <1>1, DepthSafe
<1>3. GraphqlQueryDepth(Query(a)) <= a.maxDepth
  <2>1. CASE Query(a) = << >>  BY <1>1, <2>1, EmptyDepth
  <2>2. CASE Query(a) # << >>
    <3>1. ~(GraphqlQueryDepth(Query(a)) > a.maxDepth)
      BY <2>2 DEF Passes, TooDeep
    <3> QED  BY <1>1, <1>2, <3>1
  <2> QED  BY <2>1, <2>2
<1> QED  BY <1>1, <1>2, <1>3

\* An entry there is, is the one a served call made.
LEMMA EntryIs ==
    ASSUME CallInv, NEW c \in Call, NEW n \in DOMAIN audit[c]
    PROVE  /\ Served(c) /\ n = 1 /\ ~AuditAwaited(c) /\ Told(c, audit[c][1])
<1>1. Phase(c) /\ audit \in [Call -> Seq(EntryOf)]
  BY AuditType DEF CallInv
<1>2. Served(c)  BY <1>1 DEF Phase, Fresh, Refused
<1>3. ~AuditAwaited(c)  BY <1>2 DEF Served
<1>4. Len(audit[c]) = 1 /\ Told(c, audit[c][1])  BY <1>2, <1>3 DEF Served
<1> QED  BY <1>1, <1>2, <1>3, <1>4

\* No panic is in the air once a gRPC call's entry is made: it was caught first.
LEMMA GrpcSettled ==
    ASSUME TypeOK, NEW c \in Call, Served(c), ask[c].proto \in Grpcs, ~AuditAwaited(c)
    PROVE  panic[c] \in {"none", "caught"}
<1>1. defers[c] = << >>
  BY AwaitsCases DEF Served, Registered, Last, AuditAwaited
<1>2. ~RecoveryAwaited(c)  BY <1>1, AwaitsCases DEF RecoveryAwaited
<1> QED  BY <1>2, FunctionsHere DEF Functions, Served

LEMMA GatedFacts == CallInv => HandlersGated
<1> SUFFICES ASSUME CallInv, NEW c \in Call, pc[c] = "handler"
             PROVE  /\ ask[c].proto = "WebSocket" =>
                          /\ ask[c].upgrade
                          /\ ask[c].auth \notin {"rejects", "panics"}
                    /\ /\ ask[c].proto = "GraphQL" /\ ask[c].maxDepth > 0
                       /\ ClosesTruly(Query(ask[c]))
                       => Nesting(Query(ask[c])) <= ask[c].maxDepth
  BY DEF HandlersGated
<1>1. Passes(ask[c])  BY PhaseIs DEF CallInv, Served
<1>2. ask[c] \in AskType  BY TypesOfCall DEF CallInv, CallTypes
<1> QED  BY <1>1, <1>2, PassesWithin DEF Passes

LEMMA GrpcFacts == CallInv => GrpcOutcome
<1> SUFFICES ASSUME CallInv, NEW c \in Call, NEW n \in DOMAIN audit[c], ask[c].proto \in Grpcs
             PROVE  LET status == audit[c][n].status
                        code   == ClientCode(err[c])
                    IN  /\ (status = 200) <=> (code = 0)
                        /\ status \notin {200, 500} => status = code
                        /\ panic[c] # "none" => status = Internal /\ code = Internal
  BY DEF GrpcOutcome
<1>1. Served(c) /\ n = 1 /\ ~AuditAwaited(c) /\ Told(c, audit[c][1])  BY EntryIs
<1>2. audit[c][n].status = GrpcStatus(err[c])  BY <1>1 DEF Told
<1>3. panic[c] \in {"none", "caught"}  BY <1>1, GrpcSettled DEF CallInv
<1>4. Returned(c)  BY <1>1 DEF Served, Answered
<1>5. CASE err[c] = NoError
  BY <1>2, <1>3, <1>4, <1>5 DEF Returned, NoError, StatusError, GrpcStatus, ClientCode
<1>6. CASE \E k \in 1..16 : err[c] = StatusError(k)
  <2>1. PICK k \in 1..16 : err[c] = StatusError(k)  BY <1>6
  <2>2. GrpcStatus(err[c]) = k /\ ClientCode(err[c]) = k
    BY <2>1 DEF StatusError, GrpcStatus, ClientCode
  <2>3. panic[c] # "none" => k = Internal
    BY <1>3, <1>4, <2>1 DEF Returned, StatusError
  <2> QED  BY <1>2, <2>1, <2>2, <2>3
<1>7. CASE \E k \in {"context", "plain"} : err[c] = [kind |-> k, code |-> 0]
  <2>1. PICK k \in {"context", "plain"} : err[c] = [kind |-> k, code |-> 0]  BY <1>7
  <2>2. GrpcStatus(err[c]) = 500 /\ ClientCode(err[c]) \in {4, 2}
    BY <2>1 DEF GrpcStatus, ClientCode
  <2>3. panic[c] = "none"  BY <1>3, <1>4, <2>1 DEF Returned, StatusError
  <2> QED  BY <1>2, <2>2, <2>3
<1> QED  BY <1>4, <1>5, <1>6, <1>7 DEF Returned

LEMMA HttpFacts == CallInv => HttpOutcome
<1> SUFFICES ASSUME CallInv, NEW c \in Call, NEW n \in DOMAIN audit[c]
             PROVE  LET status == audit[c][n].status IN
                    /\ ask[c].proto = "GraphQL" =>
                          \/ status # 0 /\ status = reply[c].code
                          \/ status = 0 /\ reply[c].code \in
                                {0, IF panic[c] = "none" THEN 200 ELSE 500}
                    /\ ask[c].proto = "WebSocket" =>
                          /\ reply[c].code = 101 => status = 101
                          /\ status = 101 => reply[c].by = "app"
  BY DEF HttpOutcome
<1>1. Served(c) /\ n = 1 /\ Told(c, audit[c][1])  BY EntryIs
<1>2. CASE ask[c].proto = "GraphQL"
  BY <1>1, <1>2 DEF Told, Served, Answered, Recorded
<1>3. CASE ask[c].proto = "WebSocket"
  <2>1. Framed(c)  BY <1>1, <1>3 DEF Served, Answered
  <2>2. audit[c][n].status = IF hijacked[c] THEN 101 ELSE 400
    BY <1>1, <1>3 DEF Told
  <2> QED  BY <1>3, <2>1, <2>2 DEF Framed, Spoke, Silent
<1> QED  BY <1>2, <1>3

LEMMA PanicFacts == CallInv => PanicsStayInside
<1> SUFFICES ASSUME CallInv, NEW c \in Call
             PROVE  /\ pc[c] = "aborted" =>
                          ask[c].proto = "WebSocket" /\ ask[c].auth = "panics" /\ ctx[c] = NoTxn
                    /\ pc[c] = "done" /\ panic[c] = "caught" =>
                          CASE ask[c].proto = "GraphQL" -> reply[c].code \in {500, reply[c].rec}
                            [] ask[c].proto \in Grpcs  -> err[c] = StatusError(Internal)
                            [] ask[c].proto = "WebSocket" ->
                                 reply[c].by = "app"
                                   \/ (reply[c].code = 200 /\ reply[c].body = {})
  BY DEF PanicsStayInside
<1>1. Phase(c)  BY DEF CallInv
<1>2. CASE pc[c] = "aborted"
  BY <1>1, <1>2 DEF Phase, Fresh, Refused, Served
<1>3. CASE pc[c] = "done" /\ panic[c] = "caught"
  <2>1. Answered(c)  BY <1>1, <1>3 DEF Phase, Fresh, Refused, Served
  <2>2. ask[c].proto = "GraphQL" => reply[c].code \in {500, reply[c].rec}
    BY <1>3, <2>1 DEF Answered, Recorded
  <2>3. ask[c].proto \in Grpcs => err[c] = StatusError(Internal)
    BY <1>3, <2>1 DEF Answered, Returned
  <2>4. ask[c].proto = "WebSocket" =>
          reply[c].by = "app" \/ (reply[c].code = 200 /\ reply[c].body = {})
    BY <1>3, <2>1 DEF Answered, Framed, Spoke
  <2>5. ask[c].proto \in {"GraphQL", "WebSocket"} \cup Grpcs
    BY TypesOfCall DEF CallInv, CallTypes, AskType, Protocol, Grpcs
  <2> QED  BY <1>3, <2>2, <2>3, <2>4, <2>5 DEF Grpcs
<1> QED  BY <1>2, <1>3

\* Every variable has its type, however many calls there are (src/graphql.go,
\* src/ws.go, src/grpc.go).
THEOREM ProtocolTypes == Spec => []TypeOK
BY CallsInductive, PTL DEF CallInv

\* No handler is called that the upgrade check, the authenticator or the depth
\* limit ought to have kept the call from, for queries of any length
\* (WebSocketChain, src/ws.go; GraphQLChain, src/graphql.go).
THEOREM ProtocolsGated == Spec => []HandlersGated
BY CallsInductive, GatedFacts, PTL

\* The entry of a gRPC call has the client's code, a panic included (the order of
\* the deferred functions of src/grpc.go).
THEOREM GrpcTold == Spec => []GrpcOutcome
BY CallsInductive, GrpcFacts, PTL

\* The entry of a GraphQL call has the client's status unless the handler stated
\* none; an upgraded connection is in the trail as upgraded, and one that is in
\* the trail as upgraded had its status from the handler (src/graphql.go,
\* src/ws.go).
THEOREM HttpTold == Spec => []HttpOutcome
BY CallsInductive, HttpFacts, PTL

\* Only an authenticator's panic gets to the server.  A GraphQL or gRPC handler's
\* is answered with an error, unless the handler had stated a status; the client
\* of a WebSocket handler has what the handler sent, or an empty 200 that does
\* not tell it of the panic (the recoveries of src/graphql.go, src/ws.go and
\* src/grpc.go).
THEOREM PanicsCaught == Spec => []PanicsStayInside
BY CallsInductive, PanicFacts, PTL
-----------------------------------------------------------------------------
(***************************************************************************)
(* The refinement.                                                         *)
(***************************************************************************)
StageOf == [c \in Call |-> Stage(c)]

StatesOf(c) == [n \in 1..Len(audit[c]) |-> audit[c][n].state]

TrailOf == [c \in Call |-> StatesOf(c)]

\* The stage, by control: before anything, with the entry registered, or not.
LEMMA StageIs ==
    ASSUME NEW c \in Call
    PROVE  /\ pc[c] = "arrived" => Stage(c) = "outside"
           /\ pc[c] # "arrived" => Stage(c) \in {"inside", "left"}
BY DEF Stage

LEMMA StageIsNext ==
    ASSUME NEW c \in Call
    PROVE  /\ pc'[c] = "arrived" => Stage(c)' = "outside"
           /\ pc'[c] # "arrived" => Stage(c)' \in {"inside", "left"}
BY DEF Stage

\* What is left to run after anything but the entry has the entry, or not, as before.
LEMMA StageStays ==
    ASSUME TypeOK, NEW c \in Call, pc[c] # "arrived", pc'[c] # "arrived",
           \/ defers'[c] = defers[c]
           \/ /\ defers[c] # << >> /\ Head(defers[c]) = "recover"
              /\ defers'[c] = Tail(defers[c])
    PROVE  Stage(c)' = Stage(c)
<1>1. CASE defers'[c] = defers[c]  BY <1>1 DEF Stage
<1>2. CASE /\ defers[c] # << >> /\ Head(defers[c]) = "recover"
           /\ defers'[c] = Tail(defers[c])
  <2> DEFINE f == defers[c]
  <2>1. f \in Seq({"audit", "recover"}) /\ f # << >> /\ f[1] = "recover"
    BY <1>2, FunctionsHere DEF Functions
  <2>2. ASSUME NEW i \in DOMAIN f, f[i] = "audit"
        PROVE  i - 1 \in DOMAIN Tail(f) /\ Tail(f)[i - 1] = "audit"
    <3>1. i # 1 /\ i \in 1..Len(f)  BY <2>1, <2>2
    <3> HIDE DEF f
    <3>2. i - 1 \in 1..Len(Tail(f))  BY <2>1, <3>1
    <3> QED  BY <2>1, <2>2, <3>1, <3>2
  <2>3. ASSUME NEW i \in DOMAIN Tail(f), Tail(f)[i] = "audit"
        PROVE  i + 1 \in DOMAIN f /\ f[i + 1] = "audit"
    <3> HIDE DEF f
    <3>1. i \in 1..Len(Tail(f)) /\ Len(Tail(f)) = Len(f) - 1  BY <2>1, <2>3
    <3> QED  BY <2>1, <2>3, <3>1
  <2>4. (\E i \in DOMAIN f : f[i] = "audit")
          <=> (\E i \in DOMAIN Tail(f) : Tail(f)[i] = "audit")
    BY <2>2, <2>3
  <2> QED  BY <1>2, <2>4 DEF Stage
<1> QED  BY <1>1, <1>2

\* A step of a goroutine, as the trail sees it: it decides whether to let the
\* call in, goes on, or leaves the entry.
Decides(c) == pc[c] = "arrived" /\ pc'[c] # "arrived" /\ audit' = audit

GoesOn(c) == Stage(c)' = Stage(c) /\ audit' = audit

LeavesEntry(c) == \E status : Logs(c, status)

LEMMA HandleTrail ==
    ASSUME TypeOK, NEW c \in Call, Handle(c)
    PROVE  Decides(c) \/ GoesOn(c) \/ LeavesEntry(c)
<1>1. Functions  BY FunctionsHere
<1>2. ASSUME pc[c] = "arrived",
             (\E f, t : CallHandler(c, f, t)) \/ (\E f : ReturnEarly(c, f)) \/ Panics(c)
      PROVE  Decides(c)
  <2>1. pc'[c] \in {"handler", "unwinding"}
    BY <1>1, <1>2 DEF Functions, CallHandler, ReturnEarly, Panics
  <2> QED  BY <1>2, <2>1 DEF Decides, CallHandler, ReturnEarly, Panics
<1>3. ASSUME pc[c] = "handler", UNCHANGED callVars \/ HandlerReturns(c) \/ Panics(c)
      PROVE  GoesOn(c)
  <2>1. pc'[c] \in {"handler", "unwinding"} /\ defers'[c] = defers[c] /\ audit' = audit
    BY <1>1, <1>3 DEF Functions, callVars, HandlerReturns, Panics
  <2> QED  BY <1>3, <2>1, StageStays DEF GoesOn
<1>4. ASSUME Recovers(c) PROVE GoesOn(c)
  <2>1. /\ pc[c] = "unwinding" /\ pc'[c] = pc[c] /\ audit' = audit
        /\ defers[c] # << >> /\ Head(defers[c]) = "recover"
        /\ defers'[c] = Tail(defers[c])
    BY <1>1, <1>4 DEF Functions, Recovers, RunsDeferred
  <2> QED  BY <2>1, StageStays DEF GoesOn
<1>5. ASSUME Leaves(c) PROVE GoesOn(c)
  <2>1. /\ pc[c] = "unwinding" /\ pc'[c] \in {"done", "aborted"} /\ audit' = audit
        /\ defers'[c] = defers[c]
    BY <1>1, <1>5 DEF Functions, Leaves
  <2> QED  BY <2>1, StageStays DEF GoesOn
<1>6. CASE GraphQL(c)
  <2>1. GraphQLEnters(c) => Decides(c)  BY <1>2 DEF GraphQLEnters, Arrives
  <2>2. GraphQLHandler(c) => GoesOn(c)  BY <1>3 DEF GraphQLHandler, InHandler
  <2> QED  BY <1>4, <1>6, <2>1, <2>2
           DEF GraphQL, GraphQLLogs, GraphQLRecovers, LeavesEntry
<1>7. CASE WebSocket(c)
  <2>1. ask[c].auth \in {"nil", "accepts", "rejects", "panics"}
    BY TypesOfCall DEF CallTypes, AskType
  <2>2. WebSocketEnters(c) => Decides(c)
    BY <1>2, <2>1 DEF WebSocketEnters, Arrives
  <2>3. WebSocketHandler(c) => GoesOn(c)  BY <1>3 DEF WebSocketHandler, InHandler
  <2> QED  BY <1>4, <1>7, <2>2, <2>3
           DEF WebSocket, WebSocketLogs, WebSocketRecovers, LeavesEntry
<1>8. CASE Grpc(c)
  <2>1. UnaryEnters(c) \/ StreamEnters(c) => Decides(c)
    BY <1>2 DEF UnaryEnters, StreamEnters, Arrives
  <2>2. GrpcHandler(c) => GoesOn(c)  BY <1>3 DEF GrpcHandler, InHandler
  <2> QED  BY <1>4, <1>8, <2>1, <2>2 DEF Grpc, GrpcRecovers, GrpcLogs, LeavesEntry
<1>9. CASE Finish(c)  BY <1>5, <1>9 DEF Finish
<1> QED  BY <1>6, <1>7, <1>8, <1>9 DEF Handle

\* The others stay where they are, so c's move is the whole of it.
LEMMA OneStage ==
    ASSUME TypeOK, NEW c \in Call, Handle(c) \/ Save(c)
    PROVE  /\ StageOf' = [StageOf EXCEPT ![c] = Stage(c)']
           /\ TrailOf' = [TrailOf EXCEPT ![c] = StatesOf(c)']
<1>1. ASSUME NEW d \in Call, d # c
      PROVE  Stage(d)' = Stage(d) /\ StatesOf(d)' = StatesOf(d)
  <2>1. Same(d)  BY <1>1, OthersSame
  <2> QED  BY <2>1 DEF Same, Stage, StatesOf
<1>2. \A d \in Call \ {c} : Stage(d)' = Stage(d) /\ StatesOf(d)' = StatesOf(d)
  BY <1>1
<1>3. StageOf' = [StageOf EXCEPT ![c] = Stage(c)']  BY <1>2 DEF StageOf
<1>4. TrailOf' = [TrailOf EXCEPT ![c] = StatesOf(c)']
  <2> DEFINE t == StatesOf(c)'
  <2>1. StatesOf(c)' = t  OBVIOUS
  <2> HIDE DEF t
  <2> QED  BY <1>2, <2>1 DEF TrailOf
<1> QED  BY <1>3, <1>4

\* The trail of a call without an entry, and with one.
LEMMA StatesOfNone ==
    ASSUME NEW c \in Call
    PROVE  /\ audit[c] = << >> => StatesOf(c) = << >>
           /\ \A e : audit[c] = <<e>> => StatesOf(c) = <<e.state>>
           /\ \A e : audit'[c] = <<e>> => StatesOf(c)' = <<e.state>>
<1>1. audit[c] = << >> => StatesOf(c) = << >>  BY DEF StatesOf
<1>2. ASSUME NEW e, audit[c] = <<e>> PROVE StatesOf(c) = <<e.state>>
  BY <1>2 DEF StatesOf
<1>3. ASSUME NEW e, audit'[c] = <<e>> PROVE StatesOf(c)' = <<e.state>>
  BY <1>3 DEF StatesOf
<1> QED  BY <1>1, <1>2, <1>3

LEMMA ProtocolTrailInit == Init => Trail!Init
<1> SUFFICES ASSUME Init PROVE Trail!Init  OBVIOUS
<1>1. ASSUME NEW c \in Call PROVE Stage(c) = "outside" /\ StatesOf(c) = << >>
  <2>1. pc[c] = "arrived" /\ audit[c] = << >>  BY DEF Init, CallsInit
  <2> QED  BY <2>1, StageIs, StatesOfNone
<1> QED  BY <1>1 DEF Trail!Init, StatesOf

LEMMA HandleRefines ==
    ASSUME CallInv, NEW c \in Call, Handle(c)
    PROVE  [Trail!Next]_(Trail!vars)
<1>1. TypeOK /\ Phase(c)  BY DEF CallInv
<1>2. /\ StageOf' = [StageOf EXCEPT ![c] = Stage(c)']
      /\ TrailOf' = [TrailOf EXCEPT ![c] = StatesOf(c)']
  BY <1>1, OneStage
<1>3. CASE Decides(c)
  <2>1. Stage(c) = "outside" /\ Stage(c)' \in {"inside", "left"}
    BY <1>3, StageIs, StageIsNext DEF Decides
  <2>2. TrailOf' = TrailOf  BY <1>3 DEF Decides, TrailOf, StatesOf
  <2>3. CASE Stage(c)' = "inside"
    <3>1. StageOf' = [StageOf EXCEPT ![c] = "inside"]  BY <1>2, <2>3
    <3>2. Trail!LetIn(c)
      BY <2>1, <2>2, <3>1 DEF Trail!LetIn, StageOf, TrailOf, StatesOf
    <3> QED  BY <3>2 DEF Trail!Next
  <2>4. CASE Stage(c)' = "left"
    <3>1. StageOf' = [StageOf EXCEPT ![c] = "left"]  BY <1>2, <2>4
    <3>2. Trail!Refuse(c)
      BY <2>1, <2>2, <3>1 DEF Trail!Refuse, StageOf, TrailOf, StatesOf
    <3> QED  BY <3>2 DEF Trail!Next
  <2> QED  BY <2>1, <2>3, <2>4
<1>4. CASE GoesOn(c)
  <2>1. StageOf' = StageOf  BY <1>2, <1>4 DEF GoesOn, StageOf
  <2>2. TrailOf' = TrailOf  BY <1>4 DEF GoesOn, TrailOf, StatesOf
  <2> QED  BY <2>1, <2>2 DEF Trail!vars, StageOf, TrailOf, StatesOf
<1>5. CASE LeavesEntry(c)
  <2>1. PICK status : Logs(c, status)  BY <1>5 DEF LeavesEntry
  <2> DEFINE e == [status |-> status, txn |-> Txn(c), ip |-> ip[c], state |-> "pending"]
  <2>2. /\ pc[c] = "unwinding" /\ defers[c] # << >> /\ Head(defers[c]) = "audit"
        /\ pc'[c] = pc[c] /\ defers'[c] = Tail(defers[c])
        /\ audit'[c] = Append(audit[c], e)
    BY <1>1, <2>1, FunctionsHere DEF Functions, Logs, RunsDeferred
  <2>3. Served(c)  BY <1>1, <2>2, PhaseIs
  <2>4. \/ defers[c] = <<"audit">> /\ defers'[c] = << >>
        \/ defers[c] = <<"audit", "recover">> /\ defers'[c] = <<"recover">>
    <3>1. Head(<<"recover", "audit">>) # "audit" /\ Head(<<"recover">>) # "audit"
      OBVIOUS
    <3> QED  BY <1>1, <2>2, <2>3, <3>1, DefersCases
  <2>5. audit[c] = << >>
    <3>1. AuditAwaited(c)  BY <2>4, AwaitsCases DEF AuditAwaited
    <3> QED  BY <2>3, <3>1 DEF Served
  <2>6. Stage(c) = "inside"
    <3>1. defers[c] # << >> /\ defers[c][1] = "audit" /\ 1 \in DOMAIN defers[c]
      BY <2>4
    <3> QED  BY <2>2, <3>1 DEF Stage
  <2>7. Stage(c)' = "left"
    <3>1. \A i \in DOMAIN defers'[c] : defers'[c][i] # "audit"
      <4>1. DOMAIN <<"recover">> = {1} /\ <<"recover">>[1] = "recover" /\ DOMAIN << >> = {}
        OBVIOUS
      <4> QED  BY <2>4, <4>1
    <3> QED  BY <2>2, <3>1 DEF Stage
  <2>8. StatesOf(c)' = <<"pending">>
    <3>1. audit'[c] = <<e>>  BY <2>2, <2>5
    <3>2. e.state = "pending"  OBVIOUS
    <3> HIDE DEF e
    <3> QED  BY <3>1, <3>2, StatesOfNone
  <2>9. /\ StageOf' = [StageOf EXCEPT ![c] = "left"]
        /\ TrailOf' = [TrailOf EXCEPT ![c] = <<"pending">>]
    BY <1>2, <2>7, <2>8
  <2>10. Trail!Leave(c)
    BY <2>6, <2>9 DEF Trail!Leave, StageOf, TrailOf, StatesOf
  <2> QED  BY <2>10 DEF Trail!Next
<1> QED  BY <1>1, <1>3, <1>4, <1>5, HandleTrail

LEMMA SaveRefines ==
    ASSUME CallInv, NEW c \in Call, Save(c)
    PROVE  Trail!Settle(c)
<1>1. TypeOK /\ Phase(c)  BY DEF CallInv
<1>2. audit[c] = <<audit[c][1]>> /\ audit[c][1].state = "pending"  BY <1>1, SavesOne
<1>3. PICK outcome \in {"saved", "lost"} :
        audit'[c] = <<[audit[c][1] EXCEPT !.state = outcome]>>
  BY <1>1, SavesOne
<1>4. audit[c][1] \in EntryOf
  <2>1. audit[c] \in Seq(EntryOf) /\ Len(audit[c]) = 1
    BY <1>1, <1>2, FunctionsHere DEF Functions
  <2> QED  BY <2>1
<1>5. [audit[c][1] EXCEPT !.state = outcome].state = outcome  BY <1>4 DEF EntryOf
<1>6. StatesOf(c) = <<"pending">>  BY <1>2, StatesOfNone
<1>7. StatesOf(c)' = <<outcome>>  BY <1>3, <1>5, StatesOfNone
<1>8. TrailOf' = [TrailOf EXCEPT ![c] = <<outcome>>]  BY <1>1, <1>7, OneStage
<1>9. StageOf' = StageOf  BY DEF Save, Saves, StageOf, Stage
<1> QED  BY <1>6, <1>8, <1>9 DEF Trail!Settle, StageOf, TrailOf, StatesOf

LEMMA ProtocolTrailStep == CallInv /\ [Next]_vars => [Trail!Next]_(Trail!vars)
<1> SUFFICES ASSUME CallInv, [Next]_vars PROVE [Trail!Next]_(Trail!vars)  OBVIOUS
<1>1. ASSUME NEW c \in Call, Save(c) PROVE [Trail!Next]_(Trail!vars)
  BY <1>1, SaveRefines DEF Trail!Next
<1>2. CASE UNCHANGED vars
  <2>1. StageOf' = StageOf /\ TrailOf' = TrailOf
    BY <1>2 DEF vars, callVars, StageOf, Stage, TrailOf, StatesOf
  <2> QED  BY <2>1 DEF Trail!vars, StageOf, TrailOf, StatesOf
<1> QED  BY <1>1, <1>2, HandleRefines DEF Next, Settled

\* All protocols implement AuditTrail: a call refused before its handler leaves
\* no entry, one that reached it leaves exactly one, on every way out, and the
\* entry is settled at most once (src/graphql.go, src/ws.go, src/grpc.go).
THEOREM ProtocolTrailImplemented == Spec => Trail!SafeSpec
BY CallsInductive, ProtocolTrailInit, ProtocolTrailStep, PTL DEF Spec, Trail!SafeSpec
=============================================================================

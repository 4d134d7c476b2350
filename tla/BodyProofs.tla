----------------------------- MODULE BodyProofs -----------------------------
(***************************************************************************)
(* What a layer judged is what the handler gets, and nobody gets more than *)
(* the limits allow, for every body, every pair of limits up to the largest*)
(* integer and every sequence of layers.  The invariant: a judged body is  *)
(* still all there, unread, within the limit and unable to fail, so that   *)
(* reading it again changes nothing.                                       *)
(* Then that nobody is refused in vain, and that whoever reads to a regular *)
(* end has read everything.                                                *)
(***************************************************************************)
EXTENDS Bodies, TLAPS

BodyType == [from : 0..MaxInt, to : 0..MaxInt, cap : 0..MaxInt, fails : BOOLEAN]

Span == [from : 0..MaxInt, to : 0..MaxInt]

SeenType == [from : 0..MaxInt, to : 0..MaxInt, end : {"unread", "more", "eof", "error"}]

\* a body that does not end before it begins
Proper(b) == b \in BodyType /\ b.from <= b.to

\* Reading never gets a negative number of bytes, nor more than asked for, left or
\* allowed.
LEMMA GotBounds ==
    ASSUME NEW b, Proper(b), NEW n \in Int
    PROVE  /\ Got(b, n) \in Int /\ 0 <= Got(b, n)
           /\ Readable(b) \in Nat
           /\ Got(b, n) <= Readable(b)
           /\ Readable(b) <= b.to - b.from /\ Readable(b) <= b.cap
           /\ n > 0 => Got(b, n) <= n
           /\ n >= Readable(b) /\ n > 0 => Got(b, n) = Readable(b)
           /\ b.cap >= b.to - b.from => Readable(b) = b.to - b.from
BY BodiesAssumption DEF Proper, BodyType, Got, Readable, Least

\* limit+1 is what it says, but for the largest limit, where it is negative.
LEMMA ReadsValue ==
    ASSUME NEW s \in SentType
    PROVE  Reads(s) = IF s.limit = MaxInt THEN -(MaxInt + 1) ELSE s.limit + 1
<1> DEFINE m == 2 * (MaxInt + 1)
           a == s.limit + 1 + MaxInt + 1
<1>1. s.limit \in 0..MaxInt  BY DEF SentType
<1>2. m \in Nat /\ m > 0 /\ a \in 0..m /\ (a = m <=> s.limit = MaxInt)
  BY <1>1, BodiesAssumption
<1>3. a < m => a % m = a  BY <1>2
<1>4. m % m = 0  BY <1>2
<1>5. Reads(s) = (a % m) - (MaxInt + 1)  BY DEF Reads, Wrap
<1> QED  BY <1>1, <1>2, <1>3, <1>4, <1>5, BodiesAssumption

\* Whatever ReadAndRestoreBody makes of a body, it is one, its end has not moved
\* outwards, and no more can be read of it than before.
LEMMA RestoredProper ==
    ASSUME NEW s \in SentType, NEW b, Proper(b)
    PROVE  /\ Proper(Restored(s, b))
           /\ Restored(s, b).to <= b.to
           /\ Readable(Restored(s, b)) <= Readable(b)
<1> DEFINE n == Reads(s)
           g == Got(b, n)
<1>0. n \in Int
  <2>1. s.limit \in Int  BY DEF SentType
  <2> QED  BY <2>1, ReadsValue, BodiesAssumption
<1>1. /\ g \in Int /\ 0 <= g /\ g <= Readable(b) /\ Readable(b) \in Nat
      /\ Readable(b) <= b.to - b.from /\ Readable(b) <= b.cap
  BY <1>0, GotBounds
<1>2. /\ b.from \in 0..MaxInt /\ b.to \in 0..MaxInt /\ b.cap \in 0..MaxInt
      /\ b.fails \in BOOLEAN /\ b.from <= b.to
  BY DEF Proper, BodyType
<1> HIDE DEF g, n
<1>3. CASE s.type = "multipart"
  BY <1>1, <1>2, <1>3 DEF Restored
<1>4. CASE s.type # "multipart" /\ ReadError(s, b)
  <2> DEFINE v == [b EXCEPT !.from = @ + g, !.cap = @ - g]
  <2>1. Restored(s, b) = v  BY <1>4 DEF Restored, After, g, n
  <2>2. /\ v \in BodyType /\ v.from = b.from + g /\ v.to = b.to /\ v.cap = b.cap - g
    <3>1. b.from + g \in 0..MaxInt /\ b.cap - g \in 0..MaxInt
      BY <1>1, <1>2, BodiesAssumption
    <3>2. b \in BodyType  BY DEF Proper
    <3> QED  BY <3>1, <3>2 DEF BodyType
  <2>3. Proper(v)  BY <1>1, <1>2, <2>2 DEF Proper
  <2>4. Readable(v) <= Readable(b)
    BY <1>1, <1>2, <2>2 DEF Readable, Least
  <2> QED  BY <1>2, <2>1, <2>2, <2>3, <2>4
<1>5. CASE s.type # "multipart" /\ ~ReadError(s, b)
  <2> DEFINE v == [from |-> b.from, to |-> b.from + g, fails |-> FALSE, cap |-> MaxInt]
  <2>1. Restored(s, b) = v  BY <1>5 DEF Restored, g, n
  <2>2. Proper(v)  BY <1>1, <1>2, BodiesAssumption DEF BodyType, Proper
  <2>3. Readable(v) <= g  BY <1>1, <1>2, BodiesAssumption DEF Readable, Least
  <2>4. v.to <= b.to  BY <1>1, <1>2
  <2>5. Readable(v) \in Int  BY <2>2, GotBounds
  <2> HIDE DEF v
  <2> QED  BY <1>1, <2>1, <2>2, <2>3, <2>4, <2>5
<1> QED  BY <1>3, <1>4, <1>5
-----------------------------------------------------------------------------
\* C is what was judged of the body b of a request s
Intact(s, b, C) ==
    /\ C \subseteq Span
    /\ s.type = "multipart" => C = {}
    /\ C # {} => ~b.fails /\ b.to - b.from <= b.cap
    /\ \A k \in C : /\ k.from <= k.to /\ k.to = b.to
                    /\ k.to - k.from <= s.limit
                    /\ s.limit = MaxInt => k.from = k.to

\* e is what the handler has seen
Facing(b, C, e) ==
    /\ \A k \in C : k.from = IF e.end = "unread" THEN b.from ELSE e.from
    /\ e.end # "unread" => e.to = b.from
    /\ e.end = "eof" => b.from = b.to

RequestInv(r) ==
    /\ Proper(body[r])
    /\ Intact(sent[r], body[r], checked[r])
    /\ Facing(body[r], checked[r], seen[r])
    /\ todo[r] # << >> \/ status[r] # 0 => seen[r].end = "unread"
    /\ body[r].to <= sent[r].length
    /\ seen[r].end = "unread" => seen[r].from = seen[r].to

\* MaxBodySize is still to come
Pending(r) == \E i \in DOMAIN todo[r] : todo[r][i] = "MaxBodySize"

\* behind it the handler cannot get more than the limit, all in all
Capped(r) ==
    "MaxBodySize" \in LayersOf(r) /\ ~Pending(r) /\ status[r] = 0 =>
        Readable(body[r]) + (seen[r].to - seen[r].from) <= LimitFor(sent[r])

BodyInv == TypeOK /\ \A r \in Request : RequestInv(r) /\ Capped(r)

\* A judged body is read again in full, without an error, and restored as it was.
LEMMA ReadAgain ==
    ASSUME NEW s \in SentType, NEW b, Proper(b), NEW C, Intact(s, b, C),
           C # {}, \A k \in C : k.from = b.from
    PROVE  /\ ~ReadError(s, b)
           /\ Restored(s, b) =
                 [from |-> b.from, to |-> b.to, fails |-> FALSE, cap |-> MaxInt]
           /\ Judged(s, b) = {[from |-> b.from, to |-> b.to]}
<1> DEFINE n == Reads(s)
<1>1. PICK k \in C : TRUE  OBVIOUS
<1>2. /\ s.type # "multipart" /\ ~b.fails /\ b.to - b.from <= b.cap
      /\ k.from = b.from /\ k.to = b.to /\ b.to - b.from <= s.limit
      /\ s.limit = MaxInt => b.from = b.to
  BY <1>1 DEF Intact
<1>3. /\ b.from \in 0..MaxInt /\ b.to \in 0..MaxInt /\ b.cap \in 0..MaxInt
      /\ b.from <= b.to
  BY DEF Proper, BodyType
<1>4. s.limit \in 0..MaxInt  BY DEF SentType
<1>5. n = IF s.limit = MaxInt THEN -(MaxInt + 1) ELSE s.limit + 1  BY ReadsValue
<1>6. n \in Int  BY <1>4, <1>5, BodiesAssumption
<1>7. Readable(b) = b.to - b.from  BY <1>2, <1>3, <1>6, GotBounds
<1>8. Got(b, n) = b.to - b.from
  <2>1. CASE s.limit = MaxInt
    BY <1>2, <1>3, <1>5, <2>1, BodiesAssumption DEF Got
  <2>2. CASE s.limit # MaxInt
    BY <1>2, <1>3, <1>4, <1>5, <1>6, <1>7, <2>2, GotBounds
  <2> QED  BY <2>1, <2>2
<1>9. ~Breaks(b)  BY <1>2, <1>3 DEF Breaks
<1>10. ~ReadError(s, b)
  BY <1>2, <1>3, <1>4, <1>8, <1>9 DEF ReadError, Fails, TooLong
<1>11. b.from + Got(b, n) = b.to  BY <1>3, <1>8
<1>12. Restored(s, b) = [from |-> b.from, to |-> b.to, fails |-> FALSE, cap |-> MaxInt]
  BY <1>2, <1>10, <1>11 DEF Restored
<1>13. Judged(s, b) = {[from |-> b.from, to |-> b.to]}
  BY <1>2, <1>11 DEF Judged
<1> QED  BY <1>10, <1>12, <1>13

\* What a layer does to a body and to the record of judgements.
BodyStep(s, b, C, v, D) ==
    \/ v = b /\ D = C
    \/ v = Restored(s, b) /\ D = C
    \/ v = Restored(s, b) /\ ~ReadError(s, b) /\ D = C \cup Judged(s, b)
    \/ v = [b EXCEPT !.cap = Least(@, LimitFor(s))] /\ D = C

LEMMA CapProper ==
    ASSUME NEW s \in SentType, NEW b, Proper(b)
    PROVE  LET v == [b EXCEPT !.cap = Least(@, LimitFor(s))]
           IN  /\ Proper(v) /\ v.from = b.from /\ v.to = b.to /\ v.fails = b.fails
               /\ v.cap = Least(b.cap, LimitFor(s))
               /\ Readable(v) <= Readable(b) /\ Readable(v) <= LimitFor(s)
<1> DEFINE c == Least(b.cap, LimitFor(s))
           v == [b EXCEPT !.cap = c]
<1>1. LimitFor(s) \in 0..MaxInt  BY DEF SentType, LimitFor
<1>2. b.cap \in 0..MaxInt /\ b.from \in Int /\ b.to \in Int
  BY BodiesAssumption DEF Proper, BodyType
<1>3. c \in 0..MaxInt /\ c <= b.cap /\ c <= LimitFor(s)
  BY <1>1, <1>2, BodiesAssumption DEF Least
<1> HIDE DEF c
<1>4. /\ v \in BodyType /\ v.from = b.from /\ v.to = b.to /\ v.fails = b.fails
      /\ v.cap = c
  BY <1>3 DEF Proper, BodyType
<1>5. Proper(v)  BY <1>4 DEF Proper
<1>6. Readable(v) <= Readable(b) /\ Readable(v) <= c
  BY <1>2, <1>3, <1>4, BodiesAssumption DEF Readable, Least
<1>7. Readable(v) \in Int
  BY <1>2, <1>3, <1>4, BodiesAssumption DEF Readable, Least
<1>8. Readable(v) <= LimitFor(s)  BY <1>1, <1>3, <1>6, <1>7, BodiesAssumption
<1> QED  BY <1>4, <1>5, <1>6, <1>8 DEF c

\* The first layer to judge a body finds it within the limit.
LEMMA FirstJudged ==
    ASSUME NEW s \in SentType, NEW b, Proper(b), ~ReadError(s, b)
    PROVE  LET v == Restored(s, b)
           IN  /\ Intact(s, v, Judged(s, b))
               /\ \A k \in Judged(s, b) : k.from = v.from
<1> DEFINE n == Reads(s)
           g == Got(b, n)
           v == Restored(s, b)
<1>1. s.limit \in 0..MaxInt  BY DEF SentType
<1>2. n = IF s.limit = MaxInt THEN -(MaxInt + 1) ELSE s.limit + 1  BY ReadsValue
<1>3. n \in Int  BY <1>1, <1>2, BodiesAssumption
<1>4. /\ g \in Int /\ 0 <= g /\ g <= b.to - b.from
  BY <1>3, GotBounds, BodiesAssumption DEF Proper, BodyType
<1>5. s.limit = MaxInt => g = 0  BY <1>2, BodiesAssumption DEF Got
<1>6. CASE s.type = "multipart"
  BY <1>6 DEF Judged, Intact
<1>7. CASE s.type # "multipart"
  <2>1. g <= s.limit  BY <1>1, <1>4, <1>7 DEF ReadError, TooLong
  <2>2. v = [from |-> b.from, to |-> b.from + g, fails |-> FALSE, cap |-> MaxInt]
    BY <1>7 DEF Restored
  <2>3. Judged(s, b) = {[from |-> b.from, to |-> b.from + g]}
    BY <1>7 DEF Judged
  <2>4. b.from \in 0..MaxInt /\ b.to \in 0..MaxInt  BY DEF Proper, BodyType
  <2> HIDE DEF g, v
  <2>5. b.from + g \in 0..MaxInt  BY <1>4, <2>4, BodiesAssumption
  <2>6. Judged(s, b) \subseteq Span  BY <2>3, <2>4, <2>5 DEF Span
  <2>7. ~v.fails /\ v.to - v.from <= v.cap /\ v.from = b.from /\ v.to = b.from + g
    BY <1>4, <2>2, <2>4, <2>5, BodiesAssumption
  <2>8. \A k \in Judged(s, b) : k.from = b.from /\ k.to = b.from + g  BY <2>3
  <2> QED
    BY <1>1, <1>4, <1>5, <1>7, <2>1, <2>4, <2>5, <2>6, <2>7, <2>8 DEF Intact, v
<1> QED  BY <1>6, <1>7

LEMMA BodyStepSound ==
    ASSUME NEW s \in SentType, NEW b, Proper(b), NEW C, Intact(s, b, C),
           NEW e, e.end = "unread", Facing(b, C, e),
           NEW v, NEW D, BodyStep(s, b, C, v, D)
    PROVE  /\ Proper(v) /\ Intact(s, v, D) /\ Facing(v, D, e)
           /\ v.to <= b.to /\ Readable(v) <= Readable(b)
<1>1. \A k \in C : k.from = b.from  BY DEF Facing
<1>2. b.to \in Int /\ b.from \in Int /\ Readable(b) \in Int
  BY GotBounds, BodiesAssumption DEF Proper, BodyType
<1>3. CASE v = b /\ D = C  BY <1>2, <1>3
<1>4. CASE v = Restored(s, b) /\ D = C
  <2>1. Proper(v) /\ v.to <= b.to /\ Readable(v) <= Readable(b)
    BY <1>4, RestoredProper
  <2>2. CASE C = {}  BY <1>4, <2>1, <2>2 DEF Intact, Facing
  <2>3. CASE C # {}
    <3>1. v = [from |-> b.from, to |-> b.to, fails |-> FALSE, cap |-> MaxInt]
      BY <1>1, <1>4, <2>3, ReadAgain
    <3>2. ~v.fails /\ v.to - v.from <= v.cap /\ v.to = b.to /\ v.from = b.from
      BY <3>1, BodiesAssumption DEF Proper, BodyType
    <3> QED  BY <1>1, <1>4, <2>1, <3>2 DEF Intact, Facing
  <2> QED  BY <2>2, <2>3
<1>5. CASE v = Restored(s, b) /\ ~ReadError(s, b) /\ D = C \cup Judged(s, b)
  <2>1. Proper(v) /\ v.to <= b.to /\ Readable(v) <= Readable(b)
    BY <1>5, RestoredProper
  <2>2. Intact(s, v, Judged(s, b)) /\ \A k \in Judged(s, b) : k.from = v.from
    BY <1>5, FirstJudged
  <2>3. CASE C = {}  BY <1>5, <2>1, <2>2, <2>3 DEF Facing
  <2>4. CASE C # {}
    <3>1. v = [from |-> b.from, to |-> b.to, fails |-> FALSE, cap |-> MaxInt]
      BY <1>1, <1>5, <2>4, ReadAgain
    <3>2. v.to = b.to /\ v.from = b.from /\ ~v.fails /\ v.to - v.from <= v.cap
      BY <3>1, BodiesAssumption DEF Proper, BodyType
    <3>3. Intact(s, v, D)  BY <1>5, <2>2, <3>2 DEF Intact
    <3> QED  BY <1>1, <1>5, <2>1, <2>2, <3>2, <3>3 DEF Facing
  <2> QED  BY <2>3, <2>4
<1>6. CASE v = [b EXCEPT !.cap = Least(@, LimitFor(s))] /\ D = C
  <2>1. /\ Proper(v) /\ v.from = b.from /\ v.to = b.to /\ v.fails = b.fails
        /\ v.cap = Least(b.cap, LimitFor(s)) /\ Readable(v) <= Readable(b)
    BY <1>6, CapProper
  <2>2. C # {} => v.to - v.from <= v.cap
    <3> SUFFICES ASSUME C # {} PROVE v.to - v.from <= v.cap  OBVIOUS
    <3>1. PICK k \in C : TRUE  OBVIOUS
    <3>2. LimitFor(s) = s.limit  BY DEF Intact, LimitFor
    <3>3. b.to - b.from <= s.limit /\ b.to - b.from <= b.cap
      BY <1>1, <3>1 DEF Intact
    <3> QED  BY <2>1, <3>2, <3>3 DEF Least
  <2>3. Intact(s, v, D)  BY <1>6, <2>1, <2>2 DEF Intact
  <2> QED  BY <1>2, <1>6, <2>1, <2>3 DEF Facing
<1> QED  BY <1>3, <1>4, <1>5, <1>6 DEF BodyStep
-----------------------------------------------------------------------------
Layered(r) ==
    Ensure(r) \/ Logger(r) \/ MaxBodySize(r) \/ BlockIntrospection(r) \/ GraphQL(r)

Code == {400, 401, 403, 413}

LayerStep(r) ==
    /\ UNCHANGED <<sent, seen>>
    /\ todo[r] # << >> /\ status[r] = 0
    /\ Pass(r) \/ \E code \in Code : Refuse(r, code)
    /\ \E v, D : /\ body' = [body EXCEPT ![r] = v]
                 /\ checked' = [checked EXCEPT ![r] = D]
                 /\ BodyStep(sent[r], body[r], checked[r], v, D)

\* What the invariant says of one request's variables.
LEMMA RequestTypes ==
    ASSUME BodyInv, NEW r \in Request
    PROVE  /\ sent[r] \in Sents /\ sent[r] \in SentType
           /\ sent[r].arrives <= sent[r].length
           /\ todo[r] \in Seq(Layer) /\ seen[r] \in SeenType
           /\ checked[r] \in SUBSET Span /\ Proper(body[r])
           /\ RequestInv(r) /\ Capped(r)
BY BodiesAssumption DEF BodyInv, TypeOK, RequestInv, Span, SeenType

LEMMA LayerShape ==
    ASSUME BodyInv, NEW r \in Request, Layered(r)
    PROVE  LayerStep(r)
<1> DEFINE s == sent[r]
           b == body[r]
           C == checked[r]
<1>1. /\ UNCHANGED body => body' = [body EXCEPT ![r] = b]
      /\ UNCHANGED checked => checked' = [checked EXCEPT ![r] = C]
  BY DEF BodyInv, TypeOK
<1>2. /\ ReadBody(r) => body' = [body EXCEPT ![r] = Restored(s, b)]
      /\ JudgeBody(r) => checked' = [checked EXCEPT ![r] = C \cup Judged(s, b)]
  BY DEF ReadBody, JudgeBody
<1>3. /\ UNCHANGED <<sent, seen>>
      /\ todo[r] # << >> /\ status[r] = 0
      /\ Pass(r) \/ \E code \in Code : Refuse(r, code)
  <2>1. SizeStatus(s) \in Code \cup {0}  BY DEF SizeStatus, Code
  <2> QED
    BY <2>1 DEF Layered, Ensure, Logger, MaxBodySize, BlockIntrospection,
       GraphQL, Reaches, Code
<1>4. /\ \/ UNCHANGED body \/ ReadBody(r)
         \/ body' = [body EXCEPT ![r].cap = Least(@, LimitFor(sent[r]))]
      /\ \/ UNCHANGED checked
         \/ ReadBody(r) /\ JudgeBody(r) /\ ~ReadError(s, b)
  BY DEF Layered, Ensure, Logger, MaxBodySize, BlockIntrospection, GraphQL
<1>5. PICK v : /\ body' = [body EXCEPT ![r] = v]
               /\ \/ v = b \/ v = Restored(s, b)
                  \/ v = [b EXCEPT !.cap = Least(@, LimitFor(s))]
  BY <1>1, <1>2, <1>4
<1>6. \E D : /\ checked' = [checked EXCEPT ![r] = D]
             /\ BodyStep(s, b, C, v, D)
  <2>1. CASE UNCHANGED checked  BY <1>1, <1>5, <2>1 DEF BodyStep
  <2>2. CASE ReadBody(r) /\ JudgeBody(r) /\ ~ReadError(s, b)
    <3>1. body'[r] = v /\ body'[r] = Restored(s, b)
      BY <1>2, <1>5, <2>2 DEF BodyInv, TypeOK
    <3> QED  BY <1>2, <2>2, <3>1 DEF BodyStep
  <2> QED  BY <1>4, <2>1, <2>2
<1> QED  BY <1>3, <1>5, <1>6 DEF LayerStep

\* Passing any layer but MaxBodySize leaves MaxBodySize to come.
LEMMA PendingStays ==
    ASSUME BodyInv, NEW r \in Request, NEW l, Reaches(r, l), l # "MaxBodySize",
           Pass(r) \/ UNCHANGED todo, Pending(r)
    PROVE  Pending(r)'
<1>1. todo[r] \in Seq(Layer) /\ todo[r] # << >> /\ Head(todo[r]) = l
  BY RequestTypes DEF Reaches
<1>2. CASE UNCHANGED todo  BY <1>2 DEF Pending
<1>3. CASE Pass(r)
  <2>1. todo'[r] = Tail(todo[r])  BY <1>3 DEF Pass, BodyInv, TypeOK
  <2>2. PICK i \in DOMAIN todo[r] : todo[r][i] = "MaxBodySize"  BY DEF Pending
  <2>3. i \in 2..Len(todo[r])  BY <1>1, <2>2
  <2>4. i - 1 \in DOMAIN Tail(todo[r]) /\ Tail(todo[r])[i - 1] = todo[r][i]
    BY <1>1, <2>3
  <2> QED  BY <2>1, <2>2, <2>4 DEF Pending
<1> QED  BY <1>2, <1>3

LEMMA LimitNat ==
    ASSUME NEW s \in SentType
    PROVE  LimitFor(s) \in 0..MaxInt
BY DEF SentType, LimitFor

LEMMA LayerCapped ==
    ASSUME BodyInv, NEW r \in Request, Layered(r),
           body'[r].to \in Int, Readable(body[r])' <= Readable(body[r]),
           Readable(body[r])' \in Int
    PROVE  Capped(r)'
<1> DEFINE s == sent[r]
           b == body[r]
<1>1. /\ s \in SentType /\ Proper(b) /\ RequestInv(r) /\ seen[r] \in SeenType
      /\ s.arrives <= s.length
  BY RequestTypes
<1>2. seen[r].end = "unread" /\ seen[r].from = seen[r].to
      /\ todo[r] # << >> /\ status[r] = 0 /\ sent' = sent /\ seen' = seen
  BY <1>1, LayerShape DEF LayerStep, RequestInv
<1>3. seen[r].to - seen[r].from = 0  BY <1>1, <1>2, BodiesAssumption DEF SeenType
<1>4. Readable(b) \in Int  BY <1>1, GotBounds
<1>5. LimitFor(s) \in Int  BY <1>1, LimitNat, BodiesAssumption
<1>6. CASE MaxBodySize(r)
  <2>1. CASE Bodyless(s)
    <3>1. s.length = 0
      BY <1>1, <2>1 DEF Bodyless, ContentLength
    <3>2. b.to <= 0 /\ b.from \in Nat /\ b.to \in Nat
      BY <1>1, <3>1, BodiesAssumption DEF RequestInv, Proper, BodyType
    <3>3. Readable(b) <= 0  BY <1>1, <3>2, GotBounds
    <3>4. 0 <= LimitFor(s)  BY <1>1, LimitNat, BodiesAssumption
    <3> QED  BY <1>2, <1>3, <1>4, <1>5, <3>3, <3>4 DEF Capped
  <2>2. CASE ~Bodyless(s) /\ Pass(r)
    <3>1. body' = [body EXCEPT ![r].cap = Least(@, LimitFor(s))]
      <4>1. status'[r] = 0  BY <1>2, <2>2 DEF Pass
      <4>2. \A code \in Code : ~Refuse(r, code)
        BY <4>1 DEF Refuse, Code, BodyInv, TypeOK
      <4>3. SizeStatus(s) \in Code \cup {0}  BY DEF SizeStatus, Code
      <4> QED  BY <1>6, <2>2, <4>2, <4>3 DEF MaxBodySize
    <3>2. body'[r] = [b EXCEPT !.cap = Least(@, LimitFor(s))]
      BY <3>1 DEF BodyInv, TypeOK
    <3>3. Readable(body'[r]) <= LimitFor(s)  BY <1>1, <3>2, CapProper
    <3>4. Readable(body'[r]) = Readable(body[r])'  OBVIOUS
    <3> QED  BY <1>2, <1>3, <1>5, <3>3, <3>4 DEF Capped
  <2>3. CASE ~Bodyless(s) /\ ~Pass(r)
    <3>1. PICK code \in Code : Refuse(r, code)
      BY <2>3, LayerShape DEF LayerStep
    <3>2. status'[r] # 0  BY <3>1 DEF Refuse, Code, BodyInv, TypeOK
    <3> QED  BY <3>2 DEF Capped
  <2> QED  BY <2>1, <2>2, <2>3
<1>7. CASE ~MaxBodySize(r)
  <2>1. PICK l : Reaches(r, l) /\ l # "MaxBodySize"
    BY <1>7 DEF Layered, Ensure, Logger, BlockIntrospection, GraphQL
  <2>2. Pass(r) \/ UNCHANGED todo
    BY LayerShape DEF LayerStep, Refuse
  <2>3. Pending(r) => Pending(r)'  BY <2>1, <2>2, PendingStays
  <2>4. Capped(r)  BY RequestTypes
  <2>5. LayersOf(r)' = LayersOf(r)  BY <1>2 DEF LayersOf
  <2> QED  BY <1>2, <1>3, <1>4, <1>5, <2>3, <2>4, <2>5 DEF Capped
<1> QED  BY <1>6, <1>7
-----------------------------------------------------------------------------
\* Reading takes from the front what it gets, and from what may be read.
LEMMA AfterProper ==
    ASSUME NEW b, Proper(b), NEW n \in Int
    PROVE  LET v == After(b, n) IN
           /\ Proper(v) /\ v.from = b.from + Got(b, n) /\ v.to = b.to
           /\ v.cap = b.cap - Got(b, n) /\ v.fails = b.fails
           /\ Readable(v) = Readable(b) - Got(b, n)
<1> DEFINE g == Got(b, n)
           v == [b EXCEPT !.from = @ + g, !.cap = @ - g]
<1>1. /\ g \in Int /\ 0 <= g /\ g <= Readable(b) /\ Readable(b) \in Nat
      /\ Readable(b) <= b.to - b.from /\ Readable(b) <= b.cap
  BY GotBounds
<1>2. /\ b \in BodyType /\ b.from \in 0..MaxInt /\ b.to \in 0..MaxInt
      /\ b.cap \in 0..MaxInt /\ b.from <= b.to
  BY DEF Proper, BodyType
<1>3. After(b, n) = v  BY DEF After, g
<1> HIDE DEF g
<1>4. b.from + g \in 0..MaxInt /\ b.cap - g \in 0..MaxInt
  BY <1>1, <1>2, BodiesAssumption
<1>5. /\ v \in BodyType /\ v.from = b.from + g /\ v.to = b.to /\ v.cap = b.cap - g
      /\ v.fails = b.fails
  BY <1>2, <1>4 DEF BodyType
<1>6. Proper(v)  BY <1>1, <1>2, <1>5, BodiesAssumption DEF Proper
<1>7. Readable(v) = Readable(b) - g
  BY <1>1, <1>2, <1>5, BodiesAssumption DEF Readable, Least
<1> QED  BY <1>3, <1>5, <1>6, <1>7 DEF g

LEMMA HandlerStep ==
    ASSUME BodyInv, NEW r \in Request, HandlerReads(r)
    PROVE  /\ UNCHANGED <<sent, todo, checked, status>>
           /\ \E v \in BodyType : body' = [body EXCEPT ![r] = v]
           /\ \E e \in SeenType : seen' = [seen EXCEPT ![r] = e]
           /\ RequestInv(r)' /\ Capped(r)'
<1> DEFINE s == sent[r]
           b == body[r]
           C == checked[r]
           e == seen[r]
<1>1. PICK n \in 1..(Readable(b) + 1) :
         /\ body' = [body EXCEPT ![r] = After(@, n)]
         /\ seen' = [seen EXCEPT ![r] =
                       [from |-> IF @.end = "unread" THEN b.from ELSE @.from,
                        to   |-> b.from + Got(b, n),
                        end  |-> IF n <= Readable(b) THEN "more"
                                 ELSE IF Breaks(b) THEN "error" ELSE "eof"]]
  BY DEF HandlerReads
<1>2. /\ status[r] = 0 /\ todo[r] = << >> /\ e.end \in {"unread", "more"}
      /\ UNCHANGED <<sent, todo, checked, status>>
  BY DEF HandlerReads
<1>3. /\ Proper(b) /\ RequestInv(r) /\ Capped(r) /\ e \in SeenType
      /\ s \in SentType
  BY RequestTypes
<1> DEFINE g == Got(b, n)
           v == After(b, n)
           f == [from |-> IF e.end = "unread" THEN b.from ELSE e.from,
                 to   |-> b.from + g,
                 end  |-> IF n <= Readable(b) THEN "more"
                          ELSE IF Breaks(b) THEN "error" ELSE "eof"]
<1>4. n \in Int /\ n > 0 /\ Readable(b) \in Nat
  BY <1>3, GotBounds
<1>5. /\ Proper(v) /\ v.from = b.from + g /\ v.to = b.to /\ v.fails = b.fails
      /\ v.cap = b.cap - g /\ Readable(v) = Readable(b) - g
  BY <1>3, <1>4, AfterProper
<1>6. /\ b.from \in 0..MaxInt /\ b.to \in 0..MaxInt /\ b.cap \in 0..MaxInt
      /\ v.from \in 0..MaxInt
  BY <1>3, <1>5 DEF Proper, BodyType
<1>7. /\ g \in Int /\ 0 <= g /\ g <= Readable(b)
      /\ n > Readable(b) => g = Readable(b)
      /\ b.cap >= b.to - b.from => Readable(b) = b.to - b.from
  BY <1>3, <1>4, GotBounds
<1>8. body' = [body EXCEPT ![r] = v] /\ seen' = [seen EXCEPT ![r] = f]
  BY <1>1 DEF BodyInv, TypeOK
<1>9. f \in SeenType
  BY <1>3, <1>5, <1>6 DEF SeenType
<1>10. /\ body'[r] = v /\ seen'[r] = f /\ sent'[r] = s /\ checked'[r] = C
       /\ todo'[r] = todo[r] /\ status'[r] = status[r]
  BY <1>2, <1>8 DEF BodyInv, TypeOK
<1>11. f.end # "unread" /\ f.to = v.from
       /\ f.from = IF e.end = "unread" THEN b.from ELSE e.from
  BY <1>5
<1> HIDE DEF v, f, g
<1>12. Intact(s, v, C)
  BY <1>3, <1>5, <1>6, <1>7, BodiesAssumption DEF Intact, RequestInv
<1>13. Facing(v, C, f)
  <2>1. \A k \in C : k.from = f.from
    BY <1>3, <1>11 DEF RequestInv, Facing
  <2>2. f.end = "eof" => v.from = v.to
    <3> SUFFICES ASSUME f.end = "eof" PROVE v.from = v.to  OBVIOUS
    <3>1. n > Readable(b) /\ ~Breaks(b)  BY <1>4 DEF f
    <3>2. b.cap >= b.to - b.from  BY <1>6, <3>1, BodiesAssumption DEF Breaks
    <3> QED  BY <1>5, <1>6, <1>7, <3>1, <3>2, BodiesAssumption
  <2> QED  BY <1>11, <2>1, <2>2 DEF Facing
<1>14. RequestInv(r)'
  BY <1>2, <1>3, <1>5, <1>10, <1>11, <1>12, <1>13 DEF RequestInv
<1>15. Capped(r)'
  <2> SUFFICES ASSUME "MaxBodySize" \in LayersOf(r), ~Pending(r)
               PROVE  Readable(v) + (f.to - f.from) <= LimitFor(s)
    BY <1>2, <1>10 DEF Capped, Pending, LayersOf
  <2>1. Readable(b) + (e.to - e.from) <= LimitFor(s)
    BY <1>2, <1>3 DEF Capped
  <2>2. e.from \in Int /\ e.to \in Int /\ LimitFor(s) \in Int
    BY <1>3, LimitNat, BodiesAssumption DEF SeenType
  <2>3. CASE e.end = "unread"
    <3>1. e.from = e.to /\ f.from = b.from  BY <1>3, <1>11, <2>3 DEF RequestInv
    <3> QED
      BY <1>4, <1>5, <1>6, <1>7, <1>11, <2>1, <2>2, <3>1, BodiesAssumption
  <2>4. CASE e.end # "unread"
    <3>1. f.from = e.from /\ e.to = b.from
      BY <1>3, <1>11, <2>4 DEF RequestInv, Facing
    <3> QED
      BY <1>4, <1>5, <1>6, <1>7, <1>11, <2>1, <2>2, <3>1, BodiesAssumption
  <2> QED  BY <2>3, <2>4
<1>16. v \in BodyType  BY <1>5 DEF Proper
<1> QED  BY <1>2, <1>8, <1>9, <1>14, <1>15, <1>16

StatusType == {0, 400, 401, 403, 413}

LEMMA LayerSound ==
    ASSUME BodyInv, NEW r \in Request, Layered(r)
    PROVE  /\ UNCHANGED <<sent, seen>>
           /\ \E t \in Seq(Layer) : todo' = [todo EXCEPT ![r] = t]
           /\ \E c \in StatusType : status' = [status EXCEPT ![r] = c]
           /\ \E v \in BodyType : body' = [body EXCEPT ![r] = v]
           /\ \E D \in SUBSET Span : checked' = [checked EXCEPT ![r] = D]
           /\ RequestInv(r)' /\ Capped(r)'
<1> DEFINE s == sent[r]
           b == body[r]
           C == checked[r]
           e == seen[r]
<1>1. LayerStep(r)  BY LayerShape
<1>2. PICK v, D : /\ body' = [body EXCEPT ![r] = v]
                  /\ checked' = [checked EXCEPT ![r] = D]
                  /\ BodyStep(s, b, C, v, D)
  BY <1>1 DEF LayerStep
<1>3. /\ s \in SentType /\ Proper(b) /\ RequestInv(r) /\ todo[r] \in Seq(Layer)
      /\ Intact(s, b, C) /\ Facing(b, C, e)
  BY RequestTypes DEF RequestInv
<1>4. /\ todo[r] # << >> /\ e.end = "unread" /\ e.from = e.to
      /\ UNCHANGED <<sent, seen>>
  BY <1>1, <1>3 DEF LayerStep, RequestInv
<1>5. /\ Proper(v) /\ Intact(s, v, D) /\ Facing(v, D, e)
      /\ v.to <= b.to /\ Readable(v) <= Readable(b)
  BY <1>2, <1>3, <1>4, BodyStepSound
<1>6. body'[r] = v /\ checked'[r] = D  BY <1>2 DEF BodyInv, TypeOK
<1>7. v \in BodyType /\ D \in SUBSET Span  BY <1>5 DEF Proper, Intact
<1>8. v.to \in Int /\ b.to \in Int /\ s.length \in Int
  BY <1>3, <1>7, BodiesAssumption DEF BodyType, Proper, SentType
<1>9. RequestInv(r)'
  BY <1>3, <1>4, <1>5, <1>6, <1>8 DEF RequestInv
<1>10. Capped(r)'
  <2>1. Readable(body[r])' = Readable(v)  BY <1>6
  <2>2. Readable(v) \in Int  BY <1>5, GotBounds
  <2> QED  BY <1>5, <1>6, <1>8, <2>1, <2>2, LayerCapped
<1>11. /\ \E t \in Seq(Layer) : todo' = [todo EXCEPT ![r] = t]
       /\ \E c \in StatusType : status' = [status EXCEPT ![r] = c]
  <2>1. todo = [todo EXCEPT ![r] = todo[r]] /\ status = [status EXCEPT ![r] = status[r]]
    BY DEF BodyInv, TypeOK
  <2>2. Tail(todo[r]) \in Seq(Layer)  BY <1>3, <1>4
  <2>3. status[r] \in StatusType  BY DEF BodyInv, TypeOK, StatusType
  <2>4. CASE Pass(r)  BY <2>1, <2>2, <2>3, <2>4 DEF Pass
  <2>5. ASSUME NEW c \in Code, Refuse(r, c)
        PROVE  /\ \E t \in Seq(Layer) : todo' = [todo EXCEPT ![r] = t]
               /\ \E k \in StatusType : status' = [status EXCEPT ![r] = k]
    <3>1. c \in StatusType  BY <2>5 DEF Code, StatusType
    <3>2. todo' = [todo EXCEPT ![r] = todo[r]] /\ status' = [status EXCEPT ![r] = c]
      BY <2>1, <2>5 DEF Refuse
    <3> QED  BY <1>3, <3>1, <3>2
  <2> QED  BY <1>1, <2>4, <2>5 DEF LayerStep
<1> QED  BY <1>2, <1>4, <1>7, <1>9, <1>10, <1>11

LEMMA BodyInit == Init => BodyInv
<1> SUFFICES ASSUME Init PROVE BodyInv  OBVIOUS
<1>1. ASSUME NEW r \in Request
      PROVE  /\ sent[r] \in Sents /\ sent[r] \in SentType
             /\ sent[r].arrives \in 0..MaxInt /\ sent[r].length \in 0..MaxInt
             /\ sent[r].arrives <= sent[r].length
             /\ sent[r].layers \in Seq(Layer)
  BY <1>1, BodiesAssumption DEF Init, SentType
<1>2. TypeOK
  <2>1. \A r \in Request : todo[r] \in Seq(Layer)  BY <1>1 DEF Init
  <2>2. body \in [Request -> BodyType]  BY <1>1, BodiesAssumption DEF Init, BodyType
  <2>3. seen \in [Request -> SeenType]  BY BodiesAssumption DEF Init, SeenType
  <2>4. checked \in [Request -> SUBSET Span]  BY DEF Init
  <2> QED
    BY <2>1, <2>2, <2>3, <2>4 DEF Init, TypeOK, BodyType, SeenType, Span
<1>3. ASSUME NEW r \in Request PROVE RequestInv(r)
  <2>1. body[r] = [from |-> 0, to |-> sent[r].arrives, cap |-> MaxInt,
                   fails |-> sent[r].arrives < sent[r].length]
    BY DEF Init
  <2>2. checked[r] = {} /\ status[r] = 0
        /\ seen[r] = [from |-> 0, to |-> 0, end |-> "unread"]
    BY DEF Init
  <2>3. Proper(body[r])
    BY <1>1, <2>1, BodiesAssumption DEF Proper, BodyType
  <2> QED  BY <1>1, <2>1, <2>2, <2>3 DEF RequestInv, Intact, Facing
<1>4. ASSUME NEW r \in Request PROVE Capped(r)
  <2>1. todo[r] = sent[r].layers  BY DEF Init
  <2> QED  BY <2>1 DEF Capped, Pending, LayersOf
<1> QED  BY <1>2, <1>3, <1>4 DEF BodyInv

LEMMA BodyStepKeeps == BodyInv /\ [Next]_vars => BodyInv'
<1> SUFFICES ASSUME BodyInv, [Next]_vars PROVE BodyInv'  OBVIOUS
<1>1. ASSUME NEW r \in Request, Layered(r) \/ HandlerReads(r) PROVE BodyInv'
  <2>1. /\ \E t \in Seq(Layer) : todo' = [todo EXCEPT ![r] = t]
        /\ \E c \in StatusType : status' = [status EXCEPT ![r] = c]
        /\ \E D \in SUBSET Span : checked' = [checked EXCEPT ![r] = D]
        /\ \E v \in BodyType : body' = [body EXCEPT ![r] = v]
        /\ \E f \in SeenType : seen' = [seen EXCEPT ![r] = f]
        /\ sent' = sent /\ RequestInv(r)' /\ Capped(r)'
    <3>1. /\ seen[r] \in SeenType /\ seen = [seen EXCEPT ![r] = seen[r]]
          /\ todo[r] \in Seq(Layer) /\ todo = [todo EXCEPT ![r] = todo[r]]
          /\ status[r] \in StatusType /\ status = [status EXCEPT ![r] = status[r]]
          /\ checked[r] \in SUBSET Span /\ checked = [checked EXCEPT ![r] = checked[r]]
      BY DEF BodyInv, TypeOK, SeenType, StatusType, Span
    <3>2. CASE Layered(r)  BY <3>1, <3>2, LayerSound
    <3>3. CASE HandlerReads(r)  BY <3>1, <3>3, HandlerStep
    <3> QED  BY <1>1, <3>2, <3>3
  <2>2. TypeOK'
    <3>1. todo' \in [Request -> Seq(Layer)]  BY <2>1 DEF BodyInv, TypeOK
    <3>2. status' \in [Request -> StatusType]
      BY <2>1 DEF BodyInv, TypeOK, StatusType
    <3>3. checked' \in [Request -> SUBSET Span]  BY <2>1 DEF BodyInv, TypeOK, Span
    <3>4. body' \in [Request -> BodyType]  BY <2>1 DEF BodyInv, TypeOK, BodyType
    <3>5. seen' \in [Request -> SeenType]  BY <2>1 DEF BodyInv, TypeOK, SeenType
    <3> QED
      BY <2>1, <3>1, <3>2, <3>3, <3>4, <3>5
         DEF BodyInv, TypeOK, StatusType, Span, BodyType, SeenType
  <2>3. ASSUME NEW q \in Request, q # r PROVE RequestInv(q)' /\ Capped(q)'
    <3>1. /\ sent'[q] = sent[q] /\ todo'[q] = todo[q] /\ status'[q] = status[q]
          /\ body'[q] = body[q] /\ checked'[q] = checked[q] /\ seen'[q] = seen[q]
      BY <2>1, <2>3 DEF BodyInv, TypeOK
    <3> QED
      BY <3>1 DEF BodyInv, RequestInv, Capped, Pending, LayersOf
  <2> QED  BY <2>1, <2>2, <2>3 DEF BodyInv
<1>2. CASE UNCHANGED vars
  BY <1>2 DEF vars, BodyInv, TypeOK, RequestInv, Capped, Pending, LayersOf
<1> QED  BY <1>1, <1>2 DEF Next, Finished, Layered
-----------------------------------------------------------------------------
LEMMA ServedFollows == BodyInv => ServedAsJudged
<1> SUFFICES ASSUME BodyInv, NEW r \in Request, NEW k \in checked[r],
                    seen[r].end # "unread"
             PROVE  /\ seen[r].from = k.from /\ seen[r].to <= k.to
                    /\ seen[r].end = "eof" => seen[r].to = k.to
  BY DEF ServedAsJudged
<1>1. RequestInv(r) /\ Proper(body[r])  BY RequestTypes
<1>2. k.from = seen[r].from /\ k.to = body[r].to /\ seen[r].to = body[r].from
  BY <1>1 DEF RequestInv, Intact, Facing
<1>3. body[r].from <= body[r].to  BY <1>1 DEF Proper
<1> QED  BY <1>1, <1>2, <1>3 DEF RequestInv, Facing

LEMMA CappedFollows == BodyInv => BodiesCapped
<1> SUFFICES ASSUME BodyInv, NEW r \in Request
             PROVE  /\ "MaxBodySize" \in LayersOf(r) =>
                          seen[r].to - seen[r].from <= LimitFor(sent[r])
                    /\ \A k \in checked[r] : k.to - k.from <= sent[r].limit
  BY DEF BodiesCapped
<1>1. /\ RequestInv(r) /\ Capped(r) /\ Proper(body[r]) /\ sent[r] \in SentType
      /\ seen[r] \in SeenType
  BY RequestTypes
<1>2. /\ LimitFor(sent[r]) \in 0..MaxInt /\ Readable(body[r]) \in Nat
      /\ seen[r].from \in Int /\ seen[r].to \in Int
  BY <1>1, LimitNat, GotBounds, BodiesAssumption DEF SeenType
<1>3. CASE seen[r].end = "unread"
  BY <1>1, <1>2, <1>3, BodiesAssumption DEF RequestInv, Intact
<1>4. CASE seen[r].end # "unread"
  <2>1. todo[r] = << >> /\ status[r] = 0  BY <1>1, <1>4 DEF RequestInv
  <2>2. ~Pending(r)  BY <2>1 DEF Pending
  <2> QED  BY <1>1, <1>2, <2>1, <2>2, BodiesAssumption DEF Capped, RequestInv, Intact
<1> QED  BY <1>3, <1>4

\* Every variable keeps its type, also where limit+1 wraps round.
THEOREM BodiesTypes == Spec => []TypeOK
<1>1. BodyInv => TypeOK  BY DEF BodyInv
<1> QED  BY <1>1, BodyInit, BodyStepKeeps, PTL DEF Spec

\* Whatever the layers, their order and the limits: the body that was verified,
\* logged or measured is the body that the handler reads.
THEOREM JudgedIsServed == Spec => []ServedAsJudged
BY BodyInit, BodyStepKeeps, ServedFollows, PTL DEF Spec

\* Behind MaxBodySize nobody gets more than the limit for the kind of body, and
\* no layer takes more than the limit for a body.
THEOREM BodiesStayCapped == Spec => []BodiesCapped
BY BodyInit, BodyStepKeeps, CappedFollows, PTL DEF Spec
-----------------------------------------------------------------------------
(***************************************************************************)
(* Nobody is refused for a body within the limits: while there are layers  *)
(* ahead, such a body is whole, unread and unable to fail, which is what it *)
(* takes to be read again.                                                 *)
(***************************************************************************)
Blameless(s) ==
    /\ s.arrives = s.length /\ s.length <= LimitFor(s)
    /\ s.type \in {"json", "multipart"} /\ ~s.introspects /\ ~Wraps(s)

Whole(s, b) ==
    b.from = 0 /\ b.to = s.length /\ ~b.fails /\ s.length <= b.cap

Unhurt(r) ==
    Blameless(sent[r]) =>
        status[r] = 0 /\ (todo[r] # << >> => Whole(sent[r], body[r]))

LEMMA WholeRead ==
    ASSUME NEW s \in SentType, Blameless(s), NEW b, Proper(b), Whole(s, b)
    PROVE  /\ ~ReadError(s, b)
           /\ Whole(s, Restored(s, b))
           /\ Judged(s, b) \subseteq {[from |-> 0, to |-> s.length]}
           /\ SizeStatus(s) = 0
           /\ Whole(s, [b EXCEPT !.cap = Least(@, LimitFor(s))])
<1>1. s.length \in 0..MaxInt  BY DEF SentType
<1>2. SizeStatus(s) = 0
  <2>1. LimitFor(s) \in Int /\ LimitFor(s) >= 0  BY LimitNat, BodiesAssumption
  <2>2. ContentLength(s) <= LimitFor(s)
    BY <1>1, <2>1, BodiesAssumption DEF ContentLength, Blameless
  <2>3. s.type \in {"json", "multipart"}  BY DEF Blameless
  <2>4. ContentLength(s) \in Int  BY <1>1, BodiesAssumption DEF ContentLength
  <2> QED  BY <2>1, <2>2, <2>3, <2>4 DEF SizeStatus
<1>3. Whole(s, [b EXCEPT !.cap = Least(@, LimitFor(s))])
  <2>1. Least(b.cap, LimitFor(s)) >= s.length
    BY <1>1 DEF Blameless, Whole, Least
  <2> QED  BY <2>1, CapProper DEF Whole
<1>4. CASE s.type = "multipart"
  BY <1>2, <1>3, <1>4 DEF ReadError, Restored, Judged
<1>5. CASE s.type # "multipart"
  <2> DEFINE C == {[from |-> 0, to |-> s.length]}
  <2>1. s.length <= s.limit /\ s.limit # MaxInt
    BY <1>5 DEF Blameless, LimitFor, Wraps
  <2>2. /\ b.from = 0 /\ b.to = s.length /\ ~b.fails /\ s.length <= b.cap
    BY DEF Whole
  <2>3. Intact(s, b, C)
    <3>1. C \subseteq Span  BY <1>1, BodiesAssumption DEF Span
    <3>2. b.to - b.from <= b.cap  BY <1>1, <2>2
    <3> QED  BY <1>1, <1>5, <2>1, <2>2, <3>1, <3>2 DEF Intact
  <2>4. C # {} /\ \A k \in C : k.from = b.from  BY <2>2
  <2>5. /\ ~ReadError(s, b)
        /\ Restored(s, b) =
              [from |-> b.from, to |-> b.to, fails |-> FALSE, cap |-> MaxInt]
        /\ Judged(s, b) = {[from |-> b.from, to |-> b.to]}
    BY <2>3, <2>4, ReadAgain
  <2>6. Whole(s, Restored(s, b))  BY <1>1, <2>2, <2>5, BodiesAssumption DEF Whole
  <2> QED  BY <1>2, <1>3, <2>2, <2>5, <2>6
<1> QED  BY <1>4, <1>5

LEMMA UnhurtLayer ==
    ASSUME BodyInv, NEW r \in Request, Layered(r), Unhurt(r)
    PROVE  Unhurt(r)'
<1> SUFFICES ASSUME Blameless(sent[r])
             PROVE  Pass(r) /\ Whole(sent[r], body'[r])
  BY LayerShape DEF Unhurt, LayerStep, Pass
<1> DEFINE s == sent[r]
           b == body[r]
<1>1. s \in SentType /\ Proper(b) /\ todo[r] # << >>
  BY RequestTypes, LayerShape DEF LayerStep
<1>2. Whole(s, b)  BY <1>1 DEF Unhurt
<1>3. /\ ~ReadError(s, b) /\ Whole(s, Restored(s, b))
      /\ Judged(s, b) \subseteq {[from |-> 0, to |-> s.length]}
      /\ SizeStatus(s) = 0
      /\ Whole(s, [b EXCEPT !.cap = Least(@, LimitFor(s))])
  BY <1>1, <1>2, WholeRead
<1>4. Pass(r)
  BY <1>3 DEF Layered, Ensure, Logger, MaxBodySize, BlockIntrospection, GraphQL,
     Blameless
<1>5. body'[r] \in {b, Restored(s, b), [b EXCEPT !.cap = Least(@, LimitFor(s))]}
  BY DEF Layered, Ensure, Logger, MaxBodySize, BlockIntrospection, GraphQL,
     ReadBody, BodyInv, TypeOK
<1> QED  BY <1>2, <1>3, <1>4, <1>5

LEMMA UnhurtStep ==
    BodyInv /\ (\A r \in Request : Unhurt(r)) /\ [Next]_vars
        => (\A r \in Request : Unhurt(r))'
<1> SUFFICES ASSUME BodyInv, [Next]_vars, NEW r \in Request, Unhurt(r)
             PROVE  Unhurt(r)'
  OBVIOUS
<1>1. ASSUME NEW q \in Request, Layered(q) PROVE Unhurt(r)'
  <2>1. CASE q = r  BY <1>1, <2>1, UnhurtLayer
  <2>2. CASE q # r
    <3>1. /\ sent' = sent /\ todo'[r] = todo[r] /\ status'[r] = status[r]
          /\ body'[r] = body[r]
      BY <1>1, <2>2, LayerSound DEF BodyInv, TypeOK
    <3> QED  BY <3>1 DEF Unhurt
  <2> QED  BY <2>1, <2>2
<1>2. ASSUME NEW q \in Request, HandlerReads(q) PROVE Unhurt(r)'
  <2>1. sent' = sent /\ todo' = todo /\ status' = status /\ todo[q] = << >>
    BY <1>2 DEF HandlerReads
  <2>2. q # r => body'[r] = body[r]
    BY <1>2, HandlerStep DEF BodyInv, TypeOK
  <2> QED  BY <2>1, <2>2 DEF Unhurt
<1>3. CASE UNCHANGED vars  BY <1>3 DEF vars, Unhurt
<1> QED  BY <1>1, <1>2, <1>3 DEF Next, Finished, Layered

LEMMA UnhurtInit == Init => \A r \in Request : Unhurt(r)
<1> SUFFICES ASSUME Init, NEW r \in Request, Blameless(sent[r])
             PROVE  status[r] = 0 /\ Whole(sent[r], body[r])
  BY DEF Unhurt
<1>1. sent[r] \in SentType  BY BodiesAssumption DEF Init
<1>2. sent[r].length \in 0..MaxInt /\ sent[r].arrives = sent[r].length
  BY <1>1 DEF SentType, Blameless
<1>3. body[r] = [from |-> 0, to |-> sent[r].arrives, cap |-> MaxInt,
                 fails |-> sent[r].arrives < sent[r].length]
  BY DEF Init
<1>4. ~(sent[r].arrives < sent[r].length) /\ sent[r].length <= MaxInt
  BY <1>2, BodiesAssumption
<1>5. body[r].from = 0 /\ body[r].to = sent[r].length /\ body[r].cap = MaxInt
  BY <1>2, <1>3
<1>6. (sent[r].arrives < sent[r].length) = FALSE  BY <1>4
<1>7. ~body[r].fails
  <2>1. body[r] = [from |-> 0, to |-> sent[r].arrives, cap |-> MaxInt, fails |-> FALSE]
    BY <1>3, <1>6, Zenon
  <2> QED  BY <2>1
<1> QED  BY <1>4, <1>5, <1>7 DEF Init, Whole

\* A body of exactly the limit is within it, for all layers together.
THEOREM NobodyRefusedInVain == Spec => []NoFalseRefusal
<1>1. (\A r \in Request : Unhurt(r)) => NoFalseRefusal
  BY DEF Unhurt, Blameless, NoFalseRefusal
<1> QED
  BY <1>1, BodyInit, BodyStepKeeps, UnhurtInit, UnhurtStep, PTL DEF Spec
-----------------------------------------------------------------------------
(***************************************************************************)
(* A handler that is not told of an error has read all there was.  The     *)
(* invariant is about bodies nobody judged too: a body that still ends     *)
(* where the client ended is unread, or lacks its first limit+1 bytes      *)
(* because a GraphQL layer went on without it; any other body breaks, and  *)
(* goes on breaking until the handler meets the error, or is the empty one *)
(* that a limit that wraps round makes of it.                              *)
(***************************************************************************)
\* where the handler's part of the body begins
Start(b, e) == IF e.end = "unread" THEN b.from ELSE e.from

ReadOver(s, f) ==
    /\ f > s.limit /\ s.post
    /\ \E i \in DOMAIN s.layers : s.layers[i] \in Careless

Accounted(s, b, f) ==
    /\ Wraps(s) => f = 0
    /\ \/ Breaks(b)
       \/ b.to = s.length /\ (f = 0 \/ ReadOver(s, f))
       \/ Wraps(s) /\ b.to = 0

Told(r) ==
    /\ \A i \in DOMAIN todo[r] : todo[r][i] \in LayersOf(r)
    /\ status[r] = 0 => Accounted(sent[r], body[r], Start(body[r], seen[r]))
    /\ seen[r].end = "eof" => ~Breaks(body[r])

\* Where limit+1 wraps round nothing is read, and nothing fails.
LEMMA WrapsReadNothing ==
    ASSUME NEW s \in SentType, Wraps(s), NEW b, Proper(b)
    PROVE  Got(b, Reads(s)) = 0 /\ ~ReadError(s, b)
<1>1. Reads(s) = -(MaxInt + 1)  BY ReadsValue DEF Wraps
<1>2. Reads(s) \in Int /\ ~(Reads(s) > 0) /\ Reads(s) <= 0
  BY <1>1, BodiesAssumption
<1>3. Got(b, Reads(s)) = 0  BY <1>2 DEF Got
<1>4. ~TooLong(s, b)  BY <1>3, BodiesAssumption DEF TooLong, SentType
<1> QED  BY <1>2, <1>3, <1>4 DEF ReadError, Fails

\* What a read without an error leaves is all that there was, and cannot fail.
LEMMA ReadWhole ==
    ASSUME NEW s \in SentType, ~Wraps(s), s.type # "multipart",
           NEW b, Proper(b), ~ReadError(s, b)
    PROVE  /\ ~Breaks(b)
           /\ Restored(s, b).from = b.from /\ Restored(s, b).to = b.to
<1> DEFINE n == Reads(s)
           g == Got(b, n)
<1>1. n = s.limit + 1 /\ s.limit \in 0..MaxInt
  BY ReadsValue DEF Wraps, SentType
<1>2. n \in Int /\ n > 0  BY <1>1, BodiesAssumption
<1>3. /\ g \in Int /\ Readable(b) \in Nat
      /\ n >= Readable(b) => g = Readable(b)
      /\ b.cap >= b.to - b.from => Readable(b) = b.to - b.from
  BY <1>2, GotBounds
<1>4. g <= s.limit /\ ~Fails(b, n)  BY <1>1, <1>3 DEF ReadError, TooLong
<1>5. g = Least(n, Readable(b))  BY <1>2 DEF Got
<1>6. n > Readable(b)  BY <1>1, <1>2, <1>3, <1>4, <1>5, BodiesAssumption DEF Least
<1>7. ~Breaks(b)  BY <1>2, <1>4, <1>6 DEF Fails
<1>8. /\ b.from \in 0..MaxInt /\ b.to \in 0..MaxInt /\ b.cap \in 0..MaxInt
  BY DEF Proper, BodyType
<1>9. b.from + g = b.to
  BY <1>2, <1>3, <1>6, <1>7, <1>8, BodiesAssumption DEF Breaks
<1>10. Restored(s, b) =
         [from |-> b.from, to |-> b.from + g, fails |-> FALSE, cap |-> MaxInt]
  BY DEF Restored
<1> QED  BY <1>7, <1>9, <1>10

\* A read that fails leaves a body that breaks, or has taken limit+1 bytes off it.
LEMMA ReadFails ==
    ASSUME NEW s \in SentType, ~Wraps(s), NEW b, Proper(b), ReadError(s, b)
    PROVE  LET v == Restored(s, b) IN
           /\ v.to = b.to /\ b.from <= v.from
           /\ Breaks(v) <=> Breaks(b)
           /\ Breaks(b) \/ v.from > s.limit
<1> DEFINE n == Reads(s)
           g == Got(b, n)
           v == Restored(s, b)
<1>1. n = s.limit + 1 /\ s.limit \in 0..MaxInt /\ n \in Int
  BY ReadsValue, BodiesAssumption DEF Wraps, SentType
<1>2. v = After(b, n)  BY DEF Restored, ReadError
<1>3. /\ v.from = b.from + g /\ v.to = b.to /\ v.cap = b.cap - g
      /\ v.fails = b.fails
  BY <1>1, <1>2, AfterProper
<1>4. g \in Int /\ 0 <= g  BY <1>1, GotBounds
<1>5. b.from \in 0..MaxInt /\ b.to \in 0..MaxInt /\ b.cap \in 0..MaxInt
  BY DEF Proper, BodyType
<1>6. Fails(b, n) \/ g > s.limit  BY DEF ReadError, TooLong
<1> HIDE DEF v, g, n
<1>7. Breaks(v) <=> Breaks(b)  BY <1>3, <1>4, <1>5, BodiesAssumption DEF Breaks
<1>8. Breaks(b) \/ v.from > s.limit
  BY <1>1, <1>3, <1>4, <1>5, <1>6, BodiesAssumption DEF Fails
<1> QED  BY <1>3, <1>4, <1>5, <1>7, <1>8, BodiesAssumption DEF v

\* A cap can only make a body break.
LEMMA CapBreaks ==
    ASSUME NEW s \in SentType, NEW b, Proper(b), Breaks(b)
    PROVE  Breaks([b EXCEPT !.cap = Least(@, LimitFor(s))])
<1> DEFINE v == [b EXCEPT !.cap = Least(@, LimitFor(s))]
<1>1. /\ v.from = b.from /\ v.to = b.to /\ v.fails = b.fails
      /\ v.cap = Least(b.cap, LimitFor(s))
  BY CapProper
<1>2. b.from \in 0..MaxInt /\ b.to \in 0..MaxInt /\ b.cap \in 0..MaxInt
  BY DEF Proper, BodyType
<1>3. LimitFor(s) \in 0..MaxInt  BY LimitNat
<1> HIDE DEF v
<1>4. v.cap <= b.cap  BY <1>1, <1>2, <1>3, BodiesAssumption DEF Least
<1>5. v.cap \in Int  BY <1>1, <1>2, <1>3, BodiesAssumption DEF Least
<1>6. Breaks(v)  BY <1>1, <1>2, <1>4, <1>5, BodiesAssumption DEF Breaks
<1> QED  BY <1>6 DEF v

\* What a layer that passes the request on has done to an unread body.
LayerBody(s, b, v) ==
    \/ v = b
    \/ v = [b EXCEPT !.cap = Least(@, LimitFor(s))]
    \/ v = Restored(s, b) /\ ~ReadError(s, b)
    \/ /\ v = Restored(s, b) /\ s.post
       /\ \E i \in DOMAIN s.layers : s.layers[i] \in Careless

LEMMA LayerAccounted ==
    ASSUME NEW s \in SentType, NEW b, Proper(b), Accounted(s, b, b.from),
           NEW v, LayerBody(s, b, v)
    PROVE  Accounted(s, v, v.from)
<1>1. CASE v = b  BY <1>1
<1>2. CASE v = [b EXCEPT !.cap = Least(@, LimitFor(s))]
  <2>1. v.from = b.from /\ v.to = b.to  BY <1>2, CapProper
  <2>2. Breaks(b) => Breaks(v)  BY <1>2, CapBreaks
  <2> QED  BY <2>1, <2>2 DEF Accounted
<1>3. CASE v = Restored(s, b) /\ s.type = "multipart"
  BY <1>3 DEF Restored
<1>4. CASE v = Restored(s, b) /\ s.type # "multipart" /\ Wraps(s)
  <2>1. Got(b, Reads(s)) = 0 /\ ~ReadError(s, b)  BY <1>4, WrapsReadNothing
  <2>2. b.from = 0  BY <1>4 DEF Accounted
  <2>3. v.from = b.from /\ v.to = b.from + 0  BY <1>4, <2>1 DEF Restored
  <2> QED  BY <1>4, <2>2, <2>3 DEF Accounted
<1>5. CASE /\ v = Restored(s, b) /\ s.type # "multipart" /\ ~Wraps(s)
           /\ ~ReadError(s, b)
  BY <1>5, ReadWhole DEF Accounted
<1>6. CASE /\ v = Restored(s, b) /\ ~Wraps(s) /\ ReadError(s, b) /\ s.post
           /\ \E i \in DOMAIN s.layers : s.layers[i] \in Careless
  <2>1. /\ v.to = b.to
        /\ Breaks(v) <=> Breaks(b)
        /\ Breaks(b) \/ v.from > s.limit
    BY <1>6, ReadFails
  <2> QED  BY <1>6, <2>1 DEF Accounted, ReadOver
<1> QED  BY <1>1, <1>2, <1>3, <1>4, <1>5, <1>6 DEF LayerBody, ReadError

LEMMA ToldLayer ==
    ASSUME BodyInv, NEW r \in Request, Layered(r), Told(r)
    PROVE  Told(r)'
<1> DEFINE s == sent[r]
           b == body[r]
<1>1. /\ s \in SentType /\ Proper(b) /\ RequestInv(r) /\ todo[r] \in Seq(Layer)
  BY RequestTypes
<1>2. /\ todo[r] # << >> /\ status[r] = 0 /\ UNCHANGED <<sent, seen>>
      /\ seen[r].end = "unread" /\ LayerStep(r)
  BY <1>1, LayerShape DEF LayerStep, RequestInv
<1>3. seen'[r].end = "unread" /\ LayersOf(r)' = LayersOf(r) /\ sent'[r] = s
  BY <1>2 DEF LayersOf
<1>4. CASE ~Pass(r)
  <2>1. PICK code \in Code : Refuse(r, code)  BY <1>2, <1>4 DEF LayerStep
  <2>2. status'[r] # 0 /\ todo' = todo
    BY <2>1 DEF Refuse, Code, BodyInv, TypeOK
  <2> QED  BY <1>3, <2>2 DEF Told
<1>5. CASE Pass(r)
  <2>1. todo'[r] = Tail(todo[r]) /\ status'[r] = 0
    BY <1>2, <1>5 DEF Pass, BodyInv, TypeOK
  <2>2. \A i \in DOMAIN todo'[r] : todo'[r][i] \in LayersOf(r)
    <3>1. ASSUME NEW i \in DOMAIN Tail(todo[r])
          PROVE  Tail(todo[r])[i] = todo[r][i + 1] /\ i + 1 \in DOMAIN todo[r]
      BY <1>1, <1>2
    <3> QED  BY <2>1, <3>1 DEF Told
  <2>3. Head(todo[r]) \in LayersOf(r)
    <3>1. Head(todo[r]) = todo[r][1] /\ 1 \in DOMAIN todo[r]  BY <1>1, <1>2
    <3> QED  BY <3>1 DEF Told
  <2>4. \A code \in Code : ~Refuse(r, code)
    BY <2>1 DEF Refuse, Code, BodyInv, TypeOK
  <2>5. /\ ReadBody(r) => body'[r] = Restored(s, b)
        /\ UNCHANGED body => body'[r] = b
        /\ body' = [body EXCEPT ![r].cap = Least(@, LimitFor(s))]
             => body'[r] = [b EXCEPT !.cap = Least(@, LimitFor(s))]
    <3>1. ReadBody(r) => body'[r] = Restored(s, b)  BY DEF ReadBody, BodyInv, TypeOK
    <3>2. ASSUME body' = [body EXCEPT ![r].cap = Least(@, LimitFor(s))]
          PROVE  body'[r] = [b EXCEPT !.cap = Least(@, LimitFor(s))]
      BY <3>2 DEF BodyInv, TypeOK
    <3> QED  BY <3>1, <3>2
  <2>6. LayerBody(s, b, body'[r])
    <3>1. CASE Ensure(r)  BY <2>4, <2>5, <3>1 DEF Ensure, LayerBody, Code
    <3>2. CASE Logger(r)  BY <2>4, <2>5, <3>2 DEF Logger, LayerBody, Code
    <3>3. CASE MaxBodySize(r)
      <4>1. SizeStatus(s) \in Code \cup {0}  BY DEF SizeStatus, Code
      <4> QED  BY <2>4, <2>5, <3>3, <4>1 DEF MaxBodySize, LayerBody
    <3>4. CASE BlockIntrospection(r) \/ GraphQL(r)
      <4>1. Head(todo[r]) \in Careless
        BY <3>4 DEF BlockIntrospection, GraphQL, Reaches, Careless
      <4>2. \E i \in DOMAIN s.layers : s.layers[i] \in Careless
        BY <2>3, <4>1 DEF LayersOf
      <4> QED
        BY <2>5, <3>4, <4>2 DEF BlockIntrospection, GraphQL, LayerBody
    <3> QED  BY <3>1, <3>2, <3>3, <3>4 DEF Layered
  <2>7. Accounted(s, b, b.from)  BY <1>2 DEF Told, Start
  <2>8. Accounted(s, body'[r], body'[r].from)
    BY <1>1, <2>6, <2>7, LayerAccounted
  <2> QED  BY <1>3, <2>1, <2>2, <2>8 DEF Told, Start
<1> QED  BY <1>4, <1>5

LEMMA ToldHandler ==
    ASSUME BodyInv, NEW r \in Request, HandlerReads(r), Told(r)
    PROVE  Told(r)'
<1> DEFINE s == sent[r]
           b == body[r]
           e == seen[r]
<1>1. PICK n \in 1..(Readable(b) + 1) :
         /\ body' = [body EXCEPT ![r] = After(@, n)]
         /\ seen' = [seen EXCEPT ![r] =
                       [from |-> IF @.end = "unread" THEN b.from ELSE @.from,
                        to   |-> b.from + Got(b, n),
                        end  |-> IF n <= Readable(b) THEN "more"
                                 ELSE IF Breaks(b) THEN "error" ELSE "eof"]]
  BY DEF HandlerReads
<1>2. status[r] = 0 /\ UNCHANGED <<sent, todo, status>>  BY DEF HandlerReads
<1>3. Proper(b) /\ Readable(b) \in Nat  BY RequestTypes, GotBounds
<1>4. n \in Int  BY <1>3
<1> DEFINE v == After(b, n)
           g == Got(b, n)
<1>5. /\ v.from = b.from + g /\ v.to = b.to /\ v.cap = b.cap - g
      /\ v.fails = b.fails /\ g \in Int
      /\ b.from \in 0..MaxInt /\ b.to \in 0..MaxInt /\ b.cap \in 0..MaxInt
  BY <1>3, <1>4, AfterProper, GotBounds DEF Proper, BodyType
<1>6. /\ body'[r] = v /\ sent'[r] = s /\ todo'[r] = todo[r] /\ status'[r] = 0
      /\ seen'[r].end # "unread" /\ seen'[r].from = Start(b, e)
      /\ seen'[r].end = "eof" => ~Breaks(b)
  BY <1>1, <1>2 DEF BodyInv, TypeOK, Start
<1> HIDE DEF v, g
<1>7. Breaks(v) <=> Breaks(b)  BY <1>5, BodiesAssumption DEF Breaks
<1>8. Accounted(s, v, Start(b, e))  BY <1>2, <1>5, <1>7 DEF Told, Accounted
<1>9. Start(body'[r], seen'[r]) = Start(b, e)  BY <1>6 DEF Start
<1>10. LayersOf(r)' = LayersOf(r)  BY <1>2 DEF LayersOf
<1> QED  BY <1>6, <1>7, <1>8, <1>9, <1>10 DEF Told

LEMMA ToldStep ==
    BodyInv /\ (\A r \in Request : Told(r)) /\ [Next]_vars
        => (\A r \in Request : Told(r))'
<1> SUFFICES ASSUME BodyInv, [Next]_vars, NEW r \in Request, Told(r)
             PROVE  Told(r)'
  OBVIOUS
<1>1. ASSUME NEW q \in Request, Layered(q) \/ HandlerReads(q) PROVE Told(r)'
  <2>1. CASE q = r  BY <1>1, <2>1, ToldLayer, ToldHandler
  <2>2. CASE q # r
    <3>1. /\ sent' = sent /\ todo'[r] = todo[r] /\ status'[r] = status[r]
          /\ body'[r] = body[r] /\ seen'[r] = seen[r]
      <4>1. CASE Layered(q)  BY <2>2, <4>1, LayerSound DEF BodyInv, TypeOK
      <4>2. CASE HandlerReads(q)
        BY <2>2, <4>2, HandlerStep DEF BodyInv, TypeOK
      <4> QED  BY <1>1, <4>1, <4>2
    <3> QED  BY <3>1 DEF Told, LayersOf
  <2> QED  BY <2>1, <2>2
<1>2. CASE UNCHANGED vars  BY <1>2 DEF vars, Told, LayersOf
<1> QED  BY <1>1, <1>2 DEF Next, Finished, Layered

LEMMA ToldInit == Init => \A r \in Request : Told(r)
<1> SUFFICES ASSUME Init, NEW r \in Request PROVE Told(r)
  OBVIOUS
<1>1. sent[r] \in SentType /\ sent[r].arrives <= sent[r].length
  BY BodiesAssumption DEF Init
<1>2. sent[r].length \in 0..MaxInt /\ sent[r].arrives \in 0..MaxInt
  BY <1>1 DEF SentType
<1>3. /\ body[r].from = 0 /\ body[r].to = sent[r].arrives
      /\ body[r].fails = (sent[r].arrives < sent[r].length)
      /\ todo[r] = sent[r].layers /\ seen[r].end = "unread"
  BY DEF Init
<1>4. sent[r].arrives < sent[r].length \/ sent[r].arrives = sent[r].length
  BY <1>1, <1>2, BodiesAssumption
<1>5. Breaks(body[r]) \/ body[r].to = sent[r].length  BY <1>3, <1>4 DEF Breaks
<1> QED  BY <1>3, <1>5 DEF Told, Start, Accounted, LayersOf

LEMMA ToldFollows ==
    BodyInv /\ (\A r \in Request : Told(r)) => WholeOrTold
<1> SUFFICES ASSUME BodyInv, NEW r \in Request, Told(r), seen[r].end = "eof"
             PROVE  \/ seen[r].from = 0 /\ seen[r].to = sent[r].length
                    \/ /\ LayersOf(r) \cap Careless # {} /\ sent[r].post
                       /\ seen[r].from > sent[r].limit
                       /\ seen[r].to = sent[r].length
                    \/ Wraps(sent[r]) /\ seen[r].from = 0 /\ seen[r].to = 0
  BY DEF WholeOrTold
<1>1. RequestInv(r)  BY RequestTypes
<1>2. status[r] = 0 /\ seen[r].to = body[r].to
  BY <1>1 DEF RequestInv, Facing
<1>3. Accounted(sent[r], body[r], seen[r].from) /\ ~Breaks(body[r])
  BY <1>2 DEF Told, Start
<1> QED  BY <1>2, <1>3 DEF Accounted, ReadOver, LayersOf

\* Whoever reads to a regular end has read everything from the first byte to the
\* last, for every body, limit and chain of layers, but where a GraphQL layer went
\* on without the first limit+1 bytes and where limit+1 wraps round.
THEOREM ReadersWholeOrTold == Spec => []WholeOrTold
BY BodyInit, BodyStepKeeps, ToldInit, ToldStep, ToldFollows, PTL DEF Spec
=============================================================================

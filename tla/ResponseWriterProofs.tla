------------------------ MODULE ResponseWriterProofs ------------------------
(***************************************************************************)
(* Lemmas about the stacked response writers: every write of every writer  *)
(* yields a response again, and none touches a committed status, the       *)
(* headers that went out with it, or whose commit it was.                  *)
(***************************************************************************)
EXTENDS ResponseWriter, TLAPS

\* v is w after writes that respect what is on the wire
Follows(w, v) ==
    /\ v \in Response
    /\ w.code # 0 => v.code = w.code /\ v.sent = w.sent /\ v.by = w.by

LEMMA FollowsItself ==
    ASSUME NEW w \in Response
    PROVE  Follows(w, w)
BY DEF Follows

LEMMA FollowsTransitive ==
    ASSUME NEW u \in Response, NEW v, NEW w, Follows(u, v), Follows(v, w)
    PROVE  Follows(u, w)
BY DEF Follows

LEMMA SetHeadersFollows ==
    ASSUME NEW w \in Response, NEW hs \in SUBSET Header
    PROVE  Follows(w, SetHeaders(w, hs))
BY DEF SetHeaders, Response, Follows

LEMMA NewResponseType == NewResponse \in Response
BY DEF NewResponse, Response, Writer
-----------------------------------------------------------------------------
LEMMA CommitFollows ==
    ASSUME NEW w \in Response, NEW code \in Nat, NEW writer \in Writer
    PROVE  Follows(w, Commit(w, code, writer))
BY DEF Commit, Response, Follows

LEMMA WriteBodyFollows ==
    ASSUME NEW w \in Response, NEW src \in Source
    PROVE  Follows(w, WriteBody(w, src))
BY DEF WriteBody, Response, Follows

LEMMA RawHeaderFollows ==
    ASSUME NEW w \in Response, NEW code \in Nat
    PROVE  Follows(w, RawHeader(w, code))
BY CommitFollows DEF RawHeader, Writer

LEMMA RawWriteFollows ==
    ASSUME NEW w \in Response, NEW src \in Source
    PROVE  Follows(w, RawWrite(w, src))
<1> DEFINE v == RawHeader(w, 200)
<1>1. Follows(w, v)  BY RawHeaderFollows
<1>2. v \in Response  BY <1>1 DEF Follows
<1> HIDE DEF v
<1>3. Follows(v, WriteBody(v, src))  BY <1>2, WriteBodyFollows
<1> QED  BY <1>1, <1>3, FollowsTransitive DEF RawWrite, v

LEMMA RawErrorFollows ==
    ASSUME NEW w \in Response, NEW code \in Nat
    PROVE  Follows(w, RawError(w, code))
<1> DEFINE u == SetHeaders(w, {"Content-Type"})
           v == RawHeader(u, code)
<1>1. Follows(w, u)  BY SetHeadersFollows DEF Header
<1>2. u \in Response  BY <1>1 DEF Follows
<1> HIDE DEF u
<1>3. Follows(u, v)  BY <1>2, RawHeaderFollows
<1>4. v \in Response  BY <1>3 DEF Follows
<1> HIDE DEF v
<1>5. Follows(v, RawWrite(v, "error"))  BY <1>4, RawWriteFollows DEF Source
<1>6. Follows(w, RawWrite(v, "error"))
  BY <1>1, <1>2, <1>3, <1>5, FollowsTransitive
<1> QED  BY <1>6 DEF RawError, u, v

LEMMA AppRawFollows ==
    ASSUME NEW w \in Response, NEW code \in Nat
    PROVE  Follows(w, AppRawHeader(w, code)) /\ Follows(w, AppRawWrite(w))
<1>1. \A c \in Nat : Follows(w, AppRawHeader(w, c))
  BY CommitFollows DEF AppRawHeader, Writer
<1> DEFINE v == AppRawHeader(w, 200)
<1>2. Follows(w, v) /\ v \in Response  BY <1>1 DEF Follows
<1> HIDE DEF v
<1>3. Follows(v, WriteBody(v, "app"))  BY <1>2, WriteBodyFollows DEF Source
<1>4. Follows(w, AppRawWrite(w))
  BY <1>2, <1>3, FollowsTransitive DEF AppRawWrite, v
<1> QED  BY <1>1, <1>4
-----------------------------------------------------------------------------
LEMMA RecordedByFollows ==
    ASSUME NEW w \in Response, NEW code \in Nat, NEW writer \in Writer
    PROVE  Follows(w, RecordedBy(w, code, writer))
<1> DEFINE x == [w EXCEPT !.rec = code]
<1>1. x \in Response /\ Follows(w, x)  BY DEF Response, Follows
<1> HIDE DEF x
<1>2. Follows(x, Commit(x, code, writer))  BY <1>1, CommitFollows
<1>3. Follows(w, Commit(x, code, writer))  BY <1>1, <1>2, FollowsTransitive
<1>4. Follows(w, Commit(w, code, writer)) /\ Follows(w, w)
  BY CommitFollows, FollowsItself
<1> QED  BY <1>3, <1>4 DEF RecordedBy, x

LEMMA RecorderHeaderFollows ==
    ASSUME NEW w \in Response, NEW code \in Nat
    PROVE  Follows(w, RecorderHeader(w, code))
BY RecordedByFollows DEF RecorderHeader, Writer

LEMMA CleanerWriteFollows ==
    ASSUME NEW w \in Response, NEW src \in Source
    PROVE  Follows(w, CleanerWrite(w, src))
<1> DEFINE v == RecorderHeader(w, 200)
<1>1. Follows(w, v) /\ v \in Response  BY RecorderHeaderFollows DEF Follows
<1> HIDE DEF v
<1>2. Follows(v, WriteBody(v, src))  BY <1>1, WriteBodyFollows
<1> QED  BY <1>1, <1>2, FollowsTransitive DEF CleanerWrite, RecorderWrite, v
-----------------------------------------------------------------------------
LEMMA CleanerHeaderFollows ==
    ASSUME NEW w \in Response, NEW code \in Nat
    PROVE  Follows(w, CleanerHeader(w, code))
<1> DEFINE v == IF w.cleaned THEN w
                ELSE [w EXCEPT !.hdr = @ \ RemovedHeader, !.cleaned = TRUE]
<1>1. v \in Response /\ Follows(w, v)  BY DEF Response, Follows
<1> HIDE DEF v
<1>2. Follows(v, RecordedBy(v, code, "cleaner"))
  BY <1>1, RecordedByFollows DEF Writer
<1>3. CleanerHeader(w, code) = RecordedBy(v, code, "cleaner")
  BY DEF CleanerHeader, v
<1> QED  BY <1>1, <1>2, <1>3, FollowsTransitive

LEMMA CleanerAnswerFollows ==
    ASSUME NEW w \in Response, NEW code \in Nat, NEW src \in Source
    PROVE  Follows(w, CleanerAnswer(w, code, src))
<1> DEFINE u == SetHeaders(w, {"Content-Type"})
           v == CleanerHeader(u, code)
<1>1. Follows(w, u) /\ u \in Response  BY SetHeadersFollows DEF Header, Follows
<1> HIDE DEF u
<1>2. Follows(u, v) /\ v \in Response  BY <1>1, CleanerHeaderFollows DEF Follows
<1> HIDE DEF v
<1>3. Follows(v, CleanerWrite(v, src))  BY <1>2, CleanerWriteFollows
<1>4. Follows(w, CleanerWrite(v, src))
  BY <1>1, <1>2, <1>3, FollowsTransitive
<1> QED  BY <1>4 DEF CleanerAnswer, u, v
-----------------------------------------------------------------------------
(***************************************************************************)
(* What a response always is, whatever was written to it by whom: the      *)
(* recorder saw the status on the wire or none, unless application code    *)
(* with the raw writer had committed another one; and the cleaner has      *)
(* missed headers to be removed only if it was not asked, or asked about a *)
(* 1xx before.                                                             *)
(***************************************************************************)
Coherent(w) ==
    /\ w.code = 0 <=> w.by = "nobody"
    /\ w.code = 0 => w.sent = {} /\ w.body = {} /\ w.rec = 0
    /\ w.rec # 0 /\ w.by # "app" => w.rec = w.code
    /\ w.by \in {"recorder", "cleaner"} => w.rec = w.code
    /\ w.cleaned /\ w.code = 0 => w.early
    /\ w.by = "cleaner" /\ w.sent \cap RemovedHeader # {} => w.early

\* v is w after a write that may have taken the headers in gone off the live
\* map and put those in new on it
Writes(w, v, gone, new) ==
    /\ Follows(w, v) /\ Coherent(v)
    /\ w.hdr \ v.hdr \subseteq gone
    /\ v.hdr \ w.hdr \subseteq new
    /\ w.code = 0 /\ v.code # 0 => v.sent = v.hdr

\* Only headers change.
LEMMA HeadersCoherent ==
    ASSUME NEW w \in Response, Coherent(w), NEW hs \in SUBSET Header,
           NEW v, v = [w EXCEPT !.hdr = hs]
    PROVE  /\ Writes(w, v, w.hdr \ hs, hs \ w.hdr)
           /\ v.by = w.by /\ v.body = w.body /\ v.code = w.code
<1>1. /\ v \in Response /\ v.hdr = hs /\ v.code = w.code /\ v.sent = w.sent
      /\ v.by = w.by /\ v.rec = w.rec /\ v.body = w.body
      /\ v.cleaned = w.cleaned /\ v.early = w.early
  BY DEF Response
<1> QED  BY <1>1 DEF Writes, Follows, Coherent

LEMMA SetHeadersCoherent ==
    ASSUME NEW w \in Response, Coherent(w), NEW hs \in SUBSET Header
    PROVE  LET v == SetHeaders(w, hs)
           IN  /\ Writes(w, v, {}, hs) /\ v.hdr = w.hdr \cup hs
               /\ v.by = w.by /\ v.body = w.body /\ v.code = w.code /\ v.rec = w.rec
<1> DEFINE v == SetHeaders(w, hs)
<1>1. /\ v \in Response /\ v.hdr = w.hdr \cup hs /\ v.code = w.code
      /\ v.sent = w.sent /\ v.by = w.by /\ v.rec = w.rec /\ v.body = w.body
      /\ v.cleaned = w.cleaned /\ v.early = w.early
  BY DEF Response, SetHeaders
<1> HIDE DEF v
<1>2. Writes(w, v, {}, hs)  BY <1>1 DEF Writes, Follows, Coherent
<1> QED  BY <1>1, <1>2 DEF v

\* Bytes on a committed response.
LEMMA WriteBodyCoherent ==
    ASSUME NEW w \in Response, Coherent(w), w.code # 0, NEW src \in Source
    PROVE  LET v == WriteBody(w, src)
           IN  /\ Writes(w, v, {}, {}) /\ v.hdr = w.hdr /\ v.sent = w.sent
               /\ v.code = w.code /\ v.by = w.by /\ v.body = w.body \cup {src}
<1> DEFINE v == WriteBody(w, src)
<1>1. /\ v \in Response /\ v.hdr = w.hdr /\ v.code = w.code
      /\ v.sent = w.sent /\ v.by = w.by /\ v.rec = w.rec
      /\ v.body = w.body \cup {src}
      /\ v.cleaned = w.cleaned /\ v.early = w.early
  BY DEF Response, WriteBody
<1> HIDE DEF v
<1>2. Writes(w, v, {}, {})  BY <1>1 DEF Writes, Follows, Coherent
<1> QED  BY <1>1, <1>2 DEF v

\* A status from someone the recorder does not see.
LEMMA OutsideCommit ==
    ASSUME NEW w \in Response, Coherent(w), NEW code \in Nat \ {0},
           NEW writer \in {"raw", "app"}
    PROVE  LET v == Commit(w, code, writer)
           IN  /\ Writes(w, v, {}, {}) /\ v.hdr = w.hdr /\ v.body = w.body
               /\ v.rec = w.rec
               /\ w.code # 0 => v = w
               /\ v.by \in {w.by, writer}
               /\ w.code = 0 /\ code \notin Informational
                     => v.code = code /\ v.by = writer
<1>1. CASE w.code # 0
  BY <1>1, FollowsItself DEF Commit, Writes
<1>2. CASE w.code = 0 /\ code \in Informational
  <2> DEFINE v == [w EXCEPT !.early = TRUE]
  <2>1. Commit(w, code, writer) = v  BY <1>2 DEF Commit
  <2>2. /\ v \in Response /\ v.code = 0 /\ v.sent = w.sent /\ v.hdr = w.hdr
        /\ v.rec = w.rec /\ v.body = w.body /\ v.by = w.by /\ v.early = TRUE
    BY <1>2 DEF Response
  <2> HIDE DEF v
  <2>3. Writes(w, v, {}, {})  BY <1>2, <2>2 DEF Writes, Follows, Coherent
  <2> QED  BY <1>2, <2>1, <2>2, <2>3
<1>3. CASE w.code = 0 /\ code \notin Informational
  <2> DEFINE v == [w EXCEPT !.code = code, !.sent = w.hdr, !.by = writer]
  <2>1. Commit(w, code, writer) = v  BY <1>3 DEF Commit
  <2>2. /\ v \in Response /\ v.code = code /\ v.sent = w.hdr /\ v.hdr = w.hdr
        /\ v.rec = w.rec /\ v.body = w.body /\ v.by = writer
    BY DEF Response, Writer
  <2> HIDE DEF v
  <2>3. Writes(w, v, {}, {})  BY <1>3, <2>2 DEF Writes, Follows, Coherent
  <2> QED  BY <1>3, <2>1, <2>2, <2>3
<1> QED  BY <1>1, <1>2, <1>3

\* An outer layer's status: the recorder does not see it, the headers stay live.
LEMMA RawHeaderCoherent ==
    ASSUME NEW w \in Response, Coherent(w), NEW code \in Nat \ {0},
           code \notin Informational
    PROVE  LET v == RawHeader(w, code)
           IN  /\ Writes(w, v, {}, {}) /\ v.hdr = w.hdr /\ v.body = w.body
               /\ v.rec = w.rec
               /\ v.code = IF w.code # 0 THEN w.code ELSE code
               /\ v.by = IF w.code # 0 THEN w.by ELSE "raw"
BY OutsideCommit DEF RawHeader

\* An outer layer's error.
LEMMA RawErrorCoherent ==
    ASSUME NEW w \in Response, Coherent(w), NEW code \in Nat \ {0},
           code \notin Informational
    PROVE  LET v == RawError(w, code)
           IN  /\ Writes(w, v, {}, {"Content-Type"})
               /\ v.body = w.body \cup {"error"}
               /\ v.code = IF w.code # 0 THEN w.code ELSE code
               /\ v.by = IF w.code # 0 THEN w.by ELSE "raw"
<1> DEFINE t == SetHeaders(w, {"Content-Type"})
           u == RawHeader(t, code)
           v == WriteBody(u, "error")
<1>1. /\ Writes(w, t, {}, {"Content-Type"}) /\ t.body = w.body
      /\ t.code = w.code /\ t.by = w.by
  BY SetHeadersCoherent DEF Header
<1>2. t \in Response /\ Coherent(t)  BY <1>1 DEF Writes, Follows
<1> HIDE DEF t
<1>3. /\ Writes(t, u, {}, {}) /\ u.hdr = t.hdr /\ u.body = t.body
      /\ u.code = IF t.code # 0 THEN t.code ELSE code
      /\ u.by = IF t.code # 0 THEN t.by ELSE "raw"
  BY <1>2, RawHeaderCoherent
<1>4. u \in Response /\ Coherent(u) /\ u.code # 0  BY <1>3 DEF Writes, Follows
<1> HIDE DEF u
<1>5. /\ Writes(u, v, {}, {}) /\ v.hdr = u.hdr /\ v.sent = u.sent
      /\ v.code = u.code /\ v.by = u.by /\ v.body = u.body \cup {"error"}
  BY <1>4, WriteBodyCoherent DEF Source
<1>6. RawError(w, code) = v
  BY <1>4 DEF RawError, RawWrite, RawHeader, Commit, t, u
<1> HIDE DEF v
<1>7. Writes(w, v, {}, {"Content-Type"})
  BY <1>1, <1>3, <1>5 DEF Writes, Follows
<1> QED  BY <1>1, <1>3, <1>5, <1>6, <1>7

\* A limiter hook's status or bytes: nobody inside hears of them.
LEMMA AppRawCoherent ==
    ASSUME NEW w \in Response, Coherent(w), NEW code \in Nat \ {0},
           NEW v, v = AppRawHeader(w, code) \/ v = AppRawWrite(w)
    PROVE  /\ Writes(w, v, {}, {}) /\ v.by \in {w.by, "app"}
           /\ v.body \subseteq w.body \cup {"app"}
<1>1. CASE v = AppRawHeader(w, code)
  BY <1>1, OutsideCommit DEF AppRawHeader
<1>2. CASE v = AppRawWrite(w)
  <2> DEFINE u == Commit(w, 200, "app")
  <2>1. 200 \in Nat \ {0} /\ 200 \notin Informational  BY DEF Informational
  <2>2. /\ Writes(w, u, {}, {}) /\ u.hdr = w.hdr /\ u.body = w.body
        /\ u.by \in {w.by, "app"} /\ u.code # 0
    BY <2>1, OutsideCommit
  <2>3. u \in Response /\ Coherent(u)  BY <2>2 DEF Writes, Follows
  <2>4. v = WriteBody(u, "app")  BY <1>2 DEF AppRawWrite, AppRawHeader
  <2> HIDE DEF u
  <2>5. /\ Writes(u, v, {}, {}) /\ v.hdr = u.hdr /\ v.sent = u.sent
        /\ v.code = u.code /\ v.by = u.by /\ v.body = u.body \cup {"app"}
    BY <2>2, <2>3, <2>4, WriteBodyCoherent DEF Source
  <2> QED  BY <2>2, <2>5 DEF Writes, Follows
<1> QED  BY <1>1, <1>2
-----------------------------------------------------------------------------
\* The handler's side, inside Logger: nobody outside has answered but perhaps
\* a hook.
LEMMA RecordedByCoherent ==
    ASSUME NEW w \in Response, Coherent(w), w.by # "raw", NEW code \in Nat \ {0},
           NEW writer \in {"recorder", "cleaner"},
           writer = "cleaner" /\ w.hdr \cap RemovedHeader # {} => w.early
    PROVE  LET v == RecordedBy(w, code, writer)
           IN  /\ Writes(w, v, {}, {}) /\ v.hdr = w.hdr /\ v.body = w.body
               /\ v.by \in {w.by, writer} /\ v.cleaned = w.cleaned
               /\ code \notin Informational => v.code # 0
               /\ w.code # 0 => v.sent = w.sent
<1>1. CASE code \in Informational
  <2>1. CASE w.code # 0
    BY <1>1, <2>1, FollowsItself DEF RecordedBy, Commit, Writes
  <2>2. CASE w.code = 0
    <3> DEFINE v == [w EXCEPT !.early = TRUE]
    <3>1. RecordedBy(w, code, writer) = v  BY <1>1, <2>2 DEF RecordedBy, Commit
    <3>2. /\ v \in Response /\ v.code = 0 /\ v.sent = w.sent /\ v.hdr = w.hdr
          /\ v.rec = w.rec /\ v.body = w.body /\ v.by = w.by /\ v.early = TRUE
          /\ v.cleaned = w.cleaned
      BY <2>2 DEF Response
    <3> HIDE DEF v
    <3>3. Writes(w, v, {}, {})  BY <2>2, <3>2 DEF Writes, Follows, Coherent
    <3> QED  BY <1>1, <2>2, <3>1, <3>2, <3>3
  <2> QED  BY <2>1, <2>2
<1>2. CASE code \notin Informational /\ w.rec # 0
  <2>1. RecordedBy(w, code, writer) = w /\ w.code # 0
    BY <1>2 DEF RecordedBy, Coherent
  <2> QED  BY <2>1, FollowsItself DEF Writes
<1>3. CASE code \notin Informational /\ w.rec = 0 /\ w.code # 0
  <2> DEFINE v == [w EXCEPT !.rec = code]
  <2>1. RecordedBy(w, code, writer) = v
    BY <1>3 DEF RecordedBy, Commit, Response
  <2>2. /\ v \in Response /\ v.code = w.code /\ v.sent = w.sent /\ v.hdr = w.hdr
        /\ v.rec = code /\ v.body = w.body /\ v.by = w.by /\ v.early = w.early
        /\ v.cleaned = w.cleaned
    BY DEF Response
  <2>3. w.by = "app"  BY <1>3 DEF Coherent, Response, Writer
  <2> HIDE DEF v
  <2>4. Writes(w, v, {}, {})  BY <1>3, <2>2, <2>3 DEF Writes, Follows, Coherent
  <2> QED  BY <1>3, <2>1, <2>2, <2>4
<1>4. CASE code \notin Informational /\ w.rec = 0 /\ w.code = 0
  <2> DEFINE v == [w EXCEPT !.rec = code, !.code = code, !.sent = w.hdr,
                            !.by = writer]
  <2>1. RecordedBy(w, code, writer) = v
    BY <1>4 DEF RecordedBy, Commit, Response
  <2>2. /\ v \in Response /\ v.code = code /\ v.sent = w.hdr /\ v.hdr = w.hdr
        /\ v.rec = code /\ v.body = w.body /\ v.by = writer /\ v.early = w.early
        /\ v.cleaned = w.cleaned
    BY DEF Response, Writer
  <2> HIDE DEF v
  <2>3. Writes(w, v, {}, {})  BY <1>4, <2>2 DEF Writes, Follows, Coherent
  <2> QED  BY <1>4, <2>1, <2>2, <2>3
<1> QED  BY <1>1, <1>2, <1>3, <1>4

\* The first status the handler states finds the headers cleaned, or a 1xx
\* went before it.
LEMMA CleanerHeaderCoherent ==
    ASSUME NEW w \in Response, Coherent(w), w.by # "raw", NEW code \in Nat \ {0}
    PROVE  LET v == CleanerHeader(w, code)
           IN  /\ Writes(w, v, RemovedHeader, {}) /\ v.body = w.body
               /\ v.by \in {w.by, "cleaner"}
               /\ code \notin Informational => v.code # 0
<1> DEFINE v == CleanerHeader(w, code)
<1>1. CASE w.cleaned
  <2> DEFINE x == RecordedBy(w, code, "cleaner")
  <2>1. v = x  BY <1>1 DEF CleanerHeader
  <2> HIDE DEF v
  <2>2. CASE w.code = 0
    <3>1. w.early  BY <1>1, <2>2 DEF Coherent
    <3>2. /\ Writes(w, x, {}, {}) /\ x.body = w.body /\ x.by \in {w.by, "cleaner"}
          /\ code \notin Informational => x.code # 0
      BY <3>1, RecordedByCoherent
    <3> HIDE DEF x
    <3> QED  BY <2>1, <3>2 DEF Writes, v
  <2>3. CASE w.code # 0
    <3>1. x = RecordedBy(w, code, "recorder")
      BY <2>3 DEF RecordedBy, Commit, Response
    <3>2. /\ Writes(w, x, {}, {}) /\ x.body = w.body
          /\ code \notin Informational => x.code # 0
      BY <3>1, RecordedByCoherent
    <3>3. x.by = w.by  BY <2>3, <3>2 DEF Writes, Follows
    <3> HIDE DEF x
    <3> QED  BY <2>1, <3>2, <3>3 DEF Writes, v
  <2> QED  BY <2>2, <2>3
<1>2. CASE ~w.cleaned
  <2> DEFINE x == [w EXCEPT !.hdr = @ \ RemovedHeader, !.cleaned = TRUE]
             y == RecordedBy(x, code, "cleaner")
  <2>1. v = y  BY <1>2 DEF CleanerHeader
  <2>2. /\ x \in Response /\ x.code = w.code /\ x.sent = w.sent
        /\ x.hdr = w.hdr \ RemovedHeader /\ x.rec = w.rec /\ x.body = w.body
        /\ x.by = w.by /\ x.early = w.early /\ x.cleaned = TRUE
    BY DEF Response
  <2> HIDE DEF x
  <2>3. CASE w.code # 0
    <3>1. Coherent(x)  BY <2>2, <2>3 DEF Coherent
    <3>2. /\ Writes(x, y, {}, {}) /\ y.hdr = x.hdr /\ y.body = x.body
          /\ y.by \in {x.by, "cleaner"} /\ y.sent = x.sent
          /\ code \notin Informational => y.code # 0
      BY <2>2, <2>3, <3>1, RecordedByCoherent
    <3>3. Writes(w, y, RemovedHeader, {})
      BY <2>2, <2>3, <3>2 DEF Writes, Follows
    <3> QED  BY <2>1, <2>2, <3>2, <3>3
  <2>4. CASE w.code = 0 /\ code \in Informational
    <3> DEFINE z == [x EXCEPT !.early = TRUE]
    <3>1. y = z  BY <2>2, <2>4 DEF RecordedBy, Commit
    <3>2. /\ z \in Response /\ z.code = 0 /\ z.sent = w.sent
          /\ z.hdr = w.hdr \ RemovedHeader /\ z.rec = w.rec /\ z.body = w.body
          /\ z.by = w.by /\ z.early = TRUE /\ z.cleaned = TRUE
      BY <2>2, <2>4 DEF Response
    <3> HIDE DEF z
    <3>3. Writes(w, z, RemovedHeader, {})
      BY <2>4, <3>2 DEF Writes, Follows, Coherent
    <3> QED  BY <2>1, <2>4, <3>1, <3>2, <3>3
  <2>5. CASE w.code = 0 /\ code \notin Informational
    <3> DEFINE z == [x EXCEPT !.rec = code, !.code = code, !.sent = x.hdr,
                              !.by = "cleaner"]
    <3>1. x.rec = 0  BY <2>2, <2>5 DEF Coherent
    <3>2. y = z  BY <2>2, <2>5, <3>1 DEF RecordedBy, Commit, Response
    <3>3. /\ z \in Response /\ z.code = code /\ z.sent = x.hdr /\ z.hdr = x.hdr
          /\ z.rec = code /\ z.body = w.body /\ z.by = "cleaner" /\ z.cleaned = TRUE
      BY <2>2 DEF Response, Writer
    <3> HIDE DEF z
    <3>4. Writes(w, z, RemovedHeader, {})
      BY <2>2, <2>5, <3>3 DEF Writes, Follows, Coherent
    <3> QED  BY <2>1, <2>5, <3>2, <3>3, <3>4
  <2> QED  BY <2>3, <2>4, <2>5
<1> QED  BY <1>1, <1>2

LEMMA CleanerWriteCoherent ==
    ASSUME NEW w \in Response, Coherent(w), w.by # "raw", NEW src \in Source
    PROVE  LET v == CleanerWrite(w, src)
           IN  /\ Writes(w, v, {}, {}) /\ v.code # 0 /\ v.hdr = w.hdr
               /\ v.by \in {w.by, "recorder"}
               /\ v.body = w.body \cup {src}
               /\ w.code # 0 => v.sent = w.sent
<1> DEFINE u == RecordedBy(w, 200, "recorder")
           v == WriteBody(u, src)
<1>1. 200 \in Nat \ {0} /\ 200 \notin Informational  BY DEF Informational
<1>2. /\ Writes(w, u, {}, {}) /\ u.hdr = w.hdr /\ u.body = w.body
      /\ u.by \in {w.by, "recorder"} /\ u.code # 0
      /\ w.code # 0 => u.sent = w.sent
  BY <1>1, RecordedByCoherent
<1>3. u \in Response /\ Coherent(u)  BY <1>2 DEF Writes, Follows
<1>4. CleanerWrite(w, src) = v  BY DEF CleanerWrite, RecorderWrite, RecorderHeader
<1> HIDE DEF u
<1>5. /\ Writes(u, v, {}, {}) /\ v.hdr = u.hdr /\ v.sent = u.sent
      /\ v.code = u.code /\ v.by = u.by /\ v.body = u.body \cup {src}
  BY <1>2, <1>3, WriteBodyCoherent
<1> HIDE DEF v
<1>6. Writes(w, v, {}, {})  BY <1>2, <1>5 DEF Writes, Follows
<1> QED  BY <1>2, <1>4, <1>5, <1>6

LEMMA CleanerAnswerCoherent ==
    ASSUME NEW w \in Response, Coherent(w), w.by # "raw",
           NEW code \in Nat \ {0}, NEW src \in Source
    PROVE  LET v == CleanerAnswer(w, code, src)
           IN  /\ Writes(w, v, RemovedHeader, {"Content-Type"}) /\ v.code # 0
               /\ v.by \in {w.by, "recorder", "cleaner"}
<1> DEFINE t == SetHeaders(w, {"Content-Type"})
           u == CleanerHeader(t, code)
           v == CleanerWrite(u, src)
<1>1. /\ Writes(w, t, {}, {"Content-Type"}) /\ t.code = w.code /\ t.by = w.by
  BY SetHeadersCoherent DEF Header
<1>2. t \in Response /\ Coherent(t)  BY <1>1 DEF Writes, Follows
<1> HIDE DEF t
<1>3. Writes(t, u, RemovedHeader, {}) /\ u.by \in {t.by, "cleaner"}
  BY <1>1, <1>2, CleanerHeaderCoherent
<1>4. u \in Response /\ Coherent(u) /\ u.by # "raw"
  BY <1>1, <1>3 DEF Writes, Follows
<1> HIDE DEF u
<1>5. /\ Writes(u, v, {}, {}) /\ v.code # 0 /\ v.hdr = u.hdr
      /\ v.by \in {u.by, "recorder"}
      /\ u.code # 0 => v.sent = u.sent
  BY <1>4, CleanerWriteCoherent
<1>6. CleanerAnswer(w, code, src) = v  BY DEF CleanerAnswer, t, u
<1> HIDE DEF v
<1>7. Writes(w, v, RemovedHeader, {"Content-Type"})
  BY <1>1, <1>3, <1>5 DEF Writes, Follows
<1> QED  BY <1>1, <1>3, <1>5, <1>6, <1>7
=============================================================================

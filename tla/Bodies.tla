------------------------------- MODULE Bodies -------------------------------
(***************************************************************************)
(* How one request's body is read, restored, capped and read again on its  *)
(* way through a chain: ReadAndRestoreBody and MaxBodySize of              *)
(* src/middleware.go, and the layers that call them.  Bytes are counted,   *)
(* not stored: whoever reads gets the bytes from+1..to of what the client  *)
(* sent.  Lengths and limits are machine integers, so that limit+1 can     *)
(* wrap round.                                                             *)
(*                                                                         *)
(*   sent[r]     the request and the server it goes to (see SentType), fixed*)
(*   todo[r]     the layers still ahead, the handler excluded              *)
(*   body[r]     r.Body: the bytes from+1..to are left, then reading ends, *)
(*               or fails if the client has gone; cap is what MaxBytesReader*)
(*               still lets through                                        *)
(*   checked[r]  the bytes that some layer took for the body and judged    *)
(*   seen[r]     the bytes the handler has read, and how reading ended     *)
(*   status[r]   the status a layer refused the request with, or 0         *)
(***************************************************************************)
EXTENDS Integers, Sequences, FiniteSets

CONSTANTS Request,
          MaxInt,          \* the largest int64
          Sents            \* what clients may send, to which servers

Layer == {"Ensure", "Logger", "MaxBodySize", "Introspection", "GraphQL"}

SentType ==
    [length : 0..MaxInt,        \* the bytes the client has to send
     arrives : 0..MaxInt,       \* those it sends before it goes away
     announced : BOOLEAN,       \* with a Content-Length, or chunked
     type : {"none", "json", "multipart", "other"},
     post : BOOLEAN,
     introspects : BOOLEAN,     \* the query is an introspection query
     layers : Seq(Layer),       \* the layers of the chain that touch the body
     limit : 0..MaxInt,         \* Config.RequestBodyNonFileLimitSize
     fileLimit : 0..MaxInt]     \* Config.RequestBodyLimitSize

ASSUME BodiesAssumption ==
    /\ MaxInt \in Nat
    /\ Sents \subseteq {s \in SentType : s.arrives <= s.length}

VARIABLES sent, todo, body, checked, seen, status

vars == <<sent, todo, body, checked, seen, status>>

\* two's complement
Wrap(n) == ((n + MaxInt + 1) % (2 * (MaxInt + 1))) - (MaxInt + 1)

Least(m, n) == IF m <= n THEN m ELSE n
-----------------------------------------------------------------------------
\* Readers.  MaxBytesReader gives its cap and then an error; the connection
\* gives what arrived and then an error if that was not everything

Readable(b) == Least(b.to - b.from, b.cap)

Breaks(b) == b.fails \/ b.to - b.from > b.cap

\* Reading up to n bytes: what was got, and whether an error was met
BadGot(b, n) == Least(n, Readable(b))
Got(b, n) == IF n <= 0 THEN 0 ELSE Least(n, Readable(b))

Fails(b, n) == n > Readable(b) /\ n > 0 /\ Breaks(b)

After(b, n) == [b EXCEPT !.from = @ + Got(b, n), !.cap = @ - Got(b, n)]

(***************************************************************************)
(* ReadAndRestoreBody(r, limit): io.ReadAll of an io.LimitReader over      *)
(* limit+1 bytes.  A body that fails, or is longer than the limit, is left *)
(* as far as it was read; otherwise what was read becomes the body again.  *)
(***************************************************************************)
Reads(s) == Wrap(s.limit + 1)

BadTooLong(s, b) == Got(b, Reads(s)) >= s.limit
TooLong(s, b) == Got(b, Reads(s)) > s.limit

BadReadError(s, b) == s.type # "multipart" /\ TooLong(s, b)
ReadError(s, b) ==
    s.type # "multipart" /\ (Fails(b, Reads(s)) \/ TooLong(s, b))

BadRestored(s, b) == IF s.type = "multipart" THEN b ELSE After(b, Reads(s))
Restored(s, b) ==
    IF s.type = "multipart" THEN b
    ELSE IF ReadError(s, b) THEN After(b, Reads(s))
    ELSE [from |-> b.from, to |-> b.from + Got(b, Reads(s)), fails |-> FALSE, cap |-> MaxInt]

\* what a layer that calls it takes for the whole body
Judged(s, b) ==
    IF s.type = "multipart" THEN {}
    ELSE {[from |-> b.from, to |-> b.from + Got(b, Reads(s))]}
-----------------------------------------------------------------------------
Init ==
    /\ sent \in [Request -> Sents]
    /\ todo = [r \in Request |-> sent[r].layers]
    /\ body = [r \in Request |-> [from |-> 0, to |-> sent[r].arrives, cap |-> MaxInt,
                                  fails |-> sent[r].arrives < sent[r].length]]
    /\ checked = [r \in Request |-> {}]
    /\ seen = [r \in Request |-> [from |-> 0, to |-> 0, end |-> "unread"]]
    /\ status = [r \in Request |-> 0]

Reaches(r, l) == status[r] = 0 /\ todo[r] # << >> /\ Head(todo[r]) = l

Pass(r) == todo' = [todo EXCEPT ![r] = Tail(@)] /\ UNCHANGED status

Refuse(r, code) == status' = [status EXCEPT ![r] = code] /\ UNCHANGED todo

ReadBody(r) == body' = [body EXCEPT ![r] = Restored(sent[r], @)]

JudgeBody(r) == checked' = [checked EXCEPT ![r] = @ \cup Judged(sent[r], body[r])]

\* The client signed the body it means to send; uploads are not signed
Ensure(r) ==
    /\ Reaches(r, "Ensure")
    /\ ReadBody(r)
    /\ IF /\ ~ReadError(sent[r], body[r])
          /\ Judged(sent[r], body[r]) \subseteq {[from |-> 0, to |-> sent[r].length]}
       THEN Pass(r) /\ JudgeBody(r)
       ELSE Refuse(r, 401) /\ UNCHANGED checked
    /\ UNCHANGED <<sent, seen>>

\* with LogRequestBodies
Logger(r) ==
    /\ Reaches(r, "Logger")
    /\ ReadBody(r)
    /\ IF ~ReadError(sent[r], body[r])
       THEN Pass(r) /\ JudgeBody(r)
       ELSE Refuse(r, 400) /\ UNCHANGED checked
    /\ UNCHANGED <<sent, seen>>

LimitFor(s) == IF s.type = "multipart" THEN s.fileLimit ELSE s.limit

\* r.ContentLength is -1 for a chunked body
ContentLength(s) == IF s.announced THEN s.length ELSE -1

Bodyless(s) == s.type = "none" /\ ContentLength(s) = 0

\* the status MaxBodySize refuses with, or 0
SizeStatus(s) ==
    IF Bodyless(s) THEN 0
    ELSE IF s.type \notin {"json", "multipart"} THEN 400
    ELSE IF ContentLength(s) > LimitFor(s) THEN 413 ELSE 0

BadMaxBodySize(r) ==
    /\ Reaches(r, "MaxBodySize")
    /\ IF SizeStatus(sent[r]) = 0 THEN Pass(r) ELSE Refuse(r, SizeStatus(sent[r]))
    /\ UNCHANGED <<sent, body, checked, seen>>
MaxBodySize(r) ==
    /\ Reaches(r, "MaxBodySize")
    /\ IF SizeStatus(sent[r]) = 0
       THEN /\ Pass(r)
            /\ body' = IF Bodyless(sent[r]) THEN body
                       ELSE [body EXCEPT ![r].cap = Least(@, LimitFor(sent[r]))]
       ELSE Refuse(r, SizeStatus(sent[r])) /\ UNCHANGED body
    /\ UNCHANGED <<sent, checked, seen>>

\* GraphQLBlockIntrospection: a body it cannot read it does not judge, and
\* half a query does not decode
BlockIntrospection(r) ==
    /\ Reaches(r, "Introspection")
    /\ IF ~sent[r].post
       THEN Pass(r) /\ UNCHANGED <<body, checked>>
       ELSE /\ ReadBody(r)
            /\ IF ReadError(sent[r], body[r])
               THEN Pass(r) /\ UNCHANGED checked
               ELSE /\ JudgeBody(r)
                    /\ IF /\ sent[r].introspects /\ sent[r].length > 0
                          /\ Judged(sent[r], body[r]) = {[from |-> 0, to |-> sent[r].length]}
                       THEN Refuse(r, 403) ELSE Pass(r)
    /\ UNCHANGED <<sent, seen>>

\* GraphQLChain: the query is extracted if the body can be read
GraphQL(r) ==
    /\ Reaches(r, "GraphQL")
    /\ IF sent[r].post
       THEN /\ ReadBody(r)
            /\ IF ReadError(sent[r], body[r]) THEN UNCHANGED checked ELSE JudgeBody(r)
       ELSE UNCHANGED <<body, checked>>
    /\ Pass(r)
    /\ UNCHANGED <<sent, seen>>

\* The handler reads, in pieces of any size, until it is told to stop
HandlerReads(r) ==
    /\ status[r] = 0 /\ todo[r] = << >> /\ seen[r].end \in {"unread", "more"}
    /\ \E n \in 1..(Readable(body[r]) + 1) :
         /\ body' = [body EXCEPT ![r] = After(@, n)]
         /\ seen' = [seen EXCEPT ![r] =
                       [from |-> IF @.end = "unread" THEN body[r].from ELSE @.from,
                        to   |-> body[r].from + Got(body[r], n),
                        end  |-> IF n <= Readable(body[r]) THEN "more"
                                 ELSE IF Breaks(body[r]) THEN "error" ELSE "eof"]]
    /\ UNCHANGED <<sent, todo, checked, status>>

Over(r) == status[r] # 0 \/ seen[r].end \in {"eof", "error"}

Finished == (\A r \in Request : Over(r)) /\ UNCHANGED vars

Next ==
    \/ \E r \in Request :
          \/ Ensure(r) \/ Logger(r) \/ MaxBodySize(r)
          \/ BlockIntrospection(r) \/ GraphQL(r) \/ HandlerReads(r)
    \/ Finished

Spec == Init /\ [][Next]_vars
-----------------------------------------------------------------------------
\* Every variable has its type.
TypeOK ==
    /\ sent \in [Request -> Sents]
    /\ todo \in [Request -> Seq(Layer)]
    /\ body \in [Request -> [from : 0..MaxInt, to : 0..MaxInt,
                             cap : 0..MaxInt, fails : BOOLEAN]]
    /\ checked \in [Request -> SUBSET [from : 0..MaxInt, to : 0..MaxInt]]
    /\ seen \in [Request -> [from : 0..MaxInt, to : 0..MaxInt,
                             end : {"unread", "more", "eof", "error"}]]
    /\ status \in [Request -> {0, 400, 401, 403, 413}]

\* What a layer judged is what the handler gets: a body that was verified, logged
\* or measured for depth is neither cut, nor continued, nor read from another
\* place afterwards (ReadAndRestoreBody and its five callers).
ServedAsJudged ==
    \A r \in Request : \A k \in checked[r] :
        /\ seen[r].end # "unread" => seen[r].from = k.from /\ seen[r].to <= k.to
        /\ seen[r].end = "eof" => seen[r].to = k.to

Wraps(s) == s.limit = MaxInt

\* the layers that go on after a read that failed
Careless == {"Introspection", "GraphQL"}

LayersOf(r) == {sent[r].layers[i] : i \in DOMAIN sent[r].layers}

\* A handler that is not told of an error has read all that the client sent,
\* except where a GraphQL layer went on with a body over the limit, of which the
\* first limit+1 bytes are gone, and where limit+1 wraps round, and the body reads
\* as empty (ReadAndRestoreBody).
WholeOrTold ==
    \A r \in Request :
        seen[r].end = "eof" =>
            \/ seen[r].from = 0 /\ seen[r].to = sent[r].length
            \/ /\ LayersOf(r) \cap Careless # {} /\ sent[r].post
               /\ seen[r].from > sent[r].limit
               /\ seen[r].to = sent[r].length
            \/ Wraps(sent[r]) /\ seen[r].from = 0 /\ seen[r].to = 0

\* Behind MaxBodySize no handler gets more bytes than the limit for their kind,
\* announced or not, and no layer takes more than the limit for a body ("OOM
\* Guard", README.md:10).
BodiesCapped ==
    \A r \in Request :
        /\ "MaxBodySize" \in LayersOf(r) => seen[r].to - seen[r].from <= LimitFor(sent[r])
        /\ \A k \in checked[r] : k.to - k.from <= sent[r].limit

\* A body of exactly the limit is within the limit, for every layer: a request
\* that arrives in full, within the limit for its kind and of an allowed type, is
\* never refused on account of its body. The largest integer is excluded as a
\* limit: limit+1 is then negative, the reader sees an empty body, and the
\* signature gate refuses every body that was signed.
NoFalseRefusal ==
    \A r \in Request :
        /\ sent[r].arrives = sent[r].length
        /\ sent[r].length <= LimitFor(sent[r])
        /\ sent[r].type \in {"json", "multipart"}
        /\ ~sent[r].introspects
        /\ ~Wraps(sent[r])
        => status[r] = 0
-----------------------------------------------------------------------------
\* Statements of the repository that the code does not keep

\* src/middleware.go:600: the body is restored so that subsequent handlers can
\* read it again
RestoredForHandlers ==
    \A r \in Request : seen[r].end = "eof" => seen[r].from = 0
=============================================================================

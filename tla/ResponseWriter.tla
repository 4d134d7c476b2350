--------------------------- MODULE ResponseWriter ---------------------------
(***************************************************************************)
(* What happens to one HTTP response as the layers of a chain write to it. *)
(* Three writers are stacked: net/http's own writer ("raw", seen by every  *)
(* layer outside Logger), the responseRecorder Logger puts around it, and  *)
(* the headerCleanerResponseWriter RemoveHeaders puts around the recorder. *)
(* They share ONE header map; the raw writer freezes it when the first     *)
(* status or the first byte is written.                                    *)
(*   code    status on the wire, 0 until committed                         *)
(*   hdr     the live header map       sent  the headers frozen by commit  *)
(*   body    who contributed bytes     rec   status the recorder saw       *)
(*   cleaned the cleaner's flag        early  whether a 1xx was sent before *)
(*   by      history: whose WriteHeader, or Write without one, committed   *)
(* Values of headers and bytes of bodies are abstracted to their origin.   *)
(***************************************************************************)
EXTENDS Integers

CONSTANT RemovedHeader     \* Config.HeadersToRemove

Header == {"Allow-Origin", "Allow-Methods", "Security", "Content-Type"}
            \cup RemovedHeader

Source == {"app", "error"}

\* "app" is application code that was given the raw writer itself
Writer == {"nobody", "raw", "recorder", "cleaner", "app"}

Response == [code : Nat, hdr : SUBSET Header, sent : SUBSET Header,
             body : SUBSET Source, rec : Nat, cleaned : BOOLEAN, early : BOOLEAN,
             by : Writer]

NewResponse == [code |-> 0, hdr |-> {}, sent |-> {},
                body |-> {}, rec |-> 0, cleaned |-> FALSE, early |-> FALSE,
                by |-> "nobody"]

SetHeaders(w, hs) == [w EXCEPT !.hdr = @ \cup hs]
-----------------------------------------------------------------------------
\* what precedes a response instead of being one
Informational == (100..199) \ {101}

\* net/http: the first status wins and freezes the headers
Commit(w, code, writer) ==
    IF w.code # 0 THEN w
    ELSE IF code \in Informational THEN [w EXCEPT !.early = TRUE]
    ELSE [w EXCEPT !.code = code, !.sent = w.hdr, !.by = writer]

WriteBody(w, src) == [w EXCEPT !.body = @ \cup {src}]

RawHeader(w, code) == Commit(w, code, "raw")

\* net/http: a body write on an uncommitted response commits 200
RawWrite(w, src) == WriteBody(RawHeader(w, 200), src)

\* writeJSON, and http.Error: the content type goes into the live header map
\* before the status, and stays there if the status comes too late
RawError(w, code) ==
    RawWrite(RawHeader(SetHeaders(w, {"Content-Type"}), code), "error")

\* the application's limiter hooks and WebSocket handlers
AppRawHeader(w, code) == Commit(w, code, "app")
AppRawWrite(w) == WriteBody(AppRawHeader(w, 200), "app")
-----------------------------------------------------------------------------
\* responseRecorder over chi's basicWriter: remembers the first status it saw
BadRecordedBy(w, code, writer) == Commit([w EXCEPT !.rec = code], code, writer)
RecordedBy(w, code, writer) ==
    IF code \in Informational THEN Commit(w, code, writer)
    ELSE IF w.rec # 0 THEN w
    ELSE Commit([w EXCEPT !.rec = code], code, writer)

RecorderHeader(w, code) == RecordedBy(w, code, "recorder")

RecorderWrite(w, src) == WriteBody(RecorderHeader(w, 200), src)
-----------------------------------------------------------------------------
\* headerCleanerResponseWriter: only WriteHeader strips; Write is the
\* embedded writer's own and goes straight to the recorder.  A 1xx is a
\* status like any other to it
BadCleanerHeader(w, code) ==
    RecordedBy(IF w.cleaned \/ code = 200 THEN w
               ELSE [w EXCEPT !.hdr = @ \ RemovedHeader, !.cleaned = TRUE],
               code, "cleaner")
CleanerHeader(w, code) ==
    RecordedBy(IF w.cleaned THEN w
               ELSE [w EXCEPT !.hdr = @ \ RemovedHeader, !.cleaned = TRUE],
               code, "cleaner")

CleanerWrite(w, src) == RecorderWrite(w, src)

\* writeJSON again
CleanerAnswer(w, code, src) ==
    CleanerWrite(CleanerHeader(SetHeaders(w, {"Content-Type"}), code), src)
=============================================================================

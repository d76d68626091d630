------------------------------- MODULE Handler -------------------------------
(***************************************************************************)
(* One request through the handler built by App.createHandlerFunc         *)
(* (internal/app/handler.go lines 89-362), with handleResponse (364-500)   *)
(* and handleStreamResponse (526-594). The Starlark handler, the error     *)
(* handler, plugin cleanup, templates and encoders are collaborators whose *)
(* outcome is chosen from what they can return. The model keeps the order  *)
(* of every write to the http.ResponseWriter, whose rules (net/http) are:  *)
(* the first WriteHeader or Write commits the status, a later WriteHeader  *)
(* is superfluous and ignored (and writes nothing), a 1xx header does not  *)
(* commit; http.Error sets Content-Type and is WriteHeader(500) and a      *)
(* Write of the message; http.Redirect sets Location, calls WriteHeader,   *)
(* and writes a short body only for a GET whose Content-Type was not set.  *)
(*                                                                         *)
(* Deferred plugin cleanup (action.RunDeferredCleanup, outside the         *)
(* sources) is taken to run the cleanups registered so far once: a second  *)
(* call finds none and returns nil.                                        *)
(***************************************************************************)
EXTENDS Naturals

CONSTANTS
    CleanupMayFail,   \* a plugin's deferred cleanup can return an error
    BadRedirectAttrs  \* a redirect struct can lack a valid code or refresh

RTypes == {"HTML", "JSON", "TEXT"}

\* What a Starlark handler call can yield: a value, a value that converts
\* to a map with is_stream = true, ace.redirect, ace.response, an error.
Returns == {"value", "stream", "redirect", "response", "error"}

\* The requests: the route (handler, rtype, fragment), the headers, and the
\* early-hints conditions of lines 110-112 other than the fragment test.
Requests ==
    [handler : {"none", "args", "noArgs"}, errorHandler : BOOLEAN, rtype : RTypes,
     fragment : BOOLEAN, htmx : BOOLEAN, update : BOOLEAN, referrer : BOOLEAN,
     hints : BOOLEAN, auditInsert : BOOLEAN]

VARIABLES
    req,          \* the request and route
    pc,           \* where goHandler is
    ret,          \* the value the handler (or error handler) returned
    cleanup,      \* plugin cleanup: none (no handler), pending, ok, failed
    eventStatus,  \* the audit status the deferred insert will record
    auditOp,      \* the handler set TL_AUDIT_OPERATION
    audit,        \* the audit event inserted: none, success, failure
    w             \* the response as the client sees it
vars == <<req, pc, ret, cleanup, eventStatus, auditOp, audit, w>>

\* status: the committed status ("none" before); atCommit: the cleanup
\* state when it was committed; errors: http.Error calls; superfluous:
\* WriteHeader calls after the commit; afterError: body bytes were written
\* after an http.Error.
NoResponse ==
    [status |-> "none", atCommit |-> "none", hints |-> FALSE, body |-> FALSE,
     errors |-> 0, superfluous |-> 0, afterError |-> FALSE]

TypeOK ==
    /\ req \in Requests
    /\ cleanup \in {"none", "pending", "ok", "failed"}
    /\ w.status \in {"none", "ok", "seeOther", "redirect", "code", "error"}
    /\ audit \in {"none", "success", "failure"}

-----------------------------------------------------------------------------
(* The http.ResponseWriter                                                 *)

Touch(x) == [x EXCEPT !.afterError = @ \/ x.errors > 0]

WriteHeader(x, code, cl) ==
    IF x.status = "none" THEN [x EXCEPT !.status = code, !.atCommit = cl]
    ELSE [x EXCEPT !.superfluous = @ + 1]

\* WriteHeader(http.StatusEarlyHints): informational, commits nothing.
WriteHints(x) ==
    IF x.status = "none" THEN [x EXCEPT !.hints = TRUE] ELSE [x EXCEPT !.superfluous = @ + 1]

Write(x, cl) ==
    Touch(IF x.status = "none" THEN [x EXCEPT !.status = "ok", !.atCommit = cl, !.body = TRUE]
          ELSE [x EXCEPT !.body = TRUE])

HttpError(x, cl) == [Write(WriteHeader(x, "error", cl), cl) EXCEPT !.errors = @ + 1]

\* http.Redirect: Content-Type is set here only by an earlier http.Error;
\* get is false for the update methods (POST, PUT, ...).
Redirect(x, code, cl, get) ==
    LET h == WriteHeader(x, code, cl)
    IN IF x.errors = 0 /\ get THEN Write(h, cl) ELSE h

\* executeTemplate: renders into w; a failure may come after part of the
\* page was written, and the caller then calls http.Error.
Template(x, cl, outcome) ==
    CASE outcome = "ok" -> Write(x, cl)
      [] outcome = "failEarly" -> HttpError(x, cl)
      [] outcome = "failLate" -> HttpError(Write(x, cl), cl)

Templates == {"ok", "failEarly", "failLate"}

\* deferredCleanup (lines 162-171): runs the pending cleanups; an error is
\* answered with http.Error. Its result for a cleanup state and outcome.
CleanupOutcomes == IF CleanupMayFail THEN {"ok", "failed"} ELSE {"ok"}
AfterCleanup(cl, outcome) == IF cl = "pending" THEN outcome ELSE cl
CleanupWrite(x, cl, outcome) ==
    IF cl = "pending" /\ outcome = "failed" THEN HttpError(x, "failed") ELSE x

Goto(p) == pc' = p

-----------------------------------------------------------------------------
(* goHandler                                                               *)

\* Lines 106-157: early hints for a top-level HTML GET in prod mode, unless
\* it is an htmx request for a fragment; the request data.
Begin ==
    /\ pc = "begin"
    /\ w' = IF req.hints /\ req.rtype = "HTML" /\ ~(req.htmx /\ req.fragment)
            THEN WriteHints(w) ELSE w
    /\ Goto(IF req.handler = "none" THEN "respond" ELSE "call")
    /\ UNCHANGED <<req, ret, cleanup, eventStatus, auditOp, audit>>

\* Lines 159-217: the deferred audit insert and cleanup are registered and
\* the handler called; a plugin API failure counts as an error.
CallHandler ==
    /\ pc = "call"
    /\ \E r \in Returns, op \in BOOLEAN :
          /\ ret' = r /\ auditOp' = op
          /\ Goto(IF r = "error" THEN "onError" ELSE "dispatch")
    /\ cleanup' = "pending" /\ eventStatus' = "success"
    /\ UNCHANGED <<req, audit, w>>

\* Lines 219-269: without an error handler the error is the response;
\* otherwise the error handler's result replaces the handler's, and its own
\* failure is the response.
OnError ==
    /\ pc = "onError"
    /\ eventStatus' = "failure"
    /\ IF ~req.errorHandler
       THEN /\ w' = HttpError(w, cleanup) /\ Goto("exit") /\ UNCHANGED ret
       ELSE \E r \in Returns :
              /\ ret' = r
              /\ IF r = "error" THEN w' = HttpError(w, cleanup) /\ Goto("exit")
                 ELSE UNCHANGED w /\ Goto("dispatch")
    /\ UNCHANGED <<req, cleanup, auditOp, audit>>

\* Mutant: a failed conversion returns without answering the request.
DispatchSilentOnError ==
    /\ pc = "dispatch"
    /\ \/ ret \in {"redirect", "response"} /\ Goto(ret) /\ UNCHANGED w
       \/ ret \in {"value", "stream"} /\ Goto("cleanup") /\ UNCHANGED w
       \/ ret \in {"value", "stream"} /\ Goto("exit") /\ UNCHANGED w
    /\ UNCHANGED <<req, ret, cleanup, eventStatus, auditOp, audit>>

\* Lines 271-292: a struct goes to handleResponse; any other value is
\* converted (UnmarshalStarlark), which may fail.
Dispatch ==
    /\ pc = "dispatch"
    /\ \/ ret \in {"redirect", "response"} /\ Goto(ret) /\ UNCHANGED w
       \/ ret \in {"value", "stream"} /\ Goto("cleanup") /\ UNCHANGED w
       \/ ret \in {"value", "stream"} /\ w' = HttpError(w, cleanup) /\ Goto("exit")
    /\ UNCHANGED <<req, ret, cleanup, eventStatus, auditOp, audit>>

\* Mutant: the response is written before the plugin cleanup has run.
CleanupStepSkipped ==
    /\ pc = "cleanup"
    /\ Goto("respond")
    /\ UNCHANGED <<req, ret, cleanup, eventStatus, auditOp, audit, w>>

\* Lines 295-299: the plugin cleanup runs before anything is written; a
\* failure has been answered with an error and ends the request.
CleanupStep ==
    /\ pc = "cleanup"
    /\ \E o \in CleanupOutcomes :
          /\ cleanup' = AfterCleanup(cleanup, o)
          /\ w' = CleanupWrite(w, cleanup, o)
          /\ Goto(IF cleanup' = "failed" THEN "exit" ELSE "respond")
    /\ UNCHANGED <<req, ret, eventStatus, auditOp, audit>>

\* Lines 301-359: a stream; JSON (encode into a pooled buffer, then one
\* Write, either may fail); TEXT; HTML, which renders the fragment for an
\* htmx request, redirects a non-htmx update with a fragment to the
\* referrer (Post/Redirect/Get), and renders the page otherwise.
Respond ==
    /\ pc = "respond"
    /\ \/ ret = "stream" /\ Goto("stream") /\ UNCHANGED w
       \/ /\ ret # "stream" /\ req.rtype \in {"JSON", "TEXT"} /\ Goto("exit")
          /\ \E fails \in BOOLEAN :
                w' = IF fails THEN HttpError(Write(w, cleanup), cleanup) ELSE Write(w, cleanup)
       \/ /\ ret # "stream" /\ req.rtype = "HTML" /\ Goto("exit")
          /\ IF ~req.htmx /\ req.update /\ req.fragment /\ req.referrer
             THEN w' = Redirect(w, "seeOther", cleanup, FALSE)
             ELSE \E t \in Templates : w' = Template(w, cleanup, t)
    /\ UNCHANGED <<req, ret, cleanup, eventStatus, auditOp, audit>>

\* handleResponse, lines 364-388: an ace.redirect struct. Invalid code or
\* refresh attributes are answered with http.Error, with no return: the
\* cleanup runs and http.Redirect is still called; a cleanup failure returns
\* (false, err), which the caller answers with http.Error (line 280).
HandleRedirect ==
    /\ pc = "redirect"
    /\ \E bad \in IF BadRedirectAttrs THEN BOOLEAN ELSE {FALSE}, o \in CleanupOutcomes :
          LET w1 == IF bad THEN HttpError(w, cleanup) ELSE w
              w2 == CleanupWrite(w1, cleanup, o)
          IN /\ cleanup' = AfterCleanup(cleanup, o)
             /\ w' = IF cleanup' = "failed" THEN HttpError(w2, cleanup')
                     ELSE Redirect(w2, "redirect", cleanup', ~req.update)
    /\ Goto("exit")
    /\ UNCHANGED <<req, ret, eventStatus, auditOp, audit>>

\* handleResponse, lines 390-499: an ace.response struct. A missing block
\* attribute, or no block for an HTML type, returns (false, err) and the
\* caller answers with http.Error; any other bad attribute is answered
\* here. JSON and TEXT run the cleanup, then encode; HTML sets the htmx
\* headers, runs the cleanup, writes the struct's code and renders the block.
HandleResponse ==
    /\ pc = "response"
    /\ \E attrs \in {"ok", "noBlock", "badAttr"}, block \in BOOLEAN, type \in RTypes \cup {""},
          o \in CleanupOutcomes, t \in Templates, fails \in BOOLEAN :
          LET rtype == IF type = "" THEN req.rtype ELSE type
              cl == AfterCleanup(cleanup, o)
              w1 == CleanupWrite(w, cleanup, o)
          IN CASE attrs = "noBlock" \/ (~block /\ rtype = "HTML") ->
                    w' = HttpError(w, cleanup) /\ UNCHANGED cleanup
               [] attrs = "badAttr" ->
                    w' = HttpError(w, cleanup) /\ UNCHANGED cleanup
               [] cl = "failed" ->
                    w' = w1 /\ cleanup' = cl
               [] rtype \in {"JSON", "TEXT"} ->
                    /\ w' = IF fails THEN HttpError(Write(w1, cl), cl) ELSE Write(w1, cl)
                    /\ cleanup' = cl
               [] OTHER ->
                    w' = Template(WriteHeader(w1, "code", cl), cl, t) /\ cleanup' = cl
    /\ Goto("exit")
    /\ UNCHANGED <<req, ret, eventStatus, auditOp, audit>>

\* handleStreamResponse: a nil or non-sequence value, or a writer without
\* Flush, is an error; otherwise 200 is written and each value is written
\* and flushed, and a write error ends the stream with http.Error.
Stream ==
    /\ pc = "stream"
    /\ \/ w' = HttpError(w, cleanup)
       \/ w' = Write(WriteHeader(w, "ok", cleanup), cleanup)
       \/ w' = HttpError(Write(WriteHeader(w, "ok", cleanup), cleanup), cleanup)
    /\ Goto("exit")
    /\ UNCHANGED <<req, ret, cleanup, eventStatus, auditOp, audit>>

\* goHandler returns: the deferred calls run last-in first-out, the plugin
\* cleanup (line 199, its error answered with http.Error) and then the
\* audit insert (lines 176-196) when an audit operation was set.
Exit ==
    /\ pc = "exit"
    /\ \E o \in CleanupOutcomes :
          /\ cleanup' = AfterCleanup(cleanup, o)
          /\ w' = CleanupWrite(w, cleanup, o)
    /\ audit' = IF req.auditInsert /\ auditOp THEN eventStatus ELSE "none"
    /\ Goto("done")
    /\ UNCHANGED <<req, ret, eventStatus, auditOp>>

\* Without a handler (a static page) nothing is deferred.
Init ==
    /\ req \in Requests /\ ~(req.hints /\ req.update)
    /\ pc = "begin" /\ ret = "value" /\ cleanup = "none"
    /\ eventStatus = "success" /\ auditOp = FALSE /\ audit = "none"
    /\ w = NoResponse

Next ==
    \/ Begin \/ CallHandler \/ OnError \/ Dispatch \/ CleanupStep \/ Respond
    \/ HandleRedirect \/ HandleResponse \/ Stream
    \/ Exit /\ req.handler # "none"
    \/ pc = "exit" /\ req.handler = "none" /\ Goto("done")
       /\ UNCHANGED <<req, ret, cleanup, eventStatus, auditOp, audit, w>>

Spec == Init /\ [][Next]_vars

-----------------------------------------------------------------------------
(* Properties                                                              *)

\* A success response is never sent before the plugins have cleaned up:
\* every path that commits a non-error status has run the cleanup (and it
\* succeeded) first, so a cleanup error can still turn into a 500.
CleanupBeforeSuccess ==
    w.status \notin {"none", "error"} => w.atCommit \in {"none", "ok"}

\* An error response is final: once http.Error has answered a request, no
\* byte (a second error message, a page, a redirect body) is added to the
\* response body, on any of goHandler's paths and deferred calls.
ErrorIsFinal == ~w.afterError

\* Every request is answered: on each of goHandler's return paths (early
\* returns after an error, a failed cleanup or conversion, a struct
\* response, a stream) a status has been committed when it returns, so
\* net/http never sends an implicit empty 200.
EveryRequestAnswered == pc = "done" => w.status # "none"
=============================================================================

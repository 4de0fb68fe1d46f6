------------------------------- MODULE Request -------------------------------
(***************************************************************************)
(* A request to the web Starter: net/http hands it to the middleware of    *)
(* web/middleware.go and security/, which hand it to the handler; the      *)
(* answer, or a panic, comes back through them.  Logging and Recovery look *)
(* at the answer through a recorder, and what they conclude has to agree   *)
(* with what net/http put on the wire, whatever the handler does: it may   *)
(* send informational statuses, write, flush, hijack the connection, fail  *)
(* an RPC, panic, or abort.  Meanwhile the Server (web/web.go) may be      *)
(* stopped, or its listener may break.                                     *)
(***************************************************************************)
EXTENDS Naturals, Sequences

CONSTANTS
    Chains,     \* the slices of middleware services pass to Use, outermost first
    Requests    \* the requests clients send

Middleware ==
    {"requestID", "logging", "recovery", "headers", "cors", "authenticate", "scope"}

\* preflight: an OPTIONS that names the method to come.  probe: a path Logging
\* skips.  token: none, one that does not verify, one that does, and one that
\* does and carries the scope of the route.
RequestType == [probe: BOOLEAN, preflight: BOOLEAN, token: {"none", "bad", "good", "scoped"}]

ASSUME RequestAssumption ==
    /\ \A c \in Chains : /\ c \in Seq(Middleware)
                         /\ \A i, j \in DOMAIN c : c[i] = c[j] => i = j
    /\ Requests \subseteq RequestType

VARIABLES
    chain,    \* Server.mw, and at its end what guards the route
    server,   \* Server: [listener, serve, errc, stop], and broke: its listener broke
    request,  \* what the client asks
    at,       \* who has the request: a place in chain, or one past it: the handler
    flow,     \* how it moves
    who,      \* the Principal in its context
    headers,  \* the response's header map
    out,      \* the recorders, and what net/http has sent
    panicked, \* whether the handler panicked, before or after an answer had begun, or aborted
    line      \* Logging's line for this request

reqVars == <<request, who, panicked>>
respVars == <<headers, out, line>>
moveVars == <<at, flow>>
vars == <<chain, server, reqVars, respVars, moveVars>>

-----------------------------------------------------------------------------
Recorder == {"logging", "recovery"}

\* No status has been sent as long as status is 0.
Status == {0, 101, 200, 204, 401, 403, 500}
HandlerStatus == {101, 200, 500}

HeaderName == {"requestID", "nosniff", "vary", "challenge", "rpcFailed"}

Fresh == [rec  |-> [r \in Recorder |-> [on |-> FALSE, wrote |-> FALSE, status |-> 200]],
          status |-> 0, head |-> {}, body |-> {}, informed |-> FALSE, hijacked |-> FALSE]

NoLine == [status |-> 0, error |-> FALSE]

Anonymous == [probe |-> FALSE, preflight |-> FALSE, token |-> "none"]

Init ==
    /\ chain \in Chains
    /\ server = [listener |-> "closed", broke |-> FALSE, serve |-> "none", errc |-> "empty",
                 stop |-> "none"]
    /\ request = Anonymous
    /\ at = 0 /\ flow = "idle"
    /\ who = "nobody" /\ headers = {} /\ out = Fresh
    /\ panicked = "no" /\ line = NoLine

-----------------------------------------------------------------------------
(* The recorder.  A write at place i goes through every recorder that was   *)
(* put in at i or before, the innermost first, and then to net/http.        *)

Handler == Len(chain) + 1

Through(i) == {r \in Recorder : out.rec[r].on /\ \E k \in 1..i : k <= Len(chain) /\ chain[k] = r}

\* net/http takes one final status and the headers of that moment, none of a
\* hijacked connection.
Send(o, s, head) ==
    IF o.status # 0 \/ o.hijacked THEN o ELSE [o EXCEPT !.status = s, !.head = head]

\* recorder.WriteHeader for a final status: only the first goes on.  Mutant: the
\* status is remembered, the flag is not set.
StatusOnly(rec, s) == [rec EXCEPT !.status = s]
Remembered(rec, s) == [rec EXCEPT !.wrote = TRUE, !.status = s]

WriteHeader(o, i, s, head) ==
    IF \E r \in Through(i) : o.rec[r].wrote
    THEN o
    ELSE Send([o EXCEPT !.rec = [r \in Recorder |->
                   IF r \in Through(i) THEN Remembered(o.rec[r], s) ELSE o.rec[r]]], s, head)

\* recorder.Write and Flush: an answer has begun, with 200 unless a status was
\* written before.
Begun(o, i, head) ==
    Send([o EXCEPT !.rec = [r \in Recorder |->
             IF r \in Through(i) THEN [o.rec[r] EXCEPT !.wrote = TRUE] ELSE o.rec[r]]], 200, head)

Write(o, i, text, head) ==
    LET b == Begun(o, i, head)
    IN IF o.hijacked THEN b ELSE [b EXCEPT !.body = @ \cup {text}]

\* respond.go's: a status, then the document.
WriteProblem(o, i, s, head) == Write(WriteHeader(o, i, s, head), i, "problem", head)

-----------------------------------------------------------------------------
(* The Server.                                                              *)

Start ==
    /\ server.listener = "closed" /\ server.serve = "none" /\ server.stop = "none"
    /\ server' = [server EXCEPT !.listener = "open", !.serve = "running"]
    /\ UNCHANGED <<chain, reqVars, respVars, moveVars>>

\* The listener dies under Serve.
ListenerBreaks ==
    /\ server.serve = "running" /\ server.listener = "open"
    /\ server' = [server EXCEPT !.listener = "closed", !.broke = TRUE]
    /\ UNCHANGED <<chain, reqVars, respVars, moveVars>>

\* Stop begins: nothing more is accepted.
StopBegins ==
    /\ server.serve # "none" /\ server.stop = "none"
    /\ server' = [server EXCEPT !.listener = "closed", !.stop = "waiting"]
    /\ UNCHANGED <<chain, reqVars, respVars, moveVars>>

\* Serve returns once the listener is closed: ErrServerClosed if the Server is
\* being stopped, also when the listener had broken before, else what broke.
ServeReturned == IF server.stop # "none" THEN "ErrServerClosed" ELSE "accept"

\* What the goroutine in Start reports of it: a shutdown is no error.  Mutant:
\* whatever Serve returned.
AsReturned(err) == "error"
Reported(err) == IF err = "ErrServerClosed" THEN "nil" ELSE "error"

ServeEnds ==
    /\ server.serve = "running" /\ server.listener = "closed"
    /\ server' = [server EXCEPT !.serve = "gone", !.errc = Reported(ServeReturned)]
    /\ UNCHANGED <<chain, reqVars, respVars, moveVars>>

InFlight == flow \notin {"idle", "done"}

\* Shutdown waits for every connection but those that were hijacked, until its
\* context ends.  Mutant: Close instead.
AtOnce == TRUE
Quiet == ~InFlight \/ out.hijacked

StopReturns ==
    /\ server.stop = "waiting"
    /\ \/ Quiet /\ server' = [server EXCEPT !.stop = "clean"]
       \/ InFlight /\ server' = [server EXCEPT !.stop = "late"]
    /\ UNCHANGED <<chain, reqVars, respVars, moveVars>>

-----------------------------------------------------------------------------
(* Down the chain.  Each middleware runs its first half and calls the next. *)

\* net/http has read a request.
Arrive(q) ==
    /\ server.listener = "open" /\ flow \in {"idle", "done"}
    /\ request' = q
    /\ at' = 1 /\ flow' = "in"
    /\ who' = "nobody" /\ headers' = {} /\ out' = Fresh
    /\ panicked' = "no" /\ line' = NoLine
    /\ UNCHANGED <<chain, server>>

Entering(m) == flow = "in" /\ at <= Len(chain) /\ chain[at] = m

CallNext == at' = at + 1 /\ flow' = "in"
TurnBack == at' = at - 1 /\ flow' = "out"

EnterRequestID ==
    /\ Entering("requestID")
    /\ headers' = headers \cup {"requestID"}
    /\ CallNext
    /\ UNCHANGED <<chain, server, reqVars, out, line>>

\* A probe is not recorded.
EnterLogging ==
    /\ Entering("logging")
    /\ out' = [out EXCEPT !.rec["logging"].on = ~request.probe]
    /\ CallNext
    /\ UNCHANGED <<chain, server, reqVars, headers, line>>

\* Recovery puts in a recorder of its own unless it was handed one.
EnterRecovery ==
    /\ Entering("recovery")
    /\ out' = [out EXCEPT !.rec["recovery"].on = ~out.rec["logging"].on]
    /\ CallNext
    /\ UNCHANGED <<chain, server, reqVars, headers, line>>

EnterHeaders ==
    /\ Entering("headers")
    /\ headers' = headers \cup {"nosniff"}
    /\ CallNext
    /\ UNCHANGED <<chain, server, reqVars, out, line>>

\* CORS answers a preflight itself, allowed origin or not.
EnterCors ==
    /\ Entering("cors")
    /\ headers' = headers \cup {"vary"}
    /\ IF request.preflight
       THEN out' = WriteHeader(out, at, 204, headers') /\ TurnBack
       ELSE CallNext /\ UNCHANGED out
    /\ UNCHANGED <<chain, server, reqVars, line>>

\* A bad token is refused even where the route asks for none.  Mutant: it counts
\* as no token.
Ignored == FALSE
Rejected == request.token = "bad"

EnterAuthenticate ==
    /\ Entering("authenticate")
    /\ IF Rejected
       THEN /\ headers' = headers \cup {"challenge"}
            /\ out' = WriteProblem(out, at, 401, headers')
            /\ TurnBack
            /\ UNCHANGED who
       ELSE /\ who' = CASE request.token = "scoped" -> "entitled"
                        [] request.token = "good" -> "known"
                        [] OTHER -> who
            /\ CallNext
            /\ UNCHANGED <<headers, out>>
    /\ UNCHANGED <<chain, server, request, panicked, line>>

\* RequireScope, at the mount: 401 when authenticating would help, 403 when not.
EnterScope ==
    /\ Entering("scope")
    /\ IF who = "entitled"
       THEN CallNext /\ UNCHANGED <<headers, out>>
       ELSE /\ headers' = headers \cup {"challenge"}
            /\ out' = WriteProblem(out, at, IF who = "nobody" THEN 401 ELSE 403, headers')
            /\ TurnBack
    /\ UNCHANGED <<chain, server, reqVars, line>>

-----------------------------------------------------------------------------
(* The handler, which is the service's own: any order of these.             *)

InHandler == flow = "in" /\ at = Handler

\* A 1xx other than 101 goes straight out and is not recorded.  Mutant: it is.
Informational == 103
Recorded(o) ==
    [o EXCEPT !.rec = [r \in Recorder |->
        IF r \in Through(Handler) THEN Remembered(o.rec[r], Informational) ELSE o.rec[r]]]
Passed(o) == o

Informs ==
    /\ InHandler /\ out.status = 0 /\ ~out.hijacked
    /\ out' = [Passed(out) EXCEPT !.informed = TRUE]
    /\ UNCHANGED <<chain, server, reqVars, headers, line, moveVars>>

WritesHeader ==
    /\ InHandler
    /\ \E s \in HandlerStatus : out' = WriteHeader(out, Handler, s, headers)
    /\ UNCHANGED <<chain, server, reqVars, headers, line, moveVars>>

Writes ==
    /\ InHandler
    /\ out' = Write(out, Handler, "handler", headers)
    /\ UNCHANGED <<chain, server, reqVars, headers, line, moveVars>>

\* Mutant: the recorder lets a flush through unseen.
FlushUnseen(o) == Send(o, 200, headers)
Flushed(o) == Begun(o, Handler, headers)

Flushes ==
    /\ InHandler
    /\ out' = Flushed(out)
    /\ UNCHANGED <<chain, server, reqVars, headers, line, moveVars>>

\* Through Unwrap, behind the recorders' back.
Hijacks ==
    /\ InHandler /\ ~out.hijacked
    /\ out' = [out EXCEPT !.hijacked = TRUE]
    /\ UNCHANGED <<chain, server, reqVars, headers, line, moveVars>>

\* connect leaves a failing code in the trailers and 200 on the status line.
FailsRpc ==
    /\ InHandler
    /\ headers' = headers \cup {"rpcFailed"}
    /\ UNCHANGED <<chain, server, reqVars, out, line, moveVars>>

Returns ==
    /\ InHandler
    /\ TurnBack
    /\ UNCHANGED <<chain, server, reqVars, respVars>>

Panics ==
    /\ InHandler
    /\ at' = at - 1 /\ flow' = "panic"
    /\ panicked' = IF out.status = 0 THEN "clean" ELSE "begun"
    /\ UNCHANGED <<chain, server, request, who, respVars>>

\* panic(http.ErrAbortHandler)
Aborts ==
    /\ InHandler
    /\ at' = at - 1 /\ flow' = "abort"
    /\ panicked' = "abort"
    /\ UNCHANGED <<chain, server, request, who, respVars>>

-----------------------------------------------------------------------------
(* Back up the chain.                                                       *)

Leaving(m) == at \in 1..Len(chain) /\ chain[at] = m

\* What the line says, read off Logging's recorder and the header map.
Observed == [status |-> out.rec["logging"].status,
             error  |-> out.rec["logging"].status >= 500 \/ "rpcFailed" \in headers]

LeaveLogging ==
    /\ flow = "out" /\ Leaving("logging")
    /\ line' = IF out.rec["logging"].on THEN Observed ELSE line
    /\ TurnBack
    /\ UNCHANGED <<chain, server, reqVars, headers, out>>

\* Recovery's recorder is the one it put in, or the one Logging did.
HasBegun == \E r \in Through(at) : out.rec[r].wrote

\* A panic ends here, an abort does not.  Mutant: an abort does too.
AbortToo == {"panic", "abort"}
Caught == {"panic"}

Recovers ==
    /\ flow \in Caught /\ Leaving("recovery")
    /\ out' = IF HasBegun THEN out ELSE WriteProblem(out, at, 500, headers)
    /\ TurnBack
    /\ UNCHANGED <<chain, server, reqVars, headers, line>>

\* The other middleware has nothing to do on the way back, and no deferred call.
Unwinds ==
    /\ flow \in {"out", "panic", "abort"} /\ at > 0
    /\ ~(flow = "out" /\ Leaving("logging"))
    /\ ~(flow \in Caught /\ Leaving("recovery"))
    /\ at' = at - 1
    /\ UNCHANGED <<flow, chain, server, reqVars, respVars>>

\* net/http: a handler that returned has answered 200 if nothing else; a panic
\* cuts the connection.
Finish ==
    /\ flow \in {"out", "panic", "abort"} /\ at = 0
    /\ out' = IF flow = "out" THEN Send(out, 200, headers) ELSE out
    /\ flow' = IF flow = "out" THEN "done" ELSE "cut"
    /\ UNCHANGED <<at, chain, server, reqVars, headers, line>>

\* The broken connection is forgotten.
Forget ==
    /\ flow = "cut"
    /\ flow' = "done" /\ out' = Fresh /\ line' = NoLine /\ panicked' = "no"
    /\ UNCHANGED <<at, chain, server, request, who, headers>>

-----------------------------------------------------------------------------
ServerSteps == Start \/ ListenerBreaks \/ StopBegins \/ ServeEnds \/ StopReturns

Down ==
    \/ EnterRequestID \/ EnterLogging \/ EnterRecovery \/ EnterHeaders
    \/ EnterCors \/ EnterAuthenticate \/ EnterScope

HandlerSteps ==
    \/ Informs \/ WritesHeader \/ Writes \/ Flushes \/ Hijacks \/ FailsRpc
    \/ Returns \/ Panics \/ Aborts

Up == LeaveLogging \/ Recovers \/ Unwinds \/ Finish \/ Forget

\* The process is exiting and nothing is left to do.
Exits ==
    /\ server.stop \in {"clean", "late"} /\ server.serve = "gone" /\ ~InFlight
    /\ UNCHANGED vars

Next ==
    \/ ServerSteps
    \/ \E q \in Requests : Arrive(q)
    \/ Down \/ HandlerSteps \/ Up
    \/ Exits

Spec == Init /\ [][Next]_vars

-----------------------------------------------------------------------------
(* Properties                                                               *)

Before(m, n) == \E i, j \in DOMAIN chain : i < j /\ chain[i] = m /\ chain[j] = n

Has(m) == \E i \in DOMAIN chain : chain[i] = m

\* Listed outside everything that may answer in the handler's place.
Covers(m) == Has(m) /\ \A n \in {"cors", "authenticate", "scope"} : ~Before(n, m)

Wrapped == [on: BOOLEAN, wrote: BOOLEAN, status: Status]

ServerType ==
    [listener: {"open", "closed"}, broke: BOOLEAN, serve: {"none", "running", "gone"},
     errc: {"empty", "nil", "error"}, stop: {"none", "waiting", "clean", "late"}]

TypeOK ==
    /\ chain \in Chains
    /\ server \in ServerType
    /\ request \in Requests \cup {Anonymous}
    /\ at \in 0..Handler
    /\ flow \in {"idle", "in", "out", "panic", "abort", "cut", "done"}
    /\ who \in {"nobody", "known", "entitled"}
    /\ headers \subseteq HeaderName
    /\ out \in [rec: [Recorder -> Wrapped], status: Status, head: SUBSET HeaderName,
                body: SUBSET {"handler", "problem"}, informed: BOOLEAN, hijacked: BOOLEAN]
    /\ panicked \in {"no", "clean", "begun", "abort"}
    /\ line \in [status: Status, error: BOOLEAN]

\* With Recovery in the chain a panic before anything was sent is a 500 problem
\* and never a cut connection, and one that came later leaves what was sent with
\* nothing appended; whether the connection then closes is not said here.
\* ErrAbortHandler always cuts it, in whatever chain: no middleware makes an
\* answer of it (middleware.go:171-215).
PanicAnswered ==
    /\ flow = "cut" /\ Has("recovery") => panicked # "clean"
    /\ flow = "done" => panicked # "abort"
    /\ flow = "done" /\ ~out.hijacked =>
        /\ panicked = "clean" => out.status = 500 /\ out.body = {"problem"}
        /\ panicked = "begun" => "problem" \notin out.body

\* Every answer, whoever gives it and however early, carries the request ID and
\* the security headers, unless something listed outside them answered
\* (middleware.go:46-55, security.go:107-108: they are set on the way in).
HeadersCarried ==
    flow = "done" /\ out.status # 0 =>
        /\ Covers("requestID") => "requestID" \in out.head
        /\ Covers("headers") => "nosniff" \in out.head

\* What a panic or an abort makes of an answer, and the headers every answer
\* carries (middleware.go:171-215, security.go:107-108).
AnswerIntact == PanicAnswered /\ HeadersCarried

\* The access line has the status the client was sent, on ERROR exactly when the
\* server or the RPC failed, however the handler wrote it, and a request that
\* was answered has a line unless it was a probe, or something outside Logging
\* answered it: another middleware, or the Recovery a panic ended in
\* (middleware.go:85-135, 227-263).
LogTellsTruth ==
    flow = "done" /\ out.status # 0 /\ ~out.hijacked =>
        /\ line # NoLine =>
               /\ line.status = out.status
               /\ line.error <=> out.status >= 500 \/ "rpcFailed" \in headers
        /\ Covers("logging") /\ ~request.probe /\ (panicked = "no" \/ Before("logging", "recovery"))
               => line # NoLine

\* In whatever order the middleware was listed, the handler of a guarded route
\* sees only who may call it, a bad token gets nowhere even on an open route,
\* and no preflight reaches a handler behind CORS (authn.go:120-128, 242-266,
\* cors.go:127-136).
HandlerEntitled ==
    InHandler =>
        /\ Has("scope") => Before("authenticate", "scope") /\ request.token = "scoped"
        /\ Has("authenticate") => request.token # "bad"
        /\ Has("cors") => ~request.preflight

\* A Stop that returned nil left no request behind, hijacked connections apart.
\* What the App reads from errc is an error only if the listener broke: neither a
\* Stop nor one that gave up is reported as a death of the server.  And it is nil
\* only if the Server is being stopped: a death is not passed over (web.go:151-191).
StopIsClean ==
    /\ server.stop = "clean" /\ InFlight => out.hijacked
    /\ server.errc = "error" => server.broke
    /\ server.errc = "nil" => server.stop # "none" /\ server.listener = "closed"
=============================================================================

----------------------------- MODULE Telemetry ------------------------------
(***************************************************************************)
(* What is recorded of one request: the access line of web.Logging, the    *)
(* counter of web/metrics, the span of trace and its name, and, for an     *)
(* RPC, what the connect options of grpc, grpc/metrics and trace/rpc make  *)
(* of the handler's error.  Each reads the request it holds and the answer *)
(* it saw go by, on the way out, past whatever panics; together they have  *)
(* to agree with each other and with what the client got.                  *)
(*                                                                         *)
(* Who may do what, and how Logging and Recovery treat headers, bodies and *)
(* hijacked connections, is in Request.                                    *)
(***************************************************************************)
EXTENDS Naturals, Sequences

CONSTANTS
    Wirings,   \* what services pass to Use: [mw, ids], ids: the logger is WithIDs(log)
    Options,   \* what they pass to a connect handler, outermost first
    Incoming   \* [kind, token, matches, probe]

Layer == {"trace", "logging", "recovery", "routeName", "metrics", "authenticate"}
Option == {"recover", "sanitise", "requireHeader", "rpcMetrics", "rpcTrace"}

\* "post": an RPC over the Connect protocol whose caller left out its header.
Kind == {"http", "grpc", "connect", "post"}
IncomingType == [kind : Kind, token : {"none", "bad", "good"}, matches : BOOLEAN, probe : BOOLEAN]

WiringsWellFormed ==
    /\ \A w \in Wirings : w.mw \in Seq(Layer) /\ w.ids \in BOOLEAN
    /\ \A w \in Wirings : \A i, j \in DOMAIN w.mw : w.mw[i] = w.mw[j] => i = j
    /\ \A o \in Options : o \in Seq(Option) /\ (\A i, j \in DOMAIN o : o[i] = o[j] => i = j)
    /\ Incoming \subseteq IncomingType

\* web.DefaultMiddleware and trace.DefaultMiddleware, less RequestID
Untraced == [mw |-> <<"logging", "recovery">>, ids |-> FALSE]
Traced == [mw |-> <<"trace", "logging", "recovery", "routeName">>, ids |-> TRUE]
Plus(w, l) == [w EXCEPT !.mw = Append(@, l)]

\* grpc.DefaultOptions, and with what appends to it
DefaultOptions == <<"recover", "sanitise", "requireHeader">>

\* The order the packages ask for: what reads the route is inside whatever hands
\* on a request of its own (trace.go:95-97 and 135-141, metrics.go:32-38 of
\* web/metrics), Recovery is inside Logging (middleware.go:34-36), and a connect
\* handler gets all of DefaultOptions, wherever.
HandsOnItsOwn == {"trace", "logging", "authenticate"}
ReadsRoute == {"logging", "routeName", "metrics"}
InOrder ==
    /\ \A w \in Wirings : \A i, j \in DOMAIN w.mw : i < j =>
          /\ w.mw[i] \in ReadsRoute => w.mw[j] \notin HandsOnItsOwn
          /\ w.mw[i] = "recovery" => w.mw[j] # "logging"
    /\ \A o \in Options : \A i \in DOMAIN DefaultOptions : \E j \in DOMAIN o : o[j] = DefaultOptions[i]

VARIABLES
    wiring,      \* Server.mw and its logger
    options,     \* of the RPC service mounted on it
    incoming,    \* what the client sends
    tracer,      \* trace.Component: "new", "on", "failed", "flushed" or "lost"
    place,       \* the layer that has the request
    heading,     \* how it moves: "wait", "down", "up", "panic", "abort" or "done"
    objs,        \* the http.Requests made of it: [span, log, pattern]
    held,        \* layer -> the one its r is
    rec,         \* the recorders
    wire,        \* the status net/http has sent, 0 before
    err,         \* the error an interceptor gets from the next one: [is, code]
    span,        \* "http" and "rpc" spans: [state, name]
    accessLine,  \* the access line
    rpcLine,     \* the logger that wrote down an RPC's failure
    count,       \* the "http" and "rpc" counters: [n, route, label]
    answer       \* what an RPC's caller is told: [code, text]

telemetryVars == <<wiring, options, incoming, tracer, place, heading, objs, held, rec, wire,
                   err, span, accessLine, rpcLine, count, answer>>

-----------------------------------------------------------------------------
Path == wiring.mw \o <<"mux">> \o
        (IF incoming.kind = "http" THEN <<>> ELSE <<"connect">> \o options)

IsRPC == incoming.kind \in {"grpc", "connect"}
HasTrace == \E i \in DOMAIN wiring.mw : wiring.mw[i] = "trace"

NoSpan == [state |-> "none", name |-> "method"]
NoCount == [n |-> 0, route |-> FALSE, label |-> 0]
NoAccessLine == [written |-> FALSE, route |-> FALSE, status |-> 0, error |-> FALSE,
           traced |-> FALSE, rpcCode |-> "none"]
Nil == [is |-> "nil", code |-> "ok"]

TelemetryInit ==
    /\ wiring \in Wirings /\ options \in Options /\ incoming \in Incoming
    /\ tracer = "new" /\ place = 1 /\ heading = "wait"
    /\ objs = <<[span |-> FALSE, log |-> FALSE, pattern |-> FALSE]>>
    /\ held = [l \in Layer |-> 1]
    /\ rec = [l \in {"logging", "recovery", "metrics"} |->
                 [on |-> FALSE, wrote |-> FALSE, status |-> 200]]
    /\ wire = 0 /\ err = Nil
    /\ span = [s \in {"http", "rpc"} |-> NoSpan]
    /\ accessLine = NoAccessLine /\ rpcLine = "none"
    /\ count = [c \in {"http", "rpc"} |-> NoCount]
    /\ answer = [code |-> "none", text |-> "none"]

tracerVars == <<tracer>>
inputVars == <<wiring, options, incoming>>
copyVars == <<objs, held>>
sentVars == <<rec, wire>>
toldVars == <<span, accessLine, count>>
rpcVars == <<err, rpcLine, answer>>

-----------------------------------------------------------------------------
\* trace.Component.  Its tier starts it before the server and stops it after.
TracerStarts ==
    /\ heading = "wait" /\ tracer = "new" /\ HasTrace
    /\ \/ tracer' = "on" /\ heading' = "down"
       \/ tracer' = "failed" /\ heading' = "done"    \* the exporter, or the resource
    /\ UNCHANGED <<inputVars, place, copyVars, sentVars, toldVars, rpcVars>>

NoTracer ==
    /\ heading = "wait" /\ ~HasTrace
    /\ heading' = "down"
    /\ UNCHANGED <<inputVars, tracer, place, copyVars, sentVars, toldVars, rpcVars>>

\* Shutdown exports what the batch still holds, or its context ends first.
TracerStops ==
    /\ heading = "done" /\ tracer = "on"
    /\ tracer' \in {"flushed", "lost"}
    /\ span' = [s \in DOMAIN span |->
                  IF tracer' = "flushed" /\ span[s].state = "ended"
                  THEN [span[s] EXCEPT !.state = "exported"] ELSE span[s]]
    /\ UNCHANGED <<inputVars, place, heading, copyVars, sentVars, accessLine, count, rpcVars>>

-----------------------------------------------------------------------------
Current == Len(objs)
Here(l) == heading = "down" /\ place \in DOMAIN Path /\ Path[place] = l

\* r = r.WithContext(...): what ServeMux fills in below goes to the new one.
Copy(l, o) ==
    /\ objs' = Append(objs, o)
    /\ held' = IF l \in Layer THEN [held EXCEPT ![l] = Current + 1] ELSE held
Keep(l) ==
    /\ held' = [held EXCEPT ![l] = Current]
    /\ UNCHANGED objs

Pass == place' = place + 1 /\ UNCHANGED heading
Answer == heading' = "up" /\ UNCHANGED place

PlaceOf(l) == CHOOSE i \in DOMAIN Path : Path[i] = l
Wraps(l) == rec[l].on
Outside(k) == {l \in DOMAIN rec : Wraps(l) /\ PlaceOf(l) < k}

\* recorder.WriteHeader of every recorder outside k, from the inside outwards:
\* the first one that has written already swallows the call.
RecordHeader(status, k) ==
    LET Open(l) == \A m \in Outside(k) : PlaceOf(m) >= PlaceOf(l) => ~rec[m].wrote
    IN /\ rec' = [l \in DOMAIN rec |->
                    IF l \in Outside(k) /\ Open(l)
                    THEN [rec[l] EXCEPT !.wrote = TRUE, !.status = status] ELSE rec[l]]
       /\ wire' = IF wire = 0 /\ \A l \in Outside(k) : ~rec[l].wrote THEN status ELSE wire

\* recorder.Write and recorder.Flush: net/http sends 200 if nobody has.
WriteBody(k) ==
    /\ rec' = [l \in DOMAIN rec |->
                 IF l \in Outside(k) THEN [rec[l] EXCEPT !.wrote = TRUE] ELSE rec[l]]
    /\ wire' = IF wire = 0 THEN 200 ELSE wire

-----------------------------------------------------------------------------
\* otelhttp, with RPCs filtered out.  Mutant: without the filter.
FilteredNone == FALSE
Filtered == IsRPC

DownTrace ==
    /\ Here("trace")
    /\ Pass
    /\ IF Filtered THEN Keep("trace") /\ UNCHANGED span
       ELSE /\ Copy("trace", [objs[Current] EXCEPT !.span = TRUE])
            /\ span' = [span EXCEPT !["http"].state = "open"]
    /\ UNCHANGED <<inputVars, tracer, sentVars, accessLine, count, rpcVars>>

DownLogging ==
    /\ Here("logging")
    /\ Pass
    /\ Copy("logging", [objs[Current] EXCEPT !.log = TRUE])
    /\ rec' = [rec EXCEPT !["logging"].on = ~incoming.probe]
    /\ UNCHANGED <<inputVars, tracer, wire, toldVars, rpcVars>>

\* Recovery looks through Logging's recorder where it is handed that one itself.
Handed ==
    \E j \in 1..place - 1 :
        /\ Path[j] = "logging" /\ rec["logging"].on
        /\ \A i \in j+1..place - 1 : Path[i] # "metrics" /\ (Path[i] = "trace" => Filtered)

DownRecovery ==
    /\ Here("recovery")
    /\ Pass /\ Keep("recovery")
    /\ rec' = [rec EXCEPT !["recovery"].on = ~Handed]
    /\ UNCHANGED <<inputVars, tracer, wire, toldVars, rpcVars>>

DownRouteName ==
    /\ Here("routeName")
    /\ Pass /\ Keep("routeName")
    /\ UNCHANGED <<inputVars, tracer, sentVars, toldVars, rpcVars>>

DownMetrics ==
    /\ Here("metrics")
    /\ Pass /\ Keep("metrics")
    /\ rec' = [rec EXCEPT !["metrics"].on = TRUE]
    /\ UNCHANGED <<inputVars, tracer, wire, toldVars, rpcVars>>

\* No token passes, a good one goes into a new request's context, a bad one is
\* answered.
DownAuthenticate ==
    /\ Here("authenticate")
    /\ CASE incoming.token = "none" -> Pass /\ Keep("authenticate") /\ UNCHANGED sentVars
         [] incoming.token = "good" -> Pass /\ Copy("authenticate", objs[Current]) /\ UNCHANGED sentVars
         [] incoming.token = "bad"  -> Answer /\ Keep("authenticate") /\ RecordHeader(401, place)
    /\ UNCHANGED <<inputVars, tracer, toldVars, rpcVars>>

\* ServeMux fills in the pattern on the request it was handed.
DownMux ==
    /\ Here("mux")
    /\ IF incoming.matches
       THEN /\ Pass
            /\ objs' = [objs EXCEPT ![Current].pattern = TRUE]
            /\ UNCHANGED sentVars
       ELSE /\ Answer
            /\ RecordHeader(404, place)
            /\ UNCHANGED objs
    /\ UNCHANGED <<inputVars, tracer, held, toldVars, rpcVars>>

-----------------------------------------------------------------------------
\* connect refuses a POST without its header before any interceptor runs.
DownConnect ==
    /\ Here("connect")
    /\ IF incoming.kind = "post" /\ \E i \in DOMAIN options : options[i] = "requireHeader"
       THEN /\ Answer
            /\ err' = [is |-> "connect", code |-> "invalid_argument"]
       ELSE Pass /\ UNCHANGED err
    /\ UNCHANGED <<inputVars, tracer, copyVars, sentVars, toldVars, rpcLine, answer>>

DownOption ==
    /\ \E o \in Option :
          /\ Here(o)
          /\ Pass
          /\ span' = IF o = "rpcTrace" THEN [span EXCEPT !["rpc"].state = "open"] ELSE span
    /\ UNCHANGED <<inputVars, tracer, copyVars, sentVars, accessLine, count, rpcVars>>

AtHandler == heading = "down" /\ place = Len(Path) + 1

\* A handler of HTTP: informational statuses, one or more WriteHeaders, a body.
Handles ==
    /\ AtHandler /\ incoming.kind = "http"
    /\ \/ \E status \in {200, 500} : RecordHeader(status, place)
       \/ WriteBody(place)
    /\ UNCHANGED <<inputVars, tracer, place, heading, copyVars, toldVars, rpcVars>>

Leaves(how) ==
    /\ heading' = how
    /\ place' = place - 1

HandlerReturns ==
    /\ AtHandler
    /\ Leaves("up")
    /\ err' \in IF incoming.kind = "http" THEN {Nil}
                ELSE {Nil, [is |-> "connect", code |-> "not_found"], [is |-> "bare", code |-> "unknown"]}
    /\ UNCHANGED <<inputVars, tracer, copyVars, sentVars, toldVars, rpcLine, answer>>

HandlerPanics ==
    /\ AtHandler
    /\ \E how \in {"panic", "abort"} : Leaves(how)
    /\ UNCHANGED <<inputVars, tracer, copyVars, sentVars, toldVars, rpcVars>>

-----------------------------------------------------------------------------
\* On the way out every layer sees a return, a panic or an abort
\* (http.ErrAbortHandler), which goes on outwards unless it is caught.
Back(l) == heading \in {"up", "panic", "abort"} /\ place \in DOMAIN Path /\ Path[place] = l
Unwind == place' = place - 1 /\ UNCHANGED heading
Catch == place' = place - 1 /\ heading' = "up"

EndSpan(s) == [span EXCEPT ![s].state = IF @ = "open" THEN "ended" ELSE @]

UpRpcTrace ==
    /\ Back("rpcTrace")
    /\ Unwind
    /\ span' = EndSpan("rpc")
    /\ UNCHANGED <<inputVars, tracer, copyVars, sentVars, accessLine, count, rpcVars>>

\* grpc/metrics record: a panic is counted as what WithRecover will make of it.
UpRpcMetrics ==
    /\ Back("rpcMetrics")
    /\ Unwind
    /\ count' = IF heading = "abort" THEN count
                ELSE [count EXCEPT !["rpc"].n = @ + 1,
                                   !["rpc"].label =
                                       IF heading = "panic" THEN "internal" ELSE err.code]
    /\ UNCHANGED <<inputVars, tracer, copyVars, sentVars, span, accessLine, rpcVars>>

\* logFrom: the request's logger where Logging has put one in the context.
\* Mutant: always the one DefaultOptions was given.
Fallback == "fallback"
LogFrom == IF objs[Current].log THEN "request" ELSE "fallback"

\* clean: a connect error is what the handler chose to say; any other becomes
\* a bare unknown.  Both are written down.
UpSanitise ==
    /\ Back("sanitise")
    /\ Unwind
    /\ IF heading = "up" /\ err # Nil
       THEN err' = [err EXCEPT !.is = "connect"] /\ rpcLine' = LogFrom
       ELSE UNCHANGED <<err, rpcLine>>
    /\ UNCHANGED <<inputVars, tracer, copyVars, sentVars, toldVars, answer>>

\* connect.WithRecover re-panics an abort.
UpRecover ==
    /\ Back("recover")
    /\ IF heading = "panic"
       THEN /\ Catch
            /\ err' = [is |-> "connect", code |-> "internal"]
            /\ rpcLine' = LogFrom
       ELSE Unwind /\ UNCHANGED <<err, rpcLine>>
    /\ UNCHANGED <<inputVars, tracer, copyVars, sentVars, toldVars, answer>>

UpRequireHeader ==
    /\ Back("requireHeader")
    /\ Unwind
    /\ UNCHANGED <<inputVars, tracer, copyVars, sentVars, toldVars, rpcVars>>

\* A gRPC answer is 200 with the code in a trailer; the Connect protocol has a
\* status for each code.
StatusOf(code) ==
    CASE incoming.kind = "grpc" \/ code = "ok" -> 200
      [] code = "not_found" -> 404
      [] code = "invalid_argument" -> 400
      [] OTHER -> 500

UpConnect ==
    /\ Back("connect")
    /\ Unwind
    /\ IF heading = "up"
       THEN /\ RecordHeader(StatusOf(err.code), place)
            /\ answer' = [code |-> err.code, text |-> IF err.is = "bare" THEN "verbatim" ELSE "chosen"]
       ELSE UNCHANGED <<sentVars, answer>>
    /\ UNCHANGED <<inputVars, tracer, copyVars, toldVars, err, rpcLine>>

UpSilently ==
    /\ \E l \in {"mux", "authenticate"} : Back(l)
    /\ Unwind
    /\ UNCHANGED <<inputVars, tracer, copyVars, sentVars, toldVars, rpcVars>>

RouteFor(l) == objs[held[l]].pattern

\* A panic nobody has answered yet will be.  Mutant: the recorder's status.
StatusSeen == rec["metrics"].status
Label == IF heading = "panic" /\ ~rec["metrics"].wrote THEN 500 ELSE StatusSeen

\* web/metrics record, in a defer
UpMetrics ==
    /\ Back("metrics")
    /\ Unwind
    /\ count' = IF heading = "abort" THEN count
                ELSE [count EXCEPT !["http"] =
                        [n |-> @.n + 1, route |-> RouteFor("metrics"), label |-> Label]]
    /\ UNCHANGED <<inputVars, tracer, copyVars, sentVars, span, accessLine, rpcVars>>

\* In a defer; the span is the one in its request's context, if there is one.
UpRouteName ==
    /\ Back("routeName")
    /\ Unwind
    /\ span' = IF RouteFor("routeName") /\ objs[held["routeName"]].span
               THEN [span EXCEPT !["http"].name = "route"] ELSE span
    /\ UNCHANGED <<inputVars, tracer, copyVars, sentVars, accessLine, count, rpcVars>>

HasWritten == rec[IF rec["recovery"].on THEN "recovery" ELSE "logging"].wrote

UpRecovery ==
    /\ Back("recovery")
    /\ IF heading = "panic"
       THEN /\ Catch
            /\ IF HasWritten THEN UNCHANGED sentVars ELSE RecordHeader(500, place + 1)
       ELSE Unwind /\ UNCHANGED sentVars
    /\ UNCHANGED <<inputVars, tracer, copyVars, toldVars, rpcVars>>

\* rpcStatus: a Grpc-Status other than 0.
RpcCode == IF incoming.kind = "grpc" /\ answer.code \notin {"none", "ok"}
           THEN answer.code ELSE "none"

\* Not in a defer: what panics through Logging leaves no line.
UpLogging ==
    /\ Back("logging")
    /\ Unwind
    /\ accessLine' = IF heading = "up" /\ ~incoming.probe
               THEN [written |-> TRUE, route |-> RouteFor("logging"),
                     status |-> rec["logging"].status,
                     error |-> rec["logging"].status >= 500 \/ RpcCode # "none",
                     traced |-> wiring.ids /\ objs[held["logging"]].span,
                     rpcCode |-> RpcCode]
               ELSE accessLine
    /\ UNCHANGED <<inputVars, tracer, copyVars, sentVars, span, count, rpcVars>>

UpTrace ==
    /\ Back("trace")
    /\ Unwind
    /\ span' = EndSpan("http")
    /\ UNCHANGED <<inputVars, tracer, copyVars, sentVars, accessLine, count, rpcVars>>

\* net/http: a request that returns is answered, one that panics is dropped.
Conclude ==
    /\ heading \in {"up", "panic", "abort"} /\ place = 0
    /\ wire' = IF heading = "up" /\ wire = 0 THEN 200 ELSE wire
    /\ heading' = "done"
    /\ UNCHANGED <<inputVars, tracer, place, copyVars, rec, toldVars, rpcVars>>

TelemetryOver ==
    /\ heading = "done" /\ tracer # "on"
    /\ UNCHANGED telemetryVars

-----------------------------------------------------------------------------
Enter ==
    \/ DownTrace \/ DownLogging \/ DownRecovery \/ DownRouteName \/ DownMetrics
    \/ DownAuthenticate \/ DownMux \/ DownConnect \/ DownOption

Leave ==
    \/ UpRpcTrace \/ UpRpcMetrics \/ UpSanitise \/ UpRecover
    \/ UpRequireHeader \/ UpConnect \/ UpSilently
    \/ UpMetrics \/ UpRouteName \/ UpRecovery \/ UpLogging \/ UpTrace

TelemetryNext ==
    \/ TracerStarts \/ NoTracer \/ TracerStops
    \/ Enter \/ Handles \/ HandlerReturns \/ HandlerPanics \/ Leave
    \/ Conclude \/ TelemetryOver

TelemetrySpec == TelemetryInit /\ [][TelemetryNext]_telemetryVars

-----------------------------------------------------------------------------
(* Properties                                                               *)

StatusCode == {0, 200, 400, 401, 404, 500}
Code == {"none", "ok", "not_found", "unknown", "internal", "invalid_argument"}

TelemetryTypeOK ==
    /\ wiring \in Wirings /\ options \in Options /\ incoming \in Incoming
    /\ tracer \in {"new", "on", "failed", "flushed", "lost"}
    /\ place \in 0..Len(Path) + 1
    /\ heading \in {"wait", "down", "up", "panic", "abort", "done"}
    /\ objs \in Seq([span : BOOLEAN, log : BOOLEAN, pattern : BOOLEAN])
    /\ held \in [Layer -> DOMAIN objs]
    /\ rec \in [{"logging", "recovery", "metrics"} ->
                   [on : BOOLEAN, wrote : BOOLEAN, status : StatusCode]]
    /\ wire \in StatusCode
    /\ err \in [is : {"nil", "connect", "bare"}, code : Code]
    /\ span \in [{"http", "rpc"} -> [state : {"none", "open", "ended", "exported"},
                                     name : {"method", "route"}]]
    /\ accessLine \in [written : BOOLEAN, route : BOOLEAN, status : StatusCode, error : BOOLEAN,
                traced : BOOLEAN, rpcCode : Code]
    /\ rpcLine \in {"none", "request", "fallback"}
    /\ \A c \in {"http", "rpc"} : count[c].n \in 0..1 /\ count[c].route \in BOOLEAN
    /\ answer \in [code : Code, text : {"none", "chosen", "verbatim"}]

Served == heading = "done" /\ tracer # "failed"
Routed == \E i \in DOMAIN objs : objs[i].pattern
Outermost(l) == wiring.mw # <<>> /\ Head(wiring.mw) = l
Lists(l) == \E i \in DOMAIN wiring.mw : wiring.mw[i] = l

\* Whatever names the route a request took names that one: the access line
\* ("route" is what an operator groups by, middleware.go:113-115), the counter
\* ("an empty route is a request that matched no pattern", metrics.go:78) and
\* the span, after a panic too (trace.go:145-148).
RouteTold ==
    Served =>
        /\ accessLine.written => accessLine.route = Routed
        /\ count["http"].n > 0 => count["http"].route = Routed
        /\ Lists("routeName") /\ span["http"].state # "none" =>
              (span["http"].name = "route") = Routed

\* The counters and the access line have what the client got, also when the
\* handler panics before or after it has written; an abort is not counted and
\* leaves no line (metrics.go:119-150, grpc/metrics/metrics.go:97-120).
CountedAsAnswered ==
    Served /\ Lists("recovery") =>
        /\ count["http"].n > 0 => count["http"].label = wire
        /\ accessLine.written => accessLine.status = wire /\ (wire >= 500 => accessLine.error)
        /\ count["rpc"].n > 0 => count["rpc"].label = answer.code
        /\ Lists("metrics") /\ Lists("logging") /\ ~incoming.probe =>
              (count["http"].n > 0) = accessLine.written

\* A request has one span, of HTTP or of the RPC, whatever becomes of it; it is
\* ended, exported if Stop had the time, and what the access line points to
\* (trace.go:121-127, 246-249, 257-260).
OneSpan ==
    Served =>
        /\ \A s \in DOMAIN span : span[s].state # "open"
        /\ span["http"].state = "none" \/ span["rpc"].state = "none"
        /\ Outermost("trace") /\ ~IsRPC => span["http"].state # "none"
        /\ tracer = "flushed" => \A s \in DOMAIN span : span[s].state # "ended"
        /\ accessLine.traced => span["http"].state # "none"
        /\ Outermost("trace") /\ wiring.ids /\ accessLine.written =>
              accessLine.traced = (span["http"].state # "none")

\* A caller of an RPC is told what the handler chose to say and nothing else,
\* and every failure is written down where the access line leads
\* (grpc.go:63-75, 107-132).
NothingLeaks ==
    /\ answer.text # "verbatim"
    /\ Served /\ answer.code \in {"not_found", "unknown", "internal"} =>
          rpcLine = IF Lists("logging") THEN "request" ELSE "fallback"

\* The access line, the counters and the spans say the same of a request, which
\* is what the client got and the route it took.
RecordsAgree == RouteTold /\ CountedAsAnswered /\ OneSpan /\ NothingLeaks
=============================================================================

--------------------------- MODULE TelemetryProofs ---------------------------
(***************************************************************************)
(* What is recorded of a request agrees with what the client got, in every *)
(* order of the middleware and of the connect options that the packages'   *)
(* documentation allows, and for any requests.                             *)
(***************************************************************************)
EXTENDS Telemetry, TLAPS

-----------------------------------------------------------------------------
(* The inductive invariant                                                  *)

N == Len(wiring.mw)
M == Len(Path)

\* How many layers of Path are on the stack: those at 1..Depth.
Depth == IF heading \in {"up", "panic", "abort"} THEN place
         ELSE IF heading = "done" THEN 0 ELSE place - 1

Deeper(l) == \E i \in 1..M : Path[i] = l /\ i <= Depth   \* l is on the stack
OnTheWayDown == heading \in {"wait", "down"}
OnTheWayUp == heading \in {"up", "panic", "abort"}

Object == [span : BOOLEAN, log : BOOLEAN, pattern : BOOLEAN]
Recorders == {"logging", "recovery", "metrics"}

TelemetryTypes ==
    /\ wiring \in Wirings /\ options \in Options /\ incoming \in Incoming
    /\ tracer \in {"new", "on", "failed", "flushed", "lost"}
    /\ heading \in {"wait", "down", "up", "panic", "abort", "done"}
    /\ objs \in Seq(Object) /\ objs # <<>>
    /\ held \in [Layer -> 1..Len(objs)]
    /\ rec \in [Recorders -> [on : BOOLEAN, wrote : BOOLEAN, status : StatusCode]]
    /\ wire \in StatusCode
    /\ err \in [is : {"nil", "connect", "bare"}, code : Code]
    /\ span \in [{"http", "rpc"} -> [state : {"none", "open", "ended", "exported"},
                                     name : {"method", "route"}]]
    /\ accessLine \in [written : BOOLEAN, route : BOOLEAN, status : StatusCode, error : BOOLEAN,
                 traced : BOOLEAN, rpcCode : Code]
    /\ rpcLine \in {"none", "request", "fallback"}
    /\ DOMAIN count = {"http", "rpc"}
    /\ \A c \in {"http", "rpc"} :
          count[c] = [n |-> count[c].n, route |-> count[c].route, label |-> count[c].label]
    /\ \A c \in {"http", "rpc"} : count[c].n \in 0..1 /\ count[c].route \in BOOLEAN
    /\ answer \in [code : Code, text : {"none", "chosen", "verbatim"}]

\* Where the request is.  What catches a panic is not left by one.
Where ==
    /\ heading = "wait" => place = 1 /\ tracer = "new"
    /\ heading = "down" => place \in 1..M + 1 /\ tracer \in {"new", "on"}
    /\ OnTheWayUp => place \in 0..M /\ tracer \in {"new", "on"}
    /\ heading = "done" => place \in 0..1
    /\ tracer \in {"failed", "flushed", "lost"} => heading = "done"
    /\ heading = "down" /\ place > N + 2 => incoming.kind # "post"
    /\ heading = "panic" => \A l \in {"recovery", "recover"}, i \in 1..M : Path[i] = l => i <= Depth

\* Every recorder on the stack has seen what net/http has sent.
Seen ==
    /\ OnTheWayDown /\ place <= M => wire = 0 /\ \A r \in Recorders : ~rec[r].wrote /\ rec[r].status = 200
    /\ \A r \in Recorders : rec[r].on /\ OnTheWayDown => Deeper(r)
    /\ \A r \in Recorders : rec[r].on /\ Deeper(r) =>
          /\ rec[r].wrote <=> wire # 0
          /\ rec[r].status = IF wire = 0 THEN 200 ELSE wire
    /\ Deeper("logging") => rec["logging"].on = ~incoming.probe
    /\ Deeper("metrics") => rec["metrics"].on
    /\ \A i \in 1..M : Path[i] = "recovery" /\ i <= Depth /\ ~rec["recovery"].on =>
          rec["logging"].on /\ \E j \in 1..i-1 : Path[j] = "logging"
    /\ \A r \in Recorders : rec[r].on => \E i \in 1..N : Path[i] = r

Latest == objs[Len(objs)]

\* What reads the route holds the request that ServeMux filled in.
Routing ==
    /\ \A i \in 1..M : i <= Depth /\ Path[i] \in ReadsRoute => held[Path[i]] = Len(objs)
    /\ \A k \in 1..Len(objs) : objs[k].pattern => k = Len(objs)
    /\ OnTheWayDown /\ place <= N + 1 => ~Latest.pattern
    /\ Latest.span <=> span["http"].state # "none"
    /\ OnTheWayDown \/ place > N + 1 => (Latest.log <=> \E i \in 1..N : i < place /\ Path[i] = "logging")

Spans ==
    /\ span["http"].state = "open" => Deeper("trace")
    /\ span["rpc"].state = "open" => Deeper("rpcTrace")
    /\ Outermost("trace") /\ ~IsRPC /\ heading # "wait" /\ tracer # "failed" /\ ~(heading = "down" /\ place = 1)
          => span["http"].state # "none"
    /\ span["http"].state # "none" => ~IsRPC
    /\ span["rpc"].state # "none" => IsRPC
    /\ tracer = "flushed" => \A s \in {"http", "rpc"} : span[s].state # "ended"
    /\ span["http"].name = "route" => Latest.pattern
    /\ Latest.pattern /\ span["http"].state # "none" =>
          \A i \in 1..N : Path[i] = "routeName" /\ i > Depth => span["http"].name = "route"

SentStatus == IF wire = 0 THEN 200 ELSE wire

Lines ==
    /\ accessLine.traced => accessLine.written
    /\ accessLine.written =>
        /\ heading \in {"up", "done"} /\ ~Deeper("logging") /\ Lists("logging")
        /\ ~incoming.probe /\ tracer # "failed"
        /\ accessLine.route = Latest.pattern
        /\ accessLine.status = SentStatus /\ (accessLine.status >= 500 => accessLine.error)
        /\ accessLine.traced <=> wiring.ids /\ Latest.span

Counted ==
    /\ count["http"].n > 0 =>
        /\ heading \in {"up", "panic", "done"} /\ ~Deeper("metrics") /\ Lists("metrics")
        /\ count["http"].route = Latest.pattern
        /\ heading = "up" => count["http"].label = SentStatus
        /\ heading = "panic" => count["http"].label = IF wire = 0 THEN 500 ELSE wire
        /\ heading = "done" /\ Lists("recovery") => count["http"].label = wire
    /\ heading \in {"up", "panic"} /\ Deeper("logging") =>
        \A i \in 1..N : Path[i] = "metrics" /\ i > Depth => count["http"].n > 0
    /\ Lists("recovery") /\ Lists("metrics") /\ ~incoming.probe =>
        \A i \in 1..N : Path[i] = "logging" /\ i > Depth => (count["http"].n > 0 <=> accessLine.written)
    /\ heading = "done" /\ Lists("recovery") /\ tracer # "failed" /\ accessLine.written => accessLine.status = wire

Expected == IF Lists("logging") THEN "request" ELSE "fallback"
Failure == {"not_found", "unknown", "internal"}

Replies ==
    /\ err # Nil => heading \in {"up", "done"}
    /\ err.is = "nil" => err.code = "ok"
    /\ heading = "up" /\ err.is = "bare" => Deeper("sanitise")
    /\ heading = "up" /\ place >= N + 2 /\ err.code \in Failure /\ ~Deeper("sanitise") => rpcLine = Expected
    /\ answer.code # "none" => heading \in {"up", "done"} /\ Depth < N + 2 /\ answer.code = err.code
    /\ answer.code \in Failure => rpcLine = Expected
    /\ answer.text # "verbatim"
    /\ count["rpc"].n > 0 =>
        /\ heading \in {"up", "panic", "done"} /\ ~Deeper("rpcMetrics") /\ incoming.kind # "http"
        /\ heading = "panic" => count["rpc"].label = "internal"
        /\ heading # "panic" => count["rpc"].label = err.code
        /\ heading # "panic" /\ Depth < N + 2 => answer.code = err.code

TelemetryInv == TelemetryTypes /\ Where /\ Seen /\ Routing /\ Spans /\ Lines /\ Counted /\ Replies

-----------------------------------------------------------------------------
(* The layers of a request.                                                 *)

\* Path lists the middleware, ServeMux and, for an RPC, connect and its options,
\* nothing twice, in the order the packages ask for.
Shape ==
    /\ N \in Nat /\ M \in Nat /\ M >= N + 1 /\ DOMAIN Path = 1..M
    /\ \A i \in 1..N : Path[i] = wiring.mw[i] /\ Path[i] \in Layer
    /\ Path[N + 1] = "mux"
    /\ incoming.kind = "http" => M = N + 1
    /\ incoming.kind # "http" => /\ M >= N + 2 /\ Path[N + 2] = "connect"
                               /\ \A i \in N + 3..M : Path[i] \in Option
    /\ \A i, j \in 1..M : Path[i] = Path[j] => i = j
    /\ \A i, j \in 1..N : i < j =>
          /\ Path[i] \in ReadsRoute => Path[j] \notin HandsOnItsOwn
          /\ Path[i] = "recovery" => Path[j] # "logging"
    /\ incoming.kind # "http" =>
          \A l \in {"recover", "sanitise", "requireHeader"} : \E i \in N + 3..M : Path[i] = l
    /\ \A l : Lists(l) <=> \E i \in 1..N : Path[i] = l
    /\ \A l : Outermost(l) <=> N >= 1 /\ Path[1] = l
    /\ HasTrace <=> \E i \in 1..N : Path[i] = "trace"
    /\ \A l : Here(l) <=> heading = "down" /\ place \in 1..M /\ Path[place] = l
    /\ \A l : Back(l) <=> OnTheWayUp /\ place \in 1..M /\ Path[place] = l

\* Two sequences, one after the other.
LEMMA Joined ==
    ASSUME NEW S, NEW a \in Seq(S), NEW b \in Seq(S)
    PROVE  /\ a \o b \in Seq(S) /\ Len(a \o b) = Len(a) + Len(b) /\ Len(a) \in Nat /\ Len(b) \in Nat
           /\ \A i \in 1..Len(a) : (a \o b)[i] = a[i]
           /\ \A i \in 1..Len(b) : (a \o b)[Len(a) + i] = b[i]
  OBVIOUS

\* What Shape says is so, if the slices are in order.
LEMMA PathShape ==
    ASSUME WiringsWellFormed, InOrder, TelemetryTypes
    PROVE  Shape
<1>. DEFINE mw == wiring.mw
            opts == options
            pre == mw \o <<"mux">>
            tail == IF incoming.kind = "http" THEN <<>> ELSE <<"connect">> \o opts
            Any == Layer \cup {"mux", "connect"} \cup Option
<1>1. mw \in Seq(Layer) /\ opts \in Seq(Option) /\ incoming.kind \in Kind
  BY DEF WiringsWellFormed, TelemetryTypes, IncomingType
<1>2. /\ \A i, j \in 1..N : mw[i] = mw[j] => i = j
      /\ \A i, j \in 1..Len(opts) : opts[i] = opts[j] => i = j
  BY <1>1 DEF WiringsWellFormed, TelemetryTypes, N
<1>3. /\ \A i, j \in 1..N : i < j =>
             /\ mw[i] \in ReadsRoute => mw[j] \notin HandsOnItsOwn
             /\ mw[i] = "recovery" => mw[j] # "logging"
      /\ \A l \in {"recover", "sanitise", "requireHeader"} : \E j \in 1..Len(opts) : opts[j] = l
  <2>1. \A i \in DOMAIN DefaultOptions : \E j \in DOMAIN opts : opts[j] = DefaultOptions[i]
    BY DEF InOrder, TelemetryTypes
  <2>2. /\ \E j \in DOMAIN opts : opts[j] = "recover"
        /\ \E j \in DOMAIN opts : opts[j] = "sanitise"
        /\ \E j \in DOMAIN opts : opts[j] = "requireHeader"
    BY <2>1 DEF DefaultOptions
  <2>. QED
    BY <1>1, <2>2 DEF InOrder, TelemetryTypes, N
<1>4. /\ pre \in Seq(Any) /\ Len(pre) = N + 1 /\ N \in Nat
      /\ \A i \in 1..N : pre[i] = mw[i]
      /\ pre[N + 1] = "mux"
  <2>1. mw \in Seq(Any) /\ <<"mux">> \in Seq(Any)
    BY <1>1
  <2>. QED
    BY <2>1, Joined DEF N
<1>5. /\ tail \in Seq(Any) /\ Len(opts) \in Nat
      /\ Len(tail) = IF incoming.kind = "http" THEN 0 ELSE 1 + Len(opts)
      /\ incoming.kind # "http" =>
            tail[1] = "connect" /\ \A i \in 1..Len(opts) : tail[1 + i] = opts[i]
  <2>1. opts \in Seq(Any) /\ <<"connect">> \in Seq(Any) /\ <<>> \in Seq(Any)
    BY <1>1
  <2>2. CASE incoming.kind = "http"
    BY <2>1, <2>2
  <2>3. CASE incoming.kind # "http"
    BY <2>1, <2>3, Joined
  <2>. QED
    BY <2>2, <2>3
<1>6. /\ N \in Nat /\ Len(tail) \in Nat /\ M = N + 1 + Len(tail) /\ DOMAIN Path = 1..M
      /\ \A i \in 1..N : Path[i] = mw[i]
      /\ Path[N + 1] = "mux"
      /\ \A i \in 1..Len(tail) : Path[N + 1 + i] = tail[i]
  <2>1. Path = pre \o tail
    BY DEF Path
  <2>. HIDE DEF pre, tail, Any
  <2>2. /\ Path \in Seq(Any) /\ Len(Path) = Len(pre) + Len(tail) /\ Len(tail) \in Nat
        /\ \A i \in 1..Len(pre) : Path[i] = pre[i]
        /\ \A i \in 1..Len(tail) : Path[Len(pre) + i] = tail[i]
    <3>1. pre \in Seq(Any) /\ tail \in Seq(Any)
      BY <1>4, <1>5
    <3>. QED
      BY <2>1, <3>1, Joined
  <2>. QED
    BY <1>4, <2>2 DEF M
<1>. HIDE DEF tail, pre
<1>7. \A i \in 1..N : Path[i] = mw[i] /\ Path[i] \in Layer
  BY <1>1, <1>6 DEF N
<1>8. incoming.kind # "http" =>
        /\ M = N + 2 + Len(opts) /\ Path[N + 2] = "connect"
        /\ \A i \in 1..Len(opts) : Path[N + 2 + i] = opts[i]
  BY <1>5, <1>6
<1>9. N \in Nat /\ M \in Nat /\ M >= N + 1 /\ DOMAIN Path = 1..M
  BY <1>6
<1>10. incoming.kind = "http" => M = N + 1
  BY <1>5, <1>6
<1>11. incoming.kind # "http" => M >= N + 2 /\ Path[N + 2] = "connect"
  BY <1>5, <1>6, <1>8
<1>12. incoming.kind # "http" => \A i \in N + 3..M : Path[i] \in Option /\ Path[i] = opts[i - N - 2]
  <2>. SUFFICES ASSUME incoming.kind # "http", NEW i \in N + 3..M
                PROVE  Path[i] \in Option /\ Path[i] = opts[i - N - 2]
    OBVIOUS
  <2>1. i - N - 2 \in 1..Len(opts) /\ i = N + 2 + (i - N - 2)
    BY <1>5, <1>6, <1>8
  <2>2. opts[i - N - 2] \in Option
    BY <1>1, <2>1
  <2>. QED
    BY <1>8, <2>1, <2>2
<1>13. \A i, j \in 1..M : Path[i] = Path[j] => i = j
  <2>1. \A i \in N + 1..M : \/ i = N + 1 /\ Path[i] = "mux"
                            \/ i = N + 2 /\ Path[i] = "connect"
                            \/ i \in N + 3..M /\ Path[i] \in Option
    <3>1. Path[N + 1] = "mux"
      BY <1>6
    <3>. QED
      BY <1>9, <1>10, <1>11, <1>12, <3>1
  <2>2. \A i \in N + 1..M : Path[i] \notin Layer
    BY <2>1 DEF Layer, Option
  <2>3. \A i \in N + 2..M : Path[i] # "mux"
    BY <2>1, <1>9 DEF Option
  <2>4. \A i \in N + 3..M : Path[i] # "connect"
    BY <2>1, <1>9 DEF Option
  <2>5. \A i, j \in N + 3..M : Path[i] = Path[j] => i = j
    <3>. SUFFICES ASSUME NEW i \in N + 3..M, NEW j \in N + 3..M, Path[i] = Path[j] PROVE i = j
      OBVIOUS
    <3>1. incoming.kind # "http"
      BY <1>9, <1>10
    <3>2. i - N - 2 \in 1..Len(opts) /\ j - N - 2 \in 1..Len(opts)
      BY <1>5, <1>6, <1>8, <3>1
    <3>3. i - N - 2 = j - N - 2
      BY <1>2, <1>12, <3>1, <3>2
    <3>. QED
      BY <1>6, <3>3
  <2>6. \A i, j \in 1..N : Path[i] = Path[j] => i = j
    BY <1>2, <1>7
  <2>. SUFFICES ASSUME NEW i \in 1..M, NEW j \in 1..M, i <= j, Path[i] = Path[j] PROVE i = j
    BY <1>9
  <2>7. CASE i \in 1..N
    BY <1>7, <1>9, <2>2, <2>6, <2>7
  <2>8. CASE i = N + 1
    BY <1>9, <1>6, <2>3, <2>8
  <2>9. CASE i = N + 2
    BY <1>9, <2>1, <2>4, <2>9 DEF Option
  <2>10. CASE i \in N + 3..M
    BY <1>9, <2>5, <2>10
  <2>. QED
    BY <1>9, <2>7, <2>8, <2>9, <2>10
<1>14. incoming.kind # "http" =>
         \A l \in {"recover", "sanitise", "requireHeader"} : \E i \in N + 3..M : Path[i] = l
  <2>. SUFFICES ASSUME incoming.kind # "http", NEW l \in {"recover", "sanitise", "requireHeader"}
                PROVE  \E i \in N + 3..M : Path[i] = l
    OBVIOUS
  <2>1. PICK j \in 1..Len(opts) : opts[j] = l
    BY <1>3
  <2>2. Path[N + 2 + j] = l /\ N + 2 + j \in N + 3..M
    BY <1>5, <1>6, <1>8, <2>1
  <2>. QED
    BY <2>2
<1>15. \A i, j \in 1..N : i < j =>
          /\ Path[i] \in ReadsRoute => Path[j] \notin HandsOnItsOwn
          /\ Path[i] = "recovery" => Path[j] # "logging"
  BY <1>3, <1>7
<1>16. /\ \A l : Lists(l) <=> \E i \in 1..N : Path[i] = l
       /\ \A l : Outermost(l) <=> N >= 1 /\ Path[1] = l
       /\ HasTrace <=> \E i \in 1..N : Path[i] = "trace"
  <2>1. DOMAIN wiring.mw = 1..N /\ (wiring.mw # <<>> <=> N >= 1) /\ (N >= 1 => Head(wiring.mw) = wiring.mw[1])
    BY <1>1 DEF N
  <2>2. \A i \in 1..N : Path[i] = wiring.mw[i]
    BY <1>6
  <2>3. \A l : Lists(l) <=> \E i \in 1..N : Path[i] = l
    BY <2>1, <2>2 DEF Lists
  <2>4. \A l : Outermost(l) <=> N >= 1 /\ Path[1] = l
    BY <1>9, <2>1, <2>2 DEF Outermost
  <2>5. HasTrace <=> \E i \in 1..N : Path[i] = "trace"
    BY <2>1, <2>2 DEF HasTrace
  <2>. QED
    BY <2>3, <2>4, <2>5
<1>17. /\ \A l : Here(l) <=> heading = "down" /\ place \in 1..M /\ Path[place] = l
       /\ \A l : Back(l) <=> OnTheWayUp /\ place \in 1..M /\ Path[place] = l
  BY <1>6 DEF Here, Back, OnTheWayUp
<1>. QED
  BY <1>6, <1>7, <1>9, <1>10, <1>11, <1>12, <1>13, <1>14, <1>15, <1>16, <1>17 DEF Shape

-----------------------------------------------------------------------------
(* How a request moves, whatever else a step does.                          *)

Same ==
    /\ wiring' = wiring /\ options' = options /\ incoming' = incoming
    /\ Path' = Path /\ N' = N /\ M' = M

Begins ==
    /\ heading = "wait" /\ place' = place /\ Depth' = Depth /\ Depth = 0
    /\ \/ heading' = "down" /\ tracer' \in {"new", "on"}
       \/ heading' = "done" /\ tracer' = "failed"
Descends ==
    /\ heading = "down" /\ heading' = heading /\ place' = place + 1 /\ place \in 1..M
    /\ Depth = place - 1 /\ Depth' = place /\ tracer' = tracer
    /\ place = N + 2 => incoming.kind # "post"
Turns ==
    /\ heading = "down" /\ heading' = "up" /\ place' = place /\ place \in 1..M
    /\ Depth = place - 1 /\ Depth' = place /\ tracer' = tracer
    /\ Path[place] \in {"authenticate", "mux", "connect"}
Bottoms ==
    /\ heading = "down" /\ heading' \in {"up", "panic", "abort"} /\ place = M + 1 /\ place' = M
    /\ Depth = M /\ Depth' = M /\ tracer' = tracer
Ascends ==
    /\ OnTheWayUp /\ place \in 1..M /\ place' = place - 1
    /\ Depth = place /\ Depth' = place - 1 /\ tracer' = tracer
    /\ heading' = IF heading = "panic" /\ Path[place] \in {"recovery", "recover"} THEN "up" ELSE heading
Ends ==
    /\ OnTheWayUp /\ heading' = "done" /\ place = 0 /\ place' = 0
    /\ Depth = 0 /\ Depth' = 0 /\ tracer' = tracer
Stays ==
    /\ heading' = heading /\ place' = place /\ Depth' = Depth
    /\ tracer' = tracer \/ (heading = "done" /\ tracer = "on" /\ tracer' \in {"flushed", "lost"})

Motion == Begins \/ Descends \/ Turns \/ Bottoms \/ Ascends \/ Ends \/ Stays

\* What Descends and Ascends have in common with a Pass and an Unwind.
LEMMA Passing ==
    ASSUME Shape, Where, heading = "down", place \in 1..M, Pass, tracer' = tracer,
           place = N + 2 => incoming.kind # "post"
    PROVE  Descends
  BY DEF Pass, Descends, Depth, Shape

\* A layer is left with what entered it, unless it catches the panic.
LEMMA Unwinding ==
    ASSUME Shape, Where, OnTheWayUp, place \in 1..M, tracer' = tracer,
           \/ Unwind /\ (heading = "panic" => Path[place] \notin {"recovery", "recover"})
           \/ Catch /\ heading = "panic" /\ Path[place] \in {"recovery", "recover"}
    PROVE  Ascends
  BY DEF Unwind, Catch, Ascends, Depth, Shape, OnTheWayUp

\* Every step moves the request in one of these ways, and changes no input.
LEMMA Moving ==
    ASSUME WiringsWellFormed, InOrder, TelemetryTypes, Where, Shape, TelemetryNext
    PROVE  Same /\ Motion
<1>1. inputVars' = inputVars
  BY DEF TelemetryNext, Enter, Leave, TracerStarts, NoTracer, TracerStops, DownTrace, DownLogging,
     DownRecovery, DownRouteName, DownMetrics, DownAuthenticate, DownMux, DownConnect,
     DownOption, Handles, HandlerReturns, HandlerPanics, UpRpcTrace, UpRpcMetrics, UpSanitise,
     UpRecover, UpRequireHeader, UpConnect, UpSilently, UpMetrics, UpRouteName,
     UpRecovery, UpLogging, UpTrace, Conclude, TelemetryOver, telemetryVars, inputVars
<1>2. Same
  <2>1. wiring' = wiring /\ options' = options /\ incoming' = incoming
    BY <1>1 DEF inputVars
  <2>2. Path' = Path
    BY <2>1 DEF Path
  <2>3. N' = N /\ M' = M
    BY <2>1, <2>2 DEF N, M
  <2>. QED
    BY <2>1, <2>2, <2>3 DEF Same
<1>3. CASE TracerStarts \/ NoTracer
  <2>1. /\ heading = "wait" /\ place' = place
        /\ \/ heading' = "down" /\ tracer' \in {"on", tracer}
           \/ heading' = "done" /\ tracer' = "failed"
    BY <1>3 DEF TracerStarts, NoTracer
  <2>2. Begins
    BY <2>1 DEF Where, Begins, Depth
  <2>. QED
    BY <1>2, <2>2 DEF Motion
<1>4. CASE TracerStops \/ Handles \/ TelemetryOver
  <2>1. /\ heading' = heading /\ place' = place
        /\ tracer' = tracer \/ (heading = "done" /\ tracer = "on" /\ tracer' \in {"flushed", "lost"})
    BY <1>4 DEF TracerStops, Handles, TelemetryOver, telemetryVars
  <2>2. Stays
    BY <2>1 DEF Stays, Depth
  <2>. QED
    BY <1>2, <2>2 DEF Motion
<1>5. CASE DownTrace \/ DownLogging \/ DownRecovery \/ DownRouteName \/ DownMetrics
  <2>1. /\ \E l \in Layer : Here(l)
        /\ Pass /\ tracer' = tracer
    BY <1>5 DEF DownTrace, DownLogging, DownRecovery, DownRouteName, DownMetrics, Layer
  <2>2. heading = "down" /\ place \in 1..M /\ Path[place] \in Layer
    BY <2>1 DEF Shape
  <2>3. place # N + 2
    BY <2>2 DEF Shape, Layer
  <2>. QED
    BY <1>2, <2>1, <2>2, <2>3, Passing DEF Motion
<1>6. CASE DownAuthenticate \/ DownMux
  <2>1. /\ Here("authenticate") \/ Here("mux")
        /\ Pass \/ Answer
        /\ tracer' = tracer
    <3>1. incoming.token \in {"none", "bad", "good"}
      BY DEF WiringsWellFormed, TelemetryTypes, IncomingType
    <3>. QED
      BY <1>6, <3>1 DEF DownAuthenticate, DownMux
  <2>2. heading = "down" /\ place \in 1..M /\ Path[place] \in {"authenticate", "mux"}
    BY <2>1 DEF Shape
  <2>3. place # N + 2
    BY <2>2 DEF Shape
  <2>4. CASE Pass
    BY <1>2, <2>1, <2>2, <2>3, <2>4, Passing DEF Motion
  <2>5. CASE Answer
    <3>1. Turns
      BY <2>1, <2>2, <2>5 DEF Answer, Turns, Depth, Where
    <3>. QED
      BY <1>2, <3>1 DEF Motion
  <2>. QED
    BY <2>1, <2>4, <2>5
<1>7. CASE DownConnect
  <2>1. heading = "down" /\ place \in 1..M /\ Path[place] = "connect" /\ tracer' = tracer
    BY <1>7 DEF DownConnect, Shape
  <2>2. \E i \in DOMAIN options : options[i] = "requireHeader"
    BY DEF InOrder, DefaultOptions, TelemetryTypes
  <2>3. \/ incoming.kind = "post" /\ Answer
        \/ incoming.kind # "post" /\ Pass
    BY <1>7, <2>2 DEF DownConnect
  <2>4. CASE Pass /\ incoming.kind # "post"
    BY <1>2, <2>1, <2>4, Passing DEF Motion
  <2>5. CASE Answer
    <3>1. Turns
      BY <2>1, <2>5 DEF Answer, Turns, Depth, Where
    <3>. QED
      BY <1>2, <3>1 DEF Motion
  <2>. QED
    BY <2>3, <2>4, <2>5
<1>8. CASE DownOption
  <2>1. (\E l \in Option : Here(l)) /\ Pass /\ tracer' = tracer
    BY <1>8 DEF DownOption
  <2>2. heading = "down" /\ place \in 1..M /\ Path[place] \in Option
    BY <2>1 DEF Shape
  <2>3. place # N + 2
    BY <2>2 DEF Shape, Option
  <2>. QED
    BY <1>2, <2>1, <2>2, <2>3, Passing DEF Motion
<1>9. CASE HandlerReturns \/ HandlerPanics
  <2>1. /\ heading = "down" /\ place = M + 1 /\ place' = place - 1 /\ tracer' = tracer
        /\ heading' \in {"up", "panic", "abort"}
    BY <1>9 DEF HandlerReturns, HandlerPanics, AtHandler, Leaves, M
  <2>2. Bottoms
    BY <2>1 DEF Bottoms, Depth, Shape
  <2>. QED
    BY <1>2, <2>2 DEF Motion
<1>10. CASE UpRpcTrace \/ UpRpcMetrics \/ UpSanitise \/ UpRequireHeader \/ UpConnect
            \/ UpSilently \/ UpMetrics \/ UpRouteName \/ UpLogging \/ UpTrace
  <2>1. /\ \E l : Back(l) /\ l \notin {"recovery", "recover"}
        /\ Unwind /\ tracer' = tracer
    BY <1>10 DEF UpRpcTrace, UpRpcMetrics, UpSanitise, UpRequireHeader, UpConnect,
       UpSilently, UpMetrics, UpRouteName, UpLogging, UpTrace
  <2>2. OnTheWayUp /\ place \in 1..M /\ Path[place] \notin {"recovery", "recover"}
    BY <2>1 DEF Shape
  <2>. QED
    BY <1>2, <2>1, <2>2, Unwinding DEF Motion
<1>11. CASE UpRecover \/ UpRecovery
  <2>1. /\ \E l \in {"recovery", "recover"} : Back(l)
        /\ \/ Unwind /\ heading # "panic"
           \/ Catch /\ heading = "panic"
        /\ tracer' = tracer
    BY <1>11 DEF UpRecover, UpRecovery
  <2>2. OnTheWayUp /\ place \in 1..M /\ Path[place] \in {"recovery", "recover"}
    BY <2>1 DEF Shape
  <2>. QED
    BY <1>2, <2>1, <2>2, Unwinding DEF Motion
<1>12. CASE Conclude
  <2>1. OnTheWayUp /\ place = 0 /\ place' = place /\ heading' = "done" /\ tracer' = tracer
    BY <1>12 DEF Conclude, OnTheWayUp
  <2>2. Ends
    BY <2>1 DEF Ends, Depth, OnTheWayUp
  <2>. QED
    BY <1>2, <2>2 DEF Motion
<1>. QED
  BY <1>3, <1>4, <1>5, <1>6, <1>7, <1>8, <1>9, <1>10, <1>11, <1>12 DEF TelemetryNext, Enter, Leave

\* Where is kept by each of them.
LEMMA WhereKept ==
    ASSUME TelemetryTypes, Where, Shape, Same, Motion
    PROVE  Where'
<1>. USE DEF Shape, Same
<1>1. CASE Begins
  BY <1>1 DEF Begins, Where, OnTheWayUp
<1>2. CASE Descends
  BY <1>2 DEF Descends, Where, OnTheWayUp
<1>3. CASE Turns
  BY <1>3 DEF Turns, Where, OnTheWayUp
<1>4. CASE Bottoms
  BY <1>4 DEF Bottoms, Where, OnTheWayUp
<1>5. CASE Ascends
  BY <1>5 DEF Ascends, Where, OnTheWayUp
<1>6. CASE Ends
  BY <1>6 DEF Ends, Where, OnTheWayUp
<1>7. CASE Stays
  BY <1>7 DEF Stays, Where, OnTheWayUp
<1>. QED
  BY <1>1, <1>2, <1>3, <1>4, <1>5, <1>6, <1>7 DEF Motion

-----------------------------------------------------------------------------
(* What is written: the recorders and net/http.                             *)

Recording == [Recorders -> [on : BOOLEAN, wrote : BOOLEAN, status : StatusCode]]

\* The recorders outside k, when they agree with net/http.
AllAgreed(k) == \A r \in Recorders : rec[r].on /\ (\E i \in 1..M : Path[i] = r /\ i < k) =>
    /\ rec[r].wrote <=> wire # 0
    /\ rec[r].status = IF wire = 0 THEN 200 ELSE wire

Wrote(k) ==
    /\ rec' \in Recording /\ wire' \in StatusCode \ {0}
    /\ \A r \in Recorders : rec'[r].on = rec[r].on
    /\ \A r \in Recorders : rec[r].on /\ (\E i \in 1..M : Path[i] = r /\ i < k) =>
          rec'[r].wrote /\ rec'[r].status = wire'
    /\ wire # 0 => wire' = wire

\* The recorders a write at k goes through are those on above it.
LEMMA OutsideIs ==
    ASSUME TelemetryTypes, Shape, Seen, NEW k
    PROVE  \A r \in Recorders : r \in Outside(k) <=> rec[r].on /\ \E i \in 1..M : Path[i] = r /\ i < k
<1>. SUFFICES ASSUME NEW r \in Recorders
              PROVE  r \in Outside(k) <=> rec[r].on /\ \E i \in 1..M : Path[i] = r /\ i < k
  OBVIOUS
<1>1. \A i \in 1..M : Path[i] = r => PlaceOf(r) = i
  BY DEF PlaceOf, Shape
<1>2. r \in Outside(k) <=> rec[r].on /\ PlaceOf(r) < k
  BY DEF Outside, Wraps, TelemetryTypes
<1>3. rec[r].on => \E i \in 1..M : Path[i] = r
  BY DEF Seen, Shape
<1>. QED
  BY <1>1, <1>2, <1>3

\* A header written through recorders that agree leaves them agreeing,
LEMMA HeaderWrites ==
    ASSUME TelemetryTypes, Shape, Seen, NEW k, AllAgreed(k), NEW s \in StatusCode \ {0}, RecordHeader(s, k)
    PROVE  Wrote(k) /\ wire' = IF wire = 0 THEN s ELSE wire
<1>1. rec \in Recording /\ wire \in StatusCode /\ DOMAIN rec = Recorders
  BY DEF TelemetryTypes, Recording
<1>2. \A r \in Recorders : r \in Outside(k) <=> rec[r].on /\ \E i \in 1..M : Path[i] = r /\ i < k
  BY OutsideIs
<1>3. \A r \in Recorders : r \in Outside(k) =>
        (rec[r].wrote <=> wire # 0) /\ rec[r].status = IF wire = 0 THEN 200 ELSE wire
  BY <1>2 DEF AllAgreed
<1>4. \A r \in Outside(k) : r \in Recorders
  BY <1>1 DEF Outside
<1>5. wire' = IF wire = 0 THEN s ELSE wire
  BY <1>3, <1>4 DEF RecordHeader
<1>6. CASE wire = 0
  <2>1. rec' = [l \in DOMAIN rec |-> IF l \in Outside(k)
                  THEN [rec[l] EXCEPT !.wrote = TRUE, !.status = s] ELSE rec[l]]
    BY <1>3, <1>4, <1>6 DEF RecordHeader
  <2>2. rec' \in Recording /\ wire' \in StatusCode \ {0}
    BY <1>1, <1>5, <1>6, <2>1 DEF Recording
  <2>3. \A r \in Recorders : /\ rec'[r].on = rec[r].on
                             /\ r \in Outside(k) => rec'[r].wrote /\ rec'[r].status = wire'
    BY <1>1, <1>5, <1>6, <2>1 DEF Recording
  <2>. QED
    BY <1>2, <1>5, <1>6, <2>2, <2>3 DEF Wrote
<1>7. CASE wire # 0
  <2>1. \A l \in Outside(k) : PlaceOf(l) \in Nat
    <3>1. \A l \in Outside(k) : \E i \in 1..M : Path[i] = l
      BY <1>2, <1>4
    <3>. QED
      BY <3>1 DEF PlaceOf, Shape
  <2>2. \A l \in Outside(k) : ~(\A m \in Outside(k) : PlaceOf(m) >= PlaceOf(l) => ~rec[m].wrote)
    BY <1>3, <1>4, <1>7, <2>1
  <2>3. \A l \in Recorders : rec'[l] = rec[l]
    BY <1>1, <2>2 DEF RecordHeader
  <2>4. rec' \in Recording
    BY <1>1, <2>2 DEF RecordHeader, Recording
  <2>. QED
    BY <1>1, <1>2, <1>3, <1>5, <1>7, <2>3, <2>4 DEF Wrote
<1>. QED
  BY <1>5, <1>6, <1>7

\* and so does a body.
LEMMA BodyWrites ==
    ASSUME TelemetryTypes, Shape, Seen, NEW k, AllAgreed(k), WriteBody(k)
    PROVE  Wrote(k)
<1>1. rec \in Recording /\ wire \in StatusCode /\ DOMAIN rec = Recorders
  BY DEF TelemetryTypes, Recording
<1>2. \A r \in Recorders : r \in Outside(k) <=> rec[r].on /\ \E i \in 1..M : Path[i] = r /\ i < k
  BY OutsideIs
<1>3. \A r \in Recorders : r \in Outside(k) =>
        (rec[r].wrote <=> wire # 0) /\ rec[r].status = IF wire = 0 THEN 200 ELSE wire
  BY <1>2 DEF AllAgreed
<1>4. /\ rec' = [l \in DOMAIN rec |->
                  IF l \in Outside(k) THEN [rec[l] EXCEPT !.wrote = TRUE] ELSE rec[l]]
      /\ wire' = IF wire = 0 THEN 200 ELSE wire
  BY DEF WriteBody
<1>5. rec' \in Recording
  BY <1>1, <1>4 DEF Recording
<1>6. wire' \in StatusCode \ {0} /\ (wire # 0 => wire' = wire)
  BY <1>1, <1>4 DEF StatusCode
<1>7. \A r \in Recorders : /\ rec'[r].on = rec[r].on
                           /\ r \in Outside(k) => rec'[r].wrote /\ rec'[r].status = rec[r].status
  BY <1>1, <1>4 DEF Recording
<1>8. \A r \in Recorders : r \in Outside(k) => rec'[r].status = wire'
  BY <1>3, <1>4, <1>7
<1>. QED
  BY <1>2, <1>5, <1>7, <1>8, <1>6 DEF Wrote

\* What a step does to them.
Silent == rec' = rec /\ wire' = wire /\ (Descends \/ Turns => Path[place] \notin Recorders)
Switches ==
    /\ Descends /\ wire' = wire /\ rec' \in Recording
    /\ \E l \in Recorders :
          /\ Path[place] = l
          /\ rec'[l].wrote = rec[l].wrote /\ rec'[l].status = rec[l].status
          /\ \A r \in Recorders : r # l => rec'[r] = rec[r]
          /\ l = "logging" => rec'[l].on = ~incoming.probe
          /\ l = "metrics" => rec'[l].on
          /\ l = "recovery" /\ ~rec'[l].on =>
                rec["logging"].on /\ \E j \in 1..place - 1 : Path[j] = "logging"
Answers ==
    \E k \in Nat : /\ Wrote(k)
                   /\ \/ Turns /\ k = place /\ Path[place] \notin Recorders
                      \/ Stays /\ heading = "down" /\ place = M + 1 /\ k = place
                      \/ Ascends /\ k = place /\ Path[place] = "connect"
                      \/ /\ Ascends /\ k = place + 1 /\ Path[place] = "recovery" /\ heading = "panic"
                         /\ wire = 0 /\ wire' = 500
Sends == Ends /\ rec' = rec /\ wire' = IF heading = "up" /\ wire = 0 THEN 200 ELSE wire

\* The stack is within the path.
LEMMA DepthIs ==
    ASSUME TelemetryTypes, Where, Shape
    PROVE  Depth \in 0..M /\ place \in 0..M + 1
  BY DEF TelemetryTypes, Where, Shape, Depth, OnTheWayUp

\* Seen, for the recorders above any layer of the stack.
LEMMA AgreedUpTo ==
    ASSUME TelemetryTypes, Where, Shape, Seen, NEW k \in Nat, k <= Depth + 1
    PROVE  AllAgreed(k)
<1>1. \A i \in 1..M : i < k => i <= Depth
  BY DepthIs DEF Shape
<1>. QED
  BY <1>1 DEF AllAgreed, Seen, Deeper

\* Recovery knows whether an answer has begun, whichever recorder it looks at.
LEMMA BegunIs ==
    ASSUME TelemetryTypes, Where, Shape, Seen, place \in 1..M, Depth = place, Path[place] = "recovery"
    PROVE  HasWritten <=> wire # 0
<1>1. CASE rec["recovery"].on
  BY <1>1 DEF HasWritten, Seen, Deeper, Recorders
<1>2. CASE ~rec["recovery"].on
  <2>1. rec["logging"].on /\ \E j \in 1..place - 1 : Path[j] = "logging"
    BY <1>2 DEF Seen
  <2>2. Deeper("logging")
    BY <2>1, DepthIs DEF Deeper, Shape
  <2>. QED
    BY <1>2, <2>1, <2>2 DEF HasWritten, Seen, Recorders
<1>. QED
  BY <1>1, <1>2

\* Every step writes in one of these ways.
LEMMA Writing ==
    ASSUME WiringsWellFormed, InOrder, TelemetryTypes, Where, Shape, Seen, TelemetryNext
    PROVE  Silent \/ Switches \/ Answers \/ Sends
<1>. DEFINE Effect == Silent \/ Switches \/ Answers \/ Sends
<1>0. Same /\ Motion
  BY Moving
<1>1. rec \in Recording /\ wire \in StatusCode /\ Depth \in 0..M /\ place \in 0..M + 1 /\ N \in Nat /\ M \in Nat
  BY DepthIs DEF TelemetryTypes, Recording, Shape
<1>2. CASE sentVars' = sentVars /\ ~(\E l \in Recorders : Here(l))
  <2>1. rec' = rec /\ wire' = wire
    BY <1>2 DEF sentVars
  <2>2. Descends \/ Turns => Path[place] \notin Recorders
    BY <1>2 DEF Descends, Turns, Shape
  <2>. QED
    BY <2>1, <2>2 DEF Silent
<1>3. CASE DownLogging
  <2>1. /\ Here("logging") /\ place' = place + 1 /\ heading' = heading /\ wire' = wire
        /\ rec' = [rec EXCEPT !["logging"].on = ~incoming.probe]
    BY <1>3 DEF DownLogging, Pass
  <2>2. Descends /\ Path[place] = "logging"
    BY <2>1, <1>0, <1>1 DEF Shape, Motion, Begins, Descends, Turns, Bottoms, Ascends, Ends, Stays
  <2>3. incoming.probe \in BOOLEAN
    BY DEF WiringsWellFormed, TelemetryTypes, IncomingType
  <2>4. rec' \in Recording /\ "logging" \in Recorders
    BY <2>1, <2>3, <1>1 DEF Recording, Recorders
  <2>5. /\ rec'["logging"].wrote = rec["logging"].wrote /\ rec'["logging"].status = rec["logging"].status
        /\ rec'["logging"].on = ~incoming.probe
        /\ \A r \in Recorders : r # "logging" => rec'[r] = rec[r]
    BY <2>1, <2>4, <1>1 DEF Recording
  <2>. QED
    BY <2>1, <2>2, <2>4, <2>5 DEF Switches
<1>4. CASE DownRecovery
  <2>1. /\ Here("recovery") /\ place' = place + 1 /\ heading' = heading /\ wire' = wire
        /\ rec' = [rec EXCEPT !["recovery"].on = ~Handed]
    BY <1>4 DEF DownRecovery, Pass
  <2>2. Descends /\ Path[place] = "recovery"
    BY <2>1, <1>0, <1>1 DEF Shape, Motion, Begins, Descends, Turns, Bottoms, Ascends, Ends, Stays
  <2>3. Handed => rec["logging"].on /\ \E j \in 1..place - 1 : Path[j] = "logging"
    BY DEF Handed
  <2>4. rec' \in Recording /\ "recovery" \in Recorders
    <3>. DEFINE b == ~Handed
    <3>1. b \in BOOLEAN
      OBVIOUS
    <3>. HIDE DEF b
    <3>2. rec' = [rec EXCEPT !["recovery"].on = b]
      BY <2>1 DEF b
    <3>. QED
      BY <3>1, <3>2, <1>1 DEF Recording, Recorders
  <2>5. /\ rec'["recovery"].wrote = rec["recovery"].wrote /\ rec'["recovery"].status = rec["recovery"].status
        /\ rec'["recovery"].on = ~Handed
        /\ \A r \in Recorders : r # "recovery" => rec'[r] = rec[r]
    BY <2>1, <2>4, <1>1 DEF Recording
  <2>. QED
    BY <2>1, <2>2, <2>3, <2>4, <2>5 DEF Switches
<1>5. CASE DownMetrics
  <2>1. /\ Here("metrics") /\ place' = place + 1 /\ heading' = heading /\ wire' = wire
        /\ rec' = [rec EXCEPT !["metrics"].on = TRUE]
    BY <1>5 DEF DownMetrics, Pass
  <2>2. Descends /\ Path[place] = "metrics"
    BY <2>1, <1>0, <1>1 DEF Shape, Motion, Begins, Descends, Turns, Bottoms, Ascends, Ends, Stays
  <2>4. rec' \in Recording /\ "metrics" \in Recorders
    BY <2>1, <1>1 DEF Recording, Recorders
  <2>5. /\ rec'["metrics"].wrote = rec["metrics"].wrote /\ rec'["metrics"].status = rec["metrics"].status
        /\ rec'["metrics"].on
        /\ \A r \in Recorders : r # "metrics" => rec'[r] = rec[r]
    BY <2>1, <2>4, <1>1 DEF Recording
  <2>. QED
    BY <2>1, <2>2, <2>4, <2>5 DEF Switches
<1>6. CASE DownAuthenticate \/ DownMux
  <2>0. incoming.token \in {"none", "bad", "good"}
    BY DEF WiringsWellFormed, TelemetryTypes, IncomingType
  <2>1. Here("authenticate") \/ Here("mux")
    BY <1>6 DEF DownAuthenticate, DownMux
  <2>2. heading = "down" /\ place \in 1..M /\ Path[place] \in {"authenticate", "mux"} /\ Path[place] \notin Recorders
    BY <2>1 DEF Shape, Recorders
  <2>3. \/ rec' = rec /\ wire' = wire
        \/ Answer /\ \E s \in {401, 404} : RecordHeader(s, place)
    <3>1. CASE DownAuthenticate
      BY <2>0, <3>1 DEF DownAuthenticate, sentVars
    <3>2. CASE DownMux
      BY <3>2 DEF DownMux, sentVars
    <3>. QED
      BY <1>6, <3>1, <3>2
  <2>4. CASE rec' = rec /\ wire' = wire
    BY <2>2, <2>4 DEF Silent
  <2>5. CASE Answer /\ \E s \in {401, 404} : RecordHeader(s, place)
    <3>1. Turns
      BY <2>2, <2>5, <1>0, <1>1 DEF Answer, Motion, Begins, Descends, Turns, Bottoms, Ascends, Ends, Stays
    <3>2. AllAgreed(place)
      BY <1>1, <3>1, AgreedUpTo DEF Turns
    <3>3. Wrote(place)
      BY <2>5, <3>2, HeaderWrites DEF StatusCode
    <3>. QED
      BY <2>2, <3>1, <3>3, <1>1 DEF Answers
  <2>. QED
    BY <2>3, <2>4, <2>5
<1>7. CASE Handles
  <2>1. heading = "down" /\ place = M + 1 /\ heading' = heading /\ place' = place
    BY <1>7 DEF Handles, AtHandler, M
  <2>2. Stays /\ Depth = place - 1
    BY <2>1, <1>0, <1>1 DEF Motion, Begins, Descends, Turns, Bottoms, Ascends, Ends, Stays, Depth
  <2>3. AllAgreed(place)
    BY <1>1, <2>1, <2>2, AgreedUpTo
  <2>4. (\E s \in {200, 500} : RecordHeader(s, place)) \/ WriteBody(place)
    BY <1>7 DEF Handles
  <2>5. Wrote(place)
    BY <2>3, <2>4, HeaderWrites, BodyWrites DEF StatusCode
  <2>. QED
    BY <2>1, <2>2, <2>5, <1>1 DEF Answers
<1>8. CASE UpConnect
  <2>1. OnTheWayUp /\ place \in 1..M /\ Path[place] = "connect" /\ place' = place - 1
    BY <1>8 DEF UpConnect, Shape, Unwind
  <2>2. Ascends /\ Path[place] \notin Recorders
    BY <2>1, <1>0, <1>1 DEF Motion, Begins, Descends, Turns, Bottoms, Ascends, Ends, Stays, OnTheWayUp, Recorders
  <2>3. \/ rec' = rec /\ wire' = wire
        \/ \E s \in StatusCode \ {0} : RecordHeader(s, place)
    <3>1. StatusOf(err.code) \in StatusCode \ {0}
      BY DEF StatusOf, StatusCode
    <3>. QED
      BY <1>8, <3>1 DEF UpConnect, sentVars
  <2>4. AllAgreed(place)
    BY <1>1, <2>1, <2>2, AgreedUpTo DEF Ascends
  <2>5. CASE \E s \in StatusCode \ {0} : RecordHeader(s, place)
    <3>1. Wrote(place)
      BY <2>4, <2>5, HeaderWrites
    <3>. QED
      BY <2>1, <2>2, <3>1 DEF Answers
  <2>. QED
    BY <2>1, <2>2, <2>3, <2>5 DEF Silent
<1>9. CASE UpRecovery
  <2>1. OnTheWayUp /\ place \in 1..M /\ Path[place] = "recovery" /\ place' = place - 1
    BY <1>9 DEF UpRecovery, Shape, Unwind, Catch
  <2>2. Ascends
    BY <2>1, <1>0, <1>1 DEF Motion, Begins, Descends, Turns, Bottoms, Ascends, Ends, Stays, OnTheWayUp
  <2>3. HasWritten <=> wire # 0
    BY <2>1, <2>2, BegunIs DEF Ascends
  <2>4. CASE rec' = rec /\ wire' = wire
    BY <2>2, <2>1, <2>4 DEF Silent, Ascends, Descends, Turns, OnTheWayUp
  <2>5. CASE ~(rec' = rec /\ wire' = wire)
    <3>1. heading = "panic" /\ wire = 0 /\ RecordHeader(500, place + 1)
      BY <1>9, <2>3, <2>5 DEF UpRecovery, sentVars
    <3>2. AllAgreed(place + 1)
      BY <1>1, <2>1, <2>2, AgreedUpTo DEF Ascends
    <3>3. Wrote(place + 1) /\ wire' = 500
      BY <3>1, <3>2, HeaderWrites DEF StatusCode
    <3>. QED
      BY <2>1, <2>2, <3>1, <3>3, <1>1 DEF Answers
  <2>. QED
    BY <2>4, <2>5
<1>10. CASE Conclude
  <2>1. OnTheWayUp /\ place = 0 /\ heading' = "done" /\ rec' = rec
        /\ wire' = IF heading = "up" /\ wire = 0 THEN 200 ELSE wire
    BY <1>10 DEF Conclude, OnTheWayUp
  <2>2. Ends
    BY <2>1, <1>0, <1>1 DEF Motion, Begins, Descends, Turns, Bottoms, Ascends, Ends, Stays, OnTheWayUp
  <2>. QED
    BY <2>1, <2>2 DEF Sends
<1>11. CASE \/ TracerStarts \/ NoTracer \/ TracerStops \/ HandlerReturns \/ HandlerPanics \/ TelemetryOver
            \/ DownTrace \/ DownRouteName \/ DownConnect \/ DownOption
            \/ UpRpcTrace \/ UpRpcMetrics \/ UpSanitise \/ UpRecover \/ UpRequireHeader
            \/ UpSilently \/ UpMetrics \/ UpRouteName \/ UpLogging \/ UpTrace
  <2>1. sentVars' = sentVars
    BY <1>11 DEF TracerStarts, NoTracer, TracerStops, HandlerReturns, HandlerPanics, TelemetryOver, telemetryVars, sentVars,
       DownTrace, DownRouteName, DownConnect, DownOption, UpRpcTrace, UpRpcMetrics,
       UpSanitise, UpRecover, UpRequireHeader, UpSilently, UpMetrics,
       UpRouteName, UpLogging, UpTrace
  <2>2. \/ \E l \in {"trace", "routeName", "connect"} \cup Option : Here(l)
        \/ heading # "down"
        \/ place = M + 1
    BY <1>11 DEF TracerStarts, NoTracer, TracerStops, HandlerReturns, HandlerPanics, TelemetryOver, AtHandler, Back, M,
       DownTrace, DownRouteName, DownConnect, DownOption, UpRpcTrace, UpRpcMetrics,
       UpSanitise, UpRecover, UpRequireHeader, UpSilently, UpMetrics,
       UpRouteName, UpLogging, UpTrace
  <2>3. ~(\E l \in Recorders : Here(l))
    BY <1>1, <2>2 DEF Shape, Recorders, Option
  <2>. QED
    BY <1>2, <2>1, <2>3
<1>. QED
  BY <1>3, <1>4, <1>5, <1>6, <1>7, <1>8, <1>9, <1>10, <1>11 DEF TelemetryNext, Enter, Leave

\* What is on the stack after a step was on it before, or is the layer entered.
LEMMA StackGrows ==
    ASSUME TelemetryTypes, Where, Shape, Same, Motion
    PROVE  /\ Depth' \in 0..M /\ Depth \in 0..M
           /\ \A i \in 1..M : i <= Depth' => i <= Depth \/ (i = place /\ (Descends \/ Turns))
           /\ Descends \/ Turns => heading = "down" /\ place \in 1..M /\ Depth = place - 1 /\ Depth' = place
           /\ Descends \/ Begins \/ Stays => Depth <= Depth'
<1>1. Depth \in 0..M /\ place \in 0..M + 1 /\ M \in Nat
  BY DepthIs DEF Shape
<1>. QED
  BY <1>1 DEF Motion, Begins, Descends, Turns, Bottoms, Ascends, Ends, Stays

\* Seen is kept by each of them.
LEMMA SeenKept ==
    ASSUME TelemetryTypes, Where, Shape, Seen, Same, Motion, Silent \/ Switches \/ Answers \/ Sends
    PROVE  Seen'
<1>. DEFINE On(r) == rec[r].on
            New(i) == i = place /\ (Descends \/ Turns)
<1>0. /\ rec \in Recording /\ wire \in StatusCode
      /\ N \in Nat /\ M \in Nat /\ place \in 0..M + 1
      /\ Path' = Path /\ N' = N /\ M' = M /\ incoming' = incoming
  BY DepthIs DEF TelemetryTypes, Recording, Shape, Same
<1>1. /\ Depth' \in 0..M /\ Depth \in 0..M
      /\ \A i \in 1..M : i <= Depth' => i <= Depth \/ New(i)
      /\ Descends \/ Turns => heading = "down" /\ place \in 1..M /\ Depth = place - 1 /\ Depth' = place
      /\ Descends \/ Begins \/ Stays => Depth <= Depth'
  BY StackGrows
<1>2. OnTheWayDown' => OnTheWayDown /\ (Begins \/ Descends \/ Stays) /\ (place' <= M => place <= M)
  BY <1>0 DEF OnTheWayDown, Motion, Begins, Descends, Turns, Bottoms, Ascends, Ends, Stays, OnTheWayUp
\* A recorder that is on is not the layer that is being entered.
<1>3. \A i \in 1..M : New(i) => ~rec[Path[i]].on \/ Path[i] \notin Recorders
  <2>. SUFFICES ASSUME New(place), place \in 1..M, Path[place] \in Recorders, rec[Path[place]].on PROVE FALSE
    OBVIOUS
  <2>1. heading = "down" /\ Depth = place - 1
    BY <1>1
  <2>2. Deeper(Path[place])
    BY <2>1 DEF Seen, OnTheWayDown
  <2>. QED
    BY <2>1, <2>2, <1>0 DEF Deeper, Shape
<1>4. \A r \in Recorders : rec[r].on /\ (\E i \in 1..M : Path[i] = r /\ i <= Depth') => Deeper(r)
  BY <1>1, <1>3 DEF Deeper
<1>5. CASE Silent \/ Sends
  <2>1. rec' = rec /\ ((Descends \/ Turns) => Path[place] \notin Recorders)
    BY <1>5 DEF Silent, Sends, Ends, Descends, Turns, OnTheWayUp
  <2>2. ~Ends => wire' = wire
    BY <1>5 DEF Silent, Sends
  <2>3. (OnTheWayDown /\ place <= M => wire = 0 /\ \A r \in Recorders : ~rec[r].wrote /\ rec[r].status = 200)'
    <3>1. OnTheWayDown' => ~Ends
      BY DEF OnTheWayDown, Ends
    <3>. QED
      BY <1>0, <1>2, <2>1, <2>2, <3>1 DEF Seen
  <2>4. (\A r \in Recorders : rec[r].on /\ OnTheWayDown => Deeper(r))'
    BY <1>0, <1>1, <1>2, <2>1 DEF Seen, Deeper
  <2>5. (\A r \in Recorders : rec[r].on /\ Deeper(r) =>
            /\ rec[r].wrote <=> wire # 0
            /\ rec[r].status = IF wire = 0 THEN 200 ELSE wire)'
    <3>1. CASE Ends
      BY <3>1, <1>0 DEF Ends, Deeper
    <3>2. CASE ~Ends
      BY <3>2, <1>0, <1>4, <2>1, <2>2 DEF Seen, Deeper
    <3>. QED
      BY <3>1, <3>2
  <2>6. (Deeper("logging") => rec["logging"].on = ~incoming.probe)'
    BY <1>0, <1>1, <2>1 DEF Seen, Deeper, Recorders
  <2>7. (Deeper("metrics") => rec["metrics"].on)'
    BY <1>0, <1>1, <2>1 DEF Seen, Deeper, Recorders
  <2>8. (\A i \in 1..M : Path[i] = "recovery" /\ i <= Depth /\ ~rec["recovery"].on =>
            rec["logging"].on /\ \E j \in 1..i-1 : Path[j] = "logging")'
    BY <1>0, <1>1, <2>1 DEF Seen, Recorders
  <2>9. (\A r \in Recorders : rec[r].on => \E i \in 1..N : Path[i] = r)'
    BY <1>0, <2>1 DEF Seen
  <2>. QED
    BY <2>3, <2>4, <2>5, <2>6, <2>7, <2>8, <2>9 DEF Seen
<1>6. CASE Switches
  <2>1. PICK l \in Recorders :
          /\ Path[place] = l
          /\ rec'[l].wrote = rec[l].wrote /\ rec'[l].status = rec[l].status
          /\ \A r \in Recorders : r # l => rec'[r] = rec[r]
          /\ l = "logging" => rec'[l].on = ~incoming.probe
          /\ l = "metrics" => rec'[l].on
          /\ l = "recovery" /\ ~rec'[l].on =>
                rec["logging"].on /\ \E j \in 1..place - 1 : Path[j] = "logging"
    BY <1>6 DEF Switches
  <2>2. /\ Descends /\ heading = "down" /\ heading' = "down" /\ place \in 1..M /\ Depth = place - 1 /\ Depth' = place
        /\ wire' = wire /\ wire = 0 /\ place' = place + 1
        /\ \A r \in Recorders : ~rec[r].wrote /\ rec[r].status = 200
    BY <1>6, <1>0 DEF Switches, Descends, Seen, OnTheWayDown
  <2>3. \A i \in 1..M : Path[i] = l => i = place
    BY <2>1, <2>2 DEF Shape
  <2>4. place \in 1..N
    <3>1. l \notin {"mux", "connect"} \cup Option
      BY DEF Recorders, Option
    <3>. QED
      BY <1>0, <2>1, <2>2, <3>1 DEF Shape
  <2>5. \A r \in Recorders : ~rec'[r].wrote /\ rec'[r].status = 200
    BY <2>1, <2>2
  <2>6. (OnTheWayDown /\ place <= M => wire = 0 /\ \A r \in Recorders : ~rec[r].wrote /\ rec[r].status = 200)'
    BY <2>2, <2>5
  <2>7. (\A r \in Recorders : rec[r].on /\ OnTheWayDown => Deeper(r))'
    <3>. SUFFICES ASSUME NEW r \in Recorders, rec'[r].on PROVE Deeper(r)'
      OBVIOUS
    <3>1. CASE r = l
      BY <1>0, <2>1, <2>2, <3>1 DEF Deeper
    <3>2. CASE r # l
      <4>1. Deeper(r)
        BY <2>1, <2>2, <3>2 DEF Seen, OnTheWayDown
      <4>. QED
        BY <1>0, <2>2, <4>1 DEF Deeper
    <3>. QED
      BY <3>1, <3>2
  <2>8. (\A r \in Recorders : rec[r].on /\ Deeper(r) =>
            /\ rec[r].wrote <=> wire # 0
            /\ rec[r].status = IF wire = 0 THEN 200 ELSE wire)'
    BY <2>2, <2>5
  <2>9. (Deeper("logging") => rec["logging"].on = ~incoming.probe)'
    BY <1>0, <1>1, <2>1, <2>2 DEF Seen, Deeper, Recorders
  <2>10. (Deeper("metrics") => rec["metrics"].on)'
    BY <1>0, <1>1, <2>1, <2>2 DEF Seen, Deeper, Recorders
  <2>11. (\A i \in 1..M : Path[i] = "recovery" /\ i <= Depth /\ ~rec["recovery"].on =>
            rec["logging"].on /\ \E j \in 1..i-1 : Path[j] = "logging")'
    <3>. SUFFICES ASSUME NEW i \in 1..M, Path[i] = "recovery", i <= Depth', ~rec'["recovery"].on
                  PROVE  rec'["logging"].on /\ \E j \in 1..i-1 : Path[j] = "logging"
      BY <1>0
    <3>1. CASE i = place
      BY <2>1, <3>1 DEF Recorders
    <3>2. CASE i # place
      <4>1. l # "recovery"
        BY <2>3, <3>2
      <4>2. i <= Depth /\ ~rec["recovery"].on
        BY <1>1, <2>1, <3>2, <4>1 DEF Recorders
      <4>3. rec["logging"].on /\ \E j \in 1..i-1 : Path[j] = "logging"
        BY <4>2 DEF Seen
      <4>4. l # "logging"
        BY <1>1, <2>2, <2>3, <4>2, <4>3, <1>0
      <4>. QED
        BY <2>1, <4>3, <4>4 DEF Recorders
    <3>. QED
      BY <3>1, <3>2
  <2>12. (\A r \in Recorders : rec[r].on => \E i \in 1..N : Path[i] = r)'
    BY <1>0, <2>1, <2>4 DEF Seen
  <2>. QED
    BY <2>6, <2>7, <2>8, <2>9, <2>10, <2>11, <2>12 DEF Seen
<1>7. CASE Answers
  <2>1. PICK k \in Nat :
          /\ Wrote(k)
          /\ \/ Turns /\ k = place /\ Path[place] \notin Recorders
             \/ Stays /\ heading = "down" /\ place = M + 1 /\ k = place
             \/ Ascends /\ k = place /\ Path[place] = "connect"
             \/ Ascends /\ k = place + 1
    BY <1>7 DEF Answers
  <2>2. ~(OnTheWayDown' /\ place' <= M) /\ ((Descends \/ Turns) => Path[place] \notin Recorders)
    BY <2>1, <1>0 DEF OnTheWayDown, Turns, Stays, Ascends, OnTheWayUp, Descends
  <2>3. \A i \in 1..M : i <= Depth' => i < k \/ (i = place /\ Path[i] \notin Recorders)
    <3>1. CASE Turns /\ k = place /\ Path[place] \notin Recorders
      BY <1>0, <3>1 DEF Turns
    <3>2. CASE Stays /\ heading = "down" /\ place = M + 1 /\ k = place
      BY <1>0, <3>2
    <3>3. CASE Ascends /\ (k = place \/ k = place + 1)
      BY <1>0, <3>3 DEF Ascends
    <3>. QED
      BY <2>1, <3>1, <3>2, <3>3
  <2>4. \A r \in Recorders : rec'[r].on = rec[r].on
    BY <2>1 DEF Wrote
  <2>5. wire' # 0 /\ \A r \in Recorders : rec[r].on /\ (\E i \in 1..M : Path[i] = r /\ i <= Depth') =>
          rec'[r].wrote /\ rec'[r].status = wire'
    BY <2>1, <2>3 DEF Wrote
  <2>6. (\A r \in Recorders : rec[r].on /\ OnTheWayDown => Deeper(r))'
    BY <1>0, <1>1, <1>2, <2>4 DEF Seen, Deeper
  <2>7. (\A r \in Recorders : rec[r].on /\ Deeper(r) =>
            /\ rec[r].wrote <=> wire # 0
            /\ rec[r].status = IF wire = 0 THEN 200 ELSE wire)'
    BY <1>0, <2>4, <2>5 DEF Deeper
  <2>8. (Deeper("logging") => rec["logging"].on = ~incoming.probe)'
    BY <1>0, <1>1, <2>2, <2>4 DEF Seen, Deeper, Recorders
  <2>9. (Deeper("metrics") => rec["metrics"].on)'
    BY <1>0, <1>1, <2>2, <2>4 DEF Seen, Deeper, Recorders
  <2>10. (\A i \in 1..M : Path[i] = "recovery" /\ i <= Depth /\ ~rec["recovery"].on =>
            rec["logging"].on /\ \E j \in 1..i-1 : Path[j] = "logging")'
    BY <1>0, <1>1, <2>2, <2>4 DEF Seen, Recorders
  <2>11. (\A r \in Recorders : rec[r].on => \E i \in 1..N : Path[i] = r)'
    BY <1>0, <2>4 DEF Seen
  <2>12. (OnTheWayDown /\ place <= M => wire = 0 /\ \A r \in Recorders : ~rec[r].wrote /\ rec[r].status = 200)'
    BY <1>0, <2>2 DEF OnTheWayDown
  <2>. QED
    BY <2>12, <2>6, <2>7, <2>8, <2>9, <2>10, <2>11 DEF Seen
<1>. QED
  BY <1>5, <1>6, <1>7

-----------------------------------------------------------------------------
(* The requests the layers hold, and the spans.                             *)

GoingIn(l) == (Descends \/ Turns) /\ Path[place] = l
Had == span["http"].state # "none"
Opening == Descends /\ Path[place] = "trace" /\ ~IsRPC

Copying ==
    /\ objs' \in Seq(Object) /\ objs' # <<>> /\ held' \in [Layer -> 1..Len(objs')]
    /\ \A k \in 1..Len(objs) : k < Len(objs) => objs'[k] = objs[k]
    /\ \/ Len(objs') = Len(objs)
       \/ /\ Len(objs') = Len(objs) + 1 /\ objs'[Len(objs)] = objs[Len(objs)]
          /\ Descends /\ Path[place] \in HandsOnItsOwn
    /\ Latest'.span <=> Latest.span \/ Opening
    /\ Latest'.log <=> Latest.log \/ (Descends /\ Path[place] = "logging")
    /\ Latest'.pattern <=> Latest.pattern \/ (Descends /\ Path[place] = "mux")
    /\ \A l \in Layer : held'[l] = IF GoingIn(l) THEN Len(objs') ELSE held[l]

\* A layer that hands on a request of its own,
LEMMA CopyStep ==
    ASSUME TelemetryTypes, NEW l \in HandsOnItsOwn, NEW o \in Object, Copy(l, o), Descends, Path[place] = l,
           o.pattern = Latest.pattern,
           o.log <=> Latest.log \/ l = "logging",
           o.span <=> Latest.span \/ Opening
    PROVE  Copying
<1>. DEFINE n == Len(objs)
<1>1. objs \in Seq(Object) /\ n \in Nat /\ held \in [Layer -> 1..n] /\ n >= 1 /\ l \in Layer
  BY DEF TelemetryTypes, HandsOnItsOwn, Layer
<1>2. objs' = Append(objs, o) /\ held' = [held EXCEPT ![l] = n + 1]
  BY <1>1 DEF Copy, Current
<1>3. /\ objs' \in Seq(Object) /\ objs' # <<>> /\ Len(objs') = n + 1
      /\ \A k \in 1..n : objs'[k] = objs[k]
      /\ objs'[n + 1] = o
  BY <1>1, <1>2
<1>4. held' \in [Layer -> 1..Len(objs')] /\ \A m \in Layer : held'[m] = IF m = l THEN n + 1 ELSE held[m]
  BY <1>1, <1>2, <1>3
<1>5. Latest' = o
  BY <1>3 DEF Latest
<1>6. Path[place] = "mux" => FALSE
  BY DEF HandsOnItsOwn
<1>. QED
  BY <1>1, <1>3, <1>4, <1>5, <1>6 DEF Copying, GoingIn

\* one that hands on the one it got,
LEMMA KeepStep ==
    ASSUME TelemetryTypes, NEW l \in Layer, Keep(l), GoingIn(l), l # "logging", ~Opening
    PROVE  Copying
<1>. DEFINE n == Len(objs)
<1>1. objs \in Seq(Object) /\ objs # <<>> /\ n \in Nat /\ held \in [Layer -> 1..n] /\ n >= 1
  BY DEF TelemetryTypes
<1>2. objs' = objs /\ held' = [held EXCEPT ![l] = n]
  BY DEF Keep, Current
<1>3. held' \in [Layer -> 1..n] /\ \A m \in Layer : held'[m] = IF m = l THEN n ELSE held[m]
  BY <1>1, <1>2
<1>4. Latest' = Latest
  BY <1>2 DEF Latest
<1>5. Path[place] = l /\ l # "mux"
  BY DEF GoingIn, Layer
<1>. QED
  BY <1>1, <1>2, <1>3, <1>4, <1>5 DEF Copying, GoingIn

\* and a step that does neither.
LEMMA NoCopyStep ==
    ASSUME TelemetryTypes, copyVars' = copyVars, \A l \in Layer : ~GoingIn(l), ~(Descends /\ Path[place] = "mux")
    PROVE  Copying
<1>. DEFINE n == Len(objs)
<1>1. objs \in Seq(Object) /\ objs # <<>> /\ n \in Nat /\ held \in [Layer -> 1..n] /\ n >= 1
  BY DEF TelemetryTypes
<1>2. objs' = objs /\ held' = held /\ Latest' = Latest
  BY DEF copyVars, Latest
<1>3. ~Opening /\ ~(Descends /\ Path[place] = "logging")
  BY DEF Opening, GoingIn, Layer
<1>. QED
  BY <1>1, <1>2, <1>3 DEF Copying

\* Which of its kinds of Motion a step is.
LEMMA Enters ==
    ASSUME TelemetryTypes, Where, Shape, Motion, NEW l, Here(l), Pass \/ Answer
    PROVE  GoingIn(l) /\ heading = "down" /\ place \in 1..M /\ (Pass <=> Descends)
<1>1. /\ heading = "down" /\ place \in 1..M /\ Path[place] = l /\ M \in Nat
      /\ (place' = place + 1 /\ heading' = heading) \/ (place' = place /\ heading' = "up")
  BY DEF Shape, Pass, Answer
<1>2. CASE place' = place + 1 /\ heading' = heading
  BY <1>1, <1>2 DEF Motion, Begins, Descends, Turns, Bottoms, Ascends, Ends, Stays, GoingIn, OnTheWayUp, Pass
<1>3. CASE place' = place /\ heading' = "up"
  BY <1>1, <1>3 DEF Motion, Begins, Descends, Turns, Bottoms, Ascends, Ends, Stays, GoingIn, OnTheWayUp, Pass
<1>. QED
  BY <1>1, <1>2, <1>3

\* A layer that has the request on its way out leaves the stack.
LEMMA Backs ==
    ASSUME TelemetryTypes, Where, Shape, Motion, NEW l, Back(l), Unwind \/ Catch
    PROVE  Ascends /\ Path[place] = l /\ place \in 1..M
<1>1. OnTheWayUp /\ place \in 1..M /\ Path[place] = l /\ place' = place - 1 /\ M \in Nat
  BY DEF Shape, Unwind, Catch
<1>. QED
  BY <1>1 DEF Motion, Begins, Descends, Turns, Bottoms, Ascends, Ends, Stays, OnTheWayUp

\* A step that enters no layer moves none of the requests.
LEMMA Elsewhere ==
    ASSUME TelemetryTypes, Shape, copyVars' = copyVars,
           \/ heading # "down"
           \/ place = M + 1
           \/ place \in 1..M /\ Path[place] \in {"connect"} \cup Option
    PROVE  Copying
<1>1. \A l \in Layer \cup {"mux"} : ~GoingIn(l)
  BY DEF GoingIn, Descends, Turns, Shape, Layer, Option
<1>. QED
  BY <1>1, NoCopyStep DEF GoingIn

\* Every step treats the requests in one of these ways.
LEMMA Holding ==
    ASSUME WiringsWellFormed, InOrder, TelemetryTypes, Where, Shape, TelemetryNext
    PROVE  Copying
<1>0. Same /\ Motion
  BY Moving
<1>1. /\ objs \in Seq(Object) /\ objs # <<>> /\ Latest \in Object
      /\ incoming.token \in {"none", "bad", "good"}
  BY DEF TelemetryTypes, Latest, WiringsWellFormed, IncomingType
<1>2. CASE DownTrace
  <2>1. Here("trace") /\ Pass
    BY <1>2 DEF DownTrace
  <2>2. Descends /\ GoingIn("trace") /\ Path[place] = "trace"
    BY <1>0, <2>1, Enters DEF GoingIn
  <2>3. CASE IsRPC
    BY <1>2, <2>2, <2>3, KeepStep DEF DownTrace, Filtered, Opening, Layer
  <2>4. CASE ~IsRPC
    <3>. DEFINE o == [objs[Current] EXCEPT !.span = TRUE]
    <3>1. Copy("trace", o)
      BY <1>2, <2>4 DEF DownTrace, Filtered
    <3>2. o = [Latest EXCEPT !.span = TRUE]
      BY DEF Latest, Current
    <3>3. o \in Object /\ o.span /\ o.log = Latest.log /\ o.pattern = Latest.pattern
      BY <1>1, <3>2 DEF Object
    <3>. HIDE DEF o
    <3>. QED
      BY <2>2, <2>4, <3>1, <3>3, CopyStep DEF Opening, HandsOnItsOwn
  <2>. QED
    BY <2>3, <2>4
<1>3. CASE DownLogging
  <2>1. Here("logging") /\ Pass
    BY <1>3 DEF DownLogging
  <2>2. Descends /\ GoingIn("logging") /\ Path[place] = "logging"
    BY <1>0, <2>1, Enters DEF GoingIn
  <2>. DEFINE o == [objs[Current] EXCEPT !.log = TRUE]
  <2>3. Copy("logging", o)
    BY <1>3 DEF DownLogging
  <2>4. o = [Latest EXCEPT !.log = TRUE]
    BY DEF Latest, Current
  <2>5. o \in Object /\ o.log /\ o.span = Latest.span /\ o.pattern = Latest.pattern
    BY <1>1, <2>4 DEF Object
  <2>. HIDE DEF o
  <2>. QED
    BY <2>2, <2>3, <2>5, CopyStep DEF Opening, HandsOnItsOwn
<1>4. CASE DownRecovery \/ DownRouteName \/ DownMetrics
  <2>1. \E l \in {"recovery", "routeName", "metrics"} : Here(l) /\ Keep(l) /\ Pass
    BY <1>4 DEF DownRecovery, DownRouteName, DownMetrics
  <2>2. PICK l \in {"recovery", "routeName", "metrics"} : Here(l) /\ Keep(l) /\ Pass
    BY <2>1
  <2>3. GoingIn(l)
    BY <1>0, <2>2, Enters
  <2>. QED
    BY <2>2, <2>3, KeepStep DEF Opening, Layer, GoingIn
<1>5. CASE DownAuthenticate
  <2>1. /\ Here("authenticate") /\ (Pass \/ Answer)
        /\ \/ Keep("authenticate")
           \/ Pass /\ Copy("authenticate", objs[Current])
    BY <1>1, <1>5 DEF DownAuthenticate
  <2>2. GoingIn("authenticate") /\ Path[place] = "authenticate" /\ (Pass => Descends)
    BY <1>0, <2>1, Enters DEF GoingIn
  <2>3. CASE Keep("authenticate")
    BY <2>2, <2>3, KeepStep DEF Opening, Layer
  <2>4. CASE Pass /\ Copy("authenticate", objs[Current])
    <3>1. objs[Current] = Latest
      BY DEF Current, Latest
    <3>. QED
      BY <1>1, <2>2, <2>4, <3>1, CopyStep DEF Opening, HandsOnItsOwn
  <2>. QED
    BY <2>1, <2>3, <2>4
<1>6. CASE DownMux
  <2>1. Here("mux") /\ (Pass \/ Answer) /\ held' = held
    BY <1>6 DEF DownMux
  <2>2. GoingIn("mux") /\ Path[place] = "mux" /\ (Pass <=> Descends) /\ heading = "down"
    BY <1>0, <2>1, Enters DEF GoingIn
  <2>3. \A l \in Layer : ~GoingIn(l)
    BY <2>2 DEF GoingIn, Layer
  <2>4. CASE incoming.matches
    <3>. DEFINE n == Len(objs)
    <3>1. Descends /\ objs' = [objs EXCEPT ![n].pattern = TRUE]
      BY <1>6, <2>2, <2>4 DEF DownMux, Current
    <3>2. n \in Nat /\ n >= 1 /\ held \in [Layer -> 1..n]
      BY <1>1 DEF TelemetryTypes
    <3>3. /\ objs' \in Seq(Object) /\ objs' # <<>> /\ Len(objs') = n
          /\ \A k \in 1..n : k < n => objs'[k] = objs[k]
          /\ objs'[n] = [Latest EXCEPT !.pattern = TRUE]
      <4>. DEFINE o == [Latest EXCEPT !.pattern = TRUE]
      <4>1. o \in Object
        BY <1>1 DEF Object
      <4>2. objs' = [objs EXCEPT ![n] = o]
        BY <3>1 DEF Latest
      <4>. HIDE DEF o
      <4>3. objs' \in Seq(Object) /\ Len(objs') = n /\ objs'[n] = o
        BY <1>1, <3>2, <4>1, <4>2
      <4>4. \A k \in 1..n : k < n => objs'[k] = objs[k]
        BY <1>1, <3>2, <4>2
      <4>5. objs' # <<>>
        BY <3>2, <4>3
      <4>. QED
        BY <4>3, <4>4, <4>5 DEF o
    <3>4. Latest' = [Latest EXCEPT !.pattern = TRUE]
      BY <3>3 DEF Latest
    <3>5. Latest'.pattern /\ Latest'.span = Latest.span /\ Latest'.log = Latest.log
      BY <1>1, <3>4 DEF Object
    <3>6. ~Opening
      BY <2>2 DEF Opening
    <3>8. /\ \A k \in 1..Len(objs) : k < Len(objs) => objs'[k] = objs[k]
          /\ Len(objs') = Len(objs)
      BY <3>3
    <3>. HIDE DEF n
    <3>7. held' \in [Layer -> 1..Len(objs')]
      BY <2>1, <3>2, <3>3
    <3>9. /\ Latest'.span <=> Latest.span \/ Opening
          /\ Latest'.log <=> Latest.log \/ (Descends /\ Path[place] = "logging")
          /\ Latest'.pattern <=> Latest.pattern \/ (Descends /\ Path[place] = "mux")
      BY <2>2, <3>1, <3>5, <3>6
    <3>10. \A l \in Layer : held'[l] = IF GoingIn(l) THEN Len(objs') ELSE held[l]
      BY <2>1, <2>3
    <3>11. objs' \in Seq(Object) /\ objs' # <<>>
      BY <3>3
    <3>. QED
      BY <3>7, <3>8, <3>9, <3>10, <3>11 DEF Copying
  <2>5. CASE ~incoming.matches
    <3>1. objs' = objs /\ heading' = "up"
      BY <1>6, <2>5 DEF DownMux, Answer
    <3>2. ~Descends
      BY <2>2, <3>1 DEF Descends
    <3>. QED
      BY <2>1, <2>3, <3>1, <3>2, NoCopyStep DEF copyVars
  <2>. QED
    BY <2>4, <2>5
<1>7. CASE \/ TracerStarts \/ NoTracer \/ TracerStops \/ Handles \/ HandlerReturns \/ HandlerPanics \/ Conclude \/ TelemetryOver
           \/ DownConnect \/ DownOption \/ Leave
  <2>1. copyVars' = copyVars
    BY <1>7 DEF TracerStarts, NoTracer, TracerStops, Handles, HandlerReturns, HandlerPanics, Conclude, TelemetryOver, telemetryVars,
       copyVars, DownConnect, DownOption, Leave, UpRpcTrace, UpRpcMetrics, UpSanitise,
       UpRecover, UpRequireHeader, UpConnect, UpSilently, UpMetrics, UpRouteName,
       UpRecovery, UpLogging, UpTrace
  <2>2. \/ heading # "down"
        \/ place = M + 1
        \/ \E l \in {"connect"} \cup Option : Here(l)
    BY <1>7 DEF TracerStarts, NoTracer, TracerStops, Handles, HandlerReturns, HandlerPanics, Conclude, TelemetryOver,
       AtHandler, M, Back, DownConnect, DownOption, Leave, UpRpcTrace, UpRpcMetrics,
       UpSanitise, UpRecover, UpRequireHeader, UpConnect, UpSilently, UpMetrics,
       UpRouteName, UpRecovery, UpLogging, UpTrace
  <2>. QED
    BY <2>1, <2>2, Elsewhere DEF Shape
<1>. QED
  BY <1>2, <1>3, <1>4, <1>5, <1>6, <1>7 DEF TelemetryNext, Enter

SpanType == [{"http", "rpc"} -> [state : {"none", "open", "ended", "exported"}, name : {"method", "route"}]]

Naming ==
    /\ Ascends /\ Path[place] = "routeName"
    /\ objs[held["routeName"]].pattern /\ objs[held["routeName"]].span

Spanning ==
    /\ span' \in SpanType
    /\ span'["http"].state # "none" <=> Had \/ Opening
    /\ span'["http"].state = "open" =>
          \/ Descends /\ Path[place] = "trace"
          \/ span["http"].state = "open" /\ ~(Ascends /\ Path[place] = "trace")
    /\ span'["rpc"].state = "open" =>
          \/ Descends /\ Path[place] = "rpcTrace"
          \/ span["rpc"].state = "open" /\ ~(Ascends /\ Path[place] = "rpcTrace")
    /\ span'["rpc"].state # "none" =>
          span["rpc"].state # "none" \/ (Descends /\ Path[place] = "rpcTrace")
    /\ tracer' = "flushed" =>
          (\A s \in {"http", "rpc"} : span'[s].state # "ended") \/ (tracer = "flushed" /\ span' = span)
    /\ span'["http"].name = IF Naming THEN "route" ELSE span["http"].name

\* A step that is no tracer's.
LEMMA NoSpanStep ==
    ASSUME TelemetryTypes, span' = span, ~Opening, tracer' = tracer \/ tracer' # "flushed",
           ~(Ascends /\ Path[place] \in {"trace", "rpcTrace", "routeName"})
    PROVE  Spanning
  BY DEF TelemetryTypes, Spanning, SpanType, Had, Naming

\* Every step treats the spans in one of these ways.
LEMMA Tracing ==
    ASSUME WiringsWellFormed, InOrder, TelemetryTypes, Where, Shape, TelemetryNext
    PROVE  Spanning
<1>0. Same /\ Motion
  BY Moving
<1>1. span \in SpanType
  BY DEF TelemetryTypes, SpanType
<1>2. CASE DownTrace
  <2>1. Here("trace") /\ Pass /\ tracer' = tracer
    BY <1>2 DEF DownTrace
  <2>2. Descends /\ Path[place] = "trace" /\ heading = "down"
    BY <1>0, <2>1, Enters DEF GoingIn
  <2>3. ~Ascends /\ tracer # "flushed"
    BY <2>2 DEF Ascends, OnTheWayUp, Where
  <2>4. CASE IsRPC
    BY <1>2, <2>1, <2>2, <2>3, <2>4, NoSpanStep DEF DownTrace, Filtered, Opening
  <2>5. CASE ~IsRPC
    <3>1. span' = [span EXCEPT !["http"].state = "open"]
      BY <1>2, <2>5 DEF DownTrace, Filtered
    <3>2. /\ span' \in SpanType /\ span'["http"].state = "open" /\ span'["rpc"] = span["rpc"]
          /\ span'["http"].name = span["http"].name
      BY <1>1, <3>1 DEF SpanType
    <3>. QED
      BY <2>1, <2>2, <2>3, <2>5, <3>2 DEF Spanning, Opening, Naming
  <2>. QED
    BY <2>4, <2>5
<1>3. CASE DownOption
  <2>1. PICK o \in Option : /\ Here(o) /\ Pass /\ tracer' = tracer
                            /\ span' = IF o = "rpcTrace" THEN [span EXCEPT !["rpc"].state = "open"] ELSE span
    BY <1>3 DEF DownOption
  <2>2. Descends /\ Path[place] = o /\ heading = "down"
    BY <1>0, <2>1, Enters DEF GoingIn
  <2>3. ~Ascends /\ tracer # "flushed" /\ ~Opening
    BY <2>2 DEF Ascends, OnTheWayUp, Where, Opening, Option
  <2>4. CASE o # "rpcTrace"
    BY <2>1, <2>2, <2>3, <2>4, NoSpanStep
  <2>5. CASE o = "rpcTrace"
    <3>1. span' = [span EXCEPT !["rpc"].state = "open"]
      BY <2>1, <2>5
    <3>2. span' \in SpanType /\ span'["http"] = span["http"]
      BY <1>1, <3>1 DEF SpanType
    <3>. QED
      BY <2>1, <2>2, <2>3, <2>5, <3>2 DEF Spanning, Naming, Had
  <2>. QED
    BY <2>4, <2>5
<1>4. CASE UpRpcTrace
  <2>1. Back("rpcTrace") /\ Unwind /\ tracer' = tracer /\ span' = EndSpan("rpc")
    BY <1>4 DEF UpRpcTrace
  <2>2. Ascends /\ Path[place] = "rpcTrace" /\ OnTheWayUp
    BY <1>0, <2>1, Backs DEF Ascends
  <2>3. ~Descends /\ tracer # "flushed"
    BY <2>2 DEF Descends, OnTheWayUp, Where
  <2>4. /\ span' \in SpanType /\ span'["http"] = span["http"] /\ span'["rpc"].state # "open"
        /\ span'["rpc"].state # "none" => span["rpc"].state # "none"
    BY <1>1, <2>1 DEF SpanType, EndSpan
  <2>. QED
    BY <2>1, <2>2, <2>3, <2>4 DEF Spanning, Naming, Had, Opening
<1>5. CASE UpTrace
  <2>1. Back("trace") /\ Unwind /\ tracer' = tracer /\ span' = EndSpan("http")
    BY <1>5 DEF UpTrace
  <2>2. Ascends /\ Path[place] = "trace" /\ OnTheWayUp
    BY <1>0, <2>1, Backs DEF Ascends
  <2>3. ~Descends /\ tracer # "flushed"
    BY <2>2 DEF Descends, OnTheWayUp, Where
  <2>4. /\ span' \in SpanType /\ span'["rpc"] = span["rpc"] /\ span'["http"].state # "open"
        /\ span'["http"].state # "none" <=> span["http"].state # "none"
        /\ span'["http"].name = span["http"].name
    BY <1>1, <2>1 DEF SpanType, EndSpan
  <2>. QED
    BY <2>1, <2>2, <2>3, <2>4 DEF Spanning, Naming, Had, Opening
<1>6. CASE UpRouteName
  <2>1. /\ Back("routeName") /\ Unwind /\ tracer' = tracer
        /\ span' = IF RouteFor("routeName") /\ objs[held["routeName"]].span
                   THEN [span EXCEPT !["http"].name = "route"] ELSE span
    BY <1>6 DEF UpRouteName
  <2>2. Ascends /\ Path[place] = "routeName" /\ OnTheWayUp
    BY <1>0, <2>1, Backs DEF Ascends
  <2>3. ~Descends /\ tracer # "flushed"
    BY <2>2 DEF Descends, OnTheWayUp, Where
  <2>4. Naming <=> RouteFor("routeName") /\ objs[held["routeName"]].span
    BY <2>2 DEF Naming, RouteFor
  <2>5. CASE Naming
    <3>1. span' = [span EXCEPT !["http"].name = "route"]
      BY <2>1, <2>4, <2>5
    <3>2. /\ span' \in SpanType /\ span'["rpc"] = span["rpc"]
          /\ span'["http"].state = span["http"].state /\ span'["http"].name = "route"
      BY <1>1, <3>1 DEF SpanType
    <3>. QED
      BY <2>1, <2>2, <2>3, <2>5, <3>2 DEF Spanning, Had, Opening
  <2>6. CASE ~Naming
    BY <1>1, <2>1, <2>2, <2>3, <2>4, <2>6 DEF Spanning, Had, Opening
  <2>. QED
    BY <2>5, <2>6
<1>7. CASE TracerStops
  <2>1. /\ heading = "done" /\ tracer' \in {"flushed", "lost"}
        /\ span' = [s \in DOMAIN span |->
                      IF tracer' = "flushed" /\ span[s].state = "ended"
                      THEN [span[s] EXCEPT !.state = "exported"] ELSE span[s]]
    BY <1>7 DEF TracerStops
  <2>2. ~Descends /\ ~Ascends
    BY <2>1 DEF Descends, Ascends, OnTheWayUp
  <2>3. /\ span' \in SpanType
        /\ \A s \in {"http", "rpc"} :
              /\ span'[s].name = span[s].name
              /\ span'[s].state # "none" <=> span[s].state # "none"
              /\ span'[s].state = "open" <=> span[s].state = "open"
              /\ tracer' = "flushed" => span'[s].state # "ended"
    BY <1>1, <2>1 DEF SpanType
  <2>. QED
    BY <2>2, <2>3 DEF Spanning, Naming, Had, Opening
<1>8. CASE \/ TracerStarts \/ NoTracer \/ Handles \/ HandlerReturns \/ HandlerPanics \/ Conclude \/ TelemetryOver
           \/ DownLogging \/ DownRecovery \/ DownRouteName \/ DownMetrics \/ DownAuthenticate
           \/ DownMux \/ DownConnect \/ UpRpcMetrics \/ UpSanitise \/ UpRecover
           \/ UpRequireHeader \/ UpConnect \/ UpSilently \/ UpMetrics \/ UpRecovery
           \/ UpLogging
  <2>1. span' = span
    BY <1>8 DEF TracerStarts, NoTracer, Handles, HandlerReturns, HandlerPanics, Conclude, TelemetryOver, telemetryVars, toldVars,
       DownLogging, DownRecovery, DownRouteName, DownMetrics, DownAuthenticate, DownMux,
       DownConnect, UpRpcMetrics, UpSanitise, UpRecover, UpRequireHeader, UpConnect,
       UpSilently, UpMetrics, UpRecovery, UpLogging
  <2>2. tracer' = tracer \/ tracer' # "flushed"
    BY <1>8 DEF TracerStarts, NoTracer, Handles, HandlerReturns, HandlerPanics, Conclude, TelemetryOver, telemetryVars,
       DownLogging, DownRecovery, DownRouteName, DownMetrics, DownAuthenticate, DownMux,
       DownConnect, UpRpcMetrics, UpSanitise, UpRecover, UpRequireHeader, UpConnect,
       UpSilently, UpMetrics, UpRecovery, UpLogging
  <2>3. \/ heading \in {"wait", "done"} \/ place = M + 1 \/ place = 0
        \/ \E l \in {"logging", "recovery", "routeName", "metrics", "authenticate", "mux", "connect"} : Here(l)
        \/ \E l \in {"rpcMetrics", "sanitise", "recover", "requireHeader", "connect", "mux",
                    "authenticate", "metrics", "recovery", "logging"} : Back(l)
    <3>1. CASE TracerStarts \/ NoTracer \/ Handles \/ HandlerReturns \/ HandlerPanics \/ Conclude \/ TelemetryOver
      BY <3>1 DEF TracerStarts, NoTracer, Handles, HandlerReturns, HandlerPanics, Conclude, TelemetryOver, AtHandler, M
    <3>2. CASE \/ DownLogging \/ DownRecovery \/ DownRouteName \/ DownMetrics \/ DownAuthenticate
               \/ DownMux \/ DownConnect
      BY <3>2 DEF DownLogging, DownRecovery, DownRouteName, DownMetrics, DownAuthenticate,
         DownMux, DownConnect
    <3>3. CASE \/ UpRpcMetrics \/ UpSanitise \/ UpRecover \/ UpRequireHeader \/ UpConnect
               \/ UpSilently \/ UpMetrics \/ UpRecovery \/ UpLogging
      BY <3>3 DEF UpRpcMetrics, UpSanitise, UpRecover, UpRequireHeader, UpConnect,
         UpSilently, UpMetrics, UpRecovery, UpLogging
    <3>. QED
      BY <1>8, <3>1, <3>2, <3>3
  <2>4. ~Opening /\ ~(Ascends /\ Path[place] \in {"trace", "rpcTrace", "routeName"})
    BY <2>3 DEF Opening, Ascends, Descends, OnTheWayUp, Shape
  <2>. QED
    BY <2>1, <2>2, <2>4, NoSpanStep
<1>. QED
  BY <1>2, <1>3, <1>4, <1>5, <1>6, <1>7, <1>8 DEF TelemetryNext, Enter, Leave

\* Where the layers of Path are.
LEMMA Places ==
    ASSUME Shape
    PROVE  /\ \A i \in 1..M : Path[i] \in Layer => i \in 1..N
           /\ \A i \in 1..M : Path[i] = "mux" => i = N + 1
           /\ \A i \in 1..M : Path[i] = "connect" => i = N + 2 /\ incoming.kind # "http"
           /\ \A i \in 1..M : Path[i] \in Option => i >= N + 3 /\ incoming.kind # "http"
<1>1. N \in Nat /\ M \in Nat /\ M >= N + 1
  BY DEF Shape
<1>2. SUFFICES ASSUME NEW i \in 1..M
               PROVE  /\ Path[i] \in Layer => i \in 1..N
                      /\ Path[i] = "mux" => i = N + 1
                      /\ Path[i] = "connect" => i = N + 2 /\ incoming.kind # "http"
                      /\ Path[i] \in Option => i >= N + 3 /\ incoming.kind # "http"
  OBVIOUS
<1>3. /\ \A l \in Layer : l \notin Option \cup {"mux", "connect"}
      /\ "mux" \notin Option /\ "connect" \notin Option
  BY DEF Layer, Option
<1>4. CASE i \in 1..N
  BY <1>3, <1>4 DEF Shape
<1>5. CASE i = N + 1
  BY <1>3, <1>5 DEF Shape
<1>6. CASE i >= N + 2
  <2>1. incoming.kind # "http" /\ Path[N + 2] = "connect" /\ \A k \in N + 3..M : Path[k] \in Option
    BY <1>1, <1>6 DEF Shape
  <2>2. CASE i = N + 2
    BY <1>3, <2>1, <2>2
  <2>3. CASE i >= N + 3
    <3>1. i \in N + 3..M
      BY <1>1, <2>3
    <3>2. Path[i] \in Option
      BY <2>1, <3>1
    <3>. QED
      BY <1>3, <2>1, <2>3, <3>2
  <2>. QED
    BY <1>1, <1>6, <2>2, <2>3
<1>. QED
  BY <1>1, <1>4, <1>5, <1>6

\* Routing is kept: who reads the route holds the request that has it.
LEMMA RoutingKept ==
    ASSUME TelemetryTypes, Where, Shape, Routing, Same, Motion, Copying, Spanning
    PROVE  Routing'
<1>. DEFINE n == Len(objs)
<1>0. /\ N \in Nat /\ M \in Nat /\ M >= N + 1 /\ place \in 0..M + 1 /\ n \in Nat /\ n >= 1
      /\ Path' = Path /\ N' = N /\ M' = M
  BY DepthIs DEF TelemetryTypes, Shape, Same
<1>1. /\ Depth' \in 0..M /\ Depth \in 0..M
      /\ \A i \in 1..M : i <= Depth' => i <= Depth \/ (i = place /\ (Descends \/ Turns))
      /\ Descends \/ Turns => heading = "down" /\ place \in 1..M /\ Depth = place - 1 /\ Depth' = place
  BY StackGrows
<1>2. Len(objs') = n + 1 =>
        /\ Descends /\ Path[place] \in HandsOnItsOwn /\ place \in 1..N /\ heading = "down"
        /\ objs'[n] = objs[n] /\ ~Latest.pattern
  <2>. SUFFICES ASSUME Len(objs') = n + 1
                PROVE  /\ Descends /\ Path[place] \in HandsOnItsOwn /\ place \in 1..N /\ heading = "down"
                       /\ objs'[n] = objs[n] /\ ~Latest.pattern
    OBVIOUS
  <2>1. Descends /\ Path[place] \in HandsOnItsOwn /\ objs'[n] = objs[n]
    BY <1>0 DEF Copying
  <2>2. place \in 1..N /\ heading = "down"
    BY <1>1, <2>1, Places DEF HandsOnItsOwn, Layer
  <2>. QED
    BY <1>0, <2>1, <2>2 DEF Routing, OnTheWayDown
<1>3. Len(objs') \in {n, n + 1}
  BY DEF Copying
<1>4. (\A i \in 1..M : i <= Depth /\ Path[i] \in ReadsRoute => held[Path[i]] = Len(objs))'
  <2>. SUFFICES ASSUME NEW i \in 1..M, i <= Depth', Path[i] \in ReadsRoute
                PROVE  held'[Path[i]] = Len(objs')
    BY <1>0
  <2>1. Path[i] \in Layer /\ i \in 1..N
    BY Places DEF ReadsRoute, Layer
  <2>2. CASE i = place /\ (Descends \/ Turns)
    BY <2>1, <2>2 DEF Copying, GoingIn
  <2>3. CASE ~(i = place /\ (Descends \/ Turns))
    <3>1. i <= Depth
      BY <1>1, <2>3
    <3>2. held[Path[i]] = n
      BY <3>1 DEF Routing
    <3>3. ~GoingIn(Path[i])
      BY <1>1, <2>3 DEF GoingIn, Shape
    <3>4. held'[Path[i]] = n
      BY <2>1, <3>2, <3>3 DEF Copying
    <3>5. Len(objs') # n + 1
      <4>. SUFFICES ASSUME Len(objs') = n + 1 PROVE FALSE
        OBVIOUS
      <4>1. place \in 1..N /\ i < place /\ Path[place] \in HandsOnItsOwn
        BY <1>0, <1>1, <1>2, <3>1
      <4>. QED
        BY <2>1, <4>1 DEF Shape
    <3>. QED
      BY <1>3, <3>4, <3>5
  <2>. QED
    BY <2>2, <2>3
<1>5. (\A k \in 1..Len(objs) : objs[k].pattern => k = Len(objs))'
  <2>. SUFFICES ASSUME NEW k \in 1..Len(objs'), k # Len(objs'), objs'[k].pattern PROVE FALSE
    OBVIOUS
  <2>1. CASE k < n
    BY <1>0, <2>1 DEF Copying, Routing
  <2>2. CASE k = n /\ Len(objs') = n + 1
    BY <1>2, <2>2 DEF Latest
  <2>. QED
    BY <1>0, <1>3, <2>1, <2>2
<1>6. (OnTheWayDown /\ place <= N + 1 => ~Latest.pattern)'
  <2>. SUFFICES ASSUME OnTheWayDown', place' <= N + 1, Latest'.pattern PROVE FALSE
    BY <1>0
  <2>1. Begins \/ Descends \/ Stays
    BY DEF OnTheWayDown, Motion, Turns, Bottoms, Ascends, Ends, OnTheWayUp
  <2>2. OnTheWayDown /\ place <= N + 1 /\ (Descends => place' = place + 1)
    BY <1>0, <2>1 DEF OnTheWayDown, Begins, Descends, Stays
  <2>3. Descends /\ Path[place] = "mux"
    BY <2>2 DEF Routing, Copying
  <2>4. place = N + 1
    BY <1>1, <2>3, Places
  <2>. QED
    BY <1>0, <2>2, <2>3, <2>4
<1>7. (Latest.span <=> span["http"].state # "none")'
  <2>1. Latest.span <=> Had
    BY DEF Routing, Had
  <2>. QED
    BY <2>1 DEF Copying, Spanning
<1>8. (OnTheWayDown \/ place > N + 1 => (Latest.log <=> \E i \in 1..N : i < place /\ Path[i] = "logging"))'
  <2>. SUFFICES ASSUME OnTheWayDown' \/ place' > N + 1
                PROVE  Latest'.log <=> \E i \in 1..N : i < place' /\ Path[i] = "logging"
    BY <1>0
  <2>1. CASE Descends
    <3>1. place' = place + 1 /\ place \in 1..M /\ OnTheWayDown
      BY <2>1 DEF Descends, OnTheWayDown
    <3>2. Latest.log <=> \E i \in 1..N : i < place /\ Path[i] = "logging"
      BY <3>1 DEF Routing
    <3>3. Latest'.log <=> Latest.log \/ Path[place] = "logging"
      BY <2>1 DEF Copying
    <3>4. Path[place] = "logging" => place \in 1..N
      BY <3>1, Places DEF Layer
    <3>5. \A i \in 1..N : i < place' <=> i < place \/ i = place
      BY <1>0, <3>1
    <3>. QED
      BY <3>2, <3>3, <3>4, <3>5
  <2>2. CASE ~Descends
    <3>1. Latest'.log <=> Latest.log
      BY <2>2 DEF Copying
    <3>2. place' = place \/ (place' = place - 1 /\ place > N + 1 /\ place' > N) \/ (place' = place - 1 /\ place = M + 1 /\ heading = "down")
      BY <1>0, <2>2 DEF OnTheWayDown, Motion, Begins, Turns, Bottoms, Ascends, Ends, Stays, OnTheWayUp
    <3>3. OnTheWayDown \/ place > N + 1
      BY <1>0, <2>2, <3>2 DEF OnTheWayDown, Motion, Begins, Turns, Bottoms, Ascends, Ends, Stays, OnTheWayUp
    <3>4. Latest.log <=> \E i \in 1..N : i < place /\ Path[i] = "logging"
      BY <3>3 DEF Routing
    <3>5. \A i \in 1..N : i < place' <=> i < place
      BY <1>0, <3>2
    <3>. QED
      BY <3>1, <3>4, <3>5
  <2>. QED
    BY <2>1, <2>2
<1>. QED
  BY <1>4, <1>5, <1>6, <1>7, <1>8 DEF Routing

\* Spans is kept: a span is open only while its layer is on the stack.
LEMMA SpansKept ==
    ASSUME WiringsWellFormed, TelemetryTypes, Where, Shape, Routing, Spans, Same, Motion, Copying, Spanning
    PROVE  Spans'
<1>0. /\ N \in Nat /\ M \in Nat /\ M >= N + 1 /\ place \in 0..M + 1
      /\ Path' = Path /\ N' = N /\ M' = M /\ incoming' = incoming /\ wiring' = wiring
      /\ incoming.kind \in Kind
  BY DepthIs DEF TelemetryTypes, Shape, Same, WiringsWellFormed, IncomingType
<1>1. /\ Depth' \in 0..M /\ Depth \in 0..M
      /\ \A i \in 1..M : i <= Depth' => i <= Depth \/ (i = place /\ (Descends \/ Turns))
      /\ Descends \/ Turns => heading = "down" /\ place \in 1..M /\ Depth = place - 1 /\ Depth' = place
  BY StackGrows
<1>2. IsRPC' = IsRPC /\ (\A l : Outermost(l)' <=> Outermost(l))
  BY <1>0 DEF IsRPC, Outermost
\* What is on the stack and is not being left stays on it.
<1>3. \A i \in 1..M : i <= Depth /\ ~(Ascends /\ i = place) => i <= Depth'
  BY <1>0, <1>1 DEF Motion, Begins, Descends, Turns, Bottoms, Ascends, Ends, Stays
<1>4. (span["http"].state = "open" => Deeper("trace"))'
  <2>. SUFFICES ASSUME span'["http"].state = "open" PROVE \E i \in 1..M : Path[i] = "trace" /\ i <= Depth'
    BY <1>0 DEF Deeper
  <2>1. CASE Descends /\ Path[place] = "trace"
    BY <1>0, <1>1, <2>1
  <2>2. CASE span["http"].state = "open" /\ ~(Ascends /\ Path[place] = "trace")
    <3>1. PICK i \in 1..M : Path[i] = "trace" /\ i <= Depth
      BY <2>2 DEF Spans, Deeper
    <3>. QED
      BY <1>3, <2>2, <3>1
  <2>. QED
    BY <2>1, <2>2 DEF Spanning
<1>5. (span["rpc"].state = "open" => Deeper("rpcTrace"))'
  <2>. SUFFICES ASSUME span'["rpc"].state = "open" PROVE \E i \in 1..M : Path[i] = "rpcTrace" /\ i <= Depth'
    BY <1>0 DEF Deeper
  <2>1. CASE Descends /\ Path[place] = "rpcTrace"
    BY <1>0, <1>1, <2>1
  <2>2. CASE span["rpc"].state = "open" /\ ~(Ascends /\ Path[place] = "rpcTrace")
    <3>1. PICK i \in 1..M : Path[i] = "rpcTrace" /\ i <= Depth
      BY <2>2 DEF Spans, Deeper
    <3>. QED
      BY <1>3, <2>2, <3>1
  <2>. QED
    BY <2>1, <2>2 DEF Spanning
<1>6. (Outermost("trace") /\ ~IsRPC /\ heading # "wait" /\ tracer # "failed" /\ ~(heading = "down" /\ place = 1)
          => span["http"].state # "none")'
  <2>. SUFFICES ASSUME Outermost("trace"), ~IsRPC, heading' # "wait", tracer' # "failed",
                       ~(heading' = "down" /\ place' = 1), ~Had
                PROVE  Opening
    BY <1>2 DEF Spanning
  <2>1. Path[1] = "trace" /\ N >= 1
    BY DEF Shape
  <2>2. heading = "wait" \/ tracer = "failed" \/ (heading = "down" /\ place = 1)
    BY DEF Spans, Had
  <2>3. heading # "wait"
    BY DEF Where, Motion, Begins, Descends, Turns, Bottoms, Ascends, Ends, Stays, OnTheWayUp
  <2>4. tracer # "failed"
    <3>1. tracer = "failed" => heading = "done" /\ tracer' = tracer
      BY DEF Where, Motion, Begins, Descends, Turns, Bottoms, Ascends, Ends, Stays, OnTheWayUp
    <3>. QED
      BY <3>1
  <2>5. heading = "down" /\ place = 1
    BY <2>2, <2>3, <2>4
  <2>6. Descends
    BY <1>0, <2>1, <2>5 DEF Motion, Begins, Descends, Turns, Bottoms, Ascends, Ends, Stays, OnTheWayUp
  <2>. QED
    BY <2>1, <2>5, <2>6 DEF Opening
<1>7. (span["http"].state # "none" => ~IsRPC)'
  BY <1>2 DEF Spans, Spanning, Opening, Had
<1>8. (span["rpc"].state # "none" => IsRPC)'
  <2>. SUFFICES ASSUME Descends, Path[place] = "rpcTrace" PROVE IsRPC
    BY <1>2 DEF Spanning, Spans
  <2>1. place \in 1..M /\ place >= N + 3 /\ incoming.kind # "http" /\ heading = "down"
    BY <1>1, Places DEF Option
  <2>2. incoming.kind # "post"
    BY <1>0, <2>1 DEF Where
  <2>. QED
    BY <1>0, <2>1, <2>2 DEF IsRPC, Kind
<1>9. (tracer = "flushed" => \A s \in {"http", "rpc"} : span[s].state # "ended")'
  BY DEF Spans, Spanning
<1>10. (span["http"].name = "route" => Latest.pattern)'
  <2>. SUFFICES ASSUME span'["http"].name = "route" PROVE Latest.pattern
    BY DEF Copying
  <2>1. CASE Naming
    <3>1. place \in 1..M /\ Path[place] = "routeName" /\ place <= Depth
      BY <2>1 DEF Naming, Ascends
    <3>2. held["routeName"] = Len(objs)
      BY <3>1 DEF Routing, ReadsRoute
    <3>. QED
      BY <2>1, <3>2 DEF Naming, Latest
  <2>2. CASE ~Naming
    BY <2>2 DEF Spanning, Spans
  <2>. QED
    BY <2>1, <2>2
<1>11. (Latest.pattern /\ span["http"].state # "none" =>
          \A i \in 1..N : Path[i] = "routeName" /\ i > Depth => span["http"].name = "route")'
  <2>. SUFFICES ASSUME Latest'.pattern, span'["http"].state # "none",
                       NEW i \in 1..N, Path[i] = "routeName", i > Depth'
                PROVE  span'["http"].name = "route"
    BY <1>0
  <2>1. Latest.pattern
    <3>1. ~(Descends /\ Path[place] = "mux")
      <4>. SUFFICES ASSUME Descends, Path[place] = "mux" PROVE FALSE
        OBVIOUS
      <4>1. place = N + 1 /\ Depth' = place
        BY <1>1, Places
      <4>. QED
        BY <1>0, <4>1
    <3>. QED
      BY <3>1 DEF Copying
  <2>2. ~Opening
    <3>. SUFFICES ASSUME Opening PROVE FALSE
      OBVIOUS
    <3>1. heading = "down" /\ place \in 1..M /\ Path[place] = "trace"
      BY <1>1 DEF Opening
    <3>2. place \in 1..N
      BY <3>1, Places DEF Layer
    <3>. QED
      BY <1>0, <2>1, <3>1, <3>2 DEF Routing, OnTheWayDown
  <2>3. Had
    BY <2>2 DEF Spanning
  <2>4. CASE i > Depth
    <3>1. span["http"].name = "route"
      BY <2>1, <2>3, <2>4 DEF Spans, Had
    <3>. QED
      BY <3>1 DEF Spanning
  <2>5. CASE i <= Depth
    <3>1. i \in 1..M
      BY <1>0
    <3>2. Ascends /\ i = place
      BY <1>0, <1>1, <1>3, <2>5, <3>1
    <3>3. held["routeName"] = Len(objs) /\ Latest.span
      BY <2>3, <2>5, <3>1 DEF Routing, ReadsRoute, Had
    <3>4. Naming
      BY <2>1, <3>2, <3>3 DEF Naming, Latest
    <3>. QED
      BY <3>4 DEF Spanning
  <2>. QED
    BY <1>0, <1>1, <2>4, <2>5
<1>. QED
  BY <1>4, <1>5, <1>6, <1>7, <1>8, <1>9, <1>10, <1>11 DEF Spans

-----------------------------------------------------------------------------
(* The access line.                                                         *)

LineType == [written : BOOLEAN, route : BOOLEAN, status : StatusCode, error : BOOLEAN,
             traced : BOOLEAN, rpcCode : Code]

Noting == Ascends /\ Path[place] = "logging" /\ heading = "up" /\ ~incoming.probe

Lining ==
    /\ accessLine' \in LineType
    /\ ~Noting => accessLine' = accessLine
    /\ Noting =>
        /\ accessLine'.written
        /\ accessLine'.route = objs[held["logging"]].pattern
        /\ accessLine'.status = rec["logging"].status
        /\ accessLine'.status >= 500 => accessLine'.error
        /\ accessLine'.traced <=> wiring.ids /\ objs[held["logging"]].span

\* Every step treats the access line in one of these ways.
LEMMA Logs ==
    ASSUME WiringsWellFormed, InOrder, TelemetryTypes, Where, Shape, TelemetryNext
    PROVE  Lining
<1>0. Same /\ Motion
  BY Moving
<1>1. accessLine \in LineType /\ rec["logging"].status \in StatusCode
  BY DEF TelemetryTypes, LineType, Recorders
<1>2. CASE UpLogging
  <2>1. /\ Back("logging") /\ Unwind
        /\ accessLine' = IF heading = "up" /\ ~incoming.probe
               THEN [written |-> TRUE, route |-> RouteFor("logging"),
                     status |-> rec["logging"].status,
                     error |-> rec["logging"].status >= 500 \/ RpcCode # "none",
                     traced |-> wiring.ids /\ objs[held["logging"]].span,
                     rpcCode |-> RpcCode]
               ELSE accessLine
    BY <1>2 DEF UpLogging
  <2>2. Ascends /\ Path[place] = "logging"
    BY <1>0, <2>1, Backs
  <2>3. CASE ~(heading = "up" /\ ~incoming.probe)
    BY <1>1, <2>1, <2>3 DEF Lining, Noting
  <2>4. CASE heading = "up" /\ ~incoming.probe
    <3>. DEFINE e == rec["logging"].status >= 500 \/ RpcCode # "none"
                t == wiring.ids /\ objs[held["logging"]].span
                p == RouteFor("logging")
                s == rec["logging"].status
                c == RpcCode
    <3>1. accessLine' = [written |-> TRUE, route |-> p, status |-> s, error |-> e, traced |-> t, rpcCode |-> c]
      BY <2>1, <2>4
    <3>2. p \in BOOLEAN
      <4>1. held["logging"] \in DOMAIN objs /\ objs \in Seq(Object)
        BY DEF TelemetryTypes, Layer
      <4>2. objs[held["logging"]] \in Object
        BY <4>1
      <4>. QED
        BY <4>2 DEF Object, RouteFor
    <3>3. c \in Code
      BY DEF RpcCode, TelemetryTypes, Code
    <3>4. e \in BOOLEAN /\ t \in BOOLEAN
      OBVIOUS
    <3>5. (s >= 500 => e) /\ p = objs[held["logging"]].pattern
      BY DEF RouteFor
    <3>6. (t <=> wiring.ids /\ objs[held["logging"]].span) /\ s = rec["logging"].status
      OBVIOUS
    <3>. HIDE DEF e, t, p, s, c
    <3>7. accessLine' \in LineType
      BY <1>1, <3>1, <3>2, <3>3, <3>4, <3>6 DEF LineType
    <3>8. accessLine'.written /\ accessLine'.route = p /\ accessLine'.status = s /\ accessLine'.error = e /\ accessLine'.traced = t
      BY <3>1
    <3>. QED
      BY <2>2, <2>4, <3>5, <3>6, <3>7, <3>8 DEF Lining, Noting
  <2>. QED
    BY <2>3, <2>4
<1>3. CASE ~UpLogging
  <2>1. accessLine' = accessLine
    BY <1>3 DEF TelemetryNext, Enter, Leave, TracerStarts, NoTracer, TracerStops, DownTrace, DownLogging,
       DownRecovery, DownRouteName, DownMetrics, DownAuthenticate, DownMux, DownConnect,
       DownOption, Handles, HandlerReturns, HandlerPanics, UpRpcTrace, UpRpcMetrics, UpSanitise,
       UpRecover, UpRequireHeader, UpConnect, UpSilently, UpMetrics, UpRouteName,
       UpRecovery, UpTrace, Conclude, TelemetryOver, telemetryVars, toldVars
  <2>2. ~Noting
    <3>. SUFFICES ASSUME Noting PROVE FALSE
      OBVIOUS
    <3>1. place \in 1..M /\ heading = "up" /\ Path[place] = "logging" /\ \A l : Back(l) => l = "logging"
      BY DEF Noting, Ascends, Shape
    <3>2. place' = place - 1
      BY DEF Noting, Ascends
    <3>3. CASE TracerStarts \/ NoTracer \/ TracerStops \/ Enter \/ Handles \/ HandlerReturns \/ HandlerPanics \/ Conclude \/ TelemetryOver
      <4>1. heading # "up" \/ place = 0
        BY <3>3 DEF TracerStarts, NoTracer, TracerStops, Enter, DownTrace, DownLogging,
           DownRecovery, DownRouteName, DownMetrics, DownAuthenticate, DownMux, DownConnect,
           DownOption, Handles, HandlerReturns, HandlerPanics, AtHandler, Conclude, TelemetryOver, Here
      <4>. QED
        BY <3>1, <4>1 DEF Shape
    <3>4. CASE Leave
      <4>1. \E l : l # "logging" /\ Back(l)
        BY <1>3, <3>4 DEF Leave, UpRpcTrace, UpRpcMetrics, UpSanitise,
           UpRecover, UpRequireHeader, UpConnect, UpSilently, UpMetrics, UpRouteName,
           UpRecovery, UpTrace
      <4>. QED
        BY <3>1, <4>1
    <3>. QED
      BY <3>3, <3>4 DEF TelemetryNext
  <2>. QED
    BY <1>1, <2>1, <2>2 DEF Lining
<1>. QED
  BY <1>2, <1>3

\* What net/http sends, and when.
Sending ==
    \/ wire' = wire
    \/ Turns
    \/ Stays /\ heading = "down"
    \/ Ascends /\ Path[place] = "connect" /\ (wire # 0 => wire' = wire)
    \/ Ascends /\ Path[place] = "recovery" /\ heading = "panic" /\ wire = 0 /\ wire' = 500
    \/ Ends /\ heading = "up" /\ wire = 0 /\ wire' = 200

\* Whatever a step writes, what has been sent stays sent.
LEMMA SendStep ==
    ASSUME Silent \/ Switches \/ Answers \/ Sends
    PROVE  Sending
  BY DEF Silent, Switches, Answers, Sends, Sending, Wrote

\* Who has returned has been answered, and so has whose panic was caught.
Exact ==
    /\ Ends => wire' = IF heading = "up" /\ wire = 0 THEN 200 ELSE wire
    /\ Ascends /\ Path[place] = "recovery" /\ heading = "panic" => wire' # 0

\* What net/http has sent at each kind of step, exactly.
LEMMA ExactStep ==
    ASSUME WiringsWellFormed, InOrder, TelemetryTypes, Where, Shape, Seen, TelemetryNext
    PROVE  Exact
<1>1. ASSUME Ends PROVE wire' = IF heading = "up" /\ wire = 0 THEN 200 ELSE wire
  <2>1. OnTheWayUp /\ heading' = "done" /\ place = 0
    BY <1>1 DEF Ends
  <2>2. Conclude
    BY <2>1 DEF TelemetryNext, Enter, Leave, TracerStarts, NoTracer, TracerStops, DownTrace, DownLogging,
       DownRecovery, DownRouteName, DownMetrics, DownAuthenticate, DownMux, DownConnect,
       DownOption, Handles, HandlerReturns, HandlerPanics, AtHandler, UpRpcTrace, UpRpcMetrics, UpSanitise,
       UpRecover, UpRequireHeader, UpConnect, UpSilently, UpMetrics, UpRouteName,
       UpRecovery, UpLogging, UpTrace, TelemetryOver, OnTheWayUp, Unwind, Catch, Here
  <2>. QED
    BY <2>2 DEF Conclude
<1>2. ASSUME Ascends, Path[place] = "recovery", heading = "panic" PROVE wire' # 0
  <2>1. heading' = "up" /\ place \in 1..M /\ place' = place - 1 /\ Depth = place /\ \A l : Back(l) => l = "recovery"
    BY <1>2 DEF Ascends, Shape
  <2>2. UpRecovery
    <3>1. ~Enter /\ ~(TracerStarts \/ NoTracer \/ TracerStops \/ Handles \/ HandlerReturns \/ HandlerPanics \/ TelemetryOver)
      BY <1>2 DEF Enter, TracerStarts, NoTracer, TracerStops, DownTrace, DownLogging,
       DownRecovery, DownRouteName, DownMetrics, DownAuthenticate, DownMux, DownConnect,
       DownOption, Handles, HandlerReturns, HandlerPanics, AtHandler, TelemetryOver, Here
    <3>2. ~Conclude
      BY <2>1 DEF Conclude
    <3>3. Leave
      BY <3>1, <3>2 DEF TelemetryNext
    <3>. QED
      BY <2>1, <3>3 DEF Leave, UpRpcTrace, UpRpcMetrics, UpSanitise, UpRecover,
         UpRequireHeader, UpConnect, UpSilently, UpMetrics, UpRouteName, UpLogging,
         UpTrace
  <2>3. HasWritten <=> wire # 0
    BY <1>2, <2>1, BegunIs
  <2>4. CASE HasWritten
    BY <1>2, <2>2, <2>3, <2>4 DEF UpRecovery, sentVars
  <2>5. CASE ~HasWritten
    <3>1. RecordHeader(500, place + 1)
      BY <1>2, <2>2, <2>5 DEF UpRecovery
    <3>2. AllAgreed(place + 1) /\ place + 1 \in Nat
      BY <2>1, AgreedUpTo DEF Shape
    <3>. QED
      BY <2>3, <2>5, <3>1, <3>2, HeaderWrites DEF StatusCode
  <2>. QED
    BY <2>4, <2>5
<1>. QED
  BY <1>1, <1>2 DEF Exact

\* Lines is kept: the line is written when nothing more can be sent.
LEMMA LinesKept ==
    ASSUME WiringsWellFormed, TelemetryTypes, Where, Shape, Seen, Routing, Lines, Same, Motion, Copying, Lining, Sending
    PROVE  Lines'
<1>0. /\ N \in Nat /\ M \in Nat /\ M >= N + 1 /\ place \in 0..M + 1
      /\ Path' = Path /\ N' = N /\ M' = M /\ incoming' = incoming /\ wiring' = wiring
  BY DepthIs DEF TelemetryTypes, Shape, Same
<1>1. /\ Depth' \in 0..M /\ Depth \in 0..M
      /\ \A i \in 1..M : i <= Depth' => i <= Depth \/ (i = place /\ (Descends \/ Turns))
      /\ Descends \/ Turns => heading = "down" /\ place \in 1..M /\ Depth = place - 1 /\ Depth' = place
  BY StackGrows
<1>2. Lists("logging")' <=> Lists("logging")
  BY <1>0 DEF Lists
<1>3. Latest \in Object /\ Latest' \in Object
  BY DEF TelemetryTypes, Copying, Latest
<1>. SUFFICES ASSUME accessLine'.written PROVE
        /\ heading' \in {"up", "done"} /\ ~Deeper("logging")' /\ Lists("logging")
        /\ ~incoming.probe /\ tracer' # "failed"
        /\ accessLine'.route = Latest'.pattern
        /\ accessLine'.status = SentStatus' /\ (accessLine'.status >= 500 => accessLine'.error)
        /\ accessLine'.traced <=> wiring.ids /\ Latest'.span
  <2>1. (accessLine.traced => accessLine.written)'
    BY DEF Lines, Lining
  <2>. QED
    BY <1>0, <1>2, <2>1 DEF Lines
<1>4. CASE Noting
  <2>1. Ascends /\ Path[place] = "logging" /\ heading = "up" /\ ~incoming.probe
        /\ place \in 1..M /\ place' = place - 1 /\ Depth = place /\ Depth' = place - 1
        /\ heading' = "up" /\ tracer' = tracer
    BY <1>4 DEF Noting, Ascends
  <2>2. ~Deeper("logging")' /\ Lists("logging") /\ tracer' # "failed"
    <3>1. \A i \in 1..M : Path[i] = "logging" => i = place
      BY <2>1 DEF Shape
    <3>2. ~Deeper("logging")'
      BY <1>0, <2>1, <3>1 DEF Deeper
    <3>3. place \in 1..N
      BY <2>1, Places DEF Layer
    <3>. QED
      BY <2>1, <3>2, <3>3 DEF Shape, Where, OnTheWayUp
  <2>3. objs[held["logging"]] = Latest
    BY <2>1 DEF Routing, ReadsRoute, Latest
  <2>4. Latest'.pattern = Latest.pattern /\ Latest'.span = Latest.span
    <3>1. ~Descends
      BY <2>1 DEF Descends
    <3>2. (Latest'.pattern <=> Latest.pattern) /\ (Latest'.span <=> Latest.span)
      BY <3>1 DEF Copying, Opening
    <3>. QED
      BY <1>3, <3>2 DEF Object
  <2>5. rec["logging"].status = SentStatus
    <3>1. Deeper("logging")
      BY <2>1 DEF Deeper
    <3>2. rec["logging"].on
      BY <2>1, <3>1 DEF Seen
    <3>. QED
      BY <3>1, <3>2 DEF Seen, Recorders, SentStatus
  <2>6. wire' = wire
    BY <2>1 DEF Sending, Turns, Stays, Ends
  <2>7. SentStatus' = SentStatus
    BY <2>6 DEF SentStatus
  <2>. QED
    BY <1>4, <2>1, <2>2, <2>3, <2>4, <2>5, <2>7 DEF Lining
<1>5. CASE ~Noting
  <2>1. accessLine' = accessLine
    BY <1>5 DEF Lining
  <2>2. /\ heading \in {"up", "done"} /\ ~Deeper("logging") /\ Lists("logging")
        /\ ~incoming.probe /\ tracer # "failed"
        /\ accessLine.route = Latest.pattern
        /\ accessLine.status = SentStatus /\ (accessLine.status >= 500 => accessLine.error)
        /\ accessLine.traced <=> wiring.ids /\ Latest.span
    BY <2>1 DEF Lines
  <2>3. Ascends \/ Ends \/ Stays
    BY <2>2 DEF Motion, Begins, Descends, Turns, Bottoms
  <2>4. ~Descends /\ ~Turns /\ heading' \in {"up", "done"} /\ tracer' # "failed"
    BY <2>2, <2>3 DEF Descends, Turns, Ascends, Ends, Stays
  <2>5. ~Deeper("logging")'
    BY <1>0, <1>1, <2>2, <2>4 DEF Deeper
  <2>6. Latest'.pattern = Latest.pattern /\ Latest'.span = Latest.span
    <3>1. (Latest'.pattern <=> Latest.pattern) /\ (Latest'.span <=> Latest.span)
      BY <2>4 DEF Copying, Opening
    <3>. QED
      BY <1>3, <3>1 DEF Object
  <2>7. ~(Ascends /\ Path[place] = "connect")
    <3>. SUFFICES ASSUME Ascends, Path[place] = "connect" PROVE FALSE
      OBVIOUS
    <3>1. place = N + 2 /\ Depth = place
      BY Places DEF Ascends
    <3>2. \E i \in 1..N : Path[i] = "logging"
      BY <2>2 DEF Shape
    <3>. QED
      BY <1>0, <2>2, <3>1, <3>2 DEF Deeper
  <2>8. wire' = wire \/ (wire = 0 /\ wire' = 200)
    BY <2>2, <2>4, <2>7 DEF Sending
  <2>9. SentStatus' = SentStatus
    BY <2>8 DEF SentStatus
  <2>. QED
    BY <2>1, <2>2, <2>4, <2>5, <2>6, <2>9
<1>. QED
  BY <1>4, <1>5

-----------------------------------------------------------------------------
(* The counters.                                                            *)

Adding == Ascends /\ Path[place] = "metrics" /\ heading # "abort"
AddingRpc == Ascends /\ Path[place] = "rpcMetrics" /\ heading # "abort"

Counting ==
    /\ DOMAIN count' = {"http", "rpc"}
    /\ ~Adding => count'["http"] = count["http"]
    /\ Adding => count'["http"] = [n |-> count["http"].n + 1,
                                   route |-> objs[held["metrics"]].pattern, label |-> Label]
    /\ ~AddingRpc => count'["rpc"] = count["rpc"]
    /\ AddingRpc => count'["rpc"] = [n |-> count["rpc"].n + 1, route |-> count["rpc"].route,
                                     label |-> IF heading = "panic" THEN "internal" ELSE err.code]

\* Every step treats the counters in one of these ways.
LEMMA Counts ==
    ASSUME WiringsWellFormed, InOrder, TelemetryTypes, Where, Shape, TelemetryNext
    PROVE  Counting
<1>0. Same /\ Motion
  BY Moving
<1>1. DOMAIN count = {"http", "rpc"}
  BY DEF TelemetryTypes
<1>2. CASE UpMetrics
  <2>1. /\ Back("metrics") /\ Unwind
        /\ count' = IF heading = "abort" THEN count
                ELSE [count EXCEPT !["http"] =
                        [n |-> @.n + 1, route |-> RouteFor("metrics"), label |-> Label]]
    BY <1>2 DEF UpMetrics
  <2>2. Ascends /\ Path[place] = "metrics" /\ ~AddingRpc
    BY <1>0, <2>1, Backs DEF AddingRpc
  <2>. DEFINE new == [n |-> count["http"].n + 1, route |-> objs[held["metrics"]].pattern, label |-> Label]
  <2>3. count' = IF heading = "abort" THEN count ELSE [count EXCEPT !["http"] = new]
    BY <2>1 DEF RouteFor
  <2>. HIDE DEF new
  <2>4. /\ DOMAIN count' = {"http", "rpc"} /\ count'["rpc"] = count["rpc"]
        /\ ~Adding => count'["http"] = count["http"]
        /\ Adding => count'["http"] = new
    BY <1>1, <2>2, <2>3 DEF Adding
  <2>. QED
    BY <2>2, <2>4 DEF Counting, new
<1>3. CASE UpRpcMetrics
  <2>1. /\ Back("rpcMetrics") /\ Unwind
        /\ count' = IF heading = "abort" THEN count
                ELSE [count EXCEPT !["rpc"].n = @ + 1,
                                   !["rpc"].label = IF heading = "panic" THEN "internal" ELSE err.code]
    BY <1>3 DEF UpRpcMetrics
  <2>2. Ascends /\ Path[place] = "rpcMetrics" /\ ~Adding
    BY <1>0, <2>1, Backs DEF Adding
  <2>. DEFINE label == IF heading = "panic" THEN "internal" ELSE err.code
  <2>3. count["rpc"] = [n |-> count["rpc"].n, route |-> count["rpc"].route, label |-> count["rpc"].label]
    BY DEF TelemetryTypes
  <2>4. CASE heading = "abort"
    BY <1>1, <2>1, <2>2, <2>4 DEF Counting, AddingRpc
  <2>5. CASE heading # "abort"
    <3>1. count' = [count EXCEPT !["rpc"].n = @ + 1, !["rpc"].label = label]
      BY <2>1, <2>5
    <3>. HIDE DEF label
    <3>2. /\ DOMAIN count' = {"http", "rpc"} /\ count'["http"] = count["http"]
          /\ count'["rpc"] = [[count["rpc"] EXCEPT !.n = @ + 1] EXCEPT !.label = label]
      BY <1>1, <3>1
    <3>3. count'["rpc"] = [n |-> count["rpc"].n + 1, route |-> count["rpc"].route, label |-> label]
      BY <2>3, <3>2
    <3>. QED
      BY <2>2, <2>5, <3>2, <3>3 DEF Counting, AddingRpc, label
  <2>. QED
    BY <2>4, <2>5
<1>4. CASE ~UpMetrics /\ ~UpRpcMetrics
  <2>1. count' = count
    BY <1>4 DEF TelemetryNext, Enter, Leave, TracerStarts, NoTracer, TracerStops, DownTrace, DownLogging,
       DownRecovery, DownRouteName, DownMetrics, DownAuthenticate, DownMux, DownConnect,
       DownOption, Handles, HandlerReturns, HandlerPanics, UpRpcTrace, UpSanitise, UpLogging,
       UpRecover, UpRequireHeader, UpConnect, UpSilently, UpRouteName,
       UpRecovery, UpTrace, Conclude, TelemetryOver, telemetryVars, toldVars
  <2>2. ~Adding /\ ~AddingRpc
    <3>. SUFFICES ASSUME Ascends, Path[place] \in {"metrics", "rpcMetrics"} PROVE FALSE
      BY DEF Adding, AddingRpc
    <3>1. place \in 1..M /\ OnTheWayUp /\ \A l : Back(l) => l = Path[place]
      BY DEF Ascends, Shape
    <3>2. place' = place - 1
      BY DEF Ascends
    <3>3. CASE TracerStarts \/ NoTracer \/ TracerStops \/ Enter \/ Handles \/ HandlerReturns \/ HandlerPanics \/ Conclude \/ TelemetryOver
      <4>1. ~OnTheWayUp \/ place = 0
        BY <3>3 DEF TracerStarts, NoTracer, TracerStops, Enter, DownTrace, DownLogging, OnTheWayUp,
           DownRecovery, DownRouteName, DownMetrics, DownAuthenticate, DownMux, DownConnect,
           DownOption, Handles, HandlerReturns, HandlerPanics, AtHandler, Conclude, TelemetryOver, Here
      <4>. QED
        BY <3>1, <4>1 DEF Shape
    <3>4. CASE Leave
      <4>1. \E l : l \notin {"metrics", "rpcMetrics"} /\ Back(l)
        BY <1>4, <3>4 DEF Leave, UpRpcTrace, UpSanitise, UpLogging,
           UpRecover, UpRequireHeader, UpConnect, UpSilently, UpRouteName,
           UpRecovery, UpTrace
      <4>. QED
        BY <3>1, <4>1
    <3>. QED
      BY <3>3, <3>4 DEF TelemetryNext
  <2>. QED
    BY <1>1, <2>1, <2>2 DEF Counting
<1>. QED
  BY <1>2, <1>3, <1>4

\* Counted is kept: a panic is counted as what Recovery will make of it.
LEMMA CountedKept ==
    ASSUME WiringsWellFormed, TelemetryTypes, Where, Shape, Seen, Routing, Lines, Counted,
           Same, Motion, Copying, Lining, Counting, Sending, Exact, Lines'
    PROVE  Counted'
<1>. DEFINE n == count["http"].n
<1>0. /\ N \in Nat /\ M \in Nat /\ M >= N + 1 /\ place \in 0..M + 1
      /\ Path' = Path /\ N' = N /\ M' = M /\ incoming' = incoming /\ wiring' = wiring
      /\ n \in Nat
  <2>1. n \in Nat
    BY DEF TelemetryTypes
  <2>. QED
    BY <2>1, DepthIs DEF TelemetryTypes, Shape, Same
<1>1. /\ Depth' \in 0..M /\ Depth \in 0..M
      /\ \A i \in 1..M : i <= Depth' => i <= Depth \/ (i = place /\ (Descends \/ Turns))
      /\ Descends \/ Turns => heading = "down" /\ place \in 1..M /\ Depth = place - 1 /\ Depth' = place
  BY StackGrows
<1>2. \A l : Lists(l)' <=> Lists(l)
  BY <1>0 DEF Lists
<1>3. Latest \in Object /\ Latest' \in Object
  BY DEF TelemetryTypes, Copying, Latest
<1>4. /\ Adding => n' = n + 1
      /\ ~Adding => count'["http"] = count["http"] /\ n' = n
  BY DEF Counting
<1>5. (count["http"].n > 0 =>
        /\ heading \in {"up", "panic", "done"} /\ ~Deeper("metrics") /\ Lists("metrics")
        /\ count["http"].route = Latest.pattern
        /\ heading = "up" => count["http"].label = SentStatus
        /\ heading = "panic" => count["http"].label = IF wire = 0 THEN 500 ELSE wire
        /\ heading = "done" /\ Lists("recovery") => count["http"].label = wire)'
  <2>. SUFFICES ASSUME n' > 0
                PROVE  /\ heading' \in {"up", "panic", "done"} /\ ~Deeper("metrics")' /\ Lists("metrics")
                       /\ count'["http"].route = Latest'.pattern
                       /\ heading' = "up" => count'["http"].label = IF wire' = 0 THEN 200 ELSE wire'
                       /\ heading' = "panic" => count'["http"].label = IF wire' = 0 THEN 500 ELSE wire'
                       /\ heading' = "done" /\ Lists("recovery") => count'["http"].label = wire'
    BY <1>2 DEF SentStatus
  <2>1. CASE Adding
    <3>1. /\ Ascends /\ Path[place] = "metrics" /\ place \in 1..M /\ Depth = place /\ Depth' = place - 1
          /\ heading \in {"up", "panic"} /\ heading' = heading
      BY <2>1 DEF Adding, Ascends, OnTheWayUp
    <3>2. ~Deeper("metrics")' /\ Lists("metrics")
      <4>1. \A i \in 1..M : Path[i] = "metrics" => i = place
        BY <3>1 DEF Shape
      <4>2. ~Deeper("metrics")'
        BY <1>0, <3>1, <4>1 DEF Deeper
      <4>3. place \in 1..N
        BY <3>1, Places DEF Layer
      <4>. QED
        BY <3>1, <4>2, <4>3 DEF Shape
    <3>3. count'["http"].route = Latest'.pattern
      <4>1. held["metrics"] = Len(objs)
        BY <3>1 DEF Routing, ReadsRoute
      <4>2. count'["http"].route = Latest.pattern
        BY <2>1, <4>1 DEF Counting, Latest
      <4>3. Latest'.pattern <=> Latest.pattern
        BY <3>1 DEF Copying, Descends, OnTheWayUp
      <4>. QED
        BY <1>3, <4>2, <4>3 DEF Object
    <3>4. rec["metrics"].on /\ Deeper("metrics")
      BY <3>1 DEF Seen, Deeper
    <3>5. (rec["metrics"].wrote <=> wire # 0) /\ rec["metrics"].status = IF wire = 0 THEN 200 ELSE wire
      BY <3>4 DEF Seen, Recorders
    <3>6. count'["http"].label = Label
      BY <2>1 DEF Counting
    <3>7. wire' = wire
      BY <3>1 DEF Sending, Turns, Stays, Ends
    <3>. QED
      BY <3>1, <3>2, <3>3, <3>5, <3>6, <3>7 DEF Label, StatusSeen
  <2>2. CASE ~Adding
    <3>1. /\ heading \in {"up", "panic", "done"} /\ ~Deeper("metrics") /\ Lists("metrics")
          /\ count'["http"].route = Latest.pattern
          /\ heading = "up" => count'["http"].label = SentStatus
          /\ heading = "panic" => count'["http"].label = IF wire = 0 THEN 500 ELSE wire
          /\ heading = "done" /\ Lists("recovery") => count'["http"].label = wire
      BY <1>4, <2>2 DEF Counted
    <3>2. Ascends \/ Ends \/ Stays
      BY <3>1 DEF Motion, Begins, Descends, Turns, Bottoms
    <3>3. ~Descends /\ ~Turns /\ heading' \in {"up", "panic", "done"}
      BY <3>1, <3>2 DEF Descends, Turns, Ascends, Ends, Stays
    <3>4. ~Deeper("metrics")'
      BY <1>0, <1>1, <3>1, <3>3 DEF Deeper
    <3>5. count'["http"].route = Latest'.pattern
      <4>1. Latest'.pattern <=> Latest.pattern
        BY <3>3 DEF Copying
      <4>. QED
        BY <1>3, <3>1, <4>1 DEF Object
    <3>6. PICK m \in 1..N : Path[m] = "metrics" /\ m > Depth
      <4>1. \E m \in 1..N : Path[m] = "metrics"
        BY <3>1 DEF Shape
      <4>. QED
        BY <1>0, <1>1, <3>1, <4>1 DEF Deeper
    <3>7. ~(Ascends /\ Path[place] \in {"connect", "recover"})
      <4>. SUFFICES ASSUME Ascends, Path[place] \in {"connect", "recover"} PROVE FALSE
        OBVIOUS
      <4>1. place >= N + 2 /\ Depth = place
        BY <1>0, Places DEF Ascends, Option
      <4>. QED
        BY <1>0, <3>6, <4>1
    <3>8. CASE Ascends /\ ~(heading = "panic" /\ Path[place] = "recovery")
      <4>1. wire' = wire /\ heading' = heading
        BY <3>1, <3>3, <3>7, <3>8 DEF Sending, Stays, Ascends, Ends
      <4>. QED
        BY <3>1, <3>4, <3>5, <3>8, <4>1 DEF SentStatus, Ascends, OnTheWayUp
    <3>9. CASE Ascends /\ heading = "panic" /\ Path[place] = "recovery"
      <4>1. heading' = "up" /\ wire' # 0 /\ (wire' = wire \/ (wire = 0 /\ wire' = 500))
        BY <3>1, <3>3, <3>7, <3>9 DEF Sending, Stays, Ascends, Exact, Ends
      <4>. QED
        BY <3>1, <3>4, <3>5, <3>9, <4>1
    <3>10. CASE Ends
      <4>1. heading = "panic" => ~Lists("recovery")
        <5>. SUFFICES ASSUME heading = "panic", Lists("recovery") PROVE FALSE
          OBVIOUS
        <5>1. PICK i \in 1..N : Path[i] = "recovery"
          BY DEF Shape
        <5>2. i <= Depth
          BY <1>0, <5>1 DEF Where
        <5>. QED
          BY <3>10, <5>2 DEF Ends
      <4>2. heading' = "done" /\ wire' = IF heading = "up" /\ wire = 0 THEN 200 ELSE wire
        BY <3>10 DEF Ends, Exact
      <4>3. heading \in {"up", "panic"}
        BY <3>1, <3>10 DEF Ends, OnTheWayUp
      <4>. QED
        BY <3>1, <3>4, <3>5, <4>1, <4>2, <4>3 DEF SentStatus
    <3>11. CASE Stays /\ ~Ascends /\ ~Ends
      <4>1. wire' = wire /\ heading' = heading
        BY <3>1, <3>3, <3>11 DEF Sending, Stays
      <4>. QED
        BY <3>1, <3>4, <3>5, <4>1 DEF SentStatus
    <3>. QED
      BY <3>2, <3>8, <3>9, <3>10, <3>11
  <2>. QED
    BY <2>1, <2>2
<1>6. (heading \in {"up", "panic"} /\ Deeper("logging") =>
        \A i \in 1..N : Path[i] = "metrics" /\ i > Depth => count["http"].n > 0)'
  <2>. SUFFICES ASSUME heading' \in {"up", "panic"}, NEW j \in 1..M, Path[j] = "logging", j <= Depth',
                       NEW i \in 1..N, Path[i] = "metrics", i > Depth'
                PROVE  n' > 0
    BY <1>0 DEF Deeper
  <2>1. j \in 1..N
    BY Places DEF Layer
  <2>2. CASE Turns
    <3>1. place = Depth' /\ Path[place] \in {"authenticate", "mux", "connect"} /\ place \in 1..M
      BY <2>2 DEF Turns
    <3>2. place \in 1..N
      BY <1>0, <3>1
    <3>3. Path[place] = "authenticate"
      BY <3>1, <3>2 DEF Shape, Layer
    <3>4. j # place
      BY <3>3
    <3>5. j < place
      BY <1>0, <3>1, <3>4
    <3>. QED
      BY <2>1, <3>2, <3>3, <3>5 DEF Shape, ReadsRoute, HandsOnItsOwn
  <2>3. CASE Bottoms
    BY <1>0, <2>3 DEF Bottoms
  <2>4. CASE Ascends \/ Stays
    <3>1. heading \in {"up", "panic"} /\ j <= Depth
      BY <1>0, <1>1, <2>4 DEF Ascends, Stays, OnTheWayUp
    <3>2. CASE i > Depth
      <4>1. n > 0
        BY <3>1, <3>2 DEF Counted, Deeper
      <4>. QED
        BY <1>0, <1>4, <4>1
    <3>3. CASE i <= Depth
      <4>1. Ascends /\ i = place
        BY <1>0, <1>1, <2>4, <3>3 DEF Ascends, Stays
      <4>. QED
        BY <1>0, <1>4, <3>1, <4>1 DEF Adding
    <3>. QED
      BY <1>0, <1>1, <3>2, <3>3
  <2>. QED
    BY <2>2, <2>3, <2>4 DEF Motion, Begins, Descends, Ends
<1>7. (Lists("recovery") /\ Lists("metrics") /\ ~incoming.probe =>
        \A i \in 1..N : Path[i] = "logging" /\ i > Depth => (count["http"].n > 0 <=> accessLine.written))'
  <2>. SUFFICES ASSUME Lists("recovery"), Lists("metrics"), ~incoming.probe,
                       NEW i \in 1..N, Path[i] = "logging", i > Depth'
                PROVE  n' > 0 <=> accessLine'.written
    BY <1>0, <1>2
  <2>1. i \in 1..M
    BY <1>0
  <2>2. \A j \in 1..M : Path[j] = "logging" => j = i
    BY <2>1 DEF Shape
  <2>3. CASE i > Depth
    <3>1. n > 0 <=> accessLine.written
      BY <2>3 DEF Counted
    <3>2. ~Noting
      BY <1>0, <2>2, <2>3 DEF Noting, Ascends
    <3>3. ~Adding
      <4>. SUFFICES ASSUME Adding PROVE FALSE
        OBVIOUS
      <4>1. place \in 1..N /\ place < i /\ Path[place] = "metrics"
        BY <1>0, <2>3 DEF Adding, Ascends
      <4>. QED
        BY <4>1 DEF Shape, ReadsRoute, HandsOnItsOwn
    <3>. QED
      BY <1>4, <3>1, <3>2, <3>3 DEF Lining
  <2>4. CASE i <= Depth
    <3>1. Ascends /\ i = place /\ Depth = place
      BY <1>0, <1>1, <2>4 DEF Motion, Begins, Descends, Turns, Bottoms, Ascends, Ends, Stays
    <3>2. Deeper("logging") /\ ~accessLine.written
      BY <2>1, <2>4 DEF Deeper, Lines
    <3>3. accessLine'.written <=> heading = "up"
      BY <3>1, <3>2 DEF Lining, Noting
    <3>4. ~Adding
      BY <3>1 DEF Adding
    <3>5. heading # "panic"
      <4>. SUFFICES ASSUME heading = "panic" PROVE FALSE
        OBVIOUS
      <4>1. PICK j \in 1..N : Path[j] = "recovery"
        BY DEF Shape
      <4>2. j <= Depth
        BY <1>0, <4>1 DEF Where
      <4>3. j < i
        BY <3>1, <4>1, <4>2
      <4>. QED
        BY <4>1, <4>3 DEF Shape
    <3>6. CASE heading = "up"
      <4>1. PICK k \in 1..N : Path[k] = "metrics"
        BY DEF Shape
      <4>2. k # i
        BY <4>1
      <4>3. ~(k < i)
        BY <4>1 DEF Shape, ReadsRoute, HandsOnItsOwn
      <4>4. k > Depth
        BY <3>1, <4>2, <4>3
      <4>5. n > 0
        BY <3>2, <3>6, <4>1, <4>4 DEF Counted
      <4>. QED
        BY <1>4, <3>3, <3>4, <3>6, <4>5
    <3>7. CASE heading = "abort"
      BY <1>4, <3>3, <3>4, <3>7 DEF Counted
    <3>. QED
      BY <3>1, <3>5, <3>6, <3>7 DEF Ascends, OnTheWayUp
  <2>. QED
    BY <1>0, <1>1, <2>3, <2>4
<1>8. (heading = "done" /\ Lists("recovery") /\ tracer # "failed" /\ accessLine.written => accessLine.status = wire)'
  <2>. SUFFICES ASSUME heading' = "done", Lists("recovery"), tracer' # "failed", accessLine'.written
                PROVE  accessLine'.status = wire'
    BY <1>2
  <2>1. accessLine'.status = IF wire' = 0 THEN 200 ELSE wire'
    BY DEF Lines, SentStatus
  <2>2. Ends \/ (Stays /\ heading = "done")
    BY DEF Motion, Begins, Descends, Turns, Bottoms, Ascends, Stays, OnTheWayUp
  <2>3. ~Noting /\ accessLine' = accessLine
    BY <2>2 DEF Noting, Ascends, Ends, Stays, OnTheWayUp, Lining
  <2>4. CASE Ends
    <3>1. heading = "up"
      BY <2>3, <2>4 DEF Lines, Ends, OnTheWayUp
    <3>. QED
      BY <2>1, <2>4, <3>1 DEF Exact
  <2>5. CASE Stays /\ heading = "done"
    <3>1. tracer # "failed"
      BY <2>5 DEF Stays
    <3>2. wire' = wire
      BY <2>5 DEF Sending, Turns, Ascends, Ends, OnTheWayUp
    <3>. QED
      BY <2>3, <2>5, <3>1, <3>2 DEF Counted
  <2>. QED
    BY <2>2, <2>4, <2>5
<1>. QED
  BY <1>5, <1>6, <1>7, <1>8 DEF Counted

-----------------------------------------------------------------------------
(* The error of an RPC, and who is told of it.                              *)

ErrType == [is : {"nil", "connect", "bare"}, code : Code]
AnswerType == [code : Code, text : {"none", "chosen", "verbatim"}]

Refusing == Turns /\ Path[place] = "connect"
Returning == Bottoms /\ heading' = "up"
Cleaning == Ascends /\ Path[place] = "sanitise" /\ heading = "up" /\ err # Nil
Catching == Ascends /\ Path[place] = "recover" /\ heading = "panic"
Reporting == Ascends /\ Path[place] = "connect" /\ heading = "up"

Telling ==
    /\ err' \in ErrType /\ rpcLine' \in {"none", "request", "fallback"} /\ answer' \in AnswerType
    /\ Refusing => err' = [is |-> "connect", code |-> "invalid_argument"]
    /\ Returning => \/ err' = Nil
                    \/ incoming.kind # "http" /\ err'.is # "nil"
    /\ Cleaning => err' = [is |-> "connect", code |-> err.code]
    /\ Catching => err' = [is |-> "connect", code |-> "internal"]
    /\ ~(Refusing \/ Returning \/ Cleaning \/ Catching) => err' = err
    /\ rpcLine' = IF Cleaning \/ Catching THEN LogFrom ELSE rpcLine
    /\ answer' = IF Reporting
                 THEN [code |-> err.code, text |-> IF err.is = "bare" THEN "verbatim" ELSE "chosen"]
                 ELSE answer

\* Every step treats an RPC's error and answer in one of these ways.
LEMMA Tells ==
    ASSUME WiringsWellFormed, InOrder, TelemetryTypes, Where, Shape, TelemetryNext
    PROVE  Telling
<1>. DEFINE Special == Refusing \/ Returning \/ Cleaning \/ Catching \/ Reporting
<1>0. Same /\ Motion
  BY Moving
<1>1. /\ err \in ErrType /\ rpcLine \in {"none", "request", "fallback"} /\ answer \in AnswerType
      /\ LogFrom \in {"request", "fallback"}
  BY DEF TelemetryTypes, ErrType, AnswerType, LogFrom
<1>2. ASSUME UNCHANGED rpcVars, ~Special PROVE Telling
  <2>1. err' = err /\ rpcLine' = rpcLine /\ answer' = answer
    BY <1>2 DEF rpcVars
  <2>. QED
    BY <1>1, <1>2, <2>1 DEF Telling
\* Who has the request, and so which of these a step can be.
<1>3. /\ Refusing => Here("connect")
      /\ Returning => AtHandler /\ heading' = "up"
      /\ Cleaning => Back("sanitise") /\ heading = "up"
      /\ Catching => Back("recover") /\ heading = "panic"
      /\ Reporting => Back("connect") /\ heading = "up"
  BY DEF Refusing, Returning, Cleaning, Catching, Reporting, Turns, Bottoms, Ascends, AtHandler, M, Shape
<1>4. /\ \A k, l : Here(k) /\ Here(l) => k = l
      /\ \A k, l : Back(k) /\ Back(l) => k = l
      /\ \A k, l : ~(Here(k) /\ Back(l))
      /\ \A l : ~(Here(l) /\ AtHandler) /\ ~(Back(l) /\ AtHandler)
  <2>1. \A l : Here(l) => heading = "down" /\ place \in 1..M /\ Path[place] = l
    BY DEF Shape
  <2>2. \A l : Back(l) => heading # "down" /\ place \in 1..M /\ Path[place] = l
    BY DEF Shape, OnTheWayUp
  <2>3. AtHandler => heading = "down" /\ place \notin 1..M
    <3>1. M \in Nat
      BY DEF Shape
    <3>2. AtHandler => heading = "down" /\ place = M + 1
      BY DEF AtHandler, M
    <3>. QED
      BY <3>1, <3>2
  <2>4. \A k, l : Here(k) /\ Here(l) => k = l
    BY <2>1
  <2>5. \A k, l : Back(k) /\ Back(l) => k = l
    BY <2>2
  <2>. QED
    BY <2>1, <2>2, <2>3, <2>4, <2>5
<1>5. CASE DownConnect
  <2>1. Here("connect") /\ (Pass \/ Answer) /\ rpcLine' = rpcLine /\ answer' = answer
    BY <1>5 DEF DownConnect
  <2>2. (Pass <=> Descends) /\ Path[place] = "connect" /\ heading = "down" /\ place \in 1..M
    BY <1>0, <2>1, Enters DEF GoingIn
  <2>3. ~Returning /\ ~Cleaning /\ ~Catching /\ ~Reporting
    BY <1>3, <1>4, <2>1
  <2>4. \/ Pass /\ err' = err
        \/ Answer /\ err' = [is |-> "connect", code |-> "invalid_argument"]
    BY <1>5 DEF DownConnect
  <2>5. CASE Pass /\ err' = err
    <3>1. ~Refusing
      BY <2>2, <2>5 DEF Refusing, Turns, Descends
    <3>. QED
      BY <1>1, <2>1, <2>3, <2>5, <3>1 DEF Telling
  <2>6. CASE Answer /\ err' = [is |-> "connect", code |-> "invalid_argument"]
    <3>1. ~Pass
      BY <2>2, <2>6 DEF Answer, Pass
    <3>2. Refusing
      <4>1. heading' = "up" /\ place' = place /\ place # M + 1
        BY <2>2, <2>6 DEF Answer, Shape
      <4>. QED
        BY <1>0, <2>2, <4>1 DEF Refusing, Motion, Begins, Descends, Turns, Bottoms, Ascends, Ends, Stays, OnTheWayUp
    <3>3. err' \in ErrType
      BY <2>6 DEF ErrType, Code
    <3>. QED
      BY <1>1, <2>1, <2>3, <2>6, <3>2, <3>3 DEF Telling
  <2>. QED
    BY <2>4, <2>5, <2>6
<1>6. CASE HandlerReturns
  <2>1. /\ AtHandler /\ heading' = "up" /\ rpcLine' = rpcLine /\ answer' = answer
        /\ err' \in IF incoming.kind = "http" THEN {Nil}
                ELSE {Nil, [is |-> "connect", code |-> "not_found"], [is |-> "bare", code |-> "unknown"]}
    BY <1>6 DEF HandlerReturns, Leaves
  <2>2. ~Refusing /\ ~Cleaning /\ ~Catching /\ ~Reporting
    BY <1>3, <1>4, <2>1
  <2>3. err' \in ErrType /\ (err' = Nil \/ (incoming.kind # "http" /\ err'.is # "nil"))
    BY <2>1 DEF ErrType, Code, Nil
  <2>4. Returning
    <3>1. heading = "down" /\ place = M + 1
      BY <2>1 DEF AtHandler, M
    <3>. QED
      BY <1>0, <2>1, <3>1 DEF Returning, Motion, Begins, Descends, Turns, Bottoms, Ascends, Ends, Stays, OnTheWayUp, Shape
  <2>. QED
    BY <1>1, <2>1, <2>2, <2>3, <2>4 DEF Telling
<1>7. CASE UpSanitise
  <2>1. Back("sanitise") /\ Unwind /\ answer' = answer
    BY <1>7 DEF UpSanitise
  <2>2. Ascends /\ Path[place] = "sanitise"
    BY <1>0, <2>1, Backs
  <2>3. ~Returning /\ ~Refusing /\ ~Catching /\ ~Reporting
    BY <1>3, <1>4, <2>1
  <2>4. CASE heading = "up" /\ err # Nil
    <3>1. err' = [err EXCEPT !.is = "connect"] /\ rpcLine' = LogFrom
      BY <1>7, <2>4 DEF UpSanitise
    <3>2. err' = [is |-> "connect", code |-> err.code] /\ err' \in ErrType
      BY <1>1, <3>1 DEF ErrType
    <3>. QED
      BY <1>1, <2>1, <2>2, <2>3, <2>4, <3>1, <3>2 DEF Telling, Cleaning
  <2>5. CASE ~(heading = "up" /\ err # Nil)
    BY <1>1, <1>7, <2>1, <2>3, <2>5 DEF UpSanitise, Telling, Cleaning
  <2>. QED
    BY <2>4, <2>5
<1>8. CASE UpRecover
  <2>1. Back("recover") /\ (Unwind \/ Catch) /\ answer' = answer
    BY <1>8 DEF UpRecover
  <2>2. Ascends /\ Path[place] = "recover"
    BY <1>0, <2>1, Backs
  <2>3. ~Returning /\ ~Refusing /\ ~Cleaning /\ ~Reporting
    BY <1>3, <1>4, <2>1
  <2>4. CASE heading = "panic"
    <3>1. err' = [is |-> "connect", code |-> "internal"] /\ rpcLine' = LogFrom
      BY <1>8, <2>4 DEF UpRecover
    <3>2. err' \in ErrType
      BY <3>1 DEF ErrType, Code
    <3>. QED
      BY <1>1, <2>1, <2>2, <2>3, <2>4, <3>1, <3>2 DEF Telling, Catching
  <2>5. CASE heading # "panic"
    BY <1>1, <1>8, <2>1, <2>3, <2>5 DEF UpRecover, Telling, Catching
  <2>. QED
    BY <2>4, <2>5
<1>9. CASE UpConnect
  <2>1. Back("connect") /\ Unwind /\ err' = err /\ rpcLine' = rpcLine
    BY <1>9 DEF UpConnect
  <2>2. Ascends /\ Path[place] = "connect"
    BY <1>0, <2>1, Backs
  <2>3. ~Returning /\ ~Refusing /\ ~Cleaning /\ ~Catching
    BY <1>3, <1>4, <2>1
  <2>4. CASE heading = "up"
    <3>1. answer' = [code |-> err.code, text |-> IF err.is = "bare" THEN "verbatim" ELSE "chosen"]
      BY <1>9, <2>4 DEF UpConnect
    <3>2. answer' \in AnswerType
      BY <1>1, <3>1 DEF AnswerType, ErrType
    <3>. QED
      BY <1>1, <2>1, <2>2, <2>3, <2>4, <3>1, <3>2 DEF Telling, Reporting
  <2>5. CASE heading # "up"
    BY <1>1, <1>9, <2>1, <2>3, <2>5 DEF UpConnect, Telling, Reporting
  <2>. QED
    BY <2>4, <2>5
<1>10. CASE \/ TracerStarts \/ NoTracer \/ TracerStops \/ Handles \/ HandlerPanics \/ Conclude \/ TelemetryOver
  <2>1. UNCHANGED rpcVars
    BY <1>10 DEF TracerStarts, NoTracer, TracerStops, Handles, HandlerPanics, Conclude, TelemetryOver, telemetryVars, rpcVars
  <2>2. CASE TracerStarts \/ NoTracer \/ TracerStops \/ TelemetryOver \/ Conclude
    <3>1. heading \in {"wait", "done"} \/ place = 0
      BY <2>2 DEF TracerStarts, NoTracer, TracerStops, TelemetryOver, Conclude
    <3>2. ~Special
      BY <3>1 DEF Refusing, Returning, Cleaning, Catching, Reporting, Turns, Bottoms, Ascends, Shape, OnTheWayUp
    <3>. QED
      BY <1>2, <2>1, <3>2
  <2>3. CASE Handles \/ HandlerPanics
    <3>1. AtHandler /\ heading' # "up"
      BY <2>3 DEF Handles, HandlerPanics, AtHandler, Leaves
    <3>2. ~Special
      BY <1>3, <1>4, <3>1
    <3>. QED
      BY <1>2, <2>1, <3>2
  <2>. QED
    BY <1>10, <2>2, <2>3
<1>11. CASE \/ DownTrace \/ DownLogging \/ DownRecovery \/ DownRouteName \/ DownMetrics
            \/ DownAuthenticate \/ DownMux \/ DownOption
  <2>1. UNCHANGED rpcVars
    BY <1>11 DEF DownTrace, DownLogging, DownRecovery, DownRouteName, DownMetrics,
       DownAuthenticate, DownMux, DownOption, rpcVars
  <2>2. \E l \in Layer \cup {"mux"} \cup Option : Here(l)
    BY <1>11 DEF DownTrace, DownLogging, DownRecovery, DownRouteName, DownMetrics,
       DownAuthenticate, DownMux, DownOption, Layer
  <2>3. "connect" \notin Layer \cup {"mux"} \cup Option
    BY DEF Layer, Option
  <2>4. ~Special
    BY <1>3, <1>4, <2>2, <2>3
  <2>. QED
    BY <1>2, <2>1, <2>4
<1>12. CASE \/ UpRpcTrace \/ UpRpcMetrics \/ UpRequireHeader \/ UpSilently \/ UpMetrics
            \/ UpRouteName \/ UpRecovery \/ UpLogging \/ UpTrace
  <2>1. UNCHANGED rpcVars
    BY <1>12 DEF UpRpcTrace, UpRpcMetrics, UpRequireHeader, UpSilently, UpMetrics,
       UpRouteName, UpRecovery, UpLogging, UpTrace, rpcVars
  <2>2. \E l : Back(l) /\ l \notin {"sanitise", "recover", "connect"}
    BY <1>12 DEF UpRpcTrace, UpRpcMetrics, UpRequireHeader, UpSilently, UpMetrics,
       UpRouteName, UpRecovery, UpLogging, UpTrace
  <2>3. ~Special
    BY <1>3, <1>4, <2>2
  <2>. QED
    BY <1>2, <2>1, <2>3
<1>. QED
  BY <1>5, <1>6, <1>7, <1>8, <1>9, <1>10, <1>11, <1>12 DEF TelemetryNext, Enter, Leave

\* Replies is kept: a bare error does not get past the sanitiser.
LEMMA RepliesKept ==
    ASSUME WiringsWellFormed, TelemetryTypes, Where, Shape, Routing, Replies, Same, Motion, Telling, Counting
    PROVE  Replies'
<1>. DEFINE n == count["rpc"].n
<1>0. /\ N \in Nat /\ M \in Nat /\ M >= N + 1 /\ place \in 0..M + 1
      /\ Path' = Path /\ N' = N /\ M' = M /\ incoming' = incoming /\ wiring' = wiring
  BY DepthIs DEF TelemetryTypes, Shape, Same
<1>1. /\ Depth' \in 0..M /\ Depth \in 0..M
      /\ \A i \in 1..M : i <= Depth' => i <= Depth \/ (i = place /\ (Descends \/ Turns))
      /\ Descends \/ Turns => heading = "down" /\ place \in 1..M /\ Depth = place - 1 /\ Depth' = place
  BY StackGrows
<1>2. (\A l : Lists(l)' <=> Lists(l)) /\ Expected' = Expected
  BY <1>0 DEF Lists, Expected
<1>3. err \in ErrType /\ answer \in AnswerType /\ n \in Nat
  <2>1. n \in Nat
    BY DEF TelemetryTypes
  <2>. QED
    BY <2>1 DEF TelemetryTypes, ErrType, AnswerType
\* Where the connect options and the connect handler are.
<1>4. /\ \A l \in Option : Ascends /\ Path[place] = l => place \in N + 3..M /\ incoming.kind # "http"
      /\ Ascends /\ Path[place] = "connect" => place = N + 2
      /\ Ascends => Depth = place /\ Depth' = place - 1 /\ place \in 1..M
      /\ Cleaning \/ Catching => place \in N + 3..M
      /\ Reporting => place = N + 2
  <2>1. Ascends => Depth = place /\ Depth' = place - 1 /\ place \in 1..M
    BY DEF Ascends
  <2>2. \A l \in Option : Ascends /\ Path[place] = l => place \in N + 3..M /\ incoming.kind # "http"
    BY <1>0, <2>1, Places
  <2>3. Ascends /\ Path[place] = "connect" => place = N + 2
    BY <2>1, Places
  <2>. QED
    BY <2>1, <2>2, <2>3 DEF Cleaning, Catching, Reporting, Option
<1>5. \A l : ~Descends /\ ~Turns /\ Deeper(l)' => Deeper(l)
  BY <1>0, <1>1 DEF Deeper
\* What was written down of a failure is where the access line leads.
<1>6. Cleaning \/ Catching => LogFrom = Expected
  <2>. SUFFICES ASSUME Cleaning \/ Catching PROVE LogFrom = Expected
    OBVIOUS
  <2>1. place > N + 1
    BY <1>0, <1>4
  <2>2. Latest.log <=> \E i \in 1..N : i < place /\ Path[i] = "logging"
    BY <2>1 DEF Routing
  <2>3. Latest.log <=> Lists("logging")
    BY <1>0, <2>1, <2>2 DEF Shape
  <2>. QED
    BY <2>3 DEF LogFrom, Expected, Latest, Current
<1>7. /\ Refusing => heading = "down" /\ heading' = "up" /\ ~Returning /\ ~Cleaning /\ ~Catching /\ ~Reporting
      /\ Returning => heading = "down" /\ heading' = "up" /\ Depth' = M /\ ~Cleaning /\ ~Catching /\ ~Reporting
      /\ Cleaning => heading = "up" /\ heading' = "up" /\ ~Catching /\ ~Reporting
      /\ Catching => heading = "panic" /\ heading' = "up" /\ ~Reporting
      /\ Reporting => heading = "up" /\ heading' = "up"
  BY DEF Refusing, Returning, Cleaning, Catching, Reporting, Turns, Bottoms, Ascends, OnTheWayUp
\* What has been handed back goes on outwards.
<1>8. heading \in {"up", "done"} =>
        /\ Ascends \/ Ends \/ Stays
        /\ heading' \in {"up", "done"} /\ Depth' <= Depth /\ (heading' = "up" => heading = "up")
        /\ ~Descends /\ ~Turns
  BY <1>0, <1>1 DEF Motion, Begins, Descends, Turns, Bottoms, Ascends, Ends, Stays, OnTheWayUp
<1>9. heading \notin {"up", "done"} => err = Nil
  BY DEF Replies
<1>10. (err # Nil => heading \in {"up", "done"})'
  BY <1>7, <1>8, <1>9 DEF Telling, Nil
<1>11. (err.is = "nil" => err.code = "ok")'
  BY DEF Telling, Replies, Nil
<1>12. (heading = "up" /\ err.is = "bare" => Deeper("sanitise"))'
  <2>. SUFFICES ASSUME heading' = "up", err'.is = "bare"
                PROVE  \E i \in 1..M : Path[i] = "sanitise" /\ i <= Depth'
    BY <1>0 DEF Deeper
  <2>1. CASE Returning
    <3>1. incoming.kind # "http"
      BY <2>1 DEF Telling, Nil
    <3>2. \E i \in N + 3..M : Path[i] = "sanitise"
      BY <3>1 DEF Shape
    <3>. QED
      BY <1>0, <1>7, <2>1, <3>2
  <2>2. CASE ~Returning
    <3>1. err' = err /\ ~Cleaning
      BY <2>2 DEF Telling
    <3>2. err # Nil /\ err.is = "bare"
      BY <3>1 DEF Nil
    <3>3. heading = "up"
      BY <1>8, <1>9, <3>2
    <3>4. PICK i \in 1..M : Path[i] = "sanitise" /\ i <= Depth
      BY <3>2, <3>3 DEF Replies, Deeper
    <3>5. ~(Ascends /\ i = place)
      BY <3>1, <3>2, <3>3, <3>4 DEF Cleaning
    <3>6. Ascends \/ Stays
      BY <1>8, <3>3 DEF Ends
    <3>7. i <= Depth'
      BY <1>0, <1>1, <1>4, <3>4, <3>5, <3>6 DEF Stays
    <3>. QED
      BY <3>4, <3>7
  <2>. QED
    BY <2>1, <2>2
<1>13. (heading = "up" /\ place >= N + 2 /\ err.code \in Failure /\ ~Deeper("sanitise") => rpcLine = Expected)'
  <2>. SUFFICES ASSUME heading' = "up", place' >= N + 2, err'.code \in Failure,
                       \A i \in 1..M : Path[i] = "sanitise" => ~(i <= Depth')
                PROVE  rpcLine' = Expected
    BY <1>0, <1>2 DEF Deeper
  <2>1. CASE Cleaning \/ Catching
    BY <1>6, <2>1 DEF Telling
  <2>2. CASE Refusing
    BY <2>2 DEF Telling, Failure
  <2>3. CASE Returning
    <3>1. incoming.kind # "http" \/ err' = Nil
      BY <2>3 DEF Telling
    <3>2. incoming.kind # "http"
      BY <3>1 DEF Nil, Failure
    <3>3. \E i \in N + 3..M : Path[i] = "sanitise"
      BY <3>2 DEF Shape
    <3>. QED
      BY <1>0, <1>7, <2>3, <3>3
  <2>4. CASE ~(Refusing \/ Returning \/ Cleaning \/ Catching)
    <3>1. err' = err /\ rpcLine' = rpcLine
      BY <2>4 DEF Telling
    <3>2. err # Nil
      BY <3>1 DEF Nil, Failure
    <3>3. heading = "up" /\ (Ascends \/ Stays)
      BY <1>8, <1>9, <3>2 DEF Ends
    <3>4. place >= N + 2
      BY <1>0, <3>3 DEF Ascends, Stays
    <3>5. ~Deeper("sanitise")
      <4>. SUFFICES ASSUME NEW i \in 1..M, Path[i] = "sanitise", i <= Depth PROVE FALSE
        BY DEF Deeper
      <4>1. Ascends /\ i = place
        BY <1>0, <1>1, <1>4, <3>3 DEF Stays
      <4>. QED
        BY <2>4, <3>2, <3>3, <4>1 DEF Cleaning
    <3>. QED
      BY <3>1, <3>3, <3>4, <3>5 DEF Replies
  <2>. QED
    BY <2>1, <2>2, <2>3, <2>4
<1>14. CASE Reporting
  <2>1. /\ err' = err /\ rpcLine' = rpcLine /\ heading = "up" /\ heading' = "up" /\ place = N + 2 /\ Depth = place /\ Depth' = N + 1
        /\ answer' = [code |-> err.code, text |-> IF err.is = "bare" THEN "verbatim" ELSE "chosen"]
    <3>1. ~(Refusing \/ Returning \/ Cleaning \/ Catching)
      BY <1>7, <1>14
    <3>. QED
      BY <1>0, <1>4, <1>7, <1>14, <3>1 DEF Telling, Reporting
  <2>2. ~Deeper("sanitise")
    BY <1>0, <2>1, Places DEF Deeper, Option
  <2>3. answer'.code = err'.code /\ answer'.text = "chosen"
    BY <2>1, <2>2 DEF Replies
  <2>4. err.code \in Failure => rpcLine = Expected
    BY <1>0, <2>1, <2>2 DEF Replies
  <2>. QED
    <3>1. (answer.code # "none" => heading \in {"up", "done"} /\ Depth < N + 2 /\ answer.code = err.code)'
      BY <1>0, <2>1, <2>3
    <3>2. (answer.code \in Failure => rpcLine = Expected)'
      BY <1>2, <2>1, <2>3, <2>4
    <3>3. answer'.text # "verbatim"
      BY <2>3
    <3>4. (count["rpc"].n > 0 =>
             /\ heading \in {"up", "panic", "done"} /\ ~Deeper("rpcMetrics") /\ incoming.kind # "http"
             /\ heading = "panic" => count["rpc"].label = "internal"
             /\ heading # "panic" => count["rpc"].label = err.code
             /\ heading # "panic" /\ Depth < N + 2 => answer.code = err.code)'
      <4>1. ~AddingRpc
        BY <1>14 DEF AddingRpc, Reporting
      <4>2. count'["rpc"] = count["rpc"]
        BY <4>1 DEF Counting
      <4>. QED
        BY <1>0, <1>5, <1>8, <2>1, <2>3, <4>2 DEF Replies
    <3>. QED
      BY <1>10, <1>11, <1>12, <1>13, <3>1, <3>2, <3>3, <3>4 DEF Replies
<1>15. CASE ~Reporting
  <2>1. answer' = answer
    BY <1>15 DEF Telling
  <2>2. answer.code # "none" =>
          /\ heading \in {"up", "done"} /\ Depth < N + 2 /\ answer.code = err.code
          /\ heading' \in {"up", "done"} /\ Depth' < N + 2 /\ err' = err /\ rpcLine' = rpcLine
    <3>. SUFFICES ASSUME answer.code # "none"
                  PROVE  /\ heading \in {"up", "done"} /\ Depth < N + 2 /\ answer.code = err.code
                         /\ heading' \in {"up", "done"} /\ Depth' < N + 2 /\ err' = err /\ rpcLine' = rpcLine
      OBVIOUS
    <3>1. heading \in {"up", "done"} /\ Depth < N + 2 /\ answer.code = err.code
      BY DEF Replies
    <3>2. ~Cleaning /\ ~Catching
      <4>. SUFFICES ASSUME Cleaning \/ Catching PROVE FALSE
        OBVIOUS
      <4>1. Depth = place /\ place \in N + 3..M
        BY <1>4 DEF Cleaning, Catching
      <4>. QED
        BY <1>0, <3>1, <4>1
    <3>3. ~Refusing /\ ~Returning
      BY <1>7, <3>1
    <3>. QED
      BY <1>0, <1>1, <1>8, <3>1, <3>2, <3>3 DEF Telling
  <2>3. (answer.code # "none" => heading \in {"up", "done"} /\ Depth < N + 2 /\ answer.code = err.code)'
    BY <1>0, <2>1, <2>2
  <2>4. (answer.code \in Failure => rpcLine = Expected)'
    BY <1>2, <2>1, <2>2 DEF Failure, Replies
  <2>5. answer'.text # "verbatim"
    BY <2>1 DEF Replies
  <2>6. (count["rpc"].n > 0 =>
           /\ heading \in {"up", "panic", "done"} /\ ~Deeper("rpcMetrics") /\ incoming.kind # "http"
           /\ heading = "panic" => count["rpc"].label = "internal"
           /\ heading # "panic" => count["rpc"].label = err.code
           /\ heading # "panic" /\ Depth < N + 2 => answer.code = err.code)'
    <3>. SUFFICES ASSUME n' > 0
                  PROVE  /\ heading' \in {"up", "panic", "done"} /\ ~Deeper("rpcMetrics")' /\ incoming.kind # "http"
                         /\ heading' = "panic" => count'["rpc"].label = "internal"
                         /\ heading' # "panic" => count'["rpc"].label = err'.code
                         /\ heading' # "panic" /\ Depth' < N + 2 => answer'.code = err'.code
      BY <1>0
    <3>1. CASE AddingRpc
      <4>1. /\ Ascends /\ Path[place] = "rpcMetrics" /\ heading \in {"up", "panic"} /\ heading' = heading
            /\ place \in N + 3..M /\ incoming.kind # "http" /\ Depth' = place - 1
        BY <1>4, <3>1 DEF AddingRpc, Ascends, OnTheWayUp, Option
      <4>2. ~(Refusing \/ Returning \/ Cleaning \/ Catching)
        BY <4>1 DEF Refusing, Returning, Cleaning, Catching, Turns, Bottoms
      <4>3. err' = err /\ count'["rpc"].label = IF heading = "panic" THEN "internal" ELSE err.code
        BY <3>1, <4>2 DEF Telling, Counting
      <4>4. ~Deeper("rpcMetrics")'
        <5>1. \A i \in 1..M : Path[i] = "rpcMetrics" => i = place
          BY <1>0, <4>1 DEF Shape
        <5>. QED
          BY <1>0, <4>1, <5>1 DEF Deeper
      <4>. QED
        BY <1>0, <4>1, <4>3, <4>4
    <3>2. CASE ~AddingRpc
      <4>1. /\ heading \in {"up", "panic", "done"} /\ ~Deeper("rpcMetrics") /\ incoming.kind # "http"
            /\ heading = "panic" => count'["rpc"].label = "internal"
            /\ heading # "panic" => count'["rpc"].label = err.code
            /\ heading # "panic" /\ Depth < N + 2 => answer.code = err.code
        BY <3>2 DEF Counting, Replies
      <4>2. ~Descends /\ ~Turns /\ (Ascends \/ Ends \/ Stays)
        BY <4>1 DEF Motion, Begins, Descends, Turns, Bottoms
      <4>3. ~Deeper("rpcMetrics")'
        BY <1>5, <4>1, <4>2
      <4>4. ~Refusing /\ ~Returning
        BY <1>7, <4>1
      <4>5. CASE heading = "panic"
        <5>1. \E i \in N + 3..M : Path[i] = "recover"
          BY <4>1 DEF Shape
        <5>2. Depth >= N + 3
          BY <1>0, <1>1, <4>5, <5>1 DEF Where
        <5>3. Ascends \/ (Stays /\ heading' = heading)
          BY <1>0, <4>2, <5>2 DEF Ends, Stays
        <5>4. CASE heading' = "panic"
          BY <4>1, <4>3, <4>5, <5>4
        <5>5. CASE heading' # "panic"
          <6>1. Ascends /\ Path[place] = "recover" /\ heading' = "up" /\ Depth' >= N + 2
            <7>1. Ascends /\ Path[place] \in {"recovery", "recover"} /\ heading' = "up"
              BY <4>5, <5>3, <5>5 DEF Ascends
            <7>2. place >= N + 3 /\ place \in 1..M
              BY <1>4, <5>2, <7>1
            <7>3. Path[place] # "recovery"
              BY <1>0, <7>2, Places DEF Layer
            <7>. QED
              BY <1>0, <1>4, <7>1, <7>2, <7>3
          <6>2. Catching
            BY <4>5, <6>1 DEF Catching
          <6>3. err'.code = "internal"
            BY <6>2 DEF Telling
          <6>. QED
            BY <1>0, <1>1, <4>1, <4>3, <4>5, <6>1, <6>3
        <5>. QED
          BY <5>4, <5>5
      <4>6. CASE heading \in {"up", "done"}
        <5>1. ~Catching
          BY <1>7, <4>6
        <5>2. err'.code = err.code
          BY <4>4, <5>1 DEF Telling
        <5>3. heading' \in {"up", "done"} /\ Depth' <= Depth
          BY <1>8, <4>6
        <5>4. Depth' < N + 2 => Depth < N + 2
          <6>. SUFFICES ASSUME Depth' < N + 2, ~(Depth < N + 2) PROVE FALSE
            OBVIOUS
          <6>1. Ascends /\ place = N + 2
            BY <1>0, <1>1, <1>4, <4>2 DEF Ends, Stays
          <6>2. Path[place] = "connect" /\ heading = "up"
            BY <4>1, <4>6, <6>1 DEF Shape, Ascends, OnTheWayUp
          <6>. QED
            BY <1>15, <6>1, <6>2 DEF Reporting
        <5>. QED
          BY <2>1, <4>1, <4>3, <4>6, <5>2, <5>3, <5>4
      <4>. QED
        BY <4>1, <4>5, <4>6
    <3>. QED
      BY <3>1, <3>2
  <2>. QED
    BY <1>10, <1>11, <1>12, <1>13, <2>3, <2>4, <2>5, <2>6 DEF Replies
<1>. QED
  BY <1>14, <1>15

-----------------------------------------------------------------------------
(* The theorems.                                                            *)

\* Types is kept.
LEMMA TelemetryTypesKept ==
    ASSUME TelemetryTypes, Counted, Replies, Same, Motion, Silent \/ Switches \/ Answers \/ Sends,
           Where, Shape, Copying, Spanning, Lining, Counting, Telling
    PROVE  TelemetryTypes'
<1>1. rec' \in Recording /\ wire' \in StatusCode
  <2>1. rec \in Recording /\ wire \in StatusCode
    BY DEF TelemetryTypes, Recording
  <2>2. CASE Silent \/ Switches
    BY <2>1, <2>2 DEF Silent, Switches
  <2>3. CASE Answers
    BY <2>3 DEF Answers, Wrote
  <2>4. CASE Sends
    BY <2>1, <2>4 DEF Sends, StatusCode
  <2>. QED
    BY <2>2, <2>3, <2>4
<1>2. /\ tracer' \in {"new", "on", "failed", "flushed", "lost"}
      /\ heading' \in {"wait", "down", "up", "panic", "abort", "done"}
  BY DEF TelemetryTypes, Motion, Begins, Descends, Turns, Bottoms, Ascends, Ends, Stays
\* Neither counter has counted yet when the layer that counts is left.
<1>3. /\ Adding => count["http"].n = 0
      /\ AddingRpc => count["rpc"].n = 0
  <2>1. /\ count["http"].n > 0 => ~Deeper("metrics")
        /\ count["rpc"].n > 0 => ~Deeper("rpcMetrics")
    BY DEF Counted, Replies
  <2>2. count["http"].n \in Nat /\ count["rpc"].n \in Nat
    BY DEF TelemetryTypes
  <2>3. /\ Adding => Deeper("metrics")
        /\ AddingRpc => Deeper("rpcMetrics")
    <3>1. Ascends => place \in 1..M /\ place <= Depth
      BY DEF Ascends
    <3>. QED
      BY <3>1 DEF Adding, AddingRpc, Deeper
  <2>. QED
    BY <2>1, <2>2, <2>3
<1>4. objs[held["metrics"]].pattern \in BOOLEAN
  <2>1. objs[held["metrics"]] \in Object
    BY DEF TelemetryTypes, Layer
  <2>. QED
    BY <2>1 DEF Object
<1>5. /\ DOMAIN count' = {"http", "rpc"}
      /\ \A c \in {"http", "rpc"} :
            count'[c] = [n |-> count'[c].n, route |-> count'[c].route, label |-> count'[c].label]
  <2>1. count'["http"] = [n |-> count'["http"].n, route |-> count'["http"].route, label |-> count'["http"].label]
    <3>1. CASE Adding
      BY <3>1 DEF Counting
    <3>2. CASE ~Adding
      BY <3>2 DEF Counting, TelemetryTypes
    <3>. QED
      BY <3>1, <3>2
  <2>2. count'["rpc"] = [n |-> count'["rpc"].n, route |-> count'["rpc"].route, label |-> count'["rpc"].label]
    <3>1. CASE AddingRpc
      BY <3>1 DEF Counting
    <3>2. CASE ~AddingRpc
      BY <3>2 DEF Counting, TelemetryTypes
    <3>. QED
      BY <3>1, <3>2
  <2>. QED
    BY <2>1, <2>2 DEF Counting
<1>6. \A c \in {"http", "rpc"} : count'[c].n \in 0..1 /\ count'[c].route \in BOOLEAN
  <2>1. \A c \in {"http", "rpc"} : count[c].n \in 0..1 /\ count[c].route \in BOOLEAN
    BY DEF TelemetryTypes
  <2>2. count'["http"].n \in 0..1 /\ count'["http"].route \in BOOLEAN
    <3>1. CASE Adding
      BY <1>3, <1>4, <3>1 DEF Counting
    <3>2. CASE ~Adding
      BY <2>1, <3>2 DEF Counting
    <3>. QED
      BY <3>1, <3>2
  <2>3. count'["rpc"].n \in 0..1 /\ count'["rpc"].route \in BOOLEAN
    <3>1. CASE AddingRpc
      BY <1>3, <2>1, <3>1 DEF Counting
    <3>2. CASE ~AddingRpc
      BY <2>1, <3>2 DEF Counting
    <3>. QED
      BY <3>1, <3>2
  <2>. QED
    BY <2>2, <2>3
<1>7. wiring' \in Wirings /\ options' \in Options /\ incoming' \in Incoming
  BY DEF Same, TelemetryTypes
<1>. QED
  BY <1>1, <1>2, <1>5, <1>6, <1>7 DEF TelemetryTypes, Recording, Copying, Spanning, SpanType, Lining, LineType,
     Telling, ErrType, AnswerType

\* IInv is kept by every step,
LEMMA TelemetryInvariance ==
    ASSUME WiringsWellFormed, InOrder, TelemetryInv, [TelemetryNext]_telemetryVars
    PROVE  TelemetryInv'
<1>. USE DEF TelemetryInv
<1>1. Shape
  BY PathShape
<1>2. CASE TelemetryNext
  <2>1. Same /\ Motion
    BY <1>1, <1>2, Moving
  <2>2. Silent \/ Switches \/ Answers \/ Sends
    BY <1>1, <1>2, Writing
  <2>3. Sending /\ Exact
    BY <1>1, <1>2, <2>2, SendStep, ExactStep
  <2>4. Copying /\ Spanning
    BY <1>1, <1>2, Holding, Tracing
  <2>5. Lining /\ Counting /\ Telling
    BY <1>1, <1>2, Logs, Counts, Tells
  <2>6. TelemetryTypes'
    BY <1>1, <2>1, <2>2, <2>4, <2>5, TelemetryTypesKept
  <2>7. Where'
    BY <1>1, <2>1, WhereKept
  <2>8. Seen'
    BY <1>1, <2>1, <2>2, SeenKept
  <2>9. Routing'
    BY <1>1, <2>1, <2>4, RoutingKept
  <2>10. Spans'
    BY <1>1, <2>1, <2>4, SpansKept
  <2>11. Lines'
    BY <1>1, <2>1, <2>3, <2>4, <2>5, LinesKept
  <2>12. Counted'
    BY <1>1, <2>1, <2>3, <2>4, <2>5, <2>11, CountedKept
  <2>13. Replies'
    BY <1>1, <2>1, <2>5, RepliesKept
  <2>. QED
    BY <2>6, <2>7, <2>8, <2>9, <2>10, <2>11, <2>12, <2>13
<1>3. CASE UNCHANGED telemetryVars
  <2>1. /\ wiring' = wiring /\ options' = options /\ incoming' = incoming /\ tracer' = tracer /\ place' = place
        /\ heading' = heading /\ objs' = objs /\ held' = held /\ rec' = rec /\ wire' = wire /\ err' = err
        /\ span' = span /\ accessLine' = accessLine /\ rpcLine' = rpcLine /\ count' = count /\ answer' = answer
    BY <1>3 DEF telemetryVars
  <2>2. Path' = Path
    BY <2>1 DEF Path
  <2>3. N' = N /\ M' = M /\ Depth' = Depth /\ Latest' = Latest /\ SentStatus' = SentStatus
    BY <2>1, <2>2 DEF N, M, Depth, Latest, SentStatus
  <2>4. /\ \A l : Deeper(l)' <=> Deeper(l)
        /\ \A l : (Lists(l)' <=> Lists(l)) /\ (Outermost(l)' <=> Outermost(l))
        /\ (OnTheWayDown' <=> OnTheWayDown) /\ (OnTheWayUp' <=> OnTheWayUp) /\ (IsRPC' <=> IsRPC) /\ Expected' = Expected
    BY <2>1, <2>2, <2>3 DEF Deeper, Lists, Outermost, OnTheWayDown, OnTheWayUp, IsRPC, Expected
  <2>5. TelemetryTypes'
    BY <2>1 DEF TelemetryTypes
  <2>6. Where'
    BY <2>1, <2>2, <2>3, <2>4 DEF Where
  <2>7. Seen'
    BY <2>1, <2>2, <2>3, <2>4 DEF Seen
  <2>8. Routing'
    BY <2>1, <2>2, <2>3, <2>4 DEF Routing
  <2>9. Spans'
    BY <2>1, <2>2, <2>3, <2>4 DEF Spans
  <2>10. Lines'
    BY <2>1, <2>2, <2>3, <2>4 DEF Lines
  <2>11. Counted'
    BY <2>1, <2>2, <2>3, <2>4 DEF Counted
  <2>12. Replies'
    BY <2>1, <2>2, <2>3, <2>4 DEF Replies
  <2>. QED
    BY <2>5, <2>6, <2>7, <2>8, <2>9, <2>10, <2>11, <2>12
<1>. QED
  BY <1>2, <1>3

\* holds at the start,
LEMMA TelemetryInitially ==
    ASSUME WiringsWellFormed, InOrder, TelemetryInit
    PROVE  TelemetryInv
<1>1. TelemetryTypes
  <2>1. objs \in Seq(Object) /\ objs # <<>> /\ Len(objs) = 1
    BY DEF TelemetryInit, Object
  <2>2. held \in [Layer -> 1..Len(objs)]
    BY <2>1 DEF TelemetryInit
  <2>3. /\ rec \in [Recorders -> [on : BOOLEAN, wrote : BOOLEAN, status : StatusCode]] /\ wire \in StatusCode
        /\ err \in [is : {"nil", "connect", "bare"}, code : Code]
        /\ answer \in [code : Code, text : {"none", "chosen", "verbatim"}]
    BY DEF TelemetryInit, Recorders, StatusCode, Code, Nil
  <2>4. accessLine \in [written : BOOLEAN, route : BOOLEAN, status : StatusCode, error : BOOLEAN,
                  traced : BOOLEAN, rpcCode : Code]
    BY DEF TelemetryInit, NoAccessLine, StatusCode, Code
  <2>5. span \in [{"http", "rpc"} -> [state : {"none", "open", "ended", "exported"},
                                      name : {"method", "route"}]]
    BY DEF TelemetryInit, NoSpan
  <2>6. DOMAIN count = {"http", "rpc"} /\ \A c \in {"http", "rpc"} : count[c] = NoCount
    BY DEF TelemetryInit
  <2>7. /\ \A c \in {"http", "rpc"} : count[c].n \in 0..1 /\ count[c].route \in BOOLEAN
        /\ \A c \in {"http", "rpc"} :
              count[c] = [n |-> count[c].n, route |-> count[c].route, label |-> count[c].label]
    <3>1. NoCount.n \in 0..1 /\ NoCount.route \in BOOLEAN
      BY DEF NoCount
    <3>2. NoCount = [n |-> NoCount.n, route |-> NoCount.route, label |-> NoCount.label]
      BY DEF NoCount
    <3>. QED
      BY <2>6, <3>1, <3>2
  <2>. QED
    BY <2>1, <2>2, <2>3, <2>4, <2>5, <2>6, <2>7 DEF TelemetryInit, TelemetryTypes
<1>2. Shape
  BY <1>1, PathShape
<1>3. /\ heading = "wait" /\ place = 1 /\ tracer = "new" /\ Depth = 0 /\ N \in Nat /\ M \in Nat /\ M >= N + 1
      /\ \A l : ~Deeper(l)
  BY <1>2 DEF TelemetryInit, Depth, Deeper, Shape
<1>4. Where
  BY <1>3 DEF Where, OnTheWayUp
<1>5. Seen
  BY <1>3 DEF TelemetryInit, Seen, Recorders
<1>6. /\ Latest = [span |-> FALSE, log |-> FALSE, pattern |-> FALSE] /\ Len(objs) = 1
      /\ \A k \in 1..Len(objs) : k = Len(objs)
  BY DEF TelemetryInit, Latest
<1>7. span["http"].state = "none" /\ span["rpc"].state = "none" /\ span["http"].name = "method"
  BY DEF TelemetryInit, NoSpan
<1>8. Routing
  BY <1>3, <1>6, <1>7 DEF Routing
<1>9. Spans
  BY <1>3, <1>6, <1>7 DEF Spans
<1>10. accessLine.written = FALSE /\ accessLine.traced = FALSE
  BY DEF TelemetryInit, NoAccessLine
<1>11. Lines
  BY <1>10 DEF Lines
<1>12. count["http"].n = 0 /\ count["rpc"].n = 0
  BY DEF TelemetryInit, NoCount
<1>13. Counted
  BY <1>3, <1>10, <1>12 DEF Counted
<1>14. err = Nil /\ err.is = "nil" /\ err.code = "ok" /\ answer.code = "none" /\ answer.text = "none"
  BY DEF TelemetryInit, Nil
<1>15. Replies
  BY <1>3, <1>12, <1>14 DEF Replies, Failure
<1>. QED
  BY <1>1, <1>4, <1>5, <1>8, <1>9, <1>11, <1>13, <1>15 DEF TelemetryInv

\* and says that the records agree.
LEMMA Agreement ==
    ASSUME WiringsWellFormed, InOrder, TelemetryInv
    PROVE  TelemetryTypeOK /\ RecordsAgree
<1>. USE DEF TelemetryInv
<1>1. Shape
  BY PathShape
<1>2. N \in Nat /\ M \in Nat /\ M >= N + 1 /\ place \in 0..M + 1
  BY <1>1, DepthIs DEF Shape
<1>3. TelemetryTypeOK
  <2>1. held \in [Layer -> DOMAIN objs]
    BY DEF TelemetryTypes
  <2>. QED
    BY <1>2, <2>1 DEF TelemetryTypes, TelemetryTypeOK, M, Object, Recorders
<1>4. ASSUME heading = "done" PROVE Depth = 0 /\ \A l : ~Deeper(l)
  BY <1>4 DEF Depth, Deeper
<1>5. Routed = Latest.pattern
  <2>1. objs \in Seq(Object) /\ Len(objs) \in 1..Len(objs) /\ DOMAIN objs = 1..Len(objs)
    BY DEF TelemetryTypes
  <2>2. Latest \in Object
    BY <2>1 DEF Latest
  <2>3. Routed <=> Latest.pattern
    BY <2>1 DEF Routed, Routing, Latest
  <2>. QED
    BY <2>2, <2>3 DEF Object, Routed
<1>6. RouteTold
  <2>. SUFFICES ASSUME Served
                PROVE  /\ accessLine.written => accessLine.route = Routed
                       /\ count["http"].n > 0 => count["http"].route = Routed
                       /\ Lists("routeName") /\ span["http"].state # "none" =>
                             (span["http"].name = "route") = Routed
    BY DEF RouteTold
  <2>1. accessLine.written => accessLine.route = Routed
    BY <1>5 DEF Lines
  <2>2. count["http"].n > 0 => count["http"].route = Routed
    BY <1>5 DEF Counted
  <2>3. ASSUME Lists("routeName"), span["http"].state # "none"
        PROVE  (span["http"].name = "route") = Routed
    <3>1. PICK i \in 1..N : Path[i] = "routeName"
      BY <1>1, <2>3 DEF Shape
    <3>2. i > Depth
      BY <1>2, <1>4, <3>1 DEF Served
    <3>3. span["http"].name = "route" <=> Latest.pattern
      BY <2>3, <3>1, <3>2 DEF Spans
    <3>. QED
      BY <1>5, <3>3 DEF Routed
  <2>. QED
    BY <2>1, <2>2, <2>3
<1>7. CountedAsAnswered
  <2>. SUFFICES ASSUME Served, Lists("recovery")
                PROVE  /\ count["http"].n > 0 => count["http"].label = wire
                       /\ accessLine.written => accessLine.status = wire /\ (wire >= 500 => accessLine.error)
                       /\ count["rpc"].n > 0 => count["rpc"].label = answer.code
                       /\ Lists("metrics") /\ Lists("logging") /\ ~incoming.probe =>
                             (count["http"].n > 0) = accessLine.written
    BY DEF CountedAsAnswered
  <2>1. heading = "done" /\ tracer # "failed" /\ Depth = 0 /\ Depth < N + 2
    BY <1>2, <1>4 DEF Served
  <2>2. count["http"].n > 0 => count["http"].label = wire
    BY <2>1 DEF Counted
  <2>3. accessLine.written => accessLine.status = wire /\ (wire >= 500 => accessLine.error)
    BY <2>1 DEF Counted, Lines
  <2>4. count["rpc"].n > 0 => count["rpc"].label = answer.code
    BY <2>1 DEF Replies
  <2>5. ASSUME Lists("metrics"), Lists("logging"), ~incoming.probe
        PROVE  (count["http"].n > 0) = accessLine.written
    <3>1. PICK i \in 1..N : Path[i] = "logging"
      BY <1>1, <2>5 DEF Shape
    <3>2. i > Depth
      BY <2>1, <3>1
    <3>3. count["http"].n > 0 <=> accessLine.written
      BY <2>5, <3>1, <3>2 DEF Counted
    <3>4. accessLine.written \in BOOLEAN
      BY DEF TelemetryTypes
    <3>. QED
      BY <3>3, <3>4
  <2>. QED
    BY <2>2, <2>3, <2>4, <2>5
<1>8. OneSpan
  <2>. SUFFICES ASSUME Served
                PROVE  /\ \A s \in DOMAIN span : span[s].state # "open"
                       /\ span["http"].state = "none" \/ span["rpc"].state = "none"
                       /\ Outermost("trace") /\ ~IsRPC => span["http"].state # "none"
                       /\ tracer = "flushed" => \A s \in DOMAIN span : span[s].state # "ended"
                       /\ accessLine.traced => span["http"].state # "none"
                       /\ Outermost("trace") /\ wiring.ids /\ accessLine.written =>
                             accessLine.traced = (span["http"].state # "none")
    BY DEF OneSpan
  <2>1. DOMAIN span = {"http", "rpc"} /\ accessLine.traced \in BOOLEAN
    BY DEF TelemetryTypes
  <2>2. heading = "done" /\ tracer # "failed" /\ ~Deeper("trace") /\ ~Deeper("rpcTrace")
    BY <1>4 DEF Served
  <2>3. \A s \in DOMAIN span : span[s].state # "open"
    BY <2>1, <2>2 DEF Spans
  <2>4. span["http"].state = "none" \/ span["rpc"].state = "none"
    BY DEF Spans
  <2>5. Outermost("trace") /\ ~IsRPC => span["http"].state # "none"
    BY <2>2 DEF Spans
  <2>6. tracer = "flushed" => \A s \in DOMAIN span : span[s].state # "ended"
    BY <2>1 DEF Spans
  <2>7. accessLine.traced => span["http"].state # "none"
    BY DEF Lines, Routing
  <2>8. wiring.ids /\ accessLine.written => (accessLine.traced <=> span["http"].state # "none")
    BY DEF Lines, Routing
  <2>. QED
    BY <2>1, <2>3, <2>4, <2>5, <2>6, <2>7, <2>8
<1>9. NothingLeaks
  BY DEF NothingLeaks, Replies, Failure, Expected
<1>. QED
  BY <1>3, <1>6, <1>7, <1>8, <1>9 DEF RecordsAgree

\* Whatever the middleware, the options and the requests, in an order the
\* packages allow, every variable keeps its type.
THEOREM TelemetryTyped ==
    ASSUME WiringsWellFormed, InOrder
    PROVE  TelemetrySpec => []TelemetryTypeOK
<1>1. TelemetryInit => TelemetryInv
  BY TelemetryInitially
<1>2. TelemetryInv /\ [TelemetryNext]_telemetryVars => TelemetryInv'
  BY TelemetryInvariance
<1>3. TelemetryInv => TelemetryTypeOK
  BY Agreement
<1>. QED
  BY <1>1, <1>2, <1>3, PTL DEF TelemetrySpec

\* The access line, the counters and the span of a request say what the client
\* got and which route it took, past panics and aborts, and a caller of an RPC
\* is told nothing the handler did not choose to say: Logging, the recorders,
\* web/metrics, trace and the connect options agree in every order of them that
\* the packages allow.
THEOREM AllAgree ==
    ASSUME WiringsWellFormed, InOrder
    PROVE  TelemetrySpec => []RecordsAgree
<1>1. TelemetryInit => TelemetryInv
  BY TelemetryInitially
<1>2. TelemetryInv /\ [TelemetryNext]_telemetryVars => TelemetryInv'
  BY TelemetryInvariance
<1>3. TelemetryInv => RecordsAgree
  BY Agreement
<1>. QED
  BY <1>1, <1>2, <1>3, PTL DEF TelemetrySpec
=============================================================================

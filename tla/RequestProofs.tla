---------------------------- MODULE RequestProofs ----------------------------
(***************************************************************************)
(* What a client is answered, what the access line says of it, who reaches *)
(* a handler and what a Stop leaves behind, for any slices of middleware   *)
(* and any requests.                                                       *)
(***************************************************************************)
EXTENDS Request, TLAPS

OutType == [rec: [Recorder -> Wrapped], status: Status, head: SUBSET HeaderName,
           body: SUBSET {"handler", "problem"}, informed: BOOLEAN, hijacked: BOOLEAN]

LEMMA ChainFacts ==
    ASSUME TypeOK
    PROVE  /\ chain \in Seq(Middleware) /\ Len(chain) \in Nat /\ DOMAIN chain = 1..Len(chain)
           /\ Handler \in Nat /\ Handler = Len(chain) + 1
           /\ \A i, j \in DOMAIN chain : chain[i] = chain[j] => i = j
           /\ at \in Nat /\ out \in OutType
<1>1. chain \in Seq(Middleware) /\ \A i, j \in DOMAIN chain : chain[i] = chain[j] => i = j
  BY RequestAssumption DEF RequestAssumption, TypeOK
<1>. QED
  BY <1>1 DEF Handler, TypeOK, OutType

-----------------------------------------------------------------------------
(* What the recorders and net/http make of a write.                         *)

\* The recorders in the way of a write at place i agree with net/http, as long
\* as the connection is its own.
Agree(o, i) ==
    ~o.hijacked => \A r \in Through(i) :
        /\ o.rec[r].wrote <=> o.status # 0
        /\ o.rec[r].status = IF o.status = 0 THEN 200 ELSE o.status

\* q is o with status s and the headers head sent, unless there was one or the
\* connection is no longer net/http's.
Sent(o, q, s, head) ==
    /\ q \in OutType
    /\ q.hijacked = o.hijacked
    /\ \A r \in Recorder : /\ q.rec[r].on = o.rec[r].on
                           /\ o.rec[r].status # 0 => q.rec[r].status # 0
    /\ IF o.status # 0 \/ o.hijacked
       THEN q.status = o.status /\ q.head = o.head
       ELSE q.status = s /\ q.head = head

LEMMA SendSends ==
    ASSUME NEW o \in OutType, NEW s \in Status \ {0}, NEW head \in SUBSET HeaderName
    PROVE  /\ Sent(o, Send(o, s, head), s, head)
           /\ Send(o, s, head).rec = o.rec /\ Send(o, s, head).body = o.body
BY DEF OutType, Send, Sent

LEMMA WriteHeaderSends ==
    ASSUME NEW o \in OutType, NEW i \in Nat, NEW s \in Status \ {0},
           NEW head \in SUBSET HeaderName, Agree(o, i)
    PROVE  /\ Sent(o, WriteHeader(o, i, s, head), s, head)
           /\ Agree(WriteHeader(o, i, s, head), i)
           /\ WriteHeader(o, i, s, head).body = o.body
<1>t. Through(i) \subseteq Recorder
  BY DEF Through
<1>1. CASE \E r \in Through(i) : o.rec[r].wrote
  <2>1. WriteHeader(o, i, s, head) = o
    BY <1>1 DEF WriteHeader
  <2>2. o.status # 0 \/ o.hijacked
    BY <1>1 DEF Agree
  <2>. QED
    BY <2>1, <2>2 DEF Sent
<1>2. CASE ~ \E r \in Through(i) : o.rec[r].wrote
  <2>. DEFINE rec == [r \in Recorder |->
                         IF r \in Through(i) THEN Remembered(o.rec[r], s) ELSE o.rec[r]]
              q == [o EXCEPT !.rec = rec]
  <2>1. \A r \in Recorder : o.rec[r] \in Wrapped
    BY DEF OutType
  <2>2. \A r \in Recorder : Remembered(o.rec[r], s) \in Wrapped
    BY <2>1 DEF Wrapped, Remembered
  <2>3. rec \in [Recorder -> Wrapped]
    BY <2>1, <2>2
  <2>4. q \in OutType /\ q.status = o.status /\ q.hijacked = o.hijacked /\ q.body = o.body
        /\ q.rec = rec /\ q.head = o.head
    BY <2>3 DEF OutType
  <2>5. WriteHeader(o, i, s, head) = Send(q, s, head)
    BY <1>2 DEF WriteHeader
  <2>6. \A r \in Recorder : rec[r].on = o.rec[r].on
    BY <2>1 DEF Wrapped, Remembered
  <2>a. \A r \in Recorder : o.rec[r].status # 0 => rec[r].status # 0
    <3>. SUFFICES ASSUME NEW r \in Recorder PROVE o.rec[r].status # 0 => rec[r].status # 0
      OBVIOUS
    <3>1. o.rec[r] \in Wrapped /\ s # 0
      BY <2>1
    <3>2. Remembered(o.rec[r], s).status = s
      BY <3>1 DEF Wrapped, Remembered
    <3>3. rec[r] = IF r \in Through(i) THEN Remembered(o.rec[r], s) ELSE o.rec[r]
      OBVIOUS
    <3>. QED
      BY <3>1, <3>2, <3>3
  <2>7. \A r \in Through(i) : rec[r].wrote /\ rec[r].status = s
    BY <2>1, <1>t DEF Wrapped, Remembered
  <2>8. Through(i) # {} /\ ~o.hijacked => o.status = 0
    BY <1>2 DEF Agree
  <2>. HIDE DEF q, rec
  <2>9. Sent(q, Send(q, s, head), s, head) /\ Send(q, s, head).rec = q.rec /\ Send(q, s, head).body = q.body
    BY <2>4, SendSends
  <2>10. Sent(o, Send(q, s, head), s, head)
    BY <2>9, <2>4, <2>6, <2>a DEF Sent
  <2>11. Agree(Send(q, s, head), i)
    BY <2>9, <2>4, <2>7, <2>8 DEF Sent, Agree, Status
  <2>. QED
    BY <2>4, <2>5, <2>9, <2>10, <2>11
<1>. QED
  BY <1>1, <1>2

LEMMA BegunSends ==
    ASSUME NEW o \in OutType, NEW i \in Nat, NEW head \in SUBSET HeaderName, Agree(o, i)
    PROVE  /\ Sent(o, Begun(o, i, head), 200, head)
           /\ Agree(Begun(o, i, head), i)
           /\ Begun(o, i, head).body = o.body
<1>. DEFINE rec == [r \in Recorder |->
                       IF r \in Through(i) THEN [o.rec[r] EXCEPT !.wrote = TRUE] ELSE o.rec[r]]
            q == [o EXCEPT !.rec = rec]
<1>t. Through(i) \subseteq Recorder
  BY DEF Through
<1>1. \A r \in Recorder : o.rec[r] \in Wrapped
  BY DEF OutType
<1>2. rec \in [Recorder -> Wrapped]
  BY <1>1 DEF Wrapped
<1>3. q \in OutType /\ q.status = o.status /\ q.hijacked = o.hijacked /\ q.body = o.body
      /\ q.rec = rec /\ q.head = o.head
  BY <1>2 DEF OutType
<1>4. \A r \in Recorder : rec[r].on = o.rec[r].on /\ rec[r].status = o.rec[r].status
  BY <1>1 DEF Wrapped
<1>5. \A r \in Through(i) : rec[r].wrote
  BY <1>1, <1>t DEF Wrapped
<1>6. Begun(o, i, head) = Send(q, 200, head)
  BY DEF Begun
<1>. HIDE DEF q, rec
<1>7. Sent(q, Send(q, 200, head), 200, head) /\ Send(q, 200, head).rec = q.rec
      /\ Send(q, 200, head).body = q.body
  BY <1>3, SendSends DEF Status
<1>8. Sent(o, Send(q, 200, head), 200, head)
  BY <1>7, <1>3, <1>4 DEF Sent
<1>9. Agree(Send(q, 200, head), i)
  BY <1>7, <1>3, <1>4, <1>5, <1>t DEF Sent, Agree, Status
<1>. QED
  BY <1>3, <1>6, <1>7, <1>8, <1>9

LEMMA WriteSends ==
    ASSUME NEW o \in OutType, NEW i \in Nat, NEW head \in SUBSET HeaderName,
           NEW text \in {"handler", "problem"}, Agree(o, i)
    PROVE  /\ Sent(o, Write(o, i, text, head), 200, head)
           /\ Agree(Write(o, i, text, head), i)
           /\ Write(o, i, text, head).body = IF o.hijacked THEN o.body ELSE o.body \cup {text}
<1>. DEFINE b == Begun(o, i, head)
            w == [b EXCEPT !.body = @ \cup {text}]
<1>1. Sent(o, b, 200, head) /\ Agree(b, i) /\ b.body = o.body /\ b \in OutType
  BY BegunSends DEF Sent
<1>2. Write(o, i, text, head) = IF o.hijacked THEN b ELSE w
  BY DEF Write
<1>. HIDE DEF b
<1>3. /\ w \in OutType /\ w.body = b.body \cup {text} /\ w.rec = b.rec
      /\ w.status = b.status /\ w.head = b.head /\ w.hijacked = b.hijacked
  BY <1>1 DEF OutType
<1>. HIDE DEF w
<1>4. Sent(o, w, 200, head)
  BY <1>1, <1>3 DEF Sent
<1>5. Agree(w, i)
  BY <1>1, <1>3 DEF Agree
<1>6. CASE o.hijacked
  <2>1. Write(o, i, text, head) = b
    BY <1>2, <1>6
  <2>. QED
    BY <1>1, <1>6, <2>1
<1>7. CASE ~o.hijacked
  <2>1. Write(o, i, text, head) = w
    BY <1>2, <1>7
  <2>2. w.body = o.body \cup {text}
    BY <1>1, <1>3
  <2>. QED
    BY <1>4, <1>5, <1>7, <2>1, <2>2
<1>. QED
  BY <1>6, <1>7

LEMMA WriteProblemSends ==
    ASSUME NEW o \in OutType, NEW i \in Nat, NEW s \in Status \ {0},
           NEW head \in SUBSET HeaderName, Agree(o, i)
    PROVE  /\ Sent(o, WriteProblem(o, i, s, head), s, head)
           /\ Agree(WriteProblem(o, i, s, head), i)
           /\ WriteProblem(o, i, s, head).body =
                  IF o.hijacked THEN o.body ELSE o.body \cup {"problem"}
<1>. DEFINE h == WriteHeader(o, i, s, head)
            w == Write(h, i, "problem", head)
<1>1. Sent(o, h, s, head) /\ Agree(h, i) /\ h.body = o.body /\ h \in OutType
  BY WriteHeaderSends DEF Sent
<1>2. WriteProblem(o, i, s, head) = w
  BY DEF WriteProblem
<1>. HIDE DEF h
<1>3. /\ Sent(h, w, 200, head) /\ Agree(w, i)
      /\ w.body = IF h.hijacked THEN h.body ELSE h.body \cup {"problem"}
  BY <1>1, WriteSends
<1>. HIDE DEF w
<1>4. h.hijacked = o.hijacked /\ (h.status # 0 \/ h.hijacked)
  BY <1>1 DEF Sent
<1>5. w.status = h.status /\ w.head = h.head
  BY <1>3, <1>4 DEF Sent
<1>6. Sent(o, w, s, head)
  BY <1>1, <1>3, <1>4, <1>5 DEF Sent
<1>. QED
  BY <1>1, <1>2, <1>3, <1>4, <1>6

-----------------------------------------------------------------------------
(* The invariant.                                                           *)

\* Agree at place i of the slice c, and without Through.
Agreed(o, c, i) ==
    ~o.hijacked => \A r \in Recorder, k \in DOMAIN c :
        k <= i /\ c[k] = r /\ o.rec[r].on =>
            /\ o.rec[r].wrote <=> o.status # 0
            /\ o.rec[r].status = IF o.status = 0 THEN 200 ELSE o.status

\* On its way in a request has no line, and nothing has been sent but by its
\* handler.
Way ==
    /\ flow = "in" => at # 0 /\ panicked = "no" /\ line = NoLine
    /\ flow = "in" /\ at <= Len(chain) => out.status = 0 /\ ~out.hijacked

\* What having passed a middleware says of the request.
Guarded ==
    flow = "in" =>
        /\ who = "entitled" =>
               /\ request.token = "scoped"
               /\ \E i \in DOMAIN chain : i < at /\ chain[i] = "authenticate"
        /\ \A i \in DOMAIN chain : i < at =>
               /\ chain[i] = "cors" => ~request.preflight
               /\ chain[i] = "authenticate" => request.token # "bad"
               /\ chain[i] = "scope" =>
                      /\ request.token = "scoped"
                      /\ \E j \in DOMAIN chain : j < i /\ chain[j] = "authenticate"

\* The recorders that are in the way agree with net/http, and none is on that
\* the request has not passed.  What the others hold means nothing on the way in.
Under == {"in", "out", "panic", "abort"}

Coupled ==
    /\ flow \in Under => Agreed(out, chain, at)
    /\ \A r \in Recorder : out.rec[r].status # 0
    /\ flow = "in" => \A r \in Recorder : out.rec[r].on => \E i \in DOMAIN chain : i < at /\ chain[i] = r
    /\ flow = "in" /\ at <= Len(chain) =>
           \A r \in Recorder : ~out.rec[r].wrote /\ out.rec[r].status = 200

\* Once passed, Logging has a recorder unless the request is a probe, and
\* Recovery has one of its own or Logging's.
Beyond(i) == (flow = "in" /\ at > i) \/ (flow \in {"out", "panic", "abort"} /\ at >= i)

Watched ==
    \A i \in DOMAIN chain : Beyond(i) =>
        /\ chain[i] = "logging" => (out.rec["logging"].on <=> ~request.probe)
        /\ chain[i] = "recovery" =>
               \/ out.rec["recovery"].on
               \/ out.rec["logging"].on /\ \E k \in DOMAIN chain : k < i /\ chain[k] = "logging"

\* A header that m sets is in everything that is sent beyond m.
CarriedBy(m, h) ==
    /\ flow = "in" => \A i \in DOMAIN chain : chain[i] = m /\ i < at => h \in headers
    /\ flow \in {"out", "panic", "abort"} /\ Covers(m) => h \in headers
    /\ out.status # 0 /\ Covers(m) => h \in out.head

Carried == CarriedBy("requestID", "requestID") /\ CarriedBy("headers", "nosniff")

\* A panic that nobody inside Logging could have ended.
OutsideOf == panicked # "no" /\ ~Before("logging", "recovery")

\* Logging's line, once written, is what net/http has or will send by itself.
Told ==
    /\ line # NoLine =>
           /\ flow \in {"out", "done"}
           /\ \A i \in DOMAIN chain : chain[i] = "logging" => at < i
           /\ ~out.hijacked => line.status = IF out.status = 0 THEN 200 ELSE out.status
           /\ line.error <=> line.status >= 500 \/ "rpcFailed" \in headers
    /\ Covers("logging") /\ ~request.probe =>
           /\ flow = "out" => \/ line # NoLine \/ OutsideOf
                              \/ \A i \in DOMAIN chain : chain[i] = "logging" => at >= i
           /\ flow = "done" /\ out.status # 0 => line # NoLine \/ OutsideOf

\* What a panic leaves owing, until Recovery, which it cannot pass, has seen to it.
Aftermath ==
    /\ flow = "abort" => panicked = "abort"
    /\ flow \in {"out", "done"} => panicked # "abort"
    /\ flow = "panic" =>
           /\ panicked \in {"clean", "begun"}
           /\ \A i \in DOMAIN chain : chain[i] = "recovery" => at >= i
    /\ flow = "cut" /\ Has("recovery") => panicked = "abort"
    /\ flow = "in" => "problem" \notin out.body
    /\ ~out.hijacked =>
           /\ out.status = 0 => out.body = {}
           /\ flow = "panic" =>
                  "problem" \notin out.body /\ (panicked = "clean" <=> out.status = 0)
           /\ flow \in {"out", "done"} =>
                  /\ panicked = "clean" => out.status = 500 /\ out.body = {"problem"}
                  /\ panicked = "begun" => "problem" \notin out.body

\* The listener of a Server that is stopping is closed, and nothing but that and
\* its breaking closes it.
Shut ==
    /\ server.stop # "none" => server.listener = "closed"
    /\ server.serve # "none" /\ server.listener = "closed" => server.broke \/ server.stop # "none"

IInv ==
    /\ TypeOK /\ Way /\ Guarded /\ Coupled /\ Watched /\ Carried /\ Told /\ Aftermath
    /\ Shut /\ StopIsClean

LEMMA AgreeAgreed ==
    ASSUME TypeOK, NEW o \in OutType, NEW i \in Nat,
           \A r \in Recorder : o.rec[r].on = out.rec[r].on
    PROVE  Agree(o, i) <=> Agreed(o, chain, i)
<1>1. Len(chain) \in Nat /\ DOMAIN chain = 1..Len(chain)
  BY ChainFacts
<1>2. ASSUME NEW r PROVE r \in Through(i) <=> /\ r \in Recorder /\ o.rec[r].on
                                              /\ \E k \in DOMAIN chain : k <= i /\ chain[k] = r
  BY <1>1 DEF Through
<1>. QED
  BY <1>2 DEF Agree, Agreed

LEMMA ChainKept ==
    ASSUME chain' = chain
    PROVE  /\ Handler' = Handler
           /\ \A m : Has(m)' <=> Has(m)
           /\ \A m : Covers(m)' <=> Covers(m)
           /\ Before("logging", "recovery")' <=> Before("logging", "recovery")
BY DEF Handler, Has, Covers, Before

\* No step of a request touches the Server, and none but the arrival of one puts
\* a request in flight, which a Server that is stopping does not accept.
LEMMA StopKept ==
    ASSUME Shut, StopIsClean, server' = server,
           out.hijacked => out'.hijacked \/ ~InFlight',
           InFlight' => InFlight \/ server.listener = "open"
    PROVE  Shut' /\ StopIsClean'
<1>1. Shut'
  BY DEF Shut
<1>2. (server.stop = "clean" /\ InFlight => out.hijacked)'
  <2>. SUFFICES ASSUME server'.stop = "clean", InFlight' PROVE out'.hijacked
    OBVIOUS
  <2>1. server.stop = "clean" /\ server.listener # "open"
    BY DEF Shut
  <2>2. out.hijacked
    BY <2>1 DEF StopIsClean
  <2>. QED
    BY <2>2
<1>3. (/\ server.errc = "error" => server.broke
       /\ server.errc = "nil" => server.stop # "none" /\ server.listener = "closed")'
  BY DEF StopIsClean
<1>. QED
  BY <1>1, <1>2, <1>3 DEF StopIsClean

\* The types, but for what a step says of the Server and of the slice.
LEMMA TypeKept ==
    ASSUME TypeOK, UNCHANGED <<chain, server, request>>,
           at' \in 0..Handler,
           flow' \in {"idle", "in", "out", "panic", "abort", "cut", "done"},
           who' \in {"nobody", "known", "entitled"}, headers' \subseteq HeaderName,
           out' \in OutType, panicked' \in {"no", "clean", "begun", "abort"},
           line' \in [status: Status, error: BOOLEAN]
    PROVE  TypeOK'
<1>1. Handler' = Handler
  BY ChainKept
<1>. QED
  BY <1>1 DEF TypeOK, OutType

\* On the way in: out' is out but for a recorder that the step puts in, or not.
LEMMA PassesOn ==
    ASSUME IInv, flow = "in", at <= Len(chain), CallNext,
           UNCHANGED <<chain, server, request, panicked, line>>,
           headers \subseteq headers', headers' \subseteq HeaderName,
           chain[at] = "requestID" => "requestID" \in headers',
           chain[at] = "headers" => "nosniff" \in headers',
           out' \in OutType, out'.status = out.status, out'.head = out.head,
           out'.body = out.body, out'.hijacked = out.hijacked,
           \A r \in Recorder : out'.rec[r].wrote = out.rec[r].wrote /\ out'.rec[r].status = out.rec[r].status,
           \A r \in Recorder : chain[at] # r => out'.rec[r].on = out.rec[r].on,
           chain[at] = "logging" => (out'.rec["logging"].on <=> ~request.probe),
           chain[at] = "recovery" => (out'.rec["recovery"].on <=> ~out.rec["logging"].on),
           who' \in {"nobody", "known", "entitled"},
           who' = "entitled" =>
               who = "entitled" \/ (request.token = "scoped" /\ chain[at] = "authenticate"),
           chain[at] = "cors" => ~request.preflight,
           chain[at] = "authenticate" => request.token # "bad",
           chain[at] = "scope" => who = "entitled"
    PROVE  IInv'
<1>1. /\ Len(chain) \in Nat /\ DOMAIN chain = 1..Len(chain)
      /\ Handler = Len(chain) + 1 /\ at \in DOMAIN chain
      /\ \A i, j \in DOMAIN chain : chain[i] = chain[j] => i = j
  BY ChainFacts DEF IInv, Way
<1>2. at' = at + 1 /\ flow' = "in" /\ chain' = chain
  BY DEF CallNext
<1>3. TypeOK'
  <2>1. at' \in 0..Handler
    BY <1>1, <1>2
  <2>2. panicked' \in {"no", "clean", "begun", "abort"} /\ line' \in [status: Status, error: BOOLEAN]
    BY DEF IInv, TypeOK
  <2>. QED
    BY <1>2, <2>1, <2>2, TypeKept DEF IInv
<1>4. out.status = 0 /\ ~out.hijacked /\ panicked = "no" /\ line = NoLine
  BY <1>1 DEF IInv, Way
<1>5. Way'
  BY <1>1, <1>2, <1>4 DEF Way, NoLine
<1>6. Guarded'
  <2>1. Guarded
    BY DEF IInv
  <2>2. \A i \in DOMAIN chain : i < at + 1 <=> i < at \/ i = at
    BY <1>1
  <2>3. who' = "entitled" =>
            request.token = "scoped" /\ \E i \in DOMAIN chain : i < at + 1 /\ chain[i] = "authenticate"
    BY <1>1, <2>1, <2>2 DEF Guarded
  <2>4. ASSUME NEW i \in DOMAIN chain, i < at + 1
        PROVE  /\ chain[i] = "cors" => ~request.preflight
               /\ chain[i] = "authenticate" => request.token # "bad"
               /\ chain[i] = "scope" =>
                      /\ request.token = "scoped"
                      /\ \E j \in DOMAIN chain : j < i /\ chain[j] = "authenticate"
    BY <2>1, <2>2, <2>4 DEF Guarded
  <2>. QED
    BY <1>2, <2>3, <2>4 DEF Guarded
<1>7. Coupled'
  <2>1. Agreed(out, chain, at)
    BY DEF IInv, Coupled, Under
  <2>2. /\ \A r \in Recorder : out.rec[r].status # 0 /\ ~out.rec[r].wrote /\ out.rec[r].status = 200
        /\ \A r \in Recorder : out.rec[r].on => \E i \in DOMAIN chain : i < at /\ chain[i] = r
    BY <1>1 DEF IInv, Coupled
  <2>3. Agreed(out', chain, at + 1)
    BY <1>4, <2>2 DEF Agreed
  <2>4. ASSUME NEW r \in Recorder, out'.rec[r].on
        PROVE  \E i \in DOMAIN chain : i < at + 1 /\ chain[i] = r
    <3>1. CASE chain[at] = r
      BY <3>1, <1>1
    <3>2. CASE chain[at] # r
      <4>1. PICK i \in DOMAIN chain : i < at /\ chain[i] = r
        BY <3>2, <2>2, <2>4
      <4>. QED
        BY <4>1, <1>1
    <3>. QED
      BY <3>1, <3>2
  <2>5. \A r \in Recorder : out'.rec[r].status # 0 /\ ~out'.rec[r].wrote /\ out'.rec[r].status = 200
    BY <2>2
  <2>. QED
    BY <1>2, <2>3, <2>4, <2>5 DEF Coupled, Under
<1>8. Watched'
  <2>. SUFFICES ASSUME NEW i \in DOMAIN chain, i < at + 1
                PROVE  /\ chain[i] = "logging" => (out'.rec["logging"].on <=> ~request.probe)
                       /\ chain[i] = "recovery" =>
                             \/ out'.rec["recovery"].on
                             \/ /\ out'.rec["logging"].on
                                /\ \E k \in DOMAIN chain : k < i /\ chain[k] = "logging"
    BY <1>1, <1>2 DEF Watched, Beyond
  <2>. USE DEF Recorder
  <2>1. \A r \in Recorder : out.rec[r].on => \E k \in DOMAIN chain : k < at /\ chain[k] = r
    BY DEF IInv, Coupled
  <2>2. CASE i = at
    BY <1>1, <2>1, <2>2
  <2>3. CASE i # at
    <3>1. i < at /\ chain[i] # chain[at]
      BY <1>1, <2>3
    <3>2. /\ chain[i] = "logging" => (out.rec["logging"].on <=> ~request.probe)
          /\ chain[i] = "recovery" =>
                \/ out.rec["recovery"].on
                \/ out.rec["logging"].on /\ \E k \in DOMAIN chain : k < i /\ chain[k] = "logging"
      BY <1>1, <3>1 DEF IInv, Watched, Beyond
    <3>3. \A k \in DOMAIN chain : k < i => chain[k] # chain[at]
      BY <1>1, <3>1
    <3>. QED
      BY <3>1, <3>2, <3>3
  <2>. QED
    BY <2>2, <2>3
<1>9. Carried'
  <2>1. ASSUME NEW m, NEW h, CarriedBy(m, h), chain[at] = m => h \in headers'
        PROVE  CarriedBy(m, h)'
    <3>1. \A i \in DOMAIN chain : i < at + 1 => i < at \/ i = at
      BY <1>1
    <3>2. \A i \in DOMAIN chain : chain[i] = m /\ i < at + 1 => h \in headers'
      BY <2>1, <3>1 DEF CarriedBy
    <3>. QED
      BY <1>2, <1>4, <3>2 DEF CarriedBy
  <2>. QED
    BY <2>1 DEF IInv, Carried
<1>10. Told'
  BY <1>2, <1>4 DEF Told, NoLine
<1>11. Aftermath'
  BY <1>2, <1>4 DEF IInv, Aftermath
<1>12. Shut' /\ StopIsClean'
  BY <1>2, StopKept DEF IInv, InFlight
<1>. QED
  BY <1>3, <1>5, <1>6, <1>7, <1>8, <1>9, <1>10, <1>11, <1>12 DEF IInv

\* A middleware answers in the handler's place.
LEMMA Refuses ==
    ASSUME IInv, flow = "in", at <= Len(chain), TurnBack,
           UNCHANGED <<chain, server, reqVars, line>>,
           chain[at] \in {"cors", "authenticate", "scope"},
           headers \subseteq headers', headers' \subseteq HeaderName,
           NEW s \in Status \ {0}, Sent(out, out', s, headers'), Agreed(out', chain, at),
           out'.body = out.body \/ out'.body = out.body \cup {"problem"}
    PROVE  IInv'
<1>1. /\ Len(chain) \in Nat /\ DOMAIN chain = 1..Len(chain)
      /\ Handler = Len(chain) + 1 /\ at \in DOMAIN chain
      /\ \A i, j \in DOMAIN chain : chain[i] = chain[j] => i = j
  BY ChainFacts DEF IInv, Way
<1>2. /\ at' = at - 1 /\ flow' = "out" /\ chain' = chain /\ server' = server /\ request' = request
      /\ who' = who /\ panicked' = panicked /\ line' = line
  BY DEF TurnBack, reqVars
<1>3. out.status = 0 /\ ~out.hijacked /\ panicked = "no" /\ line = NoLine
  BY <1>1 DEF IInv, Way
<1>4. /\ out' \in OutType /\ out'.status = s /\ s # 0 /\ out'.head = headers' /\ ~out'.hijacked
      /\ \A r \in Recorder : out'.rec[r].on = out.rec[r].on
      /\ \A r \in Recorder : out.rec[r].status # 0 => out'.rec[r].status # 0
  BY <1>3 DEF Sent, OutType
<1>5. TypeOK'
  <2>1. at' \in 0..Handler
    BY <1>1, <1>2
  <2>2. /\ who' \in {"nobody", "known", "entitled"} /\ panicked' \in {"no", "clean", "begun", "abort"}
        /\ line' \in [status: Status, error: BOOLEAN]
    BY <1>2 DEF IInv, TypeOK
  <2>. QED
    BY <1>2, <1>4, <2>1, <2>2, TypeKept DEF IInv
<1>6. Way' /\ Guarded'
  BY <1>2 DEF Way, Guarded
<1>7. Coupled'
  <2>1. Agreed(out', chain, at - 1)
    BY <1>1 DEF Agreed
  <2>2. \A r \in Recorder : out'.rec[r].status # 0
    BY <1>4 DEF IInv, Coupled
  <2>. QED
    BY <1>2, <2>1, <2>2 DEF Coupled
<1>8. Watched'
  <2>1. \A i \in DOMAIN chain : Beyond(i)' => Beyond(i)
    BY <1>1, <1>2 DEF Beyond
  <2>2. "logging" \in Recorder /\ "recovery" \in Recorder
    BY DEF Recorder
  <2>. QED
    BY <1>2, <1>4, <2>1, <2>2 DEF IInv, Watched
<1>9. Carried'
  <2>1. ASSUME NEW m \in {"requestID", "headers"}, NEW h, CarriedBy(m, h)
        PROVE  CarriedBy(m, h)'
    <3>1. ASSUME Covers(m) PROVE h \in headers'
      <4>1. PICK i \in DOMAIN chain : chain[i] = m
        BY <3>1 DEF Covers, Has
      <4>2. ~ at < i /\ i # at
        BY <1>1, <3>1, <4>1 DEF Covers, Before
      <4>3. i < at
        BY <1>1, <4>2
      <4>. QED
        BY <2>1, <4>1, <4>3 DEF CarriedBy
    <3>. QED
      BY <1>2, <1>4, <3>1, ChainKept DEF CarriedBy
  <2>. QED
    BY <2>1 DEF IInv, Carried
<1>10. Told'
  <2>1. Covers("logging") => \A i \in DOMAIN chain : chain[i] = "logging" => at - 1 >= i
    <3>. SUFFICES ASSUME Covers("logging"), NEW i \in DOMAIN chain, chain[i] = "logging"
                  PROVE  at - 1 >= i
      OBVIOUS
    <3>1. ~ at < i /\ i # at
      BY <1>1 DEF Covers, Before
    <3>. QED
      BY <1>1, <3>1
  <2>. QED
    BY <1>2, <1>3, <2>1, ChainKept DEF Told, NoLine
<1>11. Aftermath'
  BY <1>2, <1>3, <1>4 DEF IInv, Aftermath
<1>12. Shut' /\ StopIsClean'
  BY <1>2, <1>3, StopKept DEF IInv, InFlight
<1>. QED
  BY <1>5, <1>6, <1>7, <1>8, <1>9, <1>10, <1>11, <1>12 DEF IInv

\* The handler does something to the answer, and keeps the request.
LEMMA RunsHandler ==
    ASSUME IInv, InHandler, UNCHANGED <<chain, server, reqVars, line, moveVars>>,
           headers \subseteq headers', headers' \subseteq HeaderName,
           out' \in OutType, out.hijacked => out'.hijacked,
           \A r \in Recorder : out'.rec[r].on = out.rec[r].on,
           \A r \in Recorder : out.rec[r].status # 0 => out'.rec[r].status # 0,
           Agreed(out', chain, at),
           out.status # 0 => out'.status = out.status /\ out'.head = out.head,
           out.status = 0 /\ out'.status # 0 => out'.head = headers',
           "problem" \in out'.body => "problem" \in out.body,
           ~out'.hijacked /\ out'.status = 0 => out'.body = out.body
    PROVE  IInv'
<1>1. /\ Len(chain) \in Nat /\ DOMAIN chain = 1..Len(chain) /\ at = Len(chain) + 1
      /\ flow = "in" /\ Handler' = Handler
  BY ChainFacts, ChainKept DEF IInv, InHandler
<1>2. /\ at' = at /\ flow' = flow /\ chain' = chain /\ server' = server /\ request' = request
      /\ who' = who /\ panicked' = panicked /\ line' = line
  BY DEF moveVars, reqVars
<1>3. panicked = "no" /\ line = NoLine
  BY <1>1 DEF IInv, Way
<1>4. TypeOK'
  <2>1. /\ at' \in 0..Handler /\ who' \in {"nobody", "known", "entitled"}
        /\ flow' \in {"idle", "in", "out", "panic", "abort", "cut", "done"}
        /\ panicked' \in {"no", "clean", "begun", "abort"} /\ line' \in [status: Status, error: BOOLEAN]
    BY <1>2 DEF IInv, TypeOK
  <2>. QED
    BY <1>2, <2>1, TypeKept DEF IInv
<1>5. Way'
  BY <1>1, <1>2, <1>3 DEF IInv, Way, NoLine
<1>6. Guarded'
  BY <1>2 DEF IInv, Guarded
<1>7. Coupled'
  BY <1>1, <1>2 DEF IInv, Coupled
<1>8. Watched'
  <2>1. \A i \in DOMAIN chain : Beyond(i)' => Beyond(i)
    BY <1>1, <1>2 DEF Beyond
  <2>2. "logging" \in Recorder /\ "recovery" \in Recorder
    BY DEF Recorder
  <2>. QED
    BY <1>2, <2>1, <2>2 DEF IInv, Watched
<1>9. Carried'
  <2>1. ASSUME NEW m, NEW h, CarriedBy(m, h)
        PROVE  CarriedBy(m, h)'
    <3>1. \A i \in DOMAIN chain : i < at
      BY <1>1
    <3>2. Covers(m) => h \in headers'
      BY <1>1, <2>1, <3>1 DEF CarriedBy, Covers, Has
    <3>. QED
      BY <1>1, <1>2, <2>1, <3>2, ChainKept DEF CarriedBy
  <2>. QED
    BY <2>1 DEF IInv, Carried
<1>10. Told'
  BY <1>1, <1>2, <1>3 DEF Told, NoLine
<1>11. Aftermath'
  <2>1. "problem" \notin out'.body
    BY <1>1 DEF IInv, Aftermath
  <2>2. ~out'.hijacked /\ out'.status = 0 => out'.body = {}
    BY DEF IInv, Aftermath
  <2>. QED
    BY <1>1, <1>2, <2>1, <2>2 DEF Aftermath
<1>12. Shut' /\ StopIsClean'
  BY <1>2, StopKept DEF IInv, InFlight
<1>. QED
  BY <1>4, <1>5, <1>6, <1>7, <1>8, <1>9, <1>10, <1>11, <1>12 DEF IInv

\* A step towards the client: the request moves out by one place, and nothing
\* else happens to the answer.
LEMMA MovesOut ==
    ASSUME IInv, flow \in Under, at # 0, at' = at - 1, flow' \in {"out", "panic", "abort"},
           UNCHANGED <<chain, server, request, who, headers, out>>,
           flow = "in" => at > Len(chain),
           panicked' \in {"no", "clean", "begun", "abort"}, line' \in [status: Status, error: BOOLEAN]
    PROVE  /\ at' \in Nat /\ chain' = chain /\ out' = out /\ TypeOK' /\ Way' /\ Guarded'
           /\ Coupled' /\ Watched' /\ Carried' /\ Shut' /\ StopIsClean'
<1>1. /\ Len(chain) \in Nat /\ DOMAIN chain = 1..Len(chain) /\ at \in 0..Handler
      /\ Handler = Len(chain) + 1 /\ out \in OutType
  BY ChainFacts DEF IInv, TypeOK
<1>2. /\ at' \in 0..Handler /\ at' \in Nat
      /\ flow' \in {"idle", "in", "out", "panic", "abort", "cut", "done"}
      /\ who' \in {"nobody", "known", "entitled"} /\ headers' \subseteq HeaderName
  BY <1>1 DEF IInv, TypeOK
<1>3. TypeOK'
  BY <1>1, <1>2, TypeKept DEF IInv
<1>4. Way' /\ Guarded'
  BY DEF Way, Guarded
<1>5. Coupled'
  <2>1. Agreed(out, chain, at) /\ \A r \in Recorder : out.rec[r].status # 0
    BY DEF IInv, Coupled
  <2>2. Agreed(out, chain, at - 1)
    BY <1>1, <2>1 DEF Agreed
  <2>. QED
    BY <2>1, <2>2 DEF Coupled
<1>6. Watched'
  <2>1. \A i \in DOMAIN chain : Beyond(i)' => Beyond(i)
    BY <1>1 DEF Beyond, Under
  <2>. QED
    BY <2>1 DEF IInv, Watched
<1>7. Carried'
  <2>1. ASSUME NEW m, NEW h, CarriedBy(m, h)
        PROVE  CarriedBy(m, h)'
    <3>1. flow = "in" => \A i \in DOMAIN chain : i < at
      BY <1>1
    <3>2. Covers(m) => h \in headers
      BY <1>1, <2>1, <3>1 DEF CarriedBy, Covers, Has, Under
    <3>. QED
      BY <2>1, <3>2, ChainKept DEF CarriedBy
  <2>. QED
    BY <2>1 DEF IInv, Carried
<1>8. Shut' /\ StopIsClean'
  BY StopKept DEF IInv, InFlight, Under
<1>. QED
  BY <1>2, <1>3, <1>4, <1>5, <1>6, <1>7, <1>8

LEMMA HandlerEnds ==
    ASSUME IInv, Returns \/ Panics \/ Aborts
    PROVE  IInv'
<1>1. /\ InHandler /\ at' = at - 1 /\ flow' \in {"out", "panic", "abort"}
      /\ UNCHANGED <<chain, server, request, who, headers, out, line>>
  BY DEF Returns, Panics, Aborts, TurnBack, reqVars, respVars
<1>2. /\ flow' = "panic" => panicked' = IF out.status = 0 THEN "clean" ELSE "begun"
      /\ flow' = "abort" => panicked' = "abort"
      /\ flow' = "out" => panicked' = panicked
  BY DEF Returns, Panics, Aborts, TurnBack, reqVars
<1>3. /\ Len(chain) \in Nat /\ DOMAIN chain = 1..Len(chain) /\ at = Len(chain) + 1 /\ flow = "in"
  BY <1>1, ChainFacts DEF IInv, InHandler
<1>4. panicked = "no" /\ line = NoLine /\ line \in [status: Status, error: BOOLEAN]
  BY <1>3 DEF IInv, Way, TypeOK
<1>5. panicked' \in {"no", "clean", "begun", "abort"}
  BY <1>1, <1>2, <1>4
<1>6. /\ TypeOK' /\ Way' /\ Guarded' /\ Coupled' /\ Watched' /\ Carried' /\ Shut' /\ StopIsClean'
  BY <1>1, <1>3, <1>4, <1>5, MovesOut DEF Under
<1>7. \A i \in DOMAIN chain : at - 1 >= i
  BY <1>3
<1>8. Told'
  BY <1>1, <1>4, <1>7 DEF Told, NoLine
<1>9. Aftermath'
  BY <1>1, <1>2, <1>3, <1>4, <1>7 DEF IInv, Aftermath
<1>. QED
  BY <1>6, <1>8, <1>9 DEF IInv

LEMMA LoggingLeaves ==
    ASSUME IInv, LeaveLogging
    PROVE  IInv'
<1>. DEFINE on == out.rec["logging"].on
            status == out.rec["logging"].status
<1>1. /\ flow = "out" /\ flow' = "out" /\ at' = at - 1 /\ at \in DOMAIN chain /\ chain[at] = "logging"
      /\ UNCHANGED <<chain, server, request, who, panicked, headers, out>>
      /\ line' = IF on THEN Observed ELSE line
  BY ChainFacts DEF IInv, LeaveLogging, Leaving, TurnBack, reqVars
<1>2. /\ Len(chain) \in Nat /\ DOMAIN chain = 1..Len(chain) /\ out \in OutType
      /\ \A i, j \in DOMAIN chain : chain[i] = chain[j] => i = j
  BY ChainFacts DEF IInv
<1>3. /\ status \in Status /\ status # 0 /\ "logging" \in Recorder
      /\ line \in [status: Status, error: BOOLEAN] /\ panicked \in {"no", "clean", "begun", "abort"}
  <2>1. "logging" \in Recorder
    BY DEF Recorder
  <2>2. out.rec["logging"] \in Wrapped
    BY <1>2, <2>1 DEF OutType
  <2>. QED
    BY <2>1, <2>2 DEF IInv, Coupled, TypeOK, Wrapped
<1>4. /\ Observed \in [status: Status, error: BOOLEAN]
      /\ Observed.status = status
      /\ Observed.error <=> status >= 500 \/ "rpcFailed" \in headers
  BY <1>3 DEF Observed
<1>5. line' \in [status: Status, error: BOOLEAN]
  BY <1>1, <1>3, <1>4
<1>6. /\ TypeOK' /\ Way' /\ Guarded' /\ Coupled' /\ Watched' /\ Carried' /\ Shut' /\ StopIsClean'
  BY <1>1, <1>2, <1>3, <1>5, MovesOut DEF Under
<1>7. \A i \in DOMAIN chain : chain[i] = "logging" => i = at
  BY <1>1, <1>2
<1>8. line = NoLine
  BY <1>1, <1>2 DEF IInv, Told
<1>9. on <=> ~request.probe
  BY <1>1, <1>2 DEF IInv, Watched, Beyond
<1>10. on /\ ~out.hijacked => status = IF out.status = 0 THEN 200 ELSE out.status
  <2>1. Agreed(out, chain, at)
    BY <1>1 DEF IInv, Coupled, Under
  <2>. QED
    BY <1>1, <1>2, <1>3, <2>1 DEF Agreed
<1>11. Told'
  <2>1. line' # NoLine => on /\ line' = Observed
    BY <1>1, <1>8
  <2>2. on => line' # NoLine
    BY <1>1, <1>3, <1>4 DEF NoLine
  <2>3. \A i \in DOMAIN chain : chain[i] = "logging" => at - 1 < i
    BY <1>2, <1>7
  <2>4. line' # NoLine =>
            /\ ~out.hijacked => line'.status = IF out.status = 0 THEN 200 ELSE out.status
            /\ line'.error <=> line'.status >= 500 \/ "rpcFailed" \in headers
    BY <1>4, <1>10, <2>1
  <2>. HIDE DEF on, status
  <2>. QED
    BY <1>1, <1>9, <2>2, <2>3, <2>4 DEF Told
<1>12. Aftermath'
  BY <1>1 DEF IInv, Aftermath
<1>. QED
  BY <1>6, <1>11, <1>12 DEF IInv

LEMMA UnwindKeeps ==
    ASSUME IInv, Unwinds
    PROVE  IInv'
<1>1. /\ flow \in {"out", "panic", "abort"} /\ flow' = flow /\ at > 0 /\ at' = at - 1
      /\ UNCHANGED <<chain, server, request, who, panicked, headers, out, line>>
      /\ ~(flow = "out" /\ Leaving("logging")) /\ ~(flow = "panic" /\ Leaving("recovery"))
  BY DEF Unwinds, Caught, reqVars, respVars
<1>2. /\ Len(chain) \in Nat /\ DOMAIN chain = 1..Len(chain) /\ at \in Nat
  BY ChainFacts DEF IInv
<1>3. line \in [status: Status, error: BOOLEAN] /\ panicked \in {"no", "clean", "begun", "abort"}
  BY DEF IInv, TypeOK
<1>4. /\ TypeOK' /\ Way' /\ Guarded' /\ Coupled' /\ Watched' /\ Carried' /\ Shut' /\ StopIsClean'
  BY <1>1, <1>2, <1>3, MovesOut DEF Under
<1>5. /\ flow = "out" => \A i \in DOMAIN chain : chain[i] = "logging" => i # at
      /\ flow = "panic" => \A i \in DOMAIN chain : chain[i] = "recovery" => i # at
  BY <1>1, <1>2 DEF Leaving
<1>6. \A i \in DOMAIN chain : /\ i # at /\ at >= i => at - 1 >= i
                              /\ at < i => at - 1 < i
  BY <1>2
<1>7. Told'
  <2>1. Told /\ OutsideOf' = OutsideOf
    BY <1>1, ChainKept DEF IInv, OutsideOf
  <2>2. (line # NoLine =>
           /\ flow \in {"out", "done"}
           /\ \A i \in DOMAIN chain : chain[i] = "logging" => at < i
           /\ ~out.hijacked => line.status = IF out.status = 0 THEN 200 ELSE out.status
           /\ line.error <=> line.status >= 500 \/ "rpcFailed" \in headers)'
    BY <1>1, <1>6, <2>1 DEF Told, NoLine
  <2>3. (Covers("logging") /\ ~request.probe =>
           /\ flow = "out" => \/ line # NoLine \/ OutsideOf
                              \/ \A i \in DOMAIN chain : chain[i] = "logging" => at >= i
           /\ flow = "done" /\ out.status # 0 => line # NoLine \/ OutsideOf)'
    BY <1>1, <1>5, <1>6, <2>1, ChainKept DEF Told, NoLine
  <2>. QED
    BY <2>2, <2>3 DEF Told
<1>8. Aftermath'
  BY <1>1, <1>5, <1>6 DEF IInv, Aftermath
<1>. QED
  BY <1>4, <1>7, <1>8 DEF IInv

LEMMA RecoveryKeeps ==
    ASSUME IInv, Recovers
    PROVE  IInv'
<1>1. /\ flow = "panic" /\ flow' = "out" /\ at' = at - 1 /\ at \in DOMAIN chain /\ chain[at] = "recovery"
      /\ UNCHANGED <<chain, server, request, who, panicked, headers, line>>
      /\ out' = IF HasBegun THEN out ELSE WriteProblem(out, at, 500, headers)
  BY ChainFacts DEF IInv, Recovers, Caught, Leaving, TurnBack, reqVars
<1>2. /\ Len(chain) \in Nat /\ DOMAIN chain = 1..Len(chain) /\ at \in Nat /\ out \in OutType
      /\ Handler = Len(chain) + 1 /\ headers \in SUBSET HeaderName
      /\ \A i, j \in DOMAIN chain : chain[i] = chain[j] => i = j
  BY ChainFacts DEF IInv, TypeOK
<1>3. Agreed(out, chain, at) /\ Agree(out, at) /\ \A r \in Recorder : out.rec[r].status # 0
  BY <1>1, <1>2, AgreeAgreed DEF IInv, Coupled, Under
<1>4. line = NoLine /\ line' = NoLine /\ panicked \in {"clean", "begun"} /\ panicked' = panicked
  BY <1>1 DEF IInv, Told, Aftermath
<1>5. /\ out' \in OutType /\ out'.hijacked = out.hijacked
      /\ \A r \in Recorder : out'.rec[r].on = out.rec[r].on
      /\ \A r \in Recorder : out'.rec[r].status # 0
      /\ Agreed(out', chain, at)
      /\ out.status # 0 => out'.status = out.status /\ out'.head = out.head
      /\ out.status = 0 /\ out'.status # 0 => out'.head = headers
  <2>1. CASE HasBegun
    BY <1>1, <1>2, <1>3, <2>1
  <2>2. CASE ~HasBegun
    <3>. DEFINE s == 500
    <3>1. s \in Status \ {0} /\ out' = WriteProblem(out, at, s, headers)
      BY <1>1, <2>2 DEF Status
    <3>. HIDE DEF s
    <3>a. out \in OutType /\ at \in Nat /\ headers \in SUBSET HeaderName /\ Agree(out, at)
      BY <1>2, <1>3
    <3>b. Sent(out, out', s, headers) /\ Agree(out', at)
      BY <3>1, <3>a, WriteProblemSends
    <3>2. Sent(out, out', 500, headers) /\ Agree(out', at)
      BY <3>b DEF s
    <3>3. out' \in OutType /\ \A r \in Recorder : out'.rec[r].on = out.rec[r].on
      BY <3>2 DEF Sent
    <3>4. Agreed(out', chain, at)
      BY <1>2, <3>2, <3>3, AgreeAgreed DEF IInv
    <3>. QED
      BY <1>3, <3>2, <3>3, <3>4 DEF Sent
  <2>. QED
    BY <2>1, <2>2
<1>6. TypeOK'
  <2>1. /\ at' \in 0..Handler /\ headers' \subseteq HeaderName
        /\ who' \in {"nobody", "known", "entitled"} /\ panicked' \in {"no", "clean", "begun", "abort"}
        /\ line' \in [status: Status, error: BOOLEAN]
    BY <1>1, <1>2 DEF IInv, TypeOK
  <2>. QED
    BY <1>1, <1>5, <2>1, TypeKept DEF IInv
<1>7. Way' /\ Guarded'
  BY <1>1 DEF Way, Guarded
<1>8. Coupled'
  <2>1. Agreed(out', chain, at - 1)
    BY <1>2, <1>5 DEF Agreed
  <2>. QED
    BY <1>1, <1>5, <2>1 DEF Coupled
<1>9. Watched'
  <2>1. \A i \in DOMAIN chain : Beyond(i)' => Beyond(i)
    BY <1>1, <1>2 DEF Beyond
  <2>2. "logging" \in Recorder /\ "recovery" \in Recorder
    BY DEF Recorder
  <2>. QED
    BY <1>1, <1>5, <2>1, <2>2 DEF IInv, Watched
<1>10. Carried'
  <2>1. ASSUME NEW m, NEW h, CarriedBy(m, h)
        PROVE  CarriedBy(m, h)'
    <3>1. Covers(m) => h \in headers
      BY <1>1, <2>1 DEF CarriedBy
    <3>. QED
      BY <1>1, <1>5, <2>1, <3>1, ChainKept DEF CarriedBy
  <2>. QED
    BY <2>1 DEF IInv, Carried
<1>11. Told'
  <2>1. ASSUME Covers("logging"), Before("logging", "recovery"),
               NEW i \in DOMAIN chain, chain[i] = "logging"
        PROVE  at - 1 >= i
    <3>1. PICK j, k \in DOMAIN chain : j < k /\ chain[j] = "logging" /\ chain[k] = "recovery"
      BY <2>1 DEF Before
    <3>2. j = i /\ k = at
      BY <1>1, <1>2, <2>1, <3>1
    <3>. QED
      BY <1>2, <3>1, <3>2
  <2>. QED
    BY <1>1, <1>4, <2>1, ChainKept DEF Told, OutsideOf
<1>12. Aftermath'
  <2>1. \E r \in Recorder : out.rec[r].on /\ \E k \in DOMAIN chain : k <= at /\ chain[k] = r
    <3>1. \/ out.rec["recovery"].on
          \/ out.rec["logging"].on /\ \E k \in DOMAIN chain : k < at /\ chain[k] = "logging"
      BY <1>1, <1>2 DEF IInv, Watched, Beyond
    <3>. QED
      BY <1>1, <1>2, <3>1 DEF Recorder
  <2>2. PICK r \in Through(at) : TRUE
    BY <1>2, <2>1 DEF Through
  <2>3. ~out.hijacked => (HasBegun <=> out.status # 0)
    BY <1>3, <2>2 DEF Agree, HasBegun
  <2>4. ~out.hijacked => /\ out.status = 0 => out.body = {}
                         /\ "problem" \notin out.body
                         /\ panicked = "clean" <=> out.status = 0
    BY <1>1 DEF IInv, Aftermath
  <2>5. ASSUME ~out.hijacked, out.status = 0
        PROVE  out'.status = 500 /\ out'.body = {"problem"}
    <3>. DEFINE s == 500
    <3>1. s \in Status \ {0} /\ out' = WriteProblem(out, at, s, headers)
      BY <1>1, <2>3, <2>5 DEF Status
    <3>. HIDE DEF s
    <3>2. out \in OutType /\ at \in Nat /\ headers \in SUBSET HeaderName /\ Agree(out, at)
      BY <1>2, <1>3
    <3>3. /\ Sent(out, out', s, headers)
          /\ out'.body = IF out.hijacked THEN out.body ELSE out.body \cup {"problem"}
      BY <3>1, <3>2, WriteProblemSends
    <3>4. out'.status = s /\ out'.body = out.body \cup {"problem"}
      BY <2>5, <3>3 DEF Sent
    <3>. QED
      BY <2>4, <2>5, <3>4 DEF s
  <2>6. ASSUME ~out.hijacked, out.status # 0
        PROVE  out' = out
    BY <1>1, <2>3, <2>6
  <2>. QED
    BY <1>1, <1>4, <1>5, <2>4, <2>5, <2>6 DEF Aftermath
<1>13. Shut' /\ StopIsClean'
  BY <1>1, <1>5, StopKept DEF IInv, InFlight
<1>. QED
  BY <1>6, <1>7, <1>8, <1>9, <1>10, <1>11, <1>12, <1>13 DEF IInv

LEMMA FinishKeeps ==
    ASSUME IInv, Finish
    PROVE  IInv'
<1>1. /\ flow \in {"out", "panic", "abort"} /\ flow' = (IF flow = "out" THEN "done" ELSE "cut") /\ at = 0
      /\ out' = IF flow = "out" THEN Send(out, 200, headers) ELSE out
      /\ UNCHANGED <<at, chain, server, request, who, panicked, headers, line>>
  BY DEF Finish, reqVars
<1>2. /\ Len(chain) \in Nat /\ DOMAIN chain = 1..Len(chain) /\ out \in OutType
      /\ headers \in SUBSET HeaderName /\ 200 \in Status \ {0}
  BY ChainFacts DEF IInv, TypeOK, Status
<1>3. /\ out' \in OutType /\ out'.hijacked = out.hijacked /\ out'.rec = out.rec /\ out'.body = out.body
      /\ out.status # 0 => out'.status = out.status /\ out'.head = out.head
      /\ out.status = 0 /\ out'.status # 0 => out'.status = 200 /\ out'.head = headers
      /\ flow = "out" /\ ~out.hijacked => out'.status # 0
  <2>1. /\ Sent(out, Send(out, 200, headers), 200, headers)
        /\ Send(out, 200, headers).rec = out.rec /\ Send(out, 200, headers).body = out.body
    BY <1>2, SendSends
  <2>2. CASE flow = "out"
    BY <1>1, <1>2, <2>1, <2>2 DEF Sent
  <2>3. CASE flow # "out"
    BY <1>1, <1>2, <2>3
  <2>. QED
    BY <2>2, <2>3
<1>4. \A i \in DOMAIN chain : ~ at >= i
  BY <1>1, <1>2
<1>5. TypeOK'
  <2>1. /\ at' \in 0..Handler /\ headers' \subseteq HeaderName
        /\ flow' \in {"idle", "in", "out", "panic", "abort", "cut", "done"}
        /\ who' \in {"nobody", "known", "entitled"} /\ panicked' \in {"no", "clean", "begun", "abort"}
        /\ line' \in [status: Status, error: BOOLEAN]
    BY <1>1, <1>2 DEF IInv, TypeOK
  <2>. QED
    BY <1>1, <1>3, <2>1, TypeKept DEF IInv
<1>6. Way' /\ Guarded' /\ Watched'
  BY <1>1 DEF Way, Guarded, Watched, Beyond
<1>7. Coupled'
  BY <1>1, <1>3 DEF IInv, Coupled, Under
<1>8. Carried'
  <2>1. ASSUME NEW m, NEW h, CarriedBy(m, h)
        PROVE  CarriedBy(m, h)'
    <3>1. Covers(m) => h \in headers
      BY <1>1, <2>1 DEF CarriedBy
    <3>. QED
      BY <1>1, <1>3, <2>1, <3>1, ChainKept DEF CarriedBy
  <2>. QED
    BY <2>1 DEF IInv, Carried
<1>9. Told'
  <2>1. Told /\ OutsideOf' = OutsideOf
    BY <1>1, ChainKept DEF IInv, OutsideOf
  <2>2. (line # NoLine =>
           /\ flow \in {"out", "done"}
           /\ \A i \in DOMAIN chain : chain[i] = "logging" => at < i
           /\ ~out.hijacked => line.status = IF out.status = 0 THEN 200 ELSE out.status
           /\ line.error <=> line.status >= 500 \/ "rpcFailed" \in headers)'
    BY <1>1, <1>3, <2>1 DEF Told, NoLine
  <2>3. Covers("logging") => \E i \in DOMAIN chain : chain[i] = "logging" /\ ~ at >= i
    BY <1>4 DEF Covers, Has
  <2>4. flow' # "out" /\ (flow' = "done" => flow = "out")
    BY <1>1
  <2>5. (Covers("logging") /\ ~request.probe =>
           /\ flow = "out" => \/ line # NoLine \/ OutsideOf
                              \/ \A i \in DOMAIN chain : chain[i] = "logging" => at >= i
           /\ flow = "done" /\ out.status # 0 => line # NoLine \/ OutsideOf)'
    BY <1>1, <2>1, <2>3, <2>4, ChainKept DEF Told, NoLine
  <2>. QED
    BY <2>2, <2>5 DEF Told
<1>10. Aftermath'
  <2>1. Has("recovery")' = Has("recovery") /\ (flow = "panic" => ~Has("recovery"))
    BY <1>1, <1>4, ChainKept DEF IInv, Aftermath, Has
  <2>. QED
    BY <1>1, <1>3, <2>1 DEF IInv, Aftermath
<1>11. Shut' /\ StopIsClean'
  BY <1>1, <1>3, StopKept DEF IInv, InFlight
<1>. QED
  BY <1>5, <1>6, <1>7, <1>8, <1>9, <1>10, <1>11 DEF IInv

LEMMA FreshFacts ==
    /\ Fresh \in OutType /\ Fresh.status = 0 /\ ~Fresh.hijacked /\ Fresh.body = {} /\ Fresh.head = {}
    /\ \A r \in Recorder : ~Fresh.rec[r].on /\ ~Fresh.rec[r].wrote /\ Fresh.rec[r].status = 200
    /\ NoLine \in [status: Status, error: BOOLEAN]
BY DEF Fresh, NoLine, OutType, Wrapped, Status

LEMMA ForgetKeeps ==
    ASSUME IInv, Forget
    PROVE  IInv'
<1>1. /\ flow = "cut" /\ flow' = "done" /\ out' = Fresh /\ line' = NoLine /\ panicked' = "no"
      /\ UNCHANGED <<at, chain, server, request, who, headers>>
  BY DEF Forget
<1>2. TypeOK'
  <2>1. /\ at' \in 0..Handler /\ headers' \subseteq HeaderName /\ who' \in {"nobody", "known", "entitled"}
    BY <1>1 DEF IInv, TypeOK
  <2>. QED
    BY <1>1, <2>1, FreshFacts, TypeKept DEF IInv
<1>3. Way' /\ Guarded' /\ Watched'
  BY <1>1 DEF Way, Guarded, Watched, Beyond
<1>4. Coupled' /\ Told' /\ Aftermath'
  BY <1>1, FreshFacts DEF Coupled, Under, Told, NoLine, Aftermath
<1>5. Carried'
  BY <1>1, FreshFacts DEF Carried, CarriedBy
<1>6. Shut' /\ StopIsClean'
  BY <1>1, StopKept DEF IInv, InFlight
<1>. QED
  BY <1>2, <1>3, <1>4, <1>5, <1>6 DEF IInv

LEMMA ArriveKeeps ==
    ASSUME IInv, NEW q \in Requests, Arrive(q)
    PROVE  IInv'
<1>1. /\ server.listener = "open" /\ flow' = "in" /\ at' = 1 /\ request' = q
      /\ who' = "nobody" /\ headers' = {} /\ out' = Fresh /\ panicked' = "no" /\ line' = NoLine
      /\ chain' = chain /\ server' = server
  BY DEF Arrive
<1>2. Len(chain) \in Nat /\ DOMAIN chain = 1..Len(chain) /\ Handler' = Handler /\ Handler = Len(chain) + 1
  BY <1>1, ChainFacts, ChainKept DEF IInv
<1>3. TypeOK'
  <2>1. 1 \in 0..Handler
    BY <1>2
  <2>. QED
    BY <1>1, <1>2, <2>1, FreshFacts DEF IInv, TypeOK, OutType
<1>4. \A i \in DOMAIN chain : ~ i < 1
  BY <1>2
<1>5. Way' /\ Guarded' /\ Carried' /\ Told' /\ Aftermath'
  BY <1>1, <1>4, FreshFacts
  DEF Way, Guarded, Carried, CarriedBy, Told, NoLine, Aftermath
<1>6. Coupled'
  <2>1. Agreed(Fresh, chain, 1)
    BY FreshFacts DEF Agreed
  <2>. QED
    BY <1>1, <2>1, FreshFacts DEF Coupled
<1>7. Watched'
  BY <1>1, <1>4 DEF Watched, Beyond
<1>8. Shut' /\ StopIsClean'
  <2>1. server.stop = "none"
    BY <1>1 DEF IInv, Shut
  <2>. QED
    BY <1>1, <2>1 DEF IInv, Shut, StopIsClean
<1>. QED
  BY <1>3, <1>5, <1>6, <1>7, <1>8 DEF IInv

LEMMA ServerKeeps ==
    ASSUME IInv, ServerSteps
    PROVE  IInv'
<1>1. UNCHANGED <<chain, reqVars, respVars, moveVars>>
  BY DEF ServerSteps, Start, ListenerBreaks, StopBegins, ServeEnds, StopReturns
<1>2. UNCHANGED <<chain, request, who, panicked, headers, out, line, at, flow>>
  BY <1>1 DEF reqVars, respVars, moveVars
<1>3. server \in ServerType /\ Shut /\ StopIsClean
  BY DEF IInv, TypeOK
<1>4. InFlight' = InFlight
  BY <1>2 DEF InFlight
<1>5. server' \in ServerType /\ Shut' /\ StopIsClean'
  <2>1. CASE Start
    BY <1>2, <1>3, <1>4, <2>1 DEF Start, ServerType, Shut, StopIsClean
  <2>2. CASE ListenerBreaks
    BY <1>2, <1>3, <1>4, <2>2 DEF ListenerBreaks, ServerType, Shut, StopIsClean
  <2>3. CASE StopBegins
    BY <1>2, <1>3, <1>4, <2>3 DEF StopBegins, ServerType, Shut, StopIsClean
  <2>4. CASE ServeEnds
    BY <1>2, <1>3, <1>4, <2>4 DEF ServeEnds, Reported, ServeReturned, ServerType, Shut, StopIsClean
  <2>5. CASE StopReturns
    BY <1>2, <1>3, <1>4, <2>5 DEF StopReturns, Quiet, ServerType, Shut, StopIsClean
  <2>. QED
    BY <2>1, <2>2, <2>3, <2>4, <2>5 DEF ServerSteps
<1>6. TypeOK'
  <2>1. Handler' = Handler
    BY <1>2, ChainKept
  <2>. QED
    BY <1>2, <1>5, <2>1 DEF IInv, TypeOK
<1>7. Way' /\ Guarded' /\ Coupled'
  BY <1>2 DEF IInv, Way, Guarded, Coupled
<1>8. Watched' /\ Carried' /\ Told' /\ Aftermath'
  BY <1>2, ChainKept
  DEF IInv, Watched, Beyond, Carried, CarriedBy, Told, NoLine, OutsideOf, Aftermath
<1>. QED
  BY <1>5, <1>6, <1>7, <1>8 DEF IInv

LEMMA RecPut ==
    ASSUME NEW o \in OutType, NEW r \in Recorder, NEW b \in BOOLEAN
    PROVE  LET q == [o EXCEPT !.rec[r].on = b]
           IN  /\ q \in OutType /\ q.status = o.status /\ q.head = o.head /\ q.body = o.body
               /\ q.hijacked = o.hijacked /\ q.rec[r].on = b
               /\ \A x \in Recorder : /\ q.rec[x].wrote = o.rec[x].wrote
                                      /\ q.rec[x].status = o.rec[x].status
                                      /\ x # r => q.rec[x].on = o.rec[x].on
<1>. DEFINE rec == [o.rec EXCEPT ![r].on = b]
            q == [o EXCEPT !.rec = rec]
<1>1. \A x \in Recorder : o.rec[x] \in Wrapped
  BY DEF OutType
<1>2. o.rec \in [Recorder -> Wrapped]
  BY DEF OutType
<1>3. /\ rec \in [Recorder -> Wrapped] /\ rec[r].on = b
      /\ \A x \in Recorder : /\ rec[x].wrote = o.rec[x].wrote
                             /\ rec[x].status = o.rec[x].status
                             /\ x # r => rec[x].on = o.rec[x].on
  BY <1>1, <1>2 DEF Wrapped
<1>4. [o EXCEPT !.rec[r].on = b] = q
  BY DEF OutType
<1>. HIDE DEF rec
<1>5. /\ q \in OutType /\ q.status = o.status /\ q.head = o.head /\ q.body = o.body
      /\ q.hijacked = o.hijacked /\ q.rec = rec
  BY <1>3 DEF OutType
<1>. HIDE DEF q
<1>. QED
  BY <1>3, <1>4, <1>5

LEMMA DownKeeps ==
    ASSUME IInv, Down
    PROVE  IInv'
<1>1. /\ flow = "in" /\ at <= Len(chain) /\ at \in Nat /\ out \in OutType
      /\ UNCHANGED <<chain, server, request, panicked, line>>
      /\ headers \in SUBSET HeaderName /\ who \in {"nobody", "known", "entitled"}
  BY ChainFacts
  DEF IInv, TypeOK, Down, EnterRequestID, EnterLogging, EnterRecovery, EnterHeaders, EnterCors,
      EnterAuthenticate, EnterScope, Entering, reqVars
<1>2. Agreed(out, chain, at) /\ Agree(out, at)
  BY <1>1, AgreeAgreed DEF IInv, Coupled, Under
<1>3. {"requestID", "nosniff", "vary", "challenge"} \subseteq HeaderName
  BY DEF HeaderName
<1>4. {204, 401, 403} \subseteq Status \ {0}
  BY DEF Status
<1>5. CASE EnterRequestID
  <2>1. /\ chain[at] = "requestID" /\ CallNext /\ headers' = headers \cup {"requestID"}
        /\ who' = who /\ out' = out
    BY <1>5 DEF EnterRequestID, Entering, reqVars
  <2>. QED
    BY <1>1, <1>3, <2>1, PassesOn DEF Recorder
<1>6. CASE EnterHeaders
  <2>1. /\ chain[at] = "headers" /\ CallNext /\ headers' = headers \cup {"nosniff"}
        /\ who' = who /\ out' = out
    BY <1>6 DEF EnterHeaders, Entering, reqVars
  <2>. QED
    BY <1>1, <1>3, <2>1, PassesOn DEF Recorder
<1>7. CASE EnterLogging
  <2>1. /\ chain[at] = "logging" /\ CallNext /\ headers' = headers
        /\ who' = who /\ out' = [out EXCEPT !.rec["logging"].on = ~request.probe]
    BY <1>7 DEF EnterLogging, Entering, reqVars
  <2>2. /\ out' \in OutType /\ out'.status = out.status /\ out'.head = out.head /\ out'.body = out.body
        /\ out'.hijacked = out.hijacked /\ (out'.rec["logging"].on <=> ~request.probe)
        /\ \A x \in Recorder : /\ out'.rec[x].wrote = out.rec[x].wrote
                               /\ out'.rec[x].status = out.rec[x].status
                               /\ x # "logging" => out'.rec[x].on = out.rec[x].on
    <3>. DEFINE b == ~request.probe
                q == [out EXCEPT !.rec["logging"].on = b]
    <3>1. "logging" \in Recorder /\ b \in BOOLEAN
      BY DEF Recorder
    <3>2. out' = q
      BY <2>1
    <3>. HIDE DEF b
    <3>3. /\ q \in OutType /\ q.status = out.status /\ q.head = out.head /\ q.body = out.body
          /\ q.hijacked = out.hijacked /\ q.rec["logging"].on = b
          /\ \A x \in Recorder : /\ q.rec[x].wrote = out.rec[x].wrote
                                 /\ q.rec[x].status = out.rec[x].status
                                 /\ x # "logging" => q.rec[x].on = out.rec[x].on
      BY <1>1, <3>1, RecPut
    <3>. HIDE DEF q
    <3>4. out'.rec["logging"].on = b
      BY <3>2, <3>3
    <3>5. out'.rec["logging"].on <=> ~request.probe
      BY <3>4 DEF b
    <3>. QED
      BY <3>2, <3>3, <3>5
  <2>3. \A x \in Recorder : chain[at] # x => out'.rec[x].on = out.rec[x].on
    BY <2>1, <2>2
  <2>4. \A x \in Recorder : out'.rec[x].wrote = out.rec[x].wrote /\ out'.rec[x].status = out.rec[x].status
    BY <2>2
  <2>. QED
    BY <1>1, <2>1, <2>2, <2>3, <2>4, PassesOn
<1>8. CASE EnterRecovery
  <2>1. /\ chain[at] = "recovery" /\ CallNext /\ headers' = headers
        /\ who' = who /\ out' = [out EXCEPT !.rec["recovery"].on = ~out.rec["logging"].on]
    BY <1>8 DEF EnterRecovery, Entering, reqVars
  <2>2. /\ out' \in OutType /\ out'.status = out.status /\ out'.head = out.head /\ out'.body = out.body
        /\ out'.hijacked = out.hijacked /\ (out'.rec["recovery"].on <=> ~out.rec["logging"].on)
        /\ \A x \in Recorder : /\ out'.rec[x].wrote = out.rec[x].wrote
                               /\ out'.rec[x].status = out.rec[x].status
                               /\ x # "recovery" => out'.rec[x].on = out.rec[x].on
    <3>. DEFINE b == ~out.rec["logging"].on
                q == [out EXCEPT !.rec["recovery"].on = b]
    <3>1. "recovery" \in Recorder /\ b \in BOOLEAN
      BY DEF Recorder
    <3>2. out' = q
      BY <2>1
    <3>. HIDE DEF b
    <3>3. /\ q \in OutType /\ q.status = out.status /\ q.head = out.head /\ q.body = out.body
          /\ q.hijacked = out.hijacked /\ q.rec["recovery"].on = b
          /\ \A x \in Recorder : /\ q.rec[x].wrote = out.rec[x].wrote
                                 /\ q.rec[x].status = out.rec[x].status
                                 /\ x # "recovery" => q.rec[x].on = out.rec[x].on
      BY <1>1, <3>1, RecPut
    <3>. HIDE DEF q
    <3>4. out'.rec["recovery"].on = b
      BY <3>2, <3>3
    <3>5. out'.rec["recovery"].on <=> ~out.rec["logging"].on
      BY <3>4 DEF b
    <3>. QED
      BY <3>2, <3>3, <3>5
  <2>3. \A x \in Recorder : chain[at] # x => out'.rec[x].on = out.rec[x].on
    BY <2>1, <2>2
  <2>4. \A x \in Recorder : out'.rec[x].wrote = out.rec[x].wrote /\ out'.rec[x].status = out.rec[x].status
    BY <2>2
  <2>. QED
    BY <1>1, <2>1, <2>2, <2>3, <2>4, PassesOn
<1>9. CASE EnterCors
  <2>1. /\ chain[at] = "cors" /\ headers' = headers \cup {"vary"} /\ who' = who
        /\ UNCHANGED <<chain, server, reqVars, line>>
    BY <1>9 DEF EnterCors, Entering, reqVars
  <2>2. CASE request.preflight
    <3>1. out' = WriteHeader(out, at, 204, headers') /\ TurnBack
      BY <1>9, <2>2 DEF EnterCors
    <3>2. 204 \in Status \ {0} /\ headers' \in SUBSET HeaderName
      BY <1>1, <1>3, <1>4, <2>1
    <3>3. Sent(out, out', 204, headers') /\ Agree(out', at) /\ out'.body = out.body
      <4>1. 204 \in Status \ {0} /\ headers' \in SUBSET HeaderName /\ at \in Nat /\ out \in OutType
            /\ Agree(out, at)
        BY <1>1, <1>2, <3>2
      <4>. QED
        BY <4>1, <3>1, WriteHeaderSends
    <3>4. Agreed(out', chain, at)
      BY <1>1, <3>3, AgreeAgreed DEF IInv, Sent
    <3>. QED
      BY <1>1, <2>1, <3>1, <3>2, <3>3, <3>4, Refuses
  <2>3. CASE ~request.preflight
    <3>1. CallNext /\ out' = out
      BY <1>9, <2>3 DEF EnterCors
    <3>. QED
      BY <1>1, <1>3, <2>1, <2>3, <3>1, PassesOn DEF Recorder
  <2>. QED
    BY <2>2, <2>3
<1>10. CASE EnterAuthenticate
  <2>1. chain[at] = "authenticate"
    BY <1>10 DEF EnterAuthenticate, Entering
  <2>2. CASE Rejected
    <3>. DEFINE s == 401
    <3>1. /\ headers' = headers \cup {"challenge"} /\ out' = WriteProblem(out, at, s, headers')
          /\ TurnBack /\ UNCHANGED <<chain, server, reqVars, line>>
      BY <1>10, <2>2 DEF EnterAuthenticate, reqVars
    <3>2. s \in Status \ {0} /\ headers' \in SUBSET HeaderName
      BY <1>1, <1>3, <1>4, <3>1
    <3>. HIDE DEF s
    <3>3. /\ Sent(out, out', s, headers') /\ Agree(out', at)
          /\ out'.body = IF out.hijacked THEN out.body ELSE out.body \cup {"problem"}
      <4>1. s \in Status \ {0} /\ headers' \in SUBSET HeaderName /\ at \in Nat /\ out \in OutType
            /\ Agree(out, at)
        BY <1>1, <1>2, <3>2
      <4>. QED
        BY <4>1, <3>1, WriteProblemSends
    <3>4. Agreed(out', chain, at)
      BY <1>1, <3>3, AgreeAgreed DEF IInv, Sent
    <3>. QED
      BY <1>1, <2>1, <3>1, <3>2, <3>3, <3>4, Refuses
  <2>3. CASE ~Rejected
    <3>1. /\ who' = CASE request.token = "scoped" -> "entitled"
                      [] request.token = "good" -> "known"
                      [] OTHER -> who
          /\ CallNext /\ headers' = headers /\ out' = out
      BY <1>10, <2>3 DEF EnterAuthenticate
    <3>2. who' \in {"nobody", "known", "entitled"}
      BY <1>1, <3>1
    <3>3. who' = "entitled" =>
              who = "entitled" \/ (request.token = "scoped" /\ chain[at] = "authenticate")
      BY <2>1, <3>1
    <3>. QED
      BY <1>1, <2>1, <2>3, <3>1, <3>2, <3>3, PassesOn DEF Rejected, Recorder
  <2>. QED
    BY <2>2, <2>3
<1>11. CASE EnterScope
  <2>1. chain[at] = "scope" /\ who' = who /\ UNCHANGED <<chain, server, reqVars, line>>
    BY <1>11 DEF EnterScope, Entering, reqVars
  <2>2. CASE who = "entitled"
    <3>1. CallNext /\ headers' = headers /\ out' = out
      BY <1>11, <2>2 DEF EnterScope
    <3>. QED
      BY <1>1, <2>1, <2>2, <3>1, PassesOn DEF Recorder
  <2>3. CASE who # "entitled"
    <3>. DEFINE s == IF who = "nobody" THEN 401 ELSE 403
    <3>1. /\ headers' = headers \cup {"challenge"} /\ out' = WriteProblem(out, at, s, headers')
          /\ TurnBack
      BY <1>11, <2>3 DEF EnterScope
    <3>2. s \in Status \ {0} /\ headers' \in SUBSET HeaderName
      BY <1>1, <1>3, <1>4, <3>1
    <3>. HIDE DEF s
    <3>3. /\ Sent(out, out', s, headers') /\ Agree(out', at)
          /\ out'.body = IF out.hijacked THEN out.body ELSE out.body \cup {"problem"}
      <4>1. s \in Status \ {0} /\ headers' \in SUBSET HeaderName /\ at \in Nat /\ out \in OutType
            /\ Agree(out, at)
        BY <1>1, <1>2, <3>2
      <4>. QED
        BY <4>1, <3>1, WriteProblemSends
    <3>4. Agreed(out', chain, at)
      BY <1>1, <3>3, AgreeAgreed DEF IInv, Sent
    <3>. QED
      BY <1>1, <2>1, <3>1, <3>2, <3>3, <3>4, Refuses
  <2>. QED
    BY <2>2, <2>3
<1>. QED
  BY <1>5, <1>6, <1>7, <1>8, <1>9, <1>10, <1>11 DEF Down

LEMMA HandlerKeeps ==
    ASSUME IInv, HandlerSteps
    PROVE  IInv'
<1>1. CASE Returns \/ Panics \/ Aborts
  BY <1>1, HandlerEnds
<1>2. ASSUME Informs \/ WritesHeader \/ Writes \/ Flushes \/ Hijacks \/ FailsRpc
      PROVE  IInv'
  <2>1. /\ InHandler /\ at = Handler /\ Handler \in Nat /\ out \in OutType /\ headers \in SUBSET HeaderName
        /\ UNCHANGED <<chain, server, reqVars, line, moveVars>>
    BY <1>2, ChainFacts
    DEF IInv, TypeOK, InHandler, Informs, WritesHeader, Writes, Flushes, Hijacks, FailsRpc
  <2>2. Agreed(out, chain, at) /\ Agree(out, Handler) /\ \A r \in Recorder : out.rec[r].status # 0
    BY <2>1, AgreeAgreed DEF IInv, Coupled, Under, InHandler
  <2>3. CASE Informs
    <3>1. out' = [out EXCEPT !.informed = TRUE] /\ headers' = headers
      BY <2>3 DEF Informs, Passed
    <3>2. /\ out' \in OutType /\ out'.rec = out.rec /\ out'.status = out.status /\ out'.head = out.head
          /\ out'.body = out.body /\ out'.hijacked = out.hijacked
      BY <2>1, <3>1 DEF OutType
    <3>3. Agreed(out', chain, at)
      BY <2>2, <3>2 DEF Agreed
    <3>. QED
      BY <2>1, <2>2, <3>1, <3>2, <3>3, RunsHandler
  <2>4. CASE Hijacks
    <3>1. out' = [out EXCEPT !.hijacked = TRUE] /\ headers' = headers
      BY <2>4 DEF Hijacks
    <3>2. /\ out' \in OutType /\ out'.rec = out.rec /\ out'.status = out.status /\ out'.head = out.head
          /\ out'.body = out.body /\ out'.hijacked
      BY <2>1, <3>1 DEF OutType
    <3>3. Agreed(out', chain, at)
      BY <3>2 DEF Agreed
    <3>. QED
      BY <2>1, <2>2, <3>1, <3>2, <3>3, RunsHandler
  <2>5. CASE FailsRpc
    <3>1. out' = out /\ headers' = headers \cup {"rpcFailed"}
      BY <2>5 DEF FailsRpc
    <3>2. headers' \subseteq HeaderName
      BY <2>1, <3>1 DEF HeaderName
    <3>. QED
      BY <2>1, <2>2, <3>1, <3>2, RunsHandler
  <2>6. ASSUME headers' = headers, NEW s \in Status \ {0}, Sent(out, out', s, headers),
               Agree(out', Handler),
               out'.body = out.body \/ out'.body = out.body \cup {"handler"},
               ~out.hijacked /\ out'.body # out.body => out'.status # 0
        PROVE  IInv'
    <3>1. /\ out' \in OutType /\ out'.hijacked = out.hijacked
          /\ \A r \in Recorder : out'.rec[r].on = out.rec[r].on
          /\ \A r \in Recorder : out.rec[r].status # 0 => out'.rec[r].status # 0
          /\ out.status # 0 => out'.status = out.status /\ out'.head = out.head
          /\ out.status = 0 /\ out'.status # 0 => out'.head = headers
      BY <2>6 DEF Sent
    <3>2. Agreed(out', chain, at)
      BY <2>1, <2>6, <3>1, AgreeAgreed DEF IInv
    <3>3. "problem" \in out'.body => "problem" \in out.body
      BY <2>6
    <3>4. ~out'.hijacked /\ out'.status = 0 => out'.body = out.body
      BY <2>6, <3>1
    <3>. QED
      BY <2>1, <2>6, <3>1, <3>2, <3>3, <3>4, RunsHandler
  <2>7. CASE WritesHeader
    <3>1. PICK s \in HandlerStatus : out' = WriteHeader(out, Handler, s, headers)
      BY <2>7 DEF WritesHeader
    <3>2. s \in Status \ {0} /\ headers' = headers
      BY <2>7, <3>1 DEF HandlerStatus, Status, WritesHeader
    <3>3. Sent(out, out', s, headers) /\ Agree(out', Handler) /\ out'.body = out.body
      BY <2>1, <2>2, <3>1, <3>2, WriteHeaderSends
    <3>. QED
      BY <2>6, <3>2, <3>3
  <2>8. CASE Writes
    <3>1. out' = Write(out, Handler, "handler", headers) /\ headers' = headers
      BY <2>8 DEF Writes
    <3>2. /\ Sent(out, out', 200, headers) /\ Agree(out', Handler)
          /\ out'.body = IF out.hijacked THEN out.body ELSE out.body \cup {"handler"}
      <4>1. out \in OutType /\ Handler \in Nat /\ headers \in SUBSET HeaderName /\ Agree(out, Handler)
        BY <2>1, <2>2
      <4>. QED
        BY <4>1, <3>1, WriteSends
    <3>3. 200 \in Status \ {0}
      BY DEF Status
    <3>4. ~out.hijacked => out'.status # 0
      BY <3>2 DEF Sent
    <3>. QED
      BY <2>6, <3>1, <3>2, <3>3, <3>4
  <2>9. CASE Flushes
    <3>1. out' = Begun(out, Handler, headers) /\ headers' = headers
      BY <2>9 DEF Flushes, Flushed
    <3>2. Sent(out, out', 200, headers) /\ Agree(out', Handler) /\ out'.body = out.body
      BY <2>1, <2>2, <3>1, BegunSends
    <3>3. 200 \in Status \ {0}
      BY DEF Status
    <3>. QED
      BY <2>6, <3>1, <3>2, <3>3
  <2>. QED
    BY <1>2, <2>3, <2>4, <2>5, <2>7, <2>8, <2>9
<1>. QED
  BY <1>1, <1>2 DEF HandlerSteps

LEMMA Initially ==
    ASSUME Init
    PROVE  IInv
<1>1. /\ chain \in Chains /\ at = 0 /\ flow = "idle" /\ out = Fresh /\ line = NoLine
      /\ panicked = "no" /\ who = "nobody" /\ headers = {} /\ request = Anonymous
      /\ server = [listener |-> "closed", broke |-> FALSE, serve |-> "none", errc |-> "empty",
                   stop |-> "none"]
  BY DEF Init
<1>2. Len(chain) \in Nat
  BY <1>1, RequestAssumption DEF RequestAssumption
<1>3. TypeOK
  <2>1. 0 \in 0..Handler
    BY <1>2 DEF Handler
  <2>. QED
    BY <1>1, <2>1, FreshFacts DEF TypeOK, ServerType, OutType
<1>4. Way /\ Guarded /\ Watched /\ Coupled
  BY <1>1, FreshFacts DEF Way, Guarded, Watched, Beyond, Coupled, Under
<1>5. Carried /\ Told /\ Aftermath
  BY <1>1, FreshFacts DEF Carried, CarriedBy, Told, NoLine, Aftermath
<1>6. Shut /\ StopIsClean
  BY <1>1 DEF Shut, StopIsClean, InFlight
<1>. QED
  BY <1>3, <1>4, <1>5, <1>6 DEF IInv

LEMMA StutterKeeps ==
    ASSUME IInv, UNCHANGED vars
    PROVE  IInv'
<1>1. UNCHANGED <<chain, server, request, who, panicked, headers, out, line, at, flow>>
  BY DEF vars, reqVars, respVars, moveVars
<1>2. TypeOK' /\ Way' /\ Guarded' /\ Coupled' /\ Shut'
  BY <1>1, ChainKept DEF IInv, TypeOK, Way, Guarded, Coupled, Shut
<1>3. Watched' /\ Carried' /\ Told' /\ Aftermath' /\ StopIsClean'
  BY <1>1, ChainKept
  DEF IInv, Watched, Beyond, Carried, CarriedBy, Told, NoLine, OutsideOf, Aftermath, StopIsClean, InFlight
<1>. QED
  BY <1>2, <1>3 DEF IInv

-----------------------------------------------------------------------------
(* The theorems.                                                            *)

\* Whatever a handler does, and wherever a request is on its way through the
\* slice, the recorders in its way say what net/http has done
\* (middleware.go:227-263).
THEOREM Invariance == Spec => []IInv
<1>1. Init => IInv
  BY Initially
<1>2. IInv /\ [Next]_vars => IInv'
  <2>. SUFFICES ASSUME IInv, [Next]_vars PROVE IInv'
    OBVIOUS
  <2>1. CASE ServerSteps
    BY <2>1, ServerKeeps
  <2>2. CASE \E q \in Requests : Arrive(q)
    BY <2>2, ArriveKeeps
  <2>3. CASE Down
    BY <2>3, DownKeeps
  <2>4. CASE HandlerSteps
    BY <2>4, HandlerKeeps
  <2>5. CASE Up
    BY <2>5, LoggingLeaves, RecoveryKeeps, UnwindKeeps, FinishKeeps, ForgetKeeps DEF Up
  <2>6. CASE Exits \/ UNCHANGED vars
    BY <2>6, StutterKeeps DEF Exits
  <2>. QED
    BY <2>1, <2>2, <2>3, <2>4, <2>5, <2>6 DEF Next
<1>. QED
  BY <1>1, <1>2, PTL DEF Spec

\* Every reachable state of a request, its recorders and the Server is well typed.
THEOREM TypeCorrect == Spec => []TypeOK
<1>1. IInv => TypeOK
  BY DEF IInv
<1>. QED
  BY <1>1, Invariance, PTL

\* Under a Recovery a panic before anything was sent is a 500 problem and a later
\* one appends nothing, an abort is never made into an answer, and every answer
\* carries what was listed outside whatever gave it (middleware.go:171-215,
\* security.go:107-108).
THEOREM AnswerAlwaysIntact == Spec => []AnswerIntact
<1>1. IInv => PanicAnswered
  BY DEF IInv, Aftermath, PanicAnswered
<1>2. IInv => HeadersCarried
  BY DEF IInv, Carried, CarriedBy, HeadersCarried
<1>. QED
  BY <1>1, <1>2, Invariance, PTL DEF AnswerIntact

\* The access line has what the client was sent, and is there for every answer
\* that was not given outside Logging (middleware.go:85-135).
THEOREM LogAlwaysTellsTruth == Spec => []LogTellsTruth
<1>1. ASSUME IInv, flow = "done", out.status # 0, ~out.hijacked
      PROVE  /\ line # NoLine => /\ line.status = out.status
                                 /\ line.error <=> out.status >= 500 \/ "rpcFailed" \in headers
             /\ Covers("logging") /\ ~request.probe /\ (panicked = "no" \/ Before("logging", "recovery"))
                    => line # NoLine
  BY <1>1 DEF IInv, Told, OutsideOf
<1>2. IInv => LogTellsTruth
  BY <1>1 DEF LogTellsTruth
<1>. QED
  BY <1>2, Invariance, PTL

\* Nobody reaches a guarded handler who may not, in whatever order the slice was
\* listed (authn.go:120-128, 242-266, cors.go:127-136).
THEOREM HandlerAlwaysEntitled == Spec => []HandlerEntitled
<1>1. ASSUME IInv, InHandler
      PROVE  /\ Has("scope") => Before("authenticate", "scope") /\ request.token = "scoped"
             /\ Has("authenticate") => request.token # "bad"
             /\ Has("cors") => ~request.preflight
  <2>1. /\ flow = "in" /\ Guarded /\ \A i \in DOMAIN chain : i < at
    BY <1>1, ChainFacts DEF IInv, InHandler
  <2>. QED
    BY <2>1 DEF Guarded, Has, Before
<1>2. IInv => HandlerEntitled
  BY <1>1 DEF HandlerEntitled
<1>. QED
  BY <1>2, Invariance, PTL

\* A Stop that returned nil left no request behind, and what errc reports as an
\* error is a listener that broke, never a shutdown (web.go:151-191).
THEOREM StopAlwaysClean == Spec => []StopIsClean
<1>1. IInv => StopIsClean
  BY DEF IInv
<1>. QED
  BY <1>1, Invariance, PTL
=============================================================================

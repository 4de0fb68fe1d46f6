--------------------------- MODULE StartupProofs ---------------------------
(***************************************************************************)
(* What happens before a service serves: what a rollout does to the        *)
(* schema and WithTx to a transaction, for any pods, Jobs and number of    *)
(* migrations, with a session lock or without; what goboot new leaves      *)
(* behind, for any projects, module paths and number of invocations; and   *)
(* what Load makes of any struct, files and environment.                   *)
(***************************************************************************)
EXTENDS Startup, SequenceTheorems, TLAPS

-----------------------------------------------------------------------------
(* Database: the rollout and WithTx.                                        *)

Serving == {"up", "stopped"}

\* Whoever applies has everything before its next migration behind it, and, if
\* there is a lock, holds it and has everything from there on ahead.
Turn ==
    \A p \in Process : at[p] = "applying" =>
        /\ \A m \in Migration : m < next[p] => applied[m] > 0
        /\ Locking => lock = p /\ \A m \in Migration : m >= next[p] => applied[m] = 0

\* Where a WithTx stands, and what there is of its transaction by then.
InCall ==
    \A p \in Pod :
        /\ call[p] # "idle" => at[p] \in Serving
        /\ call[p] = "idle" => tx[p] = "none" /\ verdict[p] = "none"
        /\ call[p] = "fn" => tx[p] \in {"open", "rolledback"} /\ verdict[p] = "none"
        /\ call[p] = "ending" => tx[p] \in {"open", "rolledback"} /\ verdict[p] # "none"
        /\ told[p] # "none" <=> call[p] = "returned"

IInv == TypeOK /\ SchemaSound /\ Turn /\ InCall /\ TxHonest

-----------------------------------------------------------------------------
(* The steps that leave the schema, or the transactions, alone.             *)

\* Where no process begins or ends applying or serving, and the schema and the
\* lock stay, what is said of them stays.
LEMMA SchemaKept ==
    ASSUME IInv, UNCHANGED <<at, next, schemaVars>>, InCall'
    PROVE  SchemaSound' /\ Turn'
<1>1. applied' = applied /\ lock' = lock /\ at' = at /\ next' = next
  BY DEF schemaVars
<1>2. ASSUME NEW p \in Pod, tx'[p] = "open" PROVE at[p] \in Serving
  BY <1>1, <1>2 DEF InCall, Serving
<1>3. AllApplied' <=> AllApplied
  BY <1>1 DEF AllApplied
<1>. QED
  BY <1>1, <1>2, <1>3 DEF IInv, SchemaSound, Turn, Serving

\* A step of Start leaves every WithTx alone.
LEMMA TxKept ==
    ASSUME IInv, UNCHANGED txVars,
           \A p \in Pod : at[p] \in Serving => at'[p] \in Serving
    PROVE  InCall' /\ TxHonest'
<1>1. tx' = tx /\ call' = call /\ verdict' = verdict /\ told' = told /\ ctxDone' = ctxDone
  BY DEF txVars
<1>. QED
  BY <1>1 DEF IInv, InCall, TxHonest

-----------------------------------------------------------------------------
(* The type invariant.                                                      *)

LEMMA InitTyped == Init => TypeOK
BY DatabaseAssumption DEF DatabaseAssumption, Init, TypeOK, Process, Migration, Starting

\* A step of Start, or the death of the process.
LEMMA StartTyped ==
    ASSUME TypeOK, NEW p \in Process, StartSteps(p)
    PROVE  TypeOK'
<1>. USE DatabaseAssumption DEF DatabaseAssumption, Process
<1>a. Nobody \notin Process
  OBVIOUS
<1>1. CASE Boot(p)
  BY <1>1, <1>a DEF TypeOK, Boot, Move, Starting, schemaVars, txVars
<1>2. CASE Ping(p)
  BY <1>2, <1>a DEF TypeOK, Ping, Move, Starting, schemaVars, txVars
<1>3. CASE Lists(p)
  BY <1>3, <1>a DEF TypeOK, Lists, Move, Starting, txVars
<1>4. CASE Applies(p)
  <2>1. next[p] \in Migration /\ next[p] + 1 \in 1..Latest + 1
    BY <1>4 DEF TypeOK, Applies, Migration
  <2>. QED
    BY <1>4, <2>1 DEF TypeOK, Applies, Starting, txVars
<1>5. CASE Applied(p)
  <2>1. /\ at[p] = "applying"
        /\ at' = [at EXCEPT ![p] = IF p \in Job THEN "done" ELSE "up"]
        /\ open' = [open EXCEPT ![p] = p \in Pod]
        /\ UNCHANGED <<next, applied, tx, call, verdict, told, ctxDone>> /\ lock' = Free(p)
    BY <1>5 DEF Applied, Move, txVars
  <2>2. at' \in [Process -> Starting \cup {"down", "up", "stopped", "failed", "done"}]
    BY <2>1 DEF TypeOK
  <2>3. open' \in [Process -> BOOLEAN]
    BY <2>1 DEF TypeOK
  <2>4. \A q \in Process : at'[q] \in {"down", "stopped", "done"} => ~open'[q]
    BY <2>1 DEF TypeOK
  <2>5. /\ lock' \in Process \cup {Nobody}
        /\ \A q \in Process : lock' = q => at'[q] = "applying"
    BY <2>1, <1>a DEF TypeOK, Free
  <2>. QED
    BY <2>1, <2>2, <2>3, <2>4, <2>5 DEF TypeOK
<1>6. CASE Asks(p)
  BY <1>6, <1>a DEF TypeOK, Asks, Move, Starting, schemaVars, txVars
<1>7. CASE StartFails(p)
  BY <1>7, <1>a DEF TypeOK, StartFails, Free, Starting, txVars
<1>8. CASE Dies(p)
  <2>1. applied' \in [Migration -> 0..2] /\ next' \in [Process -> 1..Latest + 1]
    BY <1>8 DEF TypeOK, Dies
  <2>2. /\ at' \in [Process -> Starting \cup {"down", "up", "stopped", "failed", "done"}]
        /\ open' \in [Process -> BOOLEAN]
        /\ \A q \in Process : at'[q] \in {"down", "stopped", "done"} => ~open'[q]
    BY <1>8 DEF TypeOK, Dies
  <2>3. /\ lock' \in Process \cup {Nobody}
        /\ \A q \in Process : lock' = q => at'[q] = "applying"
    BY <1>8, <1>a DEF TypeOK, Dies, Free
  <2>4. /\ tx' \in [Pod -> {"none", "open", "committed", "rolledback"}]
        /\ call' \in [Pod -> {"idle", "fn", "ending", "returned"}]
        /\ verdict' \in [Pod -> {"none", "nil", "error", "panic"}]
        /\ told' \in [Pod -> {"none", "nil", "error", "panic"}]
        /\ ctxDone' \in [Pod -> BOOLEAN]
    <3>1. CASE p \in Pod
      <4>1. /\ tx' = [tx EXCEPT ![p] = "none"] /\ call' = [call EXCEPT ![p] = "idle"]
            /\ verdict' = [verdict EXCEPT ![p] = "none"]
            /\ told' = [told EXCEPT ![p] = "none"]
            /\ ctxDone' = [ctxDone EXCEPT ![p] = FALSE]
        BY <1>8, <3>1 DEF Dies
      <4>. QED
        BY <4>1 DEF TypeOK
    <3>2. CASE p \notin Pod
      BY <1>8, <3>2 DEF TypeOK, Dies, txVars
    <3>. QED
      BY <3>1, <3>2
  <2>. QED
    BY <2>1, <2>2, <2>3, <2>4 DEF TypeOK
<1>. QED
  BY <1>1, <1>2, <1>3, <1>4, <1>5, <1>6, <1>7, <1>8 DEF StartSteps

\* A step of WithTx, of its request, or Stop.
LEMMA PodTyped ==
    ASSUME TypeOK, NEW p \in Pod, PodSteps(p)
    PROVE  TypeOK'
<1>. USE DEF Process
<1>1. CASE Begins(p)
  BY <1>1 DEF TypeOK, Begins, Tells, startVars, schemaVars
<1>2. CASE RollsBack(p)
  BY <1>2 DEF TypeOK, RollsBack, Tells, Undone, startVars, schemaVars
<1>3. CASE Commits(p)
  BY <1>3 DEF TypeOK, Commits, Tells, startVars, schemaVars
<1>4. CASE NextRequest(p)
  BY <1>4 DEF TypeOK, NextRequest, startVars, schemaVars
<1>5. ASSUME NEW v \in {"nil", "error", "panic"}, FnReturns(p, v)
      PROVE  TypeOK'
  BY <1>5 DEF TypeOK, FnReturns, startVars, schemaVars
<1>6. CASE ContextEnds(p)
  BY <1>6 DEF TypeOK, ContextEnds, startVars, schemaVars
<1>7. CASE Vanishes(p)
  BY <1>7 DEF TypeOK, Vanishes, startVars, schemaVars
<1>8. CASE Stop(p)
  <2>1. UNCHANGED <<applied, lock, next, tx, call, verdict, told, ctxDone>>
    BY <1>8 DEF Stop, schemaVars, txVars
  <2>2. at' \in [Process -> Starting \cup {"down", "up", "stopped", "failed", "done"}]
    BY <1>8 DEF Stop, Move, TypeOK
  <2>3. open' \in [Process -> BOOLEAN]
    BY <1>8 DEF Stop, Closed, TypeOK
  <2>4. \A q \in Process : at'[q] \in {"down", "stopped", "done"} => ~open'[q]
    BY <1>8 DEF Stop, Move, Closed, TypeOK
  <2>5. \A q \in Process : lock' = q => at'[q] = "applying"
    BY <1>8, <2>1 DEF Stop, Move, TypeOK
  <2>. QED
    BY <2>1, <2>2, <2>3, <2>4, <2>5 DEF TypeOK
<1>. QED
  BY <1>1, <1>2, <1>3, <1>4, <1>5, <1>6, <1>7, <1>8 DEF PodSteps
-----------------------------------------------------------------------------
(* The schema.                                                              *)

\* A process that leaves what it was doing for something that neither applies
\* nor serves gives back the lock it may hold.
LEMMA SchemaLeft ==
    ASSUME IInv, NEW p \in Process, at'[p] \notin Serving \cup {"applying"},
           \A q \in Process \ {p} : at'[q] = at[q] /\ next'[q] = next[q],
           lock' = Free(p), applied' = applied,
           \A q \in Pod : tx'[q] = "open" => tx[q] = "open" /\ at'[q] \in Serving
    PROVE  SchemaSound' /\ Turn'
<1>1. AllApplied' <=> AllApplied
  BY DEF AllApplied
<1>2. SchemaSound'
  BY <1>1 DEF IInv, SchemaSound, Serving, Process
<1>3. ASSUME NEW q \in Process, at'[q] = "applying", Locking
      PROVE  lock' = q
  BY <1>3 DEF IInv, Turn, Free
<1>. QED
  BY <1>2, <1>3 DEF IInv, Turn

LEMMA StartSound ==
    ASSUME IInv, NEW p \in Process, StartSteps(p)
    PROVE  SchemaSound' /\ Turn'
<1>. USE DEF IInv
<1>t. /\ at \in [Process -> Starting \cup {"down", "up", "stopped", "failed", "done"}]
      /\ next \in [Process -> 1..Latest + 1] /\ applied \in [Migration -> 0..2]
      /\ \A q \in Process : lock = q => at[q] = "applying"
  BY DEF TypeOK
<1>o. \A q \in Pod : tx[q] = "open" => at[q] \in Serving
  BY DEF InCall, TypeOK
<1>s. Serving \cap (Starting \cup {"down", "failed", "done"}) = {}
  BY DEF Serving, Starting
<1>1. CASE Boot(p) \/ Ping(p)
  <2>1. /\ at[p] \in {"down", "pinging"} /\ at'[p] \in {"pinging", "locking", "asking"}
        /\ \A q \in Process \ {p} : at'[q] = at[q]
    BY <1>1, <1>t DEF Boot, Ping, Move
  <2>2. UNCHANGED <<next, applied, lock, tx>>
    BY <1>1 DEF Boot, Ping, schemaVars, txVars
  <2>3. lock' = Free(p)
    BY <2>1, <2>2, <1>t DEF Free
  <2>. QED
    <3>1. \A q \in Pod : tx'[q] = "open" => tx[q] = "open" /\ at'[q] \in Serving
      BY <2>1, <2>2, <1>o DEF Serving, Process
    <3>2. at'[p] \notin Serving \cup {"applying"}
      BY <2>1 DEF Serving
    <3>. QED
      BY <2>1, <2>2, <2>3, <3>1, <3>2, SchemaLeft
<1>2. CASE StartFails(p)
  <2>1. /\ at[p] \in Starting /\ at'[p] = "failed" /\ lock' = Free(p)
        /\ \A q \in Process \ {p} : at'[q] = at[q]
        /\ UNCHANGED <<next, applied, tx>>
    BY <1>2, <1>t DEF StartFails, txVars
  <2>. QED
    <3>1. \A q \in Pod : tx'[q] = "open" => tx[q] = "open" /\ at'[q] \in Serving
      BY <2>1, <1>o, <1>s DEF Process
    <3>2. at'[p] \notin Serving \cup {"applying"}
      BY <2>1 DEF Serving
    <3>. QED
      BY <2>1, <3>1, <3>2, SchemaLeft
<1>3. CASE Dies(p)
  <2>1. /\ at'[p] = "down" /\ lock' = Free(p) /\ applied' = applied
        /\ \A q \in Process \ {p} : at'[q] = at[q] /\ next'[q] = next[q]
    BY <1>3, <1>t DEF Dies
  <2>2. ASSUME NEW q \in Pod, tx'[q] = "open"
        PROVE  tx[q] = "open" /\ at'[q] \in Serving
    <3>1. tx \in [Pod -> {"none", "open", "committed", "rolledback"}]
      BY DEF TypeOK
    <3>2. q # p /\ tx[q] = "open"
      BY <1>3, <2>2, <3>1 DEF Dies, txVars
    <3>. QED
      BY <3>2, <2>1, <1>o DEF Process
  <2>. QED
    BY <2>1, <2>2, SchemaLeft DEF Serving
<1>4. CASE Asks(p)
  <2>1. /\ at[p] = "asking" /\ at'[p] = IF HasPending THEN "failed" ELSE "up"
        /\ \A q \in Process \ {p} : at'[q] = at[q]
        /\ UNCHANGED <<next, applied, lock, tx>>
    BY <1>4, <1>t DEF Asks, Move, schemaVars, txVars
  <2>2. ~HasPending => AllApplied
    BY <1>t DEF HasPending, AllApplied
  <2>3. AllApplied' <=> AllApplied
    BY <2>1 DEF AllApplied
  <2>4. SchemaSound'
    BY <2>1, <2>2, <2>3 DEF SchemaSound, Process
  <2>. QED
    BY <2>1, <2>4 DEF Turn
<1>5. CASE Applied(p)
  <2>1. /\ at[p] = "applying" /\ at'[p] \in {"done", "up"} /\ next[p] > Latest
        /\ \A q \in Process \ {p} : at'[q] = at[q]
        /\ UNCHANGED <<next, applied, tx>> /\ lock' = Free(p)
    BY <1>5, <1>t DEF Applied, Move, txVars
  <2>2. AllApplied /\ AllApplied'
    BY <2>1, <1>t, DatabaseAssumption DEF Turn, AllApplied, Migration, DatabaseAssumption
  <2>3. SchemaSound'
    BY <2>1, <2>2 DEF SchemaSound
  <2>4. ASSUME NEW q \in Process, at'[q] = "applying", Locking
        PROVE  q # p /\ lock' = q
    BY <2>1, <2>4 DEF Turn, Free
  <2>. QED
    BY <2>1, <2>3, <2>4 DEF Turn
<1>6. CASE Lists(p)
  <2>1. PICK version \in 1..Latest + 1 :
            /\ version \in Migration => applied[version] = 0
            /\ \A m \in 1..version - 1 : applied[m] > 0
            /\ next' = [next EXCEPT ![p] = version]
    BY <1>6 DEF Lists
  <2>2. /\ at[p] = "locking" /\ at'[p] = "applying" /\ next'[p] = version
        /\ \A q \in Process \ {p} : at'[q] = at[q] /\ next'[q] = next[q]
        /\ UNCHANGED <<applied, tx>>
        /\ IF Locking THEN lock = Nobody /\ lock' = p ELSE lock' = lock
    BY <1>6, <2>1, <1>t DEF Lists, Move, Locker, txVars
  <2>3. AllApplied' <=> AllApplied
    BY <2>2 DEF AllApplied
  <2>4. SchemaSound'
    BY <2>2, <2>3 DEF SchemaSound, Process
  <2>5. ASSUME NEW q \in Process, at'[q] = "applying", q # p
        PROVE  ~Locking /\ at[q] = "applying" /\ next'[q] = next[q]
    BY <2>2, <2>5, DatabaseAssumption DEF Turn, DatabaseAssumption, Process
  <2>6. \A m \in Migration : m < version => applied[m] > 0
    BY <2>1, DatabaseAssumption DEF Migration, DatabaseAssumption
  <2>7. \A m \in Migration : m >= version => applied[m] = 0
    <3>1. SUFFICES ASSUME NEW m \in Migration, m > version, applied[m] > 0 PROVE FALSE
      BY <2>1, <1>t, DatabaseAssumption DEF Migration, DatabaseAssumption
    <3>2. version \in Migration
      BY <3>1, DatabaseAssumption DEF Migration, DatabaseAssumption
    <3>3. applied[version] > 0
      BY <3>1, <3>2 DEF SchemaSound
    <3>. QED
      BY <2>1, <3>2, <3>3
  <2>. QED
    BY <2>2, <2>4, <2>5, <2>6, <2>7 DEF Turn
<1>7. CASE Applies(p)
  <2>. DEFINE version == next[p]
  <2>1. /\ at[p] = "applying" /\ version \in Migration /\ version \in Nat
        /\ applied' = [applied EXCEPT ![version] = IF @ = 0 THEN 1 ELSE 2]
        /\ next' = [next EXCEPT ![p] = version + 1]
        /\ UNCHANGED <<at, lock, tx>>
    BY <1>7, <1>t, DatabaseAssumption DEF Applies, Migration, txVars, DatabaseAssumption
  <2>2. /\ applied'[version] > 0
        /\ Locking => applied'[version] = 1
        /\ \A m \in Migration \ {version} : applied'[m] = applied[m]
    BY <2>1, <1>t DEF Turn, Migration
  <2>3. AllApplied => AllApplied'
    BY <2>2 DEF AllApplied
  <2>4. ASSUME NEW k \in Migration, NEW m \in Migration, k < m, applied'[m] > 0
        PROVE  applied'[k] > 0
    BY <2>1, <2>2, <2>4 DEF Turn, SchemaSound
  <2>5. SchemaSound'
    BY <2>1, <2>2, <2>3, <2>4 DEF SchemaSound
  <2>6. ASSUME NEW q \in Process, at'[q] = "applying", NEW m \in Migration, m < next'[q]
        PROVE  applied'[m] > 0
    BY <2>1, <2>2, <2>6, <1>t DEF Turn, Migration
  <2>7. ASSUME NEW q \in Process, at'[q] = "applying", Locking
        PROVE  /\ lock' = q
               /\ \A m \in Migration : m >= next'[q] => applied'[m] = 0
    <3>1. q = p
      BY <2>1, <2>7 DEF Turn
    <3>2. next'[q] = version + 1 /\ \A m \in Migration : m >= version => applied[m] = 0
      BY <2>1, <2>7, <3>1, <1>t DEF Turn
    <3>3. \A m \in Migration : m >= version + 1 => m >= version /\ m # version
      BY <2>1 DEF Migration
    <3>. QED
      BY <2>1, <2>2, <2>7, <3>1, <3>2, <3>3 DEF Turn
  <2>. QED
    BY <2>5, <2>6, <2>7 DEF Turn
<1>. QED
  BY <1>1, <1>2, <1>3, <1>4, <1>5, <1>6, <1>7 DEF StartSteps
\* Nothing a pod does once it serves touches the schema, and a transaction is
\* begun only there.
LEMMA PodSound ==
    ASSUME IInv, NEW p \in Pod, PodSteps(p), InCall', TypeOK'
    PROVE  SchemaSound' /\ Turn'
<1>1. CASE Stop(p)
  <2>1. /\ at[p] = "up" /\ at'[p] = "stopped" /\ UNCHANGED <<next, applied, lock, tx>>
        /\ \A q \in Process \ {p} : at'[q] = at[q]
    BY <1>1 DEF Stop, Move, IInv, TypeOK, schemaVars, txVars
  <2>2. AllApplied' <=> AllApplied
    BY <2>1 DEF AllApplied
  <2>3. SchemaSound'
    BY <2>1, <2>2 DEF IInv, SchemaSound, Process
  <2>. QED
    BY <2>1, <2>3 DEF IInv, Turn
<1>2. CASE ~Stop(p)
  <2>1. UNCHANGED <<startVars, schemaVars>>
    BY <1>2 DEF PodSteps, Begins, RollsBack, Commits, NextRequest, FnReturns,
                ContextEnds, Vanishes
  <2>. QED
    BY <2>1, SchemaKept DEF startVars, schemaVars
<1>. QED
  BY <1>1, <1>2

-----------------------------------------------------------------------------
(* The transactions.                                                        *)

LEMMA StartTx ==
    ASSUME IInv, NEW p \in Process, StartSteps(p)
    PROVE  InCall' /\ TxHonest'
<1>. USE DEF IInv
<1>t. /\ at \in [Process -> Starting \cup {"down", "up", "stopped", "failed", "done"}]
      /\ tx \in [Pod -> {"none", "open", "committed", "rolledback"}]
      /\ call \in [Pod -> {"idle", "fn", "ending", "returned"}]
      /\ verdict \in [Pod -> {"none", "nil", "error", "panic"}]
      /\ told \in [Pod -> {"none", "nil", "error", "panic"}]
  BY DEF TypeOK
<1>1. CASE ~Dies(p)
  <2>1. UNCHANGED txVars
    BY <1>1 DEF StartSteps, Boot, Ping, Lists, Applies, Applied, Asks, StartFails
  <2>2. at[p] \notin Serving \/ at' = at
    BY <1>1 DEF StartSteps, Boot, Ping, Lists, Applies, Applied, Asks, StartFails, Move,
                Serving, Starting
  <2>3. \A q \in Process \ {p} : at'[q] = at[q]
    BY <1>1, <1>t DEF StartSteps, Boot, Ping, Lists, Applies, Applied, Asks, StartFails, Move
  <2>. QED
    BY <2>1, <2>2, <2>3, TxKept DEF Process
<1>2. CASE Dies(p) /\ p \in Pod
  <2>1. /\ tx'[p] = "none" /\ call'[p] = "idle" /\ verdict'[p] = "none" /\ told'[p] = "none"
        /\ \A q \in Pod \ {p} :
              /\ tx'[q] = tx[q] /\ call'[q] = call[q] /\ verdict'[q] = verdict[q]
              /\ told'[q] = told[q] /\ ctxDone'[q] = ctxDone[q] /\ at'[q] = at[q]
    BY <1>2, <1>t DEF Dies, TypeOK, Process
  <2>2. InCall'
    BY <2>1 DEF InCall
  <2>3. TxHonest'
    BY <2>1 DEF TxHonest
  <2>. QED
    BY <2>2, <2>3
<1>3. CASE Dies(p) /\ p \notin Pod
  <2>1. UNCHANGED txVars /\ \A q \in Process \ {p} : at'[q] = at[q]
    BY <1>3, <1>t DEF Dies
  <2>. QED
    BY <1>3, <2>1, TxKept DEF Process
<1>. QED
  BY <1>1, <1>2, <1>3

\* What is said of one pod's transaction.
InCallOf(p) ==
    /\ call[p] # "idle" => at[p] \in Serving
    /\ call[p] = "idle" => tx[p] = "none" /\ verdict[p] = "none"
    /\ call[p] = "fn" => tx[p] \in {"open", "rolledback"} /\ verdict[p] = "none"
    /\ call[p] = "ending" => tx[p] \in {"open", "rolledback"} /\ verdict[p] # "none"
    /\ told[p] # "none" <=> call[p] = "returned"

HonestOf(p) ==
    /\ told[p] = "nil" => tx[p] = "committed"
    /\ tx[p] = "committed" => verdict[p] = "nil"
    /\ call[p] = "returned" /\ tx[p] = "open" => ctxDone[p]
    /\ call[p] = "returned" => (told[p] = "panic" <=> verdict[p] = "panic")

\* A pod's step is about its own.
LEMMA OnePod ==
    ASSUME IInv, NEW p \in Pod,
           \A q \in Pod \ {p} :
              /\ tx'[q] = tx[q] /\ call'[q] = call[q] /\ verdict'[q] = verdict[q]
              /\ told'[q] = told[q] /\ ctxDone'[q] = ctxDone[q] /\ at'[q] = at[q],
           InCallOf(p)', HonestOf(p)'
    PROVE  InCall' /\ TxHonest'
<1>1. InCall'
  BY DEF IInv, InCall, InCallOf
<1>2. TxHonest'
  BY DEF IInv, TxHonest, HonestOf
<1>. QED
  BY <1>1, <1>2

LEMMA PodTx ==
    ASSUME IInv, NEW p \in Pod, PodSteps(p)
    PROVE  InCall' /\ TxHonest'
<1>t. /\ at \in [Process -> Starting \cup {"down", "up", "stopped", "failed", "done"}]
      /\ tx \in [Pod -> {"none", "open", "committed", "rolledback"}]
      /\ call \in [Pod -> {"idle", "fn", "ending", "returned"}]
      /\ verdict \in [Pod -> {"none", "nil", "error", "panic"}]
      /\ told \in [Pod -> {"none", "nil", "error", "panic"}]
      /\ ctxDone \in [Pod -> BOOLEAN]
  BY DEF IInv, TypeOK
<1>i. InCallOf(p) /\ HonestOf(p)
  BY DEF IInv, InCall, TxHonest, InCallOf, HonestOf
<1>p. p \in Process
  BY DEF Process
<1>o. \A q \in Pod \ {p} :
         /\ tx'[q] = tx[q] /\ call'[q] = call[q] /\ verdict'[q] = verdict[q]
         /\ told'[q] = told[q] /\ ctxDone'[q] = ctxDone[q] /\ at'[q] = at[q]
  <2>1. CASE Stop(p)
    BY <2>1, <1>t DEF Stop, Move, txVars, Process
  <2>2. CASE ~Stop(p)
    BY <2>2, <1>t DEF PodSteps, Begins, RollsBack, Commits, NextRequest, FnReturns,
                      ContextEnds, Vanishes, Tells, startVars
  <2>. QED
    BY <2>1, <2>2
<1>a. ~Stop(p) => at' = at
  BY DEF PodSteps, Begins, RollsBack, Commits, NextRequest, FnReturns, ContextEnds,
         Vanishes, startVars
<1>. SUFFICES InCallOf(p)' /\ HonestOf(p)'
  BY <1>o, OnePod
<1>1. CASE Begins(p)
  BY <1>1, <1>i, <1>t DEF Begins, Tells, InCallOf, HonestOf, Serving, startVars
<1>2. CASE RollsBack(p)
  BY <1>2, <1>i, <1>t DEF RollsBack, Tells, Undone, InCallOf, HonestOf, startVars
<1>3. CASE Commits(p)
  <2>1. /\ call[p] = "ending" /\ verdict[p] = "nil" /\ call'[p] = "returned"
        /\ verdict' = verdict /\ at' = at /\ ctxDone' = ctxDone
    BY <1>3, <1>i, <1>t DEF Commits, Tells, Undone, InCallOf, startVars
  <2>2. \/ tx'[p] = "committed" /\ told'[p] = "nil"
        \/ tx'[p] \in {"committed", "rolledback"} /\ told'[p] = "error"
        \/ (tx[p] # "open" \/ ctxDone[p]) /\ told'[p] = "error" /\ tx'[p] = tx[p]
    BY <1>3, <1>t DEF Commits, Tells
  <2>. QED
    BY <2>1, <2>2, <1>i DEF InCallOf, HonestOf
<1>4. CASE NextRequest(p)
  BY <1>4, <1>t DEF NextRequest, InCallOf, HonestOf, startVars
<1>5. ASSUME NEW v \in {"nil", "error", "panic"}, FnReturns(p, v)
      PROVE  InCallOf(p)' /\ HonestOf(p)'
  BY <1>5, <1>i, <1>t DEF FnReturns, InCallOf, HonestOf, startVars
<1>6. CASE ContextEnds(p)
  BY <1>6, <1>i, <1>t DEF ContextEnds, InCallOf, HonestOf, startVars
<1>7. CASE Vanishes(p)
  BY <1>7, <1>i, <1>t DEF Vanishes, InCallOf, HonestOf, startVars
<1>8. CASE Stop(p)
  BY <1>8, <1>i, <1>t, <1>p DEF Stop, Move, Serving, InCallOf, HonestOf, txVars
<1>. QED
  BY <1>1, <1>2, <1>3, <1>4, <1>5, <1>6, <1>7, <1>8 DEF PodSteps

-----------------------------------------------------------------------------
(* The theorems.                                                            *)

LEMMA InitIInv == Init => IInv
<1>. SUFFICES ASSUME Init PROVE IInv
  OBVIOUS
<1>1. TypeOK
  BY InitTyped
<1>2. SchemaSound
  BY DatabaseAssumption DEF DatabaseAssumption, Init, SchemaSound, Process, Migration
<1>3. Turn
  BY DEF Init, Turn
<1>4. InCall
  BY DEF Init, InCall
<1>5. TxHonest
  BY DEF Init, TxHonest
<1>. QED
  BY <1>1, <1>2, <1>3, <1>4, <1>5 DEF IInv

LEMMA StutterIInv ==
    ASSUME IInv, UNCHANGED vars
    PROVE  IInv'
<1>1. UNCHANGED <<applied, lock, at, next, open, tx, call, verdict, told, ctxDone>>
  BY DEF vars, schemaVars, startVars, txVars
<1>. QED
  BY <1>1 DEF IInv, TypeOK, SchemaSound, Turn, InCall, TxHonest, AllApplied

\* The inductive invariant holds throughout a rollout (db.go:160-235).
THEOREM Invariance == Spec => []IInv
<1>1. ASSUME IInv, NEW p \in Process, StartSteps(p)
      PROVE  IInv'
  BY <1>1, StartTyped, StartSound, StartTx DEF IInv
<1>2. ASSUME IInv, NEW p \in Pod, PodSteps(p)
      PROVE  IInv'
  <2>1. TypeOK'
    BY <1>2, PodTyped DEF IInv
  <2>2. InCall' /\ TxHonest'
    BY <1>2, PodTx
  <2>3. SchemaSound' /\ Turn'
    BY <1>2, <2>1, <2>2, PodSound
  <2>. QED
    BY <2>1, <2>2, <2>3 DEF IInv
<1>3. IInv /\ [Next]_vars => IInv'
  BY <1>1, <1>2, StutterIInv DEF Next
<1>. QED
  BY InitIInv, <1>3, PTL DEF Spec

\* Every reachable state of a rollout is well typed: only who is applying holds
\* the lock, and whoever has stopped has closed its pool (db.go:194-235).
THEOREM TypeCorrect == Spec => []TypeOK
<1>1. IInv => TypeOK
  BY DEF IInv
<1>. QED
  BY <1>1, Invariance, PTL

\* For any pods, Jobs and migrations, dying and coming back as they like: the
\* schema is a first part of the migrations, each of them once if there is a
\* session lock, and no pod serves before all of them (db.go:18-22, 117-120,
\* 194-230).
THEOREM SchemaAlwaysSound == Spec => []SchemaSound
<1>1. IInv => SchemaSound
  BY DEF IInv
<1>. QED
  BY <1>1, Invariance, PTL

\* Whenever its context ends, its connection breaks or fn panics, WithTx says nil
\* only for what was committed and commits only what fn was content with
\* (db.go:160-186).
THEOREM TxAlwaysHonest == Spec => []TxHonest
<1>1. IInv => TxHonest
  BY DEF IInv
<1>. QED
  BY <1>1, Invariance, PTL
-----------------------------------------------------------------------------
(* Scaffold: a directory with a go.mod holds one whole project, and goboot  *)
(* new never merges.                                                        *)

-----------------------------------------------------------------------------
(* The inductive invariant                                                  *)

Here(d) == DOMAIN disk[d].files
First(i, k) == {Files(i)[j] : j \in 1..k}

\* What an invocation has done by the place it is at.
Progress(i) ==
    /\ pc[i] = "ready" => met[i] = {} /\ n[i] = 0
    /\ Writing(i) => IsInvocation(i) /\ Name(i) # Nameless
    /\ pc[i] = "stat" => n[i] = 0
    /\ pc[i] = "copy" => n[i] < Len(Files(i))

\* Two invocations that write into one directory have met.
HaveMet ==
    \A i, j \in Invocation :
        i # j /\ Writing(i) /\ Writing(j) /\ Name(i) = Name(j) => j \in met[i]

\* What an invocation finds where it writes is of one that it has met.
FoundByMeeting ==
    \A i, j \in Invocation : i # j /\ Writing(j) =>
        \A f \in Here(Name(j)) : Author(Name(j), f) = i => j \in met[i]

\* An invocation that met no other has the directory to itself.
OwnDirectory(i) ==
    Writing(i) /\ Alone(i) =>
        /\ disk[Name(i)].exists <=> pc[i] = "copy"
        /\ Here(Name(i)) = First(i, n[i])
        /\ \A f \in Here(Name(i)) : /\ Author(Name(i), f) \in {i, "developer"}
                                    /\ disk[Name(i)].files[f].whole

\* A directory that is not there has no files, and goboot alone writes a go.mod.
Sane(d) ==
    /\ ~disk[d].exists => Here(d) = {}
    /\ "go.mod" \in Here(d) => Author(d, "go.mod") \in Invocation

Inv ==
    /\ ScaffoldTypeOK
    /\ \A i \in Invocation : Progress(i)
    /\ HaveMet
    /\ FoundByMeeting
    /\ \A i \in Invocation : OwnDirectory(i)
    /\ \A d \in Directory : Sane(d)
    /\ GoModMeansWhole

-----------------------------------------------------------------------------
(* Projects, names and files                                                *)

LEMMA ProjectFacts ==
    ASSUME ScaffoldTypeOK, NEW i \in Invocation
    PROVE  /\ Flavour(i) \in DOMAIN Project /\ Project[Flavour(i)] \in Seq(STRING)
           /\ n[i] \in Nat /\ Len(Files(i)) \in Nat /\ Len(Project[Flavour(i)]) \in Nat
           /\ Len(Files(i)) = Len(Project[Flavour(i)]) + 1
           /\ Most \in Nat /\ Len(Files(i)) <= Most
           /\ \A k \in 1..Len(Project[Flavour(i)]) : Files(i)[k] = Project[Flavour(i)][k]
           /\ Files(i)[Len(Files(i))] = "go.mod"
<1>1. DOMAIN Project = {"http", "grpc"} /\ \A g \in DOMAIN Project : Project[g] \in Seq(STRING)
  BY ScaffoldAssumption DEF ScaffoldAssumption
<1>2. Flavour(i) \in DOMAIN Project
  BY <1>1 DEF Flavour
<1>3. Len(Project["http"]) \in Nat /\ Len(Project["grpc"]) \in Nat
  BY <1>1
<1>4. Flavour(i) = "http" \/ Flavour(i) = "grpc"
  BY DEF Flavour
<1>5. ASSUME NEW s \in Seq(STRING)
      PROVE  /\ Len(s) \in Nat /\ Len(Append(s, "go.mod")) = Len(s) + 1
             /\ \A k \in 1..Len(s) : Append(s, "go.mod")[k] = s[k]
             /\ Append(s, "go.mod")[Len(s) + 1] = "go.mod"
  OBVIOUS
<1>6. Project[Flavour(i)] \in Seq(STRING)
  BY <1>1, <1>2
<1>7. Len(Project[Flavour(i)]) + 1 <= Len(Project["http"]) + Len(Project["grpc"]) + 1
  <2>1. Len(Project[Flavour(i)]) = Len(Project["http"]) \/ Len(Project[Flavour(i)]) = Len(Project["grpc"])
    BY <1>4
  <2>2. \A a, b, c \in Nat : a = b \/ a = c => a + 1 <= b + c + 1
    OBVIOUS
  <2>3. Len(Project[Flavour(i)]) \in Nat
    BY <1>6
  <2>. QED
    BY <2>1, <2>2, <2>3, <1>3, Zenon
<1>8. Most \in Nat
  <2>1. \A a, b \in Nat : a + b + 1 \in Nat
    OBVIOUS
  <2>. QED
    BY <2>1, <1>3, Zenon DEF Most
<1>9. n[i] \in Nat
  BY <1>8 DEF ScaffoldTypeOK
<1>10. Len(Project[Flavour(i)]) + 1 <= Most
  BY <1>7, Zenon DEF Most
<1>11. /\ Len(Files(i)) = Len(Project[Flavour(i)]) + 1 /\ Len(Project[Flavour(i)]) \in Nat
       /\ \A k \in 1..Len(Project[Flavour(i)]) : Files(i)[k] = Project[Flavour(i)][k]
       /\ Files(i)[Len(Project[Flavour(i)]) + 1] = "go.mod"
  BY <1>5, <1>6, Zenon DEF Files
<1>12. \A l \in Nat : l + 1 \in Nat
  OBVIOUS
<1>. QED
  BY <1>2, <1>6, <1>8, <1>9, <1>10, <1>11, <1>12, Zenon

LEMMA FilesFacts ==
    ASSUME ScaffoldTypeOK, NEW i \in Invocation
    PROVE  /\ \A k \in 1..Len(Files(i)) : Files(i)[k] \in File
           /\ \A k, l \in 1..Len(Files(i)) : Files(i)[k] = Files(i)[l] => k = l
           /\ \A k \in 1..Len(Files(i)) : Files(i)[k] = "go.mod" => k = Len(Files(i))
           /\ Range(Files(i)) = First(i, Len(Files(i)))
           /\ Range(Project[Flavour(i)]) = First(i, Len(Files(i)) - 1)
<1>. DEFINE P == Project[Flavour(i)]
<1>1. Flavour(i) \in DOMAIN Project /\ P \in Seq(STRING) /\ IsInjective(P) /\ "go.mod" \notin Range(P)
  BY ProjectFacts, ScaffoldAssumption DEF ScaffoldAssumption
<1>2. DOMAIN P = 1..Len(P) /\ Len(P) \in Nat /\ Len(Files(i)) = Len(P) + 1
  <2>1. DOMAIN P = 1..Len(P) /\ Len(P) \in Nat
    BY <1>1
  <2>. QED
    BY <2>1, ProjectFacts, Zenon
<1>3. \A k \in 1..Len(P) : /\ Files(i)[k] = P[k] /\ P[k] \in Range(P) /\ P[k] # "go.mod"
                            /\ P[k] \in File
  <2>1. \A k \in 1..Len(P) : P[k] \in Range(P)
    BY <1>2 DEF Range
  <2>2. Range(P) \subseteq File
    BY <1>1 DEF File
  <2>3. \A k \in 1..Len(P) : Files(i)[k] = P[k]
    BY ProjectFacts
  <2>. QED
    BY <2>1, <2>2, <2>3, <1>1
<1>4. Files(i)[Len(P) + 1] = "go.mod"
  BY <1>2, ProjectFacts
<1>5. \A k, l \in 1..Len(P) : P[k] = P[l] => k = l
  BY <1>1, <1>2 DEF IsInjective
<1>6. \A k \in 1..Len(P) + 1 : k \in 1..Len(P) \/ k = Len(P) + 1
  BY <1>2
<1>7. \A k \in 1..Len(Files(i)) : Files(i)[k] \in File
  BY <1>2, <1>3, <1>4, <1>6 DEF File
<1>8. \A k, l \in 1..Len(Files(i)) : Files(i)[k] = Files(i)[l] => k = l
  BY <1>2, <1>3, <1>4, <1>5, <1>6
<1>9. \A k \in 1..Len(Files(i)) : Files(i)[k] = "go.mod" => k = Len(Files(i))
  BY <1>2, <1>3, <1>4, <1>6
<1>10. DOMAIN Files(i) = 1..Len(Files(i))
  BY <1>1, ProjectFacts DEF Files
<1>11. Range(Files(i)) = First(i, Len(Files(i)))
  BY <1>10 DEF Range, First
<1>12. Range(P) = First(i, Len(Files(i)) - 1)
  <2>1. Len(Files(i)) - 1 = Len(P)
    BY <1>2
  <2>2. Range(P) = {P[k] : k \in 1..Len(P)}
    BY <1>2 DEF Range
  <2>3. First(i, Len(P)) = {Files(i)[k] : k \in 1..Len(P)}
    BY DEF First
  <2>. QED
    BY <2>1, <2>2, <2>3, <1>3
<1>. QED
  BY <1>7, <1>8, <1>9, <1>11, <1>12

LEMMA RangeFacts ==
    ASSUME ScaffoldTypeOK, NEW i \in Invocation
    PROVE  Range(Project[Flavour(i)]) \subseteq Range(Files(i))
<1>1. Len(Files(i)) \in Nat
  BY ProjectFacts
<1>2. First(i, Len(Files(i)) - 1) \subseteq First(i, Len(Files(i)))
  BY <1>1 DEF First
<1>3. /\ Range(Files(i)) = First(i, Len(Files(i)))
      /\ Range(Project[Flavour(i)]) = First(i, Len(Files(i)) - 1)
  BY FilesFacts
<1>. QED
  BY <1>2, <1>3

LEMMA FirstMore ==
    ASSUME NEW i \in Invocation, NEW k \in Nat
    PROVE  First(i, k + 1) = First(i, k) \cup {Files(i)[k + 1]}
<1>1. 1..k + 1 = (1..k) \cup {k + 1}
  OBVIOUS
<1>. QED
  BY <1>1 DEF First

LEMMA NameFacts ==
    ASSUME ScaffoldTypeOK, NEW i \in Invocation, IsInvocation(i), Name(i) # Nameless
    PROVE  Name(i) \in Directory
<1>1. args[i].operands \in Seq(DOMAIN Base) /\ Len(args[i].operands) = 1
  BY ScaffoldAssumption DEF ScaffoldAssumption, ScaffoldTypeOK, IsInvocation
<1>2. args[i].operands[1] \in DOMAIN Base
  BY <1>1
<1>. QED
  BY <1>2 DEF Name, Directory

LEMMA DirFacts ==
    ASSUME ScaffoldTypeOK, NEW d \in Directory
    PROVE  /\ disk[d] \in Dir /\ disk[d].exists \in BOOLEAN /\ Here(d) \subseteq File
           /\ disk[d].files \in [Here(d) -> Content]
<1>1. disk[d] \in Dir
  BY DEF ScaffoldTypeOK
<1>. QED
  BY <1>1 DEF Dir, Here

LEMMA EmptyFacts ==
    /\ NoDir \in Dir /\ ~NoDir.exists /\ DOMAIN NoDir.files = {}
    /\ EmptyDir \in Dir /\ EmptyDir.exists /\ DOMAIN EmptyDir.files = {}
<1>. DEFINE e == [f \in {} |-> "gone"]
<1>1. e \in [{} -> Content] /\ DOMAIN e = {}
  OBVIOUS
<1>2. {} \in SUBSET File
  OBVIOUS
<1>3. e \in UNION {[F -> Content] : F \in SUBSET File}
  BY <1>1, <1>2
<1>. QED
  BY <1>1, <1>3 DEF Dir, NoDir, EmptyDir

-----------------------------------------------------------------------------
(* What each step does                                                      *)

\* Nothing happens to what an invocation was run with.
LEMMA Same ==
    ASSUME args' = args, NEW i \in Invocation
    PROVE  /\ Name(i)' = Name(i) /\ Files(i)' = Files(i) /\ Flavour(i)' = Flavour(i)
           /\ IsInvocation(i)' <=> IsInvocation(i)
BY DEF Name, Files, Flavour, IsInvocation

\* c is what the file f of d holds now.
Puts(d, f, c) ==
    /\ d \in Directory /\ f \in File
    /\ disk' \in [Directory -> Dir]
    /\ \A e \in Directory \ {d} : disk'[e] = disk[e]
    /\ disk'[d].exists = disk[d].exists
    /\ DOMAIN disk'[d].files = Here(d) \cup {f}
    /\ \A g \in Here(d) \ {f} : disk'[d].files[g] = disk[d].files[g]
    /\ disk'[d].files[f] = c

LEMMA PutPuts ==
    ASSUME ScaffoldTypeOK, NEW i \in Invocation, Progress(i), pc[i] = "copy",
           NEW whole \in BOOLEAN, Put(i, whole)
    PROVE  Puts(Name(i), Files(i)[n[i] + 1], Written(i, whole))
<1>. DEFINE d == Name(i)
            f == Files(i)[n[i] + 1]
            G == [g \in Here(d) \cup {f} |-> IF g = f THEN Written(i, whole) ELSE disk[d].files[g]]
<1>1. d \in Directory
  BY NameFacts DEF Progress, Writing
<1>2. n[i] \in Nat /\ n[i] < Len(Files(i)) /\ Len(Files(i)) \in Nat
  BY ProjectFacts DEF Progress
<1>3. f \in File
  <2>1. n[i] + 1 \in 1..Len(Files(i))
    BY <1>2
  <2>. QED
    BY <2>1, FilesFacts
<1>4. Written(i, whole) \in Content
  BY DEF Written, Content
<1>5. disk[d] \in Dir /\ Here(d) \subseteq File /\ disk[d].files \in [Here(d) -> Content]
      /\ disk[d].exists \in BOOLEAN
  BY <1>1, DirFacts
<1>6. G \in [Here(d) \cup {f} -> Content]
  BY <1>4, <1>5
<1>7. G \in UNION {[F -> Content] : F \in SUBSET File}
  <2>1. Here(d) \cup {f} \in SUBSET File
    BY <1>3, <1>5
  <2>. QED
    BY <2>1, <1>6
<1>8. disk' = [disk EXCEPT ![d].files = G]
  BY DEF Put, Here
<1>9. /\ disk'[d].files = G /\ disk'[d].exists = disk[d].exists
      /\ \A e \in Directory \ {d} : disk'[e] = disk[e]
      /\ disk' \in [Directory -> Dir]
  BY <1>1, <1>5, <1>7, <1>8 DEF ScaffoldTypeOK, Dir
<1>10. /\ DOMAIN G = Here(d) \cup {f} /\ G[f] = Written(i, whole)
       /\ \A g \in Here(d) \ {f} : G[g] = disk[d].files[g]
  OBVIOUS
<1>. QED
  BY <1>1, <1>3, <1>9, <1>10 DEF Puts

LEMMA EditPuts ==
    ASSUME ScaffoldTypeOK, NEW d \in Directory, NEW f \in Here(d),
           disk' = [disk EXCEPT ![d].files[f] = Edited]
    PROVE  Puts(d, f, Edited)
<1>. DEFINE G == [disk[d].files EXCEPT ![f] = Edited]
<1>1. disk[d] \in Dir /\ Here(d) \in SUBSET File /\ disk[d].files \in [Here(d) -> Content]
      /\ disk[d].exists \in BOOLEAN
  BY DirFacts
<1>2. G \in [Here(d) -> Content] /\ G[f] = Edited /\ DOMAIN G = Here(d)
      /\ \A g \in Here(d) \ {f} : G[g] = disk[d].files[g]
  BY <1>1 DEF Edited, Content
<1>3. G \in UNION {[F -> Content] : F \in SUBSET File}
  BY <1>1, <1>2
<1>4. disk' = [disk EXCEPT ![d].files = G]
  OBVIOUS
<1>5. /\ disk'[d].files = G /\ disk'[d].exists = disk[d].exists
      /\ \A e \in Directory \ {d} : disk'[e] = disk[e]
      /\ disk' \in [Directory -> Dir]
  BY <1>1, <1>3, <1>4 DEF ScaffoldTypeOK, Dir
<1>6. Here(d) = Here(d) \cup {f} /\ f \in File
  BY <1>1
<1>. QED
  BY <1>2, <1>5, <1>6 DEF Puts

\* i is at l now, and the others are where they were.
Stage == {"ready", "stat", "copy"} \cup Ended

Moves(i, l) ==
    /\ pc' \in [Invocation -> Stage]
    /\ pc'[i] = l
    /\ \A j \in Invocation \ {i} : pc'[j] = pc[j]

LEMMA GotoMoves ==
    ASSUME ScaffoldTypeOK, NEW i \in Invocation, NEW l \in Stage, Goto(i, l)
    PROVE  Moves(i, l)
BY DEF ScaffoldTypeOK, Goto, Moves, Stage

-----------------------------------------------------------------------------
(* Every step keeps the invariant                                           *)

\* What is one whole project by i.
Whole(d, i) ==
    /\ Here(d) = Range(Files(i))
    /\ \A f \in Range(Project[Flavour(i)]) :
          Author(d, f) \in {i, "developer"} /\ disk[d].files[f].whole

\* What a step leaves as one whole project by i.
WholeNow(d, i) ==
    /\ DOMAIN disk'[d].files = Range(Files(i))
    /\ \A f \in Range(Project[Flavour(i)]) :
          disk'[d].files[f].by \in {i, "developer"} /\ disk'[d].files[f].whole

\* It stays one while its files do, or one of them is edited.
LEMMA WholeKept ==
    ASSUME NEW d, NEW i, Whole(d, i),
           DOMAIN disk'[d].files = Here(d),
           \A f \in Here(d) : \/ disk'[d].files[f] = disk[d].files[f]
                              \/ disk'[d].files[f] = Edited,
           Range(Project[Flavour(i)]) \subseteq Range(Files(i))
    PROVE  WholeNow(d, i)
BY DEF Whole, WholeNow, Author, Edited

\* i signs the go.mod of d after a step, and has met nobody.
Signs(d, i) ==
    /\ "go.mod" \in DOMAIN disk'[d].files
    /\ i = disk'[d].files["go.mod"].by
    /\ met'[i] = {}

LEMMA WholeNext ==
    ASSUME args' = args, \A d \in Directory : \A i : Signs(d, i) => WholeNow(d, i)
    PROVE  GoModMeansWhole'
BY DEF Signs, WholeNow, GoModMeansWhole, Author, Alone, Files, Flavour

LEMMA GoModFacts ==
    ASSUME Inv, NEW d \in Directory, "go.mod" \in Here(d), Alone(Author(d, "go.mod"))
    PROVE  /\ Author(d, "go.mod") \in Invocation
           /\ Whole(d, Author(d, "go.mod"))
BY DEF Inv, Sane, GoModMeansWhole, Whole, Here

\* An invocation ends.
LEMMA EndKeeps ==
    ASSUME Inv, NEW i \in Invocation, NEW e \in Ended, Moves(i, e),
           args' = args, n' = n, disk' = disk, met' = met
    PROVE  Inv'
<1>1. \A j \in Invocation : /\ pc'[j] \in {"stat", "copy"} => j # i /\ pc'[j] = pc[j]
                            /\ pc'[j] = "ready" => pc[j] = "ready"
  BY DEF Moves, Ended
<1>2. ScaffoldTypeOK'
  BY DEF Inv, ScaffoldTypeOK, Moves, Stage
<1>3. \A j \in Invocation : Progress(j)'
  BY <1>1 DEF Inv, Progress, Writing, IsInvocation, Name, Files, Flavour
<1>4. HaveMet'
  BY <1>1 DEF Inv, HaveMet, Writing, Name
<1>5. FoundByMeeting'
  BY <1>1 DEF Inv, FoundByMeeting, Writing, Name, Here, Author
<1>6. \A j \in Invocation : OwnDirectory(j)'
  <2>. SUFFICES ASSUME NEW j \in Invocation PROVE OwnDirectory(j)'
    OBVIOUS
  <2>1. Name(j)' = Name(j) /\ First(j, n[j])' = First(j, n[j])
    BY DEF Name, First, Files, Flavour
  <2>. QED
    BY <1>1, <2>1 DEF Inv, OwnDirectory, Writing, Alone, Here, Author
<1>7. \A d \in Directory : Sane(d)'
  BY DEF Inv, Sane, Here, Author
<1>8. GoModMeansWhole'
  BY DEF Inv, GoModMeansWhole, Author, Alone, Files, Flavour
<1>. QED
  BY <1>2, <1>3, <1>4, <1>5, <1>6, <1>7, <1>8 DEF Inv

\* An invocation finds no directory, and meets those that have found none.
Others(i) == {j \in Invocation \ {i} : Writing(j) /\ Name(j) = Name(i)}

Meets(i) ==
    /\ met' \in [Invocation -> SUBSET Invocation]
    /\ met'[i] = Others(i)
    /\ \A j \in Others(i) : met'[j] = met[j] \cup {i}
    /\ \A j \in Invocation \ {i} : j \notin Others(i) => met'[j] = met[j]

LEMMA StatKeeps ==
    ASSUME Inv, NEW i \in Invocation, pc[i] = "ready", IsInvocation(i), Name(i) # Nameless,
           ~disk[Name(i)].exists, Moves(i, "stat"), Meets(i),
           args' = args, n' = n, disk' = disk
    PROVE  Inv'
<1>1. pc'[i] = "stat" /\ \A j \in Invocation \ {i} : pc'[j] = pc[j]
  BY DEF Moves
<1>2. met[i] = {} /\ n[i] = 0
  BY DEF Inv, Progress
<1>3. Name(i) \in Directory /\ Here(Name(i)) = {}
  BY NameFacts DEF Inv, Sane
<1>4. \A j \in Invocation : met[j] \subseteq met'[j]
  BY <1>2 DEF Meets
<1>5. ScaffoldTypeOK'
  BY DEF Inv, ScaffoldTypeOK, Moves, Meets, Stage
<1>6. \A j \in Invocation : Progress(j)'
  <2>. SUFFICES ASSUME NEW j \in Invocation PROVE Progress(j)'
    OBVIOUS
  <2>1. CASE j = i
    <3>1. pc'[j] = "stat" /\ n'[j] = 0
      BY <1>1, <1>2, <2>1
    <3>2. IsInvocation(j)' /\ Name(j)' # Nameless
      BY <2>1 DEF IsInvocation, Name
    <3>. QED
      BY <3>1, <3>2 DEF Progress
  <2>2. CASE j # i
    <3>1. pc[j] = "ready" => met'[j] = {}
      BY <2>2 DEF Inv, Progress, Meets, Others, Writing
    <3>. QED
      BY <1>1, <2>2, <3>1 DEF Inv, Progress, Writing, IsInvocation, Name, Files, Flavour
  <2>. QED
    BY <2>1, <2>2
<1>7. HaveMet'
  <2>. SUFFICES ASSUME NEW j \in Invocation, NEW k \in Invocation, j # k,
                       Writing(j)', Writing(k)', (Name(j) = Name(k))'
                PROVE  k \in met'[j]
    BY DEF HaveMet
  <2>1. Name(j) = Name(k)
    BY DEF Name
  <2>2. CASE j = i
    BY <1>1, <2>1, <2>2 DEF Writing, Meets, Others
  <2>3. CASE k = i
    BY <1>1, <2>1, <2>3 DEF Writing, Meets, Others
  <2>4. CASE j # i /\ k # i
    BY <1>1, <1>4, <2>1, <2>4 DEF Inv, HaveMet, Writing
  <2>. QED
    BY <2>2, <2>3, <2>4
<1>8. FoundByMeeting'
  <2>. SUFFICES ASSUME NEW k \in Invocation, NEW j \in Invocation, k # j, Writing(j)',
                       NEW f \in Here(Name(j))', (Author(Name(j), f) = k)'
                PROVE  j \in met'[k]
    BY DEF FoundByMeeting
  <2>1. f \in Here(Name(j)) /\ Author(Name(j), f) = k
    BY DEF Name, Here, Author
  <2>2. j # i
    BY <1>3, <2>1
  <2>. QED
    BY <1>1, <1>4, <2>1, <2>2 DEF Inv, FoundByMeeting, Writing
<1>9. \A j \in Invocation : OwnDirectory(j)'
  <2>. SUFFICES ASSUME NEW j \in Invocation, Writing(j)', Alone(j)' PROVE OwnDirectory(j)'
    BY DEF OwnDirectory
  <2>1. Name(j)' = Name(j) /\ First(j, n[j])' = First(j, n[j])
    BY DEF Name, First, Files, Flavour
  <2>2. CASE j = i
    <3>1. First(i, n[i]) = {}
      BY <1>2 DEF First
    <3>. QED
      BY <1>1, <1>3, <2>1, <2>2, <3>1 DEF OwnDirectory, Here
  <2>3. CASE j # i
    BY <1>1, <1>4, <2>1, <2>3 DEF Inv, OwnDirectory, Writing, Alone, Here, Author
  <2>. QED
    BY <2>2, <2>3
<1>10. \A d \in Directory : Sane(d)'
  BY DEF Inv, Sane, Here, Author
<1>11. GoModMeansWhole'
  <2>1. \A j \in Invocation : met'[j] = {} => met[j] = {}
    BY <1>4
  <2>. QED
    BY <2>1 DEF Inv, Sane, Here, GoModMeansWhole, Author, Alone, Files, Flavour
<1>. QED
  BY <1>5, <1>6, <1>7, <1>8, <1>9, <1>10, <1>11 DEF Inv

\* d is there, with the files it had.
Made(d) ==
    /\ disk' \in [Directory -> Dir]
    /\ \A e \in Directory \ {d} : disk'[e] = disk[e]
    /\ disk'[d].exists
    /\ DOMAIN disk'[d].files = Here(d)
    /\ \A f \in Here(d) : disk'[d].files[f] = disk[d].files[f]

LEMMA MakeDirKeeps ==
    ASSUME Inv, NEW i \in Invocation, pc[i] = "stat", Moves(i, "copy"), Made(Name(i)),
           args' = args, n' = n, met' = met
    PROVE  Inv'
<1>. DEFINE d == Name(i)
<1>1. pc'[i] = "copy" /\ \A j \in Invocation \ {i} : pc'[j] = pc[j]
  BY DEF Moves
<1>2. n[i] = 0 /\ d \in Directory
  BY NameFacts DEF Inv, Progress, Writing
<1>3. \A e \in Directory : /\ DOMAIN disk'[e].files = DOMAIN disk[e].files
                           /\ \A f \in DOMAIN disk[e].files : disk'[e].files[f] = disk[e].files[f]
                           /\ ~disk'[e].exists => ~disk[e].exists
  BY DEF Made, Here
<1>4. \A j \in Invocation : /\ pc'[j] \in {"stat", "copy"} => pc[j] \in {"stat", "copy"}
                            /\ pc'[j] = "ready" => pc[j] = "ready"
                            /\ pc'[j] \in {"stat", "copy"} => Name(j) \in Directory
  <2>1. \A j \in Invocation : Writing(j) => Name(j) \in Directory
    BY NameFacts DEF Inv, Progress
  <2>. QED
    BY <1>1, <2>1 DEF Writing
<1>5. ScaffoldTypeOK'
  BY DEF Inv, ScaffoldTypeOK, Moves, Made, Stage
<1>6. \A j \in Invocation : Progress(j)'
  <2>. SUFFICES ASSUME NEW j \in Invocation PROVE Progress(j)'
    OBVIOUS
  <2>1. Files(j)' = Files(j) /\ Len(Files(j)) > 0
    BY ProjectFacts DEF Inv, Files, Flavour
  <2>2. CASE j = i
    <3>1. IsInvocation(j)' /\ Name(j)' # Nameless
      BY <2>2 DEF Inv, Progress, Writing, IsInvocation, Name
    <3>. QED
      BY <1>1, <1>2, <2>1, <2>2, <3>1 DEF Progress
  <2>3. CASE j # i
    BY <1>1, <2>1, <2>3 DEF Inv, Progress, Writing, IsInvocation, Name
  <2>. QED
    BY <2>2, <2>3
<1>7. HaveMet'
  BY <1>4 DEF Inv, HaveMet, Writing, Name
<1>8. FoundByMeeting'
  <2>. SUFFICES ASSUME NEW k \in Invocation, NEW j \in Invocation, k # j, Writing(j)',
                       NEW f \in Here(Name(j))', (Author(Name(j), f) = k)'
                PROVE  j \in met[k]
    BY DEF FoundByMeeting
  <2>1. Writing(j) /\ Name(j) \in Directory
    BY <1>4 DEF Writing
  <2>2. f \in Here(Name(j)) /\ Author(Name(j), f) = k
    BY <1>3, <2>1 DEF Name, Here, Author
  <2>. QED
    BY <2>1, <2>2 DEF Inv, FoundByMeeting
<1>9. \A j \in Invocation : OwnDirectory(j)'
  <2>. SUFFICES ASSUME NEW j \in Invocation, Writing(j)', Alone(j)' PROVE OwnDirectory(j)'
    BY DEF OwnDirectory
  <2>1. Name(j)' = Name(j) /\ First(j, n[j])' = First(j, n[j])
    BY DEF Name, First, Files, Flavour
  <2>2. Writing(j) /\ Name(j) \in Directory /\ Alone(j)
    BY <1>4 DEF Writing, Alone
  <2>3. /\ DOMAIN disk'[Name(j)].files = First(j, n[j])
        /\ \A f \in DOMAIN disk'[Name(j)].files :
               disk'[Name(j)].files[f].by \in {j, "developer"} /\ disk'[Name(j)].files[f].whole
    BY <1>3, <2>2 DEF Inv, OwnDirectory, Here, Author
  <2>4. disk'[Name(j)].exists <=> pc'[j] = "copy"
    <3>1. CASE j = i
      BY <1>1, <3>1 DEF Made
    <3>2. CASE j # i
      <4>1. Name(j) # d
        BY <2>2, <3>2 DEF Inv, HaveMet, Writing, Alone
      <4>2. disk'[Name(j)] = disk[Name(j)]
        BY <2>2, <4>1 DEF Made
      <4>. QED
        BY <1>1, <2>2, <3>2, <4>2 DEF Inv, OwnDirectory
    <3>. QED
      BY <3>1, <3>2
  <2>. QED
    BY <2>1, <2>3, <2>4 DEF OwnDirectory, Here, Author
<1>10. \A e \in Directory : Sane(e)'
  BY <1>3 DEF Inv, Sane, Here, Author
<1>11. GoModMeansWhole'
  <2>. SUFFICES ASSUME NEW e \in Directory, NEW k, Signs(e, k) PROVE WholeNow(e, k)
    BY WholeNext
  <2>1. "go.mod" \in Here(e) /\ k = Author(e, "go.mod") /\ Alone(k)
    BY <1>3 DEF Signs, Here, Author, Alone
  <2>2. k \in Invocation /\ Whole(e, k)
    BY <2>1, GoModFacts
  <2>. QED
    BY <1>3, <2>1, <2>2, WholeKept, RangeFacts DEF Inv, Here
<1>. QED
  BY <1>5, <1>6, <1>7, <1>8, <1>9, <1>10, <1>11 DEF Inv

\* i counts what it has written, and goes on unless that was the last.
Counts(i, l, whole) ==
    /\ n' \in [Invocation -> 0..Most]
    /\ \A j \in Invocation \ {i} : n'[j] = n[j]
    /\ l = "copy" => whole /\ n'[i] = n[i] + 1 /\ n[i] + 1 # Len(Files(i))

LEMMA PutKeeps ==
    ASSUME Inv, NEW i \in Invocation, pc[i] = "copy", disk[Name(i)].exists,
           NEW whole \in BOOLEAN, NEW l \in {"copy"} \cup Ended, Moves(i, l), Counts(i, l, whole),
           Puts(Name(i), Files(i)[n[i] + 1], Written(i, whole)),
           args' = args, met' = met
    PROVE  Inv'
<1>. DEFINE d == Name(i)
            f == Files(i)[n[i] + 1]
<1>1. pc'[i] = l /\ \A j \in Invocation \ {i} : pc'[j] = pc[j]
  BY DEF Moves
<1>2. /\ n[i] \in Nat /\ Len(Files(i)) \in Nat /\ n[i] + 1 <= Len(Files(i))
      /\ d \in Directory /\ f \in File /\ Most \in Nat
  BY ProjectFacts DEF Inv, Progress, Puts
<1>3. /\ \A e \in Directory \ {d} : disk'[e] = disk[e]
      /\ disk'[d].exists /\ DOMAIN disk'[d].files = Here(d) \cup {f}
      /\ \A g \in Here(d) \ {f} : disk'[d].files[g] = disk[d].files[g]
      /\ disk'[d].files[f].by = i /\ disk'[d].files[f].whole = whole
  BY DEF Puts, Written
<1>4. \A j \in Invocation : /\ pc'[j] \in {"stat", "copy"} => pc[j] \in {"stat", "copy"}
                            /\ pc'[j] = "ready" => pc[j] = "ready"
                            /\ pc[j] \in {"stat", "copy"} => Name(j) \in Directory
  <2>1. \A j \in Invocation : Writing(j) => Name(j) \in Directory
    BY NameFacts DEF Inv, Progress
  <2>. QED
    BY <1>1, <2>1 DEF Writing, Ended
<1>5. ScaffoldTypeOK'
  BY DEF Inv, ScaffoldTypeOK, Moves, Puts, Counts, Stage
<1>6. \A j \in Invocation : Progress(j)'
  <2>. SUFFICES ASSUME NEW j \in Invocation PROVE Progress(j)'
    OBVIOUS
  <2>1. Files(j)' = Files(j) /\ Len(Files(j)) \in Nat
    BY ProjectFacts DEF Inv, Files, Flavour
  <2>2. CASE j = i
    <3>1. IsInvocation(j)' /\ Name(j)' # Nameless
      BY <2>2 DEF Inv, Progress, Writing, IsInvocation, Name
    <3>2. l = "copy" => n'[j] < Len(Files(j))
      BY <1>2, <2>2 DEF Counts
    <3>. QED
      BY <1>1, <2>1, <2>2, <3>1, <3>2 DEF Progress, Ended
  <2>3. CASE j # i
    BY <1>1, <2>1, <2>3 DEF Inv, Progress, Writing, IsInvocation, Name, Counts
  <2>. QED
    BY <2>2, <2>3
<1>7. HaveMet'
  BY <1>4 DEF Inv, HaveMet, Writing, Name
<1>8. FoundByMeeting'
  <2>. SUFFICES ASSUME NEW k \in Invocation, NEW j \in Invocation, k # j, Writing(j)',
                       NEW g \in Here(Name(j))', (Author(Name(j), g) = k)'
                PROVE  j \in met[k]
    BY DEF FoundByMeeting
  <2>1. Writing(j) /\ Name(j) \in Directory /\ Name(j)' = Name(j)
    BY <1>4 DEF Writing, Name
  <2>2. CASE Name(j) = d /\ g = f
    <3>1. k = i
      BY <1>3, <2>1, <2>2 DEF Author
    <3>. QED
      BY <2>1, <2>2, <3>1 DEF Inv, HaveMet, Writing
  <2>3. CASE ~(Name(j) = d /\ g = f)
    <3>1. g \in Here(Name(j)) /\ Author(Name(j), g) = k
      BY <1>3, <2>1, <2>3 DEF Here, Author
    <3>. QED
      BY <2>1, <3>1 DEF Inv, FoundByMeeting
  <2>. QED
    BY <2>2, <2>3
<1>9. \A j \in Invocation : OwnDirectory(j)'
  <2>. SUFFICES ASSUME NEW j \in Invocation, Writing(j)', Alone(j)' PROVE OwnDirectory(j)'
    BY DEF OwnDirectory
  <2>1. Writing(j) /\ Name(j) \in Directory /\ Alone(j) /\ Name(j)' = Name(j)
    BY <1>4 DEF Writing, Alone, Name
  <2>2. /\ Here(Name(j)) = First(j, n[j])
        /\ disk[Name(j)].exists <=> pc[j] = "copy"
        /\ \A g \in Here(Name(j)) : /\ Author(Name(j), g) \in {j, "developer"}
                                     /\ disk[Name(j)].files[g].whole
    BY <2>1 DEF Inv, OwnDirectory
  <2>3. CASE j = i
    <3>1. l = "copy" /\ whole /\ n'[i] = n[i] + 1 /\ pc'[i] = "copy"
      BY <1>1, <2>3 DEF Writing, Ended, Counts
    <3>2. First(j, n[j])' = First(i, n[i]) \cup {f}
      <4>1. First(j, n[j])' = First(i, n[i] + 1)
        BY <2>3, <3>1 DEF First, Files, Flavour
      <4>. QED
        BY <1>2, <4>1, FirstMore
    <3>3. \A g \in Here(d) \cup {f} : /\ disk'[d].files[g].by \in {i, "developer"}
                                       /\ disk'[d].files[g].whole
      BY <1>3, <2>2, <2>3, <3>1 DEF Author
    <3>. QED
      BY <1>3, <2>1, <2>2, <2>3, <3>1, <3>2, <3>3 DEF OwnDirectory, Here, Author
  <2>4. CASE j # i
    <3>1. Name(j) # d
      BY <2>1, <2>4 DEF Inv, HaveMet, Writing, Alone
    <3>2. disk'[Name(j)] = disk[Name(j)] /\ n'[j] = n[j] /\ pc'[j] = pc[j]
      BY <1>1, <1>3, <2>1, <2>4, <3>1 DEF Counts
    <3>3. First(j, n[j])' = First(j, n[j])
      BY <3>2 DEF First, Files, Flavour
    <3>. QED
      BY <2>1, <2>2, <3>2, <3>3 DEF OwnDirectory, Here, Author
  <2>. QED
    BY <2>3, <2>4
<1>10. \A e \in Directory : Sane(e)'
  <2>. SUFFICES ASSUME NEW e \in Directory PROVE Sane(e)'
    OBVIOUS
  <2>1. CASE e = d
    BY <1>3, <2>1 DEF Inv, Sane, Here, Author
  <2>2. CASE e # d
    BY <1>3, <2>2 DEF Inv, Sane, Here, Author
  <2>. QED
    BY <2>1, <2>2
<1>11. GoModMeansWhole'
  <2>. SUFFICES ASSUME NEW e \in Directory, NEW k, Signs(e, k) PROVE WholeNow(e, k)
    BY WholeNext
  <2>1. CASE e # d
    <3>1. "go.mod" \in Here(e) /\ k = Author(e, "go.mod") /\ Alone(k) /\ disk'[e] = disk[e]
      BY <1>3, <2>1 DEF Signs, Here, Author, Alone
    <3>2. k \in Invocation /\ Whole(e, k)
      BY <3>1, GoModFacts
    <3>. QED
      BY <3>1, <3>2, WholeKept, RangeFacts DEF Inv, Here
  <2>2. CASE e = d /\ f # "go.mod"
    <3>1. "go.mod" \in Here(d) /\ Alone(Author(d, "go.mod"))
      BY <1>3, <2>2 DEF Signs, Here, Author, Alone
    <3>2. Author(d, "go.mod") \in Invocation
      BY <3>1, GoModFacts, <1>2
    <3>3. Author(d, "go.mod") = i
      BY <3>1, <3>2 DEF Inv, FoundByMeeting, Writing, Alone
    <3>4. "go.mod" \in First(i, n[i])
      BY <3>1, <3>3 DEF Inv, OwnDirectory, Writing
    <3>5. PICK m \in 1..n[i] : Files(i)[m] = "go.mod"
      BY <3>4 DEF First
    <3>6. m \in 1..Len(Files(i)) /\ m # Len(Files(i))
      BY <1>2
    <3>. QED
      BY <3>5, <3>6, FilesFacts DEF Inv
  <2>3. CASE e = d /\ f = "go.mod"
    <3>1. k = i /\ Alone(i)
      BY <1>3, <2>3 DEF Signs, Alone
    <3>2. n[i] + 1 = Len(Files(i)) /\ Len(Files(i)) - 1 = n[i]
      <4>1. n[i] + 1 \in 1..Len(Files(i))
        BY <1>2
      <4>2. n[i] + 1 = Len(Files(i))
        BY <4>1, <2>3, FilesFacts DEF Inv
      <4>. QED
        BY <4>2, <1>2
    <3>3. /\ Range(Files(i)) = First(i, n[i] + 1)
          /\ Range(Project[Flavour(i)]) = First(i, n[i])
      <4>1. /\ Range(Files(i)) = First(i, Len(Files(i)))
            /\ Range(Project[Flavour(i)]) = First(i, Len(Files(i)) - 1)
        BY FilesFacts DEF Inv
      <4>. QED
        BY <3>2, <4>1, Zenon
    <3>4. /\ Here(d) = First(i, n[i])
          /\ \A g \in Here(d) : /\ Author(d, g) \in {i, "developer"}
                                 /\ disk[d].files[g].whole
      BY <3>1 DEF Inv, OwnDirectory, Writing
    <3>5. "go.mod" \notin Range(Project[Flavour(i)])
      <4>1. Flavour(i) \in DOMAIN Project
        BY ProjectFacts DEF Inv
      <4>. QED
        BY <4>1, ScaffoldAssumption, Zenon DEF ScaffoldAssumption
    <3>6. DOMAIN disk'[d].files = Range(Files(i))
      <4>1. First(i, n[i] + 1) = First(i, n[i]) \cup {f}
        BY <1>2, FirstMore
      <4>. QED
        BY <1>3, <3>3, <3>4, <4>1
    <3>7. ASSUME NEW g \in Range(Project[Flavour(i)])
          PROVE  disk'[d].files[g].by \in {i, "developer"} /\ disk'[d].files[g].whole
      <4>1. g \in Here(d) \ {f}
        BY <2>3, <3>3, <3>4, <3>5
      <4>. QED
        BY <1>3, <3>4, <4>1 DEF Author
    <3>. QED
      BY <2>3, <3>1, <3>6, <3>7 DEF WholeNow
  <2>. QED
    BY <2>1, <2>2, <2>3
<1>. QED
  BY <1>5, <1>6, <1>7, <1>8, <1>9, <1>10, <1>11 DEF Inv

\* A developer edits a file.
LEMMA EditKeeps ==
    ASSUME Inv, NEW d \in Directory, NEW f \in Here(d) \ {"go.mod"}, Puts(d, f, Edited),
           args' = args, pc' = pc, n' = n, met' = met
    PROVE  Inv'
<1>1. \A e \in Directory : /\ disk'[e].exists = disk[e].exists
                           /\ DOMAIN disk'[e].files = Here(e)
                           /\ \A g \in Here(e) : \/ disk'[e].files[g] = disk[e].files[g]
                                                 \/ disk'[e].files[g] = Edited /\ g # "go.mod"
  BY DEF Puts, Here
<1>2. "developer" \notin Invocation /\ Edited.by = "developer" /\ Edited.whole
  BY ScaffoldAssumption DEF ScaffoldAssumption, Edited
<1>3. \A j \in Invocation : Writing(j) => Name(j) \in Directory
  BY NameFacts DEF Inv, Progress
<1>4. ScaffoldTypeOK'
  BY DEF Inv, ScaffoldTypeOK, Puts
<1>5. \A j \in Invocation : Progress(j)'
  BY DEF Inv, Progress, Writing, IsInvocation, Name, Files, Flavour
<1>6. HaveMet'
  BY DEF Inv, HaveMet, Writing, Name
<1>7. FoundByMeeting'
  <2>. SUFFICES ASSUME NEW k \in Invocation, NEW j \in Invocation, k # j, Writing(j)',
                       NEW g \in Here(Name(j))', (Author(Name(j), g) = k)'
                PROVE  j \in met[k]
    BY DEF FoundByMeeting
  <2>1. Writing(j) /\ Name(j)' = Name(j) /\ Name(j) \in Directory
    BY <1>3 DEF Writing, Name
  <2>2. g \in Here(Name(j)) /\ Author(Name(j), g) = k
    BY <1>1, <1>2, <2>1 DEF Here, Author
  <2>. QED
    BY <2>1, <2>2 DEF Inv, FoundByMeeting
<1>8. \A j \in Invocation : OwnDirectory(j)'
  <2>. SUFFICES ASSUME NEW j \in Invocation, Writing(j)', Alone(j)' PROVE OwnDirectory(j)'
    BY DEF OwnDirectory
  <2>1. /\ Writing(j) /\ Alone(j) /\ Name(j) \in Directory
        /\ Name(j)' = Name(j) /\ First(j, n[j])' = First(j, n[j])
    BY <1>3 DEF Writing, Alone, Name, First, Files, Flavour
  <2>2. /\ Here(Name(j)) = First(j, n[j])
        /\ disk[Name(j)].exists <=> pc[j] = "copy"
        /\ \A g \in Here(Name(j)) : /\ Author(Name(j), g) \in {j, "developer"}
                                     /\ disk[Name(j)].files[g].whole
    BY <2>1 DEF Inv, OwnDirectory
  <2>3. \A g \in Here(Name(j)) : /\ disk'[Name(j)].files[g].by \in {j, "developer"}
                                 /\ disk'[Name(j)].files[g].whole
    BY <1>1, <1>2, <2>1, <2>2 DEF Author
  <2>. QED
    BY <1>1, <2>1, <2>2, <2>3 DEF OwnDirectory, Here, Author
<1>9. \A e \in Directory : Sane(e)'
  BY <1>1 DEF Inv, Sane, Here, Author
<1>10. GoModMeansWhole'
  <2>. SUFFICES ASSUME NEW e \in Directory, NEW k, Signs(e, k) PROVE WholeNow(e, k)
    BY WholeNext
  <2>1. "go.mod" \in Here(e) /\ k = Author(e, "go.mod") /\ Alone(k)
    BY <1>1 DEF Signs, Author, Alone
  <2>2. k \in Invocation /\ Whole(e, k)
    BY <2>1, GoModFacts
  <2>. QED
    BY <1>1, <2>2, WholeKept, RangeFacts DEF Inv
<1>. QED
  BY <1>4, <1>5, <1>6, <1>7, <1>8, <1>9, <1>10 DEF Inv

\* A developer removes a directory nothing is being written into.
LEMMA RemoveKeeps ==
    ASSUME Inv, NEW d \in Directory, \A i \in Invocation : Writing(i) => Name(i) # d,
           disk' \in [Directory -> Dir], disk'[d] = NoDir,
           \A e \in Directory \ {d} : disk'[e] = disk[e],
           args' = args, pc' = pc, n' = n, met' = met
    PROVE  Inv'
<1>1. ~disk'[d].exists /\ DOMAIN disk'[d].files = {}
  BY EmptyFacts
<1>2. \A j \in Invocation : Writing(j) => disk'[Name(j)] = disk[Name(j)]
  BY NameFacts DEF Inv, Progress
<1>3. ScaffoldTypeOK'
  BY DEF Inv, ScaffoldTypeOK
<1>4. \A j \in Invocation : Progress(j)'
  BY DEF Inv, Progress, Writing, IsInvocation, Name, Files, Flavour
<1>5. HaveMet'
  BY DEF Inv, HaveMet, Writing, Name
<1>6. FoundByMeeting'
  BY <1>2 DEF Inv, FoundByMeeting, Writing, Name, Here, Author
<1>7. \A j \in Invocation : OwnDirectory(j)'
  <2>. SUFFICES ASSUME NEW j \in Invocation, Writing(j)', Alone(j)' PROVE OwnDirectory(j)'
    BY DEF OwnDirectory
  <2>1. /\ Writing(j) /\ Alone(j) /\ Name(j)' = Name(j) /\ First(j, n[j])' = First(j, n[j])
    BY DEF Writing, Alone, Name, First, Files, Flavour
  <2>. QED
    BY <1>2, <2>1 DEF Inv, OwnDirectory, Here, Author
<1>8. \A e \in Directory : Sane(e)'
  BY <1>1 DEF Inv, Sane, Here, Author
<1>9. GoModMeansWhole'
  <2>. SUFFICES ASSUME NEW e \in Directory, NEW k, Signs(e, k) PROVE WholeNow(e, k)
    BY WholeNext
  <2>1. e # d /\ disk'[e] = disk[e]
    BY <1>1 DEF Signs
  <2>2. "go.mod" \in Here(e) /\ k = Author(e, "go.mod") /\ Alone(k)
    BY <2>1 DEF Signs, Here, Author, Alone
  <2>3. k \in Invocation /\ Whole(e, k)
    BY <2>2, GoModFacts
  <2>. QED
    BY <2>1, <2>3, WholeKept, RangeFacts DEF Inv, Here
<1>. QED
  BY <1>3, <1>4, <1>5, <1>6, <1>7, <1>8, <1>9 DEF Inv

LEMMA InitInv ==
    ASSUME ScaffoldInit
    PROVE  Inv
<1>1. \A d \in Directory : disk[d] = NoDir
  BY DEF ScaffoldInit
<1>2. ~NoDir.exists /\ DOMAIN NoDir.files = {} /\ NoDir \in Dir
  BY EmptyFacts
<1>3. Most \in Nat
  <2>1. Len(Project["http"]) \in Nat /\ Len(Project["grpc"]) \in Nat
    BY ScaffoldAssumption DEF ScaffoldAssumption
  <2>2. \A a, b \in Nat : a + b + 1 \in Nat
    OBVIOUS
  <2>. QED
    BY <2>1, <2>2, Zenon DEF Most
<1>4. ScaffoldTypeOK
  BY <1>2, <1>3 DEF ScaffoldInit, ScaffoldTypeOK
<1>5. \A d \in Directory : ~disk[d].exists /\ Here(d) = {}
  BY <1>1, <1>2 DEF Here
<1>6. \A i \in Invocation : pc[i] = "ready" /\ met[i] = {} /\ n[i] = 0
  BY DEF ScaffoldInit
<1>7. \A i \in Invocation : Progress(i) /\ OwnDirectory(i)
  BY <1>6 DEF Progress, OwnDirectory, Writing
<1>8. HaveMet /\ FoundByMeeting
  BY <1>6 DEF HaveMet, FoundByMeeting, Writing
<1>9. (\A d \in Directory : Sane(d)) /\ GoModMeansWhole
  BY <1>5 DEF Sane, GoModMeansWhole, Here
<1>. QED
  BY <1>4, <1>7, <1>8, <1>9 DEF Inv

\* i writes a file, whole or not, and what it does then.
LEMMA WriteFilePuts ==
    ASSUME Inv, NEW i \in Invocation, WriteFile(i)
    PROVE  /\ pc[i] = "copy" /\ Name(i) \in Directory /\ disk[Name(i)].exists
           /\ Puts(Name(i), Files(i)[n[i] + 1], Written(i, TRUE))
           /\ Inv'
<1>. DEFINE l == IF n[i] + 1 = Len(Files(i)) THEN "wrote" ELSE "copy"
<1>1. pc[i] = "copy" /\ disk[Name(i)].exists /\ Put(i, TRUE) /\ Goto(i, l)
      /\ args' = args /\ met' = met
  BY DEF WriteFile, Copying
<1>2. n[i] + 1 \in 0..Most
  BY <1>1, ProjectFacts DEF Inv, Progress
<1>3. Counts(i, l, TRUE)
  <2>1. n' = [n EXCEPT ![i] = n[i] + 1]
    BY DEF WriteFile
  <2>. QED
    BY <1>2, <2>1 DEF Inv, ScaffoldTypeOK, Counts
<1>4. Moves(i, l)
  BY <1>1, GotoMoves DEF Inv, Stage, Ended
<1>5. Puts(Name(i), Files(i)[n[i] + 1], Written(i, TRUE))
  BY <1>1, PutPuts DEF Inv
<1>6. l \in {"copy"} \cup Ended
  BY DEF Ended
<1>7. Inv'
  BY <1>1, <1>3, <1>4, <1>5, <1>6, PutKeeps
<1>. QED
  BY <1>1, <1>5, <1>7 DEF Puts

LEMMA WriteFailsKeeps ==
    ASSUME Inv, NEW i \in Invocation, WriteFails(i)
    PROVE  Inv'
<1>1. PICK l \in {"failed", "killed"} : Goto(i, l)
  BY DEF WriteFails
<1>2. /\ pc[i] = "copy" /\ disk[Name(i)].exists /\ Put(i, FALSE)
      /\ args' = args /\ n' = n /\ met' = met
  BY DEF WriteFails, Copying
<1>3. l \in Ended
  BY DEF Ended
<1>4. Moves(i, l)
  BY <1>1, <1>3, GotoMoves DEF Inv, Stage
<1>5. Counts(i, l, FALSE)
  BY <1>2 DEF Inv, ScaffoldTypeOK, Counts
<1>6. Puts(Name(i), Files(i)[n[i] + 1], Written(i, FALSE))
  BY <1>2, PutPuts DEF Inv
<1>. QED
  BY <1>2, <1>3, <1>4, <1>5, <1>6, PutKeeps

LEMMA StatSteps ==
    ASSUME Inv, NEW i \in Invocation, Stat(i)
    PROVE  Inv'
<1>1. /\ pc[i] = "ready" /\ IsInvocation(i) /\ Name(i) # Nameless
      /\ args' = args /\ n' = n /\ disk' = disk
  BY DEF Stat
<1>2. CASE Taken(i)
  <2>1. Goto(i, "failed") /\ met' = met
    BY <1>2 DEF Stat
  <2>2. "failed" \in Ended
    BY DEF Ended
  <2>3. Moves(i, "failed")
    BY <2>1, <2>2, GotoMoves DEF Inv, Stage
  <2>. QED
    BY <1>1, <2>1, <2>2, <2>3, EndKeeps
<1>3. CASE ~Taken(i)
  <2>1. Moves(i, "stat")
    BY <1>3, GotoMoves DEF Stat, Inv, Stage
  <2>2. met' = [j \in Invocation |-> IF j = i THEN Others(i)
                                     ELSE IF j \in Others(i) THEN met[j] \cup {i} ELSE met[j]]
    BY <1>3 DEF Stat, Others
  <2>3. Others(i) \subseteq Invocation /\ i \notin Others(i)
    BY DEF Others
  <2>4. Meets(i)
    BY <2>2, <2>3 DEF Inv, ScaffoldTypeOK, Meets
  <2>. QED
    BY <1>1, <1>3, <2>1, <2>4, StatKeeps DEF Taken
<1>. QED
  BY <1>2, <1>3

LEMMA MakeDirSteps ==
    ASSUME Inv, NEW i \in Invocation, MakeDir(i)
    PROVE  Inv'
<1>1. pc[i] = "stat" /\ args' = args /\ n' = n /\ met' = met /\ Moves(i, "copy")
  BY GotoMoves DEF MakeDir, Inv, Stage
<1>2. Name(i) \in Directory
  BY <1>1, NameFacts DEF Inv, Progress, Writing
<1>3. disk' = [disk EXCEPT ![Name(i)] = IF disk[Name(i)].exists THEN disk[Name(i)] ELSE EmptyDir]
  BY DEF MakeDir
<1>4. disk \in [Directory -> Dir]
  BY DEF Inv, ScaffoldTypeOK
<1>5. CASE disk[Name(i)].exists
  <2>1. disk' = disk
    BY <1>2, <1>3, <1>4, <1>5
  <2>. QED
    BY <1>1, <1>4, <1>5, <2>1, MakeDirKeeps DEF Made, Here
<1>6. CASE ~disk[Name(i)].exists
  <2>1. disk' = [disk EXCEPT ![Name(i)] = EmptyDir]
    BY <1>3, <1>6
  <2>2. Here(Name(i)) = {}
    BY <1>2, <1>6 DEF Inv, Sane
  <2>3. /\ disk'[Name(i)] = EmptyDir
        /\ \A e \in Directory \ {Name(i)} : disk'[e] = disk[e]
        /\ disk' \in [Directory -> Dir]
    BY <1>2, <1>4, <2>1, EmptyFacts
  <2>4. Made(Name(i))
    BY <2>2, <2>3, EmptyFacts DEF Made
  <2>. QED
    BY <1>1, <2>4, MakeDirKeeps
<1>. QED
  BY <1>5, <1>6

LEMMA NextInv ==
    ASSUME Inv, [ScaffoldNext]_scaffoldVars
    PROVE  Inv'
<1>1. ASSUME NEW i \in Invocation, Refuse(i) PROVE Inv'
  <2>1. PICK e \in {"failed", "usage"} : Goto(i, e)
    BY <1>1 DEF Refuse
  <2>2. e \in Ended
    BY DEF Ended
  <2>3. Moves(i, e)
    BY <2>1, <2>2, GotoMoves DEF Inv, Stage
  <2>. QED
    BY <1>1, <2>2, <2>3, EndKeeps DEF Refuse
<1>2. ASSUME NEW i \in Invocation, CannotCreate(i) PROVE Inv'
  <2>1. "failed" \in Ended
    BY DEF Ended
  <2>2. Moves(i, "failed")
    BY <1>2, <2>1, GotoMoves DEF CannotCreate, Inv, Stage
  <2>. QED
    BY <1>2, <2>1, <2>2, EndKeeps DEF CannotCreate
<1>3. ASSUME NEW i \in Invocation, Goboot(i) PROVE Inv'
  BY <1>1, <1>2, <1>3, StatSteps, MakeDirSteps, WriteFilePuts, WriteFailsKeeps DEF Goboot
<1>4. ASSUME NEW d \in Directory, RemoveDir(d) PROVE Inv'
  <2>1. disk' = [disk EXCEPT ![d] = NoDir] /\ disk \in [Directory -> Dir] /\ NoDir \in Dir
    BY <1>4, EmptyFacts DEF RemoveDir, Inv, ScaffoldTypeOK
  <2>2. /\ disk' \in [Directory -> Dir] /\ disk'[d] = NoDir
        /\ \A e \in Directory \ {d} : disk'[e] = disk[e]
    BY <2>1
  <2>. QED
    BY <1>4, <2>2, RemoveKeeps DEF RemoveDir
<1>5. ASSUME NEW d \in Directory, Edit(d) PROVE Inv'
  <2>1. PICK f \in Here(d) \ {"go.mod"} : disk' = [disk EXCEPT ![d].files[f] = Edited]
    BY <1>5 DEF Edit, Here
  <2>2. Puts(d, f, Edited)
    BY <2>1, EditPuts DEF Inv
  <2>. QED
    BY <1>5, <2>2, EditKeeps DEF Edit
<1>6. CASE UNCHANGED scaffoldVars
  <2>1. args' = args /\ pc' = pc /\ n' = n /\ disk' = disk /\ met' = met
    BY <1>6 DEF scaffoldVars
  <2>2. ScaffoldTypeOK' /\ HaveMet' /\ GoModMeansWhole'
    BY <2>1 DEF Inv, ScaffoldTypeOK, HaveMet, GoModMeansWhole, Writing, Name, Author, Alone,
                Files, Flavour
  <2>3. FoundByMeeting' /\ (\A i \in Invocation : Progress(i)') /\ (\A d \in Directory : Sane(d)')
    BY <2>1 DEF Inv, FoundByMeeting, Progress, Sane, Writing, Name, IsInvocation, Here, Author,
                Files, Flavour
  <2>4. ASSUME NEW j \in Invocation PROVE OwnDirectory(j)'
    <3>1. Name(j)' = Name(j) /\ First(j, n[j])' = First(j, n[j])
      BY <2>1 DEF Name, First, Files, Flavour
    <3>. QED
      BY <2>1, <3>1 DEF Inv, OwnDirectory, Writing, Alone, Here, Author
  <2>. QED
    BY <2>2, <2>3, <2>4 DEF Inv
<1>. QED
  BY <1>3, <1>4, <1>5, <1>6 DEF ScaffoldNext, Over

-----------------------------------------------------------------------------
(* The theorems                                                             *)

\* The invariant the others rest on: main.go:112-180, with what an invocation
\* that met no other finds in its directory.
THEOREM AlwaysInv == ScaffoldSpec => []Inv
<1>1. ScaffoldInit => Inv
  BY InitInv
<1>2. Inv /\ [ScaffoldNext]_scaffoldVars => Inv'
  BY NextInv
<1>. QED
  BY <1>1, <1>2, PTL DEF ScaffoldSpec

\* The state keeps its types.
THEOREM AlwaysTypeOK == ScaffoldSpec => []ScaffoldTypeOK
<1>1. Inv => ScaffoldTypeOK
  BY DEF Inv
<1>. QED
  BY <1>1, AlwaysInv, PTL

\* A go.mod is the last thing written: what it is beside is one whole project,
\* whatever failed, was killed, retried or edited (main.go:173-179).
THEOREM AlwaysGoModMeansWhole == ScaffoldSpec => []GoModMeansWhole
<1>1. Inv => GoModMeansWhole
  BY DEF Inv
<1>. QED
  BY <1>1, AlwaysInv, PTL

\* What an invocation that met no other writes beside is its own, and it writes
\* over none of it (main.go:120, 132).
LEMMA MergeStep ==
    ASSUME Inv, [ScaffoldNext]_scaffoldVars, NEW i \in Invocation, n'[i] # n[i], Alone(i)
    PROVE  \A f \in Here(Name(i)) : /\ disk'[Name(i)].files[f] = disk[Name(i)].files[f]
                                    /\ Author(Name(i), f) \in {i, "developer"}
<1>1. PICK j \in Invocation : WriteFile(j)
  BY DEF ScaffoldNext, scaffoldVars, Goboot, Refuse, Stat, MakeDir, WriteFails, CannotCreate,
         RemoveDir, Edit, Over
<1>2. j = i
  BY <1>1 DEF WriteFile, Inv, ScaffoldTypeOK
<1>3. /\ pc[i] = "copy" /\ Name(i) \in Directory
      /\ Puts(Name(i), Files(i)[n[i] + 1], Written(i, TRUE))
  BY <1>1, <1>2, WriteFilePuts
<1>4. /\ Here(Name(i)) = First(i, n[i])
      /\ \A f \in Here(Name(i)) : Author(Name(i), f) \in {i, "developer"}
  BY <1>3 DEF Inv, OwnDirectory, Writing
<1>5. Files(i)[n[i] + 1] \notin First(i, n[i])
  <2>1. n[i] \in Nat /\ Len(Files(i)) \in Nat /\ n[i] + 1 <= Len(Files(i))
    BY <1>3, ProjectFacts DEF Inv, Progress
  <2>2. \A k \in 1..n[i] : k \in 1..Len(Files(i)) /\ n[i] + 1 \in 1..Len(Files(i)) /\ k # n[i] + 1
    BY <2>1
  <2>. QED
    BY <2>2, FilesFacts DEF First, Inv
<1>. QED
  BY <1>3, <1>4, <1>5 DEF Puts

\* Nothing is merged into what is there, by an invocation that met no other.
THEOREM MergesNever == ScaffoldSpec => NeverMerges
<1>1. Inv /\ [ScaffoldNext]_scaffoldVars =>
        [\A i \in Invocation : n'[i] # n[i] /\ Alone(i) =>
            \A f \in DOMAIN disk[Name(i)].files :
                /\ disk'[Name(i)].files[f] = disk[Name(i)].files[f]
                /\ Author(Name(i), f) \in {i, "developer"}]_scaffoldVars
  BY MergeStep DEF Here
<1>. QED
  BY <1>1, AlwaysInv, PTL DEF ScaffoldSpec, NeverMerges

\* A project is written whole or is not taken for one, and nothing is merged.
THEOREM IsNeverHalfDone == ScaffoldSpec => NeverHalfDone
BY AlwaysGoModMeansWhole, MergesNever, PTL DEF NeverHalfDone

-----------------------------------------------------------------------------
(* Config: what Load makes of what is said.                                 *)

\* The canonical keys, and the paths they make.
Key == {Canon[k] : k \in DOMAIN Canon}
Path == Seq(Key) \ {<<>>}

\* What a document of sayings is: the sections on the way to each of them, and
\* each at its path; none is on the way to another.
Holds(d, said) ==
    /\ DOMAIN d = UNION {WayTo(u.path) : u \in said}
    /\ \A u, v \in said : IsPrefix(u.path, v.path) => u = v
    /\ \A u \in said : d[u.path] = u.value
    /\ \A p \in DOMAIN d : (\A u \in said : u.path # p) => d[p] = Section

\* Sayings with a path and with a value that is not a section.
Proper(said) == \A u \in said : u.path \in Path /\ u.value # Section

\* What of one set of sayings stays beside another.
Beside(said, later) == {u \in said : \A v \in later : ~Related(u.path, v.path)}

\* The layer of a source.
LayerAt(nr) ==
    IF nr = 0 THEN 0
    ELSE IF nr <= Len(Sources) THEN Height(Sources[nr].place)
    ELSE IF nr = Len(Sources) + 1 THEN Highest
    ELSE Highest + 1

\* What the layers below one have said and not overruled.
Below(layer) ==
    {u \in Said : /\ u.layer < layer
                  /\ \A v \in Said : u.layer < v.layer /\ v.layer < layer
                                        => ~Related(u.path, v.path)}

\* What a layer's lines before one have said and not taken back.
Before(layer, nr) ==
    {u \in Uttered : /\ u.layer = layer /\ u.line < nr
                     /\ \A v \in Uttered :
                           v.layer = layer /\ u.line < v.line /\ v.line < nr
                              => ~Related(u.path, v.path)}

\* Where Load stands.
Stand ==
    /\ world \in World /\ profile \in DOMAIN Texts \cup {NoProfile}
    /\ source \in 0..Len(Sources) + 2 /\ line \in Nat \ {0}
    /\ DOMAIN out = DOMAIN Field
    /\ result \in {"pending", "nil", "error"}
    /\ source = 0 => merged = Empty /\ doc = Empty /\ line = 1
    /\ source > 0 => world.prefix /\ HasParser(world)
    /\ result = "nil" => source = Len(Sources) + 2

\* The sources before are as they have to be.
Behind ==
    \A i \in DOMAIN Sources : i < source =>
        IF Sources[i].place \in DOMAIN world.files THEN Sound(world.files[Sources[i].place])
        ELSE ~Sources[i].required

\* So are the lines before, and there are no more than the source has.
Within ==
    /\ line > 1 /\ source \in DOMAIN Sources =>
          /\ ~Missing /\ Opened.is = "text" /\ ~IsYAML(world)
          /\ line <= Len(Opened.lines) + 1
          /\ \A i \in 1..line - 1 : Opened.lines[i].ok
    /\ source = Len(Sources) + 1 => line <= Len(world.environ) + 1
    /\ source = Len(Sources) + 2 => line = 1

ConfigInv ==
    /\ Stand /\ Behind /\ Within
    /\ Holds(merged, Below(LayerAt(source)))
    /\ Holds(doc, Before(LayerAt(source), line))
    /\ HighestLayerWins /\ RefusedForAMistake

-----------------------------------------------------------------------------
(* Config: paths.                                                           *)

\* One sequence is a prefix of another: as long at most, and equal as far.
LEMMA PrefixMeans ==
    ASSUME NEW S, NEW s \in Seq(S), NEW t \in Seq(S)
    PROVE  IsPrefix(s, t) <=> Len(s) <= Len(t) /\ \A i \in 1..Len(s) : s[i] = t[i]
<1>1. CASE ~(Len(s) <= Len(t))
  BY <1>1 DEF IsPrefix
<1>2. CASE Len(s) <= Len(t)
  <2>1. /\ Len(s) \in Nat /\ SubSeq(s, 1, Len(s)) = s
        /\ DOMAIN s = 1..Len(s) /\ s = [i \in 1..Len(s) |-> s[i]]
    BY SubSeqFull
  <2>2. SubSeq(t, 1, Len(s)) = [i \in 1..Len(s) |-> t[i]]
    BY <1>2, <2>1
  <2>. QED
    BY <1>2, <2>1, <2>2 DEF IsPrefix
<1>. QED
  BY <1>1, <1>2

\* A sequence is its own prefix, and two that are each other's are one.
LEMMA PrefixOrder ==
    ASSUME NEW S, NEW s \in Seq(S), NEW t \in Seq(S)
    PROVE  /\ IsPrefix(s, s)
           /\ IsPrefix(s, t) /\ IsPrefix(t, s) => s = t
<1>1. Len(s) \in Nat /\ Len(t) \in Nat
  OBVIOUS
<1>2. IsPrefix(s, s)
  BY <1>1, PrefixMeans
<1>3. ASSUME IsPrefix(s, t), IsPrefix(t, s) PROVE s = t
  <2>1. Len(s) = Len(t) /\ \A i \in 1..Len(s) : s[i] = t[i]
    BY <1>1, <1>3, PrefixMeans
  <2>. QED
    BY <2>1, SeqEqual
<1>. QED
  BY <1>2, <1>3

\* A prefix of a prefix is a prefix.
LEMMA PrefixTransitive ==
    ASSUME NEW S, NEW r \in Seq(S), NEW s \in Seq(S), NEW t \in Seq(S),
           IsPrefix(r, s), IsPrefix(s, t)
    PROVE  IsPrefix(r, t)
<1>1. Len(r) \in Nat /\ Len(s) \in Nat /\ Len(t) \in Nat
  OBVIOUS
<1>2. /\ Len(r) <= Len(s) /\ \A i \in 1..Len(r) : r[i] = s[i]
      /\ Len(s) <= Len(t) /\ \A i \in 1..Len(s) : s[i] = t[i]
  BY PrefixMeans
<1>3. Len(r) <= Len(t) /\ \A i \in 1..Len(r) : r[i] = t[i]
  BY <1>1, <1>2
<1>. QED
  BY <1>3, PrefixMeans

\* Two prefixes of one sequence are related.
LEMMA PrefixesRelated ==
    ASSUME NEW S, NEW r \in Seq(S), NEW s \in Seq(S), NEW t \in Seq(S),
           IsPrefix(r, t), IsPrefix(s, t)
    PROVE  Related(r, s)
<1>1. Len(r) \in Nat /\ Len(s) \in Nat /\ Len(t) \in Nat
  OBVIOUS
<1>2. /\ Len(r) <= Len(t) /\ \A i \in 1..Len(r) : r[i] = t[i]
      /\ Len(s) <= Len(t) /\ \A i \in 1..Len(s) : s[i] = t[i]
  BY PrefixMeans
<1>3. CASE Len(r) <= Len(s)
  <2>1. \A i \in 1..Len(r) : r[i] = s[i]
    BY <1>1, <1>2, <1>3
  <2>. QED
    BY <1>3, <2>1, PrefixMeans DEF Related
<1>4. CASE Len(s) <= Len(r)
  <2>1. \A i \in 1..Len(s) : s[i] = r[i]
    BY <1>1, <1>2, <1>4
  <2>. QED
    BY <1>4, <2>1, PrefixMeans DEF Related
<1>. QED
  BY <1>1, <1>3, <1>4

\* What is on the way to a path: its prefixes, the empty one left out.
LEMMA OnTheWay ==
    ASSUME NEW t \in Path
    PROVE  /\ WayTo(t) \subseteq Path
           /\ \A p \in Path : p \in WayTo(t) <=> IsPrefix(p, t)
           /\ t \in WayTo(t)
<1>. t \in Seq(Key) /\ Len(t) \in Nat
  BY DEF Path
<1>1. ASSUME NEW i \in 1..Len(t)
      PROVE  /\ SubSeq(t, 1, i) \in Path
             /\ Len(SubSeq(t, 1, i)) = i
             /\ \A j \in 1..i : SubSeq(t, 1, i)[j] = t[j]
  <2>1. /\ SubSeq(t, 1, i) \in Seq(Key) /\ Len(SubSeq(t, 1, i)) = i
        /\ \A j \in 1..i : SubSeq(t, 1, i)[j] = t[j]
    BY SubSeqProperties
  <2>. QED
    BY <2>1 DEF Path
<1>2. WayTo(t) \subseteq Path
  BY <1>1 DEF WayTo
<1>3. ASSUME NEW p \in Path, p \in WayTo(t) PROVE IsPrefix(p, t)
  <2>1. PICK i \in 1..Len(t) : p = SubSeq(t, 1, i)
    BY <1>3 DEF WayTo
  <2>2. Len(p) = i /\ \A j \in 1..i : p[j] = t[j]
    BY <2>1, <1>1
  <2>3. p \in Seq(Key)
    BY DEF Path
  <2>. QED
    BY <2>2, <2>3, PrefixMeans
<1>4. ASSUME NEW p \in Path, IsPrefix(p, t) PROVE p \in WayTo(t)
  <2>1. p \in Seq(Key) /\ Len(p) \in 1..Len(t)
    BY <1>4 DEF Path, IsPrefix
  <2>2. \A j \in 1..Len(p) : p[j] = t[j]
    BY <2>1, <1>4, PrefixMeans
  <2>3. p = SubSeq(t, 1, Len(p))
    <3>1. SubSeq(t, 1, Len(p)) \in Seq(Key)
      BY <2>1, <1>1 DEF Path
    <3>. QED
      BY <2>1, <2>2, <1>1, <3>1, SeqEqual
  <2>. QED
    BY <2>1, <2>3 DEF WayTo
<1>5. IsPrefix(t, t)
  BY PrefixOrder
<1>. QED
  BY <1>2, <1>3, <1>4, <1>5

-----------------------------------------------------------------------------
(* Documents.                                                               *)

\* What is on the way to a proper saying is a path, and so are the related.
LEMMA Places ==
    ASSUME NEW said, Proper(said), NEW d, Holds(d, said)
    PROVE  /\ DOMAIN d \subseteq Path
           /\ \A p \in DOMAIN d : \E u \in said : IsPrefix(p, u.path)
           /\ \A u \in said, p \in Path : IsPrefix(p, u.path) => p \in DOMAIN d
           /\ \A u \in said : u.path \in DOMAIN d
<1>1. \A u \in said : u.path \in Path
  BY DEF Proper
<1>2. DOMAIN d = UNION {WayTo(u.path) : u \in said}
  BY DEF Holds
<1>3. \A u \in said : /\ WayTo(u.path) \subseteq Path
                      /\ \A p \in Path : p \in WayTo(u.path) <=> IsPrefix(p, u.path)
                      /\ u.path \in WayTo(u.path)
  BY <1>1, OnTheWay
<1>. QED
  BY <1>1, <1>2, <1>3

\* Where a document has something else than a section, it has a saying.
LEMMA AtALeaf ==
    ASSUME NEW said, Proper(said), NEW d, Holds(d, said), NEW p \in DOMAIN d, d[p] # Section
    PROVE  \E u \in said : u.path = p /\ u.value = d[p]
BY DEF Holds

\* Merge, in terms of what is said: what is beside everything that the later
\* document says, and all that it says.
LEMMA MergeHolds ==
    ASSUME NEW said, NEW later, Proper(said), Proper(later),
           NEW d, NEW e, Holds(d, said), Holds(e, later)
    PROVE  Holds(Merge(d, e), Beside(said, later) \cup later)
<1>. DEFINE Gives(p) == \E q \in DOMAIN e : /\ IsPrefix(q, p)
                                            /\ q \in DOMAIN d
                                            /\ ~(IsSection(d, q) /\ IsSection(e, q))
            Keeps == {p \in DOMAIN d : ~Gives(p)}
            both == Beside(said, later) \cup later
            m == Merge(d, e)
<1>1. /\ DOMAIN m = Keeps \cup DOMAIN e
      /\ \A p \in DOMAIN e : m[p] = e[p]
      /\ \A p \in Keeps : p \notin DOMAIN e => m[p] = d[p]
  BY DEF Merge
<1>2. /\ DOMAIN d \subseteq Path /\ DOMAIN e \subseteq Path
      /\ \A u \in said \cup later : u.path \in Path /\ u.path \in Seq(Key)
      /\ Path \subseteq Seq(Key)
  BY Places DEF Proper, Path
<1>3. /\ \A u \in said, p \in Path : IsPrefix(p, u.path) => p \in DOMAIN d
      /\ \A u \in later, p \in Path : IsPrefix(p, u.path) => p \in DOMAIN e
      /\ \A u \in said : u.path \in DOMAIN d
      /\ \A u \in later : u.path \in DOMAIN e
      /\ \A p \in DOMAIN d : \E u \in said : IsPrefix(p, u.path)
      /\ \A p \in DOMAIN e : \E u \in later : IsPrefix(p, u.path)
  BY Places
<1>4. /\ \A u \in said : d[u.path] = u.value /\ u.value # Section
      /\ \A u \in later : e[u.path] = u.value /\ u.value # Section
  BY DEF Holds, Proper
<1>5. ASSUME NEW u \in Beside(said, later), NEW p \in Path, IsPrefix(p, u.path)
      PROVE  p \in Keeps
  <2>1. u \in said /\ \A v \in later : ~IsPrefix(v.path, u.path) /\ ~IsPrefix(u.path, v.path)
    BY DEF Beside, Related
  <2>2. p \in DOMAIN d
    BY <1>3, <1>5, <2>1
  <2>3. SUFFICES ASSUME NEW q \in DOMAIN e, IsPrefix(q, p), q \in DOMAIN d,
                        ~(IsSection(d, q) /\ IsSection(e, q))
                 PROVE  FALSE
    BY <2>2
  <2>4. IsPrefix(q, u.path)
    BY <1>2, <1>5, <2>1, <2>3, PrefixTransitive
  <2>5. CASE ~IsSection(d, q)
    <3>1. PICK t \in said : t.path = q
      BY <2>3, <2>5, AtALeaf DEF IsSection
    <3>2. t = u
      BY <2>1, <2>4, <3>1 DEF Holds
    <3>3. PICK v \in later : IsPrefix(u.path, v.path)
      BY <1>3, <2>3, <3>1, <3>2
    <3>. QED
      BY <2>1, <3>3
  <2>6. CASE ~IsSection(e, q)
    <3>1. PICK v \in later : v.path = q
      BY <2>3, <2>6, AtALeaf DEF IsSection
    <3>. QED
      BY <2>1, <2>4, <3>1
  <2>. QED
    BY <2>3, <2>5, <2>6
<1>6. ASSUME NEW p \in Keeps, p \notin DOMAIN e, NEW u \in said, IsPrefix(p, u.path)
      PROVE  u \in Beside(said, later)
  <2>1. SUFFICES ASSUME NEW v \in later, Related(u.path, v.path) PROVE FALSE
    BY DEF Beside
  <2>2. p \in Path /\ p \in Seq(Key)
    BY <1>2
  <2>3. CASE IsPrefix(v.path, u.path)
    <3>1. Related(v.path, p)
      BY <1>2, <1>6, <2>2, <2>3, PrefixesRelated
    <3>2. ~IsPrefix(p, v.path)
      BY <1>3, <1>6, <2>2
    <3>3. IsPrefix(v.path, p)
      BY <3>1, <3>2 DEF Related
    <3>4. v.path \in DOMAIN e /\ v.path \in DOMAIN d
      BY <1>2, <1>3, <2>3
    <3>5. ~IsSection(e, v.path)
      BY <1>4 DEF IsSection
    <3>. QED
      BY <3>3, <3>4, <3>5
  <2>4. CASE IsPrefix(u.path, v.path)
    <3>1. IsPrefix(p, v.path)
      BY <1>2, <1>6, <2>2, <2>4, PrefixTransitive
    <3>. QED
      BY <1>3, <1>6, <2>2, <3>1
  <2>. QED
    BY <2>1, <2>3, <2>4 DEF Related
<1>7. DOMAIN m = UNION {WayTo(u.path) : u \in both}
  <2>1. \A u \in both : u.path \in Path /\ WayTo(u.path) \subseteq Path
    BY <1>2, OnTheWay DEF Beside
  <2>2. \A u \in both, p \in Path : p \in WayTo(u.path) <=> IsPrefix(p, u.path)
    BY <2>1, OnTheWay
  <2>3. ASSUME NEW u \in both, NEW p \in WayTo(u.path) PROVE p \in DOMAIN m
    BY <1>1, <1>3, <1>5, <2>1, <2>2
  <2>4. ASSUME NEW p \in DOMAIN m PROVE \E u \in both : p \in WayTo(u.path)
    <3>1. p \in Path
      BY <1>1, <1>2
    <3>2. CASE p \in DOMAIN e
      BY <1>3, <2>2, <3>1, <3>2
    <3>3. CASE p \notin DOMAIN e
      <4>1. p \in Keeps
        BY <1>1, <3>3
      <4>2. PICK u \in said : IsPrefix(p, u.path)
        BY <1>3, <4>1
      <4>3. u \in both
        BY <1>6, <3>3, <4>1, <4>2
      <4>. QED
        BY <2>2, <3>1, <4>2, <4>3
    <3>. QED
      BY <3>2, <3>3
  <2>. QED
    BY <2>3, <2>4
<1>8. ASSUME NEW u \in both, NEW v \in both, IsPrefix(u.path, v.path) PROVE u = v
  BY <1>8 DEF Holds, Beside, Related
<1>9. ASSUME NEW u \in both PROVE m[u.path] = u.value
  <2>1. CASE u \in later
    BY <1>1, <1>3, <1>4, <2>1
  <2>2. CASE u \in Beside(said, later)
    <3>1. u \in said /\ \A v \in later : ~IsPrefix(u.path, v.path)
      BY <2>2 DEF Beside, Related
    <3>2. u.path \notin DOMAIN e
      BY <1>3, <3>1
    <3>3. u.path \in Keeps
      BY <1>2, <1>5, <2>2, <3>1, PrefixOrder
    <3>. QED
      BY <1>1, <1>4, <3>1, <3>2, <3>3
  <2>. QED
    BY <2>1, <2>2
<1>10. ASSUME NEW p \in DOMAIN m, \A u \in both : u.path # p PROVE m[p] = Section
  <2>1. CASE p \in DOMAIN e
    BY <1>1, <1>10, <2>1 DEF Holds
  <2>2. CASE p \notin DOMAIN e
    <3>1. p \in Keeps /\ m[p] = d[p]
      BY <1>1, <2>2
    <3>2. ASSUME NEW u \in said, u.path = p PROVE FALSE
      <4>1. IsPrefix(p, u.path)
        BY <1>2, <3>2, PrefixOrder
      <4>. QED
        BY <1>6, <1>10, <2>2, <3>1, <3>2, <4>1
    <3>. QED
      BY <3>1, <3>2 DEF Holds
  <2>. QED
    BY <2>1, <2>2
<1>. QED
  BY <1>7, <1>8, <1>9, <1>10 DEF Holds

\* The document of one saying.
LEMMA SingleHolds ==
    ASSUME NEW u, u.path \in Path, u.value # Section
    PROVE  Holds(Single(u.path, u.value), {u})
<1>1. DOMAIN Single(u.path, u.value) = UNION {WayTo(v.path) : v \in {u}}
  BY DEF Single
<1>2. u.path \in DOMAIN Single(u.path, u.value)
  BY OnTheWay DEF Single
<1>. QED
  BY <1>1, <1>2 DEF Holds, Single

\* set, in terms of what is said.
LEMMA SetHolds ==
    ASSUME NEW said, Proper(said), NEW d, Holds(d, said),
           NEW u, u.path \in Path, u.value # Section
    PROVE  Holds(Set(d, u.path, u.value), Beside(said, {u}) \cup {u})
<1>1. Proper({u}) /\ Holds(Single(u.path, u.value), {u})
  BY SingleHolds DEF Proper
<1>. QED
  BY <1>1, MergeHolds DEF Set

\* The empty document says nothing.
LEMMA EmptyHolds == Holds(Empty, {})
BY DEF Holds, Empty

-----------------------------------------------------------------------------
(* What is said.                                                            *)

\* What a service may be started with, as the assumption has it.
LEMMA Worlds ==
    ASSUME world \in World
    PROVE  /\ world.embeds \in BOOLEAN
           /\ \A f \in DOMAIN world.files :
                 /\ f \in Place
                 /\ DOMAIN world.files[f].lines = 1..Len(world.files[f].lines)
                 /\ Len(world.files[f].lines) \in Nat
                 /\ \A i \in DOMAIN world.files[f].lines : world.files[f].lines[i] \in LineType
           /\ Len(world.environ) \in Nat
           /\ \A i \in DOMAIN world.environ :
                 world.environ[i].var \in LineType /\ world.environ[i].rank \in Nat \ {0}
           /\ \A i, j \in DOMAIN world.environ :
                 world.environ[i].rank = world.environ[j].rank => i = j
           /\ {world.environ[i].rank : i \in DOMAIN world.environ} = 1..Len(world.environ)
<1>1. world.embeds \in BOOLEAN
  BY ConfigAssumption
<1>2. \A f \in DOMAIN world.files : f \in Place
  BY ConfigAssumption
<1>3. \A f \in DOMAIN world.files : world.files[f].lines \in Seq(LineType)
  BY ConfigAssumption
<1>4. world.environ \in Seq(Variable)
  BY ConfigAssumption
<1>5. \A i, j \in DOMAIN world.environ :
         world.environ[i].rank = world.environ[j].rank => i = j
  BY ConfigAssumption
<1>6. {world.environ[i].rank : i \in DOMAIN world.environ} = 1..Len(world.environ)
  BY ConfigAssumption
<1>7. ASSUME NEW i \in DOMAIN world.environ
      PROVE  world.environ[i].var \in LineType /\ world.environ[i].rank \in Nat \ {0}
  <2>1. world.environ[i] \in Variable
    <3>1. world.environ \in Seq(Variable) /\ i \in 1..Len(world.environ)
      BY <1>4
    <3>. QED
      BY <3>1, ElementOfSeq
  <2>2. world.environ[i].rank \in 1..Len(world.environ)
    BY <1>6
  <2>. QED
    BY <2>1, <2>2 DEF Variable
<1>8. ASSUME NEW f \in DOMAIN world.files
      PROVE  /\ DOMAIN world.files[f].lines = 1..Len(world.files[f].lines)
             /\ Len(world.files[f].lines) \in Nat
             /\ \A i \in DOMAIN world.files[f].lines : world.files[f].lines[i] \in LineType
  BY <1>3
<1>9. Len(world.environ) \in Nat
  BY <1>4
<1>. QED
  BY <1>1, <1>2, <1>5, <1>6, <1>7, <1>8, <1>9

\* The canonical path of a line is a path, its values are no sections.
LEMMA LinesTyped ==
    ASSUME NEW l \in LineType
    PROVE  /\ CanonPath(l.path) \in Path /\ Len(CanonPath(l.path)) = Len(l.path)
           /\ \A i \in 1..Len(l.path) : CanonPath(l.path)[i] = Canon[l.path[i]]
           /\ l.kind \in Kind
           /\ Typed(l).kind \in Kind /\ ParseValue(l.text).kind \in Kind
<1>1. /\ l.path \in Seq(DOMAIN Canon) /\ l.path # <<>>
      /\ l.kind \in Kind /\ l.text \in DOMAIN Texts
  BY DEF LineType
<1>2. /\ CanonPath(l.path) = [i \in 1..Len(l.path) |-> Canon[l.path[i]]]
      /\ Len(l.path) \in Nat /\ Len(l.path) # 0
      /\ \A i \in 1..Len(l.path) : l.path[i] \in DOMAIN Canon
  BY <1>1 DEF CanonPath
<1>3. CanonPath(l.path) \in Seq(Key) /\ Len(CanonPath(l.path)) = Len(l.path)
  BY <1>2 DEF Key
<1>4. CanonPath(l.path) # <<>>
  BY <1>2, <1>3
<1>5. Texts[l.text] \in Kind
  BY <1>1, ConfigAssumption
<1>. QED
  BY <1>1, <1>2, <1>3, <1>4, <1>5 DEF Path, Typed, ParseValue

\* A value of a kind the parsers find is no section.
LEMMA KindsAreNotSections ==
    ASSUME NEW v, v.kind \in Kind
    PROVE  v # Section
<1>1. Section.kind = "section"
  BY DEF Section
<1>2. v.kind # "section"
  BY DEF Kind
<1>. QED
  BY <1>1, <1>2

\* A place's height, by what it is.
LEMMA Heights ==
    ASSUME NEW p \in Place
    PROVE  /\ p.in = "disk" /\ p.profile = NoProfile => Height(p) = 3
           /\ p.in = "disk" /\ p.profile # NoProfile => Height(p) = 4
           /\ p.in = "embedded" /\ p.profile = NoProfile => Height(p) = 1
           /\ p.in = "embedded" /\ p.profile # NoProfile => Height(p) = 2
           /\ Height(p) \in 1..4
BY DEF Height, Place

\* The files of a start are at places of one of two kinds.
LEMMA UsedArePlaces ==
    ASSUME world \in World, NEW p \in Used
    PROVE  /\ p \in DOMAIN world.files /\ p \in Place
           /\ p = [in |-> p.in, profile |-> p.profile]
           /\ p.in \in {"embedded", "disk"} /\ p.profile \in {NoProfile, profile}
           /\ world.embeds \/ p.in = "disk"
<1>1. /\ p \in DOMAIN world.files /\ p.profile \in {NoProfile, profile}
      /\ world.embeds \/ p.in = "disk"
  BY DEF Used
<1>2. p \in Place
  BY <1>1, Worlds
<1>. QED
  BY <1>1, <1>2 DEF Place

\* Every saying has a path, a value of a known kind, a layer and a line.
LEMMA SayingsTyped ==
    ASSUME world \in World, NEW u \in Uttered
    PROVE  /\ u.path \in Path /\ u.value.kind \in Kind /\ u.value # Section
           /\ u.layer \in 1..Highest /\ u.line \in Nat \ {0}
<1>1. CASE u \in EnvironmentSays
  <2>1. PICK i \in DOMAIN world.environ :
           u = Saying(Highest, world.environ[i].rank, world.environ[i].var,
                      ParseValue(world.environ[i].var.text))
    BY <1>1 DEF EnvironmentSays
  <2>2. world.environ[i].var \in LineType
    BY Worlds
  <2>3. world.environ[i].rank \in Nat \ {0}
    BY Worlds
  <2>4. /\ u.path = CanonPath(world.environ[i].var.path) /\ u.layer = Highest
        /\ u.line = world.environ[i].rank /\ u.value = ParseValue(world.environ[i].var.text)
    BY <2>1 DEF Saying
  <2>. QED
    BY <2>2, <2>3, <2>4, LinesTyped, KindsAreNotSections DEF Highest
<1>2. CASE u \notin EnvironmentSays
  <2>1. PICK p \in Used : u \in FileSays(p)
    BY <1>2 DEF Uttered
  <2>2. PICK i \in DOMAIN world.files[p].lines :
           u = Saying(Height(p), i, world.files[p].lines[i], Typed(world.files[p].lines[i]))
    BY <2>1 DEF FileSays
  <2>3. world.files[p].lines[i] \in LineType /\ i \in Nat \ {0}
    <3>1. p \in DOMAIN world.files
      BY UsedArePlaces
    <3>2. /\ DOMAIN world.files[p].lines = 1..Len(world.files[p].lines)
          /\ Len(world.files[p].lines) \in Nat
          /\ \A j \in DOMAIN world.files[p].lines : world.files[p].lines[j] \in LineType
      BY <3>1, Worlds
    <3>. QED
      BY <3>2
  <2>4. /\ u.path = CanonPath(world.files[p].lines[i].path) /\ u.layer = Height(p)
        /\ u.line = i /\ u.value = Typed(world.files[p].lines[i])
    BY <2>2 DEF Saying
  <2>5. Height(p) \in 1..Highest
    <3>1. p \in Place
      BY UsedArePlaces
    <3>2. Height(p) \in 1..4
      BY <3>1, Heights
    <3>. QED
      BY <3>2 DEF Highest
  <2>. QED
    BY <2>3, <2>4, <2>5, LinesTyped, KindsAreNotSections
<1>. QED
  BY <1>1, <1>2

\* Any sayings of a start are proper.
LEMMA SayingsProper ==
    ASSUME world \in World, NEW said, said \subseteq Uttered
    PROVE  Proper(said)
BY SayingsTyped DEF Proper

\* The layer of a file is its own: two files that are read have two.
LEMMA HeightsDiffer ==
    ASSUME NEW p \in Place, NEW q \in Place, Height(p) = Height(q),
           p.profile \in {NoProfile, profile}, q.profile \in {NoProfile, profile}
    PROVE  p = q
<1>1. /\ p.in \in {"embedded", "disk"} /\ p = [in |-> p.in, profile |-> p.profile]
      /\ q.in \in {"embedded", "disk"} /\ q = [in |-> q.in, profile |-> q.profile]
  BY DEF Place
<1>2. p.in = q.in /\ (p.profile = NoProfile <=> q.profile = NoProfile)
  BY <1>1, Heights
<1>. QED
  BY <1>1, <1>2

\* What the layer of a file says is what the file says, and what the highest
\* layer says is what the environment says.
LEMMA LayersSay ==
    ASSUME world \in World
    PROVE  /\ \A p \in Used : {u \in Uttered : u.layer = Height(p)} = FileSays(p)
           /\ {u \in Uttered : u.layer = Highest} = EnvironmentSays
           /\ \A u \in Uttered : u.layer = Highest \/ \E p \in Used : u.layer = Height(p)
<1>1. /\ \A p \in Used : \A u \in FileSays(p) : u.layer = Height(p) /\ u \in Uttered
      /\ \A u \in EnvironmentSays : u.layer = Highest /\ u \in Uttered
  BY DEF FileSays, EnvironmentSays, Saying, Uttered
<1>2. \A p \in Used : Height(p) # Highest
  <2>1. ASSUME NEW p \in Used PROVE Height(p) \in 1..4
    <3>1. p \in Place
      BY UsedArePlaces
    <3>. QED
      BY <3>1, Heights
  <2>. QED
    BY <2>1 DEF Highest
<1>3. ASSUME NEW p \in Used, NEW q \in Used, Height(p) = Height(q) PROVE p = q
  BY <1>3, UsedArePlaces, HeightsDiffer
<1>4. \A u \in Uttered : u \in EnvironmentSays \/ \E p \in Used : u \in FileSays(p)
  BY DEF Uttered
<1>. QED
  BY <1>1, <1>2, <1>3, <1>4

\* The sources are in the order of their layers; they are the files this start
\* is to read, and the one that has to be there.
LEMMA SourcesAre ==
    ASSUME world \in World, profile \in DOMAIN Texts \cup {NoProfile}
    PROVE  /\ Len(Sources) \in 1..4 /\ DOMAIN Sources = 1..Len(Sources)
           /\ \A i \in DOMAIN Sources : Sources[i].place \in Place
           /\ \A i \in DOMAIN Sources :
                 Sources[i].place \in DOMAIN world.files => Sources[i].place \in Used
           /\ \A i \in DOMAIN Sources : Sources[i].required <=> Sources[i].place = BaseFile
           /\ \A i, j \in DOMAIN Sources :
                 i < j => Height(Sources[i].place) < Height(Sources[j].place)
           /\ \A p \in Used : \E i \in DOMAIN Sources : Sources[i].place = p
           /\ \E i \in DOMAIN Sources : Sources[i].place = BaseFile
<1>. DEFINE At(in, p) == [in |-> in, profile |-> p]
<1>1. world.embeds \in BOOLEAN
  BY Worlds
<1>2. /\ At("embedded", NoProfile) \in Place /\ At("disk", NoProfile) \in Place
      /\ At("embedded", profile) \in Place /\ At("disk", profile) \in Place
  BY DEF Place
<1>3. /\ Height(At("embedded", NoProfile)) = 1 /\ Height(At("disk", NoProfile)) = 3
      /\ profile # NoProfile =>
            Height(At("embedded", profile)) = 2 /\ Height(At("disk", profile)) = 4
  BY <1>2, Heights
<1>4. \A p \in Used : \/ p \in {At("disk", NoProfile), At("disk", profile)}
                      \/ world.embeds /\ p \in {At("embedded", NoProfile), At("embedded", profile)}
  BY UsedArePlaces
<1>5. /\ At("disk", NoProfile) \in DOMAIN world.files => At("disk", NoProfile) \in Used
      /\ At("disk", profile) \in DOMAIN world.files => At("disk", profile) \in Used
      /\ world.embeds /\ At("embedded", NoProfile) \in DOMAIN world.files
            => At("embedded", NoProfile) \in Used
      /\ world.embeds /\ At("embedded", profile) \in DOMAIN world.files
            => At("embedded", profile) \in Used
  BY DEF Used
<1>6. /\ world.embeds => BaseFile = At("embedded", NoProfile)
      /\ ~world.embeds => BaseFile = At("disk", NoProfile)
      /\ At("embedded", NoProfile) # At("disk", NoProfile)
      /\ profile # NoProfile => /\ At("embedded", NoProfile) # At("embedded", profile)
                        /\ At("embedded", NoProfile) # At("disk", profile)
                        /\ At("disk", NoProfile) # At("disk", profile)
  BY DEF BaseFile
<1>7. CASE world.embeds /\ profile = NoProfile
  <2>1. Sources = <<Source("embedded", NoProfile, TRUE), Source("disk", NoProfile, FALSE)>>
    BY <1>7 DEF Sources, FileLayers
  <2>2. /\ Sources[1].place = At("embedded", NoProfile) /\ Sources[1].required = TRUE
        /\ Sources[2].place = At("disk", NoProfile) /\ Sources[2].required = FALSE
    BY <2>1 DEF Source
  <2>3. Len(Sources) = 2 /\ DOMAIN Sources = 1..2
    BY <2>1
  <2>. HIDE DEF At
  <2>. QED
    BY <1>2, <1>3, <1>4, <1>5, <1>6, <1>7, <2>2, <2>3
<1>8. CASE world.embeds /\ profile # NoProfile
  <2>1. Sources = <<Source("embedded", NoProfile, TRUE), Source("embedded", profile, FALSE),
                    Source("disk", NoProfile, FALSE), Source("disk", profile, FALSE)>>
    BY <1>8 DEF Sources, FileLayers
  <2>2. /\ Sources[1].place = At("embedded", NoProfile) /\ Sources[1].required = TRUE
        /\ Sources[2].place = At("embedded", profile) /\ Sources[2].required = FALSE
        /\ Sources[3].place = At("disk", NoProfile) /\ Sources[3].required = FALSE
        /\ Sources[4].place = At("disk", profile) /\ Sources[4].required = FALSE
    BY <2>1 DEF Source
  <2>3. Len(Sources) = 4 /\ DOMAIN Sources = 1..4
    BY <2>1
  <2>. HIDE DEF At
  <2>. QED
    BY <1>2, <1>3, <1>4, <1>5, <1>6, <1>8, <2>2, <2>3
<1>9. CASE ~world.embeds /\ profile = NoProfile
  <2>1. Sources = <<Source("disk", NoProfile, TRUE)>>
    BY <1>9 DEF Sources, FileLayers
  <2>2. /\ Sources[1].place = At("disk", NoProfile) /\ Sources[1].required = TRUE
    BY <2>1 DEF Source
  <2>3. Len(Sources) = 1 /\ DOMAIN Sources = 1..1
    BY <2>1
  <2>. HIDE DEF At
  <2>. QED
    BY <1>2, <1>3, <1>4, <1>5, <1>6, <1>9, <2>2, <2>3
<1>10. CASE ~world.embeds /\ profile # NoProfile
  <2>1. Sources = <<Source("disk", NoProfile, TRUE), Source("disk", profile, FALSE)>>
    BY <1>10 DEF Sources, FileLayers
  <2>2. /\ Sources[1].place = At("disk", NoProfile) /\ Sources[1].required = TRUE
        /\ Sources[2].place = At("disk", profile) /\ Sources[2].required = FALSE
    BY <2>1 DEF Source
  <2>3. Len(Sources) = 2 /\ DOMAIN Sources = 1..2
    BY <2>1
  <2>. HIDE DEF At
  <2>. QED
    BY <1>2, <1>3, <1>4, <1>5, <1>6, <1>10, <2>2, <2>3
<1>. QED
  BY <1>1, <1>7, <1>8, <1>9, <1>10

-----------------------------------------------------------------------------
(* Layers and lines.                                                        *)

\* Something is said of the layer of every source but the last, which reads
\* nothing, and of no layer between.
LEMMA Ascent ==
    ASSUME world \in World, profile \in DOMAIN Texts \cup {NoProfile},
           NEW nr \in 1..Len(Sources) + 1
    PROVE  /\ LayerAt(nr) \in Nat /\ LayerAt(nr + 1) \in Nat
           /\ LayerAt(nr) < LayerAt(nr + 1)
           /\ \A u \in Uttered : u.layer <= LayerAt(nr) \/ u.layer >= LayerAt(nr + 1)
<1>1. /\ Len(Sources) \in 1..4 /\ DOMAIN Sources = 1..Len(Sources)
      /\ \A i, j \in DOMAIN Sources :
            i < j => Height(Sources[i].place) < Height(Sources[j].place)
  BY SourcesAre
<1>2. \A i \in DOMAIN Sources : Height(Sources[i].place) \in 1..4
  BY SourcesAre, Heights
<1>. PICK k \in 1..4 : Len(Sources) = k
  BY <1>1
<1>. /\ nr \in Nat /\ DOMAIN Sources = 1..k
     /\ nr + 1 \in DOMAIN Sources \/ nr = k \/ nr = k + 1
     /\ nr \in DOMAIN Sources \/ nr = k + 1
  BY <1>1
<1>3. /\ nr \in DOMAIN Sources => LayerAt(nr) = Height(Sources[nr].place)
      /\ nr + 1 \in DOMAIN Sources => LayerAt(nr + 1) = Height(Sources[nr + 1].place)
      /\ nr = k => LayerAt(nr + 1) = 5
      /\ nr = k + 1 => LayerAt(nr) = 5 /\ LayerAt(nr + 1) = 6
  <2>1. nr \in DOMAIN Sources => LayerAt(nr) = Height(Sources[nr].place)
    BY DEF LayerAt
  <2>2. nr + 1 \in DOMAIN Sources => LayerAt(nr + 1) = Height(Sources[nr + 1].place)
    BY DEF LayerAt
  <2>3. nr = k => LayerAt(nr + 1) = 5
    BY DEF LayerAt, Highest
  <2>4. nr = k + 1 => LayerAt(nr) = 5 /\ LayerAt(nr + 1) = 6
    BY DEF LayerAt, Highest
  <2>. QED
    BY <2>1, <2>2, <2>3, <2>4
<1>4. LayerAt(nr) \in Nat /\ LayerAt(nr + 1) \in Nat /\ LayerAt(nr) < LayerAt(nr + 1)
  <2>1. CASE nr + 1 \in DOMAIN Sources
    BY <1>1, <1>2, <1>3, <2>1
  <2>2. CASE nr = k
    BY <1>1, <1>2, <1>3, <2>2
  <2>3. CASE nr = k + 1
    BY <1>3, <2>3
  <2>. QED
    BY <1>1, <2>1, <2>2, <2>3
<1>5. ASSUME NEW u \in Uttered PROVE u.layer <= LayerAt(nr) \/ u.layer >= LayerAt(nr + 1)
  <2>1. u.layer = 5 \/ \E i \in DOMAIN Sources : u.layer = Height(Sources[i].place)
    BY LayersSay, SourcesAre DEF Highest
  <2>2. CASE u.layer = 5
    <3>1. LayerAt(nr) = 5 \/ LayerAt(nr + 1) <= 5
      <4>1. CASE nr + 1 \in DOMAIN Sources
        BY <1>2, <1>3, <4>1
      <4>2. CASE nr = k
        BY <1>3, <4>2
      <4>3. CASE nr = k + 1
        BY <1>3, <4>3
      <4>. QED
        BY <1>1, <4>1, <4>2, <4>3
    <3>. QED
      BY <1>4, <2>2, <3>1
  <2>3. ASSUME NEW i \in DOMAIN Sources, u.layer = Height(Sources[i].place)
        PROVE  u.layer <= LayerAt(nr) \/ u.layer >= LayerAt(nr + 1)
    <3>1. CASE nr = k + 1
      BY <1>2, <1>3, <2>3, <3>1
    <3>2. CASE nr \in DOMAIN Sources /\ i <= nr
      <4>1. i = nr \/ Height(Sources[i].place) < Height(Sources[nr].place)
        BY <1>1, <3>2
      <4>. QED
        BY <1>2, <1>3, <2>3, <3>2, <4>1
    <3>3. CASE nr \in DOMAIN Sources /\ i > nr
      <4>1. nr + 1 \in DOMAIN Sources /\ (i = nr + 1 \/ i > nr + 1)
        BY <1>1, <3>3
      <4>2. i = nr + 1 \/ Height(Sources[nr + 1].place) < Height(Sources[i].place)
        BY <1>1, <4>1
      <4>. QED
        BY <1>2, <1>3, <2>3, <4>1, <4>2
    <3>. QED
      BY <1>1, <3>1, <3>2, <3>3
  <2>. QED
    BY <2>1, <2>2, <2>3
<1>. QED
  BY <1>4, <1>5

\* The first source's layer is the lowest.
LEMMA Ground ==
    ASSUME world \in World, profile \in DOMAIN Texts \cup {NoProfile}
    PROVE  Below(0) = {} /\ Below(LayerAt(1)) = {}
<1>1. \A u \in Uttered : u.layer \in 1..5
  BY SayingsTyped DEF Highest
<1>2. ASSUME NEW u \in Uttered PROVE u.layer >= LayerAt(1)
  <2>1. u.layer = 5 \/ \E i \in DOMAIN Sources : u.layer = Height(Sources[i].place)
    BY LayersSay, SourcesAre DEF Highest
  <2>2. /\ Len(Sources) \in 1..4 /\ DOMAIN Sources = 1..Len(Sources)
        /\ \A i, j \in DOMAIN Sources :
              i < j => Height(Sources[i].place) < Height(Sources[j].place)
    BY SourcesAre
  <2>3. \A i \in DOMAIN Sources : Height(Sources[i].place) \in 1..4
    BY SourcesAre, Heights
  <2>4. LayerAt(1) = Height(Sources[1].place)
    BY <2>2 DEF LayerAt
  <2>5. \A i \in DOMAIN Sources : i = 1 \/ Height(Sources[1].place) < Height(Sources[i].place)
    BY <2>2
  <2>. QED
    BY <2>1, <2>2, <2>3, <2>4, <2>5
<1>3. LayerAt(1) \in Nat
  <2>1. Len(Sources) \in 1..4
    BY SourcesAre
  <2>. QED
    BY <2>1, Ascent
<1>. QED
  BY <1>1, <1>2, <1>3 DEF Below, Said

\* What is said in the layers below the next source: what was said below this
\* one and is beside what this one says, and that.
LEMMA BelowTheNext ==
    ASSUME world \in World, profile \in DOMAIN Texts \cup {NoProfile},
           NEW nr \in 1..Len(Sources) + 1
    PROVE  LET says == {u \in Said : u.layer = LayerAt(nr)}
           IN Below(LayerAt(nr + 1)) = Beside(Below(LayerAt(nr)), says) \cup says
<1>. DEFINE says == {u \in Said : u.layer = LayerAt(nr)}
<1>. Said \subseteq Uttered
  BY DEF Said
<1>1. /\ LayerAt(nr) \in Nat /\ LayerAt(nr + 1) \in Nat /\ LayerAt(nr) < LayerAt(nr + 1)
      /\ \A u \in Said : u.layer <= LayerAt(nr) \/ u.layer >= LayerAt(nr + 1)
      /\ \A u \in Said : u.layer \in Nat
  <2>1. \A u \in Uttered : u.layer \in 1..5
    BY SayingsTyped DEF Highest
  <2>. QED
    BY <2>1, Ascent
<1>2. \A u \in Said :
         u.layer < LayerAt(nr + 1) <=> u.layer < LayerAt(nr) \/ u.layer = LayerAt(nr)
  BY <1>1
<1>3. ASSUME NEW u \in Below(LayerAt(nr + 1)) PROVE u \in Beside(Below(LayerAt(nr)), says) \cup says
  BY <1>1, <1>2 DEF Below, Beside
<1>4. ASSUME NEW u \in says PROVE u \in Below(LayerAt(nr + 1))
  BY <1>1, <1>2 DEF Below
<1>5. ASSUME NEW u \in Beside(Below(LayerAt(nr)), says) PROVE u \in Below(LayerAt(nr + 1))
  BY <1>1, <1>2 DEF Below, Beside
<1>. QED
  BY <1>3, <1>4, <1>5

\* One more line of a layer, which says something.
LEMMA OneMoreLine ==
    ASSUME world \in World, NEW layer, NEW nr \in Nat,
           NEW w \in Uttered, w.layer = layer, w.line = nr,
           \A u \in Uttered : u.layer = layer /\ u.line = nr => u = w
    PROVE  Before(layer, nr + 1) = Beside(Before(layer, nr), {w}) \cup {w}
<1>1. \A u \in Uttered : u.line \in Nat
  BY SayingsTyped
<1>2. \A u \in Uttered : u.layer = layer => (u.line < nr + 1 <=> u.line < nr \/ u = w)
  BY <1>1
<1>3. ASSUME NEW u \in Before(layer, nr + 1) PROVE u \in Beside(Before(layer, nr), {w}) \cup {w}
  BY <1>1, <1>2 DEF Before, Beside
<1>4. w \in Before(layer, nr + 1)
  BY <1>1, <1>2 DEF Before
<1>5. ASSUME NEW u \in Beside(Before(layer, nr), {w}) PROVE u \in Before(layer, nr + 1)
  BY <1>1, <1>2 DEF Before, Beside
<1>. QED
  BY <1>3, <1>4, <1>5

\* One more line of a layer, which says nothing.
LEMMA OneIdleLine ==
    ASSUME world \in World, NEW layer, NEW nr \in Nat,
           \A u \in Uttered : u.layer = layer => u.line # nr
    PROVE  Before(layer, nr + 1) = Before(layer, nr)
<1>1. \A u \in Uttered : u.line \in Nat
  BY SayingsTyped
<1>2. \A u \in Uttered : u.layer = layer => (u.line < nr + 1 <=> u.line < nr)
  BY <1>1
<1>. QED
  BY <1>2 DEF Before

\* All lines of a layer.
LEMMA AllLines ==
    ASSUME world \in World, NEW layer, NEW nr \in Nat,
           \A u \in Uttered : u.layer = layer => u.line < nr
    PROVE  Before(layer, nr) = {u \in Said : u.layer = layer}
<1>1. \A u \in Uttered : u.line \in Nat
  BY SayingsTyped
<1>. QED
  BY <1>1 DEF Before, Said, Withdrawn

\* No line of a layer.
LEMMA NoLine ==
    ASSUME world \in World, NEW layer
    PROVE  Before(layer, 1) = {}
<1>1. \A u \in Uttered : u.line \in Nat \ {0}
  BY SayingsTyped
<1>. QED
  BY <1>1 DEF Before

\* In the end nothing is below the highest layer that is overruled.
LEMMA BelowTheLast ==
    ASSUME world \in World
    PROVE  Below(Highest + 1) = Standing
<1>1. \A u \in Said : u.layer \in 1..5
  BY SayingsTyped DEF Said, Highest
<1>. QED
  BY <1>1 DEF Below, Standing, Overruled, Highest

-----------------------------------------------------------------------------
(* The documents of the sources.                                            *)

\* In a YAML document without a clash no two lines are about one path, or
\* about a path and a section on the way to it.
LEMMA NoClash ==
    ASSUME NEW lines, NEW i \in DOMAIN lines, NEW j \in DOMAIN lines, ~Clash(lines),
           lines[i] \in LineType, lines[j] \in LineType,
           IsPrefix(CanonPath(lines[i].path), CanonPath(lines[j].path))
    PROVE  i = j
<1>. DEFINE p == lines[i].path
            q == lines[j].path
            k == Len(p)
<1>1. /\ p \in Seq(DOMAIN Canon) /\ q \in Seq(DOMAIN Canon) /\ p # <<>>
      /\ Len(p) \in Nat /\ Len(q) \in Nat /\ Len(p) # 0
  BY DEF LineType
<1>2. /\ CanonPath(p) \in Seq(Key) /\ CanonPath(q) \in Seq(Key)
      /\ Len(CanonPath(p)) = Len(p) /\ Len(CanonPath(q)) = Len(q)
      /\ \A nr \in 1..Len(p) : CanonPath(p)[nr] = Canon[p[nr]]
      /\ \A nr \in 1..Len(q) : CanonPath(q)[nr] = Canon[q[nr]]
  BY LinesTyped DEF Path
<1>3. Len(p) <= Len(q) /\ \A nr \in 1..Len(p) : Canon[p[nr]] = Canon[q[nr]]
  <2>1. /\ Len(CanonPath(p)) <= Len(CanonPath(q))
        /\ \A nr \in 1..Len(CanonPath(p)) : CanonPath(p)[nr] = CanonPath(q)[nr]
    BY <1>2, PrefixMeans
  <2>2. Len(p) <= Len(q)
    BY <1>2, <2>1
  <2>3. ASSUME NEW nr \in 1..Len(p) PROVE Canon[p[nr]] = Canon[q[nr]]
    <3>1. nr \in 1..Len(q) /\ nr \in 1..Len(CanonPath(p))
      BY <1>1, <1>2, <2>2
    <3>. HIDE DEF p, q
    <3>. QED
      BY <1>2, <2>1, <3>1
  <2>. QED
    BY <2>2, <2>3
<1>4. CanonPath(SubSeq(p, 1, k)) = CanonPath(SubSeq(q, 1, k))
  <2>1. /\ SubSeq(p, 1, k) = [nr \in 1..k |-> p[nr]]
        /\ SubSeq(q, 1, k) = [nr \in 1..k |-> q[nr]]
    BY <1>1, <1>3
  <2>. QED
    BY <1>3, <2>1 DEF CanonPath
<1>5. k \in 1..Len(lines[i].path)
  BY <1>1
<1>. QED
  BY <1>1, <1>3, <1>4, <1>5 DEF Clash

\* What a sound YAML file holds is what its layer says.
LEMMA YAMLHolds ==
    ASSUME world \in World, IsYAML(world), NEW f \in Used, ~Clash(world.files[f].lines)
    PROVE  Holds(YAML(world.files[f].lines), {u \in Said : u.layer = Height(f)})
<1>. DEFINE lines == world.files[f].lines
            Canonical(i) == CanonPath(lines[i].path)
            Value(l) == [kind |-> l.kind, text |-> l.text]
<1>1. \A i \in DOMAIN lines : lines[i] \in LineType /\ Canonical(i) \in Path
  BY UsedArePlaces, Worlds, LinesTyped
<1>2. FileSays(f) = {Saying(Height(f), i, lines[i], Value(lines[i])) : i \in DOMAIN lines}
  BY DEF FileSays, Typed
<1>3. \A i, j \in DOMAIN lines : IsPrefix(Canonical(i), Canonical(j)) => i = j
  BY <1>1, NoClash
<1>. DEFINE Says(i) == Saying(Height(f), i, lines[i], Value(lines[i]))
<1>4. \A i \in DOMAIN lines : Says(i).path = Canonical(i) /\ Says(i).value = Value(lines[i])
  BY DEF Saying
<1>. FileSays(f) = {Says(i) : i \in DOMAIN lines}
  BY <1>2
<1>5. \A u, v \in FileSays(f) : IsPrefix(u.path, v.path) => u = v
  <2>. HIDE DEF Says, Canonical, Value, lines
  <2>. QED
    BY <1>3, <1>4
<1>6. FileSays(f) = {u \in Uttered : u.layer = Height(f)}
  BY LayersSay
<1>7. ASSUME NEW u \in FileSays(f) PROVE u \in Said
  <2>1. u \in Uttered /\ u.layer = Height(f) /\ u.line \in Nat
    BY <1>6, SayingsTyped
  <2>2. ASSUME NEW v \in Uttered, v.layer = u.layer, v.line > u.line, Related(u.path, v.path)
        PROVE  FALSE
    <3>1. v \in FileSays(f)
      BY <1>6, <2>1, <2>2
    <3>2. u = v
      BY <1>5, <2>2, <3>1 DEF Related
    <3>. QED
      BY <2>1, <2>2, <3>2
  <2>. QED
    BY <2>1, <2>2 DEF Said, Withdrawn
<1>8. {u \in Said : u.layer = Height(f)} = FileSays(f)
  BY <1>6, <1>7 DEF Said
<1>. DEFINE d == YAML(lines)
            About(p) == {i \in DOMAIN lines : Canonical(i) = p}
<1>9. /\ DOMAIN d = UNION {WayTo(Canonical(i)) : i \in DOMAIN lines}
      /\ \A p \in DOMAIN d : d[p] = IF About(p) = {} THEN Section
                                    ELSE Value(lines[CHOOSE i \in About(p) : TRUE])
  BY DEF YAML
<1>10. DOMAIN d = UNION {WayTo(u.path) : u \in FileSays(f)}
  <2>. HIDE DEF Says, Canonical, Value, lines, d
  <2>. QED
    BY <1>4, <1>9
<1>11. ASSUME NEW u \in FileSays(f) PROVE d[u.path] = u.value
  <2>1. PICK i \in DOMAIN lines : u.path = Canonical(i) /\ u.value = Value(lines[i])
    <3>. HIDE DEF Says, Canonical, Value, lines
    <3>. QED
      BY <1>4
  <2>2. u.path \in DOMAIN d
    BY <1>1, <1>9, <2>1, OnTheWay
  <2>3. \A j \in About(u.path) : j = i
    BY <1>1, <1>3, <2>1, PrefixOrder DEF Path
  <2>4. i \in About(u.path)
    BY <2>1
  <2>5. (CHOOSE j \in About(u.path) : TRUE) = i
    BY <2>3, <2>4
  <2>. QED
    BY <1>9, <2>1, <2>2, <2>4, <2>5
<1>12. ASSUME NEW p \in DOMAIN d, \A u \in FileSays(f) : u.path # p PROVE d[p] = Section
  <2>1. ASSUME NEW i \in DOMAIN lines PROVE Canonical(i) # p
    <3>. HIDE DEF Says, Canonical, Value, lines, d
    <3>. QED
      BY <1>4, <1>12
  <2>. QED
    BY <1>9, <2>1
<1>. QED
  BY <1>5, <1>8, <1>10, <1>11, <1>12 DEF Holds

-----------------------------------------------------------------------------
(* The decode.                                                              *)

\* The paths on the way to one in a document are sections of it.
LEMMA SectionsOnTheWay ==
    ASSUME NEW said, Proper(said), NEW d, Holds(d, said), NEW p \in DOMAIN d,
           NEW i \in 1..Len(p) - 1
    PROVE  IsSection(d, SubSeq(p, 1, i))
<1>. DEFINE q == SubSeq(p, 1, i)
<1>1. /\ p \in Path /\ p \in Seq(Key) /\ Len(p) \in Nat /\ \A u \in said : u.path \in Seq(Key)
      /\ \E u \in said : IsPrefix(p, u.path)
  BY Places DEF Path, Proper
<1>2. PICK u \in said : IsPrefix(p, u.path)
  BY <1>1
<1>3. q \in WayTo(p) /\ q \in Seq(Key) /\ Len(q) = i
  BY <1>1, SubSeqProperties DEF WayTo
<1>4. q \in Path /\ IsPrefix(q, p)
  BY <1>1, <1>3, OnTheWay
<1>5. IsPrefix(q, u.path)
  BY <1>1, <1>2, <1>3, <1>4, PrefixTransitive
<1>6. q \in DOMAIN d
  BY <1>2, <1>4, <1>5, Places
<1>7. ASSUME NEW v \in said, v.path = q PROVE FALSE
  <2>1. v = u
    BY <1>2, <1>5, <1>7 DEF Holds
  <2>2. IsPrefix(p, q)
    BY <1>2, <1>7, <2>1
  <2>. QED
    BY <1>1, <1>3, <2>2 DEF IsPrefix
<1>. QED
  BY <1>6, <1>7 DEF Holds, IsSection

\* The fields of the struct: no field is within another, and no field takes a
\* section.
LEMMA Fields ==
    /\ \A f \in DOMAIN Field : f \in Seq(Key) /\ ~IsStruct(f) /\ ~Fits(Field[f], Section)
    /\ \A f, g \in DOMAIN Field : IsPrefix(f, g) => f = g
<1>1. /\ \A f \in DOMAIN Field : f \in Seq(Key) /\ Field[f] \in FieldType
      /\ \A f, g \in DOMAIN Field : IsPrefix(f, g) => f = g
  BY ConfigAssumption DEF Key
<1>2. ASSUME NEW f \in DOMAIN Field PROVE ~Fits(Field[f], Section)
  BY <1>1 DEF Fits, FieldType, Section
<1>. QED
  BY <1>1, <1>2 DEF IsStruct

\* A field may be given what the decoder binds to it, and a null.
LEMMA BindsWhatMayBeSaid ==
    ASSUME NEW f \in DOMAIN Field, NEW v, v.kind \in Kind
    PROVE  Field[f] \in MayBeSaidOf[v.kind] <=> (v.kind = "null" \/ Fits(Field[f], v))
<1>1. Field[f] \in FieldType
  BY ConfigAssumption
<1>2. /\ MayBeSaidOf["int"] = {"int", "float64", "time.Duration"}
      /\ MayBeSaidOf["float"] = {"int", "float64", "time.Duration"}
      /\ MayBeSaidOf["bool"] = {"bool"}
      /\ MayBeSaidOf["text"] = {"string", "[]string"}
      /\ MayBeSaidOf["duration"] = {"string", "[]string", "time.Duration"}
      /\ MayBeSaidOf["texts"] = {"[]string"}
      /\ MayBeSaidOf["list"] = {}
      /\ MayBeSaidOf["null"] = FieldType
  BY DEF MayBeSaidOf
<1>3. CASE Field[f] \in {"int", "float64"}
  BY <1>2, <1>3 DEF Fits, Kind, FieldType
<1>4. CASE Field[f] = "bool"
  BY <1>2, <1>4 DEF Fits, Kind, FieldType
<1>5. CASE Field[f] = "string"
  BY <1>2, <1>5 DEF Fits, Kind, FieldType
<1>6. CASE Field[f] = "[]string"
  BY <1>2, <1>6 DEF Fits, Kind, FieldType
<1>7. CASE Field[f] = "time.Duration"
  BY <1>2, <1>7 DEF Fits, Kind, FieldType
<1>. QED
  BY <1>1, <1>3, <1>4, <1>5, <1>6, <1>7 DEF FieldType

\* The decode refuses a document exactly when something that is said in it is
\* not understood.
LEMMA DecodesTheUnderstood ==
    ASSUME NEW said, Proper(said), \A u \in said : u.value.kind \in Kind,
           NEW d, Holds(d, said)
    PROVE  Decodes(d) <=> \A u \in said : Understood(u)
<1>1. \A u \in said : u.path \in DOMAIN d /\ d[u.path] = u.value /\ u.value.kind # "section"
  BY Places DEF Holds, Kind
<1>2. ASSUME Decodes(d), NEW u \in said PROVE Understood(u)
  BY <1>1, <1>2, BindsWhatMayBeSaid DEF Decodes, Binds, Understood
<1>3. ASSUME \A u \in said : Understood(u), NEW p \in DOMAIN d PROVE Binds(d, p)
  <2>1. CASE d[p] # Section
    <3>1. PICK u \in said : u.path = p /\ u.value = d[p]
      BY <2>1, AtALeaf
    <3>. QED
      BY <1>3, <3>1, BindsWhatMayBeSaid DEF Binds, Understood
  <2>2. CASE d[p] = Section
    <3>1. PICK u \in said : IsPrefix(p, u.path)
      BY Places
    <3>2. p \in Seq(Key) /\ u.path \in Seq(Key) /\ p \in Path /\ u.path \in Path
      BY Places DEF Path, Proper
    <3>3. u.path # p
      BY <1>1, <2>2 DEF Proper
    <3>4. PICK f \in DOMAIN Field : IsPrefix(u.path, f)
      BY <1>3, <3>2, PrefixOrder DEF Understood, IsStruct
    <3>5. IsPrefix(p, f) /\ f \in Seq(Key)
      BY <3>1, <3>2, <3>4, Fields, PrefixTransitive
    <3>6. p \notin DOMAIN Field
      <4>1. SUFFICES ASSUME p \in DOMAIN Field PROVE FALSE
        OBVIOUS
      <4>2. p = f
        BY <3>5, <4>1, Fields
      <4>3. IsPrefix(u.path, p)
        BY <3>4, <4>2
      <4>. QED
        BY <3>1, <3>2, <3>3, <4>3, PrefixOrder
    <3>. QED
      BY <2>2, <3>5, <3>6 DEF Binds, IsStruct, Section
  <2>. QED
    BY <2>1, <2>2
<1>. QED
  BY <1>2, <1>3 DEF Decodes

\* What the decode makes of a field is what the saying about it means.
LEMMA DecodedMeans ==
    ASSUME NEW said, Proper(said), \A u \in said : u.value.kind \in Kind,
           NEW d, Holds(d, said), Decodes(d), NEW f \in DOMAIN Field
    PROVE  LET about == {u \in said : IsPrefix(u.path, f)}
           IN /\ \A u \in about : Decoded(d)[f] = Means(u, f)
              /\ about = {} => Decoded(d)[f] = PreFilled
<1>. DEFINE about == {u \in said : IsPrefix(u.path, f)}
            Emptied == \E p \in DOMAIN d : IsPrefix(p, f) /\ d[p].kind = "null"
<1>1. /\ f \in Seq(Key) /\ DOMAIN d \subseteq Seq(Key) /\ DOMAIN d \subseteq Path
      /\ \A u \in said : u.path \in Seq(Key) /\ u.path \in DOMAIN d /\ d[u.path] = u.value
      /\ \A u \in said : Understood(u)
  BY Fields, Places, DecodesTheUnderstood DEF Holds, Path, Proper
<1>2. Decoded(d)[f] = IF Emptied THEN Zero
                      ELSE IF f \in DOMAIN d THEN Bound(Field[f], d[f])
                      ELSE PreFilled
  BY DEF Decoded
<1>3. ASSUME Emptied PROVE \E v \in about : v.value.kind = "null"
  <2>1. PICK p \in DOMAIN d : IsPrefix(p, f) /\ d[p].kind = "null"
    BY <1>3
  <2>2. d[p] # Section
    BY <2>1 DEF Section
  <2>. QED
    BY <2>1, <2>2, AtALeaf
<1>4. ASSUME NEW u \in about PROVE Decoded(d)[f] = Means(u, f)
  <2>1. CASE u.value.kind = "null"
    <3>1. Emptied
      BY <1>1, <2>1
    <3>. QED
      BY <1>2, <2>1, <3>1 DEF Means
  <2>2. CASE u.value.kind # "null"
    <3>1. u.path \in DOMAIN Field
      BY <1>1, <2>2 DEF Understood
    <3>2. u.path = f
      BY <3>1, Fields
    <3>3. ~Emptied
      <4>1. SUFFICES ASSUME Emptied PROVE FALSE
        OBVIOUS
      <4>2. PICK v \in about : v.value.kind = "null"
        BY <1>3, <4>1
      <4>3. v = u
        BY <3>2, <4>2 DEF Holds
      <4>. QED
        BY <2>2, <4>2, <4>3
    <3>4. f \in DOMAIN d /\ d[f] = u.value
      BY <1>1, <3>2
    <3>. QED
      BY <1>2, <2>2, <3>3, <3>4 DEF Means, Bound
  <2>. QED
    BY <2>1, <2>2
<1>5. ASSUME about = {} PROVE Decoded(d)[f] = PreFilled
  <2>1. ~Emptied
    BY <1>3, <1>5
  <2>2. f \notin DOMAIN d
    <3>1. SUFFICES ASSUME f \in DOMAIN d PROVE FALSE
      OBVIOUS
    <3>2. \A u \in said : u.path # f
      BY <1>1, <1>5, PrefixOrder
    <3>3. d[f] = Section
      BY <3>1, <3>2 DEF Holds
    <3>. QED
      BY <3>1, <3>3, Fields DEF Decodes, Binds, Section
  <2>. QED
    BY <1>2, <2>1, <2>2
<1>. QED
  BY <1>4, <1>5

-----------------------------------------------------------------------------
(* The steps.                                                               *)

\* What is said depends on the start and on the profile alone.
LEMMA SameStart ==
    ASSUME UNCHANGED <<world, profile>>
    PROVE  /\ Sources' = Sources /\ BaseFile' = BaseFile /\ Used' = Used
           /\ Uttered' = Uttered /\ Said' = Said /\ Standing' = Standing
           /\ \A nr : LayerAt(nr)' = LayerAt(nr)
           /\ \A nr : Below(nr)' = Below(nr)
           /\ \A layer, nr : Before(layer, nr)' = Before(layer, nr)
           /\ \A file : Sound(file)' <=> Sound(file)
           /\ Faultless' <=> Faultless
<1>1. Sources' = Sources /\ BaseFile' = BaseFile /\ Used' = Used
  BY DEF Sources, BaseFile, Used
<1>2. Uttered' = Uttered
  <2>1. \A p : FileSays(p)' = FileSays(p)
    BY DEF FileSays, Typed, IsYAML
  <2>2. EnvironmentSays' = EnvironmentSays
    BY DEF EnvironmentSays
  <2>. QED
    BY <1>1, <2>1, <2>2 DEF Uttered
<1>3. Said' = Said
  BY <1>2 DEF Said
<1>4. Standing' = Standing
  BY <1>3 DEF Standing
<1>5. \A nr : LayerAt(nr)' = LayerAt(nr)
  BY <1>1 DEF LayerAt
<1>6. \A nr : Below(nr)' = Below(nr)
  BY <1>3 DEF Below
<1>7. \A layer, nr : Before(layer, nr)' = Before(layer, nr)
  BY <1>2 DEF Before
<1>8. \A file : Sound(file)' <=> Sound(file)
  BY DEF Sound, IsYAML
<1>9. Faultless' <=> Faultless
  BY <1>1, <1>4, <1>8 DEF Faultless, HasParser, IsYAML
<1>. QED
  BY <1>1, <1>2, <1>3, <1>4, <1>5, <1>6, <1>7, <1>8, <1>9

\* What the layer of a source says, when it is a file that is there and when it
\* is one that is not.
LEMMA SourceSays ==
    ASSUME ConfigInv, source \in DOMAIN Sources
    PROVE  /\ LayerAt(source) = Height(Sources[source].place)
           /\ ~Missing => /\ Sources[source].place \in Used
                          /\ {u \in Uttered : u.layer = LayerAt(source)}
                                = FileSays(Sources[source].place)
           /\ Missing => {u \in Uttered : u.layer = LayerAt(source)} = {}
<1>. world \in World /\ profile \in DOMAIN Texts \cup {NoProfile}
  BY DEF ConfigInv, Stand
<1>1. LayerAt(source) = Height(Sources[source].place) /\ source \in 1..Len(Sources)
  <2>1. Len(Sources) \in 1..4 /\ DOMAIN Sources = 1..Len(Sources)
    BY SourcesAre
  <2>. QED
    BY <2>1 DEF LayerAt
<1>2. ASSUME ~Missing PROVE Sources[source].place \in Used
  BY <1>2, SourcesAre DEF Missing
<1>3. ASSUME Missing, NEW u \in Uttered, u.layer = LayerAt(source) PROVE FALSE
  <2>1. /\ DOMAIN Sources = 1..Len(Sources) /\ Len(Sources) \in 1..4
        /\ \A i, j \in DOMAIN Sources :
              i < j => Height(Sources[i].place) < Height(Sources[j].place)
        /\ \A i \in DOMAIN Sources : Sources[i].place \in Place
    BY SourcesAre
  <2>2. \A i \in DOMAIN Sources : Height(Sources[i].place) \in 1..4
    BY <2>1, Heights
  <2>3. PICK p \in Used : u.layer = Height(p)
    BY <1>1, <1>3, <2>2, LayersSay DEF Highest
  <2>4. PICK j \in DOMAIN Sources : Sources[j].place = p
    BY SourcesAre
  <2>5. j = source
    <3>1. Height(Sources[j].place) = Height(Sources[source].place)
      BY <1>1, <1>3, <2>3, <2>4
    <3>2. ~(j < source) /\ ~(source < j)
      BY <2>1, <2>2, <3>1
    <3>. QED
      BY <2>1, <3>2
  <2>. QED
    BY <1>3, <2>4, <2>5, UsedArePlaces DEF Missing
<1>. QED
  BY <1>1, <1>2, <1>3, LayersSay

\* A file that is there holds lines.
LEMMA FileOpened ==
    ASSUME ConfigInv, source \in DOMAIN Sources, ~Missing
    PROVE  /\ DOMAIN Opened.lines = 1..Len(Opened.lines) /\ Len(Opened.lines) \in Nat
           /\ \A i \in DOMAIN Opened.lines : Opened.lines[i] \in LineType
           /\ Opened = world.files[Sources[source].place]
<1>1. world \in World
  BY DEF ConfigInv, Stand
<1>2. Sources[source].place \in DOMAIN world.files
  BY DEF Missing
<1>. QED
  BY <1>1, <1>2, Worlds DEF Opened

\* A start that ends in an error ends so for a mistake.
LEMMA FailureKept ==
    ASSUME ConfigInv, result = "pending", LoadFails, ~Faultless
    PROVE  ConfigInv'
<1>. /\ UNCHANGED <<world, profile>> /\ UNCHANGED <<source, line, doc, merged, out>>
     /\ result' = "error"
  BY DEF LoadFails
<1>1. Stand' /\ Behind' /\ Within'
  BY SameStart DEF ConfigInv, Stand, Behind, Within, HasParser, IsYAML, Missing, Opened
<1>2. Holds(merged, Below(LayerAt(source)))'
  BY SameStart DEF ConfigInv
<1>3. Holds(doc, Before(LayerAt(source), line))'
  BY SameStart DEF ConfigInv
<1>4. HighestLayerWins' /\ RefusedForAMistake'
  BY SameStart DEF HighestLayerWins, RefusedForAMistake
<1>. QED
  BY <1>1, <1>2, <1>3, <1>4 DEF ConfigInv

\* A document of all that a layer says is laid over what is below.
LEMMA LayerKept ==
    ASSUME ConfigInv, result = "pending", source \in 1..Len(Sources) + 1,
           source \in DOMAIN Sources => ~Missing /\ Sound(Opened),
           NEW d, Holds(d, {u \in Said : u.layer = LayerAt(source)}), Lay(d)
    PROVE  ConfigInv'
<1>. DEFINE says == {u \in Said : u.layer = LayerAt(source)}
<1>. /\ UNCHANGED <<world, profile>> /\ UNCHANGED <<out, result>>
     /\ merged' = Merge(merged, d) /\ source' = source + 1 /\ doc' = Empty /\ line' = 1
  BY DEF Lay
<1>. world \in World /\ profile \in DOMAIN Texts \cup {NoProfile}
  BY DEF ConfigInv, Stand
<1>1. Len(Sources) \in 1..4 /\ DOMAIN Sources = 1..Len(Sources)
  BY SourcesAre
<1>2. Stand'
  BY <1>1, SameStart DEF ConfigInv, Stand, HasParser, IsYAML
<1>3. Behind'
  <2>1. \A i \in DOMAIN Sources : i < source + 1 => i < source \/ i = source
    BY <1>1
  <2>. QED
    BY <2>1, SameStart DEF ConfigInv, Behind, Missing, Opened
<1>4. Within'
  <2>1. Len(world.environ) \in Nat
    BY Worlds
  <2>. QED
    BY <2>1, SameStart DEF Within
<1>5. Holds(merged, Below(LayerAt(source)))'
  <2>1. Proper(Below(LayerAt(source))) /\ Proper(says)
    BY SayingsProper DEF Below, Said
  <2>2. Holds(merged', Beside(Below(LayerAt(source)), says) \cup says)
    BY <2>1, MergeHolds DEF ConfigInv
  <2>3. Holds(merged', Below(LayerAt(source + 1)))
    BY <2>2, BelowTheNext
  <2>. QED
    BY <2>3, SameStart
<1>6. Holds(doc, Before(LayerAt(source), line))'
  <2>1. Before(LayerAt(source + 1), 1) = {}
    BY NoLine
  <2>. QED
    BY <2>1, EmptyHolds, SameStart
<1>7. HighestLayerWins' /\ RefusedForAMistake'
  BY DEF HighestLayerWins, RefusedForAMistake
<1>. QED
  BY <1>2, <1>3, <1>4, <1>5, <1>6, <1>7 DEF ConfigInv

\* A line of a layer is set in its document.
LEMMA LineKept ==
    ASSUME ConfigInv, result = "pending", Within',
           NEW l \in LineType, SetLine(l),
           NEW w \in Uttered, w.layer = LayerAt(source), w.line = line,
           w.path = CanonPath(l.path), w.value = ParseValue(l.text),
           \A u \in Uttered : u.layer = LayerAt(source) /\ u.line = line => u = w,
           source # 0
    PROVE  ConfigInv'
<1>. /\ UNCHANGED <<world, profile>> /\ UNCHANGED <<source, merged, out, result>>
     /\ doc' = Set(doc, w.path, w.value) /\ line' = line + 1
  BY DEF SetLine
<1>. world \in World /\ line \in Nat
  BY DEF ConfigInv, Stand
<1>1. Stand' /\ Behind'
  BY SameStart DEF ConfigInv, Stand, Behind, HasParser, IsYAML
<1>2. Holds(merged, Below(LayerAt(source)))'
  BY SameStart DEF ConfigInv
<1>3. Holds(doc, Before(LayerAt(source), line))'
  <2>1. Proper(Before(LayerAt(source), line)) /\ w.path \in Path /\ w.value # Section
    BY SayingsProper, SayingsTyped DEF Before
  <2>2. Holds(doc', Beside(Before(LayerAt(source), line), {w}) \cup {w})
    BY <2>1, SetHolds DEF ConfigInv
  <2>3. Holds(doc', Before(LayerAt(source), line + 1))
    BY <2>2, OneMoreLine
  <2>. QED
    BY <2>3, SameStart
<1>4. HighestLayerWins' /\ RefusedForAMistake'
  BY DEF HighestLayerWins, RefusedForAMistake
<1>. QED
  BY <1>1, <1>2, <1>3, <1>4 DEF ConfigInv

\* Nothing is said below the first source's layer; so it is when a step has
\* found the profile.
LEMMA GroundAlways ==
    world \in World /\ profile \in DOMAIN Texts \cup {NoProfile}
       => Below(LayerAt(1)) = {} /\ Before(LayerAt(1), 1) = {} /\ Len(Sources) \in 1..4
BY Ground, NoLine, SourcesAre

\* profileOf finds a text or nothing.
LEMMA ProfileFound ==
    ASSUME world \in World, NEW p \in ProfileOf(world)
    PROVE  p \in DOMAIN Texts \cup {NoProfile}
<1>1. \A i \in DOMAIN world.environ : world.environ[i].var \in LineType
  BY Worlds
<1>2. \A i \in DOMAIN world.environ : world.environ[i].var.text \in DOMAIN Texts
  BY <1>1 DEF LineType
<1>. QED
  BY <1>2 DEF ProfileOf

\* A start without a prefix or a parser is a mistake.
LEMMA RejectsKept ==
    ASSUME ConfigInv, Rejects
    PROVE  ConfigInv'
<1>1. ~Faultless
  BY DEF Rejects, Faultless
<1>. QED
  BY <1>1, FailureKept DEF Rejects

\* The checks passed, nothing is read yet, whatever the profile.
LEMMA BeginKept ==
    ASSUME ConfigInv, Begin
    PROVE  ConfigInv'
<1>. /\ UNCHANGED <<world, line, doc, merged, out, result>>
     /\ source' = 1 /\ source = 0 /\ result = "pending" /\ world.prefix /\ HasParser(world)
  BY DEF Begin
<1>1. /\ world \in World /\ profile' \in DOMAIN Texts \cup {NoProfile}
      /\ line = 1 /\ doc = Empty /\ merged = Empty
  BY ProfileFound DEF ConfigInv, Stand, Begin
<1>2. (/\ Below(LayerAt(1)) = {} /\ Before(LayerAt(1), 1) = {} /\ Len(Sources) \in 1..4)'
  <2>1. (world \in World /\ profile \in DOMAIN Texts \cup {NoProfile}
           => Below(LayerAt(1)) = {} /\ Before(LayerAt(1), 1) = {} /\ Len(Sources) \in 1..4)'
    BY GroundAlways, PTL
  <2>. QED
    BY <1>1, <2>1
<1>3. Stand' /\ Behind' /\ Within'
  BY <1>1, <1>2 DEF ConfigInv, Stand, Behind, Within, HasParser, IsYAML
<1>4. Holds(merged, Below(LayerAt(source)))'
  BY <1>1, <1>2, EmptyHolds
<1>5. Holds(doc, Before(LayerAt(source), line))'
  BY <1>1, <1>2, EmptyHolds
<1>. QED
  BY <1>3, <1>4, <1>5 DEF ConfigInv, HighestLayerWins, RefusedForAMistake

\* A file that is not there and need not be says nothing.
LEMMA SkipFileKept ==
    ASSUME ConfigInv, SkipFile
    PROVE  ConfigInv'
<1>. /\ UNCHANGED <<world, profile>> /\ UNCHANGED <<line, doc, merged, out, result>>
     /\ source' = source + 1 /\ source \in DOMAIN Sources /\ result = "pending"
     /\ Missing /\ ~Sources[source].required
  BY DEF SkipFile, Reading
<1>. world \in World /\ profile \in DOMAIN Texts \cup {NoProfile} /\ line \in Nat \ {0}
  BY DEF ConfigInv, Stand
<1>1. /\ Len(Sources) \in 1..4 /\ DOMAIN Sources = 1..Len(Sources)
      /\ source \in 1..Len(Sources) + 1 /\ line = 1
  BY SourcesAre DEF ConfigInv, Within
<1>2. {u \in Said : u.layer = LayerAt(source)} = {}
  BY SourceSays DEF Said
<1>3. Stand'
  BY <1>1, SameStart DEF ConfigInv, Stand, HasParser, IsYAML
<1>4. Behind'
  <2>1. \A i \in DOMAIN Sources : i < source + 1 => i < source \/ i = source
    BY <1>1
  <2>. QED
    BY <2>1, SameStart DEF ConfigInv, Behind, Missing
<1>5. Within'
  <2>1. Len(world.environ) \in Nat
    BY Worlds
  <2>. QED
    BY <1>1, <2>1, SameStart DEF Within
<1>6. Holds(merged, Below(LayerAt(source)))'
  <2>1. Beside(Below(LayerAt(source)), {}) \cup {} = Below(LayerAt(source))
    BY DEF Beside
  <2>2. Below(LayerAt(source + 1)) = Below(LayerAt(source))
    BY <1>1, <1>2, <2>1, BelowTheNext
  <2>. QED
    BY <2>2, SameStart DEF ConfigInv
<1>7. Holds(doc, Before(LayerAt(source), line))'
  <2>1. Before(LayerAt(source + 1), 1) = {} /\ Before(LayerAt(source), 1) = {}
    BY NoLine
  <2>. QED
    BY <1>1, <2>1, SameStart DEF ConfigInv
<1>8. HighestLayerWins' /\ RefusedForAMistake'
  BY DEF HighestLayerWins, RefusedForAMistake
<1>. QED
  BY <1>3, <1>4, <1>5, <1>6, <1>7, <1>8 DEF ConfigInv

\* A file that is there and is not sound is a mistake, and so is one that has
\* to be there and is not.
LEMMA MistakenFile ==
    ASSUME ConfigInv, source \in DOMAIN Sources,
           (Missing /\ Sources[source].required) \/ (~Missing /\ ~Sound(Opened))
    PROVE  ~Faultless
<1>1. world \in World /\ profile \in DOMAIN Texts \cup {NoProfile}
  BY DEF ConfigInv, Stand
<1>2. CASE Missing /\ Sources[source].required
  BY <1>1, <1>2, SourcesAre DEF Missing, Faultless
<1>3. CASE ~Missing /\ ~Sound(Opened)
  <2>1. Sources[source].place \in Used /\ Opened = world.files[Sources[source].place]
    BY <1>3, SourceSays, FileOpened
  <2>. QED
    BY <1>3, <2>1 DEF Faultless
<1>. QED
  BY <1>2, <1>3

\* A file that has to be there and is not, or cannot be read.
LEMMA FileFailsKept ==
    ASSUME ConfigInv, FileFails
    PROVE  ConfigInv'
<1>1. source \in DOMAIN Sources /\ result = "pending" /\ LoadFails
  BY DEF FileFails, Reading
<1>2. (Missing /\ Sources[source].required) \/ (~Missing /\ ~Sound(Opened))
  <2>1. CASE Missing
    <3>1. Sources[source].required
      BY <2>1, Zenon DEF FileFails
    <3>. QED
      BY <2>1, <3>1
  <2>2. CASE ~Missing
    BY <2>2 DEF FileFails, Sound
  <2>. QED
    BY <2>1, <2>2
<1>3. ~Faultless
  BY <1>1, <1>2, MistakenFile
<1>. QED
  BY <1>1, <1>3, FailureKept

\* A YAML file that is read.
LEMMA ReadYAMLKept ==
    ASSUME ConfigInv, ReadYAML
    PROVE  ConfigInv'
<1>1. /\ source \in DOMAIN Sources /\ result = "pending" /\ ~Missing
      /\ Opened.is = "text" /\ IsYAML(world) /\ ~Clash(Opened.lines)
      /\ Lay(YAML(Opened.lines))
  BY DEF ReadYAML, Readable, Reading
<1>2. /\ world \in World /\ profile \in DOMAIN Texts \cup {NoProfile}
      /\ Len(Sources) \in 1..4 /\ DOMAIN Sources = 1..Len(Sources)
  BY SourcesAre DEF ConfigInv, Stand
<1>3. source \in 1..Len(Sources) + 1 /\ Sound(Opened)
  BY <1>1, <1>2 DEF Sound
<1>4. /\ Sources[source].place \in Used /\ LayerAt(source) = Height(Sources[source].place)
      /\ Opened = world.files[Sources[source].place]
  BY <1>1, SourceSays, FileOpened
<1>5. Holds(YAML(Opened.lines), {u \in Said : u.layer = LayerAt(source)})
  BY <1>1, <1>2, <1>4, YAMLHolds
<1>. QED
  BY <1>1, <1>3, <1>5, LayerKept

\* A YAML file with a clash.
LEMMA YAMLFailsKept ==
    ASSUME ConfigInv, YAMLFails
    PROVE  ConfigInv'
<1>1. /\ source \in DOMAIN Sources /\ result = "pending" /\ LoadFails
      /\ ~Missing /\ ~Sound(Opened)
  BY DEF YAMLFails, Readable, Reading, Sound
<1>2. ~Faultless
  BY <1>1, MistakenFile
<1>. QED
  BY <1>1, <1>2, FailureKept

\* A line of a .properties file.
LEMMA ReadPropertyKept ==
    ASSUME ConfigInv, ReadProperty
    PROVE  ConfigInv'
<1>. DEFINE l == Opened.lines[line]
            p == Sources[source].place
            w == Saying(Height(p), line, l, Typed(l))
<1>1. /\ source \in DOMAIN Sources /\ result = "pending" /\ ~Missing
      /\ Opened.is = "text" /\ ~IsYAML(world) /\ line \in DOMAIN Opened.lines
      /\ l.ok /\ SetLine(l)
  BY DEF ReadProperty, InProperties, Readable, Reading
<1>2. /\ world \in World /\ profile \in DOMAIN Texts \cup {NoProfile} /\ line \in Nat \ {0}
      /\ Len(Sources) \in 1..4 /\ DOMAIN Sources = 1..Len(Sources)
  BY SourcesAre DEF ConfigInv, Stand
<1>3. /\ p \in Used /\ LayerAt(source) = Height(p) /\ Opened = world.files[p]
      /\ {u \in Uttered : u.layer = LayerAt(source)} = FileSays(p)
      /\ DOMAIN Opened.lines = 1..Len(Opened.lines) /\ Len(Opened.lines) \in Nat
      /\ l \in LineType
  BY <1>1, SourceSays, FileOpened
<1>4. UNCHANGED <<world, profile>> /\ UNCHANGED source /\ line' = line + 1
  BY <1>1 DEF SetLine
<1>5. Within'
  <2>1. \A i \in 1..line : Opened.lines[i].ok
    <3>1. line > 1 => \A i \in 1..line - 1 : Opened.lines[i].ok
      BY <1>1 DEF ConfigInv, Within
    <3>2. ASSUME NEW i \in 1..line, i # line PROVE line > 1 /\ i \in 1..line - 1
      BY <1>2, <3>2
    <3>. HIDE DEF l, p, w
    <3>3. Opened.lines[line].ok
      BY <1>1 DEF l
    <3>. QED
      BY <3>1, <3>2, <3>3
  <2>2. source \in 1..Len(Sources)
    BY <1>1, <1>2
  <2>3. (line + 1) - 1 = line /\ line + 1 <= Len(Opened.lines) + 1
    BY <1>1, <1>2, <1>3
  <2>4. Missing' = Missing /\ Opened' = Opened /\ IsYAML(world)' = IsYAML(world)
    BY <1>4, SameStart DEF Missing, Opened, IsYAML
  <2>. HIDE DEF l, p, w
  <2>. QED
    BY <1>1, <1>2, <1>4, <2>1, <2>2, <2>3, <2>4, SameStart DEF Within
<1>6. w \in Uttered /\ w.layer = LayerAt(source)
  BY <1>1, <1>3 DEF FileSays, Saying
<1>7. /\ w.line = line /\ w.path = CanonPath(l.path) /\ w.value = ParseValue(l.text)
  BY <1>1 DEF Saying, Typed
<1>8. ASSUME NEW u \in Uttered, u.layer = LayerAt(source), u.line = line PROVE u = w
  <2>1. u \in FileSays(p)
    BY <1>3, <1>8
  <2>. QED
    BY <1>3, <1>8, <2>1 DEF FileSays, Saying
<1>9. source # 0
  BY <1>1, <1>2
<1>. HIDE DEF l, p, w
<1>. QED
  BY <1>1, <1>3, <1>5, <1>6, <1>7, <1>8, <1>9, LineKept

\* A line outside the subset.
LEMMA PropertyFailsKept ==
    ASSUME ConfigInv, PropertyFails
    PROVE  ConfigInv'
<1>1. /\ source \in DOMAIN Sources /\ result = "pending" /\ LoadFails
      /\ ~Missing /\ ~Sound(Opened)
  BY DEF PropertyFails, InProperties, Readable, Reading, Sound
<1>2. ~Faultless
  BY <1>1, MistakenFile
<1>. QED
  BY <1>1, <1>2, FailureKept

\* A .properties file is at its end.
LEMMA PropertiesReadKept ==
    ASSUME ConfigInv, PropertiesRead
    PROVE  ConfigInv'
<1>1. /\ source \in DOMAIN Sources /\ result = "pending" /\ ~Missing
      /\ Opened.is = "text" /\ ~IsYAML(world) /\ line = Len(Opened.lines) + 1
      /\ Lay(doc)
  BY DEF PropertiesRead, Readable, Reading
<1>2. /\ world \in World /\ profile \in DOMAIN Texts \cup {NoProfile} /\ line \in Nat \ {0}
      /\ Len(Sources) \in 1..4 /\ DOMAIN Sources = 1..Len(Sources)
  BY SourcesAre DEF ConfigInv, Stand
<1>3. /\ DOMAIN Opened.lines = 1..Len(Opened.lines) /\ Len(Opened.lines) \in Nat
      /\ Opened = world.files[Sources[source].place]
      /\ {u \in Uttered : u.layer = LayerAt(source)} = FileSays(Sources[source].place)
  BY <1>1, SourceSays, FileOpened
<1>4. Sound(Opened)
  <2>1. \A i \in 1..line - 1 : Opened.lines[i].ok
    <3>1. CASE line > 1
      BY <1>1, <3>1 DEF ConfigInv, Within
    <3>2. CASE ~(line > 1)
      BY <1>2, <3>2
    <3>. QED
      BY <3>1, <3>2
  <2>2. line - 1 = Len(Opened.lines)
    BY <1>1, <1>3
  <2>. QED
    BY <1>1, <1>3, <2>1, <2>2 DEF Sound
<1>5. ASSUME NEW u \in Uttered, u.layer = LayerAt(source) PROVE u.line < line
  <2>1. u.line \in 1..Len(Opened.lines)
    BY <1>3, <1>5 DEF FileSays, Saying
  <2>. QED
    BY <1>1, <1>3, <2>1
<1>6. Holds(doc, {u \in Said : u.layer = LayerAt(source)})
  <2>1. Before(LayerAt(source), line) = {u \in Said : u.layer = LayerAt(source)}
    BY <1>2, <1>5, AllLines
  <2>. QED
    BY <2>1 DEF ConfigInv
<1>7. source \in 1..Len(Sources) + 1
  BY <1>1, <1>2
<1>. QED
  BY <1>1, <1>4, <1>6, <1>7, LayerKept

\* What the environment's layer says, and of which variables.
LEMMA EnvironmentIs ==
    ASSUME ConfigInv, InEnvironment
    PROVE  /\ world \in World /\ profile \in DOMAIN Texts \cup {NoProfile} /\ line \in Nat \ {0}
           /\ Len(Sources) \in 1..4 /\ DOMAIN Sources = 1..Len(Sources)
           /\ source = Len(Sources) + 1 /\ source \notin DOMAIN Sources
           /\ result = "pending" /\ LayerAt(source) = Highest
           /\ {u \in Uttered : u.layer = LayerAt(source)} = EnvironmentSays
           /\ \A u \in EnvironmentSays : u.line \in 1..Len(world.environ)
<1>1. /\ world \in World /\ profile \in DOMAIN Texts \cup {NoProfile} /\ line \in Nat \ {0}
      /\ Len(Sources) \in 1..4 /\ DOMAIN Sources = 1..Len(Sources)
      /\ source = Len(Sources) + 1 /\ result = "pending"
  BY SourcesAre DEF ConfigInv, Stand, InEnvironment
<1>2. source \notin DOMAIN Sources /\ LayerAt(source) = Highest
  BY <1>1 DEF LayerAt
<1>3. \A u \in EnvironmentSays : u.line \in 1..Len(world.environ)
  BY <1>1, Worlds DEF EnvironmentSays, Saying
<1>. QED
  BY <1>1, <1>2, <1>3, LayersSay

\* A variable more keeps within the environment.
LEMMA WithinEnvironment ==
    ASSUME ConfigInv, InEnvironment, NEW i \in DOMAIN world.environ,
           world.environ[i].rank = line,
           UNCHANGED <<world, profile>>, UNCHANGED source, line' = line + 1
    PROVE  Within'
<1>1. line \in 1..Len(world.environ) /\ Len(world.environ) \in Nat
  BY EnvironmentIs, Worlds
<1>. QED
  BY <1>1, EnvironmentIs, SameStart DEF Within

\* A variable that is the service's own.
LEMMA ReadVariableKept ==
    ASSUME ConfigInv, ReadVariable
    PROVE  ConfigInv'
<1>1. InEnvironment
  BY DEF ReadVariable
<1>2. PICK i \in DOMAIN world.environ :
         /\ world.environ[i].rank = line /\ world.environ[i].ours /\ ~IsProfile(world.environ[i])
         /\ SetLine(world.environ[i].var)
  BY DEF ReadVariable
<1>. DEFINE l == world.environ[i].var
            w == Saying(Highest, world.environ[i].rank, l, ParseValue(l.text))
<1>3. /\ source # 0 /\ result = "pending" /\ l \in LineType /\ world \in World
      /\ LayerAt(source) = Highest /\ {u \in Uttered : u.layer = LayerAt(source)} = EnvironmentSays
  BY <1>1, EnvironmentIs, Worlds
<1>4. Within'
  BY <1>1, <1>2, WithinEnvironment DEF SetLine
<1>5. w \in EnvironmentSays
  BY <1>2 DEF EnvironmentSays
<1>6. /\ w \in Uttered /\ w.layer = LayerAt(source) /\ w.line = line
      /\ w.path = CanonPath(l.path) /\ w.value = ParseValue(l.text)
  BY <1>2, <1>3, <1>5 DEF Saying, Uttered
<1>7. ASSUME NEW u \in Uttered, u.layer = LayerAt(source), u.line = line PROVE u = w
  <2>1. u \in EnvironmentSays
    BY <1>3, <1>7
  <2>2. PICK j \in DOMAIN world.environ :
           u = Saying(Highest, world.environ[j].rank, world.environ[j].var,
                      ParseValue(world.environ[j].var.text))
    BY <2>1 DEF EnvironmentSays
  <2>3. world.environ[j].rank = world.environ[i].rank
    BY <1>2, <1>7, <2>2 DEF Saying
  <2>4. j = i
    BY <1>3, <2>3, Worlds
  <2>. QED
    BY <2>2, <2>4
<1>. HIDE DEF l, w
<1>. QED
  BY <1>2, <1>3, <1>4, <1>6, <1>7, LineKept DEF l

\* A variable of someone else, or the one that gives the profile.
LEMMA SkipVariableKept ==
    ASSUME ConfigInv, SkipVariable
    PROVE  ConfigInv'
<1>1. /\ InEnvironment /\ line' = line + 1
      /\ UNCHANGED <<world, profile>> /\ UNCHANGED <<source, doc, merged, out, result>>
  BY DEF SkipVariable
<1>2. PICK i \in DOMAIN world.environ :
         /\ world.environ[i].rank = line
         /\ ~world.environ[i].ours \/ IsProfile(world.environ[i])
  BY DEF SkipVariable
<1>3. /\ source # 0 /\ result = "pending" /\ world \in World /\ line \in Nat \ {0}
      /\ LayerAt(source) = Highest /\ {u \in Uttered : u.layer = LayerAt(source)} = EnvironmentSays
  BY <1>1, EnvironmentIs
<1>4. Within'
  BY <1>1, <1>2, WithinEnvironment
<1>5. ASSUME NEW u \in Uttered, u.layer = LayerAt(source) PROVE u.line # line
  <2>1. u \in EnvironmentSays
    BY <1>3, <1>5
  <2>2. PICK j \in DOMAIN world.environ :
           /\ world.environ[j].ours /\ ~IsProfile(world.environ[j])
           /\ u = Saying(Highest, world.environ[j].rank, world.environ[j].var,
                         ParseValue(world.environ[j].var.text))
    BY <2>1 DEF EnvironmentSays
  <2>3. u.line = world.environ[j].rank
    BY <2>2 DEF Saying
  <2>4. j # i
    BY <1>2, <2>2
  <2>. QED
    BY <1>2, <1>3, <2>3, <2>4, Worlds
<1>6. Stand' /\ Behind'
  BY <1>1, <1>3, SameStart DEF ConfigInv, Stand, Behind, HasParser, IsYAML
<1>7. Holds(merged, Below(LayerAt(source)))'
  BY <1>1, SameStart DEF ConfigInv
<1>8. Holds(doc, Before(LayerAt(source), line))'
  <2>1. Before(LayerAt(source), line + 1) = Before(LayerAt(source), line)
    BY <1>3, <1>5, OneIdleLine
  <2>. QED
    BY <1>1, <2>1, SameStart DEF ConfigInv
<1>9. HighestLayerWins' /\ RefusedForAMistake'
  BY <1>1, <1>3 DEF HighestLayerWins, RefusedForAMistake
<1>. QED
  BY <1>4, <1>6, <1>7, <1>8, <1>9 DEF ConfigInv

\* The environment is at its end.
LEMMA EnvironmentReadKept ==
    ASSUME ConfigInv, EnvironmentRead
    PROVE  ConfigInv'
<1>1. InEnvironment /\ line = Len(world.environ) + 1 /\ Lay(doc)
  BY DEF EnvironmentRead
<1>2. /\ source \in 1..Len(Sources) + 1 /\ source \notin DOMAIN Sources /\ result = "pending"
      /\ world \in World /\ line \in Nat /\ Len(world.environ) \in Nat
  BY <1>1, EnvironmentIs, Worlds
<1>3. ASSUME NEW u \in Uttered, u.layer = LayerAt(source) PROVE u.line < line
  <2>1. u.line \in 1..Len(world.environ)
    BY <1>1, <1>3, EnvironmentIs
  <2>. QED
    BY <1>1, <1>2, <2>1
<1>4. Holds(doc, {u \in Said : u.layer = LayerAt(source)})
  <2>1. Before(LayerAt(source), line) = {u \in Said : u.layer = LayerAt(source)}
    BY <1>2, <1>3, AllLines
  <2>. QED
    BY <2>1 DEF ConfigInv
<1>. QED
  BY <1>1, <1>2, <1>4, LayerKept

\* At the decode the merged document is of all that stands, and nothing but
\* what stands can be a mistake.
LEMMA AtTheDecode ==
    ASSUME ConfigInv, source = Len(Sources) + 2
    PROVE  /\ Proper(Standing) /\ \A u \in Standing : u.value.kind \in Kind
           /\ Holds(merged, Standing)
           /\ Faultless <=> \A u \in Standing : Understood(u)
<1>1. /\ world \in World /\ profile \in DOMAIN Texts \cup {NoProfile}
      /\ Len(Sources) \in 1..4 /\ DOMAIN Sources = 1..Len(Sources)
      /\ world.prefix /\ HasParser(world)
  BY SourcesAre DEF ConfigInv, Stand
<1>2. Standing \subseteq Uttered
  BY DEF Standing, Said
<1>3. Proper(Standing) /\ \A u \in Standing : u.value.kind \in Kind
  BY <1>1, <1>2, SayingsProper, SayingsTyped
<1>4. Holds(merged, Standing)
  <2>1. LayerAt(source) = Highest + 1
    BY <1>1 DEF LayerAt
  <2>. QED
    BY <1>1, <2>1, BelowTheLast DEF ConfigInv
<1>5. \A i \in DOMAIN Sources :
         IF Sources[i].place \in DOMAIN world.files THEN Sound(world.files[Sources[i].place])
         ELSE ~Sources[i].required
  BY <1>1 DEF ConfigInv, Behind
<1>6. BaseFile \in DOMAIN world.files
  BY <1>1, <1>5, SourcesAre
<1>7. \A p \in Used : Sound(world.files[p])
  <2>1. \A p \in Used : p \in DOMAIN world.files
    BY <1>1, UsedArePlaces
  <2>. QED
    BY <1>1, <1>5, <2>1, SourcesAre
<1>. QED
  BY <1>1, <1>3, <1>4, <1>6, <1>7 DEF Faultless

\* The decode binds the merged document.
LEMMA DecodeKept ==
    ASSUME ConfigInv, Decode
    PROVE  ConfigInv'
<1>1. /\ UNCHANGED <<world, profile>> /\ UNCHANGED <<source, line, doc, merged>>
      /\ source = Len(Sources) + 2 /\ result = "pending" /\ Decodes(merged)
      /\ out' = Decoded(merged) /\ result' = "nil"
  BY DEF Decode
<1>2. Stand' /\ Behind' /\ Within'
  <2>1. DOMAIN Decoded(merged) = DOMAIN Field
    BY DEF Decoded
  <2>. QED
    BY <1>1, <2>1, SameStart DEF ConfigInv, Stand, Behind, Within, HasParser, IsYAML, Missing, Opened
<1>3. Holds(merged, Below(LayerAt(source)))'
  BY <1>1, SameStart DEF ConfigInv
<1>4. Holds(doc, Before(LayerAt(source), line))'
  BY <1>1, SameStart DEF ConfigInv
<1>5. HighestLayerWins'
  <2>1. ASSUME NEW f \in DOMAIN Field
        PROVE  LET about == {u \in Standing : IsPrefix(u.path, f)}
               IN /\ \A u \in about : out'[f] = Means(u, f)
                  /\ about = {} => out'[f] = PreFilled
    BY <1>1, AtTheDecode, DecodedMeans
  <2>. QED
    BY <1>1, <2>1, SameStart DEF HighestLayerWins
<1>6. RefusedForAMistake'
  <2>1. Faultless
    BY <1>1, AtTheDecode, DecodesTheUnderstood
  <2>. QED
    BY <1>1, <2>1, SameStart DEF RefusedForAMistake
<1>. QED
  BY <1>2, <1>3, <1>4, <1>5, <1>6 DEF ConfigInv

\* The decode refuses it.
LEMMA DecodeFailsKept ==
    ASSUME ConfigInv, DecodeFails
    PROVE  ConfigInv'
<1>1. source = Len(Sources) + 2 /\ result = "pending" /\ ~Decodes(merged) /\ LoadFails
  BY DEF DecodeFails
<1>2. ~Faultless
  BY <1>1, AtTheDecode, DecodesTheUnderstood
<1>. QED
  BY <1>1, <1>2, FailureKept

-----------------------------------------------------------------------------
(* The theorems.                                                            *)

\* The invariant holds of the first state.
LEMMA ConfigInvInit == ConfigInit => ConfigInv
<1>. SUFFICES ASSUME ConfigInit PROVE ConfigInv
  OBVIOUS
<1>. /\ world \in World /\ source = 0 /\ profile = NoProfile /\ line = 1
     /\ doc = Empty /\ merged = Empty /\ result = "pending"
     /\ out = [f \in DOMAIN Field |-> PreFilled]
  BY DEF ConfigInit
<1>1. Len(Sources) \in 1..4 /\ DOMAIN Sources = 1..Len(Sources)
  BY SourcesAre
<1>2. Stand /\ Behind /\ Within
  BY <1>1 DEF Stand, Behind, Within
<1>3. LayerAt(source) = 0
  BY DEF LayerAt
<1>4. Holds(merged, Below(LayerAt(source))) /\ Holds(doc, Before(LayerAt(source), line))
  BY <1>3, Ground, NoLine, EmptyHolds
<1>. QED
  BY <1>2, <1>4 DEF ConfigInv, HighestLayerWins, RefusedForAMistake

\* Every step keeps it.
LEMMA ConfigInvNext == ConfigInv /\ [ConfigNext]_configVars => ConfigInv'
<1>. SUFFICES ASSUME ConfigInv, [ConfigNext]_configVars PROVE ConfigInv'
  OBVIOUS
<1>1. CASE Rejects
  BY <1>1, RejectsKept
<1>2. CASE Begin
  BY <1>2, BeginKept
<1>3. CASE SkipFile
  BY <1>3, SkipFileKept
<1>4. CASE FileFails
  BY <1>4, FileFailsKept
<1>5. CASE ReadYAML
  BY <1>5, ReadYAMLKept
<1>6. CASE YAMLFails
  BY <1>6, YAMLFailsKept
<1>7. CASE ReadProperty
  BY <1>7, ReadPropertyKept
<1>8. CASE PropertyFails
  BY <1>8, PropertyFailsKept
<1>9. CASE PropertiesRead
  BY <1>9, PropertiesReadKept
<1>10. CASE ReadVariable
  BY <1>10, ReadVariableKept
<1>11. CASE SkipVariable
  BY <1>11, SkipVariableKept
<1>12. CASE EnvironmentRead
  BY <1>12, EnvironmentReadKept
<1>13. CASE Decode
  BY <1>13, DecodeKept
<1>14. CASE DecodeFails
  BY <1>14, DecodeFailsKept
<1>15. CASE UNCHANGED configVars
  <2>. UNCHANGED <<world, profile>> /\ UNCHANGED <<source, line, doc, merged, out, result>>
    BY <1>15 DEF configVars
  <2>1. Stand' /\ Behind' /\ Within'
    BY SameStart DEF ConfigInv, Stand, Behind, Within, HasParser, IsYAML, Missing, Opened
  <2>2. Holds(merged, Below(LayerAt(source)))' /\ Holds(doc, Before(LayerAt(source), line))'
    BY SameStart DEF ConfigInv
  <2>3. HighestLayerWins' /\ RefusedForAMistake'
    BY SameStart DEF ConfigInv, HighestLayerWins, RefusedForAMistake
  <2>. QED
    BY <2>1, <2>2, <2>3 DEF ConfigInv
<1>. QED
  BY <1>1, <1>2, <1>3, <1>4, <1>5, <1>6, <1>7, <1>8, <1>9, <1>10, <1>11, <1>12, <1>13, <1>14,
     <1>15 DEF ConfigNext, Returned

\* Load's state is what it has to be: in both documents whatever is on the way
\* to a path is a section.
THEOREM ConfigTyped == ConfigSpec => []ConfigTypeOK
<1>1. ConfigInv => ConfigTypeOK
  <2>. SUFFICES ASSUME ConfigInv PROVE ConfigTypeOK
    OBVIOUS
  <2>1. /\ world \in World /\ profile \in DOMAIN Texts \cup {NoProfile} /\ line \in Nat \ {0}
        /\ DOMAIN out = DOMAIN Field /\ result \in {"pending", "nil", "error"}
        /\ source \in 0..Len(Sources) + 2
    BY DEF ConfigInv, Stand
  <2>2. source \in 0..6
    <3>1. PICK k \in 1..4 : Len(Sources) = k
      BY <2>1, SourcesAre
    <3>. QED
      BY <2>1, <3>1
  <2>3. Proper(Below(LayerAt(source))) /\ Proper(Before(LayerAt(source), line))
    BY <2>1, SayingsProper DEF Below, Before, Said
  <2>4. ASSUME NEW d \in {doc, merged}, NEW p \in DOMAIN d, NEW i \in 1..Len(p) - 1
        PROVE  IsSection(d, SubSeq(p, 1, i))
    <3>1. PICK said : Proper(said) /\ Holds(d, said)
      BY <2>3 DEF ConfigInv
    <3>. QED
      BY <3>1, SectionsOnTheWay
  <2>. QED
    BY <2>1, <2>2, <2>4 DEF ConfigTypeOK
<1>. QED
  BY <1>1, ConfigInvInit, ConfigInvNext, PTL DEF ConfigSpec

\* Every field of a struct that Load hands back has the value of the highest
\* layer that names it, whatever the files and the environment hold.
THEOREM PrecedenceKept == ConfigSpec => []HighestLayerWins
<1>1. ConfigInv => HighestLayerWins
  BY DEF ConfigInv
<1>. QED
  BY <1>1, ConfigInvInit, ConfigInvNext, PTL DEF ConfigSpec

\* Load returns an error for a mistake in a layer and for nothing else.
THEOREM MistakesRefused == ConfigSpec => []RefusedForAMistake
<1>1. ConfigInv => RefusedForAMistake
  BY DEF ConfigInv
<1>. QED
  BY <1>1, ConfigInvInit, ConfigInvNext, PTL DEF ConfigSpec

-----------------------------------------------------------------------------
(* The three together.                                                      *)

\* Whichever story is told, the state of each of the three keeps its types: a
\* step of one of them leaves the others alone.
THEOREM StartupTyped == StartupSpec => []StartupTypeOK
<1>1. StartupInit => Init /\ ScaffoldInit /\ ConfigInit
  BY DEF StartupInit
<1>2. [StartupNext]_startupVars =>
         /\ [Next]_vars /\ [ScaffoldNext]_scaffoldVars /\ [ConfigNext]_configVars
  BY DEF StartupNext, startupVars, rolloutVars
<1>3. StartupSpec => Spec /\ ScaffoldSpec /\ ConfigSpec
  BY <1>1, <1>2, PTL DEF StartupSpec, Spec, ScaffoldSpec, ConfigSpec
<1>. QED
  BY <1>3, TypeCorrect, AlwaysTypeOK, ConfigTyped, PTL DEF StartupTypeOK
=============================================================================

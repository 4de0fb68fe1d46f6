------------------------------ MODULE Database -------------------------------
(***************************************************************************)
(* The database Starter (db/db.go) in every process of a rollout.  A pod's *)
(* Start pings, and then applies the pending migrations or refuses to      *)
(* start because some are pending; the `migrate` subcommand, run as a Job, *)
(* applies them too.  NewProvider gives both the same session lock.  Once  *)
(* a pod has started, its requests run transactions with WithTx.           *)
(*                                                                         *)
(* Starts run out of budget, processes die and come back, connections      *)
(* break, and the context of a request may end at any moment.              *)
(***************************************************************************)
EXTENDS Naturals

CONSTANTS
    Pod, Job,        \* the processes: pods of the service, and migration Jobs
    MigrateOnStart,  \* the pods that have it set
    Locking,         \* whether goose has a session locker for the driver
    Latest,          \* migrations 1..Latest, the same in every image
    Nobody

ASSUME DatabaseAssumption ==
    /\ Pod \cap Job = {}
    /\ MigrateOnStart \subseteq Pod
    /\ Locking \in BOOLEAN
    /\ Latest \in Nat
    /\ Nobody \notin Pod \cup Job

VARIABLES
    applied,   \* the schema: how often each migration has taken effect
    lock,      \* the session lock
    at,        \* where each process stands
    next,      \* the next migration of its list
    open,      \* whether its pool is open
    tx,        \* the transaction of a pod's request, in the database
    call,      \* where its WithTx stands
    verdict,   \* what its fn made of it
    told,      \* what its WithTx returned
    ctxDone    \* whether its request's context has ended

schemaVars == <<applied, lock>>
startVars == <<at, next, open>>
txVars == <<tx, call, verdict, told, ctxDone>>
vars == <<schemaVars, startVars, txVars>>

Process == Pod \cup Job
Migration == 1..Latest

Init ==
    /\ applied = [m \in Migration |-> 0]
    /\ lock = Nobody
    /\ at = [p \in Process |-> "down"]
    /\ next = [p \in Process |-> 1]
    /\ open = [p \in Process |-> FALSE]
    /\ tx = [p \in Pod |-> "none"]
    /\ call = [p \in Pod |-> "idle"]
    /\ verdict = [p \in Pod |-> "none"]
    /\ told = [p \in Pod |-> "none"]
    /\ ctxDone = [p \in Pod |-> FALSE]

-----------------------------------------------------------------------------
(* New and Start.                                                           *)

Move(p, from, to) == at[p] = from /\ at' = [at EXCEPT ![p] = to]

\* The session that holds the lock ends or gives it back.
Free(p) == IF lock = p THEN Nobody ELSE lock

\* The process begins: New opens the pool, which connects to nothing yet.  A pod
\* pings next, the Job goes straight to the migrations.
Boot(p) ==
    /\ Move(p, "down", IF p \in Pod THEN "pinging" ELSE "locking")
    /\ open' = [open EXCEPT ![p] = TRUE]
    /\ UNCHANGED <<next, schemaVars, txVars>>

\* The ping works; then provider.Up or HasPending.
Ping(p) ==
    /\ Move(p, "pinging", IF p \in MigrateOnStart THEN "locking" ELSE "asking")
    /\ UNCHANGED <<next, open, schemaVars, txVars>>

\* NewProvider wires the lock where there is one.  Mutant: it does not.
NoLocker == FALSE
Locker == Locking

\* goose waits for the lock, then lists what is pending.
Lists(p) ==
    /\ Move(p, "locking", "applying")
    /\ IF Locker THEN lock = Nobody /\ lock' = p ELSE UNCHANGED lock
    /\ \E n \in 1..Latest + 1 :
          /\ n \in Migration => applied[n] = 0
          /\ \A m \in 1..n - 1 : applied[m] > 0
          /\ next' = [next EXCEPT ![p] = n]
    /\ UNCHANGED <<applied, open, txVars>>

\* A migration takes effect together with its row in the version table.
Applies(p) ==
    /\ at[p] = "applying" /\ next[p] <= Latest
    /\ applied' = [applied EXCEPT ![next[p]] = IF @ = 0 THEN 1 ELSE 2]
    /\ next' = [next EXCEPT ![p] = @ + 1]
    /\ UNCHANGED <<at, open, lock, txVars>>

\* The list is through: a pod is up, a Job closes its pool and is done.
Applied(p) ==
    /\ next[p] > Latest
    /\ Move(p, "applying", IF p \in Job THEN "done" ELSE "up")
    /\ open' = [open EXCEPT ![p] = p \in Pod]
    /\ lock' = Free(p)
    /\ UNCHANGED <<next, applied, txVars>>

\* HasPending reads the version table without the lock.
HasPending == \E m \in Migration : applied[m] = 0

Asks(p) ==
    /\ Move(p, "asking", IF HasPending THEN "failed" ELSE "up")
    /\ UNCHANGED <<next, open, schemaVars, txVars>>

Starting == {"pinging", "locking", "applying", "asking"}

\* The ping, the lock, a migration or the query fails, or the start budget ends
\* in the middle of it: a migration in progress is rolled back, the lock given
\* back, and Start or the subcommand, which closes its pool, returns the error.
StartFails(p) ==
    /\ at[p] \in Starting
    /\ at' = [at EXCEPT ![p] = "failed"]
    /\ open' = [open EXCEPT ![p] = p \in Pod]
    /\ lock' = Free(p)
    /\ UNCHANGED <<next, applied, txVars>>

-----------------------------------------------------------------------------
(* WithTx.                                                                  *)

\* What WithTx gives back to the handler.
Tells(p, result) ==
    /\ call' = [call EXCEPT ![p] = "returned"]
    /\ told' = [told EXCEPT ![p] = result]

\* BeginTx works on an open pool and a live context, and may fail all the same.
Begins(p) ==
    /\ at[p] \in {"up", "stopped"} /\ call[p] = "idle"
    /\ \/ /\ open[p] /\ ~ctxDone[p]
          /\ tx' = [tx EXCEPT ![p] = "open"]
          /\ call' = [call EXCEPT ![p] = "fn"]
          /\ UNCHANGED told
       \/ Tells(p, "error") /\ UNCHANGED tx
    /\ UNCHANGED <<verdict, ctxDone, startVars, schemaVars>>

FnReturns(p, v) ==
    /\ call[p] = "fn"
    /\ verdict' = [verdict EXCEPT ![p] = v]
    /\ call' = [call EXCEPT ![p] = "ending"]
    /\ UNCHANGED <<tx, told, ctxDone, startVars, schemaVars>>

\* What WithTx does with an fn that failed or panicked.  Mutant: only an error
\* is looked at.
ErrorsOnly == {"error"}
Undone == {"error", "panic"}

\* Rollback, whose own error is dropped; then the error, or the panic, goes on.
RollsBack(p) ==
    /\ call[p] = "ending" /\ verdict[p] \in Undone
    /\ tx' = [tx EXCEPT ![p] = "rolledback"]
    /\ Tells(p, verdict[p])
    /\ UNCHANGED <<verdict, ctxDone, startVars, schemaVars>>

\* Commit refuses on a context that has ended, and fails on a transaction that
\* is no longer there; one that was sent may take effect and lose its answer.
Commits(p) ==
    /\ call[p] = "ending" /\ verdict[p] \notin Undone
    /\ \/ /\ tx[p] = "open" /\ ~ctxDone[p]
          /\ \/ tx' = [tx EXCEPT ![p] = "committed"] /\ Tells(p, "nil")
             \/ \E t \in {"committed", "rolledback"} : tx' = [tx EXCEPT ![p] = t] /\ Tells(p, "error")
       \/ (tx[p] # "open" \/ ctxDone[p]) /\ Tells(p, "error") /\ UNCHANGED tx
    /\ UNCHANGED <<verdict, ctxDone, startVars, schemaVars>>

\* The request is over and the next may come.
NextRequest(p) ==
    /\ call[p] = "returned" /\ tx[p] # "open"
    /\ tx' = [tx EXCEPT ![p] = "none"]
    /\ call' = [call EXCEPT ![p] = "idle"]
    /\ verdict' = [verdict EXCEPT ![p] = "none"]
    /\ told' = [told EXCEPT ![p] = "none"]
    /\ ctxDone' = [ctxDone EXCEPT ![p] = FALSE]
    /\ UNCHANGED <<startVars, schemaVars>>

-----------------------------------------------------------------------------
(* The world.                                                               *)

\* The client leaves, or the request's deadline passes.
ContextEnds(p) ==
    /\ at[p] \in {"up", "stopped"} /\ call[p] # "returned" /\ ~ctxDone[p]
    /\ ctxDone' = [ctxDone EXCEPT ![p] = TRUE]
    /\ UNCHANGED <<tx, call, verdict, told, startVars, schemaVars>>

\* database/sql's goroutine rolls back once the context has ended, and the
\* database when it loses the connection, both behind WithTx's back.
Vanishes(p) ==
    /\ tx[p] = "open"
    /\ tx' = [tx EXCEPT ![p] = "rolledback"]
    /\ UNCHANGED <<call, verdict, told, ctxDone, startVars, schemaVars>>

\* Stop closes the pool; a transaction that is running keeps its connection.
\* Mutant: the pool stays open.
LeftOpen(p) == open
Closed(p) == [open EXCEPT ![p] = FALSE]

Stop(p) ==
    /\ Move(p, "up", "stopped")
    /\ open' = Closed(p)
    /\ UNCHANGED <<next, schemaVars, txVars>>

\* The process ends, by itself or killed, and may come back.  The database ends
\* its sessions: the lock and an open transaction go with them.
Dies(p) ==
    /\ at[p] # "down"
    /\ at' = [at EXCEPT ![p] = "down"]
    /\ next' = [next EXCEPT ![p] = 1]
    /\ open' = [open EXCEPT ![p] = FALSE]
    /\ lock' = Free(p)
    /\ IF p \in Pod
       THEN /\ tx' = [tx EXCEPT ![p] = "none"]
            /\ call' = [call EXCEPT ![p] = "idle"]
            /\ verdict' = [verdict EXCEPT ![p] = "none"]
            /\ told' = [told EXCEPT ![p] = "none"]
            /\ ctxDone' = [ctxDone EXCEPT ![p] = FALSE]
       ELSE UNCHANGED txVars
    /\ UNCHANGED applied

-----------------------------------------------------------------------------
StartSteps(p) ==
    \/ Boot(p) \/ Ping(p) \/ Lists(p) \/ Applies(p) \/ Applied(p) \/ Asks(p) \/ StartFails(p)
    \/ Dies(p)

PodSteps(p) ==
    \/ Begins(p) \/ RollsBack(p) \/ Commits(p) \/ NextRequest(p)
    \/ \E v \in {"nil", "error", "panic"} : FnReturns(p, v)
    \/ ContextEnds(p) \/ Vanishes(p) \/ Stop(p)

Next ==
    \/ \E p \in Process : StartSteps(p)
    \/ \E p \in Pod : PodSteps(p)

Spec == Init /\ [][Next]_vars

-----------------------------------------------------------------------------
(* Properties                                                               *)

AllApplied == \A m \in Migration : applied[m] > 0

TypeOK ==
    /\ applied \in [Migration -> 0..2]
    /\ lock \in Process \cup {Nobody}
    /\ \A p \in Process : lock = p => at[p] = "applying"
    /\ at \in [Process -> Starting \cup {"down", "up", "stopped", "failed", "done"}]
    /\ next \in [Process -> 1..Latest + 1]
    /\ open \in [Process -> BOOLEAN]
    /\ \A p \in Process : at[p] \in {"down", "stopped", "done"} => ~open[p]
    /\ tx \in [Pod -> {"none", "open", "committed", "rolledback"}]
    /\ call \in [Pod -> {"idle", "fn", "ending", "returned"}]
    /\ verdict \in [Pod -> {"none", "nil", "error", "panic"}]
    /\ told \in [Pod -> {"none", "nil", "error", "panic"}]
    /\ ctxDone \in [Pod -> BOOLEAN]

\* Whoever migrates, in whatever order, and is killed or runs out of budget on the
\* way: the schema has a first part of the migrations; with a session lock, each
\* of them once (db.go:117-120); and no pod serves, or runs a transaction, before
\* all of them have taken effect (db.go:18-22, 194-230).
SchemaSound ==
    /\ \A m, n \in Migration : m < n /\ applied[n] > 0 => applied[m] > 0
    /\ Locking => \A m \in Migration : applied[m] <= 1
    /\ \A p \in Pod : at[p] \in {"up", "stopped"} \/ tx[p] = "open" => AllApplied

\* WithTx tells the truth about the database: nil only for what was committed,
\* and nothing is committed that fn failed or panicked in; nothing is left open
\* but what database/sql is about to roll back with the context that ended; and
\* a panic is passed on (db.go:160-186).
TxHonest ==
    \A p \in Pod :
        /\ told[p] = "nil" => tx[p] = "committed"
        /\ tx[p] = "committed" => verdict[p] = "nil"
        /\ call[p] = "returned" /\ tx[p] = "open" => ctxDone[p]
        /\ call[p] = "returned" => (told[p] = "panic" <=> verdict[p] = "panic")
=============================================================================

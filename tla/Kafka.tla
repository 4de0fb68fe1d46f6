------------------------------- MODULE Kafka -------------------------------
(***************************************************************************)
(* The Kafka consumer of kafka/kafka.go: the fetch loop with one goroutine *)
(* per partition of a batch, the goroutine that calls Start, Drain and     *)
(* Stop, and the group the process belongs to.                             *)
(*                                                                         *)
(* The client and the cluster are external, modelled from how the loop     *)
(* uses them: PollFetches hands out each record of an assignment once,     *)
(* whatever became of the ones before, and only a new assignment goes back *)
(* to the committed offset.  The group has committed before, so where a    *)
(* new one begins is left out.  A poll that brings nothing, or an error    *)
(* that fixes itself, takes the loop round without effect and is no step.  *)
(*                                                                         *)
(* A definition marked as a mutant is the one after it with a bug; nothing *)
(* uses it but the checks that a property would notice the bug.            *)
(***************************************************************************)
EXTENDS Naturals

CONSTANTS
    Partition,
    LogEnd,     \* bound: each partition holds the records 0..LogEnd-1
    Faults,     \* what may go wrong: a "handler" fails, a "commit" is refused
    MaxMoves    \* bound: how often partitions move, or the process is killed

ASSUME KafkaAssumption ==
    /\ LogEnd \in Nat
    /\ Faults \subseteq {"handler", "commit"}
    /\ MaxMoves \in Nat

VARIABLES
    \* the group
    away,       \* the partitions another member has
    broker,     \* "up", or "refusing": the topic or the access is gone
    committed,  \* [Partition -> the next offset the group resumes from]
    moves,
    \* the client and the batch the last poll returned
    position,   \* [Partition -> the next offset the client hands out]
    from, upto, \* the batch: offsets from[p]..upto[p]-1
    refused,    \* it carries an error that will not fix itself
    \* the fetch loop and its partition goroutines
    loop,
    at,         \* [Partition -> the record the goroutine is at]
    task,       \* [Partition -> is that goroutine inside a handler]
    fatal,      \* c.fatal, and the error on the death channel
    commit,     \* how the last commit ended
    \* Start, Drain, Stop
    main,
    closing,    \* c.closing, and pollCtx is cancelled
    ctxDone, expired, stopErr,
    \* history
    handled,    \* records a handler has returned nil for
    abandoned   \* records a failure left unhandled: the one it hit and the rest
                \* of its batch

groupVars == <<away, broker, committed, moves>>
batchVars == <<position, from, upto, refused>>
loopVars  == <<loop, at, task, fatal, commit>>
mainVars  == <<main, closing, ctxDone, expired, stopErr>>
history   == <<handled, abandoned>>
vars == <<groupVars, batchVars, loopVars, mainVars, history>>

Offset == 0..LogEnd
Record == Partition \X (0..LogEnd - 1)
Records(p, i, j) == {p} \X (i..j - 1)

TypeOK ==
    /\ away \subseteq Partition
    /\ broker \in {"up", "refusing"}
    /\ committed \in [Partition -> Offset] /\ position \in [Partition -> Offset]
    /\ moves \in 0..MaxMoves
    /\ from \in [Partition -> Offset] /\ upto \in [Partition -> Offset]
    /\ at \in [Partition -> Offset]
    /\ \A p \in Partition : from[p] <= at[p] /\ at[p] <= upto[p]
    /\ refused \in BOOLEAN
    /\ loop \in {"none", "top", "poll", "fetched", "handle", "gone"}
    /\ task \in [Partition -> {"idle", "call"}]
    /\ fatal \in BOOLEAN
    /\ commit \in {"none", "ok", "refused", "cancelled"}
    /\ main \in {"new", "running", "drained", "waiting", "cancel", "close", "stopped"}
    /\ closing \in BOOLEAN /\ ctxDone \in BOOLEAN /\ expired \in BOOLEAN /\ stopErr \in BOOLEAN
    /\ handled \subseteq Record /\ abandoned \subseteq Record

Zero == [p \in Partition |-> 0]

\* A process that has not started.
FreshBatch == from' = Zero /\ upto' = Zero /\ refused' = FALSE
FreshLoop  == at' = Zero /\ task' = [p \in Partition |-> "idle"] /\ fatal' = FALSE /\ commit' = "none"
FreshMain  == closing' = FALSE /\ ctxDone' = FALSE /\ expired' = FALSE /\ stopErr' = FALSE

Init ==
    /\ away = {} /\ broker = "up" /\ committed = Zero /\ moves = 0
    /\ position = Zero /\ from = Zero /\ upto = Zero /\ refused = FALSE
    /\ loop = "none" /\ at = Zero /\ task = [p \in Partition |-> "idle"]
    /\ fatal = FALSE /\ commit = "none"
    /\ main = "new" /\ closing = FALSE /\ ctxDone = FALSE /\ expired = FALSE /\ stopErr = FALSE
    /\ handled = {} /\ abandoned = {}

-----------------------------------------------------------------------------
(* The group and the process                                                *)

\* A rebalance gives the partition to another member, which handles some of it
\* from the commit on.  The batch in hand goes on.
Revoke(p) ==
    /\ p \notin away /\ moves < MaxMoves
    /\ away' = away \cup {p} /\ moves' = moves + 1
    /\ \E o \in committed[p]..LogEnd : handled' = handled \cup Records(p, committed[p], o)
    /\ UNCHANGED <<broker, committed, abandoned>>
    /\ UNCHANGED <<batchVars, loopVars, mainVars>>

\* It comes back with whatever that member committed, and the client resumes it
\* there.
Restore(p) ==
    /\ p \in away
    /\ away' = away \ {p}
    /\ \E o \in committed[p]..LogEnd :
        /\ Records(p, committed[p], o) \subseteq handled
        /\ committed' = [committed EXCEPT ![p] = o]
        /\ position' = [position EXCEPT ![p] = o]
    /\ UNCHANGED <<broker, moves, from, upto, refused>>
    /\ UNCHANGED <<loopVars, mainVars, history>>

\* The topic is deleted or the access revoked.
AccessLost ==
    /\ broker = "up"
    /\ broker' = "refusing"
    /\ UNCHANGED <<away, committed, moves>>
    /\ UNCHANGED <<batchVars, loopVars, mainVars, history>>

\* The process is killed, or was stopped, and a new one takes its place.
Replace ==
    /\ main # "new"
    /\ moves < MaxMoves /\ moves' = moves + 1
    /\ position' = Zero /\ FreshBatch
    /\ loop' = "none" /\ FreshLoop
    /\ main' = "new" /\ FreshMain
    /\ UNCHANGED <<away, broker, committed, history>>

-----------------------------------------------------------------------------
(* The fetch loop                                                           *)

\* Mutant: a commit that failed ends the loop.
LeavesOnError == closing \/ commit = "refused"
Leaves == closing

LoopTop ==
    /\ loop = "top"
    /\ loop' = IF Leaves THEN "gone" ELSE "poll"
    /\ UNCHANGED <<at, task, fatal, commit>>
    /\ UNCHANGED <<groupVars, batchVars, mainVars, history>>

\* PollFetches: some records of some partitions, perhaps none when pollCtx is
\* cancelled, and whatever the broker refuses.
PollReturns ==
    /\ loop = "poll" /\ main # "stopped"
    /\ upto' \in [Partition -> Offset]
    /\ \A p \in Partition : upto'[p] >= position[p] /\ (p \in away => upto'[p] = position[p])
    /\ upto' # position \/ closing \/ broker = "refusing"
    /\ from' = position /\ position' = upto' /\ at' = position
    /\ refused' = (broker = "refusing")
    /\ loop' = "fetched"
    /\ UNCHANGED <<task, fatal, commit>>
    /\ UNCHANGED <<groupVars, mainVars, history>>

\* IsClientClosed.
ClientClosed ==
    /\ loop = "poll" /\ main = "stopped"
    /\ loop' = "gone"
    /\ UNCHANGED <<at, task, fatal, commit>>
    /\ UNCHANGED <<groupVars, batchVars, mainVars, history>>

\* Mutant: nobody looks at pollCtx once the poll is back.
PollCtxIgnored == FALSE
PollCtxDone == closing

\* After the poll: Drain has cancelled it; or a refusal, which is fatal; or
\* handleBatch starts one goroutine for each partition that has records.
CheckFetch ==
    /\ loop = "fetched"
    /\ \/ PollCtxDone
          /\ loop' = "gone"
          /\ UNCHANGED <<task, fatal>>
       \/ ~PollCtxDone /\ refused
          /\ loop' = "gone" /\ fatal' = TRUE
          /\ UNCHANGED task
       \/ ~PollCtxDone /\ ~refused
          /\ loop' = "handle"
          /\ task' = [p \in Partition |-> IF from[p] < upto[p] THEN "call" ELSE "idle"]
          /\ UNCHANGED fatal
    /\ UNCHANGED <<at, commit>>
    /\ UNCHANGED <<groupVars, batchVars, mainVars, history>>

\* Mutant: one record too many.
LastRecordLate(p) == at[p] = upto[p]
LastRecord(p) == at[p] + 1 = upto[p]

\* handlePartition goes on to the next record, unless there is none or Stop
\* gave up on it.
HandlerSucceeds(p) ==
    /\ task[p] = "call"
    /\ handled' = handled \cup {<<p, at[p]>>}
    /\ at' = [at EXCEPT ![p] = @ + 1]
    /\ task' = [task EXCEPT ![p] = IF ctxDone \/ LastRecord(p) THEN "idle" ELSE "call"]
    /\ UNCHANGED <<loop, fatal, commit, abandoned>>
    /\ UNCHANGED <<groupVars, batchVars, mainVars>>

\* Mutant: a failed record is skipped.
HandlerFailsSkips(p) ==
    /\ task[p] = "call"
    /\ "handler" \in Faults \/ ctxDone
    /\ at' = [at EXCEPT ![p] = @ + 1]
    /\ task' = [task EXCEPT ![p] = IF LastRecord(p) THEN "idle" ELSE "call"]
    /\ UNCHANGED <<loop, fatal, commit, history>>
    /\ UNCHANGED <<groupVars, batchVars, mainVars>>

\* An error, or a panic call has recovered, ends the partition's run.  A handler
\* may always fail once its context is cancelled.
HandlerFails(p) ==
    /\ task[p] = "call"
    /\ "handler" \in Faults \/ ctxDone
    /\ task' = [task EXCEPT ![p] = "idle"]
    /\ abandoned' = abandoned \cup Records(p, at[p], upto[p])
    /\ UNCHANGED <<loop, at, fatal, commit, handled>>
    /\ UNCHANGED <<groupVars, batchVars, mainVars>>

BatchOver == loop = "handle" /\ \A p \in Partition : task[p] = "idle"

\* handleBatch commits what the goroutines finished, on the handlers' context;
\* an error is logged and the loop goes on.
Commit ==
    /\ BatchOver
    /\ loop' = "top"
    /\ \/ /\ at # from /\ ~ctxDone
          /\ committed' = [p \in Partition |-> IF from[p] < at[p] THEN at[p] ELSE committed[p]]
          /\ commit' = "ok"
       \/ /\ at # from
          /\ ctxDone \/ "commit" \in Faults
          /\ commit' = IF ctxDone THEN "cancelled" ELSE "refused"
          /\ UNCHANGED committed
       \/ /\ at = from
          /\ UNCHANGED <<committed, commit>>
    /\ UNCHANGED <<away, broker, moves, at, task, fatal>>
    /\ UNCHANGED <<batchVars, mainVars, history>>

-----------------------------------------------------------------------------
(* Start, Drain and Stop                                                    *)

\* The ping answers, the client joins the group and the loop runs.
Start ==
    /\ main = "new" /\ broker = "up"
    /\ position' = committed
    /\ loop' = "top" /\ main' = "running"
    /\ UNCHANGED <<from, upto, refused, at, task, fatal, commit>>
    /\ UNCHANGED <<closing, ctxDone, expired, stopErr, groupVars, history>>

\* Drain, or a Stop with none before it: Stop drains again in any case.
Drain ==
    /\ \/ main = "running" /\ main' \in {"drained", "waiting"}
       \/ main = "drained" /\ main' = "waiting"
    /\ closing' = TRUE
    /\ UNCHANGED <<ctxDone, expired, stopErr>>
    /\ UNCHANGED <<groupVars, batchVars, loopVars, history>>

StopTimeout ==
    /\ main = "waiting" /\ ~expired
    /\ expired' = TRUE
    /\ UNCHANGED <<main, closing, ctxDone, stopErr>>
    /\ UNCHANGED <<groupVars, batchVars, loopVars, history>>

Done == loop = "gone"

\* Mutant: Stop's context is not looked at.
StopCtxIgnored == FALSE
StopCtxDone == expired

StopWaits ==
    /\ main = "waiting"
    /\ \/ Done /\ stopErr' = FALSE
       \/ StopCtxDone /\ stopErr' = TRUE
    /\ main' = "cancel"
    /\ UNCHANGED <<closing, ctxDone, expired>>
    /\ UNCHANGED <<groupVars, batchVars, loopVars, history>>

StopCancels ==
    /\ main = "cancel"
    /\ ctxDone' = TRUE
    /\ main' = "close"
    /\ UNCHANGED <<closing, expired, stopErr>>
    /\ UNCHANGED <<groupVars, batchVars, loopVars, history>>

\* Mutant: auto-commit is on, so leaving the group commits what was fetched.
StopClosesCommitting ==
    /\ main = "close"
    /\ main' = "stopped"
    /\ committed' = [p \in Partition |-> IF p \in away THEN committed[p] ELSE position[p]]
    /\ UNCHANGED <<away, broker, moves, closing, ctxDone, expired, stopErr>>
    /\ UNCHANGED <<batchVars, loopVars, history>>

\* The client leaves the group and closes.
StopCloses ==
    /\ main = "close"
    /\ main' = "stopped"
    /\ UNCHANGED <<closing, ctxDone, expired, stopErr>>
    /\ UNCHANGED <<groupVars, batchVars, loopVars, history>>

Finished ==
    /\ main = "stopped" \/ (main = "new" /\ broker = "refusing")
    /\ UNCHANGED vars

-----------------------------------------------------------------------------
Group == AccessLost \/ \E p \in Partition : Revoke(p) \/ Restore(p)

Loop == LoopTop \/ PollReturns \/ ClientClosed \/ CheckFetch \/ Commit

Handler(p) == HandlerSucceeds(p) \/ HandlerFails(p)

\* What Stop does once called; calling it is up to the App.
Shutdown == StopTimeout \/ StopWaits \/ StopCancels \/ StopCloses

Next ==
    \/ Group \/ Replace \/ Loop \/ Start \/ Drain \/ Shutdown
    \/ \E p \in Partition : Handler(p)
    \/ Finished

Spec == Init /\ [][Next]_vars

\* The loop and the stopping goroutine run, timers fire, the cluster answers a
\* poll and a partition comes back.  Handlers return as long as the consumer runs
\* and once their context is cancelled, not on account of a Stop that waits.
Fairness ==
    /\ WF_vars(Loop)
    /\ WF_vars(Shutdown)
    /\ \A p \in Partition : WF_vars((~closing \/ ctxDone) /\ Handler(p)) /\ WF_vars(Restore(p))

FairSpec == Spec /\ Fairness

-----------------------------------------------------------------------------
(* Properties                                                               *)

\* "Delivery is at-least-once" (kafka.go:9): across crashes, refused commits,
\* rebalances and a Stop that gave up, the group resumes past a record only if a
\* handler succeeded on it.
Delivery == INSTANCE AtLeastOnce WITH
    Msg <- Record,
    done <- handled, settled <- UNION {Records(p, 0, committed[p]) : p \in Partition}
KeepsAtLeastOnce == Delivery!Spec

\* One partition's records run in order (kafka.go:311-315): none is handled
\* before every one ahead of it has been, whoever handled those.
HandledInOrder ==
    \A r \in handled : Records(r[1], 0, r[2]) \subseteq handled

\* Everything the goroutines of the last batch finished is committed.
BatchCommitted == \A p \in Partition : from[p] < at[p] => at[p] <= committed[p]

\* A Stop that returned nil lost no finished work: unless the cluster itself
\* refused it, the last batch is committed, so nothing is delivered twice.
CleanStopCommits == main = "stopped" /\ ~stopErr /\ commit # "refused" => BatchCommitted

\* Once the loop has seen Drain, or the batch in hand is over, no handler is
\* given new work (kafka.go:272-274).
NoBatchAfterDrain == [][closing /\ loop # "handle" => loop' # "handle"]_vars

\* A shutdown takes on nothing new and loses nothing that was finished.
DrainsCleanly == []CleanStopCommits /\ NoBatchAfterDrain

\* Whatever handlers do, the group skips only what a failure abandoned: neither
\* a refused commit nor an interrupted batch nor a restart skips a record.
LossOnlyByFailure ==
    \A p \in Partition : Records(p, 0, committed[p]) \subseteq handled \cup abandoned

\* A running consumer gets to every record of its partitions: it does not stop
\* at a failure, a refused commit or a partition that moved.
AllDelivered ==
    \A r \in Record :
        main = "running" ~> r \in handled \cup abandoned \/ main # "running" \/ fatal

\* A handler that does not return cannot hang Stop (kafka.go:409-413).
StopReturns == main = "waiting" ~> main \in {"stopped", "new"}

\* It gets to every record, and out of a Stop.
NeverStuck == AllDelivered /\ StopReturns

\* kafka.go:90-92: "Returning an error means the offset is NOT committed, so
\* this message and everything after it on the same partition is delivered
\* again."
FailedIsRedelivered ==
    \A p \in Partition : Records(p, 0, committed[p]) \subseteq handled
=============================================================================

----------------------------- MODULE Lifecycle -----------------------------
(***************************************************************************)
(* The App of app.go: one goroutine drives every Component through Start,  *)
(* Drain and Stop, one watcher goroutine per mortal Component forwards a   *)
(* death, and signals, deadlines and the caller's context arrive whenever  *)
(* they like.                                                              *)
(*                                                                         *)
(* pc is where the driving goroutine stands.  A call into a Component      *)
(* takes time: while pc is "starting" the driver is inside                 *)
(* order[started+1].Start (or about to leave the loop), while it is        *)
(* "stopping" it is inside order[cursor].Stop, and anything else may       *)
(* happen meanwhile.                                                       *)
(*                                                                         *)
(* A definition marked as a mutant is the one after it with a bug; nothing *)
(* uses it but the checks that a property would notice the bug.            *)
(***************************************************************************)
EXTENDS Naturals, Sequences, FiniteSets

CONSTANTS
    Component,  \* every Component the program may hand to Add
    Name,       \* [Component -> names]
    Tier,       \* [Component -> Nat]
    Mortal,     \* those whose Start returns a non-nil death channel
    Drainer,    \* those that implement Drainer
    NoOne,      \* an empty death channel
    MaxStops    \* bound: how many times a caller that does not use Run calls Stop

ASSUME LifecycleAssumption ==
    /\ Tier \in [Component -> Nat]
    /\ Mortal \subseteq Component
    /\ Drainer \subseteq Component
    /\ NoOne \notin Component
    /\ MaxStops \in Nat

VARIABLES
    \* the App's fields
    comps,      \* a.comps, in the order of Add
    order,      \* a.order, fixed when Start runs
    started,    \* a.started: how many of order are running
    ready,      \* a.ready
    death,      \* a.death: a channel with room for one
    stopWatch,  \* the field a.stopWatch: "nil" or "set"
    watchChan,  \* the channel it held: "open", "closed", or "panicked"
    \* the driving goroutine
    pc, mode, cursor, stops,
    errs,       \* the errors Start, Stop and Run have returned or will join
    \* contexts
    budget,     \* the WithTimeout of Start or stopStarted: none/running/expired
    delay,      \* how the drain delay ended: none/full/cut
    callerDone, \* the ctx the caller passed is cancelled
    signals,    \* who gets SIGINT and SIGTERM: "default" or "captured"
    signalled,  \* sigCtx is cancelled by a signal
    \* the Components and their watchers
    status, drained, errc, watcher

appVars     == <<comps, order, started, ready, death, stopWatch, watchChan>>
driverVars  == <<pc, mode, cursor, stops, errs>>
contextVars == <<budget, delay, callerDone, signals, signalled>>
compVars    == <<status, drained, errc, watcher>>
vars == <<appVars, driverVars, contextVars, compVars>>

PC == {"setup", "start", "starting", "started", "handback", "stop", "draining",
       "delay", "stopping", "unwound", "returned", "killed"}

Added == {comps[i] : i \in DOMAIN comps}
Ordered == {order[i] : i \in DOMAIN order}
Live == {c \in Component : status[c] = "up"}

\* Start is unwinding because a Component's Start failed.
Failed == \E c \in Component : status[c] = "failed"

TypeOK ==
    /\ comps \in Seq(Component)
    /\ order \in Seq(Component)
    /\ started \in Nat
    /\ ready \in BOOLEAN
    /\ death \in Component \cup {NoOne}
    /\ stopWatch \in {"nil", "set"}
    /\ watchChan \in {"open", "closed", "panicked"}
    /\ pc \in PC
    /\ mode \in {"none", "run", "manual"}
    /\ cursor \in Nat
    /\ stops \in 0..MaxStops
    /\ errs \subseteq {"duplicate", "start", "stop", "died"} \X (Component \cup {NoOne})
    /\ budget \in {"none", "running", "expired"}
    /\ delay \in {"none", "full", "cut"}
    /\ callerDone \in BOOLEAN
    /\ signals \in {"default", "captured"}
    /\ signalled \in BOOLEAN
    /\ status \in [Component -> {"new", "up", "stopped", "failed"}]
    /\ drained \subseteq Component
    /\ errc \in [Component -> {"empty", "full", "taken"}]
    /\ watcher \in [Component -> {"none", "watching", "holding", "gone"}]

Init ==
    /\ comps = <<>> /\ order = <<>> /\ started = 0
    /\ ready = FALSE /\ death = NoOne
    /\ stopWatch = "nil" /\ watchChan = "open"
    /\ pc = "setup" /\ mode = "none" /\ cursor = 0 /\ stops = 0 /\ errs = {}
    /\ budget = "none" /\ delay = "none"
    /\ callerDone = FALSE /\ signals = "default" /\ signalled = FALSE
    /\ status = [c \in Component |-> "new"]
    /\ drained = {}
    /\ errc = [c \in Component |-> "empty"]
    /\ watcher = [c \in Component |-> "none"]

-----------------------------------------------------------------------------
(* Wiring: main builds the App, adds Components and calls Run, or drives    *)
(* Start and Stop itself the way a test does.                               *)

Add(c) ==
    /\ pc = "setup" /\ mode = "none"
    /\ c \notin Added
    /\ comps' = Append(comps, c)
    /\ UNCHANGED <<order, started, ready, death, stopWatch, watchChan>>
    /\ UNCHANGED <<driverVars, contextVars, compVars>>

\* Run captures the signals before it does anything else.
CallRun ==
    /\ pc = "setup"
    /\ pc' = "start" /\ mode' = "run"
    /\ signals' = "captured"
    /\ UNCHANGED <<cursor, stops, errs, budget, delay, callerDone, signalled>>
    /\ UNCHANGED <<appVars, compVars>>

CallStart ==
    /\ pc = "setup"
    /\ pc' = "start" /\ mode' = "manual"
    /\ UNCHANGED <<cursor, stops, errs>>
    /\ UNCHANGED <<appVars, contextVars, compVars>>

\* A caller that does not use Run may Stop at any time it has control: after
\* Start, after a Stop, after a failed Start, or without ever starting.
CallStop ==
    /\ pc \in {"setup", "started", "returned"}
    /\ mode \in {"none", "manual"}
    /\ stops < MaxStops
    /\ stops' = stops + 1
    /\ pc' = "stop" /\ mode' = "manual"
    /\ UNCHANGED <<cursor, errs>>
    /\ UNCHANGED <<appVars, contextVars, compVars>>

-----------------------------------------------------------------------------
(* beginShutdown: readiness falls, then the watchers are told to go, once.  *)

\* Closing a channel that is closed panics.
Closed == IF watchChan = "open" THEN "closed" ELSE "panicked"

FallUnready == ready' = FALSE

\* Mutants: the field is not cleared; the channel is not closed.
CloseWatchTwice == watchChan' = (IF stopWatch = "nil" THEN watchChan ELSE Closed) /\ UNCHANGED stopWatch
CloseWatchNever == stopWatch' = "nil" /\ UNCHANGED watchChan
CloseWatch == watchChan' = (IF stopWatch = "nil" THEN watchChan ELSE Closed) /\ stopWatch' = "nil"

BeginShutdown == FallUnready /\ CloseWatch

\* stopStarted takes its own budget and begins at the last that started.  Mutants:
\* it misses that one; it has no budget.
StopStartedButOne == budget' = "running" /\ cursor' = started - 1 /\ pc' = "stopping"
StopStartedUnbounded == budget' = "none" /\ cursor' = started /\ pc' = "stopping"
StopStarted == budget' = "running" /\ cursor' = started /\ pc' = "stopping"

-----------------------------------------------------------------------------
(* Start                                                                    *)

DuplicateNames ==
    \E i, j \in DOMAIN comps : i # j /\ Name[comps[i]] = Name[comps[j]]

\* The permutation p says where each place of the sorted list comes from: by
\* Tier, and inside one Tier in the order of Add.
StableSort(p) ==
    /\ \A k \in DOMAIN p : \E i \in DOMAIN p : p[i] = k
    /\ \A i, j \in DOMAIN p : i < j =>
          \/ Tier[comps[p[i]]] < Tier[comps[p[j]]]
          \/ Tier[comps[p[i]]] = Tier[comps[p[j]]] /\ p[i] < p[j]

RejectDuplicates ==
    /\ pc = "start"
    /\ DuplicateNames
    /\ errs' = errs \cup {<<"duplicate", NoOne>>}
    /\ pc' = IF mode = "run" THEN "unwound" ELSE "returned"
    /\ UNCHANGED <<mode, cursor, stops>>
    /\ UNCHANGED <<appVars, contextVars, compVars>>

BeginStart ==
    /\ pc = "start"
    /\ ~DuplicateNames
    /\ \E p \in [1..Len(comps) -> 1..Len(comps)] :
        /\ StableSort(p)
        /\ order' = [i \in 1..Len(comps) |-> comps[p[i]]]
    /\ death' = NoOne
    /\ stopWatch' = "set" /\ watchChan' = "open"
    /\ budget' = "running"
    /\ pc' = "starting"
    /\ UNCHANGED <<comps, started, ready, mode, cursor, stops, errs>>
    /\ UNCHANGED <<delay, callerDone, signals, signalled, compVars>>

\* A Component's Start returned its death channel; one that cannot die gets no
\* watcher.
StartReturns ==
    /\ pc = "starting" /\ started < Len(order)
    /\ LET c == order[started + 1]
       IN  /\ status' = [status EXCEPT ![c] = "up"]
           /\ watcher' = [watcher EXCEPT ![c] = IF c \in Mortal THEN "watching" ELSE "none"]
    /\ started' = started + 1
    /\ UNCHANGED <<comps, order, ready, death, stopWatch, watchChan, drained, errc>>
    /\ UNCHANGED <<driverVars, contextVars>>

\* A Component's Start failed: no drain and no delay, straight to stopping the
\* ones that did start, on a context that is not the one that may have run out.
StartFails ==
    /\ pc = "starting" /\ started < Len(order)
    /\ LET c == order[started + 1]
       IN  /\ status' = [status EXCEPT ![c] = "failed"]
           /\ errs' = errs \cup {<<"start", c>>}
    /\ BeginShutdown
    /\ StopStarted
    /\ UNCHANGED <<comps, order, started, death, mode, stops, delay, callerDone>>
    /\ UNCHANGED <<signals, signalled, drained, errc, watcher>>

AllStarted ==
    /\ pc = "starting" /\ started = Len(order)
    /\ ready' = TRUE
    /\ budget' = "none"
    /\ pc' = "started"
    /\ UNCHANGED <<comps, order, started, death, stopWatch, watchChan>>
    /\ UNCHANGED <<mode, cursor, stops, errs, delay, callerDone, signals, signalled, compVars>>

-----------------------------------------------------------------------------
(* Run's wait: sigCtx (a signal, or the caller's ctx it derives from) or a  *)
(* death, whichever the select picks.                                       *)

\* sigCtx is over.
RunCtxDone == signalled \/ callerDone

WakeOnContext ==
    /\ pc = "started" /\ mode = "run"
    /\ RunCtxDone
    /\ pc' = "handback"
    /\ UNCHANGED <<mode, cursor, stops, errs>>
    /\ UNCHANGED <<appVars, contextVars, compVars>>

\* What Run joins to Stop's error.
DeathReason(c) == {<<"died", c>>}

WakeOnDeath ==
    /\ pc = "started" /\ mode = "run"
    /\ death # NoOne
    /\ errs' = errs \cup DeathReason(death)
    /\ death' = NoOne
    /\ pc' = "handback"
    /\ UNCHANGED <<comps, order, started, ready, stopWatch, watchChan, mode, cursor, stops>>
    /\ UNCHANGED <<contextVars, compVars>>

StopSignals == signals' = "default"

\* stopSignals, before the slow part begins, then Stop.
HandBackSignals ==
    /\ pc = "handback"
    /\ StopSignals
    /\ pc' = "stop"
    /\ UNCHANGED <<mode, cursor, stops, errs, budget, delay, callerDone, signalled>>
    /\ UNCHANGED <<appVars, compVars>>

\* stopSignals on the way out of a Run whose Start failed.
HandBackAfterFailure ==
    /\ pc = "unwound"
    /\ StopSignals
    /\ pc' = "returned"
    /\ UNCHANGED <<mode, cursor, stops, errs, budget, delay, callerDone, signalled>>
    /\ UNCHANGED <<appVars, compVars>>

-----------------------------------------------------------------------------
(* Stop                                                                     *)

\* Mutant: Stop is given the caller's context.
CallerGone == callerDone

\* The context handed to Stop can be over before its own budget: only when the
\* caller drives Stop himself, after a failed Start too.  Run, and a Start that
\* unwinds, use WithoutCancel.
StopParentDone == mode = "manual" /\ stops > 0 /\ callerDone

StopBegins ==
    /\ pc = "stop"
    /\ BeginShutdown
    /\ cursor' = 1
    /\ pc' = "draining"
    /\ UNCHANGED <<comps, order, started, death, mode, stops, errs>>
    /\ UNCHANGED <<contextVars, compVars>>

\* drain ranges over what started, in START order.  Mutant: it runs in
\* reverse.
MoreToDrain == cursor <= started

LastFirst == order[started + 1 - cursor]
NextToDrain == order[cursor]

DrainNext ==
    /\ pc = "draining" /\ MoreToDrain
    /\ drained' = drained \cup ({NextToDrain} \cap Drainer)
    /\ cursor' = cursor + 1
    /\ UNCHANGED <<pc, mode, stops, errs, status, errc, watcher>>
    /\ UNCHANGED <<appVars, contextVars>>

AllDrained ==
    /\ pc = "draining" /\ ~MoreToDrain
    /\ pc' = "delay"
    /\ UNCHANGED <<mode, cursor, stops, errs>>
    /\ UNCHANGED <<appVars, contextVars, compVars>>

\* The drain delay ends on its timer, or early on the context; then
\* stopStarted takes its own budget.
DelayEnds ==
    /\ pc = "delay"
    /\ \/ delay' = "full"
       \/ StopParentDone /\ delay' = "cut"
    /\ StopStarted
    /\ UNCHANGED <<mode, stops, errs, callerDone, signals, signalled>>
    /\ UNCHANGED <<appVars, compVars>>

\* Mutant: in START order.
FirstFirst == order[started + 1 - cursor]
NextToStop == order[cursor]

\* One turn of stopStarted's loop, in reverse.  A Stop that fails is joined and
\* the loop goes on.
StopReturns ==
    /\ pc = "stopping" /\ cursor > 0
    /\ status' = [status EXCEPT ![NextToStop] = "stopped"]
    /\ errs' \in {errs, errs \cup {<<"stop", NextToStop>>}}
    /\ cursor' = cursor - 1
    /\ UNCHANGED <<pc, mode, stops, drained, errc, watcher>>
    /\ UNCHANGED <<appVars, contextVars>>

AllStopped ==
    /\ pc = "stopping" /\ cursor = 0
    /\ started' = 0
    /\ budget' = "none"
    /\ pc' = IF mode = "run" /\ Failed THEN "unwound" ELSE "returned"
    /\ UNCHANGED <<comps, order, ready, death, stopWatch, watchChan>>
    /\ UNCHANGED <<mode, cursor, stops, errs, delay, callerDone, signals, signalled, compVars>>

-----------------------------------------------------------------------------
(* Watchers: one goroutine per mortal Component.                            *)

\* watch's select, both of whose arms may be ready at once.
WatcherTakesDeath(c) ==
    /\ watcher[c] = "watching" /\ errc[c] = "full" /\ pc # "killed"
    /\ watcher' = [watcher EXCEPT ![c] = "holding"]
    /\ errc' = [errc EXCEPT ![c] = "taken"]
    /\ UNCHANGED <<status, drained>>
    /\ UNCHANGED <<appVars, driverVars, contextVars>>

WatcherDismissed(c) ==
    /\ watcher[c] = "watching" /\ watchChan = "closed" /\ pc # "killed"
    /\ watcher' = [watcher EXCEPT ![c] = "gone"]
    /\ UNCHANGED <<status, drained, errc>>
    /\ UNCHANGED <<appVars, driverVars, contextVars>>

\* The send never blocks and the channel has room for one, which is enough.
\* Mutant: it has none, and nobody is receiving yet.
Unbuffered(c) == death
Buffered(c) == IF death = NoOne THEN c ELSE death

WatcherForwards(c) ==
    /\ watcher[c] = "holding" /\ pc # "killed"
    /\ death' = Buffered(c)
    /\ watcher' = [watcher EXCEPT ![c] = "gone"]
    /\ UNCHANGED <<comps, order, started, ready, stopWatch, watchChan, status, drained, errc>>
    /\ UNCHANGED <<driverVars, contextVars>>

-----------------------------------------------------------------------------
(* The world: Components that die, deadlines, signals, the caller's ctx.    *)

\* A mortal Component reports on its death channel once, while it runs or as it
\* lets go (an HTTP listener reports nil when Stop shuts it down).
ComponentDies(c) ==
    /\ c \in Mortal /\ errc[c] = "empty" /\ status[c] \in {"up", "stopped"}
    /\ pc # "killed"
    /\ errc' = [errc EXCEPT ![c] = "full"]
    /\ UNCHANGED <<status, drained, watcher>>
    /\ UNCHANGED <<appVars, driverVars, contextVars>>

BudgetExpires ==
    /\ budget = "running" /\ pc \in {"starting", "stopping"}
    /\ budget' = "expired"
    /\ UNCHANGED <<delay, callerDone, signals, signalled>>
    /\ UNCHANGED <<appVars, driverVars, compVars>>

CallerCancels ==
    /\ ~callerDone /\ pc # "killed"
    /\ callerDone' = TRUE
    /\ UNCHANGED <<budget, delay, signals, signalled>>
    /\ UNCHANGED <<appVars, driverVars, compVars>>

\* While signals are captured, sigCtx is cancelled and later ones are absorbed;
\* handed back, one kills the process.
SignalArrives ==
    /\ mode = "run" /\ pc \notin {"returned", "killed"}
    /\ IF signals = "captured"
       THEN signalled' = TRUE /\ pc' = pc
       ELSE signalled' = signalled /\ pc' = "killed"
    /\ UNCHANGED <<mode, cursor, stops, errs, budget, delay, callerDone, signals>>
    /\ UNCHANGED <<appVars, compVars>>

\* Run has returned, or the caller is done with the App.
Finished ==
    /\ pc \in {"returned", "killed"}
    /\ UNCHANGED vars

-----------------------------------------------------------------------------
Wiring == (\E c \in Component : Add(c)) \/ CallRun \/ CallStart \/ CallStop

\* What the driving goroutine does without waiting for anybody.
Driver ==
    \/ RejectDuplicates \/ BeginStart \/ AllStarted
    \/ WakeOnContext \/ WakeOnDeath \/ HandBackSignals \/ HandBackAfterFailure
    \/ StopBegins \/ DrainNext \/ AllDrained \/ DelayEnds \/ AllStopped

\* What it does when a Component lets it go.
Calls == StartReturns \/ StartFails \/ StopReturns

Watcher(c) == WatcherTakesDeath(c) \/ WatcherDismissed(c) \/ WatcherForwards(c)

World == (\E c \in Component : ComponentDies(c))
            \/ BudgetExpires \/ CallerCancels \/ SignalArrives

Next ==
    \/ Wiring \/ Driver \/ Calls
    \/ \E c \in Component : Watcher(c)
    \/ World
    \/ Finished

Spec == Init /\ [][Next]_vars

\* The context of the call the driver is in is over: startCtx (its budget, a
\* signal through sigCtx, or the caller's ctx) or the one of stopStarted.
CallDone ==
    \/ budget = "expired"
    \/ pc = "starting" /\ RunCtxDone
    \/ pc = "stopping" /\ StopParentDone

\* The Go scheduler runs the driver and the watchers, timers fire, and a
\* Component returns at the latest when the context of its call is over.  No
\* fairness for signals, deaths or the caller.
Fairness ==
    /\ WF_vars(Driver)
    /\ WF_vars(CallDone /\ Calls)
    /\ WF_vars(BudgetExpires)
    /\ \A c \in Component : WF_vars(Watcher(c))

FairSpec == Spec /\ Fairness

-----------------------------------------------------------------------------
(* Safety                                                                   *)

\* Ready (app.go:87-89) is true only while every Component ever added is up and
\* none has been drained: no shutdown or failed start leaves it true.
ReadyMeansAllUp ==
    ready => Live = Added /\ started = Len(comps) /\ drained = {} /\ ~Failed

\* A Component of a higher Tier never runs without everything below it, through
\* start, failed start and stop (goboot.go:9-11).
DependenciesOutlive ==
    \A c, d \in Ordered : Tier[c] < Tier[d] /\ status[d] = "up" => status[c] = "up"

\* Announce first, tear down last (app.go:189-191): nothing is stopped before
\* every Drainer has drained, except that a failed start drains nobody.
AnnounceBeforeTeardown ==
    /\ Failed => drained = {}
    /\ ~Failed /\ (\E c \in Component : status[c] = "stopped") => drained = Ordered \cap Drainer

\* Drainers run in START order: one has drained only after every Drainer that
\* started before it.
DrainsInStartOrder ==
    \A i, j \in DOMAIN order :
        i < j /\ order[i] \in Drainer /\ order[j] \in drained => order[i] \in drained

\* However it got there, an App that has handed control back runs nothing: a
\* failed start stopped what did start, a failing Stop did not end the loop.
NothingLeftRunning == pc = "returned" => Live = {}

\* Stop is called on what runs and on nothing else: no Component is stopped
\* twice, not even by a second Stop of the App.
StopsOnlyRunning == pc = "stopping" /\ cursor > 0 => status[order[cursor]] = "up"

\* A second Stop closes stopWatch no second time, which would panic
\* (app.go:179-180).
NoDoubleClose == watchChan # "panicked"

\* A Run nobody asked to end returns the reason: a rejected name, a failed
\* start, or the death of a Component that did report one (app.go:231-232).
CauseReported ==
    pc = "returned" /\ mode = "run" /\ ~signalled /\ ~callerDone =>
        \E e \in errs : \/ e[1] \in {"duplicate", "start"}
                        \/ e[1] = "died" /\ errc[e[2]] = "taken"

\* Run gives the load balancer the whole delay, whatever became of the context
\* it was called with (app.go:243).
RunWaitsOutTheDelay == mode = "run" /\ pc = "stopping" /\ ~Failed => delay = "full"

\* Once Run's shutdown is under way a signal kills (app.go:239-240).
SecondSignalKills ==
    mode = "run" /\ ~Failed /\ pc \in {"stop", "draining", "delay", "stopping"}
        => signals = "default"

\* The order of an App: readiness means that everything is up, dependencies outlive
\* what uses them, everything drains, in start order, before anything stops, and
\* only what runs is stopped (app.go:91-219, goboot.go:9-17).
OrderKept ==
    /\ ReadyMeansAllUp
    /\ DependenciesOutlive
    /\ AnnounceBeforeTeardown
    /\ DrainsInStartOrder
    /\ StopsOnlyRunning

\* However an App was started, stopped, and stopped again, it leaves nothing running
\* and does not panic (app.go:164-219).
StopsClean == NothingLeftRunning /\ NoDoubleClose

\* Run reports why it ended, waits out the drain delay, and can be killed by a
\* second signal (app.go:221-244).
RunAsPromised == CauseReported /\ RunWaitsOutTheDelay /\ SecondSignalKills

-----------------------------------------------------------------------------
(* Liveness                                                                 *)

Ended == pc \in {"returned", "killed"}

\* A hanging Component cannot hold the start sequence past StartTimeout, nor
\* the stop sequence past StopTimeout.
PhasesEnd ==
    /\ pc = "starting" ~> pc # "starting"
    /\ pc \in {"handback", "stop", "draining", "delay", "stopping", "unwound"} ~> Ended

\* A signal, or the end of the caller's context, ends Run.
RequestEndsRun == mode = "run" /\ (signalled \/ callerDone) ~> Ended

\* A death is fatal (spec.md section 2, step 3): once a watched Component
\* reports one, Run ends, also when the report comes before Start is through.
DeathIsFatal ==
    mode = "run" /\ (\E c \in Component : errc[c] = "full" /\ watcher[c] = "watching") ~> Ended

\* Whatever is to end Run does end it (app.go:229-244).
RunEnds == RequestEndsRun /\ DeathIsFatal

\* No watcher goroutine outlives the shutdown.
WatchersLeave ==
    pc = "returned" ~> pc = "killed" \/ \A c \in Component : watcher[c] \in {"none", "gone"}

\* Nothing that has begun goes on for ever: not a phase, not a Run that was asked
\* to end, not a watcher.
EverythingEnds == PhasesEnd /\ RunEnds /\ WatchersLeave

-----------------------------------------------------------------------------
(* The inductive invariant behind the safety properties.                    *)

\* No Component is in the list twice, and Start's order is by Tier.
OrderSorted ==
    /\ \A i, j \in DOMAIN comps : comps[i] = comps[j] => i = j
    /\ \A i, j \in DOMAIN order :
          i < j => order[i] # order[j] /\ Tier[order[i]] <= Tier[order[j]]

\* How far up the order the running Components reach.
Top == IF pc = "stopping" THEN cursor ELSE started

\* What runs is always a prefix of the order; only the driver's position says
\* which, and a killed process has none.
UpIsPrefix ==
    /\ \A i, j \in DOMAIN order : i < j /\ status[order[j]] = "up" => status[order[i]] = "up"
    /\ pc # "killed" => \A i \in DOMAIN order : (status[order[i]] = "up") <=> (i <= Top)
    /\ \A c \in Component \ Ordered : status[c] = "new"
    /\ started <= Len(order)
    /\ pc = "stopping" => cursor <= started
    /\ pc = "draining" => cursor \in 1..started + 1
    /\ pc \in {"unwound", "returned"} => started = 0

\* Until a failure or a shutdown nothing is drained, stopped or failed, and the
\* order, once it is there, has everything that was added.
Rising ==
    /\ pc \in {"setup", "start"} => order = <<>> /\ started = 0
    /\ pc \in {"setup", "start", "starting", "started", "handback"} \/ ready =>
          drained = {} /\ \A c \in Component : status[c] \in {"new", "up"}
    /\ pc \in {"starting", "started", "handback"} \/ ready =>
          Ordered = Added /\ Len(order) = Len(comps)
    /\ pc \in {"started", "handback"} \/ ready => started = Len(order)
    /\ ready => pc \in {"started", "handback", "stop", "killed"}
    /\ pc \in {"started", "handback"} => ready
    /\ ready => Live = Added

\* A shutdown that is not an unwinding has everything to drain, or has drained
\* and stopped it before.
Falling ==
    /\ drained \subseteq Ordered
    /\ pc = "stop" /\ ~ready => started = 0
    /\ Failed /\ pc \in {"stop", "draining", "delay"} => started = 0
    /\ ~Failed =>
        /\ pc \in {"stop", "draining", "delay", "stopping", "unwound", "returned"} =>
              \/ started = Len(order)
              \/ started = 0 /\ drained = Ordered \cap Drainer
        /\ pc = "stop" /\ started = Len(order) => drained = {}
        /\ pc = "draining" /\ started = Len(order) =>
              drained = {order[i] : i \in 1..cursor - 1} \cap Drainer
        /\ pc \in {"delay", "stopping"} => drained = Ordered \cap Drainer

\* stopWatch is set only while its channel is open, so closing it is safe.
Channels ==
    /\ stopWatch = "set" => watchChan = "open"
    /\ watchChan # "panicked"

IInv ==
    /\ TypeOK /\ OrderSorted /\ UpIsPrefix /\ Rising /\ Falling /\ Channels
    /\ AnnounceBeforeTeardown

-----------------------------------------------------------------------------
(* Refinement: the App keeps AppContract.                                   *)

\* A Stop with nothing to stop runs through the phases as from "over".
phase ==
    CASE pc \in {"setup", "start"} -> "idle"
      [] pc \in {"started", "handback"} -> "serving"
      [] pc = "stop" -> IF ready THEN "serving" ELSE "over"
      [] pc \in {"draining", "delay"} -> "draining"
      [] pc \in {"unwound", "returned"} -> "over"
      [] OTHER -> pc

Contract == INSTANCE AppContract WITH live <- Live

\* Every behaviour of the App is one its contract allows.
Implements == Contract!Spec
=============================================================================

----------------------------- MODULE AppProofs -----------------------------
(***************************************************************************)
(* The App and its readiness probe, for every set of Components, every     *)
(* Tier, any Checks and every bound on the caller's Stops.                 *)
(***************************************************************************)
EXTENDS Readiness, TLAPS, SequenceTheorems

-----------------------------------------------------------------------------
(* Lifecycle: what Start, Stop, Run and the watchers do.                    *)

\* Every variable of the App, the driver, the contexts, the Components and the
\* watchers starts with its type.
LEMMA InitType == Init => TypeOK
<1> SUFFICES ASSUME Init PROVE TypeOK
  OBVIOUS
<1>1. comps \in Seq(Component) /\ order \in Seq(Component)
  BY EmptySeq DEF Init
<1>2. /\ status \in [Component -> {"new", "up", "stopped", "failed"}]
      /\ errc \in [Component -> {"empty", "full", "taken"}]
      /\ watcher \in [Component -> {"none", "watching", "holding", "gone"}]
  BY DEF Init
<1>3. ready \in BOOLEAN /\ callerDone \in BOOLEAN /\ signalled \in BOOLEAN
  BY DEF Init
<1>4. stops \in 0..MaxStops /\ errs \subseteq {"duplicate", "start", "stop", "died"} \X (Component \cup {NoOne})
  BY LifecycleAssumption DEF Init
<1> QED
  BY <1>1, <1>2, <1>3, <1>4 DEF Init, TypeOK, PC

\* ... and every step keeps it, the errors being joined under the name of a
\* Component because the driver's position stays inside the order.
LEMMA TypeStep == TypeOK /\ UpIsPrefix /\ [Next]_vars => TypeOK'
<1> USE LifecycleAssumption DEF TypeOK, PC, appVars, driverVars, contextVars, compVars
<1> SUFFICES ASSUME TypeOK, UpIsPrefix, [Next]_vars PROVE TypeOK'
  OBVIOUS
<1>a. \A i \in 1..Len(order) : order[i] \in Component
  BY ElementOfSeq
<1>1. ASSUME NEW c \in Component, Add(c) PROVE TypeOK'
  BY <1>1 DEF Add
<1>2. CASE CallRun
  BY <1>2 DEF CallRun
<1>3. CASE CallStart
  BY <1>3 DEF CallStart
<1>4. CASE CallStop
  BY <1>4 DEF CallStop
<1>5. CASE RejectDuplicates
  BY <1>5 DEF RejectDuplicates
<1>6. CASE BeginStart
  <2>1. PICK p \in [1..Len(comps) -> 1..Len(comps)] :
           order' = [i \in 1..Len(comps) |-> comps[p[i]]]
    BY <1>6 DEF BeginStart
  <2>2. order' \in [1..Len(comps) -> Component]
    BY <2>1
  <2>3. Len(comps) \in Nat
    OBVIOUS
  <2>4. Seq(Component) = UNION {[1..n -> Component] : n \in Nat}
    BY SeqDef, Zenon
  <2>5. order' \in UNION {[1..n -> Component] : n \in Nat}
    BY <2>2, <2>3, Zenon
  <2>6. order' \in Seq(Component)
    BY <2>4, <2>5, Zenon
  <2> QED
    BY <1>6, <2>6 DEF BeginStart
<1>7. CASE StartReturns
  BY <1>7 DEF StartReturns
<1>8. CASE StartFails
  <2>1. order[started + 1] \in Component
    BY <1>8, <1>a DEF StartFails, StopStarted
  <2>2. errs' \subseteq {"duplicate", "start", "stop", "died"} \X (Component \cup {NoOne})
    BY <1>8, <2>1 DEF StartFails, StopStarted
  <2>3. status' \in [Component -> {"new", "up", "stopped", "failed"}]
    BY <1>8 DEF StartFails, StopStarted
  <2>4. /\ ready' \in BOOLEAN /\ stopWatch' \in {"nil", "set"}
        /\ watchChan' \in {"open", "closed", "panicked"}
    BY <1>8 DEF StartFails, BeginShutdown, FallUnready, CloseWatch, Closed
  <2> QED
    BY <1>8, <2>2, <2>3, <2>4 DEF StartFails, StopStarted
<1>9. CASE AllStarted
  BY <1>9 DEF AllStarted
<1>10. CASE WakeOnContext
  BY <1>10 DEF WakeOnContext
<1>11. CASE WakeOnDeath
  BY <1>11 DEF WakeOnDeath, DeathReason
<1>12. CASE HandBackSignals
  BY <1>12 DEF HandBackSignals, StopSignals
<1>13. CASE HandBackAfterFailure
  BY <1>13 DEF HandBackAfterFailure, StopSignals
<1>14. CASE StopBegins
  <2>1. /\ ready' \in BOOLEAN /\ stopWatch' \in {"nil", "set"}
        /\ watchChan' \in {"open", "closed", "panicked"}
    BY <1>14 DEF StopBegins, BeginShutdown, FallUnready, CloseWatch, Closed
  <2> QED
    BY <1>14, <2>1 DEF StopBegins
<1>15. CASE DrainNext
  <2>1. order[cursor] \in Component
    BY <1>15, <1>a DEF DrainNext, UpIsPrefix, MoreToDrain, NextToDrain
  <2> QED
    BY <1>15, <2>1 DEF DrainNext, MoreToDrain, NextToDrain
<1>16. CASE AllDrained
  BY <1>16 DEF AllDrained, MoreToDrain
<1>17. CASE DelayEnds
  BY <1>17 DEF DelayEnds, StopStarted
<1>18. CASE StopReturns
  <2>1. order[cursor] \in Component
    BY <1>18, <1>a DEF StopReturns, UpIsPrefix, NextToStop
  <2> QED
    BY <1>18, <2>1 DEF StopReturns, NextToStop
<1>19. CASE AllStopped
  BY <1>19 DEF AllStopped
<1>20. ASSUME NEW c \in Component, Watcher(c) PROVE TypeOK'
  <2>1. CASE WatcherTakesDeath(c)
    BY <2>1 DEF WatcherTakesDeath
  <2>2. CASE WatcherDismissed(c)
    BY <2>2 DEF WatcherDismissed
  <2>3. CASE WatcherForwards(c)
    BY <2>3 DEF WatcherForwards, Buffered
  <2> QED
    BY <1>20, <2>1, <2>2, <2>3 DEF Watcher
<1>21. CASE World
  <2>1. ASSUME NEW c \in Component, ComponentDies(c) PROVE TypeOK'
    BY <2>1 DEF ComponentDies
  <2>2. CASE BudgetExpires
    BY <2>2 DEF BudgetExpires
  <2>3. CASE CallerCancels
    BY <2>3 DEF CallerCancels
  <2>4. CASE SignalArrives
    <3>1. signalled' \in BOOLEAN /\ pc' \in PC
      BY <2>4, Zenon DEF SignalArrives
    <3> QED
      BY <2>4, <3>1 DEF SignalArrives
  <2> QED
    BY <1>21, <2>1, <2>2, <2>3, <2>4 DEF World
<1>22. CASE Finished \/ UNCHANGED vars
  BY <1>22 DEF Finished, vars
<1> QED
  BY <1>1, <1>2, <1>3, <1>4, <1>5, <1>6, <1>7, <1>8, <1>9, <1>10, <1>11, <1>12, <1>13,
     <1>14, <1>15, <1>16, <1>17, <1>18, <1>19, <1>20, <1>21, <1>22
     DEF Next, Wiring, Driver, Calls

-----------------------------------------------------------------------------
(* Most steps of the watchers, the world and Run move at most pc.           *)

Moves ==
    /\ UNCHANGED <<comps, order, started, ready, cursor, status, drained>>
    /\ \/ pc' \in {pc, "killed"}
       \/ pc = "setup" /\ pc' \in {"start", "stop"}
       \/ pc = "start" /\ pc' \in {"unwound", "returned"}
       \/ pc = "started" /\ pc' \in {"handback", "stop"}
       \/ pc = "handback" /\ pc' = "stop"
       \/ pc = "draining" /\ ~(cursor <= started) /\ pc' = "delay"
       \/ pc = "unwound" /\ pc' = "returned"
       \/ pc = "returned" /\ pc' = "stop"

Works ==
    \/ \E c \in Component : Add(c)
    \/ BeginStart \/ StartReturns \/ StartFails \/ AllStarted \/ StopBegins
    \/ DrainNext \/ DelayEnds \/ StopReturns \/ AllStopped

\* Every step is one of the actions that do work, or moves at most pc.
LEMMA StepCases == [Next]_vars => Works \/ Moves
<1> USE DEF appVars, driverVars, contextVars, compVars
<1> SUFFICES ASSUME [Next]_vars, ~Works PROVE Moves
  OBVIOUS
<1>1. CASE CallRun \/ CallStart \/ CallStop
  BY <1>1 DEF CallRun, CallStart, CallStop, Moves
<1>2. CASE RejectDuplicates
  BY <1>2 DEF RejectDuplicates, Moves
<1>3. CASE WakeOnContext \/ WakeOnDeath
  BY <1>3 DEF WakeOnContext, WakeOnDeath, Moves, DeathReason
<1>4. CASE HandBackSignals \/ HandBackAfterFailure
  BY <1>4 DEF HandBackSignals, HandBackAfterFailure, Moves, StopSignals
<1>5. CASE AllDrained
  BY <1>5 DEF AllDrained, Moves, MoreToDrain
<1>6. ASSUME NEW c \in Component, Watcher(c) PROVE Moves
  BY <1>6 DEF Watcher, WatcherTakesDeath, WatcherDismissed, WatcherForwards, Moves, Buffered
<1>7. CASE World
  BY <1>7 DEF World, ComponentDies, BudgetExpires, CallerCancels, SignalArrives, Moves
<1>8. CASE Finished \/ UNCHANGED vars
  BY <1>8 DEF Finished, vars, Moves
<1> QED
  BY <1>1, <1>2, <1>3, <1>4, <1>5, <1>6, <1>7, <1>8 DEF Next, Wiring, Driver, Calls, Works

-----------------------------------------------------------------------------
(* OrderSorted                                                              *)

\* Only Add touches the list, and only BeginStart the order.
LEMMA OrderFrame ==
    Works \/ Moves => \/ \E c \in Component : Add(c)
                      \/ BeginStart
                      \/ UNCHANGED <<comps, order>>
  BY DEF Works, Moves, StartReturns, StartFails, AllStarted, StopBegins, DrainNext, DelayEnds,
       StopReturns, AllStopped, appVars, StopStarted, MoreToDrain, NextToDrain, NextToStop

\* Add keeps the list free of repetitions, and Start's sort puts a lower Tier
\* first.
LEMMA SortedStep == TypeOK /\ OrderSorted /\ [Next]_vars => OrderSorted'
<1> SUFFICES ASSUME TypeOK, OrderSorted, [Next]_vars PROVE OrderSorted'
  OBVIOUS
<1> USE DEF OrderSorted
<1>1. ASSUME NEW c \in Component, Add(c) PROVE OrderSorted'
  <2>1. order' = order /\ comps' = Append(comps, c) /\ c \notin Added
    BY <1>1 DEF Add
  <2>2. \A i \in DOMAIN comps : comps[i] # c
    BY <2>1 DEF Added
  <2> QED
    BY <2>1, <2>2 DEF TypeOK
<1>2. CASE BeginStart
  <2>1. PICK p \in [1..Len(comps) -> 1..Len(comps)] :
           StableSort(p) /\ order' = [i \in 1..Len(comps) |-> comps[p[i]]]
    BY <1>2 DEF BeginStart
  <2>2. \A i, j \in 1..Len(comps) : i < j =>
           \/ Tier[comps[p[i]]] < Tier[comps[p[j]]]
           \/ Tier[comps[p[i]]] = Tier[comps[p[j]]] /\ p[i] < p[j]
    BY <2>1 DEF StableSort
  <2>3. DOMAIN order' = 1..Len(comps) /\ comps' = comps
    BY <2>1, <1>2 DEF BeginStart
  <2>a. DOMAIN comps = 1..Len(comps)
    BY DEF TypeOK
  <2>b. \A i \in 1..Len(comps) : order'[i] = comps[p[i]]
    BY <2>1
  <2>4. \A i \in 1..Len(comps) : order'[i] = comps[p[i]] /\ comps[p[i]] \in Component
    BY <2>b, ElementOfSeq DEF TypeOK
  <2>5. ASSUME NEW i \in 1..Len(comps), NEW j \in 1..Len(comps), i < j
        PROVE  order'[i] # order'[j] /\ Tier[order'[i]] <= Tier[order'[j]]
    <3>1. Tier[comps[p[i]]] \in Nat /\ Tier[comps[p[j]]] \in Nat
      BY <2>4, LifecycleAssumption
    <3>2. p[i] \in DOMAIN comps /\ p[j] \in DOMAIN comps
      BY <2>a
    <3>3. comps[p[i]] # comps[p[j]]
      BY <2>2, <2>5, <2>a, <3>1, <3>2
    <3> QED
      BY <2>2, <2>4, <2>5, <3>1, <3>3
  <2> QED
    BY <2>3, <2>5
<1>3. CASE UNCHANGED <<comps, order>>
  BY <1>3
<1> QED
  BY <1>1, <1>2, <1>3, StepCases, OrderFrame

-----------------------------------------------------------------------------
(* UpIsPrefix                                                               *)

\* Start raises and Stop lowers the prefix that runs one Component at a time,
\* at the place the driver has reached.
LEMMA PrefixStep ==
    TypeOK /\ TypeOK' /\ OrderSorted /\ UpIsPrefix /\ Rising /\ [Next]_vars => UpIsPrefix'
<1> SUFFICES ASSUME TypeOK, TypeOK', OrderSorted, UpIsPrefix, Rising, [Next]_vars
             PROVE  UpIsPrefix'
  OBVIOUS
<1> USE DEF UpIsPrefix, Top
<1>a. /\ DOMAIN order = 1..Len(order) /\ Len(order) \in Nat
      /\ \A i \in 1..Len(order) : order[i] \in Component
  BY ElementOfSeq DEF TypeOK
<1>b. \A i, j \in 1..Len(order) : order[i] = order[j] => i = j
  BY <1>a DEF OrderSorted
<1>1. CASE Moves
  BY <1>1 DEF Moves, Ordered, Rising
<1>2. ASSUME NEW c \in Component, Add(c) PROVE UpIsPrefix'
  BY <1>2 DEF Add, Ordered, driverVars, compVars
<1>3. CASE BeginStart
  <2>1. /\ order = <<>> /\ started = 0 /\ started' = 0 /\ status' = status /\ pc' = "starting"
    BY <1>3 DEF BeginStart, Rising, compVars
  <2>2. \A c \in Component : status[c] = "new"
    BY <2>1 DEF Ordered
  <2>3. /\ DOMAIN order' = 1..Len(order') /\ Len(order') \in Nat
        /\ \A i \in 1..Len(order') : order'[i] \in Component
    BY ElementOfSeq DEF TypeOK
  <2> QED
    BY <2>1, <2>2, <2>3
<1>4. CASE StartReturns
  <2>1. /\ order' = order /\ started' = started + 1 /\ started < Len(order)
        /\ pc = "starting" /\ pc' = "starting"
        /\ status' = [status EXCEPT ![order[started + 1]] = "up"]
    BY <1>4 DEF StartReturns, driverVars
  <2>2. /\ started + 1 \in 1..Len(order)
        /\ \A c \in Component : status'[c] = IF c = order[started + 1] THEN "up" ELSE status[c]
    BY <2>1, <1>a DEF TypeOK
  <2>a. \A i \in 1..Len(order) : (status[order[i]] = "up") <=> (i <= started)
    BY <2>1, <1>a
  <2>3. \A i \in 1..Len(order) : (status'[order[i]] = "up") <=> (i <= started + 1)
    <3> TAKE i \in 1..Len(order)
    <3>1. CASE i = started + 1
      BY <3>1, <2>2, <1>a
    <3>2. CASE i # started + 1
      <4>1. status'[order[i]] = status[order[i]]
        BY <3>2, <2>2, <1>a, <1>b
      <4> QED
        BY <3>2, <4>1, <2>a DEF TypeOK
    <3> QED
      BY <3>1, <3>2
  <2>4. \A c \in Component \ Ordered : status'[c] = "new"
    BY <2>1, <2>2, <1>a DEF Ordered
  <2> QED
    BY <2>1, <2>3, <2>4, <1>a DEF Ordered, TypeOK
<1>5. CASE StartFails
  <2>1. /\ order' = order /\ started' = started /\ started < Len(order) /\ cursor' = started
        /\ pc = "starting" /\ pc' = "stopping"
        /\ status' = [status EXCEPT ![order[started + 1]] = "failed"]
    BY <1>5 DEF StartFails, StopStarted
  <2>2. /\ started + 1 \in 1..Len(order)
        /\ \A c \in Component : status'[c] = IF c = order[started + 1] THEN "failed" ELSE status[c]
    BY <2>1, <1>a DEF TypeOK
  <2>a. \A i \in 1..Len(order) : (status[order[i]] = "up") <=> (i <= started)
    BY <2>1, <1>a
  <2>3. \A i \in 1..Len(order) : (status'[order[i]] = "up") <=> (i <= started)
    <3> TAKE i \in 1..Len(order)
    <3>1. CASE i = started + 1
      BY <3>1, <2>2, <1>a DEF TypeOK
    <3>2. CASE i # started + 1
      <4>1. status'[order[i]] = status[order[i]]
        BY <3>2, <2>2, <1>a, <1>b
      <4> QED
        BY <4>1, <2>a
    <3> QED
      BY <3>1, <3>2
  <2>4. \A c \in Component \ Ordered : status'[c] = "new"
    BY <2>1, <2>2, <1>a DEF Ordered
  <2> QED
    BY <2>1, <2>3, <2>4, <1>a DEF Ordered, TypeOK
<1>6. CASE AllStarted
  BY <1>6 DEF AllStarted, Ordered, compVars
<1>7. CASE StopBegins
  BY <1>7 DEF StopBegins, Ordered, compVars, TypeOK
<1>8. CASE DrainNext
  <2>1. /\ UNCHANGED <<order, started, status>> /\ Ordered' = Ordered
        /\ pc = "draining" /\ pc' = "draining" /\ cursor <= started /\ cursor' = cursor + 1
    BY <1>8 DEF DrainNext, Ordered, appVars, MoreToDrain, NextToDrain
  <2>2. cursor' \in 1..started + 1
    BY <2>1 DEF TypeOK
  <2> QED
    BY <2>1, <2>2
<1>9. CASE DelayEnds
  BY <1>9 DEF DelayEnds, Ordered, appVars, compVars, TypeOK, StopStarted
<1>10. CASE StopReturns
  <2>1. /\ order' = order /\ started' = started /\ cursor > 0 /\ cursor' = cursor - 1
        /\ pc = "stopping" /\ pc' = "stopping"
        /\ status' = [status EXCEPT ![order[cursor]] = "stopped"]
    BY <1>10 DEF StopReturns, appVars, NextToStop
  <2>2. /\ cursor \in 1..Len(order)
        /\ \A c \in Component : status'[c] = IF c = order[cursor] THEN "stopped" ELSE status[c]
    BY <2>1, <1>a DEF TypeOK
  <2>3. \A i \in 1..Len(order) : (status'[order[i]] = "up") <=> (i <= cursor - 1)
    BY <2>1, <2>2, <1>a, <1>b DEF TypeOK
  <2>4. \A c \in Component \ Ordered : status'[c] = "new"
    BY <2>1, <2>2, <1>a DEF Ordered
  <2> QED
    BY <2>1, <2>3, <2>4, <1>a DEF Ordered, TypeOK
<1>11. CASE AllStopped
  BY <1>11, <1>a DEF AllStopped, Ordered, compVars, TypeOK
<1> QED
  BY <1>1, <1>2, <1>3, <1>4, <1>5, <1>6, <1>7, <1>8, <1>9, <1>10, <1>11, StepCases DEF Works

-----------------------------------------------------------------------------
(* Rising                                                                   *)

\* Readiness comes up only when all that was added runs, and falls before the
\* first Component is drained, stopped or failed.
LEMMA RisingStep ==
    TypeOK /\ TypeOK' /\ OrderSorted /\ UpIsPrefix /\ UpIsPrefix' /\ Rising /\ [Next]_vars
        => Rising'
<1> SUFFICES ASSUME TypeOK, TypeOK', OrderSorted, UpIsPrefix, UpIsPrefix', Rising, [Next]_vars
             PROVE  Rising'
  OBVIOUS
<1> USE DEF Rising
<1>1. CASE Moves
  <2>1. UNCHANGED <<comps, order, started, ready, cursor, status, drained>>
    BY <1>1 DEF Moves
  <2>2. Ordered' = Ordered /\ Added' = Added /\ Live' = Live
    BY <2>1 DEF Ordered, Added, Live
  <2>3. \/ pc' \in {pc, "killed"}
        \/ pc = "setup" /\ pc' \in {"start", "stop"}
        \/ pc \in {"start", "draining", "unwound", "returned"} /\ pc' \notin {"setup", "start", "starting", "started", "handback"}
           /\ ~ready
        \/ pc = "started" /\ pc' \in {"handback", "stop"}
        \/ pc = "handback" /\ pc' = "stop"
    BY <1>1 DEF Moves, TypeOK
  <2> QED
    BY <2>1, <2>2, <2>3
<1>2. ASSUME NEW c \in Component, Add(c) PROVE Rising'
  BY <1>2 DEF Add, driverVars, compVars
<1>3. CASE BeginStart
  <2>1. PICK p \in [1..Len(comps) -> 1..Len(comps)] :
           StableSort(p) /\ order' = [i \in 1..Len(comps) |-> comps[p[i]]]
    BY <1>3 DEF BeginStart
  <2>2. \A k \in 1..Len(comps) : \E i \in 1..Len(comps) : p[i] = k
    BY <2>1 DEF StableSort
  <2>3. DOMAIN comps = 1..Len(comps) /\ Len(comps) \in Nat
    BY DEF TypeOK
  <2>4. DOMAIN order' = 1..Len(comps) /\ \A i \in 1..Len(comps) : order'[i] = comps[p[i]]
    BY <2>1
  <2>5. comps' = comps /\ pc' = "starting" /\ ready' = ready /\ status' = status /\ drained' = drained
    BY <1>3 DEF BeginStart, compVars
  <2>6. Ordered' = Added'
    <3>1. \A i \in 1..Len(comps) : p[i] \in 1..Len(comps)
      OBVIOUS
    <3>2. Ordered' = {order'[i] : i \in 1..Len(comps)} /\ Added' = {comps[i] : i \in 1..Len(comps)}
      BY <2>3, <2>4, <2>5 DEF Ordered, Added
    <3>3. \A c : c \in Ordered' => c \in Added'
      BY <3>1, <3>2, <2>4
    <3>4. \A c : c \in Added' => c \in Ordered'
      BY <3>2, <2>2, <2>4
    <3> QED
      BY <3>3, <3>4
  <2>7. Len(order') = Len(comps)
    BY <2>3, <2>4 DEF TypeOK
  <2> QED
    BY <2>5, <2>6, <2>7, <1>3 DEF BeginStart
<1>4. CASE StartReturns
  <2>1. /\ comps' = comps /\ order' = order /\ ready' = ready /\ drained' = drained
        /\ pc = "starting" /\ pc' = "starting"
        /\ status' = [status EXCEPT ![order[started + 1]] = "up"]
    BY <1>4 DEF StartReturns, driverVars
  <2>2. \A c \in Component : status'[c] \in {"new", "up"}
    BY <2>1 DEF TypeOK
  <2> QED
    BY <2>1, <2>2 DEF Ordered, Added
<1>5. CASE StartFails
  BY <1>5 DEF StartFails, BeginShutdown, StopStarted, FallUnready, CloseWatch, Closed
<1>6. CASE AllStarted
  <2>1. /\ comps' = comps /\ order' = order /\ started' = started /\ started = Len(order)
        /\ pc = "starting" /\ pc' = "started" /\ drained' = drained /\ status' = status
    BY <1>6 DEF AllStarted, compVars
  <2>2. \A c \in Component : status[c] = "up" <=> c \in Ordered
    BY <2>1 DEF UpIsPrefix, Top, Ordered, TypeOK
  <2>3. Ordered = Added /\ Added \subseteq Component
    BY <2>1, ElementOfSeq DEF TypeOK, Added
  <2>4. ready' /\ Live' = Added'
    BY <2>1, <2>2, <2>3, <1>6 DEF Live, Added, AllStarted
  <2> QED
    BY <2>1, <2>4 DEF Ordered, Added
<1>7. CASE StopBegins
  BY <1>7 DEF StopBegins, BeginShutdown, compVars, FallUnready, CloseWatch, Closed
<1>8. CASE DrainNext
  BY <1>8 DEF DrainNext, appVars, MoreToDrain, NextToDrain
<1>9. CASE DelayEnds
  BY <1>9 DEF DelayEnds, appVars, StopStarted
<1>10. CASE StopReturns
  BY <1>10 DEF StopReturns, appVars, NextToStop
<1>11. CASE AllStopped
  BY <1>11 DEF AllStopped
<1> QED
  BY <1>1, <1>2, <1>3, <1>4, <1>5, <1>6, <1>7, <1>8, <1>9, <1>10, <1>11, StepCases DEF Works

-----------------------------------------------------------------------------
(* Falling                                                                  *)

\* The Drainers drain one place at a time, and when the loop is through, the
\* whole order has been offered the chance.
LEMMA FallingStep ==
    TypeOK /\ TypeOK' /\ UpIsPrefix /\ UpIsPrefix' /\ Rising /\ Falling /\ [Next]_vars
        => Falling'
<1> SUFFICES ASSUME TypeOK, TypeOK', UpIsPrefix, UpIsPrefix', Rising, Falling, [Next]_vars
             PROVE  Falling'
  OBVIOUS
<1> USE DEF Falling
<1>a. /\ DOMAIN order = 1..Len(order) /\ Len(order) \in Nat
      /\ Ordered = {order[i] : i \in 1..Len(order)}
  BY DEF TypeOK, Ordered
<1>1. CASE Moves
  <2>1. /\ UNCHANGED <<order, started, ready, cursor, status, drained>>
        /\ Ordered' = Ordered /\ (Failed' <=> Failed)
    BY <1>1 DEF Moves, Ordered, Failed
  <2>2. CASE pc' \in {pc, "killed"}
    BY <2>1, <2>2
  <2>3. CASE pc \in {"setup", "start"}
    <3>1. started = 0 /\ Len(order) = 0 /\ drained = {} /\ ~Failed
      BY <2>3 DEF Rising, Failed
    <3>2. pc' \notin {"draining", "delay", "stopping"}
      BY <2>3, <1>1 DEF Moves
    <3> QED
      BY <2>1, <3>1, <3>2
  <2>4. CASE pc \in {"started", "handback"} /\ pc' \in {"handback", "stop"}
    BY <2>1, <2>4, <1>a DEF Rising, TypeOK, Failed
  <2>5. CASE pc = "draining" /\ ~(cursor <= started) /\ pc' = "delay"
    <3>1. cursor = started + 1
      BY <2>5 DEF UpIsPrefix, TypeOK
    <3>2. started = Len(order) => cursor - 1 = Len(order)
      BY <3>1 DEF TypeOK
    <3>3. ~Failed => drained = Ordered \cap Drainer
      BY <2>5, <3>2, <1>a
    <3> QED
      BY <2>1, <2>5, <3>3
  <2>6. CASE pc = "unwound" /\ pc' = "returned"
    BY <2>1, <2>6
  <2>7. CASE pc = "returned" /\ pc' = "stop"
    <3>1. started = 0
      BY <2>7 DEF UpIsPrefix
    <3>2. Len(order) = 0 => Ordered = {}
      BY <1>a
    <3> QED
      BY <2>1, <2>7, <3>1, <3>2
  <2> QED
    BY <1>1, <2>2, <2>3, <2>4, <2>5, <2>6, <2>7 DEF Moves
<1>2. ASSUME NEW c \in Component, Add(c) PROVE Falling'
  BY <1>2 DEF Add, Ordered, Failed, driverVars, compVars
<1>3. CASE BeginStart
  BY <1>3 DEF BeginStart, Rising, Failed, compVars
<1>4. CASE StartReturns
  BY <1>4 DEF StartReturns, Rising, Failed, Ordered, driverVars
<1>5. CASE StartFails
  <2>1. /\ order' = order /\ drained' = {} /\ pc' = "stopping"
        /\ started < Len(order)
        /\ status' = [status EXCEPT ![order[started + 1]] = "failed"]
    BY <1>5 DEF StartFails, Rising, StopStarted
  <2>2. order[started + 1] \in Component
    BY <2>1, ElementOfSeq DEF TypeOK
  <2>3. Failed'
    BY <2>1, <2>2 DEF Failed, TypeOK
  <2> QED
    BY <2>1, <2>3
<1>6. CASE AllStarted
  BY <1>6 DEF AllStarted, Ordered, Failed, compVars
<1>7. CASE StopBegins
  <2>1. /\ UNCHANGED <<order, started, status, drained>>
        /\ pc = "stop" /\ pc' = "draining" /\ cursor' = 1
        /\ Ordered' = Ordered /\ (Failed' <=> Failed)
    BY <1>7 DEF StopBegins, Ordered, Failed, compVars
  <2>2. {order[i] : i \in 1..cursor' - 1} = {}
    BY <2>1
  <2> QED
    BY <2>1, <2>2
<1>8. CASE DrainNext
  <2>1. /\ UNCHANGED <<order, started, status>>
        /\ pc = "draining" /\ pc' = "draining" /\ cursor <= started /\ cursor' = cursor + 1
        /\ drained' = IF order[cursor] \in Drainer THEN drained \cup {order[cursor]} ELSE drained
        /\ Ordered' = Ordered /\ (Failed' <=> Failed)
    BY <1>8 DEF DrainNext, Ordered, Failed, appVars, MoreToDrain, NextToDrain
  <2>2. cursor \in 1..Len(order) /\ started # 0
    BY <2>1 DEF UpIsPrefix, TypeOK
  <2>3. order[cursor] \in Ordered
    BY <2>2, <1>a
  <2>4. {order[i] : i \in 1..cursor} = {order[i] : i \in 1..cursor - 1} \cup {order[cursor]}
    <3>1. 1..cursor = (1..cursor - 1) \cup {cursor}
      BY <2>2
    <3> QED
      BY <3>1
  <2>5. cursor' - 1 = cursor
    BY <2>1 DEF TypeOK
  <2> QED
    BY <2>1, <2>2, <2>3, <2>4, <2>5
<1>9. CASE DelayEnds
  BY <1>9 DEF DelayEnds, Ordered, Failed, appVars, compVars, StopStarted
<1>10. CASE StopReturns
  <2>1. /\ UNCHANGED <<order, started, drained>>
        /\ pc = "stopping" /\ pc' = "stopping" /\ cursor > 0
        /\ status' = [status EXCEPT ![order[cursor]] = "stopped"]
        /\ Ordered' = Ordered
    BY <1>10 DEF StopReturns, Ordered, appVars, NextToStop
  <2>2. status[order[cursor]] = "up"
    <3>1. cursor \in 1..Len(order)
      BY <2>1 DEF UpIsPrefix, TypeOK
    <3>2. \A i \in 1..Len(order) : (status[order[i]] = "up") <=> (i <= cursor)
      BY <2>1, <1>a DEF UpIsPrefix, Top
    <3> QED
      BY <3>1, <3>2
  <2>3. Failed' <=> Failed
    BY <2>1, <2>2 DEF Failed, TypeOK
  <2> QED
    BY <2>1, <2>3
<1>11. CASE AllStopped
  BY <1>11 DEF AllStopped, Ordered, Failed, compVars
<1> QED
  BY <1>1, <1>2, <1>3, <1>4, <1>5, <1>6, <1>7, <1>8, <1>9, <1>10, <1>11, StepCases DEF Works

-----------------------------------------------------------------------------
(* Channels and AnnounceBeforeTeardown                                      *)

\* beginShutdown forgets the channel it closes, and only Start makes another.
LEMMA ChannelsStep == TypeOK /\ Channels /\ [Next]_vars => Channels'
<1> SUFFICES ASSUME TypeOK, Channels, [Next]_vars PROVE Channels'
  OBVIOUS
<1>1. CASE BeginStart
  BY <1>1 DEF BeginStart, Channels
<1>2. CASE BeginShutdown
  BY <1>2 DEF BeginShutdown, Channels, TypeOK, FallUnready, CloseWatch, Closed
<1>3. CASE UNCHANGED <<stopWatch, watchChan>>
  BY <1>3 DEF Channels
<1>4. BeginStart \/ BeginShutdown \/ UNCHANGED <<stopWatch, watchChan>>
  <2> USE DEF appVars
  <2>1. CASE Wiring
    BY <2>1 DEF Wiring, Add, CallRun, CallStart, CallStop
  <2>2. CASE Driver
    BY <2>2 DEF Driver, RejectDuplicates, AllStarted, WakeOnContext, WakeOnDeath,
         HandBackSignals, HandBackAfterFailure, StopBegins, DrainNext, AllDrained, DelayEnds,
         AllStopped, DeathReason, StopSignals, MoreToDrain, NextToDrain, StopStarted
  <2>3. CASE Calls
    BY <2>3 DEF Calls, StartReturns, StartFails, StopReturns, StopStarted, NextToStop
  <2>4. ASSUME NEW c \in Component, Watcher(c) PROVE UNCHANGED <<stopWatch, watchChan>>
    BY <2>4 DEF Watcher, WatcherTakesDeath, WatcherDismissed, WatcherForwards, Buffered
  <2>5. CASE World
    BY <2>5 DEF World, ComponentDies, BudgetExpires, CallerCancels, SignalArrives
  <2>6. CASE Finished \/ UNCHANGED vars
    BY <2>6 DEF Finished, vars
  <2> QED
    BY <2>1, <2>2, <2>3, <2>4, <2>5, <2>6 DEF Next
<1> QED
  BY <1>1, <1>2, <1>3, <1>4

\* The first Stop of a Component comes after the last Drain.
LEMMA AnnounceStep ==
    TypeOK /\ UpIsPrefix /\ Rising /\ Falling /\ AnnounceBeforeTeardown /\ [Next]_vars
        => AnnounceBeforeTeardown'
<1> SUFFICES ASSUME TypeOK, UpIsPrefix, Rising, Falling, AnnounceBeforeTeardown, [Next]_vars
             PROVE  AnnounceBeforeTeardown'
  OBVIOUS
<1> USE DEF AnnounceBeforeTeardown, Failed
<1>a. /\ DOMAIN order = 1..Len(order) /\ Len(order) \in Nat
      /\ \A i \in 1..Len(order) : order[i] \in Component
  BY ElementOfSeq DEF TypeOK
<1>1. CASE UNCHANGED <<order, status, drained>>
  BY <1>1 DEF Ordered
<1>2. CASE BeginStart
  BY <1>2 DEF BeginStart, Rising, compVars
<1>3. CASE StartReturns
  <2>1. pc = "starting" /\ drained' = drained /\ status' = [status EXCEPT ![order[started + 1]] = "up"]
    BY <1>3 DEF StartReturns
  <2>2. drained' = {} /\ \A c \in Component : status'[c] \in {"new", "up"}
    BY <2>1 DEF Rising, TypeOK
  <2> QED
    BY <2>2
<1>4. CASE StartFails
  <2>1. /\ pc = "starting" /\ drained' = drained /\ started < Len(order)
        /\ status' = [status EXCEPT ![order[started + 1]] = "failed"]
    BY <1>4 DEF StartFails, StopStarted
  <2>2. order[started + 1] \in Component
    BY <2>1, <1>a DEF TypeOK
  <2>3. status'[order[started + 1]] = "failed"
    BY <2>1, <2>2 DEF TypeOK
  <2>4. drained' = {}
    BY <2>1 DEF Rising
  <2> QED
    BY <2>2, <2>3, <2>4
<1>5. CASE DrainNext
  <2>1. /\ pc = "draining" /\ cursor <= started /\ cursor \in 1..started + 1
        /\ started <= Len(order) /\ status' = status
    BY <1>5 DEF DrainNext, UpIsPrefix, MoreToDrain, NextToDrain
  <2>2. ~Failed /\ started # 0
    BY <2>1 DEF Falling, TypeOK
  <2>3. ~ \E c \in Component : status[c] = "stopped"
    <3>1. started = Len(order) \/ started = 0
      BY <2>1, <2>2 DEF Falling
    <3>2. \A i \in 1..Len(order) : status[order[i]] = "up"
      BY <2>1, <2>2, <3>1, <1>a DEF UpIsPrefix, Top
    <3>3. \A c \in Component : c \in Ordered \/ status[c] = "new"
      BY DEF UpIsPrefix
    <3> QED
      BY <3>2, <3>3, <1>a DEF Ordered
  <2> QED
    BY <2>1, <2>2, <2>3
<1>6. CASE StopReturns
  <2>1. /\ pc = "stopping" /\ cursor > 0 /\ drained' = drained /\ order' = order
        /\ status' = [status EXCEPT ![order[cursor]] = "stopped"]
    BY <1>6 DEF StopReturns, appVars, NextToStop
  <2>2. cursor \in 1..Len(order)
    BY <2>1 DEF UpIsPrefix, TypeOK
  <2>3. \A i \in 1..Len(order) : (status[order[i]] = "up") <=> (i <= cursor)
    BY <2>1, <1>a DEF UpIsPrefix, Top
  <2>4. Failed' <=> Failed
    BY <2>1, <2>2, <2>3, <1>a DEF TypeOK
  <2> QED
    BY <2>1, <2>4 DEF Falling, Ordered
<1>7. \/ UNCHANGED <<order, status, drained>> \/ BeginStart \/ StartReturns \/ StartFails
      \/ DrainNext \/ StopReturns
  BY StepCases DEF Works, Moves, Add, AllStarted, StopBegins, DelayEnds, AllStopped, appVars,
       compVars, StopStarted
<1> QED
  BY <1>1, <1>2, <1>3, <1>4, <1>5, <1>6, <1>7

-----------------------------------------------------------------------------
(* The inductive invariant and what follows from it.                        *)

\* An App that has nothing yet.
LEMMA InitIInv == Init => IInv
<1> SUFFICES ASSUME Init PROVE IInv
  OBVIOUS
<1>1. TypeOK
  BY InitType
<1>2. DOMAIN order = {} /\ DOMAIN comps = {} /\ Len(order) = 0 /\ Ordered = {} /\ Added = {}
  BY DEF Init, Ordered, Added
<1>3. \A c \in Component : status[c] = "new"
  BY DEF Init
<1> QED
  BY <1>1, <1>2, <1>3 DEF Init, IInv, OrderSorted, UpIsPrefix, Rising, Falling, Channels,
                          AnnounceBeforeTeardown, Failed

\* Every step of the App keeps each of its parts.
LEMMA IInvStep == IInv /\ [Next]_vars => IInv'
BY TypeStep, SortedStep, PrefixStep, RisingStep, FallingStep, ChannelsStep, AnnounceStep DEF IInv

\* IInv holds at first and every step keeps it.
THEOREM Invariance == Spec => []IInv
BY InitIInv, IInvStep, PTL DEF Spec

\* Every variable of the App, the driver, the contexts, the Components and the
\* watchers keeps its type.
THEOREM TypeCorrect == Spec => []TypeOK
<1>1. IInv => TypeOK
  BY DEF IInv
<1> QED
  BY <1>1, Invariance, PTL

\* Whatever is added in whatever order, a Component never runs without those of
\* the Tiers below it.
THEOREM DependenciesAlwaysOutlive == Spec => []DependenciesOutlive
<1>1. IInv => DependenciesOutlive
  <2> SUFFICES ASSUME IInv, NEW c \in Ordered, NEW d \in Ordered,
                      Tier[c] < Tier[d], status[d] = "up"
               PROVE  status[c] = "up"
    BY DEF DependenciesOutlive
  <2>1. PICK i \in DOMAIN order, j \in DOMAIN order : c = order[i] /\ d = order[j]
    BY DEF Ordered
  <2>2. i \in Nat /\ j \in Nat /\ Tier[c] \in Nat /\ Tier[d] \in Nat
    BY <2>1, ElementOfSeq, LifecycleAssumption DEF IInv, TypeOK
  <2>3. i < j
    BY <2>1, <2>2 DEF IInv, OrderSorted
  <2> QED
    BY <2>1, <2>3 DEF IInv, UpIsPrefix
<1> QED
  BY <1>1, Invariance, PTL

\* Ready is true only while all that was added runs and nothing is drained.
THEOREM ReadyAlwaysMeansAllUp == Spec => []ReadyMeansAllUp
<1>1. IInv => ReadyMeansAllUp
  BY DEF IInv, Rising, ReadyMeansAllUp, Failed
<1> QED
  BY <1>1, Invariance, PTL

\* No Component is stopped before every Drainer has drained.
THEOREM AlwaysAnnounceBeforeTeardown == Spec => []AnnounceBeforeTeardown
<1>1. IInv => AnnounceBeforeTeardown
  BY DEF IInv
<1> QED
  BY <1>1, Invariance, PTL

\* Stop is called on running Components only.
THEOREM OnlyRunningAreStopped == Spec => []StopsOnlyRunning
<1>1. IInv => StopsOnlyRunning
  <2> SUFFICES ASSUME IInv, pc = "stopping", cursor > 0 PROVE status[order[cursor]] = "up"
    BY DEF StopsOnlyRunning
  <2>1. cursor \in 1..Len(order) /\ DOMAIN order = 1..Len(order)
    BY DEF IInv, TypeOK, UpIsPrefix
  <2>2. \A i \in DOMAIN order : (status[order[i]] = "up") <=> (i <= cursor)
    BY DEF IInv, UpIsPrefix, Top
  <2> QED
    BY <2>1, <2>2
<1> QED
  BY <1>1, Invariance, PTL

\* An App that has handed control back runs nothing.
THEOREM NothingStaysRunning == Spec => []NothingLeftRunning
<1>1. IInv => NothingLeftRunning
  <2> SUFFICES ASSUME IInv, pc = "returned", NEW c \in Component PROVE status[c] # "up"
    BY DEF NothingLeftRunning, Live
  <2>1. \A i \in DOMAIN order : status[order[i]] # "up"
    BY DEF IInv, TypeOK, UpIsPrefix, Top
  <2> QED
    BY <2>1 DEF IInv, UpIsPrefix, Ordered
<1> QED
  BY <1>1, Invariance, PTL

\* No number of Stops closes stopWatch twice.
THEOREM NeverClosedTwice == Spec => []NoDoubleClose
<1>1. IInv => NoDoubleClose
  BY DEF IInv, Channels, NoDoubleClose
<1> QED
  BY <1>1, Invariance, PTL

\* Whoever drains second started second.
THEOREM AlwaysDrainsInStartOrder == Spec => []DrainsInStartOrder
<1>1. Init => DrainsInStartOrder
  BY DEF Init, DrainsInStartOrder
<1>2. IInv /\ IInv' /\ DrainsInStartOrder /\ [Next]_vars => DrainsInStartOrder'
  <2> SUFFICES ASSUME IInv, IInv', DrainsInStartOrder, [Next]_vars PROVE DrainsInStartOrder'
    OBVIOUS
  <2>1. CASE UNCHANGED <<order, drained>>
    BY <2>1 DEF DrainsInStartOrder
  <2>2. CASE BeginStart
    BY <2>2 DEF BeginStart, IInv, Rising, DrainsInStartOrder, compVars
  <2>3. CASE DrainNext
    <3>1. /\ UNCHANGED <<order, started, status>> /\ pc = "draining" /\ pc' = "draining"
          /\ cursor <= started /\ cursor' = cursor + 1
      BY <2>3 DEF DrainNext, appVars, MoreToDrain, NextToDrain
    <3>2. started = Len(order) /\ ~Failed' /\ cursor \in Nat
      BY <3>1 DEF IInv, TypeOK, UpIsPrefix, Falling, Failed
    <3>3. drained' = {order[i] : i \in 1..cursor} \cap Drainer
      BY <3>1, <3>2 DEF IInv, Falling
    <3>4. \A i, j \in DOMAIN order : i < j => order[i] # order[j]
      BY DEF IInv, OrderSorted
    <3> SUFFICES ASSUME NEW i \in DOMAIN order, NEW j \in DOMAIN order, i < j,
                        order[i] \in Drainer, order[j] \in drained'
                 PROVE  order[i] \in drained'
      BY <3>1 DEF DrainsInStartOrder
    <3>5. PICK k \in 1..cursor : order[j] = order[k]
      BY <3>3
    <3>6. DOMAIN order = 1..Len(order) /\ Len(order) \in Nat
      BY DEF IInv, TypeOK
    <3>7. j = k
      BY <3>1, <3>2, <3>4, <3>5, <3>6
    <3>8. i \in 1..cursor
      BY <3>2, <3>6, <3>7
    <3> QED
      BY <3>3, <3>8
  <2>4. UNCHANGED <<order, drained>> \/ BeginStart \/ DrainNext
    BY StepCases DEF Works, Moves, Add, StartReturns, StartFails, AllStarted, StopBegins,
         DelayEnds, StopReturns, AllStopped, appVars, compVars, StopStarted, NextToStop
  <2> QED
    BY <2>1, <2>2, <2>3, <2>4
<1> QED
  BY <1>1, <1>2, Invariance, PTL DEF Spec

-----------------------------------------------------------------------------
(* What Run promises about the delay, the signals and the cause.            *)

\* A failed start stays one: nothing overwrites the status of the Component
\* that failed.
LEMMA FailedStays == IInv /\ [Next]_vars /\ Failed => Failed'
<1> SUFFICES ASSUME IInv, [Next]_vars, Failed PROVE Failed'
  OBVIOUS
<1> USE DEF Failed
<1>1. PICK f \in Component : status[f] = "failed"
  OBVIOUS
<1>2. status \in [Component -> {"new", "up", "stopped", "failed"}]
  BY DEF IInv, TypeOK
<1>3. CASE StartReturns
  BY <1>1, <1>3 DEF IInv, Rising, StartReturns
<1>4. CASE StartFails
  BY <1>1, <1>4 DEF IInv, Rising, StartFails
<1>5. CASE StopReturns
  <2>1. order[cursor] \in Component /\ status[order[cursor]] = "up"
    <3>1. cursor \in DOMAIN order
      BY <1>5 DEF StopReturns, IInv, UpIsPrefix, TypeOK
    <3>2. order[cursor] \in Component
      BY <3>1, ElementOfSeq DEF IInv, TypeOK
    <3> QED
      BY <1>5, <3>1, <3>2 DEF StopReturns, IInv, UpIsPrefix, Top, TypeOK
  <2>2. status' = [status EXCEPT ![order[cursor]] = "stopped"]
    BY <1>5 DEF StopReturns, NextToStop
  <2> QED
    BY <1>1, <1>2, <2>1, <2>2
<1>6. CASE Moves
  BY <1>1, <1>6 DEF Moves
<1> QED
  BY <1>1, <1>3, <1>4, <1>5, <1>6, StepCases
     DEF Works, Add, BeginStart, AllStarted, StopBegins, DrainNext, DelayEnds, AllStopped,
         compVars

\* Run is entered from the set-up and never left for another mode.
LEMMA ModeFrame ==
    [Next]_vars /\ mode' = "run" => mode = "run" \/ pc' = "start"
BY DEF Next, Wiring, Driver, Calls, Watcher, World, Add, CallRun, CallStart, CallStop,
       RejectDuplicates, BeginStart, StartReturns, StartFails, AllStarted, WakeOnContext,
       WakeOnDeath, HandBackSignals, HandBackAfterFailure, StopBegins, DrainNext, AllDrained,
       DelayEnds, StopReturns, AllStopped, WatcherTakesDeath, WatcherDismissed,
       WatcherForwards, ComponentDies, BudgetExpires, CallerCancels, SignalArrives, Finished,
       vars, appVars, driverVars, contextVars, compVars

\* Only the end of the delay says how it ended.
LEMMA DelayFrame == [Next]_vars => DelayEnds \/ delay' = delay
BY DEF Next, Wiring, Driver, Calls, Watcher, World, Add, CallRun, CallStart, CallStop,
       RejectDuplicates, BeginStart, StartReturns, StartFails, AllStarted, WakeOnContext,
       WakeOnDeath, HandBackSignals, HandBackAfterFailure, StopBegins, DrainNext, AllDrained,
       StopReturns, AllStopped, WatcherTakesDeath, WatcherDismissed,
       WatcherForwards, ComponentDies, BudgetExpires, CallerCancels, SignalArrives, Finished,
       vars, appVars, driverVars, contextVars, compVars

\* A failed start leaves a failed Component behind.
LEMMA StartFailsFails == IInv /\ StartFails => Failed'
<1> SUFFICES ASSUME IInv, StartFails PROVE Failed'
  OBVIOUS
<1>1. started + 1 \in DOMAIN order
  BY DEF StartFails, IInv, TypeOK
<1>2. order[started + 1] \in Component
  BY <1>1, ElementOfSeq DEF IInv, TypeOK
<1>3. status' = [status EXCEPT ![order[started + 1]] = "failed"]
  BY DEF StartFails
<1> QED
  BY <1>2, <1>3 DEF Failed, IInv, TypeOK

\* Teardown begins with a failed start or with the end of the delay.
LEMMA TeardownFrame ==
    IInv /\ [Next]_vars /\ pc' = "stopping" => pc = "stopping" \/ StartFails \/ DelayEnds
BY StepCases
   DEF Works, Moves, Add, BeginStart, StartReturns, AllStarted, StopBegins, DrainNext,
       StopReturns, AllStopped, appVars, driverVars, contextVars, compVars, IInv, TypeOK

\* Run waits out the whole drain delay, since nothing can cancel the context it
\* hands to Stop (app.go:243).
THEOREM RunAlwaysWaitsOutTheDelay == Spec => []RunWaitsOutTheDelay
<1>1. Init => RunWaitsOutTheDelay
  BY DEF Init, RunWaitsOutTheDelay
<1>2. IInv /\ RunWaitsOutTheDelay /\ [Next]_vars => RunWaitsOutTheDelay'
  <2> SUFFICES ASSUME IInv, RunWaitsOutTheDelay, [Next]_vars,
                      mode' = "run", pc' = "stopping", ~Failed'
               PROVE  delay' = "full"
    BY DEF RunWaitsOutTheDelay
  <2>1. mode = "run" /\ ~Failed
    BY ModeFrame, FailedStays
  <2>2. CASE DelayEnds
    BY <2>1, <2>2 DEF DelayEnds, StopParentDone
  <2>3. CASE pc = "stopping"
    BY <2>1, <2>3, DelayFrame DEF DelayEnds, RunWaitsOutTheDelay
  <2> QED
    BY <2>2, <2>3, TeardownFrame, StartFailsFails
<1> QED
  BY <1>1, <1>2, Invariance, PTL DEF Spec

\* Only CallRun captures the signals.
LEMMA SignalsFrame == [Next]_vars => signals' \in {signals, "default"} \/ pc' = "start"
BY DEF Next, Wiring, Driver, Calls, Watcher, World, Add, CallRun, CallStart, CallStop,
       RejectDuplicates, BeginStart, StartReturns, StartFails, AllStarted, WakeOnContext,
       WakeOnDeath, HandBackSignals, HandBackAfterFailure, StopBegins, DrainNext, AllDrained,
       DelayEnds, StopReturns, AllStopped, WatcherTakesDeath, WatcherDismissed,
       WatcherForwards, ComponentDies, BudgetExpires, CallerCancels, SignalArrives, Finished,
       vars, appVars, driverVars, contextVars, compVars, StopSignals, StopStarted

Leaving == {"stop", "draining", "delay", "stopping"}

\* A shutdown is entered by handing the signals back, by a caller that does not
\* use Run, or by a failed start.
LEMMA LeavingFrame ==
    IInv /\ [Next]_vars /\ pc' \in Leaving =>
        pc \in Leaving \/ HandBackSignals \/ mode' = "manual" \/ StartFails
BY DEF Leaving, Next, Wiring, Driver, Calls, Watcher, World, Add, CallRun, CallStart, CallStop,
       RejectDuplicates, BeginStart, StartReturns, AllStarted, WakeOnContext,
       WakeOnDeath, HandBackAfterFailure, StopBegins, DrainNext, AllDrained,
       DelayEnds, StopReturns, AllStopped, WatcherTakesDeath, WatcherDismissed,
       WatcherForwards, ComponentDies, BudgetExpires, CallerCancels, SignalArrives, Finished,
       vars, appVars, driverVars, contextVars, compVars, StopSignals, StopStarted

\* While Run shuts down, the signals are back with the runtime, so a second one
\* kills the process (app.go:239-240).
THEOREM SecondSignalAlwaysKills == Spec => []SecondSignalKills
<1>1. Init => SecondSignalKills
  BY DEF Init, SecondSignalKills
<1>2. IInv /\ SecondSignalKills /\ [Next]_vars => SecondSignalKills'
  <2> SUFFICES ASSUME IInv, SecondSignalKills, [Next]_vars,
                      mode' = "run", ~Failed', pc' \in Leaving
               PROVE  signals' = "default"
    BY DEF SecondSignalKills, Leaving
  <2>1. mode = "run" /\ ~Failed
    BY ModeFrame, FailedStays DEF Leaving
  <2>2. CASE HandBackSignals
    BY <2>2 DEF HandBackSignals, StopSignals
  <2>3. CASE pc \in Leaving
    BY <2>1, <2>3, SignalsFrame DEF SecondSignalKills, Leaving
  <2> QED
    BY <2>2, <2>3, LeavingFrame, StartFailsFails
<1> QED
  BY <1>1, <1>2, Invariance, PTL DEF Spec

\* Every death on its way to Run was taken from a Component that reported one.
Taken ==
    /\ errc \in [Component -> {"empty", "full", "taken"}]
    /\ death \in Component \cup {NoOne}
    /\ death # NoOne => errc[death] = "taken"
    /\ \A c \in Component : watcher[c] = "holding" => errc[c] = "taken"

Reason(e) ==
    e[1] \in {"duplicate", "start"} \/ (e[1] = "died" /\ e[2] \in Component /\ errc[e[2]] = "taken")

Cause == \E e \in errs : Reason(e)

Knowing == Leaving \cup {"handback", "unwound", "returned"}

\* Once Run is past its wait, or its Start has failed, it knows why.
CauseKnown == mode = "run" /\ pc \in Knowing => signalled \/ callerDone \/ Cause

\* Taken deaths stay taken, and a watcher forwards only what it took.
LEMMA TakenStep == IInv /\ Taken /\ [Next]_vars => Taken'
<1> SUFFICES ASSUME IInv, Taken, [Next]_vars PROVE Taken'
  OBVIOUS
<1> USE DEF Taken, appVars, driverVars, contextVars, compVars
<1>1. CASE UNCHANGED <<death, errc, watcher>>
  BY <1>1
<1>2. CASE BeginStart
  BY <1>2 DEF BeginStart
<1>3. CASE StartReturns
  <2>1. watcher' \in [Component -> {"none", "watching", "holding", "gone"}]
    BY TypeStep DEF IInv, TypeOK
  <2>2. \A c \in Component : watcher'[c] = "holding" => watcher[c] = "holding"
    BY <1>3, <2>1 DEF StartReturns, IInv, TypeOK
  <2> QED
    BY <1>3, <2>2 DEF StartReturns
<1>4. CASE WakeOnDeath
  BY <1>4 DEF WakeOnDeath
<1>5. ASSUME NEW c \in Component, Watcher(c) PROVE Taken'
  <2>1. CASE WatcherTakesDeath(c)
    BY <2>1 DEF WatcherTakesDeath, IInv, TypeOK
  <2>2. CASE WatcherDismissed(c)
    BY <2>2 DEF WatcherDismissed, IInv, TypeOK
  <2>3. CASE WatcherForwards(c)
    BY <2>3 DEF WatcherForwards, Buffered, IInv, TypeOK
  <2> QED
    BY <1>5, <2>1, <2>2, <2>3 DEF Watcher
<1>6. ASSUME NEW c \in Component, ComponentDies(c) PROVE Taken'
  BY <1>6 DEF ComponentDies, IInv, TypeOK
<1> QED
  BY <1>1, <1>2, <1>3, <1>4, <1>5, <1>6
     DEF Next, Wiring, Driver, Calls, World, Add, CallRun, CallStart, CallStop,
         RejectDuplicates, StartFails, AllStarted, WakeOnContext, HandBackSignals,
         HandBackAfterFailure, StopBegins, DrainNext, AllDrained, DelayEnds, StopReturns,
         AllStopped, BudgetExpires, CallerCancels, SignalArrives, Finished, vars

\* What Run knows it goes on knowing: errors are only added, and neither a
\* signal nor the end of the caller's context is taken back.
LEMMA KnownFrame ==
    IInv /\ [Next]_vars =>
        errs \subseteq errs' /\ (signalled => signalled') /\ (callerDone => callerDone')
        /\ (\A c \in Component : errc[c] = "taken" => errc'[c] = "taken")
BY DEF Next, Wiring, Driver, Calls, Watcher, World, Add, CallRun, CallStart, CallStop,
       RejectDuplicates, BeginStart, StartReturns, StartFails, AllStarted, WakeOnContext,
       WakeOnDeath, HandBackSignals, HandBackAfterFailure, StopBegins, DrainNext, AllDrained,
       DelayEnds, StopReturns, AllStopped, WatcherTakesDeath, WatcherDismissed,
       WatcherForwards, ComponentDies, BudgetExpires, CallerCancels, SignalArrives, Finished,
       vars, appVars, driverVars, contextVars, compVars, StopSignals, StopStarted,
       NextToStop, DeathReason, IInv, TypeOK

\* ... so a reason stays a reason.
LEMMA KnownStays ==
    IInv /\ [Next]_vars /\ (signalled \/ callerDone \/ Cause)
        => signalled' \/ callerDone' \/ Cause'
<1> SUFFICES ASSUME IInv, [Next]_vars, Cause PROVE Cause'
  BY KnownFrame
<1>1. PICK e \in errs : Reason(e)
  BY DEF Cause
<1>2. e \in errs' /\ Reason(e)'
  BY <1>1, KnownFrame DEF Reason
<1> QED
  BY <1>2 DEF Cause

\* Run leaves its wait on its context or on a death, and its Start on an error.
LEMMA KnowingFrame ==
    IInv /\ [Next]_vars /\ pc' \in Knowing =>
        \/ pc \in Knowing \/ mode' = "manual"
        \/ RejectDuplicates \/ StartFails \/ WakeOnContext \/ WakeOnDeath
BY DEF Knowing, Leaving, Next, Wiring, Driver, Calls, Watcher, World, Add, CallRun, CallStart,
       CallStop, BeginStart, StartReturns, AllStarted, HandBackSignals,
       HandBackAfterFailure, StopBegins, DrainNext, AllDrained,
       DelayEnds, StopReturns, AllStopped, WatcherTakesDeath, WatcherDismissed,
       WatcherForwards, ComponentDies, BudgetExpires, CallerCancels, SignalArrives, Finished,
       vars, appVars, driverVars, contextVars, compVars, StopSignals, StopStarted

\* Each way in brings its reason along.
LEMMA CauseStep == IInv /\ Taken /\ CauseKnown /\ [Next]_vars => CauseKnown'
<1> SUFFICES ASSUME IInv, Taken, CauseKnown, [Next]_vars, mode' = "run", pc' \in Knowing
             PROVE  signalled' \/ callerDone' \/ Cause'
  BY DEF CauseKnown
<1>1. CASE pc \in Knowing
  <2>1. mode = "run"
    BY ModeFrame DEF Knowing, Leaving
  <2>2. signalled \/ callerDone \/ Cause
    BY <1>1, <2>1 DEF CauseKnown
  <2> QED
    BY <2>2, KnownStays
<1>2. CASE RejectDuplicates
  <2>1. <<"duplicate", NoOne>> \in errs'
    BY <1>2 DEF RejectDuplicates
  <2> QED
    BY <2>1 DEF Cause, Reason
<1>3. CASE StartFails
  <2>1. <<"start", order[started + 1]>> \in errs'
    BY <1>3 DEF StartFails
  <2> QED
    BY <2>1 DEF Cause, Reason
<1>4. CASE WakeOnContext
  BY <1>4 DEF WakeOnContext, RunCtxDone, contextVars
<1>5. CASE WakeOnDeath
  <2>1. <<"died", death>> \in errs' /\ death \in Component /\ errc'[death] = "taken"
    BY <1>5 DEF WakeOnDeath, DeathReason, Taken, compVars
  <2> QED
    BY <2>1 DEF Cause, Reason
<1> QED
  BY <1>1, <1>2, <1>3, <1>4, <1>5, KnowingFrame

\* A Run that nobody asked to end returns what ended it (app.go:231-232).
THEOREM CauseAlwaysReported == Spec => []CauseReported
<1>1. Init => Taken /\ CauseKnown
  BY DEF Init, Taken, CauseKnown, Knowing, Leaving
<1>2. IInv /\ Taken /\ CauseKnown /\ [Next]_vars => (Taken /\ CauseKnown)'
  BY TakenStep, CauseStep
<1>3. Taken /\ CauseKnown => CauseReported
  <2> SUFFICES ASSUME CauseKnown, pc = "returned", mode = "run", ~signalled, ~callerDone
               PROVE  Cause
    BY DEF CauseReported, Cause, Reason
  <2> QED
    BY DEF CauseKnown, Knowing
<1> QED
  BY <1>1, <1>2, <1>3, Invariance, PTL DEF Spec

\* Start, drain and stop keep the order of the App in every state.
THEOREM OrderAlwaysKept == Spec => []OrderKept
<1>1. ReadyMeansAllUp /\ DependenciesOutlive /\ AnnounceBeforeTeardown /\ DrainsInStartOrder
        /\ StopsOnlyRunning => OrderKept
  BY DEF OrderKept
<1> QED
  BY <1>1, ReadyAlwaysMeansAllUp, DependenciesAlwaysOutlive, AlwaysAnnounceBeforeTeardown,
     AlwaysDrainsInStartOrder, OnlyRunningAreStopped, PTL

\* An App that has returned runs nothing, and no Stop panics.
THEOREM AlwaysStopsClean == Spec => []StopsClean
<1>1. NothingLeftRunning /\ NoDoubleClose => StopsClean
  BY DEF StopsClean
<1> QED
  BY <1>1, NothingStaysRunning, NeverClosedTwice, PTL

\* Run reports its cause, waits out the delay and leaves signals to the process.
THEOREM RunAlwaysAsPromised == Spec => []RunAsPromised
<1>1. CauseReported /\ RunWaitsOutTheDelay /\ SecondSignalKills => RunAsPromised
  BY DEF RunAsPromised
<1> QED
  BY <1>1, CauseAlwaysReported, RunAlwaysWaitsOutTheDelay, SecondSignalAlwaysKills, PTL

-----------------------------------------------------------------------------
(* Refinement                                                               *)

\* The driver starts the Component above everything that runs.
LEMMA GrowStep == IInv /\ StartReturns => Contract!Next
<1> SUFFICES ASSUME IInv, StartReturns PROVE \E c \in Component : Contract!Grow(c)
  BY DEF Contract!Next
<1> DEFINE c == order[started + 1]
<1>1. /\ order' = order /\ pc = "starting" /\ pc' = "starting" /\ started < Len(order)
      /\ status' = [status EXCEPT ![c] = "up"]
  BY DEF StartReturns, driverVars
<1>2. DOMAIN order = 1..Len(order) /\ started \in Nat /\ Len(order) \in Nat
  BY DEF IInv, TypeOK
<1>3. c \in Component /\ started + 1 \in DOMAIN order
  BY <1>1, <1>2, ElementOfSeq DEF IInv, TypeOK
<1>4. \A i \in DOMAIN order : (status[order[i]] = "up") <=> (i <= started)
  BY <1>1 DEF IInv, UpIsPrefix, Top
<1>5. c \notin Live /\ Live' = Live \cup {c}
  BY <1>1, <1>2, <1>3, <1>4 DEF Live, IInv, TypeOK
<1>6. ASSUME NEW d \in Live PROVE Tier[d] <= Tier[c]
  <2>1. d \in Ordered
    BY DEF Live, IInv, UpIsPrefix
  <2>2. PICK i \in DOMAIN order : d = order[i]
    BY <2>1 DEF Ordered
  <2>3. i < started + 1
    BY <2>2, <1>2, <1>4 DEF Live
  <2> QED
    BY <2>2, <2>3, <1>3 DEF IInv, OrderSorted
<1>7. phase = "starting" /\ phase' = "starting"
  BY <1>1 DEF phase
<1> QED
  BY <1>3, <1>5, <1>6, <1>7 DEF Contract!Grow, Contract!OnTop

\* It stops the one on top.
LEMMA ShrinkStep == IInv /\ StopReturns => Contract!Next
<1> SUFFICES ASSUME IInv, StopReturns PROVE \E c \in Component : Contract!Shrink(c)
  BY DEF Contract!Next
<1> DEFINE c == order[cursor]
<1>1. /\ order' = order /\ pc = "stopping" /\ pc' = "stopping" /\ cursor > 0
      /\ status' = [status EXCEPT ![c] = "stopped"]
  BY DEF StopReturns, appVars, NextToStop
<1>2. DOMAIN order = 1..Len(order) /\ cursor \in 1..Len(order)
  BY <1>1 DEF IInv, TypeOK, UpIsPrefix
<1>3. c \in Component /\ cursor \in DOMAIN order
  BY <1>1, <1>2, ElementOfSeq DEF IInv, TypeOK
<1>4. \A i \in DOMAIN order : (status[order[i]] = "up") <=> (i <= cursor)
  BY <1>1 DEF IInv, UpIsPrefix, Top
<1>a. status[c] = "up"
  BY <1>2, <1>3, <1>4
<1>b. \A d \in Component : status'[d] = IF d = c THEN "stopped" ELSE status[d]
  BY <1>1, <1>3 DEF IInv, TypeOK
<1>5. c \in Live /\ Live' = Live \ {c}
  BY <1>3, <1>a, <1>b DEF Live
<1>6. ASSUME NEW d \in Live PROVE Tier[d] <= Tier[c]
  <2>1. d \in Ordered
    BY DEF Live, IInv, UpIsPrefix
  <2>2. PICK i \in DOMAIN order : d = order[i]
    BY <2>1 DEF Ordered
  <2>3. i <= cursor
    BY <2>2, <1>4 DEF Live
  <2>4. Tier[c] \in Nat
    BY <1>3, LifecycleAssumption
  <2> QED
    BY <2>2, <2>3, <2>4, <1>2, <1>3 DEF IInv, OrderSorted
<1>7. phase = "stopping" /\ phase' = "stopping"
  BY <1>1 DEF phase
<1> QED
  BY <1>3, <1>5, <1>6, <1>7 DEF Contract!Shrink, Contract!OnTop

\* Every behaviour of the App is one AppContract allows.
THEOREM Refinement == Spec => Implements
<1>1. Init => Contract!Init
  BY DEF Init, Contract!Init, phase, Live
<1>2. IInv /\ IInv' /\ [Next]_vars => [Contract!Next]_Contract!vars
  <2> SUFFICES ASSUME IInv, IInv', [Next]_vars PROVE [Contract!Next]_Contract!vars
    OBVIOUS
  <2> USE DEF Contract!Next, Contract!vars, phase
  <2>1. CASE Moves
    <3>1. UNCHANGED <<Live, ready>>
      BY <2>1 DEF Moves, Live
    <3>2. pc \in {"setup", "start", "started", "handback", "draining", "unwound", "returned"}
             \/ pc' \in {pc, "killed"}
      BY <2>1 DEF Moves
    <3>3. CASE pc' = pc
      BY <3>1, <3>3
    <3>4. CASE pc' = "killed" /\ pc # "killed"
      BY <3>1, <3>4 DEF Contract!Kill, IInv, TypeOK, PC
    <3>5. CASE pc \in {"setup", "start"} /\ pc' \in {"start", "stop", "unwound", "returned"}
      <4>1. ~ready
        BY <3>5 DEF IInv, Rising
      <4>2. phase = "idle" /\ phase' \in {"idle", "over"}
        BY <3>1, <3>5, <4>1
      <4> QED
        BY <3>1, <4>2 DEF Contract!Refuse
    <3>6. CASE pc \in {"started", "handback"} /\ pc' \in {"handback", "stop"}
      <4>1. ready /\ ready'
        BY <3>1, <3>6 DEF IInv, Rising
      <4>2. phase = "serving" /\ phase' = "serving"
        BY <3>6, <4>1
      <4> QED
        BY <3>1, <4>2
    <3>7. CASE pc = "draining" /\ pc' = "delay"
      BY <3>1, <3>7
    <3>8. CASE pc \in {"unwound", "returned"} /\ pc' \in {"returned", "stop"}
      <4>1. ~ready'
        BY <3>1, <3>8 DEF IInv, Rising
      <4> QED
        BY <3>1, <3>8, <4>1
    <3> QED
      BY <2>1, <3>1, <3>3, <3>4, <3>5, <3>6, <3>7, <3>8 DEF Moves
  <2>2. ASSUME NEW c \in Component, Add(c) PROVE [Contract!Next]_Contract!vars
    BY <2>2 DEF Add, Live, driverVars, compVars
  <2>3. CASE BeginStart
    BY <2>3 DEF BeginStart, Live, Contract!Begin, compVars
  <2>4. CASE StartReturns
    BY <2>4, GrowStep
  <2>5. CASE StartFails
    <3>1. pc = "starting" /\ pc' = "stopping"
      BY <2>5 DEF StartFails, StopStarted
    <3>2. Live' = Live
      BY <2>5 DEF StartFails, Live, IInv, TypeOK, Rising, UpIsPrefix, Top, StopStarted
    <3> QED
      BY <3>1, <3>2 DEF Contract!Abort
  <2>6. CASE AllStarted
    BY <2>6 DEF AllStarted, Live, Contract!Serve, compVars
  <2>7. CASE StopBegins
    <3>1. pc = "stop" /\ pc' = "draining" /\ Live' = Live
      BY <2>7 DEF StopBegins, Live, compVars
    <3>2. ~ready => started = 0
      BY <3>1 DEF IInv, Falling
    <3>3. phase = "serving" \/ (phase = "over" /\ Live = {})
      BY <3>1, <3>2 DEF IInv, UpIsPrefix, Top, Live, Ordered, TypeOK
    <3> QED
      BY <3>1, <3>3 DEF Contract!Withdraw
  <2>8. CASE DrainNext
    BY <2>8 DEF DrainNext, Live, appVars, MoreToDrain, NextToDrain
  <2>9. CASE DelayEnds
    BY <2>9 DEF DelayEnds, Live, Contract!TearDown, compVars, StopStarted
  <2>10. CASE StopReturns
    BY <2>10, ShrinkStep
  <2>11. CASE AllStopped
    BY <2>11 DEF AllStopped, Live, Contract!Finish, IInv, UpIsPrefix, Top, Ordered, compVars
  <2> QED
    BY <2>1, <2>2, <2>3, <2>4, <2>5, <2>6, <2>7, <2>8, <2>9, <2>10, <2>11, StepCases DEF Works
<1> QED
  BY <1>1, <1>2, Invariance, PTL DEF Spec, Implements, Contract!Spec
-----------------------------------------------------------------------------
(* Readiness: what a probe is told, on top of the invariant of the App it   *)
(* meets.                                                                   *)

\* Started at some time, and not a failure.
Ran(c) == status[c] \in {"up", "stopped"}

\* The Actuator holds the Checks of the App it was started by.
ChecksHeld == checks \subseteq Added /\ (Ran(Actuator) => checks = AppChecks)

\* A probe that is under way.
UnderWay ==
    /\ \A c \in left : Ran(c)
    /\ late => drained # {} /\ probe \notin {"checking", "UP"}

RInv == IInv /\ ReadinessTypeOK /\ ChecksHeld /\ UnderWay

\* A dependency that is down has made the probe's answer DOWN, or its Check has
\* yet to run.  This one is about an Actuator with a listener of its own.
Pending ==
    /\ probe = "asked" => throughout \subseteq AppChecks /\ (kind = "http" => Ran(Actuator))
    /\ probe = "checking" => code = "DOWN" \/ throughout \subseteq left
    /\ probe = "UP" => throughout = {}

-----------------------------------------------------------------------------
(* What the App does to what a probe looks at.                              *)

\* A Component's Start is called once, and its Stop only after that.
LEMMA RanStep ==
    IInv /\ [Next]_vars =>
        \A c \in Component : /\ Ran(c) => Ran(c)'
                             /\ Ran(c)' /\ ~Ran(c) => status[c] = "new" /\ status'[c] = "up"
<1> SUFFICES ASSUME IInv, [Next]_vars, NEW c \in Component
             PROVE  /\ Ran(c) => Ran(c)'
                    /\ Ran(c)' /\ ~Ran(c) => status[c] = "new" /\ status'[c] = "up"
  OBVIOUS
<1> USE DEF Ran
<1>1. status \in [Component -> {"new", "up", "stopped", "failed"}]
  BY DEF IInv, TypeOK
<1>2. ASSUME pc = "starting", started < Len(order)
      PROVE  order[started + 1] \in Component /\ status[order[started + 1]] = "new"
  <2>1. started + 1 \in DOMAIN order /\ ~(started + 1 <= started)
    BY <1>2 DEF IInv, TypeOK
  <2>2. order[started + 1] \in Component
    BY <2>1, ElementOfSeq DEF IInv, TypeOK
  <2>3. status[order[started + 1]] # "up"
    BY <1>2, <2>1 DEF IInv, UpIsPrefix, Top
  <2> QED
    BY <1>2, <2>2, <2>3 DEF IInv, Rising
<1>3. CASE StartReturns
  <2>1. order[started + 1] \in Component /\ status[order[started + 1]] = "new"
    BY <1>2, <1>3 DEF StartReturns
  <2>2. status' = [status EXCEPT ![order[started + 1]] = "up"]
    BY <1>3 DEF StartReturns
  <2> QED
    BY <1>1, <2>1, <2>2
<1>4. CASE StartFails
  <2>1. order[started + 1] \in Component /\ status[order[started + 1]] = "new"
    BY <1>2, <1>4 DEF StartFails
  <2>2. status' = [status EXCEPT ![order[started + 1]] = "failed"]
    BY <1>4 DEF StartFails
  <2> QED
    BY <1>1, <2>1, <2>2
<1>5. CASE StopReturns
  <2>1. cursor \in DOMAIN order
    BY <1>5 DEF StopReturns, IInv, UpIsPrefix, TypeOK
  <2>2. order[cursor] \in Component
    BY <2>1, ElementOfSeq DEF IInv, TypeOK
  <2>3. status[order[cursor]] = "up"
    BY <1>5, <2>1 DEF StopReturns, IInv, UpIsPrefix, Top
  <2>4. status' = [status EXCEPT ![order[cursor]] = "stopped"]
    BY <1>5 DEF StopReturns, NextToStop
  <2> QED
    BY <1>1, <2>2, <2>3, <2>4
<1>6. CASE Moves
  BY <1>6 DEF Moves
<1> QED
  BY <1>3, <1>4, <1>5, <1>6, StepCases
     DEF Works, Add, BeginStart, AllStarted, StopBegins, DrainNext, DelayEnds, AllStopped,
         compVars

\* Only its own Start brings a Component up.
LEMMA StatusMoves ==
    IInv /\ [Next]_vars =>
        StartReturns \/ \A c \in Component : status'[c] = "up" => status[c] = "up"
<1> SUFFICES ASSUME IInv, [Next]_vars, NEW c \in Component, status'[c] = "up", ~StartReturns
             PROVE  status[c] = "up"
  OBVIOUS
<1>1. status \in [Component -> {"new", "up", "stopped", "failed"}]
  BY DEF IInv, TypeOK
<1>2. CASE StartFails
  <2>1. status' = [status EXCEPT ![order[started + 1]] = "failed"]
    BY <1>2 DEF StartFails
  <2> QED
    BY <1>1, <2>1
<1>3. CASE StopReturns
  <2>1. status' = [status EXCEPT ![NextToStop] = "stopped"]
    BY <1>3 DEF StopReturns
  <2> QED
    BY <1>1, <2>1
<1>4. CASE status' = status
  BY <1>4
<1> QED
  BY <1>2, <1>3, <1>4, StepCases
     DEF Works, Moves, Add, BeginStart, AllStarted, StopBegins, DrainNext, DelayEnds, AllStopped,
         compVars

\* Components are only added, and only before any of them starts.
LEMMA AddedStep ==
    IInv /\ [Next]_vars =>
        /\ Added \subseteq Added'
        /\ Added' = Added \/ \A c \in Component : status[c] = "new"
<1> SUFFICES ASSUME IInv, [Next]_vars
             PROVE  /\ Added \subseteq Added'
                    /\ Added' = Added \/ \A c \in Component : status[c] = "new"
  OBVIOUS
<1>1. ASSUME NEW c \in Component, Add(c)
      PROVE  Added \subseteq Added' /\ \A d \in Component : status[d] = "new"
  <2>1. comps \in Seq(Component) /\ comps' = Append(comps, c)
    BY <1>1 DEF Add, IInv, TypeOK
  <2>2. \A i \in DOMAIN comps : i \in DOMAIN comps' /\ comps'[i] = comps[i]
    BY <2>1
  <2>3. Added \subseteq Added'
    BY <2>2 DEF Added
  <2>4. order = <<>>
    BY <1>1 DEF Add, IInv, Rising
  <2>5. Ordered = {}
    BY <2>4 DEF Ordered
  <2> QED
    BY <2>3, <2>5 DEF IInv, UpIsPrefix
<1>2. CASE comps' = comps
  BY <1>2 DEF Added
<1> QED
  BY <1>1, <1>2, OrderFrame, StepCases DEF BeginStart

\* What has drained has drained.
LEMMA DrainedStep == [Next]_vars => drained \subseteq drained'
BY StepCases
   DEF Works, Moves, Add, BeginStart, StartReturns, StartFails, AllStarted, StopBegins, DrainNext,
       DelayEnds, StopReturns, AllStopped, compVars

\* Every step of the whole is a step of the App, or none.
LEMMA AppStep == [ReadinessNext]_<<vars, readinessVars>> => [Next]_vars
BY DEF ReadinessNext, AppSteps, ActuatorDrains, DependencyFails, DependencyReturns, Probe, Ask,
       Refuse, BeginChecks, Answer, CheckPasses, CheckFails, readinessVars

-----------------------------------------------------------------------------
(* The invariant.                                                           *)

\* Nobody has asked, and the Actuator holds no Checks.
LEMMA ReadinessInitRInv == ReadinessInit => RInv /\ Pending
<1> SUFFICES ASSUME ReadinessInit PROVE RInv /\ Pending
  OBVIOUS
<1>1. IInv
  BY InitIInv DEF ReadinessInit
<1>2. ReadinessTypeOK
  BY DEF ReadinessInit, ReadinessTypeOK
<1>3. ChecksHeld
  BY ReadinessAssumption DEF ReadinessInit, Init, ChecksHeld, Ran
<1> QED
  BY <1>1, <1>2, <1>3 DEF ReadinessInit, RInv, UnderWay, Pending

\* The probe and the Checks keep their types.
LEMMA ReadinessTypeStep ==
    ReadinessTypeOK /\ [ReadinessNext]_<<vars, readinessVars>> => ReadinessTypeOK'
<1> SUFFICES ASSUME ReadinessTypeOK, [ReadinessNext]_<<vars, readinessVars>>
             PROVE  ReadinessTypeOK'
  OBVIOUS
<1> USE DEF ReadinessTypeOK, probeVars
<1>1. CASE AppSteps
  <2>1. checks' \subseteq Checker /\ draining' \in BOOLEAN
    BY <1>1 DEF AppSteps, AppChecks
  <2> QED
    BY <1>1, <2>1 DEF AppSteps
<1>2. CASE ActuatorDrains
  BY <1>2 DEF ActuatorDrains
<1>3. ASSUME NEW c \in Checker, DependencyFails(c) \/ DependencyReturns(c)
      PROVE  ReadinessTypeOK'
  BY <1>3 DEF DependencyFails, DependencyReturns
<1>4. ASSUME NEW k \in {"http", "grpc"}, Ask(k) PROVE ReadinessTypeOK'
  BY <1>4 DEF Ask
<1>5. CASE Refuse
  BY <1>5 DEF Refuse
<1>6. CASE BeginChecks
  BY <1>6 DEF BeginChecks, ChecksToRun, AppChecks
<1>7. ASSUME NEW c \in Checker, CheckPasses(c) \/ CheckFails(c) PROVE ReadinessTypeOK'
  BY <1>7 DEF CheckPasses, CheckFails
<1>8. CASE Answer
  BY <1>8 DEF Answer
<1>9. CASE UNCHANGED <<vars, readinessVars>>
  BY <1>9 DEF readinessVars
<1> QED
  BY <1>1, <1>2, <1>3, <1>4, <1>5, <1>6, <1>7, <1>8, <1>9 DEF ReadinessNext, Probe

\* The Actuator's own Start pulls the Checks of everything that was added, and
\* nothing is added later.
LEMMA ChecksHeldStep ==
    IInv /\ ChecksHeld /\ [ReadinessNext]_<<vars, readinessVars>> => ChecksHeld'
<1> SUFFICES ASSUME IInv, ChecksHeld, [ReadinessNext]_<<vars, readinessVars>>
             PROVE  ChecksHeld'
  OBVIOUS
<1>1. /\ Added \subseteq Added'
      /\ Added' = Added \/ \A c \in Component : status[c] = "new"
  BY AppStep, AddedStep
<1>2. CASE AppSteps
  <2>1. CASE status[Actuator] = "new" /\ status'[Actuator] = "up"
    <3>1. checks' = AppChecks
      BY <1>2, <2>1 DEF AppSteps
    <3>2. Added' = Added
      <4>1. StartReturns
        BY <2>1, AppStep, StatusMoves, ReadinessAssumption
      <4> QED
        BY <4>1 DEF StartReturns, Added
    <3> QED
      BY <3>1, <3>2 DEF ChecksHeld, AppChecks
  <2>2. CASE ~(status[Actuator] = "new" /\ status'[Actuator] = "up")
    <3>1. checks' = checks
      BY <1>2, <2>2 DEF AppSteps
    <3>2. Ran(Actuator)' => Ran(Actuator)
      BY <1>2, <2>2, AppStep, RanStep, ReadinessAssumption DEF AppSteps
    <3>3. Ran(Actuator) => Added' = Added
      BY <1>1, ReadinessAssumption DEF Ran
    <3> QED
      BY <1>1, <3>1, <3>2, <3>3 DEF ChecksHeld, AppChecks
  <2> QED
    BY <2>1, <2>2
<1>3. CASE UNCHANGED <<vars, checks>>
  BY <1>3 DEF ChecksHeld, AppChecks, Ran, Added, vars, appVars, compVars
<1> QED
  BY <1>2, <1>3
     DEF ReadinessNext, ActuatorDrains, DependencyFails, DependencyReturns, Probe, Ask, Refuse,
         BeginChecks, Answer, CheckPasses, CheckFails, readinessVars

\* A probe gets past Ready only while everything that was added runs and nothing
\* has drained.
LEMMA UnderWayStep ==
    RInv /\ [ReadinessNext]_<<vars, readinessVars>> => UnderWay'
<1> SUFFICES ASSUME RInv, [ReadinessNext]_<<vars, readinessVars>> PROVE UnderWay'
  OBVIOUS
<1>1. \A c \in Component : Ran(c) => Ran(c)'
  BY AppStep, RanStep DEF RInv
<1>2. drained \subseteq drained'
  BY AppStep, DrainedStep
<1>3. left \subseteq Component
  BY ReadinessAssumption DEF RInv, ReadinessTypeOK
<1>4. CASE left' \subseteq left /\ late' = late /\ (probe' # probe => ~late \/ probe' = "DOWN")
  BY <1>1, <1>2, <1>3, <1>4 DEF RInv, UnderWay
<1>5. ASSUME NEW k \in {"http", "grpc"}, Ask(k) PROVE UnderWay'
  BY <1>2, <1>5 DEF Ask, UnderWay
<1>6. CASE BeginChecks
  <2>1. ready
    BY <1>6 DEF BeginChecks, Ready
  <2>2. drained = {} /\ Live = Added
    BY <2>1 DEF RInv, IInv, Rising
  <2>3. \A c \in Added : Ran(c)
    BY <2>2 DEF Live, Ran
  <2>4. left' \subseteq Added
    BY <1>6 DEF BeginChecks, ChecksToRun, AppChecks, RInv, ChecksHeld
  <2>5. UNCHANGED <<status, late>> /\ ~late
    BY <1>6, <2>2 DEF BeginChecks, vars, compVars, RInv, UnderWay
  <2> QED
    BY <2>3, <2>4, <2>5 DEF UnderWay, Ran
<1>7. CASE Answer
  <2>1. left' = left /\ late' = late /\ ~late
    BY <1>7 DEF Answer, RInv, UnderWay
  <2> QED
    BY <1>4, <2>1
<1>8. CASE ~BeginChecks /\ ~Answer /\ ~\E k \in {"http", "grpc"} : Ask(k)
  BY <1>4, <1>8
     DEF ReadinessNext, AppSteps, ActuatorDrains, DependencyFails, DependencyReturns, Probe,
         Refuse, CheckPasses, CheckFails, readinessVars, probeVars
<1> QED
  BY <1>5, <1>6, <1>7, <1>8

\* No answer forgets a Check that has to fail.
LEMMA PendingStep ==
    Server["http"] = Actuator =>
        (RInv /\ Pending /\ [ReadinessNext]_<<vars, readinessVars>> => Pending')
<1> SUFFICES ASSUME Server["http"] = Actuator, RInv, Pending,
                    [ReadinessNext]_<<vars, readinessVars>>
             PROVE  Pending'
  OBVIOUS
<1>1. Ran(Actuator) => Ran(Actuator)'
  BY AppStep, RanStep, ReadinessAssumption DEF RInv
<1>2. AppChecks \subseteq AppChecks'
  BY AppStep, AddedStep DEF RInv, AppChecks
<1>3. throughout \subseteq sick /\ sick \subseteq Checker
  BY DEF RInv, ReadinessTypeOK
<1>4. ASSUME UNCHANGED <<kind, probe, left, code>>, throughout' \subseteq throughout
      PROVE  Pending'
  BY <1>1, <1>2, <1>4 DEF Pending
<1>5. ASSUME NEW k \in {"http", "grpc"}, Ask(k) PROVE Pending'
  <2>1. UNCHANGED <<comps, status>>
    BY <1>5 DEF Ask, vars, appVars, compVars
  <2>2. throughout' \subseteq AppChecks'
    BY <1>3, <1>5, <2>1 DEF Ask, AppChecks, Added
  <2>3. kind' = "http" => Ran(Actuator)'
    BY <1>5, <2>1 DEF Ask, Ran
  <2> QED
    BY <1>5, <2>2, <2>3 DEF Ask, Pending
<1>6. CASE Refuse
  BY <1>6 DEF Refuse, Pending
<1>7. CASE BeginChecks
  <2>1. throughout \subseteq AppChecks /\ (kind = "http" => checks = AppChecks)
    BY <1>7 DEF BeginChecks, Pending, RInv, ChecksHeld
  <2> QED
    BY <1>7, <2>1 DEF BeginChecks, ChecksToRun, Pending
<1>8. ASSUME NEW c \in Checker, CheckPasses(c) PROVE Pending'
  BY <1>3, <1>8 DEF CheckPasses, Pending
<1>9. ASSUME NEW c \in Checker, CheckFails(c) PROVE Pending'
  BY <1>9 DEF CheckFails, Pending
<1>10. CASE Answer
  <2>1. code \in {"UP", "DOWN"}
    BY DEF RInv, ReadinessTypeOK
  <2> QED
    BY <1>10, <2>1 DEF Answer, Pending
<1>11. CASE \/ AppSteps \/ ActuatorDrains
            \/ \E c \in Checker : DependencyFails(c) \/ DependencyReturns(c)
            \/ UNCHANGED <<vars, readinessVars>>
  <2>1. UNCHANGED <<kind, probe, left, code>> /\ throughout' \subseteq throughout
    BY <1>11
       DEF AppSteps, ActuatorDrains, DependencyFails, DependencyReturns, readinessVars, probeVars
  <2> QED
    BY <1>4, <2>1
<1> QED
  BY <1>5, <1>6, <1>7, <1>8, <1>9, <1>10, <1>11 DEF ReadinessNext, Probe

-----------------------------------------------------------------------------
\* RInv holds at first and every step of the App, a dependency or a probe keeps
\* it.
LEMMA RInvariance == ReadinessSpec => []RInv
<1>1. RInv /\ [ReadinessNext]_<<vars, readinessVars>> => RInv'
  <2> SUFFICES ASSUME RInv, [ReadinessNext]_<<vars, readinessVars>> PROVE RInv'
    OBVIOUS
  <2>1. IInv'
    BY AppStep, IInvStep DEF RInv
  <2>2. ReadinessTypeOK'
    BY ReadinessTypeStep DEF RInv
  <2>3. ChecksHeld'
    BY ChecksHeldStep DEF RInv
  <2>4. UnderWay'
    BY UnderWayStep
  <2> QED
    BY <2>1, <2>2, <2>3, <2>4 DEF RInv
<1> QED
  BY ReadinessInitRInv, <1>1, PTL DEF ReadinessSpec

\* Every reachable state of the Actuator, the dependencies and the probe is well
\* typed.
THEOREM ReadinessTypeCorrect == ReadinessSpec => []ReadinessTypeOK
<1>1. RInv => ReadinessTypeOK
  BY DEF RInv
<1> QED
  BY RInvariance, <1>1, PTL

\* A probe that was asked after the first Drain is never answered UP, by the
\* Actuator or by gRPC health (health.go:43-46).
THEOREM DrainAlwaysShows == ReadinessSpec => []DrainShows
<1>1. RInv => DrainShows
  BY DEF RInv, UnderWay, DrainShows
<1> QED
  BY RInvariance, <1>1, PTL

\* No Check runs on a Component that has not started (actuator.go:217-219).
THEOREM ChecksAlwaysOnStarted == ReadinessSpec => ChecksOnlyStarted
<1>1. RInv => [\A c \in Checker :
                  CheckPasses(c) \/ CheckFails(c) => status[c] \in {"up", "stopped"}
              ]_<<vars, readinessVars>>
  BY DEF RInv, UnderWay, Ran, CheckPasses, CheckFails
<1> QED
  BY RInvariance, <1>1, PTL DEF ReadinessSpec, ChecksOnlyStarted

\* A probe shows the drain from its first step on, and asks no Component before
\* it runs.
THEOREM ProbeAlwaysFollowsApp == ReadinessSpec => ProbeFollowsApp
BY DrainAlwaysShows, ChecksAlwaysOnStarted, PTL DEF ProbeFollowsApp

\* With an Actuator on a listener of its own, neither probe answers UP over a
\* dependency that was down for as long as the probe took (health.go:39-41).
THEOREM OutageAlwaysShows ==
    Server["http"] = Actuator => (ReadinessSpec => []OutageShows)
<1> SUFFICES ASSUME Server["http"] = Actuator PROVE ReadinessSpec => []OutageShows
  OBVIOUS
<1>1. RInv /\ Pending /\ [ReadinessNext]_<<vars, readinessVars>> => Pending'
  BY PendingStep
<1>2. Pending => OutageShows
  BY DEF Pending, OutageShows
<1> QED
  BY ReadinessInitRInv, RInvariance, <1>1, <1>2, PTL DEF ReadinessSpec
=============================================================================

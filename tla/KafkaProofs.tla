---------------------------- MODULE KafkaProofs ----------------------------
(***************************************************************************)
(* Which records the group may pass, in which order they are handled and   *)
(* what a clean Stop commits, for any partitions and any length of them,   *)
(* any faults and any number of moves.                                     *)
(***************************************************************************)
EXTENDS Kafka, TLAPS

\* The records of p ahead of offset n are in T.
Reaches(T, p, n) == \A o \in 0..n - 1 : <<p, o>> \in T

\* What the group may pass: a record that was abandoned only when handlers fail
\* of their own accord, since an interrupted one is never committed past.
Passed == IF "handler" \in Faults THEN handled \cup abandoned ELSE handled

\* Where the loop, its goroutines and Stop stand.
Standing ==
    /\ main = "new" => loop = "none"
    /\ main \notin {"close", "stopped"} => ~ctxDone
    /\ main \notin {"new", "running"} => closing
    /\ \A p \in Partition : task[p] = "call" => loop = "handle" /\ at[p] < upto[p]
    /\ loop \in {"none", "fetched"} => at = from

\* Everything ahead of the commit, of a batch and of the client's position is
\* passed, or will be when the batch is over: unless Stop gave up on it, and then
\* nothing is polled again.
Resumable ==
    /\ \A p \in Partition : Reaches(Passed, p, committed[p])
    /\ loop = "poll" => \A p \in Partition : Reaches(Passed, p, position[p])
    /\ loop = "top" => ctxDone \/ \A p \in Partition : Reaches(Passed, p, position[p])
    /\ loop \in {"fetched", "handle"} => \A p \in Partition :
          /\ Reaches(Passed, p, at[p])
          /\ position[p] = upto[p] \/ Reaches(Passed, p, position[p])
    /\ loop = "handle" => \A p \in Partition :
          task[p] = "idle" => ctxDone \/ Reaches(Passed, p, upto[p])

\* What a handled record has ahead of it.
Ordered ==
    "handler" \in Faults \/ \A r \in handled : Reaches(handled, r[1], r[2])

\* Once a batch is over it is committed, or the commit has failed.
Settled ==
    /\ loop \in {"top", "poll", "gone"} => commit \in {"refused", "cancelled"} \/ BatchCommitted
    /\ commit = "cancelled" => ctxDone
    /\ main \in {"cancel", "close", "stopped"} /\ ~stopErr =>
          loop = "gone" /\ commit # "cancelled"

IInv == TypeOK /\ Standing /\ Resumable /\ Ordered /\ Settled
-----------------------------------------------------------------------------
(* Facts about Reaches and Records.                                         *)

\* A larger set reaches as far.
LEMMA ReachesMore ==
    ASSUME NEW T, NEW U, T \subseteq U, NEW p, NEW n, Reaches(T, p, n)
    PROVE  Reaches(U, p, n)
BY DEF Reaches

\* So does a set as far as any offset before.
LEMMA ReachesLess ==
    ASSUME NEW T, NEW p, NEW n \in Nat, NEW m \in Nat, m <= n, Reaches(T, p, n)
    PROVE  Reaches(T, p, m)
BY DEF Reaches

\* There is nothing ahead of the first record.
LEMMA ReachesNone == ASSUME NEW T, NEW p PROVE Reaches(T, p, 0)
BY DEF Reaches

\* One record more.
LEMMA ReachesNext ==
    ASSUME NEW T, NEW p, NEW n \in Nat, Reaches(T, p, n), <<p, n>> \in T
    PROVE  Reaches(T, p, n + 1)
BY DEF Reaches

\* Records ahead of m, and those from m to n.
LEMMA ReachesOn ==
    ASSUME NEW T, NEW p, NEW m \in Nat, NEW n \in Nat,
           Reaches(T, p, m), Records(p, m, n) \subseteq T
    PROVE  Reaches(T, p, n)
<1> SUFFICES ASSUME NEW o \in 0..n - 1 PROVE <<p, o>> \in T
  BY DEF Reaches
<1>1. CASE o < m
  BY <1>1 DEF Reaches
<1>2. CASE o >= m
  <2>1. <<p, o>> \in Records(p, m, n)
    BY <1>2 DEF Records
  <2> QED
    BY <2>1
<1> QED
  BY <1>1, <1>2

\* Reaches is about Records, one offset at a time.
LEMMA ReachesRecords ==
    ASSUME NEW T, NEW p, NEW n \in Nat
    PROVE  Reaches(T, p, n) <=> Records(p, 0, n) \subseteq T
<1>1. ASSUME Reaches(T, p, n), NEW r \in Records(p, 0, n) PROVE r \in T
  <2>1. r = <<p, r[2]>> /\ r[2] \in 0..n - 1
    BY <1>1 DEF Records
  <2> QED
    BY <1>1, <2>1 DEF Reaches
<1>2. ASSUME Records(p, 0, n) \subseteq T, NEW o \in 0..n - 1 PROVE <<p, o>> \in T
  <2>1. <<p, o>> \in Records(p, 0, n)
    BY DEF Records
  <2> QED
    BY <1>2, <2>1
<1> QED
  BY <1>1, <1>2 DEF Reaches

\* Records between two offsets of the log are records.
LEMMA RecordsTyped ==
    ASSUME NEW p \in Partition, NEW i \in Offset, NEW j \in Offset
    PROVE  Records(p, i, j) \subseteq Record
BY KafkaAssumption DEF Records, Record, Offset

\* History only grows, and with it what may be passed.
LEMMA Grows ==
    [Next]_vars => handled \subseteq handled' /\ abandoned \subseteq abandoned'
                   /\ Passed \subseteq Passed'
<1>1. [Next]_vars => handled \subseteq handled' /\ abandoned \subseteq abandoned'
  BY DEF Next, vars, Group, AccessLost, Revoke, Restore, Replace, Loop, LoopTop, PollReturns,
         ClientClosed, CheckFetch, Commit, Start, Drain, Shutdown, StopTimeout, StopWaits,
         StopCancels, StopCloses, Handler, HandlerSucceeds, HandlerFails, Finished,
         groupVars, batchVars, loopVars, mainVars, history
<1> QED
  BY <1>1 DEF Passed

-----------------------------------------------------------------------------
\* A process that has not started, and a group at the first record.
LEMMA InitIInv == Init => IInv
<1> SUFFICES ASSUME Init PROVE IInv
  OBVIOUS
<1>1. Zero \in [Partition -> Offset] /\ \A p \in Partition : Zero[p] = 0
  BY KafkaAssumption DEF Zero, Offset
<1>2. TypeOK
  <2>1. /\ committed \in [Partition -> Offset] /\ position \in [Partition -> Offset]
        /\ from \in [Partition -> Offset] /\ upto \in [Partition -> Offset]
        /\ at \in [Partition -> Offset]
        /\ \A p \in Partition : from[p] <= at[p] /\ at[p] <= upto[p]
    BY <1>1 DEF Init
  <2>2. task \in [Partition -> {"idle", "call"}] /\ moves \in 0..MaxMoves
    BY KafkaAssumption DEF Init
  <2> QED
    BY <2>1, <2>2 DEF Init, TypeOK
<1>3. Standing
  BY <1>1 DEF Init, Standing
<1>4. Resumable
  BY <1>1, ReachesNone DEF Init, Resumable
<1>5. Ordered
  BY DEF Init, Ordered
<1>6. Settled
  BY <1>1 DEF Init, Settled
<1> QED
  BY <1>2, <1>3, <1>4, <1>5, <1>6 DEF IInv

\* Handlers are called on records of the batch, and a batch lies in the log.
LEMMA TypeStep == TypeOK /\ Standing /\ [Next]_vars => TypeOK'
<1> SUFFICES ASSUME TypeOK, Standing, [Next]_vars PROVE TypeOK'
  OBVIOUS
<1> USE KafkaAssumption
<1> USE DEF TypeOK, groupVars, batchVars, loopVars, mainVars, history
<1>1. ASSUME NEW p \in Partition, Revoke(p) PROVE TypeOK'
  <2>1. PICK o \in committed[p]..LogEnd : handled' = handled \cup Records(p, committed[p], o)
    BY <1>1 DEF Revoke
  <2>2. Records(p, committed[p], o) \subseteq Record
    BY <2>1, RecordsTyped DEF Offset
  <2>3. handled' \subseteq Record /\ away' \subseteq Partition /\ moves' \in 0..MaxMoves
    BY <1>1, <2>1, <2>2 DEF Revoke
  <2> QED
    BY <1>1, <2>3 DEF Revoke
<1>2. ASSUME NEW p \in Partition, Restore(p) PROVE TypeOK'
  <2>1. PICK o \in committed[p]..LogEnd :
            /\ committed' = [committed EXCEPT ![p] = o]
            /\ position' = [position EXCEPT ![p] = o]
    BY <1>2 DEF Restore
  <2>2. o \in Offset
    BY <2>1 DEF Offset
  <2>3. committed' \in [Partition -> Offset] /\ position' \in [Partition -> Offset]
    BY <2>1, <2>2
  <2> QED
    BY <1>2, <2>3 DEF Restore
<1>3. CASE AccessLost
  BY <1>3 DEF AccessLost
<1>4. CASE Replace
  <2>1. Zero \in [Partition -> Offset] /\ \A p \in Partition : Zero[p] = 0
    BY DEF Zero, Offset
  <2>2. moves' \in 0..MaxMoves
    BY <1>4 DEF Replace
  <2>3. /\ position' \in [Partition -> Offset] /\ from' \in [Partition -> Offset]
        /\ upto' \in [Partition -> Offset] /\ at' \in [Partition -> Offset]
        /\ \A p \in Partition : from'[p] <= at'[p] /\ at'[p] <= upto'[p]
    BY <1>4, <2>1 DEF Replace, FreshBatch, FreshLoop
  <2>4. /\ task' \in [Partition -> {"idle", "call"}] /\ fatal' \in BOOLEAN /\ refused' \in BOOLEAN
        /\ commit' = "none"
    BY <1>4 DEF Replace, FreshBatch, FreshLoop
  <2> QED
    BY <1>4, <2>2, <2>3, <2>4 DEF Replace, FreshMain
<1>5. CASE LoopTop
  BY <1>5 DEF LoopTop
<1>6. CASE PollReturns
  <2>1. /\ upto' \in [Partition -> Offset] /\ position' = upto' /\ from' = position
        /\ at' = position /\ \A p \in Partition : upto'[p] >= position[p]
    BY <1>6 DEF PollReturns
  <2>2. \A p \in Partition : from'[p] <= at'[p] /\ at'[p] <= upto'[p]
    BY <2>1 DEF Offset
  <2> QED
    BY <1>6, <2>1, <2>2 DEF PollReturns
<1>7. CASE ClientClosed
  BY <1>7 DEF ClientClosed
<1>8. CASE CheckFetch
  <2>1. task' \in [Partition -> {"idle", "call"}]
    BY <1>8 DEF CheckFetch
  <2>2. loop' \in {"gone", "handle"} /\ fatal' \in BOOLEAN
    BY <1>8 DEF CheckFetch
  <2>3. UNCHANGED <<at, commit, groupVars, batchVars, mainVars, history>>
    BY <1>8 DEF CheckFetch
  <2> QED
    BY <2>1, <2>2, <2>3
<1>9. ASSUME NEW p \in Partition, HandlerSucceeds(p) PROVE TypeOK'
  <2>1. at[p] < upto[p]
    BY <1>9 DEF HandlerSucceeds, Standing
  <2>2. at[p] + 1 \in Offset /\ at[p] + 1 <= upto[p] /\ from[p] <= at[p] + 1
    BY <2>1 DEF Offset
  <2>3. at' = [at EXCEPT ![p] = at[p] + 1]
    BY <1>9 DEF HandlerSucceeds
  <2>4. at' \in [Partition -> Offset]
    BY <2>2, <2>3
  <2>5. \A q \in Partition : from[q] <= at'[q] /\ at'[q] <= upto[q]
    BY <2>2, <2>3
  <2>6. <<p, at[p]>> \in Record
    BY <2>1 DEF Record, Offset
  <2>7. handled' \subseteq Record
    BY <1>9, <2>6 DEF HandlerSucceeds
  <2>8. task' \in [Partition -> {"idle", "call"}]
    BY <1>9 DEF HandlerSucceeds
  <2> QED
    BY <1>9, <2>4, <2>5, <2>7, <2>8 DEF HandlerSucceeds
<1>10. ASSUME NEW p \in Partition, HandlerFails(p) PROVE TypeOK'
  <2>1. abandoned' \subseteq Record
    BY <1>10, RecordsTyped DEF HandlerFails
  <2>2. task' \in [Partition -> {"idle", "call"}]
    BY <1>10 DEF HandlerFails
  <2> QED
    BY <1>10, <2>1, <2>2 DEF HandlerFails
<1>11. CASE Commit
  <2>1. committed' \in [Partition -> Offset]
    BY <1>11 DEF Commit
  <2>2. commit' \in {"none", "ok", "refused", "cancelled"}
    BY <1>11 DEF Commit
  <2> QED
    BY <1>11, <2>1, <2>2 DEF Commit
<1>12. CASE Start
  BY <1>12 DEF Start
<1>13. CASE Drain
  BY <1>13 DEF Drain
<1>14. CASE Shutdown
  <2>1. CASE StopTimeout
    BY <2>1 DEF StopTimeout
  <2>2. CASE StopWaits
    <3>1. main' = "cancel" /\ stopErr' \in BOOLEAN
      BY <2>2 DEF StopWaits
    <3>2. UNCHANGED <<closing, ctxDone, expired, groupVars, batchVars, loopVars, history>>
      BY <2>2 DEF StopWaits
    <3> QED
      BY <3>1, <3>2
  <2>3. CASE StopCancels
    BY <2>3 DEF StopCancels
  <2>4. CASE StopCloses
    BY <2>4 DEF StopCloses
  <2> QED
    BY <1>14, <2>1, <2>2, <2>3, <2>4 DEF Shutdown
<1>15. CASE Finished \/ UNCHANGED vars
  BY <1>15 DEF Finished, vars
<1> QED
  BY <1>1, <1>2, <1>3, <1>4, <1>5, <1>6, <1>7, <1>8, <1>9, <1>10, <1>11, <1>12, <1>13,
     <1>14, <1>15 DEF Next, Group, Loop, Handler

\* The loop, its goroutines and Stop stay where the others expect them.
LEMMA StandingStep == TypeOK /\ Standing /\ [Next]_vars => Standing'
<1> SUFFICES ASSUME TypeOK, Standing, [Next]_vars PROVE Standing'
  OBVIOUS
<1> USE DEF Standing, groupVars, batchVars, loopVars, mainVars, history
<1>a. /\ task \in [Partition -> {"idle", "call"}]
      /\ at \in [Partition -> Offset] /\ upto \in [Partition -> Offset]
  BY DEF TypeOK
<1>1. CASE Group
  BY <1>1 DEF Group, AccessLost, Revoke, Restore
<1>2. CASE Replace
  BY <1>2 DEF Replace, FreshBatch, FreshLoop, FreshMain
<1>3. CASE LoopTop
  BY <1>3 DEF LoopTop
<1>4. CASE PollReturns
  BY <1>4 DEF PollReturns
<1>5. CASE ClientClosed
  BY <1>5 DEF ClientClosed
<1>6. CASE CheckFetch
  <2>1. \A p \in Partition : task'[p] = "call" => loop' = "handle" /\ at'[p] < upto'[p]
    BY <1>6, <1>a DEF CheckFetch
  <2>2. loop = "fetched" /\ loop' \in {"gone", "handle"} /\ UNCHANGED mainVars
    BY <1>6 DEF CheckFetch
  <2> QED
    BY <2>1, <2>2
<1>7. ASSUME NEW p \in Partition, HandlerSucceeds(p) PROVE Standing'
  <2>1. loop' = "handle" /\ loop = "handle"
    BY <1>7 DEF HandlerSucceeds
  <2>2. \A q \in Partition : task'[q] = "call" => at'[q] < upto'[q]
    <3> SUFFICES ASSUME NEW q \in Partition, task'[q] = "call" PROVE at'[q] < upto'[q]
      OBVIOUS
    <3>1. CASE q = p
      <4>1. at[p] + 1 # upto[p] /\ at[p] < upto[p]
        BY <1>7, <1>a, <3>1 DEF HandlerSucceeds, LastRecord
      <4>2. at'[q] = at[p] + 1 /\ upto'[q] = upto[p]
        BY <1>7, <1>a, <3>1 DEF HandlerSucceeds
      <4> QED
        BY <1>a, <4>1, <4>2, KafkaAssumption DEF Offset
    <3>2. CASE q # p
      BY <1>7, <1>a, <3>2 DEF HandlerSucceeds
    <3> QED
      BY <3>1, <3>2
  <2>3. UNCHANGED mainVars
    BY <1>7 DEF HandlerSucceeds
  <2> QED
    BY <2>1, <2>2, <2>3
<1>8. ASSUME NEW p \in Partition, HandlerFails(p) PROVE Standing'
  BY <1>8, <1>a DEF HandlerFails
<1>9. CASE Commit
  BY <1>9 DEF Commit, BatchOver
<1>10. CASE Start
  BY <1>10 DEF Start
<1>11. CASE Drain
  BY <1>11 DEF Drain
<1>12. CASE Shutdown
  <2>1. UNCHANGED <<loop, at, from, task, upto>>
    BY <1>12 DEF Shutdown, StopTimeout, StopWaits, StopCancels, StopCloses
  <2>2. /\ main' # "new"
        /\ main' \notin {"close", "stopped"} => ~ctxDone'
        /\ main' \notin {"new", "running"} => closing'
    BY <1>12 DEF Shutdown, StopTimeout, StopWaits, StopCancels, StopCloses
  <2> QED
    BY <2>1, <2>2
<1>13. CASE Finished \/ UNCHANGED vars
  BY <1>13 DEF Finished, vars
<1> QED
  BY <1>1, <1>2, <1>3, <1>4, <1>5, <1>6, <1>7, <1>8, <1>9, <1>10, <1>11, <1>12, <1>13
     DEF Next, Loop, Handler

\* Nothing is committed or polled past a record that may not be passed.
LEMMA ResumableStep == TypeOK /\ Standing /\ Resumable /\ [Next]_vars => Resumable'
<1> SUFFICES ASSUME TypeOK, Standing, Resumable, [Next]_vars PROVE Resumable'
  OBVIOUS
<1> USE DEF Resumable, groupVars, batchVars, loopVars, mainVars, history
<1>a. /\ task \in [Partition -> {"idle", "call"}]
      /\ at \in [Partition -> Offset] /\ upto \in [Partition -> Offset]
      /\ from \in [Partition -> Offset] /\ position \in [Partition -> Offset]
      /\ committed \in [Partition -> Offset]
      /\ \A p \in Partition : from[p] <= at[p] /\ at[p] <= upto[p]
  BY DEF TypeOK
<1>b. \A i \in Offset : i \in Nat
  BY KafkaAssumption DEF Offset
<1>c. \A p, n : Reaches(Passed, p, n) => Reaches(Passed', p, n)
  BY Grows, ReachesMore
<1>d. handled \subseteq Passed /\ handled' \subseteq Passed'
  BY DEF Passed
<1>1. ASSUME NEW p \in Partition, Revoke(p) PROVE Resumable'
  BY <1>1, <1>c DEF Revoke
<1>2. ASSUME NEW p \in Partition, Restore(p) PROVE Resumable'
  <2>1. PICK o \in committed[p]..LogEnd :
            /\ Records(p, committed[p], o) \subseteq handled
            /\ committed' = [committed EXCEPT ![p] = o]
            /\ position' = [position EXCEPT ![p] = o]
    BY <1>2 DEF Restore
  <2>2. o \in Nat /\ committed[p] \in Nat
    BY <1>a, <1>b, <2>1
  <2>3. Reaches(Passed, p, o)
    BY <1>d, <2>1, <2>2, ReachesOn
  <2>4. \A q \in Partition : Reaches(Passed', q, committed'[q])
    BY <1>a, <1>c, <2>1, <2>3
  <2>5. \A q \in Partition : position'[q] = position[q] \/ Reaches(Passed', q, position'[q])
    BY <1>a, <1>c, <2>1, <2>3
  <2>6. UNCHANGED <<from, upto, at, task, loop, ctxDone>>
    BY <1>2 DEF Restore
  <2> QED
    BY <1>c, <2>4, <2>5, <2>6
<1>3. CASE AccessLost
  BY <1>3, <1>c DEF AccessLost
<1>4. CASE Replace
  BY <1>4, <1>c DEF Replace
<1>5. CASE LoopTop
  <2>1. loop' = "poll" => ~ctxDone
    BY <1>5 DEF LoopTop, Leaves, Standing
  <2> QED
    BY <1>5, <1>c, <2>1 DEF LoopTop
<1>6. CASE PollReturns
  BY <1>6, <1>c DEF PollReturns
<1>7. CASE ClientClosed
  BY <1>7, <1>c DEF ClientClosed
<1>8. CASE CheckFetch
  <2>1. UNCHANGED <<committed, position, from, upto, at>> /\ loop = "fetched"
    BY <1>8 DEF CheckFetch
  <2>2. \A p \in Partition : Reaches(Passed', p, committed'[p]) /\ Reaches(Passed', p, at'[p])
                             /\ (position'[p] = upto'[p] \/ Reaches(Passed', p, position'[p]))
    BY <1>c, <2>1
  <2>3. ASSUME NEW p \in Partition, loop' = "handle", task'[p] = "idle"
        PROVE  Reaches(Passed', p, upto'[p])
    <3>1. at[p] = from[p] /\ ~(from[p] < upto[p])
      BY <1>8, <2>3 DEF CheckFetch, Standing
    <3>2. upto[p] = at[p]
      BY <1>a, <1>b, <3>1
    <3> QED
      BY <2>1, <2>2, <3>2
  <2>4. loop' \in {"gone", "handle"}
    BY <1>8 DEF CheckFetch
  <2> QED
    BY <2>2, <2>3, <2>4
<1>9. ASSUME NEW p \in Partition, HandlerSucceeds(p) PROVE Resumable'
  <2>1. /\ loop = "handle" /\ task[p] = "call"
        /\ at' = [at EXCEPT ![p] = at[p] + 1]
        /\ handled' = handled \cup {<<p, at[p]>>}
        /\ UNCHANGED <<loop, committed, position, from, upto, ctxDone>>
    BY <1>9 DEF HandlerSucceeds, Standing
  <2>2. Reaches(Passed', p, at[p]) /\ <<p, at[p]>> \in Passed' /\ at[p] \in Nat
    BY <1>a, <1>b, <1>c, <1>d, <2>1
  <2>3. Reaches(Passed', p, at[p] + 1)
    BY <2>2, ReachesNext
  <2>4. \A q \in Partition : Reaches(Passed', q, at'[q])
    BY <1>a, <1>c, <2>1, <2>3
  <2>5. ASSUME NEW q \in Partition, task'[q] = "idle"
        PROVE  ctxDone' \/ Reaches(Passed', q, upto'[q])
    <3>1. CASE q = p
      <4>1. ctxDone \/ at[p] + 1 = upto[p]
        BY <1>9, <1>a, <2>5, <3>1 DEF HandlerSucceeds, LastRecord
      <4> QED
        BY <2>1, <2>3, <3>1, <4>1
    <3>2. CASE q # p
      <4>1. task[q] = "idle"
        BY <1>9, <1>a, <2>5, <3>2 DEF HandlerSucceeds
      <4> QED
        BY <1>c, <2>1, <4>1
    <3> QED
      BY <3>1, <3>2
  <2> QED
    BY <1>c, <2>1, <2>4, <2>5
<1>10. ASSUME NEW p \in Partition, HandlerFails(p) PROVE Resumable'
  <2>1. /\ loop = "handle"
        /\ abandoned' = abandoned \cup Records(p, at[p], upto[p])
        /\ UNCHANGED <<loop, committed, position, from, upto, at, ctxDone, handled>>
    BY <1>10 DEF HandlerFails, Standing
  <2>2. ctxDone \/ Records(p, at[p], upto[p]) \subseteq Passed'
    BY <1>10, <2>1 DEF HandlerFails, Passed
  <2>3. Reaches(Passed', p, at[p]) /\ at[p] \in Nat /\ upto[p] \in Nat
    BY <1>a, <1>b, <1>c, <2>1
  <2>4. ctxDone \/ Reaches(Passed', p, upto[p])
    BY <2>2, <2>3, ReachesOn
  <2>5. ASSUME NEW q \in Partition, task'[q] = "idle"
        PROVE  ctxDone' \/ Reaches(Passed', q, upto'[q])
    <3>1. q = p \/ task[q] = "idle"
      BY <1>10, <1>a, <2>5 DEF HandlerFails
    <3> QED
      BY <1>c, <2>1, <2>4, <3>1
  <2> QED
    BY <1>c, <2>1, <2>5
<1>11. CASE Commit
  <2>1. /\ loop = "handle" /\ loop' = "top"
        /\ \A p \in Partition : task[p] = "idle"
        /\ UNCHANGED <<position, from, upto, at, ctxDone>>
    BY <1>11, <1>a DEF Commit, BatchOver
  <2>2. \A p \in Partition : committed'[p] \in {committed[p], at[p]}
    BY <1>11, <1>a DEF Commit
  <2>3. \A p \in Partition : Reaches(Passed', p, committed'[p])
    BY <1>c, <2>1, <2>2
  <2>4. ctxDone \/ \A p \in Partition : Reaches(Passed', p, position[p])
    BY <1>c, <2>1
  <2> QED
    BY <2>1, <2>3, <2>4
<1>12. CASE Start
  BY <1>12, <1>c DEF Start
<1>13. CASE Drain
  BY <1>13, <1>c DEF Drain
<1>14. CASE Shutdown
  <2>1. UNCHANGED <<loop, at, from, task, upto, position, committed>> /\ (ctxDone => ctxDone')
    BY <1>14 DEF Shutdown, StopTimeout, StopWaits, StopCancels, StopCloses
  <2> QED
    BY <1>c, <2>1
<1>15. CASE Finished \/ UNCHANGED vars
  BY <1>15, <1>c DEF Finished, vars
<1> QED
  BY <1>1, <1>2, <1>3, <1>4, <1>5, <1>6, <1>7, <1>8, <1>9, <1>10, <1>11, <1>12, <1>13,
     <1>14, <1>15 DEF Next, Group, Loop, Handler

\* Only a handler that returns, here or at another member, adds to handled.
LEMMA HandledFrame ==
    [Next]_vars => \/ handled' = handled
                   \/ \E p \in Partition : Revoke(p) \/ HandlerSucceeds(p)
BY DEF Next, vars, Group, AccessLost, Revoke, Restore, Replace, Loop, LoopTop, PollReturns,
       ClientClosed, CheckFetch, Commit, Start, Drain, Shutdown, StopTimeout, StopWaits,
       StopCancels, StopCloses, Handler, HandlerSucceeds, HandlerFails, Finished,
       groupVars, batchVars, loopVars, mainVars, history

\* A record is handled when everything ahead of it has been.
LEMMA OrderedStep ==
    TypeOK /\ Standing /\ Resumable /\ Ordered /\ [Next]_vars => Ordered'
<1> SUFFICES ASSUME TypeOK, Standing, Resumable, Ordered, [Next]_vars,
                    "handler" \notin Faults, NEW r \in handled'
             PROVE  Reaches(handled', r[1], r[2])
  BY DEF Ordered
<1>a. \A p, n : Reaches(handled, p, n) => Reaches(handled', p, n)
  BY Grows, ReachesMore
<1>b. Passed = handled
  BY DEF Passed
<1>c. \A q \in handled : Reaches(handled', q[1], q[2])
  BY <1>a DEF Ordered
<1>1. CASE handled' = handled
  BY <1>1, <1>c
<1>2. ASSUME NEW p \in Partition, Revoke(p) PROVE Reaches(handled', r[1], r[2])
  <2>1. PICK o \in committed[p]..LogEnd : handled' = handled \cup Records(p, committed[p], o)
    BY <1>2 DEF Revoke
  <2>2. o \in Nat /\ committed[p] \in Nat
    BY <2>1, KafkaAssumption DEF TypeOK, Offset
  <2>3. Reaches(handled', p, committed[p])
    BY <1>a, <1>b DEF Resumable
  <2>4. Reaches(handled', p, o)
    BY <2>1, <2>2, <2>3, ReachesOn
  <2>5. ASSUME r \in Records(p, committed[p], o) PROVE Reaches(handled', r[1], r[2])
    <3>1. r[1] = p /\ r[2] \in Nat /\ r[2] <= o
      BY <2>2, <2>5 DEF Records
    <3> QED
      BY <2>2, <2>4, <3>1, ReachesLess
  <2> QED
    BY <1>c, <2>1, <2>5
<1>3. ASSUME NEW p \in Partition, HandlerSucceeds(p) PROVE Reaches(handled', r[1], r[2])
  <2>1. loop = "handle" /\ handled' = handled \cup {<<p, at[p]>>}
    BY <1>3 DEF HandlerSucceeds, Standing
  <2>2. Reaches(handled', p, at[p])
    BY <1>a, <1>b, <2>1 DEF Resumable
  <2> QED
    BY <1>c, <2>1, <2>2
<1> QED
  BY <1>1, <1>2, <1>3, HandledFrame

\* A batch that is over is committed until the next one is in hand.
LEMMA SettledStep ==
    TypeOK /\ Standing /\ Settled /\ [Next]_vars => Settled'
<1> SUFFICES ASSUME TypeOK, Standing, Settled, [Next]_vars PROVE Settled'
  OBVIOUS
<1> USE DEF Settled, groupVars, batchVars, loopVars, mainVars, history
<1>a. /\ at \in [Partition -> Offset] /\ from \in [Partition -> Offset]
      /\ committed \in [Partition -> Offset]
      /\ \A p \in Partition : from[p] <= at[p]
  BY DEF TypeOK
<1>b. \A i \in Offset : i \in Nat
  BY KafkaAssumption DEF Offset
<1>1. ASSUME NEW p \in Partition, Revoke(p) PROVE Settled'
  BY <1>1 DEF Revoke, BatchCommitted
<1>2. ASSUME NEW p \in Partition, Restore(p) PROVE Settled'
  <2>1. PICK o \in committed[p]..LogEnd : committed' = [committed EXCEPT ![p] = o]
    BY <1>2 DEF Restore
  <2>2. o \in Nat /\ committed[p] \in Nat /\ committed[p] <= o
    BY <1>a, <1>b, <2>1, KafkaAssumption
  <2>3. UNCHANGED <<from, at, loop, commit, main, ctxDone, stopErr>>
    BY <1>2 DEF Restore
  <2>4. ASSUME BatchCommitted, NEW q \in Partition, from[q] < at[q] PROVE at[q] <= committed'[q]
    <3>1. at[q] \in Nat /\ at[q] <= committed[q]
      BY <1>a, <1>b, <2>4 DEF BatchCommitted
    <3>2. CASE q = p
      BY <1>a, <2>1, <2>2, <3>1, <3>2
    <3>3. CASE q # p
      BY <1>a, <2>1, <3>1, <3>3
    <3> QED
      BY <3>2, <3>3
  <2>5. BatchCommitted => BatchCommitted'
    BY <2>3, <2>4 DEF BatchCommitted
  <2> QED
    BY <2>3, <2>5
<1>3. CASE AccessLost
  BY <1>3 DEF AccessLost, BatchCommitted
<1>4. CASE Replace
  BY <1>4 DEF Replace, FreshLoop, FreshMain
<1>5. CASE LoopTop
  BY <1>5 DEF LoopTop, BatchCommitted
<1>6. CASE PollReturns
  BY <1>6 DEF PollReturns
<1>7. CASE ClientClosed
  BY <1>7 DEF ClientClosed, BatchCommitted
<1>8. CASE CheckFetch
  <2>1. BatchCommitted'
    <3>1. from' = at' /\ at' = at
      BY <1>8 DEF CheckFetch, Standing
    <3> QED
      BY <1>a, <1>b, <3>1 DEF BatchCommitted
  <2>2. loop = "fetched" /\ UNCHANGED <<commit, main, ctxDone, stopErr>>
    BY <1>8 DEF CheckFetch
  <2> QED
    BY <2>1, <2>2
<1>9. ASSUME NEW p \in Partition, Handler(p) PROVE Settled'
  <2>1. loop = "handle" /\ UNCHANGED <<loop, commit, main, ctxDone, stopErr>>
    BY <1>9 DEF Handler, HandlerSucceeds, HandlerFails, Standing
  <2> QED
    BY <2>1
<1>10. CASE Commit
  <2>1. loop = "handle" /\ UNCHANGED <<from, at, main, ctxDone, stopErr>>
    BY <1>10 DEF Commit, BatchOver
  <2>2. CASE at # from /\ commit' = "ok"
    <3>1. committed' = [p \in Partition |-> IF from[p] < at[p] THEN at[p] ELSE committed[p]]
      BY <1>10, <2>2 DEF Commit
    <3>2. BatchCommitted'
      BY <1>a, <1>b, <2>1, <3>1 DEF BatchCommitted
    <3> QED
      BY <2>1, <2>2, <3>2
  <2>3. CASE at # from /\ commit' \in {"cancelled", "refused"}
    <3>1. commit' = "cancelled" => ctxDone
      BY <1>10, <2>3 DEF Commit
    <3> QED
      BY <2>1, <2>3, <3>1
  <2>4. CASE at = from
    <3>1. BatchCommitted' /\ commit' = commit
      BY <1>10, <1>a, <1>b, <2>1, <2>4 DEF Commit, BatchCommitted
    <3> QED
      BY <2>1, <3>1
  <2> QED
    BY <1>10, <2>2, <2>3, <2>4 DEF Commit
<1>11. CASE Start
  <2>1. loop = "none" /\ at = from
    BY <1>11 DEF Start, Standing
  <2> QED
    BY <1>11, <1>a, <1>b, <2>1 DEF Start, BatchCommitted
<1>12. CASE Drain
  BY <1>12 DEF Drain, BatchCommitted
<1>13. CASE Shutdown
  <2>1. UNCHANGED <<from, at, committed, loop, commit>> /\ (ctxDone => ctxDone')
    BY <1>13 DEF Shutdown, StopTimeout, StopWaits, StopCancels, StopCloses
  <2>2. main' \in {"cancel", "close", "stopped"} /\ ~stopErr' =>
            loop = "gone" /\ commit # "cancelled"
    BY <1>13 DEF Shutdown, StopTimeout, StopWaits, StopCancels, StopCloses, Done, Standing
  <2> QED
    BY <2>1, <2>2 DEF BatchCommitted
<1>14. CASE Finished \/ UNCHANGED vars
  BY <1>14 DEF Finished, vars, BatchCommitted
<1> QED
  BY <1>1, <1>2, <1>3, <1>4, <1>5, <1>6, <1>7, <1>8, <1>9, <1>10, <1>11, <1>12, <1>13,
     <1>14 DEF Next, Group, Loop

-----------------------------------------------------------------------------
\* IInv holds at first and every step keeps it.
THEOREM Invariance == Spec => []IInv
<1>1. IInv /\ [Next]_vars => IInv'
  BY TypeStep, StandingStep, ResumableStep, OrderedStep, SettledStep DEF IInv
<1> QED
  BY InitIInv, <1>1, PTL DEF Spec

\* Every reachable state is well typed: in particular no goroutine runs past the
\* end of its batch (kafka.go:359-371).
THEOREM TypeCorrect == Spec => []TypeOK
<1>1. IInv => TypeOK
  BY DEF IInv
<1> QED
  BY Invariance, <1>1, PTL

\* The records of the commits, one offset at a time.
LEMMA CommittedPassed ==
    IInv => \A p \in Partition : Records(p, 0, committed[p]) \subseteq Passed
<1> SUFFICES ASSUME IInv, NEW p \in Partition PROVE Records(p, 0, committed[p]) \subseteq Passed
  OBVIOUS
<1>1. committed[p] \in Nat
  BY KafkaAssumption DEF IInv, TypeOK, Offset
<1>2. Reaches(Passed, p, committed[p])
  BY DEF IInv, Resumable
<1> QED
  BY <1>1, <1>2, ReachesRecords

\* Whatever fails and whenever the process is stopped, killed or loses a
\* partition, the group skips only what a failure abandoned (kafka.go:327-343).
THEOREM LossAlwaysByFailure == Spec => []LossOnlyByFailure
<1>1. IInv => LossOnlyByFailure
  BY CommittedPassed DEF LossOnlyByFailure, Passed
<1> QED
  BY Invariance, <1>1, PTL

\* Unless handlers fail of their own accord, the records of a partition are
\* handled in order, whoever handles them (kafka.go:311-315).
THEOREM AlwaysHandledInOrder == "handler" \notin Faults => (Spec => []HandledInOrder)
<1> SUFFICES ASSUME "handler" \notin Faults PROVE Spec => []HandledInOrder
  OBVIOUS
<1>1. IInv => HandledInOrder
  <2> SUFFICES ASSUME IInv, NEW r \in handled PROVE Records(r[1], 0, r[2]) \subseteq handled
    BY DEF HandledInOrder
  <2>1. r \in Partition \X (0..LogEnd - 1)
    BY DEF IInv, TypeOK, Record
  <2>2. r[2] \in Nat
    BY <2>1, KafkaAssumption
  <2>3. Reaches(handled, r[1], r[2])
    BY DEF IInv, Ordered
  <2> QED
    BY <2>2, <2>3, ReachesRecords
<1> QED
  BY Invariance, <1>1, PTL

\* A Stop that returned nil lost no finished work, unless the cluster refused
\* the last commit (kafka.go:338-343, 405-429).
THEOREM CleanStopAlwaysCommits == Spec => []CleanStopCommits
<1>1. IInv => CleanStopCommits
  BY DEF IInv, Settled, CleanStopCommits
<1> QED
  BY Invariance, <1>1, PTL

\* Once Drain has been called no handler is given new work (kafka.go:272-274).
THEOREM NeverABatchAfterDrain == Spec => NoBatchAfterDrain
<1>1. IInv /\ [Next]_vars => [closing /\ loop # "handle" => loop' # "handle"]_vars
  BY DEF IInv, Standing, Next, vars, Group, AccessLost, Revoke, Restore, Replace, Loop, LoopTop,
         PollReturns, ClientClosed, CheckFetch, PollCtxDone, Commit, Start, Drain, Shutdown,
         StopTimeout, StopWaits, StopCancels, StopCloses, Handler, HandlerSucceeds,
         HandlerFails, Finished, groupVars, batchVars, loopVars, mainVars, history
<1> QED
  BY Invariance, <1>1, PTL DEF Spec, NoBatchAfterDrain

\* A shutdown hands out nothing new and loses nothing that was finished.
THEOREM AlwaysDrainsCleanly == Spec => DrainsCleanly
BY CleanStopAlwaysCommits, NeverABatchAfterDrain, PTL DEF DrainsCleanly

\* Unless handlers fail of their own accord, the consumer implements
\* AtLeastOnce: the group resumes past a record only if a handler succeeded on
\* it (kafka.go:9).
THEOREM Refinement == "handler" \notin Faults => (Spec => KeepsAtLeastOnce)
<1> SUFFICES ASSUME "handler" \notin Faults PROVE Spec => KeepsAtLeastOnce
  OBVIOUS
<1> DEFINE settled == UNION {Records(p, 0, committed[p]) : p \in Partition}
<1>1. Init => Delivery!Init
  <2> SUFFICES ASSUME Init PROVE settled = {} /\ handled = {}
    BY DEF Delivery!Init
  <2>1. ASSUME NEW p \in Partition PROVE Records(p, 0, committed[p]) = {}
    <3>1. committed[p] = 0 /\ 0..committed[p] - 1 = {}
      BY DEF Init, Zero
    <3> QED
      BY <3>1 DEF Records
  <2> QED
    BY <2>1 DEF Init
<1>2. IInv /\ IInv' /\ [Next]_vars => [Delivery!Next]_(Delivery!vars)
  <2> SUFFICES ASSUME IInv, IInv', [Next]_vars
               PROVE  [Delivery!Next]_(Delivery!vars)
    OBVIOUS
  <2>1. CASE handled' = handled
    <3>1. Passed' = handled
      BY <2>1 DEF Passed
    <3>2. \A p \in Partition : Records(p, 0, committed'[p]) \subseteq handled
      <4>1. (\A p \in Partition : Records(p, 0, committed[p]) \subseteq Passed)'
        BY CommittedPassed, PTL
      <4> QED
        BY <3>1, <4>1 DEF Records
    <3>3. settled' \subseteq handled
      BY <3>2 DEF Records
    <3> QED
      BY <2>1, <3>3 DEF Delivery!Next, Delivery!Settle
  <2>2. ASSUME NEW p \in Partition, Revoke(p) \/ HandlerSucceeds(p)
        PROVE  [Delivery!Next]_(Delivery!vars)
    <3>1. settled' = settled
      BY <2>2 DEF Revoke, HandlerSucceeds, groupVars, Records
    <3>2. handled \subseteq handled' /\ handled' \subseteq Record
      BY Grows DEF IInv, TypeOK, Record
    <3> QED
      BY <3>1, <3>2 DEF Delivery!Next, Delivery!Succeed
  <2> QED
    BY <2>1, <2>2, HandledFrame
<1> QED
  BY Invariance, <1>1, <1>2, PTL DEF Spec, KeepsAtLeastOnce, Delivery!Spec
=============================================================================

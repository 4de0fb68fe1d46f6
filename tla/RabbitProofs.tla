---------------------------- MODULE RabbitProofs ----------------------------
(***************************************************************************)
(* The safety properties of Rabbit, for any set of messages, any prefetch  *)
(* window and any number of broken connections.                            *)
(***************************************************************************)
EXTENDS Rabbit, TLAPS

\* Deliveries, the consumer and a fresh delivery in hand live on a connection
\* that is up; one that is up is known to the Component or about to be.
Carried ==
    /\ conn # "up" => ~consuming /\ Unacked = {} /\ ~fresh
    /\ conn = "up" => installed \/ loop = "dialled"
    /\ installed => loop \notin {"none", "pause", "check", "dial", "dialled"}

\* What the loop holds in each of its states.
InHand ==
    /\ hand \in Msg <=> loop \in {"handle", "settle"}
    /\ fresh => hand \in Unacked /\ hand \notin buffer
    /\ loop = "settle" => verdict = "error" \/ (verdict = "ok" /\ hand \in handled)

\* How far Start and Stop have come, as far as the loop can tell.
Standing ==
    /\ main \in {"new", "failed"} <=> loop = "none"
    /\ main \in {"cancel", "close", "stopped"} /\ ~stopErr => loop = "gone"
    /\ main = "stopped" /\ ~stopErr => ~installed

\* The broker forgets a message only on the Component's word about that message.
SettledByVerdict ==
    \A m \in Msg : /\ place[m] = "acked" => m \in handled
                   /\ place[m] = "dropped" => DiscardOnError

\* A dial that shutdown finds under way is the one it may not stop.
Behind ==
    /\ main \in {"draining", "drained", "stopping", "waiting", "cancel", "close", "stopped"}
           => closing
    /\ closing /\ loop \in {"dial", "dialled"} => overtook
    /\ NothingNewBehindDrain

IInv ==
    TypeOK /\ Carried /\ InHand /\ Standing /\ Behind /\ SettledByVerdict /\ DeathMeansRefused

-----------------------------------------------------------------------------
\* Before Start there is no connection, and every message is on the queue.
LEMMA InitIInv == Init => IInv
<1> SUFFICES ASSUME Init PROVE IInv
  OBVIOUS
<1> USE RabbitAssumption DEF Init, Redialing, Unacked
<1>1. TypeOK
  <2>1. place \in [Msg -> {"queue", "unacked", "acked", "dropped"}]
    OBVIOUS
  <2>2. breaks \in 0..MaxBreaks
    OBVIOUS
  <2> QED
    BY <2>1, <2>2 DEF TypeOK
<1>2. Carried
  BY DEF Carried
<1>3. InHand
  BY DEF InHand
<1>4. Standing
  BY DEF Standing
<1>5. SettledByVerdict /\ DeathMeansRefused
  BY DEF SettledByVerdict, DeathMeansRefused
<1>6. Behind
  BY DEF Behind, NothingNewBehindDrain
<1> QED
  BY <1>1, <1>2, <1>3, <1>4, <1>5, <1>6 DEF IInv

\* The broker changes a message only between the queue and its consumer.
LEMMA BrokerStep == IInv /\ Broker => IInv'
<1> SUFFICES ASSUME IInv, Broker PROVE IInv'
  OBVIOUS
<1> USE RabbitAssumption DEF IInv, TypeOK, Redialing, Unacked, Carried, InHand, Standing,
       Behind, NothingNewBehindDrain, SettledByVerdict, DeathMeansRefused, brokerVars, connVars, loopVars, mainVars, history
<1>1. ASSUME NEW m \in Msg, BrokerSends(m) PROVE IInv'
  <2>1. TypeOK'
    BY <1>1 DEF BrokerSends
  <2>2. Carried'
    BY <1>1 DEF BrokerSends
  <2>3. InHand'
    BY <1>1 DEF BrokerSends
  <2>4. Standing'
    BY <1>1 DEF BrokerSends
  <2>5. SettledByVerdict' /\ DeathMeansRefused'
    BY <1>1 DEF BrokerSends
  <2>6. Behind'
    BY <1>1 DEF BrokerSends
  <2> QED
    BY <2>1, <2>2, <2>3, <2>4, <2>5, <2>6
<1>2. CASE BrokerHangsUp
  <2>1. TypeOK'
    <3>1. place' \in [Msg -> {"queue", "unacked", "acked", "dropped"}]
      BY <1>2 DEF BrokerHangsUp, Requeue
    <3>2. buffer' \subseteq Unacked'
      BY <1>2 DEF BrokerHangsUp, Requeue
    <3>3. breaks' \in 0..MaxBreaks
      BY <1>2 DEF BrokerHangsUp, Requeue
    <3>4. consuming' \in BOOLEAN /\ fresh' \in BOOLEAN
      BY <1>2 DEF BrokerHangsUp, Requeue
    <3> HIDE DEF Unacked, Carried, InHand, Standing, Behind, NothingNewBehindDrain,
             SettledByVerdict, DeathMeansRefused
    <3> QED
      BY <1>2, <3>1, <3>2, <3>3, <3>4 DEF BrokerHangsUp, Requeue
  <2>2. Carried'
    BY <1>2 DEF BrokerHangsUp, Requeue
  <2>3. InHand'
    BY <1>2 DEF BrokerHangsUp, Requeue
  <2>4. Standing'
    BY <1>2 DEF BrokerHangsUp, Requeue
  <2>5. SettledByVerdict' /\ DeathMeansRefused'
    BY <1>2 DEF BrokerHangsUp, Requeue
  <2>6. Behind'
    BY <1>2 DEF BrokerHangsUp, Requeue
  <2> QED
    BY <2>1, <2>2, <2>3, <2>4, <2>5, <2>6
<1>3. CASE BrokerReturns
  BY <1>3 DEF BrokerReturns
<1>4. CASE QueueDeleted
  <2>1. TypeOK'
    <3>1. place' \in [Msg -> {"queue", "unacked", "acked", "dropped"}]
      BY <1>4 DEF QueueDeleted
    <3>2. buffer' \subseteq Unacked'
      BY <1>4 DEF QueueDeleted
    <3>3. breaks' \in 0..MaxBreaks
      BY <1>4 DEF QueueDeleted
    <3>4. broker' \in {"up", "down", "refusing"} /\ consuming' \in BOOLEAN
      BY <1>4 DEF QueueDeleted
    <3> HIDE DEF Unacked, Carried, InHand, Standing, Behind, NothingNewBehindDrain,
             SettledByVerdict, DeathMeansRefused
    <3> QED
      BY <1>4, <3>1, <3>2, <3>3, <3>4 DEF QueueDeleted
  <2>2. Carried'
    BY <1>4 DEF QueueDeleted
  <2>3. InHand'
    BY <1>4 DEF QueueDeleted
  <2>4. Standing'
    BY <1>4 DEF QueueDeleted
  <2>5. SettledByVerdict' /\ DeathMeansRefused'
    BY <1>4 DEF QueueDeleted
  <2>6. Behind'
    BY <1>4 DEF QueueDeleted
  <2> QED
    BY <2>1, <2>2, <2>3, <2>4, <2>5, <2>6
<1> QED
  BY <1>1, <1>2, <1>3, <1>4 DEF Broker

\* The consume loop and its handler.
LEMMA LoopStep == IInv /\ (Loop \/ Handler) => IInv'
<1> SUFFICES ASSUME IInv, Loop \/ Handler PROVE IInv'
  OBVIOUS
<1> USE RabbitAssumption DEF IInv, TypeOK, Redialing, Unacked, Carried, InHand, Standing,
       Behind, NothingNewBehindDrain, SettledByVerdict, DeathMeansRefused, brokerVars, connVars, loopVars, mainVars, history
<1>1. ASSUME NEW m \in Msg, Receive(m) PROVE IInv'
  <2>1. TypeOK'
    BY <1>1 DEF Receive
  <2>2. Carried'
    BY <1>1 DEF Receive
  <2>3. InHand'
    BY <1>1 DEF Receive
  <2>4. Standing'
    BY <1>1 DEF Receive
  <2>5. SettledByVerdict' /\ DeathMeansRefused'
    BY <1>1 DEF Receive
  <2>6. Behind'
    BY <1>1 DEF Receive
  <2> QED
    BY <2>1, <2>2, <2>3, <2>4, <2>5, <2>6
<1>2. CASE Settle
  <2>1. TypeOK'
    <3>1. place' \in [Msg -> {"queue", "unacked", "acked", "dropped"}]
      BY <1>2 DEF Settle, Covers, Outcome
    <3>2. buffer' \subseteq Unacked'
      BY <1>2 DEF Settle, Covers, Outcome
    <3>3. breaks' \in 0..MaxBreaks
      BY <1>2 DEF Settle, Covers, Outcome
    <3>4. fresh' \in BOOLEAN /\ hand' \in Msg \cup {NoMsg}
      BY <1>2 DEF Settle, Covers, Outcome
    <3> HIDE DEF Unacked, Carried, InHand, Standing, Behind, NothingNewBehindDrain,
             SettledByVerdict, DeathMeansRefused
    <3> QED
      BY <1>2, <3>1, <3>2, <3>3, <3>4 DEF Settle, Covers, Outcome
  <2>2. Carried'
    BY <1>2 DEF Settle, Covers, Outcome
  <2>3. InHand'
    BY <1>2 DEF Settle, Covers, Outcome
  <2>4. Standing'
    BY <1>2 DEF Settle, Covers, Outcome
  <2>5. SettledByVerdict' /\ DeathMeansRefused'
    BY <1>2 DEF Settle, Covers, Outcome
  <2>6. Behind'
    BY <1>2 DEF Settle, Covers, Outcome
  <2> QED
    BY <2>1, <2>2, <2>3, <2>4, <2>5, <2>6
<1>3. CASE StreamCloses
  BY <1>3 DEF StreamCloses
<1>4. CASE GoHome
  BY <1>4 DEF GoHome
<1>5. CASE BeginRedial
  <2>1. TypeOK'
    <3>1. place' \in [Msg -> {"queue", "unacked", "acked", "dropped"}]
      BY <1>5 DEF BeginRedial, CloseBroker, Requeue
    <3>2. buffer' \subseteq Unacked'
      BY <1>5 DEF BeginRedial, CloseBroker, Requeue
    <3>3. breaks' \in 0..MaxBreaks
      BY <1>5 DEF BeginRedial, CloseBroker, Requeue
    <3>4. consuming' \in BOOLEAN /\ fresh' \in BOOLEAN /\ conn' \in {"none", "up", "down"}
      BY <1>5 DEF BeginRedial, CloseBroker, Requeue
    <3> HIDE DEF Unacked, Carried, InHand, Standing, Behind, NothingNewBehindDrain,
             SettledByVerdict, DeathMeansRefused
    <3>5. loop' = "pause" /\ installed' = FALSE
      BY <1>5 DEF BeginRedial, CloseBroker
    <3>6. UNCHANGED <<broker, breaks, hand, verdict, fatal, main, closing>>
      BY <1>5 DEF BeginRedial
    <3>7. UNCHANGED <<ctxDone, expired, stopErr, handled, failed, overtook>>
      BY <1>5 DEF BeginRedial
    <3>8. /\ broker' \in {"up", "down", "refusing"} /\ installed' \in BOOLEAN
          /\ loop' \in {"none", "recv", "handle", "settle", "gone"} \cup Redialing
          /\ hand' \in Msg \cup {NoMsg} /\ verdict' \in {"none", "ok", "error"}
          /\ fatal' \in BOOLEAN
      BY <3>5, <3>6
    <3>9. /\ main' \in {"new", "failed", "running", "draining", "drained", "stopping",
                       "waiting", "cancel", "close", "stopped"}
          /\ closing' \in BOOLEAN /\ ctxDone' \in BOOLEAN /\ expired' \in BOOLEAN
          /\ stopErr' \in BOOLEAN /\ handled' \subseteq Msg /\ failed' \subseteq Msg
          /\ overtook' \in BOOLEAN
      BY <3>5, <3>6, <3>7
    <3> QED
      BY <3>1, <3>2, <3>3, <3>4, <3>8, <3>9
  <2>2. Carried'
    BY <1>5 DEF BeginRedial, CloseBroker, Requeue
  <2>3. InHand'
    BY <1>5 DEF BeginRedial, CloseBroker, Requeue
  <2>4. Standing'
    BY <1>5 DEF BeginRedial, CloseBroker, Requeue
  <2>5. SettledByVerdict' /\ DeathMeansRefused'
    BY <1>5 DEF BeginRedial, CloseBroker, Requeue
  <2>6. Behind'
    BY <1>5 DEF BeginRedial, CloseBroker, Requeue
  <2> QED
    BY <2>1, <2>2, <2>3, <2>4, <2>5, <2>6
<1>6. CASE PauseEnds
  BY <1>6 DEF PauseEnds
<1>7. CASE CheckClosing
  BY <1>7 DEF CheckClosing
<1>8. CASE DialConsumes
  BY <1>8 DEF DialConsumes
<1>9. CASE DialFails
  BY <1>9 DEF DialFails
<1>10. CASE DialRefused
  BY <1>10 DEF DialRefused, Permanent
<1>11. CASE Install
  BY <1>11 DEF Install
<1>12. CASE HandlerSucceeds
  BY <1>12 DEF HandlerSucceeds
<1>13. CASE HandlerFails
  BY <1>13 DEF HandlerFails
<1> QED
  BY <1>1, <1>2, <1>3, <1>4, <1>5, <1>6, <1>7, <1>8, <1>9, <1>10, <1>11, <1>12, <1>13
     DEF Loop, Handler

\* Start, Drain and Stop.
LEMMA MainStep == IInv /\ (Start \/ DrainMarks \/ Shutdown \/ Finished \/ UNCHANGED vars) => IInv'
<1> SUFFICES ASSUME IInv, Start \/ DrainMarks \/ Shutdown \/ Finished \/ UNCHANGED vars
             PROVE  IInv'
  OBVIOUS
<1> USE RabbitAssumption DEF IInv, TypeOK, Redialing, Unacked, Carried, InHand, Standing,
       Behind, NothingNewBehindDrain, SettledByVerdict, DeathMeansRefused, brokerVars, connVars, loopVars, mainVars, history
<1>1. CASE Start
  <2>1. TypeOK'
    BY <1>1 DEF Start
  <2>2. Carried'
    BY <1>1 DEF Start
  <2>3. InHand'
    BY <1>1 DEF Start
  <2>4. Standing'
    BY <1>1 DEF Start
  <2>5. SettledByVerdict' /\ DeathMeansRefused'
    BY <1>1 DEF Start
  <2>6. Behind'
    BY <1>1 DEF Start
  <2> QED
    BY <2>1, <2>2, <2>3, <2>4, <2>5, <2>6
<1>2. CASE DrainMarks
  <2>1. TypeOK'
    <3> HIDE DEF Unacked, Carried, InHand, Standing, Behind, NothingNewBehindDrain,
             SettledByVerdict, DeathMeansRefused
    <3>0. overtook' = (overtook \/ (~closing /\ loop \in {"dial", "dialled"}))
      BY <1>2 DEF DrainMarks
    <3>1. overtook' \in BOOLEAN
      BY <3>0, Zenon
    <3>4. main' \in {"draining", "stopping"} /\ closing' = TRUE
      BY <1>2 DEF DrainMarks
    <3>2. UNCHANGED <<ctxDone, expired, stopErr, handled, failed, brokerVars, connVars, loopVars>>
      BY <1>2 DEF DrainMarks
    <3>3. buffer' \subseteq Unacked'
      BY <3>2 DEF Unacked
    <3> QED
      BY <3>1, <3>2, <3>3, <3>4
  <2>2. Carried' /\ InHand' /\ Standing'
    BY <1>2 DEF DrainMarks
  <2>3. SettledByVerdict' /\ DeathMeansRefused'
    BY <1>2 DEF DrainMarks
  <2>4. Behind'
    BY <1>2 DEF DrainMarks
  <2> QED
    BY <2>1, <2>2, <2>3, <2>4
<1>3. CASE DrainCancels
  <2>1. TypeOK'
    <3>1. place' \in [Msg -> {"queue", "unacked", "acked", "dropped"}]
      BY <1>3 DEF DrainCancels
    <3>2. buffer' \subseteq Unacked'
      BY <1>3 DEF DrainCancels
    <3>3. breaks' \in 0..MaxBreaks
      BY <1>3 DEF DrainCancels
    <3>4. consuming' \in BOOLEAN /\ main' \in {"drained", "waiting"}
      BY <1>3 DEF DrainCancels
    <3> HIDE DEF Unacked, Carried, InHand, Standing, Behind, NothingNewBehindDrain,
             SettledByVerdict, DeathMeansRefused
    <3>5. UNCHANGED <<broker, conn, installed, loop, hand, fresh, verdict, fatal>>
      BY <1>3 DEF DrainCancels
    <3>6. UNCHANGED <<closing, ctxDone, expired, stopErr, handled, failed, overtook>>
      BY <1>3 DEF DrainCancels
    <3> QED
      BY <3>1, <3>2, <3>3, <3>4, <3>5, <3>6
  <2>2. Carried'
    BY <1>3 DEF DrainCancels
  <2>3. InHand'
    BY <1>3 DEF DrainCancels
  <2>4. Standing'
    BY <1>3 DEF DrainCancels
  <2>5. SettledByVerdict' /\ DeathMeansRefused'
    BY <1>3 DEF DrainCancels
  <2>6. Behind'
    BY <1>3 DEF DrainCancels
  <2> QED
    BY <2>1, <2>2, <2>3, <2>4, <2>5, <2>6
<1>4. CASE StopTimeout
  BY <1>4 DEF StopTimeout
<1>5. CASE StopWaits
  <2>1. TypeOK'
    <3> HIDE DEF Carried, InHand, Standing, Behind, NothingNewBehindDrain,
             SettledByVerdict, DeathMeansRefused
    <3>1. main' = "cancel" /\ stopErr' \in BOOLEAN
      BY <1>5 DEF StopWaits
    <3>2. UNCHANGED <<closing, ctxDone, expired, brokerVars, connVars, loopVars, history>>
      BY <1>5 DEF StopWaits
    <3> QED
      BY <3>1, <3>2
  <2>2. Carried'
    BY <1>5 DEF StopWaits
  <2>3. InHand'
    BY <1>5 DEF StopWaits
  <2>4. Standing'
    BY <1>5 DEF StopWaits
  <2>5. SettledByVerdict' /\ DeathMeansRefused'
    BY <1>5 DEF StopWaits
  <2>6. Behind'
    BY <1>5 DEF StopWaits
  <2> QED
    BY <2>1, <2>2, <2>3, <2>4, <2>5, <2>6
<1>6. CASE StopCancels
  BY <1>6 DEF StopCancels
<1>7. CASE StopCloses
  <2>1. TypeOK'
    <3>1. place' \in [Msg -> {"queue", "unacked", "acked", "dropped"}]
      BY <1>7 DEF StopCloses, CloseBroker, Requeue
    <3>2. buffer' \subseteq Unacked'
      BY <1>7 DEF StopCloses, CloseBroker, Requeue
    <3>3. breaks' \in 0..MaxBreaks
      BY <1>7 DEF StopCloses, CloseBroker, Requeue
    <3>4. consuming' \in BOOLEAN /\ fresh' \in BOOLEAN /\ conn' \in {"none", "up", "down"}
      BY <1>7 DEF StopCloses, CloseBroker, Requeue
    <3> HIDE DEF Unacked, Carried, InHand, Standing, Behind, NothingNewBehindDrain,
             SettledByVerdict, DeathMeansRefused
    <3>5. main' = "stopped" /\ installed' = FALSE
      BY <1>7 DEF StopCloses, CloseBroker
    <3>6. UNCHANGED <<broker, breaks, loop, hand, verdict, fatal>>
      BY <1>7 DEF StopCloses
    <3>7. UNCHANGED <<closing, ctxDone, expired, stopErr, handled, failed, overtook>>
      BY <1>7 DEF StopCloses
    <3>8. /\ broker' \in {"up", "down", "refusing"} /\ installed' \in BOOLEAN
          /\ loop' \in {"none", "recv", "handle", "settle", "gone"} \cup Redialing
          /\ hand' \in Msg \cup {NoMsg} /\ verdict' \in {"none", "ok", "error"}
          /\ fatal' \in BOOLEAN
      BY <3>5, <3>6
    <3>9. /\ main' \in {"new", "failed", "running", "draining", "drained", "stopping",
                       "waiting", "cancel", "close", "stopped"}
          /\ closing' \in BOOLEAN /\ ctxDone' \in BOOLEAN /\ expired' \in BOOLEAN
          /\ stopErr' \in BOOLEAN /\ handled' \subseteq Msg /\ failed' \subseteq Msg
          /\ overtook' \in BOOLEAN
      BY <3>5, <3>6, <3>7
    <3> QED
      BY <3>1, <3>2, <3>3, <3>4, <3>8, <3>9
  <2>2. Carried'
    BY <1>7 DEF StopCloses, CloseBroker, Requeue
  <2>3. InHand'
    BY <1>7 DEF StopCloses, CloseBroker, Requeue
  <2>4. Standing'
    BY <1>7 DEF StopCloses, CloseBroker, Requeue
  <2>5. SettledByVerdict' /\ DeathMeansRefused'
    BY <1>7 DEF StopCloses, CloseBroker, Requeue
  <2>6. Behind'
    BY <1>7 DEF StopCloses, CloseBroker, Requeue
  <2> QED
    BY <2>1, <2>2, <2>3, <2>4, <2>5, <2>6
<1>8. CASE Finished \/ UNCHANGED vars
  BY <1>8 DEF Finished, vars
<1> QED
  BY <1>1, <1>2, <1>3, <1>4, <1>5, <1>6, <1>7, <1>8 DEF Shutdown

\* IInv holds at first and every step keeps it.
THEOREM Invariance == Spec => []IInv
<1>1. IInv /\ [Next]_vars => IInv'
  BY BrokerStep, LoopStep, MainStep DEF Next
<1> QED
  BY InitIInv, <1>1, PTL DEF Spec

\* Every reachable state is well typed: in particular the client never buffers
\* a delivery the broker does not count as unacknowledged.
THEOREM TypeCorrect == Spec => []TypeOK
<1>1. IInv => TypeOK
  BY DEF IInv
<1> QED
  BY Invariance, <1>1, PTL

\* Behind a Drain no consumer is left and none comes back, unless a dial was
\* under way when shutdown began (rabbit.go:256-268, 325-341).
THEOREM NothingNewEverBehindDrain == Spec => []NothingNewBehindDrain
<1>1. IInv => NothingNewBehindDrain
  BY DEF IInv, Behind
<1> QED
  BY Invariance, <1>1, PTL

\* After a Stop that returned nil there is no connection, no consumer and no
\* unsettled delivery, wherever a redial stood (rabbit.go:345-370).
THEOREM CleanStopAlwaysLeavesNothing == Spec => []CleanStopLeavesNothing
<1>1. IInv => CleanStopLeavesNothing
  BY RabbitAssumption
     DEF IInv, TypeOK, Carried, InHand, Standing, CleanStopLeavesNothing
<1> QED
  BY Invariance, <1>1, PTL

\* The loop dies only of a broker that refuses it (rabbit.go:247-250).
THEOREM DeathAlwaysMeansRefused == Spec => []DeathMeansRefused
<1>1. IInv => DeathMeansRefused
  BY DEF IInv
<1> QED
  BY Invariance, <1>1, PTL

\* A consumer ends with nothing left behind, or because it was refused.
THEOREM AlwaysEndsHonestly == Spec => []EndsHonestly
<1>1. CleanStopLeavesNothing /\ DeathMeansRefused => EndsHonestly
  BY DEF EndsHonestly
<1> QED
  BY CleanStopAlwaysLeavesNothing, DeathAlwaysMeansRefused, <1>1, PTL

\* When errors requeue, the consumer implements AtLeastOnce: nothing is settled
\* that no handler finished (rabbit.go:9).
THEOREM Refinement == ~DiscardOnError => (Spec => KeepsAtLeastOnce)
<1> SUFFICES ASSUME ~DiscardOnError PROVE Spec => KeepsAtLeastOnce
  OBVIOUS
<1> DEFINE settled == {m \in Msg : place[m] \in {"acked", "dropped"}}
<1>1. Init => Delivery!Init
  BY DEF Init, Delivery!Init
<1>2. IInv /\ IInv' /\ [Next]_vars => [Delivery!Next]_(Delivery!vars)
  <2> SUFFICES ASSUME IInv, IInv', [Next]_vars
               PROVE  [Delivery!Next]_(Delivery!vars)
    OBVIOUS
  <2>1. CASE HandlerSucceeds
    <3>1. hand \in Msg /\ handled \subseteq Msg
      BY <2>1 DEF HandlerSucceeds, IInv, InHand, TypeOK
    <3>2. handled' = handled \cup {hand} /\ place' = place
      BY <2>1 DEF HandlerSucceeds, brokerVars
    <3> QED
      BY <3>1, <3>2 DEF Delivery!Next, Delivery!Succeed
  <2>2. CASE handled' = handled
    <3>1. settled' \subseteq handled'
      BY DEF IInv, SettledByVerdict
    <3> QED
      BY <2>2, <3>1 DEF Delivery!Next, Delivery!Settle
  <2>3. HandlerSucceeds \/ handled' = handled
    BY DEF Next, Broker, BrokerHangsUp, BrokerReturns, QueueDeleted, BrokerSends, Loop, Receive,
           Settle, StreamCloses, GoHome, BeginRedial, PauseEnds, CheckClosing, DialConsumes,
           DialFails, DialRefused, Install, Handler, HandlerFails, Start, DrainMarks, Shutdown,
           DrainCancels, StopTimeout, StopWaits, StopCancels, StopCloses, Finished, vars, history
  <2> QED
    BY <2>1, <2>2, <2>3
<1> QED
  BY Invariance, <1>1, <1>2, PTL DEF Spec, KeepsAtLeastOnce, Delivery!Spec
=============================================================================

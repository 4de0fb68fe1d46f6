------------------------------- MODULE Rabbit -------------------------------
(***************************************************************************)
(* The RabbitMQ consumer of rabbit/rabbit.go: the consume loop (receive,   *)
(* handle, settle, redial), the goroutine that calls Start, Drain and      *)
(* Stop, and the broker at the other end.                                  *)
(*                                                                         *)
(* The broker and the AMQP client are external, modelled from how the      *)
(* loop uses them: cancelling a consumer stops new deliveries, hands over  *)
(* those already sent and then closes the stream; losing or closing a      *)
(* connection puts every unacknowledged delivery back on the queue, drops  *)
(* what the client had buffered and makes later acknowledgements fail.     *)
(*                                                                         *)
(* A definition marked as a mutant is the one after it with a bug; nothing *)
(* uses it but the checks that a property would notice the bug.            *)
(***************************************************************************)
EXTENDS Naturals, FiniteSets

CONSTANTS
    Msg,
    NoMsg,
    Prefetch,       \* cfg.Prefetch, after New's default
    DiscardOnError, \* cfg.DiscardOnError
    MaxBreaks       \* bound: how often the broker cuts connections or restarts

ASSUME RabbitAssumption ==
    /\ NoMsg \notin Msg
    /\ Prefetch \in Nat \ {0}
    /\ DiscardOnError \in BOOLEAN
    /\ MaxBreaks \in Nat

VARIABLES
    \* the broker
    broker,     \* "up", "down", or "refusing": the queue or the access is gone
    place,      \* [Msg -> queue/unacked/acked/dropped], as the broker sees it
    consuming,  \* our consumer is registered
    breaks,
    \* the connection and the client's buffer
    conn,       \* the last connection dialled: "none", "up" or "down"
    installed,  \* c.conn and c.ch hold it
    buffer,     \* delivered and not yet received by the loop
    \* the consume loop
    loop, hand, fresh, verdict,
    fatal,      \* c.fatal, and the error on the death channel
    \* Start, Drain, Stop
    main, closing, ctxDone, expired, stopErr,
    \* history
    handled,    \* messages a handler has returned nil for
    failed,     \* messages a handler failed on without having been interrupted
    overtook    \* shutdown began while a redial was inside dial

brokerVars == <<broker, place, consuming, breaks>>
connVars   == <<conn, installed, buffer>>
loopVars   == <<loop, hand, fresh, verdict, fatal>>
mainVars   == <<main, closing, ctxDone, expired, stopErr>>
history    == <<handled, failed, overtook>>
vars == <<brokerVars, connVars, loopVars, mainVars, history>>

Redialing == {"ended", "pause", "check", "dial", "dialled"}
Unacked == {m \in Msg : place[m] = "unacked"}

TypeOK ==
    /\ broker \in {"up", "down", "refusing"}
    /\ place \in [Msg -> {"queue", "unacked", "acked", "dropped"}]
    /\ consuming \in BOOLEAN
    /\ breaks \in 0..MaxBreaks
    /\ conn \in {"none", "up", "down"}
    /\ installed \in BOOLEAN
    /\ buffer \subseteq Unacked
    /\ loop \in {"none", "recv", "handle", "settle", "gone"} \cup Redialing
    /\ hand \in Msg \cup {NoMsg}
    /\ fresh \in BOOLEAN
    /\ verdict \in {"none", "ok", "error"}
    /\ fatal \in BOOLEAN
    /\ main \in {"new", "failed", "running", "draining", "drained", "stopping", "waiting",
                 "cancel", "close", "stopped"}
    /\ closing \in BOOLEAN /\ ctxDone \in BOOLEAN /\ expired \in BOOLEAN /\ stopErr \in BOOLEAN
    /\ handled \subseteq Msg /\ failed \subseteq Msg /\ overtook \in BOOLEAN

Init ==
    /\ broker \in {"up", "down", "refusing"}
    /\ place = [m \in Msg |-> "queue"]
    /\ consuming = FALSE /\ breaks = 0
    /\ conn = "none" /\ installed = FALSE /\ buffer = {}
    /\ loop = "none" /\ hand = NoMsg /\ fresh = FALSE /\ verdict = "none" /\ fatal = FALSE
    /\ main = "new" /\ closing = FALSE /\ ctxDone = FALSE /\ expired = FALSE /\ stopErr = FALSE
    /\ handled = {} /\ failed = {} /\ overtook = FALSE

-----------------------------------------------------------------------------
(* The broker                                                               *)

\* A connection goes away under the client, or is closed by it: every delivery
\* it carried and nobody settled is back on the queue.
Requeue ==
    /\ place' = [m \in Msg |-> IF place[m] = "unacked" THEN "queue" ELSE place[m]]
    /\ consuming' = FALSE
    /\ buffer' = {}
    /\ fresh' = FALSE

BrokerSends(m) ==
    /\ consuming /\ place[m] = "queue"
    /\ Cardinality(Unacked) < Prefetch
    /\ place' = [place EXCEPT ![m] = "unacked"]
    /\ buffer' = buffer \cup {m}
    /\ UNCHANGED <<broker, consuming, breaks, conn, installed>>
    /\ UNCHANGED <<loopVars, mainVars, history>>

\* The connection is cut; the broker may be gone with it.
BrokerHangsUp ==
    /\ broker = "up" /\ breaks < MaxBreaks
    /\ broker' \in {"up", "down"}
    /\ breaks' = breaks + 1
    /\ conn' = IF conn = "up" THEN "down" ELSE conn
    /\ Requeue
    /\ UNCHANGED <<installed, loop, hand, verdict, fatal>>
    /\ UNCHANGED <<mainVars, history>>

BrokerReturns ==
    /\ broker = "down"
    /\ broker' = "up"
    /\ UNCHANGED <<place, consuming, breaks>>
    /\ UNCHANGED <<connVars, loopVars, mainVars, history>>

\* The queue is deleted: the broker cancels its consumers and refuses new ones.
QueueDeleted ==
    /\ broker = "up"
    /\ broker' = "refusing"
    /\ consuming' = FALSE
    /\ UNCHANGED <<place, breaks>>
    /\ UNCHANGED <<connVars, loopVars, mainVars, history>>

-----------------------------------------------------------------------------
(* The consume loop                                                         *)

Receive(m) ==
    /\ loop = "recv" /\ m \in buffer
    /\ buffer' = buffer \ {m}
    /\ hand' = m /\ fresh' = TRUE
    /\ loop' = "handle"
    /\ UNCHANGED <<conn, installed, verdict, fatal>>
    /\ UNCHANGED <<brokerVars, mainVars, history>>

\* The Handler returns; a panic is one of the ways to fail.
HandlerSucceeds ==
    /\ loop = "handle"
    /\ verdict' = "ok" /\ handled' = handled \cup {hand}
    /\ loop' = "settle"
    /\ UNCHANGED <<hand, fresh, fatal, failed, overtook>>
    /\ UNCHANGED <<brokerVars, connVars, mainVars>>

HandlerFails ==
    /\ loop = "handle"
    /\ verdict' = "error" /\ failed' = IF ctxDone THEN failed ELSE failed \cup {hand}
    /\ loop' = "settle"
    /\ UNCHANGED <<hand, fresh, fatal, handled, overtook>>
    /\ UNCHANGED <<brokerVars, connVars, mainVars>>

\* One settlement covers one delivery.  Mutant: Ack(true), all before it as well.
CoversEarlier == Unacked
Covers == {hand}

\* Mutant: an error is acknowledged like a success.
OutcomeAck == "acked"
Outcome ==
    IF verdict = "ok" THEN "acked" ELSE IF DiscardOnError THEN "dropped" ELSE "queue"

\* Ack, or Nack with or without requeue.  On a connection that is gone both
\* fail and the error is only logged.
Settle ==
    /\ loop = "settle"
    /\ place' = IF fresh THEN [m \in Msg |-> IF m \in Covers THEN Outcome ELSE place[m]]
                ELSE place
    /\ hand' = NoMsg /\ fresh' = FALSE /\ verdict' = "none"
    /\ loop' = "recv"
    /\ UNCHANGED <<broker, consuming, breaks, fatal>>
    /\ UNCHANGED <<connVars, mainVars, history>>

\* The stream closes once what was sent has been handed over.
StreamCloses ==
    /\ loop = "recv" /\ buffer = {} /\ ~consuming
    /\ loop' = "ended"
    /\ UNCHANGED <<hand, fresh, verdict, fatal>>
    /\ UNCHANGED <<brokerVars, connVars, mainVars, history>>

GoHome ==
    /\ loop = "ended" /\ closing
    /\ loop' = "gone"
    /\ UNCHANGED <<hand, fresh, verdict, fatal>>
    /\ UNCHANGED <<brokerVars, connVars, mainVars, history>>

\* Mutant: the connection is forgotten and left open.
CloseBrokerLeaks == installed' = FALSE /\ UNCHANGED <<conn, place, consuming, buffer, fresh>>

\* closeBroker: forget the connection, if there is one, and close it.
CloseBroker ==
    /\ installed' = FALSE
    /\ IF installed
       THEN conn' = "none" /\ Requeue
       ELSE UNCHANGED <<conn, place, consuming, buffer, fresh>>

BeginRedial ==
    /\ loop = "ended" /\ ~closing
    /\ CloseBroker
    /\ loop' = "pause"
    /\ UNCHANGED <<broker, breaks, hand, verdict, fatal>>
    /\ UNCHANGED <<mainVars, history>>

\* redial's select: the handlers' context, or the delay.
PauseEnds ==
    /\ loop = "pause"
    /\ \/ loop' = "check"
       \/ ctxDone /\ loop' = "gone"
    /\ UNCHANGED <<hand, fresh, verdict, fatal>>
    /\ UNCHANGED <<brokerVars, connVars, mainVars, history>>

\* Mutant: the pause over, it dials.
CheckNothing ==
    /\ loop = "check"
    /\ loop' = "dial"
    /\ UNCHANGED <<hand, fresh, verdict, fatal>>
    /\ UNCHANGED <<brokerVars, connVars, mainVars, history>>

CheckClosing ==
    /\ loop = "check"
    /\ loop' = IF closing THEN "gone" ELSE "dial"
    /\ UNCHANGED <<hand, fresh, verdict, fatal>>
    /\ UNCHANGED <<brokerVars, connVars, mainVars, history>>

\* dial ignores its context: nothing but the network ends it.  It registers the
\* consumer before it installs the connection.
DialConsumes ==
    /\ loop = "dial" /\ broker = "up"
    /\ conn' = "up" /\ consuming' = TRUE
    /\ loop' = "dialled"
    /\ UNCHANGED <<broker, place, breaks, installed, buffer, hand, fresh, verdict, fatal>>
    /\ UNCHANGED <<mainVars, history>>

\* permanent: the broker refuses, rather than the network failing.  Mutant: any
\* error is.
PermanentAny == broker # "up"
Permanent == broker = "refusing"

\* Mutant: redial returns after one attempt.
DialFailsOnce ==
    /\ loop = "dial" /\ broker # "up" /\ ~Permanent
    /\ loop' = "gone"
    /\ UNCHANGED <<hand, fresh, verdict, fatal>>
    /\ UNCHANGED <<brokerVars, connVars, mainVars, history>>

DialFails ==
    /\ loop = "dial" /\ broker # "up" /\ ~Permanent
    /\ loop' = "pause"
    /\ UNCHANGED <<hand, fresh, verdict, fatal>>
    /\ UNCHANGED <<brokerVars, connVars, mainVars, history>>

\* The error goes to Check and on the death channel.
DialRefused ==
    /\ loop = "dial" /\ broker # "up" /\ Permanent
    /\ fatal' = TRUE
    /\ loop' = "gone"
    /\ UNCHANGED <<hand, fresh, verdict>>
    /\ UNCHANGED <<brokerVars, connVars, mainVars, history>>

Install ==
    /\ loop = "dialled"
    /\ installed' = TRUE
    /\ loop' = "recv"
    /\ UNCHANGED <<conn, buffer, hand, fresh, verdict, fatal>>
    /\ UNCHANGED <<brokerVars, mainVars, history>>

-----------------------------------------------------------------------------
(* Start, Drain and Stop                                                    *)

Start ==
    /\ main = "new"
    /\ IF broker = "up"
       THEN /\ conn' = "up" /\ consuming' = TRUE /\ installed' = TRUE
            /\ loop' = "recv" /\ main' = "running"
       ELSE main' = "failed" /\ UNCHANGED <<conn, consuming, installed, loop>>
    /\ UNCHANGED <<broker, place, breaks, buffer, hand, fresh, verdict, fatal>>
    /\ UNCHANGED <<closing, ctxDone, expired, stopErr, history>>

\* Drain stores the flag, then reads c.ch; Stop begins with a Drain of its own,
\* with or without one before it.
DrainMarks ==
    /\ \/ main = "running" /\ main' \in {"draining", "stopping"}
       \/ main = "drained" /\ main' = "stopping"
    /\ closing' = TRUE
    /\ overtook' = (overtook \/ (~closing /\ loop \in {"dial", "dialled"}))
    /\ UNCHANGED <<ctxDone, expired, stopErr, handled, failed>>
    /\ UNCHANGED <<brokerVars, connVars, loopVars>>

DrainCancels ==
    /\ \/ main = "draining" /\ main' = "drained"
       \/ main = "stopping" /\ main' = "waiting"
    /\ consuming' = IF installed THEN FALSE ELSE consuming
    /\ UNCHANGED <<broker, place, breaks, closing, ctxDone, expired, stopErr>>
    /\ UNCHANGED <<connVars, loopVars, history>>

StopTimeout ==
    /\ main = "waiting" /\ ~expired
    /\ expired' = TRUE
    /\ UNCHANGED <<main, closing, ctxDone, stopErr>>
    /\ UNCHANGED <<brokerVars, connVars, loopVars, history>>

\* Mutant: Stop waits for the loop whatever becomes of its context.
StopWaitsForever ==
    /\ main = "waiting" /\ loop = "gone"
    /\ stopErr' = FALSE /\ main' = "cancel"
    /\ UNCHANGED <<closing, ctxDone, expired>>
    /\ UNCHANGED <<brokerVars, connVars, loopVars, history>>

StopWaits ==
    /\ main = "waiting"
    /\ \/ loop = "gone" /\ stopErr' = FALSE
       \/ expired /\ stopErr' = TRUE
    /\ main' = "cancel"
    /\ UNCHANGED <<closing, ctxDone, expired>>
    /\ UNCHANGED <<brokerVars, connVars, loopVars, history>>

\* The handlers' context goes first, the connection after it.
StopCancels ==
    /\ main = "cancel"
    /\ ctxDone' = TRUE
    /\ main' = "close"
    /\ UNCHANGED <<closing, expired, stopErr>>
    /\ UNCHANGED <<brokerVars, connVars, loopVars, history>>

StopCloses ==
    /\ main = "close"
    /\ CloseBroker
    /\ main' = "stopped"
    /\ UNCHANGED <<broker, breaks, loop, hand, verdict, fatal>>
    /\ UNCHANGED <<closing, ctxDone, expired, stopErr, history>>

\* Nothing was started, or nothing is left to do.
Finished ==
    /\ main \in {"failed", "stopped"}
    /\ UNCHANGED vars

-----------------------------------------------------------------------------
Broker == BrokerHangsUp \/ BrokerReturns \/ QueueDeleted \/ \E m \in Msg : BrokerSends(m)

Loop ==
    \/ \E m \in Msg : Receive(m)
    \/ Settle \/ StreamCloses \/ GoHome \/ BeginRedial \/ PauseEnds \/ CheckClosing
    \/ DialConsumes \/ DialFails \/ DialRefused \/ Install

Handler == HandlerSucceeds \/ HandlerFails

\* What Drain and Stop do once called; calling them is up to the App.
Shutdown == DrainCancels \/ StopTimeout \/ StopWaits \/ StopCancels \/ StopCloses

Next == Broker \/ Loop \/ Handler \/ Start \/ DrainMarks \/ Shutdown \/ Finished

Spec == Init /\ [][Next]_vars

\* The loop and the stopping goroutine run, timers fire, a broker that went
\* down comes back, and a handler returns at the latest when its context is
\* cancelled: one that never returns is what StopTimeout is for.
Fairness ==
    /\ WF_vars(Loop)
    /\ WF_vars(Shutdown)
    /\ WF_vars(BrokerReturns)
    /\ WF_vars(ctxDone /\ Handler)

FairSpec == Spec /\ Fairness

-----------------------------------------------------------------------------
(* Properties                                                               *)

\* "Drain stops the broker sending new deliveries" (rabbit.go:325): once its
\* cancel is through, whatever a redial was doing, no consumer of ours is with
\* the broker, or comes back to it, unless a dial was under way at the moment
\* shutdown began; that one finds nothing to tell it of the shutdown.
NothingNewBehindDrain ==
    main \in {"drained", "waiting", "cancel", "close", "stopped"} /\ consuming => overtook

\* A Stop that returned nil leaves no connection, no consumer, no loop and no
\* delivery unsettled, wherever a redial stood when shutdown began.
CleanStopLeavesNothing ==
    main = "stopped" /\ ~stopErr =>
        conn # "up" /\ ~consuming /\ Unacked = {} /\ loop = "gone" /\ hand = NoMsg

\* A dropped connection is not a death (rabbit.go:247-250): only a broker that
\* refuses is.
DeathMeansRefused == fatal => broker = "refusing"

\* A lost connection is followed by receiving again or by an end that shutdown
\* or a refusal accounts for; it never gives up silently.
Reconnects ==
    loop \in Redialing ~> loop = "recv" \/ (loop = "gone" /\ (closing \/ fatal))

\* A redial that is not inside dial notices the shutdown and ends.
NoticesShutdown == closing /\ ~overtook /\ loop \in Redialing ~> loop = "gone"

\* A handler that ignores everything cannot hang Stop (rabbit.go:346-348).
StopReturns == main = "stopping" ~> main = "stopped"

\* The two ways a consumer ends: stopped, with nothing left, or refused.
EndsHonestly == CleanStopLeavesNothing /\ DeathMeansRefused

\* It gets back to work after an outage and out of a Stop.
NeverStuck == Reconnects /\ NoticesShutdown /\ StopReturns

\* "Delivery is at-least-once" (rabbit.go:9) when errors requeue.
Delivery == INSTANCE AtLeastOnce WITH
    done <- handled, settled <- {m \in Msg : place[m] \in {"acked", "dropped"}}
KeepsAtLeastOnce == Delivery!Spec

\* rabbit.go:348-349: "Whatever it was working on is unacknowledged, so the
\* broker redelivers it."  Only what a handler failed on of its own accord may
\* be discarded.
InterruptedIsRedelivered == \A m \in Msg : place[m] = "dropped" => m \in failed
=============================================================================

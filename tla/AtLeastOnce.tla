---------------------------- MODULE AtLeastOnce ----------------------------
(***************************************************************************)
(* What both consumer Starters promise of a message ("Delivery is          *)
(* at-least-once", rabbit.go:9, kafka.go:9): the broker may forget it only *)
(* after a handler has succeeded on it.  How often it is delivered, and to *)
(* whom, is left open.                                                     *)
(***************************************************************************)
CONSTANT Msg

VARIABLES
    done,   \* messages some handler has returned nil for
    settled \* messages the broker will not deliver again

vars == <<done, settled>>

Init == done = {} /\ settled = {}

\* Handlers return nil for these messages.
Succeed == done \subseteq done' /\ done' \subseteq Msg /\ UNCHANGED settled

\* One acknowledgement, or a commit that covers several; a late commit may also
\* take a group back, which only delivers again.
Settle == settled' \subseteq done /\ UNCHANGED done

Next == Succeed \/ Settle

Spec == Init /\ [][Next]_vars
=============================================================================

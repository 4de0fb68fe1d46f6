---------------------------- MODULE AppContract ----------------------------
(***************************************************************************)
(* What an App promises whoever looks at it from outside, a load balancer  *)
(* or the database under a handler: how the set of running Components      *)
(* grows and shrinks, and when traffic may come.  No goroutines, channels, *)
(* contexts or budgets.  Lifecycle.tla implements it.                      *)
(***************************************************************************)
EXTENDS Naturals

CONSTANTS Component, Tier

VARIABLES
    phase,  \* idle, starting, serving, draining, stopping, over or killed
    live    \* the Components between a successful Start and the end of Stop

vars == <<phase, live>>

Init == phase = "idle" /\ live = {}

\* c is level with or above everything that runs.
OnTop(c) == \A d \in live : Tier[d] <= Tier[c]

Begin == phase = "idle" /\ phase' = "starting" /\ UNCHANGED live

\* Nothing starts: two Components share a name, or Stop comes before Start.
Refuse == phase = "idle" /\ phase' = "over" /\ UNCHANGED live

Grow(c) ==
    /\ phase = "starting" /\ c \notin live /\ OnTop(c)
    /\ live' = live \cup {c}
    /\ UNCHANGED phase

Serve == phase = "starting" /\ phase' = "serving" /\ UNCHANGED live
Abort == phase = "starting" /\ phase' = "stopping" /\ UNCHANGED live

\* From serving, or with nothing left to withdraw: a Stop after a failed Start,
\* or a second one.
Withdraw ==
    /\ phase = "serving" \/ (phase = "over" /\ live = {})
    /\ phase' = "draining"
    /\ UNCHANGED live

TearDown == phase = "draining" /\ phase' = "stopping" /\ UNCHANGED live

Shrink(c) ==
    /\ phase = "stopping" /\ c \in live /\ OnTop(c)
    /\ live' = live \ {c}
    /\ UNCHANGED phase

Finish == phase = "stopping" /\ live = {} /\ phase' = "over" /\ UNCHANGED live

\* A signal nobody captures.
Kill == phase # "killed" /\ phase' = "killed" /\ UNCHANGED live

Next ==
    \/ Begin \/ Refuse \/ Serve \/ Abort \/ Withdraw \/ TearDown \/ Finish \/ Kill
    \/ \E c \in Component : Grow(c) \/ Shrink(c)

Spec == Init /\ [][Next]_vars
=============================================================================

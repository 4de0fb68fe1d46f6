----------------------------- MODULE Readiness -----------------------------
(***************************************************************************)
(* A readiness probe against an App that starts, serves and shuts down:    *)
(* /readyz of actuator/actuator.go and the gRPC health service of          *)
(* grpc/health/health.go, composed with Lifecycle.                         *)
(*                                                                         *)
(* Every step is one of Lifecycle's, which the Actuator notices when it is *)
(* its own Start or Drain that is called, or one of the probe's, or a      *)
(* dependency that fails or comes back.  One probe at a time is enough:    *)
(* probes share nothing that either of them writes.                        *)
(*                                                                         *)
(* A definition marked as a mutant is the one after it with a bug; nothing *)
(* uses it but the checks that a property would notice the bug.            *)
(***************************************************************************)
EXTENDS Lifecycle

CONSTANTS
    Actuator,   \* the Actuator
    Checker,    \* the Components that offer a Check
    Server      \* [{"http", "grpc"} -> the Component whose listener serves it]

ASSUME ReadinessAssumption ==
    /\ Actuator \in Component /\ Actuator \in Drainer /\ Actuator \notin Checker
    /\ Checker \subseteq Component
    /\ Server \in [{"http", "grpc"} -> Component]

VARIABLES
    checks,     \* a.checks: the Components whose Checks the Actuator holds
    draining,   \* a.draining
    sick,       \* the Components whose Check would fail
    kind,       \* which of the two is asked
    probe,      \* "none", "asked", "checking", or its answer: "UP" or "DOWN"
    left,       \* Checks it has yet to run
    code,       \* what it has so far: "UP" or "DOWN"
    \* history
    throughout, \* those of the App that have been sick since it was asked
    late        \* it was asked after the first Drain

probeVars == <<kind, probe, left, code, throughout, late>>
readinessVars == <<checks, draining, sick, probeVars>>

ReadinessTypeOK ==
    /\ checks \subseteq Checker
    /\ draining \in BOOLEAN
    /\ sick \subseteq Checker
    /\ kind \in {"http", "grpc"}
    /\ probe \in {"none", "asked", "checking", "UP", "DOWN"}
    /\ left \subseteq Checker /\ (left # {} => probe = "checking")
    /\ code \in {"UP", "DOWN"}
    /\ throughout \subseteq sick
    /\ late \in BOOLEAN

ReadinessInit ==
    /\ Init
    /\ checks = {} /\ draining = FALSE
    /\ sick \in SUBSET Checker
    /\ kind = "http" /\ probe = "none" /\ left = {} /\ code = "UP"
    /\ throughout = {} /\ late = FALSE

-----------------------------------------------------------------------------
(* The App moves, and a dependency fails or comes back.                     *)

\* App.Checks: every Component that offers one, started or not.  Mutant: every
\* Component.
ChecksOfAll == Added
AppChecks == Checker \cap Added

\* A step of Lifecycle.  In its own Start the Actuator pulls the Checks, in its
\* own Drain it marks itself draining.
AppSteps ==
    /\ Next
    /\ checks' = IF status[Actuator] = "new" /\ status'[Actuator] = "up" THEN AppChecks ELSE checks
    /\ draining' = (draining \/ Actuator \in drained')
    /\ UNCHANGED <<sick, probeVars>>

\* A caller drains the Actuator itself.
ActuatorDrains ==
    /\ status[Actuator] = "up" /\ ~draining
    /\ draining' = TRUE
    /\ UNCHANGED <<vars, checks, sick, probeVars>>

DependencyFails(c) ==
    /\ c \notin sick
    /\ sick' = sick \cup {c}
    /\ UNCHANGED <<vars, checks, draining, probeVars>>

DependencyReturns(c) ==
    /\ c \in sick
    /\ sick' = sick \ {c} /\ throughout' = throughout \ {c}
    /\ UNCHANGED <<vars, checks, draining, kind, probe, left, code, late>>

-----------------------------------------------------------------------------
(* The probe: readyz, or Check of the gRPC health service.                  *)

Ask(k) ==
    /\ probe \in {"none", "UP", "DOWN"}
    /\ status[Server[k]] = "up"
    /\ kind' = k /\ probe' = "asked" /\ left' = {} /\ code' = "UP"
    /\ throughout' = sick \cap Added /\ late' = (drained # {})
    /\ UNCHANGED <<vars, checks, draining, sick>>

\* Mutant: only the draining flag is asked.
DrainFlagOnly == ~(kind = "http" /\ draining)
Ready == ready /\ ~(kind = "http" /\ draining)

\* No Check runs before the App is ready.
Refuse ==
    /\ probe = "asked" /\ ~Ready
    /\ probe' = "DOWN"
    /\ UNCHANGED <<vars, checks, draining, sick, kind, left, code, throughout, late>>

\* The Actuator has its Checks since its Start, gRPC health pulls them now.
\* Mutant: gRPC health looks at nothing but the App.
OnlyReadiness == IF kind = "http" THEN checks ELSE {}
ChecksToRun == IF kind = "http" THEN checks ELSE AppChecks

BeginChecks ==
    /\ probe = "asked" /\ Ready
    /\ left' = ChecksToRun
    /\ probe' = "checking"
    /\ UNCHANGED <<vars, checks, draining, sick, kind, code, throughout, late>>

\* Both run one Check after the other, in no order; a Component that has been
\* stopped may answer either way.
CheckPasses(c) ==
    /\ probe = "checking" /\ c \in left /\ c \notin sick
    /\ left' = left \ {c}
    /\ UNCHANGED <<vars, checks, draining, sick, kind, probe, code, throughout, late>>

\* readyz runs the rest as well, gRPC health answers at once.
CheckFails(c) ==
    /\ probe = "checking" /\ c \in left
    /\ c \in sick \/ status[c] # "up"
    /\ IF kind = "http"
       THEN left' = left \ {c} /\ code' = "DOWN" /\ UNCHANGED probe
       ELSE left' = {} /\ probe' = "DOWN" /\ UNCHANGED code
    /\ UNCHANGED <<vars, checks, draining, sick, kind, throughout, late>>

Answer ==
    /\ probe = "checking" /\ left = {}
    /\ probe' = code
    /\ UNCHANGED <<vars, checks, draining, sick, kind, left, code, throughout, late>>

-----------------------------------------------------------------------------
Probe ==
    \/ \E k \in {"http", "grpc"} : Ask(k)
    \/ Refuse \/ BeginChecks \/ Answer
    \/ \E c \in Checker : CheckPasses(c) \/ CheckFails(c)

ReadinessNext ==
    \/ AppSteps \/ ActuatorDrains
    \/ \E c \in Checker : DependencyFails(c) \/ DependencyReturns(c)
    \/ Probe

ReadinessSpec == ReadinessInit /\ [][ReadinessNext]_<<vars, readinessVars>>

-----------------------------------------------------------------------------
(* Properties                                                               *)

\* Neither probe answers UP over a dependency that was down the whole time
\* (health.go:39-41: one must not answer 503 while the other says SERVING).
OutageShows == probe = "UP" => throughout = {}

\* Once the first Component has drained, a load balancer that asks is told so,
\* by the Actuator and by gRPC health alike, whatever the Checks say
\* (health.go:43-46).
DrainShows == probe = "UP" => ~late

\* A Check only ever runs on a Component whose Start has succeeded: the Actuator
\* holds the Checks of Components that have yet to start or failed to
\* (actuator.go:217-219).
ChecksOnlyStarted ==
    [][\A c \in Checker :
        CheckPasses(c) \/ CheckFails(c) => status[c] \in {"up", "stopped"}]_<<vars, readinessVars>>

\* A probe follows the App: it shows the drain from its first step on, and asks
\* no Component before it runs.
ProbeFollowsApp == []DrainShows /\ ChecksOnlyStarted
=============================================================================

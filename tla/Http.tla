------------------------------- MODULE Http --------------------------------
(***************************************************************************)
(* What the web server makes of requests, seen from three sides, one to a  *)
(* behaviour: how the answer gets out through the middleware (Request),    *)
(* what is recorded of it (Telemetry), and who may have it (Access).  They *)
(* share no state; the two sides that are not looked at stay in one of     *)
(* their initial states.                                                   *)
(***************************************************************************)
EXTENDS Request, Telemetry, Access

VARIABLE side

requestVars == vars
httpVars == <<side, requestVars, telemetryVars, accessVars>>

HttpInit ==
    /\ side \in {"request", "telemetry", "access"}
    /\ Init /\ TelemetryInit /\ AccessInit

HttpNext ==
    \/ side = "request" /\ Next /\ UNCHANGED <<side, telemetryVars, accessVars>>
    \/ side = "telemetry" /\ TelemetryNext /\ UNCHANGED <<side, requestVars, accessVars>>
    \/ side = "access" /\ AccessNext /\ UNCHANGED <<side, requestVars, telemetryVars>>

HttpSpec == HttpInit /\ [][HttpNext]_httpVars

\* The state of each of the three keeps its types.
HttpTypeOK == TypeOK /\ TelemetryTypeOK /\ AccessTypeOK
=============================================================================

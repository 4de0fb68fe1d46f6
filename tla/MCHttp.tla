------------------------------- MODULE MCHttp --------------------------------
(***************************************************************************)
(* The instance of Http: the chains, slices, services, requests and        *)
(* clients it is explored for.                                             *)
(***************************************************************************)
EXTENDS Http, MCAccess

-----------------------------------------------------------------------------
(* Request: the two default slices and a guarded route; the same without    *)
(* Recovery, without Logging, and with the two swapped; one that lists the  *)
(* scope before the authentication; one that lists what answers outside the *)
(* default ones; and an open route.  Every token; a preflight, which        *)
(* carries none; and a probe.                                               *)

Inner == <<"headers", "cors", "authenticate", "scope">>

MCChains == {
    <<"requestID", "logging", "recovery">> \o Inner,
    <<"requestID", "logging">> \o Inner,
    <<"requestID", "recovery">> \o Inner,
    <<"requestID", "recovery", "logging">> \o Inner,
    <<"requestID", "logging", "recovery", "scope", "authenticate">>,
    Inner \o <<"requestID", "logging", "recovery">>,
    <<"requestID", "logging", "recovery", "headers", "authenticate">>}

Try(probe, preflight, token) == [probe |-> probe, preflight |-> preflight, token |-> token]
MCRequests ==
    {Try(FALSE, FALSE, t) : t \in {"none", "bad", "good", "scoped"}}
        \cup {Try(FALSE, TRUE, "none"), Try(TRUE, FALSE, "scoped")}

-----------------------------------------------------------------------------
(* Telemetry: the slices the presets and examples build, metrics inside and *)
(* outside Recovery, no Logging, and authentication outside everything.     *)

MCWirings == {Untraced, Traced, Plus(Untraced, "metrics"), Plus(Traced, "metrics"),
    [mw |-> <<"trace", "recovery", "routeName">>, ids |-> TRUE],
    [mw |-> <<"logging", "metrics", "recovery">>, ids |-> FALSE],
    [mw |-> <<"authenticate">> \o Traced.mw \o <<"metrics">>, ids |-> TRUE]}

MCOptions == {DefaultOptions, DefaultOptions \o <<"rpcMetrics", "rpcTrace">>,
    DefaultOptions \o <<"rpcTrace", "rpcMetrics">>}

MCIncoming == {[kind |-> k, token |-> t, matches |-> m, probe |-> FALSE] :
                  k \in Kind, t \in {"none", "bad", "good"}, m \in BOOLEAN}
    \cup {[kind |-> "http", token |-> "none", matches |-> TRUE, probe |-> TRUE]}

MCLevels == {"DEBUG", "INFO"}

ASSUME HttpAssumption == WiringsWellFormed /\ InOrder /\ ServicesWellFormed

-----------------------------------------------------------------------------
(* The sides that are not looked at have one initial state.                 *)

MCInit ==
    /\ side \in {"request", "telemetry", "access"}
    /\ IF side = "request" THEN TRUE ELSE chain = CHOOSE c \in MCChains : Len(c) = 5
    /\ IF side = "telemetry" THEN TRUE
       ELSE wiring = Untraced /\ options = DefaultOptions /\ incoming = CHOOSE c \in MCIncoming : c.probe
    /\ IF side = "access" THEN TRUE ELSE service = CHOOSE s \in MCServices : s.tls = {"cert"}
    /\ HttpInit

MCSpec == MCInit /\ [][HttpNext]_httpVars
=============================================================================

----------------------------- MODULE MCTelemetry -----------------------------
(***************************************************************************)
(* The wiring the documentation shows for a service with authentication:   *)
(* Use(DefaultMiddleware...) and then Use of security's slice, which puts  *)
(* Authenticate inside Logging (README.md:323, security.go:70,             *)
(* examples/http-secure/main.go:81).                                       *)
(***************************************************************************)
EXTENDS Telemetry

SecuredWirings == {Plus(w, "authenticate") : w \in {Untraced, Traced}}

MCOptions == {DefaultOptions}
MCIncoming ==
    {[kind |-> k, token |-> t, matches |-> m, probe |-> FALSE] :
        k \in {"http", "connect"}, t \in {"none", "bad", "good"}, m \in BOOLEAN}
=============================================================================

---------------------------- MODULE MCReadiness ----------------------------
(***************************************************************************)
(* An Actuator with a listener of its own, a database pool to check and a  *)
(* web server that serves gRPC health: one Component in each Tier.         *)
(***************************************************************************)
EXTENDS Readiness, TLC

CONSTANTS act, pool, web

MCComponent == {act, pool, web}
MCName == act :> "actuator" @@ pool :> "pool" @@ web :> "web"
MCTier == act :> 0 @@ pool :> 1 @@ web :> 2
MCServer == "http" :> act @@ "grpc" :> web
=============================================================================

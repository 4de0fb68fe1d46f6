---------------------------- MODULE MCLifecycle ----------------------------
\* A service with an Actuator, a pool and two consumers of one Tier, the second
\* without a death channel and named as the pool is: the App must refuse both.
EXTENDS Lifecycle, TLC

CONSTANTS act, pool, mq, twin

MCComponent == {act, pool, mq, twin}
MCName == act :> "actuator" @@ pool :> "db" @@ mq :> "mq" @@ twin :> "db"
MCTier == act :> 0 @@ pool :> 1 @@ mq :> 2 @@ twin :> 2
MCMortal == {act, mq}
MCDrainer == {act, mq, twin}
=============================================================================

-------------------------- MODULE MCRobotLifecycle --------------------------
(***************************************************************************)
(* Instances of RobotLifecycle for TLC.  A flapping link piles up tasks    *)
(* without end, so link failures and dead heartbeats are counted and       *)
(* bounded; nothing the program itself does is held back by the bound.     *)
(***************************************************************************)
EXTENDS LifecycleHistory

CONSTANT MaxLosses   \* bound: link failures and dead heartbeats
VARIABLE losses      \* how many there were

MCInit == HInit /\ losses = 0

MCNext ==
    /\ HNext
    /\ losses' = losses + Cardinality({k \in Conns : link[k] # "lost" /\ link'[k] = "lost"})
                        + IF HeartbeatDead THEN 1 ELSE 0
    /\ losses' <= MaxLosses

MCSpec     == MCInit /\ [][MCNext]_<<hvars, losses>>
MCFairSpec == MCSpec /\ Fairness

\* Histories up to the first doubled reconnect, for properties that speak of
\* nothing beyond it.
UndoubledNext     == ~doubled /\ MCNext
UndoubledFairSpec == MCInit /\ [][UndoubledNext]_<<hvars, losses>> /\ Fairness
=============================================================================

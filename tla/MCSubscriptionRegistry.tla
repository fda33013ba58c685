----------------------- MODULE MCSubscriptionRegistry -----------------------
(***************************************************************************)
(* A bounded instance of RegistryHistory for TLC.  The handles differ in   *)
(* nothing, so they are subscribed in a fixed order: every behaviour is    *)
(* one of these with the handles renamed.                                  *)
(***************************************************************************)
EXTENDS RegistryHistory

CONSTANTS h1, h2, h3    \* subscriptions of the topic

MCHandles == {h1, h2, h3}

InOrder == /\ handle'[h2] # "none" => handle'[h1] # "none"
           /\ handle'[h3] # "none" => handle'[h2] # "none"

MCNext == HNext /\ InOrder

MCSpec == HInit /\ [][MCNext]_hvars /\ Fairness
=============================================================================

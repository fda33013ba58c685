--------------------------- MODULE RegistryHistory ---------------------------
(***************************************************************************)
(* SubscriptionRegistry with history variables, and what handles, slots    *)
(* and robot can rely on, whatever the application does.                   *)
(*                                                                         *)
(* unsubscribe_request finds its slot by the topic, so an application that *)
(* subscribes while a call is under way, or gives up a handle that has lost*)
(* its slot, can hit a slot that is not the handle's.  The history says    *)
(* which slots were exposed to that; the promises hold of all the others.  *)
(***************************************************************************)
EXTENDS SubscriptionRegistry

VARIABLES
    raced,      \* slots registered before an unsubscribe() had returned
    exposed,    \* slots registered while a finalizer's call was scheduled, or
                \* when a handle that had lost its own slot was given up
    crossed     \* whether, on this connection, a slot was registered before an
                \* unsubscribe() had returned, or the robot kept a subscription
                \* it was asked to end

hist == <<raced, exposed, crossed>>
hvars == <<vars, hist>>

HInit == Init /\ raced = {} /\ exposed = {} /\ crossed = FALSE

Waiting == \E g \in Handles : call[g].pc \in {"waiting", "resolved"}
Scheduled == \E g \in Handles : call[g].pc = "scheduled"

HSubscribe(h) ==
    /\ Subscribe(h)
    /\ raced' = IF subs' = h /\ Waiting THEN raced \cup {h} ELSE raced
    /\ exposed' = IF subs' = h /\ Scheduled THEN exposed \cup {h} ELSE exposed
    /\ crossed' = (crossed \/ (state = "READY" /\ subs' = h /\ Waiting))

\* What is under the topic when a handle that has lost its slot is given up.
Expose(lost) == exposed' = exposed \cup (IF lost THEN {subs} \ {None} ELSE {})

HUnsubscribe(h) ==
    /\ Unsubscribe(h)
    /\ Expose(slot[h] = "CLOSED" \/ h \in raced)
    /\ UNCHANGED <<raced, crossed>>

HDrop(h) ==
    /\ Drop(h)
    /\ Expose(h \in raced)
    /\ UNCHANGED <<raced, crossed>>

HServe ==
    /\ Serve
    /\ crossed' = (crossed \/ (Head(commands).kind = "unsubscribe" /\ served' # None))
    /\ UNCHANGED <<raced, exposed>>

HLoss ==
    /\ Loss
    /\ crossed' = FALSE
    /\ UNCHANGED <<raced, exposed>>

HNext ==
    \/ \E h \in Handles : HSubscribe(h) \/ HUnsubscribe(h) \/ HDrop(h)
    \/ HServe \/ HLoss
    \/ /\ \/ \E h \in Handles : RunScheduled(h) \/ OnTimeout(h) \/ Finish(h)
          \/ HandleSubscribeAck \/ HandleUnsubscribed \/ Reconnect
       /\ UNCHANGED hist

HSpec == HInit /\ [][HNext]_hvars

-----------------------------------------------------------------------------

\* Every slot that is not CLOSED is in _subs, where frames, losses and the
\* answer to its own subscribe find it, unless it was registered before an
\* unsubscribe() had returned: nothing else loses a slot, no second call, no
\* stale handle, no finalizer and no refusal.
OpenIsRegistered ==
    \A h \in Handles : slot[h] \in {"none", "CLOSED"} \/ subs = h \/ h \in raced

\* A handle the application still holds is closed by a refusal only, unless a
\* finalizer's call was scheduled when it was registered, or the application
\* gave up another handle meanwhile that had lost its own slot.
OnlyOwnerCloses ==
    \A h \in Handles : slot[h] = "CLOSED" /\ handle[h] = "held" =>
        error[h] \in Refusals \/ h \in exposed

Settled == commands = <<>> /\ answers = <<>> /\ \A h \in Handles : ~UnderWay(h)

\* Once nothing is under way in READY, the robot serves exactly the slot that
\* is ACTIVE: it pushes to nobody else, and an ACTIVE slot is pushed to.  On a
\* connection only a subscribe before unsubscribe() returned, or an unsubscribe
\* the robot refuses, can come between them.
RobotAgrees ==
    ~crossed /\ state = "READY" /\ Settled =>
        /\ served # None => subs = served
        /\ subs # None /\ slot[subs] = "ACTIVE" => served = subs
=============================================================================

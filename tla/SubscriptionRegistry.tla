------------------------- MODULE SubscriptionRegistry -------------------------
(***************************************************************************)
(* The handles an application holds on one topic, the slots behind them,   *)
(* the table RobotImpl._subs and the robot's own view of the subscription: *)
(* subscribe_*, Subscription.unsubscribe(), a handle that is garbage       *)
(* collected (its finalizer schedules an unsubscribe), losses, reconnects. *)
(*                                                                         *)
(* _subs and unsubscribe_request know a slot by its topic, a handle knows  *)
(* it by reference.  unsubscribe_request takes the slot it finds under the *)
(* topic, waits for the robot, closes that slot, and then removes what is  *)
(* under the topic by then.  The two may differ when a slot is closed and  *)
(* the topic subscribed again meanwhile.                                   *)
(*                                                                         *)
(* The robot (served, commands, answers) is external: it serves a          *)
(* connection's commands in order, refuses a second subscribe and may      *)
(* refuse any command.                                                     *)
(*                                                                         *)
(* The application is arbitrary: it may unsubscribe a handle again (so does*)
(* the end of an `async with'), one that was refused, or one closed long   *)
(* ago, and subscribe while such a call waits.  One handle has one call    *)
(* under way; other handles of the topic, also refused ones, stand for     *)
(* further tasks that unsubscribe it, since a call only knows the topic.   *)
(***************************************************************************)
EXTENDS Integers, Sequences

CONSTANTS
    Handles,    \* calls of subscribe_*, each with the slot and handle it makes
    None,       \* no slot
    MaxCalls,   \* bound: calls of unsubscribe()
    MaxLosses   \* bound: connections lost in one behaviour

ASSUME NoneAssumption == None \notin Handles
ASSUME CallsAssumption == MaxCalls \in Nat
ASSUME LossesAssumption == MaxLosses \in Nat

VARIABLES
    state,      \* RobotImpl._state
    subs,       \* _subs[topic], or None
    slot,       \* the state of each handle's slot, "none" before it exists
    error,      \* slot.error_code
    handle,     \* what the application did with each handle
    call,       \* the latest unsubscribe_request made for each handle
    commands,   \* requests under way to the robot
    answers,    \* answers under way to the SDK
    served,     \* the subscription the robot serves on this connection
    calls,      \* calls of unsubscribe() so far
    losses      \* connections lost so far

vars == <<state, subs, slot, error, handle, call, commands, answers, served, calls, losses>>
wire == <<commands, answers, served>>

Refusals == {"TOPIC_ALREADY_SUBSCRIBED", "rejected"}
Errors == Refusals \cup {"OK", "kept", "DISCONNECTED", "TIMEOUT", "TRANSPORT_FAILURE"}
NoCall == [pc |-> "none", target |-> None, result |-> "OK", n |-> 0]
Returned == [NoCall EXCEPT !.pc = "done"]

TypeOK ==
    /\ state \in {"READY", "RECONNECTING", "TRANSIENT_FAILURE"}
    /\ subs \in Handles \cup {None}
    /\ slot \in [Handles -> {"none", "PENDING", "ACTIVE", "PAUSED", "CLOSED"}]
    /\ error \in [Handles -> Errors]
    /\ handle \in [Handles -> {"none", "held", "unsubscribed", "dropped"}]
    /\ call \in [Handles -> [pc : {"none", "scheduled", "waiting", "resolved", "done"},
                             target : Handles \cup {None}, result : Errors,
                             n : 0..MaxCalls]]
    /\ commands \in Seq([kind : {"subscribe", "unsubscribe"}, of : Handles, n : 0..MaxCalls])
    /\ answers \in Seq([kind : {"accepted", "refused", "unsubscribed", "kept"},
                        of : Handles, n : 0..MaxCalls])
    /\ served \in Handles \cup {None}
    /\ calls \in 0..MaxCalls
    /\ losses \in 0..MaxLosses

Init ==
    /\ state = "READY" /\ subs = None
    /\ slot = [h \in Handles |-> "none"] /\ error = [h \in Handles |-> "OK"]
    /\ handle = [h \in Handles |-> "none"]
    /\ call = [h \in Handles |-> NoCall]
    /\ commands = <<>> /\ answers = <<>> /\ served = None
    /\ calls = 0 /\ losses = 0

UnderWay(h) == call[h].pc \in {"scheduled", "waiting", "resolved"}

\* The requests; n stands for the request id, by which an answer finds the call
\* that waits for it.
Asking(h) == [kind |-> "subscribe", of |-> h, n |-> 0]
Leaving(h, n) == [kind |-> "unsubscribe", of |-> h, n |-> n]

-----------------------------------------------------------------------------
(* The application                                                         *)

\* _subscribe_internal: refused while the topic has a slot; otherwise the slot
\* is recorded, and sent only in READY.
Subscribe(h) ==
    /\ handle[h] = "none"
    /\ handle' = [handle EXCEPT ![h] = "held"]
    /\ \/ /\ subs # None
          /\ slot' = [slot EXCEPT ![h] = "CLOSED"]
          /\ error' = [error EXCEPT ![h] = "TOPIC_ALREADY_SUBSCRIBED"]
          /\ UNCHANGED <<subs, commands>>
       \/ /\ subs = None
          /\ subs' = h
          /\ slot' = [slot EXCEPT ![h] = "PENDING"]
          /\ commands' = IF state = "READY"
                         THEN Append(commands, Asking(h)) ELSE commands
          /\ UNCHANGED error
    /\ UNCHANGED <<state, call, answers, served, calls, losses>>

\* Defect: the slot is closed and stays in _subs.
CloseInPlace(s, code) ==
    /\ slot' = [slot EXCEPT ![s] = "CLOSED"]
    /\ error' = [error EXCEPT ![s] = code]
    /\ UNCHANGED subs

\* The end of every path of unsubscribe_request and of a refused subscribe:
\* slot s is closed, and whatever _subs has under its topic is removed.
Close(s, code) ==
    /\ slot' = [slot EXCEPT ![s] = "CLOSED"]
    /\ error' = [error EXCEPT ![s] = code]
    /\ subs' = None

\* Subscription.unsubscribe() and the start of unsubscribe_request(topic, TRUE):
\* without a slot it is done, out of READY it closes at once, in READY it asks
\* the robot and waits.
Unsubscribe(h) ==
    /\ handle[h] # "none" /\ handle[h] # "dropped" /\ ~UnderWay(h)
    /\ calls < MaxCalls /\ calls' = calls + 1
    /\ handle' = [handle EXCEPT ![h] = "unsubscribed"]
    /\ \/ /\ subs = None
          /\ call' = [call EXCEPT ![h] = Returned]
          /\ UNCHANGED <<subs, slot, error, commands>>
       \/ /\ subs # None /\ state # "READY"
          /\ call' = [call EXCEPT ![h] = Returned]
          /\ Close(subs, "DISCONNECTED")
          /\ UNCHANGED commands
       \/ /\ subs # None /\ state = "READY"
          /\ call' = [call EXCEPT ![h] = [pc |-> "waiting", target |-> subs,
                                          result |-> "OK", n |-> calls + 1]]
          /\ commands' = Append(commands, Leaving(h, calls + 1))
          /\ UNCHANGED <<subs, slot, error>>
    /\ UNCHANGED <<state, answers, served, losses>>

\* Defect: the finalizer does not look at the slot's state.
DropUnseen(h) ==
    /\ handle[h] = "held"
    /\ handle' = [handle EXCEPT ![h] = "dropped"]
    /\ call' = [call EXCEPT ![h] = [NoCall EXCEPT !.pc = "scheduled"]]
    /\ UNCHANGED <<state, subs, slot, error, wire, calls, losses>>

\* The handle is collected: _facade_finalizer_callback.
Drop(h) ==
    /\ handle[h] = "held"
    /\ handle' = [handle EXCEPT ![h] = "dropped"]
    /\ call' = IF slot[h] = "CLOSED" THEN call
               ELSE [call EXCEPT ![h] = [NoCall EXCEPT !.pc = "scheduled"]]
    /\ UNCHANGED <<state, subs, slot, error, wire, calls, losses>>

-----------------------------------------------------------------------------
(* Tasks of the SDK                                                        *)

\* Defect: the slot is closed without telling the robot.
RunScheduledSilently(h) ==
    /\ call[h].pc = "scheduled"
    /\ call' = [call EXCEPT ![h] = Returned]
    /\ \/ subs = None /\ UNCHANGED <<subs, slot, error>>
       \/ subs # None /\ Close(subs, IF state = "READY" THEN "OK" ELSE "DISCONNECTED")
    /\ UNCHANGED <<state, handle, commands, answers, served, calls, losses>>

\* unsubscribe_request(topic, FALSE), scheduled by a finalizer: nobody waits
\* for the robot's answer.
RunScheduled(h) ==
    /\ call[h].pc = "scheduled"
    /\ call' = [call EXCEPT ![h] = Returned]
    /\ \/ subs = None /\ UNCHANGED <<subs, slot, error>>
       \/ subs # None /\ Close(subs, IF state = "READY" THEN "OK" ELSE "DISCONNECTED")
    /\ commands' = IF subs # None /\ state = "READY"
                   THEN Append(commands, Leaving(h, 0)) ELSE commands
    /\ UNCHANGED <<state, handle, answers, served, calls, losses>>

\* Defect: the wait is cancelled, and no error code stands for that.
ResolveCancelled(h, code) == [call EXCEPT ![h].pc = "resolved", ![h].result = "CANCELLED"]

\* Defect: only an answer resolves the wait.
ResolveIfAnswered(h, code) ==
    IF code \in {"OK", "kept"} THEN [call EXCEPT ![h].pc = "resolved", ![h].result = code] ELSE call

\* The future of the call that waits gets its result or its exception.
Resolve(h, code) == [call EXCEPT ![h].pc = "resolved", ![h].result = code]

\* subscribe_ack_timeout elapsed before the robot answered.
OnTimeout(h) ==
    /\ call[h].pc = "waiting"
    /\ call' = Resolve(h, "TIMEOUT")
    /\ UNCHANGED <<state, subs, slot, error, handle, wire, calls, losses>>

\* Defect: the call closes the slot of its handle and not the one it took.
FinishOwn(h) ==
    /\ call[h].pc = "resolved"
    /\ call' = [call EXCEPT ![h] = Returned]
    /\ Close(h, call[h].result)
    /\ UNCHANGED <<state, handle, wire, calls, losses>>

\* The task that waits runs again, and unsubscribe() returns.
Finish(h) ==
    /\ call[h].pc = "resolved"
    /\ call' = [call EXCEPT ![h] = Returned]
    /\ Close(call[h].target, call[h].result)
    /\ UNCHANGED <<state, handle, wire, calls, losses>>

\* _handle_subscribe_ack, for the slot that is under the topic by now.
HandleSubscribeAck ==
    /\ answers # <<>> /\ Head(answers).kind \in {"accepted", "refused"}
    /\ answers' = Tail(answers)
    /\ LET a == Head(answers) IN
       \/ subs # a.of /\ UNCHANGED <<state, subs, slot, error>>
       \/ /\ subs = a.of
          /\ state' = IF state = "RECONNECTING" THEN "READY" ELSE state
          /\ \/ /\ a.kind = "accepted"
                /\ slot' = [slot EXCEPT ![subs] = "ACTIVE"]
                /\ UNCHANGED <<subs, error>>
             \/ a.kind = "refused" /\ Close(subs, "rejected")
    /\ UNCHANGED <<handle, call, commands, served, calls, losses>>

\* _handle_sdk_response: the answer finds the call that waits for it, or is
\* ignored.  The robot's refusal is the call's result, and the slot's error.
HandleUnsubscribed ==
    /\ answers # <<>> /\ Head(answers).kind \in {"unsubscribed", "kept"}
    /\ answers' = Tail(answers)
    /\ LET a == Head(answers)
       IN  call' = IF call[a.of].pc = "waiting" /\ call[a.of].n = a.n
                   THEN Resolve(a.of, IF a.kind = "unsubscribed" THEN "OK" ELSE "kept")
                   ELSE call
    /\ UNCHANGED <<state, subs, slot, error, handle, commands, served, calls, losses>>

-----------------------------------------------------------------------------
(* The robot (external) and the connection                                 *)

Answer(c, kind) == answers' = Append(answers, [c EXCEPT !.kind = kind])

Serve ==
    /\ commands # <<>>
    /\ commands' = Tail(commands)
    /\ LET c == Head(commands) IN
       \/ c.kind = "subscribe" /\ served = None /\ served' = c.of /\ Answer(c, "accepted")
       \/ c.kind = "subscribe" /\ UNCHANGED served /\ Answer(c, "refused")
       \/ c.kind = "unsubscribe" /\ served' = None /\ Answer(c, "unsubscribed")
       \/ c.kind = "unsubscribe" /\ UNCHANGED served /\ Answer(c, "kept")
    /\ UNCHANGED <<state, subs, slot, error, handle, call, calls, losses>>

\* _on_transport_close: the slot is paused, and every waiting caller fails.
Loss ==
    /\ state # "TRANSIENT_FAILURE" /\ losses < MaxLosses
    /\ losses' = losses + 1
    /\ state' = "TRANSIENT_FAILURE"
    /\ slot' = [h \in Handles |-> IF h = subs THEN "PAUSED" ELSE slot[h]]
    /\ call' = [h \in Handles |-> IF call[h].pc = "waiting"
                                  THEN [call[h] EXCEPT !.pc = "resolved",
                                                       !.result = "TRANSPORT_FAILURE"]
                                  ELSE call[h]]
    /\ commands' = <<>> /\ answers' = <<>> /\ served' = None
    /\ UNCHANGED <<subs, error, handle, calls>>

\* _establish and _resubscribe_all_after_reconnect.  What the loss made ready
\* to run has run: the reconnect closes the old connection and sleeps first.
Reconnect ==
    /\ state = "TRANSIENT_FAILURE"
    /\ \A h \in Handles : call[h].pc \notin {"resolved", "scheduled"}
    /\ \/ /\ subs = None
          /\ state' = "READY"
          /\ UNCHANGED <<slot, commands>>
       \/ /\ subs # None
          /\ state' = "RECONNECTING"
          /\ slot' = [slot EXCEPT ![subs] = "PENDING"]
          /\ commands' = Append(commands, Asking(subs))
    /\ UNCHANGED <<subs, error, handle, call, answers, served, calls, losses>>

Next ==
    \/ \E h \in Handles : Subscribe(h) \/ Unsubscribe(h) \/ Drop(h)
    \/ \E h \in Handles : RunScheduled(h) \/ OnTimeout(h) \/ Finish(h)
    \/ HandleSubscribeAck \/ HandleUnsubscribed
    \/ Serve \/ Loss \/ Reconnect

Spec == Init /\ [][Next]_vars

\* Timers fire and tasks that can run do: of these a call has one at a time.
Fairness == \A h \in Handles : WF_vars(RunScheduled(h) \/ OnTimeout(h) \/ Finish(h))

-----------------------------------------------------------------------------

\* _subs never holds a slot that was closed, whatever the application does: a
\* closed slot left there would refuse every later subscribe to the topic.
RegisteredIsOpen == subs # None => slot[subs] \notin {"none", "CLOSED"}

\* unsubscribe() returns and a scheduled one runs, whatever the robot does: no
\* call stays under way for ever.
UnsubscribeReturns == \A h \in Handles : []<>~UnderWay(h)
=============================================================================

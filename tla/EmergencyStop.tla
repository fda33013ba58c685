---------------------------- MODULE EmergencyStop ----------------------------
(***************************************************************************)
(* The soft e-stop of karo_x2_sdk/_internal/robot_impl.py: overlapping     *)
(* calls of emergency_stop_rpc, their answers and timeouts, the intent     *)
(* they leave in _last_estop_intent, and its replay after a reconnect      *)
(* (_do_estop_replay), against the latch in the robot.                     *)
(*                                                                         *)
(* The robot (latch, commands, answers) is external: it executes the       *)
(* commands of a connection in order and answers in that order, may refuse *)
(* one, and forgets the latch when it restarts.  A command that was written *)
(* before a loss may or may not have been executed.                        *)
(*                                                                         *)
(* Subscriptions restored by the same reconnect are in RobotLifecycle.     *)
(***************************************************************************)
EXTENDS Integers, SequencesExt

CONSTANTS
    Calls,      \* calls of emergency_stop, each made at most once
    Replay,     \* the request of _do_estop_replay
    MaxConns    \* bound: connections in one behaviour

ASSUME CallsAssumption == IsFiniteSet(Calls)
ASSUME ReplayAssumption == Replay \notin Calls
ASSUME ConnsAssumption == MaxConns \in Nat \ {0}

VARIABLES
    state,      \* RobotImpl._state
    up,         \* whether _ws is an open connection
    conns,      \* connections opened so far
    intent,     \* _last_estop_intent is "engaged"
    engage,     \* the argument of each call
    pc,         \* where each request is
    result,     \* what its future was resolved with
    sentOn,     \* the connection it was written to
    runnable,   \* tasks whose future is resolved, in the order they will run
    latch,      \* the robot is stopped
    executed,   \* calls the robot executed, in order
    commands,   \* requests under way to the robot
    answers     \* answers under way to the SDK

vars == <<state, up, conns, intent, engage, pc, result, sentOn, runnable, latch,
          executed, commands, answers>>
wire == <<latch, executed, commands, answers>>

Requests == Calls \cup {Replay}
Results == {"none", "ok", "refused", "timeout", "lost"}

TypeOK ==
    /\ state \in {"READY", "TRANSIENT_FAILURE", "RECONNECTING"}
    /\ up \in BOOLEAN /\ conns \in 1..MaxConns
    /\ intent \in BOOLEAN /\ latch \in BOOLEAN
    /\ engage \in [Requests -> BOOLEAN]
    /\ pc \in [Requests -> {"idle", "waiting", "resolved", "done"}]
    /\ result \in [Requests -> Results]
    /\ sentOn \in [Requests -> 0..MaxConns]
    /\ runnable \in Seq(Requests) /\ executed \in Seq(Calls)
    /\ commands \in Seq(Requests)
    /\ answers \in Seq([of : Requests, result : {"ok", "refused"}])
    /\ \A c \in Requests : pc[c] = "resolved" <=> \E i \in 1..Len(runnable) : runnable[i] = c

Init ==
    /\ state = "READY" /\ up = TRUE /\ conns = 1
    /\ intent = FALSE /\ latch = FALSE
    /\ engage \in {f \in [Requests -> BOOLEAN] : f[Replay]}
    /\ pc = [c \in Requests |-> "idle"] /\ result = [c \in Requests |-> "none"]
    /\ sentOn = [c \in Requests |-> 0]
    /\ runnable = <<>> /\ executed = <<>> /\ commands = <<>> /\ answers = <<>>

-----------------------------------------------------------------------------
(* The SDK                                                                 *)

\* emergency_stop_rpc in READY, up to its wait; without a connection it
\* returns at once.
Begin(c) ==
    /\ c \in Calls /\ pc[c] = "idle" /\ state = "READY"
    /\ \/ /\ ~up
          /\ pc' = [pc EXCEPT ![c] = "done"] /\ result' = [result EXCEPT ![c] = "lost"]
          /\ UNCHANGED <<sentOn, commands>>
       \/ /\ up
          /\ pc' = [pc EXCEPT ![c] = "waiting"]
          /\ sentOn' = [sentOn EXCEPT ![c] = conns]
          /\ commands' = Append(commands, c)
          /\ UNCHANGED result
    /\ UNCHANGED <<state, up, conns, intent, engage, runnable, latch, executed, answers>>

\* Defect: the request keeps waiting although its future is resolved.
ResolveInPlace(c, r) ==
    /\ result' = [result EXCEPT ![c] = r]
    /\ runnable' = Append(runnable, c)
    /\ UNCHANGED pc

\* The future of request c is resolved; its task will run.
Resolve(c, r) ==
    /\ pc' = [pc EXCEPT ![c] = "resolved"]
    /\ result' = [result EXCEPT ![c] = r]
    /\ runnable' = Append(runnable, c)

\* _handle_sdk_response, for a request that still waits or for none.
HandleAnswer ==
    /\ answers # <<>>
    /\ answers' = Tail(answers)
    /\ LET a == Head(answers)
       IN  IF pc[a.of] = "waiting" THEN Resolve(a.of, a.result)
           ELSE UNCHANGED <<pc, result, runnable>>
    /\ UNCHANGED <<state, up, conns, intent, engage, sentOn, latch, executed, commands>>

\* estop_rpc_timeout elapsed.
OnTimeout(c) ==
    /\ pc[c] = "waiting"
    /\ Resolve(c, "timeout")
    /\ UNCHANGED <<state, up, conns, intent, engage, sentOn, wire>>

\* Defect: the intent is recorded however the call ended.
ReturnAlways ==
    /\ runnable # <<>> /\ Head(runnable) \in Calls
    /\ LET c == Head(runnable) IN
       /\ pc' = [pc EXCEPT ![c] = "done"]
       /\ intent' = engage[c]
    /\ runnable' = Tail(runnable)
    /\ UNCHANGED <<state, up, conns, engage, result, sentOn, wire>>

\* The next task runs, and its call returns: only an ok leaves an intent.
Return ==
    /\ runnable # <<>> /\ Head(runnable) \in Calls
    /\ LET c == Head(runnable) IN
       /\ pc' = [pc EXCEPT ![c] = "done"]
       /\ intent' = IF result[c] = "ok" THEN engage[c] ELSE intent
    /\ runnable' = Tail(runnable)
    /\ UNCHANGED <<state, up, conns, engage, result, sentOn, wire>>

Waiting == {c \in Requests : pc[c] = "waiting"}

\* The connection is gone, with what was under way; the robot keeps its latch
\* unless it restarted.
Disconnected ==
    /\ state' = "TRANSIENT_FAILURE" /\ up' = FALSE
    /\ commands' = <<>> /\ answers' = <<>>
    /\ latch' \in {latch, FALSE}

\* _on_transport_close: every request that waits fails, in some order.
Loss ==
    /\ up /\ conns < MaxConns
    /\ Disconnected
    /\ pc' = [c \in Requests |-> IF c \in Waiting THEN "resolved" ELSE pc[c]]
    /\ result' = [c \in Requests |-> IF c \in Waiting THEN "lost" ELSE result[c]]
    /\ \E w \in SetToSeqs(Waiting) : runnable' = runnable \o w
    /\ UNCHANGED <<conns, intent, engage, sentOn, executed>>

\* Defect: a reconnect is over once the handshake is.
ReconnectWithoutReplay ==
    /\ state = "TRANSIENT_FAILURE" /\ runnable = <<>> /\ conns < MaxConns
    /\ up' = TRUE /\ conns' = conns + 1
    /\ state' = "READY"
    /\ UNCHANGED <<intent, engage, pc, result, sentOn, runnable, wire>>

\* _do_reconnect and _establish: READY, or the replay of an engaged e-stop
\* first.  The sleep before it lets every task that could run come to its end.
Reconnect ==
    /\ state = "TRANSIENT_FAILURE" /\ runnable = <<>> /\ conns < MaxConns
    /\ up' = TRUE /\ conns' = conns + 1
    /\ \/ /\ ~intent
          /\ state' = "READY"
          /\ UNCHANGED <<pc, sentOn, commands>>
       \/ /\ intent
          /\ state' = "RECONNECTING"
          /\ pc' = [pc EXCEPT ![Replay] = "waiting"]
          /\ sentOn' = [sentOn EXCEPT ![Replay] = conns + 1]
          /\ commands' = Append(commands, Replay)
    /\ UNCHANGED <<intent, engage, result, runnable, latch, executed, answers>>

\* _do_estop_replay after its wait: READY on an ok, whatever the state is by
\* then, and otherwise the connection is closed.
ReplayReturns ==
    /\ runnable # <<>> /\ Head(runnable) = Replay
    /\ pc' = [pc EXCEPT ![Replay] = "done"]
    /\ runnable' = Tail(runnable)
    /\ \/ /\ result[Replay] = "ok"
          /\ state' = "READY"
          /\ UNCHANGED <<up, latch, commands, answers>>
       \/ /\ result[Replay] # "ok" /\ conns < MaxConns
          /\ Disconnected
    /\ UNCHANGED <<conns, intent, engage, result, sentOn, executed>>

-----------------------------------------------------------------------------
(* The robot (external)                                                    *)

\* It executes the next command, or refuses it; a last attempt is not refused.
Execute ==
    /\ commands # <<>>
    /\ commands' = Tail(commands)
    /\ LET c == Head(commands) IN
       \/ /\ latch' = engage[c]
          /\ executed' = IF c = Replay THEN executed ELSE Append(executed, c)
          /\ answers' = Append(answers, [of |-> c, result |-> "ok"])
       \/ /\ c \in Calls \/ conns < MaxConns
          /\ answers' = Append(answers, [of |-> c, result |-> "refused"])
          /\ UNCHANGED <<latch, executed>>
    /\ UNCHANGED <<state, up, conns, intent, engage, pc, result, sentOn, runnable>>

Next ==
    \/ \E c \in Calls : Begin(c)
    \/ \E c \in Requests : OnTimeout(c)
    \/ HandleAnswer \/ Return \/ ReplayReturns
    \/ Loss \/ Reconnect \/ Execute

Spec == Init /\ [][Next]_vars

-----------------------------------------------------------------------------

\* A release whose effect the application does not know: it waits, or it ended
\* in anything but an answer, on this connection.
InDoubt(c) ==
    /\ ~engage[c] /\ sentOn[c] = conns
    /\ pc[c] \in {"waiting", "resolved"} \/ result[c] \in {"timeout", "lost"}

\* With an acknowledged e-stop the robot is stopped in READY: before and after
\* a restart of the robot, through refused, lost and repeated replays, unless
\* a release is in doubt.
StoppedInReady ==
    state = "READY" /\ up /\ intent /\ (\A c \in Calls : ~InDoubt(c)) => latch

\* Overlapping calls leave the intent of the one the robot executed last, of
\* those that returned ok: the order of their returns is the robot's order.
Acknowledged == {i \in 1..Len(executed) : pc[executed[i]] = "done" /\ result[executed[i]] = "ok"}
IntentIsLast ==
    \A i \in Acknowledged :
        (\A j \in Acknowledged : j <= i) => intent = engage[executed[i]]
=============================================================================

--------------------------- MODULE RobotLifecycle ---------------------------
(***************************************************************************)
(* The connection life cycle of karo_x2_sdk/_internal/robot_impl.py        *)
(* (RobotImpl) over karo_x2_sdk/_internal/ws_client.py (WsClient):         *)
(* connecting, handshake, transport loss, back-off, reconnect,             *)
(* resubscription, e-stop replay, close() and the abort to FATAL.          *)
(*                                                                         *)
(* One event loop runs many tasks, and each may be overtaken by any other  *)
(* wherever it really suspends: in ws.connect, on the future of a request, *)
(* in a back-off sleep and in ws.close() (up to the close handshake's      *)
(* timeout and the end of the read task).  _transition, _fire_status and   *)
(* _post_log never suspend, and ws.send is taken not to (it would under    *)
(* back-pressure).  A step of the model is the code between two            *)
(* suspensions, and any ready task may be the next to run.                 *)
(*                                                                         *)
(* Callbacks run DISPATCHED (the default), so none runs inside a handler.  *)
(***************************************************************************)
EXTENDS Integers, FiniteSets

CONSTANTS
    Topics,        \* topics the application subscribes to
    MaxTasks,      \* bound: background tasks alive at once
    MaxConn,       \* bound: connections alive at once
    Limited,       \* whether reconnect_max_attempts >= 0
    MaxAttempts,   \* its value; otherwise where the counter saturates
    Env            \* what the environment may do besides failing links:
                   \* "clean"  the server closes with code 1000 or 1001
                   \* "crash"  _build_ssl_context raises something uncaught
                   \* "fatal"  the server or TLS refuses for good
                   \* "close"  the application calls close()
                   \* "unsub"  the application drops subscriptions
                   \* "estop"  the application engages and releases the e-stop

ASSUME BoundsAssumption ==
    /\ MaxTasks \in Nat \ {0} /\ MaxConn \in Nat \ {0}
    /\ MaxAttempts \in Nat /\ Limited \in BOOLEAN /\ IsFiniteSet(Topics)
ASSUME EnvAssumption == Env \subseteq {"clean", "crash", "fatal", "close", "unsub", "estop"}

VARIABLES
    state,         \* _state
    ws,            \* _ws: a connection, 0 for None
    link,          \* each connection: open, and how far its reader is
    task,          \* establish, reconnect, replay and abort tasks
    closers,       \* tasks suspended in ws.close() and what they do next
    hb,            \* whether the heartbeat task runs
    subs,          \* _subs: the state of each topic's slot
    outstanding,   \* _inflight_sub with its timers: unanswered subscribes
    attempt,       \* _reconnect_attempt
    subsPending,   \* _reconnect_subs_pending
    estopPending,  \* _reconnect_estop_pending
    intent         \* _last_estop_intent = "engaged"

vars == <<state, ws, link, task, closers, hb, subs, outstanding,
          attempt, subsPending, estopPending, intent>>

-----------------------------------------------------------------------------
(* Types                                                                   *)

States   == {"IDLE", "CONNECTING", "READY", "TRANSIENT_FAILURE", "RECONNECTING",
             "SHUTDOWN", "FATAL"}
Terminal == {"SHUTDOWN", "FATAL"}
Conns    == 1..MaxConn
Tasks    == 0..MaxTasks      \* 0 is the initial establish task

\* up: open.  closing: our close frame is out.  lost: failed, and the reader
\* has not noticed.  closed: the reader has ended (or there never was one).
Links    == {"up", "closing", "lost", "closed"}

\* sleep, connect, handshake: _do_reconnect and _establish.  flush, resub: the
\* loops that send subscribes.  rnew, rwait: _do_estop_replay.  abort: an
\* _abort_to_fatal that has not started.  closing: inside ws.close().
Steps    == {"none", "sleep", "connect", "handshake", "flush", "resub",
             "rnew", "rwait", "abort", "closing"}
Futures  == {"none", "wait", "ok", "refused", "timeout", "error", "fatal"}
Items    == [topic : Topics, alive : BOOLEAN]
Callers  == {"task", "reader", "heartbeat", "timer", "user"}

\* One background task: its step, whether it is _reconnect_task, the attempt
\* it will make, the connection and future it waits on, what it has to send.
TaskRecs    == [pc : Steps, latest : BOOLEAN, att : 0..MaxAttempts,
                conn : 0..MaxConn, fut : Futures, todo : SUBSET Items]
CloserRecs  == [kind : {"retry", "fatal", "shutdown"}, conn : Conns, by : Callers,
                who : 0..(MaxTasks + MaxConn)]
RequestRecs == [topic : Topics, conn : Conns, live : BOOLEAN, retry : BOOLEAN]
NoTask      == [pc |-> "none", latest |-> FALSE, att |-> 0, conn |-> 0, fut |-> "none", todo |-> {}]

TypeOK ==
    /\ state \in States
    /\ ws \in 0..MaxConn
    /\ link \in [Conns -> Links]
    /\ task \in [Tasks -> TaskRecs]
    /\ closers \subseteq CloserRecs
    /\ hb \in BOOLEAN
    /\ subs \in [Topics -> {"absent", "PENDING", "ACTIVE", "PAUSED"}]
    /\ outstanding \subseteq RequestRecs
    /\ attempt \in 0..MaxAttempts
    /\ subsPending \in 0..Cardinality(Topics)
    /\ estopPending \in BOOLEAN /\ intent \in BOOLEAN

Init ==
    /\ state = "IDLE" /\ ws = 0 /\ link = [k \in Conns |-> "closed"]
    /\ task = [t \in Tasks |-> NoTask] /\ closers = {} /\ hb = FALSE
    /\ subs = [q \in Topics |-> "absent"] /\ outstanding = {}
    /\ attempt = 0 /\ subsPending = 0 /\ estopPending = FALSE
    /\ intent = FALSE

-----------------------------------------------------------------------------
(* Helpers                                                                 *)

\* WsClient.send succeeds: `_ws` is set and open.
CanSend == ws # 0 /\ link[ws] = "up"

Slots == {q \in Topics : subs[q] # "absent"}
SlotItems == {[topic |-> q, alive |-> TRUE] : q \in Slots}

\* Defect: only the slots that wait for their answer pause.
PausedPendingOnly(sb) == [q \in Topics |-> IF sb[q] = "PENDING" THEN "PAUSED" ELSE sb[q]]

\* `for slot in _subs.values()`: ACTIVE and PENDING slots pause.
Paused(sb) == [q \in Topics |-> IF sb[q] = "absent" THEN "absent" ELSE "PAUSED"]

\* Fail every request that waits for an answer.
Failed(tk, how) ==
    [t \in Tasks |-> IF tk[t].fut = "wait" THEN [tk[t] EXCEPT !.fut = how] ELSE tk[t]]

\* The slots a send loop still holds are no longer those of _subs.
Orphaned(tk, Q) ==
    [t \in Tasks |-> [tk[t] EXCEPT !.todo =
        {IF x.topic \in Q THEN [x EXCEPT !.alive = FALSE] ELSE x : x \in @}]]

\* Without a limit the number of attempts only feeds the back-off.
Saturated(n) == IF n > MaxAttempts THEN MaxAttempts ELSE n

FreeTasks(tk) == {i \in 1..MaxTasks : tk[i].pc = "none"}
NextTask(tk)  == CHOOSE i \in FreeTasks(tk) : TRUE

\* The heartbeat and _reconnect_task (the reconnect task scheduled last) can be
\* cancelled, also inside WsClient.close().  There it ends the task while the
\* close handshake is on and is swallowed while the reader is awaited: which of
\* the two is open, so whoever cancels names the ones that end.
HeartbeatClosers == {c \in closers : c.by = "heartbeat"}
ReconnectClosers == {c \in closers : c.by = "task" /\ task[c.who].latest}

\* _reconnect_task.cancel(), which ends the closers in `ending' and no other.
\* A task that is about to enter ws.close() is the one that cancels.
Cancelled(tk, ending) ==
    LET inside(t) == {c \in closers : c.by = "task" /\ c.who = t}
    IN  [t \in Tasks |->
            IF /\ tk[t].latest /\ inside(t) \subseteq ending
               /\ tk[t].pc = "closing" => inside(t) # {}
            THEN NoTask ELSE tk[t]]

\* A new task in the pool; a reconnect task becomes the latest one.
Sleeper == [NoTask EXCEPT !.pc = "sleep", !.latest = TRUE, !.att = Saturated(attempt + 1)]
Aborter == [NoTask EXCEPT !.pc = "abort"]
Spawned(tk, new) ==
    [t \in Tasks |->
        IF t = NextTask(tk) THEN new
        ELSE IF new.latest THEN [tk[t] EXCEPT !.latest = FALSE] ELSE tk[t]]

Closing(lk, k) == IF lk[k] = "up" THEN [lk EXCEPT ![k] = "closing"] ELSE lk

Closer(kind, by, who) == [kind |-> kind, conn |-> ws, by |-> by, who |-> who]

\* The reader of connection k runs, and is not itself inside ws.close().
ReaderFree(k) ==
    /\ link[k] \in {"up", "closing", "lost"}
    /\ \A c \in closers : ~(c.by = "reader" /\ c.who = k)

\* Task t is not suspended in a ws.close().
TaskFree(t) == \A c \in closers : ~(c.by = "task" /\ c.who = t)

\* ws.close() returns once the connection's reader has ended or, when that
\* reader is the caller, once the close handshake is over.
CloseEnds(c) ==
    \/ link[c.conn] = "closed"
    \/ link[c.conn] = "lost" /\ c.by = "reader" /\ c.who = c.conn

\* Task t ends here, or, when it has just called _on_transport_close or
\* _abort_to_fatal, after the ws.close() in it.
EndedBy(t) ==
    [task EXCEPT ![t] = IF ws = 0 THEN NoTask
                        ELSE [NoTask EXCEPT !.pc = "closing", !.latest = task[t].latest]]

-----------------------------------------------------------------------------
(* Composite operations of the code                                        *)

\* _schedule_reconnect(self._reconnect_attempt + 1) in state s.  The attempt
\* number is captured by the task; _reconnect_attempt keeps its value.
Schedule(s, tk) ==
    IF s \in Terminal
    THEN task' = tk
    ELSE /\ FreeTasks(tk) # {}
         /\ task' = Spawned(tk, IF Limited /\ attempt + 1 > MaxAttempts THEN Aborter ELSE Sleeper)

\* _on_transport_close, called by `by' (task or reader `who') in state s with
\* the caller's own changes in lk, sb and tk, up to `await self._ws.close()'.
\* With _ws None there is nothing to wait for; nor does the reader of a lost
\* connection wait for itself.
OnTransportClose(s, lk, sb, tk, by, who) ==
    IF s \in Terminal
    THEN /\ state' = s /\ link' = lk /\ subs' = sb /\ task' = tk
         /\ UNCHANGED <<ws, closers, hb, outstanding, attempt>>
    ELSE /\ state' = "TRANSIENT_FAILURE"
         /\ subs' = Paused(sb)
         /\ outstanding' = {}
         /\ hb' = FALSE
         /\ \E ending \in SUBSET HeartbeatClosers :
              IF ws = 0 \/ (by = "reader" /\ who = ws /\ lk[ws] = "closed")
              THEN /\ ws' = 0
                   /\ link' = lk
                   /\ Schedule("TRANSIENT_FAILURE", Failed(tk, "error"))
                   /\ closers' = closers \ ending
              ELSE /\ link' = Closing(lk, ws)
                   /\ closers' = (closers \ ending) \cup {Closer("retry", by, who)}
                   /\ task' = Failed(tk, "error")
                   /\ UNCHANGED ws
         /\ UNCHANGED attempt

\* _abort_to_fatal up to `await self._ws.close()'; FATAL follows the close.
AbortToFatal(tk, how, by, who) ==
    /\ subs' = [q \in Topics |-> "absent"]
    /\ outstanding' = {}
    /\ hb' = FALSE
    /\ \E ending \in SUBSET (HeartbeatClosers \cup ReconnectClosers) :
         /\ task' = Orphaned(Cancelled(Failed(tk, how), ending), Topics)
         /\ closers' = (closers \ ending) \cup IF ws = 0 THEN {} ELSE {Closer("fatal", by, who)}
    /\ IF ws = 0
       THEN state' = "FATAL" /\ UNCHANGED link
       ELSE link' = Closing(link, ws) /\ UNCHANGED state
    /\ UNCHANGED <<ws, attempt>>

\* _start_heartbeat cancels the heartbeat before, if it is still in ws.close();
\* one that goes on is nobody's to cancel any more.
StartHeartbeat ==
    \E ending \in SUBSET HeartbeatClosers :
        closers' = {IF c.by = "heartbeat" THEN [c EXCEPT !.by = "timer"] ELSE c :
                        c \in closers \ ending}

\* The last step of a reconnect.
ReadyAgain == state' = "READY" /\ attempt' = 0

-----------------------------------------------------------------------------
(* The application                                                         *)

\* connect() creates the establish task; the task leaves IDLE when it runs.
Connect ==
    /\ state = "IDLE"
    /\ state' = "CONNECTING"
    /\ task' = [task EXCEPT ![0].pc = "connect"]
    /\ UNCHANGED <<ws, link, closers, hb, subs, outstanding, attempt,
                   subsPending, estopPending, intent>>

\* close() up to `await self._ws.close()'.  Only the latest reconnect task and
\* the heartbeat are cancelled.
Close ==
    /\ "close" \in Env /\ state # "SHUTDOWN"
    /\ state' = "SHUTDOWN"
    /\ subs' = [q \in Topics |-> "absent"]
    /\ outstanding' = {}
    /\ hb' = FALSE
    /\ \E ending \in SUBSET (HeartbeatClosers \cup ReconnectClosers) :
         /\ task' = Orphaned(Failed(Cancelled(task, ending), "error"), Topics)
         /\ closers' = (closers \ ending) \cup IF ws = 0 THEN {} ELSE {Closer("shutdown", "user", 0)}
    /\ link' = IF ws = 0 THEN link ELSE Closing(link, ws)
    /\ UNCHANGED <<ws, attempt, subsPending, estopPending, intent>>

\* _send_subscribe registers a request on the current connection; an earlier
\* one for the same slot no longer carries the slot's request id.
Registered(q, alive, retry) ==
    {IF alive /\ r.topic = q THEN [r EXCEPT !.live = FALSE] ELSE r : r \in outstanding}
        \cup {[topic |-> q, conn |-> ws, live |-> alive, retry |-> retry]}

\* _subscribe_internal: record the slot; send at once only when READY.
Subscribe(q) ==
    /\ subs[q] = "absent"
    /\ IF state # "READY" \/ CanSend
       THEN /\ subs' = [subs EXCEPT ![q] = "PENDING"]
            /\ outstanding' = IF state = "READY" THEN Registered(q, TRUE, FALSE) ELSE outstanding
            /\ UNCHANGED <<state, ws, link, task, closers, hb, attempt>>
       ELSE OnTransportClose(state, link, [subs EXCEPT ![q] = "PENDING"], task, "user", 0)
    /\ UNCHANGED <<subsPending, estopPending, intent>>

\* The slot is CLOSED and popped: unsubscribe() when not READY, the end of an
\* unsubscribe() begun when READY, or the finalizer of a dropped handle.
Unsubscribe(q) ==
    /\ "unsub" \in Env /\ subs[q] # "absent"
    /\ subs' = [subs EXCEPT ![q] = "absent"]
    /\ outstanding' = {IF r.topic = q THEN [r EXCEPT !.live = FALSE] ELSE r : r \in outstanding}
    /\ task' = Orphaned(task, {q})
    /\ UNCHANGED <<state, ws, link, closers, hb, attempt, subsPending,
                   estopPending, intent>>

\* emergency_stop() was acknowledged: its caller runs again and records the
\* intent, maybe after a loss that came at the heels of the answer; how soon
\* after is left open.
EmergencyStopAcked(engage) ==
    /\ "estop" \in Env /\ state \in {"READY", "TRANSIENT_FAILURE"}
    /\ intent # engage /\ intent' = engage
    /\ UNCHANGED <<state, ws, link, task, closers, hb, subs, outstanding,
                   attempt, subsPending, estopPending>>

-----------------------------------------------------------------------------
(* Connecting and handshaking: _do_reconnect and _establish                *)

\* A task whose future is resolved, that was just created or that is in a loop
\* of sends runs in the loop's next rounds.  Back-offs, timers and connecting
\* take far longer; one that ends in the same round is taken to end after it.
NoReadyTask ==
    /\ \A t \in Tasks : /\ task[t].fut \in {"none", "wait"}
                        /\ task[t].pc \notin {"rnew", "abort"}
                        /\ task[t].pc \in {"flush", "resub"} => ~TaskFree(t)
    /\ \A c \in closers : ~CloseEnds(c)
    /\ \A k \in Conns : link[k] = "lost" => ~ReaderFree(k)

\* Defect: the end of a back-off does not look at the state.
SleepEndsAnyway(t) ==
    /\ task[t].pc = "sleep" /\ NoReadyTask
    /\ task' = [task EXCEPT ![t].pc = "connect", ![t].att = 0]
    /\ state' = "RECONNECTING"
    /\ attempt' = task[t].att
    /\ UNCHANGED <<ws, link, closers, hb, subs, outstanding, subsPending,
                   estopPending, intent>>

\* The back-off ends: only TRANSIENT_FAILURE leads to a reconnect.
SleepEnds(t) ==
    /\ task[t].pc = "sleep" /\ NoReadyTask
    /\ IF state # "TRANSIENT_FAILURE"
       THEN /\ task' = [task EXCEPT ![t] = NoTask]
            /\ UNCHANGED <<state, attempt>>
       ELSE /\ task' = [task EXCEPT ![t].pc = "connect", ![t].att = 0]
            /\ state' = "RECONNECTING"
            /\ attempt' = task[t].att
    /\ UNCHANGED <<ws, link, closers, hb, subs, outstanding, subsPending,
                   estopPending, intent>>

FreeConn(k) ==
    /\ link[k] = "closed" /\ ws # k
    /\ \A t \in Tasks : task[t].conn # k
    /\ \A c \in closers : c.conn # k
    /\ \A r \in outstanding : r.conn # k

\* ws.connect() returned: take the connection and send the handshake.  The
\* state is not looked at again.
ConnectOk(t) ==
    /\ task[t].pc = "connect" /\ NoReadyTask
    /\ \E k \in Conns :
        /\ FreeConn(k) /\ \A j \in Conns : FreeConn(j) => k <= j
        /\ link' = [link EXCEPT ![k] = "up"]
        /\ ws' = k
        /\ task' = [task EXCEPT ![t].pc = "handshake", ![t].conn = k, ![t].fut = "wait"]
    /\ UNCHANGED <<state, closers, hb, subs, outstanding, attempt,
                   subsPending, estopPending, intent>>

\* ws.connect() raised a transient error.
ConnectFails(t) ==
    /\ task[t].pc = "connect" /\ NoReadyTask
    /\ state' = "TRANSIENT_FAILURE"
    /\ Schedule("TRANSIENT_FAILURE", [task EXCEPT ![t] = NoTask])
    /\ UNCHANGED <<attempt, ws, link, closers, hb, subs, outstanding, subsPending,
                   estopPending, intent>>

\* ws.connect() raised an error of category FATAL.
ConnectFatal(t) ==
    /\ "fatal" \in Env /\ task[t].pc = "connect" /\ NoReadyTask
    /\ AbortToFatal(EndedBy(t), "fatal", "task", t)
    /\ UNCHANGED <<subsPending, estopPending, intent>>

\* An exception nobody catches ends the task; only the initial task has a
\* done-callback, which starts an abort.
ConnectCrashes(t) ==
    /\ "crash" \in Env /\ task[t].pc = "connect" /\ NoReadyTask
    /\ task' = IF t # 0 THEN [task EXCEPT ![t] = NoTask]
               ELSE [task EXCEPT ![t] = [NoTask EXCEPT !.pc = "abort"]]
    /\ UNCHANGED <<state, ws, link, closers, hb, subs, outstanding, attempt,
                   subsPending, estopPending, intent>>

\* The reader of a connection receives the answer to the handshake or replay
\* sent on it.
Answered(t, v) ==
    /\ task[t].fut = "wait" /\ ReaderFree(task[t].conn) /\ link[task[t].conn] # "lost"
    /\ v = "fatal" => "fatal" \in Env
    /\ task' = [task EXCEPT ![t].fut = v]
    /\ UNCHANGED <<state, ws, link, closers, hb, subs, outstanding, attempt,
                   subsPending, estopPending, intent>>

\* Its timer fires, or the request could not be sent.
Unanswered(t, v) ==
    /\ task[t].fut = "wait"
    /\ v = "timeout" => NoReadyTask
    /\ v = "error" => link[task[t].conn] # "up"
    /\ task' = [task EXCEPT ![t].fut = v]
    /\ UNCHANGED <<state, ws, link, closers, hb, subs, outstanding, attempt,
                   subsPending, estopPending, intent>>

\* Defect: a failed handshake drops the connection without closing it.
HandshakeFailsLeaking(t) ==
    /\ task[t].pc = "handshake" /\ task[t].fut \in {"refused", "timeout", "error"}
    /\ state' = "TRANSIENT_FAILURE"
    /\ ws' = 0
    /\ Schedule("TRANSIENT_FAILURE", [task EXCEPT ![t] = NoTask])
    /\ UNCHANGED <<link, closers, attempt, hb, subs, outstanding, subsPending,
                   estopPending, intent>>

\* Defect: a failed handshake closes the connection and does not retry.
HandshakeFailsForgets(t) ==
    /\ task[t].pc = "handshake" /\ task[t].fut \in {"refused", "timeout", "error"}
    /\ state' = "TRANSIENT_FAILURE"
    /\ task' = [task EXCEPT ![t] = NoTask]
    /\ ws' = 0
    /\ IF ws = 0 THEN UNCHANGED link ELSE link' = Closing(link, ws)
    /\ UNCHANGED <<attempt, closers, hb, subs, outstanding, subsPending,
                   estopPending, intent>>

\* Handshake timed out, failed or was refused for now: TRANSIENT_FAILURE,
\* close whatever _ws is, then schedule.
HandshakeFails(t) ==
    /\ task[t].pc = "handshake" /\ task[t].fut \in {"refused", "timeout", "error"}
    /\ state' = "TRANSIENT_FAILURE"
    /\ IF ws = 0
       THEN Schedule("TRANSIENT_FAILURE", [task EXCEPT ![t] = NoTask])
            /\ UNCHANGED <<link, closers>>
       ELSE /\ task' = EndedBy(t)
            /\ link' = Closing(link, ws)
            /\ closers' = closers \cup {Closer("retry", "task", t)}
    /\ UNCHANGED <<ws, attempt, hb, subs, outstanding, subsPending, estopPending, intent>>

\* Refused for good, or the certificate cannot be encoded.
HandshakeFatal(t) ==
    /\ task[t].pc = "handshake" /\ task[t].fut = "fatal"
    /\ AbortToFatal(EndedBy(t), "fatal", "task", t)
    /\ UNCHANGED <<subsPending, estopPending, intent>>

\* The first handshake succeeded: READY, then flush the PENDING slots.
HandshakeOkInitial ==
    /\ task[0].pc = "handshake" /\ task[0].fut = "ok"
    /\ state' = "READY"
    /\ hb' = TRUE
    /\ StartHeartbeat
    /\ task' = [task EXCEPT ![0] = [NoTask EXCEPT !.pc = "flush", !.todo = SlotItems]]
    /\ UNCHANGED <<ws, link, subs, outstanding, attempt,
                   subsPending, estopPending, intent>>

\* A handshake after a loss succeeded: READY at once when there is nothing to
\* restore; otherwise count what must be restored first.  The heartbeat task
\* runs before any answer can arrive, finds the state not READY and ends.
HandshakeOkAgain(t) ==
    /\ t # 0 /\ task[t].pc = "handshake" /\ task[t].fut = "ok"
    /\ subsPending' = Cardinality(Slots)
    /\ estopPending' = intent
    /\ IF Slots = {} /\ ~intent
       THEN /\ ReadyAgain
            /\ hb' = TRUE
            /\ task' = [task EXCEPT ![t] = NoTask]
       ELSE /\ hb' = (state = "READY")
            /\ task' = [task EXCEPT ![t] = [NoTask EXCEPT !.pc = "resub", !.todo = SlotItems,
                                                            !.latest = task[t].latest]]
            /\ UNCHANGED <<state, attempt>>
    /\ StartHeartbeat
    /\ UNCHANGED <<ws, link, subs, outstanding, intent>>

-----------------------------------------------------------------------------
(* Restoring: subscribes and e-stop replay                                 *)

\* One round of the loop over a snapshot of _subs: the flush after the first
\* handshake takes PENDING slots without a request, the resubscription takes
\* every slot.  A failed send is a transport close inside the loop, which then
\* goes on with the next slot.
SendNext(t) ==
    \E x \in task[t].todo :
        LET rest == [task EXCEPT ![t].todo = @ \ {x}]
            q    == x.topic
            skip == /\ task[t].pc = "flush"
                    /\ \/ ~x.alive \/ subs[q] # "PENDING"
                       \/ \E r \in outstanding : r.topic = q /\ r.live
            slots == IF x.alive THEN [subs EXCEPT ![q] = "PENDING"] ELSE subs
        IN
        /\ task[t].pc \in {"flush", "resub"} /\ TaskFree(t)
        /\ IF skip \/ CanSend
           THEN /\ task' = rest
                /\ subs' = IF skip THEN subs ELSE slots
                /\ outstanding' = IF skip THEN outstanding ELSE Registered(q, x.alive, FALSE)
                /\ UNCHANGED <<state, ws, link, closers, hb, attempt>>
           ELSE OnTransportClose(state, link, slots, rest, "task", t)
        /\ UNCHANGED <<subsPending, estopPending, intent>>

\* The loop is over; a reconnect with an engaged e-stop starts the replay.
SendsDone(t) ==
    /\ task[t].pc \in {"flush", "resub"} /\ task[t].todo = {} /\ TaskFree(t)
    /\ task' = [task EXCEPT ![t] = IF task[t].pc = "resub" /\ estopPending
                                   THEN [NoTask EXCEPT !.pc = "rnew"] ELSE NoTask]
    /\ UNCHANGED <<state, ws, link, closers, hb, subs, outstanding, attempt,
                   subsPending, estopPending, intent>>

\* _do_estop_replay sends its request, or fails to and gives the connection up.
ReplayBegins(t) ==
    /\ task[t].pc = "rnew"
    /\ IF CanSend
       THEN /\ task' = [task EXCEPT ![t].pc = "rwait", ![t].conn = ws, ![t].fut = "wait"]
            /\ UNCHANGED <<state, ws, link, closers, hb, subs, outstanding,
                           attempt, estopPending>>
       ELSE /\ estopPending' = FALSE
            /\ OnTransportClose(state, link, subs, EndedBy(t), "task", t)
    /\ UNCHANGED <<subsPending, intent>>

\* The replay was acknowledged: READY unless subscriptions are outstanding.
ReplayAcked(t) ==
    /\ task[t].pc = "rwait" /\ task[t].fut = "ok"
    /\ estopPending' = FALSE
    /\ task' = [task EXCEPT ![t] = NoTask]
    /\ IF subsPending = 0 THEN ReadyAgain ELSE UNCHANGED <<state, attempt>>
    /\ UNCHANGED <<ws, link, closers, hb, subs, outstanding, subsPending, intent>>

\* Refused, timed out or lost: give the connection up.
ReplayFailed(t) ==
    /\ task[t].pc = "rwait" /\ task[t].fut \in {"refused", "timeout", "error", "fatal"}
    /\ estopPending' = FALSE
    /\ OnTransportClose(state, link, subs, EndedBy(t), "task", t)
    /\ UNCHANGED <<subsPending, intent>>

\* Defect: every acknowledgement counts down, during a reconnect or not.
FinishAlways(reconnecting) ==
    /\ subsPending' = subsPending - 1
    /\ IF reconnecting /\ subsPending = 1 /\ ~estopPending
       THEN ReadyAgain ELSE UNCHANGED <<state, attempt>>

\* Defect: the count is looked at before it is decremented.
FinishTooLate(reconnecting) ==
    IF reconnecting /\ subsPending > 0
    THEN /\ subsPending' = subsPending - 1
         /\ IF subsPending = 0 /\ ~estopPending
            THEN ReadyAgain ELSE UNCHANGED <<state, attempt>>
    ELSE UNCHANGED <<state, attempt, subsPending>>

\* Defect: the last acknowledgement of a reconnect ignores a pending replay.
FinishIgnoringReplay(reconnecting) ==
    IF reconnecting /\ subsPending > 0
    THEN /\ subsPending' = subsPending - 1
         /\ IF subsPending = 1 THEN ReadyAgain ELSE UNCHANGED <<state, attempt>>
    ELSE UNCHANGED <<state, attempt, subsPending>>

\* _maybe_finish_reconnect
MaybeFinishReconnect(reconnecting) ==
    IF reconnecting /\ subsPending > 0
    THEN /\ subsPending' = subsPending - 1
         /\ IF subsPending = 1 /\ ~estopPending
            THEN ReadyAgain ELSE UNCHANGED <<state, attempt>>
    ELSE UNCHANGED <<state, attempt, subsPending>>

\* _handle_subscribe_ack for request r, whose slot may be gone meanwhile.
\* verdict: accepted; rejected; busy, a transient error; fatal; too_old, the
\* history is gone and one fresh subscribe is made instead.
HandleAck(r, verdict) ==
    LET q == r.topic
        slot == r.live /\ subs[q] # "absent"
        rest == outstanding \ {r}
        reconnecting == state = "RECONNECTING"
    IN
    /\ r \in outstanding /\ ReaderFree(r.conn) /\ link[r.conn] # "lost"
    /\ CASE ~slot ->
              /\ verdict = "accepted" /\ outstanding' = rest
              /\ UNCHANGED <<state, ws, link, task, closers, hb, subs, attempt,
                             subsPending>>
         [] slot /\ verdict = "accepted" ->
              /\ outstanding' = rest
              /\ subs' = [subs EXCEPT ![q] = "ACTIVE"]
              /\ MaybeFinishReconnect(reconnecting)
              /\ UNCHANGED <<ws, link, task, closers, hb>>
         [] slot /\ (verdict = "rejected" \/ (verdict = "too_old" /\ r.retry)) ->
              /\ outstanding' = rest
              /\ subs' = [subs EXCEPT ![q] = "absent"]
              /\ task' = Orphaned(task, {q})
              /\ MaybeFinishReconnect(reconnecting)
              /\ UNCHANGED <<ws, link, closers, hb>>
         [] slot /\ verdict = "busy" /\ ~reconnecting ->
              /\ outstanding' = rest
              /\ subs' = [subs EXCEPT ![q] = "absent"]
              /\ task' = Orphaned(task, {q})
              /\ UNCHANGED <<state, ws, link, closers, hb, attempt, subsPending>>
         [] slot /\ verdict = "busy" /\ reconnecting ->
              /\ OnTransportClose(state, link, subs, task, "reader", r.conn)
              /\ UNCHANGED <<subsPending>>
         [] slot /\ verdict = "fatal" ->
              /\ "fatal" \in Env
              /\ AbortToFatal(task, "fatal", "reader", r.conn)
              /\ UNCHANGED <<subsPending>>
         [] slot /\ verdict = "too_old" /\ ~r.retry ->
              /\ IF CanSend
                 THEN /\ outstanding' = rest \cup {[r EXCEPT !.conn = ws, !.retry = TRUE]}
                      /\ subs' = [subs EXCEPT ![q] = "PENDING"]
                      /\ UNCHANGED <<state, ws, link, task, closers, hb, attempt>>
                 ELSE OnTransportClose(state, link, subs, task, "reader", r.conn)
              /\ UNCHANGED <<subsPending>>
    /\ UNCHANGED <<estopPending, intent>>

\* subscribe_ack_timeout for a request that is still registered.
AckTimeout(r) ==
    /\ r \in outstanding /\ NoReadyTask
    /\ OnTransportClose(state, link, subs, task, "timer", 0)
    /\ UNCHANGED <<subsPending, estopPending, intent>>

-----------------------------------------------------------------------------
(* Connections, readers, ws.close() and the heartbeat                      *)

OnlyLink == UNCHANGED <<state, ws, task, closers, hb, subs, outstanding, attempt,
                        subsPending, estopPending, intent>>

\* The transport fails, or the close handshake does not end in time.
LinkFails(k) ==
    /\ link[k] \in {"up", "closing"}
    /\ link' = [link EXCEPT ![k] = "lost"]
    /\ OnlyLink

\* The peer answers our close frame: the read loop ends without an exception.
PeerCloses(k) ==
    /\ link[k] = "closing"
    /\ link' = [link EXCEPT ![k] = "closed"]
    /\ OnlyLink

\* The server closes with 1000 or 1001: the read loop ends without one too.
ServerCloses(k) ==
    /\ "clean" \in Env /\ link[k] = "up"
    /\ link' = [link EXCEPT ![k] = "closed"]
    /\ OnlyLink

\* _read_loop catches ConnectionClosed and calls _fire_close.
ReaderNotices(k) ==
    /\ link[k] = "lost" /\ ReaderFree(k)
    /\ OnTransportClose(state, [link EXCEPT ![k] = "closed"], subs, task, "reader", k)
    /\ UNCHANGED <<subsPending, estopPending, intent>>

\* A ws.close() returns: `_ws = None', and the rest of the operation runs.
CloseReturns(c) ==
    LET ended == [t \in Tasks |-> IF c.by = "task" /\ c.who = t /\ task[t].pc = "closing"
                                  THEN NoTask ELSE task[t]]
    IN
    /\ c \in closers /\ CloseEnds(c)
    /\ closers' = closers \ {c}
    /\ ws' = 0
    /\ IF c.kind = "retry"
       THEN Schedule(state, ended)
       ELSE task' = ended
    /\ state' = IF c.kind = "fatal" THEN "FATAL" ELSE state
    /\ UNCHANGED <<link, attempt, hb, subs, outstanding, subsPending, estopPending, intent>>

\* The abort scheduled by _schedule_reconnect or by the done-callback starts.
AbortBegins(t) ==
    /\ task[t].pc = "abort"
    /\ AbortToFatal(EndedBy(t), "error", "task", t)
    /\ UNCHANGED <<subsPending, estopPending, intent>>

\* max_missed_pings pings went unanswered on an open connection.
HeartbeatDead ==
    /\ hb /\ state = "READY" /\ CanSend /\ NoReadyTask
    /\ OnTransportClose(state, link, subs, task, "heartbeat", 0)
    /\ UNCHANGED <<subsPending, estopPending, intent>>

\* The loop ends when the state is not READY or the connection is not open.
HeartbeatEnds ==
    /\ hb /\ (state # "READY" \/ ~CanSend)
    /\ hb' = FALSE
    /\ UNCHANGED <<state, ws, link, task, closers, subs, outstanding, attempt,
                   subsPending, estopPending, intent>>

-----------------------------------------------------------------------------

User ==
    \/ Connect \/ Close
    \/ \E q \in Topics : Subscribe(q) \/ Unsubscribe(q)
    \/ \E engage \in BOOLEAN : EmergencyStopAcked(engage)

Establish(t) ==
    \/ SleepEnds(t) \/ ConnectOk(t) \/ ConnectFails(t) \/ ConnectFatal(t) \/ ConnectCrashes(t)
    \/ HandshakeFails(t) \/ HandshakeFatal(t) \/ HandshakeOkAgain(t)
    \/ SendNext(t) \/ SendsDone(t)
    \/ ReplayBegins(t) \/ ReplayAcked(t) \/ ReplayFailed(t)
    \/ AbortBegins(t)

Network ==
    \/ \E t \in Tasks, v \in {"ok", "refused", "fatal"} : Answered(t, v)
    \/ \E t \in Tasks, v \in {"timeout", "error"} : Unanswered(t, v)
    \/ \E r \in outstanding, v \in {"accepted", "rejected", "busy", "fatal", "too_old"} : HandleAck(r, v)
    \/ \E r \in outstanding : AckTimeout(r)
    \/ \E k \in Conns : LinkFails(k) \/ PeerCloses(k) \/ ServerCloses(k) \/ ReaderNotices(k)
    \/ \E c \in closers : CloseReturns(c)
    \/ HeartbeatDead \/ HeartbeatEnds

Next ==
    \/ User
    \/ HandshakeOkInitial
    \/ \E t \in Tasks : Establish(t)
    \/ Network

Spec == Init /\ [][Next]_vars

(***************************************************************************)
(* Fairness.  The loop never rests while a task is ready or a timer is due,*)
(* a close handshake ends within close_timeout, ws.connect() comes up or   *)
(* fails within connect_timeout, and a read task notices that its          *)
(* connection is lost.  Nothing obliges the server to answer, an open      *)
(* connection to fail, or the application to act.                          *)
(***************************************************************************)
CloseHandshakeEnds(k) == link[k] = "closing" /\ (PeerCloses(k) \/ LinkFails(k))

LoopRuns ==
    \/ HandshakeOkInitial
    \/ \E t \in Tasks : Establish(t) \/ Unanswered(t, "timeout")
    \/ \E k \in Conns : CloseHandshakeEnds(k) \/ ReaderNotices(k)
    \/ \E c \in closers : CloseReturns(c)
    \/ \E r \in outstanding : AckTimeout(r)
    \/ HeartbeatEnds

Fairness == WF_vars(LoopRuns)

FairSpec == Spec /\ Fairness

-----------------------------------------------------------------------------
(* Properties                                                              *)

\* Task t may still assign _state without looking at it first.
Alive(t) == task[t].pc \notin {"none", "sleep", "closing"}

\* SHUTDOWN and FATAL are final once no connect, handshake, send loop, replay
\* or abort is left over from before: back-offs that end, readers, timers, the
\* heartbeat and pending ws.close() calls of a retry all respect them.
TerminalIsFinalOnceQuiet ==
    [][/\ state \in Terminal /\ \A t \in Tasks : ~Alive(t)
       /\ \A c \in closers : c.kind # "fatal"
       => state' \in Terminal]_vars

\* wait_until_ready() has an answer: connecting, waiting and reconnecting end
\* in READY, FATAL or SHUTDOWN when reconnect_max_attempts is a limit.
ReconnectConcludes ==
    state \in {"CONNECTING", "TRANSIENT_FAILURE", "RECONNECTING"}
        ~> state \in {"READY"} \cup Terminal

(***************************************************************************)
(* What API.md and README.md say, and the code does not do.                *)
(***************************************************************************)

\* API.md, ConnectionState: after close() the robot stays in SHUTDOWN.
ShutdownIsFinal == [][state = "SHUTDOWN" => state' = "SHUTDOWN"]_vars

\* API.md, ConnectionState: READY means connected and usable, so there is a
\* connection object whenever the state is READY.
ReadyIsConnected == state = "READY" => ws # 0

\* README.md, heartbeat: a READY robot whose connection has ended does not
\* stay READY for ever.
DeadLinkIsNoticed ==
    (state = "READY" /\ ~CanSend) ~> (state # "READY" \/ CanSend)

\* README.md, heartbeat: the heartbeat runs while the robot is READY on an
\* open connection.
ReadyHasHeartbeat == state = "READY" /\ CanSend => hb

\* API.md, subscriptions: what was subscribed before READY is established
\* once READY, so no slot stays PENDING while the robot stays READY.
PendingIsSent ==
    \A q \in Topics :
        (state = "READY" /\ subs[q] = "PENDING") ~> (state # "READY" \/ subs[q] # "PENDING")

=============================================================================

# Formal model of karo-x2-sdk-python

TLA+ models of the Karo X2 robot SDK for Python, model-checked with TLC and
proved about with TLAPS. Paths are relative to the repository; `robot_impl.py`
and `ws_client.py` are in `karo_x2_sdk/_internal/`.

- [The system](#the-system)
- [The modules](#the-modules)
- [What TLC checks](#what-tlc-checks)
- [Where the code and its documents disagree](#where-the-code-and-its-documents-disagree)
- [What is proved](#what-is-proved)
- [What is not modelled, and the plan](#what-is-not-modelled-and-the-plan)

## The system

The SDK is one process with one asyncio event loop. `Robot` (`robot.py`) is a
facade over `RobotImpl` (`robot_impl.py`), which owns everything that changes:
the connection state, the WebSocket, the table of requests, the subscriptions,
the heartbeat, the reconnect task and the e-stop intent. `WsClient`
(`ws_client.py`) wraps one WebSocket connection with its read task; a new one is
made for every attempt. The robot at the other end answers requests and pushes
frames of the subscribed topics.

| Component | State it keeps | Operations | What makes it correct |
|---|---|---|---|
| Connection life cycle | `_state`, `_ws`, `_reconnect_task`, `_reconnect_attempt`, the reconnect counters | `connect`, `_establish`, `_on_transport_close`, `_schedule_reconnect`, `_abort_to_fatal`, `close` | a retry is never lost, terminal states stay, one connection at a time, READY only when restored, an outage ends |
| Transport | the socket, the read task, `_closed` | `connect`, `send`, `close`, `_read_loop`, `_fire_close` | close ends whoever calls it, also the reader |
| Request correlation | `_inflight`, timers, futures, `_next_request_id` | `_send_rpc_and_wait`, `_handle_sdk_response`, the ping's entry | the right answer, once, to everybody who waits; no leak |
| cmd_vel limiter | `_TokenBucket` | `try_acquire` | the rate is kept, refusals do not starve |
| Subscription slots | `_subs`, `_inflight_sub`, ack timers | `_subscribe_internal`, `_send_subscribe`, `_handle_subscribe_ack`, `unsubscribe_request` | what was subscribed is established, and again after a loss |
| Topic stream | `last_seq`, `pending_buffer`, `dispatch_queue`, worker | `_handle_sdk_topic_push`, `_deliver_push_to_sub`, `_drain_pending_buffer` | order, no duplicate, every gap announced |
| Heartbeat | `_last_inbound`, `_miss_count`, its task | `_heartbeat_loop`, `_send_and_wait_ping` | a dead link is noticed, a live one is not given up |
| Emergency stop | `_last_estop_intent` | `emergency_stop_rpc`, `_do_estop_replay` | an engaged stop is engaged again before READY |
| Handles | `SubscriptionFacade`, finalizers | `unsubscribe`, `__del__` | a handle acts on its own slot only |
| Diagnostics | histograms, `hz_buckets` | `get_diagnostics`, `_slide_hz_buckets` | the window counts the last 60 s |
| Errors, codec, messages, facade | none | pure functions, data classes | |

They interact by direct calls inside the loop. The hard part is where a task
suspends: in `ws.connect`, on a future, in a back-off sleep and in
`ws.close()` (which awaits the close handshake and then the read task, while
the read task itself may be the caller). Between two suspensions nothing else
runs; after one, anything may have changed, and most of the code does not look
again. A loss is noticed by several parties (reader, heartbeat, ack timer, a
failed send, the replay), each of which runs the whole of
`_on_transport_close`. Tasks are cancelled while they are in the middle of it.
`PROJECT.json` lists these hazards one by one, at their lines.

Nothing is persisted, so there is no crash recovery; the process is the unit of
failure and the robot the unreliable partner.

## The modules

### RobotLifecycle: the connection life cycle

The core: `RobotImpl` over `WsClient` from `connect()` to `SHUTDOWN` or `FATAL`.

| Variable | In the code |
|---|---|
| `state`, `ws`, `attempt` | `_state`, `_ws` (0 for `None`), `_reconnect_attempt` |
| `link` | each connection: open, our close frame sent, lost but unnoticed, or ended |
| `task` | the tasks that establish, reconnect, replay and abort: their program counter, the future they wait on, what they have still to send, and whether they are `_reconnect_task` |
| `closers` | the tasks inside `await ws.close()`, and what each does afterwards (retry, FATAL, nothing) |
| `hb` | whether the heartbeat task runs |
| `subs`, `outstanding` | the state of each slot of `_subs`; `_inflight_sub` with its timers |
| `subsPending`, `estopPending`, `intent` | the two reconnect counters and `_last_estop_intent` |

An action is the code between two suspensions, with every call it makes:
`OnTransportClose`, `AbortToFatal` and `Schedule` are operators that the actions
include, and `CloseReturns` is the rest of an operation after its `ws.close()`.
Actions that leave a place in the code where nothing suspends are one action:
`HandshakeOkInitial` sets READY and takes the snapshot of the slots to flush.

| Code | Actions |
|---|---|
| `connect`, `close`, `subscribe`, `unsubscribe`, `emergency_stop` | `Connect`, `Close`, `Subscribe`, `Unsubscribe`, `EmergencyStopAcked` |
| `_do_reconnect`, `_establish` | `SleepEnds`, `ConnectOk`, `ConnectFails`, `ConnectFatal`, `ConnectCrashes`, `HandshakeFails`, `HandshakeFatal`, `HandshakeOkInitial`, `HandshakeOkAgain` |
| flush and resubscription loops | `SendNext`, `SendsDone` |
| `_do_estop_replay` | `ReplayBegins`, `ReplayAcked`, `ReplayFailed` |
| `_handle_sdk_response`, request timers | `Answered`, `Unanswered` |
| `_handle_subscribe_ack`, its timer | `HandleAck` (one disjunct per outcome), `AckTimeout` |
| `_read_loop`, `WsClient.close` | `ReaderNotices`, `CloseReturns` |
| `_heartbeat_loop` | `HeartbeatDead`, `HeartbeatEnds` |
| network and peer | `LinkFails`, `PeerCloses`, `ServerCloses` |

Decisions of the model:

- A cancellation that reaches a task inside `WsClient.close()` ends it during
  the close handshake (`CancelledError` passes through `except Exception`) and
  is swallowed while the read task is awaited. Which of the two it meets is open:
  every canceller chooses the subset of closers that end.
- Ready tasks run before timers that are far longer (`NoReadyTask`): back-offs,
  acknowledgement timeouts and connects do not overtake a task that is already
  ready to run. The order among ready tasks is free.
- `ws.send` is taken not to suspend here. RpcCorrelation models the suspension.
- `EmergencyStopAcked` is the moment the caller of an acknowledged e-stop runs again and
  records the intent (robot_impl.py:1197), in READY or in an outage that has begun
  meanwhile. It may come at any time of the outage here; EmergencyStop has the real order.
- `SendNext` leaves out that `_send_subscribe` closes the slot when its message
  cannot be encoded (robot_impl.py:821-829), which takes a rate or a history limit that
  protobuf does not accept.
- The length of a back-off and the heartbeat's timing are abstracted away: a
  sleep ends at some time, a live link may be declared dead.
- `connect()` is one step with the start of its task. A second `connect()` returns
  at once (`_connect_invoked`), and one after `close()` starts a task that finds the
  state not IDLE and returns; neither changes anything the model keeps. A
  `close()` in the moment before the first task runs makes that task return,
  as if `connect()` had not been called.

### LifecycleHistory: what holds while reconnects are not doubled

`_schedule_reconnect` creates a task even when a reconnect is sleeping or
connecting already, and two parties that notice one loss cause two. Then two
reconnects compete for `_ws`, `_state` and the counters; their failures beget
more of them. LifecycleHistory adds one history variable, `doubled`, and states
the promises that hold in every behaviour up to the first doubling.
`ReconnectConcludes` (of RobotLifecycle) is checked without this restriction. `OutageEnds` is its
counterpart here: an outage ends, or reconnects were doubled on the way.

`MCRobotLifecycle` bounds the losses for TLC, and its `UndoubledFairSpec` stops at the
first doubling, for the run whose two properties say nothing of what follows.

### RpcCorrelation: requests, answers, timers

The `_inflight` table, futures and timers of `_send_rpc_and_wait`, the ping
entries without a timer, the demultiplexer, and the three flushes. The life cycle is
an environment that opens, loses, closes and aborts. Every call is a user call,
an internal one (handshake or replay: no READY test) or a ping. Here `ws.send`
suspends, so a loss, a timeout or a cancellation may come between the
registration of a request and its wait.

### RateLimiter: cmd_vel

`_TokenBucket` in exact arithmetic: a token is worth `Period` ticks of the
clock. `grants` is a history of the admitted commands.

### EventStream and SubscriptionStream: one topic, from the robot to the callback

`EventStream` is the promise, without requests, answers or connections: frames
are handed over in order and at most once, and between two announced fresh
starts every number passed over was kept, counted in `drop_count` or announced
as a gap. `SubscriptionStream` is the code:

| Variable | In the code |
|---|---|
| `conf` | EVENT or TELEMETRY, numbered frames or not, INLINE or DISPATCHED, drop policy, `replay_on_reconnect` |
| `slot` | the `SubSlot`: state, `last_seq`, `drop_count`, `pending_buffer`, `dispatch_queue`, the unanswered request, `fresh_retry_done`, the expected number, `ever_active`, `is_reconnect_resume` |
| `reader`, `worker` | the read task inside a message or an INLINE callback; the dispatch worker |
| `state`, `up`, `conns`, `pendingSubs` | as far as the topic sees them; `_reconnect_subs_pending` for one slot |
| `robot`, `chan` | external: the robot's count, history and position, and the messages under way |
| `epoch`, `handed`, `lost`, `gaps` | history: what was announced, handed over and passed over |

| Code | Actions |
|---|---|
| `_handle_sdk_topic_push`, `_deliver_push_to_sub` | `ReadPush` with `Buffered` and `Deliver`; `CallInline`, `InlineReturns` |
| `_sub_dispatch_worker` | `WorkerTakes`, `WorkerReturns` |
| `_handle_subscribe_ack`, `_drain_pending_buffer`, `_maybe_finish_reconnect` | `ReadAck` (`Accepted`, `Refused`), `Drain`, `Drained` |
| `_on_transport_close`, ack timeout | `Loss` |
| `_resubscribe_all_after_reconnect`, `_send_subscribe` | `Reconnect` |
| `unsubscribe_request` | `Unsubscribe`, from the callback itself or another task |
| the robot | `Produce`, `Serve`, `Answer`, `Push`, `Skip` |

`SubscriptionStream_proof` shows that the code implements `EventStream`.
The refinement mapping (`Promise`) takes the dispatch queue for the frames that
wait (in INLINE mode the frame about to be handed over), `last_seq` for the
position, and `drop_count` plus the announced gaps for what was told. A fresh
start is a STARTED, or a RESUMED without a gap count. The mapping shows where
the promise is weaker than one might read it: the first frame after an unknown
position is never a gap, a fresh start says nothing of what lay between, and
`drop_count` may count a frame that arrives later after all (a buffered frame that is
dropped and then replayed), so it bounds the loss from above.

Draining is a step per frame, but nothing else moves between two of them
(`Quiet`), unless an INLINE callback is running.

### SubscriptionRegistry: handles, slots and who is served

One topic over several subscriptions. A handle knows its slot by reference,
`_subs` and `unsubscribe_request` know it by topic; the request waits for the robot
in between, and the finalizer of a lost handle schedules it for later. `served`
is the robot's own record, so that the module can ask whether both sides agree
when nothing is under way.

| Code | Actions |
|---|---|
| `_subscribe_internal` | `Subscribe` (refused if the topic is in `_subs`) |
| `SubscriptionFacade.unsubscribe`, `unsubscribe_request` | `Unsubscribe`, `OnTimeout`, `HandleUnsubscribed`, `Finish` |
| `_facade_finalizer_callback`, `schedule_fire_and_forget_unsubscribe` | `Drop`, `RunScheduled` |
| `_handle_subscribe_ack` | `HandleSubscribeAck` |
| `_on_transport_close`, `_establish` | `Loss`, `Reconnect` |

The application is arbitrary: it may call `unsubscribe()` again and on any handle, also
one that was refused with TOPIC_ALREADY_SUBSCRIBED or closed long ago (`async with` does),
and subscribe while such a call is under way. The robot may refuse any command, an
unsubscribe too. One handle has one call under way at a time; since a call knows only
the topic, the calls of other handles, refused ones among them, stand for further tasks
that unsubscribe the same one. A refused unsubscribe closes the
slot like a granted one, with another error code; only the robot goes on serving it.

### RegistryHistory: which slots are at risk

Because the request finds its slot by the topic, an application can make it hit a slot
that is not the handle's. RegistryHistory records, beside the registry, where that begins, and
states what holds everywhere else:

- `raced`: slots registered before an `unsubscribe()` had returned. The call that waits
  removes the new entry when it returns: h1's call waits, the robot closes h1's slot (or a
  finalizer does), h2 subscribes, and the call of h1 pops h2, which stays open and
  unreachable. `OpenIsRegistered` says that no other slot is ever lost, by no second call, stale
  handle, finalizer or refusal.
- `exposed`: slots registered while a finalizer's request was scheduled, and the slot under
  the topic when a handle that had lost its own slot (closed, refused, or raced) was given
  up. `OnlyOwnerCloses` says that no other held handle is closed except by a refusal.
- `crossed`: on this connection a slot was registered before an `unsubscribe()` had
  returned, or the robot kept a subscription it was asked to end. `RobotAgrees` speaks of every
  other connection: repeated and stale calls, finalizers, timeouts and refused
  subscribes leave SDK and robot in agreement. A loss starts a new connection, on
  which nothing has crossed.

The exemptions are behaviours of the code, and each is needed: with `raced`, any part of `exposed`
or either part of `crossed` left out, TLC refutes the property.
`RegisteredIsOpen` and `UnsubscribeReturns` need none.

### Heartbeat: discrete time

`_heartbeat_loop`, `_send_and_wait_ping` and `_reset_liveness_on_inbound` with the
reader's task beside them. `idle` is the time since `_last_inbound`, `deadline` and
`wakeup` are the two events, `left` the timer the task waits on. A tick passes only
when no task can run. A message and a timer due at the same tick may
come in either order, and a wait that has both sees either outcome: so a
message may reset the count and the ping it interrupted still count as missed.
`SilentWhenGivenUp` says how much that can cost, one ping timeout;
`NoticedInTime` says that interrupted sleeps and pings never stretch the
promised bound of `heartbeat_interval + max_missed_pings * ping_timeout`.

### EmergencyStop: overlapping calls

`emergency_stop_rpc` and `_do_estop_replay` against the latch of the robot, which
executes the commands of one connection in order, may refuse one, and forgets
the latch when it restarts. `runnable` is asyncio's order of resumption: futures
resolved in some order wake their tasks in that order, which is why the intent of
the last return is that of the last command executed (`IntentIsLast`). A loss fails the
futures that still wait, in any order.
`StoppedInReady` is what the replay is for. It excludes a release that is in doubt
(written, and not answered on this connection) and asks for a live link besides READY,
for `_do_estop_replay` may announce READY over a connection that went away while its
answer waited to be taken up.

### Proof modules

`RobotLifecycle_proof` (with LifecycleHistory), `RpcCorrelation_proof`, `RateLimiter_proof`,
`EventStream_proof`, `SubscriptionStream_proof`, `SubscriptionRegistry_proof` (with RegistryHistory),
`Heartbeat_proof` and `EmergencyStop_proof` hold the theorems. Operators marked `Defect:` in a model are
plausible bugs of the definition that follows them. No behaviour uses them; they
serve to see that each property can fail.

## What TLC checks

| Run | Module | Question |
|---|---|---|
| `LifecycleSafety.cfg` | MCRobotLifecycle | types; the retry is never lost; one connection; an outage leaves nothing active; terminal states are final once quiet |
| `LifecycleRestore.cfg` | MCRobotLifecycle | READY after a reconnect means everything is restored; an outage with slots and an e-stop to restore ends |
| `LifecycleLiveness.cfg` | MCRobotLifecycle | connecting and reconnecting end, also when reconnects are doubled |
| `Rpc.cfg` | MCRpcCorrelation | correlation, settling, leaks; every request returns |
| `RateLimiter.cfg` | RateLimiter | the limit is kept and is not too strict |
| `Stream.cfg` | MCSubscriptionStream | the topic implements EventStream; nothing after CLOSED; every request is decided |
| `Registry.cfg` | MCSubscriptionRegistry | no closed slot stays registered; which slots can be lost or closed through another handle; when SDK and robot agree; `unsubscribe()` returns |
| `Heartbeat.cfg` | Heartbeat | a dead link is given up in time, a live one is not |
| `Estop.cfg` | MCEmergencyStop | in READY an engaged robot stands still; overlapping calls leave the right intent |

Three more runs show behaviours that contradict the documents; they are below.

`TerminalIsFinalOnceQuiet` says what remains of "terminal" in the code: nothing
leaves SHUTDOWN or FATAL once no connect, handshake, send loop, replay or abort
of before is left over. `RestoredBeforeReady` is an action property over two
counters, the slots and the tasks.

`NothingAfterClosed` and `Settles` speak of DISPATCHED mode, the default. In INLINE
mode a loss may come while a callback runs inside the drain of an answered slot;
`_handle_subscribe_ack` then still believes in the reconnect and announces READY
without a connection, and the sleeping reconnect finds READY and ends. `KeepsPromise`
holds in both modes.

**Bounds.** `Topics` has two elements where the counters of a reconnect are the
question (`LifecycleRestore`) and one elsewhere: slots
meet only in the counters. `MaxConn = 2`: a connection being closed and
its successor. `MaxTasks` of 3 or 4 allows two reconnects with an abort or
replay beside them; it enters as a guard (`FreeTasks`) of `Schedule`, so a step
that would need one more task is not taken. `MaxAttempts = 1` reaches the limit
after one retry and `Limited = FALSE` removes it. `MaxLosses = 2` bounds link
failures and dead heartbeats, because a flapping link piles up duplicate reconnect
tasks without end: one loss and a second one that overtakes the recovery from
it. Without doubled reconnects the state space is small enough for three. With
an e-stop to replay and doubled reconnects, the sleepers fill any `MaxTasks`, and
`Schedule` stops for want of a task; that is the bound and not the code, so
`ReconnectConcludes` is checked without the e-stop and `OutageEnds` with it. `Env`
selects what else may happen, so that each run pays only for what its question
needs. For RpcCorrelation one call of each kind and two connections; for
RateLimiter ten ticks with three to a token, more than three refills.

SubscriptionStream has the default options, each option changed alone, and a
TELEMETRY topic in both callback modes. Queues of two show both drop policies, a
history of one frame with three produced reaches HISTORY_TOO_OLD and a resume with a
gap, and two connections the pause, the replay, a restart of the robot and frames
of the old connection still being read. Three handles in the registry, subscribed in a
fixed order, since they differ in nothing else (`InOrder`): one that holds the topic, one refused
or stale, and one that comes after; two calls of `unsubscribe()`, so that one may wait and one
be stale or repeated, beside the finalizers; and a loss.
The theorems cover its invariants for every number of each. Three calls in EmergencyStop let one be in doubt
while two others overlap; three connections, a replay that fails and one that
follows. In Heartbeat the interval and the timeout differ and neither divides
the other, and `max_missed_pings` goes from 0 (treated like 1 by the comparison)
to 3; `idle` needs no bound, for the promised bound is reached or the task is over.

Deadlock is not checked in the runs with bounded losses, connections or calls: after
`SHUTDOWN` or `FATAL`, or when every call was made, nothing need happen. In Heartbeat
the system stops once the task has ended.

**Fairness.** `RobotLifecycle!Fairness` is weak fairness of one action, "the loop
runs": as long as any task is ready, any timer is due, a close handshake is on
(`close_timeout`) or a reader has something to notice, the loop does one of
these. It does not choose which, so ready tasks may be delayed by others as long as others
exist. Servers need not answer (timers do), links need not fail, users need
not act. `connect_timeout` justifies that a connect ends. In RpcCorrelation
each call has weak fairness for its own timer, its own resumption and the end
of its `ws.send` (which ends when the buffer drains or the connection is
lost); answers are never promised. In SubscriptionStream tasks that can run do,
callbacks return, a reconnect is made while attempts remain, and the robot answers
on a connection that lasts; `Settles` needs all of them, for the ack timeout of a
silent robot leads to another loss, and losses are bounded. In SubscriptionRegistry
only timers, scheduled requests and resumptions are fair, and answers are not
promised. In Heartbeat the task is fair and time passes.

## Where the code and its documents disagree

Each of these is a run in which TLC finds the behaviour; `PROJECT.json` quotes the
document and the lines.

| Run | What happens |
|---|---|
| `CleanCloseUnnoticed` | a server that closes with 1000/1001 leaves the robot READY for ever |
| `HeartbeatLost` | no heartbeat after a reconnect that had something to restore |
| `UnsubscribeBlocksReconnect` | an unsubscribe during RECONNECTING leaves the counter too high, and the robot stays RECONNECTING |

Three more disagreements are stated in RobotLifecycle and have no run of their own;
TLC refutes each of them under `Spec` within a few steps:

- `ShutdownIsFinal`: `close()` while the first connect or handshake is in progress
  does not cancel the establish task, which later leaves SHUTDOWN (API.md:201 calls
  it terminal). `TerminalIsFinalOnceQuiet` is what holds instead: it speaks of a terminal
  state with no establish task left over, so no passing property covers this one.
- `ReadyIsConnected`: a loss between the handshake's answer and the task that waited
  for it leads to READY with `_ws = None` (API.md:198).
- `PendingIsSent`: a topic subscribed while a reconnect restores the others is
  never sent (API.md:105).

Two reconnect tasks for one loss can also exceed `reconnect_max_attempts`
(API.md:158), since each compares the limit with the attempt number it captured.

They are also why `OutageEnds` and `ReconnectConcludes` are checked without
`unsub`, and why the passing properties of LifecycleHistory speak of
histories that are not doubled. `crash` stays out of the progress runs for another
reason: `_build_ssl_context` runs outside the `try` of `WsClient.connect`, an
uncaught `OSError` there ends the reconnect task, and nothing watches that task. It
is part of the safety run.

## What is proved

Every theorem holds for all values of the constants that satisfy the assumptions the
modules name, which TLC evaluates in the runs:

| Module | Assumptions | What they leave open |
|---|---|---|
| RobotLifecycle | `BoundsAssumption`, `EnvAssumption` | any finite set of topics, any number of tasks, connections, losses and attempts, any environment |
| RpcCorrelation | `CallsAssumption`, `NoCallAssumption`, `ConnAssumption` | any finite set of calls of each kind, any number of connections |
| RateLimiter | `PeriodAssumption`, `BurstAssumption`, `MaxTimeAssumption` | any period and burst |
| SubscriptionStream | `ConfigsAssumption`, `SizesAssumption`, `BoundsAssumption` | any configuration, queue, history, number of frames and connections |
| SubscriptionRegistry | `NoneAssumption`, `CallsAssumption`, `LossesAssumption` | any handles, any number of calls and losses |
| Heartbeat | `TimesAssumption`, `LimitsAssumption`, `DelayAssumption` | any interval, timeout, limits and delay |
| EmergencyStop | `CallsAssumption`, `ReplayAssumption`, `ConnsAssumption` | any finite set of calls, any number of connections |

**RobotLifecycle_proof.** `TypeCorrect`: `TypeOK` is inductive; its first part
(`Core`) is what the composite operations change, its second (`Rest`) what only
actions do, and each composite operation has a lemma. `TerminalStaysFinal`: one
step from a quiet terminal state, by cases; no invariant is needed, for what is left
to run looks at the state itself.

`RetryNeverLost`: `ReconnectIsPending`. It is not
inductive. A heartbeat task inside `ws.close()` may be cancelled by the next
`_start_heartbeat`, and takes its retry with it; so some other retry must be
known then. `Pending` adds: no heartbeat runs in IDLE, in TRANSIENT_FAILURE or while a
reconnect is connecting or shaking hands, and if a TRANSIENT_FAILURE overtakes
such a reconnect, an abort or a closing that is not the heartbeat's is
under way. Both need that reconnects are not doubled, hence the history
variable; whether it is needed for the conclusion is not settled by the proof.

`ConnectionIsUnique` and `OutagePauses`: `OneConnection` and `DownMeansPaused`, from the
invariant `One`. Its heart is `NothingLeft`: `_ws` is None while a reconnect sleeps
(`Asleep`), so every closing under way is of a connection that has ended or is lost
(`OneLink`, `ClosingOwn`), and such a closing, the reader that must notice and the task
behind either are ready to run, so the loop comes to them before the timer. The
reconnect therefore dials with nothing left of the connection before (`Dialling`), and no
`self._ws = None` after an `await ws.close()` can hit its successor. The order of
ready tasks and timers (`NoReadyTask`) is essential here.

`RestoredWhenReady`: `RestoredBeforeReady`, from `One` and `Restoring`. `_reconnect_subs_pending` is
not the number of slots to restore but an upper bound: a slot that is dropped before its
answer arrives leaves the counter too high (READY is then not announced until the next
outage sets it anew: run `UnsubscribeBlocksReconnect`), but it is never too low. So `Counted` says that what
is still to be sent and what was sent and not answered together are at most the counter,
and that a PAUSED slot is still to be sent. Around it: one task restores at a time
(`Alone`), only a send loop has something to send (`Carried`), a replay to come keeps
`_reconnect_estop_pending` up (`Engaged`), and the initial task's flush is over before a
reconnect begins (`FirstTask`). The bound is on cardinalities of sets that the proof keeps
symbolic, hence for any number of topics.

**RpcCorrelation_proof.** The safety properties of the run, all from one
invariant: request ids are drawn in order and never reused, a pending future's
entry is in the table under its own id with its timer, and a timer has its
entry or the call has ended.

**RateLimiter_proof.** `RateNeverExceeded` and `NeverStarved`, from the relation
between the tokens, the clock and the history of grants. `NeverStarved` holds
for any burst.

**SubscriptionRegistry_proof.** `RegisteredStaysOpen` holds for every application:
every place that closes a slot also takes it out of `_subs`, if it is there
(`RegisteredInv` adds that a slot exists once its handle does, and that every call waits
for a slot that exists). `OpenStaysRegistered` and
`HandlesClosedByOwner` hold for every application too, of the slots the history leaves out:
`HandlesInv` adds to the two properties `OwnTarget`, that while a call is under way `_subs` has the slot it
waits for, or nothing, or one that the history has recorded, and that what a call is about belongs to a
handle that was given up or is exposed.
`RobotIsOfOneMind` states `RobotAgrees`, from `crossed \/ WireInv`: a connection was crossed, or `WireInv` holds, an invariant
over the commands and answers under way: on one connection the robot is asked and answers at most once per
subscription (`Once`), it is free whenever a subscribe reaches it (`Alternate`), and in
READY the last command or answer about a topic concerns the registered slot (`Known`) or the
robot serves nobody or is about to be told so (`Gone`). During RECONNECTING at most one command or
answer is under way (`InReconnect`), in an outage none (`InOutage`). All of it follows
from the order in which one WebSocket delivers, which is why the two queues are sequences,
and a loss empties both.

**EventStream_proof.** What the promise is worth: `NothingLostInSilence` (no more is lost
than told), `AlwaysOrdered` (the frames that wait are in order, later than what was handed over and
not past the position) and from it `NeverHandedTwice`, for queues of any length and
any number of fresh starts.

**SubscriptionStream_proof.** `Implements`: the code keeps that promise. Each action
is a step of EventStream or a stutter; which one, depends on what the reader, the
slot and the answer say (an answer is a `Resume` or a `Restart`, a refusal a `Forget`
or nothing, a frame that is delivered `Accept`, `AcceptUnnumbered` or nothing). Besides
the types (`TypeCorrect`) this needs `StreamInv`: each callback mode leaves the other's
queue or reader alone; a frame on its way to an INLINE callback belongs to a slot that is
ACTIVE or being drained; and while a request is under way the reader is idle and the
number asked for is still the position plus one, so that a gap count is what the position
moves by. `ClosedIsSilent` follows from the first part. `EveryLossIsTold` and
`CallbacksInOrder` instantiate the theorems of EventStream_proof and so say, for the code's own
variables, that no frame is lost in silence and none is handed over twice or late.

**Heartbeat_proof.** The three bounds of the run, from `TimingInv`: while a wait is on, time
since the last message and what is left of the wait add up to the interval and the
timeouts counted so far, from above (`AtMost`) for `NoticedInTime` and from below
(`AtLeast`) for `SilentWhenGivenUp`; `Counted` keeps the count below its limit, `Ended` says
what a given-up connection has seen, and `AnswerFirst` that a prompt robot's answer is due
before the timer, for `PromptIsKept`. The product of a count and the timeout is
hidden behind `Pings`, of which two lemmas say all that is used.

**EmergencyStop_proof.** `IntentOfTheLast` and `StoppedWhenReady`. The invariant follows a call
from the command it wrote to its return: what was executed, what was
answered and what will run next list the same calls in the same order
(`Order`), each at most once (`RunsOnce`, `SentOnce`), without a connection nothing is
under way (`Down`), the intent is that of the last call that returned (`LastIntent`), and
the latch is that of the last command executed (`LatchInv`), from which
`StoppedInReady` follows once the replay is counted in.

**Only model-checked:** the liveness properties (`ReconnectConcludes`,
`OutageEnds`, `CallReturns`, `Settles`, `UnsubscribeReturns`, `DeadIsNoticed`), which
are beyond the prover. Every invariant and every action property of a passing run is
also a theorem.

## What is not modelled, and the plan

Done: RobotLifecycle with LifecycleHistory, RpcCorrelation, RateLimiter,
EventStream with SubscriptionStream, SubscriptionRegistry with RegistryHistory, Heartbeat and
EmergencyStop, and proofs about each of them, the refinement included. Next, in
this order:

1. **HzWindow**: the sliding window of `_slide_hz_buckets` against a count of
   the last 60 seconds, also when the wall clock jumps back.
2. **Composition** of the life cycle with RpcCorrelation, the latter's
   environment implemented by the former; INLINE callbacks that await operations.
3. **StateWaiters**: `wait_until_ready` and its shared `asyncio.Event`.

Not modelled and not planned: the protobuf codec beyond the fields that decide about
a subscribe answer or a frame, and the generated code (stateless
transformations of messages that the models take as decoded), message classes,
the facade and options, the tables of error codes beyond their classes, log posting,
histograms, TLS set-up beyond its outcomes, and the examples.
Floating-point rounding in the limiter and the distribution of the back-off's
jitter are outside TLA+'s reach.

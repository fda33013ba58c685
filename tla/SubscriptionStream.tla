-------------------------- MODULE SubscriptionStream --------------------------
(***************************************************************************)
(* One topic of karo_x2_sdk/_internal/robot_impl.py from the robot to the  *)
(* application's callback: the subscribe request and its answer, the       *)
(* pending buffer, gap detection, the dispatch queue and its worker, the   *)
(* pause at a loss and the resumption after a reconnect.                   *)
(*                                                                         *)
(* One event loop runs everything.  In DISPATCHED mode the handling of an  *)
(* inbound message never suspends; in INLINE mode it suspends inside the   *)
(* application's callback, and other tasks run meanwhile.  Draining the    *)
(* pending buffer is a step per frame here: no other task moves while the  *)
(* reader is not inside a callback (Quiet).                                *)
(*                                                                         *)
(* The robot (robot, chan) is external, modelled from what the code does   *)
(* with its messages: it numbers frames from 1, keeps a bounded history,   *)
(* may skip a number or send one twice, push before it answers, refuse to    *)
(* resume, and restart its count after a reboot.                           *)
(***************************************************************************)
EXTENDS Integers, Sequences

CONSTANTS
    Configs,     \* SdkOptions and topics to consider: records with the fields
                 \* event, numbered, inline, newest, replay
    QueueSize,   \* SubSlot.queue_size
    History,     \* frames the robot can send again
    MaxSeq,      \* bound: frames the robot produces
    MaxConns,    \* bound: connections in one behaviour
    ChanSize     \* bound: messages under way

ASSUME ConfigsAssumption ==
    Configs \subseteq [event : BOOLEAN, numbered : BOOLEAN, inline : BOOLEAN,
                       newest : BOOLEAN, replay : BOOLEAN]
ASSUME SizesAssumption == QueueSize \in Nat \ {0} /\ History \in Nat /\ ChanSize \in Nat \ {0}
ASSUME BoundsAssumption == MaxSeq \in Nat /\ MaxConns \in Nat \ {0}

VARIABLES
    conf,       \* the member of Configs this behaviour is about
    state,      \* RobotImpl._state
    up,         \* whether there is a connection
    conns,      \* connections opened so far
    pendingSubs,\* _reconnect_subs_pending, for one slot
    slot,       \* the SubSlot
    reader,     \* the task that handles inbound messages
    worker,     \* slot.dispatch_worker: waiting in get(), in the callback, gone
    robot,      \* the robot's side of the topic
    chan,       \* messages from the robot, oldest first
    epoch,      \* STARTED, and RESUMED without a gap count, fired so far
    handed,     \* the last numbered frame given to the callback
    lost,       \* numbers last_seq passed over without a frame being kept
    gaps        \* sum of the gap counts in GAP and RESUMED

vars == <<conf, state, up, conns, pendingSubs, slot, reader, worker, robot, chan,
          epoch, handed, lost, gaps>>
history == <<epoch, handed, lost, gaps>>
link == <<state, up, conns, pendingSubs>>

NoRequest == -1
Results == {"ok", "too_old", "rejected", "transient", "fatal"}
Frames == [epoch : Nat, seq : Nat]
Pushes == [kind : {"push"}, seq : Nat]
Acks == [kind : {"ack"}, result : Results, next : Nat]
NoFrame == [epoch |-> 0, seq |-> 0]
NoAck == [kind |-> "none"]

TypeOK ==
    /\ conf \in Configs
    /\ state \in {"READY", "RECONNECTING", "TRANSIENT_FAILURE", "FATAL"}
    /\ up \in BOOLEAN /\ conns \in 0..MaxConns /\ pendingSubs \in 0..1
    /\ slot \in [state : {"PENDING", "ACTIVE", "PAUSED", "CLOSED"}, lastSeq : Nat,
                 dropCount : Nat, pendingBuffer : Seq(Nat), queue : Seq(Frames),
                 inflight : BOOLEAN, freshRetryDone : BOOLEAN, expected : Nat,
                 everActive : BOOLEAN, isResume : BOOLEAN]
    /\ Len(slot.pendingBuffer) <= QueueSize /\ Len(slot.queue) <= QueueSize
    /\ reader \in [pc : {"free", "hand", "callback"}, frame : Frames,
                   draining : BOOLEAN, next : Nat, reconnect : BOOLEAN]
    /\ worker \in {"waiting", "callback", "gone"}
    /\ robot \in [head : 0..MaxSeq, on : BOOLEAN, cursor : Nat,
                  request : Nat \cup {NoRequest}, answer : Acks \cup {NoAck}]
    /\ chan \in Seq(Pushes \cup Acks)
    /\ epoch \in Nat /\ handed \in Frames
    /\ lost \in Nat /\ gaps \in Nat

\* Nothing else moves while the reader handles a message outside a callback.
Quiet == reader.pc = "callback" \/ (reader.pc = "free" /\ ~reader.draining)
Idle == [pc |-> "free", frame |-> NoFrame, draining |-> FALSE, next |-> 0, reconnect |-> FALSE]

-----------------------------------------------------------------------------
(* Requests                                                                *)

\* _send_subscribe up to the write: the slot, and what the robot is asked.
Since(s) == IF conf.event /\ conf.replay /\ s.lastSeq > 0 THEN s.lastSeq + 1 ELSE 0
Asked(s, since, reconnecting) ==
    [s EXCEPT !.expected = since,
              !.isResume = s.state = "PAUSED" \/ (s.everActive /\ reconnecting),
              !.state = "PENDING", !.inflight = TRUE]

NewSlot ==
    [state |-> "PENDING", lastSeq |-> 0, dropCount |-> 0, pendingBuffer |-> <<>>,
     queue |-> <<>>, inflight |-> FALSE, freshRetryDone |-> FALSE, expected |-> 0,
     everActive |-> FALSE, isResume |-> FALSE]

\* subscribe_* was called: in READY it sends, in an outage it waits.
Init ==
    /\ conf \in Configs
    /\ state \in {"READY", "TRANSIENT_FAILURE"}
    /\ up = (state = "READY") /\ conns = (IF up THEN 1 ELSE 0) /\ pendingSubs = 0
    /\ slot = IF up THEN Asked(NewSlot, 0, FALSE) ELSE NewSlot
    /\ reader = Idle
    /\ worker = IF conf.inline THEN "gone" ELSE "waiting"
    /\ robot = [head |-> 0, on |-> FALSE, cursor |-> 1, 
              request |-> IF up THEN 0 ELSE NoRequest, answer |-> NoAck]
    /\ chan = <<>>
    /\ epoch = 0 /\ handed = NoFrame /\ lost = 0 /\ gaps = 0

-----------------------------------------------------------------------------
(* Frames                                                                  *)

\* Defect: the buffer has no limit.
BufferedWithoutLimit(s, n) == [s EXCEPT !.pendingBuffer = Append(@, n)]

\* _handle_sdk_topic_push for a PENDING slot.
Buffered(s, n) ==
    IF Len(s.pendingBuffer) < QueueSize
    THEN [s EXCEPT !.pendingBuffer = Append(@, n)]
    ELSE IF conf.newest
    THEN [s EXCEPT !.dropCount = @ + 1]
    ELSE [s EXCEPT !.pendingBuffer = Append(Tail(@), n), !.dropCount = @ + 1]

\* The sequence check of _deliver_push_to_sub.
Numbered(n) == conf.event /\ n # 0
\* Defect: only a number below the last one counts as repeated.
OnlyOlderRepeated(s, n) == Numbered(n) /\ s.lastSeq # 0 /\ n < s.lastSeq
Repeated(s, n) == Numbered(n) /\ s.lastSeq # 0 /\ n <= s.lastSeq
Gap(s, n) == IF Numbered(n) /\ s.lastSeq # 0 THEN n - s.lastSeq - 1 ELSE 0

\* Where a frame that passed the check goes: to the callback at once (INLINE),
\* or into the dispatch queue, dropping one frame when it is full.
Place(s, n, then) ==
    LET f == [epoch |-> epoch, seq |-> IF conf.event THEN n ELSE 0]
        m == [s EXCEPT !.lastSeq = IF Numbered(n) THEN n ELSE @]
    IN  \/ /\ conf.inline
           /\ slot' = m /\ lost' = lost + Gap(s, n)
           /\ reader' = [then EXCEPT !.pc = "hand", !.frame = f]
        \/ /\ ~conf.inline /\ Len(s.queue) < QueueSize
           /\ slot' = [m EXCEPT !.queue = Append(@, f)]
           /\ reader' = then /\ lost' = lost + Gap(s, n)
        \/ /\ ~conf.inline /\ Len(s.queue) = QueueSize
           /\ slot' = [m EXCEPT !.dropCount = @ + 1,
                                !.queue = IF conf.newest THEN @ ELSE Append(Tail(@), f)]
           /\ reader' = then /\ lost' = lost + Gap(s, n) + 1

\* _deliver_push_to_sub; `then' is what the reader does when it returns.
Deliver(s, n, then) ==
    \/ /\ Repeated(s, n)
       /\ slot' = s /\ reader' = then
       /\ UNCHANGED <<lost, gaps>>
    \/ /\ ~Repeated(s, n)
       /\ Place(s, n, then)
       /\ gaps' = gaps + Gap(s, n)

\* The reader takes the next message, a frame.
ReadPush ==
    /\ reader = Idle /\ chan # <<>> /\ Head(chan).kind = "push"
    /\ chan' = Tail(chan)
    /\ LET n == Head(chan).seq IN
       \/ /\ slot.state = "CLOSED"
          /\ UNCHANGED <<slot, reader, lost, gaps>>
       \/ /\ slot.state = "PENDING"
          /\ slot' = Buffered(slot, n)
          /\ UNCHANGED <<reader, lost, gaps>>
       \/ /\ slot.state = "PAUSED"
          /\ slot' = [slot EXCEPT !.dropCount = @ + 1]
          /\ UNCHANGED <<reader, lost, gaps>>
       \/ /\ slot.state = "ACTIVE"
          /\ Deliver(slot, n, Idle)
    /\ UNCHANGED <<conf, link, worker, robot, epoch, handed>>

\* INLINE: the callback is called, and may await something.
CallInline ==
    /\ reader.pc = "hand"
    /\ reader' = [reader EXCEPT !.pc = "callback", !.frame = NoFrame]
    /\ handed' = IF reader.frame.seq = 0 THEN handed ELSE reader.frame
    /\ UNCHANGED <<conf, link, slot, worker, robot, chan, epoch, lost, gaps>>

InlineReturns ==
    /\ reader.pc = "callback"
    /\ reader' = [reader EXCEPT !.pc = "free"]
    /\ UNCHANGED <<conf, link, slot, worker, robot, chan, history>>

\* Defect: the worker does not look at the slot's state.
NeverSeesClosed == FALSE

\* The two tests of _sub_dispatch_worker, before and after get().
SeesClosed == slot.state = "CLOSED"

\* _sub_dispatch_worker: get() returns a frame, and the callback is called.
WorkerTakes ==
    /\ Quiet /\ worker = "waiting" /\ slot.queue # <<>> /\ ~SeesClosed
    /\ worker' = "callback"
    /\ slot' = [slot EXCEPT !.queue = Tail(@)]
    /\ handed' = IF Head(slot.queue).seq = 0 THEN handed ELSE Head(slot.queue)
    /\ UNCHANGED <<conf, link, reader, robot, chan, epoch, lost, gaps>>

\* The callback returned or raised.
WorkerReturns ==
    /\ Quiet /\ worker = "callback"
    /\ worker' = IF SeesClosed THEN "gone" ELSE "waiting"
    /\ UNCHANGED <<conf, link, slot, reader, robot, chan, history>>

-----------------------------------------------------------------------------
(* Answers to subscribe requests                                           *)

\* Defect: the last answer is taken for one of several.
FinishReconnectEarly(reconnect) ==
    IF reconnect /\ pendingSubs > 0
    THEN pendingSubs' = pendingSubs - 1 /\ UNCHANGED state
    ELSE UNCHANGED <<pendingSubs, state>>

\* _maybe_finish_reconnect; the state was read when the answer was taken in.
FinishReconnect(reconnect) ==
    IF reconnect /\ pendingSubs = 1
    THEN pendingSubs' = 0 /\ state' = "READY"
    ELSE UNCHANGED <<pendingSubs, state>>

\* The slot is closed by another task than its worker, which is cancelled.
CloseSlot(s) == slot' = [s EXCEPT !.state = "CLOSED"] /\ worker' = "gone"

\* _on_transport_close: the slot is paused, and what it buffered forgotten.
Paused(s) ==
    IF s.state = "CLOSED" THEN s
    ELSE [s EXCEPT !.state = "PAUSED", !.pendingBuffer = <<>>, !.inflight = FALSE]

\* The robot loses the connection, perhaps because it restarted.
RobotLoses ==
    \E gone \in {[robot EXCEPT !.on = FALSE, !.request = NoRequest, !.answer = NoAck]} :
        robot' \in {gone, [gone EXCEPT !.head = 0, !.cursor = 1]}

TransportClose(s) ==
    /\ conns < MaxConns
    /\ state' = "TRANSIENT_FAILURE" /\ up' = FALSE
    /\ slot' = Paused(s)
    /\ RobotLoses
    /\ UNCHANGED <<conns, pendingSubs, worker>>

\* The robot accepted: last_seq, and whether the new position compares with
\* the old one, follow from K = next_seq and the number that was asked for.
Accepted(s, K) ==
    LET fresh == IF K >= 1 THEN K - 1 ELSE 0
        jump == IF conf.event /\ s.expected # 0 /\ K > s.expected THEN K - s.expected ELSE 0
        same == conf.event /\ s.expected # 0 /\ K >= s.expected
    IN  /\ slot' = [s EXCEPT !.state = "ACTIVE",
                             !.lastSeq = CASE ~conf.event -> 0
                                           [] same /\ jump = 0 -> @
                                           [] OTHER -> fresh]
        /\ epoch' = IF same THEN epoch ELSE epoch + 1
        /\ gaps' = gaps + jump /\ lost' = lost + jump
        /\ reader' = [Idle EXCEPT !.draining = TRUE, !.next = IF conf.event THEN K ELSE 0,
                                  !.reconnect = (state = "RECONNECTING")]
        /\ UNCHANGED <<link, worker, robot, handed>>

\* HISTORY_TOO_OLD or REPLAY_NOT_SUPPORTED: ask again without history, once.
\* Other refusals end the subscription.
Refused(s, result) ==
    \/ /\ result = "too_old" /\ conf.event /\ ~s.freshRetryDone
       /\ slot' = Asked([s EXCEPT !.lastSeq = 0, !.freshRetryDone = TRUE], 0,
                        state = "RECONNECTING")
       /\ robot' = [robot EXCEPT !.request = 0]
       /\ UNCHANGED <<link, worker>>
    \/ /\ result = "too_old" => ~conf.event \/ s.freshRetryDone
       /\ result \in {"too_old", "rejected"}
       /\ CloseSlot(s)
       /\ FinishReconnect(state = "RECONNECTING")
       /\ UNCHANGED <<up, conns, robot>>
    \/ /\ result = "transient" /\ state # "RECONNECTING"
       /\ CloseSlot(s)
       /\ UNCHANGED <<link, robot>>
    \/ /\ result = "transient" /\ state = "RECONNECTING"
       /\ TransportClose(s)
    \/ /\ result = "fatal"
       /\ CloseSlot(s)
       /\ state' = "FATAL" /\ up' = FALSE
       /\ RobotLoses
       /\ UNCHANGED <<conns, pendingSubs>>

\* The reader takes the next message, an answer: _handle_subscribe_ack.
ReadAck ==
    /\ reader = Idle /\ chan # <<>> /\ Head(chan).kind = "ack"
    /\ chan' = Tail(chan)
    /\ LET a == Head(chan)
           s == [slot EXCEPT !.inflight = FALSE]
       IN  \/ /\ ~slot.inflight \/ slot.state = "CLOSED"
              /\ UNCHANGED <<link, slot, reader, worker, robot, history>>
           \/ /\ slot.inflight /\ slot.state # "CLOSED"
              /\ \/ a.result = "ok" /\ Accepted(s, a.next)
                 \/ Refused(s, a.result) /\ UNCHANGED <<reader, history>>
    /\ UNCHANGED conf

\* _drain_pending_buffer: one buffered frame.
Drain ==
    /\ reader.draining /\ reader.pc = "free" /\ slot.pendingBuffer # <<>>
    /\ LET n == Head(slot.pendingBuffer)
           s == [slot EXCEPT !.pendingBuffer = Tail(@)]
       IN  IF Numbered(n) /\ reader.next > 0 /\ n < reader.next
           THEN /\ slot' = [s EXCEPT !.dropCount = @ + 1]
                /\ UNCHANGED <<reader, lost, gaps>>
           ELSE Deliver(s, n, reader)
    /\ UNCHANGED <<conf, link, worker, robot, chan, epoch, handed>>

\* The rest of _handle_subscribe_ack, after the buffer was drained.
Drained ==
    /\ reader.draining /\ reader.pc = "free" /\ slot.pendingBuffer = <<>>
    /\ slot' = [slot EXCEPT !.everActive = TRUE, !.isResume = FALSE]
    /\ reader' = Idle
    /\ FinishReconnect(reader.reconnect)
    /\ UNCHANGED <<conf, up, conns, worker, robot, chan, history>>

-----------------------------------------------------------------------------
(* The connection and the application                                      *)

\* The connection is lost, or an answer took longer than subscribe_ack_timeout.
\* Messages already received are still handled by the reader until it ends.
Loss ==
    /\ Quiet /\ up
    /\ TransportClose(slot)
    /\ \E n \in 0..Len(chan) : chan' = SubSeq(chan, 1, n)
    /\ UNCHANGED <<conf, reader, history>>

\* _do_reconnect and _establish, up to the end of
\* _resubscribe_all_after_reconnect: the old reader has ended, in its callback
\* or not, and every slot is asked for again.
Reconnect ==
    /\ Quiet /\ ~up /\ state = "TRANSIENT_FAILURE" /\ conns < MaxConns
    /\ up' = TRUE /\ conns' = conns + 1
    /\ chan' = <<>> /\ reader' = Idle
    /\ \/ /\ slot.state = "CLOSED"
          /\ state' = "READY" /\ pendingSubs' = 0
          /\ UNCHANGED <<slot, robot>>
       \/ /\ slot.state # "CLOSED"
          /\ state' = "RECONNECTING" /\ pendingSubs' = 1
          /\ slot' = Asked([slot EXCEPT !.freshRetryDone = FALSE], Since(slot), TRUE)
          /\ robot' = [robot EXCEPT !.request = Since(slot)]
    /\ UNCHANGED <<conf, worker, history>>

\* The end of unsubscribe_request, called by another task or by the worker's
\* own callback: without a connection at once, in READY when the robot
\* answered or the time was up.
Unsubscribe(own) ==
    /\ Quiet /\ slot.state # "CLOSED"
    /\ own => worker = "callback"
    /\ slot' = [slot EXCEPT !.state = "CLOSED"]
    /\ worker' = IF own THEN worker ELSE "gone"
    /\ robot' \in {robot, [robot EXCEPT !.on = FALSE]}
    /\ UNCHANGED <<conf, link, reader, chan, history>>

-----------------------------------------------------------------------------
(* The robot (external)                                                    *)

Oldest == IF robot.head > History THEN robot.head - History + 1 ELSE 1

Produce ==
    /\ Quiet /\ robot.head < MaxSeq
    /\ robot' = [robot EXCEPT !.head = @ + 1]
    /\ UNCHANGED <<conf, link, slot, reader, worker, chan, history>>

\* It takes a request and says that it continues with next; what it sends may
\* overlap with what came before by one frame.
Continues(next) ==
    \E overlap \in 0..1 :
        robot' = [robot EXCEPT !.request = NoRequest, !.on = TRUE,
                     !.cursor = IF next > overlap THEN next - overlap ELSE next,
                     !.answer = [kind |-> "ack", result |-> "ok",
                                 next |-> IF conf.numbered THEN next ELSE 0]]
Refuse(result) ==
    [robot EXCEPT !.request = NoRequest,
                  !.answer = [kind |-> "ack", result |-> result, next |-> 0]]

Serve ==
    /\ Quiet /\ up /\ robot.request # NoRequest /\ robot.answer = NoAck
    /\ \/ robot.request \in Oldest..(robot.head + 1) /\ Continues(robot.request)
       \/ robot.request \in 1..(Oldest - 1) /\ Continues(Oldest)
       \/ robot.request \notin 1..(robot.head + 1) /\ Continues(robot.head + 1)
       \/ \E result \in Results \ {"ok"} :
             (result = "transient" => conns < MaxConns) /\ robot' = Refuse(result)
    /\ UNCHANGED <<conf, link, slot, reader, worker, chan, history>>

Answer ==
    /\ Quiet /\ up /\ robot.answer # NoAck /\ Len(chan) < ChanSize
    /\ chan' = Append(chan, robot.answer)
    /\ robot' = [robot EXCEPT !.answer = NoAck]
    /\ UNCHANGED <<conf, link, slot, reader, worker, history>>

Send(n) == chan' = Append(chan, [kind |-> "push", seq |-> IF conf.numbered THEN n ELSE 0])

Push ==
    /\ Quiet /\ up /\ robot.on /\ robot.cursor <= robot.head /\ Len(chan) < ChanSize
    /\ Send(robot.cursor)
    /\ robot' = [robot EXCEPT !.cursor = @ + 1]
    /\ UNCHANGED <<conf, link, slot, reader, worker, history>>

Skip ==
    /\ Quiet /\ up /\ robot.on /\ robot.cursor <= robot.head
    /\ robot' = [robot EXCEPT !.cursor = @ + 1]
    /\ UNCHANGED <<conf, link, slot, reader, worker, chan, history>>

Next ==
    \/ ReadPush \/ ReadAck \/ Drain \/ Drained \/ CallInline \/ InlineReturns
    \/ WorkerTakes \/ WorkerReturns
    \/ Loss \/ Reconnect
    \/ \E own \in BOOLEAN : Unsubscribe(own)
    \/ Produce \/ Serve \/ Answer \/ Push \/ Skip

Spec == Init /\ [][Next]_vars

\* The event loop runs every task that can run, callbacks return, a reconnect
\* is made while attempts remain, and the robot answers on a connection that
\* lasts.
FairSpec ==
    /\ Spec
    /\ WF_vars(ReadPush \/ ReadAck) /\ WF_vars(Drain \/ Drained)
    /\ WF_vars(CallInline) /\ WF_vars(InlineReturns)
    /\ WF_vars(WorkerTakes) /\ WF_vars(WorkerReturns)
    /\ WF_vars(Reconnect) /\ WF_vars(Serve) /\ WF_vars(Answer) /\ WF_vars(Push)

-----------------------------------------------------------------------------

\* What EventStream calls waiting: the dispatch queue, or in INLINE mode the
\* frame the reader is about to hand over.
Waiting == IF conf.inline
           THEN (IF reader.pc = "hand" THEN <<reader.frame>> ELSE <<>>)
           ELSE slot.queue

\* The buffer of an answered slot counts as received until it is drained.
Receiving == slot.state = "ACTIVE" \/ reader.draining \/ reader.pc = "hand"

Promise == INSTANCE EventStream WITH
    receiving <- Receiving, last <- slot.lastSeq, waiting <- Waiting,
    told <- slot.dropCount + gaps

\* The subscription keeps the promise of EventStream: order, no duplicates, and
\* an account of every lost frame, through losses, replays, refused resumes
\* and reboots, with either drop policy and either callback mode.
KeepsPromise == Promise!Spec

\* In DISPATCHED mode no frame reaches the callback once the slot is CLOSED,
\* though frames are still under way, queued or taken by the worker.
NothingAfterClosed ==
    [][~conf.inline /\ slot.state = "CLOSED" => handed' = handed]_vars

\* In DISPATCHED mode a subscription is not left hanging: it ends up CLOSED, or
\* ACTIVE in READY with nothing waiting for the callback.
Settles ==
    <>[](~conf.inline =>
            \/ slot.state = "CLOSED"
            \/ slot.state = "ACTIVE" /\ state = "READY" /\ slot.queue = <<>> /\ worker # "gone")
=============================================================================

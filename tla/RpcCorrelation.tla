--------------------------- MODULE RpcCorrelation ---------------------------
(***************************************************************************)
(* Request/response correlation of karo_x2_sdk/_internal/robot_impl.py:    *)
(* request identifiers (_next_rid), the _inflight table, the asyncio       *)
(* futures and timers of _send_rpc_and_wait and of the heartbeat's         *)
(* _send_and_wait_ping, the demultiplexer _handle_sdk_response, and the    *)
(* three places that flush the table (_on_transport_close, close and       *)
(* _abort_to_fatal).                                                       *)
(*                                                                         *)
(* One event loop runs everything, so a step is the code between two       *)
(* points where a task really suspends.  A call suspends in WsClient.send  *)
(* (write back-pressure) and on its future; resolving a future only makes  *)
(* the task runnable, and any other task may run before it (Resume).       *)
(*                                                                         *)
(* The connection life cycle appears only as far as a call can see it; it  *)
(* is the subject of RobotLifecycle.                                       *)
(***************************************************************************)
EXTENDS Integers

CONSTANTS
    Calls,      \* invocations of an operation, each made at most once
    Internal,   \* those made by the SDK: handshake, e-stop replay (no READY test)
    Pings,      \* those made by the heartbeat loop
    NoCall,     \* no answer yet
    MaxConn     \* bound: number of connections in one behaviour

ASSUME CallsAssumption == Internal \subseteq Calls /\ Pings \subseteq Calls /\ Internal \cap Pings = {}
ASSUME NoCallAssumption == NoCall \notin Calls
ASSUME ConnAssumption == MaxConn \in Nat \ {0}

UserCalls == Calls \ (Internal \cup Pings)

VARIABLES
    state,      \* RobotImpl._state, as far as calls see it
    conn,       \* the connection RobotImpl._ws refers to, 0 for None
    conns,      \* connections opened so far
    readers,    \* connections whose _read_loop task is running
    closing,    \* what the task suspended in ws.close() does next
    nextRid,    \* _next_request_id
    inflight,   \* _inflight: a function from request ids to calls
    timers,     \* request ids whose timeout_handle is armed
    pc,         \* where each call is
    rid,        \* the request id each call drew, 0 before
    sentOn,     \* the connection each call was written to, 0 before
    fut,        \* the state of each call's future
    answer      \* the call whose answer resolved the future

vars == <<state, conn, conns, readers, closing, nextRid, inflight, timers,
          pc, rid, sentOn, fut, answer>>
link == <<state, conn, conns, readers, closing>>
table == <<nextRid, inflight, timers>>

States   == {"READY", "TRANSIENT_FAILURE", "RECONNECTING", "SHUTDOWN", "FATAL"}
Closings == {"no", "retry", "shutdown", "fatal"}
Steps    == {"idle", "sending", "waiting", "done"}
Futures  == {"none", "pending", "result", "error", "timeout", "cancelled"}

TypeOK ==
    /\ state \in States
    /\ conn \in 0..MaxConn /\ conns \in 0..MaxConn
    /\ readers \subseteq 1..MaxConn
    /\ closing \in Closings
    /\ nextRid \in Nat \ {0}
    /\ DOMAIN inflight \subseteq Nat
    /\ \A r \in DOMAIN inflight : inflight[r] \in Calls
    /\ timers \subseteq Nat
    /\ pc \in [Calls -> Steps]
    /\ rid \in [Calls -> Nat]
    /\ sentOn \in [Calls -> 0..MaxConn]
    /\ fut \in [Calls -> Futures]
    /\ answer \in [Calls -> Calls \cup {NoCall}]

Init ==
    /\ state = "READY" /\ conn = 1 /\ conns = 1 /\ readers = {1} /\ closing = "no"
    /\ nextRid = 1 /\ inflight = [r \in {} |-> NoCall] /\ timers = {}
    /\ pc = [c \in Calls |-> "idle"]
    /\ rid = [c \in Calls |-> 0]
    /\ sentOn = [c \in Calls |-> 0]
    /\ fut = [c \in Calls |-> "none"]
    /\ answer = [c \in Calls |-> NoCall]

-----------------------------------------------------------------------------
(* Helpers on the table and on futures                                     *)

Put(r, c) == [x \in DOMAIN inflight \cup {r} |-> IF x = r THEN c ELSE inflight[x]]
Pop(r)    == [x \in DOMAIN inflight \ {r} |-> inflight[x]]

\* Defect: no `future.done()` test.
ResolveUnguarded(c, v) == [fut EXCEPT ![c] = v]

\* `if not entry.future.done(): entry.future.set_...(...)`
Resolve(c, v) == IF fut[c] = "pending" THEN [fut EXCEPT ![c] = v] ELSE fut

\* Defect: the flush clears the table and forgets the futures.
FlushedFuturesForgotten == fut

\* The loop over _inflight.items() that ends in _inflight.clear(): cancel the
\* timers, fail every future that is not done, forget the entries.
FlushedFutures ==
    [c \in Calls |->
        IF fut[c] = "pending" /\ (\E r \in DOMAIN inflight : inflight[r] = c)
        THEN "error" ELSE fut[c]]

FlushTable ==
    /\ fut' = FlushedFutures
    /\ inflight' = [r \in {} |-> NoCall]
    /\ timers' = {}

\* The heartbeat task is cancelled by whoever flushes; it is not resumed.
HeartbeatCancelled ==
    pc' = [c \in Calls |-> IF c \in Pings /\ pc[c] \in {"sending", "waiting"}
                           THEN "done" ELSE pc[c]]

-----------------------------------------------------------------------------
(* Calls                                                                   *)

\* A public operation in any state but READY returns DISCONNECTED at once.
Reject(c) ==
    /\ c \in UserCalls /\ pc[c] = "idle" /\ state # "READY"
    /\ pc' = [pc EXCEPT ![c] = "done"]
    /\ UNCHANGED <<link, table, rid, sentOn, fut, answer>>

\* _send_rpc_and_wait with _ws None: TRANSPORT_FAILURE, nothing registered.
\* The request id has been drawn by the caller.
NotOpen(c) ==
    /\ c \in Calls \ Pings /\ pc[c] = "idle" /\ conn = 0
    /\ c \in Internal \/ state = "READY"
    /\ nextRid' = nextRid + 1
    /\ rid' = [rid EXCEPT ![c] = nextRid]
    /\ pc' = [pc EXCEPT ![c] = "done"]
    /\ UNCHANGED <<link, inflight, timers, sentOn, fut, answer>>

\* Defect: the counter is read and not advanced.
BeginSameRid(c) ==
    /\ c \in Calls \ Pings /\ pc[c] = "idle" /\ conn # 0
    /\ c \in Internal \/ state = "READY"
    /\ rid' = [rid EXCEPT ![c] = nextRid]
    /\ inflight' = Put(nextRid, c)
    /\ timers' = timers \cup {nextRid}
    /\ fut' = [fut EXCEPT ![c] = "pending"]
    /\ sentOn' = [sentOn EXCEPT ![c] = conn]
    /\ pc' = [pc EXCEPT ![c] = "sending"]
    /\ UNCHANGED <<link, nextRid, answer>>

\* Defect: the operation does not test for READY.
BeginAnyState(c) ==
    /\ c \in Calls \ Pings /\ pc[c] = "idle" /\ conn # 0
    /\ nextRid' = nextRid + 1
    /\ rid' = [rid EXCEPT ![c] = nextRid]
    /\ inflight' = Put(nextRid, c)
    /\ timers' = timers \cup {nextRid}
    /\ fut' = [fut EXCEPT ![c] = "pending"]
    /\ sentOn' = [sentOn EXCEPT ![c] = conn]
    /\ pc' = [pc EXCEPT ![c] = "sending"]
    /\ UNCHANGED <<link, answer>>

\* Draw a request id, arm the timer, register the entry, start sending.
Begin(c) ==
    /\ c \in Calls \ Pings /\ pc[c] = "idle" /\ conn # 0
    /\ c \in Internal \/ state = "READY"
    /\ nextRid' = nextRid + 1
    /\ rid' = [rid EXCEPT ![c] = nextRid]
    /\ inflight' = Put(nextRid, c)
    /\ timers' = timers \cup {nextRid}
    /\ fut' = [fut EXCEPT ![c] = "pending"]
    /\ sentOn' = [sentOn EXCEPT ![c] = conn]
    /\ pc' = [pc EXCEPT ![c] = "sending"]
    /\ UNCHANGED <<link, answer>>

\* ws.send() returned True: wait on the future.
Sent(c) ==
    /\ pc[c] = "sending"
    /\ pc' = [pc EXCEPT ![c] = "waiting"]
    /\ UNCHANGED <<link, table, rid, sentOn, fut, answer>>

\* ws.send() returned False: drop the entry and the timer, raise.
SendFails(c) ==
    /\ c \notin Pings /\ pc[c] = "sending"
    /\ inflight' = Pop(rid[c])
    /\ timers' = timers \ {rid[c]}
    /\ pc' = [pc EXCEPT ![c] = "done"]
    /\ UNCHANGED <<link, nextRid, rid, sentOn, fut, answer>>

\* Defect: the timer callback drops the entry and forgets the future.
OnTimeoutSilent(r) ==
    /\ r \in timers
    /\ timers' = timers \ {r}
    /\ inflight' = Pop(r)
    /\ UNCHANGED <<link, nextRid, pc, rid, sentOn, fut, answer>>

\* The timer of request r fires: pop the entry, fail its future.
OnTimeout(r) ==
    /\ r \in timers
    /\ timers' = timers \ {r}
    /\ inflight' = Pop(r)
    /\ fut' = IF r \in DOMAIN inflight THEN Resolve(inflight[r], "timeout") ELSE fut
    /\ UNCHANGED <<link, nextRid, pc, rid, sentOn, answer>>

\* A reader receives an answer to call c.  The robot may answer late, twice,
\* in another order or never; an answer carries the request id of c.
HandleResponse(c) ==
    /\ sentOn[c] \in readers
    /\ IF rid[c] \in DOMAIN inflight
       THEN LET owner == inflight[rid[c]] IN
            /\ fut' = Resolve(owner, "result")
            /\ answer' = IF fut[owner] = "pending" THEN [answer EXCEPT ![owner] = c] ELSE answer
       ELSE UNCHANGED <<fut, answer>>
    /\ inflight' = Pop(rid[c])
    /\ timers' = timers \ (DOMAIN inflight \cap {rid[c]})
    /\ UNCHANGED <<link, nextRid, pc, rid, sentOn>>

\* The task that waits on a resolved future runs again and returns.
Resume(c) ==
    /\ c \notin Pings /\ pc[c] = "waiting" /\ fut[c] # "pending"
    /\ pc' = [pc EXCEPT ![c] = "done"]
    /\ UNCHANGED <<link, table, rid, sentOn, fut, answer>>

\* The application cancels the task that made the call.  Cancelling a task
\* that waits on a future cancels the future; the entry stays in the table.
CancelCaller(c) ==
    /\ c \in UserCalls /\ pc[c] \in {"sending", "waiting"}
    /\ pc' = [pc EXCEPT ![c] = "done"]
    /\ fut' = IF pc[c] = "waiting" THEN Resolve(c, "cancelled") ELSE fut
    /\ UNCHANGED <<link, table, rid, sentOn, answer>>

-----------------------------------------------------------------------------
(* The heartbeat's own request: an entry without a timer                   *)

BeginPing(c) ==
    /\ c \in Pings /\ pc[c] = "idle"
    /\ state = "READY" /\ conn # 0 /\ closing = "no"
    /\ \A p \in Pings : pc[p] \in {"idle", "done"}
    /\ nextRid' = nextRid + 1
    /\ rid' = [rid EXCEPT ![c] = nextRid]
    /\ inflight' = Put(nextRid, c)
    /\ fut' = [fut EXCEPT ![c] = "pending"]
    /\ sentOn' = [sentOn EXCEPT ![c] = conn]
    /\ pc' = [pc EXCEPT ![c] = "sending"]
    /\ UNCHANGED <<link, timers, answer>>

\* Defect: the ping's entry is only removed by its pong.
PingReturnsLeaking(c) ==
    /\ c \in Pings /\ pc[c] = "waiting"
    /\ pc' = [pc EXCEPT ![c] = "done"]
    /\ UNCHANGED <<link, table, rid, sentOn, fut, answer>>

\* The wait ends: a pong, any other inbound message, or ping_timeout.
PingReturns(c) ==
    /\ c \in Pings /\ pc[c] = "waiting"
    /\ inflight' = Pop(rid[c])
    /\ pc' = [pc EXCEPT ![c] = "done"]
    /\ UNCHANGED <<link, nextRid, timers, rid, sentOn, fut, answer>>

-----------------------------------------------------------------------------
(* The connection                                                          *)

\* _on_transport_close up to `await self._ws.close()`.  It runs in the reader
\* (the transport failed), in the heartbeat (max_missed_pings, or a ping that
\* could not be sent), or in another task (ack timeout, failed replay); only
\* in the first case has the reader stopped delivering.
TransportClose(byReader) ==
    /\ state \notin {"SHUTDOWN", "FATAL"}
    /\ byReader => conn \in readers
    /\ state' = "TRANSIENT_FAILURE"
    /\ closing' = IF conn # 0 /\ closing = "no" THEN "retry" ELSE closing
    /\ readers' = IF byReader THEN readers \ {conn} ELSE readers
    /\ FlushTable
    /\ HeartbeatCancelled
    /\ UNCHANGED <<conn, conns, nextRid, rid, sentOn, answer>>

\* close() up to `await self._ws.close()`.
Close ==
    /\ state # "SHUTDOWN"
    /\ state' = "SHUTDOWN"
    /\ closing' = IF conn # 0 /\ closing # "fatal" THEN "shutdown" ELSE closing
    /\ FlushTable
    /\ HeartbeatCancelled
    /\ UNCHANGED <<conn, conns, readers, nextRid, rid, sentOn, answer>>

\* _abort_to_fatal up to `await self._ws.close()`: with a connection to close
\* the state is still the old one, so a public operation may begin before
\* FATAL is announced.
AbortToFatal ==
    /\ state # "FATAL"
    /\ state' = IF conn # 0 THEN state ELSE "FATAL"
    /\ closing' = IF conn # 0 THEN "fatal" ELSE closing
    /\ FlushTable
    /\ HeartbeatCancelled
    /\ UNCHANGED <<conn, conns, readers, nextRid, rid, sentOn, answer>>

\* Defect: closing forgets to leave the closing step.
WsClosedTwice ==
    /\ closing # "no"
    /\ closing' = "closed"
    /\ conn' = 0
    /\ readers' = readers \ {conn}
    /\ state' = IF closing = "fatal" THEN "FATAL" ELSE state
    /\ UNCHANGED <<conns, table, pc, rid, sentOn, fut, answer>>

\* ws.close() returned: the reader has ended, and _ws is None.
WsClosed ==
    /\ closing # "no"
    /\ closing' = "no"
    /\ conn' = 0
    /\ readers' = readers \ {conn}
    /\ state' = IF closing = "fatal" THEN "FATAL" ELSE state
    /\ UNCHANGED <<conns, table, pc, rid, sentOn, fut, answer>>

\* A reconnect attempt assigned a new _ws.
Connected ==
    /\ state = "TRANSIENT_FAILURE" /\ conn = 0 /\ closing = "no" /\ conns < MaxConn
    /\ state' = "RECONNECTING"
    /\ conns' = conns + 1
    /\ conn' = conns + 1
    /\ readers' = readers \cup {conns + 1}
    /\ UNCHANGED <<closing, table, pc, rid, sentOn, fut, answer>>

\* Handshake, resubscription and replay are done.
ReconnectOk ==
    /\ state = "RECONNECTING" /\ closing = "no"
    /\ state' = "READY"
    /\ UNCHANGED <<conn, conns, readers, closing, table, pc, rid, sentOn, fut, answer>>

Next ==
    \/ \E c \in Calls : Reject(c) \/ NotOpen(c) \/ Begin(c) \/ Sent(c) \/ SendFails(c)
    \/ \E r \in timers : OnTimeout(r)
    \/ \E c \in Calls : HandleResponse(c) \/ Resume(c) \/ CancelCaller(c)
    \/ \E c \in Calls : BeginPing(c) \/ PingReturns(c)
    \/ \E byReader \in BOOLEAN : TransportClose(byReader)
    \/ Close \/ AbortToFatal \/ WsClosed \/ Connected \/ ReconnectOk

Spec == Init /\ [][Next]_vars

\* asyncio runs every ready task and every due timer; ws.send() returns once
\* the write buffer drains or the transport is lost; wait_for bounds the ping.
Fairness ==
    \A c \in Calls :
        /\ WF_vars(Sent(c) \/ SendFails(c))
        /\ WF_vars(OnTimeout(rid[c]))
        /\ WF_vars(Resume(c))
        /\ WF_vars(PingReturns(c))

FairSpec == Spec /\ Fairness

-----------------------------------------------------------------------------
(* Properties                                                              *)

\* A task suspended on an unresolved future can still be woken: its entry is
\* in _inflight, under its own request id, with an armed timer.  Every pop,
\* flush and cancellation must keep the three together.
NoLostWakeup ==
    \A c \in Calls \ Pings :
        (pc[c] = "waiting" /\ fut[c] = "pending") =>
            /\ rid[c] \in DOMAIN inflight
            /\ inflight[rid[c]] = c
            /\ rid[c] \in timers

\* A call is never completed with the answer to another call, however late,
\* duplicated or reordered answers are (_handle_sdk_response).
AnswerMatchesCall ==
    \A c \in Calls : fut[c] = "result" => answer[c] = c

\* _inflight does not leak: every entry is removed by a timer that is still
\* armed, or by the heartbeat that is still waiting for it.  This covers the
\* entries that cancelled callers leave behind.
NoEntryLeak ==
    \A r \in DOMAIN inflight :
        \/ r \in timers
        \/ inflight[r] \in Pings /\ pc[inflight[r]] \in {"sending", "waiting"}

\* Once a disconnect or close() has been announced no public operation begun
\* before it is still waiting for an answer that cannot come.
NoCallerLeftBehind ==
    state \in {"TRANSIENT_FAILURE", "RECONNECTING", "SHUTDOWN"} =>
        \A c \in UserCalls : pc[c] \in {"sending", "waiting"} => fut[c] # "pending"

\* A future is resolved once: a second set_result/set_exception would raise
\* InvalidStateError in the reader, in a timer callback or in close().
FutureSettledOnce ==
    [][\A c \in Calls : fut[c] \notin {"none", "pending"} => fut'[c] = fut[c]]_vars

\* Every operation that was sent returns to its caller, whatever happens to
\* the connection and to the answers.
CallReturns ==
    \A c \in Calls : pc[c] \in {"sending", "waiting"} ~> pc[c] = "done"

=============================================================================

------------------------ MODULE RobotLifecycle_proof ------------------------
(***************************************************************************)
(* Proofs about RobotLifecycle, for every finite set of topics, any number *)
(* of tasks and connections, any limit of attempts and any environment:    *)
(* its types, that SHUTDOWN and FATAL are final, and, while no reconnect   *)
(* has been doubled, that a retry is never lost, that _ws is the only open *)
(* connection, that an outage pauses every slot, and that READY after a    *)
(* reconnect means that everything is restored.                            *)
(*                                                                         *)
(* TypeOK is inductive.  It is split into Core, what the composite         *)
(* operations change, and Rest, what only the actions themselves change.   *)
(***************************************************************************)
EXTENDS LifecycleHistory, FiniteSetTheorems, TLAPS

Types == [Tasks -> TaskRecs]

\* What every composite operation and action leaves well typed.
Core ==
    /\ state \in States /\ ws \in 0..MaxConn /\ link \in [Conns -> Links]
    /\ task \in Types /\ closers \subseteq CloserRecs /\ hb \in BOOLEAN
    /\ subs \in [Topics -> {"absent", "PENDING", "ACTIVE", "PAUSED"}]
    /\ outstanding \subseteq RequestRecs /\ attempt \in 0..MaxAttempts

LEMMA NoTaskType ==
    ASSUME attempt \in 0..MaxAttempts
    PROVE  NoTask \in TaskRecs /\ Sleeper \in TaskRecs /\ Aborter \in TaskRecs
  <1>1. Saturated(attempt + 1) \in 0..MaxAttempts
    BY BoundsAssumption DEF Saturated
  <1>2. NoTask \in TaskRecs
    BY BoundsAssumption DEF NoTask, TaskRecs, Steps, Futures
  <1> QED
    BY <1>1, <1>2 DEF Sleeper, Aborter, TaskRecs, Steps

LEMMA FailedType ==
    ASSUME NEW tk \in Types, NEW how \in Futures
    PROVE  Failed(tk, how) \in Types /\ \A t \in Tasks : Failed(tk, how)[t].pc = tk[t].pc
  BY DEF Failed, Types, TaskRecs

LEMMA OrphanedType ==
    ASSUME NEW tk \in Types, NEW Q
    PROVE  Orphaned(tk, Q) \in Types /\ \A t \in Tasks : Orphaned(tk, Q)[t].pc = tk[t].pc
  <1> DEFINE Mark(S) == {IF x.topic \in Q THEN [x EXCEPT !.alive = FALSE] ELSE x : x \in S}
  <1>1. ASSUME NEW S \in SUBSET Items PROVE Mark(S) \in SUBSET Items
    BY DEF Items
  <1>2. \A t \in Tasks : tk[t] \in TaskRecs
    BY DEF Types
  <1>3. \A t \in Tasks : [tk[t] EXCEPT !.todo = Mark(tk[t].todo)] \in TaskRecs
    BY <1>1, <1>2 DEF TaskRecs
  <1>4. Orphaned(tk, Q) = [t \in Tasks |-> [tk[t] EXCEPT !.todo = Mark(tk[t].todo)]]
    BY DEF Orphaned
  <1> HIDE DEF Mark
  <1> QED
    BY <1>2, <1>3, <1>4 DEF Types, TaskRecs

LEMMA CancelledType ==
    ASSUME NEW tk \in Types, NEW ending, attempt \in 0..MaxAttempts
    PROVE  Cancelled(tk, ending) \in Types
  BY NoTaskType DEF Cancelled, Types

LEMMA SpawnedType ==
    ASSUME NEW tk \in Types, NEW new \in TaskRecs, FreeTasks(tk) # {}
    PROVE  /\ Spawned(tk, new) \in Types
           /\ NextTask(tk) \in Tasks /\ tk[NextTask(tk)].pc = "none"
           /\ Spawned(tk, new)[NextTask(tk)] = new
           /\ \A t \in Tasks : t # NextTask(tk) => Spawned(tk, new)[t].pc = tk[t].pc
  <1>1. NextTask(tk) \in FreeTasks(tk)
    BY DEF NextTask
  <1>2. NextTask(tk) \in Tasks /\ tk[NextTask(tk)].pc = "none"
    BY <1>1, BoundsAssumption DEF FreeTasks, Tasks
  <1>3. \A t \in Tasks : tk[t] \in TaskRecs /\ [tk[t] EXCEPT !.latest = FALSE] \in TaskRecs
                         /\ [tk[t] EXCEPT !.latest = FALSE].pc = tk[t].pc
    BY DEF Types, TaskRecs
  <1> QED
    BY <1>2, <1>3 DEF Spawned, Types

LEMMA EndedByType ==
    ASSUME TypeOK, NEW t \in Tasks
    PROVE  EndedBy(t) \in Types
  BY NoTaskType DEF TypeOK, EndedBy, NoTask, Types, TaskRecs, Steps

LEMMA ScheduleType ==
    ASSUME NEW tk \in Types, NEW s, attempt \in 0..MaxAttempts, Schedule(s, tk)
    PROVE  task' \in Types
  <1>1. CASE s \in Terminal
    BY <1>1 DEF Schedule
  <1>2. CASE s \notin Terminal
    <2>1. \E new \in {Aborter, Sleeper} : FreeTasks(tk) # {} /\ task' = Spawned(tk, new)
      BY <1>2 DEF Schedule
    <2> QED
      BY <2>1, NoTaskType, SpawnedType
  <1> QED
    BY <1>1, <1>2

LEMMA ClosingType ==
    ASSUME NEW lk \in [Conns -> Links], NEW k \in Conns
    PROVE  Closing(lk, k) \in [Conns -> Links]
  BY DEF Closing, Links

LEMMA CloserType ==
    ASSUME TypeOK, ws # 0, NEW kind \in {"retry", "fatal", "shutdown"}, NEW by \in Callers,
           NEW who \in 0..(MaxTasks + MaxConn)
    PROVE  Closer(kind, by, who) \in CloserRecs /\ ws \in Conns
  BY BoundsAssumption DEF TypeOK, Closer, CloserRecs, Conns

\* _on_transport_close keeps the types.
LEMMA OnTransportCloseType ==
    ASSUME TypeOK, NEW lk \in [Conns -> Links],
           NEW sb \in [Topics -> {"absent", "PENDING", "ACTIVE", "PAUSED"}],
           NEW tk \in Types, NEW by \in Callers, NEW who \in 0..(MaxTasks + MaxConn),
           OnTransportClose(state, lk, sb, tk, by, who)
    PROVE  Core'
  <1> USE DEF Core
  <1>1. CASE state \in Terminal
    BY <1>1 DEF OnTransportClose, TypeOK, Terminal, Types
  <1>2. CASE state \notin Terminal
    <2> DEFINE direct == ws = 0 \/ (by = "reader" /\ who = ws /\ lk[ws] = "closed")
    <2>1. PICK ending \in SUBSET HeartbeatClosers :
          /\ state' = "TRANSIENT_FAILURE" /\ subs' = Paused(sb) /\ outstanding' = {}
          /\ hb' = FALSE /\ UNCHANGED attempt
          /\ IF direct
             THEN /\ ws' = 0 /\ link' = lk /\ closers' = closers \ ending
                  /\ Schedule("TRANSIENT_FAILURE", Failed(tk, "error"))
             ELSE /\ link' = Closing(lk, ws)
                  /\ closers' = (closers \ ending) \cup {Closer("retry", by, who)}
                  /\ task' = Failed(tk, "error") /\ UNCHANGED ws
      BY <1>2 DEF OnTransportClose
    <2>2. Failed(tk, "error") \in Types
      BY FailedType DEF Futures
    <2>3. attempt \in 0..MaxAttempts /\ closers \subseteq CloserRecs /\ ws \in 0..MaxConn
      BY DEF TypeOK
    <2>4. /\ state' \in States /\ hb' \in BOOLEAN /\ outstanding' \subseteq RequestRecs
          /\ subs' \in [Topics -> {"absent", "PENDING", "ACTIVE", "PAUSED"}]
          /\ attempt' \in 0..MaxAttempts
      BY <2>1, <2>3 DEF States, Paused
    <2>5. CASE direct
      <3>1. task' \in Types
        BY <2>1, <2>2, <2>3, <2>5, ScheduleType
      <3>2. ws' \in 0..MaxConn /\ link' \in [Conns -> Links] /\ closers' \subseteq CloserRecs
        BY <2>1, <2>3, <2>5, BoundsAssumption
      <3> QED
        BY <2>4, <3>1, <3>2
    <2>6. CASE ~direct
      <3>1. Closer("retry", by, who) \in CloserRecs /\ ws \in Conns
        BY <2>6, CloserType
      <3>2. Closing(lk, ws) \in [Conns -> Links]
        BY <3>1, ClosingType
      <3> QED
        BY <2>1, <2>2, <2>3, <2>4, <2>6, <3>1, <3>2
    <2> QED
      BY <2>5, <2>6
  <1> QED
    BY <1>1, <1>2

\* _abort_to_fatal keeps the types.
LEMMA AbortToFatalType ==
    ASSUME TypeOK, NEW tk \in Types, NEW how \in Futures, NEW by \in Callers,
           NEW who \in 0..(MaxTasks + MaxConn), AbortToFatal(tk, how, by, who)
    PROVE  Core'
  <1> USE DEF Core
  <1>1. attempt \in 0..MaxAttempts /\ attempt' = attempt /\ ws \in 0..MaxConn /\ ws' = ws
    BY DEF TypeOK, AbortToFatal
  <1>2. PICK ending \in SUBSET (HeartbeatClosers \cup ReconnectClosers) :
          /\ task' = Orphaned(Cancelled(Failed(tk, how), ending), Topics)
          /\ closers' = (closers \ ending) \cup IF ws = 0 THEN {} ELSE {Closer("fatal", by, who)}
    BY DEF AbortToFatal
  <1>3. task' \in Types
    <2>1. Failed(tk, how) \in Types
      BY FailedType
    <2>2. Cancelled(Failed(tk, how), ending) \in Types
      BY <1>1, <2>1, CancelledType
    <2> QED
      BY <1>2, <2>2, OrphanedType
  <1>4. /\ hb' \in BOOLEAN /\ outstanding' \subseteq RequestRecs
        /\ subs' \in [Topics -> {"absent", "PENDING", "ACTIVE", "PAUSED"}]
    BY DEF AbortToFatal
  <1>5. closers' \subseteq CloserRecs
    BY <1>2, CloserType DEF TypeOK
  <1>6. CASE ws = 0
    BY <1>1, <1>3, <1>4, <1>5, <1>6 DEF AbortToFatal, TypeOK, States
  <1>7. CASE ws # 0
    <2>1. Closing(link, ws) \in [Conns -> Links]
      BY <1>7, CloserType, ClosingType DEF TypeOK
    <2> QED
      BY <1>1, <1>3, <1>4, <1>5, <1>7, <2>1 DEF AbortToFatal, TypeOK
  <1> QED
    BY <1>6, <1>7

-----------------------------------------------------------------------------

\* The restoration counters and the intent.
Rest == /\ subsPending \in 0..Cardinality(Topics)
        /\ estopPending \in BOOLEAN /\ intent \in BOOLEAN

LEMMA Parts == /\ TypeOK <=> Core /\ Rest
               /\ Core' /\ Rest' => TypeOK'
  BY DEF TypeOK, Core, Rest, Types

LEMMA Whos == /\ Tasks \subseteq 0..(MaxTasks + MaxConn) /\ Conns \subseteq 0..(MaxTasks + MaxConn)
              /\ 0 \in 0..(MaxTasks + MaxConn) /\ 0 \in Tasks /\ 0 \in 0..MaxConn
              /\ Conns \subseteq 0..MaxConn
  BY BoundsAssumption DEF Tasks, Conns

LEMMA InitTypeOK == Init => TypeOK
  <1>1. NoTask \in TaskRecs
    BY BoundsAssumption DEF NoTask, TaskRecs, Steps, Futures
  <1>2. Cardinality(Topics) \in Nat
    BY BoundsAssumption, FS_CardinalityType
  <1>3. ASSUME Init PROVE Core
    <2>1. hb \in BOOLEAN
      BY <1>3, Zenon DEF Init
    <2>2. /\ state \in States /\ ws \in 0..MaxConn /\ link \in [Conns -> Links]
          /\ subs \in [Topics -> {"absent", "PENDING", "ACTIVE", "PAUSED"}]
      BY <1>3, BoundsAssumption DEF Init, States, Links
    <2>3. /\ task \in Types /\ closers \subseteq CloserRecs
          /\ outstanding \subseteq RequestRecs /\ attempt \in 0..MaxAttempts
      BY <1>1, <1>3, BoundsAssumption DEF Init, Types
    <2> QED
      BY <2>1, <2>2, <2>3 DEF Core
  <1>4. ASSUME Init PROVE Rest /\ state # "TRANSIENT_FAILURE"
    <2>1. estopPending \in BOOLEAN /\ intent \in BOOLEAN
      BY <1>4, Zenon DEF Init
    <2>2. subsPending \in 0..Cardinality(Topics) /\ state # "TRANSIENT_FAILURE"
      BY <1>2, <1>4 DEF Init
    <2> QED
      BY <2>1, <2>2 DEF Rest
  <1> QED
    BY <1>3, <1>4, Parts DEF TypeOK

-----------------------------------------------------------------------------

LEMMA Unlive ==
    ASSUME NEW r \in RequestRecs
    PROVE  [r EXCEPT !.live = FALSE] \in RequestRecs
  BY DEF RequestRecs

LEMMA RegisteredType ==
    ASSUME outstanding \subseteq RequestRecs, ws \in Conns, NEW q \in Topics,
           NEW alive \in BOOLEAN, NEW retry \in BOOLEAN
    PROVE  Registered(q, alive, retry) \subseteq RequestRecs
  <1>1. [topic |-> q, conn |-> ws, live |-> alive, retry |-> retry] \in RequestRecs
    BY DEF RequestRecs
  <1>2. \A r \in outstanding : r \in RequestRecs /\ [r EXCEPT !.live = FALSE] \in RequestRecs
    BY Unlive
  <1> QED
    BY <1>1, <1>2 DEF Registered

LEMMA UserStep ==
    ASSUME TypeOK, User
    PROVE  Core' /\ Rest'
  <1> USE Parts
  <1>1. CASE Connect
    <2>1. task' \in Types
      BY <1>1, Whos DEF Connect, Core, Types, TaskRecs, Steps
    <2> QED
      BY <1>1, <2>1 DEF Connect, Core, Rest, States
  <1>2. CASE Close
    <2>1. PICK ending \in SUBSET (HeartbeatClosers \cup ReconnectClosers) :
            /\ task' = Orphaned(Failed(Cancelled(task, ending), "error"), Topics)
            /\ closers' = (closers \ ending)
                            \cup IF ws = 0 THEN {} ELSE {Closer("shutdown", "user", 0)}
      BY <1>2 DEF Close
    <2>2. task' \in Types
      <3>1. Failed(Cancelled(task, ending), "error") \in Types
        BY CancelledType, FailedType DEF Core, Futures
      <3> QED
        BY <2>1, <3>1, OrphanedType
    <2>3. ws # 0 => Closer("shutdown", "user", 0) \in CloserRecs /\ ws \in Conns
      BY CloserType, Whos DEF Callers
    <2>4. ws # 0 => Closing(link, ws) \in [Conns -> Links]
      BY <2>3, ClosingType DEF Core
    <2>5. closers' \subseteq CloserRecs
      BY <2>1, <2>3 DEF Core
    <2> QED
      BY <1>2, <2>2, <2>4, <2>5 DEF Close, Core, Rest, States
  <1>3. ASSUME NEW q \in Topics, Subscribe(q) PROVE Core' /\ Rest'
    <2>1. Rest'
      BY <1>3 DEF Subscribe, Rest
    <2> DEFINE sb == [subs EXCEPT ![q] = "PENDING"]
    <2>2. sb \in [Topics -> {"absent", "PENDING", "ACTIVE", "PAUSED"}]
      BY DEF Core
    <2>3. CASE state # "READY" \/ CanSend
      <3>1. outstanding' \subseteq RequestRecs
        <4>1. CASE state = "READY"
          <5>1. ws \in Conns
            BY <2>3, <4>1, BoundsAssumption DEF CanSend, Core, Conns
          <5>2. Registered(q, TRUE, FALSE) \subseteq RequestRecs
            BY <5>1, RegisteredType DEF Core
          <5> QED
            BY <1>3, <2>3, <4>1, <5>2 DEF Subscribe
        <4>2. CASE state # "READY"
          BY <1>3, <2>3, <4>2 DEF Subscribe, Core
        <4> QED
          BY <4>1, <4>2
      <3> QED
        BY <1>3, <2>1, <2>2, <2>3, <3>1 DEF Subscribe, Core
    <2>4. CASE ~(state # "READY" \/ CanSend)
      <3>1. OnTransportClose(state, link, sb, task, "user", 0)
        BY <1>3, <2>4 DEF Subscribe
      <3> HIDE DEF sb
      <3> QED
        BY <2>1, <2>2, <3>1, OnTransportCloseType, Whos DEF Core, Callers
    <2> QED
      BY <2>3, <2>4
  <1>4. ASSUME NEW q \in Topics, Unsubscribe(q) PROVE Core' /\ Rest'
    <2>1. task' \in Types /\ \A t \in Tasks : task'[t].pc = task[t].pc
      BY <1>4, OrphanedType DEF Unsubscribe, Core
    <2>2. outstanding' \subseteq RequestRecs
      <3>1. \A r \in outstanding : r \in RequestRecs /\ [r EXCEPT !.live = FALSE] \in RequestRecs
        BY Unlive, Zenon DEF Core
      <3>2. outstanding' = {IF r.topic = q THEN [r EXCEPT !.live = FALSE] ELSE r : r \in outstanding}
        BY <1>4, Zenon DEF Unsubscribe
      <3> QED
        BY <3>1, <3>2
    <2> QED
      BY <1>4, <2>1, <2>2 DEF Unsubscribe, Core, Rest
  <1>5. ASSUME NEW engage \in BOOLEAN, EmergencyStopAcked(engage) PROVE Core' /\ Rest'
    BY <1>5 DEF EmergencyStopAcked, Core, Rest
  <1> QED
    BY <1>1, <1>2, <1>3, <1>4, <1>5 DEF User

-----------------------------------------------------------------------------
(* The steps of the establish, reconnect, replay and abort tasks.          *)

\* A step that only gives task t another record.
LEMMA TaskMoves ==
    ASSUME Core, NEW t \in Tasks, NEW new \in TaskRecs, task' = [task EXCEPT ![t] = new],
           UNCHANGED <<ws, link, closers, hb, subs, outstanding, attempt>>, state' \in States
    PROVE  Core'
  BY DEF Core, Types

\* A retry scheduled at once, with task t gone.
LEMMA RetriesAtOnce ==
    ASSUME Core, NEW t \in Tasks, state' = "TRANSIENT_FAILURE",
           Schedule("TRANSIENT_FAILURE", [task EXCEPT ![t] = NoTask]),
           UNCHANGED <<attempt, ws, link, closers, hb, subs, outstanding>>
    PROVE  Core'
  <1>1. [task EXCEPT ![t] = NoTask] \in Types
    BY NoTaskType DEF Core, Types
  <1>2. task' \in Types
    BY <1>1, ScheduleType DEF Core
  <1> QED
    BY <1>2 DEF Core, States

LEMMA ConnectStep ==
    ASSUME TypeOK, NEW t \in Tasks,
           SleepEnds(t) \/ ConnectOk(t) \/ ConnectFails(t) \/ ConnectFatal(t) \/ ConnectCrashes(t)
    PROVE  Core' /\ Rest'
  <1> USE Parts
  <1>1. task[t] \in TaskRecs /\ NoTask \in TaskRecs
    BY NoTaskType DEF Core, Types
  <1>2. CASE SleepEnds(t)
    <2>1. Rest'
      BY <1>2 DEF SleepEnds, Rest
    <2>2. CASE state # "TRANSIENT_FAILURE"
      BY <1>1, <1>2, <2>1, <2>2, TaskMoves DEF SleepEnds, Core
    <2>3. CASE state = "TRANSIENT_FAILURE"
      <3>1. task' \in Types
        BY <1>1, <1>2, <2>3, BoundsAssumption DEF SleepEnds, Core, Types, TaskRecs, Steps
      <3>2. attempt' \in 0..MaxAttempts
        BY <1>1, <1>2, <2>3 DEF SleepEnds, TaskRecs
      <3> QED
        BY <1>2, <2>1, <2>3, <3>1, <3>2 DEF SleepEnds, Core, States
    <2> QED
      BY <2>2, <2>3
  <1>3. CASE ConnectOk(t)
    <2>1. PICK k \in Conns : /\ link' = [link EXCEPT ![k] = "up"] /\ ws' = k
                             /\ task' = [task EXCEPT ![t].pc = "handshake", ![t].conn = k,
                                                     ![t].fut = "wait"]
      BY <1>3 DEF ConnectOk
    <2>2. task' \in Types
      BY <1>1, <2>1, Whos DEF Core, Types, TaskRecs, Steps, Futures
    <2>3. link' \in [Conns -> Links] /\ ws' \in 0..MaxConn
      BY <2>1, Whos DEF Core, Links
    <2> QED
      BY <1>3, <2>2, <2>3 DEF ConnectOk, Core, Rest
  <1>4. CASE ConnectFails(t)
    <2>1. Core'
      BY <1>4, RetriesAtOnce DEF ConnectFails
    <2> QED
      BY <1>4, <2>1 DEF ConnectFails, Rest
  <1>5. CASE ConnectFatal(t)
    <2>1. Core'
      BY <1>5, EndedByType, AbortToFatalType, Whos DEF ConnectFatal, Futures, Callers
    <2> QED
      BY <1>5, <2>1 DEF ConnectFatal, Rest
  <1>6. CASE ConnectCrashes(t)
    <2> DEFINE new == IF t # 0 THEN NoTask ELSE [NoTask EXCEPT !.pc = "abort"]
    <2>1. new \in TaskRecs
      BY NoTaskType DEF Core, Aborter
    <2>2. task' = [task EXCEPT ![t] = new] /\ task[t].pc = "connect"
      BY <1>6 DEF ConnectCrashes
    <2> HIDE DEF new
    <2>3. Core'
      BY <1>6, <2>1, <2>2, TaskMoves DEF ConnectCrashes, Core
    <2> QED
      BY <1>6, <2>3 DEF ConnectCrashes, Rest
  <1> QED
    BY <1>2, <1>3, <1>4, <1>5, <1>6

LEMMA HandshakeFailsStep ==
    ASSUME TypeOK, NEW t \in Tasks, HandshakeFails(t)
    PROVE  Core' /\ Rest'
  <1> USE Parts
  <1>1. Rest'
    BY DEF HandshakeFails, Rest
  <1>2. CASE ws = 0
    BY <1>1, <1>2, RetriesAtOnce DEF HandshakeFails
  <1>3. CASE ws # 0
    <2>1. EndedBy(t) \in Types
      BY EndedByType
    <2>2. Closer("retry", "task", t) \in CloserRecs /\ ws \in Conns
      BY <1>3, CloserType, Whos DEF Callers
    <2>3. Closing(link, ws) \in [Conns -> Links]
      BY <2>2, ClosingType DEF Core
    <2> QED
      BY <1>1, <1>3, <2>1, <2>2, <2>3 DEF HandshakeFails, Core, States
  <1> QED
    BY <1>2, <1>3

LEMMA SlotItemsType == SlotItems \in SUBSET Items /\ Slots \subseteq Topics
  <1>1. Slots \subseteq Topics
    BY DEF Slots
  <1>2. \A q \in Topics : [topic |-> q, alive |-> TRUE] \in Items
    BY DEF Items
  <1> QED
    BY <1>1, <1>2 DEF SlotItems

LEMMA SlotsCounted == Cardinality(Slots) \in 0..Cardinality(Topics)
  <1>1. Slots \subseteq Topics /\ IsFiniteSet(Topics)
    BY SlotItemsType, BoundsAssumption
  <1>2. Cardinality(Topics) \in Nat /\ IsFiniteSet(Slots) /\ Cardinality(Slots) <= Cardinality(Topics)
    BY <1>1, FS_Subset, FS_CardinalityType
  <1>3. Cardinality(Slots) \in Nat
    BY <1>2, FS_CardinalityType
  <1> QED
    BY <1>2, <1>3

LEMMA StartHeartbeatType ==
    ASSUME closers \subseteq CloserRecs, StartHeartbeat
    PROVE  closers' \subseteq CloserRecs
  <1>1. \A c \in closers : [c EXCEPT !.by = "timer"] \in CloserRecs
    BY DEF CloserRecs, Callers
  <1> QED
    BY <1>1 DEF StartHeartbeat

LEMMA HandshakeOkStep ==
    ASSUME TypeOK, NEW t \in Tasks, HandshakeOkInitial \/ HandshakeOkAgain(t)
    PROVE  Core' /\ Rest'
  <1> USE Parts
  <1>1. NoTask \in TaskRecs /\ task[t] \in TaskRecs /\ SlotItems \in SUBSET Items
    BY NoTaskType, SlotItemsType DEF Core, Types
  <1>2. closers' \subseteq CloserRecs
    BY StartHeartbeatType DEF HandshakeOkInitial, HandshakeOkAgain, Core
  <1>3. CASE HandshakeOkInitial
    <2> DEFINE new == [NoTask EXCEPT !.pc = "flush", !.todo = SlotItems]
    <2>1. new \in TaskRecs
      BY <1>1 DEF TaskRecs, Steps
    <2>2. task' = [task EXCEPT ![0] = new] /\ state' = "READY" /\ hb' \in BOOLEAN
      BY <1>3 DEF HandshakeOkInitial
    <2> HIDE DEF new
    <2>3. task' \in Types
      BY <2>1, <2>2 DEF Core, Types
    <2> QED
      BY <1>2, <1>3, <2>2, <2>3 DEF HandshakeOkInitial, Core, Rest, States
  <1>4. CASE HandshakeOkAgain(t)
    <2>1. Rest'
      BY <1>4, SlotsCounted DEF HandshakeOkAgain, Rest
    <2>2. CASE Slots = {} /\ ~intent
      <3>1. state' = "READY" /\ attempt' = 0 /\ hb' \in BOOLEAN /\ task' = [task EXCEPT ![t] = NoTask]
        BY <1>4, <2>2 DEF HandshakeOkAgain, ReadyAgain
      <3>2. task' \in Types
        BY <1>1, <3>1 DEF Core, Types
      <3> QED
        BY <1>2, <1>4, <2>1, <3>1, <3>2, BoundsAssumption DEF HandshakeOkAgain, Core, States
    <2>3. CASE ~(Slots = {} /\ ~intent)
      <3> DEFINE new == [NoTask EXCEPT !.pc = "resub", !.todo = SlotItems, !.latest = task[t].latest]
      <3>1. new \in TaskRecs
        BY <1>1 DEF TaskRecs, Steps
      <3>2. /\ task' = [task EXCEPT ![t] = new] /\ task[t].pc = "handshake"
            /\ UNCHANGED <<state, attempt, ws, link, subs, outstanding>>
        BY <1>4, <2>3 DEF HandshakeOkAgain
      <3>3. hb' \in BOOLEAN
        BY <1>4, <2>3, Zenon DEF HandshakeOkAgain
      <3> HIDE DEF new
      <3>4. task' \in Types
        BY <3>1, <3>2 DEF Core, Types
      <3> QED
        BY <1>2, <2>1, <3>2, <3>3, <3>4 DEF Core
    <2> QED
      BY <2>2, <2>3
  <1> QED
    BY <1>3, <1>4

LEMMA SendStep ==
    ASSUME TypeOK, NEW t \in Tasks, SendNext(t) \/ SendsDone(t)
    PROVE  Core' /\ Rest'
  <1> USE Parts
  <1>1. NoTask \in TaskRecs /\ task[t] \in TaskRecs
    BY NoTaskType DEF Core, Types
  <1>2. CASE SendsDone(t)
    <2> DEFINE new == IF task[t].pc = "resub" /\ estopPending
                      THEN [NoTask EXCEPT !.pc = "rnew"] ELSE NoTask
    <2>1. new \in TaskRecs
      BY <1>1 DEF TaskRecs, Steps
    <2>2. task' = [task EXCEPT ![t] = new] /\ task[t].pc \in {"flush", "resub"}
      BY <1>2 DEF SendsDone
    <2> HIDE DEF new
    <2>3. Core'
      BY <1>2, <2>1, <2>2, TaskMoves DEF SendsDone, Core
    <2> QED
      BY <1>2, <2>3 DEF SendsDone, Rest
  <1>3. CASE SendNext(t)
    <2> DEFINE rest(x)  == [task EXCEPT ![t].todo = @ \ {x}]
               slots(x) == IF x.alive THEN [subs EXCEPT ![x.topic] = "PENDING"] ELSE subs
               skip(x)  == /\ task[t].pc = "flush"
                           /\ \/ ~x.alive \/ subs[x.topic] # "PENDING"
                              \/ \E r \in outstanding : r.topic = x.topic /\ r.live
    <2>1. PICK x \in task[t].todo :
            /\ task[t].pc \in {"flush", "resub"}
            /\ IF skip(x) \/ CanSend
               THEN /\ task' = rest(x)
                    /\ subs' = IF skip(x) THEN subs ELSE slots(x)
                    /\ outstanding' = IF skip(x) THEN outstanding
                                      ELSE Registered(x.topic, x.alive, FALSE)
                    /\ UNCHANGED <<state, ws, link, closers, hb, attempt>>
               ELSE OnTransportClose(state, link, slots(x), rest(x), "task", t)
            /\ UNCHANGED <<subsPending, estopPending, intent>>
      BY <1>3 DEF SendNext
    <2>2. x.topic \in Topics /\ x.alive \in BOOLEAN
      BY <1>1 DEF TaskRecs, Items
    <2>3. rest(x) \in Types /\ \A u \in Tasks : rest(x)[u].pc = task[u].pc
      BY <1>1 DEF Core, Types, TaskRecs
    <2>4. slots(x) \in [Topics -> {"absent", "PENDING", "ACTIVE", "PAUSED"}]
      BY <2>2 DEF Core
    <2>5. Rest'
      BY <2>1 DEF Rest
    <2>6. (~skip(x) /\ CanSend) => Registered(x.topic, x.alive, FALSE) \subseteq RequestRecs
      <3>1. CanSend => ws \in Conns
        BY BoundsAssumption DEF CanSend, Core, Conns
      <3> QED
        BY <2>2, <3>1, RegisteredType DEF Core
    <2> HIDE DEF rest, slots, skip
    <2>7. CASE skip(x) \/ CanSend
      <3> QED
        BY <2>1, <2>3, <2>4, <2>5, <2>6, <2>7 DEF Core
    <2>8. CASE ~(skip(x) \/ CanSend)
      BY <2>1, <2>3, <2>4, <2>5, <2>8, OnTransportCloseType, Whos DEF Core, Callers
    <2> QED
      BY <2>7, <2>8
  <1> QED
    BY <1>2, <1>3

LEMMA ReplayStep ==
    ASSUME TypeOK, NEW t \in Tasks,
           ReplayBegins(t) \/ ReplayAcked(t) \/ ReplayFailed(t) \/ AbortBegins(t) \/ HandshakeFatal(t)
    PROVE  Core' /\ Rest'
  <1> USE Parts
  <1>1. NoTask \in TaskRecs /\ task[t] \in TaskRecs
    BY NoTaskType DEF Core, Types
  <1>2. EndedBy(t) \in Types
    BY EndedByType
  <1>3. OnTransportClose(state, link, subs, EndedBy(t), "task", t) => Core'
    BY <1>2, OnTransportCloseType, Whos DEF Core, Callers
  <1>4. CASE ReplayBegins(t)
    <2>1. CASE CanSend
      <3> DEFINE new == [task[t] EXCEPT !.pc = "rwait", !.conn = ws, !.fut = "wait"]
      <3>1. new \in TaskRecs
        BY <1>1 DEF Core, TaskRecs, Steps, Futures
      <3>2. task' = [task EXCEPT ![t] = new] /\ task[t].pc = "rnew"
        BY <1>1, <1>4, <2>1 DEF ReplayBegins, Core, Types, TaskRecs
      <3> HIDE DEF new
      <3>3. Core'
        BY <1>4, <2>1, <3>1, <3>2, TaskMoves DEF ReplayBegins, Core
      <3> QED
        BY <1>4, <2>1, <3>3 DEF ReplayBegins, Rest
    <2>2. CASE ~CanSend
      BY <1>3, <1>4, <2>2 DEF ReplayBegins, Rest
    <2> QED
      BY <2>1, <2>2
  <1>5. CASE ReplayAcked(t)
    <2>1. Rest'
      BY <1>5 DEF ReplayAcked, Rest
    <2>2. CASE subsPending = 0
      <3>1. task' \in Types
        BY <1>1, <1>5 DEF ReplayAcked, Core, Types
      <3>2. attempt' \in 0..MaxAttempts /\ state' = "READY"
        BY <1>5, <2>2, BoundsAssumption DEF ReplayAcked, ReadyAgain
      <3> QED
        BY <1>5, <2>1, <3>1, <3>2 DEF ReplayAcked, Core, States
    <2>3. CASE subsPending # 0
      BY <1>1, <1>5, <2>1, <2>3, TaskMoves DEF ReplayAcked, Core
    <2> QED
      BY <2>2, <2>3
  <1>6. CASE ReplayFailed(t)
    BY <1>3, <1>6 DEF ReplayFailed, Rest
  <1>7. CASE AbortBegins(t)
    <2>1. Core'
      BY <1>2, <1>7, AbortToFatalType, Whos DEF AbortBegins, Futures, Callers
    <2> QED
      BY <1>7, <2>1 DEF AbortBegins, Rest
  <1>8. CASE HandshakeFatal(t)
    <2>1. Core'
      BY <1>2, <1>8, AbortToFatalType, Whos DEF HandshakeFatal, Futures, Callers
    <2> QED
      BY <1>8, <2>1 DEF HandshakeFatal, Rest
  <1> QED
    BY <1>4, <1>5, <1>6, <1>7, <1>8

-----------------------------------------------------------------------------
(* Answers, timers, connections and the ends of ws.close().                *)

LEMMA AnswerStep ==
    ASSUME TypeOK, NEW t \in Tasks, NEW v \in Futures, Answered(t, v) \/ Unanswered(t, v)
    PROVE  Core' /\ Rest'
  <1> USE Parts
  <1>1. /\ task' = [task EXCEPT ![t].fut = v]
        /\ UNCHANGED <<state, ws, link, closers, hb, subs, outstanding, attempt,
                       subsPending, estopPending, intent>>
    BY DEF Answered, Unanswered
  <1>2. task' \in Types /\ \A u \in Tasks : task'[u].pc = task[u].pc
    BY <1>1 DEF Core, Types, TaskRecs
  <1> QED
    BY <1>1, <1>2 DEF Core, Rest

LEMMA MaybeFinishEffect ==
    ASSUME Core, Rest, NEW r \in BOOLEAN, MaybeFinishReconnect(r)
    PROVE  /\ subsPending' \in 0..Cardinality(Topics) /\ attempt' \in 0..MaxAttempts
           /\ state' \in {state, "READY"}
  <1>1. Cardinality(Topics) \in Nat
    BY BoundsAssumption, FS_CardinalityType
  <1>2. subsPending \in 0..Cardinality(Topics) /\ attempt \in 0..MaxAttempts /\ 0 \in 0..MaxAttempts
    BY BoundsAssumption DEF Core, Rest
  <1>3. CASE r /\ subsPending > 0
    <2>1. subsPending' = subsPending - 1
      BY <1>3, Zenon DEF MaybeFinishReconnect
    <2>2. \/ state' = "READY" /\ attempt' = 0
          \/ state' = state /\ attempt' = attempt
      BY <1>3, Zenon DEF MaybeFinishReconnect, ReadyAgain
    <2> QED
      BY <1>1, <1>2, <1>3, <2>1, <2>2
  <1>4. CASE ~(r /\ subsPending > 0)
    <2>1. subsPending' = subsPending /\ state' = state /\ attempt' = attempt
      BY <1>4, Zenon DEF MaybeFinishReconnect
    <2> QED
      BY <1>2, <2>1
  <1> QED
    BY <1>3, <1>4

LEMMA AckStep ==
    ASSUME TypeOK, NEW r \in outstanding,
           NEW v \in {"accepted", "rejected", "busy", "fatal", "too_old"}, HandleAck(r, v)
    PROVE  Core' /\ Rest'
  <1> USE Parts
  <1> DEFINE q == r.topic
             slot == r.live /\ subs[q] # "absent"
             reconnecting == state = "RECONNECTING"
  <1>1. r \in RequestRecs /\ q \in Topics /\ r.conn \in Conns
    BY DEF Core, RequestRecs
  <1>2. outstanding \ {r} \subseteq RequestRecs
    BY DEF Core
  <1>3. Orphaned(task, {q}) \in Types /\ \A t \in Tasks : Orphaned(task, {q})[t].pc = task[t].pc
    BY OrphanedType DEF Core
  <1>4. estopPending' \in BOOLEAN /\ intent' \in BOOLEAN
    <2>1. UNCHANGED <<estopPending, intent>>
      BY DEF HandleAck
    <2> QED
      BY <2>1 DEF Rest
  <1>5. MaybeFinishReconnect(reconnecting) =>
            /\ subsPending' \in 0..Cardinality(Topics) /\ attempt' \in 0..MaxAttempts
            /\ state' \in {state, "READY"}
    BY MaybeFinishEffect
  <1>6. OnTransportClose(state, link, subs, task, "reader", r.conn) => Core'
    BY <1>1, OnTransportCloseType, Whos DEF Core, Callers
  <1>7. CASE ~slot
    <2>1. /\ outstanding' = outstanding \ {r}
          /\ UNCHANGED <<state, ws, link, task, closers, hb, subs, attempt, subsPending>>
      BY <1>7 DEF HandleAck
    <2> QED
      BY <1>2, <1>4, <2>1 DEF Core, Rest
  <1>8. CASE slot /\ v = "accepted"
    <2>1. /\ outstanding' = outstanding \ {r} /\ subs' = [subs EXCEPT ![q] = "ACTIVE"]
          /\ MaybeFinishReconnect(reconnecting) /\ UNCHANGED <<ws, link, task, closers, hb>>
      BY <1>8 DEF HandleAck
    <2> QED
      BY <1>1, <1>2, <1>4, <1>5, <2>1 DEF Core, Rest, States
  <1>9. CASE slot /\ (v = "rejected" \/ (v = "too_old" /\ r.retry))
    <2>1. /\ outstanding' = outstanding \ {r} /\ subs' = [subs EXCEPT ![q] = "absent"]
          /\ task' = Orphaned(task, {q})
          /\ MaybeFinishReconnect(reconnecting) /\ UNCHANGED <<ws, link, closers, hb>>
      BY <1>9 DEF HandleAck
    <2> QED
      BY <1>1, <1>2, <1>3, <1>4, <1>5, <2>1 DEF Core, Rest, States
  <1>10. CASE slot /\ v = "busy" /\ ~reconnecting
    <2>1. /\ outstanding' = outstanding \ {r} /\ subs' = [subs EXCEPT ![q] = "absent"]
          /\ task' = Orphaned(task, {q})
          /\ UNCHANGED <<state, ws, link, closers, hb, attempt, subsPending>>
      BY <1>10 DEF HandleAck
    <2> QED
      BY <1>1, <1>2, <1>3, <1>4, <2>1 DEF Core, Rest
  <1>11. CASE slot /\ v = "busy" /\ reconnecting
    BY <1>4, <1>6, <1>11 DEF HandleAck, Rest
  <1>12. CASE slot /\ v = "fatal"
    <2>1. AbortToFatal(task, "fatal", "reader", r.conn) /\ UNCHANGED subsPending
      BY <1>12 DEF HandleAck
    <2>2. Core'
      BY <1>1, <2>1, AbortToFatalType, Whos DEF Core, Callers, Futures
    <2> QED
      BY <1>4, <2>1, <2>2 DEF Rest
  <1>13. CASE slot /\ v = "too_old" /\ ~r.retry
    <2>1. CASE CanSend
      <3>1. /\ outstanding' = (outstanding \ {r}) \cup {[r EXCEPT !.conn = ws, !.retry = TRUE]}
            /\ subs' = [subs EXCEPT ![q] = "PENDING"]
            /\ UNCHANGED <<state, ws, link, task, closers, hb, attempt, subsPending>>
        BY <1>13, <2>1 DEF HandleAck
      <3>2. ws \in Conns
        BY <2>1, BoundsAssumption DEF CanSend, Core, Conns
      <3>3. [r EXCEPT !.conn = ws, !.retry = TRUE] \in RequestRecs
        BY <1>1, <3>2 DEF RequestRecs
      <3> QED
        BY <1>1, <1>2, <1>4, <3>1, <3>3 DEF Core, Rest
    <2>2. CASE ~CanSend
      BY <1>4, <1>6, <1>13, <2>2 DEF HandleAck, Rest
    <2> QED
      BY <2>1, <2>2
  <1> HIDE DEF slot, reconnecting
  <1> QED
    BY <1>7, <1>8, <1>9, <1>10, <1>11, <1>12, <1>13

LEMMA LinkStep ==
    ASSUME TypeOK, NEW k \in Conns,
           LinkFails(k) \/ PeerCloses(k) \/ ServerCloses(k) \/ ReaderNotices(k)
    PROVE  Core' /\ Rest'
  <1> USE Parts
  <1>1. CASE LinkFails(k) \/ PeerCloses(k) \/ ServerCloses(k)
    <2>1. OnlyLink
      BY <1>1 DEF LinkFails, PeerCloses, ServerCloses
    <2>2. link' \in [Conns -> Links]
      BY <1>1 DEF LinkFails, PeerCloses, ServerCloses, Core, Links
    <2> QED
      BY <2>1, <2>2 DEF OnlyLink, Core, Rest
  <1>2. CASE ReaderNotices(k)
    <2>1. [link EXCEPT ![k] = "closed"] \in [Conns -> Links]
      BY DEF Core, Links
    <2>2. OnTransportClose(state, [link EXCEPT ![k] = "closed"], subs, task, "reader", k)
      BY <1>2 DEF ReaderNotices
    <2>3. Core'
      BY <2>1, <2>2, OnTransportCloseType, Whos DEF Core, Callers
    <2> QED
      BY <1>2, <2>3 DEF ReaderNotices, Rest
  <1> QED
    BY <1>1, <1>2

LEMMA CloseReturnsStep ==
    ASSUME TypeOK, NEW c \in closers, CloseReturns(c)
    PROVE  Core' /\ Rest'
  <1> USE Parts
  <1> DEFINE ended == [t \in Tasks |-> IF c.by = "task" /\ c.who = t /\ task[t].pc = "closing"
                                       THEN NoTask ELSE task[t]]
  <1>1. ended \in Types
    BY NoTaskType DEF Core, Types
  <1>2. /\ closers' = closers \ {c} /\ ws' = 0
        /\ IF c.kind = "retry" THEN Schedule(state, ended) ELSE task' = ended
        /\ state' = IF c.kind = "fatal" THEN "FATAL" ELSE state
        /\ UNCHANGED <<link, attempt, hb, subs, outstanding, subsPending, estopPending, intent>>
    BY DEF CloseReturns
  <1> HIDE DEF ended
  <1>3. task' \in Types
    BY <1>1, <1>2, ScheduleType DEF Core
  <1>4. Core'
    BY <1>2, <1>3, Whos DEF Core, States
  <1> QED
    BY <1>2, <1>4 DEF Rest

LEMMA TimerStep ==
    ASSUME TypeOK, HeartbeatDead \/ HeartbeatEnds \/ \E r \in outstanding : AckTimeout(r)
    PROVE  Core' /\ Rest'
  <1> USE Parts
  <1>1. ASSUME NEW by \in Callers, OnTransportClose(state, link, subs, task, by, 0) PROVE Core'
    BY <1>1, OnTransportCloseType, Whos DEF Core
  <1>2. CASE HeartbeatDead
    BY <1>1, <1>2 DEF HeartbeatDead, Callers, Rest
  <1>3. CASE HeartbeatEnds
    BY <1>3 DEF HeartbeatEnds, Core, Rest
  <1>4. CASE \E r \in outstanding : AckTimeout(r)
    BY <1>1, <1>4 DEF AckTimeout, Callers, Rest
  <1> QED
    BY <1>2, <1>3, <1>4

-----------------------------------------------------------------------------

\* Every step preserves the invariant.
LEMMA StepTypeOK == TypeOK /\ [Next]_vars => TypeOK'
  <1> SUFFICES ASSUME TypeOK, [Next]_vars PROVE TypeOK'
    OBVIOUS
  <1>1. CASE User
    BY <1>1, UserStep, Parts
  <1>2. CASE HandshakeOkInitial
    BY <1>2, HandshakeOkStep, Whos, Parts
  <1>3. ASSUME NEW t \in Tasks, Establish(t) PROVE TypeOK'
    BY <1>3, ConnectStep, HandshakeFailsStep, HandshakeOkStep, SendStep, ReplayStep, Parts DEF Establish
  <1>4. CASE Network
    <2>1. {"ok", "refused", "fatal", "timeout", "error"} \subseteq Futures
      BY DEF Futures
    <2>2. ASSUME NEW t \in Tasks, NEW v \in Futures, Answered(t, v) \/ Unanswered(t, v) PROVE TypeOK'
      BY <2>2, AnswerStep, Parts
    <2>3. ASSUME NEW r \in outstanding,
                 NEW v \in {"accepted", "rejected", "busy", "fatal", "too_old"}, HandleAck(r, v)
          PROVE  TypeOK'
      BY <2>3, AckStep, Parts
    <2>4. ASSUME NEW k \in Conns,
                 LinkFails(k) \/ PeerCloses(k) \/ ServerCloses(k) \/ ReaderNotices(k)
          PROVE  TypeOK'
      BY <2>4, LinkStep, Parts
    <2>5. ASSUME NEW c \in closers, CloseReturns(c) PROVE TypeOK'
      BY <2>5, CloseReturnsStep, Parts
    <2>6. CASE HeartbeatDead \/ HeartbeatEnds \/ \E r \in outstanding : AckTimeout(r)
      BY <2>6, TimerStep, Parts
    <2> QED
      BY <1>4, <2>1, <2>2, <2>3, <2>4, <2>5, <2>6 DEF Network
  <1>5. CASE UNCHANGED vars
    BY <1>5 DEF vars, TypeOK
  <1> QED
    BY <1>1, <1>2, <1>3, <1>4, <1>5 DEF Next

\* The types hold in every reachable state, whatever the topics, the bounds
\* and the environment.
THEOREM TypeCorrect == Spec => []TypeOK
  BY InitTypeOK, StepTypeOK, PTL DEF Spec

-----------------------------------------------------------------------------

\* No task that may assign _state unseen, and no abort on its way.
Quiet == /\ state \in Terminal /\ \A t \in Tasks : ~Alive(t)
         /\ \A c \in closers : c.kind # "fatal"

\* One step from a quiet terminal state stays in SHUTDOWN or FATAL: what is
\* left to run, back-offs, readers, timers, the heartbeat and the closings of
\* retries and of close(), looks at the state first.
LEMMA QuietStep ==
    ASSUME Next, Quiet
    PROVE  state' \in Terminal
  <1> USE DEF Quiet
  <1>1. ASSUME NEW lk, NEW sb, NEW tk, NEW by, NEW who, OnTransportClose(state, lk, sb, tk, by, who)
        PROVE  state' = state
    BY <1>1 DEF OnTransportClose
  <1>2. ASSUME NEW tk, NEW how, NEW by, NEW who, AbortToFatal(tk, how, by, who)
        PROVE  state' \in Terminal
    <2>1. state' = "FATAL" \/ state' = state
      BY <1>2, Zenon DEF AbortToFatal
    <2> QED
      BY <2>1 DEF Terminal
  <1>3. CASE User
    <2>1. ASSUME NEW q \in Topics, Subscribe(q) PROVE state' \in Terminal
      <3>1. CanSend \/ state # "READY"
        BY DEF Terminal
      <3> QED
        BY <2>1, <3>1 DEF Subscribe
    <2> QED
      BY <1>3, <2>1 DEF User, Connect, Close, Unsubscribe, EmergencyStopAcked, Terminal
  <1>4. CASE HandshakeOkInitial
    BY <1>4, Whos DEF HandshakeOkInitial, Alive
  <1>5. ASSUME NEW t \in Tasks, Establish(t) PROVE state' \in Terminal
    <2>1. task[t].pc \in {"none", "sleep", "closing"}
      BY DEF Alive
    <2>2. SleepEnds(t)
      BY <1>5, <2>1 DEF Establish, ConnectOk, ConnectFails, ConnectFatal, ConnectCrashes,
        HandshakeFails, HandshakeFatal, HandshakeOkAgain, SendNext, SendsDone, ReplayBegins,
        ReplayAcked, ReplayFailed, AbortBegins
    <2> QED
      BY <2>2 DEF SleepEnds, Terminal
  <1>6. CASE Network
    <2>1. ASSUME NEW r \in outstanding,
                 NEW v \in {"accepted", "rejected", "busy", "fatal", "too_old"}, HandleAck(r, v)
          PROVE  state' \in Terminal
      <3>1. ~(state = "RECONNECTING")
        BY DEF Terminal
      <3>2. MaybeFinishReconnect(state = "RECONNECTING") => state' = state
        BY <3>1, Zenon DEF MaybeFinishReconnect
      <3> QED
        BY <1>1, <1>2, <2>1, <3>1, <3>2 DEF HandleAck
    <2>2. ASSUME NEW c \in closers, CloseReturns(c) PROVE state' \in Terminal
      BY <2>2 DEF CloseReturns
    <2>3. ASSUME NEW k \in Conns,
                 LinkFails(k) \/ PeerCloses(k) \/ ServerCloses(k) \/ ReaderNotices(k)
          PROVE  state' \in Terminal
      BY <1>1, <2>3 DEF LinkFails, PeerCloses, ServerCloses, ReaderNotices, OnlyLink
    <2>4. ASSUME NEW t \in Tasks, NEW v, Answered(t, v) \/ Unanswered(t, v)
          PROVE  state' \in Terminal
      BY <2>4 DEF Answered, Unanswered
    <2>5. CASE HeartbeatDead \/ HeartbeatEnds \/ \E r \in outstanding : AckTimeout(r)
      BY <1>1, <2>5 DEF HeartbeatDead, HeartbeatEnds, AckTimeout
    <2> QED
      BY <1>6, <2>1, <2>2, <2>3, <2>4, <2>5 DEF Network
  <1> QED
    BY <1>3, <1>4, <1>5, <1>6 DEF Next

\* SHUTDOWN and FATAL are final once nothing is left over that assigns _state
\* without looking at it: this is all close() and _abort_to_fatal promise.
THEOREM TerminalStaysFinal == Spec => TerminalIsFinalOnceQuiet
  <1>1. [Next]_vars => [Quiet => state' \in Terminal]_vars
    BY QuietStep DEF vars
  <1> QED
    BY <1>1, PTL DEF Spec, TerminalIsFinalOnceQuiet, Quiet

-----------------------------------------------------------------------------
(***************************************************************************)
(* ReconnectIsPending is not inductive.  A heartbeat task that is inside   *)
(* ws.close() is cancelled by the next _start_heartbeat, and its retry may *)
(* go with it; so one must know that some other retry is under way then.   *)
(* Pending says why: no heartbeat runs while a reconnect is connecting or  *)
(* shaking hands, so a TRANSIENT_FAILURE that overtakes it was brought     *)
(* about by somebody else, whose closing or abort is still there.          *)
(***************************************************************************)


Leading      == {"sleep", "abort"}
Establishing(tk) == \E t \in Tasks : tk[t].pc \in {"connect", "handshake"}

Lead(cs) == {c \in cs : c.kind \in {"retry", "fatal"}}

\* The tasks tk or the closers cs lead out of TRANSIENT_FAILURE; and would even
\* with no heartbeat and no back-off.
Waits(tk, cs) == (\E t \in Tasks : tk[t].pc \in Leading) \/ Lead(cs) # {}
Sure(tk, cs)  == (\E t \in Tasks : tk[t].pc = "abort") \/ \E c \in Lead(cs) : c.by # "heartbeat"

Pending ==
    /\ state \in {"IDLE", "TRANSIENT_FAILURE"} => ~hb
    /\ state = "TRANSIENT_FAILURE" => Waits(task, closers)
    /\ Establishing(task) => ~hb
    /\ Establishing(task) /\ state = "TRANSIENT_FAILURE" => Sure(task, closers)

\* tk2 has no task connecting or shaking hands that tk has not.
NoNew(tk, tk2) == \A t \in Tasks : tk2[t].pc \in {"connect", "handshake"}
                                      => tk[t].pc \in {"connect", "handshake"}

-----------------------------------------------------------------------------
(* What kinds of steps do to Pending                                       *)

\* A step that enters no failure, starts no heartbeat and no reconnect, and in
\* TRANSIENT_FAILURE takes away nothing that leads on.
LEMMA Calm ==
    ASSUME Pending, NoNew(task, task'), hb' => hb,
           state' = state \/ state' \notin {"IDLE", "TRANSIENT_FAILURE"},
           state' = "TRANSIENT_FAILURE" =>
               /\ Lead(closers) \subseteq closers'
               /\ \A t \in Tasks : task[t].pc \in Leading => task'[t].pc = task[t].pc
    PROVE  Pending'
  <1>1. Establishing(task') => Establishing(task)
    BY DEF Establishing, NoNew
  <1>2. /\ state' \in {"IDLE", "TRANSIENT_FAILURE"} => ~hb'
        /\ Establishing(task') => ~hb'
    BY <1>1 DEF Pending
  <1>3. ASSUME state' = "TRANSIENT_FAILURE"
        PROVE  /\ Waits(task', closers')
               /\ Establishing(task') => Sure(task', closers')
    <2>1. state = "TRANSIENT_FAILURE" /\ Lead(closers) \subseteq Lead(closers')
      BY <1>3 DEF Lead
    <2>2. Waits(task, closers) /\ (Establishing(task) => Sure(task, closers))
      BY <2>1 DEF Pending
    <2> QED
      BY <1>1, <1>3, <2>1, <2>2 DEF Waits, Sure, Leading
  <1> QED
    BY <1>2, <1>3 DEF Pending

\* A retry that is scheduled leads on, and without a second reconnect it is an
\* abort when one is busy.
LEMMA ScheduleLeads ==
    ASSUME NEW tk \in Types, NEW s, s \notin Terminal, Schedule(s, tk),
           attempt \in 0..MaxAttempts, ~Twice'
    PROVE  /\ \E t \in Tasks : task'[t].pc \in Leading
           /\ Establishing(task') => \E t \in Tasks : task'[t].pc = "abort"
           /\ NoNew(tk, task')
  <1>1. PICK new \in {Aborter, Sleeper} : FreeTasks(tk) # {} /\ task' = Spawned(tk, new)
    BY DEF Schedule
  <1>2. /\ NextTask(tk) \in Tasks /\ task'[NextTask(tk)] = new
        /\ \A t \in Tasks : t # NextTask(tk) => task'[t].pc = tk[t].pc
    BY <1>1, NoTaskType, SpawnedType
  <1>3. Aborter.pc = "abort" /\ Sleeper.pc = "sleep"
    BY DEF Aborter, Sleeper, NoTask
  <1>4. new.pc \in Leading
    BY <1>3 DEF Leading
  <1>5. NoNew(tk, task')
    BY <1>2, <1>4 DEF NoNew, Leading
  <1>6. ASSUME NEW t \in Tasks, task'[t].pc \in {"connect", "handshake"}, new = Sleeper
        PROVE  FALSE
    BY <1>2, <1>3, <1>6 DEF Twice, Reconnecting
  <1> QED
    BY <1>1, <1>2, <1>3, <1>4, <1>5, <1>6 DEF Establishing

\* _on_transport_close: its retry is scheduled, or follows its closing.
LEMMA TransportCloseLeads ==
    ASSUME TypeOK, Pending, NEW lk, NEW sb, NEW tk \in Types, NEW by, NEW who,
           OnTransportClose(state, lk, sb, tk, by, who), NoNew(task, tk),
           by = "heartbeat" => hb, ~Twice'
    PROVE  Pending'
  <1>1. CASE state \in Terminal
    <2>1. task' = tk /\ state' = state /\ UNCHANGED hb
      BY <1>1 DEF OnTransportClose
    <2> QED
      BY <1>1, <2>1, Calm DEF Terminal
  <1>2. CASE state \notin Terminal
    <2>1. state' = "TRANSIENT_FAILURE" /\ ~hb'
      BY <1>2 DEF OnTransportClose
    <2>2. \/ Schedule("TRANSIENT_FAILURE", Failed(tk, "error"))
          \/ task' = Failed(tk, "error") /\ Closer("retry", by, who) \in closers'
      BY <1>2 DEF OnTransportClose
    <2>3. Failed(tk, "error") \in Types /\ \A t \in Tasks : Failed(tk, "error")[t].pc = tk[t].pc
      BY FailedType DEF Futures
    <2>4. CASE Schedule("TRANSIENT_FAILURE", Failed(tk, "error"))
      <3>1. /\ \E t \in Tasks : task'[t].pc \in Leading
            /\ Establishing(task') => \E t \in Tasks : task'[t].pc = "abort"
        BY <2>3, <2>4, ScheduleLeads DEF TypeOK, Terminal
      <3> QED
        BY <2>1, <3>1 DEF Pending, Waits, Sure
    <2>5. CASE task' = Failed(tk, "error") /\ Closer("retry", by, who) \in closers'
      <3>1. Closer("retry", by, who) \in Lead(closers') /\ Closer("retry", by, who).by = by
        BY <2>5 DEF Lead, Closer
      <3>2. by = "heartbeat" => ~Establishing(task')
        BY <2>3, <2>5 DEF Pending, Establishing, NoNew
      <3> QED
        BY <2>1, <3>1, <3>2 DEF Pending, Waits, Sure
    <2> QED
      BY <2>2, <2>4, <2>5
  <1> QED
    BY <1>1, <1>2

\* _abort_to_fatal: FATAL at once, or after its closing.
LEMMA AbortLeads ==
    ASSUME NEW tk, NEW how, NEW by, NEW who, AbortToFatal(tk, how, by, who), by # "heartbeat"
    PROVE  Pending'
  <1>1. ~hb'
    BY DEF AbortToFatal
  <1>2. CASE ws = 0
    BY <1>1, <1>2 DEF AbortToFatal, Pending
  <1>3. CASE ws # 0
    <2>1. Closer("fatal", by, who) \in closers'
      BY <1>3 DEF AbortToFatal
    <2>2. Closer("fatal", by, who) \in Lead(closers') /\ Closer("fatal", by, who).by = by
      BY <2>1 DEF Lead, Closer
    <2> QED
      BY <1>1, <2>2 DEF Pending, Waits, Sure
  <1> QED
    BY <1>2, <1>3

-----------------------------------------------------------------------------
(* The steps                                                               *)

LEMMA UserPending ==
    ASSUME TypeOK, Pending, User, ~Twice'
    PROVE  Pending'
  <1> USE DEF NoNew, Lead
  <1>1. CASE Connect
    <2>1. ~hb /\ state' = "CONNECTING" /\ UNCHANGED hb
      BY <1>1 DEF Connect, Pending
    <2> QED
      BY <2>1 DEF Pending
  <1>2. CASE Close
    BY <1>2 DEF Close, Pending
  <1>3. ASSUME NEW q \in Topics, Subscribe(q) PROVE Pending'
    <2>1. CASE state # "READY" \/ CanSend
      BY <1>3, <2>1, Calm DEF Subscribe
    <2>2. CASE ~(state # "READY" \/ CanSend)
      BY <1>3, <2>2, TransportCloseLeads DEF Subscribe, TypeOK, Types
    <2> QED
      BY <2>1, <2>2
  <1>4. ASSUME NEW q \in Topics, Unsubscribe(q) PROVE Pending'
    BY <1>4, Calm, OrphanedType DEF Unsubscribe, TypeOK, Types
  <1>5. ASSUME NEW engage \in BOOLEAN, EmergencyStopAcked(engage) PROVE Pending'
    BY <1>5, Calm DEF EmergencyStopAcked
  <1> QED
    BY <1>1, <1>2, <1>3, <1>4, <1>5 DEF User

\* Connecting: the end of a back-off starts from TRANSIENT_FAILURE, where no
\* heartbeat runs; nor does one while the task connects.
LEMMA ConnectPending ==
    ASSUME TypeOK, Pending, NEW t \in Tasks, ~Twice',
           SleepEnds(t) \/ ConnectOk(t) \/ ConnectFails(t) \/ ConnectFatal(t) \/ ConnectCrashes(t)
    PROVE  Pending'
  <1> USE DEF NoNew, Lead
  <1>1. task \in Types /\ attempt \in 0..MaxAttempts
    BY DEF TypeOK, Types
  <1>2. CASE SleepEnds(t)
    <2>1. CASE state # "TRANSIENT_FAILURE"
      BY <1>1, <1>2, <2>1, Calm DEF SleepEnds, Types, NoTask
    <2>2. CASE state = "TRANSIENT_FAILURE"
      BY <1>2, <2>2 DEF SleepEnds, Pending
    <2> QED
      BY <2>1, <2>2
  <1>3. CASE ConnectOk(t)
    BY <1>1, <1>3, Calm DEF ConnectOk, Types, TaskRecs, Leading
  <1>4. CASE ConnectFails(t)
    <2>1. [task EXCEPT ![t] = NoTask] \in Types
      BY <1>1, NoTaskType DEF Types
    <2>2. ~hb
      BY <1>4 DEF ConnectFails, Pending, Establishing
    <2>3. /\ \E u \in Tasks : task'[u].pc \in Leading
          /\ Establishing(task') => \E u \in Tasks : task'[u].pc = "abort"
      BY <1>1, <1>4, <2>1, ScheduleLeads DEF ConnectFails, Terminal
    <2> QED
      BY <1>4, <2>2, <2>3 DEF ConnectFails, Pending, Waits, Sure
  <1>5. CASE ConnectFatal(t)
    BY <1>5, AbortLeads DEF ConnectFatal
  <1>6. CASE ConnectCrashes(t)
    BY <1>1, <1>6, Calm DEF ConnectCrashes, Types, NoTask, Leading
  <1> QED
    BY <1>2, <1>3, <1>4, <1>5, <1>6

\* A failed handshake leads on; a good one is the only reconnect, so none is
\* left that a heartbeat could disturb, and a failure that overtook it is Sure.
LEMMA HandshakePending ==
    ASSUME TypeOK, Pending, NEW t \in Tasks, ~Twice, ~Twice',
           HandshakeFails(t) \/ HandshakeFatal(t) \/ HandshakeOkAgain(t)
               \/ (HandshakeOkInitial /\ t = 0)
    PROVE  Pending'
  <1> USE DEF NoNew, Lead
  <1>1. task \in Types /\ attempt \in 0..MaxAttempts
    BY DEF TypeOK, Types
  <1>2. CASE HandshakeFatal(t)
    BY <1>2, AbortLeads DEF HandshakeFatal
  <1>3. CASE HandshakeFails(t)
    <2>1. ~hb'
      BY <1>3 DEF HandshakeFails, Pending, Establishing
    <2>2. CASE ws = 0
      <3>1. [task EXCEPT ![t] = NoTask] \in Types
        BY <1>1, NoTaskType DEF Types
      <3>2. /\ \E u \in Tasks : task'[u].pc \in Leading
            /\ Establishing(task') => \E u \in Tasks : task'[u].pc = "abort"
        BY <1>1, <1>3, <2>2, <3>1, ScheduleLeads DEF HandshakeFails, Terminal
      <3> QED
        BY <2>1, <3>2 DEF Pending, Waits, Sure
    <2>3. CASE ws # 0
      <3>1. Closer("retry", "task", t) \in Lead(closers') /\ Closer("retry", "task", t).by = "task"
        BY <1>3, <2>3 DEF HandshakeFails, Closer
      <3> QED
        BY <2>1, <3>1 DEF Pending, Waits, Sure
    <2> QED
      BY <2>2, <2>3
  <1>4. ASSUME HandshakeOkAgain(t) \/ (HandshakeOkInitial /\ t = 0) PROVE Pending'
    <2>1. task[t].pc = "handshake"
      BY <1>4 DEF HandshakeOkAgain, HandshakeOkInitial
    <2>2. /\ \A u \in Tasks : u # t => task'[u] = task[u]
          /\ task'[t].pc \notin {"connect", "handshake"}
      <3> DEFINE resub == [NoTask EXCEPT !.pc = "resub", !.todo = SlotItems, !.latest = task[t].latest]
                 flush == [NoTask EXCEPT !.pc = "flush", !.todo = SlotItems]
      <3>1. resub.pc = "resub" /\ flush.pc = "flush" /\ NoTask.pc = "none"
        BY DEF NoTask
      <3>2. \E new \in {resub, flush, NoTask} : task' = [task EXCEPT ![t] = new]
        BY <1>4, Zenon DEF HandshakeOkAgain, HandshakeOkInitial
      <3> HIDE DEF resub, flush
      <3> QED
        BY <1>1, <3>1, <3>2 DEF Types
    <2>3. ~Establishing(task')
      BY <2>1, <2>2 DEF Establishing, Twice, Reconnecting
    <2>4. state' = "READY" \/ (UNCHANGED state /\ hb' = (state = "READY"))
      BY <1>4, Zenon DEF HandshakeOkAgain, HandshakeOkInitial, ReadyAgain
    <2>5. ASSUME state = "TRANSIENT_FAILURE" PROVE Waits(task', closers')
      <3>1. Sure(task, closers)
        BY <2>1, <2>5 DEF Pending, Establishing
      <3>2. StartHeartbeat
        BY <1>4 DEF HandshakeOkAgain, HandshakeOkInitial
      <3>3. \A c \in closers : c.by # "heartbeat" => c \in closers'
        BY <3>2 DEF StartHeartbeat, HeartbeatClosers
      <3> QED
        BY <2>1, <2>2, <3>1, <3>3 DEF Waits, Sure, Leading
    <2> QED
      BY <2>3, <2>4, <2>5 DEF Pending
  <1> QED
    BY <1>2, <1>3, <1>4

-----------------------------------------------------------------------------

LEMMA RestorePending ==
    ASSUME TypeOK, Pending, NEW t \in Tasks, ~Twice',
           SendNext(t) \/ SendsDone(t) \/ ReplayBegins(t) \/ ReplayAcked(t)
               \/ ReplayFailed(t) \/ AbortBegins(t)
    PROVE  Pending'
  <1> USE DEF NoNew, Lead
  <1>1. task \in Types /\ NoTask.pc = "none"
    BY DEF TypeOK, Types, NoTask
  <1>2. EndedBy(t) \in Types /\ NoNew(task, EndedBy(t))
    BY <1>1, EndedByType DEF EndedBy, Types, NoTask
  <1>3. CASE SendNext(t)
    <2> DEFINE rest(x)  == [task EXCEPT ![t].todo = @ \ {x}]
    <2>1. PICK x \in task[t].todo :
            \/ task' = rest(x) /\ UNCHANGED <<state, hb, closers>>
            \/ \E sb : OnTransportClose(state, link, sb, rest(x), "task", t)
      BY <1>3, Zenon DEF SendNext
    <2>2. rest(x) \in Types /\ \A u \in Tasks : rest(x)[u].pc = task[u].pc
      BY <1>1 DEF Types, TaskRecs
    <2> HIDE DEF rest
    <2> QED
      BY <2>1, <2>2, Calm, TransportCloseLeads
  <1>4. CASE SendsDone(t)
    BY <1>1, <1>4, Calm DEF SendsDone, Types, Leading
  <1>5. CASE ReplayBegins(t)
    <2>1. CASE CanSend
      BY <1>1, <1>5, <2>1, Calm DEF ReplayBegins, Types, TaskRecs, Leading
    <2>2. CASE ~CanSend
      BY <1>2, <1>5, <2>2, TransportCloseLeads DEF ReplayBegins
    <2> QED
      BY <2>1, <2>2
  <1>6. CASE ReplayAcked(t)
    BY <1>1, <1>6, Calm DEF ReplayAcked, ReadyAgain, Types, Leading
  <1>7. CASE ReplayFailed(t)
    BY <1>2, <1>7, TransportCloseLeads DEF ReplayFailed
  <1>8. CASE AbortBegins(t)
    BY <1>8, AbortLeads DEF AbortBegins
  <1> QED
    BY <1>3, <1>4, <1>5, <1>6, <1>7, <1>8

LEMMA AckPending ==
    ASSUME TypeOK, Pending, ~Twice', NEW r \in outstanding,
           NEW v \in {"accepted", "rejected", "busy", "fatal", "too_old"}, HandleAck(r, v)
    PROVE  Pending'
  <1> USE DEF NoNew, Lead
  <1>1. task \in Types
    BY DEF TypeOK, Types
  <1>2. \A b : MaybeFinishReconnect(b) => state' \in {state, "READY"}
    BY Zenon DEF MaybeFinishReconnect, ReadyAgain
  <1>3. \/ OnTransportClose(state, link, subs, task, "reader", r.conn)
        \/ AbortToFatal(task, "fatal", "reader", r.conn)
        \/ /\ state' \in {state, "READY"} /\ UNCHANGED <<closers, hb>>
           /\ task' = task \/ task' = Orphaned(task, {r.topic})
    BY <1>2 DEF HandleAck
  <1>4. \A u \in Tasks : Orphaned(task, {r.topic})[u].pc = task[u].pc
    BY <1>1, OrphanedType
  <1> QED
    BY <1>1, <1>3, <1>4, Calm, AbortLeads, TransportCloseLeads

LEMMA CloseReturnsPending ==
    ASSUME TypeOK, Pending, ~Twice', NEW c \in closers, CloseReturns(c)
    PROVE  Pending'
  <1> USE DEF NoNew, Lead
  <1>1. task \in Types /\ attempt \in 0..MaxAttempts /\ NoTask \in TaskRecs /\ NoTask.pc = "none"
    BY NoTaskType DEF TypeOK, Types, NoTask
  <1> DEFINE ended == [t \in Tasks |-> IF c.by = "task" /\ c.who = t /\ task[t].pc = "closing"
                                       THEN NoTask ELSE task[t]]
  <1>2. /\ closers' = closers \ {c} /\ UNCHANGED hb
        /\ IF c.kind = "retry" THEN Schedule(state, ended) ELSE task' = ended
        /\ state' = IF c.kind = "fatal" THEN "FATAL" ELSE state
    BY DEF CloseReturns
  <1>3. ended \in Types
    BY <1>1 DEF Types
  <1>4. \A t \in Tasks : \/ ended[t] = task[t]
                         \/ task[t].pc = "closing" /\ ended[t].pc = "none"
    BY <1>1
  <1>5. NoNew(task, ended) /\ \A t \in Tasks : task[t].pc \in Leading => ended[t].pc = task[t].pc
    BY <1>4 DEF Leading
  <1> HIDE DEF ended
  <1>6. CASE c.kind = "retry" /\ state \notin Terminal
    <2>1. /\ \E t \in Tasks : task'[t].pc \in Leading
          /\ Establishing(task') => \E t \in Tasks : task'[t].pc = "abort"
          /\ NoNew(ended, task')
      BY <1>1, <1>2, <1>3, <1>6, ScheduleLeads
    <2>2. Establishing(task') => Establishing(task)
      BY <1>5, <2>1 DEF Establishing
    <2> QED
      BY <1>2, <1>6, <2>1, <2>2 DEF Pending, Waits, Sure
  <1>7. CASE ~(c.kind = "retry" /\ state \notin Terminal)
    <2>1. task' = ended
      BY <1>2, <1>7 DEF Schedule
    <2>2. state' = "TRANSIENT_FAILURE" => c.kind \notin {"retry", "fatal"}
      BY <1>2, <1>7 DEF Terminal
    <2>3. state' = state \/ state' \notin {"IDLE", "TRANSIENT_FAILURE"}
      BY <1>2
    <2> QED
      BY <1>2, <1>5, <2>1, <2>2, <2>3, Calm
  <1> QED
    BY <1>6, <1>7

LEMMA NetworkPending ==
    ASSUME TypeOK, Pending, ~Twice', Network
    PROVE  Pending'
  <1> USE DEF NoNew, Lead
  <1>1. task \in Types
    BY DEF TypeOK, Types
  <1>2. ASSUME NEW t \in Tasks, NEW v, Answered(t, v) \/ Unanswered(t, v) PROVE Pending'
    BY <1>1, <1>2, Calm DEF Answered, Unanswered, Types, TaskRecs
  <1>3. ASSUME NEW k \in Conns,
               LinkFails(k) \/ PeerCloses(k) \/ ServerCloses(k) \/ ReaderNotices(k)
        PROVE  Pending'
    <2>1. CASE OnlyLink
      BY <2>1, Calm DEF OnlyLink
    <2>2. CASE ReaderNotices(k)
      BY <1>1, <2>2, TransportCloseLeads DEF ReaderNotices
    <2> QED
      BY <1>3, <2>1, <2>2 DEF LinkFails, PeerCloses, ServerCloses
  <1>4. CASE HeartbeatDead
    BY <1>1, <1>4, TransportCloseLeads DEF HeartbeatDead
  <1>5. CASE HeartbeatEnds
    BY <1>5, Calm DEF HeartbeatEnds
  <1>6. ASSUME NEW r \in outstanding, AckTimeout(r) PROVE Pending'
    BY <1>1, <1>6, TransportCloseLeads DEF AckTimeout
  <1> QED
    BY <1>2, <1>3, <1>4, <1>5, <1>6, AckPending, CloseReturnsPending DEF Network

-----------------------------------------------------------------------------

HInv == /\ TypeOK /\ doubled \in BOOLEAN
        /\ ~doubled => ~Twice /\ Pending

LEMMA InitHInv == HInit => HInv
  <1> SUFFICES ASSUME HInit PROVE HInv
    OBVIOUS
  <1>1. TypeOK
    BY InitTypeOK DEF HInit
  <1>2. \A t \in Tasks : task[t].pc = "none"
    BY DEF HInit, Init, NoTask
  <1>3. ~hb /\ state = "IDLE" /\ doubled \in BOOLEAN
    BY DEF HInit, Init
  <1> QED
    BY <1>1, <1>2, <1>3 DEF HInv, Twice, Reconnecting, Pending, Establishing

LEMMA StepHInv == HInv /\ [HNext]_hvars => HInv'
  <1> SUFFICES ASSUME HInv, [HNext]_hvars PROVE HInv'
    OBVIOUS
  <1>1. CASE HNext
    <2>1. TypeOK' /\ doubled' \in BOOLEAN
      BY <1>1, StepTypeOK DEF HNext, HInv
    <2>2. ASSUME ~doubled' PROVE ~Twice' /\ Pending'
      <3>1. TypeOK /\ ~Twice /\ ~Twice' /\ Pending /\ Next
        BY <1>1, <2>2 DEF HNext, HInv
      <3>2. ASSUME NEW t \in Tasks, Establish(t) PROVE Pending'
        BY <3>1, <3>2, ConnectPending, HandshakePending, RestorePending DEF Establish
      <3>3. CASE HandshakeOkInitial
        BY <3>1, <3>3, HandshakePending, Whos
      <3> QED
        BY <3>1, <3>2, <3>3, UserPending, NetworkPending DEF Next
    <2> QED
      BY <2>1, <2>2 DEF HInv
  <1>2. CASE UNCHANGED hvars
    <2>1. TypeOK'
      BY <1>2, StepTypeOK DEF hvars, HInv
    <2>2. UNCHANGED <<state, hb, task, closers, doubled>>
      BY <1>2 DEF hvars, vars
    <2> QED
      BY <2>1, <2>2 DEF HInv, Twice, Reconnecting, Pending
  <1> QED
    BY <1>1, <1>2

LEMMA PendingSuffices == HInv => ReconnectIsPending
  BY DEF HInv, Pending, ReconnectIsPending, Waits, Lead, Leading

\* RobotImpl never sits in TRANSIENT_FAILURE with nothing on its way that ends
\* it: as long as no two reconnects ran at once, no interleaving of losses,
\* failing handshakes, timers, cancellations, closings and aborts loses the
\* retry.
THEOREM RetryNeverLost == HSpec => []ReconnectIsPending
  BY InitHInv, StepHInv, PendingSuffices, PTL DEF HSpec

-----------------------------------------------------------------------------
(***************************************************************************)
(* OneConnection and DownMeansPaused.  The heart of the argument is that a *)
(* back-off ends only when nothing is left of the connection before: _ws   *)
(* is None while a reconnect sleeps, so every closing that is under way    *)
(* belongs to a connection that has ended, and has returned, with the task *)
(* behind it, before the loop comes to the timer.                          *)
(***************************************************************************)

Restorers(tk)  == {t \in Tasks : tk[t].pc \in {"flush", "resub", "rnew", "rwait"}}
NoneActive(sb) == \A q \in Topics : sb[q] # "ACTIVE"
AllClosed(lk)  == \A k \in Conns : lk[k] = "closed"

\* Before connect() there is nothing.
Untouched ==
    state = "IDLE" =>
        /\ ws = 0 /\ AllClosed(link) /\ closers = {} /\ outstanding = {} /\ NoneActive(subs)
        /\ \A t \in Tasks : task[t].pc \in {"none", "closing"}

\* No connection but _ws is open or closing, nor, while there is one, lost and
\* not noticed.
OneLink ==
    /\ ws = 0 => \A k \in Conns : link[k] \in {"lost", "closed"}
    /\ ws # 0 => \A k \in Conns : k # ws => link[k] = "closed"

\* What is being closed is not open and was _ws, and a reader closes its own.
ClosingOwn ==
    \A c \in closers : /\ ws \in {0, c.conn} /\ link[c.conn] # "up"
                       /\ c.by = "reader" => c.who = c.conn

Down == state = "TRANSIENT_FAILURE" => ~CanSend /\ outstanding = {} /\ NoneActive(subs)

\* A back-off waits with no connection, and a task connects with nothing left
\* of the one before.
Asleep == \A t \in Tasks : task[t].pc \in {"sleep", "connect"} => ws = 0
Dialling ==
    (\E t \in Tasks : task[t].pc = "connect") =>
        /\ closers = {} /\ AllClosed(link) /\ state # "TRANSIENT_FAILURE"
        /\ \A t \in Tasks : task[t].pc # "abort"

\* While a task connects or shakes hands, none restores.
Fresh ==
    Establishing(task) =>
        Restorers(task) = {} /\ outstanding = {} /\ NoneActive(subs) /\ state # "READY"

\* A replay that waits for its answer waits on an open connection.
Replaying ==
    \A t \in Tasks : task[t].pc = "rwait" =>
        task[t].fut # "none" /\ (task[t].fut = "wait" => ws # 0 /\ closers = {})

Sent == /\ closers # {} => outstanding = {}
        /\ \A r \in outstanding : r.conn = ws

One == Untouched /\ OneLink /\ ClosingOwn /\ Down /\ Asleep /\ Dialling /\ Fresh /\ Replaying /\ Sent

-----------------------------------------------------------------------------
(* What kinds of steps do to One                                           *)

\* Task t of tk2 is that of tk, perhaps with an answer, or does nothing more.
ThinAt(tk, tk2, t) ==
    \/ tk2[t].pc \in {"none", "closing"}
    \/ tk2[t].pc = tk[t].pc /\ (tk2[t].fut = tk[t].fut \/ tk2[t].fut \notin {"none", "wait"})
Thins(tk, tk2) == \A t \in Tasks : ThinAt(tk, tk2, t)

\* No replay is left that waits.
NoneWaits(tk) == \A t \in Tasks : tk[t].pc = "rwait" => tk[t].fut # "wait"

\* No connection comes up, and what is closed stays so.
Settles(lk, lk2) ==
    \A k \in Conns : \/ lk2[k] = lk[k]
                     \/ lk2[k] = "closing" /\ lk[k] = "up"
                     \/ lk2[k] \in {"lost", "closed"} /\ lk[k] # "closed"

\* No closing is new, but another may own it.
Shrinks(cs) == \A c \in cs : \E d \in closers : /\ c.conn = d.conn
                                                /\ c.by = "reader" => d.by = "reader" /\ c.who = d.who

NoNewActive == \A q \in Topics : subs'[q] = "ACTIVE" => subs[q] = "ACTIVE"

LEMMA ConnsFrom == \A k \in 0..MaxConn : k # 0 => k \in Conns
  BY BoundsAssumption DEF Conns

LEMMA ThinsTransitive ==
    ASSUME NEW tk, NEW tk2, NEW tk3, Thins(tk, tk2), Thins(tk2, tk3)
    PROVE  Thins(tk, tk3)
  BY DEF Thins, ThinAt

LEMMA FailedThins ==
    ASSUME NEW tk \in Types, NEW how \in Futures \ {"none", "wait"}
    PROVE  Thins(tk, Failed(tk, how)) /\ NoneWaits(Failed(tk, how))
  BY DEF Failed, Thins, ThinAt, NoneWaits, Types, TaskRecs

LEMMA OrphanedThins ==
    ASSUME NEW tk \in Types, NEW Q
    PROVE  /\ Thins(tk, Orphaned(tk, Q))
           /\ NoneWaits(tk) => NoneWaits(Orphaned(tk, Q))
  <1> DEFINE Mark(S) == {IF x.topic \in Q THEN [x EXCEPT !.alive = FALSE] ELSE x : x \in S}
  <1>1. Orphaned(tk, Q) = [t \in Tasks |-> [tk[t] EXCEPT !.todo = Mark(tk[t].todo)]]
    BY DEF Orphaned
  <1> HIDE DEF Mark
  <1>2. \A t \in Tasks : tk[t] \in TaskRecs
    BY DEF Types
  <1>3. \A t \in Tasks : /\ Orphaned(tk, Q)[t].pc = tk[t].pc
                         /\ Orphaned(tk, Q)[t].fut = tk[t].fut
    BY <1>1, <1>2 DEF TaskRecs
  <1> QED
    BY <1>3 DEF Thins, ThinAt, NoneWaits

LEMMA CancelledThins ==
    ASSUME NEW tk \in Types, NEW ending
    PROVE  /\ Thins(tk, Cancelled(tk, ending))
           /\ NoneWaits(tk) => NoneWaits(Cancelled(tk, ending))
  <1>1. NoTask.pc = "none" /\ NoTask.fut = "none"
    BY DEF NoTask
  <1>2. \A t \in Tasks : Cancelled(tk, ending)[t] \in {NoTask, tk[t]}
    BY DEF Cancelled
  <1> QED
    BY <1>1, <1>2 DEF Thins, ThinAt, NoneWaits

LEMMA EndedByThins ==
    ASSUME task \in Types, NEW t \in Tasks
    PROVE  /\ Thins(task, EndedBy(t)) /\ Thins(task, [task EXCEPT ![t] = NoTask])
           /\ EndedBy(t)[t].pc \in {"none", "closing"}
           /\ \A u \in Tasks : u # t => EndedBy(t)[u] = task[u]
  BY DEF EndedBy, Thins, ThinAt, NoTask, Types

\* A retry that is scheduled is a back-off or an abort, in a task of its own.
LEMMA ScheduleLed ==
    ASSUME NEW tk \in Types, NEW s, Schedule(s, tk), Thins(task, tk),
           attempt \in 0..MaxAttempts
    PROVE  /\ \A t \in Tasks : ThinAt(task, task', t) \/ task'[t].pc \in {"sleep", "abort"}
           /\ NoneWaits(tk) => NoneWaits(task')
           /\ \A t \in Tasks : task'[t].pc = tk[t].pc \/ task'[t].pc \in {"sleep", "abort"}
  <1>1. CASE s \in Terminal
    BY <1>1 DEF Schedule, Thins
  <1>2. CASE s \notin Terminal
    <2>1. PICK new \in {Aborter, Sleeper} : FreeTasks(tk) # {} /\ task' = Spawned(tk, new)
      BY <1>2 DEF Schedule
    <2>2. new \in TaskRecs /\ new.pc \in {"sleep", "abort"} /\ new.fut = "none"
      BY NoTaskType DEF Aborter, Sleeper, NoTask
    <2>3. task'[NextTask(tk)] = new
      BY <2>1, <2>2, SpawnedType
    <2>4. \A t \in Tasks : t # NextTask(tk) => task'[t].pc = tk[t].pc /\ task'[t].fut = tk[t].fut
      <3>1. \A t \in Tasks : tk[t] \in TaskRecs
        BY DEF Types
      <3>2. \A t \in Tasks : t # NextTask(tk) => task'[t] \in {tk[t], [tk[t] EXCEPT !.latest = FALSE]}
        BY <2>1 DEF Spawned
      <3> QED
        BY <3>1, <3>2 DEF TaskRecs
    <2> QED
      BY <2>2, <2>3, <2>4 DEF Thins, ThinAt, NoneWaits
  <1> QED
    BY <1>1, <1>2

\* A step that brings up no connection, schedules nothing and gives nothing up:
\* what is new restores, or aborts, when no reconnect is under way.
LEMMA Goes ==
    ASSUME TypeOK, One, UNCHANGED ws, Settles(link, link'), Shrinks(closers'), NoNewActive \/ outstanding # {},
           state' = state \/ state' \in Terminal \/ (state' = "READY" /\ ~Establishing(task')),
           \A r \in outstanding' : r.conn = ws,
           outstanding' = {} \/ outstanding # {} \/ (CanSend /\ ~Establishing(task)),
           \/ Thins(task, task')
           \/ /\ state # "IDLE" /\ ~Establishing(task')
              /\ \A t \in Tasks : \/ ThinAt(task, task', t)
                                  \/ task'[t].pc \in {"flush", "resub", "rnew", "abort"}
                                  \/ task'[t].pc = "rwait" /\ task'[t].fut # "none" /\ CanSend
    PROVE  One'
  <1> USE DEF One
  <1>1. Establishing(task') => Establishing(task) /\ Thins(task, task')
    BY DEF Establishing, Thins, ThinAt
  <1>2. CanSend => closers = {} /\ state \notin {"IDLE", "TRANSIENT_FAILURE"}
    <2>1. CanSend => closers = {}
      BY DEF CanSend, ClosingOwn
    <2> QED
      BY <2>1 DEF CanSend, Untouched, Down
  <1>3. outstanding # {} => /\ state \notin {"IDLE", "TRANSIENT_FAILURE"} /\ ~Establishing(task)
                            /\ closers = {}
    BY DEF Untouched, Down, Fresh, Sent
  <1>4. closers = {} => closers' = {}
    BY DEF Shrinks
  <1>5. state' = "IDLE" => state = "IDLE"
    BY DEF Terminal
  <1>6. state' = "TRANSIENT_FAILURE" => state = "TRANSIENT_FAILURE"
    BY DEF Terminal
  <1>7. AllClosed(link) => AllClosed(link')
    BY DEF AllClosed, Settles
  <1>8. outstanding' = {} \/ outstanding # {} \/ (CanSend /\ ~Establishing(task))
    OBVIOUS
  <1>9. Untouched'
    <2>1. CASE state = "IDLE" /\ Thins(task, task')
      BY <1>2, <1>3, <1>4, <1>7, <2>1 DEF Untouched, Thins, ThinAt, NoneActive, NoNewActive
    <2>2. CASE state # "IDLE"
      BY <1>5, <2>2 DEF Untouched
    <2> QED
      BY <2>1, <2>2
  <1>10. OneLink'
    BY DEF OneLink, Settles
  <1>11. ClosingOwn'
    <2> SUFFICES ASSUME NEW c \in closers'
                 PROVE  /\ ws \in {0, c.conn} /\ link'[c.conn] # "up"
                        /\ c.by = "reader" => c.who = c.conn
      BY DEF ClosingOwn
    <2>1. PICK d \in closers : /\ c.conn = d.conn
                               /\ c.by = "reader" => d.by = "reader" /\ c.who = d.who
      BY DEF Shrinks
    <2>2. /\ ws \in {0, d.conn} /\ link[d.conn] # "up" /\ (d.by = "reader" => d.who = d.conn)
      BY DEF ClosingOwn
    <2>3. d.conn \in Conns
      BY DEF TypeOK, CloserRecs
    <2>4. link'[d.conn] # "up"
      BY <2>2, <2>3 DEF Settles
    <2> QED
      BY <2>1, <2>2, <2>4
  <1>12. Down'
    <2>1. CanSend' => CanSend
      BY ConnsFrom DEF CanSend, Settles, TypeOK
    <2> QED
      BY <1>2, <1>3, <1>6, <2>1 DEF Down, NoneActive, NoNewActive
  <1>13. Asleep'
    BY DEF Asleep, Thins, ThinAt
  <1>14. Dialling'
    <2> SUFFICES ASSUME \E t \in Tasks : task'[t].pc = "connect"
                 PROVE  /\ closers' = {} /\ AllClosed(link') /\ state' # "TRANSIENT_FAILURE"
                        /\ \A t \in Tasks : task'[t].pc # "abort"
      BY DEF Dialling
    <2>1. Thins(task, task')
      BY <1>1 DEF Establishing
    <2>2. \E t \in Tasks : task[t].pc = "connect"
      BY <2>1 DEF Thins, ThinAt
    <2> QED
      BY <1>4, <1>6, <1>7, <2>1, <2>2 DEF Dialling, Thins, ThinAt
  <1>15. Fresh'
    <2> SUFFICES ASSUME Establishing(task')
                 PROVE  Restorers(task') = {} /\ outstanding' = {} /\ NoneActive(subs') /\ state' # "READY"
      BY DEF Fresh
    <2>1. Restorers(task) = {} /\ outstanding = {} /\ NoneActive(subs) /\ state # "READY"
      BY <1>1 DEF Fresh
    <2>2. Restorers(task') = {}
      BY <1>1, <2>1 DEF Restorers, Thins, ThinAt
    <2> QED
      BY <1>1, <2>1, <2>2 DEF NoneActive, NoNewActive, Terminal
  <1>16. Replaying'
    BY <1>2, <1>4 DEF Replaying, Thins, ThinAt, CanSend
  <1>17. Sent'
    BY <1>2, <1>3, <1>4 DEF Sent
  <1> QED
    BY <1>9, <1>10, <1>11, <1>12, <1>13, <1>14, <1>15, <1>16, <1>17

\* A step that gives the connection up and waits in ws.close(), if there is one.
LEMMA GivesUp ==
    ASSUME TypeOK, One, UNCHANGED ws, Settles(link, link'), Thins(task, task'), NoneWaits(task'),
           outstanding' = {}, NoneActive(subs'), state' \in {state, "TRANSIENT_FAILURE"} \cup Terminal,
           ws = 0 => closers' \subseteq closers /\ state' # "TRANSIENT_FAILURE",
           ws # 0 => link'[ws] # "up",
           NEW kind, NEW by, NEW who, by = "reader" => who = ws \/ ws = 0,
           ws # 0 => closers' \subseteq closers \cup {Closer(kind, by, who)}
    PROVE  One'
  <1> USE DEF One
  <1>0. closers \subseteq CloserRecs
    BY DEF TypeOK
  <1>1. Establishing(task') => Establishing(task)
    BY DEF Establishing, Thins, ThinAt
  <1>2. ws # 0 => state # "IDLE"
    BY DEF Untouched
  <1>3. AllClosed(link) => AllClosed(link')
    BY DEF AllClosed, Settles
  <1>4. ws = 0 /\ closers = {} => closers' = {}
    OBVIOUS
  <1>5. Untouched'
    BY <1>2, <1>3, <1>4 DEF Untouched, Thins, ThinAt, Terminal
  <1>6. OneLink'
    BY DEF OneLink, Settles
  <1>7. ClosingOwn'
    <2>1. ASSUME NEW c \in closers' \cap closers
          PROVE  /\ ws \in {0, c.conn} /\ link'[c.conn] # "up"
                 /\ c.by = "reader" => c.who = c.conn
      <3>1. c.conn \in Conns
        BY <1>0 DEF CloserRecs
      <3> QED
        BY <3>1 DEF ClosingOwn, Settles
    <2>2. ASSUME NEW c \in closers', c \notin closers
          PROVE  /\ ws \in {0, c.conn} /\ link'[c.conn] # "up"
                 /\ c.by = "reader" => c.who = c.conn
      BY <2>2 DEF Closer
    <2> QED
      BY <2>1, <2>2 DEF ClosingOwn
  <1>8. Down'
    BY DEF Down, CanSend
  <1>9. Asleep'
    BY DEF Asleep, Thins, ThinAt
  <1>10. Dialling'
    <2> SUFFICES ASSUME NEW t \in Tasks, task'[t].pc = "connect"
                 PROVE  /\ closers' = {} /\ AllClosed(link') /\ state' # "TRANSIENT_FAILURE"
                        /\ \A u \in Tasks : task'[u].pc # "abort"
      BY DEF Dialling
    <2>1. task[t].pc = "connect" /\ ws = 0
      BY DEF Thins, ThinAt, Asleep
    <2> QED
      BY <1>3, <1>4, <2>1 DEF Dialling, Thins, ThinAt, Terminal
  <1>11. Fresh'
    BY <1>1 DEF Fresh, Restorers, Thins, ThinAt, Terminal
  <1>12. Replaying'
    BY DEF Replaying, Thins, ThinAt, NoneWaits
  <1>13. Sent'
    BY DEF Sent
  <1> QED
    BY <1>5, <1>6, <1>7, <1>8, <1>9, <1>10, <1>11, <1>12, <1>13

\* A step that leaves _ws None, and a retry or an abort to come, perhaps.
LEMMA Retries ==
    ASSUME One, ws' = 0, Settles(link, link'), closers' \subseteq closers,
           \A k \in Conns : link'[k] \in {"lost", "closed"},
           \A c \in closers' : c.conn \in Conns,
           outstanding' = {}, NoNewActive, NoneWaits(task'),
           state' = "TRANSIENT_FAILURE" => NoneActive(subs'), state' # "IDLE",
           state' = "READY" => state = "READY",
           \A t \in Tasks : ThinAt(task, task', t) \/ task'[t].pc \in {"sleep", "abort"},
           \A t \in Tasks : task'[t].pc # "connect"
    PROVE  One'
  <1> USE DEF One
  <1>1. Establishing(task') => Establishing(task)
    BY DEF Establishing, ThinAt
  <1>2. Untouched' /\ Asleep' /\ Dialling' /\ Sent'
    BY DEF Untouched, Asleep, Dialling, Sent
  <1>3. OneLink'
    BY DEF OneLink
  <1>4. ClosingOwn'
    BY DEF ClosingOwn
  <1>5. Down'
    BY DEF Down, CanSend
  <1>6. Fresh'
    BY <1>1 DEF Fresh, Restorers, ThinAt, NoNewActive, NoneActive
  <1>7. Replaying'
    BY DEF Replaying, ThinAt, NoneWaits
  <1> QED
    BY <1>2, <1>3, <1>4, <1>5, <1>6, <1>7

\* _on_transport_close, while no task connects.
LEMMA TransportCloseOne ==
    ASSUME TypeOK, One, NEW lk \in [Conns -> Links], NEW sb, NEW tk \in Types, NEW by, NEW who,
           OnTransportClose(state, lk, sb, tk, by, who), Thins(task, tk), Settles(link, lk),
           \A q \in Topics : sb[q] = "ACTIVE" => subs[q] = "ACTIVE",
           state # "IDLE", \A t \in Tasks : tk[t].pc # "connect",
           by = "reader" => who \in Conns /\ link[who] # "closed"
    PROVE  One'
  <1>1. CASE state \in Terminal
    <2>1. /\ UNCHANGED <<state, ws, closers, outstanding>>
          /\ link' = lk /\ subs' = sb /\ task' = tk
      BY <1>1 DEF OnTransportClose
    <2>2. Shrinks(closers') /\ NoNewActive /\ \A r \in outstanding' : r.conn = ws
      BY <2>1 DEF Shrinks, NoNewActive, One, Sent
    <2> QED
      BY <2>1, <2>2, Goes
  <1>2. CASE state \notin Terminal
    <2> DEFINE direct == ws = 0 \/ (by = "reader" /\ who = ws /\ lk[ws] = "closed")
    <2>1. PICK ending \in SUBSET HeartbeatClosers :
          /\ state' = "TRANSIENT_FAILURE" /\ subs' = Paused(sb) /\ outstanding' = {}
          /\ IF direct
             THEN /\ ws' = 0 /\ link' = lk /\ closers' = closers \ ending
                  /\ Schedule("TRANSIENT_FAILURE", Failed(tk, "error"))
             ELSE /\ link' = Closing(lk, ws)
                  /\ closers' = (closers \ ending) \cup {Closer("retry", by, who)}
                  /\ task' = Failed(tk, "error") /\ UNCHANGED ws
      BY <1>2 DEF OnTransportClose
    <2>2. NoneActive(subs') /\ NoNewActive
      BY <2>1 DEF NoneActive, NoNewActive, Paused
    <2>3. /\ Failed(tk, "error") \in Types /\ NoneWaits(Failed(tk, "error"))
          /\ Thins(tk, Failed(tk, "error"))
          /\ \A t \in Tasks : Failed(tk, "error")[t].pc = tk[t].pc
      BY FailedType, FailedThins DEF Futures
    <2>4. Thins(task, Failed(tk, "error"))
      BY <2>3, ThinsTransitive
    <2>5. CASE direct
      <3>1. /\ \A t \in Tasks : ThinAt(task, task', t) \/ task'[t].pc \in {"sleep", "abort"}
            /\ NoneWaits(task')
            /\ \A t \in Tasks : task'[t].pc # "connect"
        BY <2>1, <2>3, <2>4, <2>5, ScheduleLed DEF TypeOK
      <3>2. \A k \in Conns : lk[k] \in {"lost", "closed"}
        BY <2>5 DEF Settles, One, OneLink
      <3>3. \A c \in closers' : c.conn \in Conns
        BY <2>1, <2>5 DEF TypeOK, CloserRecs
      <3> HIDE DEF direct
      <3> QED
        BY <2>1, <2>2, <2>5, <3>1, <3>2, <3>3, Retries
    <2>6. CASE ~direct
      <3>1. ws \in Conns
        BY <2>6, ConnsFrom DEF TypeOK
      <3>2. Settles(link, link') /\ link'[ws] # "up"
        BY <2>1, <2>6, <3>1 DEF Closing, Settles
      <3>3. by = "reader" => who = ws
        BY <2>6 DEF One, OneLink
      <3> HIDE DEF direct
      <3>4. /\ closers' \subseteq closers \cup {Closer("retry", by, who)} /\ UNCHANGED ws
            /\ Thins(task, task') /\ NoneWaits(task')
        BY <2>1, <2>3, <2>4, <2>6
      <3>5. ws # 0
        BY <2>6 DEF direct
      <3> QED
        BY <2>1, <2>2, <3>2, <3>3, <3>4, <3>5, GivesUp
    <2> QED
      BY <2>5, <2>6
  <1> QED
    BY <1>1, <1>2

\* _abort_to_fatal.
LEMMA AbortOne ==
    ASSUME TypeOK, One, NEW tk \in Types, NEW how \in Futures \ {"none", "wait"}, NEW by, NEW who,
           AbortToFatal(tk, how, by, who), Thins(task, tk),
           by = "reader" => who \in Conns /\ link[who] # "closed"
    PROVE  One'
  <1>1. PICK ending \in SUBSET (HeartbeatClosers \cup ReconnectClosers) :
         /\ task' = Orphaned(Cancelled(Failed(tk, how), ending), Topics)
         /\ closers' = (closers \ ending) \cup IF ws = 0 THEN {} ELSE {Closer("fatal", by, who)}
    BY DEF AbortToFatal
  <1>2. Thins(task, task') /\ NoneWaits(task')
    <2>1. /\ Failed(tk, how) \in Types /\ Thins(tk, Failed(tk, how)) /\ NoneWaits(Failed(tk, how))
      BY FailedType, FailedThins
    <2>2. /\ Cancelled(Failed(tk, how), ending) \in Types
          /\ Thins(Failed(tk, how), Cancelled(Failed(tk, how), ending))
          /\ NoneWaits(Cancelled(Failed(tk, how), ending))
      BY <2>1, CancelledType, CancelledThins DEF TypeOK
    <2>3. Thins(Cancelled(Failed(tk, how), ending), task') /\ NoneWaits(task')
      BY <1>1, <2>2, OrphanedThins
    <2>4. Thins(tk, Cancelled(Failed(tk, how), ending))
      BY <2>1, <2>2, ThinsTransitive
    <2>5. Thins(tk, task')
      BY <2>3, <2>4, ThinsTransitive
    <2> QED
      BY <2>3, <2>5, ThinsTransitive
  <1>3. /\ outstanding' = {} /\ NoneActive(subs') /\ UNCHANGED ws
        /\ state' \in {state, "FATAL"}
    BY DEF AbortToFatal, NoneActive
  <1>4. /\ ws = 0 => closers' \subseteq closers /\ state' = "FATAL" /\ UNCHANGED link
        /\ ws # 0 => closers' \subseteq closers \cup {Closer("fatal", by, who)}
    BY <1>1 DEF AbortToFatal
  <1>5. Settles(link, link') /\ (ws # 0 => link'[ws] # "up")
    <2>1. CASE ws = 0
      BY <1>4, <2>1 DEF Settles
    <2>2. CASE ws # 0
      <3>1. ws \in Conns /\ link' = Closing(link, ws) /\ link \in [Conns -> Links]
        BY <2>2, ConnsFrom DEF AbortToFatal, TypeOK
      <3> QED
        BY <3>1 DEF Closing, Settles
    <2> QED
      BY <2>1, <2>2
  <1>6. by = "reader" => who = ws \/ ws = 0
    BY DEF One, OneLink
  <1> QED
    BY <1>2, <1>3, <1>4, <1>5, <1>6, GivesUp DEF Terminal

LEMMA Keeps == Settles(link, link) /\ Shrinks(closers) /\ Thins(task, task)
  BY DEF Settles, Shrinks, Thins, ThinAt

LEMMA RegisteredConn ==
    ASSUME One, outstanding \subseteq RequestRecs, NEW q, NEW alive, NEW retry
    PROVE  \A r \in Registered(q, alive, retry) : r.conn = ws
  <1>1. \A r \in outstanding : r.conn = ws /\ [r EXCEPT !.live = FALSE].conn = ws
    BY DEF One, Sent, RequestRecs
  <1> SUFFICES ASSUME NEW r \in Registered(q, alive, retry) PROVE r.conn = ws
    OBVIOUS
  <1>2. CASE r = [topic |-> q, conn |-> ws, live |-> alive, retry |-> retry]
    BY <1>2
  <1>3. CASE \E s \in outstanding : r \in {s, [s EXCEPT !.live = FALSE]}
    BY <1>1, <1>3
  <1> QED
    BY <1>2, <1>3 DEF Registered

-----------------------------------------------------------------------------
(* The steps                                                               *)

LEMMA UserOne ==
    ASSUME TypeOK, One, User
    PROVE  One'
  <1>1. task \in Types /\ outstanding \subseteq RequestRecs /\ link \in [Conns -> Links]
    BY DEF TypeOK, Types
  <1>2. CASE Connect
    <2>1. /\ ws' = 0 /\ AllClosed(link') /\ closers' = {} /\ outstanding' = {} /\ NoneActive(subs')
          /\ state' = "CONNECTING"
      BY <1>2 DEF Connect, One, Untouched, AllClosed, NoneActive
    <2>2. \A t \in Tasks : task'[t].pc \in {"none", "closing", "connect"}
      BY <1>1, <1>2 DEF Connect, One, Untouched, Types, TaskRecs
    <2>3. OneLink' /\ Dialling' /\ Fresh'
      BY <2>1, <2>2 DEF OneLink, AllClosed, Dialling, Fresh, Restorers
    <2> QED
      BY <2>1, <2>2, <2>3 DEF One, Untouched, ClosingOwn, Down, Asleep, Replaying, Sent
  <1>3. CASE Close
    <2>1. PICK ending \in SUBSET (HeartbeatClosers \cup ReconnectClosers) :
            /\ task' = Orphaned(Failed(Cancelled(task, ending), "error"), Topics)
            /\ closers' = (closers \ ending)
                            \cup IF ws = 0 THEN {} ELSE {Closer("shutdown", "user", 0)}
      BY <1>3 DEF Close
    <2>2. Thins(task, task') /\ NoneWaits(task')
      <3>1. Cancelled(task, ending) \in Types /\ Thins(task, Cancelled(task, ending))
        BY <1>1, CancelledType, CancelledThins DEF TypeOK
      <3>2. /\ Failed(Cancelled(task, ending), "error") \in Types
            /\ Thins(Cancelled(task, ending), Failed(Cancelled(task, ending), "error"))
            /\ NoneWaits(Failed(Cancelled(task, ending), "error"))
        BY <3>1, FailedType, FailedThins DEF Futures
      <3>3. Thins(Failed(Cancelled(task, ending), "error"), task') /\ NoneWaits(task')
        BY <2>1, <3>2, OrphanedThins
      <3>4. Thins(task, Failed(Cancelled(task, ending), "error"))
        BY <3>1, <3>2, ThinsTransitive
      <3> QED
        BY <3>3, <3>4, ThinsTransitive
    <2>3. /\ outstanding' = {} /\ NoneActive(subs') /\ UNCHANGED ws /\ state' = "SHUTDOWN"
          /\ link' = IF ws = 0 THEN link ELSE Closing(link, ws)
      BY <1>3 DEF Close, NoneActive
    <2>4. Settles(link, link') /\ (ws # 0 => link'[ws] # "up")
      <3>1. ws # 0 => ws \in Conns
        BY ConnsFrom DEF TypeOK
      <3> QED
        BY <1>1, <2>3, <3>1 DEF Closing, Settles
    <2>5. /\ ws = 0 => closers' \subseteq closers
          /\ ws # 0 => closers' \subseteq closers \cup {Closer("shutdown", "user", 0)}
      BY <2>1
    <2> QED
      BY <2>2, <2>3, <2>4, <2>5, GivesUp DEF Terminal
  <1>4. ASSUME NEW q \in Topics, Subscribe(q) PROVE One'
    <2> DEFINE sb == [subs EXCEPT ![q] = "PENDING"]
    <2>1. \A p \in Topics : sb[p] = "ACTIVE" => subs[p] = "ACTIVE"
      BY DEF TypeOK
    <2>2. state = "READY" => ~Establishing(task)
      BY DEF One, Fresh
    <2>3. CASE state # "READY" \/ CanSend
      <3>1. /\ subs' = sb /\ UNCHANGED <<state, ws, link, task, closers>>
            /\ outstanding' = IF state = "READY" THEN Registered(q, TRUE, FALSE) ELSE outstanding
        BY <1>4, <2>3 DEF Subscribe
      <3>2. \A r \in outstanding' : r.conn = ws
        BY <1>1, <3>1, RegisteredConn DEF One, Sent
      <3>3. NoNewActive
        BY <2>1, <3>1 DEF NoNewActive
      <3> QED
        BY <2>2, <2>3, <3>1, <3>2, <3>3, Keeps, Goes
    <2>4. CASE ~(state # "READY" \/ CanSend)
      <3>1. OnTransportClose(state, link, sb, task, "user", 0) /\ state = "READY"
        BY <1>4, <2>4 DEF Subscribe
      <3>2. \A t \in Tasks : task[t].pc # "connect"
        BY <2>2, <3>1 DEF Establishing
      <3> HIDE DEF sb
      <3> QED
        BY <1>1, <2>1, <3>1, <3>2, Keeps, TransportCloseOne
    <2> QED
      BY <2>3, <2>4
  <1>5. ASSUME NEW q \in Topics, Unsubscribe(q) PROVE One'
    <2>1. /\ subs' = [subs EXCEPT ![q] = "absent"] /\ task' = Orphaned(task, {q})
          /\ UNCHANGED <<state, ws, link, closers>>
      BY <1>5 DEF Unsubscribe
    <2>2. NoNewActive /\ Thins(task, task')
      BY <1>1, <2>1, OrphanedThins DEF NoNewActive, TypeOK
    <2>3. /\ \A r \in outstanding' : r.conn = ws
          /\ outstanding = {} => outstanding' = {}
      BY <1>1, <1>5 DEF Unsubscribe, One, Sent, RequestRecs
    <2> QED
      BY <2>1, <2>2, <2>3, Keeps, Goes
  <1>6. ASSUME NEW engage \in BOOLEAN, EmergencyStopAcked(engage) PROVE One'
    <2>1. UNCHANGED <<state, ws, link, task, closers, subs, outstanding>>
      BY <1>6 DEF EmergencyStopAcked
    <2> QED
      BY <2>1, Keeps, Goes DEF One, Sent, NoNewActive
  <1> QED
    BY <1>2, <1>3, <1>4, <1>5, <1>6 DEF User

\* The loop comes to a timer only when nothing is ready: then a reconnect that
\* sleeps has nothing left of the connection before.
LEMMA NothingLeft ==
    ASSUME TypeOK, One, NoReadyTask, NEW t \in Tasks, task[t].pc = "sleep"
    PROVE  /\ ws = 0 /\ closers = {} /\ AllClosed(link) /\ Restorers(task) = {}
           /\ \A u \in Tasks : task[u].pc # "abort"
  <1>1. ws = 0
    BY DEF One, Asleep
  <1>2. AllClosed(link)
    <2> SUFFICES ASSUME NEW k \in Conns, link[k] = "lost" PROVE FALSE
      BY <1>1 DEF AllClosed, One, OneLink
    <2>1. ~ReaderFree(k)
      BY DEF NoReadyTask
    <2>2. PICK c \in closers : c.by = "reader" /\ c.who = k
      BY <2>1 DEF ReaderFree
    <2>3. c.conn = k
      BY <2>2 DEF One, ClosingOwn
    <2> QED
      BY <2>2, <2>3 DEF NoReadyTask, CloseEnds
  <1>3. closers = {}
    <2> SUFFICES ASSUME NEW c \in closers PROVE FALSE
      OBVIOUS
    <2>1. c.conn \in Conns
      BY DEF TypeOK, CloserRecs
    <2> QED
      BY <1>2, <2>1 DEF AllClosed, NoReadyTask, CloseEnds
  <1>4. \A u \in Tasks : TaskFree(u)
    BY <1>3 DEF TaskFree
  <1>5. \A u \in Tasks : task[u].pc \notin {"flush", "resub", "rnew", "abort"}
    BY <1>4 DEF NoReadyTask
  <1>6. \A u \in Tasks : task[u].pc # "rwait"
    BY <1>1 DEF NoReadyTask, One, Replaying
  <1> QED
    BY <1>1, <1>2, <1>3, <1>5, <1>6 DEF Restorers

LEMMA ConnectOne ==
    ASSUME TypeOK, One, NEW t \in Tasks, ~Twice, ~Twice',
           SleepEnds(t) \/ ConnectOk(t) \/ ConnectFails(t) \/ ConnectFatal(t) \/ ConnectCrashes(t)
    PROVE  One'
  <1>1. task \in Types /\ link \in [Conns -> Links]
    BY DEF TypeOK, Types
  <1>2. \A u \in Tasks : /\ u # t /\ task[t].pc = "connect" => task[u].pc \notin {"sleep", "connect", "handshake"}
                         /\ u # t /\ task'[t].pc = "handshake" => task'[u].pc \notin {"sleep", "connect"}
    BY DEF Twice, Reconnecting
  <1>3. task[t].pc \in {"sleep", "connect"} => ws = 0 /\ state # "IDLE"
    BY DEF One, Asleep, Untouched
  <1>4. task[t].pc = "connect" =>
            /\ closers = {} /\ AllClosed(link) /\ state \notin {"TRANSIENT_FAILURE", "READY"}
            /\ Restorers(task) = {} /\ outstanding = {} /\ NoneActive(subs)
    BY DEF One, Dialling, Fresh, Establishing
  <1>5. CASE SleepEnds(t)
    <2>1. CASE state # "TRANSIENT_FAILURE"
      <3>1. task' = [task EXCEPT ![t] = NoTask] /\ UNCHANGED <<state, ws, link, closers, subs, outstanding>>
        BY <1>5, <2>1 DEF SleepEnds
      <3>2. Thins(task, task')
        BY <1>1, <3>1, EndedByThins
      <3> QED
        BY <3>1, <3>2, Keeps, Goes DEF One, Sent, NoNewActive
    <2>2. CASE state = "TRANSIENT_FAILURE"
      <3>1. /\ ws = 0 /\ closers = {} /\ AllClosed(link) /\ Restorers(task) = {}
            /\ \A u \in Tasks : task[u].pc # "abort"
        BY <1>5, NothingLeft DEF SleepEnds
      <3>2. outstanding = {} /\ NoneActive(subs)
        BY <2>2 DEF One, Down
      <3>3. /\ state' = "RECONNECTING" /\ UNCHANGED <<ws, link, closers, subs, outstanding>>
            /\ \A u \in Tasks : u # t => task'[u] = task[u]
            /\ task'[t].pc = "connect"
        BY <1>1, <1>5, <2>2 DEF SleepEnds, Types, TaskRecs
      <3>4. Restorers(task') = {} /\ \A u \in Tasks : task'[u].pc # "abort"
        BY <3>1, <3>3 DEF Restorers
      <3>5. AllClosed(link') /\ NoneActive(subs')
        BY <3>1, <3>2, <3>3 DEF AllClosed, NoneActive
      <3>6. OneLink' /\ Dialling' /\ Fresh'
        BY <3>1, <3>2, <3>3, <3>4, <3>5 DEF OneLink, AllClosed, Dialling, Fresh
      <3>7. Untouched' /\ ClosingOwn' /\ Down' /\ Asleep' /\ Sent'
        BY <3>1, <3>2, <3>3 DEF Untouched, ClosingOwn, Down, Asleep, Sent
      <3>8. Replaying'
        BY <3>4 DEF Replaying, Restorers
      <3> QED
        BY <3>6, <3>7, <3>8 DEF One
    <2> QED
      BY <2>1, <2>2
  <1>6. CASE ConnectOk(t)
    <2>1. PICK k \in Conns : /\ link' = [link EXCEPT ![k] = "up"] /\ ws' = k
                             /\ task' = [task EXCEPT ![t].pc = "handshake", ![t].conn = k,
                                                     ![t].fut = "wait"]
      BY <1>6, Zenon DEF ConnectOk
    <2>2. task[t].pc = "connect" /\ UNCHANGED <<state, closers, subs, outstanding>>
      BY <1>6, Zenon DEF ConnectOk
    <2>3. task'[t].pc = "handshake" /\ \A u \in Tasks : u # t => task'[u] = task[u]
      BY <1>1, <2>1 DEF Types, TaskRecs
    <2>4. \A u \in Tasks : task'[u].pc \notin {"sleep", "connect"}
      BY <1>2, <2>3
    <2>5. Restorers(task') = {} /\ NoneActive(subs')
      BY <1>4, <2>2, <2>3 DEF Restorers, NoneActive
    <2>6. OneLink'
      BY <1>1, <1>4, <2>1, <2>2 DEF OneLink, AllClosed, Conns
    <2>7. Untouched' /\ Down'
      BY <1>3, <1>4, <2>2 DEF Untouched, Down
    <2>8. ClosingOwn' /\ Asleep' /\ Dialling' /\ Sent'
      BY <1>4, <2>2, <2>4 DEF ClosingOwn, Asleep, Dialling, Sent
    <2>9. Fresh'
      BY <1>4, <2>2, <2>5 DEF Fresh
    <2>10. Replaying'
      BY <2>5 DEF Replaying, Restorers
    <2> QED
      BY <2>6, <2>7, <2>8, <2>9, <2>10 DEF One
  <1>7. CASE ConnectFails(t)
    <2> DEFINE tk == [task EXCEPT ![t] = NoTask]
    <2>1. /\ task[t].pc = "connect" /\ state' = "TRANSIENT_FAILURE"
          /\ Schedule("TRANSIENT_FAILURE", tk)
          /\ UNCHANGED <<ws, link, closers, subs, outstanding>>
      BY <1>7 DEF ConnectFails
    <2>2. tk \in Types /\ Thins(task, tk) /\ \A u \in Tasks : tk[u].pc # "connect"
      BY <1>1, <1>2, <2>1, NoTaskType, EndedByThins DEF Types, TypeOK, NoTask
    <2>3. NoneWaits(tk)
      BY <1>4, <2>1, <2>2 DEF NoneWaits, Restorers, Thins, ThinAt
    <2> HIDE DEF tk
    <2>4. /\ \A u \in Tasks : ThinAt(task, task', u) \/ task'[u].pc \in {"sleep", "abort"}
          /\ \A u \in Tasks : task'[u].pc # "connect"
          /\ NoneWaits(task')
      BY <2>1, <2>2, <2>3, ScheduleLed DEF TypeOK
    <2> QED
      BY <1>3, <1>4, <2>1, <2>2, <2>4, Keeps, Retries DEF AllClosed, NoNewActive
  <1>8. CASE ConnectFatal(t)
    <2>1. AbortToFatal(EndedBy(t), "fatal", "task", t)
      BY <1>8 DEF ConnectFatal
    <2> QED
      BY <1>1, <2>1, EndedByType, EndedByThins, AbortOne DEF Futures
  <1>9. CASE ConnectCrashes(t)
    <2>1. /\ UNCHANGED <<state, ws, link, closers, subs, outstanding>>
          /\ task[t].pc = "connect" /\ state # "IDLE"
          /\ task'[t].pc \in {"none", "abort"} /\ \A u \in Tasks : u # t => task'[u] = task[u]
      BY <1>1, <1>3, <1>9 DEF ConnectCrashes, NoTask, Types
    <2>2. ~Establishing(task')
      BY <1>2, <2>1 DEF Establishing
    <2>3. \A u \in Tasks : ThinAt(task, task', u) \/ task'[u].pc = "abort"
      BY <2>1 DEF ThinAt
    <2> QED
      BY <2>1, <2>2, <2>3, Keeps, Goes DEF One, Sent, NoNewActive
  <1> QED
    BY <1>5, <1>6, <1>7, <1>8, <1>9

LEMMA StartHeartbeatShrinks ==
    ASSUME closers \subseteq CloserRecs, StartHeartbeat
    PROVE  Shrinks(closers')
  <1>1. PICK ending \in SUBSET HeartbeatClosers :
            closers' = {IF c.by = "heartbeat" THEN [c EXCEPT !.by = "timer"] ELSE c :
                            c \in closers \ ending}
    BY DEF StartHeartbeat
  <1>2. \A c \in closers : /\ [c EXCEPT !.by = "timer"].conn = c.conn
                           /\ [c EXCEPT !.by = "timer"].by = "timer"
    BY DEF CloserRecs
  <1> SUFFICES ASSUME NEW e \in closers'
               PROVE  \E d \in closers : /\ e.conn = d.conn
                                         /\ e.by = "reader" => d.by = "reader" /\ e.who = d.who
    BY DEF Shrinks
  <1>3. PICK d \in closers : e = IF d.by = "heartbeat" THEN [d EXCEPT !.by = "timer"] ELSE d
    BY <1>1
  <1> QED
    BY <1>2, <1>3

LEMMA HandshakeOne ==
    ASSUME TypeOK, One, NEW t \in Tasks, ~Twice, ~Twice',
           HandshakeFails(t) \/ HandshakeFatal(t) \/ HandshakeOkAgain(t)
               \/ (HandshakeOkInitial /\ t = 0)
    PROVE  One'
  <1>1. task \in Types /\ link \in [Conns -> Links] /\ closers \subseteq CloserRecs
    BY DEF TypeOK, Types
  <1>2. task[t].pc = "handshake"
    BY Zenon DEF HandshakeFails, HandshakeFatal, HandshakeOkAgain, HandshakeOkInitial
  <1>3. /\ Restorers(task) = {} /\ outstanding = {} /\ NoneActive(subs) /\ state # "READY"
        /\ state # "IDLE"
    BY <1>2 DEF One, Fresh, Establishing, Untouched
  <1>4. \A u \in Tasks : u # t => task[u].pc \notin {"sleep", "connect", "handshake"}
    BY <1>2 DEF Twice, Reconnecting
  <1>5. CASE HandshakeFatal(t)
    <2>1. AbortToFatal(EndedBy(t), "fatal", "task", t)
      BY <1>5 DEF HandshakeFatal
    <2> QED
      BY <1>1, <2>1, EndedByType, EndedByThins, AbortOne DEF Futures
  <1>6. CASE HandshakeFails(t)
    <2>1. state' = "TRANSIENT_FAILURE" /\ UNCHANGED <<ws, subs, outstanding>>
      BY <1>6 DEF HandshakeFails
    <2>2. NoneActive(subs')
      BY <1>3, <2>1 DEF NoneActive
    <2>3. CASE ws = 0
      <3> DEFINE tk == [task EXCEPT ![t] = NoTask]
      <3>1. Schedule("TRANSIENT_FAILURE", tk) /\ UNCHANGED <<link, closers>>
        BY <1>6, <2>3 DEF HandshakeFails
      <3>2. tk \in Types /\ Thins(task, tk) /\ \A u \in Tasks : tk[u].pc # "connect"
        BY <1>1, <1>2, <1>4, NoTaskType, EndedByThins DEF Types, TypeOK, NoTask
      <3>3. NoneWaits(tk)
        BY <1>3, <3>2 DEF NoneWaits, Restorers, Thins, ThinAt
      <3> HIDE DEF tk
      <3>4. /\ \A u \in Tasks : ThinAt(task, task', u) \/ task'[u].pc \in {"sleep", "abort"}
            /\ \A u \in Tasks : task'[u].pc # "connect"
            /\ NoneWaits(task')
        BY <3>1, <3>2, <3>3, ScheduleLed DEF TypeOK
      <3>5. /\ \A k \in Conns : link'[k] \in {"lost", "closed"}
            /\ \A c \in closers' : c.conn \in Conns
        BY <1>1, <2>3, <3>1 DEF One, OneLink, CloserRecs
      <3> QED
        BY <1>3, <2>1, <2>2, <2>3, <3>1, <3>4, <3>5, Keeps, Retries DEF NoNewActive
    <2>4. CASE ws # 0
      <3>1. /\ task' = EndedBy(t) /\ link' = Closing(link, ws)
            /\ closers' = closers \cup {Closer("retry", "task", t)}
        BY <1>6, <2>4 DEF HandshakeFails
      <3>2. Thins(task, task')
        BY <1>1, <3>1, EndedByThins
      <3>3. NoneWaits(task')
        BY <1>3, <3>2 DEF NoneWaits, Restorers, Thins, ThinAt
      <3>4. ws \in Conns
        BY <2>4, ConnsFrom DEF TypeOK
      <3>5. Settles(link, link') /\ link'[ws] # "up"
        BY <1>1, <3>1, <3>4 DEF Closing, Settles
      <3> QED
        BY <1>3, <2>1, <2>2, <2>4, <3>1, <3>2, <3>3, <3>5, GivesUp
    <2> QED
      BY <2>3, <2>4
  <1>7. ASSUME HandshakeOkAgain(t) \/ (HandshakeOkInitial /\ t = 0) PROVE One'
    <2>1. /\ \A u \in Tasks : u # t => task'[u] = task[u]
          /\ task'[t].pc \in {"none", "flush", "resub"}
      <3> DEFINE resub == [NoTask EXCEPT !.pc = "resub", !.todo = SlotItems, !.latest = task[t].latest]
                 flush == [NoTask EXCEPT !.pc = "flush", !.todo = SlotItems]
      <3>1. resub.pc = "resub" /\ flush.pc = "flush" /\ NoTask.pc = "none"
        BY DEF NoTask
      <3>2. \E new \in {resub, flush, NoTask} : task' = [task EXCEPT ![t] = new]
        BY <1>7, Zenon DEF HandshakeOkAgain, HandshakeOkInitial
      <3> HIDE DEF resub, flush
      <3> QED
        BY <1>1, <3>1, <3>2 DEF Types
    <2>2. ~Establishing(task')
      BY <1>4, <2>1 DEF Establishing
    <2>3. state' = "READY" \/ UNCHANGED state
      BY <1>7, Zenon DEF HandshakeOkAgain, HandshakeOkInitial, ReadyAgain
    <2>4. StartHeartbeat /\ UNCHANGED <<ws, link, subs, outstanding>>
      BY <1>7 DEF HandshakeOkAgain, HandshakeOkInitial
    <2>5. \A u \in Tasks : ThinAt(task, task', u) \/ task'[u].pc \in {"flush", "resub", "rnew", "abort"}
      BY <2>1 DEF ThinAt
    <2> QED
      BY <1>1, <1>3, <2>2, <2>3, <2>4, <2>5, Keeps, StartHeartbeatShrinks, Goes DEF NoNewActive
  <1> QED
    BY <1>5, <1>6, <1>7

LEMMA RestoreOne ==
    ASSUME TypeOK, One, NEW t \in Tasks,
           SendNext(t) \/ SendsDone(t) \/ ReplayBegins(t) \/ ReplayAcked(t)
               \/ ReplayFailed(t) \/ AbortBegins(t)
    PROVE  One'
  <1>1. /\ task \in Types /\ outstanding \subseteq RequestRecs /\ link \in [Conns -> Links]
        /\ task[t] \in TaskRecs /\ NoTask.pc = "none"
    BY DEF TypeOK, Types, NoTask
  <1>2. EndedBy(t) \in Types /\ Thins(task, EndedBy(t))
    BY <1>1, EndedByType, EndedByThins
  <1>3. CASE AbortBegins(t)
    <2>1. AbortToFatal(EndedBy(t), "error", "task", t)
      BY <1>3 DEF AbortBegins
    <2> QED
      BY <1>2, <2>1, AbortOne DEF Futures
  <1>4. CASE ~AbortBegins(t)
    <2>1. task[t].pc \in {"flush", "resub", "rnew", "rwait"}
      BY <1>4, Zenon DEF SendNext, SendsDone, ReplayBegins, ReplayAcked, ReplayFailed
    <2>2. ~Establishing(task) /\ state # "IDLE"
      BY <2>1 DEF One, Fresh, Restorers, Untouched
    <2>3. ASSUME NEW tk, Thins(task, tk) PROVE \A u \in Tasks : tk[u].pc # "connect"
      BY <2>2, <2>3 DEF Thins, ThinAt, Establishing
    <2>4. OnTransportClose(state, link, subs, EndedBy(t), "task", t) => One'
      BY <1>1, <1>2, <2>2, <2>3, Keeps, TransportCloseOne
    <2>5. CASE SendNext(t)
      <3> DEFINE rest(x)  == [task EXCEPT ![t].todo = @ \ {x}]
                 slots(x) == IF x.alive THEN [subs EXCEPT ![x.topic] = "PENDING"] ELSE subs
                 skip(x)  == /\ task[t].pc = "flush"
                             /\ \/ ~x.alive \/ subs[x.topic] # "PENDING"
                                \/ \E r \in outstanding : r.topic = x.topic /\ r.live
      <3>1. PICK x \in task[t].todo :
              /\ task[t].pc \in {"flush", "resub"}
              /\ IF skip(x) \/ CanSend
                 THEN /\ task' = rest(x)
                      /\ subs' = IF skip(x) THEN subs ELSE slots(x)
                      /\ outstanding' = IF skip(x) THEN outstanding
                                        ELSE Registered(x.topic, x.alive, FALSE)
                      /\ UNCHANGED <<state, ws, link, closers, hb, attempt>>
                 ELSE OnTransportClose(state, link, slots(x), rest(x), "task", t)
        BY <2>5 DEF SendNext
      <3>2. rest(x) \in Types /\ Thins(task, rest(x))
        BY <1>1 DEF Types, TaskRecs, Thins, ThinAt
      <3>3. \A q \in Topics : slots(x)[q] = "ACTIVE" => subs[q] = "ACTIVE"
        BY DEF TypeOK
      <3> HIDE DEF rest, slots, skip
      <3>4. CASE skip(x) \/ CanSend
        <4>1. /\ \A r \in outstanding' : r.conn = ws
              /\ outstanding' = outstanding \/ CanSend
          <5>1. /\ \A r \in outstanding : r.conn = ws
                /\ \A r \in Registered(x.topic, x.alive, FALSE) : r.conn = ws
            BY <1>1, RegisteredConn DEF One, Sent
          <5>2. outstanding' = outstanding \/ (CanSend /\ outstanding' = Registered(x.topic, x.alive, FALSE))
            BY <3>1, <3>4
          <5> QED
            BY <5>1, <5>2, <3>1, <3>4
        <4>2. NoNewActive
          BY <3>1, <3>3, <3>4 DEF NoNewActive
        <4> QED
          BY <2>2, <3>1, <3>2, <3>4, <4>1, <4>2, Keeps, Goes
      <3>5. CASE ~(skip(x) \/ CanSend)
        BY <1>1, <2>2, <2>3, <3>1, <3>2, <3>3, <3>5, Keeps, TransportCloseOne
      <3> QED
        BY <3>4, <3>5
    <2>6. CASE SendsDone(t)
      <3> DEFINE new == IF task[t].pc = "resub" /\ estopPending
                        THEN [NoTask EXCEPT !.pc = "rnew"] ELSE NoTask
      <3>1. task' = [task EXCEPT ![t] = new] /\ UNCHANGED <<state, ws, link, closers, subs, outstanding>>
        BY <2>6 DEF SendsDone
      <3>2. new.pc \in {"none", "rnew"}
        BY DEF NoTask
      <3> HIDE DEF new
      <3>3. \A u \in Tasks : ThinAt(task, task', u) \/ task'[u].pc = "rnew"
        BY <1>1, <3>1, <3>2 DEF ThinAt, Types
      <3>4. ~Establishing(task')
        BY <2>2, <3>3 DEF Establishing, ThinAt
      <3> QED
        BY <2>2, <3>1, <3>3, <3>4, Keeps, Goes DEF One, Sent, NoNewActive
    <2>7. CASE ReplayBegins(t)
      <3>1. CASE CanSend
        <4>1. /\ task' = [task EXCEPT ![t].pc = "rwait", ![t].conn = ws, ![t].fut = "wait"]
              /\ UNCHANGED <<state, ws, link, closers, subs, outstanding>>
          BY <2>7, <3>1 DEF ReplayBegins
        <4>2. /\ task'[t].pc = "rwait" /\ task'[t].fut = "wait"
              /\ \A u \in Tasks : u # t => task'[u] = task[u]
          BY <1>1, <4>1 DEF Types, TaskRecs
        <4>3. \A u \in Tasks : \/ ThinAt(task, task', u)
                               \/ task'[u].pc = "rwait" /\ task'[u].fut # "none" /\ CanSend
          BY <3>1, <4>2 DEF ThinAt
        <4>4. ~Establishing(task')
          BY <2>2, <4>2 DEF Establishing
        <4> QED
          BY <2>2, <4>1, <4>3, <4>4, Keeps, Goes DEF One, Sent, NoNewActive
      <3>2. CASE ~CanSend
        BY <2>4, <2>7, <3>2 DEF ReplayBegins
      <3> QED
        BY <3>1, <3>2
    <2>8. CASE ReplayAcked(t)
      <3>1. /\ task' = [task EXCEPT ![t] = NoTask] /\ UNCHANGED <<ws, link, closers, subs, outstanding>>
            /\ state' = "READY" \/ UNCHANGED state
        BY <2>8 DEF ReplayAcked, ReadyAgain
      <3>2. Thins(task, task')
        BY <1>1, <3>1, EndedByThins
      <3>3. ~Establishing(task')
        BY <2>2, <3>2 DEF Establishing, Thins, ThinAt
      <3> QED
        BY <3>1, <3>2, <3>3, Keeps, Goes DEF One, Sent, NoNewActive
    <2>9. CASE ReplayFailed(t)
      BY <2>4, <2>9 DEF ReplayFailed
    <2> QED
      BY <1>4, <2>5, <2>6, <2>7, <2>8, <2>9
  <1> QED
    BY <1>3, <1>4

LEMMA AckOne ==
    ASSUME TypeOK, One, NEW r \in outstanding,
           NEW v \in {"accepted", "rejected", "busy", "fatal", "too_old"}, HandleAck(r, v)
    PROVE  One'
  <1>1. task \in Types /\ link \in [Conns -> Links] /\ r.conn = ws /\ ws \in Conns
    BY DEF TypeOK, Types, One, Sent, RequestRecs
  <1>2. ~Establishing(task) /\ state # "IDLE" /\ \A u \in Tasks : task[u].pc # "connect"
    BY DEF One, Fresh, Establishing, Untouched
  <1>3. link[r.conn] # "closed"
    BY DEF HandleAck, ReaderFree
  <1>4. \A b : MaybeFinishReconnect(b) => state' \in {state, "READY"}
    BY Zenon DEF MaybeFinishReconnect, ReadyAgain
  <1>5. CASE OnTransportClose(state, link, subs, task, "reader", r.conn)
    BY <1>1, <1>2, <1>3, <1>5, Keeps, TransportCloseOne
  <1>6. CASE AbortToFatal(task, "fatal", "reader", r.conn)
    BY <1>1, <1>3, <1>6, Keeps, AbortOne DEF Futures
  <1>7. CASE /\ state' \in {state, "READY"} /\ UNCHANGED <<ws, link, closers>>
             /\ task' = task \/ task' = Orphaned(task, {r.topic})
             /\ outstanding' \subseteq outstanding \cup {[r EXCEPT !.conn = ws, !.retry = TRUE]}
    <2>1. Thins(task, task')
      BY <1>1, <1>7, Keeps, OrphanedThins
    <2>2. ~Establishing(task')
      BY <1>2, <2>1 DEF Establishing, Thins, ThinAt
    <2>3. \A s \in outstanding' : s.conn = ws
      <3>1. r \in RequestRecs
        BY DEF TypeOK
      <3>2. [r EXCEPT !.conn = ws, !.retry = TRUE].conn = ws
        BY <3>1 DEF RequestRecs
      <3> QED
        BY <1>7, <3>2 DEF One, Sent
    <2> QED
      BY <1>7, <2>1, <2>2, <2>3, Keeps, Goes
  <1> QED
    BY <1>4, <1>5, <1>6, <1>7 DEF HandleAck

LEMMA CloseReturnsOne ==
    ASSUME TypeOK, One, NEW c \in closers, CloseReturns(c)
    PROVE  One'
  <1>1. task \in Types /\ c.conn \in Conns /\ NoTask.pc = "none" /\ NoTask \in TaskRecs
    BY NoTaskType DEF TypeOK, Types, NoTask, CloserRecs
  <1>2. /\ outstanding = {} /\ state # "IDLE" /\ NoneWaits(task)
        /\ \A t \in Tasks : task[t].pc # "connect"
    BY DEF One, Sent, Untouched, Replaying, NoneWaits, Dialling
  <1> DEFINE ended == [t \in Tasks |-> IF c.by = "task" /\ c.who = t /\ task[t].pc = "closing"
                                       THEN NoTask ELSE task[t]]
  <1>3. /\ closers' = closers \ {c} /\ ws' = 0 /\ CloseEnds(c)
        /\ IF c.kind = "retry" THEN Schedule(state, ended) ELSE task' = ended
        /\ state' = IF c.kind = "fatal" THEN "FATAL" ELSE state
        /\ UNCHANGED <<link, subs, outstanding>>
    BY DEF CloseReturns
  <1>4. ended \in Types /\ Thins(task, ended) /\ NoneWaits(ended)
    BY <1>1, <1>2 DEF Types, Thins, ThinAt, NoneWaits
  <1> HIDE DEF ended
  <1>5. /\ \A t \in Tasks : ThinAt(task, task', t) \/ task'[t].pc \in {"sleep", "abort"}
        /\ NoneWaits(task')
    BY <1>3, <1>4, ScheduleLed DEF TypeOK, Thins
  <1>6. \A t \in Tasks : task'[t].pc # "connect"
    BY <1>2, <1>5 DEF ThinAt
  <1>7. \A k \in Conns : link'[k] \in {"lost", "closed"}
    <2>1. ws \in {0, c.conn} /\ link[c.conn] \in {"lost", "closed"}
      BY <1>3 DEF One, ClosingOwn, CloseEnds
    <2> QED
      BY <1>3, <2>1 DEF One, OneLink
  <1>8. /\ \A d \in closers' : d.conn \in Conns
        /\ state' = "TRANSIENT_FAILURE" => NoneActive(subs')
    BY <1>3 DEF TypeOK, CloserRecs, One, Down, NoneActive
  <1> QED
    BY <1>2, <1>3, <1>5, <1>6, <1>7, <1>8, Keeps, Retries DEF NoNewActive

LEMMA NetworkOne ==
    ASSUME TypeOK, One, Network
    PROVE  One'
  <1>1. task \in Types /\ link \in [Conns -> Links]
    BY DEF TypeOK, Types
  <1>2. ASSUME NEW t \in Tasks, NEW v \in Futures \ {"none", "wait"}, Answered(t, v) \/ Unanswered(t, v)
        PROVE  One'
    <2>1. /\ task' = [task EXCEPT ![t].fut = v]
          /\ UNCHANGED <<state, ws, link, closers, subs, outstanding>>
      BY <1>2 DEF Answered, Unanswered
    <2>2. Thins(task, task')
      BY <1>1, <2>1 DEF Thins, ThinAt, Types, TaskRecs
    <2> QED
      BY <2>1, <2>2, Keeps, Goes DEF One, Sent, NoNewActive
  <1>3. ASSUME NEW k \in Conns, LinkFails(k) \/ PeerCloses(k) \/ ServerCloses(k) PROVE One'
    <2>1. UNCHANGED <<state, ws, task, closers, subs, outstanding>>
      BY <1>3 DEF LinkFails, PeerCloses, ServerCloses, OnlyLink
    <2>2. Settles(link, link')
      BY <1>1, <1>3 DEF LinkFails, PeerCloses, ServerCloses, Settles
    <2> QED
      BY <2>1, <2>2, Keeps, Goes DEF One, Sent, NoNewActive
  <1>4. ASSUME NEW k \in Conns, ReaderNotices(k) PROVE One'
    <2> DEFINE lk == [link EXCEPT ![k] = "closed"]
    <2>1. link[k] = "lost" /\ OnTransportClose(state, lk, subs, task, "reader", k)
      BY <1>4 DEF ReaderNotices
    <2>2. lk \in [Conns -> Links] /\ Settles(link, lk)
      BY <1>1, <2>1 DEF Settles, Links
    <2>3. state # "IDLE" /\ \A t \in Tasks : task[t].pc # "connect"
      BY <2>1 DEF One, Untouched, Dialling, AllClosed
    <2> HIDE DEF lk
    <2> QED
      BY <1>1, <2>1, <2>2, <2>3, Keeps, TransportCloseOne
  <1>5. CASE HeartbeatDead
    <2>1. state = "READY" /\ OnTransportClose(state, link, subs, task, "heartbeat", 0)
      BY <1>5 DEF HeartbeatDead
    <2>2. \A t \in Tasks : task[t].pc # "connect"
      BY <2>1 DEF One, Fresh, Establishing
    <2> QED
      BY <1>1, <2>1, <2>2, Keeps, TransportCloseOne
  <1>6. CASE HeartbeatEnds
    <2>1. UNCHANGED <<state, ws, link, task, closers, subs, outstanding>>
      BY <1>6 DEF HeartbeatEnds
    <2> QED
      BY <2>1, Keeps, Goes DEF One, Sent, NoNewActive
  <1>7. ASSUME NEW r \in outstanding, AckTimeout(r) PROVE One'
    <2>1. OnTransportClose(state, link, subs, task, "timer", 0)
      BY <1>7 DEF AckTimeout
    <2>2. state # "IDLE" /\ \A t \in Tasks : task[t].pc # "connect"
      BY DEF One, Untouched, Fresh, Establishing
    <2> QED
      BY <1>1, <2>1, <2>2, Keeps, TransportCloseOne
  <1>8. {"ok", "refused", "fatal", "timeout", "error"} \subseteq Futures \ {"none", "wait"}
    BY DEF Futures
  <1> QED
    BY <1>2, <1>3, <1>4, <1>5, <1>6, <1>7, <1>8, AckOne, CloseReturnsOne DEF Network

-----------------------------------------------------------------------------

OneInv == HInv /\ (~doubled => One)

LEMMA InitOneInv == HInit => OneInv
  <1> SUFFICES ASSUME HInit PROVE One
    BY InitHInv DEF OneInv
  <1>1. /\ state = "IDLE" /\ ws = 0 /\ AllClosed(link) /\ closers = {} /\ outstanding = {}
        /\ NoneActive(subs) /\ \A t \in Tasks : task[t].pc = "none"
    BY DEF HInit, Init, AllClosed, NoneActive, NoTask
  <1>2. OneLink
    BY <1>1 DEF OneLink, AllClosed
  <1> QED
    BY <1>1, <1>2 DEF One, Untouched, ClosingOwn, Down, Asleep, Dialling, Fresh, Establishing,
      Replaying, Sent

LEMMA StepOneInv == OneInv /\ [HNext]_hvars => OneInv'
  <1> SUFFICES ASSUME OneInv, [HNext]_hvars, ~doubled' PROVE One'
    BY StepHInv DEF OneInv
  <1>1. CASE HNext
    <2>1. TypeOK /\ ~Twice /\ ~Twice' /\ One /\ Next
      BY <1>1 DEF HNext, HInv, OneInv
    <2>2. ASSUME NEW t \in Tasks, Establish(t) PROVE One'
      BY <2>1, <2>2, ConnectOne, HandshakeOne, RestoreOne DEF Establish
    <2>3. CASE HandshakeOkInitial
      BY <2>1, <2>3, HandshakeOne, Whos
    <2> QED
      BY <2>1, <2>2, <2>3, UserOne, NetworkOne DEF Next
  <1>2. CASE UNCHANGED hvars
    <2>1. TypeOK /\ One /\ UNCHANGED <<state, ws, link, task, closers, subs, outstanding>>
      BY <1>2 DEF hvars, vars, HInv, OneInv
    <2> QED
      BY <2>1, Keeps, Goes DEF One, Sent, NoNewActive
  <1> QED
    BY <1>1, <1>2

\* RobotImpl has one connection at a time: without a doubled reconnect, no
\* connection but _ws is open, and every request that waits was sent on it.
THEOREM ConnectionIsUnique == HSpec => []OneConnection
  <1>1. OneInv => OneConnection
    BY DEF OneInv, HInv, One, OneLink, Sent, OneConnection
  <1> QED
    BY <1>1, InitOneInv, StepOneInv, PTL DEF HSpec

\* An outage, whoever brought it about, leaves no slot ACTIVE and no request or
\* timer behind, without a doubled reconnect.
THEOREM OutagePauses == HSpec => []DownMeansPaused
  <1>1. OneInv => DownMeansPaused
    BY DEF OneInv, One, Down, DownMeansPaused, NoneActive
  <1> QED
    BY <1>1, InitOneInv, StepOneInv, PTL DEF HSpec

-----------------------------------------------------------------------------
(***************************************************************************)
(* RestoredBeforeReady.  The counter is an upper bound, not a count: a     *)
(* slot that is dropped while it waits for its subscribe or its answer     *)
(* leaves _reconnect_subs_pending one too high for ever.  So the invariant *)
(* is that what is left to send and what is sent and not answered are      *)
(* together no more than the counter says (Counted), and that every slot   *)
(* still PAUSED is among what is left to send.                             *)
(***************************************************************************)

\* What is still to be sent, and what was and waits for its answer.
Left(tk)  == {x \in Items : \E t \in Tasks : x \in tk[t].todo}
Live(out) == {r \in out : r.live}

\* The slots that are PAUSED are among L, and L and V are no more than n.
Covered(sb, L) == \A q \in Topics : sb[q] = "PAUSED" => [topic |-> q, alive |-> TRUE] \in L
Bounded(L, V, n) ==
    IsFiniteSet(L) /\ IsFiniteSet(V) /\ Cardinality(L) + Cardinality(V) <= n

\* One task restores at a time, and only a send loop has something to send.
Alone   == \A t, u \in Restorers(task) : t = u
Carried == \A t \in Tasks : task[t].pc \notin {"flush", "resub"} => task[t].todo = {}

\* A replay that is to be sent or waits keeps READY back.
Engaged == \A t \in Tasks : task[t].pc \in {"rnew", "rwait"} => estopPending

\* The initial task never reconnects, and what it does is over before another does.
FirstTask ==
    /\ task[0].pc \notin {"sleep", "resub", "rnew", "rwait"}
    /\ state = "RECONNECTING" => /\ task[0].pc \notin {"connect", "handshake"}
                                 /\ \A t \in Tasks : task[t].pc # "flush"

Counted ==
    state = "RECONNECTING" /\ (Restorers(task) # {} \/ outstanding # {}) =>
        Covered(subs, Left(task)) /\ Bounded(Left(task), Live(outstanding), subsPending)

Restoring == Alone /\ Carried /\ Engaged /\ FirstTask /\ Counted

-----------------------------------------------------------------------------

LEMMA ImageBound ==
    ASSUME NEW S, IsFiniteSet(S), NEW T, NEW f \in [S -> T], T = {f[x] : x \in S}
    PROVE  IsFiniteSet(T) /\ Cardinality(T) <= Cardinality(S)
  <1>1. f \in Surjection(S, T)
    BY DEF Surjection
  <1> QED
    BY <1>1, FS_Surjection

LEMMA AddBound ==
    ASSUME NEW S, IsFiniteSet(S), NEW x
    PROVE  IsFiniteSet(S \cup {x}) /\ Cardinality(S \cup {x}) <= Cardinality(S) + 1
  <1>1. Cardinality(S) \in Nat
    BY FS_CardinalityType
  <1>2. /\ IsFiniteSet(S \cup {x})
        /\ Cardinality(S \cup {x}) = IF x \in S THEN Cardinality(S) ELSE Cardinality(S) + 1
    BY FS_AddElement
  <1> QED
    BY <1>1, <1>2

\* Fewer elements keep the bound.
LEMMA BoundedSubset ==
    ASSUME NEW L, NEW V, NEW n \in Nat, Bounded(L, V, n), NEW L2 \in SUBSET L, NEW V2 \in SUBSET V
    PROVE  Bounded(L2, V2, n)
  <1>1. /\ IsFiniteSet(L2) /\ IsFiniteSet(V2)
        /\ Cardinality(L2) <= Cardinality(L) /\ Cardinality(V2) <= Cardinality(V)
    BY FS_Subset DEF Bounded
  <1>2. /\ Cardinality(L) \in Nat /\ Cardinality(V) \in Nat
        /\ Cardinality(L2) \in Nat /\ Cardinality(V2) \in Nat
    BY <1>1, FS_CardinalityType DEF Bounded
  <1> QED
    BY <1>1, <1>2 DEF Bounded

\* Sending moves an element from one set to the other.
LEMMA BoundedMove ==
    ASSUME NEW L, NEW V, NEW n \in Nat, Bounded(L, V, n), NEW x \in L, NEW r,
           NEW V2 \in SUBSET (V \cup {r})
    PROVE  Bounded(L \ {x}, V2, n)
  <1>1. /\ IsFiniteSet(L \ {x}) /\ Cardinality(L \ {x}) = Cardinality(L) - 1
    BY FS_RemoveElement DEF Bounded
  <1>2. /\ IsFiniteSet(V \cup {r}) /\ Cardinality(V \cup {r}) <= Cardinality(V) + 1
    BY AddBound DEF Bounded
  <1>3. IsFiniteSet(V2) /\ Cardinality(V2) <= Cardinality(V \cup {r})
    BY <1>2, FS_Subset
  <1>4. /\ Cardinality(L) \in Nat /\ Cardinality(V) \in Nat /\ Cardinality(V2) \in Nat
        /\ Cardinality(V \cup {r}) \in Nat
    BY <1>2, <1>3, FS_CardinalityType DEF Bounded
  <1> QED
    BY <1>1, <1>2, <1>3, <1>4 DEF Bounded

\* An answer takes an element away, and one from the counter.
LEMMA BoundedAnswer ==
    ASSUME NEW L, NEW V, NEW n \in Nat, Bounded(L, V, n), NEW r \in V, NEW V2 \in SUBSET (V \ {r})
    PROVE  /\ Bounded(L, V2, n - 1) /\ n # 0
           /\ n = 1 => L = {} /\ V2 = {}
  <1>1. /\ IsFiniteSet(V \ {r}) /\ Cardinality(V \ {r}) = Cardinality(V) - 1
    BY FS_RemoveElement DEF Bounded
  <1>2. IsFiniteSet(V2) /\ Cardinality(V2) <= Cardinality(V \ {r})
    BY <1>1, FS_Subset
  <1>3. /\ Cardinality(L) \in Nat /\ Cardinality(V) \in Nat /\ Cardinality(V2) \in Nat
        /\ Cardinality(V \ {r}) \in Nat
    BY <1>1, <1>2, FS_CardinalityType DEF Bounded
  <1>4. Cardinality(L) + Cardinality(V2) <= n - 1
    BY <1>1, <1>2, <1>3 DEF Bounded
  <1>5. n = 1 => Cardinality(L) = 0 /\ Cardinality(V2) = 0
    BY <1>3, <1>4
  <1>6. n # 0
    BY <1>3, <1>4
  <1> QED
    BY <1>2, <1>4, <1>5, <1>6, FS_EmptySet DEF Bounded

\* With nothing to count nothing is left.
LEMMA BoundedZero ==
    ASSUME NEW L, NEW V, Bounded(L, V, 0)
    PROVE  L = {} /\ V = {}
  <1>1. Cardinality(L) \in Nat /\ Cardinality(V) \in Nat
    BY FS_CardinalityType DEF Bounded
  <1>2. Cardinality(L) = 0 /\ Cardinality(V) = 0
    BY <1>1 DEF Bounded
  <1> QED
    BY <1>2, FS_EmptySet DEF Bounded

\* A new request takes the place of another.
LEMMA BoundedRetry ==
    ASSUME NEW L, NEW V, NEW n \in Nat, Bounded(L, V, n), NEW r \in V, NEW s,
           NEW V2 \in SUBSET ((V \ {r}) \cup {s})
    PROVE  Bounded(L, V2, n)
  <1>1. /\ IsFiniteSet(V \ {r}) /\ Cardinality(V \ {r}) = Cardinality(V) - 1
    BY FS_RemoveElement DEF Bounded
  <1>2. /\ IsFiniteSet((V \ {r}) \cup {s})
        /\ Cardinality((V \ {r}) \cup {s}) <= Cardinality(V \ {r}) + 1
    BY <1>1, AddBound
  <1>3. IsFiniteSet(V2) /\ Cardinality(V2) <= Cardinality((V \ {r}) \cup {s})
    BY <1>2, FS_Subset
  <1>4. /\ Cardinality(L) \in Nat /\ Cardinality(V) \in Nat /\ Cardinality(V2) \in Nat
        /\ Cardinality(V \ {r}) \in Nat /\ Cardinality((V \ {r}) \cup {s}) \in Nat
    BY <1>1, <1>2, <1>3, FS_CardinalityType DEF Bounded
  <1> QED
    BY <1>1, <1>2, <1>3, <1>4 DEF Bounded

Marked(S, Q) == {IF x.topic \in Q THEN [x EXCEPT !.alive = FALSE] ELSE x : x \in S}

\* Slots that are no longer in _subs are not fewer, and not more, to send.
LEMMA OrphanedLeft ==
    ASSUME NEW tk \in Types, NEW Q, NEW V, NEW n \in Nat
    PROVE  /\ Bounded(Left(tk), V, n) => Bounded(Left(Orphaned(tk, Q)), V, n)
           /\ \A x \in Left(tk) : x.topic \notin Q => x \in Left(Orphaned(tk, Q))
  <1> DEFINE L == Left(tk)
             L2 == Left(Orphaned(tk, Q))
             f == [x \in L |-> IF x.topic \in Q THEN [x EXCEPT !.alive = FALSE] ELSE x]
  <1>1. \A t \in Tasks : tk[t] \in TaskRecs /\ tk[t].todo \subseteq Items
    BY DEF Types, TaskRecs
  <1>2. \A t \in Tasks : Orphaned(tk, Q)[t].todo = Marked(tk[t].todo, Q)
    <2>1. Orphaned(tk, Q) = [t \in Tasks |-> [tk[t] EXCEPT !.todo = Marked(tk[t].todo, Q)]]
      BY DEF Orphaned, Marked
    <2> QED
      BY <1>1, <2>1 DEF TaskRecs
  <1>3. \A x \in Items : [x EXCEPT !.alive = FALSE] \in Items
    BY DEF Items
  <1>4. L2 = Marked(L, Q)
    BY <1>1, <1>2, <1>3 DEF Marked, Left
  <1>5. f \in [L -> L2] /\ L2 = {f[x] : x \in L}
    BY <1>4 DEF Marked
  <1>7. \A x \in L : x.topic \notin Q => x \in L2
    BY <1>4 DEF Marked
  <1> HIDE DEF L, L2, f
  <1>6. ASSUME IsFiniteSet(L) PROVE IsFiniteSet(L2) /\ Cardinality(L2) <= Cardinality(L)
    BY <1>5, <1>6, ImageBound
  <1>8. Bounded(L, V, n) => Bounded(L2, V, n)
    <2> SUFFICES ASSUME Bounded(L, V, n) PROVE Bounded(L2, V, n)
      OBVIOUS
    <2>1. /\ Cardinality(L) \in Nat /\ Cardinality(L2) \in Nat /\ Cardinality(V) \in Nat
      BY <1>6, FS_CardinalityType DEF Bounded
    <2> QED
      BY <1>6, <2>1 DEF Bounded
  <1> QED
    BY <1>7, <1>8 DEF L, L2

LEMMA SlotItemsCounted ==
    /\ IsFiniteSet(SlotItems) /\ IsFiniteSet(Slots)
    /\ Cardinality(SlotItems) <= Cardinality(Slots)
  <1> DEFINE f == [q \in Slots |-> [topic |-> q, alive |-> TRUE]]
  <1>1. IsFiniteSet(Slots)
    BY SlotItemsType, BoundsAssumption, FS_Subset
  <1>2. f \in [Slots -> SlotItems] /\ SlotItems = {f[q] : q \in Slots}
    BY DEF SlotItems
  <1> HIDE DEF f
  <1> QED
    BY <1>1, <1>2, ImageBound

-----------------------------------------------------------------------------
(* What kinds of steps do to Restoring                                     *)

\* No task of tk restores, or is the first to connect, that does not already.
SlimAt(tk, t) ==
    /\ \A p \in {"flush", "resub"} : tk[t].pc = p => task[t].pc = p
    /\ tk[t].pc \in {"rnew", "rwait"} => task[t].pc \in {"rnew", "rwait"}
    /\ tk[t].pc \notin {"flush", "resub"} => tk[t].todo = {}
    /\ t = 0 => /\ tk[t].pc # "sleep"
                /\ tk[t].pc \in {"connect", "handshake"} => task[t].pc \in {"connect", "handshake"}
Slim(tk) == \A t \in Tasks : SlimAt(tk, t)

NoReplay(tk) == \A t \in Tasks : tk[t].pc \notin {"rnew", "rwait"}

LEMMA PendingNat == TypeOK => subsPending \in Nat /\ subs \in [Topics -> {"absent", "PENDING", "ACTIVE", "PAUSED"}]
  BY BoundsAssumption, FS_CardinalityType DEF TypeOK

LEMMA SlimTask == ASSUME Restoring PROVE Slim(task)
  BY DEF Restoring, Carried, FirstTask, Slim, SlimAt

LEMMA FailedSlim ==
    ASSUME NEW tk \in Types, Slim(tk), NEW how \in Futures
    PROVE  Slim(Failed(tk, how)) /\ \A t \in Tasks : Failed(tk, how)[t].todo = tk[t].todo
  <1>1. \A t \in Tasks : /\ Failed(tk, how)[t].pc = tk[t].pc
                         /\ Failed(tk, how)[t].todo = tk[t].todo
    BY DEF Failed, Types, TaskRecs
  <1> QED
    BY <1>1 DEF Slim, SlimAt

LEMMA OrphanedSlim ==
    ASSUME NEW tk \in Types, Slim(tk), NEW Q
    PROVE  Slim(Orphaned(tk, Q))
  <1>1. Orphaned(tk, Q) = [t \in Tasks |-> [tk[t] EXCEPT !.todo = Marked(tk[t].todo, Q)]]
    BY DEF Orphaned, Marked
  <1>2. \A t \in Tasks : tk[t] \in TaskRecs
    BY DEF Types
  <1>3. \A t \in Tasks : /\ Orphaned(tk, Q)[t].pc = tk[t].pc
                         /\ Orphaned(tk, Q)[t].todo = Marked(tk[t].todo, Q)
    BY <1>1, <1>2 DEF TaskRecs
  <1>4. Marked({}, Q) = {}
    BY DEF Marked
  <1> QED
    BY <1>3, <1>4 DEF Slim, SlimAt

LEMMA CancelledSlim ==
    ASSUME NEW tk \in Types, Slim(tk), NEW ending
    PROVE  /\ Slim(Cancelled(tk, ending))
           /\ \A t \in Tasks : Cancelled(tk, ending)[t].todo \subseteq tk[t].todo
  <1>1. NoTask.pc = "none" /\ NoTask.todo = {}
    BY DEF NoTask
  <1>2. \A t \in Tasks : Cancelled(tk, ending)[t] \in {NoTask, tk[t]}
    BY DEF Cancelled
  <1> QED
    BY <1>1, <1>2 DEF Slim, SlimAt

LEMMA EndedBySlim ==
    ASSUME task \in Types, Restoring, NEW t \in Tasks
    PROVE  /\ Slim(EndedBy(t)) /\ Slim([task EXCEPT ![t] = NoTask])
           /\ \A u \in Tasks : /\ EndedBy(t)[u].todo \subseteq task[u].todo
                               /\ [task EXCEPT ![t] = NoTask][u].todo \subseteq task[u].todo
           /\ task[t].pc \in {"rnew", "rwait"} =>
                  NoReplay(EndedBy(t)) /\ NoReplay([task EXCEPT ![t] = NoTask])
  <1>1. Slim(task)
    BY SlimTask
  <1>2. /\ EndedBy(t)[t].pc \in {"none", "closing"} /\ EndedBy(t)[t].todo = {}
        /\ \A u \in Tasks : u # t => EndedBy(t)[u] = task[u]
    BY DEF EndedBy, NoTask, Types
  <1>3. /\ [task EXCEPT ![t] = NoTask][t].pc = "none" /\ [task EXCEPT ![t] = NoTask][t].todo = {}
        /\ \A u \in Tasks : u # t => [task EXCEPT ![t] = NoTask][u] = task[u]
    BY DEF NoTask, Types
  <1>4. task[t].pc \in {"rnew", "rwait"} =>
            \A u \in Tasks : u # t => task[u].pc \notin {"rnew", "rwait"}
    BY DEF Restoring, Alone, Restorers
  <1> QED
    BY <1>1, <1>2, <1>3, <1>4 DEF Slim, SlimAt, NoReplay

LEMMA ScheduleSlim ==
    ASSUME NEW tk \in Types, Slim(tk), NEW s, Schedule(s, tk), attempt \in 0..MaxAttempts
    PROVE  /\ Slim(task') /\ (NoReplay(tk) => NoReplay(task'))
           /\ \A t \in Tasks : task'[t].todo = tk[t].todo
  <1>1. CASE s \in Terminal
    BY <1>1 DEF Schedule
  <1>2. CASE s \notin Terminal
    <2>1. PICK new \in {Aborter, Sleeper} : FreeTasks(tk) # {} /\ task' = Spawned(tk, new)
      BY <1>2 DEF Schedule
    <2>2. new \in TaskRecs /\ new.pc \in {"sleep", "abort"} /\ new.todo = {}
      BY NoTaskType DEF Aborter, Sleeper, NoTask
    <2>3. task'[NextTask(tk)] = new /\ tk[NextTask(tk)].pc = "none" /\ NextTask(tk) \in Tasks
      BY <2>1, <2>2, SpawnedType
    <2>4. \A t \in Tasks : t # NextTask(tk) => task'[t].pc = tk[t].pc /\ task'[t].todo = tk[t].todo
      <3>1. \A t \in Tasks : tk[t] \in TaskRecs
        BY DEF Types
      <3>2. \A t \in Tasks : t # NextTask(tk) => task'[t] \in {tk[t], [tk[t] EXCEPT !.latest = FALSE]}
        BY <2>1 DEF Spawned
      <3> QED
        BY <3>1, <3>2 DEF TaskRecs
    <2>5. NextTask(tk) # 0
      <3>1. NextTask(tk) \in FreeTasks(tk)
        BY <2>1 DEF NextTask
      <3> QED
        BY <3>1, BoundsAssumption DEF FreeTasks
    <2>6. tk[NextTask(tk)].todo = {}
      BY <2>3 DEF Slim, SlimAt
    <2>7. ASSUME NEW t \in Tasks PROVE SlimAt(task', t)
      <3>1. CASE t = NextTask(tk)
        BY <2>2, <2>3, <2>5, <3>1 DEF SlimAt
      <3>2. CASE t # NextTask(tk)
        <4>1. SlimAt(tk, t)
          BY DEF Slim
        <4> QED
          BY <2>4, <3>2, <4>1 DEF SlimAt
      <3> QED
        BY <3>1, <3>2
    <2>8. NoReplay(tk) => NoReplay(task')
      BY <2>2, <2>3, <2>4 DEF NoReplay
    <2>9. \A t \in Tasks : task'[t].todo = tk[t].todo
      BY <2>2, <2>3, <2>4, <2>6
    <2> QED
      BY <2>7, <2>8, <2>9 DEF Slim
  <1> QED
    BY <1>1, <1>2

\* A step by which nobody starts to restore.
LEMMA Slims ==
    ASSUME Restoring, Slim(task'), UNCHANGED estopPending \/ NoReplay(task'), Counted',
           state' = "RECONNECTING" =>
               state = "RECONNECTING" \/ (Restorers(task) = {} /\ task'[0].pc \notin {"connect", "handshake"})
    PROVE  Restoring'
  <1>1. Alone'
    BY DEF Restoring, Alone, Restorers, Slim, SlimAt
  <1>2. Carried'
    BY DEF Carried, Slim, SlimAt
  <1>3. Engaged'
    BY DEF Restoring, Engaged, NoReplay, Slim, SlimAt
  <1>4. FirstTask'
    BY Whos DEF Restoring, FirstTask, Restorers, Slim, SlimAt
  <1> QED
    BY <1>1, <1>2, <1>3, <1>4 DEF Restoring

\* A step that leaves the counter alone, has nothing more to send, and awaits
\* nothing more.
LEMMA CountsOn ==
    ASSUME TypeOK, Restoring, UNCHANGED subsPending, Slim(task'),
           state' = "RECONNECTING" => state = "RECONNECTING",
           outstanding' # {} => outstanding # {} \/ Restorers(task) # {},
           Live(outstanding') \subseteq Live(outstanding),
           \A n \in Nat : \A V : Bounded(Left(task), V, n) => Bounded(Left(task'), V, n),
           \A q \in Topics : subs'[q] = "PAUSED" =>
               /\ subs[q] = "PAUSED"
               /\ [topic |-> q, alive |-> TRUE] \in Left(task) => [topic |-> q, alive |-> TRUE] \in Left(task')
    PROVE  Counted'
  <1> SUFFICES ASSUME state' = "RECONNECTING", Restorers(task') # {} \/ outstanding' # {}
               PROVE  /\ Covered(subs', Left(task'))
                      /\ Bounded(Left(task'), Live(outstanding'), subsPending)
    BY DEF Counted
  <1>1. Restorers(task) # {} \/ outstanding # {}
    BY DEF Restorers, Slim, SlimAt
  <1>2. Covered(subs, Left(task)) /\ Bounded(Left(task), Live(outstanding), subsPending)
    BY <1>1 DEF Restoring, Counted
  <1>3. subsPending \in Nat
    BY PendingNat
  <1>4. Bounded(Left(task), Live(outstanding'), subsPending)
    BY <1>2, <1>3, BoundedSubset
  <1> QED
    BY <1>2, <1>3, <1>4 DEF Covered

LEMMA SameLeft ==
    ASSUME NEW tk, \A t \in Tasks : tk[t].todo = task[t].todo
    PROVE  Left(tk) = Left(task)
  BY DEF Left

\* _on_transport_close never leaves the robot RECONNECTING.
LEMMA TransportCloseRestoring ==
    ASSUME TypeOK, Restoring, NEW lk, NEW sb, NEW tk \in Types, NEW by, NEW who,
           OnTransportClose(state, lk, sb, tk, by, who), Slim(tk),
           UNCHANGED estopPending \/ NoReplay(tk)
    PROVE  Restoring'
  <1>1. state' # "RECONNECTING"
    BY DEF OnTransportClose, Terminal
  <1>2. \/ task' = tk
        \/ task' = Failed(tk, "error")
        \/ Schedule("TRANSIENT_FAILURE", Failed(tk, "error"))
    BY DEF OnTransportClose
  <1>3. /\ Failed(tk, "error") \in Types /\ Slim(Failed(tk, "error"))
        /\ NoReplay(tk) => NoReplay(Failed(tk, "error"))
    BY FailedType, FailedSlim DEF Futures, NoReplay
  <1>4. Slim(task') /\ (NoReplay(tk) => NoReplay(task'))
    BY <1>2, <1>3, ScheduleSlim DEF TypeOK
  <1>5. Counted'
    BY <1>1 DEF Counted
  <1> QED
    BY <1>1, <1>4, <1>5, Slims

\* _abort_to_fatal leaves the state alone until its close is over, and by then
\* there is no slot.
LEMMA AbortRestoring ==
    ASSUME TypeOK, Restoring, NEW tk \in Types, NEW how \in Futures, NEW by, NEW who,
           AbortToFatal(tk, how, by, who), Slim(tk), \A t \in Tasks : tk[t].todo \subseteq task[t].todo,
           UNCHANGED <<estopPending, subsPending>>
    PROVE  Restoring'
  <1>1. PICK ending : task' = Orphaned(Cancelled(Failed(tk, how), ending), Topics)
    BY DEF AbortToFatal
  <1> DEFINE f == Failed(tk, how)
             c == Cancelled(f, ending)
  <1>2. f \in Types /\ Slim(f) /\ \A t \in Tasks : f[t].todo = tk[t].todo
    BY FailedType, FailedSlim
  <1>3. c \in Types /\ Slim(c) /\ \A t \in Tasks : c[t].todo \subseteq f[t].todo
    <2> HIDE DEF f
    <2> QED
      BY <1>2, CancelledType, CancelledSlim DEF TypeOK
  <1>4. task' = Orphaned(c, Topics)
    BY <1>1
  <1> HIDE DEF f, c
  <1>5. Slim(task')
    BY <1>3, <1>4, OrphanedSlim
  <1>6. Left(c) \subseteq Left(task)
    BY <1>2, <1>3 DEF Left
  <1>7. ASSUME NEW n \in Nat, NEW V, Bounded(Left(task), V, n) PROVE Bounded(Left(task'), V, n)
    <2>1. Bounded(Left(c), V, n)
      BY <1>6, <1>7, BoundedSubset
    <2> QED
      BY <1>3, <1>4, <2>1, OrphanedLeft
  <1>8. /\ state' = "RECONNECTING" => state = "RECONNECTING"
        /\ outstanding' = {} /\ \A q \in Topics : subs'[q] = "absent"
    BY DEF AbortToFatal
  <1>9. Live(outstanding') \subseteq Live(outstanding)
    BY <1>8 DEF Live
  <1>10. Counted'
    BY <1>5, <1>7, <1>8, <1>9, CountsOn
  <1> QED
    BY <1>5, <1>8, <1>10, Slims

-----------------------------------------------------------------------------
(* The steps                                                               *)

LEMMA UserRestoring ==
    ASSUME TypeOK, One, Restoring, User
    PROVE  Restoring'
  <1>1. task \in Types /\ Slim(task) /\ outstanding \subseteq RequestRecs
    BY SlimTask DEF TypeOK, Types
  <1>2. CASE Connect
    <2>1. /\ state' = "CONNECTING" /\ UNCHANGED estopPending
          /\ task' = [task EXCEPT ![0].pc = "connect"]
          /\ \A t \in Tasks : task[t].pc \in {"none", "closing"}
      BY <1>2 DEF Connect, One, Untouched
    <2>2. \A t \in Tasks : task'[t].pc \in {"none", "closing", "connect"} /\ task'[t].todo = {}
      BY <1>1, <2>1 DEF Restoring, Carried, Types, TaskRecs
    <2>3. Alone' /\ Carried' /\ Engaged'
      BY <2>2 DEF Alone, Restorers, Carried, Engaged
    <2>4. FirstTask' /\ Counted'
      BY <2>1, <2>2, Whos DEF FirstTask, Counted
    <2> QED
      BY <2>3, <2>4 DEF Restoring
  <1>3. CASE Close
    <2>1. PICK ending : task' = Orphaned(Failed(Cancelled(task, ending), "error"), Topics)
      BY <1>3 DEF Close
    <2>2. Cancelled(task, ending) \in Types /\ Slim(Cancelled(task, ending))
      BY <1>1, CancelledType, CancelledSlim DEF TypeOK
    <2>3. /\ Failed(Cancelled(task, ending), "error") \in Types
          /\ Slim(Failed(Cancelled(task, ending), "error"))
      BY <2>2, FailedType, FailedSlim DEF Futures
    <2>4. Slim(task')
      BY <2>1, <2>3, OrphanedSlim
    <2>5. state' = "SHUTDOWN" /\ UNCHANGED estopPending
      BY <1>3 DEF Close
    <2> QED
      BY <2>4, <2>5, Slims DEF Counted
  <1>4. ASSUME NEW q \in Topics, Subscribe(q) PROVE Restoring'
    <2>1. UNCHANGED <<subsPending, estopPending>>
      BY <1>4 DEF Subscribe
    <2>2. CASE state # "READY" \/ CanSend
      <3>1. /\ subs' = [subs EXCEPT ![q] = "PENDING"] /\ UNCHANGED <<state, task>>
            /\ state # "READY" => UNCHANGED outstanding
        BY <1>4, <2>2 DEF Subscribe
      <3>2. \A p \in Topics : subs'[p] = "PAUSED" => subs[p] = "PAUSED"
        BY <3>1, PendingNat
      <3>3. Counted'
        <4>1. CASE state = "READY"
          BY <3>1, <4>1 DEF Counted
        <4>2. CASE state # "READY"
          BY <1>1, <2>1, <3>1, <3>2, <4>2, CountsOn
        <4> QED
          BY <4>1, <4>2
      <3> QED
        BY <1>1, <2>1, <3>1, <3>3, Slims
    <2>3. CASE ~(state # "READY" \/ CanSend)
      <3>1. OnTransportClose(state, link, [subs EXCEPT ![q] = "PENDING"], task, "user", 0)
        BY <1>4, <2>3 DEF Subscribe
      <3> QED
        BY <1>1, <2>1, <3>1, TransportCloseRestoring
    <2> QED
      BY <2>2, <2>3
  <1>5. ASSUME NEW q \in Topics, Unsubscribe(q) PROVE Restoring'
    <2>1. /\ subs' = [subs EXCEPT ![q] = "absent"] /\ task' = Orphaned(task, {q})
          /\ outstanding' = {IF r.topic = q THEN [r EXCEPT !.live = FALSE] ELSE r : r \in outstanding}
          /\ UNCHANGED <<state, subsPending, estopPending>>
      BY <1>5 DEF Unsubscribe
    <2>2. Slim(task')
      BY <1>1, <2>1, OrphanedSlim
    <2>3. Live(outstanding') \subseteq Live(outstanding)
      <3>1. \A r \in outstanding : ~[r EXCEPT !.live = FALSE].live
        BY <1>1 DEF RequestRecs
      <3> QED
        BY <2>1, <3>1 DEF Live
    <2>4. outstanding' # {} => outstanding # {}
      BY <2>1
    <2>5. /\ \A n \in Nat : \A V : Bounded(Left(task), V, n) => Bounded(Left(task'), V, n)
          /\ \A x \in Left(task) : x.topic # q => x \in Left(task')
      BY <1>1, <2>1, OrphanedLeft
    <2>6. \A p \in Topics : subs'[p] = "PAUSED" => p # q /\ subs[p] = "PAUSED"
      BY <2>1, PendingNat
    <2>7. Counted'
      BY <2>1, <2>2, <2>3, <2>4, <2>5, <2>6, CountsOn
    <2> QED
      BY <2>1, <2>2, <2>7, Slims
  <1>6. ASSUME NEW engage \in BOOLEAN, EmergencyStopAcked(engage) PROVE Restoring'
    <2>1. state # "RECONNECTING" /\ UNCHANGED <<state, task, estopPending>>
      BY <1>6 DEF EmergencyStopAcked
    <2> QED
      BY <1>1, <2>1, Slims DEF Counted
  <1> QED
    BY <1>2, <1>3, <1>4, <1>5, <1>6 DEF User

\* A step that gives task t another record with the same to send.
LEMMA OneMoves ==
    ASSUME TypeOK, Restoring, NEW t \in Tasks, NEW new, task' = [task EXCEPT ![t] = new],
           new.todo = task[t].todo, Slim(task'),
           UNCHANGED <<outstanding, subs, subsPending, estopPending>>,
           state' = "RECONNECTING" => state = "RECONNECTING"
    PROVE  Restoring'
  <1>1. \A u \in Tasks : task'[u].todo = task[u].todo
    BY DEF TypeOK
  <1>2. Left(task') = Left(task)
    BY <1>1, SameLeft
  <1>3. Counted'
    BY <1>2, CountsOn
  <1> QED
    BY <1>3, Slims

LEMMA ConnectRestoring ==
    ASSUME TypeOK, One, Restoring, NEW t \in Tasks, ~Twice',
           SleepEnds(t) \/ ConnectOk(t) \/ ConnectFails(t) \/ ConnectFatal(t) \/ ConnectCrashes(t)
    PROVE  Restoring'
  <1>1. task \in Types /\ Slim(task) /\ task[t] \in TaskRecs /\ NoTask.todo = {}
    BY SlimTask DEF TypeOK, Types, NoTask
  <1>2. CASE SleepEnds(t)
    <2>1. task[t].pc = "sleep" /\ t # 0 /\ task[t].todo = {} /\ UNCHANGED <<outstanding, subs, subsPending, estopPending>>
      BY <1>2 DEF SleepEnds, Restoring, FirstTask, Carried
    <2>2. CASE state # "TRANSIENT_FAILURE"
      <3>1. task' = [task EXCEPT ![t] = NoTask] /\ UNCHANGED state
        BY <1>2, <2>2 DEF SleepEnds
      <3> QED
        BY <1>1, <2>1, <3>1, EndedBySlim, OneMoves
    <2>3. CASE state = "TRANSIENT_FAILURE"
      <3>1. Restorers(task) = {} /\ outstanding = {}
        BY <1>2, <2>3, NothingLeft DEF SleepEnds, One, Down
      <3>2. /\ state' = "RECONNECTING" /\ task'[t].pc = "connect" /\ task'[t].todo = {}
            /\ \A u \in Tasks : u # t => task'[u] = task[u]
        BY <1>1, <1>2, <2>1, <2>3 DEF SleepEnds, Types, TaskRecs
      <3>3. Slim(task')
        BY <1>1, <2>1, <3>2 DEF Slim, SlimAt
      <3>4. task'[0].pc \notin {"connect", "handshake"}
        BY <2>1, <3>2, Whos DEF Twice, Reconnecting
      <3>5. Restorers(task') = {}
        BY <3>1, <3>2 DEF Restorers
      <3> QED
        BY <2>1, <3>1, <3>3, <3>4, <3>5, Slims DEF Counted
    <2> QED
      BY <2>2, <2>3
  <1>3. task[t].pc = "connect" => task[t].todo = {}
    BY DEF Restoring, Carried
  <1>4. CASE ConnectOk(t)
    <2>1. PICK k \in Conns : /\ link' = [link EXCEPT ![k] = "up"] /\ ws' = k
                             /\ task' = [task EXCEPT ![t].pc = "handshake", ![t].conn = k,
                                                     ![t].fut = "wait"]
      BY <1>4, Zenon DEF ConnectOk
    <2>2. task[t].pc = "connect" /\ UNCHANGED <<state, outstanding, subs, subsPending, estopPending>>
      BY <1>4, Zenon DEF ConnectOk
    <2> DEFINE new == [task[t] EXCEPT !.pc = "handshake", !.conn = k, !.fut = "wait"]
    <2>3. task' = [task EXCEPT ![t] = new] /\ new.pc = "handshake" /\ new.todo = {}
      BY <1>1, <1>3, <2>1, <2>2 DEF Types, TaskRecs
    <2> HIDE DEF new
    <2>4. Slim(task')
      BY <1>1, <2>2, <2>3 DEF Slim, SlimAt, Types
    <2> QED
      BY <1>3, <2>2, <2>3, <2>4, OneMoves
  <1>5. CASE ConnectFails(t)
    <2> DEFINE tk == [task EXCEPT ![t] = NoTask]
    <2>1. state' = "TRANSIENT_FAILURE" /\ Schedule("TRANSIENT_FAILURE", tk) /\ UNCHANGED estopPending
      BY <1>5 DEF ConnectFails
    <2>2. tk \in Types /\ Slim(tk)
      BY <1>1, NoTaskType, EndedBySlim DEF Types, TypeOK
    <2> HIDE DEF tk
    <2>3. Slim(task')
      BY <2>1, <2>2, ScheduleSlim DEF TypeOK
    <2> QED
      BY <2>1, <2>3, Slims DEF Counted
  <1>6. CASE ConnectFatal(t)
    <2>1. AbortToFatal(EndedBy(t), "fatal", "task", t) /\ UNCHANGED <<estopPending, subsPending>>
      BY <1>6 DEF ConnectFatal
    <2> QED
      BY <1>1, <2>1, EndedByType, EndedBySlim, AbortRestoring DEF Futures
  <1>7. CASE ConnectCrashes(t)
    <2> DEFINE new == IF t # 0 THEN NoTask ELSE [NoTask EXCEPT !.pc = "abort"]
    <2>1. /\ task' = [task EXCEPT ![t] = new] /\ task[t].pc = "connect"
          /\ UNCHANGED <<state, outstanding, subs, subsPending, estopPending>>
      BY <1>7 DEF ConnectCrashes
    <2>2. new.pc \in {"none", "abort"} /\ new.todo = {}
      BY DEF NoTask
    <2> HIDE DEF new
    <2>3. Slim(task')
      BY <1>1, <2>1, <2>2 DEF Slim, SlimAt, Types
    <2> QED
      BY <1>3, <2>1, <2>2, <2>3, OneMoves
  <1> QED
    BY <1>2, <1>4, <1>5, <1>6, <1>7

LEMMA HandshakeRestoring ==
    ASSUME TypeOK, One, Restoring, NEW t \in Tasks, ~Twice', ~Twice,
           HandshakeFails(t) \/ HandshakeFatal(t) \/ HandshakeOkAgain(t)
               \/ (HandshakeOkInitial /\ t = 0)
    PROVE  Restoring'
  <1>1. task \in Types /\ Slim(task) /\ NoTask.todo = {} /\ NoTask.pc = "none"
    BY SlimTask DEF TypeOK, Types, NoTask
  <1>2. task[t].pc = "handshake"
    BY Zenon DEF HandshakeFails, HandshakeFatal, HandshakeOkAgain, HandshakeOkInitial
  <1>3. Restorers(task) = {} /\ outstanding = {} /\ \A u \in Tasks : task[u].todo = {}
    BY <1>2 DEF One, Fresh, Establishing, Restoring, Carried, Restorers
  <1>4. CASE HandshakeFatal(t)
    <2>1. AbortToFatal(EndedBy(t), "fatal", "task", t) /\ UNCHANGED <<estopPending, subsPending>>
      BY <1>4 DEF HandshakeFatal
    <2> QED
      BY <1>1, <2>1, EndedByType, EndedBySlim, AbortRestoring DEF Futures
  <1>5. CASE HandshakeFails(t)
    <2>1. state' = "TRANSIENT_FAILURE" /\ UNCHANGED estopPending
      BY <1>5 DEF HandshakeFails
    <2>2. Slim(task')
      <3>1. CASE ws = 0
        <4>1. Schedule("TRANSIENT_FAILURE", [task EXCEPT ![t] = NoTask])
          BY <1>5, <3>1 DEF HandshakeFails
        <4>2. [task EXCEPT ![t] = NoTask] \in Types /\ Slim([task EXCEPT ![t] = NoTask])
          BY <1>1, NoTaskType, EndedBySlim DEF Types, TypeOK
        <4> QED
          BY <4>1, <4>2, ScheduleSlim DEF TypeOK
      <3>2. CASE ws # 0
        BY <1>1, <1>5, <3>2, EndedBySlim DEF HandshakeFails
      <3> QED
        BY <3>1, <3>2
    <2> QED
      BY <2>1, <2>2, Slims DEF Counted
  <1>6. CASE HandshakeOkAgain(t) /\ Slots = {} /\ ~intent
    <2>1. state' = "READY" /\ task' = [task EXCEPT ![t] = NoTask]
      BY <1>6 DEF HandshakeOkAgain, ReadyAgain
    <2>2. Slim(task') /\ NoReplay(task')
      <3>1. Slim(task')
        BY <1>1, <2>1, EndedBySlim
      <3>2. NoReplay(task')
        BY <1>3, <3>1 DEF NoReplay, Slim, SlimAt, Restorers
      <3> QED
        BY <3>1, <3>2
    <2> QED
      BY <2>1, <2>2, Slims DEF Counted
  <1>7. CASE (HandshakeOkAgain(t) /\ ~(Slots = {} /\ ~intent)) \/ (HandshakeOkInitial /\ t = 0)
    <2>1. /\ task'[t].pc \in {"flush", "resub"} /\ task'[t].todo = SlotItems
          /\ \A u \in Tasks : u # t => task'[u] = task[u]
          /\ task'[t].pc = "flush" => state' = "READY"
          /\ task'[t].pc = "resub" => /\ t # 0 /\ UNCHANGED state
                                      /\ subsPending' = Cardinality(Slots)
          /\ UNCHANGED <<subs, outstanding>>
      <3>1. CASE HandshakeOkInitial /\ t = 0
        <4> DEFINE flush == [NoTask EXCEPT !.pc = "flush", !.todo = SlotItems]
        <4>1. task' = [task EXCEPT ![t] = flush] /\ state' = "READY" /\ UNCHANGED <<subs, outstanding>>
          BY <3>1 DEF HandshakeOkInitial
        <4>2. flush.pc = "flush" /\ flush.todo = SlotItems
          BY DEF NoTask
        <4> HIDE DEF flush
        <4> QED
          BY <1>1, <4>1, <4>2 DEF Types
      <3>2. CASE HandshakeOkAgain(t) /\ ~(Slots = {} /\ ~intent)
        <4> DEFINE resub == [NoTask EXCEPT !.pc = "resub", !.todo = SlotItems, !.latest = task[t].latest]
        <4>1. /\ task' = [task EXCEPT ![t] = resub] /\ t # 0
              /\ subsPending' = Cardinality(Slots) /\ UNCHANGED <<state, subs, outstanding>>
          BY <3>2 DEF HandshakeOkAgain
        <4>2. resub.pc = "resub" /\ resub.todo = SlotItems
          BY DEF NoTask
        <4> HIDE DEF resub
        <4> QED
          BY <1>1, <4>1, <4>2 DEF Types
      <3> QED
        BY <1>7, <3>1, <3>2
    <2>2. Alone' /\ Carried' /\ Engaged'
      BY <1>3, <2>1 DEF Alone, Restorers, Carried, Engaged
    <2>3. FirstTask'
      <3>1. t = 0 => task'[0].pc = "flush" /\ state' = "READY"
        BY <2>1
      <3>2. t # 0 => task'[0] = task[0]
        BY <2>1, Whos
      <3>3. state' = "RECONNECTING" => state = "RECONNECTING" /\ task'[t].pc = "resub"
        BY <2>1
      <3> QED
        BY <1>3, <2>1, <3>1, <3>2, <3>3, Whos DEF Restoring, FirstTask, Restorers
    <2>4. Counted'
      <3> SUFFICES ASSUME state' = "RECONNECTING"
                   PROVE  /\ Covered(subs', Left(task'))
                          /\ Bounded(Left(task'), Live(outstanding'), subsPending')
        BY DEF Counted
      <3>1. Left(task') = SlotItems
        BY <1>3, <2>1, SlotItemsType DEF Left
      <3>2. Covered(subs', Left(task'))
        BY <2>1, <3>1 DEF Covered, SlotItems, Slots
      <3>3. Live(outstanding') = {} /\ subsPending' = Cardinality(Slots)
        BY <1>3, <2>1 DEF Live
      <3>4. /\ Cardinality(SlotItems) \in Nat /\ Cardinality(Slots) \in Nat
            /\ IsFiniteSet({}) /\ Cardinality({}) = 0
        BY SlotItemsCounted, FS_CardinalityType, FS_EmptySet
      <3> QED
        BY <3>1, <3>2, <3>3, <3>4, SlotItemsCounted DEF Bounded
    <2> QED
      BY <2>2, <2>3, <2>4 DEF Restoring
  <1> QED
    BY <1>4, <1>5, <1>6, <1>7

\* A request that takes another's place is the only new one.
LEMMA RegisteredLive ==
    ASSUME outstanding \subseteq RequestRecs, NEW q, NEW alive, NEW retry
    PROVE  Live(Registered(q, alive, retry)) \subseteq
               Live(outstanding) \cup {[topic |-> q, conn |-> ws, live |-> alive, retry |-> retry]}
  <1>1. \A r \in outstanding : ~[r EXCEPT !.live = FALSE].live
    BY DEF RequestRecs
  <1> QED
    BY <1>1 DEF Registered, Live

LEMMA SendRestoring ==
    ASSUME TypeOK, Restoring, NEW t \in Tasks, SendNext(t)
    PROVE  Restoring'
  <1>1. task \in Types /\ Slim(task) /\ task[t] \in TaskRecs /\ outstanding \subseteq RequestRecs
    BY SlimTask DEF TypeOK, Types
  <1> DEFINE rest(x)  == [task EXCEPT ![t].todo = @ \ {x}]
             slots(x) == IF x.alive THEN [subs EXCEPT ![x.topic] = "PENDING"] ELSE subs
             skip(x)  == /\ task[t].pc = "flush"
                         /\ \/ ~x.alive \/ subs[x.topic] # "PENDING"
                            \/ \E r \in outstanding : r.topic = x.topic /\ r.live
  <1>2. PICK x \in task[t].todo :
          /\ task[t].pc \in {"flush", "resub"}
          /\ IF skip(x) \/ CanSend
             THEN /\ task' = rest(x)
                  /\ subs' = IF skip(x) THEN subs ELSE slots(x)
                  /\ outstanding' = IF skip(x) THEN outstanding
                                    ELSE Registered(x.topic, x.alive, FALSE)
                  /\ UNCHANGED <<state, ws, link, closers, hb, attempt>>
             ELSE OnTransportClose(state, link, slots(x), rest(x), "task", t)
    BY DEF SendNext
  <1>3. UNCHANGED <<subsPending, estopPending>>
    BY DEF SendNext
  <1>4. /\ rest(x)[t].todo = task[t].todo \ {x} /\ rest(x)[t].pc = task[t].pc
        /\ \A u \in Tasks : u # t => rest(x)[u] = task[u]
    BY <1>1 DEF Types, TaskRecs
  <1>5. rest(x) \in Types
    BY <1>1 DEF Types, TaskRecs
  <1>6. Slim(rest(x))
    BY <1>1, <1>2, <1>4 DEF Slim, SlimAt
  <1>7. \A u \in Tasks : u # t => task[u].todo = {}
    BY <1>2 DEF Restoring, Alone, Carried, Restorers
  <1>8. x \in Items /\ task[t].todo \subseteq Items
    BY <1>1 DEF TaskRecs
  <1>9. Left(task) = task[t].todo /\ Left(rest(x)) = Left(task) \ {x}
    <2> HIDE DEF rest
    <2> QED
      BY <1>4, <1>7, <1>8 DEF Left
  <1>10. CASE skip(x) \/ CanSend
    <2>1. Counted'
      <3> SUFFICES ASSUME state' = "RECONNECTING"
                   PROVE  /\ Covered(subs', Left(task'))
                          /\ Bounded(Left(task'), Live(outstanding'), subsPending')
        BY DEF Counted
      <3>1. state = "RECONNECTING" /\ ~skip(x)
        BY <1>2, <1>10 DEF Restoring, FirstTask
      <3>2. /\ Covered(subs, Left(task))
            /\ Bounded(Left(task), Live(outstanding), subsPending)
        BY <1>2, <3>1 DEF Restoring, Counted, Restorers
      <3> DEFINE new == [topic |-> x.topic, conn |-> ws, live |-> x.alive, retry |-> FALSE]
      <3>3. Live(outstanding') \subseteq Live(outstanding) \cup {new}
        BY <1>1, <1>2, <1>10, <3>1, RegisteredLive
      <3> HIDE DEF new
      <3>4. Left(task') = Left(task) \ {x} /\ subs' = slots(x)
        BY <1>2, <1>9, <1>10, <3>1
      <3>5. Bounded(Left(task'), Live(outstanding'), subsPending')
        <4>1. subsPending \in Nat /\ x \in Left(task)
          BY <1>9, PendingNat
        <4>2. Bounded(Left(task) \ {x}, Live(outstanding'), subsPending)
          BY <3>2, <3>3, <4>1, BoundedMove
        <4> QED
          BY <1>3, <3>4, <4>2
      <3>6. \A q \in Topics : slots(x)[q] = "PAUSED" =>
                subs[q] = "PAUSED" /\ [topic |-> q, alive |-> TRUE] # x
        BY PendingNat
      <3> QED
        BY <3>2, <3>4, <3>5, <3>6 DEF Covered
    <2> HIDE DEF rest, slots, skip
    <2> QED
      BY <1>2, <1>3, <1>6, <1>10, <2>1, Slims
  <1>11. CASE ~(skip(x) \/ CanSend)
    <2> HIDE DEF rest, slots, skip
    <2> QED
      BY <1>2, <1>3, <1>5, <1>6, <1>11, TransportCloseRestoring
  <1> QED
    BY <1>10, <1>11

\* The loop is over: the replay takes over, in the same task.
LEMMA SendsDoneRestoring ==
    ASSUME TypeOK, Restoring, NEW t \in Tasks, SendsDone(t)
    PROVE  Restoring'
  <1> DEFINE new == IF task[t].pc = "resub" /\ estopPending THEN [NoTask EXCEPT !.pc = "rnew"] ELSE NoTask
  <1>1. /\ task[t].pc \in {"flush", "resub"} /\ task[t].todo = {} /\ task' = [task EXCEPT ![t] = new]
        /\ UNCHANGED <<state, outstanding, subs, subsPending, estopPending>>
    BY DEF SendsDone
  <1>2. /\ new.todo = {} /\ new.pc \in {"none", "rnew"}
        /\ new.pc = "rnew" => estopPending /\ task[t].pc = "resub"
    BY DEF NoTask
  <1> HIDE DEF new
  <1>3. task'[t] = new /\ \A u \in Tasks : u # t => task'[u] = task[u]
    BY <1>1 DEF TypeOK
  <1>4. /\ Alone' /\ Carried'
    BY <1>1, <1>2, <1>3 DEF Restoring, Alone, Restorers, Carried
  <1>5. Engaged'
    BY <1>1, <1>2, <1>3 DEF Restoring, Engaged
  <1>6. FirstTask'
    BY <1>1, <1>2, <1>3, Whos DEF Restoring, FirstTask
  <1>7. Left(task') = Left(task)
    BY <1>1, <1>2, <1>3, SameLeft
  <1>8. Counted'
    BY <1>1, <1>7 DEF Restoring, Counted, Restorers
  <1> QED
    BY <1>4, <1>5, <1>6, <1>8 DEF Restoring

LEMMA ReplayRestoring ==
    ASSUME TypeOK, Restoring, NEW t \in Tasks, ReplayBegins(t) \/ ReplayAcked(t) \/ ReplayFailed(t)
    PROVE  Restoring'
  <1>1. /\ task \in Types /\ Slim(task) /\ task[t] \in TaskRecs
        /\ EndedBy(t) \in Types
    BY EndedByType, SlimTask DEF TypeOK, Types
  <1>2. task[t].pc \in {"rnew", "rwait"} /\ UNCHANGED subsPending
    BY Zenon DEF ReplayBegins, ReplayAcked, ReplayFailed
  <1>3. /\ Slim(EndedBy(t)) /\ NoReplay(EndedBy(t))
        /\ Slim([task EXCEPT ![t] = NoTask]) /\ NoReplay([task EXCEPT ![t] = NoTask])
    BY <1>1, <1>2, EndedBySlim
  <1>4. CASE OnTransportClose(state, link, subs, EndedBy(t), "task", t)
    BY <1>1, <1>3, <1>4, TransportCloseRestoring
  <1>5. CASE ReplayBegins(t) /\ CanSend
    <2> DEFINE new == [task[t] EXCEPT !.pc = "rwait", !.conn = ws, !.fut = "wait"]
    <2>1. task' = [task EXCEPT ![t] = new] /\ new.pc = "rwait" /\ new.todo = task[t].todo
      BY <1>1, <1>5 DEF ReplayBegins, Types, TaskRecs
    <2>2. UNCHANGED <<state, outstanding, subs, subsPending, estopPending>>
      BY <1>2, <1>5 DEF ReplayBegins
    <2> HIDE DEF new
    <2>3. Slim(task')
      BY <1>1, <1>2, <2>1 DEF Slim, SlimAt, Types
    <2> QED
      BY <2>1, <2>2, <2>3, OneMoves
  <1>6. CASE ReplayAcked(t)
    <2>1. /\ task' = [task EXCEPT ![t] = NoTask] /\ UNCHANGED <<subs, outstanding>>
          /\ state' = "READY" \/ UNCHANGED state
      BY <1>6 DEF ReplayAcked, ReadyAgain
    <2>2. \A u \in Tasks : task'[u].todo = task[u].todo
      BY <1>1, <1>2, <2>1 DEF Restoring, Carried, NoTask, Types
    <2>3. Left(task') = Left(task) /\ Slim(task') /\ NoReplay(task')
      BY <1>3, <2>1, <2>2, SameLeft
    <2>4. Counted'
      BY <1>2, <2>1, <2>3, CountsOn
    <2> QED
      BY <2>1, <2>3, <2>4, Slims
  <1> QED
    BY <1>4, <1>5, <1>6 DEF ReplayBegins, ReplayFailed

LEMMA AbortBeginsRestoring ==
    ASSUME TypeOK, Restoring, NEW t \in Tasks, AbortBegins(t)
    PROVE  Restoring'
  <1>1. task \in Types /\ EndedBy(t) \in Types
    BY EndedByType DEF TypeOK, Types
  <1>2. /\ AbortToFatal(EndedBy(t), "error", "task", t) /\ UNCHANGED <<subsPending, estopPending>>
    BY DEF AbortBegins
  <1> QED
    BY <1>1, <1>2, EndedBySlim, AbortRestoring DEF Futures

LEMMA AckRestoring ==
    ASSUME TypeOK, Restoring, NEW r \in outstanding,
           NEW v \in {"accepted", "rejected", "busy", "fatal", "too_old"}, HandleAck(r, v)
    PROVE  Restoring'
  <1>1. /\ task \in Types /\ Slim(task) /\ outstanding \subseteq RequestRecs /\ r \in RequestRecs
        /\ subsPending \in Nat /\ r.topic \in Topics
    BY SlimTask, PendingNat DEF TypeOK, Types, RequestRecs
  <1>2. UNCHANGED estopPending
    BY DEF HandleAck
  <1> DEFINE rest == outstanding \ {r}
             slot == r.live /\ subs[r.topic] # "absent"
  <1>3. CASE OnTransportClose(state, link, subs, task, "reader", r.conn)
    BY <1>1, <1>2, <1>3, TransportCloseRestoring
  <1>4. CASE AbortToFatal(task, "fatal", "reader", r.conn) /\ UNCHANGED subsPending
    BY <1>1, <1>2, <1>4, AbortRestoring DEF Futures
  <1>5. CASE ~slot /\ outstanding' = rest /\ UNCHANGED <<state, task, subs, subsPending>>
    <2>1. Live(outstanding') \subseteq Live(outstanding) /\ outstanding # {}
      BY <1>5 DEF Live
    <2>2. Counted'
      BY <1>1, <1>5, <2>1, CountsOn
    <2> QED
      BY <1>1, <1>2, <1>5, <2>2, Slims
  <1>6. ASSUME slot, outstanding' = rest, MaybeFinishReconnect(state = "RECONNECTING"),
               \/ task' = task /\ subs' = [subs EXCEPT ![r.topic] = "ACTIVE"]
               \/ task' = Orphaned(task, {r.topic}) /\ subs' = [subs EXCEPT ![r.topic] = "absent"]
        PROVE  Restoring'
    <2>1. state' = "READY" \/ UNCHANGED state
      BY <1>6, Zenon DEF MaybeFinishReconnect, ReadyAgain
    <2>2. Slim(task')
      BY <1>1, <1>6, OrphanedSlim
    <2>3. Counted'
      <3> SUFFICES ASSUME state' = "RECONNECTING"
                   PROVE  /\ Covered(subs', Left(task'))
                          /\ Bounded(Left(task'), Live(outstanding'), subsPending')
        BY DEF Counted
      <3>1. state = "RECONNECTING"
        BY <2>1
      <3>2. /\ Covered(subs, Left(task)) /\ Bounded(Left(task), Live(outstanding), subsPending)
        BY <3>1 DEF Restoring, Counted
      <3>3. r \in Live(outstanding) /\ Live(outstanding') \subseteq Live(outstanding) \ {r}
        BY <1>6 DEF Live
      <3>4. Bounded(Left(task), Live(outstanding'), subsPending - 1) /\ subsPending # 0
        BY <1>1, <3>2, <3>3, BoundedAnswer
      <3>5. subsPending' = subsPending - 1 /\ subsPending - 1 \in Nat
        <4>1. subsPending > 0
          BY <1>1, <3>4
        <4>2. subsPending' = subsPending - 1
          BY <1>6, <3>1, <4>1 DEF MaybeFinishReconnect
        <4> QED
          BY <1>1, <4>1, <4>2
      <3>6. /\ Bounded(Left(task'), Live(outstanding'), subsPending - 1)
            /\ \A x \in Left(task) : x.topic # r.topic => x \in Left(task')
        <4>1. CASE task' = task
          BY <3>4, <4>1
        <4>2. CASE task' = Orphaned(task, {r.topic})
          BY <1>1, <3>4, <3>5, <4>2, OrphanedLeft
        <4> QED
          BY <1>6, <4>1, <4>2
      <3>7. \A p \in Topics : subs'[p] = "PAUSED" => p # r.topic /\ subs[p] = "PAUSED"
        BY <1>1, <1>6, PendingNat
      <3>8. Covered(subs', Left(task'))
        BY <3>2, <3>6, <3>7 DEF Covered
      <3> QED
        BY <3>5, <3>6, <3>8
    <2> QED
      BY <1>2, <2>1, <2>2, <2>3, Slims
  <1>7. CASE /\ state # "RECONNECTING" /\ UNCHANGED state
             /\ task' = Orphaned(task, {r.topic})
    BY <1>1, <1>2, <1>7, OrphanedSlim, Slims DEF Counted
  <1>8. CASE /\ slot /\ outstanding' = rest \cup {[r EXCEPT !.conn = ws, !.retry = TRUE]}
             /\ subs' = [subs EXCEPT ![r.topic] = "PENDING"] /\ UNCHANGED <<state, task, subsPending>>
    <2>1. Counted'
      <3> SUFFICES ASSUME state' = "RECONNECTING"
                   PROVE  /\ Covered(subs', Left(task'))
                          /\ Bounded(Left(task'), Live(outstanding'), subsPending')
        BY DEF Counted
      <3> DEFINE s == [r EXCEPT !.conn = ws, !.retry = TRUE]
      <3>1. /\ Covered(subs, Left(task)) /\ Bounded(Left(task), Live(outstanding), subsPending)
        BY <1>8 DEF Restoring, Counted
      <3>2. r \in Live(outstanding) /\ Live(outstanding') \subseteq (Live(outstanding) \ {r}) \cup {s}
        BY <1>8 DEF Live
      <3> HIDE DEF s
      <3>3. Bounded(Left(task), Live(outstanding'), subsPending)
        BY <1>1, <3>1, <3>2, BoundedRetry
      <3>4. \A p \in Topics : subs'[p] = "PAUSED" => subs[p] = "PAUSED"
        BY <1>1, <1>8, PendingNat
      <3> QED
        BY <1>8, <3>1, <3>3, <3>4 DEF Covered
    <2> QED
      BY <1>1, <1>2, <1>8, <2>1, Slims
  <1> QED
    BY <1>3, <1>4, <1>5, <1>6, <1>7, <1>8 DEF HandleAck

LEMMA CloseReturnsRestoring ==
    ASSUME TypeOK, Restoring, NEW c \in closers, CloseReturns(c)
    PROVE  Restoring'
  <1> DEFINE ended == [t \in Tasks |-> IF c.by = "task" /\ c.who = t /\ task[t].pc = "closing"
                                       THEN NoTask ELSE task[t]]
  <1>1. /\ IF c.kind = "retry" THEN Schedule(state, ended) ELSE task' = ended
        /\ state' = IF c.kind = "fatal" THEN "FATAL" ELSE state
        /\ UNCHANGED <<subs, outstanding, subsPending, estopPending>>
    BY DEF CloseReturns
  <1>2. task \in Types /\ Slim(task) /\ NoTask \in TaskRecs /\ NoTask.pc = "none" /\ NoTask.todo = {}
    BY SlimTask, NoTaskType DEF TypeOK, Types, NoTask
  <1>3. ended \in Types /\ Slim(ended) /\ \A t \in Tasks : ended[t].todo = task[t].todo
    BY <1>2 DEF Types, Slim, SlimAt, Restoring, Carried
  <1> HIDE DEF ended
  <1>4. Slim(task') /\ \A t \in Tasks : task'[t].todo = task[t].todo
    BY <1>1, <1>3, ScheduleSlim DEF TypeOK
  <1>5. Left(task') = Left(task)
    BY <1>4, SameLeft
  <1>6. Counted'
    BY <1>1, <1>4, <1>5, CountsOn
  <1> QED
    BY <1>1, <1>4, <1>6, Slims

LEMMA NetworkRestoring ==
    ASSUME TypeOK, Restoring, Network
    PROVE  Restoring'
  <1>1. task \in Types /\ Slim(task)
    BY SlimTask DEF TypeOK, Types
  <1>2. ASSUME NEW t \in Tasks, NEW v, Answered(t, v) \/ Unanswered(t, v)
        PROVE  Restoring'
    <2> DEFINE new == [task[t] EXCEPT !.fut = v]
    <2>1. task' = [task EXCEPT ![t] = new] /\ new.pc = task[t].pc /\ new.todo = task[t].todo
      BY <1>1, <1>2 DEF Answered, Unanswered, Types, TaskRecs
    <2>2. UNCHANGED <<state, outstanding, subs, subsPending, estopPending>>
      BY <1>2 DEF Answered, Unanswered
    <2> HIDE DEF new
    <2>3. Slim(task')
      BY <1>1, <2>1 DEF Slim, SlimAt, Types
    <2> QED
      BY <2>1, <2>2, <2>3, OneMoves
  <1>3. ASSUME UNCHANGED <<state, task, outstanding, subs, subsPending, estopPending>> PROVE Restoring'
    <2>1. Counted'
      BY <1>1, <1>3, CountsOn
    <2> QED
      BY <1>1, <1>3, <2>1, Slims
  <1>4. ASSUME NEW k \in Conns, LinkFails(k) \/ PeerCloses(k) \/ ServerCloses(k) PROVE Restoring'
    BY <1>3, <1>4 DEF LinkFails, PeerCloses, ServerCloses, OnlyLink
  <1>5. ASSUME NEW k \in Conns, ReaderNotices(k) PROVE Restoring'
    BY <1>1, <1>5, TransportCloseRestoring DEF ReaderNotices
  <1>6. CASE HeartbeatDead
    BY <1>1, <1>6, TransportCloseRestoring DEF HeartbeatDead
  <1>7. CASE HeartbeatEnds
    BY <1>3, <1>7 DEF HeartbeatEnds
  <1>8. ASSUME NEW r \in outstanding, AckTimeout(r) PROVE Restoring'
    BY <1>1, <1>8, TransportCloseRestoring DEF AckTimeout
  <1> QED
    BY <1>2, <1>4, <1>5, <1>6, <1>7, <1>8, AckRestoring, CloseReturnsRestoring DEF Network

-----------------------------------------------------------------------------

RestoringInv == OneInv /\ (~doubled => Restoring)

LEMMA InitRestoringInv == HInit => RestoringInv
  <1> SUFFICES ASSUME HInit PROVE Restoring
    BY InitOneInv DEF RestoringInv
  <1>1. state = "IDLE" /\ \A t \in Tasks : task[t].pc = "none" /\ task[t].todo = {}
    BY DEF HInit, Init, NoTask
  <1> QED
    BY <1>1, Whos DEF Restoring, Alone, Restorers, Carried, Engaged, FirstTask, Counted

LEMMA StepRestoringInv == RestoringInv /\ [HNext]_hvars => RestoringInv'
  <1> SUFFICES ASSUME RestoringInv, [HNext]_hvars, ~doubled' PROVE Restoring'
    BY StepOneInv DEF RestoringInv
  <1>1. CASE HNext
    <2>1. TypeOK /\ ~Twice /\ ~Twice' /\ One /\ Restoring /\ Next
      BY <1>1 DEF HNext, HInv, OneInv, RestoringInv
    <2>2. ASSUME NEW t \in Tasks, Establish(t) PROVE Restoring'
      BY <2>1, <2>2, ConnectRestoring, HandshakeRestoring, SendRestoring, SendsDoneRestoring,
         ReplayRestoring, AbortBeginsRestoring DEF Establish
    <2>3. CASE HandshakeOkInitial
      BY <2>1, <2>3, HandshakeRestoring, Whos
    <2> QED
      BY <2>1, <2>2, <2>3, UserRestoring, NetworkRestoring DEF Next
  <1>2. CASE UNCHANGED hvars
    <2>1. Restoring /\ UNCHANGED <<state, task, subs, outstanding, subsPending, estopPending>>
      BY <1>2 DEF hvars, vars, RestoringInv
    <2> QED
      BY <2>1 DEF Restoring, Alone, Carried, Engaged, FirstTask, Counted
  <1> QED
    BY <1>1, <1>2

\* Four steps lead from RECONNECTING to READY.
LEMMA Announcers ==
    ASSUME Next, state = "RECONNECTING", state' = "READY"
    PROVE  \/ HandshakeOkInitial
           \/ \E t \in Tasks : HandshakeOkAgain(t) \/ ReplayAcked(t)
           \/ \E r \in outstanding, v \in {"accepted", "rejected", "too_old"} :
                  HandleAck(r, v) /\ MaybeFinishReconnect(TRUE)
  <1>1. ASSUME NEW lk, NEW sb, NEW tk, NEW by, NEW who,
               OnTransportClose(state, lk, sb, tk, by, who)
        PROVE  FALSE
    BY <1>1 DEF OnTransportClose, Terminal
  <1>2. ASSUME NEW tk, NEW how, NEW by, NEW who, AbortToFatal(tk, how, by, who)
        PROVE  FALSE
    BY <1>2 DEF AbortToFatal
  <1>3. ~User
    BY <1>1 DEF User, Connect, Close, Subscribe, Unsubscribe, EmergencyStopAcked
  <1>4. ASSUME NEW t \in Tasks, Establish(t) PROVE HandshakeOkAgain(t) \/ ReplayAcked(t)
    <2>1. ~(SleepEnds(t) \/ ConnectOk(t) \/ ConnectFails(t) \/ ConnectFatal(t) \/ ConnectCrashes(t))
      <3>1. ~SleepEnds(t) /\ ~ConnectFails(t) /\ ~ConnectCrashes(t)
        BY DEF SleepEnds, ConnectFails, ConnectCrashes
      <3>2. ~ConnectOk(t)
        BY Zenon DEF ConnectOk
      <3>3. ~ConnectFatal(t)
        BY <1>2 DEF ConnectFatal
      <3> QED
        BY <3>1, <3>2, <3>3
    <2>2. ~(HandshakeFails(t) \/ HandshakeFatal(t) \/ AbortBegins(t))
      BY <1>2 DEF HandshakeFails, HandshakeFatal, AbortBegins
    <2>3. ~(SendNext(t) \/ SendsDone(t) \/ ReplayBegins(t) \/ ReplayFailed(t))
      BY <1>1 DEF SendNext, SendsDone, ReplayBegins, ReplayFailed
    <2> QED
      BY <1>4, <2>1, <2>2, <2>3 DEF Establish
  <1>5. CASE Network
    <2>1. ASSUME NEW r \in outstanding, NEW v \in {"accepted", "rejected", "busy", "fatal", "too_old"},
                 HandleAck(r, v)
          PROVE  v \in {"accepted", "rejected", "too_old"} /\ MaybeFinishReconnect(TRUE)
      BY <1>1, <1>2, <2>1 DEF HandleAck
    <2>2. ASSUME NEW t, NEW v, Answered(t, v) \/ Unanswered(t, v) PROVE FALSE
      BY <2>2 DEF Answered, Unanswered
    <2>3. ASSUME NEW k, LinkFails(k) \/ PeerCloses(k) \/ ServerCloses(k) \/ ReaderNotices(k) PROVE FALSE
      BY <1>1, <2>3 DEF LinkFails, PeerCloses, ServerCloses, ReaderNotices, OnlyLink
    <2>4. ASSUME NEW r, AckTimeout(r) PROVE FALSE
      BY <1>1, <2>4 DEF AckTimeout
    <2>5. ASSUME NEW c, CloseReturns(c) PROVE FALSE
      BY <2>5 DEF CloseReturns
    <2>6. ~HeartbeatDead /\ ~HeartbeatEnds
      BY <1>1 DEF HeartbeatDead, HeartbeatEnds
    <2> QED
      BY <1>5, <2>1, <2>2, <2>3, <2>4, <2>5, <2>6 DEF Network
  <1> QED
    BY <1>3, <1>4, <1>5 DEF Next

Restored(sb, out, tk) ==
    /\ \A q \in Topics : sb[q] # "PAUSED"
    /\ \A r \in out : ~r.live
    /\ \A t \in Tasks : tk[t].todo = {} /\ tk[t].pc \notin {"rnew", "rwait"}

\* With nothing to send, nothing to await and no replay, all is restored.
LEMMA NothingToRestore ==
    ASSUME TypeOK, Left(task) = {}, NEW sb, Covered(sb, Left(task)), NEW out, Live(out) = {},
           NoReplay(task)
    PROVE  Restored(sb, out, task)
  <1>1. \A t \in Tasks : task[t].todo \subseteq Items
    BY DEF TypeOK, TaskRecs
  <1>2. \A t \in Tasks : task[t].todo = {}
    BY <1>1 DEF Left
  <1> QED
    BY <1>2 DEF Restored, Covered, Live, NoReplay

LEMMA AnnouncedRestored ==
    ASSUME TypeOK, One, Restoring, Next, state = "RECONNECTING", state' = "READY"
    PROVE  Restored(subs', outstanding', task')
  <1>1. task \in Types /\ Slim(task) /\ subsPending \in Nat /\ NoTask.todo = {} /\ NoTask.pc = "none"
    BY SlimTask, PendingNat DEF TypeOK, Types, NoTask
  <1>2. CASE HandshakeOkInitial
    BY <1>2 DEF HandshakeOkInitial, Restoring, FirstTask
  <1>3. ASSUME NEW t \in Tasks, HandshakeOkAgain(t) PROVE Restored(subs', outstanding', task')
    <2>1. /\ task[t].pc = "handshake" /\ Slots = {} /\ task' = [task EXCEPT ![t] = NoTask]
          /\ UNCHANGED <<subs, outstanding>>
      BY <1>3 DEF HandshakeOkAgain
    <2>2. Restorers(task) = {} /\ outstanding = {}
      BY <2>1 DEF One, Fresh, Establishing
    <2>3. \A u \in Tasks : task'[u].todo = {} /\ task'[u].pc \notin {"rnew", "rwait"}
      BY <1>1, <2>1, <2>2 DEF Restoring, Carried, Restorers, Types
    <2>4. \A q \in Topics : subs'[q] = "absent"
      BY <2>1 DEF Slots
    <2> QED
      BY <2>1, <2>2, <2>3, <2>4 DEF Restored
  <1>4. ASSUME NEW t \in Tasks, ReplayAcked(t) PROVE Restored(subs', outstanding', task')
    <2>1. /\ task[t].pc = "rwait" /\ subsPending = 0 /\ task' = [task EXCEPT ![t] = NoTask]
          /\ UNCHANGED <<subs, outstanding>>
      BY <1>4 DEF ReplayAcked
    <2>2. Covered(subs, Left(task)) /\ Bounded(Left(task), Live(outstanding), 0)
      BY <2>1 DEF Restoring, Counted, Restorers
    <2>3. Left(task) = {} /\ Live(outstanding) = {}
      BY <2>2, BoundedZero
    <2>4. NoReplay(task')
      BY <1>1, <2>1, EndedBySlim
    <2>5. \A u \in Tasks : task'[u].todo = {}
      <3>1. \A u \in Tasks : task[u].todo = {}
        BY <2>3 DEF Left, TypeOK, TaskRecs
      <3> QED
        BY <1>1, <2>1, <3>1 DEF Types
    <2> QED
      BY <2>1, <2>2, <2>3, <2>4, <2>5 DEF Restored, Covered, Live, NoReplay
  <1>5. ASSUME NEW r \in outstanding, NEW v \in {"accepted", "rejected", "too_old"},
               HandleAck(r, v), MaybeFinishReconnect(TRUE)
        PROVE  Restored(subs', outstanding', task')
    <2>1. subsPending = 1 /\ ~estopPending
      BY <1>5 DEF MaybeFinishReconnect
    <2>2. /\ r.live /\ outstanding' = outstanding \ {r}
          /\ \/ task' = task /\ subs' = [subs EXCEPT ![r.topic] = "ACTIVE"]
             \/ task' = Orphaned(task, {r.topic}) /\ subs' = [subs EXCEPT ![r.topic] = "absent"]
      BY <1>5 DEF HandleAck, OnTransportClose, Terminal
    <2>3. Covered(subs, Left(task)) /\ Bounded(Left(task), Live(outstanding), 1)
      BY <2>1 DEF Restoring, Counted
    <2>4. r \in Live(outstanding) /\ Live(outstanding') \subseteq Live(outstanding) \ {r}
      BY <2>2 DEF Live
    <2>5. Left(task) = {} /\ Live(outstanding') = {}
      BY <2>3, <2>4, BoundedAnswer
    <2>6. Covered(subs', Left(task))
      BY <2>2, <2>3, PendingNat DEF Covered
    <2>7. NoReplay(task)
      BY <2>1 DEF Restoring, Engaged, NoReplay
    <2>8. Restored(subs', outstanding', task)
      BY <2>5, <2>6, <2>7, NothingToRestore
    <2>9. \A u \in Tasks : task'[u].pc = task[u].pc /\ task'[u].todo = {}
      <3>1. CASE task' = task
        BY <2>8, <3>1 DEF Restored
      <3>2. CASE task' = Orphaned(task, {r.topic})
        <4>1. task' = [u \in Tasks |-> [task[u] EXCEPT !.todo = Marked(task[u].todo, {r.topic})]]
          BY <3>2 DEF Orphaned, Marked
        <4>2. \A u \in Tasks : task[u] \in TaskRecs /\ task[u].todo = {}
          BY <1>1, <2>8 DEF Restored, Types
        <4>3. Marked({}, {r.topic}) = {}
          BY DEF Marked
        <4> QED
          BY <4>1, <4>2, <4>3 DEF TaskRecs
      <3> QED
        BY <2>2, <3>1, <3>2
    <2> QED
      BY <2>8, <2>9 DEF Restored
  <1> QED
    BY <1>2, <1>3, <1>4, <1>5, Announcers

\* Without a doubled reconnect, READY follows a reconnect only with everything
\* restored: no slot PAUSED or waiting for its answer, nothing left to send,
\* and no e-stop replay left.
THEOREM RestoredWhenReady == HSpec => RestoredBeforeReady
  <1>1. ASSUME RestoringInv, [HNext]_hvars
        PROVE  [state = "RECONNECTING" /\ state' = "READY" /\ ~doubled =>
                  /\ \A q \in Topics : subs'[q] # "PAUSED"
                  /\ \A r \in outstanding' : ~r.live
                  /\ \A t \in Tasks : task'[t].todo = {} /\ task'[t].pc \notin {"rnew", "rwait"}]_hvars
    <2> SUFFICES ASSUME HNext, state = "RECONNECTING", state' = "READY", ~doubled
                 PROVE  Restored(subs', outstanding', task')
      BY <1>1 DEF Restored
    <2>1. TypeOK /\ One /\ Restoring /\ Next
      BY <1>1 DEF RestoringInv, OneInv, HInv, HNext
    <2> QED
      BY <2>1, AnnouncedRestored
  <1> QED
    BY <1>1, InitRestoringInv, StepRestoringInv, PTL DEF HSpec, RestoredBeforeReady
=============================================================================

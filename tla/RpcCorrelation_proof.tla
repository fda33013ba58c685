------------------------ MODULE RpcCorrelation_proof ------------------------
(***************************************************************************)
(* Proofs about RpcCorrelation, for every set of calls and any number of   *)
(* connections.                                                            *)
(*                                                                         *)
(* NoLostWakeup and AnswerMatchesCall are not inductive by themselves: a   *)
(* pop is harmless only because an entry is filed under the request id of  *)
(* its own call (Filed), ids are never drawn twice (RidsDrawn and          *)
(* RidsDistinct), and a task that is still in ws.send() is registered      *)
(* already (Registered).                                                   *)
(***************************************************************************)
EXTENDS RpcCorrelation, TLAPS

\* Every id in use has been drawn from the counter.
RidsDrawn == \A c \in Calls : rid[c] < nextRid

\* No two calls hold the same id.
RidsDistinct == \A c, d \in Calls : (rid[c] # 0 /\ rid[c] = rid[d]) => c = d

\* A call that has not begun holds no id, no future and was not sent.
Untouched == \A c \in Calls : pc[c] = "idle" => (rid[c] = 0 /\ sentOn[c] = 0 /\ fut[c] = "none")

\* Only a call that drew an id can be answered.
SentHasRid == \A c \in Calls : sentOn[c] # 0 => rid[c] # 0

\* An entry is filed under the id of its own call.
Filed == \A r \in DOMAIN inflight : r # 0 /\ rid[inflight[r]] = r

\* A call whose future is unresolved while its task is alive is in the table,
\* and, unless it is a ping, its timer is armed.
Registered ==
    \A c \in Calls :
        (pc[c] \in {"sending", "waiting"} /\ fut[c] = "pending") =>
            /\ rid[c] \in DOMAIN inflight
            /\ inflight[rid[c]] = c
            /\ c \notin Pings => rid[c] \in timers

IInv ==
    /\ TypeOK
    /\ RidsDrawn
    /\ RidsDistinct
    /\ Untouched
    /\ SentHasRid
    /\ Filed
    /\ Registered
    /\ NoEntryLeak
    /\ AnswerMatchesCall
    /\ NoCallerLeftBehind

-----------------------------------------------------------------------------

LEMMA InitIInv == Init => IInv
  BY CallsAssumption, NoCallAssumption, ConnAssumption
  DEF Init, IInv, TypeOK, RidsDrawn, RidsDistinct, Untouched, SentHasRid, Filed,
      Registered, NoEntryLeak, AnswerMatchesCall, NoCallerLeftBehind,
      States, Closings, Steps, Futures, UserCalls

\* Flushing keeps the types and leaves no registered call unresolved.
LEMMA FlushEffect ==
    ASSUME IInv, FlushTable, HeartbeatCancelled
    PROVE  /\ fut' \in [Calls -> Futures] /\ pc' \in [Calls -> Steps]
           /\ DOMAIN inflight' = {} /\ timers' = {}
           /\ \A c \in Calls : /\ pc[c] = "idle" => pc'[c] = "idle" /\ fut'[c] = fut[c]
                               /\ pc'[c] = "idle" => pc[c] = "idle"
                               /\ pc'[c] \in {"sending", "waiting"} => pc'[c] = pc[c]
                               /\ pc'[c] \in {"sending", "waiting"} => fut'[c] # "pending"
                               /\ fut'[c] = "result" => fut[c] = "result"
  BY DEF IInv, TypeOK, FlushTable, FlushedFutures, HeartbeatCancelled, Registered, Steps,
         Futures, Untouched

\* Every step of the specification preserves the invariant.
LEMMA StepIInv == IInv /\ [Next]_vars => IInv'
  <1> SUFFICES ASSUME IInv, [Next]_vars PROVE IInv'
    OBVIOUS
  <1> USE CallsAssumption, NoCallAssumption, ConnAssumption
      DEF States, Closings, Steps, Futures, UserCalls, link, table
  <1>1. ASSUME NEW c \in Calls, Reject(c) PROVE IInv'
    BY <1>1 DEF Reject, IInv, TypeOK, RidsDrawn, RidsDistinct, Untouched, SentHasRid, Filed,
      Registered, NoEntryLeak, AnswerMatchesCall, NoCallerLeftBehind
  <1>2. ASSUME NEW c \in Calls, NotOpen(c) PROVE IInv'
    BY <1>2 DEF NotOpen, IInv, TypeOK, RidsDrawn, RidsDistinct, Untouched, SentHasRid, Filed,
      Registered, NoEntryLeak, AnswerMatchesCall, NoCallerLeftBehind
  <1>3. ASSUME NEW c \in Calls, Begin(c) PROVE IInv'
    BY <1>3 DEF Begin, Put, IInv, TypeOK, RidsDrawn, RidsDistinct, Untouched, SentHasRid, Filed,
      Registered, NoEntryLeak, AnswerMatchesCall, NoCallerLeftBehind
  <1>4. ASSUME NEW c \in Calls, Sent(c) PROVE IInv'
    BY <1>4 DEF Sent, IInv, TypeOK, RidsDrawn, RidsDistinct, Untouched, SentHasRid, Filed,
      Registered, NoEntryLeak, AnswerMatchesCall, NoCallerLeftBehind
  <1>5. ASSUME NEW c \in Calls, SendFails(c) PROVE IInv'
    <2>1. TypeOK' /\ RidsDrawn' /\ RidsDistinct' /\ Untouched' /\ SentHasRid'
      BY <1>5 DEF SendFails, Pop, IInv, TypeOK, RidsDrawn, RidsDistinct, Untouched, SentHasRid
    <2>2. Filed' /\ AnswerMatchesCall' /\ NoCallerLeftBehind'
      BY <1>5 DEF SendFails, Pop, IInv, TypeOK, Filed, AnswerMatchesCall, NoCallerLeftBehind
    <2>3. Registered'
      BY <1>5 DEF SendFails, Pop, IInv, TypeOK, RidsDistinct, Filed, Registered
    <2>4. NoEntryLeak'
      BY <1>5 DEF SendFails, Pop, IInv, TypeOK, Filed, NoEntryLeak
    <2> QED
      BY <2>1, <2>2, <2>3, <2>4 DEF IInv
  <1>6. ASSUME NEW r \in timers, OnTimeout(r) PROVE IInv'
    BY <1>6 DEF OnTimeout, Pop, Resolve, IInv, TypeOK, RidsDrawn, RidsDistinct, Untouched, SentHasRid, Filed,
      Registered, NoEntryLeak, AnswerMatchesCall, NoCallerLeftBehind
  <1>7. ASSUME NEW c \in Calls, HandleResponse(c) PROVE IInv'
    <2>1. rid[c] \in DOMAIN inflight => inflight[rid[c]] = c
      BY <1>7 DEF HandleResponse, IInv, TypeOK, RidsDistinct, SentHasRid, Filed
    <2>2. /\ inflight' = Pop(rid[c])
          /\ timers' = timers \ (DOMAIN inflight \cap {rid[c]})
          /\ fut' = IF rid[c] \in DOMAIN inflight THEN Resolve(c, "result") ELSE fut
          /\ \A d \in Calls : fut'[d] = "result" => answer'[d] = d
          /\ answer' \in [Calls -> Calls \cup {NoCall}]
          /\ UNCHANGED <<link, nextRid, pc, rid, sentOn>>
      BY <1>7, <2>1 DEF HandleResponse, IInv, TypeOK, Resolve, AnswerMatchesCall
    <2>3. TypeOK' /\ RidsDrawn' /\ RidsDistinct' /\ Untouched' /\ SentHasRid'
      BY <2>2 DEF Pop, Resolve, IInv, TypeOK, RidsDrawn, RidsDistinct, Untouched, SentHasRid
    <2>4. Filed' /\ AnswerMatchesCall' /\ NoCallerLeftBehind'
      BY <2>2 DEF Pop, Resolve, IInv, TypeOK, Filed, AnswerMatchesCall, NoCallerLeftBehind
    <2>5. Registered'
      BY <2>1, <2>2 DEF Pop, Resolve, IInv, TypeOK, RidsDistinct, Filed, Registered
    <2>6. NoEntryLeak'
      BY <2>2 DEF Pop, IInv, TypeOK, NoEntryLeak
    <2> QED
      BY <2>3, <2>4, <2>5, <2>6 DEF IInv
  <1>8. ASSUME NEW c \in Calls, Resume(c) PROVE IInv'
    BY <1>8 DEF Resume, IInv, TypeOK, RidsDrawn, RidsDistinct, Untouched, SentHasRid, Filed,
      Registered, NoEntryLeak, AnswerMatchesCall, NoCallerLeftBehind
  <1>9. ASSUME NEW c \in Calls, CancelCaller(c) PROVE IInv'
    BY <1>9 DEF CancelCaller, Resolve, IInv, TypeOK, RidsDrawn, RidsDistinct, Untouched, SentHasRid, Filed,
      Registered, NoEntryLeak, AnswerMatchesCall, NoCallerLeftBehind
  <1>10. ASSUME NEW c \in Calls, BeginPing(c) PROVE IInv'
    BY <1>10 DEF BeginPing, Put, IInv, TypeOK, RidsDrawn, RidsDistinct, Untouched, SentHasRid, Filed,
      Registered, NoEntryLeak, AnswerMatchesCall, NoCallerLeftBehind
  <1>11. ASSUME NEW c \in Calls, PingReturns(c) PROVE IInv'
    BY <1>11 DEF PingReturns, Pop, IInv, TypeOK, RidsDrawn, RidsDistinct, Untouched, SentHasRid, Filed,
      Registered, NoEntryLeak, AnswerMatchesCall, NoCallerLeftBehind
  <1>12. ASSUME NEW byReader \in BOOLEAN, TransportClose(byReader) PROVE IInv'
    BY <1>12, FlushEffect DEF TransportClose, IInv, TypeOK, RidsDrawn, RidsDistinct, Untouched, SentHasRid, Filed,
      Registered, NoEntryLeak, AnswerMatchesCall, NoCallerLeftBehind
  <1>13. CASE Close
    BY <1>13, FlushEffect DEF Close, IInv, TypeOK, RidsDrawn, RidsDistinct, Untouched, SentHasRid, Filed,
      Registered, NoEntryLeak, AnswerMatchesCall, NoCallerLeftBehind
  <1>14. CASE AbortToFatal
    BY <1>14, FlushEffect DEF AbortToFatal, IInv, TypeOK, RidsDrawn, RidsDistinct, Untouched, SentHasRid, Filed,
      Registered, NoEntryLeak, AnswerMatchesCall, NoCallerLeftBehind
  <1>15. CASE WsClosed
    BY <1>15 DEF WsClosed, IInv, TypeOK, RidsDrawn, RidsDistinct, Untouched, SentHasRid, Filed,
      Registered, NoEntryLeak, AnswerMatchesCall, NoCallerLeftBehind
  <1>16. CASE Connected
    BY <1>16 DEF Connected, IInv, TypeOK, RidsDrawn, RidsDistinct, Untouched, SentHasRid, Filed,
      Registered, NoEntryLeak, AnswerMatchesCall, NoCallerLeftBehind
  <1>17. CASE ReconnectOk
    BY <1>17 DEF ReconnectOk, IInv, TypeOK, RidsDrawn, RidsDistinct, Untouched, SentHasRid, Filed,
      Registered, NoEntryLeak, AnswerMatchesCall, NoCallerLeftBehind
  <1>18. CASE UNCHANGED vars
    BY <1>18 DEF vars, IInv, TypeOK, RidsDrawn, RidsDistinct, Untouched, SentHasRid, Filed,
      Registered, NoEntryLeak, AnswerMatchesCall, NoCallerLeftBehind
  <1>q. QED
    BY <1>1, <1>2, <1>3, <1>4, <1>5, <1>6, <1>7, <1>8, <1>9, <1>10, <1>11, <1>12, <1>13, <1>14, <1>15, <1>16, <1>17, <1>18 DEF Next

LEMMA InvariantHolds == Spec => []IInv
  BY InitIInv, StepIInv, PTL DEF Spec

-----------------------------------------------------------------------------

\* The types hold in every reachable state.
THEOREM TypeCorrect == Spec => []TypeOK
  BY InvariantHolds, PTL DEF IInv

\* No task waits for a future that nothing can resolve any more: for any
\* number of calls, a waiting _send_rpc_and_wait keeps its entry and its timer.
THEOREM WakeupNeverLost == Spec => []NoLostWakeup
  <1>1. IInv => NoLostWakeup
    BY DEF IInv, Registered, NoLostWakeup
  <1> QED
    BY <1>1, InvariantHolds, PTL

\* No call is completed with another call's answer.
THEOREM AnswersMatch == Spec => []AnswerMatchesCall
  BY InvariantHolds, PTL DEF IInv

\* _inflight holds no entry that nothing removes.
THEOREM EntriesRemoved == Spec => []NoEntryLeak
  BY InvariantHolds, PTL DEF IInv

\* A disconnect or close() leaves no public operation waiting.
THEOREM CallersReleased == Spec => []NoCallerLeftBehind
  BY InvariantHolds, PTL DEF IInv

\* Futures are resolved at most once.
THEOREM FuturesSettledOnce == Spec => FutureSettledOnce
  <1>1. IInv /\ [Next]_vars =>
            [\A c \in Calls : fut[c] \notin {"none", "pending"} => fut'[c] = fut[c]]_vars
    BY DEF IInv, TypeOK, Untouched, Next, vars, link, table, Reject, NotOpen, Begin, Sent, SendFails,
           OnTimeout, Resolve, HandleResponse, Resume, CancelCaller, BeginPing, PingReturns,
           TransportClose, Close, AbortToFatal, WsClosed, Connected, ReconnectOk,
           FlushTable, FlushedFutures
  <1> QED
    BY <1>1, InvariantHolds, PTL DEF Spec, FutureSettledOnce
=============================================================================

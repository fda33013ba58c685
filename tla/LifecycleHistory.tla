-------------------------- MODULE LifecycleHistory --------------------------
(***************************************************************************)
(* RobotLifecycle with one history variable, and what holds of it as long  *)
(* as its history has no doubled reconnect.                                *)
(*                                                                         *)
(* _schedule_reconnect creates a reconnect task even when one is already   *)
(* sleeping or connecting: two calls of _on_transport_close for one loss   *)
(* (the reader and a timer, say) each end in one.  Two reconnects then     *)
(* compete for _ws, _state and the counters, and the promises below break. *)
(***************************************************************************)
EXTENDS RobotLifecycle

VARIABLE doubled   \* whether two reconnects were ever in progress at once

hvars == <<vars, doubled>>

Reconnecting == {t \in Tasks : task[t].pc \in {"sleep", "connect", "handshake"}}
Twice == \E t, u \in Reconnecting : t # u

HInit == Init /\ doubled = FALSE
HNext == Next /\ doubled' = (doubled \/ Twice')
HSpec == HInit /\ [][HNext]_hvars

-----------------------------------------------------------------------------

\* In TRANSIENT_FAILURE the way on is never lost: a back-off is running, an
\* abort is about to start, or a ws.close() is under way after which one of
\* them follows.  _on_transport_close, the failing branches of _establish and
\* _schedule_reconnect each keep a piece of this, while tasks that are inside
\* ws.close() are cancelled by others.
ReconnectIsPending ==
    ~doubled /\ state = "TRANSIENT_FAILURE" =>
        \/ \E t \in Tasks : task[t].pc \in {"sleep", "abort"}
        \/ \E c \in closers : c.kind \in {"retry", "fatal"}

\* A reconnect announces READY only with everything restored: no slot still
\* PAUSED or waiting for its answer, no subscribe left to send and no e-stop
\* replay left to send or await.  The counters of _maybe_finish_reconnect and
\* _do_estop_replay decide it together.
RestoredBeforeReady ==
    [][state = "RECONNECTING" /\ state' = "READY" /\ ~doubled =>
          /\ \A q \in Topics : subs'[q] # "PAUSED"
          /\ \A r \in outstanding' : ~r.live
          /\ \A t \in Tasks : task'[t].todo = {} /\ task'[t].pc \notin {"rnew", "rwait"}]_hvars

\* wait_until_ready() has an answer, also with slots to subscribe again and an
\* e-stop to replay: an outage ends in READY, FATAL or SHUTDOWN, whichever of
\* the two is over first and however each of them fails.
OutageEnds ==
    state \in {"CONNECTING", "TRANSIENT_FAILURE", "RECONNECTING"}
        ~> doubled \/ state \in {"READY"} \cup Terminal

\* _ws is the only open connection and every live subscribe request was sent
\* on it: no `self._ws = None' after an `await ws.close()' loses a newer one.
OneConnection ==
    ~doubled => /\ \A k \in Conns : link[k] = "up" => ws = k
                /\ \A r \in outstanding : r.live => r.conn = ws

\* TRANSIENT_FAILURE leaves no slot ACTIVE and no subscribe request or its
\* timer behind, whoever brought it about.
DownMeansPaused ==
    ~doubled /\ state = "TRANSIENT_FAILURE" =>
        outstanding = {} /\ \A q \in Topics : subs[q] # "ACTIVE"
=============================================================================

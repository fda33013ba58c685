------------------------------ MODULE Heartbeat ------------------------------
(***************************************************************************)
(* The heartbeat of karo_x2_sdk/_internal/robot_impl.py in discrete time:  *)
(* _heartbeat_loop sleeps until nothing arrived for heartbeat_interval,    *)
(* _send_and_wait_ping sends pings and counts those that neither a pong    *)
(* nor any other message follows within ping_timeout, and                  *)
(* _reset_liveness_on_inbound resets all of it from the reader's task.     *)
(*                                                                         *)
(* One heartbeat task is followed from _start_heartbeat in READY; how many *)
(* of them there are, and when, is the subject of RobotLifecycle.  A tick  *)
(* passes only when no task can run: the loop is fast, messages and timers *)
(* are slow.  A message and a timer due at the same tick may come in either *)
(* order, and then the task that waits for both sees either outcome.       *)
(*                                                                         *)
(* ws.send is taken to return at once, as it does while the write buffer   *)
(* is below its limit; the loop has no timer of its own around it.         *)
(***************************************************************************)
EXTENDS Integers

CONSTANTS
    Interval,    \* heartbeat_interval
    Timeout,     \* ping_timeout
    MissLimits,  \* values of max_missed_pings to consider
    Delay        \* the longest a prompt robot takes to answer a ping

ASSUME TimesAssumption == Interval \in Nat \ {0} /\ Timeout \in Nat \ {0}
ASSUME LimitsAssumption == MissLimits \subseteq Nat
ASSUME DelayAssumption == Delay \in Nat /\ Delay < Timeout

VARIABLES
    maxMissed,  \* max_missed_pings
    ready,      \* _state is READY
    open,       \* _ws.is_open
    robot,      \* prompt: answers every ping; slow: sometimes; dead: sends nothing
    due,        \* ticks a prompt robot has left to answer, NoPing for none
    pc,         \* where the heartbeat task is
    left,       \* ticks until its timer fires
    tries,      \* pings sent by this call of _send_and_wait_ping
    miss,       \* _miss_count
    idle,       \* now - _last_inbound
    deadline,   \* _ping_deadline_evt
    wakeup,     \* _heartbeat_wakeup
    gaveUp      \* "heartbeat dead" was declared

vars == <<maxMissed, ready, open, robot, due, pc, left, tries, miss, idle,
          deadline, wakeup, gaveUp>>

NoPing == -1
Limit == IF maxMissed = 0 THEN 1 ELSE maxMissed
Longest == Interval + Limit * Timeout

TypeOK ==
    /\ maxMissed \in MissLimits
    /\ ready \in BOOLEAN /\ open \in BOOLEAN /\ gaveUp \in BOOLEAN
    /\ robot \in {"prompt", "slow", "dead"}
    /\ due \in 0..Delay \cup {NoPing}
    /\ pc \in {"check", "sleep", "ping", "wait", "over"}
    /\ left \in 0..(IF Interval > Timeout THEN Interval ELSE Timeout)
    /\ tries \in 0..(maxMissed + 1)
    /\ miss \in 0..Limit
    /\ idle \in Nat
    /\ deadline \in BOOLEAN /\ wakeup \in BOOLEAN

\* _start_heartbeat.
Init ==
    /\ maxMissed \in MissLimits
    /\ ready = TRUE /\ open = TRUE /\ gaveUp = FALSE
    /\ robot \in {"prompt", "slow"} /\ due = NoPing
    /\ pc = "check" /\ left = 0 /\ tries = 0
    /\ miss = 0 /\ idle = 0
    /\ deadline = FALSE /\ wakeup \in BOOLEAN

link == <<maxMissed, robot, open>>

-----------------------------------------------------------------------------
(* The heartbeat task                                                      *)

\* _heartbeat_loop at the head of the loop.
Check ==
    /\ pc = "check"
    /\ \/ /\ ~ready
          /\ pc' = "over" /\ UNCHANGED <<left, tries>>
       \/ /\ ready /\ idle < Interval
          /\ pc' = "sleep" /\ left' = Interval - idle /\ UNCHANGED tries
       \/ /\ ready /\ idle >= Interval /\ ~open
          /\ pc' = "over" /\ UNCHANGED <<left, tries>>
       \/ /\ ready /\ idle >= Interval /\ open
          /\ pc' = "ping" /\ tries' = 0 /\ UNCHANGED left
    /\ UNCHANGED <<link, ready, due, miss, idle, deadline, wakeup, gaveUp>>

\* The wait for _heartbeat_wakeup ends; only a wait that was not timed out
\* clears the event.
Wake ==
    /\ pc = "sleep"
    /\ \/ wakeup /\ wakeup' = FALSE
       \/ left = 0 /\ UNCHANGED wakeup
    /\ pc' = "check"
    /\ UNCHANGED <<link, ready, due, left, tries, miss, idle, deadline, gaveUp>>

\* Defect: an inbound message during the last ping still counts for this one.
PingWithoutClear ==
    /\ pc = "ping"
    /\ \/ /\ tries > maxMissed \/ ~ready \/ ~open
          /\ pc' = "check" /\ UNCHANGED <<ready, due, left, tries>>
       \/ /\ tries <= maxMissed /\ ready /\ open
          /\ tries' = tries + 1
          /\ \/ /\ pc' = "wait" /\ left' = Timeout
                /\ due' = IF robot = "prompt" /\ due = NoPing THEN Delay ELSE due
                /\ UNCHANGED ready
             \/ /\ robot = "dead"
                /\ ready' = FALSE /\ pc' = "over"
                /\ UNCHANGED <<due, left>>
    /\ UNCHANGED <<link, miss, idle, deadline, wakeup, gaveUp>>

\* Defect: the pings of one call are not limited.
PingWithoutEnd ==
    /\ pc = "ping" /\ ready /\ open
    /\ tries' = tries + 1 /\ deadline' = FALSE
    /\ pc' = "wait" /\ left' = Timeout
    /\ due' = IF robot = "prompt" /\ due = NoPing THEN Delay ELSE due
    /\ UNCHANGED <<link, ready, miss, idle, wakeup, gaveUp>>

\* One turn of the loop of _send_and_wait_ping, up to the wait: it is left
\* after maxMissed + 1 pings, or once there is no connection to send on; on a
\* broken connection the write itself may fail.
Ping ==
    /\ pc = "ping"
    /\ \/ /\ tries > maxMissed \/ ~ready \/ ~open
          /\ pc' = "check" /\ UNCHANGED <<ready, due, left, tries, deadline>>
       \/ /\ tries <= maxMissed /\ ready /\ open
          /\ tries' = tries + 1
          /\ deadline' = FALSE
          /\ \/ /\ pc' = "wait" /\ left' = Timeout
                /\ due' = IF robot = "prompt" /\ due = NoPing THEN Delay ELSE due
                /\ UNCHANGED ready
             \/ /\ robot = "dead"
                /\ ready' = FALSE /\ pc' = "over"
                /\ UNCHANGED <<due, left>>
    /\ UNCHANGED <<link, miss, idle, wakeup, gaveUp>>

\* _wait_ping_or_inbound returned: the pong, or any other message.
Answered ==
    /\ pc = "wait" /\ deadline
    /\ miss' = 0 /\ pc' = "check"
    /\ UNCHANGED <<link, ready, due, left, tries, idle, deadline, wakeup, gaveUp>>

\* Defect: the connection is given up at the first missed ping.
MissedOnce ==
    /\ pc = "wait" /\ left = 0
    /\ miss' = 1
    /\ pc' = "over" /\ ready' = FALSE /\ gaveUp' = TRUE
    /\ UNCHANGED <<link, due, left, tries, idle, deadline, wakeup>>

\* Defect: `>' instead of `>='.
MissedOneTooMany ==
    /\ pc = "wait" /\ left = 0
    /\ \/ /\ miss + 1 <= maxMissed
          /\ miss' = miss + 1 /\ pc' = "ping" /\ UNCHANGED <<ready, gaveUp>>
       \/ /\ miss + 1 > maxMissed
          /\ miss' = miss /\ pc' = "over" /\ ready' = FALSE /\ gaveUp' = TRUE
    /\ UNCHANGED <<link, due, left, tries, idle, deadline, wakeup>>

\* ping_timeout elapsed: count the ping, and at the limit declare the
\* connection dead (_on_transport_close, which resets the count).
Missed ==
    /\ pc = "wait" /\ left = 0
    /\ \/ /\ miss + 1 < maxMissed
          /\ miss' = miss + 1 /\ pc' = "ping" /\ UNCHANGED <<ready, gaveUp>>
       \/ /\ miss + 1 >= maxMissed
          /\ miss' = 0 /\ pc' = "over" /\ ready' = FALSE /\ gaveUp' = TRUE
    /\ UNCHANGED <<link, due, left, tries, idle, deadline, wakeup>>

-----------------------------------------------------------------------------
(* The reader's task                                                       *)

\* Defect: the task that waits is not told.
ResetSilently == miss' = 0 /\ idle' = 0 /\ UNCHANGED <<deadline, wakeup>>

\* _reset_liveness_on_inbound.
ResetLiveness == miss' = 0 /\ idle' = 0 /\ deadline' = TRUE /\ wakeup' = TRUE

\* A message arrives: the answer to a ping, or any other.
Inbound ==
    /\ ready /\ open /\ robot # "dead"
    /\ ResetLiveness
    /\ due' \in {due, NoPing}
    /\ UNCHANGED <<link, ready, pc, left, tries, gaveUp>>

\* Another task declares the connection lost, and cancels the heartbeat.
LostElsewhere ==
    /\ ready
    /\ ready' = FALSE /\ pc' = "over" /\ miss' = 0
    /\ UNCHANGED <<link, due, left, tries, idle, deadline, wakeup, gaveUp>>

-----------------------------------------------------------------------------
(* The robot and the clock (external)                                      *)

\* The link goes dead without a close, or the robot becomes slow.
Degrade ==
    /\ robot' \in (IF robot = "prompt" THEN {"slow", "dead"} ELSE {"dead"})
    /\ robot # "dead"
    /\ due' = NoPing
    /\ UNCHANGED <<maxMissed, open, ready, pc, left, tries, miss, idle, deadline, wakeup, gaveUp>>

\* The robot closes the connection with code 1000 or 1001.
CleanClose ==
    /\ open /\ ready
    /\ open' = FALSE /\ robot' = "dead" /\ due' = NoPing
    /\ UNCHANGED <<maxMissed, ready, pc, left, tries, miss, idle, deadline, wakeup, gaveUp>>

Runnable ==
    \/ pc \in {"check", "ping"}
    \/ pc = "sleep" /\ (wakeup \/ left = 0)
    \/ pc = "wait" /\ (deadline \/ left = 0)

Tick ==
    /\ pc # "over" /\ ~Runnable /\ due # 0
    /\ idle' = idle + 1
    /\ left' = left - 1
    /\ due' = IF due = NoPing THEN due ELSE due - 1
    /\ UNCHANGED <<link, ready, pc, tries, miss, deadline, wakeup, gaveUp>>

Task == Check \/ Wake \/ Ping \/ Answered \/ Missed

Next == Task \/ Inbound \/ LostElsewhere \/ Degrade \/ CleanClose \/ Tick

Spec == Init /\ [][Next]_vars

\* Tasks that can run do, and time passes.
FairSpec == Spec /\ WF_vars(Task) /\ WF_vars(Tick)

-----------------------------------------------------------------------------

\* A silent connection is noticed in time: while the heartbeat runs, nothing
\* was silent for longer than the interval and the missed pings together,
\* whatever messages interrupt sleeps and pings on the way.
NoticedInTime == pc # "over" => idle <= Longest

\* The connection is given up only after max_missed_pings - 1 whole timeouts
\* of silence: a message that comes with the timer of a ping resets the count
\* and is then counted as a miss, so the last one may be short.
SilentWhenGivenUp == gaveUp => idle >= (Limit - 1) * Timeout

\* A robot that answers every ping in less than ping_timeout is never given up.
PromptIsKept == gaveUp => robot # "prompt"

\* A connection that went dead without a close does not stay READY.
DeadIsNoticed == robot = "dead" /\ open ~> ~ready \/ ~open
=============================================================================

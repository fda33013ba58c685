----------------------------- MODULE RateLimiter -----------------------------
(***************************************************************************)
(* Client-side rate limit of Robot.cmd_vel: _TokenBucket and the admission *)
(* tests of RobotImpl.cmd_vel (karo_x2_sdk/_internal/robot_impl.py).       *)
(*                                                                         *)
(* The code counts tokens in floating point and seconds; here a token is   *)
(* worth Period ticks of the monotonic clock, so that elapsed * max_hz     *)
(* tokens are exactly `elapsed' units.  Rounding is abstracted away.       *)
(***************************************************************************)
EXTENDS Integers, Sequences

CONSTANTS
    Period,     \* ticks between two commands at max_hz (20 Hz in the code)
    Burst,      \* capacity of the bucket in tokens (1 in the code)
    MaxTime     \* bound on the clock

ASSUME PeriodAssumption == Period \in Nat \ {0}
ASSUME BurstAssumption == Burst \in Nat \ {0}
ASSUME MaxTimeAssumption == MaxTime \in Nat

VARIABLES
    now,        \* the monotonic clock
    ready,      \* whether _state is READY
    tokens,     \* _TokenBucket._tokens, in ticks
    last,       \* _TokenBucket._last
    grants,     \* history: the times at which commands went to the robot
    outcome     \* result of the latest cmd_vel

vars == <<now, ready, tokens, last, grants, outcome>>

Capacity == Burst * Period

TypeOK ==
    /\ now \in Nat
    /\ ready \in BOOLEAN
    /\ tokens \in 0..Capacity
    /\ last \in 0..now
    /\ grants \in Seq(Nat)
    /\ outcome \in {"none", "admitted", "rate_limited", "disconnected"}

Init ==
    /\ now = 0 /\ ready = TRUE
    /\ tokens = Capacity /\ last = 0
    /\ grants = <<>> /\ outcome = "none"

-----------------------------------------------------------------------------

\* Defect: the refill is not capped by the burst.
RefilledUncapped == tokens + (now - last)

\* `min(self._burst, self._tokens + elapsed * self._max_hz)`
Refilled == IF tokens + (now - last) < Capacity THEN tokens + (now - last) ELSE Capacity

\* Not READY: DISCONNECTED, before the bucket is looked at.
CmdVelDisconnected ==
    /\ ~ready
    /\ outcome' = "disconnected"
    /\ UNCHANGED <<now, ready, tokens, last, grants>>

\* Defect: one tick too early.
CmdVelAdmittedEarly ==
    /\ ready /\ Refilled >= Period - 1
    /\ tokens' = IF Refilled >= Period THEN Refilled - Period ELSE 0
    /\ last' = now
    /\ grants' = Append(grants, now)
    /\ outcome' = "admitted"
    /\ UNCHANGED <<now, ready>>

\* try_acquire() takes a token; the command is encoded and sent.
CmdVelAdmitted ==
    /\ ready /\ Refilled >= Period
    /\ tokens' = Refilled - Period
    /\ last' = now
    /\ grants' = Append(grants, now)
    /\ outcome' = "admitted"
    /\ UNCHANGED <<now, ready>>

\* Defect: a refusal moves _last and drops the refill.
CmdVelLimitedForgets ==
    /\ ready /\ Refilled < Period
    /\ last' = now
    /\ outcome' = "rate_limited"
    /\ UNCHANGED <<now, ready, tokens, grants>>

\* try_acquire() finds less than a token; the refill is kept.
CmdVelLimited ==
    /\ ready /\ Refilled < Period
    /\ tokens' = Refilled
    /\ last' = now
    /\ outcome' = "rate_limited"
    /\ UNCHANGED <<now, ready, grants>>

\* Time passes; the connection comes and goes.
Tick ==
    /\ now < MaxTime
    /\ now' = now + 1
    /\ UNCHANGED <<ready, tokens, last, grants, outcome>>

Connection ==
    /\ ready' = ~ready
    /\ UNCHANGED <<now, tokens, last, grants, outcome>>

Next == CmdVelDisconnected \/ CmdVelAdmitted \/ CmdVelLimited \/ Tick \/ Connection

Spec == Init /\ [][Next]_vars

-----------------------------------------------------------------------------
(* Properties                                                              *)

\* Of any two admitted commands, the number admitted from the first to the
\* second exceeds what max_hz allows for the time between them by Burst - 1 at
\* most, however attempts, refusals and reconnects fall: with the code's
\* Burst = 1 any two commands are a full Period apart.
RateBounded ==
    \A i, j \in 1..Len(grants) :
        i <= j => (j - i) * Period <= grants[j] - grants[i] + (Burst - 1) * Period

\* Refusals do not starve the caller: RATE_LIMITED is only returned when less
\* than a Period has passed since a command was admitted, no matter how many
\* attempts were refused in between.
LimitedOnlyIfFast ==
    outcome = "rate_limited" =>
        /\ Len(grants) > 0
        /\ last - grants[Len(grants)] < Period
==============================================================================

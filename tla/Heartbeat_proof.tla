--------------------------- MODULE Heartbeat_proof ---------------------------
(***************************************************************************)
(* Proofs about Heartbeat: its types, and the three bounds on when the     *)
(* heartbeat declares a connection dead.                                   *)
(*                                                                         *)
(* The bounds relate the time without a message (idle), the missed pings   *)
(* (miss) and the timer that runs (left).  A message that comes together   *)
(* with the timer of a ping is why the lower bound is one timeout below    *)
(* the count: it resets idle and miss, and the ping counts as missed.      *)
(***************************************************************************)
EXTENDS Heartbeat, TLAPS

\* The types are inductive: a timer only runs down while it is positive.
LEMMA TypesStay == TypeOK /\ [Next]_vars => TypeOK'
<1> SUFFICES ASSUME TypeOK, [Next]_vars
             PROVE  TypeOK'
  OBVIOUS
<1> USE TimesAssumption, LimitsAssumption, DelayAssumption DEF TypeOK, NoPing, Limit, link
<1>1. CASE Check
  <2>1. left' \in 0..(IF Interval > Timeout THEN Interval ELSE Timeout)
    BY <1>1 DEF Check
  <2>2. tries' \in 0..(maxMissed + 1)
    BY <1>1 DEF Check
  <2>3. pc' \in {"check", "sleep", "ping", "wait", "over"}
    BY <1>1 DEF Check
  <2> QED
    BY <1>1, <2>1, <2>2, <2>3 DEF Check
<1>2. CASE Wake
  BY <1>2 DEF Wake
<1>3. CASE Ping
  <2>1. left' \in 0..(IF Interval > Timeout THEN Interval ELSE Timeout)
    BY <1>3 DEF Ping
  <2>2. tries' \in 0..(maxMissed + 1)
    BY <1>3 DEF Ping
  <2>3. due' \in 0..Delay \cup {NoPing}
    BY <1>3 DEF Ping
  <2> QED
    BY <1>3, <2>1, <2>2, <2>3 DEF Ping
<1>4. CASE Answered
  BY <1>4 DEF Answered
<1>5. CASE Missed
  <2>1. miss' \in 0..Limit
    BY <1>5 DEF Missed
  <2> QED
    BY <1>5, <2>1 DEF Missed
<1>6. CASE Inbound
  BY <1>6 DEF Inbound, ResetLiveness
<1>7. CASE LostElsewhere
  <2>1. miss' \in 0..Limit
    BY <1>7 DEF LostElsewhere
  <2> QED
    BY <1>7, <2>1 DEF LostElsewhere
<1>8. CASE Degrade
  BY <1>8 DEF Degrade
<1>9. CASE CleanClose
  BY <1>9 DEF CleanClose
<1>10. CASE Tick
  BY <1>10 DEF Tick, Runnable
<1>11. CASE UNCHANGED vars
  BY <1>11 DEF vars
<1> QED
  BY <1>1, <1>2, <1>3, <1>4, <1>5, <1>6, <1>7, <1>8, <1>9, <1>10, <1>11 DEF Next, Task

\* The types of the heartbeat's state hold for all intervals, timeouts and
\* limits.
THEOREM TypeCorrect == Spec => []TypeOK
<1>1. Init => TypeOK
  <2> SUFFICES ASSUME Init
               PROVE  TypeOK
    OBVIOUS
  <2>1. maxMissed \in Nat /\ Limit \in Nat
    BY LimitsAssumption DEF Init, Limit
  <2>2. /\ due \in 0..Delay \cup {NoPing}
        /\ left \in 0..(IF Interval > Timeout THEN Interval ELSE Timeout)
    BY TimesAssumption DEF Init
  <2>3. tries \in 0..(maxMissed + 1) /\ miss \in 0..Limit /\ idle \in Nat
    BY <2>1 DEF Init
  <2> QED
    BY <2>2, <2>3 DEF Init, TypeOK
<1>2. QED
  BY <1>1, TypesStay, PTL DEF Spec

-----------------------------------------------------------------------------
(* The time that n missed pings take.                                      *)

Pings(n) == n * Timeout

LEMMA PingsStep == \A n \in Nat : Pings(n) \in Nat /\ Pings(n + 1) = Pings(n) + Timeout
  BY TimesAssumption DEF Pings

LEMMA PingsGrow == \A m, n \in Nat : m <= n => Pings(m) <= Pings(n)
  BY TimesAssumption DEF Pings

-----------------------------------------------------------------------------
(* The inductive invariant                                                 *)

\* The task ends with the connection; one that gave up has ended.
Ended == (~ready => pc = "over") /\ (gaveUp => ~ready)

\* A count that reached the limit ended the task; a message was seen at once.
Counted ==
    /\ miss = 0 \/ miss < maxMissed
    /\ pc = "wait" => left <= Timeout
    /\ pc = "wait" /\ deadline => idle = 0 /\ miss = 0

\* No longer silent than the interval and the missed pings.
AtMost ==
    /\ pc \in {"check", "ping"} => idle <= Interval + Pings(miss)
    /\ pc = "sleep" => idle + left <= Interval
    /\ pc = "wait" => idle + left <= Interval + Pings(miss + 1)

\* Silent for all missed pings but one.
AtLeast ==
    /\ pc \in {"check", "ping", "sleep"} => idle + Timeout >= Pings(miss)
    /\ pc = "wait" => idle + left >= Pings(miss)
    /\ gaveUp => idle >= Pings(Limit - 1)

\* The answer of a prompt robot comes before the timer of the ping.
AnswerFirst ==
    /\ robot = "prompt" /\ pc = "wait" =>
         left > 0 /\ (deadline \/ (due # NoPing /\ due < left))
    /\ gaveUp => robot # "prompt"

TimingInv == Ended /\ Counted /\ AtMost /\ AtLeast /\ AnswerFirst

\* Whatever ends the connection ends the task with it.
LEMMA EndedStays ==
    ASSUME TypeOK, Ended, [Next]_vars
    PROVE  Ended'
<1> USE DEF TypeOK, Ended, link
<1>1. CASE Check
  BY <1>1 DEF Check
<1>2. CASE Wake
  BY <1>2 DEF Wake
<1>3. CASE Ping
  BY <1>3 DEF Ping
<1>4. CASE Answered
  BY <1>4 DEF Answered
<1>5. CASE Missed
  BY <1>5 DEF Missed
<1>6. CASE Inbound
  BY <1>6 DEF Inbound, ResetLiveness
<1>7. CASE LostElsewhere
  BY <1>7 DEF LostElsewhere
<1>8. CASE Degrade
  BY <1>8 DEF Degrade
<1>9. CASE CleanClose
  BY <1>9 DEF CleanClose
<1>10. CASE Tick
  BY <1>10 DEF Tick, Runnable
<1>11. CASE UNCHANGED vars
  BY <1>11 DEF vars
<1> QED
  BY <1>1, <1>2, <1>3, <1>4, <1>5, <1>6, <1>7, <1>8, <1>9, <1>10, <1>11 DEF Next, Task

\* The count stays below the limit, and a message resets it at once.
LEMMA CountedStays ==
    ASSUME TypeOK, Counted, [Next]_vars
    PROVE  Counted'
<1> USE TimesAssumption, LimitsAssumption DEF TypeOK, Counted, link, Limit
<1>1. CASE Check
  BY <1>1 DEF Check
<1>2. CASE Wake
  BY <1>2 DEF Wake
<1>3. CASE Ping
  BY <1>3 DEF Ping
<1>4. CASE Answered
  BY <1>4 DEF Answered
<1>5. CASE Missed
  BY <1>5 DEF Missed
<1>6. CASE Inbound
  BY <1>6 DEF Inbound, ResetLiveness
<1>7. CASE LostElsewhere
  BY <1>7 DEF LostElsewhere
<1>8. CASE Degrade
  BY <1>8 DEF Degrade
<1>9. CASE CleanClose
  BY <1>9 DEF CleanClose
<1>10. CASE Tick
  BY <1>10 DEF Tick, Runnable
<1>11. CASE UNCHANGED vars
  BY <1>11 DEF vars
<1> QED
  BY <1>1, <1>2, <1>3, <1>4, <1>5, <1>6, <1>7, <1>8, <1>9, <1>10, <1>11 DEF Next, Task

\* A ping adds a timeout to the silence only if it is counted as missed.
LEMMA AtMostStays ==
    ASSUME TypeOK, TypeOK', Ended, Counted, AtMost, [Next]_vars
    PROVE  AtMost'
<1> USE TimesAssumption, LimitsAssumption DEF TypeOK, Ended, Counted, AtMost, link, Limit
<1>0. /\ miss \in Nat /\ Pings(miss) \in Nat
       /\ Pings(miss + 1) = Pings(miss) + Timeout /\ Pings(0) = 0
  <2>1. miss \in Nat
    OBVIOUS
  <2> QED
    BY <2>1, PingsStep DEF Pings
<1> USE <1>0
<1>1. CASE Check
  <2>1. miss \in Nat /\ miss' = miss /\ idle' = idle 
    BY <1>1 DEF Check
  <2>2. pc' = "ping" => idle <= Interval + Pings(miss)
    BY <1>1 DEF Check
  <2>3. pc' = "sleep" => idle + left' <= Interval
    BY <1>1 DEF Check
  <2>4. pc' \in {"over", "sleep", "ping"}
    BY <1>1 DEF Check
  <2> QED
    BY <2>1, <2>2, <2>3, <2>4
<1>2. CASE Wake
  BY <1>2 DEF Wake
<1>3. CASE Ping
  <2>1. miss \in Nat /\ miss' = miss /\ idle' = idle /\ idle <= Interval + Pings(miss)
    BY <1>3 DEF Ping
  <2>3. pc' = "wait" => left' = Timeout
    BY <1>3 DEF Ping
  <2>4. pc' \in {"over", "check", "wait"}
    BY <1>3 DEF Ping
  <2>5. miss' + 1 = miss + 1 /\ Pings(miss' + 1) = Pings(miss + 1) /\ Pings(miss') = Pings(miss)
    BY <2>1
  <2>6. CASE pc' = "wait"
    BY <2>1, <2>3, <2>5, <2>6
  <2> QED
    BY <2>1, <2>4, <2>5, <2>6
<1>4. CASE Answered
  BY <1>4 DEF Answered
<1>5. CASE Missed
  <2>1. pc' \in {"ping", "over"} /\ idle' = idle
    BY <1>5 DEF Missed
  <2>2. pc' = "ping" => miss' = miss + 1
    BY <1>5 DEF Missed
  <2>3. idle <= Interval + Pings(miss + 1)
    BY <1>5 DEF Missed
  <2> QED
    BY <2>1, <2>2, <2>3
<1>6. CASE Inbound
  <2>1. pc' = pc /\ left' = left /\ idle' = 0 /\ miss' = 0
    BY <1>6 DEF Inbound, ResetLiveness
  <2>2. Pings(0) \in Nat /\ Pings(0 + 1) = Pings(0) + Timeout
    BY PingsStep
  <2>3. pc = "sleep" => left <= Interval
    OBVIOUS
  <2>4. pc = "wait" => left <= Timeout
    OBVIOUS
  <2> QED
    BY <2>1, <2>2, <2>3, <2>4
<1>7. CASE LostElsewhere
  BY <1>7 DEF LostElsewhere
<1>8. CASE Degrade
  BY <1>8 DEF Degrade
<1>9. CASE CleanClose
  BY <1>9 DEF CleanClose
<1>10. CASE Tick
  BY <1>10 DEF Tick, Runnable
<1>11. CASE UNCHANGED vars
  BY <1>11 DEF vars
<1> QED
  BY <1>1, <1>2, <1>3, <1>4, <1>5, <1>6, <1>7, <1>8, <1>9, <1>10, <1>11 DEF Next, Task

\* A ping is counted after a whole timeout, or together with a message.
LEMMA AtLeastStays ==
    ASSUME TypeOK, TypeOK', Ended, Counted, AtLeast, [Next]_vars
    PROVE  AtLeast'
<1> USE TimesAssumption, LimitsAssumption DEF TypeOK, Ended, Counted, AtLeast, link, Limit
<1>0. /\ miss \in Nat /\ Pings(miss) \in Nat
       /\ Pings(miss + 1) = Pings(miss) + Timeout /\ Pings(0) = 0
  <2>1. miss \in Nat
    OBVIOUS
  <2> QED
    BY <2>1, PingsStep DEF Pings
<1> USE <1>0
<1>1. CASE Check
  BY <1>1 DEF Check
<1>2. CASE Wake
  BY <1>2 DEF Wake
<1>3. CASE Ping
  BY <1>3 DEF Ping
<1>4. CASE Answered
  BY <1>4 DEF Answered
<1>5. CASE Missed
  <2>1. left = 0 /\ idle' = idle /\ idle >= Pings(miss) /\ maxMissed' = maxMissed
    BY <1>5 DEF Missed
  <2>2. CASE miss + 1 < maxMissed
    <3>1. pc' = "ping" /\ miss' = miss + 1 /\ gaveUp' = gaveUp
      BY <1>5, <2>2 DEF Missed
    <3>2. gaveUp = FALSE /\ miss \in Nat
      BY <1>5 DEF Missed
    <3> QED
      BY <2>1, <3>1, <3>2
  <2>3. CASE miss + 1 >= maxMissed
    <3>1. pc' = "over"
      BY <1>5, <2>3 DEF Missed
    <3>2. miss \in Nat /\ Limit - 1 \in Nat /\ Limit - 1 <= miss
      <4>1. miss \in Nat /\ maxMissed \in Nat
        BY DEF Limit
      <4> QED
        BY <2>3, <4>1 DEF Limit
    <3>3. Pings(Limit - 1) <= idle
      <4>1. Pings(Limit - 1) <= Pings(miss) /\ Pings(Limit - 1) \in Nat /\ Pings(miss) \in Nat
        BY <3>2, PingsStep, PingsGrow
      <4> QED
        BY <2>1, <4>1
    <3> QED
      BY <2>1, <3>1, <3>3
  <2> QED
    BY <1>5, <2>2, <2>3 DEF Missed
<1>6. CASE Inbound
  <2>1. pc' = pc /\ left' = left /\ idle' = 0 /\ miss' = 0 /\ ~gaveUp'
    BY <1>6 DEF Inbound, ResetLiveness
  <2>2. Pings(0) = 0
    BY DEF Pings
  <2> QED
    BY <2>1, <2>2
<1>7. CASE LostElsewhere
  BY <1>7 DEF LostElsewhere
<1>8. CASE Degrade
  BY <1>8 DEF Degrade
<1>9. CASE CleanClose
  BY <1>9 DEF CleanClose
<1>10. CASE Tick
  BY <1>10 DEF Tick, Runnable
<1>11. CASE UNCHANGED vars
  BY <1>11 DEF vars
<1> QED
  BY <1>1, <1>2, <1>3, <1>4, <1>5, <1>6, <1>7, <1>8, <1>9, <1>10, <1>11 DEF Next, Task

\* A prompt robot's answer is due before the timer whenever a ping waits.
LEMMA AnswerFirstStays ==
    ASSUME TypeOK, TypeOK', Ended, AnswerFirst, [Next]_vars
    PROVE  AnswerFirst'
<1> USE TimesAssumption, DelayAssumption DEF TypeOK, Ended, AnswerFirst, link, NoPing
<1>1. CASE Check
  BY <1>1 DEF Check
<1>2. CASE Wake
  BY <1>2 DEF Wake
<1>3. CASE Ping
  BY <1>3 DEF Ping
<1>4. CASE Answered
  BY <1>4 DEF Answered
<1>5. CASE Missed
  BY <1>5 DEF Missed
<1>6. CASE Inbound
  BY <1>6 DEF Inbound, ResetLiveness
<1>7. CASE LostElsewhere
  BY <1>7 DEF LostElsewhere
<1>8. CASE Degrade
  BY <1>8 DEF Degrade
<1>9. CASE CleanClose
  BY <1>9 DEF CleanClose
<1>10. CASE Tick
  BY <1>10 DEF Tick, Runnable
<1>11. CASE UNCHANGED vars
  BY <1>11 DEF vars
<1> QED
  BY <1>1, <1>2, <1>3, <1>4, <1>5, <1>6, <1>7, <1>8, <1>9, <1>10, <1>11 DEF Next, Task

-----------------------------------------------------------------------------

LEMMA InvInit == Init => TimingInv
<1> SUFFICES ASSUME Init
             PROVE  TimingInv
  OBVIOUS
<1>1. Pings(0) = 0
  BY TimesAssumption DEF Pings
<1>2. Ended /\ Counted /\ AnswerFirst
  BY DEF Init, Ended, Counted, AnswerFirst
<1>3. AtMost /\ AtLeast
  BY <1>1, TimesAssumption DEF Init, AtMost, AtLeast
<1> QED
  BY <1>2, <1>3 DEF TimingInv

LEMMA Timing == Spec => [](TypeOK /\ TimingInv)
<1>1. TypeOK /\ TypeOK' /\ TimingInv /\ [Next]_vars => TimingInv'
  BY EndedStays, CountedStays, AtMostStays, AtLeastStays, AnswerFirstStays DEF TimingInv
<1> QED
  BY <1>1, InvInit, TypeCorrect, PTL DEF Spec

\* While the heartbeat runs, no silence is longer than heartbeat_interval and
\* max_missed_pings timeouts, for all of these values.
THEOREM SilenceIsBounded == Spec => []NoticedInTime
<1>1. TypeOK /\ TimingInv => NoticedInTime
  <2> SUFFICES ASSUME TypeOK, TimingInv, pc # "over"
               PROVE  idle <= Longest
    BY DEF NoticedInTime
  <2>1. miss \in Nat /\ Limit \in Nat /\ miss + 1 <= Limit
    BY LimitsAssumption DEF TypeOK, TimingInv, Counted, Limit
  <2>2. /\ Pings(miss) \in Nat /\ Pings(miss + 1) \in Nat /\ Pings(Limit) \in Nat
        /\ Pings(miss) <= Pings(Limit) /\ Pings(miss + 1) <= Pings(Limit)
    BY <2>1, PingsStep, PingsGrow
  <2>3. idle <= Interval + Pings(Limit)
    BY <2>2, TimesAssumption DEF TypeOK, TimingInv, AtMost
  <2> QED
    BY <2>3 DEF Longest, Pings
<1> QED
  BY <1>1, Timing, PTL

\* _heartbeat_loop declares a connection dead only after max_missed_pings - 1
\* whole timeouts without a message.
THEOREM GivenUpInSilence == Spec => []SilentWhenGivenUp
<1>1. TimingInv => SilentWhenGivenUp
  BY DEF TimingInv, AtLeast, SilentWhenGivenUp, Pings
<1> QED
  BY <1>1, Timing, PTL

\* A robot that answers within ping_timeout is never declared dead.
THEOREM PromptNeverGivenUp == Spec => []PromptIsKept
<1>1. TimingInv => PromptIsKept
  BY DEF TimingInv, AnswerFirst, PromptIsKept
<1> QED
  BY <1>1, Timing, PTL
=============================================================================

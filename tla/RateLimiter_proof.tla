-------------------------- MODULE RateLimiter_proof --------------------------
(***************************************************************************)
(* The rate bound of cmd_vel, for every period, burst and clock bound.     *)
(*                                                                         *)
(* RateBounded speaks of two past commands; to extend it to the next one   *)
(* the invariant must relate the bucket to every past command: what is in  *)
(* the bucket is paid for by the time since (Paid), and the time since the *)
(* latest command is in the bucket unless it is full (Credited).           *)
(***************************************************************************)
EXTENDS RateLimiter, TLAPS

Paid ==
    \A i \in 1..Len(grants) :
        tokens + (Len(grants) - i) * Period <= last - grants[i] + (Burst - 1) * Period

Credited ==
    IF Len(grants) = 0 THEN tokens = Capacity
    ELSE tokens = Capacity \/ tokens >= last - grants[Len(grants)]

IInv == TypeOK /\ Paid /\ Credited /\ RateBounded /\ LimitedOnlyIfFast

-----------------------------------------------------------------------------

\* A bucket holds at least one token's worth.
LEMMA CapacityFact == Capacity \in Nat /\ Period <= Capacity /\ Capacity - Period = (Burst - 1) * Period
  <1>1. \A b \in Nat \ {0}, p \in Nat \ {0} : b * p \in Nat /\ p <= b * p /\ b * p - p = (b - 1) * p
    OBVIOUS
  <1> QED
    BY <1>1, PeriodAssumption, BurstAssumption DEF Capacity

LEMMA InitIInv == Init => IInv
  BY CapacityFact DEF Init, IInv, TypeOK, Paid, Credited, RateBounded, LimitedOnlyIfFast

\* One more command costs one more period.
LEMMA OneMore == \A m \in Int : (m + 1) * Period = m * Period + Period /\ m * Period \in Int
  BY PeriodAssumption

LEMMA StepIInv == IInv /\ [Next]_vars => IInv'
  <1> SUFFICES ASSUME IInv, [Next]_vars PROVE IInv'
    OBVIOUS
  <1> USE PeriodAssumption, BurstAssumption, CapacityFact
  <1>0. /\ (Burst - 1) * Period \in Nat
        /\ Refilled \in 0..Capacity
        /\ Refilled <= tokens + (now - last)
        /\ Refilled = Capacity \/ Refilled = tokens + (now - last)
        /\ \A i \in 1..Len(grants) : grants[i] \in Nat /\ (Len(grants) - i) * Period \in Int
    BY OneMore DEF IInv, TypeOK, Refilled
  <1>1. CASE CmdVelDisconnected
    BY <1>1 DEF CmdVelDisconnected, IInv, TypeOK, Paid, Credited, RateBounded, LimitedOnlyIfFast
  <1>2. CASE CmdVelAdmitted
    <2>1. TypeOK'
      BY <1>0, <1>2 DEF CmdVelAdmitted, IInv, TypeOK
    <2>2. /\ Len(grants') = Len(grants) + 1
          /\ Len(grants) \in Nat
          /\ \A i \in 1..Len(grants) : grants'[i] = grants[i]
          /\ grants'[Len(grants) + 1] = now
      BY <1>2 DEF CmdVelAdmitted, IInv, TypeOK
    <2>3. \A i \in 1..Len(grants) :
             tokens' + (Len(grants') - i) * Period <= last' - grants[i] + (Burst - 1) * Period
      <3> SUFFICES ASSUME NEW i \in 1..Len(grants)
                   PROVE  tokens' + (Len(grants') - i) * Period <= last' - grants[i] + (Burst - 1) * Period
        OBVIOUS
      <3>1. (Len(grants') - i) * Period = (Len(grants) - i) * Period + Period
        BY <2>2, OneMore
      <3>2. tokens + (Len(grants) - i) * Period <= last - grants[i] + (Burst - 1) * Period
        BY DEF IInv, Paid
      <3> QED
        BY <1>0, <1>2, <3>1, <3>2 DEF CmdVelAdmitted, IInv, TypeOK
    <2>4. Paid'
      <3> SUFFICES ASSUME NEW i \in 1..Len(grants')
                   PROVE  tokens' + (Len(grants') - i) * Period <= last' - grants'[i] + (Burst - 1) * Period
        BY DEF Paid
      <3>1. CASE i \in 1..Len(grants)
        BY <2>2, <2>3, <3>1
      <3>2. CASE i = Len(grants')
        <4>1. (Len(grants') - i) * Period = 0
          BY <2>2, <3>2
        <4>2. tokens' <= (Burst - 1) * Period /\ last' = now /\ grants'[i] = now
          BY <1>0, <1>2, <2>2, <3>2 DEF CmdVelAdmitted
        <4>3. tokens' \in Nat /\ now \in Nat
          BY <2>1, <1>2 DEF TypeOK, CmdVelAdmitted
        <4> QED
          BY <1>0, <4>1, <4>2, <4>3
      <3> QED
        BY <2>2, <3>1, <3>2
    <2>5. Credited'
      BY <1>0, <1>2, <2>2 DEF CmdVelAdmitted, Credited, IInv, TypeOK
    <2>6. RateBounded'
      <3> SUFFICES ASSUME NEW i \in 1..Len(grants'), NEW j \in 1..Len(grants'), i <= j
                   PROVE  (j - i) * Period <= grants'[j] - grants'[i] + (Burst - 1) * Period
        BY DEF RateBounded
      <3>1. CASE j <= Len(grants)
        BY <3>1, <2>2 DEF IInv, RateBounded
      <3>2. CASE j = Len(grants) + 1 /\ i <= Len(grants)
        <4>1. tokens' \in Nat /\ last' = now /\ now \in Nat
          BY <1>2, <2>1 DEF CmdVelAdmitted, TypeOK, IInv
        <4>2. j - i \in Int /\ (j - i) * Period \in Int /\ grants[i] \in Nat
          BY <1>0, <2>2, <3>2
        <4>3. tokens' + (j - i) * Period <= now - grants[i] + (Burst - 1) * Period
          BY <2>2, <2>3, <3>2, <4>1
        <4> QED
          BY <1>0, <2>2, <3>2, <4>1, <4>2, <4>3
      <3>3. CASE j = Len(grants) + 1 /\ i = Len(grants) + 1
        BY <1>0, <2>2, <3>3 DEF IInv, TypeOK
      <3> QED
        BY <2>2, <3>1, <3>2, <3>3
    <2> QED
      BY <1>2, <2>1, <2>4, <2>5, <2>6 DEF IInv, LimitedOnlyIfFast, CmdVelAdmitted
  <1>3. CASE CmdVelLimited
    <2>1. TypeOK' /\ RateBounded'
      BY <1>0, <1>3 DEF CmdVelLimited, IInv, TypeOK, RateBounded
    <2>2. /\ tokens \in Nat /\ last \in Nat /\ now \in Nat /\ Refilled \in Nat
          /\ Len(grants) \in Nat
      BY <1>0 DEF IInv, TypeOK
    <2>3. Paid'
      <3> SUFFICES ASSUME NEW i \in 1..Len(grants)
                   PROVE  Refilled + (Len(grants) - i) * Period <= now - grants[i] + (Burst - 1) * Period
        BY <1>3 DEF Paid, CmdVelLimited
      <3>1. tokens + (Len(grants) - i) * Period <= last - grants[i] + (Burst - 1) * Period
        BY DEF IInv, Paid
      <3> QED
        BY <1>0, <2>2, <3>1
    <2>4. Len(grants) # 0 => grants[Len(grants)] \in Nat
      BY <1>0, <2>2
    <2>5. Credited'
      <3>1. tokens' = Refilled /\ last' = now /\ grants' = grants
        BY <1>3 DEF CmdVelLimited
      <3>2. Credited
        BY DEF IInv
      <3>3. tokens <= Capacity /\ last <= now
        BY DEF IInv, TypeOK
      <3> QED
        BY <1>0, <2>2, <2>4, <3>1, <3>2, <3>3 DEF Credited
    <2>6. LimitedOnlyIfFast'
      <3>1. Refilled < Period /\ tokens' = Refilled /\ last' = now /\ grants' = grants
        BY <1>3 DEF CmdVelLimited
      <3> QED
        BY <2>2, <2>4, <2>5, <3>1 DEF Credited, LimitedOnlyIfFast
    <2> QED
      BY <2>1, <2>3, <2>5, <2>6 DEF IInv
  <1>4. CASE Tick
    BY <1>4 DEF Tick, IInv, TypeOK, Paid, Credited, RateBounded, LimitedOnlyIfFast
  <1>5. CASE Connection
    BY <1>5 DEF Connection, IInv, TypeOK, Paid, Credited, RateBounded, LimitedOnlyIfFast
  <1>6. CASE UNCHANGED vars
    BY <1>6 DEF vars, IInv, TypeOK, Paid, Credited, RateBounded, LimitedOnlyIfFast
  <1> QED
    BY <1>1, <1>2, <1>3, <1>4, <1>5, <1>6 DEF Next

LEMMA InvariantHolds == Spec => []IInv
  BY InitIInv, StepIInv, PTL DEF Spec

\* The types of the bucket hold in every reachable state: in particular it
\* never holds a negative number of tokens or more than the burst.
THEOREM TypeCorrect == Spec => []TypeOK
  BY InvariantHolds, PTL DEF IInv

\* cmd_vel never exceeds its rate, for every period and burst.
THEOREM RateNeverExceeded == Spec => []RateBounded
  BY InvariantHolds, PTL DEF IInv

\* cmd_vel refuses only a caller that is faster than the rate.
THEOREM NeverStarved == Spec => []LimitedOnlyIfFast
  BY InvariantHolds, PTL DEF IInv
==============================================================================

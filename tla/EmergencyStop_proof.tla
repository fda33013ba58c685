------------------------- MODULE EmergencyStop_proof -------------------------
(***************************************************************************)
(* Proofs about EmergencyStop: its types, the intent that overlapping      *)
(* calls leave, and that an engaged robot stands still in READY.           *)
(*                                                                         *)
(* The argument follows a command through its stations: commands,          *)
(* executed and answers, runnable, done.  Each station keeps the order of  *)
(* the one before, so the calls that returned ok did so in the order in    *)
(* which the robot executed them (Order).  The latch is off only if a      *)
(* release was the last command executed on this connection, or none was   *)
(* executed yet and READY came without a replay (LatchInv).                *)
(***************************************************************************)
EXTENDS EmergencyStop, FiniteSetTheorems, TLAPS

In(x, s) == \E i \in 1..Len(s) : s[i] = x
Answer(c, r) == In([of |-> c, result |-> r], answers)

\* Each request resumes once.
RunsOnce == \A i, j \in 1..Len(runnable) : runnable[i] = runnable[j] => i = j

\* Nothing is under way without a connection.
Down ==
    /\ engage[Replay]
    /\ state = "TRANSIENT_FAILURE" => ~up
    /\ ~up => commands = <<>> /\ answers = <<>>

\* A call under way to the robot was written to this connection and is neither
\* executed nor answered; and the robot answers what it did, once.
Followed(c) ==
    /\ pc[c] = "idle" => /\ ~In(c, commands) /\ ~In(c, executed)
                         /\ ~Answer(c, "ok") /\ ~Answer(c, "refused")
    /\ pc[c] \in {"idle", "waiting"} <=> result[c] = "none"
    /\ In(c, commands) => /\ sentOn[c] = conns /\ ~In(c, executed)
                          /\ ~Answer(c, "ok") /\ ~Answer(c, "refused")
                          /\ result[c] \notin {"ok", "refused"}
    /\ result[c] = "ok" \/ Answer(c, "ok") => In(c, executed)
    /\ result[c] = "refused" \/ Answer(c, "refused") => ~In(c, executed)
    /\ Answer(c, "ok") \/ Answer(c, "refused") => result[c] \notin {"ok", "refused"}

Distinct ==
    /\ \A i, j \in 1..Len(commands) : commands[i] = commands[j] /\ commands[i] \in Calls => i = j
    /\ \A i, j \in 1..Len(executed) : executed[i] = executed[j] => i = j
    /\ \A i, j \in 1..Len(answers) : answers[i].of = answers[j].of /\ answers[i].of \in Calls => i = j

SentOnce == (\A c \in Calls : Followed(c)) /\ Distinct

Before(s, c, d) == \E m, n \in 1..Len(s) : m < n /\ s[m] = c /\ s[n] = d
Ok(c) == c \in Calls /\ result[c] = "ok"
OkAnswer(a) == a.of \in Calls /\ a.result = "ok"
Acked(c) == Ok(c) /\ pc[c] = "done"

\* The order of execution is kept by answers, resumptions and returns.
Order ==
    /\ \A i, j \in 1..Len(runnable) :
         i < j /\ Ok(runnable[i]) /\ Ok(runnable[j]) => Before(executed, runnable[i], runnable[j])
    /\ \A c \in Calls : \A j \in 1..Len(runnable) :
         Acked(c) /\ Ok(runnable[j]) => Before(executed, c, runnable[j])
    /\ \A i, j \in 1..Len(answers) :
         i < j /\ OkAnswer(answers[i]) /\ OkAnswer(answers[j])
            => Before(executed, answers[i].of, answers[j].of)
    /\ \A c \in Calls : \A j \in 1..Len(answers) :
         Ok(c) /\ OkAnswer(answers[j]) => Before(executed, c, answers[j].of)

\* The intent is that of the call all the other acknowledged ones came before.
LastIntent ==
    \A c \in Calls :
        Acked(c) /\ (\A d \in Calls : Acked(d) /\ d # c => Before(executed, d, c))
            => intent = engage[c]

\* A release was executed last, on this connection.
Released ==
    /\ executed # <<>>
    /\ ~engage[executed[Len(executed)]] /\ sentOn[executed[Len(executed)]] = conns

\* Nothing was executed on this connection, and READY was not due to a replay.
Untouched ==
    /\ \A i \in 1..Len(answers) : answers[i].result # "ok"
    /\ \A i \in 1..Len(runnable) : result[runnable[i]] # "ok"
    /\ state = "READY" => ~intent

LatchInv == up => latch \/ Released \/ Untouched

IInv == TypeOK /\ RunsOnce /\ Down /\ SentOnce /\ Order /\ LastIntent /\ LatchInv


-----------------------------------------------------------------------------
(* The operators the specification is built from.                          *)

\* Every order of a finite set has each of its elements, once.
LEMMA OrdersOf ==
  ASSUME NEW S, IsFiniteSet(S), NEW w \in SetToSeqs(S)
  PROVE  /\ w \in Seq(S) /\ Len(w) \in Nat
         /\ \A i, j \in 1..Len(w) : w[i] = w[j] => i = j
         /\ \A x \in S : \E i \in 1..Len(w) : w[i] = x
<1> DEFINE n == Cardinality(S)
<1>1. n \in Nat
  BY FS_CardinalityType
<1>2. w \in [1..n -> S] /\ \A i, j \in 1..n : i # j => w[i] # w[j]
  BY DEF SetToSeqs
<1>3. w \in Seq(S) /\ Len(w) = n
  BY <1>1, <1>2
<1>4. w \in Injection(1..n, S)
  BY <1>2 DEF Injection, IsInjective
<1>5. Cardinality(1..n) = n
  BY <1>1, FS_Interval
<1>6. w \in Surjection(1..n, S)
  BY <1>4, <1>5, FS_Injection
<1> QED
  BY <1>1, <1>2, <1>3, <1>6 DEF Surjection

LEMMA WaitingIsFinite == IsFiniteSet(Waiting)
<1>1. IsFiniteSet(Requests)
  BY CallsAssumption, FS_AddElement DEF Requests
<1> QED
  BY <1>1, FS_Subset DEF Waiting

LEMMA AppendOf ==
  ASSUME NEW S, NEW s \in Seq(S), NEW e \in S
  PROVE  /\ Append(s, e) \in Seq(S) /\ Len(s) \in Nat
         /\ Len(Append(s, e)) = Len(s) + 1
         /\ \A i \in 1..Len(s) : Append(s, e)[i] = s[i]
         /\ Append(s, e)[Len(s) + 1] = e
OBVIOUS

LEMMA TailOf ==
  ASSUME NEW S, NEW s \in Seq(S), s # <<>>
  PROVE  /\ Tail(s) \in Seq(S) /\ Len(s) \in Nat \ {0}
         /\ Len(Tail(s)) = Len(s) - 1
         /\ Head(s) = s[1] /\ Head(s) \in S
         /\ \A i \in 1..(Len(s) - 1) : Tail(s)[i] = s[i + 1]
OBVIOUS

\* Where an element of a concatenation comes from.
LEMMA ConcatOf ==
  ASSUME NEW S, NEW s \in Seq(S), NEW t \in Seq(S)
  PROVE  /\ s \o t \in Seq(S) /\ Len(s) \in Nat /\ Len(t) \in Nat
         /\ Len(s \o t) = Len(s) + Len(t)
         /\ \A i \in 1..Len(s) : i \in 1..Len(s \o t) /\ (s \o t)[i] = s[i]
         /\ \A i \in 1..Len(t) : Len(s) + i \in 1..Len(s \o t) /\ (s \o t)[Len(s) + i] = t[i]
         /\ \A i \in 1..Len(s \o t) :
              i \in 1..Len(s) \/ \E k \in 1..Len(t) : i = Len(s) + k
<1>1. Len(s) \in Nat /\ Len(t) \in Nat /\ Len(s \o t) = Len(s) + Len(t)
  OBVIOUS
<1>2. ASSUME NEW i \in 1..Len(s \o t), i \notin 1..Len(s)
      PROVE  i - Len(s) \in 1..Len(t) /\ i = Len(s) + (i - Len(s))
  BY <1>1, <1>2
<1>3. \A i \in 1..Len(s \o t) : i \in 1..Len(s) \/ \E k \in 1..Len(t) : i = Len(s) + k
  BY ONLY <1>2
<1>4. /\ \A i \in 1..Len(s) : i \in 1..Len(s \o t) /\ (s \o t)[i] = s[i]
      /\ \A i \in 1..Len(t) : Len(s) + i \in 1..Len(s \o t) /\ (s \o t)[Len(s) + i] = t[i]
  BY <1>1
<1> QED
  BY <1>1, <1>3, <1>4

LEMMA ConcatOnce ==
  ASSUME NEW S, NEW s \in Seq(S), NEW t \in Seq(S),
         \A i, j \in 1..Len(s) : s[i] = s[j] => i = j,
         \A i, j \in 1..Len(t) : t[i] = t[j] => i = j,
         \A i \in 1..Len(s), j \in 1..Len(t) : s[i] # t[j]
  PROVE  \A i, j \in 1..Len(s \o t) : (s \o t)[i] = (s \o t)[j] => i = j
<1> SUFFICES ASSUME NEW i \in 1..Len(s \o t), NEW j \in 1..Len(s \o t), (s \o t)[i] = (s \o t)[j]
             PROVE  i = j
  OBVIOUS
<1>1. CASE i \in 1..Len(s) /\ j \in 1..Len(s)
  BY <1>1, ConcatOf
<1>2. ASSUME NEW k \in 1..Len(t), i = Len(s) + k, NEW l \in 1..Len(t), j = Len(s) + l
      PROVE  i = j
  <2>1. (s \o t)[Len(s) + k] = t[k] /\ (s \o t)[Len(s) + l] = t[l]
    BY ConcatOf
  <2> QED
    BY <1>2, <2>1
<1>3. ASSUME i \in 1..Len(s), NEW l \in 1..Len(t), j = Len(s) + l
      PROVE  FALSE
  <2>1. (s \o t)[i] = s[i] /\ (s \o t)[Len(s) + l] = t[l]
    BY <1>3, ConcatOf
  <2> QED
    BY <1>3, <2>1
<1>4. ASSUME j \in 1..Len(s), NEW k \in 1..Len(t), i = Len(s) + k
      PROVE  FALSE
  <2>1. (s \o t)[j] = s[j] /\ (s \o t)[Len(s) + k] = t[k]
    BY <1>4, ConcatOf
  <2> QED
    BY <1>4, <2>1
<1>5. \A m \in 1..Len(s \o t) : m \in 1..Len(s) \/ \E k \in 1..Len(t) : m = Len(s) + k
  BY ConcatOf
<1> QED
  BY <1>1, <1>2, <1>3, <1>4, <1>5

\* What a sequence has after it grew or was read.
LEMMA InAppend ==
  ASSUME NEW S, NEW s \in Seq(S), NEW e \in S, NEW x
  PROVE  In(x, Append(s, e)) <=> In(x, s) \/ x = e
BY AppendOf DEF In

LEMMA InTail ==
  ASSUME NEW S, NEW s \in Seq(S), s # <<>>, NEW x
  PROVE  In(x, s) <=> x = Head(s) \/ In(x, Tail(s))
<1>1. In(x, Tail(s)) => In(x, s)
  BY TailOf DEF In
<1>2. In(Head(s), s)
  BY TailOf DEF In
<1>3. ASSUME In(x, s), x # Head(s)
      PROVE  In(x, Tail(s))
  <2>1. PICK i \in 1..Len(s) : s[i] = x
    BY <1>3 DEF In
  <2>2. i # 1 /\ i - 1 \in 1..(Len(s) - 1)
    BY <1>3, <2>1, TailOf
  <2>3. Tail(s)[i - 1] = x
    BY <2>1, <2>2, TailOf
  <2> QED
    BY <2>2, <2>3, TailOf DEF In
<1> QED
  BY <1>1, <1>2, <1>3

LEMMA InConcat ==
  ASSUME NEW S, NEW s \in Seq(S), NEW t \in Seq(S), NEW x
  PROVE  In(x, s \o t) <=> In(x, s) \/ In(x, t)
<1>1. In(x, s) => In(x, s \o t)
  BY ConcatOf DEF In
<1>2. ASSUME NEW i \in 1..Len(t), t[i] = x
      PROVE  In(x, s \o t)
  <2>1. Len(s) + i \in 1..Len(s \o t) /\ (s \o t)[Len(s) + i] = x
    BY <1>2, ConcatOf
  <2> QED
    BY <2>1 DEF In
<1>3. ASSUME NEW i \in 1..Len(s \o t), (s \o t)[i] = x
      PROVE  In(x, s) \/ In(x, t)
  <2>1. CASE i \in 1..Len(s)
    BY <1>3, <2>1, ConcatOf DEF In
  <2>2. ASSUME NEW k \in 1..Len(t), i = Len(s) + k
        PROVE  In(x, t)
    <3>1. (s \o t)[Len(s) + k] = t[k]
      BY ConcatOf
    <3>2. t[k] = x
      BY <1>3, <2>2, <3>1
    <3> QED
      BY <3>2 DEF In
  <2> QED
    BY <2>1, <2>2, ConcatOf
<1> QED
  BY <1>1, <1>2, <1>3 DEF In

-----------------------------------------------------------------------------
(* The types.                                                              *)

Resolved == \A c \in Requests : pc[c] = "resolved" <=> In(c, runnable)

\* Resolving a request that waits makes it runnable once.
LEMMA ResolveOnce ==
  ASSUME TypeOK, RunsOnce, NEW c \in Requests, NEW r \in Results, pc[c] = "waiting", Resolve(c, r)
  PROVE  Resolved' /\ RunsOnce' /\ runnable' \in Seq(Requests)
<1>1. /\ Resolved /\ runnable \in Seq(Requests) /\ pc \in [Requests -> {"idle", "waiting", "resolved", "done"}]
      /\ ~In(c, runnable) /\ runnable' = Append(runnable, c) /\ pc' = [pc EXCEPT ![c] = "resolved"]
  BY DEF TypeOK, Resolved, In, Resolve
<1>2. Resolved'
  <2>1. \A d \in Requests : In(d, runnable)' <=> In(d, runnable) \/ d = c
    BY <1>1, InAppend DEF In
  <2> QED
    BY <1>1, <2>1 DEF Resolved
<1>3. RunsOnce'
  <2> SUFFICES ASSUME NEW i \in 1..Len(runnable'), NEW j \in 1..Len(runnable'), runnable'[i] = runnable'[j]
               PROVE  i = j
    BY DEF RunsOnce
  <2>1. \A k \in 1..Len(runnable) : runnable'[k] = runnable[k] /\ runnable[k] # c
    BY <1>1, AppendOf DEF In
  <2>2. Len(runnable) \in Nat /\ Len(runnable') = Len(runnable) + 1 /\ runnable'[Len(runnable) + 1] = c
    BY <1>1, AppendOf
  <2> QED
    BY <2>1, <2>2 DEF RunsOnce
<1> QED
  BY <1>1, <1>2, <1>3, AppendOf

\* A request that returns does not run again.
LEMMA ReturnOnce ==
  ASSUME TypeOK, RunsOnce, runnable # <<>>, runnable' = Tail(runnable),
         pc' = [pc EXCEPT ![Head(runnable)] = "done"]
  PROVE  Resolved' /\ RunsOnce' /\ runnable' \in Seq(Requests)
<1>1. /\ Resolved /\ runnable \in Seq(Requests) /\ pc \in [Requests -> {"idle", "waiting", "resolved", "done"}]
      /\ Head(runnable) \in Requests
  BY TailOf DEF TypeOK, Resolved, In
<1>2. ~In(Head(runnable), Tail(runnable))
  <2> SUFFICES ASSUME NEW i \in 1..Len(Tail(runnable)), Tail(runnable)[i] = Head(runnable)
               PROVE  FALSE
    BY DEF In
  <2>1. i + 1 \in 1..Len(runnable) /\ 1 \in 1..Len(runnable) /\ runnable[i + 1] = runnable[1] /\ i + 1 # 1
    BY <1>1, TailOf
  <2> QED
    BY <2>1 DEF RunsOnce
<1>3. Resolved'
  <2>1. \A d \in Requests : In(d, runnable) <=> d = Head(runnable) \/ In(d, runnable')
    BY <1>1, InTail
  <2> QED
    BY <1>1, <1>2, <2>1 DEF Resolved
<1>4. RunsOnce'
  <2> SUFFICES ASSUME NEW i \in 1..Len(runnable'), NEW j \in 1..Len(runnable'), runnable'[i] = runnable'[j]
               PROVE  i = j
    BY DEF RunsOnce
  <2>1. i + 1 \in 1..Len(runnable) /\ j + 1 \in 1..Len(runnable) /\ runnable[i + 1] = runnable[j + 1]
    BY <1>1, TailOf
  <2>2. i + 1 = j + 1
    BY <2>1 DEF RunsOnce
  <2> QED
    BY <1>1, <2>2, TailOf
<1> QED
  BY <1>1, <1>3, <1>4, TailOf

\* The order in which a loss resolves what waits has each request once.
LEMMA LossResolves ==
  ASSUME TypeOK, RunsOnce, Loss
  PROVE  Resolved' /\ RunsOnce' /\ runnable' \in Seq(Requests)
<1>1. PICK w \in SetToSeqs(Waiting) : runnable' = runnable \o w
  BY DEF Loss
<1>2. /\ w \in Seq(Waiting) /\ Len(w) \in Nat
      /\ \A i, j \in 1..Len(w) : w[i] = w[j] => i = j
      /\ \A x \in Waiting : \E i \in 1..Len(w) : w[i] = x
      /\ \A i \in 1..Len(w) : w[i] \in Waiting
  <2>1. /\ w \in Seq(Waiting) /\ Len(w) \in Nat
        /\ \A i, j \in 1..Len(w) : w[i] = w[j] => i = j
        /\ \A x \in Waiting : \E i \in 1..Len(w) : w[i] = x
    BY WaitingIsFinite, OrdersOf
  <2> QED
    BY <2>1
<1>3. w \in Seq(Requests)
  BY <1>2 DEF Waiting
<1>4. /\ Resolved /\ runnable \in Seq(Requests)
      /\ \A d \in Requests : pc'[d] = "resolved" <=> pc[d] = "resolved" \/ d \in Waiting
      /\ \A k \in 1..Len(runnable) : runnable[k] \notin Waiting
  BY DEF TypeOK, Resolved, In, Loss, Waiting
<1>5. runnable' \in Seq(Requests)
  BY <1>1, <1>3, <1>4, ConcatOf
<1>6. Resolved'
  <2>1. ASSUME NEW d \in Requests
        PROVE  In(d, runnable)' <=> In(d, runnable) \/ d \in Waiting
    <3>1. In(d, w) <=> d \in Waiting
      BY <1>2 DEF In
    <3>2. In(d, runnable \o w) <=> In(d, runnable) \/ In(d, w)
      BY <1>3, <1>4, InConcat
    <3> QED
      BY <1>1, <3>1, <3>2 DEF In
  <2> QED
    BY <1>4, <2>1 DEF Resolved
<1>7. RunsOnce'
  <2>1. \A i \in 1..Len(runnable), j \in 1..Len(w) : runnable[i] # w[j]
    BY <1>2, <1>4
  <2>2. runnable \in Seq(Requests) /\ w \in Seq(Requests)
    BY <1>3, <1>4
  <2>3. \A i, j \in 1..Len(runnable) : runnable[i] = runnable[j] => i = j
    BY DEF RunsOnce
  <2>4. \A i, j \in 1..Len(w) : w[i] = w[j] => i = j
    BY <1>2
  <2>5. \A i, j \in 1..Len(runnable \o w) : (runnable \o w)[i] = (runnable \o w)[j] => i = j
    BY <2>1, <2>2, <2>3, <2>4, ConcatOnce
  <2> QED
    BY <1>1, <2>5 DEF RunsOnce
<1> QED
  BY <1>5, <1>6, <1>7

Replies == [of : Requests, result : {"ok", "refused"}]

\* What comes off a queue, and what stays.
LEMMA NextAnswer ==
  ASSUME TypeOK, answers # <<>>
  PROVE  /\ Tail(answers) \in Seq(Replies) /\ Head(answers) \in Replies
         /\ Head(answers).of \in Requests /\ Head(answers).result \in {"ok", "refused"}
<1>1. answers \in Seq(Replies)
  BY DEF TypeOK, Replies
<1>2. Tail(answers) \in Seq(Replies) /\ Head(answers) \in Replies
  BY <1>1, TailOf
<1> QED
  BY <1>2 DEF Replies

LEMMA NextCommand ==
  ASSUME TypeOK, commands # <<>>
  PROVE  Tail(commands) \in Seq(Requests) /\ Head(commands) \in Requests
<1>1. commands \in Seq(Requests)
  BY DEF TypeOK
<1> QED
  BY <1>1, TailOf

\* A request can be sent, and an answer too.
LEMMA SendTyped ==
  ASSUME TypeOK
  PROVE  /\ \A c \in Requests : Append(commands, c) \in Seq(Requests)
         /\ \A c \in Calls : Append(executed, c) \in Seq(Calls)
         /\ \A c \in Requests, r \in {"ok", "refused"} :
              Append(answers, [of |-> c, result |-> r]) \in Seq(Replies)
<1>1. commands \in Seq(Requests) /\ executed \in Seq(Calls) /\ answers \in Seq(Replies)
  BY DEF TypeOK, Replies
<1>2. \A c \in Requests, r \in {"ok", "refused"} : [of |-> c, result |-> r] \in Replies
  BY DEF Replies
<1> QED
  BY <1>1, <1>2, AppendOf

\* Every request runs once, and only those that are resolved do.
LEMMA ResolvedStays == TypeOK /\ RunsOnce /\ [Next]_vars => Resolved' /\ RunsOnce' /\ runnable' \in Seq(Requests)
<1> SUFFICES ASSUME TypeOK, RunsOnce, [Next]_vars
             PROVE  Resolved' /\ RunsOnce' /\ runnable' \in Seq(Requests)
  OBVIOUS
<1>0. Resolved /\ runnable \in Seq(Requests) /\ pc \in [Requests -> {"idle", "waiting", "resolved", "done"}]
  BY DEF TypeOK, Resolved, In
<1>1. ASSUME NEW c \in Calls, Begin(c)
      PROVE  Resolved' /\ RunsOnce' /\ runnable' \in Seq(Requests)
  BY <1>0, <1>1 DEF Begin, Resolved, RunsOnce, In, Requests
<1>2. ASSUME NEW c \in Requests, OnTimeout(c)
      PROVE  Resolved' /\ RunsOnce' /\ runnable' \in Seq(Requests)
  BY <1>2, ResolveOnce DEF OnTimeout, Results
<1>3. CASE HandleAnswer
  <2>1. Head(answers).of \in Requests /\ Head(answers).result \in Results
    BY <1>3, NextAnswer DEF HandleAnswer, Results
  <2>2. CASE pc[Head(answers).of] = "waiting"
    BY <1>3, <2>1, <2>2, ResolveOnce DEF HandleAnswer
  <2>3. CASE pc[Head(answers).of] # "waiting"
    BY <1>0, <1>3, <2>3 DEF HandleAnswer, Resolved, RunsOnce, In
  <2> QED
    BY <2>2, <2>3
<1>4. CASE Return
  BY <1>4, ReturnOnce DEF Return
<1>5. CASE ReplayReturns
  BY <1>5, ReturnOnce DEF ReplayReturns
<1>6. CASE Loss
  BY <1>6, LossResolves
<1>7. CASE Reconnect
  <2>1. ~In(Replay, runnable) /\ runnable' = runnable
    BY <1>7 DEF Reconnect, In
  <2>2. \A d \in Requests : pc'[d] = "resolved" <=> pc[d] = "resolved"
    BY <1>0, <1>7, <2>1 DEF Reconnect, Resolved, Requests
  <2> QED
    BY <1>0, <2>1, <2>2 DEF Resolved, RunsOnce, In
<1>8. CASE Execute
  BY <1>0, <1>8 DEF Execute, Resolved, RunsOnce, In
<1>9. CASE UNCHANGED vars
  BY <1>0, <1>9 DEF vars, Resolved, RunsOnce, In
<1> QED
  BY <1>1, <1>2, <1>3, <1>4, <1>5, <1>6, <1>7, <1>8, <1>9 DEF Next

Flags ==
    /\ state \in {"READY", "TRANSIENT_FAILURE", "RECONNECTING"}
    /\ up \in BOOLEAN /\ conns \in 1..MaxConns
    /\ intent \in BOOLEAN /\ latch \in BOOLEAN
Calling ==
    /\ engage \in [Requests -> BOOLEAN]
    /\ pc \in [Requests -> {"idle", "waiting", "resolved", "done"}]
    /\ result \in [Requests -> Results]
    /\ sentOn \in [Requests -> 0..MaxConns]
Queues ==
    /\ executed \in Seq(Calls) /\ commands \in Seq(Requests) /\ answers \in Seq(Replies)

LEMMA TypeParts == TypeOK <=> Flags /\ Calling /\ Queues /\ Resolved /\ runnable \in Seq(Requests)
BY DEF TypeOK, Flags, Calling, Queues, Resolved, Replies, In

LEMMA FlagsStay == TypeOK /\ [Next]_vars => Flags'
<1> SUFFICES ASSUME TypeOK, [Next]_vars
             PROVE  Flags'
  OBVIOUS
<1> USE TypeParts, ConnsAssumption DEF Flags
<1>1. ASSUME NEW c \in Calls, Begin(c)
      PROVE  Flags'
  BY <1>1 DEF Begin
<1>2. ASSUME NEW c \in Requests, OnTimeout(c)
      PROVE  Flags'
  BY <1>2 DEF OnTimeout, wire
<1>3. CASE HandleAnswer
  BY <1>3 DEF HandleAnswer
<1>4. CASE Return
  <2>1. Head(runnable) \in Requests
    BY <1>4 DEF Return, Requests
  <2> QED
    BY <1>4, <2>1 DEF Return, wire, Calling
<1>5. CASE ReplayReturns
  BY <1>5 DEF ReplayReturns, Disconnected
<1>6. CASE Loss
  BY <1>6 DEF Loss, Disconnected
<1>7. CASE Reconnect
  <2>1. conns' \in 1..MaxConns
    BY <1>7 DEF Reconnect
  <2> QED
    BY <1>7, <2>1 DEF Reconnect
<1>8. CASE Execute
  <2>1. Head(commands) \in Requests
    BY <1>8, NextCommand DEF Execute
  <2> QED
    BY <1>8, <2>1 DEF Execute, Calling
<1>9. CASE UNCHANGED vars
  BY <1>9 DEF vars
<1> QED
  BY <1>1, <1>2, <1>3, <1>4, <1>5, <1>6, <1>7, <1>8, <1>9 DEF Next

LEMMA CallingStays == TypeOK /\ [Next]_vars => Calling'
<1> SUFFICES ASSUME TypeOK, [Next]_vars
             PROVE  Calling'
  OBVIOUS
<1> USE TypeParts, ConnsAssumption DEF Calling, Results
<1>0. conns \in 1..MaxConns
  BY DEF Flags
<1>1. ASSUME NEW c \in Calls, Begin(c)
      PROVE  Calling'
  <2>1. conns \in 0..MaxConns /\ c \in Requests
    BY <1>0, <1>1 DEF Requests
  <2> QED
    BY <1>1, <2>1 DEF Begin
<1>2. ASSUME NEW c \in Requests, OnTimeout(c)
      PROVE  Calling'
  BY <1>2 DEF OnTimeout, Resolve
<1>3. CASE HandleAnswer
  <2>1. Head(answers).of \in Requests /\ Head(answers).result \in {"ok", "refused"}
    BY <1>3, NextAnswer DEF HandleAnswer
  <2> QED
    BY <1>3, <2>1 DEF HandleAnswer, Resolve
<1>4. CASE Return
  BY <1>4 DEF Return
<1>5. CASE ReplayReturns
  BY <1>5 DEF ReplayReturns
<1>6. CASE Loss
  BY <1>6 DEF Loss
<1>7. CASE Reconnect
  <2>1. conns + 1 \in 0..MaxConns
    BY <1>0, <1>7 DEF Reconnect
  <2> QED
    BY <1>7, <2>1 DEF Reconnect, Requests
<1>8. CASE Execute
  BY <1>8 DEF Execute
<1>9. CASE UNCHANGED vars
  BY <1>9 DEF vars
<1> QED
  BY <1>1, <1>2, <1>3, <1>4, <1>5, <1>6, <1>7, <1>8, <1>9 DEF Next

LEMMA QueuesStay == TypeOK /\ [Next]_vars => Queues'
<1> SUFFICES ASSUME TypeOK, [Next]_vars
             PROVE  Queues'
  OBVIOUS
<1>0. Queues
  BY TypeParts
<1> USE DEF Queues
<1>1. ASSUME NEW c \in Calls, Begin(c)
      PROVE  Queues'
  BY <1>0, <1>1, SendTyped DEF Begin, Requests
<1>2. ASSUME NEW c \in Requests, OnTimeout(c)
      PROVE  Queues'
  BY <1>0, <1>2 DEF OnTimeout, wire
<1>3. CASE HandleAnswer
  BY <1>0, <1>3, NextAnswer DEF HandleAnswer
<1>4. CASE Return
  BY <1>0, <1>4 DEF Return, wire
<1>5. CASE ReplayReturns
  <2>1. executed' = executed
    BY <1>5 DEF ReplayReturns
  <2>2. CASE commands' = commands /\ answers' = answers
    BY <1>0, <2>1, <2>2
  <2>3. CASE commands' = <<>> /\ answers' = <<>>
    BY <1>0, <2>1, <2>3
  <2> QED
    BY <1>5, <2>2, <2>3 DEF ReplayReturns, Disconnected
<1>6. CASE Loss
  BY <1>0, <1>6 DEF Loss, Disconnected
<1>7. CASE Reconnect
  BY <1>0, <1>7, SendTyped DEF Reconnect, Requests
<1>8. CASE Execute
  <2> DEFINE c == Head(commands)
  <2>1. commands' \in Seq(Requests) /\ c \in Requests
    BY <1>8, NextCommand DEF Execute
  <2>2. executed' \in Seq(Calls)
    <3>1. CASE c = Replay
      BY <1>0, <1>8, <3>1 DEF Execute
    <3>2. CASE c \in Calls
      BY <1>0, <1>8, <3>2, SendTyped DEF Execute
    <3> QED
      BY <2>1, <3>1, <3>2 DEF Requests
  <2>3. answers' \in Seq(Replies)
    BY <1>8, <2>1, SendTyped DEF Execute
  <2> QED
    BY <2>1, <2>2, <2>3
<1>9. CASE UNCHANGED vars
  BY <1>0, <1>9 DEF vars
<1> QED
  BY <1>1, <1>2, <1>3, <1>4, <1>5, <1>6, <1>7, <1>8, <1>9 DEF Next

LEMMA TypesStay == TypeOK /\ RunsOnce /\ [Next]_vars => TypeOK' /\ RunsOnce'
<1>1. Flags' /\ Calling' /\ Queues' /\ Resolved' /\ runnable' \in Seq(Requests) => TypeOK'
  BY DEF TypeOK, Flags, Calling, Queues, Resolved, Replies, In
<1> QED
  BY <1>1, FlagsStay, CallingStays, QueuesStay, ResolvedStays

LEMMA InitTyped == Init => TypeOK /\ RunsOnce
<1> SUFFICES ASSUME Init
             PROVE  TypeOK /\ RunsOnce
  OBVIOUS
<1>0. conns \in 1..MaxConns /\ 0 \in 0..MaxConns
  BY ConnsAssumption DEF Init
<1>1. Flags /\ Calling
  BY <1>0 DEF Init, Flags, Calling, Results
<1>2. Queues /\ runnable \in Seq(Requests)
  BY DEF Init, Queues
<1>3. Resolved /\ RunsOnce
  BY DEF Init, Resolved, RunsOnce, In
<1> QED
  BY <1>1, <1>2, <1>3, TypeParts

\* The types of EmergencyStop, and that every request resumes once.
THEOREM TypeCorrect == Spec => []TypeOK
<1>1. Spec => [](TypeOK /\ RunsOnce)
  BY InitTyped, TypesStay, PTL DEF Spec
<1> QED
  BY <1>1, PTL

-----------------------------------------------------------------------------
(* What is under way.                                                      *)

LEMMA Queued ==
  ASSUME TypeOK
  PROVE  /\ commands \in Seq(Requests) /\ executed \in Seq(Calls) /\ answers \in Seq(Replies)
         /\ runnable \in Seq(Requests) /\ Resolved
         /\ pc \in [Requests -> {"idle", "waiting", "resolved", "done"}]
         /\ result \in [Requests -> Results] /\ sentOn \in [Requests -> 0..MaxConns]
BY TypeParts DEF Calling, Queues

LEMMA DownStays == TypeOK /\ Down /\ [Next]_vars => Down'
<1> SUFFICES ASSUME TypeOK, Down, [Next]_vars
             PROVE  Down'
  OBVIOUS
<1> USE DEF Down
<1>1. ASSUME NEW c \in Calls, Begin(c)
      PROVE  Down'
  BY <1>1 DEF Begin
<1>2. ASSUME NEW c \in Requests, OnTimeout(c)
      PROVE  Down'
  BY <1>2 DEF OnTimeout, wire
<1>3. CASE HandleAnswer
  BY <1>3 DEF HandleAnswer
<1>4. CASE Return
  BY <1>4 DEF Return, wire
<1>5. CASE ReplayReturns
  <2>1. CASE result[Replay] = "ok"
    BY <1>5, <2>1 DEF ReplayReturns
  <2>2. CASE result[Replay] # "ok"
    BY <1>5, <2>2 DEF ReplayReturns, Disconnected
  <2> QED
    BY <2>1, <2>2
<1>6. CASE Loss
  BY <1>6 DEF Loss, Disconnected
<1>7. CASE Reconnect
  BY <1>7 DEF Reconnect
<1>8. CASE Execute
  BY <1>8 DEF Execute
<1>9. CASE UNCHANGED vars
  BY <1>9 DEF vars
<1> QED
  BY <1>1, <1>2, <1>3, <1>4, <1>5, <1>6, <1>7, <1>8, <1>9 DEF Next

\* The head of a queue, and the answer that was read, do not come again.
LEMMA ReadOnce ==
  ASSUME TypeOK, Distinct, answers # <<>>, answers' = Tail(answers)
  PROVE  /\ \A c, r : Answer(c, r) <=> Answer(c, r)' \/ (c = Head(answers).of /\ r = Head(answers).result)
         /\ \A c \in Calls : \A r : c = Head(answers).of => ~Answer(c, r)'
<1>1. answers \in Seq(Replies) /\ Head(answers) \in Replies
  BY Queued, NextAnswer
<1>2. ASSUME NEW c, NEW r
      PROVE  Answer(c, r) <=> Answer(c, r)' \/ (c = Head(answers).of /\ r = Head(answers).result)
  <2>1. In([of |-> c, result |-> r], answers)
          <=> [of |-> c, result |-> r] = Head(answers) \/ In([of |-> c, result |-> r], Tail(answers))
    BY <1>1, InTail
  <2>2. [of |-> c, result |-> r] = Head(answers) <=> c = Head(answers).of /\ r = Head(answers).result
    BY <1>1 DEF Replies
  <2> QED
    BY <2>1, <2>2 DEF Answer
<1>3. ASSUME NEW c \in Calls, NEW r, c = Head(answers).of, Answer(c, r)'
      PROVE  FALSE
  <2>1. PICK i \in 1..Len(Tail(answers)) : Tail(answers)[i] = [of |-> c, result |-> r]
    <3>1. In([of |-> c, result |-> r], answers')
      BY <1>3 DEF Answer
    <3> QED
      BY <3>1 DEF In
  <2>2. i + 1 \in 1..Len(answers) /\ 1 \in 1..Len(answers) /\ i + 1 # 1 /\ answers[1] = Head(answers)
        /\ answers[i + 1] = Tail(answers)[i]
    BY <1>1, TailOf
  <2>3. answers[i + 1].of = answers[1].of /\ answers[1].of \in Calls
    BY <1>3, <2>1, <2>2
  <2>4. i + 1 = 1
    BY <2>2, <2>3 DEF Distinct
  <2> QED
    BY <2>2, <2>4
<1> QED
  BY <1>2, <1>3

LEMMA AnswerSent ==
  ASSUME TypeOK, NEW c \in Requests, NEW r \in {"ok", "refused"},
         answers' = Append(answers, [of |-> c, result |-> r])
  PROVE  \A d, q : Answer(d, q)' <=> Answer(d, q) \/ (d = c /\ q = r)
<1> SUFFICES ASSUME NEW d, NEW q
             PROVE  Answer(d, q)' <=> Answer(d, q) \/ (d = c /\ q = r)
  OBVIOUS
<1>1. answers \in Seq(Replies) /\ [of |-> c, result |-> r] \in Replies
  BY Queued DEF Replies
<1>2. In([of |-> d, result |-> q], answers')
        <=> In([of |-> d, result |-> q], answers) \/ [of |-> d, result |-> q] = [of |-> c, result |-> r]
  BY <1>1, InAppend
<1>3. [of |-> d, result |-> q] = [of |-> c, result |-> r] <=> d = c /\ q = r
  OBVIOUS
<1> QED
  BY <1>2, <1>3 DEF Answer

LEMMA ExecutedOnce ==
  ASSUME TypeOK, Distinct, commands # <<>>, commands' = Tail(commands)
  PROVE  /\ \A c : In(c, commands) <=> In(c, commands') \/ c = Head(commands)
         /\ Head(commands) \in Calls => ~In(Head(commands), commands')
<1>1. commands \in Seq(Requests)
  BY Queued
<1>2. \A c : In(c, commands) <=> In(c, commands') \/ c = Head(commands)
  BY <1>1, InTail
<1>3. ASSUME Head(commands) \in Calls, In(Head(commands), commands')
      PROVE  FALSE
  <2>1. PICK i \in 1..Len(Tail(commands)) : Tail(commands)[i] = Head(commands)
    BY <1>3 DEF In
  <2>2. i + 1 \in 1..Len(commands) /\ 1 \in 1..Len(commands) /\ i + 1 # 1
        /\ commands[i + 1] = commands[1] /\ commands[1] \in Calls
    BY <1>1, <1>3, <2>1, TailOf
  <2> QED
    BY <2>2 DEF Distinct
<1> QED
  BY <1>2, <1>3

LEMMA NothingIn == \A x : ~In(x, <<>>)
BY DEF In

\* Every call keeps its account of the robot.
LEMMA FollowedStays ==
  ASSUME TypeOK, Down, SentOnce, [Next]_vars, NEW d \in Calls
  PROVE  Followed(d)'
<1>0. Followed(d) /\ Distinct /\ d \in Requests /\ d # Replay
  BY ReplayAssumption DEF SentOnce, Requests
<1>q. /\ commands \in Seq(Requests) /\ executed \in Seq(Calls)
      /\ pc \in [Requests -> {"idle", "waiting", "resolved", "done"}]
      /\ result \in [Requests -> Results] /\ sentOn \in [Requests -> 0..MaxConns]
  BY Queued
<1>a. ASSUME answers' = answers, NEW r
      PROVE  Answer(d, r)' <=> Answer(d, r)
  BY <1>a DEF Answer
<1>n. ASSUME answers' = <<>>, NEW r
      PROVE  ~Answer(d, r)'
  BY <1>n, NothingIn DEF Answer
<1>1. ASSUME NEW c \in Calls, Begin(c)
      PROVE  Followed(d)'
  <2>1. CASE ~up
    BY <1>0, <1>q, <1>a, <1>1, <2>1 DEF Begin, Followed
  <2>2. CASE up
    <3>1. In(d, commands') <=> In(d, commands) \/ d = c
      <4>1. commands' = Append(commands, c) /\ c \in Requests
        BY <1>1, <2>2 DEF Begin, Requests
      <4> QED
        BY <1>q, <4>1, InAppend
    <3>2. pc'[c] = "waiting" /\ sentOn'[c] = conns' /\ result' = result /\ pc[c] = "idle"
          /\ executed' = executed /\ conns' = conns
          /\ (d # c => pc'[d] = pc[d] /\ sentOn'[d] = sentOn[d])
      BY <1>q, <1>1, <2>2 DEF Begin, Requests
    <3>3. answers' = answers
      BY <1>1 DEF Begin
    <3>4. CASE d = c
      BY <1>0, <1>a, <3>1, <3>2, <3>3, <3>4 DEF Followed
    <3>5. CASE d # c
      BY <1>0, <1>a, <3>1, <3>2, <3>3, <3>5 DEF Followed
    <3> QED
      BY <3>4, <3>5
  <2> QED
    BY <1>1, <2>1, <2>2 DEF Begin
<1>2. ASSUME NEW c \in Requests, OnTimeout(c)
      PROVE  Followed(d)'
  BY <1>0, <1>q, <1>a, <1>2 DEF OnTimeout, Resolve, wire, Followed
<1>3. CASE HandleAnswer
  <2> DEFINE a == Head(answers)
  <2>1. /\ \A r : Answer(d, r) <=> Answer(d, r)' \/ (d = a.of /\ r = a.result)
        /\ d = a.of => \A r : ~Answer(d, r)'
        /\ a.of \in Requests /\ a.result \in {"ok", "refused"}
    BY <1>0, <1>3, ReadOnce, NextAnswer DEF HandleAnswer
  <2>2. commands' = commands /\ executed' = executed /\ sentOn' = sentOn /\ conns' = conns
    BY <1>3 DEF HandleAnswer
  <2>3. CASE pc[a.of] = "waiting" /\ d = a.of
    <3>1. pc'[d] = "resolved" /\ result'[d] = a.result /\ Answer(d, a.result)
      BY <1>q, <1>0, <1>3, <2>1, <2>3 DEF HandleAnswer, Resolve
    <3>2. CASE a.result = "ok"
      BY <1>0, <2>1, <2>2, <2>3, <3>1, <3>2 DEF Followed
    <3>3. CASE a.result = "refused"
      BY <1>0, <2>1, <2>2, <2>3, <3>1, <3>3 DEF Followed
    <3> QED
      BY <2>1, <3>2, <3>3
  <2>4. CASE ~(pc[a.of] = "waiting" /\ d = a.of)
    <3>1. pc'[d] = pc[d] /\ result'[d] = result[d]
      BY <1>q, <1>0, <1>3, <2>1, <2>4 DEF HandleAnswer, Resolve
    <3> QED
      BY <1>0, <2>1, <2>2, <3>1 DEF Followed
  <2> QED
    BY <2>3, <2>4
<1>4. CASE Return
  <2>1. pc'[d] = pc[d] \/ (pc[d] = "resolved" /\ pc'[d] = "done")
    <3>1. In(Head(runnable), runnable) /\ Head(runnable) \in Requests
      BY <1>4, Queued, InTail DEF Return, Requests
    <3>2. pc[Head(runnable)] = "resolved"
      BY <3>1, Queued DEF Resolved
    <3> QED
      BY <1>q, <1>0, <1>4, <3>1, <3>2 DEF Return
  <2> QED
    BY <1>0, <1>q, <1>a, <1>4, <2>1 DEF Return, wire, Followed
<1>5. CASE ReplayReturns
  <2>1. pc'[d] = pc[d] /\ result' = result /\ sentOn' = sentOn /\ executed' = executed /\ conns' = conns
    BY <1>q, <1>0, <1>5 DEF ReplayReturns
  <2>2. CASE commands' = commands /\ answers' = answers
    BY <1>0, <1>a, <2>1, <2>2 DEF Followed
  <2>3. CASE commands' = <<>> /\ answers' = <<>>
    BY <1>0, <1>n, <2>1, <2>3, NothingIn DEF Followed
  <2> QED
    BY <1>5, <2>2, <2>3 DEF ReplayReturns, Disconnected
<1>6. CASE Loss
  <2>1. commands' = <<>> /\ answers' = <<>> /\ executed' = executed
    BY <1>6 DEF Loss, Disconnected
  <2>2. \/ pc'[d] = pc[d] /\ result'[d] = result[d] /\ pc[d] # "waiting"
        \/ pc[d] = "waiting" /\ pc'[d] = "resolved" /\ result'[d] = "lost"
    BY <1>q, <1>0, <1>6 DEF Loss, Waiting
  <2> QED
    BY <1>0, <1>n, <2>1, <2>2, NothingIn DEF Followed
<1>7. CASE Reconnect
  <2>1. ~In(d, commands')
    <3>1. commands = <<>>
      BY <1>7 DEF Reconnect, Down
    <3>2. ~In(d, commands) /\ (In(d, Append(commands, Replay)) <=> In(d, commands) \/ d = Replay)
      BY <1>q, <3>1, NothingIn, InAppend DEF Requests
    <3> QED
      BY <1>0, <1>7, <3>2 DEF Reconnect
  <2>2. pc'[d] = pc[d] /\ result' = result /\ executed' = executed /\ answers' = answers
    BY <1>q, <1>0, <1>7 DEF Reconnect
  <2> QED
    BY <1>0, <1>a, <2>1, <2>2 DEF Followed
<1>8. CASE Execute
  <2> DEFINE c == Head(commands)
  <2>1. /\ In(d, commands) <=> In(d, commands') \/ d = c
        /\ d = c => ~In(d, commands')
        /\ c \in Requests
    BY <1>0, <1>8, ExecutedOnce, NextCommand DEF Execute
  <2>2. pc' = pc /\ result' = result /\ sentOn' = sentOn /\ conns' = conns
    BY <1>8 DEF Execute
  <2>3. CASE /\ executed' = IF c = Replay THEN executed ELSE Append(executed, c)
             /\ answers' = Append(answers, [of |-> c, result |-> "ok"])
    <3>1. In(d, executed') <=> In(d, executed) \/ d = c
      <4>1. CASE c = Replay
        BY <1>0, <2>3, <4>1
      <4>2. CASE c # Replay
        BY <1>q, <2>1, <2>3, <4>2, InAppend DEF Requests
      <4> QED
        BY <4>1, <4>2
    <3>2. \A r : Answer(d, r)' <=> Answer(d, r) \/ (d = c /\ r = "ok")
      BY <2>1, <2>3, AnswerSent
    <3> QED
      BY <1>0, <2>1, <2>2, <3>1, <3>2 DEF Followed
  <2>4. CASE executed' = executed /\ answers' = Append(answers, [of |-> c, result |-> "refused"])
    <3>1. \A r : Answer(d, r)' <=> Answer(d, r) \/ (d = c /\ r = "refused")
      BY <2>1, <2>4, AnswerSent
    <3> QED
      BY <1>0, <2>1, <2>2, <2>4, <3>1 DEF Followed
  <2> QED
    BY <1>8, <2>3, <2>4 DEF Execute
<1>9. CASE UNCHANGED vars
  BY <1>0, <1>a, <1>9 DEF vars, Followed
<1> QED
  BY <1>1, <1>2, <1>3, <1>4, <1>5, <1>6, <1>7, <1>8, <1>9 DEF Next

Once(s, C) == \A i, j \in 1..Len(s) : s[i] = s[j] /\ s[i] \in C => i = j
OnceOf(s, C) == \A i, j \in 1..Len(s) : s[i].of = s[j].of /\ s[i].of \in C => i = j

LEMMA AppendOnce ==
  ASSUME NEW S, NEW s \in Seq(S), NEW e \in S, NEW C, Once(s, C), e \in C => ~In(e, s)
  PROVE  Once(Append(s, e), C)
<1> DEFINE t == Append(s, e)
<1> SUFFICES ASSUME NEW i \in 1..Len(t), NEW j \in 1..Len(t), t[i] = t[j], t[i] \in C
             PROVE  i = j
  BY DEF Once
<1>1. /\ Len(s) \in Nat /\ Len(t) = Len(s) + 1 /\ t[Len(s) + 1] = e
      /\ \A k \in 1..Len(s) : t[k] = s[k]
  BY AppendOf
<1> HIDE DEF t
<1>2. CASE i \in 1..Len(s) /\ j \in 1..Len(s)
  BY <1>1, <1>2 DEF Once
<1>3. CASE i \in 1..Len(s) /\ j = Len(s) + 1
  BY <1>1, <1>3 DEF In
<1>4. CASE i = Len(s) + 1 /\ j \in 1..Len(s)
  BY <1>1, <1>4 DEF In
<1>5. CASE i = Len(s) + 1 /\ j = Len(s) + 1
  BY <1>5
<1> QED
  BY <1>1, <1>2, <1>3, <1>4, <1>5

LEMMA TailOnce ==
  ASSUME NEW S, NEW s \in Seq(S), s # <<>>, NEW C, Once(s, C)
  PROVE  Once(Tail(s), C)
<1> SUFFICES ASSUME NEW i \in 1..Len(Tail(s)), NEW j \in 1..Len(Tail(s)), Tail(s)[i] = Tail(s)[j], Tail(s)[i] \in C
             PROVE  i = j
  BY DEF Once
<1>1. i + 1 \in 1..Len(s) /\ j + 1 \in 1..Len(s) /\ s[i + 1] = s[j + 1] /\ s[i + 1] \in C
  BY TailOf
<1>2. i + 1 = j + 1
  BY <1>1 DEF Once
<1> QED
  BY <1>2, TailOf

LEMMA AppendOnceOf ==
  ASSUME NEW s \in Seq(Replies), NEW a \in Replies, NEW C, OnceOf(s, C),
         a.of \in C => \A i \in 1..Len(s) : s[i].of # a.of
  PROVE  OnceOf(Append(s, a), C)
<1> DEFINE t == Append(s, a)
<1> SUFFICES ASSUME NEW i \in 1..Len(t), NEW j \in 1..Len(t), t[i].of = t[j].of, t[i].of \in C
             PROVE  i = j
  BY DEF OnceOf
<1>1. /\ Len(s) \in Nat /\ Len(t) = Len(s) + 1 /\ t[Len(s) + 1] = a
      /\ \A k \in 1..Len(s) : t[k] = s[k]
  BY AppendOf
<1> HIDE DEF t
<1>2. CASE i \in 1..Len(s) /\ j \in 1..Len(s)
  BY <1>1, <1>2 DEF OnceOf
<1>3. CASE i \in 1..Len(s) /\ j = Len(s) + 1
  BY <1>1, <1>3
<1>4. CASE i = Len(s) + 1 /\ j \in 1..Len(s)
  BY <1>1, <1>4
<1>5. CASE i = Len(s) + 1 /\ j = Len(s) + 1
  BY <1>5
<1> QED
  BY <1>1, <1>2, <1>3, <1>4, <1>5

LEMMA TailOnceOf ==
  ASSUME NEW s \in Seq(Replies), s # <<>>, NEW C, OnceOf(s, C)
  PROVE  OnceOf(Tail(s), C)
<1> SUFFICES ASSUME NEW i \in 1..Len(Tail(s)), NEW j \in 1..Len(Tail(s)),
                    Tail(s)[i].of = Tail(s)[j].of, Tail(s)[i].of \in C
             PROVE  i = j
  BY DEF OnceOf
<1>1. i + 1 \in 1..Len(s) /\ j + 1 \in 1..Len(s) /\ s[i + 1].of = s[j + 1].of /\ s[i + 1].of \in C
  BY TailOf
<1>2. i + 1 = j + 1
  BY <1>1 DEF OnceOf
<1> QED
  BY <1>2, TailOf

LEMMA DistinctIs == ASSUME TypeOK PROVE Distinct <=> Once(commands, Calls) /\ Once(executed, Calls) /\ OnceOf(answers, Calls)
<1>1. \A i \in 1..Len(executed) : executed[i] \in Calls
  BY Queued
<1> QED
  BY <1>1 DEF Distinct, Once, OnceOf

LEMMA NothingTwice == \A C : Once(<<>>, C) /\ OnceOf(<<>>, C)
BY DEF Once, OnceOf

\* Nothing is sent, executed or answered twice.
LEMMA DistinctStays ==
  ASSUME TypeOK, TypeOK', Down, SentOnce, [Next]_vars
  PROVE  Distinct'
<1> DEFINE Thrice == Once(commands', Calls) /\ Once(executed', Calls) /\ OnceOf(answers', Calls)
<1> SUFFICES Thrice
  <2>1. \A i \in 1..Len(executed') : executed'[i] \in Calls
    BY DEF TypeOK
  <2> QED
    BY <2>1 DEF Distinct, Once, OnceOf
<1>0. /\ Once(commands, Calls) /\ Once(executed, Calls) /\ OnceOf(answers, Calls)
      /\ \A c \in Calls : Followed(c)
  BY DistinctIs DEF SentOnce
<1>q. commands \in Seq(Requests) /\ executed \in Seq(Calls) /\ answers \in Seq(Replies)
  BY Queued
<1>1. ASSUME NEW c \in Calls, Begin(c)
      PROVE  Thrice
  <2>1. CASE ~up
    BY <1>0, <1>1, <2>1 DEF Begin
  <2>2. CASE up
    <3>1. commands' = Append(commands, c) /\ executed' = executed /\ answers' = answers
          /\ c \in Requests /\ pc[c] = "idle"
      BY <1>1, <2>2 DEF Begin, Requests
    <3>2. ~In(c, commands)
      BY <1>0, <3>1 DEF Followed
    <3> QED
      BY <1>0, <1>q, <3>1, <3>2, AppendOnce
  <2> QED
    BY <2>1, <2>2, <1>1 DEF Begin
<1>2. ASSUME NEW c \in Requests, OnTimeout(c)
      PROVE  Thrice
  BY <1>0, <1>2 DEF OnTimeout, wire
<1>3. CASE HandleAnswer
  BY <1>0, <1>q, <1>3, TailOnceOf DEF HandleAnswer
<1>4. CASE Return
  BY <1>0, <1>4 DEF Return, wire
<1>5. CASE ReplayReturns
  <2>1. executed' = executed
    BY <1>5 DEF ReplayReturns
  <2>2. CASE commands' = commands /\ answers' = answers
    BY <1>0, <2>1, <2>2
  <2>3. CASE commands' = <<>> /\ answers' = <<>>
    BY <1>0, <2>1, <2>3, NothingTwice
  <2> QED
    BY <1>5, <2>2, <2>3 DEF ReplayReturns, Disconnected
<1>6. CASE Loss
  BY <1>0, <1>6, NothingTwice DEF Loss, Disconnected
<1>7. CASE Reconnect
  <2>1. executed' = executed /\ answers' = answers /\ commands' \in {commands, Append(commands, Replay)}
    BY <1>7 DEF Reconnect
  <2>2. Once(Append(commands, Replay), Calls)
    BY <1>0, <1>q, AppendOnce, ReplayAssumption DEF Requests
  <2> QED
    BY <1>0, <2>1, <2>2
<1>8. CASE Execute
  <2> DEFINE c == Head(commands)
  <2>1. c \in Requests /\ In(c, commands) /\ commands' = Tail(commands) /\ Once(commands', Calls)
    BY <1>0, <1>q, <1>8, NextCommand, InTail, TailOnce DEF Execute
  <2>2. c \in Calls => ~In(c, executed) /\ ~Answer(c, "ok") /\ ~Answer(c, "refused")
    BY <1>0, <2>1 DEF Followed
  <2>3. Once(executed', Calls)
    <3>1. CASE executed' = executed
      BY <1>0, <3>1
    <3>2. CASE c \in Calls /\ executed' = Append(executed, c)
      BY <1>0, <1>q, <2>2, <3>2, AppendOnce
    <3> QED
      BY <1>8, <2>1, <3>1, <3>2 DEF Execute, Requests
  <2>4. c \in Calls => \A i \in 1..Len(answers) : answers[i].of # c
    <3> SUFFICES ASSUME c \in Calls, NEW i \in 1..Len(answers), answers[i].of = c
                 PROVE  FALSE
      OBVIOUS
    <3>1. answers[i] \in Replies
      BY <1>q
    <3>2. answers[i] = [of |-> c, result |-> "ok"] \/ answers[i] = [of |-> c, result |-> "refused"]
      BY <3>1 DEF Replies
    <3> QED
      BY <2>2, <3>2 DEF Answer, In
  <2>5. ASSUME NEW r \in {"ok", "refused"}, answers' = Append(answers, [of |-> c, result |-> r])
        PROVE  OnceOf(answers', Calls)
    <3>1. [of |-> c, result |-> r] \in Replies /\ [of |-> c, result |-> r].of = c
      BY <2>1 DEF Replies
    <3> QED
      BY <1>0, <1>q, <2>4, <2>5, <3>1, AppendOnceOf
  <2> QED
    BY <1>8, <2>1, <2>3, <2>5 DEF Execute
<1>9. CASE UNCHANGED vars
  BY <1>0, <1>9 DEF vars
<1> QED
  BY <1>1, <1>2, <1>3, <1>4, <1>5, <1>6, <1>7, <1>8, <1>9 DEF Next

-----------------------------------------------------------------------------
(* The order of the acknowledgements.                                      *)

\* Executing one more call puts it after all the others.
LEMMA BeforeGrows ==
  ASSUME NEW s \in Seq(Calls), NEW e \in Calls
  PROVE  /\ \A c, d : Before(s, c, d) => Before(Append(s, e), c, d)
         /\ \A c : In(c, s) => Before(Append(s, e), c, e)
<1>1. /\ Len(s) \in Nat /\ Len(Append(s, e)) = Len(s) + 1 /\ Append(s, e)[Len(s) + 1] = e
      /\ \A i \in 1..Len(s) : Append(s, e)[i] = s[i]
  BY AppendOf
<1>2. ASSUME NEW c, NEW d, Before(s, c, d)
      PROVE  Before(Append(s, e), c, d)
  <2>1. PICK m \in 1..Len(s), n \in 1..Len(s) : m < n /\ s[m] = c /\ s[n] = d
    BY <1>2 DEF Before
  <2>2. m \in 1..Len(Append(s, e)) /\ n \in 1..Len(Append(s, e))
    BY <1>1
  <2> QED
    BY <1>1, <2>1, <2>2 DEF Before
<1>3. ASSUME NEW c, In(c, s)
      PROVE  Before(Append(s, e), c, e)
  <2>1. PICK m \in 1..Len(s) : s[m] = c
    BY <1>3 DEF In
  <2>2. m \in 1..Len(Append(s, e)) /\ Len(s) + 1 \in 1..Len(Append(s, e)) /\ m < Len(s) + 1
    BY <1>1
  <2> QED
    BY <1>1, <2>1, <2>2 DEF Before
<1> QED
  BY <1>2, <1>3

\* Two executed calls come in one order only.
LEMMA BeforeOneWay ==
  ASSUME NEW s \in Seq(Calls), Once(s, Calls), NEW c, NEW d, Before(s, c, d)
  PROVE  ~Before(s, d, c)
<1> SUFFICES ASSUME Before(s, d, c) PROVE FALSE
  OBVIOUS
<1>1. PICK m \in 1..Len(s), n \in 1..Len(s) : m < n /\ s[m] = c /\ s[n] = d
  BY DEF Before
<1>2. PICK k \in 1..Len(s), l \in 1..Len(s) : k < l /\ s[k] = d /\ s[l] = c
  BY DEF Before
<1>3. m = l /\ n = k
  BY <1>1, <1>2 DEF Once
<1> QED
  BY <1>1, <1>2, <1>3

\* The parts of Order: of the tasks that run, of those that returned, of the
\* answers under way, and of those that arrived.
RunOrder == \A i, j \in 1..Len(runnable) :
    i < j /\ Ok(runnable[i]) /\ Ok(runnable[j]) => Before(executed, runnable[i], runnable[j])
ReturnOrder == \A c \in Calls : \A j \in 1..Len(runnable) :
    Acked(c) /\ Ok(runnable[j]) => Before(executed, c, runnable[j])
AnswerOrder == \A i, j \in 1..Len(answers) :
    i < j /\ OkAnswer(answers[i]) /\ OkAnswer(answers[j])
        => Before(executed, answers[i].of, answers[j].of)
ArrivalOrder == \A c \in Calls : \A j \in 1..Len(answers) :
    Ok(c) /\ OkAnswer(answers[j]) => Before(executed, c, answers[j].of)

LEMMA OrderIs == Order <=> RunOrder /\ ReturnOrder /\ AnswerOrder /\ ArrivalOrder
BY DEF Order, RunOrder, ReturnOrder, AnswerOrder, ArrivalOrder

\* A step that runs, returns and answers nothing more, and resolves nothing
\* with ok, keeps the order.
LEMMA NothingNew ==
  ASSUME Order, executed' = executed, runnable' = runnable, answers' = answers \/ answers' = <<>>,
         \A c \in Calls : (result'[c] = "ok" => result[c] = "ok"),
         \A c \in Calls : (result'[c] = "ok" /\ pc'[c] = "done" => pc[c] = "done")
  PROVE  Order'
<1>1. \A c : Ok(c)' => Ok(c)
  BY DEF Ok
<1>2. \A c \in Calls : Acked(c)' => Acked(c)
  BY DEF Acked, Ok
<1>3. RunOrder'
  BY <1>1, OrderIs DEF RunOrder, Ok
<1>4. ReturnOrder'
  BY <1>1, <1>2, OrderIs DEF ReturnOrder, Ok
<1>5. AnswerOrder' /\ ArrivalOrder'
  <2>1. CASE answers' = answers
    BY <1>1, <2>1, OrderIs DEF AnswerOrder, ArrivalOrder, OkAnswer
  <2>2. CASE answers' = <<>>
    BY <2>2 DEF AnswerOrder, ArrivalOrder
  <2> QED
    BY <2>1, <2>2
<1> QED
  BY <1>3, <1>4, <1>5 DEF Order, RunOrder, ReturnOrder, AnswerOrder, ArrivalOrder

\* A request that is resolved goes behind all that are runnable; if it is an
\* ok, the robot executed it after them.
LEMMA ResolvedInOrder ==
  ASSUME TypeOK, Order, executed' = executed, NEW c \in Requests, pc[c] = "waiting",
         NEW r \in Results, Resolve(c, r),
         c \in Calls /\ r = "ok" => \A d \in Calls : Ok(d) /\ d # c => Before(executed, d, c)
  PROVE  RunOrder' /\ ReturnOrder'
<1>q. /\ runnable \in Seq(Requests) /\ Resolved /\ result \in [Requests -> Results]
      /\ pc \in [Requests -> {"idle", "waiting", "resolved", "done"}]
  BY Queued
<1>1. /\ runnable' = Append(runnable, c) /\ Len(runnable) \in Nat /\ Len(runnable') = Len(runnable) + 1
      /\ runnable'[Len(runnable) + 1] = c
      /\ \A i \in 1..Len(runnable) : runnable'[i] = runnable[i]
  BY <1>q, AppendOf DEF Resolve
<1>2. \A d \in Requests : d # c => result'[d] = result[d] /\ pc'[d] = pc[d]
  BY <1>q DEF Resolve
<1>3. result'[c] = r /\ pc'[c] = "resolved"
  BY <1>q DEF Resolve
<1>4. \A i \in 1..Len(runnable) : runnable[i] \in Requests /\ runnable[i] # c
  BY <1>q DEF Resolved, In
<1>5. \A d \in Calls : d \in Requests /\ (d # c => (Ok(d)' <=> Ok(d)) /\ (Acked(d)' <=> Acked(d)))
  BY <1>2 DEF Ok, Acked, Requests
<1>6. ~Acked(c)' /\ (Ok(c)' <=> c \in Calls /\ r = "ok")
  BY <1>3 DEF Ok, Acked
<1>7. \A d \in Calls : Ok(d)' <=> d \in Calls /\ result'[d] = "ok"
  BY DEF Ok
<1>8. RunOrder'
  <2> SUFFICES ASSUME NEW i \in 1..Len(runnable'), NEW j \in 1..Len(runnable'), i < j,
                      NEW d \in Calls, d = runnable'[i], Ok(d)', NEW e \in Calls, e = runnable'[j], Ok(e)'
               PROVE  Before(executed, d, e)
    BY DEF RunOrder, Ok
  <2>1. i \in 1..Len(runnable) /\ runnable[i] = d /\ d # c /\ Ok(d)
    BY <1>1, <1>4, <1>5
  <2>2. CASE j \in 1..Len(runnable)
    <3>1. runnable[j] = e /\ e # c /\ Ok(e)
      BY <1>1, <1>4, <1>5, <2>2
    <3> QED
      BY <2>1, <2>2, <3>1, OrderIs DEF RunOrder
  <2>3. CASE j = Len(runnable) + 1
    BY <1>1, <1>6, <2>1, <2>3
  <2> QED
    BY <1>1, <2>2, <2>3
<1>9. ReturnOrder'
  <2> SUFFICES ASSUME NEW d \in Calls, Acked(d)', NEW j \in 1..Len(runnable'),
                      NEW e \in Calls, e = runnable'[j], Ok(e)'
               PROVE  Before(executed, d, e)
    BY DEF ReturnOrder, Ok
  <2>1. d # c /\ Acked(d) /\ Ok(d)
    BY <1>5, <1>6 DEF Acked
  <2>2. CASE j \in 1..Len(runnable)
    <3>1. runnable[j] = e /\ e # c /\ Ok(e)
      BY <1>1, <1>4, <1>5, <2>2
    <3> QED
      BY <2>1, <2>2, <3>1, OrderIs DEF ReturnOrder
  <2>3. CASE j = Len(runnable) + 1
    BY <1>1, <1>6, <2>1, <2>3
  <2> QED
    BY <1>1, <2>2, <2>3
<1> QED
  BY <1>8, <1>9

\* A call that returns is acknowledged after all the others.
LEMMA ReturnsInOrder ==
  ASSUME TypeOK, Order, executed' = executed, runnable # <<>>, runnable' = Tail(runnable),
         pc' = [pc EXCEPT ![Head(runnable)] = "done"], result' = result
  PROVE  RunOrder' /\ ReturnOrder'
<1>q. /\ runnable \in Seq(Requests) /\ pc \in [Requests -> {"idle", "waiting", "resolved", "done"}]
      /\ Len(runnable) \in Nat \ {0} /\ Len(runnable') = Len(runnable) - 1 /\ 1 \in 1..Len(runnable)
      /\ runnable[1] = Head(runnable)
  BY Queued, TailOf
<1>1. \A i \in 1..Len(runnable') : i + 1 \in 1..Len(runnable) /\ runnable'[i] = runnable[i + 1] /\ 1 < i + 1
  BY <1>q, TailOf
<1>2. \A d \in Calls : (Ok(d)' <=> Ok(d)) /\ (Acked(d)' => Acked(d) \/ d = runnable[1])
  BY <1>q DEF Ok, Acked, Requests
<1>3. RunOrder'
  <2> SUFFICES ASSUME NEW i \in 1..Len(runnable'), NEW j \in 1..Len(runnable'), i < j,
                      NEW d \in Calls, d = runnable'[i], Ok(d)', NEW e \in Calls, e = runnable'[j], Ok(e)'
               PROVE  Before(executed, d, e)
    BY DEF RunOrder, Ok
  <2>1. /\ i + 1 \in 1..Len(runnable) /\ j + 1 \in 1..Len(runnable) /\ i + 1 < j + 1
        /\ runnable[i + 1] = d /\ runnable[j + 1] = e
    BY <1>1
  <2>2. Ok(d) /\ Ok(e)
    BY <1>2
  <2> QED
    BY <2>1, <2>2, OrderIs DEF RunOrder
<1>4. ReturnOrder'
  <2> SUFFICES ASSUME NEW d \in Calls, Acked(d)', NEW j \in 1..Len(runnable'),
                      NEW e \in Calls, e = runnable'[j], Ok(e)'
               PROVE  Before(executed, d, e)
    BY DEF ReturnOrder, Ok
  <2>1. j + 1 \in 1..Len(runnable) /\ runnable[j + 1] = e /\ 1 < j + 1 /\ Ok(e)
    BY <1>1, <1>2
  <2>2. CASE Acked(d)
    BY <2>1, <2>2, OrderIs DEF ReturnOrder
  <2>3. CASE d = runnable[1]
    <3>1. Ok(d)
      BY <1>2 DEF Acked
    <3> QED
      BY <1>q, <2>1, <2>3, <3>1, OrderIs DEF RunOrder
  <2> QED
    BY <1>2, <2>2, <2>3
<1> QED
  BY <1>3, <1>4

\* What a loss resolves is not an ok, and goes behind the rest.
LEMMA LossInOrder ==
  ASSUME TypeOK, Order, Loss
  PROVE  Order'
<1>q. /\ runnable \in Seq(Requests) /\ result \in [Requests -> Results]
      /\ pc \in [Requests -> {"idle", "waiting", "resolved", "done"}]
  BY Queued
<1>1. PICK w \in SetToSeqs(Waiting) : runnable' = runnable \o w
  BY DEF Loss
<1>2. w \in Seq(Waiting)
  BY WaitingIsFinite, OrdersOf
<1>3. w \in Seq(Requests) /\ \A i \in 1..Len(w) : w[i] \in Waiting
  BY <1>2 DEF Waiting
<1>4. /\ \A i \in 1..Len(runnable) : runnable'[i] = runnable[i]
      /\ \A i \in 1..Len(w) : runnable'[Len(runnable) + i] = w[i]
      /\ \A i \in 1..Len(runnable') : i \in 1..Len(runnable) \/ \E k \in 1..Len(w) : i = Len(runnable) + k
  <2>1. runnable' = runnable \o w
    BY <1>1
  <2> QED
    BY <1>q, <1>3, <2>1, ConcatOf
<1>5. \A d \in Calls : (Ok(d)' => Ok(d) /\ d \notin Waiting) /\ (Acked(d)' => Acked(d))
  BY <1>q DEF Loss, Ok, Acked, Waiting, Requests
<1>6. ASSUME NEW i \in 1..Len(runnable'), NEW d \in Calls, d = runnable'[i], Ok(d)'
      PROVE  i \in 1..Len(runnable) /\ runnable[i] = d
  BY <1>3, <1>4, <1>5, <1>6
<1>7. executed' = executed /\ answers' = <<>>
  BY DEF Loss, Disconnected
<1>8. RunOrder'
  <2> SUFFICES ASSUME NEW i \in 1..Len(runnable'), NEW j \in 1..Len(runnable'), i < j,
                      NEW d \in Calls, d = runnable'[i], Ok(d)', NEW e \in Calls, e = runnable'[j], Ok(e)'
               PROVE  Before(executed, d, e)
    BY <1>7 DEF RunOrder, Ok
  <2> QED
    BY <1>5, <1>6, OrderIs DEF RunOrder
<1>9. ReturnOrder'
  <2> SUFFICES ASSUME NEW d \in Calls, Acked(d)', NEW j \in 1..Len(runnable'),
                      NEW e \in Calls, e = runnable'[j], Ok(e)'
               PROVE  Before(executed, d, e)
    BY <1>7 DEF ReturnOrder, Ok
  <2> QED
    BY <1>5, <1>6, OrderIs DEF ReturnOrder
<1>10. AnswerOrder' /\ ArrivalOrder'
  BY <1>7 DEF AnswerOrder, ArrivalOrder
<1> QED
  BY <1>8, <1>9, <1>10 DEF Order, RunOrder, ReturnOrder, AnswerOrder, ArrivalOrder

\* Read in order, an answer is behind all that arrived.
LEMMA AnswerInOrder ==
  ASSUME TypeOK, SentOnce, Order, HandleAnswer
  PROVE  Order'
<1> DEFINE a == Head(answers)
<1>q. /\ answers \in Seq(Replies) /\ a \in Replies /\ a = answers[1] /\ 1 \in 1..Len(answers)
      /\ answers' = Tail(answers) /\ Len(answers) \in Nat /\ Len(answers') = Len(answers) - 1
      /\ a.of \in Requests /\ a.result \in {"ok", "refused"} /\ executed' = executed
      /\ \A i \in 1..Len(answers') : answers'[i] = answers[i + 1]
  BY Queued, NextAnswer, TailOf DEF HandleAnswer
<1>r. \A i \in 1..Len(answers') : i + 1 \in 1..Len(answers) /\ 1 < i + 1 /\ answers'[i] = answers[i + 1]
  BY <1>q
<1>1. AnswerOrder'
  <2> SUFFICES ASSUME NEW i \in 1..Len(answers'), NEW j \in 1..Len(answers'), i < j,
                      OkAnswer(answers'[i]), OkAnswer(answers'[j])
               PROVE  Before(executed, answers'[i].of, answers'[j].of)
    BY <1>q DEF AnswerOrder, OkAnswer
  <2>1. /\ i + 1 \in 1..Len(answers) /\ j + 1 \in 1..Len(answers) /\ i + 1 < j + 1
        /\ answers'[i] = answers[i + 1] /\ answers'[j] = answers[j + 1]
    BY <1>r
  <2> QED
    BY <2>1, OrderIs DEF AnswerOrder
<1>2. ASSUME NEW j \in 1..Len(answers'), NEW c \in Calls, OkAnswer(answers'[j]),
             Ok(c) \/ (c = a.of /\ a.result = "ok")
      PROVE  Before(executed, c, answers'[j].of)
  <2>1. j + 1 \in 1..Len(answers) /\ 1 < j + 1 /\ answers'[j] = answers[j + 1]
    BY <1>r
  <2>2. CASE Ok(c)
    BY <1>2, <2>1, <2>2, OrderIs DEF ArrivalOrder
  <2>3. CASE c = a.of /\ a.result = "ok"
    <3>1. OkAnswer(answers[1]) /\ answers[1].of = c
      BY <1>q, <2>3 DEF OkAnswer
    <3> QED
      BY <1>2, <1>q, <2>1, <3>1, OrderIs DEF AnswerOrder
  <2> QED
    BY <1>2, <2>2, <2>3
<1>3. CASE pc[a.of] = "waiting"
  <2>1. Resolve(a.of, a.result)
    BY <1>3 DEF HandleAnswer
  <2>2. a.of \in Calls /\ a.result = "ok" => \A d \in Calls : Ok(d) /\ d # a.of => Before(executed, d, a.of)
    BY <1>q, OrderIs DEF ArrivalOrder, OkAnswer
  <2>3. RunOrder' /\ ReturnOrder'
    BY <1>q, <1>3, <2>1, <2>2, ResolvedInOrder DEF Results
  <2>4. \A c \in Calls : Ok(c)' => Ok(c) \/ (c = a.of /\ a.result = "ok")
    BY <2>1, Queued DEF Resolve, Ok, Requests
  <2>5. ArrivalOrder'
    BY <1>q, <1>2, <2>4 DEF ArrivalOrder, OkAnswer
  <2> QED
    BY <1>1, <2>3, <2>5 DEF Order, RunOrder, ReturnOrder, AnswerOrder, ArrivalOrder
<1>4. CASE pc[a.of] # "waiting"
  <2>1. pc' = pc /\ result' = result /\ runnable' = runnable
    BY <1>4 DEF HandleAnswer
  <2>2. RunOrder' /\ ReturnOrder'
    BY <1>q, <2>1, OrderIs DEF RunOrder, ReturnOrder, Ok, Acked
  <2>3. \A c \in Calls : Ok(c)' => Ok(c)
    BY <2>1 DEF Ok
  <2>4. ArrivalOrder'
    BY <1>q, <1>2, <2>3 DEF ArrivalOrder, OkAnswer
  <2> QED
    BY <1>1, <2>2, <2>4 DEF Order, RunOrder, ReturnOrder, AnswerOrder, ArrivalOrder
<1> QED
  BY <1>3, <1>4

\* The robot answers after what it answered before.
LEMMA ExecuteInOrder ==
  ASSUME TypeOK, SentOnce, Order, Execute
  PROVE  Order'
<1> DEFINE c == Head(commands)
<1>q. /\ answers \in Seq(Replies) /\ executed \in Seq(Calls) /\ c \in Requests
      /\ runnable' = runnable /\ result' = result /\ pc' = pc
  BY Queued, NextCommand DEF Execute
<1>1. \A d, e : Before(executed, d, e) => Before(executed', d, e)
  BY <1>q, BeforeGrows DEF Execute, Requests
<1>2. RunOrder' /\ ReturnOrder'
  BY <1>q, <1>1, OrderIs DEF RunOrder, ReturnOrder, Ok, Acked
<1>3. PICK r \in {"ok", "refused"} :
        /\ answers' = Append(answers, [of |-> c, result |-> r])
        /\ r = "ok" /\ c \in Calls => executed' = Append(executed, c)
  BY ReplayAssumption DEF Execute
<1>4. [of |-> c, result |-> r] \in Replies
  BY <1>q DEF Replies
<1>5. /\ Len(answers) \in Nat /\ Len(answers') = Len(answers) + 1
      /\ answers'[Len(answers) + 1] = [of |-> c, result |-> r]
      /\ \A i \in 1..Len(answers) : answers'[i] = answers[i]
  BY <1>q, <1>3, <1>4, AppendOf
<1>6. ASSUME NEW d \in Calls, In(d, executed), c \in Calls, r = "ok"
      PROVE  Before(executed', d, c)
  BY <1>q, <1>3, <1>6, BeforeGrows
<1>7. AnswerOrder'
  <2> SUFFICES ASSUME NEW i \in 1..Len(answers'), NEW j \in 1..Len(answers'), i < j,
                      OkAnswer(answers'[i]), OkAnswer(answers'[j])
               PROVE  Before(executed', answers'[i].of, answers'[j].of)
    BY DEF AnswerOrder, OkAnswer
  <2>1. i \in 1..Len(answers) /\ answers'[i] = answers[i] /\ answers[i] \in Replies
    BY <1>q, <1>5
  <2>2. CASE j \in 1..Len(answers)
    BY <1>1, <1>5, <2>1, <2>2, OrderIs DEF AnswerOrder
  <2>3. CASE j = Len(answers) + 1
    <3>1. c \in Calls /\ r = "ok" /\ answers'[j].of = c
      BY <1>5, <2>3 DEF OkAnswer
    <3>2. answers[i] = [of |-> answers[i].of, result |-> "ok"] /\ answers[i].of \in Calls
      BY <2>1 DEF OkAnswer, Replies
    <3>3. Answer(answers[i].of, "ok")
      BY <2>1, <3>2 DEF Answer, In
    <3>4. In(answers[i].of, executed)
      BY <3>2, <3>3 DEF SentOnce, Followed
    <3> QED
      BY <1>6, <2>1, <3>1, <3>2, <3>4
  <2> QED
    BY <1>5, <2>2, <2>3
<1>8. ArrivalOrder'
  <2> SUFFICES ASSUME NEW d \in Calls, Ok(d), NEW j \in 1..Len(answers'), OkAnswer(answers'[j])
               PROVE  Before(executed', d, answers'[j].of)
    BY <1>q DEF ArrivalOrder, OkAnswer, Ok
  <2>1. In(d, executed)
    BY DEF SentOnce, Followed, Ok
  <2>2. CASE j \in 1..Len(answers)
    BY <1>1, <1>5, <2>2, OrderIs DEF ArrivalOrder
  <2>3. CASE j = Len(answers) + 1
    BY <1>5, <1>6, <2>1, <2>3 DEF OkAnswer
  <2> QED
    BY <1>5, <2>2, <2>3
<1> QED
  BY <1>2, <1>7, <1>8 DEF Order, RunOrder, ReturnOrder, AnswerOrder, ArrivalOrder

LEMMA OrderStays ==
  ASSUME TypeOK, SentOnce, Order, [Next]_vars
  PROVE  Order'
<1>q. /\ runnable \in Seq(Requests) /\ Resolved /\ result \in [Requests -> Results]
      /\ pc \in [Requests -> {"idle", "waiting", "resolved", "done"}]
  BY Queued
<1>f. \A c \in Calls : c \in Requests /\ c # Replay /\ (pc[c] = "idle" => result[c] = "none")
  BY ReplayAssumption DEF SentOnce, Followed, Requests
<1>1. ASSUME NEW c \in Calls, Begin(c)
      PROVE  Order'
  <2>1. \A d \in Calls : (result'[d] = "ok" => result[d] = "ok" /\ d # c) /\ (d # c => pc'[d] = pc[d])
    BY <1>q, <1>f, <1>1 DEF Begin
  <2>2. executed' = executed /\ runnable' = runnable /\ answers' = answers
    BY <1>1 DEF Begin
  <2> QED
    BY <2>1, <2>2, NothingNew
<1>2. ASSUME NEW c \in Requests, OnTimeout(c)
      PROVE  Order'
  <2>1. pc[c] = "waiting" /\ Resolve(c, "timeout") /\ executed' = executed /\ answers' = answers
    BY <1>2 DEF OnTimeout, wire
  <2>2. RunOrder' /\ ReturnOrder'
    BY <2>1, ResolvedInOrder DEF Results
  <2>3. \A d \in Calls : Ok(d)' => Ok(d)
    BY <1>q, <1>f, <2>1 DEF Resolve, Ok
  <2>4. AnswerOrder' /\ ArrivalOrder'
    BY <2>1, <2>3, OrderIs DEF AnswerOrder, ArrivalOrder, OkAnswer
  <2> QED
    BY <2>2, <2>4 DEF Order, RunOrder, ReturnOrder, AnswerOrder, ArrivalOrder
<1>3. CASE HandleAnswer
  BY <1>3, AnswerInOrder
<1>4. ASSUME Return \/ ReplayReturns
      PROVE  Order'
  <2>1. /\ runnable # <<>> /\ runnable' = Tail(runnable) /\ pc' = [pc EXCEPT ![Head(runnable)] = "done"]
        /\ executed' = executed /\ result' = result
    BY <1>4 DEF Return, ReplayReturns, wire
  <2>2. RunOrder' /\ ReturnOrder'
    BY <2>1, ReturnsInOrder
  <2>3. answers' = answers \/ answers' = <<>>
    BY <1>4 DEF Return, ReplayReturns, wire, Disconnected
  <2>4. CASE answers' = answers
    BY <2>1, <2>4, OrderIs, <2>2 DEF Order, RunOrder, ReturnOrder, AnswerOrder, ArrivalOrder, OkAnswer, Ok
  <2>5. CASE answers' = <<>>
    BY <2>5, <2>2 DEF Order, RunOrder, ReturnOrder
  <2> QED
    BY <2>3, <2>4, <2>5
<1>6. CASE Loss
  BY <1>6, LossInOrder
<1>7. CASE Reconnect
  <2>1. /\ executed' = executed /\ runnable' = runnable /\ answers' = answers /\ result' = result
        /\ \A c \in Calls : pc'[c] = pc[c]
    BY <1>q, <1>f, <1>7 DEF Reconnect
  <2> QED
    BY <2>1, NothingNew
<1>8. CASE Execute
  BY <1>8, ExecuteInOrder
<1>9. CASE UNCHANGED vars
  BY <1>9, NothingNew DEF vars
<1> QED
  BY <1>1, <1>2, <1>3, <1>4, <1>6, <1>7, <1>8, <1>9 DEF Next

\* A call that returns ok leaves its intent, and is the last by the robot's order.
LEMMA LastIntentStays ==
  ASSUME TypeOK, SentOnce, Order, LastIntent, [Next]_vars
  PROVE  LastIntent'
<1>q. /\ runnable \in Seq(Requests) /\ Resolved /\ result \in [Requests -> Results]
      /\ pc \in [Requests -> {"idle", "waiting", "resolved", "done"}]
      /\ executed \in Seq(Calls) /\ Once(executed, Calls)
  BY Queued, DistinctIs DEF SentOnce
<1>f. \A c \in Calls : c \in Requests /\ c # Replay /\ (pc[c] \in {"idle", "waiting"} <=> result[c] = "none")
  BY ReplayAssumption DEF SentOnce, Followed, Requests
<1>s. ASSUME executed' = executed, engage' = engage, intent' = intent, \A c \in Calls : Acked(c)' <=> Acked(c)
      PROVE  LastIntent'
  BY <1>s DEF LastIntent
<1>1. ASSUME NEW c \in Calls, Begin(c)
      PROVE  LastIntent'
  <2>1. \A d \in Calls : Acked(d)' <=> Acked(d)
    BY <1>q, <1>f, <1>1 DEF Begin, Acked, Ok
  <2> QED
    BY <1>1, <1>s, <2>1 DEF Begin
<1>2. ASSUME NEW c \in Requests, OnTimeout(c)
      PROVE  LastIntent'
  <2>1. \A d \in Calls : Acked(d)' <=> Acked(d)
    BY <1>q, <1>f, <1>2 DEF OnTimeout, Resolve, Acked, Ok
  <2> QED
    BY <1>2, <1>s, <2>1 DEF OnTimeout, wire
<1>3. CASE HandleAnswer
  <2>1. Head(answers).of \in Requests
    BY <1>3, NextAnswer DEF HandleAnswer
  <2>2. \A d \in Calls : Acked(d)' <=> Acked(d)
    BY <1>q, <1>f, <1>3, <2>1 DEF HandleAnswer, Resolve, Acked, Ok
  <2> QED
    BY <1>3, <1>s, <2>2 DEF HandleAnswer
<1>4. CASE Return
  <2> DEFINE c == Head(runnable)
  <2>1. c \in Calls /\ c = runnable[1] /\ 1 \in 1..Len(runnable) /\ executed' = executed /\ engage' = engage
        /\ result' = result /\ pc' = [pc EXCEPT ![c] = "done"]
        /\ intent' = IF result[c] = "ok" THEN engage[c] ELSE intent
    BY <1>4, <1>q, TailOf DEF Return, wire
  <2>2. pc[c] = "resolved"
    BY <1>q, <1>f, <2>1 DEF Resolved, In
  <2>3. \A d \in Calls : (d # c => (Acked(d)' <=> Acked(d))) /\ (Ok(d)' <=> Ok(d))
    BY <1>q, <1>f, <2>1 DEF Acked, Ok
  <2>4. \A d \in Calls : d = c => ~Acked(d) /\ (Acked(d)' <=> Ok(d))
    BY <1>q, <1>f, <2>1, <2>2 DEF Acked, Ok
  <2>5. CASE Ok(c)
    <3> SUFFICES ASSUME NEW e \in Calls, Acked(e)',
                        \A d \in Calls : Acked(d)' /\ d # e => Before(executed, d, e)
                 PROVE  intent' = engage[e]
      BY <2>1 DEF LastIntent
    <3>1. CASE e = c
      BY <2>1, <2>5, <3>1 DEF Ok
    <3>2. CASE e # c
      <4>1. Before(executed, e, c)
        BY <2>1, <2>3, <2>5, <3>2, OrderIs DEF ReturnOrder
      <4>2. Before(executed, c, e)
        BY <2>1, <2>4, <2>5, <3>2
      <4> QED
        BY <1>q, <4>1, <4>2, BeforeOneWay
    <3> QED
      BY <3>1, <3>2
  <2>6. CASE ~Ok(c)
    <3>1. intent' = intent
      BY <2>1, <2>6 DEF Ok
    <3>2. \A d \in Calls : Acked(d)' <=> Acked(d)
      BY <2>3, <2>4, <2>6
    <3> QED
      BY <1>s, <2>1, <3>1, <3>2
  <2> QED
    BY <2>5, <2>6
<1>5. CASE ReplayReturns
  <2>1. \A d \in Calls : Acked(d)' <=> Acked(d)
    BY <1>q, <1>f, <1>5 DEF ReplayReturns, Acked, Ok
  <2> QED
    BY <1>5, <1>s, <2>1 DEF ReplayReturns
<1>6. CASE Loss
  <2>1. \A d \in Calls : Acked(d)' <=> Acked(d)
    BY <1>q, <1>f, <1>6 DEF Loss, Waiting, Acked, Ok
  <2> QED
    BY <1>6, <1>s, <2>1 DEF Loss
<1>7. CASE Reconnect
  <2>1. \A d \in Calls : Acked(d)' <=> Acked(d)
    BY <1>q, <1>f, <1>7 DEF Reconnect, Acked, Ok
  <2> QED
    BY <1>7, <1>s, <2>1 DEF Reconnect
<1>8. CASE Execute
  <2> DEFINE c == Head(commands)
  <2>1. engage' = engage /\ intent' = intent /\ (\A d \in Calls : Acked(d)' <=> Acked(d)) /\ c \in Requests
    BY <1>8, NextCommand DEF Execute, Acked, Ok
  <2>2. CASE executed' = executed
    BY <1>s, <2>1, <2>2
  <2>3. CASE c \in Calls /\ executed' = Append(executed, c)
    <3>1. \A d \in Calls : Acked(d) => In(d, executed)
      BY DEF SentOnce, Followed, Acked, Ok
    <3>2. ~In(c, executed)
      <4>1. In(c, commands)
        BY <1>8, Queued, InTail DEF Execute
      <4> QED
        BY <2>3, <4>1 DEF SentOnce, Followed
    <3>3. ASSUME NEW d \in Calls, NEW e \in Calls, Acked(d), Acked(e), Before(executed', d, e)
          PROVE  Before(executed, d, e)
      <4>1. PICK m \in 1..Len(executed'), n \in 1..Len(executed') :
              m < n /\ executed'[m] = d /\ executed'[n] = e
        BY <3>3 DEF Before
      <4>2. /\ Len(executed) \in Nat /\ Len(executed') = Len(executed) + 1
            /\ executed'[Len(executed) + 1] = c
            /\ \A i \in 1..Len(executed) : executed'[i] = executed[i]
        BY <1>q, <2>3, AppendOf
      <4>3. e # c
        BY <3>1, <3>2, <3>3
      <4>4. m \in 1..Len(executed) /\ n \in 1..Len(executed)
        BY <4>1, <4>2, <4>3
      <4> QED
        BY <4>1, <4>2, <4>4 DEF Before
    <3>4. ASSUME NEW d \in Calls, NEW e \in Calls, Acked(d), Acked(e), Before(executed, d, e)
          PROVE  Before(executed', d, e)
      BY <1>q, <2>3, <3>4, BeforeGrows
    <3> QED
      BY <2>1, <3>3, <3>4 DEF LastIntent
  <2> QED
    BY <1>8, <2>1, <2>2, <2>3 DEF Execute, Requests
<1>9. CASE UNCHANGED vars
  BY <1>9, <1>s DEF vars, Acked, Ok
<1> QED
  BY <1>1, <1>2, <1>3, <1>4, <1>5, <1>6, <1>7, <1>8, <1>9 DEF Next

-----------------------------------------------------------------------------
(* The latch.                                                              *)

\* What the robot executed last is not sent again.
LEMMA LastExecuted ==
  ASSUME TypeOK, executed # <<>>
  PROVE  /\ Len(executed) \in 1..Len(executed) /\ executed[Len(executed)] \in Calls
         /\ In(executed[Len(executed)], executed)
<1>1. executed \in Seq(Calls)
  BY Queued
<1> QED
  BY <1>1 DEF In

LEMMA LatchStays ==
  ASSUME TypeOK, Down, SentOnce, LatchInv, [Next]_vars
  PROVE  LatchInv'
<1>q. /\ runnable \in Seq(Requests) /\ Resolved /\ result \in [Requests -> Results]
      /\ pc \in [Requests -> {"idle", "waiting", "resolved", "done"}]
      /\ sentOn \in [Requests -> 0..MaxConns] /\ answers \in Seq(Replies)
      /\ commands \in Seq(Requests) /\ executed \in Seq(Calls)
  BY Queued
<1>w. ASSUME NEW c \in Requests, pc[c] = "waiting"
      PROVE  \A i \in 1..Len(runnable) : runnable[i] \in Requests /\ runnable[i] # c
  <2>1. runnable \in Seq(Requests) /\ Resolved
    BY <1>q
  <2> QED
    BY <1>w, <2>1 DEF Resolved, In
<1>v. ASSUME NEW c \in Requests, runnable' = Append(runnable, c)
      PROVE  /\ Len(runnable) \in Nat /\ Len(runnable') = Len(runnable) + 1
             /\ runnable'[Len(runnable) + 1] = c
             /\ \A i \in 1..Len(runnable) : runnable'[i] = runnable[i]
  BY <1>q, <1>v, AppendOf
<1>1. ASSUME NEW c \in Calls, Begin(c)
      PROVE  LatchInv'
  <2>1. CASE ~up
    BY <1>1, <2>1 DEF Begin, LatchInv
  <2>2. CASE up
    <3>1. /\ up' = up /\ latch' = latch /\ executed' = executed /\ engage' = engage /\ conns' = conns
          /\ answers' = answers /\ runnable' = runnable /\ result' = result /\ state' = state /\ intent' = intent
          /\ sentOn' = [sentOn EXCEPT ![c] = conns]
      BY <1>1, <2>2 DEF Begin
    <3>2. Untouched => Untouched'
      BY <3>1 DEF Untouched
    <3>3. Released => Released'
      <4> SUFFICES ASSUME Released PROVE Released'
        OBVIOUS
      <4>1. executed[Len(executed)] # c
        BY <1>1, LastExecuted DEF Released, Begin, SentOnce, Followed
      <4> QED
        BY <1>q, <3>1, <4>1, LastExecuted DEF Released, Requests
    <3> QED
      BY <2>2, <3>1, <3>2, <3>3 DEF LatchInv
  <2> QED
    BY <2>1, <2>2
<1>r. ASSUME executed' = executed, engage' = engage, sentOn' = sentOn, conns' = conns
      PROVE  Released' <=> Released
  BY <1>r DEF Released
<1>2. ASSUME NEW c \in Requests, OnTimeout(c)
      PROVE  LatchInv'
  <2>1. Untouched => Untouched'
    <3>1. \A i \in 1..Len(runnable) : runnable[i] \in Requests /\ runnable[i] # c
      BY <1>w, <1>2 DEF OnTimeout
    <3>2. /\ Len(runnable) \in Nat /\ Len(runnable') = Len(runnable) + 1 /\ runnable'[Len(runnable) + 1] = c
          /\ \A i \in 1..Len(runnable) : runnable'[i] = runnable[i]
      BY <1>v, <1>2 DEF OnTimeout, Resolve
    <3>3. result'[c] = "timeout" /\ \A d \in Requests : d # c => result'[d] = result[d]
      BY <1>q, <1>2 DEF OnTimeout, Resolve
    <3>4. answers' = answers /\ state' = state /\ intent' = intent
      BY <1>2 DEF OnTimeout, wire
    <3> QED
      BY <3>1, <3>2, <3>3, <3>4 DEF Untouched
  <2> QED
    BY <1>2, <1>r, <2>1 DEF OnTimeout, wire, LatchInv
<1>3. CASE HandleAnswer
  <2> DEFINE a == Head(answers)
  <2>0. /\ a = answers[1] /\ 1 \in 1..Len(answers) /\ a.of \in Requests
        /\ Len(answers) \in Nat /\ Len(answers') = Len(answers) - 1
        /\ \A i \in 1..Len(answers') : i + 1 \in 1..Len(answers) /\ answers'[i] = answers[i + 1]
    BY <1>q, <1>3, NextAnswer, TailOf DEF HandleAnswer
  <2>1. Untouched => Untouched'
    <3> SUFFICES ASSUME Untouched PROVE Untouched'
      OBVIOUS
    <3>1. a.result # "ok" /\ \A i \in 1..Len(answers') : answers'[i].result # "ok"
      BY <2>0 DEF Untouched
    <3>2. state' = state /\ intent' = intent
      BY <1>3 DEF HandleAnswer
    <3>3. CASE pc[a.of] = "waiting"
      <4>1. \A i \in 1..Len(runnable) : runnable[i] \in Requests /\ runnable[i] # a.of
        BY <1>w, <2>0, <3>3
      <4>2. /\ Len(runnable) \in Nat /\ Len(runnable') = Len(runnable) + 1
            /\ runnable'[Len(runnable) + 1] = a.of
            /\ \A i \in 1..Len(runnable) : runnable'[i] = runnable[i]
        BY <1>v, <1>3, <2>0, <3>3 DEF HandleAnswer, Resolve
      <4>3. result'[a.of] = a.result /\ \A d \in Requests : d # a.of => result'[d] = result[d]
        BY <1>q, <1>3, <2>0, <3>3 DEF HandleAnswer, Resolve
      <4> QED
        BY <3>1, <3>2, <4>1, <4>2, <4>3 DEF Untouched
    <3>4. CASE pc[a.of] # "waiting"
      BY <1>3, <3>1, <3>2, <3>4 DEF HandleAnswer, Untouched
    <3> QED
      BY <3>3, <3>4
  <2> QED
    BY <1>3, <1>r, <2>1 DEF HandleAnswer, LatchInv
<1>t. ASSUME runnable # <<>>, runnable' = Tail(runnable), result' = result
      PROVE  Untouched => /\ result[Head(runnable)] # "ok"
                          /\ \A i \in 1..Len(runnable') : result'[runnable'[i]] # "ok"
  <2>1. /\ Head(runnable) = runnable[1] /\ 1 \in 1..Len(runnable)
        /\ \A i \in 1..Len(runnable') : i + 1 \in 1..Len(runnable) /\ runnable'[i] = runnable[i + 1]
    BY <1>q, <1>t, TailOf
  <2> QED
    BY <1>t, <2>1 DEF Untouched
<1>4. CASE Return
  <2>1. Untouched => Untouched'
    BY <1>4, <1>t DEF Return, wire, Untouched
  <2> QED
    BY <1>4, <1>r, <2>1 DEF Return, wire, LatchInv
<1>5. CASE ReplayReturns
  <2>1. CASE result[Replay] = "ok"
    <3>1. ~Untouched
      BY <1>5, <1>t, <2>1 DEF ReplayReturns
    <3>2. /\ executed' = executed /\ engage' = engage /\ sentOn' = sentOn /\ conns' = conns
          /\ up' = up /\ latch' = latch
      BY <1>5, <2>1 DEF ReplayReturns
    <3>3. Released' <=> Released
      BY <1>r, <3>2
    <3> QED
      BY <3>1, <3>2, <3>3 DEF LatchInv
  <2>2. CASE result[Replay] # "ok"
    BY <1>5, <2>2 DEF ReplayReturns, Disconnected, LatchInv
  <2> QED
    BY <2>1, <2>2
<1>6. CASE Loss
  BY <1>6 DEF Loss, Disconnected, LatchInv
<1>7. CASE Reconnect
  <2>1. Untouched'
    BY <1>7 DEF Reconnect, Down, Untouched
  <2> QED
    BY <2>1 DEF LatchInv
<1>8. CASE Execute
  <2> DEFINE c == Head(commands)
  <2>0. c \in Requests /\ In(c, commands)
    BY <1>8, <1>q, NextCommand, InTail DEF Execute
  <2>1. CASE engage[c] /\ latch' = engage[c]
    BY <2>1 DEF LatchInv
  <2>2. CASE /\ ~engage[c]
             /\ executed' = IF c = Replay THEN executed ELSE Append(executed, c)
    <3>1. c \in Calls /\ executed' = Append(executed, c)
      BY <2>0, <2>2 DEF Down, Requests
    <3>2. sentOn[c] = conns
      BY <2>0, <3>1 DEF SentOnce, Followed
    <3>3. executed' # <<>> /\ executed'[Len(executed')] = c
      <4>1. Len(executed) \in Nat /\ Len(executed') = Len(executed) + 1 /\ executed'[Len(executed) + 1] = c
        BY <1>q, <3>1, AppendOf
      <4> QED
        BY <4>1
    <3>4. sentOn' = sentOn /\ conns' = conns /\ engage' = engage
      BY <1>8 DEF Execute
    <3> QED
      BY <2>2, <3>2, <3>3, <3>4 DEF LatchInv, Released
  <2>3. CASE /\ answers' = Append(answers, [of |-> c, result |-> "refused"])
             /\ latch' = latch /\ executed' = executed
    <3>1. [of |-> c, result |-> "refused"] \in Replies
      BY <2>0 DEF Replies
    <3>2. /\ Len(answers) \in Nat /\ Len(answers') = Len(answers) + 1
          /\ answers'[Len(answers) + 1].result = "refused"
          /\ \A i \in 1..Len(answers) : answers'[i] = answers[i]
      BY <1>q, <2>3, <3>1, AppendOf
    <3>3. Untouched => Untouched'
      <4>1. runnable' = runnable /\ result' = result /\ state' = state /\ intent' = intent
        BY <1>8 DEF Execute
      <4>2. \A i \in 1..Len(answers') : i \in 1..Len(answers) \/ i = Len(answers) + 1
        BY <3>2
      <4>3. Untouched => \A i \in 1..Len(answers') : answers'[i].result # "ok"
        BY <3>2, <4>2 DEF Untouched
      <4> QED
        BY <4>1, <4>3 DEF Untouched
    <3> QED
      BY <1>8, <1>r, <2>3, <3>3 DEF Execute, LatchInv
  <2> QED
    BY <1>8, <2>1, <2>2, <2>3 DEF Execute
<1>9. CASE UNCHANGED vars
  BY <1>9, <1>r DEF vars, LatchInv, Untouched
<1> QED
  BY <1>1, <1>2, <1>3, <1>4, <1>5, <1>6, <1>7, <1>8, <1>9 DEF Next

-----------------------------------------------------------------------------

LEMMA InvInit == Init => IInv
<1> SUFFICES ASSUME Init
             PROVE  IInv
  OBVIOUS
<1>1. TypeOK /\ RunsOnce
  BY InitTyped
<1>2. Down /\ Distinct
  BY DEF Init, Down, Distinct
<1>3. \A c \in Calls : Followed(c)
  BY NothingIn DEF Init, Followed, Answer, Requests
<1>4. Order /\ LatchInv
  BY DEF Init, Order, LatchInv, Untouched
<1>5. LastIntent
  BY DEF Init, LastIntent, Acked, Requests
<1> QED
  BY <1>1, <1>2, <1>3, <1>4, <1>5 DEF IInv, SentOnce

LEMMA Invariant == Spec => []IInv
<1>1. IInv /\ [Next]_vars => IInv'
  <2> SUFFICES ASSUME IInv, [Next]_vars
               PROVE  IInv'
    OBVIOUS
  <2>1. TypeOK' /\ RunsOnce' /\ Down'
    BY TypesStay, DownStays DEF IInv
  <2>2. SentOnce'
    BY <2>1, FollowedStays, DistinctStays DEF IInv, SentOnce
  <2> QED
    BY <2>1, <2>2, OrderStays, LastIntentStays, LatchStays DEF IInv
<1> QED
  BY <1>1, InvInit, PTL DEF Spec

LEMMA IntentFromOrder == IInv => IntentIsLast
<1> SUFFICES ASSUME IInv, NEW i \in Acknowledged, \A j \in Acknowledged : j <= i
             PROVE  intent = engage[executed[i]]
  BY DEF IntentIsLast
<1>1. /\ executed \in Seq(Calls) /\ i \in 1..Len(executed) /\ executed[i] \in Calls
      /\ pc[executed[i]] = "done" /\ result[executed[i]] = "ok"
  BY Queued DEF Acknowledged, IInv
<1>2. ASSUME NEW d \in Calls, Acked(d), d # executed[i]
      PROVE  Before(executed, d, executed[i])
  <2>1. In(d, executed)
    BY <1>2 DEF IInv, SentOnce, Followed, Acked, Ok
  <2>2. PICK j \in 1..Len(executed) : executed[j] = d
    BY <2>1 DEF In
  <2>3. j \in Acknowledged
    BY <1>2, <2>2 DEF Acknowledged, Acked, Ok
  <2>4. j < i
    BY <1>1, <1>2, <2>2, <2>3
  <2> QED
    BY <1>1, <2>2, <2>4 DEF Before
<1>3. Acked(executed[i])
  BY <1>1 DEF Acked, Ok
<1> QED
  BY <1>1, <1>2, <1>3 DEF IInv, LastIntent

\* Overlapping calls of emergency_stop leave the intent of the one the robot
\* executed last, of those that returned ok, for any number of calls.
THEOREM IntentOfTheLast == Spec => []IntentIsLast
BY Invariant, IntentFromOrder, PTL

\* After READY the robot is stopped while an e-stop is acknowledged: across
\* losses, restarts of the robot and repeated replays.
THEOREM StoppedWhenReady == Spec => []StoppedInReady
<1>1. IInv => StoppedInReady
  <2> SUFFICES ASSUME IInv, state = "READY", up, intent, \A c \in Calls : ~InDoubt(c), ~latch
               PROVE  FALSE
    BY DEF StoppedInReady
  <2>1. Released
    BY DEF IInv, LatchInv, Untouched
  <2> DEFINE e == executed[Len(executed)]
  <2>2. e \in Calls /\ In(e, executed) /\ ~engage[e] /\ sentOn[e] = conns /\ Len(executed) \in 1..Len(executed)
    BY <2>1, LastExecuted DEF Released, IInv
  <2>3. pc[e] \notin {"waiting", "resolved"} /\ result[e] \notin {"timeout", "lost"}
    BY <2>2 DEF InDoubt
  <2>4. pc[e] \in {"idle", "waiting", "resolved", "done"} /\ result[e] \in Results /\ executed \in Seq(Calls)
    BY <2>2, Queued DEF IInv, Requests
  <2>5. pc[e] = "done" /\ result[e] = "ok"
    BY <2>2, <2>3, <2>4 DEF IInv, SentOnce, Followed, Results
  <2>6. Len(executed) \in Acknowledged /\ \A j \in Acknowledged : j <= Len(executed)
    BY <2>2, <2>4, <2>5 DEF Acknowledged
  <2>7. intent = engage[e]
    BY <2>6, IntentFromOrder DEF IntentIsLast
  <2> QED
    BY <2>2, <2>7
<1> QED
  BY <1>1, Invariant, PTL
=============================================================================

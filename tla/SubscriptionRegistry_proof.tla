---------------------- MODULE SubscriptionRegistry_proof ----------------------
(***************************************************************************)
(* Proofs about SubscriptionRegistry and RegistryHistory, for any number   *)
(* of handles, calls and losses and for any application.                   *)
(*                                                                         *)
(* RegisteredIsOpen needs nothing of the application.  It is inductive     *)
(* together with the shape of the state and the fact that only a call that *)
(* began has a slot (Fresh).                                               *)
(*                                                                         *)
(* OpenIsRegistered and OnlyOwnerCloses, for any application too: while a  *)
(* call is under way the topic has the call's slot, or none, or one that   *)
(* the history has recorded, since it was registered meanwhile; and a call *)
(* is about its own handle's slot or an exposed one (OwnTarget).           *)
(*                                                                         *)
(* RobotAgrees is about the last word on the wire of a connection that was *)
(* not crossed (WireInv): the robot is asked and answers about a slot once *)
(* (Once), finds itself free at every subscribe (Alternate), and what it   *)
(* was told or answered last is about the slot that is in _subs (Known) or *)
(* leaves it serving nobody (Gone).  Every loss starts such a connection.  *)
(***************************************************************************)
EXTENDS RegistryHistory, TLAPS

SlotStates == {"none", "PENDING", "ACTIVE", "PAUSED", "CLOSED"}
Ids == 0..MaxCalls
Calls == [pc : {"none", "scheduled", "waiting", "resolved", "done"},
          target : Handles \cup {None}, result : Errors, n : Ids]

CommandRecs == [kind : {"subscribe", "unsubscribe"}, of : Handles, n : Ids]
AnswerRecs == [kind : {"accepted", "refused", "unsubscribed", "kept"}, of : Handles, n : Ids]

\* TypeOK in two parts: what the SDK keeps, and what is under way.
Shape ==
    /\ state \in {"READY", "RECONNECTING", "TRANSIENT_FAILURE"}
    /\ subs \in Handles \cup {None}
    /\ slot \in [Handles -> SlotStates]
    /\ error \in [Handles -> Errors]
    /\ handle \in [Handles -> {"none", "held", "unsubscribed", "dropped"}]
    /\ call \in [Handles -> Calls]

WireShape ==
    /\ commands \in Seq(CommandRecs)
    /\ answers \in Seq(AnswerRecs)
    /\ served \in Handles \cup {None}
    /\ calls \in Ids
    /\ losses \in 0..MaxLosses

\* The two parts together are the types of the registry.
LEMMA ShapeIsType == TypeOK <=> Shape /\ WireShape
  BY DEF TypeOK, Shape, WireShape, SlotStates, Calls, Ids, CommandRecs, AnswerRecs

\* The bounds count from zero.
LEMMA IdSteps == 0 \in Ids /\ (calls \in Ids /\ calls < MaxCalls => calls + 1 \in Ids)
  BY CallsAssumption DEF Ids

\* The requests, and the answers to them, have the types of the wire.
LEMMA RequestTypes ==
    /\ \A h \in Handles : Asking(h) \in CommandRecs
    /\ \A h \in Handles : \A n \in Ids : Leaving(h, n) \in CommandRecs
    /\ \A c \in CommandRecs : c.of \in Handles
  BY IdSteps DEF CommandRecs, Asking, Leaving

LEMMA AnswerTypes ==
    /\ \A c \in CommandRecs : \A k \in {"accepted", "refused", "unsubscribed", "kept"} :
          /\ [c EXCEPT !.kind = k] \in AnswerRecs
          /\ [c EXCEPT !.kind = k].kind = k /\ [c EXCEPT !.kind = k].of = c.of
    /\ \A a \in AnswerRecs : a.of \in Handles
  BY DEF CommandRecs, AnswerRecs

\* Requests and answers under way keep their types when one is added or taken.
LEMMA WireSteps ==
    /\ \A q \in Seq(CommandRecs) : \A c \in CommandRecs : Append(q, c) \in Seq(CommandRecs)
    /\ \A q \in Seq(CommandRecs) :
          q # <<>> => Head(q) \in CommandRecs /\ Tail(q) \in Seq(CommandRecs)
    /\ \A q \in Seq(AnswerRecs) : \A a \in AnswerRecs : Append(q, a) \in Seq(AnswerRecs)
    /\ \A q \in Seq(AnswerRecs) :
          q # <<>> => Head(q) \in AnswerRecs /\ Tail(q) \in Seq(AnswerRecs)
    /\ <<>> \in Seq(CommandRecs) /\ <<>> \in Seq(AnswerRecs)
<1>1. ASSUME NEW S, NEW q \in Seq(S), NEW e \in S PROVE Append(q, e) \in Seq(S)
  OBVIOUS
<1>2. ASSUME NEW S, NEW q \in Seq(S), q # <<>> PROVE Head(q) \in S /\ Tail(q) \in Seq(S)
  BY <1>2
<1>3. <<>> \in Seq(CommandRecs) /\ <<>> \in Seq(AnswerRecs)
  OBVIOUS
<1> QED
  BY <1>1, <1>2, <1>3

\* Closing a slot keeps the types.
LEMMA CloseShape ==
    ASSUME Shape, NEW s \in Handles \cup {None}, NEW code \in Errors, Close(s, code)
    PROVE  /\ subs' \in Handles \cup {None}
           /\ slot' \in [Handles -> SlotStates]
           /\ error' \in [Handles -> Errors]
  BY NoneAssumption DEF Shape, Close, SlotStates

\* Resolving the wait of one call keeps the types of the calls.
LEMMA ResolveShape ==
    ASSUME Shape, NEW h \in Handles, NEW code \in Errors
    PROVE  Resolve(h, code) \in [Handles -> Calls]
<1>1. call \in [Handles -> Calls] /\ call[h] \in Calls
  BY DEF Shape
<1>2. [call[h] EXCEPT !.pc = "resolved", !.result = code] \in Calls
  BY <1>1 DEF Calls
<1>3. Resolve(h, code) = [call EXCEPT ![h] = [call[h] EXCEPT !.pc = "resolved", !.result = code]]
  BY <1>1 DEF Resolve
<1> QED
  BY <1>1, <1>2, <1>3

\* The types of the registry are an invariant, for any application.
THEOREM TypeCorrect == Spec => []TypeOK
<1>1. Init => Shape /\ WireShape
  BY IdSteps, LossesAssumption DEF Init, Shape, WireShape, SlotStates, Calls, NoCall, Errors
<1>2. Shape /\ WireShape /\ [Next]_vars => Shape'
  <2> SUFFICES ASSUME Shape, WireShape, [Next]_vars PROVE Shape'
    OBVIOUS
  <2> USE NoneAssumption
  <2>0. /\ \A code \in {"OK", "kept", "DISCONNECTED", "TIMEOUT", "TRANSPORT_FAILURE", "rejected",
                        "TOPIC_ALREADY_SUBSCRIBED"} : code \in Errors
        /\ Returned \in Calls /\ [NoCall EXCEPT !.pc = "scheduled"] \in Calls
    BY IdSteps DEF Errors, Refusals, Calls, Returned, NoCall
  <2>1. ASSUME NEW h \in Handles, Subscribe(h) PROVE Shape'
    BY <2>0, <2>1 DEF Subscribe, Shape, SlotStates
  <2>2. ASSUME NEW h \in Handles, Unsubscribe(h) PROVE Shape'
    <3>0. [pc |-> "waiting", target |-> subs, result |-> "OK", n |-> calls + 1] \in Calls
      <4>1. calls + 1 \in Ids
        BY <2>2, IdSteps DEF Unsubscribe, WireShape
      <4>2. QED
        BY <2>0, <4>1 DEF Calls, Shape
    <3>1. call' \in [Handles -> Calls]
      BY <2>0, <2>2, <3>0 DEF Unsubscribe, Shape
    <3>2. CASE UNCHANGED <<subs, slot, error>>
      BY <3>1, <3>2, <2>2 DEF Unsubscribe, Shape
    <3>3. CASE Close(subs, "DISCONNECTED")
      BY <3>1, <3>3, <2>0, <2>2, CloseShape DEF Unsubscribe, Shape
    <3>4. QED
      BY <3>2, <3>3, <2>2 DEF Unsubscribe
  <2>3. ASSUME NEW h \in Handles, Drop(h) PROVE Shape'
    BY <2>0, <2>3 DEF Drop, Shape
  <2>4. ASSUME NEW h \in Handles, RunScheduled(h) PROVE Shape'
    <3>1. call' \in [Handles -> Calls]
      BY <2>0, <2>4 DEF RunScheduled, Shape
    <3>2. CASE UNCHANGED <<subs, slot, error>>
      BY <3>1, <3>2, <2>4 DEF RunScheduled, Shape
    <3>3. CASE Close(subs, IF state = "READY" THEN "OK" ELSE "DISCONNECTED")
      BY <3>1, <3>3, <2>0, <2>4, CloseShape DEF RunScheduled, Shape
    <3>4. QED
      BY <3>2, <3>3, <2>4 DEF RunScheduled
  <2>5. ASSUME NEW h \in Handles, OnTimeout(h) PROVE Shape'
    BY <2>0, <2>5, ResolveShape DEF OnTimeout, Shape
  <2>6. ASSUME NEW h \in Handles, Finish(h) PROVE Shape'
    <3>1. call[h].target \in Handles \cup {None} /\ call[h].result \in Errors
      BY DEF Shape, Calls
    <3>2. call' \in [Handles -> Calls]
      BY <2>0, <2>6 DEF Finish, Shape
    <3>3. QED
      BY <3>1, <3>2, <2>6, CloseShape DEF Finish, Shape
  <2>7. CASE HandleSubscribeAck
    <3>1. PICK a : HandleSubscribeAck /\ a = Head(answers)
      BY <2>7
    <3>2. CASE subs # a.of
      BY <3>1, <3>2 DEF HandleSubscribeAck, Shape
    <3>3. CASE subs = a.of /\ a.kind = "accepted"
      BY <3>1, <3>3 DEF HandleSubscribeAck, Shape, SlotStates
    <3>4. CASE subs = a.of /\ Close(subs, "rejected")
      BY <3>1, <3>4, <2>0, CloseShape DEF HandleSubscribeAck, Shape
    <3>5. QED
      BY <3>1, <3>2, <3>3, <3>4 DEF HandleSubscribeAck
  <2>8. CASE HandleUnsubscribed
    <3>1. Head(answers).of \in Handles
      BY <2>8, WireSteps, AnswerTypes DEF HandleUnsubscribed, WireShape
    <3>2. QED
      BY <2>0, <2>8, <3>1, ResolveShape DEF HandleUnsubscribed, Shape
  <2>9. CASE Serve
    BY <2>9 DEF Serve, Shape
  <2>10. CASE Loss
    BY <2>0, <2>10 DEF Loss, Shape, SlotStates, Calls
  <2>11. CASE Reconnect
    BY <2>11 DEF Reconnect, Shape, SlotStates
  <2>12. CASE UNCHANGED vars
    BY <2>12 DEF vars, Shape
  <2>13. QED
    BY <2>1, <2>2, <2>3, <2>4, <2>5, <2>6, <2>7, <2>8, <2>9, <2>10, <2>11, <2>12 DEF Next
<1>3. Shape /\ WireShape /\ [Next]_vars => WireShape'
  <2> SUFFICES ASSUME Shape, WireShape, [Next]_vars PROVE WireShape'
    OBVIOUS
  <2>1. ASSUME NEW h \in Handles, Subscribe(h) PROVE WireShape'
    <3>1. commands' \in {commands, Append(commands, Asking(h))}
      BY <2>1 DEF Subscribe
    <3>2. commands' \in Seq(CommandRecs)
      BY <3>1, WireSteps, RequestTypes DEF WireShape
    <3>3. QED
      BY <2>1, <3>2 DEF Subscribe, WireShape
  <2>2. ASSUME NEW h \in Handles, Unsubscribe(h) PROVE WireShape'
    <3>1. calls' = calls + 1 /\ calls + 1 \in Ids
      BY <2>2, IdSteps DEF Unsubscribe, WireShape
    <3>2. commands' \in {commands, Append(commands, Leaving(h, calls + 1))}
      BY <2>2 DEF Unsubscribe
    <3>3. commands' \in Seq(CommandRecs)
      BY <3>1, <3>2, WireSteps, RequestTypes DEF WireShape
    <3>4. UNCHANGED <<answers, served, losses>>
      BY <2>2 DEF Unsubscribe
    <3>5. QED
      BY <3>1, <3>3, <3>4 DEF WireShape
  <2>3. ASSUME NEW h \in Handles, Drop(h) \/ OnTimeout(h) \/ Finish(h) PROVE WireShape'
    BY <2>3 DEF Drop, OnTimeout, Finish, WireShape, wire
  <2>4. ASSUME NEW h \in Handles, RunScheduled(h) PROVE WireShape'
    <3>1. commands' \in {commands, Append(commands, Leaving(h, 0))}
      BY <2>4 DEF RunScheduled
    <3>2. commands' \in Seq(CommandRecs)
      BY <3>1, WireSteps, RequestTypes, IdSteps DEF WireShape
    <3>3. QED
      BY <2>4, <3>2 DEF RunScheduled, WireShape
  <2>5. CASE HandleSubscribeAck \/ HandleUnsubscribed
    BY <2>5, WireSteps DEF HandleSubscribeAck, HandleUnsubscribed, WireShape
  <2>6. CASE Serve
    <3>1. Head(commands) \in CommandRecs /\ commands' \in Seq(CommandRecs)
      BY <2>6, WireSteps DEF Serve, WireShape
    <3>2. PICK k \in {"accepted", "refused", "unsubscribed", "kept"} : Answer(Head(commands), k)
      BY <2>6 DEF Serve
    <3>3. answers' \in Seq(AnswerRecs)
      BY <3>1, <3>2, WireSteps, AnswerTypes DEF Answer, WireShape
    <3>4. served' \in Handles \cup {None}
      BY <2>6, <3>1, RequestTypes DEF Serve, WireShape
    <3>5. QED
      BY <2>6, <3>1, <3>3, <3>4 DEF Serve, WireShape
  <2>7. CASE Loss
    <3>1. losses < MaxLosses /\ losses' = losses + 1
      BY <2>7 DEF Loss
    <3>2. losses' \in 0..MaxLosses
      BY <3>1, LossesAssumption DEF WireShape
    <3>3. QED
      BY <3>2, <2>7, WireSteps DEF Loss, WireShape
  <2>8. CASE Reconnect
    <3>1. CASE subs = None
      BY <2>8, <3>1 DEF Reconnect, WireShape
    <3>2. CASE subs # None
      <4>1. subs \in Handles
        BY <3>2 DEF Shape
      <4>2. commands' = Append(commands, Asking(subs))
        BY <2>8, <3>2 DEF Reconnect
      <4>3. QED
        BY <4>1, <4>2, <2>8, WireSteps, RequestTypes DEF Reconnect, WireShape
    <3>3. QED
      BY <3>1, <3>2
  <2>9. CASE UNCHANGED vars
    BY <2>9 DEF vars, WireShape
  <2>10. QED
    BY <2>1, <2>2, <2>3, <2>4, <2>5, <2>6, <2>7, <2>8, <2>9 DEF Next
<1>4. QED
  BY <1>1, <1>2, <1>3, ShapeIsType, PTL DEF Spec

-----------------------------------------------------------------------------

\* Only a call of subscribe_* that began has a slot, and every one has.
Fresh == \A h \in Handles : handle[h] = "none" <=> slot[h] = "none"

\* A call waits for a slot that exists.
TargetExists == \A h \in Handles : call[h].target # None => slot[call[h].target] # "none"

RegisteredInv == Shape /\ Fresh /\ TargetExists /\ RegisteredIsOpen

\* Closing a slot that exists keeps the slots' part of the invariant.
LEMMA CloseRegistered ==
    ASSUME RegisteredInv, NEW s \in Handles \cup {None}, s # None => slot[s] # "none",
           NEW code, Close(s, code)
    PROVE  /\ RegisteredIsOpen'
           /\ \A h \in Handles : slot'[h] = "none" <=> slot[h] = "none"
  BY NoneAssumption DEF RegisteredInv, Shape, RegisteredIsOpen, Close

\* The registry's invariant holds for any application.
LEMMA RegistryInvariant == Spec => []RegisteredInv
<1>1. Init => Fresh /\ TargetExists /\ RegisteredIsOpen
  BY DEF Init, Fresh, TargetExists, RegisteredIsOpen, NoCall
<1>2. RegisteredInv /\ Shape' /\ [Next]_vars => (Fresh /\ TargetExists /\ RegisteredIsOpen)'
  <2> SUFFICES ASSUME RegisteredInv, Shape', [Next]_vars
               PROVE  (Fresh /\ TargetExists /\ RegisteredIsOpen)'
    OBVIOUS
  <2> USE NoneAssumption DEF RegisteredInv
  <2>0. ASSUME handle' = handle, call' = call \/ \A h \in Handles : call'[h].target = call[h].target,
               \A h \in Handles : slot'[h] = "none" <=> slot[h] = "none"
        PROVE  Fresh' /\ TargetExists'
    BY <2>0 DEF Fresh, TargetExists, Shape, Calls
  <2>1. ASSUME NEW h \in Handles, Subscribe(h) PROVE (Fresh /\ TargetExists /\ RegisteredIsOpen)'
    <3>1. slot[h] = "none" /\ subs # h
      BY <2>1 DEF Subscribe, Fresh, RegisteredIsOpen
    <3>2. \A g \in Handles : (g # h => slot'[g] = slot[g]) /\ slot'[h] # "none"
      BY <2>1 DEF Subscribe, Shape
    <3>3. RegisteredIsOpen'
      BY <2>1, <3>1 DEF Subscribe, Shape, RegisteredIsOpen
    <3>4. QED
      BY <2>1, <3>1, <3>2, <3>3 DEF Subscribe, Shape, Fresh, TargetExists, Calls
  <2>2. ASSUME NEW h \in Handles, Unsubscribe(h) PROVE (Fresh /\ TargetExists /\ RegisteredIsOpen)'
    <3>1. subs # None => slot[subs] # "none"
      BY DEF RegisteredIsOpen
    <3>2. /\ RegisteredIsOpen'
          /\ \A g \in Handles : slot'[g] = "none" <=> slot[g] = "none"
      <4>1. CASE UNCHANGED <<subs, slot, error>>
        BY <4>1 DEF RegisteredIsOpen
      <4>2. CASE Close(subs, "DISCONNECTED")
        BY <4>2, <3>1, CloseRegistered DEF Shape
      <4>3. QED
        BY <4>1, <4>2, <2>2 DEF Unsubscribe
    <3>3. \A g \in Handles : handle'[g] = "none" <=> handle[g] = "none"
      BY <2>2 DEF Unsubscribe, Shape
    <3>4. \A g \in Handles : call'[g].target \in {None, subs, call[g].target}
      BY <2>2 DEF Unsubscribe, Shape, Returned, NoCall, Calls
    <3>5. Fresh'
      BY <3>2, <3>3 DEF Fresh
    <3>6. TargetExists'
      BY <3>1, <3>2, <3>4 DEF TargetExists, Shape, Calls
    <3>7. QED
      BY <3>2, <3>5, <3>6
  <2>3. ASSUME NEW h \in Handles, Drop(h) PROVE (Fresh /\ TargetExists /\ RegisteredIsOpen)'
    BY <2>3 DEF Drop, Shape, Fresh, TargetExists, RegisteredIsOpen, NoCall, Calls
  <2>4. ASSUME NEW h \in Handles, RunScheduled(h) PROVE (Fresh /\ TargetExists /\ RegisteredIsOpen)'
    <3>1. subs # None => slot[subs] # "none"
      BY DEF RegisteredIsOpen
    <3>2. /\ RegisteredIsOpen'
          /\ \A g \in Handles : slot'[g] = "none" <=> slot[g] = "none"
      <4>1. CASE UNCHANGED <<subs, slot, error>>
        BY <4>1 DEF RegisteredIsOpen
      <4>2. CASE Close(subs, IF state = "READY" THEN "OK" ELSE "DISCONNECTED")
        BY <4>2, <3>1, CloseRegistered DEF Shape
      <4>3. QED
        BY <4>1, <4>2, <2>4 DEF RunScheduled
    <3>3. \A g \in Handles : call'[g].target \in {None, call[g].target}
      BY <2>4 DEF RunScheduled, Shape, Returned, NoCall, Calls
    <3>4. Fresh'
      BY <2>4, <3>2 DEF Fresh, RunScheduled
    <3>5. TargetExists'
      BY <3>1, <3>2, <3>3 DEF TargetExists, Shape, Calls
    <3>6. QED
      BY <3>2, <3>4, <3>5
  <2>5. ASSUME NEW h \in Handles, OnTimeout(h) PROVE (Fresh /\ TargetExists /\ RegisteredIsOpen)'
    BY <2>5, <2>0 DEF OnTimeout, Resolve, Shape, Calls, RegisteredIsOpen
  <2>6. ASSUME NEW h \in Handles, Finish(h) PROVE (Fresh /\ TargetExists /\ RegisteredIsOpen)'
    <3>1. call[h].target \in Handles \cup {None}
      BY DEF Shape, Calls
    <3>2. call[h].target # None => slot[call[h].target] # "none"
      BY DEF TargetExists
    <3>3. /\ RegisteredIsOpen'
          /\ \A g \in Handles : slot'[g] = "none" <=> slot[g] = "none"
      BY <2>6, <3>1, <3>2, CloseRegistered DEF Finish
    <3>4. \A g \in Handles : call'[g].target \in {None, call[g].target}
      BY <2>6 DEF Finish, Shape, Returned, NoCall, Calls
    <3>5. Fresh'
      BY <2>6, <3>3 DEF Finish, Fresh
    <3>6. TargetExists'
      BY <3>3, <3>4 DEF TargetExists, Shape, Calls
    <3>7. QED
      BY <3>3, <3>5, <3>6
  <2>7. CASE HandleSubscribeAck
    <3>1. subs # None => slot[subs] # "none"
      BY DEF RegisteredIsOpen
    <3>2. /\ RegisteredIsOpen'
          /\ \A g \in Handles : slot'[g] = "none" <=> slot[g] = "none"
      <4>1. CASE UNCHANGED <<subs, slot, error>>
        BY <4>1 DEF RegisteredIsOpen
      <4>2. CASE slot' = [slot EXCEPT ![subs] = "ACTIVE"] /\ subs' = subs
        BY <4>2, <3>1 DEF RegisteredIsOpen, Shape
      <4>3. CASE Close(subs, "rejected")
        BY <4>3, <3>1, CloseRegistered DEF Shape
      <4>4. QED
        BY <4>1, <4>2, <4>3, <2>7 DEF HandleSubscribeAck
    <3>3. QED
      BY <2>7, <2>0, <3>2 DEF HandleSubscribeAck
  <2>8. CASE HandleUnsubscribed
    <3>1. \A g \in Handles : call'[g].target = call[g].target
      BY <2>8 DEF HandleUnsubscribed, Resolve, Shape, Calls
    <3>2. QED
      BY <2>8, <2>0, <3>1 DEF HandleUnsubscribed, RegisteredIsOpen
  <2>9. CASE Serve
    BY <2>9, <2>0 DEF Serve, RegisteredIsOpen
  <2>10. CASE Loss
    <3>1. slot' = [h \in Handles |-> IF h = subs THEN "PAUSED" ELSE slot[h]]
      BY <2>10 DEF Loss
    <3>2. \A g \in Handles : call'[g].target = call[g].target
      BY <2>10 DEF Loss, Shape, Calls
    <3>3. /\ RegisteredIsOpen'
          /\ \A g \in Handles : slot'[g] = "none" <=> slot[g] = "none"
      BY <3>1, <2>10 DEF Loss, RegisteredIsOpen, Shape
    <3>4. QED
      BY <2>10, <2>0, <3>2, <3>3 DEF Loss
  <2>11. CASE Reconnect
    <3>1. /\ RegisteredIsOpen'
          /\ \A g \in Handles : slot'[g] = "none" <=> slot[g] = "none"
      BY <2>11 DEF Reconnect, RegisteredIsOpen, Shape
    <3>2. QED
      BY <2>11, <2>0, <3>1 DEF Reconnect
  <2>12. CASE UNCHANGED vars
    BY <2>12, <2>0 DEF vars, RegisteredIsOpen
  <2>13. QED
    BY <2>1, <2>2, <2>3, <2>4, <2>5, <2>6, <2>7, <2>8, <2>9, <2>10, <2>11, <2>12 DEF Next
<1>3. TypeOK => Shape
  BY ShapeIsType
<1>4. QED
  BY <1>1, <1>2, <1>3, TypeCorrect, PTL DEF Spec, RegisteredInv

\* The registry never keeps a closed slot under a topic, for any number of
\* handles, calls and losses and for any application.
THEOREM RegisteredStaysOpen == Spec => []RegisteredIsOpen
<1>1. RegisteredInv => RegisteredIsOpen
  BY DEF RegisteredInv
<1>2. QED
  BY <1>1, RegistryInvariant, PTL

-----------------------------------------------------------------------------
(* What handles, slots and calls have to do with each other.               *)

\* The history only watches: every step is a step of the registry.
LEMMA HistoryWatches == HSpec => Spec
<1>1. HInit => Init
  BY DEF HInit
<1>2. [HNext]_hvars => [Next]_vars
  BY DEF HNext, HSubscribe, HUnsubscribe, HDrop, HServe, HLoss, Next, hvars, vars
<1>3. QED
  BY <1>1, <1>2, PTL DEF HSpec, Spec

\* A call under way is about the slot of its own handle, which the application
\* gave up, or about an exposed slot.  Until it is over the topic has that slot
\* or none, or one that was registered meanwhile.
OwnTarget ==
    \A g \in Handles :
        /\ call[g].pc \in {"waiting", "resolved"} =>
              /\ handle[g] = "unsubscribed"
              /\ call[g].target \in {g} \cup exposed
              /\ call[g].target # None
              /\ subs \in {None, call[g].target} \cup raced
        /\ call[g].pc = "scheduled" =>
              /\ handle[g] = "dropped"
              /\ subs \in {None, g} \cup exposed

HandlesInv == OpenIsRegistered /\ OnlyOwnerCloses /\ OwnTarget

\* Closing a slot keeps both promises when the topic has that slot, none or a
\* raced one, and the slot is given up, refused or exposed.
LEMMA CloseOwn ==
    ASSUME Shape, OpenIsRegistered, OnlyOwnerCloses, NEW s \in Handles, NEW code,
           Close(s, code), subs \in {None, s} \cup raced,
           handle'[s] # "held" \/ code \in Refusals \/ s \in exposed',
           raced' = raced, \A h \in Handles : h \in exposed => h \in exposed',
           \A h \in Handles : handle'[h] = "held" => handle[h] = "held"
    PROVE  OpenIsRegistered' /\ OnlyOwnerCloses'
<1>1. \A h \in Handles \ {s} : slot'[h] = slot[h] /\ error'[h] = error[h]
  BY DEF Close, Shape
<1>2. slot'[s] = "CLOSED" /\ error'[s] = code /\ subs' = None
  BY DEF Close, Shape
<1>3. OpenIsRegistered'
  BY <1>1, <1>2, NoneAssumption DEF OpenIsRegistered
<1>4. OnlyOwnerCloses'
  BY <1>1, <1>2 DEF OnlyOwnerCloses
<1>5. QED
  BY <1>3, <1>4

\* Slots and history as they were: the promises are kept.
LEMMA PromisesSame ==
    ASSUME OpenIsRegistered, OnlyOwnerCloses, UNCHANGED <<subs, slot, error, raced>>,
           \A h \in Handles : h \in exposed => h \in exposed',
           \A h \in Handles : handle'[h] = "held" => handle[h] = "held"
    PROVE  OpenIsRegistered' /\ OnlyOwnerCloses'
  BY DEF OpenIsRegistered, OnlyOwnerCloses

\* The application's steps.
LEMMA SubscribeKeepsHandles ==
    ASSUME RegisteredInv, HandlesInv, NEW h \in Handles, HSubscribe(h)
    PROVE  HandlesInv'
<1> USE NoneAssumption DEF RegisteredInv, HandlesInv
<1>1. /\ handle[h] = "none" /\ handle' = [handle EXCEPT ![h] = "held"] /\ slot[h] = "none"
      /\ call' = call /\ subs # h
  BY DEF HSubscribe, Subscribe, Fresh, RegisteredIsOpen
<1>2. \A g \in Handles : UnderWay(g) => handle'[g] = handle[g]
  BY <1>1 DEF OwnTarget, UnderWay, Shape
<1>3. CASE subs # None
  <2>1. /\ subs' = subs /\ slot' = [slot EXCEPT ![h] = "CLOSED"]
        /\ error' = [error EXCEPT ![h] = "TOPIC_ALREADY_SUBSCRIBED"]
    BY <1>3 DEF HSubscribe, Subscribe
  <2>2. raced' = raced /\ exposed' = exposed
    BY <1>1, <2>1 DEF HSubscribe
  <2>3. OpenIsRegistered' /\ OnlyOwnerCloses'
    BY <1>1, <2>1, <2>2 DEF OpenIsRegistered, OnlyOwnerCloses, Shape, Refusals
  <2>4. OwnTarget'
    BY <1>1, <1>2, <2>1, <2>2 DEF OwnTarget, UnderWay
  <2>5. QED
    BY <2>3, <2>4
<1>4. CASE subs = None
  <2>1. subs' = h /\ slot' = [slot EXCEPT ![h] = "PENDING"] /\ error' = error
    BY <1>4 DEF HSubscribe, Subscribe
  <2>2. /\ \A g \in Handles : g \in raced => g \in raced'
        /\ \A g \in Handles : g \in exposed => g \in exposed'
        /\ Waiting => h \in raced'
        /\ Scheduled => h \in exposed'
    BY <2>1 DEF HSubscribe
  <2>3. OpenIsRegistered' /\ OnlyOwnerCloses'
    BY <1>1, <1>4, <2>1, <2>2 DEF OpenIsRegistered, OnlyOwnerCloses, Shape
  <2>4. \A g \in Handles : /\ call[g].pc \in {"waiting", "resolved"} => Waiting
                           /\ call[g].pc = "scheduled" => Scheduled
    BY DEF Waiting, Scheduled
  <2>5. \A g \in Handles : call[g].target \in exposed => call[g].target \in exposed' \/ call[g].target = None
    BY <2>2 DEF Shape, Calls
  <2>6. OwnTarget'
    BY <1>1, <1>2, <2>1, <2>2, <2>4, <2>5 DEF OwnTarget, UnderWay
  <2>7. QED
    BY <2>3, <2>6
<1>5. QED
  BY <1>3, <1>4

LEMMA UnsubscribeKeepsHandles ==
    ASSUME RegisteredInv, HandlesInv, NEW h \in Handles, HUnsubscribe(h)
    PROVE  HandlesInv'
<1> USE NoneAssumption DEF RegisteredInv, HandlesInv
<1>1. /\ handle'[h] = "unsubscribed" /\ \A g \in Handles \ {h} : handle'[g] = handle[g]
      /\ \A g \in Handles \ {h} : call'[g] = call[g]
      /\ slot[h] # "none" /\ ~UnderWay(h)
  BY DEF HUnsubscribe, Unsubscribe, Fresh, Shape
<1>2. raced' = raced /\ \A g \in Handles : g \in exposed => g \in exposed'
  BY DEF HUnsubscribe, Expose
<1>3. subs # None => subs = h \/ subs \in exposed'
  <2>1. subs = h \/ slot[h] = "CLOSED" \/ h \in raced
    BY <1>1 DEF OpenIsRegistered
  <2>2. QED
    BY <2>1 DEF HUnsubscribe, Expose
<1>4. \A g \in Handles : call[g].target \in exposed => call[g].target \in exposed' \/ call[g].target = None
  BY <1>2 DEF Shape, Calls
<1>5. subs \in exposed => subs \in exposed' \/ subs = None
  BY <1>2 DEF Shape
<1>6. CASE subs = None \/ state # "READY"
  <2>1. call'[h].pc = "done"
    BY <1>6 DEF HUnsubscribe, Unsubscribe, Shape, Returned, NoCall
  <2>2. subs' = None
    BY <1>6 DEF HUnsubscribe, Unsubscribe, Close
  <2>3. OwnTarget'
    BY <1>1, <1>2, <1>4, <2>1, <2>2 DEF OwnTarget
  <2>4. OpenIsRegistered' /\ OnlyOwnerCloses'
    <3>1. CASE subs = None
      BY <1>1, <1>2, <3>1, PromisesSame DEF HUnsubscribe, Unsubscribe
    <3>2. CASE subs # None
      <4>1. Close(subs, "DISCONNECTED") /\ subs \in Handles
        BY <1>6, <3>2 DEF HUnsubscribe, Unsubscribe, Shape
      <4>2. handle'[subs] # "held" \/ subs \in exposed'
        BY <1>1, <1>3, <3>2
      <4>3. \A g \in Handles : handle'[g] = "held" => handle[g] = "held"
        BY <1>1
      <4>4. QED
        BY <1>2, <4>1, <4>2, <4>3, CloseOwn
    <3>3. QED
      BY <3>1, <3>2
  <2>5. QED
    BY <2>3, <2>4
<1>7. CASE subs # None /\ state = "READY"
  <2>1. UNCHANGED <<subs, slot, error>> /\ call'[h].target = subs /\ call'[h].pc = "waiting"
    BY <1>7 DEF HUnsubscribe, Unsubscribe, Shape
  <2>2. OpenIsRegistered' /\ OnlyOwnerCloses'
    BY <1>1, <1>2, <2>1, PromisesSame
  <2>3. OwnTarget'
    BY <1>1, <1>2, <1>3, <1>4, <1>5, <1>7, <2>1 DEF OwnTarget
  <2>4. QED
    BY <2>2, <2>3
<1>8. QED
  BY <1>6, <1>7

LEMMA DropKeepsHandles ==
    ASSUME RegisteredInv, HandlesInv, NEW h \in Handles, HDrop(h)
    PROVE  HandlesInv'
<1> USE NoneAssumption DEF RegisteredInv, HandlesInv
<1>1. /\ handle'[h] = "dropped" /\ \A g \in Handles \ {h} : handle'[g] = handle[g]
      /\ \A g \in Handles \ {h} : call'[g] = call[g]
      /\ slot[h] # "none" /\ ~UnderWay(h) /\ UNCHANGED <<subs, slot, error>>
  BY DEF HDrop, Drop, Fresh, Shape, OwnTarget, UnderWay
<1>2. raced' = raced /\ \A g \in Handles : g \in exposed => g \in exposed'
  BY DEF HDrop, Expose
<1>3. OpenIsRegistered' /\ OnlyOwnerCloses'
  BY <1>1, <1>2, PromisesSame
<1>4. \A g \in Handles : call[g].target \in exposed => call[g].target \in exposed' \/ call[g].target = None
  BY <1>2 DEF Shape, Calls
<1>5. subs \in exposed => subs \in exposed' \/ subs = None
  BY <1>2 DEF Shape
<1>6. CASE slot[h] = "CLOSED"
  <2>1. call'[h] = call[h]
    BY <1>6 DEF HDrop, Drop
  <2>2. OwnTarget'
    BY <1>1, <1>2, <1>4, <1>5, <2>1 DEF OwnTarget, UnderWay
  <2>3. QED
    BY <1>3, <2>2
<1>7. CASE slot[h] # "CLOSED"
  <2>1. call'[h].pc = "scheduled"
    BY <1>7 DEF HDrop, Drop, Shape, NoCall
  <2>2. subs = h \/ h \in raced
    BY <1>1, <1>7 DEF OpenIsRegistered
  <2>3. subs \in {None, h} \cup exposed'
    BY <2>2 DEF HDrop, Expose
  <2>4. OwnTarget'
    BY <1>1, <1>2, <1>4, <1>5, <2>1, <2>3 DEF OwnTarget
  <2>5. QED
    BY <1>3, <2>4
<1>8. QED
  BY <1>6, <1>7

\* A call ends: its slot is closed and the topic has none.
LEMMA CallsKeepHandles ==
    ASSUME RegisteredInv, HandlesInv, NEW h \in Handles, UNCHANGED hist,
           RunScheduled(h) \/ OnTimeout(h) \/ Finish(h)
    PROVE  HandlesInv'
<1> USE NoneAssumption DEF RegisteredInv, HandlesInv, hist
<1>1. handle' = handle /\ \A g \in Handles \ {h} : call'[g] = call[g]
  BY DEF RunScheduled, OnTimeout, Finish, Resolve, Shape
<1>2. CASE RunScheduled(h)
  <2>1. call'[h].pc = "done" /\ subs' = None
    BY <1>2 DEF RunScheduled, Close, Shape, Returned, NoCall
  <2>2. OwnTarget'
    BY <1>1, <2>1 DEF OwnTarget
  <2>3. CASE subs = None
    BY <1>1, <1>2, <2>2, <2>3, PromisesSame DEF RunScheduled
  <2>4. CASE subs # None
    <3>1. PICK code : Close(subs, code)
      BY <1>2, <2>4 DEF RunScheduled
    <3>2. subs \in Handles /\ (handle'[subs] # "held" \/ subs \in exposed')
      BY <1>1, <1>2, <2>4 DEF RunScheduled, OwnTarget, Shape
    <3>3. OpenIsRegistered' /\ OnlyOwnerCloses'
      BY <1>1, <3>1, <3>2, CloseOwn
    <3>4. QED
      BY <2>2, <3>3
  <2>5. QED
    BY <2>3, <2>4
<1>3. CASE OnTimeout(h)
  <2>1. UNCHANGED <<subs, slot, error>> /\ call[h].pc = "waiting"
        /\ call'[h].pc = "resolved" /\ call'[h].target = call[h].target
    BY <1>3 DEF OnTimeout, Resolve, Shape, Calls
  <2>2. OwnTarget'
    BY <1>1, <2>1 DEF OwnTarget
  <2>3. QED
    BY <1>1, <2>1, <2>2, PromisesSame
<1>4. CASE Finish(h)
  <2>1. call'[h].pc = "done" /\ subs' = None
    BY <1>4 DEF Finish, Close, Shape, Returned, NoCall
  <2>2. OwnTarget'
    BY <1>1, <2>1 DEF OwnTarget
  <2>3. /\ call[h].target \in Handles /\ subs \in {None, call[h].target} \cup raced
        /\ handle'[call[h].target] # "held" \/ call[h].target \in exposed'
    BY <1>1, <1>4 DEF Finish, OwnTarget, Shape, Calls
  <2>4. Close(call[h].target, call[h].result)
    BY <1>4 DEF Finish
  <2>5. OpenIsRegistered' /\ OnlyOwnerCloses'
    BY <1>1, <2>3, <2>4, CloseOwn
  <2>6. QED
    BY <2>2, <2>5
<1>5. QED
  BY <1>2, <1>3, <1>4

\* Answers, losses and reconnects.
LEMMA ConnectionKeepsHandles ==
    ASSUME RegisteredInv, WireShape, HandlesInv, UNCHANGED <<raced, exposed>>,
           HandleSubscribeAck \/ HandleUnsubscribed \/ Serve \/ Loss \/ Reconnect
    PROVE  HandlesInv'
<1> USE NoneAssumption DEF RegisteredInv, HandlesInv
<1>1. handle' = handle
  BY DEF HandleSubscribeAck, HandleUnsubscribed, Serve, Loss, Reconnect
<1>2. \A g \in Handles : /\ call'[g].target = call[g].target
                         /\ \/ call'[g].pc = call[g].pc
                            \/ call[g].pc = "waiting" /\ call'[g].pc = "resolved"
  <2>1. CASE HandleUnsubscribed
    <3>1. call \in [Handles -> Calls]
      BY DEF Shape
    <3> DEFINE a == Head(answers)
    <3> DEFINE code == IF a.kind = "unsubscribed" THEN "OK" ELSE "kept"
    <3>2. \/ call' = call
          \/ call[a.of].pc = "waiting" /\ call' = Resolve(a.of, code)
      BY <2>1, Zenon DEF HandleUnsubscribed
    <3> HIDE DEF a, code
    <3> QED
      BY <3>1, <3>2 DEF Resolve, Calls
  <2>2. CASE Loss
    BY <2>2 DEF Loss, Shape, Calls
  <2>3. CASE HandleSubscribeAck \/ Serve \/ Reconnect
    BY <2>3 DEF HandleSubscribeAck, Serve, Reconnect
  <2> QED
    BY <2>1, <2>2, <2>3
<1>3. ASSUME subs' \in {subs, None}
      PROVE  OwnTarget'
  BY <1>1, <1>2, <1>3 DEF OwnTarget
<1>4. CASE HandleSubscribeAck
  <2>1. CASE UNCHANGED <<subs, slot, error>>
    BY <1>1, <1>3, <2>1, PromisesSame
  <2>2. CASE subs' = subs /\ error' = error /\ subs \in Handles /\ slot' = [slot EXCEPT ![subs] = "ACTIVE"]
    <3>1. OpenIsRegistered' /\ OnlyOwnerCloses'
      BY <1>1, <2>2 DEF OpenIsRegistered, OnlyOwnerCloses, Shape
    <3>2. QED
      BY <1>3, <2>2, <3>1
  <2>3. CASE subs \in Handles /\ Close(subs, "rejected")
    <3>1. OpenIsRegistered' /\ OnlyOwnerCloses'
      BY <1>1, <2>3, CloseOwn DEF Refusals
    <3>2. QED
      BY <1>3, <2>3, <3>1 DEF Close
  <2>4. subs = Head(answers).of => subs \in Handles
    BY <1>4, WireSteps, AnswerTypes DEF HandleSubscribeAck, WireShape
  <2>5. QED
    BY <1>4, <2>1, <2>2, <2>3, <2>4 DEF HandleSubscribeAck
<1>5. CASE HandleUnsubscribed \/ Serve
  <2>1. UNCHANGED <<subs, slot, error>>
    BY <1>5 DEF HandleUnsubscribed, Serve
  <2>2. QED
    BY <1>1, <1>3, <2>1, PromisesSame
<1>6. CASE Loss
  <2>1. /\ UNCHANGED <<subs, error>>
        /\ slot' = [h \in Handles |-> IF h = subs THEN "PAUSED" ELSE slot[h]]
    BY <1>6 DEF Loss
  <2>2. OpenIsRegistered' /\ OnlyOwnerCloses'
    BY <1>1, <2>1 DEF OpenIsRegistered, OnlyOwnerCloses
  <2>3. QED
    BY <1>3, <2>1, <2>2
<1>7. CASE Reconnect
  <2>1. UNCHANGED <<subs, error>> /\ (slot' = slot \/ slot' = [slot EXCEPT ![subs] = "PENDING"])
    BY <1>7 DEF Reconnect
  <2>2. OpenIsRegistered' /\ OnlyOwnerCloses'
    BY <1>1, <2>1 DEF OpenIsRegistered, OnlyOwnerCloses, Shape
  <2>3. QED
    BY <1>3, <2>1, <2>2
<1>8. QED
  BY <1>4, <1>5, <1>6, <1>7

\* HandlesInv is an invariant, whatever the application does.
LEMMA HandlesInvariant == HSpec => []HandlesInv
<1>1. HInit => HandlesInv
  BY DEF HInit, Init, HandlesInv, OpenIsRegistered, OnlyOwnerCloses, OwnTarget, NoCall
<1>2. RegisteredInv /\ WireShape /\ HandlesInv /\ [HNext]_hvars => HandlesInv'
  <2> SUFFICES ASSUME RegisteredInv, WireShape, HandlesInv, [HNext]_hvars
               PROVE  HandlesInv'
    OBVIOUS
  <2>1. ASSUME NEW h \in Handles, HSubscribe(h) \/ HUnsubscribe(h) \/ HDrop(h)
        PROVE  HandlesInv'
    BY <2>1, SubscribeKeepsHandles, UnsubscribeKeepsHandles, DropKeepsHandles
  <2>2. ASSUME NEW h \in Handles, RunScheduled(h) \/ OnTimeout(h) \/ Finish(h), UNCHANGED hist
        PROVE  HandlesInv'
    BY <2>2, CallsKeepHandles
  <2>3. CASE /\ UNCHANGED <<raced, exposed>>
             /\ HandleSubscribeAck \/ HandleUnsubscribed \/ Serve \/ Loss \/ Reconnect
    BY <2>3, ConnectionKeepsHandles
  <2>4. CASE UNCHANGED hvars
    BY <2>4 DEF hvars, vars, hist, HandlesInv, OpenIsRegistered, OnlyOwnerCloses, OwnTarget
  <2>5. QED
    BY <2>1, <2>2, <2>3, <2>4 DEF HNext, HServe, HLoss, hist
<1>3. TypeOK => WireShape
  BY ShapeIsType
<1>4. QED
  BY <1>1, <1>2, <1>3, HistoryWatches, TypeCorrect, RegistryInvariant, PTL DEF HSpec

\* For any application, any number of handles, calls and losses: a slot that is
\* not CLOSED is found under its topic, unless it was registered before an
\* unsubscribe() had returned.
THEOREM OpenStaysRegistered == HSpec => []OpenIsRegistered
<1>1. HandlesInv => OpenIsRegistered
  BY DEF HandlesInv
<1>2. QED
  BY <1>1, HandlesInvariant, PTL

\* For any application, any number of handles, calls and losses: a handle that
\* is held is closed by a refusal only, unless its slot was exposed.
THEOREM HandlesClosedByOwner == HSpec => []OnlyOwnerCloses
<1>1. HandlesInv => OnlyOwnerCloses
  BY DEF HandlesInv
<1>2. QED
  BY <1>1, HandlesInvariant, PTL

-----------------------------------------------------------------------------
(* What the robot knows.                                                   *)

\* The requests and answers about the subscription of h.
Asks(c, h) == c.kind = "subscribe" /\ c.of = h
IsAck(a, h) == a.kind \in {"accepted", "refused"} /\ a.of = h

\* The robot is asked for a subscription once per connection, and answers once.
Once ==
    \A h \in Handles :
        /\ \A i, j \in 1..Len(commands) : Asks(commands[i], h) /\ Asks(commands[j], h) => i = j
        /\ \A i, j \in 1..Len(answers) : IsAck(answers[i], h) /\ IsAck(answers[j], h) => i = j
        /\ \A i \in 1..Len(commands) : \A j \in 1..Len(answers) :
              ~(Asks(commands[i], h) /\ IsAck(answers[j], h))
        /\ handle[h] = "none" =>
              /\ \A i \in 1..Len(commands) : ~Asks(commands[i], h)
              /\ \A i \in 1..Len(answers) : ~IsAck(answers[i], h)

\* Every subscribe finds the robot without a subscription.
Alternate ==
    /\ commands # <<>> /\ commands[1].kind = "subscribe" => served = None
    /\ \A i \in 1..Len(commands) : i > 1 /\ commands[i].kind = "subscribe"
                                      => commands[i - 1].kind = "unsubscribe"

\* The robot serves nobody, or will when it has served the last command.
Gone ==
    \/ commands = <<>> /\ served = None
    \/ commands # <<>> /\ commands[Len(commands)].kind = "unsubscribe"

\* The last word between SDK and robot is about the subscription of h: its
\* request, its answer, or what came of it.
Known(h) ==
    \/ commands # <<>> /\ Asks(commands[Len(commands)], h)
    \/ /\ commands = <<>> /\ answers # <<>>
       /\ answers[Len(answers)].of = h
       /\ \/ answers[Len(answers)].kind = "accepted" /\ served = h
          \/ answers[Len(answers)].kind = "refused" /\ served = None
    \/ commands = <<>> /\ answers = <<>> /\ slot[h] = "ACTIVE" /\ served = h

InReady ==
    state = "READY" =>
        /\ subs = None \/ Waiting => Gone
        /\ subs # None /\ ~Waiting => Known(subs)

\* A reconnect asks for the one slot there is; commands wait for READY.
InReconnect ==
    state = "RECONNECTING" =>
        /\ ~Waiting
        /\ \/ commands = <<>> /\ answers = <<>>
           \/ Len(commands) = 1 /\ commands[1].kind = "subscribe" /\ answers = <<>>
           \/ /\ commands = <<>> /\ Len(answers) = 1
              /\ \/ answers[1].kind = "accepted" /\ served = answers[1].of
                 \/ answers[1].kind = "refused" /\ served = None

InOutage ==
    state = "TRANSIENT_FAILURE" =>
        /\ commands = <<>> /\ answers = <<>> /\ served = None
        /\ \A h \in Handles : call[h].pc # "waiting"

WireInv == Once /\ Alternate /\ InReady /\ InReconnect /\ InOutage

\* The elements of a queue after one is added or taken.
LEMMA Added ==
    ASSUME NEW S, NEW q \in Seq(S), NEW e \in S
    PROVE  /\ Append(q, e) # <<>> /\ Len(q) \in Nat /\ Len(Append(q, e)) = Len(q) + 1
           /\ Append(q, e)[Len(Append(q, e))] = e /\ Append(q, e)[Len(q) + 1] = e
           /\ \A i \in 1..Len(q) : Append(q, e)[i] = q[i]
  OBVIOUS

LEMMA Taken ==
    ASSUME NEW S, NEW q \in Seq(S), q # <<>>
    PROVE  /\ Len(q) \in Nat /\ Len(q) > 0 /\ Len(Tail(q)) = Len(q) - 1 /\ Head(q) = q[1]
           /\ \A i \in 1..Len(Tail(q)) : Tail(q)[i] = q[i + 1]
           /\ Tail(q) # <<>> <=> Len(q) > 1
           /\ Tail(q) # <<>> => Tail(q)[Len(Tail(q))] = q[Len(q)]
<1>1. /\ Len(q) \in Nat /\ Len(q) > 0 /\ Len(Tail(q)) = Len(q) - 1 /\ Head(q) = q[1]
      /\ \A i \in 1..Len(Tail(q)) : Tail(q)[i] = q[i + 1]
  OBVIOUS
<1>2. Tail(q) \in Seq(S)
  OBVIOUS
<1>3. Tail(q) # <<>> <=> Len(Tail(q)) # 0
  <2>1. \A t \in Seq(S) : t # <<>> <=> Len(t) # 0
    OBVIOUS
  <2> QED
    BY <1>2, <2>1
<1>4. Tail(q) # <<>> <=> Len(q) > 1
  <2> DEFINE n == Len(q)
             m == Len(Tail(q))
  <2>1. n \in Nat /\ n > 0 /\ m = n - 1 /\ (Tail(q) # <<>> <=> m # 0)
    BY <1>1, <1>3
  <2> HIDE DEF n, m
  <2>2. m # 0 <=> n > 1
    BY <2>1
  <2> QED
    BY <2>1, <2>2 DEF n
<1>5. Tail(q) # <<>> => Len(q) - 1 \in 1..Len(Tail(q)) /\ (Len(q) - 1) + 1 = Len(q)
  BY <1>1, <1>4
<1> QED
  BY <1>1, <1>4, <1>5

\* The wire of a state with the shape of the registry.
LEMMA WireTypes ==
    ASSUME Shape, WireShape
    PROVE  /\ commands \in Seq(CommandRecs) /\ answers \in Seq(AnswerRecs)
           /\ Len(commands) \in Nat /\ Len(answers) \in Nat
           /\ \A h \in Handles : Asking(h) \in CommandRecs
           /\ \A h \in Handles : \A n \in Ids : Leaving(h, n) \in CommandRecs
  BY RequestTypes DEF WireShape

\* Nothing new on the wire.
LEMMA OnceSame ==
    ASSUME Once, commands' = commands, answers' = answers,
           \A h \in Handles : handle'[h] = "none" => handle[h] = "none"
    PROVE  Once'
  BY DEF Once

\* An unsubscribe is neither a request nor an answer of a subscription.
LEMMA OnceUnsubscribe ==
    ASSUME Shape, WireShape, Once, NEW h \in Handles, NEW n \in Ids, answers' = answers,
           commands' = Append(commands, Leaving(h, n)),
           \A g \in Handles : handle'[g] = "none" => handle[g] = "none"
    PROVE  Once'
<1> DEFINE e == Leaving(h, n)
<1>1. /\ Len(commands) \in Nat /\ Len(commands') = Len(commands) + 1
      /\ commands'[Len(commands) + 1] = e
      /\ \A i \in 1..Len(commands) : commands'[i] = commands[i]
  BY WireTypes, Added
<1>2. \A g \in Handles : ~Asks(e, g)
  BY DEF Asks, Leaving
<1> HIDE DEF e
<1>3. ASSUME NEW i \in 1..Len(commands'), NEW g \in Handles, Asks(commands'[i], g)
      PROVE  i \in 1..Len(commands) /\ commands'[i] = commands[i]
  <2>1. i # Len(commands) + 1
    BY <1>1, <1>2, <1>3
  <2> QED
    BY <1>1, <2>1
<1>4. ASSUME NEW g \in Handles
      PROVE  /\ \A i, j \in 1..Len(commands') :
                   Asks(commands'[i], g) /\ Asks(commands'[j], g) => i = j
             /\ \A i \in 1..Len(commands') : \A j \in 1..Len(answers) :
                   ~(Asks(commands'[i], g) /\ IsAck(answers[j], g))
             /\ handle'[g] = "none" => \A i \in 1..Len(commands') : ~Asks(commands'[i], g)
  <2>1. \A i \in 1..Len(commands') : Asks(commands'[i], g)
           => i \in 1..Len(commands) /\ Asks(commands[i], g)
    BY <1>3
  <2>2. /\ \A i, j \in 1..Len(commands) : Asks(commands[i], g) /\ Asks(commands[j], g) => i = j
        /\ \A i \in 1..Len(commands) : \A j \in 1..Len(answers) :
              ~(Asks(commands[i], g) /\ IsAck(answers[j], g))
        /\ handle[g] = "none" => \A i \in 1..Len(commands) : ~Asks(commands[i], g)
    BY DEF Once
  <2> QED
    BY <2>1, <2>2
<1>5. \A g \in Handles :
        /\ \A i, j \in 1..Len(answers') : IsAck(answers'[i], g) /\ IsAck(answers'[j], g) => i = j
        /\ handle'[g] = "none" => \A i \in 1..Len(answers') : ~IsAck(answers'[i], g)
  BY DEF Once
<1> QED
  BY <1>4, <1>5 DEF Once

\* A subscribe is written for a slot the wire says nothing about.
LEMMA OnceSubscribe ==
    ASSUME Shape, WireShape, Once, NEW h \in Handles, answers' = answers,
           commands' = Append(commands, Asking(h)),
           handle'[h] # "none",
           \A g \in Handles : handle'[g] = "none" => handle[g] = "none",
           \A i \in 1..Len(commands) : ~Asks(commands[i], h),
           \A i \in 1..Len(answers) : ~IsAck(answers[i], h)
    PROVE  Once'
<1> DEFINE e == Asking(h)
<1>1. /\ Len(commands) \in Nat /\ Len(commands') = Len(commands) + 1
      /\ commands'[Len(commands) + 1] = e
      /\ \A i \in 1..Len(commands) : commands'[i] = commands[i]
  BY WireTypes, Added
<1>2. \A g \in Handles : Asks(e, g) => g = h
  BY DEF Asks, Asking
<1> HIDE DEF e
<1>3. ASSUME NEW i \in 1..Len(commands'), NEW g \in Handles, Asks(commands'[i], g)
      PROVE  IF g = h THEN i = Len(commands) + 1
             ELSE i \in 1..Len(commands) /\ Asks(commands[i], g)
  <2>1. i \in 1..Len(commands) \/ i = Len(commands) + 1
    BY <1>1
  <2> QED
    BY <1>1, <1>2, <1>3, <2>1
<1>4. ASSUME NEW g \in Handles
      PROVE  /\ \A i, j \in 1..Len(commands') :
                   Asks(commands'[i], g) /\ Asks(commands'[j], g) => i = j
             /\ \A i \in 1..Len(commands') : \A j \in 1..Len(answers) :
                   ~(Asks(commands'[i], g) /\ IsAck(answers[j], g))
             /\ handle'[g] = "none" => \A i \in 1..Len(commands') : ~Asks(commands'[i], g)
  <2>1. CASE g = h
    BY <1>3, <2>1
  <2>2. CASE g # h
    <3>1. \A i \in 1..Len(commands') : Asks(commands'[i], g)
             => i \in 1..Len(commands) /\ Asks(commands[i], g)
      BY <1>3, <2>2
    <3>2. /\ \A i, j \in 1..Len(commands) : Asks(commands[i], g) /\ Asks(commands[j], g) => i = j
          /\ \A i \in 1..Len(commands) : \A j \in 1..Len(answers) :
                ~(Asks(commands[i], g) /\ IsAck(answers[j], g))
          /\ handle[g] = "none" => \A i \in 1..Len(commands) : ~Asks(commands[i], g)
      BY DEF Once
    <3> QED
      BY <3>1, <3>2
  <2> QED
    BY <2>1, <2>2
<1>5. \A g \in Handles :
        /\ \A i, j \in 1..Len(answers') : IsAck(answers'[i], g) /\ IsAck(answers'[j], g) => i = j
        /\ handle'[g] = "none" => \A i \in 1..Len(answers') : ~IsAck(answers'[i], g)
  BY DEF Once
<1> QED
  BY <1>4, <1>5 DEF Once

\* The SDK takes an answer.
LEMMA OnceAnswerTaken ==
    ASSUME Shape, WireShape, Once, answers # <<>>, answers' = Tail(answers),
           commands' = commands, handle' = handle
    PROVE  Once'
<1>1. /\ Len(answers) \in Nat /\ Len(answers') = Len(answers) - 1
      /\ \A i \in 1..Len(answers') : answers'[i] = answers[i + 1]
  BY WireTypes, Taken
<1>2. \A i \in 1..Len(answers') : i + 1 \in 1..Len(answers)
  BY <1>1
<1>3. ASSUME NEW g \in Handles
      PROVE  /\ \A i, j \in 1..Len(answers') :
                   IsAck(answers'[i], g) /\ IsAck(answers'[j], g) => i = j
             /\ \A i \in 1..Len(commands) : \A j \in 1..Len(answers') :
                   ~(Asks(commands[i], g) /\ IsAck(answers'[j], g))
             /\ handle[g] = "none" => \A i \in 1..Len(answers') : ~IsAck(answers'[i], g)
  <2>1. /\ \A i, j \in 1..Len(answers) : IsAck(answers[i], g) /\ IsAck(answers[j], g) => i = j
        /\ \A i \in 1..Len(commands) : \A j \in 1..Len(answers) :
              ~(Asks(commands[i], g) /\ IsAck(answers[j], g))
        /\ handle[g] = "none" => \A i \in 1..Len(answers) : ~IsAck(answers[i], g)
    BY DEF Once
  <2>2. ASSUME NEW i \in 1..Len(answers'), NEW j \in 1..Len(answers'),
               IsAck(answers'[i], g), IsAck(answers'[j], g)
        PROVE  i = j
    <3>1. i + 1 = j + 1
      BY <1>1, <1>2, <2>1, <2>2
    <3> QED
      BY <3>1
  <2> QED
    BY <1>1, <1>2, <2>1, <2>2
<1>4. \A g \in Handles :
        /\ \A i, j \in 1..Len(commands') : Asks(commands'[i], g) /\ Asks(commands'[j], g) => i = j
        /\ handle'[g] = "none" => \A i \in 1..Len(commands') : ~Asks(commands'[i], g)
  BY DEF Once
<1> QED
  BY <1>3, <1>4 DEF Once

\* The robot takes a command and answers it, about the same subscription.
LEMMA OnceServed ==
    ASSUME Shape, WireShape, Once, handle' = handle, Serve
    PROVE  Once'
<1> DEFINE c == Head(commands)
<1>0. commands # <<>> /\ commands' = Tail(commands)
  BY DEF Serve
<1>1. /\ Len(commands) \in Nat /\ Len(commands) > 0 /\ Len(commands') = Len(commands) - 1
      /\ \A i \in 1..Len(commands') : commands'[i] = commands[i + 1]
      /\ c = commands[1] /\ c \in CommandRecs
  BY <1>0, WireTypes, Taken
<1>2. PICK a \in AnswerRecs : answers' = Append(answers, a) /\ \A g \in Handles : IsAck(a, g) => Asks(c, g)
  <2>1. PICK k \in {"accepted", "refused", "unsubscribed", "kept"} :
           Answer(c, k) /\ (k \in {"accepted", "refused"} => c.kind = "subscribe")
    BY DEF Serve
  <2>2. /\ [c EXCEPT !.kind = k] \in AnswerRecs
        /\ [c EXCEPT !.kind = k].kind = k /\ [c EXCEPT !.kind = k].of = c.of
    BY <1>1, AnswerTypes
  <2>3. \A g \in Handles : IsAck([c EXCEPT !.kind = k], g) => Asks(c, g)
    BY <2>1, <2>2 DEF IsAck, Asks
  <2> QED
    BY <2>1, <2>2, <2>3 DEF Answer
<1>3. /\ Len(answers) \in Nat /\ Len(answers') = Len(answers) + 1
      /\ answers'[Len(answers) + 1] = a
      /\ \A i \in 1..Len(answers) : answers'[i] = answers[i]
  BY <1>2, WireTypes, Added
<1> HIDE DEF c
<1>4. \A i \in 1..Len(commands') : i + 1 \in 1..Len(commands) /\ i + 1 # 1
  BY <1>1
<1>5. \A i \in 1..Len(answers') : i \in 1..Len(answers) \/ i = Len(answers) + 1
  BY <1>3
<1>6. 1 \in 1..Len(commands)
  BY <1>1
<1>7. ASSUME NEW g \in Handles
      PROVE  /\ \A i, j \in 1..Len(commands') :
                   Asks(commands'[i], g) /\ Asks(commands'[j], g) => i = j
             /\ \A i, j \in 1..Len(answers') :
                   IsAck(answers'[i], g) /\ IsAck(answers'[j], g) => i = j
             /\ \A i \in 1..Len(commands') : \A j \in 1..Len(answers') :
                   ~(Asks(commands'[i], g) /\ IsAck(answers'[j], g))
             /\ handle[g] = "none" => /\ \A i \in 1..Len(commands') : ~Asks(commands'[i], g)
                                      /\ \A i \in 1..Len(answers') : ~IsAck(answers'[i], g)
  <2>1. /\ \A i, j \in 1..Len(commands) : Asks(commands[i], g) /\ Asks(commands[j], g) => i = j
        /\ \A i, j \in 1..Len(answers) : IsAck(answers[i], g) /\ IsAck(answers[j], g) => i = j
        /\ \A i \in 1..Len(commands) : \A j \in 1..Len(answers) :
              ~(Asks(commands[i], g) /\ IsAck(answers[j], g))
        /\ handle[g] = "none" => /\ \A i \in 1..Len(commands) : ~Asks(commands[i], g)
                                 /\ \A i \in 1..Len(answers) : ~IsAck(answers[i], g)
    BY DEF Once
  <2>2. ASSUME NEW i \in 1..Len(commands'), NEW j \in 1..Len(commands'),
               Asks(commands'[i], g), Asks(commands'[j], g)
        PROVE  i = j
    <3>1. i + 1 = j + 1
      BY <1>1, <1>4, <2>1, <2>2
    <3> QED
      BY <3>1
  <2>3. \A i \in 1..Len(answers') : IsAck(answers'[i], g)
           => (i \in 1..Len(answers) /\ IsAck(answers[i], g)) \/ (i = Len(answers) + 1 /\ Asks(c, g))
    BY <1>2, <1>3, <1>5
  <2>4. Asks(c, g) => /\ \A i \in 1..Len(answers) : ~IsAck(answers[i], g)
                      /\ \A i \in 1..Len(commands') : ~Asks(commands'[i], g)
    BY <1>1, <1>4, <1>6, <2>1
  <2>5. \A i \in 1..Len(commands') : Asks(commands'[i], g) => \A j \in 1..Len(answers) : ~IsAck(answers[j], g)
    BY <1>1, <1>4, <2>1
  <2>6. \A i, j \in 1..Len(answers') : IsAck(answers'[i], g) /\ IsAck(answers'[j], g) => i = j
    BY <2>1, <2>3, <2>4
  <2>7. \A i \in 1..Len(commands') : \A j \in 1..Len(answers') :
                   ~(Asks(commands'[i], g) /\ IsAck(answers'[j], g))
    BY <2>3, <2>4, <2>5
  <2>8. handle[g] = "none" => /\ \A i \in 1..Len(commands') : ~Asks(commands'[i], g)
                              /\ \A i \in 1..Len(answers') : ~IsAck(answers'[i], g)
    BY <1>1, <1>4, <1>6, <2>1, <2>3
  <2> QED
    BY <2>2, <2>6, <2>7, <2>8
<1> QED
  BY <1>7 DEF Once

\* A command is added to the end: what is last changes.
LEMMA AlternateAdded ==
    ASSUME Shape, WireShape, Alternate, served' = served, NEW e \in CommandRecs,
           commands' = Append(commands, e), e.kind = "unsubscribe" \/ Gone
    PROVE  Alternate'
<1>1. /\ Len(commands) \in Nat /\ Len(commands') = Len(commands) + 1
      /\ commands'[Len(commands) + 1] = e
      /\ \A i \in 1..Len(commands) : commands'[i] = commands[i]
  BY WireTypes, Added
<1>2. commands # <<>> <=> Len(commands) # 0
  BY WireTypes
<1>3. ASSUME commands'[1].kind = "subscribe" PROVE served = None
  <2>1. CASE commands = <<>>
    BY <1>1, <1>2, <1>3, <2>1 DEF Gone
  <2>2. CASE commands # <<>>
    <3>1. 1 \in 1..Len(commands)
      BY <1>1, <1>2, <2>2
    <3> QED
      BY <1>1, <1>3, <2>2, <3>1 DEF Alternate
  <2> QED
    BY <2>1, <2>2
<1>4. ASSUME NEW i \in 1..Len(commands'), i > 1, commands'[i].kind = "subscribe"
      PROVE  commands'[i - 1].kind = "unsubscribe"
  <2>1. i - 1 \in 1..Len(commands) /\ commands'[i - 1] = commands[i - 1]
    BY <1>1, <1>4
  <2>2. CASE i \in 1..Len(commands)
    BY <1>1, <1>4, <2>1, <2>2 DEF Alternate
  <2>3. CASE i = Len(commands) + 1
    <3>1. i - 1 = Len(commands) /\ e.kind = "subscribe"
      BY <1>1, <1>4, <2>3
    <3>2. commands[Len(commands)].kind = "unsubscribe"
      BY <1>1, <1>2, <2>1, <3>1 DEF Gone
    <3> QED
      BY <2>1, <3>1, <3>2
  <2>4. i \in 1..Len(commands) \/ i = Len(commands) + 1
    BY <1>1, <1>4
  <2> QED
    BY <2>2, <2>3, <2>4
<1> QED
  BY <1>3, <1>4 DEF Alternate

\* The robot takes the first: the next subscribe follows an unsubscribe.
LEMMA AlternateServed ==
    ASSUME Shape, WireShape, Alternate, HServe, ~crossed'
    PROVE  Alternate'
<1>0. commands # <<>> /\ commands' = Tail(commands)
  BY DEF HServe, Serve
<1>1. /\ Len(commands) \in Nat /\ Len(commands) > 0 /\ Len(commands') = Len(commands) - 1
      /\ \A i \in 1..Len(commands') : commands'[i] = commands[i + 1]
      /\ Head(commands) = commands[1] /\ (commands' # <<>> <=> Len(commands) > 1)
  BY <1>0, WireTypes, Taken
<1>2. ASSUME commands' # <<>>, commands'[1].kind = "subscribe"
      PROVE  served' = None
  <2>1. 1 \in 1..Len(commands') /\ 1 + 1 \in 1..Len(commands) /\ (1 + 1) - 1 = 1 /\ 1 + 1 > 1
    BY <1>1, <1>2
  <2>2. commands[1 + 1].kind = "subscribe"
    BY <1>1, <1>2, <2>1
  <2>3. commands[1].kind = "unsubscribe"
    BY <2>1, <2>2 DEF Alternate
  <2> QED
    BY <1>1, <2>3 DEF HServe
<1>3. ASSUME NEW i \in 1..Len(commands'), i > 1, commands'[i].kind = "subscribe"
      PROVE  commands'[i - 1].kind = "unsubscribe"
  <2>1. /\ i + 1 \in 1..Len(commands) /\ i + 1 > 1 /\ (i + 1) - 1 = i
        /\ i - 1 \in 1..Len(commands') /\ (i - 1) + 1 = i
    BY <1>1, <1>3
  <2>2. commands[i + 1].kind = "subscribe" /\ commands'[i - 1] = commands[i]
    BY <1>1, <1>3, <2>1
  <2> QED
    BY <2>1, <2>2 DEF Alternate
<1> QED
  BY <1>2, <1>3 DEF Alternate

LEMMA GoneAdded ==
    ASSUME Shape, WireShape, NEW h \in Handles, NEW n \in Ids, commands' = Append(commands, Leaving(h, n))
    PROVE  Gone'
<1>1. commands' # <<>> /\ commands'[Len(commands')] = Leaving(h, n)
  BY WireTypes, Added
<1> QED
  BY <1>1 DEF Gone, Leaving

LEMMA GoneServed ==
    ASSUME Shape, WireShape, Gone, HServe, ~crossed'
    PROVE  Gone'
<1>0. commands # <<>> /\ commands' = Tail(commands)
  BY DEF HServe, Serve
<1>1. /\ Len(commands) \in Nat /\ Len(commands) > 0 /\ Head(commands) = commands[1]
      /\ (commands' # <<>> <=> Len(commands) > 1)
      /\ commands' # <<>> => commands'[Len(commands')] = commands[Len(commands)]
  BY <1>0, WireTypes, Taken
<1>2. commands[Len(commands)].kind = "unsubscribe"
  BY <1>0 DEF Gone
<1>3. CASE commands' = <<>>
  <2>1. Head(commands).kind = "unsubscribe"
    BY <1>1, <1>2, <1>3
  <2> QED
    BY <1>3, <2>1 DEF Gone, HServe
<1>4. CASE commands' # <<>>
  BY <1>1, <1>2, <1>4 DEF Gone
<1> QED
  BY <1>3, <1>4

LEMMA KnownServed ==
    ASSUME Shape, WireShape, Alternate, Serve, NEW h \in Handles, Known(h)
    PROVE  Known(h)'
<1>0. commands # <<>> /\ commands' = Tail(commands)
  BY DEF Serve
<1>1. /\ Len(commands) \in Nat /\ Len(commands) > 0 /\ Head(commands) = commands[1]
      /\ (commands' # <<>> <=> Len(commands) > 1)
      /\ commands' # <<>> => commands'[Len(commands')] = commands[Len(commands)]
  BY <1>0, WireTypes, Taken
<1>2. Asks(commands[Len(commands)], h)
  BY <1>0 DEF Known
<1>3. CASE commands' = <<>>
  <2>1. Asks(Head(commands), h) /\ served = None
    BY <1>0, <1>1, <1>2, <1>3 DEF Alternate, Asks
  <2>2. Head(commands) \in CommandRecs /\ Head(commands).kind = "subscribe" /\ Head(commands).of = h
    BY <1>0, <2>1, WireSteps DEF Asks, WireShape
  <2>3. PICK k \in {"accepted", "refused"} :
           /\ Answer(Head(commands), k)
           /\ k = "accepted" => served' = h
           /\ k = "refused" => served' = None
    BY <2>1, <2>2 DEF Serve
  <2> DEFINE a == [Head(commands) EXCEPT !.kind = k]
  <2>4. a \in AnswerRecs /\ a.kind = k /\ a.of = h
    <3>1. k \in {"accepted", "refused", "unsubscribed", "kept"}
      BY <2>3
    <3> QED
      BY <2>2, <3>1, AnswerTypes, Zenon
  <2>5. answers' # <<>> /\ answers'[Len(answers')] = a
    BY <2>3, <2>4, WireTypes, Added DEF Answer
  <2> QED
    BY <1>3, <2>3, <2>4, <2>5 DEF Known
<1>4. CASE commands' # <<>>
  BY <1>1, <1>2, <1>4 DEF Known
<1> QED
  BY <1>3, <1>4

\* An answer is taken that is not the one the subscription of h waits for.
LEMMA KnownTaken ==
    ASSUME Shape, WireShape, NEW h \in Handles, Known(h), answers # <<>>, answers' = Tail(answers),
           UNCHANGED <<commands, served>>, slot'[h] = slot[h], ~IsAck(Head(answers), h)
    PROVE  Known(h)'
<1>1. /\ Len(answers) \in Nat /\ Len(answers) > 0 /\ Head(answers) = answers[1]
      /\ (answers' # <<>> <=> Len(answers) > 1)
      /\ answers' # <<>> => answers'[Len(answers')] = answers[Len(answers)]
  BY WireTypes, Taken
<1>2. CASE commands # <<>>
  BY <1>2 DEF Known
<1>3. CASE commands = <<>>
  <2>1. IsAck(answers[Len(answers)], h)
    BY <1>3 DEF Known, IsAck
  <2>2. Len(answers) > 1
    BY <1>1, <2>1
  <2> QED
    BY <1>1, <1>3, <2>2 DEF Known
<1> QED
  BY <1>2, <1>3

\* When the SDK takes the answer for h, it was the last word.
LEMMA KnownIsLast ==
    ASSUME Shape, WireShape, Once, NEW h \in Handles, Known(h), answers # <<>>, IsAck(Head(answers), h)
    PROVE  /\ commands = <<>> /\ Tail(answers) = <<>>
           /\ Head(answers).kind = "accepted" => served = h
           /\ Head(answers).kind = "refused" => served = None
<1>1. /\ Len(answers) \in Nat /\ Len(answers) > 0 /\ Head(answers) = answers[1]
      /\ (Tail(answers) # <<>> <=> Len(answers) > 1)
  BY WireTypes, Taken
<1>2. 1 \in 1..Len(answers) /\ Len(answers) \in 1..Len(answers)
  BY <1>1
<1>3. commands # <<>> => Len(commands) \in 1..Len(commands)
  BY WireTypes
<1>4. commands = <<>>
  BY <1>1, <1>2, <1>3 DEF Known, Once
<1>5. IsAck(answers[Len(answers)], h)
  BY <1>4 DEF Known, IsAck
<1>6. Len(answers) = 1
  BY <1>1, <1>2, <1>5 DEF Once
<1> QED
  BY <1>1, <1>4, <1>6 DEF Known

\* The invariant of the registry with the wire of an uncrossed connection.
AgreeInv == RegisteredInv /\ WireShape /\ WireInv

\* Nothing on the wire moves, nothing is closed.
LEMMA AgreeSame ==
    ASSUME Shape, WireInv, UNCHANGED <<state, commands, answers, served>>, subs' = subs,
           Waiting' = Waiting, subs # None => slot'[subs] = slot[subs],
           \A h \in Handles : call'[h].pc = "waiting" => call[h].pc = "waiting" \/ state = "READY",
           \A h \in Handles : handle'[h] = "none" => handle[h] = "none"
    PROVE  WireInv'
<1>1. Once'
  BY OnceSame DEF WireInv
<1>2. Alternate'
  BY DEF WireInv, Alternate
<1>3. Gone' = Gone
  BY DEF Gone
<1>4. subs # None => Known(subs)' = Known(subs)
  BY DEF Known
<1>5. InReady'
  BY <1>3, <1>4 DEF WireInv, InReady, Known
<1>6. InReconnect' /\ InOutage'
  BY DEF WireInv, InReconnect, InOutage
<1> QED
  BY <1>1, <1>2, <1>5, <1>6 DEF WireInv

\* The slot is closed where the robot has forgotten it, or will.
LEMMA AgreeClosed ==
    ASSUME Shape, WireInv, UNCHANGED <<state, commands, answers, served>>, subs' = None,
           state = "READY" => Gone,
           Waiting' => Waiting,
           \A h \in Handles : call'[h].pc = "waiting" => call[h].pc = "waiting",
           \A h \in Handles : handle'[h] = "none" => handle[h] = "none"
    PROVE  WireInv'
<1>1. Once'
  BY OnceSame DEF WireInv
<1>2. Alternate'
  BY DEF WireInv, Alternate
<1>3. Gone' = Gone
  BY DEF Gone
<1>5. InReady'
  BY <1>3 DEF WireInv, InReady
<1>6. InReconnect' /\ InOutage'
  BY DEF WireInv, InReconnect, InOutage
<1> QED
  BY <1>1, <1>2, <1>5, <1>6 DEF WireInv

\* An unsubscribe is written.
LEMMA AgreeUnsubscribe ==
    ASSUME Shape, WireShape, WireInv, NEW h \in Handles, NEW n \in Ids, state = "READY",
           UNCHANGED <<state, answers, served>>, commands' = Append(commands, Leaving(h, n)),
           subs' = None \/ Waiting',
           \A g \in Handles : handle'[g] = "none" => handle[g] = "none"
    PROVE  WireInv'
<1>1. Once'
  BY OnceUnsubscribe DEF WireInv
<1>2. Alternate'
  <2>1. Leaving(h, n) \in CommandRecs /\ Leaving(h, n).kind = "unsubscribe"
    BY WireTypes DEF Leaving
  <2> QED
    BY <2>1, AlternateAdded DEF WireInv
<1>3. Gone'
  BY GoneAdded
<1>4. InReady' /\ InReconnect' /\ InOutage'
  BY <1>3 DEF InReady, InReconnect, InOutage
<1> QED
  BY <1>1, <1>2, <1>4 DEF WireInv

LEMMA AgreeSubscribe ==
    ASSUME AgreeInv, NEW h \in Handles, HSubscribe(h), ~crossed'
    PROVE  WireInv'
<1> USE NoneAssumption DEF AgreeInv, RegisteredInv
<1>0. /\ UNCHANGED <<state, call, answers, served>> /\ handle[h] = "none"
      /\ \A g \in Handles : handle'[g] = "none" => handle[g] = "none"
      /\ handle'[h] # "none" /\ Waiting' = Waiting
  BY DEF HSubscribe, Subscribe, Shape, Waiting
<1>1. CASE subs # None
  <2>1. subs # h
    BY <1>0, <1>1 DEF Fresh, RegisteredIsOpen
  <2>2. slot'[subs] = slot[subs] /\ UNCHANGED <<subs, commands>>
    BY <1>1, <2>1 DEF HSubscribe, Subscribe, Shape
  <2> QED
    BY <1>0, <2>2, AgreeSame
<1>2. CASE subs = None /\ state # "READY"
  <2>1. UNCHANGED commands
    BY <1>2 DEF HSubscribe, Subscribe
  <2>2. Once' /\ Alternate'
    BY <1>0, <2>1, OnceSame DEF WireInv, Alternate
  <2>3. InReady' /\ InReconnect' /\ InOutage'
    BY <1>0, <1>2, <2>1 DEF WireInv, InReady, InReconnect, InOutage
  <2> QED
    BY <2>2, <2>3 DEF WireInv
<1>3. CASE subs = None /\ state = "READY"
  <2> DEFINE e == Asking(h)
  <2>1. commands' = Append(commands, e) /\ subs' = h /\ e \in CommandRecs
    BY <1>3, WireTypes DEF HSubscribe, Subscribe
  <2>2. Gone /\ ~Waiting
    BY <1>3, <2>1 DEF HSubscribe, WireInv, InReady
  <2>3. Once'
    BY <1>0, <2>1, OnceSubscribe DEF WireInv, Once
  <2>4. Alternate'
    BY <1>0, <2>1, <2>2, AlternateAdded DEF WireInv
  <2>5. Known(h)'
    <3>1. commands' # <<>> /\ commands'[Len(commands')] = e
      BY <2>1, WireTypes, Added
    <3> QED
      BY <3>1 DEF Known, Asks, Asking
  <2>6. Known(subs)'
    BY <2>1, <2>5 DEF Known, Asks
  <2>7. InReady' /\ InReconnect' /\ InOutage'
    BY <1>0, <1>3, <2>1, <2>2, <2>6 DEF InReady, InReconnect, InOutage
  <2> QED
    BY <2>3, <2>4, <2>7 DEF WireInv
<1> QED
  BY <1>1, <1>2, <1>3

LEMMA AgreeCalls ==
    ASSUME AgreeInv, HandlesInv, NEW h \in Handles,
           Unsubscribe(h) \/ Drop(h) \/ RunScheduled(h) \/ OnTimeout(h) \/ Finish(h)
    PROVE  WireInv'
<1> USE NoneAssumption DEF AgreeInv, RegisteredInv
<1>0. /\ Shape /\ WireShape /\ WireInv
      /\ \A g \in Handles : call[g] \in Calls
      /\ \A g \in Handles : handle'[g] = "none" => handle[g] = "none"
  BY DEF Unsubscribe, Drop, RunScheduled, OnTimeout, Finish, Shape
<1>1. CASE Unsubscribe(h)
  <2>1. /\ ~UnderWay(h) /\ \A g \in Handles \ {h} : call'[g] = call[g]
        /\ UNCHANGED <<state, answers, served>>
    BY <1>1 DEF Unsubscribe, Shape
  <2>2. CASE subs = None \/ state # "READY"
    <3>1. call'[h].pc = "done" /\ UNCHANGED commands /\ subs' = None
      BY <1>1, <2>2 DEF Unsubscribe, Shape, Close, Returned, NoCall
    <3>2. Waiting' = Waiting
      BY <2>1, <3>1 DEF Waiting, UnderWay
    <3>3. \A g \in Handles : call'[g].pc = "waiting" => call[g].pc = "waiting"
      BY <2>1, <3>1
    <3>4. state = "READY" => Gone
      BY <2>2 DEF WireInv, InReady
    <3> QED
      BY <1>0, <2>1, <3>1, <3>2, <3>3, <3>4, AgreeClosed
  <2>3. CASE subs # None /\ state = "READY"
    <3>1. call'[h].pc = "waiting" /\ commands' = Append(commands, Leaving(h, calls + 1))
      BY <1>1, <2>3 DEF Unsubscribe, Shape
    <3>2. Waiting'
      BY <3>1 DEF Waiting
    <3>3. calls + 1 \in Ids
      BY <1>1, IdSteps DEF Unsubscribe, WireShape
    <3> QED
      BY <1>0, <2>1, <2>3, <3>1, <3>2, <3>3, AgreeUnsubscribe
  <2> QED
    BY <2>2, <2>3
<1>2. CASE Drop(h)
  <2>1. ~UnderWay(h) /\ UNCHANGED <<state, subs, slot, commands, answers, served>>
    BY <1>2 DEF Drop, HandlesInv, OwnTarget, UnderWay, wire
  <2>2. \A g \in Handles \ {h} : call'[g] = call[g]
    BY <1>2 DEF Drop, Shape
  <2>3. call'[h].pc \notin {"waiting", "resolved"} /\ call[h].pc \notin {"waiting", "resolved"}
    BY <1>2, <2>1 DEF Drop, Shape, NoCall, UnderWay
  <2>4. Waiting' = Waiting
    BY <2>2, <2>3 DEF Waiting
  <2> QED
    BY <1>0, <2>1, <2>2, <2>3, <2>4, AgreeSame
<1>3. CASE RunScheduled(h)
  <2>1. /\ call[h].pc = "scheduled" /\ call'[h].pc = "done" /\ \A g \in Handles \ {h} : call'[g] = call[g]
        /\ UNCHANGED <<state, answers, served>>
    BY <1>3 DEF RunScheduled, Shape, Returned, NoCall
  <2>2. Waiting' = Waiting
    BY <2>1 DEF Waiting
  <2>3. CASE subs = None
    <3>1. UNCHANGED <<subs, slot, commands>>
      BY <1>3, <2>3 DEF RunScheduled
    <3> QED
      BY <1>0, <2>1, <2>2, <2>3, <3>1, AgreeSame
  <2>4. CASE subs # None /\ state # "READY"
    <3>1. UNCHANGED commands /\ subs' = None
      BY <1>3, <2>4 DEF RunScheduled, Close
    <3> QED
      BY <1>0, <2>1, <2>2, <2>4, <3>1, AgreeClosed
  <2>5. CASE subs # None /\ state = "READY"
    <3>1. commands' = Append(commands, Leaving(h, 0)) /\ subs' = None
      BY <1>3, <2>5 DEF RunScheduled, Close
    <3> QED
      BY <1>0, <2>1, <2>5, <3>1, IdSteps, AgreeUnsubscribe
  <2> QED
    BY <2>3, <2>4, <2>5
<1>4. CASE OnTimeout(h)
  <2>1. /\ call[h].pc = "waiting" /\ call'[h].pc = "resolved" /\ \A g \in Handles \ {h} : call'[g] = call[g]
        /\ UNCHANGED <<state, subs, slot, commands, answers, served>>
    BY <1>4 DEF OnTimeout, Resolve, Shape, Calls, wire
  <2>2. Waiting' = Waiting
    BY <2>1 DEF Waiting
  <2> QED
    BY <1>0, <2>1, <2>2, AgreeSame
<1>5. CASE Finish(h)
  <2>1. /\ call[h].pc = "resolved" /\ call'[h].pc = "done" /\ \A g \in Handles \ {h} : call'[g] = call[g]
        /\ UNCHANGED <<state, commands, answers, served>> /\ subs' = None
    BY <1>5 DEF Finish, Shape, Returned, NoCall, Close, wire
  <2>2. Waiting /\ (state = "READY" => Gone)
    BY <2>1 DEF Waiting, WireInv, InReady
  <2>3. \A g \in Handles : call'[g].pc = "waiting" => call[g].pc = "waiting"
    BY <2>1
  <2> QED
    BY <1>0, <2>1, <2>2, <2>3, AgreeClosed
<1> QED
  BY <1>1, <1>2, <1>3, <1>4, <1>5

LEMMA AgreeAck ==
    ASSUME AgreeInv, HandleSubscribeAck
    PROVE  WireInv'
<1> USE NoneAssumption DEF AgreeInv, RegisteredInv
<1> DEFINE a == Head(answers)
<1>0. /\ answers # <<>> /\ a.kind \in {"accepted", "refused"} /\ answers' = Tail(answers)
      /\ a \in AnswerRecs /\ a.of \in Handles
      /\ UNCHANGED <<handle, call, commands, served, losses>>
  <2>1. answers # <<>> /\ answers \in Seq(AnswerRecs)
    BY WireTypes DEF HandleSubscribeAck
  <2>2. a \in AnswerRecs
    BY <2>1
  <2> QED
    BY <2>1, <2>2 DEF HandleSubscribeAck, AnswerRecs
<1>1. Once' /\ Alternate' /\ Gone' = Gone /\ Waiting' = Waiting
  BY <1>0, OnceAnswerTaken DEF WireInv, Alternate, Gone, Waiting
<1>2. state # "TRANSIENT_FAILURE" /\ InOutage'
  <2>1. state # "TRANSIENT_FAILURE"
    BY <1>0 DEF WireInv, InOutage
  <2>2. state' \in {state, "READY"}
    BY DEF HandleSubscribeAck
  <2> QED
    BY <2>1, <2>2 DEF InOutage
<1>3. CASE subs # a.of
  <2>1. UNCHANGED <<state, subs, slot>>
    BY <1>3 DEF HandleSubscribeAck
  <2>2. InReady'
    <3>1. ASSUME state = "READY", subs # None, ~Waiting
          PROVE  Known(subs)'
      <4>1. Known(subs) /\ subs \in Handles /\ ~IsAck(a, subs)
        BY <1>3, <3>1 DEF WireInv, InReady, Shape, IsAck
      <4>2. PICK h \in Handles : h = subs
        BY <4>1
      <4>3. Known(h)'
        BY <1>0, <2>1, <4>1, <4>2, KnownTaken
      <4> QED
        BY <2>1, <4>2, <4>3 DEF Known, Asks
    <3> QED
      BY <1>1, <2>1, <3>1 DEF WireInv, InReady
  <2>3. InReconnect'
    <3>1. ASSUME state = "RECONNECTING"
          PROVE  commands = <<>> /\ answers' = <<>> /\ ~Waiting
      <4>1. commands = <<>> /\ Len(answers) = 1 /\ ~Waiting
        BY <1>0, <3>1 DEF WireInv, InReconnect
      <4> QED
        BY <1>0, <4>1, WireTypes, Taken
    <3> QED
      BY <1>0, <1>1, <2>1, <3>1 DEF InReconnect
  <2> QED
    BY <1>1, <1>2, <2>2, <2>3 DEF WireInv
<1>4. CASE subs = a.of
  <2> DEFINE h == a.of
  <2>0. IsAck(a, h) /\ h \in Handles /\ h # None
    BY <1>0 DEF IsAck
  <2>1. state' = "READY" /\ InReconnect'
    BY <1>2, <1>4 DEF HandleSubscribeAck, InReconnect, Shape
  <2>2. \/ a.kind = "accepted" /\ slot'[h] = "ACTIVE" /\ subs' = h
        \/ a.kind = "refused" /\ subs' = None
    BY <1>0, <1>4 DEF HandleSubscribeAck, Close, Shape
  <2>3. CASE Waiting
    <3>1. state = "READY" /\ Gone
      BY <1>2, <2>3 DEF WireInv, InReady, InReconnect, Shape
    <3> QED
      BY <1>1, <1>2, <2>1, <2>3, <3>1 DEF WireInv, InReady
  <2>4. CASE ~Waiting
    <3>1. /\ commands = <<>> /\ answers' = <<>>
          /\ a.kind = "accepted" => served = h
          /\ a.kind = "refused" => served = None
      <4>1. CASE state = "READY"
        <5>1. Known(h)
          BY <1>4, <2>0, <2>4, <4>1 DEF WireInv, InReady
        <5> QED
          BY <1>0, <2>0, <5>1, KnownIsLast DEF WireInv
      <4>2. CASE state = "RECONNECTING"
        <5>1. /\ commands = <<>> /\ Len(answers) = 1
              /\ \/ answers[1].kind = "accepted" /\ served = answers[1].of
                 \/ answers[1].kind = "refused" /\ served = None
          BY <1>0, <4>2 DEF WireInv, InReconnect
        <5>2. a = answers[1] /\ Tail(answers) = <<>>
          BY <1>0, <5>1, WireTypes, Taken
        <5> QED
          BY <1>0, <5>1, <5>2
      <4> QED
        BY <1>2, <4>1, <4>2 DEF Shape
    <3>2. CASE a.kind = "accepted"
      <4>1. Known(subs)'
        BY <1>0, <2>2, <3>1, <3>2 DEF Known
      <4> QED
        BY <1>1, <1>2, <2>0, <2>1, <2>2, <2>4, <3>2, <4>1 DEF WireInv, InReady
    <3>3. CASE a.kind = "refused"
      <4>1. subs' = None /\ Gone'
        BY <1>1, <2>2, <3>1, <3>3 DEF Gone
      <4> QED
        BY <1>1, <1>2, <2>1, <4>1 DEF WireInv, InReady
    <3> QED
      BY <1>0, <3>2, <3>3
  <2> QED
    BY <2>3, <2>4
<1> QED
  BY <1>3, <1>4

LEMMA AgreeUnsubscribed ==
    ASSUME AgreeInv, HandleUnsubscribed
    PROVE  WireInv'
<1> USE NoneAssumption DEF AgreeInv, RegisteredInv
<1>0. /\ answers # <<>> /\ Head(answers).kind \in {"unsubscribed", "kept"} /\ answers' = Tail(answers)
      /\ UNCHANGED <<state, subs, slot, handle, commands, served>>
  BY DEF HandleUnsubscribed
<1>1. Waiting' = Waiting
  BY DEF HandleUnsubscribed, Waiting, Resolve, Shape, Calls
<1>2. Once' /\ Alternate' /\ Gone' = Gone
  BY <1>0, OnceAnswerTaken DEF WireInv, Alternate, Gone
<1>3. state = "READY"
  <2>1. state # "TRANSIENT_FAILURE"
    BY <1>0 DEF WireInv, InOutage
  <2>2. ASSUME state = "RECONNECTING" PROVE FALSE
    <3>1. Len(answers) = 1 /\ answers[1].kind \in {"accepted", "refused"}
      BY <1>0, <2>2 DEF WireInv, InReconnect
    <3> QED
      BY <1>0, <3>1, WireTypes, Taken
  <2> QED
    BY <2>1, <2>2 DEF Shape
<1>4. ASSUME subs # None, ~Waiting
      PROVE  Known(subs)'
  <2>1. Known(subs) /\ subs \in Handles /\ ~IsAck(Head(answers), subs)
    BY <1>0, <1>3, <1>4 DEF WireInv, InReady, Shape, IsAck
  <2>2. PICK h \in Handles : h = subs
    BY <2>1
  <2>3. Known(h)'
    BY <1>0, <2>1, <2>2, KnownTaken
  <2> QED
    BY <1>0, <2>2, <2>3 DEF Known, Asks
<1>5. InReady' /\ InReconnect' /\ InOutage'
  BY <1>0, <1>1, <1>2, <1>3, <1>4 DEF WireInv, InReady, InReconnect, InOutage
<1> QED
  BY <1>2, <1>5 DEF WireInv

LEMMA AgreeServe ==
    ASSUME AgreeInv, HServe, ~crossed'
    PROVE  WireInv'
<1> USE NoneAssumption DEF AgreeInv, RegisteredInv
<1>0. /\ commands # <<>> /\ commands' = Tail(commands)
      /\ UNCHANGED <<state, subs, slot, handle, call>> /\ Serve
  BY DEF HServe, Serve
<1>1. Once' /\ Alternate' /\ Waiting' = Waiting /\ (Gone => Gone')
  BY <1>0, OnceServed, AlternateServed, GoneServed DEF WireInv, Waiting
<1>2. ASSUME subs # None, Known(subs)
      PROVE  Known(subs)'
  <2>1. PICK h \in Handles : h = subs
    BY <1>2 DEF Shape
  <2>2. Known(h)'
    BY <1>0, <1>2, <2>1, KnownServed DEF WireInv
  <2> QED
    BY <1>0, <2>1, <2>2 DEF Known, Asks
<1>3. InReady'
  BY <1>0, <1>1, <1>2 DEF WireInv, InReady
<1>4. InOutage'
  BY <1>0 DEF WireInv, InOutage
<1>5. InReconnect'
  <2> SUFFICES ASSUME state = "RECONNECTING"
               PROVE  InReconnect'
    BY <1>0 DEF InReconnect
  <2>1. Len(commands) = 1 /\ commands[1].kind = "subscribe" /\ answers = <<>> /\ ~Waiting
    BY <1>0 DEF WireInv, InReconnect
  <2>2. Head(commands) = commands[1] /\ commands' = <<>> /\ Head(commands) \in CommandRecs
    BY <1>0, <2>1, WireTypes, Taken
  <2>3. served = None /\ Head(commands).of \in Handles
    BY <1>0, <2>1, <2>2 DEF WireInv, Alternate, CommandRecs
  <2>4. PICK k \in {"accepted", "refused"} :
           /\ Answer(Head(commands), k)
           /\ k = "accepted" => served' = Head(commands).of
           /\ k = "refused" => served' = None
    BY <1>0, <2>1, <2>2, <2>3 DEF Serve
  <2> DEFINE a == [Head(commands) EXCEPT !.kind = k]
  <2>5. a \in AnswerRecs /\ a.kind = k /\ a.of = Head(commands).of
    <3>1. k \in {"accepted", "refused", "unsubscribed", "kept"}
      BY <2>4
    <3> QED
      BY <2>2, <3>1, AnswerTypes, Zenon
  <2>6. answers' = <<a>>
    BY <2>1, <2>4, <2>5 DEF Answer
  <2>7. Len(answers') = 1 /\ answers'[1] = a
    BY <2>6
  <2> QED
    BY <1>1, <2>1, <2>2, <2>4, <2>5, <2>7 DEF InReconnect
<1> QED
  BY <1>1, <1>3, <1>4, <1>5 DEF WireInv

LEMMA AgreeLoss ==
    ASSUME RegisteredInv, Loss
    PROVE  WireInv'
<1>1. /\ commands' = <<>> /\ answers' = <<>> /\ served' = None /\ state' = "TRANSIENT_FAILURE"
  BY DEF Loss
<1>2. Len(commands') = 0 /\ Len(answers') = 0
  BY <1>1
<1>3. \A h \in Handles : call'[h].pc # "waiting"
  BY DEF Loss, RegisteredInv, Shape, Calls
<1>4. Once'
  BY <1>2 DEF Once
<1>5. Alternate' /\ InReady' /\ InReconnect' /\ InOutage'
  BY <1>1, <1>2, <1>3 DEF Alternate, InReady, InReconnect, InOutage
<1> QED
  BY <1>4, <1>5 DEF WireInv

LEMMA AgreeReconnect ==
    ASSUME AgreeInv, Reconnect
    PROVE  WireInv'
<1> USE NoneAssumption DEF AgreeInv, RegisteredInv
<1>0. /\ commands = <<>> /\ answers = <<>> /\ served = None
      /\ UNCHANGED <<subs, handle, call, answers, served>>
  BY DEF Reconnect, WireInv, InOutage
<1>1. ~Waiting /\ ~Waiting'
  BY <1>0 DEF Reconnect, WireInv, InOutage, Waiting
<1>2. Gone
  BY <1>0 DEF Gone
<1>3. CASE subs = None
  <2>1. state' = "READY" /\ UNCHANGED commands
    BY <1>3 DEF Reconnect
  <2>2. Once' /\ Alternate' /\ Gone'
    BY <1>0, <1>2, <2>1, OnceSame DEF WireInv, Alternate, Gone
  <2> QED
    BY <1>0, <1>3, <2>1, <2>2 DEF WireInv, InReady, InReconnect, InOutage
<1>4. CASE subs # None
  <2> DEFINE e == Asking(subs)
  <2>1. state' = "RECONNECTING" /\ commands' = Append(commands, e)
    BY <1>4 DEF Reconnect
  <2>2. subs \in Handles /\ handle[subs] # "none" /\ e \in CommandRecs
    BY <1>4, WireTypes DEF Shape, Fresh, RegisteredIsOpen
  <2>3. Len(commands) = 0 /\ Len(answers) = 0
    BY <1>0
  <2>4. Once'
    BY <1>0, <2>1, <2>2, <2>3, OnceSubscribe DEF WireInv
  <2>5. Alternate'
    BY <1>0, <1>2, <2>1, <2>2, AlternateAdded DEF WireInv
  <2>6. Len(commands') = 1 /\ commands'[1] = e
    BY <1>0, <2>1
  <2> QED
    <3>1. commands'[1].kind = "subscribe" /\ answers' = <<>>
      BY <1>0, <2>6 DEF Asking
    <3> HIDE DEF e
    <3>2. InReady' /\ InReconnect' /\ InOutage'
      BY <1>1, <2>1, <2>6, <3>1 DEF InReady, InReconnect, InOutage
    <3> QED
      BY <2>4, <2>5, <3>2 DEF WireInv
<1> QED
  BY <1>3, <1>4

\* The wire's invariant holds while the connection is not crossed.
LEMMA AgreeInvariant == HSpec => [](crossed \/ WireInv)
<1>1. HInit => WireInv
  <2> SUFFICES ASSUME Init
               PROVE  WireInv
    BY DEF HInit
  <2>1. commands = <<>> /\ answers = <<>> /\ served = None /\ state = "READY" /\ subs = None
    BY DEF Init
  <2>2. Len(commands) = 0 /\ Len(answers) = 0
    BY <2>1
  <2>3. Once
    BY <2>2 DEF Once
  <2> QED
    BY <2>1, <2>2, <2>3 DEF WireInv, Alternate, InReady, InReconnect, InOutage, Gone
<1>2. RegisteredInv /\ WireShape /\ HandlesInv /\ (crossed \/ WireInv) /\ [HNext]_hvars
      => (crossed \/ WireInv)'
  <2> SUFFICES ASSUME RegisteredInv, WireShape, HandlesInv, crossed \/ WireInv,
                      [HNext]_hvars, ~crossed'
               PROVE  WireInv'
    OBVIOUS
  <2>1. CASE HLoss
    BY <2>1, AgreeLoss DEF HLoss
  <2>2. ASSUME ~HLoss
        PROVE  AgreeInv
    BY <2>2 DEF AgreeInv, HNext, HSubscribe, HUnsubscribe, HDrop, HServe, hist, hvars
  <2>3. CASE UNCHANGED hvars /\ ~HLoss
    <3>1. Waiting' = Waiting
      BY <2>3 DEF hvars, vars, Waiting
    <3> QED
      BY <2>2, <2>3, <3>1, AgreeSame DEF hvars, vars, AgreeInv, RegisteredInv
  <2>4. ASSUME NEW h \in Handles, ~HLoss,
               \/ HSubscribe(h) \/ HUnsubscribe(h) \/ HDrop(h)
               \/ RunScheduled(h) \/ OnTimeout(h) \/ Finish(h)
        PROVE  WireInv'
    BY <2>2, <2>4, AgreeSubscribe, AgreeCalls DEF HUnsubscribe, HDrop
  <2>5. CASE ~HLoss /\ (HServe \/ HandleSubscribeAck \/ HandleUnsubscribed \/ Reconnect)
    BY <2>2, <2>5, AgreeAck, AgreeUnsubscribed, AgreeServe, AgreeReconnect
  <2> QED
    BY <2>1, <2>3, <2>4, <2>5 DEF HNext
<1>3. TypeOK => WireShape
  BY ShapeIsType
<1> QED
  BY <1>1, <1>2, <1>3, HistoryWatches, TypeCorrect, RegistryInvariant, HandlesInvariant, PTL DEF HSpec

\* For any application, any number of handles, calls and losses: on a connection
\* that was not crossed, the robot serves exactly the ACTIVE slot once nothing
\* is under way in READY.
THEOREM RobotIsOfOneMind == HSpec => []RobotAgrees
<1>1. crossed \/ WireInv => RobotAgrees
  <2> SUFFICES ASSUME WireInv, state = "READY", Settled
               PROVE  /\ served # None => subs = served
                      /\ subs # None /\ slot[subs] = "ACTIVE" => served = subs
    BY DEF RobotAgrees
  <2>1. commands = <<>> /\ answers = <<>> /\ ~Waiting
    BY DEF Settled, UnderWay, Waiting
  <2> QED
    BY <2>1 DEF WireInv, InReady, Gone, Known
<1> QED
  BY <1>1, AgreeInvariant, PTL
=============================================================================

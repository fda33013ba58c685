----------------------- MODULE SubscriptionStream_proof -----------------------
(***************************************************************************)
(* Proofs about SubscriptionStream, for queues, histories, frames and      *)
(* connections of any number and every configuration: its types, that a    *)
(* CLOSED slot is silent, and that it implements EventStream.              *)
(*                                                                         *)
(* The refinement needs to know three things that the types do not say     *)
(* (StreamInv): which of the two callback modes uses what, that a frame    *)
(* about to be handed over belongs to a running stream, and that the       *)
(* number a resume was asked for follows the position, which nothing moves *)
(* while the request is under way.                                         *)
(***************************************************************************)
EXTENDS SubscriptionStream, TLAPS

\* Of INLINE and DISPATCHED each leaves alone what the other uses.
Modes ==
    /\ conf.inline => slot.queue = <<>> /\ worker = "gone"
    /\ ~conf.inline => reader.pc = "free"

\* A frame on its way to the callback comes from a slot that is ACTIVE or is
\* being drained.
Handing == reader.pc = "hand" => slot.state = "ACTIVE" \/ reader.draining

\* While a request is under way the reader waits, and the number it asked for
\* is the one after the position.
Asking ==
    slot.inflight =>
        /\ reader = Idle /\ slot.state \in {"PENDING", "CLOSED"}
        /\ slot.expected # 0 => slot.lastSeq # 0 /\ slot.expected = slot.lastSeq + 1

StreamInv == Modes /\ Handing /\ Asking

-----------------------------------------------------------------------------
(* The types.                                                              *)

SlotRecs ==
    [state : {"PENDING", "ACTIVE", "PAUSED", "CLOSED"}, lastSeq : Nat,
     dropCount : Nat, pendingBuffer : Seq(Nat), queue : Seq(Frames),
     inflight : BOOLEAN, freshRetryDone : BOOLEAN, expected : Nat,
     everActive : BOOLEAN, isResume : BOOLEAN]
ReaderRecs ==
    [pc : {"free", "hand", "callback"}, frame : Frames,
     draining : BOOLEAN, next : Nat, reconnect : BOOLEAN]
RobotRecs ==
    [head : 0..MaxSeq, on : BOOLEAN, cursor : Nat,
     request : Nat \cup {NoRequest}, answer : Acks \cup {NoAck}]

SlotOK(s) == s \in SlotRecs /\ Len(s.pendingBuffer) <= QueueSize /\ Len(s.queue) <= QueueSize
LinkOK ==
    /\ conf \in Configs
    /\ state \in {"READY", "RECONNECTING", "TRANSIENT_FAILURE", "FATAL"}
    /\ up \in BOOLEAN /\ conns \in 0..MaxConns /\ pendingSubs \in 0..1
    /\ worker \in {"waiting", "callback", "gone"}
CountsOK == epoch \in Nat /\ handed \in Frames /\ lost \in Nat /\ gaps \in Nat

LEMMA TypeParts ==
  TypeOK <=> /\ LinkOK /\ SlotOK(slot) /\ reader \in ReaderRecs /\ robot \in RobotRecs
             /\ chan \in Seq(Pushes \cup Acks) /\ CountsOK
BY DEF TypeOK, LinkOK, SlotOK, CountsOK, SlotRecs, ReaderRecs, RobotRecs

LEMMA ConfIs == ASSUME conf \in Configs
                PROVE  /\ conf.event \in BOOLEAN /\ conf.numbered \in BOOLEAN /\ conf.inline \in BOOLEAN
                       /\ conf.newest \in BOOLEAN /\ conf.replay \in BOOLEAN
BY ConfigsAssumption

\* Sequences that grow at the end and shrink at the front.
LEMMA AppendTyped ==
  ASSUME NEW S, NEW s \in Seq(S), NEW e \in S
  PROVE  /\ Append(s, e) \in Seq(S) /\ Len(s) \in Nat /\ Len(Append(s, e)) = Len(s) + 1
         /\ s # <<>> => Append(Tail(s), e) \in Seq(S) /\ Len(Append(Tail(s), e)) = Len(s)
OBVIOUS

LEMMA TailTyped ==
  ASSUME NEW S, NEW s \in Seq(S), s # <<>>
  PROVE  Tail(s) \in Seq(S) /\ Len(Tail(s)) \in Nat /\ Len(Tail(s)) < Len(s) /\ Head(s) \in S
OBVIOUS

LEMMA FullIsNotEmpty ==
  ASSUME NEW S, NEW s \in Seq(S), Len(s) = QueueSize
  PROVE  s # <<>>
BY SizesAssumption

LEMMA BufferedTyped ==
  ASSUME NEW s, SlotOK(s), NEW n \in Nat
  PROVE  SlotOK(Buffered(s, n))
<1>1. /\ s \in SlotRecs /\ s.pendingBuffer \in Seq(Nat) /\ s.dropCount \in Nat /\ s.dropCount + 1 \in Nat
      /\ Len(s.pendingBuffer) \in Nat /\ Len(s.pendingBuffer) <= QueueSize /\ Len(s.queue) <= QueueSize
  BY DEF SlotOK, SlotRecs
<1>2. CASE Len(s.pendingBuffer) < QueueSize
  <2>1. /\ Append(s.pendingBuffer, n) \in Seq(Nat) /\ Len(Append(s.pendingBuffer, n)) <= QueueSize
    BY <1>1, <1>2, AppendTyped, SizesAssumption
  <2> QED
    BY <1>1, <1>2, <2>1 DEF Buffered, SlotOK, SlotRecs
<1>3. CASE ~(Len(s.pendingBuffer) < QueueSize)
  <2>1. /\ Append(Tail(s.pendingBuffer), n) \in Seq(Nat)
        /\ Len(Append(Tail(s.pendingBuffer), n)) <= QueueSize
    BY <1>1, <1>3, AppendTyped, FullIsNotEmpty, SizesAssumption
  <2> QED
    BY <1>1, <1>3, <2>1 DEF Buffered, SlotOK, SlotRecs
<1> QED
  BY <1>2, <1>3

LEMMA DroppedTyped ==
  ASSUME NEW s, SlotOK(s)
  PROVE  SlotOK([s EXCEPT !.dropCount = @ + 1])
<1> DEFINE d == [s EXCEPT !.dropCount = s.dropCount + 1]
<1>1. s \in SlotRecs /\ s.dropCount + 1 \in Nat
  BY DEF SlotOK, SlotRecs
<1>2. d \in SlotRecs /\ d.pendingBuffer = s.pendingBuffer /\ d.queue = s.queue
  BY <1>1 DEF SlotRecs
<1> QED
  BY <1>2 DEF SlotOK

LEMMA AskedTyped ==
  ASSUME NEW s, SlotOK(s), NEW since \in Nat, NEW again \in BOOLEAN
  PROVE  SlotOK(Asked(s, since, again))
BY DEF SlotOK, SlotRecs, Asked

LEMMA PausedTyped ==
  ASSUME NEW s, SlotOK(s)
  PROVE  SlotOK(Paused(s))
<1>1. CASE s.state = "CLOSED"
  BY <1>1 DEF Paused
<1>2. CASE s.state # "CLOSED"
  <2>0. Paused(s) = [s EXCEPT !.state = "PAUSED", !.pendingBuffer = <<>>, !.inflight = FALSE]
    BY <1>2 DEF Paused
  <2>1. Paused(s) \in SlotRecs
    <3>1. <<>> \in Seq(Nat)
      OBVIOUS
    <3> QED
      BY <2>0, <3>1 DEF SlotOK, SlotRecs
  <2>2. Paused(s).pendingBuffer = <<>> /\ Paused(s).queue = s.queue /\ Len(s.queue) <= QueueSize
    BY <1>2 DEF SlotOK, SlotRecs, Paused
  <2>3. Len(<<>>) <= QueueSize
    BY SizesAssumption
  <2> QED
    BY <2>1, <2>2, <2>3 DEF SlotOK
<1> QED
  BY <1>1, <1>2

LEMMA SinceTyped ==
  ASSUME NEW s, SlotOK(s)
  PROVE  Since(s) \in Nat
BY DEF SlotOK, SlotRecs, Since

LEMMA GapTyped ==
  ASSUME NEW s, SlotOK(s), NEW n \in Nat, ~Repeated(s, n)
  PROVE  Gap(s, n) \in Nat
BY DEF SlotOK, SlotRecs, Repeated, Gap

\* A frame on its way to the callback.
LEMMA PlaceTyped ==
  ASSUME TypeOK, NEW s, SlotOK(s), NEW n \in Nat, NEW then \in ReaderRecs, ~Repeated(s, n), Place(s, n, then)
  PROVE  SlotOK(slot') /\ reader' \in ReaderRecs /\ lost' \in Nat
<1> DEFINE f == [epoch |-> epoch, seq |-> IF conf.event THEN n ELSE 0]
           m == [s EXCEPT !.lastSeq = IF Numbered(n) THEN n ELSE @]
<1>1. f \in Frames /\ lost \in Nat /\ Gap(s, n) \in Nat
  BY GapTyped, TypeParts DEF CountsOK, Frames
<1>2. m \in SlotRecs /\ m.pendingBuffer = s.pendingBuffer /\ m.queue = s.queue /\ m.dropCount = s.dropCount
  BY DEF SlotOK, SlotRecs
<1>3. /\ s.queue \in Seq(Frames) /\ Len(s.queue) \in Nat /\ Len(s.queue) <= QueueSize
      /\ s.dropCount \in Nat /\ Len(s.pendingBuffer) <= QueueSize
  BY DEF SlotOK, SlotRecs
<1> HIDE DEF f, m
<1>4. CASE slot' = m /\ lost' = lost + Gap(s, n) /\ reader' = [then EXCEPT !.pc = "hand", !.frame = f]
  <2>1. reader' \in ReaderRecs
    BY <1>1, <1>4 DEF ReaderRecs
  <2>2. SlotOK(slot')
    BY <1>2, <1>3, <1>4 DEF SlotOK
  <2> QED
    BY <1>1, <1>4, <2>1, <2>2
<1>5. CASE /\ Len(s.queue) < QueueSize /\ slot' = [m EXCEPT !.queue = Append(@, f)]
           /\ reader' = then /\ lost' = lost + Gap(s, n)
  <2>1. Append(s.queue, f) \in Seq(Frames) /\ Len(Append(s.queue, f)) <= QueueSize
    BY <1>1, <1>3, <1>5, AppendTyped, SizesAssumption
  <2>2. slot' \in SlotRecs /\ slot'.queue = Append(s.queue, f) /\ slot'.pendingBuffer = s.pendingBuffer
    BY <1>2, <1>5, <2>1 DEF SlotRecs
  <2> QED
    BY <1>1, <1>3, <1>5, <2>1, <2>2 DEF SlotOK
<1>6. CASE /\ Len(s.queue) = QueueSize
           /\ slot' = [m EXCEPT !.dropCount = @ + 1,
                                !.queue = IF conf.newest THEN @ ELSE Append(Tail(@), f)]
           /\ reader' = then /\ lost' = lost + Gap(s, n) + 1
  <2>1. Append(Tail(s.queue), f) \in Seq(Frames) /\ Len(Append(Tail(s.queue), f)) <= QueueSize
    BY <1>1, <1>3, <1>6, AppendTyped, FullIsNotEmpty, SizesAssumption
  <2>2. slot' \in SlotRecs
    <3>1. CASE conf.newest
      <4>1. slot' = [m EXCEPT !.dropCount = s.dropCount + 1]
        BY <1>2, <1>6, <3>1 DEF SlotRecs
      <4>2. s.dropCount + 1 \in Nat
        BY <1>3
      <4> QED
        BY <1>2, <4>1, <4>2 DEF SlotRecs
    <3>2. CASE ~conf.newest
      <4>1. slot' = [m EXCEPT !.dropCount = s.dropCount + 1, !.queue = Append(Tail(s.queue), f)]
        BY <1>2, <1>6, <3>2
      <4>2. s.dropCount + 1 \in Nat
        BY <1>3
      <4> QED
        BY <1>2, <2>1, <4>1, <4>2 DEF SlotRecs
    <3> QED
      BY <3>1, <3>2
  <2>3. Len(slot'.pendingBuffer) <= QueueSize /\ Len(slot'.queue) <= QueueSize
    BY <1>2, <1>3, <1>6, <2>1 DEF SlotRecs
  <2>4. lost' \in Nat
    BY <1>1, <1>6
  <2> QED
    BY <1>6, <2>2, <2>3, <2>4 DEF SlotOK
<1> QED
  BY <1>4, <1>5, <1>6 DEF Place, f, m

LEMMA DeliverTyped ==
  ASSUME TypeOK, NEW s, SlotOK(s), NEW n \in Nat, NEW then \in ReaderRecs, Deliver(s, n, then)
  PROVE  SlotOK(slot') /\ reader' \in ReaderRecs /\ lost' \in Nat /\ gaps' \in Nat
<1>1. lost \in Nat /\ gaps \in Nat
  BY TypeParts DEF CountsOK
<1>2. CASE Repeated(s, n)
  BY <1>1, <1>2 DEF Deliver
<1>3. CASE ~Repeated(s, n)
  BY <1>1, <1>3, GapTyped, PlaceTyped DEF Deliver
<1> QED
  BY <1>2, <1>3

LEMMA MessagesTyped ==
  ASSUME TypeOK, chan # <<>>
  PROVE  /\ Tail(chan) \in Seq(Pushes \cup Acks)
         /\ Head(chan).kind = "push" => Head(chan).seq \in Nat
         /\ Head(chan).kind = "ack" => Head(chan).result \in Results /\ Head(chan).next \in Nat
<1>1. chan \in Seq(Pushes \cup Acks)
  BY TypeParts
<1>2. Head(chan) \in Pushes \cup Acks /\ Tail(chan) \in Seq(Pushes \cup Acks)
  BY <1>1, TailTyped
<1>3. \A p \in Pushes : p.kind = "push" /\ p.seq \in Nat
  BY DEF Pushes
<1>4. \A a \in Acks : a.kind = "ack" /\ a.result \in Results /\ a.next \in Nat
  BY DEF Acks
<1> QED
  BY <1>2, <1>3, <1>4

LEMMA IdleTyped == Idle \in ReaderRecs
BY DEF Idle, ReaderRecs, NoFrame, Frames

\* The robot's side, whatever it does on a loss or when asked.
LEMMA RobotTyped ==
  ASSUME robot \in RobotRecs
  PROVE  /\ RobotLoses => robot' \in RobotRecs
         /\ \A n \in Nat : [robot EXCEPT !.request = n] \in RobotRecs
         /\ [robot EXCEPT !.on = FALSE] \in RobotRecs
<1>1. \A n \in Nat : [robot EXCEPT !.request = n] \in RobotRecs
  BY DEF RobotRecs
<1>2. [robot EXCEPT !.on = FALSE] \in RobotRecs
  BY DEF RobotRecs
<1>3. ASSUME RobotLoses
      PROVE  robot' \in RobotRecs
  <2> DEFINE g == [robot EXCEPT !.on = FALSE, !.request = NoRequest, !.answer = NoAck]
  <2>1. g \in RobotRecs
    BY DEF RobotRecs
  <2> HIDE DEF g
  <2>2. 0 \in 0..MaxSeq
    BY BoundsAssumption
  <2>3. [g EXCEPT !.head = 0, !.cursor = 1] \in RobotRecs
    BY <2>1, <2>2 DEF RobotRecs
  <2>4. robot' \in {g, [g EXCEPT !.head = 0, !.cursor = 1]}
    BY <1>3 DEF RobotLoses, g
  <2> QED
    BY <2>1, <2>3, <2>4
<1> QED
  BY <1>1, <1>2, <1>3

\* A loss of the connection keeps the types.
LEMMA TransportCloseTyped ==
  ASSUME TypeOK, NEW s, SlotOK(s), TransportClose(s), conf' = conf
  PROVE  SlotOK(slot') /\ LinkOK' /\ robot' \in RobotRecs
<1>1. SlotOK(slot') /\ robot' \in RobotRecs
  BY TypeParts, PausedTyped, RobotTyped DEF TransportClose
<1>2. LinkOK'
  BY TypeParts DEF TransportClose, LinkOK
<1> QED
  BY <1>1, <1>2

LEMMA FinishTyped ==
  ASSUME LinkOK, NEW r \in BOOLEAN, FinishReconnect(r)
  PROVE  pendingSubs' \in 0..1 /\ state' \in {"READY", "RECONNECTING", "TRANSIENT_FAILURE", "FATAL"}
BY DEF LinkOK, FinishReconnect

LEMMA AcceptedTyped ==
  ASSUME TypeOK, NEW s, SlotOK(s), NEW K \in Nat, Accepted(s, K)
  PROVE  SlotOK(slot') /\ reader' \in ReaderRecs /\ CountsOK'
<1> DEFINE fresh == IF K >= 1 THEN K - 1 ELSE 0
           jump == IF conf.event /\ s.expected # 0 /\ K > s.expected THEN K - s.expected ELSE 0
           same == conf.event /\ s.expected # 0 /\ K >= s.expected
           l == CASE ~conf.event -> 0 [] same /\ jump = 0 -> s.lastSeq [] OTHER -> fresh
<1>1. s \in SlotRecs /\ s.expected \in Nat /\ s.lastSeq \in Nat
  BY DEF SlotOK, SlotRecs
<1>2. fresh \in Nat /\ jump \in Nat
  BY <1>1
<1>3. l \in Nat
  BY <1>1, <1>2
<1>4. slot' = [s EXCEPT !.state = "ACTIVE", !.lastSeq = l]
  BY <1>1 DEF Accepted
<1>5. epoch' \in Nat /\ gaps' \in Nat /\ lost' \in Nat /\ handed' \in Frames
  BY <1>2, TypeParts DEF Accepted, CountsOK
<1> HIDE DEF l, fresh, jump, same
<1>6. SlotOK(slot')
  BY <1>1, <1>3, <1>4 DEF SlotOK, SlotRecs
<1>7. reader' \in ReaderRecs
  <2>1. reader' = [Idle EXCEPT !.draining = TRUE, !.next = IF conf.event THEN K ELSE 0,
                               !.reconnect = (state = "RECONNECTING")]
    BY DEF Accepted
  <2>2. (IF conf.event THEN K ELSE 0) \in Nat
    OBVIOUS
  <2> QED
    BY <2>1, <2>2, IdleTyped DEF ReaderRecs
<1> QED
  BY <1>5, <1>6, <1>7 DEF CountsOK

LEMMA RefusedTyped ==
  ASSUME TypeOK, NEW s, SlotOK(s), NEW r \in Results, Refused(s, r), conf' = conf
  PROVE  SlotOK(slot') /\ LinkOK' /\ robot' \in RobotRecs
<1>0. LinkOK /\ robot \in RobotRecs /\ s \in SlotRecs
  BY TypeParts DEF SlotOK
<1>1. CASE /\ slot' = Asked([s EXCEPT !.lastSeq = 0, !.freshRetryDone = TRUE], 0, state = "RECONNECTING")
           /\ robot' = [robot EXCEPT !.request = 0]
           /\ UNCHANGED <<link, worker>>
  <2>1. SlotOK([s EXCEPT !.lastSeq = 0, !.freshRetryDone = TRUE])
    BY <1>0 DEF SlotOK, SlotRecs
  <2>2. SlotOK(slot')
    BY <1>1, <2>1, AskedTyped
  <2>3. LinkOK'
    BY <1>0, <1>1 DEF LinkOK, link
  <2> QED
    BY <1>0, <1>1, <2>2, <2>3, RobotTyped
<1>c. CloseSlot(s) => SlotOK(slot') /\ worker' \in {"waiting", "callback", "gone"}
  BY <1>0 DEF CloseSlot, SlotOK, SlotRecs
<1>2. CASE CloseSlot(s) /\ FinishReconnect(state = "RECONNECTING") /\ UNCHANGED <<up, conns, robot>>
  BY <1>0, <1>2, <1>c, FinishTyped DEF LinkOK
<1>3. CASE CloseSlot(s) /\ UNCHANGED <<link, robot>>
  BY <1>0, <1>3, <1>c DEF LinkOK, link
<1>4. CASE TransportClose(s)
  BY <1>4, TransportCloseTyped
<1>5. CASE CloseSlot(s) /\ state' = "FATAL" /\ up' = FALSE /\ RobotLoses /\ UNCHANGED <<conns, pendingSubs>>
  BY <1>0, <1>5, <1>c, RobotTyped DEF LinkOK
<1> QED
  BY <1>1, <1>2, <1>3, <1>4, <1>5 DEF Refused

\* The drain takes the oldest buffered frame.
LEMMA DrainTyped ==
  ASSUME TypeOK, Drain
  PROVE  LET n == Head(slot.pendingBuffer)
             s == [slot EXCEPT !.pendingBuffer = Tail(@)]
         IN  n \in Nat /\ SlotOK(s) /\ s \in SlotRecs
<1> DEFINE n == Head(slot.pendingBuffer)
           s == [slot EXCEPT !.pendingBuffer = Tail(@)]
<1>0. slot \in SlotRecs /\ SlotOK(slot)
  BY TypeParts DEF SlotOK
<1>1. n \in Nat /\ Tail(slot.pendingBuffer) \in Seq(Nat) /\ Len(Tail(slot.pendingBuffer)) <= QueueSize
  <2>1. slot.pendingBuffer \in Seq(Nat) /\ slot.pendingBuffer # <<>> /\ Len(slot.pendingBuffer) <= QueueSize
    BY <1>0 DEF Drain, SlotOK, SlotRecs
  <2> QED
    BY <2>1, TailTyped, SizesAssumption
<1>2. SlotOK(s) /\ s \in SlotRecs
  BY <1>0, <1>1 DEF SlotOK, SlotRecs
<1> QED
  BY <1>1, <1>2

LEMMA TypesStay == TypeOK /\ [Next]_vars => TypeOK'
<1> SUFFICES ASSUME TypeOK, [Next]_vars
             PROVE  TypeOK'
  OBVIOUS
<1> DEFINE Msgs == Seq(Pushes \cup Acks)
<1>0. LinkOK /\ SlotOK(slot) /\ reader \in ReaderRecs /\ robot \in RobotRecs /\ chan \in Msgs /\ CountsOK
  BY TypeParts
<1>p. LinkOK' /\ SlotOK(slot') /\ reader' \in ReaderRecs /\ robot' \in RobotRecs /\ chan' \in Msgs /\ CountsOK'
        => TypeOK'
  BY DEF TypeOK, LinkOK, SlotOK, CountsOK, SlotRecs, ReaderRecs, RobotRecs
<1>s. slot \in SlotRecs
  BY <1>0 DEF SlotOK
<1>1. CASE ReadPush
  <2> DEFINE n == Head(chan).seq
  <2>1. chan' \in Msgs /\ n \in Nat
    BY <1>1, MessagesTyped DEF ReadPush
  <2>2. LinkOK' /\ robot' \in RobotRecs /\ epoch' = epoch /\ handed' = handed
    BY <1>0, <1>1 DEF ReadPush, LinkOK, link
  <2>3. SlotOK(slot') /\ reader' \in ReaderRecs /\ lost' \in Nat /\ gaps' \in Nat
    <3>1. CASE slot' = slot /\ UNCHANGED <<reader, lost, gaps>>
      BY <1>0, <3>1 DEF CountsOK
    <3>2. CASE slot' = Buffered(slot, n) /\ UNCHANGED <<reader, lost, gaps>>
      BY <1>0, <2>1, <3>2, BufferedTyped DEF CountsOK
    <3>3. CASE slot' = [slot EXCEPT !.dropCount = @ + 1] /\ UNCHANGED <<reader, lost, gaps>>
      <4>1. SlotOK(slot')
        BY <1>0, <3>3, DroppedTyped
      <4> QED
        BY <1>0, <3>3, <4>1 DEF CountsOK
    <3>4. CASE Deliver(slot, n, Idle)
      BY <1>0, <2>1, <3>4, DeliverTyped, IdleTyped
    <3> QED
      BY <1>1, <3>1, <3>2, <3>3, <3>4 DEF ReadPush
  <2>4. CountsOK'
    BY <1>0, <2>2, <2>3 DEF CountsOK
  <2> QED
    BY <1>p, <2>1, <2>2, <2>3, <2>4
<1>2. CASE ReadAck
  <2> DEFINE a == Head(chan)
             s == [slot EXCEPT !.inflight = FALSE]
  <2>1. chan' \in Msgs /\ a.result \in Results /\ a.next \in Nat /\ conf' = conf
    BY <1>2, MessagesTyped DEF ReadAck
  <2>2. SlotOK(s)
    BY <1>s, <1>0 DEF SlotOK, SlotRecs
  <2> HIDE DEF s
  <2>3. CASE UNCHANGED <<link, slot, reader, worker, robot, history>>
    BY <1>0, <1>p, <2>1, <2>3 DEF LinkOK, CountsOK, link, history
  <2>4. CASE Accepted(s, a.next)
    <3>1. SlotOK(slot') /\ reader' \in ReaderRecs /\ CountsOK'
      BY <2>1, <2>2, <2>4, AcceptedTyped
    <3>2. LinkOK' /\ robot' \in RobotRecs
      BY <1>0, <2>1, <2>4 DEF Accepted, LinkOK, link
    <3> QED
      BY <1>p, <2>1, <3>1, <3>2
  <2>5. CASE Refused(s, a.result) /\ UNCHANGED <<reader, history>>
    <3>1. SlotOK(slot') /\ LinkOK' /\ robot' \in RobotRecs
      BY <2>1, <2>2, <2>5, RefusedTyped
    <3>2. CountsOK' /\ reader' \in ReaderRecs
      BY <1>0, <2>5 DEF CountsOK, history
    <3> QED
      BY <1>p, <2>1, <3>1, <3>2
  <2> QED
    BY <1>2, <2>3, <2>4, <2>5 DEF ReadAck, s
<1>3. CASE Drain
  <2> DEFINE n == Head(slot.pendingBuffer)
             s == [slot EXCEPT !.pendingBuffer = Tail(@)]
  <2>2. n \in Nat /\ SlotOK(s) /\ s \in SlotRecs
    BY <1>3, DrainTyped
  <2> HIDE DEF s
  <2>3. LinkOK' /\ robot' \in RobotRecs /\ epoch' = epoch /\ handed' = handed /\ chan' \in Msgs
    BY <1>0, <1>3 DEF Drain, LinkOK, link
  <2>4. SlotOK(slot') /\ reader' \in ReaderRecs /\ lost' \in Nat /\ gaps' \in Nat
    <3>1. CASE slot' = [s EXCEPT !.dropCount = @ + 1] /\ UNCHANGED <<reader, lost, gaps>>
      <4>1. SlotOK(slot')
        BY <2>2, <3>1, DroppedTyped
      <4> QED
        BY <1>0, <3>1, <4>1 DEF CountsOK
    <3>2. CASE Deliver(s, n, reader)
      BY <1>0, <2>2, <3>2, DeliverTyped
    <3> QED
      BY <1>3, <3>1, <3>2 DEF Drain, s
  <2>5. CountsOK'
    BY <1>0, <2>3, <2>4 DEF CountsOK
  <2> QED
    BY <1>p, <2>3, <2>4, <2>5
<1>4. CASE Drained
  <2>1. SlotOK(slot')
    BY <1>s, <1>0, <1>4 DEF Drained, SlotOK, SlotRecs
  <2>2. reader.reconnect \in BOOLEAN
    BY <1>0 DEF ReaderRecs
  <2>3. LinkOK'
    BY <1>0, <1>4, <2>2, FinishTyped DEF Drained, LinkOK
  <2>4. reader' \in ReaderRecs /\ robot' \in RobotRecs /\ chan' \in Msgs /\ CountsOK'
    BY <1>0, <1>4, IdleTyped DEF Drained, history, CountsOK
  <2> QED
    BY <1>p, <2>1, <2>3, <2>4
<1>5. CASE CallInline
  <2>1. reader' \in ReaderRecs /\ reader.frame \in Frames
    BY <1>0, <1>5 DEF CallInline, ReaderRecs, NoFrame, Frames
  <2>2. CountsOK'
    BY <1>0, <1>5, <2>1 DEF CallInline, CountsOK
  <2> QED
    BY <1>0, <1>5, <1>p, <2>1, <2>2 DEF CallInline, link, LinkOK
<1>6. CASE InlineReturns
  <2>1. reader' \in ReaderRecs
    BY <1>0, <1>6 DEF InlineReturns, ReaderRecs
  <2> QED
    BY <1>0, <1>6, <1>p, <2>1 DEF InlineReturns, link, LinkOK, history, CountsOK
<1>7. CASE WorkerTakes
  <2>1. slot.queue \in Seq(Frames) /\ slot.queue # <<>> /\ Len(slot.queue) <= QueueSize
    BY <1>s, <1>0, <1>7 DEF WorkerTakes, SlotOK, SlotRecs
  <2>2. Tail(slot.queue) \in Seq(Frames) /\ Head(slot.queue) \in Frames /\ Len(Tail(slot.queue)) <= QueueSize
    BY <2>1, TailTyped, SizesAssumption
  <2>3. SlotOK(slot')
    BY <1>s, <1>0, <1>7, <2>2 DEF WorkerTakes, SlotOK, SlotRecs
  <2>4. CountsOK'
    BY <1>0, <1>7, <2>2 DEF WorkerTakes, CountsOK
  <2> QED
    BY <1>0, <1>7, <1>p, <2>3, <2>4 DEF WorkerTakes, link, LinkOK
<1>8. CASE WorkerReturns
  BY <1>0, <1>8, <1>p DEF WorkerReturns, link, LinkOK, history, CountsOK
<1>9. CASE Loss
  <2>1. SlotOK(slot') /\ LinkOK' /\ robot' \in RobotRecs
    BY <1>0, <1>9, TransportCloseTyped DEF Loss
  <2>2. chan' \in Msgs
    <3>1. PICK n \in 0..Len(chan) : chan' = SubSeq(chan, 1, n)
      BY <1>9 DEF Loss
    <3> QED
      BY <1>0, <3>1
  <2> QED
    BY <1>0, <1>9, <1>p, <2>1, <2>2 DEF Loss, history, CountsOK
<1>10. CASE Reconnect
  <2>1. SlotOK(slot') /\ robot' \in RobotRecs
    <3>1. CASE slot' = slot /\ robot' = robot
      BY <1>0, <3>1
    <3>2. CASE /\ slot' = Asked([slot EXCEPT !.freshRetryDone = FALSE], Since(slot), TRUE)
               /\ robot' = [robot EXCEPT !.request = Since(slot)]
      <4>1. SlotOK([slot EXCEPT !.freshRetryDone = FALSE]) /\ Since(slot) \in Nat
        BY <1>s, <1>0, SinceTyped DEF SlotOK, SlotRecs
      <4> QED
        BY <1>0, <3>2, <4>1, AskedTyped, RobotTyped
    <3> QED
      BY <1>10, <3>1, <3>2 DEF Reconnect
  <2>2. conns' \in 0..MaxConns
    BY <1>0, <1>10, BoundsAssumption DEF Reconnect, LinkOK
  <2>3. LinkOK'
    <3>1. state' \in {"READY", "RECONNECTING"} /\ pendingSubs' \in {0, 1}
      BY <1>10 DEF Reconnect
    <3>2. up' = TRUE /\ conf' = conf /\ worker' = worker
      BY <1>10 DEF Reconnect
    <3> QED
      BY <1>0, <2>2, <3>1, <3>2 DEF LinkOK
  <2>4. chan' \in Msgs
    BY <1>10 DEF Reconnect
  <2>5. reader' \in ReaderRecs /\ CountsOK'
    BY <1>0, <1>10, IdleTyped DEF Reconnect, history, CountsOK
  <2> QED
    BY <1>p, <2>1, <2>3, <2>4, <2>5
<1>11. ASSUME NEW own \in BOOLEAN, Unsubscribe(own)
       PROVE  TypeOK'
  <2>1. SlotOK(slot')
    BY <1>s, <1>0, <1>11 DEF Unsubscribe, SlotOK, SlotRecs
  <2>2. robot' \in RobotRecs
    BY <1>0, <1>11, RobotTyped DEF Unsubscribe
  <2>3. LinkOK'
    BY <1>0, <1>11 DEF Unsubscribe, link, LinkOK
  <2> QED
    BY <1>0, <1>11, <1>p, <2>1, <2>2, <2>3 DEF Unsubscribe, history, CountsOK
<1>r. ASSUME robot' \in RobotRecs, chan' \in Msgs, UNCHANGED <<conf, link, slot, reader, worker, history>>
      PROVE  TypeOK'
  <2>1. LinkOK' /\ CountsOK'
    BY <1>0, <1>r DEF link, LinkOK, history, CountsOK
  <2> QED
    BY <1>0, <1>p, <1>r, <2>1
<1>12. CASE Produce
  <2>1. robot.head + 1 \in 0..MaxSeq
    BY <1>0, <1>12, BoundsAssumption DEF Produce, RobotRecs
  <2>2. robot' \in RobotRecs
    BY <1>0, <1>12, <2>1 DEF Produce, RobotRecs
  <2> QED
    BY <1>0, <1>12, <1>r, <2>2 DEF Produce
<1>13. CASE Serve
  <2>1. robot.head \in Nat /\ Oldest \in Nat /\ robot.head + 1 \in Nat
        /\ (robot.request # NoRequest => robot.request \in Nat)
    BY <1>0, SizesAssumption, BoundsAssumption DEF RobotRecs, Oldest
  <2>2. ASSUME NEW next \in Nat, Continues(next)
        PROVE  robot' \in RobotRecs
    <3>1. PICK overlap \in 0..1 :
             robot' = [robot EXCEPT !.request = NoRequest, !.on = TRUE,
                     !.cursor = IF next > overlap THEN next - overlap ELSE next,
                     !.answer = [kind |-> "ack", result |-> "ok",
                                 next |-> IF conf.numbered THEN next ELSE 0]]
      BY <2>2 DEF Continues
    <3>2. (IF next > overlap THEN next - overlap ELSE next) \in Nat
      OBVIOUS
    <3>3. [kind |-> "ack", result |-> "ok", next |-> IF conf.numbered THEN next ELSE 0] \in Acks
      BY DEF Acks, Results
    <3> QED
      BY <1>0, <3>1, <3>2, <3>3 DEF RobotRecs
  <2>3. ASSUME NEW result \in Results, robot' = Refuse(result)
        PROVE  robot' \in RobotRecs
    <3>1. [kind |-> "ack", result |-> result, next |-> 0] \in Acks
      BY DEF Acks
    <3> QED
      BY <1>0, <2>3, <3>1 DEF Refuse, RobotRecs
  <2>4. robot' \in RobotRecs
    BY <1>13, <2>1, <2>2, <2>3 DEF Serve
  <2> QED
    BY <1>0, <1>13, <1>r, <2>4 DEF Serve
<1>14. CASE Answer
  <2>1. robot.answer \in Acks
    BY <1>0, <1>14 DEF Answer, RobotRecs
  <2>2. chan' \in Msgs
    BY <1>0, <1>14, <2>1, AppendTyped DEF Answer
  <2>3. robot' \in RobotRecs
    BY <1>0, <1>14 DEF Answer, RobotRecs
  <2> QED
    BY <1>14, <1>r, <2>2, <2>3 DEF Answer
<1>15. CASE Push
  <2>1. robot.cursor \in Nat /\ [robot EXCEPT !.cursor = @ + 1] \in RobotRecs
    BY <1>0 DEF RobotRecs
  <2>2. [kind |-> "push", seq |-> IF conf.numbered THEN robot.cursor ELSE 0] \in Pushes
    BY <2>1 DEF Pushes
  <2>3. chan' \in Msgs
    BY <1>0, <1>15, <2>2, AppendTyped DEF Push, Send
  <2> QED
    BY <1>15, <1>r, <2>1, <2>3 DEF Push
<1>16. CASE Skip
  <2>1. [robot EXCEPT !.cursor = @ + 1] \in RobotRecs
    BY <1>0 DEF RobotRecs
  <2> QED
    BY <1>0, <1>16, <1>r, <2>1 DEF Skip
<1>17. CASE UNCHANGED vars
  BY <1>0, <1>17, <1>r DEF vars, link, history
<1> QED
  BY <1>1, <1>2, <1>3, <1>4, <1>5, <1>6, <1>7, <1>8, <1>9, <1>10, <1>11, <1>12, <1>13,
     <1>14, <1>15, <1>16, <1>17 DEF Next

LEMMA InitTyped == Init => TypeOK
<1> SUFFICES ASSUME Init
             PROVE  TypeOK
  OBVIOUS
<1>1. NewSlot \in SlotRecs /\ NewSlot.pendingBuffer = <<>> /\ NewSlot.queue = <<>>
  BY DEF NewSlot, SlotRecs
<1>2. SlotOK(NewSlot)
  BY <1>1, SizesAssumption DEF SlotOK
<1>3. SlotOK(slot)
  BY <1>2, AskedTyped DEF Init
<1>4. reader \in ReaderRecs
  BY IdleTyped DEF Init
<1>5. 0 \in 0..MaxSeq /\ 0 \in 0..MaxConns /\ 1 \in 0..MaxConns
  BY BoundsAssumption
<1>6. robot \in RobotRecs
  BY <1>5 DEF Init, RobotRecs
<1>7. LinkOK
  BY <1>5 DEF Init, LinkOK
<1>8. CountsOK /\ chan \in Seq(Pushes \cup Acks)
  BY DEF Init, CountsOK, NoFrame, Frames
<1> QED
  BY <1>3, <1>4, <1>6, <1>7, <1>8, TypeParts

\* The types of SubscriptionStream; the buffer and the queue keep to their size.
THEOREM TypeCorrect == Spec => []TypeOK
<1>1. TypeOK /\ [Next]_vars => TypeOK'
  BY TypesStay
<1> QED
  BY <1>1, InitTyped, PTL DEF Spec

-----------------------------------------------------------------------------
(* The invariant of the refinement.                                        *)

\* What the delivery of a frame changes in the slot and in the reader.
LEMMA DeliverEffect ==
  ASSUME NEW s, SlotOK(s), NEW n \in Nat, NEW then \in ReaderRecs, then.pc = "free",
         conf \in Configs, Deliver(s, n, then)
  PROVE  /\ slot'.inflight = s.inflight /\ slot'.state = s.state
         /\ reader'.draining = then.draining
         /\ conf.inline => slot'.queue = s.queue
         /\ ~conf.inline => reader'.pc = "free"
<1>1. s \in SlotRecs
  BY DEF SlotOK
<1>2. CASE Repeated(s, n)
  BY <1>2 DEF Deliver
<1>3. CASE ~Repeated(s, n)
  BY <1>1, <1>3 DEF Deliver, Place, SlotRecs, ReaderRecs
<1> QED
  BY <1>2, <1>3

LEMMA SlotIs == ASSUME TypeOK PROVE SlotOK(slot) /\ slot \in SlotRecs /\ reader \in ReaderRecs /\ conf \in Configs
BY TypeParts DEF SlotOK, LinkOK

LEMMA ModesStay ==
  ASSUME TypeOK, Modes, [Next]_vars
  PROVE  Modes'
<1>0. slot \in SlotRecs /\ reader \in ReaderRecs /\ conf \in Configs /\ SlotOK(slot)
  BY SlotIs
<1>i. Idle.pc = "free" /\ Idle \in ReaderRecs
  BY IdleTyped DEF Idle
<1>k. ASSUME conf' = conf, slot'.queue = slot.queue, worker' = worker \/ worker' = "gone",
             reader' = reader \/ reader' = Idle
      PROVE  Modes'
  BY <1>i, <1>k DEF Modes
<1>1. CASE ReadPush
  <2> DEFINE n == Head(chan).seq
  <2>1. conf' = conf /\ worker' = worker
    BY <1>1 DEF ReadPush
  <2>2. CASE slot' = slot /\ reader' = reader
    BY <1>k, <2>1, <2>2
  <2>3. CASE slot' = Buffered(slot, n) /\ reader' = reader
    <3>1. slot'.queue = slot.queue
      BY <1>0, <2>3 DEF Buffered, SlotRecs
    <3> QED
      BY <1>k, <2>1, <2>3, <3>1
  <2>4. CASE slot' = [slot EXCEPT !.dropCount = @ + 1] /\ reader' = reader
    <3>1. slot'.queue = slot.queue
      BY <1>0, <2>4 DEF SlotRecs
    <3> QED
      BY <1>k, <2>1, <2>4, <3>1
  <2>5. CASE Deliver(slot, n, Idle)
    <3>1. n \in Nat
      BY <1>1, MessagesTyped DEF ReadPush
    <3> QED
      BY <1>0, <1>i, <2>1, <2>5, <3>1, DeliverEffect DEF Modes
  <2> QED
    BY <1>1, <2>2, <2>3, <2>4, <2>5 DEF ReadPush
<1>2. CASE ReadAck
  <2> DEFINE s == [slot EXCEPT !.inflight = FALSE]
  <2>1. conf' = conf /\ reader = Idle /\ s.queue = slot.queue /\ s \in SlotRecs
    BY <1>0, <1>2 DEF ReadAck, SlotRecs
  <2> HIDE DEF s
  <2>2. CASE UNCHANGED <<link, slot, reader, worker, robot, history>>
    BY <1>k, <2>1, <2>2
  <2>3. CASE Accepted(s, Head(chan).next)
    <3>1. slot'.queue = slot.queue /\ worker' = worker
      BY <2>1, <2>3 DEF Accepted, SlotRecs
    <3>2. reader'.pc = "free"
      BY <1>i, <2>3 DEF Accepted, ReaderRecs
    <3> QED
      BY <2>1, <3>1, <3>2 DEF Modes
  <2>4. CASE Refused(s, Head(chan).result) /\ UNCHANGED <<reader, history>>
    <3>1. slot'.queue = slot.queue
      BY <2>1, <2>4 DEF Refused, Asked, CloseSlot, TransportClose, Paused, SlotRecs
    <3>2. worker' = worker \/ worker' = "gone"
      BY <2>4 DEF Refused, CloseSlot, TransportClose
    <3> QED
      BY <1>k, <2>1, <2>4, <3>1, <3>2
  <2> QED
    BY <1>2, <2>2, <2>3, <2>4 DEF ReadAck, s
<1>3. CASE Drain
  <2> DEFINE n == Head(slot.pendingBuffer)
             s == [slot EXCEPT !.pendingBuffer = Tail(@)]
  <2>1. conf' = conf /\ worker' = worker /\ s.queue = slot.queue /\ reader.pc = "free" /\ s \in SlotRecs
    BY <1>0, <1>3, DrainTyped DEF Drain, SlotRecs
  <2>2. n \in Nat /\ SlotOK(s)
    BY <1>3, DrainTyped
  <2> HIDE DEF s
  <2>3. CASE slot' = [s EXCEPT !.dropCount = @ + 1] /\ reader' = reader
    <3>1. slot'.queue = slot.queue
      BY <2>1, <2>3 DEF SlotRecs
    <3> QED
      BY <1>k, <2>1, <2>3, <3>1
  <2>4. CASE Deliver(s, n, reader)
    BY <1>0, <2>1, <2>2, <2>4, DeliverEffect DEF Modes
  <2> QED
    BY <1>3, <2>3, <2>4 DEF Drain, s
<1>4. CASE Drained
  BY <1>0, <1>4, <1>k DEF Drained, SlotRecs
<1>5. CASE CallInline
  <2>1. conf.inline /\ conf' = conf /\ slot' = slot /\ worker' = worker
    BY <1>5 DEF CallInline, Modes
  <2> QED
    BY <2>1 DEF Modes
<1>6. CASE InlineReturns
  <2>1. reader'.pc = "free" /\ conf' = conf /\ slot' = slot /\ worker' = worker
    BY <1>0, <1>6 DEF InlineReturns, ReaderRecs
  <2> QED
    BY <2>1 DEF Modes
<1>7. CASE WorkerTakes
  <2>1. ~conf.inline /\ conf' = conf /\ reader' = reader
    BY <1>7 DEF WorkerTakes, Modes
  <2> QED
    BY <2>1 DEF Modes
<1>8. CASE WorkerReturns
  <2>1. ~conf.inline /\ conf' = conf /\ reader' = reader
    BY <1>8 DEF WorkerReturns, Modes
  <2> QED
    BY <2>1 DEF Modes
<1>9. CASE Loss
  <2>1. slot'.queue = slot.queue /\ worker' = worker /\ conf' = conf /\ reader' = reader
    BY <1>0, <1>9 DEF Loss, TransportClose, Paused, SlotRecs
  <2> QED
    BY <1>k, <2>1
<1>10. CASE Reconnect
  <2>1. slot'.queue = slot.queue
    BY <1>0, <1>10 DEF Reconnect, Asked, SlotRecs
  <2> QED
    BY <1>10, <1>k, <2>1 DEF Reconnect
<1>11. ASSUME NEW own \in BOOLEAN, Unsubscribe(own)
       PROVE  Modes'
  <2>1. slot'.queue = slot.queue
    BY <1>0, <1>11 DEF Unsubscribe, SlotRecs
  <2> QED
    BY <1>11, <1>k, <2>1 DEF Unsubscribe
<1>12. CASE Produce \/ Serve \/ Answer \/ Push \/ Skip \/ UNCHANGED vars
  BY <1>12, <1>k DEF Produce, Serve, Answer, Push, Skip, vars
<1> QED
  BY <1>1, <1>2, <1>3, <1>4, <1>5, <1>6, <1>7, <1>8, <1>9, <1>10, <1>11, <1>12 DEF Next

\* Only the callback takes the frame from a reader that is about to call it.
LEMMA HandingStays ==
  ASSUME TypeOK, Handing, [Next]_vars
  PROVE  Handing'
<1>0. slot \in SlotRecs /\ reader \in ReaderRecs /\ conf \in Configs /\ SlotOK(slot)
  BY SlotIs
<1>i. Idle.pc = "free" /\ Idle.draining = FALSE /\ Idle \in ReaderRecs
  BY IdleTyped DEF Idle
<1>f. ASSUME reader'.pc # "hand"
      PROVE  Handing'
  BY <1>f DEF Handing
<1>k. ASSUME reader' = reader, reader.pc # "hand" \/ slot' = slot
      PROVE  Handing'
  BY <1>k DEF Handing
<1>1. CASE ReadPush
  <2>1. reader.pc # "hand" /\ Head(chan).seq \in Nat
    BY <1>1, <1>i, MessagesTyped DEF ReadPush
  <2>2. CASE reader' = reader
    BY <1>k, <2>1, <2>2
  <2>3. CASE slot.state = "ACTIVE" /\ Deliver(slot, Head(chan).seq, Idle)
    BY <1>0, <1>i, <2>1, <2>3, DeliverEffect DEF Handing
  <2> QED
    BY <1>1, <2>2, <2>3 DEF ReadPush
<1>2. CASE ReadAck
  <2>1. reader.pc # "hand"
    BY <1>2, <1>i DEF ReadAck
  <2>2. CASE reader' = reader
    BY <1>k, <2>1, <2>2
  <2>3. CASE Accepted([slot EXCEPT !.inflight = FALSE], Head(chan).next)
    <3>1. reader'.pc = "free"
      BY <1>i, <2>3 DEF Accepted, ReaderRecs
    <3> QED
      BY <1>f, <3>1
  <2> QED
    BY <1>2, <2>2, <2>3 DEF ReadAck, history
<1>3. CASE Drain
  <2> DEFINE n == Head(slot.pendingBuffer)
             s == [slot EXCEPT !.pendingBuffer = Tail(@)]
  <2>1. n \in Nat /\ SlotOK(s) /\ reader.draining /\ reader.pc = "free"
    BY <1>3, DrainTyped DEF Drain
  <2> HIDE DEF s, n
  <2>2. CASE reader' = reader
    BY <1>f, <2>1, <2>2
  <2>3. CASE Deliver(s, n, reader)
    <3>1. reader'.draining
      BY <1>0, <2>1, <2>3, DeliverEffect
    <3> QED
      BY <3>1 DEF Handing
  <2> QED
    BY <1>3, <2>2, <2>3 DEF Drain, s, n
<1>4. CASE Drained \/ Reconnect
  <2>1. reader' = Idle
    BY <1>4 DEF Drained, Reconnect
  <2> QED
    BY <1>f, <1>i, <2>1
<1>5. CASE CallInline \/ InlineReturns
  <2>1. reader'.pc # "hand"
    BY <1>0, <1>5 DEF CallInline, InlineReturns, ReaderRecs
  <2> QED
    BY <1>f, <2>1
<1>6. CASE WorkerTakes \/ WorkerReturns \/ Loss \/ \E own \in BOOLEAN : Unsubscribe(own)
  BY <1>6, <1>k DEF WorkerTakes, WorkerReturns, Loss, Unsubscribe, Quiet
<1>7. CASE Produce \/ Serve \/ Answer \/ Push \/ Skip \/ UNCHANGED vars
  BY <1>7, <1>k DEF Produce, Serve, Answer, Push, Skip, vars
<1> QED
  BY <1>1, <1>2, <1>3, <1>4, <1>5, <1>6, <1>7 DEF Next

\* While a request is under way nothing is delivered, so nothing moves the
\* position it was computed from.
LEMMA AskingStays ==
  ASSUME TypeOK, Asking, [Next]_vars
  PROVE  Asking'
<1>0. slot \in SlotRecs /\ reader \in ReaderRecs /\ conf \in Configs /\ SlotOK(slot)
  BY SlotIs
<1>i. Idle.pc = "free" /\ Idle.draining = FALSE /\ Idle \in ReaderRecs
  BY IdleTyped DEF Idle
<1>f. ASSUME slot'.inflight = FALSE
      PROVE  Asking'
  BY <1>f DEF Asking
<1>k. ASSUME reader' = reader \/ reader' = Idle,
             slot'.inflight = slot.inflight, slot'.expected = slot.expected,
             slot'.lastSeq = slot.lastSeq, slot'.state = slot.state \/ slot'.state = "CLOSED"
      PROVE  Asking'
  BY <1>k DEF Asking
<1>c. ASSUME NEW s \in SlotRecs, s.inflight = FALSE, CloseSlot(s) \/ slot' = Paused(s)
      PROVE  Asking'
  <2>1. slot'.inflight = FALSE
    BY <1>c DEF CloseSlot, Paused, SlotRecs
  <2> QED
    BY <1>f, <2>1
<1>r. slot.inflight => reader = Idle
  BY DEF Asking
<1>b. slot.inflight \in BOOLEAN
  BY <1>0 DEF SlotRecs
<1>1. CASE ReadPush
  <2> DEFINE n == Head(chan).seq
  <2>1. CASE slot' = slot /\ reader' = reader
    BY <1>k, <2>1
  <2>2. CASE slot' = Buffered(slot, n) /\ reader' = reader
    <3>1. /\ slot'.inflight = slot.inflight /\ slot'.expected = slot.expected
          /\ slot'.lastSeq = slot.lastSeq /\ slot'.state = slot.state
      BY <1>0, <2>2 DEF Buffered, SlotRecs
    <3> QED
      BY <1>k, <2>2, <3>1
  <2>3. CASE slot.state = "PAUSED" /\ slot' = [slot EXCEPT !.dropCount = @ + 1]
    <3>1. slot'.inflight = slot.inflight
      BY <1>0, <2>3 DEF SlotRecs
    <3> QED
      BY <1>b, <1>f, <2>3, <3>1 DEF Asking
  <2>4. CASE slot.state = "ACTIVE" /\ Deliver(slot, n, Idle)
    <3>1. slot'.inflight = slot.inflight
      BY <1>0, <1>1, <1>i, <2>4, DeliverEffect, MessagesTyped DEF ReadPush
    <3> QED
      BY <1>b, <1>f, <2>4, <3>1 DEF Asking
  <2> QED
    BY <1>1, <2>1, <2>2, <2>3, <2>4 DEF ReadPush
<1>2. CASE ReadAck
  <2> DEFINE s == [slot EXCEPT !.inflight = FALSE]
  <2>1. s.inflight = FALSE /\ s \in SlotRecs /\ reader = Idle
    BY <1>0, <1>2 DEF ReadAck, SlotRecs
  <2> HIDE DEF s
  <2>2. CASE UNCHANGED <<link, slot, reader, worker, robot, history>>
    BY <1>k, <2>2
  <2>3. CASE Accepted(s, Head(chan).next)
    <3>1. slot'.inflight = FALSE
      BY <2>1, <2>3 DEF Accepted, SlotRecs
    <3> QED
      BY <1>f, <3>1
  <2>4. CASE Refused(s, Head(chan).result) /\ UNCHANGED <<reader, history>>
    <3>1. CASE slot' = Asked([s EXCEPT !.lastSeq = 0, !.freshRetryDone = TRUE], 0,
                             state = "RECONNECTING")
      <4>1. slot'.state = "PENDING" /\ slot'.expected = 0 /\ reader' = Idle
        BY <2>1, <2>4, <3>1 DEF Asked, SlotRecs
      <4> QED
        BY <4>1 DEF Asking
    <3>2. CASE CloseSlot(s) \/ TransportClose(s)
      BY <1>c, <2>1, <3>2 DEF TransportClose
    <3> QED
      BY <2>4, <3>1, <3>2 DEF Refused
  <2> QED
    BY <1>2, <2>2, <2>3, <2>4 DEF ReadAck, s
<1>3. CASE Drain
  <2> DEFINE n == Head(slot.pendingBuffer)
             s == [slot EXCEPT !.pendingBuffer = Tail(@)]
  <2>1. n \in Nat /\ SlotOK(s) /\ s \in SlotRecs /\ reader.draining /\ reader.pc = "free"
    BY <1>3, DrainTyped DEF Drain
  <2>2. s.inflight = FALSE
    BY <1>0, <1>b, <1>i, <1>r, <2>1 DEF SlotRecs
  <2> HIDE DEF s, n
  <2>3. CASE slot' = [s EXCEPT !.dropCount = @ + 1]
    BY <1>f, <2>1, <2>2, <2>3 DEF SlotRecs
  <2>4. CASE Deliver(s, n, reader)
    <3>1. slot'.inflight = FALSE
      BY <1>0, <2>1, <2>2, <2>4, DeliverEffect
    <3> QED
      BY <1>f, <3>1
  <2> QED
    BY <1>3, <2>3, <2>4 DEF Drain, s, n
<1>4. CASE Drained
  <2>1. slot.inflight = FALSE
    BY <1>4, <1>b, <1>i, <1>r DEF Drained
  <2>2. slot'.inflight = slot.inflight
    BY <1>0, <1>4 DEF Drained, SlotRecs
  <2> QED
    BY <1>f, <2>1, <2>2
<1>5. CASE CallInline \/ InlineReturns
  <2>1. slot.inflight = FALSE /\ slot' = slot
    BY <1>5, <1>b, <1>i, <1>r DEF CallInline, InlineReturns
  <2> QED
    BY <1>f, <2>1
<1>6. CASE WorkerTakes \/ WorkerReturns
  <2>1. reader' = reader
    BY <1>6 DEF WorkerTakes, WorkerReturns
  <2>2. /\ slot'.inflight = slot.inflight /\ slot'.expected = slot.expected
        /\ slot'.lastSeq = slot.lastSeq /\ slot'.state = slot.state
    BY <1>0, <1>6 DEF WorkerTakes, WorkerReturns, SlotRecs
  <2> QED
    BY <1>k, <2>1, <2>2
<1>7. CASE Loss
  <2>1. reader' = reader /\ slot' = Paused(slot)
    BY <1>7 DEF Loss, TransportClose
  <2>2. CASE slot.state = "CLOSED"
    BY <1>k, <2>1, <2>2 DEF Paused
  <2>3. CASE slot.state # "CLOSED"
    <3>1. slot'.inflight = FALSE
      BY <1>0, <2>1, <2>3 DEF Paused, SlotRecs
    <3> QED
      BY <1>f, <3>1
  <2> QED
    BY <2>2, <2>3
<1>8. CASE Reconnect
  <2>1. reader' = Idle
    BY <1>8 DEF Reconnect
  <2>2. CASE slot' = slot
    BY <1>k, <2>1, <2>2
  <2>3. CASE slot' = Asked([slot EXCEPT !.freshRetryDone = FALSE], Since(slot), TRUE)
    <3>1. slot'.state = "PENDING" /\ slot'.expected = Since(slot) /\ slot'.lastSeq = slot.lastSeq
      BY <1>0, <2>3 DEF Asked, SlotRecs
    <3>2. slot.lastSeq \in Nat /\ (Since(slot) # 0 => slot.lastSeq # 0 /\ Since(slot) = slot.lastSeq + 1)
      BY <1>0 DEF Since, SlotRecs
    <3> QED
      BY <2>1, <3>1, <3>2 DEF Asking
  <2> QED
    BY <1>8, <2>2, <2>3 DEF Reconnect
<1>9. ASSUME NEW own \in BOOLEAN, Unsubscribe(own)
      PROVE  Asking'
  <2>1. reader' = reader
    BY <1>9 DEF Unsubscribe
  <2>2. /\ slot'.inflight = slot.inflight /\ slot'.expected = slot.expected
        /\ slot'.lastSeq = slot.lastSeq /\ slot'.state = "CLOSED"
    BY <1>0, <1>9 DEF Unsubscribe, SlotRecs
  <2> QED
    BY <1>k, <2>1, <2>2
<1>10. CASE Produce \/ Serve \/ Answer \/ Push \/ Skip \/ UNCHANGED vars
  BY <1>10, <1>k DEF Produce, Serve, Answer, Push, Skip, vars
<1> QED
  BY <1>1, <1>2, <1>3, <1>4, <1>5, <1>6, <1>7, <1>8, <1>9, <1>10 DEF Next

LEMMA InvInit == Init => StreamInv
<1> SUFFICES ASSUME Init
             PROVE  StreamInv
  OBVIOUS
<1>1. reader = Idle /\ Idle.pc = "free" /\ (conf.inline => worker = "gone")
  BY DEF Init, Idle
<1>2. slot.queue = <<>> /\ slot.state = "PENDING" /\ slot.expected = 0
  BY DEF Init, Asked, NewSlot
<1> QED
  BY <1>1, <1>2 DEF StreamInv, Modes, Handing, Asking

LEMMA InvStays == TypeOK /\ StreamInv /\ [Next]_vars => StreamInv'
BY ModesStay, HandingStays, AskingStays DEF StreamInv

LEMMA Invariant == Spec => [](TypeOK /\ StreamInv)
<1>1. Init => TypeOK /\ StreamInv
  BY InitTyped, InvInit
<1>2. TypeOK /\ StreamInv /\ [Next]_vars => TypeOK' /\ StreamInv'
  BY TypesStay, InvStays
<1> QED
  BY <1>1, <1>2, PTL DEF Spec

\* In DISPATCHED mode no frame reaches the callback once the slot is CLOSED.
THEOREM ClosedIsSilent == Spec => NothingAfterClosed
<1>1. TypeOK /\ StreamInv /\ [Next]_vars
        => [~conf.inline /\ slot.state = "CLOSED" => handed' = handed]_vars
  <2> SUFFICES ASSUME TypeOK, Modes, [Next]_vars, ~conf.inline, slot.state = "CLOSED"
               PROVE  handed' = handed
    BY DEF StreamInv
  <2>1. reader.pc = "free"
    BY DEF Modes
  <2>2. CASE ReadAck
    BY <2>2 DEF ReadAck, history
  <2>3. CASE CallInline \/ WorkerTakes
    BY <2>1, <2>3 DEF CallInline, WorkerTakes, SeesClosed
  <2> QED
    BY <2>2, <2>3 DEF Next, vars, history, ReadPush, Drain, Drained, InlineReturns, WorkerReturns,
       Loss, Reconnect, Unsubscribe, Produce, Serve, Answer, Push, Skip
<1> QED
  BY <1>1, Invariant, PTL DEF Spec, NothingAfterClosed

-----------------------------------------------------------------------------
(* The refinement: every step is one of EventStream's, or none.            *)

PromiseStep == [Promise!Next]_(Promise!vars)

LEMMA Stepped ==
  ASSUME \/ Promise!Accept \/ Promise!AcceptUnnumbered \/ Promise!CountTwice \/ Promise!Hand
         \/ Promise!Stop \/ Promise!Forget \/ Promise!Resume \/ Promise!Restart
  PROVE  PromiseStep
BY DEF PromiseStep, Promise!Next

\* A step that keeps the position, the frames and the counts: the stream runs
\* on, or stops.
LEMMA StopsOrStays ==
  ASSUME conf' = conf, UNCHANGED history, Waiting' = Waiting,
         slot'.lastSeq = slot.lastSeq, slot'.dropCount = slot.dropCount,
         Receiving' => Receiving
  PROVE  PromiseStep
<1>1. CASE Receiving /\ ~Receiving'
  <2>1. Promise!Stop
    BY <1>1 DEF Promise!Stop, Receiving, history
  <2> QED
    BY <2>1, Stepped
<1>2. CASE ~(Receiving /\ ~Receiving')
  <2>1. Receiving' = Receiving
    BY <1>2 DEF Receiving
  <2> QED
    BY <2>1 DEF PromiseStep, Promise!vars, history
<1> QED
  BY <1>1, <1>2

\* What waits for the callback, when the reader holds no frame for it.
LEMMA SameWaiting ==
  ASSUME conf' = conf, slot'.queue = slot.queue, reader.pc # "hand", reader'.pc # "hand"
  PROVE  Waiting' = Waiting
BY DEF Waiting

\* A frame counted in drop_count and nothing else.
LEMMA Counted ==
  ASSUME TypeOK, NEW s \in SlotRecs, s.state = slot.state, s.lastSeq = slot.lastSeq, s.queue = slot.queue,
         s.dropCount = slot.dropCount, conf' = conf, reader' = reader, UNCHANGED history,
         slot' = [s EXCEPT !.dropCount = @ + 1]
  PROVE  PromiseStep
<1>1. /\ slot'.state = slot.state /\ slot'.lastSeq = slot.lastSeq /\ slot'.queue = slot.queue
      /\ slot'.dropCount = slot.dropCount + 1
  BY DEF SlotRecs
<1>2. Receiving' = Receiving /\ Waiting' = Waiting
  BY <1>1 DEF Receiving, Waiting
<1>3. slot'.dropCount + gaps' = slot.dropCount + gaps + 1
  BY <1>1, SlotIs, TypeParts DEF history, SlotRecs, CountsOK
<1>4. Promise!CountTwice
  BY <1>1, <1>2, <1>3 DEF Promise!CountTwice, history
<1> QED
  BY <1>4, Stepped

\* A frame that is delivered while the stream runs is kept, dropped or known.
LEMMA Delivered ==
  ASSUME TypeOK, NEW s, SlotOK(s), s.state = slot.state, s.lastSeq = slot.lastSeq, s.queue = slot.queue,
         s.dropCount = slot.dropCount, NEW n \in Nat, NEW then \in ReaderRecs, then.pc = "free",
         then.draining = reader.draining, reader.pc = "free", Receiving,
         conf' = conf, epoch' = epoch, handed' = handed, Deliver(s, n, then)
  PROVE  PromiseStep
<1>0. s \in SlotRecs /\ slot \in SlotRecs /\ conf \in Configs /\ (conf.event \in BOOLEAN)
  BY SlotIs, ConfIs DEF SlotOK
<1>1. s.lastSeq \in Nat /\ s.dropCount \in Nat /\ lost \in Nat /\ gaps \in Nat
  BY <1>0, TypeParts DEF SlotRecs, CountsOK
<1>2. CASE Repeated(s, n)
  <2>1. slot' = s /\ reader' = then /\ UNCHANGED <<lost, gaps>>
    BY <1>2 DEF Deliver
  <2>2. Waiting' = Waiting
    BY <2>1, SameWaiting
  <2>3. Receiving' = Receiving
    BY <2>1 DEF Receiving
  <2> QED
    BY <2>1, <2>2, <2>3, StopsOrStays DEF history
<1>3. CASE ~Repeated(s, n)
  <2> DEFINE f == [epoch |-> epoch, seq |-> IF conf.event THEN n ELSE 0]
             m == [s EXCEPT !.lastSeq = IF Numbered(n) THEN n ELSE @]
             g == Gap(s, n)
  <2>1. /\ m \in SlotRecs /\ m.state = s.state /\ m.queue = s.queue /\ m.dropCount = s.dropCount
        /\ m.lastSeq = IF Numbered(n) THEN n ELSE s.lastSeq
    BY <1>0 DEF SlotRecs
  <2>2. g \in Nat /\ gaps' = gaps + g
    BY <1>3, GapTyped DEF Deliver
  <2>3. f.seq = (IF Numbered(n) THEN n ELSE 0)
    BY DEF Numbered
  <2> HIDE DEF f, m, g
  <2>4. /\ Receiving' /\ slot'.lastSeq = m.lastSeq
        /\ \/ /\ Waiting' = Append(Waiting, f)
              /\ lost' = lost + g /\ slot'.dropCount = s.dropCount
           \/ /\ Waiting' = Waiting \/ (Waiting # <<>> /\ Waiting' = Append(Tail(Waiting), f))
              /\ lost' = lost + g + 1 /\ slot'.dropCount = s.dropCount + 1
    <3>1. CASE /\ conf.inline /\ slot' = m /\ lost' = lost + g
               /\ reader' = [then EXCEPT !.pc = "hand", !.frame = f]
      <4>1. reader'.pc = "hand" /\ reader'.frame = f
        BY <3>1 DEF ReaderRecs
      <4>2. Waiting = <<>> /\ Waiting' = <<f>>
        BY <3>1, <4>1 DEF Waiting
      <4>3. Waiting' = Append(Waiting, f)
        BY <4>2
      <4> QED
        BY <2>1, <3>1, <4>1, <4>3 DEF Receiving
    <3>2. CASE /\ ~conf.inline /\ slot' = [m EXCEPT !.queue = Append(@, f)]
               /\ reader' = then /\ lost' = lost + g
      <4>1. /\ slot'.queue = Append(s.queue, f) /\ slot'.lastSeq = m.lastSeq
            /\ slot'.state = s.state /\ slot'.dropCount = s.dropCount
        BY <2>1, <3>2 DEF SlotRecs
      <4>2. Waiting = s.queue /\ Waiting' = slot'.queue
        BY <3>2 DEF Waiting
      <4>3. Receiving'
        BY <3>2, <4>1 DEF Receiving
      <4> QED
        BY <3>2, <4>1, <4>2, <4>3
    <3>3. CASE /\ ~conf.inline /\ Len(s.queue) = QueueSize
               /\ slot' = [m EXCEPT !.dropCount = @ + 1,
                                    !.queue = IF conf.newest THEN @ ELSE Append(Tail(@), f)]
               /\ reader' = then /\ lost' = lost + g + 1
      <4>1. /\ slot'.queue = (IF conf.newest THEN s.queue ELSE Append(Tail(s.queue), f))
            /\ slot'.lastSeq = m.lastSeq
            /\ slot'.state = s.state /\ slot'.dropCount = s.dropCount + 1
        BY <2>1, <3>3 DEF SlotRecs
      <4>2. Waiting = s.queue /\ Waiting' = slot'.queue
        BY <3>3 DEF Waiting
      <4>3. s.queue # <<>>
        BY <1>0, <3>3, FullIsNotEmpty DEF SlotRecs
      <4>4. Receiving'
        BY <3>3, <4>1 DEF Receiving
      <4> QED
        BY <3>3, <4>1, <4>2, <4>3, <4>4
    <3> QED
      BY <1>3, <3>1, <3>2, <3>3 DEF Deliver, Place, f, m, g
  <2>5. /\ \/ slot'.dropCount = s.dropCount /\ slot'.dropCount + gaps' = slot.dropCount + gaps + g
           \/ slot'.dropCount = s.dropCount + 1 /\ slot'.dropCount + gaps' = slot.dropCount + gaps + g + 1
        /\ s.dropCount + 1 # s.dropCount
    BY <1>1, <2>2, <2>4
  <2>6. Promise!Place(f, g)
    BY <2>4, <2>5 DEF Promise!Place
  <2>7. Receiving' = Receiving
    BY <2>4 DEF Receiving
  <2>8. CASE Numbered(n)
    <3>1. slot'.lastSeq = n /\ n > slot.lastSeq
      BY <1>1, <1>3, <2>1, <2>4, <2>8 DEF Repeated, Numbered
    <3>2. g = IF slot.lastSeq = 0 THEN 0 ELSE n - slot.lastSeq - 1
      BY <2>8 DEF Gap, g
    <3>3. f = [epoch |-> epoch, seq |-> n]
      BY <2>8 DEF Numbered, f
    <3>4. Promise!Accept
      BY <2>6, <2>7, <3>1, <3>2, <3>3 DEF Promise!Accept
    <3> QED
      BY <3>4, Stepped
  <2>9. CASE ~Numbered(n)
    <3>1. slot'.lastSeq = slot.lastSeq /\ g = 0
      BY <2>1, <2>4, <2>9 DEF Gap, g
    <3>2. f = [epoch |-> epoch, seq |-> 0]
      BY <1>0, <2>9 DEF Numbered, f
    <3>3. Promise!AcceptUnnumbered
      BY <2>6, <2>7, <3>1, <3>2 DEF Promise!AcceptUnnumbered
    <3> QED
      BY <3>3, Stepped
  <2> QED
    BY <2>8, <2>9
<1> QED
  BY <1>2, <1>3

\* The answer to a request is a fresh start, unless it continues at or after
\* the number asked for: then the position moves up by what is missing.
LEMMA AcceptedStep ==
  ASSUME TypeOK, StreamInv, NEW s, s = [slot EXCEPT !.inflight = FALSE], NEW K \in Nat,
         slot.inflight, slot.state # "CLOSED", conf' = conf, Accepted(s, K)
  PROVE  PromiseStep
<1> DEFINE jump == IF conf.event /\ s.expected # 0 /\ K > s.expected THEN K - s.expected ELSE 0
           same == conf.event /\ s.expected # 0 /\ K >= s.expected
<1>0. slot \in SlotRecs /\ SlotOK(slot)
  BY SlotIs
<1>s. /\ s \in SlotRecs /\ s.expected = slot.expected /\ s.lastSeq = slot.lastSeq /\ s.queue = slot.queue
      /\ s.dropCount = slot.dropCount /\ SlotOK(s)
  BY <1>0 DEF SlotOK, SlotRecs
<1>n. slot.lastSeq \in Nat /\ slot.expected \in Nat /\ slot.dropCount \in Nat /\ lost \in Nat /\ gaps \in Nat
  BY <1>0, TypeParts DEF SlotRecs, CountsOK
<1>a. /\ reader = Idle /\ slot.state = "PENDING"
      /\ slot.expected # 0 => slot.lastSeq # 0 /\ slot.expected = slot.lastSeq + 1
  BY DEF StreamInv, Asking
<1>1. ~Receiving
  BY <1>a DEF Receiving, Idle
<1>2. /\ slot'.state = "ACTIVE" /\ slot'.queue = slot.queue /\ slot'.dropCount = slot.dropCount
      /\ reader'.pc = "free" /\ handed' = handed /\ slot'.lastSeq \in Nat
  <2>1. SlotOK(slot')
    BY <1>s, AcceptedTyped
  <2> QED
    BY <1>s, <2>1, IdleTyped DEF Accepted, SlotRecs, SlotOK, Idle, ReaderRecs
<1>3. Receiving' /\ Waiting' = Waiting
  BY <1>2, <1>a, SameWaiting DEF Receiving, Idle
<1>4. gaps' = gaps + jump /\ lost' = lost + jump
  BY DEF Accepted
<1>5. CASE same
  <2>1. /\ slot.lastSeq # 0 /\ slot.expected = slot.lastSeq + 1 /\ K >= slot.expected
        /\ jump = K - slot.expected
    BY <1>5, <1>a, <1>n, <1>s
  <2>2. slot'.lastSeq = IF jump = 0 THEN slot.lastSeq ELSE IF K >= 1 THEN K - 1 ELSE 0
    BY <1>5, <1>s DEF Accepted, SlotRecs
  <2>3. slot'.lastSeq >= slot.lastSeq /\ slot'.lastSeq - slot.lastSeq = jump
    BY <1>n, <2>1, <2>2
  <2>4. epoch' = epoch
    BY <1>5 DEF Accepted
  <2>5. slot'.dropCount + gaps' = slot.dropCount + gaps + (slot'.lastSeq - slot.lastSeq)
    BY <1>2, <1>4, <1>n, <2>3
  <2>6. lost' = lost + (slot'.lastSeq - slot.lastSeq)
    BY <1>4, <2>3
  <2>7. Receiving' = TRUE
    BY <1>3 DEF Receiving
  <2>8. Promise!Resume
    BY <1>1, <1>2, <1>3, <2>1, <2>3, <2>4, <2>5, <2>6, <2>7 DEF Promise!Resume
  <2> QED
    BY <2>8, Stepped
<1>6. CASE ~same
  <2>1. jump = 0
    BY <1>6, <1>n, <1>s
  <2>2. epoch' = epoch + 1
    BY <1>6 DEF Accepted
  <2>3. lost' = lost /\ gaps' = gaps
    BY <1>4, <1>n, <2>1
  <2>4. Receiving' = TRUE
    BY <1>3 DEF Receiving
  <2>5. Promise!Restart
    BY <1>1, <1>2, <1>3, <2>2, <2>3, <2>4 DEF Promise!Restart
  <2> QED
    BY <2>5, Stepped
<1> QED
  BY <1>5, <1>6

\* A refusal is no step of the stream, or forgets the position.
LEMMA RefusedStep ==
  ASSUME TypeOK, StreamInv, NEW s, s = [slot EXCEPT !.inflight = FALSE], NEW r,
         slot.inflight, slot.state # "CLOSED", conf' = conf, Refused(s, r), UNCHANGED <<reader, history>>
  PROVE  PromiseStep
<1>0. /\ s \in SlotRecs /\ s.lastSeq = slot.lastSeq /\ s.queue = slot.queue
      /\ s.dropCount = slot.dropCount /\ s.state # "CLOSED"
  BY SlotIs DEF SlotRecs
<1>1. reader.pc = "free" /\ ~reader.draining /\ reader' = reader /\ ~Receiving
  BY DEF StreamInv, Asking, Receiving, Idle
<1>2. CASE slot' = Asked([s EXCEPT !.lastSeq = 0, !.freshRetryDone = TRUE], 0, state = "RECONNECTING")
  <2>1. /\ slot'.lastSeq = 0 /\ slot'.queue = slot.queue /\ slot'.dropCount = slot.dropCount
        /\ slot'.state = "PENDING"
    BY <1>0, <1>2 DEF Asked, SlotRecs
  <2>2. Waiting' = Waiting
    BY <1>1, <2>1, SameWaiting
  <2>3. Receiving' = Receiving
    BY <1>1, <2>1 DEF Receiving
  <2>4. Promise!Forget
    BY <1>1, <2>1, <2>2, <2>3 DEF Promise!Forget, history
  <2> QED
    BY <2>4, Stepped
<1>3. CASE CloseSlot(s) \/ TransportClose(s)
  <2>1. /\ slot'.lastSeq = slot.lastSeq /\ slot'.queue = slot.queue /\ slot'.dropCount = slot.dropCount
        /\ slot'.state \in {"CLOSED", "PAUSED"}
    <3>1. CASE CloseSlot(s)
      BY <1>0, <3>1 DEF CloseSlot, SlotRecs
    <3>2. CASE TransportClose(s)
      <4>1. slot' = [s EXCEPT !.state = "PAUSED", !.pendingBuffer = <<>>, !.inflight = FALSE]
        BY <1>0, <3>2 DEF TransportClose, Paused
      <4> QED
        BY <1>0, <4>1 DEF SlotRecs
    <3> QED
      BY <1>3, <3>1, <3>2
  <2>2. Waiting' = Waiting /\ ~Receiving'
    BY <1>1, <2>1, SameWaiting DEF Receiving
  <2> QED
    BY <2>1, <2>2, StopsOrStays
<1> QED
  BY <1>2, <1>3 DEF Refused

LEMMA MessagesStep ==
  ASSUME TypeOK, StreamInv, ReadPush \/ ReadAck
  PROVE  PromiseStep
<1>0. slot \in SlotRecs /\ SlotOK(slot) /\ conf \in Configs
  BY SlotIs
<1>1. CASE ReadPush
  <2> DEFINE n == Head(chan).seq
  <2>1. /\ reader = Idle /\ conf' = conf /\ epoch' = epoch /\ handed' = handed /\ n \in Nat
        /\ Idle.pc = "free" /\ Idle \in ReaderRecs
    BY <1>1, MessagesTyped, IdleTyped DEF ReadPush, Idle
  <2>2. CASE UNCHANGED <<slot, reader, lost, gaps>>
    <3>1. Waiting' = Waiting /\ Receiving' = Receiving
      BY <2>1, <2>2 DEF Waiting, Receiving
    <3> QED
      BY <2>1, <2>2, <3>1, StopsOrStays DEF history
  <2>3. CASE slot' = Buffered(slot, n) /\ UNCHANGED <<reader, lost, gaps>>
    <3>1. CASE \E b : slot' = [slot EXCEPT !.pendingBuffer = b]
      <4>1. /\ slot'.lastSeq = slot.lastSeq /\ slot'.queue = slot.queue /\ slot'.dropCount = slot.dropCount
            /\ slot'.state = slot.state
        BY <1>0, <3>1 DEF SlotRecs
      <4>2. Waiting' = Waiting /\ Receiving' = Receiving
        BY <2>1, <2>3, <4>1 DEF Waiting, Receiving
      <4> QED
        BY <2>1, <2>3, <4>1, <4>2, StopsOrStays DEF history
    <3>2. CASE slot' = [slot EXCEPT !.dropCount = @ + 1]
      BY <1>0, <2>1, <2>3, <3>2, Counted DEF history
    <3>3. CASE slot' = [slot EXCEPT !.pendingBuffer = Append(Tail(@), n), !.dropCount = @ + 1]
      <4> DEFINE s == [slot EXCEPT !.pendingBuffer = Append(Tail(@), n)]
      <4>1. /\ s.lastSeq = slot.lastSeq /\ s.queue = slot.queue /\ s.dropCount = slot.dropCount
            /\ s.state = slot.state
        BY <1>0 DEF SlotRecs
      <4>2. s \in SlotRecs
        <5>1. slot.pendingBuffer \in Seq(Nat) /\ Len(slot.pendingBuffer) \in Nat
          BY <1>0 DEF SlotRecs
        <5>2. CASE Len(slot.pendingBuffer) = 0
          <6>1. slot' = [slot EXCEPT !.pendingBuffer = Append(@, n)]
            BY <2>3, <5>1, <5>2, SizesAssumption DEF Buffered
          <6> QED
            BY <1>0, <2>1, <3>3, <5>2, <6>1 DEF SlotRecs
        <5>3. CASE Len(slot.pendingBuffer) # 0
          <6>1. Append(Tail(slot.pendingBuffer), n) \in Seq(Nat)
            BY <2>1, <5>1, <5>3
          <6> QED
            BY <1>0, <6>1 DEF SlotRecs
        <5> QED
          BY <5>2, <5>3
      <4>3. slot' = [s EXCEPT !.dropCount = @ + 1]
        BY <1>0, <3>3 DEF SlotRecs
      <4> HIDE DEF s
      <4> QED
        BY <2>1, <2>3, <4>1, <4>2, <4>3, Counted DEF history
    <3> QED
      BY <2>3, <3>1, <3>2, <3>3 DEF Buffered
  <2>4. CASE slot' = [slot EXCEPT !.dropCount = @ + 1] /\ UNCHANGED <<reader, lost, gaps>>
    BY <1>0, <2>1, <2>4, Counted DEF history
  <2>5. CASE slot.state = "ACTIVE" /\ Deliver(slot, n, Idle)
    <3>1. Receiving /\ reader.pc = "free" /\ Idle.draining = reader.draining
      BY <2>1, <2>5 DEF Receiving, Idle
    <3> QED
      BY <1>0, <2>1, <2>5, <3>1, Delivered
  <2> QED
    BY <1>1, <2>2, <2>3, <2>4, <2>5 DEF ReadPush
<1>2. CASE ReadAck
  <2>1. conf' = conf /\ reader = Idle /\ Head(chan).next \in Nat
    BY <1>2, MessagesTyped DEF ReadAck
  <2>2. CASE UNCHANGED <<link, slot, reader, worker, robot, history>>
    <3>1. Waiting' = Waiting /\ Receiving' = Receiving
      BY <2>1, <2>2 DEF Waiting, Receiving
    <3> QED
      BY <2>1, <2>2, <3>1, StopsOrStays
  <2>3. CASE /\ slot.inflight /\ slot.state # "CLOSED"
             /\ Accepted([slot EXCEPT !.inflight = FALSE], Head(chan).next)
    BY <2>1, <2>3, AcceptedStep
  <2>4. CASE /\ slot.inflight /\ slot.state # "CLOSED"
             /\ Refused([slot EXCEPT !.inflight = FALSE], Head(chan).result)
             /\ UNCHANGED <<reader, history>>
    BY <2>1, <2>4, RefusedStep
  <2> QED
    BY <1>2, <2>2, <2>3, <2>4 DEF ReadAck
<1> QED
  BY <1>1, <1>2

LEMMA DrainStep ==
  ASSUME TypeOK, StreamInv, Drain \/ Drained
  PROVE  PromiseStep
<1>0. slot \in SlotRecs /\ SlotOK(slot) /\ conf \in Configs /\ reader \in ReaderRecs
  BY SlotIs
<1>r. reader.draining /\ reader.pc = "free" /\ Receiving /\ conf' = conf
  BY DEF Drain, Drained, Receiving
<1>1. CASE Drain
  <2> DEFINE n == Head(slot.pendingBuffer)
             s == [slot EXCEPT !.pendingBuffer = Tail(@)]
  <2>1. n \in Nat /\ SlotOK(s) /\ s \in SlotRecs /\ epoch' = epoch /\ handed' = handed
    BY <1>1, DrainTyped DEF Drain
  <2>2. s.state = slot.state /\ s.lastSeq = slot.lastSeq /\ s.queue = slot.queue /\ s.dropCount = slot.dropCount
    BY <1>0 DEF SlotRecs
  <2> HIDE DEF s, n
  <2>3. CASE slot' = [s EXCEPT !.dropCount = @ + 1] /\ UNCHANGED <<reader, lost, gaps>>
    BY <1>r, <2>1, <2>2, <2>3, Counted DEF history
  <2>4. CASE Deliver(s, n, reader)
    BY <1>0, <1>r, <2>1, <2>2, <2>4, Delivered
  <2> QED
    BY <1>1, <2>3, <2>4 DEF Drain, s, n
<1>2. CASE Drained
  <2>1. slot'.lastSeq = slot.lastSeq /\ slot'.queue = slot.queue /\ slot'.dropCount = slot.dropCount
    BY <1>0, <1>2 DEF Drained, SlotRecs
  <2>2. reader'.pc = "free" /\ UNCHANGED history
    BY <1>2 DEF Drained, Idle
  <2>3. Waiting' = Waiting
    BY <1>r, <2>1, <2>2, SameWaiting
  <2> QED
    BY <1>r, <2>1, <2>2, <2>3, StopsOrStays
<1> QED
  BY <1>1, <1>2

LEMMA CallbackStep ==
  ASSUME TypeOK, StreamInv, CallInline \/ InlineReturns \/ WorkerTakes \/ WorkerReturns
  PROVE  PromiseStep
<1>0. slot \in SlotRecs /\ SlotOK(slot) /\ conf \in Configs /\ reader \in ReaderRecs
  BY SlotIs
<1>1. CASE CallInline
  <2>1. /\ conf.inline /\ conf' = conf /\ slot' = slot /\ UNCHANGED <<epoch, lost, gaps>>
        /\ reader'.pc = "callback" /\ reader'.draining = reader.draining
    BY <1>0, <1>1 DEF CallInline, StreamInv, Modes, ReaderRecs
  <2>2. Waiting = <<reader.frame>> /\ Waiting' = <<>>
    BY <1>1, <2>1 DEF CallInline, Waiting
  <2>3. Receiving' = Receiving
    BY <1>1, <2>1 DEF CallInline, Receiving, StreamInv, Handing
  <2>4. Waiting # <<>> /\ Head(Waiting) = reader.frame /\ Waiting' = Tail(Waiting)
    BY <2>2
  <2>5. handed' = IF Head(Waiting).seq = 0 THEN handed ELSE Head(Waiting)
    BY <1>1, <2>4 DEF CallInline
  <2>6. Promise!Hand
    BY <2>1, <2>3, <2>4, <2>5 DEF Promise!Hand
  <2> QED
    BY <2>6, Stepped
<1>2. CASE InlineReturns
  <2>1. /\ conf' = conf /\ slot' = slot /\ UNCHANGED history
        /\ reader.pc = "callback" /\ reader'.pc = "free" /\ reader'.draining = reader.draining
    BY <1>0, <1>2 DEF InlineReturns, ReaderRecs
  <2>2. Waiting' = Waiting /\ (Receiving' => Receiving)
    BY <2>1, SameWaiting DEF Receiving
  <2> QED
    BY <2>1, <2>2, StopsOrStays
<1>3. CASE WorkerTakes
  <2>1. ~conf.inline /\ conf' = conf /\ reader' = reader /\ UNCHANGED <<epoch, lost, gaps>>
    BY <1>3 DEF WorkerTakes, StreamInv, Modes
  <2>2. /\ slot'.queue = Tail(slot.queue) /\ slot'.lastSeq = slot.lastSeq
        /\ slot'.dropCount = slot.dropCount /\ slot'.state = slot.state
    BY <1>0, <1>3 DEF WorkerTakes, SlotRecs
  <2>3. Waiting = slot.queue /\ Waiting' = Tail(Waiting) /\ Waiting # <<>>
    BY <1>3, <2>1, <2>2 DEF WorkerTakes, Waiting
  <2>4. Receiving' = Receiving
    BY <2>1, <2>2 DEF Receiving
  <2>5. handed' = IF Head(Waiting).seq = 0 THEN handed ELSE Head(Waiting)
    BY <1>3, <2>3 DEF WorkerTakes
  <2>6. Promise!Hand
    BY <2>1, <2>2, <2>3, <2>4, <2>5 DEF Promise!Hand
  <2> QED
    BY <2>6, Stepped
<1>4. CASE WorkerReturns
  <2>1. conf' = conf /\ slot' = slot /\ reader' = reader /\ UNCHANGED history
    BY <1>4 DEF WorkerReturns
  <2>2. Waiting' = Waiting /\ Receiving' = Receiving
    BY <2>1 DEF Waiting, Receiving
  <2> QED
    BY <2>1, <2>2, StopsOrStays
<1> QED
  BY <1>1, <1>2, <1>3, <1>4

LEMMA LinkStep ==
  ASSUME TypeOK, StreamInv, Loss \/ Reconnect \/ \E own \in BOOLEAN : Unsubscribe(own)
  PROVE  PromiseStep
<1>0. slot \in SlotRecs
  BY SlotIs
<1>1. conf' = conf /\ UNCHANGED history /\ reader.pc # "hand"
  BY DEF Loss, Reconnect, Unsubscribe, Quiet
<1>2. /\ slot'.lastSeq = slot.lastSeq /\ slot'.queue = slot.queue /\ slot'.dropCount = slot.dropCount
      /\ slot'.state # "ACTIVE"
  <2>1. CASE Loss
    BY <1>0, <2>1 DEF Loss, TransportClose, Paused, SlotRecs
  <2>2. CASE Reconnect
    BY <1>0, <2>2 DEF Reconnect, Asked, SlotRecs
  <2>3. CASE \E own \in BOOLEAN : Unsubscribe(own)
    BY <1>0, <2>3 DEF Unsubscribe, SlotRecs
  <2> QED
    BY <2>1, <2>2, <2>3
<1>i. Idle.pc = "free" /\ ~Idle.draining
  BY DEF Idle
<1>4. reader' = reader \/ (reader'.pc = "free" /\ ~reader'.draining)
  BY <1>i DEF Loss, Reconnect, Unsubscribe
<1>5. Waiting' = Waiting
  BY <1>1, <1>2, <1>4, SameWaiting
<1>6. Receiving' => Receiving
  BY <1>1, <1>2, <1>4 DEF Receiving
<1> QED
  BY <1>1, <1>2, <1>5, <1>6, StopsOrStays

LEMMA RobotStep ==
  ASSUME Produce \/ Serve \/ Answer \/ Push \/ Skip \/ UNCHANGED vars
  PROVE  PromiseStep
<1>1. conf' = conf /\ slot' = slot /\ reader' = reader /\ UNCHANGED history
  BY DEF Produce, Serve, Answer, Push, Skip, vars, history
<1>2. Waiting' = Waiting /\ Receiving' = Receiving
  BY <1>1 DEF Waiting, Receiving
<1> QED
  BY <1>1, <1>2, StopsOrStays

LEMMA PromiseInit == Init => Promise!Init
<1> SUFFICES ASSUME Init
             PROVE  Promise!Init
  OBVIOUS
<1>1. reader.pc = "free" /\ ~reader.draining
  BY DEF Init, Idle
<1>2. slot.state = "PENDING" /\ slot.lastSeq = 0 /\ slot.queue = <<>> /\ slot.dropCount = 0
  BY DEF Init, Asked, NewSlot
<1>3. Receiving = FALSE /\ Waiting = <<>>
  BY <1>1, <1>2 DEF Receiving, Waiting
<1>4. epoch = 0 /\ lost = 0 /\ gaps = 0 /\ handed = NoFrame
  BY DEF Init
<1> QED
  BY <1>2, <1>3, <1>4 DEF Promise!Init, Promise!None, NoFrame

\* SubscriptionStream implements EventStream, whatever the queue, the history
\* and the configuration.
THEOREM Implements == Spec => KeepsPromise
<1>1. TypeOK /\ StreamInv /\ [Next]_vars => [Promise!Next]_(Promise!vars)
  BY MessagesStep, DrainStep, CallbackStep, LinkStep, RobotStep DEF Next, PromiseStep
<1> QED
  BY <1>1, PromiseInit, Invariant, PTL DEF Spec, KeepsPromise, Promise!Spec

-----------------------------------------------------------------------------
(* What follows from the promise, read in the code's own variables.        *)

Proved == INSTANCE EventStream_proof WITH
    receiving <- Receiving, last <- slot.lastSeq, waiting <- Waiting,
    told <- slot.dropCount + gaps

LEMMA SamePromise == KeepsPromise => Proved!Spec
<1>1. Promise!Init => Proved!Init
  BY DEF Promise!Init, Proved!Init, Promise!None, Proved!None
<1>2. [Promise!Next]_(Promise!vars) => [Proved!Next]_(Proved!vars)
  BY DEF Promise!Next, Promise!vars, Promise!Accept, Promise!AcceptUnnumbered, Promise!CountTwice,
         Promise!Hand, Promise!Stop, Promise!Forget, Promise!Resume, Promise!Restart, Promise!Place,
         Proved!Next, Proved!vars, Proved!Accept, Proved!AcceptUnnumbered, Proved!CountTwice,
         Proved!Hand, Proved!Stop, Proved!Forget, Proved!Resume, Proved!Restart, Proved!Place
<1> QED
  BY <1>1, <1>2, PTL DEF KeepsPromise, Promise!Spec, Proved!Spec

\* No frame of a subscription is lost in silence: what last_seq passed over is
\* in drop_count or in a gap count.
THEOREM EveryLossIsTold == Spec => [](lost <= slot.dropCount + gaps)
<1>1. Proved!Accounted => lost <= slot.dropCount + gaps
  BY DEF Proved!Accounted
<1> QED
  BY <1>1, Implements, SamePromise, Proved!NothingLostInSilence, PTL

\* Numbered frames reach the callback in order and none twice, between two
\* announced fresh starts.
THEOREM CallbacksInOrder ==
  Spec => [][Proved!Before(handed, handed')]_handed
<1>1. [handed' # handed => Proved!Before(handed, handed')]_(Proved!vars)
        => [Proved!Before(handed, handed')]_handed
  BY DEF Proved!vars
<1> QED
  BY <1>1, Implements, SamePromise, Proved!NeverHandedTwice, PTL DEF Proved!HandedInOrder
===============================================================================

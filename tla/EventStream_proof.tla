-------------------------- MODULE EventStream_proof --------------------------
(***************************************************************************)
(* Proofs about the promise of EventStream, and so about every stream that *)
(* keeps it: frames are handed over in order and at most once, and none is *)
(* lost in silence.                                                        *)
(*                                                                         *)
(* Ordered is inductive as it stands.  A new frame is later than all that  *)
(* were reached, because the position is known or a fresh start began; and *)
(* while the position is forgotten no frame is accepted.                   *)
(***************************************************************************)
EXTENDS EventStream, TLAPS

\* A queue stays a queue when the oldest frame leaves it or a frame joins it.
LEMMA Queues ==
    ASSUME NEW w \in Seq(Frames)
    PROVE  /\ w # <<>> => /\ Head(w) \in Frames /\ Tail(w) \in Seq(Frames)
                          /\ Head(w) = w[1] /\ Len(w) \in Nat \ {0}
                          /\ Len(Tail(w)) = Len(w) - 1
                          /\ \A i \in 1..Len(Tail(w)) : Tail(w)[i] = w[i + 1]
           /\ \A f \in Frames :
                 /\ Append(w, f) \in Seq(Frames)
                 /\ Len(Append(w, f)) = Len(w) + 1
                 /\ Append(w, f)[Len(w) + 1] = f
                 /\ \A i \in 1..Len(w) : Append(w, f)[i] = w[i]
           /\ Len(w) \in Nat
           /\ \A i \in 1..Len(w) : w[i] \in Frames
  OBVIOUS

\* A frame that arrives is placed, with the numbers it passes over.
LEMMA Accepted ==
    ASSUME TypeOK, Accept \/ AcceptUnnumbered
    PROVE  /\ \E f \in Frames, gap \in Nat : Place(f, gap)
           /\ UNCHANGED <<receiving, epoch, handed>> /\ last' \in Nat
<1>1. last \in Nat /\ epoch \in Nat
  BY DEF TypeOK
<1>2. CASE Accept
  <2>1. last' \in Nat /\ last' > last /\ UNCHANGED <<receiving, epoch, handed>>
    BY <1>2 DEF Accept
  <2>2. Place([epoch |-> epoch, seq |-> last'], IF last = 0 THEN 0 ELSE last' - last - 1)
    BY <1>2 DEF Accept
  <2>3. [epoch |-> epoch, seq |-> last'] \in Frames
    BY <1>1, <2>1 DEF Frames
  <2>4. \A m, n \in Nat : n > m => n - m - 1 \in Nat
    OBVIOUS
  <2>5. (IF last = 0 THEN 0 ELSE last' - last - 1) \in Nat
    BY <1>1, <2>1, <2>4
  <2>6. QED
    BY <2>1, <2>2, <2>3, <2>5
<1>3. CASE AcceptUnnumbered
  <2>1. [epoch |-> epoch, seq |-> 0] \in Frames
    BY <1>1 DEF Frames
  <2>2. QED
    BY <1>1, <1>3, <2>1 DEF AcceptUnnumbered
<1>4. QED
  BY <1>2, <1>3

\* What placing frame f does to the queue, and to what is lost and told.
LEMMA Placed ==
    ASSUME TypeOK, NEW f \in Frames, NEW gap \in Nat, Place(f, gap)
    PROVE  /\ \/ waiting' = waiting
              \/ waiting' = Append(waiting, f)
              \/ waiting # <<>> /\ waiting' = Append(Tail(waiting), f)
           /\ waiting' \in Seq(Frames)
           /\ \E n \in Nat : lost' = lost + n /\ told' = told + n
<1>1. waiting \in Seq(Frames)
  BY DEF TypeOK
<1>2. \/ waiting' = waiting
      \/ waiting' = Append(waiting, f)
      \/ waiting # <<>> /\ waiting' = Append(Tail(waiting), f)
  BY DEF Place
<1>3. waiting' \in Seq(Frames)
  BY <1>1, <1>2, Queues
<1>4. \/ lost' = lost + gap /\ told' = told + gap
      \/ lost' = lost + gap + 1 /\ told' = told + gap + 1
  BY DEF Place
<1>5. lost \in Nat /\ told \in Nat
  BY DEF TypeOK
<1>6. \E n \in Nat : lost' = lost + n /\ told' = told + n
  <2>1. CASE lost' = lost + gap /\ told' = told + gap
    BY <2>1
  <2>2. CASE lost' = lost + gap + 1 /\ told' = told + gap + 1
    <3>1. gap + 1 \in Nat /\ lost' = lost + (gap + 1) /\ told' = told + (gap + 1)
      BY <2>2, <1>5
    <3>2. QED
      BY <3>1
  <2>3. QED
    BY <1>4, <2>1, <2>2
<1>7. QED
  BY <1>2, <1>3, <1>6

\* The types of the promise are an invariant.
THEOREM TypeCorrect == Spec => []TypeOK
<1>1. Init => TypeOK
  <2>1. <<>> \in Seq(Frames)
    OBVIOUS
  <2>2. None \in Frames
    BY DEF None, Frames
  <2>3. 0 \in Nat
    OBVIOUS
  <2>4. QED
    BY <2>1, <2>2, <2>3, Zenon DEF Init, TypeOK
<1>2. TypeOK /\ [Next]_vars => TypeOK'
  <2> SUFFICES ASSUME TypeOK, [Next]_vars PROVE TypeOK'
    OBVIOUS
  <2>0. lost \in Nat /\ told \in Nat /\ last \in Nat /\ epoch \in Nat
    BY DEF TypeOK
  <2>1. CASE Accept \/ AcceptUnnumbered
    <3>1. PICK f \in Frames, gap \in Nat : Place(f, gap)
      BY <2>1, Accepted
    <3>2. waiting' \in Seq(Frames) /\ lost' \in Nat /\ told' \in Nat
      BY <2>0, <3>1, Placed
    <3>3. QED
      BY <2>1, <3>2, Accepted DEF TypeOK
  <2>2. CASE CountTwice
    <3>1. told' \in Nat
      BY <2>0, <2>2 DEF CountTwice
    <3>2. QED
      BY <2>2, <3>1 DEF CountTwice, TypeOK
  <2>3. CASE Resume
    <3>1. last' \in Nat /\ last' >= last /\ lost' = lost + (last' - last) /\ told' = told + (last' - last)
      BY <2>3, Zenon DEF Resume
    <3>2. \A m, n \in Nat : n >= m => n - m \in Nat
      OBVIOUS
    <3>3. PICK n \in Nat : lost' = lost + n /\ told' = told + n
      BY <2>0, <3>1, <3>2, Zenon
    <3>4. lost' \in Nat /\ told' \in Nat
      BY <2>0, <3>3
    <3>5. QED
      BY <2>3, <3>1, <3>4 DEF Resume, TypeOK
  <2>4. CASE Restart
    <3>1. last' \in Nat /\ epoch' \in Nat
      BY <2>0, <2>4 DEF Restart
    <3>2. QED
      BY <2>4, <3>1 DEF Restart, TypeOK
  <2>5. CASE Stop \/ Forget
    <3>1. 0 \in Nat
      OBVIOUS
    <3>2. QED
      BY <2>5, <3>1, Zenon DEF Stop, Forget, TypeOK
  <2>6. CASE Hand
    BY <2>6, Queues DEF Hand, TypeOK
  <2>7. CASE UNCHANGED vars
    BY <2>7 DEF vars, TypeOK
  <2>8. QED
    BY <2>1, <2>2, <2>3, <2>4, <2>5, <2>6, <2>7 DEF Next
<1>3. QED
  BY <1>1, <1>2, PTL DEF Spec

\* No frame is lost in silence: for every stream that keeps the promise, the
\* numbers passed over and not kept never exceed what was told.
THEOREM NothingLostInSilence == Spec => []Accounted
<1>1. Init => Accounted
  BY DEF Init, Accounted
<1>2. TypeOK /\ Accounted /\ [Next]_vars => Accounted'
  <2> SUFFICES ASSUME TypeOK, Accounted, [Next]_vars PROVE Accounted'
    OBVIOUS
  <2>0. lost \in Nat /\ told \in Nat /\ last \in Nat /\ lost <= told
    BY DEF TypeOK, Accounted
  <2>1. CASE Accept \/ AcceptUnnumbered
    <3>1. PICK f \in Frames, gap \in Nat : Place(f, gap)
      BY <2>1, Accepted
    <3>2. PICK n \in Nat : lost' = lost + n /\ told' = told + n
      BY <3>1, Placed
    <3>3. QED
      BY <2>0, <3>2 DEF Accounted
  <2>2. CASE CountTwice
    BY <2>0, <2>2 DEF CountTwice, Accounted
  <2>3. CASE Resume
    <3>1. /\ last' \in Nat /\ last' >= last
          /\ lost' = lost + (last' - last) /\ told' = told + (last' - last)
      BY <2>3, Zenon DEF Resume
    <3>2. \A m, n \in Nat : n >= m => n - m \in Nat
      OBVIOUS
    <3>3. PICK n \in Nat : lost' = lost + n /\ told' = told + n
      BY <2>0, <3>1, <3>2, Zenon
    <3>4. QED
      BY <2>0, <3>3 DEF Accounted
  <2>4. CASE Stop \/ Forget \/ Restart \/ Hand \/ UNCHANGED vars
    BY <2>0, <2>4 DEF Stop, Forget, Restart, Hand, vars, Accounted
  <2>5. QED
    BY <2>1, <2>2, <2>3, <2>4 DEF Next
<1>3. QED
  BY <1>1, <1>2, TypeCorrect, PTL DEF Spec

-----------------------------------------------------------------------------

\* A queue in order stays so when a frame joins it that is later than all.
LEMMA AppendSorted ==
    ASSUME NEW w \in Seq(Frames), NEW g \in Frames, NEW f \in Frames, Sorted(w, g),
           f.seq # 0 => /\ Before(g, f)
                        /\ \A i \in 1..Len(w) : w[i].seq # 0 => Before(w[i], f)
    PROVE  Sorted(Append(w, f), g)
<1> DEFINE v == Append(w, f)
<1>1. SUFFICES ASSUME NEW i \in 1..Len(v), v[i].seq # 0
               PROVE  /\ Before(g, v[i])
                      /\ \A j \in 1..(i - 1) : v[j].seq # 0 => Before(v[j], v[i])
  BY DEF Sorted
<1>2. Len(w) \in Nat /\ Len(v) = Len(w) + 1
  BY Queues
<1>3. CASE i = Len(w) + 1
  <2>1. v[i] = f /\ \A j \in 1..(i - 1) : j \in 1..Len(w) /\ v[j] = w[j]
    BY <1>2, <1>3, Queues
  <2>2. QED
    BY <1>1, <2>1
<1>4. CASE i # Len(w) + 1
  <2>1. i \in 1..Len(w) /\ v[i] = w[i] /\ \A j \in 1..(i - 1) : j \in 1..Len(w) /\ v[j] = w[j]
    BY <1>2, <1>4, Queues
  <2>2. QED
    BY <1>1, <2>1 DEF Sorted
<1>5. QED
  BY <1>3, <1>4

\* A queue in order stays so when its oldest frame leaves, after that frame too.
LEMMA TailSorted ==
    ASSUME NEW w \in Seq(Frames), w # <<>>, NEW g \in Frames, Sorted(w, g)
    PROVE  /\ Sorted(Tail(w), g)
           /\ Head(w).seq # 0 => Sorted(Tail(w), Head(w)) /\ Before(g, Head(w))
<1> DEFINE v == Tail(w)
<1>1. Len(w) \in Nat \ {0} /\ Len(v) = Len(w) - 1 /\ Head(w) = w[1]
  BY Queues
<1>2. \A i \in 1..Len(v) : v[i] = w[i + 1] /\ i + 1 \in 1..Len(w)
  BY <1>1, Queues
<1>3. ASSUME NEW i \in 1..Len(v), v[i].seq # 0
      PROVE  /\ Before(g, v[i])
             /\ \A j \in 1..(i - 1) : v[j].seq # 0 => Before(v[j], v[i])
             /\ Head(w).seq # 0 => Before(Head(w), v[i])
  <2>1. i + 1 \in 1..Len(w) /\ w[i + 1].seq # 0 /\ v[i] = w[i + 1]
    BY <1>2, <1>3
  <2>2. \A k \in 1..((i + 1) - 1) : w[k].seq # 0 => Before(w[k], w[i + 1])
    BY <2>1 DEF Sorted
  <2>3. \A j \in 1..(i - 1) : j \in 1..Len(v) /\ v[j] = w[j + 1] /\ j + 1 \in 1..((i + 1) - 1)
    BY <1>1, <1>2
  <2>4. 1 \in 1..((i + 1) - 1)
    BY <1>1
  <2>5. QED
    BY <1>1, <2>1, <2>2, <2>3, <2>4 DEF Sorted
<1>4. Head(w).seq # 0 => Before(g, Head(w))
  BY <1>1 DEF Sorted
<1>5. QED
  BY <1>3, <1>4 DEF Sorted

\* What was reached comes before a later number, and stays reached when the
\* position moves up, is forgotten, or begins anew.
LEMMA ReachedSteps ==
    ASSUME TypeOK, NEW f \in Frames, Reached(f)
    PROVE  /\ receiving => \A n \in Nat : n > last => Before(f, [epoch |-> epoch, seq |-> n])
           /\ (Accept \/ AcceptUnnumbered) => Reached(f)'
           /\ (Stop \/ Forget \/ Resume \/ Restart) => Reached(f)'
           /\ UNCHANGED <<receiving, last, epoch>> => Reached(f)'
<1>1. f.epoch \in Nat /\ f.seq \in Nat
  BY DEF Frames
<1>2. last \in Nat /\ epoch \in Nat
  BY DEF TypeOK
<1>3. receiving => \A n \in Nat : n > last => Before(f, [epoch |-> epoch, seq |-> n])
  BY <1>1, <1>2 DEF Reached, Before
<1>4. Accept => Reached(f)'
  BY <1>1, <1>2 DEF Accept, Reached
<1>5. AcceptUnnumbered => Reached(f)'
  BY DEF AcceptUnnumbered, Reached
<1>6. Stop => Reached(f)'
  BY DEF Stop, Reached
<1>7. Forget => Reached(f)'
  BY DEF Forget, Reached
<1>8. Resume => Reached(f)'
  BY <1>1, <1>2 DEF Resume, Reached
<1>9. Restart => Reached(f)'
  BY <1>1, <1>2 DEF Restart, Reached
<1>10. UNCHANGED <<receiving, last, epoch>> => Reached(f)'
  BY DEF Reached
<1>11. QED
  BY <1>3, <1>4, <1>5, <1>6, <1>7, <1>8, <1>9, <1>10

\* A queue of reached frames, in order after g.
InOrder(w, g) == Sorted(w, g) /\ \A i \in 1..Len(w) : w[i].seq # 0 => Reached(w[i])

\* Such a queue stays one when a frame joins it that is later than all frames
\* reached so far and reached now, and what was reached stays so.
LEMMA AppendInOrder ==
    ASSUME NEW w \in Seq(Frames), NEW g \in Frames, NEW f \in Frames, InOrder(w, g), Reached(g),
           \A h \in Frames : Reached(h) => Reached(h)' /\ (f.seq # 0 => Before(h, f)),
           f.seq # 0 => Reached(f)'
    PROVE  InOrder(Append(w, f), g)'
<1> DEFINE v == Append(w, f)
<1>1. Sorted(v, g)
  BY AppendSorted, Queues DEF InOrder
<1>2. ASSUME NEW i \in 1..Len(v), v[i].seq # 0 PROVE Reached(v[i])'
  <2>1. Len(w) \in Nat /\ Len(v) = Len(w) + 1
    BY Queues
  <2>2. CASE i = Len(w) + 1
    <3>1. v[i] = f
      BY <2>2, Queues
    <3>2. QED
      BY <1>2, <3>1
  <2>3. CASE i # Len(w) + 1
    <3>1. i \in 1..Len(w)
      BY <2>1, <2>3
    <3>2. v[i] = w[i] /\ w[i] \in Frames
      BY <3>1, Queues
    <3>3. QED
      BY <1>2, <3>1, <3>2 DEF InOrder
  <2>4. QED
    BY <2>2, <2>3
<1>3. QED
  BY <1>1, <1>2 DEF InOrder, Sorted, Before

\* Such a queue stays one when its oldest frame leaves.
LEMMA TailInOrder ==
    ASSUME NEW w \in Seq(Frames), w # <<>>, NEW g \in Frames, InOrder(w, g)
    PROVE  /\ InOrder(Tail(w), g)
           /\ Head(w).seq # 0 => /\ InOrder(Tail(w), Head(w))
                                 /\ Reached(Head(w)) /\ Before(g, Head(w))
<1>1. \A i \in 1..Len(Tail(w)) : Tail(w)[i] = w[i + 1] /\ i + 1 \in 1..Len(w)
  BY Queues
<1>2. \A i \in 1..Len(Tail(w)) : Tail(w)[i].seq # 0 => Reached(Tail(w)[i])
  BY <1>1 DEF InOrder
<1>3. Head(w) = w[1] /\ 1 \in 1..Len(w)
  BY Queues
<1>4. QED
  BY <1>2, <1>3, TailSorted DEF InOrder

\* What is handed over and what waits was reached, and is in order.
THEOREM AlwaysOrdered == Spec => []Ordered
<1>1. Init => Ordered
  <2> SUFFICES ASSUME Init PROVE Ordered
    OBVIOUS
  <2>1. waiting = <<>> /\ handed = None /\ epoch = 0 /\ last = 0
    BY DEF Init
  <2>2. Reached(handed)
    BY <2>1 DEF Reached, None
  <2>3. QED
    BY <2>1, <2>2 DEF Ordered, Sorted
<1>2. TypeOK /\ TypeOK' /\ Ordered /\ [Next]_vars => Ordered'
  <2> SUFFICES ASSUME TypeOK, TypeOK', Ordered, [Next]_vars PROVE Ordered'
    OBVIOUS
  <2>0. /\ waiting \in Seq(Frames) /\ waiting' \in Seq(Frames)
        /\ handed \in Frames /\ handed' \in Frames
        /\ InOrder(waiting, handed) /\ Reached(handed)
    BY DEF TypeOK, Ordered, InOrder
  <2>1. SUFFICES \E w \in Seq(Frames), g \in Frames :
                    waiting' = w /\ handed' = g /\ InOrder(w, g)' /\ Reached(g)'
    BY <2>1 DEF Ordered, InOrder, Sorted, Reached, Before
  <2>2. CASE Accept \/ AcceptUnnumbered
    <3>1. PICK f \in Frames, gap \in Nat :
             /\ Place(f, gap)
             /\ f.seq # 0 => receiving /\ receiving' /\ f = [epoch |-> epoch, seq |-> last']
                             /\ last' \in Nat /\ last' > last
      <4>1. last \in Nat /\ epoch \in Nat
        BY DEF TypeOK
      <4>2. CASE Accept
        <5>1. last' \in Nat /\ last' > last /\ receiving /\ receiving'
          BY <4>2 DEF Accept
        <5>2. [epoch |-> epoch, seq |-> last'] \in Frames
          BY <4>1, <5>1 DEF Frames
        <5>3. \A m, n \in Nat : n > m => n - m - 1 \in Nat
          OBVIOUS
        <5>4. (IF last = 0 THEN 0 ELSE last' - last - 1) \in Nat
          BY <4>1, <5>1, <5>3
        <5>5. Place([epoch |-> epoch, seq |-> last'], IF last = 0 THEN 0 ELSE last' - last - 1)
          BY <4>2 DEF Accept
        <5>6. QED
          BY <5>1, <5>2, <5>4, <5>5
      <4>3. CASE AcceptUnnumbered
        <5>1. [epoch |-> epoch, seq |-> 0] \in Frames
          BY <4>1 DEF Frames
        <5>2. QED
          BY <4>3, <5>1 DEF AcceptUnnumbered
      <4>4. QED
        BY <2>2, <4>2, <4>3
    <3>2. handed' = handed /\ epoch' = epoch
      BY <2>2 DEF Accept, AcceptUnnumbered
    <3>3. \A h \in Frames : Reached(h) => Reached(h)' /\ (f.seq # 0 => Before(h, f))
      BY <2>2, <3>1, ReachedSteps
    <3>4. f.seq # 0 => Reached(f)'
      <4>1. SUFFICES ASSUME f.seq # 0 PROVE Reached(f)'
        OBVIOUS
      <4>2. f.epoch = epoch' /\ f.seq = last' /\ last' \in Nat
        BY <3>1, <3>2, <4>1
      <4>3. QED
        BY <4>2 DEF Reached
    <3>5. /\ \/ waiting' = waiting
             \/ waiting' = Append(waiting, f)
             \/ waiting # <<>> /\ waiting' = Append(Tail(waiting), f)
      BY <3>1, Placed
    <3>6. CASE waiting' = waiting
      <4>1. PICK w \in Seq(Frames) : w = waiting
        BY <2>0
      <4>2. \A i \in 1..Len(w) : w[i] \in Frames
        BY Queues
      <4>3. InOrder(w, handed)
        BY <2>0, <4>1
      <4>4. PICK g \in Frames : g = handed
        BY <2>0
      <4>5. InOrder(w, g)'
        BY <3>3, <4>2, <4>3, <4>4 DEF InOrder, Sorted, Before
      <4>6. QED
        BY <2>0, <3>2, <3>3, <3>6, <4>1, <4>4, <4>5
    <3>7. CASE waiting' = Append(waiting, f)
      <4>1. PICK w \in Seq(Frames), g \in Frames : w = waiting /\ g = handed
        BY <2>0
      <4>2. InOrder(Append(w, f), g)' /\ Reached(g)'
        BY <2>0, <3>3, <3>4, <4>1, AppendInOrder
      <4>3. QED
        BY <3>2, <3>7, <4>1, <4>2, Queues
    <3>8. CASE waiting # <<>> /\ waiting' = Append(Tail(waiting), f)
      <4>1. PICK w \in Seq(Frames), g \in Frames : w = Tail(waiting) /\ g = handed
        BY <2>0, <3>8, Queues
      <4>2. InOrder(w, g)
        BY <2>0, <3>8, <4>1, TailInOrder
      <4>3. InOrder(Append(w, f), g)' /\ Reached(g)'
        BY <2>0, <3>3, <3>4, <4>1, <4>2, AppendInOrder
      <4>4. QED
        BY <3>2, <3>8, <4>1, <4>3, Queues
    <3>9. QED
      BY <3>5, <3>6, <3>7, <3>8
  <2>3. CASE ~(Accept \/ AcceptUnnumbered)
    <3>1. \A h \in Frames : Reached(h) => Reached(h)'
      <4>1. CASE Stop \/ Forget \/ Resume \/ Restart
        BY <4>1, ReachedSteps
      <4>2. CASE Hand \/ CountTwice \/ UNCHANGED vars
        <5>1. UNCHANGED <<receiving, last, epoch>>
          BY <4>2 DEF Hand, CountTwice, vars
        <5>2. QED
          BY <5>1, ReachedSteps
      <4>3. QED
        BY <2>3, <4>1, <4>2 DEF Next
    <3>2. \E w \in Seq(Frames), g \in Frames :
             waiting' = w /\ handed' = g /\ InOrder(w, g) /\ Reached(g)
      <4>1. CASE Hand
        <5>1. /\ waiting # <<>> /\ waiting' = Tail(waiting)
              /\ handed' = IF Head(waiting).seq = 0 THEN handed ELSE Head(waiting)
          BY <4>1 DEF Hand
        <5>2. QED
          BY <2>0, <5>1, TailInOrder
      <4>2. CASE UNCHANGED <<waiting, handed>>
        BY <2>0, <4>2
      <4>3. QED
        BY <2>3, <4>1, <4>2 DEF Next, Stop, Forget, Resume, Restart, CountTwice, vars
    <3>3. PICK w \in Seq(Frames), g \in Frames :
             waiting' = w /\ handed' = g /\ InOrder(w, g) /\ Reached(g)
      BY <3>2
    <3>4. \A i \in 1..Len(w) : w[i] \in Frames
      BY Queues
    <3>5. InOrder(w, g)'
      BY <3>1, <3>3, <3>4 DEF InOrder, Sorted, Before
    <3>6. QED
      BY <3>1, <3>3, <3>5
  <2>4. QED
    BY <2>2, <2>3
<1>3. QED
  BY <1>1, <1>2, TypeCorrect, PTL DEF Spec

\* Frames are handed over in order, and none twice.
THEOREM NeverHandedTwice == Spec => HandedInOrder
<1>1. TypeOK /\ Ordered /\ [Next]_vars => [handed' # handed => Before(handed, handed')]_vars
  <2> SUFFICES ASSUME TypeOK, Ordered, Next, handed' # handed PROVE Before(handed, handed')
    BY DEF vars
  <2>1. Hand
    BY Zenon DEF Next, Accept, AcceptUnnumbered, CountTwice, Stop, Forget, Resume, Restart
  <2>2. waiting # <<>> /\ Head(waiting).seq # 0 /\ handed' = Head(waiting)
    BY <2>1 DEF Hand
  <2>3. waiting \in Seq(Frames) /\ handed \in Frames /\ InOrder(waiting, handed)
    BY DEF TypeOK, Ordered, InOrder
  <2>4. QED
    BY <2>2, <2>3, TailInOrder
<1>2. QED
  BY <1>1, TypeCorrect, AlwaysOrdered, PTL DEF Spec, HandedInOrder
=============================================================================

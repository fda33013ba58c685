----------------------------- MODULE EventStream -----------------------------
(***************************************************************************)
(* What the SDK promises the owner of one subscription, whatever happens   *)
(* to the connection: frames are handed over in order and at most once,    *)
(* and between two announcements of a fresh start every number passed over *)
(* was kept, counted in drop_count or announced as a gap.                  *)
(*                                                                         *)
(* A fresh start is a STARTED or RESUMED status without a gap count: it    *)
(* says that the numbers before and after it cannot be compared.  An       *)
(* unnumbered frame (a TELEMETRY frame, or seq 0) has seq 0 here.          *)
(*                                                                         *)
(* SubscriptionStream shows that the code implements this.                 *)
(***************************************************************************)
EXTENDS Integers, Sequences

VARIABLES
    receiving,  \* the stream was announced as running, and no loss since
    last,       \* number of the last frame taken in, 0 for none known
    epoch,      \* fresh starts announced
    waiting,    \* frames kept and not handed over yet
    handed,     \* the last numbered frame handed over
    lost,       \* numbers passed over without being kept, between positions
                \* that can be compared
    told        \* frames reported as lost, in gaps or in drop_count

vars == <<receiving, last, epoch, waiting, handed, lost, told>>

Frames == [epoch : Nat, seq : Nat]
None == [epoch |-> 0, seq |-> 0]

TypeOK ==
    /\ receiving \in BOOLEAN
    /\ last \in Nat /\ epoch \in Nat
    /\ waiting \in Seq(Frames)
    /\ handed \in Frames
    /\ lost \in Nat /\ told \in Nat

Init ==
    /\ receiving = FALSE
    /\ last = 0 /\ epoch = 0
    /\ waiting = <<>> /\ handed = None
    /\ lost = 0 /\ told = 0

-----------------------------------------------------------------------------

\* The new frame f waits, takes the place of the oldest, or is dropped; gap
\* numbers before it are announced as lost.
Place(f, gap) ==
    \/ /\ waiting' = Append(waiting, f)
       /\ lost' = lost + gap /\ told' = told + gap
    \/ /\ \/ waiting' = waiting
          \/ waiting # <<>> /\ waiting' = Append(Tail(waiting), f)
       /\ lost' = lost + gap + 1 /\ told' = told + gap + 1

\* A frame arrives: the first of known position, or later than all before it.
Accept ==
    /\ receiving
    /\ last' \in Nat /\ last' > last
    /\ Place([epoch |-> epoch, seq |-> last'], IF last = 0 THEN 0 ELSE last' - last - 1)
    /\ UNCHANGED <<receiving, epoch, handed>>

AcceptUnnumbered ==
    /\ receiving
    /\ Place([epoch |-> epoch, seq |-> 0], 0)
    /\ UNCHANGED <<receiving, last, epoch, handed>>

\* A frame is counted in drop_count that may yet arrive, or did.
CountTwice ==
    /\ told' = told + 1
    /\ UNCHANGED <<receiving, last, epoch, waiting, handed, lost>>

\* The oldest frame goes to the callback.
Hand ==
    /\ waiting # <<>>
    /\ waiting' = Tail(waiting)
    /\ handed' = IF Head(waiting).seq = 0 THEN handed ELSE Head(waiting)
    /\ UNCHANGED <<receiving, last, epoch, lost, told>>

\* A loss of the connection, or the end of the subscription.
Stop ==
    /\ receiving /\ receiving' = FALSE
    /\ UNCHANGED <<last, epoch, waiting, handed, lost, told>>

\* The robot cannot resume from the known position.
Forget ==
    /\ ~receiving /\ last' = 0
    /\ UNCHANGED <<receiving, epoch, waiting, handed, lost, told>>

\* RESUMED with a gap count: the position moves up by it.
Resume ==
    /\ ~receiving /\ receiving' = TRUE
    /\ last # 0
    /\ last' \in Nat /\ last' >= last
    /\ lost' = lost + (last' - last) /\ told' = told + (last' - last)
    /\ UNCHANGED <<epoch, waiting, handed>>

\* STARTED, or RESUMED without a gap count: any position.
Restart ==
    /\ ~receiving /\ receiving' = TRUE
    /\ epoch' = epoch + 1
    /\ last' \in Nat
    /\ UNCHANGED <<waiting, handed, lost, told>>

Next ==
    \/ Accept \/ AcceptUnnumbered \/ CountTwice \/ Hand
    \/ Stop \/ Forget \/ Resume \/ Restart

Spec == Init /\ [][Next]_vars

-----------------------------------------------------------------------------

\* No frame is lost in silence: every number passed over without
\* a frame being kept was told.
Accounted == lost <= told

\* Frame g comes before frame f.
Before(g, f) == g.epoch < f.epoch \/ (g.epoch = f.epoch /\ g.seq < f.seq)

\* Frame f does not lie beyond the position.
Reached(f) ==
    \/ f.epoch < epoch
    \/ f.epoch = epoch /\ (f.seq <= last \/ (last = 0 /\ ~receiving))

\* The numbered frames of queue w are in order, and after frame g.
Sorted(w, g) ==
    \A i \in 1..Len(w) : w[i].seq # 0 =>
        /\ Before(g, w[i])
        /\ \A j \in 1..(i - 1) : w[j].seq # 0 => Before(w[j], w[i])

\* Numbered frames reach the callback in order, each at most once: the queue
\* is in order, after what was handed over and not past the position.
Ordered ==
    /\ Sorted(waiting, handed)
    /\ \A i \in 1..Len(waiting) : waiting[i].seq # 0 => Reached(waiting[i])
    /\ Reached(handed)

\* What was handed over is never handed over again, and nothing older is.
HandedInOrder == [][handed' # handed => Before(handed, handed')]_vars
=============================================================================

----------------------------- MODULE FifoQueue -----------------------------
(***************************************************************************)
(* What ufifo.v promises its two users: a bounded queue that shows its     *)
(* oldest item without being asked, takes one item and gives one up in a   *)
(* clock, and may be emptied at once.  UFifo implements this module.       *)
(***************************************************************************)
EXTENDS Naturals, Sequences

CONSTANTS Items, Capacity

VARIABLES q,       \* what was written and not yet read
          shown    \* the item at the output

Idle == q' = q
Reset == q' = <<>>
Put(d) == Len(q) < Capacity /\ q' = Append(q, d)
Take == q # <<>> /\ q' = Tail(q)
PutAndTake(d) == q # <<>> /\ q' = Append(Tail(q), d)

QueueInit == q = <<>>

QueueStep ==
    /\ \/ Idle \/ Reset \/ Take
       \/ \E d \in Items : Put(d) \/ PutAndTake(d)
    /\ q' # <<>> => shown' = Head(q')

QueueSpec == QueueInit /\ [][QueueStep]_<<q, shown>>
=============================================================================

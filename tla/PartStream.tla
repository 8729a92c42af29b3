----------------------------- MODULE PartStream ------------------------------
(***************************************************************************)
(* What the ring of paster2 promises one producer and one consumer: a      *)
(* first-in first-out stream of NUM_PARTS results, one for each part in    *)
(* order, at most Capacity of them outstanding.  A result is the number of *)
(* its part, or NoPart when the transfer brought nothing usable.           *)
(***************************************************************************)
EXTENDS Integers, Sequences

CONSTANTS Capacity, NUM_PARTS

NoPart == -1
Idle   == -2
Results(k) == {k, NoPart}

VARIABLES
  sent,   \* how many results were delivered into the stream
  queue,  \* the results delivered and not yet taken
  hand    \* the result being worked on by the consumer, or Idle

vars == <<sent, queue, hand>>

Init == sent = 0 /\ queue = <<>> /\ hand = Idle

Outstanding == Len(queue) + (IF hand = Idle THEN 0 ELSE 1)

Deliver ==
  /\ sent < NUM_PARTS /\ Outstanding < Capacity
  /\ \E v \in Results(sent) : queue' = Append(queue, v)
  /\ sent' = sent + 1
  /\ UNCHANGED hand

Take ==
  /\ hand = Idle /\ queue # <<>>
  /\ hand' = Head(queue)
  /\ queue' = Tail(queue)
  /\ UNCHANGED sent

Release ==
  /\ hand # Idle
  /\ hand' = Idle
  /\ UNCHANGED <<sent, queue>>

Next == Deliver \/ Take \/ Release

Spec == Init /\ [][Next]_vars
=============================================================================

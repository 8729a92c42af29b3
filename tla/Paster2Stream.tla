---------------------------- MODULE Paster2Stream ----------------------------
(***************************************************************************)
(* The ring of paster2, with the one producer and the one consumer the     *)
(* program forks, implements PartStream.  A result is delivered by the     *)
(* producer's sem_post(items), taken by the consumer's sem_wait(items) and *)
(* released when the consumer has emptied, or passed over, its slot.       *)
(***************************************************************************)
EXTENDS Paster2, Sequences

P == 0           \* the producer, main's child 0
C == n_producer  \* the consumer, the child after the producers

\* The slots from the consumer's index that the producer has filled or passed.
Fill ==
  items + (IF pc[P] = "post" THEN 1 ELSE 0) + (IF InSlot(C) THEN 1 ELSE 0)

Wrap(x) == IF x < buf_size THEN x ELSE x - buf_size

\* The two private indices never drift apart: the producer's is ahead of the
\* consumer's by what the semaphores, and the steps around them, say is filled.
RingOrder == idx[P] = Wrap(idx[C] + Fill)

\* c can take no step before another process posts, or unlocks.
Blocked(c) ==
  /\ status[c] = "run"
  /\ \/ pc[c] = "sem_wait" /\ (IF c = P THEN spaces ELSE items) = 0
     \/ pc[c] = "lock" /\ mutex[c]

\* Whoever is blocked in sem_wait (or on its own mutex) waits for a child that has
\* not left its loop and is not blocked itself: one that still runs, has yet to be
\* forked, or has died.  Both loops end on a counter the other moves, and a result
\* without bytes has to be passed over with its token.
NoneStranded ==
  \A c, d \in Children : Blocked(c) /\ d # c => status[d] # "exit" /\ ~Blocked(d)

Result(h) == IF h.size = 0 THEN -1 ELSE h.seq

\* What the consumer has in hand: the slot it has claimed, then its copy of it.
InHand ==
  IF pc[C] \in {"lock", "read"} THEN Result(slot[idx[C]])
  ELSE IF pc[C] \in {"chunk", "add", "paste", "reset"} THEN Result(temp[C])
  ELSE -2

\* The first slot the consumer has not claimed.
FirstPending == IF InSlot(C) THEN Advance(idx[C]) ELSE idx[C]

Pending == [k \in 1 .. items |-> Result(slot[(FirstPending + k - 1) % buf_size])]

\* The part counter runs ahead of sem_post(items) at the end of an iteration.
Delivered == IF pc[P] \in {"next", "post"} THEN counter - 1 ELSE counter

Stream == INSTANCE PartStream
  WITH Capacity <- buf_size, sent <- Delivered, queue <- Pending, hand <- InHand

\* Every behaviour of the ring is a behaviour of the in-order stream, as far as
\* the RECV_BUF headers go (size and seq, not the bytes behind buf): none is lost,
\* duplicated, reordered or overwritten between producer and consumer, whatever
\* the transfers do and wherever a process dies.
ImplementsStream == Stream!Spec
=============================================================================

------------------------ MODULE Paster2DeliveryProofs ------------------------
(***************************************************************************)
(* Theorems about what goes through the ring with one producer and one     *)
(* consumer: it implements the in-order stream of PartStream, what the     *)
(* consumer puts into the image is where it belongs, on a network that     *)
(* delivers everything it is the parts of the first lap that it took, and  *)
(* neither leaves the other blocked.                                       *)
(***************************************************************************)
EXTENDS Paster2Proofs, Paster2Claims

\* The slot of the last result the producer has passed on, or is about to.
LastFilled == Wrap(FirstPending + items)

\* Which result is where: the producer's slot holds the part it asked for, or
\* nothing, until its sem_post.
Handed ==
  /\ \A j \in Slots : slot[j].seq >= -1
  /\ temp[C].seq >= -1 /\ fetched[P].seq >= -1
  /\ pc[P] \in {"copy", "meta"} => fetched[P].seq \in {-1, counter}
  /\ pc[P] \in {"load", "store"} => Result(slot[idx[P]]) \in {-1, counter}
  /\ pc[P] = "next" => Result(slot[idx[P]]) \in {-1, counter - 1}
  /\ pc[P] = "post" => Result(slot[LastFilled]) \in {-1, counter - 1}

Settled == Ordered /\ EmptyOutside /\ PartCounted

\* The types of what the two workers use.
LEMMA StreamTypes ==
  ASSUME OneOfEach, TypeOK
  PROVE  /\ P \in Children /\ C \in Children /\ P # C
         /\ P \in Producers /\ C \notin Producers /\ C \in Consumers
         /\ idx \in [Children -> Slots] /\ pc \in [Children -> Labels]
         /\ slot \in [Slots -> RecvBuf] /\ bytes \in [Slots -> Content]
         /\ items \in Nat /\ counter \in Nat /\ buf_size \in Nat /\ buf_size > 0
         /\ fetched \in [Children -> Fetched] /\ temp \in [Children -> RecvBuf]
         /\ chunk \in [Children -> Content] /\ reg \in [Children -> Nat]
         /\ net \in Networks
BY TwoChildren, ConstantsAssumption DEF TypeOK, PrivateTypes, SharedTypes, LifeTypes

\* What a transfer may put into the producer's temporary.
LEMMA ReceivedSeq ==
  ASSUME NEW ks \in Networks, NEW k \in Nat, NEW r \in Received(ks, k)
  PROVE  r \in Fetched /\ r.seq \in {-1, k}
BY ReceivedType DEF Received, Arrival, Bodies

\* Without the modulus.
LEMMA ModIsWrap ==
  ASSUME NEW j \in Slots, NEW f \in 0 .. buf_size
  PROVE  (j + f) % buf_size = Wrap(j + f)
<1> USE ConstantsAssumption DEF Slots, Wrap
<1>1. CASE j + f < buf_size
  BY <1>1
<1>2. CASE j + f >= buf_size
  <2>1. j + f - buf_size \in 0 .. buf_size - 1
    BY <1>2
  <2>2. (j + f) % buf_size = (j + f - buf_size) % buf_size
    BY <1>2
  <2> QED BY <1>2, <2>1, <2>2
<1> QED BY <1>1, <1>2

\* The room behind the consumer's index.
LEMMA ItemsBound ==
  ASSUME OneOfEach, TypeOK, SemConservation
  PROVE  /\ items <= buf_size
         /\ InSlot(C) => items < buf_size
         /\ pc[P] = "post" => items < buf_size
         /\ InSlot(P) => items < buf_size
         /\ (InSlot(P) \/ pc[P] = "post") /\ InSlot(C) => items + 1 < buf_size
<1>1. InSlot(P) \/ pc[P] = "post" => Holding(P) = 1
  BY DEF InSlot, Holding, Held, ProducerHolds
<1>2. InSlot(C) => Holding(C) = 1
  BY DEF InSlot, Holding, Held
<1>3. Holding(P) \in {0, 1} /\ Holding(C) \in {0, 1}
  BY DEF Holding
<1> QED BY <1>1, <1>2, <1>3, TwoHolders, ConstantsAssumption

\* Where the consumer's unclaimed slots begin, and where they end: unless the
\* producer has yet to post, at its index.
LEMMA Ends ==
  ASSUME OneOfEach, Ordered
  PROVE  /\ FirstPending \in Slots /\ LastFilled \in Slots
         /\ pc[P] # "post" => LastFilled = idx[P]
<1> USE StreamTypes, ItemsBound, WrapFacts, AdvanceStep DEF Ordered
<1>1. FirstPending \in Slots /\ LastFilled \in Slots
  BY DEF FirstPending, LastFilled
<1>2. CASE InSlot(C)
  <2>1. items + 1 \in 0 .. buf_size /\ 0 < items + 1
    BY <1>2
  <2>2. Wrap(Advance(idx[C]) + ((items + 1) - 1)) = Wrap(idx[C] + (items + 1))
    BY <2>1
  <2> QED BY <1>1, <1>2, <2>2 DEF FirstPending, LastFilled, RingOrder, Fill
<1>3. CASE ~InSlot(C)
  BY <1>1, <1>3 DEF FirstPending, LastFilled, RingOrder, Fill
<1> QED BY <1>2, <1>3

-----------------------------------------------------------------------------
(* Handed is inductive. *)

LEMMA ProducerHands ==
  ASSUME OneOfEach, Settled, Handed, ProducerStep(P) \/ Transfer(P)
  PROVE  Handed'
<1> USE StreamTypes DEF Settled, Ordered, At, Goto
<1>1. CASE Fetch(P)
  <2>1. PICK r \in Received(net, counter) : fetched' = [fetched EXCEPT ![P] = r]
    BY <1>1 DEF Fetch
  <2>2. r.seq \in {-1, counter} /\ fetched'[P] = r
    BY <2>1, ReceivedSeq
  <2> QED BY <1>1, <2>2 DEF Fetch, Handed, Result, sems, ring
<1>2. CASE FetchNoHandle(P)
  <2>1. Result(slot[idx[P]]) = -1
    BY <1>2 DEF FetchNoHandle, Result
  <2> QED BY <1>2, <2>1 DEF FetchNoHandle, Handed, Result, sems, ring, locals
<1>3. CASE Publish(P)
  <2>1. /\ slot' = [slot EXCEPT ![idx[P]] = Published(@, fetched[P])]
        /\ fetched'[P] = NoFetch /\ idx' = idx /\ counter' = counter /\ temp' = temp
        /\ pc'[P] = "load" /\ pc[P] = "meta"
    BY <1>3 DEF Publish
  <2>2. slot'[idx[P]].seq = fetched[P].seq
    BY <2>1 DEF Published
  <2> QED BY <2>1, <2>2 DEF Handed, Result, NoFetch
<1>4. CASE StoreCounter(P)
  <2>1. counter' = counter + 1 /\ pc'[P] = "next" /\ pc[P] = "store"
    BY <1>4 DEF StoreCounter, PartCounted
  <2> QED BY <1>4, <2>1 DEF StoreCounter, Handed, Result, ring, locals
<1>5. CASE NextIndex(P)
  <2>1. LastFilled' = idx[P]
    <3>1. UNCHANGED <<items, idx[C], pc[C]>> /\ pc[P] = "next"
      BY <1>5 DEF NextIndex, sems
    <3> QED BY <3>1, Ends DEF LastFilled, FirstPending, InSlot, Wrap
  <2> QED BY <1>5, <2>1 DEF NextIndex, Handed, Result, ring, locals
<1>6. CASE CheckCounter(P) \/ ProducerWait(P) \/ Lock(P) \/ ProducerSkip(P) \/ Copy(P)
           \/ LoadCounter(P) \/ ProducerPost(P) \/ ChildCleanup(P)
  <2>1. UNCHANGED <<slot, temp, fetched, counter, idx>>
    BY <1>6 DEF CheckCounter, ProducerWait, Lock, ProducerSkip, Copy, LoadCounter,
       ProducerPost, ChildCleanup, ring, locals
  <2>2. /\ pc'[P] \notin {"next", "post"}
        /\ pc'[P] \in {"load", "store"} => pc[P] \in {"load", "store"}
        /\ pc'[P] \in {"copy", "meta"} => pc[P] \in {"copy", "meta"}
    BY <1>6, EmptyAtGet DEF CheckCounter, ProducerWait, Lock, ProducerSkip, Copy,
       LoadCounter, ProducerPost, ChildCleanup
  <2> QED BY <2>1, <2>2 DEF Handed, Result
<1> QED BY <1>1, <1>2, <1>3, <1>4, <1>5, <1>6 DEF ProducerStep, Transfer

LEMMA ConsumerHands ==
  ASSUME OneOfEach, Settled, Handed, ConsumerStep(C)
  PROVE  Handed'
<1> USE StreamTypes DEF Settled, Ordered, At, Goto
<1>0. UNCHANGED <<counter, fetched>> /\ pc'[P] = pc[P] /\ idx'[P] = idx[P]
  BY DEF ConsumerStep, CheckCounter, ConsumerWait, Lock, Read, ReadEmpty, RetrieveChunk,
     AddLength, Paste, Reset, NextIndex, ConsumerPost, ChildCleanup, locals
<1>1. LastFilled' = LastFilled
  <2>1. CASE ConsumerWait(C)
    <3>1. /\ pc[C] = "sem_wait" /\ pc'[C] = "lock" /\ idx' = idx
          /\ items' = items - 1 /\ items \in 0 .. buf_size /\ 0 < items
      BY <2>1, ItemsBound DEF ConsumerWait
    <3>2. FirstPending = idx[C] /\ FirstPending' = Advance(idx[C])
      BY <3>1 DEF FirstPending, InSlot, ProducerHolds, ConsumerHolds, Advance
    <3> QED BY <3>1, <3>2, WrapFacts DEF LastFilled, Wrap
  <2>2. CASE NextIndex(C)
    <3>1. /\ pc[C] = "next" /\ pc'[C] = "post" /\ idx'[C] = Advance(idx[C])
          /\ items' = items
      BY <2>2 DEF NextIndex, sems
    <3> QED BY <3>1 DEF LastFilled, FirstPending, InSlot, ProducerHolds, ConsumerHolds,
            Advance, Wrap
  <2>3. CASE ~ConsumerWait(C) /\ ~NextIndex(C)
    <3>1. UNCHANGED <<items, idx>> /\ InSlot(C)' = InSlot(C)
      BY <2>3 DEF ConsumerStep, CheckCounter, Lock, Read, ReadEmpty, RetrieveChunk,
         AddLength, Paste, Reset, ConsumerPost, ChildCleanup, sems, InSlot,
         ProducerHolds, ConsumerHolds
    <3> QED BY <3>1 DEF LastFilled, FirstPending, Advance, Wrap
  <2> QED BY <2>1, <2>2, <2>3
<1>2. CASE Reset(C)
  <2>1. /\ slot' = [slot EXCEPT ![idx[C]] = FreshBuf(C)]
        /\ temp' = [temp EXCEPT ![C] = FreshBuf(MAIN)]
    BY <1>2 DEF Reset
  <2>2. \A j \in Slots : /\ slot'[j].seq >= -1
                         /\ Result(slot'[j]) \in {-1, Result(slot[j])}
    BY <2>1 DEF Handed, FreshBuf, Result
  <2>3. idx[P] \in Slots /\ LastFilled \in Slots /\ temp'[C].seq >= -1
    BY <2>1, Ends DEF FreshBuf
  <2> QED BY <1>0, <1>1, <2>2, <2>3 DEF Handed, Result
<1>3. CASE Read(C)
  <2>1. slot' = slot /\ temp' = [temp EXCEPT ![C] = slot[idx[C]]]
    BY <1>3 DEF Read, ring
  <2>2. temp'[C].seq >= -1
    BY <2>1 DEF Handed
  <2> QED BY <1>0, <1>1, <2>1, <2>2 DEF Handed, Result
<1>4. CASE ~Reset(C) /\ ~Read(C)
  <2>1. UNCHANGED <<slot, temp>>
    BY <1>4 DEF ConsumerStep, CheckCounter, ConsumerWait, Lock, ReadEmpty, RetrieveChunk,
       AddLength, Paste, NextIndex, ConsumerPost, ChildCleanup, locals, ring
  <2> QED BY <1>0, <1>1, <2>1 DEF Handed, Result
<1> QED BY <1>2, <1>3, <1>4

\* The parent, a death and the end leave the workers' variables alone.
LEMMA OthersStep ==
  ASSUME MainStep \/ ForkFails \/ (\E c \in Children : Crash(c)) \/ Terminated
         \/ UNCHANGED vars
  PROVE  UNCHANGED <<counter, items, slot, bytes, pc, idx, fetched, temp, chunk,
                     idat_data>>
BY DEF MainStep, Fork, ForkFails, WaitNone, WaitpidNone, Catpng, MainCleanup, Wait, Crash,
   Terminated, vars, sems, ring, locals, image

\* What holds in every reachable state.
Delivering == Settled /\ Handed

LEMMA DeliveringInductive ==
  ASSUME OneOfEach
  PROVE  /\ Init => Delivering
         /\ Delivering /\ [Next]_vars => Delivering'
<1>1. Init => Settled
  BY OrderInductive, EmptyInductive, CountedInductive DEF Settled
<1>2. Settled /\ [Next]_vars => Settled'
  BY OrderInductive, EmptyInductive, CountedInductive DEF Settled, Ordered
<1>3. Init => Handed
  BY TwoChildren DEF Init, Handed, FreshBuf, NoFetch
<1>4. ASSUME Settled, Handed, [Next]_vars PROVE Handed'
  <2>1. CASE \E p \in Producers : ProducerStep(p) \/ Transfer(p)
    BY <1>4, <2>1, TwoChildren, ProducerHands
  <2>2. CASE \E c \in Consumers : ConsumerStep(c)
    BY <1>4, <2>2, TwoChildren, ConsumerHands
  <2>3. CASE MainStep \/ ForkFails \/ (\E c \in Children : Crash(c)) \/ Terminated
             \/ UNCHANGED vars
    BY <1>4, <2>3, OthersStep DEF Handed, Result, LastFilled, FirstPending, InSlot, Wrap,
       Advance
  <2> QED BY <1>4, <2>1, <2>2, <2>3 DEF Next
<1> QED BY <1>1, <1>2, <1>3, <1>4 DEF Delivering

-----------------------------------------------------------------------------
(* The ring implements the stream. *)

\* The slot of the k-th result that nobody has claimed.
PendingSlot(k) == Wrap(FirstPending + (k - 1))

LEMMA PendingSlots ==
  ASSUME OneOfEach, Ordered
  PROVE  /\ Pending = [k \in 1 .. items |-> Result(slot[PendingSlot(k)])]
         /\ \A k \in 1 .. items : PendingSlot(k) \in Slots
         /\ InSlot(P) => \A k \in 1 .. items : PendingSlot(k) # idx[P]
         /\ InSlot(C) => \A k \in 1 .. items : PendingSlot(k) # idx[C]
<1> USE StreamTypes, ItemsBound, Ends, WrapFacts DEF Ordered
<1>1. ASSUME NEW k \in 1 .. items
      PROVE  /\ PendingSlot(k) = (FirstPending + k - 1) % buf_size
             /\ PendingSlot(k) \in Slots
  <2>1. k - 1 \in 0 .. buf_size /\ FirstPending + (k - 1) = FirstPending + k - 1
    BY ConstantsAssumption DEF Slots
  <2> QED BY <2>1, ModIsWrap DEF PendingSlot
<1>2. Pending = [k \in 1 .. items |-> Result(slot[PendingSlot(k)])]
  BY <1>1 DEF Pending
<1>3. ASSUME InSlot(P), NEW k \in 1 .. items PROVE PendingSlot(k) # idx[P]
  <2>1. pc[P] # "post" /\ idx[P] = Wrap(FirstPending + items)
    BY <1>3 DEF InSlot, LastFilled
  <2> QED BY <1>3, <2>1, ConstantsAssumption DEF PendingSlot, Wrap, Slots
<1>4. ASSUME InSlot(C), NEW k \in 1 .. items PROVE PendingSlot(k) # idx[C]
  <2>1. FirstPending = Advance(idx[C])
    BY <1>4 DEF FirstPending
  <2>2. k \in 0 .. buf_size /\ 0 < k /\ k < buf_size
    BY <1>4
  <2>3. Wrap(Advance(idx[C]) + (k - 1)) = Wrap(idx[C] + k)
    BY <2>2
  <2> QED BY <2>1, <2>2, <2>3 DEF PendingSlot
<1> QED BY <1>1, <1>2, <1>3, <1>4

\* As long as the same slots are pending with the same results.
LEMMA SamePending ==
  ASSUME OneOfEach, Ordered, Ordered', UNCHANGED <<items, FirstPending>>,
         \A k \in 1 .. items : Result(slot'[PendingSlot(k)]) = Result(slot[PendingSlot(k)])
  PROVE  Pending' = Pending
<1>1. Pending = [k \in 1 .. items |-> Result(slot[PendingSlot(k)])]
  BY PendingSlots
<1>2. Pending' = [k \in 1 .. items' |-> Result(slot'[PendingSlot(k)'])]
  <2>1. \A k \in 1 .. items' : (FirstPending' + k - 1) % buf_size = PendingSlot(k)'
    <3> SUFFICES ASSUME NEW k \in 1 .. items
                 PROVE  (FirstPending + k - 1) % buf_size = PendingSlot(k)
      BY DEF PendingSlot, Wrap
    <3>1. k - 1 \in 0 .. buf_size /\ FirstPending \in Slots
          /\ FirstPending + (k - 1) = FirstPending + k - 1
      BY StreamTypes, ItemsBound, Ends DEF Ordered, Slots
    <3> QED BY <3>1, ModIsWrap DEF PendingSlot
  <2> QED BY <2>1 DEF Pending, Result
<1>3. \A k : PendingSlot(k)' = PendingSlot(k)
  BY DEF PendingSlot, Wrap
<1> QED BY <1>1, <1>2, <1>3

\* What the consumer has in hand is a result.
LEMMA HandIsResult ==
  ASSUME OneOfEach, Settled, Handed
  PROVE  /\ InHand # -2 <=> pc[C] \in {"lock", "read", "chunk", "add", "paste", "reset"}
         /\ InHand # -2 => InSlot(C)
<1>1. idx[C] \in Slots /\ slot[idx[C]].seq \in Int /\ temp[C].seq \in Int
      /\ slot[idx[C]].seq >= -1 /\ temp[C].seq >= -1
  BY StreamTypes DEF Settled, Ordered, Handed, RecvBuf
<1> QED BY <1>1 DEF InHand, Result, InSlot, ProducerHolds, ConsumerHolds

\* The producer's post delivers its result; nothing else it does is seen.
LEMMA ProducerMaps ==
  ASSUME OneOfEach, Settled, Handed, Settled', ProducerStep(P) \/ Transfer(P)
  PROVE  Stream!Deliver \/ UNCHANGED Stream!vars
<1> USE StreamTypes DEF Settled, Ordered, At, Goto
<1>0. UNCHANGED <<pc[C], idx[C], temp>>
  BY DEF ProducerStep, Transfer, CheckCounter, ProducerWait, Lock, ProducerSkip, Fetch,
     FetchNoHandle, Copy, Publish, LoadCounter, StoreCounter, NextIndex, ProducerPost,
     ChildCleanup, locals
<1>1. UNCHANGED FirstPending
  BY <1>0 DEF FirstPending, InSlot, Advance
<1>2. CASE ProducerPost(P)
  <2>1. /\ slot' = slot /\ items' = items + 1 /\ counter' = counter
        /\ pc[P] = "post" /\ pc'[P] = "check"
    BY <1>2 DEF ProducerPost, ring
  <2>2. Delivered = counter - 1 /\ Delivered' = Delivered + 1 /\ Delivered < NUM_PARTS
    BY <2>1, TransferAssumption DEF Delivered, PartCounted
  <2>3. UNCHANGED InHand
    BY <1>0, <2>1 DEF InHand, Result
  <2>4. Pending = [k \in 1 .. items |-> Result(slot[PendingSlot(k)])]
    BY PendingSlots
  <2>5. Pending' = [k \in 1 .. items + 1 |-> Result(slot[PendingSlot(k)])]
    <3>1. \A k \in 1 .. items + 1 : (FirstPending + k - 1) % buf_size = PendingSlot(k)
      <4> SUFFICES ASSUME NEW k \in 1 .. items + 1
                   PROVE  (FirstPending + k - 1) % buf_size = PendingSlot(k)
        OBVIOUS
      <4>1. k - 1 \in 0 .. buf_size /\ FirstPending \in Slots
            /\ FirstPending + (k - 1) = FirstPending + k - 1
        BY ItemsBound, Ends DEF Slots
      <4> QED BY <4>1, ModIsWrap DEF PendingSlot
    <3> QED BY <1>1, <2>1, <3>1 DEF Pending, Result
  <2>6. Result(slot[PendingSlot(items + 1)]) \in {-1, Delivered}
    BY <2>1, <2>2 DEF Handed, LastFilled, PendingSlot
  <2>7. Pending' = Append(Pending, Result(slot[PendingSlot(items + 1)]))
    BY <2>4, <2>5
  <2>8. Len(Pending) + (IF InHand = -2 THEN 0 ELSE 1) < buf_size
    <3>1. Len(Pending) = items
      BY <2>4
    <3> QED BY <2>1, <3>1, HandIsResult, ItemsBound
  <2> QED BY <2>2, <2>3, <2>6, <2>7, <2>8
          DEF Stream!Deliver, Stream!Outstanding, Stream!Results, Stream!NoPart, Stream!Idle
<1>3. CASE Publish(P)
  <2>1. /\ slot' = [slot EXCEPT ![idx[P]] = Published(@, fetched[P])] /\ items' = items
        /\ counter' = counter /\ pc[P] = "meta" /\ pc'[P] = "load" /\ InSlot(P)
    BY <1>3 DEF Publish, sems, InSlot, ProducerHolds
  <2>2. \A k \in 1 .. items : slot'[PendingSlot(k)] = slot[PendingSlot(k)]
    BY <2>1, PendingSlots
  <2>3. Pending' = Pending
    BY <1>1, <2>1, <2>2, SamePending
  <2>4. InHand' = InHand
    <3>1. CASE InSlot(C)
      <4>1. idx[C] # idx[P]
        BY <2>1, <3>1, FillBound, WrapFacts DEF RingOrder
      <4>2. slot'[idx[C]] = slot[idx[C]]
        BY <2>1, <4>1
      <4> QED BY <1>0, <4>2 DEF InHand, Result
    <3>2. CASE ~InSlot(C)
      BY <1>0, <3>2 DEF InHand, InSlot, ProducerHolds, ConsumerHolds, Result
    <3> QED BY <3>1, <3>2
  <2> QED BY <2>1, <2>3, <2>4 DEF Stream!vars, Delivered
<1>4. CASE ~ProducerPost(P) /\ ~Publish(P)
  <2>1. UNCHANGED <<slot, items>>
    BY <1>4 DEF ProducerStep, Transfer, CheckCounter, ProducerWait, Lock, ProducerSkip,
       Fetch, FetchNoHandle, Copy, LoadCounter, StoreCounter, NextIndex, ChildCleanup,
       sems, ring
  <2>2. Delivered' = Delivered
    <3>1. CASE StoreCounter(P)
      BY <3>1 DEF StoreCounter, Delivered, PartCounted
    <3>2. CASE NextIndex(P)
      BY <3>2 DEF NextIndex, Delivered
    <3>3. CASE ~StoreCounter(P) /\ ~NextIndex(P)
      <4>1. counter' = counter /\ pc[P] \notin {"next", "post"}
            /\ pc'[P] \notin {"next", "post"}
        BY <1>4, <3>3, EmptyAtGet DEF ProducerStep, Transfer, CheckCounter, ProducerWait,
           Lock, ProducerSkip, Fetch, FetchNoHandle, Copy, LoadCounter, ChildCleanup
      <4> QED BY <4>1 DEF Delivered
    <3> QED BY <3>1, <3>2, <3>3
  <2>3. Pending' = Pending
    BY <1>1, <2>1, SamePending
  <2>4. InHand' = InHand
    BY <1>0, <2>1 DEF InHand, Result
  <2> QED BY <2>2, <2>3, <2>4 DEF Stream!vars
<1> QED BY <1>2, <1>3, <1>4

\* The consumer takes with its wait and releases when the slot is empty.
LEMMA ConsumerMaps ==
  ASSUME OneOfEach, Settled, Handed, Settled', ConsumerStep(C)
  PROVE  Stream!Take \/ Stream!Release \/ UNCHANGED Stream!vars
<1> USE StreamTypes DEF Settled, Ordered, At, Goto
<1>0. Delivered' = Delivered
  <2>1. counter' = counter /\ pc'[P] = pc[P]
    BY DEF ConsumerStep, CheckCounter, ConsumerWait, Lock, Read, ReadEmpty, RetrieveChunk,
       AddLength, Paste, Reset, NextIndex, ConsumerPost, ChildCleanup
  <2> QED BY <2>1 DEF Delivered
<1>1. CASE ConsumerWait(C)
  <2>1. /\ pc[C] = "sem_wait" /\ pc'[C] = "lock" /\ idx' = idx /\ slot' = slot
        /\ items > 0 /\ items' = items - 1
    BY <1>1 DEF ConsumerWait, ring
  <2>2. /\ FirstPending = idx[C] /\ FirstPending' = Advance(idx[C])
        /\ InHand = -2 /\ InHand' = Result(slot[idx[C]])
    BY <2>1 DEF FirstPending, InHand, InSlot, ProducerHolds, ConsumerHolds, Advance, Result
  <2>3. Pending = [k \in 1 .. items |-> Result(slot[PendingSlot(k)])]
    BY PendingSlots
  <2>4. ASSUME NEW k \in 1 .. items - 1
        PROVE  (FirstPending' + k - 1) % buf_size = PendingSlot(k + 1)
    <3>1. k \in 0 .. buf_size /\ 0 < k /\ k - 1 \in 0 .. buf_size
      BY <2>1, ItemsBound
    <3>2. Advance(idx[C]) \in Slots
      BY AdvanceStep
    <3>3. (Advance(idx[C]) + (k - 1)) % buf_size = Wrap(Advance(idx[C]) + (k - 1))
      BY <3>1, <3>2, ModIsWrap
    <3>4. Wrap(Advance(idx[C]) + (k - 1)) = Wrap(idx[C] + k)
      BY <3>1, WrapFacts
    <3>5. Advance(idx[C]) + (k - 1) = FirstPending' + k - 1 /\ (k + 1) - 1 = k
      BY <2>2, <3>2 DEF Slots
    <3> QED BY <2>2, <3>3, <3>4, <3>5 DEF PendingSlot
  <2>5. Pending' = [k \in 1 .. items - 1 |-> Result(slot[PendingSlot(k + 1)])]
    BY <2>1, <2>4 DEF Pending, Result
  <2>6. PendingSlot(1) = idx[C]
    BY <2>2, WrapFacts DEF PendingSlot, Slots
  <2>7. Pending # <<>> /\ Head(Pending) = Result(slot[idx[C]]) /\ Pending' = Tail(Pending)
    BY <2>1, <2>3, <2>5, <2>6
  <2> QED BY <1>0, <2>2, <2>7 DEF Stream!Take, Stream!Idle
<1>2. CASE Reset(C) \/ ReadEmpty(C)
  <2>1. /\ pc[C] \in {"reset", "read"} /\ pc'[C] = "next" /\ UNCHANGED <<items, idx>>
        /\ slot' \in {slot, [slot EXCEPT ![idx[C]] = FreshBuf(C)]} /\ InSlot(C)
        /\ InSlot(C)'
    BY <1>2 DEF Reset, ReadEmpty, sems, ring, InSlot, ProducerHolds, ConsumerHolds
  <2>2. InHand # -2 /\ InHand' = -2
    BY <2>1, HandIsResult DEF InHand, Result
  <2>3. UNCHANGED FirstPending
    BY <2>1 DEF FirstPending, Advance
  <2>4. \A k \in 1 .. items : slot'[PendingSlot(k)] = slot[PendingSlot(k)]
    BY <2>1, PendingSlots
  <2>5. Pending' = Pending
    BY <2>1, <2>3, <2>4, SamePending
  <2> QED BY <1>0, <2>2, <2>5 DEF Stream!Release, Stream!Idle
<1>3. CASE Read(C)
  <2>1. /\ pc[C] = "read" /\ pc'[C] = "chunk" /\ UNCHANGED <<items, idx, slot>>
        /\ temp' = [temp EXCEPT ![C] = slot[idx[C]]] /\ InSlot(C)' = InSlot(C)
    BY <1>3 DEF Read, sems, ring, InSlot, ProducerHolds, ConsumerHolds
  <2>2. InHand' = InHand
    BY <2>1 DEF InHand, Result
  <2>3. UNCHANGED FirstPending
    BY <2>1 DEF FirstPending, Advance
  <2>4. Pending' = Pending
    BY <2>1, <2>3, SamePending
  <2> QED BY <1>0, <2>2, <2>4 DEF Stream!vars
<1>4. CASE NextIndex(C)
  <2>1. /\ pc[C] = "next" /\ pc'[C] = "post" /\ idx'[C] = Advance(idx[C])
        /\ UNCHANGED <<items, slot>>
    BY <1>4 DEF NextIndex, sems, ring
  <2>2. InHand' = InHand
    BY <2>1 DEF InHand, Result
  <2>3. UNCHANGED FirstPending
    BY <2>1 DEF FirstPending, Advance, InSlot, ProducerHolds, ConsumerHolds
  <2>4. Pending' = Pending
    BY <2>1, <2>3, SamePending
  <2> QED BY <1>0, <2>2, <2>4 DEF Stream!vars
<1>5. CASE CheckCounter(C) \/ Lock(C) \/ RetrieveChunk(C) \/ AddLength(C) \/ Paste(C)
           \/ ConsumerPost(C) \/ ChildCleanup(C)
  <2>1. /\ UNCHANGED <<items, idx, slot, temp>> /\ InSlot(C)' = InSlot(C)
        /\ pc[C] \in {"lock", "read"} <=> pc'[C] \in {"lock", "read"}
        /\ pc[C] \in {"chunk", "add", "paste", "reset"}
             <=> pc'[C] \in {"chunk", "add", "paste", "reset"}
    BY <1>5 DEF CheckCounter, Lock, RetrieveChunk, AddLength, Paste, ConsumerPost,
       ChildCleanup, sems, ring, locals, InSlot, ProducerHolds, ConsumerHolds
  <2>2. InHand' = InHand
    BY <2>1 DEF InHand, Result
  <2>3. UNCHANGED FirstPending
    BY <2>1 DEF FirstPending, Advance
  <2>4. Pending' = Pending
    BY <2>1, <2>3, SamePending
  <2> QED BY <1>0, <2>2, <2>4 DEF Stream!vars
<1> QED BY <1>1, <1>2, <1>3, <1>4, <1>5 DEF ConsumerStep

\* With one producer and one consumer, for every size of the ring, every number of
\* parts and every outcome of the transfers: what goes through the ring is the
\* in-order stream of PartStream.
THEOREM RingIsStream ==
  ASSUME OneOfEach
  PROVE  Spec => ImplementsStream
<1>1. Init => Stream!Init
  <2> SUFFICES ASSUME Init PROVE Stream!Init
    OBVIOUS
  <2>1. pc[P] = "check" /\ pc[C] = "check" /\ counter = 0 /\ items = 0
    BY TwoChildren DEF Init
  <2> QED BY <2>1 DEF Stream!Init, Stream!Idle, Delivered, Pending, InHand
<1>2. Delivering /\ Delivering' /\ [Next]_vars => [Stream!Next]_Stream!vars
  <2> SUFFICES ASSUME Delivering, Delivering', [Next]_vars
               PROVE  [Stream!Next]_Stream!vars
    OBVIOUS
  <2>1. CASE \E p \in Producers : ProducerStep(p) \/ Transfer(p)
    BY <2>1, TwoChildren, ProducerMaps DEF Delivering, Stream!Next
  <2>2. CASE \E c \in Consumers : ConsumerStep(c)
    BY <2>2, TwoChildren, ConsumerMaps DEF Delivering, Stream!Next
  <2>3. CASE MainStep \/ ForkFails \/ (\E c \in Children : Crash(c)) \/ Terminated
             \/ UNCHANGED vars
    <3>1. UNCHANGED <<counter, items, slot, pc, idx, temp>>
      BY <2>3, OthersStep
    <3> QED BY <3>1 DEF Stream!vars, Delivered, Pending, InHand, FirstPending, InSlot,
            Result, Advance
  <2> QED BY <2>1, <2>2, <2>3 DEF Next
<1>3. Init => Delivering
  BY DeliveringInductive
<1>4. Delivering /\ [Next]_vars => Delivering'
  BY DeliveringInductive
<1> QED BY <1>1, <1>2, <1>3, <1>4, PTL DEF Spec, ImplementsStream, Stream!Spec

-----------------------------------------------------------------------------
(* The image. *)

\* A part that came whole keeps its number on its way: in the producer's temporary,
\* in the slot, as long as it is read through main's address, and in the
\* consumer's copies.
Faithful ==
  /\ fetched[P].data.kind = "whole" => fetched[P].data.part = fetched[P].seq
  /\ pc[P] = "meta" /\ fetched[P].size # 0 /\ slot[idx[P]].buf = MAIN =>
       bytes[idx[P]] = fetched[P].data
  /\ \A j \in Slots :
       slot[j].buf = MAIN /\ slot[j].size # 0 /\ bytes[j].kind = "whole" =>
         bytes[j].part = slot[j].seq
  /\ pc[C] = "chunk" => temp[C] = slot[idx[C]] /\ temp[C].size # 0
  /\ pc[C] \in {"add", "paste"} /\ chunk[C].kind = "whole" => chunk[C].part = temp[C].seq

\* What is whole in a transfer is of the part that was asked for.
LEMMA ReceivedPart ==
  ASSUME NEW ks \in Networks, NEW k \in Nat, NEW r \in Received(ks, k),
         r.data.kind = "whole"
  PROVE  r.data.part = r.seq
BY DEF Received, Arrival, Bodies, PartBytes, Zero, Alien

\* The producer copies only into a slot that is empty and its own.
LEMMA EmptyAtCopy ==
  ASSUME OneOfEach, Settled, pc[P] \in {"get", "copy", "meta"}
  PROVE  slot[idx[P]].size = 0 /\ (InSlot(C) => idx[P] # idx[C])
<1>1. InSlot(P) /\ pc[P] \notin {"load", "store", "next"}
  BY DEF InSlot, ProducerHolds
<1>2. slot[idx[P]].size = 0
  BY <1>1, ProducerOutside DEF Settled, EmptyOutside
<1>3. InSlot(C) => idx[P] # idx[C]
  BY <1>1, FillBound, WrapFacts, StreamTypes DEF Settled, Ordered, RingOrder
<1> QED BY <1>2, <1>3

LEMMA ProducerFaithful ==
  ASSUME OneOfEach, Settled, Faithful, ProducerStep(P) \/ Transfer(P)
  PROVE  Faithful' /\ idat_data' = idat_data
<1> USE StreamTypes DEF Settled, Ordered, At, Goto
<1>0. UNCHANGED <<pc[C], idx[C], temp, chunk, idat_data>>
  BY DEF ProducerStep, Transfer, CheckCounter, ProducerWait, Lock, ProducerSkip, Fetch,
     FetchNoHandle, Copy, Publish, LoadCounter, StoreCounter, NextIndex, ProducerPost,
     ChildCleanup, locals, image
<1>1. CASE Fetch(P)
  <2>1. PICK r \in Received(net, counter) : fetched' = [fetched EXCEPT ![P] = r]
    BY <1>1 DEF Fetch
  <2>2. r.data.kind = "whole" => r.data.part = r.seq
    BY ReceivedPart
  <2>3. UNCHANGED <<slot, bytes>> /\ pc'[P] = "copy" /\ fetched'[P] = r
    BY <1>1, <2>1 DEF Fetch, ring
  <2> QED BY <1>0, <2>2, <2>3 DEF Faithful
<1>2. CASE Copy(P)
  <2>1. /\ UNCHANGED <<slot, fetched, idx>> /\ pc[P] = "copy"
        /\ bytes' = IF slot[idx[P]].buf = MAIN /\ fetched[P].size # 0
                    THEN [bytes EXCEPT ![idx[P]] = fetched[P].data] ELSE bytes
    BY <1>2 DEF Copy, locals
  <2>2. slot[idx[P]].size = 0
    BY <2>1, EmptyAtCopy
  <2> QED BY <1>0, <2>1, <2>2 DEF Faithful
<1>3. CASE Publish(P)
  <2>1. /\ slot' = [slot EXCEPT ![idx[P]] = Published(@, fetched[P])]
        /\ fetched'[P] = NoFetch /\ UNCHANGED <<idx, bytes>>
        /\ pc[P] = "meta" /\ pc'[P] = "load"
    BY <1>3 DEF Publish
  <2>2. pc[C] = "chunk" => slot'[idx[C]] = slot[idx[C]]
    <3>1. pc[C] = "chunk" => InSlot(C)
      BY DEF InSlot, ConsumerHolds
    <3> QED BY <2>1, <3>1, EmptyAtCopy
  <2>3. slot'[idx[P]] = Published(slot[idx[P]], fetched[P])
    BY <2>1
  <2>4. \A j \in Slots :
          slot'[j].buf = MAIN /\ slot'[j].size # 0 /\ bytes[j].kind = "whole" =>
            bytes[j].part = slot'[j].seq
    <3> SUFFICES ASSUME NEW j \in Slots, slot'[j].buf = MAIN, slot'[j].size # 0,
                        bytes[j].kind = "whole"
                 PROVE  bytes[j].part = slot'[j].seq
      OBVIOUS
    <3>1. CASE j = idx[P]
      BY <2>1, <2>3, <3>1 DEF Faithful, Published
    <3>2. CASE j # idx[P]
      BY <2>1, <3>2 DEF Faithful
    <3> QED BY <3>1, <3>2
  <2> QED BY <1>0, <2>1, <2>2, <2>4 DEF Faithful, NoFetch, Zero
<1>4. CASE ~Fetch(P) /\ ~Copy(P) /\ ~Publish(P)
  <2>1. UNCHANGED <<slot, bytes, fetched>> /\ pc'[P] # "meta"
    BY <1>4 DEF ProducerStep, Transfer, CheckCounter, ProducerWait, Lock, ProducerSkip,
       FetchNoHandle, LoadCounter, StoreCounter, NextIndex, ProducerPost, ChildCleanup,
       ring, locals
  <2> QED BY <1>0, <2>1 DEF Faithful
<1> QED BY <1>1, <1>2, <1>3, <1>4

LEMMA ConsumerFaithful ==
  ASSUME OneOfEach, Settled, Faithful, ConsumerStep(C)
  PROVE  Faithful'
<1> USE StreamTypes DEF Settled, Ordered, At, Goto
<1>0. UNCHANGED <<pc[P], idx[P], fetched, bytes>>
  BY DEF ConsumerStep, CheckCounter, ConsumerWait, Lock, Read, ReadEmpty, RetrieveChunk,
     AddLength, Paste, Reset, NextIndex, ConsumerPost, ChildCleanup, ring, locals
<1>1. CASE Read(C)
  <2>1. /\ temp' = [temp EXCEPT ![C] = slot[idx[C]]] /\ UNCHANGED <<slot, idx>>
        /\ pc'[C] = "chunk" /\ slot[idx[C]].size # 0
    BY <1>1 DEF Read, ring
  <2> QED BY <1>0, <2>1 DEF Faithful
<1>2. CASE RetrieveChunk(C)
  <2>1. /\ \E d \in Seen(C) : chunk' = [chunk EXCEPT ![C] = d]
        /\ UNCHANGED <<temp, slot, idx>> /\ pc[C] = "chunk" /\ pc'[C] = "add"
    BY <1>2 DEF RetrieveChunk, ring
  <2>2. chunk'[C].kind = "whole" => chunk'[C].part = temp[C].seq
    BY <2>1 DEF Seen, Zero, Alien, Faithful
  <2> QED BY <1>0, <2>1, <2>2 DEF Faithful
<1>3. CASE AddLength(C)
  BY <1>0, <1>3 DEF AddLength, Faithful, ring, locals
<1>4. CASE Paste(C)
  <2>1. UNCHANGED <<slot, temp, idx>> /\ pc'[C] = "reset"
    BY <1>4 DEF Paste, ring
  <2> QED BY <1>0, <2>1 DEF Faithful
<1>5. CASE Reset(C)
  <2>1. /\ slot' = [slot EXCEPT ![idx[C]] = FreshBuf(C)] /\ UNCHANGED idx
        /\ pc'[C] = "next" /\ pc[C] = "reset" /\ InSlot(C)
    BY <1>5 DEF Reset, InSlot, ConsumerHolds
  <2>2. pc[P] = "meta" => slot'[idx[P]] = slot[idx[P]]
    BY <2>1, EmptyAtCopy
  <2> QED BY <1>0, <2>1, <2>2 DEF Faithful, FreshBuf
<1>6. CASE ~(Read(C) \/ RetrieveChunk(C) \/ AddLength(C) \/ Paste(C) \/ Reset(C))
  <2>1. UNCHANGED <<slot, temp, chunk>> /\ pc'[C] \notin {"chunk", "add", "paste"}
    BY <1>6 DEF ConsumerStep, CheckCounter, ConsumerWait, Lock, ReadEmpty, NextIndex,
       ConsumerPost, ChildCleanup, ring, locals
  <2> QED BY <1>0, <2>1 DEF Faithful
<1> QED BY <1>1, <1>2, <1>3, <1>4, <1>5, <1>6

\* Only mem_inf's result on a whole part puts whole cells into the image.
LEMMA PasteInPlace ==
  ASSUME OneOfEach, Settled, Faithful, WholeStripsInPlace, Paste(C)
  PROVE  WholeStripsInPlace'
<1> USE StreamTypes DEF Settled, Ordered, At
<1>1. PICK r \in Inflated(chunk[C]) : idat_data' = Pasted(idat_data, temp[C].seq, r)
  BY DEF Paste
<1> SUFFICES ASSUME NEW x \in Cells, idat_data'[x].kind = "whole"
             PROVE  /\ idat_data'[x].part * STRIP <= x
                    /\ x < (idat_data'[x].part + 1) * STRIP
  BY DEF WholeStripsInPlace
<1>2. idat_data'[x] = IF temp[C].seq * r.n <= x /\ x < temp[C].seq * r.n + r.n
                      THEN r.cell ELSE idat_data[x]
  BY <1>1 DEF Pasted
<1>3. CASE idat_data'[x] = idat_data[x]
  BY <1>3 DEF WholeStripsInPlace
<1>4. CASE idat_data'[x] = r.cell /\ temp[C].seq * r.n <= x
           /\ x < temp[C].seq * r.n + r.n
  <2>1. r.cell.kind = "whole" => chunk[C].kind = "whole" /\ r.n = STRIP /\ r.cell = chunk[C]
    BY DEF Inflated, Zero, Junk
  <2>2. chunk[C].part = temp[C].seq
    BY <1>4, <2>1 DEF Paste, Faithful
  <2>3. temp[C].seq \in Int /\ STRIP \in Nat
    BY StripAssumption DEF RecvBuf
  <2>4. (temp[C].seq + 1) * STRIP = temp[C].seq * STRIP + STRIP
    BY <2>3
  <2> QED BY <1>4, <2>1, <2>2, <2>4
<1> QED BY <1>2, <1>3, <1>4

Pasting == Settled /\ Faithful /\ WholeStripsInPlace

LEMMA PastingInductive ==
  ASSUME OneOfEach
  PROVE  /\ Init => Pasting
         /\ Pasting /\ [Next]_vars => Pasting'
<1>1. Init => Settled
  BY OrderInductive, EmptyInductive, CountedInductive DEF Settled
<1>2. Settled /\ [Next]_vars => Settled'
  BY OrderInductive, EmptyInductive, CountedInductive DEF Settled, Ordered
<1>3. Init => Faithful /\ WholeStripsInPlace
  BY TwoChildren DEF Init, Faithful, WholeStripsInPlace, FreshBuf, NoFetch, Zero
<1>4. ASSUME Settled, Faithful, WholeStripsInPlace, [Next]_vars
      PROVE  Faithful' /\ WholeStripsInPlace'
  <2>1. CASE \E p \in Producers : ProducerStep(p) \/ Transfer(p)
    BY <1>4, <2>1, TwoChildren, ProducerFaithful DEF WholeStripsInPlace
  <2>2. CASE \E c \in Consumers : ConsumerStep(c)
    <3>1. ConsumerStep(C)
      BY <2>2, TwoChildren
    <3>2. CASE Paste(C)
      BY <1>4, <3>1, <3>2, ConsumerFaithful, PasteInPlace
    <3>3. CASE ~Paste(C)
      <4>1. idat_data' = idat_data
        BY <3>1, <3>3 DEF ConsumerStep, CheckCounter, ConsumerWait, Lock, Read, ReadEmpty,
           RetrieveChunk, AddLength, Reset, NextIndex, ConsumerPost, ChildCleanup, image
      <4> QED BY <1>4, <3>1, <4>1, ConsumerFaithful DEF WholeStripsInPlace
    <3> QED BY <3>2, <3>3
  <2>3. CASE MainStep \/ ForkFails \/ (\E c \in Children : Crash(c)) \/ Terminated
             \/ UNCHANGED vars
    BY <1>4, <2>3, OthersStep DEF Faithful, WholeStripsInPlace
  <2> QED BY <1>4, <2>1, <2>2, <2>3 DEF Next
<1> QED BY <1>1, <1>2, <1>3, <1>4 DEF Pasting

\* With one producer and one consumer, for every size of the ring, of a strip and of
\* the image, and whatever else arrives: cells of a part that came whole are in
\* the strip of that part.
THEOREM WholeInOwnStrip ==
  ASSUME OneOfEach
  PROVE  Spec => []WholeStripsInPlace
<1>1. Init => Pasting
  BY PastingInductive
<1>2. Pasting /\ [Next]_vars => Pasting'
  BY PastingInductive
<1>3. Pasting => WholeStripsInPlace
  BY DEF Pasting
<1> QED BY <1>1, <1>2, <1>3, PTL DEF Spec
-----------------------------------------------------------------------------
(* The first lap. *)

WholeNet == net = {"whole"}
Whole(k) == PartBytes("whole", k)

\* How often the producer's index, and the consumer's, has moved on.
Sent == IF pc[P] = "next" THEN counter - 1 ELSE counter
Done == Delivered - items - (IF InSlot(C) THEN 1 ELSE 0)

\* How many parts have been put into the ring, and how many slots emptied.
Stored == IF pc[P] \in {"load", "store"} THEN counter + 1 ELSE counter
Emptied == IF pc[C] = "next" THEN Done + 1 ELSE Done

\* How many parts the consumer has counted in length_all, and put into the image.
Counted == IF pc[C] \in {"paste", "reset", "next"} THEN Done + 1 ELSE Done
Placed == IF pc[C] \in {"reset", "next"} THEN Done + 1 ELSE Done

\* During its first lap an index is the number of its turns; and an exit is at the
\* end of the loop.
Turns ==
  /\ Done >= 0
  /\ Sent < buf_size => idx[P] = Sent
  /\ Done < buf_size => idx[C] = Done
  /\ \A c \in Children : status[c] = "exit" => pc[c] = "cleanup"

\* On a network that delivers everything: slot j goes from empty to part j, then to a
\* segment of the consumer's for good.
LapSlots ==
  \A j \in Slots :
    /\ j < Emptied => slot[j].buf = C
    /\ Emptied <= j /\ j < Stored =>
         slot[j] = [buf |-> MAIN, size |-> 1, seq |-> j] /\ bytes[j] = Whole(j)
    /\ Stored <= j => slot[j] = FreshBuf(MAIN)

\* The part on its way: in the producer's temporary and in the consumer's copies.
LapCopies ==
  /\ pc[P] \in {"copy", "meta"} => fetched[P] = Arrival(1, counter, Whole(counter))
  /\ pc[P] = "meta" /\ counter < buf_size => bytes[counter] = Whole(counter)
  /\ pc[C] \in {"chunk", "add", "paste"} =>
       IF Done < buf_size THEN temp[C].buf = MAIN /\ temp[C].seq = Done
                          ELSE temp[C].buf = C
  /\ pc[C] \in {"add", "paste"} =>
       chunk[C] = IF Done < buf_size THEN Whole(Done) ELSE Zero

AtMostLap(n) == IF n < buf_size THEN n ELSE buf_size

\* length_all, and the first cell of each strip, follow the consumer's progress.
Assembled ==
  /\ main_pc \in {"fork", "wait", "waitpid", "catpng"} =>
       /\ length_all = AtMostLap(Counted)
       /\ pc[C] = "add" => reg[C] = length_all
  /\ \A k \in 0 .. NUM_PARTS - 1 :
       k < AtMostLap(Placed) => idat_data[k * STRIP] = Whole(k)
  /\ \A x \in Cells :
       idat_data[x].kind = "whole" =>
         0 <= idat_data[x].part /\ idat_data[x].part < AtMostLap(Placed)

FirstLap == WholeNet => LapSlots /\ LapCopies /\ Assembled

\* The counts, and how far apart they can be.
LEMMA CountFacts ==
  ASSUME OneOfEach, Settled, Turns
  PROVE  /\ Done \in Nat /\ Delivered \in Int /\ Sent \in Int /\ counter \in Nat
         /\ InSlot(C) => Done < Delivered
         /\ Done <= Delivered /\ Delivered <= counter
         /\ counter <= Stored /\ Stored \in Nat /\ Emptied \in Nat
         /\ InSlot(C) => Done < Stored
         /\ Emptied <= Stored
<1> USE StreamTypes DEF Settled, Ordered
<1>1. Done \in Nat /\ Delivered \in Int
  BY DEF Turns, Done, Delivered
<1>2. (InSlot(C) => Done < Delivered) /\ Done <= Delivered /\ Delivered <= counter
  BY DEF Done, Delivered
<1>3. counter <= Stored /\ Stored \in Nat /\ Sent \in Int
  BY DEF Stored, Sent
<1>4. pc[C] = "next" => InSlot(C)
  BY DEF InSlot, ConsumerHolds
<1> QED BY <1>1, <1>2, <1>3, <1>4 DEF Emptied

\* Only the steps of the loops themselves move the counts.
LEMMA TurnsInductive ==
  ASSUME OneOfEach
  PROVE  /\ Init => Turns
         /\ Settled /\ Turns /\ [Next]_vars => Turns'
<1>1. Init => Turns
  BY TwoChildren, ConstantsAssumption
     DEF Init, Turns, Done, Delivered, Sent, InSlot, ProducerHolds, ConsumerHolds
<1>2. ASSUME Settled, Turns, [Next]_vars
      PROVE  Turns'
  <2> USE <1>2, StreamTypes DEF Settled, Ordered, At, Goto
  <2>1. CASE \E p \in Producers : ProducerStep(p) \/ Transfer(p)
    <3>0. ProducerStep(P) \/ Transfer(P)
      BY <2>1, TwoChildren
    <3>1. UNCHANGED <<pc[C], idx[C]>> /\ InSlot(C)' = InSlot(C)
      BY <3>0 DEF ProducerStep, Transfer, CheckCounter, ProducerWait, Lock, ProducerSkip,
         Fetch, FetchNoHandle, Copy, Publish, LoadCounter, StoreCounter, NextIndex,
         ProducerPost, ChildCleanup, InSlot
    <3>2. \A c \in Children : status'[c] = "exit" => pc'[c] = "cleanup"
      BY <3>0, TwoChildren DEF ProducerStep, Transfer, CheckCounter, ProducerWait, Lock,
         ProducerSkip, Fetch, FetchNoHandle, Copy, Publish, LoadCounter, StoreCounter,
         NextIndex, ProducerPost, ChildCleanup, life, Turns, TypeOK, LifeTypes
    <3>3. CASE NextIndex(P)
      <4>1. /\ pc[P] = "next" /\ pc'[P] = "post" /\ UNCHANGED <<counter, items>>
            /\ idx'[P] = Advance(idx[P])
        BY <3>3 DEF NextIndex, sems
      <4>2. Delivered' = Delivered /\ Done' = Done /\ Sent' = Sent + 1
        BY <3>1, <4>1 DEF Delivered, Done, Sent
      <4>3. Sent + 1 < buf_size => idx'[P] = Sent + 1
        BY <4>1, AdvanceStep, CountFacts DEF Turns
      <4> QED BY <3>1, <3>2, <4>2, <4>3 DEF Turns
    <3>4. CASE StoreCounter(P)
      <4>1. /\ pc[P] = "store" /\ pc'[P] = "next" /\ counter' = counter + 1
            /\ UNCHANGED <<items, idx>>
        BY <3>4 DEF StoreCounter, sems, PartCounted
      <4>2. Delivered' = Delivered /\ Done' = Done /\ Sent' = Sent
        BY <3>1, <4>1 DEF Delivered, Done, Sent
      <4> QED BY <3>1, <3>2, <4>1, <4>2 DEF Turns
    <3>5. CASE ProducerPost(P)
      <4>1. /\ pc[P] = "post" /\ pc'[P] = "check" /\ items' = items + 1
            /\ UNCHANGED <<counter, idx>>
        BY <3>5 DEF ProducerPost
      <4>2. Delivered' = Delivered + 1 /\ Done' = Done /\ Sent' = Sent
        BY <3>1, <4>1 DEF Delivered, Done, Sent
      <4> QED BY <3>1, <3>2, <4>1, <4>2 DEF Turns
    <3>6. CASE ProducerSkip(P)
      BY <3>6, EmptyAtGet DEF ProducerSkip
    <3>7. CASE ~(NextIndex(P) \/ StoreCounter(P) \/ ProducerPost(P) \/ ProducerSkip(P))
      <4>1. UNCHANGED <<counter, items, idx>>
        BY <3>0, <3>7 DEF ProducerStep, Transfer, CheckCounter, ProducerWait, Lock, Fetch,
           FetchNoHandle, Copy, Publish, LoadCounter, ChildCleanup, sems
      <4>2. pc[P] \notin {"next", "post"} /\ pc'[P] \notin {"next", "post"}
        BY <3>0, <3>7 DEF ProducerStep, Transfer, CheckCounter, ProducerWait, Lock, Fetch,
           FetchNoHandle, Copy, Publish, LoadCounter, ChildCleanup
      <4>3. Delivered' = Delivered /\ Done' = Done /\ Sent' = Sent
        BY <3>1, <4>1, <4>2 DEF Delivered, Done, Sent
      <4> QED BY <3>1, <3>2, <4>1, <4>3 DEF Turns
    <3> QED BY <3>3, <3>4, <3>5, <3>6, <3>7
  <2>2. CASE \E c \in Consumers : ConsumerStep(c)
    <3>0. ConsumerStep(C)
      BY <2>2, TwoChildren
    <3>1. UNCHANGED <<pc[P], idx[P], counter>> /\ Delivered' = Delivered /\ Sent' = Sent
      BY <3>0 DEF ConsumerStep, CheckCounter, ConsumerWait, Lock, Read, ReadEmpty,
         RetrieveChunk, AddLength, Paste, Reset, NextIndex, ConsumerPost, ChildCleanup,
         Delivered, Sent
    <3>2. \A c \in Children : status'[c] = "exit" => pc'[c] = "cleanup"
      BY <3>0, TwoChildren DEF ConsumerStep, CheckCounter, ConsumerWait, Lock, Read,
         ReadEmpty, RetrieveChunk, AddLength, Paste, Reset, NextIndex, ConsumerPost,
         ChildCleanup, life, Turns, TypeOK, LifeTypes
    <3>3. CASE NextIndex(C)
      <4>1. /\ InSlot(C) /\ ~InSlot(C)' /\ UNCHANGED items /\ idx'[C] = Advance(idx[C])
        BY <3>3 DEF NextIndex, sems, InSlot, ProducerHolds, ConsumerHolds
      <4>2. Done' = Done + 1
        BY <3>1, <4>1, CountFacts DEF Done
      <4>3. Done + 1 < buf_size => idx'[C] = Done + 1
        BY <4>1, AdvanceStep, CountFacts DEF Turns
      <4> QED BY <3>1, <3>2, <4>2, <4>3, CountFacts DEF Turns
    <3>4. CASE ConsumerWait(C)
      <4>1. ~InSlot(C) /\ InSlot(C)' /\ items' = items - 1 /\ idx' = idx
        BY <3>4 DEF ConsumerWait, InSlot, ProducerHolds, ConsumerHolds
      <4>2. Done' = Done
        BY <3>1, <4>1, CountFacts DEF Done
      <4> QED BY <3>1, <3>2, <4>1, <4>2 DEF Turns
    <3>5. CASE ~(NextIndex(C) \/ ConsumerWait(C))
      <4>1. InSlot(C)' = InSlot(C) /\ UNCHANGED <<items, idx>>
        BY <3>0, <3>5 DEF ConsumerStep, CheckCounter, Lock, Read, ReadEmpty, RetrieveChunk,
           AddLength, Paste, Reset, ConsumerPost, ChildCleanup, sems, InSlot,
           ProducerHolds, ConsumerHolds
      <4>2. Done' = Done
        BY <3>1, <4>1 DEF Done
      <4> QED BY <3>1, <3>2, <4>1, <4>2 DEF Turns
    <3> QED BY <3>3, <3>4, <3>5
  <2>3. CASE MainStep \/ ForkFails \/ (\E c \in Children : Crash(c)) \/ Terminated
             \/ UNCHANGED vars
    <3>1. UNCHANGED <<counter, items, pc, idx>>
      BY <2>3, OthersStep
    <3>2. \A c \in Children : status'[c] = "exit" => status[c] = "exit"
      BY <2>3 DEF MainStep, Fork, ForkFails, WaitNone, WaitpidNone, Catpng, MainCleanup,
         Wait, Crash, Terminated, vars, life, TypeOK, LifeTypes
    <3> QED BY <3>1, <3>2 DEF Turns, Done, Delivered, Sent, InSlot
  <2> QED BY <2>1, <2>2, <2>3 DEF Next
<1> QED BY <1>1, <1>2

Lap == LapSlots /\ LapCopies

\* A network that delivers everything gives the part that was asked for.
LEMMA ReceivedWhole ==
  ASSUME WholeNet, NEW k \in Nat, NEW r \in Received(net, k)
  PROVE  r = Arrival(1, k, Whole(k))
BY DEF WholeNet, Received, Bodies, Arrival, Whole

\* The empty slot of a producer is the next of its first lap, or the consumer's.
LEMMA ProducersSlot ==
  ASSUME OneOfEach, Settled, Turns, LapSlots, pc[P] \in {"copy", "meta"}
  PROVE  /\ idx[P] \in Slots /\ Stored = counter /\ Sent = counter
         /\ counter < buf_size => idx[P] = counter /\ slot[idx[P]] = FreshBuf(MAIN)
         /\ counter >= buf_size => slot[idx[P]].buf = C /\ idx[P] < Emptied
<1> USE StreamTypes DEF Settled, Ordered
<1>1. idx[P] \in Slots /\ Stored = counter /\ Sent = counter
  BY DEF Stored, Sent
<1>2. counter < buf_size => idx[P] = counter /\ slot[idx[P]] = FreshBuf(MAIN)
  BY <1>1 DEF Turns, LapSlots
<1>3. ASSUME counter >= buf_size PROVE slot[idx[P]].buf = C /\ idx[P] < Emptied
  <2>1. idx[P] \in Nat /\ idx[P] < Stored
    BY <1>1, <1>3, ConstantsAssumption DEF Slots
  <2>2. slot[idx[P]].size = 0
    BY EmptyAtCopy
  <2>3. idx[P] < Emptied
    BY <1>1, <2>1, <2>2, CountFacts DEF LapSlots
  <2> QED BY <1>1, <2>3 DEF LapSlots
<1> QED BY <1>1, <1>2, <1>3

\* The producer fills the slots of the first lap in order, and later only
\* those the consumer has emptied.
LEMMA ProducerLaps ==
  ASSUME OneOfEach, Settled, Turns, WholeNet, Lap, ProducerStep(P) \/ Transfer(P)
  PROVE  Lap'
<1> USE StreamTypes, CountFacts DEF Settled, Ordered, At, Goto, Lap
<1>0. UNCHANGED <<pc[C], idx[C], temp[C], chunk[C], net>>
  BY DEF ProducerStep, Transfer, CheckCounter, ProducerWait, Lock, ProducerSkip, Fetch,
     FetchNoHandle, Copy, Publish, LoadCounter, StoreCounter, NextIndex, ProducerPost,
     ChildCleanup, locals, life
<1>a. Done' = Done /\ Emptied' = Emptied
  <2>1. InSlot(C)' = InSlot(C)
    BY <1>0 DEF InSlot
  <2>2. Delivered' - items' = Delivered - items
    BY EmptyAtGet DEF ProducerStep, Transfer, CheckCounter, ProducerWait, Lock, ProducerSkip,
       Fetch, FetchNoHandle, Copy, Publish, LoadCounter, StoreCounter, NextIndex,
       ProducerPost, ChildCleanup, Delivered, sems, PartCounted
  <2>3. Done' = Done
    BY <2>1, <2>2 DEF Done
  <2> QED BY <1>0, <2>3 DEF Emptied
<1>1. CASE Fetch(P)
  <2>1. PICK r \in Received(net, counter) : fetched' = [fetched EXCEPT ![P] = r]
    BY <1>1 DEF Fetch
  <2>2. r = Arrival(1, counter, Whole(counter))
    BY ReceivedWhole
  <2>3. UNCHANGED <<slot, bytes, counter>> /\ pc[P] = "get" /\ pc'[P] = "copy"
    BY <1>1 DEF Fetch, ring
  <2>4. Stored' = Stored
    BY <2>3 DEF Stored
  <2>5. LapSlots'
    BY <1>a, <2>3, <2>4 DEF LapSlots
  <2>6. LapCopies'
    BY <1>0, <1>a, <2>1, <2>2, <2>3 DEF LapCopies
  <2> QED BY <2>5, <2>6
<1>2. CASE Copy(P)
  <2>1. /\ UNCHANGED <<slot, fetched, counter>> /\ pc[P] = "copy" /\ pc'[P] = "meta"
        /\ bytes' = IF slot[idx[P]].buf = MAIN /\ fetched[P].size # 0
                    THEN [bytes EXCEPT ![idx[P]] = fetched[P].data] ELSE bytes
    BY <1>2 DEF Copy, locals
  <2>2. Stored' = Stored /\ fetched[P] = Arrival(1, counter, Whole(counter))
    BY <2>1 DEF Stored, LapCopies
  <2>3. CASE counter < buf_size
    <3>1. bytes' = [bytes EXCEPT ![counter] = Whole(counter)] /\ counter \in Slots
          /\ Stored = counter
      BY <2>1, <2>2, <2>3, ProducersSlot DEF FreshBuf, Arrival
    <3>2. LapSlots'
      BY <1>a, <2>1, <2>2, <3>1 DEF LapSlots, Slots
    <3>3. LapCopies'
      BY <1>0, <1>a, <2>1, <2>2, <3>1 DEF LapCopies
    <3> QED BY <3>2, <3>3
  <2>4. CASE counter >= buf_size
    <3>1. bytes' = bytes
      BY <2>1, <2>4, ProducersSlot, TwoChildren DEF MAIN
    <3>2. LapSlots'
      BY <1>a, <2>1, <2>2, <3>1 DEF LapSlots
    <3>3. LapCopies'
      BY <1>0, <1>a, <2>1, <2>2, <2>4, <3>1 DEF LapCopies
    <3> QED BY <3>2, <3>3
  <2> QED BY <2>3, <2>4
<1>3. CASE Publish(P)
  <2>1. /\ slot' = [slot EXCEPT ![idx[P]] = Published(@, fetched[P])]
        /\ UNCHANGED <<bytes, counter>> /\ pc[P] = "meta" /\ pc'[P] = "load"
    BY <1>3 DEF Publish
  <2>2. Stored = counter /\ Stored' = counter + 1
        /\ fetched[P] = Arrival(1, counter, Whole(counter))
    BY <2>1 DEF Stored, LapCopies
  <2>3. LapCopies'
    BY <1>0, <1>a, <2>1 DEF LapCopies
  <2>4. CASE counter < buf_size
    <3>1. /\ idx[P] = counter /\ counter \in Slots /\ bytes[counter] = Whole(counter)
          /\ slot'[counter] = [buf |-> MAIN, size |-> 1, seq |-> counter]
          /\ \A j \in Slots : j # counter => slot'[j] = slot[j]
      BY <2>1, <2>2, <2>4, ProducersSlot DEF LapCopies, Published, Arrival, FreshBuf
    <3>2. \A j \in Slots : j \in Nat
      BY ConstantsAssumption DEF Slots
    <3>3. Emptied <= counter
      BY <2>2
    <3>4. LapSlots'
      <4> SUFFICES ASSUME NEW j \in Slots
                   PROVE  /\ j < Emptied => slot'[j].buf = C
                          /\ Emptied <= j /\ j < counter + 1 =>
                               /\ slot'[j] = [buf |-> MAIN, size |-> 1, seq |-> j]
                               /\ bytes'[j] = Whole(j)
                          /\ counter + 1 <= j => slot'[j] = FreshBuf(MAIN)
        BY <1>a, <2>2 DEF LapSlots, Whole, FreshBuf
      <4>1. CASE j = counter
        BY <2>1, <3>1, <3>3, <4>1
      <4>2. CASE j # counter
        <5>1. slot'[j] = slot[j] /\ bytes'[j] = bytes[j]
          BY <2>1, <3>1, <4>2
        <5>2. j < counter + 1 <=> j < Stored
          BY <2>2, <3>2, <4>2
        <5>3. counter + 1 <= j => Stored <= j
          BY <2>2, <3>2
        <5> QED BY <5>1, <5>2, <5>3 DEF LapSlots
      <4> QED BY <4>1, <4>2
    <3> QED BY <2>3, <3>4
  <2>5. CASE counter >= buf_size
    <3>1. slot'[idx[P]].buf = C /\ idx[P] \in Slots /\ idx[P] < Emptied
      BY <2>1, <2>5, ProducersSlot DEF Published
    <3>2. \A j \in Slots : j \in Nat /\ j < counter
      BY <2>5, ConstantsAssumption DEF Slots
    <3>3. LapSlots'
      <4> SUFFICES ASSUME NEW j \in Slots
                   PROVE  /\ j < Emptied => slot'[j].buf = C
                          /\ Emptied <= j /\ j < counter + 1 =>
                               /\ slot'[j] = [buf |-> MAIN, size |-> 1, seq |-> j]
                               /\ bytes'[j] = Whole(j)
                          /\ counter + 1 <= j => slot'[j] = FreshBuf(MAIN)
        BY <1>a, <2>2 DEF LapSlots, Whole, FreshBuf
      <4>1. CASE j = idx[P]
        BY <3>1, <3>2, <4>1
      <4>2. CASE j # idx[P]
        BY <2>1, <2>2, <3>2, <4>2 DEF LapSlots
      <4> QED BY <4>1, <4>2
    <3> QED BY <2>3, <3>3
  <2> QED BY <2>4, <2>5
<1>4. CASE FetchNoHandle(P)
  BY <1>4 DEF FetchNoHandle, WholeNet
<1>5. CASE ~(Fetch(P) \/ Copy(P) \/ Publish(P) \/ FetchNoHandle(P))
  <2>1. /\ UNCHANGED <<slot, bytes, fetched>> /\ pc'[P] \notin {"copy", "meta"}
        /\ Stored' = Stored
    BY <1>5, EmptyAtGet DEF ProducerStep, Transfer, CheckCounter, ProducerWait, Lock,
       ProducerSkip, LoadCounter, StoreCounter, NextIndex, ProducerPost, ChildCleanup,
       Stored, PartCounted, ring, locals
  <2>2. LapSlots'
    BY <1>a, <2>1 DEF LapSlots
  <2>3. LapCopies'
    BY <1>0, <1>a, <2>1 DEF LapCopies
  <2> QED BY <2>2, <2>3
<1> QED BY <1>1, <1>2, <1>3, <1>4, <1>5

\* What the consumer finds in its slot: during the first lap its part, later a segment
\* of its own.
LEMMA ConsumersSlot ==
  ASSUME OneOfEach, Settled, Turns, LapSlots, InSlot(C), pc[C] # "next"
  PROVE  /\ idx[C] \in Slots /\ Emptied = Done
         /\ Done < buf_size =>
              /\ idx[C] = Done /\ bytes[idx[C]] = Whole(Done)
              /\ slot[idx[C]] = [buf |-> MAIN, size |-> 1, seq |-> Done]
         /\ Done >= buf_size => slot[idx[C]].buf = C
<1> USE StreamTypes, CountFacts DEF Settled, Ordered
<1>1. idx[C] \in Slots /\ Emptied = Done /\ Done < Stored
  BY DEF Emptied
<1>2. Done < buf_size => idx[C] = Done
  BY DEF Turns
<1>3. ASSUME Done >= buf_size PROVE slot[idx[C]].buf = C
  <2>1. idx[C] < Emptied
    BY <1>1, <1>3, ConstantsAssumption DEF Slots
  <2> QED BY <1>1, <2>1 DEF LapSlots
<1>4. ASSUME Done < buf_size
      PROVE  /\ bytes[idx[C]] = Whole(Done)
             /\ slot[idx[C]] = [buf |-> MAIN, size |-> 1, seq |-> Done]
  BY <1>1, <1>2, <1>4 DEF LapSlots
<1> QED BY <1>1, <1>2, <1>3, <1>4

\* Outside the end of a turn the counts stand.
LEMMA ConsumerCounts ==
  ASSUME OneOfEach, Settled, Turns, ConsumerStep(C)
  PROVE  /\ NextIndex(C) => Done' = Done + 1
         /\ ~NextIndex(C) => Done' = Done
         /\ Stored' = Stored
<1> USE StreamTypes, CountFacts DEF Settled, Ordered, At, Goto
<1>1. Delivered' = Delivered /\ Stored' = Stored
  BY DEF ConsumerStep, CheckCounter, ConsumerWait, Lock, Read, ReadEmpty, RetrieveChunk,
     AddLength, Paste, Reset, NextIndex, ConsumerPost, ChildCleanup, Delivered, Stored
<1>2. CASE NextIndex(C)
  <2>1. InSlot(C) /\ ~InSlot(C)' /\ UNCHANGED items
    BY <1>2 DEF NextIndex, sems, InSlot, ProducerHolds, ConsumerHolds
  <2> QED BY <1>1, <1>2, <2>1 DEF Done
<1>3. CASE ConsumerWait(C)
  <2>1. ~InSlot(C) /\ InSlot(C)' /\ items' = items - 1 /\ ~NextIndex(C)
    BY <1>3 DEF ConsumerWait, NextIndex, InSlot, ProducerHolds, ConsumerHolds
  <2> QED BY <1>1, <2>1 DEF Done
<1>4. CASE ~(NextIndex(C) \/ ConsumerWait(C))
  <2>1. InSlot(C)' = InSlot(C) /\ UNCHANGED items
    BY <1>4 DEF ConsumerStep, CheckCounter, Lock, Read, ReadEmpty, RetrieveChunk,
       AddLength, Paste, Reset, ConsumerPost, ChildCleanup, sems, InSlot, ProducerHolds,
       ConsumerHolds
  <2> QED BY <1>1, <1>4, <2>1 DEF Done
<1> QED BY <1>2, <1>3, <1>4

\* The consumer's step takes its slot, or its copy of it, to the next stage of the lap.
LEMMA ConsumerLaps ==
  ASSUME OneOfEach, Settled, Turns, WholeNet, Lap, ConsumerStep(C)
  PROVE  Lap'
<1> USE StreamTypes, CountFacts DEF Settled, Ordered, At, Goto, Lap
<1>0. UNCHANGED <<pc[P], fetched, bytes, counter>>
  BY DEF ConsumerStep, CheckCounter, ConsumerWait, Lock, Read, ReadEmpty, RetrieveChunk,
     AddLength, Paste, Reset, NextIndex, ConsumerPost, ChildCleanup, ring, locals
<1>a. /\ NextIndex(C) => Done' = Done + 1
      /\ ~NextIndex(C) => Done' = Done
      /\ Stored' = Stored
  BY ConsumerCounts
<1>b. pc[C] \in {"read", "chunk", "reset"} => InSlot(C)
  BY DEF InSlot, ConsumerHolds
<1>1. CASE NextIndex(C)
  <2>1. pc[C] = "next" /\ pc'[C] = "post" /\ UNCHANGED <<slot, temp, chunk>>
    BY <1>1 DEF NextIndex, ring, locals
  <2>2. Emptied' = Emptied
    BY <1>1, <1>a, <2>1 DEF Emptied
  <2> QED BY <1>0, <1>a, <2>1, <2>2 DEF LapSlots, LapCopies
<1>2. CASE ReadEmpty(C)
  <2>1. pc[C] = "read" /\ pc'[C] = "next" /\ UNCHANGED <<slot, temp, chunk>>
        /\ slot[idx[C]].size = 0 /\ ~NextIndex(C)
    BY <1>2 DEF ReadEmpty, NextIndex, ring, locals
  <2>2. Done >= buf_size
    BY <1>b, <2>1, ConsumersSlot
  <2>3. Emptied = Done /\ Emptied' = Done + 1
    BY <1>a, <2>1 DEF Emptied
  <2>4. \A j \in Slots : j \in Nat /\ j < Done
    BY <2>2, ConstantsAssumption DEF Slots
  <2>5. LapSlots'
    BY <1>0, <1>a, <2>1, <2>3, <2>4 DEF LapSlots
  <2>6. LapCopies'
    BY <1>0, <1>a, <2>1 DEF LapCopies
  <2> QED BY <2>5, <2>6
<1>3. CASE Reset(C)
  <2>1. /\ slot' = [slot EXCEPT ![idx[C]] = FreshBuf(C)]
        /\ pc[C] = "reset" /\ pc'[C] = "next" /\ ~NextIndex(C)
    BY <1>3 DEF Reset, NextIndex
  <2>2. Emptied = Done /\ Emptied' = Done + 1 /\ Done < Stored
    BY <1>a, <1>b, <2>1 DEF Emptied
  <2>3. /\ idx[C] \in Slots /\ slot'[idx[C]] = FreshBuf(C)
        /\ Done < buf_size => idx[C] = Done
        /\ \A j \in Slots : j # idx[C] => slot'[j] = slot[j]
    BY <1>b, <2>1, ConsumersSlot
  <2>4. \A j \in Slots : j \in Nat /\ j < buf_size
    BY ConstantsAssumption DEF Slots
  <2>5. LapSlots'
    <3> SUFFICES ASSUME NEW j \in Slots
                 PROVE  /\ j < Done + 1 => slot'[j].buf = C
                        /\ Done + 1 <= j /\ j < Stored =>
                             /\ slot'[j] = [buf |-> MAIN, size |-> 1, seq |-> j]
                             /\ bytes'[j] = Whole(j)
                        /\ Stored <= j => slot'[j] = FreshBuf(MAIN)
      BY <1>a, <2>2 DEF LapSlots, Whole, FreshBuf
    <3>1. CASE j = idx[C]
      BY <2>2, <2>3, <2>4, <3>1 DEF FreshBuf
    <3>2. CASE j # idx[C]
      <4>1. slot'[j] = slot[j] /\ bytes'[j] = bytes[j]
        BY <1>0, <2>3, <3>2
      <4>2. j < Done + 1 => j < Emptied
        BY <2>2, <2>3, <2>4, <3>2
      <4>3. Done + 1 <= j => Emptied <= j
        BY <2>2, <2>4
      <4> QED BY <4>1, <4>2, <4>3 DEF LapSlots
    <3> QED BY <3>1, <3>2
  <2>6. LapCopies'
    BY <1>0, <1>a, <2>1 DEF LapCopies
  <2> QED BY <2>5, <2>6
<1>4. CASE ~(NextIndex(C) \/ ReadEmpty(C) \/ Reset(C))
  <2>1. UNCHANGED slot /\ pc[C] # "next" /\ pc'[C] # "next"
    BY <1>4 DEF ConsumerStep, CheckCounter, ConsumerWait, Lock, Read, RetrieveChunk,
       AddLength, Paste, ConsumerPost, ChildCleanup, ring
  <2>2. Emptied' = Emptied
    BY <1>4, <1>a, <2>1 DEF Emptied
  <2>3. LapSlots'
    BY <1>0, <1>a, <2>1, <2>2 DEF LapSlots
  <2>4. CASE Read(C)
    <3>1. temp'[C] = slot[idx[C]] /\ pc[C] = "read" /\ pc'[C] = "chunk"
      BY <2>4 DEF Read
    <3> QED BY <1>0, <1>4, <1>a, <1>b, <2>3, <3>1, ConsumersSlot DEF LapCopies
  <2>5. CASE RetrieveChunk(C)
    <3>1. /\ temp' = temp /\ pc[C] = "chunk" /\ pc'[C] = "add"
          /\ \E d \in Seen(C) : chunk' = [chunk EXCEPT ![C] = d]
      BY <2>5 DEF RetrieveChunk
    <3>2. Done < buf_size => Seen(C) = {Whole(Done)}
      BY <1>b, <3>1, ConsumersSlot DEF LapCopies, Seen
    <3>3. Done >= buf_size => Seen(C) = {Zero}
      BY <3>1, TwoChildren DEF LapCopies, Seen, MAIN
    <3>4. chunk'[C] = IF Done < buf_size THEN Whole(Done) ELSE Zero
      BY <3>1, <3>2, <3>3
    <3> QED BY <1>0, <1>4, <1>a, <2>3, <3>1, <3>4 DEF LapCopies
  <2>6. CASE AddLength(C)
    BY <1>0, <1>4, <1>a, <2>3, <2>6 DEF AddLength, LapCopies, locals
  <2>7. CASE ~(Read(C) \/ RetrieveChunk(C) \/ AddLength(C))
    <3>1. pc'[C] \notin {"chunk", "add", "paste"}
      BY <1>4, <2>7 DEF ConsumerStep, CheckCounter, ConsumerWait, Lock, Paste,
         ConsumerPost, ChildCleanup
    <3> QED BY <1>0, <1>4, <1>a, <2>3, <3>1 DEF LapCopies
  <2> QED BY <2>4, <2>5, <2>6, <2>7
<1> QED BY <1>1, <1>2, <1>3, <1>4

-----------------------------------------------------------------------------
(* What is in the image at the end. *)

\* Strips lie behind one another.
LEMMA StripsApart ==
  ASSUME NEW k \in Nat, NEW m \in Nat, k < m
  PROVE  k * STRIP \in Nat /\ m * STRIP \in Nat /\ k * STRIP + STRIP <= m * STRIP
<1>1. PICK d \in Nat : m = k + 1 + d
  <2>1. m - (k + 1) \in Nat /\ m = k + 1 + (m - (k + 1))
    OBVIOUS
  <2> QED BY <2>1
<1>2. STRIP \in Nat /\ k * STRIP \in Nat /\ d * STRIP \in Nat /\ m * STRIP \in Nat
  BY StripAssumption
<1>3. m * STRIP = k * STRIP + STRIP + d * STRIP
  BY <1>1, <1>2
<1> QED BY <1>2, <1>3

\* Every strip begins inside the image.
LEMMA StripStart ==
  ASSUME NEW k \in 0 .. NUM_PARTS - 1
  PROVE  k * STRIP \in Cells
<1> DEFINE a == k * STRIP
           b == NUM_PARTS * STRIP
<1>1. NUM_PARTS \in Nat /\ STRIP \in Nat /\ STRIP > 0 /\ k \in Nat /\ k < NUM_PARTS
  BY TransferAssumption, StripAssumption
<1>2. a \in Nat /\ b \in Nat /\ a + STRIP <= b
  BY <1>1, StripsApart
<1>3. Cells = 0 .. b - 1
  BY DEF Cells
<1> HIDE DEF a, b
<1>4. a \in 0 .. b - 1
  BY <1>1, <1>2
<1> QED BY <1>3, <1>4 DEF a

\* How many numbers there are below n.
LEMMA CardinalityUpTo ==
  ASSUME NEW n \in Nat
  PROVE  Cardinality(0 .. n - 1) = n
<1>1. Cardinality(0 .. n - 1) = IF 0 > n - 1 THEN 0 ELSE (n - 1) - 0 + 1
  BY FS_Interval
<1> QED BY <1>1

\* Counting stops at the end of the first lap.
LEMMA LapBound ==
  ASSUME NEW n \in Nat
  PROVE  /\ AtMostLap(n) \in Nat /\ AtMostLap(n) <= buf_size /\ AtMostLap(n) <= n
         /\ n < buf_size => AtMostLap(n) = n /\ AtMostLap(n + 1) = n + 1
         /\ n >= buf_size => AtMostLap(n) = buf_size /\ AtMostLap(n + 1) = buf_size
BY ConstantsAssumption DEF AtMostLap

\* A part of the first lap fills its strip and leaves the others.
LEMMA PastePlaces ==
  ASSUME OneOfEach, Settled, Turns, WholeNet, Lap, Assembled, Paste(C)
  PROVE  /\ \A k \in 0 .. NUM_PARTS - 1 :
              k < AtMostLap(Done + 1) => idat_data'[k * STRIP] = Whole(k)
         /\ \A x \in Cells :
              idat_data'[x].kind = "whole" =>
                0 <= idat_data'[x].part /\ idat_data'[x].part < AtMostLap(Done + 1)
<1> USE StreamTypes, CountFacts, LapBound DEF Settled, Ordered, At, Goto
<1>1. pc[C] = "paste" /\ Placed = Done /\ Done < counter
  <2>1. pc[C] = "paste"
    BY DEF Paste
  <2>2. InSlot(C)
    BY <2>1 DEF InSlot, ConsumerHolds
  <2> QED BY <2>1, <2>2 DEF Placed
<1>2. PICK r \in Inflated(chunk[C]) : idat_data' = Pasted(idat_data, temp[C].seq, r)
  BY DEF Paste
<1>3. NUM_PARTS \in Nat /\ STRIP \in Nat /\ STRIP > 0 /\ counter <= NUM_PARTS
  BY StripAssumption, TransferAssumption DEF PartCounted
<1>4. CASE Done < buf_size
  <2>1. chunk[C] = Whole(Done) /\ temp[C].seq = Done
    BY <1>1, <1>4 DEF Lap, LapCopies
  <2>2. r.n = STRIP /\ r.cell = Whole(Done)
    BY <1>2, <2>1 DEF Inflated, Whole, PartBytes
  <2>3. \A x \in Cells :
          idat_data'[x] = IF Done * STRIP <= x /\ x < Done * STRIP + STRIP
                          THEN Whole(Done) ELSE idat_data[x]
    BY <1>2, <2>1, <2>2 DEF Pasted
  <2>4. AtMostLap(Placed) = Done /\ AtMostLap(Done + 1) = Done + 1
    BY <1>1, <1>4
  <2>5. ASSUME NEW k \in 0 .. NUM_PARTS - 1, k < Done + 1
        PROVE  idat_data'[k * STRIP] = Whole(k)
    <3>1. k \in Nat /\ k < NUM_PARTS
      BY <1>3
    <3>2. k * STRIP \in Cells
      BY StripStart
    <3>3. CASE k = Done
      <4>1. Done * STRIP <= k * STRIP /\ k * STRIP < Done * STRIP + STRIP
        BY <1>3, <3>3
      <4> QED BY <2>3, <3>2, <3>3, <4>1
    <3>4. CASE k # Done
      <4>0. Done \in Nat
        OBVIOUS
      <4>1. k < Done
        BY <2>5, <3>1, <3>4, <4>0
      <4>2. k * STRIP + STRIP <= Done * STRIP /\ k * STRIP \in Nat /\ Done * STRIP \in Nat
        BY <3>1, <4>1, StripsApart
      <4>3. ~(Done * STRIP <= k * STRIP)
        BY <1>3, <4>2
      <4> QED BY <2>3, <2>4, <3>2, <4>1, <4>3 DEF Assembled
    <3> QED BY <3>3, <3>4
  <2>6. ASSUME NEW x \in Cells, idat_data'[x].kind = "whole"
        PROVE  0 <= idat_data'[x].part /\ idat_data'[x].part < Done + 1
    <3>1. CASE idat_data'[x] = Whole(Done)
      BY <3>1 DEF Whole, PartBytes
    <3>2. CASE idat_data'[x] = idat_data[x]
      <4>1. idat_data[x].part \in Int
        BY DEF TypeOK, SharedTypes, Content
      <4> QED BY <2>4, <2>6, <3>2, <4>1 DEF Assembled
    <3> QED BY <2>3, <3>1, <3>2
  <2> QED BY <2>4, <2>5, <2>6
<1>5. CASE Done >= buf_size
  <2>1. chunk[C] = Zero
    BY <1>1, <1>5 DEF Lap, LapCopies
  <2>2. r.n = 0
    BY <1>2, <2>1 DEF Inflated, Zero
  <2>3. temp[C].seq \in Int /\ temp[C].seq * 0 = 0
    BY DEF RecvBuf
  <2>4. \A x \in Cells : idat_data'[x] = idat_data[x]
    <3> SUFFICES ASSUME NEW x \in Cells PROVE idat_data'[x] = idat_data[x]
      OBVIOUS
    <3>1. ~(0 <= x /\ x < 0 + 0)
      BY <1>3 DEF Cells
    <3> QED BY <1>2, <2>2, <2>3, <3>1 DEF Pasted
  <2>5. AtMostLap(Placed) = buf_size /\ AtMostLap(Done + 1) = buf_size
    BY <1>1, <1>5
  <2>6. \A k \in 0 .. NUM_PARTS - 1 : k * STRIP \in Cells
    BY StripStart
  <2> QED BY <2>4, <2>5, <2>6 DEF Assembled
<1> QED BY <1>4, <1>5

\* The consumer counts a part, then places it, once each.
LEMMA ConsumerAssembles ==
  ASSUME OneOfEach, Settled, Turns, WholeNet, Lap, Assembled, ConsumerStep(C)
  PROVE  Assembled'
<1> USE StreamTypes, CountFacts, LapBound DEF Settled, Ordered, At, Goto
<1>0. main_pc' = main_pc
  BY DEF ConsumerStep, CheckCounter, ConsumerWait, Lock, Read, ReadEmpty, RetrieveChunk,
     AddLength, Paste, Reset, NextIndex, ConsumerPost, ChildCleanup, life
<1>a. /\ NextIndex(C) => Done' = Done + 1
      /\ ~NextIndex(C) => Done' = Done
  BY ConsumerCounts
<1>1. CASE NextIndex(C)
  <2>1. pc[C] = "next" /\ pc'[C] = "post" /\ UNCHANGED <<length_all, idat_data>>
    BY <1>1 DEF NextIndex, image
  <2>2. Counted' = Counted /\ Placed' = Placed
    BY <1>1, <1>a, <2>1 DEF Counted, Placed
  <2> QED BY <1>0, <2>1, <2>2 DEF Assembled, AtMostLap
<1>2. CASE ReadEmpty(C)
  <2>1. pc[C] = "read" /\ pc'[C] = "next" /\ UNCHANGED <<length_all, idat_data>>
        /\ slot[idx[C]].size = 0 /\ ~NextIndex(C)
    BY <1>2 DEF ReadEmpty, NextIndex, image
  <2>2. InSlot(C)
    BY <2>1 DEF InSlot, ConsumerHolds
  <2>3. Done >= buf_size
    BY <2>1, <2>2, ConsumersSlot DEF Lap
  <2>4. Counted = Done /\ Placed = Done /\ Counted' = Done + 1 /\ Placed' = Done + 1
    BY <1>a, <2>1 DEF Counted, Placed
  <2>5. AtMostLap(Done) = buf_size /\ AtMostLap(Done + 1) = buf_size
    BY <2>3
  <2> QED BY <1>0, <2>1, <2>4, <2>5 DEF Assembled, AtMostLap
<1>3. CASE RetrieveChunk(C)
  <2>1. /\ pc[C] = "chunk" /\ pc'[C] = "add" /\ UNCHANGED <<length_all, idat_data>>
        /\ reg' = [reg EXCEPT ![C] = length_all] /\ ~NextIndex(C)
    BY <1>3 DEF RetrieveChunk, NextIndex, image
  <2>2. Counted' = Counted /\ Placed' = Placed
    BY <1>a, <2>1 DEF Counted, Placed
  <2> QED BY <1>0, <2>1, <2>2 DEF Assembled, AtMostLap
<1>4. CASE AddLength(C)
  <2>1. /\ pc[C] = "add" /\ pc'[C] = "paste" /\ UNCHANGED idat_data /\ ~NextIndex(C)
        /\ length_all' = reg[C] + IdatLength(chunk[C])
    BY <1>4 DEF AddLength, NextIndex
  <2>2. Counted = Done /\ Counted' = Done + 1 /\ Placed' = Placed
    BY <1>a, <2>1 DEF Counted, Placed
  <2>3. IdatLength(chunk[C]) = IF Done < buf_size THEN 1 ELSE 0
    BY <2>1 DEF Lap, LapCopies, IdatLength, Whole, PartBytes, Zero
  <2>4. main_pc \in {"fork", "wait", "waitpid", "catpng"} =>
          length_all' = AtMostLap(Done + 1)
    <3>1. main_pc \in {"fork", "wait", "waitpid", "catpng"} => reg[C] = AtMostLap(Done)
      BY <2>1, <2>2 DEF Assembled
    <3>2. AtMostLap(Done + 1) = AtMostLap(Done) + IdatLength(chunk[C])
      BY <2>3
    <3> QED BY <2>1, <3>1, <3>2
  <2> QED BY <1>0, <2>1, <2>2, <2>4 DEF Assembled, AtMostLap
<1>5. CASE Paste(C)
  <2>1. /\ pc[C] = "paste" /\ pc'[C] = "reset" /\ UNCHANGED length_all /\ ~NextIndex(C)
    BY <1>5 DEF Paste, NextIndex
  <2>2. Counted' = Counted /\ Placed' = Done + 1
    BY <1>a, <2>1 DEF Counted, Placed
  <2> QED BY <1>0, <1>5, <2>1, <2>2, PastePlaces DEF Assembled, AtMostLap
<1>6. CASE ~(NextIndex(C) \/ ReadEmpty(C) \/ RetrieveChunk(C) \/ AddLength(C) \/ Paste(C))
  <2>1. UNCHANGED <<length_all, idat_data>>
    BY <1>6 DEF ConsumerStep, CheckCounter, ConsumerWait, Lock, Read, Reset, ConsumerPost,
       ChildCleanup, image
  <2>2. /\ pc[C] \notin {"add", "paste", "next"} /\ pc'[C] \notin {"add", "paste"}
        /\ pc[C] = "reset" <=> pc'[C] = "next"
        /\ pc'[C] # "reset"
    BY <1>6 DEF ConsumerStep, CheckCounter, ConsumerWait, Lock, Read, Reset, ConsumerPost,
       ChildCleanup
  <2>3. Counted' = Counted /\ Placed' = Placed
    BY <1>6, <1>a, <2>2 DEF Counted, Placed
  <2> QED BY <1>0, <2>1, <2>2, <2>3 DEF Assembled, AtMostLap
<1> QED BY <1>1, <1>2, <1>3, <1>4, <1>5, <1>6

\* The producer touches neither length_all nor the image.
LEMMA ProducerAssembles ==
  ASSUME OneOfEach, Settled, Turns, Assembled, ProducerStep(P) \/ Transfer(P)
  PROVE  Assembled'
<1> USE StreamTypes DEF Settled, Ordered, At, Goto
<1>1. UNCHANGED <<pc[C], reg[C], length_all, idat_data, main_pc>>
  BY DEF ProducerStep, Transfer, CheckCounter, ProducerWait, Lock, ProducerSkip, Fetch,
     FetchNoHandle, Copy, Publish, LoadCounter, StoreCounter, NextIndex, ProducerPost,
     ChildCleanup, image, life
<1>2. InSlot(C)' = InSlot(C)
  BY <1>1 DEF InSlot
<1>3. Delivered' - items' = Delivered - items
  BY EmptyAtGet DEF ProducerStep, Transfer, CheckCounter, ProducerWait, Lock, ProducerSkip,
     Fetch, FetchNoHandle, Copy, Publish, LoadCounter, StoreCounter, NextIndex,
     ProducerPost, ChildCleanup, Delivered, sems, PartCounted
<1>4. Done' = Done
  BY <1>2, <1>3 DEF Done
<1>5. Counted' = Counted /\ Placed' = Placed
  BY <1>1, <1>4 DEF Counted, Placed
<1> QED BY <1>1, <1>5 DEF Assembled, AtMostLap

\* What holds in every reachable state.
Assembling == Settled /\ Turns /\ Reaped /\ FirstLap

\* Assembling is inductive.
LEMMA AssemblingInductive ==
  ASSUME OneOfEach
  PROVE  /\ Init => Assembling
         /\ Assembling /\ [Next]_vars => Assembling'
<1>1. Init => Settled /\ Turns /\ Reaped
  <2>1. Init => Reaped
    BY DEF Init, Reaped
  <2> QED BY <2>1, OrderInductive, EmptyInductive, CountedInductive, TurnsInductive
         DEF Settled
<1>2. Settled /\ Turns /\ Reaped /\ [Next]_vars => (Settled /\ Turns /\ Reaped)'
  BY OrderInductive, EmptyInductive, CountedInductive, TurnsInductive, NextReaped
     DEF Settled, Ordered
<1>3. Init => FirstLap
  <2> SUFFICES ASSUME Init PROVE LapSlots /\ LapCopies /\ Assembled
    BY DEF FirstLap
  <2>1. pc[P] = "check" /\ pc[C] = "check" /\ counter = 0 /\ items = 0 /\ length_all = 0
        /\ slot = [j \in Slots |-> FreshBuf(MAIN)] /\ idat_data = [x \in Cells |-> Zero]
    BY TwoChildren DEF Init
  <2>2. Done = 0 /\ Emptied = 0 /\ Stored = 0 /\ Counted = 0 /\ Placed = 0
    BY <2>1 DEF Done, Delivered, Emptied, Stored, Counted, Placed, InSlot, ProducerHolds,
       ConsumerHolds
  <2>3. AtMostLap(0) = 0
    BY ConstantsAssumption DEF AtMostLap
  <2>4. LapSlots
    BY <2>1, <2>2 DEF LapSlots, Slots
  <2> QED BY <2>1, <2>2, <2>3, <2>4 DEF LapCopies, Assembled, Zero
<1>4. ASSUME Settled, Turns, FirstLap, [Next]_vars, WholeNet'
      PROVE  LapSlots' /\ LapCopies' /\ Assembled'
  <2>0. net' = net
    BY <1>4 DEF Next, MainStep, Fork, ForkFails, WaitNone, WaitpidNone, Catpng, MainCleanup,
       Wait, Crash, Terminated, vars, life, ProducerStep, Transfer, ConsumerStep,
       CheckCounter, ProducerWait, ConsumerWait, Lock, ProducerSkip, Fetch, FetchNoHandle,
       Copy, Publish, LoadCounter, StoreCounter, NextIndex, ProducerPost, ConsumerPost,
       ChildCleanup, Read, ReadEmpty, RetrieveChunk, AddLength, Paste, Reset
  <2>1. WholeNet /\ Lap /\ Assembled
    BY <1>4, <2>0 DEF WholeNet, FirstLap, Lap
  <2>2. CASE \E p \in Producers : ProducerStep(p) \/ Transfer(p)
    BY <1>4, <2>1, <2>2, TwoChildren, ProducerLaps, ProducerAssembles DEF Lap
  <2>3. CASE \E c \in Consumers : ConsumerStep(c)
    BY <1>4, <2>1, <2>3, TwoChildren, ConsumerLaps, ConsumerAssembles DEF Lap
  <2>4. CASE MainStep \/ ForkFails \/ (\E c \in Children : Crash(c)) \/ Terminated
             \/ UNCHANGED vars
    <3>1. UNCHANGED <<counter, items, slot, bytes, pc, idx, fetched, temp, chunk, idat_data>>
      BY <2>4, OthersStep
    <3>2. /\ Done' = Done /\ Emptied' = Emptied /\ Stored' = Stored
          /\ Counted' = Counted /\ Placed' = Placed
      BY <3>1 DEF Done, Delivered, Emptied, Stored, Counted, Placed, InSlot
    <3>3. main_pc' \in {"fork", "wait", "waitpid", "catpng"} =>
            /\ main_pc \in {"fork", "wait", "waitpid", "catpng"}
            /\ UNCHANGED <<length_all, reg>>
      BY <2>4 DEF MainStep, Fork, ForkFails, WaitNone, WaitpidNone, Catpng, MainCleanup,
         Wait, Crash, Terminated, vars, life, image
    <3>4. LapSlots' /\ LapCopies'
      BY <2>1, <3>1, <3>2 DEF Lap, LapSlots, LapCopies
    <3> QED BY <2>1, <3>1, <3>2, <3>3, <3>4 DEF Assembled, AtMostLap
  <2> QED BY <1>4, <2>2, <2>3, <2>4 DEF Next
<1> QED BY <1>1, <1>2, <1>3, <1>4 DEF Assembling, FirstLap

\* With one producer and one consumer, for every size of the ring, of a strip and of
\* the image: on a network that delivers every part whole the image has exactly
\* the parts of the first lap that the consumer took, and length_all their number.
THEOREM FirstLapAssembled ==
  ASSUME OneOfEach
  PROVE  Spec => []AssembledParts
<1>1. Assembling => AssembledParts
  <2> SUFFICES ASSUME Assembling, WholeNet, main_pc = "catpng", ~Abnormal
               PROVE  /\ WholeStrips = {k \in Taken : k < buf_size}
                      /\ length_all = Cardinality(WholeStrips)
    BY DEF AssembledParts, WholeNet
  <2> USE StreamTypes, CountFacts, LapBound DEF Assembling, Settled, Ordered
  <2>1. pc[P] = "cleanup" /\ pc[C] = "cleanup"
    BY DEF Reaped, Abnormal, Turns
  <2>2. Done = counter - items /\ Counted = Done /\ Placed = Done
    BY <2>1 DEF Done, Delivered, Counted, Placed, InSlot, ProducerHolds, ConsumerHolds
  <2>3. NUM_PARTS \in Nat /\ STRIP \in Nat /\ STRIP > 0 /\ Done <= NUM_PARTS
    BY StripAssumption, TransferAssumption DEF PartCounted
  <2> DEFINE n == AtMostLap(Done)
  <2>4. n \in Nat /\ n <= NUM_PARTS
    BY <2>3
  <2>5. Assembled
    BY DEF FirstLap
  <2>6. {k \in Taken : k < buf_size} = 0 .. n - 1
    BY <2>2, <2>3, ConstantsAssumption DEF Taken, AtMostLap
  <2>7. WholeStrips = 0 .. n - 1
    <3>1. ASSUME NEW k \in WholeStrips PROVE k \in 0 .. n - 1
      <4>1. PICK x \in Cells : idat_data[x].kind = "whole" /\ idat_data[x].part = k
        BY DEF WholeStrips
      <4>2. k \in Nat /\ k < n
        BY <2>2, <2>3, <2>5, <4>1 DEF Assembled, WholeStrips
      <4> QED BY <2>4, <4>2
    <3>2. ASSUME NEW k \in 0 .. n - 1 PROVE k \in WholeStrips
      <4>1. k \in Nat /\ k < n /\ k < NUM_PARTS /\ k \in 0 .. NUM_PARTS - 1
        BY <2>3, <2>4
      <4>2. idat_data[k * STRIP] = Whole(k)
        BY <2>2, <2>5, <4>1 DEF Assembled
      <4>3. k * STRIP \in Cells
        BY <4>1, StripStart
      <4> QED BY <4>1, <4>2, <4>3 DEF WholeStrips, Whole, PartBytes
    <3> QED BY <3>1, <3>2
  <2>8. Cardinality(0 .. n - 1) = n
    BY <2>4, CardinalityUpTo
  <2>9. length_all = n
    BY <2>2, <2>5 DEF Assembled
  <2> QED BY <2>6, <2>7, <2>8, <2>9
<1>2. Init => Assembling
  BY AssemblingInductive
<1>3. Assembling /\ [Next]_vars => Assembling'
  BY AssemblingInductive
<1> QED BY <1>1, <1>2, <1>3, PTL DEF Spec

-----------------------------------------------------------------------------
(***************************************************************************)
(* Nobody is stranded: the safety side of TerminatesUnlessStalled, for a   *)
(* ring of any size.                                                       *)
(***************************************************************************)

\* A worker at the semaphore has seen that parts are left, and of a result that is
\* left the consumer has not made a turn; one that leaves has seen the last part
\* counted.  The private mutex is held exactly between its two calls.
Unstranded ==
  /\ pc[C] = "sem_wait" => Done < NUM_PARTS
  /\ \A c \in Children : pc[c] = "cleanup" => counter = NUM_PARTS
  /\ \A c \in Children : pc[c] \in {"check", "sem_wait", "lock"} => ~mutex[c]
  /\ \A c \in Children : pc[c] = "post" => ~mutex[c]

\* The turns that the producer leaves alone.
LEMMA ProducerCounts ==
  ASSUME OneOfEach, Settled, ProducerStep(P) \/ Transfer(P)
  PROVE  Done' = Done /\ pc'[C] = pc[C]
<1> USE StreamTypes DEF Settled, Ordered, At, Goto
<1>1. pc'[C] = pc[C]
  BY DEF ProducerStep, Transfer, CheckCounter, ProducerWait, Lock, ProducerSkip, Fetch,
     FetchNoHandle, Copy, Publish, LoadCounter, StoreCounter, NextIndex, ProducerPost,
     ChildCleanup
<1>2. InSlot(C)' = InSlot(C)
  BY <1>1 DEF InSlot
<1>3. Delivered' - items' = Delivered - items
  BY EmptyAtGet DEF ProducerStep, Transfer, CheckCounter, ProducerWait, Lock, ProducerSkip,
     Fetch, FetchNoHandle, Copy, Publish, LoadCounter, StoreCounter, NextIndex,
     ProducerPost, ChildCleanup, Delivered, sems, PartCounted
<1> QED BY <1>1, <1>2, <1>3 DEF Done

\* Unstranded is inductive.
LEMMA UnstrandedInductive ==
  ASSUME OneOfEach
  PROVE  /\ Init => Unstranded
         /\ Settled /\ Turns /\ Unstranded /\ [Next]_vars => Unstranded'
<1>1. Init => Unstranded
  BY TwoChildren DEF Init, Unstranded
<1>2. ASSUME Settled, Turns, Unstranded, [Next]_vars
      PROVE  Unstranded'
  <2> USE <1>2, StreamTypes DEF Settled, Ordered, At, Goto, TypeOK, PrivateTypes
  <2>0. NUM_PARTS \in Nat /\ counter <= NUM_PARTS
    BY TransferAssumption DEF PartCounted
  <2>1. CASE \E p \in Producers : ProducerStep(p) \/ Transfer(p)
    <3>0. ProducerStep(P) \/ Transfer(P)
      BY <2>1, TwoChildren
    <3>1. pc'[C] = "sem_wait" => Done' < NUM_PARTS
      BY <3>0, ProducerCounts DEF Unstranded
    <3>2. \A c \in Children : pc'[c] = "cleanup" => counter' = NUM_PARTS
      <4>1. CASE StoreCounter(P)
        <5>1. pc[P] = "store" /\ counter < NUM_PARTS
          BY <4>1 DEF StoreCounter, PartCounted
        <5>2. pc[C] # "cleanup" /\ pc'[C] = pc[C] /\ pc'[P] = "next"
          BY <2>0, <4>1, <5>1 DEF StoreCounter, Unstranded
        <5> QED BY <5>2, TwoChildren
      <4>2. CASE CheckCounter(P)
        BY <2>0, <4>2 DEF CheckCounter, MoreParts, Unstranded
      <4>3. CASE ~StoreCounter(P) /\ ~CheckCounter(P)
        <5>1. counter' = counter /\ pc'[C] = pc[C]
              /\ (pc'[P] = "cleanup" => pc[P] = "cleanup")
          BY <3>0, <4>3 DEF ProducerStep, Transfer, ProducerWait, Lock, ProducerSkip, Fetch,
             FetchNoHandle, Copy, Publish, LoadCounter, NextIndex, ProducerPost,
             ChildCleanup
        <5> QED BY <5>1, TwoChildren DEF Unstranded
      <4> QED BY <4>1, <4>2, <4>3
    <3>3. /\ \A c \in Children : pc'[c] \in {"check", "sem_wait", "lock"} => ~mutex'[c]
          /\ \A c \in Children : pc'[c] = "post" => ~mutex'[c]
      <4>1. /\ pc'[C] = pc[C] /\ mutex'[C] = mutex[C]
            /\ pc'[P] \in {"check", "sem_wait", "lock", "post"} => ~mutex'[P]
        BY <3>0 DEF ProducerStep, Transfer, CheckCounter, ProducerWait, Lock, ProducerSkip,
           Fetch, FetchNoHandle, Copy, Publish, LoadCounter, StoreCounter, NextIndex,
           ProducerPost, ChildCleanup, Unstranded
      <4> QED BY <4>1, TwoChildren DEF Unstranded
    <3> QED BY <3>1, <3>2, <3>3 DEF Unstranded
  <2>2. CASE \E c \in Consumers : ConsumerStep(c)
    <3>0. ConsumerStep(C)
      BY <2>2, TwoChildren
    <3>1. pc'[C] = "sem_wait" => Done' < NUM_PARTS
      <4>1. CASE CheckCounter(C)
        <5>1. pc'[C] = "sem_wait" => counter < NUM_PARTS
          BY <4>1 DEF CheckCounter, MoreParts
        <5>2. Done' = Done /\ Done <= counter
          <6>1. ~NextIndex(C)
            BY <4>1 DEF CheckCounter, NextIndex
          <6> QED BY <3>0, <6>1, CountFacts, ConsumerCounts
        <5> QED BY <2>0, <5>1, <5>2, CountFacts
      <4>2. CASE ~CheckCounter(C)
        BY <3>0, <4>2 DEF ConsumerStep, ConsumerWait, Lock, Read, ReadEmpty, RetrieveChunk,
           AddLength, Paste, Reset, NextIndex, ConsumerPost, ChildCleanup, ConsumerWait,
           Unstranded
      <4> QED BY <4>1, <4>2
    <3>2. counter' = counter /\ pc'[P] = pc[P] /\ mutex'[P] = mutex[P]
      BY <3>0 DEF ConsumerStep, CheckCounter, ConsumerWait, Lock, Read, ReadEmpty,
         RetrieveChunk, AddLength, Paste, Reset, NextIndex, ConsumerPost, ChildCleanup
    <3>3. pc'[C] = "cleanup" => counter = NUM_PARTS
      BY <2>0, <3>0 DEF ConsumerStep, CheckCounter, ConsumerWait, Lock, Read, ReadEmpty,
         RetrieveChunk, AddLength, Paste, Reset, NextIndex, ConsumerPost, ChildCleanup,
         MoreParts, Unstranded
    <3>4. pc'[C] \in {"check", "sem_wait", "lock", "post"} => ~mutex'[C]
      BY <3>0 DEF ConsumerStep, CheckCounter, ConsumerWait, Lock, Read, ReadEmpty,
         RetrieveChunk, AddLength, Paste, Reset, NextIndex, ConsumerPost, ChildCleanup,
         Unstranded
    <3> QED BY <3>1, <3>2, <3>3, <3>4, TwoChildren DEF Unstranded
  <2>3. CASE MainStep \/ ForkFails \/ (\E c \in Children : Crash(c)) \/ Terminated
             \/ UNCHANGED vars
    <3>1. UNCHANGED <<counter, items, pc, mutex>>
      BY <2>3 DEF MainStep, Fork, ForkFails, WaitNone, WaitpidNone, Catpng, MainCleanup,
         Wait, Crash, Terminated, vars, sems
    <3> QED BY <3>1 DEF Unstranded, Done, Delivered, InSlot
  <2> QED BY <2>1, <2>2, <2>3 DEF Next
<1> QED BY <1>1, <1>2

\* With one producer and one consumer, for every ring size and number of parts: no
\* child is ever blocked for good by the other, which has neither left the loop nor
\* is blocked in turn; only its death, or a fork that failed, can do that.
THEOREM NobodyStranded ==
  ASSUME OneOfEach
  PROVE  Spec => []NoneStranded
<1> DEFINE Inv == Settled /\ Turns /\ Unstranded
<1>1. Init => Inv
  BY OrderInductive, EmptyInductive, CountedInductive, TurnsInductive, UnstrandedInductive
     DEF Settled
<1>2. Inv /\ [Next]_vars => Inv'
  BY OrderInductive, EmptyInductive, CountedInductive, TurnsInductive, UnstrandedInductive
     DEF Settled, Ordered
<1>3. Inv => NoneStranded
  <2> SUFFICES ASSUME Inv, NEW c \in Children, NEW d \in Children, Blocked(c), d # c
               PROVE  status[d] # "exit" /\ ~Blocked(d)
    BY DEF NoneStranded
  <2> USE StreamTypes DEF Settled, Ordered
  <2>0. NUM_PARTS \in Nat /\ counter <= NUM_PARTS
    BY TransferAssumption DEF PartCounted
  <2>1. \A e \in Children : Blocked(e) =>
          pc[e] = "sem_wait" /\ (IF e = P THEN spaces ELSE items) = 0
    BY DEF Blocked, Unstranded
  <2>2. \A e \in Children : status[e] = "exit" => counter = NUM_PARTS /\ pc[e] = "cleanup"
    BY DEF Turns, Unstranded
  <2>3. ~Blocked(d)
    <3> SUFFICES ASSUME Blocked(d) PROVE FALSE
      OBVIOUS
    <3>1. pc[P] = "sem_wait" /\ pc[C] = "sem_wait" /\ spaces = 0 /\ items = 0
      BY <2>1, TwoChildren
    <3>2. Holding(P) = 0 /\ Holding(C) = 0
      BY <3>1 DEF Holding, Held, ProducerHolds, ConsumerHolds
    <3> QED BY <3>1, <3>2, TwoHolders, ConstantsAssumption
  <2>4. status[d] # "exit"
    <3> SUFFICES ASSUME status[d] = "exit" PROVE FALSE
      OBVIOUS
    <3>1. counter = NUM_PARTS /\ pc[d] = "cleanup" /\ pc[c] = "sem_wait"
      BY <2>1, <2>2
    <3>2. c = C /\ d = P /\ items = 0
      BY <2>0, <2>1, <3>1, TwoChildren DEF PartCounted
    <3>3. Done = Delivered /\ Delivered = counter
      BY <3>1, <3>2 DEF Done, Delivered, InSlot, ProducerHolds, ConsumerHolds
    <3> QED BY <2>0, <3>1, <3>2, <3>3 DEF Unstranded
  <2> QED BY <2>3, <2>4
<1> QED BY <1>1, <1>2, <1>3, PTL DEF Spec
=============================================================================

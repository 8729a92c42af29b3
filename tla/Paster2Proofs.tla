---------------------------- MODULE Paster2Proofs ----------------------------
(***************************************************************************)
(* Theorems about the ring of paster2, for every number of workers, slots, *)
(* parts and cells, and in the second half for the one producer and the    *)
(* one consumer that main() forks.                                         *)
(***************************************************************************)
EXTENDS Paster2Stream, FiniteSetTheorems, TLAPS

-----------------------------------------------------------------------------
(* What the helpers return. *)

\* The circular step, without the modulus: idx stays inside the ring.
LEMMA AdvanceStep ==
  ASSUME NEW j \in Slots
  PROVE  /\ Advance(j) = IF j + 1 < buf_size THEN j + 1 ELSE 0
         /\ Advance(j) \in Slots
BY ConstantsAssumption DEF Advance, Slots

\* Parent and workers are children numbered from 0, producers first.
LEMMA Roles ==
  /\ num_child \in Nat
  /\ Children = Producers \cup Consumers
  /\ Producers \cap Consumers = {}
  /\ IsFiniteSet(Children)
<1>1. num_child \in Nat /\ n_producer \in Nat /\ n_consumer \in Nat
  BY ConstantsAssumption DEF num_child
<1>2. Children = Producers \cup Consumers /\ Producers \cap Consumers = {}
  BY <1>1 DEF Children, Producers, Consumers, num_child
<1>3. IsFiniteSet(Children)
  BY <1>1, FS_Interval DEF Children
<1> QED BY <1>1, <1>2, <1>3

\* A transfer leaves a well-formed RECV_BUF.
LEMMA ReceivedType ==
  ASSUME NEW k \in Nat, NEW kinds
  PROVE  Received(kinds, k) \subseteq Fetched
<1>2. \A kind \in ContentKinds : PartBytes(kind, k) \in Content
  BY DEF PartBytes, Content
<1>3. Bodies(kinds, k) \subseteq Content
  BY <1>2 DEF Bodies, Zero, Content, ContentKinds
<1>4. Alien \in Content /\ Zero \in Content
  BY DEF Alien, Zero, Content, ContentKinds
<1>5. \A n \in {0, 1}, s \in Int, d \in Content : Arrival(n, s, d) \in Fetched
  BY DEF Arrival, Fetched
<1> QED BY <1>3, <1>4, <1>5 DEF Received

\* mem_inf leaves a length and a kind of bytes.
LEMMA InflatedType ==
  ASSUME NEW d \in Content, NEW r \in Inflated(d)
  PROVE  r.n \in Nat /\ r.cell \in Content
BY StripAssumption DEF Inflated, Content, ContentKinds, Zero, Junk

-----------------------------------------------------------------------------
(* Type correctness. *)

\* The ranges of the labels, for a child in its own loop.
LEMMA LabelFacts ==
  /\ ProducerHolds \subseteq Labels /\ ConsumerHolds \subseteq Labels
  /\ {"check", "sem_wait", "cleanup"} \subseteq Labels
BY DEF Labels

\* Init establishes the types.
LEMMA InitType == Init => TypeOK
<1> SUFFICES ASSUME Init PROVE TypeOK
  OBVIOUS
<1> USE ConstantsAssumption, Roles
<1>1. 0 \in Slots /\ MAIN \in Children \cup {MAIN} /\ Zero \in Content
  BY DEF Slots, Zero, Content, ContentKinds
<1>2. FreshBuf(MAIN) \in RecvBuf /\ NoFetch \in Fetched
  BY <1>1 DEF FreshBuf, RecvBuf, NoFetch, Fetched
<1>3. SharedTypes
  BY <1>1, <1>2 DEF Init, SharedTypes
<1>4. PrivateTypes
  BY <1>1, <1>2, LabelFacts DEF Init, PrivateTypes
<1>5. LifeTypes
  BY DEF Init, LifeTypes, num_child
<1> QED BY <1>3, <1>4, <1>5 DEF TypeOK

\* The parent's steps touch only the life cycle and, in catpng, length_all.
LEMMA MainStepType == TypeOK /\ (MainStep \/ ForkFails) => TypeOK'
<1> SUFFICES ASSUME TypeOK, MainStep \/ ForkFails PROVE TypeOK'
  OBVIOUS
<1> USE ConstantsAssumption, Roles DEF TypeOK, sems, ring, locals
<1>1. CASE Fork
  BY <1>1 DEF Fork, SharedTypes, PrivateTypes, LifeTypes, image, Children
<1>2. CASE \E c \in Children : Wait(c)
  BY <1>2 DEF Wait, SharedTypes, PrivateTypes, LifeTypes, image
<1>3. CASE WaitNone
  BY <1>3 DEF WaitNone, SharedTypes, PrivateTypes, LifeTypes, image, num_child
<1>4. CASE Catpng
  BY <1>4 DEF Catpng, SharedTypes, PrivateTypes, LifeTypes
<1>5. CASE MainCleanup
  BY <1>5 DEF MainCleanup, SharedTypes, PrivateTypes, LifeTypes, image
<1>6. CASE ForkFails
  BY <1>6 DEF ForkFails, SharedTypes, PrivateTypes, LifeTypes, image
<1>7. CASE WaitpidNone
  BY <1>7 DEF WaitpidNone, SharedTypes, PrivateTypes, LifeTypes, image, Children
<1> QED BY <1>1, <1>2, <1>3, <1>4, <1>5, <1>6, <1>7 DEF MainStep

\* The steps both kinds of children take.
LEMMA CommonStepType ==
  ASSUME TypeOK, NEW c \in Children,
         CheckCounter(c) \/ Lock(c) \/ NextIndex(c) \/ ChildCleanup(c) \/ Crash(c)
  PROVE  TypeOK'
<1> USE LabelFacts, Roles DEF TypeOK, sems, ring, image, locals, life, At, Goto
<1>1. CASE CheckCounter(c)
  BY <1>1 DEF CheckCounter, SharedTypes, PrivateTypes, LifeTypes
<1>2. CASE Lock(c)
  BY <1>2 DEF Lock, SharedTypes, PrivateTypes, LifeTypes, ProducerHolds, ConsumerHolds
<1>3. CASE NextIndex(c)
  <2>1. Advance(idx[c]) \in Slots
    BY AdvanceStep DEF PrivateTypes
  <2> QED BY <1>3, <2>1 DEF NextIndex, SharedTypes, PrivateTypes, LifeTypes,
             ProducerHolds, ConsumerHolds
<1>4. CASE ChildCleanup(c)
  BY <1>4 DEF ChildCleanup, SharedTypes, PrivateTypes, LifeTypes
<1>5. CASE Crash(c)
  BY <1>5 DEF Crash, SharedTypes, PrivateTypes, LifeTypes
<1> QED BY <1>1, <1>2, <1>3, <1>4, <1>5

\* producer() keeps the types.
LEMMA ProducerStepType ==
  ASSUME TypeOK, NEW p \in Producers, ProducerStep(p) \/ Transfer(p)
  PROVE  TypeOK'
<1>0. p \in Children /\ p \notin Consumers
  BY Roles
<1> USE <1>0, LabelFacts, Roles DEF sems, ring, image, locals, life, At, Goto
<1> USE DEF TypeOK, SharedTypes, PrivateTypes, LifeTypes
<1>1. CASE CheckCounter(p) \/ Lock(p) \/ NextIndex(p) \/ ChildCleanup(p)
  BY <1>1, CommonStepType
<1>2. CASE ProducerWait(p)
  BY <1>2 DEF ProducerWait, ProducerHolds
<1>3. CASE ProducerSkip(p)
  BY <1>3 DEF ProducerSkip, ProducerHolds
<1>4. CASE Fetch(p)
  <2>1. Received(net, counter) \subseteq Fetched
    BY ReceivedType
  <2> QED BY <1>4, <2>1 DEF Fetch, ProducerHolds
<1>5. CASE FetchNoHandle(p)
  BY <1>5 DEF FetchNoHandle, ProducerHolds
<1>6. CASE Copy(p)
  <2>1. fetched[p].data \in Content
    BY DEF Fetched
  <2> QED BY <1>6, <2>1 DEF Copy, ProducerHolds
<1>7. CASE Publish(p)
  <2>1. NoFetch \in Fetched
    BY DEF NoFetch, Fetched, Zero, Content, ContentKinds
  <2>2. Published(slot[idx[p]], fetched[p]) \in RecvBuf
    BY DEF Published, RecvBuf, Fetched
  <2> QED BY <1>7, <2>1, <2>2 DEF Publish, ProducerHolds
<1>8. CASE LoadCounter(p)
  BY <1>8 DEF LoadCounter, ProducerHolds
<1>9. CASE StoreCounter(p)
  BY <1>9 DEF StoreCounter, ProducerHolds
<1>10. CASE ProducerPost(p)
  BY <1>10 DEF ProducerPost
<1> QED BY <1>1, <1>2, <1>3, <1>4, <1>5, <1>6, <1>7, <1>8, <1>9, <1>10
        DEF ProducerStep, Transfer

\* consumer() and idat_initialize() keep the types.
LEMMA ConsumerStepType ==
  ASSUME TypeOK, NEW c \in Consumers, ConsumerStep(c)
  PROVE  TypeOK'
<1>0. c \in Children /\ c \notin Producers
  BY Roles
<1> USE <1>0, LabelFacts, Roles DEF sems, ring, image, locals, life, At, Goto
<1> USE DEF TypeOK, SharedTypes, PrivateTypes, LifeTypes
<1>1. CASE CheckCounter(c) \/ Lock(c) \/ NextIndex(c) \/ ChildCleanup(c)
  BY <1>1, CommonStepType
<1>2. CASE ConsumerWait(c)
  BY <1>2 DEF ConsumerWait, ConsumerHolds
<1>3. CASE Read(c)
  BY <1>3 DEF Read, ConsumerHolds
<1>4. CASE ReadEmpty(c)
  BY <1>4 DEF ReadEmpty, ConsumerHolds
<1>5. CASE RetrieveChunk(c)
  <2>1. Seen(c) \subseteq Content
    BY DEF Seen, Zero, Alien, Content, ContentKinds
  <2> QED BY <1>5, <2>1 DEF RetrieveChunk, ConsumerHolds
<1>6. CASE AddLength(c)
  <2>1. IdatLength(chunk[c]) \in Nat
    BY DEF IdatLength
  <2> QED BY <1>6, <2>1 DEF AddLength, ConsumerHolds
<1>7. CASE Paste(c)
  <2>1. PICK r \in Inflated(chunk[c]) : idat_data' = Pasted(idat_data, temp[c].seq, r)
    BY <1>7 DEF Paste
  <2>2. r.cell \in Content
    BY <2>1, InflatedType
  <2>3. idat_data' \in [Cells -> Content]
    BY <2>1, <2>2 DEF Pasted
  <2>4. Zero \in Content
    BY DEF Zero, Content, ContentKinds
  <2> QED BY <1>7, <2>3, <2>4 DEF Paste, ConsumerHolds
<1>8. CASE Reset(c)
  <2>1. FreshBuf(c) \in RecvBuf /\ FreshBuf(MAIN) \in RecvBuf
    BY DEF FreshBuf, RecvBuf
  <2>2. Zero \in Content
    BY DEF Zero, Content, ContentKinds
  <2> QED BY <1>8, <2>1, <2>2 DEF Reset, ConsumerHolds
<1>9. CASE ConsumerPost(c)
  BY <1>9 DEF ConsumerPost
<1> QED BY <1>1, <1>2, <1>3, <1>4, <1>5, <1>6, <1>7, <1>8, <1>9 DEF ConsumerStep

\* Every step, and a stutter, keeps the types.
LEMMA NextType == TypeOK /\ [Next]_vars => TypeOK'
<1> SUFFICES ASSUME TypeOK, [Next]_vars PROVE TypeOK'
  OBVIOUS
<1>1. CASE MainStep \/ ForkFails
  BY <1>1, MainStepType
<1>2. CASE \E p \in Producers : ProducerStep(p) \/ Transfer(p)
  BY <1>2, ProducerStepType
<1>3. CASE \E c \in Consumers : ConsumerStep(c)
  BY <1>3, ConsumerStepType
<1>4. CASE \E c \in Children : Crash(c)
  BY <1>4, CommonStepType
<1>5. CASE Terminated \/ UNCHANGED vars
  BY <1>5, Roles DEF Terminated, vars, sems, ring, image, locals, life,
     TypeOK, SharedTypes, PrivateTypes, LifeTypes
<1> QED BY <1>1, <1>2, <1>3, <1>4, <1>5 DEF Next

\* For every number of workers, slots, parts and cells: the types of the
\* variables of paster2, with every pindex and cindex inside the ring.
THEOREM TypeCorrect == Spec => []TypeOK
<1> QED BY InitType, NextType, PTL DEF Spec

-----------------------------------------------------------------------------
(* The tokens of the two semaphores. *)

Held == ProducerHolds \cup ConsumerHolds

\* Moving one child to a label changes Holders by that child at most, and the
\* number of Holders by what it gained or gave back.
LEMMA HoldersStep ==
  ASSUME TypeOK, NEW c \in Children, NEW l \in Labels, Goto(c, l)
  PROVE  /\ Cardinality(Holders) \in Nat
         /\ pc[c] \in Held /\ l \in Held => Holders' = Holders
         /\ pc[c] \notin Held /\ l \notin Held => Holders' = Holders
         /\ pc[c] \notin Held /\ l \in Held =>
              Cardinality(Holders') = Cardinality(Holders) + 1
         /\ pc[c] \in Held /\ l \notin Held =>
              Cardinality(Holders') = Cardinality(Holders) - 1
<1>1. IsFiniteSet(Holders) /\ Cardinality(Holders) \in Nat
  BY Roles, FS_Subset, FS_CardinalityType DEF Holders
<1>2. pc' = [pc EXCEPT ![c] = l] /\ pc \in [Children -> Labels]
  BY DEF Goto, TypeOK, PrivateTypes
<1>3. c \in Holders <=> pc[c] \in Held
  BY DEF Holders, Held
<1>4. Holders' = IF l \in Held THEN Holders \cup {c} ELSE Holders \ {c}
  BY <1>2 DEF Holders, Held
<1>5. pc[c] \notin Held /\ l \in Held =>
        Cardinality(Holders') = Cardinality(Holders) + 1
  BY <1>1, <1>3, <1>4, FS_AddElement
<1>6. pc[c] \in Held /\ l \notin Held =>
        Cardinality(Holders') = Cardinality(Holders) - 1
  BY <1>1, <1>3, <1>4, FS_RemoveElement
<1> QED BY <1>1, <1>3, <1>4, <1>5, <1>6

\* A step that moves a child without touching the semaphores stays inside, or
\* outside, the section between its two semaphore operations.
LEMMA QuietStep ==
  ASSUME TypeOK, SemConservation, NEW c \in Children, NEW l \in Labels, Goto(c, l),
         UNCHANGED sems, pc[c] \in Held <=> l \in Held
  PROVE  SemConservation'
BY HoldersStep DEF SemConservation, sems

\* A producer takes a space, and gives an item back when it is through.
LEMMA ProducerConserves ==
  ASSUME TypeOK, SemConservation, NEW p \in Producers, ProducerStep(p) \/ Transfer(p)
  PROVE  SemConservation'
<1> USE Roles, LabelFacts DEF At, Held, ProducerHolds, ConsumerHolds
<1>1. CASE CheckCounter(p)
  BY <1>1, QuietStep DEF CheckCounter
<1>2. CASE Lock(p)
  BY <1>2, QuietStep DEF Lock
<1>3. CASE NextIndex(p)
  BY <1>3, QuietStep DEF NextIndex
<1>4. CASE ChildCleanup(p)
  BY <1>4 DEF ChildCleanup, sems, SemConservation, Holders
<1>5. CASE ProducerWait(p)
  BY <1>5, HoldersStep DEF ProducerWait, SemConservation, TypeOK, SharedTypes
<1>6. CASE ProducerPost(p)
  BY <1>6, HoldersStep DEF ProducerPost, SemConservation, TypeOK, SharedTypes
<1>7. CASE ProducerSkip(p)
  BY <1>7, QuietStep DEF ProducerSkip
<1>8. CASE Transfer(p)
  BY <1>8, QuietStep DEF Transfer, Fetch, FetchNoHandle
<1>9. CASE Copy(p) \/ Publish(p)
  BY <1>9, QuietStep DEF Copy, Publish
<1>10. CASE LoadCounter(p) \/ StoreCounter(p)
  BY <1>10, QuietStep DEF LoadCounter, StoreCounter
<1> QED BY <1>1, <1>2, <1>3, <1>4, <1>5, <1>6, <1>7, <1>8, <1>9, <1>10
        DEF ProducerStep

\* A consumer takes an item, and gives a space back when it is through.
LEMMA ConsumerConserves ==
  ASSUME TypeOK, SemConservation, NEW c \in Consumers, ConsumerStep(c)
  PROVE  SemConservation'
<1> USE Roles, LabelFacts DEF At, Held, ProducerHolds, ConsumerHolds
<1>1. CASE CheckCounter(c)
  BY <1>1, QuietStep DEF CheckCounter
<1>2. CASE Lock(c)
  BY <1>2, QuietStep DEF Lock
<1>3. CASE NextIndex(c)
  BY <1>3, QuietStep DEF NextIndex
<1>4. CASE ChildCleanup(c)
  BY <1>4 DEF ChildCleanup, sems, SemConservation, Holders
<1>5. CASE ConsumerWait(c)
  BY <1>5, HoldersStep DEF ConsumerWait, SemConservation, TypeOK, SharedTypes
<1>6. CASE ConsumerPost(c)
  BY <1>6, HoldersStep DEF ConsumerPost, SemConservation, TypeOK, SharedTypes
<1>7. CASE Read(c) \/ ReadEmpty(c)
  BY <1>7, QuietStep DEF Read, ReadEmpty
<1>8. CASE RetrieveChunk(c) \/ AddLength(c)
  BY <1>8, QuietStep DEF RetrieveChunk, AddLength
<1>9. CASE Paste(c) \/ Reset(c)
  BY <1>9, QuietStep DEF Paste, Reset
<1> QED BY <1>1, <1>2, <1>3, <1>4, <1>5, <1>6, <1>7, <1>8, <1>9 DEF ConsumerStep

\* Before the first sem_wait every token is in spaces.
LEMMA InitConserves == Init => SemConservation
<1> SUFFICES ASSUME Init PROVE SemConservation
  OBVIOUS
<1>1. Holders = {}
  BY DEF Init, Holders, ProducerHolds, ConsumerHolds
<1> QED BY <1>1, FS_EmptySet, ConstantsAssumption DEF Init, SemConservation

\* Every step keeps the number of tokens.
LEMMA NextConserves ==
  TypeOK /\ SemConservation /\ [Next]_vars => SemConservation'
<1> SUFFICES ASSUME TypeOK, SemConservation, [Next]_vars PROVE SemConservation'
  OBVIOUS
<1>1. CASE MainStep \/ ForkFails
  BY <1>1 DEF MainStep, Fork, ForkFails, WaitNone, WaitpidNone, Catpng, MainCleanup, Wait,
     sems, SemConservation, Holders
<1>2. CASE \E p \in Producers : ProducerStep(p) \/ Transfer(p)
  BY <1>2, ProducerConserves
<1>3. CASE \E c \in Consumers : ConsumerStep(c)
  BY <1>3, ConsumerConserves
<1>4. CASE \E c \in Children : Crash(c)
  BY <1>4 DEF Crash, sems, SemConservation, Holders
<1>5. CASE Terminated \/ UNCHANGED vars
  BY <1>5 DEF Terminated, vars, sems, SemConservation, Holders
<1> QED BY <1>1, <1>2, <1>3, <1>4, <1>5 DEF Next

\* For every number of producers and consumers, whatever the transfers do and
\* wherever a child dies: spaces, items and the children between their two
\* semaphore operations always add up to the size of the ring.
THEOREM TokensConserved == Spec => []SemConservation
<1>1. TypeOK /\ SemConservation /\ [Next]_vars => (TypeOK /\ SemConservation)'
  BY NextType, NextConserves
<1> QED BY InitType, InitConserves, <1>1, PTL DEF Spec

-----------------------------------------------------------------------------
(***************************************************************************)
(* The parent does not leave its loop of wait(NULL) before every child has *)
(* ended, and an ended child stays so: nobody writes the image any more.   *)
(***************************************************************************)
Reaped ==
  /\ \A c \in reaped : status[c] \in {"exit", "crash"}
  /\ main_pc = "fork" => reaped = {}
  /\ main_pc \in {"waitpid", "catpng", "cleanup", "done"} => reaped = Children

\* A step of a child ends that child at most, and only one that runs.
LEMMA ChildrenOnlyEnd ==
  ASSUME TypeOK,
         \/ \E p \in Producers : ProducerStep(p) \/ Transfer(p)
         \/ \E c \in Consumers : ConsumerStep(c)
         \/ \E c \in Children : Crash(c)
  PROVE  /\ UNCHANGED <<reaped, main_pc>>
         /\ \A c \in Children : status[c] \in {"exit", "crash"} => status'[c] = status[c]
<1> USE Roles DEF At, life
<1>1. CASE \E p \in Producers : ProducerStep(p) \/ Transfer(p)
  BY <1>1 DEF ProducerStep, Transfer, CheckCounter, ProducerWait, Lock, ProducerSkip,
     Fetch, FetchNoHandle, Copy, Publish, LoadCounter, StoreCounter, NextIndex,
     ProducerPost, ChildCleanup, TypeOK, LifeTypes
<1>2. CASE \E c \in Consumers : ConsumerStep(c)
  BY <1>2 DEF ConsumerStep, CheckCounter, ConsumerWait, Lock, Read, ReadEmpty,
     RetrieveChunk, AddLength, Paste, Reset, NextIndex, ConsumerPost, ChildCleanup,
     TypeOK, LifeTypes
<1>3. CASE \E c \in Children : Crash(c)
  BY <1>3 DEF Crash, TypeOK, LifeTypes
<1> QED BY <1>1, <1>2, <1>3

LEMMA NextReaped == TypeOK /\ Reaped /\ [Next]_vars => Reaped'
<1> SUFFICES ASSUME TypeOK, Reaped, [Next]_vars PROVE Reaped'
  OBVIOUS
<1>1. CASE Fork \/ ForkFails
  BY <1>1 DEF Fork, ForkFails, Reaped
<1>2. CASE \E c \in Children : Wait(c)
  BY <1>2 DEF Wait, Reaped
<1>3. CASE WaitNone \/ WaitpidNone \/ Catpng \/ MainCleanup
  BY <1>3 DEF WaitNone, WaitpidNone, Catpng, MainCleanup, Reaped
<1>4. CASE \/ \E p \in Producers : ProducerStep(p) \/ Transfer(p)
           \/ \E c \in Consumers : ConsumerStep(c)
           \/ \E c \in Children : Crash(c)
  <2>1. reaped \subseteq Children
    BY DEF TypeOK, LifeTypes
  <2> QED BY <1>4, <2>1, ChildrenOnlyEnd DEF Reaped
<1>5. CASE Terminated \/ UNCHANGED vars
  BY <1>5 DEF Terminated, vars, life, Reaped
<1> QED BY <1>1, <1>2, <1>3, <1>4, <1>5 DEF Next, MainStep

\* For every number of producers and consumers: catpng() reads the image when no
\* child is left that could write it (paster2.c:152 and 160).
THEOREM ImageLeftAlone == Spec => []AloneInCatpng
<1>1. Init => Reaped
  BY DEF Init, Reaped
<1>2. TypeOK /\ Reaped /\ [Next]_vars => (TypeOK /\ Reaped)'
  BY NextType, NextReaped
<1>3. Reaped => AloneInCatpng
  BY DEF Reaped, AloneInCatpng
<1> QED BY InitType, <1>1, <1>2, <1>3, PTL DEF Spec

-----------------------------------------------------------------------------
(* One producer and one consumer, for every outcome of the transfers. *)

\* n_consumer = 1 and n_producer = 1 of main().
OneOfEach == n_producer = 1 /\ n_consumer = 1

\* Child 0 is the producer, child 1 the consumer.
LEMMA TwoChildren ==
  ASSUME OneOfEach
  PROVE  P = 0 /\ C = 1 /\ Producers = {P} /\ Consumers = {C} /\ Children = {P, C}
BY DEF OneOfEach, P, C, Producers, Consumers, Children, num_child

Holding(c) == IF pc[c] \in Held THEN 1 ELSE 0

\* With two children the number of holders is a sum.
LEMMA TwoHolders ==
  ASSUME OneOfEach, TypeOK, SemConservation
  PROVE  /\ spaces \in Nat /\ items \in Nat
         /\ spaces + items + Holding(P) + Holding(C) = buf_size
<1>1. P = 0 /\ C = 1 /\ Children = {P, C}
  BY TwoChildren
<1>2. Cardinality(Holders) = Holding(P) + Holding(C)
  <2>1. Holders \subseteq {0, 1} /\ \A c \in {0, 1} : c \in Holders <=> pc[c] \in Held
    BY <1>1 DEF Holders, Held
  <2>2. CASE Holders = {}
    BY <1>1, <2>1, <2>2, FS_EmptySet DEF Holding
  <2>3. CASE Holders = {0}
    BY <1>1, <2>1, <2>3, FS_Singleton DEF Holding
  <2>4. CASE Holders = {1}
    BY <1>1, <2>1, <2>4, FS_Singleton DEF Holding
  <2>5. CASE Holders = {0, 1}
    <3>1. IsFiniteSet({0}) /\ Cardinality({0}) = 1
      BY FS_Singleton
    <3>2. Cardinality({0} \cup {1}) = 2
      BY <3>1, FS_AddElement
    <3>3. Holders = {0} \cup {1}
      BY <2>5
    <3> QED BY <1>1, <2>1, <2>5, <3>2, <3>3 DEF Holding
  <2>6. \A S : S \subseteq {0, 1} => S = {} \/ S = {0} \/ S = {1} \/ S = {0, 1}
    OBVIOUS
  <2> QED BY <2>1, <2>2, <2>3, <2>4, <2>5, <2>6
<1>3. Holding(P) \in {0, 1} /\ Holding(C) \in {0, 1}
  BY DEF Holding
<1> QED BY <1>2, <1>3, ConstantsAssumption DEF TypeOK, SharedTypes, SemConservation
-----------------------------------------------------------------------------
(* The two private indices. *)

\* What the semaphores leave room for.
LEMMA FillBound ==
  ASSUME OneOfEach, TypeOK, SemConservation
  PROVE  /\ Fill \in 0 .. buf_size
         /\ InSlot(P) => Fill < buf_size
         /\ InSlot(C) => Fill > 0
<1>1. InSlot(P) => Holding(P) = 1 /\ pc[P] # "post"
  BY DEF InSlot, Holding, Held
<1>2. InSlot(C) => Holding(C) = 1
  BY DEF InSlot, Holding, Held
<1>3. pc[P] = "post" => Holding(P) = 1
  BY DEF Holding, Held, ProducerHolds
<1>4. Holding(P) \in {0, 1} /\ Holding(C) \in {0, 1}
  BY DEF Holding
<1> QED BY <1>1, <1>2, <1>3, <1>4, TwoHolders, ConstantsAssumption DEF Fill

\* Two different distances below a lap lead to different slots, and a step of
\* either end of a distance is a step of the index.
LEMMA WrapFacts ==
  ASSUME NEW j \in Slots, NEW f \in 0 .. buf_size
  PROVE  /\ Wrap(j) = j
         /\ 0 < f /\ f < buf_size => Wrap(j + f) # j
         /\ f < buf_size => Advance(Wrap(j + f)) = Wrap(j + (f + 1))
         /\ 0 < f => Wrap(Advance(j) + (f - 1)) = Wrap(j + f)
         /\ Wrap(j + f) \in Slots
BY AdvanceStep, ConstantsAssumption DEF Wrap, Slots

Ordered == TypeOK /\ SemConservation /\ RingOrder

\* The producer's step moves both ends of RingOrder together.
LEMMA ProducerKeepsOrder ==
  ASSUME OneOfEach, Ordered, ProducerStep(P) \/ Transfer(P)
  PROVE  idx'[P] = Wrap(idx'[C] + Fill')
<1>0. P \in Children /\ C \in Children /\ P # C /\ P \in Producers
      /\ idx \in [Children -> Slots] /\ pc \in [Children -> Labels] /\ items \in Nat
  BY TwoChildren DEF Ordered, TypeOK, PrivateTypes, SharedTypes
<1>1. CASE NextIndex(P)
  <2>1. idx' = [idx EXCEPT ![P] = Advance(@)] /\ pc' = [pc EXCEPT ![P] = "post"]
        /\ items' = items
    BY <1>1 DEF NextIndex, Goto, sems
  <2>2. pc[P] = "next" /\ InSlot(P)
    BY <1>1 DEF NextIndex, At, InSlot, ProducerHolds
  <2>3. Fill < buf_size /\ Fill \in 0 .. buf_size
    BY <2>2, FillBound DEF Ordered
  <2>4. Fill' = Fill + 1
    BY <1>0, <2>1, <2>2 DEF Fill, InSlot
  <2> QED BY <1>0, <2>1, <2>3, <2>4, WrapFacts DEF Ordered, RingOrder
<1>2. CASE ProducerPost(P)
  <2>1. idx' = idx /\ pc' = [pc EXCEPT ![P] = "check"] /\ items' = items + 1
        /\ pc[P] = "post"
    BY <1>2 DEF ProducerPost, At, Goto
  <2>2. Fill' = Fill
    BY <1>0, <2>1 DEF Fill, InSlot
  <2> QED BY <2>1, <2>2 DEF Ordered, RingOrder, Wrap
<1>3. CASE ~NextIndex(P) /\ ~ProducerPost(P)
  <2>1. idx' = idx /\ items' = items /\ pc[P] # "post" /\ pc'[P] # "post"
        /\ pc'[C] = pc[C]
    BY <1>0, <1>3 DEF ProducerStep, Transfer, CheckCounter, ProducerWait, Lock,
       ProducerSkip, Fetch, FetchNoHandle, Copy, Publish, LoadCounter,
       StoreCounter, ChildCleanup, At, Goto, sems
  <2>2. Fill' = Fill
    BY <2>1 DEF Fill, InSlot
  <2> QED BY <2>1, <2>2 DEF Ordered, RingOrder, Wrap
<1> QED BY <1>1, <1>2, <1>3

\* So does the consumer's.
LEMMA ConsumerKeepsOrder ==
  ASSUME OneOfEach, Ordered, ConsumerStep(C)
  PROVE  idx'[P] = Wrap(idx'[C] + Fill')
<1>0. P \in Children /\ C \in Children /\ P # C /\ C \notin Producers
      /\ idx \in [Children -> Slots] /\ pc \in [Children -> Labels] /\ items \in Nat
  BY TwoChildren DEF Ordered, TypeOK, PrivateTypes, SharedTypes
<1>1. CASE NextIndex(C)
  <2>1. idx' = [idx EXCEPT ![C] = Advance(@)] /\ pc' = [pc EXCEPT ![C] = "post"]
        /\ items' = items
    BY <1>1 DEF NextIndex, Goto, sems
  <2>2. pc[C] = "next" /\ InSlot(C)
    BY <1>1 DEF NextIndex, At, InSlot, ProducerHolds
  <2>3. Fill > 0 /\ Fill \in 0 .. buf_size
    BY <2>2, FillBound DEF Ordered
  <2>4. Fill' = Fill - 1
    BY <1>0, <2>1, <2>2 DEF Fill, InSlot
  <2> QED BY <1>0, <2>1, <2>3, <2>4, WrapFacts DEF Ordered, RingOrder
<1>2. CASE ConsumerWait(C)
  <2>1. idx' = idx /\ pc' = [pc EXCEPT ![C] = "lock"] /\ items' = items - 1
        /\ pc[C] = "sem_wait"
    BY <1>2 DEF ConsumerWait, At, Goto
  <2>2. Fill' = Fill
    BY <1>0, <2>1 DEF Fill, InSlot, ProducerHolds, ConsumerHolds
  <2> QED BY <2>1, <2>2 DEF Ordered, RingOrder, Wrap
<1>3. CASE ~NextIndex(C) /\ ~ConsumerWait(C)
  <2>1. idx' = idx /\ items' = items /\ InSlot(C)' = InSlot(C) /\ pc'[P] = pc[P]
    BY <1>0, <1>3 DEF ConsumerStep, CheckCounter, Lock, Read, ReadEmpty,
       RetrieveChunk, AddLength, Paste, Reset, ConsumerPost, ChildCleanup,
       At, Goto, sems, InSlot, ProducerHolds, ConsumerHolds
  <2>2. Fill' = Fill
    BY <2>1 DEF Fill
  <2> QED BY <2>1, <2>2 DEF Ordered, RingOrder, Wrap
<1> QED BY <1>1, <1>2, <1>3

\* RingOrder is inductive together with the types and the tokens.
LEMMA OrderInductive ==
  ASSUME OneOfEach
  PROVE  /\ Init => Ordered
         /\ Ordered /\ [Next]_vars => Ordered'
<1>1. Init => Ordered
  <2> SUFFICES ASSUME Init PROVE Ordered
    OBVIOUS
  <2>1. TypeOK /\ SemConservation
    BY InitType, InitConserves
  <2>2. idx[P] = 0 /\ idx[C] = 0 /\ Fill = 0
    BY TwoChildren DEF Init, Fill, InSlot, ProducerHolds, ConsumerHolds
  <2> QED BY <2>1, <2>2, ConstantsAssumption DEF Ordered, RingOrder, Wrap
<1>2. Ordered /\ [Next]_vars => Ordered'
  <2> SUFFICES ASSUME Ordered, [Next]_vars PROVE Ordered'
    OBVIOUS
  <2>1. TypeOK' /\ SemConservation'
    BY NextType, NextConserves DEF Ordered
  <2>2. idx'[P] = Wrap(idx'[C] + Fill')
    <3>1. CASE \E p \in Producers : ProducerStep(p) \/ Transfer(p)
      BY <3>1, TwoChildren, ProducerKeepsOrder
    <3>2. CASE \E c \in Consumers : ConsumerStep(c)
      BY <3>2, TwoChildren, ConsumerKeepsOrder
    <3>3. CASE MainStep \/ ForkFails \/ (\E c \in Children : Crash(c))
               \/ Terminated \/ UNCHANGED vars
      <4>1. UNCHANGED <<idx, items, pc>>
        BY <3>3 DEF MainStep, Fork, ForkFails, WaitNone, WaitpidNone, Catpng, MainCleanup, Wait,
           Crash, Terminated, vars, sems
      <4> QED BY <4>1 DEF Ordered, RingOrder, Fill, InSlot, Wrap
    <3> QED BY <3>1, <3>2, <3>3 DEF Next
  <2> QED BY <2>1, <2>2 DEF Ordered, RingOrder, Wrap
<1> QED BY <1>1, <1>2

\* With one producer and one consumer, for every size of the ring: the two
\* private indices are always as far apart as the semaphores say.
THEOREM IndicesInStep ==
  ASSUME OneOfEach
  PROVE  Spec => []RingOrder
<1>1. Init => Ordered
  BY OrderInductive
<1>2. Ordered /\ [Next]_vars => Ordered'
  BY OrderInductive
<1>3. Ordered => RingOrder
  BY DEF Ordered
<1> QED BY <1>1, <1>2, <1>3, PTL DEF Spec

\* With one producer and one consumer, for every size of the ring: the two never
\* work on the same slot, although no lock is shared between them.
THEOREM NeverSameSlot ==
  ASSUME OneOfEach
  PROVE  Spec => []SlotExclusion
<1>1. Init => Ordered
  BY OrderInductive
<1>2. Ordered /\ [Next]_vars => Ordered'
  BY OrderInductive
<1>3. Ordered => SlotExclusion
  <2> SUFFICES ASSUME Ordered, InSlot(P), InSlot(C)
               PROVE  idx[P] # idx[C]
    BY TwoChildren DEF SlotExclusion
  <2>1. idx[C] \in Slots
    BY TwoChildren DEF Ordered, TypeOK, PrivateTypes
  <2>2. Fill \in 0 .. buf_size /\ 0 < Fill /\ Fill < buf_size
    BY FillBound DEF Ordered
  <2> QED BY <2>1, <2>2, WrapFacts DEF Ordered, RingOrder
<1> QED BY <1>1, <1>2, <1>3, PTL DEF Spec

-----------------------------------------------------------------------------
(* The part counter. *)

\* No part beyond the last is asked for.
PartInRange ==
  \A p \in Producers : pc[p] \in {"sem_wait", "lock", "get"} => counter < NUM_PARTS

\* What makes PartInRange inductive: once the producer has seen that parts are
\* left, nobody else moves the counter, and it adds exactly one to it.
PartCounted ==
  /\ counter <= NUM_PARTS
  /\ pc[P] \in {"sem_wait", "lock", "get", "copy", "meta", "load", "store"} =>
       counter < NUM_PARTS
  /\ pc[P] = "store" => reg[P] = counter

\* PartCounted is inductive.
LEMMA CountedInductive ==
  ASSUME OneOfEach
  PROVE  /\ Init => PartCounted
         /\ TypeOK /\ PartCounted /\ [Next]_vars => PartCounted'
<1>1. Init => PartCounted
  BY TwoChildren, TransferAssumption DEF Init, PartCounted
<1>2. TypeOK /\ PartCounted /\ [Next]_vars => PartCounted'
  <2> SUFFICES ASSUME TypeOK, PartCounted, [Next]_vars PROVE PartCounted'
    OBVIOUS
  <2>0. P \in Children /\ C \in Children /\ P # C /\ P \in Producers /\ counter \in Nat
        /\ pc \in [Children -> Labels] /\ reg \in [Children -> Nat]
        /\ NUM_PARTS \in Nat
    BY TwoChildren, TransferAssumption DEF TypeOK, PrivateTypes, SharedTypes
  <2>1. CASE ProducerStep(P) \/ Transfer(P)
    <3> USE <2>0 DEF PartCounted, MoreParts, At, Goto
    <3>1. CASE CheckCounter(P) \/ Lock(P) \/ NextIndex(P) \/ ChildCleanup(P)
      BY <3>1 DEF CheckCounter, Lock, NextIndex, ChildCleanup
    <3>2. CASE ProducerWait(P) \/ ProducerSkip(P) \/ Transfer(P)
      BY <3>2 DEF ProducerWait, ProducerSkip, Transfer, Fetch, FetchNoHandle
    <3>3. CASE Copy(P) \/ Publish(P) \/ ProducerPost(P)
      BY <3>3 DEF Copy, Publish, ProducerPost
    <3>4. CASE LoadCounter(P) \/ StoreCounter(P)
      BY <3>4 DEF LoadCounter, StoreCounter
    <3> QED BY <2>1, <3>1, <3>2, <3>3, <3>4 DEF ProducerStep
  <2>2. CASE ConsumerStep(C)
    <3>1. counter' = counter /\ pc'[P] = pc[P] /\ reg'[P] = reg[P]
      BY <2>0, <2>2 DEF ConsumerStep, CheckCounter, ConsumerWait, Lock, Read, ReadEmpty,
         RetrieveChunk, AddLength, Paste, Reset, NextIndex, ConsumerPost,
         ChildCleanup, Goto
    <3> QED BY <3>1 DEF PartCounted, MoreParts
  <2>3. CASE MainStep \/ ForkFails \/ (\E c \in Children : Crash(c))
             \/ Terminated \/ UNCHANGED vars
    <3>1. UNCHANGED <<counter, pc, reg>>
      BY <2>3 DEF MainStep, Fork, ForkFails, WaitNone, WaitpidNone, Catpng, MainCleanup, Wait,
         Crash, Terminated, vars
    <3> QED BY <3>1 DEF PartCounted, MoreParts
  <2> QED BY <2>1, <2>2, <2>3, TwoChildren DEF Next
<1> QED BY <1>1, <1>2

\* With one producer, for every number of parts: no part beyond the last is
\* asked for, although counter is read outside every lock.
THEOREM OnlyRealParts ==
  ASSUME OneOfEach
  PROVE  Spec => []PartInRange
<1>1. Init => TypeOK /\ PartCounted
  BY InitType, CountedInductive
<1>2. TypeOK /\ PartCounted /\ [Next]_vars => (TypeOK /\ PartCounted)'
  BY NextType, CountedInductive
<1>3. PartCounted => PartInRange
  BY TwoChildren DEF PartCounted, PartInRange
<1> QED BY <1>1, <1>2, <1>3, PTL DEF Spec

-----------------------------------------------------------------------------
(* Empty slots. *)

\* The slots between the two indices.
Filled == {Wrap(idx[C] + k) : k \in 0 .. Fill - 1}

\* What makes SpaceMeansEmpty inductive: bytes are only between the indices, or
\* where the producer has just put them.
EmptyOutside ==
  /\ \A j \in Slots :
       slot[j].size # 0 =>
         j \in Filled \/ (j = idx[P] /\ pc[P] \in {"load", "store", "next"})
  /\ pc[C] = "next" => slot[idx[C]].size = 0

\* The producer's slot is outside.
LEMMA ProducerOutside ==
  ASSUME OneOfEach, Ordered, InSlot(P)
  PROVE  idx[P] \in Slots /\ idx[P] \notin Filled
<1>1. idx[C] \in Slots /\ idx[P] \in Slots
  BY TwoChildren DEF Ordered, TypeOK, PrivateTypes
<1>2. Fill \in 0 .. buf_size /\ Fill < buf_size
  BY FillBound DEF Ordered
<1>3. \A k \in 0 .. Fill - 1 : Wrap(idx[C] + k) # Wrap(idx[C] + Fill)
  BY <1>1, <1>2, ConstantsAssumption DEF Wrap, Slots
<1> QED BY <1>1, <1>3 DEF Ordered, RingOrder, Filled

\* A producer that got a space finds its slot empty.
LEMMA EmptyAtGet ==
  ASSUME OneOfEach, Ordered, EmptyOutside, pc[P] = "get"
  PROVE  slot[idx[P]].size = 0
BY ProducerOutside DEF EmptyOutside, InSlot, ProducerHolds

\* The two workers, seen as elements of the sets TypeOK speaks of.
LEMMA WorkerTypes ==
  ASSUME OneOfEach, TypeOK
  PROVE  /\ P \in Children /\ C \in Children /\ P # C
         /\ P \in Producers /\ C \notin Producers
         /\ idx \in [Children -> Slots] /\ pc \in [Children -> Labels]
         /\ slot \in [Slots -> RecvBuf] /\ items \in Nat
BY TwoChildren DEF TypeOK, PrivateTypes, SharedTypes

\* The producer's step keeps bytes between the indices or in its own slot.
LEMMA ProducerKeepsEmpty ==
  ASSUME OneOfEach, Ordered, EmptyOutside, ProducerStep(P) \/ Transfer(P)
  PROVE  EmptyOutside'
<1> USE WorkerTypes DEF Ordered, At, Goto
<1>1. CASE NextIndex(P)
  <2>1. /\ idx'[C] = idx[C] /\ pc'[C] = pc[C] /\ slot' = slot
        /\ Fill' = Fill + 1 /\ Fill \in 0 .. buf_size
    <3>1. items' = items /\ pc' = [pc EXCEPT ![P] = "post"] /\ pc[P] = "next"
          /\ idx'[C] = idx[C] /\ slot' = slot
      BY <1>1 DEF NextIndex, sems, ring
    <3> QED BY <3>1, FillBound DEF Fill, InSlot, ProducerHolds
  <2>2. Filled \subseteq Filled' /\ idx[P] \in Filled'
    BY <2>1 DEF Filled, RingOrder, Wrap
  <2> QED BY <2>1, <2>2 DEF EmptyOutside
<1>2. CASE Publish(P)
  <2>1. slot' = [slot EXCEPT ![idx[P]] = Published(@, fetched[P])] /\ idx' = idx
        /\ pc' = [pc EXCEPT ![P] = "load"] /\ pc[P] = "meta" /\ items' = items
    BY <1>2 DEF Publish, sems
  <2>2. Fill' = Fill /\ Filled' = Filled
    BY <2>1 DEF Fill, InSlot, Filled, Wrap
  <2>3. pc'[C] = "next" => slot'[idx'[C]].size = 0
    <3> SUFFICES ASSUME pc[C] = "next" PROVE slot'[idx[C]].size = 0
      BY <2>1
    <3>1. InSlot(P) /\ InSlot(C)
      BY <2>1 DEF InSlot, ProducerHolds
    <3>2. idx[P] # idx[C]
      BY <3>1, FillBound, WrapFacts DEF RingOrder
    <3> QED BY <2>1, <3>2 DEF EmptyOutside
  <2> QED BY <2>1, <2>2, <2>3 DEF EmptyOutside
<1>3. CASE ProducerSkip(P)
  BY <1>3, EmptyAtGet DEF ProducerSkip
<1>4. CASE ProducerPost(P)
  <2>1. idx' = idx /\ pc' = [pc EXCEPT ![P] = "check"] /\ items' = items + 1
        /\ pc[P] = "post" /\ slot' = slot
    BY <1>4 DEF ProducerPost, ring
  <2>2. Fill' = Fill /\ Filled' = Filled
    BY <2>1 DEF Fill, InSlot, Filled, Wrap
  <2> QED BY <2>1, <2>2 DEF EmptyOutside
<1>5. CASE ~(NextIndex(P) \/ Publish(P) \/ ProducerSkip(P) \/ ProducerPost(P))
  <2>1. /\ idx' = idx /\ items' = items /\ slot' = slot /\ pc'[C] = pc[C]
        /\ pc[P] # "post" /\ pc'[P] # "post"
        /\ pc[P] \in {"load", "store", "next"} => pc'[P] \in {"load", "store", "next"}
    BY <1>5 DEF ProducerStep, Transfer, CheckCounter, ProducerWait, Lock, Fetch,
       FetchNoHandle, Copy, LoadCounter, StoreCounter, ChildCleanup, sems, ring
  <2>2. Fill' = Fill /\ Filled' = Filled
    BY <2>1 DEF Fill, InSlot, Filled, Wrap
  <2> QED BY <2>1, <2>2 DEF EmptyOutside
<1> QED BY <1>1, <1>2, <1>3, <1>4, <1>5

\* The consumer advances only past a slot it has emptied or found empty.
LEMMA ConsumerKeepsEmpty ==
  ASSUME OneOfEach, Ordered, EmptyOutside, ConsumerStep(C)
  PROVE  EmptyOutside'
<1> USE WorkerTypes DEF Ordered, At, Goto
<1>1. CASE NextIndex(C)
  <2>1. /\ idx'[C] = Advance(idx[C]) /\ idx'[P] = idx[P] /\ pc'[P] = pc[P]
        /\ slot' = slot /\ pc'[C] = "post" /\ pc[C] = "next"
        /\ Fill' = Fill - 1 /\ Fill \in 1 .. buf_size
    <3>1. items' = items /\ pc' = [pc EXCEPT ![C] = "post"] /\ pc[C] = "next"
          /\ idx' = [idx EXCEPT ![C] = Advance(@)] /\ slot' = slot
      BY <1>1 DEF NextIndex, sems, ring
    <3> QED BY <3>1, FillBound DEF Fill, InSlot, ProducerHolds
  <2>2. \A j \in Filled : j = idx[C] \/ j \in Filled'
    <3> SUFFICES ASSUME NEW j \in Filled PROVE j = idx[C] \/ j \in Filled'
      OBVIOUS
    <3>1. PICK k \in 0 .. Fill - 1 : j = Wrap(idx[C] + k)
      BY DEF Filled
    <3>2. CASE k = 0
      BY <3>1, <3>2, ConstantsAssumption DEF Wrap, Slots
    <3>3. CASE k # 0
      <4>1. k - 1 \in 0 .. Fill' - 1 /\ k \in 0 .. buf_size
        BY <2>1, <3>3, ConstantsAssumption
      <4>2. j = Wrap(idx'[C] + (k - 1))
        BY <2>1, <3>1, <3>3, <4>1, WrapFacts
      <4> QED BY <4>1, <4>2 DEF Filled, Wrap
    <3> QED BY <3>2, <3>3
  <2> QED BY <2>1, <2>2 DEF EmptyOutside
<1>2. CASE ConsumerWait(C)
  <2>1. idx' = idx /\ pc' = [pc EXCEPT ![C] = "lock"] /\ items' = items - 1
        /\ pc[C] = "sem_wait" /\ slot' = slot
    BY <1>2 DEF ConsumerWait, ring
  <2>2. Fill' = Fill /\ Filled' = Filled
    BY <2>1 DEF Fill, InSlot, Filled, Wrap, ProducerHolds, ConsumerHolds
  <2> QED BY <2>1, <2>2 DEF EmptyOutside
<1>3. CASE Reset(C)
  <2>1. slot' = [slot EXCEPT ![idx[C]] = FreshBuf(C)] /\ idx' = idx
        /\ pc' = [pc EXCEPT ![C] = "next"] /\ pc[C] = "reset" /\ items' = items
    BY <1>3 DEF Reset, sems
  <2>2. Fill' = Fill /\ Filled' = Filled
    BY <2>1 DEF Fill, InSlot, Filled, Wrap, ProducerHolds, ConsumerHolds
  <2> QED BY <2>1, <2>2 DEF EmptyOutside, FreshBuf
<1>4. CASE ~(NextIndex(C) \/ ConsumerWait(C) \/ Reset(C))
  <2>1. /\ idx' = idx /\ items' = items /\ slot' = slot /\ pc'[P] = pc[P]
        /\ InSlot(C)' = InSlot(C)
        /\ pc'[C] = "next" => slot[idx[C]].size = 0
    BY <1>4 DEF ConsumerStep, CheckCounter, Lock, Read, ReadEmpty, RetrieveChunk,
       AddLength, Paste, ConsumerPost, ChildCleanup, sems, ring, InSlot,
       ProducerHolds, ConsumerHolds, EmptyOutside
  <2>2. Fill' = Fill /\ Filled' = Filled
    BY <2>1 DEF Fill, Filled, Wrap
  <2> QED BY <2>1, <2>2 DEF EmptyOutside
<1> QED BY <1>1, <1>2, <1>3, <1>4

\* EmptyOutside is inductive together with the order of the indices.
LEMMA EmptyInductive ==
  ASSUME OneOfEach
  PROVE  /\ Init => EmptyOutside
         /\ Ordered /\ EmptyOutside /\ [Next]_vars => EmptyOutside'
<1>1. Init => EmptyOutside
  BY TwoChildren DEF Init, EmptyOutside, FreshBuf
<1>2. Ordered /\ EmptyOutside /\ [Next]_vars => EmptyOutside'
  <2> SUFFICES ASSUME Ordered, EmptyOutside, [Next]_vars PROVE EmptyOutside'
    OBVIOUS
  <2>1. CASE \E p \in Producers : ProducerStep(p) \/ Transfer(p)
    BY <2>1, TwoChildren, ProducerKeepsEmpty
  <2>2. CASE \E c \in Consumers : ConsumerStep(c)
    BY <2>2, TwoChildren, ConsumerKeepsEmpty
  <2>3. CASE MainStep \/ ForkFails \/ (\E c \in Children : Crash(c))
             \/ Terminated \/ UNCHANGED vars
    <3>1. UNCHANGED <<slot, idx, items, pc>>
      BY <2>3 DEF MainStep, Fork, ForkFails, WaitNone, WaitpidNone, Catpng, MainCleanup, Wait,
         Crash, Terminated, vars, sems, ring
    <3> QED BY <3>1 DEF EmptyOutside, Filled, Fill, InSlot, Wrap
  <2> QED BY <2>1, <2>2, <2>3 DEF Next
<1> QED BY <1>1, <1>2

\* With one producer and one consumer, for every size of the ring and every
\* outcome of the transfers: a space is an empty slot, so the producer never
\* passes a slot over and no filled slot is overwritten.
THEOREM SpaceIsEmptySlot ==
  ASSUME OneOfEach
  PROVE  Spec => []SpaceMeansEmpty
<1>1. Init => Ordered /\ EmptyOutside
  BY OrderInductive, EmptyInductive
<1>2. Ordered /\ EmptyOutside /\ [Next]_vars => (Ordered /\ EmptyOutside)'
  BY OrderInductive, EmptyInductive
<1>3. Ordered /\ EmptyOutside => SpaceMeansEmpty
  BY TwoChildren, EmptyAtGet DEF SpaceMeansEmpty
<1> QED BY <1>1, <1>2, <1>3, PTL DEF Spec
=============================================================================

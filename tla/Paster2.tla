------------------------------- MODULE Paster2 -------------------------------
(***************************************************************************)
(* lab3/Lab3/paster2.c: a parent forks n_producer producers and n_consumer *)
(* consumers.  They share, in System V segments, a ring of buf_size        *)
(* RECV_BUFs, the counting semaphores spaces and items, the number of the  *)
(* next part (counter), the pixel array idat_data and length_all.          *)
(* Everything else (pindex, cindex, the pthread mutex) is an ordinary      *)
(* global, which fork duplicates: each child has its own.                  *)
(*                                                                         *)
(* One action is one access to shared memory, with the private             *)
(* computation around it.  Bytes are abstracted: a part is its number, a   *)
(* size is zero or not, an inflated strip is STRIP cells.                  *)
(***************************************************************************)
EXTENDS PartStrip, FiniteSets

CONSTANTS
  n_producer, n_consumer,  \* paster2.c:78-79, both 1 in the program
  buf_size,                \* slots of the ring, paster2.c:80, 3 in the program
  Deflated,                \* lengths deflate() may produce for the whole image
  Networks,                \* the networks the program may run on
  ForkMayFail              \* whether fork() may return -1

ASSUME ConstantsAssumption ==
  /\ n_producer \in Nat \ {0}
  /\ n_consumer \in Nat \ {0}
  /\ buf_size \in Nat \ {0}
  /\ Deflated \subseteq Nat \ {0}
  /\ Networks \subseteq SUBSET TransferKinds
  /\ ForkMayFail \in BOOLEAN

num_child == n_producer + n_consumer
Children  == 0 .. num_child - 1
Producers == 0 .. n_producer - 1
Consumers == n_producer .. num_child - 1
MAIN      == -1
Slots     == 0 .. buf_size - 1
Cells     == 0 .. NUM_PARTS * STRIP - 1

\* A RECV_BUF: buf is named by the process that attached the segment it points
\* into, size is 0 or 1 (some bytes), seq is -1 or a part number.
RecvBuf == [buf : Children \cup {MAIN}, size : {0, 1}, seq : Int]

VARIABLES
  counter, spaces, items,  \* shared: the next part, the two semaphores
  slot,                    \* shared: p_shm_recv_buf[0 .. buf_size-1]
  bytes,                   \* shared: the segment main attached for each slot
  length_all, idat_data,   \* shared: sum of IDAT lengths, inflated strips
  pc, idx, mutex,          \* private: control, pindex or cindex, the mutex
  fetched,                 \* private: p_shm_recv_buf_temp of get_cURL
  temp, chunk,             \* private: the consumer's copy and its IDAT chunk
  reg,                     \* private: the value loaded by += on shared memory
  status, reaped,          \* the kernel's view of the children
  main_pc, i, reported,    \* the parent, and the lines about children it printed
  net                      \* what this network does to transfers, all along

sems   == <<spaces, items>>
ring   == <<slot, bytes>>
image  == <<length_all, idat_data>>
locals == <<fetched, temp, chunk>>
life   == <<status, reaped, main_pc, i, reported, net>>
vars   == <<counter, sems, ring, image, pc, idx, mutex, locals, reg, life>>

-----------------------------------------------------------------------------
(* Helpers *)

\* The loop condition `*counter < 50`.
MoreParts(k) == k < NUM_PARTS

\* Mutant: the modulus is forgotten.
AdvanceUnwrapped(j) == j + 1

\* The circular step of pindex and cindex.
Advance(j) == (j + 1) % buf_size

\* shm_recv_buf_init in process c: an empty buffer on a segment only c attached.
FreshBuf(c) == [buf |-> c, size |-> 0, seq |-> -1]

\* The header get_cURL leaves in a slot: the fields of r, the slot's own pointer.
Published(b, r) == [buf |-> b.buf, size |-> r.size, seq |-> r.seq]

\* Mutant: sequence numbers are taken to start at 1.
PastedFromOne(a, seq, r) ==
  [x \in Cells |-> IF (seq + 1) * r.n <= x /\ x < (seq + 1) * r.n + r.n
                   THEN r.cell ELSE a[x]]

\* memcpy(&idat_data[seq * n], temp_data, n).
Pasted(a, seq, r) ==
  [x \in Cells |-> IF seq * r.n <= x /\ x < seq * r.n + r.n THEN r.cell ELSE a[x]]

\* What process c reads at temp.buf: the segment main attached before the fork,
\* its own fresh one, or whatever c has at an address another child attached.
Seen(c) ==
  IF temp[c].buf = MAIN THEN {bytes[idx[c]]}
  ELSE IF temp[c].buf = c THEN {Zero} ELSE {Zero, Alien}

At(c, label)   == status[c] = "run" /\ pc[c] = label
Goto(c, label) == pc' = [pc EXCEPT ![c] = label]

-----------------------------------------------------------------------------
(* The parent: fork, wait, catpng, cleanup. *)

Fork ==
  /\ main_pc = "fork"
  /\ status' = [status EXCEPT ![i] = "run"]
  /\ i' = i + 1
  /\ main_pc' = IF i + 1 = num_child THEN "wait" ELSE "fork"
  /\ UNCHANGED <<counter, sems, ring, image, pc, idx, mutex, locals, reg, reaped,
                 reported, net>>

\* abort() in the parent; the children forked so far keep running.
ForkFails ==
  /\ ForkMayFail /\ main_pc = "fork"
  /\ main_pc' = "abort"
  /\ UNCHANGED <<counter, sems, ring, image, pc, idx, mutex, locals, reg,
                 status, reaped, i, reported, net>>

\* One return of wait(NULL).
Wait(c) ==
  /\ main_pc = "wait" /\ c \notin reaped /\ status[c] \in {"exit", "crash"}
  /\ reaped' = reaped \cup {c}
  /\ UNCHANGED <<counter, sems, ring, image, pc, idx, mutex, locals, reg,
                 status, main_pc, i, reported, net>>

\* Mutant: one wait(NULL), without the loop.
WaitOnce ==
  /\ main_pc = "wait" /\ reaped # {}
  /\ main_pc' = "waitpid" /\ i' = 0
  /\ UNCHANGED <<counter, sems, ring, image, pc, idx, mutex, locals, reg,
                 status, reaped, reported, net>>

\* wait(NULL) = -1 once no child is left.  cpids[i] = pid is then one past the end
\* of the array, where nothing is read, and i starts again.
WaitNone ==
  /\ main_pc = "wait" /\ reaped = Children
  /\ main_pc' = "waitpid" /\ i' = 0
  /\ UNCHANGED <<counter, sems, ring, image, pc, idx, mutex, locals, reg,
                 status, reaped, reported, net>>

\* waitpid(cpids[i], &state, 0): the element was never set and no child is left, so
\* the call fails; state is uninitialized, and WIFEXITED may hold for it.
WaitpidNone ==
  /\ main_pc = "waitpid"
  /\ reported' \in {reported, reported \cup {i}}
  /\ i' = i + 1
  /\ main_pc' = IF i + 1 = num_child THEN "catpng" ELSE "waitpid"
  /\ UNCHANGED <<counter, sems, ring, image, pc, idx, mutex, locals, reg,
                 status, reaped, net>>

(***************************************************************************)
(* mem_def deflates all of idat_data into an array of *length_all bytes    *)
(* and overwrites *length_all with the deflated length.  Writing past the  *)
(* array may abort the parent.                                             *)
(***************************************************************************)
Catpng ==
  /\ main_pc = "catpng"
  /\ \E d \in Deflated :
       /\ length_all' = d
       /\ main_pc' \in IF d <= length_all THEN {"cleanup"} ELSE {"cleanup", "abort"}
  /\ UNCHANGED <<counter, sems, ring, idat_data, pc, idx, mutex, locals, reg,
                 status, reaped, i, reported, net>>

MainCleanup ==
  /\ main_pc = "cleanup"
  /\ main_pc' = "done"
  /\ UNCHANGED <<counter, sems, ring, image, pc, idx, mutex, locals, reg,
                 status, reaped, i, reported, net>>

-----------------------------------------------------------------------------
(* Steps that producers and consumers share. *)

\* while (*counter < 50): read outside the mutex and outside the semaphores.
CheckCounter(c) ==
  /\ At(c, "check")
  /\ Goto(c, IF MoreParts(counter) THEN "sem_wait" ELSE "cleanup")
  /\ UNCHANGED <<counter, sems, ring, image, idx, mutex, locals, reg, life>>

\* The mutex is the child's own copy: nobody else can hold it.
Lock(c) ==
  /\ At(c, "lock") /\ ~mutex[c]
  /\ mutex' = [mutex EXCEPT ![c] = TRUE]
  /\ Goto(c, IF c \in Producers THEN "get" ELSE "read")
  /\ UNCHANGED <<counter, sems, ring, image, idx, locals, reg, life>>

\* Mutant: the producer keeps its index when the transfer brought nothing.
NextIndexIfFilled(c) ==
  /\ At(c, "next")
  /\ idx' = [idx EXCEPT ![c] =
               IF c \in Producers /\ slot[@].size = 0 THEN @ ELSE Advance(@)]
  /\ mutex' = [mutex EXCEPT ![c] = FALSE]
  /\ Goto(c, "post")
  /\ UNCHANGED <<counter, sems, ring, image, locals, reg, life>>

\* pindex or cindex moves on, whatever the slot held, and the mutex is released.
NextIndex(c) ==
  /\ At(c, "next")
  /\ idx' = [idx EXCEPT ![c] = Advance(@)]
  /\ mutex' = [mutex EXCEPT ![c] = FALSE]
  /\ Goto(c, "post")
  /\ UNCHANGED <<counter, sems, ring, image, locals, reg, life>>

\* The child leaves its loop, breaks out of main's and runs main's cleanup.
ChildCleanup(c) ==
  /\ At(c, "cleanup")
  /\ status' = [status EXCEPT ![c] = "exit"]
  /\ UNCHANGED <<counter, sems, ring, image, pc, idx, mutex, locals, reg,
                 reaped, main_pc, i, reported, net>>

-----------------------------------------------------------------------------
(* producer() *)

\* Mutant: sem_trywait, whose failure is ignored.
ProducerTryWait(p) ==
  /\ At(p, "sem_wait")
  /\ spaces' = IF spaces > 0 THEN spaces - 1 ELSE 0
  /\ Goto(p, "lock")
  /\ UNCHANGED <<counter, items, ring, image, idx, mutex, locals, reg, life>>

ProducerWait(p) ==
  /\ At(p, "sem_wait") /\ spaces > 0
  /\ spaces' = spaces - 1
  /\ Goto(p, "lock")
  /\ UNCHANGED <<counter, items, ring, image, idx, mutex, locals, reg, life>>

\* Mutant: continue, without the sem_post at the end of the loop.
ProducerSkipSilently(p) ==
  /\ At(p, "get") /\ slot[idx[p]].size # 0
  /\ mutex' = [mutex EXCEPT ![p] = FALSE]
  /\ Goto(p, "check")
  /\ UNCHANGED <<counter, sems, ring, image, idx, locals, reg, life>>

\* The slot is not empty: nothing is fetched, but the index and items move on.
ProducerSkip(p) ==
  /\ At(p, "get") /\ slot[idx[p]].size # 0
  /\ Goto(p, "next")
  /\ UNCHANGED <<counter, sems, ring, image, idx, mutex, locals, reg, life>>

\* get_cURL up to curl_easy_perform, into a buffer of its own.
Fetch(p) ==
  /\ At(p, "get") /\ slot[idx[p]].size = 0
  /\ \E r \in Received(net, counter) : fetched' = [fetched EXCEPT ![p] = r]
  /\ Goto(p, "copy")
  /\ UNCHANGED <<counter, sems, ring, image, idx, mutex, temp, chunk, reg, life>>

\* curl_easy_init fails: get_cURL returns 1, which producer() ignores.
FetchNoHandle(p) ==
  /\ "nohandle" \in net
  /\ At(p, "get") /\ slot[idx[p]].size = 0
  /\ Goto(p, "load")
  /\ UNCHANGED <<counter, sems, ring, image, idx, mutex, locals, reg, life>>

\* The strcpy loop through slot.buf.  When a consumer attached that address
\* the bytes land in memory private to the producer.
Copy(p) ==
  /\ At(p, "copy")
  /\ bytes' = IF slot[idx[p]].buf = MAIN /\ fetched[p].size # 0
              THEN [bytes EXCEPT ![idx[p]] = fetched[p].data] ELSE bytes
  /\ Goto(p, "meta")
  /\ UNCHANGED <<counter, sems, slot, image, idx, mutex, locals, reg, life>>

\* size, max_size and seq of the slot; the temporary goes out of scope.
Publish(p) ==
  /\ At(p, "meta")
  /\ slot' = [slot EXCEPT ![idx[p]] = Published(@, fetched[p])]
  /\ fetched' = [fetched EXCEPT ![p] = NoFetch]
  /\ Goto(p, "load")
  /\ UNCHANGED <<counter, sems, bytes, image, idx, mutex, temp, chunk, reg, life>>

\* *counter += 1 is a load ...
LoadCounter(p) ==
  /\ At(p, "load")
  /\ reg' = [reg EXCEPT ![p] = counter]
  /\ Goto(p, "store")
  /\ UNCHANGED <<counter, sems, ring, image, idx, mutex, locals, life>>

\* ... and a store.
StoreCounter(p) ==
  /\ At(p, "store")
  /\ counter' = reg[p] + 1
  /\ reg' = [reg EXCEPT ![p] = 0]
  /\ Goto(p, "next")
  /\ UNCHANGED <<sems, ring, image, idx, mutex, locals, life>>

ProducerPost(p) ==
  /\ At(p, "post")
  /\ items' = items + 1
  /\ Goto(p, "check")
  /\ UNCHANGED <<counter, spaces, ring, image, idx, mutex, locals, reg, life>>

-----------------------------------------------------------------------------
(* consumer() and idat_initialize() *)

ConsumerWait(c) ==
  /\ At(c, "sem_wait") /\ items > 0
  /\ items' = items - 1
  /\ Goto(c, "lock")
  /\ UNCHANGED <<counter, spaces, ring, image, idx, mutex, locals, reg, life>>

\* RECV_BUF temp = p_shm_recv_buf[cindex]: the fields, not the bytes.
Read(c) ==
  /\ At(c, "read") /\ slot[idx[c]].size # 0
  /\ temp' = [temp EXCEPT ![c] = slot[idx[c]]]
  /\ Goto(c, "chunk")
  /\ UNCHANGED <<counter, sems, ring, image, idx, mutex, fetched, chunk, reg, life>>

\* Mutant: continue, without the sem_post at the end of the loop.
ReadEmptySilently(c) ==
  /\ At(c, "read") /\ slot[idx[c]].size = 0
  /\ mutex' = [mutex EXCEPT ![c] = FALSE]
  /\ Goto(c, "check")
  /\ UNCHANGED <<counter, sems, ring, image, idx, locals, reg, life>>

\* Mutant: cindex moves only when something was read.
ReadEmptyInPlace(c) ==
  /\ At(c, "read") /\ slot[idx[c]].size = 0
  /\ mutex' = [mutex EXCEPT ![c] = FALSE]
  /\ Goto(c, "post")
  /\ UNCHANGED <<counter, sems, ring, image, idx, locals, reg, life>>

\* An empty slot (a transfer without a byte) is passed over.
ReadEmpty(c) ==
  /\ At(c, "read") /\ slot[idx[c]].size = 0
  /\ Goto(c, "next")
  /\ UNCHANGED <<counter, sems, ring, image, idx, mutex, locals, reg, life>>

\* retrieve_chunk(&temp.buf[33]), then the load of *length_all += idat->length.
RetrieveChunk(c) ==
  /\ At(c, "chunk")
  /\ \E d \in Seen(c) : chunk' = [chunk EXCEPT ![c] = d]
  /\ reg' = [reg EXCEPT ![c] = length_all]
  /\ Goto(c, "add")
  /\ UNCHANGED <<counter, sems, ring, image, idx, mutex, fetched, temp, life>>

\* Mutant: = instead of +=.
AddLengthAnew(c) ==
  /\ At(c, "add")
  /\ length_all' = IdatLength(chunk[c])
  /\ reg' = [reg EXCEPT ![c] = 0]
  /\ Goto(c, "paste")
  /\ UNCHANGED <<counter, sems, ring, idat_data, idx, mutex, locals, life>>

\* The store of *length_all += idat->length.
AddLength(c) ==
  /\ At(c, "add")
  /\ length_all' = reg[c] + IdatLength(chunk[c])
  /\ reg' = [reg EXCEPT ![c] = 0]
  /\ Goto(c, "paste")
  /\ UNCHANGED <<counter, sems, ring, idat_data, idx, mutex, locals, life>>

\* Whether mem_inf, which left r, may have written behind temp_data: the length
\* says so, or a data error came after that and hides it.
MayOverrun(r) == r.n > STRIP \/ r.cell = Junk

\* mem_inf, whose result is ignored, and the memcpy into idat_data.  The chunk is
\* kept where the stack it was inflated on may be overrun.
Paste(c) ==
  /\ At(c, "paste")
  /\ \E r \in Inflated(chunk[c]) :
       /\ idat_data' = Pasted(idat_data, temp[c].seq, r)
       /\ chunk' = [chunk EXCEPT ![c] = IF MayOverrun(r) THEN @ ELSE Zero]
  /\ Goto(c, "reset")
  /\ UNCHANGED <<counter, sems, ring, length_all, idx, mutex, fetched, temp, reg,
                 life>>

\* Mutant: the slot is not initialized again.
ResetForgotten(c) ==
  /\ At(c, "reset")
  /\ temp' = [temp EXCEPT ![c] = FreshBuf(MAIN)]
  /\ chunk' = [chunk EXCEPT ![c] = Zero]
  /\ Goto(c, "next")
  /\ UNCHANGED <<counter, sems, ring, image, idx, mutex, fetched, reg, life>>

\* shm_recv_buf_init(&p_shm_recv_buf[cindex]): the slot's pointer is now an
\* address of this consumer.
Reset(c) ==
  /\ At(c, "reset")
  /\ slot' = [slot EXCEPT ![idx[c]] = FreshBuf(c)]
  /\ temp' = [temp EXCEPT ![c] = FreshBuf(MAIN)]
  /\ chunk' = [chunk EXCEPT ![c] = Zero]
  /\ Goto(c, "next")
  /\ UNCHANGED <<counter, sems, bytes, image, idx, mutex, fetched, reg, life>>

ConsumerPost(c) ==
  /\ At(c, "post")
  /\ spaces' = spaces + 1
  /\ Goto(c, "check")
  /\ UNCHANGED <<counter, items, ring, image, idx, mutex, locals, reg, life>>

-----------------------------------------------------------------------------
(***************************************************************************)
(* Where a child may die.  write_cb_curl aborts on a body over 10K.  An    *)
(* address attached by another child may be unmapped.  Bytes of an error   *)
(* page read as a chunk length send memcpy past its segment.  Zeros after  *)
(* a cut stream may inflate to more than temp_data holds; then the death   *)
(* may also come when idat_initialize, its copy made, returns.             *)
(***************************************************************************)
MayFault(c) ==
  \/ /\ pc[c] = "get" /\ slot[idx[c]].size = 0
     /\ \/ "toobig" \in net
        \/ "nohandle" \in net /\ slot[idx[c]].buf # MAIN
  \/ pc[c] = "copy" /\ slot[idx[c]].buf # MAIN
  \/ pc[c] = "chunk" /\ (temp[c].buf \notin {MAIN, c} \/ Alien \in Seen(c))
  \/ pc[c] \in {"paste", "reset"} /\ chunk[c].kind = "cut"

Crash(c) ==
  /\ status[c] = "run" /\ MayFault(c)
  /\ status' = [status EXCEPT ![c] = "crash"]
  /\ UNCHANGED <<counter, sems, ring, image, pc, idx, mutex, locals, reg,
                 reaped, main_pc, i, reported, net>>

-----------------------------------------------------------------------------
Init ==
  /\ counter = 0
  /\ spaces = buf_size
  /\ items = 0
  /\ slot = [j \in Slots |-> FreshBuf(MAIN)]
  /\ bytes = [j \in Slots |-> Zero]
  /\ length_all = 0
  /\ idat_data = [x \in Cells |-> Zero]
  /\ pc = [c \in Children |-> "check"]
  /\ idx = [c \in Children |-> 0]
  /\ mutex = [c \in Children |-> FALSE]
  /\ fetched = [c \in Children |-> NoFetch]
  /\ temp = [c \in Children |-> FreshBuf(MAIN)]
  /\ chunk = [c \in Children |-> Zero]
  /\ reg = [c \in Children |-> 0]
  /\ status = [c \in Children |-> "none"]
  /\ reaped = {}
  /\ main_pc = "fork"
  /\ i = 0
  /\ reported = {}
  /\ net \in Networks

MainStep ==
  Fork \/ WaitNone \/ WaitpidNone \/ Catpng \/ MainCleanup \/ \E c \in Children : Wait(c)

\* The network decides when, and whether, these happen.
Transfer(p) == Fetch(p) \/ FetchNoHandle(p)

ProducerStep(p) ==
  \/ CheckCounter(p) \/ ProducerWait(p) \/ Lock(p) \/ ProducerSkip(p) \/ Copy(p)
  \/ Publish(p) \/ LoadCounter(p) \/ StoreCounter(p) \/ NextIndex(p)
  \/ ProducerPost(p) \/ ChildCleanup(p)

ConsumerStep(c) ==
  \/ CheckCounter(c) \/ ConsumerWait(c) \/ Lock(c) \/ Read(c) \/ ReadEmpty(c)
  \/ RetrieveChunk(c) \/ AddLength(c) \/ Paste(c) \/ Reset(c) \/ NextIndex(c)
  \/ ConsumerPost(c) \/ ChildCleanup(c)

\* Nothing is left to run: the end of the program, not a deadlock of it.
Terminated ==
  /\ main_pc \in {"done", "abort"}
  /\ \A c \in Children : status[c] # "run"
  /\ UNCHANGED vars

Next ==
  \/ MainStep
  \/ ForkFails
  \/ \E p \in Producers : ProducerStep(p) \/ Transfer(p)
  \/ \E c \in Consumers : ConsumerStep(c)
  \/ \E c \in Children : Crash(c)
  \/ Terminated

(***************************************************************************)
(* The kernel schedules every runnable process, and a process blocked in   *)
(* sem_wait is woken when the semaphore stays positive.  Nothing is        *)
(* assumed of Transfer: get_cURL sets no timeout.                          *)
(***************************************************************************)
Fairness ==
  /\ WF_vars(MainStep)
  /\ \A p \in Producers : WF_vars(ProducerStep(p))
  /\ \A c \in Consumers : WF_vars(ConsumerStep(c))

Spec == Init /\ [][Next]_vars
FairSpec == Spec /\ Fairness

-----------------------------------------------------------------------------
(* Properties *)

ProducerHolds == {"lock", "get", "copy", "meta", "load", "store", "next", "post"}
ConsumerHolds ==
  {"lock", "read", "chunk", "add", "paste", "reset", "next", "post"}
Labels == {"check", "sem_wait", "cleanup"} \cup ProducerHolds \cup ConsumerHolds

SharedTypes ==
  /\ counter \in Nat /\ spaces \in Nat /\ items \in Nat
  /\ slot \in [Slots -> RecvBuf] /\ bytes \in [Slots -> Content]
  /\ length_all \in Nat /\ idat_data \in [Cells -> Content]

PrivateTypes ==
  /\ pc \in [Children -> Labels]
  /\ \A p \in Producers : pc[p] \in {"check", "sem_wait", "cleanup"} \cup ProducerHolds
  /\ \A c \in Consumers : pc[c] \in {"check", "sem_wait", "cleanup"} \cup ConsumerHolds
  /\ idx \in [Children -> Slots] /\ mutex \in [Children -> BOOLEAN]
  /\ fetched \in [Children -> Fetched] /\ temp \in [Children -> RecvBuf]
  /\ chunk \in [Children -> Content] /\ reg \in [Children -> Nat]

LifeTypes ==
  /\ status \in [Children -> {"none", "run", "exit", "crash"}]
  /\ reaped \subseteq Children
  /\ main_pc \in {"fork", "wait", "waitpid", "catpng", "cleanup", "done", "abort"}
  /\ i \in 0 .. num_child
  /\ main_pc \in {"fork", "waitpid"} => i < num_child
  /\ reported \subseteq Children /\ net \in Networks

\* The variables of main, the producers and the consumers keep their types, each
\* child stays in its own loop and every index stays inside the ring.
TypeOK == SharedTypes /\ PrivateTypes /\ LifeTypes

\* The children between their sem_wait and their sem_post, dead or alive.
Holders == {c \in Children : pc[c] \in ProducerHolds \cup ConsumerHolds}

\* No slot token is lost or made up, on any path of the loops: what the two
\* semaphores do not count is held by a child, which takes it along if it dies.
SemConservation == spaces + items + Cardinality(Holders) = buf_size

\* Working on the slot: it has been waited for and the index is not yet advanced.
InSlot(c) == pc[c] \in (ProducerHolds \cup ConsumerHolds) \ {"post"}

\* A producer and a consumer never work on the same slot, although the mutex
\* around the work is private to each.
SlotExclusion ==
  \A p \in Producers, c \in Consumers : InSlot(p) /\ InSlot(c) => idx[p] # idx[c]

\* The producer that got a space finds its slot empty: it never passes one over.
SpaceMeansEmpty ==
  \A p \in Producers : pc[p] = "get" => slot[idx[p]].size = 0

\* A cell that a complete transfer filled belongs to the strip of that part.
WholeStripsInPlace ==
  \A x \in Cells :
    idat_data[x].kind = "whole" =>
      idat_data[x].part * STRIP <= x /\ x < (idat_data[x].part + 1) * STRIP

\* The strips of which at least a cell came from a complete transfer.
WholeStrips ==
  {k \in 0 .. NUM_PARTS - 1 :
     \E x \in Cells : idat_data[x].kind = "whole" /\ idat_data[x].part = k}

\* catpng() reads the image when every child that writes it has ended.
AloneInCatpng ==
  main_pc \in {"catpng", "cleanup", "done"} =>
    \A c \in Children : status[c] \in {"exit", "crash"}

Finished == main_pc = "done" /\ \A c \in Children : status[c] = "exit"
Abnormal == main_pc = "abort" \/ \E c \in Children : status[c] = "crash"

\* Unless a process died or a transfer stalls for ever, every child leaves its
\* loop and the parent reaches its end: nobody is left blocked on a semaphore.
TerminatesUnlessStalled ==
  <>(Finished \/ Abnormal) \/ <>[](\E p \in Producers : pc[p] = "get")
=============================================================================

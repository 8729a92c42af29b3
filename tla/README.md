# A verification project for the ECE252 lab 3 programs

The repository is a solution to the third lab of a systems programming course, with the
starter code it came with: C programs in which a few processes made by `fork` share System V
memory. This directory holds TLA+ modules translated from that code, configurations that
check them with TLC, and proofs checked by TLAPS.

- [The system](#the-system): components, state, operations, hard behaviours
- [The modules](#the-modules): which module models what, and how
- [What the runs show](#what-the-runs-show), with bounds and fairness
- [What is proved](#what-is-proved)
- [What the code does not do that the repository says it does](#disagreements)
- [What is not modelled](#what-is-not-modelled), and [the plan](#the-plan)

Paths without a directory are under `src/lab3/Lab3/`; `starter/` is `src/lab3/starter/`.

## The system

### paster2: the ring (`paster2.c`)

`main` makes six shared things (a ring of `buf_size` = 3 `RECV_BUF`s, the semaphores `spaces`
and `items`, `counter`, `length_all`, `idat_data`) and forks `n_producer` = 1 producers and
`n_consumer` = 1 consumers. `producer` loops while `*counter < 50`: it takes a space, calls
`get_cURL` on slot `pindex` if the slot is empty, adds one to `*counter`, moves `pindex` on and
posts an item. `consumer` loops on the same condition: it takes an item, and if slot
`cindex` has bytes it inflates them into `idat_data` (`idat_initialize`) and empties the slot,
then moves `cindex` on and posts a space. The parent waits for both and runs `catpng`, of
which the part that writes a file is commented out.

| state | where | who changes it |
|---|---|---|
| `spaces`, `items` | shared | producers and consumers |
| ring slots: `buf`, `size`, `seq` | shared | `get_cURL` in the producer, `shm_recv_buf_init` in the consumer |
| the bytes behind a slot's `buf` | shared only for the segment `main` attached | the producer |
| `counter` | shared, no lock | producers; read by all |
| `idat_data`, `length_all` | shared, no lock | consumers, then the parent |
| `pindex`, `cindex`, `mutex` | globals, copied by `fork` | private to each child |

*Hard*: the mutex is a private copy and excludes nobody, so only the two semaphores and the
two private indices keep the workers apart; `counter` is read outside any lock; both loops end
on the same counter, so one may leave while the other is blocked; an address stored in a slot
is meaningful only to the process that attached the segment; a transfer may fail, stall, be
cut short or abort the producer; the parent reads the image with no lock.

*Correct if*: the workers never meet in a slot; every result goes through the ring once and in
order; no token is lost; nobody stays blocked; the image has each part at its own strip.

### get_cURL: one transfer (`cURL.c`, `cURL.h`)

libcurl calls `header_cb_curl` (sets `seq`) and `write_cb_curl` (appends bytes and a NUL, aborts
beyond `max_size`) on a temporary `RECV_BUF`; a loop of `strcpy` calls then copies the bytes to
the slot, and `size` and `seq` follow. *Hard*: `strcpy` on binary data; room for the NUL; a
transfer that fails between callbacks, whose error is only printed.

### Shared stack (`starter/shm/shm_stack.c`, `shm_struct.c`; `Lab3/shm_stack.c` is the same file)

A bounded stack of ints in one block of memory, used twice by `shm_struct.c`: locally, and in a
segment that a child fills and the parent empties after `waitpid`. *Hard*: the only ordering
is `waitpid`, whose status is ignored; any call may fail in either process; a child killed
inside `push` leaves `pos` counting an item that was never stored; the pointer
arithmetic of `init_shm_stack` puts the items elsewhere than its comment says.

### fork, sem and shm examples

- `starter/fork/forkN.c`: a parent forks 5 workers and waits for each by pid. *Hard*: they end
  in any order and in any way; a fork in the middle may fail.
- `starter/fork/zombie.c`: a parent that sleeps while its child is a zombie.
- `starter/sem/sem_simple.c`: a message through a segment, two semaphores, four calls of cleanup
  on each side. *Hard*: the order of bytes and semaphores, removal of segments that the other
  process still has attached, a child that dies.

### Handing one result over (`starter/cURL_IPC/`, `starter/shm/shm_simple.c`)

`main_2proc.c`: a child downloads one part straight into a `RECV_BUF` in a segment, and the parent
waits for it, writes `size` bytes to a file and removes the segment; `cURL_IPC/cURL.c` is the same
in one process. In `shm_simple.c` the child prints a message into the segment and the parent
prints it after `waitpid`. *Hard*: nobody looks at how the child ended, and it can be killed
between the `memcpy` and the update of `size`; one process removes a segment that either may
still have attached. *Correct if*: the parent takes a beginning of what was sent, all of it when
the transfer was complete, and takes it once, after the last write.

### From a slot to the image (`crc.c`, `zutil.c`, `idat_initialize`)

`retrieve_chunk` (`crc.c`) sums up a length from four bytes, swaps it and copies the chunk;
`mem_inf` (`zutil.c`) inflates it by output buffers of 16K; the strip is copied to
`seq * uncompressed_size`; `mem_def` deflates the whole image the same way. The CRC (`crc.c`) is
computed with a table. *Hard*: bytes that are cut, or no PNG at all, are parsed all the same;
the loops end on an output buffer that is not full, whatever zlib returned; nothing bounds the
copies. *Correct if*: a part that came whole is in the image whole, everything else is one of
the cases the ring is prepared for, and neither loop goes on for ever.

`lab_png.c` (PNG header helpers, linked into no program) and `tools/` (scripts that time paster2 and
remove leaked segments) complete the repository.

### How the parts interact

    main --fork--> producer --get_cURL--> libcurl --callbacks--> temporary RECV_BUF
      |               |                                             | strcpy loop
      |               +--- counter, ring slots, spaces/items <------+
      |               |
      +--fork--> consumer --retrieve_chunk, mem_inf--> idat_data, length_all
      |
      +--wait, waitpid--> catpng --mem_def--> (file output commented out)

## The modules

| module | models | role |
|---|---|---|
| `PartTransfer` | what one transfer can leave in a `RECV_BUF` | used by `Paster2`, shown by `GetCurl` |
| `PartStrip` | what `retrieve_chunk` and `mem_inf` get out of a slot | used by `Paster2`, shown by `StripPath` |
| `Paster2` | `paster2.c`, every access to shared memory an action | core |
| `PartStream` | an in-order stream of results, at most `Capacity` outstanding | abstract specification |
| `Paster2Stream` | the refinement mapping from `Paster2` to `PartStream`; `RingOrder` | composition |
| `Paster2Claims` | what the image holds at the end; claims of the repository | properties |
| `MCPaster2` | the three together | module TLC runs |
| `GetCurl` | `get_cURL` and its callbacks, byte by byte | refines `PartTransfer` |
| `StripPath` | from the slot into the image and through `mem_def`, byte by byte | composition, on top of `GetCurl`; refines `PartStrip` |
| `Crc` | the table-driven CRC and polynomial division | algorithm and its reference |
| `MCGetCurl` | the three together; the answers of the server TLC tries | module TLC runs |
| `BoundedStack` | a stack of at most `Capacity` items | abstract specification |
| `ShmStack` | `shm_stack.c` as operators on an `ISTACK` | used by the next |
| `ShmStruct` | `shm_struct.c`, two processes; contains the mapping to `BoundedStack` | composition |
| `ForkN` | `forkN.c` and the kernel's side of fork and wait | |
| `SemSimple` | `sem_simple.c` | |
| `Mailbox` | a result that only grows while open, and is taken once when closed | abstract specification |
| `HandOff` | `cURL_IPC/cURL.c`, `main_2proc.c`, `shm_simple.c`; contains the mapping to `Mailbox` | |
| `MCHandOff` | the answers of the server TLC tries | module TLC runs |
| `Paster2Proofs`, `Paster2DeliveryProofs` | theorems about the ring | the second on top of the first |
| `StripPathProofs` | theorems about `get_cURL` and the way of a part | on top of `CrcProofs` |
| `CrcProofs` | the CRC, and induction over recursive functions | |
| `ShmStructProofs`, `ForkNProofs`, `SemSimpleProofs`, `HandOffProofs` | theorems | |

Operators commented *Mutant* are not part of a specification: each is a plausible bug in the
definition that follows it, and changes one property of the runs from true to false. They show
that the property depends on the code it is about.

### Paster2

One action is one access to shared memory with the private computation around it, in program
order; `pc[c]` names the next one. A child goes through

    producer: check -> sem_wait -> lock -> get -> copy -> meta -> load -> store -> next -> post -> check
    consumer: check -> sem_wait -> lock -> read -> chunk -> add -> paste -> reset -> next -> post -> check

and leaves from `check` by `cleanup`. `*counter += 1` and `*length_all += ...` are a load and a
store; the fields of a slot are written together, after the bytes (nothing else can look at
them in between: `SlotExclusion`). `mutex[c]` is per child, as `fork` makes it.

The data keeps only what the properties tell apart. A part is its number. Bytes are a record
that says whose they are: zero (a fresh segment), the whole or a cut transfer of part k, an
error page, or an uninitialized array. A size is 0 or not. An inflated strip is `STRIP` cells.
`slot[j].buf` names the process that attached the segment; `Seen(c)` is what `c` reads through
it: the bytes for `MAIN`, zeros in its own fresh segment, and either zeros or something alien
through somebody else's address. `Inflated` (`PartStrip`) is what `mem_inf` leaves in
`uncompressed_size` and `temp_data`, with the early return on an error. What is not whole may
inflate to more than `temp_data` holds: the consumer then dies (in `mem_inf` or the copy behind it,
or when `idat_initialize` returns over the stack it has overrun, which is why `Paste` keeps the
chunk if `MayOverrun`), or it survives and a length over one strip is its stride. `net` is what the
network does in this behaviour, one of `Networks`: with {"whole"} alone every part arrives.
`MayFault` lists the five places where a child can die; a dead child keeps the token it holds, as a
System V or POSIX semaphore does.

After `wait(NULL)` has returned -1 the parent waits a second time, by pids it never stored
(`WaitpidNone`): the calls fail, and what `WIFEXITED` says of an uninitialized `state` is a free
choice.

`Terminated` lets the system stop when every process has ended. Deadlock is not checked in the
`ring` run, because the program really does stop with a process blocked when a child dies
holding a token; `TerminatesUnlessStalled` says that this is the only way. Nor is it in `many`,
where a producer may wait for a space that the consumer, which has left, does not give back.
Every other passing run checks deadlock.

### Paster2Stream and PartStream

A result (the number of a part, or nothing) is *delivered* by the producer's
`sem_post(items)`, *taken* by the consumer's `sem_wait(items)` and *released* when the consumer
has emptied or passed over the slot. `Pending` reads the queue off the ring: `items` slots from
the first one the consumer has not claimed. `ImplementsStream` says that each step of the ring
is a step of that stream, or none: nothing is lost, duplicated, reordered or overwritten. It is
about the headers; what becomes of the bytes is in `Paster2Claims`. With two producers there is
no such mapping: both start at slot 0, and one of them may pass over what the other has filled
(`ProducerSkip`, which only the `many` run reaches).

### GetCurl

`EasyInit`, the callbacks (`HeaderCb`, `NoFragment`, `WriteCb(n)`, `WriteCbAborts(n)`), the return
of `curl_easy_perform` at any moment, one action per `strcpy` call, and the copy of the fields.
`Outcome` maps the slot to the abstraction that `Paster2` uses, and `OutcomeReceived` says that it
is one of `Received(k)`: the model of the ring assumes nothing of a transfer that the code at
the level of bytes does not do.

### StripPath and Crc

`StripPath` continues a behaviour of `GetCurl` in the consumer and then in the parent, for a slot
of the ring's first lap, which both see through the address `main` attached. A byte is a number
below `BASE` and a length `LEN_SIZE` bytes; `ChunkLength` sums up and swaps them as the code does,
with `% BASE ^ LEN_SIZE` for the width. zlib is external: one call of `inflate` or `deflate` returns
a code and a number of bytes (`Inflate`, `Deflate`), exact for the stream of a part, nearly free
for anything else. The bodies of the two `do ... while` loops are `InflateMore`, `InflateEnds` and
`InflateError`, and `DeflateMore` and `DeflateEnds`. `temp_data` is followed by `MaxInflated - STRIP`
cells of stack: writing into them may kill the consumer (`InflateOverflows`) or not, and then the
length goes on to the copy, part of which may lie behind the image. A cell of the image says
which cell of a strip it is, so a strip that is shifted or has a hole shows. `fault` is a death by a
copy out of a segment or an array, `overrun` the parent that deflates into less memory than it has.
`Protocol` says which answers the program is made for (a part, an error page); the bodies of the
run go beyond it, and only `PathEnds`, the invariants of `GetCurl` and `CrcIsRemainder` are about
those.

`Crc` has `make_crc_table`, `update_crc` and `crc` with the widths as parameters. A word is the set of
the positions of its ones, so `^` is `Toggled`, `>>` is `Shifted` and `& 0xff` an intersection; `POLY` is
the set of the bits of 0xedb88320. No program of the repository calls `crc`: the module is about the
function as it stands in `crc.c`. `ReferenceCrc` is the definition of a CRC, long division of the
message by the generator, a bit at a time and with no register.

### ShmStack and ShmStruct

An address is a number of ints from the start of a block, so the struct takes `STRUCT` = 4 and
`init_shm_stack`'s `p + sizeof(ISTACK)` is `STRUCT * STRUCT * INT` = 64, where `create_stack`'s is
4. A kernel maps whole pages; how far is chosen in `Init` from `MAPPINGS`, so that a run has both
a mapping that reaches to the end of the misplaced items and one that does not. `Contents(b)`
reads the abstract stack off the struct and the words behind it.

`init_shm_stack` and `push` are one action each where the child lives, since nobody else looks at the
segment until it has ended. It may also die inside them: `KilledInInit` after any of the stores of
`init_shm_stack` (`half_init`), `KilledInPush` between `++(p->pos)` and the store, `PushFaults` in a
store that is not mapped. The last two leave the same stack, of a `child` that ended as "torn"; a
signal anywhere else is `Killed`.

### ForkN and SemSimple

`ForkN` has the process table (`none`, `run`, `zombie`, `gone`), `cpids` and `state` uninitialized as
in C, and one action per system call; `Adopt` is init, which waits for orphans. `SemSimple` writes
and reads the message byte by byte and has the kernel's rule for segments: one marked for
removal goes with the last detach. Of its failing calls only `fork` is modelled: the aborts after
`sem_init`, `sem_wait`, `sem_post`, `shmget`, `shmat`, `shmdt` and `shmctl` are left out, before the fork
and after it.

### HandOff

One module for three programs, since they differ only in who attaches when and in what fills
the segment: `program` is chosen in `Init` and `Worker` is the process that fills it. `WriteBytes`
and `WriteSize` are the two halves of `write_cb_curl`, and `Killed` may come between them. The
output is a file (`WriteFile(n)`: n bytes get to the disk, since nothing looks at the result of
`fwrite` and `fclose`) or what `printf` prints up to a NUL. `Box` maps a state to `Mailbox`: the box is
open until `waitpid` has returned, and what is in it is `size`, or the length of the string.

## What the runs show

| run | configuration | expected | question |
|---|---|---|---|
| `ring` | `paster2_ring.cfg` | pass | With every outcome of a transfer, a failing fork and dying workers: do the semaphores alone keep the workers apart and the ring an in-order stream, does everybody get to an end, and which parts are in the image? |
| `many` | `paster2_many.cfg` | pass | With two producers, whose counter and indices race: is any token lost? |
| `getcurl` | `getcurl.cfg` | pass | Byte by byte from the server into the deflated image: does a part that comes whole end up whole, does everything else stay within what the ring's model assumes, and do the loops end? |
| `shmstruct` | `shmstruct.cfg` | pass | Are both stacks stacks, does the parent pop what the child pushed, and what does a failing call or a killed child do to it? |
| `forkn` | `forkn.cfg` | pass | Is every printed line true and every worker waited for? |
| `semsimple` | `semsimple.cfg` | pass | Is the message read whole or not at all, and is everything cleaned up? |
| `handoff` | `handoff.cfg` | pass | Whatever fails and wherever the child is killed: does the parent take a beginning of the result, all of it if it was complete, and does the segment go? |
| `all_parts`, `get_data`, `strips`, `reports` | `paster2_*.cfg` | violation | see [Disagreements](#disagreements) |
| `shmstruct_layout` | `shmstruct_layout.cfg` | violation | the same |

`ring`: `SemConservation` (spaces, items and the children between their semaphore operations add
up to `buf_size`), `SlotExclusion`, `RingOrder` (`pindex` is ahead of `cindex` by exactly what the
semaphores and the steps around them say), `SpaceMeansEmpty` (the producer's test of an empty slot
never fails), `NoneStranded` (who is blocked waits for one that has not left its loop and is not
blocked itself), `WholeStripsInPlace`, `AloneInCatpng`, `ImplementsStream`,
`TerminatesUnlessStalled`, and `AssembledParts`: when everything goes well, the image has the parts
of the first lap that the consumer took before the counter reached its limit, and `length_all`
counts exactly them. That it is not all parts is no accident of the model; the refuted claims
show the two reasons apart.

`getcurl`: `PrefixStored` (the buffer holds a prefix of the body and a NUL, inside `max_size`),
`CopyExact` (the `strcpy` loop copies binary data), `OutcomeReceived` and `StripAsInRing` (slot and
strip are outcomes that `Paster2` has, a length over one strip among them, and a consumer dies only
of data of which it may die there),
`WholeInImage` (no byte lost in either loop of `zutil.c`, also when the strip is a multiple of
`CHUNK`, and `mem_def`'s asserts hold), `CrcIsRemainder`, `PathEnds`.

`shmstruct`: `HeapIsStack`, `ShmIsStack`, `ParentGetsAllInReverse`, `PopsAfterPushes`, and what a dead
child does to the parent: it faults in `pop_all` only for a cause (`FaultMeansNoChild`), and if it comes
through, a push that was cut off between `pos` and the store has given it one item nobody pushed, and
a death anywhere else nothing but fewer items (`TornPushPopsOneMore`). `forkn`: `ReportsTrue`,
`AllAccountedFor` (one line, and only one, for each worker that exited), `NoZombieStays`. `semsimple`: `OneToken`, `MessageWhole`, `CleanEnd`, `Ends`.

`handoff`: `OutputIsPrefix`, `CompleteHandOver`, `SegmentReclaimed`, `IsMailbox`, `EndsUnlessStalled`.

Type invariants are checked where a bug in the code could break them (an index out of the
ring, a size with no room for the NUL); `ShmStruct.TypeOK` and `SemSimple.TypeOK` are proved instead.

### Bounds

| bound | value | why it is enough |
|---|---|---|
| `buf_size` | 2 (`ring`), 1 in `get_data` | with 2 the ring is empty, partly full and full, and the indices differ or wrap; the theorems are for every size |
| `Networks` | whole transfers only; all six kinds | the first for `AssembledParts`, which needs that nothing goes wrong, the second for the rest |
| `NUM_PARTS` | 4 (`ring`), 2 (`many` and the refutations) | at least two laps: what matters changes when a slot is used again |
| `STRIP`, `MaxInflated` | 2, 3 (`ring`); 2, 2 (`strips`); 1, 2 (where every transfer is whole or empty) | a strip can be inflated short and reach into its neighbour, and in `ring` be longer than one; `strips` has no overflow, so that its counterexample is the short strip |
| workers | 1 and 1; 2 producers in `many` | 1 and 1 in the program; `TypeOK`, `SemConservation` and `AloneInCatpng` are proved for any number |
| `Deflated` | {1, 2} | shorter and longer than `length_all` |
| `BUF_SIZE` (`getcurl`) | 13 | the part (12 bytes) just fits; all bodies of up to 6 bytes with NULs anywhere, and text and every-other-NUL bodies up to 14, one byte more than fits |
| `STRIP`, `CHUNK` (`getcurl`) | 4, 2 | a strip is an exact multiple of the output buffer, the boundary of both loops |
| `BASE`, `LEN_SIZE` | 16, 2 | a length of two digits, the low one nonzero: the swap matters; as in the program, a length whose first byte is not 0 is more than a segment holds |
| `MaxInflated`, `MaxDeflated` (`getcurl`) | 6 | up to 2 cells more than a strip; three rounds of each loop |
| `BYTE_BITS`, `CRC_BITS`, `POLY` | 4, 8, {5, 6, 7} | the code's 8, 32 and 0xedb88320 scaled down; a byte is half of the CRC, so the shift matters; the theorem is for every width and generator |
| `BUF_SIZE`, bodies (`handoff`) | 4, all up to 4 bytes | a body of 4 no longer fits with its NUL; the theorems are for every size |
| `Message` (`handoff`) | 2 characters | `shm_simple`'s child can be killed before, inside and after it |
| `LENGTH` | 24 | "I am the child (pid=NN)" with its NUL; the theorems are for every length |
| `STACK_SIZE`, `MAPPINGS` | 12; 70 and 1024 ints | 3 items in the program, in a page of 1024 ints. Items start at int 64, so 12 of them cross a mapping of 70 and fit into one of 1024. With the program's sizes the crossing needs a stack of about 1000 items |
| `NUM_CHILD` | 5 | the value in the program |

The counters need no bound of their own: the program's loops bound them.

### Fairness

- Paster2: weak fairness of the parent's and of each child's own steps, since the kernel
  schedules runnable processes. A process blocked in `sem_wait` is woken when the semaphore is
  positive; with one process waiting on each semaphore it stays positive until then. None for
  `Transfer` (`get_cURL` sets no timeout), for a failing fork or for a death. So
  `TerminatesUnlessStalled` excuses a producer that is in `get_cURL` for ever, and says nothing
  once a process has died.
- ForkN: the parent, the end of each worker (it sleeps a bounded time) and init.
- StripPath: `get_cURL`'s own steps, and the consumer and the parent behind it; `PathEnds` excuses a
  transfer that never returns.
- HandOff: the parent and what the worker does by itself, nothing of the server (no timeout is
  set on the handle) and no death.
- ShmStruct, SemSimple: the two processes, and no signal (`SomebodyKills`, `Killed`). `Ends` excuses a child that was killed; that the
  parent is then blocked in `sem_wait` is kept as an end of the program (`Terminated`).

## What is proved

For every value of the constants that satisfies the named assumptions
(`ConstantsAssumption`, `TransferAssumption`, `StripAssumption`, `CurlAssumption`,
`PathAssumption`, `CrcAssumption`, `LayoutAssumption`, `StructAssumption`, `ChildAssumption`,
`SemAssumption`, `HandOffAssumption`). They say that sizes are positive, sets what they are sets of, and that a strip is
not longer than what may be inflated. Only `PathAssumption` says more: the length field lies inside a segment (33 + 4 bytes of 10K), the
stream of a part has a length that fits its field, and a length whose first byte is not 0 is more
than a segment holds (256^3 against 10K), by which text that is read as a length is caught.

| module | theorem | statement |
|---|---|---|
| `Paster2Proofs` | `TypeCorrect` | `Spec => []TypeOK`, any number of workers |
| | `TokensConserved` | `Spec => []SemConservation`, any number of workers |
| | `ImageLeftAlone` | `Spec => []AloneInCatpng`, any number of workers |
| | `IndicesInStep` | `Spec => []RingOrder`, one worker of each kind |
| | `NeverSameSlot` | `Spec => []SlotExclusion`, one of each |
| | `OnlyRealParts` | `Spec => []PartInRange`, one of each: no part 50 is asked for, though the counter is read before the wait and used after |
| | `SpaceIsEmptySlot` | `Spec => []SpaceMeansEmpty`, one of each |
| `Paster2DeliveryProofs` | `RingIsStream` | `Spec => ImplementsStream`, one of each |
| | `WholeInOwnStrip` | `Spec => []WholeStripsInPlace`, one of each |
| | `FirstLapAssembled` | `Spec => []AssembledParts`, one of each |
| | `NobodyStranded` | `Spec => []NoneStranded`, one of each |
| `StripPathProofs` | `TypeCorrect`, `BufferHoldsPrefix`, `StrcpyLoopExact`, `ShortBodiesNeverAbort`, `OutcomesCovered` | `TypeOK`, `PrefixStored`, `CopyExact`, `AbortOnlyWhenTooBig`, `OutcomeReceived`, any buffer and body |
| | `PathRefinesCurl` | `PathSpec => Spec`: what is proved of `get_cURL` holds along the way of a part |
| | `StripsAsInRing` | `PathSpec => []StripAsInRing`, any buffer, part, strip and output chunk |
| | `WholePartsInImage` | `PathSpec => []WholeInImage`, the same |
| | `CrcOfBodies` | `PathSpec => []CrcIsRemainder`, any answers of the server |
| `CrcProofs` | `CrcIsDivision` | `crc(s) = ReferenceCrc(s)` for every message, width and generator |
| `ShmStructProofs` | `TypeCorrect`, `AllInReverse`, `FaultsExplained`, `TornPushExplained`, `LocalStackInBlock` | the invariants of that name's subject, any size and mapping |
| | `PopsComeAfter` | `Spec => PopsAfterPushes`, an action property |
| | `HeapImplements`, `ShmImplements` | both stacks refine `BoundedStack`, any size and mapping |
| `ForkNProofs` | `LinesAreTrue`, `EveryWorkerAccountedFor` | any number of workers |
| `SemSimpleProofs` | `TypeCorrect`, `TokenKept`, `NeverHalfAMessage`, `NothingLeft` | any message, a child killed anywhere |
| `HandOffProofs` | `TypeCorrect`, `OutputNeverWrong`, `CompleteIsHandedOver`, `SegmentGoes` | `TypeOK`, `OutputIsPrefix`, `CompleteHandOver`, `SegmentReclaimed`, any size, answers and message |
| | `HandOffIsMailbox` | `Spec => IsMailbox`, any size, answers and message |

The arguments:

- **Tokens.** `SemConservation` is inductive with `TypeOK`: `Holders` changes exactly where a
  semaphore does. `HoldersStep` is the counting lemma for one child that moves; a death or an
  exit leaves `pc`, hence the token, where it is.
- **The ring.** With one producer and one consumer the holders are two Booleans, so
  `SemConservation` bounds `Fill`, the number of slots between the indices, by `buf_size`.
  `RingOrder` is then inductive: each step changes `idx` and `Fill` together. Modular arithmetic
  is kept out of the SMT solver by `Wrap`, a subtraction. `SlotExclusion` follows without
  another induction: in the slot together, `Fill` is between 1 and `buf_size - 1`.
  `SpaceMeansEmpty` needs `EmptyOutside` (bytes are only between the indices or where the
  producer has just put them), `PartInRange` needs `PartCounted` (once the producer has seen
  that parts are left, nobody else moves the counter).
- **The stream.** `Handed` says which result is in the producer's slot until its `sem_post`. The
  queue that `Pending` reads off the ring is the slots from `FirstPending` on; the producer's own
  slot and the consumer's are never among them (`PendingSlots`, from `RingOrder` and the tokens),
  so only the two semaphore operations and the consumer's release are seen by the stream.
- **The image.** `Faithful` follows the number of a whole part from the temporary through the slot,
  as long as it is read through `main`'s address, into the consumer's copies. The producer writes
  only into an empty slot that is not the consumer's.
- **The first lap.** `Turns` counts the turns of each index, by which it is a plain number until
  it wraps; no modulus is needed, since after the first lap all that matters of a slot is that the
  consumer attached its segment. `LapSlots` takes slot j from empty to part j to the consumer,
  `LapCopies` follows the part into the copies, `Assembled` what has been counted and placed. At
  `catpng` both workers have left at the end of their loops (`Turns`, `Reaped`), so the turns of the
  consumer are `counter - items`.
- **Nobody stranded.** `Unstranded`: a worker at its semaphore has seen that parts are left, one that
  leaves has seen the last part counted. If the consumer waits for items and the producer has
  left, every part was delivered and, with `items` at 0, taken, so the consumer has made all its
  turns (`Done`) and would not wait. If both waited at zero, no token would be left
  (`SemConservation`). That a runnable process then does move is fairness, and TLC's
  (`TerminatesUnlessStalled`).
- **Waiting.** `Reaped`: the parent reaps only ended children, and leaves the loop only when it
  has reaped all; an ended child never runs again.
- **get_cURL.** `Inv` = `TypeOK`, `PrefixStored`, `Copied` (after i calls of `strcpy` the first i bytes
  are in place and nothing is behind the data: each call copies up to the next NUL, which
  exists because the buffer ends in one) and `Arrived` (who may have a sequence number).
- **Induction over data.** `SetInduction` takes a set of naturals instead of a predicate, and follows
  from the well-foundedness of < by a least counterexample. A recursive function is a CHOOSE:
  `RunExists` shows by induction that a run of given steps exists, `RunStays` that whatever satisfies
  the recursive definition is one. Every loop (`make_crc_table`, `update_crc`, the division, the two
  loops over the bytes of a length) is unfolded that way.
- **The byte order.** `LittleEndianDigits`: after k bytes the sum is below `Power[k]`, so nothing
  is lost to the wrapping products, and the bytes are its digits; `BigEndian`: the swapped
  number has the same digits from the other end. `LengthRead` is what the path needs: zeros give 0, a
  first byte other than 0 gives more than a segment holds, and the digits of a length give that length.
- **The path.** `PathInv` = `Begun` (behind the slot `get_cURL` has returned, and its slot is frozen),
  `Progress` (how far the inflated and the deflated bytes are), `EmptyChunk` (a chunk
  without data inflates to nothing, and of an error page there is no other), `StreamFits` (the stream of
  a part never leaves `temp_data`, so no death behind it is of a whole part), `WholeChunk` (from a complete part `retrieve_chunk` takes the stream, and
  what has been inflated of it is right) and `WholeInImage`. `StripAsInRing` alone is not
  inductive: it says nothing before the strip is pasted. `PartLayout` and `PartRetrieved` go
  through the layout of a part byte by byte, `PageRetrieved` shows that an error page, with
  text where the length should be, ends in a fault, or is so short that the length reads as 0:
  either way nothing of it gets to the image.
- **The CRC.** The register after some bytes is a window on the long division: the `CRC_BITS` bits that
  follow the ones done, without those of the message that the register has not seen yet (`Window`).
  A round of the table moves the window by a bit (`HalvedWindow`), and since the rounds touch the high
  bits only by shifting them (`SplitRound`), a look at the table and a shift of 8 are 8 rounds of
  the whole register (`WordSteps`).
- **The stack.** `Inv` says for each phase what the block holds: `Fresh`; `NoItems` (the child died
  before `init_shm_stack` was through); `Filling` (as many items as `pos` counts are `Stored`, and
  behind them nothing was ever written, `Unwritten`); `Emptying` (n items, and what was popped of them).
  After a torn push `pos` counts one more than was pushed, so n is one more and its `Item` is the zero
  of a word nobody wrote: `TornStep` makes it so, `TornContents` shows that the abstract stack has not
  changed, and `WhatIsLeft` that the parent that comes through has popped all n. The refinement proofs show that each step appends one item, removes the last, or changes
  nothing that the abstract stack sees.
- **forkN.** `Known` (which pids are set), `Settled` (workers whose turn is over are gone, and the
  printed lines are, in ascending order and so once each, exactly those that exited), `Ended`.
- **sem_simple.** `Token` (where the one token is, by the control of the two processes) and
  `Complete` (whenever the parent may read, everything is written). For the segments `Leaving`
  says who has let go of what, and `MarkedIsUsed` that a marked one is still attached by somebody.
- **HandOff.** `Inv` says which program has which process where (`Stages`), that nothing is there
  before the worker starts (`Fresh`), what the segment holds (`Contents`: between the `memcpy` and the
  update of `size` it is ahead of `size`, and stays so if the child is killed there), that what was
  taken is still what is there (`Taken`), and who has the segment (`Kernel`). For the mailbox each
  step is one of `Gives`, `Closes`, `Takes` and `Passes`, and `VisibleIsResult` shows that what the
  parent can see is what the worker wrote, for a string as for a `size`.

Only model-checked: the liveness properties (`TerminatesUnlessStalled`, `PathEnds`, `Terminates`,
`NoZombieStays`, `Ends`, `EndsUnlessStalled`), which the proof system does not do, and that `Next` and
its fairness let a process that is not blocked move (ENABLED, the same). Every invariant, action property and
refinement of a passing run has a theorem. Those about the ring beyond types, tokens and
`AloneInCatpng` assume one producer and one consumer, which is what the program forks.

## Disagreements

Each is the one property of a run that TLC refutes.

| run | the repository says | the code does |
|---|---|---|
| `all_parts` | catpng is "compressing data of all PNG" (`paster2.c:341`) | the consumer loops on the parts fetched, not consumed, and leaves while up to `buf_size` parts are in the ring |
| `get_data` | "get data from producer" (`paster2.c:279`) | after its first use a slot points into a segment only the consumer has attached; later laps read zeros |
| `strips` | `idat_data` is `[height_all*(width*4+1)]` (`paster2.c:67`) | the offset of a strip is a multiple of the length `mem_inf` returned, which is short for a cut stream: it lands in another part's strip |
| `reports` | "Child cpid[%d]=%d terminated with state: %d." if `WIFEXITED` (`paster2.c:156-157`) | pids are never stored and `state` is never set; lines are printed for every child or none, whatever became of them |
| `shmstruct_layout` | "the items field points to the memory right after it" (`starter/shm/shm_stack.c:17-20`) | pointer arithmetic counts structs: items are 256 bytes in, outside the 28 bytes asked for |

Observed while reading and not checked: `get_cURL` puts the number of the *server* into the URL
as the image number (`cURL.c:149`), so one run asks for parts of three images. Which image a
part is of is not in the model. `catpng` passes `mem_def` an array of `*length_all` bytes
(`paster2.c:334`), which is 0 when nothing arrived, where `zutil.c:18-19` asks for one "big
enough to hold the deflated data"; `Catpng` lets the parent abort when it is too short.
`retrieve_chunk` reads the CRC of a chunk and nothing ever compares it (`crc.c:93`).
`lab_png.c` reads the bit depth and the color type from bytes 9 and 10 of the header's data,
where a PNG has them at 8 and 9; no program links it.

## What is not modelled

- `worker` and `write_chunk_to_file` of `paster2.c`, which nothing calls, and the part of `catpng`
  that is commented out.
- `sem_destroy` and `pthread_mutex_destroy` in each child's cleanup: they change nothing a
  process can see in the C library the course uses. A segment marked for removal stays until
  the last detach, so the removals by the first child to finish are harmless too.
- Failures of `shmget` and `shmat` in paster2, which are not tested there, and the limit on
  segments: they are counted nowhere in the code.
- In `zutil.c` the return of `Z_MEM_ERROR`, and `zerr`, which prints. Within `PartStrip`'s level the
  ring knows only the results that `StripPath` shows.
- What else a consumer that survives an overflow of `temp_data` finds changed: the cells behind the
  array hold no variable of the model. A slot, a semaphore or an index is not among them (they lie in
  segments and globals), but `temp` and the return address are; of a changed return address the
  model has the death.
- The part of a page behind a segment: `retrieve_chunk`'s copy out of a segment is a fault in `StripPath`,
  although the rest of its last page is mapped. A copy of a strip beyond the image may be either. Only `ShmStruct` has mappings longer than the segment,
  since there the program works because of it.
- `lab_png.c`: two pure functions that no program links or calls. `zombie.c`: timing only; the zombie
  it shows is a state of `ForkN`. The scripts in `tools/`: no state of their own.
- In `SemSimple` the aborts after a failing call other than `fork`, before the fork and after it. In
  `ShmStruct` a parent that is killed, and a `shmdt` or `shmctl` that fails.
- In the programs of `HandOff` the aborts after a failed `shmdt` or `shmctl`, which cannot fail for a
  process that attached and made the segment, and `g_val` of `shm_simple.c`, which is only printed.
- With two or more producers only what the theorems and the `many` run say: `counter` and the
  indices then race, the parts are no longer each fetched once, and the program as it stands
  forks one.

## The plan

Written in this order, the most important behaviour first: `PartTransfer`, `Paster2`, `PartStream` and
`Paster2Stream`, `Paster2Claims`; `GetCurl`; `BoundedStack`, `ShmStack`, `ShmStruct`; `ForkN`; `SemSimple`;
`PartStrip`, `StripPath`, `Crc`; `Mailbox`, `HandOff`; the proofs of each behind it.

What would come next:

1. Two producers: how far the ring is from an in-order stream when the counter and the indices
   race, as a weaker abstract specification than `PartStream`.
2. The second loop of `zutil.c` against its counterpart: that what `mem_def` wrote is what `mem_inf`
   would read, once something reads it. Today the file is not written.

New components share runs with the existing ones where they share a configuration, so that
the number of runs stays about a dozen, one per question.

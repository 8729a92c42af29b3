------------------------------ MODULE ShmStruct ------------------------------
(***************************************************************************)
(* starter/shm/shm_struct.c: test_local fills and empties a stack of its   *)
(* own; then test_shm makes a segment, the child initializes a stack in it *)
(* and fills it, and the parent, after waitpid, empties it.                *)
(*                                                                         *)
(* The two attach the segment at the same address, as the layout of their  *)
(* address spaces is the same after the fork, so items, which is a pointer *)
(* of the child, means the same to the parent.                             *)
(*                                                                         *)
(* Somebody may kill the child, at any of its instructions.  The steps of  *)
(* init_shm_stack and of push are one where the process lives, as nobody   *)
(* else looks at the segment until it has ended.                           *)
(***************************************************************************)
EXTENDS ShmStack, Sequences

CONSTANTS
  STACK_SIZE,    \* 3 in the program
  MAPPINGS,      \* how many ints the kernel may map for a block: whole pages
  LOCAL_START, SHM_START  \* the first items pushed, 0xFF00 and 0xABCD

ASSUME StructAssumption ==
  /\ STACK_SIZE \in Nat \ {0}
  /\ MAPPINGS \subseteq Nat
  /\ \A n \in MAPPINGS : sizeof_shm_stack(STACK_SIZE) <= n
  /\ LOCAL_START \in Int /\ SHM_START \in Int

\* The two blocks of memory: of malloc, and of shmget.
Blocks  == {"heap", "shm"}
Offsets == UNION {0 .. n - 1 : n \in MAPPINGS}

VARIABLES
  stack,           \* the ISTACK at the start of each block
  word,            \* the ints of each block
  pushes, popped,  \* loop counter of push_all, what pop_all printed
  parent, child,   \* control
  segment,         \* the kernel's view of the segment
  attached,        \* the processes that have it attached
  mapped           \* how many ints of it, and of the block of malloc, are mapped

memory == <<stack, word>>
loops  == <<pushes, popped>>
kernel == <<segment, attached, mapped>>
vars   == <<memory, loops, parent, child, kernel>>

\* An address that a load or a store may use.
IsMapped(o) == o \in 0 .. mapped - 1

Start(b) == IF b = "heap" THEN LOCAL_START ELSE SHM_START

-----------------------------------------------------------------------------
(* One call of push or pop, as push_all and pop_all make them. *)

\* push() on a stack that is not full: the item goes to items[++pos].
PushItem(b) ==
  /\ ~is_full(stack[b]) /\ IsMapped(Top(stack[b]) + 1)
  /\ stack' = [stack EXCEPT ![b].pos = @ + 1]
  /\ word' = [word EXCEPT ![b][Top(stack[b]) + 1] = Start(b) - pushes[b]]
  /\ pushes' = [pushes EXCEPT ![b] = @ + 1]
  /\ UNCHANGED <<popped, kernel>>

\* Mutant: the item is stored at the old pos, which is incremented after that.
PushTornLate(b) ==
  /\ ~is_full(stack[b])
  /\ word' = [word EXCEPT ![b][Top(stack[b])] = Start(b) - pushes[b]]
  /\ UNCHANGED <<stack, loops, segment, mapped>>

\* push() of a process that dies when it has incremented pos, before the store.
PushTorn(b) ==
  /\ ~is_full(stack[b])
  /\ stack' = [stack EXCEPT ![b].pos = @ + 1]
  /\ UNCHANGED <<word, loops, segment, mapped>>

\* push() returns -1, which ends push_all.
PushRefused(b) == is_full(stack[b]) /\ UNCHANGED <<memory, loops, kernel>>

\* Mutant: the item is looked for where the next one would go.
PopItemAbove(b) ==
  /\ ~is_empty(stack[b]) /\ stack[b].items # NULL /\ IsMapped(Top(stack[b]) + 1)
  /\ popped' = [popped EXCEPT ![b] = Append(@, word[b][Top(stack[b]) + 1])]
  /\ stack' = [stack EXCEPT ![b].pos = @ - 1]
  /\ UNCHANGED <<word, pushes, kernel>>

\* pop() on a stack that is not empty: items[pos--].
PopItem(b) ==
  /\ ~is_empty(stack[b]) /\ stack[b].items # NULL /\ IsMapped(Top(stack[b]))
  /\ popped' = [popped EXCEPT ![b] = Append(@, word[b][Top(stack[b])])]
  /\ stack' = [stack EXCEPT ![b].pos = @ - 1]
  /\ UNCHANGED <<word, pushes, kernel>>

\* pop() reads from an address that is not mapped, NULL for instance.
PopFaults(b) ==
  /\ ~is_empty(stack[b]) /\ (stack[b].items = NULL \/ ~IsMapped(Top(stack[b])))
  /\ UNCHANGED <<memory, loops, segment, mapped>>

\* pop() returns 1, which ends pop_all.
PopRefused(b) == is_empty(stack[b]) /\ UNCHANGED <<memory, loops, kernel>>

-----------------------------------------------------------------------------
(* test_local() *)

\* create_stack, whose malloc may fail.
LocalCreate ==
  /\ parent = "create"
  /\ \/ stack' = [stack EXCEPT !["heap"] = create_stack(STACK_SIZE)] /\ parent' = "push"
     \/ UNCHANGED stack /\ parent' = "abort"
  /\ UNCHANGED <<word, loops, child, kernel>>

LocalPush ==
  /\ parent = "push"
  /\ \/ PushItem("heap") /\ UNCHANGED parent
     \/ PushRefused("heap") /\ parent' = "pop"
  /\ UNCHANGED child

\* pop_all, and destroy_stack at its end.
LocalPop ==
  /\ parent = "pop"
  /\ \/ PopItem("heap") /\ UNCHANGED parent
     \/ PopRefused("heap") /\ parent' = "shmget"
  /\ UNCHANGED child

-----------------------------------------------------------------------------
(* test_shm() *)

\* A call that fails makes the process abort.
Shmget ==
  /\ parent = "shmget"
  /\ \/ segment' = "live" /\ parent' = "fork"
     \/ UNCHANGED segment /\ parent' = "abort"
  /\ UNCHANGED <<memory, loops, child, attached, mapped>>

Fork ==
  /\ parent = "fork"
  /\ \/ child' = "attach" /\ parent' = "attach"
     \/ UNCHANGED child /\ parent' = "abort"
  /\ UNCHANGED <<memory, loops, kernel>>

ParentAttach ==
  /\ parent = "attach"
  /\ \/ attached' = attached \cup {"parent"} /\ parent' = "waitpid"
     \/ UNCHANGED attached /\ parent' = "abort"
  /\ UNCHANGED <<memory, loops, child, segment, mapped>>

\* Mutant: WNOHANG.
WaitpidNoHang ==
  /\ parent = "waitpid"
  /\ parent' = "pop_all"
  /\ UNCHANGED <<memory, loops, child, kernel>>

\* Mutant: waits again unless the child has exited normally.
WaitpidForExit ==
  /\ parent = "waitpid" /\ child = "exit"
  /\ parent' = "pop_all"
  /\ UNCHANGED <<memory, loops, child, kernel>>

\* The status of the child is not looked at.
Waitpid ==
  /\ parent = "waitpid" /\ child \in {"exit", "abort", "killed", "torn"}
  /\ parent' = "pop_all"
  /\ UNCHANGED <<memory, loops, child, kernel>>

ParentPop ==
  /\ parent = "pop_all"
  /\ \/ PopItem("shm") /\ UNCHANGED parent
     \/ PopRefused("shm") /\ parent' = "detach"
     \/ PopFaults("shm") /\ parent' = "fault" /\ attached' = attached \ {"parent"}
  /\ UNCHANGED child

ParentDetach ==
  /\ parent = "detach"
  /\ attached' = attached \ {"parent"}
  /\ parent' = "rmid"
  /\ UNCHANGED <<memory, loops, child, segment, mapped>>

\* shmctl(IPC_RMID): nobody has it attached any more.
Rmid ==
  /\ parent = "rmid"
  /\ segment' = IF attached = {} THEN "gone" ELSE "marked"
  /\ parent' = "done"
  /\ UNCHANGED <<memory, loops, child, attached, mapped>>

-----------------------------------------------------------------------------
(* The child *)

ChildAttach ==
  /\ child = "attach"
  /\ \/ attached' = attached \cup {"child"} /\ child' = "init"
     \/ UNCHANGED attached /\ child' = "abort"
  /\ UNCHANGED <<memory, loops, parent, segment, mapped>>

ChildInit ==
  /\ child = "init"
  /\ stack' = [stack EXCEPT !["shm"] = init_shm_stack(STACK_SIZE)]
  /\ child' = "push_all"
  /\ UNCHANGED <<word, loops, parent, kernel>>

ChildDies(how) == child' = how /\ attached' = attached \ {"child"}

\* The store is to an address that is not mapped.
PushFaults == /\ ~IsMapped(Top(stack["shm"]) + 1)
              /\ PushTorn("shm") /\ ChildDies("torn")

ChildPush ==
  /\ child = "push_all"
  /\ \/ PushItem("shm") /\ UNCHANGED child
     \/ PushRefused("shm") /\ child' = "detach"
     \/ PushFaults
  /\ UNCHANGED parent

ChildDetach ==
  /\ child = "detach"
  /\ attached' = attached \ {"child"}
  /\ child' = "exit"
  /\ UNCHANGED <<memory, loops, parent, segment, mapped>>

\* A signal, between two of the steps above,
Killed ==
  /\ child \in {"attach", "init", "push_all", "detach"}
  /\ ChildDies("killed")
  /\ UNCHANGED <<memory, loops, parent, segment, mapped>>

\* between two stores of init_shm_stack,
KilledInInit ==
  /\ child = "init"
  /\ \E half \in half_init(STACK_SIZE) : stack' = [stack EXCEPT !["shm"] = half]
  /\ ChildDies("killed")
  /\ UNCHANGED <<word, loops, parent, segment, mapped>>

\* or between the two of push.
KilledInPush ==
  /\ child = "push_all" /\ PushTorn("shm")
  /\ ChildDies("torn")
  /\ UNCHANGED parent

-----------------------------------------------------------------------------
Init ==
  /\ stack = [b \in Blocks |-> ZeroStack]
  /\ word = [b \in Blocks |-> [o \in Offsets |-> 0]]
  /\ pushes = [b \in Blocks |-> 0]
  /\ popped = [b \in Blocks |-> <<>>]
  /\ parent = "create" /\ child = "none"
  /\ segment = "none" /\ attached = {} /\ mapped \in MAPPINGS

ParentStep ==
  \/ LocalCreate \/ LocalPush \/ LocalPop \/ Shmget \/ Fork \/ ParentAttach
  \/ Waitpid \/ ParentPop \/ ParentDetach \/ Rmid

ChildStep == ChildAttach \/ ChildInit \/ ChildPush \/ ChildDetach

SomebodyKills == Killed \/ KilledInInit \/ KilledInPush

ParentEnded == parent \in {"done", "abort", "fault"}
ChildEnded  == child \in {"none", "exit", "abort", "killed", "torn"}

Terminated == ParentEnded /\ ChildEnded /\ UNCHANGED vars

Next == ParentStep \/ ChildStep \/ SomebodyKills \/ Terminated

Spec == Init /\ [][Next]_vars

\* Both processes are scheduled; waitpid returns once the child has ended.  That
\* somebody kills the child is never owed.
FairSpec == Spec /\ WF_vars(ParentStep) /\ WF_vars(ChildStep)

-----------------------------------------------------------------------------
(* Properties *)

TypeOK ==
  /\ stack \in [Blocks -> ISTACK] /\ word \in [Blocks -> [Offsets -> Int]]
  /\ pushes \in [Blocks -> 0 .. STACK_SIZE] /\ popped \in [Blocks -> Seq(Int)]
  /\ parent \in {"create", "push", "pop", "shmget", "fork", "attach", "waitpid",
                 "pop_all", "detach", "rmid", "done", "abort", "fault"}
  /\ child \in {"none", "attach", "init", "push_all", "detach",
                "exit", "abort", "killed", "torn"}
  /\ segment \in {"none", "live", "marked", "gone"}
  /\ attached \subseteq {"parent", "child"} /\ mapped \in MAPPINGS

\* What pos counts and was stored: pos counts one more in a segment of zeros, and
\* when a push was torn.
Depth(b) == IF stack[b].pos < pushes[b] THEN stack[b].pos + 1 ELSE pushes[b]

\* What is in the stack of a block, the top last.
Contents(b) == [k \in 1 .. Depth(b) |-> word[b][stack[b].items + k - 1]]

Pushed(b) == {Start(b) - k : k \in 0 .. STACK_SIZE - 1}

Heap == INSTANCE BoundedStack
          WITH Capacity <- STACK_SIZE, Items <- Pushed("heap"), stack <- Contents("heap")
Shm  == INSTANCE BoundedStack
          WITH Capacity <- STACK_SIZE, Items <- Pushed("shm"), stack <- Contents("shm")

\* The struct, the words behind items and the processes' loops behave as a stack
\* of STACK_SIZE items: that of malloc, and that which two processes share.  A
\* process that dies in a call leaves it as it was before, and the pop of an item
\* that was counted and not stored takes nothing from it.
HeapIsStack == Heap!Spec
ShmIsStack  == Shm!Spec

\* The parent that gets to the end after a child that did so has popped exactly
\* what the child pushed, all of it and the last first, from the memory they share.
ParentGetsAllInReverse ==
  child = "exit" /\ parent \in {"detach", "rmid", "done"} =>
    popped["shm"] = [k \in 1 .. STACK_SIZE |-> SHM_START - (STACK_SIZE - k)]

\* No push after, or during, the pops: waitpid is all the synchronization.
PopsAfterPushes ==
  [][stack'["shm"].pos < stack["shm"].pos /\ stack["shm"].size # 0
     => ChildEnded]_vars

\* The parent's crash in pop_all has a cause in the child, whose status it ignores:
\* it died before it had set up the items of the segment, whose pos reads as 0, or
\* in a push beyond the mapping, and then none of the items stored comes out.
FaultMeansNoChild ==
  parent = "fault" =>
    \/ /\ child \in {"abort", "killed"} /\ pushes["shm"] = 0
       /\ stack["shm"].pos = 0 /\ stack["shm"].items = NULL
    \/ child = "torn" /\ popped["shm"] = <<>> /\ ~IsMapped(Top(stack["shm"]))

\* What was pushed onto the stack of a block, the last first.
LastFirst(b) == [k \in 1 .. pushes[b] |-> Start(b) - (pushes[b] - k)]

\* A child that dies inside push(), pos incremented and the item not stored, makes
\* a parent that comes through pop one item that nobody pushed, as the first.  That
\* is all a death of the child can do to such a parent: the items that were stored
\* come out, each once.
TornPushPopsOneMore ==
  parent \in {"detach", "rmid", "done"} =>
    popped["shm"] = (IF child = "torn" THEN <<0>> ELSE <<>>) \o LastFirst("shm")

\* Both processes come to an end, waiting for each other or not.
Terminates == <>(ParentEnded /\ ChildEnded)

\* The words of a block that hold items of its stack.
ItemsOf(b) == {stack[b].items + k - 1 : k \in 1 .. Depth(b)}

InBlock(b) ==
  stack[b].size # 0 =>
    \A o \in ItemsOf(b) : STRUCT <= o /\ o < sizeof_shm_stack(STACK_SIZE)

\* create_stack's items are inside the block it has allocated, after the struct.
HeapInBlock == InBlock("heap")

-----------------------------------------------------------------------------
(* Refuted by the code. *)

\* "the items field points to the memory right after it", "in one continuous
\* chunk of memory" (shm_stack.c:17-20): so it is for a stack in a segment.
ShmInBlock == InBlock("shm")
=============================================================================

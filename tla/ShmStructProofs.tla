--------------------------- MODULE ShmStructProofs ---------------------------
(***************************************************************************)
(* Theorems of ShmStruct, for every size of the stack, layout of the       *)
(* structure and size of the mapping.                                      *)
(***************************************************************************)
EXTENDS ShmStruct, TLAPS

\* Where init_shm_stack puts items.
Far == STRUCT * STRUCT * INT

-----------------------------------------------------------------------------
(***************************************************************************)
(* The inductive invariant: what is in a block while its stack is filled   *)
(* and while it is emptied, tied to the control of the two processes.      *)
(***************************************************************************)
\* The segment as shmget makes it.
Fresh(b) ==
  /\ stack[b] = ZeroStack /\ pushes[b] = 0 /\ popped[b] = <<>>
  /\ \A o \in Offsets : word[b][o] = 0

\* No items yet: what a child leaves that dies before init_shm_stack is through.
NoItems(b) ==
  /\ stack[b].items = NULL /\ stack[b].pos \in {-1, 0}
  /\ pushes[b] = 0 /\ popped[b] = <<>>

Setup(b, items) ==
  /\ stack[b].size = STACK_SIZE /\ stack[b].items = items
  /\ stack[b].pos \in -1 .. STACK_SIZE - 1

\* Item k of the stack: the k-th item pushed, or the one of a torn push.
Item(b, k) == IF k < pushes[b] THEN Start(b) - k ELSE 0

\* The words below pos hold the items, those of the items pushed are mapped.
Stored(b) ==
  \A k \in 0 .. stack[b].pos :
    /\ k < pushes[b] => IsMapped(stack[b].items + k)
    /\ IsMapped(stack[b].items + k) => word[b][stack[b].items + k] = Item(b, k)

\* Nothing was written where the next items go.
Unwritten(b, items) == \A o \in Offsets : o >= items + pushes[b] => word[b][o] = 0

Filling(b, items) ==
  /\ Setup(b, items) /\ Stored(b) /\ Unwritten(b, items)
  /\ pushes[b] = stack[b].pos + 1 /\ popped[b] = <<>>

\* A stack of n items is being emptied.
Emptying(b, items, n) ==
  /\ Setup(b, items) /\ Stored(b) /\ n \in Nat
  /\ Len(popped[b]) = n - 1 - stack[b].pos
  /\ \A k \in 1 .. Len(popped[b]) : popped[b][k] = Item(b, n - k)

HeapInv ==
  /\ parent = "create" => Fresh("heap")
  /\ parent = "push" => Filling("heap", STRUCT)
  /\ parent = "pop" => Emptying("heap", STRUCT, pushes["heap"])
  /\ stack["heap"].size # 0 => Setup("heap", STRUCT)

\* A torn push makes pos count one more than pushes does.
ShmInv ==
  /\ child \in {"none", "attach", "init", "abort"} => Fresh("shm")
  /\ child = "push_all" => Filling("shm", Far)
  /\ child \in {"detach", "exit"} =>
       Emptying("shm", Far, pushes["shm"]) /\ pushes["shm"] = STACK_SIZE
  /\ child = "killed" => NoItems("shm") \/ Emptying("shm", Far, pushes["shm"])
  /\ child = "torn" => Emptying("shm", Far, pushes["shm"] + 1)

Control ==
  /\ parent \in {"create", "push", "pop", "shmget", "fork"} => child = "none"
  /\ parent = "pop_all" => child \in {"exit", "abort", "killed", "torn"}
  /\ parent \in {"detach", "rmid", "done"} =>
       child \in {"exit", "killed", "torn"} /\ stack["shm"].pos = -1
  /\ FaultMeansNoChild

Inv == TypeOK /\ HeapInv /\ ShmInv /\ Control

-----------------------------------------------------------------------------
(* What push and pop do to a block that is set up. *)

LEMMA Sizes ==
  /\ STRUCT \in Nat /\ STRUCT > 0 /\ Far \in Nat /\ Far > 0
  /\ STACK_SIZE \in Nat /\ STACK_SIZE > 0
  /\ \A b \in Blocks : Start(b) \in Int
BY LayoutAssumption, StructAssumption DEF Far, Start

LEMMA MappedExists ==
  ASSUME TypeOK, NEW o, IsMapped(o)
  PROVE  o \in Offsets
BY DEF TypeOK, IsMapped, Offsets

LEMMA OffsetsAreNat == ASSUME NEW o \in Offsets PROVE o \in Nat
BY StructAssumption DEF Offsets

LEMMA PushFills ==
  ASSUME TypeOK, NEW b \in Blocks, NEW items \in Nat,
         Filling(b, items), PushItem(b)
  PROVE  Filling(b, items)' /\ stack' \in [Blocks -> ISTACK]
         /\ word' \in [Blocks -> [Offsets -> Int]]
         /\ pushes' \in [Blocks -> 0 .. STACK_SIZE]
<1> DEFINE p == stack[b].pos
<1>1. stack[b] \in ISTACK /\ p \in -1 .. STACK_SIZE - 2 /\ stack[b].items = items
  <2>1. stack[b] \in ISTACK
    BY DEF TypeOK
  <2>2. /\ stack[b].size = STACK_SIZE /\ stack[b].items = items
        /\ p \in -1 .. STACK_SIZE - 1 /\ p # stack[b].size - 1
    BY DEF Filling, Setup, PushItem, is_full
  <2> QED BY <2>1, <2>2, Sizes
<1> DEFINE new == [stack[b] EXCEPT !.pos = p + 1]
<1>a. stack \in [Blocks -> ISTACK] /\ stack' = [stack EXCEPT ![b] = new]
  BY DEF TypeOK, PushItem
<1>b. new \in ISTACK /\ new.size = stack[b].size /\ new.items = items /\ new.pos = p + 1
  BY <1>1 DEF ISTACK
<1> HIDE DEF new
<1>2. stack'[b] = new /\ stack' \in [Blocks -> ISTACK]
  BY <1>a, <1>b
<1>3. stack'[b].size = STACK_SIZE /\ stack'[b].items = items /\ stack'[b].pos = p + 1
  BY <1>b, <1>2 DEF Filling, Setup
<1>4. /\ Top(stack[b]) + 1 = items + (p + 1) /\ IsMapped(items + (p + 1))
      /\ items + (p + 1) \in Offsets
      /\ pushes[b] = p + 1 /\ Start(b) \in Int /\ Start(b) - pushes[b] \in Int
  <2>1. Start(b) \in Int /\ pushes[b] = p + 1 /\ p + 1 \in Int
    BY <1>1, Sizes DEF Filling
  <2>2. Top(stack[b]) + 1 = items + (p + 1) /\ IsMapped(Top(stack[b]) + 1)
    BY <1>1, Sizes DEF PushItem, Top
  <2> QED BY <2>1, <2>2, MappedExists
<1>5. /\ word' \in [Blocks -> [Offsets -> Int]]
      /\ word'[b] = [word[b] EXCEPT ![items + (p + 1)] = Start(b) - (p + 1)]
  <2>1. word \in [Blocks -> [Offsets -> Int]]
    BY DEF TypeOK
  <2>2. word' = [word EXCEPT ![b] = [word[b] EXCEPT ![items + (p + 1)] = Start(b) - (p + 1)]]
    BY <1>4 DEF PushItem
  <2>3. [word[b] EXCEPT ![items + (p + 1)] = Start(b) - (p + 1)] \in [Offsets -> Int]
    BY <1>4, <2>1
  <2> QED BY <2>1, <2>2, <2>3
<1>6. Setup(b, items)'
  BY <1>1, <1>3, Sizes DEF Setup
<1>7. pushes' \in [Blocks -> 0 .. STACK_SIZE] /\ pushes'[b] = p + 2
  <2>1. pushes' = [pushes EXCEPT ![b] = pushes[b] + 1]
    BY DEF PushItem
  <2>2. pushes[b] + 1 = p + 2 /\ p + 2 \in 0 .. STACK_SIZE
    BY <1>1, <1>4, Sizes
  <2>3. pushes \in [Blocks -> 0 .. STACK_SIZE]
    BY DEF TypeOK
  <2> QED BY <2>1, <2>2, <2>3
<1>8. Stored(b)'
  <2> SUFFICES ASSUME NEW k \in 0 .. p + 1
               PROVE  IsMapped(items + k)' /\ word'[b][items + k] = Start(b) - k
    BY <1>1, <1>3, <1>7 DEF Stored, Start, IsMapped, Item
  <2>m. mapped' = mapped
    BY DEF PushItem, kernel
  <2>1. CASE k = p + 1
    BY <1>4, <1>5, <2>1, <2>m DEF TypeOK, IsMapped
  <2>2. CASE k \in 0 .. p
    <3>1. IsMapped(items + k) /\ word[b][items + k] = Start(b) - k
      BY <1>1, <1>4, <2>2 DEF Filling, Stored, Item
    <3>2. items + k \in Offsets /\ items + k # items + (p + 1)
      BY <1>1, <2>2, <3>1, MappedExists
    <3> QED BY <1>5, <2>m, <3>1, <3>2 DEF TypeOK, IsMapped
  <2> QED BY <1>1, <2>1, <2>2
<1>10. Unwritten(b, items)'
  <2> SUFFICES ASSUME NEW o \in Offsets, o >= items + (p + 2)
               PROVE  word'[b][o] = 0
    BY <1>7 DEF Unwritten
  <2>1. o # items + (p + 1) /\ o >= items + pushes[b]
    BY <1>1, <1>4, OffsetsAreNat
  <2> QED BY <1>5, <2>1 DEF TypeOK, Filling, Unwritten
<1>9. popped'[b] = <<>>
  BY DEF PushItem, Filling
<1> QED BY <1>1, <1>2, <1>3, <1>5, <1>6, <1>8, <1>7, <1>9, <1>10 DEF Filling

LEMMA PopEmpties ==
  ASSUME TypeOK, NEW b \in Blocks, NEW items \in Nat, NEW n \in Nat,
         Emptying(b, items, n), PopItem(b)
  PROVE  Emptying(b, items, n)' /\ stack' \in [Blocks -> ISTACK]
         /\ popped' \in [Blocks -> Seq(Int)]
<1> DEFINE p == stack[b].pos
           x == word[b][items + p]
<1>1. stack[b] \in ISTACK /\ p \in 0 .. STACK_SIZE - 1 /\ stack[b].items = items
  <2>1. stack[b] \in ISTACK
    BY DEF TypeOK
  <2>2. p \in -1 .. STACK_SIZE - 1 /\ p # -1 /\ stack[b].items = items
    BY DEF Emptying, Setup, PopItem, is_empty
  <2> QED BY <2>1, <2>2, Sizes
<1> DEFINE new == [stack[b] EXCEPT !.pos = p - 1]
<1>a. stack \in [Blocks -> ISTACK] /\ stack' = [stack EXCEPT ![b] = new]
  BY DEF TypeOK, PopItem
<1>b. new \in ISTACK /\ new.size = stack[b].size /\ new.items = items /\ new.pos = p - 1
  BY <1>1 DEF ISTACK
<1> HIDE DEF new
<1>2. stack'[b] = new /\ stack' \in [Blocks -> ISTACK]
  BY <1>a, <1>b
<1>3. stack'[b].size = STACK_SIZE /\ stack'[b].items = items /\ stack'[b].pos = p - 1
  BY <1>b, <1>2 DEF Emptying, Setup
<1>4. x = Item(b, p) /\ x \in Int
  <2>1. p \in 0 .. stack[b].pos /\ IsMapped(stack[b].items + p)
    BY <1>1 DEF PopItem, Top
  <2>2. word[b][stack[b].items + p] = Item(b, p)
    BY <2>1 DEF Emptying, Stored
  <2>3. pushes[b] \in Int /\ Start(b) \in Int
    BY Sizes DEF TypeOK
  <2> QED BY <1>1, <2>2, <2>3 DEF Item
<1>s. pushes' = pushes /\ \A k : Item(b, k)' = Item(b, k)
  BY DEF PopItem, Item, Start
<1>5. popped[b] \in Seq(Int) /\ popped'[b] = Append(popped[b], x)
      /\ popped' \in [Blocks -> Seq(Int)]
  BY <1>1, <1>4 DEF TypeOK, PopItem, Top
<1>6. /\ Len(popped'[b]) = n - p
      /\ \A k \in 1 .. Len(popped'[b]) : popped'[b][k] = Item(b, n - k)
  <2>1. Len(popped'[b]) = Len(popped[b]) + 1
    BY <1>5
  <2>2. Len(popped[b]) = n - 1 - p
    BY DEF Emptying
  <2>3. ASSUME NEW k \in 1 .. Len(popped'[b])
        PROVE  popped'[b][k] = Item(b, n - k)
    <3>1. CASE k = Len(popped'[b])
      <4>1. popped'[b][k] = x
        BY <1>5, <2>1, <3>1
      <4>2. n - k = p
        <5>1. p \in Int /\ k = (n - 1 - p) + 1
          BY <1>1, <2>1, <2>2, <3>1, Sizes
        <5> HIDE DEF p
        <5> QED BY <5>1
      <4> QED BY <1>4, <4>1, <4>2
    <3>2. CASE k \in 1 .. Len(popped[b])
      <4>1. popped'[b][k] = popped[b][k]
        BY <1>5, <3>2
      <4> QED BY <3>2, <4>1 DEF Emptying
    <3>3. Len(popped[b]) \in Nat
      BY <1>5
    <3> QED BY <2>1, <3>1, <3>2, <3>3
  <2>4. n - p = (n - 1 - p) + 1
    BY <1>1, Sizes
  <2> QED BY <2>1, <2>2, <2>3, <2>4
<1>7. Setup(b, items)'
  BY <1>1, <1>3, Sizes DEF Setup
<1>8. Stored(b)'
  <2>1. word' = word /\ mapped' = mapped /\ pushes'[b] = pushes[b]
    BY <1>s DEF PopItem, kernel
  <2>2. Stored(b) /\ \A k \in 0 .. p - 1 : k \in 0 .. p
    BY <1>1 DEF Emptying
  <2> QED BY <1>1, <1>3, <1>s, <2>1, <2>2 DEF Stored, IsMapped
<1>9. Len(popped'[b]) = n - 1 - stack'[b].pos
  <2>1. p \in Int /\ stack'[b].pos = p - 1 /\ Len(popped'[b]) = n - p
    BY <1>1, <1>3, <1>6, Sizes
  <2> HIDE DEF p
  <2> QED BY <2>1
<1>10. Emptying(b, items, n)'
  BY <1>6, <1>7, <1>8, <1>9, <1>s DEF Emptying
<1> QED BY <1>2, <1>5, <1>10

\* A stack that no more is pushed to, full or not, is ready to be emptied.
LEMMA FilledIsReady ==
  ASSUME TypeOK, NEW b \in Blocks, NEW items, Filling(b, items)
  PROVE  Emptying(b, items, pushes[b]) /\ (is_full(stack[b]) => pushes[b] = STACK_SIZE)
<1>1. pushes[b] \in Nat /\ stack[b].pos = pushes[b] - 1
  BY Sizes DEF TypeOK, Filling, Setup
<1> QED BY <1>1, Sizes DEF Filling, Emptying, is_full, Setup

\* After a torn push, too: its item reads as 0, if it can be read.
LEMMA TornIsReady ==
  ASSUME TypeOK, NEW b \in Blocks, NEW items \in Nat, Filling(b, items), PushTorn(b)
  PROVE  Emptying(b, items, pushes[b] + 1)' /\ stack' \in [Blocks -> ISTACK]
<1> DEFINE p == stack[b].pos
<1>1. stack[b] \in ISTACK /\ p \in -1 .. STACK_SIZE - 2
  <2>1. stack[b] \in ISTACK
    BY DEF TypeOK
  <2> QED BY <2>1, Sizes DEF Filling, Setup, PushTorn, is_full
<1> DEFINE new == [stack[b] EXCEPT !.pos = p + 1]
<1>2. /\ new \in ISTACK /\ new.pos = p + 1
      /\ new.size = stack[b].size /\ new.items = stack[b].items
  BY <1>1 DEF ISTACK
<1>3. stack' = [stack EXCEPT ![b] = new] /\ stack \in [Blocks -> ISTACK]
  BY DEF PushTorn, TypeOK
<1> HIDE DEF new
<1>4. /\ stack' \in [Blocks -> ISTACK] /\ stack'[b].pos = p + 1
      /\ stack'[b].size = STACK_SIZE /\ stack'[b].items = items
  BY <1>2, <1>3 DEF Filling, Setup
<1>5. UNCHANGED <<word, pushes, popped, mapped>> /\ pushes[b] = p + 1 /\ popped[b] = <<>>
  BY DEF PushTorn, loops, Filling
<1>6. Setup(b, items)'
  BY <1>1, <1>4, Sizes DEF Setup
<1>7. Stored(b)'
  <2> SUFFICES ASSUME NEW k \in 0 .. p + 1
               PROVE  /\ k < pushes[b] => IsMapped(items + k)
                      /\ IsMapped(items + k) => word[b][items + k] = Item(b, k)
    BY <1>4, <1>5 DEF Stored, Item, Start, IsMapped
  <2>1. CASE k \in 0 .. p
    BY <2>1 DEF Filling, Setup, Stored
  <2>2. CASE k = p + 1
    <3>1. IsMapped(items + k) => items + k \in Offsets
      BY MappedExists
    <3> QED BY <1>1, <1>5, <2>2, <3>1 DEF Filling, Unwritten, Item
  <2> QED BY <1>1, <2>1, <2>2
<1>8. Len(popped'[b]) = 0
  BY <1>5
<1> QED BY <1>1, <1>4, <1>5, <1>6, <1>7, <1>8 DEF Emptying

\* A stack that has just been set up.
LEMMA NewIsFilling ==
  ASSUME NEW b \in Blocks, NEW items \in Nat,
         stack[b] = [size |-> STACK_SIZE, pos |-> -1, items |-> items],
         pushes[b] = 0, popped[b] = <<>>, \A o \in Offsets : word[b][o] = 0
  PROVE  Filling(b, items)
BY Sizes DEF Filling, Setup, Stored, Unwritten

\* push and pop in one block leave the other alone.
LEMMA OtherBlock ==
  ASSUME TypeOK, NEW b \in Blocks, NEW c \in Blocks, b # c,
         PushItem(b) \/ PopItem(b) \/ PushTorn(b)
  PROVE  /\ stack'[c] = stack[c] /\ word'[c] = word[c]
         /\ pushes'[c] = pushes[c] /\ popped'[c] = popped[c] /\ mapped' = mapped
<1>1. CASE PushItem(b)
  BY <1>1 DEF PushItem, TypeOK, kernel
<1>2. CASE PopItem(b)
  BY <1>2 DEF PopItem, TypeOK, kernel
<1>3. CASE PushTorn(b)
  BY <1>3 DEF PushTorn, TypeOK, kernel, loops
<1> QED BY <1>1, <1>2, <1>3

\* The invariant of a block speaks of that block alone.
LEMMA SameBlock ==
  ASSUME NEW b \in Blocks, NEW items,
         stack'[b] = stack[b], word'[b] = word[b],
         pushes'[b] = pushes[b], popped'[b] = popped[b], mapped' = mapped
  PROVE  /\ Fresh(b)' <=> Fresh(b)
         /\ Setup(b, items)' <=> Setup(b, items)
         /\ Filling(b, items)' <=> Filling(b, items)
         /\ Emptying(b, items, pushes[b])' <=> Emptying(b, items, pushes[b])
         /\ Emptying(b, items, pushes[b] + 1)' <=> Emptying(b, items, pushes[b] + 1)
         /\ NoItems(b)' <=> NoItems(b)
<1>1. Setup(b, items)' <=> Setup(b, items)
  BY DEF Setup
<1>i. \A k : Item(b, k)' = Item(b, k)
  BY DEF Item, Start
<1>2. Stored(b)' <=> Stored(b)
  BY <1>i DEF Stored, IsMapped
<1>3. Fresh(b)' <=> Fresh(b)
  BY DEF Fresh
<1>4. Filling(b, items)' <=> Filling(b, items)
  BY <1>1, <1>2 DEF Filling, Unwritten
<1>5. \A n : Emptying(b, items, n)' <=> Emptying(b, items, n)
  BY <1>1, <1>2, <1>i DEF Emptying
<1> QED BY <1>1, <1>3, <1>4, <1>5 DEF NoItems

-----------------------------------------------------------------------------
(* The invariant is inductive. *)

LEMMA InitInv == Init => Inv
<1> SUFFICES ASSUME Init PROVE Inv
  OBVIOUS
<1>1. ZeroStack \in ISTACK /\ ZeroStack.size = 0
  BY DEF ZeroStack, ISTACK, NULL
<1>2. TypeOK
  BY <1>1, Sizes DEF Init, TypeOK, Blocks
<1>3. Fresh("heap") /\ Fresh("shm")
  <2>1. \A b \in Blocks : \A o \in Offsets : word[b][o] = 0
    BY DEF Init
  <2> QED BY <2>1 DEF Init, Fresh, Blocks
<1>4. HeapInv /\ ShmInv /\ Control
  BY <1>1, <1>3 DEF Init, HeapInv, ShmInv, Control, Fresh, FaultMeansNoChild
<1> QED BY <1>2, <1>4 DEF Inv

\* The parent's own stack: no step of test_shm touches it.
LEMMA LocalStep ==
  ASSUME Inv, LocalCreate \/ LocalPush \/ LocalPop
  PROVE  Inv'
<1> USE DEF Inv
<1>b. "heap" \in Blocks /\ "shm" \in Blocks /\ "heap" # "shm"
  BY DEF Blocks
<1>1. CASE LocalCreate
  <2>n. create_stack(STACK_SIZE) = [size |-> STACK_SIZE, pos |-> -1, items |-> STRUCT]
        /\ create_stack(STACK_SIZE) \in ISTACK
    BY Sizes DEF create_stack, ISTACK
  <2>1. /\ word' = word /\ pushes' = pushes /\ popped' = popped /\ mapped' = mapped
        /\ stack'["shm"] = stack["shm"] /\ child' = child
        /\ parent = "create" /\ parent' \in {"push", "abort"}
    BY <1>1, <1>b DEF LocalCreate, TypeOK, loops, kernel
  <2>2. TypeOK'
    BY <1>1, <2>n DEF LocalCreate, TypeOK, loops, kernel
  <2>3. HeapInv'
    <3>1. CASE parent' = "push"
      <4>1. stack'["heap"] = create_stack(STACK_SIZE)
        BY <1>1, <1>b, <3>1 DEF LocalCreate, TypeOK
      <4>2. Filling("heap", STRUCT)'
        BY <1>b, <2>1, <2>n, <4>1, NewIsFilling, Sizes
           DEF HeapInv, Fresh, Filling, Setup, Stored, Unwritten
      <4> QED BY <3>1, <4>2 DEF HeapInv, Filling
    <3>2. CASE parent' = "abort"
      BY <1>1, <3>2, <2>1 DEF LocalCreate, HeapInv, Setup
    <3> QED BY <2>1, <3>1, <3>2
  <2>4. ShmInv' /\ Control'
    BY <1>b, <2>1, SameBlock DEF ShmInv, Control, FaultMeansNoChild
  <2> QED BY <2>2, <2>3, <2>4
<1>2. CASE LocalPush
  <2>1. parent = "push" /\ child' = child /\ child = "none" /\ Filling("heap", STRUCT)
    BY <1>2 DEF LocalPush, HeapInv, Control
  <2>2. CASE PushItem("heap") /\ parent' = parent
    <3>1. Filling("heap", STRUCT)' /\ stack' \in [Blocks -> ISTACK]
          /\ word' \in [Blocks -> [Offsets -> Int]]
          /\ pushes' \in [Blocks -> 0 .. STACK_SIZE]
      BY <1>b, <2>1, <2>2, PushFills, Sizes
    <3>2. TypeOK'
      BY <2>1, <2>2, <3>1 DEF TypeOK, PushItem, kernel
    <3>3. HeapInv'
      BY <2>1, <2>2, <3>1 DEF HeapInv, Filling
    <3>4. ShmInv' /\ Control'
      BY <1>b, <2>1, <2>2, OtherBlock, SameBlock DEF ShmInv, Control, FaultMeansNoChild
    <3> QED BY <3>2, <3>3, <3>4
  <2>3. CASE PushRefused("heap") /\ parent' = "pop"
    <3>1. UNCHANGED <<stack, word, pushes, popped, segment, attached, mapped>>
      BY <2>3 DEF PushRefused, memory, loops, kernel
    <3>2. TypeOK'
      BY <2>1, <2>3, <3>1 DEF TypeOK
    <3>3. Emptying("heap", STRUCT, pushes["heap"])
      BY <1>b, <2>1, FilledIsReady
    <3>4. HeapInv' /\ ShmInv' /\ Control'
      BY <1>b, <2>1, <2>3, <3>1, <3>3, SameBlock DEF HeapInv, ShmInv, Control, FaultMeansNoChild
    <3> QED BY <3>2, <3>4
  <2> QED BY <1>2, <2>2, <2>3 DEF LocalPush
<1>3. CASE LocalPop
  <2>1. parent = "pop" /\ child' = child /\ child = "none"
        /\ Emptying("heap", STRUCT, pushes["heap"]) /\ pushes["heap"] \in Nat
    BY <1>b, <1>3, Sizes DEF LocalPop, HeapInv, Control, TypeOK
  <2>2. CASE PopItem("heap") /\ parent' = parent
    <3>1. Emptying("heap", STRUCT, pushes["heap"])' /\ stack' \in [Blocks -> ISTACK]
          /\ popped' \in [Blocks -> Seq(Int)]
      <4>1. pushes' = pushes
        BY <2>2 DEF PopItem
      <4> QED BY <1>b, <2>1, <2>2, <4>1, PopEmpties, Sizes
    <3>2. TypeOK'
      BY <2>1, <2>2, <3>1 DEF TypeOK, PopItem, kernel
    <3>3. HeapInv'
      BY <2>1, <2>2, <3>1 DEF HeapInv, Emptying
    <3>4. ShmInv' /\ Control'
      BY <1>b, <2>1, <2>2, OtherBlock, SameBlock DEF ShmInv, Control, FaultMeansNoChild
    <3> QED BY <3>2, <3>3, <3>4
  <2>3. CASE PopRefused("heap") /\ parent' = "shmget"
    <3>1. UNCHANGED <<stack, word, pushes, popped, segment, attached, mapped>>
      BY <2>3 DEF PopRefused, memory, loops, kernel
    <3>2. TypeOK'
      BY <2>1, <2>3, <3>1 DEF TypeOK
    <3>4. HeapInv' /\ ShmInv' /\ Control'
      BY <1>b, <2>1, <2>3, <3>1, SameBlock DEF HeapInv, ShmInv, Control, FaultMeansNoChild
    <3> QED BY <3>2, <3>4
  <2> QED BY <1>3, <2>2, <2>3 DEF LocalPop
<1> QED BY <1>1, <1>2, <1>3

\* Steps that only move control or the kernel's view of the segment.
LEMMA ControlStep ==
  ASSUME Inv, UNCHANGED <<stack, word, pushes, popped, mapped>>, TypeOK', Control',
         parent' \notin {"create", "push", "pop"},
         \/ child' = child
         \/ child = "none" /\ child' = "attach"
         \/ child = "attach" /\ child' \in {"init", "abort"}
         \/ child = "detach" /\ child' = "exit"
         \/ child \in {"attach", "init", "push_all", "detach"} /\ child' = "killed"
  PROVE  Inv'
<1>b. "heap" \in Blocks /\ "shm" \in Blocks
  BY DEF Blocks
<1>1. HeapInv'
  BY <1>b, SameBlock DEF Inv, HeapInv
<1>2. ShmInv'
  <2>1. CASE child' = "killed" /\ child # "killed"
    <3>1. NoItems("shm") \/ Emptying("shm", Far, pushes["shm"])
      BY <1>b, <2>1, FilledIsReady DEF Inv, ShmInv, Fresh, NoItems, ZeroStack
    <3> QED BY <1>b, <2>1, <3>1, SameBlock DEF ShmInv
  <2>2. CASE child' # "killed" \/ child = "killed"
    BY <1>b, <2>2, SameBlock DEF Inv, ShmInv
  <2> QED BY <2>1, <2>2
<1> QED BY <1>1, <1>2 DEF Inv

LEMMA QuietStep ==
  ASSUME Inv, \/ Shmget \/ Fork \/ ParentAttach \/ Waitpid \/ ParentDetach \/ Rmid
              \/ ChildAttach \/ ChildDetach \/ Killed
  PROVE  Inv'
<1> USE DEF Inv, memory, loops, kernel
<1>1. CASE Shmget \/ Fork \/ ParentAttach
  <2>1. TypeOK' /\ UNCHANGED <<stack, word, pushes, popped, mapped>>
    BY <1>1 DEF TypeOK, Shmget, Fork, ParentAttach
  <2>2. Control' /\ parent' \notin {"create", "push", "pop"}
        /\ (child' = child \/ (child = "none" /\ child' = "attach"))
    BY <1>1 DEF Control, FaultMeansNoChild, Shmget, Fork, ParentAttach
  <2> QED BY <2>1, <2>2, ControlStep
<1>2. CASE Waitpid \/ ParentDetach \/ Rmid
  <2>1. TypeOK' /\ UNCHANGED <<stack, word, pushes, popped, mapped>>
    BY <1>2 DEF TypeOK, Waitpid, ParentDetach, Rmid
  <2>2. Control' /\ parent' \notin {"create", "push", "pop"} /\ child' = child
    BY <1>2 DEF Control, FaultMeansNoChild, Waitpid, ParentDetach, Rmid
  <2> QED BY <2>1, <2>2, ControlStep
<1>3. CASE ChildAttach \/ ChildDetach \/ Killed
  <2>1. TypeOK' /\ UNCHANGED <<stack, word, pushes, popped, mapped>>
    BY <1>3 DEF TypeOK, ChildAttach, ChildDetach, ChildDies, Killed
  <2>2. Control' /\ parent' \notin {"create", "push", "pop"}
    BY <1>3 DEF Control, FaultMeansNoChild, ChildAttach, ChildDetach, ChildDies, Killed
  <2>3. \/ child = "attach" /\ child' \in {"init", "abort"}
        \/ child = "detach" /\ child' = "exit"
        \/ child \in {"attach", "init", "push_all", "detach"} /\ child' = "killed"
    BY <1>3 DEF ChildAttach, ChildDetach, ChildDies, Killed
  <2> QED BY <2>1, <2>2, <2>3, ControlStep
<1> QED BY <1>1, <1>2, <1>3

\* What the parent finds when waitpid is back.
LEMMA WhatIsLeft ==
  ASSUME Inv, child \in {"exit", "abort", "killed", "torn"}
  PROVE  \/ NoItems("shm") /\ child \in {"abort", "killed"}
         \/ \E n \in {pushes["shm"], pushes["shm"] + 1} :
              /\ Emptying("shm", Far, n)
              /\ n = pushes["shm"] + (IF child = "torn" THEN 1 ELSE 0)
BY Sizes DEF Inv, TypeOK, Blocks, ShmInv, Fresh, NoItems, ZeroStack

LEMMA ParentPopStep == ASSUME Inv, ParentPop PROVE Inv'
<1> USE DEF Inv
<1>b. "heap" \in Blocks /\ "shm" \in Blocks /\ "heap" # "shm"
  BY DEF Blocks
<1>1. /\ parent = "pop_all" /\ child' = child
      /\ child \in {"exit", "abort", "killed", "torn"}
  BY DEF ParentPop, Control
<1>2. pushes["shm"] \in Nat
  BY <1>b, Sizes DEF TypeOK
<1>3. NoItems("shm") => ~PopItem("shm")
  BY DEF NoItems, PopItem
<1>5. CASE PopItem("shm") /\ parent' = parent
  <2>1. PICK n \in Nat : Emptying("shm", Far, n)
                        /\ n = pushes["shm"] + (IF child = "torn" THEN 1 ELSE 0)
    BY <1>1, <1>2, <1>3, <1>5, WhatIsLeft
  <2>2. Emptying("shm", Far, n)' /\ stack' \in [Blocks -> ISTACK]
        /\ popped' \in [Blocks -> Seq(Int)]
    BY <1>b, <1>5, <2>1, PopEmpties, Sizes
  <2>3. TypeOK'
    BY <1>1, <1>5, <2>2 DEF TypeOK, PopItem, kernel
  <2>4. HeapInv'
    BY <1>b, <1>1, <1>5, OtherBlock, SameBlock DEF HeapInv
  <2>5. pushes' = pushes /\ child # "abort"
    <3>1. child # "abort"
      BY <1>3, <1>5 DEF ShmInv, Fresh, NoItems, ZeroStack
    <3> QED BY <1>5, <3>1 DEF PopItem
  <2>6. ShmInv'
    <3>1. child = "torn" => n = pushes["shm"] + 1
      BY <2>1
    <3>2. child # "torn" => n = pushes["shm"]
      BY <1>2, <2>1
    <3>3. child = "exit" => pushes["shm"] = STACK_SIZE
      BY DEF ShmInv
    <3> QED BY <1>1, <2>2, <2>5, <3>1, <3>2, <3>3 DEF ShmInv
  <2>7. Control'
    BY <1>1, <1>5 DEF Control, FaultMeansNoChild
  <2> QED BY <2>3, <2>4, <2>6, <2>7
<1>6. CASE PopRefused("shm") /\ parent' = "detach"
  <2>1. UNCHANGED <<stack, word, pushes, popped, segment, attached, mapped>>
    BY <1>6 DEF PopRefused, memory, loops, kernel
  <2>2. stack["shm"].pos = -1 /\ child # "abort"
    BY <1>1, <1>6 DEF PopRefused, is_empty, ShmInv, Fresh, ZeroStack
  <2>3. TypeOK' /\ Control'
    BY <1>1, <1>6, <2>1, <2>2 DEF TypeOK, Control, FaultMeansNoChild
  <2> QED BY <1>1, <1>6, <2>1, <2>3, ControlStep
\* A load that faults is through NULL, or of the item of a torn push.
<1>7. CASE PopFaults("shm") /\ parent' = "fault" /\ attached' = attached \ {"parent"}
  <2>1. UNCHANGED <<stack, word, pushes, popped, segment, mapped>>
    BY <1>7 DEF PopFaults, memory, loops
  <2>2. \/ /\ child \in {"abort", "killed"} /\ pushes["shm"] = 0
           /\ stack["shm"].pos = 0 /\ stack["shm"].items = NULL
        \/ child = "torn" /\ popped["shm"] = <<>> /\ ~IsMapped(Top(stack["shm"]))
    <3>1. CASE NoItems("shm") /\ child \in {"abort", "killed"}
      BY <1>7, <3>1 DEF PopFaults, is_empty, NoItems
    <3>2. CASE \E n \in Nat : /\ Emptying("shm", Far, n)
                             /\ n = pushes["shm"] + (IF child = "torn" THEN 1 ELSE 0)
      <4>1. PICK n \in Nat : /\ Emptying("shm", Far, n)
                            /\ n = pushes["shm"] + (IF child = "torn" THEN 1 ELSE 0)
        BY <3>2
      <4>2. /\ stack["shm"].pos \in 0 .. STACK_SIZE - 1 /\ stack["shm"].items = Far
            /\ Len(popped["shm"]) = n - 1 - stack["shm"].pos
            /\ popped["shm"] \in Seq(Int)
        <5>1. popped["shm"] \in Seq(Int)
          BY <1>b DEF TypeOK
        <5>2. /\ stack["shm"].pos \in -1 .. STACK_SIZE - 1 /\ stack["shm"].pos # -1
              /\ stack["shm"].items = Far
              /\ Len(popped["shm"]) = n - 1 - stack["shm"].pos
          BY <1>7, <4>1 DEF PopFaults, is_empty, Emptying, Setup
        <5> QED BY <5>1, <5>2, Sizes
      <4>3. ~IsMapped(Top(stack["shm"]))
        BY <1>7, <4>2, Sizes DEF PopFaults, NULL
      <4>4. stack["shm"].pos >= pushes["shm"]
        <5>1. stack["shm"].pos \in 0 .. stack["shm"].pos /\ stack["shm"].pos \in Int
          BY <4>2, Sizes
        <5>2. stack["shm"].pos < pushes["shm"]
                => IsMapped(stack["shm"].items + stack["shm"].pos)
          BY <4>1, <5>1 DEF Emptying, Stored
        <5> QED BY <1>2, <4>3, <5>1, <5>2 DEF Top
      <4>5. child = "torn" /\ Len(popped["shm"]) = 0
        BY <1>2, <4>1, <4>2, <4>4
      <4> QED BY <4>2, <4>3, <4>5
    <3> QED BY <1>1, <1>2, <3>1, <3>2, WhatIsLeft
  <2>3. TypeOK' /\ Control'
    BY <1>1, <1>7, <2>1, <2>2 DEF TypeOK, Control, FaultMeansNoChild, IsMapped
  <2> QED BY <1>1, <1>7, <2>1, <2>3, ControlStep
<1> QED BY <1>5, <1>6, <1>7 DEF ParentPop

LEMMA ChildInitStep == ASSUME Inv, ChildInit PROVE Inv'
<1> USE DEF Inv
<1>b. "heap" \in Blocks /\ "shm" \in Blocks /\ "heap" # "shm"
  BY DEF Blocks
<1> DEFINE new == init_shm_stack(STACK_SIZE)
<1>n. new = [size |-> STACK_SIZE, pos |-> -1, items |-> Far] /\ new \in ISTACK
  BY Sizes DEF init_shm_stack, ISTACK, Far
<1> HIDE DEF new
<1>1. /\ stack' = [stack EXCEPT !["shm"] = new] /\ parent' = parent
      /\ child = "init" /\ child' = "push_all"
      /\ UNCHANGED <<word, pushes, popped, segment, attached, mapped>>
  BY DEF ChildInit, loops, kernel, new
<1>2. TypeOK'
  BY <1>1, <1>n DEF TypeOK
<1>3. stack'["shm"] = new /\ stack'["heap"] = stack["heap"]
  BY <1>b, <1>1 DEF TypeOK
<1>4. HeapInv'
  BY <1>b, <1>1, <1>3, SameBlock DEF HeapInv
<1>5. Filling("shm", Far)'
  BY <1>1, <1>3, <1>n, Sizes DEF ShmInv, Fresh, Filling, Setup, Stored, Unwritten
<1>6. ShmInv' /\ Control'
  BY <1>1, <1>5 DEF ShmInv, Control, FaultMeansNoChild
<1> QED BY <1>2, <1>4, <1>6

\* The child is cut off in init_shm_stack.
LEMMA HalfInitStep == ASSUME Inv, KilledInInit PROVE Inv'
<1> USE DEF Inv
<1>b. "heap" \in Blocks /\ "shm" \in Blocks /\ "heap" # "shm"
  BY DEF Blocks
<1>1. PICK half \in half_init(STACK_SIZE) : stack' = [stack EXCEPT !["shm"] = half]
  BY DEF KilledInInit
<1>2. half \in ISTACK /\ half.items = NULL /\ half.pos \in {-1, 0}
  <2>1. \/ half = [size |-> STACK_SIZE, pos |-> 0, items |-> NULL]
        \/ half = [size |-> STACK_SIZE, pos |-> -1, items |-> NULL]
    BY <1>1 DEF half_init, ZeroStack
  <2> QED BY <2>1, Sizes DEF ISTACK, NULL
<1>3. /\ child = "init" /\ child' = "killed" /\ parent' = parent
      /\ attached' = attached \ {"child"}
      /\ UNCHANGED <<word, pushes, popped, segment, mapped>>
  BY DEF KilledInInit, ChildDies, loops
<1>4. stack'["shm"] = half /\ stack'["heap"] = stack["heap"] /\ TypeOK'
  BY <1>b, <1>1, <1>2, <1>3 DEF TypeOK
<1>5. HeapInv'
  BY <1>b, <1>3, <1>4, SameBlock DEF HeapInv
<1>6. NoItems("shm")'
  BY <1>2, <1>3, <1>4 DEF ShmInv, Fresh, NoItems
<1>7. ShmInv' /\ Control'
  BY <1>3, <1>6 DEF ShmInv, Control, FaultMeansNoChild
<1> QED BY <1>4, <1>5, <1>7

\* The child is cut off in push, by the store that faults or by a signal.
LEMMA TornStep ==
  ASSUME Inv, child = "push_all", PushTorn("shm"), ChildDies("torn"), parent' = parent
  PROVE  Inv'
<1> USE DEF Inv
<1>b. "heap" \in Blocks /\ "shm" \in Blocks /\ "heap" # "shm" /\ Far \in Nat
  BY Sizes DEF Blocks
<1>1. UNCHANGED <<word, pushes, popped, segment, mapped>> /\ child' = "torn"
      /\ attached' = attached \ {"child"}
  BY DEF PushTorn, loops, ChildDies
<1>2. Emptying("shm", Far, pushes["shm"] + 1)' /\ stack' \in [Blocks -> ISTACK]
  BY <1>b, <1>1, TornIsReady DEF ShmInv
<1>3. TypeOK'
  BY <1>1, <1>2 DEF TypeOK
<1>4. HeapInv'
  BY <1>b, <1>1, OtherBlock, SameBlock DEF HeapInv
<1>5. ShmInv' /\ Control'
  BY <1>1, <1>2 DEF ShmInv, Control, FaultMeansNoChild
<1> QED BY <1>3, <1>4, <1>5

LEMMA ChildPushStep == ASSUME Inv, ChildPush PROVE Inv'
<1> USE DEF Inv
<1>b. "heap" \in Blocks /\ "shm" \in Blocks /\ "heap" # "shm"
  BY DEF Blocks
<1>1. /\ parent' = parent /\ child = "push_all" /\ Filling("shm", Far)
      /\ parent \in {"attach", "waitpid", "abort"}
  BY DEF ChildPush, ShmInv, Control, FaultMeansNoChild, TypeOK
<1>2. CASE PushItem("shm") /\ child' = child
  <2>1. Filling("shm", Far)' /\ stack' \in [Blocks -> ISTACK]
        /\ word' \in [Blocks -> [Offsets -> Int]]
        /\ pushes' \in [Blocks -> 0 .. STACK_SIZE]
    BY <1>b, <1>1, <1>2, PushFills, Sizes
  <2>2. TypeOK'
    BY <1>1, <1>2, <2>1 DEF TypeOK, PushItem, kernel
  <2>3. HeapInv'
    BY <1>b, <1>1, <1>2, OtherBlock, SameBlock DEF HeapInv
  <2>4. ShmInv' /\ Control'
    BY <1>1, <1>2, <2>1 DEF ShmInv, Control, FaultMeansNoChild
  <2> QED BY <2>2, <2>3, <2>4
<1>3. CASE PushRefused("shm") /\ child' = "detach"
  <2>1. UNCHANGED <<stack, word, pushes, popped, segment, attached, mapped>>
    BY <1>3 DEF PushRefused, memory, loops, kernel
  <2>2. /\ TypeOK' /\ Emptying("shm", Far, pushes["shm"])
        /\ pushes["shm"] = STACK_SIZE
    BY <1>b, <1>1, <1>3, <2>1, FilledIsReady DEF TypeOK, PushRefused
  <2>3. HeapInv' /\ ShmInv' /\ Control'
    BY <1>b, <1>1, <1>3, <2>1, <2>2, SameBlock
       DEF HeapInv, ShmInv, Control, FaultMeansNoChild
  <2> QED BY <2>2, <2>3
<1>4. CASE PushFaults
  BY <1>1, <1>4, TornStep DEF PushFaults
<1> QED BY <1>2, <1>3, <1>4 DEF ChildPush

LEMMA StutterStep == ASSUME Inv, UNCHANGED vars PROVE Inv'
<1>b. "heap" \in Blocks /\ "shm" \in Blocks
  BY DEF Blocks
<1>1. UNCHANGED <<stack, word, pushes, popped, parent, child, segment, attached, mapped>>
  BY DEF vars, memory, loops, kernel
<1>2. TypeOK' /\ Control'
  BY <1>1 DEF Inv, TypeOK, Control, FaultMeansNoChild, IsMapped
<1>3. HeapInv' /\ ShmInv'
  BY <1>b, <1>1, SameBlock DEF Inv, HeapInv, ShmInv
<1> QED BY <1>2, <1>3 DEF Inv

\* Every step of the two processes keeps the invariant.
LEMMA InvStep == Inv /\ [Next]_vars => Inv'
<1> SUFFICES ASSUME Inv, [Next]_vars PROVE Inv'
  OBVIOUS
<1>1. CASE ParentStep
  BY <1>1, LocalStep, QuietStep, ParentPopStep DEF ParentStep
<1>2. CASE ChildStep
  BY <1>2, QuietStep, ChildInitStep, ChildPushStep DEF ChildStep
<1>3. CASE SomebodyKills
  <2>1. CASE KilledInPush
    BY <2>1, TornStep DEF KilledInPush
  <2> QED BY <1>3, <2>1, QuietStep, HalfInitStep DEF SomebodyKills
<1>4. CASE Terminated \/ UNCHANGED vars
  BY <1>4, StutterStep DEF Terminated
<1> QED BY <1>1, <1>2, <1>3, <1>4 DEF Next

LEMMA InvInductive == Spec => []Inv
BY InitInv, InvStep, PTL DEF Spec

-----------------------------------------------------------------------------
(* Theorems. *)

\* Type correctness of the two stacks, the loops and the control.
THEOREM TypeCorrect == Spec => []TypeOK
BY InvInductive, PTL DEF Inv

\* However many items the stack is made for, and wherever items is put: a parent
\* that gets through pop_all has popped what the child pushed, last first.
THEOREM AllInReverse == Spec => []ParentGetsAllInReverse
<1>1. Inv => ParentGetsAllInReverse
  <2> SUFFICES ASSUME Inv, child = "exit", parent \in {"detach", "rmid", "done"}
               PROVE  popped["shm"]
                        = [k \in 1 .. STACK_SIZE |-> SHM_START - (STACK_SIZE - k)]
    BY DEF ParentGetsAllInReverse
  <2>1. /\ Emptying("shm", Far, STACK_SIZE) /\ pushes["shm"] = STACK_SIZE
        /\ stack["shm"].pos = -1 /\ Start("shm") = SHM_START
    BY DEF Inv, Control, ShmInv, Start
  <2>2. popped["shm"] \in Seq(Int) /\ Len(popped["shm"]) = STACK_SIZE
    BY <2>1, Sizes DEF Inv, TypeOK, Blocks, Emptying
  <2>3. ASSUME NEW k \in 1 .. STACK_SIZE
        PROVE  popped["shm"][k] = SHM_START - (STACK_SIZE - k)
    <3>1. popped["shm"][k] = Item("shm", STACK_SIZE - k)
      BY <2>1, <2>2 DEF Emptying
    <3>2. STACK_SIZE - k < STACK_SIZE
      BY Sizes
    <3>3. Item("shm", STACK_SIZE - k) = SHM_START - (STACK_SIZE - k)
      BY <2>1, <3>2 DEF Item, Start
    <3> QED BY <3>1, <3>3
  <2>4. popped["shm"] \in [1 .. STACK_SIZE -> Int]
    BY <2>2
  <2> QED BY <2>3, <2>4
<1> QED BY <1>1, InvInductive, PTL

\* The parent's crash is the child's doing, for every mapping and size.
THEOREM FaultsExplained == Spec => []FaultMeansNoChild
BY InvInductive, PTL DEF Inv, Control

LEMMA LastFirstIsSeq ==
  ASSUME NEW b \in Blocks, pushes[b] \in Nat
  PROVE  /\ LastFirst(b) \in Seq(Int) /\ Len(LastFirst(b)) = pushes[b]
         /\ \A k \in 1 .. pushes[b] : LastFirst(b)[k] = Start(b) - (pushes[b] - k)
<1>1. Start(b) \in Int
  BY Sizes
<1> QED BY <1>1 DEF LastFirst

\* For every size and mapping: what a child that was cut off between the update of
\* pos and the store of the item, or anywhere else, can do to a parent that comes
\* through is one item too many, in front of those that were pushed.
THEOREM TornPushExplained == Spec => []TornPushPopsOneMore
<1>1. Inv => TornPushPopsOneMore
  <2> SUFFICES ASSUME Inv, parent \in {"detach", "rmid", "done"}
               PROVE  popped["shm"]
                        = (IF child = "torn" THEN <<0>> ELSE <<>>) \o LastFirst("shm")
    BY DEF TornPushPopsOneMore
  <2> DEFINE m == pushes["shm"]
  <2>1. /\ stack["shm"].pos = -1 /\ child \in {"exit", "killed", "torn"}
        /\ m \in Nat /\ popped["shm"] \in Seq(Int) /\ Start("shm") \in Int
    BY Sizes DEF Inv, TypeOK, Blocks, Control
  <2>2. LastFirst("shm") \in Seq(Int) /\ Len(LastFirst("shm")) = m
        /\ \A k \in 1 .. m : LastFirst("shm")[k] = Start("shm") - (m - k)
    BY <2>1, LastFirstIsSeq DEF Blocks
  <2>3. CASE child = "torn"
    <3>1. Emptying("shm", Far, m + 1)
      BY <2>3 DEF Inv, ShmInv
    <3>2. Len(popped["shm"]) = m + 1
      BY <2>1, <3>1 DEF Emptying
    <3>3. ASSUME NEW k \in 1 .. m + 1
          PROVE  popped["shm"][k] = IF k = 1 THEN 0 ELSE Start("shm") - (m - (k - 1))
      <4>1. popped["shm"][k] = Item("shm", (m + 1) - k)
        <5>1. k \in 1 .. Len(popped["shm"])
          BY <3>2
        <5> QED BY <3>1, <5>1 DEF Emptying
      <4>2. (m + 1) - k < m <=> k # 1
        BY <2>1
      <4>3. (m + 1) - k = m - (k - 1)
        BY <2>1
      <4> QED BY <4>1, <4>2, <4>3 DEF Item
    <3> DEFINE both == <<0>> \o LastFirst("shm")
    <3> HIDE DEF m
    <3>4. /\ both \in Seq(Int) /\ Len(both) = m + 1
          /\ both[1] = 0 /\ \A k \in 2 .. m + 1 : both[k] = LastFirst("shm")[k - 1]
      BY <2>1, <2>2
    <3> HIDE DEF both
    <3>5. ASSUME NEW k \in 1 .. m + 1 PROVE popped["shm"][k] = both[k]
      <4>1. CASE k = 1
        BY <3>3, <3>4, <4>1
      <4>2. CASE k \in 2 .. m + 1
        <5>1. k - 1 \in 1 .. m /\ k # 1
          BY <2>1, <4>2
        <5>2. popped["shm"][k] = Start("shm") - (m - (k - 1))
          BY <3>3, <5>1
        <5>3. both[k] = LastFirst("shm")[k - 1]
          BY <3>4, <4>2
        <5>4. LastFirst("shm")[k - 1] = Start("shm") - (m - (k - 1))
          BY <2>2, <5>1
        <5> QED BY <5>2, <5>3, <5>4
      <4> QED BY <2>1, <4>1, <4>2
    <3>6. popped["shm"] = both
      BY <2>1, <3>2, <3>4, <3>5
    <3> QED BY <2>3, <3>6 DEF both
  <2>4. CASE child # "torn"
    <3>1. Len(popped["shm"]) = m
          /\ \A k \in 1 .. m : popped["shm"][k] = Start("shm") - (m - k)
      BY <2>1, <2>4 DEF Inv, ShmInv, NoItems, Emptying, Item
    <3>2. popped["shm"] = LastFirst("shm")
      <4>1. \A k \in 1 .. m : popped["shm"][k] = LastFirst("shm")[k]
        BY <2>2, <3>1
      <4>2. Len(popped["shm"]) = m /\ Len(LastFirst("shm")) = m
        BY <2>2, <3>1
      <4> HIDE DEF m
      <4> QED BY <2>1, <2>2, <4>1, <4>2
    <3> QED BY <2>2, <2>4, <3>2
  <2> QED BY <2>3, <2>4
<1> QED BY <1>1, InvInductive, PTL

\* create_stack keeps every item inside the block it allocated.
THEOREM LocalStackInBlock == Spec => []HeapInBlock
<1>1. Inv => HeapInBlock
  <2> SUFFICES ASSUME Inv, stack["heap"].size # 0, NEW k \in 1 .. Depth("heap")
               PROVE  /\ STRUCT <= stack["heap"].items + k - 1
                      /\ stack["heap"].items + k - 1 < sizeof_shm_stack(STACK_SIZE)
    BY DEF HeapInBlock, InBlock, ItemsOf
  <2>1. Setup("heap", STRUCT) /\ pushes["heap"] \in Nat
    BY Sizes DEF Inv, HeapInv, TypeOK, Blocks
  <2>2. k \in 1 .. STACK_SIZE
    BY <2>1, Sizes DEF Setup, Depth
  <2> QED BY <2>1, <2>2, Sizes DEF Setup, sizeof_shm_stack
<1> QED BY <1>1, InvInductive, PTL

-----------------------------------------------------------------------------
(* Both stacks implement the abstract one. *)

\* The first n items pushed, as a sequence.
First(b, n) == [k \in 1 .. n |-> Start(b) - (k - 1)]

LEMMA FirstIsSeq ==
  ASSUME NEW b \in Blocks, NEW n \in Nat
  PROVE  First(b, n) \in Seq(Int) /\ Len(First(b, n)) = n
BY Sizes DEF First

LEMMA FirstGrows ==
  ASSUME NEW b \in Blocks, NEW n \in Nat
  PROVE  First(b, n + 1) = Append(First(b, n), Start(b) - n)
<1>1. First(b, n) \in Seq(Int) /\ Len(First(b, n)) = n /\ Start(b) - n \in Int
  BY FirstIsSeq, Sizes
<1>2. First(b, n + 1) \in Seq(Int) /\ Len(First(b, n + 1)) = n + 1
  BY FirstIsSeq
<1> DEFINE longer == Append(First(b, n), Start(b) - n)
<1>3. /\ longer \in Seq(Int) /\ Len(longer) = n + 1
      /\ longer[n + 1] = Start(b) - n
      /\ \A k \in 1 .. n : longer[k] = First(b, n)[k]
  BY <1>1
<1> HIDE DEF longer
<1>4. ASSUME NEW k \in 1 .. n + 1 PROVE First(b, n + 1)[k] = longer[k]
  <2>1. First(b, n + 1)[k] = Start(b) - (k - 1)
    BY DEF First
  <2>2. CASE k = n + 1
    BY <1>1, <1>3, <2>1, <2>2
  <2>3. CASE k \in 1 .. n
    <3>1. First(b, n)[k] = Start(b) - (k - 1)
      BY <2>3 DEF First
    <3> QED BY <1>3, <2>1, <2>3, <3>1
  <2> QED BY <2>2, <2>3
<1>5. First(b, n + 1) = longer
  BY <1>2, <1>3, <1>4
<1> QED BY <1>5 DEF longer

LEMMA FirstShrinks ==
  ASSUME NEW b \in Blocks, NEW n \in Nat, n > 0
  PROVE  First(b, n - 1) = SubSeq(First(b, n), 1, Len(First(b, n)) - 1)
<1>1. First(b, n) \in Seq(Int) /\ Len(First(b, n)) = n
  BY FirstIsSeq
<1>2. n - 1 \in Nat
  OBVIOUS
<1>3. First(b, n - 1) \in Seq(Int) /\ Len(First(b, n - 1)) = n - 1
  BY <1>2, FirstIsSeq
<1> DEFINE shorter == SubSeq(First(b, n), 1, n - 1)
<1>4. shorter \in Seq(Int) /\ Len(shorter) = n - 1
      /\ \A k \in 1 .. n - 1 : shorter[k] = First(b, n)[k]
  BY <1>1
<1>5. \A k \in 1 .. n - 1 : First(b, n - 1)[k] = First(b, n)[k]
  BY DEF First
<1> HIDE DEF shorter
<1>6. First(b, n - 1) = shorter
  BY <1>3, <1>4, <1>5
<1> QED BY <1>1, <1>6 DEF shorter

\* What is behind items is what was pushed and not popped.
LEMMA ContentsAreFirst ==
  ASSUME TypeOK, NEW b \in Blocks, NEW items \in Nat, Setup(b, items), Stored(b)
  PROVE  Contents(b) = First(b, Depth(b)) /\ Depth(b) \in Nat
<1>1. stack[b].pos \in Int /\ stack[b].pos >= -1 /\ pushes[b] \in Nat
  BY Sizes DEF Setup, TypeOK
<1>2. Depth(b) \in Nat /\ Depth(b) <= stack[b].pos + 1 /\ Depth(b) <= pushes[b]
  BY <1>1 DEF Depth
<1> HIDE DEF Depth
<1>3. ASSUME NEW k \in 1 .. Depth(b)
      PROVE  word[b][stack[b].items + k - 1] = Start(b) - (k - 1)
  <2>1. k - 1 \in 0 .. stack[b].pos /\ k - 1 < pushes[b]
    BY <1>1, <1>2
  <2>2. stack[b].items + k - 1 = stack[b].items + (k - 1)
    BY DEF Setup
  <2> QED BY <2>1, <2>2 DEF Stored, Item
<1> QED BY <1>2, <1>3 DEF Contents, First

\* The same of the next state.
LEMMA ContentsAreFirstNext ==
  ASSUME TypeOK', NEW b \in Blocks, NEW items \in Nat, Setup(b, items)', Stored(b)'
  PROVE  Contents(b)' = First(b, Depth(b)')
<1>1. stack'[b].pos \in Int /\ stack'[b].pos >= -1 /\ pushes'[b] \in Nat
  BY Sizes DEF Setup, TypeOK
<1>2. Depth(b)' \in Nat /\ Depth(b)' <= stack'[b].pos + 1 /\ Depth(b)' <= pushes'[b]
  BY <1>1 DEF Depth
<1> HIDE DEF Depth
<1>3. ASSUME NEW k \in 1 .. Depth(b)'
      PROVE  word'[b][stack'[b].items + k - 1] = Start(b) - (k - 1)
  <2>1. k - 1 \in 0 .. stack'[b].pos /\ k - 1 < pushes'[b]
    BY <1>1, <1>2
  <2>2. stack'[b].items + k - 1 = stack'[b].items + (k - 1)
    BY DEF Setup
  <2> QED BY <2>1, <2>2 DEF Stored, Item, Start
<1> QED BY <1>2, <1>3 DEF Contents, First

\* push_all's step is a push.
LEMMA PushContents ==
  ASSUME TypeOK, TypeOK', NEW b \in Blocks, NEW items \in Nat,
         Filling(b, items), PushItem(b)
  PROVE  /\ Len(Contents(b)) < STACK_SIZE
         /\ \E x \in Pushed(b) : Contents(b)' = Append(Contents(b), x)
<1> DEFINE n == pushes[b]
<1>1. n \in 0 .. STACK_SIZE - 1 /\ stack[b].pos = n - 1
  <2>1. stack[b].pos \in -1 .. STACK_SIZE - 2 /\ n = stack[b].pos + 1
    BY Sizes DEF Filling, Setup, PushItem, is_full
  <2> QED BY <2>1, Sizes
<1>2. Filling(b, items)' /\ pushes'[b] = n + 1
  BY PushFills DEF PushItem, TypeOK
<1>3. stack'[b].pos = n
  <2>1. stack'[b].pos \in Int /\ n + 1 = stack'[b].pos + 1
    BY <1>2, Sizes DEF Filling, Setup
  <2> HIDE DEF n
  <2> QED BY <1>1, <2>1
<1>4. Depth(b) = n /\ Depth(b)' = n + 1
  BY <1>1, <1>2, <1>3 DEF Depth
<1>5. Contents(b) = First(b, n) /\ Contents(b)' = First(b, n + 1)
  BY <1>2, <1>4, ContentsAreFirst, ContentsAreFirstNext DEF Filling
<1>6. n \in Nat /\ Start(b) - n \in Pushed(b)
  BY <1>1, Sizes DEF Pushed
<1>7. Len(Contents(b)) < STACK_SIZE
  <2>1. Len(Contents(b)) = n
    BY <1>5, <1>6, FirstIsSeq
  <2> HIDE DEF n
  <2> QED BY <1>1, <2>1, Sizes
<1>8. Contents(b)' = Append(Contents(b), Start(b) - n)
  BY <1>5, <1>6, FirstGrows
<1> QED BY <1>6, <1>7, <1>8

\* pop_all's step is a pop, or the pop of the item of a torn push.
LEMMA PopContents ==
  ASSUME TypeOK, TypeOK', NEW b \in Blocks, NEW items \in Nat, NEW m \in Nat,
         Emptying(b, items, m), PopItem(b)
  PROVE  \/ Contents(b)' = Contents(b)
         \/ /\ Contents(b) # <<>>
            /\ Contents(b)' = SubSeq(Contents(b), 1, Len(Contents(b)) - 1)
<1> DEFINE p == stack[b].pos
<1>1. p \in Nat /\ stack'[b].pos = p - 1 /\ pushes[b] \in Nat /\ pushes' = pushes
  <2>1. stack[b] \in ISTACK /\ stack' = [stack EXCEPT ![b] = [stack[b] EXCEPT !.pos = @ - 1]]
    BY DEF TypeOK, PopItem
  <2>2. stack'[b].pos = p - 1
    BY <2>1 DEF TypeOK, ISTACK
  <2>3. p \in 0 .. STACK_SIZE - 1
    BY Sizes DEF Emptying, Setup, PopItem, is_empty
  <2> QED BY <2>2, <2>3, Sizes DEF TypeOK, PopItem
<1>2. Emptying(b, items, m)'
  BY PopEmpties
<1>3. /\ Contents(b) = First(b, Depth(b)) /\ Depth(b) \in Nat
      /\ Contents(b)' = First(b, Depth(b)')
  BY <1>2, ContentsAreFirst, ContentsAreFirstNext DEF Emptying
<1>4. CASE p >= pushes[b]
  <2>1. Depth(b)' = Depth(b)
    BY <1>1, <1>4 DEF Depth
  <2> QED BY <1>3, <2>1
<1>5. CASE p < pushes[b]
  <2>1. Depth(b) = p + 1 /\ Depth(b)' = p
    BY <1>1, <1>5 DEF Depth
  <2>2. Contents(b) = First(b, p + 1) /\ Contents(b)' = First(b, (p + 1) - 1)
    BY <1>1, <1>3, <2>1
  <2>3. p + 1 \in Nat /\ p + 1 > 0 /\ Len(First(b, p + 1)) = p + 1
    <3>1. p + 1 \in Nat /\ p + 1 > 0
      BY <1>1
    <3> QED BY <3>1, FirstIsSeq
  <2>4. Contents(b) # <<>>
    BY <2>2, <2>3
  <2>5. Contents(b)' = SubSeq(Contents(b), 1, Len(Contents(b)) - 1)
    BY <2>2, <2>3, FirstShrinks
  <2> QED BY <2>4, <2>5
<1> QED BY <1>1, <1>4, <1>5

\* The contents of a block depend on that block.
LEMMA SameContents ==
  ASSUME NEW b \in Blocks,
         stack'[b] = stack[b], word'[b] = word[b], pushes'[b] = pushes[b]
  PROVE  Contents(b)' = Contents(b)
BY DEF Contents, Depth

\* A block in which nothing was pushed has no contents, whatever its struct says.
LEMMA NoContents ==
  ASSUME NEW b \in Blocks, stack[b].pos \in Int, stack[b].pos >= -1, pushes[b] = 0
  PROVE  Contents(b) = <<>>
<1>1. Depth(b) = 0
  BY DEF Depth
<1> QED BY <1>1 DEF Contents

LEMMA NoContentsYet ==
  ASSUME NEW b \in Blocks, stack'[b].pos \in Int, stack'[b].pos >= -1, pushes'[b] = 0
  PROVE  Contents(b)' = <<>>
<1>1. Depth(b)' = 0
  BY DEF Depth
<1> QED BY <1>1 DEF Contents

\* A push that is cut off leaves the contents as they were.
LEMMA TornContents ==
  ASSUME TypeOK, NEW b \in Blocks, NEW items \in Nat, Filling(b, items), PushTorn(b)
  PROVE  Contents(b)' = Contents(b)
<1>1. /\ stack[b] \in ISTACK /\ word' = word /\ pushes' = pushes
      /\ stack' = [stack EXCEPT ![b] = [stack[b] EXCEPT !.pos = @ + 1]]
      /\ pushes[b] = stack[b].pos + 1
  BY DEF TypeOK, PushTorn, loops, Filling
<1>2. stack'[b].items = stack[b].items /\ stack'[b].pos = stack[b].pos + 1
  BY <1>1 DEF TypeOK, ISTACK
<1>3. Depth(b)' = Depth(b)
  BY <1>1, <1>2 DEF Depth, ISTACK
<1> QED BY <1>1, <1>2, <1>3 DEF Contents

\* The steps that leave both blocks as they are.
LEMMA MemoryStep ==
  ASSUME [Next]_vars
  PROVE  \/ LocalCreate \/ LocalPush \/ LocalPop \/ ParentPop \/ ChildInit \/ ChildPush
         \/ KilledInInit \/ KilledInPush \/ UNCHANGED <<stack, word, pushes>>
<1>1. CASE ParentStep
  BY <1>1 DEF ParentStep, memory, loops, Shmget, Fork, ParentAttach, Waitpid,
              ParentDetach, Rmid
<1>2. CASE ChildStep
  BY <1>2 DEF ChildStep, memory, loops, ChildAttach, ChildDetach
<1>3. CASE SomebodyKills
  BY <1>3 DEF SomebodyKills, memory, loops, Killed
<1>4. CASE Terminated \/ UNCHANGED vars
  BY <1>4 DEF Terminated, vars, memory, loops
<1> QED BY <1>1, <1>2, <1>3, <1>4 DEF Next

\* test_local's stack implements a bounded stack, for every size.
THEOREM HeapImplements == Spec => HeapIsStack
<1> DEFINE c == Contents("heap")
<1>b. "heap" \in Blocks /\ "shm" \in Blocks /\ "heap" # "shm"
  BY DEF Blocks
<1>1. Init => Heap!Init
  BY <1>b, NoContents DEF Init, Heap!Init, ZeroStack
<1>2. Inv /\ Inv' /\ [Next]_vars => [Heap!Next]_c
  <2> SUFFICES ASSUME Inv, Inv', [Next]_vars PROVE Heap!Next \/ c' = c
    BY DEF Heap!Next
  <2>t. TypeOK /\ TypeOK' /\ HeapInv /\ ShmInv
    BY DEF Inv
  <2>1. CASE LocalPush
    <3>1. CASE PushItem("heap")
      BY <1>b, <2>1, <2>t, <3>1, PushContents, Sizes
         DEF LocalPush, HeapInv, Heap!Next, Heap!Push
    <3>2. CASE PushRefused("heap")
      BY <1>b, <3>2, SameContents DEF PushRefused, memory, loops
    <3> QED BY <2>1, <3>1, <3>2 DEF LocalPush
  <2>2. CASE LocalPop
    <3>1. CASE PopItem("heap")
      <4>1. Emptying("heap", STRUCT, pushes["heap"]) /\ pushes["heap"] \in Nat
        BY <1>b, <2>2, <2>t, Sizes DEF LocalPop, HeapInv, TypeOK
      <4> QED BY <1>b, <2>t, <3>1, <4>1, PopContents, Sizes DEF Heap!Next, Heap!Pop
    <3>2. CASE PopRefused("heap")
      BY <1>b, <3>2, SameContents DEF PopRefused, memory, loops
    <3> QED BY <2>2, <3>1, <3>2 DEF LocalPop
  <2>3. CASE LocalCreate
    <3>1. /\ stack["heap"].pos = 0 /\ pushes["heap"] = 0 /\ pushes' = pushes
          /\ word' = word
      BY <2>3, <2>t DEF LocalCreate, HeapInv, Fresh, ZeroStack, loops
    <3>2. CASE stack' = [stack EXCEPT !["heap"] = create_stack(STACK_SIZE)]
      <4>1. stack'["heap"].pos = -1
        BY <1>b, <2>t, <3>2 DEF TypeOK, create_stack
      <4> QED BY <1>b, <3>1, <4>1, NoContents, NoContentsYet
    <3>3. CASE UNCHANGED stack
      BY <1>b, <3>1, <3>3, SameContents
    <3> QED BY <2>3, <3>2, <3>3 DEF LocalCreate
  <2>4. CASE ParentPop \/ ChildPush \/ ChildInit \/ KilledInInit \/ KilledInPush
    <3>1. /\ stack'["heap"] = stack["heap"] /\ word'["heap"] = word["heap"]
          /\ pushes'["heap"] = pushes["heap"]
      <4>1. CASE ParentPop
        BY <1>b, <4>1, <2>t, OtherBlock DEF ParentPop, PopRefused, PopFaults, memory, loops
      <4>2. CASE ChildPush \/ KilledInPush
        BY <1>b, <4>2, <2>t, OtherBlock
           DEF ChildPush, KilledInPush, PushFaults, PushRefused, memory, loops
      <4>3. CASE ChildInit \/ KilledInInit
        BY <1>b, <4>3, <2>t DEF ChildInit, KilledInInit, TypeOK, loops
      <4> QED BY <2>4, <4>1, <4>2, <4>3
    <3> QED BY <1>b, <3>1, SameContents
  <2>5. CASE UNCHANGED <<stack, word, pushes>>
    BY <1>b, <2>5, SameContents
  <2> QED BY <2>1, <2>2, <2>3, <2>4, <2>5, MemoryStep
<1> QED BY <1>1, <1>2, InvStep, InvInductive, PTL DEF Spec, HeapIsStack, Heap!Spec

\* The stack in the segment implements a bounded stack of two processes, for every
\* size and every mapping: a push that is cut off is no step of it.
THEOREM ShmImplements == Spec => ShmIsStack
<1> DEFINE c == Contents("shm")
<1>b. "heap" \in Blocks /\ "shm" \in Blocks /\ "heap" # "shm" /\ Far \in Nat
  BY Sizes DEF Blocks
<1>1. Init => Shm!Init
  BY <1>b, NoContents DEF Init, Shm!Init, ZeroStack
<1>2. Inv /\ Inv' /\ [Next]_vars => [Shm!Next]_c
  <2> SUFFICES ASSUME Inv, Inv', [Next]_vars PROVE Shm!Next \/ c' = c
    BY DEF Shm!Next
  <2>t. TypeOK /\ TypeOK' /\ HeapInv /\ ShmInv /\ Control
    BY DEF Inv
  <2>1. CASE ChildPush \/ KilledInPush
    <3>f. Filling("shm", Far)
      BY <2>1, <2>t DEF ChildPush, KilledInPush, ShmInv
    <3>1. CASE PushItem("shm")
      BY <1>b, <2>t, <3>1, <3>f, PushContents DEF Shm!Next, Shm!Push
    <3>2. CASE PushRefused("shm")
      BY <1>b, <3>2, SameContents DEF PushRefused, memory, loops
    <3>3. CASE PushTorn("shm")
      BY <1>b, <2>t, <3>3, <3>f, TornContents
    <3> QED BY <2>1, <3>1, <3>2, <3>3 DEF ChildPush, KilledInPush, PushFaults
  <2>2. CASE ParentPop
    <3>1. CASE PopItem("shm")
      <4>1. ~NoItems("shm")
        BY <3>1 DEF PopItem, NoItems
      <4>2. child \in {"exit", "abort", "killed", "torn"} /\ pushes["shm"] \in Nat
        BY <1>b, <2>2, <2>t, Sizes DEF ParentPop, Control, TypeOK
      <4>3. PICK n \in Nat : Emptying("shm", Far, n)
        BY <4>1, <4>2, WhatIsLeft
      <4> QED BY <1>b, <2>t, <3>1, <4>3, PopContents DEF Shm!Next, Shm!Pop
    <3>2. CASE PopRefused("shm") \/ PopFaults("shm")
      BY <1>b, <3>2, SameContents DEF PopRefused, PopFaults, memory, loops
    <3> QED BY <2>2, <3>1, <3>2 DEF ParentPop
  <2>3. CASE ChildInit \/ KilledInInit
    <3>1. stack["shm"].pos = 0 /\ pushes["shm"] = 0 /\ pushes' = pushes
      BY <2>3, <2>t DEF ChildInit, KilledInInit, ShmInv, Fresh, ZeroStack, loops
    <3>2. stack'["shm"].pos \in {-1, 0}
      <4>1. stack \in [Blocks -> ISTACK]
        BY <2>t DEF TypeOK
      <4>2. CASE ChildInit
        BY <1>b, <4>1, <4>2 DEF ChildInit, init_shm_stack
      <4>3. CASE KilledInInit
        <5>1. PICK half \in half_init(STACK_SIZE) : stack' = [stack EXCEPT !["shm"] = half]
          BY <4>3 DEF KilledInInit
        <5>2. half.pos \in {-1, 0}
          BY <5>1 DEF half_init, ZeroStack
        <5> QED BY <1>b, <4>1, <5>1, <5>2
      <4> QED BY <2>3, <4>2, <4>3
    <3> QED BY <1>b, <3>1, <3>2, NoContents, NoContentsYet
  <2>4. CASE LocalCreate \/ LocalPush \/ LocalPop
    <3>1. /\ stack'["shm"] = stack["shm"] /\ word'["shm"] = word["shm"]
          /\ pushes'["shm"] = pushes["shm"]
      BY <1>b, <2>4, <2>t, OtherBlock
         DEF LocalCreate, LocalPush, LocalPop, PushRefused, PopRefused, memory, loops, TypeOK
    <3> QED BY <1>b, <3>1, SameContents
  <2>5. CASE UNCHANGED <<stack, word, pushes>>
    BY <1>b, <2>5, SameContents
  <2> QED BY <2>1, <2>2, <2>3, <2>4, <2>5, MemoryStep
<1> QED BY <1>1, <1>2, InvStep, InvInductive, PTL DEF Spec, ShmIsStack, Shm!Spec

-----------------------------------------------------------------------------
\* For every size and mapping, and however the child ends: nothing is popped from
\* the shared stack while the child may still push.
THEOREM PopsComeAfter == Spec => PopsAfterPushes
<1> DEFINE Early == stack'["shm"].pos < stack["shm"].pos /\ stack["shm"].size # 0
<1>1. Inv /\ [Next]_vars => [Early => ChildEnded]_vars
  <2> SUFFICES ASSUME Inv, [Next]_vars, Early PROVE ChildEnded
    OBVIOUS
  <2>t. TypeOK /\ ShmInv /\ Control /\ "heap" \in Blocks /\ "shm" \in Blocks
    BY DEF Inv, Blocks
  <2>0. stack["shm"].pos \in Int /\ "heap" # "shm"
    BY <2>t DEF TypeOK, ISTACK
  <2>1. CASE LocalCreate \/ LocalPush \/ LocalPop
    <3>1. stack'["shm"] = stack["shm"]
      BY <2>1, <2>t, <2>0, OtherBlock
         DEF LocalCreate, LocalPush, LocalPop, PushRefused, PopRefused, memory, TypeOK
    <3> QED BY <2>0, <3>1
  <2>2. CASE ParentPop
    BY <2>2, <2>t DEF ParentPop, Control, ChildEnded
  <2>3. CASE ChildInit \/ KilledInInit
    BY <2>3, <2>t DEF ChildInit, KilledInInit, ShmInv, Fresh, ZeroStack
  <2>4. CASE ChildPush \/ KilledInPush
    <3>1. stack'["shm"].pos \in {stack["shm"].pos, stack["shm"].pos + 1}
      <4>1. stack["shm"] \in ISTACK /\ stack \in [Blocks -> ISTACK]
        BY <2>t DEF TypeOK
      <4>2. \/ stack' = stack
            \/ stack' = [stack EXCEPT !["shm"] = [stack["shm"] EXCEPT !.pos = @ + 1]]
        BY <2>4 DEF ChildPush, KilledInPush, PushItem, PushRefused, PushFaults, PushTorn, memory
      <4> QED BY <2>t, <4>1, <4>2 DEF ISTACK
    <3> QED BY <2>0, <3>1
  <2>5. CASE UNCHANGED <<stack, word, pushes>>
    BY <2>0, <2>5
  <2> QED BY <2>1, <2>2, <2>3, <2>4, <2>5, MemoryStep
<1> QED BY <1>1, InvInductive, PTL DEF Spec, PopsAfterPushes
=============================================================================

------------------------------ MODULE ShmStack -------------------------------
(***************************************************************************)
(* starter/shm/shm_stack.c (Lab3/shm_stack.c is the same file): a stack of *)
(* integers in one block of memory, the ISTACK first.  An address is a     *)
(* number of ints from the start of the block, so items is an offset.      *)
(***************************************************************************)
EXTENDS Integers

CONSTANTS
  STRUCT,  \* sizeof(ISTACK) in ints: 16 bytes, 4 ints
  INT      \* sizeof(int) in bytes: 4

ASSUME LayoutAssumption == STRUCT \in Nat \ {0} /\ INT \in Nat \ {0}

\* An ISTACK.  A fresh segment reads as zeros: pos is 0, not -1, and items NULL.
NULL      == -1
ISTACK    == [size : Nat, pos : Int, items : Int]
ZeroStack == [size |-> 0, pos |-> 0, items |-> NULL]

\* In ints.
sizeof_shm_stack(n) == STRUCT + n

\* create_stack(n): items is (char *)p + sizeof(ISTACK).
create_stack(n) == [size |-> n, pos |-> -1, items |-> STRUCT]

\* Mutant: pos is left as the segment has it.
InitWithoutPos(n) == [size |-> n, pos |-> 0, items |-> STRUCT * STRUCT * INT]

\* init_shm_stack(p, n): items is p + sizeof(ISTACK), and p is an ISTACK *, so
\* this counts sizeof(ISTACK) structures and not bytes.
init_shm_stack(n) == [size |-> n, pos |-> -1, items |-> STRUCT * STRUCT * INT]

\* What init_shm_stack has stored when it is cut off before its last store.
half_init(n) == {[ZeroStack EXCEPT !.size = n], [ZeroStack EXCEPT !.size = n, !.pos = -1]}

\* Mutant: one item too many.
IsFullTooLate(s) == s.pos = s.size

is_full(s) == s.pos = s.size - 1

is_empty(s) == s.pos = -1

\* The address of items[pos].
Top(s) == s.items + s.pos
=============================================================================

---------------------------- MODULE BoundedStack -----------------------------
(***************************************************************************)
(* What a stack of integers promises its users: items come off in the      *)
(* reverse of the order they went on, and there are never more of them     *)
(* than it was made for.                                                   *)
(***************************************************************************)
EXTENDS Integers, Sequences

CONSTANTS
  Capacity,  \* the number of items it was made for
  Items      \* what is pushed

VARIABLE stack

Init == stack = <<>>

Push == Len(stack) < Capacity /\ \E x \in Items : stack' = Append(stack, x)

Pop == stack # <<>> /\ stack' = SubSeq(stack, 1, Len(stack) - 1)

Next == Push \/ Pop

Spec == Init /\ [][Next]_stack
=============================================================================

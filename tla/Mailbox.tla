------------------------------- MODULE Mailbox -------------------------------
(***************************************************************************)
(* What a process promises that waits for another one and then reads what  *)
(* it left in shared memory: a result that only grows while the mailbox is *)
(* open, and of which some beginning is taken once, after it was closed.   *)
(***************************************************************************)
EXTENDS Naturals

CONSTANT Labels  \* what a result may be called

VARIABLES
  open,   \* whether the writer may still write
  given,  \* bytes of the result written so far
  label,  \* what the result is called
  taken   \* <<>> or <<bytes taken, label>>

mailbox == <<open, given, label, taken>>

Init == open = TRUE /\ given = 0 /\ label \in Labels /\ taken = <<>>

Give ==
  /\ open = TRUE
  /\ given' \in Nat /\ given' >= given
  /\ label' \in Labels
  /\ UNCHANGED <<open, taken>>

Close == open = TRUE /\ open' = FALSE /\ UNCHANGED <<given, label, taken>>

Take ==
  /\ open = FALSE /\ taken = <<>>
  /\ \E n \in 0 .. given : taken' = <<n, label>>
  /\ UNCHANGED <<open, given, label>>

Next == Give \/ Close \/ Take

Spec == Init /\ [][Next]_mailbox
=============================================================================

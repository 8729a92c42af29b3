---------------------------- MODULE Paster2Claims ----------------------------
(***************************************************************************)
(* What paster2 delivers in the end: first what is true of it, then what   *)
(* comments and output of the repository say of it and the code does not   *)
(* do.  Each of the latter is checked, and refuted, by a run of its own.   *)
(***************************************************************************)
EXTENDS Paster2

\* The parts the consumer has taken: those counted and not left in items.
Taken == {k \in 0 .. NUM_PARTS - 1 : k < counter - items}

\* When the network delivers every part whole and nobody dies, the image that catpng()
\* deflates has exactly the strips of the parts the consumer took during the
\* first lap of the ring, and length_all counts exactly those: parts left in
\* the ring when the consumer stops, and every part after the first lap, whose
\* bytes it looks for in a segment of its own, are missing.
AssembledParts ==
  net = {"whole"} /\ main_pc = "catpng" /\ ~Abnormal =>
    /\ WholeStrips = {k \in Taken : k < buf_size}
    /\ length_all = Cardinality(WholeStrips)

-----------------------------------------------------------------------------
(* Refuted by the code. *)

\* catpng() is "compressing data of all PNG" (paster2.c:341): when it starts and
\* every transfer was whole, the strip of every part is in idat_data.
AllPartsAssembled ==
  main_pc = "catpng" /\ ~Abnormal => WholeStrips = 0 .. NUM_PARTS - 1

\* The consumer is about to "get data from producer" (paster2.c:279): the bytes
\* it takes from a slot that holds a part are the bytes of that part.
ConsumerGetsData ==
  \A c \in Consumers :
    pc[c] = "add" => chunk[c].kind = "whole" /\ chunk[c].part = temp[c].seq

\* idat_data is laid out as height_all rows of width*4+1 bytes (paster2.c:67), a
\* strip of 6 of them for each part: bytes of a part are in its own strip.
StripIntegrity ==
  \A x \in Cells :
    idat_data[x].part >= 0 =>
      idat_data[x].part * STRIP <= x /\ x < (idat_data[x].part + 1) * STRIP

\* "Child cpid[%d]=%d terminated with state: %d.", if WIFEXITED (paster2.c:156-157):
\* a line is printed for each child that has exited and for no other.
ReportsExits ==
  main_pc = "catpng" => reported = {c \in Children : status[c] = "exit"}
=============================================================================

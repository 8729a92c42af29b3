------------------------------ MODULE PartStrip ------------------------------
(***************************************************************************)
(* What idat_initialize gets out of the bytes of a slot, at the level of   *)
(* detail of the ring: Paster2 builds on it, StripPath shows byte by byte  *)
(* that retrieve_chunk and mem_inf deliver nothing else.                   *)
(***************************************************************************)
EXTENDS PartTransfer

CONSTANTS
  STRIP,       \* cells of one inflated strip, 6*(400*4+1) bytes
  MaxInflated  \* most cells the bytes of a slot inflate to

ASSUME StripAssumption ==
  STRIP \in Nat \ {0} /\ MaxInflated \in Nat /\ STRIP <= MaxInflated

\* idat->length in units of one strip's IDAT chunk.
IdatLength(d) == IF d.kind \in {"whole", "cut"} THEN 1 ELSE 0

(***************************************************************************)
(* mem_inf on the chunk: n is what it leaves in uncompressed_size, cell    *)
(* what the first n cells of temp_data hold.  On a data error it returns   *)
(* early, so n keeps its initial value and temp_data is uninitialized.  A  *)
(* stream that ends early gives less than a strip.  Zeros behind it may    *)
(* give more: nothing stops mem_inf at the end of temp_data, and where the *)
(* consumer survives that, n is longer than a strip.                       *)
(***************************************************************************)
Inflated(d) ==
  CASE d.kind = "whole" -> {[n |-> STRIP, cell |-> d]}
    [] d.kind = "cut"   -> {[n |-> m, cell |-> d] : m \in 0 .. MaxInflated}
                           \cup {[n |-> STRIP, cell |-> Junk]}
    [] OTHER            -> {[n |-> 0, cell |-> Zero]}
=============================================================================

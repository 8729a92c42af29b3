--------------------------------- MODULE Crc ---------------------------------
(***************************************************************************)
(* crc.c: the CRC of a PNG chunk with a table, a byte at a time, and what  *)
(* it should be: the remainder of a division of polynomials over GF(2).    *)
(***************************************************************************)
EXTENDS Integers, Sequences

CONSTANTS
  BYTE_BITS,  \* bits of a byte, 8
  CRC_BITS,   \* bits of the CRC, 32
  POLY        \* the generator, bits reversed, 0xedb88320

\* A number is the set of the positions of its ones: ^ is Toggled, >> is Shifted,
\* & with the byte of ones an intersection.
WordBits == 0 .. CRC_BITS - 1
ByteBits == 0 .. BYTE_BITS - 1

ASSUME CrcAssumption ==
  /\ BYTE_BITS \in Nat \ {0} /\ CRC_BITS \in Nat /\ CRC_BITS >= BYTE_BITS
  /\ POLY \subseteq WordBits

Toggled(S, T) == (S \ T) \cup (T \ S)
Shifted(S, k) == {j \in WordBits : j + k \in S}

\* One round of make_crc_table's inner loop.
Halved(c) == IF 0 \in c THEN Toggled(POLY, Shifted(c, 1)) ELSE Shifted(c, 1)

crc_table ==
  [n \in SUBSET ByteBits |->
     LET c[k \in 0 .. BYTE_BITS] == IF k = 0 THEN n ELSE Halved(c[k - 1])
     IN c[BYTE_BITS]]

\* Mutant: the low byte is not shifted out.
update_crc_unshifted(start, s) ==
  LET c[n \in 0 .. Len(s)] ==
        IF n = 0 THEN start
        ELSE LET before == c[n - 1]
             IN Toggled(crc_table[Toggled(before, s[n]) \cap ByteBits], before)
  IN c[Len(s)]

update_crc(start, s) ==
  LET c[n \in 0 .. Len(s)] ==
        IF n = 0 THEN start
        ELSE LET before == c[n - 1]
             IN Toggled(crc_table[Toggled(before, s[n]) \cap ByteBits],
                        Shifted(before, BYTE_BITS))
  IN c[Len(s)]

crc(s) == Toggled(update_crc(WordBits, s), WordBits)

-----------------------------------------------------------------------------
(* The definition, bit by bit: the positions of the ones, first bit first. *)

\* The bits of s, low bit of each byte first.
Bits(s) == UNION {{(k - 1) * BYTE_BITS + j + 1 : j \in s[k]} : k \in 1 .. Len(s)}

\* Long division: wherever a bit of the message is left, the generator is
\* subtracted from there on.
Generator(p) == {p} \cup {p + j + 1 : j \in POLY}
Remainder(s) ==
  LET left[p \in 0 .. Len(s) * BYTE_BITS] ==
        IF p = 0 THEN Toggled(Bits(s), 1 .. CRC_BITS)
        ELSE LET before == left[p - 1]
             IN IF p \in before THEN Toggled(before, Generator(p)) ELSE before
  IN left[Len(s) * BYTE_BITS]

\* The remainder with its bits inverted, the first one lowest.
ReferenceCrc(s) == {b \in WordBits : Len(s) * BYTE_BITS + b + 1 \notin Remainder(s)}
=============================================================================

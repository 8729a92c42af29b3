----------------------------- MODULE MCGetCurl -------------------------------
(***************************************************************************)
(* The way of one part, and the checksum of what arrives.  Bodies: all     *)
(* short ones; the part itself; error pages, and data with every other     *)
(* byte NUL, of every length up to BUF_SIZE + 1, which no longer fits.     *)
(***************************************************************************)
EXTENDS StripPath, Crc

MCStream == <<7, 0, 2, 0, 15, 1>>

Text(n)    == [k \in 1 .. n |-> 1]
Striped(n) == [k \in 1 .. n |-> k % 2]
Short      == UNION {[1 .. n -> {NUL, 1}] : n \in 0 .. 6}

MCResponses ==
  [fragment : BOOLEAN,
   body : Short \cup {PartBody}
          \cup {Text(n) : n \in 1 .. BUF_SIZE + 1} \cup {Striped(n) : n \in 1 .. BUF_SIZE + 1}]

\* The bytes of b as their bits.
Binary(b) == [k \in DOMAIN b |-> {j \in ByteBits : (b[k] \div 2 ^ j) % 2 = 1}]

\* The table-driven CRC of crc.c is the remainder of the division, for each of the
\* bodies, the part and its stream among them.
CrcIsRemainder ==
  pc = "init" =>
    /\ crc(Binary(response.body)) = ReferenceCrc(Binary(response.body))
    /\ crc(Binary(STREAM)) = ReferenceCrc(Binary(STREAM))

=============================================================================

------------------------------ MODULE CrcProofs ------------------------------
(***************************************************************************)
(* The CRC of crc.c for messages of every length.  A register of crc.c is  *)
(* a window on the long division, and the window moves a bit with every    *)
(* round that went into the table.                                         *)
(*                                                                         *)
(* Recursive functions and loops are reasoned about as runs: a function    *)
(* that satisfies its own recursive definition exists (RunExists), so the  *)
(* definition denotes one, and any that does is it (RunStays).             *)
(***************************************************************************)
EXTENDS Crc, WellFoundedInduction, TLAPS

-----------------------------------------------------------------------------
(* Induction and recursion. *)

\* Induction over the naturals, with a set in place of a predicate.
LEMMA SetInduction ==
  ASSUME NEW T \in SUBSET Nat, 0 \in T, \A n \in T : n + 1 \in T
  PROVE  T = Nat
<1> SUFFICES ASSUME Nat \ T # {} PROVE FALSE
  OBVIOUS
<1> DEFINE R == OpToRel(<, Nat)
<1>1. IsWellFoundedOn(R, Nat)
  BY NatLessThanWellFounded
<1>2. \A m, n \in Nat : m < n => <<m, n>> \in R
  BY DEF OpToRel
<1> HIDE DEF R
<1>3. PICK x \in Nat \ T : \A y \in Nat \ T : ~(<<y, x>> \in R)
  BY <1>1, WFMin
<1>4. x # 0 /\ x - 1 \in Nat /\ x - 1 < x
  OBVIOUS
<1>5. x - 1 \in T
  BY <1>2, <1>3, <1>4
<1> QED BY <1>3, <1>4, <1>5

\* f is the run of the steps step[1] to step[N] from a, all of it inside S.
IsRun(f, N, S, a, step) ==
  /\ f \in [0 .. N -> S] /\ f[0] = a
  /\ \A k \in 1 .. N : f[k] = step[k][f[k - 1]]

\* Iteration: from a, step[1] to step[N] one after the other.
LEMMA RunExists ==
  ASSUME NEW N \in Nat, NEW S, NEW a \in S, NEW step \in [1 .. N -> [S -> S]]
  PROVE  \E f : IsRun(f, N, S, a, step)
<1> DEFINE Good(n, f) == f[0] = a /\ \A k \in 1 .. n : f[k] = step[k][f[k - 1]]
           T == {n \in Nat : n <= N => \E f \in [0 .. n -> S] : Good(n, f)}
<1>1. 0 \in T
  <2> DEFINE g == [k \in 0 .. 0 |-> a]
  <2>1. g \in [0 .. 0 -> S] /\ Good(0, g)
    OBVIOUS
  <2> HIDE DEF g, Good
  <2> QED BY <2>1
<1>2. ASSUME NEW n \in T PROVE n + 1 \in T
  <2> SUFFICES ASSUME n + 1 <= N PROVE \E f \in [0 .. n + 1 -> S] : Good(n + 1, f)
    OBVIOUS
  <2>1. PICK f \in [0 .. n -> S] : Good(n, f)
    BY <1>2
  <2> DEFINE g == [k \in 0 .. n + 1 |-> IF k = n + 1 THEN step[n + 1][f[n]] ELSE f[k]]
  <2>2. n \in Nat /\ n + 1 \in 1 .. N /\ step[n + 1] \in [S -> S] /\ f[n] \in S
    OBVIOUS
  <2>3. g \in [0 .. n + 1 -> S]
    BY <2>2
  <2>4. \A k \in 0 .. n : g[k] = f[k]
    OBVIOUS
  <2>5. g[n + 1] = step[n + 1][g[n]]
    BY <2>2, <2>4
  <2>6. Good(n + 1, g)
    <3> HIDE DEF g
    <3>1. g[0] = a
      BY <2>1, <2>2, <2>4
    <3>2. ASSUME NEW k \in 1 .. n + 1 PROVE g[k] = step[k][g[k - 1]]
      <4>1. CASE k = n + 1
        BY <4>1, <2>5, <2>2
      <4>2. CASE k # n + 1
        <5>1. k \in 1 .. n /\ k - 1 \in 0 .. n /\ k \in 0 .. n
          BY <4>2, <2>2
        <5> QED BY <5>1, <2>1, <2>4
      <4> QED BY <4>1, <4>2
    <3> QED BY <3>1, <3>2
  <2> HIDE DEF g, Good
  <2> QED BY <2>3, <2>6
<1> HIDE DEF Good
<1>3. T = Nat
  <2> HIDE DEF T
  <2>1. T \in SUBSET Nat
    BY DEF T
  <2> QED BY <1>1, <1>2, <2>1, SetInduction
<1>4. N \in T
  BY <1>3
<1>5. \E f \in [0 .. N -> S] : Good(N, f)
  BY <1>4
<1> QED BY <1>5 DEF Good, IsRun

\* A recursive definition that applies step[k] wherever it is defined is that run.
LEMMA RunStays ==
  ASSUME NEW N \in Nat, NEW S, NEW a \in S, NEW step \in [1 .. N -> [S -> S]], NEW f,
         f = [k \in 0 .. N |-> f[k]], f[0] = a,
         \A k \in 1 .. N : f[k - 1] \in S => f[k] = step[k][f[k - 1]]
  PROVE  IsRun(f, N, S, a, step)
<1> DEFINE T == {n \in Nat : n <= N => f[n] \in S}
<1>1. 0 \in T
  OBVIOUS
<1>2. ASSUME NEW n \in T PROVE n + 1 \in T
  <2> SUFFICES ASSUME n + 1 <= N PROVE f[n + 1] \in S
    OBVIOUS
  <2>1. n + 1 \in 1 .. N /\ f[n] \in S /\ (n + 1) - 1 = n
    OBVIOUS
  <2>2. f[n + 1] = step[n + 1][f[n]] /\ step[n + 1] \in [S -> S]
    BY <2>1
  <2> QED BY <2>1, <2>2
<1>3. T = Nat
  <2> HIDE DEF T
  <2>1. T \in SUBSET Nat
    BY DEF T
  <2> QED BY <1>1, <1>2, <2>1, SetInduction
<1>4. \A k \in 0 .. N : f[k] \in S
  <2> SUFFICES ASSUME NEW k \in 0 .. N PROVE f[k] \in S
    OBVIOUS
  <2>1. k \in T
    BY <1>3
  <2> QED BY <2>1
<1>5. f \in [0 .. N -> S]
  <2> DEFINE g == [k \in 0 .. N |-> f[k]]
  <2>1. g \in [0 .. N -> S]
    BY <1>4
  <2> HIDE DEF g
  <2>2. f = g
    BY DEF g
  <2> QED BY <2>1, <2>2
<1>6. ASSUME NEW k \in 1 .. N PROVE f[k] = step[k][f[k - 1]]
  <2>1. f[k - 1] \in S
    BY <1>4
  <2> QED BY <2>1
<1> QED BY <1>5, <1>6 DEF IsRun

-----------------------------------------------------------------------------
(* The table. *)

\* Every operator of crc.c gives a word when it is given words.
LEMMA WordOperators ==
  /\ ByteBits \subseteq WordBits
  /\ \A w \in SUBSET WordBits : Halved(w) \in SUBSET WordBits
  /\ \A S \in SUBSET WordBits : \A T \in SUBSET WordBits : Toggled(S, T) \in SUBSET WordBits
  /\ \A S, k : Shifted(S, k) \in SUBSET WordBits
<1>1. ByteBits \subseteq WordBits
  BY CrcAssumption DEF WordBits, ByteBits
<1>2. \A S \in SUBSET WordBits : \A T \in SUBSET WordBits : Toggled(S, T) \in SUBSET WordBits
  BY DEF Toggled
<1>3. \A S, k : Shifted(S, k) \in SUBSET WordBits
  BY DEF Shifted
<1>4. \A w \in SUBSET WordBits : Halved(w) \in SUBSET WordBits
  BY <1>2, <1>3, CrcAssumption DEF Halved
<1> QED BY <1>1, <1>2, <1>3, <1>4

\* f[k] is x after k rounds of make_crc_table's inner loop.
IsRounds(f, x) ==
  /\ f \in [0 .. BYTE_BITS -> SUBSET WordBits] /\ f[0] = x
  /\ \A k \in 1 .. BYTE_BITS : f[k] = Halved(f[k - 1])

\* An entry of crc_table is the outcome of the eight rounds of make_crc_table.
LEMMA Table ==
  ASSUME NEW x \in SUBSET ByteBits
  PROVE  \E f : IsRounds(f, x) /\ crc_table[x] = f[BYTE_BITS]
<1> DEFINE S == SUBSET WordBits
           step == [k \in 1 .. BYTE_BITS |-> [w \in S |-> Halved(w)]]
           Body(c) == [k \in 0 .. BYTE_BITS |-> IF k = 0 THEN x ELSE Halved(c[k - 1])]
           f == CHOOSE c : c = Body(c)
<1>1. BYTE_BITS \in Nat /\ x \in S /\ \A w \in S : Halved(w) \in S
  BY CrcAssumption, WordOperators
<1>2. step \in [1 .. BYTE_BITS -> [S -> S]]
      /\ \A k \in 1 .. BYTE_BITS : \A w \in S : step[k][w] = Halved(w)
  <2> HIDE DEF S
  <2> QED BY <1>1
<1>3. PICK g : IsRun(g, BYTE_BITS, S, x, step)
  <2> HIDE DEF S, step, Body, f
  <2> QED BY <1>1, <1>2, RunExists
<1>4. g = Body(g)
  <2> HIDE DEF S, step, f
  <2>1. \A k \in 1 .. BYTE_BITS : k - 1 \in 0 .. BYTE_BITS /\ g[k - 1] \in S
    BY <1>1, <1>3 DEF IsRun
  <2>2. \A k \in 1 .. BYTE_BITS : g[k] = Halved(g[k - 1])
    BY <1>2, <1>3, <2>1 DEF IsRun
  <2>3. g = [k \in 0 .. BYTE_BITS |-> g[k]] /\ g[0] = x
    BY <1>3 DEF IsRun
  <2>4. \A k \in 0 .. BYTE_BITS : g[k] = IF k = 0 THEN x ELSE Halved(g[k - 1])
    <3> TAKE k \in 0 .. BYTE_BITS
    <3>1. CASE k = 0
      BY <2>3, <3>1
    <3>2. CASE k # 0
      <4>1. k \in 1 .. BYTE_BITS
        BY <1>1, <3>2
      <4> QED BY <2>2, <3>2, <4>1
    <3> QED BY <3>1, <3>2
  <2> QED BY <2>3, <2>4
<1>5. f = Body(f)
  <2> HIDE DEF Body
  <2> QED BY <1>4
<1>6. crc_table[x] = f[BYTE_BITS]
  BY DEF crc_table
<1> HIDE DEF f
<1>7. f = [k \in 0 .. BYTE_BITS |-> f[k]] /\ f[0] = x
      /\ \A k \in 1 .. BYTE_BITS : f[k] = Halved(f[k - 1])
  <2>1. \A k \in 0 .. BYTE_BITS : f[k] = IF k = 0 THEN x ELSE Halved(f[k - 1])
    BY <1>5
  <2>2. f = [k \in 0 .. BYTE_BITS |-> f[k]]
    BY <1>5
  <2>3. f[0] = x
    BY <1>1, <2>1
  <2>4. \A k \in 1 .. BYTE_BITS : f[k] = Halved(f[k - 1])
    BY <1>1, <2>1
  <2> QED BY <2>2, <2>3, <2>4
<1>8. IsRun(f, BYTE_BITS, S, x, step)
  <2> HIDE DEF S, step
  <2> QED BY <1>1, <1>2, <1>7, RunStays
<1>9. IsRounds(f, x)
  <2> HIDE DEF step
  <2> QED BY <1>7, <1>8 DEF IsRun, IsRounds
<1> QED BY <1>6, <1>9

\* The rounds do not touch what lies above the low byte, except that they shift it.
LEMMA SplitRound ==
  ASSUME NEW w \in SUBSET WordBits, NEW x \in SUBSET WordBits,
         NEW k \in 0 .. BYTE_BITS - 1
  PROVE  Halved(Toggled(w, Shifted(x \ ByteBits, k)))
           = Toggled(Halved(w), Shifted(x \ ByteBits, k + 1))
<1> DEFINE high == Shifted(x \ ByteBits, k)
<1>1. CRC_BITS \in Nat /\ BYTE_BITS \in Nat /\ k \in Nat
  BY CrcAssumption
<1>2. 0 \notin high
  BY <1>1 DEF Shifted, ByteBits
<1>3. Shifted(x \ ByteBits, k + 1) = Shifted(high, 1)
  <2> SUFFICES ASSUME NEW j \in WordBits
      PROVE j + (k + 1) \in x \ ByteBits <=> j + 1 \in high
    BY DEF Shifted
  <2>1. j \in Nat /\ j + (k + 1) = (j + 1) + k
    BY <1>1 DEF WordBits
  <2>2. j + (k + 1) \in x => j + 1 \in WordBits
    BY <1>1, <2>1 DEF WordBits
  <2> QED BY <2>1, <2>2 DEF Shifted
<1> HIDE DEF high
<1>4. Shifted(Toggled(w, high), 1) = Toggled(Shifted(w, 1), Shifted(high, 1))
  BY DEF Shifted, Toggled
<1>5. 0 \in Toggled(w, high) <=> 0 \in w
  BY <1>2 DEF Toggled
<1>6. Toggled(POLY, Toggled(Shifted(w, 1), Shifted(high, 1)))
        = Toggled(Toggled(POLY, Shifted(w, 1)), Shifted(high, 1))
  BY DEF Toggled
<1> QED BY <1>3, <1>4, <1>5, <1>6 DEF Halved, high

-----------------------------------------------------------------------------
(* The long division. *)

\* left[p] is what is left of s once the generator was tried at the first p bits.
IsDivision(left, s) ==
  /\ left \in [0 .. Len(s) * BYTE_BITS -> SUBSET Nat]
  /\ left[0] = Toggled(Bits(s), 1 .. CRC_BITS)
  /\ \A p \in 1 .. Len(s) * BYTE_BITS :
       left[p] = IF p \in left[p - 1] THEN Toggled(left[p - 1], Generator(p)) ELSE left[p - 1]

\* The CRC register at bit p of the division, when the bits of s up to m were read:
\* those of the division that follow p, less those of s it has not seen.
Window(left, s, p, m) ==
  {j \in WordBits : ~(p + j + 1 \in left[p] <=> p + j + 1 \in Bits(s) /\ p + j + 1 > m)}

\* Subtracting the generator at p changes no bit beyond p + CRC_BITS.
LEMMA Untouched ==
  ASSUME NEW s \in Seq(SUBSET ByteBits), NEW left, IsDivision(left, s),
         Len(s) * BYTE_BITS \in Nat
  PROVE  \A p \in 0 .. Len(s) * BYTE_BITS : \A q \in Nat :
           q > p + CRC_BITS => (q \in left[p] <=> q \in Bits(s))
<1> DEFINE L == Len(s) * BYTE_BITS
           B == Bits(s)
           T == {p \in Nat : p <= L => \A q \in Nat : q > p + CRC_BITS => (q \in left[p] <=> q \in B)}
<1>0. L \in Nat /\ CRC_BITS \in Nat /\ IsDivision(left, s)!2 /\ IsDivision(left, s)!3
  BY CrcAssumption DEF IsDivision
<1>1. 0 \in T
  BY <1>0 DEF Toggled
<1>2. ASSUME NEW p \in T PROVE p + 1 \in T
  <2> SUFFICES ASSUME p + 1 <= L, NEW q \in Nat, q > p + 1 + CRC_BITS
      PROVE q \in left[p + 1] <=> q \in B
    OBVIOUS
  <2>1. q \in left[p] <=> q \in B
    BY <1>0
  <2>2. p + 1 \in 1 .. L /\ (p + 1) - 1 = p
    BY <1>0
  <2>3. q \notin Generator(p + 1)
    BY <1>0, CrcAssumption DEF Generator, WordBits
  <2>4. left[p + 1] = left[p] \/ left[p + 1] = Toggled(left[p], Generator(p + 1))
    BY <1>0, <2>2
  <2> HIDE DEF B, L, T
  <2> QED BY <2>1, <2>3, <2>4 DEF Toggled
<1>3. T = Nat
  <2> HIDE DEF T
  <2>1. T \in SUBSET Nat
    BY DEF T
  <2> QED BY <1>1, <1>2, <2>1, SetInduction
<1> HIDE DEF B, L
<1> SUFFICES ASSUME NEW p \in 0 .. L
    PROVE \A q \in Nat : q > p + CRC_BITS => (q \in left[p] <=> q \in B)
  BY DEF B, L
<1>4. p \in Nat
  BY <1>0
<1>5. p \in T
  BY <1>3, <1>4
<1> QED BY <1>5

\* One round of the inner loop is one step of the long division, as long as the bits
\* of the message up to the window's end are in the register.
LEMMA HalvedWindow ==
  ASSUME NEW s \in Seq(SUBSET ByteBits), NEW left, IsDivision(left, s),
         Len(s) * BYTE_BITS \in Nat,
         NEW p \in Nat, NEW m \in Nat, p < m, m <= Len(s) * BYTE_BITS,
         m <= p + CRC_BITS
  PROVE  Halved(Window(left, s, p, m)) = Window(left, s, p + 1, m)
<1> DEFINE w == Window(left, s, p, m)
           B == Bits(s)
           L == Len(s) * BYTE_BITS
<1>0. CRC_BITS \in Nat \ {0} /\ L \in Nat /\ p \in 0 .. L /\ p + 1 \in 1 .. L
      /\ (p + 1) - 1 = p
  BY CrcAssumption
<1>1. 0 \in w <=> p + 1 \in left[p]
  BY <1>0 DEF Window, WordBits
<1>2. left[p + 1] = IF p + 1 \in left[p] THEN Toggled(left[p], Generator(p + 1)) ELSE left[p]
  BY <1>0 DEF IsDivision
<1> SUFFICES ASSUME NEW j \in WordBits
    PROVE j \in Halved(w) <=> j \in Window(left, s, p + 1, m)
  <2>1. Halved(w) \in SUBSET WordBits /\ w \in SUBSET WordBits
    BY WordOperators DEF Window
  <2> QED BY <2>1 DEF Window
<1> DEFINE q == p + 1 + j + 1
<1>3. j \in Nat /\ j < CRC_BITS /\ q = p + (j + 1) + 1 /\ q \in Nat
  BY <1>0 DEF WordBits
<1>4. j \in Window(left, s, p + 1, m) <=> ~(q \in left[p + 1] <=> q \in B /\ q > m)
  BY DEF Window
<1>5. j \in Shifted(w, 1) <=> ~(q \in left[p] <=> q \in B /\ q > m)
  <2>1. CASE j + 1 \in WordBits
    BY <2>1, <1>3 DEF Shifted, Window
  <2>2. CASE j + 1 \notin WordBits
    <3>1. j + 1 = CRC_BITS
      BY <2>2, <1>0, <1>3 DEF WordBits
    <3>2. q > p + CRC_BITS /\ q > m
      BY <3>1, <1>0, <1>3
    <3>3. q \in left[p] <=> q \in B
      BY <3>2, <1>0, <1>3, Untouched
    <3>4. j \notin Shifted(w, 1)
      BY <2>2 DEF Shifted, Window
    <3> QED BY <3>2, <3>3, <3>4
  <2> QED BY <2>1, <2>2
<1>6. q \in Generator(p + 1) <=> j \in POLY
  <2>1. j \in Nat /\ POLY \subseteq Nat
    BY CrcAssumption DEF WordBits
  <2>2. q # p + 1 /\ \A i \in Nat : q = p + 1 + i + 1 => i = j
    BY <2>1
  <2>3. q \in Generator(p + 1) <=> \E i \in POLY : q = p + 1 + i + 1
    BY <2>2 DEF Generator
  <2> HIDE DEF q
  <2>4. q = p + 1 + j + 1
    BY DEF q
  <2> QED BY <2>1, <2>2, <2>3, <2>4
<1> HIDE DEF w, B, L, q
<1>7. CASE p + 1 \in left[p]
  <2>1. j \in Halved(w) <=> ~(j \in POLY <=> j \in Shifted(w, 1))
    BY <1>7, <1>1 DEF Halved, Toggled
  <2>2. q \in left[p + 1] <=> ~(q \in left[p] <=> q \in Generator(p + 1))
    BY <1>7, <1>2 DEF Toggled
  <2> QED BY <1>4, <1>5, <1>6, <2>1, <2>2
<1>8. CASE p + 1 \notin left[p]
  <2>1. Halved(w) = Shifted(w, 1) /\ left[p + 1] = left[p]
    BY <1>8, <1>1, <1>2 DEF Halved
  <2> QED BY <1>4, <1>5, <2>1
<1> QED BY <1>7, <1>8

\* Remainder is what is left by a division that goes on step by step.
LEMMA DivisionExists ==
  ASSUME NEW s \in Seq(SUBSET ByteBits), Len(s) * BYTE_BITS \in Nat, Bits(s) \in SUBSET Nat
  PROVE  \E left : IsDivision(left, s) /\ Remainder(s) = left[Len(s) * BYTE_BITS]
<1> DEFINE S == SUBSET Nat
           L == Len(s) * BYTE_BITS
           a == Toggled(Bits(s), 1 .. CRC_BITS)
           Then(p, x) == IF p \in x THEN Toggled(x, Generator(p)) ELSE x
           step == [p \in 1 .. L |-> [x \in S |-> Then(p, x)]]
           Body(c) == [p \in 0 .. L |->
                         IF p = 0 THEN a
                         ELSE IF p \in c[p - 1] THEN Toggled(c[p - 1], Generator(p))
                              ELSE c[p - 1]]
           f == CHOOSE c : c = Body(c)
<1>1. L \in Nat /\ a \in S /\ \A p \in 1 .. L : \A x \in S : Then(p, x) \in S
  <2>1. CRC_BITS \in Nat /\ L \in Nat
    BY CrcAssumption
  <2>2. \A p \in Nat : Generator(p) \in SUBSET Nat
    BY <2>1, CrcAssumption DEF Generator, WordBits
  <2>3. a \in SUBSET Nat
    BY <2>1 DEF Toggled
  <2>4. \A p \in 1 .. L : \A x \in S : Then(p, x) \in S
    BY <2>1, <2>2 DEF Toggled
  <2> QED BY <2>1, <2>3, <2>4
<1>2. step \in [1 .. L -> [S -> S]]
      /\ \A p \in 1 .. L : \A x \in S : step[p][x] = Then(p, x)
  <2> HIDE DEF S, L, Then
  <2> QED BY <1>1
<1>3. PICK g : IsRun(g, L, S, a, step)
  <2> HIDE DEF S, step, Body, f, L, a, Then
  <2> QED BY <1>1, <1>2, RunExists
<1>4. g = Body(g)
  <2> HIDE DEF S, step, f, L, a
  <2>1. \A p \in 1 .. L : p - 1 \in 0 .. L /\ g[p - 1] \in S
    BY <1>1, <1>3 DEF IsRun
  <2>2. \A p \in 1 .. L : g[p] = Then(p, g[p - 1])
    <3> HIDE DEF Then
    <3> QED BY <1>2, <1>3, <2>1 DEF IsRun
  <2>3. g = [p \in 0 .. L |-> g[p]] /\ g[0] = a
    BY <1>3 DEF IsRun
  <2>4. \A p \in 0 .. L : g[p] = IF p = 0 THEN a ELSE Then(p, g[p - 1])
    <3> TAKE p \in 0 .. L
    <3>1. CASE p = 0
      BY <2>3, <3>1
    <3>2. CASE p # 0
      <4>1. p \in 1 .. L
        BY <1>1, <3>2
      <4> QED BY <2>2, <3>2, <4>1
    <3> QED BY <3>1, <3>2
  <2> QED BY <2>3, <2>4
<1>5. f = Body(f)
  <2> HIDE DEF Body
  <2> QED BY <1>4
<1>6. Remainder(s) = f[L]
  BY DEF Remainder
<1> HIDE DEF f
<1>7. f = [p \in 0 .. L |-> f[p]] /\ f[0] = a
      /\ \A p \in 1 .. L : f[p] = Then(p, f[p - 1])
  <2> HIDE DEF L, a
  <2>1. \A p \in 0 .. L : f[p] = IF p = 0 THEN a ELSE Then(p, f[p - 1])
    BY <1>5
  <2>2. f = [p \in 0 .. L |-> f[p]]
    BY <1>5
  <2>3. f[0] = a
    BY <1>1, <2>1
  <2>4. \A p \in 1 .. L : f[p] = Then(p, f[p - 1])
    BY <1>1, <2>1
  <2> QED BY <2>2, <2>3, <2>4
<1>8. IsRun(f, L, S, a, step)
  <2> HIDE DEF S, step, L, a, Then
  <2> QED BY <1>1, <1>2, <1>7, RunStays
<1> QED BY <1>6, <1>7, <1>8 DEF IsRun, IsDivision

\* update_crc is its loop, a byte of the message at a time.
LEMMA UpdateRun ==
  ASSUME NEW s \in Seq(SUBSET ByteBits), NEW start \in SUBSET WordBits
  PROVE  \E c : /\ c \in [0 .. Len(s) -> SUBSET WordBits] /\ c[0] = start
                /\ \A n \in 1 .. Len(s) :
                     c[n] = Toggled(crc_table[Toggled(c[n - 1], s[n]) \cap ByteBits],
                                    Shifted(c[n - 1], BYTE_BITS))
                /\ update_crc(start, s) = c[Len(s)]
<1> DEFINE S == SUBSET WordBits
           L == Len(s)
           Then(n, x) == Toggled(crc_table[Toggled(x, s[n]) \cap ByteBits],
                                 Shifted(x, BYTE_BITS))
           step == [n \in 1 .. L |-> [x \in S |-> Then(n, x)]]
           Body(c) == [n \in 0 .. L |-> IF n = 0 THEN start
                                        ELSE Toggled(crc_table[Toggled(c[n - 1], s[n]) \cap ByteBits],
                                                     Shifted(c[n - 1], BYTE_BITS))]
           f == CHOOSE c : c = Body(c)
<1>0. L \in Nat /\ start \in S
  OBVIOUS
<1>1. ASSUME NEW n \in 1 .. L, NEW x \in S PROVE Then(n, x) \in S
  <2> DEFINE y == Toggled(x, s[n]) \cap ByteBits
  <2>1. PICK t : IsRounds(t, y) /\ crc_table[y] = t[BYTE_BITS]
    <3>1. y \in SUBSET ByteBits
      OBVIOUS
    <3> HIDE DEF y
    <3> QED BY <3>1, Table
  <2>2. crc_table[y] \in SUBSET WordBits
    BY <2>1, CrcAssumption DEF IsRounds
  <2> QED BY <2>2, WordOperators
<1>2. step \in [1 .. L -> [S -> S]]
      /\ \A n \in 1 .. L : \A x \in S : step[n][x] = Then(n, x)
  <2> HIDE DEF S, L, Then
  <2> QED BY <1>0, <1>1
<1>3. PICK g : IsRun(g, L, S, start, step)
  <2> HIDE DEF S, step, Body, f, L, Then
  <2> QED BY <1>0, <1>2, RunExists
<1>4. g = Body(g)
  <2> HIDE DEF S, step, f, L
  <2>1. \A n \in 1 .. L : n - 1 \in 0 .. L /\ g[n - 1] \in S
    BY <1>0, <1>3 DEF IsRun
  <2>2. \A n \in 1 .. L : g[n] = Then(n, g[n - 1])
    <3> HIDE DEF Then
    <3> QED BY <1>2, <1>3, <2>1 DEF IsRun
  <2>3. g = [n \in 0 .. L |-> g[n]] /\ g[0] = start
    BY <1>3 DEF IsRun
  <2>4. \A n \in 0 .. L : g[n] = IF n = 0 THEN start ELSE Then(n, g[n - 1])
    <3> TAKE n \in 0 .. L
    <3>1. CASE n = 0
      BY <2>3, <3>1
    <3>2. CASE n # 0
      <4>1. n \in 1 .. L
        BY <1>0, <3>2
      <4> QED BY <2>2, <3>2, <4>1
    <3> QED BY <3>1, <3>2
  <2> QED BY <2>3, <2>4
<1>5. f = Body(f)
  <2> HIDE DEF Body
  <2> QED BY <1>4
<1>6. update_crc(start, s) = f[L]
  BY DEF update_crc
<1> HIDE DEF f
<1>7. f = [n \in 0 .. L |-> f[n]] /\ f[0] = start
      /\ \A n \in 1 .. L : f[n] = Then(n, f[n - 1])
  <2> HIDE DEF L, S, step
  <2>1. \A n \in 0 .. L : f[n] = IF n = 0 THEN start ELSE Then(n, f[n - 1])
    BY <1>5
  <2>2. f = [n \in 0 .. L |-> f[n]]
    BY <1>5
  <2>0. 0 \in 0 .. L /\ \A n \in 1 .. L : n \in 0 .. L /\ n # 0
    BY <1>0
  <2> HIDE DEF Then
  <2>3. f[0] = start
    BY <2>0, <2>1
  <2>4. \A n \in 1 .. L : f[n] = Then(n, f[n - 1])
    BY <2>0, <2>1
  <2> QED BY <2>2, <2>3, <2>4
<1>8. IsRun(f, L, S, start, step)
  <2> HIDE DEF S, step, L, Then
  <2> QED BY <1>0, <1>2, <1>7, RunStays
<1> QED BY <1>6, <1>7, <1>8 DEF IsRun

-----------------------------------------------------------------------------
(* Register and division together. *)

\* Bit j of byte i of a message is bit i * BYTE_BITS + j of all of it.
LEMMA BitPositions ==
  ASSUME NEW s \in Seq(SUBSET ByteBits)
  PROVE  /\ Bits(s) \in SUBSET Nat
         /\ Len(s) * BYTE_BITS \in Nat
         /\ \A i \in 0 .. Len(s) - 1 :
              /\ i * BYTE_BITS \in Nat
              /\ (i + 1) * BYTE_BITS = i * BYTE_BITS + BYTE_BITS
              /\ (i + 1) * BYTE_BITS <= Len(s) * BYTE_BITS
              /\ \A j \in ByteBits : i * BYTE_BITS + j + 1 \in Bits(s) <=> j \in s[i + 1]
         /\ \A q \in Bits(s) : q <= Len(s) * BYTE_BITS
<1> DEFINE B == BYTE_BITS
           L == Len(s)
<1>0. B \in Nat /\ B > 0 /\ L \in Nat /\ \A k \in 1 .. L : s[k] \subseteq ByteBits
  BY CrcAssumption
<1>1. \A x, y \in Nat : x * B \in Nat /\ (x + 1) * B = x * B + B /\ (x <= y => x * B <= y * B)
  BY <1>0
<1>2. \A q : q \in Bits(s) <=> \E k \in 1 .. L : \E j \in s[k] : q = (k - 1) * B + j + 1
  BY DEF Bits
<1>3. \A j \in ByteBits : j \in Nat /\ j < B
  BY <1>0 DEF ByteBits
<1> HIDE DEF B, L
<1>4. ASSUME NEW k \in 1 .. L, NEW j \in s[k]
      PROVE  (k - 1) * B + j + 1 \in Nat /\ (k - 1) * B + j + 1 <= L * B
  <2>1. k - 1 \in Nat /\ (k - 1) + 1 = k /\ j \in Nat /\ j < B /\ k <= L
    BY <1>0, <1>3
  <2>2. (k - 1) * B \in Nat /\ k * B = (k - 1) * B + B /\ k * B <= L * B /\ L * B \in Nat
    BY <2>1, <1>0, <1>1
  <2> QED BY <2>1, <2>2, <1>0
<1>5. ASSUME NEW i \in 0 .. L - 1, NEW j \in ByteBits
      PROVE  i * B + j + 1 \in Bits(s) <=> j \in s[i + 1]
  <2>0. i \in Nat /\ i + 1 \in 1 .. L /\ (i + 1) - 1 = i /\ j \in Nat /\ j < B
    BY <1>0, <1>3
  <2>1. ASSUME NEW k \in 1 .. L, NEW h \in s[k], i * B + j + 1 = (k - 1) * B + h + 1
        PROVE  k = i + 1 /\ h = j
    <3>0. k \in Nat /\ k - 1 \in Nat /\ h \in Nat /\ h < B
      BY <1>0, <1>3
    <3>1. i * B \in Nat /\ (k - 1) * B \in Nat
      BY <1>1, <2>0, <3>0
    <3>2. ~(k - 1 < i)
      <4> SUFFICES ASSUME k - 1 < i PROVE FALSE
        OBVIOUS
      <4>1. (k - 1) + 1 <= i
        BY <2>0, <3>0, <3>1
      <4>2. (k - 1) * B + B <= i * B
        BY <1>1, <2>0, <3>0, <3>1, <4>1
      <4> QED BY <1>0, <2>0, <2>1, <3>0, <3>1, <4>2
    <3>3. ~(i < k - 1)
      <4> SUFFICES ASSUME i < k - 1 PROVE FALSE
        OBVIOUS
      <4>1. i + 1 <= k - 1
        BY <2>0, <3>0, <3>1
      <4>2. i * B + B <= (k - 1) * B
        BY <1>1, <2>0, <3>0, <3>1, <4>1
      <4> QED BY <1>0, <2>0, <2>1, <3>0, <3>1, <4>2
    <3>4. k - 1 = i
      BY <2>0, <3>0, <3>1, <3>2, <3>3
    <3> QED BY <2>0, <2>1, <3>0, <3>1, <3>4
  <2>2. i * B + j + 1 \in Bits(s) => j \in s[i + 1]
    BY <1>2, <2>1
  <2>3. j \in s[i + 1] => i * B + j + 1 \in Bits(s)
    BY <1>2, <2>0
  <2> QED BY <2>2, <2>3
<1>6. Bits(s) \in SUBSET Nat /\ \A q \in Bits(s) : q <= L * B
  BY <1>2, <1>4
<1>7. \A i \in 0 .. L - 1 : i \in Nat /\ i + 1 \in Nat /\ i + 1 <= L
  BY <1>0
<1>8. L * B \in Nat /\ \A i \in 0 .. L - 1 : /\ i * B \in Nat /\ (i + 1) * B = i * B + B
                                             /\ (i + 1) * B <= L * B
  BY <1>0, <1>1, <1>7
<1> QED BY <1>5, <1>6, <1>8 DEF B, L

\* A look at the table and a shift by a byte are BYTE_BITS steps of the division.
LEMMA WordSteps ==
  ASSUME NEW f, NEW x \in SUBSET WordBits, NEW s \in Seq(SUBSET ByteBits), NEW left,
         IsDivision(left, s), Len(s) * BYTE_BITS \in Nat,
         NEW p \in Nat, p + BYTE_BITS <= Len(s) * BYTE_BITS,
         x = Window(left, s, p, p + BYTE_BITS),
         IsRounds(f, x \cap ByteBits)
  PROVE  Toggled(f[BYTE_BITS], Shifted(x, BYTE_BITS)) = Window(left, s, p + BYTE_BITS, p + BYTE_BITS)
<1> DEFINE m == p + BYTE_BITS
           h(k) == Toggled(f[k], Shifted(x \ ByteBits, k))
           T == {k \in Nat : k <= BYTE_BITS => h(k) = Window(left, s, p + k, m)}
<1>0. /\ BYTE_BITS \in Nat /\ CRC_BITS \in Nat /\ BYTE_BITS <= CRC_BITS /\ m \in Nat
      /\ \A k \in 0 .. BYTE_BITS : f[k] \in SUBSET WordBits
  BY CrcAssumption DEF IsRounds
<1>1. 0 \in T
  <2>1. Shifted(x \ ByteBits, 0) = x \ ByteBits
    BY DEF Shifted, WordBits
  <2>2. h(0) = x
    BY <2>1 DEF Toggled, IsRounds
  <2> QED BY <2>2
<1>2. ASSUME NEW k \in T PROVE k + 1 \in T
  <2> SUFFICES ASSUME k + 1 <= BYTE_BITS PROVE h(k + 1) = Window(left, s, p + (k + 1), m)
    OBVIOUS
  <2>0. k \in Nat /\ (k <= BYTE_BITS => h(k) = Window(left, s, p + k, m))
    <3> HIDE DEF h, m
    <3> QED OBVIOUS
  <2> HIDE DEF T
  <2>1. k \in 0 .. BYTE_BITS - 1 /\ k + 1 \in 1 .. BYTE_BITS /\ (k + 1) - 1 = k
        /\ p + k \in Nat /\ p + k < m /\ m <= p + k + CRC_BITS /\ p + (k + 1) = (p + k) + 1
    BY <1>0, <2>0
  <2>2. h(k) = Window(left, s, p + k, m)
    <3> HIDE DEF h, m
    <3> QED BY <1>0, <2>0, <2>1
  <2>3. Halved(h(k)) = h(k + 1)
    <3>1. f[k + 1] = Halved(f[k]) /\ f[k] \in SUBSET WordBits
      BY <1>0, <2>1 DEF IsRounds
    <3>2. Halved(Toggled(f[k], Shifted(x \ ByteBits, k)))
            = Toggled(Halved(f[k]), Shifted(x \ ByteBits, k + 1))
      BY <2>1, <3>1, SplitRound
    <3> QED BY <3>1, <3>2
  <2>4. Halved(Window(left, s, p + k, m)) = Window(left, s, (p + k) + 1, m)
    <3> DEFINE q == p + k
    <3>1. q \in Nat /\ q < m /\ m <= q + CRC_BITS /\ m \in Nat /\ m <= Len(s) * BYTE_BITS
      BY <1>0, <2>1
    <3> HIDE DEF m, q
    <3>2. Halved(Window(left, s, q, m)) = Window(left, s, q + 1, m)
      BY <3>1, HalvedWindow
    <3>3. (p + k) + 1 = q + 1
      BY DEF q
    <3> HIDE DEF m
    <3> QED BY <3>2, <3>3 DEF q
  <2>5. p + (k + 1) = (p + k) + 1
    BY <2>1
  <2> HIDE DEF h, m
  <2> QED BY <2>2, <2>3, <2>4, <2>5
<1>3. T = Nat
  <2> HIDE DEF T
  <2>1. T \in SUBSET Nat
    BY DEF T
  <2> QED BY <1>1, <1>2, <2>1, SetInduction
<1>4. BYTE_BITS \in T
  BY <1>0, <1>3
<1>5. Shifted(x \ ByteBits, BYTE_BITS) = Shifted(x, BYTE_BITS)
  BY <1>0 DEF Shifted, ByteBits, WordBits
<1> QED BY <1>4, <1>5

\* For every message and every word size, byte size and generator: the CRC that
\* crc.c computes with its table is the remainder of the polynomial division.
THEOREM CrcIsDivision ==
  ASSUME NEW s \in Seq(SUBSET ByteBits)
  PROVE  crc(s) = ReferenceCrc(s)
<1> DEFINE B == BYTE_BITS
           L == Len(s)
<1>0. B \in Nat /\ B > 0 /\ L \in Nat /\ B <= CRC_BITS /\ CRC_BITS \in Nat
      /\ \A n \in 1 .. L : s[n] \in SUBSET ByteBits
  BY CrcAssumption
<1>1. PICK left : IsDivision(left, s) /\ Remainder(s) = left[Len(s) * BYTE_BITS]
  BY BitPositions, DivisionExists
<1>2. PICK c : /\ c \in [0 .. Len(s) -> SUBSET WordBits] /\ c[0] = WordBits
               /\ \A n \in 1 .. Len(s) :
                    c[n] = Toggled(crc_table[Toggled(c[n - 1], s[n]) \cap ByteBits],
                                   Shifted(c[n - 1], BYTE_BITS))
               /\ update_crc(WordBits, s) = c[Len(s)]
  <2>1. WordBits \in SUBSET WordBits
    OBVIOUS
  <2> QED BY <2>1, UpdateRun
<1> DEFINE T == {n \in Nat : n <= L => c[n] = Window(left, s, n * B, n * B)}
<1>3. 0 \in T
  <2>1. 0 * B = 0
    BY <1>0
  <2>2. Window(left, s, 0, 0) = WordBits
    <3>1. left[0] = Toggled(Bits(s), 1 .. CRC_BITS)
      BY <1>1 DEF IsDivision
    <3>2. ASSUME NEW j \in WordBits
          PROVE  ~(0 + j + 1 \in left[0] <=> 0 + j + 1 \in Bits(s) /\ 0 + j + 1 > 0)
      <4>1. 0 + j + 1 \in 1 .. CRC_BITS /\ 0 + j + 1 > 0
        BY <1>0 DEF WordBits
      <4> QED BY <3>1, <4>1 DEF Toggled
    <3> QED BY <3>2 DEF Window
  <2> QED BY <1>2, <2>1, <2>2
<1>4. ASSUME NEW n \in T PROVE n + 1 \in T
  <2> SUFFICES ASSUME n + 1 <= L
      PROVE c[n + 1] = Window(left, s, (n + 1) * B, (n + 1) * B)
    OBVIOUS
  <2> DEFINE p == n * B
             x == Toggled(c[n], s[n + 1])
  <2>0. n \in 0 .. L - 1 /\ n + 1 \in 1 .. L /\ (n + 1) - 1 = n /\ n \in 0 .. L
    BY <1>0
  <2>1. p \in Nat /\ (n + 1) * B = p + B /\ p + B <= L * B /\ L * B \in Nat
        /\ \A j \in ByteBits : p + j + 1 \in Bits(s) <=> j \in s[n + 1]
    BY <2>0, BitPositions
  <2>2. c[n] = Window(left, s, p, p) /\ c[n] \in SUBSET WordBits
    BY <1>2, <2>0
  <2>3. c[n + 1] = Toggled(crc_table[x \cap ByteBits], Shifted(c[n], B))
    BY <1>2, <2>0
  <2>4. s[n + 1] \in SUBSET ByteBits
    BY <1>0, <2>0
  <2> HIDE DEF p
  <2>5. x = Window(left, s, p, p + B)
    <3>1. x \in SUBSET WordBits
      BY <2>2, <2>4, WordOperators DEF Toggled
    <3> SUFFICES ASSUME NEW j \in WordBits
        PROVE j \in x <=> j \in Window(left, s, p, p + B)
      BY <3>1 DEF Window
    <3>2. j \in c[n] <=> ~(p + j + 1 \in left[p] <=> p + j + 1 \in Bits(s))
      BY <2>1, <2>2 DEF Window, WordBits
    <3>3. CASE j \in ByteBits
      <4>1. ~(p + j + 1 > p + B)
        BY <3>3, <1>0, <2>1 DEF ByteBits
      <4>2. p + j + 1 \in Bits(s) <=> j \in s[n + 1]
        BY <3>3, <2>1
      <4> QED BY <4>1, <4>2, <3>2 DEF Window, Toggled
    <3>4. CASE j \notin ByteBits
      <4>1. p + j + 1 > p + B
        BY <3>4, <1>0, <2>1 DEF ByteBits, WordBits
      <4>2. j \notin s[n + 1]
        BY <3>4, <2>4
      <4> QED BY <4>1, <4>2, <3>2 DEF Window, Toggled
    <3> QED BY <3>3, <3>4
  <2>6. PICK f : IsRounds(f, x \cap ByteBits) /\ crc_table[x \cap ByteBits] = f[B]
    <3>1. x \cap ByteBits \in SUBSET ByteBits
      OBVIOUS
    <3> QED BY <3>1, Table
  <2>7. x \in SUBSET WordBits
    BY <2>5 DEF Window
  <2>8. Toggled(f[B], Shifted(x, B)) = Window(left, s, p + B, p + B)
    <3> HIDE DEF x
    <3> QED BY <1>1, <2>1, <2>5, <2>6, <2>7, WordSteps
  <2>9. Shifted(x, B) = Shifted(c[n], B)
    <3>1. \A j \in WordBits : j + B \notin s[n + 1]
      BY <1>0, <2>4 DEF ByteBits, WordBits
    <3> QED BY <3>1 DEF Shifted, Toggled
  <2> QED BY <2>1, <2>3, <2>6, <2>8, <2>9
<1>5. T = Nat
  <2> HIDE DEF T
  <2>1. T \in SUBSET Nat
    BY DEF T
  <2> QED BY <1>3, <1>4, <2>1, SetInduction
<1>6. L \in T
  BY <1>0, <1>5
<1>7. c[L] = Window(left, s, L * B, L * B)
  BY <1>6, <1>0
<1>8. \A j \in WordBits : ~(L * B + j + 1 \in Bits(s) /\ L * B + j + 1 > L * B)
  <2> SUFFICES ASSUME NEW j \in WordBits, L * B + j + 1 \in Bits(s), L * B + j + 1 > L * B
      PROVE FALSE
    OBVIOUS
  <2>1. L * B + j + 1 <= L * B /\ L * B \in Nat
    BY BitPositions
  <2>2. j \in Nat
    BY <1>0 DEF WordBits
  <2> DEFINE end == L * B
  <2> HIDE DEF end
  <2>3. end \in Nat /\ end + j + 1 <= end
    BY <2>1 DEF end
  <2> QED BY <2>2, <2>3
<1>9. Toggled(c[L], WordBits) = ReferenceCrc(s)
  BY <1>1, <1>7, <1>8 DEF Toggled, ReferenceCrc, Window
<1> QED BY <1>2, <1>9 DEF crc
=============================================================================

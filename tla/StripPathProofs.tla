--------------------------- MODULE StripPathProofs ---------------------------
(***************************************************************************)
(* Theorems about the way of one part, for every size of the buffers,      *)
(* every part, every answer of the server and every way libcurl may cut it *)
(* up: get_cURL, the byte order of the chunk, both loops of zutil.c, and   *)
(* the checksum of what came.                                              *)
(***************************************************************************)
EXTENDS MCGetCurl, CrcProofs

-----------------------------------------------------------------------------
(* get_cURL. *)

\* Every non-empty set of naturals has a least element.
LEMMA LeastNatural ==
  ASSUME NEW S \in SUBSET Nat, S # {}
  PROVE  \E m \in S : \A n \in S : m <= n
<1>1. IsWellFoundedOn(OpToRel(<, Nat), Nat)
  BY NatLessThanWellFounded
<1>2. PICK m \in S : \A n \in S : <<n, m>> \notin OpToRel(<, Nat)
  BY <1>1, WFMin
<1>3. \A n \in S : ~(n < m)
  BY <1>2 DEF OpToRel
<1> QED BY <1>3

\* A strcpy that starts inside the data stops at the latest at the NUL that
\* write_cb_curl put behind the data.
LEMMA StrcpyStops ==
  ASSUME NEW from \in Index, buf \in [Index -> Byte],
         size \in Index, from < size, buf[size] = NUL
  PROVE  NulAt(from) \in Index /\ from <= NulAt(from) /\ NulAt(from) <= size
<1> DEFINE S == {k \in Index : from <= k /\ buf[k] = NUL}
<1>1. S \in SUBSET Nat /\ size \in S /\ shm_size \in Int
  BY CurlAssumption DEF Index, shm_size
<1>2. PICK m \in S : \A n \in S : m <= n
  BY <1>1, LeastNatural
<1>3. /\ m \in Index /\ from <= m /\ buf[m] = NUL
      /\ \A j \in Index : from <= j /\ j < m => buf[j] # NUL
  BY <1>1, <1>2 DEF Index
<1>4. /\ NulAt(from) \in Index /\ from <= NulAt(from)
      /\ \A j \in Index : from <= j /\ j < NulAt(from) => buf[j] # NUL
  BY <1>3 DEF NulAt
<1>5. ~(size < NulAt(from))
  BY <1>1, <1>4 DEF Index
<1> QED BY <1>1, <1>4, <1>5 DEF Index

-----------------------------------------------------------------------------
\* What makes the loop's result an invariant: before iteration i the first i
\* bytes are in place, and nothing is behind the data.
Copied ==
  /\ i <= size
  /\ \A k \in 0 .. i - 1 : slot_buf[k] = buf[k]
  /\ \A k \in Index : k >= size => slot_buf[k] = NUL
  /\ pc \in {"init", "headers", "body"} =>
       i = 0 /\ \A k \in Index : slot_buf[k] = NUL
  /\ pc = "return0" => i = size /\ slot_size = size /\ slot_seq = seq

\* Who may have a sequence number, and when nothing was fetched yet.
Arrived ==
  /\ response.fragment \/ seq = -1
  /\ pc \in {"init", "headers"} => size = 0 /\ seq = -1
  /\ pc = "body" /\ response.fragment => seq = image_option
  /\ size > 0 /\ response.fragment => seq = image_option

Inv == TypeOK /\ PrefixStored /\ Copied /\ Arrived

\* The constants, as the provers need them.
LEMMA Sizes ==
  /\ BUF_SIZE \in Nat /\ BUF_SIZE > 0 /\ shm_size \in Nat /\ BUF_SIZE <= shm_size
  /\ 0 .. BUF_SIZE - 1 \subseteq Index /\ NUL \in Byte /\ image_option \in Nat
  /\ \A r \in Responses : /\ r.body \in Seq(Byte) /\ r.fragment \in BOOLEAN
                          /\ Len(r.body) \in Nat
                          /\ \A k \in 1 .. Len(r.body) : r.body[k] \in Byte
BY CurlAssumption, TransferAssumption DEF shm_size, Index, NUL, Byte

\* Init establishes the invariant.
LEMMA InitInv == Init => Inv
BY Sizes DEF Init, Inv, TypeOK, PrefixStored, Copied, Arrived, Index

\* A chunk is appended.
LEMMA WriteKeepsInv ==
  ASSUME Inv, NEW n \in 1 .. Len(response.body), WriteCb(n)
  PROVE  Inv'
<1> USE Sizes DEF Inv
<1>1. n \in Nat /\ size \in Nat /\ size + n < BUF_SIZE /\ size + n <= Len(response.body)
  BY DEF WriteCb, TooSmall, TypeOK
<1>2. TypeOK'
  BY <1>1 DEF TypeOK, WriteCb, temporary, shared
<1>3. PrefixStored'
  BY <1>1 DEF TypeOK, PrefixStored, WriteCb, Index
<1>4. Copied'
  BY <1>1 DEF TypeOK, Copied, WriteCb, shared, Index
<1>5. Arrived'
  BY <1>1 DEF Arrived, WriteCb
<1> QED BY <1>2, <1>3, <1>4, <1>5

\* One more strcpy.
LEMMA StrcpyKeepsInv == Inv /\ Strcpy => Inv'
<1> SUFFICES ASSUME Inv, Strcpy PROVE Inv'
  OBVIOUS
<1> USE Sizes DEF Inv
<1>1. i \in Index /\ size \in Index /\ i < size /\ buf[size] = NUL
  BY DEF TypeOK, PrefixStored, Strcpy, Index
<1>2. NulAt(i) \in Index /\ i <= NulAt(i) /\ NulAt(i) <= size
  BY <1>1, StrcpyStops DEF TypeOK
<1>3. TypeOK'
  BY <1>1, <1>2 DEF TypeOK, Strcpy, temporary
<1>4. PrefixStored' /\ Arrived'
  BY DEF PrefixStored, Arrived, Strcpy, temporary
<1>5. Copied'
  BY <1>1, <1>2 DEF TypeOK, Copied, Strcpy, temporary, Index
<1> QED BY <1>3, <1>4, <1>5

\* Every step keeps the invariant.
LEMMA NextInv == Inv /\ [Next]_vars => Inv'
<1> SUFFICES ASSUME Inv, [Next]_vars PROVE Inv'
  OBVIOUS
<1> USE Sizes DEF Inv
<1>1. CASE EasyInit
  BY <1>1 DEF EasyInit, TypeOK, PrefixStored, Copied, Arrived, temporary, shared
<1>2. CASE HeaderCb \/ NoFragment
  BY <1>2 DEF HeaderCb, NoFragment, TypeOK, PrefixStored, Copied, Arrived,
     temporary, shared
<1>3. CASE PerformReturns
  BY <1>3 DEF PerformReturns, TypeOK, PrefixStored, Copied, Arrived, temporary, shared
<1>4. ASSUME NEW n \in 1 .. Len(response.body), WriteCb(n) PROVE Inv'
  BY <1>4, WriteKeepsInv
<1>5. ASSUME NEW n \in 1 .. Len(response.body), WriteCbAborts(n) PROVE Inv'
  BY <1>5 DEF WriteCbAborts, TypeOK, PrefixStored, Copied, Arrived, temporary, shared
<1>6. CASE Strcpy
  BY <1>6, StrcpyKeepsInv
<1>7. CASE Publish
  BY <1>7 DEF Publish, TypeOK, PrefixStored, Copied, Arrived, temporary
<1>8. CASE Returned \/ UNCHANGED vars
  <2>1. UNCHANGED vars
    BY <1>8 DEF Returned
  <2> QED BY <2>1 DEF vars, TypeOK, PrefixStored, Copied, Arrived, temporary, shared
<1> QED BY <1>1, <1>2, <1>3, <1>4, <1>5, <1>6, <1>7, <1>8 DEF Next, Network

\* For every buffer size, body and cutting into callbacks: every variable stays in
\* its range, so size leaves room for the NUL and sequence numbers are the part's.
THEOREM TypeCorrect == Spec => []TypeOK
<1>1. Inv => TypeOK
  BY DEF Inv
<1> QED BY InitInv, NextInv, <1>1, PTL DEF Spec

\* For every buffer size and every chunking of every body: what write_cb_curl has
\* stored is a prefix of the body followed by a NUL, inside max_size.
THEOREM BufferHoldsPrefix == Spec => []PrefixStored
<1>1. Inv => PrefixStored
  BY DEF Inv
<1> QED BY InitInv, NextInv, <1>1, PTL DEF Spec

\* For every body, whatever NULs it contains: the loop of strcpy calls copies it
\* to the slot exactly, and writes nothing behind it.
THEOREM StrcpyLoopExact == Spec => []CopyExact
<1>1. Inv => CopyExact
  BY Sizes DEF Inv, TypeOK, PrefixStored, Copied, CopyExact
<1> QED BY InitInv, NextInv, <1>1, PTL DEF Spec

\* For every buffer size and every chunking: the abort in write_cb_curl is
\* reached only by a body that, with its NUL, does not fit.
THEOREM ShortBodiesNeverAbort == Spec => []AbortOnlyWhenTooBig
<1>1. Init => AbortOnlyWhenTooBig
  BY DEF Init, AbortOnlyWhenTooBig
<1>2. Inv /\ AbortOnlyWhenTooBig /\ [Next]_vars => AbortOnlyWhenTooBig'
  <2> SUFFICES ASSUME Inv, AbortOnlyWhenTooBig, [Next]_vars
               PROVE  AbortOnlyWhenTooBig'
    OBVIOUS
  <2>1. ASSUME NEW n \in 1 .. Len(response.body), WriteCbAborts(n)
        PROVE  AbortOnlyWhenTooBig'
    <3>1. Len(response.body) \in Nat /\ size \in Nat /\ BUF_SIZE \in Nat
      BY Sizes DEF Inv, TypeOK
    <3>2. n <= Len(response.body) - size /\ size + n + 1 > BUF_SIZE
          /\ response' = response
      BY <2>1 DEF WriteCbAborts, TooSmall
    <3> QED BY <3>1, <3>2 DEF AbortOnlyWhenTooBig
  <2>2. CASE UNCHANGED vars
    BY <2>2 DEF vars, AbortOnlyWhenTooBig
  <2> QED BY <2>1, <2>2 DEF AbortOnlyWhenTooBig, Next, Network, EasyInit, HeaderCb,
          NoFragment, PerformReturns, WriteCb, Strcpy, Publish, Returned, vars
<1> QED BY InitInv, NextInv, <1>1, <1>2, PTL DEF Spec

\* For every part, with every kind of transfer allowed: what the callbacks and
\* the copy leave in the slot is one of the outcomes the ring is checked with.
THEOREM OutcomesCovered == Spec => []OutcomeReceived
<1>1. Inv => OutcomeReceived
  <2> SUFFICES ASSUME Inv, pc = "return0"
              PROVE Outcome \in Received(TransferKinds, image_option)
    BY DEF OutcomeReceived
  <2> USE Sizes, CurlAssumption
  <2>1. slot_size = size /\ slot_seq = seq /\ seq \in {-1, image_option}
        /\ size \in Nat /\ image_option < NUM_PARTS
    BY TransferAssumption DEF Inv, Copied, TypeOK
  <2>2. CASE size = 0
    BY <2>1, <2>2 DEF Outcome, Received, Arrival, TransferKinds
  <2>3. CASE size # 0 /\ response.fragment
    <3>1. seq = image_option
      BY <2>1, <2>3 DEF Inv, Arrived
    <3> QED BY <2>1, <2>3, <3>1 DEF Outcome, Received, Bodies, Arrival, TransferKinds
  <2>4. CASE size # 0 /\ ~response.fragment
    <3>1. seq = -1
      BY <2>4 DEF Inv, Arrived
    <3> QED BY <2>1, <2>4, <3>1 DEF Outcome, Received, Arrival, TransferKinds
  <2> QED BY <2>2, <2>3, <2>4
<1> QED BY InitInv, NextInv, <1>1, PTL DEF Spec

-----------------------------------------------------------------------------
(* Numbers and their digits. *)

\* Quotient and remainder are unique.
LEMMA DivMod ==
  ASSUME NEW b \in Nat, b > 0, NEW q \in Nat, NEW r \in Nat, r < b
  PROVE  (b * q + r) \div b = q /\ (b * q + r) % b = r
OBVIOUS

\* Division with remainder.
LEMMA Division ==
  ASSUME NEW b \in Nat, b > 0, NEW a \in Nat
  PROVE  /\ a \div b \in Nat /\ a % b \in Nat /\ a % b < b
         /\ a = b * (a \div b) + (a % b)
<1>1. a \div b \in Nat
  OBVIOUS
<1>2. a % b \in Nat /\ a % b < b
  OBVIOUS
<1>3. a % b = a - b * (a \div b)
  OBVIOUS
<1>4. b * (a \div b) \in Nat
  BY <1>1
<1> DEFINE r == a % b
           p == b * (a \div b)
<1> HIDE DEF r, p
<1>5. r = a - p /\ p \in Nat /\ r \in Nat
  BY <1>2, <1>3, <1>4 DEF r, p
<1>6. a = p + r
  BY <1>5
<1> QED BY <1>1, <1>2, <1>6 DEF r, p

\* What the proofs need of products.
LEMMA Products ==
  ASSUME NEW x \in Nat, NEW y \in Nat, NEW z \in Nat
  PROVE  /\ x * y \in Nat /\ x * y = y * x /\ x * (y * z) = (x * y) * z
         /\ x * (y + z) = x * y + x * z
         /\ x <= y => x * z <= y * z
         /\ y > 0 => x <= x * y
OBVIOUS

\* A number up to its digit at u is the number without that digit, and the digit.
LEMMA DivDiv ==
  ASSUME NEW u \in Nat, u > 0, NEW b \in Nat, b > 0, NEW x \in Nat
  PROVE  /\ x \div (u * b) \in Nat
         /\ x \div u = (x \div (u * b)) * b + ((x \div u) % b)
<1>1. PICK q \in Nat, r \in Nat : x = u * q + r /\ r < u /\ q = x \div u
  BY Division
<1>2. PICK s \in Nat, t \in Nat : q = b * s + t /\ t < b /\ s = q \div b /\ t = q % b
  BY Division
<1>3. t + 1 <= b /\ u * (t + 1) <= u * b /\ u * (t + 1) = u * t + u
  <2>1. t + 1 \in Nat /\ t + 1 <= b /\ 1 \in Nat
    BY <1>2
  <2>2. (t + 1) * u <= b * u /\ u * (t + 1) = (t + 1) * u /\ u * b = b * u
    BY <2>1, Products
  <2>3. u * (t + 1) = u * t + u * 1
    BY Products
  <2> QED BY <2>1, <2>2, <2>3
<1>4. u * (b * s + t) = (u * b) * s + u * t /\ u * t \in Nat /\ u * b \in Nat /\ b * s \in Nat
  BY Products
<1> DEFINE w == u * b
           v == u * t
<1>5. x = w * s + (v + r) /\ v + r \in Nat /\ v + r < w /\ w \in Nat
  <2> HIDE DEF v, w
  <2>1. v + u <= w /\ v \in Nat /\ w \in Nat
    BY <1>3, <1>4 DEF v, w
  <2>2. w * s \in Nat
    BY <2>1, Products
  <2>3. x = (w * s + v) + r
    BY <1>1, <1>2, <1>4 DEF v, w
  <2> QED BY <1>1, <2>1, <2>2, <2>3
<1> HIDE DEF v, w
<1>6. x \div w = s
  BY <1>5, DivMod
<1>7. b * s = s * b
  BY Products
<1> QED BY <1>1, <1>2, <1>6, <1>7 DEF w

\* A recursive definition says what it seems to.
LEMMA Powers ==
  /\ LEN_SIZE \in Nat /\ LEN_SIZE > 0 /\ BASE \in Nat /\ BASE > 1
  /\ Power \in [0 .. LEN_SIZE -> Nat] /\ Power[0] = 1
  /\ \A k \in 1 .. LEN_SIZE : Power[k] = BASE * Power[k - 1]
  /\ \A k \in 0 .. LEN_SIZE : Power[k] \in Nat /\ Power[k] > 0
<1> DEFINE L == LEN_SIZE
           step == [k \in 1 .. L |-> [x \in Nat |-> BASE * x]]
           Body(c) == [k \in 0 .. L |-> IF k = 0 THEN 1 ELSE BASE * c[k - 1]]
<1>0. L \in Nat /\ L > 0 /\ BASE \in Nat /\ BASE > 1 /\ 1 \in Nat
  BY PathAssumption, CurlAssumption
<1>1. step \in [1 .. L -> [Nat -> Nat]] /\ \A k \in 1 .. L : \A x \in Nat : step[k][x] = BASE * x
  BY <1>0
<1>2. PICK g : IsRun(g, L, Nat, 1, step)
  <2> HIDE DEF L, step, Body
  <2> QED BY <1>0, <1>1, RunExists
<1>3. g = Body(g)
  <2> HIDE DEF L, step
  <2>1. \A k \in 1 .. L : k - 1 \in 0 .. L /\ g[k - 1] \in Nat
    BY <1>0, <1>2 DEF IsRun
  <2>2. \A k \in 1 .. L : g[k] = BASE * g[k - 1]
    BY <1>1, <1>2, <2>1 DEF IsRun
  <2>3. g = [k \in 0 .. L |-> g[k]] /\ g[0] = 1
    BY <1>2 DEF IsRun
  <2>4. \A k \in 0 .. L : g[k] = IF k = 0 THEN 1 ELSE BASE * g[k - 1]
    BY <1>0, <2>2, <2>3
  <2> QED BY <2>3, <2>4
<1>4. Power = CHOOSE c : c = Body(c)
  BY DEF Power
<1>5. Power = Body(Power)
  <2> HIDE DEF Body
  <2> QED BY <1>3, <1>4
<1>6. Power = [k \in 0 .. L |-> Power[k]] /\ Power[0] = 1
      /\ \A k \in 1 .. L : Power[k] = BASE * Power[k - 1]
  <2> HIDE DEF L
  <2>1. \A k \in 0 .. L : Power[k] = IF k = 0 THEN 1 ELSE BASE * Power[k - 1]
    BY <1>5
  <2>2. Power = [k \in 0 .. L |-> Power[k]]
    BY <1>5
  <2>3. Power[0] = 1
    BY <1>0, <2>1
  <2>4. \A k \in 1 .. L : Power[k] = BASE * Power[k - 1]
    BY <1>0, <2>1
  <2> QED BY <2>2, <2>3, <2>4
<1>7. IsRun(Power, L, Nat, 1, step)
  <2> HIDE DEF L, step
  <2> QED BY <1>0, <1>1, <1>6, RunStays
<1>8. \A k \in 0 .. L : Power[k] > 0
  <2> DEFINE T == {k \in Nat : k <= L => Power[k] > 0}
  <2>1. 0 \in T
    BY <1>6
  <2>2. ASSUME NEW k \in T PROVE k + 1 \in T
    <3> SUFFICES ASSUME k + 1 <= L PROVE Power[k + 1] > 0
      OBVIOUS
    <3>1. k + 1 \in 1 .. L /\ (k + 1) - 1 = k /\ Power[k] \in Nat /\ Power[k] > 0
      BY <1>0, <1>7 DEF IsRun
    <3>2. Power[k + 1] = BASE * Power[k]
      BY <1>6, <3>1
    <3> QED BY <1>0, <3>1, <3>2
  <2>3. T = Nat
    <3> HIDE DEF T
    <3>1. T \in SUBSET Nat
      BY DEF T
    <3> QED BY <2>1, <2>2, <3>1, SetInduction
  <2> QED BY <2>3, <1>0
<1> QED BY <1>0, <1>6, <1>7, <1>8 DEF IsRun

\* The sums up to digit k of a number, low digit first, and the rest of it: no
\* power of the base is ever reached, so nothing wraps around.
LEMMA LittleEndianSum ==
  ASSUME NEW b, NEW at, \A k \in 1 .. LEN_SIZE : b[at + k - 1] \in Byte
  PROVE  \E sum \in [0 .. LEN_SIZE -> Nat] :
           /\ sum[0] = 0
           /\ \A k \in 1 .. LEN_SIZE :
                sum[k] = (sum[k - 1] + b[at + k - 1] * Power[k - 1]) % Power[LEN_SIZE]
           /\ LittleEndian(b, at) = sum[LEN_SIZE]
<1> DEFINE L == LEN_SIZE
           Then(k, x) == (x + b[at + k - 1] * Power[k - 1]) % Power[LEN_SIZE]
           step == [k \in 1 .. L |-> [x \in Nat |-> Then(k, x)]]
           Body(c) == [k \in 0 .. L |->
                         IF k = 0 THEN 0
                         ELSE (c[k - 1] + b[at + k - 1] * Power[k - 1]) % Power[LEN_SIZE]]
           f == CHOOSE c : c = Body(c)
<1>0. L \in Nat /\ 0 \in Nat
  BY Powers
<1>1. ASSUME NEW k \in 1 .. L, NEW x \in Nat PROVE Then(k, x) \in Nat
  <2>1. Power[k - 1] \in Nat /\ Power[LEN_SIZE] \in Nat /\ Power[LEN_SIZE] > 0
    BY Powers
  <2>2. b[at + k - 1] \in Nat
    BY Powers DEF Byte
  <2>3. b[at + k - 1] * Power[k - 1] \in Nat
    BY <2>1, <2>2, Products
  <2> DEFINE v == b[at + k - 1] * Power[k - 1]
  <2> HIDE DEF v
  <2>4. (x + v) % Power[LEN_SIZE] \in Nat
    <3>1. x + v \in Nat
      BY <2>3 DEF v
    <3> QED BY <2>1, <3>1, Division
  <2> QED BY <2>4 DEF v
<1>2. step \in [1 .. L -> [Nat -> Nat]] /\ \A k \in 1 .. L : \A x \in Nat : step[k][x] = Then(k, x)
  <2> HIDE DEF L, Then
  <2> QED BY <1>1
<1>3. PICK g : IsRun(g, L, Nat, 0, step)
  <2> HIDE DEF L, step, Body, Then, f
  <2> QED BY <1>0, <1>2, RunExists
<1>4. g = Body(g)
  <2> HIDE DEF L, step, f
  <2>1. \A k \in 1 .. L : k - 1 \in 0 .. L /\ g[k - 1] \in Nat
    BY <1>0, <1>3 DEF IsRun
  <2>2. \A k \in 1 .. L : g[k] = Then(k, g[k - 1])
    <3> HIDE DEF Then
    <3> QED BY <1>2, <1>3, <2>1 DEF IsRun
  <2>3. g = [k \in 0 .. L |-> g[k]] /\ g[0] = 0
    BY <1>3 DEF IsRun
  <2>4. \A k \in 0 .. L : g[k] = IF k = 0 THEN 0 ELSE Then(k, g[k - 1])
    <3> HIDE DEF Then
    <3> TAKE k \in 0 .. L
    <3>1. k = 0 \/ k \in 1 .. L
      BY <1>0
    <3> QED BY <2>2, <2>3, <3>1
  <2> QED BY <2>3, <2>4
<1>5. f = Body(f)
  <2> HIDE DEF Body
  <2> QED BY <1>4
<1>6. LittleEndian(b, at) = f[L]
  BY DEF LittleEndian
<1> HIDE DEF f
<1>7. f = [k \in 0 .. L |-> f[k]] /\ f[0] = 0 /\ \A k \in 1 .. L : f[k] = Then(k, f[k - 1])
  <2> HIDE DEF L
  <2>1. \A k \in 0 .. L : f[k] = IF k = 0 THEN 0 ELSE Then(k, f[k - 1])
    BY <1>5
  <2>2. f = [k \in 0 .. L |-> f[k]]
    BY <1>5
  <2> HIDE DEF Then
  <2>3. f[0] = 0
    BY <1>0, <2>1
  <2>4. \A k \in 1 .. L : f[k] = Then(k, f[k - 1])
    BY <1>0, <2>1
  <2> QED BY <2>2, <2>3, <2>4
<1>8. IsRun(f, L, Nat, 0, step)
  <2> HIDE DEF L, step, Then
  <2> QED BY <1>0, <1>2, <1>7, RunStays
<1> QED BY <1>6, <1>7, <1>8 DEF IsRun

\* ntohl is a loop over the digits, low digit first, that multiplies by the base.
LEMMA SwappedSum ==
  ASSUME NEW x \in Nat
  PROVE  \E y \in [0 .. LEN_SIZE -> Nat] :
           /\ y[0] = 0
           /\ \A k \in 1 .. LEN_SIZE : y[k] = y[k - 1] * BASE + ((x \div Power[k - 1]) % BASE)
           /\ ntohl(x) = y[LEN_SIZE]
<1> DEFINE L == LEN_SIZE
           Then(k, v) == v * BASE + ((x \div Power[k - 1]) % BASE)
           step == [k \in 1 .. L |-> [v \in Nat |-> Then(k, v)]]
           Body(c) == [k \in 0 .. L |->
                         IF k = 0 THEN 0 ELSE c[k - 1] * BASE + ((x \div Power[k - 1]) % BASE)]
           f == CHOOSE c : c = Body(c)
<1>0. L \in Nat /\ 0 \in Nat
  BY Powers
<1>1. ASSUME NEW k \in 1 .. L, NEW v \in Nat PROVE Then(k, v) \in Nat
  <2>1. Power[k - 1] \in Nat /\ Power[k - 1] > 0 /\ BASE \in Nat /\ BASE > 0
    BY Powers
  <2>2. x \div Power[k - 1] \in Nat
    BY <2>1, Division
  <2>3. (x \div Power[k - 1]) % BASE \in Nat
    BY <2>1, <2>2, Division
  <2>4. v * BASE \in Nat
    BY <2>1, Products
  <2> QED BY <2>3, <2>4
<1>2. step \in [1 .. L -> [Nat -> Nat]] /\ \A k \in 1 .. L : \A v \in Nat : step[k][v] = Then(k, v)
  <2> HIDE DEF L, Then
  <2> QED BY <1>1
<1>3. PICK g : IsRun(g, L, Nat, 0, step)
  <2> HIDE DEF L, step, Body, Then, f
  <2> QED BY <1>0, <1>2, RunExists
<1>4. g = Body(g)
  <2> HIDE DEF L, step, f
  <2>1. \A k \in 1 .. L : k - 1 \in 0 .. L /\ g[k - 1] \in Nat
    BY <1>0, <1>3 DEF IsRun
  <2>2. \A k \in 1 .. L : g[k] = Then(k, g[k - 1])
    <3> HIDE DEF Then
    <3> QED BY <1>2, <1>3, <2>1 DEF IsRun
  <2>3. g = [k \in 0 .. L |-> g[k]] /\ g[0] = 0
    BY <1>3 DEF IsRun
  <2>4. \A k \in 0 .. L : g[k] = IF k = 0 THEN 0 ELSE Then(k, g[k - 1])
    <3> HIDE DEF Then
    <3> TAKE k \in 0 .. L
    <3>1. k = 0 \/ k \in 1 .. L
      BY <1>0
    <3> QED BY <2>2, <2>3, <3>1
  <2> QED BY <2>3, <2>4
<1>5. f = Body(f)
  <2> HIDE DEF Body
  <2> QED BY <1>4
<1>6. ntohl(x) = f[L]
  BY DEF ntohl
<1> HIDE DEF f
<1>7. f = [k \in 0 .. L |-> f[k]] /\ f[0] = 0 /\ \A k \in 1 .. L : f[k] = Then(k, f[k - 1])
  <2> HIDE DEF L
  <2>1. \A k \in 0 .. L : f[k] = IF k = 0 THEN 0 ELSE Then(k, f[k - 1])
    BY <1>5
  <2>2. f = [k \in 0 .. L |-> f[k]]
    BY <1>5
  <2> HIDE DEF Then
  <2>3. f[0] = 0
    BY <1>0, <2>1
  <2>4. \A k \in 1 .. L : f[k] = Then(k, f[k - 1])
    BY <1>0, <2>1
  <2> QED BY <2>2, <2>3, <2>4
<1>8. IsRun(f, L, Nat, 0, step)
  <2> HIDE DEF L, step, Then
  <2> QED BY <1>0, <1>2, <1>7, RunStays
<1> QED BY <1>6, <1>7, <1>8 DEF IsRun

\* A power divides the ones after it.
LEMMA PowerDivides ==
  ASSUME NEW k \in 0 .. LEN_SIZE, NEW m \in k .. LEN_SIZE
  PROVE  \E q \in Nat : q > 0 /\ Power[m] = Power[k] * q
<1> DEFINE T == {n \in Nat : k + n <= LEN_SIZE =>
                   \E q \in Nat : q > 0 /\ Power[k + n] = Power[k] * q}
<1>0. k \in Nat /\ LEN_SIZE \in Nat /\ BASE \in Nat /\ BASE > 0 /\ Power[k] \in Nat
  BY Powers
<1>1. 0 \in T
  <2>1. Power[k + 0] = Power[k] * 1
    BY <1>0
  <2> QED BY <2>1
<1>2. ASSUME NEW n \in T PROVE n + 1 \in T
  <2> SUFFICES ASSUME k + (n + 1) <= LEN_SIZE
      PROVE \E q \in Nat : q > 0 /\ Power[k + (n + 1)] = Power[k] * q
    OBVIOUS
  <2>1. k + n <= LEN_SIZE /\ k + (n + 1) \in 1 .. LEN_SIZE /\ (k + (n + 1)) - 1 = k + n
    BY <1>0
  <2>2. PICK q \in Nat : q > 0 /\ Power[k + n] = Power[k] * q
    BY <2>1
  <2>3. Power[k + (n + 1)] = BASE * (Power[k] * q)
    BY <2>1, <2>2, Powers
  <2>4. BASE * (Power[k] * q) = (BASE * Power[k]) * q /\ BASE * Power[k] = Power[k] * BASE
        /\ Power[k] * (BASE * q) = (Power[k] * BASE) * q
    BY <1>0, Products
  <2>5. BASE * q \in Nat /\ BASE * q > 0
    BY <1>0, <2>2
  <2> QED BY <2>3, <2>4, <2>5
<1>3. T = Nat
  <2> HIDE DEF T
  <2>1. T \in SUBSET Nat
    BY DEF T
  <2> QED BY <1>1, <1>2, <2>1, SetInduction
<1>4. m - k \in Nat /\ k + (m - k) = m /\ m <= LEN_SIZE
  BY <1>0
<1>5. m - k \in T
  BY <1>3, <1>4
<1> QED BY <1>4, <1>5

\* Digit k of the sum is byte k of the field.
LEMMA LittleEndianDigits ==
  ASSUME NEW b, NEW at, \A k \in 1 .. LEN_SIZE : b[at + k - 1] \in Byte
  PROVE  /\ LittleEndian(b, at) \in Nat
         /\ \A k \in 1 .. LEN_SIZE :
              (LittleEndian(b, at) \div Power[k - 1]) % BASE = b[at + k - 1]
<1> DEFINE L == LEN_SIZE
           d(k) == b[at + k - 1]
<1>0. /\ L \in Nat /\ BASE \in Nat /\ BASE > 0
      /\ \A k \in 1 .. L : d(k) \in Nat /\ d(k) < BASE
      /\ \A k \in 0 .. L : Power[k] \in Nat /\ Power[k] > 0
      /\ \A k \in 1 .. L : Power[k] = BASE * Power[k - 1]
  <2>1. BASE \in Nat /\ BASE > 0 /\ \A k \in 1 .. L : d(k) \in Byte
    BY Powers
  <2>2. \A k \in 1 .. L : d(k) \in Nat /\ d(k) < BASE
    <3> HIDE DEF d, L
    <3> QED BY <2>1 DEF Byte
  <2> QED BY <2>1, <2>2, Powers
<1>1. PICK sum \in [0 .. L -> Nat] :
         /\ sum[0] = 0
         /\ \A k \in 1 .. L : sum[k] = (sum[k - 1] + d(k) * Power[k - 1]) % Power[L]
         /\ LittleEndian(b, at) = sum[L]
  BY LittleEndianSum
<1> HIDE DEF d, L
<1>2. ASSUME NEW k \in 1 .. L, sum[k - 1] < Power[k - 1]
      PROVE  sum[k] = sum[k - 1] + d(k) * Power[k - 1] /\ sum[k] < Power[k]
  <2> DEFINE u == Power[k - 1]
             v == d(k)
             w == Power[k]
             z == Power[L]
  <2>1. u \in Nat /\ w = BASE * u /\ v \in Nat /\ v + 1 <= BASE /\ z \in Nat /\ z > 0 /\ w \in Nat
        /\ sum[k - 1] \in Nat
    BY <1>0
  <2>2. w <= z
    <3>1. k \in 0 .. LEN_SIZE /\ L \in k .. LEN_SIZE
      BY <1>0 DEF L
    <3>2. PICK q \in Nat : q > 0 /\ z = w * q
      BY <3>1, PowerDivides
    <3> HIDE DEF w, z
    <3> QED BY <2>1, <3>2, Products
  <2> DEFINE s == sum[k - 1]
             t == v * u
  <2>3. (v + 1) * u <= BASE * u /\ (v + 1) * u = t + u /\ t \in Nat
    <3> HIDE DEF u, v, w, z
    <3>1. v + 1 \in Nat
      BY <2>1
    <3>2. (v + 1) * u <= BASE * u
      BY <2>1, <3>1, <1>0, Products
    <3>3. (v + 1) * u = v * u + u
      BY <2>1
    <3>4. v * u \in Nat
      BY <2>1, Products
    <3> QED BY <3>2, <3>3, <3>4
  <2>4. sum[k] = (s + t) % z
    BY <1>1
  <2>5. s < u
    BY <1>2
  <2> HIDE DEF s, t, u, v, w, z
  <2>6. s + t \in Nat /\ s + t < w /\ s + t < z
    <3>1. s \in Nat
      BY <2>1 DEF s
    <3> QED BY <2>1, <2>2, <2>3, <2>5, <3>1
  <2>7. (s + t) % z = s + t
    BY <2>1, <2>6
  <2> QED BY <2>4, <2>6, <2>7 DEF s, t, u, v, w, z
<1>3. \A k \in 0 .. L : sum[k] < Power[k]
  <2> DEFINE T == {k \in Nat : k <= L => sum[k] < Power[k]}
  <2>1. 0 \in T
    BY <1>0, <1>1
  <2>2. ASSUME NEW k \in T PROVE k + 1 \in T
    <3> SUFFICES ASSUME k + 1 <= L PROVE sum[k + 1] < Power[k + 1]
      OBVIOUS
    <3>1. k + 1 \in 1 .. L /\ (k + 1) - 1 = k /\ sum[k] < Power[k]
      BY <1>0
    <3> QED BY <1>2, <3>1
  <2>3. T = Nat
    <3> HIDE DEF T
    <3>1. T \in SUBSET Nat
      BY DEF T
    <3> QED BY <2>1, <2>2, <3>1, SetInduction
  <2> SUFFICES ASSUME NEW k \in 0 .. L PROVE sum[k] < Power[k]
    OBVIOUS
  <2>4. k \in T /\ k <= L
    BY <2>3, <1>0
  <2> QED BY <2>4
<1>4. \A k \in 1 .. L : sum[k] = sum[k - 1] + d(k) * Power[k - 1]
  BY <1>0, <1>2, <1>3
<1>5. ASSUME NEW k \in 1 .. L
      PROVE  \E r \in Nat : sum[L] = sum[k] + Power[k] * r
  <2> DEFINE T == {n \in Nat : k + n <= L => \E r \in Nat : sum[k + n] = sum[k] + Power[k] * r}
  <2>0. k \in Nat /\ k \in 0 .. L /\ sum[k] \in Nat /\ Power[k] \in Nat
    BY <1>0
  <2>1. 0 \in T
    <3>1. sum[k + 0] = sum[k] + Power[k] * 0
      BY <2>0
    <3> QED BY <3>1
  <2>2. ASSUME NEW n \in T PROVE n + 1 \in T
    <3> SUFFICES ASSUME k + (n + 1) <= L
        PROVE \E r \in Nat : sum[k + (n + 1)] = sum[k] + Power[k] * r
      OBVIOUS
    <3>1. k + n <= L /\ k + n \in 0 .. L /\ k + (n + 1) \in 1 .. L /\ (k + (n + 1)) - 1 = k + n
      BY <1>0, <2>0
    <3>2. PICK r \in Nat : sum[k + n] = sum[k] + Power[k] * r
      BY <3>1
    <3>3. PICK q \in Nat : Power[k + n] = Power[k] * q
      <4>1. k \in 0 .. LEN_SIZE /\ k + n \in k .. LEN_SIZE
        BY <2>0, <3>1 DEF L
      <4> QED BY <4>1, PowerDivides
    <3>4. sum[k + (n + 1)] = sum[k + n] + d(k + (n + 1)) * Power[k + n]
      BY <1>4, <3>1
    <3> DEFINE v == d(k + (n + 1))
               u == Power[k]
    <3>5. v \in Nat /\ u \in Nat
      BY <1>0, <2>0, <3>1
    <3>6. v * (u * q) = u * (v * q) /\ v * q \in Nat /\ u * (r + v * q) = u * r + u * (v * q)
      <4> HIDE DEF u, v
      <4>1. v * q \in Nat
        BY <3>5, Products
      <4>2. v * (u * q) = u * (v * q)
        BY <3>5
      <4> QED BY <3>5, <4>1, <4>2, Products
    <3>7. sum[k + (n + 1)] = sum[k] + (u * r + u * (v * q))
      <4>1. sum[k + (n + 1)] = (sum[k] + u * r) + v * (u * q)
        BY <3>2, <3>3, <3>4
      <4>2. u * r \in Nat /\ v * (u * q) \in Nat
        <5> HIDE DEF u, v
        <5> QED BY <3>5, Products
      <4> HIDE DEF u, v
      <4> QED BY <2>0, <3>6, <4>1, <4>2
    <3>8. sum[k + (n + 1)] = sum[k] + u * (r + v * q) /\ r + v * q \in Nat
      <4> HIDE DEF u, v
      <4> QED BY <3>6, <3>7
    <3> QED BY <3>8
  <2>3. T = Nat
    <3> HIDE DEF T
    <3>1. T \in SUBSET Nat
      BY DEF T
    <3> QED BY <2>1, <2>2, <3>1, SetInduction
  <2>4. L - k \in Nat /\ k + (L - k) = L
    BY <1>0
  <2>5. L - k \in T
    BY <2>3, <2>4
  <2> QED BY <2>4, <2>5, <1>0
<1>6. ASSUME NEW k \in 1 .. L PROVE (sum[L] \div Power[k - 1]) % BASE = d(k)
  <2>1. PICK r \in Nat : sum[L] = sum[k] + Power[k] * r
    BY <1>5
  <2> DEFINE u == Power[k - 1]
             v == d(k)
             s == sum[k - 1]
  <2>2. k - 1 \in 0 .. L /\ u \in Nat /\ u > 0 /\ v \in Nat /\ v < BASE /\ s \in Nat /\ s < u
    BY <1>0, <1>3
  <2>3. sum[L] = (s + v * u) + (BASE * u) * r
    BY <1>0, <1>4, <2>1
  <2> HIDE DEF s, u, v
  <2>4. (s + v * u) + (BASE * u) * r = u * (BASE * r + v) + s /\ BASE * r + v \in Nat
    <3>1. BASE * r \in Nat /\ v * u = u * v /\ BASE * u = u * BASE /\ u * v \in Nat
      BY <1>0, <2>2, Products
    <3>2. (u * BASE) * r = u * (BASE * r) /\ u * (BASE * r) \in Nat
      BY <1>0, <2>2, <3>1, Products
    <3>3. u * (BASE * r + v) = u * (BASE * r) + u * v
      BY <2>2, <3>1, Products
    <3> QED BY <2>2, <3>1, <3>2, <3>3
  <2>5. sum[L] \div u = BASE * r + v
    <3> DEFINE x == BASE * r + v
    <3> HIDE DEF x
    <3>1. sum[L] = u * x + s /\ x \in Nat
      BY <2>3, <2>4 DEF x
    <3>2. sum[L] \div u = x
      BY <2>2, <3>1, DivMod
    <3> QED BY <3>2 DEF x
  <2>6. (BASE * r + v) % BASE = v
    BY <1>0, <2>2, DivMod
  <2> QED BY <2>5, <2>6 DEF u, v
<1> QED BY <1>1, <1>6, <1>0 DEF L, d

\* The two conversions of retrieve_chunk together read the bytes big-endian.
LEMMA BigEndian ==
  ASSUME NEW b, NEW at, \A k \in 1 .. LEN_SIZE : b[at + k - 1] \in Byte
  PROVE  \E y \in [0 .. LEN_SIZE -> Nat] :
           /\ y[0] = 0
           /\ \A k \in 1 .. LEN_SIZE : y[k] = y[k - 1] * BASE + b[at + k - 1]
           /\ ntohl(LittleEndian(b, at)) = y[LEN_SIZE]
<1>1. /\ LittleEndian(b, at) \in Nat
      /\ \A k \in 1 .. LEN_SIZE : (LittleEndian(b, at) \div Power[k - 1]) % BASE = b[at + k - 1]
  BY LittleEndianDigits
<1> DEFINE x == LittleEndian(b, at)
<1> HIDE DEF x
<1>2. PICK y \in [0 .. LEN_SIZE -> Nat] :
         /\ y[0] = 0
         /\ \A k \in 1 .. LEN_SIZE : y[k] = y[k - 1] * BASE + ((x \div Power[k - 1]) % BASE)
         /\ ntohl(x) = y[LEN_SIZE]
  <2>1. x \in Nat
    BY <1>1 DEF x
  <2> QED BY <2>1, SwappedSum
<1>3. \A k \in 1 .. LEN_SIZE : (x \div Power[k - 1]) % BASE = b[at + k - 1]
  BY <1>1 DEF x
<1>4. \A k \in 1 .. LEN_SIZE : y[k] = y[k - 1] * BASE + b[at + k - 1]
  BY <1>2, <1>3
<1> QED BY <1>2, <1>4 DEF x

\* What the length of a chunk is: 0 if its bytes are; too much for a segment if
\* the first is not 0; x if they are the digits of x.
LEMMA LengthRead ==
  ASSUME NEW b, NEW at \in Nat, \A k \in 1 .. LEN_SIZE : b[at + k - 1] \in Byte
  PROVE  /\ ntohl(LittleEndian(b, at)) \in Nat
         /\ (\A k \in 1 .. LEN_SIZE : b[at + k - 1] = 0) => ntohl(LittleEndian(b, at)) = 0
         /\ b[at] # 0 => ntohl(LittleEndian(b, at)) >= Power[LEN_SIZE - 1]
         /\ \A x \in Nat :
              /\ x < Power[LEN_SIZE]
              /\ \A k \in 1 .. LEN_SIZE : b[at + k - 1] = Digits(x)[k]
              => ntohl(LittleEndian(b, at)) = x
<1> DEFINE L == LEN_SIZE
           d(k) == b[at + k - 1]
<1>0. /\ L \in Nat /\ L > 0 /\ BASE \in Nat /\ BASE > 1
      /\ \A k \in 1 .. L : d(k) \in Nat
      /\ \A k \in 0 .. L : Power[k] \in Nat /\ Power[k] > 0
      /\ \A k \in 1 .. L : Power[k] = BASE * Power[k - 1]
      /\ Power[0] = 1
  <2>1. \A k \in 1 .. L : d(k) \in Nat
    BY Powers DEF Byte
  <2> HIDE DEF d
  <2> QED BY <2>1, Powers
<1>1. PICK y \in [0 .. L -> Nat] :
         /\ y[0] = 0
         /\ \A k \in 1 .. L : y[k] = y[k - 1] * BASE + d(k)
         /\ ntohl(LittleEndian(b, at)) = y[L]
  BY BigEndian
<1>2. ASSUME \A k \in 1 .. L : d(k) = 0 PROVE y[L] = 0
  <2> HIDE DEF L, d
  <2> DEFINE T == {k \in Nat : k <= L => y[k] = 0}
  <2>1. 0 \in T
    BY <1>1
  <2>2. ASSUME NEW k \in T PROVE k + 1 \in T
    <3> SUFFICES ASSUME k + 1 <= L PROVE y[k + 1] = 0
      OBVIOUS
    <3>1. k + 1 \in 1 .. L /\ (k + 1) - 1 = k /\ y[k] = 0
      BY <1>0
    <3>2. y[k + 1] = 0 * BASE + 0
      BY <1>1, <1>2, <3>1
    <3> QED BY <1>0, <3>2
  <2>3. T = Nat
    <3> HIDE DEF T
    <3>1. T \in SUBSET Nat
      BY DEF T
    <3> QED BY <2>1, <2>2, <3>1, SetInduction
  <2>4. L \in T
    BY <1>0, <2>3
  <2> QED BY <2>4, <1>0
<1>3. ASSUME b[at] # 0 PROVE y[L] >= Power[L - 1]
  <2>0. d(1) \in Nat /\ d(1) # 0
    <3>1. at + 1 - 1 = at /\ 1 \in 1 .. L
      BY <1>0
    <3>2. d(1) = b[at]
      BY <3>1
    <3>3. d(1) \in Nat
      BY <1>0, <3>1
    <3> HIDE DEF d
    <3> QED BY <1>3, <3>2, <3>3
  <2> HIDE DEF L, d
  <2> DEFINE T == {k \in Nat : k + 1 <= L => y[k + 1] >= Power[k]}
  <2>1. 0 \in T
    <3>1. y[1] = 0 * BASE + d(1)
      BY <1>0, <1>1
    <3> QED BY <1>0, <2>0, <3>1
  <2>2. ASSUME NEW k \in T PROVE k + 1 \in T
    <3> SUFFICES ASSUME (k + 1) + 1 <= L PROVE y[(k + 1) + 1] >= Power[k + 1]
      OBVIOUS
    <3>1. /\ (k + 1) + 1 \in 1 .. L /\ ((k + 1) + 1) - 1 = k + 1 /\ y[k + 1] >= Power[k]
          /\ k + 1 \in 1 .. L /\ k \in 0 .. L /\ (k + 1) - 1 = k /\ k + 1 \in 0 .. L
      BY <1>0
    <3>2. y[(k + 1) + 1] = y[k + 1] * BASE + d((k + 1) + 1) /\ Power[k + 1] = BASE * Power[k]
      BY <1>0, <1>1, <3>1
    <3> DEFINE v == y[k + 1]
               w == Power[k]
    <3>3. v \in Nat /\ w \in Nat /\ w <= v /\ d((k + 1) + 1) \in Nat
      BY <1>0, <3>1
    <3>4. w * BASE <= v * BASE /\ w * BASE = BASE * w /\ v * BASE \in Nat /\ w * BASE \in Nat
      <4> HIDE DEF v, w
      <4> QED BY <1>0, <3>3, Products
    <3> HIDE DEF v, w
    <3>5. y[(k + 1) + 1] = v * BASE + d((k + 1) + 1) /\ Power[k + 1] = w * BASE
      BY <3>2, <3>4 DEF v, w
    <3> QED BY <3>3, <3>4, <3>5
  <2>3. T = Nat
    <3> HIDE DEF T
    <3>1. T \in SUBSET Nat
      BY DEF T
    <3> QED BY <2>1, <2>2, <3>1, SetInduction
  <2>4. L - 1 \in Nat /\ (L - 1) + 1 = L
    BY <1>0
  <2>5. L - 1 \in T
    BY <2>3, <2>4
  <2> QED BY <2>4, <2>5, <1>0
<1>4. ASSUME NEW x \in Nat, x < Power[L], \A k \in 1 .. L : d(k) = Digits(x)[k]
      PROVE  y[L] = x
  <2>0. \A k \in 1 .. L : d(k) = (x \div Power[L - k]) % BASE
    BY <1>4 DEF Digits
  <2> HIDE DEF L, d
  <2> DEFINE T == {k \in Nat : k <= L => y[k] = x \div Power[L - k]}
  <2>1. 0 \in T
    <3> DEFINE u == Power[L]
    <3>0. u \in Nat /\ x < u /\ u > 0 /\ L - 0 = L
      BY <1>0, <1>4
    <3>1. x \div u = 0
      <4> HIDE DEF u
      <4> QED BY <3>0
    <3> QED BY <1>1, <3>0, <3>1
  <2>2. ASSUME NEW k \in T PROVE k + 1 \in T
    <3> SUFFICES ASSUME k + 1 <= L PROVE y[k + 1] = x \div Power[L - (k + 1)]
      OBVIOUS
    <3> DEFINE u == Power[L - (k + 1)]
    <3>1. /\ k + 1 \in 1 .. L /\ (k + 1) - 1 = k /\ y[k] = x \div Power[L - k]
          /\ L - k \in 1 .. L /\ (L - k) - 1 = L - (k + 1) /\ L - (k + 1) \in 0 .. L
      BY <1>0
    <3>2. u \in Nat /\ u > 0 /\ Power[L - k] = u * BASE
      <4>1. u \in Nat /\ u > 0 /\ Power[L - k] = BASE * u
        BY <1>0, <3>1
      <4> HIDE DEF u
      <4> QED BY <1>0, <4>1, Products
    <3>3. y[k + 1] = (x \div (u * BASE)) * BASE + ((x \div u) % BASE)
      BY <1>1, <2>0, <3>1, <3>2
    <3>4. x \div u = (x \div (u * BASE)) * BASE + ((x \div u) % BASE)
      <4> HIDE DEF u
      <4>1. u \in Nat /\ u > 0 /\ BASE \in Nat /\ BASE > 0
        BY <1>0, <3>2
      <4> QED BY <4>1, DivDiv
    <3> QED BY <3>3, <3>4
  <2>3. T = Nat
    <3> HIDE DEF T
    <3>1. T \in SUBSET Nat
      BY DEF T
    <3> QED BY <2>1, <2>2, <3>1, SetInduction
  <2>4. L \in T
    BY <1>0, <2>3
  <2>5. y[L] = x \div Power[L - L] /\ L - L = 0
    BY <2>4, <1>0
  <2>6. x \div 1 = x
    OBVIOUS
  <2> QED BY <2>5, <2>6, <1>0
<1>5. y[L] \in Nat
  BY <1>0, <1>1
<1> QED BY <1>1, <1>2, <1>3, <1>4, <1>5

-----------------------------------------------------------------------------
(* The consumer and the parent. *)

\* The consumer looks at the slot of a call that has returned with bytes.
Begun ==
  /\ stage \in {"slot", "inflate", "paste", "deflate", "assert", "done", "fault", "overrun"}
  /\ stage # "slot" => pc = "return0" /\ slot_size # 0

\* What is not touched yet, and how far mem_inf may have come.
Progress ==
  /\ inf_len \in 0 .. MaxInflated /\ uncompressed_size \in 0 .. MaxInflated
  /\ stage = "slot" => inf_len = 0
  /\ stage \in {"slot", "inflate"} => uncompressed_size = STRIP
  /\ stage \in {"slot", "inflate", "paste"} => idat_data = [x \in Image |-> BLANK]

\* An empty chunk gives nothing, and an error page has no other.
EmptyChunk ==
  /\ idat = <<>> /\ stage = "inflate" => inf_len = 0
  /\ idat = <<>> /\ (stage = "paste" \/ Pasted) => uncompressed_size = 0
  /\ Protocol /\ ~response.fragment /\ stage \notin {"slot", "fault"} => idat = <<>>

\* The part is in the slot.
Complete == Protocol /\ response.fragment /\ pc = "return0" /\ slot_size = Len(response.body)

\* Of a part that is, mem_inf has the stream, and what it has written is right.
WholeChunk ==
  Complete /\ stage # "slot" =>
    /\ idat = STREAM /\ stage # "fault"
    /\ \A c \in 0 .. inf_len - 1 : temp_data[c] = c
    /\ stage # "inflate" => inf_len = STRIP /\ uncompressed_size = STRIP

\* The stream of a part never leaves temp_data.
StreamFits == idat = STREAM /\ stage \in {"inflate", "paste"} => inf_len <= STRIP

PathInv == Begun /\ Progress /\ EmptyChunk /\ StreamFits /\ WholeChunk /\ WholeInImage

-----------------------------------------------------------------------------
\* What the proofs need of the concatenation of two sequences of bytes.
LEMMA Concatenation ==
  ASSUME NEW s \in Seq(Byte), NEW t \in Seq(Byte)
  PROVE  /\ s \o t \in Seq(Byte) /\ Len(s \o t) = Len(s) + Len(t) /\ Len(s) \in Nat /\ Len(t) \in Nat
         /\ \A k \in 1 .. Len(s) : (s \o t)[k] = s[k]
         /\ \A k \in 1 .. Len(t) : (s \o t)[Len(s) + k] = t[k]
OBVIOUS

\* Where the length and the data of the chunk are in a part.
LEMMA PartLayout ==
  /\ IDAT_AT \in Nat /\ LEN_SIZE \in Nat /\ LEN_SIZE > 0 /\ TYPE_SIZE \in Nat /\ DataAt \in Nat
  /\ Len(STREAM) \in Nat
  /\ Len(PartBody) = DataAt + Len(STREAM) + LEN_SIZE
  /\ \A k \in 1 .. LEN_SIZE : PartBody[IDAT_AT + k] = Digits(Len(STREAM))[k]
  /\ \A k \in 1 .. Len(STREAM) : PartBody[DataAt + k] = STREAM[k]
<1> DEFINE ones(n) == [k \in 1 .. n |-> 1]
           dig == Digits(Len(STREAM))
           s1 == ones(IDAT_AT)
           s2 == s1 \o dig
           s3 == s2 \o ones(TYPE_SIZE)
           s4 == s3 \o STREAM
           s5 == s4 \o ones(LEN_SIZE)
<1>1. /\ IDAT_AT \in Nat /\ LEN_SIZE \in Nat /\ LEN_SIZE > 0 /\ TYPE_SIZE \in Nat
      /\ STREAM \in Seq(Byte) /\ Len(STREAM) \in Nat /\ BASE \in Nat /\ BASE > 1
  BY PathAssumption, CurlAssumption
<1>2. \A n \in Nat : ones(n) \in Seq(Byte) /\ Len(ones(n)) = n
  <2> SUFFICES ASSUME NEW n \in Nat PROVE ones(n) \in Seq(Byte) /\ Len(ones(n)) = n
    OBVIOUS
  <2>1. 1 \in Byte
    BY <1>1 DEF Byte
  <2>2. ones(n) \in [1 .. n -> Byte]
    BY <2>1
  <2> QED BY <2>2
<1>3. dig \in Seq(Byte) /\ Len(dig) = LEN_SIZE
  <2>1. \A k \in 1 .. LEN_SIZE : (Len(STREAM) \div Power[LEN_SIZE - k]) % BASE \in Byte
    <3> TAKE k \in 1 .. LEN_SIZE
    <3>1. LEN_SIZE - k \in 0 .. LEN_SIZE
      BY <1>1
    <3>2. Power[LEN_SIZE - k] \in Nat /\ Power[LEN_SIZE - k] > 0
      BY <3>1, Powers
    <3>3. Len(STREAM) \div Power[LEN_SIZE - k] \in Nat
      BY <1>1, <3>2, Division
    <3>4. (Len(STREAM) \div Power[LEN_SIZE - k]) % BASE \in Nat
          /\ (Len(STREAM) \div Power[LEN_SIZE - k]) % BASE < BASE
      BY <1>1, <3>3, Division
    <3> QED BY <1>1, <3>4 DEF Byte
  <2>2. dig \in [1 .. LEN_SIZE -> Byte]
    BY <2>1 DEF Digits
  <2> QED BY <1>1, <2>2
<1> HIDE DEF ones, dig
<1>4. /\ s1 \in Seq(Byte) /\ Len(s1) = IDAT_AT
      /\ s2 \in Seq(Byte) /\ Len(s2) = IDAT_AT + LEN_SIZE
      /\ \A k \in 1 .. LEN_SIZE : s2[IDAT_AT + k] = dig[k]
  <2>1. s1 \in Seq(Byte) /\ Len(s1) = IDAT_AT
    BY <1>1, <1>2
  <2> HIDE DEF s1
  <2>2. /\ s2 \in Seq(Byte) /\ Len(s2) = Len(s1) + Len(dig)
        /\ \A k \in 1 .. Len(dig) : s2[Len(s1) + k] = dig[k]
    BY <1>3, <2>1, Concatenation
  <2> QED BY <1>3, <2>1, <2>2
<1> HIDE DEF s2
<1>5. /\ s3 \in Seq(Byte) /\ Len(s3) = DataAt
      /\ \A k \in 1 .. IDAT_AT + LEN_SIZE : s3[k] = s2[k]
  <2> DEFINE t == ones(TYPE_SIZE)
  <2>1. t \in Seq(Byte) /\ Len(t) = TYPE_SIZE
    BY <1>1, <1>2
  <2> HIDE DEF t
  <2>2. /\ s2 \o t \in Seq(Byte) /\ Len(s2 \o t) = Len(s2) + Len(t)
        /\ \A k \in 1 .. Len(s2) : (s2 \o t)[k] = s2[k]
    BY <1>4, <2>1, Concatenation
  <2> QED BY <1>1, <1>4, <2>1, <2>2 DEF DataAt, t
<1> HIDE DEF s3
<1>6. /\ s4 \in Seq(Byte) /\ Len(s4) = DataAt + Len(STREAM)
      /\ \A k \in 1 .. DataAt : s4[k] = s3[k]
      /\ \A k \in 1 .. Len(STREAM) : s4[DataAt + k] = STREAM[k]
  BY <1>1, <1>5, Concatenation
<1> HIDE DEF s4
<1>7. /\ Len(s5) = DataAt + Len(STREAM) + LEN_SIZE
      /\ \A k \in 1 .. DataAt + Len(STREAM) : s5[k] = s4[k]
  <2> DEFINE t == ones(LEN_SIZE)
  <2>1. t \in Seq(Byte) /\ Len(t) = LEN_SIZE
    BY <1>1, <1>2
  <2> HIDE DEF t
  <2>2. /\ Len(s4 \o t) = Len(s4) + Len(t)
        /\ \A k \in 1 .. Len(s4) : (s4 \o t)[k] = s4[k]
    BY <1>6, <2>1, Concatenation
  <2> QED BY <1>6, <2>1, <2>2 DEF t
<1>8. PartBody = s5
  BY DEF PartBody, s2, s3, s4, dig, ones
<1> HIDE DEF s5
<1>9. DataAt \in Nat /\ DataAt >= IDAT_AT + LEN_SIZE
  BY <1>1 DEF DataAt
<1>10. ASSUME NEW k \in 1 .. LEN_SIZE PROVE PartBody[IDAT_AT + k] = Digits(Len(STREAM))[k]
  <2>1. IDAT_AT + k \in 1 .. IDAT_AT + LEN_SIZE /\ IDAT_AT + k \in 1 .. DataAt
        /\ IDAT_AT + k \in 1 .. DataAt + Len(STREAM)
    BY <1>1, <1>9
  <2> QED BY <1>4, <1>5, <1>6, <1>7, <1>8, <2>1 DEF dig
<1>11. ASSUME NEW k \in 1 .. Len(STREAM) PROVE PartBody[DataAt + k] = STREAM[k]
  <2>1. DataAt + k \in 1 .. DataAt + Len(STREAM)
    BY <1>1, <1>9
  <2> QED BY <1>6, <1>7, <1>8, <2>1
<1> QED BY <1>1, <1>7, <1>8, <1>9, <1>10, <1>11

-----------------------------------------------------------------------------
\* The length field of a slot lies in its segment.
LEMMA LengthBytes ==
  ASSUME TypeOK
  PROVE  \A k \in 1 .. LEN_SIZE : IDAT_AT + k - 1 \in Index /\ slot_buf[IDAT_AT + k - 1] \in Byte
<1>1. IDAT_AT \in Nat /\ LEN_SIZE \in Nat /\ IDAT_AT + LEN_SIZE <= shm_size /\ shm_size \in Nat
  BY PathAssumption, Sizes
<1>2. \A k \in 1 .. LEN_SIZE : IDAT_AT + k - 1 \in Index
  BY <1>1 DEF Index
<1> QED BY <1>2 DEF TypeOK

\* Of a part that is complete in the slot, retrieve_chunk gets the stream.
LEMMA PartRetrieved ==
  ASSUME Inv, Complete
  PROVE  /\ ChunkLength = Len(STREAM)
         /\ DataAt + ChunkLength + LEN_SIZE <= shm_size
         /\ [k \in 1 .. ChunkLength |-> slot_buf[DataAt + k - 1]] = STREAM
<1>1. response.body = PartBody /\ slot_size = Len(PartBody) /\ size = slot_size /\ size < BUF_SIZE
      /\ size \in Nat
  BY Sizes DEF Complete, Protocol, Inv, Copied, PrefixStored, TypeOK
<1>2. \A k \in 0 .. size - 1 : slot_buf[k] = PartBody[k + 1]
  <2>1. i = size /\ \A k \in 0 .. i - 1 : slot_buf[k] = buf[k]
    BY DEF Inv, Copied, Complete
  <2> QED BY <1>1, <2>1 DEF Inv, PrefixStored
<1>3. \A k \in 1 .. LEN_SIZE : slot_buf[IDAT_AT + k - 1] = Digits(Len(STREAM))[k]
  <2> TAKE k \in 1 .. LEN_SIZE
  <2>1. IDAT_AT + k - 1 \in 0 .. size - 1 /\ (IDAT_AT + k - 1) + 1 = IDAT_AT + k
    BY <1>1, PartLayout DEF DataAt
  <2> QED BY <1>2, <2>1, PartLayout
<1>4. \A k \in 1 .. Len(STREAM) : slot_buf[DataAt + k - 1] = STREAM[k]
  <2> TAKE k \in 1 .. Len(STREAM)
  <2>1. DataAt + k - 1 \in 0 .. size - 1 /\ (DataAt + k - 1) + 1 = DataAt + k
    BY <1>1, PartLayout
  <2> QED BY <1>2, <2>1, PartLayout
<1>5. ChunkLength = Len(STREAM)
  <2>1. \A k \in 1 .. LEN_SIZE : slot_buf[IDAT_AT + k - 1] \in Byte
    BY LengthBytes DEF Inv
  <2>2. Len(STREAM) \in Nat /\ Len(STREAM) < Power[LEN_SIZE] /\ IDAT_AT \in Nat
    BY PathAssumption
  <2> QED BY <1>3, <2>1, <2>2, LengthRead DEF ChunkLength
<1>6. DataAt + ChunkLength + LEN_SIZE <= shm_size
  BY <1>1, <1>5, PartLayout, Sizes
<1>7. STREAM = [k \in 1 .. Len(STREAM) |-> STREAM[k]]
  BY PathAssumption
<1> QED BY <1>4, <1>5, <1>6, <1>7

\* Of an error page retrieve_chunk gets an empty chunk, if it does not leave the
\* segment: with a text where the length should be, it does.
LEMMA PageRetrieved ==
  ASSUME Inv, pc = "return0", Protocol, ~response.fragment,
         DataAt + ChunkLength + LEN_SIZE <= shm_size
  PROVE  ChunkLength = 0
<1>0. /\ size \in Nat /\ IDAT_AT \in Nat /\ LEN_SIZE \in Nat /\ LEN_SIZE > 0 /\ DataAt \in Nat
      /\ shm_size \in Nat /\ size <= Len(response.body) /\ Len(response.body) \in Nat
  BY PartLayout, Sizes DEF Inv, TypeOK, PrefixStored
<1>1. \A k \in 1 .. LEN_SIZE : IDAT_AT + k - 1 \in Index /\ slot_buf[IDAT_AT + k - 1] \in Byte
  BY LengthBytes DEF Inv
<1>2. CASE slot_buf[IDAT_AT] # 0
  <2>1. ChunkLength \in Nat /\ ChunkLength >= Power[LEN_SIZE - 1]
    BY <1>0, <1>1, <1>2, LengthRead DEF ChunkLength
  <2>2. Power[LEN_SIZE - 1] \in Nat /\ shm_size <= Power[LEN_SIZE - 1]
    BY <1>0, Powers, PathAssumption
  <2> QED BY <1>0, <2>1, <2>2
<1>3. CASE slot_buf[IDAT_AT] = 0
  <2>1. ~(IDAT_AT < size)
    <3> SUFFICES ASSUME IDAT_AT < size PROVE FALSE
      OBVIOUS
    <3>1. slot_buf[IDAT_AT] = buf[IDAT_AT] /\ buf[IDAT_AT] = response.body[IDAT_AT + 1]
      BY <1>0 DEF Inv, Copied, PrefixStored
    <3>2. IDAT_AT + 1 \in 1 .. Len(response.body)
      BY <1>0
    <3> QED BY <1>3, <3>1, <3>2 DEF Protocol, NUL
  <2>2. \A k \in 1 .. LEN_SIZE : slot_buf[IDAT_AT + k - 1] = 0
    <3> TAKE k \in 1 .. LEN_SIZE
    <3>1. IDAT_AT + k - 1 \in Index /\ IDAT_AT + k - 1 >= size
      <4>1. IDAT_AT + k - 1 \in Index
        BY <1>1
      <4>2. k \in Nat /\ k >= 1
        BY <1>0
      <4> QED BY <1>0, <2>1, <4>1, <4>2
    <3> QED BY <3>1 DEF Inv, Copied, NUL
  <2> QED BY <1>0, <1>1, <2>2, LengthRead DEF ChunkLength
<1> QED BY <1>2, <1>3

\* The types of what the consumer computes with.
LEMMA LengthTypes ==
  ASSUME TypeOK
  PROVE  /\ ChunkLength \in Nat
         /\ STRIP \in Nat /\ STRIP > 0 /\ CHUNK \in Nat /\ CHUNK > 0 /\ Len(STREAM) = STRIP + 2
<1>1. IDAT_AT \in Nat /\ \A k \in 1 .. LEN_SIZE : slot_buf[IDAT_AT + k - 1] \in Byte
  BY LengthBytes, PathAssumption
<1>2. ChunkLength \in Nat
  BY <1>1, LengthRead DEF ChunkLength
<1> QED BY <1>2, PathAssumption, StripAssumption

\* get_cURL has returned for good.
LEMMA ReturnedStays == pc = "return0" /\ [Next]_vars => UNCHANGED vars
BY DEF Next, Network, EasyInit, HeaderCb, NoFragment, PerformReturns, WriteCb,
   WriteCbAborts, Strcpy, Publish, Returned

\* What the consumer's steps read of the slot does not change under them.
LEMMA SlotFrozen ==
  ASSUME UNCHANGED vars
  PROVE  /\ Protocol' = Protocol /\ Complete' = Complete /\ ChunkLength' = ChunkLength
         /\ pc' = pc /\ response' = response /\ slot_size' = slot_size /\ slot_seq' = slot_seq
         /\ Outcome' = Outcome
BY DEF vars, shared, Protocol, Complete, ChunkLength, Outcome

\* PathInit establishes the invariant.
LEMMA PathInitInv ==
  PathInit => PathInv
<1> SUFFICES ASSUME PathInit PROVE PathInv
  OBVIOUS
<1>1. STRIP \in Nat /\ MaxInflated \in Nat /\ STRIP <= MaxInflated
  BY StripAssumption
<1> QED BY <1>1 DEF PathInit, PathInv, Begun, Progress, EmptyChunk, StreamFits, WholeChunk,
       WholeInImage, StripInPlace, DeflatedAll, Pasted

\* Until get_cURL has returned the consumer does nothing.
LEMMA CurlKeepsPath == PathInv /\ [Next]_vars /\ UNCHANGED path => PathInv'
<1> SUFFICES ASSUME PathInv, [Next]_vars, UNCHANGED path PROVE PathInv'
  OBVIOUS
<1>1. CASE stage = "slot"
  BY <1>1 DEF PathInv, path, inflating, Begun, Progress, EmptyChunk, StreamFits, WholeChunk,
     WholeInImage, StripInPlace, DeflatedAll, Pasted
<1>2. CASE stage # "slot"
  <2>1. UNCHANGED vars
    BY <1>2, ReturnedStays DEF PathInv, Begun
  <2>2. /\ Protocol' = Protocol /\ Complete' = Complete /\ pc' = pc /\ response' = response
        /\ slot_size' = slot_size /\ Outcome' = Outcome
    BY <2>1, SlotFrozen
  <2> QED BY <2>2 DEF PathInv, path, inflating, Begun, Progress, EmptyChunk, StreamFits,
        WholeChunk, WholeInImage, StripInPlace, DeflatedAll, Pasted
<1> QED BY <1>1, <1>2

\* retrieve_chunk keeps the invariant.
LEMMA RetrieveKeepsPath ==
  ASSUME Inv, PathInv, UNCHANGED vars, RetrieveChunk \/ RetrieveFaults
  PROVE  PathInv'
<1>0. /\ Protocol' = Protocol /\ Complete' = Complete /\ pc' = pc /\ response' = response
      /\ slot_size' = slot_size /\ Outcome' = Outcome
  BY SlotFrozen
<1>1. stage = "slot" /\ pc = "return0" /\ slot_size # 0
  BY DEF RetrieveChunk, RetrieveFaults
<1>2. CASE RetrieveChunk
  <2>1. /\ stage' = "inflate" /\ idat' = [k \in 1 .. ChunkLength |-> slot_buf[DataAt + k - 1]]
        /\ inf_len' = inf_len /\ uncompressed_size' = uncompressed_size /\ idat_data' = idat_data
        /\ DataAt + ChunkLength + LEN_SIZE <= shm_size
    BY <1>2 DEF RetrieveChunk, inflating
  <2>2. Complete => idat' = STREAM
    BY <2>1, PartRetrieved
  <2>3. Protocol /\ ~response.fragment => idat' = <<>>
    BY <1>1, <2>1, PageRetrieved
  <2>4. Begun' /\ Progress'
    BY <1>0, <1>1, <2>1 DEF Begun, Progress, PathInv
  <2>5. EmptyChunk'
    BY <1>0, <1>1, <2>1, <2>3 DEF EmptyChunk, Progress, PathInv, Pasted
  <2>6. WholeChunk'
    BY <1>0, <1>1, <2>1, <2>2 DEF WholeChunk, Progress, PathInv
  <2>7. WholeInImage'
    BY <2>1 DEF WholeInImage, StripInPlace, DeflatedAll, Pasted
  <2>8. StreamFits'
    BY <1>1, <2>1, StripAssumption DEF StreamFits, Progress, PathInv
  <2> QED BY <2>4, <2>5, <2>6, <2>7, <2>8 DEF PathInv
<1>3. CASE RetrieveFaults
  <2>1. /\ stage' = "fault" /\ idat' = idat
        /\ inf_len' = inf_len /\ uncompressed_size' = uncompressed_size /\ idat_data' = idat_data
        /\ ~(DataAt + ChunkLength + LEN_SIZE <= shm_size)
    <3>1. DataAt + ChunkLength + LEN_SIZE > shm_size
      BY <1>3 DEF RetrieveFaults
    <3>2. DataAt \in Nat /\ ChunkLength \in Nat /\ LEN_SIZE \in Nat /\ shm_size \in Nat
      BY PartLayout, LengthTypes, Sizes DEF Inv
    <3> QED BY <1>3, <3>1, <3>2 DEF RetrieveFaults, inflating
  <2>2. ~Complete
    BY <2>1, PartRetrieved
  <2>3. Begun' /\ Progress' /\ WholeChunk'
    BY <1>0, <1>1, <2>1, <2>2 DEF Begun, Progress, WholeChunk, PathInv
  <2>4. EmptyChunk' /\ StreamFits' /\ WholeInImage'
    BY <2>1 DEF EmptyChunk, StreamFits, Pasted, WholeInImage, StripInPlace, DeflatedAll
  <2> QED BY <2>3, <2>4 DEF PathInv
<1> QED BY <1>2, <1>3

\* mem_inf on the stream itself: each call gives the next CHUNK cells, or the
\* rest of the strip when that is less than CHUNK.
LEMMA InflateWhole ==
  ASSUME TypeOK, inf_len \in 0 .. STRIP, idat = STREAM, NEW r \in Inflate
  PROVE  /\ r.code \notin ErrorCodes /\ r.have \in Nat /\ inf_len + r.have <= STRIP
         /\ ~OutputFull(r) => inf_len + r.have = STRIP
<1>1. STRIP \in Nat /\ CHUNK \in Nat /\ inf_len \in Nat /\ inf_len <= STRIP
  BY LengthTypes
<1> DEFINE m == IF CHUNK <= STRIP - inf_len THEN CHUNK ELSE STRIP - inf_len
<1>2. m \in Nat /\ inf_len + m <= STRIP /\ (m # CHUNK => inf_len + m = STRIP)
  BY <1>1
<1>3. r.have = m /\ r.code \in {"Z_OK", "Z_STREAM_END"}
  BY DEF Inflate, Calls
<1> HIDE DEF m
<1> QED BY <1>2, <1>3 DEF ErrorCodes, OutputFull

\* Without a byte there is no output, and nothing fills the buffer.
LEMMA InflateNothing ==
  ASSUME TypeOK, idat = <<>>, NEW r \in Inflate
  PROVE  r.code \notin ErrorCodes /\ r.have = 0 /\ ~OutputFull(r)
<1>1. idat # STREAM /\ CHUNK # 0
  BY LengthTypes
<1>2. r \in Calls(0, {"Z_BUF_ERROR"})
  BY <1>1 DEF Inflate
<1> QED BY <1>1, <1>2 DEF Calls, ErrorCodes, OutputFull

\* inflate gives some bytes or none, and not more than its bytes can stand for.
LEMMA InflateTypes ==
  ASSUME TypeOK, inf_len \in 0 .. MaxInflated, idat = STREAM => inf_len <= STRIP,
         NEW r \in Inflate
  PROVE  r.have \in Nat /\ inf_len + r.have \in 0 .. MaxInflated
<1>0. STRIP \in Nat /\ MaxInflated \in Nat /\ STRIP <= MaxInflated /\ CHUNK \in Nat
  BY StripAssumption, PathAssumption
<1>1. CASE idat = STREAM
  <2>1. inf_len \in 0 .. STRIP
    BY <1>0, <1>1
  <2>2. r.have \in Nat /\ inf_len + r.have <= STRIP
    BY <1>1, <2>1, InflateWhole
  <2> QED BY <1>0, <2>2
<1>2. CASE idat = <<>>
  <2>1. r.have = 0
    BY <1>2, InflateNothing
  <2> QED BY <1>0, <2>1
<1>3. CASE idat # STREAM /\ idat # <<>>
  <2>1. PICK m \in {n \in 0 .. CHUNK : inf_len + n <= MaxInflated} :
          r \in Calls(m, ErrorCodes \cup {"Z_OK", "Z_STREAM_END", "Z_BUF_ERROR"})
    BY <1>3 DEF Inflate
  <2>2. r.have = m
    BY <2>1 DEF Calls
  <2> QED BY <1>0, <2>1, <2>2
<1> QED BY <1>1, <1>2, <1>3

\* The cells of a chunk that is the stream.
LEMMA FilledWhole ==
  ASSUME TypeOK, idat = STREAM, inf_len \in 0 .. STRIP, NEW m \in Nat, inf_len + m <= STRIP,
         \A c \in 0 .. inf_len - 1 : temp_data[c] = c
  PROVE  \A c \in 0 .. (inf_len + m) - 1 : Filled(m)[c] = c
<1> TAKE c \in 0 .. (inf_len + m) - 1
<1>1. /\ STRIP \in Nat /\ inf_len \in Nat /\ Len(STREAM) = STRIP + 2
      /\ c \in 0 .. STRIP - 1 /\ c < STRIP /\ c < inf_len + m /\ c \in Stack
  BY LengthTypes, StripAssumption DEF Stack
<1>2. CASE inf_len <= c
  <2>1. Genuine(c + 2)
    BY <1>1 DEF Genuine
  <2> QED BY <1>1, <1>2, <2>1 DEF Filled
<1>3. CASE ~(inf_len <= c)
  <2>1. c \in 0 .. inf_len - 1
    BY <1>1, <1>3
  <2> QED BY <1>1, <1>3, <2>1 DEF Filled
<1> QED BY <1>2, <1>3

\* An iteration of mem_inf's loop, or its end, keeps the invariant.
LEMMA InflateKeepsPath ==
  ASSUME Inv, PathInv, UNCHANGED vars, NEW r \in Inflate,
         InflateError(r) \/ InflateMore(r) \/ InflateEnds(r)
  PROVE  PathInv'
<1>0. /\ Protocol' = Protocol /\ Complete' = Complete /\ pc' = pc /\ response' = response
      /\ slot_size' = slot_size /\ Outcome' = Outcome
  BY SlotFrozen
<1>1. /\ stage = "inflate" /\ TypeOK /\ STRIP \in Nat /\ inf_len \in 0 .. MaxInflated
      /\ r.have \in Nat /\ inf_len + r.have \in 0 .. MaxInflated
      /\ Complete => inf_len \in 0 .. STRIP
      /\ idat' = idat /\ idat_data' = idat_data
      /\ pc = "return0" /\ slot_size # 0 /\ uncompressed_size = STRIP
      /\ idat_data = [x \in Image |-> BLANK]
  <2>1. stage = "inflate" /\ idat' = idat /\ idat_data' = idat_data
    BY DEF InflateError, InflateMore, InflateEnds
  <2>2. TypeOK /\ STRIP \in Nat /\ inf_len \in 0 .. MaxInflated
    BY LengthTypes DEF Inv, PathInv, Progress
  <2>3. idat = STREAM => inf_len <= STRIP
    BY <2>1 DEF PathInv, StreamFits
  <2>4. r.have \in Nat /\ inf_len + r.have \in 0 .. MaxInflated
    BY <2>2, <2>3, InflateTypes
  <2>5. Complete => idat = STREAM
    BY <2>1 DEF PathInv, WholeChunk
  <2>6. Complete => inf_len \in 0 .. STRIP
    BY <2>2, <2>3, <2>5
  <2> QED BY <2>1, <2>2, <2>4, <2>6 DEF PathInv, Begun, Progress
<1>2. /\ Complete => /\ idat = STREAM /\ r.code \notin ErrorCodes /\ inf_len + r.have <= STRIP
                     /\ ~OutputFull(r) => inf_len + r.have = STRIP
                     /\ \A c \in 0 .. (inf_len + r.have) - 1 : Filled(r.have)[c] = c
      /\ idat = <<>> => inf_len = 0 /\ r.code \notin ErrorCodes /\ r.have = 0 /\ ~OutputFull(r)
      /\ Protocol /\ ~response.fragment => idat = <<>>
  <2>1. Complete => idat = STREAM /\ \A c \in 0 .. inf_len - 1 : temp_data[c] = c
    BY <1>1 DEF PathInv, WholeChunk
  <2>2. Complete => /\ r.code \notin ErrorCodes /\ inf_len + r.have <= STRIP
                    /\ ~OutputFull(r) => inf_len + r.have = STRIP
    BY <1>1, <2>1, InflateWhole
  <2>3. Complete => \A c \in 0 .. (inf_len + r.have) - 1 : Filled(r.have)[c] = c
    BY <1>1, <2>1, <2>2, FilledWhole
  <2>4. idat = <<>> => r.code \notin ErrorCodes /\ r.have = 0 /\ ~OutputFull(r)
    BY <1>1, InflateNothing
  <2> QED BY <1>1, <2>1, <2>2, <2>3, <2>4 DEF PathInv, EmptyChunk
<1>3. idat = STREAM => inf_len <= STRIP /\ inf_len + r.have <= STRIP
  <2>1. idat = STREAM => inf_len \in 0 .. STRIP
    BY <1>1 DEF PathInv, StreamFits
  <2> QED BY <1>1, <2>1, InflateWhole
<1>4. CASE InflateError(r)
  <2>1. /\ stage' = "paste" /\ r.code \in ErrorCodes
        /\ inf_len' = inf_len /\ uncompressed_size' = uncompressed_size
    BY <1>4 DEF InflateError, inflating
  <2>2. ~Complete /\ idat # <<>>
    BY <1>2, <2>1
  <2>3. StreamFits'
    BY <1>1, <1>3, <2>1 DEF StreamFits
  <2> QED BY <1>0, <1>1, <1>2, <2>1, <2>2, <2>3 DEF PathInv, Begun, Progress, EmptyChunk,
        WholeChunk, WholeInImage, StripInPlace, DeflatedAll, Pasted
<1>5. CASE InflateMore(r)
  <2>1. /\ stage' = stage /\ OutputFull(r)
        /\ inf_len' = inf_len + r.have /\ uncompressed_size' = uncompressed_size
        /\ temp_data' = Filled(r.have)
    BY <1>5 DEF InflateMore
  <2>2. inf_len' \in 0 .. MaxInflated /\ idat # <<>> /\ uncompressed_size' \in 0 .. MaxInflated
    BY <1>1, <1>2, <2>1, StripAssumption
  <2>3. Begun' /\ Progress' /\ EmptyChunk' /\ StreamFits'
    BY <1>0, <1>1, <1>2, <1>3, <2>1, <2>2 DEF Begun, Progress, EmptyChunk, StreamFits, Pasted
  <2>4. WholeChunk'
    BY <1>0, <1>1, <1>2, <2>1 DEF WholeChunk
  <2>5. WholeInImage'
    BY <1>1, <2>1 DEF WholeInImage, StripInPlace, DeflatedAll, Pasted
  <2> QED BY <2>3, <2>4, <2>5 DEF PathInv
<1>6. CASE InflateEnds(r)
  <2>1. /\ stage' = "paste" /\ ~OutputFull(r)
        /\ inf_len' = inf_len + r.have /\ uncompressed_size' = inf_len + r.have
        /\ temp_data' = Filled(r.have)
    BY <1>6 DEF InflateEnds
  <2>2. inf_len' \in 0 .. MaxInflated /\ uncompressed_size' \in 0 .. MaxInflated
    BY <1>1, <2>1
  <2>3. Begun' /\ Progress' /\ EmptyChunk' /\ StreamFits'
    BY <1>0, <1>1, <1>2, <1>3, <2>1, <2>2 DEF Begun, Progress, EmptyChunk, StreamFits, Pasted
  <2>4. WholeChunk'
    BY <1>0, <1>1, <1>2, <2>1 DEF WholeChunk
  <2>5. WholeInImage'
    BY <2>1 DEF WholeInImage, StripInPlace, DeflatedAll, Pasted
  <2> QED BY <2>3, <2>4, <2>5 DEF PathInv
<1> QED BY <1>4, <1>5, <1>6

\* A death behind the end of temp_data keeps the invariant: it is not of a whole part.
LEMMA OverflowKeepsPath ==
  ASSUME PathInv, UNCHANGED vars, InflateOverflows
  PROVE  PathInv'
<1>0. /\ Protocol' = Protocol /\ Complete' = Complete /\ pc' = pc /\ response' = response
      /\ slot_size' = slot_size /\ Outcome' = Outcome
  BY SlotFrozen
<1>1. /\ stage \in {"inflate", "paste"} /\ inf_len > STRIP /\ stage' = "fault"
      /\ inf_len' = inf_len /\ uncompressed_size' = uncompressed_size /\ idat_data' = idat_data
  BY DEF InflateOverflows, inflating
<1>2. ~Complete
  <2>1. inf_len \in Int /\ STRIP \in Int
    BY StripAssumption DEF PathInv, Progress
  <2>2. ~(inf_len <= STRIP)
    BY <1>1, <2>1
  <2> QED BY <1>1, <2>2 DEF PathInv, StreamFits, WholeChunk
<1> QED BY <1>0, <1>1, <1>2 DEF PathInv, Begun, Progress, EmptyChunk, StreamFits, WholeChunk,
      WholeInImage, StripInPlace, DeflatedAll, Pasted

-----------------------------------------------------------------------------
\* The cells of part k of an image.
LEMMA StripCells ==
  ASSUME NEW k \in 0 .. NUM_PARTS - 1
  PROVE  /\ k * STRIP \in Image /\ k * STRIP + STRIP - 1 \in Image
         /\ \A x \in Image : /\ x \div STRIP = k <=> k * STRIP <= x /\ x < k * STRIP + STRIP
                             /\ x \div STRIP = k => x % STRIP = x - k * STRIP
<1>1. STRIP \in Nat /\ STRIP > 0 /\ NUM_PARTS \in Nat /\ k \in Nat /\ k + 1 \in Nat
      /\ k + 1 <= NUM_PARTS
  BY StripAssumption, TransferAssumption
<1> DEFINE v == k * STRIP
           w == NUM_PARTS * STRIP
<1>2. v \in Nat /\ w \in Nat /\ v + STRIP <= w
  <2>1. (k + 1) * STRIP = k * STRIP + STRIP
    BY <1>1
  <2>2. (k + 1) * STRIP <= NUM_PARTS * STRIP
    BY <1>1, Products
  <2>3. v \in Nat /\ w \in Nat
    BY <1>1, Products
  <2> QED BY <2>1, <2>2, <2>3
<1>3. ASSUME NEW x \in Image
      PROVE  /\ x \div STRIP = k <=> v <= x /\ x < v + STRIP
             /\ x \div STRIP = k => x % STRIP = x - v
  <2>1. x \in Nat
    BY <1>1, <1>2 DEF Image
  <2>2. ASSUME v <= x, x < v + STRIP PROVE x \div STRIP = k /\ x % STRIP = x - v
    <3>1. x - v \in Nat /\ x - v < STRIP /\ x = v + (x - v)
      BY <1>1, <1>2, <2>1, <2>2
    <3>2. STRIP * k = v
      BY <1>1, Products
    <3> DEFINE t == x - v
    <3> HIDE DEF v, t
    <3>3. x = STRIP * k + t /\ t \in Nat /\ t < STRIP
      BY <3>1, <3>2 DEF t
    <3>4. (STRIP * k + t) \div STRIP = k /\ (STRIP * k + t) % STRIP = t
      BY <1>1, <3>3, DivMod
    <3> QED BY <3>3, <3>4 DEF t
  <2>3. ASSUME x \div STRIP = k PROVE v <= x /\ x < v + STRIP
    <3>1. x % STRIP \in Nat /\ x % STRIP < STRIP /\ x = STRIP * (x \div STRIP) + (x % STRIP)
      BY <1>1, <2>1, Division
    <3>2. STRIP * k = v
      BY <1>1, Products
    <3> DEFINE t == x % STRIP
    <3>3. x = v + t /\ t \in Nat /\ t < STRIP
      BY <2>3, <3>1, <3>2
    <3> HIDE DEF t, v
    <3> QED BY <1>1, <1>2, <3>3
  <2> QED BY <2>2, <2>3
<1>4. v \in Image /\ v + STRIP - 1 \in Image
  <2> HIDE DEF v
  <2>1. Image = 0 .. w - 1
    BY DEF Image
  <2> HIDE DEF w
  <2> QED BY <1>1, <1>2, <2>1
<1> QED BY <1>3, <1>4

\* The memcpy into the image keeps the invariant.
LEMMA PasteKeepsPath ==
  ASSUME Inv, PathInv, UNCHANGED vars, Paste \/ PasteFaults
  PROVE  PathInv'
<1>0. /\ Protocol' = Protocol /\ Complete' = Complete /\ pc' = pc /\ response' = response
      /\ slot_size' = slot_size /\ Outcome' = Outcome
  BY SlotFrozen
<1>1. /\ stage = "paste" /\ idat' = idat /\ inf_len' = inf_len /\ temp_data' = temp_data
      /\ uncompressed_size' = uncompressed_size
      /\ pc = "return0" /\ slot_size # 0 /\ idat_data = [x \in Image |-> BLANK]
  BY DEF Paste, PasteFaults, inflating, PathInv, Begun, Progress
<1>2. Complete => /\ inf_len = STRIP /\ uncompressed_size = STRIP /\ slot_seq = image_option
                  /\ \A c \in 0 .. STRIP - 1 : temp_data[c] = c
  <2>1. Complete => response.fragment /\ size # 0 /\ size \in Nat /\ slot_seq = seq
    BY <1>1 DEF Complete, Inv, Copied, TypeOK
  <2>2. Complete => slot_seq = image_option
    BY <2>1 DEF Inv, Arrived
  <2> QED BY <1>1, <2>2 DEF PathInv, WholeChunk
<1>3. image_option \in 0 .. NUM_PARTS - 1 /\ STRIP \in Nat /\ STRIP > 0
  BY CurlAssumption, StripAssumption
<1>4. Complete => InImage
  BY <1>2, <1>3, StripCells DEF InImage, array_position
<1>5. CASE Paste
  <2>1. /\ stage' = "deflate"
        /\ idat_data' = [x \in Image |->
                           IF array_position <= x /\ x < array_position + uncompressed_size
                           THEN temp_data[x - array_position] ELSE idat_data[x]]
    BY <1>5 DEF Paste
  <2>2. Begun' /\ Progress' /\ EmptyChunk' /\ StreamFits' /\ WholeChunk'
    BY <1>0, <1>1, <1>2, <2>1 DEF PathInv, Begun, Progress, EmptyChunk, StreamFits, WholeChunk,
       Pasted
  <2>3. ASSUME Complete, NEW x \in Image
        PROVE  idat_data'[x] = IF x \div STRIP = image_option THEN x % STRIP ELSE BLANK
    <3> DEFINE v == image_option * STRIP
    <3>1. array_position = v /\ uncompressed_size = STRIP
      BY <1>2, <2>3 DEF array_position
    <3>2. /\ x \div STRIP = image_option <=> v <= x /\ x < v + STRIP
          /\ x \div STRIP = image_option => x % STRIP = x - v
      BY <1>3, StripCells
    <3>3. v \in Int /\ x \in Int
      BY <1>3, StripCells DEF Image
    <3> HIDE DEF v
    <3>4. CASE v <= x /\ x < v + STRIP
      <4>1. x - v \in 0 .. STRIP - 1
        BY <1>3, <3>3, <3>4
      <4>2. temp_data[x - v] = x - v
        BY <1>2, <2>3, <4>1
      <4> QED BY <2>1, <3>1, <3>2, <3>4, <4>2
    <3>5. CASE ~(v <= x /\ x < v + STRIP)
      <4>1. idat_data[x] = BLANK
        BY <1>1
      <4> QED BY <2>1, <3>1, <3>2, <3>5, <4>1
    <3> QED BY <3>4, <3>5
  <2>4. StripInPlace'
    <3>1. (Protocol /\ pc = "return0" /\ Outcome.data.kind = "whole") => Complete
      BY DEF Outcome, Complete, Zero, Alien, PartBytes
    <3> QED BY <1>0, <2>3, <3>1 DEF StripInPlace
  <2>5. DeflatedAll'
    BY <2>1 DEF DeflatedAll
  <2> QED BY <2>2, <2>4, <2>5 DEF PathInv, WholeInImage
<1>6. CASE PasteFaults
  <2>1. stage' = "fault" /\ ~Complete /\ idat_data' = idat_data
    BY <1>4, <1>6 DEF PasteFaults
  <2> QED BY <1>0, <1>1, <2>1 DEF PathInv, Begun, Progress, EmptyChunk, StreamFits, WholeChunk,
        WholeInImage, StripInPlace, DeflatedAll, Pasted
<1> QED BY <1>5, <1>6

\* mem_def leaves its loop only when the stream is complete.
LEMMA DeflateKeepsPath ==
  ASSUME PathInv, UNCHANGED vars,
         (\E r \in Deflate : DeflateMore(r) \/ DeflateEnds(r)) \/ DeflateOverruns \/ DeflateReturns
  PROVE  PathInv'
<1>0. /\ Protocol' = Protocol /\ Complete' = Complete /\ pc' = pc /\ response' = response
      /\ slot_size' = slot_size /\ Outcome' = Outcome
  BY SlotFrozen
<1>1. /\ stage \in {"deflate", "assert"} /\ stage' \in {"deflate", "assert", "overrun", "done"}
      /\ idat' = idat /\ inf_len' = inf_len /\ temp_data' = temp_data
      /\ uncompressed_size' = uncompressed_size /\ idat_data' = idat_data
  BY DEF DeflateMore, DeflateEnds, DeflateOverruns, DeflateReturns, inflating
<1>2. Begun' /\ Progress' /\ EmptyChunk' /\ StreamFits' /\ WholeChunk' /\ StripInPlace'
  BY <1>0, <1>1 DEF PathInv, Begun, Progress, EmptyChunk, StreamFits, WholeChunk, WholeInImage,
     StripInPlace, Pasted
<1>3. DeflatedAll'
  <2>1. ASSUME NEW r \in Deflate, DeflateMore(r) PROVE DeflatedAll'
    BY <2>1 DEF DeflateMore, DeflatedAll
  <2>2. ASSUME NEW r \in Deflate, DeflateEnds(r) PROVE DeflatedAll'
    <3>1. r.code = "Z_STREAM_END"
      <4>1. r.have # CHUNK
        BY <2>2 DEF DeflateEnds, OutputFull
      <4>2. CASE ret = "Z_STREAM_END"
        BY <4>2 DEF Deflate, Calls
      <4>3. CASE ret # "Z_STREAM_END"
        <5>1. \/ r \in Calls(CHUNK, {"Z_OK", "Z_STREAM_END"})
              \/ \E m \in 0 .. CHUNK - 1 : r \in Calls(m, {"Z_STREAM_END"})
          BY <4>3 DEF Deflate
        <5> QED BY <4>1, <5>1 DEF Calls
      <4> QED BY <4>2, <4>3
    <3> QED BY <2>2, <3>1 DEF DeflateEnds, DeflatedAll
  <2>3. CASE DeflateOverruns
    BY <2>3 DEF DeflateOverruns, DeflatedAll
  <2>4. CASE DeflateReturns
    BY <2>4 DEF DeflateReturns, DeflatedAll, PathInv, WholeInImage
  <2> QED BY <2>1, <2>2, <2>3, <2>4
<1> QED BY <1>2, <1>3 DEF PathInv, WholeInImage

\* Every step keeps the invariant.
LEMMA PathNextInv ==
  Inv /\ PathInv /\ [PathNext]_path_vars => PathInv'
<1> SUFFICES ASSUME Inv, PathInv, [PathNext]_path_vars PROVE PathInv'
  OBVIOUS
<1>1. CASE Next /\ UNCHANGED path
  BY <1>1, CurlKeepsPath
<1>2. CASE StripStep /\ UNCHANGED vars
  BY <1>2, RetrieveKeepsPath, InflateKeepsPath, OverflowKeepsPath, PasteKeepsPath,
     DeflateKeepsPath DEF StripStep
<1>3. CASE UNCHANGED path_vars
  <2>1. UNCHANGED vars /\ UNCHANGED path
    BY <1>3 DEF path_vars
  <2> QED BY <2>1, CurlKeepsPath
<1> QED BY <1>1, <1>2, <1>3 DEF PathNext

\* The consumer's steps leave get_cURL alone.
THEOREM PathRefinesCurl == PathSpec => Spec
<1>1. PathInit => Init
  BY DEF PathInit
<1>2. [PathNext]_path_vars => [Next]_vars
  BY DEF PathNext, path_vars
<1> QED BY <1>1, <1>2, PTL DEF PathSpec, Spec

\* Both invariants hold of the whole way of a part.
LEMMA PathInvariant ==
  PathSpec => [](Inv /\ PathInv)
<1>1. PathInit => Inv /\ PathInv
  BY PathInitInv, InitInv DEF PathInit
<1>2. (Inv /\ PathInv) /\ [PathNext]_path_vars => (Inv /\ PathInv)'
  <2>1. [PathNext]_path_vars => [Next]_vars
    BY DEF PathNext, path_vars
  <2> QED BY <2>1, NextInv, PathNextInv
<1> QED BY <1>1, <1>2, PTL DEF PathSpec

\* For every part, answer, buffer and CHUNK: what retrieve_chunk and mem_inf make of a
\* slot is what the model of the ring takes for it, whether or not they keep inside
\* temp_data (zutil.c:128), and they go wrong only on data that is cut or no part.
THEOREM StripsAsInRing == PathSpec => []StripAsInRing
<1>1. Inv /\ PathInv => StripAsInRing
  <2> SUFFICES ASSUME Inv, PathInv, Protocol PROVE
        /\ Pasted =>
             \E d \in AsSent : \E r \in Inflated(d) :
               /\ (idat # <<>>) <=> (IdatLength(d) > 0)
               /\ r.n = uncompressed_size
               /\ r.cell.kind = "whole" => \A c \in 0 .. STRIP - 1 : temp_data[c] = c
        /\ stage = "fault" => Outcome.data.kind \in {"cut", "alien"}
    BY DEF StripAsInRing
  <2>0. stage # "slot" => pc = "return0" /\ slot_size # 0
    BY DEF PathInv, Begun
  <2>1. CASE ~response.fragment
    <3>1. slot_size # 0 => Outcome.data = Alien
      BY <2>1 DEF Outcome
    <3>2. Pasted => idat = <<>> /\ uncompressed_size = 0
      BY <2>1 DEF PathInv, EmptyChunk, Pasted
    <3>3. /\ [n |-> 0, cell |-> Zero] \in Inflated(Alien) /\ IdatLength(Alien) = 0
          /\ Zero.kind # "whole"
      BY DEF Inflated, IdatLength, Alien, Zero
    <3>4. Pasted => Alien \in AsSent
      BY <2>0, <3>1 DEF AsSent, Pasted
    <3> QED BY <2>0, <3>1, <3>2, <3>3, <3>4 DEF Alien, Pasted
  <2>2. CASE response.fragment /\ slot_size = Len(response.body)
    <3> DEFINE d == PartBytes("whole", image_option)
               r == [n |-> STRIP, cell |-> d]
    <3>1. slot_size # 0 => Outcome.data = d
      BY <2>2 DEF Outcome
    <3>2. Pasted => /\ idat = STREAM /\ uncompressed_size = STRIP
                    /\ \A c \in 0 .. STRIP - 1 : temp_data[c] = c
      BY <2>0, <2>2 DEF PathInv, WholeChunk, Complete, Pasted
    <3>3. stage # "fault"
      BY <2>0, <2>2 DEF PathInv, WholeChunk, Complete
    <3>4. STREAM # <<>>
      BY PathAssumption, StripAssumption
    <3>5. r \in Inflated(d) /\ IdatLength(d) = 1
      BY DEF Inflated, IdatLength, PartBytes
    <3>6. Pasted => d \in AsSent
      BY <2>0, <3>1 DEF AsSent, Pasted
    <3> QED BY <3>2, <3>3, <3>4, <3>5, <3>6
  <2>3. CASE response.fragment /\ slot_size # Len(response.body)
    <3> DEFINE d == PartBytes("cut", image_option)
               r == [n |-> uncompressed_size, cell |-> d]
    <3>1. slot_size # 0 => Outcome.data = d
      BY <2>3 DEF Outcome
    <3>2. d.kind = "cut" /\ Zero.kind = "zero"
      BY DEF PartBytes, Zero
    <3>3. Pasted => d \in AsSent /\ Zero \in AsSent
      BY <2>0, <3>1, <3>2 DEF AsSent, Pasted
    <3>4. r \in Inflated(d) /\ IdatLength(d) = 1 /\ r.cell.kind # "whole"
      BY <3>2 DEF Inflated, IdatLength, PathInv, Progress
    <3>5. [n |-> 0, cell |-> Zero] \in Inflated(Zero) /\ IdatLength(Zero) = 0
      BY DEF Inflated, IdatLength, Zero
    <3>6. CASE Pasted /\ idat # <<>>
      BY <3>3, <3>4, <3>6 DEF Pasted
    <3>7. CASE Pasted /\ idat = <<>>
      <4>1. uncompressed_size = 0
        BY <3>7 DEF PathInv, EmptyChunk
      <4> QED BY <3>2, <3>3, <3>5, <3>7, <4>1 DEF Pasted
    <3>8. CASE ~Pasted
      BY <2>0, <3>1, <3>2, <3>8
    <3> QED BY <3>6, <3>7, <3>8
  <2> QED BY <2>1, <2>2, <2>3
<1> QED BY <1>1, PathInvariant, PTL

\* For every CHUNK, a divisor of the strip or not: a part that arrived whole is in its
\* place in the image, whole, and mem_def returns the length of a complete stream.
THEOREM WholePartsInImage == PathSpec => []WholeInImage
<1>1. PathInv => WholeInImage
  BY DEF PathInv
<1> QED BY <1>1, PathInvariant, PTL

-----------------------------------------------------------------------------
(* The checksum. *)

\* For every word size, byte size and generator, and every body and stream: the
\* table-driven CRC of crc.c is the remainder of the long division.
THEOREM CrcOfBodies == PathSpec => []CrcIsRemainder
<1>1. TypeOK => CrcIsRemainder
  <2> SUFFICES ASSUME TypeOK
               PROVE  /\ crc(Binary(response.body)) = ReferenceCrc(Binary(response.body))
                      /\ crc(Binary(STREAM)) = ReferenceCrc(Binary(STREAM))
    BY DEF CrcIsRemainder
  <2>1. \A b \in Seq(Byte) : Binary(b) \in Seq(SUBSET ByteBits)
    BY DEF Binary
  <2>2. response.body \in Seq(Byte) /\ STREAM \in Seq(Byte)
    BY Sizes, PathAssumption DEF TypeOK
  <2> QED BY <2>1, <2>2, CrcIsDivision
<1> QED BY <1>1, TypeCorrect, PathRefinesCurl, PTL
=============================================================================

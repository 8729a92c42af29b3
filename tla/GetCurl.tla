------------------------------- MODULE GetCurl -------------------------------
(***************************************************************************)
(* One call of get_cURL (lab3/Lab3/cURL.c) in the producer: libcurl drives *)
(* header_cb_curl and write_cb_curl on a temporary RECV_BUF, then the loop *)
(* of strcpy calls moves the bytes to the slot.  Bytes count, because      *)
(* strcpy stops at a NUL and a PNG is full of them.                        *)
(*                                                                         *)
(* The slot is written by this process alone (SlotExclusion of Paster2),   *)
(* through a pointer that is still the parent's.                           *)
(***************************************************************************)
EXTENDS PartTransfer, Sequences

CONSTANTS
  BASE,          \* values of a byte, 256
  image_option,  \* the part to ask for
  BUF_SIZE,      \* bytes a part may have with its NUL, 10240 in cURL.h
  STRUCT_SIZE,   \* sizeof(RECV_BUF)
  Responses      \* what the server may send: [fragment, body]

NUL  == 0
Byte == 0 .. BASE - 1

ASSUME CurlAssumption ==
  /\ BASE \in Nat /\ BASE > 1
  /\ image_option \in 0 .. NUM_PARTS - 1
  /\ BUF_SIZE \in Nat \ {0}
  /\ STRUCT_SIZE \in Nat
  /\ Responses \subseteq [fragment : BOOLEAN, body : Seq(Byte)]

\* sizeof_shm_recv_buf(BUF_SIZE): the bytes of a segment, whatever is in it.
shm_size == STRUCT_SIZE + BUF_SIZE
Index    == 0 .. shm_size - 1

VARIABLES
  response,             \* the answer of the server to this request
  buf, size, seq,       \* the temporary RECV_BUF
  slot_buf,             \* the bytes behind the slot's pointer
  slot_size, slot_seq,  \* the other fields of the slot
  i, pc

temporary == <<buf, size, seq>>
shared    == <<slot_buf, slot_size, slot_seq>>
vars      == <<response, temporary, shared, i, pc>>

-----------------------------------------------------------------------------
\* Mutant: nothing is tested.
TooSmallNever(n) == FALSE

\* write_cb_curl's test, with room for the terminating NUL.
TooSmall(n) == size + n + 1 > BUF_SIZE

\* The NUL at which a strcpy from buf[from] stops.
NulAt(from) ==
  CHOOSE k \in Index : /\ from <= k /\ buf[k] = NUL
                       /\ \A j \in Index : from <= j /\ j < k => buf[j] # NUL

\* curl_easy_init: NULL makes get_cURL return 1.
EasyInit ==
  /\ pc = "init"
  /\ pc' \in {"headers", "return1"}
  /\ UNCHANGED <<response, temporary, shared, i>>

\* Some header line; only the fragment header, if there is one, matters.
HeaderCb ==
  /\ pc = "headers" /\ response.fragment
  /\ seq' = image_option
  /\ pc' = "body"
  /\ UNCHANGED <<response, buf, size, shared, i>>

\* The headers end without a fragment line.
NoFragment ==
  /\ pc = "headers" /\ ~response.fragment
  /\ pc' = "body"
  /\ UNCHANGED <<response, temporary, shared, i>>

\* Mutant: each chunk is put at the beginning of the buffer.
WriteCbAtStart(n) ==
  /\ pc = "body" /\ n <= Len(response.body) - size /\ ~TooSmall(n)
  /\ buf' = [k \in Index |->
               IF k < n THEN response.body[size + k + 1]
               ELSE IF k = size + n THEN NUL ELSE buf[k]]
  /\ size' = size + n
  /\ UNCHANGED <<response, seq, shared, i, pc>>

\* libcurl hands over the next n bytes of the body; they are appended with a NUL.
WriteCb(n) ==
  /\ pc = "body" /\ n <= Len(response.body) - size /\ ~TooSmall(n)
  /\ buf' = [k \in Index |->
               IF size <= k /\ k < size + n THEN response.body[k + 1]
               ELSE IF k = size + n THEN NUL ELSE buf[k]]
  /\ size' = size + n
  /\ UNCHANGED <<response, seq, shared, i, pc>>

\* They do not fit: abort().
WriteCbAborts(n) ==
  /\ pc = "body" /\ n <= Len(response.body) - size /\ TooSmall(n)
  /\ pc' = "abort"
  /\ UNCHANGED <<response, temporary, shared, i>>

\* curl_easy_perform returns, with an error at any time, without one at the end
\* of the body; the code goes on the same way.
PerformReturns ==
  /\ pc \in {"headers", "body"}
  /\ pc' = "copy"
  /\ UNCHANGED <<response, temporary, shared, i>>

\* Mutant: one strcpy, as for a text.
StrcpyOnce ==
  /\ pc = "copy" /\ i < size
  /\ slot_buf' = [k \in Index |-> IF i <= k /\ k <= NulAt(i) THEN buf[k] ELSE slot_buf[k]]
  /\ i' = size
  /\ UNCHANGED <<response, temporary, slot_size, slot_seq, pc>>

\* strcpy(&p_shm_recv_buf->buf[i], &p_shm_recv_buf_temp->buf[i]).
Strcpy ==
  /\ pc = "copy" /\ i < size
  /\ slot_buf' = [k \in Index |-> IF i <= k /\ k <= NulAt(i) THEN buf[k] ELSE slot_buf[k]]
  /\ i' = i + 1
  /\ UNCHANGED <<response, temporary, slot_size, slot_seq, pc>>

\* Mutant: size is copied, seq is not.
PublishSizeOnly ==
  /\ pc = "copy" /\ i >= size
  /\ slot_size' = size
  /\ pc' = "return0"
  /\ UNCHANGED <<response, temporary, slot_buf, slot_seq, i>>

\* The loop is over: size and seq (and max_size, which nobody reads in a slot)
\* are copied and get_cURL returns 0.
Publish ==
  /\ pc = "copy" /\ i >= size
  /\ slot_size' = size /\ slot_seq' = seq
  /\ pc' = "return0"
  /\ UNCHANGED <<response, temporary, slot_buf, i>>

-----------------------------------------------------------------------------
Init ==
  /\ response \in Responses
  /\ buf = [k \in Index |-> NUL] /\ size = 0 /\ seq = -1
  /\ slot_buf = [k \in Index |-> NUL] /\ slot_size = 0 /\ slot_seq = -1
  /\ i = 0
  /\ pc = "init"

Network == HeaderCb \/ NoFragment \/ PerformReturns
           \/ \E n \in 1 .. Len(response.body) : WriteCb(n) \/ WriteCbAborts(n)

Returned == pc \in {"return0", "return1", "abort"} /\ UNCHANGED vars

Next == EasyInit \/ Network \/ Strcpy \/ Publish \/ Returned

Spec == Init /\ [][Next]_vars

-----------------------------------------------------------------------------
(* Properties *)

\* The two buffers are bytes, the counters are inside the segment.
TypeOK ==
  /\ response \in Responses
  /\ buf \in [Index -> Byte] /\ size \in 0 .. BUF_SIZE /\ seq \in {-1, image_option}
  /\ slot_buf \in [Index -> Byte] /\ slot_size \in 0 .. BUF_SIZE
  /\ slot_seq \in {-1, image_option}
  /\ i \in 0 .. BUF_SIZE
  /\ pc \in {"init", "headers", "body", "copy", "return0", "return1", "abort"}

\* However libcurl cuts the body up, the bytes with their NUL stay inside
\* max_size, and the buffer holds a prefix of the body followed by a NUL.
PrefixStored ==
  /\ size < BUF_SIZE /\ size <= Len(response.body)
  /\ \A k \in 0 .. size - 1 : buf[k] = response.body[k + 1]
  /\ buf[size] = NUL

\* The strcpy loop copies data that is full of NULs exactly, and nothing beyond:
\* a slot says it has n bytes only if it has the first n of the body.
CopyExact ==
  pc = "return0" =>
    /\ slot_size = size
    /\ \A k \in 0 .. size - 1 : slot_buf[k] = response.body[k + 1]
    /\ \A k \in Index : k >= size => slot_buf[k] = NUL

\* "we assume each image segment from the server is less than 10K" (cURL.c:24)
\* is exactly what the code needs: a shorter one never reaches the abort.
AbortOnlyWhenTooBig == pc = "abort" => Len(response.body) >= BUF_SIZE

\* The slot as Paster2 sees it: some bytes or none, the sequence number, and what
\* the bytes are.
Outcome ==
  [size |-> IF slot_size = 0 THEN 0 ELSE 1,
   seq  |-> slot_seq,
   data |-> IF slot_size = 0 THEN Zero
            ELSE IF ~response.fragment THEN Alien
            ELSE IF slot_size = Len(response.body) THEN PartBytes("whole", image_option)
            ELSE PartBytes("cut", image_option)]

\* What the callbacks and the copy leave in a slot, step by step, is one of the
\* outcomes that the model of the ring uses for a whole transfer.
OutcomeReceived ==
  pc = "return0" => Outcome \in Received(TransferKinds, image_option)
=============================================================================

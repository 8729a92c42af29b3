------------------------------ MODULE StripPath ------------------------------
(***************************************************************************)
(* The way of one part: get_cURL fills a slot (GetCurl), the consumer's    *)
(* idat_initialize takes the IDAT chunk out of its bytes (retrieve_chunk,  *)
(* crc.c), inflates it (mem_inf, zutil.c) and copies the strip into the    *)
(* image, and the parent's catpng deflates the image (mem_def).            *)
(*                                                                         *)
(* The consumer looks at the slot when get_cURL has returned, and through  *)
(* the parent's address: this is a slot of the ring's first lap.  zlib is  *)
(* external.  A strip is STRIP cells, a stream a header byte, a byte for   *)
(* each cell and a check byte.                                             *)
(***************************************************************************)
EXTENDS GetCurl, PartStrip

CONSTANTS
  IDAT_AT,      \* where the IDAT chunk of a part starts, the 33 of paster2.c
  LEN_SIZE, TYPE_SIZE,    \* bytes of a length (or CRC) and of a chunk type, both 4
  STREAM,       \* what the server deflated the strip of the part to
  CHUNK,        \* bytes zutil.c inflates or deflates at a time, 16384
  MaxDeflated   \* most bytes the image deflates to

\* pow(256, k).
Power[k \in 0 .. LEN_SIZE] == IF k = 0 THEN 1 ELSE BASE * Power[k - 1]

\* The length field lies in the segment, and a length whose first byte is not 0
\* is more than a segment holds: 256^3 against 10K.
ASSUME PathAssumption ==
  /\ IDAT_AT \in Nat /\ LEN_SIZE \in Nat \ {0} /\ TYPE_SIZE \in Nat
  /\ STREAM \in Seq(Byte) /\ Len(STREAM) = STRIP + 2 /\ Len(STREAM) < Power[LEN_SIZE]
  /\ IDAT_AT + LEN_SIZE <= shm_size /\ shm_size <= Power[LEN_SIZE - 1]
  /\ CHUNK \in Nat \ {0} /\ MaxDeflated \in Nat

\* A part as the server has it, big-endian like every PNG.
Digits(x) == [k \in 1 .. LEN_SIZE |-> (x \div Power[LEN_SIZE - k]) % BASE]
PartBody ==
  [k \in 1 .. IDAT_AT |-> 1] \o Digits(Len(STREAM)) \o [k \in 1 .. TYPE_SIZE |-> 1]
  \o STREAM \o [k \in 1 .. LEN_SIZE |-> 1]

\* The server keeps to what the program expects: a part, or an error page (text).
Protocol ==
  IF response.fragment THEN response.body = PartBody
  ELSE \A k \in 1 .. Len(response.body) : response.body[k] # NUL

JUNK  == -1  \* a cell of an uninitialized array, or not one of this strip
BLANK == -2  \* a cell of the image nothing was put in
Image == 0 .. NUM_PARTS * STRIP - 1

VARIABLES
  stage,                 \* where the consumer, then the parent, is
  idat,                  \* idat->p_data; its length is idat->length
  temp_data, inf_len,    \* mem_inf's dest and how much of it is filled
  uncompressed_size,     \* *dest_len of mem_inf
  ret,                   \* what mem_inf or deflate() last returned
  idat_data, length_all, \* the shared image
  def_len                \* mem_def's bytes so far

inflating == <<temp_data, inf_len>>
path      == <<stage, idat, inflating, uncompressed_size, ret, idat_data,
               length_all, def_len>>
path_vars == <<vars, path>>

-----------------------------------------------------------------------------
(* retrieve_chunk *)

\* length[i] * 256^i summed up in an unsigned int.  The product with 256^3 may
\* leave the range of int, where this build wraps around.
LittleEndian(b, at) ==
  LET sum[k \in 0 .. LEN_SIZE] ==
        IF k = 0 THEN 0
        ELSE (sum[k - 1] + b[at + k - 1] * Power[k - 1]) % Power[LEN_SIZE]
  IN sum[LEN_SIZE]

\* The low byte becomes the high one.
ntohl(x) ==
  LET swapped[k \in 0 .. LEN_SIZE] ==
        IF k = 0 THEN 0 ELSE swapped[k - 1] * BASE + ((x \div Power[k - 1]) % BASE)
  IN swapped[LEN_SIZE]

\* Mutant: for a big-endian host.
ChunkLengthUnswapped == LittleEndian(slot_buf, IDAT_AT)

ChunkLength == ntohl(LittleEndian(slot_buf, IDAT_AT))

DataAt == IDAT_AT + LEN_SIZE + TYPE_SIZE

\* The chunk is copied, the four bytes behind it too; *length_all grows.
RetrieveChunk ==
  /\ stage = "slot" /\ pc = "return0" /\ slot_size # 0
  /\ DataAt + ChunkLength + LEN_SIZE <= shm_size
  /\ idat' = [k \in 1 .. ChunkLength |-> slot_buf[DataAt + k - 1]]
  /\ length_all' = length_all + ChunkLength
  /\ stage' = "inflate"
  /\ UNCHANGED <<inflating, uncompressed_size, ret, idat_data, def_len>>

\* memcpy runs out of the segment (or into the NULL of a malloc that failed).
RetrieveFaults ==
  /\ stage = "slot" /\ pc = "return0" /\ slot_size # 0
  /\ DataAt + ChunkLength + LEN_SIZE > shm_size
  /\ stage' = "fault"
  /\ UNCHANGED <<idat, inflating, uncompressed_size, ret, idat_data, length_all, def_len>>

-----------------------------------------------------------------------------
(* mem_inf *)

\* The first k bytes of the chunk are those of the part's stream.
Genuine(k) == k <= Len(idat) /\ \A j \in 1 .. k : idat[j] = STREAM[j]

(***************************************************************************)
(* What inflate() may return with CHUNK bytes to fill.  The whole stream   *)
(* gives the strip; when the last byte just fits, Z_STREAM_END may take    *)
(* another call.  No input: Z_BUF_ERROR.  Anything else may give anything, *)
(* as long as it does not give more than its bytes can stand for.          *)
(***************************************************************************)
ErrorCodes   == {"Z_DATA_ERROR", "Z_NEED_DICT"}
Calls(m, codes) == {[have |-> m, code |-> c] : c \in codes}

Inflate ==
  IF idat = STREAM
  THEN LET m == IF CHUNK <= STRIP - inf_len THEN CHUNK ELSE STRIP - inf_len
       IN Calls(m, IF m < CHUNK THEN {"Z_STREAM_END"}
                       ELSE IF inf_len + m = STRIP THEN {"Z_OK", "Z_STREAM_END"}
                       ELSE {"Z_OK"})
  ELSE IF idat = <<>> THEN Calls(0, {"Z_BUF_ERROR"})
  ELSE UNION {Calls(m, ErrorCodes \cup {"Z_OK", "Z_STREAM_END", "Z_BUF_ERROR"}) :
                m \in {n \in 0 .. CHUNK : inf_len + n <= MaxInflated}}

\* Mutant: do ... while (0).
OutputFullNever(r) == FALSE

\* Mutant: the loop runs until the stream ends.
NotYetStreamEnd(r) == r.code # "Z_STREAM_END"

\* The condition of both do-while loops, avail_out == 0.
OutputFull(r) == r.have = CHUNK

\* temp_data is STRIP cells long.  Those behind it are the caller's stack.
Stack == 0 .. MaxInflated - 1

\* memcpy(p_dest, out, have): cell c is right if its byte and those before are.
Filled(m) ==
  [c \in Stack |->
     IF inf_len <= c /\ c < inf_len + m
     THEN IF c < STRIP /\ Genuine(c + 2) THEN c ELSE JUNK
     ELSE temp_data[c]]

\* Z_NEED_DICT, Z_DATA_ERROR: back at once, *dest_len as it was.
InflateError(r) ==
  /\ stage = "inflate" /\ r.code \in ErrorCodes
  /\ ret' = "Z_DATA_ERROR"
  /\ stage' = "paste"
  /\ UNCHANGED <<idat, inflating, uncompressed_size, idat_data, length_all, def_len>>

\* Once more.
InflateMore(r) ==
  /\ stage = "inflate" /\ r.code \notin ErrorCodes /\ OutputFull(r)
  /\ temp_data' = Filled(r.have) /\ inf_len' = inf_len + r.have
  /\ UNCHANGED <<stage, idat, uncompressed_size, ret, idat_data, length_all, def_len>>

\* The loop is left and *dest_len set.
InflateEnds(r) ==
  /\ stage = "inflate" /\ r.code \notin ErrorCodes /\ ~OutputFull(r)
  /\ temp_data' = Filled(r.have) /\ inf_len' = inf_len + r.have
  /\ uncompressed_size' = inf_len'
  /\ ret' = IF r.code = "Z_STREAM_END" THEN "Z_OK" ELSE "Z_DATA_ERROR"
  /\ stage' = "paste"
  /\ UNCHANGED <<idat, idat_data, length_all, def_len>>

\* Nothing keeps mem_inf inside temp_data.  Writing behind it may kill the
\* consumer, at once or before idat_initialize has copied the strip; or it may not.
InflateOverflows ==
  /\ stage \in {"inflate", "paste"} /\ inf_len > STRIP
  /\ stage' = "fault"
  /\ UNCHANGED <<idat, inflating, uncompressed_size, ret, idat_data, length_all, def_len>>

-----------------------------------------------------------------------------
(* idat_initialize's memcpy, and catpng *)

array_position == slot_seq * uncompressed_size
InImage ==
  \/ uncompressed_size = 0
  \/ array_position \in Image /\ array_position + uncompressed_size - 1 \in Image

\* What lies behind the image, in the last page of its segment, is read by nobody.
Paste ==
  /\ stage = "paste"
  /\ idat_data' = [x \in Image |->
                     IF array_position <= x /\ x < array_position + uncompressed_size
                     THEN temp_data[x - array_position] ELSE idat_data[x]]
  /\ stage' = "deflate" /\ ret' = "Z_OK"
  /\ UNCHANGED <<idat, inflating, uncompressed_size, length_all, def_len>>

\* The memcpy may run out of that page too.
PasteFaults ==
  /\ stage = "paste" /\ ~InImage
  /\ stage' = "fault"
  /\ UNCHANGED <<idat, inflating, uncompressed_size, ret, idat_data, length_all, def_len>>

\* deflate(&strm, Z_FINISH) with CHUNK bytes to fill: what does not fill them is
\* the end; an end that just fits may take another call.
Deflate ==
  IF ret = "Z_STREAM_END" THEN Calls(0, {"Z_STREAM_END"})
  ELSE Calls(CHUNK, {"Z_OK", "Z_STREAM_END"})
       \cup UNION {Calls(m, {"Z_STREAM_END"}) : m \in 0 .. CHUNK - 1}

DeflateMore(r) ==
  /\ stage = "deflate" /\ OutputFull(r) /\ def_len + r.have <= MaxDeflated
  /\ def_len' = def_len + r.have /\ ret' = r.code
  /\ UNCHANGED <<stage, idat, inflating, uncompressed_size, idat_data, length_all>>

DeflateEnds(r) ==
  /\ stage = "deflate" /\ ~OutputFull(r) /\ def_len + r.have \in 1 .. MaxDeflated
  /\ def_len' = def_len + r.have /\ ret' = r.code
  /\ stage' = "assert"
  /\ UNCHANGED <<idat, inflating, uncompressed_size, idat_data, length_all>>

\* More bytes than IDAT_data_all has: the copy may kill the parent.
DeflateOverruns ==
  /\ stage \in {"deflate", "assert"} /\ def_len > length_all
  /\ stage' = "overrun"
  /\ UNCHANGED <<idat, inflating, uncompressed_size, ret, idat_data, length_all, def_len>>

\* Behind the asserts *dest_len is set.
DeflateReturns ==
  /\ stage = "assert"
  /\ length_all' = def_len
  /\ stage' = "done"
  /\ UNCHANGED <<idat, inflating, uncompressed_size, ret, idat_data, def_len>>

-----------------------------------------------------------------------------
PathInit ==
  /\ Init
  /\ stage = "slot" /\ idat = <<>>
  /\ temp_data = [c \in Stack |-> JUNK] /\ inf_len = 0
  /\ uncompressed_size = STRIP /\ ret = "Z_OK"
  /\ idat_data = [x \in Image |-> BLANK] /\ length_all = 0 /\ def_len = 0

StripStep ==
  \/ RetrieveChunk \/ RetrieveFaults
  \/ \E r \in Inflate : InflateError(r) \/ InflateMore(r) \/ InflateEnds(r)
  \/ InflateOverflows
  \/ Paste \/ PasteFaults
  \/ \E r \in Deflate : DeflateMore(r) \/ DeflateEnds(r)
  \/ DeflateOverruns \/ DeflateReturns

PathNext == (Next /\ UNCHANGED path) \/ (StripStep /\ UNCHANGED vars)

PathSpec ==
  /\ PathInit /\ [][PathNext]_path_vars
  /\ WF_path_vars((EasyInit \/ Strcpy \/ Publish) /\ UNCHANGED path)
  /\ WF_path_vars(StripStep /\ UNCHANGED vars)

-----------------------------------------------------------------------------
(* Properties *)

Pasted == stage \in {"deflate", "assert", "done", "overrun"}

\* The contents of PartStrip that the bytes in the slot stand for: a transfer cut
\* before the length is complete may read as zeros.
AsSent == {Outcome.data} \cup IF Outcome.data.kind = "cut" THEN {Zero} ELSE {}

\* Byte by byte, chunk by chunk of the output buffer: retrieve_chunk and mem_inf
\* make of a slot one of the results the model of the ring uses, a length over one
\* strip among them, and go wrong only on data for which the ring lets a consumer
\* die.  mem_inf past the end of temp_data does either.
StripAsInRing ==
  Protocol =>
    /\ Pasted =>
         \E d \in AsSent : \E r \in Inflated(d) :
           /\ (idat # <<>>) <=> (IdatLength(d) > 0)
           /\ r.n = uncompressed_size
           /\ r.cell.kind = "whole" => \A c \in 0 .. STRIP - 1 : temp_data[c] = c
    /\ stage = "fault" => Outcome.data.kind \in {"cut", "alien"}

\* A part that arrived whole is in the image whole, in its own place, and nothing
\* else is, whether or not its strip is a multiple of CHUNK.
StripInPlace ==
  Protocol /\ pc = "return0" /\ Outcome.data.kind = "whole" /\ Pasted =>
    \A x \in Image :
      idat_data[x] = IF x \div STRIP = image_option THEN x % STRIP ELSE BLANK

\* mem_def's asserts hold: the stream is complete when the loop is left, and what
\* catpng gets in length_all is the length of all of it.
DeflatedAll ==
  /\ stage \in {"assert", "done"} => ret = "Z_STREAM_END"
  /\ stage = "done" => length_all = def_len

\* From the slot to the deflated image both loops of zutil.c lose nothing.
WholeInImage == StripInPlace /\ DeflatedAll

PathEnded ==
  \/ pc \in {"return1", "abort"}
  \/ pc = "return0" /\ (slot_size = 0 \/ stage \in {"done", "fault", "overrun"})

\* Neither do-while loop of zutil.c runs for ever, on any data: once the transfer
\* has ended, so does the rest.
PathEnds == <>PathEnded \/ <>[](pc \in {"headers", "body"})
=============================================================================

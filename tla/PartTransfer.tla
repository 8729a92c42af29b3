---------------------------- MODULE PartTransfer -----------------------------
(***************************************************************************)
(* What one HTTP transfer of a part can leave in the RECV_BUF that         *)
(* get_cURL (lab3/Lab3/cURL.c) fills, at the level of detail the rest of   *)
(* paster2 can tell apart: whether there are bytes, the sequence number,   *)
(* and what the bytes are.  GetCurl refines it; Paster2 builds on it.      *)
(***************************************************************************)
EXTENDS Integers

CONSTANT NUM_PARTS  \* parts of an image, the literal 50 of paster2.c

\* What the server, the network and libcurl may do; a network is a set of these.
TransferKinds == {"whole", "cut", "alien", "none", "nohandle", "toobig"}

ASSUME TransferAssumption == NUM_PARTS \in Nat \ {0}

(***************************************************************************)
(* Where bytes come from: nowhere (a fresh segment is zero-filled), a      *)
(* complete transfer of a part, a transfer cut short, a body that is no    *)
(* PNG, an uninitialized array.  part is the part the bytes belong to.     *)
(***************************************************************************)
ContentKinds == {"zero", "whole", "cut", "alien", "junk"}
Content == [kind : ContentKinds, part : Int]
Zero  == [kind |-> "zero",  part |-> -1]
Alien == [kind |-> "alien", part |-> -1]
Junk  == [kind |-> "junk",  part |-> -1]

PartBytes(kind, k) == [kind |-> kind, part |-> k]

\* The temporary RECV_BUF of get_cURL: size is 0 or 1 (some bytes).
Fetched == [size : {0, 1}, seq : Int, data : Content]
NoFetch == [size |-> 0, seq |-> -1, data |-> Zero]

(***************************************************************************)
(* The temporary RECV_BUF after asking for part k.  header_cb_curl sets    *)
(* seq when the fragment header arrives, before any byte of the body;      *)
(* write_cb_curl adds the bytes.  A transfer error is only printed, so     *)
(* what arrived before it counts.  Bytes cut before the IDAT chunk read as *)
(* zeros there; an error page has no fragment header.                      *)
(***************************************************************************)
Arrival(n, s, d) == [size |-> n, seq |-> s, data |-> d]

\* The bodies a server that has part k may send of it.
Bodies(net, k) ==
  (IF "whole" \in net THEN {PartBytes("whole", k)} ELSE {})
  \cup (IF "cut" \in net THEN {PartBytes("cut", k), Zero} ELSE {})

Received(net, k) ==
  (IF k < NUM_PARTS THEN {Arrival(1, k, d) : d \in Bodies(net, k)} ELSE {})
  \cup (IF "alien" \in net THEN {Arrival(1, -1, Alien)} ELSE {})
  \cup (IF "none" \in net THEN {Arrival(0, s, Zero) : s \in {-1, k}} ELSE {})
=============================================================================

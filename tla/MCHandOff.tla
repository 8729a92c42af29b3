------------------------------ MODULE MCHandOff ------------------------------
(* Bodies of every length up to the one that does not fit, with NULs in them. *)
EXTENDS HandOff

MCResponses ==
  [fragment : BOOLEAN, body : UNION {[1 .. n -> {NUL, 1}] : n \in 0 .. BUF_SIZE}]
MCMessage == <<1, 1>>
=============================================================================

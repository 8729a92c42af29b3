----------------------------- MODULE MCPaster2 -------------------------------
(***************************************************************************)
(* The module TLC runs: the ring, the stream it implements and the claims  *)
(* about its result.  The values of the constants are in the .cfg files.   *)
(***************************************************************************)
EXTENDS Paster2Stream, Paster2Claims
=============================================================================

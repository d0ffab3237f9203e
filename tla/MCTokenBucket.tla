--------------------------- MODULE MCTokenBucket ---------------------------
(***************************************************************************)
(* A small instance of TokenBucket: two sources. The packets and SYNs per  *)
(* second divide a second of four ticks, the seven bytes per second do     *)
(* not; one packet is longer than the default burst of bytes.              *)
(***************************************************************************)
EXTENDS TokenBucket

CONSTANTS k1, k2

MCPacket == {[key |-> k1, len |-> 5, syn |-> TRUE],
             [key |-> k1, len |-> 8, syn |-> FALSE],
             [key |-> k2, len |-> 3, syn |-> FALSE]}
=============================================================================

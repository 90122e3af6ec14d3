---------------------------- MODULE MCRingBuffer ----------------------------
(* A ring of 3 slots and blocks of up to 4: wrap-around, a write that fills *)
(* the ring exactly, overflow, and a block larger than the ring all occur.  *)
EXTENDS RingBuffer
=============================================================================

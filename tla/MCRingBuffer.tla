---------------------------- MODULE MCRingBuffer ----------------------------
(* A buffer of a few cells, so that most calls cross its end.                *)
EXTENDS RingBuffer
=============================================================================

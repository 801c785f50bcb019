---------------------------- MODULE RingPointers ----------------------------
(***************************************************************************)
(* The pointers of a MyRingBuffer (utility/MyRingBuffer.cpp) as offsets    *)
(* from mBegin.  One cell is never used, so that equal pointers mean an    *)
(* empty buffer.                                                           *)
(***************************************************************************)
EXTENDS Integers

CONSTANT Size   (* RINGBUFFER_SIZE *)

ASSUME SizeAssumption == Size \in Nat \ {0}

(* Sizes, from a front and a rear. *)

(* Fault: the whole buffer may be filled.                                    *)
GetFreeSizeFull(f, r) == IF f <= r THEN Size - r + f ELSE f - r

GetFreeSize(f, r) == IF f <= r THEN Size - r + f - 1 ELSE f - r - 1
GetUseSize(f, r)  == IF f <= r THEN r - f ELSE Size - f + r

(* Free and used bytes up to the end of the buffer.                          *)
GetDirectFreeSize(f, r) ==
  IF f <= r THEN (IF f = 0 THEN Size - r - 1 ELSE Size - r) ELSE f - r - 1
GetDirectUseSize(f, r)  == IF f <= r THEN r - f ELSE Size - f

(* Where byte cnt (from 0) of a copy that starts at p lies: the copy goes on *)
(* from mBegin after the direct bytes.                                       *)
Cell(p, direct, cnt) == IF cnt < direct THEN p + cnt ELSE cnt - direct

(* A pointer moved on by n.                                                  *)
Moved(p, n) == IF Size <= p + n THEN p + n - Size ELSE p + n
=============================================================================

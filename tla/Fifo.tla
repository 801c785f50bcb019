-------------------------------- MODULE Fifo --------------------------------
(***************************************************************************)
(* What a MyRingBuffer promises to the two threads that share it: a        *)
(* bounded first-in first-out queue of bytes.  The writer's message goes   *)
(* in whole, and the reader gets as many bytes as it asked for, in the     *)
(* order they were put.                                                    *)
(***************************************************************************)
EXTENDS Naturals, Sequences

CONSTANTS
  Byte,      (* what a byte may be                                           *)
  Capacity   (* most bytes held at a time                                    *)

VARIABLES
  q,         (* the bytes put and not yet taken                              *)
  put,       (* the message the writer is putting; empty outside a call      *)
  call, ask, (* the reader's call ("none", "take", "look"), and its size     *)
  got        (* what the reader's last call has returned; empty during a call *)

Init == q = <<>> /\ put = <<>> /\ call = "none" /\ ask = 0 /\ got = <<>>

Give(m) == put = <<>> /\ put' = m /\ UNCHANGED <<q, call, ask, got>>

Put ==
  /\ Len(q) + Len(put) <= Capacity
  /\ q' = q \o put
  /\ put' = <<>>
  /\ UNCHANGED <<call, ask, got>>

Ask(n) ==
  /\ call = "none"
  /\ n <= Len(q)
  /\ call' \in {"take", "look"}
  /\ ask' = n
  /\ got' = <<>>
  /\ UNCHANGED <<q, put>>

Take ==
  /\ call = "take" /\ call' = "none"
  /\ got' = SubSeq(q, 1, ask)
  /\ q' = SubSeq(q, ask + 1, Len(q))
  /\ UNCHANGED <<put, ask>>

Look ==
  /\ call = "look" /\ call' = "none"
  /\ got' = SubSeq(q, 1, ask)
  /\ UNCHANGED <<q, put, ask>>

Clear ==
  /\ put = <<>> /\ call = "none"
  /\ q' = <<>>
  /\ UNCHANGED <<put, call, ask, got>>

(* The bounds name the message and the size that appear in the step, which   *)
(* lets TLC evaluate the quantifiers.                                        *)
Next ==
  \/ \E m \in {put'} \cap Seq(Byte) : Give(m)
  \/ Put
  \/ \E n \in {ask'} \cap Nat : Ask(n)
  \/ Take
  \/ Look
  \/ Clear

Spec == Init /\ [][Next]_<<q, put, call, ask, got>>
=============================================================================

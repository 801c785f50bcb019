----------------------------- MODULE ClientRing -----------------------------
(***************************************************************************)
(* The client's copy of MyRingBuffer (ClientProject/utility), which one    *)
(* thread uses at a time: every call is one operator, from one buffer to   *)
(* the next.  mBFail holds the fail bits that are set; the next call finds *)
(* them with RINGBUFFER_ASSERT and stops at a __debugbreak.  Negative      *)
(* sizes, which no caller passes, are left out.                            *)
(***************************************************************************)
EXTENDS RingPointers, Sequences

CONSTANT NoByte   (* a byte of mBuffer before anything was written there *)

MyRingBuffer ==
  [mBuffer |-> [c \in 0 .. Size - 1 |-> NoByte], mFront |-> 0, mRear |-> 0, mBFail |-> {}]

UseSize(b)  == GetUseSize(b.mFront, b.mRear)
FreeSize(b) == GetFreeSize(b.mFront, b.mRear)
DirectUseSize(b)  == GetDirectUseSize(b.mFront, b.mRear)
DirectFreeSize(b) == GetDirectFreeSize(b.mFront, b.mRear)

(* The cells a copy of size bytes reads from the front on. *)
Copied(b, size) == [i \in 1 .. size |-> b.mBuffer[Cell(b.mFront, DirectUseSize(b), i - 1)]]

(* mBuffer when src has been written from the rear on. *)
Written(b, src) ==
  LET cell(i) == Cell(b.mRear, DirectFreeSize(b), i - 1) IN
  [b EXCEPT !.mBuffer = [c \in DOMAIN @ |->
     IF \E i \in DOMAIN src : cell(i) = c THEN src[CHOOSE i \in DOMAIN src : cell(i) = c] ELSE @[c]]]

MoveRear(b, move)  == [b EXCEPT !.mRear = Moved(@, move)]
MoveFront(b, move) == IF b.mBFail # {} THEN b ELSE [b EXCEPT !.mFront = Moved(@, move)]

Enqueue(b, src) ==
  IF FreeSize(b) < Len(src) THEN [b EXCEPT !.mBFail = @ \union {"BufferFull"}]
                            ELSE MoveRear(Written(b, src), Len(src))

(* Peek and Dequeue: what they copy out (nothing if they fail), and the buffer after. *)
Peek(b, size)   == IF UseSize(b) < size THEN <<>> ELSE Copied(b, size)
Dequeue(b, size) ==
  IF UseSize(b) < size THEN [b EXCEPT !.mBFail = @ \union {"BufferEmpty"}] ELSE MoveFront(b, size)

(* The bytes stay where they are. *)
ClearBuffer(b) == [b EXCEPT !.mFront = 0, !.mRear = 0, !.mBFail = {}]
=============================================================================

------------------------- MODULE RingBuffer_proofs -------------------------
(***************************************************************************)
(* Proofs about RingBuffer, for a buffer of any size and messages of any   *)
(* bytes: a call that was checked never fails, the two copies never meet,  *)
(* and the buffer implements the queue of module Fifo.                     *)
(*                                                                         *)
(* The second and the third part are about the two users of such a buffer, *)
(* the network thread of the client (ClientNetwork) and the receive worker *)
(* of the server library with the client at the other end                  *)
(* (MessageFraming): the streams of bytes through it are kept for every    *)
(* size of the buffer, every length of the frames and every way they are   *)
(* cut.  Each is an INSTANCE on a ring of Size bytes, so mBuffer, mFront,  *)
(* mRear and the other names the modules share stand for the variables of  *)
(* the instance there.  What the parts have in common, the bytes a ring    *)
(* holds and FlattenSeq, is proved in between.                             *)
(***************************************************************************)
EXTENDS RingBuffer, SequencesExt, SequenceTheorems, WellFoundedInduction, TLAPS

(* The producer's message fits before the consumer's front, and the part     *)
(* that is copied lies where the contents will be continued.                 *)
WriterInv ==
  /\ wpc = "idle" => src = <<>>
  /\ wpc # "idle" => Len(src) <= GetFreeSize(mFront, mRear)
  /\ wpc = "copy" =>
       /\ written <= Len(src)
       /\ IF Len(src) <= wdirect THEN mRear + Len(src) <= Size
                                 ELSE wdirect = Size - mRear
       /\ \A i \in 0 .. written - 1 : mBuffer[Moved(mRear, i)] = src[i + 1]

(* The bytes asked for are there, and those copied are the first ones.       *)
ReaderInv ==
  /\ rpc # "idle" => size <= GetUseSize(mFront, mRear)
  /\ rpc \in {"dequeue", "peek"} => dest = <<>>
  /\ rpc \in {"take", "look"} =>
       /\ Len(dest) <= size
       /\ IF size <= rdirect THEN mFront + size <= Size
                             ELSE rdirect = Size - mFront
       /\ \A i \in 1 .. Len(dest) : dest[i] = mBuffer[Moved(mFront, i - 1)]

IInv == TypeOK /\ CheckedCallsSucceed /\ WriterInv /\ ReaderInv

-----------------------------------------------------------------------------
(* The arithmetic of the pointers. *)

(* Free and used bytes are all but one, and a pointer moved on by less than  *)
(* the size of the buffer stays in it.                                       *)
LEMMA Sizes ==
  ASSUME NEW f \in 0 .. Size - 1, NEW r \in 0 .. Size - 1
  PROVE  /\ GetFreeSize(f, r) \in 0 .. Size - 1
         /\ GetUseSize(f, r) \in 0 .. Size - 1
         /\ GetFreeSize(f, r) + GetUseSize(f, r) = Size - 1
         /\ GetDirectFreeSize(f, r) \in 0 .. Size
         /\ GetDirectUseSize(f, r) \in 0 .. Size
         /\ r = Moved(f, GetUseSize(f, r))
BY SizeAssumption DEF GetFreeSize, GetUseSize, GetDirectFreeSize, GetDirectUseSize, Moved

(* Pointers moved on by different amounts are different.                     *)
LEMMA MovedApart ==
  ASSUME NEW p \in 0 .. Size - 1, NEW i \in 0 .. Size - 1, NEW j \in 0 .. Size - 1
  PROVE  /\ Moved(p, i) \in 0 .. Size - 1
         /\ Moved(p, 0) = p
         /\ Moved(p, i) = Moved(p, j) => i = j
BY SizeAssumption DEF Moved

(* Two moves are one.                                                        *)
LEMMA MovedTwice ==
  ASSUME NEW p \in 0 .. Size - 1, NEW i \in Nat, NEW j \in Nat, i + j <= Size
  PROVE  Moved(Moved(p, i), j) = Moved(p, i + j)
BY SizeAssumption DEF Moved

(* The rear moved on lies behind the contents, seen from the front.          *)
LEMMA BehindContents ==
  ASSUME NEW f \in 0 .. Size - 1, NEW r \in 0 .. Size - 1,
         NEW i \in Nat, i <= GetFreeSize(f, r)
  PROVE  Moved(r, i) = Moved(f, GetUseSize(f, r) + i)
BY SizeAssumption DEF GetFreeSize, GetUseSize, Moved

(* The two loops of a copy go through the cells a moving pointer would.      *)
LEMMA CellMoved ==
  ASSUME NEW p \in 0 .. Size - 1, NEW n \in Nat, NEW direct \in Nat,
         IF n <= direct THEN p + n <= Size ELSE direct = Size - p,
         NEW cnt \in 0 .. n - 1
  PROVE  Cell(p, direct, cnt) = Moved(p, cnt)
BY SizeAssumption DEF Cell, Moved

(* The direct size is where the copy has to wrap, if it does.                *)
LEMMA DirectSplit ==
  ASSUME NEW f \in 0 .. Size - 1, NEW r \in 0 .. Size - 1, NEW n \in Nat
  PROVE  /\ n <= GetFreeSize(f, r) =>
              IF n <= GetDirectFreeSize(f, r) THEN r + n <= Size
                                              ELSE GetDirectFreeSize(f, r) = Size - r
         /\ n <= GetUseSize(f, r) =>
              IF n <= GetDirectUseSize(f, r) THEN f + n <= Size
                                             ELSE GetDirectUseSize(f, r) = Size - f
BY SizeAssumption
   DEF GetFreeSize, GetUseSize, GetDirectFreeSize, GetDirectUseSize

(* The rear moved on uses what was free; the front moved on frees what was   *)
(* used.                                                                     *)
LEMMA MovedSizes ==
  ASSUME NEW f \in 0 .. Size - 1, NEW r \in 0 .. Size - 1, NEW n \in Nat
  PROVE  /\ n <= GetFreeSize(f, r) =>
              /\ Moved(r, n) \in 0 .. Size - 1
              /\ GetUseSize(f, Moved(r, n)) = GetUseSize(f, r) + n
              /\ GetFreeSize(f, Moved(r, n)) = GetFreeSize(f, r) - n
         /\ n <= GetUseSize(f, r) =>
              /\ Moved(f, n) \in 0 .. Size - 1
              /\ GetUseSize(Moved(f, n), r) = GetUseSize(f, r) - n
              /\ GetFreeSize(Moved(f, n), r) = GetFreeSize(f, r) + n
BY SizeAssumption DEF GetFreeSize, GetUseSize, Moved

(* Messages are the short sequences of bytes.                                *)
LEMMA Messages ==
  /\ \A m \in Message : m \in Seq(Byte) /\ Len(m) \in 0 .. MaxLen
  /\ \A s \in Seq(Byte) : Len(s) <= MaxLen => s \in Message
  /\ <<>> \in Message /\ Len(<<>>) = 0
<1>1. \A m \in Message : m \in Seq(Byte) /\ Len(m) \in 0 .. MaxLen
  BY LenAssumption DEF Message
<1>2. ASSUME NEW s \in Seq(Byte), Len(s) <= MaxLen PROVE s \in Message
  <2>1. s \in [1 .. Len(s) -> Byte] /\ Len(s) \in Nat BY LenProperties
  <2>2. Len(s) \in 0 .. MaxLen BY <1>2, <2>1, LenAssumption
  <2>3. QED BY <2>1, <2>2 DEF Message
<1>3. <<>> \in Seq(Byte) /\ Len(<<>>) = 0 BY EmptySeq
<1>4. 0 <= MaxLen BY LenAssumption
<1>5. <<>> \in Message BY <1>2, <1>3, <1>4
<1>6. QED BY <1>1, <1>2, <1>3, <1>5

-----------------------------------------------------------------------------
(* The invariant is inductive. *)

(* An empty buffer with nobody in a call.                                    *)
LEMMA InitInv == Init => IInv
<1>1. SUFFICES ASSUME Init PROVE IInv OBVIOUS
<1>2. TypeOK BY <1>1, Messages, SizeAssumption, LenAssumption, ByteAssumption DEF Init, TypeOK
<1>3. QED BY <1>1, <1>2 DEF Init, IInv, CheckedCallsSucceed, WriterInv, ReaderInv

(* A byte copied in goes to a free cell: neither the bytes written before it *)
(* nor the contents change.                                                  *)
LEMMA CopyInApart ==
  ASSUME IInv, CopyIn
  PROVE  /\ Cell(mRear, wdirect, written) = Moved(mRear, written)
         /\ written < GetFreeSize(mFront, mRear)
         /\ \A i \in 0 .. GetUseSize(mFront, mRear) - 1 :
              mBuffer'[Moved(mFront, i)] = mBuffer[Moved(mFront, i)]
         /\ \A i \in 0 .. written - 1 : mBuffer'[Moved(mRear, i)] = mBuffer[Moved(mRear, i)]
         /\ mBuffer'[Moved(mRear, written)] = src[written + 1]
         /\ mBuffer' \in [0 .. Size - 1 -> Byte]
<1> DEFINE f == mFront
           r == mRear
           use == GetUseSize(f, r)
           free == GetFreeSize(f, r)
<1> USE SizeAssumption
<1>1. /\ f \in 0 .. Size - 1 /\ r \in 0 .. Size - 1
      /\ mBuffer \in [0 .. Size - 1 -> Byte]
      /\ src \in Seq(Byte) /\ Len(src) \in Nat /\ written \in Nat /\ wdirect \in Nat
      /\ Len(src) <= free /\ written < Len(src)
      /\ IF Len(src) <= wdirect THEN r + Len(src) <= Size ELSE wdirect = Size - r
  BY Messages DEF IInv, TypeOK, WriterInv, CopyIn
<1>2. use \in 0 .. Size - 1 /\ free \in 0 .. Size - 1 /\ free + use = Size - 1
  BY <1>1, Sizes
<1>3. Cell(r, wdirect, written) = Moved(r, written)
  <2>1. written \in 0 .. Len(src) - 1 BY <1>1
  <2>2. QED BY <1>1, <2>1, CellMoved
<1>4. mBuffer' = [mBuffer EXCEPT ![Moved(r, written)] = src[written + 1]]
  BY <1>3 DEF CopyIn
<1>5. Moved(r, written) \in 0 .. Size - 1 /\ written \in 0 .. Size - 1
  BY <1>1, <1>2, MovedApart
<1>6. src[written + 1] \in Byte BY <1>1, ElementOfSeq
<1>7. mBuffer' \in [0 .. Size - 1 -> Byte] BY <1>1, <1>4, <1>5, <1>6
<1>8. mBuffer'[Moved(r, written)] = src[written + 1] BY <1>1, <1>4, <1>5
<1>9. ASSUME NEW i \in 0 .. written - 1
      PROVE  mBuffer'[Moved(r, i)] = mBuffer[Moved(r, i)]
  <2>1. i \in 0 .. Size - 1 /\ i # written BY <1>1, <1>2, <1>5
  <2>2. Moved(r, i) \in 0 .. Size - 1 /\ Moved(r, i) # Moved(r, written)
    BY <1>1, <1>5, <2>1, MovedApart
  <2>3. QED BY <1>1, <1>4, <2>2
<1>10. ASSUME NEW i \in 0 .. use - 1
       PROVE  mBuffer'[Moved(f, i)] = mBuffer[Moved(f, i)]
  <2>1. Moved(r, written) = Moved(f, use + written) BY <1>1, <1>2, BehindContents
  <2>2. i \in 0 .. Size - 1 /\ use + written \in 0 .. Size - 1 /\ i # use + written
    BY <1>1, <1>2
  <2>3. Moved(f, i) \in 0 .. Size - 1 /\ Moved(f, i) # Moved(r, written)
    BY <1>1, <2>1, <2>2, MovedApart
  <2>4. QED BY <1>1, <1>4, <2>3
<1>11. QED BY <1>1, <1>2, <1>3, <1>7, <1>8, <1>9, <1>10

(* A byte copied out is the next of the contents.                            *)
LEMMA CopyOutNext ==
  ASSUME IInv, CopyOut
  PROVE  /\ dest' = Append(dest, mBuffer[Moved(mFront, Len(dest))])
         /\ dest' \in Message
         /\ Len(dest') = Len(dest) + 1
         /\ \A i \in 1 .. Len(dest') : dest'[i] = mBuffer[Moved(mFront, i - 1)]
<1> USE SizeAssumption, LenAssumption
<1>1. /\ mFront \in 0 .. Size - 1 /\ mRear \in 0 .. Size - 1
      /\ mBuffer \in [0 .. Size - 1 -> Byte]
      /\ dest \in Seq(Byte) /\ Len(dest) \in Nat
      /\ size \in 0 .. MaxLen /\ rdirect \in Nat
      /\ size <= GetUseSize(mFront, mRear) /\ Len(dest) < size
      /\ IF size <= rdirect THEN mFront + size <= Size ELSE rdirect = Size - mFront
      /\ \A i \in 1 .. Len(dest) : dest[i] = mBuffer[Moved(mFront, i - 1)]
  BY Messages DEF IInv, TypeOK, ReaderInv, CopyOut
<1>2. GetUseSize(mFront, mRear) \in 0 .. Size - 1 BY <1>1, Sizes
<1>3. Cell(mFront, rdirect, Len(dest)) = Moved(mFront, Len(dest))
  <2>1. Len(dest) \in 0 .. size - 1 /\ size \in Nat BY <1>1
  <2>2. QED BY <1>1, <2>1, CellMoved
<1> DEFINE b == mBuffer[Moved(mFront, Len(dest))]
<1>4. dest' = Append(dest, b) BY <1>3 DEF CopyOut
<1>5. Moved(mFront, Len(dest)) \in 0 .. Size - 1
  BY <1>1, <1>2, MovedApart
<1>6. b \in Byte BY <1>1, <1>5
<1> HIDE DEF b
<1>7. /\ dest' \in Seq(Byte) /\ Len(dest') = Len(dest) + 1
      /\ \A i \in 1 .. Len(dest') : dest'[i] = IF i <= Len(dest) THEN dest[i] ELSE b
  BY <1>1, <1>4, <1>6
<1>8. dest' \in Message
  <2>1. Len(dest') <= MaxLen BY <1>1, <1>7
  <2>2. QED BY <1>7, <2>1, Messages
<1>9. ASSUME NEW i \in 1 .. Len(dest')
      PROVE  dest'[i] = mBuffer[Moved(mFront, i - 1)]
  <2>1. CASE i <= Len(dest) BY <1>1, <1>7, <2>1
  <2>2. CASE i > Len(dest)
    <3>1. i - 1 = Len(dest) BY <1>1, <1>7, <2>2
    <3>2. dest'[i] = b BY <1>1, <1>7, <2>2
    <3>3. QED BY <3>1, <3>2 DEF b
  <2>3. QED BY <1>1, <2>1, <2>2
<1>10. QED BY <1>4, <1>7, <1>8, <1>9 DEF b

(* Every step of every caller keeps the invariant.                           *)
LEMMA StepInv == IInv /\ [Next]_vars => IInv'
<1> USE SizeAssumption, LenAssumption
<1> SUFFICES ASSUME IInv, [Next]_vars PROVE IInv' OBVIOUS
<1>0. /\ mFront \in 0 .. Size - 1 /\ mRear \in 0 .. Size - 1
      /\ TypeOK /\ CheckedCallsSucceed /\ WriterInv /\ ReaderInv
      /\ Len(src) \in Nat /\ Len(dest) \in Nat /\ size \in Nat /\ written \in Nat
  BY Messages DEF IInv, TypeOK
<1>s. /\ GetFreeSize(mFront, mRear) \in 0 .. Size - 1
      /\ GetUseSize(mFront, mRear) \in 0 .. Size - 1
      /\ GetDirectFreeSize(mFront, mRear) \in 0 .. Size
      /\ GetDirectUseSize(mFront, mRear) \in 0 .. Size
  BY <1>0, Sizes
<1>1. CASE CheckFree
  <2>1. TypeOK' BY <1>0, <1>1 DEF CheckFree, TypeOK, shared, readerVars
  <2>2. WriterInv' BY <1>0, <1>1 DEF CheckFree, WriterInv, shared
  <2>3. QED BY <1>0, <1>1, <2>1, <2>2
    DEF CheckFree, IInv, CheckedCallsSucceed, ReaderInv, shared, readerVars
<1>2. CASE EnqueueBegin
  <2>1. /\ Len(src) <= GetFreeSize(mFront, mRear) /\ Len(src) \in Nat
    BY <1>0, <1>2, Messages DEF EnqueueBegin, WriterInv, TypeOK
  <2>2. /\ wpc' = "copy" /\ written' = 0 /\ wdirect' = GetDirectFreeSize(mFront, mRear)
        /\ UNCHANGED <<mBuffer, mFront, mRear, mBFail, src, readerVars>>
    BY <1>0, <1>2, <1>s, <2>1 DEF EnqueueBegin, CheckedCallsSucceed
  <2>3. TypeOK' BY <1>0, <2>2, <1>s DEF TypeOK, readerVars
  <2>4. WriterInv' BY <1>0, <2>1, <2>2, DirectSplit DEF WriterInv
  <2>5. QED BY <1>0, <2>2, <2>3, <2>4
    DEF IInv, CheckedCallsSucceed, ReaderInv, readerVars
<1>3. CASE CopyIn
  <2>1. /\ wpc = "copy" /\ written < Len(src) /\ written' = written + 1
        /\ Len(src) \in 0 .. MaxLen /\ written \in Nat
        /\ UNCHANGED <<mFront, mRear, mBFail, wpc, src, wdirect, readerVars>>
    BY <1>0, <1>3, Messages DEF CopyIn, TypeOK
  <2>2. TypeOK' BY <1>0, <1>3, <2>1, CopyInApart DEF TypeOK, readerVars
  <2>3. \A i \in 0 .. written' - 1 : mBuffer'[Moved(mRear, i)] = src[i + 1]
    <3>1. TAKE i \in 0 .. written' - 1
    <3>2. CASE i = written BY <1>3, <3>2, CopyInApart
    <3>3. CASE i # written
      <4>1. i \in 0 .. written - 1 BY <2>1, <3>3
      <4>2. QED BY <1>0, <1>3, <2>1, <4>1, CopyInApart DEF WriterInv
    <3>4. QED BY <3>2, <3>3
  <2>4. WriterInv' BY <1>0, <2>1, <2>3 DEF WriterInv
  <2>5. ReaderInv'
    <3>1. UNCHANGED <<rpc, size, rdirect, dest, mFront, mRear>> BY <2>1 DEF readerVars
    <3>2. ASSUME rpc \in {"take", "look"}, NEW i \in 1 .. Len(dest)
          PROVE  dest[i] = mBuffer'[Moved(mFront, i - 1)]
      <4>1. dest[i] = mBuffer[Moved(mFront, i - 1)] BY <1>0, <3>2 DEF ReaderInv
      <4>2. /\ Len(dest) <= size /\ size <= GetUseSize(mFront, mRear)
            /\ Len(dest) \in Nat /\ size \in Nat
        BY <1>0, <3>2, Messages DEF ReaderInv, TypeOK
      <4>3. i - 1 \in 0 .. GetUseSize(mFront, mRear) - 1 BY <1>0, <4>2, <1>s
      <4>4. QED BY <1>3, <4>1, <4>3, CopyInApart
    <3>3. QED BY <1>0, <3>1, <3>2 DEF ReaderInv
  <2>6. QED BY <1>0, <2>1, <2>2, <2>4, <2>5 DEF IInv, CheckedCallsSucceed, readerVars
<1>4. CASE MoveRear
  <2>1. /\ wpc' = "idle" /\ src' = <<>> /\ mRear' = Moved(mRear, Len(src))
        /\ UNCHANGED <<mBuffer, mFront, mBFail, wdirect, written, readerVars>>
    BY <1>0, <1>4 DEF MoveRear, CheckedCallsSucceed
  <2>2. Len(src) <= GetFreeSize(mFront, mRear) /\ Len(src) \in Nat
    BY <1>0, <1>4, Messages DEF MoveRear, WriterInv, TypeOK
  <2>3. /\ mRear' \in 0 .. Size - 1
        /\ GetUseSize(mFront, mRear') = GetUseSize(mFront, mRear) + Len(src)
    BY <1>0, <2>1, <2>2, MovedSizes
  <2>4. TypeOK' BY <1>0, <2>1, <2>3, Messages DEF TypeOK, readerVars
  <2>5. WriterInv' BY <2>1 DEF WriterInv
  <2>6. ReaderInv'
    <3>1. UNCHANGED <<rpc, size, rdirect, dest, mFront, mBuffer>> BY <2>1 DEF readerVars
    <3>2. rpc # "idle" => size <= GetUseSize(mFront, mRear')
      BY <1>0, <2>2, <2>3, <1>s DEF ReaderInv, TypeOK
    <3>3. QED BY <1>0, <3>1, <3>2 DEF ReaderInv
  <2>7. QED BY <1>0, <2>1, <2>4, <2>5, <2>6 DEF IInv, CheckedCallsSucceed, readerVars
<1>5. CASE CheckUse
  <2>1. TypeOK' BY <1>0, <1>5, Messages DEF CheckUse, TypeOK, shared, writerVars
  <2>2. ReaderInv' BY <1>0, <1>5 DEF CheckUse, ReaderInv, shared
  <2>3. QED BY <1>0, <1>5, <2>1, <2>2
    DEF CheckUse, IInv, CheckedCallsSucceed, WriterInv, shared, writerVars
<1>6. ASSUME NEW call, NEW copying, NEW failed, Begin(call, copying, failed),
             \/ call = "dequeue" /\ copying = "take"
             \/ call = "peek" /\ copying = "look"
      PROVE  IInv'
  <2>1. /\ size <= GetUseSize(mFront, mRear) /\ size \in Nat /\ dest = <<>>
    BY <1>0, <1>6 DEF Begin, ReaderInv, TypeOK
  <2>2. /\ rpc' = copying /\ rdirect' = GetDirectUseSize(mFront, mRear)
        /\ UNCHANGED <<mBuffer, mFront, mRear, mBFail, size, dest, writerVars>>
    BY <1>0, <1>6, <1>s, <2>1 DEF Begin, CheckedCallsSucceed
  <2>3. TypeOK' BY <1>0, <1>6, <2>2, <1>s DEF TypeOK, writerVars
  <2>4. ReaderInv'
    BY <1>0, <1>6, <2>1, <2>2, DirectSplit, Messages DEF ReaderInv
  <2>5. QED BY <1>0, <1>6, <2>2, <2>3, <2>4
    DEF IInv, CheckedCallsSucceed, WriterInv, writerVars
<1>7. CASE DequeueBegin BY <1>6, <1>7 DEF DequeueBegin
<1>8. CASE PeekBegin BY <1>6, <1>8 DEF PeekBegin
<1>9. CASE CopyOut
  <2>1. /\ rpc \in {"take", "look"} /\ Len(dest) < size
        /\ UNCHANGED <<shared, rpc, size, rdirect, writerVars>>
        /\ Len(dest) \in Nat /\ size \in Nat
    BY <1>0, <1>9, Messages DEF CopyOut, TypeOK
  <2>2. TypeOK' BY <1>0, <1>9, <2>1, CopyOutNext DEF TypeOK, shared, writerVars
  <2>3. ReaderInv' BY <1>0, <1>9, <2>1, CopyOutNext DEF ReaderInv, shared
  <2>4. QED BY <1>0, <2>1, <2>2, <2>3
    DEF IInv, CheckedCallsSucceed, WriterInv, shared, writerVars
<1>10. CASE MoveFront
  <2>1. /\ rpc' = "idle" /\ mFront' = Moved(mFront, size)
        /\ UNCHANGED <<mBuffer, mRear, mBFail, size, rdirect, dest, writerVars>>
    BY <1>0, <1>10 DEF MoveFront, CheckedCallsSucceed
  <2>2. size <= GetUseSize(mFront, mRear) /\ size \in Nat
    BY <1>0, <1>10 DEF MoveFront, ReaderInv, TypeOK
  <2>3. /\ mFront' \in 0 .. Size - 1
        /\ GetFreeSize(mFront', mRear) = GetFreeSize(mFront, mRear) + size
    BY <1>0, <2>1, <2>2, MovedSizes
  <2>4. TypeOK' BY <1>0, <2>1, <2>3 DEF TypeOK, writerVars
  <2>5. WriterInv'
    <3>1. UNCHANGED <<wpc, src, wdirect, written, mRear, mBuffer>> BY <2>1 DEF writerVars
    <3>2. Len(src) \in Nat BY <1>0, Messages DEF TypeOK
    <3>3. wpc # "idle" => Len(src) <= GetFreeSize(mFront', mRear)
      BY <1>0, <2>2, <2>3, <3>2, <1>s DEF WriterInv
    <3>4. QED BY <1>0, <3>1, <3>3 DEF WriterInv
  <2>6. ReaderInv' BY <2>1 DEF ReaderInv
  <2>7. QED BY <1>0, <2>1, <2>4, <2>5, <2>6 DEF IInv, CheckedCallsSucceed, writerVars
<1>11. CASE PeekReturn
  BY <1>0, <1>11
  DEF PeekReturn, IInv, TypeOK, CheckedCallsSucceed, WriterInv, ReaderInv, shared, writerVars
<1>12. CASE ClearBuffer
  BY <1>0, <1>12
  DEF ClearBuffer, IInv, TypeOK, CheckedCallsSucceed, WriterInv, ReaderInv, writerVars,
      readerVars
<1>13. CASE UNCHANGED vars
  BY <1>0, <1>13
  DEF IInv, TypeOK, CheckedCallsSucceed, WriterInv, ReaderInv, vars, shared, writerVars,
      readerVars
<1>14. QED
  BY <1>1, <1>2, <1>3, <1>4, <1>5, <1>7, <1>8, <1>9, <1>10, <1>11, <1>12, <1>13
  DEF Next, Producer, Consumer

(* The invariant holds in every reachable state.                             *)
THEOREM IInvHolds == Spec => []IInv
BY InitInv, StepInv, PTL DEF Spec

(* Type correctness.                                                         *)
THEOREM TypeCorrect == Spec => []TypeOK
BY IInvHolds, PTL DEF IInv

(* A caller that asked for the size first is never refused.                  *)
THEOREM ChecksSuffice == Spec => []CheckedCallsSucceed
BY IInvHolds, PTL DEF IInv

(* The cells of a copy in are behind the contents.                           *)
LEMMA WritesBehind ==
  ASSUME IInv, NEW c \in Writing
  PROVE  \E i \in GetUseSize(mFront, mRear) .. Size - 1 : c = Moved(mFront, i)
<1> USE SizeAssumption
<1>1. /\ mFront \in 0 .. Size - 1 /\ mRear \in 0 .. Size - 1 /\ wpc = "copy"
      /\ Len(src) \in Nat /\ Len(src) <= GetFreeSize(mFront, mRear)
      /\ written \in Nat /\ wdirect \in Nat
      /\ IF Len(src) <= wdirect THEN mRear + Len(src) <= Size ELSE wdirect = Size - mRear
  BY Messages DEF IInv, TypeOK, WriterInv, Writing
<1>2. PICK i \in written .. Len(src) - 1 : c = Cell(mRear, wdirect, i)
  BY <1>1 DEF Writing
<1>3. i \in 0 .. Len(src) - 1 BY <1>1
<1>4. c = Moved(mRear, i) BY <1>1, <1>2, <1>3, CellMoved
<1>5. /\ GetFreeSize(mFront, mRear) + GetUseSize(mFront, mRear) = Size - 1
      /\ GetUseSize(mFront, mRear) \in Nat /\ GetFreeSize(mFront, mRear) \in Nat
  BY <1>1, Sizes
<1>6. Moved(mRear, i) = Moved(mFront, GetUseSize(mFront, mRear) + i)
  <2>1. i \in Nat /\ i <= GetFreeSize(mFront, mRear) BY <1>1, <1>3, <1>5
  <2>2. QED BY <1>1, <2>1, BehindContents
<1>7. GetUseSize(mFront, mRear) + i \in GetUseSize(mFront, mRear) .. Size - 1
  BY <1>1, <1>3, <1>5
<1>8. QED BY <1>4, <1>6, <1>7

(* The cells of a copy out are in the contents.                              *)
LEMMA ReadsInside ==
  ASSUME IInv, NEW c \in Reading
  PROVE  \E i \in 0 .. GetUseSize(mFront, mRear) - 1 : c = Moved(mFront, i)
<1> USE SizeAssumption
<1>1. /\ mFront \in 0 .. Size - 1 /\ mRear \in 0 .. Size - 1 /\ rpc \in {"take", "look"}
      /\ size \in Nat /\ size <= GetUseSize(mFront, mRear)
      /\ Len(dest) \in Nat /\ rdirect \in Nat
      /\ IF size <= rdirect THEN mFront + size <= Size ELSE rdirect = Size - mFront
  BY Messages DEF IInv, TypeOK, ReaderInv, Reading
<1>2. PICK i \in Len(dest) .. size - 1 : c = Cell(mFront, rdirect, i)
  BY <1>1 DEF Reading
<1>3. i \in 0 .. size - 1 BY <1>1
<1>4. c = Moved(mFront, i) BY <1>1, <1>2, <1>3, CellMoved
<1>5. GetUseSize(mFront, mRear) \in Nat BY <1>1, Sizes
<1>6. i \in 0 .. GetUseSize(mFront, mRear) - 1 BY <1>1, <1>3, <1>5
<1>7. QED BY <1>4, <1>6

(* The two copies never meet.                                                *)
THEOREM CopiesNeverMeet == Spec => []CopiesApart
<1>1. IInv => CopiesApart
  <2>1. SUFFICES ASSUME IInv PROVE CopiesApart OBVIOUS
  <2>2. mFront \in 0 .. Size - 1 /\ mRear \in 0 .. Size - 1 BY <2>1 DEF IInv, TypeOK
  <2>3. GetUseSize(mFront, mRear) \in 0 .. Size - 1 BY <2>2, Sizes
  <2>4. ASSUME NEW c \in Writing PROVE c \in 0 .. Size - 1
    <3>1. PICK i \in GetUseSize(mFront, mRear) .. Size - 1 : c = Moved(mFront, i)
      BY <2>1, <2>4, WritesBehind
    <3>2. i \in 0 .. Size - 1 BY <2>3, SizeAssumption
    <3>3. QED BY <2>2, <3>1, <3>2, MovedApart
  <2>5. ASSUME NEW c \in Reading PROVE c \in 0 .. Size - 1
    <3>1. PICK i \in 0 .. GetUseSize(mFront, mRear) - 1 : c = Moved(mFront, i)
      BY <2>1, <2>5, ReadsInside
    <3>2. i \in 0 .. Size - 1 BY <2>3, SizeAssumption
    <3>3. QED BY <2>2, <3>1, <3>2, MovedApart
  <2>6. ASSUME NEW c \in Writing, c \in Reading PROVE FALSE
    <3>1. PICK i \in GetUseSize(mFront, mRear) .. Size - 1 : c = Moved(mFront, i)
      BY <2>1, <2>6, WritesBehind
    <3>2. PICK j \in 0 .. GetUseSize(mFront, mRear) - 1 : c = Moved(mFront, j)
      BY <2>1, <2>6, ReadsInside
    <3>3. i \in 0 .. Size - 1 /\ j \in 0 .. Size - 1 /\ i # j BY <2>3, SizeAssumption
    <3>4. Moved(mFront, i) = Moved(mFront, j) => i = j BY <2>2, <3>3, MovedApart
    <3>5. QED BY <3>1, <3>2, <3>3, <3>4
  <2>7. QED BY <2>4, <2>5, <2>6 DEF CopiesApart
<1>2. QED BY <1>1, IInvHolds, PTL

-----------------------------------------------------------------------------
(* The buffer implements the queue of module Fifo. *)

(* n bytes from p on.                                                        *)
Bytes(buf, p, n) == [i \in 1 .. n |-> buf[Moved(p, i - 1)]]

(* They are a sequence of bytes.                                             *)
LEMMA BytesType ==
  ASSUME NEW buf \in [0 .. Size - 1 -> Byte], NEW p \in 0 .. Size - 1,
         NEW n \in 0 .. Size - 1
  PROVE  /\ Bytes(buf, p, n) \in Seq(Byte)
         /\ Len(Bytes(buf, p, n)) = n
         /\ \A i \in 1 .. n : Bytes(buf, p, n)[i] = buf[Moved(p, i - 1)]
<1>1. ASSUME NEW i \in 1 .. n PROVE buf[Moved(p, i - 1)] \in Byte
  <2>1. i - 1 \in 0 .. Size - 1 BY SizeAssumption
  <2>2. Moved(p, i - 1) \in 0 .. Size - 1 BY <2>1, MovedApart
  <2>3. QED BY <2>2
<1>2. Bytes(buf, p, n) \in [1 .. n -> Byte] BY <1>1 DEF Bytes
<1>3. n \in Nat BY SizeAssumption
<1>4. QED BY <1>2, <1>3 DEF Bytes

(* Bytes written behind them continue them.                                  *)
LEMMA BytesGrow ==
  ASSUME NEW buf \in [0 .. Size - 1 -> Byte], NEW p \in 0 .. Size - 1,
         NEW n \in 0 .. Size - 1, NEW s \in Seq(Byte), n + Len(s) <= Size - 1,
         \A i \in 0 .. Len(s) - 1 : buf[Moved(p, n + i)] = s[i + 1]
  PROVE  Bytes(buf, p, n + Len(s)) = Bytes(buf, p, n) \o s
<1> DEFINE k == n + Len(s)
           old == Bytes(buf, p, n)
           new == Bytes(buf, p, k)
<1>1. n \in Nat /\ Len(s) \in Nat /\ k \in 0 .. Size - 1 BY SizeAssumption
<1>2. /\ new \in Seq(Byte) /\ Len(new) = k
      /\ \A i \in 1 .. k : new[i] = buf[Moved(p, i - 1)]
  BY <1>1, BytesType
<1>3. /\ old \in Seq(Byte) /\ Len(old) = n
      /\ \A i \in 1 .. n : old[i] = buf[Moved(p, i - 1)]
  BY BytesType
<1> HIDE DEF old, new
<1>4. /\ old \o s \in Seq(Byte) /\ Len(old \o s) = k
      /\ \A i \in 1 .. k : (old \o s)[i] = IF i <= n THEN old[i] ELSE s[i - n]
  BY <1>1, <1>3, ConcatProperties
<1>5. ASSUME NEW i \in 1 .. k PROVE new[i] = (old \o s)[i]
  <2>1. CASE i <= n
    <3>1. i \in 1 .. n BY <1>1, <2>1
    <3>2. QED BY <1>2, <1>3, <1>4, <2>1, <3>1
  <2>2. CASE ~(i <= n)
    <3>1. i - n - 1 \in 0 .. Len(s) - 1 /\ n + (i - n - 1) = i - 1
          /\ (i - n - 1) + 1 = i - n
      BY <1>1, <2>2
    <3>2. buf[Moved(p, n + (i - n - 1))] = s[(i - n - 1) + 1] BY <3>1
    <3>3. buf[Moved(p, i - 1)] = s[i - n] BY <3>1, <3>2
    <3>4. QED BY <1>2, <1>4, <2>2, <3>3
  <2>3. QED BY <2>1, <2>2
<1>6. new = old \o s BY <1>2, <1>4, <1>5, SeqEqual
<1>7. QED BY <1>6 DEF old, new

(* Their first bytes, and those after them.                                  *)
LEMMA BytesSplit ==
  ASSUME NEW buf \in [0 .. Size - 1 -> Byte], NEW p \in 0 .. Size - 1,
         NEW n \in 0 .. Size - 1, NEW k \in 0 .. n
  PROVE  /\ Bytes(buf, p, k) = SubSeq(Bytes(buf, p, n), 1, k)
         /\ Bytes(buf, Moved(p, k), n - k) = SubSeq(Bytes(buf, p, n), k + 1, n)
<1> DEFINE all == Bytes(buf, p, n)
           front == Bytes(buf, p, k)
           rest == Bytes(buf, Moved(p, k), n - k)
<1>1. /\ n \in Nat /\ k \in Nat /\ k \in 0 .. Size - 1 /\ n - k \in 0 .. Size - 1
  BY SizeAssumption
<1>2. Moved(p, k) \in 0 .. Size - 1 BY <1>1, MovedApart
<1>3. /\ all \in Seq(Byte) /\ Len(all) = n
      /\ \A i \in 1 .. n : all[i] = buf[Moved(p, i - 1)]
  BY BytesType
<1>4. /\ front \in Seq(Byte) /\ Len(front) = k
      /\ \A i \in 1 .. k : front[i] = buf[Moved(p, i - 1)]
  BY <1>1, BytesType
<1>5. /\ rest \in Seq(Byte) /\ Len(rest) = n - k
      /\ \A i \in 1 .. n - k : rest[i] = buf[Moved(Moved(p, k), i - 1)]
  BY <1>1, <1>2, BytesType
<1> HIDE DEF all, front, rest
<1>6. \A i \in 1 .. n : all[i] \in Byte BY <1>3, ElementOfSeq
<1>7. front = SubSeq(all, 1, k)
  <2>1. \A i \in 1 .. k : all[i] \in Byte BY <1>1, <1>6
  <2>2. /\ SubSeq(all, 1, k) \in Seq(Byte)
        /\ Len(SubSeq(all, 1, k)) = IF 1 <= k THEN k - 1 + 1 ELSE 0
        /\ \A i \in 1 .. k - 1 + 1 : SubSeq(all, 1, k)[i] = all[1 + i - 1]
    BY <1>1, <2>1, SubSeqProperties
  <2>3. Len(SubSeq(all, 1, k)) = k BY <1>1, <2>2
  <2>4. ASSUME NEW i \in 1 .. k PROVE front[i] = SubSeq(all, 1, k)[i]
    <3>1. i \in 1 .. n /\ i \in 1 .. k - 1 + 1 /\ 1 + i - 1 = i BY <1>1
    <3>2. QED BY <1>3, <1>4, <2>2, <3>1
  <2>5. QED BY <1>4, <2>2, <2>3, <2>4, SeqEqual
<1>8. rest = SubSeq(all, k + 1, n)
  <2>1. \A i \in k + 1 .. n : all[i] \in Byte BY <1>1, <1>6
  <2>2. k + 1 \in Int /\ n \in Int BY <1>1
  <2>3. /\ SubSeq(all, k + 1, n) \in Seq(Byte)
        /\ Len(SubSeq(all, k + 1, n)) = IF k + 1 <= n THEN n - (k + 1) + 1 ELSE 0
        /\ \A i \in 1 .. n - (k + 1) + 1 : SubSeq(all, k + 1, n)[i] = all[(k + 1) + i - 1]
    BY <2>1, <2>2, SubSeqProperties
  <2>4. Len(SubSeq(all, k + 1, n)) = n - k BY <1>1, <2>3
  <2>5. ASSUME NEW i \in 1 .. n - k PROVE rest[i] = SubSeq(all, k + 1, n)[i]
    <3>1. /\ i \in 1 .. n - (k + 1) + 1 /\ (k + 1) + i - 1 = k + i /\ k + i \in 1 .. n
          /\ i - 1 \in Nat /\ k + (i - 1) <= Size /\ (k + i) - 1 = k + (i - 1)
      BY <1>1, SizeAssumption
    <3>2. Moved(Moved(p, k), i - 1) = Moved(p, k + (i - 1)) BY <1>1, <3>1, MovedTwice
    <3>3. all[k + i] = buf[Moved(p, k + (i - 1))] BY <1>3, <3>1
    <3>4. SubSeq(all, k + 1, n)[i] = all[k + i] BY <2>3, <3>1
    <3>5. QED BY <1>5, <3>2, <3>3, <3>4
  <2>6. QED BY <1>5, <2>3, <2>4, <2>5, SeqEqual
<1>9. QED BY <1>7, <1>8 DEF all, front, rest

(* What the lemmas above need to know of a state.                            *)
LEMMA ContentsAre ==
  ASSUME IInv
  PROVE  /\ mBuffer \in [0 .. Size - 1 -> Byte]
         /\ mFront \in 0 .. Size - 1 /\ mRear \in 0 .. Size - 1
         /\ GetUseSize(mFront, mRear) \in 0 .. Size - 1
         /\ GetFreeSize(mFront, mRear) \in 0 .. Size - 1
         /\ GetFreeSize(mFront, mRear) + GetUseSize(mFront, mRear) = Size - 1
         /\ Contents = Bytes(mBuffer, mFront, GetUseSize(mFront, mRear))
         /\ Contents \in Seq(Byte) /\ Len(Contents) = GetUseSize(mFront, mRear)
<1>1. /\ mBuffer \in [0 .. Size - 1 -> Byte]
      /\ mFront \in 0 .. Size - 1 /\ mRear \in 0 .. Size - 1
  BY DEF IInv, TypeOK
<1>2. /\ GetUseSize(mFront, mRear) \in 0 .. Size - 1
      /\ GetFreeSize(mFront, mRear) \in 0 .. Size - 1
      /\ GetFreeSize(mFront, mRear) + GetUseSize(mFront, mRear) = Size - 1
  BY <1>1, Sizes
<1>3. Contents = Bytes(mBuffer, mFront, GetUseSize(mFront, mRear)) BY DEF Contents, Bytes
<1>4. Contents \in Seq(Byte) /\ Len(Contents) = GetUseSize(mFront, mRear)
  BY <1>1, <1>2, <1>3, BytesType
<1>5. QED BY <1>1, <1>2, <1>3, <1>4

(* What the consumer has copied is the beginning of the contents.            *)
LEMMA DestIsPrefix ==
  ASSUME IInv, rpc \in {"take", "look"}, Len(dest) = size
  PROVE  size \in 0 .. Len(Contents) /\ dest = SubSeq(Contents, 1, size)
<1> DEFINE use == GetUseSize(mFront, mRear)
<1>1. /\ dest \in Seq(Byte) /\ size \in 0 .. use
      /\ \A i \in 1 .. size : dest[i] = mBuffer[Moved(mFront, i - 1)]
  BY ContentsAre, Messages DEF IInv, TypeOK, ReaderInv
<1>2. size \in 0 .. Size - 1 BY <1>1, ContentsAre, SizeAssumption
<1>3. Bytes(mBuffer, mFront, size) = SubSeq(Contents, 1, size)
  <2>1. Bytes(mBuffer, mFront, size) = SubSeq(Bytes(mBuffer, mFront, use), 1, size)
    BY <1>1, ContentsAre, BytesSplit
  <2>2. QED BY <2>1, ContentsAre
<1>4. /\ Bytes(mBuffer, mFront, size) \in Seq(Byte)
      /\ Len(Bytes(mBuffer, mFront, size)) = size
      /\ \A i \in 1 .. size : Bytes(mBuffer, mFront, size)[i] = mBuffer[Moved(mFront, i - 1)]
  BY <1>2, ContentsAre, BytesType
<1>5. dest = Bytes(mBuffer, mFront, size) BY <1>1, <1>4, SeqEqual
<1>6. QED BY <1>1, <1>3, <1>5, ContentsAre

(* Publishing the rear appends the message to the contents.                  *)
LEMMA MoveRearPuts ==
  ASSUME IInv, MoveRear
  PROVE  /\ Contents' = Contents \o src
         /\ Len(Contents) + Len(src) <= Size - 1
         /\ src \in Seq(Byte)
<1> DEFINE use == GetUseSize(mFront, mRear)
<1>1. /\ src \in Seq(Byte) /\ Len(src) \in Nat /\ Len(src) <= GetFreeSize(mFront, mRear)
      /\ \A i \in 0 .. Len(src) - 1 : mBuffer[Moved(mRear, i)] = src[i + 1]
  BY Messages DEF IInv, TypeOK, WriterInv, MoveRear
<1>2. mRear' = Moved(mRear, Len(src)) /\ UNCHANGED <<mFront, mBuffer>>
  BY DEF MoveRear, IInv, CheckedCallsSucceed
<1>3. GetUseSize(mFront', mRear') = use + Len(src) BY <1>1, <1>2, ContentsAre, MovedSizes
<1>4. use + Len(src) <= Size - 1 BY <1>1, ContentsAre, SizeAssumption
<1>5. ASSUME NEW i \in 0 .. Len(src) - 1
      PROVE  mBuffer[Moved(mFront, use + i)] = src[i + 1]
  <2>1. i \in Nat /\ i <= GetFreeSize(mFront, mRear) BY <1>1, ContentsAre, SizeAssumption
  <2>2. Moved(mRear, i) = Moved(mFront, use + i) BY <2>1, ContentsAre, BehindContents
  <2>3. QED BY <1>1, <2>2
<1>6. Bytes(mBuffer, mFront, use + Len(src)) = Bytes(mBuffer, mFront, use) \o src
  BY <1>1, <1>4, <1>5, ContentsAre, BytesGrow
<1>7. Contents' = Bytes(mBuffer', mFront', GetUseSize(mFront', mRear'))
  BY DEF Contents, Bytes
<1>8. Contents' = Contents \o src BY <1>2, <1>3, <1>6, <1>7, ContentsAre
<1>9. QED BY <1>1, <1>4, <1>8, ContentsAre

(* Publishing the front drops from the contents what was copied out.         *)
LEMMA MoveFrontDrops ==
  ASSUME IInv, MoveFront
  PROVE  Contents' = SubSeq(Contents, size + 1, Len(Contents))
<1> DEFINE use == GetUseSize(mFront, mRear)
<1>1. size \in Nat /\ size \in 0 .. use /\ size <= use
  BY ContentsAre DEF IInv, TypeOK, ReaderInv, MoveFront
<1>2. mFront' = Moved(mFront, size) /\ UNCHANGED <<mRear, mBuffer>>
  BY DEF MoveFront, IInv, CheckedCallsSucceed
<1>3. GetUseSize(mFront', mRear') = use - size BY <1>1, <1>2, ContentsAre, MovedSizes
<1>4. Bytes(mBuffer, Moved(mFront, size), use - size) =
        SubSeq(Bytes(mBuffer, mFront, use), size + 1, use)
  BY <1>1, ContentsAre, BytesSplit
<1>5. Contents' = Bytes(mBuffer', mFront', GetUseSize(mFront', mRear'))
  BY DEF Contents, Bytes
<1>6. QED BY <1>2, <1>3, <1>4, <1>5, ContentsAre

(* A byte copied in does not change the contents.                            *)
LEMMA CopyInHidden ==
  ASSUME IInv, CopyIn
  PROVE  Contents' = Contents
<1> DEFINE use == GetUseSize(mFront, mRear)
<1>1. UNCHANGED <<mFront, mRear>> BY DEF CopyIn
<1>2. ASSUME NEW i \in 1 .. use
      PROVE  mBuffer'[Moved(mFront, i - 1)] = mBuffer[Moved(mFront, i - 1)]
  <2>1. i - 1 \in 0 .. use - 1 BY ContentsAre, SizeAssumption
  <2>2. QED BY <2>1, CopyInApart
<1>3. QED BY <1>1, <1>2 DEF Contents

(* Each step of the two threads is a step of the queue, or none.             *)
LEMMA StepRefines ==
  ASSUME IInv, [Next]_vars
  PROVE  [Queue!Next]_<<Contents, src, Serving, size, Returned>>
<1> SUFFICES Queue!Next \/ (/\ Contents' = Contents /\ src' = src /\ Serving' = Serving
                            /\ size' = size /\ Returned' = Returned)
  OBVIOUS
<1> USE DEF Queue!Next
<1>1. ASSUME UNCHANGED <<mBuffer, mFront, mRear>> PROVE Contents' = Contents
  BY <1>1 DEF Contents
<1>2. ASSUME UNCHANGED readerVars
      PROVE  Serving' = Serving /\ size' = size /\ Returned' = Returned
  BY <1>2 DEF readerVars, Serving, Returned
<1>3. CASE CheckFree
  <2>1. PICK m \in Message : src' = m BY <1>3 DEF CheckFree
  <2>2. src' \in Seq(Byte) BY <2>1, Messages
  <2>3. src = <<>> BY <1>3 DEF CheckFree, IInv, WriterInv
  <2>4. Contents' = Contents BY <1>1, <1>3 DEF CheckFree, shared
  <2>5. Queue!Give(src') BY <1>2, <1>3, <2>3, <2>4 DEF CheckFree, Queue!Give
  <2>6. QED BY <2>2, <2>5
<1>4. CASE EnqueueBegin
  BY <1>1, <1>2, <1>4 DEF EnqueueBegin
<1>5. CASE CopyIn
  BY <1>2, <1>5, CopyInHidden DEF CopyIn
<1>6. CASE MoveRear
  <2>1. /\ Contents' = Contents \o src /\ Len(Contents) + Len(src) <= Size - 1
    BY <1>6, MoveRearPuts
  <2>2. src' = <<>> BY <1>6 DEF MoveRear, IInv, CheckedCallsSucceed
  <2>3. QED BY <1>2, <1>6, <2>1, <2>2 DEF MoveRear, Queue!Put
<1>7. CASE CheckUse
  <2>1. PICK n \in 0 .. MaxLen : n <= GetUseSize(mFront, mRear) /\ size' = n
    BY <1>7 DEF CheckUse
  <2>2. size' \in Nat /\ size' <= Len(Contents) BY <2>1, ContentsAre, LenAssumption
  <2>3. Contents' = Contents /\ src' = src
    BY <1>1, <1>7 DEF CheckUse, shared, writerVars
  <2>4. Serving = "none" /\ Serving' \in {"take", "look"} /\ Returned' = <<>>
    BY <1>7 DEF CheckUse, Serving, Returned
  <2>5. Queue!Ask(size') BY <2>2, <2>3, <2>4 DEF Queue!Ask
  <2>6. QED BY <2>2, <2>5
<1>8. CASE DequeueBegin
  <2>1. GetUseSize(mFront, mRear) >= size /\ rpc = "dequeue" /\ rpc' = "take"
    BY <1>8, ContentsAre DEF DequeueBegin, Begin, IInv, ReaderInv, TypeOK
  <2>2. Contents' = Contents /\ src' = src /\ size' = size
    BY <1>1, <1>8 DEF DequeueBegin, Begin, writerVars
  <2>3. QED BY <2>1, <2>2 DEF Serving, Returned
<1>9. CASE PeekBegin
  <2>1. GetUseSize(mFront, mRear) >= size /\ rpc = "peek" /\ rpc' = "look"
    BY <1>9, ContentsAre DEF PeekBegin, Begin, IInv, ReaderInv, TypeOK
  <2>2. Contents' = Contents /\ src' = src /\ size' = size
    BY <1>1, <1>9 DEF PeekBegin, Begin, writerVars
  <2>3. QED BY <2>1, <2>2 DEF Serving, Returned
<1>10. CASE CopyOut
  BY <1>1, <1>10 DEF CopyOut, shared, writerVars, Serving, Returned
<1>11. CASE MoveFront \/ PeekReturn
  <2>1. /\ Returned' = dest /\ rpc \in {"take", "look"} /\ Len(dest) = size
        /\ Serving' = "none" /\ size' = size /\ src' = src
    BY <1>11 DEF MoveFront, PeekReturn, Serving, Returned, writerVars
  <2>2. dest = SubSeq(Contents, 1, size) BY <2>1, DestIsPrefix
  <2>3. CASE MoveFront
    <3>1. Serving = "take" BY <2>3 DEF MoveFront, Serving
    <3>2. QED BY <2>1, <2>2, <2>3, <3>1, MoveFrontDrops DEF Queue!Take
  <2>4. CASE PeekReturn
    <3>1. Serving = "look" BY <2>4 DEF PeekReturn, Serving
    <3>2. Contents' = Contents BY <1>1, <2>4 DEF PeekReturn, shared
    <3>3. QED BY <2>1, <2>2, <3>1, <3>2 DEF Queue!Look
  <2>5. QED BY <1>11, <2>3, <2>4
<1>12. CASE ClearBuffer
  <2>1. Contents' = <<>>
    <3>1. mFront' = 0 /\ mRear' = 0 BY <1>12 DEF ClearBuffer
    <3>2. GetUseSize(mFront', mRear') = 0 BY <3>1 DEF GetUseSize
    <3>3. QED BY <3>2 DEF Contents
  <2>2. src = <<>> /\ src' = src /\ Serving = "none"
    BY <1>12 DEF ClearBuffer, writerVars, Serving, IInv, WriterInv
  <2>3. QED BY <1>2, <1>12, <2>1, <2>2 DEF ClearBuffer, Queue!Clear
<1>13. CASE UNCHANGED vars
  BY <1>1, <1>2, <1>13 DEF vars, shared, writerVars
<1>14. QED
  BY <1>3, <1>4, <1>5, <1>6, <1>7, <1>8, <1>9, <1>10, <1>11, <1>12, <1>13
  DEF Next, Producer, Consumer

(* The buffer is a FIFO queue of Size - 1 bytes for its two threads.         *)
THEOREM ImplementsFifo == Spec => FifoSpec
<1>1. Init => Queue!Init
  <2>1. SUFFICES ASSUME Init PROVE Queue!Init OBVIOUS
  <2>2. GetUseSize(mFront, mRear) = 0 BY <2>1 DEF Init, GetUseSize
  <2>3. Contents = <<>> BY <2>2 DEF Contents
  <2>4. QED BY <2>1, <2>3 DEF Init, Queue!Init, Serving, Returned
<1>2. QED BY <1>1, StepRefines, IInvHolds, PTL DEF Spec, FifoSpec, Queue!Spec

(* A set of numbers that is not empty has a least element. *)
LEMMA LeastNumber ==
  ASSUME NEW T \in SUBSET Nat, T # {}
  PROVE  \E m \in T : \A k \in T : ~(k < m)
<1> DEFINE R == {ss \in Nat \X Nat : ss[1] < ss[2]}
<1>1. IsWellFoundedOn(R, Nat) BY NatLessThanWellFounded DEF OpToRel
<1>2. \E m \in T : \A k \in T : ~ (<<k, m>> \in R)
  <2> HIDE DEF R
  <2> QED BY <1>1, WFMin, Zenon
<1> QED BY <1>2

(* Induction over the natural numbers, with a set for the predicate. *)
LEMMA SetInduction ==
  ASSUME NEW T, 0 \in T, \A n \in Nat : n \in T => n + 1 \in T
  PROVE  \A n \in Nat : n \in T
<1> SUFFICES ASSUME NEW n \in Nat, n \notin T PROVE FALSE
  OBVIOUS
<1> DEFINE U == {k \in Nat : k \notin T}
<1>1. PICK m \in U : \A k \in U : ~(k < m) BY LeastNumber
<1>2. m # 0 /\ m - 1 \in Nat /\ m - 1 \in T BY <1>1
<1> QED BY <1>2

(* What FlattenSeq computes: the i-th value is the concatenation of the      *)
(* first i sequences.                                                        *)
Flattens(g, seqs) ==
  g = [i \in 1 .. Len(seqs) |-> IF i = 1 THEN seqs[i] ELSE g[i - 1] \o seqs[i]]

(* Any function that flattens more and more of a sequence ends in what       *)
(* FlattenSeq returns.                                                       *)
LEMMA FlattenUnique ==
  ASSUME NEW seqs, Len(seqs) \in Nat \ {0}, NEW g, Flattens(g, seqs)
  PROVE  FlattenSeq(seqs) = g[Len(seqs)]
<1> DEFINE n == Len(seqs)
           h == CHOOSE f : Flattens(f, seqs)
           T == {i \in Nat : i + 1 \in 1 .. n => g[i + 1] = h[i + 1]}
<1>1. FlattenSeq(seqs) = h[n] BY DEF FlattenSeq, Flattens
<1>2. Flattens(h, seqs) OBVIOUS
<1> HIDE DEF h
<1>3. \A i \in 1 .. n : /\ g[i] = IF i = 1 THEN seqs[i] ELSE g[i - 1] \o seqs[i]
                        /\ h[i] = IF i = 1 THEN seqs[i] ELSE h[i - 1] \o seqs[i]
  BY <1>2 DEF Flattens
<1>4. 0 \in T BY <1>3
<1>5. ASSUME NEW i \in Nat, i \in T PROVE i + 1 \in T
  <2>1. SUFFICES ASSUME i + 2 \in 1 .. n PROVE g[i + 2] = h[i + 2] BY <1>5
  <2>2. g[i + 1] = h[i + 1] BY <1>5, <2>1
  <2>3. i + 2 \in 1 .. n /\ i + 2 # 1 /\ (i + 2) - 1 = i + 1 BY <2>1
  <2>4. /\ g[i + 2] = g[i + 1] \o seqs[i + 2]
        /\ h[i + 2] = h[i + 1] \o seqs[i + 2]
    BY <1>3, <2>3
  <2> QED BY <2>2, <2>4
<1>6. n - 1 \in Nat /\ n - 1 \in T
  <2> HIDE DEF T
  <2> QED BY <1>4, <1>5, SetInduction
<1> QED BY <1>1, <1>6

(* There is such a function, so FlattenSeq adds the last message to the      *)
(* flattened ones before it.                                                 *)
LEMMA FlattenExists ==
  ASSUME NEW C, NEW seqs \in Seq(Seq(C))
  PROVE  \E g \in [1 .. Len(seqs) -> Seq(C)] : Flattens(g, seqs)
<1> DEFINE P(n, g) == g \in [1 .. n -> Seq(C)]
                      /\ \A i \in 1 .. n : g[i] = IF i = 1 THEN seqs[i] ELSE g[i - 1] \o seqs[i]
           T == {n \in Nat : n <= Len(seqs) => \E g : P(n, g)}
<1>1. 0 \in T
  <2>1. 1 .. 0 = {} OBVIOUS
  <2>2. [i \in {} |-> 0] \in [{} -> Seq(C)] OBVIOUS
  <2>3. P(0, [i \in {} |-> 0]) BY <2>1, <2>2
  <2> QED BY <2>3
<1>2. ASSUME NEW n \in Nat, n \in T PROVE n + 1 \in T
  <2>1. SUFFICES ASSUME n + 1 <= Len(seqs) PROVE \E g : P(n + 1, g)
    <3> HIDE DEF P
    <3> QED OBVIOUS
  <2>2. PICK g : P(n, g) BY <1>2, <2>1
  <2> DEFINE last == IF n = 0 THEN seqs[n + 1] ELSE g[n] \o seqs[n + 1]
             h == [i \in 1 .. n + 1 |-> IF i <= n THEN g[i] ELSE last]
  <2>3. seqs[n + 1] \in Seq(C) BY <2>1, ElementOfSeq
  <2>4. last \in Seq(C) BY <2>2, <2>3, ConcatProperties
  <2> HIDE DEF last
  <2>5. h \in [1 .. n + 1 -> Seq(C)] BY <2>2, <2>4
  <2>6. ASSUME NEW i \in 1 .. n + 1
        PROVE h[i] = IF i = 1 THEN seqs[i] ELSE h[i - 1] \o seqs[i]
    <3>1. CASE i <= n
      <4>1. i \in 1 .. n /\ h[i] = g[i] BY <3>1
      <4>2. i # 1 => h[i - 1] = g[i - 1] BY <3>1
      <4> QED BY <2>2, <4>1, <4>2
    <3>2. CASE i = n + 1
      <4>1. h[i] = last BY <3>2
      <4>2. i # 1 => h[i - 1] = g[n] BY <3>2
      <4> QED BY <3>2, <4>1, <4>2 DEF last
    <3> QED BY <3>1, <3>2
  <2>7. P(n + 1, h) BY <2>5, <2>6
  <2> QED BY <2>7
<1>3. Len(seqs) \in Nat /\ Len(seqs) \in T
  <2> HIDE DEF T
  <2> QED BY <1>1, <1>2, SetInduction, LenProperties
<1>4. PICK g : P(Len(seqs), g) BY <1>3
<1>5. Flattens(g, seqs) BY <1>4 DEF Flattens
<1> QED BY <1>4, <1>5

(* Nothing flattened is nothing.                                             *)
LEMMA FlattenEmpty == FlattenSeq(<<>>) = <<>>
BY DEF FlattenSeq

(* A message put at the end comes last in the bytes.                         *)
LEMMA FlattenAppend ==
  ASSUME NEW C, NEW seqs \in Seq(Seq(C)), NEW x \in Seq(C)
  PROVE  /\ FlattenSeq(seqs) \in Seq(C)
         /\ FlattenSeq(Append(seqs, x)) = FlattenSeq(seqs) \o x
<1> DEFINE n == Len(seqs)
           s == Append(seqs, x)
<1>1. n \in Nat /\ Len(s) = n + 1 /\ s \in Seq(Seq(C))
      /\ s[n + 1] = x /\ \A i \in 1 .. n : s[i] = seqs[i]
  BY AppendProperties, LenProperties
<1>2. PICK g \in [1 .. n -> Seq(C)] : Flattens(g, seqs) BY FlattenExists
<1> DEFINE last == IF n = 0 THEN x ELSE g[n] \o x
           h == [i \in 1 .. n + 1 |-> IF i <= n THEN g[i] ELSE last]
<1> HIDE DEF s, last
<1>3. ASSUME NEW i \in 1 .. n + 1
      PROVE h[i] = IF i = 1 THEN s[i] ELSE h[i - 1] \o s[i]
  <2>1. CASE i <= n
    <3>1. i \in 1 .. n /\ h[i] = g[i] /\ s[i] = seqs[i] BY <2>1, <1>1
    <3>2. i # 1 => h[i - 1] = g[i - 1] BY <2>1, <1>1
    <3>3. g[i] = IF i = 1 THEN seqs[i] ELSE g[i - 1] \o seqs[i] BY <1>2, <3>1 DEF Flattens
    <3> QED BY <3>1, <3>2, <3>3
  <2>2. CASE i = n + 1
    <3>1. h[i] = last /\ s[i] = x BY <2>2, <1>1
    <3>2. i # 1 => h[i - 1] = g[n] BY <2>2, <1>1
    <3> QED BY <2>2, <3>1, <3>2, <1>1 DEF last
  <2> QED BY <2>1, <2>2, <1>1
<1>4. Flattens(h, s)
  <2>1. h = [i \in 1 .. Len(s) |-> h[i]] BY <1>1
  <2> HIDE DEF h
  <2>2. [i \in 1 .. Len(s) |-> h[i]]
          = [i \in 1 .. Len(s) |-> IF i = 1 THEN s[i] ELSE h[i - 1] \o s[i]]
    BY <1>1, <1>3
  <2> QED BY <2>1, <2>2 DEF Flattens
<1>5. FlattenSeq(s) = h[n + 1]
  <2>1. Len(s) \in Nat \ {0} /\ Len(s) = n + 1 BY <1>1
  <2> HIDE DEF h, n
  <2>2. FlattenSeq(s) = h[Len(s)] BY <2>1, <1>4, FlattenUnique
  <2> QED BY <2>1, <2>2
<1>6. h[n + 1] = last BY <1>1
<1>7. CASE n = 0
  <2>1. seqs = <<>> BY <1>7, EmptySeq
  <2>2. FlattenSeq(seqs) = <<>> BY <2>1, FlattenEmpty
  <2>3. <<>> \o x = x /\ <<>> \in Seq(C) BY ConcatEmptySeq, EmptySeq
  <2> QED BY <1>5, <1>6, <1>7, <2>2, <2>3 DEF last, s
<1>8. CASE n # 0
  <2>1. FlattenSeq(seqs) = g[n] BY <1>1, <1>2, <1>8, FlattenUnique
  <2>2. n \in 1 .. n BY <1>1, <1>8
  <2>3. g[n] \in Seq(C) BY <2>2
  <2> QED BY <1>5, <1>6, <1>8, <2>1, <2>3 DEF last, s
<1> QED BY <1>7, <1>8

(* The bytes of a list of messages in two parts are the bytes of the parts. *)
LEMMA FlattenConcat ==
  ASSUME NEW C, NEW s \in Seq(Seq(C)), NEW t \in Seq(Seq(C))
  PROVE  /\ FlattenSeq(s) \in Seq(C)
         /\ FlattenSeq(s \o t) = FlattenSeq(s) \o FlattenSeq(t)
<1> DEFINE T == {n \in Nat : \A u \in Seq(Seq(C)) :
                   Len(u) = n => FlattenSeq(s \o u) = FlattenSeq(s) \o FlattenSeq(u)}
<1>1. FlattenSeq(s) \in Seq(C)
  BY FlattenAppend, EmptySeq
<1>2. 0 \in T
  <2>1. SUFFICES ASSUME NEW u \in Seq(Seq(C)), Len(u) = 0
                 PROVE FlattenSeq(s \o u) = FlattenSeq(s) \o FlattenSeq(u)
    OBVIOUS
  <2>2. u = <<>> BY <2>1, EmptySeq
  <2>3. s \o u = s /\ FlattenSeq(s) \o <<>> = FlattenSeq(s) BY <1>1, <2>2, ConcatEmptySeq
  <2> QED BY <2>2, <2>3, FlattenEmpty
<1>3. ASSUME NEW n \in Nat, n \in T PROVE n + 1 \in T
  <2>1. SUFFICES ASSUME NEW u \in Seq(Seq(C)), Len(u) = n + 1
                 PROVE FlattenSeq(s \o u) = FlattenSeq(s) \o FlattenSeq(u)
    OBVIOUS
  <2>2. PICK front \in Seq(Seq(C)), x \in Seq(C) : u = Append(front, x)
    <3>1. u # <<>> BY <2>1
    <3> QED BY <3>1, SequenceEmptyOrAppend
  <2>3. Len(front) = n BY <2>1, <2>2, AppendProperties, LenProperties
  <2>4. FlattenSeq(s \o front) = FlattenSeq(s) \o FlattenSeq(front) BY <1>3, <2>3
  <2>5. s \o u = Append(s \o front, x) /\ s \o front \in Seq(Seq(C))
    <3>1. s \o front \in Seq(Seq(C)) BY ConcatProperties
    <3>2. u = front \o <<x>> BY <2>2, AppendIsConcat
    <3>3. Append(s \o front, x) = (s \o front) \o <<x>> BY <3>1, AppendIsConcat
    <3>4. <<x>> \in Seq(Seq(C)) OBVIOUS
    <3> QED BY <3>1, <3>2, <3>3, <3>4, ConcatAssociative
  <2>6. FlattenSeq(s \o u) = FlattenSeq(s \o front) \o x BY <2>5, FlattenAppend
  <2>7. FlattenSeq(u) = FlattenSeq(front) \o x /\ FlattenSeq(front) \in Seq(C)
    BY <2>2, FlattenAppend
  <2> DEFINE y == FlattenSeq(s)
             z == FlattenSeq(front)
  <2>8. y \in Seq(C) BY <1>1
  <2>9. z \in Seq(C) BY <2>7
  <2>10. x \in Seq(C) BY <2>2
  <2>11. FlattenSeq(s \o front) = y \o z BY <2>4
  <2>12. FlattenSeq(s \o u) = (y \o z) \o x /\ FlattenSeq(u) = z \o x BY <2>6, <2>7, <2>11
  <2> HIDE DEF y, z
  <2>13. (y \o z) \o x = y \o (z \o x) BY ONLY <2>8, <2>9, <2>10, ConcatAssociative, SMTT(30)
  <2> QED BY <2>12, <2>13 DEF y
<1>4. Len(t) \in Nat /\ Len(t) \in T
  <2> HIDE DEF T
  <2> QED BY <1>2, <1>3, SetInduction, LenProperties
<1> QED BY <1>1, <1>4

(* One message. *)
LEMMA FlattenOne ==
  ASSUME NEW C, NEW x \in Seq(C)
  PROVE  FlattenSeq(<<x>>) = x
<1>1. <<>> \in Seq(Seq(C)) /\ Append(<<>>, x) = <<x>> BY EmptySeq
<1>2. FlattenSeq(<<x>>) = <<>> \o x BY <1>1, FlattenAppend, FlattenEmpty
<1> QED BY <1>2, ConcatEmptySeq

(* The bytes a buffer holds, from its front on. *)
Held(buf, f, r) == [i \in 1 .. GetUseSize(f, r) |-> buf[Moved(f, i - 1)]]

(* A copy of n bytes from p on wraps after direct of them, or not at all.    *)
Splits(p, n, direct) == IF n <= direct THEN p + n <= Size ELSE direct = Size - p

(* A pointer stays in the buffer. *)
LEMMA MovedIn ==
  ASSUME NEW p \in 0 .. Size - 1, NEW i \in 0 .. Size - 1
  PROVE  Moved(p, i) \in 0 .. Size - 1
BY SizeAssumption DEF Moved

(* The bytes in the ring are as many as GetUseSize counts.                   *)
LEMMA HeldSeq ==
  ASSUME NEW C, NEW buf \in [0 .. Size - 1 -> C],
         NEW f \in 0 .. Size - 1, NEW r \in 0 .. Size - 1
  PROVE  /\ Held(buf, f, r) \in Seq(C)
         /\ Len(Held(buf, f, r)) = GetUseSize(f, r)
         /\ GetUseSize(f, r) \in 0 .. Size - 1
<1>1. GetUseSize(f, r) \in 0 .. Size - 1 BY Sizes
<1>2. \A i \in 1 .. GetUseSize(f, r) : Moved(f, i - 1) \in 0 .. Size - 1
  <2>1. SUFFICES ASSUME NEW i \in 1 .. GetUseSize(f, r) PROVE Moved(f, i - 1) \in 0 .. Size - 1
    OBVIOUS
  <2>2. i - 1 \in 0 .. Size - 1 BY <1>1, SizeAssumption
  <2> QED BY <2>2, MovedIn
<1> DEFINE use == GetUseSize(f, r)
           s == Held(buf, f, r)
<1>3. s \in [1 .. use -> C] BY <1>2 DEF Held
<1>4. use \in Nat BY <1>1, SizeAssumption
<1> HIDE DEF use, s
<1>5. s \in Seq(C) /\ Len(s) = use BY <1>3, <1>4
<1> QED BY <1>1, <1>5 DEF use, s

(* What a copy of n bytes from p on reads, in two loops.                     *)
CopiedOut(buf, p, direct, n) == [i \in 1 .. n |-> buf[Cell(p, direct, i - 1)]]

(* A copy of what is held reads the first bytes of it.                       *)
LEMMA HeldRead ==
  ASSUME NEW C, NEW buf \in [0 .. Size - 1 -> C],
         NEW f \in 0 .. Size - 1, NEW r \in 0 .. Size - 1,
         NEW n \in Nat, n <= GetUseSize(f, r)
  PROVE  CopiedOut(buf, f, GetDirectUseSize(f, r), n) = SubSeq(Held(buf, f, r), 1, n)
<1> DEFINE s == Held(buf, f, r)
           direct == GetDirectUseSize(f, r)
<1>1. s \in Seq(C) /\ Len(s) = GetUseSize(f, r) /\ GetUseSize(f, r) \in 0 .. Size - 1
  BY HeldSeq
<1>2. Splits(f, n, direct)
  BY DirectSplit DEF Splits
<1>3. direct \in Nat BY Sizes, SizeAssumption
<1>4. \A i \in 1 .. n : Cell(f, direct, i - 1) = Moved(f, i - 1)
  BY <1>2, <1>3, CellMoved DEF Splits
<1>5. \A i \in 1 .. n : s[i] = buf[Moved(f, i - 1)] BY <1>1 DEF Held
<1>6. SubSeq(s, 1, n) = [i \in 1 .. n |-> s[i]] BY <1>1
<1> HIDE DEF s, direct
<1> QED BY <1>4, <1>5, <1>6 DEF direct, s, CopiedOut

(* The front moved on drops the first bytes. *)
LEMMA HeldDropped ==
  ASSUME NEW C, NEW buf \in [0 .. Size - 1 -> C],
         NEW f \in 0 .. Size - 1, NEW r \in 0 .. Size - 1,
         NEW n \in Nat, n <= GetUseSize(f, r)
  PROVE  /\ Moved(f, n) \in 0 .. Size - 1
         /\ GetUseSize(Moved(f, n), r) = GetUseSize(f, r) - n
         /\ Held(buf, Moved(f, n), r) = SubSeq(Held(buf, f, r), n + 1, GetUseSize(f, r))
<1> DEFINE s == Held(buf, f, r)
           use == GetUseSize(f, r)
           g == Moved(f, n)
<1>1. s \in Seq(C) /\ Len(s) = use /\ use \in 0 .. Size - 1 BY HeldSeq
<1>2. g \in 0 .. Size - 1 /\ GetUseSize(g, r) = use - n BY MovedSizes
<1>3. \A i \in 1 .. use - n : Moved(g, i - 1) = Moved(f, n + i - 1)
  <2>1. SUFFICES ASSUME NEW i \in 1 .. use - n PROVE Moved(g, i - 1) = Moved(f, n + i - 1)
    OBVIOUS
  <2>2. i - 1 \in Nat /\ n + (i - 1) <= Size BY <1>1, SizeAssumption
  <2>3. Moved(g, i - 1) = Moved(f, n + (i - 1)) BY <2>2, MovedTwice
  <2> QED BY <2>2, <2>3
<1>4. \A i \in 1 .. use : s[i] = buf[Moved(f, i - 1)] BY DEF Held
<1>5. SubSeq(s, n + 1, use) = [i \in 1 .. use - n |-> s[n + i]]
  <2> HIDE DEF s, use
  <2> DEFINE u == SubSeq(s, n + 1, use)
             v == [i \in 1 .. use - n |-> s[n + i]]
  <2>1. n \in 0 .. use /\ use \in Nat BY <1>1, SizeAssumption
  <2>2. \A i \in n + 1 .. use : s[i] \in C BY <1>1, <2>1, ElementOfSeq
  <2>3. /\ u \in Seq(C) /\ Len(u) = use - n
        /\ \A i \in 1 .. use - n : u[i] = s[n + i]
    <3>1. use - (n + 1) + 1 = use - n /\ \A i \in 1 .. use - n : (n + 1) + i - 1 = n + i
      BY <2>1
    <3>2. Len(u) = IF n + 1 <= use THEN use - (n + 1) + 1 ELSE 0
      BY <2>1, <2>2, SubSeqProperties
    <3>3. Len(u) = use - n BY <2>1, <3>2
    <3> QED BY <2>1, <2>2, <3>1, <3>3, SubSeqProperties
  <2> HIDE DEF u
  <2>4. u = [i \in 1 .. use - n |-> u[i]] BY <2>3, LenProperties
  <2> QED BY <2>3, <2>4 DEF u
<1>6. Held(buf, g, r) = [i \in 1 .. use - n |-> buf[Moved(g, i - 1)]] BY <1>2 DEF Held
<1> HIDE DEF s, use, g
<1>7. \A i \in 1 .. use - n : buf[Moved(g, i - 1)] = s[n + i]
  <2>1. SUFFICES ASSUME NEW i \in 1 .. use - n PROVE buf[Moved(g, i - 1)] = s[n + i]
    OBVIOUS
  <2>2. n + i \in 1 .. use BY <1>1
  <2> QED BY <1>3, <1>4, <2>2
<1> QED BY <1>2, <1>5, <1>6, <1>7 DEF s, use, g

(* The cells of a copy to the rear continue the contents and are different.  *)
LEMMA CellsBehind ==
  ASSUME NEW f \in 0 .. Size - 1, NEW r \in 0 .. Size - 1,
         NEW n \in Nat, n <= GetFreeSize(f, r),
         NEW direct \in Nat, Splits(r, n, direct)
  PROVE  /\ \A i \in 1 .. n :
              /\ GetUseSize(f, r) + i - 1 \in 0 .. Size - 1
              /\ Cell(r, direct, i - 1) = Moved(f, GetUseSize(f, r) + i - 1)
              /\ Cell(r, direct, i - 1) \in 0 .. Size - 1
         /\ \A i, j \in 1 .. n : Cell(r, direct, i - 1) = Cell(r, direct, j - 1) => i = j
         /\ \A i \in 1 .. n : \A j \in 1 .. GetUseSize(f, r) :
              Cell(r, direct, i - 1) # Moved(f, j - 1)
<1> DEFINE use == GetUseSize(f, r)
<1>1. use \in 0 .. Size - 1 /\ use + n <= Size - 1 BY Sizes, SizeAssumption
<1>2. ASSUME NEW i \in 1 .. n
      PROVE  /\ use + i - 1 \in 0 .. Size - 1
             /\ Cell(r, direct, i - 1) = Moved(f, use + i - 1)
             /\ Cell(r, direct, i - 1) \in 0 .. Size - 1
  <2>1. i - 1 \in Nat /\ i - 1 <= GetFreeSize(f, r) /\ i - 1 \in 0 .. n - 1
    BY Sizes, SizeAssumption
  <2>2. Cell(r, direct, i - 1) = Moved(r, i - 1) BY <2>1, CellMoved DEF Splits
  <2>3. Moved(r, i - 1) = Moved(f, use + (i - 1)) BY <2>1, BehindContents
  <2>4. use + (i - 1) = use + i - 1 /\ use + i - 1 \in 0 .. Size - 1 BY <1>1, SizeAssumption
  <2>5. Moved(f, use + i - 1) \in 0 .. Size - 1 BY <2>4, MovedIn
  <2> QED BY <2>2, <2>3, <2>4, <2>5
<1> HIDE DEF use
<1>3. ASSUME NEW i \in 1 .. n, NEW j \in 1 .. n, Cell(r, direct, i - 1) = Cell(r, direct, j - 1)
      PROVE  i = j
  <2>1. use + i - 1 = use + j - 1 BY <1>2, <1>3, MovedApart
  <2> QED BY <1>1, <2>1
<1>4. ASSUME NEW i \in 1 .. n, NEW j \in 1 .. use, Cell(r, direct, i - 1) = Moved(f, j - 1)
      PROVE  FALSE
  <2>1. j - 1 \in 0 .. Size - 1 BY <1>1, SizeAssumption
  <2>2. use + i - 1 = j - 1 BY <1>2, <1>4, <2>1, MovedApart
  <2> QED BY <1>1, <2>2
<1> QED BY <1>2, <1>3, <1>4 DEF use

(* What a copy leaves in the cells.                                          *)
CopiedIn(new, buf, r, direct, bytes, n) ==
  /\ \A i \in 1 .. n : new[Cell(r, direct, i - 1)] = bytes[i]
  /\ \A c \in 0 .. Size - 1 : (\A i \in 1 .. n : Cell(r, direct, i - 1) # c) => new[c] = buf[c]

(* Bytes written from the rear on, and the rear moved on, are added.         *)
LEMMA HeldAdded ==
  ASSUME NEW C, NEW buf \in [0 .. Size - 1 -> C], NEW new \in [0 .. Size - 1 -> C],
         NEW f \in 0 .. Size - 1, NEW r \in 0 .. Size - 1,
         NEW bytes \in Seq(C), NEW n \in Nat, n <= Len(bytes), n <= GetFreeSize(f, r),
         NEW direct \in Nat, Splits(r, n, direct),
         CopiedIn(new, buf, r, direct, bytes, n)
  PROVE  /\ Moved(r, n) \in 0 .. Size - 1
         /\ GetUseSize(f, Moved(r, n)) = GetUseSize(f, r) + n
         /\ Held(new, f, Moved(r, n)) = Held(buf, f, r) \o SubSeq(bytes, 1, n)
<1> DEFINE s == Held(buf, f, r)
           use == GetUseSize(f, r)
           r2 == Moved(r, n)
           t == SubSeq(bytes, 1, n)
           h == Held(new, f, r2)
<1>1. s \in Seq(C) /\ Len(s) = use /\ use \in 0 .. Size - 1 BY HeldSeq
<1>2. r2 \in 0 .. Size - 1 /\ GetUseSize(f, r2) = use + n BY MovedSizes
<1>3. /\ \A i \in 1 .. n : new[Moved(f, use + i - 1)] = bytes[i]
      /\ \A j \in 1 .. use : new[Moved(f, j - 1)] = buf[Moved(f, j - 1)]
  <2>1. \A j \in 1 .. use : Moved(f, j - 1) \in 0 .. Size - 1
    <3>1. SUFFICES ASSUME NEW j \in 1 .. use PROVE Moved(f, j - 1) \in 0 .. Size - 1
      OBVIOUS
    <3>2. j - 1 \in 0 .. Size - 1 BY <1>1, SizeAssumption
    <3> QED BY <3>2, MovedIn
  <2> HIDE DEF use
  <2> QED BY <2>1, CellsBehind DEF CopiedIn, use
<1>4. \A i \in 1 .. n : bytes[i] \in C BY ElementOfSeq, LenProperties
<1>5. t \in Seq(C) /\ Len(t) = n /\ \A i \in 1 .. n : t[i] = bytes[i]
  <2>1. \A i \in 1 .. n : 1 + i - 1 = i OBVIOUS
  <2> QED BY <1>4, <2>1, SubSeqProperties
<1>6. h \in Seq(C) /\ Len(h) = use + n BY <1>2, HeldSeq
<1>7. \A i \in 1 .. use + n : h[i] = new[Moved(f, i - 1)] BY <1>2 DEF Held
<1>8. \A i \in 1 .. use : s[i] = buf[Moved(f, i - 1)] BY DEF Held
<1> HIDE DEF s, use, r2, t, h
<1>9. s \o t \in Seq(C) /\ Len(s \o t) = use + n
      /\ \A i \in 1 .. use + n : (s \o t)[i] = IF i <= use THEN s[i] ELSE t[i - use]
  BY <1>1, <1>5, ConcatProperties
<1>10. \A i \in 1 .. use + n : h[i] = (s \o t)[i]
  <2>1. SUFFICES ASSUME NEW i \in 1 .. use + n PROVE h[i] = (s \o t)[i] OBVIOUS
  <2>2. CASE i <= use
    <3>1. i \in 1 .. use BY <1>1, <2>2
    <3> QED BY <1>3, <1>7, <1>8, <1>9, <2>2, <3>1
  <2>3. CASE i > use
    <3> DEFINE j == i - use
    <3>1. j \in 1 .. n /\ use + j - 1 = i - 1 /\ ~(i <= use) BY <1>1, <2>3
    <3>2. h[i] = new[Moved(f, i - 1)] BY <1>7
    <3>3. new[Moved(f, use + j - 1)] = bytes[j] BY <1>3, <3>1
    <3>4. (s \o t)[i] = t[j] BY <1>9, <3>1
    <3> QED BY <1>5, <3>1, <3>2, <3>3, <3>4
  <2>4. i <= use \/ i > use BY <1>1, SizeAssumption
  <2> QED BY <2>2, <2>3, <2>4
<1>11. h = s \o t BY <1>6, <1>9, <1>10, SeqEqual
<1> QED BY <1>2, <1>11 DEF s, t, h, use, r2

(* What it means to be a prefix. *)
LEMMA PrefixMeans ==
  ASSUME NEW C, NEW s \in Seq(C), NEW t \in Seq(C)
  PROVE  IsPrefix(s, t) <=> /\ Len(s) <= Len(t)
                            /\ \A i \in 1 .. Len(s) : s[i] = t[i]
<1> DEFINE n == Len(s)
           m == Len(t)
           ss == SubSeq(s, 1, n)
           tt == SubSeq(t, 1, n)
<1>1. n \in Nat /\ m \in Nat BY LenProperties
<1>2. ss = s BY SubSeqFull
<1>3. SUFFICES ASSUME n <= m PROVE ss = tt <=> \A i \in 1 .. n : s[i] = t[i]
  BY <1>1, <1>2 DEF IsPrefix
<1>4. tt \in Seq(C) /\ Len(tt) = n /\ \A i \in 1 .. n : tt[i] = t[i]
  <2>1. \A i \in 1 .. n : t[i] \in C BY <1>1, <1>3, ElementOfSeq
  <2>2. \A i \in 1 .. n : 1 + i - 1 = i BY <1>1
  <2>3. n - 1 + 1 = n /\ (~(1 <= n) => n = 0) BY <1>1
  <2> HIDE DEF n, m
  <2> QED BY <1>1, <2>1, <2>2, <2>3, SubSeqProperties
<1> HIDE DEF ss, tt, m
<1>5. ASSUME \A i \in 1 .. n : s[i] = t[i] PROVE s = tt
  BY <1>4, <1>5, SeqEqual
<1> QED BY <1>2, <1>4, <1>5

(* A sequence cut in two.                                                    *)
LEMMA CutInTwo ==
  ASSUME NEW C, NEW w \in Seq(C), NEW n \in 0 .. Len(w)
  PROVE  /\ SubSeq(w, 1, n) \in Seq(C) /\ Len(SubSeq(w, 1, n)) = n
         /\ SubSeq(w, n + 1, Len(w)) \in Seq(C)
         /\ Len(SubSeq(w, n + 1, Len(w))) = Len(w) - n
         /\ SubSeq(w, 1, n) \o SubSeq(w, n + 1, Len(w)) = w
<1> DEFINE x == SubSeq(w, 1, n)
           y == SubSeq(w, n + 1, Len(w))
<1>1. Len(w) \in Nat /\ \A i \in 1 .. Len(w) : w[i] \in C BY LenProperties, ElementOfSeq
<1>2. x \in Seq(C) /\ y \in Seq(C) /\ Len(x) = n /\ Len(y) = Len(w) - n
  <2>1. \A i \in 1 .. n : w[i] \in C BY <1>1
  <2>2. \A i \in n + 1 .. Len(w) : w[i] \in C BY <1>1
  <2>3. n \in Nat /\ (1 <= n => n - 1 + 1 = n) /\ (~(1 <= n) => n = 0)
        /\ (n + 1 <= Len(w) => Len(w) - (n + 1) + 1 = Len(w) - n)
        /\ (~(n + 1 <= Len(w)) => Len(w) - n = 0)
    BY <1>1
  <2>4. x \in Seq(C) /\ Len(x) = n BY <2>1, <2>3, SubSeqProperties
  <2>5. y \in Seq(C) /\ Len(y) = IF n + 1 <= Len(w) THEN Len(w) - (n + 1) + 1 ELSE 0
    BY <1>1, <2>2, <2>3, SubSeqProperties
  <2> QED BY <2>3, <2>4, <2>5
<1>3. x \o y = w
  <2>1. 1 \in 1 .. Len(w) + 1 /\ n \in 1 - 1 .. Len(w) /\ Len(w) \in n .. Len(w) BY <1>1
  <2>2. x \o y = SubSeq(w, 1, Len(w)) BY <2>1, ConcatAdjacentSubSeq
  <2> QED BY <2>2, SubSeqFull
<1> QED BY <1>2, <1>3

(* The bytes b at one end of a stream and w at the other: they are how the   *)
(* stream s begins, and all of it if nothing was lost.                       *)
Follows(b, w, s, whole) == IsPrefix(b \o w, s) /\ (whole => b \o w = s)

(* The bytes taken from one end of a stream are put to the other.            *)
LEMMA FollowsMoves ==
  ASSUME NEW C, NEW b \in Seq(C), NEW w \in Seq(C), NEW n \in 0 .. Len(w),
         NEW s, NEW whole, Follows(b, w, s, whole)
  PROVE  /\ SubSeq(w, 1, n) \in Seq(C) /\ Len(SubSeq(w, 1, n)) = n
         /\ SubSeq(w, n + 1, Len(w)) \in Seq(C)
         /\ Follows(b \o SubSeq(w, 1, n), SubSeq(w, n + 1, Len(w)), s, whole)
<1> DEFINE x == SubSeq(w, 1, n)
           y == SubSeq(w, n + 1, Len(w))
<1>1. x \in Seq(C) /\ y \in Seq(C) /\ Len(x) = n /\ x \o y = w BY CutInTwo
<1> HIDE DEF x, y
<1>2. x \in Seq(C) BY <1>1
<1>3. (b \o x) \o y = b \o (x \o y)
  <2>1. y \in Seq(C) BY <1>1
  <2> QED BY ONLY <1>2, <2>1, b \in Seq(C), ConcatAssociative, SMTT(30)
<1>4. (b \o x) \o y = b \o w BY <1>1, <1>3
<1>5. Follows(b \o x, y, s, whole) BY <1>4 DEF Follows
<1> QED BY <1>1, <1>5 DEF x, y

(* A stream that begins with f: its part of the length of f is f, and the    *)
(* rest is what follows.                                                     *)
LEMMA FollowsCut ==
  ASSUME NEW C, NEW b \in Seq(C), NEW w \in Seq(C), NEW f \in Seq(C), NEW r \in Seq(C),
         NEW whole, Follows(b, w, f \o r, whole), Len(f) <= Len(b)
  PROVE  /\ SubSeq(b, 1, Len(f)) = f
         /\ Follows(SubSeq(b, Len(f) + 1, Len(b)), w, r, whole)
<1> DEFINE n == Len(f)
           x == SubSeq(b, 1, n)
           y == SubSeq(b, n + 1, Len(b))
<1>1. n \in Nat /\ Len(b) \in Nat /\ Len(w) \in Nat /\ Len(r) \in Nat BY LenProperties
<1>2. /\ x \in Seq(C) /\ y \in Seq(C) /\ Len(x) = n /\ Len(y) = Len(b) - n
      /\ x \o y = b
  <2>1. n \in 0 .. Len(b) BY <1>1
  <2> HIDE DEF n
  <2> QED BY <2>1, CutInTwo
<1>3. /\ b \o w \in Seq(C) /\ Len(b \o w) = Len(b) + Len(w)
      /\ \A i \in 1 .. Len(b) + Len(w) : (b \o w)[i] = IF i <= Len(b) THEN b[i] ELSE w[i - Len(b)]
  BY ConcatProperties
<1>31. /\ f \o r \in Seq(C) /\ Len(f \o r) = n + Len(r)
       /\ \A i \in 1 .. n + Len(r) : (f \o r)[i] = IF i <= n THEN f[i] ELSE r[i - n]
  BY ConcatProperties
<1>4. Len(b) + Len(w) <= n + Len(r) /\ \A i \in 1 .. Len(b) + Len(w) : (b \o w)[i] = (f \o r)[i]
  <2>1. IsPrefix(b \o w, f \o r) <=> /\ Len(b \o w) <= Len(f \o r)
                                     /\ \A i \in 1 .. Len(b \o w) : (b \o w)[i] = (f \o r)[i]
    BY <1>3, <1>31, PrefixMeans, Zenon
  <2>2. IsPrefix(b \o w, f \o r) BY DEF Follows
  <2> QED BY <1>3, <1>31, <2>1, <2>2
<1> HIDE DEF n
<1>5. x = f
  <2>1. \A i \in 1 .. n : x[i] = b[i]
    <3>1. \A i \in 1 .. n : b[i] \in C /\ 1 + i - 1 = i BY <1>1, ElementOfSeq DEF n
    <3> QED BY <1>1, <3>1, SubSeqProperties
  <2>2. \A i \in 1 .. n : b[i] = f[i] BY <1>1, <1>3, <1>31, <1>4 DEF n
  <2> HIDE DEF x
  <2> QED BY <1>2, <2>1, <2>2, SeqEqual DEF n
<1> HIDE DEF x, y
<1>6. y \o w \in Seq(C) /\ Len(y \o w) = Len(b) - n + Len(w)
  <2>1. y \o w \in Seq(C) /\ Len(y \o w) = Len(y) + Len(w) BY <1>2, ConcatProperties
  <2> QED BY <1>2, <2>1
<1>7. f \o (y \o w) = b \o w
  <2>1. (f \o y) \o w = f \o (y \o w)
    <3>1. y \in Seq(C) BY <1>2
    <3> QED BY ONLY <3>1, f \in Seq(C), w \in Seq(C), ConcatAssociative, SMTT(30)
  <2> QED BY <1>2, <1>5, <2>1
<1>8. IsPrefix(y \o w, r)
  <2> DEFINE z == y \o w
  <2>1. \A i \in 1 .. n + Len(z) : (f \o z)[i] = IF i <= n THEN f[i] ELSE z[i - n]
    BY <1>6, ConcatProperties DEF n
  <2>2. z \in Seq(C) /\ Len(z) = Len(b) - n + Len(w) /\ f \o z = b \o w BY <1>6, <1>7
  <2> HIDE DEF z
  <2>3. \A i \in 1 .. Len(z) : z[i] = r[i]
    <3>1. SUFFICES ASSUME NEW i \in 1 .. Len(z) PROVE z[i] = r[i] OBVIOUS
    <3>2. n + i \in 1 .. n + Len(z) /\ ~(n + i <= n) /\ (n + i) - n = i
          /\ n + i \in 1 .. Len(b) + Len(w) /\ n + i \in 1 .. n + Len(r)
      BY <1>1, <1>4, <2>2
    <3>3. (f \o z)[n + i] = z[i] BY <2>1, <3>2
    <3>4. (f \o r)[n + i] = r[i] BY <1>31, <3>2
    <3>5. (b \o w)[n + i] = (f \o r)[n + i] BY <1>4, <3>2
    <3> QED BY <2>2, <3>3, <3>4, <3>5
  <2>4. Len(z) <= Len(r) BY <1>1, <1>4, <2>2
  <2> QED BY <2>2, <2>3, <2>4, PrefixMeans DEF z
<1>9. ASSUME b \o w = f \o r PROVE y \o w = r
  <2>1. f \o (y \o w) = f \o r BY <1>7, <1>9
  <2> QED BY <1>6, <2>1, ConcatSimplifications
<1>10. whole => y \o w = r BY <1>9 DEF Follows
<1>11. Follows(y, w, r, whole) BY <1>8, <1>10 DEF Follows
<1> QED BY <1>5, <1>11 DEF x, y, n

(* The end of the stream is lost.                                            *)
LEMMA FollowsLost ==
  ASSUME NEW C, NEW b \in Seq(C), NEW w \in Seq(C), NEW s \in Seq(C), NEW whole,
         Follows(b, w, s, whole)
  PROVE  Follows(b, w, s, FALSE) /\ Follows(b, <<>>, s, FALSE)
<1>1. IsPrefix(b \o w, s) BY DEF Follows
<1>2. IsPrefix(b, s)
  <2> DEFINE v == b \o w
  <2>1. Len(b) \in Nat /\ Len(w) \in Nat BY LenProperties
  <2>2. /\ v \in Seq(C) /\ Len(v) = Len(b) + Len(w)
        /\ \A i \in 1 .. Len(b) + Len(w) : v[i] = IF i <= Len(b) THEN b[i] ELSE w[i - Len(b)]
    BY ConcatProperties
  <2> HIDE DEF v
  <2>3. Len(v) <= Len(s) /\ \A i \in 1 .. Len(v) : v[i] = s[i]
    BY <1>1, <2>2, PrefixMeans DEF v
  <2>4. Len(b) <= Len(s) /\ \A i \in 1 .. Len(b) : b[i] = s[i]
    BY <2>1, <2>2, <2>3, LenProperties
  <2> QED BY <2>4, PrefixMeans
<1>3. b \o <<>> = b BY ConcatEmptySeq
<1> QED BY <1>1, <1>2, <1>3 DEF Follows

(* More is sent.                                                             *)
LEMMA FollowsMore ==
  ASSUME NEW C, NEW b \in Seq(C), NEW w \in Seq(C), NEW s \in Seq(C), NEW u \in Seq(C),
         NEW whole, Follows(b, w, s, TRUE)
  PROVE  w \o u \in Seq(C) /\ Follows(b, w \o u, s \o u, whole)
<1>1. b \o w = s BY DEF Follows
<1>2. (b \o w) \o u = b \o (w \o u)
  BY ONLY b \in Seq(C), w \in Seq(C), u \in Seq(C), ConcatAssociative, SMTT(30)
<1>3. w \o u \in Seq(C) /\ s \o u \in Seq(C) BY ConcatProperties
<1> DEFINE v == s \o u
           y == b \o (w \o u)
<1>4. y = v BY <1>1, <1>2
<1>5. v \in Seq(C) BY <1>3
<1> HIDE DEF v, y
<1>6. IsPrefix(v, v)
  <2>1. Len(v) <= Len(v) BY <1>5, LenProperties
  <2> QED BY <1>5, <2>1, PrefixMeans
<1>7. IsPrefix(y, v) BY <1>4, <1>6
<1> QED BY <1>3, <1>4, <1>7 DEF Follows, v, y

(* The beginning of the stream is known from the first of the bytes.         *)
LEMMA FollowsFirst ==
  ASSUME NEW C, NEW b \in Seq(C), NEW w \in Seq(C), NEW s \in Seq(C), NEW whole,
         Follows(b, w, s, whole), b # <<>>
  PROVE  s # <<>> /\ b[1] = s[1]
<1>1. IsPrefix(b \o w, s) BY DEF Follows
<1>2. b \o w \in Seq(C) /\ Len(b \o w) = Len(b) + Len(w)
      /\ \A i \in 1 .. Len(b) + Len(w) : (b \o w)[i] = IF i <= Len(b) THEN b[i] ELSE w[i - Len(b)]
  BY ConcatProperties
<1>3. Len(b) >= 1 /\ Len(b) \in Nat /\ Len(w) \in Nat BY EmptySeq, LenProperties
<1> DEFINE v == b \o w
<1> HIDE DEF v
<1>4. v \in Seq(C) /\ Len(v) = Len(b) + Len(w) BY <1>2 DEF v
<1>5. Len(v) <= Len(s) /\ \A i \in 1 .. Len(v) : v[i] = s[i]
  <2>1. IsPrefix(v, s) BY <1>1 DEF v
  <2> QED BY <1>4, <2>1, PrefixMeans
<1>6. v[1] = b[1]
  <2>1. 1 \in 1 .. Len(b) + Len(w) BY <1>3
  <2> QED BY <1>2, <1>3, <2>1 DEF v
<1>7. s # <<>> BY <1>3, <1>4, <1>5
<1>8. 1 \in 1 .. Len(v) BY <1>3, <1>4
<1> QED BY <1>5, <1>6, <1>7, <1>8

CONSTANTS QueueSize, HeaderLen, BodyLen, MaxSent, MaxConn, MaxFail
VARIABLES
  mSocket, mpc, after, scene, mNextScene, mSendFlag, qfree, msg, mRecvBuffer, mPacketQueue,
  srv, sent, wire, conn, fails, handled, behind, faults

(* The network thread of the client, on a ring of the same size.             *)
Net == INSTANCE ClientNetwork WITH RecvSize <- Size

(* What module ClientNetwork assumes of its constants.                       *)
NetAssumption == Net!LenAssumption /\ Net!FitAssumption /\ Net!BoundAssumption

(* A byte of a packet, or of the buffer before anything was written.         *)
NetCell == (Nat \X Nat \X Net!Types \X Nat) \cup {<<>>}

(* A receive buffer on which no call failed.                                 *)
NetRing ==
  [mBuffer : [0 .. Size - 1 -> NetCell], mFront : 0 .. Size - 1, mRear : 0 .. Size - 1,
   mBFail : {{}}]

(* The bytes in the buffer, the messages that left it, the frames to come. *)
NetBytes(b) == Net!Ring!Peek(b, Net!Ring!UseSize(b))

(* The record of a receive buffer, and its sizes as those of the ring.       *)
LEMMA NetRingFields ==
  ASSUME NEW b \in NetRing
  PROVE  \E buf \in [0 .. Size - 1 -> NetCell], f \in 0 .. Size - 1, r \in 0 .. Size - 1 :
           /\ b = [mBuffer |-> buf, mFront |-> f, mRear |-> r, mBFail |-> {}]
           /\ Net!Ring!UseSize(b) = GetUseSize(f, r)
           /\ Net!Ring!DirectUseSize(b) = GetDirectUseSize(f, r)
           /\ Net!Ring!DirectFreeSize(b) = GetDirectFreeSize(f, r)
<1>1. PICK buf \in [0 .. Size - 1 -> NetCell], f \in 0 .. Size - 1, r \in 0 .. Size - 1 :
        b = [mBuffer |-> buf, mFront |-> f, mRear |-> r, mBFail |-> {}]
  BY DEF NetRing
<1>2. b.mFront = f /\ b.mRear = r BY <1>1
<1>3. /\ Net!Ring!UseSize(b) = GetUseSize(f, r)
      /\ Net!Ring!DirectUseSize(b) = GetDirectUseSize(f, r)
      /\ Net!Ring!DirectFreeSize(b) = GetDirectFreeSize(f, r)
  BY <1>2
  DEF Net!Ring!UseSize, Net!Ring!GetUseSize, GetUseSize,
      Net!Ring!DirectUseSize, Net!Ring!GetDirectUseSize, GetDirectUseSize,
      Net!Ring!DirectFreeSize, Net!Ring!GetDirectFreeSize, GetDirectFreeSize
<1> QED BY <1>1, <1>3

(* Peek reads a prefix of the bytes in the buffer.                           *)
LEMMA NetRingBytes ==
  ASSUME NEW b \in NetRing
  PROVE  /\ NetBytes(b) = Held(b.mBuffer, b.mFront, b.mRear)
         /\ NetBytes(b) \in Seq(NetCell)
         /\ Len(NetBytes(b)) = Net!Ring!UseSize(b)
         /\ Net!Ring!UseSize(b) \in 0 .. Size - 1
         /\ \A n \in Nat : n <= Net!Ring!UseSize(b) =>
              Net!Ring!Peek(b, n) = SubSeq(NetBytes(b), 1, n)
<1>1. PICK buf \in [0 .. Size - 1 -> NetCell], f \in 0 .. Size - 1, r \in 0 .. Size - 1 :
           /\ b = [mBuffer |-> buf, mFront |-> f, mRear |-> r, mBFail |-> {}]
           /\ Net!Ring!UseSize(b) = GetUseSize(f, r)
           /\ Net!Ring!DirectUseSize(b) = GetDirectUseSize(f, r)
  BY NetRingFields
<1> DEFINE use == GetUseSize(f, r)
<1>2. b.mBuffer = buf /\ b.mFront = f /\ b.mRear = r BY <1>1
<1>3. Held(buf, f, r) \in Seq(NetCell) /\ Len(Held(buf, f, r)) = use /\ use \in 0 .. Size - 1
  BY HeldSeq
<1>4. ASSUME NEW n \in Nat, n <= use
      PROVE  Net!Ring!Peek(b, n) = SubSeq(Held(buf, f, r), 1, n)
  <2>1. Net!Ring!Peek(b, n) = Net!Ring!Copied(b, n)
    BY <1>1, <1>3, <1>4, SizeAssumption DEF Net!Ring!Peek
  <2>2. Net!Ring!Copied(b, n) = CopiedOut(buf, f, GetDirectUseSize(f, r), n)
    BY <1>1, <1>2 DEF Net!Ring!Copied, Net!Ring!Cell, Cell, CopiedOut
  <2>3. CopiedOut(buf, f, GetDirectUseSize(f, r), n) = SubSeq(Held(buf, f, r), 1, n)
    BY <1>4, HeldRead
  <2> QED BY <2>1, <2>2, <2>3
<1>5. NetBytes(b) = Held(buf, f, r)
  <2>1. use \in Nat /\ use <= use BY <1>3, SizeAssumption
  <2>2. NetBytes(b) = SubSeq(Held(buf, f, r), 1, use) BY <1>1, <1>4, <2>1 DEF NetBytes
  <2> QED BY <1>3, <2>2, SubSeqFull
<1> QED BY <1>1, <1>2, <1>3, <1>4, <1>5

(* Dequeue and MoveFront take the first bytes off the buffer.                *)
LEMMA NetRingDropped ==
  ASSUME NEW b \in NetRing, NEW n \in Nat, n <= Net!Ring!UseSize(b)
  PROVE  /\ Net!Ring!MoveFront(b, n) \in NetRing
         /\ Net!Ring!Dequeue(b, n) = Net!Ring!MoveFront(b, n)
         /\ Net!Ring!UseSize(Net!Ring!MoveFront(b, n)) = Net!Ring!UseSize(b) - n
         /\ NetBytes(Net!Ring!MoveFront(b, n))
              = SubSeq(NetBytes(b), n + 1, Len(NetBytes(b)))
<1>1. PICK buf \in [0 .. Size - 1 -> NetCell], f \in 0 .. Size - 1, r \in 0 .. Size - 1 :
           /\ b = [mBuffer |-> buf, mFront |-> f, mRear |-> r, mBFail |-> {}]
           /\ Net!Ring!UseSize(b) = GetUseSize(f, r)
  BY NetRingFields
<1> DEFINE c == Net!Ring!MoveFront(b, n)
<1>2. c = [mBuffer |-> buf, mFront |-> Moved(f, n), mRear |-> r, mBFail |-> {}]
  BY <1>1 DEF Net!Ring!MoveFront, Net!Ring!Moved, Moved
<1>3. /\ Moved(f, n) \in 0 .. Size - 1
      /\ GetUseSize(Moved(f, n), r) = GetUseSize(f, r) - n
      /\ Held(buf, Moved(f, n), r) = SubSeq(Held(buf, f, r), n + 1, GetUseSize(f, r))
  <2>1. n <= GetUseSize(f, r) BY <1>1
  <2> QED BY <2>1, HeldDropped
<1> HIDE DEF c
<1>4. c \in NetRing BY <1>2, <1>3 DEF NetRing
<1>5. NetBytes(c) = Held(buf, Moved(f, n), r) /\ Len(NetBytes(c)) = Net!Ring!UseSize(c)
  BY <1>2, <1>4, NetRingBytes
<1>6. NetBytes(b) = Held(buf, f, r) /\ Len(NetBytes(b)) = Net!Ring!UseSize(b)
      /\ Net!Ring!UseSize(b) \in 0 .. Size - 1
  BY <1>1, NetRingBytes
<1>7. Net!Ring!UseSize(c) = Net!Ring!UseSize(b) - n
  <2> DEFINE g == Moved(f, n)
  <2>1. g \in 0 .. Size - 1 BY <1>3
  <2> HIDE DEF g
  <2>2. Held(buf, g, r) \in Seq(NetCell) /\ Len(Held(buf, g, r)) = GetUseSize(g, r)
    BY ONLY <2>1, buf \in [0 .. Size - 1 -> NetCell], r \in 0 .. Size - 1, HeldSeq
  <2> QED BY <1>1, <1>3, <1>5, <2>2 DEF g
<1>8. Net!Ring!Dequeue(b, n) = c
  <2>1. ~(Net!Ring!UseSize(b) < n) BY <1>6, SizeAssumption
  <2> QED BY <2>1 DEF Net!Ring!Dequeue, c
<1> QED BY <1>1, <1>3, <1>4, <1>5, <1>6, <1>7, <1>8 DEF c

(* What recv writes up to the end of the buffer is added to its bytes.       *)
LEMMA NetRingWritten ==
  ASSUME NEW b \in NetRing, NEW s \in Seq(NetCell), Len(s) <= Net!Ring!DirectFreeSize(b)
  PROVE  /\ Net!Ring!MoveRear(Net!Ring!Written(b, s), Len(s)) \in NetRing
         /\ NetBytes(Net!Ring!MoveRear(Net!Ring!Written(b, s), Len(s))) = NetBytes(b) \o s
<1>1. PICK buf \in [0 .. Size - 1 -> NetCell], f \in 0 .. Size - 1, r \in 0 .. Size - 1 :
           /\ b = [mBuffer |-> buf, mFront |-> f, mRear |-> r, mBFail |-> {}]
           /\ Net!Ring!DirectFreeSize(b) = GetDirectFreeSize(f, r)
  BY NetRingFields
<1> DEFINE n == Len(s)
           direct == GetDirectFreeSize(f, r)
           new == Net!Ring!Written(b, s).mBuffer
           b2 == Net!Ring!MoveRear(Net!Ring!Written(b, s), n)
<1>2. n \in Nat /\ DOMAIN s = 1 .. n BY LenProperties
<1>3. n <= GetFreeSize(f, r) /\ direct \in Nat /\ Splits(r, n, direct)
  <2>1. direct <= GetFreeSize(f, r) /\ direct \in Nat
    BY SizeAssumption DEF GetFreeSize, GetDirectFreeSize
  <2>2. GetFreeSize(f, r) \in Nat /\ n <= direct BY <1>1, Sizes, SizeAssumption
  <2>3. n <= GetFreeSize(f, r) BY <1>2, <2>1, <2>2
  <2>4. IF n <= direct THEN r + n <= Size ELSE direct = Size - r
    <3> HIDE DEF n
    <3> QED BY <1>2, <2>3, DirectSplit
  <2> QED BY <2>1, <2>3, <2>4 DEF Splits
<1>4. /\ Net!Ring!Written(b, s) = [mBuffer |-> new, mFront |-> f, mRear |-> r, mBFail |-> {}]
      /\ new = [c \in DOMAIN b.mBuffer |->
           IF \E i \in DOMAIN s : Net!Ring!Cell(b.mRear, Net!Ring!DirectFreeSize(b), i - 1) = c
           THEN s[CHOOSE i \in DOMAIN s :
                    Net!Ring!Cell(b.mRear, Net!Ring!DirectFreeSize(b), i - 1) = c]
           ELSE b.mBuffer[c]]
  <2> DEFINE w == [c \in DOMAIN b.mBuffer |->
           IF \E i \in DOMAIN s : Net!Ring!Cell(b.mRear, Net!Ring!DirectFreeSize(b), i - 1) = c
           THEN s[CHOOSE i \in DOMAIN s :
                    Net!Ring!Cell(b.mRear, Net!Ring!DirectFreeSize(b), i - 1) = c]
           ELSE b.mBuffer[c]]
  <2>1. Net!Ring!Written(b, s) = [b EXCEPT !.mBuffer = w] BY DEF Net!Ring!Written
  <2> HIDE DEF w
  <2>2. Net!Ring!Written(b, s) = [mBuffer |-> w, mFront |-> f, mRear |-> r, mBFail |-> {}]
    BY <1>1, <2>1
  <2>3. new = w BY <2>2
  <2> QED BY <2>2, <2>3 DEF w
<1> HIDE DEF new
<1>5. b2 = [mBuffer |-> new, mFront |-> f, mRear |-> Moved(r, n), mBFail |-> {}]
  <2> DEFINE w == Net!Ring!Written(b, s)
  <2>1. w = [mBuffer |-> new, mFront |-> f, mRear |-> r, mBFail |-> {}] BY <1>4
  <2>2. b2 = [w EXCEPT !.mRear = Net!Ring!Moved(@, n)] BY DEF Net!Ring!MoveRear
  <2>3. Net!Ring!Moved(r, n) = Moved(r, n) BY DEF Net!Ring!Moved, Moved
  <2> HIDE DEF w, n
  <2> QED BY <2>1, <2>2, <2>3
<1>6. new \in [0 .. Size - 1 -> NetCell] /\ CopiedIn(new, buf, r, direct, s, n)
  <2> HIDE DEF direct, n
  <2>1. new = [c \in 0 .. Size - 1 |->
                 IF \E i \in 1 .. n : Net!Ring!Cell(b.mRear, Net!Ring!DirectFreeSize(b), i - 1) = c
                 THEN s[CHOOSE i \in 1 .. n :
                          Net!Ring!Cell(b.mRear, Net!Ring!DirectFreeSize(b), i - 1) = c]
                 ELSE buf[c]]
    <3>1. b.mBuffer = buf /\ DOMAIN buf = 0 .. Size - 1 BY <1>1
    <3> QED BY <1>2, <1>4, <3>1
  <2>2. \A i \in 1 .. n : Net!Ring!Cell(b.mRear, Net!Ring!DirectFreeSize(b), i - 1)
                            = Cell(r, direct, i - 1)
    BY <1>1 DEF Net!Ring!Cell, Cell, direct
  <2>3. /\ \A i \in 1 .. n : Cell(r, direct, i - 1) \in 0 .. Size - 1
        /\ \A i, j \in 1 .. n : Cell(r, direct, i - 1) = Cell(r, direct, j - 1) => i = j
    BY <1>2, <1>3, CellsBehind
  <2>4. \A i \in 1 .. n : s[i] \in NetCell BY ElementOfSeq DEF n
  <2>5. \A i \in 1 .. n : new[Cell(r, direct, i - 1)] = s[i]
    <3>1. SUFFICES ASSUME NEW i \in 1 .. n PROVE new[Cell(r, direct, i - 1)] = s[i]
      OBVIOUS
    <3> DEFINE c == Cell(r, direct, i - 1)
    <3>2. (CHOOSE j \in 1 .. n :
             Net!Ring!Cell(b.mRear, Net!Ring!DirectFreeSize(b), j - 1) = c) = i
      BY <2>2, <2>3
    <3>3. \E j \in 1 .. n : Net!Ring!Cell(b.mRear, Net!Ring!DirectFreeSize(b), j - 1) = c
      BY <2>2
    <3>4. c \in 0 .. Size - 1 BY <2>3
    <3> QED BY <2>1, <3>2, <3>3, <3>4
  <2>6. \A c \in 0 .. Size - 1 :
          (\A i \in 1 .. n : Cell(r, direct, i - 1) # c) => new[c] = buf[c]
    BY <2>1, <2>2
  <2>7. \A c \in 0 .. Size - 1 : new[c] \in NetCell
    <3>1. SUFFICES ASSUME NEW c \in 0 .. Size - 1 PROVE new[c] \in NetCell OBVIOUS
    <3>2. CASE \E i \in 1 .. n : Cell(r, direct, i - 1) = c
      BY <2>4, <2>5, <3>2
    <3>3. CASE \A i \in 1 .. n : Cell(r, direct, i - 1) # c BY <2>6, <3>3
    <3> QED BY <3>2, <3>3
  <2>8. new \in [0 .. Size - 1 -> NetCell]
    <3>1. new = [c \in 0 .. Size - 1 |-> new[c]] BY <2>1
    <3> QED BY <2>7, <3>1
  <2> QED BY <2>5, <2>6, <2>8 DEF CopiedIn
<1>7. /\ Moved(r, n) \in 0 .. Size - 1
      /\ Held(new, f, Moved(r, n)) = Held(buf, f, r) \o SubSeq(s, 1, n)
  <2>1. n <= Len(s) BY <1>2
  <2> HIDE DEF n, direct
  <2> QED BY <1>2, <1>3, <1>6, <2>1, HeldAdded
<1> HIDE DEF b2
<1>8. b2 \in NetRing BY <1>5, <1>6, <1>7 DEF NetRing
<1>9. NetBytes(b2) = Held(new, f, Moved(r, n)) BY <1>5, <1>8, NetRingBytes
<1>10. NetBytes(b) = Held(buf, f, r) BY <1>1, NetRingBytes
<1>11. SubSeq(s, 1, n) = s BY SubSeqFull
<1> QED BY <1>7, <1>8, <1>9, <1>10, <1>11 DEF b2

(* A buffer with equal front and rear holds nothing.                         *)
LEMMA NetRingEmpty ==
  ASSUME NEW b \in NetRing
  PROVE  /\ b.mFront = b.mRear => NetBytes(b) = <<>> /\ Net!Ring!UseSize(b) = 0
         /\ Net!Ring!DirectFreeSize(b) = 0 => Net!Ring!UseSize(b) = Size - 1
         /\ Net!Ring!ClearBuffer(b) \in NetRing
         /\ Net!Ring!ClearBuffer(b).mFront = Net!Ring!ClearBuffer(b).mRear
<1>1. PICK buf \in [0 .. Size - 1 -> NetCell], f \in 0 .. Size - 1, r \in 0 .. Size - 1 :
           /\ b = [mBuffer |-> buf, mFront |-> f, mRear |-> r, mBFail |-> {}]
           /\ Net!Ring!UseSize(b) = GetUseSize(f, r)
           /\ Net!Ring!DirectFreeSize(b) = GetDirectFreeSize(f, r)
  BY NetRingFields
<1>2. ASSUME b.mFront = b.mRear PROVE NetBytes(b) = <<>> /\ Net!Ring!UseSize(b) = 0
  <2>1. f = r BY <1>1, <1>2
  <2>2. Net!Ring!UseSize(b) = 0 BY <1>1, <2>1 DEF GetUseSize
  <2>3. NetBytes(b) \in Seq(NetCell) /\ Len(NetBytes(b)) = 0 BY <2>2, NetRingBytes
  <2> QED BY <2>2, <2>3, EmptySeq
<1>3. Net!Ring!DirectFreeSize(b) = 0 => Net!Ring!UseSize(b) = Size - 1
  BY <1>1, SizeAssumption DEF GetUseSize, GetDirectFreeSize
<1>4. Net!Ring!ClearBuffer(b) = [mBuffer |-> buf, mFront |-> 0, mRear |-> 0, mBFail |-> {}]
  <2> SUFFICES ASSUME NEW z
               PROVE [[[b EXCEPT !.mFront = z] EXCEPT !.mRear = z] EXCEPT !.mBFail = {}]
                       = [mBuffer |-> buf, mFront |-> z, mRear |-> z, mBFail |-> {}]
    BY Zenon DEF Net!Ring!ClearBuffer
  <2> DEFINE b1 == [b EXCEPT !.mFront = z]
             b2 == [b1 EXCEPT !.mRear = z]
             b3 == [b2 EXCEPT !.mBFail = {}]
  <2>1. b1 = [b EXCEPT !.mFront = z] OBVIOUS
  <2> HIDE DEF b1
  <2>2. b1 = [mBuffer |-> buf, mFront |-> z, mRear |-> r, mBFail |-> {}] BY <1>1, <2>1
  <2>3. b2 = [b1 EXCEPT !.mRear = z] OBVIOUS
  <2> HIDE DEF b2
  <2>4. b2 = [mBuffer |-> buf, mFront |-> z, mRear |-> z, mBFail |-> {}] BY <2>2, <2>3
  <2>5. b3 = [b2 EXCEPT !.mBFail = {}] OBVIOUS
  <2> HIDE DEF b3
  <2>6. b3 = [mBuffer |-> buf, mFront |-> z, mRear |-> z, mBFail |-> {}] BY <2>4, <2>5
  <2> QED BY <2>6 DEF b1, b2, b3
<1>5. 0 \in 0 .. Size - 1 BY SizeAssumption
<1>6. Net!Ring!ClearBuffer(b) \in NetRing BY <1>4, <1>5 DEF NetRing
<1>7. Net!Ring!ClearBuffer(b).mFront = 0 /\ Net!Ring!ClearBuffer(b).mRear = 0 BY <1>4
<1> QED BY <1>2, <1>3, <1>6, <1>7

-----------------------------------------------------------------------------
(* The network thread of the client: what it knows of the stream. *)

(* The variables of the main thread.                                         *)
NetMainType ==
  /\ mSocket \in {"invalid", "open"}
  /\ mpc \in {"packets", "update", "join", "send", "scene", "crashed"}
  /\ after \in {"packets", "update", "scene", "assert"}
  /\ scene \in {"login", "field"} /\ mNextScene \in BOOLEAN /\ mSendFlag \in BOOLEAN

(* The variables of the network thread, its queue and its buffer.            *)
NetThreadType ==
  /\ rpc \in {"none", "top", "recv", "unmarshal", "frame", "enqueue", "done", "break"}
  /\ qfree \in 0 .. QueueSize /\ msg \in Seq(NetCell)
  /\ mPacketQueue \in Seq(Seq(NetCell)) /\ Len(mPacketQueue) <= QueueSize
  /\ mRecvBuffer \in NetRing

(* The variables of the server and of the connection.                        *)
NetServerType ==
  /\ srv \in {"gone", "unauth", "asked", "refused", "in", "closed"}
  /\ sent \in Seq(Net!Types) /\ Len(sent) <= MaxSent /\ wire \in Seq(NetCell)
  /\ conn \in 0 .. MaxConn /\ fails \in 0 .. MaxFail /\ handled \in 0 .. MaxSent
  /\ behind \in BOOLEAN /\ faults \subseteq {"send"}

NetType == NetMainType /\ NetThreadType /\ NetServerType

(* The messages that left the buffer and were not handled, and how many      *)
(* packets of the connection left it.                                        *)
NetMessages == IF msg = <<>> THEN mPacketQueue ELSE Append(mPacketQueue, msg)
NetTaken    == handled + Len(NetMessages)

(* The bytes of the packets behind the first ones.                           *)
RestFrames(c, from, s) == [i \in 1 .. Len(s) - from |-> Net!Frame(c, from + i, s[from + i])]
NetSent(c, from, s)    == FlattenSeq(RestFrames(c, from, s))

(* While the thread runs: the messages that left the buffer are the first    *)
(* packets, and the buffer and the wire hold those after them, all of them   *)
(* unless the server closed the connection.                                  *)
NetStream ==
  rpc # "none" =>
    /\ NetTaken <= Len(sent)
    /\ \A i \in 1 .. Len(NetMessages) :
         NetMessages[i] = Net!Body(conn, handled + i, sent[handled + i])
    /\ Follows(NetBytes(mRecvBuffer), wire, NetSent(conn, NetTaken, sent),
               srv \notin {"closed", "gone"})

(* A thread that enqueues has room, waits only for bytes that are not there, *)
(* and breaks only behind its queue.                                         *)
NetThread ==
  /\ rpc = "none" => mRecvBuffer.mFront = mRecvBuffer.mRear /\ mPacketQueue = <<>>
  /\ msg = <<>> <=> rpc # "enqueue"
  /\ rpc = "frame" => qfree + Len(mPacketQueue) <= QueueSize
  /\ rpc = "enqueue" => Len(mPacketQueue) < QueueSize
  /\ rpc = "top" /\ ~behind => ~Net!Complete
  /\ rpc = "break" => behind

(* The socket and the thread live and end together.                          *)
NetSocket ==
  /\ mSocket = "open" => rpc # "none" /\ srv # "gone"
  /\ mSocket = "invalid" /\ mpc # "join" => rpc = "none"
  /\ mpc = "join" => mSocket = "invalid"

(* The order of the packets of a connection, and the scene that handles      *)
(* them.                                                                     *)
NetScenes ==
  /\ srv \in {"unauth", "asked"} => sent = <<>>
  /\ srv = "in" => sent # <<>> /\ sent[1] = "AuthRes"
  /\ sent # <<>> => sent[1] \in {"AuthRes", "AuthFail"}
  /\ sent # <<>> /\ sent[1] = "AuthFail" => Len(sent) = 1
  /\ \A i \in 2 .. Len(sent) : sent[i] = "Field"
  /\ mSocket = "open" /\ handled = 0 => scene = "login" /\ ~mNextScene
  /\ mSocket = "open" /\ handled # 0 => sent[1] = "AuthRes" /\ (scene = "field" \/ mNextScene)
  /\ mNextScene => mpc \in {"update", "scene"} /\ scene = "login" /\ mSocket = "open"

NetInv == NetType /\ NetStream /\ NetThread /\ NetSocket /\ NetScenes

(* The header and the payload of a packet.                                   *)
LEMMA NetParts ==
  ASSUME NetAssumption, NEW c \in Nat, NEW n \in Nat, NEW t \in Net!Types
  PROVE  /\ BodyLen[t] \in Nat \ {0}
         /\ Net!Header(c, n, t) \in Seq(NetCell) /\ Len(Net!Header(c, n, t)) = HeaderLen
         /\ Net!Body(c, n, t) \in Seq(NetCell) /\ Len(Net!Body(c, n, t)) = BodyLen[t]
         /\ Net!Body(c, n, t) # <<>> /\ Net!Body(c, n, t)[1][3] = t
         /\ Net!Header(c, n, t)[1][3] = t
<1> DEFINE h == Net!Header(c, n, t)
           b == Net!Body(c, n, t)
           hl == HeaderLen
           bl == BodyLen[t]
<1>1. hl \in Nat \ {0} /\ bl \in Nat \ {0}
  BY DEF NetAssumption, Net!LenAssumption
<1>2. h = [i \in 1 .. hl |-> <<c, n, t, i>>] BY DEF Net!Header
<1>3. b = [i \in 1 .. bl |-> <<c, n, t, hl + i>>] BY DEF Net!Body
<1> HIDE DEF h, b, hl, bl
<1>4. \A i \in Nat : <<c, n, t, i>> \in NetCell BY DEF NetCell
<1>5. h \in Seq(NetCell) /\ Len(h) = hl
  <2>1. h \in [1 .. hl -> NetCell] BY <1>1, <1>2, <1>4
  <2> QED BY <1>1, <2>1
<1>6. b \in Seq(NetCell) /\ Len(b) = bl
  <2>1. \A i \in 1 .. bl : hl + i \in Nat BY <1>1
  <2>2. b \in [1 .. bl -> NetCell] BY <1>1, <1>3, <1>4, <2>1
  <2> QED BY <1>1, <2>2
<1>7. b # <<>> BY <1>1, <1>6, EmptySeq
<1>8. b[1] = <<c, n, t, hl + 1>> /\ h[1] = <<c, n, t, 1>> BY <1>1, <1>2, <1>3
<1>9. b[1][3] = t /\ h[1][3] = t BY <1>8
<1> QED BY <1>1, <1>5, <1>6, <1>7, <1>9 DEF h, b, hl, bl

(* A frame is its header and its payload; its first cell names its type.     *)
LEMMA NetFrames ==
  ASSUME NetAssumption, NEW c \in Nat, NEW n \in Nat, NEW t \in Net!Types
  PROVE  /\ Net!Frame(c, n, t) \in Seq(NetCell)
         /\ Len(Net!Frame(c, n, t)) = HeaderLen + BodyLen[t]
         /\ Net!Frame(c, n, t)[1][3] = t
<1> DEFINE h == Net!Header(c, n, t)
           b == Net!Body(c, n, t)
           hl == HeaderLen
           bl == BodyLen[t]
<1>1. hl \in Nat \ {0} /\ bl \in Nat \ {0}
  BY DEF NetAssumption, Net!LenAssumption
<1>2. h \in Seq(NetCell) BY NetParts
<1>3. Len(h) = hl BY NetParts
<1>4. b \in Seq(NetCell) BY NetParts
<1>5. Len(b) = bl BY NetParts
<1>6. h[1][3] = t BY NetParts
<1> HIDE DEF h, b, hl, bl
<1>7. /\ h \o b \in Seq(NetCell) /\ Len(h \o b) = Len(h) + Len(b)
      /\ \A i \in 1 .. Len(h) + Len(b) : (h \o b)[i] = IF i <= Len(h) THEN h[i] ELSE b[i - Len(h)]
  BY <1>2, <1>4, ConcatProperties
<1>8. 1 \in 1 .. Len(h) + Len(b) /\ 1 <= Len(h) BY <1>1, <1>3, <1>5
<1>9. (h \o b)[1] = h[1] BY <1>7, <1>8
<1>10. Net!Frame(c, n, t) = h \o b BY DEF Net!Frame, h, b
<1>11. Net!Frame(c, n, t) \in Seq(NetCell) BY <1>7, <1>10
<1>12. Len(Net!Frame(c, n, t)) = hl + bl BY <1>3, <1>5, <1>7, <1>10
<1>13. Net!Frame(c, n, t)[1][3] = t BY <1>6, <1>9, <1>10
<1> QED BY <1>11, <1>12, <1>13 DEF hl, bl

(* The frames to come.                                                       *)
LEMMA NetRestSeq ==
  ASSUME NetAssumption, NEW c \in Nat, NEW from \in Nat, NEW s \in Seq(Net!Types),
         from <= Len(s)
  PROVE  /\ RestFrames(c, from, s) \in Seq(Seq(NetCell))
         /\ Len(RestFrames(c, from, s)) = Len(s) - from
         /\ NetSent(c, from, s) \in Seq(NetCell)
<1> DEFINE n == Len(s) - from
           r == RestFrames(c, from, s)
<1>1. Len(s) \in Nat /\ n \in Nat BY LenProperties
<1>2. \A i \in 1 .. n : s[from + i] \in Net!Types
  <2>1. \A i \in 1 .. n : from + i \in 1 .. Len(s) BY <1>1
  <2> QED BY <2>1, ElementOfSeq
<1>3. \A i \in 1 .. n : Net!Frame(c, from + i, s[from + i]) \in Seq(NetCell)
  <2>1. SUFFICES ASSUME NEW i \in 1 .. n
                 PROVE Net!Frame(c, from + i, s[from + i]) \in Seq(NetCell)
    OBVIOUS
  <2>2. from + i \in Nat /\ s[from + i] \in Net!Types BY <1>1, <1>2
  <2> QED BY <2>2, NetFrames
<1>4. r \in [1 .. n -> Seq(NetCell)] BY <1>3 DEF RestFrames
<1> HIDE DEF n, r
<1>5. r \in Seq(Seq(NetCell)) /\ Len(r) = n BY <1>1, <1>4
<1>6. FlattenSeq(r) \in Seq(NetCell)
  <2>1. <<>> \in Seq(NetCell) BY EmptySeq
  <2> QED BY <1>5, <2>1, FlattenAppend
<1> QED BY <1>5, <1>6 DEF n, r, NetSent

(* One more packet sent.                                                     *)
LEMMA NetRestAppend ==
  ASSUME NetAssumption, NEW c \in Nat, NEW from \in Nat, NEW s \in Seq(Net!Types),
         from <= Len(s), NEW t \in Net!Types
  PROVE  NetSent(c, from, Append(s, t)) = NetSent(c, from, s) \o Net!Frame(c, Len(s) + 1, t)
<1> DEFINE n == Len(s) - from
           r == RestFrames(c, from, s)
           s2 == Append(s, t)
           x == Net!Frame(c, Len(s) + 1, t)
           r2 == RestFrames(c, from, s2)
<1>1. Len(s) \in Nat /\ n \in Nat BY LenProperties
<1>2. s2 \in Seq(Net!Types) /\ Len(s2) = Len(s) + 1 /\ s2[Len(s) + 1] = t
      /\ \A i \in 1 .. Len(s) : s2[i] = s[i]
  BY AppendProperties
<1> HIDE DEF s2
<1>3. r \in Seq(Seq(NetCell)) /\ Len(r) = n BY NetRestSeq
<1>4. x \in Seq(NetCell) BY <1>1, NetFrames
<1>5. r2 \in Seq(Seq(NetCell)) /\ Len(r2) = n + 1
  <2>1. from <= Len(s2) /\ Len(s2) - from = n + 1 BY <1>1, <1>2
  <2> QED BY <1>2, <2>1, NetRestSeq
<1>6. \A i \in 1 .. n : r[i] = Net!Frame(c, from + i, s[from + i]) BY DEF RestFrames
<1>7. \A i \in 1 .. n + 1 : r2[i] = Net!Frame(c, from + i, s2[from + i])
  BY <1>1, <1>2 DEF RestFrames
<1> DEFINE a == Append(r, x)
<1>8. a \in Seq(Seq(NetCell)) /\ Len(a) = n + 1 /\ a[n + 1] = x
      /\ \A i \in 1 .. n : a[i] = r[i]
  BY <1>3, <1>4, AppendProperties
<1>9. \A i \in 1 .. n + 1 : r2[i] = a[i]
  <2>1. SUFFICES ASSUME NEW i \in 1 .. n + 1 PROVE r2[i] = a[i] OBVIOUS
  <2>2. CASE i = n + 1
    <3>1. from + i = Len(s) + 1 BY <1>1, <2>2
    <3> QED BY <1>2, <1>7, <1>8, <2>2, <3>1
  <2>3. CASE i # n + 1
    <3>1. i \in 1 .. n /\ from + i \in 1 .. Len(s) BY <1>1, <2>3
    <3> QED BY <1>2, <1>6, <1>7, <1>8, <3>1
  <2> QED BY <2>2, <2>3
<1> HIDE DEF r, r2, x, n, a
<1>10. r2 = a BY <1>5, <1>8, <1>9, SeqEqual
<1>11. FlattenSeq(a) = FlattenSeq(r) \o x BY <1>3, <1>4, FlattenAppend DEF a
<1> QED BY <1>10, <1>11 DEF r, r2, x, s2, NetSent

(* The first of the frames to come.                                          *)
LEMMA NetRestFirst ==
  ASSUME NetAssumption, NEW c \in Nat, NEW from \in Nat, NEW s \in Seq(Net!Types),
         from < Len(s)
  PROVE  NetSent(c, from, s)
           = Net!Frame(c, from + 1, s[from + 1]) \o NetSent(c, from + 1, s)
<1> DEFINE n == Len(s) - from
           r == RestFrames(c, from, s)
           x == Net!Frame(c, from + 1, s[from + 1])
           r2 == RestFrames(c, from + 1, s)
           o == <<x>>
<1>1. Len(s) \in Nat /\ n \in Nat /\ n - 1 \in Nat /\ from + 1 \in Nat /\ from + 1 \in 1 .. Len(s)
      /\ from <= Len(s) /\ from + 1 <= Len(s) /\ Len(s) - (from + 1) = n - 1
  <2>1. Len(s) \in Nat BY LenProperties
  <2> QED BY <2>1
<1>2. r \in Seq(Seq(NetCell)) /\ Len(r) = n
  <2>1. from <= Len(s) BY <1>1
  <2> QED BY <2>1, NetRestSeq
<1>3. r2 \in Seq(Seq(NetCell)) /\ Len(r2) = n - 1
  <2> DEFINE j == from + 1
  <2>1. j \in Nat /\ j <= Len(s) /\ Len(s) - j = n - 1 BY <1>1
  <2> HIDE DEF j, n
  <2>2. /\ RestFrames(c, j, s) \in Seq(Seq(NetCell))
        /\ Len(RestFrames(c, j, s)) = Len(s) - j
    BY <2>1, NetRestSeq
  <2> QED BY <2>1, <2>2 DEF j
<1>4. x \in Seq(NetCell)
  <2>1. s[from + 1] \in Net!Types BY <1>1, ElementOfSeq
  <2> QED BY <1>1, <2>1, NetFrames
<1>5. \A i \in 1 .. n : r[i] = Net!Frame(c, from + i, s[from + i]) BY DEF RestFrames
<1>6. \A i \in 1 .. n - 1 : r2[i] = Net!Frame(c, from + 1 + i, s[from + 1 + i])
  BY <1>1 DEF RestFrames
<1>7. r[1] = x BY <1>1, <1>5
<1> HIDE DEF n, x, r, r2
<1>8. o \in Seq(Seq(NetCell)) /\ Len(o) = 1 /\ o[1] = x BY <1>4
<1> HIDE DEF o
<1>9. o \o r2 \in Seq(Seq(NetCell)) /\ Len(o \o r2) = n
      /\ \A i \in 1 .. n : (o \o r2)[i] = IF i <= 1 THEN o[i] ELSE r2[i - 1]
  <2>1. o \o r2 \in Seq(Seq(NetCell)) /\ Len(o \o r2) = Len(o) + Len(r2)
        /\ \A i \in 1 .. Len(o) + Len(r2) :
             (o \o r2)[i] = IF i <= Len(o) THEN o[i] ELSE r2[i - Len(o)]
    BY <1>3, <1>8, ConcatProperties
  <2>2. Len(o) + Len(r2) = n BY <1>1, <1>3, <1>8
  <2> QED BY <1>8, <2>1, <2>2
<1>10. \A i \in 1 .. n : r[i] = (o \o r2)[i]
  <2>1. SUFFICES ASSUME NEW i \in 1 .. n PROVE r[i] = (o \o r2)[i] OBVIOUS
  <2>2. CASE i = 1
    <3>1. (o \o r2)[i] = o[1]
      <4>1. i <= 1 BY <2>2
      <4> QED BY <1>9, <2>1, <2>2, <4>1
    <3> QED BY <1>7, <1>8, <2>2, <3>1
  <2>3. CASE i # 1
    <3>1. i - 1 \in 1 .. n - 1 /\ ~(i <= 1) /\ from + 1 + (i - 1) = from + i BY <1>1, <2>3
    <3>2. r2[i - 1] = Net!Frame(c, from + 1 + (i - 1), s[from + 1 + (i - 1)]) BY <1>6, <3>1
    <3>3. (o \o r2)[i] = r2[i - 1] BY <1>9, <3>1
    <3>4. r2[i - 1] = Net!Frame(c, from + i, s[from + i]) BY <3>1, <3>2
    <3>5. r[i] = Net!Frame(c, from + i, s[from + i]) BY <1>5
    <3> QED BY <3>3, <3>4, <3>5
  <2> QED BY <2>2, <2>3
<1>11. r = o \o r2 BY <1>2, <1>9, <1>10, SeqEqual
<1>12. FlattenSeq(o \o r2) = FlattenSeq(o) \o FlattenSeq(r2) BY <1>3, <1>8, FlattenConcat
<1>13. FlattenSeq(o) = x BY <1>4, FlattenOne DEF o
<1> QED BY <1>11, <1>12, <1>13 DEF r, r2, x, NetSent

(* Nothing is to come when all packets have left the buffer.                 *)
LEMMA NetRestEmpty ==
  ASSUME NEW c, NEW s \in Seq(Net!Types)
  PROVE  NetSent(c, Len(s), s) = <<>>
<1>1. Len(s) \in Nat BY LenProperties
<1>2. 1 .. Len(s) - Len(s) = {} BY <1>1
<1>3. RestFrames(c, Len(s), s) = <<>> BY <1>2 DEF RestFrames
<1> QED BY <1>3, FlattenEmpty DEF NetSent

(* The counts of a state of the client are numbers.                          *)
LEMMA NetCounts ==
  ASSUME NetAssumption, NetType
  PROVE  /\ conn \in Nat /\ handled \in Nat /\ Len(sent) \in Nat
         /\ MaxSent \in Nat /\ MaxConn \in Nat /\ MaxFail \in Nat /\ QueueSize \in Nat
         /\ NetMessages \in Seq(Seq(NetCell)) /\ Len(NetMessages) \in Nat
         /\ NetTaken \in Nat /\ NetTaken >= handled
         /\ mRecvBuffer \in NetRing /\ NetBytes(mRecvBuffer) \in Seq(NetCell)
         /\ wire \in Seq(NetCell) /\ sent \in Seq(Net!Types)
<1>1. QueueSize \in Nat /\ MaxSent \in Nat /\ MaxConn \in Nat /\ MaxFail \in Nat
  BY DEF NetAssumption, Net!BoundAssumption
<1>2. /\ sent \in Seq(Net!Types) /\ wire \in Seq(NetCell)
      /\ handled \in 0 .. MaxSent /\ conn \in 0 .. MaxConn
  BY DEF NetType, NetServerType
<1>3. Len(sent) \in Nat BY <1>2, LenProperties
<1>4. /\ mPacketQueue \in Seq(Seq(NetCell)) /\ msg \in Seq(NetCell)
      /\ mRecvBuffer \in NetRing
  BY DEF NetType, NetThreadType
<1>5. NetMessages \in Seq(Seq(NetCell)) BY <1>4, AppendProperties DEF NetMessages
<1>6. Len(NetMessages) \in Nat BY <1>5, LenProperties
<1>7. NetTaken \in Nat /\ NetTaken >= handled BY <1>1, <1>2, <1>6 DEF NetTaken
<1>8. NetBytes(mRecvBuffer) \in Seq(NetCell) BY <1>4, NetRingBytes
<1> QED BY <1>1, <1>2, <1>3, <1>4, <1>5, <1>6, <1>7, <1>8

(* The header at the front of the buffer is the one of the next packet.      *)
LEMMA HeaderKnown ==
  ASSUME NetAssumption, NetType, NetStream, rpc # "none",
         HeaderLen <= Net!Ring!UseSize(mRecvBuffer)
  PROVE  /\ NetTaken < Len(sent) /\ sent[NetTaken + 1] \in Net!Types
         /\ Net!HeaderType = sent[NetTaken + 1]
<1> DEFINE b == NetBytes(mRecvBuffer)
           u == Net!Ring!UseSize(mRecvBuffer)
           k == NetTaken
           all == NetSent(conn, k, sent)
           whole == srv \notin {"closed", "gone"}
           n == HeaderLen
<1>1. PICK c \in Nat : c = conn BY NetCounts
<1>2. /\ k \in Nat /\ Len(sent) \in Nat /\ mRecvBuffer \in NetRing
      /\ b \in Seq(NetCell) /\ wire \in Seq(NetCell) /\ sent \in Seq(Net!Types)
  BY NetCounts
<1>3. k <= Len(sent) /\ Follows(b, wire, all, whole) BY DEF NetStream
<1>4. n \in Nat \ {0} /\ n <= u BY DEF NetAssumption, Net!LenAssumption
<1>5. Len(b) = u /\ u \in Nat /\ Net!Ring!Peek(mRecvBuffer, n) = SubSeq(b, 1, n)
  <2>1. Len(b) = u /\ u \in 0 .. Size - 1
        /\ \A m \in Nat : m <= u => Net!Ring!Peek(mRecvBuffer, m) = SubSeq(b, 1, m)
    BY <1>2, NetRingBytes
  <2> QED BY <1>4, <2>1, SizeAssumption
<1> HIDE DEF b, u, k, all, whole, n
<1>6. all \in Seq(NetCell)
  <2>1. NetSent(c, k, sent) \in Seq(NetCell) BY <1>2, <1>3, NetRestSeq
  <2> QED BY <1>1, <2>1 DEF all
<1>7. b # <<>> BY <1>4, <1>5
<1>8. all # <<>> /\ b[1] = all[1] BY <1>2, <1>3, <1>6, <1>7, FollowsFirst
<1>9. k # Len(sent)
  <2>1. SUFFICES ASSUME k = Len(sent) PROVE FALSE OBVIOUS
  <2>2. all = <<>> BY <1>2, <2>1, NetRestEmpty DEF all
  <2> QED BY <1>8, <2>2
<1> DEFINE j == k + 1
           t == sent[j]
           fr == Net!Frame(c, j, t)
           rest == NetSent(c, j, sent)
<1>10. k < Len(sent) /\ j \in 1 .. Len(sent) /\ j <= Len(sent) BY <1>2, <1>3, <1>9
<1>11. j \in Nat BY <1>2
<1>12. all = fr \o rest BY <1>1, <1>2, <1>10, NetRestFirst DEF all
<1> HIDE DEF j
<1>13. t \in Net!Types BY <1>2, <1>10, ElementOfSeq
<1>14. rest \in Seq(NetCell) BY <1>2, <1>10, <1>11, NetRestSeq
<1> HIDE DEF t
<1>15. fr \in Seq(NetCell) /\ fr[1][3] = t /\ Len(fr) >= 1
  <2>1. fr \in Seq(NetCell) BY <1>11, <1>13, NetFrames
  <2>2. fr[1][3] = t BY <1>11, <1>13, NetFrames
  <2>3. Len(fr) = HeaderLen + BodyLen[t] BY <1>11, <1>13, NetFrames
  <2>4. BodyLen[t] \in Nat BY <1>13 DEF NetAssumption, Net!LenAssumption
  <2> QED BY <1>4, <2>1, <2>2, <2>3, <2>4 DEF n
<1> HIDE DEF fr, rest
<1>16. (fr \o rest)[1] = fr[1]
  <2>1. \A i \in 1 .. Len(fr) + Len(rest) :
          (fr \o rest)[i] = IF i <= Len(fr) THEN fr[i] ELSE rest[i - Len(fr)]
    BY <1>14, <1>15, ConcatProperties
  <2>2. 1 \in 1 .. Len(fr) + Len(rest) BY <1>14, <1>15, LenProperties
  <2> QED BY <1>15, <2>1, <2>2
<1>17. SubSeq(b, 1, n)[1] = b[1]
  <2> DEFINE x == SubSeq(b, 1, n)
             y == SubSeq(b, n + 1, Len(b))
  <2>1. n \in 0 .. Len(b) BY <1>4, <1>5
  <2>2. x \in Seq(NetCell) /\ Len(x) = n /\ y \in Seq(NetCell) /\ x \o y = b
    BY <1>2, <2>1, CutInTwo
  <2> HIDE DEF x, y
  <2>3. \A i \in 1 .. Len(x) + Len(y) : (x \o y)[i] = IF i <= Len(x) THEN x[i] ELSE y[i - Len(x)]
    BY <2>2, ConcatProperties
  <2>4. 1 <= Len(x) /\ 1 \in 1 .. Len(x) + Len(y) BY <1>4, <2>2, LenProperties
  <2>5. x[1] = b[1] BY <2>2, <2>3, <2>4
  <2> QED BY <2>5 DEF x
<1>18. Net!HeaderType = t
  <2>1. Net!HeaderType = SubSeq(b, 1, n)[1][3] BY <1>5 DEF Net!HeaderType, n
  <2>2. SubSeq(b, 1, n)[1] = fr[1] BY <1>8, <1>12, <1>16, <1>17
  <2> QED BY <1>15, <2>1, <2>2
<1> QED BY <1>10, <1>13, <1>18 DEF k, j, t

(* The full buffer holds a whole frame.                                      *)
LEMMA FullIsComplete ==
  ASSUME NetAssumption, NetType, NetStream, rpc # "none",
         Net!Ring!DirectFreeSize(mRecvBuffer) = 0
  PROVE  Net!Complete
<1>1. mRecvBuffer \in NetRing BY NetCounts
<1>2. Net!Ring!UseSize(mRecvBuffer) = Size - 1 BY <1>1, NetRingEmpty
<1>3. \A t \in Net!Types : HeaderLen + BodyLen[t] < Size /\ BodyLen[t] \in Nat
  BY DEF NetAssumption, Net!FitAssumption, Net!LenAssumption
<1>4. HeaderLen \in Nat BY DEF NetAssumption, Net!LenAssumption
<1>5. HeaderLen <= Net!Ring!UseSize(mRecvBuffer)
  <2>1. "Field" \in Net!Types BY DEF NetAssumption, Net!LenAssumption
  <2> QED BY <1>2, <1>3, <1>4, <2>1, SizeAssumption
<1>6. Net!HeaderType \in Net!Types BY <1>5, HeaderKnown
<1>7. HeaderLen + BodyLen[Net!HeaderType] <= Net!Ring!UseSize(mRecvBuffer)
  BY <1>2, <1>3, <1>4, <1>6, SizeAssumption
<1> QED BY <1>5, <1>7 DEF Net!Complete

(* The type of a message is read off its body.                               *)
LEMMA BodyTells ==
  ASSUME NetAssumption, NEW c \in Nat, NEW n \in Nat, NEW t \in Net!Types
  PROVE  Net!Body(c, n, t)[1][3] = t
BY NetParts

(* A packet taken off the queue is the next one, and the scene is for it.    *)
LEMMA PopKnown ==
  ASSUME NetAssumption, NetInv, mpc = "packets", mPacketQueue # <<>>
  PROVE  /\ rpc # "none" /\ mSocket = "open" /\ handled < Len(sent) /\ Len(sent) \in Nat
         /\ handled \in Nat /\ Len(sent) <= MaxSent /\ ~mNextScene
         /\ Net!TypeOf(Head(mPacketQueue)) = sent[handled + 1]
         /\ handled = 0 => scene = "login" /\ sent[1] \in {"AuthRes", "AuthFail"}
         /\ handled # 0 => scene = "field" /\ sent[handled + 1] = "Field"
<1>1. NetType /\ NetStream /\ NetThread /\ NetSocket /\ NetScenes BY DEF NetInv
<1>2. rpc # "none" BY <1>1 DEF NetThread
<1>3. mSocket = "open" BY <1>1, <1>2 DEF NetSocket, NetType, NetMainType
<1>4. /\ handled \in Nat /\ Len(sent) \in Nat /\ conn \in Nat /\ Len(NetMessages) \in Nat
      /\ sent \in Seq(Net!Types)
  BY <1>1, NetCounts
<1>5. mPacketQueue \in Seq(Seq(NetCell)) /\ msg \in Seq(NetCell)
  BY <1>1 DEF NetType, NetThreadType
<1>6. Len(mPacketQueue) \in Nat \ {0} BY <1>5, EmptySeq, LenProperties
<1>7. Len(NetMessages) >= 1 /\ NetMessages[1] = mPacketQueue[1]
  BY <1>5, <1>6, AppendProperties DEF NetMessages
<1>8. 1 \in 1 .. Len(NetMessages) /\ handled + 1 \in 1 .. Len(sent) /\ handled < Len(sent)
  BY <1>1, <1>2, <1>4, <1>7 DEF NetStream, NetTaken
<1> DEFINE n == handled + 1
           t == sent[n]
<1>9. mPacketQueue[1] = Net!Body(conn, n, t) BY <1>1, <1>2, <1>7, <1>8 DEF NetStream
<1>10. t \in Net!Types BY <1>4, <1>8, ElementOfSeq
<1>16. n \in Nat BY <1>4
<1> HIDE DEF n, t
<1>11. Net!TypeOf(Head(mPacketQueue)) = t
  <2>1. PICK c \in Nat : c = conn BY <1>4
  <2>2. Net!Body(c, n, t)[1][3] = t BY <1>10, <1>16, BodyTells
  <2>3. Head(mPacketQueue) = mPacketQueue[1] BY <1>5
  <2> QED BY <1>9, <2>1, <2>2, <2>3 DEF Net!TypeOf
<1>12. ~mNextScene BY <1>1 DEF NetScenes
<1>13. handled = 0 => scene = "login" /\ sent[1] \in {"AuthRes", "AuthFail"}
  <2>1. handled = 0 => scene = "login" BY <1>1, <1>3 DEF NetScenes
  <2>2. handled = 0 => sent # <<>> BY <1>4, <1>8
  <2> QED BY <1>1, <2>1, <2>2 DEF NetScenes
<1>14. handled # 0 => scene = "field" /\ sent[handled + 1] = "Field"
  <2>1. handled # 0 => scene = "field" BY <1>1, <1>3, <1>12 DEF NetScenes
  <2>2. handled # 0 => handled + 1 \in 2 .. Len(sent) BY <1>4, <1>8
  <2> QED BY <1>1, <2>1, <2>2 DEF NetScenes
<1>15. Len(sent) <= MaxSent BY <1>1 DEF NetType, NetServerType
<1> QED BY <1>2, <1>3, <1>4, <1>8, <1>11, <1>12, <1>13, <1>14, <1>15 DEF n, t

(* The main thread keeps the types of its variables.                         *)
LEMMA NetMainTypeKept ==
  ASSUME NetType, [Net!Next]_(Net!vars) PROVE NetMainType'
<1> USE DEF NetType, NetMainType, Net!mainVars, Net!RtAssert, Net!Close, Net!Popped
<1>1. CASE Net!Main
  BY <1>1 DEF Net!Main, Net!NoPacket, Net!AuthRes, Net!AuthFail, Net!FieldPacket, Net!Join,
     Net!LoginIdle, Net!ConnectFail, Net!ConnectOk, Net!LoginSend, Net!LoginSendFail,
     Net!FieldUpdate, Net!FieldSendFail, Net!ChangeScene, Net!getNextSceneOrNull, Net!onAuthRes
<1>2. CASE Net!RecvThread
  BY <1>2 DEF Net!RecvThread, Net!RecvTop, Net!Recv, Net!RecvEnd, Net!UnmarshalRead,
     Net!UnmarshalFrame, Net!UnmarshalEnqueue
<1>3. CASE Net!Server
  BY <1>3 DEF Net!Server, Net!Reply, Net!PostField, Net!ServerClose
<1>4. CASE UNCHANGED Net!vars BY <1>4 DEF Net!vars
<1> QED BY <1>1, <1>2, <1>3, <1>4 DEF Net!Next

(* A whole frame in the buffer is the next packet, and the stream goes on    *)
(* behind it.                                                                *)
LEMMA FrameCut ==
  ASSUME NetAssumption, NetType, NetStream, rpc # "none", Net!Complete
  PROVE  /\ NetTaken < Len(sent)
         /\ Net!Payload = Net!Body(conn, NetTaken + 1, sent[NetTaken + 1])
         /\ Net!Payload \in Seq(NetCell) /\ Net!Payload # <<>>
         /\ Net!AfterFrame \in NetRing
         /\ Follows(NetBytes(Net!AfterFrame), wire, NetSent(conn, NetTaken + 1, sent),
                    srv \notin {"closed", "gone"})
<1> DEFINE k == NetTaken
           j == k + 1
           t == sent[j]
           hl == HeaderLen
           bl == BodyLen[t]
           u == Net!Ring!UseSize(mRecvBuffer)
           b0 == NetBytes(mRecvBuffer)
           r1 == Net!Ring!MoveFront(mRecvBuffer, hl)
           b1 == NetBytes(r1)
           r2 == Net!Ring!MoveFront(r1, bl)
           b2 == NetBytes(r2)
           whole == srv \notin {"closed", "gone"}
<1>1. PICK c \in Nat : c = conn BY NetCounts
<1> DEFINE all == NetSent(c, k, sent)
           rest == NetSent(c, j, sent)
           h == Net!Header(c, j, t)
           body == Net!Body(c, j, t)
<1>2. /\ k \in Nat /\ Len(sent) \in Nat /\ mRecvBuffer \in NetRing
      /\ b0 \in Seq(NetCell) /\ wire \in Seq(NetCell) /\ sent \in Seq(Net!Types)
  BY NetCounts
<1>3. hl <= u /\ hl + BodyLen[Net!HeaderType] <= u BY DEF Net!Complete
<1>4. k < Len(sent) /\ Net!HeaderType = t BY <1>3, HeaderKnown
<1>5. t \in Net!Types BY <1>3, HeaderKnown
<1>6. Follows(b0, wire, all, whole) BY <1>1 DEF NetStream
<1>7. j \in Nat BY <1>2
<1>8. j <= Len(sent) BY <1>2, <1>4
<1>9. all = Net!Frame(c, j, t) \o rest BY <1>2, <1>4, NetRestFirst
<1> HIDE DEF j, t
<1>10. rest \in Seq(NetCell) BY <1>2, <1>7, <1>8, NetRestSeq
<1>11. hl \in Nat BY DEF NetAssumption, Net!LenAssumption
<1>12. bl \in Nat BY <1>5, <1>7, NetParts
<1>13. Net!Frame(c, j, t) = h \o body BY DEF Net!Frame
<1>14. h \in Seq(NetCell) /\ Len(h) = hl BY <1>5, <1>7, NetParts
<1>15. body \in Seq(NetCell) /\ Len(body) = bl
  <2>1. body \in Seq(NetCell) BY <1>5, <1>7, NetParts
  <2>2. Len(body) = bl BY <1>5, <1>7, NetParts
  <2> QED BY <2>1, <2>2
<1>16. body # <<>> BY <1>5, <1>7, NetParts
<1>17. r1 \in NetRing /\ Net!Ring!UseSize(r1) = u - hl
       /\ b1 = SubSeq(b0, hl + 1, Len(b0))
  BY <1>2, <1>3, <1>11, NetRingDropped
<1>18. u \in Nat /\ Len(b0) = u
  <2>1. u \in 0 .. Size - 1 /\ Len(b0) = u BY <1>2, NetRingBytes
  <2> QED BY <2>1, SizeAssumption
<1>19. hl + bl <= u BY <1>3, <1>4
<1>20. bl <= Net!Ring!UseSize(r1) BY <1>11, <1>12, <1>17, <1>18, <1>19
<1> HIDE DEF h, body, r1, b0, all, rest, bl, k, hl, whole
<1>21. r2 \in NetRing /\ Net!Ring!Dequeue(r1, bl) = r2 /\ b2 = SubSeq(b1, bl + 1, Len(b1))
  BY <1>12, <1>17, <1>20, NetRingDropped
<1>22. Net!Ring!Peek(r1, bl) = SubSeq(b1, 1, bl) /\ b1 \in Seq(NetCell)
       /\ Len(b1) = Net!Ring!UseSize(r1)
  BY <1>12, <1>17, <1>20, NetRingBytes
<1> HIDE DEF b1, r2, b2, u
<1> DEFINE br == body \o rest
<1>23. br \in Seq(NetCell) BY <1>10, <1>15, ConcatProperties
<1>24. all = h \o br
  <2>1. body \in Seq(NetCell) /\ h \in Seq(NetCell) BY <1>14, <1>15
  <2>2. (h \o body) \o rest = h \o (body \o rest)
    BY ONLY <1>10, <2>1, ConcatAssociative, SMTT(30)
  <2> QED BY <1>9, <1>13, <2>2
<1>25. Len(h) <= Len(b0) BY <1>3, <1>14, <1>18
<1>26. Follows(b1, wire, br, whole)
  <2> HIDE DEF br
  <2>1. Follows(b0, wire, h \o br, whole) BY <1>6, <1>24
  <2>2. Follows(SubSeq(b0, Len(h) + 1, Len(b0)), wire, br, whole)
    BY <1>2, <1>14, <1>23, <1>25, <2>1, FollowsCut
  <2> QED BY <1>14, <1>17, <2>2
<1>27. Len(body) <= Len(b1) BY <1>15, <1>20, <1>22
<1>28. SubSeq(b1, 1, bl) = body /\ Follows(b2, wire, rest, whole)
  <2>1. Follows(b1, wire, body \o rest, whole) BY <1>26
  <2>4. b1 \in Seq(NetCell) BY <1>22
  <2>5. body \in Seq(NetCell) BY <1>15
  <2>2. SubSeq(b1, 1, Len(body)) = body
    BY <1>2, <1>10, <2>4, <2>5, <2>1, <1>27, FollowsCut
  <2>3. Follows(SubSeq(b1, Len(body) + 1, Len(b1)), wire, rest, whole)
    BY <1>2, <1>10, <2>4, <2>5, <2>1, <1>27, FollowsCut
  <2> QED BY <1>15, <1>21, <2>2, <2>3
<1>29. Net!Payload = Net!Ring!Peek(r1, bl) /\ Net!AfterFrame = Net!Ring!Dequeue(r1, bl)
  BY <1>4 DEF Net!Payload, Net!AfterFrame, Net!AfterHeader, r1, bl, hl
<1>30. Net!Payload = body /\ Net!AfterFrame = r2
  BY <1>21, <1>22, <1>28, <1>29
<1>31. NetBytes(Net!AfterFrame) = b2 BY <1>30 DEF b2
<1>32. body = Net!Body(conn, k + 1, sent[k + 1]) BY <1>1 DEF body, j, t
<1>33. Follows(NetBytes(Net!AfterFrame), wire, NetSent(conn, k + 1, sent), whole)
  BY <1>1, <1>28, <1>31 DEF rest, j
<1> QED BY <1>4, <1>15, <1>16, <1>21, <1>30, <1>32, <1>33 DEF k, whole

(* So does recvThread.                                                       *)
LEMMA NetThreadTypeKept ==
  ASSUME NetAssumption, NetInv, [Net!Next]_(Net!vars) PROVE NetThreadType'
<1>1. NetType /\ NetStream /\ NetThread /\ NetSocket BY DEF NetInv
<1>2. NetThreadType BY <1>1 DEF NetType
<1>3. QueueSize \in Nat /\ mPacketQueue \in Seq(Seq(NetCell)) /\ mRecvBuffer \in NetRing
      /\ msg \in Seq(NetCell) /\ wire \in Seq(NetCell)
  BY <1>1, NetCounts DEF NetType, NetThreadType
<1>4. Len(mPacketQueue) \in Nat BY <1>3, LenProperties
<1>5. ASSUME mPacketQueue # <<>>
      PROVE  Tail(mPacketQueue) \in Seq(Seq(NetCell))
             /\ Len(Tail(mPacketQueue)) = Len(mPacketQueue) - 1
  BY <1>3, <1>5, HeadTailProperties
<1> USE DEF Net!recvVars, Net!RtAssert, Net!Close, Net!Popped
<1>6. CASE Net!NoPacket \/ Net!LoginIdle \/ Net!ConnectFail \/ Net!LoginSend
           \/ Net!LoginSendFail \/ Net!FieldUpdate \/ Net!FieldSendFail \/ Net!ChangeScene
  BY <1>2, <1>6 DEF NetThreadType, Net!NoPacket, Net!LoginIdle, Net!ConnectFail, Net!LoginSend,
     Net!LoginSendFail, Net!FieldUpdate, Net!FieldSendFail, Net!ChangeScene
<1>7. CASE Net!AuthRes \/ Net!AuthFail \/ Net!FieldPacket
  <2>1. /\ mPacketQueue # <<>> /\ mPacketQueue' = Tail(mPacketQueue)
        /\ UNCHANGED <<rpc, qfree, msg, mRecvBuffer>>
    BY <1>7 DEF Net!AuthRes, Net!AuthFail, Net!FieldPacket
  <2>2. mPacketQueue' \in Seq(Seq(NetCell)) /\ Len(mPacketQueue') <= QueueSize
    BY <1>2, <1>3, <1>4, <1>5, <2>1 DEF NetThreadType
  <2> QED BY <1>2, <2>1, <2>2 DEF NetThreadType
<1>8. CASE Net!Join
  <2>1. Net!Ring!ClearBuffer(mRecvBuffer) \in NetRing BY <1>3, NetRingEmpty
  <2>2. <<>> \in Seq(Seq(NetCell)) /\ Len(<<>>) = 0 BY EmptySeq
  <2> QED BY <1>2, <1>3, <1>8, <2>1, <2>2 DEF NetThreadType, Net!Join
<1>9. CASE Net!ConnectOk BY <1>2, <1>9 DEF NetThreadType, Net!ConnectOk
<1>10. CASE Net!RecvTop \/ Net!RecvEnd
  BY <1>2, <1>10 DEF NetThreadType, Net!RecvTop, Net!RecvEnd
<1>11. CASE Net!Recv
  <2>1. PICK n \in 1 .. Len(wire) :
          /\ n <= Net!Ring!DirectFreeSize(mRecvBuffer)
          /\ mRecvBuffer'
               = Net!Ring!MoveRear(Net!Ring!Written(mRecvBuffer, SubSeq(wire, 1, n)), n)
    BY <1>11 DEF Net!Recv
  <2> DEFINE x == SubSeq(wire, 1, n)
  <2>2. n \in 0 .. Len(wire) BY <1>3, LenProperties
  <2>3. x \in Seq(NetCell) /\ Len(x) = n BY <1>3, <2>2, CutInTwo
  <2> HIDE DEF x
  <2>4. Len(x) <= Net!Ring!DirectFreeSize(mRecvBuffer) BY <2>1, <2>3
  <2>5. Net!Ring!MoveRear(Net!Ring!Written(mRecvBuffer, x), Len(x)) \in NetRing
    BY <1>3, <2>3, <2>4, NetRingWritten
  <2>6. mRecvBuffer' \in NetRing BY <2>1, <2>3, <2>5 DEF x
  <2> QED BY <1>2, <1>11, <2>6 DEF NetThreadType, Net!Recv
<1>12. CASE Net!UnmarshalRead
  <2>1. QueueSize - Len(mPacketQueue) \in 0 .. QueueSize
    BY <1>2, <1>3, <1>4 DEF NetThreadType
  <2> QED BY <1>2, <1>12, <2>1 DEF NetThreadType, Net!UnmarshalRead
<1>13. CASE Net!UnmarshalFrame
  <2>1. Net!Complete => Net!Payload \in Seq(NetCell) /\ Net!AfterFrame \in NetRing
    <3>1. rpc # "none" BY <1>13 DEF Net!UnmarshalFrame
    <3> QED BY <1>1, <3>1, FrameCut
  <2> QED BY <1>2, <1>13, <2>1 DEF NetThreadType, Net!UnmarshalFrame
<1>14. CASE Net!UnmarshalEnqueue
  <2>1. Net!PutData(<<>>, msg) = msg BY <1>3, ConcatEmptySeq DEF Net!PutData
  <2>2. mPacketQueue' = Append(mPacketQueue, msg) BY <1>14, <2>1 DEF Net!UnmarshalEnqueue
  <2>3. mPacketQueue' \in Seq(Seq(NetCell)) /\ Len(mPacketQueue') = Len(mPacketQueue) + 1
    BY <1>3, <2>2, AppendProperties
  <2>4. Len(mPacketQueue) < QueueSize BY <1>1, <1>14 DEF NetThread, Net!UnmarshalEnqueue
  <2>5. msg' \in Seq(NetCell) BY <1>14, EmptySeq DEF Net!UnmarshalEnqueue
  <2> QED BY <1>2, <1>3, <1>4, <1>14, <2>3, <2>4, <2>5 DEF NetThreadType, Net!UnmarshalEnqueue
<1>15. CASE Net!Server
  BY <1>2, <1>15 DEF NetThreadType, Net!Server, Net!Reply, Net!PostField, Net!ServerClose
<1>16. CASE UNCHANGED Net!vars BY <1>2, <1>16 DEF NetThreadType, Net!vars
<1> QED BY <1>6, <1>7, <1>8, <1>9, <1>10, <1>11, <1>12, <1>13, <1>14, <1>15, <1>16
        DEF Net!Next, Net!Main, Net!RecvThread

(* So does the server, and only a Send after it has closed fails.            *)
LEMMA NetServerTypeKept ==
  ASSUME NetAssumption, NetInv, [Net!Next]_(Net!vars) PROVE NetServerType'
<1>1. NetType /\ NetStream /\ NetThread /\ NetSocket /\ NetScenes BY DEF NetInv
<1>2. NetServerType /\ NetMainType BY <1>1 DEF NetType
<1>3. /\ MaxConn \in Nat /\ MaxSent \in Nat /\ MaxFail \in Nat /\ sent \in Seq(Net!Types)
      /\ conn \in Nat /\ wire \in Seq(NetCell) /\ Len(sent) \in Nat
  BY <1>1, NetCounts
<1>4. <<>> \in Seq(NetCell) /\ <<>> \in Seq(Net!Types) /\ Len(<<>>) = 0 BY EmptySeq
<1>5. CASE Net!NoPacket \/ Net!LoginIdle \/ Net!FieldUpdate \/ Net!ChangeScene
  BY <1>2, <1>5 DEF NetServerType, Net!NoPacket, Net!LoginIdle, Net!FieldUpdate,
     Net!ChangeScene, Net!serverVars, Net!history
<1>14. CASE Net!LoginSend \/ Net!LoginSendFail \/ Net!FieldSendFail
  <2>1. /\ srv' \in {srv, "asked", "gone"} /\ wire' \in {wire, <<>>}
        /\ UNCHANGED <<sent, conn, fails, handled, behind, faults>>
    BY <1>14 DEF Net!LoginSend, Net!LoginSendFail, Net!FieldSendFail, Net!history, Net!Close
  <2>2. wire' \in Seq(NetCell) BY <1>3, <1>4, <2>1
  <2> QED BY <1>2, <2>1, <2>2 DEF NetServerType
<1>15. CASE Net!ConnectFail
  <2>1. fails' \in 0 .. MaxFail /\ UNCHANGED <<srv, sent, wire, conn, handled, behind, faults>>
    BY <1>2, <1>3, <1>15 DEF NetServerType, Net!ConnectFail, Net!history
  <2> QED BY <1>2, <2>1 DEF NetServerType
<1>6. CASE Net!AuthRes \/ Net!AuthFail \/ Net!FieldPacket
  <2>1. mpc = "packets" /\ mPacketQueue # <<>>
    BY <1>6 DEF Net!AuthRes, Net!AuthFail, Net!FieldPacket, Net!Popped
  <2>2. /\ handled < Len(sent) /\ handled \in Nat /\ Len(sent) <= MaxSent
        /\ Net!TypeOf(Head(mPacketQueue)) = sent[handled + 1]
        /\ handled = 0 => scene = "login" /\ sent[1] \in {"AuthRes", "AuthFail"}
        /\ handled # 0 => scene = "field" /\ sent[handled + 1] = "Field"
    BY <2>1, PopKnown
  <2>3. Net!TypeOf(Head(mPacketQueue)) = "Field" => scene = "field" BY <2>2
  <2>4. Net!TypeOf(Head(mPacketQueue)) \in {"AuthRes", "AuthFail"} => scene = "login" BY <2>2
  <2>5. handled + 1 \in 0 .. MaxSent BY <1>3, <2>2
  <2> QED BY <1>2, <1>4, <1>6, <2>3, <2>4, <2>5
      DEF NetServerType, Net!AuthRes, Net!AuthFail, Net!FieldPacket, Net!Popped, Net!Close,
          Net!serverVars, Net!onAuthRes
<1>7. CASE Net!Join
  BY <1>2, <1>7 DEF NetServerType, Net!Join, Net!serverVars, Net!RtAssert
<1>8. CASE Net!ConnectOk
  <2>1. rpc = "none" BY <1>1, <1>8 DEF NetSocket, Net!ConnectOk
  <2>2. conn + 1 \in 0 .. MaxConn BY <1>3, <1>8 DEF Net!ConnectOk
  <2>3. /\ srv' = "unauth" /\ sent' = <<>> /\ wire' = <<>> /\ conn' = conn + 1
        /\ handled' = 0 /\ behind' = FALSE /\ UNCHANGED <<fails, faults>>
    BY <1>8, <2>1 DEF Net!ConnectOk
  <2>4. sent' \in Seq(Net!Types) /\ Len(sent') <= MaxSent /\ wire' \in Seq(NetCell)
    BY <1>3, <1>4, <2>3
  <2>5. conn' \in 0 .. MaxConn /\ handled' \in 0 .. MaxSent BY <1>3, <2>2, <2>3
  <2>6. srv' = "unauth" /\ behind' = FALSE /\ UNCHANGED <<fails, faults>> BY <2>3
  <2> QED BY <1>2, <2>4, <2>5, <2>6 DEF NetServerType
<1>9. CASE Net!RecvTop \/ Net!RecvEnd \/ Net!UnmarshalRead \/ Net!UnmarshalFrame
           \/ Net!UnmarshalEnqueue
  BY <1>2, <1>9 DEF NetServerType, Net!RecvTop, Net!RecvEnd, Net!UnmarshalRead,
     Net!UnmarshalFrame, Net!UnmarshalEnqueue, Net!serverVars, Net!history
<1>10. CASE Net!Recv
  <2>1. PICK n \in 1 .. Len(wire) : wire' = SubSeq(wire, n + 1, Len(wire))
    BY <1>10 DEF Net!Recv
  <2>2. n \in 0 .. Len(wire) BY <1>3, LenProperties
  <2>3. SubSeq(wire, n + 1, Len(wire)) \in Seq(NetCell) BY <1>3, <2>2, CutInTwo
  <2>4. wire' \in Seq(NetCell) BY <2>1, <2>3
  <2>5. UNCHANGED <<srv, sent, conn, fails, handled, behind, faults>>
    BY <1>10 DEF Net!Recv, Net!history
  <2> QED BY <1>2, <2>4, <2>5 DEF NetServerType
<1>11. CASE Net!Reply \/ Net!PostField
  <2>1. PICK t \in {"AuthRes", "AuthFail", "Field"} : Net!Post(t)
    BY <1>11 DEF Net!Reply, Net!PostField
  <2>2. t \in Net!Types BY DEF NetAssumption, Net!LenAssumption
  <2> DEFINE n == Len(sent) + 1
  <2>3. n \in Nat /\ n <= MaxSent BY <1>3, <2>1 DEF Net!Post
  <2>4. Append(sent, t) \in Seq(Net!Types) /\ Len(Append(sent, t)) = n
    BY <1>3, <2>2, AppendProperties
  <2> HIDE DEF n
  <2>5. Net!Frame(conn, n, t) \in Seq(NetCell) BY <1>3, <2>2, <2>3, NetFrames
  <2>6. wire \o Net!Frame(conn, n, t) \in Seq(NetCell) BY <1>3, <2>5, ConcatProperties
  <2>7. sent' = Append(sent, t) /\ wire' = wire \o Net!Frame(conn, n, t)
    BY <2>1 DEF Net!Post, n
  <2>8. sent' \in Seq(Net!Types) /\ Len(sent') <= MaxSent /\ wire' \in Seq(NetCell)
    BY <2>3, <2>4, <2>6, <2>7
  <2> QED BY <1>2, <1>11, <2>8 DEF NetServerType, Net!Reply, Net!PostField, Net!history
<1>12. CASE Net!ServerClose
  BY <1>2, <1>4, <1>12 DEF NetServerType, Net!ServerClose, Net!history
<1>13. CASE UNCHANGED Net!vars
  BY <1>2, <1>13 DEF NetServerType, Net!vars, Net!serverVars, Net!history
<1> QED BY <1>5, <1>6, <1>7, <1>8, <1>9, <1>10, <1>11, <1>12, <1>13, <1>14, <1>15
        DEF Net!Next, Net!Main, Net!RecvThread, Net!Server

(* recvThread goes back to recv with a whole frame only when it is behind.   *)
LEMMA NetThreadKept ==
  ASSUME NetAssumption, NetInv, [Net!Next]_(Net!vars) PROVE NetThread'
<1>1. NetType /\ NetStream /\ NetThread /\ NetSocket BY DEF NetInv
<1>2. NetThreadType BY <1>1 DEF NetType
<1>3. QueueSize \in Nat /\ mPacketQueue \in Seq(Seq(NetCell)) /\ mRecvBuffer \in NetRing
  BY <1>1, NetCounts DEF NetType, NetThreadType
<1>4. Len(mPacketQueue) \in Nat BY <1>3, LenProperties
<1>5. mRecvBuffer' = mRecvBuffer => ((Net!Complete)' <=> Net!Complete)
  BY DEF Net!Complete, Net!HeaderType
<1>6. CASE Net!NoPacket \/ Net!LoginIdle \/ Net!ConnectFail \/ Net!LoginSend
           \/ Net!LoginSendFail \/ Net!FieldUpdate \/ Net!FieldSendFail \/ Net!ChangeScene
           \/ Net!Server \/ UNCHANGED Net!vars
  <2>1. UNCHANGED <<rpc, qfree, msg, mRecvBuffer, mPacketQueue, behind>>
    BY <1>6 DEF Net!NoPacket, Net!LoginIdle, Net!ConnectFail, Net!LoginSend, Net!LoginSendFail,
       Net!FieldUpdate, Net!FieldSendFail, Net!ChangeScene, Net!Server, Net!Reply,
       Net!PostField, Net!ServerClose, Net!recvVars, Net!history, Net!vars
  <2> QED BY <1>1, <1>5, <2>1 DEF NetThread
<1>7. CASE Net!AuthRes \/ Net!AuthFail \/ Net!FieldPacket
  <2>1. /\ mPacketQueue # <<>> /\ mPacketQueue' = Tail(mPacketQueue)
        /\ UNCHANGED <<rpc, qfree, msg, mRecvBuffer, behind>>
    BY <1>7 DEF Net!AuthRes, Net!AuthFail, Net!FieldPacket, Net!Popped, Net!recvVars
  <2>2. Len(mPacketQueue') \in Nat /\ Len(mPacketQueue') < Len(mPacketQueue)
    BY <1>3, <1>4, <2>1, HeadTailProperties
  <2> QED BY <1>1, <1>2, <1>3, <1>4, <1>5, <2>1, <2>2 DEF NetThread, NetThreadType
<1>8. CASE Net!Join
  <2>1. mRecvBuffer'.mFront = mRecvBuffer'.mRear BY <1>3, <1>8, NetRingEmpty DEF Net!Join
  <2>2. rpc = "done" /\ rpc' = "none" /\ msg' = msg /\ mPacketQueue' = <<>>
    BY <1>8 DEF Net!Join
  <2> QED BY <1>1, <2>1, <2>2 DEF NetThread
<1>9. CASE Net!ConnectOk
  <2>1. rpc = "none" BY <1>1, <1>9 DEF NetSocket, Net!ConnectOk
  <2>2. /\ rpc' = "top" /\ UNCHANGED <<msg, mRecvBuffer, mPacketQueue>>
    BY <1>9, <2>1 DEF Net!ConnectOk
  <2>3. ~Net!Complete
    <3>1. mRecvBuffer.mFront = mRecvBuffer.mRear BY <1>1, <2>1 DEF NetThread
    <3>2. Net!Ring!UseSize(mRecvBuffer) = 0 BY <1>3, <3>1, NetRingEmpty
    <3>3. HeaderLen \in Nat \ {0} BY DEF NetAssumption, Net!LenAssumption
    <3> QED BY <3>2, <3>3 DEF Net!Complete
  <2> QED BY <1>1, <1>5, <2>1, <2>2, <2>3 DEF NetThread
<1>10. CASE Net!RecvTop
  <2>1. rpc = "top" /\ rpc' \in {"break", "recv"}
        /\ UNCHANGED <<qfree, msg, mRecvBuffer, mPacketQueue, behind>>
        /\ (rpc' = "break" => Net!Ring!DirectFreeSize(mRecvBuffer) = 0)
    BY <1>10 DEF Net!RecvTop, Net!history
  <2>2. rpc' = "break" => behind
    <3>1. rpc' = "break" => Net!Complete BY <1>1, <2>1, FullIsComplete
    <3> QED BY <1>1, <2>1, <3>1 DEF NetThread
  <2> QED BY <1>1, <2>1, <2>2 DEF NetThread
<1>11. CASE Net!Recv \/ Net!RecvEnd
  <2>1. rpc = "recv" /\ rpc' \in {"unmarshal", "done"} /\ UNCHANGED msg
    BY <1>11 DEF Net!Recv, Net!RecvEnd
  <2> QED BY <1>1, <2>1 DEF NetThread
<1>12. CASE Net!UnmarshalRead
  <2>1. /\ rpc = "unmarshal" /\ rpc' = "frame" /\ UNCHANGED <<msg, mPacketQueue>>
        /\ qfree' = QueueSize - Len(mPacketQueue)
    BY <1>12 DEF Net!UnmarshalRead
  <2>2. qfree' + Len(mPacketQueue') <= QueueSize BY <1>3, <1>4, <2>1
  <2> QED BY <1>1, <2>1, <2>2 DEF NetThread
<1>13. CASE Net!UnmarshalFrame
  <2>1. CASE Net!Complete /\ qfree >= 1
    <3>1. rpc = "frame" /\ rpc' = "enqueue" /\ msg' = Net!Payload /\ UNCHANGED mPacketQueue
      BY <1>13, <2>1 DEF Net!UnmarshalFrame
    <3>2. Net!Payload # <<>> BY <1>1, <2>1, <3>1, FrameCut
    <3>3. qfree + Len(mPacketQueue) <= QueueSize BY <1>1, <3>1 DEF NetThread
    <3>4. qfree \in 0 .. QueueSize BY <1>2 DEF NetThreadType
    <3>5. Len(mPacketQueue') < QueueSize BY <1>3, <1>4, <2>1, <3>1, <3>3, <3>4
    <3> QED BY <3>1, <3>2, <3>5 DEF NetThread
  <2>2. CASE ~(Net!Complete /\ qfree >= 1)
    <3>1. /\ rpc = "frame" /\ rpc' = "top" /\ UNCHANGED <<msg, mRecvBuffer>>
          /\ (~behind' => ~Net!Complete)
      BY <1>13, <2>2 DEF Net!UnmarshalFrame
    <3> QED BY <1>1, <1>5, <3>1 DEF NetThread
  <2> QED BY <2>1, <2>2
<1>14. CASE Net!UnmarshalEnqueue
  <2>1. rpc' = "unmarshal" /\ msg' = <<>> BY <1>14 DEF Net!UnmarshalEnqueue
  <2> QED BY <2>1 DEF NetThread
<1> QED BY <1>6, <1>7, <1>8, <1>9, <1>10, <1>11, <1>12, <1>13, <1>14
        DEF Net!Next, Net!Main, Net!RecvThread

(* The socket and the thread.                                                *)
LEMMA NetSocketKept ==
  ASSUME NetAssumption, NetInv, [Net!Next]_(Net!vars) PROVE NetSocket'
<1>1. NetType /\ NetThread /\ NetSocket BY DEF NetInv
<1>2. NetMainType /\ NetServerType BY <1>1 DEF NetType
<1> USE DEF NetSocket
<1>3. CASE Net!Main
  <2>1. ASSUME Net!AuthRes \/ Net!AuthFail \/ Net!FieldPacket
        PROVE  mSocket = "open" /\ rpc # "none"
               /\ (Net!TypeOf(Head(mPacketQueue)) = "Field" => scene = "field")
               /\ (Net!TypeOf(Head(mPacketQueue)) \in {"AuthRes", "AuthFail"} => scene = "login")
    <3>1. mpc = "packets" /\ mPacketQueue # <<>>
      BY <2>1 DEF Net!AuthRes, Net!AuthFail, Net!FieldPacket, Net!Popped
    <3> QED BY <3>1, PopKnown
  <2>2. CASE Net!AuthRes \/ Net!AuthFail \/ Net!FieldPacket
    BY <1>1, <1>2, <2>1, <2>2
    DEF Net!AuthRes, Net!AuthFail, Net!FieldPacket, Net!Popped, Net!Close,
        Net!serverVars, Net!recvVars
  <2>3. CASE ~(Net!AuthRes \/ Net!AuthFail \/ Net!FieldPacket)
    BY <1>1, <1>2, <1>3, <2>3
    DEF Net!Main, Net!NoPacket, Net!Join, Net!LoginIdle, Net!ConnectFail, Net!ConnectOk,
        Net!LoginSend, Net!LoginSendFail, Net!FieldUpdate, Net!FieldSendFail, Net!ChangeScene,
        Net!RtAssert, Net!Close, Net!serverVars, Net!recvVars, NetMainType, NetServerType
  <2> QED BY <2>2, <2>3
<1>4. CASE Net!RecvThread
  BY <1>1, <1>4 DEF Net!RecvThread, Net!RecvTop, Net!Recv, Net!RecvEnd, Net!UnmarshalRead,
     Net!UnmarshalFrame, Net!UnmarshalEnqueue, Net!mainVars, Net!serverVars
<1>5. CASE Net!Server
  BY <1>1, <1>5 DEF Net!Server, Net!Reply, Net!PostField, Net!ServerClose, Net!mainVars,
     Net!recvVars
<1>6. CASE UNCHANGED Net!vars
  BY <1>1, <1>6 DEF Net!vars, Net!mainVars, Net!serverVars, Net!recvVars
<1> QED BY <1>3, <1>4, <1>5, <1>6 DEF Net!Next

(* The scene the client is in, or is about to be in, goes with what the      *)
(* server has sent and with how much of it was handled.                      *)
LEMMA NetScenesKept ==
  ASSUME NetAssumption, NetInv, [Net!Next]_(Net!vars) PROVE NetScenes'
<1>1. NetType /\ NetStream /\ NetThread /\ NetSocket /\ NetScenes BY DEF NetInv
<1>2. NetMainType /\ NetServerType BY <1>1 DEF NetType
<1>3. sent \in Seq(Net!Types) /\ Len(sent) \in Nat /\ handled \in Nat
  BY <1>1, NetCounts
<1>4. CASE Net!NoPacket \/ Net!LoginIdle \/ Net!ConnectFail \/ Net!LoginSend
           \/ Net!LoginSendFail \/ Net!FieldUpdate \/ Net!FieldSendFail \/ Net!ChangeScene
  <2>1. /\ UNCHANGED <<sent, handled>>
        /\ srv' \in {srv, "gone"} \/ (srv = "unauth" /\ srv' = "asked")
    BY <1>4 DEF Net!NoPacket, Net!LoginIdle, Net!ConnectFail, Net!LoginSend, Net!LoginSendFail,
       Net!FieldUpdate, Net!FieldSendFail, Net!ChangeScene, Net!Close, Net!serverVars,
       Net!history
  <2>2. mSocket' = "open" => mSocket = "open"
    BY <1>2, <1>4
    DEF Net!NoPacket, Net!LoginIdle, Net!ConnectFail, Net!LoginSend, Net!LoginSendFail,
        Net!FieldUpdate, Net!FieldSendFail, Net!ChangeScene, Net!Close
  <2>3. /\ mNextScene' => mpc' \in {"update", "scene"} /\ scene' = "login" /\ mSocket' = "open"
        /\ mSocket' = "open" /\ ~mNextScene => scene' = scene /\ ~mNextScene'
        /\ mSocket' = "open" /\ mNextScene => scene' = "field" \/ mNextScene'
    BY <1>1, <1>2, <1>4
    DEF NetScenes, NetMainType, Net!NoPacket, Net!LoginIdle, Net!ConnectFail, Net!LoginSend,
        Net!LoginSendFail, Net!FieldUpdate, Net!FieldSendFail, Net!ChangeScene, Net!Close,
        Net!getNextSceneOrNull
  <2> QED BY <1>1, <1>2, <2>1, <2>2, <2>3 DEF NetScenes, NetMainType
<1>5. CASE Net!AuthRes \/ Net!AuthFail \/ Net!FieldPacket
  <2>1. mpc = "packets" /\ mPacketQueue # <<>>
    BY <1>5 DEF Net!AuthRes, Net!AuthFail, Net!FieldPacket, Net!Popped
  <2>2. /\ mSocket = "open" /\ handled < Len(sent) /\ handled \in Nat /\ ~mNextScene
        /\ Net!TypeOf(Head(mPacketQueue)) = sent[handled + 1]
        /\ handled = 0 => scene = "login" /\ sent[1] \in {"AuthRes", "AuthFail"}
        /\ handled # 0 => scene = "field" /\ sent[handled + 1] = "Field"
    BY <2>1, PopKnown
  <2>3. sent' = sent /\ handled' = handled + 1 /\ scene' = scene /\ srv' \in {srv, "gone"}
    BY <1>5 DEF Net!AuthRes, Net!AuthFail, Net!FieldPacket, Net!Popped, Net!serverVars,
       Net!Close
  <2>4. CASE handled = 0
    <3>1. Net!TypeOf(Head(mPacketQueue)) = sent[1] /\ scene = "login"
      BY <2>2, <2>4
    <3>2. \/ sent[1] = "AuthRes" /\ mNextScene' /\ mpc' = "update" /\ mSocket' = "open"
          \/ sent[1] = "AuthFail" /\ ~mNextScene' /\ mSocket' = "invalid"
      BY <1>5, <2>2, <2>4, <3>1
      DEF Net!AuthRes, Net!AuthFail, Net!FieldPacket, Net!Popped, Net!Close, Net!onAuthRes
    <3> QED BY <1>1, <2>2, <2>3, <2>4, <3>1, <3>2 DEF NetScenes
  <2>5. CASE handled # 0
    <3>1. Net!TypeOf(Head(mPacketQueue)) = "Field" /\ scene = "field" BY <2>2, <2>5
    <3>2. ~mNextScene'
      BY <1>5, <2>2, <3>1
      DEF Net!AuthRes, Net!AuthFail, Net!FieldPacket, Net!Popped
    <3>3. sent[1] = "AuthRes" BY <1>1, <2>2, <2>5 DEF NetScenes
    <3> QED BY <1>1, <2>2, <2>3, <2>5, <3>1, <3>2, <3>3 DEF NetScenes
  <2> QED BY <2>4, <2>5
<1>6. CASE Net!Join
  <2>1. UNCHANGED <<mSocket, scene, mNextScene, srv, sent, handled>> /\ mpc = "join"
    BY <1>6 DEF Net!Join, Net!serverVars
  <2>2. ~mNextScene BY <1>1, <2>1 DEF NetScenes
  <2> QED BY <1>1, <2>1, <2>2 DEF NetScenes
<1>7. CASE Net!ConnectOk
  <2>1. /\ mSocket = "invalid" /\ srv' = "unauth" /\ sent' = <<>> /\ handled' = 0
        /\ scene = "login" /\ UNCHANGED <<scene, mNextScene>>
    BY <1>7 DEF Net!ConnectOk
  <2>2. ~mNextScene BY <1>1, <2>1 DEF NetScenes
  <2>3. \A i \in 2 .. Len(sent') : FALSE
    <3>1. Len(sent') = 0 BY <2>1
    <3> QED BY <3>1
  <2> QED BY <2>1, <2>2, <2>3 DEF NetScenes
<1>8. CASE Net!RecvThread
  <2>1. UNCHANGED <<mSocket, mpc, scene, mNextScene, srv, sent, handled>>
    BY <1>8 DEF Net!RecvThread, Net!RecvTop, Net!Recv, Net!RecvEnd, Net!UnmarshalRead,
       Net!UnmarshalFrame, Net!UnmarshalEnqueue, Net!mainVars, Net!serverVars, Net!history
  <2> QED BY <1>1, <2>1 DEF NetScenes
<1>9. CASE Net!Reply
  <2>1. srv = "asked" /\ UNCHANGED <<mSocket, mpc, scene, mNextScene, handled>>
    BY <1>9 DEF Net!Reply, Net!mainVars, Net!history
  <2>2. sent = <<>> BY <1>1, <2>1 DEF NetScenes
  <2>3. \/ sent' = <<"AuthRes">> /\ srv' = "in"
        \/ sent' = <<"AuthFail">> /\ srv' = "refused"
    BY <1>9, <2>2 DEF Net!Reply, Net!Post
  <2>4. mSocket = "open" => handled = 0
    <3>1. mSocket = "open" => NetTaken <= 0
      BY <1>1, <2>2 DEF NetStream, NetSocket
    <3>2. NetTaken \in Nat /\ NetTaken >= handled BY <1>1, NetCounts
    <3> QED BY <1>3, <3>1, <3>2
  <2> QED BY <1>1, <2>1, <2>3, <2>4 DEF NetScenes
<1>10. CASE Net!PostField
  <2>1. /\ srv = "in" /\ sent' = Append(sent, "Field")
        /\ UNCHANGED <<mSocket, mpc, scene, mNextScene, handled, srv>>
    BY <1>10 DEF Net!PostField, Net!Post, Net!mainVars, Net!history
  <2>2. "Field" \in Net!Types BY DEF NetAssumption, Net!LenAssumption
  <2>3. /\ sent' \in Seq(Net!Types) /\ Len(sent') = Len(sent) + 1
        /\ sent'[Len(sent) + 1] = "Field" /\ \A i \in 1 .. Len(sent) : sent'[i] = sent[i]
    BY <1>3, <2>1, <2>2, AppendProperties
  <2>4. sent # <<>> /\ sent[1] = "AuthRes" /\ \A i \in 2 .. Len(sent) : sent[i] = "Field"
    BY <1>1, <2>1 DEF NetScenes
  <2>5. 1 \in 1 .. Len(sent) BY <1>3, <2>4, EmptySeq
  <2>6. sent' # <<>> /\ sent'[1] = "AuthRes" BY <1>3, <2>3, <2>4, <2>5
  <2>7. \A i \in 2 .. Len(sent') : sent'[i] = "Field"
    <3>1. SUFFICES ASSUME NEW i \in 2 .. Len(sent') PROVE sent'[i] = "Field" OBVIOUS
    <3>2. CASE i = Len(sent) + 1 BY <2>3, <3>2
    <3>3. CASE i # Len(sent) + 1
      <4>1. i \in 2 .. Len(sent) /\ i \in 1 .. Len(sent) BY <1>3, <2>3, <3>3
      <4> QED BY <2>3, <2>4, <4>1
    <3> QED BY <3>2, <3>3
  <2> QED BY <1>1, <2>1, <2>4, <2>6, <2>7 DEF NetScenes
<1>11. CASE Net!ServerClose
  <2>1. srv' = "closed" /\ UNCHANGED <<mSocket, mpc, scene, mNextScene, sent, handled>>
    BY <1>11 DEF Net!ServerClose, Net!mainVars, Net!history
  <2> QED BY <1>1, <2>1 DEF NetScenes
<1>12. CASE UNCHANGED Net!vars
  <2>1. UNCHANGED <<mSocket, mpc, scene, mNextScene, srv, sent, handled>>
    BY <1>12 DEF Net!vars, Net!mainVars, Net!serverVars, Net!history
  <2> QED BY <1>1, <2>1 DEF NetScenes
<1> QED BY <1>4, <1>5, <1>6, <1>7, <1>8, <1>9, <1>10, <1>11, <1>12
        DEF Net!Next, Net!Main, Net!Server

(* What NetStream says of the parts of a state.                              *)
LEMMA NetStreamParts ==
  ASSUME NetAssumption, NetType, NetStream, rpc # "none"
  PROVE  /\ NetTaken <= Len(sent)
         /\ \A i \in 1 .. Len(NetMessages) :
              NetMessages[i] = Net!Body(conn, handled + i, sent[handled + i])
         /\ NetSent(conn, NetTaken, sent) \in Seq(NetCell)
         /\ Follows(NetBytes(mRecvBuffer), wire, NetSent(conn, NetTaken, sent),
                    srv \notin {"closed", "gone"})
<1>1. NetTaken <= Len(sent) BY DEF NetStream
<1>2. NetSent(conn, NetTaken, sent) \in Seq(NetCell) BY <1>1, NetCounts, NetRestSeq
<1> QED BY <1>1, <1>2 DEF NetStream

(* The end of what is on its way may get lost.                               *)
LEMMA NetStreamLost ==
  ASSUME NetAssumption, NetType, NetStream, rpc # "none",
         \/ wire' = wire /\ (srv' \in {"closed", "gone"} \/ srv \notin {"closed", "gone"})
         \/ wire' \in {wire, <<>>} /\ srv' \in {"closed", "gone"}
         \/ wire' = wire /\ srv' = srv
  PROVE  Follows(NetBytes(mRecvBuffer), wire', NetSent(conn, NetTaken, sent),
                 srv' \notin {"closed", "gone"})
<1> DEFINE b == NetBytes(mRecvBuffer)
           s == NetSent(conn, NetTaken, sent)
<1>1. b \in Seq(NetCell) /\ wire \in Seq(NetCell) BY NetCounts
<1>2. s \in Seq(NetCell) BY NetStreamParts
<1>3. Follows(b, wire, s, srv \notin {"closed", "gone"}) BY NetStreamParts
<1> HIDE DEF b, s
<1>4. Follows(b, wire, s, FALSE) /\ Follows(b, <<>>, s, FALSE)
  BY <1>1, <1>2, <1>3, FollowsLost
<1>5. Follows(b, wire', s, srv' \notin {"closed", "gone"})
  BY <1>3, <1>4 DEF Follows
<1> QED BY <1>5 DEF b, s

(* A step that only loses the end of what is on its way keeps the stream.    *)
LEMMA NetStreamStays ==
  ASSUME NetAssumption, NetType, NetStream, rpc' # "none" => rpc # "none",
         UNCHANGED <<msg, mRecvBuffer, mPacketQueue, sent, conn, handled>>,
         \/ wire' = wire /\ (srv' \in {"closed", "gone"} \/ srv \notin {"closed", "gone"})
         \/ wire' \in {wire, <<>>} /\ srv' \in {"closed", "gone"}
         \/ wire' = wire /\ srv' = srv
  PROVE  NetStream'
<1>1. SUFFICES ASSUME rpc # "none" PROVE NetStream' BY DEF NetStream
<1>2. NetMessages' = NetMessages BY DEF NetMessages
<1>3. NetTaken' = NetTaken BY <1>2 DEF NetTaken
<1>4. Follows(NetBytes(mRecvBuffer), wire', NetSent(conn, NetTaken, sent),
              srv' \notin {"closed", "gone"})
  BY <1>1, NetStreamLost
<1>5. /\ NetTaken <= Len(sent)
      /\ \A i \in 1 .. Len(NetMessages) :
           NetMessages[i] = Net!Body(conn, handled + i, sent[handled + i])
  BY <1>1, NetStreamParts
<1> QED BY <1>2, <1>3, <1>4, <1>5 DEF NetStream

(* A step that takes a message off the queue keeps the stream.               *)
LEMMA NetStreamPops ==
  ASSUME NetAssumption, NetType, NetStream, rpc' = rpc, rpc # "none",
         mPacketQueue # <<>>, mPacketQueue' = Tail(mPacketQueue), handled' = handled + 1,
         UNCHANGED <<msg, mRecvBuffer, sent, conn>>,
         \/ wire' = wire /\ srv' = srv
         \/ wire' \in {wire, <<>>} /\ srv' \in {"closed", "gone"}
  PROVE  NetStream'
<1> DEFINE n == Len(NetMessages)
<1>1. /\ handled \in Nat /\ n \in Nat /\ NetMessages \in Seq(Seq(NetCell))
  BY NetCounts
<1>2. mPacketQueue \in Seq(Seq(NetCell)) /\ msg \in Seq(NetCell)
  BY DEF NetType, NetThreadType
<1> DEFINE q == mPacketQueue
           p == Tail(q)
<1>3. /\ p \in Seq(Seq(NetCell)) /\ Len(p) = Len(q) - 1
      /\ \A i \in 1 .. Len(p) : p[i] = q[i + 1]
  BY <1>2, HeadTailProperties
<1>4. Len(q) \in Nat /\ Len(q) >= 1 /\ Len(p) \in Nat BY <1>2, <1>3, EmptySeq, LenProperties
<1> HIDE DEF p
<1>5. NetMessages' = IF msg = <<>> THEN p ELSE Append(p, msg) BY DEF NetMessages, p
<1>6. n \in Nat \ {0} /\ Len(NetMessages') = n - 1
      /\ \A i \in 1 .. n - 1 : NetMessages'[i] = NetMessages[i + 1]
  <2>1. CASE msg = <<>>
    <3>1. NetMessages' = p /\ NetMessages = q BY <1>5, <2>1 DEF NetMessages
    <3> QED BY <1>3, <1>4, <3>1
  <2>2. CASE msg # <<>>
    <3> DEFINE a == Append(p, msg)
               e == Append(q, msg)
    <3>1. NetMessages' = a /\ NetMessages = e BY <1>5, <2>2 DEF NetMessages
    <3>2. /\ Len(a) = Len(p) + 1 /\ a[Len(p) + 1] = msg
          /\ \A i \in 1 .. Len(p) : a[i] = p[i]
      BY <1>2, <1>3, AppendProperties
    <3>3. /\ Len(e) = Len(q) + 1 /\ e[Len(q) + 1] = msg
          /\ \A i \in 1 .. Len(q) : e[i] = q[i]
      BY <1>2, AppendProperties
    <3> HIDE DEF a, e
    <3>4. n = Len(q) + 1 /\ Len(a) = n - 1 /\ Len(p) + 1 = n - 1 BY <1>3, <1>4, <3>1, <3>2, <3>3
    <3>5. \A i \in 1 .. n - 1 : a[i] = e[i + 1]
      <4>1. SUFFICES ASSUME NEW i \in 1 .. n - 1 PROVE a[i] = e[i + 1] OBVIOUS
      <4>2. CASE i = Len(p) + 1
        <5>1. i + 1 = Len(q) + 1 BY <1>3, <1>4, <4>2
        <5> QED BY <3>2, <3>3, <4>2, <5>1
      <4>3. CASE i # Len(p) + 1
        <5>1. i \in 1 .. Len(p) /\ i + 1 \in 1 .. Len(q) BY <1>3, <1>4, <3>4, <4>3
        <5> QED BY <1>3, <3>2, <3>3, <5>1
      <4> QED BY <4>2, <4>3
    <3> QED BY <1>1, <1>4, <3>1, <3>4, <3>5
  <2> QED BY <2>1, <2>2
<1>7. NetTaken' = NetTaken BY <1>1, <1>6 DEF NetTaken
<1>8. Follows(NetBytes(mRecvBuffer), wire', NetSent(conn, NetTaken, sent),
              srv' \notin {"closed", "gone"})
  BY NetStreamLost
<1>9. /\ NetTaken <= Len(sent)
      /\ \A i \in 1 .. n : NetMessages[i] = Net!Body(conn, handled + i, sent[handled + i])
  BY NetStreamParts
<1>10. \A i \in 1 .. Len(NetMessages') :
         NetMessages'[i] = Net!Body(conn, handled' + i, sent[handled' + i])
  <2>1. SUFFICES ASSUME NEW i \in 1 .. n - 1
                 PROVE  NetMessages'[i] = Net!Body(conn, handled' + i, sent[handled' + i])
    BY <1>6
  <2>2. i + 1 \in 1 .. n /\ handled + (i + 1) = handled' + i BY <1>1, <1>6
  <2>3. NetMessages[i + 1] = Net!Body(conn, handled + (i + 1), sent[handled + (i + 1)])
    BY <1>9, <2>2
  <2>4. NetMessages'[i] = NetMessages[i + 1] BY <1>6
  <2> QED BY <2>2, <2>3, <2>4
<1> QED BY <1>7, <1>8, <1>9, <1>10 DEF NetStream

(* recv puts the first bytes on their way into the buffer.                   *)
LEMMA NetStreamRecv ==
  ASSUME NetAssumption, NetType, NetStream, Net!Recv PROVE NetStream'
<1> DEFINE b == NetBytes(mRecvBuffer)
           s == NetSent(conn, NetTaken, sent)
           whole == srv \notin {"closed", "gone"}
<1>1. rpc # "none" /\ UNCHANGED <<msg, mPacketQueue, handled, conn, sent, srv>>
  BY DEF Net!Recv, Net!history
<1>2. NetMessages' = NetMessages /\ NetTaken' = NetTaken BY <1>1 DEF NetMessages, NetTaken
<1>3. PICK n \in 1 .. Len(wire) :
        /\ n <= Net!Ring!DirectFreeSize(mRecvBuffer)
        /\ mRecvBuffer'
             = Net!Ring!MoveRear(Net!Ring!Written(mRecvBuffer, SubSeq(wire, 1, n)), n)
        /\ wire' = SubSeq(wire, n + 1, Len(wire))
  BY DEF Net!Recv
<1>4. b \in Seq(NetCell) /\ wire \in Seq(NetCell) /\ mRecvBuffer \in NetRing BY NetCounts
<1>5. n \in 0 .. Len(wire) BY <1>4, LenProperties
<1>6. Follows(b, wire, s, whole) BY <1>1, NetStreamParts
<1> DEFINE x == SubSeq(wire, 1, n)
           y == SubSeq(wire, n + 1, Len(wire))
           r == Net!Ring!MoveRear(Net!Ring!Written(mRecvBuffer, x), Len(x))
<1> HIDE DEF b, s, whole
<1>7. x \in Seq(NetCell) /\ Len(x) = n BY <1>4, <1>5, CutInTwo
<1>8. Follows(b \o x, y, s, whole) BY <1>4, <1>5, <1>6, FollowsMoves
<1> HIDE DEF x, y
<1>9. Len(x) <= Net!Ring!DirectFreeSize(mRecvBuffer) BY <1>3, <1>7
<1>10. NetBytes(r) = b \o x BY <1>4, <1>7, <1>9, NetRingWritten DEF b
<1> HIDE DEF r
<1>11. mRecvBuffer' = r /\ wire' = y BY <1>3, <1>7 DEF r, x, y
<1>12. Follows(NetBytes(mRecvBuffer)', wire', s, whole) BY <1>8, <1>10, <1>11
<1>13. /\ NetTaken <= Len(sent)
       /\ \A i \in 1 .. Len(NetMessages) :
            NetMessages[i] = Net!Body(conn, handled + i, sent[handled + i])
  BY <1>1, NetStreamParts
<1> QED BY <1>1, <1>2, <1>12, <1>13 DEF NetStream, s, whole

(* A frame is cut off: its packet is the next of the messages.               *)
LEMMA NetStreamFrame ==
  ASSUME NetAssumption, NetType, NetStream, NetThread, Net!UnmarshalFrame,
         Net!Complete /\ qfree >= 1
  PROVE  NetStream'
<1>1. /\ rpc = "frame" /\ msg' = Net!Payload /\ mRecvBuffer' = Net!AfterFrame
      /\ UNCHANGED <<mPacketQueue, handled, conn, sent, srv, wire>>
  BY DEF Net!UnmarshalFrame, Net!serverVars
<1>2. rpc # "none" /\ msg = <<>> BY <1>1 DEF NetThread
<1> DEFINE k == NetTaken
           q == mPacketQueue
           e == Append(q, Net!Payload)
<1>3. /\ k < Len(sent) /\ Net!Payload = Net!Body(conn, k + 1, sent[k + 1])
      /\ Net!Payload \in Seq(NetCell) /\ Net!Payload # <<>>
      /\ Follows(NetBytes(Net!AfterFrame), wire, NetSent(conn, k + 1, sent),
                 srv \notin {"closed", "gone"})
  BY <1>2, FrameCut
<1>4. NetMessages = q /\ NetMessages' = e BY <1>1, <1>2, <1>3 DEF NetMessages
<1>5. q \in Seq(Seq(NetCell)) BY DEF NetType, NetThreadType
<1>6. handled \in Nat /\ k \in Nat /\ Len(sent) \in Nat /\ Len(q) \in Nat
  BY <1>4, NetCounts
<1>7. /\ Len(e) = Len(q) + 1 /\ e[Len(q) + 1] = Net!Payload
      /\ \A i \in 1 .. Len(q) : e[i] = q[i]
  BY <1>3, <1>5, AppendProperties
<1>8. k = handled + Len(q) BY <1>4 DEF NetTaken
<1> HIDE DEF e
<1>9. NetTaken' = k + 1 BY <1>1, <1>4, <1>6, <1>7, <1>8 DEF NetTaken
<1> HIDE DEF k
<1>10. \A i \in 1 .. Len(e) : e[i] = Net!Body(conn, handled + i, sent[handled + i])
  <2>1. SUFFICES ASSUME NEW i \in 1 .. Len(e)
                 PROVE  e[i] = Net!Body(conn, handled + i, sent[handled + i])
    OBVIOUS
  <2>2. CASE i = Len(q) + 1
    <3>1. handled + i = k + 1 BY <1>6, <1>8, <2>2
    <3> QED BY <1>3, <1>7, <2>2, <3>1 DEF k
  <2>3. CASE i # Len(q) + 1
    <3>1. i \in 1 .. Len(q) BY <1>6, <1>7, <2>3
    <3>2. \A j \in 1 .. Len(NetMessages) :
            NetMessages[j] = Net!Body(conn, handled + j, sent[handled + j])
      BY <1>2, NetStreamParts
    <3> QED BY <1>4, <1>7, <3>1, <3>2
  <2> QED BY <2>2, <2>3
<1>11. k + 1 <= Len(sent) BY <1>3, <1>6 DEF k
<1>12. Follows(NetBytes(mRecvBuffer)', wire', NetSent(conn', NetTaken', sent'),
               srv' \notin {"closed", "gone"})
  BY <1>1, <1>3, <1>9 DEF k
<1> QED BY <1>1, <1>4, <1>9, <1>10, <1>11, <1>12 DEF NetStream

(* The server sends one more packet.                                         *)
LEMMA NetStreamPosts ==
  ASSUME NetAssumption, NetType, NetStream, NEW t \in Net!Types, Net!Post(t),
         srv \notin {"closed", "gone"},
         UNCHANGED <<rpc, msg, mRecvBuffer, mPacketQueue, conn, handled>>
  PROVE  NetStream'
<1>1. SUFFICES ASSUME rpc # "none" PROVE NetStream' BY DEF NetStream
<1>2. NetMessages' = NetMessages /\ NetTaken' = NetTaken BY DEF NetMessages, NetTaken
<1> DEFINE b == NetBytes(mRecvBuffer)
           k == NetTaken
           n == Len(sent) + 1
           s2 == Append(sent, t)
<1>3. PICK c \in Nat : c = conn BY NetCounts
<1> DEFINE s == NetSent(c, k, sent)
           x == Net!Frame(c, n, t)
<1>4. /\ b \in Seq(NetCell) /\ wire \in Seq(NetCell) /\ sent \in Seq(Net!Types)
      /\ Len(sent) \in Nat /\ k \in Nat /\ handled \in Nat
      /\ Len(NetMessages) \in Nat
  BY NetCounts
<1>5. k <= Len(sent) BY <1>1, NetStreamParts
<1>6. s \in Seq(NetCell) BY <1>1, <1>3, NetStreamParts
<1>7. Follows(b, wire, s, TRUE)
  <2>1. Follows(b, wire, s, srv \notin {"closed", "gone"}) BY <1>1, <1>3, NetStreamParts
  <2> HIDE DEF b, s
  <2> QED BY <2>1 DEF Follows
<1>8. n \in Nat BY <1>4
<1>9. NetSent(c, k, s2) = s \o x BY <1>4, <1>5, NetRestAppend
<1> HIDE DEF n
<1>10. x \in Seq(NetCell) BY <1>8, NetFrames
<1> HIDE DEF b, s, x
<1>11. Follows(b, wire \o x, s \o x, srv' \notin {"closed", "gone"})
  BY <1>4, <1>6, <1>7, <1>10, FollowsMore
<1>12. sent' = s2 /\ wire' = wire \o x BY <1>3 DEF Net!Post, x, n
<1>13. /\ s2 \in Seq(Net!Types) /\ Len(s2) = Len(sent) + 1
       /\ \A i \in 1 .. Len(sent) : s2[i] = sent[i]
  BY <1>4, AppendProperties
<1> HIDE DEF s2
<1>14. Follows(NetBytes(mRecvBuffer)', wire', NetSent(conn', NetTaken', sent'),
               srv' \notin {"closed", "gone"})
  <2>1. NetSent(conn', NetTaken', sent') = s \o x BY <1>2, <1>3, <1>9, <1>12
  <2>2. NetBytes(mRecvBuffer)' = b BY DEF b
  <2> QED BY <1>11, <1>12, <2>1, <2>2
<1>15. \A i \in 1 .. Len(NetMessages) :
         NetMessages[i] = Net!Body(conn, handled + i, s2[handled + i])
  <2>1. SUFFICES ASSUME NEW i \in 1 .. Len(NetMessages)
                 PROVE  NetMessages[i] = Net!Body(conn, handled + i, s2[handled + i])
    OBVIOUS
  <2>2. NetMessages[i] = Net!Body(conn, handled + i, sent[handled + i])
    BY <1>1, NetStreamParts
  <2>3. handled + i \in 1 .. Len(sent) BY <1>4, <1>5 DEF NetTaken
  <2> QED BY <1>13, <2>2, <2>3
<1>16. k <= Len(s2) BY <1>4, <1>5, <1>13
<1> QED BY <1>2, <1>12, <1>14, <1>15, <1>16 DEF NetStream

(* The bytes in the buffer and on their way go on with the packets behind    *)
(* those that left the buffer, in every step.                                *)
LEMMA NetStreamKept ==
  ASSUME NetAssumption, NetInv, [Net!Next]_(Net!vars) PROVE NetStream'
<1>1. NetType /\ NetStream /\ NetThread /\ NetSocket /\ NetScenes BY DEF NetInv
<1>2. CASE \/ Net!NoPacket \/ Net!LoginIdle \/ Net!ConnectFail \/ Net!LoginSend
           \/ Net!LoginSendFail \/ Net!FieldUpdate \/ Net!FieldSendFail \/ Net!ChangeScene
           \/ Net!RecvTop \/ Net!RecvEnd \/ Net!UnmarshalRead \/ Net!ServerClose
           \/ UNCHANGED Net!vars
  <2> USE DEF Net!NoPacket, Net!LoginIdle, Net!ConnectFail, Net!LoginSend,
       Net!LoginSendFail, Net!FieldUpdate, Net!FieldSendFail, Net!ChangeScene,
       Net!RecvTop, Net!RecvEnd, Net!UnmarshalRead, Net!ServerClose,
       Net!Close, Net!recvVars, Net!serverVars, Net!history, Net!vars
  <2>1. UNCHANGED <<msg, mRecvBuffer, mPacketQueue, sent, conn, handled>> BY <1>2
  <2>2. rpc' # "none" => rpc # "none" BY <1>2
  <2>3. \/ wire' = wire /\ (srv' \in {"closed", "gone"} \/ srv \notin {"closed", "gone"})
        \/ wire' \in {wire, <<>>} /\ srv' \in {"closed", "gone"}
        \/ wire' = wire /\ srv' = srv
    BY <1>2
  <2> QED BY <1>1, <2>1, <2>2, <2>3, NetStreamStays
<1>3. CASE Net!AuthRes \/ Net!AuthFail \/ Net!FieldPacket
  <2>1. /\ mpc = "packets" /\ mPacketQueue # <<>> /\ mPacketQueue' = Tail(mPacketQueue)
        /\ handled' = handled + 1 /\ UNCHANGED <<rpc, msg, mRecvBuffer, sent, conn>>
        /\ \/ wire' = wire /\ srv' = srv
           \/ wire' \in {wire, <<>>} /\ srv' \in {"closed", "gone"}
    BY <1>3 DEF Net!AuthRes, Net!AuthFail, Net!FieldPacket, Net!Popped, Net!Close,
       Net!recvVars, Net!serverVars
  <2>2. rpc # "none" BY <2>1, PopKnown
  <2> QED BY <1>1, <2>1, <2>2, NetStreamPops
<1>4. CASE Net!Join BY <1>4 DEF Net!Join, NetStream
<1>5. CASE Net!ConnectOk
  <2>1. rpc = "none" BY <1>1, <1>5 DEF NetSocket, Net!ConnectOk
  <2>2. /\ rpc' = "top" /\ sent' = <<>> /\ wire' = <<>> /\ handled' = 0 /\ srv' = "unauth"
        /\ UNCHANGED <<msg, mRecvBuffer, mPacketQueue>>
    BY <1>5, <2>1 DEF Net!ConnectOk
  <2>3. msg = <<>> /\ mPacketQueue = <<>> /\ mRecvBuffer.mFront = mRecvBuffer.mRear
    BY <1>1, <2>1 DEF NetThread
  <2>4. mRecvBuffer \in NetRing BY <1>1, NetCounts
  <2>5. NetBytes(mRecvBuffer) = <<>> BY <2>3, <2>4, NetRingEmpty
  <2>6. NetMessages' = <<>> /\ NetTaken' = 0
    <3>1. NetMessages' = <<>> BY <2>2, <2>3 DEF NetMessages
    <3> QED BY <2>2, <3>1 DEF NetTaken
  <2>7. NetSent(conn', 0, <<>>) = <<>>
    <3>1. <<>> \in Seq(Net!Types) /\ Len(<<>>) = 0 BY EmptySeq
    <3>2. NetSent(conn', Len(<<>>), <<>>) = <<>> BY <3>1, NetRestEmpty
    <3> QED BY <3>1, <3>2
  <2>8. Follows(<<>>, <<>>, <<>>, TRUE)
    <3>1. <<>> \in Seq(NetCell) /\ Len(<<>>) = 0 BY EmptySeq
    <3>2. <<>> \o <<>> = <<>> BY <3>1, ConcatEmptySeq
    <3>3. IsPrefix(<<>>, <<>>) BY <3>1 DEF IsPrefix
    <3> QED BY <3>2, <3>3 DEF Follows
  <2>9. Follows(NetBytes(mRecvBuffer)', wire', NetSent(conn', NetTaken', sent'),
                srv' \notin {"closed", "gone"})
    <3>1. (srv' \notin {"closed", "gone"}) = TRUE BY <2>2
    <3>2. NetBytes(mRecvBuffer)' = <<>> BY <2>2, <2>5
    <3> QED BY <2>2, <2>6, <2>7, <2>8, <3>1, <3>2
  <2>10. NetTaken' <= Len(sent') /\ Len(NetMessages') = 0 BY <2>2, <2>6
  <2>11. \A i \in 1 .. Len(NetMessages') :
           NetMessages'[i] = Net!Body(conn', handled' + i, sent'[handled' + i])
    BY <2>10
  <2> QED BY <2>9, <2>10, <2>11 DEF NetStream
<1>6. CASE Net!Recv BY <1>1, <1>6, NetStreamRecv
<1>7. CASE Net!UnmarshalFrame
  <2>1. CASE Net!Complete /\ qfree >= 1 BY <1>1, <1>7, <2>1, NetStreamFrame
  <2>2. CASE ~(Net!Complete /\ qfree >= 1)
    <3>1. UNCHANGED <<msg, mRecvBuffer, mPacketQueue, sent, conn, handled, wire, srv>>
          /\ rpc # "none"
      BY <1>7, <2>2 DEF Net!UnmarshalFrame, Net!serverVars
    <3> QED BY <1>1, <3>1, NetStreamStays
  <2> QED BY <2>1, <2>2
<1>8. CASE Net!UnmarshalEnqueue
  <2>1. /\ rpc = "enqueue" /\ msg' = <<>>
        /\ mPacketQueue' = Append(mPacketQueue, Net!PutData(<<>>, msg))
        /\ UNCHANGED <<mRecvBuffer, srv, sent, wire, conn, handled>>
    BY <1>8 DEF Net!UnmarshalEnqueue, Net!serverVars, Net!history
  <2>2. msg \in Seq(NetCell) /\ msg # <<>>
    BY <1>1, <2>1 DEF NetType, NetThreadType, NetThread
  <2>3. Net!PutData(<<>>, msg) = msg BY <2>2, ConcatEmptySeq DEF Net!PutData
  <2>4. NetMessages' = NetMessages BY <2>1, <2>2, <2>3 DEF NetMessages
  <2>5. NetTaken' = NetTaken BY <2>1, <2>4 DEF NetTaken
  <2>6. NetBytes(mRecvBuffer)' = NetBytes(mRecvBuffer) BY <2>1
  <2>7. rpc # "none" BY <2>1
  <2> QED BY <1>1, <2>1, <2>4, <2>5, <2>6, <2>7 DEF NetStream
<1>9. CASE Net!Reply \/ Net!PostField
  <2>1. /\ srv \in {"asked", "in"} /\ srv \notin {"closed", "gone"}
        /\ UNCHANGED <<rpc, msg, mRecvBuffer, mPacketQueue, conn, handled>>
    BY <1>9 DEF Net!Reply, Net!PostField, Net!recvVars, Net!history
  <2>2. PICK t \in {"AuthRes", "AuthFail", "Field"} : Net!Post(t)
    BY <1>9 DEF Net!Reply, Net!PostField
  <2>3. t \in Net!Types BY DEF NetAssumption, Net!LenAssumption
  <2> QED BY <1>1, <2>1, <2>2, <2>3, NetStreamPosts
<1> QED BY <1>2, <1>3, <1>4, <1>5, <1>6, <1>7, <1>8, <1>9
        DEF Net!Next, Net!Main, Net!RecvThread, Net!Server

(* The instance's sequence operators are those of the library.               *)
LEMMA NetSequences ==
  /\ \A s, t : IsPrefix(s, t) <=> Net!IsPrefix(s, t)
  /\ \A s : FlattenSeq(s) = Net!FlattenSeq(s)
  /\ \A s, n : Net!BoundedSeq(s, n) = UNION {[1 .. m -> s] : m \in 0 .. n}
<1>1. ASSUME NEW s, NEW t PROVE IsPrefix(s, t) <=> Net!IsPrefix(s, t)
  BY DEF IsPrefix, Net!IsPrefix
<1>2. ASSUME NEW s PROVE FlattenSeq(s) = Net!FlattenSeq(s)
  BY DEF FlattenSeq, Net!FlattenSeq
<1>3. ASSUME NEW s, NEW n PROVE Net!BoundedSeq(s, n) = UNION {[1 .. m -> s] : m \in 0 .. n}
  BY DEF Net!BoundedSeq, Net!SeqOf
<1> QED BY <1>1, <1>2, <1>3

(* The invariant holds at the start.                                         *)
LEMMA NetInvInit == ASSUME NetAssumption, Net!Init PROVE NetInv
<1>1. MaxSent \in Nat /\ MaxConn \in Nat /\ MaxFail \in Nat /\ QueueSize \in Nat
  BY DEF NetAssumption, Net!BoundAssumption
<1>2. /\ <<>> \in Seq(NetCell) /\ <<>> \in Seq(Net!Types) /\ <<>> \in Seq(Seq(NetCell))
      /\ Len(<<>>) = 0
  BY EmptySeq
<1>3. mRecvBuffer \in NetRing /\ mRecvBuffer.mFront = mRecvBuffer.mRear
  <2>1. mRecvBuffer = [mBuffer |-> [c \in 0 .. Size - 1 |-> <<>>], mFront |-> 0, mRear |-> 0,
                       mBFail |-> {}]
    BY DEF Net!Init, Net!Network, Net!Ring!MyRingBuffer
  <2>2. 0 \in 0 .. Size - 1 BY SizeAssumption
  <2>3. <<>> \in NetCell BY DEF NetCell
  <2> QED BY <2>1, <2>2, <2>3 DEF NetRing
<1>4. NetMainType BY DEF NetMainType, Net!Init, Net!Network, Net!LoginScene
<1>5. NetThreadType BY <1>1, <1>2, <1>3 DEF NetThreadType, Net!Init, Net!Network
<1>6. NetServerType
  <2>1. /\ srv = "gone" /\ sent = <<>> /\ wire = <<>> /\ conn = 0 /\ fails = 0 /\ handled = 0
        /\ behind = FALSE /\ faults = {}
    BY DEF Net!Init
  <2>2. sent \in Seq(Net!Types) /\ Len(sent) <= MaxSent /\ wire \in Seq(NetCell)
    BY <1>1, <1>2, <2>1
  <2>3. conn \in 0 .. MaxConn /\ fails \in 0 .. MaxFail /\ handled \in 0 .. MaxSent
    BY <1>1, <2>1
  <2>4. srv = "gone" /\ behind = FALSE /\ faults = {} BY <2>1
  <2> QED BY <2>2, <2>3, <2>4 DEF NetServerType
<1>7. NetStream BY DEF NetStream, Net!Init, Net!Network
<1>8. NetThread BY <1>3 DEF NetThread, Net!Init, Net!Network
<1>9. NetSocket BY DEF NetSocket, Net!Init, Net!Network
<1>10. NetScenes
  <2>1. /\ sent = <<>> /\ srv = "gone" /\ mSocket = "invalid" /\ ~mNextScene
    BY DEF Net!Init, Net!Network, Net!LoginScene
  <2>2. Len(sent) = 0 BY <1>2, <2>1
  <2>3. \A i \in 2 .. Len(sent) : sent[i] = "Field" BY <2>2
  <2> QED BY <2>1, <2>3 DEF NetScenes
<1> QED BY <1>4, <1>5, <1>6, <1>7, <1>8, <1>9, <1>10 DEF NetInv, NetType

(* The client network's states always satisfy NetInv.                        *)
LEMMA NetInvHolds == ASSUME NetAssumption PROVE Net!Spec => []NetInv
<1>1. Net!Init => NetInv BY NetInvInit
<1>2. NetInv /\ [Net!Next]_(Net!vars) => NetInv'
  <2> SUFFICES ASSUME NetInv, [Net!Next]_(Net!vars) PROVE NetInv' OBVIOUS
  <2>1. NetMainType' BY NetMainTypeKept DEF NetInv
  <2>2. NetThreadType' BY NetThreadTypeKept
  <2>3. NetServerType' BY NetServerTypeKept
  <2>4. NetStream' BY NetStreamKept
  <2>5. NetThread' BY NetThreadKept
  <2>6. NetSocket' BY NetSocketKept
  <2>7. NetScenes' BY NetScenesKept
  <2> QED BY <2>1, <2>2, <2>3, <2>4, <2>5, <2>6, <2>7 DEF NetInv, NetType
<1> QED BY <1>1, <1>2, PTL DEF Net!Spec

(* The variables of the client's network keep their types.                   *)
THEOREM NetTypes == ASSUME NetAssumption PROVE Net!Spec => []Net!TypeOK
<1>1. NetInv => Net!TypeOK
  <2> SUFFICES ASSUME NetInv PROVE Net!TypeOK OBVIOUS
  <2>1. NetMainType /\ NetThreadType /\ NetServerType BY DEF NetInv, NetType
  <2>2. mRecvBuffer.mFront \in 0 .. Size - 1 /\ mRecvBuffer.mRear \in 0 .. Size - 1
        /\ mRecvBuffer.mBFail = {}
    BY <2>1 DEF NetThreadType, NetRing
  <2>3. sent \in Net!BoundedSeq(Net!Types, MaxSent)
    <3>1. sent \in Seq(Net!Types) /\ Len(sent) <= MaxSent /\ Len(sent) \in Nat /\ MaxSent \in Nat
      BY <2>1, NetCounts DEF NetServerType, NetInv
    <3>2. Len(sent) \in 0 .. MaxSent BY <3>1
    <3>3. sent \in [1 .. Len(sent) -> Net!Types] BY <3>1
    <3>4. sent \in UNION {[1 .. m -> Net!Types] : m \in 0 .. MaxSent} BY <3>2, <3>3
    <3> QED BY <3>4, NetSequences
  <2>4. /\ rpc \in {"none", "top", "recv", "unmarshal", "frame", "enqueue", "done", "break"}
        /\ qfree \in 0 .. QueueSize /\ Len(mPacketQueue) <= QueueSize
    BY <2>1 DEF NetThreadType
  <2>5. /\ srv \in {"gone", "unauth", "asked", "refused", "in", "closed"}
        /\ conn \in 0 .. MaxConn /\ fails \in 0 .. MaxFail /\ handled \in 0 .. MaxSent
        /\ behind \in BOOLEAN /\ faults \subseteq {"scene", "thread", "send"}
    BY <2>1 DEF NetServerType
  <2> QED BY <2>1, <2>2, <2>3, <2>4, <2>5 DEF Net!TypeOK, NetMainType
<1> QED BY <1>1, NetInvHolds, PTL

(* While a connection of the client is open, no byte from the server is      *)
(* lost, repeated, mixed up or left from an earlier connection: the messages *)
(* in the queue and in the hands of recvThread are the packets after those   *)
(* handled, and the ring and the wire continue them.                         *)
THEOREM NetStreamIsKept == ASSUME NetAssumption PROVE Net!Spec => []Net!StreamKept
<1>1. NetInv => Net!StreamKept
  <2> SUFFICES ASSUME NetInv, mSocket = "open" PROVE Net!StreamKept BY DEF Net!StreamKept
  <2>1. NetStream /\ rpc # "none" /\ srv # "gone" BY DEF NetInv, NetSocket
  <2>2. /\ NetTaken <= Len(sent)
        /\ \A i \in 1 .. Len(NetMessages) :
             NetMessages[i] = Net!Body(conn, handled + i, sent[handled + i])
        /\ IsPrefix(NetBytes(mRecvBuffer) \o wire, NetSent(conn, NetTaken, sent))
        /\ srv # "closed" =>
             NetBytes(mRecvBuffer) \o wire = NetSent(conn, NetTaken, sent)
    BY <2>1 DEF NetStream, Follows
  <2> DEFINE r == RestFrames(conn, NetTaken, sent)
             b == NetBytes(mRecvBuffer)
  <2>3. NetSent(conn, NetTaken, sent) = Net!FlattenSeq(r) BY NetSequences DEF NetSent
  <2>4. IF srv = "closed" THEN Net!IsPrefix(b \o wire, Net!FlattenSeq(r))
                          ELSE b \o wire = Net!FlattenSeq(r)
    <3> HIDE DEF r, b
    <3>1. IsPrefix(b \o wire, Net!FlattenSeq(r)) BY <2>2, <2>3 DEF b
    <3>2. Net!IsPrefix(b \o wire, Net!FlattenSeq(r)) BY <3>1, NetSequences
    <3> QED BY <2>2, <2>3, <3>2 DEF b
  <2>5. /\ NetTaken <= Len(sent)
        /\ \A i \in 1 .. Len(NetMessages) :
             NetMessages[i] = Net!Body(conn, handled + i, sent[handled + i])
    BY <2>2
  <2> QED BY <2>4, <2>5, Zenon
      DEF Net!StreamKept, NetMessages, NetTaken, NetBytes, RestFrames
<1> QED BY <1>1, NetInvHolds, PTL

(* The client does not end itself: no assertion of its scenes or its network *)
(* fails but the one on a Send after the server closed, recvThread meets its *)
(* __debugbreak only behind a queue that had no room, and no call of its     *)
(* ring buffer fails.                                                        *)
THEOREM NetNoCrash == ASSUME NetAssumption PROVE Net!Spec => []Net!NoCrash
<1>1. NetInv => Net!NoCrash
  BY DEF NetInv, NetType, NetThreadType, NetServerType, NetThread, NetRing, Net!NoCrash,
     Net!NoAssert, Net!BreakOnlyBehind
<1> QED BY <1>1, NetInvHolds, PTL

-----------------------------------------------------------------------------
(* The framing of the two streams of a session: its receive buffer is the    *)
(* ring of this module.                                                      *)

CONSTANTS Lens, SendSize, BotRecvSize, MessageSize, FixedLen, RECORD_SIZE,
          SEND_MESSAGE_MAXCOUNT, MaxRecords, MaxBatches

VARIABLES mSendBuffer, bpc, up, down, wsabuf, mSendQ, mSendOv, fpc, cnt, PlayerCnt, received,
          promised, batches

(* The two streams between a client and the server library, on a ring of the *)
(* same size.                                                                *)
Framing == INSTANCE MessageFraming WITH RecvSize <- Size

(* What module MessageFraming assumes of its constants.                      *)
FrAssumption == Framing!FramingAssumption /\ Framing!BoundAssumption

(* A byte: its frame, the frame's length, its place.                         *)
FrCell == Nat \X Nat \X Nat

(* The bytes of the frames behind the first ones, and of the Messages that   *)
(* are done.                                                                 *)
FrRest(from, s)   == [i \in 1 .. Len(s) - from |-> Framing!Frame(from + i, s[from + i])]
FrBehind(from, s) == FlattenSeq(FrRest(from, s))
FrDone == IF msg = <<>> THEN promised ELSE SubSeq(promised, 1, Len(promised) - 1)

(* The bytes in the ring, and those of the Messages on their way out.        *)
FrHeld == Held(mBuffer, mFront, mRear)
FrOut  == FlattenSeq(mSendOv) \o FlattenSeq(mSendQ)

(* The cells of a frame from one, exclusively, to another.                   *)
CellsAre(s, n, len, a, to) ==
  /\ s \in Seq(FrCell) /\ Len(s) = to - a
  /\ \A i \in 1 .. to - a : s[i] = <<n, len, a + i>>

(* The cells of a frame from one to another, one by one.                     *)
LEMMA CellsSeq ==
  ASSUME NEW n \in Nat, NEW len \in Nat, NEW a \in Nat, NEW to \in Nat, a <= to,
         NEW from, from = a + 1
  PROVE  CellsAre(Framing!Cells(n, len, from, to), n, len, a, to)
<1> DEFINE s == Framing!Cells(n, len, from, to)
           b == to - a
<1>1. s = [i \in 1 .. to - from + 1 |-> <<n, len, from + i - 1>>]
  BY DEF Framing!Cells
<1>2. to - from + 1 = b /\ b \in Nat OBVIOUS
<1> HIDE DEF s, b
<1>3. s = [i \in 1 .. b |-> <<n, len, from + i - 1>>] BY <1>1, <1>2
<1>4. \A i \in 1 .. b : from + i - 1 = a + i /\ <<n, len, a + i>> \in FrCell BY DEF FrCell
<1>5. s \in [1 .. b -> FrCell] BY <1>3, <1>4
<1>6. s \in Seq(FrCell) /\ Len(s) = b BY <1>2, <1>5
<1>7. \A i \in 1 .. b : s[i] = <<n, len, a + i>> BY <1>3, <1>4
<1> QED BY <1>6, <1>7 DEF s, b, CellsAre

(* The cells of a frame up to one, and from it on.                           *)
Joined(x, y, s) == x \o y = s

(* A frame's first cells and those after them are its cells.                 *)
LEMMA CellsSplit ==
  ASSUME NEW n \in Nat, NEW len \in Nat, NEW a \in Nat, NEW to \in Nat, a <= to,
         NEW from, from = a + 1
  PROVE  Joined(Framing!Cells(n, len, 1, a), Framing!Cells(n, len, from, to),
                Framing!Cells(n, len, 1, to))
<1> DEFINE s == Framing!Cells(n, len, 1, to)
           x == Framing!Cells(n, len, 1, a)
           y == Framing!Cells(n, len, from, to)
<1>0. 0 \in Nat /\ 0 <= a /\ 0 <= to /\ 1 = 0 + 1 OBVIOUS
<1>1. CellsAre(s, n, len, 0, to) BY <1>0, CellsSeq
<1>2. CellsAre(x, n, len, 0, a) BY <1>0, CellsSeq
<1>3. CellsAre(y, n, len, a, to) BY CellsSeq
<1> HIDE DEF s, x, y
<1>4. s \in Seq(FrCell) /\ Len(s) = to /\ \A i \in 1 .. to : s[i] = <<n, len, i>>
  BY <1>1 DEF CellsAre
<1>5. x \in Seq(FrCell) /\ Len(x) = a /\ \A i \in 1 .. a : x[i] = <<n, len, i>>
  BY <1>2 DEF CellsAre
<1>6. y \in Seq(FrCell) /\ Len(y) = to - a /\ \A i \in 1 .. to - a : y[i] = <<n, len, a + i>>
  BY <1>3 DEF CellsAre
<1>7. x \o y \in Seq(FrCell) /\ Len(x \o y) = to
      /\ \A i \in 1 .. to : (x \o y)[i] = IF i <= a THEN x[i] ELSE y[i - a]
  <2>1. Len(x) + Len(y) = to BY <1>5, <1>6
  <2> QED BY <1>5, <1>6, <2>1, ConcatProperties
<1>8. \A i \in 1 .. to : s[i] = (x \o y)[i]
  <2>1. SUFFICES ASSUME NEW i \in 1 .. to PROVE s[i] = (x \o y)[i] OBVIOUS
  <2>2. CASE i <= a
    <3>1. i \in 1 .. a BY <2>2
    <3> QED BY <1>4, <1>5, <1>7, <2>2, <3>1
  <2>3. CASE ~(i <= a)
    <3>1. i - a \in 1 .. to - a /\ a + (i - a) = i BY <2>3
    <3> QED BY <1>4, <1>6, <1>7, <2>3, <3>1
  <2> QED BY <2>2, <2>3
<1>9. s = x \o y BY <1>4, <1>7, <1>8, SeqEqual
<1> QED BY <1>9 DEF s, x, y, Joined

(* A frame is as long as its header says, and each cell of it tells so.      *)
LEMMA FrFrame ==
  ASSUME FrAssumption, NEW n \in Nat, NEW len \in Nat
  PROVE  /\ Framing!Frame(n, len) \in Seq(FrCell)
         /\ Len(Framing!Frame(n, len)) = HeaderLen + len
         /\ Framing!Frame(n, len)[1][2] = len
<1> DEFINE m == HeaderLen + len
<1>1. m \in Nat /\ 1 \in 1 .. m
  BY DEF FrAssumption, Framing!FramingAssumption
<1>2. Framing!Frame(n, len) = Framing!Cells(n, len, 1, m) BY DEF Framing!Frame
<1> HIDE DEF m
<1>3. /\ Framing!Cells(n, len, 1, m) \in Seq(FrCell)
      /\ Len(Framing!Cells(n, len, 1, m)) = m
      /\ \A i \in 1 .. m : Framing!Cells(n, len, 1, m)[i] = <<n, len, i>>
  <2>1. 0 \in Nat /\ 0 <= m /\ 1 = 0 + 1 BY <1>1
  <2>2. CellsAre(Framing!Cells(n, len, 1, m), n, len, 0, m) BY <1>1, <2>1, CellsSeq
  <2> QED BY <1>1, <2>2 DEF CellsAre
<1>4. Framing!Cells(n, len, 1, m)[1] = <<n, len, 1>> BY <1>1, <1>3
<1> QED BY <1>2, <1>3, <1>4 DEF m

(* The frames to come.                                                       *)
LEMMA FrRestSeq ==
  ASSUME FrAssumption, NEW from \in Nat, NEW s \in Seq(Nat),
         from <= Len(s)
  PROVE  /\ FrRest(from, s) \in Seq(Seq(FrCell))
         /\ Len(FrRest(from, s)) = Len(s) - from
         /\ FrBehind(from, s) \in Seq(FrCell)
<1> DEFINE n == Len(s) - from
           r == FrRest(from, s)
<1>1. Len(s) \in Nat /\ n \in Nat BY LenProperties
<1>2. \A i \in 1 .. n : s[from + i] \in Nat
  <2>1. \A i \in 1 .. n : from + i \in 1 .. Len(s) BY <1>1
  <2> QED BY <2>1, ElementOfSeq
<1>3. \A i \in 1 .. n : Framing!Frame(from + i, s[from + i]) \in Seq(FrCell)
  <2>1. SUFFICES ASSUME NEW i \in 1 .. n
                 PROVE Framing!Frame(from + i, s[from + i]) \in Seq(FrCell)
    OBVIOUS
  <2>2. from + i \in Nat /\ s[from + i] \in Nat BY <1>1, <1>2
  <2> QED BY <2>2, FrFrame
<1>4. r \in [1 .. n -> Seq(FrCell)] BY <1>3 DEF FrRest
<1> HIDE DEF n, r
<1>5. r \in Seq(Seq(FrCell)) /\ Len(r) = n BY <1>1, <1>4
<1>6. FlattenSeq(r) \in Seq(FrCell)
  <2>1. <<>> \in Seq(FrCell) BY EmptySeq
  <2> QED BY <1>5, <2>1, FlattenAppend
<1> QED BY <1>5, <1>6 DEF n, r, FrBehind

(* One more frame.                                                           *)
LEMMA FrRestAppend ==
  ASSUME FrAssumption, NEW from \in Nat, NEW s \in Seq(Nat),
         from <= Len(s), NEW t \in Nat
  PROVE  FrBehind(from, Append(s, t)) = FrBehind(from, s) \o Framing!Frame(Len(s) + 1, t)
<1> DEFINE n == Len(s) - from
           r == FrRest(from, s)
           s2 == Append(s, t)
           x == Framing!Frame(Len(s) + 1, t)
           r2 == FrRest(from, s2)
<1>1. Len(s) \in Nat /\ n \in Nat BY LenProperties
<1>2. s2 \in Seq(Nat) /\ Len(s2) = Len(s) + 1 /\ s2[Len(s) + 1] = t
      /\ \A i \in 1 .. Len(s) : s2[i] = s[i]
  BY AppendProperties
<1> HIDE DEF s2
<1>3. r \in Seq(Seq(FrCell)) /\ Len(r) = n BY FrRestSeq
<1>4. x \in Seq(FrCell) BY <1>1, FrFrame
<1>5. r2 \in Seq(Seq(FrCell)) /\ Len(r2) = n + 1
  <2>1. from <= Len(s2) /\ Len(s2) - from = n + 1 BY <1>1, <1>2
  <2> QED BY <1>2, <2>1, FrRestSeq
<1>6. \A i \in 1 .. n : r[i] = Framing!Frame(from + i, s[from + i]) BY DEF FrRest
<1>7. \A i \in 1 .. n + 1 : r2[i] = Framing!Frame(from + i, s2[from + i])
  BY <1>1, <1>2 DEF FrRest
<1> DEFINE a == Append(r, x)
<1>8. a \in Seq(Seq(FrCell)) /\ Len(a) = n + 1 /\ a[n + 1] = x
      /\ \A i \in 1 .. n : a[i] = r[i]
  BY <1>3, <1>4, AppendProperties
<1>9. \A i \in 1 .. n + 1 : r2[i] = a[i]
  <2>1. SUFFICES ASSUME NEW i \in 1 .. n + 1 PROVE r2[i] = a[i] OBVIOUS
  <2>2. CASE i = n + 1
    <3>1. from + i = Len(s) + 1 BY <1>1, <2>2
    <3> QED BY <1>2, <1>7, <1>8, <2>2, <3>1
  <2>3. CASE i # n + 1
    <3>1. i \in 1 .. n /\ from + i \in 1 .. Len(s) BY <1>1, <2>3
    <3> QED BY <1>2, <1>6, <1>7, <1>8, <3>1
  <2> QED BY <2>2, <2>3
<1> HIDE DEF r, r2, x, n, a
<1>10. r2 = a BY <1>5, <1>8, <1>9, SeqEqual
<1>11. FlattenSeq(a) = FlattenSeq(r) \o x BY <1>3, <1>4, FlattenAppend DEF a
<1> QED BY <1>10, <1>11 DEF r, r2, x, s2, FrBehind

(* The first of the frames to come.                                          *)
LEMMA FrRestFirst ==
  ASSUME FrAssumption, NEW from \in Nat, NEW s \in Seq(Nat),
         from < Len(s)
  PROVE  FrBehind(from, s)
           = Framing!Frame(from + 1, s[from + 1]) \o FrBehind(from + 1, s)
<1> DEFINE n == Len(s) - from
           r == FrRest(from, s)
           x == Framing!Frame(from + 1, s[from + 1])
           r2 == FrRest(from + 1, s)
           o == <<x>>
<1>1. Len(s) \in Nat /\ n \in Nat /\ n - 1 \in Nat /\ from + 1 \in Nat /\ from + 1 \in 1 .. Len(s)
      /\ from <= Len(s) /\ from + 1 <= Len(s) /\ Len(s) - (from + 1) = n - 1
  <2>1. Len(s) \in Nat BY LenProperties
  <2> QED BY <2>1
<1>2. r \in Seq(Seq(FrCell)) /\ Len(r) = n
  <2>1. from <= Len(s) BY <1>1
  <2> QED BY <2>1, FrRestSeq
<1>3. r2 \in Seq(Seq(FrCell)) /\ Len(r2) = n - 1
  <2> DEFINE j == from + 1
  <2>1. j \in Nat /\ j <= Len(s) /\ Len(s) - j = n - 1 BY <1>1
  <2> HIDE DEF j, n
  <2>2. /\ FrRest(j, s) \in Seq(Seq(FrCell))
        /\ Len(FrRest(j, s)) = Len(s) - j
    BY <2>1, FrRestSeq
  <2> QED BY <2>1, <2>2 DEF j
<1>4. x \in Seq(FrCell)
  <2>1. s[from + 1] \in Nat BY <1>1, ElementOfSeq
  <2> QED BY <1>1, <2>1, FrFrame
<1>5. \A i \in 1 .. n : r[i] = Framing!Frame(from + i, s[from + i]) BY DEF FrRest
<1>6. \A i \in 1 .. n - 1 : r2[i] = Framing!Frame(from + 1 + i, s[from + 1 + i])
  BY <1>1 DEF FrRest
<1>7. r[1] = x BY <1>1, <1>5
<1> HIDE DEF n, x, r, r2
<1>8. o \in Seq(Seq(FrCell)) /\ Len(o) = 1 /\ o[1] = x BY <1>4
<1> HIDE DEF o
<1>9. o \o r2 \in Seq(Seq(FrCell)) /\ Len(o \o r2) = n
      /\ \A i \in 1 .. n : (o \o r2)[i] = IF i <= 1 THEN o[i] ELSE r2[i - 1]
  <2>1. o \o r2 \in Seq(Seq(FrCell)) /\ Len(o \o r2) = Len(o) + Len(r2)
        /\ \A i \in 1 .. Len(o) + Len(r2) :
             (o \o r2)[i] = IF i <= Len(o) THEN o[i] ELSE r2[i - Len(o)]
    BY <1>3, <1>8, ConcatProperties
  <2>2. Len(o) + Len(r2) = n BY <1>1, <1>3, <1>8
  <2> QED BY <1>8, <2>1, <2>2
<1>10. \A i \in 1 .. n : r[i] = (o \o r2)[i]
  <2>1. SUFFICES ASSUME NEW i \in 1 .. n PROVE r[i] = (o \o r2)[i] OBVIOUS
  <2>2. CASE i = 1
    <3>1. (o \o r2)[i] = o[1]
      <4>1. i <= 1 BY <2>2
      <4> QED BY <1>9, <2>1, <2>2, <4>1
    <3> QED BY <1>7, <1>8, <2>2, <3>1
  <2>3. CASE i # 1
    <3>1. i - 1 \in 1 .. n - 1 /\ ~(i <= 1) /\ from + 1 + (i - 1) = from + i BY <1>1, <2>3
    <3>2. r2[i - 1] = Framing!Frame(from + 1 + (i - 1), s[from + 1 + (i - 1)]) BY <1>6, <3>1
    <3>3. (o \o r2)[i] = r2[i - 1] BY <1>9, <3>1
    <3>4. r2[i - 1] = Framing!Frame(from + i, s[from + i]) BY <3>1, <3>2
    <3>5. r[i] = Framing!Frame(from + i, s[from + i]) BY <1>5
    <3> QED BY <3>3, <3>4, <3>5
  <2> QED BY <2>2, <2>3
<1>11. r = o \o r2 BY <1>2, <1>9, <1>10, SeqEqual
<1>12. FlattenSeq(o \o r2) = FlattenSeq(o) \o FlattenSeq(r2) BY <1>3, <1>8, FlattenConcat
<1>13. FlattenSeq(o) = x BY <1>4, FlattenOne DEF o
<1> QED BY <1>11, <1>12, <1>13 DEF r, r2, x, FrBehind

(* Nothing is to come when all frames were taken.                 *)
LEMMA FrRestEmpty ==
  ASSUME NEW s \in Seq(Nat)
  PROVE  FrBehind(Len(s), s) = <<>>
<1>1. Len(s) \in Nat BY LenProperties
<1>2. 1 .. Len(s) - Len(s) = {} BY <1>1
<1>3. FrRest(Len(s), s) = <<>> BY <1>2 DEF FrRest
<1> QED BY <1>3, FlattenEmpty DEF FrBehind
(* RECORD_SIZE * maxBatch                                                    *)
LEMMA BatchFits ==
  ASSUME FrAssumption
  PROVE  /\ Framing!maxBatch \in Nat \ {0}
         /\ \A n \in 1 .. Framing!maxBatch :
              /\ RECORD_SIZE <= RECORD_SIZE * n /\ RECORD_SIZE * n \in Nat
              /\ HeaderLen + (FixedLen + RECORD_SIZE * n) <= MessageSize
         /\ HeaderLen + FixedLen + RECORD_SIZE <= MessageSize
<1> DEFINE a == MessageSize - FixedLen - HeaderLen
           d == RECORD_SIZE
           q == Framing!maxBatch
<1>1. a \in Int /\ d \in Nat \ {0} /\ q > 0
  BY DEF FrAssumption, Framing!FramingAssumption
<1>2. q = a \div d BY DEF Framing!maxBatch
<1> HIDE DEF q
<1> DEFINE aa == a
           dd == d
<1> HIDE DEF aa, dd
<1>3. (aa \div dd) \in Int /\ dd * (aa \div dd) <= aa
  <2>1. aa \in Int /\ dd \in Int /\ dd > 0 BY <1>1 DEF aa, dd
  <2> QED BY <2>1
<1>4. q \in Nat \ {0} /\ d * q <= a BY <1>1, <1>2, <1>3 DEF aa, dd
<1>5. \A n \in 1 .. q : n \in Nat /\ d <= d * n /\ d * n \in Nat /\ d * n <= d * q
  <2>1. SUFFICES ASSUME NEW n \in 1 .. q
                 PROVE n \in Nat /\ d <= d * n /\ d * n \in Nat /\ d * n <= d * q
    OBVIOUS
  <2>2. n \in Nat /\ n - 1 \in Nat /\ q - n \in Nat BY <1>4
  <2>3. d * (n - 1) \in Nat /\ d * (q - n) \in Nat BY <1>1, <2>2
  <2>4. d * n = d + d * (n - 1) /\ d * q = d * n + d * (q - n) BY <1>1, <1>4, <2>2
  <2> QED BY <1>1, <2>2, <2>3, <2>4
<1>6. HeaderLen \in Nat /\ FixedLen \in Nat /\ MessageSize \in Nat
  BY DEF FrAssumption, Framing!FramingAssumption
<1>7. \A n \in 1 .. q : /\ d <= d * n /\ d * n \in Nat
                         /\ HeaderLen + (FixedLen + d * n) <= MessageSize
  <2>1. SUFFICES ASSUME NEW n \in 1 .. q
                 PROVE HeaderLen + (FixedLen + d * n) <= MessageSize
    BY <1>5
  <2> DEFINE x == d * n
             y == d * q
  <2>2. x \in Nat /\ x <= y /\ y <= a /\ y \in Int BY <1>1, <1>4, <1>5
  <2> HIDE DEF x, y
  <2>3. HeaderLen + (FixedLen + x) <= MessageSize BY <1>6, <2>2
  <2> QED BY <2>3 DEF x
<1>8. HeaderLen + FixedLen + d <= MessageSize
  <2> DEFINE x == d * 1
  <2>1. 1 \in 1 .. q /\ x = d BY <1>1, <1>4
  <2>2. HeaderLen + (FixedLen + x) <= MessageSize BY <1>7, <2>1
  <2> HIDE DEF x
  <2> QED BY <1>1, <1>6, <2>1, <2>2
<1> QED BY <1>4, <1>7, <1>8 DEF q

FrType ==
  /\ bpc \in {"select", "packets", "assert"} /\ wpc \in {"recv", "loop", "register", "cut"}
  /\ fpc \in {"idle", "batch"}
  /\ mSendBuffer \in Seq(FrCell) /\ mRecvBuffer \in Seq(FrCell)
  /\ up \in Seq(FrCell) /\ down \in Seq(FrCell)
  /\ mBuffer \in [0 .. Size - 1 -> FrCell] /\ mFront \in 0 .. Size - 1 /\ mRear \in 0 .. Size - 1
  /\ mSendQ \in Seq(Seq(FrCell)) /\ mSendOv \in Seq(Seq(FrCell)) /\ msg \in Seq(FrCell)
  /\ cnt \in Nat /\ PlayerCnt \in Nat /\ handled \in Nat
  /\ sent \in Seq(Lens) /\ received \in Seq(Seq(FrCell)) /\ promised \in Seq(Nat)

(* What is not yet with onRecv is in the ring, on its way or to be sent.     *)
FrUp ==
  /\ Len(received) <= Len(sent)
  /\ \A n \in 1 .. Len(received) :
       received[n] = Framing!Cells(n, sent[n], HeaderLen + 1, HeaderLen + sent[n])
  /\ Follows(FrHeld, up \o mSendBuffer, FrBehind(Len(received), sent), TRUE)

(* What the client has not handled is in its buffer, on its way or posted,   *)
(* but for the Message in the making.                                        *)
FrDown ==
  /\ handled <= Len(FrDone)
  /\ Follows(mRecvBuffer, down \o FrOut, FrBehind(handled, FrDone), TRUE)

FrWorker ==
  /\ wpc = "recv" => wsabuf = Framing!Posted(mFront, mRear)
  /\ wpc = "register" => Framing!Free # 0
  /\ wpc = "cut" => \E n \in 1 .. Len(sent) : sent[n] = 0 /\ n = Len(received) + 1

(* The Message in the making has PlayerCnt characters to get.                *)
FrBatch ==
  /\ fpc = "idle" => msg = <<>>
  /\ PlayerCnt <= cnt
  /\ msg = <<>> => PlayerCnt = 0
  /\ \A i \in 1 .. Len(promised) : HeaderLen + promised[i] <= MessageSize
  /\ msg # <<>> =>
       /\ promised # <<>>
       /\ Len(msg) + RECORD_SIZE * PlayerCnt = HeaderLen + promised[Len(promised)]
       /\ msg = Framing!Cells(Len(promised), promised[Len(promised)], 1, Len(msg))

FrBot ==
  /\ bpc = "select" => Len(mRecvBuffer) < BotRecvSize
  /\ bpc = "assert" => \E len \in Lens : Len(mSendBuffer) + HeaderLen + len > SendSize

FrInv == FrType /\ FrUp /\ FrDown /\ FrWorker /\ FrBatch /\ FrBot

(* Bytes go from one part of the stream to the part before it.               *)
LEMMA FollowsPasses ==
  ASSUME NEW C, NEW b \in Seq(C), NEW w \in Seq(C), NEW z \in Seq(C), NEW n \in 0 .. Len(w),
         NEW s, NEW whole, Follows(b, w \o z, s, whole)
  PROVE  /\ SubSeq(w, 1, n) \in Seq(C) /\ Len(SubSeq(w, 1, n)) = n
         /\ SubSeq(w, n + 1, Len(w)) \in Seq(C) /\ b \o SubSeq(w, 1, n) \in Seq(C)
         /\ Follows(b \o SubSeq(w, 1, n), SubSeq(w, n + 1, Len(w)) \o z, s, whole)
<1> DEFINE x == SubSeq(w, 1, n)
           y == SubSeq(w, n + 1, Len(w))
<1>1. x \in Seq(C) /\ y \in Seq(C) /\ Len(x) = n /\ x \o y = w BY CutInTwo
<1> HIDE DEF x, y
<1>2. x \in Seq(C) /\ y \in Seq(C) BY <1>1
<1>3. y \o z \in Seq(C) BY ONLY <1>2, z \in Seq(C), ConcatProperties
<1>4. (b \o x) \o (y \o z) = b \o (x \o (y \o z))
  <2> DEFINE yz == y \o z
  <2>1. x \in Seq(C) BY <1>2
  <2>2. yz \in Seq(C) BY <1>3
  <2> HIDE DEF yz
  <2>3. (b \o x) \o yz = b \o (x \o yz)
    BY ONLY <2>1, <2>2, b \in Seq(C), ConcatAssociative, SMTT(30)
  <2> QED BY <2>3 DEF yz
<1>5. (x \o y) \o z = x \o (y \o z)
  <2>1. x \in Seq(C) BY <1>2
  <2>2. y \in Seq(C) BY <1>2
  <2> QED BY ONLY <2>1, <2>2, z \in Seq(C), ConcatAssociative, SMTT(30)
<1>6. (b \o x) \o (y \o z) = b \o (w \o z) BY <1>1, <1>4, <1>5
<1>7. Follows(b \o x, y \o z, s, whole) BY <1>6 DEF Follows
<1>8. b \o x \in Seq(C) BY ONLY <1>2, b \in Seq(C), ConcatProperties
<1> QED BY <1>1, <1>7, <1>8 DEF x, y

(* The first cell in a buffer is of the first frame that is to come.         *)
LEMMA FrHeaderKnown ==
  ASSUME FrAssumption, NEW s \in Seq(Nat), NEW k \in Nat, k <= Len(s),
         NEW b \in Seq(FrCell), NEW w \in Seq(FrCell), NEW whole,
         Follows(b, w, FrBehind(k, s), whole), b # <<>>
  PROVE  k < Len(s) /\ k + 1 \in 1 .. Len(s) /\ s[k + 1] \in Nat /\ b[1][2] = s[k + 1]
<1> DEFINE all == FrBehind(k, s)
<1>1. all \in Seq(FrCell) BY FrRestSeq
<1>2. Len(s) \in Nat BY LenProperties
<1> HIDE DEF all
<1>3. all # <<>> /\ b[1] = all[1]
  <2>1. Follows(b, w, all, whole) BY DEF all
  <2> QED BY <1>1, <2>1, FollowsFirst
<1>4. k # Len(s)
  <2>1. SUFFICES ASSUME k = Len(s) PROVE FALSE OBVIOUS
  <2>2. all = <<>> BY <2>1, FrRestEmpty DEF all
  <2> QED BY <1>3, <2>2
<1>5. k < Len(s) /\ k + 1 \in Nat /\ k + 1 \in 1 .. Len(s) /\ k + 1 <= Len(s) BY <1>2, <1>4
<1> DEFINE j == k + 1
           t == s[j]
           fr == Framing!Frame(j, t)
           rest == FrBehind(j, s)
<1>6. t \in Nat BY <1>5, ElementOfSeq
<1>7. all = fr \o rest BY <1>5, FrRestFirst DEF all
<1> HIDE DEF j
<1>8. j \in Nat /\ j <= Len(s) BY <1>5 DEF j
<1>9. rest \in Seq(FrCell) BY <1>8, FrRestSeq
<1> HIDE DEF t
<1>10. fr \in Seq(FrCell) BY <1>6, <1>8, FrFrame
<1>11. Len(fr) = HeaderLen + t BY <1>6, <1>8, FrFrame
<1>12. fr[1][2] = t BY <1>6, <1>8, FrFrame
<1>13. HeaderLen \in Nat \ {0} BY DEF FrAssumption, Framing!FramingAssumption
<1> HIDE DEF fr, rest
<1>14. (fr \o rest)[1] = fr[1]
  <2>1. \A i \in 1 .. Len(fr) + Len(rest) :
          (fr \o rest)[i] = IF i <= Len(fr) THEN fr[i] ELSE rest[i - Len(fr)]
    BY <1>9, <1>10, ConcatProperties
  <2>2. 1 \in 1 .. Len(fr) + Len(rest) /\ 1 <= Len(fr)
    BY <1>6, <1>9, <1>11, <1>13, LenProperties
  <2> QED BY <2>1, <2>2
<1> QED BY <1>3, <1>5, <1>6, <1>7, <1>12, <1>14 DEF j, t

(* A whole frame is cut off: the header, the payload, and what follows.      *)
FrCut(b, w, s, whole, j, len) ==
  /\ SubSeq(b, HeaderLen + 1, Len(b)) \in Seq(FrCell)
  /\ SubSeq(SubSeq(b, HeaderLen + 1, Len(b)), 1, len)
       = Framing!Cells(j, len, HeaderLen + 1, HeaderLen + len)
  /\ Follows(SubSeq(SubSeq(b, HeaderLen + 1, Len(b)), len + 1, Len(b) - HeaderLen), w,
             FrBehind(j, s), whole)

(* What is left when the next frame leaves a buffer follows as before.       *)
LEMMA FrFrameCut ==
  ASSUME FrAssumption, NEW s \in Seq(Nat), NEW k \in Nat, k < Len(s),
         NEW b \in Seq(FrCell), NEW w \in Seq(FrCell), NEW whole,
         Follows(b, w, FrBehind(k, s), whole), NEW j, j = k + 1, NEW len, len = s[j],
         HeaderLen + len <= Len(b)
  PROVE  FrCut(b, w, s, whole, j, len)
<1> DEFINE hl == HeaderLen
           h == Framing!Cells(j, len, 1, hl)
           body == Framing!Cells(j, len, hl + 1, hl + len)
           rest == FrBehind(j, s)
           br == body \o rest
           b1 == SubSeq(b, hl + 1, Len(b))
<1>1. Len(s) \in Nat /\ Len(b) \in Nat BY LenProperties
<1>2. j \in Nat /\ j \in 1 .. Len(s) /\ j <= Len(s) BY <1>1
<1>3. len \in Nat BY <1>2, ElementOfSeq
<1>4. hl \in Nat \ {0} BY DEF FrAssumption, Framing!FramingAssumption
<1>5. FrBehind(k, s) = Framing!Frame(j, len) \o rest BY FrRestFirst
<1>6. rest \in Seq(FrCell) BY <1>2, FrRestSeq
<1> HIDE DEF hl
<1>7. 0 \in Nat /\ 0 <= hl /\ 1 = 0 + 1 /\ hl \in Nat BY <1>4
<1> DEFINE to == hl + len
           from == hl + 1
<1>8. to \in Nat /\ hl <= to /\ from = hl + 1 /\ to - hl = len BY <1>3, <1>4
<1>9. Framing!Frame(j, len) = Framing!Cells(j, len, 1, to) BY DEF Framing!Frame, hl
<1>10. body = Framing!Cells(j, len, from, to) OBVIOUS
<1> HIDE DEF to, from, body
<1>11. h \in Seq(FrCell) /\ Len(h) = hl
  <2>1. CellsAre(h, j, len, 0, hl) BY <1>2, <1>3, <1>7, CellsSeq
  <2> QED BY <1>7, <2>1 DEF CellsAre
<1>12. body \in Seq(FrCell) /\ Len(body) = len
  <2>1. CellsAre(body, j, len, hl, to) BY <1>2, <1>3, <1>7, <1>8, <1>10, CellsSeq
  <2> QED BY <1>8, <2>1 DEF CellsAre
<1>13. Framing!Frame(j, len) = h \o body
  <2>1. Joined(h, body, Framing!Cells(j, len, 1, to))
    BY <1>2, <1>3, <1>7, <1>8, <1>10, CellsSplit
  <2> QED BY <1>9, <2>1 DEF Joined
<1> HIDE DEF h, body, rest
<1>14. br \in Seq(FrCell) BY <1>6, <1>12, ConcatProperties
<1>15. FrBehind(k, s) = h \o br
  <2>1. body \in Seq(FrCell) /\ h \in Seq(FrCell) BY <1>11, <1>12
  <2>2. (h \o body) \o rest = h \o (body \o rest)
    <3>1. rest \in Seq(FrCell) BY <1>6
    <3> QED BY ONLY <2>1, <3>1, ConcatAssociative, SMTT(30)
  <2> QED BY <1>5, <1>13, <2>2
<1>16. b1 \in Seq(FrCell) /\ Len(b1) = Len(b) - hl
  <2>1. hl \in 0 .. Len(b) BY <1>1, <1>3, <1>4 DEF hl
  <2> QED BY <2>1, CutInTwo
<1>17. Follows(b1, w, br, whole)
  <2> HIDE DEF br
  <2>1. Follows(b, w, h \o br, whole) BY <1>15
  <2>2. Len(h) <= Len(b) BY <1>1, <1>3, <1>4, <1>11 DEF hl
  <2>3. Follows(SubSeq(b, Len(h) + 1, Len(b)), w, br, whole)
    BY <1>11, <1>14, <2>1, <2>2, FollowsCut
  <2> QED BY <1>11, <2>3
<1> HIDE DEF b1
<1>18. Len(body) <= Len(b1) BY <1>1, <1>3, <1>4, <1>12, <1>16 DEF hl
<1>19. SubSeq(b1, 1, len) = body /\ Follows(SubSeq(b1, len + 1, Len(b1)), w, rest, whole)
  <2>1. Follows(b1, w, body \o rest, whole) BY <1>17
  <2>2. b1 \in Seq(FrCell) BY <1>16
  <2>3. body \in Seq(FrCell) BY <1>12
  <2>4. SubSeq(b1, 1, Len(body)) = body BY <1>6, <1>18, <2>1, <2>2, <2>3, FollowsCut
  <2>5. Follows(SubSeq(b1, Len(body) + 1, Len(b1)), w, rest, whole)
    BY <1>6, <1>18, <2>1, <2>2, <2>3, FollowsCut
  <2> QED BY <1>12, <2>4, <2>5
<1> QED BY <1>16, <1>19 DEF b1, body, rest, hl, FrCut

(* What the session reads off its ring.                                      *)
LEMMA FrRing ==
  ASSUME FrAssumption, FrType
  PROVE  /\ Framing!UseSize = GetUseSize(mFront, mRear)
         /\ Framing!Free = GetFreeSize(mFront, mRear)
         /\ FrHeld \in Seq(FrCell) /\ Len(FrHeld) = Framing!UseSize
         /\ Framing!UseSize \in 0 .. Size - 1
         /\ Framing!Contents = FrHeld
         /\ HeaderLen < Framing!UseSize => Framing!LenOf(Framing!Header) = FrHeld[1][2]
<1> DEFINE f == mFront
           r == mRear
           use == GetUseSize(f, r)
           direct == GetDirectUseSize(f, r)
<1>1. /\ mBuffer \in [0 .. Size - 1 -> FrCell] /\ f \in 0 .. Size - 1 /\ r \in 0 .. Size - 1
  BY DEF FrType
<1>2. FrHeld \in Seq(FrCell) /\ Len(FrHeld) = use /\ use \in 0 .. Size - 1
  <2> HIDE DEF f, r
  <2>1. Held(mBuffer, f, r) \in Seq(FrCell) /\ Len(Held(mBuffer, f, r)) = use
        /\ use \in 0 .. Size - 1
    BY <1>1, HeldSeq
  <2> QED BY <2>1 DEF FrHeld, f, r
<1>3. Framing!UseSize = use BY DEF Framing!UseSize, Framing!Ring!GetUseSize, GetUseSize
<1>4. Framing!Free = GetFreeSize(f, r)
  BY DEF Framing!Free, Framing!Ring!GetFreeSize, GetFreeSize
<1>5. ASSUME NEW n \in Nat, n <= use
      PROVE  Framing!Taken(f, Framing!Ring!GetDirectUseSize(f, r), n) = SubSeq(FrHeld, 1, n)
  <2>1. Framing!Taken(f, Framing!Ring!GetDirectUseSize(f, r), n) = CopiedOut(mBuffer, f, direct, n)
    BY DEF Framing!Taken, Framing!Ring!Cell, Cell, Framing!Ring!GetDirectUseSize,
           GetDirectUseSize, CopiedOut
  <2> HIDE DEF f, r
  <2>2. CopiedOut(mBuffer, f, direct, n) = SubSeq(Held(mBuffer, f, r), 1, n)
    BY <1>1, <1>5, HeldRead
  <2> QED BY <2>1, <2>2 DEF FrHeld, f, r
<1>6. Framing!Contents = FrHeld
  <2>1. use \in Nat /\ use <= use BY <1>2, SizeAssumption
  <2>2. Framing!Contents = SubSeq(FrHeld, 1, use)
    BY <1>3, <1>5, <2>1 DEF Framing!Contents
  <2> QED BY <1>2, <2>2, SubSeqFull
<1>7. ASSUME HeaderLen < use PROVE Framing!LenOf(Framing!Header) = FrHeld[1][2]
  <2> DEFINE n == HeaderLen
             x == SubSeq(FrHeld, 1, n)
             y == SubSeq(FrHeld, n + 1, Len(FrHeld))
  <2>1. n \in Nat \ {0} /\ n <= use /\ n \in 0 .. Len(FrHeld)
    BY <1>2, <1>7, SizeAssumption DEF FrAssumption, Framing!FramingAssumption
  <2>2. Framing!Header = x BY <1>5, <2>1 DEF Framing!Header
  <2>3. x[1] = FrHeld[1]
    <3> HIDE DEF n
    <3>1. x \in Seq(FrCell) /\ Len(x) = n /\ y \in Seq(FrCell) /\ x \o y = FrHeld
      BY <1>2, <2>1, CutInTwo
    <3> HIDE DEF x, y
    <3>2. \A i \in 1 .. Len(x) + Len(y) :
            (x \o y)[i] = IF i <= Len(x) THEN x[i] ELSE y[i - Len(x)]
      BY <3>1, ConcatProperties
    <3>3. 1 <= Len(x) /\ 1 \in 1 .. Len(x) + Len(y) BY <2>1, <3>1, LenProperties
    <3> QED BY <3>1, <3>2, <3>3
  <2> QED BY <2>2, <2>3 DEF Framing!LenOf
<1> QED BY <1>2, <1>3, <1>4, <1>6, <1>7

(* The sequences and numbers of a state of the framing.                      *)
LEMMA FrBasics ==
  ASSUME FrAssumption, FrType
  PROVE  /\ HeaderLen \in Nat \ {0} /\ FixedLen \in Nat \ {0} /\ RECORD_SIZE \in Nat \ {0}
         /\ MessageSize \in Nat /\ BotRecvSize \in Nat /\ SendSize \in Nat
         /\ sent \in Seq(Nat) /\ Len(sent) \in Nat
         /\ Len(received) \in Nat /\ Len(promised) \in Nat
         /\ FrDone \in Seq(Nat) /\ Len(FrDone) \in Nat
         /\ FlattenSeq(mSendOv) \in Seq(FrCell) /\ FlattenSeq(mSendQ) \in Seq(FrCell)
         /\ FrOut \in Seq(FrCell)
         /\ up \o mSendBuffer \in Seq(FrCell) /\ down \o FrOut \in Seq(FrCell)
<1>1. Lens \subseteq Nat BY DEF FrAssumption, Framing!FramingAssumption
<1>2. sent \in Seq(Nat)
  <2>1. sent \in Seq(Lens) BY DEF FrType
  <2>2. Len(sent) \in Nat /\ sent \in [1 .. Len(sent) -> Lens] BY <2>1, LenProperties
  <2>3. sent \in [1 .. Len(sent) -> Nat] BY <1>1, <2>2
  <2> QED BY <2>2, <2>3
<1>3. Len(sent) \in Nat /\ Len(received) \in Nat /\ Len(promised) \in Nat
  BY <1>2, LenProperties DEF FrType
<1>4. FrDone \in Seq(Nat)
  <2>1. promised \in Seq(Nat) BY DEF FrType
  <2>2. CASE Len(promised) = 0
    <3>1. promised = <<>> BY <2>1, <2>2, EmptySeq
    <3>2. SubSeq(promised, 1, Len(promised) - 1) = <<>> BY <3>1
    <3> QED BY <2>1, <3>2, EmptySeq DEF FrDone
  <2>3. CASE Len(promised) # 0
    <3>1. Len(promised) - 1 \in 0 .. Len(promised) BY <1>3, <2>3
    <3>2. SubSeq(promised, 1, Len(promised) - 1) \in Seq(Nat) BY <2>1, <3>1, CutInTwo
    <3> QED BY <2>1, <3>2 DEF FrDone
  <2> QED BY <2>2, <2>3
<1>5. Len(FrDone) \in Nat BY <1>4, LenProperties
<1>6. FlattenSeq(mSendOv) \in Seq(FrCell) /\ FlattenSeq(mSendQ) \in Seq(FrCell)
  <2>1. <<>> \in Seq(FrCell) BY EmptySeq
  <2> QED BY <2>1, FlattenAppend DEF FrType
<1>7. FrOut \in Seq(FrCell) BY <1>6, ConcatProperties DEF FrOut
<1>8. up \o mSendBuffer \in Seq(FrCell) /\ down \o FrOut \in Seq(FrCell)
  BY <1>7, ConcatProperties DEF FrType
<1>9. /\ HeaderLen \in Nat \ {0} /\ FixedLen \in Nat \ {0} /\ RECORD_SIZE \in Nat \ {0}
      /\ MessageSize \in Nat /\ BotRecvSize \in Nat /\ SendSize \in Nat
  BY DEF FrAssumption, Framing!FramingAssumption
<1> QED BY <1>2, <1>3, <1>4, <1>5, <1>6, <1>7, <1>8, <1>9

(* A Message that has got all it promised is a frame.                        *)
LEMMA FrMessageDone ==
  ASSUME FrAssumption, FrType, FrBatch, PlayerCnt = 0, msg # <<>>
  PROVE  /\ promised # <<>> /\ promised[Len(promised)] \in Nat
         /\ Len(promised) = Len(FrDone) + 1
         /\ promised = Append(FrDone, promised[Len(promised)])
         /\ msg = Framing!Frame(Len(promised), promised[Len(promised)])
<1> DEFINE n == Len(promised)
           t == promised[n]
           d == SubSeq(promised, 1, n - 1)
<1>1. promised \in Seq(Nat) /\ promised # <<>> BY DEF FrType, FrBatch
<1>2. n \in Nat \ {0} BY <1>1, EmptySeq, LenProperties
<1>3. t \in Nat BY <1>1, <1>2, ElementOfSeq
<1>4. FrDone = d BY DEF FrDone
<1>5. d \in Seq(Nat) /\ Len(d) = n - 1
  <2>1. n - 1 \in 0 .. Len(promised) BY <1>2
  <2> HIDE DEF n
  <2> QED BY <1>1, <2>1, CutInTwo
<1>6. promised = Append(d, t)
  <2>1. /\ Append(d, t) \in Seq(Nat) /\ Len(Append(d, t)) = n /\ Append(d, t)[n] = t
        /\ \A i \in 1 .. n - 1 : Append(d, t)[i] = d[i]
    <3>1. Len(d) + 1 = n BY <1>2, <1>5
    <3> QED BY <1>3, <1>5, <3>1, AppendProperties
  <2>2. \A i \in 1 .. n - 1 : d[i] = promised[i]
    <3>1. \A i \in 1 .. n - 1 : promised[i] \in Nat /\ 1 + i - 1 = i /\ i \in 1 .. Len(d)
      BY <1>1, <1>2, <1>5, ElementOfSeq
    <3> QED BY <1>2, <3>1, SubSeqProperties
  <2>3. \A i \in 1 .. n : promised[i] = Append(d, t)[i]
    <3>1. SUFFICES ASSUME NEW i \in 1 .. n PROVE promised[i] = Append(d, t)[i] OBVIOUS
    <3>2. i = n \/ i \in 1 .. n - 1 BY <1>2
    <3> HIDE DEF d
    <3> QED BY <2>1, <2>2, <3>2
  <2> DEFINE a == Append(d, t)
  <2>4. a \in Seq(Nat) /\ Len(a) = Len(promised) /\ \A i \in 1 .. Len(promised) : promised[i] = a[i]
    BY <2>1, <2>3
  <2> HIDE DEF a
  <2>5. promised = a BY <1>1, <2>4, SeqEqual
  <2> QED BY <2>5 DEF a
<1>7. msg = Framing!Frame(n, t)
  <2>1. Len(msg) + RECORD_SIZE * 0 = HeaderLen + t /\ msg = Framing!Cells(n, t, 1, Len(msg))
    BY DEF FrBatch
  <2>2. Len(msg) = HeaderLen + t
    <3>1. Len(msg) \in Nat /\ RECORD_SIZE * 0 = 0 BY FrBasics, LenProperties DEF FrType
    <3> QED BY <2>1, <3>1
  <2> QED BY <2>1, <2>2 DEF Framing!Frame
<1> QED BY <1>1, <1>2, <1>3, <1>4, <1>5, <1>6, <1>7

(* sendPost: the Messages that are done are on their way.                    *)
LEMMA FrPosted ==
  ASSUME FrAssumption, FrType, FrDown, FrBatch, PlayerCnt = 0, Framing!sendPost(msg)
  PROVE  /\ mSendQ' \in Seq(Seq(FrCell)) /\ handled <= Len(promised)
         /\ Follows(mRecvBuffer, down \o (FlattenSeq(mSendOv) \o FlattenSeq(mSendQ')),
                    FrBehind(handled, promised), TRUE)
<1>1. /\ FrDone \in Seq(Nat) /\ Len(FrDone) \in Nat /\ handled \in Nat /\ handled <= Len(FrDone)
      /\ FlattenSeq(mSendOv) \in Seq(FrCell) /\ FlattenSeq(mSendQ) \in Seq(FrCell)
      /\ FrOut \in Seq(FrCell) /\ down \o FrOut \in Seq(FrCell)
      /\ down \in Seq(FrCell) /\ mRecvBuffer \in Seq(FrCell)
  BY FrBasics DEF FrType, FrDown
<1>2. Follows(mRecvBuffer, down \o FrOut, FrBehind(handled, FrDone), TRUE) BY DEF FrDown
<1>3. CASE msg = <<>>
  <2>1. mSendQ' = mSendQ /\ FrDone = promised BY <1>3 DEF Framing!sendPost, FrDone
  <2>2. mSendQ \in Seq(Seq(FrCell)) BY DEF FrType
  <2> QED BY <1>1, <1>2, <2>1, <2>2 DEF FrOut
<1>4. CASE msg # <<>>
  <2> DEFINE n == Len(promised)
             t == promised[n]
             fr == Framing!Frame(n, t)
             oq == FlattenSeq(mSendOv)
             sq == FlattenSeq(mSendQ)
             s == FrBehind(handled, FrDone)
  <2>1. t \in Nat /\ n = Len(FrDone) + 1 /\ promised = Append(FrDone, t) /\ msg = fr
    BY <1>4, FrMessageDone
  <2>2. mSendQ' = Append(mSendQ, msg) BY <1>4 DEF Framing!sendPost
  <2>3. mSendQ \in Seq(Seq(FrCell)) /\ msg \in Seq(FrCell) BY DEF FrType
  <2>4. mSendQ' \in Seq(Seq(FrCell)) /\ FlattenSeq(mSendQ') = sq \o msg
    BY <2>2, <2>3, AppendProperties, FlattenAppend
  <2>5. FrBehind(handled, promised) = s \o msg
    <3> HIDE DEF n, t
    <3>1. FrBehind(handled, Append(FrDone, t)) = s \o Framing!Frame(Len(FrDone) + 1, t)
      BY <1>1, <2>1, FrRestAppend
    <3> QED BY <2>1, <3>1
  <2>6. s \in Seq(FrCell) BY <1>1, FrRestSeq
  <2> HIDE DEF s, oq, sq, n, t, fr
  <2> DEFINE w == down \o FrOut
  <2>7. w \in Seq(FrCell) /\ Follows(mRecvBuffer, w, s, TRUE) BY <1>1, <1>2 DEF s
  <2>8. w \o msg = down \o (oq \o (sq \o msg))
    <3>1. oq \in Seq(FrCell) /\ sq \in Seq(FrCell) BY <1>1 DEF oq, sq
    <3>2. w = down \o (oq \o sq) BY DEF FrOut, oq, sq
    <3>3. (oq \o sq) \o msg = oq \o (sq \o msg) BY ONLY <2>3, <3>1, ConcatAssociative, SMTT(30)
    <3> DEFINE x == oq \o sq
    <3>4. x \in Seq(FrCell) /\ down \in Seq(FrCell) /\ msg \in Seq(FrCell)
      BY <1>1, <2>3, <3>1, ConcatProperties
    <3> HIDE DEF x
    <3>5. (down \o x) \o msg = down \o (x \o msg) BY ONLY <3>4, ConcatAssociative, SMTT(30)
    <3> QED BY <3>2, <3>3, <3>5 DEF x
  <2> HIDE DEF w
  <2>9. Follows(mRecvBuffer, w \o msg, s \o msg, TRUE)
    BY <1>1, <2>3, <2>6, <2>7, FollowsMore
  <2>10. handled <= Len(promised)
    <3>1. Len(promised) = Len(FrDone) + 1 BY <2>1 DEF n
    <3> QED BY <1>1, <3>1
  <2> QED BY <2>4, <2>5, <2>8, <2>9, <2>10 DEF oq
<1> QED BY <1>3, <1>4

(* A Message for k characters promises them and gets the first.              *)
LEMMA FrNewMessage ==
  ASSUME FrAssumption, FrType, NEW k \in 1 .. Framing!maxBatch, Framing!NewMessage(k)
  PROVE  /\ promised' \in Seq(Nat) /\ Len(promised') = Len(promised) + 1
         /\ promised' = Append(promised, FixedLen + RECORD_SIZE * k)
         /\ promised'[Len(promised')] = FixedLen + RECORD_SIZE * k
         /\ HeaderLen + (FixedLen + RECORD_SIZE * k) <= MessageSize
         /\ msg' \in Seq(FrCell) /\ msg' # <<>> /\ Len(msg') <= MessageSize
         /\ msg' = Framing!Cells(Len(promised'), promised'[Len(promised')], 1, Len(msg'))
         /\ PlayerCnt' = k - 1 /\ PlayerCnt' \in Nat
         /\ Len(msg') + RECORD_SIZE * PlayerCnt' = HeaderLen + promised'[Len(promised')]
<1> DEFINE t == FixedLen + RECORD_SIZE * k
           n == Len(promised) + 1
           h == HeaderLen
           r == RECORD_SIZE
           m1 == Framing!PutData(<<>>, h)
           m2 == Framing!PutData(m1, FixedLen)
           m3 == Framing!PutData(m2, r)
<1>1. h \in Nat \ {0} /\ FixedLen \in Nat \ {0} /\ r \in Nat \ {0} /\ Len(promised) \in Nat
      /\ promised \in Seq(Nat)
  BY FrBasics DEF FrType
<1>2. r * k \in Nat /\ h + t <= MessageSize /\ h + FixedLen + r <= MessageSize
  BY BatchFits
<1>3. t \in Nat /\ n \in Nat BY <1>1, <1>2
<1>4. promised' = Append(promised, t) /\ PlayerCnt' = k - 1 BY DEF Framing!NewMessage
<1>5. promised' \in Seq(Nat) /\ Len(promised') = n /\ promised'[n] = t
  <2> HIDE DEF t
  <2> QED BY <1>1, <1>3, <1>4, AppendProperties
<1>6. ASSUME NEW b \in Nat, NEW m, m = Framing!Cells(n, t, 1, b), NEW z \in Nat
      PROVE  /\ Framing!PutData(m, z) = Framing!Cells(n, t, 1, b + z)
  <2> HIDE DEF t, n
  <2>1. CellsAre(m, n, t, 0, b)
    <3>1. 0 \in Nat /\ 0 <= b /\ 1 = 0 + 1 BY <1>6
    <3>2. CellsAre(Framing!Cells(n, t, 1, b), n, t, 0, b) BY <1>3, <1>6, <3>1, CellsSeq
    <3> QED BY <1>6, <3>2
  <2>2. Len(m) = b BY <1>6, <2>1 DEF CellsAre
  <2> DEFINE to == b + z
             from == b + 1
  <2>3. Framing!PutData(m, z) = m \o Framing!Cells(n, t, from, to)
    BY <1>5, <2>2 DEF Framing!PutData
  <2>4. to \in Nat /\ b <= to /\ from = b + 1 BY <1>6
  <2> HIDE DEF to, from
  <2>5. Joined(Framing!Cells(n, t, 1, b), Framing!Cells(n, t, from, to), Framing!Cells(n, t, 1, to))
    BY <1>3, <1>6, <2>4, CellsSplit
  <2> QED BY <1>6, <2>3, <2>5 DEF Joined, to
<1> DEFINE len == h + FixedLen + r
<1>7. msg' = Framing!Cells(n, t, 1, len)
  <2>1. msg' = m3 BY DEF Framing!NewMessage, Framing!InitMessage
  <2> HIDE DEF n, t
  <2>2. <<>> = Framing!Cells(n, t, 1, 0)
    <3>1. CellsAre(Framing!Cells(n, t, 1, 0), n, t, 0, 0)
      <4>1. 0 \in Nat /\ 0 <= 0 /\ 1 = 0 + 1 OBVIOUS
      <4> QED BY <1>3, <4>1, CellsSeq
    <3> QED BY <3>1, EmptySeq DEF CellsAre
  <2>3. m1 = Framing!Cells(n, t, 1, 0 + h) BY <1>1, <1>6, <2>2
  <2>4. 0 + h = h BY <1>1
  <2> HIDE DEF m1
  <2>5. m1 = Framing!Cells(n, t, 1, h) BY <2>3, <2>4
  <2> DEFINE a == h + FixedLen
  <2>6. m2 = Framing!Cells(n, t, 1, a) BY <1>1, <1>6, <2>5
  <2>7. a \in Nat BY <1>1
  <2> HIDE DEF m2, a
  <2>8. m3 = Framing!Cells(n, t, 1, a + r) BY <1>1, <1>6, <2>6, <2>7
  <2> QED BY <2>1, <2>8 DEF a
<1>8. msg' \in Seq(FrCell) /\ Len(msg') = len /\ len \in Nat \ {0}
  <2>1. len \in Nat \ {0} /\ 0 \in Nat /\ 0 <= len /\ 1 = 0 + 1 BY <1>1
  <2> HIDE DEF n, t, len
  <2>2. CellsAre(msg', n, t, 0, len) BY <1>3, <1>7, <2>1, CellsSeq
  <2> QED BY <2>1, <2>2 DEF CellsAre
<1>9. len + r * (k - 1) = h + t
  <2>1. r * (k - 1) = r * k - r BY <1>1
  <2> DEFINE x == r * k
             y == r * (k - 1)
  <2>2. y = x - r /\ x \in Nat BY <1>2, <2>1
  <2>3. t = FixedLen + x OBVIOUS
  <2> HIDE DEF x, y, t
  <2>4. len + y = h + t BY <1>1, <2>2, <2>3
  <2> QED BY <2>4 DEF y
<1>10. msg' # <<>> BY <1>8, EmptySeq
<1>11. Len(promised') = n /\ promised'[Len(promised')] = t BY <1>5
<1>12. msg' = Framing!Cells(Len(promised'), promised'[Len(promised')], 1, Len(msg'))
  BY <1>5, <1>7, <1>8
<1>13. Len(msg') + RECORD_SIZE * PlayerCnt' = HeaderLen + promised'[Len(promised')]
  BY <1>4, <1>8, <1>9, <1>11
<1>14. k - 1 \in Nat OBVIOUS
<1>15. Len(msg') <= MessageSize BY <1>2, <1>8
<1> QED BY <1>2, <1>4, <1>5, <1>8, <1>10, <1>11, <1>12, <1>13, <1>14, <1>15

(* One more character goes into the Message.                                 *)
LEMMA FrNextRecord ==
  ASSUME FrAssumption, FrType, FrBatch, PlayerCnt # 0, Framing!NextRecord
  PROVE  /\ UNCHANGED <<mSendQ, promised>> /\ msg # <<>>
         /\ msg' \in Seq(FrCell) /\ msg' # <<>> /\ Len(msg') <= MessageSize
         /\ msg' = Framing!Cells(Len(promised), promised[Len(promised)], 1, Len(msg'))
         /\ PlayerCnt' = PlayerCnt - 1 /\ PlayerCnt' \in Nat
         /\ Len(msg') + RECORD_SIZE * PlayerCnt' = HeaderLen + promised[Len(promised)]
<1> DEFINE n == Len(promised)
           t == promised[n]
           b == Len(msg)
           r == RECORD_SIZE
           p == PlayerCnt
           to == b + r
           from == b + 1
<1>1. UNCHANGED <<mSendQ, promised>> /\ PlayerCnt' = p - 1 /\ msg' = Framing!PutData(msg, r)
  BY DEF Framing!NextRecord
<1>2. msg # <<>> /\ promised # <<>> BY DEF FrBatch
<1>3. b + r * p = HeaderLen + t /\ msg = Framing!Cells(n, t, 1, b) BY <1>2 DEF FrBatch
<1>4. /\ n \in Nat \ {0} /\ t \in Nat /\ b \in Nat /\ r \in Nat \ {0} /\ p \in Nat \ {0}
      /\ HeaderLen \in Nat /\ MessageSize \in Nat
  <2>1. promised \in Seq(Nat) /\ msg \in Seq(FrCell) /\ p \in Nat BY DEF FrType
  <2>2. n \in Nat \ {0} BY <1>2, <2>1, EmptySeq, LenProperties
  <2>3. t \in Nat BY <2>1, <2>2, ElementOfSeq
  <2> QED BY <2>1, <2>2, <2>3, FrBasics, LenProperties
<1>5. HeaderLen + t <= MessageSize
  <2>1. n \in 1 .. Len(promised) BY <1>4
  <2> QED BY <2>1 DEF FrBatch
<1>6. msg' = msg \o Framing!Cells(n, t, from, to) BY <1>1 DEF Framing!PutData
<1>7. to \in Nat \ {0} /\ b <= to /\ from = b + 1 BY <1>4
<1> HIDE DEF to, from, n, t, b
<1>8. msg' = Framing!Cells(n, t, 1, to)
  <2>1. Joined(Framing!Cells(n, t, 1, b), Framing!Cells(n, t, from, to), Framing!Cells(n, t, 1, to))
    BY <1>4, <1>7, CellsSplit
  <2> QED BY <1>3, <1>6, <2>1 DEF Joined
<1>9. msg' \in Seq(FrCell) /\ Len(msg') = to
  <2>1. 0 \in Nat /\ 0 <= to /\ 1 = 0 + 1 /\ to \in Nat BY <1>7
  <2>2. CellsAre(msg', n, t, 0, to) BY <1>4, <1>8, <2>1, CellsSeq
  <2> QED BY <2>1, <2>2 DEF CellsAre
<1>10. to + r * (p - 1) = HeaderLen + t /\ r * (p - 1) \in Nat
  <2>1. r * (p - 1) = r * p - r /\ r * p \in Nat /\ p - 1 \in Nat BY <1>4
  <2> DEFINE x == r * p
             y == r * (p - 1)
  <2>2. y = x - r /\ x \in Nat /\ b + x = HeaderLen + t BY <1>3, <2>1
  <2>3. y \in Nat BY <1>4, <2>1
  <2> HIDE DEF x, y
  <2>4. to + y = HeaderLen + t BY <1>4, <2>2 DEF to
  <2> QED BY <2>3, <2>4 DEF y
<1>11. Len(msg') <= MessageSize
  <2> DEFINE y == r * (p - 1)
  <2>1. y \in Nat /\ to + y = HeaderLen + t BY <1>10
  <2> HIDE DEF y
  <2> QED BY <1>4, <1>5, <1>7, <1>9, <2>1
<1>12. msg' # <<>> BY <1>7, <1>9, EmptySeq
<1>13. msg' = Framing!Cells(n, t, 1, Len(msg')) BY <1>8, <1>9
<1>14. Len(msg') + RECORD_SIZE * PlayerCnt' = HeaderLen + t BY <1>1, <1>9, <1>10
<1>15. PlayerCnt' = PlayerCnt - 1 /\ PlayerCnt' \in Nat BY <1>1, <1>4
<1> QED BY <1>1, <1>2, <1>9, <1>11, <1>12, <1>13, <1>14, <1>15 DEF n, t

(* One character: a new Message, or one more in the Message there is.        *)
LEMMA FrBatchRecord ==
  ASSUME FrAssumption, FrType, FrBatch, Framing!BatchRecord
  PROVE  /\ cnt' \in Nat /\ cnt' = cnt - 1 /\ fpc' = "batch"
         /\ UNCHANGED <<mSendBuffer, mRecvBuffer, bpc, up, down, mBuffer, mFront, mRear, wsabuf,
                        wpc, mSendOv, batches, sent, received, handled>>
         /\ \/ /\ PlayerCnt = 0 /\ Framing!sendPost(msg)
               /\ \E k \in 1 .. Framing!maxBatch : k <= cnt /\ Framing!NewMessage(k)
            \/ PlayerCnt # 0 /\ Framing!NextRecord
<1>1. cnt' = cnt - 1 /\ fpc = "batch" /\ cnt # 0 /\ fpc' = Framing!Thrown(msg')
  BY DEF Framing!BatchRecord
<1>2. cnt \in Nat /\ PlayerCnt \in Nat BY DEF FrType
<1>3. UNCHANGED <<mSendBuffer, mRecvBuffer, bpc, up, down, mBuffer, mFront, mRear, wsabuf,
                  wpc, mSendOv, batches, sent, received, handled>>
  BY DEF Framing!BatchRecord, Framing!botVars, Framing!ringVars
<1> DEFINE k == IF cnt < Framing!maxBatch THEN cnt ELSE Framing!maxBatch
<1>4. k \in 1 .. Framing!maxBatch /\ k <= cnt BY <1>1, <1>2, BatchFits
<1>5. IF PlayerCnt = 0 THEN Framing!sendPost(msg) /\ Framing!NewMessage(k) ELSE Framing!NextRecord
  BY DEF Framing!BatchRecord
<1> HIDE DEF k
<1>6. Len(msg') <= MessageSize BY <1>4, <1>5, FrNewMessage, FrNextRecord
<1>7. fpc' = "batch"
  <2>1. ~(Len(msg') > MessageSize)
    <3>1. msg' \in Seq(FrCell) BY <1>4, <1>5, FrNewMessage, FrNextRecord
    <3>2. Len(msg') \in Nat /\ MessageSize \in Nat BY <3>1, FrBasics, LenProperties
    <3> QED BY <1>6, <3>2
  <2> QED BY <1>1, <2>1 DEF Framing!Thrown
<1>8. cnt' \in Nat BY <1>1, <1>2
<1> QED BY <1>1, <1>3, <1>4, <1>5, <1>7, <1>8

(* What a step of the batch leaves alone, and the Messages' sizes.           *)
LEMMA FrBatchKept ==
  ASSUME FrAssumption, FrInv, [Framing!Next]_(Framing!vars) PROVE FrBatch'
<1>1. FrType /\ FrBatch BY DEF FrInv
<1>2. promised \in Seq(Nat) /\ cnt \in Nat /\ PlayerCnt \in Nat BY <1>1 DEF FrType
<1>3. CASE Framing!SpawnBatch
  <2>1. cnt' \in 1 .. MaxRecords /\ fpc = "idle" /\ fpc' = "batch"
        /\ UNCHANGED <<PlayerCnt, msg, promised>>
    BY <1>3 DEF Framing!SpawnBatch
  <2>2. PlayerCnt = 0 /\ msg = <<>> BY <1>1, <2>1 DEF FrBatch
  <2>3. PlayerCnt' <= cnt' BY <2>1, <2>2
  <2> QED BY <1>1, <2>1, <2>2, <2>3 DEF FrBatch
<1>4. CASE Framing!BatchRecord
  <2>1. cnt' = cnt - 1 /\ fpc' = "batch" BY <1>1, <1>4, FrBatchRecord
  <2>2. CASE PlayerCnt = 0
    <3>1. PICK k \in 1 .. Framing!maxBatch : k <= cnt /\ Framing!NewMessage(k)
      BY <1>1, <1>4, <2>2, FrBatchRecord
    <3>2. /\ Len(promised') = Len(promised) + 1
          /\ promised' = Append(promised, FixedLen + RECORD_SIZE * k)
          /\ promised'[Len(promised')] = FixedLen + RECORD_SIZE * k
          /\ HeaderLen + (FixedLen + RECORD_SIZE * k) <= MessageSize
          /\ msg' # <<>> /\ promised' \in Seq(Nat)
          /\ msg' = Framing!Cells(Len(promised'), promised'[Len(promised')], 1, Len(msg'))
          /\ PlayerCnt' = k - 1
          /\ Len(msg') + RECORD_SIZE * PlayerCnt' = HeaderLen + promised'[Len(promised')]
      BY <1>1, <3>1, FrNewMessage
    <3>3. \A i \in 1 .. Len(promised') : HeaderLen + promised'[i] <= MessageSize
      <4>1. SUFFICES ASSUME NEW i \in 1 .. Len(promised')
                     PROVE HeaderLen + promised'[i] <= MessageSize
        OBVIOUS
      <4> DEFINE t == FixedLen + RECORD_SIZE * k
      <4>2. promised' = Append(promised, t) /\ promised'[Len(promised')] = t
            /\ HeaderLen + t <= MessageSize /\ Len(promised') = Len(promised) + 1
        BY <3>2
      <4> HIDE DEF t
      <4>3. CASE i = Len(promised') BY <4>2, <4>3
      <4>4. CASE i # Len(promised')
        <5>1. i \in 1 .. Len(promised) BY <1>2, <4>2, <4>4, LenProperties
        <5>2. promised'[i] = promised[i] BY <1>2, <4>2, <5>1
        <5> QED BY <1>1, <5>1, <5>2 DEF FrBatch
      <4> QED BY <4>3, <4>4
    <3>4. PlayerCnt' <= cnt' BY <1>2, <2>1, <3>1, <3>2
    <3>5. promised' # <<>>
      <4>1. Len(promised') # 0 BY <1>2, <3>2, LenProperties
      <4> QED BY <4>1
    <3> QED BY <2>1, <3>2, <3>3, <3>4, <3>5 DEF FrBatch
  <2>3. CASE PlayerCnt # 0
    <3>1. Framing!NextRecord BY <1>1, <1>4, <2>3, FrBatchRecord
    <3>2. /\ promised' = promised /\ msg' # <<>> /\ msg # <<>> /\ PlayerCnt' = PlayerCnt - 1
          /\ msg' = Framing!Cells(Len(promised), promised[Len(promised)], 1, Len(msg'))
          /\ Len(msg') + RECORD_SIZE * PlayerCnt' = HeaderLen + promised[Len(promised)]
      BY <1>1, <2>3, <3>1, FrNextRecord
    <3>3. PlayerCnt' <= cnt' BY <1>1, <1>2, <2>1, <3>2 DEF FrBatch
    <3> QED BY <1>1, <2>1, <3>2, <3>3 DEF FrBatch
  <2> QED BY <2>2, <2>3
<1>5. CASE Framing!BatchEnd
  <2>1. cnt = 0 /\ msg' = <<>> /\ UNCHANGED <<cnt, PlayerCnt, promised>>
    BY <1>5 DEF Framing!BatchEnd
  <2>2. PlayerCnt = 0 BY <1>1, <1>2, <2>1 DEF FrBatch
  <2> QED BY <1>1, <2>1, <2>2 DEF FrBatch
<1>6. CASE UNCHANGED <<fpc, cnt, PlayerCnt, msg, promised>>
  BY <1>1, <1>6 DEF FrBatch
<1> QED BY <1>3, <1>4, <1>5, <1>6
    DEF Framing!Next, Framing!RecvWorker, Framing!SendWorker, Framing!FieldThread,
        Framing!BotRecv, Framing!EnqueueSend, Framing!PostSend, Framing!CompleteRecv,
        Framing!TakeMessage, Framing!TamperedLen, Framing!LoopEnds, Framing!RegisterRecv,
        Framing!RegisterSend, Framing!CompleteSend, Framing!Recv, Framing!PacketProc,
        Framing!PacketsEnd, Framing!vars, Framing!batchVars

(* The client's thread ends only on a full send buffer: a full receive       *)
(* buffer holds a whole Message.                                             *)
LEMMA FrBotKept ==
  ASSUME FrAssumption, FrInv, [Framing!Next]_(Framing!vars) PROVE FrBot'
<1>1. FrType /\ FrDown /\ FrBatch /\ FrBot BY DEF FrInv
<1>2. CASE \E len \in Lens : Framing!EnqueueSend(len)
  <2>1. PICK len \in Lens : Framing!EnqueueSend(len) BY <1>2
  <2>2. /\ mRecvBuffer' = mRecvBuffer /\ bpc = "select"
        /\ \/ bpc' = bpc
           \/ /\ bpc' = "assert" /\ mSendBuffer' = mSendBuffer
              /\ ~(Len(mSendBuffer) + HeaderLen + len <= SendSize)
    BY <2>1 DEF Framing!EnqueueSend
  <2>3. CASE bpc' = bpc BY <1>1, <2>2, <2>3 DEF FrBot
  <2>4. CASE bpc' # bpc
    <3>1. ~(Len(mSendBuffer') + HeaderLen + len <= SendSize) /\ bpc' = "assert" BY <2>2, <2>4
    <3>2. Len(mSendBuffer') \in Nat /\ HeaderLen \in Nat /\ SendSize \in Nat /\ len \in Nat
      BY <1>1, <2>2, <2>4, FrBasics, LenProperties
      DEF FrType, FrAssumption, Framing!FramingAssumption
    <3>3. Len(mSendBuffer') + HeaderLen + len > SendSize BY <3>1, <3>2
    <3> QED BY <3>1, <3>3 DEF FrBot
  <2> QED BY <2>3, <2>4
<1>3. CASE Framing!PostSend
  BY <1>1, <1>3 DEF FrBot, Framing!PostSend
<1>4. CASE Framing!Recv
  <2>1. mRecvBuffer \in Seq(FrCell) /\ BotRecvSize \in Nat /\ Len(mRecvBuffer) \in Nat
    BY <1>1, FrBasics, LenProperties DEF FrType
  <2>2. Len(mRecvBuffer) < BotRecvSize BY <1>1, <1>4 DEF FrBot, Framing!Recv
  <2>3. bpc' = "packets" BY <1>4, <2>2 DEF Framing!Recv
  <2> QED BY <2>3 DEF FrBot
<1>5. CASE Framing!PacketProc
  <2>1. bpc' = "packets" BY <1>5 DEF Framing!PacketProc
  <2> QED BY <2>1 DEF FrBot
<1>6. CASE Framing!PacketsEnd
  <2>1. bpc' = "select" /\ ~Framing!Whole /\ mRecvBuffer' = mRecvBuffer
    BY <1>6 DEF Framing!PacketsEnd
  <2>2. SUFFICES ASSUME ~(Len(mRecvBuffer) < BotRecvSize) PROVE FALSE
    BY <2>1 DEF FrBot
  <2> DEFINE b == mRecvBuffer
             w == down \o FrOut
             t == promised[handled + 1]
  <2>3. /\ b \in Seq(FrCell) /\ Len(b) \in Nat /\ BotRecvSize \in Nat /\ MessageSize \in Nat
        /\ handled \in Nat /\ FrDone \in Seq(Nat) /\ w \in Seq(FrCell) /\ HeaderLen \in Nat \ {0}
        /\ FixedLen \in Nat /\ RECORD_SIZE \in Nat /\ Len(promised) \in Nat
    BY <1>1, FrBasics, LenProperties DEF FrType
  <2>4. MessageSize <= Len(b)
    <3>1. MessageSize <= BotRecvSize BY DEF FrAssumption, Framing!FramingAssumption
    <3> QED BY <2>2, <2>3, <3>1
  <2>5. HeaderLen <= Len(b) /\ b # <<>>
    <3>1. HeaderLen + FixedLen + RECORD_SIZE <= MessageSize BY BatchFits
    <3>2. HeaderLen <= Len(b) BY <2>3, <2>4, <3>1
    <3> QED BY <2>3, <3>2, EmptySeq
  <2>6. handled <= Len(FrDone) /\ Follows(b, w, FrBehind(handled, FrDone), TRUE)
    BY <1>1 DEF FrDown
  <2> HIDE DEF b, w
  <2>7. /\ handled < Len(FrDone) /\ handled + 1 \in 1 .. Len(FrDone)
        /\ b[1][2] = FrDone[handled + 1]
    BY <2>3, <2>5, <2>6, FrHeaderKnown
  <2>8. FrDone[handled + 1] = t /\ handled + 1 \in 1 .. Len(promised)
    <3>1. CASE msg = <<>> BY <2>7, <3>1 DEF FrDone
    <3>2. CASE msg # <<>>
      <4> DEFINE n == Len(promised)
      <4>1. promised \in Seq(Nat) /\ promised # <<>> BY <1>1, <3>2 DEF FrType, FrBatch
      <4>2. n \in Nat \ {0} BY <2>3, <4>1, EmptySeq
      <4>3. FrDone = SubSeq(promised, 1, n - 1) BY <3>2 DEF FrDone
      <4> HIDE DEF n
      <4>4. \A i \in 1 .. n - 1 : promised[i] \in Nat BY <4>1, <4>2, ElementOfSeq DEF n
      <4>5. /\ Len(FrDone) = n - 1
            /\ \A i \in 1 .. n - 1 : FrDone[i] = promised[i]
        <5>1. n - 1 \in 0 .. Len(promised) /\ n - 1 \in Nat BY <4>2 DEF n
        <5>2. Len(FrDone) = n - 1 BY <4>1, <4>3, <5>1, CutInTwo
        <5>3. \A i \in 1 .. n - 1 : 1 + i - 1 = i BY <4>2
        <5> QED BY <4>2, <4>3, <4>4, <5>1, <5>2, <5>3, SubSeqProperties
      <4>6. handled + 1 \in 1 .. n - 1 /\ handled + 1 \in 1 .. n BY <2>7, <4>2, <4>5
      <4> QED BY <4>5, <4>6 DEF n
    <3> QED BY <3>1, <3>2
  <2>9. HeaderLen + t <= MessageSize BY <1>1, <2>8 DEF FrBatch
  <2>10. t \in Nat
    <3>1. promised \in Seq(Nat) BY <1>1 DEF FrType
    <3> QED BY <2>8, <3>1, ElementOfSeq
  <2>11. HeaderLen + b[1][2] <= Len(b) BY <2>3, <2>4, <2>7, <2>8, <2>9, <2>10
  <2>12. Framing!Whole BY <2>5, <2>11 DEF Framing!Whole, Framing!LenOf, b
  <2> QED BY <2>1, <2>12
<1>7. CASE UNCHANGED <<mSendBuffer, mRecvBuffer, bpc>>
  BY <1>1, <1>7 DEF FrBot
<1> QED BY <1>2, <1>3, <1>4, <1>5, <1>6, <1>7
    DEF Framing!Next, Framing!RecvWorker, Framing!SendWorker, Framing!FieldThread,
        Framing!BotRecv, Framing!CompleteRecv, Framing!TakeMessage, Framing!TamperedLen,
        Framing!LoopEnds, Framing!RegisterRecv, Framing!SpawnBatch, Framing!BatchRecord,
        Framing!BatchEnd, Framing!RegisterSend, Framing!CompleteSend, Framing!vars,
        Framing!botVars

(* A frame in the send buffer.                                               *)
LEMMA FrSends ==
  ASSUME FrAssumption, FrType, FrUp, NEW len \in Lens, Framing!EnqueueSend(len),
         mSendBuffer' # mSendBuffer \/ sent' # sent
  PROVE  /\ mSendBuffer' \in Seq(FrCell) /\ sent' \in Seq(Lens)
         /\ sent' = Append(sent, len) /\ Len(sent') = Len(sent) + 1
         /\ \A i \in 1 .. Len(sent) : sent'[i] = sent[i]
         /\ Len(received) <= Len(sent')
         /\ Follows(FrHeld, up \o mSendBuffer', FrBehind(Len(received), sent'), TRUE)
<1> DEFINE n == Len(sent) + 1
           fr == Framing!Frame(n, len)
           w == up \o mSendBuffer
           s == FrBehind(Len(received), sent)
<1>1. mSendBuffer' = mSendBuffer \o fr /\ sent' = Append(sent, len)
  BY DEF Framing!EnqueueSend
<1>2. len \in Nat BY DEF FrAssumption, Framing!FramingAssumption
<1>3. /\ sent \in Seq(Nat) /\ Len(sent) \in Nat /\ Len(received) \in Nat /\ w \in Seq(FrCell)
      /\ Len(received) <= Len(sent) /\ FrHeld \in Seq(FrCell)
      /\ Follows(FrHeld, w, s, TRUE)
  BY FrBasics, FrRing DEF FrUp
<1>4. sent \in Seq(Lens) /\ up \in Seq(FrCell) /\ mSendBuffer \in Seq(FrCell) BY DEF FrType
<1>5. /\ sent' \in Seq(Lens) /\ Len(sent') = Len(sent) + 1
      /\ \A i \in 1 .. Len(sent) : sent'[i] = sent[i]
  BY <1>1, <1>4, AppendProperties
<1>6. fr \in Seq(FrCell)
  <2>1. n \in Nat BY <1>3
  <2> HIDE DEF n
  <2> QED BY <1>2, <2>1, FrFrame
<1>7. FrBehind(Len(received), sent') = s \o fr BY <1>1, <1>2, <1>3, FrRestAppend
<1>8. s \in Seq(FrCell) BY <1>3, FrRestSeq
<1> HIDE DEF fr, w, s, n
<1>9. Follows(FrHeld, w \o fr, s \o fr, TRUE) BY <1>3, <1>6, <1>8, FollowsMore
<1>10. w \o fr = up \o (mSendBuffer \o fr)
  <2>1. w = up \o mSendBuffer BY DEF w
  <2>2. (up \o mSendBuffer) \o fr = up \o (mSendBuffer \o fr)
    BY ONLY <1>4, <1>6, ConcatAssociative, SMTT(30)
  <2> QED BY <2>1, <2>2
<1>11. mSendBuffer' \in Seq(FrCell) BY <1>1, <1>4, <1>6, ConcatProperties
<1>12. Len(received) <= Len(sent') BY <1>3, <1>5
<1> QED BY <1>1, <1>5, <1>7, <1>9, <1>10, <1>11, <1>12

(* What the socket takes goes from one part of the stream to the other.      *)
LEMMA FrSent ==
  ASSUME FrAssumption, FrType, Framing!PostSend
  PROVE  /\ mSendBuffer' \in Seq(FrCell) /\ up' \in Seq(FrCell)
         /\ up' \o mSendBuffer' = up \o mSendBuffer
<1>1. PICK ret \in 1 .. Len(mSendBuffer) :
        /\ up' = up \o SubSeq(mSendBuffer, 1, ret)
        /\ mSendBuffer' = SubSeq(mSendBuffer, ret + 1, Len(mSendBuffer))
  BY DEF Framing!PostSend
<1> DEFINE b == mSendBuffer
           x == SubSeq(b, 1, ret)
           y == SubSeq(b, ret + 1, Len(b))
<1>2. b \in Seq(FrCell) /\ up \in Seq(FrCell) BY DEF FrType
<1>3. ret \in 0 .. Len(b) BY <1>2, LenProperties
<1>4. x \in Seq(FrCell) /\ y \in Seq(FrCell) /\ x \o y = b BY <1>2, <1>3, CutInTwo
<1>5. up' = up \o x /\ mSendBuffer' = y BY <1>1
<1> HIDE DEF x, y, b
<1>6. (up \o x) \o y = up \o (x \o y)
  <2>1. x \in Seq(FrCell) /\ y \in Seq(FrCell) /\ up \in Seq(FrCell) BY <1>2, <1>4
  <2> QED BY ONLY <2>1, ConcatAssociative, SMTT(30)
<1>7. up \o x \in Seq(FrCell) BY <1>2, <1>4, ConcatProperties
<1> QED BY <1>4, <1>5, <1>6, <1>7 DEF b

(* completeRecv puts what has come behind the contents of the ring.          *)
LEMMA FrReceived ==
  ASSUME FrAssumption, FrType, FrWorker, Framing!CompleteRecv
  PROVE  /\ mBuffer' \in [0 .. Size - 1 -> FrCell] /\ mRear' \in 0 .. Size - 1
         /\ mFront' = mFront
         /\ \E n \in 0 .. Len(up) :
              /\ up' = SubSeq(up, n + 1, Len(up))
              /\ FrHeld' = FrHeld \o SubSeq(up, 1, n)
<1> DEFINE f == mFront
           r == mRear
           direct == GetDirectFreeSize(f, r)
           buf == mBuffer
           new == mBuffer'
<1>1. PICK n \in 1 .. Len(up) :
        /\ n <= wsabuf.size
        /\ new = [c \in DOMAIN buf |->
             IF \E i \in 1 .. n : Framing!Ring!Cell(wsabuf.at, wsabuf.direct, i - 1) = c
             THEN up[CHOOSE i \in 1 .. n : Framing!Ring!Cell(wsabuf.at, wsabuf.direct, i - 1) = c]
             ELSE buf[c]]
        /\ mRear' = Framing!Ring!Moved(r, n)
        /\ up' = SubSeq(up, n + 1, Len(up))
  BY DEF Framing!CompleteRecv
<1>2. /\ f \in 0 .. Size - 1 /\ r \in 0 .. Size - 1 /\ buf \in [0 .. Size - 1 -> FrCell]
      /\ up \in Seq(FrCell)
  BY DEF FrType
<1>3. wsabuf.at = r /\ wsabuf.direct = direct /\ wsabuf.size = GetFreeSize(f, r)
  <2>1. wsabuf = Framing!Posted(f, r) BY DEF FrWorker, Framing!CompleteRecv
  <2> QED BY <2>1 DEF Framing!Posted, Framing!Ring!GetDirectFreeSize, GetDirectFreeSize,
                      Framing!Ring!GetFreeSize, GetFreeSize
<1>4. mFront' = f BY DEF Framing!CompleteRecv
<1>5. n \in Nat /\ n <= Len(up) /\ n \in 0 .. Len(up) BY <1>2, LenProperties
<1>6. mRear' = Moved(r, n) BY <1>1 DEF Framing!Ring!Moved, Moved
<1> HIDE DEF f, r, buf, new
<1>7. n <= GetFreeSize(f, r) /\ direct \in Nat /\ Splits(r, n, direct)
  <2>1. n <= GetFreeSize(f, r) BY <1>1, <1>3
  <2>2. direct \in Nat BY <1>2, SizeAssumption DEF GetDirectFreeSize
  <2>3. IF n <= direct THEN r + n <= Size ELSE direct = Size - r
    BY <1>2, <1>5, <2>1, DirectSplit
  <2> QED BY <2>1, <2>2, <2>3 DEF Splits
<1> HIDE DEF direct
<1>8. new = [c \in 0 .. Size - 1 |->
               IF \E i \in 1 .. n : Cell(r, direct, i - 1) = c
               THEN up[CHOOSE i \in 1 .. n : Cell(r, direct, i - 1) = c] ELSE buf[c]]
  <2>1. \A i : Framing!Ring!Cell(wsabuf.at, wsabuf.direct, i - 1) = Cell(r, direct, i - 1)
    BY <1>3 DEF Framing!Ring!Cell, Cell
  <2>2. DOMAIN buf = 0 .. Size - 1 BY <1>2
  <2> QED BY <1>1, <2>1, <2>2
<1>9. /\ \A i \in 1 .. n : Cell(r, direct, i - 1) \in 0 .. Size - 1
      /\ \A i, j \in 1 .. n : Cell(r, direct, i - 1) = Cell(r, direct, j - 1) => i = j
  BY <1>2, <1>5, <1>7, CellsBehind
<1>10. \A i \in 1 .. n : up[i] \in FrCell BY <1>2, <1>5, LenProperties, ElementOfSeq
<1>11. \A i \in 1 .. n : new[Cell(r, direct, i - 1)] = up[i]
  <2>1. SUFFICES ASSUME NEW i \in 1 .. n PROVE new[Cell(r, direct, i - 1)] = up[i] OBVIOUS
  <2> DEFINE c == Cell(r, direct, i - 1)
  <2>2. (CHOOSE j \in 1 .. n : Cell(r, direct, j - 1) = c) = i BY <1>9
  <2>3. \E j \in 1 .. n : Cell(r, direct, j - 1) = c OBVIOUS
  <2>4. c \in 0 .. Size - 1 BY <1>9
  <2> QED BY <1>8, <2>2, <2>3, <2>4
<1>12. \A c \in 0 .. Size - 1 :
         (\A i \in 1 .. n : Cell(r, direct, i - 1) # c) => new[c] = buf[c]
  BY <1>8
<1>13. new \in [0 .. Size - 1 -> FrCell]
  <2>1. SUFFICES ASSUME NEW c \in 0 .. Size - 1 PROVE new[c] \in FrCell
    <3>1. new = [c \in 0 .. Size - 1 |-> new[c]] BY <1>8
    <3> QED BY <2>1, <3>1
  <2>2. CASE \E i \in 1 .. n : Cell(r, direct, i - 1) = c BY <1>10, <1>11, <2>2
  <2>3. CASE \A i \in 1 .. n : Cell(r, direct, i - 1) # c BY <1>2, <1>12, <2>3
  <2> QED BY <2>2, <2>3
<1>14. CopiedIn(new, buf, r, direct, up, n) BY <1>11, <1>12 DEF CopiedIn
<1>15. /\ Moved(r, n) \in 0 .. Size - 1
       /\ Held(new, f, Moved(r, n)) = Held(buf, f, r) \o SubSeq(up, 1, n)
  <2>1. buf \in [0 .. Size - 1 -> FrCell] /\ f \in 0 .. Size - 1 /\ r \in 0 .. Size - 1 BY <1>2
  <2>2. up \in Seq(FrCell) BY <1>2
  <2>3. n \in Nat BY <1>5
  <2>4. n <= Len(up) BY <1>5
  <2>5. n <= GetFreeSize(f, r) BY <1>7
  <2>6. direct \in Nat BY <1>7
  <2>7. Splits(r, n, direct) BY <1>7
  <2> QED BY ONLY <1>13, <1>14, <2>1, <2>2, <2>3, <2>4, <2>5, <2>6, <2>7, HeldAdded
<1>16. FrHeld' = Held(new, f, Moved(r, n)) BY <1>4, <1>6 DEF FrHeld, new, f
<1>17. FrHeld = Held(buf, f, r) BY DEF FrHeld, buf, f, r
<1> QED BY <1>1, <1>4, <1>5, <1>6, <1>13, <1>15, <1>16, <1>17 DEF new, f

(* completeRecv takes the next frame: its payload goes to onRecv.            *)
LEMMA FrTaken ==
  ASSUME FrAssumption, FrType, FrUp, Framing!TakeMessage
  PROVE  /\ Len(received) + 1 \in 1 .. Len(sent)
         /\ received' = Append(received,
              Framing!Cells(Len(received) + 1, sent[Len(received) + 1], HeaderLen + 1,
                            HeaderLen + sent[Len(received) + 1]))
         /\ received' \in Seq(Seq(FrCell)) /\ mFront' \in 0 .. Size - 1
         /\ UNCHANGED <<mBuffer, mRear>>
         /\ Follows(FrHeld', up \o mSendBuffer, FrBehind(Len(received) + 1, sent), TRUE)
<1> DEFINE k == Len(received)
           j == k + 1
           len == sent[j]
           h == HeaderLen
           w == up \o mSendBuffer
           b == FrHeld
           u == Framing!UseSize
           f == Moved(mFront, h)
           b1 == SubSeq(b, h + 1, Len(b))
           body == Framing!Cells(j, len, h + 1, h + len)
<1>1. /\ b \in Seq(FrCell) /\ Len(b) = u /\ u \in Nat /\ u = GetUseSize(mFront, mRear)
      /\ h \in Nat \ {0} /\ sent \in Seq(Nat) /\ k \in Nat /\ w \in Seq(FrCell)
      /\ Len(sent) \in Nat
  <2>1. u \in 0 .. Size - 1 /\ b \in Seq(FrCell) /\ Len(b) = u /\ u = GetUseSize(mFront, mRear)
    BY FrRing
  <2>2. u \in Nat BY <2>1, SizeAssumption
  <2> QED BY <2>1, <2>2, FrBasics
<1>2. k <= Len(sent) /\ Follows(b, w, FrBehind(k, sent), TRUE) BY DEF FrUp
<1>3. h < u /\ Framing!LenOf(Framing!Header) = b[1][2]
      /\ Framing!LenOf(Framing!Header) + h <= u
  BY FrRing DEF Framing!TakeMessage
<1> HIDE DEF b, w, u
<1>4. b # <<>> BY <1>1, <1>3, EmptySeq
<1>5. k < Len(sent) /\ j \in 1 .. Len(sent) /\ len \in Nat /\ b[1][2] = len
  BY <1>1, <1>2, <1>4, FrHeaderKnown
<1>6. Framing!LenOf(Framing!Header) = len /\ h + len <= Len(b) BY <1>1, <1>3, <1>5
<1>7. /\ b1 \in Seq(FrCell) /\ SubSeq(b1, 1, len) = body
      /\ Follows(SubSeq(b1, len + 1, Len(b) - h), w, FrBehind(j, sent), TRUE)
  <2>1. j = k + 1 /\ k \in Nat /\ len = sent[j] BY <1>1
  <2> HIDE DEF j, len, k
  <2>2. FrCut(b, w, sent, TRUE, j, len) BY <1>1, <1>2, <1>5, <1>6, <2>1, FrFrameCut
  <2> QED BY <2>2 DEF FrCut
<1> HIDE DEF b1, body, len, j
<1>8. /\ mBuffer \in [0 .. Size - 1 -> FrCell] /\ mFront \in 0 .. Size - 1
      /\ mRear \in 0 .. Size - 1 /\ received \in Seq(Seq(FrCell))
  BY DEF FrType
<1>9. /\ f \in 0 .. Size - 1 /\ GetUseSize(f, mRear) = u - h
      /\ Held(mBuffer, f, mRear) = b1
  <2>1. h \in Nat /\ h <= GetUseSize(mFront, mRear) BY <1>1, <1>3
  <2>2. /\ f \in 0 .. Size - 1 /\ GetUseSize(f, mRear) = GetUseSize(mFront, mRear) - h
        /\ Held(mBuffer, f, mRear)
             = SubSeq(Held(mBuffer, mFront, mRear), h + 1, GetUseSize(mFront, mRear))
    BY <1>8, <2>1, HeldDropped
  <2> QED BY <1>1, <2>2 DEF b, b1, FrHeld
<1>10. Framing!Ring!Moved(mFront, HeaderLen) = f BY DEF Framing!Ring!Moved, Moved
<1> HIDE DEF f
<1>11. /\ received' = Append(received,
              Framing!Taken(f, Framing!Ring!GetDirectUseSize(f, mRear), len))
       /\ mFront' = Moved(f, len)
  BY <1>6, <1>10 DEF Framing!TakeMessage, Framing!Ring!Moved, Moved
<1>12. len <= GetUseSize(f, mRear) BY <1>1, <1>5, <1>6, <1>9
<1>13. Framing!Taken(f, Framing!Ring!GetDirectUseSize(f, mRear), len) = body
  <2> DEFINE direct == GetDirectUseSize(f, mRear)
  <2>1. Framing!Taken(f, Framing!Ring!GetDirectUseSize(f, mRear), len)
          = CopiedOut(mBuffer, f, direct, len)
    BY DEF Framing!Taken, Framing!Ring!Cell, Cell, Framing!Ring!GetDirectUseSize,
           GetDirectUseSize, CopiedOut
  <2>2. CopiedOut(mBuffer, f, direct, len) = SubSeq(Held(mBuffer, f, mRear), 1, len)
    BY <1>5, <1>8, <1>9, <1>12, HeldRead
  <2> QED BY <1>7, <1>9, <2>1, <2>2
<1>14. /\ mFront' \in 0 .. Size - 1
       /\ Held(mBuffer, Moved(f, len), mRear) = SubSeq(b1, len + 1, u - h)
  <2>1. len \in Nat BY <1>5
  <2>2. f \in 0 .. Size - 1 BY <1>9
  <2>3. mRear \in 0 .. Size - 1 /\ mBuffer \in [0 .. Size - 1 -> FrCell] BY <1>8
  <2>4. /\ Moved(f, len) \in 0 .. Size - 1
        /\ Held(mBuffer, Moved(f, len), mRear)
             = SubSeq(Held(mBuffer, f, mRear), len + 1, GetUseSize(f, mRear))
    BY ONLY <1>12, <2>1, <2>2, <2>3, HeldDropped
  <2> QED BY <1>9, <1>11, <2>4
<1>15. UNCHANGED <<mBuffer, mRear>> BY DEF Framing!TakeMessage
<1>16. FrHeld' = SubSeq(b1, len + 1, Len(b) - h) BY <1>1, <1>11, <1>14, <1>15 DEF FrHeld
<1>17. body \in Seq(FrCell)
  <2>1. Len(b1) = GetUseSize(f, mRear) BY <1>8, <1>9, HeldSeq
  <2>2. len \in 0 .. Len(b1) BY <1>5, <1>12, <2>1
  <2> QED BY <1>7, <2>2, CutInTwo
<1>18. received' = Append(received, body) BY <1>11, <1>13
<1>19. received' \in Seq(Seq(FrCell)) BY <1>8, <1>17, <1>18, AppendProperties
<1>20. Follows(FrHeld', w, FrBehind(j, sent), TRUE) BY <1>7, <1>16
<1> QED BY <1>5, <1>14, <1>15, <1>18, <1>19, <1>20 DEF body, j, len, w

(* The stream from the client to onRecv goes on.                             *)
LEMMA FrUpKept ==
  ASSUME FrAssumption, FrInv, [Framing!Next]_(Framing!vars) PROVE FrUp'
<1>1. FrType /\ FrUp /\ FrWorker BY DEF FrInv
<1>2. /\ FrHeld \in Seq(FrCell) /\ Len(received) \in Nat /\ Len(sent) \in Nat
      /\ up \in Seq(FrCell) /\ mSendBuffer \in Seq(FrCell) /\ received \in Seq(Seq(FrCell))
      /\ sent \in Seq(Nat)
  BY <1>1, FrRing, FrBasics DEF FrType
<1>3. CASE UNCHANGED <<mBuffer, mFront, mRear, up, mSendBuffer, sent, received>>
  <2>1. FrHeld' = FrHeld /\ FrBehind(Len(received'), sent') = FrBehind(Len(received), sent)
    BY <1>3 DEF FrHeld
  <2> QED BY <1>1, <1>3, <2>1 DEF FrUp
<1>4. CASE \E len \in Lens : Framing!EnqueueSend(len)
  <2>1. PICK len \in Lens : Framing!EnqueueSend(len) BY <1>4
  <2>2. UNCHANGED <<mBuffer, mFront, mRear, up, received>>
    BY <2>1 DEF Framing!EnqueueSend, Framing!ringVars
  <2>3. FrHeld' = FrHeld BY <2>2 DEF FrHeld
  <2>4. CASE mSendBuffer' # mSendBuffer \/ sent' # sent
    <3>1. /\ \A i \in 1 .. Len(sent) : sent'[i] = sent[i]
          /\ Len(received) <= Len(sent')
          /\ Follows(FrHeld, up \o mSendBuffer', FrBehind(Len(received), sent'), TRUE)
      BY <1>1, <2>1, <2>4, FrSends
    <3>2. \A n \in 1 .. Len(received) :
            received[n] = Framing!Cells(n, sent'[n], HeaderLen + 1, HeaderLen + sent'[n])
      <4>1. SUFFICES ASSUME NEW n \in 1 .. Len(received)
                     PROVE sent'[n] = sent[n] /\ n \in 1 .. Len(received)
        BY <1>1 DEF FrUp
      <4>2. n \in 1 .. Len(sent) BY <1>1, <1>2 DEF FrUp
      <4> QED BY <3>1, <4>2
    <3> QED BY <2>2, <2>3, <3>1, <3>2 DEF FrUp
  <2>5. CASE ~(mSendBuffer' # mSendBuffer \/ sent' # sent) BY <1>3, <2>2, <2>5
  <2> QED BY <2>4, <2>5
<1>5. CASE Framing!PostSend
  <2>1. up' \o mSendBuffer' = up \o mSendBuffer BY <1>1, <1>5, FrSent
  <2>2. UNCHANGED <<mBuffer, mFront, mRear, sent, received>>
    BY <1>5 DEF Framing!PostSend, Framing!ringVars
  <2>3. FrHeld' = FrHeld BY <2>2 DEF FrHeld
  <2> QED BY <1>1, <2>1, <2>2, <2>3 DEF FrUp
<1>6. CASE Framing!CompleteRecv
  <2>1. PICK n \in 0 .. Len(up) :
          up' = SubSeq(up, n + 1, Len(up)) /\ FrHeld' = FrHeld \o SubSeq(up, 1, n)
    BY <1>1, <1>6, FrReceived
  <2>2. UNCHANGED <<mSendBuffer, sent, received>>
    BY <1>6 DEF Framing!CompleteRecv, Framing!botVars
  <2> DEFINE s == FrBehind(Len(received), sent)
  <2>3. Follows(FrHeld, up \o mSendBuffer, s, TRUE) BY <1>1 DEF FrUp
  <2> HIDE DEF s
  <2>4. Follows(FrHeld \o SubSeq(up, 1, n), SubSeq(up, n + 1, Len(up)) \o mSendBuffer, s, TRUE)
    BY <1>2, <2>3, FollowsPasses
  <2>5. Follows(FrHeld', up' \o mSendBuffer', s, TRUE) BY <2>1, <2>2, <2>4
  <2>6. s = FrBehind(Len(received'), sent') BY <2>2 DEF s
  <2> QED BY <1>1, <2>2, <2>5, <2>6 DEF FrUp
<1>7. CASE Framing!TakeMessage
  <2> DEFINE k == Len(received)
             j == k + 1
             body == Framing!Cells(j, sent[j], HeaderLen + 1, HeaderLen + sent[j])
  <2>1. /\ j \in 1 .. Len(sent) /\ received' = Append(received, body)
        /\ received' \in Seq(Seq(FrCell))
        /\ Follows(FrHeld', up \o mSendBuffer, FrBehind(j, sent), TRUE)
    BY <1>1, <1>7, FrTaken
  <2>2. UNCHANGED <<up, mSendBuffer, sent>>
    BY <1>7 DEF Framing!TakeMessage, Framing!botVars
  <2>3. k \in Nat BY <1>2
  <2> HIDE DEF body
  <2>4. /\ Len(received') = j /\ received'[j] = body
        /\ \A i \in 1 .. k : received'[i] = received[i]
    <3>1. Len(received') = Len(received) + 1
      <4>1. Append(received, body) = received' BY <2>1
      <4> QED BY <1>2, <4>1
    <3>2. body \in Seq(FrCell)
      <4>1. received'[j] \in Seq(FrCell) BY <2>1, <2>3, <3>1, ElementOfSeq
      <4>2. received'[j] = body BY <1>2, <2>1, <3>1
      <4> QED BY <4>1, <4>2
    <3> QED BY <1>2, <2>1, <3>2, AppendProperties
  <2> HIDE DEF k
  <2>5. \A n \in 1 .. Len(received') :
          received'[n] = Framing!Cells(n, sent[n], HeaderLen + 1, HeaderLen + sent[n])
    <3>1. SUFFICES ASSUME NEW n \in 1 .. j
                   PROVE received'[n]
                           = Framing!Cells(n, sent[n], HeaderLen + 1, HeaderLen + sent[n])
      BY <2>4
    <3>2. CASE n = j BY <2>4, <3>2 DEF body
    <3>3. CASE n # j
      <4>1. n \in 1 .. k BY <2>3, <3>3
      <4> QED BY <1>1, <2>4, <4>1 DEF FrUp, k
    <3> QED BY <3>2, <3>3
  <2>6. Len(received') <= Len(sent') BY <2>1, <2>2, <2>4
  <2>7. Follows(FrHeld', up' \o mSendBuffer', FrBehind(Len(received'), sent'), TRUE)
    BY <2>1, <2>2, <2>4
  <2> QED BY <2>2, <2>5, <2>6, <2>7 DEF FrUp
<1> QED BY <1>3, <1>4, <1>5, <1>6, <1>7
    DEF Framing!Next, Framing!RecvWorker, Framing!SendWorker, Framing!FieldThread,
        Framing!BotRecv, Framing!TamperedLen, Framing!LoopEnds, Framing!RegisterRecv,
        Framing!SpawnBatch, Framing!BatchRecord, Framing!BatchEnd, Framing!RegisterSend,
        Framing!CompleteSend, Framing!Recv, Framing!PacketProc, Framing!PacketsEnd,
        Framing!vars, Framing!botVars, Framing!ringVars

(* The receive worker finds room, and cuts only a client that sent a length  *)
(* of 0.                                                                     *)
LEMMA FrWorkerKept ==
  ASSUME FrAssumption, FrInv, [Framing!Next]_(Framing!vars) PROVE FrWorker'
<1>1. FrType /\ FrUp /\ FrWorker BY DEF FrInv
<1> DEFINE u == Framing!UseSize
           k == Len(received)
<1>2. /\ HeaderLen \in Nat \ {0} /\ k \in Nat /\ Len(sent) \in Nat /\ sent \in Seq(Nat)
      /\ up \o mSendBuffer \in Seq(FrCell)
  BY <1>1, FrBasics
<1>3. /\ FrHeld \in Seq(FrCell) /\ Len(FrHeld) = u /\ u \in 0 .. Size - 1
      /\ u = GetUseSize(mFront, mRear) /\ Framing!Free = GetFreeSize(mFront, mRear)
      /\ HeaderLen < u => Framing!LenOf(Framing!Header) = FrHeld[1][2]
  BY <1>1, FrRing
<1>4. mFront \in 0 .. Size - 1 /\ mRear \in 0 .. Size - 1 BY <1>1 DEF FrType
<1>5. u < Size - 1 => Framing!Free # 0
  <2>1. GetUseSize(mFront, mRear) < Size - 1 => GetFreeSize(mFront, mRear) # 0
    BY <1>4, SizeAssumption DEF GetUseSize, GetFreeSize
  <2> QED BY <1>3, <2>1
<1>6. HeaderLen < u =>
        /\ k + 1 \in 1 .. Len(sent) /\ sent[k + 1] \in Lens /\ sent[k + 1] \in Nat
        /\ Framing!LenOf(Framing!Header) = sent[k + 1]
  <2>1. SUFFICES ASSUME HeaderLen < u
                 PROVE /\ k + 1 \in 1 .. Len(sent) /\ sent[k + 1] \in Lens /\ sent[k + 1] \in Nat
                       /\ Framing!LenOf(Framing!Header) = sent[k + 1]
    OBVIOUS
  <2>2. FrHeld # <<>> BY <1>2, <1>3, <2>1, EmptySeq, SizeAssumption
  <2>3. k <= Len(sent) /\ Follows(FrHeld, up \o mSendBuffer, FrBehind(k, sent), TRUE)
    BY <1>1 DEF FrUp
  <2> DEFINE w == up \o mSendBuffer
             b == FrHeld
  <2>4. w \in Seq(FrCell) /\ b \in Seq(FrCell) /\ b # <<>> /\ Follows(b, w, FrBehind(k, sent), TRUE)
    BY <1>2, <1>3, <2>2, <2>3
  <2> HIDE DEF w, b
  <2>5. k + 1 \in 1 .. Len(sent) /\ sent[k + 1] \in Nat /\ b[1][2] = sent[k + 1]
    BY <1>2, <2>3, <2>4, FrHeaderKnown
  <2>6. sent[k + 1] \in Lens
    <3>1. sent \in Seq(Lens) BY <1>1 DEF FrType
    <3> QED BY <2>5, <3>1, ElementOfSeq
  <2> QED BY <1>3, <2>1, <2>5, <2>6 DEF b
<1> HIDE DEF u
<1>7. CASE \E len \in Lens : Framing!EnqueueSend(len)
  <2>1. PICK len \in Lens : Framing!EnqueueSend(len) BY <1>7
  <2>2. UNCHANGED <<mFront, mRear, wsabuf, wpc, received>>
    BY <2>1 DEF Framing!EnqueueSend, Framing!ringVars
  <2>3. Len(sent) <= Len(sent') /\ Len(sent') \in Nat
        /\ \A i \in 1 .. Len(sent) : sent'[i] = sent[i]
    <3>1. CASE mSendBuffer' # mSendBuffer \/ sent' # sent
      <4>1. Len(sent') = Len(sent) + 1 /\ \A i \in 1 .. Len(sent) : sent'[i] = sent[i]
        BY <1>1, <2>1, <3>1, FrSends
      <4> QED BY <1>2, <4>1
    <3>2. CASE ~(mSendBuffer' # mSendBuffer \/ sent' # sent) BY <1>2, <3>2
    <3> QED BY <3>1, <3>2
  <2>4. wpc' = "cut" => \E n \in 1 .. Len(sent') : sent'[n] = 0 /\ n = Len(received') + 1
    <3>1. SUFFICES ASSUME wpc = "cut"
                   PROVE \E n \in 1 .. Len(sent') : sent'[n] = 0 /\ n = Len(received') + 1
      BY <2>2
    <3>2. PICK n \in 1 .. Len(sent) : sent[n] = 0 /\ n = Len(received) + 1
      BY <1>1, <3>1 DEF FrWorker
    <3>3. n \in 1 .. Len(sent') /\ sent'[n] = 0 BY <1>2, <2>3, <3>2
    <3> QED BY <2>2, <3>2, <3>3
  <2>5. Framing!Free' = Framing!Free BY <2>2 DEF Framing!Free, Framing!Ring!GetFreeSize
  <2>6. Framing!Posted(mFront', mRear') = Framing!Posted(mFront, mRear) BY <2>2
  <2> QED BY <1>1, <2>2, <2>4, <2>5, <2>6 DEF FrWorker
<1>8. CASE Framing!CompleteRecv
  <2>1. wpc' = "loop" BY <1>8 DEF Framing!CompleteRecv
  <2> QED BY <2>1 DEF FrWorker
<1>9. CASE Framing!TakeMessage
  <2>1. wpc' = "loop" BY <1>9 DEF Framing!TakeMessage
  <2> QED BY <2>1 DEF FrWorker
<1>10. CASE Framing!TamperedLen
  <2>1. wpc' = "cut" /\ HeaderLen < u /\ Framing!LenOf(Framing!Header) <= 0
        /\ UNCHANGED <<sent, received>>
    BY <1>10 DEF Framing!TamperedLen, u
  <2>2. k + 1 \in 1 .. Len(sent) /\ sent[k + 1] = 0 BY <1>6, <2>1
  <2> QED BY <2>1, <2>2 DEF FrWorker
<1>11. CASE Framing!LoopEnds
  <2>1. /\ wpc' = "register" /\ UNCHANGED <<mFront, mRear>>
        /\ \/ u <= HeaderLen
           \/ u < Framing!LenOf(Framing!Header) + HeaderLen
    BY <1>11 DEF Framing!LoopEnds, u
  <2>2. HeaderLen + 1 < Size /\ \A len \in Lens : HeaderLen + len < Size
    BY DEF FrAssumption, Framing!FramingAssumption
  <2>3. u < Size - 1
    <3>1. u \in Nat BY <1>3, SizeAssumption
    <3>2. CASE u <= HeaderLen BY <1>2, <2>2, <3>1, <3>2, SizeAssumption
    <3>3. CASE HeaderLen < u
      <4>1. u < sent[k + 1] + HeaderLen /\ sent[k + 1] \in Nat /\ HeaderLen + sent[k + 1] < Size
        BY <1>2, <1>6, <2>1, <2>2, <3>1, <3>3
      <4> DEFINE t == sent[k + 1]
      <4>2. u < t + HeaderLen /\ t \in Nat /\ HeaderLen + t < Size BY <4>1
      <4> HIDE DEF t
      <4> QED BY <1>2, <3>1, <4>2, SizeAssumption
    <3> QED BY <1>2, <3>1, <3>2, <3>3
  <2>4. Framing!Free # 0 BY <1>5, <2>3
  <2>5. Framing!Free' = Framing!Free BY <2>1 DEF Framing!Free, Framing!Ring!GetFreeSize
  <2> QED BY <2>1, <2>4, <2>5 DEF FrWorker
<1>12. CASE Framing!RegisterRecv
  <2>1. Framing!Free # 0 BY <1>1, <1>12 DEF FrWorker, Framing!RegisterRecv
  <2>2. /\ wpc' = "recv" /\ wsabuf' = Framing!Posted(mFront, mRear)
        /\ UNCHANGED <<mFront, mRear>>
    BY <1>12, <2>1 DEF Framing!RegisterRecv
  <2> QED BY <2>2 DEF FrWorker
<1>13. CASE UNCHANGED <<mFront, mRear, wsabuf, wpc, sent, received>>
  <2>1. Framing!Free' = Framing!Free BY <1>13 DEF Framing!Free, Framing!Ring!GetFreeSize
  <2>2. Framing!Posted(mFront', mRear') = Framing!Posted(mFront, mRear) BY <1>13
  <2> QED BY <1>1, <1>13, <2>1, <2>2 DEF FrWorker
<1> QED BY <1>7, <1>8, <1>9, <1>10, <1>11, <1>12, <1>13
    DEF Framing!Next, Framing!RecvWorker, Framing!SendWorker, Framing!FieldThread,
        Framing!BotRecv, Framing!PostSend, Framing!SpawnBatch, Framing!BatchRecord,
        Framing!BatchEnd, Framing!RegisterSend, Framing!CompleteSend, Framing!Recv,
        Framing!PacketProc, Framing!PacketsEnd, Framing!vars, Framing!ringVars

(* The instance's FlattenSeq is that of the library.                         *)
LEMMA FrSequences == \A s : Framing!FlattenSeq(s) = FlattenSeq(s)
BY DEF FlattenSeq, Framing!FlattenSeq

(* registerSend and completeSend keep the order of the Messages.             *)
LEMMA FrOutKept ==
  ASSUME FrAssumption, FrType, Framing!RegisterSend \/ Framing!CompleteSend
  PROVE  /\ mSendQ' \in Seq(Seq(FrCell)) /\ mSendOv' \in Seq(Seq(FrCell))
         /\ down' \in Seq(FrCell)
         /\ down' \o FrOut' = down \o FrOut
<1>1. mSendQ \in Seq(Seq(FrCell)) /\ mSendOv \in Seq(Seq(FrCell)) /\ down \in Seq(FrCell)
  BY DEF FrType
<1>2. FlattenSeq(mSendQ) \in Seq(FrCell) /\ FlattenSeq(mSendOv) \in Seq(FrCell) BY FrBasics
<1>3. CASE Framing!RegisterSend
  <2> DEFINE m == IF SEND_MESSAGE_MAXCOUNT < Len(mSendQ) THEN SEND_MESSAGE_MAXCOUNT
                                                         ELSE Len(mSendQ)
             x == SubSeq(mSendQ, 1, m)
             y == SubSeq(mSendQ, m + 1, Len(mSendQ))
  <2>1. mSendOv = <<>> /\ mSendOv' = x /\ mSendQ' = y /\ down' = down
    BY <1>3 DEF Framing!RegisterSend
  <2>2. m \in 0 .. Len(mSendQ)
    <3>1. SEND_MESSAGE_MAXCOUNT \in Nat /\ Len(mSendQ) \in Nat
      BY <1>1, LenProperties DEF FrAssumption, Framing!FramingAssumption
    <3> QED BY <3>1
  <2> HIDE DEF m
  <2>3. x \in Seq(Seq(FrCell)) /\ y \in Seq(Seq(FrCell)) /\ x \o y = mSendQ
    BY <1>1, <2>2, CutInTwo
  <2> HIDE DEF x, y
  <2>4. FlattenSeq(mSendQ) = FlattenSeq(x) \o FlattenSeq(y) BY <2>3, FlattenConcat
  <2>5. FlattenSeq(mSendOv) \o FlattenSeq(mSendQ) = FlattenSeq(mSendQ)
    <3>1. FlattenSeq(mSendOv) = <<>> BY <2>1, FlattenEmpty
    <3> QED BY <1>2, <3>1, ConcatEmptySeq
  <2>6. FrOut' = FlattenSeq(x) \o FlattenSeq(y) BY <2>1 DEF FrOut
  <2>7. FrOut' = FrOut BY <2>4, <2>5, <2>6 DEF FrOut
  <2> QED BY <1>1, <2>1, <2>3, <2>7
<1>4. CASE Framing!CompleteSend
  <2> DEFINE x == FlattenSeq(mSendOv)
             y == FlattenSeq(mSendQ)
  <2>1. mSendOv' = <<>> /\ mSendQ' = mSendQ /\ down' = down \o x
    BY <1>4, FrSequences DEF Framing!CompleteSend
  <2>2. FrOut' = <<>> \o y BY <2>1, FlattenEmpty DEF FrOut
  <2>3. FrOut = x \o y BY DEF FrOut
  <2>4. x \in Seq(FrCell) /\ y \in Seq(FrCell) BY <1>2
  <2> HIDE DEF x, y
  <2>5. FrOut' = y BY <2>2, <2>4, ConcatEmptySeq
  <2>6. (down \o x) \o y = down \o (x \o y) BY ONLY <1>1, <2>4, ConcatAssociative, SMTT(30)
  <2>7. <<>> \in Seq(Seq(FrCell)) BY EmptySeq
  <2>8. down \o x \in Seq(FrCell) BY <1>1, <2>4, ConcatProperties
  <2> QED BY <1>1, <2>1, <2>3, <2>5, <2>6, <2>7, <2>8
<1> QED BY <1>3, <1>4

(* What the client reads goes from one part of the stream to the other.      *)
LEMMA FrRead ==
  ASSUME FrAssumption, FrType, FrDown, FrBot, Framing!Recv
  PROVE  /\ mRecvBuffer' \in Seq(FrCell) /\ down' \in Seq(FrCell) /\ bpc' = "packets"
         /\ Len(mRecvBuffer') <= BotRecvSize
         /\ Follows(mRecvBuffer', down' \o FrOut, FrBehind(handled, FrDone), TRUE)
<1>1. /\ mRecvBuffer \in Seq(FrCell) /\ down \in Seq(FrCell) /\ FrOut \in Seq(FrCell)
      /\ Len(mRecvBuffer) \in Nat /\ BotRecvSize \in Nat
  BY FrBasics, LenProperties DEF FrType
<1>2. Len(mRecvBuffer) < BotRecvSize BY DEF FrBot, Framing!Recv
<1>3. PICK ret \in 1 .. Len(down) :
        /\ ret <= BotRecvSize - Len(mRecvBuffer)
        /\ mRecvBuffer' = mRecvBuffer \o SubSeq(down, 1, ret)
        /\ down' = SubSeq(down, ret + 1, Len(down))
  BY <1>2 DEF Framing!Recv
<1>4. bpc' = "packets" BY <1>2 DEF Framing!Recv
<1> DEFINE s == FrBehind(handled, FrDone)
           x == SubSeq(down, 1, ret)
           y == SubSeq(down, ret + 1, Len(down))
<1>5. Follows(mRecvBuffer, down \o FrOut, s, TRUE) BY DEF FrDown
<1> HIDE DEF s
<1>6. ret \in 0 .. Len(down) /\ ret \in Nat BY <1>1, LenProperties
<1>7. /\ x \in Seq(FrCell) /\ Len(x) = ret /\ y \in Seq(FrCell)
      /\ mRecvBuffer \o x \in Seq(FrCell)
      /\ Follows(mRecvBuffer \o x, y \o FrOut, s, TRUE)
  <2> DEFINE b == mRecvBuffer
             w == down
             z == FrOut
             whole == TRUE
  <2>1. b \in Seq(FrCell) BY <1>1
  <2>2. w \in Seq(FrCell) BY <1>1
  <2>3. z \in Seq(FrCell) BY <1>1
  <2>4. ret \in 0 .. Len(w) BY <1>6
  <2>5. Follows(b, w \o z, s, whole) BY <1>5
  <2> HIDE DEF b, w, z, whole
  <2>6. /\ SubSeq(w, 1, ret) \in Seq(FrCell) /\ Len(SubSeq(w, 1, ret)) = ret
        /\ SubSeq(w, ret + 1, Len(w)) \in Seq(FrCell) /\ b \o SubSeq(w, 1, ret) \in Seq(FrCell)
        /\ Follows(b \o SubSeq(w, 1, ret), SubSeq(w, ret + 1, Len(w)) \o z, s, whole)
    BY ONLY <2>1, <2>2, <2>3, <2>4, <2>5, FollowsPasses
  <2> QED BY <2>6 DEF b, w, z, whole
<1>8. mRecvBuffer' = mRecvBuffer \o x /\ down' = y BY <1>3
<1> HIDE DEF x, y
<1>9. Len(mRecvBuffer') <= BotRecvSize
  <2>1. Len(mRecvBuffer \o x) = Len(mRecvBuffer) + Len(x) BY <1>1, <1>7, ConcatProperties
  <2> QED BY <1>1, <1>3, <1>6, <1>7, <1>8, <2>1
<1> QED BY <1>4, <1>7, <1>8, <1>9 DEF s

(* To drop a header and then a payload is to drop both.                      *)
LEMMA CutTwice ==
  ASSUME NEW C, NEW b \in Seq(C), NEW h \in Nat, NEW len \in Nat, NEW n, n = h + len,
         n <= Len(b), NEW c, c = SubSeq(b, h + 1, Len(b))
  PROVE  SubSeq(c, len + 1, Len(b) - h) = SubSeq(b, n + 1, Len(b))
<1> DEFINE m == Len(b) - n
           from == len + 1
           x == SubSeq(c, from, Len(c))
           y == SubSeq(b, n + 1, Len(b))
<1>1. Len(b) \in Nat BY LenProperties
<1>2. h \in 0 .. Len(b) /\ n \in 0 .. Len(b) /\ m \in Nat BY <1>1
<1>3. c \in Seq(C) /\ Len(c) = Len(b) - h BY <1>2, CutInTwo
<1>4. \A i \in 1 .. Len(c) : c[i] = b[h + i]
  <2>1. \A i \in h + 1 .. Len(b) : b[i] \in C BY <1>1, ElementOfSeq
  <2>2. \A i \in 1 .. Len(c) : (h + 1) + i - 1 = h + i OBVIOUS
  <2>3. \A i \in 1 .. Len(c) : c[i] = b[(h + 1) + i - 1]
    BY <1>1, <2>1, SubSeqProperties
  <2> QED BY <2>2, <2>3
<1>5. len \in 0 .. Len(c) /\ Len(c) \in Nat /\ Len(c) - len = m BY <1>1, <1>3
<1>6. x \in Seq(C) /\ Len(x) = m BY <1>3, <1>5, CutInTwo
<1>7. \A i \in 1 .. m : x[i] = c[len + i]
  <2>1. \A i \in from .. Len(c) : c[i] \in C BY <1>3, <1>5, ElementOfSeq
  <2>2. \A i \in 1 .. m : from + i - 1 = len + i BY <1>2
  <2>3. from \in Int /\ Len(c) \in Int BY <1>5
  <2>4. Len(c) - from + 1 = m BY <1>1, <1>3
  <2> HIDE DEF from
  <2>5. \A i \in 1 .. Len(c) - from + 1 : x[i] = c[from + i - 1]
    BY ONLY <2>1, <2>3, SubSeqProperties
  <2> HIDE DEF x, m
  <2> QED BY <2>2, <2>4, <2>5
<1>8. y \in Seq(C) /\ Len(y) = m BY <1>2, CutInTwo
<1>9. \A i \in 1 .. m : y[i] = b[n + i]
  <2>1. \A i \in n + 1 .. Len(b) : b[i] \in C BY <1>1, <1>2, ElementOfSeq
  <2>2. \A i \in 1 .. m : (n + 1) + i - 1 = n + i BY <1>2
  <2>3. n + 1 \in Int /\ Len(b) \in Int BY <1>1, <1>2
  <2>4. \A i \in 1 .. Len(y) : y[i] = b[(n + 1) + i - 1] BY <2>1, <2>3, SubSeqProperties
  <2> HIDE DEF y, m
  <2> QED BY <1>8, <2>2, <2>4
<1>10. \A i \in 1 .. m : len + i \in 1 .. Len(c) /\ h + (len + i) = n + i BY <1>1, <1>3
<1> HIDE DEF x, y, m
<1>11. \A i \in 1 .. m : x[i] = y[i] BY <1>4, <1>7, <1>9, <1>10
<1>12. x = y BY <1>6, <1>8, <1>11, <1>2, SeqEqual
<1> QED BY <1>3, <1>12 DEF x, y, from

(* recvPacketProc takes the next Message off its buffer.                     *)
LEMMA FrHandled ==
  ASSUME FrAssumption, FrType, FrDown, Framing!PacketProc
  PROVE  /\ mRecvBuffer' \in Seq(FrCell) /\ Len(mRecvBuffer') <= Len(mRecvBuffer)
         /\ handled' = handled + 1 /\ handled' <= Len(FrDone)
         /\ Follows(mRecvBuffer', down \o FrOut, FrBehind(handled + 1, FrDone), TRUE)
<1> DEFINE k == handled
           j == k + 1
           len == FrDone[j]
           h == HeaderLen
           w == down \o FrOut
           b == mRecvBuffer
           b1 == SubSeq(b, h + 1, Len(b))
           n == h + len
<1>1. /\ b \in Seq(FrCell) /\ Len(b) \in Nat /\ h \in Nat \ {0} /\ FrDone \in Seq(Nat)
      /\ k \in Nat /\ w \in Seq(FrCell) /\ Len(FrDone) \in Nat
  BY FrBasics, LenProperties DEF FrType
<1>2. k <= Len(FrDone) /\ Follows(b, w, FrBehind(k, FrDone), TRUE) BY DEF FrDown
<1>3. h <= Len(b) /\ h + b[1][2] <= Len(b)
  BY DEF Framing!PacketProc, Framing!Whole, Framing!LenOf
<1>4. b' = SubSeq(b, h + b[1][2] + 1, Len(b)) /\ handled' = j
  BY DEF Framing!PacketProc, Framing!LenOf
<1> HIDE DEF b, w
<1>5. b # <<>> BY <1>1, <1>3, EmptySeq
<1>6. k < Len(FrDone) /\ j \in 1 .. Len(FrDone) /\ len \in Nat /\ b[1][2] = len
  BY <1>1, <1>2, <1>5, FrHeaderKnown
<1>7. /\ b1 \in Seq(FrCell)
      /\ Follows(SubSeq(b1, len + 1, Len(b) - h), w, FrBehind(j, FrDone), TRUE)
  <2>1. j = k + 1 /\ k \in Nat /\ len = FrDone[j] /\ h + len <= Len(b) BY <1>1, <1>3, <1>6
  <2> HIDE DEF j, len, k
  <2>2. FrCut(b, w, FrDone, TRUE, j, len) BY <1>1, <1>2, <1>6, <2>1, FrFrameCut
  <2> QED BY <2>2 DEF FrCut
<1> HIDE DEF len, j
<1>8. n \in 0 .. Len(b) /\ h \in 0 .. Len(b) BY <1>1, <1>3, <1>6
<1>9. /\ SubSeq(b, n + 1, Len(b)) \in Seq(FrCell)
      /\ Len(SubSeq(b, n + 1, Len(b))) = Len(b) - n
  <2> HIDE DEF n
  <2> QED BY <1>1, <1>8, CutInTwo
<1>10. SubSeq(b1, len + 1, Len(b) - h) = SubSeq(b, n + 1, Len(b))
  <2>1. b1 = SubSeq(b, h + 1, Len(b)) /\ n = h + len OBVIOUS
  <2> HIDE DEF b1, n, h
  <2>2. h \in Nat /\ n <= Len(b) BY <1>1, <1>8
  <2> QED BY <1>1, <1>6, <2>1, <2>2, CutTwice
<1>11. b' = SubSeq(b, n + 1, Len(b)) BY <1>4, <1>6 DEF b
<1>12. Len(b') <= Len(b)
  <2>1. Len(b) - n <= Len(b) BY <1>1, <1>8
  <2> QED BY <1>9, <1>11, <2>1
<1>13. Follows(b', w, FrBehind(j, FrDone), TRUE) BY <1>7, <1>10, <1>11
<1>14. handled' = j /\ j <= Len(FrDone) BY <1>1, <1>4, <1>6
<1> QED BY <1>9, <1>11, <1>12, <1>13, <1>14 DEF b, w, j

(* The stream from the field thread to the client goes on.                   *)
LEMMA FrDownKept ==
  ASSUME FrAssumption, FrInv, [Framing!Next]_(Framing!vars) PROVE FrDown'
<1>1. FrType /\ FrDown /\ FrBatch /\ FrBot BY DEF FrInv
<1>2. CASE Framing!BatchRecord
  <2>1. UNCHANGED <<mRecvBuffer, down, mSendOv, handled>> BY <1>1, <1>2, FrBatchRecord
  <2>2. CASE PlayerCnt = 0
    <3>1. PICK k \in 1 .. Framing!maxBatch : Framing!sendPost(msg) /\ Framing!NewMessage(k)
      BY <1>1, <1>2, <2>2, FrBatchRecord
    <3>2. FrDone' = promised
      <4> DEFINE t == FixedLen + RECORD_SIZE * k
      <4>1. promised' = Append(promised, t) /\ Len(promised') = Len(promised) + 1 /\ msg' # <<>>
        BY <1>1, <3>1, FrNewMessage
      <4>2. t \in Nat
        <5>1. promised' \in Seq(Nat) /\ promised'[Len(promised')] = t
          BY <1>1, <3>1, FrNewMessage
        <5>2. Len(promised) \in Nat BY <1>1, FrBasics
        <5>3. Len(promised') \in 1 .. Len(promised') BY <4>1, <5>2
        <5> HIDE DEF t
        <5> QED BY <5>1, <5>3, ElementOfSeq
      <4> HIDE DEF t
      <4>3. promised \in Seq(Nat) /\ Len(promised) \in Nat BY <1>1, FrBasics DEF FrType
      <4>4. SubSeq(promised', 1, Len(promised)) = promised
        BY <4>1, <4>2, <4>3, AppendProperties
      <4>5. Len(promised') - 1 = Len(promised) BY <4>1, <4>3
      <4> QED BY <4>1, <4>4, <4>5 DEF FrDone
    <3>3. /\ handled <= Len(promised)
          /\ Follows(mRecvBuffer, down \o (FlattenSeq(mSendOv) \o FlattenSeq(mSendQ')),
                     FrBehind(handled, promised), TRUE)
      BY <1>1, <2>2, <3>1, FrPosted
    <3>4. FrOut' = FlattenSeq(mSendOv) \o FlattenSeq(mSendQ') BY <2>1 DEF FrOut
    <3>5. FrBehind(handled', FrDone') = FrBehind(handled, promised) BY <2>1, <3>2
    <3> QED BY <2>1, <3>2, <3>3, <3>4, <3>5 DEF FrDown
  <2>3. CASE PlayerCnt # 0
    <3>1. Framing!NextRecord BY <1>1, <1>2, <2>3, FrBatchRecord
    <3>2. UNCHANGED <<mSendQ, promised>> /\ msg # <<>> /\ msg' # <<>>
      BY <1>1, <2>3, <3>1, FrNextRecord
    <3>3. FrDone' = FrDone /\ FrOut' = FrOut BY <2>1, <3>2 DEF FrDone, FrOut
    <3>4. FrBehind(handled', FrDone') = FrBehind(handled, FrDone) BY <2>1, <3>3
    <3> QED BY <1>1, <2>1, <3>3, <3>4 DEF FrDown
  <2> QED BY <2>2, <2>3
<1>3. CASE Framing!BatchEnd
  <2>1. /\ cnt = 0 /\ Framing!sendPost(msg) /\ msg' = <<>>
        /\ UNCHANGED <<mRecvBuffer, down, mSendOv, promised, handled>>
    BY <1>3 DEF Framing!BatchEnd, Framing!botVars
  <2>2. PlayerCnt = 0
    <3>1. PlayerCnt \in Nat /\ PlayerCnt <= cnt BY <1>1 DEF FrType, FrBatch
    <3> QED BY <2>1, <3>1
  <2>3. /\ handled <= Len(promised)
        /\ Follows(mRecvBuffer, down \o (FlattenSeq(mSendOv) \o FlattenSeq(mSendQ')),
                   FrBehind(handled, promised), TRUE)
    BY <1>1, <2>1, <2>2, FrPosted
  <2>4. FrDone' = promised BY <2>1 DEF FrDone
  <2>5. FrOut' = FlattenSeq(mSendOv) \o FlattenSeq(mSendQ') BY <2>1 DEF FrOut
  <2>6. FrBehind(handled', FrDone') = FrBehind(handled, promised) BY <2>1, <2>4
  <2> QED BY <2>1, <2>3, <2>4, <2>5, <2>6 DEF FrDown
<1>4. CASE Framing!RegisterSend \/ Framing!CompleteSend
  <2>1. down' \o FrOut' = down \o FrOut BY <1>1, <1>4, FrOutKept
  <2>2. UNCHANGED <<mRecvBuffer, msg, promised, handled>>
    BY <1>4 DEF Framing!RegisterSend, Framing!CompleteSend, Framing!botVars, Framing!batchVars
  <2>3. FrDone' = FrDone BY <2>2 DEF FrDone
  <2>4. FrBehind(handled', FrDone') = FrBehind(handled, FrDone) BY <2>2, <2>3
  <2> QED BY <1>1, <2>1, <2>2, <2>3, <2>4 DEF FrDown
<1>5. CASE Framing!Recv
  <2>1. Follows(mRecvBuffer', down' \o FrOut, FrBehind(handled, FrDone), TRUE)
    BY <1>1, <1>5, FrRead
  <2>2. UNCHANGED <<mSendOv, mSendQ, msg, promised, handled>>
    BY <1>5 DEF Framing!Recv, Framing!sendVars, Framing!batchVars
  <2>3. FrDone' = FrDone /\ FrOut' = FrOut BY <2>2 DEF FrDone, FrOut
  <2>4. FrBehind(handled', FrDone') = FrBehind(handled, FrDone) BY <2>2, <2>3
  <2> QED BY <1>1, <2>1, <2>2, <2>3, <2>4 DEF FrDown
<1>6. CASE Framing!PacketProc
  <2>1. /\ handled' = handled + 1 /\ handled' <= Len(FrDone)
        /\ Follows(mRecvBuffer', down \o FrOut, FrBehind(handled + 1, FrDone), TRUE)
    BY <1>1, <1>6, FrHandled
  <2>2. UNCHANGED <<down, mSendOv, mSendQ, msg, promised>>
    BY <1>6 DEF Framing!PacketProc, Framing!sendVars, Framing!batchVars
  <2>3. FrDone' = FrDone /\ FrOut' = FrOut BY <2>2 DEF FrDone, FrOut
  <2>4. FrBehind(handled', FrDone') = FrBehind(handled + 1, FrDone) BY <2>1, <2>3
  <2> QED BY <2>1, <2>2, <2>3, <2>4 DEF FrDown
<1>7. CASE UNCHANGED <<mRecvBuffer, down, mSendOv, mSendQ, msg, promised, handled>>
  <2>1. FrDone' = FrDone /\ FrOut' = FrOut BY <1>7 DEF FrDone, FrOut
  <2>2. FrBehind(handled', FrDone') = FrBehind(handled, FrDone) BY <1>7, <2>1
  <2> QED BY <1>1, <1>7, <2>1, <2>2 DEF FrDown
<1> QED BY <1>2, <1>3, <1>4, <1>5, <1>6, <1>7
    DEF Framing!Next, Framing!RecvWorker, Framing!SendWorker, Framing!FieldThread,
        Framing!BotRecv, Framing!EnqueueSend, Framing!PostSend, Framing!CompleteRecv,
        Framing!TakeMessage, Framing!TamperedLen, Framing!LoopEnds, Framing!RegisterRecv,
        Framing!SpawnBatch, Framing!PacketsEnd, Framing!vars, Framing!botVars,
        Framing!sendVars, Framing!batchVars

(* The variables of the two streams keep their types.                        *)
LEMMA FrTypeKept ==
  ASSUME FrAssumption, FrInv, [Framing!Next]_(Framing!vars) PROVE FrType'
<1>1. FrType /\ FrUp /\ FrDown /\ FrWorker /\ FrBatch /\ FrBot BY DEF FrInv
<1>2. CASE \E len \in Lens : Framing!EnqueueSend(len)
  <2>1. PICK len \in Lens : Framing!EnqueueSend(len) BY <1>2
  <2>2. /\ bpc' \in {"select", "packets", "assert"}
        /\ UNCHANGED <<mRecvBuffer, up, down, mBuffer, mFront, mRear, wpc, mSendQ, mSendOv, fpc,
                       cnt, PlayerCnt, msg, promised, received, handled>>
    BY <1>1, <2>1
    DEF FrType, Framing!EnqueueSend, Framing!ringVars, Framing!sendVars, Framing!batchVars
  <2>3. mSendBuffer' \in Seq(FrCell) /\ sent' \in Seq(Lens)
    <3>1. CASE mSendBuffer' # mSendBuffer \/ sent' # sent BY <1>1, <2>1, <3>1, FrSends
    <3>2. CASE ~(mSendBuffer' # mSendBuffer \/ sent' # sent) BY <1>1, <3>2 DEF FrType
    <3> QED BY <3>1, <3>2
  <2> QED BY <1>1, <2>2, <2>3 DEF FrType
<1>3. CASE Framing!PostSend
  <2>1. mSendBuffer' \in Seq(FrCell) /\ up' \in Seq(FrCell) BY <1>1, <1>3, FrSent
  <2> QED BY <1>1, <1>3, <2>1
      DEF FrType, Framing!PostSend, Framing!ringVars, Framing!sendVars, Framing!batchVars
<1>4. CASE Framing!CompleteRecv
  <2>1. /\ mBuffer' \in [0 .. Size - 1 -> FrCell] /\ mRear' \in 0 .. Size - 1
        /\ mFront' = mFront
        /\ \E n \in 0 .. Len(up) : up' = SubSeq(up, n + 1, Len(up))
    BY <1>1, <1>4, FrReceived
  <2>2. up' \in Seq(FrCell)
    <3>1. up \in Seq(FrCell) BY <1>1 DEF FrType
    <3> QED BY <2>1, <3>1, CutInTwo
  <2>3. wpc' = "loop" BY <1>4 DEF Framing!CompleteRecv
  <2>4. UNCHANGED <<mSendBuffer, mRecvBuffer, bpc, down, mSendQ, mSendOv, fpc, cnt, PlayerCnt,
                    msg, promised, sent, received, handled>>
    BY <1>4 DEF Framing!CompleteRecv, Framing!botVars, Framing!sendVars, Framing!batchVars
  <2> QED BY <1>1, <2>1, <2>2, <2>3, <2>4 DEF FrType
<1>5. CASE Framing!TakeMessage
  <2>1. /\ received' \in Seq(Seq(FrCell)) /\ mFront' \in 0 .. Size - 1
        /\ UNCHANGED <<mBuffer, mRear>>
    BY <1>1, <1>5, FrTaken
  <2>2. UNCHANGED <<mSendBuffer, mRecvBuffer, bpc, up, down, wpc, mSendQ, mSendOv, fpc, cnt,
                    PlayerCnt, msg, promised, sent, handled>>
    BY <1>5 DEF Framing!TakeMessage, Framing!botVars, Framing!sendVars, Framing!batchVars
  <2> QED BY <1>1, <2>1, <2>2 DEF FrType
<1>6. CASE Framing!TamperedLen \/ Framing!LoopEnds \/ Framing!RegisterRecv
  <2>1. wpc' \in {"recv", "register", "cut"}
    BY <1>6 DEF Framing!TamperedLen, Framing!LoopEnds, Framing!RegisterRecv
  <2>2. UNCHANGED <<mSendBuffer, mRecvBuffer, bpc, up, down, mBuffer, mFront, mRear, mSendQ,
                    mSendOv, fpc, cnt, PlayerCnt, msg, promised, sent, received, handled>>
    BY <1>6 DEF Framing!TamperedLen, Framing!LoopEnds, Framing!RegisterRecv, Framing!botVars,
       Framing!sendVars, Framing!batchVars
  <2> QED BY <1>1, <2>1, <2>2 DEF FrType
<1>7. CASE Framing!SpawnBatch
  <2>1. cnt' \in Nat
    <3>1. MaxRecords \in Nat BY DEF FrAssumption, Framing!BoundAssumption
    <3> QED BY <1>7, <3>1 DEF Framing!SpawnBatch
  <2> QED BY <1>1, <1>7, <2>1
      DEF FrType, Framing!SpawnBatch, Framing!botVars, Framing!ringVars, Framing!sendVars
<1>8. CASE Framing!BatchRecord
  <2>1. /\ cnt' \in Nat /\ fpc' = "batch"
        /\ UNCHANGED <<mSendBuffer, mRecvBuffer, bpc, up, down, mBuffer, mFront, mRear, wpc,
                       mSendOv, sent, received, handled>>
    BY <1>1, <1>8, FrBatchRecord
  <2>2. CASE PlayerCnt = 0
    <3>1. PICK k \in 1 .. Framing!maxBatch : Framing!sendPost(msg) /\ Framing!NewMessage(k)
      BY <1>1, <1>8, <2>2, FrBatchRecord
    <3>2. promised' \in Seq(Nat) /\ msg' \in Seq(FrCell) /\ PlayerCnt' \in Nat
      BY <1>1, <3>1, FrNewMessage
    <3>3. mSendQ' \in Seq(Seq(FrCell)) BY <1>1, <2>2, <3>1, FrPosted
    <3> QED BY <1>1, <2>1, <3>2, <3>3 DEF FrType
  <2>3. CASE PlayerCnt # 0
    <3>1. Framing!NextRecord BY <1>1, <1>8, <2>3, FrBatchRecord
    <3>2. UNCHANGED <<mSendQ, promised>> /\ msg' \in Seq(FrCell) /\ PlayerCnt' \in Nat
      BY <1>1, <2>3, <3>1, FrNextRecord
    <3> QED BY <1>1, <2>1, <3>2 DEF FrType
  <2> QED BY <2>2, <2>3
<1>9. CASE Framing!BatchEnd
  <2>1. /\ cnt = 0 /\ Framing!sendPost(msg) /\ msg' = <<>> /\ fpc' = "idle"
        /\ UNCHANGED <<mSendBuffer, mRecvBuffer, bpc, up, down, mBuffer, mFront, mRear, wpc,
                       mSendOv, cnt, PlayerCnt, promised, sent, received, handled>>
    BY <1>9 DEF Framing!BatchEnd, Framing!botVars, Framing!ringVars
  <2>2. PlayerCnt = 0
    <3>1. PlayerCnt \in Nat /\ PlayerCnt <= cnt BY <1>1 DEF FrType, FrBatch
    <3> QED BY <2>1, <3>1
  <2>3. mSendQ' \in Seq(Seq(FrCell)) BY <1>1, <2>1, <2>2, FrPosted
  <2>4. msg' \in Seq(FrCell) BY <2>1, EmptySeq
  <2> QED BY <1>1, <2>1, <2>3, <2>4 DEF FrType
<1>10. CASE Framing!RegisterSend \/ Framing!CompleteSend
  <2>1. mSendQ' \in Seq(Seq(FrCell)) /\ mSendOv' \in Seq(Seq(FrCell)) /\ down' \in Seq(FrCell)
    BY <1>1, <1>10, FrOutKept
  <2>2. UNCHANGED <<mSendBuffer, mRecvBuffer, bpc, up, mBuffer, mFront, mRear, wpc, fpc, cnt,
                    PlayerCnt, msg, promised, sent, received, handled>>
    BY <1>10 DEF Framing!RegisterSend, Framing!CompleteSend, Framing!botVars,
       Framing!ringVars, Framing!batchVars
  <2> QED BY <1>1, <2>1, <2>2 DEF FrType
<1>11. CASE Framing!Recv
  <2>1. mRecvBuffer' \in Seq(FrCell) /\ down' \in Seq(FrCell) /\ bpc' = "packets"
    BY <1>1, <1>11, FrRead
  <2>2. UNCHANGED <<mSendBuffer, up, mBuffer, mFront, mRear, wpc, mSendQ, mSendOv, fpc, cnt,
                    PlayerCnt, msg, promised, sent, received, handled>>
    BY <1>11 DEF Framing!Recv, Framing!ringVars, Framing!sendVars, Framing!batchVars
  <2> QED BY <1>1, <2>1, <2>2 DEF FrType
<1>12. CASE Framing!PacketProc
  <2>1. mRecvBuffer' \in Seq(FrCell) /\ handled' = handled + 1
    BY <1>1, <1>12, FrHandled
  <2>2. UNCHANGED <<mSendBuffer, bpc, up, down, mBuffer, mFront, mRear, wpc, mSendQ, mSendOv,
                    fpc, cnt, PlayerCnt, msg, promised, sent, received>>
    BY <1>12 DEF Framing!PacketProc, Framing!ringVars, Framing!sendVars, Framing!batchVars
  <2>3. handled' \in Nat BY <1>1, <2>1 DEF FrType
  <2> QED BY <1>1, <2>1, <2>2, <2>3 DEF FrType
<1>13. CASE Framing!PacketsEnd
  BY <1>1, <1>13
  DEF FrType, Framing!PacketsEnd, Framing!ringVars, Framing!sendVars, Framing!batchVars
<1>14. CASE UNCHANGED Framing!vars
  BY <1>1, <1>14
  DEF FrType, Framing!vars, Framing!botVars, Framing!ringVars, Framing!sendVars,
      Framing!batchVars
<1> QED BY <1>2, <1>3, <1>4, <1>5, <1>6, <1>7, <1>8, <1>9, <1>10, <1>11, <1>12, <1>13, <1>14
    DEF Framing!Next, Framing!RecvWorker, Framing!SendWorker, Framing!FieldThread,
        Framing!BotRecv

(* The invariant holds at the start.                                         *)
LEMMA FrInvInit == ASSUME FrAssumption, Framing!Init PROVE FrInv
<1>1. /\ mSendBuffer = <<>> /\ mRecvBuffer = <<>> /\ bpc = "select" /\ up = <<>> /\ down = <<>>
      /\ mBuffer = [c \in 0 .. Size - 1 |-> <<0, 0, 0>>] /\ mFront = 0 /\ mRear = 0
      /\ wsabuf = Framing!Posted(0, 0) /\ wpc = "recv" /\ mSendQ = <<>> /\ mSendOv = <<>>
      /\ fpc = "idle" /\ cnt = 0 /\ PlayerCnt = 0 /\ msg = <<>> /\ promised = <<>>
      /\ sent = <<>> /\ received = <<>> /\ handled = 0
  BY DEF Framing!Init
<1>2. FrType
  <2>1. mBuffer \in [0 .. Size - 1 -> FrCell]
    <3>1. <<0, 0, 0>> \in FrCell BY DEF FrCell
    <3> QED BY <1>1, <3>1
  <2>2. mFront \in 0 .. Size - 1 /\ mRear \in 0 .. Size - 1 BY <1>1, SizeAssumption
  <2> QED BY <1>1, <2>1, <2>2, EmptySeq DEF FrType
<1>3. Len(<<>>) = 0 /\ <<>> \in Seq(Nat) /\ <<>> \in Seq(FrCell) BY EmptySeq
<1>4. FrBehind(0, <<>>) = <<>>
  <2>1. FrBehind(Len(<<>>), <<>>) = <<>> BY <1>3, FrRestEmpty
  <2> QED BY <1>3, <2>1
<1>5. <<>> \o <<>> = <<>> BY <1>3, ConcatEmptySeq
<1>6. FrUp
  <2>1. FrHeld = <<>>
    <3>1. FrHeld \in Seq(FrCell) /\ Len(FrHeld) = GetUseSize(mFront, mRear) BY <1>2, FrRing
    <3>2. GetUseSize(mFront, mRear) = 0 BY <1>1, SizeAssumption DEF GetUseSize
    <3> QED BY <3>1, <3>2, EmptySeq
  <2>2. Follows(FrHeld, up \o mSendBuffer, FrBehind(Len(received), sent), TRUE)
    <3>1. Follows(<<>>, <<>>, <<>>, TRUE) BY <1>5 DEF Follows, IsPrefix
    <3> QED BY <1>1, <1>3, <1>4, <1>5, <2>1, <3>1
  <2>3. Len(received) = 0 /\ Len(sent) = 0 BY <1>1, <1>3
  <2>4. \A n \in 1 .. Len(received) :
          received[n] = Framing!Cells(n, sent[n], HeaderLen + 1, HeaderLen + sent[n])
    BY <2>3
  <2>5. Len(received) <= Len(sent) BY <2>3
  <2> QED BY <2>2, <2>4, <2>5 DEF FrUp
<1>7. FrDown
  <2>1. FrOut = <<>> /\ FrDone = <<>> BY <1>1, <1>5, FlattenEmpty DEF FrOut, FrDone
  <2>2. Follows(mRecvBuffer, down \o FrOut, FrBehind(handled, FrDone), TRUE)
    <3>1. Follows(<<>>, <<>>, <<>>, TRUE) BY <1>5 DEF Follows, IsPrefix
    <3> QED BY <1>1, <1>4, <1>5, <2>1, <3>1
  <2>3. handled <= Len(FrDone)
    <3>1. handled = 0 /\ Len(FrDone) = 0 BY <1>1, <1>3, <2>1
    <3> QED BY <3>1
  <2> QED BY <2>2, <2>3 DEF FrDown
<1>8. FrWorker BY <1>1 DEF FrWorker
<1>9. FrBatch BY <1>1, <1>3 DEF FrBatch
<1>10. FrBot
  <2>1. HeaderLen + FixedLen + RECORD_SIZE <= MessageSize /\ MessageSize <= BotRecvSize
    BY BatchFits DEF FrAssumption, Framing!FramingAssumption
  <2>2. 0 < BotRecvSize BY <1>2, <2>1, FrBasics
  <2> QED BY <1>1, <1>3, <2>2 DEF FrBot
<1> QED BY <1>2, <1>6, <1>7, <1>8, <1>9, <1>10 DEF FrInv

(* The states of the two streams always satisfy FrInv.                       *)
LEMMA FrInvHolds == ASSUME FrAssumption PROVE Framing!Spec => []FrInv
<1>1. Framing!Init => FrInv BY FrInvInit
<1>2. FrInv /\ [Framing!Next]_(Framing!vars) => FrInv'
  <2> SUFFICES ASSUME FrInv, [Framing!Next]_(Framing!vars) PROVE FrInv' OBVIOUS
  <2>1. FrType' BY FrTypeKept
  <2>2. FrUp' BY FrUpKept
  <2>3. FrDown' BY FrDownKept
  <2>4. FrWorker' BY FrWorkerKept
  <2>5. FrBatch' BY FrBatchKept
  <2>6. FrBot' BY FrBotKept
  <2> QED BY <2>1, <2>2, <2>3, <2>4, <2>5, <2>6 DEF FrInv
<1> QED BY <1>1, <1>2, PTL DEF Framing!Spec

(* Neither stream between a client and the server library loses, repeats or  *)
(* mixes a byte, wherever TCP cuts it and wherever the session's ring ends:  *)
(* completeRecv hands onRecv the payloads of the client's frames in their    *)
(* order, and recvPacketProc finds every Message's header where the field    *)
(* thread put it.                                                            *)
THEOREM FramingStreamsKept == ASSUME FrAssumption PROVE Framing!Spec => []Framing!StreamsKept
<1>1. FrInv => Framing!StreamsKept
  <2> SUFFICES ASSUME FrInv PROVE Framing!StreamsKept OBVIOUS
  <2>1. FrType /\ FrUp /\ FrDown /\ FrBatch BY DEF FrInv
  <2>2. Framing!Contents = FrHeld /\ FrHeld \in Seq(FrCell) BY <2>1, FrRing
  <2>3. /\ up \in Seq(FrCell) /\ mSendBuffer \in Seq(FrCell) /\ mRecvBuffer \in Seq(FrCell)
        /\ down \in Seq(FrCell)
        /\ FlattenSeq(mSendOv) \in Seq(FrCell) /\ FlattenSeq(mSendQ) \in Seq(FrCell)
    BY <2>1, FrBasics DEF FrType
  <2>4. \A s, k : Framing!Frames(s, k) = FrBehind(k, s)
    BY FrSequences DEF Framing!Frames, FrBehind, FrRest
  <2>5. Framing!Contents \o up \o mSendBuffer = Framing!Frames(sent, Len(received))
    <3>1. FrHeld \o (up \o mSendBuffer) = FrBehind(Len(received), sent)
      BY <2>1 DEF FrUp, Follows
    <3>2. (FrHeld \o up) \o mSendBuffer = FrHeld \o (up \o mSendBuffer)
      <4> DEFINE held == FrHeld
      <4>1. held \in Seq(FrCell) BY <2>2
      <4>2. up \in Seq(FrCell) BY <2>3
      <4>3. mSendBuffer \in Seq(FrCell) BY <2>3
      <4> HIDE DEF held
      <4>4. (held \o up) \o mSendBuffer = held \o (up \o mSendBuffer)
        BY ONLY <4>1, <4>2, <4>3, ConcatAssociative, SMTT(30)
      <4> QED BY <4>4 DEF held
    <3> QED BY <2>2, <2>4, <3>1, <3>2
  <2>6. handled <= Len(promised)
    <3>1. CASE msg = <<>> BY <2>1, <3>1 DEF FrDown, FrDone
    <3>2. CASE msg # <<>>
      <4>1. promised \in Seq(Nat) /\ promised # <<>> /\ Len(promised) \in Nat
        BY <2>1, <3>2, FrBasics DEF FrType, FrBatch
      <4>2. Len(promised) - 1 \in 0 .. Len(promised) BY <4>1, EmptySeq
      <4>3. Len(FrDone) = Len(promised) - 1 BY <3>2, <4>1, <4>2, CutInTwo DEF FrDone
      <4>4. handled \in Nat /\ handled <= Len(FrDone) BY <2>1 DEF FrType, FrDown
      <4> QED BY <4>1, <4>3, <4>4
    <3> QED BY <3>1, <3>2
  <2>7. ASSUME fpc = "idle"
        PROVE  mRecvBuffer \o down \o FlattenSeq(mSendOv) \o FlattenSeq(mSendQ)
                 = FrBehind(handled, promised)
    <3> DEFINE x == FlattenSeq(mSendOv)
               y == FlattenSeq(mSendQ)
    <3>1. FrDone = promised BY <2>1, <2>7 DEF FrBatch, FrDone
    <3>2. mRecvBuffer \o (down \o (x \o y)) = FrBehind(handled, promised)
      BY <2>1, <3>1 DEF FrDown, Follows, FrOut
    <3>3. x \in Seq(FrCell) /\ y \in Seq(FrCell) BY <2>3
    <3> HIDE DEF x, y
    <3> DEFINE xy == x \o y
               bd == mRecvBuffer \o down
    <3>4. xy \in Seq(FrCell) /\ bd \in Seq(FrCell) BY <2>3, <3>3, ConcatProperties
    <3>5. bd \o (x \o y) = (bd \o x) \o y
      <4> HIDE DEF bd, xy
      <4> QED BY ONLY <3>3, <3>4, ConcatAssociative, SMTT(30)
    <3>6. (mRecvBuffer \o down) \o xy = mRecvBuffer \o (down \o xy)
      <4> HIDE DEF bd, xy
      <4>1. mRecvBuffer \in Seq(FrCell) BY <2>3
      <4>2. down \in Seq(FrCell) BY <2>3
      <4>3. xy \in Seq(FrCell) BY <3>4
      <4>4. (mRecvBuffer \o down) \o xy = mRecvBuffer \o (down \o xy)
        BY ONLY <4>1, <4>2, <4>3, ConcatAssociative, SMTT(30)
      <4> QED BY <4>4
    <3> QED BY <3>2, <3>5, <3>6 DEF x, y
  <2>8. fpc = "idle" =>
          mRecvBuffer \o down \o Framing!FlattenSeq(mSendOv) \o Framing!FlattenSeq(mSendQ)
            = Framing!Frames(promised, handled)
    BY <2>4, <2>7, FrSequences
  <2>9. /\ Len(received) <= Len(sent)
        /\ \A n \in 1 .. Len(received) :
             received[n] = Framing!Cells(n, sent[n], HeaderLen + 1, HeaderLen + sent[n])
    BY <2>1 DEF FrUp
  <2> QED BY <2>5, <2>6, <2>8, <2>9, Zenon DEF Framing!StreamsKept
<1> QED BY <1>1, FrInvHolds, PTL

(* The server disconnects no client for a full buffer but only one that sent *)
(* a length of 0, no Message overflows, and the bot's thread ends on its     *)
(* assertions only when it sends more than its buffer takes.                 *)
THEOREM FramingNobodyCut == ASSUME FrAssumption PROVE Framing!Spec => []Framing!NobodyCut
<1>1. FrInv => Framing!NobodyCut
  BY DEF FrInv, FrType, FrWorker, FrBot, Framing!NobodyCut
<1> QED BY <1>1, FrInvHolds, PTL
=============================================================================

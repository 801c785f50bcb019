----------------------------- MODULE RingBuffer -----------------------------
(***************************************************************************)
(* MyRingBuffer shared by one producer and one consumer thread without a   *)
(* lock (utility/MyRingBuffer.cpp): mMsgQ, mNotifyMsgQ, mDBReqQ, mDBResQ   *)
(* and mRecvQ of the field server, mPacketQueue of the client.  Each side  *)
(* writes one of the two pointers and reads the other's, and copies bytes  *)
(* one by one from or to the cells; what can go wrong is a copy that meets *)
(* the other side's, or a pointer published before its bytes.              *)
(*                                                                         *)
(* Pointers are offsets from mBegin.  One step is one access to what the   *)
(* two threads share: a read of the other's pointer, a byte, a store of a  *)
(* pointer.  The accesses of a thread happen in program order: the bytes   *)
(* go through char*, which may alias the pointers, so the compiler keeps   *)
(* them in order, and x86-64 keeps the order of stores, of loads, and of a *)
(* load and a later store; a thread reads the other's pointer late or not, *)
(* which the interleavings cover.                                          *)
(*                                                                         *)
(* Callers follow the rule of MyRingBuffer.h:4 and ask for the free or     *)
(* used size first.  Calls that do not are modelled in PlayerLifecycle.    *)
(* Sizes are not negative: no caller passes one that may be.               *)
(***************************************************************************)
EXTENDS RingPointers, Sequences

CONSTANTS
  Byte,      (* what a byte may be                                           *)
  MaxLen     (* bound: the longest message of a call                         *)

ASSUME LenAssumption  == MaxLen \in Nat
ASSUME ByteAssumption == 0 \in Byte

Message == UNION {[1 .. n -> Byte] : n \in 0 .. MaxLen}

VARIABLES
  mBuffer,                     (* the cells                                  *)
  mFront, mRear,               (* offsets of the two pointers                *)
  mBFail,                      (* the failures recorded                      *)
  wpc, src, wdirect, written,  (* producer: its place in the call, the       *)
                               (* message, directFreeSize, bytes copied      *)
  rpc, size, rdirect, dest     (* consumer: its place in the call, the size  *)
                               (* asked for, directUseSize, bytes copied     *)

shared     == <<mBuffer, mFront, mRear, mBFail>>
writerVars == <<wpc, src, wdirect, written>>
readerVars == <<rpc, size, rdirect, dest>>
vars       == <<shared, writerVars, readerVars>>

-----------------------------------------------------------------------------

Init ==
  /\ mBuffer = [i \in 0 .. Size - 1 |-> 0]
  /\ mFront = 0 /\ mRear = 0 /\ mBFail = {}
  /\ wpc = "idle" /\ src = <<>> /\ wdirect = 0 /\ written = 0
  /\ rpc = "idle" /\ size = 0 /\ rdirect = 0 /\ dest = <<>>

(* Fault: one byte too many passes the check.                                *)
CheckFreeOffByOne ==
  /\ wpc = "idle"
  /\ \E m \in Message :
       /\ Len(m) - 1 <= GetFreeSize(mFront, mRear)
       /\ src' = m
  /\ wpc' = "checked"
  /\ UNCHANGED <<shared, wdirect, written, readerVars>>

(* The producer asks whether its message fits.                               *)
CheckFree ==
  /\ wpc = "idle"
  /\ \E m \in Message :
       /\ Len(m) <= GetFreeSize(mFront, mRear)
       /\ src' = m
  /\ wpc' = "checked"
  /\ UNCHANGED <<shared, wdirect, written, readerVars>>

(* Enqueue reads the pointers again and fails if the message does not fit.   *)
EnqueueBegin ==
  /\ wpc = "checked"
  /\ IF GetFreeSize(mFront, mRear) < Len(src)
       THEN /\ mBFail' = mBFail \cup {"BufferFull"}
            /\ wpc' = "break"
       ELSE /\ wpc' = "copy"
            /\ UNCHANGED mBFail
  /\ wdirect' = GetDirectFreeSize(mFront, mRear)
  /\ written' = 0
  /\ UNCHANGED <<mBuffer, mFront, mRear, src, readerVars>>

CopyIn ==
  /\ wpc = "copy" /\ written < Len(src)
  /\ mBuffer' = [mBuffer EXCEPT ![Cell(mRear, wdirect, written)] = src[written + 1]]
  /\ written' = written + 1
  /\ UNCHANGED <<mFront, mRear, mBFail, wpc, src, wdirect, readerVars>>

(* Fault: published before the bytes are there.                              *)
MoveRearEarly ==
  /\ wpc = "copy"
  /\ mRear' = Moved(mRear, Len(src))
  /\ wpc' = "idle"
  /\ src' = <<>>
  /\ UNCHANGED <<mBuffer, mFront, mBFail, wdirect, written, readerVars>>

(* MoveRear publishes the message, unless a failure was recorded.            *)
MoveRear ==
  /\ wpc = "copy" /\ written = Len(src)
  /\ IF mBFail # {}
       THEN wpc' = "break" /\ UNCHANGED <<mRear, src>>
       ELSE /\ mRear' = Moved(mRear, Len(src))
            /\ wpc' = "idle"
            /\ src' = <<>>
  /\ UNCHANGED <<mBuffer, mFront, mBFail, wdirect, written, readerVars>>

(* The consumer asks whether there are as many bytes as it wants.            *)
CheckUse ==
  /\ rpc = "idle"
  /\ \E n \in 0 .. MaxLen :
       /\ n <= GetUseSize(mFront, mRear)
       /\ size' = n
  /\ rpc' \in {"dequeue", "peek"}
  /\ dest' = <<>>
  /\ UNCHANGED <<shared, rdirect, writerVars>>

(* Dequeue and Peek read the pointers again and fail if there are too few    *)
(* bytes; Dequeue stops the program then, Peek returns.                      *)
Begin(call, copying, failed) ==
  /\ rpc = call
  /\ IF GetUseSize(mFront, mRear) < size
       THEN /\ mBFail' = mBFail \cup {"BufferEmpty"}
            /\ rpc' = failed
       ELSE /\ rpc' = copying
            /\ UNCHANGED mBFail
  /\ rdirect' = GetDirectUseSize(mFront, mRear)
  /\ UNCHANGED <<mBuffer, mFront, mRear, size, dest, writerVars>>

DequeueBegin == Begin("dequeue", "take", "break")
PeekBegin    == Begin("peek", "look", "idle")

CopyOut ==
  /\ rpc \in {"take", "look"} /\ Len(dest) < size
  /\ dest' = Append(dest, mBuffer[Cell(mFront, rdirect, Len(dest))])
  /\ UNCHANGED <<shared, rpc, size, rdirect, writerVars>>

(* MoveFront gives the bytes free, unless a failure was recorded: then it    *)
(* leaves the pointer where it is, and Dequeue returns.                      *)
MoveFront ==
  /\ rpc = "take" /\ Len(dest) = size
  /\ mFront' = IF mBFail # {} THEN mFront ELSE Moved(mFront, size)
  /\ rpc' = "idle"
  /\ UNCHANGED <<mBuffer, mRear, mBFail, size, rdirect, dest, writerVars>>

PeekReturn ==
  /\ rpc = "look" /\ Len(dest) = size
  /\ rpc' = "idle"
  /\ UNCHANGED <<shared, size, rdirect, dest, writerVars>>

(* Between two connections, after the other thread was joined.               *)
ClearBuffer ==
  /\ wpc = "idle" /\ rpc = "idle"
  /\ mFront' = 0 /\ mRear' = 0 /\ mBFail' = {}
  /\ UNCHANGED <<mBuffer, writerVars, readerVars>>

Producer == CheckFree \/ EnqueueBegin \/ CopyIn \/ MoveRear
Consumer == CheckUse \/ DequeueBegin \/ PeekBegin \/ CopyOut \/ MoveFront \/ PeekReturn

Next == Producer \/ Consumer \/ ClearBuffer

Spec == Init /\ [][Next]_vars

-----------------------------------------------------------------------------
(* Properties. *)

(* The places of the two calls, and the values of the variables.             *)
TypeOK ==
  /\ mBuffer \in [0 .. Size - 1 -> Byte]
  /\ mFront \in 0 .. Size - 1 /\ mRear \in 0 .. Size - 1
  /\ mBFail \subseteq {"BufferFull", "BufferEmpty"}
  /\ wpc \in {"idle", "checked", "copy", "break"}
  /\ src \in Message /\ wdirect \in 0 .. Size /\ written \in 0 .. MaxLen
  /\ rpc \in {"idle", "dequeue", "peek", "take", "look", "break"}
  /\ size \in 0 .. MaxLen /\ rdirect \in 0 .. Size /\ dest \in Message

(* A call whose size was asked for first never fails, although the other     *)
(* thread moves its pointer between the question and the call (lines 57, 98, *)
(* 142): nothing is recorded and no thread stops at a __debugbreak.          *)
CheckedCallsSucceed == mBFail = {} /\ wpc # "break" /\ rpc # "break"

(* The cells the producer is about to write are not among those the consumer *)
(* is still to read: the two copies never meet, which is what stands in for  *)
(* the lock (lines 105-124 against 150-169).                                 *)
Writing == IF wpc = "copy"
             THEN {Cell(mRear, wdirect, i) : i \in written .. Len(src) - 1} ELSE {}
Reading == IF rpc \in {"take", "look"}
             THEN {Cell(mFront, rdirect, i) : i \in Len(dest) .. size - 1} ELSE {}
CopiesApart ==
  /\ Writing \cap Reading = {}
  /\ Writing \cup Reading \subseteq 0 .. Size - 1

(* The bytes from front to rear, in order.                                   *)
Contents == [i \in 1 .. GetUseSize(mFront, mRear) |-> mBuffer[Moved(mFront, i - 1)]]

(* The buffer is a bounded FIFO queue of bytes for its two threads: what a   *)
(* call takes is what the other side's calls were given, in order, whole,    *)
(* once, and as much as was asked for.  A call takes effect at its last      *)
(* store, whatever the other thread does during it (lines 85-218).           *)
Serving == IF rpc \in {"dequeue", "take"} THEN "take"
           ELSE IF rpc = "idle" THEN "none" ELSE "look"
Returned == IF rpc = "idle" THEN dest ELSE <<>>
Queue == INSTANCE Fifo WITH
           Capacity <- Size - 1,
           q <- Contents, put <- src, call <- Serving, ask <- size, got <- Returned
FifoSpec == Queue!Spec
=============================================================================

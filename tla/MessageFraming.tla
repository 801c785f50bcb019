---------------------------- MODULE MessageFraming ----------------------------
(***************************************************************************)
(* The two byte streams between a client and the server library: what the  *)
(* client appends to its send buffer is cut into messages by completeRecv  *)
(* out of a ring buffer, and what the field thread serializes into         *)
(* Messages is gathered by registerSend and cut into packets by the client *)
(* out of a linear buffer.  The client is a bot (ClientBotProject); the    *)
(* game client's side is the module ClientNetwork.                         *)
(*                                                                         *)
(* A cell is a unit of bytes, named by its frame, the length the frame's   *)
(* header promises, and its place in the frame; so a header may be read    *)
(* from any HeaderLen cells, right or wrong.  TCP delivers in order and in *)
(* pieces of any length.  One worker at a time handles the receive and one *)
(* the send of a session (module IocpSession), so each has its own steps.  *)
(***************************************************************************)
EXTENDS Integers, SequencesExt

CONSTANTS
  HeaderLen,          (* sizeof(Header)                                       *)
  Lens,               (* header.Len of the client's frames; 0 is a tampered one *)
  SendSize,           (* SESSION_SEND_BUFFER_SIZE of the client               *)
  BotRecvSize,        (* SESSION_RECV_BUFFER_SIZE of the client               *)
  RecvSize,           (* RINGBUFFER_SIZE of the session's mRecvBuffer         *)
  MessageSize,        (* BufferSize of a Message                              *)
  FixedLen,           (* type and number of a batch                           *)
  RECORD_SIZE,        (* one character of a batch                             *)
  SEND_MESSAGE_MAXCOUNT,
  MaxSent,            (* bound: frames of the client                          *)
  MaxRecords,         (* bound: characters around it                          *)
  MaxBatches          (* bound: batches sent to it                            *)

(* constexpr maxBatch of sendSpawnBatch *)
maxBatch == (MessageSize - FixedLen - HeaderLen) \div RECORD_SIZE

ASSUME FramingAssumption ==
  /\ HeaderLen \in Nat \ {0} /\ FixedLen \in Nat \ {0} /\ RECORD_SIZE \in Nat \ {0}
  /\ SEND_MESSAGE_MAXCOUNT \in Nat \ {0} /\ SendSize \in Nat
  /\ MessageSize \in Nat /\ BotRecvSize \in Nat /\ HeaderLen + 1 < RecvSize
  /\ maxBatch > 0 /\ MessageSize <= BotRecvSize
  /\ \A len \in Lens : len \in Nat /\ HeaderLen + len < RecvSize /\ len <= MessageSize

ASSUME BoundAssumption == MaxSent \in Nat /\ MaxRecords \in Nat /\ MaxBatches \in Nat

Ring == INSTANCE RingPointers WITH Size <- RecvSize

VARIABLES
  mSendBuffer, mRecvBuffer,     (* the client's buffers                       *)
  bpc,                          (* its thread: "select", "packets", "assert"  *)
  up, down,                     (* cells on their way                         *)
  mBuffer, mFront, mRear,       (* the session's receive buffer               *)
  wsabuf,                       (* of the WSARecv that is out: first cell,    *)
                                (* cells up to the end, cells in all          *)
  wpc,                          (* its worker: "recv", "loop", "register", or *)
                                (* "cut" after a disconnectSession            *)
  mSendQ, mSendOv,              (* Messages queued, and those being sent      *)
  fpc, cnt, PlayerCnt, msg,     (* sendSpawnBatch: characters to go, those    *)
                                (* the message has yet to get, the message    *)
  sent, received,               (* history: lengths of the client's frames,   *)
                                (* messages handed to onRecv                  *)
  promised, handled,            (* history: lengths in the headers of the     *)
                                (* server's Messages, packets handled         *)
  batches

botVars    == <<mSendBuffer, mRecvBuffer, bpc>>
ringVars   == <<mBuffer, mFront, mRear, wsabuf, wpc>>
sendVars   == <<mSendQ, mSendOv>>
batchVars  == <<fpc, cnt, PlayerCnt, msg, promised, batches>>
vars == <<botVars, up, down, ringVars, sendVars, batchVars, sent, received, handled>>

Cells(n, len, from, to) == [i \in 1 .. to - from + 1 |-> <<n, len, from + i - 1>>]
Frame(n, len) == Cells(n, len, 1, HeaderLen + len)
LenOf(header) == header[1][2]
Free == Ring!GetFreeSize(mFront, mRear)

Posted(f, r) ==
  [at |-> r, direct |-> Ring!GetDirectFreeSize(f, r), size |-> Ring!GetFreeSize(f, r)]

Init ==
  /\ mSendBuffer = <<>> /\ mRecvBuffer = <<>> /\ bpc = "select"
  /\ up = <<>> /\ down = <<>>
  /\ mBuffer = [c \in 0 .. RecvSize - 1 |-> <<0, 0, 0>>] /\ mFront = 0 /\ mRear = 0
  /\ wsabuf = Posted(0, 0) /\ wpc = "recv"
  /\ mSendQ = <<>> /\ mSendOv = <<>>
  /\ fpc = "idle" /\ cnt = 0 /\ PlayerCnt = 0 /\ msg = <<>> /\ promised = <<>> /\ batches = 0
  /\ sent = <<>> /\ received = <<>> /\ handled = 0

-----------------------------------------------------------------------------
(* The client sends: the sessions of the bot append frames, the select loop *)
(* sends what the socket takes.                                              *)

(* A frame that does not fit ends the bot. *)
EnqueueSend(len) ==
  /\ bpc = "select" /\ Len(sent) < MaxSent
  /\ IF Len(mSendBuffer) + HeaderLen + len <= SendSize
     THEN /\ mSendBuffer' = mSendBuffer \o Frame(Len(sent) + 1, len)
          /\ sent' = Append(sent, len) /\ UNCHANGED bpc
     ELSE bpc' = "assert" /\ UNCHANGED <<mSendBuffer, sent>>
  /\ UNCHANGED <<mRecvBuffer, up, down, ringVars, sendVars, batchVars, received, handled>>

(* Fault: what send did not take is dropped. *)
PostSendAll ==
  /\ bpc = "select" /\ mSendBuffer # <<>>
  /\ \E ret \in 1 .. Len(mSendBuffer) :
       up' = up \o SubSeq(mSendBuffer, 1, ret) /\ mSendBuffer' = <<>>
  /\ UNCHANGED <<mRecvBuffer, bpc, down, ringVars, sendVars, batchVars, sent, received, handled>>

PostSend ==
  /\ bpc = "select" /\ mSendBuffer # <<>>
  /\ \E ret \in 1 .. Len(mSendBuffer) :
       /\ up' = up \o SubSeq(mSendBuffer, 1, ret)
       /\ mSendBuffer' = SubSeq(mSendBuffer, ret + 1, Len(mSendBuffer))
  /\ UNCHANGED <<mRecvBuffer, bpc, down, ringVars, sendVars, batchVars, sent, received, handled>>

-----------------------------------------------------------------------------
(* The worker that handles the session's receives. *)

(* The WSARecv completes with what has come, in one or two pieces of the ring, *)
(* and completeRecv moves the rear.                                            *)
CompleteRecv ==
  /\ wpc = "recv"
  /\ \E transferred \in 1 .. Len(up) :
       /\ transferred <= wsabuf.size
       /\ LET cell(i) == Ring!Cell(wsabuf.at, wsabuf.direct, i - 1) IN
          mBuffer' = [c \in DOMAIN mBuffer |->
            IF \E i \in 1 .. transferred : cell(i) = c
            THEN up[CHOOSE i \in 1 .. transferred : cell(i) = c] ELSE mBuffer[c]]
       /\ mRear' = Ring!Moved(mRear, transferred)
       /\ up' = SubSeq(up, transferred + 1, Len(up))
  /\ wpc' = "loop"
  /\ UNCHANGED <<botVars, down, mFront, wsabuf, sendVars, batchVars, sent, received, handled>>

(* size cells from p on, of which direct lie before the end of the ring. *)
Taken(p, direct, size) == [i \in 1 .. size |-> mBuffer[Ring!Cell(p, direct, i - 1)]]

UseSize == Ring!GetUseSize(mFront, mRear)
Header  == Taken(mFront, Ring!GetDirectUseSize(mFront, mRear), HeaderLen)

(* One round of the loop of completeRecv takes one message: the header, then  *)
(* the payload in one piece or two.                                           *)
TakeMessage ==
  /\ wpc = "loop" /\ HeaderLen < UseSize
  /\ LenOf(Header) > 0 /\ LenOf(Header) + HeaderLen <= UseSize
  /\ LET f       == Ring!Moved(mFront, HeaderLen)
         deqSize == Ring!GetDirectUseSize(f, mRear)
     IN /\ received' = Append(received, Taken(f, deqSize, LenOf(Header)))
        /\ mFront' = Ring!Moved(f, LenOf(Header))
  /\ UNCHANGED <<botVars, up, down, mBuffer, mRear, wsabuf, wpc, sendVars, batchVars, sent, handled>>

TamperedLen ==
  /\ wpc = "loop" /\ HeaderLen < UseSize /\ LenOf(Header) <= 0
  /\ wpc' = "cut"
  /\ UNCHANGED <<botVars, up, down, mBuffer, mFront, mRear, wsabuf, sendVars, batchVars, sent,
                 received, handled>>

(* The loop ends when no whole frame is left. *)
LoopEnds ==
  /\ wpc = "loop"
  /\ \/ UseSize <= HeaderLen
     \/ LenOf(Header) > 0 /\ UseSize < LenOf(Header) + HeaderLen
  /\ wpc' = "register"
  /\ UNCHANGED <<botVars, up, down, mBuffer, mFront, mRear, wsabuf, sendVars, batchVars, sent,
                 received, handled>>

(* A full buffer is a disconnect. *)
RegisterRecv ==
  /\ wpc = "register"
  /\ IF Free = 0
     THEN wpc' = "cut" /\ UNCHANGED wsabuf
     ELSE wpc' = "recv" /\ wsabuf' = Posted(mFront, mRear)
  /\ UNCHANGED <<botVars, up, down, mBuffer, mFront, mRear, sendVars, batchVars, sent, received,
                 handled>>

-----------------------------------------------------------------------------
(* The field thread sends the characters around a player that came in. *)

SpawnBatch ==
  /\ fpc = "idle" /\ batches < MaxBatches /\ batches < Len(received)
  /\ cnt' \in 1 .. MaxRecords /\ fpc' = "batch" /\ batches' = batches + 1
  /\ UNCHANGED <<botVars, up, down, ringVars, sendVars, PlayerCnt, msg, promised, sent, received,
                 handled>>

sendPost(m) == mSendQ' = IF m = <<>> THEN mSendQ ELSE Append(mSendQ, m)

(* A Message that would not hold what is put into it throws; nobody catches it. *)
InitMessage == <<>>
PutData(m, size) == m \o Cells(Len(promised'), promised'[Len(promised')], Len(m) + 1, Len(m) + size)
Thrown(m) == IF Len(m) > MessageSize THEN "thrown" ELSE "batch"

(* A message for n characters: header, type and number, and the first of them. *)
NewMessage(n) ==
  /\ promised' = Append(promised, FixedLen + RECORD_SIZE * n)
  /\ msg' = PutData(PutData(PutData(InitMessage, HeaderLen), FixedLen), RECORD_SIZE)
  /\ PlayerCnt' = n - 1

NextRecord ==
  /\ PlayerCnt' = PlayerCnt - 1 /\ UNCHANGED <<mSendQ, promised>>
  /\ msg' = PutData(msg, RECORD_SIZE)

(* Fault: the number of a message is what is left for all of them. *)
BatchRecordUncapped ==
  /\ fpc = "batch" /\ cnt # 0
  /\ cnt' = cnt - 1
  /\ IF PlayerCnt = 0 THEN sendPost(msg) /\ NewMessage(cnt) ELSE NextRecord
  /\ fpc' = Thrown(msg')
  /\ UNCHANGED <<botVars, up, down, ringVars, mSendOv, batches, sent, received, handled>>

(* One character: a message that has got all it promised goes out first. *)
BatchRecord ==
  /\ fpc = "batch" /\ cnt # 0
  /\ cnt' = cnt - 1
  /\ IF PlayerCnt = 0
     THEN sendPost(msg) /\ NewMessage(IF cnt < maxBatch THEN cnt ELSE maxBatch)
     ELSE NextRecord
  /\ fpc' = Thrown(msg')
  /\ UNCHANGED <<botVars, up, down, ringVars, mSendOv, batches, sent, received, handled>>

BatchEnd ==
  /\ fpc = "batch" /\ cnt = 0
  /\ sendPost(msg) /\ msg' = <<>> /\ fpc' = "idle"
  /\ UNCHANGED <<botVars, up, down, ringVars, mSendOv, cnt, PlayerCnt, promised, batches, sent,
                 received, handled>>

(* The worker that handles the session's sends. *)
RegisterSend ==
  /\ mSendOv = <<>> /\ mSendQ # <<>> /\ wpc # "cut"
  /\ LET msgCnt == IF SEND_MESSAGE_MAXCOUNT < Len(mSendQ) THEN SEND_MESSAGE_MAXCOUNT
                                                          ELSE Len(mSendQ)
     IN mSendOv' = SubSeq(mSendQ, 1, msgCnt) /\ mSendQ' = SubSeq(mSendQ, msgCnt + 1, Len(mSendQ))
  /\ UNCHANGED <<botVars, up, down, ringVars, batchVars, sent, received, handled>>

CompleteSend ==
  /\ mSendOv # <<>>
  /\ down' = down \o FlattenSeq(mSendOv) /\ mSendOv' = <<>>
  /\ UNCHANGED <<botVars, up, ringVars, mSendQ, batchVars, sent, received, handled>>

-----------------------------------------------------------------------------
(* The client receives. *)

(* A full buffer ends the bot. *)
Recv ==
  /\ bpc = "select" /\ down # <<>>
  /\ IF Len(mRecvBuffer) < BotRecvSize
     THEN /\ \E ret \in 1 .. Len(down) :
               /\ ret <= BotRecvSize - Len(mRecvBuffer)
               /\ mRecvBuffer' = mRecvBuffer \o SubSeq(down, 1, ret)
               /\ down' = SubSeq(down, ret + 1, Len(down))
          /\ bpc' = "packets"
     ELSE bpc' = "assert" /\ UNCHANGED <<mRecvBuffer, down>>
  /\ UNCHANGED <<mSendBuffer, up, ringVars, sendVars, batchVars, sent, received, handled>>

Whole == HeaderLen <= Len(mRecvBuffer) /\ HeaderLen + LenOf(mRecvBuffer) <= Len(mRecvBuffer)

(* One round of recvPacketProc. *)
PacketProc ==
  /\ bpc = "packets" /\ Whole
  /\ mRecvBuffer' = SubSeq(mRecvBuffer, HeaderLen + LenOf(mRecvBuffer) + 1, Len(mRecvBuffer))
  /\ handled' = handled + 1
  /\ UNCHANGED <<mSendBuffer, bpc, up, down, ringVars, sendVars, batchVars, sent, received>>

(* Fault: a rest that is exactly a header and its payload is taken for unfinished. *)
PacketsEndEarly ==
  /\ bpc = "packets"
  /\ Whole => HeaderLen + LenOf(mRecvBuffer) = Len(mRecvBuffer)
  /\ bpc' = "select"
  /\ UNCHANGED <<mSendBuffer, mRecvBuffer, up, down, ringVars, sendVars, batchVars, sent, received,
                 handled>>

PacketsEnd ==
  /\ bpc = "packets" /\ ~Whole
  /\ bpc' = "select"
  /\ UNCHANGED <<mSendBuffer, mRecvBuffer, up, down, ringVars, sendVars, batchVars, sent, received,
                 handled>>

-----------------------------------------------------------------------------

RecvWorker == CompleteRecv \/ TakeMessage \/ TamperedLen \/ LoopEnds \/ RegisterRecv
SendWorker == RegisterSend \/ CompleteSend
FieldThread == SpawnBatch \/ BatchRecord \/ BatchEnd
BotRecv == Recv \/ PacketProc \/ PacketsEnd

Next ==
  \/ \E len \in Lens : EnqueueSend(len)
  \/ PostSend \/ RecvWorker \/ FieldThread \/ SendWorker \/ BotRecv

(* Every thread goes on; the select loop serves both directions in each round. *)
Fairness ==
  /\ SF_vars(PostSend) /\ WF_vars(RecvWorker)
  /\ WF_vars(BatchRecord \/ BatchEnd) /\ WF_vars(SendWorker) /\ WF_vars(BotRecv)

Spec == Init /\ [][Next]_vars /\ Fairness

-----------------------------------------------------------------------------
(* Properties *)

(* Type invariant. *)
TypeOK ==
  /\ bpc \in {"select", "packets", "assert"} /\ wpc \in {"recv", "loop", "register", "cut"}
  /\ Len(mSendBuffer) <= SendSize /\ Len(mRecvBuffer) <= BotRecvSize
  /\ mFront \in 0 .. RecvSize - 1 /\ mRear \in 0 .. RecvSize - 1
  /\ wsabuf.at \in 0 .. RecvSize - 1 /\ wsabuf.size \in 1 .. RecvSize - 1
  /\ Len(mSendOv) <= SEND_MESSAGE_MAXCOUNT
  /\ fpc \in {"idle", "batch", "thrown"} /\ cnt \in 0 .. MaxRecords /\ PlayerCnt \in 0 .. maxBatch - 1
  /\ Len(sent) <= MaxSent /\ batches \in 0 .. MaxBatches /\ handled \in 0 .. Len(promised)

Frames(lens, from) ==
  FlattenSeq([i \in 1 .. Len(lens) - from |-> Frame(from + i, lens[from + i])])

(* The contents of the ring, across its end. *)
Contents == Taken(mFront, Ring!GetDirectUseSize(mFront, mRear), UseSize)

(* Neither stream loses, repeats or mixes a byte, wherever it is cut: the      *)
(* messages onRecv got are the payloads of the first frames, and what is in    *)
(* the ring, on the way and in the send buffer are the frames after them; the  *)
(* server's Messages hold what their headers promise, so that the client finds *)
(* the next header behind each.                                                *)
StreamsKept ==
  /\ Len(received) <= Len(sent)
  /\ \A n \in 1 .. Len(received) : received[n] = Cells(n, sent[n], HeaderLen + 1, HeaderLen + sent[n])
  /\ Contents \o up \o mSendBuffer = Frames(sent, Len(received))
  /\ handled <= Len(promised)
  /\ fpc = "idle" =>
       mRecvBuffer \o down \o FlattenSeq(mSendOv) \o FlattenSeq(mSendQ) = Frames(promised, handled)

(* Nobody is thrown out for the other's pace: the receive buffer of a session  *)
(* always has room for a WSARecv, so the server disconnects only a client that *)
(* sent a length of 0, every Message holds its batch, and the bot's asserts on *)
(* its buffers fail only when it outruns its own socket.                       *)
NobodyCut ==
  /\ wpc = "cut" => \E n \in 1 .. Len(sent) : sent[n] = 0 /\ n = Len(received) + 1
  /\ fpc # "thrown"
  /\ bpc = "assert" => \E len \in Lens : Len(mSendBuffer) + HeaderLen + len > SendSize

(* Every frame reaches onRecv and every Message its client: no loop stops with *)
(* a whole frame in its buffer.  A frame behind one of length 0 does not, nor  *)
(* what a bot that ended had to send or read.                                  *)
Tampered(n) == \E i \in 1 .. Len(sent) : i <= n /\ sent[i] = 0
Delivered ==
  \A n \in 1 .. MaxSent :
    /\ Len(sent) >= n ~> Len(received) >= n \/ bpc = "assert" \/ Tampered(n)
    /\ Len(promised) >= n ~> handled >= n \/ bpc = "assert" \/ wpc = "cut"
=============================================================================

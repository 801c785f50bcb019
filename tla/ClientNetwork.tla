--------------------------- MODULE ClientNetwork ---------------------------
(***************************************************************************)
(* The network of the game client: recvThread takes bytes off the socket   *)
(* and cuts them into messages (ClientProject/Network/Network.cpp), the    *)
(* main thread takes the messages off mPacketQueue, hands them to the      *)
(* scene, connects, sends and disconnects (SceneManager, LoginScene,       *)
(* FieldScene).  The two share mSocket and the queue; Disconnect joins the *)
(* thread before it clears the buffers.                                    *)
(*                                                                         *)
(* A cell is a unit of bytes: a header is HeaderLen cells, the payload of  *)
(* a packet BodyLen of its type.  It is named by its connection, packet,   *)
(* type and place, so that every loss, repetition and mixture shows.       *)
(* mRecvBuffer belongs to one thread and is a ClientRing.  mPacketQueue is *)
(* shared by two: it is the bounded queue of whole messages that a         *)
(* MyRingBuffer of pointers implements (module RingBuffer, FifoSpec).      *)
(*                                                                         *)
(* The server's part is external to the client: it answers a login with a  *)
(* refusal or an acceptance, sends packets of the field to a client it has *)
(* accepted, and may close the connection at any time; what it sent may be *)
(* lost then.  TCP delivers the bytes of a connection in order, in pieces  *)
(* of any length.                                                          *)
(***************************************************************************)
EXTENDS Integers, SequencesExt

CONSTANTS
  RecvSize,    (* RINGBUFFER_SIZE of mRecvBuffer, in cells                   *)
  QueueSize,   (* packets that fit in mPacketQueue                           *)
  HeaderLen,   (* sizeof(Header), in cells                                   *)
  BodyLen,     (* header.Len of each packet type, in cells                   *)
  MaxSent,     (* bound: packets of a connection                             *)
  MaxConn,     (* bound: connections                                         *)
  MaxFail      (* bound: refused connects while the server is up             *)

Types == DOMAIN BodyLen

ASSUME LenAssumption ==
  /\ HeaderLen \in Nat \ {0}
  /\ {"AuthRes", "AuthFail", "Field"} \subseteq Types
  /\ \A t \in Types : BodyLen[t] \in Nat \ {0}
ASSUME FitAssumption == \A t \in Types : HeaderLen + BodyLen[t] < RecvSize
ASSUME BoundAssumption ==
  QueueSize \in Nat /\ MaxSent \in Nat /\ MaxConn \in Nat /\ MaxFail \in Nat

Ring == INSTANCE ClientRing WITH Size <- RecvSize, NoByte <- <<>>

VARIABLES
  mSocket,                  (* "invalid" or "open"                           *)
  mpc, after,               (* main thread: its place, and where it goes on  *)
                            (* after Disconnect                              *)
  scene, mNextScene,        (* "login" or "field"; whether to change         *)
  mSendFlag,                (* LoginScene: a request was sent                *)
  rpc, qfree, msg,          (* recvThread: its place, the queue's free size  *)
                            (* it has read, the message it holds             *)
  mRecvBuffer,              (* see ClientRing                                *)
  mPacketQueue,
  srv, sent, wire,          (* server: its state, the packets sent on this   *)
                            (* connection, the cells on their way            *)
  conn, fails,              (* connections and refused connects so far       *)
  handled,                  (* history: packets handled of this connection   *)
  behind,                   (* history: a frame was left for a full queue    *)
  faults                    (* history: assertions that failed               *)

mainVars   == <<mSocket, mpc, after, scene, mNextScene, mSendFlag>>
recvVars   == <<rpc, qfree, msg, mRecvBuffer>>
serverVars == <<srv, sent, wire, conn, fails>>
history    == <<handled, behind, faults>>
vars       == <<mainVars, recvVars, mPacketQueue, serverVars, history>>

Header(c, n, t) == [i \in 1 .. HeaderLen |-> <<c, n, t, i>>]
Body(c, n, t)   == [i \in 1 .. BodyLen[t] |-> <<c, n, t, HeaderLen + i>>]
Frame(c, n, t)  == Header(c, n, t) \o Body(c, n, t)

-----------------------------------------------------------------------------

Network ==
  /\ mSocket = "invalid" /\ mRecvBuffer = Ring!MyRingBuffer /\ mPacketQueue = <<>>
  /\ rpc = "none" /\ qfree = 0 /\ msg = <<>>

LoginScene == scene = "login" /\ mNextScene = FALSE /\ mSendFlag = FALSE

Init ==
  /\ Network /\ LoginScene
  /\ mpc = "packets" /\ after = "packets"
  /\ srv = "gone" /\ sent = <<>> /\ wire = <<>> /\ conn = 0 /\ fails = 0
  /\ handled = 0 /\ behind = FALSE /\ faults = {}

-----------------------------------------------------------------------------
(* recvThread. *)

(* The thread reads into the direct free part of its buffer; without any it  *)
(* stops at a __debugbreak.                                                  *)
RecvTop ==
  /\ rpc = "top"
  /\ rpc' = IF Ring!DirectFreeSize(mRecvBuffer) = 0
              THEN "break" ELSE "recv"
  /\ UNCHANGED <<mainVars, qfree, msg, mRecvBuffer, mPacketQueue, serverVars, history>>

(* recv returns what has arrived, as much as fits.                           *)
Recv ==
  /\ rpc = "recv" /\ mSocket = "open" /\ wire # <<>>
  /\ \E n \in 1 .. Len(wire) :
       /\ n <= Ring!DirectFreeSize(mRecvBuffer)
       /\ mRecvBuffer' = Ring!MoveRear(Ring!Written(mRecvBuffer, SubSeq(wire, 1, n)), n)
       /\ wire' = SubSeq(wire, n + 1, Len(wire))
  /\ rpc' = "unmarshal"
  /\ UNCHANGED <<mainVars, qfree, msg, mPacketQueue, srv, sent, conn, fails, history>>

(* recv fails: this side has closed the socket, or the other side has and    *)
(* there is nothing left.                                                    *)
RecvEnd ==
  /\ rpc = "recv"
  /\ mSocket = "invalid" \/ (wire = <<>> /\ srv = "closed")
  /\ rpc' = "done"
  /\ UNCHANGED <<mainVars, qfree, msg, mRecvBuffer, mPacketQueue, serverVars, history>>

(* Unmarshal reads the free size of the queue first.                         *)
UnmarshalRead ==
  /\ rpc = "unmarshal"
  /\ qfree' = QueueSize - Len(mPacketQueue)
  /\ rpc' = "frame"
  /\ UNCHANGED <<mainVars, msg, mRecvBuffer, mPacketQueue, serverVars, history>>

(* A whole frame in the buffer: the header says how long it is.              *)
HeaderType == Ring!Peek(mRecvBuffer, HeaderLen)[1][3]
Complete ==
  /\ HeaderLen <= Ring!UseSize(mRecvBuffer)
  /\ HeaderLen + BodyLen[HeaderType] <= Ring!UseSize(mRecvBuffer)

(* The header is skipped, then the payload is taken off the buffer.          *)
AfterHeader == Ring!MoveFront(mRecvBuffer, HeaderLen)
Payload     == Ring!Peek(AfterHeader, BodyLen[HeaderType])
AfterFrame  == Ring!Dequeue(AfterHeader, BodyLen[HeaderType])

(* Fault: the queue is not asked for space.                                  *)
UnmarshalFrameUnasked ==
  /\ rpc = "frame"
  /\ IF Complete
       THEN /\ msg' = Payload
            /\ mRecvBuffer' = AfterFrame
            /\ rpc' = "enqueue"
            /\ UNCHANGED behind
       ELSE /\ rpc' = "top"
            /\ behind' = (behind \/ Complete)
            /\ UNCHANGED <<msg, mRecvBuffer>>
  /\ UNCHANGED <<mainVars, qfree, mPacketQueue, serverVars, handled, faults>>

(* Fault: the message is taken off the buffer before the queue is looked at.  *)
UnmarshalFrameDrops ==
  /\ rpc = "frame"
  /\ IF Complete
       THEN /\ mRecvBuffer' = AfterFrame
            /\ IF qfree >= 1
                 THEN msg' = Payload /\ rpc' = "enqueue"
                 ELSE rpc' = "top" /\ UNCHANGED msg
       ELSE rpc' = "top" /\ UNCHANGED <<msg, mRecvBuffer>>
  /\ UNCHANGED <<mainVars, qfree, mPacketQueue, serverVars, history>>

(* It cuts one frame off, or goes back to recv.                              *)
UnmarshalFrame ==
  /\ rpc = "frame"
  /\ IF Complete /\ qfree >= 1
       THEN /\ msg' = Payload
            /\ mRecvBuffer' = AfterFrame
            /\ rpc' = "enqueue"
            /\ UNCHANGED behind
       ELSE /\ rpc' = "top"
            /\ behind' = (behind \/ Complete)
            /\ UNCHANGED <<msg, mRecvBuffer>>
  /\ UNCHANGED <<mainVars, qfree, mPacketQueue, serverVars, handled, faults>>

(* The Message, with the payload put into it, goes to the queue.             *)
PutData(m, src) == m \o src

(* Fault: one frame per recv.                                                *)
UnmarshalEnqueueOnce ==
  /\ rpc = "enqueue"
  /\ mPacketQueue' = Append(mPacketQueue, PutData(<<>>, msg))
  /\ msg' = <<>>
  /\ rpc' = "top"
  /\ UNCHANGED <<mainVars, qfree, mRecvBuffer, serverVars, history>>

UnmarshalEnqueue ==
  /\ rpc = "enqueue"
  /\ mPacketQueue' = Append(mPacketQueue, PutData(<<>>, msg))
  /\ msg' = <<>>
  /\ rpc' = "unmarshal"
  /\ UNCHANGED <<mainVars, qfree, mRecvBuffer, serverVars, history>>

RecvThread ==
  RecvTop \/ Recv \/ RecvEnd \/ UnmarshalRead \/ UnmarshalFrame \/ UnmarshalEnqueue

-----------------------------------------------------------------------------
(* The main thread: SceneManager::Update over and over. *)

NoPacket ==
  /\ mpc = "packets" /\ mPacketQueue = <<>>
  /\ mpc' = "update"
  /\ UNCHANGED <<mSocket, after, scene, mNextScene, mSendFlag, recvVars, mPacketQueue,
                 serverVars, history>>

(* What >> takes out of a Message first.                                     *)
TypeOf(m) == m[1][3]

(* A packet for the scene, by its type.                                      *)
Popped(t) ==
  /\ mpc = "packets" /\ mPacketQueue # <<>>
  /\ TypeOf(Head(mPacketQueue)) = t
  /\ mPacketQueue' = Tail(mPacketQueue)
  /\ handled' = handled + 1

(* An RT_ASSERT stops the client.                                            *)
RtAssert(what) == faults' = faults \cup {what} /\ mpc' = "crashed"

onAuthRes == mNextScene' = TRUE

(* Fault: the loop over the packets goes on.                                 *)
AuthResGoesOn ==
  /\ Popped("AuthRes")
  /\ IF scene = "login"
       THEN onAuthRes /\ UNCHANGED <<mpc, faults>>
       ELSE RtAssert("scene") /\ UNCHANGED mNextScene
  /\ UNCHANGED <<mSocket, after, scene, mSendFlag, recvVars, serverVars, behind>>

(* The login scene accepts the answer and ends the loop, so that the packets *)
(* behind it wait for the field scene.                                       *)
AuthRes ==
  /\ Popped("AuthRes")
  /\ IF scene = "login"
       THEN onAuthRes /\ mpc' = "update" /\ UNCHANGED faults
       ELSE RtAssert("scene") /\ UNCHANGED mNextScene
  /\ UNCHANGED <<mSocket, after, scene, mSendFlag, recvVars, serverVars, behind>>

(* Disconnect closes the socket before it waits for recvThread.              *)
Close(next) ==
  /\ mSocket' = "invalid"
  /\ srv' = "gone" /\ wire' = <<>>
  /\ mpc' = "join" /\ after' = next

(* Fault: mSendFlag is not taken back.                                       *)
AuthFailKeepsFlag ==
  /\ Popped("AuthFail")
  /\ IF scene = "login"
       THEN Close("update") /\ UNCHANGED <<faults, mSendFlag>>
       ELSE RtAssert("scene") /\ UNCHANGED <<mSendFlag, mSocket, srv, wire, after>>
  /\ UNCHANGED <<scene, mNextScene, recvVars, sent, conn, fails, behind>>

(* A refused login disconnects, and the next update connects again.          *)
AuthFail ==
  /\ Popped("AuthFail")
  /\ IF scene = "login"
       THEN mSendFlag' = FALSE /\ Close("update") /\ UNCHANGED faults
       ELSE RtAssert("scene") /\ UNCHANGED <<mSendFlag, mSocket, srv, wire, after>>
  /\ UNCHANGED <<scene, mNextScene, recvVars, sent, conn, fails, behind>>

FieldPacket ==
  /\ Popped("Field")
  /\ IF scene = "field" THEN UNCHANGED <<mpc, faults>> ELSE RtAssert("scene")
  /\ UNCHANGED <<mSocket, after, scene, mNextScene, mSendFlag, recvVars, serverVars, behind>>

(* When the thread has ended its buffers are cleared and the messages left   *)
(* are deleted.  A failed Send of the field scene then fails its assertion.  *)
Join ==
  /\ mpc = "join" /\ rpc = "done"
  /\ rpc' = "none"
  /\ mRecvBuffer' = Ring!ClearBuffer(mRecvBuffer) /\ mPacketQueue' = <<>>
  /\ IF after = "assert" THEN RtAssert("send") ELSE mpc' = after /\ UNCHANGED faults
  /\ UNCHANGED <<mSocket, after, scene, mNextScene, mSendFlag, qfree, msg, serverVars,
                 handled, behind>>

(* LoginScene::update: nothing happens if the socket is open.                *)
LoginIdle ==
  /\ mpc = "update" /\ scene = "login" /\ mSocket = "open"
  /\ mpc' = "scene"
  /\ UNCHANGED <<mSocket, after, scene, mNextScene, mSendFlag, recvVars, mPacketQueue,
                 serverVars, history>>

ConnectFail ==
  /\ mpc = "update" /\ scene = "login" /\ mSocket = "invalid"
  /\ fails < MaxFail \/ conn = MaxConn
  /\ fails' = IF fails < MaxFail THEN fails + 1 ELSE fails
  /\ mpc' = "scene"
  /\ UNCHANGED <<mSocket, after, scene, mNextScene, mSendFlag, recvVars, mPacketQueue,
                 srv, sent, wire, conn, history>>

(* Connect starts recvThread; to assign a joinable std::thread would end the *)
(* program.  The login request follows if none was sent.                     *)
ConnectOk ==
  /\ mpc = "update" /\ scene = "login" /\ mSocket = "invalid" /\ conn < MaxConn
  /\ conn' = conn + 1
  /\ srv' = "unauth" /\ sent' = <<>> /\ wire' = <<>>
  /\ handled' = 0 /\ behind' = FALSE
  /\ IF rpc # "none"
       THEN RtAssert("thread") /\ UNCHANGED <<mSocket, rpc>>
       ELSE /\ mSocket' = "open" /\ rpc' = "top"
            /\ mpc' = IF mSendFlag THEN "scene" ELSE "send"
            /\ UNCHANGED faults
  /\ UNCHANGED <<after, scene, mNextScene, mSendFlag, qfree, msg, mRecvBuffer,
                 mPacketQueue, fails>>

LoginSend ==
  /\ mpc = "send"
  /\ mSendFlag' = TRUE
  /\ srv' = IF srv = "unauth" THEN "asked" ELSE srv
  /\ mpc' = "scene"
  /\ UNCHANGED <<mSocket, after, scene, mNextScene, recvVars, mPacketQueue, sent, wire,
                 conn, fails, history>>

(* A send can fail when the server has closed: Send disconnects.             *)
LoginSendFail ==
  /\ mpc = "send" /\ srv = "closed"
  /\ Close("scene")
  /\ UNCHANGED <<scene, mNextScene, mSendFlag, recvVars, mPacketQueue, sent, conn, fails,
                 history>>

(* FieldScene::update sends the player's input, if any.                      *)
FieldUpdate ==
  /\ mpc = "update" /\ scene = "field"
  /\ mpc' = "scene"
  /\ UNCHANGED <<mSocket, after, scene, mNextScene, mSendFlag, recvVars, mPacketQueue,
                 serverVars, history>>

FieldSendFail ==
  /\ mpc = "update" /\ scene = "field" /\ srv = "closed"
  /\ Close("assert")
  /\ UNCHANGED <<scene, mNextScene, mSendFlag, recvVars, mPacketQueue, sent, conn, fails,
                 history>>

getNextSceneOrNull == IF mNextScene THEN "field" ELSE "null"

ChangeScene ==
  /\ mpc = "scene"
  /\ scene' = IF getNextSceneOrNull = "null" THEN scene ELSE getNextSceneOrNull
  /\ mNextScene' = FALSE
  /\ mpc' = "packets"
  /\ UNCHANGED <<mSocket, after, mSendFlag, recvVars, mPacketQueue, serverVars, history>>

Main ==
  \/ NoPacket \/ AuthRes \/ AuthFail \/ FieldPacket \/ Join \/ LoginIdle
  \/ ConnectFail \/ ConnectOk \/ LoginSend \/ LoginSendFail \/ FieldUpdate
  \/ FieldSendFail \/ ChangeScene

-----------------------------------------------------------------------------
(* The server. *)

Post(t) ==
  /\ Len(sent) < MaxSent
  /\ sent' = Append(sent, t)
  /\ wire' = wire \o Frame(conn, Len(sent) + 1, t)

Reply ==
  /\ srv = "asked"
  /\ \/ Post("AuthRes") /\ srv' = "in"
     \/ Post("AuthFail") /\ srv' = "refused"
  /\ UNCHANGED <<mainVars, recvVars, mPacketQueue, conn, fails, history>>

PostField ==
  /\ srv = "in"
  /\ Post("Field")
  /\ UNCHANGED <<mainVars, recvVars, mPacketQueue, srv, conn, fails, history>>

(* The bytes not yet received may be lost with the connection.               *)
ServerClose ==
  /\ srv \in {"unauth", "asked", "refused", "in"}
  /\ srv' = "closed"
  /\ wire' \in {wire, <<>>}
  /\ UNCHANGED <<mainVars, recvVars, mPacketQueue, sent, conn, fails, history>>

Server == Reply \/ PostField \/ ServerClose

-----------------------------------------------------------------------------

Next == Main \/ RecvThread \/ Server

(* Both threads run, and the server answers a login.                         *)
Fairness == WF_vars(Main) /\ WF_vars(RecvThread) /\ WF_vars(Reply)

Spec == Init /\ [][Next]_vars /\ Fairness

-----------------------------------------------------------------------------
(* Properties. *)

TypeOK ==
  /\ mSocket \in {"invalid", "open"}
  /\ mpc \in {"packets", "update", "join", "send", "scene", "crashed"}
  /\ after \in {"packets", "update", "scene", "assert"}
  /\ scene \in {"login", "field"} /\ mNextScene \in BOOLEAN /\ mSendFlag \in BOOLEAN
  /\ rpc \in {"none", "top", "recv", "unmarshal", "frame", "enqueue", "done", "break"}
  /\ qfree \in 0 .. QueueSize /\ Len(mPacketQueue) <= QueueSize
  /\ mRecvBuffer.mFront \in 0 .. RecvSize - 1 /\ mRecvBuffer.mRear \in 0 .. RecvSize - 1
  /\ mRecvBuffer.mBFail \subseteq {"BufferFull", "BufferEmpty"}
  /\ srv \in {"gone", "unauth", "asked", "refused", "in", "closed"}
  /\ sent \in BoundedSeq(Types, MaxSent)
  /\ conn \in 0 .. MaxConn /\ fails \in 0 .. MaxFail /\ handled \in 0 .. MaxSent
  /\ behind \in BOOLEAN /\ faults \subseteq {"scene", "thread", "send"}

(* While a connection is open, the messages in the queue and in the hands of *)
(* recvThread are the packets after those handled, each cut where the server *)
(* cut it, and the bytes in the buffer and on their way continue them: none  *)
(* is lost, repeated, mixed up, or left from an earlier connection           *)
(* (Network.cpp 59-81, 124-179).                                             *)
StreamKept ==
  mSocket = "open" =>
    LET messages == IF msg = <<>> THEN mPacketQueue ELSE Append(mPacketQueue, msg)
        taken    == handled + Len(messages)
        rest     == [i \in 1 .. Len(sent) - taken |->
                       Frame(conn, taken + i, sent[taken + i])]
        bytes    == Ring!Peek(mRecvBuffer, Ring!UseSize(mRecvBuffer))
    IN /\ taken <= Len(sent)
       /\ \A i \in 1 .. Len(messages) :
            messages[i] = Body(conn, handled + i, sent[handled + i])
       /\ IF srv = "closed" THEN IsPrefix(bytes \o wire, FlattenSeq(rest))
                            ELSE bytes \o wire = FlattenSeq(rest)

(* No assertion fails but the one on a Send after the server has closed: the *)
(* login scene never gets a packet of the field (LoginScene.cpp:111), nor    *)
(* the field scene an answer to a login (FieldScene.cpp:227), and a thread   *)
(* is started only after the last one was joined.                            *)
NoAssert == faults \subseteq {"send"}

(* recvThread stops at its __debugbreak only if a full packet queue has kept *)
(* it from emptying its buffer: a client that keeps up never does.           *)
BreakOnlyBehind == rpc = "break" => behind

(* The client does not end itself: no assertion fails but the one on a Send  *)
(* after the server closed, recvThread stops only far behind, and no call of *)
(* its ring buffer fails.                                                    *)
NoCrash == NoAssert /\ BreakOnlyBehind /\ mRecvBuffer.mBFail = {}

(* What the server sent is handled, if it keeps the connection open and no   *)
(* frame was left for a full queue: recvThread does not go back to recv with *)
(* a frame it could have cut.                                                *)
Delivered ==
  \A c \in 1 .. MaxConn, n \in 1 .. MaxSent :
    (conn = c /\ Len(sent) >= n) ~>
      (conn # c \/ handled >= n \/ srv \in {"closed", "gone"} \/ behind)

(* A refused login is tried again on a new connection, unless the server     *)
(* closes the connection before the client has read the refusal.             *)
LoginRetried ==
  (srv = "refused" /\ conn < MaxConn) ~> (srv \in {"asked", "closed"})
=============================================================================

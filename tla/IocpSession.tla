---------------------------- MODULE IocpSession ----------------------------
(***************************************************************************)
(* The session life cycle of the IOCP network library                      *)
(* (_lib/AcceptEx_IOCP_NetworkLib): a fixed pool of sessions, each with    *)
(* four OVERLAPPEDs (accept, recv, send, release) and one reference count, *)
(* mIOcnt, that decides when the slot may be recycled.                     *)
(*                                                                         *)
(* Actors: the IOCP worker threads, the content threads that call sendPost *)
(* and disconnectSession with a session id that may be stale, the thread   *)
(* that calls stop(), and the kernel with the remote clients.  One step is *)
(* one interlocked operation, one lock region or one kernel call.          *)
(*                                                                         *)
(* Abstractions.  mIOcnt is split in its RELEASE_IOCOUNT bit (released)    *)
(* and the bits below it (ioCnt); a session id is its index and sequence   *)
(* number; a queued message is the sequence number of its owner; the stack *)
(* of free indices is a set; the completion queue is the set of            *)
(* OVERLAPPEDs whose completion is queued (its order is not used).  The    *)
(* counters kept for display (mAcceptCnt, mSendCnt, ...) are left out.     *)
(***************************************************************************)
EXTENDS Integers, Sequences, FiniteSets

CONSTANTS
  SESSION_MAX,             (* number of sessions (CONFIG_SESSION_MAX)            *)
  SEND_MESSAGE_MAXCOUNT,   (* messages taken by one WSASend                      *)
  Workers,                 (* IOCP worker threads                                *)
  Callers,                 (* content threads: sendPost, disconnectSession       *)
  Main,                    (* the thread that calls stop()                       *)
  WsaErrors,               (* errors WSARecv and WSASend may report              *)
  EarlyAccept,             (* may an accept complete before its slot is counted? *)
  MaxSeq,                  (* bound: last sequence number AcceptEx succeeds for  *)
  MaxCalls                 (* bound: calls made by the content threads           *)

Threads == Workers \cup Callers \cup {Main}
Slots   == 0 .. SESSION_MAX - 1

ASSUME ConstantsAssumption ==
  /\ SESSION_MAX \in Nat \ {0}
  /\ SEND_MESSAGE_MAXCOUNT \in Nat \ {0}
  /\ WsaErrors \subseteq {"reset", "other"}
  /\ EarlyAccept \in BOOLEAN
  /\ MaxSeq \in Nat /\ MaxCalls \in Nat

(* The content, worker and main threads are different threads, finitely many. *)
ASSUME ThreadsAssumption ==
  /\ IsFiniteSet(Workers) /\ IsFiniteSet(Callers)
  /\ Workers \cap Callers = {}
  /\ Main \notin Workers \cup Callers

VARIABLES
  ioCnt, released,       (* mIOcnt: the bits below RELEASE_IOCOUNT, and that bit  *)
  ov,                    (* status of each session's OVERLAPPEDs                  *)
  mLive, mAccepted,
  mSessionID,            (* sequence number part of the current session id        *)
  mSendFlag, mSendQ,
  mSendMsgs,             (* mSendOv->mSendMsgs, mSendOv->mMsgCnt is its length    *)
  mSeqID, freeIdx,       (* next sequence number, mStackSessionIdx as a set       *)
  mActiveSlotCnt, mSessionCnt,
  mBOn, listening,       (* mBOn, and whether mListenSock is open                 *)
  pc, at, arg, op,       (* per thread: program counter, slot, id and call        *)
  todo,                  (* slots disconnectAllSession has still to visit         *)
  opened, closed,        (* history: ids given to onAccept, to onRelease          *)
  calls                  (* history: calls started by the content threads         *)

cntVars  == <<ioCnt, released>>
sessVars == <<mAccepted, mSessionID, mSessionCnt, opened, closed>>
sendVars == <<mSendFlag, mSendQ, mSendMsgs>>
poolVars == <<mSeqID, freeIdx, mActiveSlotCnt>>
srvVars  == <<mBOn, listening, todo>>
ctxVars  == <<at, arg, op>>
vars == <<cntVars, ov, mLive, sessVars, sendVars, poolVars, srvVars, ctxVars, pc, calls>>

IoKinds == {"accept", "recv", "send"}
Kinds   == IoKinds \cup {"release"}
(* "eof" is a queued recv completion with 0 bytes: FIN, reset or cancelled.    *)
Status  == {"idle", "pending", "queued", "eof"}
ByRef   == -1      (* the id argument is a reference to session.mSessionID     *)
Ids     == Nat \cup {ByRef}

LockPCs    == {"lock_id", "bad_id", "enq", "kick", "disc_live", "disc_cancel", "unlock"}
HandlePCs  == {"acc_check", "acc_open", "reg_recv", "wsa_recv", "recv", "fin", "fin_cancel",
               "sent", "rs_size", "rs_clear", "rs_again", "rs_set", "rs_live", "wsa_send",
               "recheck", "dec"}
ReleasePCs == {"rel_notify", "rel_reset"}
RegPCs     == {"reg_id", "reg_accept", "reg_cnt", "reg_slot"}
StopPCs    == {"run", "close", "next", "spin", "join", "closed"}
PCs == LockPCs \cup HandlePCs \cup ReleasePCs \cup RegPCs \cup StopPCs
         \cup {"idle", "lock", "dec_cas", "unlock_cas", "reg_pop", "exit"}

-----------------------------------------------------------------------------

(* The state the constructor leaves: every slot waits in AcceptEx. *)
Init ==
  /\ ioCnt = [s \in Slots |-> 1] /\ released = [s \in Slots |-> FALSE]
  /\ ov = [s \in Slots |-> [k \in Kinds |-> IF k = "accept" THEN "pending" ELSE "idle"]]
  /\ mLive = [s \in Slots |-> FALSE] /\ mAccepted = [s \in Slots |-> FALSE]
  /\ mSessionID = [s \in Slots |-> s] /\ mSeqID = SESSION_MAX - 1
  /\ mSendFlag = [s \in Slots |-> FALSE]
  /\ mSendQ = [s \in Slots |-> <<>>] /\ mSendMsgs = [s \in Slots |-> <<>>]
  /\ freeIdx = {} /\ mActiveSlotCnt = SESSION_MAX /\ mSessionCnt = 0
  /\ mBOn = TRUE /\ listening = TRUE /\ todo = {}
  /\ pc = [t \in Threads |-> IF t = Main THEN "run" ELSE "idle"]
  /\ at = [t \in Threads |-> 0] /\ arg = [t \in Threads |-> ByRef]
  /\ op = [t \in Threads |-> "disc"]
  /\ opened = {} /\ closed = {} /\ calls = 0

Goto(t, label) == pc' = [pc EXCEPT ![t] = label]
IncIo(s) == ioCnt' = [ioCnt EXCEPT ![s] = @ + 1]
DecIo(s) == ioCnt' = [ioCnt EXCEPT ![s] = @ - 1]
(* Whether the decrement about to happen brings the whole 16-bit count to 0. *)
LastRef(s) == ioCnt[s] = 1 /\ ~released[s]
SetOv(s, k, status) == ov' = [ov EXCEPT ![s][k] = status]

(* CancelIoEx on one OVERLAPPED: a pending operation completes as aborted.    *)
Cancelled(s, ks) ==
  [ov EXCEPT ![s] = [k \in Kinds |->
     IF k \in ks /\ ov[s][k] = "pending" THEN (IF k = "recv" THEN "eof" ELSE "queued")
                                         ELSE ov[s][k]]]

(* Where a thread goes on after sessionLock failed or sessionUnLock returned. *)
Back(t) == IF t \in Workers THEN "dec" ELSE IF t = Main THEN "next" ELSE "idle"

-----------------------------------------------------------------------------
(* The kernel and the remote clients. *)

(* A client connects, or the closed listen socket aborts the AcceptEx. *)
KernelAccept(s) ==
  /\ ov[s]["accept"] = "pending"
  /\ SetOv(s, "accept", "queued")
  /\ UNCHANGED <<cntVars, mLive, sessVars, sendVars, poolVars, srvVars, ctxVars, pc, calls>>

(* Data arrives, or the client closes or resets the connection. *)
KernelRecv(s) ==
  /\ ov[s]["recv"] = "pending"
  /\ \E r \in {"queued", "eof"} : SetOv(s, "recv", r)
  /\ UNCHANGED <<cntVars, mLive, sessVars, sendVars, poolVars, srvVars, ctxVars, pc, calls>>

KernelSend(s) ==
  /\ ov[s]["send"] = "pending"
  /\ SetOv(s, "send", "queued")
  /\ UNCHANGED <<cntVars, mLive, sessVars, sendVars, poolVars, srvVars, ctxVars, pc, calls>>

-----------------------------------------------------------------------------
(* The worker thread. *)

(* Is slot s between AcceptEx and the two counters registerAcceptEx sets? *)
Registering(s) == \E t \in Threads : at[t] = s /\ pc[t] \in {"reg_cnt", "reg_slot"}

Dequeue(w, s, k) ==
  /\ pc[w] = "idle"
  /\ ov[s][k] \in {"queued", "eof"}
  /\ k = "accept" => EarlyAccept \/ ~Registering(s)
  /\ SetOv(s, k, "idle")
  /\ at' = [at EXCEPT ![w] = s]
  /\ Goto(w, CASE k = "accept" -> "acc_check"
               [] k = "recv" -> IF ov[s][k] = "eof" THEN "fin" ELSE "recv"
               [] k = "send" -> "sent"
               [] k = "release" -> "rel_notify")
  /\ UNCHANGED <<cntVars, mLive, sessVars, sendVars, poolVars, srvVars, arg, op, calls>>

(* The decrement that ends every handler but completeRelease. *)
Dec(w) ==
  /\ pc[w] = "dec"
  /\ DecIo(at[w])
  /\ Goto(w, IF LastRef(at[w]) THEN "dec_cas" ELSE "idle")
  /\ UNCHANGED <<released, ov, mLive, sessVars, sendVars, poolVars, srvVars, ctxVars, calls>>

(* Fault: the exchange does not look at the RELEASE_IOCOUNT bit. *)
TryReleaseTwice(t, from, label) ==
  /\ pc[t] = from
  /\ IF ioCnt[at[t]] = 0
     THEN released' = [released EXCEPT ![at[t]] = TRUE] /\ SetOv(at[t], "release", "queued")
     ELSE UNCHANGED <<released, ov>>
  /\ Goto(t, label)
  /\ UNCHANGED <<ioCnt, mLive, sessVars, sendVars, poolVars, srvVars, ctxVars, calls>>

(* CompareExchange of mIOcnt from 0 to RELEASE_IOCOUNT, and the post it allows. *)
TryRelease(t, from, label) ==
  /\ pc[t] = from
  /\ IF ioCnt[at[t]] = 0 /\ ~released[at[t]]
     THEN /\ released' = [released EXCEPT ![at[t]] = TRUE]
          /\ SetOv(at[t], "release", "queued")
     ELSE UNCHANGED <<released, ov>>
  /\ Goto(t, label)
  /\ UNCHANGED <<ioCnt, mLive, sessVars, sendVars, poolVars, srvVars, ctxVars, calls>>

DecCas(w) == TryRelease(w, "dec_cas", "idle")

(* completeAcceptEx *)
AcceptCheck(w) ==
  /\ pc[w] = "acc_check"
  /\ Goto(w, IF mBOn THEN "acc_open" ELSE "dec")
  /\ UNCHANGED <<cntVars, ov, mLive, sessVars, sendVars, poolVars, srvVars, ctxVars, calls>>

AcceptOpen(w) ==
  LET s == at[w] IN
  /\ pc[w] = "acc_open"
  /\ mLive' = [mLive EXCEPT ![s] = TRUE]
  /\ mAccepted' = [mAccepted EXCEPT ![s] = TRUE]
  /\ mSessionCnt' = mSessionCnt + 1
  /\ opened' = opened \cup {<<s, mSessionID[s]>>}
  /\ Goto(w, "reg_recv")
  /\ UNCHANGED <<cntVars, ov, mSessionID, closed, sendVars, poolVars, srvVars, ctxVars, calls>>

(* The worker itself calls disconnectSession(session.mSessionID): a receive     *)
(* buffer that is full, a header with a forged length, or the content in        *)
(* onRecv (too many messages) on the session it is handling.                   *)
CallDisconnect(w) ==
  /\ arg' = [arg EXCEPT ![w] = ByRef] /\ op' = [op EXCEPT ![w] = "disc"]
  /\ Goto(w, "lock")
  /\ UNCHANGED <<cntVars, ov, mLive, sessVars, sendVars, poolVars, srvVars, at, calls>>

(* registerRecv: a full receive buffer disconnects, a dead session stops here. *)
RegisterRecv(w) ==
  /\ pc[w] = "reg_recv"
  /\ \/ CallDisconnect(w)
     \/ /\ IF mLive[at[w]] THEN IncIo(at[w]) /\ Goto(w, "wsa_recv")
                           ELSE UNCHANGED ioCnt /\ Goto(w, "dec")
        /\ UNCHANGED <<released, ov, mLive, sessVars, sendVars, poolVars, srvVars, ctxVars, calls>>

(* WSARecv or WSASend: completes at once, is left pending, or fails.  On a      *)
(* connection that was reset the kernel also aborts what is pending.           *)
WsaCall(w, from, k) ==
  LET s == at[w] IN
  /\ pc[w] = from
  /\ \/ /\ SetOv(s, k, "pending") /\ Goto(w, "recheck")
        /\ UNCHANGED <<ioCnt, mLive>>
     \/ /\ \E r \in (IF k = "recv" THEN {"queued", "eof"} ELSE {"queued"}) : SetOv(s, k, r)
        /\ Goto(w, "dec")
        /\ UNCHANGED <<ioCnt, mLive>>
     \/ /\ "reset" \in WsaErrors
        /\ mLive' = [mLive EXCEPT ![s] = FALSE] /\ DecIo(s) /\ Goto(w, "dec")
        /\ ov' = Cancelled(s, {"recv", "send"})
     \/ /\ "other" \in WsaErrors           \* no case of the switch: the count stays
        /\ Goto(w, "dec")
        /\ UNCHANGED <<ioCnt, mLive, ov>>
  /\ UNCHANGED <<released, sessVars, sendVars, poolVars, srvVars, ctxVars, calls>>

WsaRecv(w) == WsaCall(w, "wsa_recv", "recv")
WsaSend(w) == WsaCall(w, "wsa_send", "send")

(* Fault: a receive left pending on a dead session is not cancelled. *)
RecheckNever(w) ==
  /\ pc[w] = "recheck" /\ Goto(w, "dec")
  /\ UNCHANGED <<cntVars, ov, mLive, sessVars, sendVars, poolVars, srvVars, ctxVars, calls>>

(* checkAndHandleIoError, WSA_IO_PENDING: cancel if the session died meanwhile. *)
Recheck(w) ==
  /\ pc[w] = "recheck"
  /\ ov' = IF mLive[at[w]] THEN ov ELSE Cancelled(at[w], {"recv", "send"})
  /\ Goto(w, "dec")
  /\ UNCHANGED <<cntVars, mLive, sessVars, sendVars, poolVars, srvVars, ctxVars, calls>>

(* completeRecv: a forged header disconnects, else messages go to onRecv. *)
CompleteRecv(w) ==
  /\ pc[w] = "recv"
  /\ \/ CallDisconnect(w)
     \/ /\ Goto(w, "reg_recv")
        /\ UNCHANGED <<cntVars, ov, mLive, sessVars, sendVars, poolVars, srvVars, ctxVars, calls>>

(* A receive of 0 bytes: mLive = 0, then the pending send is cancelled. *)
Fin(w) ==
  /\ pc[w] = "fin"
  /\ mLive' = [mLive EXCEPT ![at[w]] = FALSE]
  /\ Goto(w, "fin_cancel")
  /\ UNCHANGED <<cntVars, ov, sessVars, sendVars, poolVars, srvVars, ctxVars, calls>>

FinCancel(w) ==
  /\ pc[w] = "fin_cancel"
  /\ ov' = Cancelled(at[w], {"send"})
  /\ Goto(w, "dec")
  /\ UNCHANGED <<cntVars, mLive, sessVars, sendVars, poolVars, srvVars, ctxVars, calls>>

(* completeSend frees what was sent and calls registerSend. *)
CompleteSend(w) ==
  /\ pc[w] = "sent"
  /\ mSendMsgs' = [mSendMsgs EXCEPT ![at[w]] = <<>>]
  /\ Goto(w, "rs_size")
  /\ UNCHANGED <<cntVars, ov, mLive, sessVars, mSendFlag, mSendQ, poolVars, srvVars, ctxVars, calls>>

RegisterSend(w) ==
  LET s == at[w]
      n == IF Len(mSendQ[s]) < SEND_MESSAGE_MAXCOUNT THEN Len(mSendQ[s]) ELSE SEND_MESSAGE_MAXCOUNT
  IN
  /\ pc[w] = "rs_size"
  /\ IF n = 0
     THEN Goto(w, "rs_clear") /\ UNCHANGED <<mSendQ, mSendMsgs>>
     ELSE /\ mSendMsgs' = [mSendMsgs EXCEPT ![s] = SubSeq(mSendQ[s], 1, n)]
          /\ mSendQ' = [mSendQ EXCEPT ![s] = SubSeq(@, n + 1, Len(@))]
          /\ Goto(w, "rs_live")
  /\ UNCHANGED <<cntVars, ov, mLive, sessVars, mSendFlag, poolVars, srvVars, ctxVars, calls>>

(* Fault: the queue is not looked at again after the flag is given back. *)
SendFlagClearOnly(w) ==
  /\ pc[w] = "rs_clear"
  /\ mSendFlag' = [mSendFlag EXCEPT ![at[w]] = FALSE]
  /\ Goto(w, "dec")
  /\ UNCHANGED <<cntVars, ov, mLive, sessVars, mSendQ, mSendMsgs, poolVars, srvVars, ctxVars, calls>>

(* Nothing to send: the flag is given back, and the queue looked at once more. *)
SendFlagClear(w) ==
  /\ pc[w] = "rs_clear"
  /\ mSendFlag' = [mSendFlag EXCEPT ![at[w]] = FALSE]
  /\ Goto(w, IF mSendFlag[at[w]] THEN "rs_again" ELSE "dec")
  /\ UNCHANGED <<cntVars, ov, mLive, sessVars, mSendQ, mSendMsgs, poolVars, srvVars, ctxVars, calls>>

SendSizeAgain(w) ==
  /\ pc[w] = "rs_again"
  /\ Goto(w, IF mSendQ[at[w]] = <<>> THEN "dec" ELSE "rs_set")
  /\ UNCHANGED <<cntVars, ov, mLive, sessVars, sendVars, poolVars, srvVars, ctxVars, calls>>

(* Fault: the completion is posted without the reference it will give back. *)
KickSendNoRef(t, from, label) ==
  /\ pc[t] = from
  /\ IF mSendFlag[at[t]] THEN UNCHANGED <<mSendFlag, ov>>
     ELSE /\ mSendFlag' = [mSendFlag EXCEPT ![at[t]] = TRUE]
          /\ SetOv(at[t], "send", "queued")
  /\ Goto(t, label)
  /\ UNCHANGED <<cntVars, mLive, sessVars, mSendQ, mSendMsgs, poolVars, srvVars, ctxVars, calls>>

(* CompareExchange of mSendFlag from 0 to 1; the winner calls mSendOv. *)
KickSend(t, from, label) ==
  LET s == at[t] IN
  /\ pc[t] = from
  /\ IF mSendFlag[s] THEN UNCHANGED <<mSendFlag, ioCnt, ov>>
     ELSE /\ mSendFlag' = [mSendFlag EXCEPT ![s] = TRUE]
          /\ IncIo(s)
          /\ SetOv(s, "send", "queued")
  /\ Goto(t, label)
  /\ UNCHANGED <<released, mLive, sessVars, mSendQ, mSendMsgs, poolVars, srvVars, ctxVars, calls>>

SendFlagAgain(w) == KickSend(w, "rs_set", "dec")

(* Fault: WSASend is called without a reference of its own. *)
SendLiveNoRef(w) ==
  /\ pc[w] = "rs_live"
  /\ Goto(w, IF mLive[at[w]] THEN "wsa_send" ELSE "dec")
  /\ UNCHANGED <<cntVars, ov, mLive, sessVars, sendVars, poolVars, srvVars, ctxVars, calls>>

SendLive(w) ==
  /\ pc[w] = "rs_live"
  /\ IF mLive[at[w]] THEN IncIo(at[w]) /\ Goto(w, "wsa_send")
                     ELSE UNCHANGED ioCnt /\ Goto(w, "dec")
  /\ UNCHANGED <<released, ov, mLive, sessVars, sendVars, poolVars, srvVars, ctxVars, calls>>

-----------------------------------------------------------------------------
(* completeRelease and registerAcceptEx, run by a worker. *)

(* Fault: onRelease also for a slot whose accept was aborted. *)
ReleaseNotifyAlways(w) ==
  LET s == at[w] IN
  /\ pc[w] = "rel_notify"
  /\ closed' = closed \cup {<<s, mSessionID[s]>>} /\ mSessionCnt' = mSessionCnt - 1
  /\ mActiveSlotCnt' = mActiveSlotCnt - 1
  /\ Goto(w, "rel_reset")
  /\ UNCHANGED <<cntVars, ov, mLive, mAccepted, mSessionID, opened, sendVars, mSeqID, freeIdx,
                 srvVars, ctxVars, calls>>

ReleaseNotify(w) ==
  LET s == at[w] IN
  /\ pc[w] = "rel_notify"
  /\ closed' = IF mAccepted[s] THEN closed \cup {<<s, mSessionID[s]>>} ELSE closed
  /\ mSessionCnt' = IF mAccepted[s] THEN mSessionCnt - 1 ELSE mSessionCnt
  /\ mActiveSlotCnt' = mActiveSlotCnt - 1
  /\ Goto(w, "rel_reset")
  /\ UNCHANGED <<cntVars, ov, mLive, mAccepted, mSessionID, opened, sendVars, mSeqID, freeIdx,
                 srvVars, ctxVars, calls>>

(* Fault: the send queue is not drained. *)
ReleaseResetKeepsQueue(w) ==
  LET s == at[w] IN
  /\ pc[w] = "rel_reset"
  /\ mSendMsgs' = [mSendMsgs EXCEPT ![s] = <<>>]
  /\ mSendFlag' = [mSendFlag EXCEPT ![s] = FALSE]
  /\ mAccepted' = [mAccepted EXCEPT ![s] = FALSE]
  /\ freeIdx' = freeIdx \cup {s}
  /\ Goto(w, "reg_pop")
  /\ UNCHANGED <<cntVars, ov, mLive, mSessionID, mSessionCnt, opened, closed, mSendQ, mSeqID,
                 mActiveSlotCnt, srvVars, ctxVars, calls>>

(* Session::ReleaseSession, then the index goes back to the stack. *)
ReleaseReset(w) ==
  LET s == at[w] IN
  /\ pc[w] = "rel_reset"
  /\ mSendQ' = [mSendQ EXCEPT ![s] = <<>>]
  /\ mSendMsgs' = [mSendMsgs EXCEPT ![s] = <<>>]
  /\ mSendFlag' = [mSendFlag EXCEPT ![s] = FALSE]
  /\ mAccepted' = [mAccepted EXCEPT ![s] = FALSE]
  /\ freeIdx' = freeIdx \cup {s}
  /\ Goto(w, "reg_pop")
  /\ UNCHANGED <<cntVars, ov, mLive, mSessionID, mSessionCnt, opened, closed, mSeqID,
                 mActiveSlotCnt, srvVars, ctxVars, calls>>

(* An index popped after stop() is not pushed back. *)
RegisterPop(w) ==
  /\ pc[w] = "reg_pop"
  /\ \/ freeIdx = {} /\ Goto(w, "idle") /\ UNCHANGED <<freeIdx, at>>
     \/ \E s \in freeIdx :
          /\ freeIdx' = freeIdx \ {s}
          /\ IF mBOn THEN at' = [at EXCEPT ![w] = s] /\ Goto(w, "reg_id")
                     ELSE UNCHANGED at /\ Goto(w, "idle")
  /\ UNCHANGED <<cntVars, ov, mLive, sessVars, sendVars, mSeqID, mActiveSlotCnt, srvVars, arg, op, calls>>

RegisterId(w) ==
  /\ pc[w] = "reg_id"
  /\ mSeqID' = mSeqID + 1
  /\ mSessionID' = [mSessionID EXCEPT ![at[w]] = mSeqID + 1]
  /\ Goto(w, "reg_accept")
  /\ UNCHANGED <<cntVars, ov, mLive, mAccepted, mSessionCnt, opened, closed, sendVars, freeIdx,
                 mActiveSlotCnt, srvVars, ctxVars, calls>>

RegisterAccept(w) ==
  LET s == at[w] IN
  /\ pc[w] = "reg_accept"
  /\ \/ /\ listening /\ mSessionID[s] <= MaxSeq
        /\ SetOv(s, "accept", "pending") /\ Goto(w, "reg_cnt")
        /\ UNCHANGED freeIdx
     \/ /\ freeIdx' = freeIdx \cup {s} /\ Goto(w, "idle")      \* AcceptEx failed
        /\ UNCHANGED ov
  /\ UNCHANGED <<cntVars, mLive, sessVars, sendVars, mSeqID, mActiveSlotCnt, srvVars, ctxVars, calls>>

(* InterlockedExchange16(&mIOcnt, 1), after AcceptEx has been issued. *)
RegisterCount(w) ==
  /\ pc[w] = "reg_cnt"
  /\ ioCnt' = [ioCnt EXCEPT ![at[w]] = 1] /\ released' = [released EXCEPT ![at[w]] = FALSE]
  /\ Goto(w, "reg_slot")
  /\ UNCHANGED <<ov, mLive, sessVars, sendVars, poolVars, srvVars, ctxVars, calls>>

RegisterSlot(w) ==
  /\ pc[w] = "reg_slot"
  /\ mActiveSlotCnt' = mActiveSlotCnt + 1
  /\ Goto(w, "idle")
  /\ UNCHANGED <<cntVars, ov, mLive, sessVars, sendVars, mSeqID, freeIdx, srvVars, ctxVars, calls>>

-----------------------------------------------------------------------------
(* sessionLock, sendPost, disconnectSession, sessionUnLock: any thread. *)

(* A content thread uses any id it was ever given, recycled or not. *)
StartCall(c) ==
  /\ pc[c] = "idle"
  /\ \E id \in opened, call \in {"send", "disc"} :
       /\ at' = [at EXCEPT ![c] = id[1]] /\ arg' = [arg EXCEPT ![c] = id[2]]
       /\ op' = [op EXCEPT ![c] = call]
  /\ calls < MaxCalls /\ calls' = calls + 1
  /\ Goto(c, "lock")
  /\ UNCHANGED <<cntVars, ov, mLive, sessVars, sendVars, poolVars, srvVars>>

(* The increment; a released slot fails the lock and keeps the increment. *)
Lock(t) ==
  /\ pc[t] = "lock"
  /\ IncIo(at[t])
  /\ Goto(t, IF released[at[t]] THEN Back(t) ELSE "lock_id")
  /\ UNCHANGED <<released, ov, mLive, sessVars, sendVars, poolVars, srvVars, ctxVars, calls>>

LockId(t) ==
  /\ pc[t] = "lock_id"
  /\ Goto(t, IF arg[t] # ByRef /\ arg[t] # mSessionID[at[t]] THEN "bad_id"
             ELSE IF op[t] = "send" THEN "enq" ELSE "disc_live")
  /\ UNCHANGED <<cntVars, ov, mLive, sessVars, sendVars, poolVars, srvVars, ctxVars, calls>>

BadId(t) ==
  /\ pc[t] = "bad_id"
  /\ DecIo(at[t])
  /\ Goto(t, "unlock_cas")
  /\ UNCHANGED <<released, ov, mLive, sessVars, sendVars, poolVars, srvVars, ctxVars, calls>>

EnQueueMsg(t) ==
  /\ pc[t] = "enq"
  /\ mSendQ' = [mSendQ EXCEPT ![at[t]] = Append(@, arg[t])]
  /\ Goto(t, "kick")
  /\ UNCHANGED <<cntVars, ov, mLive, sessVars, mSendFlag, mSendMsgs, poolVars, srvVars, ctxVars, calls>>

PostSend(t) == KickSend(t, "kick", "unlock")

DisconnectLive(t) ==
  /\ pc[t] = "disc_live"
  /\ mLive' = [mLive EXCEPT ![at[t]] = FALSE]
  /\ Goto(t, "disc_cancel")
  /\ UNCHANGED <<cntVars, ov, sessVars, sendVars, poolVars, srvVars, ctxVars, calls>>

(* The third CancelIoEx names the accepted socket, but AcceptEx was issued on  *)
(* the listen socket: it finds nothing to cancel.                              *)
DisconnectCancel(t) ==
  /\ pc[t] = "disc_cancel"
  /\ ov' = Cancelled(at[t], {"send", "recv"})
  /\ Goto(t, "unlock")
  /\ UNCHANGED <<cntVars, mLive, sessVars, sendVars, poolVars, srvVars, ctxVars, calls>>

Unlock(t) ==
  /\ pc[t] = "unlock"
  /\ DecIo(at[t])
  /\ Goto(t, IF LastRef(at[t]) THEN "unlock_cas" ELSE Back(t))
  /\ UNCHANGED <<released, ov, mLive, sessVars, sendVars, poolVars, srvVars, ctxVars, calls>>

UnlockCas(t) == TryRelease(t, "unlock_cas", Back(t))

-----------------------------------------------------------------------------
(* stop() *)

StopOff ==
  /\ pc[Main] = "run"
  /\ mBOn' = FALSE
  /\ Goto(Main, "close")
  /\ UNCHANGED <<cntVars, ov, mLive, sessVars, sendVars, poolVars, listening, todo, ctxVars, calls>>

(* Fault: the listen socket stays open. *)
StopListenOpen ==
  /\ pc[Main] = "close"
  /\ todo' = Slots
  /\ Goto(Main, "next")
  /\ UNCHANGED <<cntVars, ov, mLive, sessVars, sendVars, poolVars, mBOn, listening, ctxVars, calls>>

StopListen ==
  /\ pc[Main] = "close"
  /\ listening' = FALSE /\ todo' = Slots
  /\ Goto(Main, "next")
  /\ UNCHANGED <<cntVars, ov, mLive, sessVars, sendVars, poolVars, mBOn, ctxVars, calls>>

(* disconnectAllSession: disconnectSession(Session->mSessionID) for each slot. *)
StopNext ==
  /\ pc[Main] = "next"
  /\ \/ \E s \in todo :
          /\ todo' = todo \ {s}
          /\ at' = [at EXCEPT ![Main] = s] /\ arg' = [arg EXCEPT ![Main] = ByRef]
          /\ op' = [op EXCEPT ![Main] = "disc"]
          /\ Goto(Main, "lock")
     \/ todo = {} /\ Goto(Main, "spin") /\ UNCHANGED <<todo, ctxVars>>
  /\ UNCHANGED <<cntVars, ov, mLive, sessVars, sendVars, poolVars, mBOn, listening, calls>>

StopSpin ==
  /\ pc[Main] = "spin"
  /\ mActiveSlotCnt = 0
  /\ Goto(Main, "join")
  /\ UNCHANGED <<cntVars, ov, mLive, sessVars, sendVars, poolVars, srvVars, ctxVars, calls>>

(* A worker takes one of the null completions stop() calls. *)
WorkerExit(w) ==
  /\ pc[w] = "idle" /\ pc[Main] = "join"
  /\ Goto(w, "exit")
  /\ UNCHANGED <<cntVars, ov, mLive, sessVars, sendVars, poolVars, srvVars, ctxVars, calls>>

StopJoin ==
  /\ pc[Main] = "join"
  /\ \A w \in Workers : pc[w] = "exit"
  /\ Goto(Main, "closed")
  /\ UNCHANGED <<cntVars, ov, mLive, sessVars, sendVars, poolVars, srvVars, ctxVars, calls>>

-----------------------------------------------------------------------------

Kernel(s) == KernelAccept(s) \/ KernelRecv(s) \/ KernelSend(s)

WorkerStep(w) ==
  \/ Dec(w) \/ DecCas(w)
  \/ AcceptCheck(w) \/ AcceptOpen(w) \/ RegisterRecv(w) \/ WsaRecv(w) \/ Recheck(w)
  \/ CompleteRecv(w) \/ Fin(w) \/ FinCancel(w)
  \/ CompleteSend(w) \/ RegisterSend(w) \/ SendFlagClear(w) \/ SendSizeAgain(w)
  \/ SendFlagAgain(w) \/ SendLive(w) \/ WsaSend(w)
  \/ ReleaseNotify(w) \/ ReleaseReset(w)
  \/ RegisterPop(w) \/ RegisterId(w) \/ RegisterAccept(w) \/ RegisterCount(w) \/ RegisterSlot(w)

LockStep(t) ==
  \/ Lock(t) \/ LockId(t) \/ BadId(t) \/ EnQueueMsg(t) \/ PostSend(t)
  \/ DisconnectLive(t) \/ DisconnectCancel(t) \/ Unlock(t) \/ UnlockCas(t)

StopStep == StopListen \/ StopNext \/ StopSpin \/ StopJoin

Next ==
  \/ \E s \in Slots : Kernel(s)
  \/ \E w \in Workers, s \in Slots, k \in Kinds : Dequeue(w, s, k)
  \/ \E w \in Workers : WorkerStep(w) \/ WorkerExit(w)
  \/ \E t \in Threads : LockStep(t)
  \/ \E c \in Callers : StartCall(c)
  \/ StopOff \/ StopStep

Spec == Init /\ [][Next]_vars

(* Threads keep running, every queued completion is dequeued in the end (the   *)
(* queue is first in first out), a closed listen socket aborts its AcceptEx.   *)
(* Nothing is assumed of the clients, of StartCall or of StopOff.              *)
Fairness ==
  /\ \A w \in Workers : WF_vars(WorkerStep(w)) /\ WF_vars(WorkerExit(w))
  /\ \A t \in Threads : WF_vars(LockStep(t))
  /\ WF_vars(StopStep)
  /\ \A s \in Slots, k \in Kinds : SF_vars(\E w \in Workers : Dequeue(w, s, k))
  /\ \A s \in Slots : WF_vars(~listening /\ KernelAccept(s))

FairSpec == Spec /\ Fairness
-----------------------------------------------------------------------------
(* Properties *)

(* Type invariant, one conjunct for each group of variables. *)
CntType  == ioCnt \in [Slots -> Nat] /\ released \in [Slots -> BOOLEAN]
OvType   == ov \in [Slots -> [Kinds -> Status]]
LiveType == mLive \in [Slots -> BOOLEAN]
SessType == /\ mAccepted \in [Slots -> BOOLEAN] /\ mSessionID \in [Slots -> Nat]
            /\ mSessionCnt \in Int
            /\ opened \subseteq Slots \X Nat /\ closed \subseteq Slots \X Nat
SendType == /\ mSendFlag \in [Slots -> BOOLEAN]
            /\ mSendQ \in [Slots -> Seq(Ids)] /\ mSendMsgs \in [Slots -> Seq(Ids)]
PoolType == mSeqID \in Nat /\ freeIdx \subseteq Slots /\ mActiveSlotCnt \in Int
SrvType  == mBOn \in BOOLEAN /\ listening \in BOOLEAN /\ todo \subseteq Slots
CtxType  == /\ at \in [Threads -> Slots] /\ arg \in [Threads -> Ids]
            /\ op \in [Threads -> {"send", "disc"}]
PcType   == pc \in [Threads -> PCs]

TypeOK ==
  /\ CntType /\ OvType /\ LiveType /\ SessType /\ SendType /\ PoolType /\ SrvType
  /\ CtxType /\ PcType
  /\ calls \in Nat

(* A worker owns one reference while it handles a completion, and any thread   *)
(* owns one between sessionLock and sessionUnLock.                             *)
Handling(t, s) == t \in Workers /\ at[t] = s
                    /\ pc[t] \in HandlePCs \cup LockPCs \cup {"lock", "unlock_cas"}
Locking(t, s)  == at[t] = s /\ pc[t] \in LockPCs
Issuing(t, s)  == at[t] = s /\ pc[t] \in {"wsa_recv", "wsa_send"}
(* The worker that runs completeRelease and registerAcceptEx on slot s.        *)
Recycling(t, s) == at[t] = s /\ pc[t] \in (ReleasePCs \cup RegPCs) \ {"reg_slot"}

(* The references mIOcnt counts: issued operations, handlers, lock regions.    *)
Refs(s) ==
  {<<"ov", k>> : k \in {k \in IoKinds : ov[s][k] # "idle"}}
    \cup {<<"handle", t>> : t \in {t \in Threads : Handling(t, s)}}
    \cup {<<"lock", t>> : t \in {t \in Threads : Locking(t, s)}}
    \cup {<<"issue", t>> : t \in {t \in Threads : Issuing(t, s)}}

(* Once RELEASE_IOCOUNT is set nobody touches the session any more: no          *)
(* operation of its socket is outstanding, no handler or lock region is inside *)
(* it; the only operation there can be is the AcceptEx of its next life.       *)
ReleasedQuiet ==
  \A s \in Slots : released[s] =>
    /\ \A t \in Threads : ~Handling(t, s) /\ ~Locking(t, s)
    /\ ov[s]["recv"] = "idle" /\ ov[s]["send"] = "idle"
    /\ ov[s]["accept"] # "idle" => Registering(s)

(* A slot that is free or waits for its release completion has one owner: the  *)
(* stack, the queued release completion, or the worker that recycles it.       *)
OneOwner ==
  \A s \in Slots :
    /\ \A t, u \in Threads : Recycling(t, s) /\ Recycling(u, s) => t = u
    /\ (\E t \in Threads : Recycling(t, s)) => s \notin freeIdx /\ released[s]
    /\ s \in freeIdx => released[s]
    /\ ov[s]["release"] # "idle" =>
         released[s] /\ s \notin freeIdx /\ \A t \in Threads : ~Recycling(t, s)

(* No OVERLAPPED is zeroed or issued again while the kernel or the completion  *)
(* queue still holds it, and sends of one session are never handled twice at   *)
(* the same time: whoever finds mSendFlag 0 finds mSendOv unused.              *)
OverlappedFree ==
  \A s \in Slots, t \in Threads : at[t] = s =>
    /\ pc[t] = "wsa_recv" => ov[s]["recv"] = "idle"
    /\ pc[t] = "wsa_send" => ov[s]["send"] = "idle"
    /\ pc[t] = "reg_accept" => \A k \in Kinds : ov[s][k] = "idle"
    /\ pc[t] \in {"kick", "rs_set"} /\ ~mSendFlag[s] =>
         /\ ov[s]["send"] = "idle"
         /\ \A u \in Workers : at[u] = s =>
              pc[u] \notin {"sent", "rs_size", "rs_live", "wsa_send"}

(* A message that sits in the send queue while mSendFlag is 0 is not forgotten: *)
(* some thread is about to set the flag and post the send.                     *)
NoLostWakeup ==
  \A s \in Slots : mSendQ[s] # <<>> /\ ~mSendFlag[s] =>
    \E t \in Threads : at[t] = s /\ pc[t] \in {"kick", "rs_again", "rs_set"}

(* RT_ASSERT(msg->GetOwnerID() == session.mSessionID.Value) of registerSend:   *)
(* what is queued or being sent on a session was posted for that session.      *)
OwnerMatches ==
  \A s \in Slots :
    \A i \in 1 .. Len(mSendQ[s]) + Len(mSendMsgs[s]) :
      (mSendQ[s] \o mSendMsgs[s])[i] = mSessionID[s]

(* A slot is accepted again only with nothing left of its former session (the  *)
(* RT_ASSERT(session.mSendOv->mMsgCnt == 0) of completeAcceptEx, and more) and  *)
(* under an id no session had before.                                          *)
FreshAccept ==
  \A w \in Workers : pc[w] = "acc_open" =>
    LET s == at[w] IN
    /\ mSendMsgs[s] = <<>> /\ mSendQ[s] = <<>> /\ ~mSendFlag[s] /\ ~mAccepted[s]
    /\ <<s, mSessionID[s]>> \notin opened

(* The callbacks the content sees follow the contract of SessionContract.      *)
Contract == INSTANCE SessionContract WITH Idx <- Slots
ContractSpec == Contract!Spec

(* A session whose mLive is 0 is released, whatever the client does.           *)
DeadIsReleased == \A s \in Slots : mAccepted[s] /\ ~mLive[s] ~> ~mAccepted[s]

(* A client that goes on being received from ends its connection in the end.   *)
ClientEnds(s) ==
  /\ KernelRecv(s) \/ \E w \in Workers : at[w] = s /\ WsaRecv(w)
  /\ ov'[s]["recv"] = "eof"

(* stop() comes back, if the clients leave: what the while loop over            *)
(* mActiveSlotCnt waits for.                                                   *)
StopReturns ==
  (\A s \in Slots : SF_vars(ClientEnds(s))) => (pc[Main] = "close" ~> pc[Main] = "closed")

-----------------------------------------------------------------------------
(* The inductive strengthening of ReleasedQuiet and OneOwner. *)

(* Which thread runs which code. *)
PcInv ==
  \A t \in Threads :
    /\ pc[t] \in HandlePCs \cup ReleasePCs \cup RegPCs \cup {"dec_cas", "reg_pop", "exit"}
         => t \in Workers
    /\ pc[t] \in StopPCs => t = Main

(* mIOcnt counts every reference; more only where an error leaked one.         *)
RefsCounted ==
  \A s \in Slots : ~released[s] => Cardinality(Refs(s)) <= ioCnt[s]

(* The AcceptEx issued by registerAcceptEx is outstanding until both counters  *)
(* are set, and keeps the slot from being released.                            *)
RegistrationInv ==
  \A t \in Threads :
    /\ pc[t] \in {"reg_cnt", "reg_slot"} => ov[at[t]]["accept"] # "idle"
    /\ pc[t] = "reg_slot" => ~released[at[t]]

IInv == TypeOK /\ PcInv /\ RefsCounted /\ RegistrationInv /\ ReleasedQuiet /\ OneOwner

(* The send path as a whole: mSendOv is never posted twice at a time, and yet *)
(* no message is left in the queue without somebody to send it.               *)
SendsOrderly == OverlappedFree /\ NoLostWakeup

(* The ids of sessions as a whole: a handler never works for another client   *)
(* than the one its id was made for, and an accept never meets the id of an    *)
(* earlier life of its slot.                                                   *)
SessionIdsHold == OwnerMatches /\ FreshAccept
=============================================================================

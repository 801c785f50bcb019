------------------------- MODULE IocpSession_proofs -------------------------
(***************************************************************************)
(* Proofs about IocpSession: type correctness, and that a released session *)
(* is touched by nobody (IInv); then, on top of that invariant, the send   *)
(* path, the identity of sessions, and that the callbacks the content sees *)
(* implement SessionContract.  For any number of sessions, workers and     *)
(* callers and any errors of WSARecv and WSASend.  The one hypothesis on   *)
(* the environment is ~EarlyAccept: no client connects between AcceptEx    *)
(* and the two counters registerAcceptEx sets after it.                    *)
(***************************************************************************)
EXTENDS IocpSession, FiniteSetTheorems, TLAPS

-----------------------------------------------------------------------------
(* Cardinality of a set that gains or loses one element. *)

(* A subset of a finite set has no more elements.                            *)
LEMMA CardSubset ==
  ASSUME NEW A, NEW B, IsFiniteSet(A), B \subseteq A
  PROVE  /\ Cardinality(A) \in Nat /\ Cardinality(B) \in Nat
         /\ Cardinality(B) <= Cardinality(A)
BY FS_Subset, FS_CardinalityType

(* A set with at most one element more counts at most one more.              *)
LEMMA CardAdd ==
  ASSUME NEW A, NEW B, NEW x, IsFiniteSet(A), B \subseteq A \cup {x}
  PROVE  /\ Cardinality(A) \in Nat /\ Cardinality(B) \in Nat
         /\ Cardinality(B) <= Cardinality(A) + 1
<1>1. Cardinality(A) \in Nat BY FS_CardinalityType
<1>2. IsFiniteSet(A \cup {x})
      /\ (Cardinality(A \cup {x}) = Cardinality(A) \/ Cardinality(A \cup {x}) = Cardinality(A) + 1)
  <2>1. /\ IsFiniteSet(A \cup {x})
        /\ Cardinality(A \cup {x}) = IF x \in A THEN Cardinality(A) ELSE Cardinality(A) + 1
    BY FS_AddElement
  <2>2. QED BY <2>1
<1>3. Cardinality(B) \in Nat /\ Cardinality(B) <= Cardinality(A \cup {x})
  BY <1>2, CardSubset
<1>4. QED BY <1>1, <1>2, <1>3

(* A set that loses an element counts at least one less.                     *)
LEMMA CardRemove ==
  ASSUME NEW A, NEW B, NEW x \in A, IsFiniteSet(A), B \subseteq A \ {x}
  PROVE  /\ Cardinality(A) \in Nat /\ Cardinality(B) \in Nat
         /\ Cardinality(B) <= Cardinality(A) - 1
<1>1. IsFiniteSet(A \ {x}) /\ Cardinality(A \ {x}) = Cardinality(A) - 1
  BY FS_RemoveElement
<1>2. Cardinality(A) \in Nat BY FS_CardinalityType
<1>3. Cardinality(B) \in Nat /\ Cardinality(B) <= Cardinality(A \ {x})
  BY <1>1, CardSubset
<1>4. QED BY <1>1, <1>2, <1>3

(* A set that exchanges one element for another counts no more.              *)
LEMMA CardSwap ==
  ASSUME NEW A, NEW B, NEW x \in A, NEW y, IsFiniteSet(A), B \subseteq (A \ {x}) \cup {y}
  PROVE  /\ Cardinality(A) \in Nat /\ Cardinality(B) \in Nat
         /\ Cardinality(B) <= Cardinality(A)
<1>1. IsFiniteSet(A \ {x}) /\ Cardinality(A \ {x}) = Cardinality(A) - 1
  BY FS_RemoveElement
<1>2. Cardinality(A) \in Nat BY FS_CardinalityType
<1>3. Cardinality(B) \in Nat /\ Cardinality(B) <= Cardinality(A \ {x}) + 1
  BY <1>1, CardAdd
<1>4. QED BY <1>1, <1>2, <1>3

-----------------------------------------------------------------------------

(* Three elements are finitely many.                                         *)
LEMMA FiniteTriple == ASSUME NEW a, NEW b, NEW c PROVE IsFiniteSet({a, b, c})
<1>1. IsFiniteSet({a}) BY FS_Singleton
<1>2. IsFiniteSet({a} \cup {b}) BY <1>1, FS_AddElement
<1>3. IsFiniteSet(({a} \cup {b}) \cup {c}) BY <1>2, FS_AddElement
<1>4. {a, b, c} = ({a} \cup {b}) \cup {c} OBVIOUS
<1>5. QED BY <1>3, <1>4

(* The worker threads, the content threads and Main are finitely many.       *)
LEMMA ThreadsFinite == IsFiniteSet(Threads)
<1>1. IsFiniteSet({Main}) BY FS_Singleton
<1>2. IsFiniteSet(Workers \cup Callers) BY FS_Union, ThreadsAssumption
<1>3. QED BY <1>1, <1>2, FS_Union DEF Threads

(* All the references there can be. *)
Tokens == {<<"ov", "accept">>, <<"ov", "recv">>, <<"ov", "send">>}
            \cup ({"handle", "lock", "issue"} \X Threads)

(* The references to a session are finitely many, before and after a step.   *)
LEMMA RefsFinite == \A s \in Slots : IsFiniteSet(Refs(s)) /\ IsFiniteSet(Refs(s)')
<1>1. IsFiniteSet({"handle", "lock", "issue"} \X Threads)
  BY FiniteTriple, ThreadsFinite, FS_Product
<1>2. IsFiniteSet(Tokens) BY <1>1, FiniteTriple, FS_Union DEF Tokens
<1>3. \A s \in Slots : Refs(s) \subseteq Tokens BY DEF Refs, Tokens, IoKinds
<1>4. \A s \in Slots : Refs(s)' \subseteq Tokens BY DEF Refs, Tokens, IoKinds
<1>5. QED BY <1>2, <1>3, <1>4, FS_Subset

-----------------------------------------------------------------------------
(* The invariant of one slot, and what a step must leave alone to keep it. *)

Counted(s) == ~released[s] => Cardinality(Refs(s)) <= ioCnt[s]

Registered(s) ==
  \A t \in Threads : at[t] = s =>
    /\ pc[t] \in {"reg_cnt", "reg_slot"} => ov[s]["accept"] # "idle"
    /\ pc[t] = "reg_slot" => ~released[s]

Quiet(s) == released[s] =>
  /\ \A t \in Threads : ~Handling(t, s) /\ ~Locking(t, s)
  /\ ov[s]["recv"] = "idle" /\ ov[s]["send"] = "idle"
  /\ ov[s]["accept"] # "idle" => Registering(s)

Owned(s) ==
  /\ \A t, u \in Threads : Recycling(t, s) /\ Recycling(u, s) => t = u
  /\ (\E t \in Threads : Recycling(t, s)) => s \notin freeIdx /\ released[s]
  /\ s \in freeIdx => released[s]
  /\ ov[s]["release"] # "idle" =>
       released[s] /\ s \notin freeIdx /\ \A t \in Threads : ~Recycling(t, s)

SlotInv(s) == Counted(s) /\ Registered(s) /\ Quiet(s) /\ Owned(s)

(* The invariant, slot by slot.                                              *)
LEMMA BySlot ==
  ASSUME TypeOK
  PROVE  IInv <=> PcInv /\ \A s \in Slots : SlotInv(s)
<1>1. at \in [Threads -> Slots] BY DEF TypeOK, CtxType
<1>2. RegistrationInv <=> \A s \in Slots : Registered(s)
  BY <1>1 DEF RegistrationInv, Registered
<1>3. QED BY <1>2 DEF IInv, RefsCounted, ReleasedQuiet, OneOwner, SlotInv, Counted, Quiet, Owned

(* The same after a step.                                                    *)
LEMMA BySlotPrime ==
  ASSUME TypeOK', PcInv', \A s \in Slots : SlotInv(s)'
  PROVE  IInv'
<1>1. (at \in [Threads -> Slots])' BY DEF TypeOK, CtxType
<1>2. RegistrationInv'
  BY <1>1 DEF RegistrationInv, Registered, SlotInv
<1>3. QED BY <1>2 DEF IInv, RefsCounted, ReleasedQuiet, OneOwner, SlotInv, Counted, Quiet, Owned

(* Thread t plays the same part at slot z before and after the step.           *)
SameRole(t, z) ==
  /\ Handling(t, z)' <=> Handling(t, z)
  /\ Locking(t, z)' <=> Locking(t, z)
  /\ Issuing(t, z)' <=> Issuing(t, z)
  /\ Recycling(t, z)' <=> Recycling(t, z)
  /\ (at[t] = z /\ pc[t] = "reg_cnt")' <=> (at[t] = z /\ pc[t] = "reg_cnt")
  /\ (at[t] = z /\ pc[t] = "reg_slot")' <=> (at[t] = z /\ pc[t] = "reg_slot")

SameOv(z) == \A k \in Kinds : (ov[z][k] = "idle")' <=> ov[z][k] = "idle"

SameSlot(z) ==
  /\ SameOv(z)
  /\ released'[z] = released[z] /\ (ioCnt'[z] = ioCnt[z] \/ released[z])
  /\ z \in freeIdx' => z \in freeIdx

(* Unchanged OVERLAPPEDs and roles leave the references unchanged.           *)
LEMMA SameRefs ==
  ASSUME NEW z, SameOv(z), \A t \in Threads : SameRole(t, z)
  PROVE  Refs(z)' = Refs(z)
<1>1. {k \in IoKinds : ov[z][k] # "idle"}' = {k \in IoKinds : ov[z][k] # "idle"}
  BY DEF SameOv, Kinds
<1>2. /\ {t \in Threads : Handling(t, z)}' = {t \in Threads : Handling(t, z)}
      /\ {t \in Threads : Locking(t, z)}' = {t \in Threads : Locking(t, z)}
      /\ {t \in Threads : Issuing(t, z)}' = {t \in Threads : Issuing(t, z)}
  BY DEF SameRole
<1>3. QED BY <1>1, <1>2 DEF Refs

(* A slot nobody changes keeps its invariant.                                *)
LEMMA SameView ==
  ASSUME NEW z \in Slots, SlotInv(z), SameSlot(z), \A t \in Threads : SameRole(t, z)
  PROVE  SlotInv(z)'
<1>1. Counted(z)' BY SameRefs DEF SlotInv, Counted, SameSlot
<1>2. Registered(z)' BY DEF SlotInv, Registered, SameSlot, SameOv, SameRole, Kinds, IoKinds
<1>3. Registering(z)' <=> Registering(z) BY DEF Registering, SameRole
<1>4. Quiet(z)' BY <1>3 DEF SlotInv, Quiet, SameSlot, SameOv, SameRole, Kinds, IoKinds
<1>5. Owned(z)' BY DEF SlotInv, Owned, SameSlot, SameOv, SameRole, Kinds
<1>6. QED BY <1>1, <1>2, <1>4, <1>5 DEF SlotInv

-----------------------------------------------------------------------------
(* Steps that leave every slot as it is. *)

(* Threads other than t do nothing. *)
OnlyMoves(t) == \A u \in Threads \ {t} : at'[u] = at[u] /\ pc'[u] = pc[u]

(* A thread that does not move keeps its role at every slot.                 *)
LEMMA OthersSameRole ==
  ASSUME NEW t, OnlyMoves(t), NEW u \in Threads \ {t}, NEW z
  PROVE  SameRole(u, z)
BY DEF OnlyMoves, SameRole, Handling, Locking, Issuing, Recycling

(* A step that changes no slot and no role keeps the invariant of all slots. *)
LEMMA Stay ==
  ASSUME \A s \in Slots : SlotInv(s), NEW t, OnlyMoves(t),
         \A z \in Slots : SameSlot(z) /\ SameRole(t, z)
  PROVE  \A s \in Slots : SlotInv(s)'
<1>1. ASSUME NEW z \in Slots PROVE \A u \in Threads : SameRole(u, z)
  BY OthersSameRole
<1>2. QED BY <1>1, SameView

(* CancelIoEx completes operations, it starts and ends none.                 *)
LEMMA CancelKeepsIdle ==
  ASSUME TypeOK, NEW s \in Slots, NEW ks, ov' = Cancelled(s, ks)
  PROVE  OvType' /\ \A z \in Slots : SameOv(z)
BY DEF TypeOK, OvType, Cancelled, SameOv, Status

(* So does a completion the kernel queues.                                   *)
LEMMA KernelKeepsIdle ==
  ASSUME TypeOK, NEW s \in Slots, NEW k \in Kinds, NEW status \in Status \ {"idle"},
         ov[s][k] # "idle", SetOv(s, k, status)
  PROVE  OvType' /\ \A z \in Slots : SameOv(z)
BY DEF TypeOK, OvType, SetOv, SameOv, Status

-----------------------------------------------------------------------------
(* Type correctness, one group of variables at a time. *)

(* A group of variables a step leaves alone keeps its type.                  *)
LEMMA FrameType ==
  ASSUME TypeOK
  PROVE  /\ UNCHANGED cntVars => CntType'
         /\ UNCHANGED ov => OvType'
         /\ UNCHANGED mLive => LiveType'
         /\ UNCHANGED sessVars => SessType'
         /\ UNCHANGED sendVars => SendType'
         /\ UNCHANGED poolVars => PoolType'
         /\ UNCHANGED srvVars => SrvType'
         /\ UNCHANGED ctxVars => CtxType'
         /\ UNCHANGED calls => (calls \in Nat)'
BY DEF TypeOK, CntType, OvType, LiveType, SessType, SendType, PoolType, SrvType, CtxType,
       cntVars, sessVars, sendVars, poolVars, srvVars, ctxVars

(* mIOcnt keeps its type when it is incremented, or decremented above 0.     *)
LEMMA CntUpdate ==
  ASSUME TypeOK, NEW s \in Slots, UNCHANGED released
  PROVE  /\ IncIo(s) => CntType'
         /\ DecIo(s) /\ ioCnt[s] - 1 \in Nat => CntType'
<1>1. \A n \in Nat : n + 1 \in Nat OBVIOUS
<1>2. QED BY <1>1 DEF TypeOK, CntType, IncIo, DecIo

(* One OVERLAPPED that changes status keeps the type of ov.                  *)
LEMMA OvUpdate ==
  ASSUME TypeOK, NEW s \in Slots, NEW k \in Kinds, NEW status \in Status, SetOv(s, k, status)
  PROVE  OvType'
BY DEF TypeOK, OvType, SetOv

(* CancelIoEx keeps the type of ov.                                          *)
LEMMA CancelType ==
  ASSUME TypeOK, NEW s \in Slots, NEW ks, ov' = Cancelled(s, ks)
  PROVE  OvType'
BY CancelKeepsIdle


(* The steps of the kernel and the clients keep the invariant.               *)
LEMMA KernelStep ==
  ASSUME TypeOK, PcInv, \A s \in Slots : SlotInv(s), NEW s \in Slots, Kernel(s)
  PROVE  TypeOK' /\ PcInv' /\ \A z \in Slots : SlotInv(z)'
<1>1. OvType' /\ \A z \in Slots : SameOv(z)
  <2>1. CASE KernelAccept(s)
    BY <2>1, KernelKeepsIdle DEF KernelAccept, Kinds, IoKinds, Status
  <2>2. CASE KernelRecv(s)
    BY <2>2, KernelKeepsIdle DEF KernelRecv, Kinds, IoKinds, Status
  <2>3. CASE KernelSend(s)
    BY <2>3, KernelKeepsIdle DEF KernelSend, Kinds, IoKinds, Status
  <2>4. QED BY <2>1, <2>2, <2>3 DEF Kernel
<1>2. UNCHANGED <<cntVars, mLive, sessVars, sendVars, poolVars, srvVars, ctxVars, pc, calls>>
  BY DEF Kernel, KernelAccept, KernelRecv, KernelSend
<1>3. TypeOK' /\ PcInv' BY <1>1, <1>2, FrameType DEF TypeOK, PcType, PcInv
<1>4. \A z \in Slots : SameSlot(z) /\ SameRole(Main, z)
  BY <1>1, <1>2 DEF SameSlot, SameRole, cntVars, poolVars, ctxVars, Handling, Locking, Issuing, Recycling
<1>5. OnlyMoves(Main) BY <1>2 DEF OnlyMoves, ctxVars
<1>6. QED BY <1>3, <1>4, <1>5, Stay

(* Who holds a reference finds the count above 0 and the slot not released.    *)
LEMMA Held ==
  ASSUME TypeOK, NEW s \in Slots, SlotInv(s), NEW t \in Threads,
         Handling(t, s) \/ Locking(t, s)
  PROVE  ~released[s] /\ ioCnt[s] >= 1
<1>1. ~released[s] BY DEF SlotInv, Quiet
<1>2. \E r : r \in Refs(s) BY DEF Refs
<1>3. Cardinality(Refs(s)) \in Nat /\ Cardinality(Refs(s)) >= 1
  BY <1>2, RefsFinite, FS_EmptySet, FS_CardinalityType
<1>4. ioCnt[s] \in Nat BY DEF TypeOK, CntType
<1>5. QED BY <1>1, <1>3, <1>4 DEF SlotInv, Counted

(* Which labels a thread may go to.                                            *)
AnyPCs    == LockPCs \cup {"idle", "lock", "unlock_cas"}
WorkerPCs == HandlePCs \cup ReleasePCs \cup RegPCs \cup {"dec_cas", "reg_pop", "exit"}

Moves(t) ==
  \E l : /\ Goto(t, l)
         /\ l \in AnyPCs \/ (t \in Workers /\ l \in WorkerPCs) \/ (t = Main /\ l \in StopPCs)

(* A thread that goes to a label it may go to keeps PcType and PcInv.        *)
LEMMA MovesType ==
  ASSUME TypeOK, PcInv, NEW t \in Threads, Moves(t)
  PROVE  pc' \in [Threads -> PCs] /\ PcInv' /\ \A u \in Threads \ {t} : pc'[u] = pc[u]
<1>1. PICK l : /\ pc' = [pc EXCEPT ![t] = l]
               /\ l \in AnyPCs \/ (t \in Workers /\ l \in WorkerPCs) \/ (t = Main /\ l \in StopPCs)
  BY DEF Moves, Goto
<1>2. l \in PCs BY <1>1 DEF AnyPCs, WorkerPCs, PCs
<1>3. pc \in [Threads -> PCs] BY DEF TypeOK, PcType
<1>4. /\ l \in WorkerPCs => t \in Workers
      /\ l \in StopPCs => t = Main
  BY <1>1 DEF AnyPCs, WorkerPCs, LockPCs, HandlePCs, ReleasePCs, RegPCs, StopPCs
<1>5. PcInv' BY <1>1, <1>3, <1>4 DEF PcInv, WorkerPCs
<1>6. QED BY <1>1, <1>2, <1>3, <1>5

(* The caller of sessionLock or sessionUnLock may go back.                   *)
LEMMA BackMoves ==
  ASSUME NEW t \in Threads, Goto(t, Back(t))
  PROVE  Moves(t)
BY DEF Moves, Back, AnyPCs, WorkerPCs, HandlePCs, StopPCs

(* Every worker step goes to a label a worker may go to.                     *)
LEMMA WorkerMoves ==
  ASSUME NEW w \in Workers, WorkerStep(w)
  PROVE  Moves(w)
<1> USE DEF Moves, AnyPCs, WorkerPCs, LockPCs, HandlePCs, ReleasePCs, RegPCs
<1>1. CASE Dec(w) BY <1>1 DEF Dec
<1>2. CASE DecCas(w) BY <1>2 DEF DecCas, TryRelease
<1>3. CASE AcceptCheck(w) BY <1>3 DEF AcceptCheck
<1>4. CASE AcceptOpen(w) BY <1>4 DEF AcceptOpen
<1>5. CASE RegisterRecv(w) BY <1>5 DEF RegisterRecv, CallDisconnect
<1>6. CASE WsaRecv(w) BY <1>6 DEF WsaRecv, WsaCall
<1>7. CASE Recheck(w) BY <1>7 DEF Recheck
<1>8. CASE CompleteRecv(w) BY <1>8 DEF CompleteRecv, CallDisconnect
<1>9. CASE Fin(w) BY <1>9 DEF Fin
<1>10. CASE FinCancel(w) BY <1>10 DEF FinCancel
<1>11. CASE CompleteSend(w) BY <1>11 DEF CompleteSend
<1>12. CASE RegisterSend(w) BY <1>12 DEF RegisterSend
<1>13. CASE SendFlagClear(w) BY <1>13 DEF SendFlagClear
<1>14. CASE SendSizeAgain(w) BY <1>14 DEF SendSizeAgain
<1>15. CASE SendFlagAgain(w) BY <1>15 DEF SendFlagAgain, KickSend
<1>16. CASE SendLive(w) BY <1>16 DEF SendLive
<1>17. CASE WsaSend(w) BY <1>17 DEF WsaSend, WsaCall
<1>18. CASE ReleaseNotify(w) BY <1>18 DEF ReleaseNotify
<1>19. CASE ReleaseReset(w) BY <1>19 DEF ReleaseReset
<1>20. CASE RegisterPop(w) BY <1>20 DEF RegisterPop
<1>21. CASE RegisterId(w) BY <1>21 DEF RegisterId
<1>22. CASE RegisterAccept(w) BY <1>22 DEF RegisterAccept
<1>23. CASE RegisterCount(w) BY <1>23 DEF RegisterCount
<1>24. CASE RegisterSlot(w) BY <1>24 DEF RegisterSlot
<1>25. QED
  BY <1>1, <1>2, <1>3, <1>4, <1>5, <1>6, <1>7, <1>8, <1>9, <1>10, <1>11, <1>12, <1>13, <1>14,
     <1>15, <1>16, <1>17, <1>18, <1>19, <1>20, <1>21, <1>22, <1>23, <1>24
  DEF WorkerStep

(* Every step of sessionLock .. sessionUnLock goes to a label any thread may go to. *)
LEMMA LockMoves ==
  ASSUME NEW t \in Threads, LockStep(t)
  PROVE  Moves(t)
<1> USE DEF Moves, AnyPCs, LockPCs
<1>1. CASE Lock(t) BY <1>1, BackMoves DEF Lock
<1>2. CASE LockId(t) BY <1>2 DEF LockId
<1>3. CASE BadId(t) BY <1>3 DEF BadId
<1>4. CASE EnQueueMsg(t) BY <1>4 DEF EnQueueMsg
<1>5. CASE PostSend(t) BY <1>5 DEF PostSend, KickSend
<1>6. CASE DisconnectLive(t) BY <1>6 DEF DisconnectLive
<1>7. CASE DisconnectCancel(t) BY <1>7 DEF DisconnectCancel
<1>8. CASE Unlock(t) BY <1>8, BackMoves DEF Unlock
<1>9. CASE UnlockCas(t) BY <1>9, BackMoves DEF UnlockCas, TryRelease
<1>10. QED BY <1>1, <1>2, <1>3, <1>4, <1>5, <1>6, <1>7, <1>8, <1>9 DEF LockStep

(* The compare-exchange that sets RELEASE_IOCOUNT keeps the types.           *)
LEMMA TryReleaseType ==
  ASSUME TypeOK, NEW t \in Threads, NEW from, NEW label, TryRelease(t, from, label)
  PROVE  CntType' /\ OvType'
<1>1. at[t] \in Slots BY DEF TypeOK, CtxType
<1>2. CASE ioCnt[at[t]] = 0 /\ ~released[at[t]]
  <2>1. OvType' BY <1>1, <1>2, OvUpdate DEF TryRelease, Kinds, Status
  <2>2. CntType' BY <1>1, <1>2 DEF TryRelease, TypeOK, CntType
  <2>3. QED BY <2>1, <2>2
<1>3. CASE ~(ioCnt[at[t]] = 0 /\ ~released[at[t]])
  BY <1>3 DEF TryRelease, TypeOK, CntType, OvType
<1>4. QED BY <1>2, <1>3

(* The compare-exchange on mSendFlag keeps the types.                        *)
LEMMA KickSendType ==
  ASSUME TypeOK, NEW t \in Threads, NEW from, NEW label, KickSend(t, from, label)
  PROVE  CntType' /\ OvType' /\ SendType'
<1>1. at[t] \in Slots BY DEF TypeOK, CtxType
<1>2. SendType' BY <1>1 DEF KickSend, TypeOK, SendType
<1>3. CASE mSendFlag[at[t]] BY <1>2, <1>3 DEF KickSend, TypeOK, CntType, OvType
<1>4. CASE ~mSendFlag[at[t]]
  <2>1. IncIo(at[t]) /\ SetOv(at[t], "send", "queued") /\ UNCHANGED released
    BY <1>4 DEF KickSend
  <2>2. QED BY <2>1, <1>1, <1>2, CntUpdate, OvUpdate DEF Kinds, IoKinds, Status
<1>5. QED BY <1>3, <1>4

(* WSARecv and WSASend keep the types.                                       *)
LEMMA WsaCallType ==
  ASSUME TypeOK, NEW w \in Threads, NEW from, NEW k \in {"recv", "send"}, WsaCall(w, from, k),
         ioCnt[at[w]] - 1 \in Nat
  PROVE  CntType' /\ OvType' /\ LiveType'
<1>1. at[w] \in Slots /\ k \in Kinds BY DEF TypeOK, CtxType, Kinds, IoKinds
<1>2. UNCHANGED released BY DEF WsaCall
<1>3. LiveType' BY <1>1 DEF WsaCall, TypeOK, LiveType
<1>4. CntType'
  <2>1. UNCHANGED ioCnt \/ DecIo(at[w]) BY DEF WsaCall
  <2>2. QED BY <2>1, <1>1, <1>2, CntUpdate, FrameType DEF cntVars
<1>5. OvType'
  <2>1. \/ UNCHANGED ov
        \/ \E r \in {"pending", "queued", "eof"} : SetOv(at[w], k, r)
        \/ ov' = Cancelled(at[w], {"recv", "send"})
    BY DEF WsaCall
  <2>2. QED BY <2>1, <1>1, OvUpdate, CancelType, FrameType DEF Status
<1>6. QED BY <1>3, <1>4, <1>5

(* What registerSend takes from the queue and what stays are messages.       *)
LEMMA RegisterSendType ==
  ASSUME TypeOK, NEW w \in Threads, RegisterSend(w)
  PROVE  SendType'
<1>1. at[w] \in Slots BY DEF TypeOK, CtxType
<1>2. mSendQ[at[w]] \in Seq(Ids) BY <1>1 DEF TypeOK, SendType
<1>3. Len(mSendQ[at[w]]) \in Nat BY <1>2
<1> DEFINE n == IF Len(mSendQ[at[w]]) < SEND_MESSAGE_MAXCOUNT THEN Len(mSendQ[at[w]])
                ELSE SEND_MESSAGE_MAXCOUNT
<1>4. n \in Nat /\ n <= Len(mSendQ[at[w]]) BY <1>3, ConstantsAssumption
<1>5. /\ SubSeq(mSendQ[at[w]], 1, n) \in Seq(Ids)
      /\ SubSeq(mSendQ[at[w]], n + 1, Len(mSendQ[at[w]])) \in Seq(Ids)
  BY <1>2, <1>4
<1> HIDE DEF n
<1>6. /\ UNCHANGED mSendFlag
      /\ \/ UNCHANGED <<mSendQ, mSendMsgs>>
         \/ /\ mSendMsgs' = [mSendMsgs EXCEPT ![at[w]] = SubSeq(mSendQ[at[w]], 1, n)]
            /\ mSendQ' = [mSendQ EXCEPT ![at[w]] =
                            SubSeq(mSendQ[at[w]], n + 1, Len(mSendQ[at[w]]))]
  BY DEF RegisterSend, n, sessVars, cntVars
<1>7. QED BY <1>1, <1>5, <1>6 DEF TypeOK, SendType

(* Every step keeps the types and PcInv.                                     *)
LEMMA TypeStep ==
  ASSUME TypeOK, PcInv, \A s \in Slots : SlotInv(s), Next
  PROVE  TypeOK' /\ PcInv'
<1>1. Workers \subseteq Threads /\ Callers \subseteq Threads /\ Main \in Threads
  BY DEF Threads
<1>2. \A t \in Threads : at[t] \in Slots /\ arg[t] \in Ids BY DEF TypeOK, CtxType
<1>3. ASSUME NEW t \in Threads, Handling(t, at[t]) \/ Locking(t, at[t])
      PROVE  ioCnt[at[t]] - 1 \in Nat
  <2>1. ioCnt[at[t]] \in Nat BY <1>2 DEF TypeOK, CntType
  <2>2. QED BY <2>1, <1>2, <1>3, Held
<1>4. ASSUME NEW s \in Slots, Kernel(s) PROVE TypeOK' /\ PcInv' BY <1>4, KernelStep
<1>5. ASSUME NEW w \in Workers, NEW s \in Slots, NEW k \in Kinds, Dequeue(w, s, k)
      PROVE  TypeOK' /\ PcInv'
  <2>1. Moves(w)
    BY <1>5 DEF Moves, Dequeue, WorkerPCs, HandlePCs, ReleasePCs, Kinds, IoKinds
  <2>2. PcType' /\ PcInv' BY <2>1, <1>1, MovesType DEF PcType
  <2>3. OvType' BY <1>5, OvUpdate DEF Dequeue, Status
  <2>4. CtxType' BY <1>5, <1>1 DEF Dequeue, TypeOK, CtxType
  <2>5. QED BY <1>5, <2>2, <2>3, <2>4, FrameType DEF Dequeue, TypeOK
<1>6. ASSUME NEW w \in Workers, WorkerStep(w) PROVE TypeOK' /\ PcInv'
  <2>1. w \in Threads /\ at[w] \in Slots BY <1>1, <1>2
  <2>2. PcType' /\ PcInv' BY <1>6, <2>1, WorkerMoves, MovesType DEF PcType
  <2>3. CASE Dec(w)
    <3>1. CntType' BY <2>3, <2>1, <1>3, CntUpdate DEF Dec, Handling, HandlePCs
    <3>2. QED BY <2>3, <2>2, <3>1, FrameType DEF Dec, TypeOK
  <2>4. CASE DecCas(w)
    <3>1. CntType' /\ OvType' BY <2>4, <2>1, TryReleaseType DEF DecCas
    <3>2. QED BY <2>4, <2>2, <3>1, FrameType DEF DecCas, TryRelease, TypeOK
  <2>5. CASE AcceptCheck(w) BY <2>5, <2>1, <2>2, FrameType DEF AcceptCheck, TypeOK
  <2>6. CASE AcceptOpen(w)
    BY <2>6, <2>1, <2>2, FrameType DEF AcceptOpen, LiveType, SessType, sessVars, TypeOK
  <2>7. CASE RegisterRecv(w)
    <3>1. CntType' BY <2>7, <2>1, CntUpdate, FrameType DEF RegisterRecv, CallDisconnect, cntVars
    <3>2. CtxType' BY <2>7, <2>1 DEF RegisterRecv, CallDisconnect, TypeOK, CtxType, ctxVars, Ids
    <3>3. QED BY <2>7, <2>2, <3>1, <3>2, FrameType DEF RegisterRecv, CallDisconnect, TypeOK
  <2>8. CASE WsaRecv(w)
    <3>1. CntType' /\ OvType' /\ LiveType'
      BY <2>8, <2>1, <1>3, WsaCallType DEF WsaRecv, WsaCall, Handling, HandlePCs
    <3>2. QED BY <2>8, <2>2, <3>1, FrameType DEF WsaRecv, WsaCall, TypeOK
  <2>9. CASE Recheck(w)
    <3>1. OvType' BY <2>9, <2>1, CancelType, FrameType DEF Recheck
    <3>2. QED BY <2>9, <2>2, <3>1, FrameType DEF Recheck, TypeOK
  <2>10. CASE CompleteRecv(w)
    BY <2>10, <2>1, <2>2, FrameType DEF CompleteRecv, CallDisconnect, CtxType, ctxVars, Ids, TypeOK
  <2>11. CASE Fin(w) BY <2>11, <2>1, <2>2, FrameType DEF Fin, LiveType, TypeOK
  <2>12. CASE FinCancel(w)
    <3>1. OvType' BY <2>12, <2>1, CancelType DEF FinCancel
    <3>2. QED BY <2>12, <2>2, <3>1, FrameType DEF FinCancel, TypeOK
  <2>13. CASE CompleteSend(w)
    BY <2>13, <2>1, <2>2, FrameType DEF CompleteSend, SendType, sendVars, TypeOK
  <2>14. CASE RegisterSend(w)
    <3>1. SendType' BY <2>14, <2>1, RegisterSendType
    <3>2. QED BY <2>14, <2>2, <3>1, FrameType DEF RegisterSend, TypeOK
  <2>15. CASE SendFlagClear(w)
    BY <2>15, <2>1, <2>2, FrameType DEF SendFlagClear, SendType, sendVars, TypeOK
  <2>16. CASE SendSizeAgain(w) BY <2>16, <2>1, <2>2, FrameType DEF SendSizeAgain, TypeOK
  <2>17. CASE SendFlagAgain(w)
    <3>1. CntType' /\ OvType' /\ SendType' BY <2>17, <2>1, KickSendType DEF SendFlagAgain
    <3>2. QED BY <2>17, <2>2, <3>1, FrameType DEF SendFlagAgain, KickSend, TypeOK
  <2>18. CASE SendLive(w)
    <3>1. CntType' BY <2>18, <2>1, CntUpdate, FrameType DEF SendLive, cntVars
    <3>2. QED BY <2>18, <2>2, <3>1, FrameType DEF SendLive, TypeOK
  <2>19. CASE WsaSend(w)
    <3>1. CntType' /\ OvType' /\ LiveType'
      BY <2>19, <2>1, <1>3, WsaCallType DEF WsaSend, WsaCall, Handling, HandlePCs
    <3>2. QED BY <2>19, <2>2, <3>1, FrameType DEF WsaSend, WsaCall, TypeOK
  <2>20. CASE ReleaseNotify(w)
    BY <2>20, <2>1, <2>2, FrameType DEF ReleaseNotify, SessType, PoolType, sessVars, poolVars, TypeOK
  <2>21. CASE ReleaseReset(w)
    <3>1. SendType' BY <2>21, <2>1 DEF ReleaseReset, TypeOK, SendType
    <3>2. SessType' BY <2>21, <2>1 DEF ReleaseReset, TypeOK, SessType
    <3>3. PoolType' BY <2>21, <2>1 DEF ReleaseReset, TypeOK, PoolType
    <3>4. QED BY <2>21, <2>2, <3>1, <3>2, <3>3, FrameType DEF ReleaseReset, TypeOK
  <2>22. CASE RegisterPop(w)
    BY <2>22, <2>1, <2>2, FrameType DEF RegisterPop, PoolType, CtxType, poolVars, ctxVars, TypeOK
  <2>23. CASE RegisterId(w)
    BY <2>23, <2>1, <2>2, FrameType DEF RegisterId, PoolType, SessType, poolVars, sessVars, TypeOK
  <2>24. CASE RegisterAccept(w)
    <3>1. OvType' BY <2>24, <2>1, OvUpdate, FrameType DEF RegisterAccept, Kinds, IoKinds, Status
    <3>2. PoolType' BY <2>24, <2>1 DEF RegisterAccept, TypeOK, PoolType
    <3>3. QED BY <2>24, <2>2, <3>1, <3>2, FrameType DEF RegisterAccept, TypeOK
  <2>25. CASE RegisterCount(w)
    BY <2>25, <2>1, <2>2, FrameType DEF RegisterCount, CntType, cntVars, TypeOK
  <2>26. CASE RegisterSlot(w)
    BY <2>26, <2>1, <2>2, FrameType DEF RegisterSlot, PoolType, poolVars, TypeOK
  <2>27. QED
    BY <1>6, <2>3, <2>4, <2>5, <2>6, <2>7, <2>8, <2>9, <2>10, <2>11, <2>12, <2>13, <2>14,
       <2>15, <2>16, <2>17, <2>18, <2>19, <2>20, <2>21, <2>22, <2>23, <2>24, <2>25, <2>26
    DEF WorkerStep
<1>7. ASSUME NEW w \in Workers, WorkerExit(w) PROVE TypeOK' /\ PcInv'
  <2>1. Moves(w) BY <1>7 DEF WorkerExit, Moves, WorkerPCs
  <2>2. PcType' /\ PcInv' BY <2>1, <1>1, MovesType DEF PcType
  <2>3. QED BY <1>7, <2>2, FrameType DEF WorkerExit, TypeOK
<1>8. ASSUME NEW t \in Threads, LockStep(t) PROVE TypeOK' /\ PcInv'
  <2>1. at[t] \in Slots BY <1>2
  <2>2. PcType' /\ PcInv' BY <1>8, LockMoves, MovesType DEF PcType
  <2>3. CASE Lock(t)
    <3>1. CntType' BY <2>3, <2>1, CntUpdate DEF Lock
    <3>2. QED BY <2>3, <2>2, <3>1, FrameType DEF Lock, TypeOK
  <2>4. CASE LockId(t) BY <2>4, <2>2, FrameType DEF LockId, TypeOK
  <2>5. CASE BadId(t)
    <3>1. CntType' BY <2>5, <2>1, <1>3, CntUpdate DEF BadId, Locking, LockPCs
    <3>2. QED BY <2>5, <2>2, <3>1, FrameType DEF BadId, TypeOK
  <2>6. CASE EnQueueMsg(t)
    <3>1. \A s \in Slots : Append(mSendQ[s], arg[t]) \in Seq(Ids)
      BY <1>2 DEF TypeOK, SendType
    <3>2. SendType' BY <2>6, <2>1, <3>1 DEF EnQueueMsg, TypeOK, SendType
    <3>3. QED BY <2>6, <2>2, <3>2, FrameType DEF EnQueueMsg, TypeOK
  <2>7. CASE PostSend(t)
    <3>1. CntType' /\ OvType' /\ SendType' BY <2>7, KickSendType DEF PostSend
    <3>2. QED BY <2>7, <2>2, <3>1, FrameType DEF PostSend, KickSend, TypeOK
  <2>8. CASE DisconnectLive(t)
    BY <2>8, <2>1, <2>2, FrameType DEF DisconnectLive, LiveType, TypeOK
  <2>9. CASE DisconnectCancel(t)
    <3>1. OvType' BY <2>9, <2>1, CancelType DEF DisconnectCancel
    <3>2. QED BY <2>9, <2>2, <3>1, FrameType DEF DisconnectCancel, TypeOK
  <2>10. CASE Unlock(t)
    <3>1. CntType' BY <2>10, <2>1, <1>3, CntUpdate DEF Unlock, Locking, LockPCs
    <3>2. QED BY <2>10, <2>2, <3>1, FrameType DEF Unlock, TypeOK
  <2>11. CASE UnlockCas(t)
    <3>1. CntType' /\ OvType' BY <2>11, TryReleaseType DEF UnlockCas
    <3>2. QED BY <2>11, <2>2, <3>1, FrameType DEF UnlockCas, TryRelease, TypeOK
  <2>12. QED
    BY <1>8, <2>3, <2>4, <2>5, <2>6, <2>7, <2>8, <2>9, <2>10, <2>11 DEF LockStep
<1>9. ASSUME NEW c \in Callers, StartCall(c) PROVE TypeOK' /\ PcInv'
  <2>1. Moves(c) BY <1>9 DEF StartCall, Moves, AnyPCs
  <2>2. PcType' /\ PcInv' BY <2>1, <1>1, MovesType DEF PcType
  <2>3. \A id \in opened : id[1] \in Slots /\ id[2] \in Nat BY DEF TypeOK, SessType
  <2>4. CtxType' BY <1>9, <1>1, <2>3 DEF StartCall, TypeOK, CtxType, Ids
  <2>5. (calls \in Nat)' BY <1>9 DEF StartCall, TypeOK
  <2>6. QED BY <1>9, <2>2, <2>4, <2>5, FrameType DEF StartCall, TypeOK
<1>10. ASSUME StopOff \/ StopStep PROVE TypeOK' /\ PcInv'
  <2>1. Moves(Main)
    BY <1>10 DEF StopOff, StopStep, StopListen, StopNext, StopSpin, StopJoin, Moves, AnyPCs, StopPCs
  <2>2. PcType' /\ PcInv' BY <2>1, <1>1, MovesType DEF PcType
  <2>3. CASE StopNext
    <3>1. CtxType'
      BY <2>3, <1>1 DEF StopNext, TypeOK, CtxType, SrvType, ctxVars, Ids
    <3>2. SrvType' BY <2>3 DEF StopNext, TypeOK, SrvType
    <3>3. QED BY <2>3, <2>2, <3>1, <3>2, FrameType DEF StopNext, TypeOK
  <2>4. CASE StopOff \/ StopListen \/ StopSpin \/ StopJoin
    <3>1. SrvType' BY <2>4 DEF StopOff, StopListen, StopSpin, StopJoin, TypeOK, SrvType, srvVars
    <3>2. QED
      BY <2>4, <2>2, <3>1, FrameType DEF StopOff, StopListen, StopSpin, StopJoin, TypeOK
  <2>5. QED BY <1>10, <2>3, <2>4 DEF StopStep
<1>11. QED BY <1>4, <1>5, <1>6, <1>7, <1>8, <1>9, <1>10 DEF Next

-----------------------------------------------------------------------------
(* The slots a step does not concern, and the steps that concern no slot. *)

NoRole(t, z) ==
  /\ ~Handling(t, z) /\ ~Locking(t, z) /\ ~Issuing(t, z) /\ ~Recycling(t, z)
  /\ at[t] = z => pc[t] \notin {"reg_cnt", "reg_slot"}

(* A slot the moving thread plays no part at keeps its invariant.            *)
LEMMA Elsewhere ==
  ASSUME NEW z \in Slots, SlotInv(z), NEW t, OnlyMoves(t), SameSlot(z), NoRole(t, z), NoRole(t, z)'
  PROVE  SlotInv(z)'
<1>1. SameRole(t, z) BY DEF NoRole, SameRole
<1>2. \A u \in Threads : SameRole(u, z) BY <1>1, OthersSameRole
<1>3. QED BY <1>2, SameView

(* For thread t the labels a and b stand for the same part of the protocol.    *)
SamePart(t, a, b) ==
  /\ a \in LockPCs <=> b \in LockPCs
  /\ t \in Workers => (a \in HandlePCs \cup LockPCs \cup {"lock", "unlock_cas"}
                         <=> b \in HandlePCs \cup LockPCs \cup {"lock", "unlock_cas"})
  /\ a \in {"wsa_recv", "wsa_send"} <=> b \in {"wsa_recv", "wsa_send"}
  /\ a \in ReleasePCs \cup RegPCs <=> b \in ReleasePCs \cup RegPCs
  /\ a = "reg_cnt" <=> b = "reg_cnt"
  /\ a = "reg_slot" <=> b = "reg_slot"

(* A thread that moves within its part changes no slot.                      *)
LEMMA LocalMove ==
  ASSUME TypeOK, \A s \in Slots : SlotInv(s), NEW t \in Threads, UNCHANGED at,
         NEW l, Goto(t, l), SamePart(t, pc[t], l), \A z \in Slots : SameSlot(z)
  PROVE  \A s \in Slots : SlotInv(s)'
<1>1. pc'[t] = l /\ OnlyMoves(t) BY DEF TypeOK, PcType, Goto, OnlyMoves
<1>2. \A z \in Slots : SameRole(t, z)
  BY <1>1 DEF SamePart, SameRole, Handling, Locking, Issuing, Recycling
<1>3. QED BY <1>1, <1>2, Stay

(* Goto moves the thread it names and no other.                              *)
LEMMA GotoMoves ==
  ASSUME TypeOK, NEW t \in Threads, NEW l, Goto(t, l)
  PROVE  pc'[t] = l /\ (UNCHANGED at => OnlyMoves(t))
BY DEF TypeOK, PcType, Goto, OnlyMoves

(* A step of thread t, which stays at slot s, leaves the other slots alone.    *)
LEMMA OtherSlots ==
  ASSUME TypeOK, \A s \in Slots : SlotInv(s), NEW t \in Threads, OnlyMoves(t),
         NEW s \in Slots, at'[t] = s, at[t] = s \/ \A z \in Slots : NoRole(t, z),
         \A z \in Slots \ {s} : SameSlot(z)
  PROVE  \A z \in Slots \ {s} : SlotInv(z)'
<1>1. ASSUME NEW z \in Slots \ {s} PROVE NoRole(t, z) /\ NoRole(t, z)'
  BY DEF NoRole, Handling, Locking, Issuing, Recycling
<1>2. QED BY <1>1, Elsewhere

-----------------------------------------------------------------------------
(* The slot a step concerns. *)

(* A slot that is not released, and is not by this step, keeps its owner.      *)
LEMMA Unreleased ==
  ASSUME TypeOK, NEW s \in Slots, SlotInv(s), NEW t \in Threads, OnlyMoves(t),
         ~released[s], ~released'[s], s \in freeIdx' => s \in freeIdx,
         (ov[s]["release"] = "idle")' <=> ov[s]["release"] = "idle",
         (ov[s]["accept"] = "idle")' => ov[s]["accept"] = "idle" \/ ~Registering(s),
         ~Recycling(t, s)', pc'[t] \notin {"reg_cnt", "reg_slot"}
  PROVE  Registered(s)' /\ Quiet(s)' /\ Owned(s)'
<1>1. Registered(s)' BY DEF SlotInv, Registered, Registering, OnlyMoves
<1>2. Quiet(s)' BY DEF Quiet
<1>3. Owned(s)' BY DEF SlotInv, Owned, OnlyMoves, Recycling
<1>4. QED BY <1>1, <1>2, <1>3

(* The references at slot s after a step of thread t.                          *)
LEMMA RefsAfter ==
  ASSUME NEW s, NEW t, OnlyMoves(t), NEW r \in Refs(s)'
  PROVE  \/ r \in Refs(s) /\ r \notin {<<"handle", t>>, <<"lock", t>>, <<"issue", t>>}
               /\ \A k \in IoKinds : r # <<"ov", k>>
         \/ \E k \in IoKinds : r = <<"ov", k>> /\ (ov[s][k] # "idle")'
         \/ r = <<"handle", t>> /\ Handling(t, s)'
         \/ r = <<"lock", t>> /\ Locking(t, s)'
         \/ r = <<"issue", t>> /\ Issuing(t, s)'
BY DEF Refs, OnlyMoves, Handling, Locking, Issuing, IoKinds

(* What each reference stands for.                                           *)
LEMMA RefsBefore ==
  ASSUME NEW s
  PROVE  /\ \A k \in IoKinds : <<"ov", k>> \in Refs(s) <=> ov[s][k] # "idle"
         /\ \A t \in Threads : /\ <<"handle", t>> \in Refs(s) <=> Handling(t, s)
                               /\ <<"lock", t>> \in Refs(s) <=> Locking(t, s)
                               /\ <<"issue", t>> \in Refs(s) <=> Issuing(t, s)
BY DEF Refs

(* Of the references at slot s but those in X, only those of thread t are new. *)
OnlyRefsOf(s, t, X) ==
  \A r \in Refs(s)' \ X :
    \/ r \in Refs(s) /\ r \notin {<<"handle", t>>, <<"lock", t>>, <<"issue", t>>}
    \/ r = <<"handle", t>> /\ Handling(t, s)'
    \/ r = <<"lock", t>> /\ Locking(t, s)'
    \/ r = <<"issue", t>> /\ Issuing(t, s)'

(* The references after a step that starts no operation outside X.           *)
LEMMA RefsAfterOv ==
  ASSUME NEW s, NEW t \in Threads, OnlyMoves(t), NEW X,
         \A k \in IoKinds : <<"ov", k>> \in X \/ ((ov[s][k] # "idle")' => ov[s][k] # "idle")
  PROVE  OnlyRefsOf(s, t, X)
<1> SUFFICES ASSUME NEW r \in Refs(s)' \ X
             PROVE  \/ r \in Refs(s) /\ r \notin {<<"handle", t>>, <<"lock", t>>, <<"issue", t>>}
                    \/ r = <<"handle", t>> /\ Handling(t, s)'
                    \/ r = <<"lock", t>> /\ Locking(t, s)'
                    \/ r = <<"issue", t>> /\ Issuing(t, s)'
  BY DEF OnlyRefsOf
<1>1. CASE \E k \in IoKinds : r = <<"ov", k>> /\ (ov[s][k] # "idle")'
  <2>1. PICK k \in IoKinds : r = <<"ov", k>> /\ (ov[s][k] # "idle")' BY <1>1
  <2>2. ov[s][k] # "idle" BY <2>1
  <2>3. r \in Refs(s) BY <2>1, <2>2, RefsBefore
  <2>4. QED BY <2>1, <2>3
<1>2. QED BY <1>1, RefsAfter

(* A step that only adds or gives back a reference at its slot.                *)
LEMMA RefAdded ==
  ASSUME NEW s \in Slots, SlotInv(s), ~released[s], ioCnt[s] \in Nat, ioCnt'[s] = ioCnt[s] + 1,
         NEW r, Refs(s)' \subseteq Refs(s) \cup {r}
  PROVE  Counted(s)'
<1>1. Cardinality(Refs(s)) <= ioCnt[s] BY DEF SlotInv, Counted
<1>2. IsFiniteSet(Refs(s)) BY RefsFinite
<1>3. /\ Cardinality(Refs(s)) \in Nat /\ Cardinality(Refs(s)') \in Nat
      /\ Cardinality(Refs(s)') <= Cardinality(Refs(s)) + 1
  BY <1>2, CardAdd
<1>4. QED BY <1>1, <1>3 DEF Counted

(* The same when a reference is given back, or leaked.                       *)
LEMMA RefRemoved ==
  ASSUME NEW s \in Slots, SlotInv(s), ~released[s], ioCnt[s] \in Nat,
         ioCnt'[s] = ioCnt[s] - 1 \/ ioCnt'[s] = ioCnt[s],
         NEW r \in Refs(s), Refs(s)' \subseteq Refs(s) \ {r}
  PROVE  Counted(s)'
<1>1. Cardinality(Refs(s)) <= ioCnt[s] BY DEF SlotInv, Counted
<1>2. IsFiniteSet(Refs(s)) BY RefsFinite
<1>3. /\ Cardinality(Refs(s)) \in Nat /\ Cardinality(Refs(s)') \in Nat
      /\ Cardinality(Refs(s)') <= Cardinality(Refs(s)) - 1
  BY <1>2, CardRemove
<1>4. QED BY <1>1, <1>3 DEF Counted

(* The same when a reference passes from one holder to another.              *)
LEMMA RefSwapped ==
  ASSUME NEW s \in Slots, SlotInv(s), ~released[s], ioCnt[s] \in Nat, ioCnt'[s] = ioCnt[s],
         NEW r \in Refs(s), NEW q, Refs(s)' \subseteq (Refs(s) \ {r}) \cup {q}
  PROVE  Counted(s)'
<1>1. Cardinality(Refs(s)) <= ioCnt[s] BY DEF SlotInv, Counted
<1>2. IsFiniteSet(Refs(s)) BY RefsFinite
<1>3. /\ Cardinality(Refs(s)) \in Nat /\ Cardinality(Refs(s)') \in Nat
      /\ Cardinality(Refs(s)') <= Cardinality(Refs(s))
  BY <1>2, CardSwap
<1>4. QED BY <1>1, <1>3 DEF Counted

-----------------------------------------------------------------------------
(* The actions that change who refers to a slot. *)

(* RELEASE_IOCOUNT is set only at count 0, when no reference is left.        *)
LEMMA TryReleaseStep ==
  ASSUME TypeOK, PcInv, \A s \in Slots : SlotInv(s), NEW t \in Threads, NEW from, NEW label,
         TryRelease(t, from, label), SamePart(t, from, label)
  PROVE  \A s \in Slots : SlotInv(s)'
<1>1. PICK s \in Slots : s = at[t] /\ ioCnt[s] \in Nat BY DEF TypeOK, CtxType, CntType
<1>2. UNCHANGED <<at, freeIdx, ioCnt>> /\ Goto(t, label) /\ pc[t] = from
  BY DEF TryRelease, ctxVars, poolVars
<1>3. OnlyMoves(t) /\ pc'[t] = label BY <1>2, GotoMoves
<1>4. CASE ~(ioCnt[s] = 0 /\ ~released[s])
  <2>1. \A z \in Slots : SameSlot(z) BY <1>1, <1>2, <1>4 DEF TryRelease, SameSlot, SameOv
  <2>2. QED BY <2>1, <1>2, LocalMove
<1>5. CASE ioCnt[s] = 0 /\ ~released[s]
  <2>1. released' = [released EXCEPT ![s] = TRUE] /\ SetOv(s, "release", "queued")
    BY <1>1, <1>5 DEF TryRelease
  <2>2. \A z \in Slots \ {s} : SameSlot(z)
    BY <1>1, <1>2, <2>1 DEF SameSlot, SameOv, SetOv, TypeOK, CntType, OvType
  <2>3. \A z \in Slots \ {s} : SlotInv(z)' BY <1>1, <1>2, <1>3, <2>2, OtherSlots
  <2>4. Refs(s) = {}
    <3>1. Cardinality(Refs(s)) <= 0 BY <1>1, <1>5 DEF SlotInv, Counted
    <3>2. QED BY <3>1, <1>1, RefsFinite, FS_EmptySet, FS_CardinalityType
  <2>5. /\ \A k \in IoKinds : ov[s][k] = "idle"
        /\ \A u \in Threads : ~Handling(u, s) /\ ~Locking(u, s)
    BY <2>4, RefsBefore
  <2>6. /\ \A k \in IoKinds : ov'[s][k] = "idle"
        /\ released'[s]
    BY <1>1, <2>1, <2>5 DEF SetOv, TypeOK, OvType, CntType, Kinds, IoKinds
  <2>7. \A u \in Threads : SameRole(u, s)
    BY <1>1, <1>2, <1>3, OthersSameRole
    DEF SamePart, SameRole, Handling, Locking, Issuing, Recycling
  <2>8. Counted(s)' BY <2>6 DEF Counted
  <2>9. Registered(s)'
    BY <1>1, <2>5, <2>7 DEF SlotInv, Registered, SameRole, IoKinds
  <2>10. Quiet(s)' BY <2>5, <2>6, <2>7 DEF Quiet, SameRole, IoKinds
  <2>11. Owned(s)' BY <1>1, <1>2, <1>5, <2>6, <2>7 DEF SlotInv, Owned, SameRole
  <2>12. QED BY <2>3, <2>8, <2>9, <2>10, <2>11 DEF SlotInv
<1>6. QED BY <1>4, <1>5

(* Dequeue passes the reference of the operation to the handler.             *)
LEMMA DequeueStep ==
  ASSUME ~EarlyAccept, TypeOK, PcInv, \A s \in Slots : SlotInv(s),
         NEW w \in Workers, NEW s \in Slots, NEW k \in Kinds, Dequeue(w, s, k)
  PROVE  \A z \in Slots : SlotInv(z)'
<1>1. w \in Threads /\ ioCnt[s] \in Nat BY DEF Threads, TypeOK, CntType
<1>2. /\ pc[w] = "idle" /\ ov[s][k] \in {"queued", "eof"} /\ (k = "accept" => ~Registering(s))
      /\ SetOv(s, k, "idle") /\ at' = [at EXCEPT ![w] = s]
      /\ UNCHANGED <<ioCnt, released, freeIdx>>
      /\ \E l : /\ Goto(w, l)
                /\ k # "release" => l \in {"acc_check", "fin", "recv", "sent"}
                /\ k = "release" => l = "rel_notify"
  BY DEF Dequeue, cntVars, poolVars, Kinds, IoKinds
<1>3. /\ at'[w] = s /\ OnlyMoves(w)
      /\ k # "release" => pc'[w] \in {"acc_check", "fin", "recv", "sent"}
      /\ k = "release" => pc'[w] = "rel_notify"
  BY <1>1, <1>2 DEF Goto, OnlyMoves, TypeOK, PcType, CtxType
<1>4. /\ ov'[s][k] = "idle" /\ \A q \in Kinds \ {k} : ov'[s][q] = ov[s][q]
      /\ \A z \in Slots \ {s} : ov'[z] = ov[z]
  BY <1>2 DEF SetOv, TypeOK, OvType
<1>5. \A z \in Slots \ {s} : SlotInv(z)'
  <2>1. \A z \in Slots : NoRole(w, z)
    BY <1>2 DEF NoRole, Handling, Locking, Issuing, Recycling, HandlePCs, LockPCs, ReleasePCs, RegPCs
  <2>2. \A z \in Slots \ {s} : SameSlot(z) BY <1>2, <1>4 DEF SameSlot, SameOv
  <2>3. QED BY <1>1, <1>3, <2>1, <2>2, OtherSlots
<1>6. CASE k # "release"
  <2>1. k \in IoKinds BY <1>6 DEF Kinds
  <2>2. ~released[s] BY <1>2, <2>1 DEF SlotInv, Quiet, IoKinds
  <2>3. Handling(w, s)' /\ ~Locking(w, s)' /\ ~Issuing(w, s)' /\ ~Recycling(w, s)'
        /\ pc'[w] \notin {"reg_cnt", "reg_slot"}
    BY <1>3, <1>6
    DEF Handling, Locking, Issuing, Recycling, HandlePCs, LockPCs, ReleasePCs, RegPCs
  <2>4. Refs(s)' \subseteq (Refs(s) \ {<<"ov", k>>}) \cup {<<"handle", w>>}
    BY <1>3, <1>4, <2>1, <2>3, RefsAfter, RefsBefore DEF Kinds
  <2>5. Counted(s)'
    BY <1>1, <1>2, <2>1, <2>2, <2>4, RefsBefore, RefSwapped
  <2>6. Registered(s)' /\ Quiet(s)' /\ Owned(s)'
    BY <1>1, <1>2, <1>3, <1>4, <1>6, <2>2, <2>3, Unreleased DEF Kinds, IoKinds
  <2>7. QED BY <1>5, <2>5, <2>6 DEF SlotInv
<1>7. CASE k = "release"
  <2>1. released[s] /\ s \notin freeIdx /\ \A u \in Threads : ~Recycling(u, s)
    BY <1>2, <1>7 DEF SlotInv, Owned
  <2>2. ~Handling(w, s)' /\ ~Locking(w, s)' /\ Recycling(w, s)'
        /\ pc'[w] \notin {"reg_cnt", "reg_slot"}
    BY <1>3, <1>7
    DEF Handling, Locking, Recycling, HandlePCs, LockPCs, ReleasePCs, RegPCs
  <2>3. \A u \in Threads \ {w} : SameRole(u, s) BY <1>3, OthersSameRole
  <2>4. \A q \in IoKinds : ov'[s][q] = ov[s][q] BY <1>4, <1>7 DEF Kinds, IoKinds
  <2>5. Counted(s)' BY <1>2, <2>1 DEF Counted
  <2>6. Registered(s)'
    BY <1>2, <2>2, <2>3, <2>4 DEF SlotInv, Registered, SameRole, IoKinds
  <2>7. Registering(s) => Registering(s)'
    BY <1>2, <2>3 DEF Registering, SameRole
  <2>8. Quiet(s)'
    BY <1>2, <2>1, <2>2, <2>3, <2>4, <2>7 DEF SlotInv, Quiet, SameRole, IoKinds
  <2>9. Owned(s)' BY <1>2, <1>4, <1>7, <2>1, <2>2, <2>3 DEF Owned, SameRole
  <2>10. QED BY <1>5, <2>5, <2>6, <2>8, <2>9 DEF SlotInv
<1>8. QED BY <1>6, <1>7

(* Dec, BadId, Unlock: thread t gives back its reference r.                    *)
LEMMA DropStep ==
  ASSUME TypeOK, \A s \in Slots : SlotInv(s), NEW t \in Threads, NEW s \in Slots, s = at[t],
         UNCHANGED <<at, released, ov, freeIdx>>, DecIo(s), NEW l, Goto(t, l),
         NEW r \in {<<"handle", t>>, <<"lock", t>>}, r \in Refs(s), r \notin Refs(s)',
         Handling(t, s)' => Handling(t, s), Locking(t, s)' => Locking(t, s),
         ~Issuing(t, s)', ~Recycling(t, s)', l \notin {"reg_cnt", "reg_slot"}
  PROVE  \A z \in Slots : SlotInv(z)'
<1>1. pc'[t] = l /\ OnlyMoves(t) BY GotoMoves
<1>2. ioCnt[s] \in Nat /\ ioCnt'[s] = ioCnt[s] - 1 BY DEF DecIo, TypeOK, CntType
<1>3. \A z \in Slots \ {s} : SameSlot(z) BY DEF SameSlot, SameOv, DecIo, TypeOK, CntType
<1>4. \A z \in Slots \ {s} : SlotInv(z)' BY <1>1, <1>3, OtherSlots
<1>5. ~released[s]
  <2>1. Handling(t, s) \/ Locking(t, s) BY RefsBefore
  <2>2. QED BY <2>1, Held
<1>6. ASSUME NEW q \in Refs(s)' PROVE q \in Refs(s) \ {r}
  <2>1. OnlyRefsOf(s, t, {}) BY <1>1, RefsAfterOv
  <2>2. \/ q \in Refs(s)
        \/ q = <<"handle", t>> /\ Handling(t, s)
        \/ q = <<"lock", t>> /\ Locking(t, s)
    BY <2>1 DEF OnlyRefsOf
  <2>3. q \in Refs(s) BY <2>2, RefsBefore, Zenon
  <2>4. QED BY <2>3
<1>7. Counted(s)'
  <2>1. Refs(s)' \subseteq Refs(s) \ {r} BY <1>6
  <2>2. QED BY <1>2, <1>5, <2>1, RefRemoved
<1>8. Registered(s)' /\ Quiet(s)' /\ Owned(s)' BY <1>1, <1>5, Unreleased
<1>9. QED BY <1>4, <1>7, <1>8 DEF SlotInv

(* The decrement that ends a handler gives back the reference of the handler. *)
LEMMA DecStep ==
  ASSUME TypeOK, \A s \in Slots : SlotInv(s), NEW w \in Workers, Dec(w)
  PROVE  \A z \in Slots : SlotInv(z)'
<1>1. PICK s \in Slots : w \in Threads /\ s = at[w] BY DEF Threads, TypeOK, CtxType
<1>2. PICK l \in {"dec_cas", "idle"} : Goto(w, l) BY DEF Dec
<1>3. pc[w] = "dec" /\ DecIo(s) /\ UNCHANGED <<at, released, ov, freeIdx>>
  BY <1>1 DEF Dec, ctxVars, poolVars
<1>4. pc'[w] = l BY <1>1, <1>2, GotoMoves
<1>5. <<"handle", w>> \in Refs(s)
  BY <1>1, <1>3, RefsBefore DEF Handling, HandlePCs
<1>6. ~Handling(w, s)' /\ ~Locking(w, s)' /\ ~Issuing(w, s)' /\ ~Recycling(w, s)'
  BY <1>2, <1>4 DEF Handling, Locking, Issuing, Recycling, HandlePCs, LockPCs, ReleasePCs, RegPCs
<1>7. <<"handle", w>> \notin Refs(s)' BY <1>6 DEF Refs
<1>8. QED BY <1>1, <1>2, <1>3, <1>5, <1>6, <1>7, DropStep

(* sessionUnLock, and sessionLock on a stale id, give back the reference of the lock. *)
LEMMA UnlockStep ==
  ASSUME TypeOK, \A s \in Slots : SlotInv(s), NEW t \in Threads, BadId(t) \/ Unlock(t)
  PROVE  \A z \in Slots : SlotInv(z)'
<1>1. PICK s \in Slots : s = at[t] BY DEF TypeOK, CtxType
<1>2. PICK l : Goto(t, l) /\ (l = "unlock_cas" \/ l = Back(t)) BY DEF BadId, Unlock
<1>3. pc[t] \in {"bad_id", "unlock"} /\ DecIo(s) /\ UNCHANGED <<at, released, ov, freeIdx>>
  BY <1>1 DEF BadId, Unlock, ctxVars, poolVars
<1>4. /\ pc'[t] = l /\ l \in {"unlock_cas", "dec", "next", "idle"}
  BY <1>2, GotoMoves DEF Back
<1>5. Locking(t, s) /\ (t \in Workers => Handling(t, s))
  BY <1>1, <1>3 DEF Locking, Handling, LockPCs
<1>6. ~Locking(t, s)' /\ ~Issuing(t, s)' /\ ~Recycling(t, s)' /\ (Handling(t, s)' => t \in Workers)
  BY <1>4 DEF Handling, Locking, Issuing, Recycling, LockPCs, ReleasePCs, RegPCs
<1>7. <<"lock", t>> \in Refs(s) BY <1>5, RefsBefore
<1>8. <<"lock", t>> \notin Refs(s)' BY <1>6 DEF Refs
<1>9. QED BY <1>1, <1>2, <1>3, <1>4, <1>5, <1>6, <1>7, <1>8, DropStep

(* RegisterRecv and SendLive on a live session, Lock: thread t takes one more. *)
LEMMA TakeStep ==
  ASSUME TypeOK, \A s \in Slots : SlotInv(s), NEW t \in Threads, NEW s \in Slots, s = at[t],
         UNCHANGED <<at, released, ov, freeIdx>>, IncIo(s), ~released[s], NEW l, Goto(t, l),
         NEW r, Refs(s)' \subseteq Refs(s) \cup {r},
         ~Recycling(t, s)', l \notin {"reg_cnt", "reg_slot"}
  PROVE  \A z \in Slots : SlotInv(z)'
<1>1. pc'[t] = l /\ OnlyMoves(t) BY GotoMoves
<1>2. ioCnt[s] \in Nat /\ ioCnt'[s] = ioCnt[s] + 1 BY DEF IncIo, TypeOK, CntType
<1>3. \A z \in Slots \ {s} : SameSlot(z) BY DEF SameSlot, SameOv, IncIo, TypeOK, CntType
<1>4. \A z \in Slots \ {s} : SlotInv(z)' BY <1>1, <1>3, OtherSlots
<1>5. Counted(s)' BY <1>2, RefAdded
<1>6. Registered(s)' /\ Quiet(s)' /\ Owned(s)' BY <1>1, Unreleased
<1>7. QED BY <1>4, <1>5, <1>6 DEF SlotInv

(* The live branch of registerRecv and registerSend.                           *)
LEMMA IssueStep ==
  ASSUME TypeOK, \A s \in Slots : SlotInv(s), NEW w \in Workers, pc[w] \in {"reg_recv", "rs_live"},
         NEW l \in {"wsa_recv", "wsa_send"}, Goto(w, l), IncIo(at[w]),
         UNCHANGED <<at, released, ov, freeIdx>>
  PROVE  \A z \in Slots : SlotInv(z)'
<1>1. PICK s \in Slots : w \in Threads /\ s = at[w] BY DEF Threads, TypeOK, CtxType
<1>2. pc'[w] = l /\ OnlyMoves(w) BY <1>1, GotoMoves
<1>3. Handling(w, s) BY <1>1 DEF Handling, HandlePCs
<1>4. ~released[s] BY <1>1, <1>3, Held
<1>5. ~Locking(w, s)' /\ ~Recycling(w, s)' BY <1>2 DEF Locking, Recycling, LockPCs, ReleasePCs, RegPCs
<1>6. ASSUME NEW q \in Refs(s)' PROVE q \in Refs(s) \cup {<<"issue", w>>}
  <2>1. OnlyRefsOf(s, w, {}) BY <1>1, <1>2, RefsAfterOv
  <2>2. \/ q \in Refs(s)
        \/ q = <<"handle", w>>
        \/ q = <<"issue", w>>
    BY <2>1, <1>5 DEF OnlyRefsOf
  <2>3. <<"handle", w>> \in Refs(s) BY <1>1, <1>3, RefsBefore, Zenon
  <2>4. QED BY <2>2, <2>3
<1>7. Refs(s)' \subseteq Refs(s) \cup {<<"issue", w>>} BY <1>6
<1>8. QED BY <1>1, <1>4, <1>5, <1>7, TakeStep

(* sessionLock takes a reference, or fails on a released slot.               *)
LEMMA LockTakes ==
  ASSUME TypeOK, \A s \in Slots : SlotInv(s), NEW t \in Threads, Lock(t)
  PROVE  \A z \in Slots : SlotInv(z)'
<1>1. PICK s \in Slots : s = at[t] /\ ioCnt[s] \in Nat BY DEF TypeOK, CtxType, CntType
<1>2. pc[t] = "lock" /\ IncIo(s) /\ UNCHANGED <<at, released, ov, freeIdx>>
  BY <1>1 DEF Lock, ctxVars, poolVars
<1>3. CASE released[s]
  <2>1. t \notin Workers
    <3>1. t \in Workers => Handling(t, s) BY <1>1, <1>2 DEF Handling
    <3>2. QED BY <3>1, <1>3, Held
  <2>2. PICK l \in {"next", "idle"} : Goto(t, l) BY <1>1, <1>3, <2>1 DEF Lock, Back
  <2>4. pc'[t] = l /\ OnlyMoves(t) BY <1>2, <2>2, GotoMoves
  <2>5. \A z \in Slots : NoRole(t, z) /\ NoRole(t, z)'
    BY <1>2, <2>1, <2>4
    DEF NoRole, Handling, Locking, Issuing, Recycling, HandlePCs, LockPCs, ReleasePCs, RegPCs
  <2>6. \A z \in Slots : SameSlot(z)
    BY <1>1, <1>2, <1>3 DEF SameSlot, SameOv, IncIo, TypeOK, CntType
  <2>7. QED BY <2>4, <2>5, <2>6, Elsewhere
<1>4. CASE ~released[s]
  <2>1. PICK l \in {"lock_id"} : Goto(t, l) BY <1>1, <1>4 DEF Lock
  <2>2. pc'[t] = "lock_id" /\ OnlyMoves(t) BY <1>2, <2>1, GotoMoves
  <2>3. ~Issuing(t, s)' /\ ~Recycling(t, s)' BY <2>2 DEF Issuing, Recycling, ReleasePCs, RegPCs
  <2>4. Handling(t, s)' => Handling(t, s) BY <1>1, <1>2 DEF Handling
  <2>5. Refs(s)' \subseteq Refs(s) \cup {<<"lock", t>>}
    <3>1. OnlyRefsOf(s, t, {}) BY <1>2, <2>2, RefsAfterOv
    <3>2. QED BY <3>1, <2>3, <2>4, RefsBefore DEF OnlyRefsOf
  <2>6. QED BY <1>1, <1>2, <1>4, <2>1, <2>3, <2>5, TakeStep
<1>5. QED BY <1>3, <1>4

(* WSARecv and WSASend: the reference goes to the operation, or is given back. *)
LEMMA WsaCallStep ==
  ASSUME TypeOK, \A s \in Slots : SlotInv(s), NEW w \in Workers,
         NEW k \in {"recv", "send"}, NEW from \in {"wsa_recv", "wsa_send"}, WsaCall(w, from, k)
  PROVE  \A z \in Slots : SlotInv(z)'
<1>1. PICK s \in Slots : w \in Threads /\ s = at[w] /\ ioCnt[s] \in Nat
  BY DEF Threads, TypeOK, CtxType, CntType
<1>2. PICK l \in {"recheck", "dec"} : Goto(w, l) BY DEF WsaCall
<1>3. pc[w] = from /\ UNCHANGED <<at, released, freeIdx>> BY DEF WsaCall, ctxVars, poolVars
<1>4. pc'[w] = l /\ OnlyMoves(w) BY <1>1, <1>2, <1>3, GotoMoves
<1>5. Handling(w, s) /\ Issuing(w, s) BY <1>1, <1>3 DEF Handling, Issuing, HandlePCs
<1>6. ~released[s] BY <1>1, <1>5, Held
<1>7. ~Locking(w, s)' /\ ~Issuing(w, s)' /\ ~Recycling(w, s)'
      /\ pc'[w] \notin {"reg_cnt", "reg_slot"}
  BY <1>4 DEF Locking, Issuing, Recycling, LockPCs, ReleasePCs, RegPCs
<1>8. CASE \E r \in {"pending", "queued", "eof"} : SetOv(s, k, r) /\ UNCHANGED ioCnt
  <2>1. /\ ov'[s][k] # "idle" /\ \A q \in Kinds \ {k} : ov'[s][q] = ov[s][q]
        /\ \A z \in Slots \ {s} : ov'[z] = ov[z]
    BY <1>8 DEF SetOv, TypeOK, OvType, Kinds, IoKinds
  <2>2. \A z \in Slots \ {s} : SlotInv(z)'
    <3>1. \A z \in Slots \ {s} : SameSlot(z) BY <1>3, <1>8, <2>1 DEF SameSlot, SameOv
    <3>2. QED BY <3>1, <1>1, <1>3, <1>4, OtherSlots
  <2>3. Refs(s)' \subseteq (Refs(s) \ {<<"issue", w>>}) \cup {<<"ov", k>>}
    <3>1. OnlyRefsOf(s, w, {<<"ov", k>>})
      BY <1>1, <1>4, <2>1, RefsAfterOv DEF Kinds, IoKinds
    <3>2. <<"handle", w>> \in Refs(s) \ {<<"issue", w>>} BY <1>1, <1>5, RefsBefore
    <3>3. QED BY <3>1, <3>2, <1>7 DEF OnlyRefsOf
  <2>4. Counted(s)' BY <1>1, <1>5, <1>6, <1>8, <2>3, RefsBefore, RefSwapped
  <2>5. Registered(s)' /\ Quiet(s)' /\ Owned(s)'
    BY <1>1, <1>3, <1>4, <1>6, <1>7, <2>1, Unreleased DEF Kinds, IoKinds
  <2>6. QED BY <2>2, <2>4, <2>5 DEF SlotInv
<1>9. CASE (UNCHANGED ov \/ ov' = Cancelled(s, {"recv", "send"})) /\ (UNCHANGED ioCnt \/ DecIo(s))
  <2>1. \A z \in Slots : SameOv(z)
    <3>1. CASE UNCHANGED ov BY <3>1 DEF SameOv
    <3>2. QED BY <3>1, <1>9, CancelKeepsIdle
  <2>2. \A z \in Slots \ {s} : SlotInv(z)'
    <3>1. \A z \in Slots \ {s} : SameSlot(z)
      BY <1>3, <1>9, <2>1 DEF SameSlot, DecIo, TypeOK, CntType
    <3>2. QED BY <3>1, <1>1, <1>3, <1>4, OtherSlots
  <2>3. Refs(s)' \subseteq Refs(s) \ {<<"issue", w>>}
    <3>1. OnlyRefsOf(s, w, {}) BY <1>1, <1>4, <2>1, RefsAfterOv DEF SameOv, Kinds
    <3>2. <<"handle", w>> \in Refs(s) \ {<<"issue", w>>} BY <1>1, <1>5, RefsBefore
    <3>3. QED BY <3>1, <3>2, <1>7 DEF OnlyRefsOf
  <2>4. ioCnt'[s] = ioCnt[s] - 1 \/ ioCnt'[s] = ioCnt[s]
    BY <1>9 DEF DecIo, TypeOK, CntType
  <2>5. Counted(s)'
    <3>1. <<"issue", w>> \in Refs(s) BY <1>1, <1>5, RefsBefore
    <3>2. QED BY <3>1, <1>1, <1>6, <2>3, <2>4, RefRemoved
  <2>6. Registered(s)' /\ Quiet(s)' /\ Owned(s)'
    BY <1>1, <1>3, <1>4, <1>6, <1>7, <2>1, Unreleased DEF SameOv, Kinds, IoKinds
  <2>7. QED BY <2>2, <2>5, <2>6 DEF SlotInv
<1>10. QED BY <1>1, <1>8, <1>9 DEF WsaCall

(* Winning mSendFlag takes a reference for the completion it queues.           *)
LEMMA KickStep ==
  ASSUME TypeOK, \A s \in Slots : SlotInv(s), NEW t \in Threads,
         NEW from, NEW l, KickSend(t, from, l), SamePart(t, from, l), Handling(t, at[t]) \/ Locking(t, at[t]),
         l \notin ReleasePCs \cup RegPCs
  PROVE  \A z \in Slots : SlotInv(z)'
<1>1. PICK s \in Slots : s = at[t] /\ ioCnt[s] \in Nat BY DEF TypeOK, CtxType, CntType
<1>2. Goto(t, l) /\ pc[t] = from /\ UNCHANGED <<at, released, freeIdx>>
  BY DEF KickSend, ctxVars, poolVars
<1>3. pc'[t] = l /\ OnlyMoves(t) BY <1>2, GotoMoves
<1>4. ~released[s] BY <1>1, Held
<1>5. CASE mSendFlag[s]
  <2>1. \A z \in Slots : SameSlot(z) BY <1>1, <1>2, <1>5 DEF KickSend, SameSlot, SameOv
  <2>2. QED BY <2>1, <1>2, LocalMove
<1>6. CASE ~mSendFlag[s]
  <2>1. IncIo(s) /\ SetOv(s, "send", "queued") BY <1>1, <1>6 DEF KickSend
  <2>2. /\ ioCnt'[s] = ioCnt[s] + 1
        /\ \A q \in Kinds \ {"send"} : ov'[s][q] = ov[s][q]
        /\ \A z \in Slots \ {s} : ov'[z] = ov[z] /\ ioCnt'[z] = ioCnt[z]
    BY <2>1 DEF IncIo, SetOv, TypeOK, OvType, CntType
  <2>3. \A z \in Slots \ {s} : SlotInv(z)'
    <3>1. \A z \in Slots \ {s} : SameSlot(z) BY <1>2, <2>2 DEF SameSlot, SameOv
    <3>2. QED BY <3>1, <1>1, <1>2, <1>3, OtherSlots
  <2>4. SameRole(t, s)
    BY <1>2, <1>3 DEF SamePart, SameRole, Handling, Locking, Issuing, Recycling
  <2>5. Refs(s)' \subseteq Refs(s) \cup {<<"ov", "send">>}
    <3>1. OnlyRefsOf(s, t, {<<"ov", "send">>})
      BY <1>1, <1>3, <2>2, RefsAfterOv DEF Kinds, IoKinds
    <3>2. /\ Handling(t, s)' => <<"handle", t>> \in Refs(s)
          /\ Locking(t, s)' => <<"lock", t>> \in Refs(s)
          /\ Issuing(t, s)' => <<"issue", t>> \in Refs(s)
      BY <2>4, RefsBefore DEF SameRole
    <3>3. QED BY <3>1, <3>2 DEF OnlyRefsOf
  <2>6. Counted(s)' BY <1>1, <1>4, <2>2, <2>5, RefAdded
  <2>7. ~Recycling(t, s)' /\ pc'[t] \notin {"reg_cnt", "reg_slot"}
    BY <1>3 DEF Recycling, RegPCs
  <2>8. Registered(s)' /\ Quiet(s)' /\ Owned(s)'
    BY <1>2, <1>3, <1>4, <2>2, <2>7, Unreleased DEF Kinds, IoKinds
  <2>9. QED BY <2>3, <2>6, <2>8 DEF SlotInv
<1>7. QED BY <1>5, <1>6

-----------------------------------------------------------------------------
(* Recycling a slot. *)

(* The worker that recycles a slot is the only thread there.                   *)
LEMMA RecyclingAlone ==
  ASSUME PcInv, NEW s \in Slots, SlotInv(s), NEW w \in Threads, Recycling(w, s)
  PROVE  /\ released[s] /\ s \notin freeIdx /\ ov[s]["release"] = "idle"
         /\ \A u \in Threads \ {w} : NoRole(u, s)
<1>1. released[s] /\ s \notin freeIdx /\ ov[s]["release"] = "idle"
      /\ \A u \in Threads \ {w} : ~Recycling(u, s)
  BY DEF SlotInv, Owned
<1>2. \A u \in Threads : ~Handling(u, s) /\ ~Locking(u, s) BY <1>1 DEF SlotInv, Quiet
<1>3. \A u \in Threads : ~Issuing(u, s)
  BY <1>2 DEF PcInv, Issuing, Handling, HandlePCs
<1>4. \A u \in Threads \ {w} : at[u] = s => pc[u] # "reg_cnt"
  BY <1>1 DEF Recycling, RegPCs
<1>5. \A u \in Threads : at[u] = s => pc[u] # "reg_slot"
  BY <1>1 DEF SlotInv, Registered
<1>6. QED BY <1>1, <1>2, <1>3, <1>4, <1>5 DEF NoRole

(* ReleaseReset, and RegisterAccept when it fails: the index is pushed back.   *)
LEMMA GiveBackStep ==
  ASSUME TypeOK, PcInv, \A s \in Slots : SlotInv(s), NEW w \in Threads, NEW s \in Slots, s = at[w],
         Recycling(w, s), pc[w] # "reg_cnt", NEW l \in {"reg_pop", "idle"}, Goto(w, l),
         freeIdx' = freeIdx \cup {s}, UNCHANGED <<at, ioCnt, released, ov>>
  PROVE  \A z \in Slots : SlotInv(z)'
<1>1. pc'[w] = l /\ OnlyMoves(w) BY GotoMoves
<1>2. \A z \in Slots \ {s} : SlotInv(z)'
  <2>1. \A z \in Slots \ {s} : SameSlot(z) BY DEF SameSlot, SameOv
  <2>2. QED BY <1>1, <2>1, OtherSlots
<1>3. /\ released[s] /\ ov[s]["release"] = "idle"
      /\ \A u \in Threads \ {w} : NoRole(u, s) /\ NoRole(u, s)'
  <2>1. \A u \in Threads \ {w} : SameRole(u, s) BY <1>1, OthersSameRole
  <2>2. QED BY <2>1, RecyclingAlone DEF NoRole, SameRole
<1>4. NoRole(w, s)'
  BY <1>1 DEF NoRole, Handling, Locking, Issuing, Recycling, HandlePCs, LockPCs, ReleasePCs, RegPCs
<1>5. ov[s]["accept"] = "idle" /\ ov[s]["recv"] = "idle" /\ ov[s]["send"] = "idle"
  <2>1. ~Registering(s)
    BY <1>3 DEF Registering, NoRole, SlotInv, Registered
  <2>2. QED BY <1>3, <2>1 DEF SlotInv, Quiet
<1>6. \A u \in Threads : NoRole(u, s)' BY <1>3, <1>4
<1>7. Counted(s)' BY <1>3 DEF Counted
<1>8. Registered(s)' BY <1>6 DEF Registered, NoRole
<1>9. Quiet(s)' BY <1>5, <1>6 DEF Quiet, NoRole
<1>10. Owned(s)' BY <1>3, <1>6 DEF Owned, NoRole
<1>11. QED BY <1>2, <1>7, <1>8, <1>9, <1>10 DEF SlotInv

(* registerAcceptEx takes a free slot, or forgets it when the server stops.  *)
LEMMA RegisterPopStep ==
  ASSUME TypeOK, PcInv, \A s \in Slots : SlotInv(s), NEW w \in Workers, RegisterPop(w)
  PROVE  \A z \in Slots : SlotInv(z)'
<1>1. w \in Threads BY DEF Threads
<1>2. pc[w] = "reg_pop" /\ UNCHANGED <<ioCnt, released, ov>> BY DEF RegisterPop, cntVars
<1>3. \A z \in Slots : NoRole(w, z)
  BY <1>2 DEF NoRole, Handling, Locking, Issuing, Recycling, HandlePCs, LockPCs, ReleasePCs, RegPCs
<1>4. CASE Goto(w, "idle") /\ UNCHANGED at /\ freeIdx' \subseteq freeIdx
  <2>1. PICK l \in {"idle"} : Goto(w, l) BY <1>4
  <2>2. pc'[w] = "idle" /\ OnlyMoves(w) BY <1>1, <1>4, <2>1, GotoMoves
  <2>3. \A z \in Slots : NoRole(w, z)'
    BY <2>2 DEF NoRole, Handling, Locking, Issuing, Recycling, HandlePCs, LockPCs, ReleasePCs, RegPCs
  <2>4. \A z \in Slots : SameSlot(z) BY <1>2, <1>4 DEF SameSlot, SameOv
  <2>5. QED BY <1>3, <2>2, <2>3, <2>4, Elsewhere
<1>5. ASSUME NEW s \in freeIdx, freeIdx' = freeIdx \ {s}, at' = [at EXCEPT ![w] = s],
             Goto(w, "reg_id")
      PROVE  \A z \in Slots : SlotInv(z)'
  <2>1. s \in Slots BY DEF TypeOK, PoolType
  <2>2. pc'[w] = "reg_id" /\ at'[w] = s /\ OnlyMoves(w)
    BY <1>1, <1>5, <2>1 DEF Goto, OnlyMoves, TypeOK, PcType, CtxType
  <2>3. \A z \in Slots \ {s} : SlotInv(z)'
    <3>1. \A z \in Slots \ {s} : SameSlot(z) BY <1>2, <1>5 DEF SameSlot, SameOv
    <3>2. QED BY <3>1, <1>1, <1>3, <2>1, <2>2, OtherSlots
  <2>4. released[s] /\ ov[s]["release"] = "idle" /\ \A u \in Threads : ~Recycling(u, s)
    BY <2>1 DEF SlotInv, Owned
  <2>5. /\ \A u \in Threads \ {w} : SameRole(u, s)
        /\ ~Handling(w, s)' /\ ~Locking(w, s)' /\ Recycling(w, s)'
    BY <2>2, OthersSameRole
    DEF Handling, Locking, Recycling, HandlePCs, LockPCs, ReleasePCs, RegPCs
  <2>6. Counted(s)' BY <1>2, <2>4 DEF Counted
  <2>7. Registered(s)' BY <1>2, <2>1, <2>2, <2>5 DEF SlotInv, Registered, SameRole
  <2>8. Registering(s) => Registering(s)' BY <1>3, <2>5, <2>1 DEF Registering, SameRole, NoRole
  <2>9. Quiet(s)' BY <1>2, <2>1, <2>4, <2>5, <2>8 DEF SlotInv, Quiet, SameRole
  <2>10. Owned(s)' BY <1>2, <1>5, <2>4, <2>5 DEF Owned, SameRole
  <2>11. QED BY <2>3, <2>6, <2>7, <2>9, <2>10 DEF SlotInv
<1>6. QED BY <1>4, <1>5 DEF RegisterPop

(* AcceptEx is issued on a slot nobody else refers to, or fails.             *)
LEMMA RegisterAcceptStep ==
  ASSUME TypeOK, PcInv, \A s \in Slots : SlotInv(s), NEW w \in Workers, RegisterAccept(w)
  PROVE  \A z \in Slots : SlotInv(z)'
<1>1. PICK s \in Slots : w \in Threads /\ s = at[w] BY DEF Threads, TypeOK, CtxType
<1>2. pc[w] = "reg_accept" /\ UNCHANGED <<at, ioCnt, released>> BY DEF RegisterAccept, ctxVars, cntVars
<1>3. Recycling(w, s) BY <1>1, <1>2 DEF Recycling, RegPCs
<1>4. CASE freeIdx' = freeIdx \cup {s} /\ Goto(w, "idle") /\ UNCHANGED ov
  <2>1. PICK l \in {"reg_pop", "idle"} : Goto(w, l) BY <1>4
  <2>2. QED BY <1>1, <1>2, <1>3, <1>4, <2>1, GiveBackStep
<1>5. CASE SetOv(s, "accept", "pending") /\ Goto(w, "reg_cnt") /\ UNCHANGED freeIdx
  <2>1. PICK l \in {"reg_cnt"} : Goto(w, l) BY <1>5
  <2>2. pc'[w] = "reg_cnt" /\ OnlyMoves(w) BY <1>1, <1>2, <2>1, GotoMoves
  <2>3. /\ ov'[s]["accept"] = "pending" /\ \A q \in Kinds \ {"accept"} : ov'[s][q] = ov[s][q]
        /\ \A z \in Slots \ {s} : ov'[z] = ov[z]
    BY <1>5 DEF SetOv, TypeOK, OvType, Kinds, IoKinds
  <2>4. \A z \in Slots \ {s} : SlotInv(z)'
    <3>1. \A z \in Slots \ {s} : SameSlot(z) BY <1>2, <1>5, <2>3 DEF SameSlot, SameOv
    <3>2. QED BY <3>1, <1>1, <1>2, <2>2, OtherSlots
  <2>5. /\ released[s] /\ s \notin freeIdx /\ ov[s]["release"] = "idle"
        /\ \A u \in Threads \ {w} : NoRole(u, s)'
    <3>1. \A u \in Threads \ {w} : SameRole(u, s) BY <2>2, OthersSameRole
    <3>2. QED BY <3>1, <1>1, <1>3, RecyclingAlone DEF NoRole, SameRole
  <2>6. ~Handling(w, s)' /\ ~Locking(w, s)'
    BY <2>2 DEF Handling, Locking, HandlePCs, LockPCs
  <2>7. Registering(s)' BY <1>1, <1>2, <2>2 DEF Registering
  <2>8. Counted(s)' BY <1>2, <2>5 DEF Counted
  <2>9. Registered(s)' BY <2>2, <2>3, <2>5 DEF Registered, NoRole
  <2>10. ov[s]["recv"] = "idle" /\ ov[s]["send"] = "idle" BY <2>5 DEF SlotInv, Quiet
  <2>11. Quiet(s)' BY <2>3, <2>5, <2>6, <2>7, <2>10 DEF Quiet, NoRole, Kinds, IoKinds
  <2>12. Owned(s)' BY <1>2, <1>5, <2>3, <2>5 DEF Owned, NoRole, Kinds, IoKinds
  <2>13. QED BY <2>4, <2>8, <2>9, <2>11, <2>12 DEF SlotInv
<1>6. QED BY <1>1, <1>4, <1>5 DEF RegisterAccept

(* The exchange of mIOcnt starts the slot's next life, with one reference: the *)
(* pending AcceptEx.                                                           *)
LEMMA RegisterCountStep ==
  ASSUME TypeOK, PcInv, \A s \in Slots : SlotInv(s), NEW w \in Workers, RegisterCount(w)
  PROVE  \A z \in Slots : SlotInv(z)'
<1>1. PICK s \in Slots : w \in Threads /\ s = at[w] BY DEF Threads, TypeOK, CtxType
<1>2. pc[w] = "reg_cnt" /\ UNCHANGED <<at, ov, freeIdx>> BY DEF RegisterCount, ctxVars, poolVars
<1>3. /\ ioCnt'[s] = 1 /\ ~released'[s]
      /\ \A z \in Slots \ {s} : ioCnt'[z] = ioCnt[z] /\ released'[z] = released[z]
  BY <1>1 DEF RegisterCount, TypeOK, CntType
<1>4. PICK l \in {"reg_slot"} : Goto(w, l) BY DEF RegisterCount
<1>5. pc'[w] = "reg_slot" /\ OnlyMoves(w) BY <1>1, <1>2, <1>4, GotoMoves
<1>6. Recycling(w, s) BY <1>1, <1>2 DEF Recycling, RegPCs
<1>7. \A z \in Slots \ {s} : SlotInv(z)'
  <2>1. \A z \in Slots \ {s} : SameSlot(z) BY <1>2, <1>3 DEF SameSlot, SameOv
  <2>2. QED BY <2>1, <1>1, <1>2, <1>5, OtherSlots
<1>8. /\ released[s] /\ s \notin freeIdx /\ ov[s]["release"] = "idle"
      /\ ov[s]["recv"] = "idle" /\ ov[s]["send"] = "idle" /\ ov[s]["accept"] # "idle"
      /\ \A u \in Threads \ {w} : NoRole(u, s)'
  <2>1. \A u \in Threads \ {w} : SameRole(u, s) BY <1>5, OthersSameRole
  <2>2. ov[s]["accept"] # "idle" BY <1>1, <1>2 DEF SlotInv, Registered
  <2>3. /\ released[s] /\ s \notin freeIdx /\ ov[s]["release"] = "idle"
        /\ \A u \in Threads \ {w} : NoRole(u, s)
    BY <1>1, <1>6, RecyclingAlone
  <2>4. ov[s]["recv"] = "idle" /\ ov[s]["send"] = "idle" BY <2>3 DEF SlotInv, Quiet
  <2>5. QED BY <2>1, <2>2, <2>3, <2>4 DEF NoRole, SameRole
<1>9. ~Handling(w, s)' /\ ~Locking(w, s)' /\ ~Issuing(w, s)' /\ ~Recycling(w, s)'
  BY <1>5 DEF Handling, Locking, Issuing, Recycling, HandlePCs, LockPCs, ReleasePCs, RegPCs
<1>10. Counted(s)'
  <2>1. Refs(s)' \subseteq {<<"ov", "accept">>}
    BY <1>2, <1>8, <1>9 DEF Refs, NoRole, IoKinds
  <2>2. Cardinality({<<"ov", "accept">>}) = 1 /\ IsFiniteSet({<<"ov", "accept">>}) BY FS_Singleton
  <2>3. Cardinality(Refs(s)') <= 1 BY <2>1, <2>2, CardSubset
  <2>4. QED BY <2>3, <1>3 DEF Counted
<1>11. Registered(s)' BY <1>2, <1>3, <1>8 DEF Registered
<1>12. Quiet(s)' BY <1>3 DEF Quiet
<1>13. Owned(s)' BY <1>2, <1>8, <1>9 DEF Owned, NoRole
<1>14. QED BY <1>7, <1>10, <1>11, <1>12, <1>13 DEF SlotInv

(* The last counter of registerAcceptEx ends the recycling of the slot.      *)
LEMMA RegisterSlotStep ==
  ASSUME TypeOK, PcInv, \A s \in Slots : SlotInv(s), NEW w \in Workers, RegisterSlot(w)
  PROVE  \A z \in Slots : SlotInv(z)'
<1>1. PICK s \in Slots : w \in Threads /\ s = at[w] BY DEF Threads, TypeOK, CtxType
<1>2. pc[w] = "reg_slot" /\ UNCHANGED <<at, ov, ioCnt, released, freeIdx>>
  BY DEF RegisterSlot, ctxVars, cntVars
<1>3. PICK l \in {"idle"} : Goto(w, l) BY DEF RegisterSlot
<1>4. pc'[w] = "idle" /\ OnlyMoves(w) BY <1>1, <1>2, <1>3, GotoMoves
<1>5. \A z \in Slots \ {s} : SlotInv(z)'
  <2>1. \A z \in Slots \ {s} : SameSlot(z) BY <1>2 DEF SameSlot, SameOv
  <2>2. QED BY <2>1, <1>1, <1>2, <1>4, OtherSlots
<1>6. ~released[s] BY <1>1, <1>2 DEF SlotInv, Registered
<1>7. ~Handling(w, s)' /\ ~Locking(w, s)' /\ ~Issuing(w, s)' /\ ~Recycling(w, s)'
      /\ pc'[w] \notin {"reg_cnt", "reg_slot"}
  BY <1>4 DEF Handling, Locking, Issuing, Recycling, HandlePCs, LockPCs, ReleasePCs, RegPCs
<1>8. Counted(s)'
  <2>1. OnlyRefsOf(s, w, {}) BY <1>1, <1>2, <1>4, RefsAfterOv
  <2>2. Refs(s)' \subseteq Refs(s) BY <2>1, <1>7 DEF OnlyRefsOf
  <2>3. Cardinality(Refs(s)') <= Cardinality(Refs(s)) /\ Cardinality(Refs(s)) \in Nat
        /\ Cardinality(Refs(s)') \in Nat
    BY <2>2, RefsFinite, CardSubset
  <2>4. ioCnt[s] \in Nat BY DEF TypeOK, CntType
  <2>5. QED BY <1>2, <1>6, <2>3, <2>4 DEF SlotInv, Counted
<1>9. Registered(s)' /\ Quiet(s)' /\ Owned(s)' BY <1>1, <1>2, <1>4, <1>6, <1>7, Unreleased
<1>10. QED BY <1>5, <1>8, <1>9 DEF SlotInv

-----------------------------------------------------------------------------
(* The actions that move a thread within its part of the protocol. *)

Local(t) ==
  /\ \E l : Goto(t, l) /\ SamePart(t, pc[t], l)
  /\ UNCHANGED <<at, cntVars, freeIdx>>
  /\ UNCHANGED ov \/ \E ks : ov' = Cancelled(at[t], ks)

(* Local steps keep the invariant of every slot.                             *)
LEMMA LocalStep ==
  ASSUME TypeOK, \A s \in Slots : SlotInv(s), NEW t \in Threads, Local(t)
  PROVE  \A s \in Slots : SlotInv(s)'
<1>1. at[t] \in Slots BY DEF TypeOK, CtxType
<1>2. \A z \in Slots : SameOv(z)
  <2>1. CASE UNCHANGED ov BY <2>1 DEF SameOv
  <2>2. CASE \E ks : ov' = Cancelled(at[t], ks) BY <2>2, <1>1, CancelKeepsIdle
  <2>3. QED BY <2>1, <2>2 DEF Local
<1>3. \A z \in Slots : SameSlot(z) BY <1>2 DEF Local, SameSlot, cntVars
<1>4. PICK l : Goto(t, l) /\ SamePart(t, pc[t], l) BY DEF Local
<1>5. QED BY <1>3, <1>4, LocalMove DEF Local

(* The worker steps that are local; registerRecv and registerSend are local    *)
(* when they disconnect or find the session dead.                              *)
LEMMA WorkerLocal ==
  ASSUME NEW w
  PROVE  /\ \/ AcceptCheck(w) \/ AcceptOpen(w) \/ Recheck(w) \/ CompleteRecv(w) \/ Fin(w)
            \/ FinCancel(w) \/ CompleteSend(w) \/ RegisterSend(w) \/ SendFlagClear(w)
            \/ SendSizeAgain(w) \/ ReleaseNotify(w) \/ RegisterId(w)
            => Local(w)
         /\ RegisterRecv(w) /\ (CallDisconnect(w) \/ ~mLive[at[w]]) => Local(w)
         /\ SendLive(w) /\ ~mLive[at[w]] => Local(w)
<1> USE DEF Local, SamePart, LockPCs, HandlePCs, ReleasePCs, RegPCs, cntVars, poolVars, ctxVars
<1>1. ASSUME AcceptCheck(w) PROVE Local(w) BY <1>1 DEF AcceptCheck
<1>2. ASSUME AcceptOpen(w) PROVE Local(w) BY <1>2 DEF AcceptOpen
<1>3. ASSUME Recheck(w) PROVE Local(w) BY <1>3 DEF Recheck
<1>4. ASSUME CompleteRecv(w) PROVE Local(w) BY <1>4 DEF CompleteRecv, CallDisconnect
<1>5. ASSUME Fin(w) PROVE Local(w) BY <1>5 DEF Fin
<1>6. ASSUME FinCancel(w) PROVE Local(w) BY <1>6 DEF FinCancel
<1>7. ASSUME CompleteSend(w) PROVE Local(w) BY <1>7 DEF CompleteSend
<1>8. ASSUME RegisterSend(w) PROVE Local(w) BY <1>8 DEF RegisterSend
<1>9. ASSUME SendFlagClear(w) PROVE Local(w) BY <1>9 DEF SendFlagClear
<1>10. ASSUME SendSizeAgain(w) PROVE Local(w) BY <1>10 DEF SendSizeAgain
<1>11. ASSUME ReleaseNotify(w) PROVE Local(w) BY <1>11 DEF ReleaseNotify
<1>12. ASSUME RegisterId(w) PROVE Local(w) BY <1>12 DEF RegisterId
<1>13. ASSUME RegisterRecv(w), CallDisconnect(w) PROVE Local(w)
  BY <1>13 DEF RegisterRecv, CallDisconnect
<1>14. ASSUME RegisterRecv(w), ~CallDisconnect(w), ~mLive[at[w]] PROVE Local(w)
  BY <1>14 DEF RegisterRecv
<1>15. ASSUME SendLive(w), ~mLive[at[w]] PROVE Local(w) BY <1>15 DEF SendLive
<1>16. QED
  BY <1>1, <1>2, <1>3, <1>4, <1>5, <1>6, <1>7, <1>8, <1>9, <1>10, <1>11, <1>12, <1>13, <1>14, <1>15

(* Every worker step keeps the invariant of every slot.                      *)
LEMMA WorkerSlots ==
  ASSUME TypeOK, PcInv, \A s \in Slots : SlotInv(s), NEW w \in Workers, WorkerStep(w)
  PROVE  \A s \in Slots : SlotInv(s)'
<1>1. w \in Threads /\ at[w] \in Slots BY DEF Threads, TypeOK, CtxType
<1>2. CASE Local(w) BY <1>1, <1>2, LocalStep
<1>3. CASE AcceptCheck(w) \/ AcceptOpen(w) \/ Recheck(w) \/ CompleteRecv(w) \/ Fin(w)
           \/ FinCancel(w) \/ CompleteSend(w) \/ RegisterSend(w) \/ SendFlagClear(w)
           \/ SendSizeAgain(w) \/ ReleaseNotify(w) \/ RegisterId(w)
  BY <1>2, <1>3, WorkerLocal
<1>4. CASE Dec(w) BY <1>4, DecStep
<1>5. CASE DecCas(w)
  <2>1. SamePart(w, "dec_cas", "idle") BY DEF SamePart, LockPCs, HandlePCs, ReleasePCs, RegPCs
  <2>2. QED BY <1>5, <1>1, <2>1, TryReleaseStep DEF DecCas
<1>6. CASE RegisterRecv(w)
  <2>1. CASE CallDisconnect(w) \/ ~mLive[at[w]] BY <1>2, <1>6, <2>1, WorkerLocal
  <2>2. CASE mLive[at[w]] /\ ~CallDisconnect(w)
    <3>1. PICK l \in {"wsa_recv", "wsa_send"} : Goto(w, l) BY <1>6, <2>2 DEF RegisterRecv
    <3>2. QED BY <1>6, <2>2, <3>1, IssueStep DEF RegisterRecv, ctxVars, poolVars
  <2>3. QED BY <2>1, <2>2
<1>7. CASE SendLive(w)
  <2>1. CASE ~mLive[at[w]] BY <1>2, <1>7, <2>1, WorkerLocal
  <2>2. CASE mLive[at[w]]
    <3>1. PICK l \in {"wsa_recv", "wsa_send"} : Goto(w, l) BY <1>7, <2>2 DEF SendLive
    <3>2. QED BY <1>7, <2>2, <3>1, IssueStep DEF SendLive, ctxVars, poolVars
  <2>3. QED BY <2>1, <2>2
<1>8. CASE WsaRecv(w) BY <1>8, WsaCallStep DEF WsaRecv
<1>9. CASE WsaSend(w) BY <1>9, WsaCallStep DEF WsaSend
<1>10. CASE SendFlagAgain(w)
  <2>1. pc[w] = "rs_set" BY <1>10 DEF SendFlagAgain, KickSend
  <2>2. Handling(w, at[w]) BY <2>1 DEF Handling, HandlePCs
  <2>3. SamePart(w, "rs_set", "dec") /\ "dec" \notin ReleasePCs \cup RegPCs
    BY DEF SamePart, LockPCs, HandlePCs, ReleasePCs, RegPCs
  <2>4. QED BY <1>10, <1>1, <2>2, <2>3, KickStep DEF SendFlagAgain
<1>11. CASE ReleaseReset(w)
  <2>1. PICK s \in Slots : s = at[w] BY <1>1
  <2>2. PICK l \in {"reg_pop", "idle"} : Goto(w, l) BY <1>11 DEF ReleaseReset
  <2>3. pc[w] = "rel_reset" /\ Recycling(w, s) /\ freeIdx' = freeIdx \cup {s}
        /\ UNCHANGED <<at, ioCnt, released, ov>>
    BY <1>11, <2>1 DEF ReleaseReset, Recycling, ReleasePCs, ctxVars, cntVars
  <2>4. QED BY <1>1, <2>1, <2>2, <2>3, GiveBackStep
<1>12. CASE RegisterPop(w) BY <1>12, RegisterPopStep
<1>13. CASE RegisterAccept(w) BY <1>13, RegisterAcceptStep
<1>14. CASE RegisterCount(w) BY <1>14, RegisterCountStep
<1>15. CASE RegisterSlot(w) BY <1>15, RegisterSlotStep
<1>16. QED
  BY <1>3, <1>4, <1>5, <1>6, <1>7, <1>8, <1>9, <1>10, <1>11, <1>12, <1>13, <1>14, <1>15
  DEF WorkerStep

(* The steps between sessionLock and sessionUnLock that are local.             *)
LEMMA LockLocal ==
  ASSUME NEW t
  PROVE  LockId(t) \/ EnQueueMsg(t) \/ DisconnectLive(t) \/ DisconnectCancel(t) => Local(t)
<1> USE DEF Local, SamePart, LockPCs, HandlePCs, ReleasePCs, RegPCs, cntVars, poolVars, ctxVars
<1>1. ASSUME LockId(t) PROVE Local(t) BY <1>1 DEF LockId
<1>2. ASSUME EnQueueMsg(t) PROVE Local(t) BY <1>2 DEF EnQueueMsg
<1>3. ASSUME DisconnectLive(t) PROVE Local(t) BY <1>3 DEF DisconnectLive
<1>4. ASSUME DisconnectCancel(t) PROVE Local(t) BY <1>4 DEF DisconnectCancel
<1>5. QED BY <1>1, <1>2, <1>3, <1>4

(* Every step between sessionLock and sessionUnLock keeps it too.            *)
LEMMA LockSlots ==
  ASSUME TypeOK, PcInv, \A s \in Slots : SlotInv(s), NEW t \in Threads, LockStep(t)
  PROVE  \A s \in Slots : SlotInv(s)'
<1>1. CASE Local(t) BY <1>1, LocalStep
<1>2. CASE Lock(t) BY <1>2, LockTakes
<1>3. CASE LockId(t) \/ EnQueueMsg(t) \/ DisconnectLive(t) \/ DisconnectCancel(t)
  BY <1>1, <1>3, LockLocal
<1>4. CASE BadId(t) \/ Unlock(t) BY <1>4, UnlockStep
<1>5. CASE PostSend(t)
  <2>1. pc[t] = "kick" BY <1>5 DEF PostSend, KickSend
  <2>2. Locking(t, at[t]) BY <2>1 DEF Locking, LockPCs
  <2>3. SamePart(t, "kick", "unlock") /\ "unlock" \notin ReleasePCs \cup RegPCs
    BY DEF SamePart, LockPCs, HandlePCs, ReleasePCs, RegPCs
  <2>4. QED BY <1>5, <2>2, <2>3, KickStep DEF PostSend
<1>6. CASE UnlockCas(t)
  <2>1. SamePart(t, "unlock_cas", Back(t))
    BY DEF SamePart, Back, LockPCs, HandlePCs, ReleasePCs, RegPCs
  <2>2. QED BY <1>6, <2>1, TryReleaseStep DEF UnlockCas
<1>7. QED BY <1>2, <1>3, <1>4, <1>5, <1>6 DEF LockStep

(* Every step keeps the invariant of every slot.                             *)
LEMMA SlotStep ==
  ASSUME ~EarlyAccept, TypeOK, PcInv, \A s \in Slots : SlotInv(s), Next
  PROVE  \A s \in Slots : SlotInv(s)'
<1>1. ASSUME NEW s \in Slots, Kernel(s) PROVE \A z \in Slots : SlotInv(z)'
  BY <1>1, KernelStep
<1>2. ASSUME NEW w \in Workers, NEW s \in Slots, NEW k \in Kinds, Dequeue(w, s, k)
      PROVE  \A z \in Slots : SlotInv(z)'
  BY <1>2, DequeueStep
<1>3. ASSUME NEW w \in Workers, WorkerStep(w) PROVE \A z \in Slots : SlotInv(z)'
  BY <1>3, WorkerSlots
<1>4. ASSUME NEW t \in Threads, LockStep(t) PROVE \A z \in Slots : SlotInv(z)'
  BY <1>4, LockSlots
<1>5. ASSUME NEW w \in Workers, WorkerExit(w) PROVE \A z \in Slots : SlotInv(z)'
  <2>1. w \in Threads BY DEF Threads
  <2>2. Local(w)
    BY <1>5
    DEF WorkerExit, Local, SamePart, LockPCs, HandlePCs, ReleasePCs, RegPCs, ctxVars, poolVars
  <2>3. QED BY <2>1, <2>2, LocalStep
<1>6. ASSUME NEW c \in Callers, StartCall(c) PROVE \A z \in Slots : SlotInv(z)'
  <2>1. c \in Threads /\ c \notin Workers BY ThreadsAssumption DEF Threads
  <2>2. pc[c] = "idle" /\ pc'[c] = "lock" /\ OnlyMoves(c)
    BY <1>6, <2>1 DEF StartCall, Goto, OnlyMoves, TypeOK, PcType, CtxType
  <2>3. \A z \in Slots : NoRole(c, z) /\ NoRole(c, z)'
    BY <2>1, <2>2
    DEF NoRole, Handling, Locking, Issuing, Recycling, HandlePCs, LockPCs, ReleasePCs, RegPCs
  <2>4. \A z \in Slots : SameSlot(z) BY <1>6 DEF StartCall, SameSlot, SameOv, cntVars, poolVars
  <2>5. QED BY <2>2, <2>3, <2>4, Elsewhere
<1>7. CASE StopNext
  <2>1. Main \in Threads /\ Main \notin Workers BY ThreadsAssumption DEF Threads
  <2>2. pc[Main] = "next" /\ pc'[Main] \in {"lock", "spin"} /\ OnlyMoves(Main)
    BY <1>7, <2>1 DEF StopNext, Goto, OnlyMoves, TypeOK, PcType, CtxType, ctxVars
  <2>3. \A z \in Slots : NoRole(Main, z) /\ NoRole(Main, z)'
    BY <2>1, <2>2
    DEF NoRole, Handling, Locking, Issuing, Recycling, HandlePCs, LockPCs, ReleasePCs, RegPCs
  <2>4. \A z \in Slots : SameSlot(z) BY <1>7 DEF StopNext, SameSlot, SameOv, cntVars, poolVars
  <2>5. QED BY <2>2, <2>3, <2>4, Elsewhere
<1>8. CASE StopOff \/ StopListen \/ StopSpin \/ StopJoin
  <2>1. Main \in Threads BY DEF Threads
  <2>2. Local(Main)
    BY <1>8 DEF StopOff, StopListen, StopSpin, StopJoin, Local, SamePart, LockPCs, HandlePCs,
                ReleasePCs, RegPCs, ctxVars, poolVars
  <2>3. QED BY <2>1, <2>2, LocalStep
<1>9. QED BY <1>1, <1>2, <1>3, <1>4, <1>5, <1>6, <1>7, <1>8 DEF Next, StopStep

-----------------------------------------------------------------------------
(* Theorems *)

(* The constructor establishes the invariant: every slot waits in AcceptEx and *)
(* holds the one reference of that operation.                                  *)
THEOREM InitIInv == Init => IInv
<1> SUFFICES ASSUME Init PROVE IInv OBVIOUS
<1>1. TypeOK
  <2>1. 0 \in Slots /\ Slots \subseteq Nat BY ConstantsAssumption DEF Slots
  <2>2. SESSION_MAX \in Nat /\ SESSION_MAX - 1 \in Nat BY ConstantsAssumption
  <2>3. CntType /\ LiveType /\ SendType /\ SrvType BY DEF Init, CntType, LiveType, SendType, SrvType
  <2>4. OvType BY DEF Init, OvType, Kinds, IoKinds, Status
  <2>5. SessType /\ PoolType BY <2>1, <2>2 DEF Init, SessType, PoolType
  <2>6. CtxType /\ PcType BY <2>1 DEF Init, CtxType, PcType, Ids, ByRef, PCs, StopPCs
  <2>7. QED BY <2>3, <2>4, <2>5, <2>6 DEF TypeOK, Init
<1>2. \A t \in Threads : pc[t] = "idle" \/ (pc[t] = "run" /\ t = Main /\ t \notin Workers)
  BY ThreadsAssumption DEF Init
<1>3. PcInv
  BY <1>2 DEF PcInv, HandlePCs, ReleasePCs, RegPCs, StopPCs
<1>4. ASSUME NEW s \in Slots PROVE SlotInv(s)
  <2>1. /\ ioCnt[s] = 1 /\ ~released[s] /\ s \notin freeIdx
        /\ ov[s]["accept"] = "pending" /\ \A k \in Kinds \ {"accept"} : ov[s][k] = "idle"
    BY DEF Init, Kinds, IoKinds
  <2>2. \A t \in Threads : NoRole(t, s)
    BY <1>2 DEF NoRole, Handling, Locking, Issuing, Recycling, HandlePCs, LockPCs, ReleasePCs, RegPCs
  <2>3. Counted(s)
    <3>1. Refs(s) \subseteq {<<"ov", "accept">>} BY <2>1, <2>2 DEF Refs, NoRole, Kinds, IoKinds
    <3>2. Cardinality({<<"ov", "accept">>}) = 1 /\ IsFiniteSet({<<"ov", "accept">>}) BY FS_Singleton
    <3>3. Cardinality(Refs(s)) <= 1 BY <3>1, <3>2, CardSubset
    <3>4. QED BY <3>3, <2>1 DEF Counted
  <2>4. Registered(s) BY <2>2 DEF Registered, NoRole
  <2>5. Quiet(s) /\ Owned(s) BY <2>1, <2>2 DEF Quiet, Owned, NoRole, Kinds
  <2>6. QED BY <2>3, <2>4, <2>5 DEF SlotInv
<1>5. QED BY <1>1, <1>3, <1>4, BySlot

(* Every step keeps the invariant.                                             *)
THEOREM NextIInv ==
  ASSUME ~EarlyAccept, IInv, [Next]_vars
  PROVE  IInv'
<1>1. TypeOK /\ PcInv /\ \A s \in Slots : SlotInv(s)
  <2>1. TypeOK BY DEF IInv
  <2>2. QED BY <2>1, BySlot
<1>2. CASE Next
  <2>1. TypeOK' /\ PcInv' BY <1>1, <1>2, TypeStep
  <2>2. \A s \in Slots : SlotInv(s)' BY <1>1, <1>2, SlotStep
  <2>3. QED BY <2>1, <2>2, BySlotPrime
<1>3. CASE UNCHANGED vars
  <2>1. UNCHANGED <<cntVars, ov, mLive, sessVars, sendVars, poolVars, srvVars, ctxVars, pc, calls>>
    BY <1>3 DEF vars
  <2>2. TypeOK' /\ PcInv' BY <1>1, <2>1, FrameType DEF TypeOK, PcType, PcInv
  <2>3. \A z \in Slots : SameSlot(z) /\ SameRole(Main, z)
    BY <2>1 DEF SameSlot, SameOv, SameRole, cntVars, poolVars, ctxVars, Handling, Locking, Issuing,
                Recycling
  <2>4. OnlyMoves(Main) BY <2>1 DEF OnlyMoves, ctxVars
  <2>5. \A s \in Slots : SlotInv(s)' BY <1>1, <2>3, <2>4, Stay
  <2>6. QED BY <2>2, <2>5, BySlotPrime
<1>4. QED BY <1>2, <1>3

(* Whatever the number of sessions and threads, as long as no client connects  *)
(* before registerAcceptEx has counted its AcceptEx, the invariant holds.      *)
THEOREM IInvHolds ==
  ASSUME ~EarlyAccept
  PROVE  Spec => []IInv
<1>1. Init => IInv BY InitIInv
<1>2. IInv /\ [Next]_vars => IInv' BY NextIInv
<1>3. QED BY <1>1, <1>2, PTL DEF Spec

(* The variables of the session pool keep their types; mIOcnt never goes below *)
(* 0, although every handler decrements it.                                    *)
THEOREM TypeCorrect ==
  ASSUME ~EarlyAccept
  PROVE  Spec => []TypeOK
<1>1. IInv => TypeOK BY DEF IInv
<1>2. QED BY <1>1, IInvHolds, PTL

(* No operation, handler or lock region is left on a session once              *)
(* RELEASE_IOCOUNT is set: completeRelease may free it.                        *)
THEOREM ReleaseIsSafe ==
  ASSUME ~EarlyAccept
  PROVE  Spec => []ReleasedQuiet
<1>1. IInv => ReleasedQuiet BY DEF IInv
<1>2. QED BY <1>1, IInvHolds, PTL

(* A slot is on the free stack, in the release completion or with one worker,  *)
(* never in two of these places: no session is recycled twice.                 *)
THEOREM SlotHasOneOwner ==
  ASSUME ~EarlyAccept
  PROVE  Spec => []OneOwner
<1>1. IInv => OneOwner BY DEF IInv
<1>2. QED BY <1>1, IInvHolds, PTL

(* mIOcnt is never less than the number of operations, handlers and lock       *)
(* regions that hold a reference: no decrement comes too early.                *)
THEOREM CountIsRight ==
  ASSUME ~EarlyAccept
  PROVE  Spec => []RefsCounted
<1>1. IInv => RefsCounted BY DEF IInv
<1>2. QED BY <1>1, IInvHolds, PTL


-----------------------------------------------------------------------------
(* The labels the invariants below speak about. *)

(* Worker w holds the right to send that mSendFlag gives.                      *)
SendPCs == {"sent", "rs_size", "rs_clear", "rs_live", "wsa_send"}
(* The thread is about to look at mSendFlag.                                   *)
WakePCs == {"kick", "rs_again", "rs_set"}
(* Worker w holds the right to receive: one receive is issued at a time.       *)
RecvPCs == {"acc_check", "acc_open", "reg_recv", "wsa_recv", "recv"}
(* Every label the invariants speak about.                                     *)
Marked == SendPCs \cup WakePCs \cup RecvPCs
            \cup {"enq", "reg_id", "reg_accept", "rel_notify", "rel_reset"}

In(t, s, L) == at[t] = s /\ pc[t] \in L

(* A step of thread t that touches none of the labels, nor the send queue, the *)
(* ids and the outstanding operations of any session.                          *)
Plain(t) ==
  /\ OnlyMoves(t)
  /\ \/ pc[t] \notin Marked /\ pc'[t] \notin Marked
     \/ pc'[t] = pc[t] /\ at'[t] = at[t] /\ arg'[t] = arg[t]
  /\ \A u \in Threads \ {t} : arg'[u] = arg[u]
  /\ UNCHANGED <<mAccepted, mSessionID, opened, closed, sendVars, mSeqID, freeIdx>>
  /\ \A z \in Slots : released[z] => released'[z]
  /\ \A z \in Slots, k \in IoKinds : (ov[z][k] = "idle")' <=> ov[z][k] = "idle"
  /\ \A u \in Threads : op'[u] = "send" => op[u] = "send" /\ arg'[u] = arg[u] /\ at'[u] = at[u]

(* The steps of a worker that are not plain.                                   *)
MarkedWorkerStep(w) ==
  \/ AcceptCheck(w) \/ AcceptOpen(w) \/ RegisterRecv(w) \/ WsaRecv(w) \/ CompleteRecv(w)
  \/ CompleteSend(w) \/ RegisterSend(w) \/ SendFlagClear(w) \/ SendSizeAgain(w)
  \/ SendFlagAgain(w) \/ SendLive(w) \/ WsaSend(w)
  \/ ReleaseNotify(w) \/ ReleaseReset(w)
  \/ RegisterPop(w) \/ RegisterId(w) \/ RegisterAccept(w) \/ RegisterCount(w)

(* Cancelling starts and ends no operation.                                    *)
LEMMA CancelPlain ==
  ASSUME TypeOK, NEW s \in Slots, NEW ks, ov' = Cancelled(s, ks)
  PROVE  \A z \in Slots, k \in IoKinds : (ov[z][k] = "idle")' <=> ov[z][k] = "idle"
BY CancelKeepsIdle DEF SameOv, Kinds

(* So does a release that is posted.                                           *)
LEMMA TryReleasePlain ==
  ASSUME TypeOK, NEW t \in Threads, NEW from, NEW label, TryRelease(t, from, label)
  PROVE  /\ \A z \in Slots, k \in IoKinds : (ov[z][k] = "idle")' <=> ov[z][k] = "idle"
         /\ \A z \in Slots : released[z] => released'[z]
<1>1. at[t] \in Slots BY DEF TypeOK, CtxType
<1>2. CASE ioCnt[at[t]] = 0 /\ ~released[at[t]]
  <2>1. released' = [released EXCEPT ![at[t]] = TRUE] /\ SetOv(at[t], "release", "queued")
    BY <1>2 DEF TryRelease
  <2>2. QED BY <1>1, <2>1 DEF SetOv, TypeOK, OvType, CntType, IoKinds, Kinds
<1>3. CASE ~(ioCnt[at[t]] = 0 /\ ~released[at[t]])
  BY <1>3 DEF TryRelease
<1>4. QED BY <1>2, <1>3

(* The steps of sessionLock and sessionUnLock, of stop() and of the kernel, and *)
(* the handlers that only count and cancel, are plain.                         *)
LEMMA StepKinds ==
  ASSUME TypeOK, PcInv, [Next]_vars
  PROVE  \/ \E t \in Threads : Plain(t)
         \/ \E w \in Workers, s \in Slots, k \in Kinds : Dequeue(w, s, k)
         \/ \E w \in Workers : MarkedWorkerStep(w)
         \/ \E t \in Threads : LockId(t) \/ EnQueueMsg(t) \/ PostSend(t)
         \/ \E c \in Callers : StartCall(c)
<1> USE DEF Marked, SendPCs, WakePCs, RecvPCs, cntVars, sessVars, poolVars, ctxVars
<1>1. Workers \subseteq Threads /\ Main \in Threads /\ \A t \in Threads : at[t] \in Slots
  BY DEF Threads, TypeOK, CtxType
<1>2. ASSUME NEW t \in Threads, NEW l \in PCs \ Marked, Goto(t, l), pc[t] \notin Marked,
             UNCHANGED <<sessVars, sendVars, poolVars, ctxVars, released>>,
             UNCHANGED ov \/ \E ks : ov' = Cancelled(at[t], ks)
      PROVE  Plain(t)
  <2>1. pc'[t] = l /\ OnlyMoves(t) BY <1>2, GotoMoves
  <2>2. \A z \in Slots, k \in IoKinds : (ov[z][k] = "idle")' <=> ov[z][k] = "idle"
    BY <1>1, <1>2, CancelPlain
  <2>3. QED BY <1>2, <2>1, <2>2 DEF Plain
<1>3. CASE UNCHANGED vars
  <2>1. Plain(Main) BY <1>3, <1>1 DEF vars, Plain, OnlyMoves
  <2>2. QED BY <2>1, <1>1
<1>4. ASSUME NEW s \in Slots, Kernel(s) PROVE Plain(Main)
  <2>1. \A z \in Slots : SameOv(z)
    <3>1. CASE KernelAccept(s)
      BY <3>1, KernelKeepsIdle DEF KernelAccept, Kinds, IoKinds, Status
    <3>2. CASE KernelRecv(s)
      BY <3>2, KernelKeepsIdle DEF KernelRecv, Kinds, IoKinds, Status
    <3>3. CASE KernelSend(s)
      BY <3>3, KernelKeepsIdle DEF KernelSend, Kinds, IoKinds, Status
    <3>4. QED BY <1>4, <3>1, <3>2, <3>3 DEF Kernel
  <2>2. UNCHANGED <<cntVars, mLive, sessVars, sendVars, poolVars, srvVars, ctxVars, pc, calls>>
    BY <1>4 DEF Kernel, KernelAccept, KernelRecv, KernelSend
  <2>3. QED BY <2>1, <2>2 DEF Plain, OnlyMoves, SameOv, Kinds
<1>5. ASSUME NEW t \in Threads, NEW from \in {"dec_cas", "unlock_cas"}, NEW l \in {"idle", Back(t)},
             TryRelease(t, from, l)
      PROVE  Plain(t)
  <2>1. l \in PCs \ Marked BY DEF Back, PCs, HandlePCs, StopPCs
  <2>2. Goto(t, l) /\ pc[t] = from /\ UNCHANGED <<sessVars, sendVars, poolVars, ctxVars>>
    BY <1>5 DEF TryRelease
  <2>3. pc'[t] = l /\ OnlyMoves(t) BY <2>2, GotoMoves
  <2>4. QED BY <1>5, <2>1, <2>2, <2>3, TryReleasePlain DEF Plain
<1>6. ASSUME NEW w \in Workers, WorkerStep(w) PROVE Plain(w) \/ MarkedWorkerStep(w)
  <2>1. CASE Dec(w)
    <3>1. PICK l \in {"dec_cas", "idle"} : Goto(w, l) BY <2>1 DEF Dec
    <3>2. QED BY <2>1, <3>1, <1>1, <1>2 DEF Dec, PCs
  <2>2. CASE DecCas(w) BY <2>2, <1>1, <1>5 DEF DecCas
  <2>3. CASE Recheck(w) BY <2>3, <1>1, <1>2 DEF Recheck, PCs, HandlePCs
  <2>4. CASE Fin(w) BY <2>4, <1>1, <1>2 DEF Fin, PCs, HandlePCs
  <2>5. CASE FinCancel(w) BY <2>5, <1>1, <1>2 DEF FinCancel, PCs, HandlePCs
  <2>6. CASE RegisterSlot(w)
    <3>1. pc'[w] = "idle" /\ OnlyMoves(w) /\ pc[w] = "reg_slot"
      BY <2>6, <1>1, GotoMoves DEF RegisterSlot
    <3>2. QED BY <2>6, <3>1 DEF RegisterSlot, Plain
  <2>7. QED BY <1>6, <2>1, <2>2, <2>3, <2>4, <2>5, <2>6 DEF WorkerStep, MarkedWorkerStep
<1>7. ASSUME NEW w \in Workers, WorkerExit(w) PROVE Plain(w)
  BY <1>7, <1>1, <1>2 DEF WorkerExit, PCs
<1>8. ASSUME NEW t \in Threads, LockStep(t)
      PROVE  Plain(t) \/ LockId(t) \/ EnQueueMsg(t) \/ PostSend(t)
  <2>1. Back(t) \in PCs \ Marked BY DEF Back, PCs, HandlePCs, StopPCs
  <2>2. CASE Lock(t)
    <3>1. PICK l \in {"lock_id", Back(t)} : Goto(t, l) BY <2>2 DEF Lock
    <3>2. QED BY <2>1, <2>2, <3>1, <1>2 DEF Lock, PCs, LockPCs
  <2>3. CASE BadId(t) BY <2>3, <1>2 DEF BadId, PCs
  <2>4. CASE DisconnectLive(t) BY <2>4, <1>2 DEF DisconnectLive, PCs, LockPCs
  <2>5. CASE DisconnectCancel(t) BY <2>5, <1>2 DEF DisconnectCancel, PCs, LockPCs
  <2>6. CASE Unlock(t)
    <3>1. PICK l \in {"unlock_cas", Back(t)} : Goto(t, l) BY <2>6 DEF Unlock
    <3>2. QED BY <2>1, <2>6, <3>1, <1>2 DEF Unlock, PCs
  <2>7. CASE UnlockCas(t) BY <2>7, <1>5 DEF UnlockCas
  <2>8. QED BY <1>8, <2>2, <2>3, <2>4, <2>5, <2>6, <2>7 DEF LockStep
<1>9. CASE StopNext
  <2>1. /\ pc[Main] = "next" /\ pc'[Main] \in {"lock", "spin"} /\ OnlyMoves(Main)
        /\ \A u \in Threads \ {Main} : arg'[u] = arg[u]
        /\ \A u \in Threads : op'[u] = "send" =>
             op[u] = "send" /\ arg'[u] = arg[u] /\ at'[u] = at[u]
    BY <1>9, <1>1 DEF StopNext, Goto, OnlyMoves, TypeOK, PcType, CtxType
  <2>2. QED BY <1>1, <1>9, <2>1 DEF StopNext, Plain
<1>10. CASE StopOff \/ StopListen \/ StopSpin \/ StopJoin
  <2>1. Plain(Main)
    BY <1>10, <1>1, <1>2 DEF StopOff, StopListen, StopSpin, StopJoin, PCs, StopPCs
  <2>2. QED BY <2>1, <1>1
<1>11. QED BY <1>1, <1>3, <1>4, <1>6, <1>7, <1>8, <1>9, <1>10 DEF Next, StopStep

-----------------------------------------------------------------------------
(* The send path: mSendFlag has one owner. *)

(* The owner of mSendFlag is the outstanding send or one worker, and while     *)
(* there is one the flag is set.                                               *)
SendOwner(s) ==
  /\ \A t, u \in Threads : In(t, s, SendPCs) /\ In(u, s, SendPCs) => t = u
  /\ ov[s]["send"] # "idle" => \A t \in Threads : ~In(t, s, SendPCs)
  /\ ov[s]["send"] # "idle" \/ (\E t \in Threads : In(t, s, SendPCs)) => mSendFlag[s]

Woken(s) ==
  mSendQ[s] # <<>> /\ ~mSendFlag[s] => \E t \in Threads : In(t, s, WakePCs)

SendInv(s) == SendOwner(s) /\ Woken(s)

(* A step that changes neither the queue, the flag and the send of session z   *)
(* nor who sends keeps its send invariant.                                     *)
SameSend(z) ==
  /\ mSendFlag'[z] = mSendFlag[z] /\ mSendQ'[z] = mSendQ[z]
  /\ (ov[z]["send"] = "idle")' <=> ov[z]["send"] = "idle"
  /\ \A t \in Threads : In(t, z, SendPCs)' <=> In(t, z, SendPCs)
  /\ \A t \in Threads : In(t, z, WakePCs) => In(t, z, WakePCs)'

(* The send invariant of a session the step does not concern.                  *)
LEMMA SendElsewhere ==
  ASSUME NEW z \in Slots, SendInv(z), SameSend(z)
  PROVE  SendInv(z)'
<1>1. SendOwner(z)' BY DEF SendInv, SendOwner, SameSend
<1>2. Woken(z)' BY DEF SendInv, Woken, SameSend
<1>3. QED BY <1>1, <1>2 DEF SendInv

(* Sessions other than the one thread t works on: same queue, flag and send.   *)
LEMMA SendOthers ==
  ASSUME TypeOK, NEW t \in Threads, OnlyMoves(t), UNCHANGED at, NEW z \in Slots \ {at[t]},
         mSendFlag'[z] = mSendFlag[z], mSendQ'[z] = mSendQ[z],
         (ov[z]["send"] = "idle")' <=> ov[z]["send"] = "idle"
  PROVE  SameSend(z)
BY DEF SameSend, OnlyMoves, In

(* A plain step is not about the send path.                                    *)
LEMMA SendPlain ==
  ASSUME TypeOK, NEW t \in Threads, Plain(t), NEW z \in Slots
  PROVE  SameSend(z)
<1>1. \A u \in Threads : In(u, z, SendPCs)' <=> In(u, z, SendPCs)
  BY DEF Plain, In, OnlyMoves, Marked
<1>2. \A u \in Threads : In(u, z, WakePCs) => In(u, z, WakePCs)'
  BY DEF Plain, In, OnlyMoves, Marked
<1>3. QED BY <1>1, <1>2 DEF Plain, SameSend, IoKinds, sendVars

(* Nor is a step of a thread that is outside the send path before and after.   *)
LEMMA SendBystander ==
  ASSUME NEW t \in Threads, OnlyMoves(t), pc[t] \notin SendPCs \cup WakePCs,
         pc'[t] \notin SendPCs \cup WakePCs, UNCHANGED <<mSendFlag, mSendQ>>,
         \A z \in Slots : (ov[z]["send"] = "idle")' <=> ov[z]["send"] = "idle"
  PROVE  \A z \in Slots : SameSend(z)
BY DEF SameSend, OnlyMoves, In

(* The handlers that accept, receive and recycle are not about the send path.  *)
LEMMA SendOutside ==
  ASSUME TypeOK, NEW w \in Workers,
         \/ AcceptCheck(w) \/ AcceptOpen(w) \/ RegisterRecv(w) \/ WsaRecv(w) \/ CompleteRecv(w)
         \/ ReleaseNotify(w) \/ RegisterPop(w) \/ RegisterId(w) \/ RegisterAccept(w)
         \/ RegisterCount(w)
  PROVE  \A z \in Slots : SameSend(z)
<1> USE DEF SendPCs, WakePCs, sendVars, ctxVars
<1>1. w \in Threads /\ at[w] \in Slots BY DEF Threads, TypeOK, CtxType
<1>2. ASSUME NEW l \in {"acc_open", "reg_recv", "lock", "wsa_recv", "recheck", "dec", "rel_reset",
                        "idle", "reg_accept", "reg_cnt", "reg_slot"},
             Goto(w, l), UNCHANGED <<at, sendVars>>, pc[w] \notin SendPCs \cup WakePCs,
             \A z \in Slots : (ov[z]["send"] = "idle")' <=> ov[z]["send"] = "idle"
      PROVE  \A z \in Slots : SameSend(z)
  <2>1. pc'[w] = l /\ OnlyMoves(w) BY <1>1, <1>2, GotoMoves
  <2>2. QED BY <1>1, <1>2, <2>1, SendBystander
<1>3. CASE AcceptCheck(w)
  <2>1. PICK l \in {"acc_open", "dec"} : Goto(w, l) BY <1>3 DEF AcceptCheck
  <2>2. QED BY <1>2, <1>3, <2>1 DEF AcceptCheck
<1>4. CASE AcceptOpen(w) BY <1>2, <1>4 DEF AcceptOpen
<1>5. CASE RegisterRecv(w)
  <2>1. PICK l \in {"lock", "wsa_recv", "dec"} : Goto(w, l)
    BY <1>5 DEF RegisterRecv, CallDisconnect
  <2>2. QED BY <1>2, <1>5, <2>1 DEF RegisterRecv, CallDisconnect
<1>6. CASE WsaRecv(w)
  <2>1. PICK l \in {"recheck", "dec"} : Goto(w, l) BY <1>6 DEF WsaRecv, WsaCall
  <2>2. \A z \in Slots : (ov[z]["send"] = "idle")' <=> ov[z]["send"] = "idle"
    <3>1. \/ \E r : SetOv(at[w], "recv", r)
          \/ ov' = Cancelled(at[w], {"recv", "send"})
          \/ UNCHANGED ov
      BY <1>6 DEF WsaRecv, WsaCall
    <3>2. ASSUME NEW r, SetOv(at[w], "recv", r)
          PROVE  \A z \in Slots : (ov[z]["send"] = "idle")' <=> ov[z]["send"] = "idle"
      BY <3>2, <1>1 DEF SetOv, TypeOK, OvType, Kinds, IoKinds
    <3>3. QED BY <3>1, <3>2, <1>1, CancelPlain DEF IoKinds
  <2>3. QED BY <1>2, <1>6, <2>1, <2>2 DEF WsaRecv, WsaCall
<1>7. CASE CompleteRecv(w)
  <2>1. PICK l \in {"lock", "reg_recv"} : Goto(w, l) BY <1>7 DEF CompleteRecv, CallDisconnect
  <2>2. QED BY <1>2, <1>7, <2>1 DEF CompleteRecv, CallDisconnect
<1>8. CASE ReleaseNotify(w) BY <1>2, <1>8 DEF ReleaseNotify
<1>9. CASE RegisterPop(w)
  <2>1. OnlyMoves(w) /\ pc[w] = "reg_pop" /\ pc'[w] \in {"idle", "reg_id"}
    BY <1>9, <1>1 DEF RegisterPop, Goto, OnlyMoves, TypeOK, PcType, CtxType
  <2>2. UNCHANGED <<mSendFlag, mSendQ, ov>> BY <1>9 DEF RegisterPop
  <2>3. QED BY <1>1, <2>1, <2>2, SendBystander
<1>10. CASE RegisterId(w) BY <1>2, <1>10 DEF RegisterId
<1>11. CASE RegisterAccept(w)
  <2>1. PICK l \in {"reg_cnt", "idle"} : Goto(w, l) BY <1>11 DEF RegisterAccept
  <2>2. \A z \in Slots : (ov[z]["send"] = "idle")' <=> ov[z]["send"] = "idle"
    BY <1>11, <1>1 DEF RegisterAccept, SetOv, TypeOK, OvType, Kinds, IoKinds
  <2>3. QED BY <1>2, <1>11, <2>1, <2>2 DEF RegisterAccept
<1>12. CASE RegisterCount(w) BY <1>2, <1>12 DEF RegisterCount
<1>13. QED BY <1>3, <1>4, <1>5, <1>6, <1>7, <1>8, <1>9, <1>10, <1>11, <1>12

(* Nobody handles or locks a released session.                                 *)
LEMMA QuietMarked ==
  ASSUME PcInv, NEW s \in Slots, SlotInv(s), released[s]
  PROVE  /\ \A t \in Threads : ~In(t, s, SendPCs \cup WakePCs \cup RecvPCs \cup {"enq"})
         /\ ov[s]["recv"] = "idle" /\ ov[s]["send"] = "idle"
<1>1. ASSUME NEW t \in Threads, In(t, s, SendPCs \cup WakePCs \cup RecvPCs \cup {"enq"})
      PROVE  Handling(t, s) \/ Locking(t, s)
  BY <1>1 DEF In, PcInv, Handling, Locking, SendPCs, WakePCs, RecvPCs, HandlePCs, LockPCs
<1>2. QED BY <1>1 DEF SlotInv, Quiet

(* The worker that recycles a slot is alone with it.                           *)
RecyclePCs == {"rel_notify", "rel_reset", "reg_id", "reg_accept", "reg_cnt"}

LEMMA RecycleMarked ==
  ASSUME NEW s \in Slots, SlotInv(s), NEW t \in Threads, In(t, s, RecyclePCs)
  PROVE  /\ released[s] /\ s \notin freeIdx
         /\ \A u \in Threads : In(u, s, RecyclePCs) => u = t
<1>1. \A u \in Threads : In(u, s, RecyclePCs) => Recycling(u, s)
  BY DEF In, RecyclePCs, Recycling, ReleasePCs, RegPCs
<1>2. QED BY <1>1 DEF SlotInv, Owned

(* The compare-exchange on mSendFlag makes the winner's completion the owner.  *)
LEMMA SendKick ==
  ASSUME TypeOK, \A s \in Slots : SendInv(s), NEW t \in Threads, NEW from \in {"kick", "rs_set"},
         NEW l \in {"dec", "unlock"}, KickSend(t, from, l)
  PROVE  \A z \in Slots : SendInv(z)'
<1>1. at[t] \in Slots BY DEF TypeOK, CtxType
<1>2. pc[t] = from /\ pc'[t] = l /\ OnlyMoves(t) /\ UNCHANGED <<at, mSendQ>>
  BY GotoMoves DEF KickSend, ctxVars
<1>3. /\ mSendFlag' = [mSendFlag EXCEPT ![at[t]] = TRUE]
      /\ \/ mSendFlag[at[t]] /\ UNCHANGED ov
         \/ ~mSendFlag[at[t]] /\ SetOv(at[t], "send", "queued")
  <2>1. mSendFlag \in [Slots -> BOOLEAN] BY DEF TypeOK, SendType
  <2>2. QED BY <1>1, <2>1 DEF KickSend
<1>4. \A z \in Slots \ {at[t]} : mSendFlag'[z] = mSendFlag[z] /\ ov'[z] = ov[z]
  BY <1>1, <1>3 DEF SetOv, TypeOK, SendType, OvType
<1>5. \A z \in Slots \ {at[t]} : SendInv(z)' BY <1>2, <1>4, SendOthers, SendElsewhere
<1>6. mSendFlag'[at[t]] = TRUE BY <1>1, <1>3 DEF TypeOK, SendType
<1>7. \A u \in Threads : In(u, at[t], SendPCs)' <=> In(u, at[t], SendPCs)
  BY <1>2 DEF In, OnlyMoves, SendPCs
<1>8. SendOwner(at[t])'
  <2>1. CASE mSendFlag[at[t]] /\ UNCHANGED ov
    BY <1>1, <1>2, <1>6, <1>7, <2>1 DEF SendInv, SendOwner
  <2>2. CASE ~mSendFlag[at[t]]
    BY <1>1, <1>2, <1>6, <1>7, <2>2 DEF SendInv, SendOwner
  <2>3. QED BY <1>3, <2>1, <2>2
<1>9. Woken(at[t])' BY <1>2, <1>6 DEF Woken
<1>10. QED BY <1>2, <1>5, <1>8, <1>9 DEF SendInv

(* The handlers of a send completion keep the send invariant.                  *)
LEMMA SendHandlers ==
  ASSUME TypeOK, PcInv, \A s \in Slots : SlotInv(s) /\ SendInv(s), NEW w \in Workers,
         \/ CompleteSend(w) \/ RegisterSend(w) \/ SendFlagClear(w) \/ SendSizeAgain(w)
         \/ SendLive(w) \/ WsaSend(w) \/ ReleaseReset(w)
  PROVE  \A z \in Slots : SendInv(z)'
<1>1. w \in Threads /\ at[w] \in Slots BY DEF Threads, TypeOK, CtxType
<1>2. UNCHANGED at
  BY DEF CompleteSend, RegisterSend, SendFlagClear, SendSizeAgain, SendLive, WsaSend, WsaCall,
         ReleaseReset, ctxVars
<1>3. OnlyMoves(w)
  BY <1>1, <1>2, GotoMoves
  DEF CompleteSend, RegisterSend, SendFlagClear, SendSizeAgain, SendLive, WsaSend, WsaCall,
      ReleaseReset
<1>4. \A z \in Slots \ {at[w]} : mSendFlag'[z] = mSendFlag[z] /\ mSendQ'[z] = mSendQ[z]
  BY <1>1
  DEF CompleteSend, RegisterSend, SendFlagClear, SendSizeAgain, SendLive, WsaSend, WsaCall,
      ReleaseReset, TypeOK, SendType, sendVars
<1>5. \A z \in Slots \ {at[w]} : (ov[z]["send"] = "idle")' <=> ov[z]["send"] = "idle"
  <2>1. \/ UNCHANGED ov
        \/ \E r : SetOv(at[w], "send", r)
        \/ ov' = Cancelled(at[w], {"recv", "send"})
    BY DEF CompleteSend, RegisterSend, SendFlagClear, SendSizeAgain, SendLive, WsaSend, WsaCall,
           ReleaseReset
  <2>2. ASSUME NEW r, SetOv(at[w], "send", r)
        PROVE  \A z \in Slots \ {at[w]} : ov'[z] = ov[z]
    BY <1>1, <2>2 DEF SetOv, TypeOK, OvType
  <2>3. QED BY <1>1, <2>1, <2>2, CancelPlain DEF IoKinds
<1>6. \A z \in Slots \ {at[w]} : SendInv(z)'
  BY <1>1, <1>2, <1>3, <1>4, <1>5, SendOthers, SendElsewhere
<1>7. ASSUME UNCHANGED <<mSendFlag, mSendQ, ov>>, pc[w] \in SendPCs, pc'[w] \in SendPCs \cup {"dec"}
      PROVE  SendInv(at[w])'
  <2>1. \A u \in Threads : In(u, at[w], SendPCs)' => In(u, at[w], SendPCs)
    BY <1>2, <1>3, <1>7 DEF In, OnlyMoves
  <2>2. mSendFlag[at[w]] BY <1>1, <1>7 DEF SendInv, SendOwner, In
  <2>3. QED BY <1>1, <1>2, <1>7, <2>1, <2>2 DEF SendInv, SendOwner, Woken
<1>8. CASE CompleteSend(w)
  <2>1. pc[w] = "sent" /\ pc'[w] = "rs_size" /\ UNCHANGED <<mSendFlag, mSendQ, ov>>
    BY <1>1, <1>8, GotoMoves DEF CompleteSend
  <2>2. QED BY <1>2, <1>6, <1>7, <2>1 DEF SendPCs
<1>9. CASE RegisterSend(w)
  <2>1. pc[w] = "rs_size" /\ pc'[w] \in {"rs_clear", "rs_live"} /\ UNCHANGED <<mSendFlag, ov>>
    BY <1>1, <1>9, GotoMoves DEF RegisterSend
  <2>2. \A u \in Threads : In(u, at[w], SendPCs)' <=> In(u, at[w], SendPCs)
    BY <1>2, <1>3, <2>1 DEF In, OnlyMoves, SendPCs
  <2>3. In(w, at[w], SendPCs) BY <2>1 DEF In, SendPCs
  <2>4. mSendFlag[at[w]] BY <1>1, <2>3 DEF SendInv, SendOwner
  <2>5. SendOwner(at[w])' BY <1>1, <1>2, <2>1, <2>2 DEF SendInv, SendOwner
  <2>6. Woken(at[w])' BY <1>2, <2>1, <2>4 DEF Woken
  <2>7. QED BY <1>6, <1>2, <2>5, <2>6 DEF SendInv
<1>10. CASE SendFlagClear(w)
  <2>1. In(w, at[w], SendPCs) BY <1>10 DEF SendFlagClear, In, SendPCs
  <2>2. mSendFlag[at[w]] /\ ov[at[w]]["send"] = "idle"
    BY <1>1, <2>1 DEF SendInv, SendOwner
  <2>3. pc'[w] = "rs_again" /\ UNCHANGED <<mSendQ, ov>>
    BY <1>1, <1>10, <2>2, GotoMoves DEF SendFlagClear
  <2>4. \A u \in Threads : ~In(u, at[w], SendPCs)'
    BY <1>1, <1>2, <1>3, <2>1, <2>3 DEF In, OnlyMoves, SendPCs, SendInv, SendOwner
  <2>5. SendOwner(at[w])' BY <1>2, <2>2, <2>3, <2>4 DEF SendOwner
  <2>6. In(w, at[w], WakePCs)' BY <1>2, <2>3 DEF In, WakePCs
  <2>7. Woken(at[w])' BY <1>1, <1>2, <2>6 DEF Woken
  <2>8. QED BY <1>6, <1>2, <2>5, <2>7 DEF SendInv
<1>11. CASE SendSizeAgain(w)
  <2>1. /\ pc[w] = "rs_again" /\ pc'[w] = IF mSendQ[at[w]] = <<>> THEN "dec" ELSE "rs_set"
        /\ UNCHANGED <<mSendFlag, mSendQ, ov>>
    BY <1>1, <1>11, GotoMoves DEF SendSizeAgain, sendVars
  <2>2. \A u \in Threads : In(u, at[w], SendPCs)' <=> In(u, at[w], SendPCs)
    BY <1>2, <1>3, <2>1 DEF In, OnlyMoves, SendPCs
  <2>3. SendOwner(at[w])' BY <1>1, <1>2, <2>1, <2>2 DEF SendInv, SendOwner
  <2>4. mSendQ[at[w]] # <<>> => In(w, at[w], WakePCs)' BY <1>2, <2>1 DEF In, WakePCs
  <2>5. Woken(at[w])' BY <1>1, <1>2, <2>1, <2>4 DEF Woken
  <2>6. QED BY <1>6, <1>2, <2>3, <2>5 DEF SendInv
<1>12. CASE SendLive(w)
  <2>1. pc[w] = "rs_live" /\ pc'[w] \in {"wsa_send", "dec"} /\ UNCHANGED <<mSendFlag, mSendQ, ov>>
    BY <1>1, <1>12, GotoMoves DEF SendLive, sendVars
  <2>2. QED BY <1>2, <1>6, <1>7, <2>1 DEF SendPCs
<1>13. CASE WsaSend(w)
  <2>1. pc[w] = "wsa_send" /\ pc'[w] \in {"recheck", "dec"} /\ UNCHANGED <<mSendFlag, mSendQ>>
    BY <1>1, <1>13, GotoMoves DEF WsaSend, WsaCall, sendVars
  <2>2. In(w, at[w], SendPCs) BY <2>1 DEF In, SendPCs
  <2>3. mSendFlag[at[w]] BY <1>1, <2>2 DEF SendInv, SendOwner
  <2>4. \A u \in Threads : ~In(u, at[w], SendPCs)'
    BY <1>1, <1>2, <1>3, <2>1, <2>2 DEF In, OnlyMoves, SendPCs, SendInv, SendOwner
  <2>5. SendOwner(at[w])' BY <1>1, <1>2, <2>1, <2>3, <2>4 DEF SendOwner
  <2>6. Woken(at[w])' BY <1>2, <2>1, <2>3 DEF Woken
  <2>7. QED BY <1>6, <1>2, <2>5, <2>6 DEF SendInv
<1>14. CASE ReleaseReset(w)
  <2>1. In(w, at[w], RecyclePCs) BY <1>14 DEF ReleaseReset, In, RecyclePCs
  <2>2. /\ \A u \in Threads : ~In(u, at[w], SendPCs \cup WakePCs \cup RecvPCs \cup {"enq"})
        /\ ov[at[w]]["send"] = "idle"
    BY <1>1, <2>1, RecycleMarked, QuietMarked
  <2>3. pc'[w] = "reg_pop" /\ UNCHANGED ov BY <1>1, <1>14, GotoMoves DEF ReleaseReset
  <2>4. \A u \in Threads : ~In(u, at[w], SendPCs)'
    BY <1>2, <1>3, <2>2, <2>3 DEF In, OnlyMoves, SendPCs
  <2>5. SendOwner(at[w])' BY <1>2, <2>2, <2>3, <2>4 DEF SendOwner
  <2>6. mSendQ'[at[w]] = <<>> BY <1>1, <1>14 DEF ReleaseReset, TypeOK, SendType
  <2>7. Woken(at[w])' BY <1>2, <2>6 DEF Woken
  <2>8. QED BY <1>6, <1>2, <2>5, <2>7 DEF SendInv
<1>15. QED BY <1>8, <1>9, <1>10, <1>11, <1>12, <1>13, <1>14

(* A send completion makes the worker that takes it the owner of mSendFlag.    *)
LEMMA SendDequeue ==
  ASSUME TypeOK, \A s \in Slots : SendInv(s), NEW w \in Workers, NEW s \in Slots, NEW k \in Kinds,
         Dequeue(w, s, k)
  PROVE  \A z \in Slots : SendInv(z)'
<1>1. w \in Threads BY DEF Threads
<1>2. /\ OnlyMoves(w) /\ at'[w] = s /\ pc[w] = "idle"
      /\ pc'[w] = "sent" <=> k = "send"
      /\ pc'[w] \notin (SendPCs \ {"sent"}) \cup WakePCs
      /\ UNCHANGED <<mSendFlag, mSendQ>>
  BY <1>1
  DEF Dequeue, OnlyMoves, Goto, TypeOK, PcType, CtxType, SendPCs, WakePCs, sendVars, Kinds, IoKinds
<1>3. /\ ov[s][k] # "idle" /\ ov'[s][k] = "idle"
      /\ \A z \in Slots, j \in Kinds : z # s \/ j # k => ov'[z][j] = ov[z][j]
  BY DEF Dequeue, SetOv, TypeOK, OvType
<1>4. CASE k # "send"
  <2>1. \A z \in Slots : SameSend(z)
    BY <1>1, <1>2, <1>3, <1>4, SendBystander DEF Kinds, IoKinds, SendPCs, WakePCs
  <2>2. QED BY <2>1, SendElsewhere
<1>5. CASE k = "send"
  <2>1. \A z \in Slots : ~In(w, z, SendPCs \cup WakePCs) BY <1>2 DEF In, SendPCs, WakePCs
  <2>2. pc'[w] = "sent" BY <1>2, <1>5
  <2>3. ASSUME NEW z \in Slots \ {s} PROVE SameSend(z)
    BY <1>2, <1>3, <2>1, <2>2 DEF SameSend, OnlyMoves, In, Kinds, IoKinds
  <2>4. \A z \in Slots \ {s} : SendInv(z)' BY <2>3, SendElsewhere
  <2>5. mSendFlag[s] /\ \A u \in Threads : ~In(u, s, SendPCs)
    BY <1>3, <1>5 DEF SendInv, SendOwner
  <2>6. \A u \in Threads : In(u, s, SendPCs)' => u = w
    BY <1>2, <2>5 DEF In, OnlyMoves
  <2>7. SendOwner(s)' BY <1>2, <1>3, <1>5, <2>5, <2>6 DEF SendOwner
  <2>8. Woken(s)' BY <1>2, <2>5 DEF Woken
  <2>9. QED BY <2>4, <2>7, <2>8 DEF SendInv
<1>6. QED BY <1>4, <1>5

(* Every step keeps the send invariant.                                        *)
LEMMA SendStep ==
  ASSUME IInv, \A s \in Slots : SendInv(s), [Next]_vars
  PROVE  \A z \in Slots : SendInv(z)'
<1>1. TypeOK /\ PcInv /\ \A s \in Slots : SlotInv(s)
  <2>1. TypeOK BY DEF IInv
  <2>2. QED BY <2>1, BySlot
<1>2. ASSUME NEW t \in Threads, Plain(t) PROVE \A z \in Slots : SendInv(z)'
  BY <1>1, <1>2, SendPlain, SendElsewhere
<1>3. ASSUME NEW w \in Workers, NEW s \in Slots, NEW k \in Kinds, Dequeue(w, s, k)
      PROVE  \A z \in Slots : SendInv(z)'
  BY <1>1, <1>3, SendDequeue
<1>4. ASSUME NEW w \in Workers, MarkedWorkerStep(w) PROVE \A z \in Slots : SendInv(z)'
  <2>1. w \in Threads BY DEF Threads
  <2>2. CASE SendFlagAgain(w) BY <1>1, <2>1, <2>2, SendKick DEF SendFlagAgain
  <2>3. CASE \/ CompleteSend(w) \/ RegisterSend(w) \/ SendFlagClear(w) \/ SendSizeAgain(w)
             \/ SendLive(w) \/ WsaSend(w) \/ ReleaseReset(w)
    BY <1>1, <2>3, SendHandlers
  <2>4. CASE \/ AcceptCheck(w) \/ AcceptOpen(w) \/ RegisterRecv(w) \/ WsaRecv(w) \/ CompleteRecv(w)
             \/ ReleaseNotify(w) \/ RegisterPop(w) \/ RegisterId(w) \/ RegisterAccept(w)
             \/ RegisterCount(w)
    BY <1>1, <2>4, SendOutside, SendElsewhere
  <2>5. QED BY <1>4, <2>2, <2>3, <2>4 DEF MarkedWorkerStep
<1>5. ASSUME NEW t \in Threads, LockId(t) \/ EnQueueMsg(t) \/ PostSend(t)
      PROVE  \A z \in Slots : SendInv(z)'
  <2>1. at[t] \in Slots BY <1>1 DEF TypeOK, CtxType
  <2>2. CASE LockId(t)
    <3>1. /\ OnlyMoves(t) /\ pc[t] = "lock_id" /\ pc'[t] \in {"bad_id", "enq", "disc_live"}
          /\ UNCHANGED <<mSendFlag, mSendQ, ov>>
      BY <1>1, <2>2, GotoMoves DEF LockId, sendVars, ctxVars
    <3>2. QED BY <1>1, <3>1, SendBystander, SendElsewhere DEF SendPCs, WakePCs
  <2>3. CASE EnQueueMsg(t)
    <3>1. /\ OnlyMoves(t) /\ pc[t] = "enq" /\ pc'[t] = "kick" /\ UNCHANGED <<at, mSendFlag, ov>>
      BY <1>1, <2>3, GotoMoves DEF EnQueueMsg, ctxVars
    <3>2. \A z \in Slots \ {at[t]} : mSendQ'[z] = mSendQ[z]
      BY <1>1, <2>1, <2>3 DEF EnQueueMsg, TypeOK, SendType
    <3>3. \A z \in Slots \ {at[t]} : SendInv(z)'
      BY <1>1, <3>1, <3>2, SendOthers, SendElsewhere
    <3>4. \A u \in Threads : In(u, at[t], SendPCs)' <=> In(u, at[t], SendPCs)
      BY <3>1 DEF In, OnlyMoves, SendPCs
    <3>5. SendOwner(at[t])' BY <2>1, <3>1, <3>4 DEF SendInv, SendOwner
    <3>6. In(t, at[t], WakePCs)' BY <3>1 DEF In, WakePCs
    <3>7. Woken(at[t])' BY <3>1, <3>6 DEF Woken
    <3>8. QED BY <3>1, <3>3, <3>5, <3>7 DEF SendInv
  <2>4. CASE PostSend(t) BY <1>1, <2>4, SendKick DEF PostSend
  <2>5. QED BY <1>5, <2>2, <2>3, <2>4
<1>6. ASSUME NEW c \in Callers, StartCall(c) PROVE \A z \in Slots : SendInv(z)'
  <2>1. c \in Threads BY DEF Threads
  <2>2. /\ OnlyMoves(c) /\ pc[c] = "idle" /\ pc'[c] = "lock"
        /\ UNCHANGED <<mSendFlag, mSendQ, ov>>
    BY <1>1, <1>6, <2>1 DEF StartCall, Goto, OnlyMoves, TypeOK, PcType, CtxType, sendVars
  <2>3. QED BY <2>1, <2>2, SendBystander, SendElsewhere DEF SendPCs, WakePCs
<1>7. QED BY <1>1, <1>2, <1>3, <1>4, <1>5, <1>6, StepKinds

-----------------------------------------------------------------------------
(* The receive path: an accept or a receive is outstanding, or one worker     *)
(* handles it and will issue the next receive, never two of these.            *)

RecvChain(s) ==
  /\ \A t, u \in Threads : In(t, s, RecvPCs) /\ In(u, s, RecvPCs) => t = u
  /\ ov[s]["recv"] # "idle" \/ ov[s]["accept"] # "idle" =>
       \A t \in Threads : ~In(t, s, RecvPCs)
  /\ ov[s]["recv"] = "idle" \/ ov[s]["accept"] = "idle"

(* Neither the accept nor the receive of z starts, nor does a worker take one. *)
SameRecv(z) ==
  /\ (ov[z]["recv"] = "idle")' <=> ov[z]["recv"] = "idle"
  /\ (ov[z]["accept"] = "idle")' <=> ov[z]["accept"] = "idle"
  /\ \A t \in Threads : In(t, z, RecvPCs)' => In(t, z, RecvPCs)

(* Such a step keeps the chain of z.                                           *)
LEMMA RecvElsewhere ==
  ASSUME NEW z \in Slots, RecvChain(z), SameRecv(z)
  PROVE  RecvChain(z)'
BY DEF RecvChain, SameRecv

(* A thread that takes nothing keeps the chains of all sessions.               *)
LEMMA RecvBystander ==
  ASSUME NEW t \in Threads, OnlyMoves(t),
         pc'[t] \in RecvPCs => pc[t] \in RecvPCs /\ at'[t] = at[t],
         \A z \in Slots : /\ (ov[z]["recv"] = "idle")' <=> ov[z]["recv"] = "idle"
                          /\ (ov[z]["accept"] = "idle")' <=> ov[z]["accept"] = "idle"
  PROVE  \A z \in Slots : SameRecv(z)
BY DEF SameRecv, OnlyMoves, In

(* Issuing the receive hands the chain from the worker to the kernel.          *)
LEMMA RecvIssue ==
  ASSUME TypeOK, PcInv, \A s \in Slots : SlotInv(s) /\ RecvChain(s), NEW w \in Workers,
         WsaRecv(w)
  PROVE  \A z \in Slots : RecvChain(z)'
<1>1. w \in Threads /\ at[w] \in Slots BY DEF Threads, TypeOK, CtxType
<1>2. UNCHANGED at /\ pc[w] = "wsa_recv" /\ pc'[w] \in {"recheck", "dec"} /\ OnlyMoves(w)
  BY <1>1, GotoMoves DEF WsaRecv, WsaCall, ctxVars
<1>3. \A z \in Slots : \A u \in Threads : In(u, z, RecvPCs)' <=> In(u, z, RecvPCs) /\ u # w
  BY <1>2 DEF In, OnlyMoves, RecvPCs
<1>4. In(w, at[w], RecvPCs) BY <1>2 DEF In, RecvPCs
<1>5. ov[at[w]]["recv"] = "idle" /\ ov[at[w]]["accept"] = "idle"
  BY <1>1, <1>4 DEF RecvChain
<1>6. /\ \A z \in Slots \ {at[w]} : (ov[z]["recv"] = "idle")' <=> ov[z]["recv"] = "idle"
      /\ \A z \in Slots : (ov[z]["accept"] = "idle")' <=> ov[z]["accept"] = "idle"
  <2>1. \/ \E r : SetOv(at[w], "recv", r)
        \/ ov' = Cancelled(at[w], {"recv", "send"})
        \/ UNCHANGED ov
    BY DEF WsaRecv, WsaCall
  <2>2. ASSUME NEW r, SetOv(at[w], "recv", r)
        PROVE  /\ \A z \in Slots \ {at[w]} : ov'[z] = ov[z]
               /\ \A z \in Slots : ov'[z]["accept"] = ov[z]["accept"]
    BY <1>1, <2>2 DEF SetOv, TypeOK, OvType, Kinds, IoKinds
  <2>3. QED BY <1>1, <2>1, <2>2, CancelPlain DEF IoKinds
<1>7. \A z \in Slots \ {at[w]} : SameRecv(z) BY <1>3, <1>6 DEF SameRecv
<1>8. RecvChain(at[w])'
  <2>1. \A u \in Threads : ~In(u, at[w], RecvPCs)'
    BY <1>1, <1>2, <1>3, <1>4 DEF RecvChain
  <2>2. (ov[at[w]]["accept"] = "idle")' BY <1>1, <1>2, <1>5, <1>6
  <2>3. QED BY <2>1, <2>2 DEF RecvChain
<1>9. QED BY <1>2, <1>7, <1>8, RecvElsewhere

(* AcceptEx is issued on a slot whose former session is gone.                  *)
LEMMA RecvRegister ==
  ASSUME TypeOK, PcInv, \A s \in Slots : SlotInv(s) /\ RecvChain(s), NEW w \in Workers,
         RegisterAccept(w)
  PROVE  \A z \in Slots : RecvChain(z)'
<1>1. w \in Threads /\ at[w] \in Slots BY DEF Threads, TypeOK, CtxType
<1>2. UNCHANGED at /\ pc[w] = "reg_accept" /\ pc'[w] \in {"reg_cnt", "idle"} /\ OnlyMoves(w)
  BY <1>1, GotoMoves DEF RegisterAccept, ctxVars
<1>3. CASE UNCHANGED ov
  <2>1. \A z \in Slots : SameRecv(z) BY <1>1, <1>2, <1>3, RecvBystander DEF RecvPCs
  <2>2. QED BY <2>1, RecvElsewhere
<1>4. CASE SetOv(at[w], "accept", "pending")
  <2>1. /\ \A z \in Slots \ {at[w]} : ov'[z] = ov[z]
        /\ \A z \in Slots : ov'[z]["recv"] = ov[z]["recv"]
    BY <1>1, <1>4 DEF SetOv, TypeOK, OvType, Kinds, IoKinds
  <2>2. \A z \in Slots : \A u \in Threads : In(u, z, RecvPCs)' => In(u, z, RecvPCs)
    BY <1>2 DEF In, OnlyMoves, RecvPCs
  <2>3. \A z \in Slots \ {at[w]} : SameRecv(z) BY <2>1, <2>2 DEF SameRecv
  <2>4. In(w, at[w], RecyclePCs) BY <1>2 DEF In, RecyclePCs
  <2>5. /\ \A u \in Threads : ~In(u, at[w], RecvPCs)
        /\ ov[at[w]]["recv"] = "idle"
    <3>1. released[at[w]] BY <1>1, <2>4, RecycleMarked
    <3>2. QED BY <1>1, <3>1, QuietMarked DEF In
  <2>6. RecvChain(at[w])' BY <1>1, <1>2, <2>1, <2>2, <2>5 DEF RecvChain
  <2>7. QED BY <1>2, <2>3, <2>6, RecvElsewhere
<1>5. QED BY <1>3, <1>4 DEF RegisterAccept

(* The worker that takes an accept or a receive is alone with it.              *)
LEMMA RecvDequeue ==
  ASSUME TypeOK, \A s \in Slots : RecvChain(s), NEW w \in Workers, NEW s \in Slots, NEW k \in Kinds,
         Dequeue(w, s, k)
  PROVE  \A z \in Slots : RecvChain(z)'
<1>1. w \in Threads BY DEF Threads
<1>2. /\ OnlyMoves(w) /\ at'[w] = s /\ pc[w] = "idle"
      /\ pc'[w] \in RecvPCs => k \in {"accept", "recv"}
  BY <1>1 DEF Dequeue, OnlyMoves, Goto, TypeOK, PcType, CtxType, RecvPCs, Kinds, IoKinds
<1>3. /\ ov[s][k] # "idle" /\ ov'[s][k] = "idle"
      /\ \A z \in Slots, j \in Kinds : z # s \/ j # k => ov'[z][j] = ov[z][j]
  BY DEF Dequeue, SetOv, TypeOK, OvType
<1>4. CASE k \notin {"accept", "recv"}
  <2>1. \A z \in Slots : SameRecv(z)
    BY <1>1, <1>2, <1>3, <1>4, RecvBystander DEF Kinds, IoKinds
  <2>2. QED BY <2>1, RecvElsewhere
<1>5. CASE k \in {"accept", "recv"}
  <2>1. \A z \in Slots : ~In(w, z, RecvPCs) BY <1>2 DEF In, RecvPCs
  <2>2. ASSUME NEW z \in Slots \ {s} PROVE SameRecv(z)
    BY <1>2, <1>3, <2>1 DEF SameRecv, OnlyMoves, In, Kinds, IoKinds
  <2>3. \A z \in Slots \ {s} : RecvChain(z)' BY <2>2, RecvElsewhere
  <2>4. \A u \in Threads : ~In(u, s, RecvPCs) BY <1>3, <1>5 DEF RecvChain
  <2>5. \A u \in Threads : In(u, s, RecvPCs)' => u = w
    BY <1>2, <2>4 DEF In, OnlyMoves
  <2>6. ov'[s]["recv"] = "idle" /\ ov'[s]["accept"] = "idle"
    BY <1>3, <1>5 DEF RecvChain, Kinds, IoKinds
  <2>7. RecvChain(s)' BY <2>5, <2>6 DEF RecvChain
  <2>8. QED BY <2>3, <2>7
<1>6. QED BY <1>4, <1>5

(* Every step keeps the receive chains.                                        *)
LEMMA RecvStep ==
  ASSUME IInv, \A s \in Slots : RecvChain(s), [Next]_vars
  PROVE  \A z \in Slots : RecvChain(z)'
<1>1. TypeOK /\ PcInv /\ \A s \in Slots : SlotInv(s)
  <2>1. TypeOK BY DEF IInv
  <2>2. QED BY <2>1, BySlot
<1>2. ASSUME NEW t \in Threads, Plain(t) PROVE \A z \in Slots : RecvChain(z)'
  <2>1. \A z \in Slots : SameRecv(z)
    BY <1>2, RecvBystander DEF Plain, Marked, IoKinds
  <2>2. QED BY <1>1, <2>1, RecvElsewhere
<1>3. ASSUME NEW w \in Workers, NEW s \in Slots, NEW k \in Kinds, Dequeue(w, s, k)
      PROVE  \A z \in Slots : RecvChain(z)'
  BY <1>1, <1>3, RecvDequeue
<1>4. ASSUME NEW w \in Workers, MarkedWorkerStep(w) PROVE \A z \in Slots : RecvChain(z)'
  <2>1. w \in Threads /\ at[w] \in Slots BY <1>1 DEF Threads, TypeOK, CtxType
  <2>2. CASE WsaRecv(w) BY <1>1, <2>2, RecvIssue
  <2>3. CASE RegisterAccept(w) BY <1>1, <2>3, RecvRegister
  <2>4. CASE SendFlagAgain(w) \/ WsaSend(w)
    <3>1. /\ OnlyMoves(w) /\ pc'[w] \in {"dec", "recheck"}
      BY <1>1, <2>1, <2>4, GotoMoves DEF SendFlagAgain, KickSend, WsaSend, WsaCall, ctxVars
    <3>2. \/ UNCHANGED ov
          \/ \E r : SetOv(at[w], "send", r)
          \/ ov' = Cancelled(at[w], {"recv", "send"})
      BY <2>4 DEF SendFlagAgain, KickSend, WsaSend, WsaCall
    <3>3. ASSUME NEW r, SetOv(at[w], "send", r)
          PROVE  \A z \in Slots : ov'[z]["recv"] = ov[z]["recv"] /\ ov'[z]["accept"] = ov[z]["accept"]
      BY <1>1, <2>1, <3>3 DEF SetOv, TypeOK, OvType, Kinds, IoKinds
    <3>4. \A z \in Slots : /\ (ov[z]["recv"] = "idle")' <=> ov[z]["recv"] = "idle"
                           /\ (ov[z]["accept"] = "idle")' <=> ov[z]["accept"] = "idle"
      BY <1>1, <2>1, <3>2, <3>3, CancelPlain DEF IoKinds
    <3>5. \A z \in Slots : SameRecv(z) BY <2>1, <3>1, <3>4, RecvBystander DEF RecvPCs
    <3>6. QED BY <1>1, <3>5, RecvElsewhere
  <2>5. CASE \/ AcceptCheck(w) \/ AcceptOpen(w) \/ RegisterRecv(w) \/ CompleteRecv(w)
             \/ CompleteSend(w) \/ RegisterSend(w) \/ SendFlagClear(w) \/ SendSizeAgain(w)
             \/ SendLive(w) \/ ReleaseNotify(w) \/ ReleaseReset(w) \/ RegisterId(w)
             \/ RegisterCount(w)
    <3>1. OnlyMoves(w) /\ UNCHANGED <<at, ov>>
      BY <1>1, <2>1, <2>5, GotoMoves
      DEF AcceptCheck, AcceptOpen, RegisterRecv, CallDisconnect, CompleteRecv, CompleteSend,
          RegisterSend, SendFlagClear, SendSizeAgain, SendLive, ReleaseNotify, ReleaseReset,
          RegisterId, RegisterCount, ctxVars
    <3>2. pc'[w] \in RecvPCs => pc[w] \in RecvPCs
      <4>1. CASE AcceptCheck(w) \/ AcceptOpen(w) \/ RegisterRecv(w) \/ CompleteRecv(w)
        BY <4>1 DEF AcceptCheck, AcceptOpen, RegisterRecv, CallDisconnect, CompleteRecv, RecvPCs
      <4>2. CASE CompleteSend(w) \/ RegisterSend(w) \/ SendFlagClear(w) \/ SendSizeAgain(w)
        BY <1>1, <2>1, <4>2, GotoMoves
        DEF CompleteSend, RegisterSend, SendFlagClear, SendSizeAgain, RecvPCs
      <4>3. CASE SendLive(w) \/ ReleaseNotify(w) \/ ReleaseReset(w) \/ RegisterId(w)
                 \/ RegisterCount(w)
        BY <1>1, <2>1, <4>3, GotoMoves
        DEF SendLive, ReleaseNotify, ReleaseReset, RegisterId, RegisterCount, RecvPCs
      <4>4. QED BY <2>5, <4>1, <4>2, <4>3
    <3>3. \A z \in Slots : SameRecv(z) BY <2>1, <3>1, <3>2, RecvBystander
    <3>4. QED BY <1>1, <3>3, RecvElsewhere
  <2>6. CASE RegisterPop(w)
    <3>1. OnlyMoves(w) /\ pc'[w] \in {"idle", "reg_id"} /\ UNCHANGED ov
      BY <1>1, <2>1, <2>6 DEF RegisterPop, Goto, OnlyMoves, TypeOK, PcType, CtxType
    <3>2. \A z \in Slots : SameRecv(z) BY <2>1, <3>1, RecvBystander DEF RecvPCs
    <3>3. QED BY <1>1, <3>2, RecvElsewhere
  <2>7. QED BY <1>4, <2>2, <2>3, <2>4, <2>5, <2>6 DEF MarkedWorkerStep
<1>5. ASSUME NEW t \in Threads, LockId(t) \/ EnQueueMsg(t) \/ PostSend(t)
      PROVE  \A z \in Slots : RecvChain(z)'
  <2>1. at[t] \in Slots BY <1>1 DEF TypeOK, CtxType
  <2>2. OnlyMoves(t) /\ pc'[t] \in {"bad_id", "enq", "disc_live", "kick", "unlock"}
    BY <1>1, <1>5, GotoMoves DEF LockId, EnQueueMsg, PostSend, KickSend, ctxVars
  <2>3. \A z \in Slots : ov'[z]["recv"] = ov[z]["recv"] /\ ov'[z]["accept"] = ov[z]["accept"]
    <3>1. UNCHANGED ov \/ SetOv(at[t], "send", "queued")
      BY <1>5 DEF LockId, EnQueueMsg, PostSend, KickSend
    <3>2. QED BY <1>1, <2>1, <3>1 DEF SetOv, TypeOK, OvType, Kinds, IoKinds
  <2>4. \A z \in Slots : SameRecv(z) BY <2>2, <2>3, RecvBystander DEF RecvPCs
  <2>5. QED BY <1>1, <2>4, RecvElsewhere
<1>6. ASSUME NEW c \in Callers, StartCall(c) PROVE \A z \in Slots : RecvChain(z)'
  <2>1. c \in Threads BY DEF Threads
  <2>2. OnlyMoves(c) /\ pc'[c] = "lock" /\ UNCHANGED ov
    BY <1>1, <1>6, <2>1 DEF StartCall, Goto, OnlyMoves, TypeOK, PcType, CtxType
  <2>3. \A z \in Slots : SameRecv(z) BY <2>1, <2>2, RecvBystander DEF RecvPCs
  <2>4. QED BY <2>3, RecvElsewhere
<1>7. QED BY <1>1, <1>2, <1>3, <1>4, <1>5, <1>6, StepKinds

-----------------------------------------------------------------------------

IoInv == IInv /\ \A s \in Slots : SendInv(s) /\ RecvChain(s)

(* The constructor leaves one outstanding AcceptEx per session and no flag set. *)
LEMMA InitIoInv == Init => IoInv
<1> SUFFICES ASSUME Init PROVE IoInv OBVIOUS
<1>1. \A t \in Threads : pc[t] \in {"idle", "run"} BY DEF Init
<1>2. ASSUME NEW s \in Slots PROVE SendInv(s) /\ RecvChain(s)
  <2>1. ov[s]["accept"] = "pending" /\ ov[s]["send"] = "idle" /\ ov[s]["recv"] = "idle"
        /\ mSendQ[s] = <<>>
    BY DEF Init, Kinds, IoKinds
  <2>2. \A t \in Threads : ~In(t, s, SendPCs) /\ ~In(t, s, RecvPCs)
    BY <1>1 DEF In, SendPCs, RecvPCs
  <2>3. QED BY <2>1, <2>2 DEF SendInv, SendOwner, Woken, RecvChain
<1>3. QED BY <1>2, InitIInv DEF IoInv

(* The OVERLAPPEDs have one user at a time, in every reachable state.          *)
THEOREM IoInvHolds ==
  ASSUME ~EarlyAccept
  PROVE  Spec => []IoInv
<1>1. Init => IoInv BY InitIoInv
<1>2. IoInv /\ [Next]_vars => IoInv'
  BY NextIInv, SendStep, RecvStep DEF IoInv
<1>3. QED BY <1>1, <1>2, PTL DEF Spec

(* What SendsOrderly says follows from the owners of the flag and the chain.   *)
LEMMA SendsOrderlyInv == IoInv => SendsOrderly
<1> SUFFICES ASSUME IoInv PROVE SendsOrderly OBVIOUS
<1>1. TypeOK /\ PcInv /\ \A s \in Slots : SlotInv(s)
  <2>1. TypeOK BY DEF IoInv, IInv
  <2>2. QED BY <2>1, BySlot DEF IoInv
<1>2. ASSUME NEW s \in Slots, NEW t \in Threads, at[t] = s, pc[t] = "wsa_recv"
      PROVE  ov[s]["recv"] = "idle"
  BY <1>2 DEF IoInv, RecvChain, In, RecvPCs
<1>3. ASSUME NEW s \in Slots, NEW t \in Threads, at[t] = s, pc[t] = "wsa_send"
      PROVE  ov[s]["send"] = "idle"
  BY <1>3 DEF IoInv, SendInv, SendOwner, In, SendPCs
<1>4. ASSUME NEW s \in Slots, NEW t \in Threads, at[t] = s, pc[t] = "reg_accept"
      PROVE  \A k \in Kinds : ov[s][k] = "idle"
  <2>1. In(t, s, RecyclePCs) /\ Recycling(t, s)
    BY <1>4 DEF In, RecyclePCs, Recycling, ReleasePCs, RegPCs
  <2>2. /\ released[s]
        /\ \A u \in Threads : In(u, s, RecyclePCs) => u = t
    BY <1>1, <2>1, RecycleMarked
  <2>3. ov[s]["recv"] = "idle" /\ ov[s]["send"] = "idle" BY <1>1, <2>2, QuietMarked
  <2>4. ov[s]["release"] = "idle" BY <1>1, <2>1 DEF SlotInv, Owned
  <2>5. ~Registering(s)
    BY <1>1, <1>4, <2>2 DEF Registering, In, RecyclePCs, SlotInv, Registered
  <2>6. ov[s]["accept"] = "idle" BY <1>1, <2>2, <2>5 DEF SlotInv, Quiet
  <2>7. QED BY <2>3, <2>4, <2>6 DEF Kinds, IoKinds
<1>5. ASSUME NEW s \in Slots, NEW t \in Threads, ~mSendFlag[s]
      PROVE  /\ ov[s]["send"] = "idle"
             /\ \A u \in Workers : at[u] = s => pc[u] \notin {"sent", "rs_size", "rs_live", "wsa_send"}
  BY <1>5 DEF IoInv, SendInv, SendOwner, In, SendPCs, Threads
<1>6. OverlappedFree BY <1>2, <1>3, <1>4, <1>5 DEF OverlappedFree
<1>7. NoLostWakeup BY DEF IoInv, SendInv, Woken, NoLostWakeup, In, WakePCs
<1>8. QED BY <1>6, <1>7 DEF SendsOrderly

(* No OVERLAPPED is used twice at a time, no send is posted while another is   *)
(* handled, and no message is left in a send queue without a thread to send it: *)
(* the check, clear and check again of registerSend loses no wakeup.           *)
THEOREM SendsAreOrderly ==
  ASSUME ~EarlyAccept
  PROVE  Spec => []SendsOrderly
BY IoInvHolds, SendsOrderlyInv, PTL

-----------------------------------------------------------------------------
(* The life of a slot: when it is accepted, and which ids were in use.         *)

AcceptPCs == {"acc_check", "acc_open"}

(* The slot is given to AcceptEx, or its accept is being completed.            *)
Waits(s) ==
  \/ ov[s]["accept"] # "idle"
  \/ \E t \in Threads : In(t, s, AcceptPCs \cup {"reg_accept"})

Unopened(s) ==
  s \in freeIdx \/ Waits(s) \/ (\E t \in Threads : In(t, s, {"reg_id"})) => ~mAccepted[s]

Fresh(s) == Waits(s) => <<s, mSessionID[s]>> \notin opened

OpenedAccepted(s) == <<s, mSessionID[s]>> \in opened /\ ~released[s] => mAccepted[s]

Life(s) == Unopened(s) /\ Fresh(s) /\ OpenedAccepted(s)

(* Ids are given out in order.                                                 *)
SeqBound ==
  /\ \A s \in Slots : mSessionID[s] <= mSeqID
  /\ \A id \in opened : id[2] <= mSeqID

(* sendPost is called by content threads, with an id onAccept gave them.       *)
CallArgs ==
  \A t \in Threads : op[t] = "send" =>
    t \in Callers /\ arg[t] # ByRef /\ <<at[t], arg[t]>> \in opened

LifeInv == SeqBound /\ CallArgs /\ \A s \in Slots : Life(s)

SameLife(z) ==
  /\ mAccepted'[z] = mAccepted[z] /\ mSessionID'[z] = mSessionID[z]
  /\ \A n \in Nat : <<z, n>> \in opened' => <<z, n>> \in opened
  /\ released[z] => released'[z]
  /\ z \in freeIdx' => z \in freeIdx
  /\ Waits(z)' => Waits(z)
  /\ \A t \in Threads : In(t, z, {"reg_id"})' => In(t, z, {"reg_id"})

(* A slot the step is not about keeps its life.                                *)
LEMMA LifeElsewhere ==
  ASSUME TypeOK, NEW z \in Slots, Life(z), SameLife(z)
  PROVE  Life(z)'
<1>1. mSessionID[z] \in Nat BY DEF TypeOK, SessType
<1>2. Unopened(z)' BY DEF Life, Unopened, SameLife
<1>3. Fresh(z)' BY <1>1 DEF Life, Fresh, SameLife
<1>4. released \in [Slots -> BOOLEAN] BY DEF TypeOK, CntType
<1>5. OpenedAccepted(z)' BY <1>1, <1>4 DEF Life, OpenedAccepted, SameLife
<1>6. QED BY <1>2, <1>3, <1>5 DEF Life

(* The calls a step does not start keep their arguments.                       *)
SameCalls ==
  \A u \in Threads : op'[u] = "send" => op[u] = "send" /\ arg'[u] = arg[u] /\ at'[u] = at[u]

(* A step that gives out no id and accepts nobody keeps the lives of all slots. *)
LEMMA LifeBystander ==
  ASSUME TypeOK, LifeInv, NEW t \in Threads, OnlyMoves(t),
         pc'[t] \in AcceptPCs \cup {"reg_accept"} =>
           pc[t] \in AcceptPCs \cup {"reg_accept"} /\ at'[t] = at[t],
         pc'[t] = "reg_id" => pc[t] = "reg_id" /\ at'[t] = at[t],
         UNCHANGED <<mAccepted, mSessionID, opened, mSeqID>>,
         \A z \in Slots : z \in freeIdx' => z \in freeIdx,
         \A z \in Slots : released[z] => released'[z],
         \A z \in Slots : (ov[z]["accept"] = "idle")' <=> ov[z]["accept"] = "idle",
         SameCalls
  PROVE  LifeInv'
<1>1. \A z \in Slots : Waits(z)' => Waits(z) BY DEF Waits, OnlyMoves, In
<1>2. \A z \in Slots, u \in Threads : In(u, z, {"reg_id"})' => In(u, z, {"reg_id"})
  BY DEF OnlyMoves, In
<1>3. \A z \in Slots : SameLife(z) BY <1>1, <1>2 DEF SameLife
<1>4. \A z \in Slots : Life(z)' BY <1>3, LifeElsewhere DEF LifeInv
<1>5. SeqBound' BY DEF LifeInv, SeqBound
<1>6. CallArgs' BY DEF LifeInv, CallArgs, SameCalls
<1>7. QED BY <1>4, <1>5, <1>6 DEF LifeInv

(* Such a step is each of those that receive, send, lock and notify.           *)
LEMMA LifeOutside ==
  ASSUME TypeOK, LifeInv, NEW t \in Threads,
         \/ AcceptCheck(t) \/ RegisterRecv(t) \/ WsaRecv(t) \/ CompleteRecv(t)
         \/ CompleteSend(t) \/ RegisterSend(t) \/ SendFlagClear(t) \/ SendSizeAgain(t)
         \/ SendFlagAgain(t) \/ SendLive(t) \/ WsaSend(t) \/ ReleaseNotify(t)
         \/ LockId(t) \/ EnQueueMsg(t) \/ PostSend(t)
  PROVE  LifeInv'
<1>1. at[t] \in Slots BY DEF TypeOK, CtxType
<1>2. UNCHANGED <<at, released, mAccepted, mSessionID, opened, mSeqID, freeIdx>>
  BY DEF AcceptCheck, RegisterRecv, CallDisconnect, WsaRecv, WsaCall, CompleteRecv, CompleteSend,
         RegisterSend, SendFlagClear, SendSizeAgain, SendFlagAgain, KickSend, SendLive, WsaSend,
         ReleaseNotify, LockId, EnQueueMsg, PostSend, cntVars, sessVars, poolVars, ctxVars
<1>3. OnlyMoves(t)
  BY <1>2, GotoMoves
  DEF AcceptCheck, RegisterRecv, CallDisconnect, WsaRecv, WsaCall, CompleteRecv, CompleteSend,
      RegisterSend, SendFlagClear, SendSizeAgain, SendFlagAgain, KickSend, SendLive, WsaSend,
      ReleaseNotify, LockId, EnQueueMsg, PostSend
<1>4. pc'[t] \notin {"reg_accept", "reg_id", "acc_check"} /\ (pc'[t] = "acc_open" => pc[t] = "acc_check")
  <2>1. CASE AcceptCheck(t) \/ RegisterRecv(t) \/ WsaRecv(t) \/ CompleteRecv(t)
    BY <2>1, GotoMoves DEF AcceptCheck, RegisterRecv, CallDisconnect, WsaRecv, WsaCall, CompleteRecv
  <2>2. CASE CompleteSend(t) \/ RegisterSend(t) \/ SendFlagClear(t) \/ SendSizeAgain(t)
    BY <2>2, GotoMoves DEF CompleteSend, RegisterSend, SendFlagClear, SendSizeAgain
  <2>3. CASE SendFlagAgain(t) \/ SendLive(t) \/ WsaSend(t) \/ ReleaseNotify(t)
    BY <2>3, GotoMoves DEF SendFlagAgain, KickSend, SendLive, WsaSend, WsaCall, ReleaseNotify
  <2>4. CASE LockId(t) \/ EnQueueMsg(t) \/ PostSend(t)
    BY <2>4, GotoMoves DEF LockId, EnQueueMsg, PostSend, KickSend
  <2>5. QED BY <2>1, <2>2, <2>3, <2>4
<1>5. \A z \in Slots : (ov[z]["accept"] = "idle")' <=> ov[z]["accept"] = "idle"
  <2>1. \/ UNCHANGED ov
        \/ \E k \in {"recv", "send"} : \E r : SetOv(at[t], k, r)
        \/ ov' = Cancelled(at[t], {"recv", "send"})
    BY DEF AcceptCheck, RegisterRecv, CallDisconnect, WsaRecv, WsaCall, CompleteRecv, CompleteSend,
           RegisterSend, SendFlagClear, SendSizeAgain, SendFlagAgain, KickSend, SendLive, WsaSend,
           ReleaseNotify, LockId, EnQueueMsg, PostSend
  <2>2. ASSUME NEW k \in {"recv", "send"}, NEW r, SetOv(at[t], k, r)
        PROVE  \A z \in Slots : ov'[z]["accept"] = ov[z]["accept"]
    BY <1>1, <2>2 DEF SetOv, TypeOK, OvType, Kinds, IoKinds
  <2>3. QED BY <1>1, <2>1, <2>2, CancelPlain DEF IoKinds
<1>6. SameCalls
  <2>1. UNCHANGED <<op, arg>> \/ (CallDisconnect(t) /\ UNCHANGED at)
    BY <1>2
    DEF AcceptCheck, RegisterRecv, WsaRecv, WsaCall, CompleteRecv, CompleteSend,
        RegisterSend, SendFlagClear, SendSizeAgain, SendFlagAgain, KickSend, SendLive, WsaSend,
        ReleaseNotify, LockId, EnQueueMsg, PostSend, ctxVars
  <2>2. CASE CallDisconnect(t)
    BY <1>2, <2>2 DEF CallDisconnect, SameCalls, TypeOK, CtxType
  <2>3. CASE UNCHANGED <<op, arg>> BY <1>2, <2>3 DEF SameCalls
  <2>4. QED BY <2>1, <2>2, <2>3
<1>7. QED BY <1>2, <1>3, <1>4, <1>5, <1>6, LifeBystander DEF AcceptPCs

(* onAccept: the session of the slot is open from now on.                      *)
LEMMA LifeOpen ==
  ASSUME IoInv, LifeInv, NEW w \in Workers, AcceptOpen(w)
  PROVE  LifeInv'
<1>1. TypeOK /\ PcInv /\ \A s \in Slots : SlotInv(s)
  <2>1. TypeOK BY DEF IoInv, IInv
  <2>2. QED BY <2>1, BySlot DEF IoInv
<1>2. w \in Threads /\ at[w] \in Slots BY <1>1 DEF Threads, TypeOK, CtxType
<1>3. /\ pc[w] = "acc_open" /\ pc'[w] = "reg_recv" /\ OnlyMoves(w)
      /\ UNCHANGED <<at, arg, op, released, ov, freeIdx, mSessionID, mSeqID>>
      /\ mAccepted' = [mAccepted EXCEPT ![at[w]] = TRUE]
      /\ opened' = opened \cup {<<at[w], mSessionID[at[w]]>>}
  BY <1>1, <1>2, GotoMoves DEF AcceptOpen, ctxVars, cntVars, poolVars
<1>4. In(w, at[w], RecvPCs) /\ Handling(w, at[w])
  BY <1>3 DEF In, RecvPCs, Handling, HandlePCs
<1>5. ~released[at[w]] BY <1>1, <1>2, <1>4, Held
<1>6. at[w] \notin freeIdx BY <1>1, <1>2, <1>5 DEF SlotInv, Owned
<1>7. \A u \in Threads : ~In(u, at[w], RecyclePCs) BY <1>1, <1>2, <1>5, RecycleMarked
<1>8. /\ ov[at[w]]["accept"] = "idle"
      /\ \A u \in Threads : In(u, at[w], RecvPCs) => u = w
  BY <1>2, <1>4 DEF IoInv, RecvChain
<1>9. \A u \in Threads : /\ ~In(u, at[w], AcceptPCs \cup {"reg_accept"})'
                         /\ ~In(u, at[w], {"reg_id"})'
  BY <1>2, <1>3, <1>7, <1>8 DEF In, OnlyMoves, AcceptPCs, RecvPCs, RecyclePCs
<1>10. ~Waits(at[w])' BY <1>3, <1>8, <1>9 DEF Waits
<1>11. mAccepted'[at[w]] = TRUE BY <1>1, <1>2, <1>3 DEF TypeOK, SessType
<1>12. Life(at[w])'
  BY <1>3, <1>6, <1>9, <1>10, <1>11 DEF Life, Unopened, Fresh, OpenedAccepted
<1>13. ASSUME NEW z \in Slots \ {at[w]} PROVE Life(z)'
  <2>1. mAccepted'[z] = mAccepted[z] BY <1>1, <1>3 DEF TypeOK, SessType
  <2>2. \A n \in Nat : <<z, n>> \in opened' => <<z, n>> \in opened BY <1>3
  <2>3. Waits(z)' => Waits(z) BY <1>3 DEF Waits, In, OnlyMoves, AcceptPCs
  <2>4. \A u \in Threads : In(u, z, {"reg_id"})' => In(u, z, {"reg_id"})
    BY <1>3 DEF In, OnlyMoves
  <2>5. SameLife(z) BY <1>3, <2>1, <2>2, <2>3, <2>4 DEF SameLife
  <2>6. QED BY <1>1, <2>5, LifeElsewhere DEF LifeInv
<1>14. SeqBound' BY <1>2, <1>3 DEF LifeInv, SeqBound
<1>15. CallArgs' BY <1>3 DEF LifeInv, CallArgs
<1>16. QED BY <1>3, <1>12, <1>13, <1>14, <1>15 DEF LifeInv

(* A completion that is dequeued: an accept goes on waiting with its worker.   *)
LEMMA LifeDequeue ==
  ASSUME TypeOK, LifeInv, NEW w \in Workers, NEW s \in Slots, NEW k \in Kinds, Dequeue(w, s, k)
  PROVE  LifeInv'
<1>1. w \in Threads BY DEF Threads
<1>2. /\ OnlyMoves(w) /\ at'[w] = s /\ pc[w] = "idle"
      /\ pc'[w] \notin {"acc_open", "reg_accept", "reg_id"}
      /\ pc'[w] = "acc_check" => k = "accept"
      /\ UNCHANGED <<released, freeIdx, mSessionID, mSeqID, mAccepted, opened, arg, op>>
  BY <1>1
  DEF Dequeue, OnlyMoves, Goto, TypeOK, PcType, CtxType, Kinds, IoKinds, cntVars, poolVars, sessVars
<1>3. /\ ov[s][k] # "idle" /\ ov'[s][k] = "idle"
      /\ \A z \in Slots, j \in Kinds : z # s \/ j # k => ov'[z][j] = ov[z][j]
  BY DEF Dequeue, SetOv, TypeOK, OvType
<1>4. ASSUME NEW z \in Slots PROVE Waits(z)' => Waits(z)
  <2>1. (ov[z]["accept"] # "idle")' => ov[z]["accept"] # "idle"
    BY <1>3 DEF Kinds, IoKinds
  <2>2. ASSUME NEW u \in Threads, In(u, z, AcceptPCs \cup {"reg_accept"})' PROVE Waits(z)
    <3>1. CASE u = w
      <4>1. pc'[w] = "acc_check" /\ z = s BY <1>2, <2>2, <3>1 DEF In, AcceptPCs
      <4>2. QED BY <1>2, <1>3, <4>1 DEF Waits
    <3>2. CASE u # w
      <4>1. In(u, z, AcceptPCs \cup {"reg_accept"}) BY <1>2, <2>2, <3>2 DEF In, OnlyMoves
      <4>2. QED BY <4>1 DEF Waits
    <3>3. QED BY <3>1, <3>2
  <2>3. QED BY <2>1, <2>2 DEF Waits
<1>5. \A z \in Slots, u \in Threads : In(u, z, {"reg_id"})' => In(u, z, {"reg_id"})
  BY <1>2 DEF In, OnlyMoves
<1>6. \A z \in Slots : SameLife(z) BY <1>2, <1>4, <1>5 DEF SameLife
<1>7. \A z \in Slots : Life(z)' BY <1>6, LifeElsewhere DEF LifeInv
<1>8. SeqBound' BY <1>2 DEF LifeInv, SeqBound
<1>9. CallArgs'
  <2>1. op[w] # "send" BY <1>1, ThreadsAssumption DEF LifeInv, CallArgs
  <2>2. QED BY <1>2, <2>1 DEF LifeInv, CallArgs, OnlyMoves
<1>10. QED BY <1>7, <1>8, <1>9 DEF LifeInv

(* A content thread calls with an id it was given.                             *)
LEMMA LifeCall ==
  ASSUME TypeOK, LifeInv, NEW c \in Callers, StartCall(c)
  PROVE  LifeInv'
<1>1. c \in Threads BY DEF Threads
<1>2. /\ OnlyMoves(c) /\ pc'[c] = "lock"
      /\ UNCHANGED <<released, freeIdx, mSessionID, mSeqID, mAccepted, opened, ov>>
  BY <1>1 DEF StartCall, OnlyMoves, Goto, TypeOK, PcType, CtxType, cntVars, poolVars, sessVars
<1>3. \A z \in Slots : Waits(z)' => Waits(z) BY <1>2 DEF Waits, In, OnlyMoves, AcceptPCs
<1>4. \A z \in Slots, u \in Threads : In(u, z, {"reg_id"})' => In(u, z, {"reg_id"})
  BY <1>2 DEF In, OnlyMoves
<1>5. \A z \in Slots : SameLife(z) BY <1>2, <1>3, <1>4 DEF SameLife
<1>6. \A z \in Slots : Life(z)' BY <1>5, LifeElsewhere DEF LifeInv
<1>7. SeqBound' BY <1>2 DEF LifeInv, SeqBound
<1>8. CallArgs'
  <2>1. PICK id \in opened : at' = [at EXCEPT ![c] = id[1]] /\ arg' = [arg EXCEPT ![c] = id[2]]
    BY DEF StartCall
  <2>2. id = <<id[1], id[2]>> /\ id[2] # ByRef BY DEF TypeOK, SessType, ByRef
  <2>3. <<at'[c], arg'[c]>> \in opened /\ arg'[c] # ByRef
    BY <1>1, <2>1, <2>2 DEF TypeOK, CtxType
  <2>4. ASSUME NEW u \in Threads \ {c}
        PROVE  at'[u] = at[u] /\ arg'[u] = arg[u] /\ op'[u] = op[u]
    BY <2>1 DEF StartCall, TypeOK, CtxType
  <2>5. QED BY <1>2, <2>3, <2>4 DEF LifeInv, CallArgs
<1>9. QED BY <1>6, <1>7, <1>8 DEF LifeInv

(* The four steps of registerAcceptEx, and the end of completeRelease.         *)
LEMMA LifeRecycle ==
  ASSUME IoInv, LifeInv, NEW w \in Workers,
         \/ ReleaseReset(w) \/ RegisterPop(w) \/ RegisterId(w) \/ RegisterAccept(w)
         \/ RegisterCount(w)
  PROVE  LifeInv'
<1>1. TypeOK /\ PcInv /\ \A s \in Slots : SlotInv(s)
  <2>1. TypeOK BY DEF IoInv, IInv
  <2>2. QED BY <2>1, BySlot DEF IoInv
<1>2. w \in Threads /\ at[w] \in Slots BY <1>1 DEF Threads, TypeOK, CtxType
<1>3. op[w] # "send" BY <1>2, ThreadsAssumption DEF LifeInv, CallArgs
<1>4. UNCHANGED <<opened, op, arg>>
  BY DEF ReleaseReset, RegisterPop, RegisterId, RegisterAccept, RegisterCount, sessVars, ctxVars
<1>5. OnlyMoves(w)
  BY <1>1, <1>2
  DEF ReleaseReset, RegisterPop, RegisterId, RegisterAccept, RegisterCount, Goto, OnlyMoves,
      ctxVars, TypeOK, PcType, CtxType
<1>6. CallArgs' BY <1>3, <1>4, <1>5 DEF LifeInv, CallArgs, OnlyMoves
<1>7. \A id \in opened : id[2] \in Nat BY <1>1 DEF TypeOK, SessType
<1>8. CASE ReleaseReset(w)
  <2>1. /\ pc[w] = "rel_reset" /\ pc'[w] = "reg_pop"
        /\ mAccepted' = [mAccepted EXCEPT ![at[w]] = FALSE]
        /\ freeIdx' = freeIdx \cup {at[w]}
        /\ UNCHANGED <<at, ov, released, mSessionID, mSeqID>>
    BY <1>1, <1>2, <1>8, GotoMoves DEF ReleaseReset, ctxVars, cntVars
  <2>2. released[at[w]] BY <1>1, <1>2, <2>1, RecycleMarked DEF In, RecyclePCs
  <2>3. ~mAccepted'[at[w]] /\ \A z \in Slots \ {at[w]} : mAccepted'[z] = mAccepted[z]
    BY <1>1, <1>2, <2>1 DEF TypeOK, SessType
  <2>4. \A z \in Slots : Waits(z)' => Waits(z)
    BY <1>5, <2>1 DEF Waits, In, OnlyMoves, AcceptPCs
  <2>5. \A z \in Slots, u \in Threads : In(u, z, {"reg_id"})' => In(u, z, {"reg_id"})
    BY <1>5, <2>1 DEF In, OnlyMoves
  <2>6. \A z \in Slots \ {at[w]} : SameLife(z) BY <1>4, <2>1, <2>3, <2>4, <2>5 DEF SameLife
  <2>7. \A z \in Slots \ {at[w]} : Life(z)' BY <1>1, <2>6, LifeElsewhere DEF LifeInv
  <2>8. Fresh(at[w])' BY <1>2, <1>4, <2>1, <2>4 DEF LifeInv, Life, Fresh
  <2>9. Life(at[w])' BY <2>1, <2>2, <2>3, <2>8 DEF Life, Unopened, OpenedAccepted
  <2>10. SeqBound' BY <1>4, <2>1 DEF LifeInv, SeqBound
  <2>11. QED BY <1>6, <2>1, <2>7, <2>9, <2>10 DEF LifeInv
<1>9. CASE RegisterPop(w)
  <2>1. /\ pc[w] = "reg_pop" /\ UNCHANGED <<ov, released, mSessionID, mSeqID, mAccepted>>
        /\ freeIdx' \subseteq freeIdx /\ pc'[w] \in {"idle", "reg_id"}
        /\ pc'[w] = "reg_id" => at'[w] \in freeIdx
    BY <1>1, <1>2, <1>9 DEF RegisterPop, Goto, sessVars, cntVars, TypeOK, PcType, CtxType
  <2>2. \A z \in Slots : Waits(z)' => Waits(z)
    BY <1>5, <2>1 DEF Waits, In, OnlyMoves, AcceptPCs
  <2>3. ASSUME NEW z \in Slots, NEW u \in Threads, In(u, z, {"reg_id"})'
        PROVE  In(u, z, {"reg_id"}) \/ z \in freeIdx
    BY <1>5, <2>1, <2>3 DEF In, OnlyMoves
  <2>4. \A z \in Slots : Unopened(z)'
    BY <2>1, <2>2, <2>3 DEF LifeInv, Life, Unopened
  <2>5. \A z \in Slots : Fresh(z)' /\ OpenedAccepted(z)'
    BY <1>4, <2>1, <2>2 DEF LifeInv, Life, Fresh, OpenedAccepted
  <2>6. SeqBound' BY <1>4, <2>1 DEF LifeInv, SeqBound
  <2>7. QED BY <1>6, <2>4, <2>5, <2>6 DEF LifeInv, Life
<1>10. CASE RegisterId(w)
  <2>1. /\ pc[w] = "reg_id" /\ pc'[w] = "reg_accept"
        /\ UNCHANGED <<at, ov, released, freeIdx, mAccepted>>
        /\ mSessionID' = [mSessionID EXCEPT ![at[w]] = mSeqID + 1] /\ mSeqID' = mSeqID + 1
    BY <1>1, <1>2, <1>10, GotoMoves DEF RegisterId, ctxVars, cntVars
  <2>2. mSeqID \in Nat /\ \A z \in Slots : mSessionID[z] \in Nat
    BY <1>1 DEF TypeOK, SessType, PoolType
  <2>3. mSessionID'[at[w]] = mSeqID + 1 /\ \A z \in Slots \ {at[w]} : mSessionID'[z] = mSessionID[z]
    BY <1>1, <1>2, <2>1 DEF TypeOK, SessType
  <2>4. <<at[w], mSeqID + 1>> \notin opened BY <2>2 DEF LifeInv, SeqBound
  <2>5. released[at[w]] BY <1>1, <1>2, <2>1, RecycleMarked DEF In, RecyclePCs
  <2>6. ~mAccepted[at[w]] BY <1>2, <2>1 DEF LifeInv, Life, Unopened, In
  <2>7. \A z \in Slots \ {at[w]} : Waits(z)' => Waits(z)
    BY <1>5, <2>1 DEF Waits, In, OnlyMoves
  <2>8. \A z \in Slots, u \in Threads : In(u, z, {"reg_id"})' => In(u, z, {"reg_id"})
    BY <1>5, <2>1 DEF In, OnlyMoves
  <2>9. \A z \in Slots \ {at[w]} : SameLife(z)
    BY <1>4, <2>1, <2>3, <2>7, <2>8 DEF SameLife
  <2>10. \A z \in Slots \ {at[w]} : Life(z)' BY <1>1, <2>9, LifeElsewhere DEF LifeInv
  <2>11. Life(at[w])'
    BY <1>4, <2>1, <2>3, <2>4, <2>6 DEF Life, Unopened, Fresh, OpenedAccepted
  <2>12. SeqBound'
    <3>1. \A s \in Slots : mSessionID'[s] <= mSeqID + 1
      BY <1>2, <2>2, <2>3 DEF LifeInv, SeqBound
    <3>2. \A id \in opened : id[2] <= mSeqID + 1
      BY <1>7, <2>2 DEF LifeInv, SeqBound
    <3>3. QED BY <1>4, <2>1, <3>1, <3>2 DEF SeqBound
  <2>13. QED BY <1>6, <2>1, <2>10, <2>11, <2>12 DEF LifeInv
<1>11. CASE RegisterAccept(w)
  <2>1. /\ pc[w] = "reg_accept" /\ pc'[w] \in {"reg_cnt", "idle"}
        /\ UNCHANGED <<at, released, mAccepted, mSessionID, mSeqID>>
        /\ \/ SetOv(at[w], "accept", "pending") /\ UNCHANGED freeIdx
           \/ freeIdx' = freeIdx \cup {at[w]} /\ UNCHANGED ov
    BY <1>1, <1>2, <1>11, GotoMoves DEF RegisterAccept, ctxVars, cntVars, sessVars
  <2>2. Waits(at[w]) BY <1>2, <2>1 DEF Waits, In
  <2>3. \A z \in Slots \ {at[w]} : ov'[z] = ov[z]
    BY <1>1, <1>2, <2>1 DEF SetOv, TypeOK, OvType
  <2>4. \A z \in Slots \ {at[w]} : Waits(z)' => Waits(z)
    BY <1>5, <2>1, <2>3 DEF Waits, In, OnlyMoves, AcceptPCs
  <2>5. \A z \in Slots, u \in Threads : In(u, z, {"reg_id"})' => In(u, z, {"reg_id"})
    BY <1>5, <2>1 DEF In, OnlyMoves
  <2>6. \A z \in Slots \ {at[w]} : SameLife(z) BY <1>4, <2>1, <2>4, <2>5 DEF SameLife
  <2>7. \A z \in Slots \ {at[w]} : Life(z)' BY <1>1, <2>6, LifeElsewhere DEF LifeInv
  <2>8. ~mAccepted[at[w]] /\ <<at[w], mSessionID[at[w]]>> \notin opened
    BY <1>2, <2>2 DEF LifeInv, Life, Unopened, Fresh
  <2>9. Life(at[w])' BY <1>4, <2>1, <2>8 DEF Life, Unopened, Fresh, OpenedAccepted
  <2>10. SeqBound' BY <1>4, <2>1 DEF LifeInv, SeqBound
  <2>11. QED BY <1>6, <2>1, <2>7, <2>9, <2>10 DEF LifeInv
<1>12. CASE RegisterCount(w)
  <2>1. /\ pc[w] = "reg_cnt" /\ pc'[w] = "reg_slot"
        /\ UNCHANGED <<at, ov, freeIdx, mAccepted, mSessionID, mSeqID>>
        /\ released' = [released EXCEPT ![at[w]] = FALSE]
    BY <1>1, <1>2, <1>12, GotoMoves DEF RegisterCount, ctxVars, sessVars, poolVars
  <2>2. ov[at[w]]["accept"] # "idle" BY <1>1, <1>2, <2>1 DEF SlotInv, Registered
  <2>3. Waits(at[w]) BY <2>2 DEF Waits
  <2>4. \A z \in Slots : Waits(z)' => Waits(z)
    BY <1>5, <2>1 DEF Waits, In, OnlyMoves, AcceptPCs
  <2>5. \A z \in Slots, u \in Threads : In(u, z, {"reg_id"})' => In(u, z, {"reg_id"})
    BY <1>5, <2>1 DEF In, OnlyMoves
  <2>6. \A z \in Slots \ {at[w]} : released'[z] = released[z]
    BY <1>1, <2>1 DEF TypeOK, CntType
  <2>7. \A z \in Slots \ {at[w]} : SameLife(z) BY <1>4, <2>1, <2>4, <2>5, <2>6 DEF SameLife
  <2>8. \A z \in Slots \ {at[w]} : Life(z)' BY <1>1, <2>7, LifeElsewhere DEF LifeInv
  <2>9. <<at[w], mSessionID[at[w]]>> \notin opened /\ ~mAccepted[at[w]]
    BY <1>2, <2>3 DEF LifeInv, Life, Unopened, Fresh
  <2>10. Life(at[w])' BY <1>4, <2>1, <2>9 DEF Life, Unopened, Fresh, OpenedAccepted
  <2>11. SeqBound' BY <1>4, <2>1 DEF LifeInv, SeqBound
  <2>12. QED BY <1>6, <2>1, <2>8, <2>10, <2>11 DEF LifeInv
<1>13. QED BY <1>8, <1>9, <1>10, <1>11, <1>12

(* Every step keeps the lives of the slots.                                    *)
LEMMA LifeStep ==
  ASSUME IoInv, LifeInv, [Next]_vars
  PROVE  LifeInv'
<1>1. TypeOK /\ PcInv /\ \A s \in Slots : SlotInv(s)
  <2>1. TypeOK BY DEF IoInv, IInv
  <2>2. QED BY <2>1, BySlot DEF IoInv
<1>2. ASSUME NEW t \in Threads, Plain(t) PROVE LifeInv'
  BY <1>1, <1>2, LifeBystander
  DEF Plain, Marked, AcceptPCs, RecvPCs, SameCalls, IoKinds
<1>3. ASSUME NEW w \in Workers, MarkedWorkerStep(w) PROVE LifeInv'
  <2>1. w \in Threads BY DEF Threads
  <2>2. CASE AcceptOpen(w) BY <2>2, LifeOpen
  <2>3. CASE \/ ReleaseReset(w) \/ RegisterPop(w) \/ RegisterId(w) \/ RegisterAccept(w)
             \/ RegisterCount(w)
    BY <2>3, LifeRecycle
  <2>4. CASE \/ AcceptCheck(w) \/ RegisterRecv(w) \/ WsaRecv(w) \/ CompleteRecv(w)
             \/ CompleteSend(w) \/ RegisterSend(w) \/ SendFlagClear(w) \/ SendSizeAgain(w)
             \/ SendFlagAgain(w) \/ SendLive(w) \/ WsaSend(w) \/ ReleaseNotify(w)
    BY <1>1, <2>1, <2>4, LifeOutside
  <2>5. QED BY <1>3, <2>2, <2>3, <2>4 DEF MarkedWorkerStep
<1>4. ASSUME NEW t \in Threads, LockId(t) \/ EnQueueMsg(t) \/ PostSend(t) PROVE LifeInv'
  BY <1>1, <1>4, LifeOutside
<1>5. QED BY <1>1, <1>2, <1>3, <1>4, LifeDequeue, LifeCall, StepKinds

-----------------------------------------------------------------------------
(* The messages of a session belong to it. *)

(* There is something to send only for a session that was accepted.            *)
SendAccepted(s) ==
  /\ mSendFlag[s] \/ mSendQ[s] # <<>> \/ mSendMsgs[s] # <<>> => mAccepted[s]
  /\ \A t \in Threads : In(t, s, WakePCs \cup {"enq"}) => mAccepted[s]

(* Who appends to the queue has found the session id to be its own.            *)
EnqId(s) == \A t \in Threads : In(t, s, {"enq"}) => arg[t] = mSessionID[s]

(* The messages that wait and those that are being sent carry the session id.  *)
MsgIds(s) ==
  /\ \A i \in 1 .. Len(mSendQ[s]) : mSendQ[s][i] = mSessionID[s]
  /\ \A i \in 1 .. Len(mSendMsgs[s]) : mSendMsgs[s][i] = mSessionID[s]

MsgInv(s) == SendAccepted(s) /\ EnqId(s) /\ MsgIds(s)

SameMsg(z) ==
  /\ mAccepted[z] => mAccepted'[z]
  /\ mSessionID'[z] = mSessionID[z] /\ mSendFlag'[z] = mSendFlag[z]
  /\ mSendQ'[z] = mSendQ[z] /\ mSendMsgs'[z] = mSendMsgs[z]
  /\ \A t \in Threads : In(t, z, WakePCs \cup {"enq"})' => In(t, z, WakePCs \cup {"enq"})
  /\ \A t \in Threads : In(t, z, {"enq"})' => In(t, z, {"enq"}) /\ arg'[t] = arg[t]

(* A session the step is not about keeps its messages.                         *)
LEMMA MsgElsewhere ==
  ASSUME NEW z \in Slots, MsgInv(z), SameMsg(z)
  PROVE  MsgInv(z)'
<1>1. SendAccepted(z)' BY DEF MsgInv, SendAccepted, SameMsg
<1>2. EnqId(z)' BY DEF MsgInv, EnqId, SameMsg
<1>3. MsgIds(z)' BY DEF MsgInv, MsgIds, SameMsg
<1>4. QED BY <1>1, <1>2, <1>3 DEF MsgInv

(* A thread that neither comes to the queue nor changes it.                    *)
LEMMA MsgBystander ==
  ASSUME TypeOK, NEW t \in Threads, OnlyMoves(t),
         pc'[t] \in WakePCs => pc[t] \in WakePCs /\ at'[t] = at[t],
         pc'[t] # "enq", \A u \in Threads \ {t} : arg'[u] = arg[u],
         UNCHANGED <<mSessionID, mSendFlag, mSendQ, mSendMsgs>>,
         \A z \in Slots : mAccepted[z] => mAccepted'[z]
  PROVE  \A z \in Slots : SameMsg(z)
BY DEF SameMsg, OnlyMoves, In

(* Thread t works on its slot only.                                            *)
LEMMA MsgOthers ==
  ASSUME TypeOK, NEW t \in Threads, OnlyMoves(t), UNCHANGED <<at, arg>>, NEW z \in Slots \ {at[t]},
         mAccepted'[z] = mAccepted[z], mSessionID'[z] = mSessionID[z],
         mSendFlag'[z] = mSendFlag[z], mSendQ'[z] = mSendQ[z], mSendMsgs'[z] = mSendMsgs[z]
  PROVE  SameMsg(z)
BY DEF SameMsg, OnlyMoves, In

(* The worker steps that are not about messages.                               *)
LEMMA MsgOutside ==
  ASSUME TypeOK, NEW w \in Workers,
         \/ AcceptCheck(w) \/ AcceptOpen(w) \/ RegisterRecv(w) \/ WsaRecv(w) \/ CompleteRecv(w)
         \/ SendSizeAgain(w) \/ SendLive(w) \/ WsaSend(w) \/ ReleaseNotify(w)
         \/ RegisterPop(w) \/ RegisterAccept(w) \/ RegisterCount(w)
  PROVE  \A z \in Slots : SameMsg(z)
<1>1. w \in Threads /\ at[w] \in Slots BY DEF Threads, TypeOK, CtxType
<1>2. UNCHANGED <<mSessionID, mSendFlag, mSendQ, mSendMsgs>>
  BY DEF AcceptCheck, AcceptOpen, RegisterRecv, CallDisconnect, WsaRecv, WsaCall, CompleteRecv,
         SendSizeAgain, SendLive, WsaSend, ReleaseNotify, RegisterPop, RegisterAccept,
         RegisterCount, sessVars, sendVars
<1>3. \A z \in Slots : mAccepted[z] => mAccepted'[z]
  <2>1. UNCHANGED mAccepted \/ AcceptOpen(w)
    BY DEF AcceptCheck, RegisterRecv, CallDisconnect, WsaRecv, WsaCall, CompleteRecv,
           SendSizeAgain, SendLive, WsaSend, ReleaseNotify, RegisterPop, RegisterAccept,
           RegisterCount, sessVars
  <2>2. QED BY <1>1, <2>1 DEF AcceptOpen, TypeOK, SessType
<1>4. CASE RegisterPop(w)
  <2>1. OnlyMoves(w) /\ pc'[w] \in {"idle", "reg_id"} /\ UNCHANGED arg
    BY <1>1, <1>4 DEF RegisterPop, Goto, OnlyMoves, TypeOK, PcType, CtxType
  <2>2. QED BY <1>1, <1>2, <1>3, <2>1, MsgBystander DEF WakePCs
<1>5. CASE SendSizeAgain(w)
  <2>1. /\ OnlyMoves(w) /\ pc[w] = "rs_again" /\ pc'[w] \in {"dec", "rs_set"}
        /\ UNCHANGED <<at, arg>>
    BY <1>1, <1>5, GotoMoves DEF SendSizeAgain, ctxVars
  <2>2. QED BY <1>1, <1>2, <1>3, <2>1, MsgBystander DEF WakePCs
<1>6. CASE AcceptCheck(w) \/ AcceptOpen(w) \/ RegisterRecv(w) \/ WsaRecv(w) \/ CompleteRecv(w)
  <2>1. OnlyMoves(w) /\ pc'[w] \notin WakePCs \cup {"enq"}
    BY <1>1, <1>6, GotoMoves
    DEF AcceptCheck, AcceptOpen, RegisterRecv, CallDisconnect, WsaRecv, WsaCall, CompleteRecv,
        ctxVars, WakePCs
  <2>2. \A u \in Threads \ {w} : arg'[u] = arg[u]
    BY <1>1, <1>6
    DEF AcceptCheck, AcceptOpen, RegisterRecv, CallDisconnect, WsaRecv, WsaCall, CompleteRecv,
        ctxVars, TypeOK, CtxType
  <2>3. QED BY <1>1, <1>2, <1>3, <2>1, <2>2, MsgBystander
<1>7. CASE SendLive(w) \/ WsaSend(w) \/ ReleaseNotify(w) \/ RegisterAccept(w) \/ RegisterCount(w)
  <2>1. OnlyMoves(w) /\ pc'[w] \notin WakePCs \cup {"enq"} /\ UNCHANGED arg
    BY <1>1, <1>7, GotoMoves
    DEF SendLive, WsaSend, WsaCall, ReleaseNotify, RegisterAccept, RegisterCount, ctxVars, WakePCs
  <2>2. QED BY <1>1, <1>2, <1>3, <2>1, MsgBystander
<1>8. QED BY <1>4, <1>5, <1>6, <1>7

(* The messages of a batch, and those left, are messages of the queue.         *)
LEMMA BatchIds ==
  ASSUME NEW q \in Seq(Ids), NEW n \in Nat, n <= Len(q), NEW v,
         \A i \in 1 .. Len(q) : q[i] = v
  PROVE  /\ \A i \in 1 .. Len(SubSeq(q, 1, n)) : SubSeq(q, 1, n)[i] = v
         /\ \A i \in 1 .. Len(SubSeq(q, n + 1, Len(q))) : SubSeq(q, n + 1, Len(q))[i] = v
         /\ SubSeq(q, n + 1, Len(q)) # <<>> => q # <<>>
         /\ SubSeq(q, 1, n) # <<>> => q # <<>>
<1>1. Len(q) \in Nat OBVIOUS
<1>2. Len(SubSeq(q, 1, n)) = n /\ \A i \in 1 .. n : SubSeq(q, 1, n)[i] = q[i]
  BY <1>1
<1>3. /\ Len(SubSeq(q, n + 1, Len(q))) = Len(q) - n
      /\ \A i \in 1 .. Len(q) - n : SubSeq(q, n + 1, Len(q))[i] = q[n + i]
  BY <1>1
<1>4. q # <<>> \/ n = 0 BY <1>1
<1>5. QED BY <1>1, <1>2, <1>3, <1>4

(* What was found at the flag and the queue before a step of thread t.         *)
LEMMA MsgAt ==
  ASSUME TypeOK, \A s \in Slots : SendInv(s) /\ MsgInv(s), NEW t \in Threads,
         In(t, at[t], SendPCs \cup WakePCs \cup {"enq"})
  PROVE  mAccepted[at[t]]
<1>1. at[t] \in Slots BY DEF TypeOK, CtxType
<1>2. CASE In(t, at[t], SendPCs) BY <1>1, <1>2 DEF SendInv, SendOwner, MsgInv, SendAccepted
<1>3. CASE In(t, at[t], WakePCs \cup {"enq"}) BY <1>1, <1>3 DEF MsgInv, SendAccepted
<1>4. QED BY <1>2, <1>3 DEF In

(* The flag that is set or given back is that of an accepted session.          *)
LEMMA MsgFlag ==
  ASSUME TypeOK, \A s \in Slots : SendInv(s) /\ MsgInv(s), NEW t \in Threads,
         SendFlagClear(t) \/ KickSend(t, "rs_set", "dec") \/ KickSend(t, "kick", "unlock")
  PROVE  \A z \in Slots : MsgInv(z)'
<1>1. at[t] \in Slots BY DEF TypeOK, CtxType
<1>2. /\ OnlyMoves(t) /\ UNCHANGED <<at, arg, mAccepted, mSessionID, mSendQ, mSendMsgs>>
      /\ pc[t] \in {"rs_clear", "rs_set", "kick"} /\ pc'[t] \in {"rs_again", "dec", "unlock"}
  BY GotoMoves DEF SendFlagClear, KickSend, sessVars, ctxVars
<1>3. \A z \in Slots \ {at[t]} : mSendFlag'[z] = mSendFlag[z]
  BY <1>1 DEF SendFlagClear, KickSend, TypeOK, SendType
<1>4. \A z \in Slots \ {at[t]} : MsgInv(z)' BY <1>2, <1>3, MsgOthers, MsgElsewhere
<1>5. mAccepted[at[t]] BY <1>2, MsgAt DEF In, SendPCs, WakePCs
<1>6. SendAccepted(at[t])' BY <1>2, <1>5 DEF SendAccepted
<1>7. EnqId(at[t])' BY <1>1, <1>2 DEF MsgInv, EnqId, In, OnlyMoves
<1>8. MsgIds(at[t])' BY <1>1, <1>2 DEF MsgInv, MsgIds
<1>9. QED BY <1>2, <1>4, <1>6, <1>7, <1>8 DEF MsgInv

(* completeSend empties the batch, registerSend fills it from the queue.       *)
LEMMA MsgBatch ==
  ASSUME TypeOK, \A s \in Slots : SendInv(s) /\ MsgInv(s), NEW w \in Threads,
         CompleteSend(w) \/ RegisterSend(w)
  PROVE  \A z \in Slots : MsgInv(z)'
<1>1. at[w] \in Slots BY DEF TypeOK, CtxType
<1>2. /\ OnlyMoves(w) /\ UNCHANGED <<at, arg, mAccepted, mSessionID, mSendFlag>>
      /\ pc[w] \in {"sent", "rs_size"} /\ pc'[w] \in {"rs_size", "rs_clear", "rs_live"}
  BY GotoMoves DEF CompleteSend, RegisterSend, sessVars, ctxVars
<1>3. \A z \in Slots \ {at[w]} : mSendQ'[z] = mSendQ[z] /\ mSendMsgs'[z] = mSendMsgs[z]
  BY <1>1 DEF CompleteSend, RegisterSend, TypeOK, SendType
<1>4. \A z \in Slots \ {at[w]} : MsgInv(z)' BY <1>2, <1>3, MsgOthers, MsgElsewhere
<1>5. mAccepted[at[w]] BY <1>2, MsgAt DEF In, SendPCs
<1>6. SendAccepted(at[w])' BY <1>2, <1>5 DEF SendAccepted
<1>7. EnqId(at[w])' BY <1>1, <1>2 DEF MsgInv, EnqId, In, OnlyMoves
<1>8. MsgIds(at[w])'
  <2>1. CASE CompleteSend(w)
    <3>1. mSendQ'[at[w]] = mSendQ[at[w]] /\ mSendMsgs'[at[w]] = <<>>
      BY <1>1, <2>1 DEF CompleteSend, TypeOK, SendType
    <3>2. QED BY <1>1, <1>2, <3>1 DEF MsgInv, MsgIds
  <2>2. CASE RegisterSend(w)
    <3> DEFINE q == mSendQ[at[w]]
               n == IF Len(q) < SEND_MESSAGE_MAXCOUNT THEN Len(q) ELSE SEND_MESSAGE_MAXCOUNT
    <3>1. q \in Seq(Ids) BY <1>1 DEF TypeOK, SendType
    <3>2. n \in Nat /\ n <= Len(q) BY <3>1, ConstantsAssumption
    <3>3. \A i \in 1 .. Len(q) : q[i] = mSessionID[at[w]] BY <1>1 DEF MsgInv, MsgIds
    <3>4. \/ UNCHANGED <<mSendQ, mSendMsgs>>
          \/ /\ mSendMsgs'[at[w]] = SubSeq(q, 1, n)
             /\ mSendQ'[at[w]] = SubSeq(q, n + 1, Len(q))
      <4> HIDE DEF n
      <4>1. \/ UNCHANGED <<mSendQ, mSendMsgs>>
            \/ /\ mSendMsgs' = [mSendMsgs EXCEPT ![at[w]] = SubSeq(q, 1, n)]
               /\ mSendQ' = [mSendQ EXCEPT ![at[w]] = SubSeq(q, n + 1, Len(q))]
        BY <2>2 DEF RegisterSend, n
      <4>2. QED BY <1>1, <4>1 DEF TypeOK, SendType
    <3> HIDE DEF q, n
    <3>5. CASE UNCHANGED <<mSendQ, mSendMsgs>> BY <1>1, <1>2, <3>5 DEF MsgInv, MsgIds
    <3>6. CASE /\ mSendMsgs'[at[w]] = SubSeq(q, 1, n)
               /\ mSendQ'[at[w]] = SubSeq(q, n + 1, Len(q))
      <4>1. /\ \A i \in 1 .. Len(SubSeq(q, 1, n)) : SubSeq(q, 1, n)[i] = mSessionID[at[w]]
            /\ \A i \in 1 .. Len(SubSeq(q, n + 1, Len(q))) :
                 SubSeq(q, n + 1, Len(q))[i] = mSessionID[at[w]]
        BY <3>1, <3>2, <3>3, BatchIds
      <4>2. QED BY <1>2, <3>6, <4>1 DEF MsgIds
    <3>7. QED BY <3>4, <3>5, <3>6
  <2>3. QED BY <2>1, <2>2
<1>9. QED BY <1>2, <1>4, <1>6, <1>7, <1>8 DEF MsgInv

(* sendPost appends the message of a session whose id it has just compared.    *)
LEMMA MsgLock ==
  ASSUME TypeOK, PcInv, LifeInv, \A s \in Slots : SlotInv(s) /\ SendInv(s) /\ MsgInv(s),
         NEW t \in Threads, LockId(t) \/ EnQueueMsg(t)
  PROVE  \A z \in Slots : MsgInv(z)'
<1>1. at[t] \in Slots BY DEF TypeOK, CtxType
<1>2. /\ OnlyMoves(t) /\ UNCHANGED <<at, arg, mAccepted, mSessionID, mSendFlag, mSendMsgs>>
  BY GotoMoves DEF LockId, EnQueueMsg, sessVars, ctxVars, sendVars
<1>3. \A z \in Slots \ {at[t]} : mSendQ'[z] = mSendQ[z]
  BY <1>1 DEF LockId, EnQueueMsg, sendVars, TypeOK, SendType
<1>4. \A z \in Slots \ {at[t]} : MsgInv(z)' BY <1>2, <1>3, MsgOthers, MsgElsewhere
<1>5. CASE EnQueueMsg(t)
  <2>1. /\ pc[t] = "enq" /\ pc'[t] = "kick"
        /\ mSendQ'[at[t]] = Append(mSendQ[at[t]], arg[t])
    BY <1>1, <1>5, GotoMoves DEF EnQueueMsg, TypeOK, SendType
  <2>2. In(t, at[t], {"enq"}) /\ arg[t] = mSessionID[at[t]]
    BY <1>1, <2>1 DEF In, MsgInv, EnqId
  <2>3. mAccepted[at[t]] BY <2>2, MsgAt DEF In
  <2>4. SendAccepted(at[t])' BY <1>2, <2>3 DEF SendAccepted
  <2>5. EnqId(at[t])' BY <1>1, <1>2, <2>1 DEF MsgInv, EnqId, In, OnlyMoves
  <2>6. MsgIds(at[t])'
    <3>1. mSendQ[at[t]] \in Seq(Ids) /\ arg[t] \in Ids BY <1>1 DEF TypeOK, SendType, CtxType
    <3>2. \A i \in 1 .. Len(mSendQ[at[t]]) : mSendQ[at[t]][i] = mSessionID[at[t]]
      BY <1>1 DEF MsgInv, MsgIds
    <3>3. \A i \in 1 .. Len(Append(mSendQ[at[t]], arg[t])) :
            Append(mSendQ[at[t]], arg[t])[i] = mSessionID[at[t]]
      BY <2>2, <3>1, <3>2
    <3>4. \A i \in 1 .. Len(mSendMsgs[at[t]]) : mSendMsgs[at[t]][i] = mSessionID[at[t]]
      BY <1>1 DEF MsgInv, MsgIds
    <3>5. QED BY <1>2, <2>1, <3>3, <3>4 DEF MsgIds
  <2>7. QED BY <1>2, <1>4, <2>4, <2>5, <2>6 DEF MsgInv
<1>6. CASE LockId(t)
  <2>1. /\ pc[t] = "lock_id" /\ UNCHANGED mSendQ
        /\ pc'[t] \in {"bad_id", "enq", "disc_live"}
        /\ pc'[t] = "enq" => op[t] = "send" /\ (arg[t] = ByRef \/ arg[t] = mSessionID[at[t]])
    BY <1>6, GotoMoves DEF LockId, sendVars
  <2>2. pc'[t] = "enq" => arg[t] = mSessionID[at[t]] /\ <<at[t], mSessionID[at[t]]>> \in opened
    BY <2>1 DEF LifeInv, CallArgs
  <2>3. ~released[at[t]]
    <3>1. Locking(t, at[t]) BY <2>1 DEF Locking, LockPCs
    <3>2. QED BY <1>1, <3>1, Held
  <2>4. pc'[t] = "enq" => mAccepted[at[t]]
    BY <1>1, <2>2, <2>3 DEF LifeInv, Life, OpenedAccepted
  <2>5. \A u \in Threads \ {t} : In(u, at[t], WakePCs \cup {"enq"})' => mAccepted[at[t]]
    BY <1>1, <1>2 DEF MsgInv, SendAccepted, In, OnlyMoves
  <2>6. In(t, at[t], WakePCs \cup {"enq"})' => mAccepted[at[t]]
    BY <2>1, <2>4 DEF In, WakePCs
  <2>7. SendAccepted(at[t])'
    BY <1>1, <1>2, <2>1, <2>5, <2>6 DEF MsgInv, SendAccepted
  <2>8. EnqId(at[t])' BY <1>1, <1>2, <2>2 DEF MsgInv, EnqId, In, OnlyMoves
  <2>9. MsgIds(at[t])' BY <1>1, <1>2, <2>1 DEF MsgInv, MsgIds
  <2>10. QED BY <1>2, <1>4, <2>7, <2>8, <2>9 DEF MsgInv
<1>7. QED BY <1>5, <1>6

(* ReleaseSession drops what is left, and only then the id changes.            *)
LEMMA MsgRecycle ==
  ASSUME TypeOK, PcInv, LifeInv, \A s \in Slots : SlotInv(s) /\ MsgInv(s),
         NEW w \in Workers, ReleaseReset(w) \/ RegisterId(w)
  PROVE  \A z \in Slots : MsgInv(z)'
<1>1. w \in Threads /\ at[w] \in Slots BY DEF Threads, TypeOK, CtxType
<1>2. /\ OnlyMoves(w) /\ UNCHANGED <<at, arg>> /\ pc[w] \in {"rel_reset", "reg_id"}
      /\ pc'[w] \in {"reg_pop", "reg_accept"}
  BY <1>1, GotoMoves DEF ReleaseReset, RegisterId, ctxVars
<1>3. \A z \in Slots \ {at[w]} :
        /\ mAccepted'[z] = mAccepted[z] /\ mSessionID'[z] = mSessionID[z]
        /\ mSendFlag'[z] = mSendFlag[z] /\ mSendQ'[z] = mSendQ[z] /\ mSendMsgs'[z] = mSendMsgs[z]
  BY <1>1 DEF ReleaseReset, RegisterId, TypeOK, SessType, SendType, sendVars
<1>4. \A z \in Slots \ {at[w]} : MsgInv(z)' BY <1>1, <1>2, <1>3, MsgOthers, MsgElsewhere
<1>5. released[at[w]] BY <1>1, <1>2, RecycleMarked DEF In, RecyclePCs
<1>6. \A u \in Threads : ~In(u, at[w], WakePCs \cup {"enq"})'
  BY <1>1, <1>2, <1>5, QuietMarked DEF In, OnlyMoves, WakePCs
<1>7. ~mSendFlag'[at[w]] /\ mSendQ'[at[w]] = <<>> /\ mSendMsgs'[at[w]] = <<>>
  <2>1. CASE ReleaseReset(w) BY <1>1, <2>1 DEF ReleaseReset, TypeOK, SendType
  <2>2. CASE RegisterId(w)
    <3>1. pc[w] = "reg_id" /\ UNCHANGED <<mSendFlag, mSendQ, mSendMsgs>>
      BY <2>2 DEF RegisterId, sendVars
    <3>2. ~mAccepted[at[w]] BY <1>1, <3>1 DEF LifeInv, Life, Unopened, In
    <3>3. QED BY <1>1, <3>1, <3>2 DEF MsgInv, SendAccepted
  <2>3. QED BY <2>1, <2>2
<1>8. SendAccepted(at[w])' BY <1>2, <1>6, <1>7 DEF SendAccepted
<1>9. EnqId(at[w])' BY <1>2, <1>6 DEF EnqId, In
<1>10. MsgIds(at[w])' BY <1>2, <1>7 DEF MsgIds
<1>11. QED BY <1>2, <1>4, <1>8, <1>9, <1>10 DEF MsgInv

(* Every step keeps the messages of each session its own.                      *)
LEMMA MsgStep ==
  ASSUME IoInv, LifeInv, \A s \in Slots : MsgInv(s), [Next]_vars
  PROVE  \A z \in Slots : MsgInv(z)'
<1>1. TypeOK /\ PcInv /\ \A s \in Slots : SlotInv(s) /\ SendInv(s)
  <2>1. TypeOK BY DEF IoInv, IInv
  <2>2. QED BY <2>1, BySlot DEF IoInv
<1>2. ASSUME NEW t \in Threads, Plain(t) PROVE \A z \in Slots : MsgInv(z)'
  <2>1. \A z \in Slots : SameMsg(z)
    <3>1. UNCHANGED <<mAccepted, mSessionID, mSendFlag, mSendQ, mSendMsgs>>
      BY <1>2 DEF Plain, sendVars
    <3>2. \A u \in Threads, z \in Slots :
            In(u, z, WakePCs \cup {"enq"})' =>
              In(u, z, WakePCs \cup {"enq"}) /\ arg'[u] = arg[u] /\ pc'[u] = pc[u]
      BY <1>2 DEF Plain, OnlyMoves, In, Marked
    <3>3. QED BY <3>1, <3>2 DEF SameMsg, In
  <2>2. QED BY <2>1, MsgElsewhere
<1>3. ASSUME NEW w \in Workers, NEW s \in Slots, NEW k \in Kinds, Dequeue(w, s, k)
      PROVE  \A z \in Slots : MsgInv(z)'
  <2>1. w \in Threads BY DEF Threads
  <2>2. /\ OnlyMoves(w) /\ pc'[w] \notin WakePCs \cup {"enq"}
        /\ UNCHANGED <<mAccepted, mSessionID, mSendFlag, mSendQ, mSendMsgs, arg>>
    BY <1>1, <1>3, <2>1
    DEF Dequeue, OnlyMoves, Goto, TypeOK, PcType, CtxType, Kinds, IoKinds, WakePCs, sessVars, sendVars
  <2>3. QED BY <1>1, <2>1, <2>2, MsgBystander, MsgElsewhere
<1>4. ASSUME NEW w \in Workers, MarkedWorkerStep(w) PROVE \A z \in Slots : MsgInv(z)'
  <2>1. w \in Threads BY DEF Threads
  <2>2. CASE SendFlagAgain(w) \/ SendFlagClear(w)
    BY <1>1, <2>1, <2>2, MsgFlag DEF SendFlagAgain
  <2>3. CASE CompleteSend(w) \/ RegisterSend(w) BY <1>1, <2>1, <2>3, MsgBatch
  <2>4. CASE ReleaseReset(w) \/ RegisterId(w) BY <1>1, <2>4, MsgRecycle
  <2>5. CASE \/ AcceptCheck(w) \/ AcceptOpen(w) \/ RegisterRecv(w) \/ WsaRecv(w) \/ CompleteRecv(w)
             \/ SendSizeAgain(w) \/ SendLive(w) \/ WsaSend(w) \/ ReleaseNotify(w)
             \/ RegisterPop(w) \/ RegisterAccept(w) \/ RegisterCount(w)
    BY <1>1, <2>5, MsgOutside, MsgElsewhere
  <2>6. QED BY <1>4, <2>2, <2>3, <2>4, <2>5 DEF MarkedWorkerStep
<1>5. ASSUME NEW t \in Threads, LockId(t) \/ EnQueueMsg(t) \/ PostSend(t)
      PROVE  \A z \in Slots : MsgInv(z)'
  BY <1>1, <1>5, MsgLock, MsgFlag DEF PostSend
<1>6. ASSUME NEW c \in Callers, StartCall(c) PROVE \A z \in Slots : MsgInv(z)'
  <2>1. c \in Threads BY DEF Threads
  <2>2. /\ OnlyMoves(c) /\ pc'[c] = "lock" /\ \A u \in Threads \ {c} : arg'[u] = arg[u]
        /\ UNCHANGED <<mAccepted, mSessionID, mSendFlag, mSendQ, mSendMsgs>>
    BY <1>1, <1>6, <2>1
    DEF StartCall, OnlyMoves, Goto, TypeOK, PcType, CtxType, sessVars, sendVars
  <2>3. QED BY <1>1, <2>1, <2>2, MsgBystander, MsgElsewhere DEF WakePCs
<1>7. QED BY <1>1, <1>2, <1>3, <1>4, <1>5, <1>6, StepKinds

-----------------------------------------------------------------------------
(* The ids onAccept and onRelease are called with. *)

(* The only id of a slot that is open is the current one, from onAccept until  *)
(* the worker that runs completeRelease has called onRelease.                  *)
Unclosed(s) ==
  /\ \A id \in opened \ closed : id[1] = s => id[2] = mSessionID[s] /\ mAccepted[s]
  /\ mAccepted[s] /\ (\A t \in Threads : ~In(t, s, {"rel_reset"})) =>
       <<s, mSessionID[s]>> \in opened \ closed
  /\ (\E t \in Threads : In(t, s, {"rel_reset"})) =>
       \A id \in opened \ closed : id[1] # s

UnclosedInv == closed \subseteq opened /\ \A s \in Slots : Unclosed(s)

(* The four steps that open, close, reset and rename a session.                *)
SessionStep(w) == AcceptOpen(w) \/ ReleaseNotify(w) \/ ReleaseReset(w) \/ RegisterId(w)

(* Every other step leaves the sessions and their ids alone.                   *)
LEMMA SessionFrame ==
  ASSUME TypeOK, PcInv, [Next]_vars
  PROVE  \/ \E w \in Workers : SessionStep(w)
         \/ /\ UNCHANGED <<mAccepted, mSessionID, opened, closed>>
            /\ \A t \in Threads, z \in Slots : In(t, z, {"rel_reset"})' <=> In(t, z, {"rel_reset"})
<1> DEFINE Same == /\ UNCHANGED <<mAccepted, mSessionID, opened, closed>>
                   /\ \A t \in Threads, z \in Slots :
                        In(t, z, {"rel_reset"})' <=> In(t, z, {"rel_reset"})
<1>1. ASSUME NEW t \in Threads, OnlyMoves(t), pc[t] # "rel_reset", pc'[t] # "rel_reset",
             UNCHANGED <<mAccepted, mSessionID, opened, closed>>
      PROVE  Same
  BY <1>1 DEF OnlyMoves, In
<1> HIDE DEF Same
<1>2. ASSUME NEW t \in Threads, Plain(t) PROVE Same
  <2>1. CASE pc[t] \notin Marked /\ pc'[t] \notin Marked
    BY <1>1, <1>2, <2>1 DEF Plain, Marked
  <2>2. CASE pc'[t] = pc[t] /\ at'[t] = at[t]
    BY <1>2, <2>2 DEF Plain, OnlyMoves, In, Same
  <2>3. QED BY <1>2, <2>1, <2>2 DEF Plain
<1>3. ASSUME NEW w \in Workers, NEW s \in Slots, NEW k \in Kinds, Dequeue(w, s, k) PROVE Same
  <2>1. w \in Threads BY DEF Threads
  <2>2. OnlyMoves(w) /\ pc[w] # "rel_reset" /\ pc'[w] # "rel_reset"
    BY <1>3, <2>1 DEF Dequeue, OnlyMoves, Goto, TypeOK, PcType, CtxType, Kinds, IoKinds
  <2>3. QED BY <1>1, <1>3, <2>1, <2>2 DEF Dequeue, sessVars
<1>4. ASSUME NEW w \in Workers, MarkedWorkerStep(w), ~SessionStep(w) PROVE Same
  <2>1. w \in Threads /\ at[w] \in Slots BY DEF Threads, TypeOK, CtxType
  <2>2. CASE AcceptCheck(w) \/ RegisterRecv(w) \/ WsaRecv(w) \/ CompleteRecv(w)
    BY <1>1, <2>1, <2>2, GotoMoves
    DEF AcceptCheck, RegisterRecv, CallDisconnect, WsaRecv, WsaCall, CompleteRecv, ctxVars, sessVars
  <2>3. CASE CompleteSend(w) \/ RegisterSend(w) \/ SendFlagClear(w) \/ SendSizeAgain(w)
    BY <1>1, <2>1, <2>3, GotoMoves
    DEF CompleteSend, RegisterSend, SendFlagClear, SendSizeAgain, ctxVars, sessVars
  <2>4. CASE SendFlagAgain(w) \/ SendLive(w) \/ WsaSend(w)
    BY <1>1, <2>1, <2>4, GotoMoves
    DEF SendFlagAgain, KickSend, SendLive, WsaSend, WsaCall, ctxVars, sessVars
  <2>5. CASE RegisterAccept(w) \/ RegisterCount(w)
    BY <1>1, <2>1, <2>5, GotoMoves DEF RegisterAccept, RegisterCount, ctxVars, sessVars
  <2>6. CASE RegisterPop(w)
    <3>1. OnlyMoves(w) /\ pc[w] = "reg_pop" /\ pc'[w] \in {"idle", "reg_id"}
      BY <2>1, <2>6 DEF RegisterPop, Goto, OnlyMoves, TypeOK, PcType, CtxType
    <3>2. QED BY <1>1, <2>1, <2>6, <3>1 DEF RegisterPop, sessVars
  <2>7. QED
    BY <1>4, <2>2, <2>3, <2>4, <2>5, <2>6 DEF MarkedWorkerStep, SessionStep
<1>5. ASSUME NEW t \in Threads, LockId(t) \/ EnQueueMsg(t) \/ PostSend(t) PROVE Same
  BY <1>1, <1>5, GotoMoves DEF LockId, EnQueueMsg, PostSend, KickSend, ctxVars, sessVars
<1>6. ASSUME NEW c \in Callers, StartCall(c) PROVE Same
  <2>1. c \in Threads BY DEF Threads
  <2>2. OnlyMoves(c) /\ pc[c] = "idle" /\ pc'[c] = "lock"
    BY <1>6, <2>1 DEF StartCall, OnlyMoves, Goto, TypeOK, PcType, CtxType
  <2>3. QED BY <1>1, <1>6, <2>1, <2>2 DEF StartCall, sessVars
<1>7. QED BY <1>2, <1>3, <1>4, <1>5, <1>6, StepKinds DEF Same

(* One step opens an id that is new, or closes the one that is open.           *)
ContractStep ==
  \/ UNCHANGED <<opened, closed>>
  \/ \E id : /\ id \notin opened /\ \A other \in opened \ closed : other[1] # id[1]
             /\ opened' = opened \cup {id} /\ UNCHANGED closed
  \/ \E id \in opened \ closed : closed' = closed \cup {id} /\ UNCHANGED opened

(* Every step keeps Unclosed and is a step of the contract.                    *)
LEMMA UnclosedStep ==
  ASSUME IoInv, LifeInv, UnclosedInv, [Next]_vars
  PROVE  UnclosedInv' /\ ContractStep
<1>1. TypeOK /\ PcInv /\ \A s \in Slots : SlotInv(s)
  <2>1. TypeOK BY DEF IoInv, IInv
  <2>2. QED BY <2>1, BySlot DEF IoInv
<1>2. CASE /\ UNCHANGED <<mAccepted, mSessionID, opened, closed>>
           /\ \A t \in Threads, z \in Slots : In(t, z, {"rel_reset"})' <=> In(t, z, {"rel_reset"})
  <2>1. \A z \in Slots : Unclosed(z)' BY <1>2 DEF UnclosedInv, Unclosed
  <2>2. QED BY <1>2, <2>1 DEF UnclosedInv, ContractStep
<1>3. ASSUME NEW w \in Workers, SessionStep(w) PROVE UnclosedInv' /\ ContractStep
  <2>1. w \in Threads /\ at[w] \in Slots BY <1>1 DEF Threads, TypeOK, CtxType
  <2>2. UNCHANGED at /\ OnlyMoves(w)
    BY <1>1, <1>3, <2>1, GotoMoves
    DEF SessionStep, AcceptOpen, ReleaseNotify, ReleaseReset, RegisterId, ctxVars
  <2>3. \A z \in Slots \ {at[w]} : mAccepted'[z] = mAccepted[z] /\ mSessionID'[z] = mSessionID[z]
    BY <1>1, <1>3, <2>1
    DEF SessionStep, AcceptOpen, ReleaseNotify, ReleaseReset, RegisterId, TypeOK, SessType
  <2>4. \A z \in Slots \ {at[w]}, u \in Threads :
          In(u, z, {"rel_reset"})' <=> In(u, z, {"rel_reset"})
    BY <2>2 DEF OnlyMoves, In
  <2>5. ASSUME NEW z \in Slots \ {at[w]},
               \A id : id[1] = z => (id \in (opened \ closed)' <=> id \in opened \ closed)
        PROVE  Unclosed(z)'
    <3>1. \A id \in (opened \ closed)' : id[1] = z => id \in opened \ closed BY <2>5
    <3>2. <<z, mSessionID[z]>>[1] = z OBVIOUS
    <3>3. <<z, mSessionID[z]>> \in (opened \ closed)' <=> <<z, mSessionID[z]>> \in opened \ closed
      BY <2>5, <3>2
    <3>4. QED BY <2>3, <2>4, <3>1, <3>3 DEF UnclosedInv, Unclosed
  <2>6. CASE AcceptOpen(w)
    <3> DEFINE new == <<at[w], mSessionID[at[w]]>>
    <3>1. /\ pc[w] = "acc_open" /\ pc'[w] = "reg_recv" /\ UNCHANGED <<mSessionID, closed>>
          /\ opened' = opened \cup {new} /\ mAccepted'[at[w]] = TRUE
      BY <1>1, <2>1, <2>6, GotoMoves DEF AcceptOpen, TypeOK, SessType
    <3>2. Waits(at[w]) BY <2>1, <3>1 DEF Waits, In, AcceptPCs
    <3>3. new \notin opened /\ ~mAccepted[at[w]]
      BY <2>1, <3>2 DEF LifeInv, Life, Unopened, Fresh
    <3>4. \A id \in opened \ closed : id[1] # at[w]
      BY <2>1, <3>3 DEF UnclosedInv, Unclosed
    <3>5. new \notin closed BY <3>3 DEF UnclosedInv
    <3>6. (opened \ closed)' = (opened \ closed) \cup {new} BY <3>1, <3>5
    <3>7. \A z \in Slots \ {at[w]} : Unclosed(z)' BY <2>5, <3>6
    <3>8. Unclosed(at[w])'
      <4>1. \A u \in Threads : ~In(u, at[w], {"rel_reset"})'
        <5>1. Handling(w, at[w]) BY <3>1 DEF Handling, HandlePCs
        <5>2. ~released[at[w]] BY <1>1, <2>1, <5>1, Held
        <5>3. \A u \in Threads : ~In(u, at[w], RecyclePCs) BY <1>1, <2>1, <5>2, RecycleMarked
        <5>4. QED BY <2>2, <3>1, <5>3 DEF In, OnlyMoves, RecyclePCs
      <4>2. QED BY <2>2, <3>1, <3>4, <3>6, <4>1 DEF Unclosed
    <3>9. closed' \subseteq opened' BY <3>1 DEF UnclosedInv
    <3>10. ContractStep BY <3>1, <3>3, <3>4 DEF ContractStep
    <3>11. QED BY <2>2, <3>7, <3>8, <3>9, <3>10 DEF UnclosedInv
  <2>7. CASE ReleaseNotify(w)
    <3> DEFINE old == <<at[w], mSessionID[at[w]]>>
    <3>1. /\ pc[w] = "rel_notify" /\ pc'[w] = "rel_reset"
          /\ UNCHANGED <<mSessionID, mAccepted, opened>>
          /\ closed' = IF mAccepted[at[w]] THEN closed \cup {old} ELSE closed
      BY <1>1, <2>1, <2>7, GotoMoves DEF ReleaseNotify
    <3>2. In(w, at[w], RecyclePCs) BY <3>1 DEF In, RecyclePCs
    <3>3. \A u \in Threads : ~In(u, at[w], {"rel_reset"})
      BY <1>1, <2>1, <3>1, <3>2, RecycleMarked DEF In, RecyclePCs
    <3>4. mAccepted[at[w]] => old \in opened \ closed
      BY <2>1, <3>3 DEF UnclosedInv, Unclosed
    <3>5. \A id \in opened \ closed : id[1] = at[w] => id[2] = mSessionID[at[w]] /\ mAccepted[at[w]]
      BY <2>1 DEF UnclosedInv, Unclosed
    <3>6. \A id \in opened \ closed : id = <<id[1], id[2]>> BY <1>1 DEF TypeOK, SessType
    <3>7. \A id \in (opened \ closed)' : id[1] # at[w] BY <3>1, <3>5, <3>6
    <3>8. In(w, at[w], {"rel_reset"})' BY <2>2, <3>1 DEF In
    <3>9. Unclosed(at[w])' BY <2>1, <2>2, <3>7, <3>8 DEF Unclosed
    <3>10. \A z \in Slots \ {at[w]} : Unclosed(z)' BY <2>5, <3>1
    <3>11. closed' \subseteq opened' BY <3>1, <3>4 DEF UnclosedInv
    <3>12. ContractStep BY <3>1, <3>4 DEF ContractStep
    <3>13. QED BY <2>2, <3>9, <3>10, <3>11, <3>12 DEF UnclosedInv
  <2>8. CASE ReleaseReset(w) \/ RegisterId(w)
    <3>1. /\ UNCHANGED <<opened, closed>> /\ pc[w] \in {"rel_reset", "reg_id"}
          /\ pc'[w] \in {"reg_pop", "reg_accept"}
      BY <1>1, <2>1, <2>8, GotoMoves DEF ReleaseReset, RegisterId
    <3>2. ~mAccepted'[at[w]] /\ \A id \in opened \ closed : id[1] # at[w]
      <4>1. CASE ReleaseReset(w)
        <5>1. In(w, at[w], {"rel_reset"}) BY <4>1 DEF ReleaseReset, In
        <5>2. QED
          BY <1>1, <2>1, <4>1, <5>1 DEF ReleaseReset, UnclosedInv, Unclosed, TypeOK, SessType
      <4>2. CASE RegisterId(w)
        <5>1. ~mAccepted[at[w]] /\ UNCHANGED mAccepted
          BY <2>1, <4>2 DEF RegisterId, LifeInv, Life, Unopened, In
        <5>2. QED BY <2>1, <5>1 DEF UnclosedInv, Unclosed
      <4>3. QED BY <2>8, <4>1, <4>2
    <3>3. \A z \in Slots \ {at[w]} : Unclosed(z)' BY <2>5, <3>1
    <3>4. Unclosed(at[w])' BY <2>2, <3>1, <3>2 DEF Unclosed
    <3>5. QED BY <2>2, <3>1, <3>3, <3>4 DEF UnclosedInv, ContractStep
  <2>9. QED BY <1>3, <2>6, <2>7, <2>8 DEF SessionStep
<1>4. QED BY <1>1, <1>2, <1>3, SessionFrame

-----------------------------------------------------------------------------

SessionInv ==
  IoInv /\ LifeInv /\ UnclosedInv /\ \A s \in Slots : MsgInv(s)

(* The constructor gives the sessions the ids 0, 1, ... and opens none.        *)
LEMMA InitSessionInv == Init => SessionInv
<1> SUFFICES ASSUME Init PROVE SessionInv OBVIOUS
<1>1. \A t \in Threads : pc[t] \in {"idle", "run"} /\ op[t] = "disc" BY DEF Init
<1>2. LifeInv
  <2>1. SeqBound BY ConstantsAssumption DEF Init, SeqBound, Slots
  <2>2. CallArgs BY <1>1 DEF CallArgs
  <2>3. opened = {} /\ \A s \in Slots : ~mAccepted[s] BY DEF Init
  <2>4. \A s \in Slots : Life(s) BY <2>3 DEF Life, Unopened, Fresh, OpenedAccepted
  <2>5. QED BY <2>1, <2>2, <2>4 DEF LifeInv
<1>3. UnclosedInv BY <1>1 DEF Init, UnclosedInv, Unclosed, In
<1>4. ASSUME NEW s \in Slots PROVE MsgInv(s)
  <2>1. \A t \in Threads : ~In(t, s, WakePCs \cup {"enq"}) BY <1>1 DEF In, WakePCs
  <2>2. QED BY <2>1 DEF Init, MsgInv, SendAccepted, EnqId, MsgIds, In
<1>5. QED BY <1>2, <1>3, <1>4, InitIoInv DEF SessionInv

(* Every step keeps it.                                                        *)
LEMMA NextSessionInv ==
  ASSUME ~EarlyAccept, SessionInv, [Next]_vars
  PROVE  SessionInv'
<1>1. IoInv' BY NextIInv, SendStep, RecvStep DEF SessionInv, IoInv
<1>2. LifeInv' BY LifeStep DEF SessionInv
<1>3. UnclosedInv' BY UnclosedStep DEF SessionInv
<1>4. \A s \in Slots : MsgInv(s)' BY MsgStep DEF SessionInv
<1>5. QED BY <1>1, <1>2, <1>3, <1>4 DEF SessionInv

(* In every reachable state a slot's flag, chain, id and messages agree.       *)
THEOREM SessionInvHolds ==
  ASSUME ~EarlyAccept
  PROVE  Spec => []SessionInv
<1>1. Init => SessionInv BY InitSessionInv
<1>2. SessionInv /\ [Next]_vars => SessionInv' BY NextSessionInv
<1>3. QED BY <1>1, <1>2, PTL DEF Spec

(* What SessionIdsHold says of the messages and of the accepts follows.        *)
LEMMA SessionIdsInv == SessionInv => SessionIdsHold
<1> SUFFICES ASSUME SessionInv PROVE SessionIdsHold OBVIOUS
<1>1. TypeOK BY DEF SessionInv, IoInv, IInv
<1>2. OwnerMatches
  <2> SUFFICES ASSUME NEW s \in Slots, NEW i \in 1 .. Len(mSendQ[s]) + Len(mSendMsgs[s])
               PROVE  (mSendQ[s] \o mSendMsgs[s])[i] = mSessionID[s]
    BY DEF OwnerMatches
  <2>1. mSendQ[s] \in Seq(Ids) /\ mSendMsgs[s] \in Seq(Ids) BY <1>1 DEF TypeOK, SendType
  <2>2. Len(mSendQ[s]) \in Nat /\ Len(mSendMsgs[s]) \in Nat BY <2>1
  <2>3. MsgIds(s) BY DEF SessionInv, MsgInv
  <2>4. CASE i <= Len(mSendQ[s])
    <3>1. (mSendQ[s] \o mSendMsgs[s])[i] = mSendQ[s][i] BY <2>1, <2>2, <2>4
    <3>2. QED BY <2>2, <2>3, <2>4, <3>1 DEF MsgIds
  <2>5. CASE i > Len(mSendQ[s])
    <3>1. (mSendQ[s] \o mSendMsgs[s])[i] = mSendMsgs[s][i - Len(mSendQ[s])] BY <2>1, <2>2, <2>5
    <3>2. i - Len(mSendQ[s]) \in 1 .. Len(mSendMsgs[s])
      <4>1. ASSUME NEW a \in Nat, NEW b \in Nat, NEW j \in 1 .. a + b, j > a
            PROVE  j - a \in 1 .. b
        BY <4>1
      <4>2. QED BY <2>2, <2>5, <4>1
    <3>3. QED BY <2>3, <3>1, <3>2 DEF MsgIds
  <2>6. QED BY <2>2, <2>4, <2>5
<1>3. ASSUME NEW w \in Workers, pc[w] = "acc_open"
      PROVE  /\ mSendMsgs[at[w]] = <<>> /\ mSendQ[at[w]] = <<>> /\ ~mSendFlag[at[w]]
             /\ ~mAccepted[at[w]] /\ <<at[w], mSessionID[at[w]]>> \notin opened
  <2>1. w \in Threads /\ at[w] \in Slots BY <1>1 DEF Threads, TypeOK, CtxType
  <2>2. Waits(at[w]) BY <1>3, <2>1 DEF Waits, In, AcceptPCs
  <2>3. ~mAccepted[at[w]] /\ <<at[w], mSessionID[at[w]]>> \notin opened
    BY <2>1, <2>2 DEF SessionInv, LifeInv, Life, Unopened, Fresh
  <2>4. QED BY <2>1, <2>3 DEF SessionInv, MsgInv, SendAccepted
<1>4. FreshAccept BY <1>3 DEF FreshAccept
<1>5. QED BY <1>2, <1>4 DEF SessionIdsHold

(* A message that was posted for a session is sent on that session and no      *)
(* other, and a slot is accepted again with an id it never had and nothing left *)
(* of its former client: the two assertions registerSend and completeAcceptEx   *)
(* make, for every number of sessions and threads.                             *)
THEOREM SessionIdsCorrect ==
  ASSUME ~EarlyAccept
  PROVE  Spec => []SessionIdsHold
BY SessionInvHolds, SessionIdsInv, PTL

(* The library keeps its promise to the content: onAccept with an id that was   *)
(* never used, on a slot without an open session, and onRelease once for each. *)
THEOREM ImplementsContract ==
  ASSUME ~EarlyAccept
  PROVE  Spec => ContractSpec
<1>1. Init => Contract!Init BY DEF Init, Contract!Init
<1>2. SessionInv /\ [Next]_vars => [Contract!Next]_<<opened, closed>>
  <2> SUFFICES ASSUME SessionInv, [Next]_vars PROVE [Contract!Next]_<<opened, closed>>
    OBVIOUS
  <2>1. ContractStep BY UnclosedStep DEF SessionInv
  <2>2. CASE UNCHANGED <<opened, closed>> BY <2>2
  <2>3. ASSUME NEW id, id \notin opened, \A other \in opened \ closed : other[1] # id[1],
               opened' = opened \cup {id}, UNCHANGED closed
        PROVE  Contract!Next
    BY <2>3 DEF Contract!Next, Contract!OnAccept
  <2>4. ASSUME NEW id \in opened \ closed, closed' = closed \cup {id}, UNCHANGED opened
        PROVE  Contract!Next
    BY <2>4 DEF Contract!Next, Contract!OnRelease
  <2>5. QED BY <2>1, <2>2, <2>3, <2>4 DEF ContractStep
<1>3. QED BY <1>1, <1>2, SessionInvHolds, PTL DEF Spec, ContractSpec, Contract!Spec
=============================================================================

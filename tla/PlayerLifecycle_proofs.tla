---------------------- MODULE PlayerLifecycle_proofs ----------------------
(***************************************************************************)
(* Theorems about PlayerLifecycle: the Player object has one holder at any *)
(* time, an account one Player, a save one request, and a login the last   *)
(* position, for any number of sessions, accounts and positions and any    *)
(* size of the queues.  The argument is an inductive invariant, IInv,      *)
(* whose parts follow the threads: the lists of each loop, the place of    *)
(* each Player, the account table, the saves, the rows.                    *)
(*                                                                         *)
(* All of it needs that no round of checkDisConnectedAndLeavePlayer in the *)
(* auth thread stops at CONFIG_DISCONNECT_AND_LEAVE_CAP with players left  *)
(* to look at (NeverCut): a player whose account is free again must be     *)
(* deleted in the round that freed it.                                     *)
(***************************************************************************)
EXTENDS PlayerLifecycle, FiniteSetTheorems, TLAPS

(* No round of the auth thread is cut short. *)
NoCut == \A s \in Sessions : AuthCollect(s) => authTodo' = authTodo \ {s}
NeverCut == [][NoCut]_vars

In(q, x) == \E i \in 1 .. Len(q) : q[i] = x
Once(q) == \A i, j \in 1 .. Len(q) : q[i] = q[j] => i = j

-----------------------------------------------------------------------------
(* The inductive invariant. *)

(* No failed call of MySQL waits to be acknowledged. *)
CdbInv == NoneThrows /\ \A t \in {"auth", "db"} : ~throwIfFailed(cdb[t])

(* A session and its Player object. *)
SessInv ==
  /\ \A s \in Sessions : sess[s] \in {"new", "accepting"} => player[s] = "none"
  /\ \A s \in Sessions : player[s] = "deleted" => sess[s] = "gone"
  /\ \A s \in Sessions : ~mBConnect[s] => sess[s] = "gone"
  /\ ~mBOn => mainPc \notin {"new", "run", "stopping"} /\ \A s \in Sessions : sess[s] \in {"new", "gone"}

(* Before Start no thread runs. *)
StartInv ==
  mainPc = "new" => authPc = "none" /\ fieldPc = "none" /\ fieldN = 0 /\ dbPc = "none"

(* Whatever points to a Player points to one that exists. *)
AliveInv ==
  \A s \in Sessions : player[s] # "alive" =>
    /\ s \notin mUnAuthSessions /\ s \notin authPlayers /\ s \notin fieldPlayers
    /\ ~In(mMsgQ, s) /\ mAccountNo[s] = None

(* A Player is in one place, and in it once. *)
PlaceInv ==
  /\ fieldPlayers \cap (authPlayers \cup mUnAuthSessions) = {}
  /\ \A s \in authPlayers \cup fieldPlayers \cup mUnAuthSessions : ~In(mMsgQ, s)
  /\ Once(mMsgQ) /\ Once(mNotifyMsgQ)
  /\ \A s \in Sessions : GivenBack(s) =>
       /\ s \notin authPlayers \cup fieldPlayers \cup mUnAuthSessions
       /\ ~In(mMsgQ, s) /\ ~mBConnect[s]
  /\ \A s \in Sessions : player[s] = "alive" =>
       s \in authPlayers \cup fieldPlayers \cup mUnAuthSessions \/ In(mMsgQ, s) \/ GivenBack(s)

(* The auth thread has freed the account of s and will delete s in this round. *)
Leaving(s) ==
  /\ s \in authPlayers /\ ~mBConnect[s] /\ mAccountsHash[mAccountNo[s]] = None
  /\ authPc = "notify" \/ (authPc = "leave" /\ s \in authTodo \cup authD)

(* The account table and the account numbers of the Players. *)
AccountInv ==
  /\ \A a \in Accounts : mAccountsHash[a] # None => mAccountNo[mAccountsHash[a]] = a
  /\ \A s \in Sessions : mAccountNo[s] # None => mAccountsHash[mAccountNo[s]] = s \/ Leaving(s)
  /\ \A s \in Sessions : mNextFieldID[s] = "field" <=> mAccountNo[s] # None
  /\ \A s \in mUnAuthSessions : mAccountNo[s] = None
  /\ \A s \in Sessions : s \in fieldPlayers \/ In(mMsgQ, s) => mAccountNo[s] # None
  /\ \A a \in Accounts : In(mNotifyMsgQ, a) => mAccountsHash[a] # None

(* The lists of the auth thread's loops. *)
AuthLists ==
  /\ authTodo \subseteq authPlayers /\ authD \subseteq authPlayers /\ authL \subseteq authPlayers
  /\ authTodo \cap (authD \cup authL) = {} /\ authD \cap authL = {}
  /\ authPc \in {"none", "connect", "top", "copy", "notify"} => authTodo = {}
  /\ authPc # "leave" => authD = {} /\ authL = {}
  /\ \A s \in authD : ~mBConnect[s]
  /\ \A s \in authL : mAccountNo[s] # None /\ mAccountsHash[mAccountNo[s]] = s
  /\ authPc \in {"insert", "promote"} =>
       cur \in Logins /\ cur.s \in authTodo /\ mAccountNo[cur.s] = None
  /\ authPc = "notify" => authN <= Len(mNotifyMsgQ)

(* The lists of the field thread's loops. *)
FieldLists ==
  /\ fieldTodo \subseteq fieldPlayers /\ fieldD \subseteq fieldPlayers
  /\ \A s \in fieldD : ~mBConnect[s]
  /\ fieldPc \notin {"leave", "full_assert"} => fieldTodo = {} /\ fieldD = {}
  /\ fieldPc = "msgs" => fieldN <= Len(mMsgQ)
  /\ fieldPc = "results" => fieldN <= Len(mDBResQ)

(* The jobs the db thread has counted. *)
DbLists ==
  /\ dbPc \in {"jobs", "reply"} => dbN <= Len(mDBReqQ)
  /\ dbPc = "jobs" => dbN > 0
  /\ dbPc = "reply" => dbJob \in Saves

(* A save that was asked for: its request waits, the db thread has it, or its  *)
(* answer waits.                                                               *)
InReq(s) == \E job \in Saves : In(mDBReqQ, job) /\ job.s = s
InDb(s) == dbPc = "reply" /\ dbJob.s = s

SaveInv ==
  /\ pending \subseteq fieldPlayers
  /\ \A s \in pending : InReq(s) \/ In(mDBResQ, s) \/ InDb(s) \/ dbPc = "full_assert"
  /\ \A s \in Sessions : InReq(s) \/ In(mDBResQ, s) \/ InDb(s) => s \in pending
  /\ \A s \in Sessions : InReq(s) => ~In(mDBResQ, s) /\ ~InDb(s)
  /\ \A s \in Sessions : InDb(s) => ~In(mDBResQ, s)
  /\ Once(mDBReqQ) /\ Once(mDBResQ)
  /\ \A s \in pending : ~mBConnect[s]
  /\ \A job \in Saves : In(mDBReqQ, job) =>
       job.acct = mAccountNo[job.s] /\ job.pos = left[job.acct]

(* The position an account was left at is in its row, unless its save waits.   *)
RowInv ==
  /\ \A a \in Accounts : mAccountsHash[a] # None => dbPos[a] # None
  /\ \A a \in Accounts :
       \/ left[a] = (IF dbPos[a] = None THEN Origin ELSE dbPos[a])
       \/ \E job \in Saves : In(mDBReqQ, job) /\ job.acct = a
  /\ authPc = "insert" => cur.pos = Origin
  /\ authPc = "promote" => dbPos[cur.acct] # None
  /\ FreshPosition

IInv == /\ TypeOK /\ CdbInv /\ StartInv /\ SessInv /\ AliveInv /\ PlaceInv /\ AccountInv
        /\ ToldRight /\ AuthLists /\ FieldLists /\ DbLists /\ SaveInv /\ RowInv
        /\ UnAuthBound /\ LogoutKnown

-----------------------------------------------------------------------------
(* Lemmas about the operators. *)

(* What Append adds to a queue, and that it stays free of duplicates. *)
LEMMA InAppend ==
  ASSUME NEW S, NEW q \in Seq(S), NEW x \in S
  PROVE  /\ Append(q, x) \in Seq(S)
         /\ \A y : In(Append(q, x), y) <=> In(q, y) \/ y = x
         /\ Once(q) /\ ~In(q, x) => Once(Append(q, x))
<1>1. Append(q, x) \in Seq(S) /\ Len(q) \in Nat /\ Len(Append(q, x)) = Len(q) + 1
  OBVIOUS
<1>2. \A i \in 1 .. Len(q) : Append(q, x)[i] = q[i]
  OBVIOUS
<1>3. Append(q, x)[Len(q) + 1] = x
  OBVIOUS
<1>. QED BY <1>1, <1>2, <1>3 DEF In, Once

(* What is left of a queue without its head. *)
LEMMA InTail ==
  ASSUME NEW S, NEW q \in Seq(S), Len(q) > 0
  PROVE  /\ Tail(q) \in Seq(S) /\ Head(q) \in S /\ Len(Tail(q)) = Len(q) - 1
         /\ In(q, Head(q))
         /\ \A y : In(q, y) <=> y = Head(q) \/ In(Tail(q), y)
         /\ Once(q) => Once(Tail(q)) /\ ~In(Tail(q), Head(q))
<1>1. /\ q # <<>> /\ Len(q) \in Nat /\ Tail(q) \in Seq(S)
      /\ Len(Tail(q)) = Len(q) - 1 /\ Head(q) = q[1] /\ Head(q) \in S
  OBVIOUS
<1>2. \A i \in 1 .. Len(q) - 1 : Tail(q)[i] = q[i + 1]
  BY <1>1
<1>3. \A i \in 1 .. Len(q) : i = 1 \/ (i - 1 \in 1 .. Len(q) - 1 /\ Tail(q)[i - 1] = q[i])
  BY <1>1, <1>2
<1>. QED BY <1>1, <1>2, <1>3 DEF In, Once

(* An element of a queue of elements of S is one of S. *)
LEMMA InType ==
  ASSUME NEW S, NEW q \in Seq(S), NEW x, In(q, x)
  PROVE  x \in S
BY DEF In

(* Every call of the wrapper leaves an object of its type; ClearError leaves   *)
(* no failure, a call that works adds none, and the destructor then leaves the *)
(* object as it was made.                                                      *)
LEMMA CdbCalls ==
  ASSUME NEW db \in CDBs
  PROVE  /\ ClearError(db) \in CDBs /\ ~throwIfFailed(ClearError(db))
         /\ Disconnect(db) \in CDBs
         /\ ~throwIfFailed(db) => Disconnect(db) = NewCDB /\ ~throwIfFailed(Disconnect(db))
         /\ \A ok \in BOOLEAN : Connect(db, ok) \in CDBs /\ Execute(db, ok) \in CDBs
         /\ ~throwIfFailed(db) => ~throwIfFailed(Connect(db, TRUE))
         /\ \A ok, stored \in BOOLEAN : Query(db, ok, stored) \in CDBs
<1>. USE DEF CDBs
<1>1. \A d \in CDBs : fail(d) \in CDBs BY DEF fail
<1>2. ClearError(db) \in CDBs /\ ~throwIfFailed(ClearError(db)) BY DEF ClearError, throwIfFailed
<1>3. Disconnect(db) \in CDBs BY DEF Disconnect
<1>4. ASSUME ~throwIfFailed(db) PROVE Disconnect(db) = NewCDB /\ ~throwIfFailed(Disconnect(db))
  <2>1. \A d \in CDBs : d = [mConn |-> d.mConn, mBFailed |-> d.mBFailed] OBVIOUS
  <2>2. db.mBFailed \in BOOLEAN /\ ~db.mBFailed BY <1>4 DEF throwIfFailed
  <2>3. db.mBFailed = FALSE BY <2>2
  <2>4. Disconnect(db).mConn = FALSE /\ Disconnect(db).mBFailed = FALSE BY <2>3 DEF Disconnect
  <2>5. Disconnect(db) = NewCDB BY <1>3, <2>1, <2>4, Zenon DEF NewCDB
  <2>. QED BY <2>5 DEF NewCDB, throwIfFailed
<1>5. [db EXCEPT !.mConn = TRUE] \in CDBs /\ [db EXCEPT !.mConn = FALSE] \in CDBs OBVIOUS
<1>6. ASSUME NEW ok \in BOOLEAN
      PROVE  Connect(db, ok) \in CDBs /\ Execute(db, ok) \in CDBs
  BY <1>1, <1>5 DEF Connect, Execute
<1>7. ~throwIfFailed(db) => ~throwIfFailed(Connect(db, TRUE)) BY DEF throwIfFailed, Connect
<1>8. ASSUME NEW ok \in BOOLEAN, NEW stored \in BOOLEAN PROVE Query(db, ok, stored) \in CDBs
  BY <1>1 DEF Query
<1>. QED BY <1>2, <1>3, <1>4, <1>6, <1>7, <1>8

-----------------------------------------------------------------------------
(* Which actions change which part of the state. *)

USE DEF netVars, playerVars, mapVars, sqlVars, clientVars, queueVars, authVars, fieldVars,
        eventVars, dbVars, mainVars, untouched

(* The actions that change the sessions. *)
LEMMA NetSteps ==
  ASSUME [Next]_vars
  PROVE  \/ UNCHANGED <<sess, kicked>>
         \/ AuthPromote \/ AuthHeartBeat \/ FieldFrame \/ Stop
         \/ \E s \in Sessions : AcceptCheck(s) \/ AcceptInsert(s) \/ Recv(s) \/ Release(s)
<1>1. CASE \E s \in Sessions : Network(s) BY <1>1 DEF Network
<1>2. CASE Auth
  BY <1>2 DEF Auth, AuthConnect, AuthTop, AuthCopy, AuthInsert, AuthLoginEnd, AuthNotify,
         AuthNotifyEnd, AuthInvalid, AuthSelect, AuthNext, AuthCollect, AuthDrop, AuthEnter
<1>3. CASE Field
  BY <1>3 DEF Field, FieldRegister, FieldMsgsEnd, FieldSaveEnd, FieldResult, FieldResultsEnd,
         FieldCollect, FieldSave
<1>4. CASE Db BY <1>4 DEF Db, DbConnect, DbWait, DbSize, DbUpdate, DbReply
<1>5. CASE Main \/ UNCHANGED vars BY <1>5 DEF Main, Start, StopReturn, JoinField, Join, vars
<1>. QED BY <1>1, <1>2, <1>3, <1>4, <1>5 DEF Next

(* The actions that change mBConnect. *)
LEMMA ConnSteps ==
  ASSUME [Next]_vars
  PROVE  \/ UNCHANGED <<mBConnect>>
         \/ FieldFrame
         \/ \E s \in Sessions : Release(s)
<1>1. CASE \E s \in Sessions : Network(s) BY <1>1 DEF Network, AcceptCheck, AcceptInsert, Recv
<1>2. CASE Auth
  BY <1>2 DEF Auth, AuthConnect, AuthTop, AuthCopy, AuthInsert, AuthPromote, AuthLoginEnd,
         AuthNotify, AuthNotifyEnd, AuthHeartBeat, AuthInvalid, AuthSelect, AuthNext,
         AuthCollect, AuthDrop, AuthEnter
<1>3. CASE Field
  BY <1>3 DEF Field, FieldRegister, FieldMsgsEnd, FieldSaveEnd, FieldResult, FieldResultsEnd,
         FieldCollect, FieldSave
<1>4. CASE Db BY <1>4 DEF Db, DbConnect, DbWait, DbSize, DbUpdate, DbReply
<1>5. CASE Main \/ UNCHANGED vars BY <1>5 DEF Main, Start, Stop, StopReturn, JoinField, Join, vars
<1>. QED BY <1>1, <1>2, <1>3, <1>4, <1>5 DEF Next

(* The actions that change the Players, and the account table. *)
LEMMA PlayerSteps ==
  ASSUME [Next]_vars
  PROVE  \/ UNCHANGED <<player, mNextFieldID, mAccountNo, mPos, mRecvQ, pending, mUnAuthSessions,
                       mAccountsHash>>
         \/ AuthPromote \/ AuthNotify \/ FieldFrame \/ FieldResult
         \/ \E s \in Sessions : AcceptInsert(s) \/ Recv(s) \/ AuthInvalid(s) \/ AuthSelect(s) \/ AuthDrop(s)
                               \/ FieldSave(s)
<1>1. CASE \E s \in Sessions : Network(s) BY <1>1 DEF Network, AcceptCheck, Release
<1>2. CASE Auth
  BY <1>2 DEF Auth, AuthConnect, AuthTop, AuthCopy, AuthInsert, AuthLoginEnd, AuthNotifyEnd,
         AuthHeartBeat, AuthNext, AuthCollect, AuthEnter
<1>3. CASE Field
  BY <1>3 DEF Field, FieldRegister, FieldMsgsEnd, FieldSaveEnd, FieldResultsEnd, FieldCollect
<1>4. CASE Db BY <1>4 DEF Db, DbConnect, DbWait, DbSize, DbUpdate, DbReply
<1>5. CASE Main \/ UNCHANGED vars BY <1>5 DEF Main, Start, Stop, StopReturn, JoinField, Join, vars
<1>. QED BY <1>1, <1>2, <1>3, <1>4, <1>5 DEF Next

(* The actions that change the queues. *)
LEMMA QueueSteps ==
  ASSUME [Next]_vars
  PROVE  \/ UNCHANGED <<mMsgQ, mNotifyMsgQ, mDBReqQ, mDBResQ>>
         \/ AuthNotify \/ FieldRegister \/ FieldResult \/ DbUpdate \/ DbReply
         \/ \E s \in Sessions : AuthEnter(s) \/ FieldSave(s)
<1>1. CASE \E s \in Sessions : Network(s)
  BY <1>1 DEF Network, AcceptCheck, AcceptInsert, Recv, Release
<1>2. CASE Auth
  BY <1>2 DEF Auth, AuthConnect, AuthTop, AuthCopy, AuthInsert, AuthPromote, AuthLoginEnd,
         AuthNotifyEnd, AuthHeartBeat, AuthInvalid, AuthSelect, AuthNext, AuthCollect,
         AuthDrop
<1>3. CASE Field
  BY <1>3 DEF Field, FieldMsgsEnd, FieldFrame, FieldSaveEnd, FieldResultsEnd, FieldCollect
<1>4. CASE Db BY <1>4 DEF Db, DbConnect, DbWait, DbSize
<1>5. CASE Main \/ UNCHANGED vars BY <1>5 DEF Main, Start, Stop, StopReturn, JoinField, Join, vars
<1>. QED BY <1>1, <1>2, <1>3, <1>4, <1>5 DEF Next

(* The actions that change the rows. *)
LEMMA SqlSteps ==
  ASSUME [Next]_vars
  PROVE  \/ UNCHANGED <<dbPos, left>>
         \/ AuthInsert \/ DbUpdate
         \/ \E s \in Sessions : FieldSave(s)
<1>1. CASE \E s \in Sessions : Network(s)
  BY <1>1 DEF Network, AcceptCheck, AcceptInsert, Recv, Release
<1>2. CASE Auth
  BY <1>2 DEF Auth, AuthConnect, AuthTop, AuthCopy, AuthPromote, AuthLoginEnd, AuthNotify,
         AuthNotifyEnd, AuthHeartBeat, AuthInvalid, AuthSelect, AuthNext, AuthCollect,
         AuthDrop, AuthEnter
<1>3. CASE Field
  BY <1>3 DEF Field, FieldRegister, FieldMsgsEnd, FieldFrame, FieldSaveEnd, FieldResult,
         FieldResultsEnd, FieldCollect
<1>4. CASE Db BY <1>4 DEF Db, DbConnect, DbWait, DbSize, DbReply
<1>5. CASE Main \/ UNCHANGED vars BY <1>5 DEF Main, Start, Stop, StopReturn, JoinField, Join, vars
<1>. QED BY <1>1, <1>2, <1>3, <1>4, <1>5 DEF Next

(* The actions that change the connections to MySQL. *)
LEMMA CdbSteps ==
  ASSUME [Next]_vars
  PROVE  \/ UNCHANGED <<cdb>>
         \/ AuthConnect \/ AuthTop \/ AuthInsert \/ DbConnect \/ DbSize \/ DbUpdate
         \/ \E s \in Sessions : AuthSelect(s)
<1>1. CASE \E s \in Sessions : Network(s)
  BY <1>1 DEF Network, AcceptCheck, AcceptInsert, Recv, Release
<1>2. CASE Auth
  BY <1>2 DEF Auth, AuthCopy, AuthPromote, AuthLoginEnd, AuthNotify, AuthNotifyEnd,
         AuthHeartBeat, AuthInvalid, AuthNext, AuthCollect, AuthDrop, AuthEnter
<1>3. CASE Field
  BY <1>3 DEF Field, FieldRegister, FieldMsgsEnd, FieldFrame, FieldSaveEnd, FieldResult,
         FieldResultsEnd, FieldCollect, FieldSave
<1>4. CASE Db BY <1>4 DEF Db, DbWait, DbReply
<1>5. CASE Main \/ UNCHANGED vars BY <1>5 DEF Main, Start, Stop, StopReturn, JoinField, Join, vars
<1>. QED BY <1>1, <1>2, <1>3, <1>4, <1>5 DEF Next

(* The actions that change the auth thread's own state. *)
LEMMA AuthSteps ==
  ASSUME [Next]_vars
  PROVE  \/ UNCHANGED <<authPc, authPlayers, authTodo, cur, authN, authD, authL>>
         \/ AuthConnect \/ AuthTop \/ AuthCopy \/ AuthInsert \/ AuthPromote \/ AuthLoginEnd
         \/ AuthNotify \/ AuthNotifyEnd \/ AuthHeartBeat \/ Start
         \/ \E s \in Sessions : AuthSelect(s) \/ AuthNext(s) \/ AuthCollect(s) \/ AuthDrop(s) \/ AuthEnter(s)
<1>1. CASE \E s \in Sessions : Network(s)
  BY <1>1 DEF Network, AcceptCheck, AcceptInsert, Recv, Release
<1>2. CASE Auth BY <1>2 DEF Auth, AuthInvalid
<1>3. CASE Field
  BY <1>3 DEF Field, FieldRegister, FieldMsgsEnd, FieldFrame, FieldSaveEnd, FieldResult,
         FieldResultsEnd, FieldCollect, FieldSave
<1>4. CASE Db BY <1>4 DEF Db, DbConnect, DbWait, DbSize, DbUpdate, DbReply
<1>5. CASE Main \/ UNCHANGED vars BY <1>5 DEF Main, Stop, StopReturn, JoinField, Join, vars
<1>. QED BY <1>1, <1>2, <1>3, <1>4, <1>5 DEF Next

(* The actions that change the field thread's own state. *)
LEMMA FieldSteps ==
  ASSUME [Next]_vars
  PROVE  \/ UNCHANGED <<fieldPc, fieldPlayers, fieldTodo, fieldN, fieldD>>
         \/ FieldRegister \/ FieldMsgsEnd \/ FieldFrame \/ FieldSaveEnd \/ FieldResult
         \/ FieldResultsEnd \/ Start
         \/ \E s \in Sessions : FieldCollect(s) \/ FieldSave(s)
<1>1. CASE \E s \in Sessions : Network(s)
  BY <1>1 DEF Network, AcceptCheck, AcceptInsert, Recv, Release
<1>2. CASE Auth
  BY <1>2 DEF Auth, AuthConnect, AuthTop, AuthCopy, AuthInsert, AuthPromote, AuthLoginEnd,
         AuthNotify, AuthNotifyEnd, AuthHeartBeat, AuthInvalid, AuthSelect, AuthNext,
         AuthCollect, AuthDrop, AuthEnter
<1>3. CASE Field BY <1>3 DEF Field
<1>4. CASE Db BY <1>4 DEF Db, DbConnect, DbWait, DbSize, DbUpdate, DbReply
<1>5. CASE Main \/ UNCHANGED vars BY <1>5 DEF Main, Stop, StopReturn, JoinField, Join, vars
<1>. QED BY <1>1, <1>2, <1>3, <1>4, <1>5 DEF Next

(* The actions that change the db thread's own state. *)
LEMMA DbSteps ==
  ASSUME [Next]_vars
  PROVE  \/ UNCHANGED <<dbPc, dbJob, dbN, dbIdx>>
         \/ DbConnect \/ DbWait \/ DbSize \/ DbUpdate \/ DbReply \/ Start
<1>1. CASE \E s \in Sessions : Network(s)
  BY <1>1 DEF Network, AcceptCheck, AcceptInsert, Recv, Release
<1>2. CASE Auth
  BY <1>2 DEF Auth, AuthConnect, AuthTop, AuthCopy, AuthInsert, AuthPromote, AuthLoginEnd,
         AuthNotify, AuthNotifyEnd, AuthHeartBeat, AuthInvalid, AuthSelect, AuthNext,
         AuthCollect, AuthDrop, AuthEnter
<1>3. CASE Field
  BY <1>3 DEF Field, FieldRegister, FieldMsgsEnd, FieldFrame, FieldSaveEnd, FieldResult,
         FieldResultsEnd, FieldCollect, FieldSave
<1>4. CASE Db BY <1>4 DEF Db
<1>5. CASE Main \/ UNCHANGED vars BY <1>5 DEF Main, Stop, StopReturn, JoinField, Join, vars
<1>. QED BY <1>1, <1>2, <1>3, <1>4, <1>5 DEF Next

(* The actions that change the events and mBOn. *)
LEMMA EventSteps ==
  ASSUME [Next]_vars
  PROVE  \/ UNCHANGED <<mHDBEvent, mHDBFinishEvent, mBOn>>
         \/ FieldMsgsEnd \/ DbWait \/ StopReturn \/ JoinField
         \/ \E s \in Sessions : FieldSave(s)
<1>1. CASE \E s \in Sessions : Network(s)
  BY <1>1 DEF Network, AcceptCheck, AcceptInsert, Recv, Release
<1>2. CASE Auth
  BY <1>2 DEF Auth, AuthConnect, AuthTop, AuthCopy, AuthInsert, AuthPromote, AuthLoginEnd,
         AuthNotify, AuthNotifyEnd, AuthHeartBeat, AuthInvalid, AuthSelect, AuthNext,
         AuthCollect, AuthDrop, AuthEnter
<1>3. CASE Field
  BY <1>3 DEF Field, FieldRegister, FieldFrame, FieldSaveEnd, FieldResult, FieldResultsEnd,
         FieldCollect
<1>4. CASE Db BY <1>4 DEF Db, DbConnect, DbSize, DbUpdate, DbReply
<1>5. CASE Main \/ UNCHANGED vars BY <1>5 DEF Main, Start, Stop, Join, vars
<1>. QED BY <1>1, <1>2, <1>3, <1>4, <1>5 DEF Next

(* The actions that change the main thread. *)
LEMMA MainSteps ==
  ASSUME [Next]_vars
  PROVE  \/ UNCHANGED <<mainPc>>
         \/ Start \/ Stop \/ StopReturn \/ JoinField \/ Join("join_db", dbPc, "join_auth")
         \/ Join("join_auth", authPc, "done")
<1>1. CASE \E s \in Sessions : Network(s)
  BY <1>1 DEF Network, AcceptCheck, AcceptInsert, Recv, Release
<1>2. CASE Auth
  BY <1>2 DEF Auth, AuthConnect, AuthTop, AuthCopy, AuthInsert, AuthPromote, AuthLoginEnd,
         AuthNotify, AuthNotifyEnd, AuthHeartBeat, AuthInvalid, AuthSelect, AuthNext,
         AuthCollect, AuthDrop, AuthEnter
<1>3. CASE Field
  BY <1>3 DEF Field, FieldRegister, FieldMsgsEnd, FieldFrame, FieldSaveEnd, FieldResult,
         FieldResultsEnd, FieldCollect, FieldSave
<1>4. CASE Db BY <1>4 DEF Db, DbConnect, DbWait, DbSize, DbUpdate, DbReply
<1>5. CASE Main \/ UNCHANGED vars BY <1>5 DEF Main, vars
<1>. QED BY <1>1, <1>2, <1>3, <1>4, <1>5 DEF Next

(* The actions that change what clients did and were told. *)
LEMMA ClientSteps ==
  ASSUME [Next]_vars
  PROVE  \/ UNCHANGED <<told, reqs>>
         \/ AuthInsert \/ AuthPromote
         \/ \E s \in Sessions : Recv(s) \/ AuthInvalid(s) \/ AuthDrop(s)
<1>1. CASE \E s \in Sessions : Network(s)
  BY <1>1 DEF Network, AcceptCheck, AcceptInsert, Release
<1>2. CASE Auth
  BY <1>2 DEF Auth, AuthConnect, AuthTop, AuthCopy, AuthLoginEnd, AuthNotify, AuthNotifyEnd,
         AuthHeartBeat, AuthSelect, AuthNext, AuthCollect, AuthEnter
<1>3. CASE Field
  BY <1>3 DEF Field, FieldRegister, FieldMsgsEnd, FieldFrame, FieldSaveEnd, FieldResult,
         FieldResultsEnd, FieldCollect, FieldSave
<1>4. CASE Db BY <1>4 DEF Db, DbConnect, DbWait, DbSize, DbUpdate, DbReply
<1>5. CASE Main \/ UNCHANGED vars BY <1>5 DEF Main, Start, Stop, StopReturn, JoinField, Join, vars
<1>. QED BY <1>1, <1>2, <1>3, <1>4, <1>5 DEF Next

(* The actions that change which saves wait. *)
LEMMA SaveSteps ==
  ASSUME [Next]_vars
  PROVE  \/ UNCHANGED <<pending, mDBReqQ, mDBResQ, dbPc, dbJob>>
         \/ FieldResult \/ DbConnect \/ DbWait \/ DbSize \/ DbUpdate \/ DbReply \/ Start
         \/ \E s \in Sessions : FieldSave(s)
<1>1. CASE \E s \in Sessions : Network(s)
  BY <1>1 DEF Network, AcceptCheck, AcceptInsert, Recv, Release
<1>2. CASE Auth
  BY <1>2 DEF Auth, AuthConnect, AuthTop, AuthCopy, AuthInsert, AuthPromote, AuthLoginEnd,
         AuthNotify, AuthNotifyEnd, AuthHeartBeat, AuthInvalid, AuthSelect, AuthNext,
         AuthCollect, AuthDrop, AuthEnter
<1>3. CASE Field
  BY <1>3 DEF Field, FieldRegister, FieldMsgsEnd, FieldFrame, FieldSaveEnd, FieldResultsEnd,
         FieldCollect
<1>4. CASE Db BY <1>4 DEF Db
<1>5. CASE Main \/ UNCHANGED vars BY <1>5 DEF Main, Stop, StopReturn, JoinField, Join, vars
<1>. QED BY <1>1, <1>2, <1>3, <1>4, <1>5 DEF Next

(* The actions that change the sessions, their Players, and the shutdown. *)
LEMMA SessSteps ==
  ASSUME [Next]_vars
  PROVE  \/ UNCHANGED <<sess, player, mBOn, mainPc>>
         \/ Start \/ Stop \/ StopReturn \/ JoinField \/ Join("join_db", dbPc, "join_auth")
         \/ Join("join_auth", authPc, "done")
         \/ \E s \in Sessions : AcceptCheck(s) \/ AcceptInsert(s) \/ Release(s) \/ AuthDrop(s)
<1>1. CASE \E s \in Sessions : Network(s) BY <1>1 DEF Network, Recv
<1>2. CASE Auth
  BY <1>2 DEF Auth, AuthConnect, AuthTop, AuthCopy, AuthInsert, AuthPromote, AuthLoginEnd,
         AuthNotify, AuthNotifyEnd, AuthHeartBeat, AuthInvalid, AuthSelect, AuthNext,
         AuthCollect, AuthEnter
<1>3. CASE Field
  BY <1>3 DEF Field, FieldRegister, FieldMsgsEnd, FieldFrame, FieldSaveEnd, FieldResult,
         FieldResultsEnd, FieldCollect, FieldSave
<1>4. CASE Db BY <1>4 DEF Db, DbConnect, DbWait, DbSize, DbUpdate, DbReply
<1>5. CASE Main \/ UNCHANGED vars BY <1>5 DEF Main, vars
<1>. QED BY <1>1, <1>2, <1>3, <1>4, <1>5 DEF Next

(* The actions that change where the Players are. *)
LEMMA PlaceSteps ==
  ASSUME [Next]_vars
  PROVE  \/ UNCHANGED <<player, mNextFieldID, mAccountNo, mUnAuthSessions, mAccountsHash, mMsgQ, mNotifyMsgQ,
                       authPlayers, fieldPlayers>>
         \/ AuthCopy \/ AuthPromote \/ AuthNotify \/ FieldRegister \/ FieldResult
         \/ \E s \in Sessions : AcceptInsert(s) \/ AuthDrop(s) \/ AuthEnter(s)
<1>1. CASE \E s \in Sessions : Network(s) BY <1>1 DEF Network, AcceptCheck, Recv, Release
<1>2. CASE Auth
  BY <1>2 DEF Auth, AuthConnect, AuthTop, AuthInsert, AuthLoginEnd, AuthNotifyEnd,
         AuthHeartBeat, AuthInvalid, AuthSelect, AuthNext, AuthCollect
<1>3. CASE Field
  BY <1>3 DEF Field, FieldMsgsEnd, FieldFrame, FieldSaveEnd, FieldResultsEnd, FieldCollect,
         FieldSave
<1>4. CASE Db BY <1>4 DEF Db, DbConnect, DbWait, DbSize, DbUpdate, DbReply
<1>5. CASE Main \/ UNCHANGED vars BY <1>5 DEF Main, Start, Stop, StopReturn, JoinField, Join, vars
<1>. QED BY <1>1, <1>2, <1>3, <1>4, <1>5 DEF Next

-----------------------------------------------------------------------------
(* Type correctness. *)

(* A Player on its way into the field or in it has the account it plays.       *)
LEMMA Playing ==
  ASSUME IInv, NEW s \in Sessions, s \in fieldPlayers \/ In(mMsgQ, s)
  PROVE  mAccountNo[s] \in Accounts /\ mAccountsHash[mAccountNo[s]] = s
BY LifecycleAssumption DEF IInv, TypeOK, PlaceInv, AccountInv, Leaving

(* The session of a waiting save is in the field.                              *)
LEMMA Saving ==
  ASSUME IInv, NEW job \in Saves, In(mDBReqQ, job)
  PROVE  /\ job.s \in fieldPlayers /\ job.s \in pending
         /\ job.acct = mAccountNo[job.s] /\ job.pos = left[job.acct]
         /\ mAccountsHash[job.acct] = job.s /\ dbPos[job.acct] \in Positions
<1>1. job.s \in Sessions /\ job.acct \in Accounts BY DEF Saves
<1>2. job.s \in pending /\ job.s \in fieldPlayers BY <1>1 DEF IInv, SaveInv, InReq
<1>3. job.acct = mAccountNo[job.s] /\ job.pos = left[job.acct] BY DEF IInv, SaveInv
<1>4. mAccountsHash[job.acct] = job.s BY <1>1, <1>2, <1>3, Playing
<1>5. dbPos[job.acct] # None BY <1>1, <1>4, LifecycleAssumption DEF IInv, RowInv
<1>. QED BY <1>1, <1>2, <1>3, <1>4, <1>5 DEF IInv, TypeOK

(* No connection has a failure left when its next call comes, and none throws. *)
LEMMA CdbStep ==
  ASSUME IInv, [Next]_vars
  PROVE  cdb' \in [{"auth", "db"} -> CDBs] /\ CdbInv'
<1>. DEFINE Clear(c) == \A t \in {"auth", "db"} : c[t] \in CDBs /\ ~throwIfFailed(c[t])
<1>1. Clear(cdb) /\ NoneThrows /\ cdb \in [{"auth", "db"} -> CDBs]
  BY DEF IInv, TypeOK, CdbInv
<1>2. ASSUME NEW t \in {"auth", "db"}, NEW c \in CDBs, ~throwIfFailed(c),
             cdb' = [cdb EXCEPT ![t] = c]
      PROVE  Clear(cdb') /\ cdb' \in [{"auth", "db"} -> CDBs]
  BY <1>1, <1>2
<1>3. \A db \in CDBs, ok \in BOOLEAN :
        ~throwIfFailed(db) =>
          LET c == IF ok THEN Connect(db, TRUE) ELSE ClearError(Connect(db, FALSE))
          IN c \in CDBs /\ ~throwIfFailed(c)
  BY CdbCalls
<1>4. Clear(cdb') /\ cdb' \in [{"auth", "db"} -> CDBs]
  <2>. USE <1>1
  <2>1. CASE AuthConnect BY <1>2, <1>3, <2>1 DEF AuthConnect, Connected
  <2>2. CASE DbConnect BY <1>2, <1>3, <2>2 DEF DbConnect, Connected
  <2>3. CASE AuthTop BY <1>2, <2>3, CdbCalls DEF AuthTop
  <2>4. CASE DbSize BY <1>2, <2>4, CdbCalls DEF DbSize
  <2>5. CASE DbUpdate BY <1>2, <2>5, CdbCalls DEF DbUpdate
  <2>6. ASSUME NEW s \in Sessions, AuthSelect(s) PROVE Clear(cdb') /\ cdb' \in [{"auth", "db"} -> CDBs]
    BY <1>2, <2>6, CdbCalls DEF AuthSelect
  <2>7. CASE AuthInsert BY <1>2, <2>7, CdbCalls DEF AuthInsert
  <2>. QED BY <2>1, <2>2, <2>3, <2>4, <2>5, <2>6, <2>7, CdbSteps
<1>5. authPc' # "cdb_exception" /\ dbPc' # "cdb_exception"
  <2>1. authPc # "cdb_exception" /\ dbPc # "cdb_exception" BY <1>1 DEF NoneThrows
  <2>2. authPc' # "cdb_exception"
    <3>1. AfterCall("insert") = "insert" /\ AfterCall("promote") = "promote" /\ AfterCall("login") = "login"
      BY <1>1 DEF AfterCall
    <3>2. CASE AuthInsert \/ \E s \in Sessions : AuthSelect(s)
      BY <3>1, <3>2 DEF AuthInsert, AuthSelect
    <3>3. CASE AuthConnect BY <3>3 DEF AuthConnect, AfterConnect
    <3>4. CASE AuthNotify BY <2>1, <3>4 DEF AuthNotify
    <3>5. CASE AuthTop \/ AuthHeartBeat BY <2>1, <3>5 DEF AuthTop, AuthHeartBeat
    <3>. QED BY <2>1, <3>2, <3>3, <3>4, <3>5, AuthSteps
         DEF AuthCopy, AuthPromote, AuthLoginEnd, AuthNotifyEnd, Start, AuthNext, AuthCollect,
             AuthDrop, AuthEnter
  <2>3. dbPc' # "cdb_exception"
    BY <1>1, <2>1, DbSteps
       DEF DbConnect, AfterConnect, DbWait, DbSize, DbUpdate, DbReply, AfterEnqueue, Start
  <2>. QED BY <2>2, <2>3
<1>6. authPc' = "exit" => cdb'["auth"] = NewCDB
  <2>1. CASE AuthTop BY <1>1, <2>1, CdbCalls DEF AuthTop, NoneThrows
  <2>2. ASSUME ~AuthTop, authPc' = "exit" PROVE authPc = "exit"
    <3>1. AfterCall("insert") = "insert" /\ AfterCall("promote") = "promote" /\ AfterCall("login") = "login"
      BY <1>1 DEF AfterCall
    <3>2. ~AuthInsert /\ \A s \in Sessions : ~AuthSelect(s)
      BY <2>2, <3>1 DEF AuthInsert, AuthSelect
    <3>3. ~AuthConnect BY <2>2 DEF AuthConnect, AfterConnect
    <3>4. ~AuthNotify BY <2>2 DEF AuthNotify
    <3>5. ~AuthHeartBeat BY <2>2 DEF AuthHeartBeat
    <3>. QED BY <2>2, <3>2, <3>3, <3>4, <3>5, AuthSteps
         DEF AuthCopy, AuthPromote, AuthLoginEnd, AuthNotifyEnd, Start, AuthNext, AuthCollect,
             AuthDrop, AuthEnter
  <2>3. ASSUME ~AuthTop, authPc = "exit" PROVE cdb'["auth"] = cdb["auth"]
    BY <1>1, <2>3, CdbSteps
       DEF AuthConnect, AuthInsert, DbConnect, Connected, DbSize, DbUpdate, AuthSelect, TakeAuthReq
  <2>. QED BY <1>1, <2>1, <2>2, <2>3 DEF NoneThrows
<1>7. dbPc' = "exit" => cdb'["db"] = NewCDB
  <2>1. CASE DbSize BY <1>1, <2>1, CdbCalls DEF DbSize, NoneThrows
  <2>2. ASSUME ~DbSize, dbPc' = "exit" PROVE dbPc = "exit"
    BY <1>1, <2>2, DbSteps
       DEF DbConnect, AfterConnect, DbWait, DbUpdate, DbReply, AfterEnqueue, Start
  <2>3. ASSUME ~DbSize, dbPc = "exit" PROVE cdb'["db"] = cdb["db"]
    BY <1>1, <2>3, CdbSteps
       DEF AuthConnect, AuthTop, AuthInsert, DbConnect, Connected, DbUpdate, AuthSelect
  <2>. QED BY <1>1, <2>1, <2>2, <2>3 DEF NoneThrows
<1>. QED BY <1>4, <1>5, <1>6, <1>7 DEF CdbInv, NoneThrows

(* Every step keeps the types.  What a step that is not shown here changes, it *)
(* gives a value that needs no other fact.                                     *)
LEMMA TypeStep ==
  ASSUME IInv, [Next]_vars
  PROVE  TypeOK'
<1>. USE LifecycleAssumption
<1>t. TypeOK BY DEF IInv
<1>p. authPc = "promote" => cur \in Logins /\ cur.s \in Sessions /\ cur.acct \in Accounts /\ cur.pos \in Positions
  BY DEF IInv, AuthLists, Logins
<1>i. authPc = "insert" => cur \in Logins /\ cur.s \in Sessions /\ cur.acct \in Accounts /\ cur.pos \in Positions
  BY DEF IInv, AuthLists, Logins
<1>n. authPc = "notify" /\ authN > 0 =>
        Len(mNotifyMsgQ) > 0 /\ Head(mNotifyMsgQ) \in Accounts /\ Tail(mNotifyMsgQ) \in Seq(Accounts)
  BY <1>t, InTail DEF TypeOK, IInv, AuthLists
<1>m. fieldPc = "msgs" /\ fieldN > 0 =>
        Len(mMsgQ) > 0 /\ Head(mMsgQ) \in Sessions /\ Tail(mMsgQ) \in Seq(Sessions)
  BY <1>t, InTail DEF TypeOK, IInv, FieldLists
<1>r. fieldPc = "results" /\ fieldN > 0 =>
        Len(mDBResQ) > 0 /\ Head(mDBResQ) \in Sessions /\ Tail(mDBResQ) \in Seq(Sessions)
  BY <1>t, InTail DEF TypeOK, IInv, FieldLists
<1>j. dbPc = "jobs" =>
        /\ Len(mDBReqQ) > 0 /\ Head(mDBReqQ) \in Saves /\ Tail(mDBReqQ) \in Seq(Saves)
        /\ In(mDBReqQ, Head(mDBReqQ))
  BY <1>t, InTail DEF TypeOK, IInv, DbLists
<1>f. \A s \in fieldPlayers : mAccountNo[s] \in Accounts BY <1>t, Playing DEF TypeOK
<1>1. sess' \in [Sessions -> {"new", "accepting", "open", "gone"}] /\ kicked' \subseteq Sessions
  <2>. USE <1>t DEF TypeOK
  <2>1. CASE AuthPromote BY <1>p, <2>1 DEF AuthPromote
  <2>2. CASE AuthHeartBeat BY <2>2 DEF AuthHeartBeat
  <2>3. CASE FieldFrame BY <2>3 DEF FieldFrame
  <2>4. CASE Stop BY <2>4 DEF Stop
  <2>5. ASSUME NEW s \in Sessions, AcceptCheck(s) \/ AcceptInsert(s) \/ Recv(s) \/ Release(s)
        PROVE  sess' \in [Sessions -> {"new", "accepting", "open", "gone"}] /\ kicked' \subseteq Sessions
    BY <2>5 DEF AcceptCheck, AcceptInsert, Recv, Release
  <2>. QED BY <2>1, <2>2, <2>3, <2>4, <2>5, NetSteps
<1>2. mBConnect' \in [Sessions -> BOOLEAN]
  <2>. USE <1>t, Zenon DEF TypeOK
  <2>1. CASE FieldFrame
    <3>1. CASE UNCHANGED mBConnect BY <3>1
    <3>2. CASE mBConnect' = [s \in Sessions |-> mBConnect[s] /\ (mBOn \/ s \notin fieldPlayers)]
      BY <3>2
    <3>. QED BY <2>1, <3>1, <3>2 DEF FieldFrame
  <2>2. ASSUME NEW s \in Sessions, Release(s) PROVE mBConnect' \in [Sessions -> BOOLEAN]
    <3>1. mBConnect' = mBConnect \/ mBConnect' = [mBConnect EXCEPT ![s] = FALSE] BY <2>2 DEF Release
    <3>2. [mBConnect EXCEPT ![s] = FALSE] \in [Sessions -> BOOLEAN] OBVIOUS
    <3>. QED BY <3>1, <3>2
  <2>3. UNCHANGED mBConnect => mBConnect' \in [Sessions -> BOOLEAN] OBVIOUS
  <2>. QED BY <2>1, <2>2, <2>3, ConnSteps
<1>. DEFINE PlayerTypes ==
       /\ player \in [Sessions -> {"none", "alive", "deleted"}]
       /\ mNextFieldID \in [Sessions -> {"auth", "field"}]
       /\ mAccountNo \in [Sessions -> Accounts \cup {None}] /\ mPos \in [Sessions -> Positions]
       /\ mRecvQ \in [Sessions -> Accounts \cup {None}] /\ pending \subseteq Sessions
       /\ mUnAuthSessions \subseteq Sessions /\ mAccountsHash \in [Accounts -> Sessions \cup {None}]
<1>3. PlayerTypes'
  <2>t. PlayerTypes BY <1>t DEF TypeOK
  <2>1. CASE AuthPromote BY <1>p, <2>t, <2>1 DEF AuthPromote, SetPosition, InitPlayerInfo
  <2>2. CASE AuthNotify BY <1>n, <2>t, <2>2 DEF AuthNotify
  <2>3. CASE FieldFrame
    <3>1. /\ UNCHANGED <<player, mNextFieldID, mAccountNo, pending, mUnAuthSessions, mAccountsHash>>
          /\ mRecvQ' = mRecvQ \/ \E talkers : mRecvQ' = [s \in Sessions |-> IF s \in talkers THEN None ELSE mRecvQ[s]]
          /\ mPos' = mPos \/ \E s \in fieldPlayers, p \in Positions : mPos' = [mPos EXCEPT ![s] = p]
      BY <2>3 DEF FieldFrame
    <3>2. mRecvQ' \in [Sessions -> Accounts \cup {None}] BY <2>t, <3>1
    <3>3. mPos' \in [Sessions -> Positions] BY <2>t, <3>1
    <3>. QED BY <2>t, <3>1, <3>2, <3>3
  <2>4. CASE FieldResult BY <2>t, <2>4 DEF FieldResult
  <2>5. ASSUME NEW s \in Sessions,
               AcceptInsert(s) \/ Recv(s) \/ AuthInvalid(s) \/ AuthSelect(s) \/ FieldSave(s)
        PROVE  PlayerTypes'
    BY <2>t, <2>5 DEF AcceptInsert, Recv, AuthInvalid, AuthSelect, FieldSave, TakeAuthReq, EnQueueMsg
  <2>6. ASSUME NEW s \in Sessions, AuthDrop(s) PROVE PlayerTypes'
    BY <2>t, <2>6 DEF AuthDrop, Delete
  <2>. QED BY <2>t, <2>1, <2>2, <2>3, <2>4, <2>5, <2>6, PlayerSteps
<1>. DEFINE QueueTypes == /\ mMsgQ \in Seq(Sessions) /\ mNotifyMsgQ \in Seq(Accounts)
                          /\ mDBReqQ \in Seq(Saves) /\ mDBResQ \in Seq(Sessions)
<1>4. QueueTypes'
  <2>t. QueueTypes BY <1>t DEF TypeOK
  <2>a. /\ \A s \in Sessions : /\ Append(mMsgQ, s) \in Seq(Sessions)
                               /\ Append(mDBResQ, s) \in Seq(Sessions)
        /\ \A a \in Accounts : Append(mNotifyMsgQ, a) \in Seq(Accounts)
        /\ \A job \in Saves : Append(mDBReqQ, job) \in Seq(Saves)
    BY <2>t, InAppend
  <2>1. CASE AuthNotify BY <1>n, <2>t, <2>1 DEF AuthNotify
  <2>2. CASE FieldRegister BY <1>m, <2>t, <2>2 DEF FieldRegister
  <2>3. CASE FieldResult
    BY <1>r, <1>f, <2>t, <2>a, <2>3 DEF FieldResult, notifyDisconnect, Enqueue
  <2>4. CASE DbUpdate BY <1>j, <2>t, <2>4 DEF DbUpdate
  <2>5. CASE DbReply
    <3>1. dbJob.s \in Sessions BY <2>5 DEF DbReply, IInv, DbLists, Saves
    <3>. QED BY <2>t, <2>a, <2>5, <3>1 DEF DbReply, Enqueue
  <2>6. ASSUME NEW s \in Sessions, AuthEnter(s) PROVE QueueTypes'
    BY <2>t, <2>a, <2>6 DEF AuthEnter, enterField
  <2>7. ASSUME NEW s \in Sessions, FieldSave(s) PROVE QueueTypes'
    <3>1. s \in fieldPlayers BY <2>7 DEF FieldSave, IInv, FieldLists
    <3>2. Save(s) \in Saves BY <1>t, <1>f, <3>1 DEF Save, Saves, TypeOK
    <3>. QED BY <2>t, <2>a, <2>7, <3>2 DEF FieldSave, Enqueue
  <2>. QED BY <2>t, <2>1, <2>2, <2>3, <2>4, <2>5, <2>6, <2>7, QueueSteps
<1>5. dbPos' \in [Accounts -> Positions \cup {None}] /\ left' \in [Accounts -> Positions]
  <2>t. dbPos \in [Accounts -> Positions \cup {None}] /\ left \in [Accounts -> Positions]
    BY <1>t DEF TypeOK
  <2>1. CASE AuthInsert BY <1>i, <2>t, <2>1 DEF AuthInsert
  <2>2. CASE DbUpdate
    <3>1. /\ Head(mDBReqQ).acct \in Accounts /\ Head(mDBReqQ).pos \in Positions
          /\ dbPos[Head(mDBReqQ).acct] \in Positions
      BY <1>j, <2>2, Saving DEF DbUpdate, Saves
    <3>. QED BY <2>t, <2>2, <3>1 DEF DbUpdate
  <2>3. ASSUME NEW s \in Sessions, FieldSave(s)
        PROVE  dbPos' \in [Accounts -> Positions \cup {None}] /\ left' \in [Accounts -> Positions]
    BY <1>t, <2>t, <2>3 DEF FieldSave, TypeOK
  <2>. QED BY <2>t, <2>1, <2>2, <2>3, SqlSteps
<1>6. cdb' \in [{"auth", "db"} -> CDBs] BY CdbStep
<1>. DEFINE AuthTypes ==
       /\ authPc \in {"none", "connect", "top", "copy", "login", "insert", "promote", "notify",
                "leave", "exit", "connect_assert", "cdb_exception", "idle_assert", "logout_assert"}
       /\ authPlayers \subseteq Sessions /\ authTodo \subseteq Sessions
       /\ cur \in Logins \cup {None} /\ authN \in Nat
       /\ authD \subseteq Sessions /\ authL \subseteq Sessions
<1>7. AuthTypes'
  <2>t. AuthTypes BY <1>t DEF TypeOK
  <2>. USE <2>t
  <2>1. CASE AuthConnect BY <2>1 DEF AuthConnect, AfterConnect
  <2>2. CASE AuthTop \/ AuthCopy \/ AuthNotifyEnd \/ AuthHeartBeat \/ Start
    BY <1>t, <2>2 DEF AuthTop, AuthCopy, AuthNotifyEnd, AuthHeartBeat, Start, TypeOK
  <2>3. CASE AuthInsert BY <2>3 DEF AuthInsert, AfterCall
  <2>4. CASE AuthPromote BY <2>4 DEF AuthPromote
  <2>5. CASE AuthLoginEnd BY <1>t, <2>5 DEF AuthLoginEnd, TypeOK
  <2>6. CASE AuthNotify BY <1>t, <1>n, <2>6 DEF AuthNotify, TypeOK
  <2>7. ASSUME NEW s \in Sessions, AuthSelect(s) PROVE AuthTypes'
    <3>1. DeQueueMsgOrNull(s) \in Accounts BY <1>t, <2>7 DEF AuthSelect, TakeAuthReq, DeQueueMsgOrNull, TypeOK
    <3>2. cur' \in Logins BY <1>t, <2>7, <3>1 DEF AuthSelect, Logins, TypeOK
    <3>. QED BY <2>7, <3>2 DEF AuthSelect, AfterCall
  <2>8. ASSUME NEW s \in Sessions, AuthNext(s) \/ AuthCollect(s) \/ AuthDrop(s) \/ AuthEnter(s)
        PROVE  AuthTypes'
    BY <2>8 DEF AuthNext, AuthCollect, Rest, AuthDrop, AuthEnter, enterField
  <2>. QED BY <2>1, <2>2, <2>3, <2>4, <2>5, <2>6, <2>7, <2>8, AuthSteps
<1>. DEFINE FieldTypes ==
       /\ fieldPc \in {"none", "msgs", "frame", "leave", "results", "exit", "full_assert"}
       /\ fieldPlayers \subseteq Sessions /\ fieldTodo \subseteq Sessions
       /\ fieldN \in Nat /\ fieldD \subseteq Sessions
<1>8. FieldTypes'
  <2>t. FieldTypes BY <1>t DEF TypeOK
  <2>. USE <2>t
  <2>1. CASE FieldRegister BY <1>m, <2>1 DEF FieldRegister
  <2>2. CASE FieldMsgsEnd \/ FieldFrame \/ Start BY <2>2 DEF FieldMsgsEnd, FieldFrame, Start
  <2>3. CASE FieldSaveEnd \/ FieldResultsEnd BY <1>t, <2>3 DEF FieldSaveEnd, FieldResultsEnd, TypeOK
  <2>4. CASE FieldResult BY <2>4 DEF FieldResult, AfterEnqueue
  <2>5. ASSUME NEW s \in Sessions, FieldCollect(s) \/ FieldSave(s) PROVE FieldTypes'
    BY <2>5 DEF FieldCollect, Rest, FieldSave, AfterEnqueue
  <2>. QED BY <2>1, <2>2, <2>3, <2>4, <2>5, FieldSteps
<1>. DEFINE DbTypes ==
       /\ dbPc \in {"none", "connect", "wait", "size", "jobs", "reply", "exit", "connect_assert",
                    "cdb_exception", "full_assert"}
       /\ dbJob \in Saves \cup {None} /\ dbN \in Nat /\ dbIdx \in {0, 1}
<1>9. DbTypes'
  <2>t. DbTypes BY <1>t DEF TypeOK
  <2>. USE <2>t
  <2>1. CASE DbConnect BY <2>1 DEF DbConnect, AfterConnect
  <2>2. CASE DbWait BY <2>2 DEF DbWait
  <2>3. CASE DbSize BY <1>t, <2>3 DEF DbSize, TypeOK
  <2>4. CASE DbUpdate
    <3>1. dbN - 1 \in Nat BY <2>4 DEF DbUpdate, IInv, DbLists
    <3>. QED BY <1>j, <2>4, <3>1 DEF DbUpdate
  <2>5. CASE DbReply \/ Start BY <2>5 DEF DbReply, AfterEnqueue, Start
  <2>. QED BY <2>1, <2>2, <2>3, <2>4, <2>5, DbSteps
<1>10. mHDBEvent' \in BOOLEAN /\ mHDBFinishEvent' \in BOOLEAN /\ mBOn' \in BOOLEAN
  BY <1>t, EventSteps, Zenon DEF TypeOK, FieldMsgsEnd, DbWait, StopReturn, JoinField, FieldSave
<1>11. mainPc' \in {"new", "run", "stopping", "join_field", "join_db", "join_auth", "done"}
  BY <1>t, MainSteps DEF TypeOK, Start, Stop, StopReturn, JoinField, Join
<1>12. told' \subseteq Sessions /\ reqs' \in Nat
  BY <1>t, <1>p, <1>i, ClientSteps
     DEF TypeOK, AuthInsert, AuthPromote, Recv, AuthInvalid, AuthDrop, Delete, sendAuthFail
<1>. QED
  BY <1>1, <1>2, <1>3, <1>4, <1>5, <1>6, <1>7, <1>8, <1>9, <1>10, <1>11, <1>12 DEF TypeOK

-----------------------------------------------------------------------------
(* Where the Players are. *)

(* mBConnect is only ever cleared, when the session is gone.                   *)
LEMMA ConnStep ==
  ASSUME IInv, [Next]_vars, NEW s \in Sessions
  PROVE  /\ mBConnect'[s] => mBConnect[s]
         /\ mBConnect[s] /\ ~mBConnect'[s] => sess'[s] = "gone"
<1>t. mBConnect \in [Sessions -> BOOLEAN] /\ sess \in [Sessions -> {"new", "accepting", "open", "gone"}]
  BY DEF IInv, TypeOK
<1>1. CASE FieldFrame
  <2>1. mBConnect' = mBConnect \/ mBConnect' = [r \in Sessions |-> mBConnect[r] /\ (mBOn \/ r \notin fieldPlayers)]
    BY <1>1 DEF FieldFrame
  <2>2. sess' = sess BY <1>1 DEF FieldFrame
  <2>3. ~mBOn /\ s \in fieldPlayers => sess[s] = "gone" BY DEF IInv, SessInv, AliveInv
  <2>4. CASE mBConnect' = mBConnect BY <2>4
  <2>5. CASE mBConnect' = [r \in Sessions |-> mBConnect[r] /\ (mBOn \/ r \notin fieldPlayers)]
    <3>1. mBConnect'[s] = (mBConnect[s] /\ (mBOn \/ s \notin fieldPlayers)) BY <2>5
    <3>. QED BY <2>2, <2>3, <3>1
  <2>. QED BY <2>1, <2>4, <2>5
<1>2. ASSUME NEW r \in Sessions, Release(r)
      PROVE  /\ mBConnect'[s] => mBConnect[s]
             /\ mBConnect[s] /\ ~mBConnect'[s] => sess'[s] = "gone"
  <2>1. sess' = [sess EXCEPT ![r] = "gone"] BY <1>2 DEF Release
  <2>2. mBConnect' = mBConnect \/ mBConnect' = [mBConnect EXCEPT ![r] = FALSE] BY <1>2 DEF Release
  <2>3. CASE r = s
    <3>1. sess'[s] = "gone" BY <1>t, <2>1, <2>3
    <3>2. mBConnect' = mBConnect \/ mBConnect'[s] = FALSE BY <1>t, <2>2, <2>3
    <3>. QED BY <3>1, <3>2
  <2>4. CASE r # s
    <3>1. mBConnect'[s] = mBConnect[s] BY <1>t, <2>2, <2>4
    <3>. QED BY <3>1
  <2>. QED BY <2>3, <2>4
<1>. QED BY <1>1, <1>2, ConnSteps

(* No thread steps before Start. *)
LEMMA StartStep ==
  ASSUME IInv, [Next]_vars
  PROVE  StartInv'
<1>1. SUFFICES ASSUME mainPc' = "new"
               PROVE  authPc' = "none" /\ fieldPc' = "none" /\ fieldN' = 0 /\ dbPc' = "none"
  BY DEF StartInv
<1>2. mainPc = "new" /\ ~Start BY <1>1, MainSteps DEF Start, Stop, StopReturn, JoinField, Join
<1>3. authPc = "none" /\ fieldPc = "none" /\ fieldN = 0 /\ dbPc = "none"
  BY <1>2 DEF IInv, StartInv
<1>4. authPc' = "none"
  BY <1>2, <1>3, AuthSteps
     DEF AuthConnect, AuthTop, AuthCopy, AuthInsert, AuthPromote, AuthLoginEnd, AuthNotify, AuthNotifyEnd,
         AuthHeartBeat, AuthSelect, TakeAuthReq, AuthNext, AuthCollect, AuthDrop, AuthEnter
<1>5. fieldPc' = "none" /\ fieldN' = 0
  BY <1>2, <1>3, FieldSteps
     DEF FieldRegister, FieldMsgsEnd, FieldFrame, FieldSaveEnd, FieldResult, FieldResultsEnd, FieldCollect,
         FieldSave
<1>6. dbPc' = "none"
  BY <1>2, <1>3, DbSteps DEF DbConnect, DbWait, DbSize, DbUpdate, DbReply
<1>. QED BY <1>4, <1>5, <1>6

(* A session that is gone stays gone, and has a Player only until it is dropped. *)
LEMMA SessStep ==
  ASSUME IInv, [Next]_vars
  PROVE  SessInv'
<1>. DEFINE Kept ==
       /\ \A s \in Sessions : sess'[s] \in {"new", "accepting"} => player'[s] = "none"
       /\ \A s \in Sessions : player'[s] = "deleted" => sess'[s] = "gone"
       /\ ~mBOn' => mainPc' \notin {"new", "run", "stopping"} /\ \A s \in Sessions : sess'[s] \in {"new", "gone"}
       /\ \A s \in Sessions : sess[s] = "gone" => sess'[s] = "gone"
<1>1. Kept
  <2>t. TypeOK /\ SessInv BY DEF IInv
  <2>. USE <2>t DEF TypeOK, SessInv
  <2>1. CASE UNCHANGED <<sess, player, mBOn, mainPc>> BY <2>1
  <2>2. CASE Start \/ Stop \/ JoinField BY <2>2 DEF Start, Stop, JoinField
  <2>3. CASE StopReturn BY <2>3 DEF StopReturn
  <2>4. CASE Join("join_db", dbPc, "join_auth") \/ Join("join_auth", authPc, "done")
    BY <2>4 DEF Join
  <2>5. ASSUME NEW s \in Sessions, AcceptCheck(s) PROVE Kept BY <2>5 DEF AcceptCheck
  <2>6. ASSUME NEW s \in Sessions, AcceptInsert(s) PROVE Kept BY <2>6 DEF AcceptInsert
  <2>7. ASSUME NEW s \in Sessions, Release(s) PROVE Kept BY <2>7 DEF Release
  <2>8. ASSUME NEW s \in Sessions, AuthDrop(s) PROVE Kept
    <3>1. s \in authPlayers /\ ~mBConnect[s] BY <2>8 DEF AuthDrop, IInv, AuthLists
    <3>2. sess[s] = "gone" BY <3>1
    <3>. QED BY <2>8, <3>2 DEF AuthDrop, Delete
  <2>. QED BY <2>1, <2>2, <2>3, <2>4, <2>5, <2>6, <2>7, <2>8, SessSteps
<1>2. \A s \in Sessions : ~mBConnect'[s] => sess'[s] = "gone"
  BY <1>1, ConnStep DEF IInv, SessInv
<1>. QED BY <1>1, <1>2 DEF SessInv

(* Nothing points to a Player before it is made or after it is deleted. *)
LEMMA AliveStep ==
  ASSUME IInv, [Next]_vars
  PROVE  AliveInv'
<1>t. TypeOK /\ AliveInv BY DEF IInv
<1>. DEFINE Absent(s) == /\ s \notin mUnAuthSessions /\ s \notin authPlayers /\ s \notin fieldPlayers
                         /\ ~In(mMsgQ, s) /\ mAccountNo[s] = None
            Good == \A s \in Sessions : player[s] # "alive" => Absent(s)
<1>g. Good BY <1>t DEF AliveInv
<1>1. Good'
  <2>1. CASE UNCHANGED <<player, mNextFieldID, mAccountNo, mUnAuthSessions, mAccountsHash, mMsgQ, mNotifyMsgQ,
                         authPlayers, fieldPlayers>>
    BY <1>g, <2>1 DEF In
  <2>2. CASE AuthCopy BY <1>g, <2>2 DEF AuthCopy, In
  <2>3. CASE AuthPromote
    <3>1. cur.s \in Sessions /\ player[cur.s] = "alive"
      BY <1>g, <2>3 DEF AuthPromote, IInv, AuthLists, Logins
    <3>. QED BY <1>t, <1>g, <2>3, <3>1 DEF AuthPromote, InitPlayerInfo, In, TypeOK
  <2>4. CASE AuthNotify
    <3>1. authPlayers' \subseteq authPlayers \cup {mAccountsHash[Head(mNotifyMsgQ)]}
             /\ (mAccountsHash[Head(mNotifyMsgQ)] = None => authPlayers' = authPlayers)
      BY <2>4 DEF AuthNotify
    <3>2. Head(mNotifyMsgQ) \in Accounts
      BY <1>t, <2>4, InTail DEF AuthNotify, TypeOK, IInv, AuthLists
    <3>3. mAccountsHash[Head(mNotifyMsgQ)] # None =>
            player[mAccountsHash[Head(mNotifyMsgQ)]] = "alive"
      BY <1>t, <1>g, <3>2, LifecycleAssumption DEF IInv, AccountInv, TypeOK
    <3>. QED BY <1>t, <1>g, <2>4, <3>1, <3>2, <3>3 DEF AuthNotify, In, TypeOK
  <2>5. CASE FieldRegister
    <3>1. /\ In(mMsgQ, Head(mMsgQ)) /\ Head(mMsgQ) \in Sessions
          /\ \A s : In(Tail(mMsgQ), s) => In(mMsgQ, s)
      BY <1>t, <2>5, InTail DEF FieldRegister, TypeOK, IInv, FieldLists
    <3>. QED BY <1>g, <2>5, <3>1 DEF FieldRegister
  <2>6. CASE FieldResult BY <1>g, <2>6 DEF FieldResult, In
  <2>7. ASSUME NEW s \in Sessions, AcceptInsert(s) PROVE Good'
    BY <1>t, <1>g, <2>7 DEF AcceptInsert, In, TypeOK
  <2>8. ASSUME NEW s \in Sessions, AuthDrop(s) PROVE Good'
    <3>1. s \in authPlayers /\ s \notin fieldPlayers /\ ~In(mMsgQ, s)
      BY <2>8 DEF AuthDrop, IInv, AuthLists, PlaceInv
    <3>. QED BY <1>t, <1>g, <2>8, <3>1 DEF AuthDrop, Delete, In, TypeOK
  <2>9. ASSUME NEW s \in Sessions, AuthEnter(s) PROVE Good'
    <3>1. s \in authPlayers BY <2>9 DEF AuthEnter, IInv, AuthLists
    <3>2. \A x : In(Append(mMsgQ, s), x) <=> In(mMsgQ, x) \/ x = s
      BY <1>t, InAppend DEF TypeOK
    <3>. QED BY <1>t, <1>g, <2>9, <3>1, <3>2 DEF AuthEnter, enterField
  <2>. QED BY <2>1, <2>2, <2>3, <2>4, <2>5, <2>6, <2>7, <2>8, <2>9, PlaceSteps
<1>. QED BY <1>1 DEF AliveInv

(* What a step does to a queue is what it does to its set of elements. *)
LEMMA QueueFacts ==
  ASSUME IInv
  PROVE  /\ \A s \in Sessions :
              /\ \A x : In(Append(mMsgQ, s), x) <=> In(mMsgQ, x) \/ x = s
              /\ ~In(mMsgQ, s) => Once(Append(mMsgQ, s))
         /\ \A a \in Accounts :
              /\ \A x : In(Append(mNotifyMsgQ, a), x) <=> In(mNotifyMsgQ, x) \/ x = a
              /\ ~In(mNotifyMsgQ, a) => Once(Append(mNotifyMsgQ, a))
         /\ fieldPc = "msgs" /\ fieldN > 0 =>
              /\ Head(mMsgQ) \in Sessions /\ In(mMsgQ, Head(mMsgQ)) /\ Once(Tail(mMsgQ))
              /\ \A x : In(Tail(mMsgQ), x) <=> In(mMsgQ, x) /\ x # Head(mMsgQ)
         /\ authPc = "notify" /\ authN > 0 =>
              /\ Head(mNotifyMsgQ) \in Accounts /\ In(mNotifyMsgQ, Head(mNotifyMsgQ))
              /\ Once(Tail(mNotifyMsgQ))
              /\ \A x : In(Tail(mNotifyMsgQ), x) <=> In(mNotifyMsgQ, x) /\ x # Head(mNotifyMsgQ)
<1>1. mMsgQ \in Seq(Sessions) /\ mNotifyMsgQ \in Seq(Accounts) /\ Once(mMsgQ) /\ Once(mNotifyMsgQ)
  BY DEF IInv, TypeOK, PlaceInv
<1>2. fieldPc = "msgs" /\ fieldN > 0 => Len(mMsgQ) > 0 BY <1>1 DEF IInv, TypeOK, FieldLists
<1>3. authPc = "notify" /\ authN > 0 => Len(mNotifyMsgQ) > 0 BY <1>1 DEF IInv, TypeOK, AuthLists
<1>4. fieldPc = "msgs" /\ fieldN > 0 =>
        /\ Head(mMsgQ) \in Sessions /\ In(mMsgQ, Head(mMsgQ)) /\ Once(Tail(mMsgQ))
        /\ \A x : In(Tail(mMsgQ), x) <=> In(mMsgQ, x) /\ x # Head(mMsgQ)
  BY <1>1, <1>2, InTail
<1>5. authPc = "notify" /\ authN > 0 =>
        /\ Head(mNotifyMsgQ) \in Accounts /\ In(mNotifyMsgQ, Head(mNotifyMsgQ)) /\ Once(Tail(mNotifyMsgQ))
        /\ \A x : In(Tail(mNotifyMsgQ), x) <=> In(mNotifyMsgQ, x) /\ x # Head(mNotifyMsgQ)
  BY <1>1, <1>3, InTail
<1>6. ASSUME NEW s \in Sessions
      PROVE  /\ \A x : In(Append(mMsgQ, s), x) <=> In(mMsgQ, x) \/ x = s
             /\ ~In(mMsgQ, s) => Once(Append(mMsgQ, s))
  BY <1>1, InAppend
<1>7. ASSUME NEW a \in Accounts
      PROVE  /\ \A x : In(Append(mNotifyMsgQ, a), x) <=> In(mNotifyMsgQ, x) \/ x = a
             /\ ~In(mNotifyMsgQ, a) => Once(Append(mNotifyMsgQ, a))
  BY <1>1, InAppend
<1>. QED BY <1>4, <1>5, <1>6, <1>7

(* The account a message in mNotifyMsgQ names is that of the Player given back. *)
LEMMA GivenBackIs ==
  ASSUME IInv, NEW s \in Sessions
  PROVE  /\ GivenBack(s) <=> mAccountNo[s] # None /\ In(mNotifyMsgQ, mAccountNo[s])
                               /\ mAccountsHash[mAccountNo[s]] = s
         /\ GivenBack(s)' <=> mAccountNo'[s] # None /\ In(mNotifyMsgQ', mAccountNo'[s])
                               /\ mAccountsHash'[mAccountNo'[s]] = s
BY DEF GivenBack, In

(* A message in mNotifyMsgQ names the account of a Player that nobody else has. *)
LEMMA NotifyHead ==
  ASSUME IInv, NEW a \in Accounts, In(mNotifyMsgQ, a)
  PROVE  /\ mAccountsHash[a] \in Sessions /\ mAccountNo[mAccountsHash[a]] = a
         /\ GivenBack(mAccountsHash[a])
<1>1. mAccountsHash[a] \in Sessions BY DEF IInv, TypeOK, AccountInv
<1>2. mAccountNo[mAccountsHash[a]] = a /\ a # None BY <1>1, LifecycleAssumption DEF IInv, AccountInv
<1>. QED BY <1>1, <1>2, GivenBackIs

(* The Player an answer of the db thread is for is in the field, disconnected. *)
LEMMA ResultHead ==
  ASSUME IInv, FieldResult
  PROVE  LET s == Head(mDBResQ) IN
         /\ s \in fieldPlayers /\ s \in pending /\ ~mBConnect[s] /\ s \in Sessions
         /\ mAccountNo[s] \in Accounts /\ mAccountsHash[mAccountNo[s]] = s
         /\ ~In(mNotifyMsgQ, mAccountNo[s]) /\ s \notin mUnAuthSessions \cup authPlayers
         /\ ~In(mMsgQ, s)
         /\ \/ mNotifyMsgQ' = mNotifyMsgQ /\ fieldPlayers' = fieldPlayers
            \/ mNotifyMsgQ' = Append(mNotifyMsgQ, mAccountNo[s]) /\ fieldPlayers' = fieldPlayers \ {s}
<1>. DEFINE s == Head(mDBResQ)
<1>1. s \in Sessions /\ In(mDBResQ, s)
  BY InTail DEF FieldResult, IInv, TypeOK, FieldLists
<1>2. s \in pending /\ s \in fieldPlayers /\ ~mBConnect[s] BY <1>1 DEF IInv, SaveInv
<1>3. mAccountNo[s] \in Accounts /\ mAccountsHash[mAccountNo[s]] = s BY <1>1, <1>2, Playing
<1>4. ~GivenBack(s) /\ s \notin mUnAuthSessions \cup authPlayers /\ ~In(mMsgQ, s)
  BY <1>1, <1>2 DEF IInv, PlaceInv
<1>5. ~In(mNotifyMsgQ, mAccountNo[s]) BY <1>1, <1>3, <1>4, GivenBackIs, LifecycleAssumption
<1>6. \/ mNotifyMsgQ' = mNotifyMsgQ /\ fieldPlayers' = fieldPlayers
      \/ mNotifyMsgQ' = Append(mNotifyMsgQ, mAccountNo[s]) /\ fieldPlayers' = fieldPlayers \ {s}
  BY <1>2 DEF FieldResult, notifyDisconnect, Enqueue
<1>. QED BY <1>1, <1>2, <1>3, <1>4, <1>5, <1>6

(* A Player stays in exactly one place. *)
LEMMA PlaceStep ==
  ASSUME IInv, [Next]_vars
  PROVE  PlaceInv'
<1>. DEFINE G(s) == /\ mAccountNo[s] # None /\ In(mNotifyMsgQ, mAccountNo[s])
                    /\ mAccountsHash[mAccountNo[s]] = s
            Good == /\ fieldPlayers \cap (authPlayers \cup mUnAuthSessions) = {}
                    /\ \A s \in authPlayers \cup fieldPlayers \cup mUnAuthSessions : ~In(mMsgQ, s)
                    /\ Once(mMsgQ) /\ Once(mNotifyMsgQ)
                    /\ \A s \in Sessions : G(s) =>
                         s \notin authPlayers \cup fieldPlayers \cup mUnAuthSessions /\ ~In(mMsgQ, s)
                    /\ \A s \in Sessions : player[s] = "alive" =>
                         s \in authPlayers \cup fieldPlayers \cup mUnAuthSessions \/ In(mMsgQ, s) \/ G(s)
            Cut == \A s \in Sessions : G(s)' => ~mBConnect[s]
<1>t. TypeOK /\ AliveInv BY DEF IInv
<1>g. Good BY GivenBackIs DEF IInv, PlaceInv
<1>b. \A s \in Sessions : G(s) => ~mBConnect[s] BY GivenBackIs DEF IInv, PlaceInv
<1>1. Good' /\ Cut
  <2>1. CASE UNCHANGED <<player, mNextFieldID, mAccountNo, mUnAuthSessions, mAccountsHash, mMsgQ, mNotifyMsgQ,
                         authPlayers, fieldPlayers>>
    BY <1>g, <1>b, <2>1 DEF In, Once
  <2>2. CASE AuthCopy
    <3>1. \A s \in mUnAuthSessions : s \notin fieldPlayers /\ ~In(mMsgQ, s) BY <1>g
    <3>. QED BY <1>g, <1>b, <2>2, <3>1 DEF AuthCopy, In, Once
  <2>3. CASE AuthPromote
    <3>. DEFINE s == cur.s
                a == cur.acct
    <3>1. /\ s \in Sessions /\ a \in Accounts /\ s \in authPlayers /\ mAccountNo[s] = None
      BY <2>3 DEF AuthPromote, IInv, AuthLists, Logins
    <3>2. CASE UNCHANGED <<mAccountNo, mapVars>>
      BY <1>g, <1>b, <2>3, <3>2 DEF AuthPromote, In, Once
    <3>3. CASE ~UNCHANGED <<mAccountNo, mapVars>>
      <4>1. /\ mAccountsHash[a] = None /\ s \in mUnAuthSessions
            /\ mUnAuthSessions' = mUnAuthSessions \ {s}
            /\ mAccountNo' = [mAccountNo EXCEPT ![s] = a]
            /\ mAccountsHash' = [mAccountsHash EXCEPT ![a] = s]
            /\ UNCHANGED <<player, mMsgQ, mNotifyMsgQ, authPlayers, fieldPlayers>>
        BY <2>3, <3>3 DEF AuthPromote, InitPlayerInfo
      <4>2. ~In(mNotifyMsgQ, a) BY <3>1, <4>1 DEF IInv, AccountInv
      <4>3. \A r \in Sessions : G(r)' <=> G(r)
        BY <1>t, <3>1, <4>1, <4>2, LifecycleAssumption DEF TypeOK
      <4>. QED BY <1>g, <1>b, <3>1, <4>1, <4>3 DEF Once
    <3>. QED BY <3>2, <3>3
  <2>4. CASE AuthNotify
    <3>. DEFINE a == Head(mNotifyMsgQ)
                s == mAccountsHash[a]
    <3>1. /\ a \in Accounts /\ In(mNotifyMsgQ, a) /\ Once(Tail(mNotifyMsgQ))
          /\ \A x : In(Tail(mNotifyMsgQ), x) <=> In(mNotifyMsgQ, x) /\ x # a
      BY <2>4, QueueFacts DEF AuthNotify
    <3>2. s \in Sessions /\ mAccountNo[s] = a /\ G(s) BY <3>1, NotifyHead, GivenBackIs
    <3>3. /\ mNotifyMsgQ' = Tail(mNotifyMsgQ) /\ authPlayers' = authPlayers \cup {s}
          /\ mAccountsHash' = [mAccountsHash EXCEPT ![a] = None]
          /\ UNCHANGED <<player, mAccountNo, mUnAuthSessions, mMsgQ, fieldPlayers>>
      BY <2>4, <3>2, LifecycleAssumption DEF AuthNotify
    <3>4. \A r \in Sessions : G(r)' <=> G(r) /\ r # s
      BY <1>t, <3>1, <3>2, <3>3, LifecycleAssumption DEF TypeOK
    <3>. QED BY <1>g, <1>b, <3>1, <3>2, <3>3, <3>4
  <2>5. CASE FieldRegister
    <3>. DEFINE s == Head(mMsgQ)
    <3>1. /\ s \in Sessions /\ In(mMsgQ, s) /\ Once(Tail(mMsgQ))
          /\ \A x : In(Tail(mMsgQ), x) <=> In(mMsgQ, x) /\ x # s
      BY <2>5, QueueFacts DEF FieldRegister
    <3>2. /\ mMsgQ' = Tail(mMsgQ) /\ fieldPlayers' = fieldPlayers \cup {s}
          /\ UNCHANGED <<player, mAccountNo, mUnAuthSessions, mAccountsHash, mNotifyMsgQ, authPlayers>>
      BY <2>5 DEF FieldRegister
    <3>. QED BY <1>g, <1>b, <3>1, <3>2
  <2>6. CASE FieldResult
    <3>. DEFINE s == Head(mDBResQ)
    <3>1. UNCHANGED <<player, mAccountNo, mUnAuthSessions, mAccountsHash, mMsgQ, authPlayers>>
      BY <2>6 DEF FieldResult
    <3>2. CASE mNotifyMsgQ' = mNotifyMsgQ /\ fieldPlayers' = fieldPlayers
      BY <1>g, <1>b, <3>1, <3>2
    <3>3. CASE mNotifyMsgQ' = Append(mNotifyMsgQ, mAccountNo[s]) /\ fieldPlayers' = fieldPlayers \ {s}
      <4>1. /\ s \in Sessions /\ s \in fieldPlayers /\ ~mBConnect[s] /\ mAccountNo[s] \in Accounts
            /\ mAccountsHash[mAccountNo[s]] = s /\ ~In(mNotifyMsgQ, mAccountNo[s])
            /\ s \notin mUnAuthSessions \cup authPlayers /\ ~In(mMsgQ, s)
        BY <2>6, ResultHead
      <4>2. /\ Once(mNotifyMsgQ')
            /\ \A x : In(mNotifyMsgQ', x) <=> In(mNotifyMsgQ, x) \/ x = mAccountNo[s]
        BY <3>3, <4>1, QueueFacts
      <4>3. \A r \in Sessions : G(r)' <=> G(r) \/ r = s
        BY <3>1, <4>1, <4>2, LifecycleAssumption
      <4>. QED BY <1>g, <1>b, <3>1, <3>3, <4>1, <4>2, <4>3
    <3>. QED BY <2>6, <3>2, <3>3, ResultHead
  <2>7. ASSUME NEW s \in Sessions, AcceptInsert(s) PROVE Good' /\ Cut
    <3>1. s \notin fieldPlayers /\ ~In(mMsgQ, s) /\ mAccountNo[s] = None
      BY <2>7 DEF AcceptInsert, IInv, SessInv, AliveInv
    <3>2. /\ mUnAuthSessions' = mUnAuthSessions \cup {s} /\ player' = [player EXCEPT ![s] = "alive"]
          /\ UNCHANGED <<mAccountNo, mAccountsHash, mMsgQ, mNotifyMsgQ, authPlayers, fieldPlayers>>
      BY <2>7 DEF AcceptInsert
    <3>. QED BY <1>t, <1>g, <1>b, <3>1, <3>2 DEF TypeOK
  <2>8. ASSUME NEW s \in Sessions, AuthDrop(s) PROVE Good' /\ Cut
    <3>1. /\ s \in authPlayers /\ s \notin fieldPlayers /\ ~In(mMsgQ, s)
          /\ mAccountNo[s] # None => ~In(mNotifyMsgQ, mAccountNo[s])
      <4>1. s \in authPlayers BY <2>8 DEF AuthDrop, IInv, AuthLists
      <4>2. ASSUME mAccountNo[s] # None PROVE ~In(mNotifyMsgQ, mAccountNo[s])
        <5>1. CASE mAccountsHash[mAccountNo[s]] = s BY <1>g, <4>1, <4>2, <5>1
        <5>2. CASE mAccountsHash[mAccountNo[s]] # s
          BY <1>t, <4>2, <5>2 DEF IInv, AccountInv, Leaving, TypeOK
        <5>. QED BY <5>1, <5>2
      <4>. QED BY <1>g, <4>1, <4>2
    <3>2. /\ player' = [player EXCEPT ![s] = "deleted"] /\ authPlayers' = authPlayers \ {s}
          /\ mAccountNo' = [mAccountNo EXCEPT ![s] = None]
          /\ mUnAuthSessions' = mUnAuthSessions \ {s}
          /\ \/ UNCHANGED mAccountsHash
             \/ mAccountNo[s] # None /\ mAccountsHash' = [mAccountsHash EXCEPT ![mAccountNo[s]] = None]
          /\ UNCHANGED <<mMsgQ, mNotifyMsgQ, fieldPlayers>>
      BY <2>8 DEF AuthDrop, Delete
    <3>3. \A r \in Sessions : G(r)' <=> G(r)
      <4>1. ~G(s) /\ ~G(s)' BY <1>t, <1>g, <3>1, <3>2 DEF TypeOK
      <4>2. ASSUME NEW r \in Sessions, r # s PROVE G(r)' <=> G(r)
        <5>1. mAccountNo'[r] = mAccountNo[r] BY <1>t, <3>2, <4>2 DEF TypeOK
        <5>2. CASE mAccountNo[r] # None /\ In(mNotifyMsgQ, mAccountNo[r])
          <6>1. mAccountNo[r] # mAccountNo[s] BY <3>1, <5>2
          <6>2. mAccountsHash'[mAccountNo[r]] = mAccountsHash[mAccountNo[r]]
            BY <1>t, <3>2, <5>2, <6>1 DEF TypeOK
          <6>. QED BY <3>2, <5>1, <6>2
        <5>3. CASE ~(mAccountNo[r] # None /\ In(mNotifyMsgQ, mAccountNo[r]))
          BY <3>2, <5>1, <5>3
        <5>. QED BY <5>2, <5>3
      <4>. QED BY <4>1, <4>2
    <3>. QED BY <1>t, <1>g, <1>b, <3>1, <3>2, <3>3 DEF TypeOK
  <2>9. ASSUME NEW s \in Sessions, AuthEnter(s) PROVE Good' /\ Cut
    <3>1. CASE UNCHANGED <<authPlayers, mMsgQ>>
      BY <1>g, <1>b, <2>9, <3>1 DEF AuthEnter
    <3>2. CASE enterField(s)
      <4>1. s \in authPlayers /\ s \notin fieldPlayers /\ ~In(mMsgQ, s) /\ s \notin mUnAuthSessions /\ ~G(s)
        BY <1>g, <2>9 DEF AuthEnter, IInv, AuthLists, AccountInv
      <4>2. /\ mMsgQ' = Append(mMsgQ, s) /\ authPlayers' = authPlayers \ {s}
            /\ UNCHANGED <<player, mAccountNo, mUnAuthSessions, mAccountsHash, mNotifyMsgQ, fieldPlayers>>
        BY <2>9, <3>2 DEF AuthEnter, enterField
      <4>3. Once(mMsgQ') /\ \A x : In(mMsgQ', x) <=> In(mMsgQ, x) \/ x = s
        BY <4>1, <4>2, QueueFacts
      <4>. QED BY <1>g, <1>b, <4>1, <4>2, <4>3
    <3>. QED BY <2>9, <3>1, <3>2 DEF AuthEnter
  <2>. QED BY <2>1, <2>2, <2>3, <2>4, <2>5, <2>6, <2>7, <2>8, <2>9, PlaceSteps
<1>2. \A s \in Sessions : G(s)' => ~mBConnect'[s] BY <1>1, ConnStep
<1>. QED BY <1>1, <1>2, GivenBackIs DEF PlaceInv

-----------------------------------------------------------------------------
(* Who plays which account. *)

(* A Player whose account is free is deleted before the loops of this round    *)
(* end: the steps that change neither places nor accounts keep it on the lists. *)
LEMMA LeavingStep ==
  ASSUME IInv, [Next]_vars, NoCut, NEW s \in Sessions, Leaving(s),
         UNCHANGED <<player, mAccountNo, mAccountsHash, authPlayers>>
  PROVE  Leaving(s)'
<1>1. s \in authPlayers /\ ~mBConnect[s] /\ mAccountsHash[mAccountNo[s]] = None
      /\ (authPc = "notify" \/ (authPc = "leave" /\ s \in authTodo \cup authD))
  BY DEF Leaving
<1>2. ~mBConnect'[s] BY <1>1, ConnStep
<1>3. authPc' = "notify" \/ (authPc' = "leave" /\ s \in authTodo' \cup authD')
  <2>1. CASE UNCHANGED <<authPc, authPlayers, authTodo, cur, authN, authD, authL>> BY <1>1, <2>1
  <2>2. ~AuthConnect /\ ~AuthTop /\ ~AuthCopy /\ ~AuthInsert /\ ~AuthPromote /\ ~AuthLoginEnd
    BY <1>1 DEF AuthConnect, AuthTop, AuthCopy, AuthInsert, AuthPromote, AuthLoginEnd
  <2>3. CASE AuthNotify
    <3>1. Head(mNotifyMsgQ) \in Accounts /\ In(mNotifyMsgQ, Head(mNotifyMsgQ))
      BY <2>3, QueueFacts DEF AuthNotify
    <3>2. mAccountsHash[Head(mNotifyMsgQ)] # None BY <3>1 DEF IInv, AccountInv
    <3>. QED BY <2>3, <3>2 DEF AuthNotify
  <2>4. CASE AuthNotifyEnd BY <1>1, <2>4 DEF AuthNotifyEnd
  <2>5. ~AuthHeartBeat BY <1>1 DEF AuthHeartBeat
  <2>6. ~Start BY <1>1 DEF Start, IInv, StartInv
  <2>7. ASSUME NEW r \in Sessions, AuthSelect(r) \/ AuthNext(r) PROVE FALSE
    BY <1>1, <2>7 DEF AuthSelect, AuthNext, TakeAuthReq
  <2>8. ASSUME NEW r \in Sessions, AuthCollect(r)
        PROVE  authPc' = "leave" /\ s \in authTodo' \cup authD'
    <3>1. authTodo' = authTodo \ {r} BY <2>8 DEF NoCut
    <3>2. CASE s = r BY <1>1, <2>8, <3>2 DEF AuthCollect
    <3>3. CASE s # r BY <1>1, <2>8, <3>1, <3>3 DEF AuthCollect
    <3>. QED BY <3>2, <3>3
  <2>9. ASSUME NEW r \in Sessions, AuthDrop(r) PROVE FALSE
    <3>1. r \in authPlayers /\ player[r] = "alive"
      BY <2>9 DEF AuthDrop, IInv, AuthLists, AliveInv
    <3>. QED BY <2>9, <3>1 DEF AuthDrop, Delete, IInv, TypeOK
  <2>10. ASSUME NEW r \in Sessions, AuthEnter(r)
         PROVE  authPc' = "leave" /\ s \in authTodo' \cup authD'
    BY <1>1, <2>10 DEF AuthEnter
  <2>. QED BY <2>1, <2>2, <2>3, <2>4, <2>5, <2>6, <2>7, <2>8, <2>9, <2>10, AuthSteps
<1>. QED BY <1>1, <1>2, <1>3 DEF Leaving

(* The account table, and the account numbers of the Players. *)
LEMMA AccountStep ==
  ASSUME IInv, [Next]_vars, NoCut
  PROVE  AccountInv'
<1>. DEFINE T1 == \A a \in Accounts : mAccountsHash[a] # None => mAccountNo[mAccountsHash[a]] = a
            T2(s) == mAccountNo[s] # None => mAccountsHash[mAccountNo[s]] = s \/ Leaving(s)
            T3 == \A s \in Sessions : mNextFieldID[s] = "field" <=> mAccountNo[s] # None
            T4 == \A s \in mUnAuthSessions : mAccountNo[s] = None
            T5 == \A s \in Sessions : s \in fieldPlayers \/ In(mMsgQ, s) => mAccountNo[s] # None
            T6 == \A a \in Accounts : In(mNotifyMsgQ, a) => mAccountsHash[a] # None
            Good == T1 /\ (\A s \in Sessions : T2(s)) /\ T3 /\ T4 /\ T5 /\ T6
<1>t. TypeOK /\ AliveInv BY DEF IInv
<1>g. Good BY DEF IInv, AccountInv
<1>l. ASSUME UNCHANGED <<player, mAccountNo, mAccountsHash, authPlayers>>
      PROVE  \A s \in Sessions : T2(s)'
  BY <1>g, <1>l, LeavingStep
<1>n. ASSUME authPc \notin {"notify", "leave"}
      PROVE  \A s \in Sessions : mAccountNo[s] # None => mAccountsHash[mAccountNo[s]] = s
  BY <1>g, <1>n DEF Leaving
<1>1. Good'
  <2>1. CASE UNCHANGED <<player, mNextFieldID, mAccountNo, mUnAuthSessions, mAccountsHash, mMsgQ, mNotifyMsgQ,
                         authPlayers, fieldPlayers>>
    BY <1>g, <1>l, <2>1 DEF In
  <2>2. CASE AuthCopy
    <3>1. UNCHANGED <<mNextFieldID, mAccountNo, mUnAuthSessions, mAccountsHash, mMsgQ, mNotifyMsgQ, fieldPlayers>>
      BY <2>2 DEF AuthCopy
    <3>2. \A s \in Sessions : T2(s)' BY <1>n, <2>2, <3>1 DEF AuthCopy
    <3>. QED BY <1>g, <3>1, <3>2
  <2>3. CASE AuthPromote
    <3>. DEFINE s == cur.s
                a == cur.acct
    <3>1. s \in Sessions /\ a \in Accounts /\ s \in authPlayers /\ mAccountNo[s] = None
      BY <2>3 DEF AuthPromote, IInv, AuthLists, Logins
    <3>2. CASE UNCHANGED <<mNextFieldID, mAccountNo, mapVars>>
      BY <1>g, <1>l, <2>3, <3>2 DEF AuthPromote
    <3>3. CASE ~UNCHANGED <<mNextFieldID, mAccountNo, mapVars>>
      <4>1. /\ mAccountsHash[a] = None /\ s \in mUnAuthSessions
            /\ mUnAuthSessions' = mUnAuthSessions \ {s}
            /\ mAccountNo' = [mAccountNo EXCEPT ![s] = a]
            /\ mNextFieldID' = [mNextFieldID EXCEPT ![s] = "field"]
            /\ mAccountsHash' = [mAccountsHash EXCEPT ![a] = s]
            /\ UNCHANGED <<mMsgQ, mNotifyMsgQ, authPlayers, fieldPlayers>>
        BY <2>3, <3>3 DEF AuthPromote, InitPlayerInfo
      <4>2. \A r \in Sessions : mAccountNo[r] # None => mAccountsHash[mAccountNo[r]] = r
        BY <1>n, <2>3 DEF AuthPromote
      <4>3. \A r \in Sessions : mAccountNo'[r] # None => mAccountsHash'[mAccountNo'[r]] = r
        BY <1>t, <3>1, <4>1, <4>2, LifecycleAssumption DEF TypeOK
      <4>4. T1'
        BY <1>t, <1>g, <3>1, <4>1, LifecycleAssumption DEF TypeOK
      <4>. QED BY <1>t, <1>g, <3>1, <4>1, <4>3, <4>4, LifecycleAssumption DEF TypeOK
    <3>. QED BY <3>2, <3>3
  <2>4. CASE AuthNotify
    <3>. DEFINE a == Head(mNotifyMsgQ)
                s == mAccountsHash[a]
    <3>1. /\ a \in Accounts /\ In(mNotifyMsgQ, a)
          /\ \A x : In(Tail(mNotifyMsgQ), x) <=> In(mNotifyMsgQ, x) /\ x # a
      BY <2>4, QueueFacts DEF AuthNotify
    <3>2. s \in Sessions /\ mAccountNo[s] = a /\ ~mBConnect[s]
      BY <3>1, NotifyHead DEF IInv, PlaceInv
    <3>3. /\ mNotifyMsgQ' = Tail(mNotifyMsgQ) /\ authPlayers' = authPlayers \cup {s}
          /\ mAccountsHash' = [mAccountsHash EXCEPT ![a] = None]
          /\ authPc = "notify" /\ authPc' = "notify"
          /\ UNCHANGED <<mNextFieldID, mAccountNo, mUnAuthSessions, mMsgQ, fieldPlayers, mBConnect>>
      BY <2>4, <3>2, LifecycleAssumption DEF AuthNotify
    <3>4. \A r \in Sessions : T2(r)'
      <4>1. ASSUME NEW r \in Sessions, mAccountNo[r] # None
            PROVE  mAccountsHash'[mAccountNo[r]] = r \/ Leaving(r)'
        <5>1. CASE r = s
          BY <1>t, <3>1, <3>2, <3>3, <5>1 DEF Leaving, TypeOK
        <5>2. CASE r # s /\ mAccountsHash[mAccountNo[r]] = r
          BY <1>t, <3>1, <3>3, <5>2, <4>1 DEF TypeOK
        <5>3. CASE Leaving(r)
          BY <1>t, <3>1, <3>3, <5>3, <4>1 DEF Leaving, TypeOK
        <5>. QED BY <1>g, <4>1, <5>1, <5>2, <5>3
      <4>. QED BY <3>3, <4>1
    <3>5. T1' BY <1>t, <1>g, <3>1, <3>3 DEF TypeOK
    <3>. QED BY <1>t, <1>g, <3>1, <3>2, <3>3, <3>4, <3>5 DEF TypeOK
  <2>5. CASE FieldRegister
    <3>. DEFINE s == Head(mMsgQ)
    <3>1. /\ s \in Sessions /\ In(mMsgQ, s)
          /\ \A x : In(Tail(mMsgQ), x) <=> In(mMsgQ, x) /\ x # s
      BY <2>5, QueueFacts DEF FieldRegister
    <3>2. /\ mMsgQ' = Tail(mMsgQ) /\ fieldPlayers' = fieldPlayers \cup {s}
          /\ UNCHANGED <<player, mNextFieldID, mAccountNo, mUnAuthSessions, mAccountsHash, mNotifyMsgQ, authPlayers>>
      BY <2>5 DEF FieldRegister
    <3>. QED BY <1>g, <1>l, <3>1, <3>2
  <2>6. CASE FieldResult
    <3>. DEFINE s == Head(mDBResQ)
    <3>1. UNCHANGED <<player, mNextFieldID, mAccountNo, mUnAuthSessions, mAccountsHash, mMsgQ, authPlayers>>
      BY <2>6 DEF FieldResult
    <3>2. /\ s \in Sessions /\ mAccountNo[s] \in Accounts /\ mAccountsHash[mAccountNo[s]] = s
          /\ fieldPlayers' \subseteq fieldPlayers
          /\ mNotifyMsgQ' = mNotifyMsgQ \/ mNotifyMsgQ' = Append(mNotifyMsgQ, mAccountNo[s])
      BY <2>6, ResultHead
    <3>3. \A x : In(mNotifyMsgQ', x) => In(mNotifyMsgQ, x) \/ x = mAccountNo[s]
      <4>1. CASE mNotifyMsgQ' = mNotifyMsgQ BY <4>1
      <4>2. CASE mNotifyMsgQ' = Append(mNotifyMsgQ, mAccountNo[s]) BY <3>2, <4>2, QueueFacts
      <4>. QED BY <3>2, <4>1, <4>2
    <3>. QED BY <1>g, <1>l, <3>1, <3>2, <3>3, LifecycleAssumption
  <2>7. ASSUME NEW s \in Sessions, AcceptInsert(s) PROVE Good'
    <3>1. mAccountNo[s] = None BY <2>7 DEF AcceptInsert, IInv, SessInv, AliveInv
    <3>2. /\ mUnAuthSessions' = mUnAuthSessions \cup {s}
          /\ UNCHANGED <<mNextFieldID, mAccountNo, mAccountsHash, mMsgQ, mNotifyMsgQ, authPlayers, fieldPlayers,
                         mBConnect, authPc, authTodo, authD>>
      BY <2>7 DEF AcceptInsert
    <3>3. \A r \in Sessions : T2(r)' BY <1>g, <3>2 DEF Leaving
    <3>. QED BY <1>g, <3>1, <3>2, <3>3
  <2>8. ASSUME NEW s \in Sessions, AuthDrop(s) PROVE Good'
    <3>. DEFINE a == mAccountNo[s]
    <3>1. s \in authPlayers /\ s \notin fieldPlayers /\ ~In(mMsgQ, s) /\ ~GivenBack(s)
      BY <2>8 DEF AuthDrop, IInv, AuthLists, PlaceInv
    <3>2. a # None => a \in Accounts /\ ~In(mNotifyMsgQ, a)
                        /\ (mAccountsHash[a] = s \/ mAccountsHash[a] = None)
      <4>1. a # None => a \in Accounts BY <1>t DEF TypeOK
      <4>. QED BY <1>g, <3>1, <4>1, GivenBackIs DEF Leaving
    <3>3. /\ mNextFieldID' = [mNextFieldID EXCEPT ![s] = "auth"]
          /\ authPlayers' = authPlayers \ {s} /\ authD' = authD \ {s}
          /\ mAccountNo' = [mAccountNo EXCEPT ![s] = None]
          /\ mUnAuthSessions' = mUnAuthSessions \ {s}
          /\ mAccountsHash' = IF s \in mUnAuthSessions \/ a = None THEN mAccountsHash
                              ELSE [mAccountsHash EXCEPT ![a] = None]
          /\ UNCHANGED <<mMsgQ, mNotifyMsgQ, fieldPlayers, mBConnect, authPc, authTodo>>
      BY <2>8 DEF AuthDrop, Delete
    <3>4. ASSUME NEW b \in Accounts PROVE mAccountsHash'[b] = IF b = a THEN None ELSE mAccountsHash[b]
      <4>1. s \in mUnAuthSessions => a = None BY <1>g
      <4>. QED BY <1>t, <3>2, <3>3, <3>4, <4>1, LifecycleAssumption DEF TypeOK
    <3>5. ASSUME NEW r \in Sessions PROVE T2(r)'
      <4>1. CASE r = s BY <1>t, <3>3, <4>1 DEF TypeOK
      <4>2. ASSUME r # s, mAccountNo[r] # None
            PROVE  mAccountsHash'[mAccountNo[r]] = r \/ Leaving(r)'
        <5>1. mAccountNo'[r] = mAccountNo[r] /\ mAccountNo[r] \in Accounts
          BY <1>t, <3>3, <4>2 DEF TypeOK
        <5>2. CASE mAccountsHash[mAccountNo[r]] = r
          <6>1. mAccountNo[r] # a BY <3>2, <4>2, <5>1, <5>2, LifecycleAssumption
          <6>. QED BY <3>4, <5>1, <5>2, <6>1
        <5>3. CASE Leaving(r)
          <6>1. mAccountsHash'[mAccountNo[r]] = None BY <3>4, <5>1, <5>3 DEF Leaving
          <6>. QED BY <3>3, <4>2, <5>1, <5>3, <6>1 DEF Leaving
        <5>. QED BY <1>g, <4>2, <5>2, <5>3
      <4>3. CASE r # s BY <1>t, <3>3, <4>2, <4>3 DEF TypeOK
      <4>. QED BY <4>1, <4>3
    <3>6. T1'
      <4>1. ASSUME NEW b \in Accounts, mAccountsHash'[b] # None
            PROVE  mAccountNo'[mAccountsHash'[b]] = b
        <5>1. b # a /\ mAccountsHash'[b] = mAccountsHash[b] BY <3>4, <4>1
        <5>2. mAccountsHash[b] \in Sessions /\ mAccountNo[mAccountsHash[b]] = b
          BY <1>t, <1>g, <4>1, <5>1 DEF TypeOK
        <5>. QED BY <1>t, <3>3, <5>1, <5>2 DEF TypeOK
      <4>. QED BY <4>1
    <3>7. T6' BY <1>g, <3>2, <3>3, <3>4, LifecycleAssumption
    <3>. QED BY <1>t, <1>g, <3>1, <3>3, <3>5, <3>6, <3>7 DEF TypeOK
  <2>9. ASSUME NEW s \in Sessions, AuthEnter(s) PROVE Good'
    <3>1. mAccountNo[s] # None /\ mAccountsHash[mAccountNo[s]] = s
      BY <2>9 DEF AuthEnter, IInv, AuthLists
    <3>2. /\ UNCHANGED <<mNextFieldID, mAccountNo, mUnAuthSessions, mAccountsHash, mNotifyMsgQ, fieldPlayers,
                         mBConnect, authPc, authTodo, authD>>
          /\ authPlayers' = authPlayers \/ authPlayers' = authPlayers \ {s}
          /\ mMsgQ' = mMsgQ \/ mMsgQ' = Append(mMsgQ, s)
      BY <2>9 DEF AuthEnter, enterField
    <3>3. \A x : In(mMsgQ', x) => In(mMsgQ, x) \/ x = s
      <4>1. CASE mMsgQ' = mMsgQ BY <4>1
      <4>2. CASE mMsgQ' = Append(mMsgQ, s) BY <4>2, QueueFacts
      <4>. QED BY <3>2, <4>1, <4>2
    <3>4. \A r \in Sessions : T2(r)' BY <1>g, <3>1, <3>2 DEF Leaving
    <3>. QED BY <1>g, <3>1, <3>2, <3>3, <3>4
  <2>. QED BY <2>1, <2>2, <2>3, <2>4, <2>5, <2>6, <2>7, <2>8, <2>9, PlaceSteps
<1>. QED BY <1>1 DEF AccountInv

(* Account numbers change by a login and by the deletion of the Player only. *)
LEMMA AccountNoSteps ==
  ASSUME [Next]_vars
  PROVE  \/ UNCHANGED <<mAccountNo, mNextFieldID>>
         \/ AuthPromote
         \/ \E s \in Sessions : AuthDrop(s)
BY PlayerSteps DEF AuthNotify, FieldFrame, FieldResult, AcceptInsert, Recv, AuthInvalid, AuthSelect, FieldSave

(* A client is told what became of its login. *)
LEMMA ToldStep ==
  ASSUME IInv, [Next]_vars
  PROVE  ToldRight'
<1>t. TypeOK BY DEF IInv
<1>g. \A s \in Sessions : s \in told <=> mAccountNo[s] # None BY DEF IInv, ToldRight
<1>. DEFINE Good == \A s \in Sessions : s \in told <=> mAccountNo[s] # None
<1>1. Good'
  <2>1. CASE AuthInsert
    <3>1. cur.s \in Sessions /\ mAccountNo[cur.s] = None
      BY <2>1 DEF AuthInsert, IInv, AuthLists, Logins
    <3>2. mAccountNo' = mAccountNo /\ (told' = told \/ told' = told \ {cur.s})
      BY <2>1 DEF AuthInsert, sendAuthFail
    <3>. QED BY <1>g, <3>1, <3>2
  <2>2. CASE AuthPromote
    <3>1. cur.s \in Sessions /\ cur.acct \in Accounts /\ mAccountNo[cur.s] = None
      BY <2>2 DEF AuthPromote, IInv, AuthLists, Logins
    <3>2. \/ mAccountNo' = mAccountNo /\ (told' = told \/ told' = told \ {cur.s})
          \/ mAccountNo' = [mAccountNo EXCEPT ![cur.s] = cur.acct] /\ told' = told \cup {cur.s}
      BY <2>2 DEF AuthPromote, sendAuthFail, InitPlayerInfo
    <3>. QED BY <1>t, <1>g, <3>1, <3>2, LifecycleAssumption DEF TypeOK
  <2>3. ASSUME NEW s \in Sessions, AuthInvalid(s) PROVE Good'
    <3>1. mAccountNo[s] = None /\ mAccountNo' = mAccountNo /\ told' = told \ {s}
      BY <2>3 DEF AuthInvalid, TakeAuthReq, sendAuthFail, IInv, AccountInv, TypeOK
    <3>. QED BY <1>g, <3>1
  <2>4. ASSUME NEW s \in Sessions, AuthDrop(s) PROVE Good'
    <3>1. mAccountNo' = [mAccountNo EXCEPT ![s] = None] /\ told' = told \ {s}
      BY <2>4 DEF AuthDrop, Delete
    <3>. QED BY <1>t, <1>g, <3>1 DEF TypeOK
  <2>5. CASE UNCHANGED <<told, mAccountNo>> BY <1>g, <2>5
  <2>6. told' = told \/ AuthInsert \/ AuthPromote \/ \E s \in Sessions : AuthInvalid(s) \/ AuthDrop(s)
    BY ClientSteps DEF Recv
  <2>. QED BY <2>1, <2>2, <2>3, <2>4, <2>5, <2>6, AccountNoSteps
<1>. QED BY <1>1 DEF ToldRight

-----------------------------------------------------------------------------
(* The lists of the loops. *)

(* The auth thread. *)
LEMMA AuthListsStep ==
  ASSUME IInv, [Next]_vars
  PROVE  AuthLists'
<1>t. TypeOK /\ AuthLists BY DEF IInv
<1>. DEFINE L1 == /\ authTodo \subseteq authPlayers /\ authD \subseteq authPlayers /\ authL \subseteq authPlayers
                  /\ authTodo \cap (authD \cup authL) = {} /\ authD \cap authL = {}
                  /\ authPc \in {"none", "connect", "top", "copy", "notify"} => authTodo = {}
                  /\ authPc # "leave" => authD = {} /\ authL = {}
<1>1. L1'
  <2>g. L1 BY <1>t DEF AuthLists
  <2>1. CASE UNCHANGED <<authPc, authPlayers, authTodo, cur, authN, authD, authL>> BY <2>g, <2>1
  <2>2. CASE AuthConnect BY <2>g, <2>2 DEF AuthConnect, AfterConnect
  <2>3. CASE AuthTop \/ AuthCopy \/ AuthPromote \/ AuthLoginEnd \/ AuthNotifyEnd \/ AuthHeartBeat
    BY <2>g, <2>3 DEF AuthTop, AuthCopy, AuthPromote, AuthLoginEnd, AuthNotifyEnd, AuthHeartBeat
  <2>4. CASE AuthInsert
    <3>1. authPc = "insert" /\ authPc' \in {"cdb_exception", "promote", "login"}
          /\ UNCHANGED <<authPlayers, authTodo, authD, authL>>
      BY <2>4 DEF AuthInsert, AfterCall
    <3>. QED BY <2>g, <3>1
  <2>5. CASE AuthNotify BY <2>g, <2>5 DEF AuthNotify
  <2>6. CASE Start BY <2>g, <2>6 DEF Start, IInv, StartInv
  <2>7. ASSUME NEW s \in Sessions, AuthSelect(s) PROVE L1'
    <3>1. authPc = "login" /\ authPc' \in {"cdb_exception", "promote", "insert"}
          /\ UNCHANGED <<authPlayers, authTodo, authD, authL>>
      BY <2>7 DEF AuthSelect, TakeAuthReq, AfterCall
    <3>. QED BY <2>g, <3>1
  <2>8. ASSUME NEW s \in Sessions, AuthNext(s) PROVE L1' BY <2>g, <2>8 DEF AuthNext
  <2>9. ASSUME NEW s \in Sessions, AuthCollect(s) PROVE L1'
    <3>1. authPc = "leave" /\ authPc' = "leave" /\ authPlayers' = authPlayers /\ s \in authTodo
      BY <2>9 DEF AuthCollect
    <3>2. authTodo' = authTodo \ {s} \/ authTodo' = {} BY <2>9 DEF AuthCollect, Rest
    <3>3. \/ ~mBConnect[s] /\ authD' = authD \cup {s} /\ authL' = authL
          \/ mBConnect[s] /\ authD' = authD /\ (authL' = authL \cup {s} \/ authL' = authL)
      BY <2>9 DEF AuthCollect
    <3>. QED BY <2>g, <3>1, <3>2, <3>3
  <2>10. ASSUME NEW s \in Sessions, AuthDrop(s) PROVE L1' BY <2>g, <2>10 DEF AuthDrop
  <2>11. ASSUME NEW s \in Sessions, AuthEnter(s) PROVE L1' BY <2>g, <2>11 DEF AuthEnter, enterField
  <2>. QED BY <2>1, <2>2, <2>3, <2>4, <2>5, <2>6, <2>7, <2>8, <2>9, <2>10, <2>11, AuthSteps
<1>2. \A s \in authD' : ~mBConnect'[s]
  <2>1. \A s \in authD' : s \in authD \/ ~mBConnect[s]
    BY AuthSteps
       DEF AuthConnect, AuthTop, AuthCopy, AuthInsert, AuthPromote, AuthLoginEnd, AuthNotify, AuthNotifyEnd,
           AuthHeartBeat, Start, AuthSelect, AuthNext, AuthCollect, AuthDrop, AuthEnter
  <2>2. \A s \in authD' : s \in Sessions /\ ~mBConnect[s]
    BY <1>t, <1>1, <2>1, TypeStep DEF AuthLists, TypeOK
  <2>. QED BY <2>2, ConnStep
<1>. DEFINE L3 == \A s \in authL : mAccountNo[s] # None /\ mAccountsHash[mAccountNo[s]] = s
<1>3. L3'
  <2>g. L3 /\ authL \subseteq Sessions BY <1>t DEF AuthLists, TypeOK
  <2>1. CASE authPc' # "leave" BY <1>1, <2>1
  <2>2. ASSUME NEW s \in Sessions, AuthCollect(s) PROVE L3'
    <3>1. CASE mBConnect[s] /\ mNextFieldID[s] # "auth"
      <4>1. mAccountNo[s] # None /\ mAccountsHash[mAccountNo[s]] = s
        BY <1>t, <3>1 DEF IInv, AccountInv, Leaving, TypeOK
      <4>. QED BY <2>g, <2>2, <4>1 DEF AuthCollect
    <3>2. CASE ~(mBConnect[s] /\ mNextFieldID[s] # "auth")
      BY <2>g, <2>2, <3>2 DEF AuthCollect
    <3>. QED BY <3>1, <3>2
  <2>3. ASSUME NEW r \in Sessions, AuthDrop(r) PROVE L3'
    <3>1. r \notin authL /\ (mAccountNo[r] # None =>
            mAccountsHash[mAccountNo[r]] = r \/ mAccountsHash[mAccountNo[r]] = None)
      BY <1>t, <2>3 DEF AuthDrop, AuthLists, IInv, AccountInv, Leaving
    <3>2. \A s \in authL : mAccountNo[s] # mAccountNo[r] BY <2>g, <3>1, LifecycleAssumption
    <3>3. /\ mAccountNo' = [mAccountNo EXCEPT ![r] = None] /\ authL' = authL
          /\ \/ UNCHANGED mAccountsHash
             \/ mAccountNo[r] # None /\ mAccountsHash' = [mAccountsHash EXCEPT ![mAccountNo[r]] = None]
      BY <2>3 DEF AuthDrop, Delete
    <3>. QED BY <1>t, <2>g, <3>1, <3>2, <3>3 DEF TypeOK
  <2>4. ASSUME authPc' = "leave", ~\E s \in Sessions : AuthCollect(s) \/ AuthDrop(s)
        PROVE  L3'
    <3>1. \/ UNCHANGED <<authPc, authPlayers, authTodo, cur, authN, authD, authL>>
          \/ AuthNotifyEnd \/ \E s \in Sessions : AuthEnter(s) \/ AuthNext(s)
      BY <2>4, AuthSteps
         DEF AuthConnect, AfterConnect, AuthTop, AuthCopy, AuthInsert, AfterCall, AuthPromote, AuthLoginEnd,
             AuthNotify, AuthHeartBeat, Start, AuthSelect
    <3>2. authL' \subseteq authL BY <3>1 DEF AuthNotifyEnd, AuthEnter, AuthNext
    <3>3. CASE UNCHANGED <<mAccountNo, mAccountsHash>> BY <2>g, <3>2, <3>3
    <3>4. ~AuthPromote /\ (AuthNotify => authL = {})
      BY <1>t, <2>4 DEF AuthPromote, AuthNotify, AuthLists
    <3>5. UNCHANGED <<mAccountNo, mAccountsHash>> \/ AuthNotify
      BY <2>4, <3>4, PlayerSteps
         DEF FieldFrame, FieldResult, AcceptInsert, Recv, AuthInvalid, AuthSelect, FieldSave
    <3>. QED BY <3>2, <3>3, <3>4, <3>5
  <2>. QED BY <2>1, <2>2, <2>3, <2>4
<1>4. (authPc \in {"insert", "promote"} =>
         cur \in Logins /\ cur.s \in authTodo /\ mAccountNo[cur.s] = None)'
  <2>1. ASSUME NEW s \in Sessions, AuthSelect(s)
        PROVE  cur' \in Logins /\ cur'.s \in authTodo' /\ mAccountNo'[cur'.s] = None
    <3>1. DeQueueMsgOrNull(s) \in Accounts
      BY <1>t, <2>1 DEF AuthSelect, TakeAuthReq, DeQueueMsgOrNull, TypeOK
    <3>2. cur' \in Logins /\ cur'.s = s
      BY <1>t, <2>1, <3>1, LifecycleAssumption DEF AuthSelect, Logins, TypeOK
    <3>3. s \in authTodo /\ mAccountNo[s] = None /\ UNCHANGED <<authTodo, mAccountNo>>
      BY <2>1 DEF AuthSelect, TakeAuthReq, IInv, AccountInv, TypeOK
    <3>. QED BY <3>2, <3>3
  <2>2. ASSUME authPc' \in {"insert", "promote"}, ~\E s \in Sessions : AuthSelect(s)
        PROVE  /\ authPc \in {"insert", "promote"} /\ UNCHANGED <<cur, authTodo, mAccountNo>>
    <3>1. CASE AuthInsert
      BY <2>2, <3>1 DEF AuthInsert, AfterCall
    <3>2. CASE UNCHANGED <<authPc, authPlayers, authTodo, cur, authN, authD, authL>> /\ ~AuthInsert
      BY <2>2, <3>2, AccountNoSteps DEF AuthPromote, AuthDrop
    <3>. QED BY <2>2, <3>1, <3>2, AuthSteps
         DEF AuthConnect, AfterConnect, AuthTop, AuthCopy, AuthPromote, AuthLoginEnd, AuthNotify,
             AuthNotifyEnd, AuthHeartBeat, Start, AuthNext, AuthCollect, AuthDrop, AuthEnter
  <2>. QED BY <1>t, <2>1, <2>2 DEF AuthLists
<1>5. (authPc = "notify" => authN <= Len(mNotifyMsgQ))'
  <2>t. /\ mNotifyMsgQ \in Seq(Accounts) /\ authN \in Nat /\ Len(mNotifyMsgQ) \in Nat
        /\ authPc = "notify" => authN <= Len(mNotifyMsgQ)
    BY <1>t DEF TypeOK, AuthLists
  <2>1. CASE AuthNotify
    <3>1. Len(mNotifyMsgQ) > 0 BY <2>t, <2>1 DEF AuthNotify
    <3>2. Len(Tail(mNotifyMsgQ)) = Len(mNotifyMsgQ) - 1 BY <2>t, <3>1, InTail
    <3>. QED BY <2>t, <2>1, <3>2 DEF AuthNotify
  <2>2. CASE AuthLoginEnd BY <2>t, <2>2 DEF AuthLoginEnd
  <2>3. ASSUME ~AuthNotify, ~AuthLoginEnd, authPc' = "notify"
        PROVE  authPc = "notify" /\ authN' = authN
    <3>1. ~AuthInsert /\ ~\E s \in Sessions : AuthSelect(s)
      BY <2>3 DEF AuthInsert, AuthSelect, AfterCall
    <3>. QED BY <2>3, <3>1, AuthSteps
         DEF AuthConnect, AfterConnect, AuthTop, AuthCopy, AuthPromote,
             AuthNotifyEnd, AuthHeartBeat, Start, AuthNext, AuthCollect, AuthDrop, AuthEnter
  <2>4. ~AuthNotify => Len(mNotifyMsgQ') >= Len(mNotifyMsgQ)
    <3>1. CASE FieldResult
      <4>1. mNotifyMsgQ' = mNotifyMsgQ \/ mNotifyMsgQ' = Append(mNotifyMsgQ, mAccountNo[Head(mDBResQ)])
        BY <3>1 DEF FieldResult, notifyDisconnect, Enqueue
      <4>. QED BY <2>t, <4>1
    <3>2. AuthNotify \/ FieldResult \/ mNotifyMsgQ' = mNotifyMsgQ
      BY QueueSteps DEF FieldRegister, DbUpdate, DbReply, AuthEnter, FieldSave
    <3>3. mNotifyMsgQ' = mNotifyMsgQ => Len(mNotifyMsgQ') >= Len(mNotifyMsgQ) BY <2>t
    <3>. QED BY <3>1, <3>2, <3>3
  <2>5. Len(mNotifyMsgQ') \in Nat BY TypeStep DEF TypeOK
  <2>. QED BY <2>t, <2>1, <2>2, <2>3, <2>4, <2>5
<1>. QED BY <1>1, <1>2, <1>3, <1>4, <1>5 DEF AuthLists

(* The field thread. *)
LEMMA FieldListsStep ==
  ASSUME IInv, [Next]_vars
  PROVE  FieldLists'
<1>t. TypeOK /\ FieldLists BY DEF IInv
<1>. DEFINE F1 == /\ fieldTodo \subseteq fieldPlayers /\ fieldD \subseteq fieldPlayers
                  /\ fieldPc \notin {"leave", "full_assert"} => fieldTodo = {} /\ fieldD = {}
<1>1. F1'
  <2>g. F1 BY <1>t DEF FieldLists
  <2>1. CASE UNCHANGED <<fieldPc, fieldPlayers, fieldTodo, fieldN, fieldD>> BY <2>g, <2>1
  <2>2. CASE FieldRegister \/ FieldMsgsEnd \/ FieldFrame \/ FieldSaveEnd \/ FieldResultsEnd
    BY <2>g, <2>2 DEF FieldRegister, FieldMsgsEnd, FieldFrame, FieldSaveEnd, FieldResultsEnd
  <2>3. CASE FieldResult
    <3>1. fieldTodo = {} /\ fieldD = {} /\ UNCHANGED <<fieldTodo, fieldD>>
      BY <2>g, <2>3 DEF FieldResult
    <3>. QED BY <3>1
  <2>4. CASE Start BY <2>g, <2>4 DEF Start, IInv, StartInv
  <2>5. ASSUME NEW s \in Sessions, FieldCollect(s) PROVE F1'
    <3>1. /\ fieldPc' = "leave" /\ fieldPlayers' = fieldPlayers
          /\ fieldTodo' \subseteq fieldTodo /\ fieldD' \subseteq fieldD \cup {s} /\ s \in fieldTodo
      BY <2>5 DEF FieldCollect, Rest
    <3>. QED BY <2>g, <3>1
  <2>6. ASSUME NEW s \in Sessions, FieldSave(s) PROVE F1'
    <3>1. /\ fieldPc' \in {"leave", "full_assert"}
          /\ fieldPlayers' = fieldPlayers /\ fieldTodo' = fieldTodo /\ fieldD' \subseteq fieldD
      BY <2>6 DEF FieldSave, AfterEnqueue
    <3>. QED BY <2>g, <3>1
  <2>. QED BY <2>1, <2>2, <2>3, <2>4, <2>5, <2>6, FieldSteps
<1>2. \A s \in fieldD' : ~mBConnect'[s]
  <2>1. \A s \in fieldD' : s \in fieldD \/ ~mBConnect[s]
    BY FieldSteps
       DEF FieldRegister, FieldMsgsEnd, FieldFrame, FieldSaveEnd, FieldResult, FieldResultsEnd, Start,
           FieldCollect, FieldSave
  <2>2. \A s \in fieldD' : s \in Sessions /\ ~mBConnect[s]
    BY <1>t, <1>1, <2>1, TypeStep DEF FieldLists, TypeOK
  <2>. QED BY <2>2, ConnStep
<1>3. (fieldPc = "msgs" => fieldN <= Len(mMsgQ))'
  <2>t. /\ mMsgQ \in Seq(Sessions) /\ fieldN \in Nat /\ Len(mMsgQ) \in Nat /\ Len(mMsgQ') \in Nat
        /\ fieldPc = "msgs" => fieldN <= Len(mMsgQ)
    BY <1>t, TypeStep DEF TypeOK, FieldLists
  <2>1. CASE FieldRegister
    <3>1. Len(mMsgQ) > 0 BY <2>t, <2>1 DEF FieldRegister
    <3>2. Len(Tail(mMsgQ)) = Len(mMsgQ) - 1 BY <2>t, <3>1, InTail
    <3>. QED BY <2>t, <2>1, <3>2 DEF FieldRegister
  <2>2. CASE FieldResultsEnd BY <2>t, <2>2 DEF FieldResultsEnd
  <2>3. CASE Start BY <2>t, <2>3 DEF Start, IInv, StartInv
  <2>4. ASSUME ~FieldRegister, ~FieldResultsEnd, ~Start, fieldPc' = "msgs"
        PROVE  fieldPc = "msgs" /\ fieldN' = fieldN
    BY <2>4, FieldSteps
       DEF FieldMsgsEnd, FieldFrame, FieldSaveEnd, FieldResult, AfterEnqueue, FieldCollect, FieldSave
  <2>5. FieldRegister \/ Len(mMsgQ') >= Len(mMsgQ)
    <3>1. ASSUME NEW s \in Sessions, AuthEnter(s) PROVE Len(mMsgQ') >= Len(mMsgQ)
      <4>1. mMsgQ' = mMsgQ \/ mMsgQ' = Append(mMsgQ, s) BY <3>1 DEF AuthEnter, enterField
      <4>. QED BY <2>t, <4>1
    <3>2. FieldRegister \/ (\E s \in Sessions : AuthEnter(s)) \/ mMsgQ' = mMsgQ
      BY QueueSteps DEF AuthNotify, FieldResult, DbUpdate, DbReply, FieldSave
    <3>3. mMsgQ' = mMsgQ => Len(mMsgQ') >= Len(mMsgQ) BY <2>t
    <3>. QED BY <3>1, <3>2, <3>3
  <2>. QED BY <2>t, <2>1, <2>2, <2>3, <2>4, <2>5
<1>4. (fieldPc = "results" => fieldN <= Len(mDBResQ))'
  <2>t. /\ mDBResQ \in Seq(Sessions) /\ fieldN \in Nat /\ Len(mDBResQ) \in Nat /\ Len(mDBResQ') \in Nat
        /\ fieldPc = "results" => fieldN <= Len(mDBResQ)
    BY <1>t, TypeStep DEF TypeOK, FieldLists
  <2>1. CASE FieldResult
    <3>1. Len(mDBResQ) > 0 BY <2>t, <2>1 DEF FieldResult
    <3>2. Len(Tail(mDBResQ)) = Len(mDBResQ) - 1 BY <2>t, <3>1, InTail
    <3>3. fieldPc = "results" /\ mDBResQ' = Tail(mDBResQ) /\ fieldN' = fieldN - 1
      BY <2>1 DEF FieldResult
    <3>. QED BY <2>t, <3>2, <3>3
  <2>2. CASE FieldSaveEnd BY <2>t, <2>2 DEF FieldSaveEnd
  <2>3. ASSUME ~FieldResult, ~FieldSaveEnd, fieldPc' = "results"
        PROVE  fieldPc = "results" /\ fieldN' = fieldN
    BY <2>3, FieldSteps
       DEF FieldRegister, FieldMsgsEnd, FieldFrame, FieldResultsEnd, Start, FieldCollect, FieldSave,
           AfterEnqueue
  <2>4. FieldResult \/ Len(mDBResQ') >= Len(mDBResQ)
    <3>1. CASE DbReply
      <4>1. mDBResQ' = mDBResQ \/ mDBResQ' = Append(mDBResQ, dbJob.s)
        BY <3>1 DEF DbReply, Enqueue
      <4>. QED BY <2>t, <4>1
    <3>2. FieldResult \/ DbReply \/ mDBResQ' = mDBResQ
      BY QueueSteps DEF AuthNotify, FieldRegister, DbUpdate, AuthEnter, FieldSave
    <3>3. mDBResQ' = mDBResQ => Len(mDBResQ') >= Len(mDBResQ) BY <2>t
    <3>. QED BY <3>1, <3>2, <3>3
  <2>. QED BY <2>t, <2>1, <2>2, <2>3, <2>4
<1>. QED BY <1>1, <1>2, <1>3, <1>4 DEF FieldLists

(* The db thread. *)
LEMMA DbListsStep ==
  ASSUME IInv, [Next]_vars
  PROVE  DbLists'
<1>t. /\ mDBReqQ \in Seq(Saves) /\ dbN \in Nat /\ Len(mDBReqQ) \in Nat /\ Len(mDBReqQ') \in Nat
      /\ dbN' \in Nat
      /\ dbPc \in {"jobs", "reply"} => dbN <= Len(mDBReqQ)
      /\ dbPc = "jobs" => dbN > 0
      /\ dbPc = "reply" => dbJob \in Saves
  BY TypeStep DEF IInv, TypeOK, DbLists
<1>1. CASE DbUpdate
  <2>1. Len(mDBReqQ) > 0 /\ Len(Tail(mDBReqQ)) = Len(mDBReqQ) - 1 /\ Head(mDBReqQ) \in Saves
    BY <1>t, <1>1, InTail DEF DbUpdate
  <2>2. /\ dbPc = "jobs" /\ dbPc' \in {"reply", "cdb_exception"}
        /\ mDBReqQ' = Tail(mDBReqQ) /\ dbN' = dbN - 1 /\ dbJob' = Head(mDBReqQ)
    BY <1>1 DEF DbUpdate
  <2>. QED BY <1>t, <2>1, <2>2 DEF DbLists
<1>2. ~DbUpdate => Len(mDBReqQ') >= Len(mDBReqQ)
  <2>1. ASSUME NEW s \in Sessions, FieldSave(s) PROVE Len(mDBReqQ') >= Len(mDBReqQ)
    <3>1. s \in fieldPlayers BY <2>1 DEF FieldSave, IInv, FieldLists
    <3>2. Save(s) \in Saves BY <3>1, Playing DEF Save, Saves, IInv, TypeOK
    <3>3. mDBReqQ' = mDBReqQ \/ mDBReqQ' = Append(mDBReqQ, Save(s))
      BY <2>1 DEF FieldSave, Enqueue
    <3>. QED BY <1>t, <3>2, <3>3
  <2>2. DbUpdate \/ (\E s \in Sessions : FieldSave(s)) \/ mDBReqQ' = mDBReqQ
    BY QueueSteps DEF AuthNotify, FieldRegister, FieldResult, DbReply, AuthEnter
  <2>3. mDBReqQ' = mDBReqQ => Len(mDBReqQ') >= Len(mDBReqQ) BY <1>t
  <2>. QED BY <2>1, <2>2, <2>3
<1>3. CASE DbReply
  <2>1. /\ dbPc = "reply" /\ dbPc' \in {"jobs", "wait", "full_assert"} /\ dbN' = dbN
        /\ dbPc' = "jobs" => dbN > 0
        /\ mDBReqQ' = mDBReqQ
    BY <1>3 DEF DbReply, AfterEnqueue
  <2>. QED BY <1>t, <2>1 DEF DbLists
<1>4. CASE DbSize
  <2>1. /\ dbN' = Len(mDBReqQ) /\ mDBReqQ' = mDBReqQ /\ dbPc' \in {"jobs", "exit", "wait"}
        /\ dbPc' = "jobs" => dbN' > 0
    BY <1>4 DEF DbSize
  <2>. QED BY <1>t, <2>1 DEF DbLists
<1>5. CASE DbConnect \/ DbWait \/ Start
  <2>1. dbPc' \notin {"jobs", "reply"} BY <1>5 DEF DbConnect, AfterConnect, DbWait, Start
  <2>. QED BY <2>1 DEF DbLists
<1>6. CASE UNCHANGED <<dbPc, dbJob, dbN, dbIdx>> /\ ~DbUpdate
  BY <1>t, <1>2, <1>6 DEF DbLists
<1>. QED BY <1>1, <1>3, <1>4, <1>5, <1>6, DbSteps

(* onAccept checks and adds in two lock regions: each worker between them may  *)
(* add one.                                                                    *)
LEMMA UnAuthStep ==
  ASSUME IInv, [Next]_vars
  PROVE  UnAuthBound'
<1>t. TypeOK /\ UnAuthBound BY DEF IInv
<1>f. /\ IsFiniteSet(mUnAuthSessions) /\ IsFiniteSet(Accepting)
      /\ Cardinality(mUnAuthSessions) \in Nat /\ Cardinality(Accepting) \in Nat
  BY <1>t, LifecycleAssumption, FS_Subset, FS_CardinalityType DEF TypeOK, Accepting
<1>1. ASSUME NEW s \in Sessions, AcceptCheck(s) PROVE UnAuthBound'
  <2>1. CASE UNCHANGED <<mUnAuthSessions, Accepting>> BY <1>t, <2>1 DEF UnAuthBound
  <2>2. CASE Cardinality(mUnAuthSessions) < UNAUTH_MAX /\ sess' = [sess EXCEPT ![s] = "accepting"]
    <3>1. Accepting' = Accepting \cup {s} /\ s \notin Accepting /\ mUnAuthSessions' = mUnAuthSessions
      BY <1>t, <1>1, <2>2 DEF Accepting, AcceptCheck, TypeOK
    <3>2. Cardinality(Accepting') = Cardinality(Accepting) + 1 BY <1>f, <3>1, FS_AddElement
    <3>3. Cardinality(Accepting) < WORKER_CNT BY <1>1 DEF AcceptCheck
    <3>. QED BY <1>f, <2>2, <3>1, <3>2, <3>3, LifecycleAssumption DEF UnAuthBound
  <2>3. CASE sess' = [sess EXCEPT ![s] = "open"]
    <3>1. Accepting' = Accepting /\ mUnAuthSessions' = mUnAuthSessions
      BY <1>t, <1>1, <2>3 DEF Accepting, AcceptCheck, TypeOK
    <3>. QED BY <2>1, <3>1
  <2>4. Cardinality(mUnAuthSessions) < UNAUTH_MAX \/ Cardinality(mUnAuthSessions) >= UNAUTH_MAX
    BY <1>f, LifecycleAssumption
  <2>. QED BY <1>1, <2>2, <2>3, <2>4 DEF AcceptCheck
<1>2. ASSUME NEW s \in Sessions, AcceptInsert(s) PROVE UnAuthBound'
  <2>1. Accepting' = Accepting \ {s} /\ s \in Accepting /\ mUnAuthSessions' = mUnAuthSessions \cup {s}
    BY <1>t, <1>2 DEF Accepting, AcceptInsert, TypeOK
  <2>2. Cardinality(Accepting') = Cardinality(Accepting) - 1 BY <1>f, <2>1, FS_RemoveElement
  <2>3. Cardinality(mUnAuthSessions') <= Cardinality(mUnAuthSessions) + 1
    <3>1. CASE s \in mUnAuthSessions
      <4>1. mUnAuthSessions' = mUnAuthSessions BY <2>1, <3>1
      <4>. QED BY <1>f, <4>1
    <3>2. CASE s \notin mUnAuthSessions
      <4>1. Cardinality(mUnAuthSessions') = Cardinality(mUnAuthSessions) + 1
        BY <1>f, <2>1, <3>2, FS_AddElement
      <4>. QED BY <1>f, <4>1
    <3>. QED BY <3>1, <3>2
  <2>4. Cardinality(mUnAuthSessions') \in Nat
    BY <1>f, <2>1, FS_AddElement, FS_CardinalityType
  <2>. QED BY <1>t, <1>f, <2>2, <2>3, <2>4, LifecycleAssumption DEF UnAuthBound
<1>3. ASSUME Accepting' \subseteq Accepting, mUnAuthSessions' \subseteq mUnAuthSessions
      PROVE  UnAuthBound'
  <2>1. /\ Cardinality(Accepting') <= Cardinality(Accepting) /\ Cardinality(Accepting') \in Nat
        /\ Cardinality(mUnAuthSessions') <= Cardinality(mUnAuthSessions)
        /\ Cardinality(mUnAuthSessions') \in Nat
    BY <1>f, <1>3, FS_Subset, FS_CardinalityType
  <2>. QED BY <1>t, <1>f, <2>1, LifecycleAssumption DEF UnAuthBound
<1>4. ASSUME ~\E s \in Sessions : AcceptCheck(s) \/ AcceptInsert(s)
      PROVE  Accepting' \subseteq Accepting
  <2>1. \A s \in Sessions : sess'[s] = "accepting" => sess[s] = "accepting"
    BY <1>t, <1>4, SessSteps
       DEF TypeOK, Start, Stop, StopReturn, JoinField, Join, Release, AuthDrop
  <2>. QED BY <2>1 DEF Accepting
<1>5. ASSUME ~\E s \in Sessions : AcceptInsert(s)
      PROVE  mUnAuthSessions' \subseteq mUnAuthSessions
  BY <1>5, PlaceSteps
     DEF AuthCopy, AuthPromote, AuthNotify, FieldRegister, FieldResult, AuthDrop, AuthEnter
<1>. QED BY <1>1, <1>2, <1>3, <1>4, <1>5

-----------------------------------------------------------------------------
(* The saves. *)

(* The queues of the db thread, as sets. *)
LEMMA DbQueueFacts ==
  ASSUME IInv
  PROVE  /\ \A job \in Saves :
              /\ \A x : In(Append(mDBReqQ, job), x) <=> In(mDBReqQ, x) \/ x = job
              /\ ~In(mDBReqQ, job) => Once(Append(mDBReqQ, job))
         /\ \A s \in Sessions :
              /\ \A x : In(Append(mDBResQ, s), x) <=> In(mDBResQ, x) \/ x = s
              /\ ~In(mDBResQ, s) => Once(Append(mDBResQ, s))
         /\ dbPc = "jobs" =>
              /\ Head(mDBReqQ) \in Saves /\ In(mDBReqQ, Head(mDBReqQ)) /\ Once(Tail(mDBReqQ))
              /\ \A x : In(Tail(mDBReqQ), x) <=> In(mDBReqQ, x) /\ x # Head(mDBReqQ)
         /\ fieldPc = "results" /\ fieldN > 0 =>
              /\ Head(mDBResQ) \in Sessions /\ In(mDBResQ, Head(mDBResQ)) /\ Once(Tail(mDBResQ))
              /\ \A x : In(Tail(mDBResQ), x) <=> In(mDBResQ, x) /\ x # Head(mDBResQ)
<1>1. mDBReqQ \in Seq(Saves) /\ mDBResQ \in Seq(Sessions) /\ Once(mDBReqQ) /\ Once(mDBResQ)
  BY DEF IInv, TypeOK, SaveInv
<1>2. dbPc = "jobs" => Len(mDBReqQ) > 0 BY <1>1 DEF IInv, TypeOK, DbLists
<1>3. fieldPc = "results" /\ fieldN > 0 => Len(mDBResQ) > 0 BY <1>1 DEF IInv, TypeOK, FieldLists
<1>4. dbPc = "jobs" =>
        /\ Head(mDBReqQ) \in Saves /\ In(mDBReqQ, Head(mDBReqQ)) /\ Once(Tail(mDBReqQ))
        /\ \A x : In(Tail(mDBReqQ), x) <=> In(mDBReqQ, x) /\ x # Head(mDBReqQ)
  BY <1>1, <1>2, InTail
<1>5. fieldPc = "results" /\ fieldN > 0 =>
        /\ Head(mDBResQ) \in Sessions /\ In(mDBResQ, Head(mDBResQ)) /\ Once(Tail(mDBResQ))
        /\ \A x : In(Tail(mDBResQ), x) <=> In(mDBResQ, x) /\ x # Head(mDBResQ)
  BY <1>1, <1>3, InTail
<1>6. ASSUME NEW job \in Saves
      PROVE  /\ \A x : In(Append(mDBReqQ, job), x) <=> In(mDBReqQ, x) \/ x = job
             /\ ~In(mDBReqQ, job) => Once(Append(mDBReqQ, job))
  BY <1>1, InAppend
<1>7. ASSUME NEW s \in Sessions
      PROVE  /\ \A x : In(Append(mDBResQ, s), x) <=> In(mDBResQ, x) \/ x = s
             /\ ~In(mDBResQ, s) => Once(Append(mDBResQ, s))
  BY <1>1, InAppend
<1>. QED BY <1>4, <1>5, <1>6, <1>7

(* A session has one request in mDBReqQ at most. *)
LEMMA OneRequest ==
  ASSUME IInv, NEW j \in Saves, NEW k \in Saves, In(mDBReqQ, j), In(mDBReqQ, k),
         j.s = k.s \/ j.acct = k.acct
  PROVE  j = k
<1>1. j.acct = k.acct /\ j.s = k.s /\ j.pos = k.pos BY Saving
<1>2. j = [s |-> j.s, acct |-> j.acct, pos |-> j.pos] /\ k = [s |-> k.s, acct |-> k.acct, pos |-> k.pos]
  BY DEF Saves
<1>. QED BY <1>1, <1>2

(* What requestPositionSave does: nothing, or one request of a session that    *)
(* has none.                                                                   *)
LEMMA SaveRequest ==
  ASSUME IInv, NEW s \in Sessions, FieldSave(s)
  PROVE  /\ UNCHANGED <<mDBResQ, dbPc, dbJob, fieldPlayers, mAccountNo, mAccountsHash, mBConnect, dbPos, authPc, cur>>
         /\ s \in fieldPlayers /\ ~mBConnect[s] /\ Save(s) \in Saves
         /\ Save(s).s = s /\ Save(s).acct = mAccountNo[s] /\ Save(s).pos = mPos[s]
         /\ mAccountNo[s] \in Accounts /\ mAccountsHash[mAccountNo[s]] = s
         /\ \/ UNCHANGED <<pending, mDBReqQ, left>>
            \/ /\ s \notin pending /\ pending' = pending \cup {s}
               /\ mDBReqQ' = Append(mDBReqQ, Save(s))
               /\ left' = [left EXCEPT ![mAccountNo[s]] = mPos[s]]
<1>1. s \in fieldPlayers /\ ~mBConnect[s] BY DEF FieldSave, IInv, FieldLists
<1>2. mAccountNo[s] \in Accounts /\ mAccountsHash[mAccountNo[s]] = s BY <1>1, Playing
<1>3. /\ Save(s) \in Saves /\ Save(s).s = s /\ Save(s).acct = mAccountNo[s] /\ Save(s).pos = mPos[s]
  BY <1>2 DEF Save, Saves, IInv, TypeOK
<1>4. UNCHANGED <<mDBResQ, dbPc, dbJob, fieldPlayers, mAccountNo, mAccountsHash, mBConnect, dbPos, authPc, cur>>
  BY DEF FieldSave
<1>5. \/ UNCHANGED <<pending, mDBReqQ, left>>
      \/ /\ s \notin pending /\ pending' = pending \cup {s}
         /\ mDBReqQ' = Append(mDBReqQ, Save(s))
         /\ left' = [left EXCEPT ![mAccountNo[s]] = mPos[s]]
  BY DEF FieldSave, Enqueue
<1>. QED BY <1>1, <1>2, <1>3, <1>4, <1>5

(* The pending bit stands for one request, job or answer. *)
LEMMA PendingStep ==
  ASSUME IInv, [Next]_vars
  PROVE  /\ pending' \subseteq fieldPlayers'
         /\ \A s \in pending' : InReq(s)' \/ In(mDBResQ', s) \/ InDb(s)' \/ dbPc' = "full_assert"
         /\ \A s \in Sessions : InReq(s)' \/ In(mDBResQ', s) \/ InDb(s)' => s \in pending'
         /\ \A s \in Sessions : InReq(s)' => ~In(mDBResQ', s) /\ ~InDb(s)'
         /\ \A s \in Sessions : InDb(s)' => ~In(mDBResQ', s)
         /\ Once(mDBReqQ') /\ Once(mDBResQ')
<1>. DEFINE Good == /\ pending \subseteq fieldPlayers
                    /\ \A s \in pending : InReq(s) \/ In(mDBResQ, s) \/ InDb(s) \/ dbPc = "full_assert"
                    /\ \A s \in Sessions : InReq(s) \/ In(mDBResQ, s) \/ InDb(s) => s \in pending
                    /\ \A s \in Sessions : InReq(s) => ~In(mDBResQ, s) /\ ~InDb(s)
                    /\ \A s \in Sessions : InDb(s) => ~In(mDBResQ, s)
                    /\ Once(mDBReqQ) /\ Once(mDBResQ)
<1>t. TypeOK BY DEF IInv
<1>g. Good BY DEF IInv, SaveInv
<1>1. ASSUME UNCHANGED <<pending, mDBReqQ, mDBResQ>>, fieldPlayers \subseteq fieldPlayers',
             \A s \in Sessions : InDb(s)' <=> InDb(s), dbPc = "full_assert" => dbPc' = "full_assert"
      PROVE  Good'
  BY <1>t, <1>g, <1>1 DEF InReq, TypeOK
<1>2. CASE FieldResult
  <2>. DEFINE s == Head(mDBResQ)
  <2>1. /\ s \in Sessions /\ In(mDBResQ, s) /\ Once(Tail(mDBResQ))
        /\ \A x : In(Tail(mDBResQ), x) <=> In(mDBResQ, x) /\ x # s
    BY <1>2, DbQueueFacts DEF FieldResult
  <2>2. s \in fieldPlayers /\ (fieldPlayers' = fieldPlayers \/ fieldPlayers' = fieldPlayers \ {s})
    BY <1>2, ResultHead
  <2>3. /\ mDBResQ' = Tail(mDBResQ) /\ pending' = pending \ {s} /\ UNCHANGED <<mDBReqQ, dbPc, dbJob>>
    BY <1>2, <2>2 DEF FieldResult
  <2>4. \A r \in Sessions : (InReq(r)' <=> InReq(r)) /\ (InDb(r)' <=> InDb(r))
    BY <2>3 DEF InReq, InDb
  <2>. QED BY <1>t, <1>g, <2>1, <2>2, <2>3, <2>4 DEF TypeOK
<1>3. CASE DbUpdate
  <2>. DEFINE job == Head(mDBReqQ)
  <2>1. /\ job \in Saves /\ In(mDBReqQ, job) /\ Once(Tail(mDBReqQ)) /\ job.s \in Sessions
        /\ \A x : In(Tail(mDBReqQ), x) <=> In(mDBReqQ, x) /\ x # job
    BY <1>3, DbQueueFacts DEF DbUpdate, Saves
  <2>2. dbPc' = "reply" BY <1>3 DEF DbUpdate, IInv, CdbInv
  <2>3. /\ dbPc = "jobs" /\ mDBReqQ' = Tail(mDBReqQ) /\ dbJob' = job
        /\ UNCHANGED <<pending, fieldPlayers, mDBResQ>>
    BY <1>3 DEF DbUpdate
  <2>4. \A r \in Sessions : InDb(r)' <=> r = job.s BY <2>2, <2>3 DEF InDb
  <2>5. \A r \in Sessions : ~InDb(r) BY <2>3 DEF InDb
  <2>6. ASSUME NEW r \in Sessions PROVE InReq(r)' <=> InReq(r) /\ r # job.s
    <3>1. ASSUME NEW k \in Saves, In(mDBReqQ, k), k # job PROVE k.s # job.s
      BY <2>1, <3>1, OneRequest
    <3>. QED BY <2>1, <2>3, <3>1 DEF InReq
  <2>7. InReq(job.s) BY <2>1 DEF InReq
  <2>. QED BY <1>t, <1>g, <2>1, <2>2, <2>3, <2>4, <2>5, <2>6, <2>7 DEF TypeOK
<1>4. CASE DbReply
  <2>. DEFINE s == dbJob.s
  <2>1. s \in Sessions /\ InDb(s) /\ \A r \in Sessions : InDb(r) <=> r = s
    BY <1>4 DEF DbReply, IInv, DbLists, Saves, InDb
  <2>2. UNCHANGED <<pending, mDBReqQ, fieldPlayers>> BY <1>4 DEF DbReply
  <2>3. dbPc' # "reply" /\ (mDBResQ' = mDBResQ => dbPc' = "full_assert" \/ mDBResQ' = Append(mDBResQ, s))
        /\ (mDBResQ' = mDBResQ \/ mDBResQ' = Append(mDBResQ, s))
    BY <1>4 DEF DbReply, AfterEnqueue, Enqueue
  <2>4. \A r \in Sessions : ~InDb(r)' BY <2>3 DEF InDb
  <2>5. \A r \in Sessions : InReq(r)' <=> InReq(r) BY <2>2 DEF InReq
  <2>6. CASE mDBResQ' = Append(mDBResQ, s)
    <3>1. ~In(mDBResQ, s) BY <1>g, <2>1
    <3>2. Once(mDBResQ') /\ \A x : In(mDBResQ', x) <=> In(mDBResQ, x) \/ x = s
      BY <2>1, <2>6, <3>1, DbQueueFacts
    <3>3. dbPc # "full_assert" BY <1>4 DEF DbReply
    <3>. QED BY <1>t, <1>g, <2>1, <2>2, <2>4, <2>5, <3>2, <3>3 DEF TypeOK
  <2>7. CASE mDBResQ' = mDBResQ /\ dbPc' = "full_assert"
    BY <1>t, <1>g, <2>2, <2>4, <2>5, <2>7 DEF TypeOK
  <2>. QED BY <2>3, <2>6, <2>7
<1>5. ASSUME NEW s \in Sessions, FieldSave(s) PROVE Good'
  <2>1. /\ UNCHANGED <<mDBResQ, dbPc, dbJob, fieldPlayers>> /\ s \in fieldPlayers
        /\ Save(s) \in Saves /\ Save(s).s = s
    BY <1>5, SaveRequest
  <2>2. \A r \in Sessions : InDb(r)' <=> InDb(r) BY <2>1 DEF InDb
  <2>3. CASE UNCHANGED <<pending, mDBReqQ>> BY <1>1, <2>1, <2>2, <2>3
  <2>4. CASE s \notin pending /\ pending' = pending \cup {s} /\ mDBReqQ' = Append(mDBReqQ, Save(s))
    <3>1. ~InReq(s) BY <1>g, <2>4
    <3>2. ~In(mDBReqQ, Save(s)) BY <2>1, <3>1 DEF InReq
    <3>3. Once(mDBReqQ') /\ \A x : In(mDBReqQ', x) <=> In(mDBReqQ, x) \/ x = Save(s)
      BY <2>1, <2>4, <3>2, DbQueueFacts
    <3>4. \A r \in Sessions : InReq(r)' <=> InReq(r) \/ r = s BY <2>1, <3>3 DEF InReq
    <3>. QED BY <1>t, <1>g, <2>1, <2>2, <2>4, <3>3, <3>4 DEF TypeOK
  <2>. QED BY <1>5, <2>3, <2>4, SaveRequest
<1>6. CASE DbConnect \/ DbWait \/ DbSize \/ Start
  <2>1. dbPc \notin {"reply", "full_assert"} /\ dbPc' # "reply"
    BY <1>6 DEF DbConnect, AfterConnect, DbWait, DbSize, Start, IInv, StartInv
  <2>2. UNCHANGED <<pending, mDBReqQ, mDBResQ, fieldPlayers>>
    BY <1>6 DEF DbConnect, DbWait, DbSize, Start
  <2>. QED BY <1>1, <2>1, <2>2 DEF InDb
<1>7. CASE UNCHANGED <<pending, mDBReqQ, mDBResQ, dbPc, dbJob>> /\ ~FieldResult
  <2>1. fieldPlayers \subseteq fieldPlayers'
    BY <1>7, FieldSteps
       DEF FieldRegister, FieldMsgsEnd, FieldFrame, FieldSaveEnd, FieldResultsEnd, Start, FieldCollect, FieldSave
  <2>. QED BY <1>1, <1>7, <2>1 DEF InDb
<1>8. Good' BY <1>2, <1>3, <1>4, <1>5, <1>6, <1>7, SaveSteps
<1>. QED BY <1>8


(* A save that waits is of a Player that is disconnected, and holds the last   *)
(* position of its account.                                                    *)
LEMMA SaveStep ==
  ASSUME IInv, [Next]_vars
  PROVE  SaveInv'
<1>t. TypeOK BY DEF IInv
<1>1. \A s \in pending' : ~mBConnect'[s]
  <2>1. ASSUME NEW s \in pending' PROVE s \in Sessions /\ ~mBConnect[s]
    <3>1. s \in pending \/ FieldSave(s)
      BY <2>1, SaveSteps DEF FieldResult, DbConnect, DbWait, DbSize, DbUpdate, DbReply, Start, FieldSave
    <3>2. s \in Sessions BY <2>1, TypeStep DEF TypeOK
    <3>3. CASE s \in pending BY <3>2, <3>3 DEF IInv, SaveInv
    <3>4. CASE FieldSave(s) BY <3>2, <3>4, SaveRequest
    <3>. QED BY <3>1, <3>2, <3>3, <3>4
  <2>. QED BY <2>1, ConnStep
<1>. DEFINE Fits == \A job \in Saves : In(mDBReqQ, job) =>
                      job.acct = mAccountNo[job.s] /\ job.pos = left[job.acct]
<1>2. Fits'
  <2>g. Fits /\ \A job \in Saves : job.s \in Sessions /\ job.acct \in Accounts
    BY DEF IInv, SaveInv, Saves
  <2>1. ASSUME NEW s \in Sessions, FieldSave(s) PROVE Fits'
    <3>1. /\ UNCHANGED mAccountNo /\ Save(s) \in Saves
          /\ Save(s).s = s /\ Save(s).acct = mAccountNo[s] /\ Save(s).pos = mPos[s]
          /\ mAccountNo[s] \in Accounts /\ mAccountsHash[mAccountNo[s]] = s
      BY <2>1, SaveRequest
    <3>2. CASE UNCHANGED <<mDBReqQ, left>> BY <2>g, <3>1, <3>2
    <3>3. CASE /\ s \notin pending /\ mDBReqQ' = Append(mDBReqQ, Save(s))
               /\ left' = [left EXCEPT ![mAccountNo[s]] = mPos[s]]
      <4>1. ASSUME NEW job \in Saves, In(mDBReqQ', job)
            PROVE  job.acct = mAccountNo[job.s] /\ job.pos = left'[job.acct]
        <5>1. In(mDBReqQ, job) \/ job = Save(s) BY <3>1, <3>3, <4>1, DbQueueFacts
        <5>2. CASE job = Save(s) BY <1>t, <3>1, <3>3, <5>2 DEF TypeOK
        <5>3. CASE In(mDBReqQ, job)
          <6>1. job.s # s BY <3>3, <5>3, Saving
          <6>2. job.acct # mAccountNo[s] BY <3>1, <5>3, <6>1, Saving
          <6>. QED BY <1>t, <2>g, <3>1, <3>3, <5>3, <6>2 DEF TypeOK
        <5>. QED BY <5>1, <5>2, <5>3
      <4>. QED BY <3>1, <4>1
    <3>. QED BY <2>1, <3>2, <3>3, SaveRequest
  <2>2. CASE DbUpdate
    <3>. DEFINE k == Head(mDBReqQ)
    <3>1. /\ k \in Saves /\ In(mDBReqQ, k)
          /\ \A x : In(Tail(mDBReqQ), x) <=> In(mDBReqQ, x) /\ x # k
      BY <2>2, DbQueueFacts DEF DbUpdate
    <3>2. /\ mDBReqQ' = Tail(mDBReqQ) /\ mAccountNo' = mAccountNo
          /\ left' = left \/ left' = [left EXCEPT ![k.acct] = dbPos[k.acct]]
      BY <2>2 DEF DbUpdate
    <3>3. ASSUME NEW job \in Saves, In(mDBReqQ', job)
          PROVE  job.acct = mAccountNo[job.s] /\ job.pos = left'[job.acct]
      <4>1. In(mDBReqQ, job) /\ job # k BY <3>1, <3>2, <3>3
      <4>2. job.acct # k.acct BY <3>1, <4>1, OneRequest
      <4>. QED BY <1>t, <2>g, <3>2, <4>1, <4>2 DEF TypeOK
    <3>. QED BY <3>2, <3>3
  <2>3. ASSUME UNCHANGED <<mDBReqQ, left>>,
               UNCHANGED <<mAccountNo, mNextFieldID>> \/ AuthPromote \/ \E s \in Sessions : AuthDrop(s)
        PROVE  Fits'
    <3>1. ASSUME NEW job \in Saves, In(mDBReqQ, job) PROVE mAccountNo'[job.s] = mAccountNo[job.s]
      <4>1. job.s \in Sessions /\ job.s \in fieldPlayers /\ job.s \notin authPlayers
        BY <2>g, <3>1, Saving DEF IInv, PlaceInv
      <4>2. CASE AuthPromote
        <5>1. cur.s \in authPlayers BY <4>2 DEF AuthPromote, IInv, AuthLists
        <5>2. mAccountNo' = mAccountNo \/ mAccountNo' = [mAccountNo EXCEPT ![cur.s] = cur.acct]
          BY <4>2 DEF AuthPromote, InitPlayerInfo
        <5>. QED BY <1>t, <4>1, <5>1, <5>2 DEF TypeOK
      <4>3. ASSUME NEW s \in Sessions, AuthDrop(s) PROVE mAccountNo'[job.s] = mAccountNo[job.s]
        <5>1. s \in authPlayers BY <4>3 DEF AuthDrop, IInv, AuthLists
        <5>. QED BY <4>1, <4>3, <5>1 DEF AuthDrop, Delete
      <4>. QED BY <2>3, <4>2, <4>3
    <3>. QED BY <2>3, <2>g, <3>1
  <2>4. CASE DbReply \/ FieldResult \/ AuthNotify \/ FieldRegister
    BY <2>g, <2>4 DEF DbReply, FieldResult, AuthNotify, FieldRegister
  <2>5. ASSUME NEW s \in Sessions, AuthEnter(s) PROVE Fits'
    BY <2>g, <2>5 DEF AuthEnter, enterField
  <2>6. CASE AuthInsert BY <2>g, <2>6 DEF AuthInsert
  <2>7. \/ UNCHANGED <<mDBReqQ, left>> \/ AuthInsert \/ DbUpdate
        \/ (\E s \in Sessions : FieldSave(s) \/ AuthEnter(s))
        \/ DbReply \/ FieldResult \/ AuthNotify \/ FieldRegister
    BY QueueSteps, SqlSteps
  <2>. QED BY <2>1, <2>2, <2>3, <2>4, <2>5, <2>6, <2>7, AccountNoSteps
<1>. QED BY <1>1, <1>2, PendingStep DEF SaveInv

-----------------------------------------------------------------------------
(* The rows and the logins. *)

(* An account nobody plays has no save waiting, and was left where its row is. *)
LEMMA FreeAccount ==
  ASSUME IInv, NEW a \in Accounts, mAccountsHash[a] = None
  PROVE  left[a] = IF dbPos[a] = None THEN Origin ELSE dbPos[a]
<1>1. \A job \in Saves : In(mDBReqQ, job) => job.acct # a
  BY Saving, LifecycleAssumption DEF Saves
<1>. QED BY <1>1 DEF IInv, RowInv

(* What a save, or a login that makes the row, does to the rows. *)
LEMMA RowChange ==
  ASSUME IInv, [Next]_vars
  PROVE  \/ UNCHANGED <<dbPos, left>>
         \/ /\ AuthInsert /\ UNCHANGED <<left, mAccountsHash, mDBReqQ>>
            /\ cur.acct \in Accounts /\ dbPos[cur.acct] = None
            /\ dbPos' = [dbPos EXCEPT ![cur.acct] = Origin]
         \/ \E a \in Accounts, p \in Positions :
              /\ mAccountsHash[a] # None /\ UNCHANGED <<authPc, cur, mAccountsHash>>
              /\ dbPos[a] # None
              /\ dbPos' = dbPos \/ dbPos' = [dbPos EXCEPT ![a] = p]
              /\ left' = left \/ left' = [left EXCEPT ![a] = p]
<1>t. TypeOK BY DEF IInv
<1>1. CASE AuthInsert
  <2>1. /\ cur.acct \in Accounts /\ UNCHANGED <<left, mAccountsHash, mDBReqQ>>
        /\ dbPos' = dbPos \/ (dbPos[cur.acct] = None /\ dbPos' = [dbPos EXCEPT ![cur.acct] = Origin])
    BY <1>1 DEF AuthInsert, IInv, AuthLists, Logins
  <2>. QED BY <1>1, <2>1
<1>2. CASE DbUpdate
  <2>. DEFINE k == Head(mDBReqQ)
  <2>1. k \in Saves /\ In(mDBReqQ, k) BY <1>2, DbQueueFacts DEF DbUpdate
  <2>2. k.acct \in Accounts /\ k.pos \in Positions /\ k.s \in Sessions BY <2>1 DEF Saves
  <2>3. mAccountsHash[k.acct] # None /\ dbPos[k.acct] # None /\ dbPos[k.acct] \in Positions
    BY <2>1, <2>2, Saving, LifecycleAssumption DEF IInv, RowInv
  <2>4. /\ UNCHANGED <<authPc, cur, mAccountsHash>>
        /\ \/ dbPos' = [dbPos EXCEPT ![k.acct] = k.pos] /\ left' = left
           \/ dbPos' = dbPos /\ left' = [left EXCEPT ![k.acct] = dbPos[k.acct]]
    BY <1>2 DEF DbUpdate
  <2>5. CASE dbPos' = [dbPos EXCEPT ![k.acct] = k.pos] /\ left' = left
    BY <2>2, <2>3, <2>4, <2>5
  <2>6. CASE dbPos' = dbPos /\ left' = [left EXCEPT ![k.acct] = dbPos[k.acct]]
    BY <2>2, <2>3, <2>4, <2>6
  <2>. QED BY <2>4, <2>5, <2>6
<1>3. ASSUME NEW s \in Sessions, FieldSave(s), ~UNCHANGED <<dbPos, left>>
      PROVE  \E a \in Accounts, p \in Positions :
               /\ mAccountsHash[a] # None /\ UNCHANGED <<authPc, cur, mAccountsHash>>
               /\ dbPos[a] # None
               /\ dbPos' = dbPos \/ dbPos' = [dbPos EXCEPT ![a] = p]
               /\ left' = left \/ left' = [left EXCEPT ![a] = p]
  <2>1. /\ UNCHANGED <<authPc, cur, mAccountsHash, dbPos>>
        /\ mAccountNo[s] \in Accounts /\ mAccountsHash[mAccountNo[s]] = s
        /\ left' = [left EXCEPT ![mAccountNo[s]] = mPos[s]]
    BY <1>3, SaveRequest
  <2>2. mPos[s] \in Positions BY <1>t DEF TypeOK
  <2>3. dbPos[mAccountNo[s]] # None BY <2>1, LifecycleAssumption DEF IInv, RowInv
  <2>. QED BY <2>1, <2>2, <2>3, LifecycleAssumption
<1>. QED BY <1>1, <1>2, <1>3, SqlSteps

(* An account that is played has its row. *)
LEMMA PlayedHasRow ==
  ASSUME IInv, [Next]_vars
  PROVE  \A a \in Accounts : mAccountsHash'[a] # None => dbPos'[a] # None
<1>t. TypeOK BY DEF IInv
<1>1. \A a \in Accounts : dbPos[a] # None => dbPos'[a] # None
  <2>1. CASE UNCHANGED <<dbPos, left>> BY <2>1
  <2>2. CASE dbPos' = [dbPos EXCEPT ![cur.acct] = Origin]
    BY <1>t, <2>2, LifecycleAssumption DEF TypeOK
  <2>3. ASSUME NEW a \in Accounts, NEW p \in Positions,
               dbPos' = dbPos \/ dbPos' = [dbPos EXCEPT ![a] = p]
        PROVE  \A b \in Accounts : dbPos[b] # None => dbPos'[b] # None
    BY <1>t, <2>3, LifecycleAssumption DEF TypeOK
  <2>. QED BY <2>1, <2>2, <2>3, RowChange
<1>2. ASSUME NEW a \in Accounts, mAccountsHash'[a] # None
      PROVE  mAccountsHash[a] # None \/ (AuthPromote /\ a = cur.acct)
  <2>1. CASE AuthPromote
    <3>1. mAccountsHash' = mAccountsHash \/ mAccountsHash' = [mAccountsHash EXCEPT ![cur.acct] = cur.s]
      BY <2>1 DEF AuthPromote
    <3>. QED BY <1>t, <1>2, <2>1, <3>1 DEF TypeOK
  <2>2. CASE AuthNotify
    <3>1. mAccountsHash' = mAccountsHash \/ mAccountsHash' = [mAccountsHash EXCEPT ![Head(mNotifyMsgQ)] = None]
      BY <2>2 DEF AuthNotify
    <3>. QED BY <1>t, <1>2, <3>1 DEF TypeOK
  <2>3. ASSUME NEW s \in Sessions, AuthDrop(s) PROVE mAccountsHash[a] # None
    <3>1. mAccountsHash' = mAccountsHash \/ mAccountsHash' = [mAccountsHash EXCEPT ![mAccountNo[s]] = None]
      BY <2>3 DEF AuthDrop
    <3>. QED BY <1>t, <1>2, <3>1 DEF TypeOK
  <2>. QED BY <1>2, <2>1, <2>2, <2>3, PlayerSteps
       DEF FieldFrame, FieldResult, AcceptInsert, Recv, AuthInvalid, AuthSelect, FieldSave
<1>3. AuthPromote => dbPos[cur.acct] # None BY DEF AuthPromote, IInv, RowInv
<1>. QED BY <1>1, <1>2, <1>3 DEF IInv, RowInv

(* An account was left where its row is, or its save waits. *)
LEMMA LeftStep ==
  ASSUME IInv, [Next]_vars
  PROVE  \A a \in Accounts :
           \/ left'[a] = (IF dbPos'[a] = None THEN Origin ELSE dbPos'[a])
           \/ \E job \in Saves : In(mDBReqQ', job) /\ job.acct = a
<1>. DEFINE Row(a) == IF dbPos[a] = None THEN Origin ELSE dbPos[a]
            Good(a) == left[a] = Row(a) \/ \E job \in Saves : In(mDBReqQ, job) /\ job.acct = a
<1>t. TypeOK BY DEF IInv
<1>g. \A a \in Accounts : Good(a) BY DEF IInv, RowInv
<1>. SUFFICES ASSUME NEW a \in Accounts PROVE Good(a)' OBVIOUS
<1>1. CASE AuthInsert
  <2>1. mDBReqQ' = mDBReqQ BY <1>1 DEF AuthInsert
  <2>2. left' = left /\ (dbPos' = dbPos \/ (dbPos[cur.acct] = None /\ dbPos' = [dbPos EXCEPT ![cur.acct] = Origin]))
    BY <1>1 DEF AuthInsert
  <2>. QED BY <1>t, <1>g, <2>1, <2>2, LifecycleAssumption DEF TypeOK
<1>2. CASE DbUpdate
  <2>. DEFINE k == Head(mDBReqQ)
  <2>1. /\ k \in Saves /\ In(mDBReqQ, k) /\ k.acct \in Accounts /\ k.pos \in Positions
        /\ \A x : In(Tail(mDBReqQ), x) <=> In(mDBReqQ, x) /\ x # k
    BY <1>2, DbQueueFacts DEF DbUpdate, Saves
  <2>2. k.pos = left[k.acct] /\ dbPos[k.acct] \in Positions BY <2>1, Saving
  <2>3. mDBReqQ' = Tail(mDBReqQ) /\ \/ dbPos' = [dbPos EXCEPT ![k.acct] = k.pos] /\ left' = left
                                    \/ dbPos' = dbPos /\ left' = [left EXCEPT ![k.acct] = dbPos[k.acct]]
    BY <1>2 DEF DbUpdate
  <2>4. CASE a = k.acct BY <1>t, <2>1, <2>2, <2>3, <2>4, LifecycleAssumption DEF TypeOK
  <2>5. CASE a # k.acct
    <3>1. left'[a] = left[a] /\ dbPos'[a] = dbPos[a] BY <1>t, <2>3, <2>5 DEF TypeOK
    <3>2. \A job \in Saves : In(mDBReqQ, job) /\ job.acct = a => In(mDBReqQ', job)
      BY <2>1, <2>3, <2>5
    <3>. QED BY <1>g, <3>1, <3>2
  <2>. QED BY <2>4, <2>5
<1>3. ASSUME NEW s \in Sessions, FieldSave(s) PROVE Good(a)'
  <2>1. /\ dbPos' = dbPos /\ Save(s) \in Saves /\ Save(s).acct = mAccountNo[s]
        /\ \/ UNCHANGED <<mDBReqQ, left>>
           \/ mDBReqQ' = Append(mDBReqQ, Save(s)) /\ left' = [left EXCEPT ![mAccountNo[s]] = mPos[s]]
    BY <1>3, SaveRequest
  <2>2. CASE UNCHANGED <<mDBReqQ, left>> BY <1>g, <2>1, <2>2
  <2>3. CASE mDBReqQ' = Append(mDBReqQ, Save(s)) /\ left' = [left EXCEPT ![mAccountNo[s]] = mPos[s]]
    <3>1. \A x : In(mDBReqQ', x) <=> In(mDBReqQ, x) \/ x = Save(s) BY <2>1, <2>3, DbQueueFacts
    <3>2. CASE a = mAccountNo[s] BY <2>1, <3>1, <3>2
    <3>3. CASE a # mAccountNo[s]
      <4>1. left'[a] = left[a] BY <1>t, <2>3, <3>3 DEF TypeOK
      <4>. QED BY <1>g, <2>1, <3>1, <4>1
    <3>. QED BY <3>2, <3>3
  <2>. QED BY <2>1, <2>2, <2>3
<1>4. CASE UNCHANGED <<dbPos, left, mDBReqQ>> BY <1>g, <1>4
<1>5. CASE AuthNotify \/ FieldRegister \/ FieldResult \/ DbReply
  BY <1>4, <1>5 DEF AuthNotify, FieldRegister, FieldResult, DbReply
<1>6. ASSUME NEW s \in Sessions, AuthEnter(s) PROVE Good(a)'
  BY <1>4, <1>6 DEF AuthEnter
<1>. QED BY <1>1, <1>2, <1>3, <1>4, <1>5, <1>6, QueueSteps, SqlSteps

(* A login that found its row, or made it, has the position in it. *)
LEMMA LoginStep ==
  ASSUME IInv, [Next]_vars
  PROVE  /\ authPc' = "insert" => cur'.pos = Origin
         /\ authPc' = "promote" => dbPos'[cur'.acct] # None
         /\ authPc' = "promote" /\ mAccountsHash'[cur'.acct] = None => cur'.pos = left'[cur'.acct]
<1>. DEFINE Good == /\ authPc = "insert" => cur.pos = Origin
                    /\ authPc = "promote" => dbPos[cur.acct] # None
                    /\ authPc = "promote" /\ mAccountsHash[cur.acct] = None => cur.pos = left[cur.acct]
<1>t. TypeOK BY DEF IInv
<1>g. Good /\ NoneThrows BY DEF IInv, RowInv, FreshPosition, CdbInv
<1>a. AfterCall("insert") = "insert" /\ AfterCall("promote") = "promote" /\ AfterCall("login") = "login"
  BY DEF IInv, CdbInv, AfterCall
<1>1. ASSUME NEW s \in Sessions, AuthSelect(s) PROVE Good'
  <2>. DEFINE a == DeQueueMsgOrNull(s)
              row == dbPos[a]
  <2>1. a \in Accounts BY <1>t, <1>1 DEF AuthSelect, TakeAuthReq, DeQueueMsgOrNull, TypeOK
  <2>2. /\ UNCHANGED <<dbPos, left, mAccountsHash>>
        /\ \/ row # None /\ cur' = [s |-> s, acct |-> a, pos |-> row] /\ authPc' = "promote"
           \/ cur' = [s |-> s, acct |-> a, pos |-> Origin] /\ authPc' = "insert"
    BY <1>1, <1>a DEF AuthSelect
  <2>3. mAccountsHash[a] = None => left[a] = IF row = None THEN Origin ELSE row
    BY <2>1, FreeAccount
  <2>. QED BY <2>2, <2>3
<1>2. CASE AuthInsert
  <2>1. cur \in Logins /\ cur.acct \in Accounts /\ cur.pos = Origin
    BY <1>g, <1>2 DEF AuthInsert, IInv, AuthLists, Logins
  <2>2. authPc' # "insert" /\ (authPc' = "promote" => cur' = cur /\ dbPos[cur.acct] = None
                                  /\ dbPos' = [dbPos EXCEPT ![cur.acct] = Origin])
    BY <1>2, <1>a DEF AuthInsert
  <2>3. left' = left BY <1>2 DEF AuthInsert
  <2>4. dbPos[cur.acct] = None => left[cur.acct] = Origin
    <3>1. dbPos[cur.acct] = None => mAccountsHash[cur.acct] = None
      BY <2>1 DEF IInv, RowInv
    <3>. QED BY <2>1, <3>1, FreeAccount
  <2>. QED BY <1>t, <2>1, <2>2, <2>3, <2>4, LifecycleAssumption DEF TypeOK
<1>3. ASSUME ~AuthInsert, ~\E s \in Sessions : AuthSelect(s), authPc' \in {"insert", "promote"}
      PROVE  Good'
  <2>1. authPc' = authPc /\ cur' = cur
    <3>1. UNCHANGED <<authPc, cur>> \/ AuthConnect \/ AuthTop \/ AuthCopy \/ AuthPromote \/ AuthLoginEnd
            \/ AuthNotify \/ AuthNotifyEnd \/ AuthHeartBeat \/ Start
      BY <1>3, AuthSteps DEF AuthNext, AuthCollect, AuthDrop, AuthEnter
    <3>. QED BY <1>3, <3>1
         DEF AuthConnect, AfterConnect, AuthTop, AuthCopy, AuthPromote, AuthLoginEnd, AuthNotify, AuthNotifyEnd,
             AuthHeartBeat, Start
  <2>2. cur \in Logins /\ cur.acct \in Accounts BY <1>3, <2>1 DEF IInv, AuthLists, Logins
  <2>3. CASE authPc = "insert" BY <1>g, <2>1, <2>3
  <2>4. CASE authPc = "promote"
    <3>1. mAccountsHash' = mAccountsHash
      <4>1. ~AuthPromote BY <1>3 DEF AuthPromote
      <4>2. ~AuthNotify /\ \A s \in Sessions : ~AuthDrop(s) BY <2>4 DEF AuthNotify, AuthDrop
      <4>. QED BY <4>1, <4>2, PlayerSteps
           DEF FieldFrame, FieldResult, AcceptInsert, Recv, AuthInvalid, AuthSelect, FieldSave
    <3>2. CASE UNCHANGED <<dbPos, left>> BY <1>g, <2>1, <2>4, <3>1, <3>2
    <3>3. ASSUME NEW a \in Accounts, NEW p \in Positions, mAccountsHash[a] # None,
                 dbPos' = dbPos \/ dbPos' = [dbPos EXCEPT ![a] = p],
                 left' = left \/ left' = [left EXCEPT ![a] = p]
          PROVE  Good'
      <4>1. dbPos'[cur.acct] # None
        BY <1>t, <1>g, <2>2, <2>4, <3>3, LifecycleAssumption DEF TypeOK
      <4>2. mAccountsHash[cur.acct] = None => left'[cur.acct] = left[cur.acct]
        BY <1>t, <2>2, <3>3 DEF TypeOK
      <4>. QED BY <1>g, <2>1, <2>4, <3>1, <4>1, <4>2
    <3>. QED BY <1>3, <3>2, <3>3, RowChange
  <2>. QED BY <1>3, <2>1, <2>3, <2>4
<1>4. Good' BY <1>1, <1>2, <1>3
<1>. QED BY <1>4

(* The rows and the login that reads one. *)
LEMMA RowStep ==
  ASSUME IInv, [Next]_vars
  PROVE  RowInv'
BY PlayedHasRow, LeftStep, LoginStep DEF RowInv, FreshPosition

-----------------------------------------------------------------------------
(* The inductive invariant holds. *)

(* A logout finds its account. *)
LEMMA LogoutStep ==
  ASSUME IInv, [Next]_vars
  PROVE  LogoutKnown'
<1>1. CASE AuthNotify
  <2>1. mAccountsHash[Head(mNotifyMsgQ)] # None
    BY <1>1, QueueFacts DEF AuthNotify, IInv, AccountInv
  <2>. QED BY <1>1, <2>1 DEF AuthNotify, LogoutKnown
<1>2. ASSUME authPc' # authPc, ~AuthNotify PROVE authPc' # "logout_assert"
  <2>1. \A pc : AfterCall(pc) = pc \/ AfterCall(pc) = "cdb_exception" BY DEF AfterCall
  <2>2. CASE AuthInsert \/ \E s \in Sessions : AuthSelect(s)
    BY <2>1, <2>2 DEF AuthInsert, AuthSelect
  <2>3. CASE AuthConnect \/ AuthTop \/ AuthCopy \/ AuthPromote \/ AuthLoginEnd \/ AuthNotifyEnd
               \/ AuthHeartBeat \/ Start
    BY <2>3 DEF AuthConnect, AfterConnect, AuthTop, AuthCopy, AuthPromote, AuthLoginEnd, AuthNotifyEnd,
                AuthHeartBeat, Start
  <2>4. \A s \in Sessions : ~AuthNext(s) /\ ~AuthCollect(s) /\ ~AuthDrop(s) /\ ~AuthEnter(s)
    BY <1>2 DEF AuthNext, AuthCollect, AuthDrop, AuthEnter
  <2>. QED BY <1>2, <2>2, <2>3, <2>4, AuthSteps
<1>. QED BY <1>1, <1>2 DEF IInv, LogoutKnown

(* Before Start there is no Player, no login and no save. *)
LEMMA InitInv ==
  ASSUME Init
  PROVE  IInv
<1>. USE LifecycleAssumption DEF Init
<1>1. TypeOK
  <2>1. cdb \in [{"auth", "db"} -> CDBs] BY DEF CDBs, NewCDB
  <2>2. /\ mMsgQ \in Seq(Sessions) /\ mNotifyMsgQ \in Seq(Accounts)
        /\ mDBReqQ \in Seq(Saves) /\ mDBResQ \in Seq(Sessions)
    OBVIOUS
  <2>3. /\ sess \in [Sessions -> {"new", "accepting", "open", "gone"}] /\ kicked \subseteq Sessions
        /\ player \in [Sessions -> {"none", "alive", "deleted"}]
        /\ mBConnect \in [Sessions -> BOOLEAN] /\ mNextFieldID \in [Sessions -> {"auth", "field"}]
        /\ mAccountNo \in [Sessions -> Accounts \cup {None}] /\ mPos \in [Sessions -> Positions]
        /\ mRecvQ \in [Sessions -> Accounts \cup {None}]
        /\ mAccountsHash \in [Accounts -> Sessions \cup {None}]
        /\ dbPos \in [Accounts -> Positions \cup {None}] /\ left \in [Accounts -> Positions]
    OBVIOUS
  <2>. HIDE DEF Init
  <2>. QED BY <2>1, <2>2, <2>3 DEF TypeOK, Init
<1>2. CdbInv BY DEF CdbInv, NoneThrows, NewCDB, throwIfFailed
<1>3. \A x : ~In(<<>>, x) BY DEF In
<1>4. Once(<<>>) BY DEF Once
<1>5. \A s \in Sessions : ~GivenBack(s) BY DEF GivenBack
<1>6. StartInv /\ SessInv /\ AliveInv BY <1>3 DEF StartInv, SessInv, AliveInv
<1>7. PlaceInv BY <1>3, <1>4, <1>5 DEF PlaceInv
<1>8. AccountInv /\ ToldRight BY <1>3 DEF AccountInv, ToldRight
<1>9. AuthLists /\ FieldLists /\ DbLists /\ LogoutKnown
  BY DEF AuthLists, FieldLists, DbLists, LogoutKnown
<1>10. SaveInv BY <1>3, <1>4 DEF SaveInv, InReq, InDb
<1>11. RowInv BY DEF RowInv, FreshPosition
<1>12. UnAuthBound
  <2>1. mUnAuthSessions = {} /\ Accepting = {} BY DEF Accepting
  <2>. QED BY <2>1, FS_EmptySet DEF UnAuthBound
<1>. QED BY <1>1, <1>2, <1>6, <1>7, <1>8, <1>9, <1>10, <1>11, <1>12 DEF IInv

(* A step that changes nothing looks at no player.                             *)
LEMMA NoCutStutter ==
  ASSUME UNCHANGED vars
  PROVE  NoCut
BY DEF vars, NoCut, AuthCollect, Rest

(* The inductive step. *)
LEMMA InvStep ==
  ASSUME IInv, [Next]_vars, NoCut
  PROVE  IInv'
BY TypeStep, CdbStep, StartStep, SessStep, AliveStep, PlaceStep, AccountStep, ToldStep, AuthListsStep,
   FieldListsStep, DbListsStep, SaveStep, RowStep, UnAuthStep, LogoutStep DEF IInv

(* THEOREM IInvHolds: in every behaviour in which no round of the auth thread  *)
(* is cut short, the lists, the places, the accounts, the saves and the rows   *)
(* fit each other in every state.                                              *)
THEOREM IInvHolds == Spec /\ NeverCut => []IInv
<1>1. Init => IInv BY InitInv
<1>2. IInv /\ [Next]_vars /\ [NoCut]_vars => IInv' BY InvStep, NoCutStutter
<1>. QED BY <1>1, <1>2, PTL DEF Spec, NeverCut

(* THEOREM TypeCorrect: every variable has its type.                           *)
THEOREM TypeCorrect == Spec /\ NeverCut => []TypeOK
<1>1. IInv => TypeOK BY DEF IInv
<1>. QED BY <1>1, IInvHolds, PTL

(* An alive Player is in one of its places only, and a deleted one in none.    *)
LEMMA OnePlace ==
  ASSUME IInv
  PROVE  PlayerKept
<1>t. TypeOK /\ AliveInv /\ PlaceInv BY DEF IInv
<1>. DEFINE Auths(s) == s \in authPlayers
            Waits(s) == In(mMsgQ, s)
            Plays(s) == s \in fieldPlayers
<1>1. \A s, place : IsIn(s, place) <=> \/ place = "auth" /\ Auths(s)
                                       \/ place = "mMsgQ" /\ Waits(s)
                                       \/ place = "field" /\ Plays(s)
                                       \/ place = "mNotifyMsgQ" /\ GivenBack(s)
  BY DEF IsIn, In
<1>2. OneHolder
  <2>1. SUFFICES ASSUME NEW s \in Sessions, player[s] = "alive"
                 PROVE  \/ \E place \in Places : \A q \in Places : IsIn(s, q) <=> q = place
                        \/ s \in mUnAuthSessions /\ \A q \in Places : ~IsIn(s, q)
    BY DEF OneHolder
  <2>2. Auths(s) \/ Waits(s) \/ Plays(s) \/ GivenBack(s) \/ s \in mUnAuthSessions
    BY <1>t, <2>1 DEF PlaceInv
  <2>3. /\ ~(Auths(s) /\ Waits(s)) /\ ~(Auths(s) /\ Plays(s)) /\ ~(Auths(s) /\ GivenBack(s))
        /\ ~(Waits(s) /\ Plays(s)) /\ ~(Waits(s) /\ GivenBack(s)) /\ ~(Plays(s) /\ GivenBack(s))
    BY <1>t DEF PlaceInv
  <2>4. CASE Auths(s)
    <3>1. \A q \in Places : IsIn(s, q) <=> q = "auth" BY <1>1, <2>3, <2>4 DEF Places
    <3>. QED BY <3>1 DEF Places
  <2>5. CASE Waits(s)
    <3>1. \A q \in Places : IsIn(s, q) <=> q = "mMsgQ" BY <1>1, <2>3, <2>5 DEF Places
    <3>. QED BY <3>1 DEF Places
  <2>6. CASE Plays(s)
    <3>1. \A q \in Places : IsIn(s, q) <=> q = "field" BY <1>1, <2>3, <2>6 DEF Places
    <3>. QED BY <3>1 DEF Places
  <2>7. CASE GivenBack(s)
    <3>1. \A q \in Places : IsIn(s, q) <=> q = "mNotifyMsgQ" BY <1>1, <2>3, <2>7 DEF Places
    <3>. QED BY <3>1 DEF Places
  <2>8. CASE ~Auths(s) /\ ~Waits(s) /\ ~Plays(s) /\ ~GivenBack(s)
    BY <1>1, <2>2, <2>8
  <2>. QED BY <2>4, <2>5, <2>6, <2>7, <2>8
<1>3. NoDangling
  <2>1. SUFFICES ASSUME NEW s \in Sessions, player[s] = "deleted"
                 PROVE  /\ s \notin mUnAuthSessions /\ \A a \in Accounts : mAccountsHash[a] # s
                        /\ \A place \in Places : ~IsIn(s, place)
                        /\ s \notin authTodo \cup authD \cup authL \cup fieldTodo \cup fieldD
                        /\ sess[s] = "gone"
    BY DEF NoDangling
  <2>2. /\ s \notin mUnAuthSessions /\ ~Auths(s) /\ ~Plays(s) /\ ~Waits(s) /\ mAccountNo[s] = None
    BY <1>t, <2>1 DEF AliveInv
  <2>3. ~GivenBack(s) BY <2>2, GivenBackIs
  <2>4. \A a \in Accounts : mAccountsHash[a] # s
    BY <2>2, LifecycleAssumption DEF IInv, AccountInv
  <2>5. s \notin authTodo \cup authD \cup authL \cup fieldTodo \cup fieldD
    BY <2>2 DEF IInv, AuthLists, FieldLists
  <2>6. sess[s] = "gone" BY <2>1 DEF IInv, SessInv
  <2>. QED BY <1>1, <2>2, <2>3, <2>4, <2>5, <2>6
<1>. QED BY <1>2, <1>3 DEF PlayerKept

(* THEOREM PlayerIsKept: a Player that was made is, until the auth thread      *)
(* deletes it, with exactly one thread or in exactly one queue, and nothing    *)
(* that will be followed points to a deleted one (the comment "Auth에서만      *)
(* Player delete 수행").                                                       *)
THEOREM PlayerIsKept == Spec /\ NeverCut => []PlayerKept
<1>1. IInv => PlayerKept BY OnePlace
<1>. QED BY <1>1, IInvHolds, PTL

(* What the invariant says of the accounts. *)
LEMMA AccountFacts ==
  ASSUME IInv
  PROVE  AccountsHold
<1>1. \A s : IsIn(s, "mMsgQ") \/ IsIn(s, "field") => In(mMsgQ, s) \/ s \in fieldPlayers
  BY DEF IsIn, In
<1>2. AccountOnce BY <1>1, Playing, LifecycleAssumption DEF AccountOnce
<1>. QED BY <1>2 DEF IInv, CdbInv, AccountsHold

(* THEOREM AccountsAreHeld: a player in the field or on its way there is the   *)
(* one its account is registered for, a client is told so exactly when it is,  *)
(* a logout finds its account, MySQL never throws, and the accepts in flight   *)
(* bound the sessions that wait for a login.                                   *)
THEOREM AccountsAreHeld == Spec /\ NeverCut => []AccountsHold
<1>1. IInv => AccountsHold BY AccountFacts
<1>. QED BY <1>1, IInvHolds, PTL

-----------------------------------------------------------------------------
(* The saves. *)

(* As long as the db thread could hand over every answer, a pending save is in *)
(* a queue or with the db thread, once.                                        *)
LEMMA OneOutstanding ==
  ASSUME IInv, dbPc # "full_assert"
  PROVE  SavePending
<1>t. mDBReqQ \in Seq(Saves) /\ mDBResQ \in Seq(Sessions) BY DEF IInv, TypeOK
<1>1. SUFFICES ASSUME NEW s \in Sessions
               PROVE  Cardinality(Outstanding(s)) = IF s \in pending THEN 1 ELSE 0
  BY DEF SavePending
<1>. DEFINE Reqs == {<<"req", i>> : i \in {i \in 1 .. Len(mDBReqQ) : mDBReqQ[i].s = s}}
            Ress == {<<"res", i>> : i \in {i \in 1 .. Len(mDBResQ) : mDBResQ[i] = s}}
            Held == IF dbPc = "reply" /\ dbJob.s = s THEN {<<"db", 1>>} ELSE {}
<1>2. Outstanding(s) = Reqs \cup Ress \cup Held BY DEF Outstanding
<1>3. /\ InReq(s) => \E x : Reqs = {x}
      /\ ~InReq(s) => Reqs = {}
  <2>1. \A i \in 1 .. Len(mDBReqQ) : mDBReqQ[i] \in Saves /\ In(mDBReqQ, mDBReqQ[i])
    BY <1>t DEF In
  <2>2. ASSUME NEW i \in 1 .. Len(mDBReqQ), NEW j \in 1 .. Len(mDBReqQ),
               mDBReqQ[i].s = s, mDBReqQ[j].s = s
        PROVE  i = j
    <3>1. mDBReqQ[i] = mDBReqQ[j] BY <2>1, <2>2, OneRequest
    <3>. QED BY <3>1 DEF IInv, SaveInv, Once
  <2>3. InReq(s) <=> \E i \in 1 .. Len(mDBReqQ) : mDBReqQ[i].s = s BY <2>1 DEF InReq, In
  <2>4. ASSUME NEW i \in 1 .. Len(mDBReqQ), mDBReqQ[i].s = s PROVE Reqs = {<<"req", i>>}
    BY <2>2, <2>4
  <2>5. (\A i \in 1 .. Len(mDBReqQ) : mDBReqQ[i].s # s) => Reqs = {} OBVIOUS
  <2>. QED BY <2>3, <2>4, <2>5
<1>4. /\ In(mDBResQ, s) => \E x : Ress = {x}
      /\ ~In(mDBResQ, s) => Ress = {}
  <2>1. ASSUME NEW i \in 1 .. Len(mDBResQ), mDBResQ[i] = s PROVE Ress = {<<"res", i>>}
    BY <2>1 DEF IInv, SaveInv, Once
  <2>2. (\A i \in 1 .. Len(mDBResQ) : mDBResQ[i] # s) => Ress = {} OBVIOUS
  <2>. QED BY <2>1, <2>2 DEF In
<1>5. (InDb(s) => Held = {<<"db", 1>>}) /\ (~InDb(s) => Held = {}) BY DEF InDb
<1>. HIDE DEF Reqs, Ress, Held
<1>6. /\ InReq(s) \/ In(mDBResQ, s) \/ InDb(s) <=> s \in pending
      /\ InReq(s) => ~In(mDBResQ, s) /\ ~InDb(s)
      /\ InDb(s) => ~In(mDBResQ, s)
  BY DEF IInv, SaveInv
<1>7. CASE s \in pending
  <2>1. \E x : Outstanding(s) = {x} BY <1>2, <1>3, <1>4, <1>5, <1>6, <1>7
  <2>. QED BY <1>7, <2>1, FS_Singleton
<1>8. CASE s \notin pending
  <2>1. Outstanding(s) = {} BY <1>2, <1>3, <1>4, <1>5, <1>6, <1>8
  <2>. QED BY <1>8, <2>1, FS_EmptySet
<1>. QED BY <1>7, <1>8

(* What the invariant says of the saves. *)
LEMMA SaveFacts ==
  ASSUME IInv, CheckedEnqueue
  PROVE  SavesHold
BY OneOutstanding DEF IInv, RowInv, CheckedEnqueue, SavesHold

(* THEOREM SavesAreHeld: as long as no thread runs into a full queue, a login  *)
(* that is about to succeed has the position of the last save of its account,  *)
(* and a pending save is one request or answer.                                *)
THEOREM SavesAreHeld == Spec /\ NeverCut /\ []CheckedEnqueue => []SavesHold
<1>1. IInv /\ CheckedEnqueue => SavesHold BY SaveFacts
<1>. QED BY <1>1, IInvHolds, PTL

(* THEOREM LoginsAreFresh: the first half needs no room in the queues.         *)
THEOREM LoginsAreFresh == Spec /\ NeverCut => []FreshPosition
<1>1. IInv => FreshPosition BY DEF IInv, RowInv
<1>. QED BY <1>1, IInvHolds, PTL

-----------------------------------------------------------------------------
(* What the limits are enough for. *)

Alive == {s \in Sessions : player[s] = "alive"}

(* There are no more Players than the loops look at in one round, and than     *)
(* fit into a queue.                                                           *)
FewPlayers == Cardinality(Alive) <= CAP /\ Cardinality(Alive) <= QSIZE

(* Everybody in a list or in the field is alive. *)
LEMMA AliveFacts ==
  ASSUME IInv
  PROVE  /\ IsFiniteSet(Alive) /\ Cardinality(Alive) \in Nat
         /\ authPlayers \subseteq Alive /\ fieldPlayers \subseteq Alive
<1>1. Alive \subseteq Sessions BY DEF Alive
<1>2. IsFiniteSet(Alive) BY <1>1, LifecycleAssumption, FS_Subset
<1>3. authPlayers \subseteq Alive /\ fieldPlayers \subseteq Alive
  BY DEF Alive, IInv, AliveInv, TypeOK
<1>. QED BY <1>2, <1>3, FS_CardinalityType

(* With few players no round is cut short: a list that is full names them all. *)
LEMMA FewNotCut ==
  ASSUME IInv, FewPlayers, [Next]_vars
  PROVE  NoCut
<1>1. SUFFICES ASSUME NEW s \in Sessions, AuthCollect(s)
               PROVE  authTodo' = authTodo \ {s}
  BY DEF NoCut
<1>2. authPlayers' = authPlayers /\ Alive' = Alive BY <1>1 DEF AuthCollect, Alive
<1>3. authTodo' = Rest(authTodo \ {s}, authD', authL') BY <1>1 DEF AuthCollect
<1>4. IsFiniteSet(Alive) /\ Cardinality(Alive) \in Nat /\ authPlayers \subseteq Alive
  BY AliveFacts
<1>5. /\ authTodo \subseteq authPlayers /\ authTodo \cap (authD \cup authL) = {}
      /\ authD' \subseteq authPlayers /\ authL' \subseteq authPlayers
  BY <1>2, AuthListsStep DEF IInv, AuthLists
<1>6. (authTodo \ {s}) \cap (authD' \cup authL') = {} BY <1>1, <1>5 DEF AuthCollect
<1>7. ASSUME NEW D, D \subseteq authPlayers, Cardinality(D) = CAP, (authTodo \ {s}) \cap D = {}
      PROVE  authTodo \ {s} = {}
  <2>1. D \subseteq Alive BY <1>4, <1>7
  <2>2. Cardinality(D) <= Cardinality(Alive) /\ (Cardinality(Alive) = Cardinality(D) => Alive = D)
    BY <1>4, <2>1, FS_Subset
  <2>3. CAP \in Nat BY LifecycleAssumption
  <2>4. Alive = D BY <1>4, <1>7, <2>2, <2>3 DEF FewPlayers
  <2>. QED BY <1>4, <1>5, <1>7, <2>4
<1>. QED BY <1>3, <1>5, <1>6, <1>7 DEF Rest

(* A queue that holds the messages of distinct Players, but not of s, has room. *)
LEMMA Room ==
  ASSUME IInv, FewPlayers, NEW S, NEW q \in Seq(S), NEW s \in Alive,
         NEW who \in [1 .. Len(q) -> Alive \ {s}],
         \A i, j \in 1 .. Len(q) : who[i] = who[j] => i = j
  PROVE  ~Full(q)
<1>. DEFINE T == Alive \ {s}
<1>1. IsFiniteSet(Alive) /\ Cardinality(Alive) \in Nat BY AliveFacts
<1>2. IsFiniteSet(T) /\ Cardinality(T) = Cardinality(Alive) - 1 BY <1>1, FS_RemoveElement
<1>3. who \in Injection(1 .. Len(q), T) BY DEF Injection, IsInjective
<1>4. Cardinality(1 .. Len(q)) <= Cardinality(T) BY <1>2, <1>3, FS_Injection
<1>5. Len(q) \in Nat OBVIOUS
<1>6. Cardinality(1 .. Len(q)) = IF 1 > Len(q) THEN 0 ELSE Len(q) - 1 + 1 BY <1>5, FS_Interval
<1>7. Len(q) <= Cardinality(Alive) - 1 BY <1>1, <1>2, <1>4, <1>5, <1>6
<1>. QED BY <1>1, <1>5, <1>7, LifecycleAssumption DEF Full, FewPlayers

(* With few players no thread finds a queue full. *)
LEMMA FewEnqueued ==
  ASSUME IInv, FewPlayers, CheckedEnqueue, [Next]_vars
  PROVE  CheckedEnqueue'
<1>t. /\ mDBReqQ \in Seq(Saves) /\ mDBResQ \in Seq(Sessions) /\ mNotifyMsgQ \in Seq(Accounts)
      /\ \A i \in 1 .. Len(mDBReqQ) : mDBReqQ[i] \in Saves /\ In(mDBReqQ, mDBReqQ[i])
      /\ \A i \in 1 .. Len(mDBResQ) : mDBResQ[i] \in Sessions /\ In(mDBResQ, mDBResQ[i])
      /\ \A i \in 1 .. Len(mNotifyMsgQ) : mNotifyMsgQ[i] \in Accounts /\ In(mNotifyMsgQ, mNotifyMsgQ[i])
  BY DEF IInv, TypeOK, In
<1>a. fieldPlayers \subseteq Alive /\ pending \subseteq fieldPlayers
  BY AliveFacts DEF IInv, SaveInv
<1>1. ASSUME NEW s \in Sessions, FieldSave(s), s \notin pending PROVE ~Full(mDBReqQ)
  <2>1. s \in Alive BY <1>a, <1>1, SaveRequest
  <2>2. \A i \in 1 .. Len(mDBReqQ) : mDBReqQ[i].s \in Alive \ {s}
    BY <1>t, <1>a, <1>1, Saving
  <2>3. ASSUME NEW i \in 1 .. Len(mDBReqQ), NEW j \in 1 .. Len(mDBReqQ), mDBReqQ[i].s = mDBReqQ[j].s
        PROVE  i = j
    <3>1. mDBReqQ[i] = mDBReqQ[j] BY <1>t, <2>3, OneRequest
    <3>. QED BY <3>1 DEF IInv, SaveInv, Once
  <2>. DEFINE who == [i \in 1 .. Len(mDBReqQ) |-> mDBReqQ[i].s]
  <2>4. /\ who \in [1 .. Len(mDBReqQ) -> Alive \ {s}]
        /\ \A i, j \in 1 .. Len(mDBReqQ) : who[i] = who[j] => i = j
    BY <2>2, <2>3
  <2>. HIDE DEF who
  <2>. QED BY <1>t, <2>1, <2>4, Room
<1>2. ASSUME FieldResult PROVE ~Full(mNotifyMsgQ)
  <2>. DEFINE s == Head(mDBResQ)
              who == [i \in 1 .. Len(mNotifyMsgQ) |-> mAccountsHash[mNotifyMsgQ[i]]]
  <2>1. s \in Sessions /\ s \in fieldPlayers /\ s \in Alive BY <1>2, <1>a, ResultHead
  <2>2. ASSUME NEW i \in 1 .. Len(mNotifyMsgQ)
        PROVE  who[i] \in Alive \ {s} /\ mAccountNo[who[i]] = mNotifyMsgQ[i]
    <3>1. who[i] \in Sessions /\ mAccountNo[who[i]] = mNotifyMsgQ[i] /\ GivenBack(who[i])
      BY <1>t, NotifyHead
    <3>2. who[i] \in Alive BY <1>t, <3>1, LifecycleAssumption DEF Alive, IInv, AliveInv
    <3>3. who[i] # s BY <2>1, <3>1 DEF IInv, PlaceInv
    <3>. QED BY <3>1, <3>2, <3>3
  <2>3. ASSUME NEW i \in 1 .. Len(mNotifyMsgQ), NEW j \in 1 .. Len(mNotifyMsgQ), who[i] = who[j]
        PROVE  i = j
    <3>1. mNotifyMsgQ[i] = mNotifyMsgQ[j] BY <2>2, <2>3
    <3>. QED BY <3>1 DEF IInv, PlaceInv, Once
  <2>4. who \in [1 .. Len(mNotifyMsgQ) -> Alive \ {s}] BY <2>2
  <2>. HIDE DEF who, s
  <2>. QED BY <1>t, <2>1, <2>3, <2>4, Room
<1>3. ASSUME DbReply PROVE ~Full(mDBResQ)
  <2>. DEFINE s == dbJob.s
              who == [i \in 1 .. Len(mDBResQ) |-> mDBResQ[i]]
  <2>1. s \in Sessions /\ InDb(s) BY <1>3 DEF DbReply, IInv, DbLists, Saves, InDb
  <2>2. s \in Alive /\ ~In(mDBResQ, s) BY <1>a, <2>1 DEF IInv, SaveInv
  <2>3. \A i \in 1 .. Len(mDBResQ) : who[i] \in Alive \ {s}
    BY <1>t, <1>a, <2>2 DEF IInv, SaveInv
  <2>4. \A i, j \in 1 .. Len(mDBResQ) : who[i] = who[j] => i = j BY DEF IInv, SaveInv, Once
  <2>5. who \in [1 .. Len(mDBResQ) -> Alive \ {s}] BY <2>3
  <2>. HIDE DEF who, s
  <2>. QED BY <1>t, <2>2, <2>4, <2>5, Room
<1>4. fieldPc' # "full_assert"
  <2>1. ASSUME NEW s \in Sessions, FieldSave(s) PROVE fieldPc' # "full_assert"
    BY <1>1, <2>1 DEF FieldSave, AfterEnqueue, CheckedEnqueue
  <2>2. CASE FieldResult BY <1>2, <2>2 DEF FieldResult, AfterEnqueue, CheckedEnqueue
  <2>. QED BY <2>1, <2>2, FieldSteps
       DEF FieldRegister, FieldMsgsEnd, FieldFrame, FieldSaveEnd, FieldResultsEnd, Start, FieldCollect,
           CheckedEnqueue
<1>5. dbPc' # "full_assert"
  <2>1. CASE DbReply BY <1>3, <2>1 DEF DbReply, AfterEnqueue
  <2>. QED BY <2>1, DbSteps DEF DbConnect, AfterConnect, DbWait, DbSize, DbUpdate, Start, CheckedEnqueue
<1>. QED BY <1>4, <1>5 DEF CheckedEnqueue

(* THEOREM LimitsSuffice: as long as no more Players exist than the loops look *)
(* at in a round and a queue can hold, no round is cut short and no thread     *)
(* runs into a full queue, and so everything above holds without a further     *)
(* hypothesis.                                                                 *)
THEOREM LimitsSuffice ==
  Spec /\ []FewPlayers => [](PlayerKept /\ AccountsHold /\ SavesHold /\ CheckedEnqueue)
<1>. DEFINE Good == IInv /\ CheckedEnqueue
<1>1. Init => Good BY InitInv DEF Init, CheckedEnqueue
<1>2. Good /\ FewPlayers /\ [Next]_vars => Good'
  <2>. SUFFICES ASSUME Good, FewPlayers, [Next]_vars PROVE Good' OBVIOUS
  <2>1. NoCut BY FewNotCut
  <2>. QED BY <2>1, InvStep, FewEnqueued
<1>3. Good => PlayerKept /\ AccountsHold /\ SavesHold /\ CheckedEnqueue
  BY OnePlace, AccountFacts, SaveFacts
<1>. QED BY <1>1, <1>2, <1>3, PTL DEF Spec
=============================================================================

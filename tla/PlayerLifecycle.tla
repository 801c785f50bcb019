--------------------------- MODULE PlayerLifecycle ---------------------------
(***************************************************************************)
(* The life of a Player object in the field server: who owns it, from the  *)
(* accept of its session to its deletion, and the hand-offs between the    *)
(* threads of FieldServer:                                                 *)
(*                                                                         *)
(*   onAccept (worker) -> mUnAuthSessions -> auth thread -> mMsgQ ->       *)
(*   field thread -> mDBReqQ -> db thread -> mDBResQ -> field thread ->    *)
(*   mNotifyMsgQ -> auth thread, which alone deletes it                    *)
(*                                                                         *)
(* together with the Accounts table the position is kept in, the login     *)
(* that reads it back, and the shutdown in ~FieldServer.                   *)
(*                                                                         *)
(* Abstractions.  CONFIG_FIELD_SIZE is 1, as configured.  A Player is      *)
(* named by the session id it was made for; the network library gives each *)
(* id out once and releases it once (module IocpSession).  A message queue *)
(* holds what its messages carry.  A player's mRecvQ holds at most one     *)
(* message (bound), an AUTH_REQ; the other messages only move the player.  *)
(* Kill counts and rankings do not appear.  A MY_ASSERT that fails is a    *)
(* __debugbreak, which ends the process: here its thread goes no further   *)
(* (the pc names the cause), and what the others still do does no harm.    *)
(***************************************************************************)
EXTENDS Integers, Sequences, FiniteSets, CDB

CONSTANTS
  Sessions,     (* session ids, each accepted at most once                *)
  Accounts,     (* account numbers                                        *)
  Positions,    (* positions; a new account starts at Origin              *)
  Origin,
  None,         (* no session, no account, no message                     *)
  CAP,          (* CONFIG_DISCONNECT_AND_LEAVE_CAP                        *)
  UNAUTH_MAX,   (* CONFIG_UNAUTH_MAX_SIZE                                 *)
  WORKER_CNT,   (* CONFIG_WORKER_THREAD_CNT                               *)
  QSIZE,        (* pointers a message queue between threads can hold      *)
  MaxReqs       (* bound: AUTH_REQs sent by all clients together          *)

ASSUME LifecycleAssumption ==
  /\ Origin \in Positions
  /\ None \notin Sessions \cup Accounts \cup Positions
  /\ IsFiniteSet(Sessions)
  /\ CAP \in Nat \ {0} /\ UNAUTH_MAX \in Nat /\ WORKER_CNT \in Nat \ {0} /\ QSIZE \in Nat \ {0}
  /\ MaxReqs \in Nat

VARIABLES
  sess,             (* what the network library has done with each session id  *)
  kicked,           (* ids disconnectSession was called with                   *)
  player,           (* does the Player object of the session exist?            *)
  mBConnect, mNextFieldID, mAccountNo, mPos, mRecvQ, pending,  (* its members  *)
  mUnAuthSessions, mAccountsHash,
  mMsgQ, mNotifyMsgQ, mDBReqQ, mDBResQ,
  dbPos,            (* the Accounts table: position, None if there is no row    *)
  cdb,              (* the CDB objects of the auth and the db thread            *)
  authPc, authPlayers, authTodo, cur, authN, authD, authL,
  fieldPc, fieldPlayers, fieldTodo, fieldN, fieldD,
  dbPc, dbJob, dbN, dbIdx, mHDBEvent, mHDBFinishEvent,
  mainPc, mBOn,
  left,             (* history: position of the last save asked for            *)
  told,             (* sessions whose last answer was FIELD_AUTH_RES           *)
  reqs              (* history: AUTH_REQs sent                                 *)

netVars    == <<sess, kicked>>
playerVars == <<player, mBConnect, mNextFieldID, mAccountNo, mPos, mRecvQ, pending>>
mapVars    == <<mUnAuthSessions, mAccountsHash>>
sqlVars    == <<dbPos, cdb>>
clientVars == <<told, reqs>>
queueVars  == <<mMsgQ, mNotifyMsgQ, mDBReqQ, mDBResQ>>
authVars   == <<authPc, authPlayers, authTodo, cur, authN, authD, authL>>
fieldVars  == <<fieldPc, fieldPlayers, fieldTodo, fieldN, fieldD>>
eventVars  == <<mHDBEvent, mHDBFinishEvent>>
dbVars     == <<dbPc, dbJob, dbN, dbIdx>>
mainVars   == <<mainPc, mBOn>>
vars == <<netVars, playerVars, mapVars, queueVars, sqlVars, authVars, fieldVars, dbVars,
          eventVars, mainVars, left, clientVars>>

Logins == [s : Sessions, acct : Accounts, pos : Positions]
Saves  == [s : Sessions, acct : Accounts, pos : Positions]

Init ==
  /\ sess = [s \in Sessions |-> "new"] /\ kicked = {}
  /\ player = [s \in Sessions |-> "none"]
  /\ mBConnect = [s \in Sessions |-> TRUE] /\ mNextFieldID = [s \in Sessions |-> "auth"]
  /\ mAccountNo = [s \in Sessions |-> None] /\ mPos = [s \in Sessions |-> Origin]
  /\ mRecvQ = [s \in Sessions |-> None] /\ pending = {}
  /\ mUnAuthSessions = {} /\ mAccountsHash = [a \in Accounts |-> None]
  /\ mMsgQ = <<>> /\ mNotifyMsgQ = <<>> /\ mDBReqQ = <<>> /\ mDBResQ = <<>>
  /\ dbPos = [a \in Accounts |-> None] /\ cdb = [t \in {"auth", "db"} |-> NewCDB]
  /\ authPc = "none" /\ authPlayers = {} /\ authTodo = {} /\ cur = None /\ authN = 0
  /\ authD = {} /\ authL = {}
  /\ fieldPc = "none" /\ fieldPlayers = {} /\ fieldTodo = {} /\ fieldN = 0 /\ fieldD = {}
  /\ dbPc = "none" /\ dbJob = None /\ dbN = 0 /\ dbIdx = 0
  /\ mHDBEvent = FALSE /\ mHDBFinishEvent = FALSE
  /\ mainPc = "new" /\ mBOn = TRUE
  /\ left = [a \in Accounts |-> Origin]
  /\ told = {} /\ reqs = 0

(* MyRingBuffer::Enqueue of one pointer: a full buffer takes nothing, and the  *)
(* thread that called it asserts that it was not.                              *)
Full(q) == Len(q) >= QSIZE
Enqueue(q, x) == IF Full(q) THEN q ELSE Append(q, x)
AfterEnqueue(q, pc) == IF Full(q) THEN "full_assert" ELSE pc

(* DeQueueMsgOrNull gives nothing once the connection is gone.                *)
DeQueueMsgOrNull(s) == IF mBConnect[s] THEN mRecvQ[s] ELSE None

EnQueueMsg(s, msg) == mRecvQ' = [mRecvQ EXCEPT ![s] = msg]

(* A thread that uses MySQL begins with Connect; a failure is cleared, and then *)
(* asserted.                                                                   *)
Connected(t, ok) == cdb' = [cdb EXCEPT ![t] = IF ok THEN Connect(@, TRUE) ELSE ClearError(Connect(@, FALSE))]
AfterConnect(ok, pc) == IF ok THEN pc ELSE "connect_assert"

-----------------------------------------------------------------------------
(* The callbacks of the network library, on its worker threads. *)

Accepting == {s \in Sessions : sess[s] = "accepting"}

(* onAccept, first lock region: too many unauthenticated sessions, no Player. *)
AcceptCheck(s) ==
  /\ sess[s] = "new" /\ mainPc = "run" /\ Cardinality(Accepting) < WORKER_CNT
  /\ IF Cardinality(mUnAuthSessions) >= UNAUTH_MAX
     THEN sess' = [sess EXCEPT ![s] = "open"] /\ kicked' = kicked \cup {s}
     ELSE sess' = [sess EXCEPT ![s] = "accepting"] /\ UNCHANGED kicked
  /\ UNCHANGED <<playerVars, mapVars, queueVars, sqlVars, authVars, fieldVars, dbVars,
                 eventVars, mainVars, left, clientVars>>

(* onAccept, second lock region. *)
AcceptInsert(s) ==
  /\ sess[s] = "accepting"
  /\ sess' = [sess EXCEPT ![s] = "open"]
  /\ player' = [player EXCEPT ![s] = "alive"]
  /\ mUnAuthSessions' = mUnAuthSessions \cup {s}
  /\ UNCHANGED <<kicked, mBConnect, mNextFieldID, mAccountNo, mPos, mRecvQ, pending, mAccountsHash,
                 queueVars, sqlVars, authVars, fieldVars, dbVars, eventVars, mainVars, left, clientVars>>

(* onRecv of an AUTH_REQ; a client that sends too much is disconnected. *)
Recv(s) ==
  /\ sess[s] = "open" /\ player[s] # "none" /\ mRecvQ[s] = None
  /\ reqs < MaxReqs /\ reqs' = reqs + 1
  /\ \E a \in Accounts : EnQueueMsg(s, a)
  /\ kicked' = kicked \/ kicked' = kicked \cup {s}
  /\ UNCHANGED <<sess, player, mBConnect, mNextFieldID, mAccountNo, mPos, pending, mapVars,
                 queueVars, sqlVars, authVars, fieldVars, dbVars, eventVars, mainVars, left, told>>

(* The client leaves, or the session was disconnected: onRelease. *)
Release(s) ==
  /\ sess[s] = "open"
  /\ sess' = [sess EXCEPT ![s] = "gone"] /\ kicked' = kicked \ {s}
  /\ mBConnect' = IF player[s] = "none" THEN mBConnect ELSE [mBConnect EXCEPT ![s] = FALSE]
  /\ UNCHANGED <<player, mNextFieldID, mAccountNo, mPos, mRecvQ, pending, mapVars, queueVars,
                 sqlVars, authVars, fieldVars, dbVars, eventVars, mainVars, left, clientVars>>

-----------------------------------------------------------------------------
(* The auth thread. *)

AuthConnect ==
  /\ authPc = "connect"
  /\ \E ok \in BOOLEAN : Connected("auth", ok) /\ authPc' = AfterConnect(ok, "top")
  /\ UNCHANGED <<netVars, playerVars, mapVars, queueVars, dbPos, authPlayers, authTodo, cur, authN,
                 authD, authL, fieldVars, dbVars, eventVars, mainVars, left, clientVars>>

(* The end of the thread destroys its CDB. *)
AuthTop ==
  /\ authPc = "top"
  /\ IF ~mBOn /\ \A a \in Accounts : mAccountsHash[a] = None
     THEN authPc' = "exit" /\ cdb' = [cdb EXCEPT !["auth"] = Disconnect(@)]
     ELSE authPc' = "copy" /\ UNCHANGED cdb
  /\ UNCHANGED <<netVars, playerVars, mapVars, queueVars, dbPos, authPlayers, authTodo, cur, authN,
                 authD, authL, fieldVars, dbVars, eventVars, mainVars, left, clientVars>>

(* New sessions become players of this thread. *)
AuthCopy ==
  /\ authPc = "copy"
  /\ authPlayers' = authPlayers \cup mUnAuthSessions
  /\ authTodo' = authPlayers'
  /\ authPc' = "login"
  /\ UNCHANGED <<netVars, playerVars, mapVars, queueVars, sqlVars, cur, authN, authD, authL,
                 fieldVars, dbVars, eventVars, mainVars, left, clientVars>>

sendAuthFail(s) == told' = told \ {s}

(* The next message of s is taken out of its queue, as an AUTH_REQ. *)
TakeAuthReq(s) ==
  /\ authPc = "login" /\ s \in authTodo
  /\ mNextFieldID[s] = "auth" /\ DeQueueMsgOrNull(s) # None
  /\ EnQueueMsg(s, None)

(* A call of the CDB of this thread goes on with pc, or throws. *)
AfterCall(pc) == IF throwIfFailed(cdb["auth"]) THEN "cdb_exception" ELSE pc

(* What handleAuthReq leaves alone until it comes to the duplicate check. *)
untouched == <<netVars, player, mBConnect, mNextFieldID, mAccountNo, mPos, pending, mapVars, queueVars,
               authPlayers, authTodo, authN, authD, authL, fieldVars, dbVars, eventVars, mainVars,
               left, reqs>>

(* handleAuthReq: an id that is not alphanumeric is refused. *)
AuthInvalid(s) ==
  /\ TakeAuthReq(s) /\ sendAuthFail(s)
  /\ UNCHANGED <<untouched, authPc, cur, sqlVars>>

(* The SELECT by id and password.  When it fails, or finds no row (there is     *)
(* none, or its password is another), the id is taken for a new one.           *)
AuthSelect(s) ==
  LET row == dbPos[DeQueueMsgOrNull(s)] IN
  /\ TakeAuthReq(s)
  /\ \E queried, stored, pw \in BOOLEAN :
       LET db    == Query(cdb["auth"], queried, stored)
           found == ~throwIfFailed(db) /\ row # None /\ pw
       IN /\ cdb' = [cdb EXCEPT !["auth"] = ClearError(db)]
          /\ cur' = [s |-> s, acct |-> DeQueueMsgOrNull(s), pos |-> IF found THEN row ELSE Origin]
          /\ authPc' = AfterCall(IF found THEN "promote" ELSE "insert")
  /\ UNCHANGED <<untouched, dbPos, told>>

(* The INSERT, as ids are unique, and the SELECT of the new row, which nobody   *)
(* else writes yet.  Either may also just fail.                                *)
AuthInsert ==
  /\ authPc = "insert"
  /\ \E executed, queried \in BOOLEAN :
       LET inserted == executed /\ dbPos[cur.acct] = None
           db       == ClearError(Execute(cdb["auth"], inserted))
           found    == inserted /\ queried
       IN /\ cdb' = [cdb EXCEPT !["auth"] = IF inserted THEN ClearError(Query(db, queried, queried)) ELSE db]
          /\ dbPos' = IF inserted THEN [dbPos EXCEPT ![cur.acct] = Origin] ELSE dbPos
          /\ IF found THEN UNCHANGED <<cur, told>> ELSE cur' = None /\ sendAuthFail(cur.s)
          /\ authPc' = AfterCall(IF found THEN "promote" ELSE "login")
  /\ UNCHANGED <<untouched, mRecvQ>>

(* This player has nothing (more) for the auth thread in this round. *)
AuthNext(s) ==
  /\ authPc = "login" /\ s \in authTodo
  /\ mNextFieldID[s] # "auth" \/ DeQueueMsgOrNull(s) = None
  /\ authTodo' = authTodo \ {s}
  /\ UNCHANGED <<netVars, playerVars, mapVars, queueVars, sqlVars, authPc, authPlayers, cur, authN,
                 authD, authL, fieldVars, dbVars, eventVars, mainVars, left, clientVars>>

SetPosition(s, pos) == mPos' = [mPos EXCEPT ![s] = pos]
InitPlayerInfo(s, accountNo, MoveIdx) ==
  /\ mAccountNo' = [mAccountNo EXCEPT ![s] = accountNo]
  /\ mNextFieldID' = [mNextFieldID EXCEPT ![s] = MoveIdx]

(* Fault: the new login takes the account over instead of being refused. *)
AuthPromoteTakesOver ==
  /\ authPc = "promote"
  /\ kicked' = IF mAccountsHash[cur.acct] # None THEN kicked \cup {mAccountsHash[cur.acct]} ELSE kicked
  /\ mUnAuthSessions' = mUnAuthSessions \ {cur.s}
  /\ SetPosition(cur.s, cur.pos) /\ InitPlayerInfo(cur.s, cur.acct, "field")
  /\ mAccountsHash' = [mAccountsHash EXCEPT ![cur.acct] = cur.s]
  /\ told' = told \cup {cur.s}
  /\ authPc' = "login" /\ cur' = None
  /\ UNCHANGED <<sess, player, mBConnect, mRecvQ, pending, queueVars, sqlVars, authPlayers, authTodo,
                 authN, authD, authL, fieldVars, dbVars, eventVars, mainVars, left, reqs>>

(* handleAuthReq from the duplicate check on: the account is in use and its    *)
(* session is disconnected, or the player is promoted.                         *)
AuthPromote ==
  LET s == cur.s
      a == cur.acct
  IN
  /\ authPc = "promote"
  /\ IF mAccountsHash[a] # None
     THEN /\ kicked' = kicked \cup {mAccountsHash[a]} /\ sendAuthFail(s)
          /\ UNCHANGED <<mPos, mAccountNo, mNextFieldID, mapVars>>
     ELSE /\ UNCHANGED kicked
          /\ IF s \notin mUnAuthSessions
             THEN UNCHANGED <<mPos, mAccountNo, mNextFieldID, mapVars, told>>
             ELSE /\ mUnAuthSessions' = mUnAuthSessions \ {s}
                  /\ SetPosition(s, cur.pos) /\ InitPlayerInfo(s, a, "field")
                  /\ mAccountsHash' = [mAccountsHash EXCEPT ![a] = s]
                  /\ told' = told \cup {s}
  /\ authPc' = "login" /\ cur' = None
  /\ UNCHANGED <<sess, player, mBConnect, mRecvQ, pending, queueVars, sqlVars, authPlayers, authTodo,
                 authN, authD, authL, fieldVars, dbVars, eventVars, mainVars, left, reqs>>

AuthLoginEnd ==
  /\ authPc = "login" /\ authTodo = {}
  /\ authN' = Len(mNotifyMsgQ)
  /\ authPc' = "notify"
  /\ UNCHANGED <<netVars, playerVars, mapVars, queueVars, sqlVars, authPlayers, authTodo, cur,
                 authD, authL, fieldVars, dbVars, eventVars, mainVars, left, clientVars>>

(* Fault: whatever is in the queue is handled, not only what was counted. *)
AuthNotifyAll ==
  /\ authPc = "notify" /\ mNotifyMsgQ # <<>>
  /\ mNotifyMsgQ' = Tail(mNotifyMsgQ) /\ authN' = authN - 1
  /\ LET a == Head(mNotifyMsgQ) IN
     IF mAccountsHash[a] = None
     THEN authPc' = "logout_assert" /\ UNCHANGED <<authPlayers, mAccountsHash>>
     ELSE /\ authPlayers' = authPlayers \cup {mAccountsHash[a]}
          /\ mAccountsHash' = [mAccountsHash EXCEPT ![a] = None]
          /\ UNCHANGED authPc
  /\ UNCHANGED <<netVars, playerVars, mUnAuthSessions, mMsgQ, mDBReqQ, mDBResQ, sqlVars, authTodo,
                 cur, authD, authL, fieldVars, dbVars, eventVars, mainVars, left, clientVars>>

(* authNotifyPacketProc, PLAYER_DISCONNECTED: the player comes back to this    *)
(* thread and its account is free again; it must have been in use.             *)
AuthNotify ==
  /\ authPc = "notify" /\ authN > 0
  /\ mNotifyMsgQ' = Tail(mNotifyMsgQ) /\ authN' = authN - 1
  /\ LET a == Head(mNotifyMsgQ) IN
     IF mAccountsHash[a] = None
     THEN authPc' = "logout_assert" /\ UNCHANGED <<authPlayers, mAccountsHash>>
     ELSE /\ authPlayers' = authPlayers \cup {mAccountsHash[a]}
          /\ mAccountsHash' = [mAccountsHash EXCEPT ![a] = None]
          /\ UNCHANGED authPc
  /\ UNCHANGED <<netVars, playerVars, mUnAuthSessions, mMsgQ, mDBReqQ, mDBResQ, sqlVars, authTodo,
                 cur, authD, authL, fieldVars, dbVars, eventVars, mainVars, left, clientVars>>

AuthNotifyEnd ==
  /\ authPc = "notify" /\ authN = 0
  /\ authTodo' = authPlayers /\ authPc' = "leave"
  /\ UNCHANGED <<netVars, playerVars, mapVars, queueVars, sqlVars, authPlayers, cur, authN,
                 authD, authL, fieldVars, dbVars, eventVars, mainVars, left, clientVars>>

(* The players still to be looked at, once the lists are D and L: none when    *)
(* one of them has CAP entries.                                                *)
Rest(todo, D, L) == IF Cardinality(D) = CAP \/ Cardinality(L) = CAP THEN {} ELSE todo

(* checkDisConnectedAndLeavePlayer, first loop: disconnected and leaving       *)
(* players are noted, CAP of either at most.                                   *)
AuthCollect(s) ==
  /\ authPc = "leave" /\ s \in authTodo
  /\ authD' = IF mBConnect[s] THEN authD ELSE authD \cup {s}
  /\ authL' = IF mBConnect[s] /\ mNextFieldID[s] # "auth" THEN authL \cup {s} ELSE authL
  /\ authTodo' = Rest(authTodo \ {s}, authD', authL')
  /\ UNCHANGED <<netVars, playerVars, mapVars, queueVars, sqlVars, authPc, authPlayers, cur, authN,
                 fieldVars, dbVars, eventVars, mainVars, left, clientVars>>

(* The members of a deleted Player are gone with it. *)
Delete(s) ==
  /\ player' = [player EXCEPT ![s] = "deleted"]
  /\ mNextFieldID' = [mNextFieldID EXCEPT ![s] = "auth"]
  /\ mAccountNo' = [mAccountNo EXCEPT ![s] = None]
  /\ mPos' = [mPos EXCEPT ![s] = Origin]
  /\ mRecvQ' = [mRecvQ EXCEPT ![s] = None]
  /\ told' = told \ {s}

(* Second loop, auth branch: the Player is deleted.  A session that is not in  *)
(* mUnAuthSessions takes the entry of its account number with it.              *)
AuthDrop(s) ==
  /\ authPc = "leave" /\ authTodo = {} /\ s \in authD
  /\ authD' = authD \ {s} /\ authPlayers' = authPlayers \ {s}
  /\ IF s \in mUnAuthSessions
     THEN mUnAuthSessions' = mUnAuthSessions \ {s} /\ UNCHANGED mAccountsHash
     ELSE /\ mAccountsHash' = IF mAccountNo[s] = None THEN mAccountsHash
                              ELSE [mAccountsHash EXCEPT ![mAccountNo[s]] = None]
          /\ UNCHANGED mUnAuthSessions
  /\ Delete(s)
  /\ UNCHANGED <<netVars, mBConnect, pending, queueVars, sqlVars, authPc, authTodo, cur, authN, authL,
                 fieldVars, dbVars, eventVars, mainVars, left, reqs>>

(* enterField: REGISTER_PLAYER, waiting while mMsgQ is full. *)
enterField(s) ==
  /\ Len(mMsgQ) < QSIZE
  /\ authPlayers' = authPlayers \ {s}
  /\ mMsgQ' = Append(mMsgQ, s)

(* Third loop. *)
AuthEnter(s) ==
  /\ authPc = "leave" /\ authTodo = {} /\ authD = {} /\ s \in authL
  /\ authL' = authL \ {s}
  /\ IF s \in pending
     THEN UNCHANGED <<authPlayers, mMsgQ>>
     ELSE enterField(s)
  /\ UNCHANGED <<netVars, playerVars, mapVars, mNotifyMsgQ, mDBReqQ, mDBResQ, sqlVars, authPc, authTodo,
                 cur, authN, authD, fieldVars, dbVars, eventVars, mainVars, left, clientVars>>

(* heartBeatForUnAuthSession: a connected player of this thread that was       *)
(* silent for 30 seconds is disconnected, and stops the process.               *)
AuthHeartBeat ==
  /\ authPc = "leave" /\ authTodo = {} /\ authD = {} /\ authL = {}
  /\ \/ authPc' = "top" /\ UNCHANGED kicked
     \/ /\ \E s \in authPlayers : mBConnect[s] /\ kicked' = kicked \cup {s}
        /\ authPc' = "idle_assert"
  /\ UNCHANGED <<sess, playerVars, mapVars, queueVars, sqlVars, authPlayers, authTodo, cur, authN,
                 authD, authL, fieldVars, dbVars, eventVars, mainVars, left, clientVars>>

-----------------------------------------------------------------------------
(* The field thread. *)

(* handleRegisterPlayer *)
FieldRegister ==
  /\ fieldPc = "msgs" /\ fieldN > 0
  /\ fieldPlayers' = fieldPlayers \cup {Head(mMsgQ)}
  /\ mMsgQ' = Tail(mMsgQ) /\ fieldN' = fieldN - 1
  /\ UNCHANGED <<netVars, playerVars, mapVars, mNotifyMsgQ, mDBReqQ, mDBResQ, sqlVars, authVars, fieldPc,
                 fieldTodo, fieldD, dbVars, eventVars, mainVars, left, clientVars>>

(* Nothing (more) in mMsgQ: with no player left and the server off, the end. *)
FieldMsgsEnd ==
  /\ fieldPc = "msgs" /\ fieldN = 0
  /\ IF fieldPlayers = {} /\ ~mBOn
     THEN fieldPc' = "exit" /\ mHDBFinishEvent' = TRUE
     ELSE fieldPc' = "frame" /\ UNCHANGED mHDBFinishEvent
  /\ UNCHANGED <<netVars, playerVars, mapVars, queueVars, sqlVars, authVars, fieldPlayers, fieldTodo,
                 fieldN, fieldD, dbVars, mHDBEvent, mainVars, left, clientVars>>

(* One round of the frame, if it is due: messages the field does not know      *)
(* disconnect their sender, and a player may move or, connected or not, be     *)
(* knocked back by a monster.                                                  *)
FieldFrame ==
  LET talkers == {s \in fieldPlayers : DeQueueMsgOrNull(s) # None} IN
  /\ fieldPc = "frame"
  /\ \/ UNCHANGED <<kicked, mRecvQ, mPos, mBConnect>>
     \/ /\ kicked' = kicked \cup talkers
        /\ mRecvQ' = [s \in Sessions |-> IF s \in talkers THEN None ELSE mRecvQ[s]]
        /\ mBConnect' = [s \in Sessions |-> mBConnect[s] /\ (mBOn \/ s \notin fieldPlayers)]
        /\ \/ UNCHANGED mPos
           \/ \E s \in fieldPlayers, p \in Positions : mPos' = [mPos EXCEPT ![s] = p]
  /\ fieldPc' = "leave" /\ fieldTodo' = fieldPlayers
  /\ UNCHANGED <<sess, player, mNextFieldID, mAccountNo, pending, mapVars, queueVars, sqlVars,
                 authVars, fieldPlayers, fieldN, fieldD, dbVars, eventVars, mainVars, left, clientVars>>

(* checkDisConnectedAndLeavePlayer in the field: nobody leaves for another     *)
(* field, there is one.                                                        *)
FieldCollect(s) ==
  /\ fieldPc = "leave" /\ s \in fieldTodo
  /\ fieldD' = IF mBConnect[s] THEN fieldD ELSE fieldD \cup {s}
  /\ fieldTodo' = Rest(fieldTodo \ {s}, fieldD', {})
  /\ UNCHANGED <<netVars, playerVars, mapVars, queueVars, sqlVars, authVars, fieldPc, fieldPlayers,
                 fieldN, dbVars, eventVars, mainVars, left, clientVars>>

Save(s) == [s |-> s, acct |-> mAccountNo[s], pos |-> mPos[s]]

(* Fault: the db thread is not woken. *)
FieldSaveNoEvent(s) ==
  /\ fieldPc = "leave" /\ fieldTodo = {} /\ s \in fieldD
  /\ fieldD' = fieldD \ {s}
  /\ IF s \in pending
     THEN UNCHANGED <<mDBReqQ, pending, left>>
     ELSE /\ mDBReqQ' = Enqueue(mDBReqQ, Save(s))
          /\ pending' = pending \cup {s}
          /\ left' = [left EXCEPT ![mAccountNo[s]] = mPos[s]]
  /\ UNCHANGED <<netVars, player, mBConnect, mNextFieldID, mAccountNo, mPos, mRecvQ, mapVars, mMsgQ,
                 mNotifyMsgQ, mDBResQ, sqlVars, authVars, fieldPc, fieldPlayers, fieldTodo, fieldN,
                 dbVars, eventVars, mainVars, clientVars>>

(* Fault: the player is given back without waiting for the answer. *)
FieldSaveAndGo(s) ==
  /\ fieldPc = "leave" /\ fieldTodo = {} /\ s \in fieldD
  /\ fieldD' = fieldD \ {s} /\ fieldPlayers' = fieldPlayers \ {s}
  /\ mDBReqQ' = Enqueue(mDBReqQ, Save(s)) /\ mHDBEvent' = TRUE
  /\ mNotifyMsgQ' = Enqueue(mNotifyMsgQ, mAccountNo[s])
  /\ left' = [left EXCEPT ![mAccountNo[s]] = mPos[s]]
  /\ UNCHANGED <<netVars, playerVars, mapVars, mMsgQ, mDBResQ, sqlVars, authVars, fieldPc, fieldTodo,
                 fieldN, dbVars, mHDBFinishEvent, mainVars, clientVars>>

(* requestPositionSave, unless the answer to an earlier request is awaited. *)
FieldSave(s) ==
  /\ fieldPc = "leave" /\ fieldTodo = {} /\ s \in fieldD
  /\ fieldD' = fieldD \ {s}
  /\ IF s \in pending
     THEN UNCHANGED <<fieldPc, mDBReqQ, mHDBEvent, pending, left>>
     ELSE /\ fieldPc' = AfterEnqueue(mDBReqQ, "leave")
          /\ mDBReqQ' = Enqueue(mDBReqQ, Save(s))
          /\ IF Full(mDBReqQ)
             THEN UNCHANGED <<mHDBEvent, pending, left>>
             ELSE /\ pending' = pending \cup {s} /\ mHDBEvent' = TRUE
                  /\ left' = [left EXCEPT ![mAccountNo[s]] = mPos[s]]
  /\ UNCHANGED <<netVars, player, mBConnect, mNextFieldID, mAccountNo, mPos, mRecvQ, mapVars, mMsgQ,
                 mNotifyMsgQ, mDBResQ, sqlVars, authVars, fieldPlayers, fieldTodo, fieldN,
                 dbVars, mHDBFinishEvent, mainVars, clientVars>>

FieldSaveEnd ==
  /\ fieldPc = "leave" /\ fieldTodo = {} /\ fieldD = {}
  /\ fieldN' = Len(mDBResQ) /\ fieldPc' = "results"
  /\ UNCHANGED <<netVars, playerVars, mapVars, queueVars, sqlVars, authVars, fieldPlayers, fieldTodo,
                 fieldD, dbVars, eventVars, mainVars, left, clientVars>>

notifyDisconnect(s) == mNotifyMsgQ' = Enqueue(mNotifyMsgQ, mAccountNo[s])

(* Fault: the field keeps the player it gives back. *)
FieldResultKeeps ==
  LET s == Head(mDBResQ) IN
  /\ fieldPc = "results" /\ fieldN > 0
  /\ mDBResQ' = Tail(mDBResQ) /\ fieldN' = fieldN - 1
  /\ pending' = pending \ {s} /\ notifyDisconnect(s)
  /\ UNCHANGED <<netVars, player, mBConnect, mNextFieldID, mAccountNo, mPos, mRecvQ, mapVars, mMsgQ,
                 mDBReqQ, sqlVars, authVars, fieldPc, fieldPlayers, fieldTodo, fieldD, dbVars, eventVars,
                 mainVars, left, clientVars>>

(* dbResultPacketProc, PositionSave: whether the save worked or not, the       *)
(* player leaves the field and the auth thread is told.                        *)
FieldResult ==
  LET s == Head(mDBResQ) IN
  /\ fieldPc = "results" /\ fieldN > 0
  /\ mDBResQ' = Tail(mDBResQ) /\ fieldN' = fieldN - 1
  /\ IF s \notin fieldPlayers
     THEN UNCHANGED <<fieldPc, pending, mNotifyMsgQ, fieldPlayers>>
     ELSE /\ fieldPc' = AfterEnqueue(mNotifyMsgQ, "results")
          /\ pending' = pending \ {s} /\ notifyDisconnect(s)
          /\ fieldPlayers' = IF Full(mNotifyMsgQ) THEN fieldPlayers ELSE fieldPlayers \ {s}
  /\ UNCHANGED <<netVars, player, mBConnect, mNextFieldID, mAccountNo, mPos, mRecvQ, mapVars, mMsgQ,
                 mDBReqQ, sqlVars, authVars, fieldTodo, fieldD, dbVars, eventVars, mainVars,
                 left, clientVars>>

(* The next round begins with the size of mMsgQ. *)
FieldResultsEnd ==
  /\ fieldPc = "results" /\ fieldN = 0
  /\ fieldN' = Len(mMsgQ) /\ fieldPc' = "msgs"
  /\ UNCHANGED <<netVars, playerVars, mapVars, queueVars, sqlVars, authVars, fieldPlayers, fieldTodo,
                 fieldD, dbVars, eventVars, mainVars, left, clientVars>>

-----------------------------------------------------------------------------
(* The db thread. *)

(* Nobody sees whether the thread has connected before it is first woken. *)
DbConnect ==
  /\ dbPc = "connect" /\ (mHDBEvent \/ mHDBFinishEvent)
  /\ \E ok \in BOOLEAN : Connected("db", ok) /\ dbPc' = AfterConnect(ok, "wait")
  /\ UNCHANGED <<netVars, playerVars, mapVars, queueVars, dbPos, authVars, fieldVars, dbJob, dbN, dbIdx,
                 eventVars, mainVars, left, clientVars>>

(* WaitForMultipleObjects: the lowest signalled index; mHDBEvent resets itself. *)
DbWait ==
  /\ dbPc = "wait" /\ (mHDBEvent \/ mHDBFinishEvent)
  /\ dbIdx' = IF mHDBEvent THEN 0 ELSE 1
  /\ mHDBEvent' = FALSE /\ dbPc' = "size"
  /\ UNCHANGED <<netVars, playerVars, mapVars, queueVars, sqlVars, authVars, fieldVars, dbJob, dbN,
                 mHDBFinishEvent, mainVars, left, clientVars>>

DbSize ==
  /\ dbPc = "size"
  /\ dbN' = Len(mDBReqQ)
  /\ dbPc' = IF dbN' > 0 THEN "jobs" ELSE IF dbIdx = 1 THEN "exit" ELSE "wait"
  /\ cdb' = IF dbPc' = "exit" THEN [cdb EXCEPT !["db"] = Disconnect(@)] ELSE cdb
  /\ UNCHANGED <<netVars, playerVars, mapVars, queueVars, dbPos, authVars, fieldVars, dbJob, dbIdx,
                 eventVars, mainVars, left, clientVars>>

(* The UPDATE of a PositionSave job, which may fail. *)
DbUpdate ==
  LET job == Head(mDBReqQ) IN
  /\ dbPc = "jobs"
  /\ mDBReqQ' = Tail(mDBReqQ) /\ dbN' = dbN - 1 /\ dbJob' = job
  /\ \E ok \in BOOLEAN :
       /\ cdb' = [cdb EXCEPT !["db"] = ClearError(Execute(@, ok))]
       /\ dbPos' = IF ok THEN [dbPos EXCEPT ![job.acct] = job.pos] ELSE dbPos
       /\ left' = IF ok THEN left ELSE [left EXCEPT ![job.acct] = dbPos[job.acct]]
  /\ dbPc' = IF throwIfFailed(cdb["db"]) THEN "cdb_exception" ELSE "reply"
  /\ UNCHANGED <<netVars, playerVars, mapVars, mMsgQ, mNotifyMsgQ, mDBResQ, authVars, fieldVars, dbIdx,
                 eventVars, mainVars, clientVars>>

DbReply ==
  /\ dbPc = "reply"
  /\ mDBResQ' = Enqueue(mDBResQ, dbJob.s) /\ dbJob' = None
  /\ dbPc' = AfterEnqueue(mDBResQ, IF dbN > 0 THEN "jobs" ELSE "wait")
  /\ UNCHANGED <<netVars, playerVars, mapVars, mMsgQ, mNotifyMsgQ, mDBReqQ, sqlVars, authVars, fieldVars,
                 dbN, dbIdx, eventVars, mainVars, left, clientVars>>

-----------------------------------------------------------------------------
(* Start and ~FieldServer *)

(* Start: createThread, and then sessions are accepted. *)
Start ==
  /\ mainPc = "new" /\ mainPc' = "run"
  /\ authPc' = "connect" /\ fieldPc' = "msgs" /\ dbPc' = "connect"
  /\ UNCHANGED <<netVars, playerVars, mapVars, queueVars, sqlVars, authPlayers, authTodo, cur, authN,
                 authD, authL, fieldPlayers, fieldTodo, fieldN, fieldD, dbJob, dbN, dbIdx, eventVars,
                 mBOn, left, clientVars>>

(* stop() disconnects the open sessions; one that is just being accepted may   *)
(* be missed.                                                                  *)
Stop ==
  /\ mainPc = "run" /\ mainPc' = "stopping"
  /\ \E missed \in SUBSET Accepting :
       kicked' = kicked \cup ({s \in Sessions : sess[s] \in {"accepting", "open"}} \ missed)
  /\ UNCHANGED <<sess, playerVars, mapVars, queueVars, sqlVars, authVars, fieldVars, dbVars, eventVars,
                 mBOn, left, clientVars>>

(* stop() returns once every session is released. *)
StopReturn ==
  /\ mainPc = "stopping" /\ \A s \in Sessions : sess[s] \in {"new", "gone"}
  /\ mBOn' = FALSE /\ mainPc' = "join_field"
  /\ UNCHANGED <<netVars, playerVars, mapVars, queueVars, sqlVars, authVars, fieldVars, dbVars, eventVars,
                 left, clientVars>>

JoinField ==
  /\ mainPc = "join_field" /\ fieldPc = "exit"
  /\ mHDBEvent' = TRUE /\ mainPc' = "join_db"
  /\ UNCHANGED <<netVars, playerVars, mapVars, queueVars, sqlVars, authVars, fieldVars, dbVars,
                 mHDBFinishEvent, mBOn, left, clientVars>>

Join(from, threadPc, to) ==
  /\ mainPc = from /\ threadPc = "exit"
  /\ mainPc' = to
  /\ UNCHANGED <<netVars, playerVars, mapVars, queueVars, sqlVars, authVars, fieldVars, dbVars, eventVars,
                 mBOn, left, clientVars>>

-----------------------------------------------------------------------------

Network(s) == AcceptCheck(s) \/ AcceptInsert(s) \/ Recv(s) \/ Release(s)

Auth ==
  \/ AuthConnect \/ AuthTop \/ AuthCopy \/ AuthInsert \/ AuthPromote \/ AuthLoginEnd \/ AuthNotify \/ AuthNotifyEnd
  \/ AuthHeartBeat
  \/ \E s \in Sessions : AuthInvalid(s) \/ AuthSelect(s) \/ AuthNext(s)
  \/ \E s \in Sessions : AuthCollect(s) \/ AuthDrop(s) \/ AuthEnter(s)

Field ==
  \/ FieldRegister \/ FieldMsgsEnd \/ FieldFrame \/ FieldSaveEnd
  \/ FieldResult \/ FieldResultsEnd
  \/ \E s \in Sessions : FieldCollect(s) \/ FieldSave(s)

Db == DbConnect \/ DbWait \/ DbSize \/ DbUpdate \/ DbReply

Main == Start \/ Stop \/ StopReturn \/ JoinField \/ Join("join_db", dbPc, "join_auth")
          \/ Join("join_auth", authPc, "done")

Next == (\E s \in Sessions : Network(s)) \/ Auth \/ Field \/ Db \/ Main

Spec == Init /\ [][Next]_vars

(* Every thread keeps running; an accept goes through, and a session that was  *)
(* disconnected is released (DeadIsReleased of IocpSession).  Nothing is       *)
(* assumed of the clients or of the operator who stops the server.             *)
Fairness ==
  /\ WF_vars(Auth) /\ WF_vars(Field) /\ WF_vars(Db)
  /\ \A s \in Sessions : WF_vars(AcceptInsert(s)) /\ WF_vars(s \in kicked /\ Release(s))

FairSpec == Spec /\ Fairness

-----------------------------------------------------------------------------
(* Properties *)

(* Type invariant. *)
TypeOK ==
  /\ sess \in [Sessions -> {"new", "accepting", "open", "gone"}] /\ kicked \subseteq Sessions
  /\ player \in [Sessions -> {"none", "alive", "deleted"}]
  /\ mBConnect \in [Sessions -> BOOLEAN] /\ mNextFieldID \in [Sessions -> {"auth", "field"}]
  /\ mAccountNo \in [Sessions -> Accounts \cup {None}] /\ mPos \in [Sessions -> Positions]
  /\ mRecvQ \in [Sessions -> Accounts \cup {None}] /\ pending \subseteq Sessions
  /\ mUnAuthSessions \subseteq Sessions /\ mAccountsHash \in [Accounts -> Sessions \cup {None}]
  /\ mMsgQ \in Seq(Sessions) /\ mNotifyMsgQ \in Seq(Accounts)
  /\ mDBReqQ \in Seq(Saves) /\ mDBResQ \in Seq(Sessions)
  /\ dbPos \in [Accounts -> Positions \cup {None}] /\ left \in [Accounts -> Positions]
  /\ authPc \in {"none", "connect", "top", "copy", "login", "insert", "promote", "notify",
                "leave", "exit", "connect_assert", "cdb_exception", "idle_assert", "logout_assert"}
  /\ authPlayers \subseteq Sessions /\ authTodo \subseteq Sessions
  /\ cur \in Logins \cup {None} /\ authN \in Nat
  /\ authD \subseteq Sessions /\ authL \subseteq Sessions
  /\ fieldPc \in {"none", "msgs", "frame", "leave", "results", "exit", "full_assert"}
  /\ fieldPlayers \subseteq Sessions /\ fieldTodo \subseteq Sessions
  /\ fieldN \in Nat /\ fieldD \subseteq Sessions
  /\ dbPc \in {"none", "connect", "wait", "size", "jobs", "reply", "exit", "connect_assert",
              "cdb_exception", "full_assert"}
  /\ dbJob \in Saves \cup {None}
  /\ dbN \in Nat /\ dbIdx \in {0, 1}
  /\ mHDBEvent \in BOOLEAN /\ mHDBFinishEvent \in BOOLEAN
  /\ mainPc \in {"new", "run", "stopping", "join_field", "join_db", "join_auth", "done"}
  /\ mBOn \in BOOLEAN
  /\ cdb \in [{"auth", "db"} -> CDBs]
  /\ told \subseteq Sessions /\ reqs \in Nat

(* Where a Player may be: with the auth or the field thread, on the way into   *)
(* the field, or given back by the field and not yet taken by the auth thread. *)
Places == {"auth", "mMsgQ", "field", "mNotifyMsgQ"}
GivenBack(s) == /\ \E i \in 1 .. Len(mNotifyMsgQ) : mNotifyMsgQ[i] = mAccountNo[s]
                /\ mAccountNo[s] # None /\ mAccountsHash[mAccountNo[s]] = s
IsIn(s, place) ==
  \/ place = "auth" /\ s \in authPlayers
  \/ place = "mMsgQ" /\ \E i \in 1 .. Len(mMsgQ) : mMsgQ[i] = s
  \/ place = "field" /\ s \in fieldPlayers
  \/ place = "mNotifyMsgQ" /\ GivenBack(s)

(* Exactly one thread or queue has the Player, as the comment "Auth에서만      *)
(* Player delete 수행" needs: no two threads touch it, and none forgets it.    *)
OneHolder ==
  \A s \in Sessions : player[s] = "alive" =>
    \/ \E place \in Places : \A q \in Places : IsIn(s, q) <=> q = place
    \/ s \in mUnAuthSessions /\ \A q \in Places : ~IsIn(s, q)

(* Nothing that will still be followed points to a deleted Player: the maps,    *)
(* the queues, the lists of a loop, and the pointer of a session that onRecv or *)
(* onRelease may still be called for.                                          *)
NoDangling ==
  \A s \in Sessions : player[s] = "deleted" =>
    /\ s \notin mUnAuthSessions /\ \A a \in Accounts : mAccountsHash[a] # s
    /\ \A place \in Places : ~IsIn(s, place)
    /\ s \notin authTodo \cup authD \cup authL \cup fieldTodo \cup fieldD
    /\ sess[s] = "gone"

(* A player on its way into the field or in it is the one its account number    *)
(* is registered for, so nobody plays an account twice.                        *)
AccountOnce ==
  \A s \in Sessions : IsIn(s, "mMsgQ") \/ IsIn(s, "field") =>
    mAccountNo[s] # None /\ mAccountsHash[mAccountNo[s]] = s

(* A login that is about to succeed has read the position the account was last  *)
(* left at (Player.h: the pending bit keeps a new login from an old position),  *)
(* unless that save failed.                                                    *)
FreshPosition ==
  authPc = "promote" /\ mAccountsHash[cur.acct] = None => cur.pos = left[cur.acct]

(* The pending bit stands for exactly one save that is in a queue or with the   *)
(* db thread: no second request (the assertion of requestPositionSave), and no  *)
(* player that waits for an answer that will not come.                         *)
Outstanding(s) ==
  {<<"req", i>> : i \in {i \in 1 .. Len(mDBReqQ) : mDBReqQ[i].s = s}}
    \cup {<<"res", i>> : i \in {i \in 1 .. Len(mDBResQ) : mDBResQ[i] = s}}
    \cup (IF dbPc = "reply" /\ dbJob.s = s THEN {<<"db", 1>>} ELSE {})
SavePending ==
  \A s \in Sessions : Cardinality(Outstanding(s)) = IF s \in pending THEN 1 ELSE 0

(* onAccept checks the number of unauthenticated sessions in one lock region    *)
(* and adds to it in another: each other worker can add one more.              *)
UnAuthBound == Cardinality(mUnAuthSessions) + Cardinality(Accepting) <= UNAUTH_MAX + WORKER_CNT - 1

(* The assertion of authNotifyPacketProc: an account that logs out is in use.   *)
LogoutKnown == authPc # "logout_assert"

(* The Player object: always somebody's to delete, and followed by nobody once *)
(* it is deleted (the comment "Auth에서만 Player delete 수행").                 *)
PlayerKept == OneHolder /\ NoDangling

(* A client is told that it is in exactly when its Player has the account: the  *)
(* last answer it gets is the right one, however many logins it sends.         *)
ToldRight ==
  \A s \in Sessions : s \in told <=> mAccountNo[s] # None

(* Every failure of MySQL is cleared before the next call, which would throw    *)
(* where nobody catches, and a thread that ends closes its connection.         *)
NoneThrows ==
  /\ authPc # "cdb_exception" /\ dbPc # "cdb_exception"
  /\ (authPc = "exit" => cdb["auth"] = NewCDB) /\ (dbPc = "exit" => cdb["db"] = NewCDB)

(* The accounts: one Player plays an account and its client knows, a logout     *)
(* finds its account, no call of MySQL throws, and no more clients wait for a  *)
(* login than the accepts in flight can add.                                   *)
AccountsHold == AccountOnce /\ ToldRight /\ LogoutKnown /\ NoneThrows /\ UnAuthBound

(* The positions: a login reads what the last save of the account left, and a   *)
(* player that waits for its save has exactly one request or answer out.       *)
SavesHold == FreshPosition /\ SavePending

(* fieldThread: "even if the server shuts down, let us empty all the messages". *)
ExitDrained == fieldPc = "exit" => mMsgQ = <<>>

(* MyRingBuffer.h: "check that it can succeed before calling EnQ": no thread    *)
(* runs into a full queue.                                                     *)
CheckedEnqueue == fieldPc # "full_assert" /\ dbPc # "full_assert"

(* While the server runs, a session that ended or was disconnected has its      *)
(* Player deleted in the end, and so frees its account (unless an assertion     *)
(* ended the process: no MySQL, or a silent client).                           *)
Deleted ==
  \A s \in Sessions :
    s \in kicked \/ sess[s] = "gone"
      ~> player[s] \in {"none", "deleted"} \/ ~mBOn
        \/ authPc \in {"idle_assert", "connect_assert"} \/ dbPc = "connect_assert"
=============================================================================

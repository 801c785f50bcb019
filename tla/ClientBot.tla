------------------------------- MODULE ClientBot -------------------------------
(***************************************************************************)
(* A bot of the load generator (ClientBotProject/Session.cpp) in the       *)
(* select loop that runs it (ClientBot.cpp), the connection, and the       *)
(* field server at the other end.  One step is one call of Session::Update,*)
(* one packet either side handles, or one change of the connection.        *)
(*                                                                         *)
(* Ids are numbers and -1 is none, as in the code.  Distances, positions,  *)
(* the dice and the clock are left to choice.  mAnimFrame is kept in the   *)
(* states that look at it (Attack and Stun).  A connection ends with all   *)
(* that is under way on it; what the server does with the player it leaves *)
(* behind is in PlayerLifecycle: here the next login finds a new one.      *)
(***************************************************************************)
EXTENDS ServerPlayer, Sequences, SequencesExt

CONSTANTS
  Monsters, Items,
  DEAD_FRAME,       (* frames a dead bot stays connected (500)            *)
  MaxUp, MaxDown    (* bounds: packets under way in each direction        *)

ASSUME BotAssumption ==
  /\ Monsters \subseteq Nat /\ Items \subseteq Nat
  /\ DEAD_FRAME \in Nat /\ MaxUp \in Nat /\ MaxDown \in Nat

VARIABLES
  mSessionState,                  (* of the bot's Session, down to mDeadFrame       *)
  mState, mAnimFrame, mBMove,
  mTargetID, mMonsterKillTime,    (* the latter: whether it is not 0                *)
  mTargetItemID, mLootRequested,
  mDeadFrame,
  mAuthWaitCount, mConnectedCount,(* of ClientBot                                   *)
  up, down,                       (* packets to the server, packets to the bot      *)
  player,                         (* the server's Player, or NoPlayer               *)
  asserted,                       (* history: an RT_ASSERT or __debugbreak was met  *)
  kept,                           (* history: mLootRequested dates from a           *)
                                  (* connection before this one                     *)
  late,                           (* history: the packets of up that were sent      *)
                                  (* before the bot heard of the last hit           *)
  crossed                         (* history: the server moves the player by a      *)
                                  (* MOVE_START the bot sent before it heard of a   *)
                                  (* hit                                            *)

actorVars  == <<mState, mAnimFrame, mBMove>>
targetVars == <<mTargetID, mMonsterKillTime, mTargetItemID, mLootRequested>>
countVars  == <<mAuthWaitCount, mConnectedCount>>
botVars    == <<mSessionState, actorVars, targetVars, mDeadFrame, countVars, asserted, kept>>
vars == <<botVars, up, down, player, late, crossed>>

NoPlayer == [mState |-> "none"]

(* The constructor of Session; then every session is connected at once. *)
Session ==
  /\ mState = "Idle" /\ mAnimFrame = 0 /\ mBMove = FALSE
  /\ mTargetID = -1 /\ mMonsterKillTime = FALSE /\ mTargetItemID = -1 /\ mLootRequested = FALSE
  /\ mDeadFrame = 0

connectSessions == mSessionState = "REQ_CONNECT"

Init ==
  /\ Session /\ connectSessions
  /\ mAuthWaitCount = 0 /\ mConnectedCount = 0
  /\ up = <<>> /\ down = <<>> /\ player = NoPlayer
  /\ asserted = FALSE /\ kept = FALSE /\ late = 0 /\ crossed = FALSE

-----------------------------------------------------------------------------
(* The connection: connectSession and selectLogic *)

Connected == mSessionState \in {"CONNECTED", "AUTHED"}

connectSession ==
  /\ mSessionState = "DISCONNECTED"
  /\ mSessionState' = "REQ_CONNECT" /\ mDeadFrame' = 0
  /\ UNCHANGED <<actorVars, targetVars, countVars, asserted, kept, up, down, player, late, crossed>>

ConnectFails ==
  /\ mSessionState = "REQ_CONNECT" /\ mSessionState' = "DISCONNECTED"
  /\ UNCHANGED <<actorVars, targetVars, mDeadFrame, countVars, asserted, kept, up, down, player,
                 late, crossed>>

PostFieldAuthReq == <<"FIELD_AUTH_REQ">>

(* Nothing of what the bot was after is forgotten, nor that it was walking. *)
ConnectSucceeds ==
  /\ mSessionState = "REQ_CONNECT" /\ mSessionState' = "CONNECTED"
  /\ mState' = "Idle"
  /\ up' = PostFieldAuthReq
  /\ mAuthWaitCount' = mAuthWaitCount + 1 /\ mConnectedCount' = mConnectedCount + 1
  /\ kept' = mLootRequested
  /\ UNCHANGED <<mAnimFrame, mBMove, targetVars, mDeadFrame, asserted, down, player, late, crossed>>

(* Session::Disconnect; the server's end and what was under way go with it. *)
Disconnect ==
  /\ mSessionState' = "DISCONNECTED"
  /\ up' = <<>> /\ down' = <<>> /\ player' = NoPlayer /\ late' = 0 /\ crossed' = FALSE
  /\ UNCHANGED <<actorVars, targetVars, mDeadFrame, asserted, kept>>

(* A bot that has been dead long enough connects anew. *)
DeadDisconnects ==
  /\ Connected /\ mState = "Dead" /\ mDeadFrame >= DEAD_FRAME
  /\ mConnectedCount' = mConnectedCount - 1 /\ UNCHANGED mAuthWaitCount
  /\ Disconnect

(* Recv has returned FALSE. *)
ConnectionLost ==
  /\ Connected
  /\ mAuthWaitCount' = mAuthWaitCount - (IF mSessionState = "CONNECTED" THEN 1 ELSE 0)
  /\ mConnectedCount' = mConnectedCount - 1
  /\ Disconnect

-----------------------------------------------------------------------------
(* Session::Update, one definition for each state *)

Send(packets) == up' = up \o packets /\ Len(up') <= MaxUp

(* Frame bookkeeping: ++mAnimFrame comes after the update of the state. *)
FrameIn(state, frame) == IF state \in {"Attack", "Stun"} THEN frame + 1 ELSE 0

changeBotState(state) ==
  /\ asserted' = (asserted \/ mState = state)
  /\ mState' = state /\ mAnimFrame' = FrameIn(state, 0)

SameState == mAnimFrame' = FrameIn(mState, mAnimFrame) /\ UNCHANGED <<mState, asserted>>

(* The packets of the bot. *)
postMoveStart == <<"MOVE_START">>
postMoveStop  == <<"MOVE_STOP">>
postAttackReq == <<"PLAYER_ATTACK_REQ">>
postLootReq   == <<"LOOT_REQ">>

StopIfMoving == IF mBMove THEN postMoveStop ELSE <<>>

traceMove(on) == mBMove' = on

idleUpdate ==
  /\ mState = "Idle"
  /\ \E tired \in IF mMonsterKillTime THEN BOOLEAN ELSE {FALSE} :
       /\ mTargetID' = (IF tired THEN -1 ELSE mTargetID)
       /\ mMonsterKillTime' = (mMonsterKillTime /\ ~tired)
  /\ \/ mTargetItemID # -1 /\ changeBotState("Root") /\ Send(<<>>) /\ UNCHANGED mBMove
     \/ mTargetItemID = -1 /\ mTargetID' # -1 /\ changeBotState("Chase") /\ Send(<<>>)
          /\ UNCHANGED mBMove
     \/ mTargetItemID = -1 /\ mTargetID' = -1 /\ SameState /\ Send(<<>>) /\ UNCHANGED mBMove
     \/ mTargetItemID = -1 /\ mTargetID' = -1 /\ changeBotState("Move") /\ Send(postMoveStart)
          /\ traceMove(TRUE)
  /\ UNCHANGED <<mTargetItemID, mLootRequested>>

moveUpdate ==
  /\ mState = "Move"
  /\ \/ SameState /\ Send(<<>>) /\ UNCHANGED mBMove
     \/ changeBotState("Idle") /\ Send(postMoveStop) /\ traceMove(FALSE)
     \/ SameState /\ Send(postMoveStop \o postMoveStart) /\ traceMove(TRUE)
  /\ UNCHANGED targetVars

(* Fault: the bot swings without telling the server that it stops. *)
chaseUpdateOnTheRun ==
  /\ mState = "Chase"
  /\ \/ /\ changeBotState("Attack") /\ Send(postAttackReq)
        /\ traceMove(FALSE) /\ mMonsterKillTime' = TRUE
     \/ SameState /\ Send(StopIfMoving \o postMoveStart) /\ traceMove(TRUE)
          /\ UNCHANGED mMonsterKillTime
  /\ UNCHANGED <<mTargetID, mTargetItemID, mLootRequested>>

(* In range, out of range, and out of range when it is time to turn. *)
chaseUpdate ==
  /\ mState = "Chase"
  /\ \/ /\ changeBotState("Attack") /\ Send(StopIfMoving \o postAttackReq)
        /\ traceMove(FALSE) /\ mMonsterKillTime' = TRUE
     \/ SameState /\ Send(<<>>) /\ UNCHANGED <<mBMove, mMonsterKillTime>>
     \/ SameState /\ Send(StopIfMoving \o postMoveStart) /\ traceMove(TRUE)
          /\ UNCHANGED mMonsterKillTime
  /\ UNCHANGED <<mTargetID, mTargetItemID, mLootRequested>>

(* attackUpdate and stunUpdate: the frames are over, or not yet. *)
AnimUpdate(state, frames) ==
  /\ mState = state
  /\ IF mAnimFrame = frames THEN changeBotState("Idle") ELSE SameState
  /\ Send(<<>>) /\ UNCHANGED <<mBMove, targetVars>>

attackUpdate == AnimUpdate("Attack", PLAYER_ATTACK_TOTAL_FRAME)
stunUpdate   == AnimUpdate("Stun", PLAYER_HIT_STUN_FRAME)

(* Fault: the bot asks for the item again in every frame. *)
rootUpdateAsksAgain ==
  /\ mState = "Root"
  /\ IF mTargetItemID = -1
     THEN changeBotState("Idle") /\ Send(StopIfMoving)
     ELSE SameState /\ Send(StopIfMoving \o postLootReq)
  /\ traceMove(FALSE) /\ mLootRequested' = (mLootRequested \/ mTargetItemID # -1)
  /\ UNCHANGED <<mTargetID, mMonsterKillTime, mTargetItemID>>

(* The item is gone; the answer is awaited; the item is far, and it may be time to *)
(* turn; the item is near.                                                         *)
rootUpdate ==
  /\ mState = "Root"
  /\ \/ /\ mTargetItemID = -1
        /\ changeBotState("Idle") /\ Send(StopIfMoving) /\ traceMove(FALSE)
        /\ UNCHANGED mLootRequested
     \/ /\ mTargetItemID # -1 /\ SameState /\ Send(<<>>)
        /\ UNCHANGED <<mBMove, mLootRequested>>
     \/ /\ mTargetItemID # -1 /\ ~mLootRequested
        /\ SameState /\ Send(StopIfMoving \o postMoveStart) /\ traceMove(TRUE)
        /\ UNCHANGED mLootRequested
     \/ /\ mTargetItemID # -1 /\ ~mLootRequested
        /\ SameState /\ Send(StopIfMoving \o postLootReq) /\ traceMove(FALSE)
        /\ mLootRequested' = TRUE
  /\ UNCHANGED <<mTargetID, mMonsterKillTime, mTargetItemID>>

deadUpdate ==
  /\ mState = "Dead" /\ SameState /\ Send(<<>>) /\ UNCHANGED <<mBMove, targetVars>>

Update ==
  /\ mSessionState = "AUTHED"
  /\ \/ idleUpdate \/ moveUpdate \/ chaseUpdate \/ attackUpdate \/ stunUpdate \/ rootUpdate
     \/ deadUpdate
  /\ mDeadFrame' = IF mState = "Dead" /\ mDeadFrame < DEAD_FRAME THEN mDeadFrame + 1
                   ELSE mDeadFrame
  /\ UNCHANGED <<mSessionState, countVars, kept, down, player, late, crossed>>

-----------------------------------------------------------------------------
(* packetProc of the bot *)

Receive(type) ==
  /\ Connected /\ down # <<>> /\ Head(down).type = type /\ down' = Tail(down)
  /\ UNCHANGED <<up, player, crossed>>

handleFieldAuth ==
  /\ Receive("FIELD_AUTH_RES")
  /\ mSessionState' = "AUTHED" /\ mAuthWaitCount' = mAuthWaitCount - 1
  /\ UNCHANGED <<actorVars, targetVars, mDeadFrame, mConnectedCount, asserted, kept, late>>

(* ChaseTarget: a target is kept. *)
ChaseTarget(id) == mTargetID' = IF mTargetID = -1 THEN id ELSE mTargetID

handleMonsterMoveStop ==
  /\ Receive("MONSTER_MOVE_STOP")
  /\ IF mState \in {"Idle", "Chase", "Attack"} THEN ChaseTarget(Head(down).id)
     ELSE UNCHANGED mTargetID
  /\ UNCHANGED <<mSessionState, actorVars, mMonsterKillTime, mTargetItemID, mLootRequested,
                 mDeadFrame, countVars, asserted, kept, late>>

(* Session's MonsterChaseInit and ItemChaseInit expect that there is one to give up. *)
MonsterChaseInit == asserted' = (asserted \/ mTargetID = -1) /\ mTargetID' = -1
ItemChaseInit    == asserted' = (asserted \/ mTargetItemID = -1) /\ mTargetItemID' = -1

(* A MONSTER_DAMAGED that is not the target's death changes nothing. *)
handleMonsterDamaged ==
  /\ Receive("MONSTER_DAMAGED")
  /\ IF Head(down).id = mTargetID
     THEN MonsterChaseInit /\ mMonsterKillTime' = FALSE
     ELSE UNCHANGED <<mTargetID, mMonsterKillTime, asserted>>
  /\ UNCHANGED <<mSessionState, actorVars, mTargetItemID, mLootRequested, mDeadFrame, countVars,
                 kept, late>>

(* A hit stops a bot in whatever it does; the blow after its death does nothing. *)
TakeDamage(hp) ==
  IF mState = "Dead"
  THEN UNCHANGED <<actorVars, mMonsterKillTime>>
  ELSE /\ mState' = (IF hp = 0 THEN "Dead" ELSE "Stun")
       /\ mAnimFrame' = 0 /\ traceMove(FALSE) /\ mMonsterKillTime' = TRUE

(* A bot that lives goes after the monster that hit it. *)
handleCharacterDamaged ==
  /\ Receive("CHARACTER_DAMAGED")
  /\ late' = Len(up)
  /\ TakeDamage(Head(down).hp)
  /\ IF mState' = "Dead" THEN UNCHANGED mTargetID ELSE ChaseTarget(Head(down).id)
  /\ UNCHANGED <<mSessionState, mTargetItemID, mLootRequested, mDeadFrame, countVars, asserted,
                 kept>>

ChaseItem(id) == mTargetItemID' = id /\ mLootRequested' = FALSE

handleItemSpawn ==
  /\ Receive("ITEM_SPAWN")
  /\ IF mTargetItemID = -1
     THEN ChaseItem(Head(down).id)
     ELSE UNCHANGED <<mTargetItemID, mLootRequested>>
  /\ UNCHANGED <<mSessionState, actorVars, mTargetID, mMonsterKillTime, mDeadFrame, countVars,
                 asserted, kept, late>>

handleLootRes ==
  /\ Receive("LOOT_RES") /\ ItemChaseInit
  /\ UNCHANGED <<mSessionState, actorVars, mTargetID, mMonsterKillTime, mLootRequested, mDeadFrame,
                 countVars, kept, late>>

-----------------------------------------------------------------------------
(* The field server (ServerPlayer), as far as one bot meets it *)

Packet(type) == [type |-> type, id |-> -1, hp |-> 0]
Tell(packets) == down' = down \o packets /\ Len(down') <= MaxDown

(* The server takes the bot's next packet. *)
Take(type) ==
  /\ up # <<>> /\ Head(up) = type /\ up' = Tail(up)
  /\ late' = IF late > 0 THEN late - 1 ELSE 0
  /\ UNCHANGED botVars

Entered == player # NoPlayer

EnterField ==
  /\ Take("FIELD_AUTH_REQ")
  /\ player' = NewPlayer /\ Tell(<<Packet("FIELD_AUTH_RES")>>) /\ UNCHANGED crossed

HandleMoveStart ==
  /\ Take("MOVE_START") /\ player' = handleMoveStart(player)
  /\ crossed' = IF StartTaken(player)
                THEN late > 0 \/ \E i \in DOMAIN down : down[i].type = "CHARACTER_DAMAGED"
                ELSE crossed
  /\ UNCHANGED down

HandleMoveStop ==
  /\ Take("MOVE_STOP") /\ player' = handleMoveStop(player)
  /\ crossed' = (crossed /\ ~StopTaken(player)) /\ UNCHANGED down

HandleAttackReq ==
  /\ Take("PLAYER_ATTACK_REQ") /\ player' = handleAttackReq(player)
  /\ UNCHANGED <<down, crossed>>

(* Fault: a request that comes while the player is stunned or dead is dropped. *)
HandleLootReqSilent ==
  /\ Take("LOOT_REQ")
  /\ Tell(IF player.mState \in {"Dead", "Stun"} THEN <<>> ELSE <<Packet("LOOT_RES")>>)
  /\ UNCHANGED <<player, crossed>>

(* Every branch of handleLootReq answers. *)
HandleLootReq ==
  /\ Take("LOOT_REQ") /\ Tell(<<Packet("LOOT_RES")>>) /\ UNCHANGED <<player, crossed>>

ServerFrame ==
  /\ Entered /\ player' = update(player, TRUE) /\ UNCHANGED <<botVars, up, down, late, crossed>>

Hit(m) ==
  /\ Entered /\ player.mState # "Dead"
  /\ player' = takeDamage(player)
  /\ Tell(<<[type |-> "CHARACTER_DAMAGED", id |-> m, hp |-> player'.mHp]>>)
  /\ crossed' = FALSE /\ UNCHANGED <<botVars, up, late>>

(* Monsters stop and die, items are dropped. *)
World ==
  /\ Entered
  /\ \E type \in {"MONSTER_MOVE_STOP", "MONSTER_DAMAGED", "ITEM_SPAWN"} :
       \E id \in IF type = "ITEM_SPAWN" THEN Items ELSE Monsters :
         Tell(<<[Packet(type) EXCEPT !.id = id]>>)
  /\ UNCHANGED <<botVars, up, player, late, crossed>>

-----------------------------------------------------------------------------

Connection == connectSession \/ ConnectFails \/ ConnectSucceeds \/ DeadDisconnects \/ ConnectionLost

PacketProc ==
  \/ handleFieldAuth \/ handleMonsterMoveStop \/ handleMonsterDamaged \/ handleCharacterDamaged
  \/ handleItemSpawn \/ handleLootRes

FieldServer ==
  \/ EnterField \/ HandleMoveStart \/ HandleMoveStop \/ HandleAttackReq \/ HandleLootReq
  \/ ServerFrame \/ World \/ \E m \in Monsters : Hit(m)

Next == Connection \/ Update \/ PacketProc \/ FieldServer

Spec == Init /\ [][Next]_vars

-----------------------------------------------------------------------------
(* Properties *)

(* Type invariant. *)
TypeOK ==
  /\ mSessionState \in {"DISCONNECTED", "REQ_CONNECT", "CONNECTED", "AUTHED"}
  /\ mState \in {"Idle", "Move", "Chase", "Attack", "Stun", "Root", "Dead"}
  /\ mAnimFrame \in 0 .. PLAYER_ATTACK_TOTAL_FRAME + PLAYER_HIT_STUN_FRAME
  /\ mBMove \in BOOLEAN /\ mMonsterKillTime \in BOOLEAN /\ mLootRequested \in BOOLEAN
  /\ mTargetID \in Monsters \union {-1} /\ mTargetItemID \in Items \union {-1}
  /\ mDeadFrame \in 0 .. DEAD_FRAME
  /\ player \in Player \union {NoPlayer} /\ (Entered => player.ok)
  /\ late \in 0 .. Len(up)

(* The bot meets none of its own assertions, and its statistics count the sessions *)
(* that are connected and those that wait for the answer to their login.           *)
BotSound ==
  /\ ~asserted
  /\ mAuthWaitCount = IF mSessionState = "CONNECTED" THEN 1 ELSE 0
  /\ mConnectedCount = IF Connected THEN 1 ELSE 0

(* A bot that waits for an item has its request or the answer under way, so it     *)
(* will go on; it does not if the request went down with the connection before.    *)
LootAwaited ==
  mSessionState = "AUTHED" /\ mTargetItemID # -1 /\ mLootRequested =>
    \/ "LOOT_REQ" \in ToSet(up)
    \/ Packet("LOOT_RES") \in ToSet(down)
    \/ kept

(* A bot stands when the server makes it swing or loot, unless a MOVE_START it had *)
(* sent before it heard of a hit has set it going again.                           *)
SwingsStand ==
  up # <<>> /\ Head(up) \in {"PLAYER_ATTACK_REQ", "LOOT_REQ"} /\ player.mState = "Move" => crossed
=============================================================================

------------------------------- MODULE MoveView -------------------------------
(***************************************************************************)
(* One player seen from three sides: the client that plays it              *)
(* (ClientProject/Actors/Player.cpp), the field server, and another client *)
(* that shows it (RemotePlayer.cpp, Actor.cpp).  The player's client moves *)
(* first and tells the server; the server ignores a packet that does not   *)
(* fit its own state and broadcasts the others; a monster's hit comes from *)
(* the server and overrules the client.                                    *)
(*                                                                         *)
(* Two FIFO channels join client and server.  What the server broadcasts   *)
(* reaches the observer in order, and nothing else changes the observer's  *)
(* actor, so it is applied at once.  The frames of client and server run   *)
(* on clocks of their own.  A swing of the client lasts until its frame    *)
(* counter meets the same constant as the server's.  The player moves to   *)
(* and from the observer's sectors at any time (Shown, Despawn).           *)
(***************************************************************************)
EXTENDS ServerPlayer, Sequences

CONSTANTS
  MaxWay,   (* bound: packets on their way to the server         *)
  MaxHits   (* bound: hits on their way to the client            *)

(* 30 in AttackConfig.h *)
ASSUME StunAssumption == PLAYER_HIT_STUN_FRAME > 0

VARIABLES
  mState, mFrame, mHp, mBMove,   (* the client's Player: mFrame is its mAttackFrame *)
                                 (* in Attack, its mHitTimer in Stun                *)
  up, down,                      (* packets to the server, hp of CHARACTER_DAMAGED  *)
                                 (* packets to the client                           *)
  player,                        (* the server's Player                             *)
  actor,                         (* the observer's RemotePlayer: is there one, its  *)
                                 (* mBMove, mHitTimer and the animation it plays    *)
  asserted,                      (* RT_ASSERT of Actor::MoveStart has failed        *)
  walkedIn,                      (* history: the last swing began while moving, and *)
                                 (* nothing has stopped the observer's actor since  *)
  shownLate,                     (* history: the observer was shown a player in the *)
                                 (* last frame of its stun                          *)
  late,                          (* history: how many packets of up were sent before *)
                                 (* the client heard of the last hit                 *)
  crossed                        (* history: the server moves the player by a        *)
                                 (* MOVE_START sent before the client heard of a hit *)

clientVars   == <<mState, mFrame, mHp, mBMove>>
observerVars == <<actor, asserted, walkedIn, shownLate>>
historyVars  == <<late, crossed>>
vars == <<clientVars, up, down, player, observerVars, historyVars>>

NoActor == [shown |-> FALSE, mBMove |-> FALSE, mSprite |-> "Idle", mHitTimer |-> 0]
NewActor == [NoActor EXCEPT !.shown = TRUE]

Init ==
  /\ mState = "Idle" /\ mFrame = 0 /\ mHp = PLAYER_MAX_HP /\ mBMove = FALSE
  /\ up = <<>> /\ down = <<>> /\ player = NewPlayer
  /\ actor = NoActor /\ asserted = FALSE /\ walkedIn = FALSE /\ shownLate = FALSE
  /\ late = 0 /\ crossed = FALSE

-----------------------------------------------------------------------------
(* The client: SceneManager::Update handles packets, then runs one frame. *)

(* Player::OnDamaged *)
OnDamaged ==
  /\ down # <<>> /\ down' = Tail(down)
  /\ mHp' = Head(down) /\ mBMove' = FALSE
  /\ IF Head(down) = 0
     THEN mState' = "Down" /\ mFrame' = 0
     ELSE mState' = "Stun" /\ mFrame' = PLAYER_HIT_STUN_FRAME
  /\ late' = Len(up)
  /\ UNCHANGED <<up, player, observerVars, crossed>>

(* Player::inputFunction: the state after it and the packets it sends, given    *)
(* whether a key is down and whether it turns the player.                       *)
Input(key, turned) ==
  LET now == IF key THEN "Move" ELSE "Idle" IN
  [state |-> now,
   sends |-> CASE now # mState /\ key  -> <<"MOVE_START">>
               [] now # mState /\ ~key -> <<"MOVE_STOP">>
               [] now = mState /\ key /\ turned -> <<"MOVE_STOP", "MOVE_START">>
               [] OTHER -> <<>>]

(* Player::actorUpdate for each state. *)
ActorUpdate(key, turned) ==
  CASE mState \in {"Idle", "Move"} -> Input(key, turned)
    [] mState = "Attack" ->
         [state |-> IF mFrame + 1 = PLAYER_ATTACK_TOTAL_FRAME THEN "Idle" ELSE "Attack",
          sends |-> <<>>]
    [] mState = "Stun" -> [state |-> IF mFrame - 1 = 0 THEN "Idle" ELSE "Stun", sends |-> <<>>]
    [] mState = "Down" -> [state |-> "Down", sends |-> <<>>]

(* mAttackFrame or mHitTimer after that. *)
FrameAfter(state) ==
  CASE state = "Attack" -> mFrame + 1
    [] state = "Stun" -> mFrame - 1
    [] OTHER -> 0

(* Player::TryAttack: the packets it sends, from the state before it. *)
TryAttack(state) ==
  IF mHp = 0 \/ state \in {"Stun", "Attack"} THEN <<>>
  ELSE IF mBMove THEN <<"MOVE_STOP", "ATTACK_REQ">> ELSE <<"ATTACK_REQ">>

(* One frame: actorUpdate, then updateAttackInput when the button goes down. *)
ClientFrame ==
  \E key, turned, button \in BOOLEAN :
    LET moved == ActorUpdate(key, turned)
        swing == IF button THEN TryAttack(moved.state) ELSE <<>>
    IN
    /\ up' = up \o moved.sends \o swing /\ Len(up') <= MaxWay
    /\ IF swing # <<>>
       THEN mState' = "Attack" /\ mFrame' = 0 /\ mBMove' = FALSE
       ELSE /\ mState' = moved.state /\ mFrame' = FrameAfter(moved.state)
            /\ mBMove' = IF mState \in {"Idle", "Move"} /\ ~key THEN FALSE ELSE mBMove
    /\ UNCHANGED <<mHp, down, player, observerVars, historyVars>>

-----------------------------------------------------------------------------
(* The observer: RemotePlayer.cpp and Actor.cpp, from one actor to the next,  *)
(* and the handlers of its FieldScene.  A broadcast goes to who has the actor. *)

MoveStart(a) == [a EXCEPT !.mBMove = TRUE, !.mSprite = "Move"]
MoveStop(a)  == [a EXCEPT !.mBMove = FALSE, !.mSprite = "Idle"]
Attack(a)    == [a EXCEPT !.mSprite = "Attack"]

(* Fault: the timer of an earlier hit goes on for the dead. *)
DamagedTimerKept(a, hp, fastForwardTicks) ==
  [a EXCEPT !.mBMove = FALSE, !.mSprite = IF hp = 0 THEN "Down" ELSE "Stun",
            !.mHitTimer = IF hp = 0 THEN @ ELSE PLAYER_HIT_STUN_FRAME - fastForwardTicks]

(* RemotePlayer::OnDamaged *)
Damaged(a, hp, fastForwardTicks) ==
  [a EXCEPT !.mBMove = FALSE, !.mSprite = IF hp = 0 THEN "Down" ELSE "Stun",
            !.mHitTimer = IF hp = 0 THEN 0 ELSE PLAYER_HIT_STUN_FRAME - fastForwardTicks]

(* The frames since p was last hit, which a packet that shows it brings along. *)
GetAnimFrame(p) == PLAYER_HIT_STUN_FRAME - p.mHitStunFrame

(* The actor of a player that is shown in its present state. *)
ActorOf(p) ==
  CASE p.mState = "Idle"   -> NewActor
    [] p.mState = "Move"   -> MoveStart(NewActor)
    [] p.mState = "Attack" -> Attack(NewActor)
    [] p.mState = "Dead"   -> Damaged(NewActor, 0, 0)
    [] p.mState = "Stun"   -> Damaged(NewActor, 1, GetAnimFrame(p))

(* Actor::MoveStart asserts that the actor stands; to fail that is its end. *)
onCharacterMoveStart ==
  /\ actor' = MoveStart(actor) /\ asserted' = (asserted \/ actor.mBMove)
  /\ UNCHANGED <<walkedIn, shownLate>>

onCharacterMoveStop ==
  /\ actor' = MoveStop(actor) /\ walkedIn' = FALSE
  /\ UNCHANGED <<asserted, shownLate>>

(* Actor::Attack leaves mBMove alone. *)
onOtherCharacterAttack ==
  /\ actor' = Attack(actor) /\ walkedIn' = (walkedIn \/ player.mState = "Move")
  /\ UNCHANGED <<asserted, shownLate>>

onCharacterDamaged(hp) ==
  /\ actor' = Damaged(actor, hp, 0) /\ walkedIn' = FALSE /\ shownLate' = FALSE
  /\ UNCHANGED asserted

Broadcast(handler) == IF actor.shown THEN handler ELSE UNCHANGED observerVars

(* The player comes into the observer's sectors: onOtherCharacterSpawn. *)
Shown ==
  /\ ~actor.shown /\ actor' = ActorOf(player)
  /\ shownLate' = (player.mState = "Stun" /\ player.mHitStunFrame = 0)
  /\ walkedIn' = FALSE
  /\ UNCHANGED <<clientVars, up, down, player, asserted, historyVars>>

(* It leaves them: onCharacterDespawn. *)
Despawn ==
  /\ actor.shown /\ actor' = NoActor /\ walkedIn' = FALSE /\ UNCHANGED <<asserted, shownLate>>
  /\ UNCHANGED <<clientVars, up, down, player, historyVars>>

(* RemotePlayer::actorUpdate, while the timer runs. *)
ObserverFrame ==
  /\ actor.mHitTimer > 0
  /\ actor' = [actor EXCEPT !.mHitTimer = @ - 1,
                            !.mSprite = IF actor.mHitTimer > 1 THEN @
                                        ELSE IF actor.mBMove THEN "Move" ELSE "Idle"]
  /\ UNCHANGED <<clientVars, up, down, player, asserted, walkedIn, shownLate, historyVars>>

-----------------------------------------------------------------------------
(* The field server. *)

ServerFrame ==
  /\ player' = update(player, TRUE)
  /\ UNCHANGED <<clientVars, up, down, observerVars, historyVars>>

(* processMonsterAttackHit: the packet goes to everybody around. *)
Hit ==
  /\ player.mState # "Dead" /\ Len(down) < MaxHits
  /\ player' = takeDamage(player)
  /\ down' = Append(down, player'.mHp)
  /\ Broadcast(onCharacterDamaged(player'.mHp))
  /\ crossed' = FALSE
  /\ UNCHANGED <<clientVars, up, late>>

(* playerProc takes the first packet. *)
Receive(packet) ==
  /\ up # <<>> /\ Head(up) = packet /\ up' = Tail(up)
  /\ late' = IF late > 0 THEN late - 1 ELSE 0
  /\ UNCHANGED <<clientVars, down>>

HandleMoveStart ==
  /\ Receive("MOVE_START")
  /\ player' = handleMoveStart(player)
  /\ IF StartTaken(player)
     THEN Broadcast(onCharacterMoveStart) /\ crossed' = (down # <<>> \/ late > 0)
     ELSE UNCHANGED <<observerVars, crossed>>

HandleMoveStop ==
  /\ Receive("MOVE_STOP")
  /\ player' = handleMoveStop(player)
  /\ IF StopTaken(player)
     THEN Broadcast(onCharacterMoveStop) /\ crossed' = FALSE
     ELSE UNCHANGED <<observerVars, crossed>>

HandleAttackReq ==
  /\ Receive("ATTACK_REQ")
  /\ player' = handleAttackReq(player)
  /\ IF AttackTaken(player) THEN Broadcast(onOtherCharacterAttack) ELSE UNCHANGED observerVars
  /\ UNCHANGED crossed

-----------------------------------------------------------------------------

Next ==
  \/ ClientFrame \/ OnDamaged
  \/ ServerFrame \/ Hit \/ HandleMoveStart \/ HandleMoveStop \/ HandleAttackReq
  \/ Shown \/ Despawn \/ ObserverFrame

Spec == Init /\ [][Next]_vars

-----------------------------------------------------------------------------
(* Properties *)

(* Type invariant. *)
TypeOK ==
  /\ mState \in {"Idle", "Move", "Attack", "Stun", "Down"} /\ mHp \in 0 .. PLAYER_MAX_HP
  /\ mFrame \in Nat /\ mBMove \in BOOLEAN
  /\ up \in Seq({"MOVE_START", "MOVE_STOP", "ATTACK_REQ"}) /\ down \in Seq(0 .. PLAYER_MAX_HP)
  /\ player \in Player
  /\ actor \in [shown : BOOLEAN, mBMove : BOOLEAN, mHitTimer : 0 .. PLAYER_HIT_STUN_FRAME,
                mSprite : {"Idle", "Move", "Attack", "Stun", "Down"}]
  /\ asserted \in BOOLEAN /\ walkedIn \in BOOLEAN /\ shownLate \in BOOLEAN
  /\ late \in 0 .. Len(up) /\ crossed \in BOOLEAN

(* What the observer shows as walking, the server moves, unless the player has  *)
(* begun a swing while it moved.  It lies down on that screen if and only if it *)
(* is dead: no timer of an earlier hit, no packet that was on its way raises it *)
(* again.  And an actor in its stun comes out of it, as its timer runs, unless  *)
(* it was shown in the last frame of the server's stun, with no time left.      *)
ObserverSees ==
  /\ actor.mBMove => player.mState = "Move" \/ walkedIn
  /\ actor.shown => (actor.mSprite = "Down" <=> player.mState = "Dead")
  /\ actor.mSprite = "Stun" => actor.mHitTimer > 0 \/ shownLate

(* Once nothing is on its way, a player that stands at its client stands at the *)
(* server, unless a MOVE_START crossed a hit.                                   *)
StandersStand ==
  up = <<>> /\ down = <<>> /\ mState \in {"Idle", "Down"} /\ player.mState = "Move" => crossed

(* RT_ASSERT of Actor::MoveStart: an actor that is told to walk stands. *)
MoveStartsStanding == ~asserted
=============================================================================

--------------------------- MODULE MoveView_proofs ---------------------------
(***************************************************************************)
(* Proofs about MoveView, for any frame counts, hit points and numbers of  *)
(* packets on their way: what another client sees of a player is what the  *)
(* server holds of it, and a player that stands at its client stands at    *)
(* the server once all packets have been handled.                          *)
(***************************************************************************)
EXTENDS MoveView, SequenceTheorems, TLAPS

(* The server's player, as far as the observer sees it. *)
Shape ==
  /\ player.mState \in ePlayerState
  /\ player.mHp \in 0 .. PLAYER_MAX_HP
  /\ player.mHitStunFrame \in 0 .. PLAYER_HIT_STUN_FRAME
  /\ DOMAIN player = {"mState", "mAnimFrame", "mHp", "mHitStunFrame", "ok"}

ActorRecord ==
  [shown : BOOLEAN, mBMove : BOOLEAN, mHitTimer : 0 .. PLAYER_HIT_STUN_FRAME,
   mSprite : {"Idle", "Move", "Attack", "Stun", "Down"}]

(* A record of the actor, with no trace of a former one when none is shown, and *)
(* no timer that would raise it when it lies down.                              *)
ActorInv ==
  /\ actor \in ActorRecord
  /\ ~actor.shown => actor = NoActor
  /\ actor.mSprite = "Down" => actor.mHitTimer = 0
  /\ walkedIn \in BOOLEAN /\ shownLate \in BOOLEAN

IInv == Shape /\ ActorInv /\ ObserverSees

-----------------------------------------------------------------------------

(* A player is a function on the fields of Player; changeState and the other *)
(* operators of ServerPlayer change the values of some of them.              *)
LEMMA ChangeState ==
  ASSUME Shape, NEW state \in ePlayerState
  PROVE  LET q == changeState(player, state) IN
         /\ q.mState = state /\ q.mHp = player.mHp
         /\ q.mHitStunFrame = player.mHitStunFrame /\ DOMAIN q = DOMAIN player
BY DEF Shape, changeState

(* A frame of the server begins no walk, no stun and no death, and ends none *)
(* but a stun.                                                               *)
LEMMA UpdateKeeps ==
  ASSUME Shape, player' = update(player, TRUE)
  PROVE  /\ Shape'
         /\ player'.mState = "Dead" <=> player.mState = "Dead"
         /\ player.mState = "Move" <=> player'.mState = "Move"
<1>1. "Idle" \in ePlayerState BY DEF ePlayerState
<1>2. CASE player.mState = "Attack"
  <2>1. CASE player.mAnimFrame + 1 >= PLAYER_ATTACK_TOTAL_FRAME
    <3>1. player' = changeState(player, "Idle") BY <1>2, <2>1 DEF update
    <3>2. QED BY <1>1, <1>2, <3>1, ChangeState DEF Shape
  <2>2. CASE ~(player.mAnimFrame + 1 >= PLAYER_ATTACK_TOTAL_FRAME)
    <3>1. player' = [player EXCEPT !.mAnimFrame = @ + 1] BY <1>2, <2>2 DEF update
    <3>2. QED BY <1>2, <3>1 DEF Shape
  <2>3. QED BY <2>1, <2>2
<1>3. CASE player.mState = "Stun"
  <2>1. CASE player.mHitStunFrame > 0
    <3>1. player' = [player EXCEPT !.mHitStunFrame = @ - 1] BY <1>3, <2>1 DEF update
    <3>2. player.mHitStunFrame - 1 \in 0 .. PLAYER_HIT_STUN_FRAME
      BY <2>1, PlayerAssumption DEF Shape
    <3>3. QED BY <1>3, <3>1, <3>2 DEF Shape
  <2>2. CASE ~(player.mHitStunFrame > 0)
    <3>1. player' = changeState(player, "Idle") BY <1>3, <2>2 DEF update
    <3>2. QED BY <1>1, <1>3, <3>1, ChangeState DEF Shape
  <2>3. QED BY <2>1, <2>2
<1>4. CASE player.mState \notin {"Attack", "Stun"}
  <2>1. player' = player BY <1>4 DEF update
  <2>2. QED BY <2>1 DEF Shape
<1>5. QED BY <1>2, <1>3, <1>4

(* A hit leaves a living player dead with no hit points, or stunned with some. *)
LEMMA HitStunsOrKills ==
  ASSUME Shape, player.mState # "Dead", player' = takeDamage(player)
  PROVE  /\ Shape'
         /\ \/ player'.mState = "Dead" /\ player'.mHp = 0
            \/ player'.mState = "Stun" /\ player'.mHp # 0
<1> DEFINE left == IF player.mHp > MONSTER_ATTACK_DAMAGE THEN player.mHp - MONSTER_ATTACK_DAMAGE ELSE 0
           hurt == [player EXCEPT !.mHp = left]
           stunned == [hurt EXCEPT !.mHitStunFrame = PLAYER_HIT_STUN_FRAME]
<1>1. left \in 0 .. PLAYER_MAX_HP BY PlayerAssumption DEF Shape
<1>2. /\ hurt.mHp = left /\ hurt.mState = player.mState
      /\ hurt.mHitStunFrame = player.mHitStunFrame /\ DOMAIN hurt = DOMAIN player
  BY DEF Shape
<1>3. /\ stunned.mHp = left /\ stunned.mState = player.mState
      /\ stunned.mHitStunFrame = PLAYER_HIT_STUN_FRAME /\ DOMAIN stunned = DOMAIN player
  BY DEF Shape
<1>4. PLAYER_HIT_STUN_FRAME \in 0 .. PLAYER_HIT_STUN_FRAME BY PlayerAssumption
<1>5. {"Dead", "Stun"} \subseteq ePlayerState BY DEF ePlayerState
<1>6. CASE left = 0
  <2>1. player' = changeState(hurt, "Dead") BY <1>6 DEF takeDamage
  <2>2. /\ player'.mState = "Dead" /\ player'.mHp = 0
        /\ player'.mHitStunFrame = player.mHitStunFrame /\ DOMAIN player' = DOMAIN player
    BY <1>2, <1>6, <2>1 DEF changeState, Shape
  <2>3. QED BY <1>1, <1>5, <1>6, <2>2 DEF Shape
<1>7. CASE left # 0 /\ player.mState = "Stun"
  <2>1. player' = stunned BY <1>7 DEF takeDamage
  <2>2. QED BY <1>1, <1>3, <1>4, <1>5, <1>7, <2>1 DEF Shape
<1>8. CASE left # 0 /\ player.mState # "Stun"
  <2>1. player' = changeState(stunned, "Stun") BY <1>8 DEF takeDamage
  <2>2. /\ player'.mState = "Stun" /\ player'.mHp = left
        /\ player'.mHitStunFrame = PLAYER_HIT_STUN_FRAME /\ DOMAIN player' = DOMAIN player
    BY <1>3, <2>1 DEF changeState, Shape
  <2>3. QED BY <1>1, <1>4, <1>5, <1>8, <2>2 DEF Shape
<1>9. QED BY <1>6, <1>7, <1>8

(* Packets of the client take the server's player from a state to another one, *)
(* and never to or from death.                                                 *)
LEMMA RequestTaken ==
  ASSUME Shape, NEW state \in {"Idle", "Move", "Attack"}, player' = changeState(player, state)
  PROVE  Shape' /\ player'.mState = state
BY ChangeState DEF Shape, ePlayerState

-----------------------------------------------------------------------------

(* No time left, and all the time there is, are times of a stun. *)
LEMMA Times ==
  /\ 0 \in 0 .. PLAYER_HIT_STUN_FRAME
  /\ PLAYER_HIT_STUN_FRAME \in 0 .. PLAYER_HIT_STUN_FRAME
BY PlayerAssumption

(* A step that leaves the server's player and the observer alone. *)
LEMMA QuietStep == ASSUME IInv, UNCHANGED <<player, observerVars>> PROVE IInv'
BY DEF IInv, Shape, ActorInv, ObserverSees, observerVars

(* Nobody is shown at first. *)
LEMMA InitInv == Init => IInv
<1>1. SUFFICES ASSUME Init PROVE IInv OBVIOUS
<1>2. Shape BY <1>1, PlayerAssumption DEF Init, Shape, NewPlayer, ePlayerState
<1>3. NoActor \in ActorRecord BY Times DEF NoActor, ActorRecord
<1>4. ActorInv BY <1>1, <1>3 DEF Init, ActorInv, NoActor
<1>5. ObserverSees BY <1>1 DEF Init, ObserverSees, NoActor
<1>6. QED BY <1>2, <1>4, <1>5 DEF IInv

(* An actor that is shown in the present state of the player. *)
LEMMA ShownInv == ASSUME IInv, Shown PROVE IInv'
<1> USE DEF IInv
<1> DEFINE Made(m, t, sp) == [shown |-> TRUE, mBMove |-> m, mSprite |-> sp, mHitTimer |-> t]
<1>1. Shape' /\ player' = player BY DEF Shown, Shape
<1>2. /\ walkedIn' = FALSE /\ actor' = ActorOf(player)
      /\ shownLate' \in BOOLEAN
      /\ player.mState = "Stun" /\ player.mHitStunFrame = 0 => shownLate'
  BY DEF Shown
<1>3. player.mState \in {"Idle", "Move", "Attack", "Dead", "Stun"} BY DEF Shape, ePlayerState
<1>4. NewActor = Made(FALSE, 0, "Idle")
  <2>1. NoActor \in ActorRecord BY Times DEF NoActor, ActorRecord
  <2>2. NewActor = [NoActor EXCEPT !.shown = TRUE] BY DEF NewActor
  <2>3. NewActor \in ActorRecord /\ NewActor.shown = TRUE /\ NewActor.mBMove = NoActor.mBMove
        /\ NewActor.mSprite = NoActor.mSprite /\ NewActor.mHitTimer = NoActor.mHitTimer
    BY <2>1, <2>2 DEF ActorRecord
  <2>4. NoActor.mBMove = FALSE /\ NoActor.mSprite = "Idle" /\ NoActor.mHitTimer = 0 BY DEF NoActor
  <2>5. QED BY <2>3, <2>4 DEF ActorRecord
<1>5. ASSUME NEW m \in BOOLEAN, NEW t \in 0 .. PLAYER_HIT_STUN_FRAME,
             NEW sp \in {"Idle", "Move", "Attack", "Stun", "Down"}, actor' = Made(m, t, sp),
             sp = "Down" => t = 0, m => player.mState = "Move",
             sp = "Down" <=> player.mState = "Dead", sp = "Stun" => t > 0 \/ shownLate'
      PROVE  IInv'
  <2>1. Made(m, t, sp) \in ActorRecord BY DEF ActorRecord
  <2>2. /\ actor'.shown = TRUE /\ actor'.mBMove = m /\ actor'.mSprite = sp
        /\ actor'.mHitTimer = t
    BY <1>5
  <2>3. ActorInv' BY <1>2, <1>5, <2>1, <2>2 DEF ActorInv
  <2>4. ObserverSees' BY <1>1, <1>5, <2>2 DEF ObserverSees
  <2>5. QED BY <1>1, <2>3, <2>4
<1>6. CASE player.mState = "Idle"
  <2>1. actor' = Made(FALSE, 0, "Idle") BY <1>2, <1>4, <1>6 DEF ActorOf
  <2>2. QED BY <1>5, <1>6, <2>1, Times
<1>7. CASE player.mState = "Move"
  <2>1. actor' = Made(TRUE, 0, "Move") BY <1>2, <1>4, <1>7 DEF ActorOf, MoveStart
  <2>2. QED BY <1>5, <1>7, <2>1, Times
<1>8. CASE player.mState = "Attack"
  <2>1. actor' = Made(FALSE, 0, "Attack") BY <1>2, <1>4, <1>8 DEF ActorOf, Attack
  <2>2. QED BY <1>5, <1>8, <2>1, Times
<1>9. CASE player.mState = "Dead"
  <2>1. actor' = Made(FALSE, 0, "Down") BY <1>2, <1>4, <1>9 DEF ActorOf, Damaged
  <2>2. QED BY <1>5, <1>9, <2>1, Times
<1>10. CASE player.mState = "Stun"
  <2>1. PLAYER_HIT_STUN_FRAME - GetAnimFrame(player) = player.mHitStunFrame
    BY PlayerAssumption DEF GetAnimFrame, Shape
  <2>2. actor' = Damaged(NewActor, 1, GetAnimFrame(player)) BY <1>2, <1>10 DEF ActorOf
  <2>3. actor' = Made(FALSE, player.mHitStunFrame, "Stun")
    <3>1. Damaged(NewActor, 1, GetAnimFrame(player)) =
            [NewActor EXCEPT !.mBMove = FALSE, !.mSprite = "Stun",
                             !.mHitTimer = PLAYER_HIT_STUN_FRAME - GetAnimFrame(player)]
      BY 1 # 0 DEF Damaged
    <3>2. actor' = [NewActor EXCEPT !.mBMove = FALSE, !.mSprite = "Stun",
                                    !.mHitTimer = player.mHitStunFrame]
      BY <2>1, <2>2, <3>1
    <3>3. QED BY <1>4, <3>2
  <2>4. player.mHitStunFrame \in 0 .. PLAYER_HIT_STUN_FRAME BY DEF Shape
  <2>5. player.mHitStunFrame > 0 \/ shownLate' BY <1>2, <1>10, <2>4, PlayerAssumption
  <2>6. QED BY <1>5, <1>10, <2>3, <2>4, <2>5
<1>11. QED BY <1>3, <1>6, <1>7, <1>8, <1>9, <1>10

(* The timer of a hit runs; one that lies down has none. *)
LEMMA ObserverFrameInv == ASSUME IInv, ObserverFrame PROVE IInv'
<1> USE DEF IInv
<1>1. Shape' /\ player' = player BY DEF ObserverFrame, Shape
<1>2. actor.mSprite # "Down" /\ actor.shown
  BY PlayerAssumption DEF ActorInv, ObserverFrame, NoActor
<1>3. /\ actor'.shown = actor.shown /\ actor'.mBMove = actor.mBMove
      /\ actor'.mHitTimer = actor.mHitTimer - 1
      /\ actor'.mSprite = IF actor.mHitTimer > 1 THEN actor.mSprite
                          ELSE IF actor.mBMove THEN "Move" ELSE "Idle"
      /\ actor' = [shown |-> actor'.shown, mBMove |-> actor'.mBMove, mSprite |-> actor'.mSprite,
                   mHitTimer |-> actor'.mHitTimer]
  BY DEF ObserverFrame, ActorInv, ActorRecord
<1>4. actor'.mHitTimer \in 0 .. PLAYER_HIT_STUN_FRAME /\ (actor.mHitTimer > 1 => actor'.mHitTimer > 0)
  BY <1>3, PlayerAssumption DEF ObserverFrame, ActorInv, ActorRecord
<1>5. ActorInv' BY <1>2, <1>3, <1>4 DEF ActorInv, ActorRecord, ObserverFrame
<1>6. ObserverSees' BY <1>1, <1>2, <1>3, <1>4 DEF ObserverSees, ObserverFrame
<1>7. QED BY <1>1, <1>5, <1>6

(* The actor is taken away. *)
LEMMA DespawnInv == ASSUME IInv, Despawn PROVE IInv'
<1> USE DEF IInv
<1>1. Shape' BY DEF Despawn, Shape
<1>2. NoActor \in ActorRecord BY Times DEF NoActor, ActorRecord
<1>3. ActorInv' BY <1>2 DEF ActorInv, Despawn, NoActor
<1>4. ObserverSees' BY DEF ObserverSees, Despawn, NoActor
<1>5. QED BY <1>1, <1>3, <1>4

(* A frame of the server tells the observer nothing, and need not. *)
LEMMA ServerFrameInv == ASSUME IInv, ServerFrame PROVE IInv'
<1> USE DEF IInv
<1>1. /\ Shape'
      /\ player'.mState = "Dead" <=> player.mState = "Dead"
      /\ player.mState = "Move" => player'.mState = "Move"
  BY UpdateKeeps DEF ServerFrame
<1>2. ActorInv' BY DEF ActorInv, ServerFrame, observerVars
<1>3. ObserverSees' BY <1>1 DEF ObserverSees, ServerFrame, observerVars
<1>4. QED BY <1>1, <1>2, <1>3

(* When the actor is not there, nothing a handler broadcasts changes anything. *)
LEMMA NobodyLooks == ASSUME IInv, ~actor.shown, UNCHANGED observerVars, Shape' PROVE IInv'
<1>1. ActorInv' BY DEF IInv, ActorInv, observerVars
<1>2. ObserverSees' BY DEF IInv, ActorInv, ObserverSees, NoActor, observerVars
<1>3. QED BY <1>1, <1>2 DEF IInv

(* A hit stops the actor and lays it down or stuns it. *)
LEMMA HitInv == ASSUME IInv, Hit PROVE IInv'
<1> USE DEF IInv
<1>1. /\ Shape'
      /\ \/ player'.mState = "Dead" /\ player'.mHp = 0
         \/ player'.mState = "Stun" /\ player'.mHp # 0
  BY HitStunsOrKills DEF Hit
<1>2. CASE actor.shown
  <2> DEFINE timer == IF player'.mHp = 0 THEN 0 ELSE PLAYER_HIT_STUN_FRAME
             sprite == IF player'.mHp = 0 THEN "Down" ELSE "Stun"
  <2>1. /\ actor' = Damaged(actor, player'.mHp, 0) /\ walkedIn' = FALSE /\ shownLate' = FALSE
    BY <1>2 DEF Hit, Broadcast, onCharacterDamaged
  <2>2. PLAYER_HIT_STUN_FRAME - 0 = PLAYER_HIT_STUN_FRAME BY PlayerAssumption
  <2>3. actor' = [actor EXCEPT !.mBMove = FALSE, !.mSprite = sprite, !.mHitTimer = timer]
    BY <2>1, <2>2 DEF Damaged
  <2>4. timer \in 0 .. PLAYER_HIT_STUN_FRAME /\ (sprite = "Down" => timer = 0)
    BY Times
  <2>5. sprite \in {"Idle", "Move", "Attack", "Stun", "Down"} OBVIOUS
  <2>6. /\ actor'.shown /\ actor'.mBMove = FALSE /\ actor'.mSprite = sprite
        /\ actor'.mHitTimer = timer /\ actor' \in ActorRecord
    <3> HIDE DEF timer, sprite
    <3> QED BY <1>2, <2>3, <2>4, <2>5 DEF ActorInv, ActorRecord
  <2>7. ActorInv' BY <2>1, <2>4, <2>6 DEF ActorInv
  <2>8. sprite = "Stun" => timer > 0 BY StunAssumption
  <2>9. sprite = "Down" <=> player'.mState = "Dead" BY <1>1
  <2>10. ObserverSees'
    <3> HIDE DEF timer, sprite
    <3> QED BY <2>6, <2>8, <2>9 DEF ObserverSees
  <2>11. QED BY <1>1, <2>7, <2>10
<1>3. CASE ~actor.shown
  BY <1>1, <1>3, NobodyLooks DEF Hit, Broadcast
<1>4. QED BY <1>2, <1>3

(* A packet the server takes moves its player to the state, and the actor that *)
(* is shown to the sprite, that it asks for.                                   *)
LEMMA TakenInv ==
  ASSUME IInv, Shape',
         NEW state \in {"Idle", "Move", "Attack"}, player'.mState = state,
         NEW moves \in BOOLEAN, actor.shown,
         actor' = [actor EXCEPT !.mBMove = moves, !.mSprite = state],
         walkedIn' \in BOOLEAN, shownLate' = shownLate,
         moves => state = "Move" \/ walkedIn'
  PROVE  IInv'
<1> USE DEF IInv
<1>1. /\ actor'.shown /\ actor'.mBMove = moves /\ actor'.mSprite = state
      /\ actor' \in ActorRecord
  BY DEF ActorInv, ActorRecord
<1>2. ActorInv' BY <1>1 DEF ActorInv
<1>3. ObserverSees' BY <1>1 DEF ObserverSees
<1>4. QED BY <1>2, <1>3

(* A MOVE_START. *)
LEMMA MoveStartInv == ASSUME IInv, HandleMoveStart PROVE IInv'
<1> USE DEF IInv
<1>1. CASE StartTaken(player)
  <2>1. player' = changeState(player, "Move") BY <1>1 DEF HandleMoveStart, handleMoveStart
  <2>2. Shape' /\ player'.mState = "Move" BY <2>1, RequestTaken
  <2>3. CASE actor.shown
    <3>1. /\ actor' = [actor EXCEPT !.mBMove = TRUE, !.mSprite = "Move"]
          /\ walkedIn' = walkedIn /\ shownLate' = shownLate
      BY <1>1, <2>3 DEF HandleMoveStart, Broadcast, onCharacterMoveStart, MoveStart
    <3>2. QED BY <2>2, <2>3, <3>1, TakenInv DEF ActorInv
  <2>4. CASE ~actor.shown
    BY <1>1, <2>2, <2>4, NobodyLooks DEF HandleMoveStart, Broadcast
  <2>5. QED BY <2>3, <2>4
<1>2. CASE ~StartTaken(player)
  BY <1>2, QuietStep DEF HandleMoveStart, handleMoveStart
<1>3. QED BY <1>1, <1>2

(* A MOVE_STOP, which is broadcast even when the player stands already. *)
LEMMA MoveStopInv == ASSUME IInv, HandleMoveStop PROVE IInv'
<1> USE DEF IInv
<1>1. CASE StopTaken(player)
  <2>1. player.mState = "Idle" => Shape' /\ player'.mState = "Idle"
    BY DEF HandleMoveStop, handleMoveStop, Shape
  <2>2. player.mState # "Idle" => player' = changeState(player, "Idle")
    BY <1>1 DEF HandleMoveStop, handleMoveStop
  <2>3. Shape' /\ player'.mState = "Idle" BY <2>1, <2>2, RequestTaken
  <2>4. CASE actor.shown
    <3>1. /\ actor' = [actor EXCEPT !.mBMove = FALSE, !.mSprite = "Idle"]
          /\ walkedIn' = FALSE /\ shownLate' = shownLate
      BY <1>1, <2>4 DEF HandleMoveStop, Broadcast, onCharacterMoveStop, MoveStop
    <3>2. QED BY <2>3, <2>4, <3>1, TakenInv
  <2>5. CASE ~actor.shown
    BY <1>1, <2>3, <2>5, NobodyLooks DEF HandleMoveStop, Broadcast
  <2>6. QED BY <2>4, <2>5
<1>2. CASE ~StopTaken(player)
  BY <1>2, QuietStep DEF HandleMoveStop, handleMoveStop
<1>3. QED BY <1>1, <1>2

(* An ATTACK_REQ, which leaves the actor walking if it walked. *)
LEMMA AttackReqInv == ASSUME IInv, HandleAttackReq PROVE IInv'
<1> USE DEF IInv
<1>1. CASE AttackTaken(player)
  <2>1. player' = changeState(player, "Attack") BY <1>1 DEF HandleAttackReq, handleAttackReq
  <2>2. Shape' /\ player'.mState = "Attack" BY <2>1, RequestTaken
  <2>3. CASE actor.shown
    <3>1. /\ actor' = [actor EXCEPT !.mSprite = "Attack"]
          /\ walkedIn' = (walkedIn \/ player.mState = "Move") /\ shownLate' = shownLate
      BY <1>1, <2>3 DEF HandleAttackReq, Broadcast, onOtherCharacterAttack, Attack
    <3>2. /\ actor.mBMove \in BOOLEAN
          /\ actor' = [actor EXCEPT !.mBMove = actor.mBMove, !.mSprite = "Attack"]
      BY <3>1 DEF ActorInv, ActorRecord
    <3>3. actor.mBMove => walkedIn' BY <3>1 DEF ObserverSees
    <3>4. walkedIn' \in BOOLEAN BY <3>1
    <3>5. QED BY <2>2, <2>3, <3>1, <3>2, <3>3, <3>4, TakenInv
  <2>4. CASE ~actor.shown
    BY <1>1, <2>2, <2>4, NobodyLooks DEF HandleAttackReq, Broadcast
  <2>5. QED BY <2>3, <2>4
<1>2. CASE ~AttackTaken(player)
  BY <1>2, QuietStep DEF HandleAttackReq, handleAttackReq
<1>3. QED BY <1>1, <1>2

-----------------------------------------------------------------------------
(* Who stands.                                                               *)

Packets == {"MOVE_START", "MOVE_STOP", "ATTACK_REQ"}

WayInv == up \in Seq(Packets) /\ late \in 0 .. Len(up)

(* While the client has not heard of a hit, or what it sent before is on its *)
(* way, only a MOVE_START that crossed the hit moves the player.             *)
CrossedInv == player.mState = "Move" /\ (down # <<>> \/ late > 0) => crossed

(* The client walks if that is the last it said since it heard of a hit.     *)
LastInv == Len(up) > late /\ up[Len(up)] = "MOVE_START" => mState = "Move"

(* When all is said and heard, the client walks if the server moves it.      *)
WalkInv == player.mState = "Move" /\ up = <<>> /\ down = <<>> => mState = "Move" \/ crossed

StandInv == WayInv /\ CrossedInv /\ LastInv /\ WalkInv

(* The last packet of two sequences. *)
LEMMA LastOfBoth ==
  ASSUME NEW a \in Seq(Packets), NEW b \in Seq(Packets)
  PROVE  /\ a \o b \in Seq(Packets) /\ Len(a \o b) = Len(a) + Len(b)
         /\ Len(a) \in Nat /\ Len(b) \in Nat
         /\ b # <<>> => Len(b) > 0 /\ (a \o b)[Len(a \o b)] = b[Len(b)]
         /\ b = <<>> => a \o b = a
<1>1. /\ a \o b \in Seq(Packets) /\ Len(a \o b) = Len(a) + Len(b)
      /\ \A i \in 1 .. Len(a) + Len(b) : (a \o b)[i] = IF i <= Len(a) THEN a[i] ELSE b[i - Len(a)]
  BY ConcatProperties
<1>2. Len(a) \in Nat /\ Len(b) \in Nat /\ (b # <<>> => Len(b) > 0)
  BY EmptySeq, LenProperties
<1>3. b # <<>> => (a \o b)[Len(a \o b)] = b[Len(b)]
  <2>1. SUFFICES ASSUME b # <<>> PROVE (a \o b)[Len(a \o b)] = b[Len(b)] OBVIOUS
  <2>2. Len(a) + Len(b) \in 1 .. Len(a) + Len(b) /\ ~(Len(a) + Len(b) <= Len(a))
        /\ Len(a) + Len(b) - Len(a) = Len(b)
    BY <1>2, <2>1
  <2>3. QED BY <1>1, <2>2
<1>4. b = <<>> => a \o b = a BY ConcatEmptySeq
<1>5. QED BY <1>1, <1>2, <1>3, <1>4

(* Up to two packets. *)
LEMMA FewPackets ==
  /\ <<>> \in Seq(Packets)
  /\ \A a \in Packets : <<a>> \in Seq(Packets) /\ <<a>> # <<>> /\ <<a>>[Len(<<a>>)] = a
  /\ \A a \in Packets : \A b \in Packets :
       <<a, b>> \in Seq(Packets) /\ <<a, b>> # <<>> /\ <<a, b>>[Len(<<a, b>>)] = b
<1>1. <<>> \in Seq(Packets) OBVIOUS
<1>2. ASSUME NEW a \in Packets
      PROVE  <<a>> \in Seq(Packets) /\ <<a>> # <<>> /\ <<a>>[Len(<<a>>)] = a
  <2>1. Len(<<a>>) = 1 OBVIOUS
  <2>2. <<a>> \in Seq(Packets) OBVIOUS
  <2>3. QED BY <2>1, <2>2
<1>3. ASSUME NEW a \in Packets, NEW b \in Packets
      PROVE  <<a, b>> \in Seq(Packets) /\ <<a, b>> # <<>> /\ <<a, b>>[Len(<<a, b>>)] = b
  <2>1. Len(<<a, b>>) = 2 OBVIOUS
  <2>2. <<a, b>> \in Seq(Packets) OBVIOUS
  <2>3. QED BY <2>1, <2>2
<1>4. QED BY <1>1, <1>2, <1>3

(* What the client sends in a frame, and the state it is in afterwards: it   *)
(* says so when it begins to walk and when it ends, a swing ends a walk too. *)
LEMMA FrameSends ==
  ASSUME NEW key \in BOOLEAN, NEW turned \in BOOLEAN, NEW state, NEW sent, NEW swing,
         mState \in {"Idle", "Move", "Attack", "Stun", "Down"},
         state = ActorUpdate(key, turned).state, sent = ActorUpdate(key, turned).sends,
         swing = <<>> \/ swing = TryAttack(state)
  PROVE  /\ state \in {"Idle", "Move", "Attack", "Stun", "Down"}
         /\ sent \in Seq(Packets) /\ swing \in Seq(Packets)
         /\ sent = <<>> => (state = "Move" <=> mState = "Move")
         /\ sent # <<>> => (sent[Len(sent)] = "MOVE_START" => state = "Move")
         /\ swing # <<>> => swing[Len(swing)] = "ATTACK_REQ"
<1>1. swing = <<>> \/ swing = <<"MOVE_STOP", "ATTACK_REQ">> \/ swing = <<"ATTACK_REQ">>
  BY DEF TryAttack
<1>0. "MOVE_START" \in Packets /\ "MOVE_STOP" \in Packets /\ "ATTACK_REQ" \in Packets
  BY DEF Packets
<1>2. swing \in Seq(Packets) /\ (swing # <<>> => swing[Len(swing)] = "ATTACK_REQ")
  <2>1. CASE swing = <<>> BY <2>1, FewPackets
  <2>2. CASE swing = <<"ATTACK_REQ">> BY <1>0, <2>2, FewPackets
  <2>3. CASE swing = <<"MOVE_STOP", "ATTACK_REQ">>
    <3>1. /\ <<"MOVE_STOP", "ATTACK_REQ">> \in Seq(Packets)
          /\ <<"MOVE_STOP", "ATTACK_REQ">>[Len(<<"MOVE_STOP", "ATTACK_REQ">>)] = "ATTACK_REQ"
      BY <1>0, FewPackets
    <3>2. QED BY <2>3, <3>1, Zenon
  <2>4. QED BY <1>1, <2>1, <2>2, <2>3
<1>3. CASE mState \in {"Idle", "Move"}
  <2>1. ActorUpdate(key, turned) = Input(key, turned) BY <1>3 DEF ActorUpdate
  <2>2. state = IF key THEN "Move" ELSE "Idle" BY <2>1 DEF Input
  <2>3. sent = CASE state # mState /\ key  -> <<"MOVE_START">>
                 [] state # mState /\ ~key -> <<"MOVE_STOP">>
                 [] state = mState /\ key /\ turned -> <<"MOVE_STOP", "MOVE_START">>
                 [] OTHER -> <<>>
    BY <2>1, <2>2 DEF Input
  <2>4. \/ state # mState /\ state = "Move" /\ sent = <<"MOVE_START">>
        \/ state # mState /\ state = "Idle" /\ sent = <<"MOVE_STOP">>
        \/ state = "Move" /\ sent = <<"MOVE_STOP", "MOVE_START">>
        \/ state = mState /\ sent = <<>>
    BY <1>3, <2>2, <2>3
  <2>5. sent \in Seq(Packets) /\ (sent # <<>> => (sent[Len(sent)] = "MOVE_START" => state = "Move"))
    <3>1. CASE sent = <<"MOVE_START">> \/ sent = <<"MOVE_STOP", "MOVE_START">>
      BY <1>0, <2>4, <3>1, FewPackets
    <3>2. CASE sent = <<"MOVE_STOP">>
      BY <1>0, <3>2, FewPackets
    <3>3. CASE sent = <<>> BY <3>3, FewPackets
    <3>4. QED BY <2>4, <3>1, <3>2, <3>3
  <2>6. sent = <<>> => (state = "Move" <=> mState = "Move")
    BY <1>0, <2>4, FewPackets
  <2>7. state \in {"Idle", "Move", "Attack", "Stun", "Down"} BY <2>2
  <2>8. QED BY <1>2, <2>5, <2>6, <2>7
<1>4. CASE mState \in {"Attack", "Stun", "Down"}
  <2>1. state \in {"Idle", "Attack", "Stun", "Down"} /\ sent = <<>>
    BY <1>4 DEF ActorUpdate
  <2>2. QED BY <1>2, <1>4, <2>1, FewPackets
<1>5. QED BY <1>3, <1>4

(* A frame of the client. *)
LEMMA FrameStand ==
  ASSUME mState \in {"Idle", "Move", "Attack", "Stun", "Down"}, StandInv, ClientFrame
  PROVE  StandInv' /\ mState' \in {"Idle", "Move", "Attack", "Stun", "Down"}
<1>1. PICK key \in BOOLEAN, turned \in BOOLEAN, button \in BOOLEAN :
        LET moved == ActorUpdate(key, turned)
            swing == IF button THEN TryAttack(moved.state) ELSE <<>>
        IN /\ up' = up \o moved.sends \o swing
           /\ mState' = IF swing # <<>> THEN "Attack" ELSE moved.state
  BY DEF ClientFrame
<1> DEFINE state == ActorUpdate(key, turned).state
           sent == ActorUpdate(key, turned).sends
           swing == IF button THEN TryAttack(state) ELSE <<>>
<1>2. /\ up' = (up \o sent) \o swing
      /\ mState' = IF swing # <<>> THEN "Attack" ELSE state
  BY <1>1
<1>3. /\ state \in {"Idle", "Move", "Attack", "Stun", "Down"}
      /\ sent \in Seq(Packets) /\ swing \in Seq(Packets)
      /\ sent = <<>> => (state = "Move" <=> mState = "Move")
      /\ sent # <<>> => (sent[Len(sent)] = "MOVE_START" => state = "Move")
      /\ swing # <<>> => swing[Len(swing)] = "ATTACK_REQ"
  <2>1. swing = <<>> \/ swing = TryAttack(state) OBVIOUS
  <2> HIDE DEF swing
  <2>2. QED BY <2>1, FrameSends
<1> HIDE DEF state, sent, swing
<1>4. UNCHANGED <<player, down, late, crossed>> BY DEF ClientFrame, historyVars
<1>5. up \in Seq(Packets) /\ late \in 0 .. Len(up) BY DEF StandInv, WayInv
<1>6. /\ up \o sent \in Seq(Packets) /\ Len(up \o sent) = Len(up) + Len(sent)
      /\ Len(up) \in Nat /\ Len(sent) \in Nat
      /\ sent # <<>> => Len(sent) > 0 /\ (up \o sent)[Len(up \o sent)] = sent[Len(sent)]
      /\ sent = <<>> => up \o sent = up
  BY <1>3, <1>5, LastOfBoth
<1>7. /\ up' \in Seq(Packets) /\ Len(up') = Len(up) + Len(sent) + Len(swing)
      /\ Len(swing) \in Nat
      /\ swing # <<>> => Len(swing) > 0 /\ up'[Len(up')] = swing[Len(swing)]
      /\ swing = <<>> => up' = up \o sent
  <2> DEFINE said == up \o sent
  <2>1. said \in Seq(Packets) /\ Len(said) = Len(up) + Len(sent) BY <1>6
  <2>2. up' = said \o swing BY <1>2
  <2> HIDE DEF said
  <2>3. /\ said \o swing \in Seq(Packets) /\ Len(said \o swing) = Len(said) + Len(swing)
        /\ Len(swing) \in Nat
        /\ swing # <<>> => Len(swing) > 0 /\ (said \o swing)[Len(said \o swing)] = swing[Len(swing)]
        /\ swing = <<>> => said \o swing = said
    BY <1>3, <2>1, LastOfBoth
  <2>4. swing = <<>> => up' = up \o sent BY <2>2, <2>3 DEF said
  <2>5. QED BY <2>1, <2>2, <2>3, <2>4
<1>8. WayInv' BY <1>4, <1>5, <1>6, <1>7 DEF WayInv
<1>9. CrossedInv' BY <1>4 DEF StandInv, CrossedInv
<1>10. LastInv'
  <2>1. CASE swing # <<>> BY <1>3, <1>7, <2>1 DEF LastInv
  <2>2. CASE swing = <<>> /\ sent # <<>> BY <1>2, <1>3, <1>6, <1>7, <2>2 DEF LastInv
  <2>3. CASE swing = <<>> /\ sent = <<>>
    <3>1. up' = up /\ mState' = state BY <1>2, <1>6, <1>7, <2>3
    <3>2. QED BY <1>3, <1>4, <2>3, <3>1 DEF StandInv, LastInv
  <2>4. QED BY <2>1, <2>2, <2>3
<1>11. WalkInv'
  <2>1. CASE swing = <<>> /\ sent = <<>>
    <3>1. up' = up /\ mState' = state BY <1>2, <1>6, <1>7, <2>1
    <3>2. QED BY <1>3, <1>4, <2>1, <3>1 DEF StandInv, WalkInv
  <2>2. CASE swing # <<>> \/ sent # <<>>
    <3>1. Len(up') > 0 BY <1>6, <1>7, <2>2
    <3>2. up' # <<>> BY <3>1, <1>7, EmptySeq
    <3>3. QED BY <3>2 DEF WalkInv
  <2>3. QED BY <2>1, <2>2
<1>12. QED BY <1>2, <1>3, <1>8, <1>9, <1>10, <1>11 DEF StandInv

(* The client hears of a hit. *)
LEMMA DamagedStand == ASSUME StandInv, OnDamaged PROVE StandInv'
<1>1. UNCHANGED <<up, player, crossed>> /\ late' = Len(up) /\ down # <<>>
  BY DEF OnDamaged
<1>2. Len(up) \in Nat BY LenProperties DEF StandInv, WayInv
<1>3. WayInv' /\ LastInv' BY <1>1, <1>2 DEF StandInv, WayInv, LastInv
<1>4. player.mState = "Move" => crossed BY <1>1 DEF StandInv, CrossedInv
<1>5. CrossedInv' /\ WalkInv' BY <1>1, <1>4 DEF CrossedInv, WalkInv
<1>6. QED BY <1>3, <1>5 DEF StandInv

(* The server takes the first packet. *)
LEMMA ReceiveStand ==
  ASSUME IInv, StandInv, HandleMoveStart \/ HandleMoveStop \/ HandleAttackReq
  PROVE  StandInv'
<1>1. PICK packet \in Packets : Receive(packet)
  BY DEF HandleMoveStart, HandleMoveStop, HandleAttackReq, Packets
<1>2. /\ up # <<>> /\ Head(up) = packet /\ up' = Tail(up)
      /\ late' = IF late > 0 THEN late - 1 ELSE 0
      /\ UNCHANGED <<mState, down>>
  BY <1>1 DEF Receive, clientVars
<1>3. /\ up \in Seq(Packets) /\ late \in 0 .. Len(up) /\ Len(up) \in Nat /\ Len(up) > 0
      /\ up[1] = packet
  BY <1>2, LenProperties, EmptySeq DEF StandInv, WayInv
<1>4. /\ up' \in Seq(Packets) /\ Len(up') = Len(up) - 1
      /\ \A i \in 1 .. Len(up') : up'[i] = up[i + 1]
  BY <1>2, HeadTailProperties DEF StandInv, WayInv
<1>5. WayInv' BY <1>2, <1>3, <1>4 DEF WayInv
<1>6. LastInv'
  <2>1. SUFFICES ASSUME Len(up') > late', up'[Len(up')] = "MOVE_START"
                 PROVE  mState = "Move"
    BY <1>2 DEF LastInv
  <2>2. Len(up') \in 1 .. Len(up') /\ Len(up') + 1 = Len(up) /\ Len(up) > late
    BY <1>2, <1>3, <1>4, <2>1
  <2>3. up[Len(up)] = "MOVE_START" BY <1>4, <2>1, <2>2
  <2>4. QED BY <2>2, <2>3 DEF StandInv, LastInv
(* If the player moves afterwards, it did before or a MOVE_START was taken. *)
<1>7. \/ player'.mState # "Move"
      \/ packet = "MOVE_START" /\ player' = player /\ crossed' = crossed
      \/ packet = "MOVE_START" /\ (down # <<>> \/ late > 0 => crossed')
  <2>1. CASE HandleMoveStart
    <3>1. packet = "MOVE_START" BY <1>2, <2>1 DEF HandleMoveStart, Receive
    <3>2. CASE StartTaken(player) BY <2>1, <3>1, <3>2 DEF HandleMoveStart
    <3>3. CASE ~StartTaken(player) BY <2>1, <3>1, <3>3 DEF HandleMoveStart, handleMoveStart
    <3>4. QED BY <3>2, <3>3
  <2>2. CASE HandleMoveStop
    <3>1. CASE StopTaken(player) /\ player.mState # "Idle"
      <4>1. player' = changeState(player, "Idle") BY <2>2, <3>1 DEF HandleMoveStop, handleMoveStop
      <4>2. QED BY <4>1, ChangeState DEF IInv, ePlayerState
    <3>2. CASE ~StopTaken(player) \/ player.mState = "Idle"
      BY <2>2, <3>2 DEF HandleMoveStop, handleMoveStop, StopTaken
    <3>3. QED BY <3>1, <3>2
  <2>3. CASE HandleAttackReq
    <3>1. CASE AttackTaken(player)
      <4>1. player' = changeState(player, "Attack")
        BY <2>3, <3>1 DEF HandleAttackReq, handleAttackReq
      <4>2. QED BY <4>1, ChangeState DEF IInv, ePlayerState
    <3>2. CASE ~AttackTaken(player)
      BY <2>3, <3>2 DEF HandleAttackReq, handleAttackReq, AttackTaken
    <3>3. QED BY <3>1, <3>2
  <2>4. QED BY <2>1, <2>2, <2>3
<1>8. CrossedInv'
  BY <1>2, <1>3, <1>7 DEF StandInv, CrossedInv
<1>9. WalkInv'
  <2>1. SUFFICES ASSUME player'.mState = "Move", up' = <<>>, down = <<>>, ~crossed'
                 PROVE  mState = "Move"
    BY <1>2 DEF WalkInv
  <2>2. late = 0 BY <1>3, <1>7, <2>1 DEF StandInv, CrossedInv
  <2>3. Len(up) = 1 BY <1>3, <1>4, <2>1, EmptySeq
  <2>4. packet = "MOVE_START" BY <1>7, <2>1
  <2>5. QED BY <1>3, <2>2, <2>3, <2>4 DEF StandInv, LastInv
<1>10. QED BY <1>5, <1>6, <1>8, <1>9 DEF StandInv

(* The other steps: none of them makes the player move, or says anything.    *)
LEMMA OtherStand ==
  ASSUME IInv, StandInv,
         ServerFrame \/ Hit \/ Shown \/ Despawn \/ ObserverFrame \/ UNCHANGED vars
  PROVE  StandInv' /\ mState' = mState
<1>1. CASE Hit
  <2>1. UNCHANGED <<mState, up, late>> BY <1>1 DEF Hit, clientVars
  <2>2. player'.mState # "Move" BY <1>1, HitStunsOrKills DEF Hit, IInv
  <2>3. QED BY <2>1, <2>2 DEF StandInv, WayInv, CrossedInv, LastInv, WalkInv
<1>2. CASE ServerFrame
  <2>1. UNCHANGED <<mState, up, down, late, crossed>>
    BY <1>2 DEF ServerFrame, clientVars, historyVars
  <2>2. player'.mState = "Move" <=> player.mState = "Move"
    BY <1>2, UpdateKeeps DEF ServerFrame, IInv
  <2>3. QED BY <2>1, <2>2 DEF StandInv, WayInv, CrossedInv, LastInv, WalkInv
<1>3. CASE Shown \/ Despawn \/ ObserverFrame \/ UNCHANGED vars
  <2>1. UNCHANGED <<mState, up, down, player, late, crossed>>
    BY <1>3 DEF Shown, Despawn, ObserverFrame, clientVars, historyVars, vars
  <2>2. QED BY <2>1 DEF StandInv, WayInv, CrossedInv, LastInv, WalkInv
<1>4. QED BY <1>1, <1>2, <1>3

-----------------------------------------------------------------------------

(* The inductive invariant of the observer's side holds.                     *)
THEOREM IInvHolds == Spec => []IInv
<1>1. Init => IInv BY InitInv
<1>2. IInv /\ [Next]_vars => IInv'
  <2>1. SUFFICES ASSUME IInv, [Next]_vars PROVE IInv' OBVIOUS
  <2>2. CASE ClientFrame BY <2>1, <2>2, QuietStep DEF ClientFrame
  <2>3. CASE OnDamaged BY <2>1, <2>3, QuietStep DEF OnDamaged
  <2>4. CASE ServerFrame BY <2>1, <2>4, ServerFrameInv
  <2>5. CASE Hit BY <2>1, <2>5, HitInv
  <2>6. CASE HandleMoveStart BY <2>1, <2>6, MoveStartInv
  <2>7. CASE HandleMoveStop BY <2>1, <2>7, MoveStopInv
  <2>8. CASE HandleAttackReq BY <2>1, <2>8, AttackReqInv
  <2>9. CASE Shown BY <2>1, <2>9, ShownInv
  <2>10. CASE Despawn BY <2>1, <2>10, DespawnInv
  <2>11. CASE ObserverFrame BY <2>1, <2>11, ObserverFrameInv
  <2>12. CASE UNCHANGED vars BY <2>1, <2>12, QuietStep DEF vars
  <2>13. QED
    BY <2>1, <2>2, <2>3, <2>4, <2>5, <2>6, <2>7, <2>8, <2>9, <2>10, <2>11, <2>12 DEF Next
<1>3. QED BY <1>1, <1>2, PTL DEF Spec

(* What the observer shows is what the server holds of the player, for every *)
(* number of frames, hit points and packets on their way.                    *)
THEOREM ObserverHolds == Spec => []ObserverSees
<1>1. IInv => ObserverSees BY DEF IInv
<1>2. QED BY <1>1, IInvHolds, PTL

(* A player that stands at its client stands at the server once nothing is   *)
(* on its way, unless a MOVE_START crossed a hit.                            *)
THEOREM StandersHold == Spec => []StandersStand
<1> DEFINE Known == mState \in {"Idle", "Move", "Attack", "Stun", "Down"}
<1>1. Init => StandInv /\ Known
  BY LenProperties, EmptySeq
  DEF Init, StandInv, WayInv, CrossedInv, LastInv, WalkInv, NewPlayer, Packets
<1>2. IInv /\ StandInv /\ Known /\ [Next]_vars => StandInv' /\ Known'
  <2>1. SUFFICES ASSUME IInv, StandInv, Known, [Next]_vars PROVE StandInv' /\ Known' OBVIOUS
  <2>2. CASE ClientFrame BY <2>1, <2>2, FrameStand
  <2>3. CASE OnDamaged BY <2>1, <2>3, DamagedStand DEF OnDamaged
  <2>4. CASE HandleMoveStart \/ HandleMoveStop \/ HandleAttackReq
    <3>1. mState' = mState
      BY <2>4 DEF HandleMoveStart, HandleMoveStop, HandleAttackReq, Receive, clientVars
    <3>2. QED BY <2>1, <2>4, <3>1, ReceiveStand
  <2>5. CASE ServerFrame \/ Hit \/ Shown \/ Despawn \/ ObserverFrame \/ UNCHANGED vars
    BY <2>1, <2>5, OtherStand
  <2>6. QED BY <2>1, <2>2, <2>3, <2>4, <2>5 DEF Next
<1>3. StandInv => StandersStand BY DEF StandInv, WalkInv, StandersStand
<1>4. QED BY <1>1, <1>2, <1>3, IInvHolds, PTL DEF Spec
=============================================================================

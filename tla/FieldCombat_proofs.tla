-------------------------- MODULE FieldCombat_proofs --------------------------
(***************************************************************************)
(* Proofs about FieldCombat, for any players, monsters and items, any hit  *)
(* points and any frame counts: what the client that watches the monsters  *)
(* shows is what they do, it shows the items that lie around it, and every *)
(* death of a monster counts one kill and leaves one item.                 *)
(***************************************************************************)
EXTENDS FieldCombat, FiniteSetTheorems, TLAPS

-----------------------------------------------------------------------------
(* The inductive invariant.                                                *)

(* A player none of whose changes of state failed its assertion. *)
PlayerShape ==
  [mState : ePlayerState, mAnimFrame : 0 .. PLAYER_ATTACK_TOTAL_FRAME - 1,
   mHp : 0 .. PLAYER_MAX_HP, mHitStunFrame : 0 .. PLAYER_HIT_STUN_FRAME, ok : {TRUE}]

MonsterShape ==
  [mState : eMonsterState, mDirection : Directions, mAnimFrame : Nat, mHp : 0 .. MONSTER_MAX_HP,
   mHitStunFrame : 0 .. MONSTER_HIT_STUN_FRAME, mTargetPlayerID : Players \union {NoPlayer},
   ok : {TRUE}]

(* The dead are those without hit points, and no state outlasts its frames. *)
MonsterRight(m) ==
  /\ m \in MonsterShape
  /\ m.mState = "Dead" <=> m.mHp = 0
  /\ m.mState = "Idle" => m.mAnimFrame <= MONSTER_IDLE_FRAME
  /\ m.mState = "Attack" => m.mAnimFrame < MONSTER_ATTACK_TOTAL_FRAME
  /\ m.mState = "Dead" => m.mAnimFrame < MONSTER_RESPAWN_FRAME
  /\ m.mState \in {"Move", "Chase", "Stun", "Return"} => m.mAnimFrame = 0

Sprites == {"Idle", "Move", "Attack", "Stun", "Down"}

ActorShape ==
  [shown : BOOLEAN, mBMove : BOOLEAN, mHp : 0 .. MONSTER_MAX_HP, mDirection : Directions,
   mSprite : Sprites, mHitTimer : BOOLEAN, ok : {TRUE}]

(* Who lies down has no hit points, and no timer runs that would raise it. *)
ActorRight(v) ==
  /\ v \in ActorShape
  /\ v.shown => (v.mSprite = "Down" <=> v.mHp = 0)
  /\ v.mHitTimer => v.shown /\ v.mHp > 0

(* An actor that is shown walks and faces as f does. *)
Walks(f) == f.mState \in Moving
ShownAs(v, f) == v.shown => (v.mBMove <=> Walks(f)) /\ v.mDirection = f.mDirection
InStep(v, m) == ShownAs(v, m) /\ (v.shown => v.mHp = m.mHp)

(* Monster m was b when its update began and is to be announced: its actor is as *)
(* b was, or was shown since, which no monster is that begins to walk.           *)
ToTell(v, m, b) ==
  /\ ShownAs(v, b) \/ (ShownAs(v, m) /\ (Walks(m) => Walks(b)))
  /\ v.shown => v.mHp = m.mHp \/ (b.mState = "Dead" /\ m.mState = "Idle")
  /\ m.mState \in {"Stun", "Dead"} => b = Face(m)
  /\ b.mState = "Dead" => m.mState \in {"Dead", "Idle"}
  /\ b.mState = "Dead" /\ m.mState = "Idle" => m.mAnimFrame = 0

(* A monster that will not begin to walk in its next frame. *)
Rests(m) ==
  \/ m.mState = "Dead"
  \/ m.mState = "Stun" /\ m.mHitStunFrame > 0
  \/ m.mState = "Idle" /\ m.mAnimFrame = 0

(* Where the field thread is in its frame, and what it has yet to visit. *)
Phases ==
  /\ phase \in {"messages", "players", "monsters", "monsterSectors", "packets", "announce"}
  /\ phase = "messages" => todo = {}
  /\ phase \in {"players", "packets"} => todo \subseteq players
  /\ phase \in {"monsters", "monsterSectors", "announce"} => todo \subseteq Monsters

PlayersRight ==
  /\ stay \in [Players -> {"in", "gone"}] /\ mBConnect \in [Players -> BOOLEAN]
  /\ player \in [Players -> PlayerShape] /\ target \in [Players -> Monsters \union {NoMonster}]
  /\ saved \in [Players -> BOOLEAN]

Faces == [mState : eMonsterState, mDirection : Directions]

MonstersRight ==
  /\ monster \in [Monsters -> MonsterShape] /\ view \in [Monsters -> ActorShape]
  /\ before \in [Monsters -> Faces] /\ DOMAIN moved = Monsters
  /\ \A m \in Monsters : MonsterRight(monster[m]) /\ ActorRight(view[m])

(* The frame has updated m and has not announced it, or has not changed its sector. *)
Updated(m) ==
  \/ phase = "monsters" /\ m \notin todo
  \/ phase \in {"monsterSectors", "packets"}
  \/ phase = "announce" /\ m \in todo
Unsorted(m) ==
  \/ phase = "monsters" /\ m \notin todo
  \/ phase = "monsterSectors" /\ m \in todo

(* What the watcher has been told, and has yet to be told. *)
Told ==
  \A m \in Monsters :
    /\ Updated(m) => ToTell(view[m], monster[m], before[m])
    /\ ~Updated(m) => InStep(view[m], monster[m])

(* A monster that may be in another sector does not begin to walk. *)
Knocked ==
  \A m \in Monsters : moved[m] =>
    /\ Unsorted(m) /\ before[m].mState # "Dead" /\ Walks(monster[m]) => Walks(before[m])
    /\ ~Unsorted(m) => Rests(monster[m])

(* A swing that has hit its frame has hit once at most, and others have not hit. *)
Swung(p, h) ==
  h <= 1 /\ (p.mState = "Attack" /\ p.mAnimFrame < PLAYER_ATTACK_AWINDUP_FRAME => h = 0)
Swings ==
  /\ hits \in [Players -> Nat]
  /\ \A p \in Players : mBConnect[p] => Swung(player[p], hits[p])

Ground == {i \in Items : item[i] = "ground"}

Drops ==
  /\ item \in [Items -> {"unused", "ground", "gone"}]
  /\ near \subseteq Ground /\ mItemActors = near /\ ~asserted
  /\ deaths \in Nat /\ expired \in Nat /\ mInventory \in Nat /\ kills = deaths
  /\ Cardinality(Ground) + expired + mInventory = deaths

IInv ==
  Phases /\ PlayersRight /\ MonstersRight /\ Told /\ Knocked /\ Swings /\ Drops

-----------------------------------------------------------------------------
(* Monster.cpp                                                             *)

(* changeState, from another state. *)
LEMMA ChangeMonsterState ==
  ASSUME NEW m \in MonsterShape, NEW state \in eMonsterState, m.mState # state
  PROVE  LET n == changeMonsterState(m, state) IN
         /\ n \in MonsterShape /\ n.mState = state /\ n.mAnimFrame = 0
         /\ n.mDirection = m.mDirection /\ n.mHp = m.mHp /\ n.mHitStunFrame = m.mHitStunFrame
BY DEF MonsterShape, changeMonsterState

(* A turn changes where a monster faces and nothing else. *)
LEMMA FacingRight ==
  ASSUME NEW m \in MonsterShape, NEW t \in Facing(m)
  PROVE  /\ t \in MonsterShape /\ t.mState = m.mState /\ t.mAnimFrame = m.mAnimFrame
         /\ t.mHp = m.mHp /\ t.mHitStunFrame = m.mHitStunFrame
BY DEF MonsterShape, Facing

(* The states a monster may have. *)
LEMMA StatesAre ==
  /\ {"Idle", "Move", "Chase", "Attack", "Stun", "Dead", "Return"} \subseteq eMonsterState
  /\ \A s \in eMonsterState : s \in {"Idle", "Move", "Chase", "Attack", "Stun", "Dead", "Return"}
BY DEF eMonsterState

(* A monster that has just come into a state is right, if the dead have no hit *)
(* points and the others have some.                                            *)
LEMMA Begun ==
  ASSUME NEW n \in MonsterShape, n.mAnimFrame = 0, n.mState = "Dead" <=> n.mHp = 0
  PROVE  MonsterRight(n)
BY MonsterAssumption DEF MonsterRight

(* A chase is given up: the monster rests or goes home. *)
LEMMA GivenUp ==
  ASSUME NEW m, MonsterRight(m), m.mState = "Chase", NEW where
  PROVE  LET n == giveUpChase(m, where) IN
         /\ MonsterRight(n) /\ n.mState \in {"Idle", "Return"} /\ n.mAnimFrame = 0
         /\ n.mHp = m.mHp /\ n.mDirection = m.mDirection
<1> DEFINE n == giveUpChase(m, where)
<1>1. m \in MonsterShape /\ m.mHp # 0 BY DEF MonsterRight
<1>2. PICK state \in {"Idle", "Return"} : n = changeMonsterState(m, state)
  BY DEF giveUpChase
<1> HIDE DEF n
<1>3. /\ n \in MonsterShape /\ n.mState = state /\ n.mAnimFrame = 0
      /\ n.mDirection = m.mDirection /\ n.mHp = m.mHp
  BY <1>1, <1>2, ChangeMonsterState, StatesAre
<1>4. MonsterRight(n) BY <1>1, <1>3, Begun
<1>5. QED BY <1>3, <1>4 DEF n

(* One frame of a monster. *)
LEMMA UpdateRight ==
  ASSUME NEW m, MonsterRight(m), NEW where \in Distance, NEW inRange \in BOOLEAN,
         NEW n \in Update(m, where, inRange)
  PROVE  /\ MonsterRight(n)
         /\ n.mState \in {"Stun", "Dead"} => Face(n) = Face(m)
         /\ n.mHp = m.mHp \/ (m.mState = "Dead" /\ n.mState = "Idle")
         /\ m.mState = "Dead" => n.mState = "Dead" \/ (n.mState = "Idle" /\ n.mAnimFrame = 0)
         /\ Rests(m) => ~Walks(n)
<1> DEFINE frame == CASE m.mState = "Idle" -> IF m.mAnimFrame < MONSTER_IDLE_FRAME
                                              THEN m.mAnimFrame + 1 ELSE m.mAnimFrame
                      [] m.mState \in {"Attack", "Dead"} -> m.mAnimFrame + 1
                      [] OTHER -> m.mAnimFrame
           aged == [m EXCEPT !.mAnimFrame = frame]
           Goal == /\ MonsterRight(n)
                   /\ n.mState \in {"Stun", "Dead"} => Face(n) = Face(m)
                   /\ n.mHp = m.mHp \/ (m.mState = "Dead" /\ n.mState = "Idle")
                   /\ m.mState = "Dead" => n.mState = "Dead" \/ (n.mState = "Idle" /\ n.mAnimFrame = 0)
                   /\ Rests(m) => ~Walks(n)
<1>1. m \in MonsterShape /\ m.mAnimFrame \in Nat /\ m.mState \in eMonsterState
  BY DEF MonsterRight, MonsterShape
<1>2. /\ aged \in MonsterShape /\ aged.mState = m.mState /\ aged.mHp = m.mHp
      /\ aged.mDirection = m.mDirection /\ aged.mHitStunFrame = m.mHitStunFrame
      /\ aged.mAnimFrame = frame
  <2>1. frame \in Nat BY <1>1
  <2> HIDE DEF frame
  <2>2. QED BY <1>1, <2>1 DEF MonsterShape
<1> HIDE DEF aged
(* It keeps its state, which has frames left, or it begins another one. *)
<1>3. ASSUME NEW state \in eMonsterState, state # m.mState, state # "Stun", state # "Dead",
             NEW t \in MonsterShape, t.mState = m.mState, t.mHp = m.mHp, m.mState # "Dead",
             n = changeMonsterState(t, state), Rests(m) => state \notin Moving
      PROVE  Goal
  <2>1. n \in MonsterShape /\ n.mState = state /\ n.mAnimFrame = 0 /\ n.mHp = t.mHp
    BY <1>3, ChangeMonsterState
  <2>2. m.mHp # 0 BY <1>3 DEF MonsterRight
  <2>3. MonsterRight(n) BY <1>3, <2>1, <2>2, Begun
  <2>4. QED BY <1>3, <2>1, <2>3 DEF Walks
<1>4. CASE m.mState = "Idle"
  <2>1. n \in idleUpdate(aged) BY <1>4 DEF Update, aged
  <2>2. aged.mAnimFrame <= MONSTER_IDLE_FRAME /\ aged.mAnimFrame \in Nat
    BY <1>1, <1>2, <1>4, MonsterAssumption DEF MonsterRight
  <2>3. CASE n = aged
    <3>1. MonsterRight(n) BY <1>2, <1>4, <2>2, <2>3 DEF MonsterRight
    <3>2. QED BY <1>2, <1>4, <2>3, <3>1 DEF Walks, Moving
  <2>4. CASE n # aged
    <3>1. /\ ~(aged.mAnimFrame < MONSTER_IDLE_FRAME)
          /\ \E t \in Facing(aged) : n = changeMonsterState(t, "Move")
      BY <2>1, <2>4 DEF idleUpdate
    <3>2. m.mAnimFrame # 0 BY <1>1, <1>2, <1>4, <3>1, MonsterAssumption
    <3>3. PICK t \in Facing(aged) : n = changeMonsterState(t, "Move") BY <3>1
    <3>4. t \in MonsterShape /\ t.mState = m.mState /\ t.mHp = m.mHp
      BY <1>2, FacingRight
    <3>5. QED BY <1>3, <1>4, <3>2, <3>3, <3>4, StatesAre DEF Rests
  <2>5. QED BY <2>3, <2>4
<1>5. ASSUME m.mState \in Moving, aged = m PROVE Goal
  <2>1. ~Rests(m) /\ m.mState \notin {"Dead", "Stun"} BY <1>5 DEF Moving, Rests
  <2>2. CASE m.mState = "Move"
    <3>1. n \in patrolUpdate(m, where) BY <1>5, <2>2 DEF Update, aged
    <3>2. n = m \/ \E s \in {"Idle", "Return"} : n = changeMonsterState(m, s)
      BY <3>1 DEF patrolUpdate
    <3>3. QED BY <1>1, <1>3, <1>5, <2>1, <2>2, <3>2, StatesAre
  <2>3. ASSUME n \in Facing(m) PROVE Goal
    <3>1. /\ n \in MonsterShape /\ n.mState = m.mState /\ n.mAnimFrame = m.mAnimFrame
          /\ n.mHp = m.mHp
      BY <1>1, <2>3, FacingRight
    <3>2. MonsterRight(n) BY <3>1 DEF MonsterRight
    <3>3. QED BY <2>1, <3>1, <3>2
  <2>4. CASE m.mState = "Chase"
    <3>1. n \in chaseUpdate(m, where, inRange) BY <1>5, <2>4 DEF Update, aged
    <3>2. \/ n = giveUpChase(m, where)
          \/ \E t \in Facing(m) : n = changeMonsterState(t, "Attack")
          \/ n \in Facing(m)
      BY <3>1 DEF chaseUpdate
    <3>3. CASE n = giveUpChase(m, where)
      <4>1. \E s \in {"Idle", "Return"} : n = changeMonsterState(m, s)
        BY <3>3 DEF giveUpChase
      <4>2. QED BY <1>1, <1>3, <2>1, <2>4, <4>1, StatesAre
    <3>4. CASE \E t \in Facing(m) : n = changeMonsterState(t, "Attack")
      <4>1. PICK t \in Facing(m) : n = changeMonsterState(t, "Attack") BY <3>4
      <4>2. t \in MonsterShape /\ t.mState = m.mState /\ t.mHp = m.mHp BY <1>1, FacingRight
      <4>3. QED BY <1>3, <2>1, <2>4, <4>1, <4>2, StatesAre
    <3>5. QED BY <2>3, <3>2, <3>3, <3>4
  <2>5. CASE m.mState = "Return"
    <3>1. n \in returnUpdate(m, where) BY <1>5, <2>5 DEF Update, aged
    <3>2. n = changeMonsterState(m, "Idle") \/ n \in Facing(m)
      BY <3>1 DEF returnUpdate
    <3>3. QED BY <1>1, <1>3, <2>1, <2>3, <2>5, <3>2, StatesAre
  <2>6. QED BY <1>5, <2>2, <2>4, <2>5 DEF Moving
<1>6. CASE m.mState = "Attack"
  <2>1. n \in attackUpdate(aged) BY <1>6 DEF Update, aged
  <2>2. CASE aged.mAnimFrame >= MONSTER_ATTACK_TOTAL_FRAME
    <3>1. n = changeMonsterState(aged, "Chase") BY <2>1, <2>2 DEF attackUpdate
    <3>2. QED BY <1>2, <1>3, <1>6, <3>1, StatesAre DEF Rests
  <2>3. CASE ~(aged.mAnimFrame >= MONSTER_ATTACK_TOTAL_FRAME)
    <3>1. n = aged BY <2>1, <2>3 DEF attackUpdate
    <3>2. aged.mAnimFrame = m.mAnimFrame + 1 BY <1>2, <1>6
    <3>3. aged.mAnimFrame < MONSTER_ATTACK_TOTAL_FRAME BY <1>1, <2>3, <3>2, MonsterAssumption
    <3>4. MonsterRight(n) BY <1>2, <1>6, <3>1, <3>3 DEF MonsterRight
    <3>5. QED BY <1>2, <1>6, <3>1, <3>4 DEF Walks, Moving
  <2>4. QED BY <2>2, <2>3
<1>7. CASE m.mState = "Stun"
  <2>1. aged = m BY <1>1, <1>7 DEF aged, MonsterShape
  <2>2. n \in stunUpdate(m) BY <1>7, <2>1 DEF Update, aged
  <2>3. CASE m.mHitStunFrame > 0
    <3>1. n = [m EXCEPT !.mHitStunFrame = @ - 1] BY <2>2, <2>3 DEF stunUpdate
    <3>2. m.mHitStunFrame - 1 \in 0 .. MONSTER_HIT_STUN_FRAME
      BY <1>1, <2>3, MonsterAssumption DEF MonsterShape
    <3>3. /\ n \in MonsterShape /\ n.mState = m.mState /\ n.mAnimFrame = m.mAnimFrame
          /\ n.mHp = m.mHp /\ n.mDirection = m.mDirection
      BY <1>1, <3>1, <3>2 DEF MonsterShape
    <3>4. MonsterRight(n) BY <3>3 DEF MonsterRight
    <3>5. QED BY <1>7, <3>3, <3>4 DEF Walks, Moving, Face
  <2>4. CASE ~(m.mHitStunFrame > 0)
    <3>1. n = changeMonsterState(m, "Chase") BY <2>2, <2>4 DEF stunUpdate
    <3>2. QED BY <1>1, <1>3, <1>7, <2>4, <3>1, StatesAre DEF Rests
  <2>5. QED BY <2>3, <2>4
<1>8. CASE m.mState = "Dead"
  <2>1. n \in deadUpdate(aged) BY <1>8 DEF Update, aged
  <2>2. aged.mAnimFrame = m.mAnimFrame + 1 BY <1>2, <1>8
  <2>3. CASE aged.mAnimFrame >= MONSTER_RESPAWN_FRAME
    <3> DEFINE risen == changeMonsterState(aged, "Idle")
    <3>1. n = [risen EXCEPT !.mHp = MONSTER_MAX_HP] BY <2>1, <2>3 DEF deadUpdate
    <3>2. risen \in MonsterShape /\ risen.mState = "Idle" /\ risen.mAnimFrame = 0
      BY <1>2, <1>8, ChangeMonsterState, StatesAre
    <3> HIDE DEF risen
    <3>3. MONSTER_MAX_HP \in 0 .. MONSTER_MAX_HP /\ MONSTER_MAX_HP # 0 BY MonsterAssumption
    <3>4. n \in MonsterShape /\ n.mState = "Idle" /\ n.mAnimFrame = 0 /\ n.mHp # 0
      BY <3>1, <3>2, <3>3 DEF MonsterShape
    <3>5. MonsterRight(n) BY <3>4, Begun
    <3>6. QED BY <1>8, <3>4, <3>5 DEF Walks, Moving
  <2>4. CASE ~(aged.mAnimFrame >= MONSTER_RESPAWN_FRAME)
    <3>1. n = aged BY <2>1, <2>4 DEF deadUpdate
    <3>2. aged.mAnimFrame < MONSTER_RESPAWN_FRAME BY <1>1, <2>2, <2>4, MonsterAssumption
    <3>3. MonsterRight(n) BY <1>2, <1>8, <3>1, <3>2 DEF MonsterRight
    <3>4. QED BY <1>2, <1>8, <3>1, <3>3 DEF Walks, Moving, Face
  <2>5. QED BY <2>3, <2>4
<1>9. m.mState \in Moving => aged = m BY <1>1 DEF aged, MonsterShape, Moving
<1>10. QED BY <1>1, <1>4, <1>5, <1>6, <1>7, <1>8, <1>9, StatesAre DEF Moving

(* A blow stuns a living monster or kills it. *)
LEMMA HurtRight ==
  ASSUME NEW m, MonsterRight(m), m.mState # "Dead", NEW p \in Players,
         NEW h \in takeMonsterDamage(m, p)
  PROVE  MonsterRight(h) /\ h.mState \in {"Stun", "Dead"} /\ Rests(h)
<1> DEFINE left == IF m.mHp > PLAYER_ATTACK_DAMAGE THEN m.mHp - PLAYER_ATTACK_DAMAGE ELSE 0
           Stunned(t) == [t EXCEPT !.mHp = left, !.mHitStunFrame = MONSTER_HIT_STUN_FRAME,
                                   !.mTargetPlayerID = p]
<1>1. m \in MonsterShape /\ m.mHp \in 0 .. MONSTER_MAX_HP BY DEF MonsterRight, MonsterShape
<1>2. left \in 0 .. MONSTER_MAX_HP BY <1>1, MonsterAssumption
<1>3. \/ left = 0 /\ \E t \in Facing(m) : h = changeMonsterState([t EXCEPT !.mHp = 0], "Dead")
      \/ left # 0 /\ m.mState = "Stun" /\ \E t \in Facing(m) : h = Stunned(t)
      \/ left # 0 /\ m.mState # "Stun" /\ \E t \in Facing(m) : h = changeMonsterState(Stunned(t), "Stun")
  BY DEF takeMonsterDamage
<1> HIDE DEF left
<1>4. MONSTER_HIT_STUN_FRAME \in 0 .. MONSTER_HIT_STUN_FRAME /\ MONSTER_HIT_STUN_FRAME > 0
      /\ 0 \in 0 .. MONSTER_MAX_HP
  BY MonsterAssumption
<1>5. ASSUME NEW t \in Facing(m)
      PROVE  /\ Stunned(t) \in MonsterShape /\ Stunned(t).mState = m.mState /\ Stunned(t).mHp = left
             /\ Stunned(t).mHitStunFrame = MONSTER_HIT_STUN_FRAME
             /\ Stunned(t).mAnimFrame = m.mAnimFrame
  <2>1. t \in MonsterShape /\ t.mState = m.mState /\ t.mAnimFrame = m.mAnimFrame
    BY <1>1, FacingRight
  <2>2. QED BY <1>2, <1>4, <2>1 DEF MonsterShape
<1> HIDE DEF Stunned
<1>6. CASE left = 0 /\ \E t \in Facing(m) : h = changeMonsterState([t EXCEPT !.mHp = 0], "Dead")
  <2>1. PICK t \in Facing(m) : h = changeMonsterState([t EXCEPT !.mHp = 0], "Dead") BY <1>6
  <2>2. t \in MonsterShape /\ t.mState = m.mState BY <1>1, FacingRight
  <2>3. /\ [t EXCEPT !.mHp = 0] \in MonsterShape /\ [t EXCEPT !.mHp = 0].mState = m.mState
        /\ [t EXCEPT !.mHp = 0].mHp = 0
    BY <1>4, <2>2 DEF MonsterShape
  <2>4. h \in MonsterShape /\ h.mState = "Dead" /\ h.mAnimFrame = 0 /\ h.mHp = 0
    BY <2>1, <2>3, ChangeMonsterState, StatesAre
  <2>5. QED BY <2>4, Begun DEF Rests
<1>7. CASE left # 0 /\ m.mState = "Stun" /\ \E t \in Facing(m) : h = Stunned(t)
  <2>1. PICK t \in Facing(m) : h = Stunned(t) BY <1>7
  <2>2. /\ h \in MonsterShape /\ h.mState = "Stun" /\ h.mHp = left /\ h.mAnimFrame = 0
        /\ h.mHitStunFrame = MONSTER_HIT_STUN_FRAME
    BY <1>5, <1>7, <2>1 DEF MonsterRight
  <2>3. QED BY <1>4, <1>7, <2>2, Begun DEF Rests
<1>8. CASE left # 0 /\ m.mState # "Stun" /\ \E t \in Facing(m) : h = changeMonsterState(Stunned(t), "Stun")
  <2>1. PICK t \in Facing(m) : h = changeMonsterState(Stunned(t), "Stun") BY <1>8
  <2>2. /\ h \in MonsterShape /\ h.mState = "Stun" /\ h.mHp = left /\ h.mAnimFrame = 0
        /\ h.mHitStunFrame = MONSTER_HIT_STUN_FRAME
    BY <1>5, <1>8, <2>1, ChangeMonsterState, StatesAre
  <2>3. QED BY <1>4, <1>8, <2>2, Begun DEF Rests
<1>9. QED BY <1>3, <1>6, <1>7, <1>8

-----------------------------------------------------------------------------
(* The watcher's actor of a monster.                                       *)

(* No actor is shown. *)
LEMMA HiddenRight == ActorRight(Hidden) /\ ~Hidden.shown
<1>1. (CHOOSE d \in Directions : TRUE) \in Directions BY MonsterAssumption
<1>2. 0 \in 0 .. MONSTER_MAX_HP BY MonsterAssumption
<1>3. Hidden \in ActorShape BY <1>1, <1>2 DEF Hidden, ActorShape, Sprites
<1>4. QED BY <1>3 DEF Hidden, ActorRight

(* A new actor lies down if its monster is dead, and stands. *)
LEMMA NewActorRight ==
  ASSUME NEW m, MonsterRight(m)
  PROVE  LET v == NewActor(m) IN
         /\ ActorRight(v) /\ v.shown = TRUE /\ v.mBMove = FALSE /\ v.mHitTimer = FALSE
         /\ v.mHp = m.mHp /\ v.mDirection = m.mDirection
<1>1. m.mHp \in 0 .. MONSTER_MAX_HP /\ m.mDirection \in Directions BY DEF MonsterRight, MonsterShape
<1>2. NewActor(m) \in ActorShape BY <1>1 DEF NewActor, ActorShape, Sprites
<1>3. QED BY <1>1, <1>2 DEF NewActor, ActorRight

(* A MOVE_START for an actor that stands and whose monster lives. *)
LEMMA MoveStartRight ==
  ASSUME NEW v, ActorRight(v), v.shown, ~v.mBMove, v.mHp # 0, NEW m, MonsterRight(m), Walks(m)
  PROVE  LET w == onMonsterMoveStart(v, m) IN
         /\ ActorRight(w) /\ w.shown /\ ShownAs(w, m) /\ w.mHp = v.mHp
<1> DEFINE w == onMonsterMoveStart(v, m)
<1>1. m.mDirection \in Directions BY DEF MonsterRight, MonsterShape
<1>2. v \in ActorShape BY DEF ActorRight
<1>3. v.ok = TRUE BY <1>2 DEF ActorShape
<1>4. (v.ok /\ ~v.mBMove) = TRUE BY <1>3
<1>5. w = [v EXCEPT !.ok = TRUE, !.mBMove = TRUE, !.mDirection = m.mDirection, !.mSprite = "Move"]
  BY <1>4 DEF onMonsterMoveStart
<1> HIDE DEF w
<1>6. /\ w \in ActorShape /\ w.mBMove = TRUE /\ w.mDirection = m.mDirection
      /\ w.mSprite = "Move" /\ w.mHp = v.mHp /\ w.shown = v.shown /\ w.mHitTimer = v.mHitTimer
  BY <1>1, <1>2, <1>5 DEF ActorShape, Sprites
<1>7. ActorRight(w) BY <1>6 DEF ActorRight
<1>8. QED BY <1>6, <1>7 DEF ShownAs, w

(* A MOVE_STOP. *)
LEMMA MoveStopRight ==
  ASSUME NEW v, ActorRight(v), v.shown, v.mHp # 0, NEW m, MonsterRight(m)
  PROVE  LET w == onMonsterMoveStop(v, m) IN
         /\ ActorRight(w) /\ w.shown /\ ~w.mBMove /\ w.mDirection = m.mDirection /\ w.mHp = v.mHp
<1> DEFINE w == onMonsterMoveStop(v, m)
<1>1. m.mDirection \in Directions BY DEF MonsterRight, MonsterShape
<1>2. v \in ActorShape BY DEF ActorRight
<1>3. /\ w \in ActorShape /\ w.mBMove = FALSE /\ w.mDirection = m.mDirection
      /\ w.mSprite = "Idle" /\ w.mHp = v.mHp /\ w.shown = v.shown /\ w.mHitTimer = v.mHitTimer
  BY <1>1, <1>2 DEF ActorShape, Sprites, onMonsterMoveStop
<1> HIDE DEF w
<1>4. ActorRight(w) BY <1>3 DEF ActorRight
<1>5. QED BY <1>3, <1>4 DEF w

(* An attack changes what is played only. *)
LEMMA AttackRight ==
  ASSUME NEW v, ActorRight(v), v.shown, v.mHp # 0
  PROVE  LET w == onMonsterAttack(v) IN
         /\ ActorRight(w) /\ w.shown /\ w.mBMove = v.mBMove /\ w.mDirection = v.mDirection
         /\ w.mHp = v.mHp
<1> DEFINE w == onMonsterAttack(v)
<1>1. v \in ActorShape BY DEF ActorRight
<1>2. /\ w \in ActorShape /\ w.mBMove = v.mBMove /\ w.mDirection = v.mDirection
      /\ w.mSprite = "Attack" /\ w.mHp = v.mHp /\ w.shown = v.shown /\ w.mHitTimer = v.mHitTimer
  BY <1>1 DEF ActorShape, Sprites, onMonsterAttack
<1> HIDE DEF w
<1>3. ActorRight(w) BY <1>2 DEF ActorRight
<1>4. QED BY <1>2, <1>3 DEF w

(* A blow stops the actor and lays it down if it kills. *)
LEMMA DamagedRight ==
  ASSUME NEW v, ActorRight(v), v.shown, NEW m, MonsterRight(m)
  PROVE  LET w == OnDamaged(v, m) IN
         /\ ActorRight(w) /\ w.shown = TRUE /\ w.mBMove = FALSE /\ w.mDirection = m.mDirection
         /\ w.mHp = m.mHp
<1> DEFINE w == OnDamaged(v, m)
<1>1. m.mDirection \in Directions /\ m.mHp \in 0 .. MONSTER_MAX_HP BY DEF MonsterRight, MonsterShape
<1>2. v \in ActorShape BY DEF ActorRight
<1> DEFINE timer == m.mHp > 0
           sprite == IF m.mHp = 0 THEN "Down" ELSE "Stun"
<1>3. /\ timer \in BOOLEAN /\ (timer => m.mHp > 0)
      /\ sprite \in Sprites /\ (sprite = "Down" <=> m.mHp = 0)
  BY DEF Sprites
<1>4. w = [v EXCEPT !.mBMove = FALSE, !.mDirection = m.mDirection, !.mHp = m.mHp,
                    !.mSprite = sprite, !.mHitTimer = timer]
  BY DEF OnDamaged
<1> HIDE DEF w, timer, sprite
<1>5. /\ w \in ActorShape /\ w.mBMove = FALSE /\ w.mDirection = m.mDirection
      /\ w.mSprite = sprite /\ w.mHp = m.mHp /\ w.shown = v.shown /\ w.mHitTimer = timer
  <2>1. w \in ActorShape BY <1>1, <1>2, <1>3, <1>4 DEF ActorShape
  <2>2. DOMAIN v = {"shown", "mBMove", "mHp", "mDirection", "mSprite", "mHitTimer", "ok"}
    BY <1>2 DEF ActorShape
  <2>3. w.mBMove = FALSE /\ w.mDirection = m.mDirection /\ w.mSprite = sprite /\ w.mHp = m.mHp
    BY <1>4, <2>2
  <2>4. w.shown = v.shown BY <1>4, <2>2
  <2>5. w.mHitTimer = timer BY <1>4, <2>2
  <2>6. QED BY <2>1, <2>3, <2>4, <2>5
<1>6. w.shown = TRUE BY <1>2, <1>5 DEF ActorShape
<1>7. ActorRight(w) BY <1>3, <1>5, <1>6 DEF ActorRight
<1>8. QED BY <1>5, <1>6, <1>7 DEF w

(* A monster that comes into sight is shown as it is. *)
LEMMA SpawnRight ==
  ASSUME NEW m, MonsterRight(m)
  PROVE  ActorRight(onMonsterSpawn(m)) /\ InStep(onMonsterSpawn(m), m)
<1> DEFINE v == NewActor(m)
           w == onMonsterSpawn(m)
<1>1. /\ ActorRight(v) /\ v.shown = TRUE /\ v.mBMove = FALSE /\ v.mHitTimer = FALSE
      /\ v.mHp = m.mHp /\ v.mDirection = m.mDirection
  BY NewActorRight
<1> HIDE DEF v
<1>2. m.mState \in eMonsterState BY DEF MonsterRight, MonsterShape
<1>3. CASE m.mState \in Moving
  <2>1. w = onMonsterMoveStart(v, m) BY <1>3 DEF onMonsterSpawn, v, Moving
  <2>2. v.mHp # 0 /\ Walks(m) BY <1>1, <1>3 DEF MonsterRight, Moving, Walks
  <2>3. ActorRight(w) /\ ShownAs(w, m) /\ w.mHp = m.mHp BY <1>1, <2>1, <2>2, MoveStartRight
  <2>4. QED BY <2>3 DEF InStep
<1>4. CASE m.mState = "Stun"
  <2>1. w = OnDamaged(v, m) BY <1>4 DEF onMonsterSpawn, v, Moving
  <2> DEFINE u == OnDamaged(v, m)
  <2>2. ActorRight(u) /\ u.mBMove = FALSE /\ u.mDirection = m.mDirection /\ u.mHp = m.mHp
    BY <1>1, DamagedRight
  <2> HIDE DEF u
  <2>3. w = u BY <2>1 DEF u
  <2>4. QED BY <1>4, <2>2, <2>3 DEF InStep, ShownAs, Walks, Moving
<1>5. CASE m.mState = "Attack"
  <2>1. w = onMonsterAttack(v) BY <1>5 DEF onMonsterSpawn, v, Moving
  <2>2. v.mHp # 0 BY <1>1, <1>5 DEF MonsterRight
  <2>3. ActorRight(w) /\ w.mBMove = FALSE /\ w.mDirection = m.mDirection /\ w.mHp = m.mHp
    BY <1>1, <2>1, <2>2, AttackRight
  <2>4. QED BY <1>5, <2>3 DEF InStep, ShownAs, Walks, Moving
<1>6. CASE m.mState \in {"Idle", "Dead"}
  <2>1. w = v BY <1>6 DEF onMonsterSpawn, v, Moving
  <2>2. QED BY <1>1, <1>6, <2>1 DEF InStep, ShownAs, Walks, Moving
<1>7. QED BY <1>2, <1>3, <1>4, <1>5, <1>6, StatesAre DEF Moving, w

(* What the watcher is told of a blow. *)
LEMMA BlowTold ==
  ASSUME NEW v, ActorRight(v), NEW m, MonsterRight(m), m.mState \in {"Stun", "Dead"}
  PROVE  LET w == broadcastMonsterDamaged(v, m) IN ActorRight(w) /\ InStep(w, m)
<1> DEFINE w == broadcastMonsterDamaged(v, m)
<1>1. CASE ~v.shown
  <2>1. w = v BY <1>1 DEF broadcastMonsterDamaged
  <2>2. QED BY <1>1, <2>1 DEF InStep, ShownAs
<1>2. CASE v.shown
  <2> DEFINE u == OnDamaged(v, m)
  <2>1. /\ ActorRight(u) /\ u.shown = TRUE /\ u.mBMove = FALSE /\ u.mDirection = m.mDirection
        /\ u.mHp = m.mHp
    BY <1>2, DamagedRight
  <2>2. w = [u EXCEPT !.ok = @ /\ v.shown] BY <1>2 DEF broadcastMonsterDamaged, onMonsterDamaged
  <2> HIDE DEF u
  <2>3. u \in ActorShape /\ u.ok = TRUE BY <2>1 DEF ActorRight, ActorShape
  <2>4. (u.ok /\ v.shown) = u.ok BY <1>2, <2>3
  <2>5. w = [u EXCEPT !.ok = u.ok] BY <2>2, <2>4
  <2>6. w = u BY <2>3, <2>5 DEF ActorShape
  <2>7. QED BY <2>1, <2>6 DEF InStep, ShownAs, Walks, Moving
<1>3. QED BY <1>1, <1>2

(* A frame of the client in which the timer runs out. *)
LEMMA TimerRight ==
  ASSUME NEW v, ActorRight(v), v.mHitTimer
  PROVE  LET w == actorUpdate(v) IN
         /\ ActorRight(w) /\ w.shown = v.shown /\ w.mBMove = v.mBMove
         /\ w.mDirection = v.mDirection /\ w.mHp = v.mHp
<1> DEFINE w == actorUpdate(v)
<1>1. v \in ActorShape /\ v.mHp > 0 BY Zenon DEF ActorRight
<1>2. PICK s \in {"Move", "Idle"} : w = [v EXCEPT !.mHitTimer = FALSE, !.mSprite = s]
  BY DEF actorUpdate
<1> HIDE DEF w
<1>3. /\ w \in ActorShape /\ w.mBMove = v.mBMove /\ w.mDirection = v.mDirection
      /\ w.mSprite = s /\ w.mHp = v.mHp /\ w.shown = v.shown /\ w.mHitTimer = FALSE
  BY <1>1, <1>2 DEF ActorShape, Sprites
<1>4. ActorRight(w)
  <2>1. w.mHp # 0 /\ w.mSprite # "Down" BY <1>1, <1>3
  <2>2. QED BY <1>3, <2>1 DEF ActorRight
<1>5. QED BY <1>3, <1>4 DEF w

(* monsterProc: once it has been told of its monster's update, an actor is as *)
(* the monster is.                                                            *)
LEMMA AnnouncedRight ==
  ASSUME NEW v, ActorRight(v), NEW m, MonsterRight(m), NEW b, ToTell(v, m, b), Face(m) # b,
         NEW w \in Announced(v, m, b)
  PROVE  ActorRight(w) /\ InStep(w, m)
<1> DEFINE stopped == broadcastMonsterMoveStop(v, m)
<1>1. /\ m.mState \in eMonsterState /\ m.mState \notin {"Stun", "Dead"}
      /\ m.mHp # 0
  BY DEF ToTell, MonsterRight, MonsterShape
<1>2. CASE m.mState = "Idle" /\ b.mState = "Dead"
  <2> DEFINE gone == broadcastMonsterDespawn(v)
  <2>1. w \in {gone, onMonsterSpawn(m)} BY <1>2 DEF Announced, broadcastMonsterSpawn, Moving
  <2>2. ActorRight(gone) /\ ~gone.shown
    BY HiddenRight DEF broadcastMonsterDespawn, onMonsterDespawn
  <2>3. ActorRight(onMonsterSpawn(m)) /\ InStep(onMonsterSpawn(m), m) BY SpawnRight
  <2>4. QED BY <2>1, <2>2, <2>3 DEF InStep, ShownAs
<1>3. CASE ~(m.mState = "Idle" /\ b.mState = "Dead") /\ ~v.shown
  <2>1. stopped = v BY <1>3 DEF broadcastMonsterMoveStop
  <2>2. w = v
    BY <1>1, <1>3, <2>1, StatesAre
    DEF Announced, broadcastMonsterMoveStart, broadcastMonsterAttack, Moving
  <2>3. QED BY <1>3, <2>2 DEF InStep, ShownAs
<1>4. CASE ~(m.mState = "Idle" /\ b.mState = "Dead") /\ v.shown
  <2>1. v.mHp = m.mHp /\ v.mHp # 0 BY <1>1, <1>4 DEF ToTell
  <2>2. stopped = onMonsterMoveStop(v, m) BY <1>4 DEF broadcastMonsterMoveStop
  <2>3. /\ ActorRight(stopped) /\ stopped.shown /\ ~stopped.mBMove
        /\ stopped.mDirection = m.mDirection /\ stopped.mHp = m.mHp
    BY <1>4, <2>1, <2>2, MoveStopRight
  <2> HIDE DEF stopped
  <2>4. CASE m.mState \in Moving /\ b.mState \in Moving
    <3>1. w = onMonsterMoveStart(stopped, m)
      BY <2>3, <2>4 DEF Announced, broadcastMonsterMoveStart, stopped, Moving
    <3>2. ActorRight(w) /\ w.shown /\ ShownAs(w, m) /\ w.mHp = m.mHp
      BY <1>1, <2>3, <2>4, <3>1, MoveStartRight DEF Walks
    <3>3. QED BY <3>2 DEF InStep
  <2>5. CASE m.mState \in Moving /\ b.mState \notin Moving
    <3>1. w = onMonsterMoveStart(v, m)
      BY <1>4, <2>5 DEF Announced, broadcastMonsterMoveStart, Moving
    <3>2. ~v.mBMove BY <1>4, <2>5 DEF ToTell, ShownAs, Walks
    <3>3. ActorRight(w) /\ w.shown /\ ShownAs(w, m) /\ w.mHp = m.mHp
      BY <1>4, <2>1, <2>5, <3>1, <3>2, MoveStartRight DEF Walks
    <3>4. QED BY <3>3 DEF InStep
  <2>6. CASE m.mState = "Attack"
    <3>1. w = onMonsterAttack(stopped)
      BY <2>3, <2>6 DEF Announced, broadcastMonsterAttack, stopped, Moving
    <3>2. /\ ActorRight(w) /\ w.shown /\ w.mBMove = stopped.mBMove
          /\ w.mDirection = m.mDirection /\ w.mHp = m.mHp
      BY <1>1, <2>3, <3>1, AttackRight
    <3>3. QED BY <2>3, <2>6, <3>2 DEF InStep, ShownAs, Walks, Moving
  <2>7. CASE m.mState = "Idle"
    <3>1. w = stopped BY <1>4, <2>7 DEF Announced, stopped, Moving
    <3>2. QED BY <2>3, <2>7, <3>1 DEF InStep, ShownAs, Walks, Moving
  <2>8. QED BY <1>1, <2>4, <2>5, <2>6, <2>7, StatesAre DEF Moving
<1>5. QED BY <1>2, <1>3, <1>4

-----------------------------------------------------------------------------
(* The players.                                                            *)

(* The states a player may have, and the least and greatest of its counters. *)
LEMMA PlayerStates ==
  /\ {"Idle", "Move", "Attack", "Dead", "Stun"} \subseteq ePlayerState
  /\ \A s \in ePlayerState : s \in {"Idle", "Move", "Attack", "Dead", "Stun"}
  /\ 0 \in 0 .. PLAYER_ATTACK_TOTAL_FRAME - 1
  /\ 0 \in 0 .. PLAYER_MAX_HP /\ PLAYER_MAX_HP \in 0 .. PLAYER_MAX_HP
  /\ 0 \in 0 .. PLAYER_HIT_STUN_FRAME /\ PLAYER_HIT_STUN_FRAME \in 0 .. PLAYER_HIT_STUN_FRAME
BY PlayerAssumption DEF ePlayerState

(* changeState, from another state. *)
LEMMA ChangePlayerState ==
  ASSUME NEW p \in PlayerShape, NEW state \in ePlayerState, p.mState # state
  PROVE  LET q == changeState(p, state) IN
         /\ q \in PlayerShape /\ q.mState = state /\ q.mAnimFrame = 0
BY PlayerStates DEF PlayerShape, changeState

(* A frame: a swing of a connected player goes on by one frame or is over. *)
LEMMA PlayerFrame ==
  ASSUME NEW p \in PlayerShape, NEW c \in BOOLEAN
  PROVE  LET q == update(p, c) IN
         /\ q \in PlayerShape
         /\ c /\ q.mState = "Attack" =>
              p.mState = "Attack" /\ q.mAnimFrame = p.mAnimFrame + 1
<1> DEFINE q == update(p, c)
<1>1. CASE ~c
  <2>1. q = p BY <1>1 DEF update
  <2>2. QED BY <1>1, <2>1
<1>2. CASE c /\ p.mState = "Attack" /\ p.mAnimFrame + 1 >= PLAYER_ATTACK_TOTAL_FRAME
  <2>1. q = changeState(p, "Idle") BY <1>2 DEF update
  <2>2. p.mState # "Idle" /\ "Idle" \in ePlayerState BY <1>2, PlayerStates
  <2>3. changeState(p, "Idle") \in PlayerShape /\ changeState(p, "Idle").mState = "Idle"
    BY <2>2, ChangePlayerState
  <2>4. QED BY <2>1, <2>3
<1>3. CASE c /\ p.mState = "Attack" /\ ~(p.mAnimFrame + 1 >= PLAYER_ATTACK_TOTAL_FRAME)
  <2>1. q = [p EXCEPT !.mAnimFrame = @ + 1] BY <1>3 DEF update
  <2>2. p.mAnimFrame + 1 \in 0 .. PLAYER_ATTACK_TOTAL_FRAME - 1
    BY <1>3, PlayerAssumption DEF PlayerShape
  <2>3. q \in PlayerShape /\ q.mAnimFrame = p.mAnimFrame + 1 BY <2>1, <2>2 DEF PlayerShape
  <2>4. QED BY <1>3, <2>3
<1>4. CASE c /\ p.mState = "Stun"
  <2>1. CASE p.mHitStunFrame > 0
    <3>1. q = [p EXCEPT !.mHitStunFrame = @ - 1] BY <1>4, <2>1 DEF update
    <3>2. p.mHitStunFrame - 1 \in 0 .. PLAYER_HIT_STUN_FRAME
      BY <2>1, PlayerAssumption DEF PlayerShape
    <3>3. q \in PlayerShape /\ q.mState = "Stun" BY <1>4, <3>1, <3>2 DEF PlayerShape
    <3>4. QED BY <3>3
  <2>2. CASE ~(p.mHitStunFrame > 0)
    <3>1. q = changeState(p, "Idle") BY <1>4, <2>2 DEF update
    <3>2. q \in PlayerShape /\ q.mState = "Idle" BY <1>4, <3>1, PlayerStates, ChangePlayerState
    <3>3. QED BY <3>2
  <2>3. QED BY <2>1, <2>2
<1>5. CASE c /\ p.mState \notin {"Attack", "Stun"}
  <2>1. q = p BY <1>5 DEF update
  <2>2. QED BY <1>5, <2>1
<1>6. QED BY <1>1, <1>2, <1>3, <1>4, <1>5

(* A hit ends a swing. *)
LEMMA PlayerHurt ==
  ASSUME NEW p \in PlayerShape, p.mState # "Dead"
  PROVE  takeDamage(p) \in PlayerShape /\ takeDamage(p).mState # "Attack"
<1> DEFINE left == IF p.mHp > MONSTER_ATTACK_DAMAGE THEN p.mHp - MONSTER_ATTACK_DAMAGE ELSE 0
           hurt == [p EXCEPT !.mHp = left]
           stunned == [hurt EXCEPT !.mHitStunFrame = PLAYER_HIT_STUN_FRAME]
           q == takeDamage(p)
<1>1. left \in 0 .. PLAYER_MAX_HP BY PlayerAssumption DEF PlayerShape
<1>2. /\ left = 0 => q = changeState(hurt, "Dead")
      /\ left # 0 /\ p.mState = "Stun" => q = stunned
      /\ left # 0 /\ p.mState # "Stun" => q = changeState(stunned, "Stun")
  BY DEF takeDamage
<1> HIDE DEF left, q
<1>3. hurt \in PlayerShape /\ hurt.mState = p.mState BY <1>1 DEF PlayerShape
<1>4. stunned \in PlayerShape /\ stunned.mState = p.mState
  BY <1>3, PlayerStates DEF PlayerShape
<1> HIDE DEF hurt, stunned
<1>5. CASE left = 0
  <2>1. q \in PlayerShape /\ q.mState = "Dead"
    BY <1>2, <1>3, <1>5, PlayerStates, ChangePlayerState
  <2>2. QED BY <2>1 DEF q
<1>6. CASE left # 0 /\ p.mState = "Stun" BY <1>2, <1>4, <1>6 DEF q
<1>7. CASE left # 0 /\ p.mState # "Stun"
  <2>1. q \in PlayerShape /\ q.mState = "Stun"
    BY <1>2, <1>4, <1>7, PlayerStates, ChangePlayerState
  <2>2. QED BY <2>1 DEF q
<1>8. QED BY <1>5, <1>6, <1>7

(* A packet begins a swing with its first frame, or leaves a swing alone. *)
LEMMA PlayerAsks ==
  ASSUME NEW p \in PlayerShape
  PROVE  /\ \A q \in {handleMoveStart(p), handleMoveStop(p)} :
              q \in PlayerShape /\ (q.mState = "Attack" => q = p)
         /\ handleAttackReq(p) \in PlayerShape
         /\ AttackTaken(p) => handleAttackReq(p).mState = "Attack"
<1>1. handleMoveStart(p) \in PlayerShape /\ (handleMoveStart(p).mState = "Attack" => handleMoveStart(p) = p)
  BY PlayerStates, ChangePlayerState DEF handleMoveStart, StartTaken
<1>2. handleMoveStop(p) \in PlayerShape /\ (handleMoveStop(p).mState = "Attack" => handleMoveStop(p) = p)
  BY PlayerStates, ChangePlayerState DEF handleMoveStop
<1>3. handleAttackReq(p) \in PlayerShape /\ (AttackTaken(p) => handleAttackReq(p).mState = "Attack")
  BY PlayerStates, ChangePlayerState DEF handleAttackReq, AttackTaken
<1>4. QED BY <1>1, <1>2, <1>3

-----------------------------------------------------------------------------
(* Steps that leave parts of the state alone.                              *)

(* The monsters and what is shown of them are as they were, and so is which of *)
(* them the frame has updated.                                                 *)
LEMMA MonstersKept ==
  ASSUME IInv, UNCHANGED <<monsterVars, view>>,
         \A m \in Monsters : (Updated(m)' <=> Updated(m)) /\ (Unsorted(m)' <=> Unsorted(m))
  PROVE  MonstersRight' /\ Told' /\ Knocked'
<1>1. UNCHANGED <<monster, before, moved, view>> BY DEF monsterVars
<1>2. MonstersRight' BY <1>1 DEF IInv, MonstersRight
<1>3. Told' BY <1>1 DEF IInv, Told
<1>4. Knocked' BY <1>1 DEF IInv, Knocked
<1>5. QED BY <1>2, <1>3, <1>4

(* The same within a loop. *)
LEMMA MonstersAlone ==
  ASSUME IInv, UNCHANGED <<monsterVars, view, phase, todo>>
  PROVE  MonstersRight' /\ Told' /\ Knocked'
BY MonstersKept DEF Updated, Unsorted

(* The items are as they were. *)
LEMMA DropsKept == ASSUME IInv, UNCHANGED itemVars PROVE Drops'
BY DEF IInv, Drops, Ground, itemVars, sightVars

(* The players are as they were. *)
LEMMA PlayersKept ==
  ASSUME IInv, UNCHANGED <<stay, mBConnect, player, target, saved, hits>>
  PROVE  PlayersRight' /\ Swings'
BY DEF IInv, PlayersRight, Swings

(* Nothing moves in the frame. *)
LEMMA PhasesKept == ASSUME IInv, UNCHANGED <<phase, todo, stay>> PROVE Phases'
BY DEF IInv, Phases, players

(* An element is visited. *)
LEMMA PhasesVisited ==
  ASSUME IInv, UNCHANGED stay, NEW p, NEW x, Visit(p, x), p # "messages" PROVE Phases'
BY DEF IInv, Phases, players, Visit

-----------------------------------------------------------------------------
(* The items.                                                              *)

(* What lies on the ground is finite. *)
LEMMA GroundFinite == IsFiniteSet(Ground) /\ Cardinality(Ground) \in Nat
<1>1. Ground \in SUBSET Items BY DEF Ground
<1>2. QED BY <1>1, MonsterAssumption, FS_Subset, FS_CardinalityType

(* An item is dropped by one that dies. *)
LEMMA DropItem ==
  ASSUME IInv, dropItem, kills' = kills + 1, UNCHANGED <<expired, mInventory>>
  PROVE  Drops'
<1>1. PICK i \in Items : /\ item[i] = "unused" /\ item' = [item EXCEPT ![i] = "ground"]
                         /\ broadcastItemSpawn(i)
  BY DEF dropItem
<1>2. item' \in [Items -> {"unused", "ground", "gone"}] BY <1>1 DEF IInv, Drops
<1>3. i \notin Ground /\ Ground' = Ground \cup {i} BY <1>1 DEF IInv, Drops, Ground
<1>4. Cardinality(Ground') = Cardinality(Ground) + 1 BY <1>3, GroundFinite, FS_AddElement
<1>5. /\ near \subseteq Ground /\ mItemActors = near /\ ~asserted /\ i \notin near
  BY <1>3 DEF IInv, Drops
<1>6. near' \subseteq Ground' /\ mItemActors' = near' /\ ~asserted'
  <2>1. CASE near' = near \union {i} /\ onItemSpawn({i})
    <3>1. asserted' = (asserted \/ {i} \cap mItemActors # {}) /\ mItemActors' = mItemActors \union {i}
      BY <2>1 DEF onItemSpawn
    <3>2. {i} \cap mItemActors = {} BY <1>5
    <3>3. ~asserted' BY <1>5, <3>1, <3>2
    <3>4. QED BY <1>3, <1>5, <2>1, <3>1, <3>3
  <2>2. CASE UNCHANGED sightVars BY <1>3, <1>5, <2>2 DEF sightVars
  <2>3. QED BY <1>1, <2>1, <2>2 DEF broadcastItemSpawn
<1>7. /\ deaths' = deaths + 1 /\ kills' = kills + 1 /\ expired' = expired
      /\ mInventory' = mInventory
  BY DEF dropItem
<1>8. QED BY <1>2, <1>4, <1>6, <1>7, GroundFinite DEF IInv, Drops

(* Items that expire or are looted are taken away. *)
LEMMA ItemsTaken ==
  ASSUME IInv, NEW old \in SUBSET Ground, broadcastItemDespawn(old), UNCHANGED <<deaths, kills>>,
         item' = [i \in Items |-> IF i \in old THEN "gone" ELSE item[i]],
         expired' \in Nat, mInventory' \in Nat,
         expired' + mInventory' = expired + mInventory + Cardinality(old)
  PROVE  Drops'
<1>1. item' \in [Items -> {"unused", "ground", "gone"}] BY DEF IInv, Drops
<1>2. Ground' = Ground \ old BY DEF Ground
<1>3. IsFiniteSet(old) /\ Cardinality(old) \in Nat BY GroundFinite, FS_Subset, FS_CardinalityType
<1>4. Cardinality(Ground') = Cardinality(Ground) - Cardinality(old)
  <2>1. Ground \cap old = old OBVIOUS
  <2>2. Cardinality(Ground \ old) = Cardinality(Ground) - Cardinality(Ground \cap old)
    BY GroundFinite, FS_Difference
  <2>3. QED BY <1>2, <2>1, <2>2
<1>5. near \subseteq Ground /\ mItemActors = near /\ ~asserted BY DEF IInv, Drops
<1>6. near' = near \ old /\ mItemActors' = mItemActors \ (old \cap near) /\ asserted' = asserted
  BY DEF broadcastItemDespawn, onItemDespawn
<1>7. near' \subseteq Ground' /\ mItemActors' = near' /\ ~asserted' BY <1>2, <1>5, <1>6
<1>8. QED BY <1>1, <1>3, <1>4, <1>7, GroundFinite DEF IInv, Drops

(* The watcher changes sector. *)
LEMMA ItemsAround ==
  ASSUME IInv, NEW items \in SUBSET Ground, sendItemBatches(items),
         UNCHANGED <<item, mInventory, deaths, expired, kills>>
  PROVE  Drops'
<1>1. Ground' = Ground BY DEF Ground
<1>2. near \subseteq Ground /\ mItemActors = near /\ ~asserted BY DEF IInv, Drops
<1>3. /\ near' = items
      /\ asserted' = (asserted \/ (items \ near) \cap mItemActors # {})
      /\ mItemActors' = (mItemActors \union (items \ near)) \ (near \ items)
  BY DEF sendItemBatches
<1>4. (items \ near) \cap mItemActors = {} BY <1>2
<1>5. ~asserted' BY <1>2, <1>3, <1>4
<1>6. mItemActors' = near' /\ near' \subseteq Ground' BY <1>1, <1>2, <1>3
<1>7. QED BY <1>1, <1>5, <1>6 DEF IInv, Drops

-----------------------------------------------------------------------------
(* The steps.                                                              *)

(* A player is cut off. *)
LEMMA DisconnectStep == ASSUME IInv, NEW p \in Players, Disconnect(p) PROVE IInv'
<1>1. /\ UNCHANGED <<phase, todo, stay, player, target, saved, hits>>
      /\ UNCHANGED <<monsterVars, view>> /\ UNCHANGED itemVars
      /\ mBConnect' = [mBConnect EXCEPT ![p] = FALSE]
  BY DEF Disconnect
<1>2. PlayersRight' BY <1>1 DEF IInv, PlayersRight
<1>3. \A q \in Players : mBConnect'[q] => mBConnect[q] BY <1>1 DEF IInv, PlayersRight
<1>4. Swings' BY <1>1, <1>3 DEF IInv, Swings
<1>5. Phases' BY <1>1, PhasesKept
<1>6. MonstersRight' /\ Told' /\ Knocked' BY <1>1, MonstersAlone
<1>7. QED BY <1>1, <1>2, <1>4, <1>5, <1>6, DropsKept DEF IInv

(* A loop over elements begins. *)
LEMMA LoopStep == ASSUME IInv, BeginFrame \/ NextLoop PROVE IInv'
<1>1. /\ todo = {} /\ UNCHANGED playerVars /\ UNCHANGED <<monsterVars, view>>
      /\ UNCHANGED itemVars /\ UNCHANGED hits
      /\ \/ phase = "messages" /\ phase' = "players" /\ todo' = players
         \/ phase = "monsters" /\ phase' = "monsterSectors" /\ todo' = Monsters
         \/ phase = "packets" /\ phase' = "announce" /\ todo' = Monsters
  BY DEF BeginFrame, NextLoop, Loop
<1>2. UNCHANGED <<stay, mBConnect, player, target, saved, hits>> BY <1>1 DEF playerVars
<1>3. Phases' BY <1>1, <1>2 DEF Phases, players
<1>4. \A m \in Monsters : (Updated(m)' <=> Updated(m)) /\ (Unsorted(m)' <=> Unsorted(m))
  BY <1>1 DEF Updated, Unsorted
<1>5. MonstersRight' /\ Told' /\ Knocked' BY <1>1, <1>4, MonstersKept
<1>6. QED BY <1>1, <1>2, <1>3, <1>5, DropsKept, PlayersKept DEF IInv

(* A blow that hits: the monster is stunned or killed, and the watcher told. *)
LEMMA BlowStep ==
  ASSUME IInv, NEW p \in Players, NEW m \in Monsters, phase = "players",
         UNCHANGED <<phase, before, expired, mInventory>>,
         monster[m].mState # "Dead", Blow(p, m)
  PROVE  MonstersRight' /\ Told' /\ Knocked' /\ Drops'
<1>1. PICK hurt \in takeMonsterDamage(monster[m], p) :
        /\ monster' = [monster EXCEPT ![m] = hurt]
        /\ view' = [view EXCEPT ![m] = broadcastMonsterDamaged(@, hurt)]
        /\ IF hurt.mState = "Dead"
           THEN dropItem /\ kills' = kills + 1
           ELSE UNCHANGED <<item, sightVars, deaths, kills>>
  BY DEF Blow
<1>2. moved' = [moved EXCEPT ![m] = TRUE] /\ before' = before BY DEF Blow
<1>3. /\ monster \in [Monsters -> MonsterShape] /\ view \in [Monsters -> ActorShape]
      /\ before \in [Monsters -> Faces] /\ DOMAIN moved = Monsters
      /\ \A x \in Monsters : MonsterRight(monster[x]) /\ ActorRight(view[x])
  BY DEF IInv, MonstersRight
<1>4. MonsterRight(hurt) /\ hurt.mState \in {"Stun", "Dead"} /\ Rests(hurt)
  BY <1>3, HurtRight
<1> DEFINE told == broadcastMonsterDamaged(view[m], hurt)
<1>5. ActorRight(told) /\ InStep(told, hurt) BY <1>3, <1>4, BlowTold
<1>6. view' = [view EXCEPT ![m] = told] BY <1>1
<1> HIDE DEF told
<1>7. hurt \in MonsterShape /\ told \in ActorShape BY <1>4, <1>5 DEF MonsterRight, ActorRight
<1>8. /\ monster'[m] = hurt /\ view'[m] = told
      /\ \A x \in Monsters : x # m => /\ monster'[x] = monster[x] /\ view'[x] = view[x]
                                      /\ moved'[x] = moved[x]
  BY <1>1, <1>2, <1>3, <1>6
<1>9. MonstersRight'
  BY <1>1, <1>2, <1>3, <1>4, <1>5, <1>6, <1>7, <1>8 DEF MonstersRight
<1>10. \A x \in Monsters : ~Updated(x) /\ ~Updated(x)' /\ ~Unsorted(x) /\ ~Unsorted(x)'
  BY DEF Updated, Unsorted
<1>11. Told' BY <1>5, <1>8, <1>10 DEF IInv, Told
<1>12. Knocked' BY <1>4, <1>8, <1>10 DEF IInv, Knocked
<1>13. Drops'
  <2>1. CASE hurt.mState = "Dead" BY <1>1, <2>1, DropItem
  <2>2. CASE hurt.mState # "Dead"
    <3>1. UNCHANGED itemVars BY <1>1, <2>2 DEF itemVars
    <3>2. QED BY <3>1, DropsKept
  <2>3. QED BY <2>1, <2>2
<1>14. QED BY <1>9, <1>11, <1>12, <1>13

(* A frame of a player, and its blow if its swing hits in it. *)
LEMMA PlayerUpdateStep == ASSUME IInv, NEW p \in Players, PlayerUpdate(p) PROVE IInv'
<1> DEFINE q == update(player[p], mBConnect[p])
<1>1. /\ Visit("players", p) /\ player' = [player EXCEPT ![p] = q]
      /\ UNCHANGED <<stay, mBConnect, saved, mInventory, before, expired>>
  BY DEF PlayerUpdate
<1>2. /\ phase = "players" /\ phase' = "players" /\ p \in todo /\ todo' = todo \ {p}
  BY <1>1 DEF Visit
<1>3. /\ player \in [Players -> PlayerShape] /\ mBConnect \in [Players -> BOOLEAN]
      /\ target \in [Players -> Monsters \union {NoMonster}]
  BY DEF IInv, PlayersRight
<1>4. /\ q \in PlayerShape
      /\ mBConnect[p] /\ q.mState = "Attack" =>
           player[p].mState = "Attack" /\ q.mAnimFrame = player[p].mAnimFrame + 1
  BY <1>3, PlayerFrame
<1> HIDE DEF q
<1>5. player' \in [Players -> PlayerShape] /\ player'[p] = q
      /\ \A x \in Players : x # p => player'[x] = player[x]
  BY <1>1, <1>3, <1>4
<1>6. Phases' BY <1>1, PhasesVisited
<1>7. hits \in [Players -> Nat] /\ (mBConnect[p] => Swung(player[p], hits[p])) BY DEF IInv, Swings
<1>8. player[p].mAnimFrame \in Nat /\ q.mAnimFrame \in Nat
  <2>1. \A s \in PlayerShape : s.mAnimFrame \in 0 .. PLAYER_ATTACK_TOTAL_FRAME - 1
    BY DEF PlayerShape
  <2>2. \A i \in 0 .. PLAYER_ATTACK_TOTAL_FRAME - 1 : i \in Nat BY PlayerAssumption
  <2>3. player[p] \in PlayerShape BY <1>3
  <2>4. QED BY <1>4, <2>1, <2>2, <2>3
(* Its hits after the frame. *)
<1>9. ASSUME NEW h \in Nat, hits' = [hits EXCEPT ![p] = h], mBConnect[p] => Swung(q, h)
      PROVE  Swings'
  <2>1. hits' \in [Players -> Nat] BY <1>7, <1>9
  <2>2. ASSUME NEW x \in Players, mBConnect'[x] PROVE Swung(player'[x], hits'[x])
    <3>1. mBConnect[x] BY <1>1, <2>2
    <3>2. CASE x = p
      <4>1. hits'[x] = h /\ player'[x] = q BY <1>5, <1>7, <1>9, <3>2
      <4>2. QED BY <1>9, <3>1, <3>2, <4>1
    <3>3. CASE x # p
      <4>1. hits'[x] = hits[x] /\ player'[x] = player[x] BY <1>5, <1>7, <1>9, <3>3
      <4>2. QED BY <3>1, <4>1 DEF IInv, Swings
    <3>4. QED BY <3>2, <3>3
  <2>3. QED BY <2>1, <2>2 DEF Swings
<1>10. CASE Strikes(q)
  <2>1. processPlayerAttackHit(p) BY <1>5, <1>10 DEF PlayerUpdate
  <2>2. q.mState = "Attack" /\ q.mAnimFrame = PLAYER_ATTACK_AWINDUP_FRAME BY <1>10 DEF Strikes
  <2>3. mBConnect[p] => hits[p] = 0
    BY <1>4, <1>7, <1>8, <2>2, PlayerAssumption DEF Swung
  <2>4. ~(q.mAnimFrame < PLAYER_ATTACK_AWINDUP_FRAME) BY <2>2, PlayerAssumption
  <2>5. CASE /\ target[p] # NoMonster /\ monster[target[p]].mState \notin {"Dead", "Return"}
             /\ Blow(p, target[p])
    <3>1. target[p] \in Monsters BY <1>3, <2>5
    <3>2. MonstersRight' /\ Told' /\ Knocked' /\ Drops' BY <1>1, <1>2, <2>5, <3>1, BlowStep
    <3>3. hits' = [hits EXCEPT ![p] = IF @ < 2 THEN @ + 1 ELSE 2] /\ target' = target
      BY <2>5 DEF Blow
    <3>4. PICK h \in Nat : hits' = [hits EXCEPT ![p] = h] /\ (hits[p] = 0 => h = 1)
      <4> DEFINE h == IF hits[p] < 2 THEN hits[p] + 1 ELSE 2
      <4>1. h \in Nat /\ (hits[p] = 0 => h = 1) BY <1>7
      <4>2. hits' = [hits EXCEPT ![p] = h] BY <3>3
      <4>3. QED BY <4>1, <4>2
    <3>5. mBConnect[p] => Swung(q, h) BY <2>3, <2>4, <3>4 DEF Swung
    <3>6. Swings' BY <1>9, <3>4, <3>5
    <3>7. PlayersRight' BY <1>1, <1>5, <3>3 DEF IInv, PlayersRight
    <3>8. QED BY <1>6, <3>2, <3>6, <3>7 DEF IInv
  <2>6. CASE /\ \E m \in {target[p], NoMonster} : target' = [target EXCEPT ![p] = m]
             /\ UNCHANGED <<monster, moved, item, sightVars, deaths, kills, view, hits>>
    <3>1. UNCHANGED itemVars BY <1>1, <2>6 DEF itemVars
    <3>2. UNCHANGED <<monsterVars, view>> BY <1>1, <2>6 DEF monsterVars
    <3>3. \A m \in Monsters : (Updated(m)' <=> Updated(m)) /\ (Unsorted(m)' <=> Unsorted(m))
      BY <1>2 DEF Updated, Unsorted
    <3>4. MonstersRight' /\ Told' /\ Knocked' BY <3>2, <3>3, MonstersKept
    <3>5. target' \in [Players -> Monsters \union {NoMonster}] BY <1>3, <2>6
    <3>6. PlayersRight' BY <1>1, <1>5, <3>5 DEF IInv, PlayersRight
    <3>7. hits' = [hits EXCEPT ![p] = hits[p]] /\ hits[p] \in Nat BY <1>7, <2>6
    <3>8. mBConnect[p] => Swung(q, hits[p]) BY <2>3, <2>4 DEF Swung
    <3>9. Swings' BY <1>9, <3>7, <3>8
    <3>10. QED BY <1>6, <3>1, <3>4, <3>6, <3>9, DropsKept DEF IInv
  <2>7. QED
    <3>1. CASE target' = [target EXCEPT ![p] = IF @ # NoMonster /\ monster[@].mState \in {"Dead", "Return"}
                                        THEN NoMonster ELSE @]
      <4>1. \E m \in {target[p], NoMonster} : target' = [target EXCEPT ![p] = m] BY <3>1
      <4>2. QED BY <2>1, <2>5, <2>6, <4>1 DEF processPlayerAttackHit
    <3>2. QED BY <2>1, <2>5, <3>1 DEF processPlayerAttackHit
<1>11. CASE ~Strikes(q)
  <2>1. /\ IF q.mState = "Attack"
           THEN UNCHANGED <<target, hits>>
           ELSE target' = [target EXCEPT ![p] = NoMonster] /\ hits' = [hits EXCEPT ![p] = 0]
        /\ UNCHANGED <<monster, moved, item, sightVars, deaths, kills, view>>
    BY <1>5, <1>11 DEF PlayerUpdate
  <2>2. UNCHANGED itemVars BY <1>1, <2>1 DEF itemVars
  <2>3. UNCHANGED <<monsterVars, view>> BY <1>1, <2>1 DEF monsterVars
  <2>4. \A m \in Monsters : (Updated(m)' <=> Updated(m)) /\ (Unsorted(m)' <=> Unsorted(m))
    BY <1>2 DEF Updated, Unsorted
  <2>5. MonstersRight' /\ Told' /\ Knocked' BY <2>3, <2>4, MonstersKept
  <2>6. target' \in [Players -> Monsters \union {NoMonster}] BY <1>3, <2>1
  <2>7. PlayersRight' BY <1>1, <1>5, <2>6 DEF IInv, PlayersRight
  <2>8. CASE q.mState = "Attack"
    <3>1. hits' = [hits EXCEPT ![p] = hits[p]] /\ hits[p] \in Nat BY <1>7, <2>1, <2>8
    <3>2. mBConnect[p] => Swung(q, hits[p])
      BY <1>4, <1>7, <1>8, <2>8, PlayerAssumption DEF Swung
    <3>3. QED BY <1>9, <3>1, <3>2, <1>6, <2>2, <2>5, <2>7, DropsKept DEF IInv
  <2>9. CASE q.mState # "Attack"
    <3>1. Swung(q, 0) BY <2>9 DEF Swung
    <3>2. Swings' BY <1>9, <2>1, <2>9, <3>1
    <3>3. QED BY <1>6, <2>2, <2>5, <2>7, <3>2, DropsKept DEF IInv
  <2>10. QED BY <2>8, <2>9
<1>12. QED BY <1>10, <1>11

(* The watcher changes sector. *)
LEMMA WatcherMovesStep == ASSUME IInv, WatcherMoves PROVE IInv'
<1>1. PICK around \in SUBSET Monsters :
        view' = [m \in Monsters |-> CASE m \notin around -> Hidden
                                     [] m \in around /\ view[m].shown -> view[m]
                                     [] OTHER -> onMonsterSpawn(monster[m])]
  BY DEF WatcherMoves
<1>2. PICK items \in SUBSET {i \in Items : item[i] = "ground"} : sendItemBatches(items)
  BY DEF WatcherMoves
<1>3. /\ phase = "players" /\ phase' = "monsters" /\ todo' = Monsters
      /\ UNCHANGED <<stay, mBConnect, player, target, saved, mInventory>>
      /\ UNCHANGED <<monster, before, moved>> /\ UNCHANGED hits
      /\ UNCHANGED <<item, mInventory, deaths, expired, kills>>
  BY DEF WatcherMoves, playerVars, monsterVars
<1>4. Drops' BY <1>2, <1>3, ItemsAround DEF Ground
<1>5. PlayersRight' /\ Swings' BY <1>3, PlayersKept
<1>6. Phases' BY <1>3 DEF Phases
<1>7. \A m \in Monsters : ~Updated(m) /\ ~Updated(m)' /\ ~Unsorted(m) /\ ~Unsorted(m)'
  BY <1>3 DEF Updated, Unsorted
<1>8. \A m \in Monsters : ActorRight(view'[m]) /\ InStep(view'[m], monster[m])
  <2>1. SUFFICES ASSUME NEW m \in Monsters
                 PROVE  ActorRight(view'[m]) /\ InStep(view'[m], monster[m])
    OBVIOUS
  <2>2. MonsterRight(monster[m]) /\ ActorRight(view[m]) /\ InStep(view[m], monster[m])
    BY <1>7 DEF IInv, MonstersRight, Told
  <2>3. view'[m] \in {Hidden, view[m], onMonsterSpawn(monster[m])} BY <1>1
  <2>4. CASE view'[m] = Hidden BY <2>4, HiddenRight DEF InStep, ShownAs
  <2>5. CASE view'[m] = onMonsterSpawn(monster[m]) BY <2>2, <2>5, SpawnRight
  <2>6. QED BY <2>2, <2>3, <2>4, <2>5
<1>9. MonstersRight'
  <2>1. view' \in [Monsters -> ActorShape] BY <1>1, <1>8 DEF ActorRight
  <2>2. QED BY <1>3, <1>8, <2>1 DEF IInv, MonstersRight
<1>10. Told' BY <1>3, <1>7, <1>8 DEF Told
<1>11. Knocked' BY <1>3, <1>7 DEF IInv, Knocked
<1>12. QED BY <1>4, <1>5, <1>6, <1>9, <1>10, <1>11 DEF IInv

(* One frame of a monster, and its hit. *)
LEMMA MonsterUpdateStep == ASSUME IInv, NEW m \in Monsters, MonsterUpdate(m) PROVE IInv'
<1>1. PICK where \in Distance, inRange \in BOOLEAN :
        LET now == IF monster[m].mState = "Chase" /\ ~possibleChasePlayer(monster[m])
                   THEN giveUpChase(monster[m], where) ELSE monster[m]
        IN \E next \in Update(now, where, inRange) :
            /\ monster' = [monster EXCEPT ![m] = next]
            /\ moved' = [moved EXCEPT ![m] = @ \/ Walked(now, next)]
            /\ IF next.mState = "Attack" /\ next.mAnimFrame = MONSTER_ATTACK_WINDUP_FRAME
               THEN processMonsterAttackHit ELSE UNCHANGED player
  BY DEF MonsterUpdate
<1>2. /\ Visit("monsters", m) /\ before' = [before EXCEPT ![m] = Face(monster[m])]
      /\ UNCHANGED <<stay, mBConnect, target, saved, view, hits>> /\ UNCHANGED itemVars
  BY DEF MonsterUpdate
<1> DEFINE old == monster[m]
           now == IF old.mState = "Chase" /\ ~possibleChasePlayer(old)
                  THEN giveUpChase(old, where) ELSE old
<1>3. PICK next \in Update(now, where, inRange) :
        /\ monster' = [monster EXCEPT ![m] = next]
        /\ moved' = [moved EXCEPT ![m] = @ \/ Walked(now, next)]
        /\ IF next.mState = "Attack" /\ next.mAnimFrame = MONSTER_ATTACK_WINDUP_FRAME
           THEN processMonsterAttackHit ELSE UNCHANGED player
  BY <1>1
<1>4. /\ monster \in [Monsters -> MonsterShape] /\ view \in [Monsters -> ActorShape]
      /\ before \in [Monsters -> Faces] /\ DOMAIN moved = Monsters
      /\ \A x \in Monsters : MonsterRight(monster[x]) /\ ActorRight(view[x])
  BY DEF IInv, MonstersRight
<1>5. MonsterRight(old) BY <1>4
<1>6. /\ MonsterRight(now) /\ now.mHp = old.mHp
      /\ \/ now = old
         \/ /\ old.mState = "Chase" /\ now.mState \in {"Idle", "Return"} /\ now.mAnimFrame = 0
  <2>1. CASE now = old BY <1>5, <2>1
  <2>2. CASE now # old
    <3>1. old.mState = "Chase" /\ now = giveUpChase(old, where) BY <2>2
    <3>2. QED BY <1>5, <3>1, GivenUp
  <2>3. QED BY <2>1, <2>2
<1> HIDE DEF now, old
<1>7. /\ MonsterRight(next)
      /\ next.mState \in {"Stun", "Dead"} => Face(next) = Face(now)
      /\ next.mHp = now.mHp \/ (now.mState = "Dead" /\ next.mState = "Idle")
      /\ now.mState = "Dead" => next.mState = "Dead" \/ (next.mState = "Idle" /\ next.mAnimFrame = 0)
      /\ Rests(now) => ~Walks(next)
  BY <1>3, <1>6, UpdateRight
<1>8. /\ phase = "monsters" /\ phase' = "monsters" /\ m \in todo /\ todo' = todo \ {m}
  BY <1>2 DEF Visit
<1>9. next \in MonsterShape BY <1>7 DEF MonsterRight
<1>10. Face(old) \in Faces BY <1>5 DEF MonsterRight, MonsterShape, Face, Faces
<1>11. /\ monster'[m] = next /\ before'[m] = Face(old) /\ view' = view
       /\ moved'[m] <=> moved[m] \/ Walked(now, next)
       /\ \A x \in Monsters : x # m => /\ monster'[x] = monster[x] /\ before'[x] = before[x]
                                       /\ moved'[x] = moved[x]
  BY <1>2, <1>3, <1>4 DEF old
<1>12. MonstersRight'
  <2>1. monster' \in [Monsters -> MonsterShape] BY <1>3, <1>4, <1>9
  <2>2. before' \in [Monsters -> Faces] BY <1>2, <1>4, <1>10 DEF old
  <2>3. DOMAIN moved' = Monsters BY <1>3, <1>4
  <2>4. QED BY <1>4, <1>7, <1>11, <2>1, <2>2, <2>3 DEF MonstersRight
<1>13. /\ ~Updated(m) /\ Updated(m)' /\ ~Unsorted(m) /\ Unsorted(m)'
       /\ \A x \in Monsters : x # m => (Updated(x)' <=> Updated(x)) /\ (Unsorted(x)' <=> Unsorted(x))
  BY <1>8 DEF Updated, Unsorted
<1>14. Face(old).mState = old.mState /\ Face(old).mDirection = old.mDirection BY DEF Face
<1>15. ToTell(view[m], next, Face(old))
  <2>1. InStep(view[m], old) BY <1>13 DEF IInv, Told, old
  <2>2. ShownAs(view[m], Face(old)) BY <1>14, <2>1 DEF InStep, ShownAs, Walks
  <2>3. old.mState = "Dead" => now = old BY <1>6
  <2>4. view[m].shown => view[m].mHp = next.mHp \/ (Face(old).mState = "Dead" /\ next.mState = "Idle")
    <3>1. next.mHp = old.mHp \/ (now.mState = "Dead" /\ next.mState = "Idle") BY <1>6, <1>7
    <3>2. now.mState = "Dead" => old.mState = "Dead" BY <1>6
    <3>3. QED BY <1>14, <2>1, <3>1, <3>2 DEF InStep
  <2>5. next.mState \in {"Stun", "Dead"} => Face(old) = Face(next)
    <3>1. ASSUME next.mState \in {"Stun", "Dead"} PROVE Face(old) = Face(next)
      <4>1. Face(next) = Face(now) BY <1>7, <3>1
      <4>2. now.mState = next.mState BY <4>1 DEF Face
      <4>3. now = old BY <1>6, <3>1, <4>2
      <4>4. QED BY <4>1, <4>3
    <3>2. QED BY <3>1
  <2>6. QED BY <1>7, <1>14, <2>2, <2>3, <2>4, <2>5 DEF ToTell
<1>16. Told' BY <1>11, <1>13, <1>15 DEF IInv, Told
<1>17. Knocked'
  <2>1. ASSUME moved'[m], Walks(next) PROVE Walks(Face(old)) \/ old.mState = "Dead"
    <3>1. CASE Walked(now, next)
      <4>1. now.mState \in Moving BY <3>1 DEF Walked
      <4>2. old.mState \in Moving BY <1>6, <4>1 DEF Moving
      <4>3. QED BY <1>14, <4>2 DEF Walks
    <3>2. CASE moved[m]
      <4>1. Rests(old) BY <1>13, <3>2 DEF IInv, Knocked, old
      <4>2. old.mState # "Chase" BY <4>1 DEF Rests
      <4>3. now = old BY <1>6, <4>2
      <4>4. QED BY <1>7, <2>1, <4>1, <4>3
    <3>3. QED BY <1>11, <2>1, <3>1, <3>2
  <2>2. QED BY <1>11, <1>13, <1>14, <2>1 DEF IInv, Knocked
<1>18. PlayersRight' /\ Swings'
  <2>1. CASE UNCHANGED player BY <1>2, <2>1, PlayersKept
  <2>2. CASE \E p \in players : player[p].mState # "Dead" /\ player' = [player EXCEPT ![p] = takeDamage(@)]
    <3>1. PICK p \in players : player[p].mState # "Dead" /\ player' = [player EXCEPT ![p] = takeDamage(@)]
      BY <2>2
    <3>2. p \in Players /\ player \in [Players -> PlayerShape]
      BY <3>1 DEF players, IInv, PlayersRight
    <3>3. takeDamage(player[p]) \in PlayerShape /\ takeDamage(player[p]).mState # "Attack"
      BY <3>1, <3>2, PlayerHurt
    <3>4. /\ player' \in [Players -> PlayerShape] /\ player'[p].mState # "Attack"
          /\ \A x \in Players : x # p => player'[x] = player[x]
      BY <3>1, <3>2, <3>3
    <3>5. PlayersRight' BY <1>2, <3>4 DEF IInv, PlayersRight
    <3>6. Swings' BY <1>2, <3>4 DEF IInv, Swings, Swung
    <3>7. QED BY <3>5, <3>6
  <2>3. QED BY <1>3, <2>1, <2>2 DEF processMonsterAttackHit
<1>19. QED BY <1>2, <1>12, <1>16, <1>17, <1>18, DropsKept, PhasesVisited DEF IInv

(* A monster changes sector, and comes into the watcher's sight or leaves it. *)
LEMMA ChangeSectorStep == ASSUME IInv, NEW m \in Monsters, ChangeMonsterSector(m) PROVE IInv'
<1>1. /\ Visit("monsterSectors", m) /\ UNCHANGED playerVars /\ UNCHANGED <<monster, before>>
      /\ UNCHANGED itemVars /\ UNCHANGED hits
      /\ IF moved[m] /\ before[m].mState # "Dead"
         THEN /\ \/ UNCHANGED view
                 \/ view' = [view EXCEPT ![m] = IF @.shown THEN Hidden ELSE onMonsterSpawn(monster[m])]
              /\ moved' = [moved EXCEPT ![m] = FALSE]
         ELSE UNCHANGED <<view, moved>>
  BY DEF ChangeMonsterSector
<1>2. /\ phase = "monsterSectors" /\ phase' = "monsterSectors" /\ m \in todo /\ todo' = todo \ {m}
  BY <1>1 DEF Visit
<1>3. UNCHANGED <<stay, mBConnect, player, target, saved, hits>> BY <1>1 DEF playerVars
<1>4. /\ monster \in [Monsters -> MonsterShape] /\ view \in [Monsters -> ActorShape]
      /\ before \in [Monsters -> Faces] /\ DOMAIN moved = Monsters
      /\ \A x \in Monsters : MonsterRight(monster[x]) /\ ActorRight(view[x])
  BY DEF IInv, MonstersRight
<1>5. \A x \in Monsters : Updated(x) /\ Updated(x)' /\ (x # m => (Unsorted(x)' <=> Unsorted(x)))
  BY <1>2 DEF Updated, Unsorted
<1>6. Unsorted(m) /\ ~Unsorted(m)' BY <1>2 DEF Unsorted
<1>7. ToTell(view[m], monster[m], before[m]) BY <1>5 DEF IInv, Told
<1>8. PlayersRight' /\ Swings' /\ Drops' /\ Phases'
  BY <1>1, <1>2, <1>3, PlayersKept, DropsKept, PhasesVisited
<1>9. CASE view' = view
  <2>1. Told' BY <1>1, <1>5, <1>9 DEF IInv, Told
  <2>2. DOMAIN moved' = Monsters BY <1>1, <1>4
  <2>3. MonstersRight' BY <1>1, <1>4, <1>9, <2>2 DEF MonstersRight
  <2>4. ASSUME NEW x \in Monsters, moved'[x]
        PROVE  /\ Unsorted(x)' /\ before'[x].mState # "Dead" /\ Walks(monster'[x]) => Walks(before'[x])
               /\ ~Unsorted(x)' => Rests(monster'[x])
    <3>1. CASE x # m
      <4>1. moved[x] BY <1>1, <1>4, <2>4, <3>1
      <4>2. QED BY <1>1, <1>5, <3>1, <4>1 DEF IInv, Knocked
    <3>2. CASE x = m
      <4>1. ~(moved[m] /\ before[m].mState # "Dead") /\ moved[m] BY <1>1, <1>4, <2>4, <3>2
      <4>2. Rests(monster[m]) BY <1>7, <4>1 DEF ToTell, Rests
      <4>3. QED BY <1>1, <1>6, <3>2, <4>2
    <3>3. QED BY <3>1, <3>2
  <2>5. Knocked' BY <2>4 DEF Knocked
  <2>6. QED BY <1>8, <2>1, <2>3, <2>5 DEF IInv
<1>10. CASE view' # view
  <2>1. /\ moved[m] /\ before[m].mState # "Dead" /\ moved' = [moved EXCEPT ![m] = FALSE]
        /\ view' = [view EXCEPT ![m] = IF @.shown THEN Hidden ELSE onMonsterSpawn(monster[m])]
    BY <1>1, <1>10
  <2>2. Walks(monster[m]) => Walks(before[m]) BY <1>6, <2>1 DEF IInv, Knocked
  <2> DEFINE v == IF view[m].shown THEN Hidden ELSE onMonsterSpawn(monster[m])
  <2>3. ActorRight(v) /\ InStep(v, monster[m])
    <3>1. CASE view[m].shown BY <3>1, HiddenRight DEF InStep, ShownAs
    <3>2. CASE ~view[m].shown BY <1>4, <3>2, SpawnRight
    <3>3. QED BY <3>1, <3>2
  <2>4. view' = [view EXCEPT ![m] = v] BY <2>1
  <2> HIDE DEF v
  <2>5. v \in ActorShape BY <2>3 DEF ActorRight
  <2>6. /\ view' \in [Monsters -> ActorShape] /\ view'[m] = v
        /\ \A x \in Monsters : x # m => view'[x] = view[x] /\ moved'[x] = moved[x]
    BY <1>4, <2>1, <2>4, <2>5
  <2>7. ToTell(v, monster[m], before[m])
    BY <1>7, <2>1, <2>2, <2>3 DEF ToTell, InStep
  <2>8. Told' BY <1>1, <1>5, <2>6, <2>7 DEF IInv, Told
  <2>9. MonstersRight' BY <1>1, <1>4, <2>1, <2>3, <2>6 DEF MonstersRight
  <2>10. ~moved'[m] BY <1>4, <2>1
  <2>11. Knocked' BY <1>1, <1>5, <2>6, <2>10 DEF IInv, Knocked
  <2>12. QED BY <1>8, <2>8, <2>9, <2>11 DEF IInv
<1>11. QED BY <1>9, <1>10

(* Items expire. *)
LEMMA ExpireStep == ASSUME IInv, ExpireItems PROVE IInv'
<1>1. PICK old \in SUBSET {i \in Items : item[i] = "ground"} :
        /\ item' = [i \in Items |-> IF i \in old THEN "gone" ELSE item[i]]
        /\ broadcastItemDespawn(old)
        /\ expired' = expired + Cardinality(old)
  BY DEF ExpireItems
<1>2. /\ phase = "monsterSectors" /\ todo = {} /\ phase' = "packets" /\ todo' = players
      /\ UNCHANGED playerVars /\ UNCHANGED <<monsterVars, view>>
      /\ UNCHANGED <<deaths, kills>> /\ UNCHANGED hits
  BY DEF ExpireItems
<1>3. UNCHANGED <<stay, mBConnect, player, target, saved, hits>> /\ mInventory' = mInventory
  BY <1>2 DEF playerVars
<1>4. old \in SUBSET Ground BY DEF Ground
<1>5. Cardinality(old) \in Nat BY <1>4, GroundFinite, FS_Subset, FS_CardinalityType
<1>6. expired \in Nat /\ mInventory \in Nat BY DEF IInv, Drops
<1>7. Drops' BY <1>1, <1>2, <1>3, <1>4, <1>5, <1>6, ItemsTaken
<1>8. \A m \in Monsters : (Updated(m)' <=> Updated(m)) /\ (Unsorted(m)' <=> Unsorted(m))
  BY <1>2 DEF Updated, Unsorted
<1>9. MonstersRight' /\ Told' /\ Knocked' BY <1>2, <1>8, MonstersKept
<1>10. Phases' BY <1>2, <1>3 DEF Phases, players
<1>11. QED BY <1>3, <1>7, <1>9, <1>10, PlayersKept DEF IInv

(* A packet that changes its player. *)
LEMMA PlayerPacket ==
  ASSUME IInv, NEW p \in Players, Packet(p), UNCHANGED itemVars, NEW q \in PlayerShape,
         player' = [player EXCEPT ![p] = q], NEW h \in Nat, hits' = [hits EXCEPT ![p] = h],
         target' \in [Players -> Monsters \union {NoMonster}],
         mBConnect[p] => Swung(q, h)
  PROVE  IInv'
<1>1. UNCHANGED <<phase, todo, stay, mBConnect, saved>> /\ UNCHANGED <<monsterVars, view>>
  BY DEF Packet
<1>2. player \in [Players -> PlayerShape] /\ hits \in [Players -> Nat]
  BY DEF IInv, PlayersRight, Swings
<1>3. /\ player' \in [Players -> PlayerShape] /\ hits' \in [Players -> Nat]
      /\ player'[p] = q /\ hits'[p] = h
      /\ \A x \in Players : x # p => player'[x] = player[x] /\ hits'[x] = hits[x]
  BY <1>2
<1>4. PlayersRight' BY <1>1, <1>3 DEF IInv, PlayersRight
<1>5. Swings' BY <1>1, <1>3 DEF IInv, Swings
<1>6. MonstersRight' /\ Told' /\ Knocked' BY <1>1, MonstersAlone
<1>7. QED BY <1>1, <1>4, <1>5, <1>6, DropsKept, PhasesKept DEF IInv

(* Packets. *)
LEMMA PacketStep ==
  ASSUME IInv, NEW p \in Players, MoveStart(p) \/ MoveStop(p) \/ AttackReq(p) \/ LootReq(p)
  PROVE  IInv'
<1>1. /\ player \in [Players -> PlayerShape] /\ hits \in [Players -> Nat]
      /\ target \in [Players -> Monsters \union {NoMonster}]
      /\ mBConnect[p] => Swung(player[p], hits[p])
  BY DEF IInv, PlayersRight, Swings
<1>2. CASE MoveStart(p) \/ MoveStop(p)
  <2>1. PICK q \in {handleMoveStart(player[p]), handleMoveStop(player[p])} :
          player' = [player EXCEPT ![p] = q]
    BY <1>2 DEF MoveStart, MoveStop
  <2>2. q \in PlayerShape /\ (q.mState = "Attack" => q = player[p]) BY <1>1, PlayerAsks
  <2>3. Packet(p) /\ UNCHANGED itemVars /\ target' = target /\ hits' = hits
    BY <1>2 DEF MoveStart, MoveStop
  <2>4. hits' = [hits EXCEPT ![p] = hits[p]] /\ hits[p] \in Nat BY <1>1, <2>3
  <2>5. mBConnect[p] => Swung(q, hits[p]) BY <1>1, <2>2 DEF Swung
  <2>6. QED BY <1>1, <2>1, <2>2, <2>3, <2>4, <2>5, PlayerPacket
<1>3. CASE AttackReq(p)
  <2>1. /\ Packet(p) /\ UNCHANGED itemVars /\ hits' = [hits EXCEPT ![p] = 0]
        /\ player' = [player EXCEPT ![p] = handleAttackReq(player[p])]
        /\ \E m \in Monsters \union {NoMonster} : target' = [target EXCEPT ![p] = m]
    BY <1>3 DEF AttackReq
  <2>2. target' \in [Players -> Monsters \union {NoMonster}] BY <1>1, <2>1
  <2>3. handleAttackReq(player[p]) \in PlayerShape BY <1>1, PlayerAsks
  <2>4. Swung(handleAttackReq(player[p]), 0) BY DEF Swung
  <2>5. QED BY <2>1, <2>2, <2>3, <2>4, PlayerPacket
<1>4. CASE LootReq(p)
  <2>1. PICK i \in Items : item[i] = "ground" /\ Taken(i) BY <1>4 DEF LootReq
  <2>2. /\ Packet(p) /\ mInventory' = mInventory + 1
        /\ UNCHANGED <<player, target, deaths, expired, kills, hits>>
    BY <1>4 DEF LootReq
  <2>3. UNCHANGED <<phase, todo, stay, mBConnect, saved>> /\ UNCHANGED <<monsterVars, view>>
    BY <2>2 DEF Packet
  <2>4. /\ broadcastItemDespawn({i}) /\ item' = [item EXCEPT ![i] = "gone"]
        /\ {i} \in SUBSET Ground
    BY <2>1 DEF Taken, Ground
  <2>5. item' = [x \in Items |-> IF x \in {i} THEN "gone" ELSE item[x]]
    BY <2>4 DEF IInv, Drops
  <2>6. Cardinality({i}) = 1 BY FS_Singleton
  <2>7. expired \in Nat /\ mInventory \in Nat BY DEF IInv, Drops
  <2>8. Drops'
    <3>1. expired' \in Nat /\ mInventory' \in Nat /\ UNCHANGED <<deaths, kills>>
      BY <2>2, <2>7
    <3>2. expired' + mInventory' = expired + mInventory + Cardinality({i})
      BY <2>2, <2>6, <2>7
    <3>3. QED BY <2>4, <2>5, <3>1, <3>2, ItemsTaken
  <2>9. MonstersRight' /\ Told' /\ Knocked' BY <2>3, MonstersAlone
  <2>10. PlayersRight' /\ Swings' BY <2>2, <2>3, PlayersKept
  <2>11. QED BY <2>3, <2>8, <2>9, <2>10, PhasesKept DEF IInv
<1>5. QED BY <1>2, <1>3, <1>4

(* A player has no packet left. *)
LEMMA QueueEmptyStep == ASSUME IInv, NEW p \in Players, QueueEmpty(p) PROVE IInv'
<1>1. /\ Visit("packets", p) /\ UNCHANGED playerVars /\ UNCHANGED <<monsterVars, view>>
      /\ UNCHANGED itemVars /\ UNCHANGED hits
  BY DEF QueueEmpty
<1>2. UNCHANGED <<stay, mBConnect, player, target, saved, hits>> BY <1>1 DEF playerVars
<1>3. \A m \in Monsters : (Updated(m)' <=> Updated(m)) /\ (Unsorted(m)' <=> Unsorted(m))
  BY <1>1 DEF Updated, Unsorted, Visit
<1>4. MonstersRight' /\ Told' /\ Knocked' BY <1>1, <1>3, MonstersKept
<1>5. QED BY <1>1, <1>2, <1>4, DropsKept, PlayersKept, PhasesVisited DEF IInv

(* A monster's changes are announced. *)
LEMMA AnnounceStep == ASSUME IInv, NEW m \in Monsters, Announce(m) PROVE IInv'
<1>1. /\ Visit("announce", m) /\ UNCHANGED playerVars /\ UNCHANGED <<monster, moved>>
      /\ UNCHANGED itemVars /\ UNCHANGED hits
      /\ before' = [before EXCEPT ![m] = Face(monster[m])]
      /\ IF Face(monster[m]) = before[m]
         THEN UNCHANGED view
         ELSE \E v \in Announced(view[m], monster[m], before[m]) : view' = [view EXCEPT ![m] = v]
  BY DEF Announce
<1>2. /\ phase = "announce" /\ phase' = "announce" /\ m \in todo /\ todo' = todo \ {m}
  BY <1>1 DEF Visit
<1>3. UNCHANGED <<stay, mBConnect, player, target, saved, hits>> BY <1>1 DEF playerVars
<1>4. /\ monster \in [Monsters -> MonsterShape] /\ view \in [Monsters -> ActorShape]
      /\ before \in [Monsters -> Faces] /\ DOMAIN moved = Monsters
      /\ \A x \in Monsters : MonsterRight(monster[x]) /\ ActorRight(view[x])
  BY DEF IInv, MonstersRight
<1>5. /\ Updated(m) /\ ~Updated(m)' /\ \A x \in Monsters : ~Unsorted(x) /\ ~Unsorted(x)'
      /\ \A x \in Monsters : x # m => (Updated(x)' <=> Updated(x))
  BY <1>2 DEF Updated, Unsorted
<1>6. ToTell(view[m], monster[m], before[m]) BY <1>5 DEF IInv, Told
<1>7. PICK v : /\ ActorRight(v) /\ InStep(v, monster[m]) /\ view' = [view EXCEPT ![m] = v]
  <2>1. CASE Face(monster[m]) = before[m]
    <3>1. /\ before[m].mState = monster[m].mState /\ before[m].mDirection = monster[m].mDirection
      BY <2>1 DEF Face
    <3>2. InStep(view[m], monster[m]) BY <1>6, <3>1 DEF ToTell, InStep, ShownAs, Walks
    <3>3. view' = [view EXCEPT ![m] = view[m]] BY <1>1, <1>4, <2>1
    <3>4. QED BY <1>4, <3>2, <3>3
  <2>2. CASE Face(monster[m]) # before[m]
    <3>1. PICK v \in Announced(view[m], monster[m], before[m]) : view' = [view EXCEPT ![m] = v]
      BY <1>1, <2>2
    <3>2. ActorRight(v) /\ InStep(v, monster[m]) BY <1>4, <1>6, <2>2, AnnouncedRight
    <3>3. QED BY <3>1, <3>2
  <2>3. QED BY <2>1, <2>2
<1>8. v \in ActorShape /\ Face(monster[m]) \in Faces
  BY <1>4, <1>7 DEF ActorRight, MonsterShape, Face, Faces
<1>9. /\ view' \in [Monsters -> ActorShape] /\ view'[m] = v
      /\ before' \in [Monsters -> Faces]
      /\ \A x \in Monsters : x # m => view'[x] = view[x] /\ before'[x] = before[x]
  BY <1>1, <1>4, <1>7, <1>8
<1>10. MonstersRight' BY <1>1, <1>4, <1>7, <1>9 DEF MonstersRight
<1>11. Told' BY <1>1, <1>5, <1>7, <1>9 DEF IInv, Told
<1>12. Knocked' BY <1>1, <1>5 DEF IInv, Knocked
<1>13. QED BY <1>1, <1>3, <1>10, <1>11, <1>12, DropsKept, PlayersKept, PhasesVisited DEF IInv

(* Players whose positions are saved leave. *)
LEMMA LeaveStep == ASSUME IInv, Leave PROVE IInv'
<1>1. /\ phase \in {"messages", "announce"} /\ todo = {} /\ phase' = "messages" /\ todo' = todo
      /\ stay' = [p \in Players |-> IF saved[p] THEN "gone" ELSE stay[p]]
      /\ player' = [p \in Players |-> IF saved[p] THEN NewPlayer ELSE player[p]]
      /\ target' = [p \in Players |-> IF saved[p] THEN NoMonster ELSE target[p]]
      /\ hits' = [p \in Players |-> IF saved[p] THEN 0 ELSE hits[p]]
      /\ UNCHANGED <<mBConnect, saved>> /\ UNCHANGED <<monsterVars, view>> /\ UNCHANGED itemVars
  BY DEF Leave
<1>2. NewPlayer \in PlayerShape /\ NewPlayer.mState = "Idle"
  BY PlayerStates DEF NewPlayer, PlayerShape
<1>3. PlayersRight'
  <2>1. stay' \in [Players -> {"in", "gone"}] BY <1>1 DEF IInv, PlayersRight
  <2>2. player' \in [Players -> PlayerShape] BY <1>1, <1>2 DEF IInv, PlayersRight
  <2>3. target' \in [Players -> Monsters \union {NoMonster}] BY <1>1 DEF IInv, PlayersRight
  <2>4. QED BY <1>1, <2>1, <2>2, <2>3 DEF IInv, PlayersRight
<1>4. Swings'
  <2>1. hits' \in [Players -> Nat] BY <1>1 DEF IInv, Swings
  <2>2. Swung(NewPlayer, 0) BY DEF Swung
  <2>3. QED BY <1>1, <2>1, <2>2 DEF IInv, Swings
<1>5. \A m \in Monsters : (Updated(m)' <=> Updated(m)) /\ (Unsorted(m)' <=> Unsorted(m))
  BY <1>1 DEF Updated, Unsorted
<1>6. MonstersRight' /\ Told' /\ Knocked' BY <1>1, <1>5, MonstersKept
<1>7. Phases' BY <1>1 DEF Phases
<1>8. QED BY <1>1, <1>3, <1>4, <1>6, <1>7, DropsKept DEF IInv

(* The timer of an actor runs out. *)
LEMMA WatcherFrameStep == ASSUME IInv, NEW m \in Monsters, WatcherFrame(m) PROVE IInv'
<1>1. /\ view[m].mHitTimer /\ view' = [view EXCEPT ![m] = actorUpdate(view[m])]
      /\ UNCHANGED <<phase, todo>> /\ UNCHANGED playerVars /\ UNCHANGED <<monster, before, moved>>
      /\ UNCHANGED itemVars /\ UNCHANGED hits
  BY DEF WatcherFrame, monsterVars
<1>2. UNCHANGED <<stay, mBConnect, player, target, saved, hits>> BY <1>1 DEF playerVars
<1>3. /\ monster \in [Monsters -> MonsterShape] /\ view \in [Monsters -> ActorShape]
      /\ before \in [Monsters -> Faces] /\ DOMAIN moved = Monsters
      /\ \A x \in Monsters : MonsterRight(monster[x]) /\ ActorRight(view[x])
  BY DEF IInv, MonstersRight
<1> DEFINE v == actorUpdate(view[m])
<1>4. /\ ActorRight(v) /\ v.shown = view[m].shown /\ v.mBMove = view[m].mBMove
      /\ v.mDirection = view[m].mDirection /\ v.mHp = view[m].mHp
  BY <1>1, <1>3, TimerRight
<1>5. view' = [view EXCEPT ![m] = v] BY <1>1
<1> HIDE DEF v
<1>6. v \in ActorShape BY <1>4 DEF ActorRight
<1>7. /\ view' \in [Monsters -> ActorShape] /\ view'[m] = v
      /\ \A x \in Monsters : x # m => view'[x] = view[x]
  BY <1>3, <1>5, <1>6
<1>8. MonstersRight' BY <1>1, <1>3, <1>4, <1>7 DEF MonstersRight
<1>9. \A x \in Monsters : (Updated(x)' <=> Updated(x)) /\ (Unsorted(x)' <=> Unsorted(x))
  BY <1>1 DEF Updated, Unsorted
<1>10. /\ \A f : ShownAs(v, f) <=> ShownAs(view[m], f)
       /\ \A b : InStep(v, b) <=> InStep(view[m], b)
       /\ \A b, c : ToTell(v, b, c) <=> ToTell(view[m], b, c)
  BY <1>4 DEF ShownAs, InStep, ToTell
<1>11. Told' BY <1>1, <1>7, <1>9, <1>10 DEF IInv, Told
<1>12. Knocked' BY <1>1, <1>9 DEF IInv, Knocked
<1>13. QED BY <1>1, <1>2, <1>8, <1>11, <1>12, DropsKept, PlayersKept, PhasesKept DEF IInv

(* A position is saved. *)
LEMMA SaveStep == ASSUME IInv, NEW p \in Players, SaveAnswered(p) PROVE IInv'
<1>1. /\ UNCHANGED <<phase, todo, stay, mBConnect, player, target, hits>>
      /\ UNCHANGED <<monsterVars, view>> /\ UNCHANGED itemVars
      /\ saved' = [saved EXCEPT ![p] = TRUE]
  BY DEF SaveAnswered
<1>2. PlayersRight' BY <1>1 DEF IInv, PlayersRight
<1>3. Swings' BY <1>1 DEF IInv, Swings
<1>4. QED BY <1>1, <1>2, <1>3, MonstersAlone, DropsKept, PhasesKept DEF IInv

-----------------------------------------------------------------------------
(* The invariant holds.                                                    *)

(* At the start. *)
LEMMA InitStep == ASSUME Init PROVE IInv
<1>1. PICK d \in Directions : monster = [m \in Monsters |-> NewMonster(d)] BY DEF Init
<1>2. /\ NewMonster(d) \in MonsterShape /\ NewMonster(d).mAnimFrame = 0
      /\ NewMonster(d).mState = "Idle" /\ NewMonster(d).mHp = MONSTER_MAX_HP
  BY MonsterAssumption DEF NewMonster, MonsterShape, eMonsterState
<1>3. MonsterRight(NewMonster(d)) BY <1>2, Begun, MonsterAssumption
<1>4. /\ before = [m \in Monsters |-> Face(monster[m])] /\ moved = [m \in Monsters |-> FALSE]
      /\ view = [m \in Monsters |-> Hidden] /\ phase = "messages" /\ todo = {}
  BY DEF Init
<1>5. Phases BY <1>4 DEF Phases
<1>6. PlayersRight
  <2>1. NewPlayer \in PlayerShape BY PlayerStates DEF NewPlayer, PlayerShape
  <2>2. QED BY <2>1 DEF Init, PlayersRight
<1>7. MonstersRight
  <2>1. Face(NewMonster(d)) \in Faces BY <1>2 DEF Face, Faces, MonsterShape
  <2>2. Hidden \in ActorShape BY HiddenRight DEF ActorRight
  <2>3. monster \in [Monsters -> MonsterShape] /\ \A m \in Monsters : monster[m] = NewMonster(d)
    BY <1>1, <1>2
  <2>4. view \in [Monsters -> ActorShape] /\ \A m \in Monsters : view[m] = Hidden BY <1>4, <2>2
  <2>5. before \in [Monsters -> Faces] BY <1>4, <2>1, <2>3
  <2>6. DOMAIN moved = Monsters BY <1>4
  <2>7. QED BY <1>3, <2>3, <2>4, <2>5, <2>6, HiddenRight DEF MonstersRight
<1>8. Told
  <2>1. \A m \in Monsters : ~Updated(m) BY <1>4 DEF Updated
  <2>2. \A m : InStep(Hidden, m) BY HiddenRight DEF InStep, ShownAs
  <2>3. QED BY <1>4, <2>1, <2>2 DEF Told
<1>9. Knocked BY <1>4 DEF Knocked
<1>10. Swings BY DEF Init, Swings, Swung
<1>11. Drops
  <2>1. Ground = {} BY DEF Init, Ground
  <2>2. Cardinality(Ground) = 0 BY <2>1, FS_EmptySet
  <2>3. /\ deaths = 0 /\ expired = 0 /\ mInventory = 0 /\ kills = 0
        /\ near = {} /\ mItemActors = {} /\ asserted = FALSE
        /\ item \in [Items -> {"unused", "ground", "gone"}]
    BY DEF Init
  <2>4. QED BY <2>2, <2>3 DEF Drops
<1>12. QED BY <1>5, <1>6, <1>7, <1>8, <1>9, <1>10, <1>11 DEF IInv

(* Nothing happens. *)
LEMMA StutterStep == ASSUME IInv, UNCHANGED vars PROVE IInv'
<1>1. /\ UNCHANGED <<phase, todo, stay>> /\ UNCHANGED <<monsterVars, view, phase, todo>>
      /\ UNCHANGED <<stay, mBConnect, player, target, saved, hits>> /\ UNCHANGED itemVars
  BY DEF vars, monsterVars, itemVars, sightVars
<1>2. QED BY <1>1, MonstersAlone, PlayersKept, DropsKept, PhasesKept DEF IInv

(* The field thread is where Phases says in its frame; every player and monster is *)
(* right; the watcher's actors are as the monsters were announced to it, or have   *)
(* yet to be told what this frame did; a monster that may be in another sector     *)
(* will not begin to walk; swings hit once; every death has left one item.         *)
THEOREM IInvHolds == Spec => []IInv
<1>1. Init => IInv BY InitStep
<1>2. IInv /\ [Next]_vars => IInv'
  <2> SUFFICES ASSUME IInv, [Next]_vars PROVE IInv'
    OBVIOUS
  <2>1. CASE FieldThread
    <3>1. CASE BeginFrame \/ NextLoop BY <3>1, LoopStep
    <3>2. CASE WatcherMoves BY <3>2, WatcherMovesStep
    <3>3. CASE ExpireItems BY <3>3, ExpireStep
    <3>4. CASE Leave BY <3>4, LeaveStep
    <3>5. CASE \E p \in Players : PlayerUpdate(p) \/ QueueEmpty(p)
      BY <3>5, PlayerUpdateStep, QueueEmptyStep
    <3>6. CASE \E m \in Monsters : MonsterUpdate(m) \/ ChangeMonsterSector(m) \/ Announce(m)
      BY <3>6, MonsterUpdateStep, ChangeSectorStep, AnnounceStep
    <3>7. QED BY <2>1, <3>1, <3>2, <3>3, <3>4, <3>5, <3>6 DEF FieldThread
  <2>2. CASE Clients
    <3>1. PICK p \in Players :
            Disconnect(p) \/ MoveStart(p) \/ MoveStop(p) \/ AttackReq(p) \/ LootReq(p)
      BY <2>2 DEF Clients
    <3>2. QED BY <3>1, DisconnectStep, PacketStep
  <2>3. CASE \E m \in Monsters : WatcherFrame(m) BY <2>3, WatcherFrameStep
  <2>4. CASE \E p \in Players : SaveAnswered(p) BY <2>4, SaveStep
  <2>5. CASE UNCHANGED vars BY <2>5, StutterStep
  <2>6. QED BY <2>1, <2>2, <2>3, <2>4, <2>5 DEF Next
<1>3. QED BY <1>1, <1>2, PTL DEF Spec

-----------------------------------------------------------------------------
(* What it shows.                                                          *)

(* The frames a monster counts. *)
LEMMA Frames ==
  LET top == Max({MONSTER_ATTACK_TOTAL_FRAME, MONSTER_RESPAWN_FRAME, MONSTER_IDLE_FRAME}) IN
  /\ top \in Nat /\ top >= MONSTER_ATTACK_TOTAL_FRAME /\ top >= MONSTER_RESPAWN_FRAME
  /\ top >= MONSTER_IDLE_FRAME
<1> DEFINE S == {MONSTER_ATTACK_TOTAL_FRAME, MONSTER_RESPAWN_FRAME, MONSTER_IDLE_FRAME}
<1>1. /\ MONSTER_ATTACK_TOTAL_FRAME \in Nat /\ MONSTER_RESPAWN_FRAME \in Nat
      /\ MONSTER_IDLE_FRAME \in Nat
  BY MonsterAssumption
<1>2. \E x \in S : \A y \in S : x >= y
  <2>1. PICK x \in {MONSTER_ATTACK_TOTAL_FRAME, MONSTER_RESPAWN_FRAME} :
          x >= MONSTER_ATTACK_TOTAL_FRAME /\ x >= MONSTER_RESPAWN_FRAME
    BY <1>1
  <2>2. CASE x >= MONSTER_IDLE_FRAME BY <1>1, <2>1, <2>2
  <2>3. CASE ~(x >= MONSTER_IDLE_FRAME) BY <1>1, <2>1, <2>3
  <2>4. QED BY <2>2, <2>3
<1>3. Max(S) \in S /\ \A y \in S : Max(S) >= y BY <1>2 DEF Max
<1>4. QED BY <1>1, <1>3

(* Every variable has its type: no counter runs past its frames, no hit points *)
(* below zero or above the maximum, and the loops visit those in the field.    *)
THEOREM TypeCorrect == Spec => []TypeOK
<1>1. IInv => TypeOK
  <2> SUFFICES ASSUME IInv PROVE TypeOK
    OBVIOUS
  <2>1. player \in [Players -> Player]
    <3>1. PlayerShape \subseteq Player BY DEF PlayerShape, Player
    <3>2. QED BY <3>1 DEF IInv, PlayersRight
  <2>2. monster \in [Monsters -> Monster]
    <3>1. ASSUME NEW n, MonsterRight(n) PROVE n \in Monster
      <4> DEFINE top == Max({MONSTER_ATTACK_TOTAL_FRAME, MONSTER_RESPAWN_FRAME, MONSTER_IDLE_FRAME})
      <4>1. n \in MonsterShape /\ n.mAnimFrame \in Nat /\ n.mState \in eMonsterState
        BY <3>1 DEF MonsterRight, MonsterShape
      <4>2. /\ top \in Nat /\ top >= MONSTER_ATTACK_TOTAL_FRAME /\ top >= MONSTER_RESPAWN_FRAME
            /\ top >= MONSTER_IDLE_FRAME
        BY Frames
      <4>3. /\ MONSTER_ATTACK_TOTAL_FRAME \in Nat /\ MONSTER_RESPAWN_FRAME \in Nat
            /\ MONSTER_IDLE_FRAME \in Nat
        BY MonsterAssumption
      <4> HIDE DEF top
      <4>4. n.mAnimFrame <= top
        BY <3>1, <4>1, <4>2, <4>3, StatesAre DEF MonsterRight
      <4>5. n.mAnimFrame \in 0 .. top BY <4>1, <4>2, <4>4
      <4>6. n \in [mState : eMonsterState, mDirection : Directions, mAnimFrame : 0 .. top,
                    mHp : 0 .. MONSTER_MAX_HP, mHitStunFrame : 0 .. MONSTER_HIT_STUN_FRAME,
                    mTargetPlayerID : Players \union {NoPlayer}, ok : BOOLEAN]
        BY <4>1, <4>5 DEF MonsterShape
      <4>7. QED BY <4>6 DEF Monster, top
    <3>2. QED BY <3>1 DEF IInv, MonstersRight
  <2>3. view \in [Monsters -> [shown : BOOLEAN, mBMove : BOOLEAN, mHp : 0 .. MONSTER_MAX_HP,
                               mDirection : Directions, mHitTimer : BOOLEAN, ok : BOOLEAN,
                               mSprite : {"Idle", "Move", "Attack", "Stun", "Down"}]]
    <3>1. ActorShape \subseteq [shown : BOOLEAN, mBMove : BOOLEAN, mHp : 0 .. MONSTER_MAX_HP,
                                mDirection : Directions, mHitTimer : BOOLEAN, ok : BOOLEAN,
                                mSprite : {"Idle", "Move", "Attack", "Stun", "Down"}]
      BY DEF ActorShape, Sprites
    <3>2. QED BY <3>1 DEF IInv, MonstersRight
  <2>4. todo \in SUBSET (players \union Monsters) BY DEF IInv, Phases
  <2>5. near \subseteq {i \in Items : item[i] = "ground"} /\ mItemActors \subseteq Items
    BY DEF IInv, Drops, Ground
  <2>6. QED BY <2>1, <2>2, <2>3, <2>4, <2>5 DEF TypeOK, IInv, PlayersRight, MonstersRight, Drops, Faces
<1>2. QED BY <1>1, IInvHolds, PTL

(* Whenever the field thread has nothing left to tell, the watcher's actors walk, *)
(* face and are hurt as the monsters are; the dead lie down; no MOVE_START reaches *)
(* an actor that walks, nor does a state change to itself; and the items it shows  *)
(* are those on the ground around it.                                              *)
THEOREM WatcherIsRight == Spec => []WatcherSees
<1>1. IInv => WatcherSees
  <2> SUFFICES ASSUME IInv PROVE WatcherSees
    OBVIOUS
  <2>1. ItemsShown BY DEF IInv, Drops, ItemsShown
  <2>2. \A m \in Monsters : monster[m].ok /\ view[m].ok
    BY DEF IInv, MonstersRight, MonsterShape, ActorShape
  <2>3. \A p \in Players : player[p].ok BY DEF IInv, PlayersRight, PlayerShape
  <2>4. \A m \in Monsters : view[m].shown => (view[m].mSprite = "Down" <=> view[m].mHp = 0)
    BY DEF IInv, MonstersRight, ActorRight
  <2>5. ASSUME phase = "messages", NEW m \in Monsters, view[m].shown
        PROVE  /\ view[m].mBMove <=> monster[m].mState \in Moving
               /\ view[m].mDirection = monster[m].mDirection /\ view[m].mHp = monster[m].mHp
    <3>1. ~Updated(m) BY <2>5 DEF Updated
    <3>2. InStep(view[m], monster[m]) BY <3>1 DEF IInv, Told
    <3>3. QED BY <2>5, <3>2 DEF InStep, ShownAs, Walks
  <2>6. MonstersShown BY <2>2, <2>3, <2>4, <2>5 DEF MonstersShown
  <2>7. QED BY <2>1, <2>6 DEF WatcherSees
<1>2. QED BY <1>1, IInvHolds, PTL

(* Every death of a monster asks for one kill to be counted and leaves one item,  *)
(* which lies on the ground, has expired or has been looted, never two of these;  *)
(* and a swing of a connected player hits at most once.                           *)
THEOREM BlowsAreCounted == Spec => []BlowsCount
<1>1. IInv => BlowsCount BY DEF IInv, Drops, Ground, Swings, Swung, BlowsCount
<1>2. QED BY <1>1, IInvHolds, PTL
=============================================================================

----------------------------- MODULE FieldCombat -----------------------------
(***************************************************************************)
(* Combat in the field thread: players strike monsters, monsters chase and *)
(* strike players, the killed drop an item, items are looted or expire,    *)
(* and one client that watches the monsters is told of what they do.       *)
(*                                                                         *)
(* phase and todo follow the loops of fieldThread as in SectorAoi: one     *)
(* step is one iteration of one loop, or one packet.  Positions are left   *)
(* out: whether something is in range, where a monster is from its spawn   *)
(* place and whether it is in the watcher's sectors are choices.           *)
(* mAnimFrame of a monster is kept in Idle, Attack and Dead; the frames it *)
(* needs before it may turn or rest on its way are left out, so the model  *)
(* turns and rests more often than the code.                               *)
(***************************************************************************)
EXTENDS ServerPlayer, FiniteSets, FiniteSetsExt

CONSTANTS
  Players,                     (* those in the field, who leave it one day   *)
  Monsters, NoMonster,
  Items,                       (* bound: with no unused id left, blows that  *)
                               (* would kill miss                            *)
  Directions, NoPlayer,
  PLAYER_ATTACK_DAMAGE, MONSTER_MAX_HP,
  MONSTER_HIT_STUN_FRAME,
  MONSTER_ATTACK_TOTAL_FRAME,  (* frames of a monster's swing                *)
  MONSTER_ATTACK_WINDUP_FRAME, (* its frame that hits                        *)
  MONSTER_RESPAWN_FRAME,
  MONSTER_IDLE_FRAME           (* 10: a monster rests that long at least     *)

(* With no stun, or a rest of one frame, a monster that is knocked into another  *)
(* sector could walk in the frame it is shown there, and be told to start twice. *)
ASSUME MonsterAssumption ==
  /\ NoMonster \notin Monsters /\ NoPlayer \notin Players /\ IsFiniteSet(Items)
  /\ PLAYER_ATTACK_DAMAGE \in Nat \ {0} /\ MONSTER_MAX_HP \in Nat \ {0}
  /\ MONSTER_HIT_STUN_FRAME \in Nat \ {0} /\ MONSTER_RESPAWN_FRAME \in Nat \ {0}
  /\ MONSTER_IDLE_FRAME \in Nat \ {0, 1}
  /\ MONSTER_ATTACK_TOTAL_FRAME \in Nat
  /\ MONSTER_ATTACK_WINDUP_FRAME \in 1 .. MONSTER_ATTACK_TOTAL_FRAME - 1
  /\ Directions # {}

VARIABLES
  phase, todo,     (* the loop the field thread is in, what it has yet to visit  *)
  stay,            (* of a player: "in" players, or "gone"                       *)
  mBConnect,
  player,          (* the Player, see ServerPlayer                               *)
  target,          (* mPendingAttackTargets in Attack, at most one (getSkillConfig) *)
  saved,           (* the db thread has saved its position, see PlayerLifecycle  *)
  mInventory,      (* how many items all players have looted                     *)
  monster,         (* the Monster                                                *)
  before,          (* mBeforeState and mBeforeDirection                          *)
  moved,           (* it may be in another sector than the one it is listed in   *)
  item,            (* "unused", on the "ground", or "gone"                       *)
  view,            (* the watcher's actor of each monster                        *)
  near,            (* the items on the ground in the sectors around the watcher  *)
  mItemActors,     (* the items its client has actors of                         *)
  asserted,        (* an RT_ASSERT on them has failed                            *)
  kills,           (* history: how many KillCountUpdate jobs have been asked for *)
  deaths, expired, (* history: deaths of monsters, items that expired            *)
  hits             (* history: monsters hit by each player's swing (at most 2    *)
                   (* are counted)                                               *)

playerVars  == <<stay, mBConnect, player, target, saved, mInventory>>
monsterVars == <<monster, before, moved>>
sightVars   == <<near, mItemActors, asserted>>
itemVars    == <<item, sightVars, mInventory, deaths, expired, kills>>
vars == <<phase, todo, stay, mBConnect, player, target, saved, mInventory, monster, before,
          moved, item, sightVars, view, kills, deaths, expired, hits>>

players == {p \in Players : stay[p] = "in"}

-----------------------------------------------------------------------------
(* Monster.cpp, as operators from one record to the next, or to a set of them *)
(* where rand or the position decides.                                        *)

eMonsterState == {"Idle", "Move", "Chase", "Attack", "Stun", "Dead", "Return"}
Moving == {"Move", "Chase", "Return"}
Face(m) == [mState |-> m.mState, mDirection |-> m.mDirection]

(* How far a monster is from where it was spawned: 10 and less, less than      *)
(* PATROL_RADIUS, just that, more, more than CHASE_LEASH_RADIUS.               *)
Distance == {"home", "patrol", "edge", "far", "beyond"}

NewMonster(d) == [mState |-> "Idle", mDirection |-> d, mAnimFrame |-> 0, mHp |-> MONSTER_MAX_HP,
                  mHitStunFrame |-> 0, mTargetPlayerID |-> NoPlayer, ok |-> TRUE]

(* ok turns FALSE when the assertion of changeState fails. *)
changeMonsterState(m, state) ==
  [m EXCEPT !.mState = state, !.mAnimFrame = 0, !.ok = @ /\ m.mState # state]

Facing(m) == {[m EXCEPT !.mDirection = d] : d \in Directions}

(* A monster rests only within PATROL_RADIUS (every change to Idle is made there), *)
(* so the branch for one that rests further away is never taken.                   *)
idleUpdate(m) ==
  {m} \union IF m.mAnimFrame < MONSTER_IDLE_FRAME THEN {}
             ELSE {changeMonsterState(t, "Move") : t \in Facing(m)}

patrolUpdate(m, where) ==
  IF where \in {"edge", "far", "beyond"}
  THEN {changeMonsterState(m, "Return")} ELSE {m, changeMonsterState(m, "Idle")}

giveUpChase(m, where) ==
  changeMonsterState(m, IF where \in {"far", "beyond"} THEN "Return" ELSE "Idle")

chaseUpdate(m, where, inRange) ==
  CASE where = "beyond" -> {giveUpChase(m, where)}
    [] where # "beyond" /\ inRange -> {changeMonsterState(t, "Attack") : t \in Facing(m)}
    [] where # "beyond" /\ ~inRange -> Facing(m)

attackUpdate(m) ==
  IF m.mAnimFrame >= MONSTER_ATTACK_TOTAL_FRAME THEN {changeMonsterState(m, "Chase")} ELSE {m}

stunUpdate(m) ==
  IF m.mHitStunFrame > 0 THEN {[m EXCEPT !.mHitStunFrame = @ - 1]}
  ELSE {changeMonsterState(m, "Chase")}

deadUpdate(m) ==
  IF m.mAnimFrame >= MONSTER_RESPAWN_FRAME
  THEN {[changeMonsterState(m, "Idle") EXCEPT !.mHp = MONSTER_MAX_HP]} ELSE {m}

returnUpdate(m, where) ==
  IF where = "home" THEN {changeMonsterState(m, "Idle")} ELSE Facing(m)

Update(m, where, inRange) ==
  LET aged == [m EXCEPT !.mAnimFrame =
                 CASE m.mState = "Idle" -> IF @ < MONSTER_IDLE_FRAME THEN @ + 1 ELSE @
                   [] m.mState \in {"Attack", "Dead"} -> @ + 1
                   [] OTHER -> @]
  IN
  CASE m.mState = "Idle"   -> idleUpdate(aged)
    [] m.mState = "Move"   -> patrolUpdate(aged, where)
    [] m.mState = "Chase"  -> chaseUpdate(aged, where, inRange)
    [] m.mState = "Attack" -> attackUpdate(aged)
    [] m.mState = "Stun"   -> stunUpdate(aged)
    [] m.mState = "Dead"   -> deadUpdate(aged)
    [] m.mState = "Return" -> returnUpdate(aged, where)

(* Fault: hit points are not held at zero. *)
takeMonsterDamageBelowZero(m, p) ==
  {[m EXCEPT !.mHp = @ - PLAYER_ATTACK_DAMAGE,
             !.mState = IF m.mHp = PLAYER_ATTACK_DAMAGE THEN "Dead" ELSE "Stun"]}

(* Monster::takeDamage, from player p. *)
takeMonsterDamage(m, p) ==
  LET left == IF m.mHp > PLAYER_ATTACK_DAMAGE THEN m.mHp - PLAYER_ATTACK_DAMAGE ELSE 0
      Stunned(t) == [t EXCEPT !.mHp = left, !.mHitStunFrame = MONSTER_HIT_STUN_FRAME,
                              !.mTargetPlayerID = p]
  IN CASE m.mState = "Dead" -> {m}
       [] m.mState # "Dead" /\ left = 0 ->
            {changeMonsterState([t EXCEPT !.mHp = 0], "Dead") : t \in Facing(m)}
       [] m.mState = "Stun" /\ left # 0 -> {Stunned(t) : t \in Facing(m)}
       [] m.mState \notin {"Dead", "Stun"} /\ left # 0 ->
            {changeMonsterState(Stunned(t), "Stun") : t \in Facing(m)}

-----------------------------------------------------------------------------
(* What the watcher's client is told.  Its actor of a monster has mBMove, mHp and *)
(* mDirection, the animation it plays (mSprite), and mHitTimer says whether its   *)
(* timer runs.                                                                    *)

Hidden == [shown |-> FALSE, mBMove |-> FALSE, mHp |-> 0,
           mDirection |-> CHOOSE d \in Directions : TRUE, mSprite |-> "Idle",
           mHitTimer |-> FALSE, ok |-> TRUE]

NewActor(m) ==
  [shown |-> TRUE, mBMove |-> FALSE, mHp |-> m.mHp, mDirection |-> m.mDirection,
   mSprite |-> IF m.mHp > 0 THEN "Idle" ELSE "Down", mHitTimer |-> FALSE, ok |-> TRUE]

(* A frame of the client in which the timer runs out. *)
actorUpdate(v) ==
  [v EXCEPT !.mHitTimer = FALSE, !.mSprite = IF v.mBMove THEN "Move" ELSE "Idle"]

OnDamaged(v, m) ==
  [v EXCEPT !.mBMove = FALSE, !.mDirection = m.mDirection, !.mHp = m.mHp,
            !.mSprite = IF m.mHp = 0 THEN "Down" ELSE "Stun", !.mHitTimer = m.mHp > 0]

(* Actor::MoveStart asserts that the actor stands. *)
onMonsterMoveStart(v, m) ==
  [v EXCEPT !.ok = @ /\ ~v.mBMove, !.mBMove = TRUE, !.mDirection = m.mDirection,
            !.mSprite = "Move"]

onMonsterMoveStop(v, m) ==
  [v EXCEPT !.mBMove = FALSE, !.mDirection = m.mDirection, !.mSprite = "Idle"]

onMonsterAttack(v) == [v EXCEPT !.mSprite = "Attack"]

(* There must be an actor of the monster. *)
onMonsterDamaged(v, m) == [OnDamaged(v, m) EXCEPT !.ok = @ /\ v.shown]

onMonsterSpawn(m) ==
  CASE m.mState \in Moving -> onMonsterMoveStart(NewActor(m), m)
    [] m.mState = "Stun"   -> OnDamaged(NewActor(m), m)
    [] m.mState = "Attack" -> onMonsterAttack(NewActor(m))
    [] OTHER -> NewActor(m)

onMonsterDespawn(v) == Hidden

broadcastMonsterMoveStart(v, m) == IF v.shown THEN onMonsterMoveStart(v, m) ELSE v
broadcastMonsterMoveStop(v, m)  == IF v.shown THEN onMonsterMoveStop(v, m) ELSE v
broadcastMonsterDamaged(v, m)   == IF v.shown THEN onMonsterDamaged(v, m) ELSE v
broadcastMonsterAttack(v)       == IF v.shown THEN onMonsterAttack(v) ELSE v
broadcastMonsterDespawn(v)      == IF v.shown THEN onMonsterDespawn(v) ELSE v

(* To whoever is around the sector the monster is now listed in. *)
broadcastMonsterSpawn(v, m) == {v, onMonsterSpawn(m)}

(* No item is shown twice; one that is not shown need not go. *)
onItemSpawn(new) ==
  /\ asserted' = (asserted \/ new \cap mItemActors # {})
  /\ mItemActors' = mItemActors \union new
onItemDespawn(old) == mItemActors' = mItemActors \ old /\ UNCHANGED asserted

(* To whoever is around the item: the watcher, or not. *)
broadcastItemSpawn(i) ==
  \/ near' = near \union {i} /\ onItemSpawn({i})
  \/ UNCHANGED sightVars

broadcastItemDespawn(old) == near' = near \ old /\ onItemDespawn(old \cap near)

(* The watcher changes sector, and items is what now lies around it. *)
sendItemBatches(items) ==
  /\ near' = items
  /\ asserted' = (asserted \/ (items \ near) \cap mItemActors # {})
  /\ mItemActors' = (mItemActors \union (items \ near)) \ (near \ items)

-----------------------------------------------------------------------------

Init ==
  /\ phase = "messages" /\ todo = {}
  /\ stay = [p \in Players |-> "in"] /\ mBConnect = [p \in Players |-> TRUE]
  /\ player = [p \in Players |-> NewPlayer] /\ target = [p \in Players |-> NoMonster]
  /\ saved = [p \in Players |-> FALSE] /\ mInventory = 0
  /\ \E d \in Directions : monster = [m \in Monsters |-> NewMonster(d)]
  /\ before = [m \in Monsters |-> Face(monster[m])] /\ moved = [m \in Monsters |-> FALSE]
  /\ item = [i \in Items |-> "unused"]
  /\ view = [m \in Monsters |-> Hidden]
  /\ near = {} /\ mItemActors = {} /\ asserted = FALSE
  /\ kills = 0 /\ deaths = 0 /\ expired = 0
  /\ hits = [p \in Players |-> 0]

(* onRelease, on a worker thread. *)
Disconnect(p) ==
  /\ p \in players /\ mBConnect[p]
  /\ mBConnect' = [mBConnect EXCEPT ![p] = FALSE]
  /\ UNCHANGED <<phase, todo, stay, player, target, saved, monsterVars, itemVars, view, hits>>

(* A loop over elements begins when the one before it is done. *)
Loop(from, to, elements) ==
  /\ phase = from /\ todo = {} /\ phase' = to /\ todo' = elements
  /\ UNCHANGED <<playerVars, monsterVars, itemVars, view, hits>>

BeginFrame == Loop("messages", "players", players)
NextLoop ==
  \/ Loop("monsters", "monsterSectors", Monsters)
  \/ Loop("packets", "announce", Monsters)

Visit(p, x) == phase = p /\ x \in todo /\ todo' = todo \ {x} /\ UNCHANGED phase

-----------------------------------------------------------------------------
(* fieldUpdate *)

(* dropItem: the rates of kDropTable add up to 100, so something always drops. *)
dropItem ==
  /\ \E i \in Items :
       item[i] = "unused" /\ item' = [item EXCEPT ![i] = "ground"] /\ broadcastItemSpawn(i)
  /\ deaths' = deaths + 1

(* processPlayerAttackHit: target[p] is hit, and a kill is asked to be counted. *)
Blow(p, m) ==
  /\ \E hurt \in takeMonsterDamage(monster[m], p) :
       /\ monster' = [monster EXCEPT ![m] = hurt]
       /\ view' = [view EXCEPT ![m] = broadcastMonsterDamaged(@, hurt)]
       /\ IF hurt.mState = "Dead"
          THEN dropItem /\ kills' = kills + 1
          ELSE UNCHANGED <<item, sightVars, deaths, kills>>
  /\ moved' = [moved EXCEPT ![m] = TRUE]
  /\ hits' = [hits EXCEPT ![p] = IF @ < 2 THEN @ + 1 ELSE 2]
  /\ UNCHANGED target

(* Dead monsters and those that go home cannot be hit, nor those out of range. *)
processPlayerAttackHit(p) ==
  \/ /\ target[p] # NoMonster /\ monster[target[p]].mState \notin {"Dead", "Return"}
     /\ Blow(p, target[p])
  \/ /\ target' = [target EXCEPT ![p] = IF @ # NoMonster /\ monster[@].mState \in {"Dead", "Return"}
                                        THEN NoMonster ELSE @]
     /\ UNCHANGED <<monster, moved, item, sightVars, deaths, kills, view, hits>>

PlayerUpdate(p) ==
  /\ Visit("players", p)
  /\ player' = [player EXCEPT ![p] = update(@, mBConnect[p])]
  /\ IF Strikes(player'[p])
     THEN processPlayerAttackHit(p)
     ELSE /\ IF player'[p].mState = "Attack"
             THEN UNCHANGED <<target, hits>>
             ELSE target' = [target EXCEPT ![p] = NoMonster] /\ hits' = [hits EXCEPT ![p] = 0]
          /\ UNCHANGED <<monster, moved, item, sightVars, deaths, kills, view>>
  /\ UNCHANGED <<stay, mBConnect, saved, mInventory, before, expired>>

(* The watcher changes sector, or it does not. *)
WatcherMoves ==
  /\ phase = "players" /\ todo = {} /\ phase' = "monsters" /\ todo' = Monsters
  /\ \E around \in SUBSET Monsters :
       view' = [m \in Monsters |-> CASE m \notin around -> Hidden
                                     [] m \in around /\ view[m].shown -> view[m]
                                     [] OTHER -> onMonsterSpawn(monster[m])]
  /\ \E items \in SUBSET {i \in Items : item[i] = "ground"} : sendItemBatches(items)
  /\ UNCHANGED <<playerVars, monsterVars, item, mInventory, deaths, expired, kills, hits>>

possibleChasePlayer(m) ==
  m.mTargetPlayerID \in players /\ player[m.mTargetPlayerID].mState # "Dead"

(* A monster that moves, neither turning nor starting, takes a step. *)
Walked(now, next) ==
  next.mState \in Moving /\ next.mState = now.mState /\ next.mDirection = now.mDirection

(* processMonsterAttackHit: the closest living player in range, if there is one. *)
processMonsterAttackHit ==
  \/ UNCHANGED player
  \/ \E p \in players : /\ player[p].mState # "Dead"
                        /\ player' = [player EXCEPT ![p] = takeDamage(@)]

MonsterUpdate(m) ==
  /\ Visit("monsters", m)
  /\ before' = [before EXCEPT ![m] = Face(monster[m])]
  /\ \E where \in Distance, inRange \in BOOLEAN :
       LET now == IF monster[m].mState = "Chase" /\ ~possibleChasePlayer(monster[m])
                  THEN giveUpChase(monster[m], where) ELSE monster[m]
       IN \E next \in Update(now, where, inRange) :
            /\ monster' = [monster EXCEPT ![m] = next]
            /\ moved' = [moved EXCEPT ![m] = @ \/ Walked(now, next)]
            /\ IF next.mState = "Attack" /\ next.mAnimFrame = MONSTER_ATTACK_WINDUP_FRAME
               THEN processMonsterAttackHit ELSE UNCHANGED player
  /\ UNCHANGED <<stay, mBConnect, target, saved, itemVars, view, hits>>

(* A monster that changes sector comes into the watcher's sight or leaves it; a   *)
(* dead one stays where it is listed.  updateMonsterSectorCheck leaves mDestSector *)
(* alone when the monster is back in mSector, so what knocked it out before it     *)
(* died is made good only in the frame after it has come back to life.             *)
ChangeMonsterSector(m) ==
  /\ Visit("monsterSectors", m)
  /\ IF moved[m] /\ before[m].mState # "Dead"
     THEN /\ \/ UNCHANGED view
             \/ view' = [view EXCEPT ![m] = IF @.shown THEN Hidden ELSE onMonsterSpawn(monster[m])]
          /\ moved' = [moved EXCEPT ![m] = FALSE]
     ELSE UNCHANGED <<view, moved>>
  /\ UNCHANGED <<playerVars, monster, before, itemVars, hits>>

ExpireItems ==
  /\ phase = "monsterSectors" /\ todo = {} /\ phase' = "packets" /\ todo' = players
  /\ \E old \in SUBSET {i \in Items : item[i] = "ground"} :
       /\ item' = [i \in Items |-> IF i \in old THEN "gone" ELSE item[i]]
       /\ broadcastItemDespawn(old)
       /\ expired' = expired + Cardinality(old)
  /\ UNCHANGED <<playerVars, monsterVars, deaths, kills, view, hits>>

-----------------------------------------------------------------------------
(* playerProc: packets of one player after another, as long as it is connected. *)

Packet(p) ==
  /\ phase = "packets" /\ p \in todo /\ mBConnect[p]
  /\ UNCHANGED <<phase, todo, stay, mBConnect, saved, monsterVars, view>>

MoveStart(p) ==
  /\ Packet(p) /\ player' = [player EXCEPT ![p] = handleMoveStart(@)]
  /\ UNCHANGED <<target, itemVars, hits>>

MoveStop(p) ==
  /\ Packet(p) /\ player' = [player EXCEPT ![p] = handleMoveStop(@)]
  /\ UNCHANGED <<target, itemVars, hits>>

AttackReq(p) ==
  /\ Packet(p) /\ AttackTaken(player[p])
  /\ player' = [player EXCEPT ![p] = handleAttackReq(@)]
  /\ \E m \in Monsters \union {NoMonster} : target' = [target EXCEPT ![p] = m]
  /\ hits' = [hits EXCEPT ![p] = 0]
  /\ UNCHANGED itemVars

(* Fault: a looted item is left in items. *)
TakenLeft(i) == UNCHANGED <<item, sightVars>>
(* The looted item is taken off the screens and erased from items. *)
Taken(i) == broadcastItemDespawn({i}) /\ item' = [item EXCEPT ![i] = "gone"]

(* handleLootReq: the item is there and near. *)
LootReq(p) ==
  /\ Packet(p)
  /\ \E i \in Items : item[i] = "ground" /\ Taken(i)
  /\ mInventory' = mInventory + 1
  /\ UNCHANGED <<player, target, deaths, expired, kills, hits>>

QueueEmpty(p) ==
  /\ Visit("packets", p)
  /\ UNCHANGED <<playerVars, monsterVars, itemVars, view, hits>>

-----------------------------------------------------------------------------

(* Fault: a monster that already moves is told to start without a stop. *)
AnnouncedOnce(v, m, b) ==
  CASE m.mState \in Moving -> {broadcastMonsterMoveStart(v, m)}
    [] m.mState = "Idle" /\ b.mState = "Dead" -> broadcastMonsterSpawn(Hidden, m)
    [] OTHER -> {broadcastMonsterMoveStop(v, m)}

(* monsterProc: the watcher's actor once it has heard of monster m, which was b.  *)
(* A monster that comes back to life is taken away and shown where it spawned.    *)
Announced(v, m, b) ==
  LET stopped == broadcastMonsterMoveStop(v, m) IN
  CASE m.mState \in Moving /\ b.mState \in Moving -> {broadcastMonsterMoveStart(stopped, m)}
    [] m.mState \in Moving /\ b.mState \notin Moving -> {broadcastMonsterMoveStart(v, m)}
    [] m.mState = "Attack" -> {broadcastMonsterAttack(stopped)}
    [] m.mState = "Idle" /\ b.mState = "Dead" ->
         broadcastMonsterSpawn(broadcastMonsterDespawn(v), m)
    [] m.mState = "Idle" /\ b.mState # "Dead" -> {stopped}
    [] m.mState \in {"Stun", "Dead"} -> {v}

Announce(m) ==
  /\ Visit("announce", m)
  /\ IF Face(monster[m]) = before[m]
     THEN UNCHANGED view
     ELSE \E v \in Announced(view[m], monster[m], before[m]) : view' = [view EXCEPT ![m] = v]
  /\ before' = [before EXCEPT ![m] = Face(monster[m])]
  /\ UNCHANGED <<playerVars, monster, moved, itemVars, hits>>

(* checkDisConnectedAndLeavePlayer asks for the position of who has disconnected *)
(* to be saved, and dbResultPacketProc removes it when it is: after a frame, or   *)
(* when none is due.                                                              *)
Leave ==
  /\ phase \in {"messages", "announce"} /\ todo = {} /\ phase' = "messages" /\ UNCHANGED todo
  /\ stay' = [p \in Players |-> IF saved[p] THEN "gone" ELSE stay[p]]
  /\ player' = [p \in Players |-> IF saved[p] THEN NewPlayer ELSE player[p]]
  /\ target' = [p \in Players |-> IF saved[p] THEN NoMonster ELSE target[p]]
  /\ hits' = [p \in Players |-> IF saved[p] THEN 0 ELSE hits[p]]
  /\ UNCHANGED <<mBConnect, saved, monsterVars, itemVars, view>>

(* A frame of the watcher's client. *)
WatcherFrame(m) ==
  /\ view[m].mHitTimer /\ view' = [view EXCEPT ![m] = actorUpdate(@)]
  /\ UNCHANGED <<phase, todo, playerVars, monsterVars, itemVars, hits>>

(* The db thread. *)
SaveAnswered(p) ==
  /\ p \in players /\ ~mBConnect[p] /\ ~saved[p] /\ saved' = [saved EXCEPT ![p] = TRUE]
  /\ UNCHANGED <<phase, todo, stay, mBConnect, player, target, monsterVars, itemVars, view, hits>>

-----------------------------------------------------------------------------

FieldThread ==
  \/ BeginFrame \/ NextLoop \/ WatcherMoves \/ ExpireItems \/ Leave
  \/ \E p \in Players : PlayerUpdate(p) \/ QueueEmpty(p)
  \/ \E m \in Monsters : MonsterUpdate(m) \/ ChangeMonsterSector(m) \/ Announce(m)

Clients == \E p \in Players :
  Disconnect(p) \/ MoveStart(p) \/ MoveStop(p) \/ AttackReq(p) \/ LootReq(p)

Next == FieldThread \/ Clients \/ (\E m \in Monsters : WatcherFrame(m)) \/ \E p \in Players : SaveAnswered(p)

Spec == Init /\ [][Next]_vars

-----------------------------------------------------------------------------
(* Properties *)

Monster == [mState : eMonsterState, mDirection : Directions,
            mAnimFrame : 0 .. Max({MONSTER_ATTACK_TOTAL_FRAME, MONSTER_RESPAWN_FRAME,
                                   MONSTER_IDLE_FRAME}),
            mHp : 0 .. MONSTER_MAX_HP, mHitStunFrame : 0 .. MONSTER_HIT_STUN_FRAME,
            mTargetPlayerID : Players \union {NoPlayer}, ok : BOOLEAN]

(* Type invariant. *)
TypeOK ==
  /\ stay \in [Players -> {"in", "gone"}] /\ mBConnect \in [Players -> BOOLEAN]
  /\ player \in [Players -> Player] /\ target \in [Players -> Monsters \union {NoMonster}]
  /\ saved \in [Players -> BOOLEAN] /\ mInventory \in Nat
  /\ monster \in [Monsters -> Monster] /\ before \in [Monsters -> [mState : eMonsterState, mDirection : Directions]]
  /\ item \in [Items -> {"unused", "ground", "gone"}]
  /\ near \subseteq {i \in Items : item[i] = "ground"} /\ mItemActors \subseteq Items
  /\ view \in [Monsters -> [shown : BOOLEAN, mBMove : BOOLEAN, mHp : 0 .. MONSTER_MAX_HP,
                            mDirection : Directions, mHitTimer : BOOLEAN, ok : BOOLEAN,
                            mSprite : {"Idle", "Move", "Attack", "Stun", "Down"}]]
  /\ todo \in SUBSET (players \union Monsters)

(* The watcher's screen and no assertion of a client or of changeState: whenever *)
(* the field thread has nothing left to tell, an actor walks if and only if its   *)
(* monster does, faces where it faces and has its hit points, in whatever order   *)
(* the frame's loops changed, hit, hid, showed and announced it; no MOVE_START    *)
(* reaches an actor that already walks; the dead lie down, and the timer of an    *)
(* earlier hit raises none of them.                                               *)
MonstersShown ==
  /\ \A m \in Monsters : monster[m].ok /\ view[m].ok
  /\ \A p \in Players : player[p].ok
  /\ \A m \in Monsters : view[m].shown => (view[m].mSprite = "Down" <=> view[m].mHp = 0)
  /\ phase = "messages" => \A m \in Monsters : view[m].shown =>
       /\ view[m].mBMove <=> monster[m].mState \in Moving
       /\ view[m].mDirection = monster[m].mDirection /\ view[m].mHp = monster[m].mHp

(* The items the watcher can pick up are the items on the ground around it,        *)
(* whatever dropped, expired or was looted while it changed sectors, and none is   *)
(* shown to it twice.                                                              *)
ItemsShown == mItemActors = near /\ ~asserted

(* What the watcher sees is what there is: MonstersShown and ItemsShown. *)
WatcherSees == MonstersShown /\ ItemsShown

(* Every death of a monster asks for one kill to be counted and drops one item,    *)
(* and every item lies on the ground, has expired or is in one inventory; and a    *)
(* swing of a connected player hits once.  (The frame counter of a disconnected    *)
(* player stands still, and if it stands on the wind-up frame, it hits again in    *)
(* every frame until its position is saved.)                                       *)
BlowsCount ==
  /\ kills = deaths
  /\ Cardinality({i \in Items : item[i] = "ground"}) + expired + mInventory = deaths
  /\ \A p \in Players : mBConnect[p] => hits[p] <= 1
=============================================================================

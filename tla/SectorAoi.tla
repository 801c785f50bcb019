----------------------------- MODULE SectorAoi -----------------------------
(***************************************************************************)
(* The area of interest of a field (FieldServer/FieldServer.cpp): the map  *)
(* is a grid of sectors and a client is told of what happens in its own    *)
(* sector and the eight around it.  The field thread alone owns the world, *)
(* and changes it in a fixed order of loops; what can go wrong is the      *)
(* bookkeeping: a client's picture of its neighbourhood is the sum of all  *)
(* SPAWN and DESPAWN packets it was ever sent, and must stay equal to the  *)
(* neighbourhood although everybody moves, dies, enters and leaves.        *)
(*                                                                         *)
(* One step is one iteration of one loop of fieldThread, or one packet.    *)
(* Disconnect is the only step of another thread: a worker clears          *)
(* mBConnect at any moment.                                                *)
(*                                                                         *)
(* Abstractions.  A position is the sector calcSector computes from it: a  *)
(* walk, a knock-back or an attack range reaches at most the next sector   *)
(* (speeds, ranges and knock-backs are below SECTOR_WORLD_W and            *)
(* SECTOR_WORLD_H), a position sent by a client may be anywhere.           *)
(* Of the monster states only Dead is told apart: a living monster may     *)
(* walk, strike, or change direction.  Hit points, animation frames and    *)
(* timers are choices.  The packets of a session arrive in the order sent  *)
(* (TCP and one mSendQ), so a view is updated when its packet is posted.   *)
(* CONFIG_DISCONNECT_AND_LEAVE_CAP is above the number of players here.    *)
(* A player never leaves a field for another: no code sets mNextFieldID    *)
(* once the player is in a field.                                          *)
(***************************************************************************)
EXTENDS Integers

CONSTANTS
  Cols, Rows,          (* SECTOR_COL_CNT, SECTOR_ROW_CNT                       *)
  Characters,          (* mCharacterID of the accounts that may log in         *)
  Monsters,            (* mMonsterID                                           *)
  Items,               (* bound: the values mItemUniqueID takes                *)
  SpawnSector          (* sector of each monster's mSpawnPos                   *)

Sector  == (0 .. Cols - 1) \X (0 .. Rows - 1)
Nowhere == <<-1, -1>>

ASSUME GridAssumption == Cols \in Nat /\ Rows \in Nat
ASSUME SpawnAssumption == SpawnSector \in [Monsters -> Sector]

VARIABLES
  phase, todo,                       (* loop of the field thread, what it has left *)
  players, sectors,                  (* the two registers of the players           *)
  pos, mCurrentSector, mDestSector,  (* players: sector of mPos, and the two kept  *)
  connected, pending,                (* mBConnect, DB_POSITION_SAVE_PENDING_BIT    *)
  monsterSectors,                    (* register of the monsters                   *)
  mpos, mSector, mDest,              (* monsters: sector of mPos, mSector and      *)
                                     (* mDestSector                                *)
  mState, mBeforeState,
  itemAt,                            (* items and itemSectors: where an item lies  *)
  mItemUniqueID,                     (* the ids given so far                       *)
  seenPlayers, seenMonsters, seenItems,  (* what each client has on its screen     *)
  left,                              (* history: characters that left the field    *)
  faults                             (* history: assertions that failed in clients *)

loopVars    == <<phase, todo>>
playerVars  == <<players, sectors, pos, mCurrentSector, mDestSector, connected,
                 pending, left>>
monsterVars == <<monsterSectors, mpos, mSector, mDest, mState, mBeforeState>>
itemVars    == <<itemAt, mItemUniqueID>>
clientVars  == <<seenPlayers, seenMonsters, seenItems, faults>>
vars == <<loopVars, playerVars, monsterVars, itemVars, clientVars>>

-----------------------------------------------------------------------------
(* The sectors of mAroundSectorCache: the centre and those that touch it.  *)
Around(s) == {t \in Sector : t[1] - s[1] \in -1 .. 1 /\ t[2] - s[2] \in -1 .. 1}

(* Fault: the whole neighbourhood is sent again.             *)
SpawnSectorsAll(from, to) == Around(to)

(* Fault: only the sector left goes out of view.             *)
DespawnSectorsOne(from, to) == {from} \ Around(to)

(* calcDespawnAndSpawnSector: what a move from one sector to another       *)
(* brings into view and takes out of it.                                   *)
SpawnSectors(from, to)   == Around(to) \ Around(from)
DespawnSectors(from, to) == Around(from) \ Around(to)

PlayersIn(S)  == UNION {sectors[s] : s \in S}
MonstersIn(S) == UNION {monsterSectors[s] : s \in S}
ItemsIn(S)    == {i \in Items : itemAt[i] \in S}

(* Posting packets: one about x to everybody of an audience, or one about  *)
(* each of S to the client c.  A post to a session that is gone is dropped.*)
Told(view, audience, x) ==
  [d \in Characters |->
     IF d \in audience /\ connected[d] THEN view[d] \cup {x} ELSE view[d]]
Untold(view, audience, x) ==
  [d \in Characters |->
     IF d \in audience /\ connected[d] THEN view[d] \ {x} ELSE view[d]]
ToldAll(view, c, S) ==
  IF connected[c] THEN [view EXCEPT ![c] = @ \cup S] ELSE view
UntoldAll(view, c, S) ==
  IF connected[c] THEN [view EXCEPT ![c] = @ \ S] ELSE view

(* The client asserts that a SPAWN is about something it does not have on  *)
(* its screen, and that other packets are about something it has.          *)
Twice(view, audience, x) ==
  IF \E d \in audience : connected[d] /\ x \in view[d] THEN {<<"twice", x>>} ELSE {}
TwiceAll(view, c, S) ==
  IF connected[c] THEN {<<"twice", x>> : x \in S \cap view[c]} ELSE {}
Unknown(view, audience, x) ==
  IF \E d \in audience : connected[d] /\ x \notin view[d]
  THEN {<<"unknown", x>>} ELSE {}

-----------------------------------------------------------------------------
(* spawnMonsters ran before the first loop; the registers of a player that *)
(* is not in the field hold Nowhere.                                       *)
Init ==
  /\ phase = "messages" /\ todo = {}
  /\ players = {} /\ sectors = [s \in Sector |-> {}]
  /\ pos = [c \in Characters |-> Nowhere]
  /\ mCurrentSector = pos /\ mDestSector = pos
  /\ connected = [c \in Characters |-> TRUE]
  /\ pending = {} /\ left = {}
  /\ mpos = SpawnSector /\ mSector = SpawnSector /\ mDest = SpawnSector
  /\ monsterSectors = [s \in Sector |-> {m \in Monsters : SpawnSector[m] = s}]
  /\ mState = [m \in Monsters |-> "alive"] /\ mBeforeState = mState
  /\ itemAt = [i \in Items |-> Nowhere] /\ mItemUniqueID = {}
  /\ seenPlayers = [c \in Characters |-> {}]
  /\ seenMonsters = seenPlayers /\ seenItems = seenPlayers
  /\ faults = {}

(* A worker clears mBConnect (onRelease); nobody reads that client's       *)
(* screen any more.                                                        *)
Disconnect(c) ==
  /\ c \in players /\ connected[c]
  /\ connected' = [connected EXCEPT ![c] = FALSE]
  /\ seenPlayers'  = [seenPlayers EXCEPT ![c] = {}]
  /\ seenMonsters' = [seenMonsters EXCEPT ![c] = {}]
  /\ seenItems'    = [seenItems EXCEPT ![c] = {}]
  /\ UNCHANGED <<loopVars, players, sectors, pos, mCurrentSector, mDestSector,
                 pending, left, monsterVars, itemVars, faults>>

-----------------------------------------------------------------------------
(* The loops of one turn of fieldThread, in order: "messages" (mMsgQ),     *)
(* then, in a turn that has a frame, "players" (move and strike),          *)
(* "sectors" (players that changed sector), "monsters" (move and strike),  *)
(* "monsterSectors", "expiry", "packets" (playerProc), "monsterProc", and  *)
(* always "leave" (requestPositionSave) and "results" (dbResultPacketProc).*)
Loop(from, to, work) ==
  /\ phase = from /\ todo = {}
  /\ phase' = to /\ todo' = work
  /\ UNCHANGED <<playerVars, monsterVars, itemVars, clientVars>>

NextLoop ==
  \/ Loop("messages", "players", players)
  \/ Loop("messages", "leave", {})               (* the frame is not due yet *)
  \/ Loop("players", "sectors", {c \in players : mCurrentSector[c] # mDestSector[c]})
  \/ Loop("sectors", "monsters", Monsters)
  \/ Loop("monsters", "monsterSectors",
          {m \in Monsters : mBeforeState[m] # "dead" /\ mSector[m] # mDest[m]})
  \/ Loop("monsterSectors", "expiry", {})
  \/ Loop("packets", "monsterProc", Monsters)
  \/ Loop("monsterProc", "leave", {})
  \/ Loop("results", "messages", {})

Visit(loop, x) == /\ phase = loop /\ x \in todo
                  /\ todo' = todo \ {x} /\ UNCHANGED phase

(* handleRegisterPlayer, enterSector: a new Player, its mBConnect TRUE,    *)
(* where the database last saw the character.                              *)
RegisterPlayer(c) ==
  /\ phase = "messages" /\ c \notin players
  /\ \E s \in Sector :
       LET near == Around(s)
           obs  == PlayersIn(near)
       IN /\ players' = players \cup {c}
          /\ sectors' = [sectors EXCEPT ![s] = @ \cup {c}]
          /\ pos' = [pos EXCEPT ![c] = s]
          /\ mCurrentSector' = [mCurrentSector EXCEPT ![c] = s]
          /\ mDestSector' = [mDestSector EXCEPT ![c] = s]
          /\ seenPlayers' = ToldAll(Told(seenPlayers, obs, c), c, obs)
          /\ seenMonsters' = ToldAll(seenMonsters, c, MonstersIn(near))
          /\ seenItems' = ToldAll(seenItems, c, ItemsIn(near))
          /\ faults' = faults \cup Twice(seenPlayers, obs, c)
                              \cup TwiceAll(seenPlayers, c, obs)
                              \cup TwiceAll(seenMonsters, c, MonstersIn(near))
                              \cup TwiceAll(seenItems, c, ItemsIn(near))
  /\ UNCHANGED <<loopVars, connected, pending, left, monsterVars, itemVars>>

-----------------------------------------------------------------------------
(* Fault: a disconnected player is not looked at.            *)
CheckSectorConnected(c, p) ==
  mDestSector' = IF p = mCurrentSector[c] \/ ~connected[c]
                 THEN mDestSector ELSE [mDestSector EXCEPT ![c] = p]

(* updateSectorChechk: mDestSector is left alone when the position is in   *)
(* the sector the player is registered in.                                 *)
CheckSector(c, p) ==
  mDestSector' = IF p = mCurrentSector[c] THEN mDestSector
                                         ELSE [mDestSector EXCEPT ![c] = p]

(* Player::update of a player that does not strike in this frame.          *)
PlayerUpdate(c) ==
  /\ Visit("players", c)
  /\ \E p \in IF connected[c] THEN Around(pos[c]) ELSE {pos[c]} :
       /\ pos' = [pos EXCEPT ![c] = p]
       /\ CheckSector(c, p)
  /\ UNCHANGED <<players, sectors, mCurrentSector, connected, pending, left,
                 monsterVars, itemVars, clientVars>>

(* rollDrop, dropItem: perhaps an item where the monster fell.             *)
DropItem(p, hurt) ==
  \/ UNCHANGED <<itemVars, seenItems>> /\ faults' = faults \cup hurt
  \/ \E i \in Items \ mItemUniqueID :
       LET obs == PlayersIn(Around(p))
       IN /\ mItemUniqueID' = mItemUniqueID \cup {i}
          /\ itemAt' = [itemAt EXCEPT ![i] = p]
          /\ seenItems' = Told(seenItems, obs, i)
          /\ faults' = faults \cup hurt \cup Twice(seenItems, obs, i)

(* Player::update and processPlayerAttackHit at the frame of the strike:   *)
(* the monster is pushed, MONSTER_DAMAGED goes around the sector it is     *)
(* registered in, and it may die of it.  The frame counter of a player     *)
(* that has disconnected stands still, on that frame too.                  *)
PlayerStrike(c, m) ==
  /\ Visit("players", c)
  /\ mState[m] = "alive" /\ mpos[m] \in Around(pos[c])
  /\ \E p \in Around(mpos[m]) :
       LET hurt == Unknown(seenMonsters, PlayersIn(Around(mSector[m])), m)
       IN /\ mpos' = [mpos EXCEPT ![m] = p]
          /\ \/ /\ faults' = faults \cup hurt
                /\ UNCHANGED <<mState, itemVars, seenItems>>
             \/ /\ mState' = [mState EXCEPT ![m] = "dead"]
                /\ DropItem(p, hurt)
  /\ CheckSector(c, pos[c])
  /\ UNCHANGED <<players, sectors, pos, mCurrentSector, connected, pending, left,
                 monsterSectors, mSector, mDest, mBeforeState,
                 seenPlayers, seenMonsters>>

(* The second loop of fieldUpdate, for a player that changed sector: four  *)
(* calls for what comes into view, four for what goes out of it, while the *)
(* player is still registered in its old sector.                           *)
ChangeSector(c) ==
  LET old     == mCurrentSector[c]
      new     == mDestSector[c]
      spawn   == SpawnSectors(old, new)
      despawn == DespawnSectors(old, new)
      come    == PlayersIn(spawn) \ {c}
      go      == PlayersIn(despawn) \ {c}
  IN /\ Visit("sectors", c)
     /\ seenPlayers' =
          UntoldAll(Untold(ToldAll(Told(seenPlayers, come, c), c, come), go, c), c, go)
     /\ seenMonsters' =
          UntoldAll(ToldAll(seenMonsters, c, MonstersIn(spawn)), c, MonstersIn(despawn))
     /\ seenItems' =
          UntoldAll(ToldAll(seenItems, c, ItemsIn(spawn)), c, ItemsIn(despawn))
     /\ faults' = faults \cup Twice(seenPlayers, come, c)
                         \cup TwiceAll(seenPlayers, c, come)
                         \cup TwiceAll(seenMonsters, c, MonstersIn(spawn))
                         \cup TwiceAll(seenItems, c, ItemsIn(spawn))
     /\ sectors' = [s \in Sector |-> IF s = new THEN sectors[s] \cup {c}
                                     ELSE IF s = old THEN sectors[s] \ {c}
                                     ELSE sectors[s]]
     /\ mCurrentSector' = [mCurrentSector EXCEPT ![c] = new]
     /\ UNCHANGED <<players, pos, mDestSector, connected, pending, left,
                    monsterVars, itemVars>>

-----------------------------------------------------------------------------
(* updateMonsterSectorCheck, with the same early return.                   *)
CheckMonsterSector(m, p) ==
  mDest' = IF p = mSector[m] THEN mDest ELSE [mDest EXCEPT ![m] = p]

(* Monster::Update of a monster that does not strike: a living one may     *)
(* walk, a dead one may reach its respawn frame and is then alive where it *)
(* was first placed.                                                       *)
MonsterUpdate(m) ==
  /\ Visit("monsters", m)
  /\ mBeforeState' = [mBeforeState EXCEPT ![m] = mState[m]]
  /\ \/ /\ mState[m] = "alive"
        /\ \E p \in Around(mpos[m]) : /\ mpos' = [mpos EXCEPT ![m] = p]
                                     /\ CheckMonsterSector(m, p)
        /\ UNCHANGED mState
     \/ /\ mState[m] = "dead"
        /\ CheckMonsterSector(m, mpos[m])
        /\ UNCHANGED <<mpos, mState>>
     \/ /\ mState[m] = "dead"
        /\ mState' = [mState EXCEPT ![m] = "alive"]
        /\ mpos' = [mpos EXCEPT ![m] = SpawnSector[m]]
        /\ CheckMonsterSector(m, SpawnSector[m])
  /\ UNCHANGED <<playerVars, monsterSectors, mSector, itemVars, clientVars>>

(* processMonsterAttackHit: a player registered around the monster, and    *)
(* near it, is pushed; CHARACTER_DAMAGED is ignored by a client that does  *)
(* not know the character.  Disconnected players are hit too.              *)
MonsterStrike(m, c) ==
  /\ Visit("monsters", m)
  /\ mState[m] = "alive"
  /\ c \in PlayersIn(Around(mSector[m])) /\ pos[c] \in Around(mpos[m])
  /\ \E p \in Around(pos[c]) : pos' = [pos EXCEPT ![c] = p]
  /\ mBeforeState' = [mBeforeState EXCEPT ![m] = "alive"]
  /\ CheckMonsterSector(m, mpos[m])
  /\ UNCHANGED <<players, sectors, mCurrentSector, mDestSector, connected, pending,
                 left, monsterSectors, mpos, mSector, mState, itemVars, clientVars>>

(* The register of the monsters when m moves from one sector to another.   *)
Relocate(m, from, to) ==
  /\ monsterSectors' = [s \in Sector |->
       IF s = to THEN monsterSectors[s] \cup {m}
       ELSE IF s = from THEN monsterSectors[s] \ {m} ELSE monsterSectors[s]]
  /\ mSector' = [mSector EXCEPT ![m] = to]

(* The fourth loop of fieldUpdate, for a monster that changed sector and   *)
(* was not dead when its update began.                                     *)
ChangeMonsterSector(m) ==
  LET come == PlayersIn(SpawnSectors(mSector[m], mDest[m]))
      go   == PlayersIn(DespawnSectors(mSector[m], mDest[m]))
  IN /\ Visit("monsterSectors", m)
     /\ seenMonsters' = Untold(Told(seenMonsters, come, m), go, m)
     /\ faults' = faults \cup Twice(seenMonsters, come, m)
     /\ Relocate(m, mSector[m], mDest[m])
     /\ UNCHANGED <<playerVars, mpos, mDest, mState, mBeforeState, itemVars,
                    seenPlayers, seenItems>>

(* The items whose time is up (IsExpired).                                 *)
ExpireItems ==
  /\ phase = "expiry"
  /\ phase' = "packets" /\ UNCHANGED todo
  /\ \E gone \in SUBSET {i \in Items : itemAt[i] # Nowhere} :
       /\ itemAt' = [i \in Items |-> IF i \in gone THEN Nowhere ELSE itemAt[i]]
       /\ seenItems' = [d \in Characters |->
            IF connected[d]
            THEN {i \in seenItems[d] : ~(i \in gone /\ d \in PlayersIn(Around(itemAt[i])))}
            ELSE seenItems[d]]
  /\ UNCHANGED <<playerVars, monsterVars, mItemUniqueID,
                 seenPlayers, seenMonsters, faults>>

-----------------------------------------------------------------------------
(* playerProc: the packets in the queues of the connected players.         *)
Packet(c) == phase = "packets" /\ c \in players /\ connected[c] /\ UNCHANGED loopVars

(* handleMoveStart, handleMoveStop: the position the client sends.         *)
Move(c) ==
  /\ Packet(c)
  /\ \E p \in Sector : pos' = [pos EXCEPT ![c] = p]
  /\ faults' = faults \cup
       Unknown(seenPlayers, PlayersIn(Around(mCurrentSector[c])) \ {c}, c)
  /\ UNCHANGED <<players, sectors, mCurrentSector, mDestSector, connected, pending,
                 left, monsterVars, itemVars, seenPlayers, seenMonsters, seenItems>>

(* handleAttackReq: the animation starts; the strike comes frames later.   *)
AttackReq(c) ==
  /\ Packet(c)
  /\ faults' = faults \cup
       Unknown(seenPlayers, PlayersIn(Around(mCurrentSector[c])) \ {c}, c)
  /\ UNCHANGED <<playerVars, monsterVars, itemVars,
                 seenPlayers, seenMonsters, seenItems>>

(* handleLootReq of an item in reach; ITEM_DESPAWN goes around the item.   *)
LootReq(c, i) ==
  /\ Packet(c)
  /\ itemAt[i] \in Around(pos[c])
  /\ itemAt' = [itemAt EXCEPT ![i] = Nowhere]
  /\ seenItems' = Untold(seenItems, PlayersIn(Around(itemAt[i])), i)
  /\ UNCHANGED <<playerVars, monsterVars, mItemUniqueID,
                 seenPlayers, seenMonsters, faults>>

-----------------------------------------------------------------------------
(* monsterProc: a monster that came back to life in this frame is taken    *)
(* from every screen around its corpse and shown around mDestSector, where *)
(* it is registered from now on.                                           *)
Respawn(m) ==
  LET away == Untold(seenMonsters, PlayersIn(Around(mSector[m])), m)
      come == PlayersIn(Around(mDest[m]))
  IN /\ Visit("monsterProc", m)
     /\ mState[m] = "alive" /\ mBeforeState[m] = "dead"
     /\ seenMonsters' = Told(away, come, m)
     /\ faults' = faults \cup Twice(away, come, m)
     /\ Relocate(m, mSector[m], mDest[m])
     /\ mBeforeState' = [mBeforeState EXCEPT ![m] = "alive"]
     /\ UNCHANGED <<playerVars, mpos, mDest, mState, itemVars, seenPlayers, seenItems>>

(* monsterProc: any other monster; a living one whose state or direction   *)
(* changed is announced (MONSTER_MOVE_START, MOVE_STOP, ATTACK).           *)
Announce(m) ==
  /\ Visit("monsterProc", m)
  /\ \/ mState[m] = mBeforeState[m] /\ UNCHANGED faults
     \/ /\ mState[m] = "alive" /\ mBeforeState[m] = "alive"
        /\ faults' = faults \cup
             Unknown(seenMonsters, PlayersIn(Around(mSector[m])), m)
  /\ UNCHANGED <<playerVars, monsterVars, itemVars,
                 seenPlayers, seenMonsters, seenItems>>

(* checkDisConnectedAndLeavePlayer: ask for the position of the players    *)
(* that disconnected to be saved, once each.                               *)
RequestSaves ==
  /\ phase = "leave"
  /\ phase' = "results" /\ UNCHANGED todo
  /\ pending' = pending \cup {c \in players : ~connected[c]}
  /\ UNCHANGED <<players, sectors, pos, mCurrentSector, mDestSector, connected, left,
                 monsterVars, itemVars, clientVars>>

(* Fault: the player stays in its sector's register.         *)
SaveResultRegistered(c) ==
  /\ phase = "results" /\ UNCHANGED loopVars
  /\ c \in pending
  /\ pending' = pending \ {c}
  /\ players' = players \ {c}
  /\ pos' = [pos EXCEPT ![c] = Nowhere]
  /\ mCurrentSector' = [mCurrentSector EXCEPT ![c] = Nowhere]
  /\ mDestSector' = [mDestSector EXCEPT ![c] = Nowhere]
  /\ connected' = [connected EXCEPT ![c] = TRUE]
  /\ left' = left \cup {c}
  /\ UNCHANGED <<sectors, monsterVars, itemVars, clientVars>>

(* dbResultPacketProc, the result of a PositionSave: the player leaves the *)
(* registers.  The neighbours are told nothing.                            *)
SaveResult(c) ==
  /\ phase = "results" /\ UNCHANGED loopVars
  /\ c \in pending
  /\ pending' = pending \ {c}
  /\ sectors' = [sectors EXCEPT ![mCurrentSector[c]] = @ \ {c}]
  /\ players' = players \ {c}
  /\ pos' = [pos EXCEPT ![c] = Nowhere]
  /\ mCurrentSector' = [mCurrentSector EXCEPT ![c] = Nowhere]
  /\ mDestSector' = [mDestSector EXCEPT ![c] = Nowhere]
  /\ connected' = [connected EXCEPT ![c] = TRUE]
  /\ left' = left \cup {c}
  /\ UNCHANGED <<monsterVars, itemVars, clientVars>>

Next ==
  \/ NextLoop
  \/ \E c \in Characters : \/ Disconnect(c) \/ RegisterPlayer(c) \/ PlayerUpdate(c)
                          \/ ChangeSector(c) \/ Move(c) \/ AttackReq(c) \/ SaveResult(c)
                          \/ \E m \in Monsters : PlayerStrike(c, m) \/ MonsterStrike(m, c)
                          \/ \E i \in Items : LootReq(c, i)
  \/ \E m \in Monsters : \/ MonsterUpdate(m) \/ ChangeMonsterSector(m)
                        \/ Respawn(m) \/ Announce(m)
  \/ ExpireItems
  \/ RequestSaves

Spec == Init /\ [][Next]_vars

-----------------------------------------------------------------------------
(* PROPERTIES                                                              *)

Phases == {"messages", "players", "sectors", "monsters", "monsterSectors", "expiry",
           "packets", "monsterProc", "leave", "results"}
Place  == Sector \cup {Nowhere}
Things == Characters \cup Monsters \cup Items

(* Every variable has its type.                                            *)
TypeOK ==
  /\ phase \in Phases /\ todo \subseteq Characters \cup Monsters
  /\ players \subseteq Characters /\ sectors \in [Sector -> SUBSET Characters]
  /\ pos \in [Characters -> Place] /\ mCurrentSector \in [Characters -> Place]
  /\ mDestSector \in [Characters -> Place] /\ connected \in [Characters -> BOOLEAN]
  /\ pending \subseteq players /\ left \subseteq Characters
  /\ monsterSectors \in [Sector -> SUBSET Monsters]
  /\ mpos \in [Monsters -> Sector] /\ mSector \in [Monsters -> Sector]
  /\ mDest \in [Monsters -> Sector]
  /\ mState \in [Monsters -> {"alive", "dead"}]
  /\ mBeforeState \in [Monsters -> {"alive", "dead"}]
  /\ itemAt \in [Items -> Place] /\ mItemUniqueID \subseteq Items
  /\ seenPlayers \in [Characters -> SUBSET Characters]
  /\ seenMonsters \in [Characters -> SUBSET Monsters]
  /\ seenItems \in [Characters -> SUBSET Items]
  /\ faults \subseteq {"twice", "unknown"} \X Things

(* The registers of the sectors agree with the sector each player and each *)
(* monster believes it is in, and only players of the field are in them:   *)
(* the finds before every erase (FieldServer.cpp:726, 785, 912, 1687)      *)
(* assert it, on paths that are far from where the sector was written.     *)
RegistersAgree ==
  /\ \A s \in Sector : sectors[s] = {c \in players : mCurrentSector[c] = s}
  /\ \A s \in Sector : monsterSectors[s] = {m \in Monsters : mSector[m] = s}
  /\ \A c \in players : mCurrentSector[c] \in Sector

Watchers == {c \in players : connected[c]}
Near(c, d) == mCurrentSector[d] \in Around(mCurrentSector[c])

(* Nobody walks about invisibly: a connected client shows every other      *)
(* player of the field that is registered around it, whatever the order in *)
(* which the two moved, entered or came back.                              *)
NeighboursShown ==
  \A c \in Watchers : \A d \in players \ {c} : Near(c, d) => d \in seenPlayers[c]

(* Nobody is shown where he is not: a character on a client's screen is a  *)
(* player of the field registered around it.  Characters that disconnected *)
(* at some time are excepted, see NoClientFault.                           *)
OnlyNeighboursShown ==
  \A c \in Watchers : \A d \in seenPlayers[c] \ left : d \in players \ {c} /\ Near(c, d)

(* A connected client shows exactly the monsters, dead or alive, and the   *)
(* items of the sectors around it: deaths, respawns far from the corpse,   *)
(* drops, loots and expiries reach everybody who can see the place.        *)
WorldShown ==
  \A c \in Watchers :
    /\ seenMonsters[c] = {m \in Monsters : mSector[m] \in Around(mCurrentSector[c])}
    /\ seenItems[c] = {i \in Items : itemAt[i] \in Around(mCurrentSector[c])}

(* A client's picture is its neighbourhood: nobody is missing, nobody but  *)
(* the ghosts of disconnected characters is too many, and the monsters and *)
(* items are exactly those around it.                                      *)
ScreensRight == NeighboursShown /\ OnlyNeighboursShown /\ WorldShown

(* The assertions of the client (ClientProject/Scene/FieldScene.cpp:252,   *)
(* 299, 362, 372, 385, 397, 420, 457, 488, 499, 531, 547) hold of every    *)
(* packet the server posts, except a SPAWN of a character that has left    *)
(* the field before.                                                       *)
FaultsOfReturners == faults \subseteq {"twice"} \X left

(* The same without exception, as the client asserts it.                   *)
NoClientFault == faults = {}

(* Once a frame the registers catch up with the positions: those of the    *)
(* players before any monster moves, those of the monsters before any      *)
(* packet is read.  A monster that respawns is excepted for one frame: it  *)
(* is moved by monsterProc, and to the sector its corpse was pushed to if  *)
(* it came back to the sector it is registered in.                         *)
RegistersCatchUp ==
  /\ phase = "monsters" /\ todo = Monsters =>
       \A c \in players : mCurrentSector[c] = pos[c]
  /\ phase \in {"expiry", "packets"} =>
       \A m \in Monsters : mBeforeState[m] # "dead" => mSector[m] = mpos[m]
=============================================================================

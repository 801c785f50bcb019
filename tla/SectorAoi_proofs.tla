-------------------------- MODULE SectorAoi_proofs --------------------------
(***************************************************************************)
(* Proofs about SectorAoi, for every size of the map and any number of     *)
(* characters, monsters and items: what connected clients have on their    *)
(* screens is what is registered around them, and no client assertion      *)
(* fails but for characters that came back.                                *)
(***************************************************************************)
EXTENDS SectorAoi, TLAPS

-----------------------------------------------------------------------------
(* The geometry of the grid, all that is ever used of it.                  *)

(* Two sectors are around each other or neither is around the other; this  *)
(* is why one loop over the neighbourhood of the one that moves serves     *)
(* both its own screen and the screens of the others.                      *)
LEMMA AroundSymmetric ==
  ASSUME NEW s \in Sector, NEW t \in Sector
  PROVE  t \in Around(s) <=> s \in Around(t)
<1>1. s[1] \in Int /\ s[2] \in Int /\ t[1] \in Int /\ t[2] \in Int
  BY GridAssumption DEF Sector
<1>2. (t[1] - s[1] \in -1 .. 1 <=> s[1] - t[1] \in -1 .. 1)
      /\ (t[2] - s[2] \in -1 .. 1 <=> s[2] - t[2] \in -1 .. 1)
  BY <1>1
<1>3. QED BY <1>2 DEF Around

(* A sector is around itself.                                              *)
LEMMA AroundSelf == \A s \in Sector : s \in Around(s)
<1>1. SUFFICES ASSUME NEW s \in Sector PROVE s \in Around(s)
  OBVIOUS
<1>2. s[1] \in Int /\ s[2] \in Int
  BY GridAssumption DEF Sector
<1>3. s[1] - s[1] \in -1 .. 1 /\ s[2] - s[2] \in -1 .. 1
  BY <1>2
<1>4. QED BY <1>3 DEF Around

(* A neighbourhood lies in the map.                                        *)
LEMMA AroundSectors == \A s : Around(s) \subseteq Sector
BY DEF Around

(* The place of those that are not in the field is no sector.              *)
LEMMA NowhereOutside == Nowhere \notin Sector
<1>1. \A s \in Sector : s[1] # -1
  BY GridAssumption DEF Sector
<1>2. Nowhere[1] = -1 BY DEF Nowhere
<1>3. QED BY <1>1, <1>2

-----------------------------------------------------------------------------
(* The inductive invariant.                                                *)

(* A player of the field is somewhere; a client that is not connected has  *)
(* nothing on its screen; positions are saved of disconnected players      *)
(* only; the ids of items that were not given are unused.                  *)
Shape ==
  /\ \A c \in players : /\ pos[c] \in Sector
                        /\ mCurrentSector[c] \in Sector /\ mDestSector[c] \in Sector
  /\ \A c \in Characters \ players : connected[c]
  /\ \A c \in Characters \ Watchers :
       seenPlayers[c] = {} /\ seenMonsters[c] = {} /\ seenItems[c] = {}
  /\ \A i \in Items \ mItemUniqueID : itemAt[i] = Nowhere
  /\ \A c \in pending : ~connected[c]
  /\ phase \in {"players", "sectors"} => todo \subseteq players

Screens == NeighboursShown /\ OnlyNeighboursShown /\ WorldShown

IInv == TypeOK /\ Shape /\ RegistersAgree /\ Screens /\ FaultsOfReturners

(* What the loops over the sectors of a neighbourhood visit.               *)
LEMMA Visited ==
  ASSUME RegistersAgree, NEW S, S \subseteq Sector
  PROVE  /\ PlayersIn(S) = {c \in players : mCurrentSector[c] \in S}
         /\ MonstersIn(S) = {m \in Monsters : mSector[m] \in S}
BY DEF RegistersAgree, PlayersIn, MonstersIn

(* Everybody told of a player's move, or of a monster's, knows who it is.  *)
LEMMA Known ==
  ASSUME IInv
  PROVE  /\ \A c \in players :
              Unknown(seenPlayers, PlayersIn(Around(mCurrentSector[c])) \ {c}, c) = {}
         /\ \A m \in Monsters :
              Unknown(seenMonsters, PlayersIn(Around(mSector[m])), m) = {}
<1>1. ASSUME NEW c \in players
      PROVE  Unknown(seenPlayers, PlayersIn(Around(mCurrentSector[c])) \ {c}, c) = {}
  <2>1. SUFFICES ASSUME NEW d \in PlayersIn(Around(mCurrentSector[c])) \ {c}, connected[d]
                 PROVE  c \in seenPlayers[d]
    BY DEF Unknown
  <2>2. d \in players /\ mCurrentSector[d] \in Around(mCurrentSector[c])
    BY Visited, AroundSectors DEF IInv
  <2>3. mCurrentSector[c] \in Around(mCurrentSector[d])
    BY <2>2, AroundSymmetric DEF IInv, Shape
  <2>4. QED BY <2>2, <2>3, <2>1 DEF IInv, Screens, NeighboursShown, Near, Watchers
<1>2. ASSUME NEW m \in Monsters
      PROVE  Unknown(seenMonsters, PlayersIn(Around(mSector[m])), m) = {}
  <2>1. SUFFICES ASSUME NEW d \in PlayersIn(Around(mSector[m])), connected[d]
                 PROVE  m \in seenMonsters[d]
    BY DEF Unknown
  <2>2. d \in players /\ mCurrentSector[d] \in Around(mSector[m])
    BY Visited, AroundSectors DEF IInv
  <2>3. mSector[m] \in Around(mCurrentSector[d])
    BY <2>2, AroundSymmetric DEF IInv, Shape, TypeOK
  <2>4. QED BY <2>2, <2>3, <2>1 DEF IInv, Screens, WorldShown, Watchers
<1>3. QED BY <1>1, <1>2

-----------------------------------------------------------------------------
(* Steps that move nobody from one register to another.                    *)

(* Such a step keeps the invariant if it keeps the types and the shape.    *)
LEMMA QuietStep ==
  ASSUME IInv, TypeOK', Shape', faults' = faults,
         UNCHANGED <<players, sectors, mCurrentSector, connected, left, monsterSectors,
                     mSector, itemAt, seenPlayers, seenMonsters, seenItems>>
  PROVE  IInv'
<1>1. RegistersAgree' BY DEF IInv, RegistersAgree
<1>2. Watchers' = Watchers /\ \A c, d : Near(c, d)' <=> Near(c, d)
  BY DEF Watchers, Near
<1>3. Screens'
  BY <1>2 DEF IInv, Screens, NeighboursShown, OnlyNeighboursShown, WorldShown
<1>4. FaultsOfReturners' BY DEF IInv, FaultsOfReturners
<1>5. QED BY <1>1, <1>3, <1>4 DEF IInv

(* Every loop of the field thread that only turns over.                    *)
LEMMA NextLoopStep == ASSUME IInv, NextLoop PROVE IInv'
<1>1. UNCHANGED <<playerVars, monsterVars, itemVars, clientVars>>
  BY DEF NextLoop, Loop
<1>2. TypeOK'
  <2>1. phase' \in Phases BY DEF NextLoop, Loop, Phases
  <2>2. todo' \subseteq Characters \cup Monsters
    BY DEF NextLoop, Loop, IInv, TypeOK
  <2>3. QED
    BY <1>1, <2>1, <2>2 DEF IInv, TypeOK, playerVars, monsterVars, itemVars, clientVars
<1>3. Shape'
  <2>1. phase' \in {"players", "sectors"} => todo' \subseteq players'
    BY <1>1 DEF NextLoop, Loop, playerVars
  <2>2. Watchers' = Watchers BY <1>1 DEF Watchers, playerVars
  <2>3. QED
    BY <1>1, <2>1, <2>2 DEF IInv, Shape, playerVars, monsterVars, itemVars, clientVars
<1>4. QED
  BY <1>1, <1>2, <1>3, QuietStep DEF playerVars, monsterVars, itemVars, clientVars

(* Visiting one more player or monster leaves the loop's work well-formed. *)
LEMMA VisitStep ==
  ASSUME IInv, NEW loop, NEW x, Visit(loop, x), UNCHANGED players
  PROVE  /\ phase' \in Phases /\ todo' \subseteq Characters \cup Monsters
         /\ phase' \in {"players", "sectors"} => todo' \subseteq players'
BY DEF Visit, IInv, TypeOK, Shape

(* A player's walk.                                                        *)
LEMMA PlayerUpdateStep ==
  ASSUME IInv, NEW c \in Characters, PlayerUpdate(c) PROVE IInv'
<1>1. PICK p \in Place : pos' = [pos EXCEPT ![c] = p] /\ CheckSector(c, p) /\ p \in Sector
  <2>1. c \in players BY DEF PlayerUpdate, Visit, IInv, Shape
  <2>2. pos[c] \in Sector BY <2>1 DEF IInv, Shape
  <2>3. QED BY <2>2, AroundSectors DEF PlayerUpdate, Place
<1>2. UNCHANGED <<players, sectors, mCurrentSector, connected, pending, left,
                  monsterVars, itemVars, clientVars>>
  BY DEF PlayerUpdate
<1>3. Visit("players", c) BY DEF PlayerUpdate
<1>4. mDestSector' \in [Characters -> Place]
      /\ \A d \in players : mDestSector'[d] \in Sector
  BY <1>1 DEF CheckSector, IInv, TypeOK, Shape
<1>5. pos' \in [Characters -> Place] /\ \A d \in players : pos'[d] \in Sector
  BY <1>1 DEF IInv, TypeOK, Shape
<1>6. TypeOK'
  BY <1>2, <1>3, <1>4, <1>5, VisitStep
  DEF IInv, TypeOK, monsterVars, itemVars, clientVars
<1>7. Shape'
  <2>1. Watchers' = Watchers BY <1>2 DEF Watchers
  <2>2. QED
    BY <1>2, <1>3, <1>4, <1>5, <2>1, VisitStep
    DEF IInv, Shape, monsterVars, itemVars, clientVars
<1>8. QED BY <1>2, <1>6, <1>7, QuietStep DEF monsterVars, itemVars, clientVars

(* A monster's walk, or its coming back to life.                           *)
LEMMA MonsterUpdateStep ==
  ASSUME IInv, NEW m \in Monsters, MonsterUpdate(m) PROVE IInv'
<1>1. UNCHANGED <<playerVars, monsterSectors, mSector, itemVars, clientVars>>
      /\ Visit("monsters", m)
  BY DEF MonsterUpdate
<1>2. /\ mpos' \in [Monsters -> Sector] /\ mDest' \in [Monsters -> Sector]
      /\ mState' \in [Monsters -> {"alive", "dead"}]
      /\ mBeforeState' \in [Monsters -> {"alive", "dead"}]
  <2>1. mpos \in [Monsters -> Sector] /\ mDest \in [Monsters -> Sector]
        /\ mState \in [Monsters -> {"alive", "dead"}]
        /\ mBeforeState \in [Monsters -> {"alive", "dead"}]
    BY DEF IInv, TypeOK
  <2>2. \A p \in Sector : CheckMonsterSector(m, p) => mDest' \in [Monsters -> Sector]
    BY <2>1 DEF CheckMonsterSector
  <2>3. mpos[m] \in Sector /\ SpawnSector[m] \in Sector
    BY <2>1, SpawnAssumption
  <2>4. mBeforeState' \in [Monsters -> {"alive", "dead"}]
    BY <2>1 DEF MonsterUpdate
  <2>5. CASE \E p \in Around(mpos[m]) : mpos' = [mpos EXCEPT ![m] = p]
                                       /\ CheckMonsterSector(m, p) /\ mState' = mState
    BY <2>1, <2>2, <2>4, <2>5, AroundSectors
  <2>6. CASE CheckMonsterSector(m, mpos[m]) /\ UNCHANGED <<mpos, mState>>
    BY <2>1, <2>2, <2>3, <2>4, <2>6
  <2>7. CASE /\ mState' = [mState EXCEPT ![m] = "alive"]
             /\ mpos' = [mpos EXCEPT ![m] = SpawnSector[m]]
             /\ CheckMonsterSector(m, SpawnSector[m])
    BY <2>1, <2>2, <2>3, <2>4, <2>7
  <2>8. QED BY <2>5, <2>6, <2>7 DEF MonsterUpdate
<1>3. TypeOK'
  BY <1>1, <1>2, VisitStep DEF IInv, TypeOK, playerVars, itemVars, clientVars
<1>4. Shape'
  <2>1. Watchers' = Watchers BY <1>1 DEF Watchers, playerVars
  <2>2. QED BY <1>1, <2>1, VisitStep DEF IInv, Shape, playerVars, itemVars, clientVars
<1>5. QED BY <1>1, <1>3, <1>4, QuietStep DEF playerVars, itemVars, clientVars

(* A monster pushes a player, connected or not.                            *)
LEMMA MonsterStrikeStep ==
  ASSUME IInv, NEW m \in Monsters, NEW c \in Characters, MonsterStrike(m, c) PROVE IInv'
<1>1. /\ UNCHANGED <<players, sectors, mCurrentSector, mDestSector, connected, pending,
                      left, monsterSectors, mpos, mSector, mState, itemVars, clientVars>>
      /\ Visit("monsters", m)
  BY DEF MonsterStrike
<1>2. /\ mDest' \in [Monsters -> Sector]
      /\ mBeforeState' \in [Monsters -> {"alive", "dead"}]
      /\ pos' \in [Characters -> Place] /\ \A d \in players : pos'[d] \in Sector
  BY AroundSectors DEF MonsterStrike, CheckMonsterSector, IInv, TypeOK, Shape, Place
<1>3. TypeOK' BY <1>1, <1>2, VisitStep DEF IInv, TypeOK, itemVars, clientVars
<1>4. Shape'
  <2>1. Watchers' = Watchers BY <1>1 DEF Watchers
  <2>2. QED BY <1>1, <1>2, <2>1, VisitStep DEF IInv, Shape, itemVars, clientVars
<1>5. QED BY <1>1, <1>3, <1>4, QuietStep DEF itemVars, clientVars

(* An announcement reaches only clients that know the monster.             *)
LEMMA AnnounceStep ==
  ASSUME IInv, NEW m \in Monsters, Announce(m) PROVE IInv'
<1>1. /\ UNCHANGED <<playerVars, monsterVars, itemVars, seenPlayers, seenMonsters, seenItems>>
      /\ Visit("monsterProc", m)
  BY DEF Announce
<1>2. faults' = faults BY Known DEF Announce
<1>3. TypeOK'
  BY <1>1, <1>2, VisitStep DEF IInv, TypeOK, playerVars, monsterVars, itemVars
<1>4. Shape'
  <2>1. Watchers' = Watchers BY <1>1 DEF Watchers, playerVars
  <2>2. QED BY <1>1, <2>1, VisitStep DEF IInv, Shape, playerVars, itemVars
<1>5. QED BY <1>1, <1>2, <1>3, <1>4, QuietStep DEF playerVars, monsterVars, itemVars

(* A position or an attack from a client: the registers wait.              *)
LEMMA PacketStep ==
  ASSUME IInv, NEW c \in Characters, Move(c) \/ AttackReq(c) PROVE IInv'
<1>1. /\ UNCHANGED <<loopVars, players, sectors, mCurrentSector, mDestSector, connected,
                      pending, left, monsterVars, itemVars, seenPlayers, seenMonsters,
                      seenItems>>
      /\ c \in players
  BY DEF Move, AttackReq, Packet, playerVars
<1>2. faults' = faults BY <1>1, Known DEF Move, AttackReq
<1>3. pos' \in [Characters -> Place] /\ \A d \in players : pos'[d] \in Sector
  <2>1. /\ pos \in [Characters -> Place] /\ players \subseteq Characters
        /\ \A d \in players : pos[d] \in Sector
    BY DEF IInv, TypeOK, Shape
  <2>2. pos' = pos \/ \E z \in Sector : pos' = [pos EXCEPT ![c] = z]
    BY DEF Move, AttackReq, playerVars
  <2>3. QED BY <2>1, <2>2 DEF Place
<1>4. TypeOK' BY <1>1, <1>2, <1>3 DEF IInv, TypeOK, loopVars, monsterVars, itemVars
<1>5. Shape'
  <2>1. Watchers' = Watchers BY <1>1 DEF Watchers
  <2>2. QED BY <1>1, <1>3, <2>1 DEF IInv, Shape, loopVars, itemVars
<1>6. QED BY <1>1, <1>2, <1>4, <1>5, QuietStep DEF monsterVars, itemVars

(* Only players that disconnected are asked to be saved.                   *)
LEMMA RequestSavesStep == ASSUME IInv, RequestSaves PROVE IInv'
<1>1. UNCHANGED <<todo, players, sectors, pos, mCurrentSector, mDestSector, connected, left,
                  monsterVars, itemVars, clientVars>>
      /\ phase' = "results"
  BY DEF RequestSaves
<1>2. pending' \subseteq players /\ \A c \in pending' : ~connected[c]
  BY DEF RequestSaves, IInv, TypeOK, Shape
<1>3. TypeOK'
  BY <1>1, <1>2 DEF IInv, TypeOK, Phases, monsterVars, itemVars, clientVars
<1>4. Shape'
  <2>1. Watchers' = Watchers BY <1>1 DEF Watchers
  <2>2. QED BY <1>1, <1>2, <2>1 DEF IInv, Shape, monsterVars, itemVars, clientVars
<1>5. QED BY <1>1, <1>3, <1>4, QuietStep DEF monsterVars, itemVars, clientVars

-----------------------------------------------------------------------------
(* Steps that change the registers or the screens.                         *)

(* The field starts with nobody in it.                                     *)
LEMMA InitStep == ASSUME Init PROVE IInv
<1>2. TypeOK
  BY SpawnAssumption DEF Init, TypeOK, Phases, Place, Things
<1>3. Shape BY DEF Init, Shape, Watchers
<1>4. RegistersAgree BY DEF Init, RegistersAgree
<1>5. Screens
  BY DEF Init, Screens, NeighboursShown, OnlyNeighboursShown, WorldShown, Watchers
<1>6. FaultsOfReturners BY DEF Init, FaultsOfReturners
<1>7. QED BY <1>2, <1>3, <1>4, <1>5, <1>6 DEF IInv

(* A disconnected client's screen is nobody's concern any more.            *)
LEMMA DisconnectStep ==
  ASSUME IInv, NEW c \in Characters, Disconnect(c) PROVE IInv'
<1>1. TypeOK'
  BY DEF IInv, TypeOK, Disconnect, loopVars, monsterVars, itemVars
<1>2. Watchers' = Watchers \ {c} BY DEF IInv, TypeOK, Disconnect, Watchers
<1>3. Shape'
  BY <1>2 DEF IInv, TypeOK, Shape, Disconnect, loopVars, itemVars
<1>4. RegistersAgree'
  BY DEF IInv, RegistersAgree, Disconnect, monsterVars
<1>5. Screens'
  <2>1. /\ \A d \in Watchers' : /\ d \in Watchers
                                /\ seenPlayers'[d] = seenPlayers[d]
                                /\ seenMonsters'[d] = seenMonsters[d]
                                /\ seenItems'[d] = seenItems[d]
        /\ \A d, e : Near(d, e)' <=> Near(d, e)
    BY <1>2 DEF IInv, TypeOK, Disconnect, Near, Watchers
  <2>2. QED
    BY <2>1 DEF IInv, Screens, NeighboursShown, OnlyNeighboursShown, WorldShown,
       Disconnect, monsterVars, itemVars
<1>6. FaultsOfReturners' BY DEF IInv, FaultsOfReturners, Disconnect
<1>7. QED BY <1>1, <1>3, <1>4, <1>5, <1>6 DEF IInv

(* A player leaves the registers; it may stay on screens, and is in left   *)
(* from then on.                                                           *)
LEMMA SaveResultStep ==
  ASSUME IInv, NEW c \in Characters, SaveResult(c) PROVE IInv'
<1>1. /\ c \in players /\ phase = "results" /\ mCurrentSector[c] \in Sector
      /\ seenPlayers[c] = {} /\ seenMonsters[c] = {} /\ seenItems[c] = {}
  BY DEF IInv, TypeOK, Shape, SaveResult, Watchers
<1>2. TypeOK'
  BY <1>1 DEF IInv, TypeOK, SaveResult, Place, loopVars, monsterVars, itemVars, clientVars
<1>3. /\ \A d \in players' : mCurrentSector'[d] = mCurrentSector[d] /\ d # c
      /\ Watchers' = Watchers \ {c}
  BY DEF IInv, TypeOK, SaveResult, Watchers
<1>4. Shape'
  BY <1>1, <1>3 DEF IInv, TypeOK, Shape, SaveResult, loopVars, itemVars, clientVars
<1>5. RegistersAgree'
  BY <1>1, <1>3 DEF IInv, TypeOK, RegistersAgree, SaveResult, monsterVars
<1>6. Screens'
  BY <1>3 DEF IInv, Screens, NeighboursShown, OnlyNeighboursShown, WorldShown, Near,
     Watchers, SaveResult, monsterVars, itemVars, clientVars
<1>7. FaultsOfReturners' BY DEF IInv, FaultsOfReturners, SaveResult, clientVars
<1>8. QED BY <1>2, <1>4, <1>5, <1>6, <1>7 DEF IInv

(* A player enters: it and its neighbours are told of each other.          *)
LEMMA RegisterPlayerStep ==
  ASSUME IInv, NEW c \in Characters, RegisterPlayer(c) PROVE IInv'
<1> DEFINE Obs(s) == PlayersIn(Around(s))
<1>1. PICK s \in Sector :
        /\ players' = players \cup {c}
        /\ sectors' = [sectors EXCEPT ![s] = @ \cup {c}]
        /\ pos' = [pos EXCEPT ![c] = s]
        /\ mCurrentSector' = [mCurrentSector EXCEPT ![c] = s]
        /\ mDestSector' = [mDestSector EXCEPT ![c] = s]
        /\ seenPlayers' = ToldAll(Told(seenPlayers, Obs(s), c), c, Obs(s))
        /\ seenMonsters' = ToldAll(seenMonsters, c, MonstersIn(Around(s)))
        /\ seenItems' = ToldAll(seenItems, c, ItemsIn(Around(s)))
        /\ faults' = faults \cup Twice(seenPlayers, Obs(s), c)
                            \cup TwiceAll(seenPlayers, c, Obs(s))
                            \cup TwiceAll(seenMonsters, c, MonstersIn(Around(s)))
                            \cup TwiceAll(seenItems, c, ItemsIn(Around(s)))
  BY DEF RegisterPlayer
<1>1a. /\ players' = players \cup {c}
      /\ sectors' = [sectors EXCEPT ![s] = @ \cup {c}]
      /\ pos' = [pos EXCEPT ![c] = s]
      /\ mCurrentSector' = [mCurrentSector EXCEPT ![c] = s]
      /\ mDestSector' = [mDestSector EXCEPT ![c] = s]
  BY <1>1
<1>2. /\ UNCHANGED <<loopVars, connected, pending, left, monsterVars, itemVars>>
      /\ phase = "messages" /\ c \notin players
  BY DEF RegisterPlayer
<1>3. /\ connected[c]
      /\ seenPlayers[c] = {} /\ seenMonsters[c] = {} /\ seenItems[c] = {}
  BY <1>2 DEF IInv, Shape, Watchers
<1>4. /\ Obs(s) = {d \in players : mCurrentSector[d] \in Around(s)}
      /\ MonstersIn(Around(s)) = {m \in Monsters : mSector[m] \in Around(s)}
      /\ ItemsIn(Around(s)) = {i \in Items : itemAt[i] \in Around(s)}
      /\ Obs(s) \subseteq Characters
  BY Visited, AroundSectors DEF IInv, TypeOK, ItemsIn
<1> HIDE DEF Obs
<1>5. /\ seenPlayers' \in [Characters -> SUBSET Characters]
      /\ seenPlayers'[c] = Obs(s)
      /\ \A d \in Characters \ {c} :
           seenPlayers'[d] = IF d \in Obs(s) /\ connected[d]
                             THEN seenPlayers[d] \cup {c} ELSE seenPlayers[d]
  <2>1. Told(seenPlayers, Obs(s), c) \in [Characters -> SUBSET Characters]
        /\ \A d \in Characters : Told(seenPlayers, Obs(s), c)[d] =
              IF d \in Obs(s) /\ connected[d] THEN seenPlayers[d] \cup {c} ELSE seenPlayers[d]
    BY DEF Told, IInv, TypeOK
  <2>2. Told(seenPlayers, Obs(s), c)[c] = {} BY <1>2, <1>3, <1>4, <2>1
  <2>3. QED BY <1>1, <1>3, <1>4, <2>1, <2>2 DEF ToldAll
<1>6. /\ seenMonsters' = [seenMonsters EXCEPT ![c] = MonstersIn(Around(s))]
      /\ seenItems' = [seenItems EXCEPT ![c] = ItemsIn(Around(s))]
  BY <1>1, <1>3 DEF ToldAll, IInv, TypeOK
<1>7. faults' = faults \cup Twice(seenPlayers, Obs(s), c)
      /\ (Twice(seenPlayers, Obs(s), c) # {} => c \in left)
  <2>1. /\ TwiceAll(seenPlayers, c, Obs(s)) = {}
        /\ TwiceAll(seenMonsters, c, MonstersIn(Around(s))) = {}
        /\ TwiceAll(seenItems, c, ItemsIn(Around(s))) = {}
    BY <1>3 DEF TwiceAll
  <2>2. ASSUME NEW d \in Obs(s), connected[d], c \in seenPlayers[d] PROVE c \in left
    BY <1>2, <1>4, <2>2 DEF IInv, Screens, OnlyNeighboursShown, Watchers
  <2>3. Twice(seenPlayers, Obs(s), c) # {} => c \in left
    BY <2>2 DEF Twice
  <2>4. QED BY <1>1, <2>1, <2>3
<1>8. FaultsOfReturners' /\ faults' \subseteq {"twice", "unknown"} \X Things
  BY <1>2, <1>7 DEF IInv, TypeOK, FaultsOfReturners, Twice, Things
<1>9. TypeOK'
  <2>1. /\ players' \subseteq Characters /\ sectors' \in [Sector -> SUBSET Characters]
        /\ pos' \in [Characters -> Place] /\ mCurrentSector' \in [Characters -> Place]
        /\ mDestSector' \in [Characters -> Place] /\ pending' \subseteq players'
    BY <1>1a, <1>2 DEF IInv, TypeOK, Place
  <2>2. /\ seenMonsters' \in [Characters -> SUBSET Monsters]
        /\ seenItems' \in [Characters -> SUBSET Items]
    BY <1>4, <1>6 DEF IInv, TypeOK
  <2>3. QED
    BY <1>2, <1>5, <1>8, <2>1, <2>2 DEF IInv, TypeOK, loopVars, monsterVars, itemVars
<1>10. Watchers' = Watchers \cup {c} BY <1>1a, <1>2, <1>3 DEF Watchers
<1>11. Shape'
  <2>1. \A d \in players' : /\ pos'[d] \in Sector
                            /\ mCurrentSector'[d] \in Sector /\ mDestSector'[d] \in Sector
    BY <1>1a DEF IInv, TypeOK, Shape
  <2>2. ASSUME NEW d \in Characters \ Watchers'
        PROVE  seenPlayers'[d] = {} /\ seenMonsters'[d] = {} /\ seenItems'[d] = {}
    <3>1. d # c /\ d \notin Watchers BY <1>10
    <3>2. ~(d \in Obs(s) /\ connected[d]) BY <3>1, <1>4 DEF Watchers
    <3>3. QED BY <3>1, <3>2, <1>5, <1>6 DEF IInv, TypeOK, Shape
  <2>3. \A d \in Characters \ players' : connected'[d]
    BY <1>1a, <1>2 DEF IInv, Shape
  <2>4. QED BY <1>2, <2>1, <2>2, <2>3 DEF IInv, Shape, loopVars, itemVars
<1>12. RegistersAgree'
  BY <1>1a, <1>2 DEF IInv, TypeOK, RegistersAgree, monsterVars
<1>13. \A d, e \in players : Near(d, e)' <=> Near(d, e)
  BY <1>1a, <1>2 DEF IInv, TypeOK, Near
<1>14. \A d \in players : /\ Near(c, d)' <=> d \in Obs(s)
                          /\ Near(d, c)' <=> d \in Obs(s)
  BY <1>1a, <1>2, <1>4, AroundSymmetric DEF IInv, TypeOK, Shape, Near
<1>15. NeighboursShown'
  <2>1. SUFFICES ASSUME NEW d \in Watchers', NEW e \in players' \ {d}, Near(d, e)'
                 PROVE  e \in seenPlayers'[d]
    BY DEF NeighboursShown
  <2>2. CASE d = c BY <2>1, <2>2, <1>1a, <1>5, <1>14
  <2>3. CASE d # c /\ e = c
    BY <2>1, <2>3, <1>1a, <1>2, <1>5, <1>10, <1>14 DEF IInv, TypeOK, Watchers
  <2>4. CASE d # c /\ e # c
    <3>1. d \in Watchers /\ d \in Characters /\ e \in players /\ Near(d, e)
      BY <2>1, <2>4, <1>1a, <1>10, <1>13 DEF IInv, TypeOK, Watchers
    <3>2. e \in seenPlayers[d] BY <2>1, <3>1 DEF IInv, Screens, NeighboursShown
    <3>3. QED BY <2>4, <3>1, <3>2, <1>5
  <2>5. QED BY <2>2, <2>3, <2>4
<1>16. OnlyNeighboursShown'
  <2>1. SUFFICES ASSUME NEW d \in Watchers', NEW e \in seenPlayers'[d] \ left'
                 PROVE  e \in players' \ {d} /\ Near(d, e)'
    BY DEF OnlyNeighboursShown
  <2>2. CASE d = c BY <2>2, <1>1a, <1>2, <1>4, <1>5, <1>14
  <2>3. CASE d # c /\ e \in seenPlayers[d]
    <3>1. d \in Watchers /\ e \notin left BY <2>3, <1>2, <1>10
    <3>2. e \in players \ {d} /\ Near(d, e)
      BY <2>3, <3>1 DEF IInv, Screens, OnlyNeighboursShown
    <3>3. QED BY <3>1, <3>2, <1>1a, <1>13 DEF Watchers
  <2>4. CASE d # c /\ e \notin seenPlayers[d]
    <3>1. d \in Characters BY <1>10 DEF Watchers, IInv, TypeOK
    <3>2. e = c /\ d \in Obs(s) BY <2>4, <3>1, <1>5
    <3>3. QED BY <2>4, <3>2, <1>1a, <1>4, <1>14
  <2>5. QED BY <2>2, <2>3, <2>4
<1>17. WorldShown'
  <2>1. SUFFICES ASSUME NEW d \in Watchers'
                 PROVE  /\ seenMonsters'[d] =
                             {m \in Monsters : mSector[m] \in Around(mCurrentSector'[d])}
                        /\ seenItems'[d] =
                             {i \in Items : itemAt[i] \in Around(mCurrentSector'[d])}
    BY <1>2 DEF WorldShown, monsterVars, itemVars
  <2>2. CASE d = c BY <2>2, <1>1a, <1>4, <1>6 DEF IInv, TypeOK
  <2>3. CASE d # c
    BY <2>3, <1>1a, <1>6, <1>10 DEF IInv, TypeOK, Screens, WorldShown, Watchers
  <2>4. QED BY <2>2, <2>3
<1>18. QED
  BY <1>8, <1>9, <1>11, <1>12, <1>15, <1>16, <1>17 DEF IInv, Screens

(* A player changes sector: what it and the others see changes alike.      *)
LEMMA ChangeSectorStep ==
  ASSUME IInv, NEW c \in Characters, ChangeSector(c) PROVE IInv'
<1> DEFINE old     == mCurrentSector[c]
           new     == mDestSector[c]
           spawn   == SpawnSectors(old, new)
           despawn == DespawnSectors(old, new)
           come    == PlayersIn(spawn) \ {c}
           go      == PlayersIn(despawn) \ {c}
<1>1. /\ seenPlayers' =
           UntoldAll(Untold(ToldAll(Told(seenPlayers, come, c), c, come), go, c), c, go)
      /\ seenMonsters' =
           UntoldAll(ToldAll(seenMonsters, c, MonstersIn(spawn)), c, MonstersIn(despawn))
      /\ seenItems' =
           UntoldAll(ToldAll(seenItems, c, ItemsIn(spawn)), c, ItemsIn(despawn))
      /\ faults' = faults \cup Twice(seenPlayers, come, c)
                          \cup TwiceAll(seenPlayers, c, come)
                          \cup TwiceAll(seenMonsters, c, MonstersIn(spawn))
                          \cup TwiceAll(seenItems, c, ItemsIn(spawn))
  BY DEF ChangeSector
<1>2. /\ sectors' = [s \in Sector |-> IF s = new THEN sectors[s] \cup {c}
                                      ELSE IF s = old THEN sectors[s] \ {c}
                                      ELSE sectors[s]]
      /\ mCurrentSector' = [mCurrentSector EXCEPT ![c] = new]
  BY DEF ChangeSector
<1>3. /\ UNCHANGED <<players, pos, mDestSector, connected, pending, left,
                      monsterVars, itemVars>>
      /\ Visit("sectors", c)
  BY DEF ChangeSector
<1>4. c \in players /\ old \in Sector /\ new \in Sector
  BY <1>3 DEF Visit, IInv, Shape
<1>5. /\ come = {d \in players \ {c} : /\ mCurrentSector[d] \in Around(new)
                                      /\ mCurrentSector[d] \notin Around(old)}
      /\ go = {d \in players \ {c} : /\ mCurrentSector[d] \in Around(old)
                                    /\ mCurrentSector[d] \notin Around(new)}
      /\ MonstersIn(spawn) = {m \in Monsters : /\ mSector[m] \in Around(new)
                                              /\ mSector[m] \notin Around(old)}
      /\ MonstersIn(despawn) = {m \in Monsters : /\ mSector[m] \in Around(old)
                                                /\ mSector[m] \notin Around(new)}
      /\ ItemsIn(spawn) = {i \in Items : /\ itemAt[i] \in Around(new)
                                        /\ itemAt[i] \notin Around(old)}
      /\ ItemsIn(despawn) = {i \in Items : /\ itemAt[i] \in Around(old)
                                          /\ itemAt[i] \notin Around(new)}
  <2>1. spawn \subseteq Sector /\ despawn \subseteq Sector
    BY AroundSectors DEF SpawnSectors, DespawnSectors
  <2>2. /\ PlayersIn(spawn) = {d \in players : mCurrentSector[d] \in spawn}
        /\ MonstersIn(spawn) = {m \in Monsters : mSector[m] \in spawn}
        /\ PlayersIn(despawn) = {d \in players : mCurrentSector[d] \in despawn}
        /\ MonstersIn(despawn) = {m \in Monsters : mSector[m] \in despawn}
    BY <2>1, Visited DEF IInv
  <2>3. QED BY <2>2 DEF ItemsIn, SpawnSectors, DespawnSectors
<1>6. Watchers' = Watchers BY <1>3 DEF Watchers
<1> HIDE DEF old, new, spawn, despawn, come, go
<1>7. /\ seenPlayers' \in [Characters -> SUBSET Characters]
      /\ seenPlayers'[c] = IF connected[c] THEN (seenPlayers[c] \cup come) \ go
                                           ELSE seenPlayers[c]
      /\ \A d \in Characters \ {c} : seenPlayers'[d] =
           IF ~connected[d] THEN seenPlayers[d]
           ELSE IF d \in go THEN seenPlayers[d] \ {c}
           ELSE IF d \in come THEN seenPlayers[d] \cup {c}
           ELSE seenPlayers[d]
  <2> DEFINE v1 == Told(seenPlayers, come, c)
             v2 == ToldAll(v1, c, come)
             v3 == Untold(v2, go, c)
  <2>1. /\ come \subseteq Characters /\ c \notin come /\ c \notin go
        /\ \A d \in go : d \notin come
    BY <1>5 DEF IInv, TypeOK
  <2>2. /\ v1 \in [Characters -> SUBSET Characters]
        /\ \A d \in Characters : v1[d] = IF d \in come /\ connected[d]
                                      THEN seenPlayers[d] \cup {c} ELSE seenPlayers[d]
    BY DEF Told, IInv, TypeOK
  <2> HIDE DEF v1
  <2>3. /\ v2 \in [Characters -> SUBSET Characters]
        /\ v2[c] = IF connected[c] THEN v1[c] \cup come ELSE v1[c]
        /\ \A d \in Characters \ {c} : v2[d] = v1[d]
    BY <2>1, <2>2 DEF ToldAll
  <2> HIDE DEF v2
  <2>4. /\ v3 \in [Characters -> SUBSET Characters]
        /\ \A d \in Characters : v3[d] = IF d \in go /\ connected[d]
                                      THEN v2[d] \ {c} ELSE v2[d]
    BY <2>3 DEF Untold
  <2> HIDE DEF v3
  <2>5. seenPlayers' = UntoldAll(v3, c, go) BY <1>1 DEF v1, v2, v3
  <2>6. /\ seenPlayers' \in [Characters -> SUBSET Characters]
        /\ seenPlayers'[c] = IF connected[c] THEN v3[c] \ go ELSE v3[c]
        /\ \A d \in Characters \ {c} : seenPlayers'[d] = v3[d]
    BY <2>4, <2>5 DEF UntoldAll
  <2>7. QED BY <2>1, <2>2, <2>3, <2>4, <2>6
<1>8. /\ seenMonsters' = IF connected[c]
                        THEN [seenMonsters EXCEPT ![c] =
                                (@ \cup MonstersIn(spawn)) \ MonstersIn(despawn)]
                        ELSE seenMonsters
      /\ seenItems' = IF connected[c]
                     THEN [seenItems EXCEPT ![c] =
                             (@ \cup ItemsIn(spawn)) \ ItemsIn(despawn)]
                     ELSE seenItems
  BY <1>1 DEF ToldAll, UntoldAll, IInv, TypeOK
<1>9. /\ \A d, e \in players \ {c} : Near(d, e)' <=> Near(d, e)
      /\ \A d \in players \ {c} :
           /\ Near(c, d) <=> mCurrentSector[d] \in Around(old)
           /\ Near(d, c) <=> mCurrentSector[d] \in Around(old)
           /\ Near(c, d)' <=> mCurrentSector[d] \in Around(new)
           /\ Near(d, c)' <=> mCurrentSector[d] \in Around(new)
  <2>1. \A d \in players \ {c} : /\ mCurrentSector'[d] = mCurrentSector[d]
                                /\ mCurrentSector[d] \in Sector
    BY <1>2 DEF IInv, TypeOK, Shape
  <2>2. mCurrentSector[c] = old /\ mCurrentSector'[c] = new
    BY <1>2, <1>4 DEF old, IInv, TypeOK
  <2>3. QED BY <1>4, <2>1, <2>2, AroundSymmetric DEF Near
<1>10. faults' = faults \cup Twice(seenPlayers, come, c)
                      \cup TwiceAll(seenPlayers, c, come)
       /\ (Twice(seenPlayers, come, c) # {} => c \in left)
       /\ TwiceAll(seenPlayers, c, come) \subseteq {"twice"} \X left
  <2>1. /\ TwiceAll(seenMonsters, c, MonstersIn(spawn)) = {}
        /\ TwiceAll(seenItems, c, ItemsIn(spawn)) = {}
    <3>1. CASE ~connected[c] BY <3>1 DEF TwiceAll
    <3>2. CASE connected[c]
      <4>1. /\ seenMonsters[c] = {m \in Monsters : mSector[m] \in Around(old)}
            /\ seenItems[c] = {i \in Items : itemAt[i] \in Around(old)}
        BY <1>4, <3>2 DEF IInv, Screens, WorldShown, Watchers, old
      <4>2. QED BY <1>5, <4>1 DEF TwiceAll
    <3>3. QED BY <3>1, <3>2
  <2>2. ASSUME NEW d \in come, connected[d], c \in seenPlayers[d] PROVE c \in left
    BY <1>5, <1>9, <2>2 DEF IInv, Screens, OnlyNeighboursShown, Watchers
  <2>3. ASSUME NEW d \in come, connected[c], d \in seenPlayers[c] PROVE d \in left
    BY <1>4, <1>5, <1>9, <2>3 DEF IInv, Screens, OnlyNeighboursShown, Watchers
  <2>4. QED BY <1>1, <2>1, <2>2, <2>3 DEF Twice, TwiceAll
<1>11. FaultsOfReturners' /\ faults' \subseteq {"twice", "unknown"} \X Things
  BY <1>3, <1>10 DEF IInv, TypeOK, FaultsOfReturners, Twice, Things
<1>12. TypeOK'
  <2>1. /\ sectors' \in [Sector -> SUBSET Characters]
        /\ mCurrentSector' \in [Characters -> Place]
    BY <1>2, <1>4 DEF IInv, TypeOK, Place
  <2>2. /\ seenMonsters' \in [Characters -> SUBSET Monsters]
        /\ seenItems' \in [Characters -> SUBSET Items]
    BY <1>5, <1>8 DEF IInv, TypeOK
  <2>3. QED
    BY <1>3, <1>7, <1>11, <2>1, <2>2, VisitStep DEF IInv, TypeOK, monsterVars, itemVars
<1>13. Shape'
  <2>1. \A d \in players' : mCurrentSector'[d] \in Sector
    BY <1>2, <1>3, <1>4 DEF IInv, TypeOK, Shape
  <2>2. ASSUME NEW d \in Characters \ Watchers'
        PROVE  seenPlayers'[d] = {} /\ seenMonsters'[d] = {} /\ seenItems'[d] = {}
    <3>1. d \notin Watchers BY <1>6
    <3>2. d = c => ~connected[d] BY <3>1, <1>4 DEF Watchers
    <3>3. (d \notin go /\ d \notin come) \/ ~connected[d] BY <3>1, <1>5 DEF Watchers
    <3>4. /\ seenPlayers'[d] = seenPlayers[d]
          /\ seenMonsters'[d] = seenMonsters[d] /\ seenItems'[d] = seenItems[d]
      BY <3>2, <3>3, <1>7, <1>8 DEF IInv, TypeOK
    <3>5. QED BY <3>1, <3>4 DEF IInv, Shape
  <2>3. QED BY <1>3, <2>1, <2>2, VisitStep DEF IInv, Shape, itemVars
<1>14. RegistersAgree'
  BY <1>2, <1>3, <1>4 DEF IInv, TypeOK, RegistersAgree, Shape, monsterVars, old
<1>15. NeighboursShown'
  <2>1. SUFFICES ASSUME NEW d \in Watchers, NEW e \in players \ {d}, Near(d, e)'
                 PROVE  e \in seenPlayers'[d]
    BY <1>3, <1>6 DEF NeighboursShown
  <2>2. d \in players /\ d \in Characters /\ connected[d] BY DEF Watchers, IInv, TypeOK
  <2>3. Near(d, e) => e \in seenPlayers[d] BY DEF IInv, Screens, NeighboursShown
  <2>4. CASE d = c BY <2>1, <2>2, <2>3, <2>4, <1>5, <1>7, <1>9
  <2>5. CASE d # c /\ e = c BY <2>1, <2>2, <2>3, <2>5, <1>5, <1>7, <1>9
  <2>6. CASE d # c /\ e # c BY <2>1, <2>2, <2>3, <2>6, <1>7, <1>9
  <2>7. QED BY <2>4, <2>5, <2>6
<1>16. OnlyNeighboursShown'
  <2>1. SUFFICES ASSUME NEW d \in Watchers, NEW e \in seenPlayers'[d] \ left
                 PROVE  e \in players \ {d} /\ Near(d, e)'
    BY <1>3, <1>6 DEF OnlyNeighboursShown
  <2>2. d \in players /\ d \in Characters /\ connected[d] BY DEF Watchers, IInv, TypeOK
  <2>3. e \in seenPlayers[d] => e \in players \ {d} /\ Near(d, e)
    BY DEF IInv, Screens, OnlyNeighboursShown
  <2>4. CASE d = c BY <2>2, <2>3, <2>4, <1>5, <1>7, <1>9
  <2>5. CASE d # c /\ e = c BY <2>2, <2>3, <2>5, <1>4, <1>5, <1>7, <1>9
  <2>6. CASE d # c /\ e # c BY <2>2, <2>3, <2>6, <1>7, <1>9
  <2>7. QED BY <2>4, <2>5, <2>6
<1>17. WorldShown'
  <2>1. SUFFICES ASSUME NEW d \in Watchers
                 PROVE  /\ seenMonsters'[d] =
                             {m \in Monsters : mSector[m] \in Around(mCurrentSector'[d])}
                        /\ seenItems'[d] =
                             {i \in Items : itemAt[i] \in Around(mCurrentSector'[d])}
    BY <1>3, <1>6 DEF WorldShown, monsterVars, itemVars
  <2>2. /\ d \in Characters /\ connected[d]
        /\ seenMonsters[d] = {m \in Monsters : mSector[m] \in Around(mCurrentSector[d])}
        /\ seenItems[d] = {i \in Items : itemAt[i] \in Around(mCurrentSector[d])}
    BY DEF Watchers, IInv, TypeOK, Screens, WorldShown
  <2>3. CASE d = c
    <3>1. mCurrentSector[d] = old /\ mCurrentSector'[d] = new
      BY <2>3, <1>2 DEF IInv, TypeOK, old
    <3>2. /\ seenMonsters'[d] =
               (seenMonsters[d] \cup MonstersIn(spawn)) \ MonstersIn(despawn)
          /\ seenItems'[d] = (seenItems[d] \cup ItemsIn(spawn)) \ ItemsIn(despawn)
      BY <2>2, <2>3, <1>8 DEF IInv, TypeOK
    <3>3. QED BY <2>2, <3>1, <3>2, <1>5
  <2>4. CASE d # c BY <2>2, <2>4, <1>2, <1>8 DEF IInv, TypeOK
  <2>5. QED BY <2>3, <2>4
<1>18. QED
  BY <1>11, <1>12, <1>13, <1>14, <1>15, <1>16, <1>17 DEF IInv, Screens

-----------------------------------------------------------------------------
(* Steps of monsters and items, among players that stay where they are.    *)

(* While no player moves between registers, the screens' players are right.*)
LEMMA PlayersStay ==
  ASSUME IInv, UNCHANGED <<players, mCurrentSector, connected, left, seenPlayers>>
  PROVE  Watchers' = Watchers /\ NeighboursShown' /\ OnlyNeighboursShown'
<1>1. Watchers' = Watchers /\ \A c, d : Near(c, d)' <=> Near(c, d)
  BY DEF Watchers, Near
<1>2. QED BY <1>1 DEF IInv, Screens, NeighboursShown, OnlyNeighboursShown

(* The screens after a monster changed sector: it was untold in the old    *)
(* neighbourhood outside the new one, and told in the new one outside the  *)
(* old one, or, when it respawns, in all of it.                            *)
LEMMA MonsterShown ==
  ASSUME IInv, NEW m \in Monsters, NEW to \in Sector,
         UNCHANGED <<players, mCurrentSector, connected, left, seenPlayers, seenItems, itemAt>>,
         mSector' = [mSector EXCEPT ![m] = to],
         seenMonsters' \in [Characters -> SUBSET Monsters],
         \A d \in Watchers :
            /\ m \in seenMonsters'[d] <=> mCurrentSector[d] \in Around(to)
            /\ seenMonsters'[d] \ {m} = seenMonsters[d] \ {m}
  PROVE  Screens'
<1>1. Watchers' = Watchers /\ NeighboursShown' /\ OnlyNeighboursShown'
  BY PlayersStay
<1>2. ASSUME NEW d \in Watchers
      PROVE  /\ seenMonsters'[d] =
                  {n \in Monsters : mSector'[n] \in Around(mCurrentSector[d])}
             /\ seenItems'[d] = {i \in Items : itemAt'[i] \in Around(mCurrentSector[d])}
  <2>1. d \in Characters /\ mCurrentSector[d] \in Sector
    BY DEF Watchers, IInv, TypeOK, Shape
  <2>2. /\ seenMonsters[d] = {n \in Monsters : mSector[n] \in Around(mCurrentSector[d])}
        /\ seenItems'[d] = {i \in Items : itemAt'[i] \in Around(mCurrentSector[d])}
    BY DEF IInv, Screens, WorldShown
  <2>3. mSector'[m] = to /\ \A n \in Monsters \ {m} : mSector'[n] = mSector[n]
    BY DEF IInv, TypeOK
  <2>4. to \in Around(mCurrentSector[d]) <=> mCurrentSector[d] \in Around(to)
    BY <2>1, AroundSymmetric
  <2>5. seenMonsters'[d] \subseteq Monsters BY <2>1
  <2>6. QED BY <2>2, <2>3, <2>4, <2>5
<1>3. WorldShown' BY <1>1, <1>2 DEF WorldShown
<1>4. QED BY <1>1, <1>3 DEF Screens

(* A monster changes sector: exactly those around its new one show it.     *)
LEMMA ChangeMonsterSectorStep ==
  ASSUME IInv, NEW m \in Monsters, ChangeMonsterSector(m) PROVE IInv'
<1> DEFINE from == mSector[m]
           to   == mDest[m]
           come == PlayersIn(SpawnSectors(from, to))
           go   == PlayersIn(DespawnSectors(from, to))
<1>1. /\ seenMonsters' = Untold(Told(seenMonsters, come, m), go, m)
      /\ faults' = faults \cup Twice(seenMonsters, come, m)
      /\ Relocate(m, from, to)
      /\ Visit("monsterSectors", m)
      /\ UNCHANGED <<playerVars, mpos, mDest, mState, mBeforeState, itemVars,
                     seenPlayers, seenItems>>
  BY DEF ChangeMonsterSector
<1>2. from \in Sector /\ to \in Sector BY DEF IInv, TypeOK
<1>3. /\ come = {d \in players : /\ mCurrentSector[d] \in Around(to)
                                /\ mCurrentSector[d] \notin Around(from)}
      /\ go = {d \in players : /\ mCurrentSector[d] \in Around(from)
                              /\ mCurrentSector[d] \notin Around(to)}
  <2>1. SpawnSectors(from, to) \subseteq Sector /\ DespawnSectors(from, to) \subseteq Sector
    BY AroundSectors DEF SpawnSectors, DespawnSectors
  <2>2. /\ come = {d \in players : mCurrentSector[d] \in SpawnSectors(from, to)}
        /\ go = {d \in players : mCurrentSector[d] \in DespawnSectors(from, to)}
    BY <2>1, Visited DEF IInv
  <2>3. QED BY <2>2 DEF SpawnSectors, DespawnSectors
<1>4. \A d \in Watchers : m \in seenMonsters[d] <=> mCurrentSector[d] \in Around(from)
  <2>1. SUFFICES ASSUME NEW d \in Watchers
                 PROVE  m \in seenMonsters[d] <=> mCurrentSector[d] \in Around(from)
    OBVIOUS
  <2>2. mCurrentSector[d] \in Sector BY DEF Watchers, IInv, Shape
  <2>3. QED BY <1>2, <2>2, AroundSymmetric DEF IInv, Screens, WorldShown
<1> HIDE DEF from, to, come, go
<1>5. /\ seenMonsters' \in [Characters -> SUBSET Monsters]
      /\ \A d \in Characters : seenMonsters'[d] =
            IF ~connected[d] THEN seenMonsters[d]
            ELSE IF d \in go THEN seenMonsters[d] \ {m}
            ELSE IF d \in come THEN seenMonsters[d] \cup {m} ELSE seenMonsters[d]
  <2> DEFINE v1 == Told(seenMonsters, come, m)
  <2>1. /\ v1 \in [Characters -> SUBSET Monsters]
        /\ \A d \in Characters : v1[d] = IF d \in come /\ connected[d]
                                      THEN seenMonsters[d] \cup {m} ELSE seenMonsters[d]
    BY DEF Told, IInv, TypeOK
  <2> HIDE DEF v1
  <2>2. seenMonsters' = Untold(v1, go, m) BY <1>1 DEF v1
  <2>3. QED BY <2>1, <2>2, <1>3 DEF Untold
<1>6. faults' = faults
  <2>1. \A d \in come : ~(connected[d] /\ m \in seenMonsters[d])
    BY <1>3, <1>4 DEF Watchers
  <2>2. QED BY <1>1, <2>1 DEF Twice
<1>7. mSector' = [mSector EXCEPT ![m] = to] BY <1>1 DEF Relocate
<1>8. TypeOK'
  <2>1. /\ monsterSectors' \in [Sector -> SUBSET Monsters]
        /\ mSector' \in [Monsters -> Sector]
    BY <1>1, <1>2 DEF Relocate, IInv, TypeOK
  <2>2. QED
    BY <1>1, <1>5, <1>6, <2>1, VisitStep DEF IInv, TypeOK, playerVars, itemVars
<1>9. Shape'
  <2>1. Watchers' = Watchers BY <1>1 DEF Watchers, playerVars
  <2>2. \A d \in Characters \ Watchers : seenMonsters'[d] = seenMonsters[d]
    BY <1>3, <1>5 DEF Watchers
  <2>3. QED BY <1>1, <2>1, <2>2, VisitStep DEF IInv, Shape, playerVars, itemVars
<1>10. RegistersAgree'
  BY <1>1, <1>2 DEF IInv, TypeOK, RegistersAgree, Relocate, playerVars, from
<1>11. Screens'
  <2>1. \A d \in Watchers :
          /\ m \in seenMonsters'[d] <=> mCurrentSector[d] \in Around(to)
          /\ seenMonsters'[d] \ {m} = seenMonsters[d] \ {m}
    BY <1>3, <1>4, <1>5 DEF Watchers, IInv, TypeOK
  <2>2. QED BY <1>1, <1>2, <1>5, <1>7, <2>1, MonsterShown DEF playerVars, itemVars
<1>12. FaultsOfReturners' BY <1>1, <1>6 DEF IInv, FaultsOfReturners, playerVars
<1>13. QED BY <1>8, <1>9, <1>10, <1>11, <1>12 DEF IInv

(* A monster comes back, perhaps far away: first nobody shows it, then     *)
(* exactly those around its new sector.                                    *)
LEMMA RespawnStep ==
  ASSUME IInv, NEW m \in Monsters, Respawn(m) PROVE IInv'
<1> DEFINE from == mSector[m]
           to   == mDest[m]
           obs  == PlayersIn(Around(from))
           away == Untold(seenMonsters, obs, m)
           come == PlayersIn(Around(to))
<1>1. /\ seenMonsters' = Told(away, come, m)
      /\ faults' = faults \cup Twice(away, come, m)
      /\ Relocate(m, from, to)
      /\ mBeforeState' = [mBeforeState EXCEPT ![m] = "alive"]
      /\ Visit("monsterProc", m)
      /\ UNCHANGED <<playerVars, mpos, mDest, mState, itemVars, seenPlayers, seenItems>>
  BY DEF Respawn
<1>2. from \in Sector /\ to \in Sector BY DEF IInv, TypeOK
<1>3. /\ obs = {d \in players : mCurrentSector[d] \in Around(from)}
      /\ come = {d \in players : mCurrentSector[d] \in Around(to)}
  BY AroundSectors, Visited DEF IInv
<1>4. \A d \in Watchers : m \in seenMonsters[d] <=> mCurrentSector[d] \in Around(from)
  <2>1. SUFFICES ASSUME NEW d \in Watchers
                 PROVE  m \in seenMonsters[d] <=> mCurrentSector[d] \in Around(from)
    OBVIOUS
  <2>2. mCurrentSector[d] \in Sector BY DEF Watchers, IInv, Shape
  <2>3. QED BY <1>2, <2>2, AroundSymmetric DEF IInv, Screens, WorldShown
<1>5. /\ away \in [Characters -> SUBSET Monsters]
      /\ \A d \in Characters : away[d] = IF d \in obs /\ connected[d]
                                      THEN seenMonsters[d] \ {m} ELSE seenMonsters[d]
  BY DEF Untold, IInv, TypeOK
<1> HIDE DEF from, to, obs, away, come
<1>6. \A d \in Watchers : m \notin away[d]
  BY <1>3, <1>4, <1>5 DEF Watchers, IInv, TypeOK
<1>7. /\ seenMonsters' \in [Characters -> SUBSET Monsters]
      /\ \A d \in Characters : seenMonsters'[d] =
            IF d \in come /\ connected[d] THEN away[d] \cup {m} ELSE away[d]
  BY <1>1, <1>5 DEF Told
<1>8. faults' = faults
  <2>1. \A d \in come : ~(connected[d] /\ m \in away[d])
    BY <1>3, <1>6 DEF Watchers
  <2>2. QED BY <1>1, <2>1 DEF Twice
<1>9. mSector' = [mSector EXCEPT ![m] = to] BY <1>1 DEF Relocate
<1>10. TypeOK'
  <2>1. /\ monsterSectors' \in [Sector -> SUBSET Monsters]
        /\ mSector' \in [Monsters -> Sector]
    BY <1>1, <1>2 DEF Relocate, IInv, TypeOK
  <2>2. mBeforeState' \in [Monsters -> {"alive", "dead"}]
    BY <1>1 DEF IInv, TypeOK
  <2>3. QED
    BY <1>1, <1>7, <1>8, <2>1, <2>2, VisitStep DEF IInv, TypeOK, playerVars, itemVars
<1>11. Shape'
  <2>1. Watchers' = Watchers BY <1>1 DEF Watchers, playerVars
  <2>2. \A d \in Characters \ Watchers : seenMonsters'[d] = seenMonsters[d]
    BY <1>3, <1>5, <1>7 DEF Watchers
  <2>3. QED BY <1>1, <2>1, <2>2, VisitStep DEF IInv, Shape, playerVars, itemVars
<1>12. RegistersAgree'
  BY <1>1, <1>2 DEF IInv, TypeOK, RegistersAgree, Relocate, playerVars, from
<1>13. Screens'
  <2>1. \A d \in Watchers :
          /\ m \in seenMonsters'[d] <=> mCurrentSector[d] \in Around(to)
          /\ seenMonsters'[d] \ {m} = seenMonsters[d] \ {m}
    BY <1>3, <1>5, <1>6, <1>7 DEF Watchers, IInv, TypeOK
  <2>2. QED BY <1>1, <1>2, <1>7, <1>9, <2>1, MonsterShown DEF playerVars, itemVars
<1>14. FaultsOfReturners' BY <1>1, <1>8 DEF IInv, FaultsOfReturners, playerVars
<1>15. QED BY <1>10, <1>11, <1>12, <1>13, <1>14 DEF IInv

(* The screens when items come or go and each watcher learns what it can   *)
(* see of it.                                                              *)
LEMMA ItemsShown ==
  ASSUME IInv,
         UNCHANGED <<players, mCurrentSector, connected, left, seenPlayers, seenMonsters, mSector>>,
         \A d \in Watchers :
            seenItems'[d] = {i \in Items : itemAt'[i] \in Around(mCurrentSector[d])}
  PROVE  Screens'
<1>1. Watchers' = Watchers /\ NeighboursShown' /\ OnlyNeighboursShown'
  BY PlayersStay
<1>2. WorldShown' BY <1>1 DEF IInv, Screens, WorldShown
<1>3. QED BY <1>1, <1>2 DEF Screens

(* A strike pushes or kills a monster, and an item may drop.               *)
LEMMA PlayerStrikeStep ==
  ASSUME IInv, NEW c \in Characters, NEW m \in Monsters, PlayerStrike(c, m) PROVE IInv'
<1>1. /\ UNCHANGED <<players, sectors, pos, mCurrentSector, connected, pending, left,
                      monsterSectors, mSector, mDest, mBeforeState,
                      seenPlayers, seenMonsters>>
      /\ Visit("players", c) /\ CheckSector(c, pos[c])
  BY DEF PlayerStrike
<1>2. PICK p \in Sector :
        /\ mpos' = [mpos EXCEPT ![m] = p]
        /\ \/ faults' = faults /\ UNCHANGED <<mState, itemVars, seenItems>>
           \/ mState' = [mState EXCEPT ![m] = "dead"] /\ DropItem(p, {})
  <2>1. Unknown(seenMonsters, PlayersIn(Around(mSector[m])), m) = {} BY Known
  <2>2. QED BY <2>1, AroundSectors DEF PlayerStrike
<1>3. /\ mDestSector' \in [Characters -> Place]
      /\ \A d \in players : mDestSector'[d] \in Sector
  <2>1. c \in players BY <1>1 DEF Visit, IInv, Shape
  <2>2. pos[c] \in Sector BY <2>1 DEF IInv, Shape
  <2>3. QED BY <1>1, <2>2 DEF CheckSector, IInv, TypeOK, Shape, Place
<1>4. /\ mpos' \in [Monsters -> Sector]
      /\ mState' \in [Monsters -> {"alive", "dead"}]
  BY <1>2 DEF IInv, TypeOK
<1>5. /\ faults' = faults
      /\ itemAt' \in [Items -> Place] /\ mItemUniqueID' \subseteq Items
      /\ seenItems' \in [Characters -> SUBSET Items]
      /\ \A i \in Items \ mItemUniqueID' : itemAt'[i] = Nowhere
      /\ \A d \in Characters \ Watchers : seenItems'[d] = {}
      /\ \A d \in Watchers :
           seenItems'[d] = {i \in Items : itemAt'[i] \in Around(mCurrentSector[d])}
  <2>1. CASE faults' = faults /\ UNCHANGED <<itemVars, seenItems>>
    BY <2>1 DEF IInv, TypeOK, Shape, Screens, WorldShown, itemVars
  <2>2. CASE \E i \in Items \ mItemUniqueID :
               /\ mItemUniqueID' = mItemUniqueID \cup {i}
               /\ itemAt' = [itemAt EXCEPT ![i] = p]
               /\ seenItems' = Told(seenItems, PlayersIn(Around(p)), i)
               /\ faults' = faults \cup Twice(seenItems, PlayersIn(Around(p)), i)
    <3>1. PICK i \in Items \ mItemUniqueID :
               /\ mItemUniqueID' = mItemUniqueID \cup {i}
               /\ itemAt' = [itemAt EXCEPT ![i] = p]
               /\ seenItems' = Told(seenItems, PlayersIn(Around(p)), i)
               /\ faults' = faults \cup Twice(seenItems, PlayersIn(Around(p)), i)
      BY <2>2
    <3>2. PlayersIn(Around(p)) = {d \in players : mCurrentSector[d] \in Around(p)}
      BY AroundSectors, Visited DEF IInv
    <3>3. itemAt[i] \notin Sector BY NowhereOutside DEF IInv, Shape
    <3>4. \A d \in Watchers : i \notin seenItems[d]
      BY <3>3, AroundSectors DEF IInv, Screens, WorldShown
    <3>5. faults' = faults BY <3>1, <3>2, <3>4 DEF Twice, Watchers
    <3>6. /\ seenItems' \in [Characters -> SUBSET Items]
          /\ \A d \in Characters : seenItems'[d] =
               IF d \in PlayersIn(Around(p)) /\ connected[d]
               THEN seenItems[d] \cup {i} ELSE seenItems[d]
      BY <3>1 DEF Told, IInv, TypeOK
    <3>7. ASSUME NEW d \in Watchers
          PROVE  seenItems'[d] = {j \in Items : itemAt'[j] \in Around(mCurrentSector[d])}
      <4>1. /\ d \in Characters /\ d \in players /\ connected[d]
            /\ mCurrentSector[d] \in Sector
        BY DEF Watchers, IInv, TypeOK, Shape
      <4>2. seenItems[d] = {j \in Items : itemAt[j] \in Around(mCurrentSector[d])}
        BY DEF IInv, Screens, WorldShown
      <4>3. p \in Around(mCurrentSector[d]) <=> mCurrentSector[d] \in Around(p)
        BY <4>1, AroundSymmetric
      <4>4. itemAt'[i] = p /\ \A j \in Items \ {i} : itemAt'[j] = itemAt[j]
        BY <3>1 DEF IInv, TypeOK
      <4>5. i \in seenItems'[d] <=> p \in Around(mCurrentSector[d])
        BY <3>2, <3>4, <3>6, <4>1, <4>3
      <4>6. \A j \in Items \ {i} : j \in seenItems'[d] <=> j \in seenItems[d]
        BY <3>6, <4>1
      <4>7. seenItems'[d] \subseteq Items BY <3>6, <4>1
      <4>8. QED BY <4>2, <4>4, <4>5, <4>6, <4>7
    <3>8. \A d \in Characters \ Watchers : seenItems'[d] = {}
      BY <3>2, <3>6 DEF Watchers, IInv, Shape
    <3>9. QED
      BY <3>1, <3>5, <3>6, <3>7, <3>8 DEF IInv, TypeOK, Shape, Place
  <2>3. QED BY <1>2, <2>1, <2>2 DEF DropItem
<1>6. TypeOK' BY <1>1, <1>3, <1>4, <1>5, VisitStep DEF IInv, TypeOK
<1>7. Shape'
  <2>1. Watchers' = Watchers BY <1>1 DEF Watchers
  <2>2. QED BY <1>1, <1>3, <1>5, <2>1, VisitStep DEF IInv, Shape
<1>8. RegistersAgree' BY <1>1 DEF IInv, RegistersAgree
<1>9. Screens' BY <1>1, <1>5, ItemsShown
<1>10. FaultsOfReturners' BY <1>1, <1>5 DEF IInv, FaultsOfReturners
<1>11. QED BY <1>6, <1>7, <1>8, <1>9, <1>10 DEF IInv

(* An item that expires goes from every screen that shows it.              *)
LEMMA ExpireItemsStep == ASSUME IInv, ExpireItems PROVE IInv'
<1>1. UNCHANGED <<todo, playerVars, monsterVars, mItemUniqueID, seenPlayers, seenMonsters,
                  faults>>
      /\ phase' = "packets"
  BY DEF ExpireItems
<1>2. PICK gone \in SUBSET Items :
        /\ itemAt' = [i \in Items |-> IF i \in gone THEN Nowhere ELSE itemAt[i]]
        /\ seenItems' = [d \in Characters |->
             IF connected[d]
             THEN {i \in seenItems[d] : ~(i \in gone /\ d \in PlayersIn(Around(itemAt[i])))}
             ELSE seenItems[d]]
  BY DEF ExpireItems
<1>3. ASSUME NEW d \in Watchers
      PROVE  seenItems'[d] = {i \in Items : itemAt'[i] \in Around(mCurrentSector[d])}
  <2>1. /\ d \in Characters /\ d \in players /\ connected[d]
        /\ mCurrentSector[d] \in Sector
    BY DEF Watchers, IInv, TypeOK, Shape
  <2>2. seenItems[d] = {i \in Items : itemAt[i] \in Around(mCurrentSector[d])}
    BY DEF IInv, Screens, WorldShown
  <2>3. \A i \in seenItems[d] : d \in PlayersIn(Around(itemAt[i]))
    <3>1. SUFFICES ASSUME NEW i \in seenItems[d]
                   PROVE  d \in PlayersIn(Around(itemAt[i]))
      OBVIOUS
    <3>2. itemAt[i] \in Around(mCurrentSector[d]) /\ itemAt[i] \in Sector
      BY <2>2, AroundSectors
    <3>3. mCurrentSector[d] \in Around(itemAt[i]) BY <2>1, <3>2, AroundSymmetric
    <3>4. PlayersIn(Around(itemAt[i])) = {e \in players : mCurrentSector[e] \in Around(itemAt[i])}
      BY AroundSectors, Visited DEF IInv
    <3>5. QED BY <2>1, <3>3, <3>4
  <2>4. seenItems'[d] = {i \in seenItems[d] : i \notin gone} BY <1>2, <2>1, <2>3
  <2>5. Nowhere \notin Around(mCurrentSector[d]) BY NowhereOutside, AroundSectors
  <2>6. QED BY <1>2, <2>2, <2>4, <2>5
<1>4. /\ itemAt' \in [Items -> Place]
      /\ seenItems' \in [Characters -> SUBSET Items]
  BY <1>2 DEF IInv, TypeOK, Place
<1>5. TypeOK'
  BY <1>1, <1>4 DEF IInv, TypeOK, Phases, playerVars, monsterVars
<1>6. Shape'
  <2>1. Watchers' = Watchers BY <1>1 DEF Watchers, playerVars
  <2>2. \A d \in Characters \ Watchers : seenItems'[d] = {}
    BY <1>2 DEF IInv, Shape
  <2>3. \A i \in Items \ mItemUniqueID : itemAt'[i] = Nowhere
    BY <1>2 DEF IInv, Shape
  <2>4. QED BY <1>1, <2>1, <2>2, <2>3 DEF IInv, Shape, playerVars
<1>7. RegistersAgree' BY <1>1 DEF IInv, RegistersAgree, playerVars, monsterVars
<1>8. Screens' BY <1>1, <1>3, ItemsShown DEF playerVars, monsterVars
<1>9. FaultsOfReturners' BY <1>1 DEF IInv, FaultsOfReturners, playerVars
<1>10. QED BY <1>5, <1>6, <1>7, <1>8, <1>9 DEF IInv

(* An item that is looted goes from every screen that shows it.            *)
LEMMA LootReqStep ==
  ASSUME IInv, NEW c \in Characters, NEW i \in Items, LootReq(c, i) PROVE IInv'
<1>1. /\ UNCHANGED <<loopVars, playerVars, monsterVars, mItemUniqueID,
                      seenPlayers, seenMonsters, faults>>
      /\ itemAt' = [itemAt EXCEPT ![i] = Nowhere]
      /\ seenItems' = Untold(seenItems, PlayersIn(Around(itemAt[i])), i)
      /\ itemAt[i] \in Sector
  BY AroundSectors DEF LootReq, Packet
<1>2. PlayersIn(Around(itemAt[i])) = {d \in players : mCurrentSector[d] \in Around(itemAt[i])}
  BY AroundSectors, Visited DEF IInv
<1>3. /\ seenItems' \in [Characters -> SUBSET Items]
      /\ \A d \in Characters : seenItems'[d] =
           IF d \in PlayersIn(Around(itemAt[i])) /\ connected[d]
           THEN seenItems[d] \ {i} ELSE seenItems[d]
  BY <1>1 DEF Untold, IInv, TypeOK
<1>4. ASSUME NEW d \in Watchers
      PROVE  seenItems'[d] = {j \in Items : itemAt'[j] \in Around(mCurrentSector[d])}
  <2>1. /\ d \in Characters /\ d \in players /\ connected[d]
        /\ mCurrentSector[d] \in Sector
    BY DEF Watchers, IInv, TypeOK, Shape
  <2>2. seenItems[d] = {j \in Items : itemAt[j] \in Around(mCurrentSector[d])}
    BY DEF IInv, Screens, WorldShown
  <2>3. itemAt[i] \in Around(mCurrentSector[d]) <=> mCurrentSector[d] \in Around(itemAt[i])
    BY <1>1, <2>1, AroundSymmetric
  <2>4. seenItems'[d] = seenItems[d] \ {i} BY <1>2, <1>3, <2>1, <2>2, <2>3
  <2>5. Nowhere \notin Around(mCurrentSector[d]) BY NowhereOutside, AroundSectors
  <2>6. itemAt'[i] = Nowhere /\ \A j \in Items \ {i} : itemAt'[j] = itemAt[j]
    BY <1>1 DEF IInv, TypeOK
  <2>7. QED BY <2>2, <2>4, <2>5, <2>6
<1>5. TypeOK'
  BY <1>1, <1>3 DEF IInv, TypeOK, Place, loopVars, playerVars, monsterVars
<1>6. Shape'
  <2>1. Watchers' = Watchers BY <1>1 DEF Watchers, playerVars
  <2>2. \A d \in Characters \ Watchers : seenItems'[d] = {}
    BY <1>3 DEF IInv, Shape
  <2>3. \A j \in Items \ mItemUniqueID : itemAt'[j] = Nowhere
    BY <1>1 DEF IInv, TypeOK, Shape
  <2>4. QED BY <1>1, <2>1, <2>2, <2>3 DEF IInv, Shape, loopVars, playerVars
<1>7. RegistersAgree' BY <1>1 DEF IInv, RegistersAgree, playerVars, monsterVars
<1>8. Screens' BY <1>1, <1>4, ItemsShown DEF playerVars, monsterVars
<1>9. FaultsOfReturners' BY <1>1 DEF IInv, FaultsOfReturners, playerVars
<1>10. QED BY <1>5, <1>6, <1>7, <1>8, <1>9 DEF IInv

-----------------------------------------------------------------------------
(* The registers catch up with the positions.                              *)

(* The players: mDestSector is where the player is registered until its    *)
(* update in a frame, where it stands from then on, and both once the      *)
(* second loop has met it.  Only then may updateSectorChechk leave         *)
(* mDestSector alone when the player is back in its sector.                *)
PlayersCatchUp ==
  \A c \in players :
    /\ \/ phase \notin {"players", "sectors"}
       \/ phase = "players" /\ c \in todo
       \/ phase = "sectors" /\ c \notin todo
       => mDestSector[c] = mCurrentSector[c]
    /\ \/ phase = "players" /\ c \notin todo
       \/ phase = "sectors"
       => mDestSector[c] = pos[c]
    /\ phase = "monsters" /\ todo = Monsters => mCurrentSector[c] = pos[c]

(* The monsters: the same, but for a monster that was dead when its update *)
(* began.  That one is not met by the fourth loop, and mDestSector waits   *)
(* for monsterProc, which meets every monster that was dead and is alive.  *)
MonstersCatchUp ==
  \A m \in Monsters :
    /\ mBeforeState[m] = "dead" =>
         \/ phase \in {"monsterSectors", "expiry", "packets"}
         \/ phase = "monsters" /\ m \notin todo
         \/ phase = "monsterProc" /\ m \in todo
         \/ mState[m] = "dead"
    /\ mBeforeState[m] # "dead" =>
         /\ \/ phase \notin {"monsters", "monsterSectors"}
            \/ phase = "monsters" /\ m \in todo
            \/ phase = "monsterSectors" /\ m \notin todo
            => mDest[m] = mSector[m]
         /\ \/ phase = "monsters" /\ m \notin todo
            \/ phase \in {"monsterSectors", "expiry", "packets"}
            => mDest[m] = mpos[m]

(* Loops that only turn over.                                              *)
LEMMA CatchUpNextLoop ==
  ASSUME IInv, PlayersCatchUp, MonstersCatchUp, NextLoop
  PROVE  PlayersCatchUp' /\ MonstersCatchUp'
<1>1. UNCHANGED <<players, pos, mCurrentSector, mDestSector, mpos, mSector, mDest, mState,
                  mBeforeState>>
  BY DEF NextLoop, Loop, playerVars, monsterVars
<1>2. PlayersCatchUp'
  BY <1>1 DEF PlayersCatchUp, NextLoop, Loop
<1>3. MonstersCatchUp'
  BY <1>1 DEF MonstersCatchUp, NextLoop, Loop
<1>4. QED BY <1>2, <1>3

(* A step that leaves the players' sectors and positions alone, outside    *)
(* their two loops, keeps what is said of them.                            *)
LEMMA PlayersRest ==
  ASSUME PlayersCatchUp, UNCHANGED <<players, pos, mCurrentSector, mDestSector>>,
         phase \notin {"players", "sectors"}, phase' \notin {"players", "sectors"},
         phase' = "monsters" /\ todo' = Monsters => phase = "monsters" /\ todo = Monsters
  PROVE  PlayersCatchUp'
BY DEF PlayersCatchUp

(* The players' own steps.                                                 *)
LEMMA CatchUpPlayers ==
  ASSUME IInv, PlayersCatchUp, MonstersCatchUp, NEW c \in Characters,
         \/ Disconnect(c) \/ RegisterPlayer(c) \/ PlayerUpdate(c)
         \/ ChangeSector(c) \/ Move(c) \/ AttackReq(c) \/ SaveResult(c)
  PROVE  PlayersCatchUp' /\ MonstersCatchUp'
<1>1. /\ pos \in [Characters -> Place] /\ mCurrentSector \in [Characters -> Place]
      /\ mDestSector \in [Characters -> Place] /\ players \subseteq Characters
  BY DEF IInv, TypeOK
<1>2. UNCHANGED <<mpos, mSector, mDest, mState, mBeforeState>>
  BY DEF Disconnect, RegisterPlayer, PlayerUpdate, ChangeSector, Move, AttackReq, SaveResult,
         monsterVars
<1>3. /\ phase' = phase
      /\ phase \notin {"players", "sectors"} => todo' = todo
  BY DEF Disconnect, RegisterPlayer, PlayerUpdate, ChangeSector, Move, AttackReq, SaveResult,
         Visit, Packet, loopVars
<1>4. MonstersCatchUp'
  BY <1>2, <1>3 DEF MonstersCatchUp
<1>5. CASE Disconnect(c)
  BY <1>5, <1>4 DEF PlayersCatchUp, Disconnect, loopVars
<1>6. CASE RegisterPlayer(c)
  BY <1>6, <1>4, <1>1 DEF PlayersCatchUp, RegisterPlayer, loopVars
<1>7. CASE PlayerUpdate(c)
  <2>1. PICK p : pos' = [pos EXCEPT ![c] = p] /\ CheckSector(c, p)
    BY <1>7 DEF PlayerUpdate
  <2>2. UNCHANGED <<players, mCurrentSector>> /\ Visit("players", c)
    BY <1>7 DEF PlayerUpdate
  <2>3. /\ pos'[c] = p /\ \A d \in Characters \ {c} : pos'[d] = pos[d]
        /\ \A d \in Characters \ {c} : mDestSector'[d] = mDestSector[d]
        /\ mDestSector'[c] = IF p = mCurrentSector[c] THEN mDestSector[c] ELSE p
    BY <1>1, <2>1 DEF CheckSector
  <2>4. QED BY <1>4, <1>1, <2>2, <2>3 DEF PlayersCatchUp, Visit
<1>8. CASE ChangeSector(c)
  BY <1>8, <1>4, <1>1 DEF PlayersCatchUp, ChangeSector, Visit
<1>9. CASE Move(c) \/ AttackReq(c)
  <2>1. /\ phase = "packets" /\ UNCHANGED <<players, mCurrentSector, mDestSector>>
    BY <1>9 DEF Move, AttackReq, Packet, playerVars
  <2>2. QED BY <1>4, <1>3, <2>1 DEF PlayersCatchUp
<1>10. CASE SaveResult(c)
  <2>1. /\ phase = "results" /\ players' = players \ {c}
        /\ \A d \in players' : mCurrentSector'[d] = mCurrentSector[d]
                             /\ mDestSector'[d] = mDestSector[d]
    BY <1>10, <1>1 DEF SaveResult
  <2>2. QED BY <1>4, <1>3, <2>1 DEF PlayersCatchUp
<1>11. QED BY <1>5, <1>6, <1>7, <1>8, <1>9, <1>10

(* A player's blow moves the monster it hits, before the monsters' loop.   *)
LEMMA CatchUpPlayerStrike ==
  ASSUME IInv, PlayersCatchUp, MonstersCatchUp, NEW c \in Characters, NEW m \in Monsters,
         PlayerStrike(c, m)
  PROVE  PlayersCatchUp' /\ MonstersCatchUp'
<1>1. /\ pos \in [Characters -> Place] /\ mCurrentSector \in [Characters -> Place]
      /\ mDestSector \in [Characters -> Place] /\ players \subseteq Characters
      /\ mState \in [Monsters -> {"alive", "dead"}]
  BY DEF IInv, TypeOK
<1>2. /\ UNCHANGED <<players, pos, mCurrentSector, mSector, mDest, mBeforeState>>
      /\ Visit("players", c) /\ CheckSector(c, pos[c])
      /\ \A n \in Monsters : mState'[n] = mState[n] \/ mState'[n] = "dead"
  BY <1>1 DEF PlayerStrike
<1>3. /\ \A d \in Characters \ {c} : mDestSector'[d] = mDestSector[d]
      /\ mDestSector'[c] = IF pos[c] = mCurrentSector[c] THEN mDestSector[c] ELSE pos[c]
  BY <1>1, <1>2 DEF CheckSector
<1>4. PlayersCatchUp' BY <1>1, <1>2, <1>3 DEF PlayersCatchUp, Visit
<1>5. MonstersCatchUp' BY <1>2 DEF MonstersCatchUp, Visit
<1>6. QED BY <1>4, <1>5

(* The steps of the monsters' loop.  A monster that walks, or strikes, was *)
(* registered at mDestSector when its update began, unless it was dead.    *)
LEMMA CatchUpMonsterUpdate ==
  ASSUME IInv, PlayersCatchUp, MonstersCatchUp, NEW m \in Monsters,
         MonsterUpdate(m) \/ \E c \in Characters : MonsterStrike(m, c)
  PROVE  PlayersCatchUp' /\ MonstersCatchUp'
<1>1. /\ mpos \in [Monsters -> Sector] /\ mDest \in [Monsters -> Sector]
      /\ mState \in [Monsters -> {"alive", "dead"}]
      /\ mBeforeState \in [Monsters -> {"alive", "dead"}]
  BY DEF IInv, TypeOK
<1>2. /\ UNCHANGED <<players, mCurrentSector, mDestSector, mSector>>
      /\ Visit("monsters", m)
      /\ mBeforeState' = [mBeforeState EXCEPT ![m] = mState[m]]
  BY DEF MonsterUpdate, MonsterStrike, playerVars
<1>3. PlayersCatchUp' BY <1>2 DEF PlayersCatchUp, Visit
<1>4. \A n \in Monsters \ {m} : /\ mpos'[n] = mpos[n] /\ mDest'[n] = mDest[n]
                                 /\ mState'[n] = mState[n]
                                 /\ mBeforeState'[n] = mBeforeState[n]
  BY <1>1, <1>2 DEF MonsterUpdate, MonsterStrike, CheckMonsterSector
<1>5. ASSUME mState[m] = "alive"
      PROVE  mDest'[m] = IF mpos'[m] = mSector[m] THEN mDest[m] ELSE mpos'[m]
  BY <1>1, <1>5 DEF MonsterUpdate, MonsterStrike, CheckMonsterSector
<1>6. mBeforeState'[m] = mState[m]
  BY <1>1, <1>2
<1>7. mState[m] = "alive" => mDest'[m] = mpos'[m]
  <2>1. mBeforeState[m] = "dead" => mState[m] = "dead"
    BY <1>2 DEF MonstersCatchUp, Visit
  <2>2. mState[m] = "alive" => mDest[m] = mSector[m]
    BY <1>1, <1>2, <2>1 DEF MonstersCatchUp, Visit
  <2>3. QED BY <1>5, <2>2
<1>8. MonstersCatchUp'
  BY <1>1, <1>2, <1>4, <1>6, <1>7 DEF MonstersCatchUp, Visit
<1>9. QED BY <1>3, <1>8

(* The steps of the other two loops over the monsters.                     *)
LEMMA CatchUpMonsterLoops ==
  ASSUME IInv, PlayersCatchUp, MonstersCatchUp, NEW m \in Monsters,
         ChangeMonsterSector(m) \/ Respawn(m) \/ Announce(m)
  PROVE  PlayersCatchUp' /\ MonstersCatchUp'
<1>1. /\ mSector \in [Monsters -> Sector]
      /\ mBeforeState \in [Monsters -> {"alive", "dead"}]
  BY DEF IInv, TypeOK
<1>2. /\ UNCHANGED <<players, pos, mCurrentSector, mDestSector, mpos, mDest, mState>>
      /\ phase' = phase /\ phase \in {"monsterSectors", "monsterProc"}
  BY DEF ChangeMonsterSector, Respawn, Announce, playerVars, monsterVars, Visit
<1>3. PlayersCatchUp' BY <1>2, PlayersRest
<1>4. CASE ChangeMonsterSector(m)
  BY <1>1, <1>2, <1>3, <1>4 DEF MonstersCatchUp, ChangeMonsterSector, Visit, Relocate
<1>5. CASE Respawn(m)
  BY <1>1, <1>2, <1>3, <1>5 DEF MonstersCatchUp, Respawn, Visit, Relocate
<1>6. CASE Announce(m)
  <2>1. UNCHANGED <<mSector, mBeforeState>> /\ Visit("monsterProc", m)
    BY <1>6 DEF Announce, monsterVars
  <2>2. mBeforeState[m] = "dead" => mState[m] = "dead"
    BY <1>6 DEF Announce
  <2>3. /\ phase = "monsterProc" /\ phase' = "monsterProc"
        /\ \A n \in Monsters \ {m} : n \in todo' <=> n \in todo
    BY <2>1 DEF Visit
  <2>4. MonstersCatchUp' BY <1>2, <2>1, <2>2, <2>3 DEF MonstersCatchUp
  <2>5. QED BY <1>3, <2>4
<1>7. QED BY <1>4, <1>5, <1>6

(* The steps that move no player and no monster.                           *)
LEMMA CatchUpOthers ==
  ASSUME IInv, PlayersCatchUp, MonstersCatchUp,
         \/ ExpireItems \/ RequestSaves
         \/ \E c \in Characters : \E i \in Items : LootReq(c, i)
         \/ UNCHANGED vars
  PROVE  PlayersCatchUp' /\ MonstersCatchUp'
<1>1. UNCHANGED <<players, pos, mCurrentSector, mDestSector, mpos, mSector, mDest, mState,
                  mBeforeState>>
  BY DEF ExpireItems, RequestSaves, LootReq, playerVars, monsterVars, vars
<1>2. \/ UNCHANGED loopVars
      \/ phase = "expiry" /\ phase' = "packets"
      \/ phase = "leave" /\ phase' = "results"
  BY DEF ExpireItems, RequestSaves, LootReq, Packet, vars
<1>3. PlayersCatchUp' BY <1>1, <1>2 DEF PlayersCatchUp, loopVars
<1>4. MonstersCatchUp' BY <1>1, <1>2 DEF MonstersCatchUp, loopVars
<1>5. QED BY <1>3, <1>4

-----------------------------------------------------------------------------
(* The theorems.                                                           *)

(* A step that changes nothing keeps the invariant.                        *)
LEMMA StutterStep == ASSUME IInv, UNCHANGED vars PROVE IInv'
<1>1. TypeOK'
  BY DEF IInv, TypeOK, vars, loopVars, playerVars, monsterVars, itemVars, clientVars
<1>2. Watchers' = Watchers BY DEF Watchers, vars, playerVars
<1>3. Shape'
  BY <1>2 DEF IInv, Shape, vars, loopVars, playerVars, monsterVars, itemVars, clientVars
<1>4. QED
  BY <1>1, <1>3, QuietStep DEF vars, playerVars, monsterVars, itemVars, clientVars

(* The inductive invariant holds in every state of the field.              *)
THEOREM IInvHolds == Spec => []IInv
<1>1. Init => IInv BY InitStep
<1>2. IInv /\ [Next]_vars => IInv'
  <2>1. SUFFICES ASSUME IInv, [Next]_vars PROVE IInv' OBVIOUS
  <2>2. CASE NextLoop BY <2>1, <2>2, NextLoopStep
  <2>3. ASSUME NEW c \in Characters,
               \/ Disconnect(c) \/ RegisterPlayer(c) \/ PlayerUpdate(c)
               \/ ChangeSector(c) \/ Move(c) \/ AttackReq(c) \/ SaveResult(c)
        PROVE  IInv'
    BY <2>1, <2>3, DisconnectStep, RegisterPlayerStep, PlayerUpdateStep,
       ChangeSectorStep, PacketStep, SaveResultStep
  <2>4. ASSUME NEW c \in Characters, NEW m \in Monsters,
               PlayerStrike(c, m) \/ MonsterStrike(m, c)
        PROVE  IInv'
    BY <2>1, <2>4, PlayerStrikeStep, MonsterStrikeStep
  <2>5. ASSUME NEW c \in Characters, NEW i \in Items, LootReq(c, i) PROVE IInv'
    BY <2>1, <2>5, LootReqStep
  <2>6. ASSUME NEW m \in Monsters,
               MonsterUpdate(m) \/ ChangeMonsterSector(m) \/ Respawn(m) \/ Announce(m)
        PROVE  IInv'
    BY <2>1, <2>6, MonsterUpdateStep, ChangeMonsterSectorStep, RespawnStep, AnnounceStep
  <2>7. CASE ExpireItems \/ RequestSaves
    BY <2>1, <2>7, ExpireItemsStep, RequestSavesStep
  <2>8. CASE UNCHANGED vars BY <2>1, <2>8, StutterStep
  <2>9. QED BY <2>1, <2>2, <2>3, <2>4, <2>5, <2>6, <2>7, <2>8 DEF Next
<1>3. QED BY <1>1, <1>2, PTL DEF Spec

(* Type correctness.                                                       *)
THEOREM TypeCorrect == Spec => []TypeOK
<1>1. IInv => TypeOK BY DEF IInv
<1>2. QED BY <1>1, IInvHolds, PTL

(* The registers of the sectors always agree with mCurrentSector and       *)
(* mSector, so that every find before an erase succeeds.                   *)
THEOREM RegistersAreRight == Spec => []RegistersAgree
<1>1. IInv => RegistersAgree BY DEF IInv
<1>2. QED BY <1>1, IInvHolds, PTL

(* Every player of the field around a connected client is on its screen.   *)
THEOREM NobodyIsMissing == Spec => []NeighboursShown
<1>1. IInv => NeighboursShown BY DEF IInv, Screens
<1>2. QED BY <1>1, IInvHolds, PTL

(* Only characters that have left before can be on a screen wrongly.       *)
THEOREM OnlyGhostsAreWrong == Spec => []OnlyNeighboursShown
<1>1. IInv => OnlyNeighboursShown BY DEF IInv, Screens
<1>2. QED BY <1>1, IInvHolds, PTL

(* The monsters and items on a screen are exactly those around the client. *)
THEOREM WorldIsShown == Spec => []WorldShown
<1>1. IInv => WorldShown BY DEF IInv, Screens
<1>2. QED BY <1>1, IInvHolds, PTL

(* A connected client's picture is its neighbourhood, ghosts excepted.     *)
THEOREM PictureIsRight == Spec => []ScreensRight
<1>1. IInv => NeighboursShown /\ OnlyNeighboursShown /\ WorldShown BY DEF IInv, Screens
<1>2. IInv => ScreensRight BY <1>1 DEF ScreensRight
<1>3. QED BY <1>2, IInvHolds, PTL

(* No assertion of a client fails but a second SPAWN of a character that   *)
(* has left before.                                                        *)
THEOREM OnlyReturnersFault == Spec => []FaultsOfReturners
<1>1. IInv => FaultsOfReturners BY DEF IInv
<1>2. QED BY <1>1, IInvHolds, PTL

(* Once a frame every player is registered where it stands, before any     *)
(* monster moves; and every monster, but the ones that were dead, before   *)
(* any packet is read.                                                     *)
THEOREM RegistersAreInTime == Spec => []RegistersCatchUp
<1>1. Init => PlayersCatchUp /\ MonstersCatchUp
  BY DEF Init, PlayersCatchUp, MonstersCatchUp
<1>2. IInv /\ PlayersCatchUp /\ MonstersCatchUp /\ [Next]_vars
        => PlayersCatchUp' /\ MonstersCatchUp'
  <2>1. SUFFICES ASSUME IInv, PlayersCatchUp, MonstersCatchUp, [Next]_vars
                 PROVE  PlayersCatchUp' /\ MonstersCatchUp'
    OBVIOUS
  <2>2. CASE NextLoop BY <2>1, <2>2, CatchUpNextLoop
  <2>3. ASSUME NEW c \in Characters,
               \/ Disconnect(c) \/ RegisterPlayer(c) \/ PlayerUpdate(c)
               \/ ChangeSector(c) \/ Move(c) \/ AttackReq(c) \/ SaveResult(c)
        PROVE  PlayersCatchUp' /\ MonstersCatchUp'
    BY <2>1, <2>3, CatchUpPlayers
  <2>4. ASSUME NEW c \in Characters, NEW m \in Monsters, PlayerStrike(c, m)
        PROVE  PlayersCatchUp' /\ MonstersCatchUp'
    BY <2>1, <2>4, CatchUpPlayerStrike
  <2>5. ASSUME NEW c \in Characters, NEW m \in Monsters, MonsterStrike(m, c)
        PROVE  PlayersCatchUp' /\ MonstersCatchUp'
    BY <2>1, <2>5, CatchUpMonsterUpdate
  <2>6. ASSUME NEW m \in Monsters, MonsterUpdate(m)
        PROVE  PlayersCatchUp' /\ MonstersCatchUp'
    BY <2>1, <2>6, CatchUpMonsterUpdate
  <2>7. ASSUME NEW m \in Monsters, ChangeMonsterSector(m) \/ Respawn(m) \/ Announce(m)
        PROVE  PlayersCatchUp' /\ MonstersCatchUp'
    BY <2>1, <2>7, CatchUpMonsterLoops
  <2>8. CASE \/ ExpireItems \/ RequestSaves
             \/ \E c \in Characters : \E i \in Items : LootReq(c, i)
             \/ UNCHANGED vars
    BY <2>1, <2>8, CatchUpOthers
  <2>9. QED BY <2>1, <2>2, <2>3, <2>4, <2>5, <2>6, <2>7, <2>8 DEF Next
<1>3. PlayersCatchUp /\ MonstersCatchUp => RegistersCatchUp
  BY DEF PlayersCatchUp, MonstersCatchUp, RegistersCatchUp
<1>4. QED BY <1>1, <1>2, <1>3, IInvHolds, PTL DEF Spec
=============================================================================

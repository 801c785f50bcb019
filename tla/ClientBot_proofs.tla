--------------------------- MODULE ClientBot_proofs ---------------------------
(***************************************************************************)
(* Proofs about ClientBot, for any monsters and items, any frame counts    *)
(* and any number of packets under way: the bot meets none of its own      *)
(* assertions, an item it waits for is on its way to be answered, and it   *)
(* stands when the server makes it swing or loot.                          *)
(***************************************************************************)
EXTENDS ClientBot, SequenceTheorems, TLAPS

-----------------------------------------------------------------------------
(* The inductive invariant.                                                *)

UpPackets == {"FIELD_AUTH_REQ", "MOVE_START", "MOVE_STOP", "PLAYER_ATTACK_REQ", "LOOT_REQ"}
Acts == {"PLAYER_ATTACK_REQ", "LOOT_REQ"}

FromMonsters == {"MONSTER_MOVE_STOP", "MONSTER_DAMAGED", "CHARACTER_DAMAGED"}

(* The packets of the server, with the id each of them carries. *)
DownPackets ==
  {d \in [type : FromMonsters \union {"FIELD_AUTH_RES", "ITEM_SPAWN", "LOOT_RES"},
          id : Monsters \union Items \union {-1}, hp : 0 .. PLAYER_MAX_HP] :
     /\ d.type \in FromMonsters => d.id \in Monsters
     /\ d.type = "ITEM_SPAWN" => d.id \in Items
     /\ d.type = "LOOT_RES" => d = Packet("LOOT_RES")}

(* A player none of whose changes of state failed its assertion. *)
PlayerShape ==
  [mState : ePlayerState, mAnimFrame : 0 .. PLAYER_ATTACK_TOTAL_FRAME - 1,
   mHp : 0 .. PLAYER_MAX_HP, mHitStunFrame : 0 .. PLAYER_HIT_STUN_FRAME, ok : {TRUE}]

Wire ==
  /\ up \in Seq(UpPackets) /\ down \in Seq(DownPackets)
  /\ player \in PlayerShape \union {NoPlayer}
  /\ late \in 0 .. Len(up)

(* Where the connection stands: the login is the first packet and its answer the *)
(* first that is received, and the server has a player in between.               *)
Stages ==
  /\ mSessionState \in {"DISCONNECTED", "REQ_CONNECT", "CONNECTED", "AUTHED"}
  /\ ~Connected => up = <<>> /\ down = <<>> /\ ~Entered
  /\ mSessionState = "CONNECTED" => mState = "Idle"
  /\ mSessionState = "CONNECTED" /\ ~Entered => up = <<"FIELD_AUTH_REQ">> /\ down = <<>>
  /\ mSessionState = "CONNECTED" /\ Entered =>
       /\ up = <<>> /\ down # <<>> /\ down[1].type = "FIELD_AUTH_RES"
       /\ \A i \in 2 .. Len(down) : down[i].type # "FIELD_AUTH_RES"
  /\ mSessionState = "AUTHED" =>
       /\ Entered /\ \A i \in 1 .. Len(up) : up[i] # "FIELD_AUTH_REQ"
       /\ \A i \in 1 .. Len(down) : down[i].type # "FIELD_AUTH_RES"

BotRight ==
  /\ mState \in {"Idle", "Move", "Chase", "Attack", "Stun", "Root", "Dead"}
  /\ mAnimFrame \in 0 .. PLAYER_ATTACK_TOTAL_FRAME + PLAYER_HIT_STUN_FRAME
  /\ mState = "Attack" => mAnimFrame <= PLAYER_ATTACK_TOTAL_FRAME
  /\ mState = "Stun" => mAnimFrame <= PLAYER_HIT_STUN_FRAME
  /\ mBMove \in BOOLEAN /\ mMonsterKillTime \in BOOLEAN /\ mLootRequested \in BOOLEAN
  /\ mTargetID \in Monsters \union {-1} /\ mTargetItemID \in Items \union {-1}
  /\ mDeadFrame \in 0 .. DEAD_FRAME

(* One request for an item is under way at most, or its answer, and the bot still *)
(* has the item in mind.                                                          *)
InReq(q) == \E i \in 1 .. Len(q) : q[i] = "LOOT_REQ"
InRes(q) == \E i \in 1 .. Len(q) : q[i].type = "LOOT_RES"
LootOnce ==
  /\ \A i, j \in 1 .. Len(up) : up[i] = "LOOT_REQ" /\ up[j] = "LOOT_REQ" => i = j
  /\ \A i, j \in 1 .. Len(down) :
       down[i].type = "LOOT_RES" /\ down[j].type = "LOOT_RES" => i = j
  /\ ~(InReq(up) /\ InRes(down))
  /\ InReq(up) \/ InRes(down) => mTargetItemID # -1 /\ mLootRequested
LootKept ==
  mTargetItemID # -1 /\ mLootRequested => InReq(up) \/ InRes(down) \/ kept \/ ~Connected

(* No MOVE_STOP lies between the i-th and the j-th packet of q. *)
NoStop(q, i, j) == \A k \in i + 1 .. j - 1 : q[k] # "MOVE_STOP"

(* Packets q are on their way, on says whether the bot takes itself to be moving, *)
(* the first l of them were sent before it heard of a hit, and free whether the   *)
(* server moves it as it was asked to.  A walk that a hit has not overtaken ends  *)
(* before a swing, and before the bot takes itself to be standing.                *)
Way(q, on, l, free) ==
  /\ \A i, j \in 1 .. Len(q) :
       i < j /\ q[i] = "MOVE_START" /\ q[j] \in Acts /\ NoStop(q, i, j) => i <= l
  /\ ~on => \A i \in 1 .. Len(q) : q[i] = "MOVE_START" /\ NoStop(q, i, Len(q) + 1) => i <= l
  /\ free => /\ \A j \in 1 .. Len(q) : q[j] \in Acts => ~NoStop(q, 0, j)
             /\ ~on => ~NoStop(q, 0, Len(q) + 1)

Free == player.mState = "Move" /\ ~crossed
WayInv ==
  /\ Way(up, mBMove, late, Free)
  /\ Free => \A i \in 1 .. Len(down) : down[i].type # "CHARACTER_DAMAGED"
  /\ crossed \in BOOLEAN

(* What the bot sends in a frame, if it took itself to be moving and now does or *)
(* does not.                                                                     *)
Says(s, on, now) ==
  \/ s = <<>> /\ now = on
  \/ s = <<"MOVE_START">> /\ now = TRUE
  \/ s = <<"MOVE_STOP">> /\ now = FALSE
  \/ s = <<"MOVE_STOP", "MOVE_START">> /\ now = TRUE
  \/ \E a \in Acts : s = (IF on THEN <<"MOVE_STOP", a>> ELSE <<a>>) /\ now = FALSE

IInv == Wire /\ Stages /\ BotRight /\ BotSound /\ LootOnce /\ LootKept /\ WayInv

-----------------------------------------------------------------------------
(* What is sent and taken.                                                 *)

(* One packet more. *)
LEMMA OneMore ==
  ASSUME NEW q \in Seq(UpPackets), NEW a \in UpPackets, NEW l \in 0 .. Len(q), NEW free
  PROVE  LET r == Append(q, a) IN
         /\ r \in Seq(UpPackets) /\ Len(r) = Len(q) + 1 /\ Len(q) \in Nat /\ l \in 0 .. Len(r)
         /\ \A i \in 1 .. Len(q) : r[i] = q[i]
         /\ r[Len(r)] = a
         /\ Way(q, TRUE, l, free) /\ a = "MOVE_STOP" => Way(r, FALSE, l, free)
         /\ Way(q, TRUE, l, free) /\ a = "MOVE_START" => Way(r, TRUE, l, free)
         /\ Way(q, FALSE, l, free) /\ a \in Acts => Way(r, FALSE, l, free)
<1> DEFINE r == Append(q, a)
<1>1. /\ r \in Seq(UpPackets) /\ Len(r) = Len(q) + 1 /\ Len(q) \in Nat
      /\ \A i \in 1 .. Len(q) : r[i] = q[i]
  BY AppendProperties, LenProperties
<1>2. r[Len(q) + 1] = a BY AppendProperties
<1> HIDE DEF r
<1>3. l \in 0 .. Len(r) BY <1>1
<1>4. \A i : \A j \in 1 .. Len(q) + 1 : i \in Nat /\ NoStop(r, i, j) => NoStop(q, i, j)
  BY <1>1 DEF NoStop
<1>5. a = "MOVE_STOP" => \A i \in 0 .. Len(q) : ~NoStop(r, i, Len(r) + 1)
  <2>1. SUFFICES ASSUME a = "MOVE_STOP", NEW i \in 0 .. Len(q) PROVE ~NoStop(r, i, Len(r) + 1)
    OBVIOUS
  <2>2. Len(q) + 1 \in i + 1 .. Len(r) + 1 - 1 BY <1>1
  <2>3. QED BY <1>2, <2>1, <2>2 DEF NoStop
<1>6. ASSUME Way(q, TRUE, l, free), a \notin Acts
      PROVE  /\ \A i, j \in 1 .. Len(r) :
                  i < j /\ r[i] = "MOVE_START" /\ r[j] \in Acts /\ NoStop(r, i, j) => i <= l
             /\ free => \A j \in 1 .. Len(r) : r[j] \in Acts => ~NoStop(r, 0, j)
  <2>1. \A j \in 1 .. Len(r) : r[j] \in Acts => j \in 1 .. Len(q) /\ r[j] = q[j]
    BY <1>1, <1>2, <1>6
  <2>2. ASSUME NEW i \in 1 .. Len(r), NEW j \in 1 .. Len(r),
               i < j, r[i] = "MOVE_START", r[j] \in Acts, NoStop(r, i, j)
        PROVE  i <= l
    <3>1. j \in 1 .. Len(q) /\ q[j] \in Acts BY <2>1, <2>2
    <3>2. i \in 1 .. Len(q) /\ q[i] = "MOVE_START" BY <1>1, <2>2, <3>1
    <3>3. NoStop(q, i, j) BY <1>1, <1>4, <2>2, <3>1, <3>2
    <3>4. QED BY <1>6, <2>2, <3>1, <3>2, <3>3 DEF Way
  <2>3. ASSUME free, NEW j \in 1 .. Len(r), r[j] \in Acts, NoStop(r, 0, j) PROVE FALSE
    <3>1. j \in 1 .. Len(q) /\ q[j] \in Acts BY <2>1, <2>3
    <3>2. NoStop(q, 0, j) BY <1>1, <1>4, <2>3, <3>1
    <3>3. QED BY <1>6, <2>3, <3>1, <3>2 DEF Way
  <2>4. QED BY <2>2, <2>3
<1>7. ASSUME Way(q, TRUE, l, free), a = "MOVE_STOP" PROVE Way(r, FALSE, l, free)
  <2>1. a \notin Acts BY <1>7 DEF Acts
  <2>2. \A i \in 1 .. Len(r) : ~(r[i] = "MOVE_START" /\ NoStop(r, i, Len(r) + 1))
    <3>1. SUFFICES ASSUME NEW i \in 1 .. Len(r), r[i] = "MOVE_START", NoStop(r, i, Len(r) + 1)
                   PROVE  FALSE
      OBVIOUS
    <3>2. i # Len(q) + 1 BY <1>2, <1>7, <3>1
    <3>3. i \in 0 .. Len(q) BY <1>1, <3>2
    <3>4. QED BY <1>5, <1>7, <3>1, <3>3
  <2>3. 0 \in 0 .. Len(q) BY <1>1
  <2>4. ~NoStop(r, 0, Len(r) + 1) BY <1>5, <1>7, <2>3
  <2>5. QED BY <1>6, <1>7, <2>1, <2>2, <2>4 DEF Way
<1>8. ASSUME Way(q, TRUE, l, free), a = "MOVE_START" PROVE Way(r, TRUE, l, free)
  BY <1>6, <1>8 DEF Way, Acts
<1>9. ASSUME Way(q, FALSE, l, free), a \in Acts PROVE Way(r, FALSE, l, free)
  <2>1. ASSUME NEW i \in 1 .. Len(r), r[i] = "MOVE_START" PROVE i \in 1 .. Len(q) /\ q[i] = "MOVE_START"
    BY <1>1, <1>2, <1>9, <2>1 DEF Acts
  <2>2. ASSUME NEW i \in 1 .. Len(r), NEW j \in 1 .. Len(r),
               i < j, r[i] = "MOVE_START", r[j] \in Acts, NoStop(r, i, j)
        PROVE  i <= l
    <3>1. i \in 1 .. Len(q) /\ q[i] = "MOVE_START" /\ i \in Nat BY <1>1, <2>1, <2>2
    <3>2. j \in 1 .. Len(q) + 1 BY <1>1
    <3>3. NoStop(q, i, j) BY <1>4, <2>2, <3>1, <3>2
    <3>4. CASE j = Len(q) + 1 BY <1>9, <3>1, <3>3, <3>4 DEF Way
    <3>5. CASE j # Len(q) + 1
      <4>1. j \in 1 .. Len(q) /\ q[j] \in Acts BY <1>1, <2>2, <3>2, <3>5
      <4>2. QED BY <1>9, <2>2, <3>1, <3>3, <4>1 DEF Way
    <3>6. QED BY <3>4, <3>5
  <2>3. ASSUME NEW i \in 1 .. Len(r), r[i] = "MOVE_START", NoStop(r, i, Len(r) + 1) PROVE i <= l
    <3>1. i \in 1 .. Len(q) /\ q[i] = "MOVE_START" /\ i \in Nat BY <1>1, <2>1, <2>3
    <3>2. NoStop(q, i, Len(q) + 1) BY <1>1, <2>3 DEF NoStop
    <3>3. QED BY <1>9, <3>1, <3>2 DEF Way
  <2>4. ASSUME free, NEW j \in 1 .. Len(r), r[j] \in Acts, NoStop(r, 0, j) PROVE FALSE
    <3>1. j \in 1 .. Len(q) + 1 /\ NoStop(q, 0, j) BY <1>1, <1>4, <2>4
    <3>2. CASE j = Len(q) + 1 BY <1>9, <2>4, <3>1, <3>2 DEF Way
    <3>3. CASE j # Len(q) + 1
      <4>1. j \in 1 .. Len(q) /\ q[j] \in Acts BY <1>1, <2>4, <3>1, <3>3
      <4>2. QED BY <1>9, <2>4, <3>1, <4>1 DEF Way
    <3>4. QED BY <3>2, <3>3
  <2>5. ASSUME free, NoStop(r, 0, Len(r) + 1) PROVE FALSE
    <3>1. NoStop(q, 0, Len(q) + 1) BY <1>1, <2>5 DEF NoStop
    <3>2. QED BY <1>9, <2>5, <3>1 DEF Way
  <2>6. QED BY <2>2, <2>3, <2>4, <2>5 DEF Way
<1>10. QED BY <1>1, <1>2, <1>3, <1>7, <1>8, <1>9 DEF r

(* A bot that takes itself to be moving may well be standing. *)
LEMMA WayWeaker == ASSUME NEW q, NEW on, NEW l, NEW free, Way(q, on, l, free) PROVE Way(q, TRUE, l, free)
BY DEF Way

(* The server takes the first packet. *)
LEMMA WayTail ==
  ASSUME NEW q \in Seq(UpPackets), q # <<>>, NEW on \in BOOLEAN, NEW l \in 0 .. Len(q),
         NEW free \in BOOLEAN, NEW next \in BOOLEAN,
         Way(q, on, l, free), next => free \/ (q[1] = "MOVE_START" /\ l = 0),
         q[1] = "MOVE_STOP" => ~next
  PROVE  LET k == IF l > 0 THEN l - 1 ELSE 0 IN
         k \in 0 .. Len(Tail(q)) /\ Way(Tail(q), on, k, next)
<1> DEFINE r == Tail(q)
           k == IF l > 0 THEN l - 1 ELSE 0
<1>1. /\ r \in Seq(UpPackets) /\ Len(r) = Len(q) - 1 /\ Len(q) \in Nat /\ Len(r) \in Nat
      /\ \A i \in 1 .. Len(r) : r[i] = q[i + 1]
  BY HeadTailProperties, LenProperties
<1> HIDE DEF r
<1>2. k \in 0 .. Len(r) /\ \A i \in 1 .. Len(r) : i + 1 <= l => i <= k BY <1>1
<1>3. \A i, j \in 0 .. Len(r) + 1 : NoStop(r, i, j) => NoStop(q, i + 1, j + 1)
  <2>1. SUFFICES ASSUME NEW i \in 0 .. Len(r) + 1, NEW j \in 0 .. Len(r) + 1, NoStop(r, i, j),
                        NEW m \in i + 1 + 1 .. j + 1 - 1
                 PROVE  q[m] # "MOVE_STOP"
    BY DEF NoStop
  <2>2. m - 1 \in i + 1 .. j - 1 /\ m - 1 \in 1 .. Len(r) /\ m - 1 + 1 = m BY <1>1
  <2>3. r[m - 1] = q[m] BY <1>1, <2>2
  <2>4. QED BY <2>1, <2>2, <2>3 DEF NoStop
<1> HIDE DEF k
<1>4. ASSUME NEW i \in 1 .. Len(r), NEW j \in 1 .. Len(r),
             i < j, r[i] = "MOVE_START", r[j] \in Acts, NoStop(r, i, j)
      PROVE  i <= k
  <2>1. i + 1 \in 1 .. Len(q) /\ j + 1 \in 1 .. Len(q) /\ i + 1 < j + 1 BY <1>1, <1>4
  <2>2. q[i + 1] = "MOVE_START" /\ q[j + 1] \in Acts BY <1>1, <1>4
  <2>3. NoStop(q, i + 1, j + 1) BY <1>1, <1>3, <1>4
  <2>4. i + 1 <= l BY <2>1, <2>2, <2>3 DEF Way
  <2>5. QED BY <1>2, <2>4
<1>5. ASSUME ~on, NEW i \in 1 .. Len(r), r[i] = "MOVE_START", NoStop(r, i, Len(r) + 1)
      PROVE  i <= k
  <2>1. i + 1 \in 1 .. Len(q) /\ Len(r) + 1 + 1 = Len(q) + 1 BY <1>1
  <2>2. q[i + 1] = "MOVE_START" BY <1>1, <1>5
  <2>3. NoStop(q, i + 1, Len(q) + 1)
    <3>1. i \in 0 .. Len(r) + 1 /\ Len(r) + 1 \in 0 .. Len(r) + 1 BY <1>1
    <3>2. NoStop(q, i + 1, Len(r) + 1 + 1) BY <1>3, <1>5, <3>1
    <3>3. QED BY <2>1, <3>2
  <2>4. i + 1 <= l BY <1>5, <2>1, <2>2, <2>3 DEF Way
  <2>5. QED BY <1>2, <2>4
(* The walk of the server, seen from the packets behind the first. *)
<1>6. ASSUME next, NEW j \in 1 .. Len(r) + 1, NoStop(r, 0, j), j = Len(r) + 1 => ~on,
             j # Len(r) + 1 => r[j] \in Acts
      PROVE  FALSE
  <2>1. q[1] # "MOVE_STOP" /\ 1 \in 1 .. Len(q) BY <1>1, <1>6, EmptySeq
  <2>2. NoStop(q, 1, j + 1)
    <3>1. 0 \in 0 .. Len(r) + 1 /\ j \in 0 .. Len(r) + 1 BY <1>1
    <3>2. NoStop(q, 0 + 1, j + 1) BY <1>3, <1>6, <3>1
    <3>3. QED BY <3>2
  <2>3. NoStop(q, 0, j + 1)
    <3>1. SUFFICES ASSUME NEW m \in 0 + 1 .. j + 1 - 1 PROVE q[m] # "MOVE_STOP" BY DEF NoStop
    <3>2. CASE m = 1 BY <2>1, <3>2
    <3>3. CASE m # 1
      <4>1. m \in 1 + 1 .. j + 1 - 1 BY <1>1, <3>3
      <4>2. QED BY <2>2, <4>1 DEF NoStop
    <3>4. QED BY <3>2, <3>3
  <2>4. j # Len(r) + 1 => j + 1 \in 1 .. Len(q) /\ q[j + 1] \in Acts BY <1>1, <1>6
  <2>5. j = Len(r) + 1 => j + 1 = Len(q) + 1 BY <1>1
  <2>6. CASE free BY <1>6, <2>3, <2>4, <2>5, <2>6 DEF Way
  <2>7. CASE q[1] = "MOVE_START" /\ l = 0
    <3>1. 1 < j + 1 /\ ~(1 <= l) BY <1>1, <2>7
    <3>2. CASE j # Len(r) + 1 BY <2>1, <2>2, <2>4, <2>7, <3>1, <3>2 DEF Way
    <3>3. CASE j = Len(r) + 1 BY <1>6, <2>1, <2>2, <2>5, <2>7, <3>1, <3>3 DEF Way
    <3>4. QED BY <3>2, <3>3
  <2>8. QED BY <1>6, <2>6, <2>7
<1>7. /\ next => \A j \in 1 .. Len(r) : r[j] \in Acts => ~NoStop(r, 0, j)
      /\ next /\ ~on => ~NoStop(r, 0, Len(r) + 1)
  <2>1. ASSUME next, NEW j \in 1 .. Len(r), r[j] \in Acts PROVE ~NoStop(r, 0, j)
    <3>1. j \in 1 .. Len(r) + 1 /\ j # Len(r) + 1 BY <1>1
    <3>2. QED BY <1>6, <2>1, <3>1
  <2>2. ASSUME next, ~on PROVE ~NoStop(r, 0, Len(r) + 1)
    <3>1. Len(r) + 1 \in 1 .. Len(r) + 1 BY <1>1
    <3>2. QED BY <1>6, <2>2, <3>1
  <2>3. QED BY <2>1, <2>2
<1>8. Way(r, on, k, next) BY <1>4, <1>5, <1>7 DEF Way
<1>9. QED BY <1>2, <1>8 DEF r, k

(* What the bot says in a frame goes to the end of the queue, and Way holds for  *)
(* what it now takes itself to be doing.                                         *)
LEMMA Said ==
  ASSUME NEW q \in Seq(UpPackets), NEW on \in BOOLEAN, NEW l \in 0 .. Len(q), NEW free,
         Way(q, on, l, free), NEW s, NEW now, Says(s, on, now)
  PROVE  LET r == q \o s IN
         /\ r \in Seq(UpPackets) /\ l \in 0 .. Len(r) /\ now \in BOOLEAN
         /\ Len(q) \in Nat /\ Len(r) \in Nat /\ Len(r) >= Len(q)
         /\ \A i \in 1 .. Len(q) : r[i] = q[i]
         /\ \A i \in 1 .. Len(r) : i > Len(q) =>
              /\ r[i] # "FIELD_AUTH_REQ"
              /\ r[i] = "LOOT_REQ" => i = Len(r) /\ s \in {<<"LOOT_REQ">>, <<"MOVE_STOP", "LOOT_REQ">>}
         /\ s \in {<<"LOOT_REQ">>, <<"MOVE_STOP", "LOOT_REQ">>} => Len(r) > 0 /\ r[Len(r)] = "LOOT_REQ"
         /\ Way(r, now, l, free)
<1> DEFINE r == q \o s
           Asks == s \in {<<"LOOT_REQ">>, <<"MOVE_STOP", "LOOT_REQ">>}
           Goal == /\ r \in Seq(UpPackets) /\ l \in 0 .. Len(r) /\ now \in BOOLEAN
                   /\ Len(q) \in Nat /\ Len(r) \in Nat /\ Len(r) >= Len(q)
                   /\ \A i \in 1 .. Len(q) : r[i] = q[i]
                   /\ \A i \in 1 .. Len(r) : i > Len(q) =>
                        /\ r[i] # "FIELD_AUTH_REQ"
                        /\ r[i] = "LOOT_REQ" => i = Len(r) /\ Asks
                   /\ Asks => Len(r) > 0 /\ r[Len(r)] = "LOOT_REQ"
                   /\ Way(r, now, l, free)
<1>1. Len(q) \in Nat BY LenProperties
<1>2. CASE s = <<>> /\ now = on
  <2>1. r = q BY <1>2, ConcatEmptySeq
  <2>2. ~Asks BY <1>2
  <2> HIDE DEF r, Asks
  <2>3. Goal BY <1>1, <1>2, <2>1, <2>2
  <2>4. QED BY <2>3 DEF r, Asks
<1>3. ASSUME NEW a \in UpPackets, a # "FIELD_AUTH_REQ", s = <<a>>, now \in BOOLEAN,
             Way(Append(q, a), now, l, free)
      PROVE  Goal
  <2>1. r = Append(q, a) BY <1>3
  <2>2. /\ r \in Seq(UpPackets) /\ Len(r) = Len(q) + 1 /\ l \in 0 .. Len(r)
        /\ \A i \in 1 .. Len(q) : r[i] = q[i]
        /\ r[Len(r)] = a
    BY <2>1, OneMore
  <2>3. a = "LOOT_REQ" <=> Asks BY <1>3
  <2> HIDE DEF r, Asks
  <2>4. \A i \in 1 .. Len(r) : i > Len(q) => i = Len(r) BY <1>1, <2>2
  <2>5. Way(r, now, l, free) BY <1>3, <2>1
  <2>6. QED BY <1>1, <1>3, <2>2, <2>3, <2>4, <2>5
<1>4. ASSUME NEW a \in UpPackets, a # "FIELD_AUTH_REQ", s = <<"MOVE_STOP", a>>, now \in BOOLEAN,
             Way(Append(Append(q, "MOVE_STOP"), a), now, l, free)
      PROVE  Goal
  <2>1. r = Append(Append(q, "MOVE_STOP"), a) BY <1>4
  <2> DEFINE t == Append(q, "MOVE_STOP")
  <2>2. "MOVE_STOP" \in UpPackets BY DEF UpPackets
  <2>3. /\ t \in Seq(UpPackets) /\ Len(t) = Len(q) + 1 /\ l \in 0 .. Len(t)
        /\ \A i \in 1 .. Len(q) : t[i] = q[i]
        /\ t[Len(t)] = "MOVE_STOP"
    BY <2>2, OneMore
  <2>4. r = Append(t, a) BY <2>1
  <2> HIDE DEF t
  <2>5. /\ r \in Seq(UpPackets) /\ Len(r) = Len(t) + 1 /\ l \in 0 .. Len(r)
        /\ \A i \in 1 .. Len(t) : r[i] = t[i]
        /\ r[Len(r)] = a
    BY <2>3, <2>4, OneMore
  <2>6. a = "LOOT_REQ" <=> Asks BY <1>4
  <2> HIDE DEF r, Asks
  <2>7. \A i \in 1 .. Len(r) : i > Len(q) => i = Len(r) \/ (i = Len(t) /\ i \in 1 .. Len(t))
    BY <1>1, <2>3, <2>5
  <2>8. \A i \in 1 .. Len(q) : r[i] = q[i] BY <1>1, <2>3, <2>5
  <2>9. ASSUME NEW i \in 1 .. Len(r), i > Len(q)
        PROVE  r[i] # "FIELD_AUTH_REQ" /\ (r[i] = "LOOT_REQ" => i = Len(r) /\ Asks)
    <3>1. CASE i = Len(r) BY <1>4, <2>5, <2>6, <3>1
    <3>2. CASE i = Len(t) /\ i \in 1 .. Len(t)
      <4>1. r[i] = "MOVE_STOP" BY <2>3, <2>5, <3>2
      <4>2. QED BY <4>1
    <3>3. QED BY <2>7, <2>9, <3>1, <3>2
  <2>10. Way(r, now, l, free) BY <1>4, <2>1
  <2>11. Len(r) \in Nat /\ Len(r) >= Len(q) /\ Len(r) > 0 BY <1>1, <2>3, <2>5
  <2>12. QED BY <1>1, <1>4, <2>5, <2>6, <2>8, <2>9, <2>10, <2>11
<1>5. Way(q, TRUE, l, free) BY WayWeaker
<1>6. /\ "MOVE_STOP" \in UpPackets /\ "MOVE_START" \in UpPackets /\ Acts \subseteq UpPackets
      /\ "FIELD_AUTH_REQ" \notin Acts
  BY DEF UpPackets, Acts
<1>7. Append(q, "MOVE_STOP") \in Seq(UpPackets) /\ l \in 0 .. Len(Append(q, "MOVE_STOP"))
      /\ Way(Append(q, "MOVE_STOP"), FALSE, l, free)
  BY <1>5, <1>6, OneMore
<1>8. CASE s = <<"MOVE_START">> /\ now = TRUE
  <2>1. Way(Append(q, "MOVE_START"), TRUE, l, free) BY <1>5, <1>6, OneMore
  <2>2. QED BY <1>3, <1>6, <1>8, <2>1
<1>9. CASE s = <<"MOVE_STOP">> /\ now = FALSE BY <1>3, <1>6, <1>7, <1>9
<1>10. CASE s = <<"MOVE_STOP", "MOVE_START">> /\ now = TRUE
  <2>1. Way(Append(q, "MOVE_STOP"), TRUE, l, free) BY <1>7, WayWeaker
  <2>2. Way(Append(Append(q, "MOVE_STOP"), "MOVE_START"), TRUE, l, free)
    BY <1>6, <1>7, <2>1, OneMore
  <2>3. QED BY <1>4, <1>6, <1>10, <2>2
<1>11. ASSUME NEW a \in Acts, s = (IF on THEN <<"MOVE_STOP", a>> ELSE <<a>>), now = FALSE PROVE Goal
  <2>1. CASE on
    <3>1. Way(Append(Append(q, "MOVE_STOP"), a), FALSE, l, free) BY <1>6, <1>7, OneMore
    <3>2. s = <<"MOVE_STOP", a>> BY <1>11, <2>1
    <3>3. a \in UpPackets /\ a # "FIELD_AUTH_REQ" BY <1>6
    <3>4. QED BY <1>4, <1>11, <3>1, <3>2, <3>3
  <2>2. CASE ~on
    <3>1. Way(q, FALSE, l, free) BY <2>2
    <3>2. Way(Append(q, a), FALSE, l, free) BY <1>6, <3>1, OneMore
    <3>3. s = <<a>> BY <1>11, <2>2
    <3>4. a \in UpPackets /\ a # "FIELD_AUTH_REQ" BY <1>6
    <3>5. QED BY <1>3, <1>11, <3>2, <3>3, <3>4
  <2>3. QED BY <2>1, <2>2
<1>12. QED BY <1>2, <1>8, <1>9, <1>10, <1>11 DEF Says

-----------------------------------------------------------------------------
(* The server's player.                                                    *)

(* The states a player may have, and the least and greatest of its counters. *)
LEMMA PlayerStates ==
  /\ {"Idle", "Move", "Attack", "Dead", "Stun"} \subseteq ePlayerState
  /\ \A s \in ePlayerState : s \in {"Idle", "Move", "Attack", "Dead", "Stun"}
  /\ 0 \in 0 .. PLAYER_ATTACK_TOTAL_FRAME - 1
  /\ 0 \in 0 .. PLAYER_MAX_HP /\ PLAYER_MAX_HP \in 0 .. PLAYER_MAX_HP
  /\ 0 \in 0 .. PLAYER_HIT_STUN_FRAME /\ PLAYER_HIT_STUN_FRAME \in 0 .. PLAYER_HIT_STUN_FRAME
BY PlayerAssumption DEF ePlayerState

(* changeState, from another state. *)
LEMMA ChangePlayerState ==
  ASSUME NEW p \in PlayerShape, NEW state \in ePlayerState, p.mState # state
  PROVE  LET q == changeState(p, state) IN
         /\ q \in PlayerShape /\ q.mState = state /\ q.mAnimFrame = 0
BY PlayerStates DEF PlayerShape, changeState

(* A hit stuns a player or kills it. *)
LEMMA PlayerHurt ==
  ASSUME NEW p \in PlayerShape, p.mState # "Dead"
  PROVE  takeDamage(p) \in PlayerShape /\ takeDamage(p).mState \in {"Stun", "Dead"}
<1> DEFINE left == IF p.mHp > MONSTER_ATTACK_DAMAGE THEN p.mHp - MONSTER_ATTACK_DAMAGE ELSE 0
           hurt == [p EXCEPT !.mHp = left]
           stunned == [hurt EXCEPT !.mHitStunFrame = PLAYER_HIT_STUN_FRAME]
           q == takeDamage(p)
<1>1. left \in 0 .. PLAYER_MAX_HP BY PlayerAssumption DEF PlayerShape
<1>2. /\ left = 0 => q = changeState(hurt, "Dead")
      /\ left # 0 /\ p.mState = "Stun" => q = stunned
      /\ left # 0 /\ p.mState # "Stun" => q = changeState(stunned, "Stun")
  BY DEF takeDamage
<1> HIDE DEF left, q
<1>3. hurt \in PlayerShape /\ hurt.mState = p.mState BY <1>1 DEF PlayerShape
<1>4. stunned \in PlayerShape /\ stunned.mState = p.mState
  BY <1>3, PlayerStates DEF PlayerShape
<1> HIDE DEF hurt, stunned
<1>5. CASE left = 0
  <2>1. q \in PlayerShape /\ q.mState = "Dead"
    BY <1>2, <1>3, <1>5, PlayerStates, ChangePlayerState
  <2>2. QED BY <2>1 DEF q
<1>6. CASE left # 0 /\ p.mState = "Stun" BY <1>2, <1>4, <1>6 DEF q
<1>7. CASE left # 0 /\ p.mState # "Stun"
  <2>1. q \in PlayerShape /\ q.mState = "Stun"
    BY <1>2, <1>4, <1>7, PlayerStates, ChangePlayerState
  <2>2. QED BY <2>1 DEF q
<1>8. QED BY <1>5, <1>6, <1>7

(* A frame of the server begins no walk. *)
LEMMA PlayerFrame ==
  ASSUME NEW p \in PlayerShape
  PROVE  LET q == update(p, TRUE) IN
         q \in PlayerShape /\ (q.mState = "Move" => p.mState = "Move")
<1> DEFINE q == update(p, TRUE)
<1>1. CASE p.mState = "Attack" /\ p.mAnimFrame + 1 >= PLAYER_ATTACK_TOTAL_FRAME
  <2>1. q = changeState(p, "Idle") BY <1>1 DEF update
  <2>2. p.mState # "Idle" /\ "Idle" \in ePlayerState BY <1>1, PlayerStates
  <2>3. changeState(p, "Idle") \in PlayerShape /\ changeState(p, "Idle").mState = "Idle"
    BY <2>2, ChangePlayerState
  <2>4. QED BY <2>1, <2>3
<1>2. CASE p.mState = "Attack" /\ ~(p.mAnimFrame + 1 >= PLAYER_ATTACK_TOTAL_FRAME)
  <2>1. q = [p EXCEPT !.mAnimFrame = @ + 1] BY <1>2 DEF update
  <2>2. p.mAnimFrame + 1 \in 0 .. PLAYER_ATTACK_TOTAL_FRAME - 1
    BY <1>2, PlayerAssumption DEF PlayerShape
  <2>3. q \in PlayerShape /\ q.mState = "Attack" BY <1>2, <2>1, <2>2 DEF PlayerShape
  <2>4. QED BY <2>3
<1>3. CASE p.mState = "Stun"
  <2>1. CASE p.mHitStunFrame > 0
    <3>1. q = [p EXCEPT !.mHitStunFrame = @ - 1] BY <1>3, <2>1 DEF update
    <3>2. p.mHitStunFrame - 1 \in 0 .. PLAYER_HIT_STUN_FRAME
      BY <2>1, PlayerAssumption DEF PlayerShape
    <3>3. q \in PlayerShape /\ q.mState = "Stun" BY <1>3, <3>1, <3>2 DEF PlayerShape
    <3>4. QED BY <3>3
  <2>2. CASE ~(p.mHitStunFrame > 0)
    <3>1. q = changeState(p, "Idle") BY <1>3, <2>2 DEF update
    <3>2. q \in PlayerShape /\ q.mState = "Idle" BY <1>3, <3>1, PlayerStates, ChangePlayerState
    <3>3. QED BY <3>2
  <2>3. QED BY <2>1, <2>2
<1>4. CASE p.mState \notin {"Attack", "Stun"}
  <2>1. q = p BY <1>4 DEF update
  <2>2. QED BY <1>4, <2>1
<1>5. QED BY <1>1, <1>2, <1>3, <1>4

(* What a packet makes of a player. *)
LEMMA PlayerAsks ==
  ASSUME NEW p \in PlayerShape
  PROVE  /\ handleMoveStart(p) \in PlayerShape
         /\ handleMoveStart(p).mState = "Move" => StartTaken(p) \/ p.mState = "Move"
         /\ handleMoveStop(p) \in PlayerShape /\ handleMoveStop(p).mState # "Move"
         /\ handleAttackReq(p) \in PlayerShape /\ handleAttackReq(p).mState # "Move"
<1>1. /\ handleMoveStart(p) \in PlayerShape
      /\ handleMoveStart(p).mState = "Move" => StartTaken(p) \/ p.mState = "Move"
  BY PlayerStates, ChangePlayerState DEF handleMoveStart, StartTaken
<1>2. handleMoveStop(p) \in PlayerShape /\ handleMoveStop(p).mState # "Move"
  BY PlayerStates, ChangePlayerState DEF handleMoveStop, StopTaken
<1>3. handleAttackReq(p) \in PlayerShape /\ handleAttackReq(p).mState # "Move"
  BY PlayerStates, ChangePlayerState DEF handleAttackReq, AttackTaken
<1>4. QED BY <1>1, <1>2, <1>3

(* NoPlayer is none. *)
LEMMA NoPlayerIsNone ==
  NoPlayer \notin PlayerShape /\ NoPlayer.mState = "none" /\ NewPlayer \in PlayerShape
  /\ NewPlayer.mState = "Idle"
<1>1. NoPlayer.mState = "none" BY DEF NoPlayer
<1>2. \A p \in PlayerShape : p.mState \in ePlayerState BY DEF PlayerShape
<1>3. "none" \notin ePlayerState BY DEF ePlayerState
<1>4. NewPlayer \in PlayerShape /\ NewPlayer.mState = "Idle"
  BY PlayerStates DEF NewPlayer, PlayerShape
<1>5. QED BY <1>1, <1>2, <1>3, <1>4

-----------------------------------------------------------------------------
(* The connection.                                                         *)

(* A queue that is new. *)
LEMMA NewQueue ==
  ASSUME NEW q, q = <<>> \/ q = <<"FIELD_AUTH_REQ">>, NEW on, NEW l
  PROVE  q \in Seq(UpPackets) /\ Way(q, on, l, FALSE) /\ ~InReq(q)
<1>1. CASE q = <<>>
  <2>1. q \in Seq(UpPackets) /\ Len(q) = 0 BY <1>1
  <2>2. \A i : i \notin 1 .. Len(q) BY <2>1
  <2>3. QED BY <2>1, <2>2 DEF Way, InReq
<1>2. CASE q = <<"FIELD_AUTH_REQ">>
  <2>1. q \in Seq(UpPackets) /\ Len(q) = 1 /\ q[1] = "FIELD_AUTH_REQ" BY <1>2 DEF UpPackets
  <2>2. \A i \in 1 .. Len(q) : q[i] = "FIELD_AUTH_REQ" BY <2>1
  <2>3. QED BY <2>1, <2>2 DEF Way, InReq, Acts
<1>3. QED BY <1>1, <1>2

(* A connection is made or ends, and nothing is on its way but the login. *)
LEMMA ConnectionParts ==
  ASSUME IInv, up' = <<>> \/ up' = <<"FIELD_AUTH_REQ">>, down' = <<>>, player' = NoPlayer,
         late' = 0, crossed' \in BOOLEAN, UNCHANGED targetVars
  PROVE  Wire' /\ LootOnce' /\ WayInv'
<1>1. /\ up' \in Seq(UpPackets) /\ Way(up', mBMove', 0, FALSE) /\ ~InReq(up')
      /\ Len(up') \in Nat
  BY NewQueue, LenProperties
<1>2. down' \in Seq(DownPackets) /\ Len(down') = 0 /\ \A i : i \notin 1 .. Len(down') BY EmptySeq
<1>3. Free' = FALSE BY NoPlayerIsNone DEF Free
<1>4. \A i : i \in 1 .. Len(up') => up'[i] # "LOOT_REQ" BY <1>1 DEF InReq
<1>5. Wire' BY <1>1, <1>2 DEF Wire
<1>6. LootOnce' BY <1>1, <1>2, <1>4 DEF LootOnce, InRes, InReq
<1>7. WayInv' BY <1>1, <1>3 DEF WayInv
<1>8. QED BY <1>5, <1>6, <1>7

(* connectSession, a connect that succeeds or fails, and the two ways a connection *)
(* ends.                                                                           *)
LEMMA ConnectionStep == ASSUME IInv, Connection PROVE IInv'
<1>1. CASE connectSession \/ ConnectFails
  <2>1. /\ mSessionState \in {"DISCONNECTED", "REQ_CONNECT"}
        /\ mSessionState' \in {"DISCONNECTED", "REQ_CONNECT"}
        /\ UNCHANGED <<up, down, player, late, crossed>>
        /\ UNCHANGED <<actorVars, targetVars, countVars, asserted, kept>>
        /\ mDeadFrame' = mDeadFrame \/ mDeadFrame' = 0
    BY <1>1 DEF connectSession, ConnectFails
  <2>2. ~Connected /\ ~Connected' BY <2>1 DEF Connected
  <2>3. BotRight' BY <2>1, BotAssumption DEF IInv, BotRight, actorVars, targetVars
  <2>4. BotSound' BY <2>1, <2>2 DEF IInv, BotSound, countVars, Connected
  <2>5. Wire' BY <2>1 DEF IInv, Wire
  <2>6. Stages' BY <2>1, <2>2 DEF IInv, Stages, Entered
  <2>7. LootOnce' BY <2>1 DEF IInv, LootOnce, InReq, InRes, targetVars
  <2>8. LootKept' BY <2>2 DEF LootKept
  <2>9. WayInv' BY <2>1 DEF IInv, WayInv, Free, actorVars
  <2>10. QED BY <2>3, <2>4, <2>5, <2>6, <2>7, <2>8, <2>9 DEF IInv
<1>2. CASE ConnectSucceeds
  <2>1. /\ mSessionState = "REQ_CONNECT" /\ mSessionState' = "CONNECTED" /\ mState' = "Idle"
        /\ up' = <<"FIELD_AUTH_REQ">>
        /\ mAuthWaitCount' = mAuthWaitCount + 1 /\ mConnectedCount' = mConnectedCount + 1
        /\ kept' = mLootRequested
        /\ UNCHANGED <<mAnimFrame, mBMove, targetVars, mDeadFrame, asserted, down, player, late, crossed>>
    BY <1>2 DEF ConnectSucceeds, PostFieldAuthReq
  <2>2. ~Connected BY <2>1 DEF Connected
  <2>3. up = <<>> /\ down = <<>> /\ player = NoPlayer BY <2>2 DEF IInv, Stages, Entered
  <2>4. late = 0
    <3>1. Len(up) = 0 BY <2>3
    <3>2. QED BY <3>1 DEF IInv, Wire
  <2>5. crossed' \in BOOLEAN /\ UNCHANGED targetVars BY <2>1 DEF IInv, WayInv
  <2>11. Wire' /\ LootOnce' /\ WayInv' BY <2>1, <2>3, <2>4, <2>5, ConnectionParts
  <2>6. BotRight' BY <2>1 DEF IInv, BotRight, targetVars
  <2>7. BotSound' BY <2>1, <2>2 DEF IInv, BotSound, Connected
  <2>8. Stages' BY <2>1, <2>3 DEF Stages, Connected, Entered
  <2>9. LootKept' BY <2>1 DEF LootKept, targetVars
  <2>10. QED BY <2>11, <2>6, <2>7, <2>8, <2>9 DEF IInv
<1>3. CASE DeadDisconnects \/ ConnectionLost
  <2>1. /\ Connected /\ Disconnect /\ mConnectedCount' = mConnectedCount - 1
        /\ mAuthWaitCount' = mAuthWaitCount - (IF mSessionState = "CONNECTED" THEN 1 ELSE 0)
    BY <1>3 DEF DeadDisconnects, ConnectionLost, IInv, BotSound, Stages
  <2>2. /\ mSessionState' = "DISCONNECTED"
        /\ up' = <<>> /\ down' = <<>> /\ player' = NoPlayer /\ late' = 0 /\ crossed' = FALSE
        /\ UNCHANGED <<actorVars, mDeadFrame, asserted, kept>> /\ UNCHANGED targetVars
    BY <2>1 DEF Disconnect
  <2>3. Wire' /\ LootOnce' /\ WayInv' BY <2>2, ConnectionParts
  <2>4. ~Connected' BY <2>2 DEF Connected
  <2>5. BotRight' BY <2>2 DEF IInv, BotRight, actorVars, targetVars
  <2>6. BotSound' BY <2>1, <2>2, <2>4 DEF IInv, BotSound
  <2>7. Stages' BY <2>2, <2>4 DEF Stages, Entered
  <2>8. LootKept' BY <2>4 DEF LootKept
  <2>9. QED BY <2>3, <2>5, <2>6, <2>7, <2>8 DEF IInv
<1>4. QED BY <1>1, <1>2, <1>3 DEF Connection

-----------------------------------------------------------------------------
(* The bot.                                                                *)

(* The bot in another state has its first frame there, in the same state one more. *)
LEMMA BotStates ==
  ASSUME BotRight, ~asserted,
         \/ \E state \in {"Idle", "Move", "Chase", "Attack", "Root"} :
               state # mState /\ changeBotState(state)
         \/ SameState /\ mState \in {"Idle", "Move", "Chase", "Root", "Dead"}
         \/ SameState /\ mState = "Attack" /\ mAnimFrame # PLAYER_ATTACK_TOTAL_FRAME
         \/ SameState /\ mState = "Stun" /\ mAnimFrame # PLAYER_HIT_STUN_FRAME
  PROVE  /\ ~asserted'
         /\ mState' \in {"Idle", "Move", "Chase", "Attack", "Stun", "Root", "Dead"}
         /\ mAnimFrame' \in 0 .. PLAYER_ATTACK_TOTAL_FRAME + PLAYER_HIT_STUN_FRAME
         /\ mState' = "Attack" => mAnimFrame' <= PLAYER_ATTACK_TOTAL_FRAME
         /\ mState' = "Stun" => mAnimFrame' <= PLAYER_HIT_STUN_FRAME
<1>1. /\ PLAYER_ATTACK_TOTAL_FRAME \in Nat /\ PLAYER_HIT_STUN_FRAME \in Nat
      /\ PLAYER_ATTACK_TOTAL_FRAME >= 1 /\ mAnimFrame \in Nat
  BY PlayerAssumption DEF BotRight
<1>2. ASSUME NEW state \in {"Idle", "Move", "Chase", "Attack", "Root"}, state # mState,
             changeBotState(state)
      PROVE  /\ ~asserted' /\ mState' = state /\ mAnimFrame' = IF state = "Attack" THEN 1 ELSE 0
  <2>1. ~asserted' /\ mState' = state /\ mAnimFrame' = FrameIn(state, 0)
    BY <1>2, Zenon DEF changeBotState
  <2>2. FrameIn(state, 0) = IF state = "Attack" THEN 1 ELSE 0 BY <1>2 DEF FrameIn
  <2>3. QED BY <2>1, <2>2
<1>3. ASSUME SameState
      PROVE  /\ ~asserted' /\ mState' = mState
             /\ mState \in {"Attack", "Stun"} => mAnimFrame' = mAnimFrame + 1
             /\ mState \notin {"Attack", "Stun"} => mAnimFrame' = 0
  BY <1>3 DEF SameState, FrameIn
<1>4. CASE \E state \in {"Idle", "Move", "Chase", "Attack", "Root"} :
             state # mState /\ changeBotState(state)
  <2>1. PICK state \in {"Idle", "Move", "Chase", "Attack", "Root"} :
          state # mState /\ changeBotState(state)
    BY <1>4
  <2>2. /\ ~asserted' /\ mState' = state /\ mState' # "Stun"
        /\ mAnimFrame' = IF state = "Attack" THEN 1 ELSE 0
    BY <1>2, <2>1
  <2>3. mAnimFrame' \in 0 .. PLAYER_ATTACK_TOTAL_FRAME BY <1>1, <2>2
  <2>4. mAnimFrame' \in 0 .. PLAYER_ATTACK_TOTAL_FRAME + PLAYER_HIT_STUN_FRAME
    BY <1>1, <2>3
  <2>5. QED BY <2>2, <2>3, <2>4
<1>5. CASE SameState /\ mState \in {"Idle", "Move", "Chase", "Root", "Dead"}
  <2>1. mAnimFrame' = 0 /\ ~asserted' /\ mState' = mState BY <1>3, <1>5
  <2>2. 0 \in 0 .. PLAYER_ATTACK_TOTAL_FRAME + PLAYER_HIT_STUN_FRAME BY <1>1
  <2>3. QED BY <1>5, <2>1, <2>2
<1>6. CASE SameState /\ mState = "Attack" /\ mAnimFrame # PLAYER_ATTACK_TOTAL_FRAME
  <2>1. mAnimFrame' = mAnimFrame + 1 /\ ~asserted' /\ mState' = "Attack" BY <1>3, <1>6
  <2>2. mAnimFrame <= PLAYER_ATTACK_TOTAL_FRAME BY <1>6 DEF BotRight
  <2>3. QED BY <1>1, <1>6, <2>1, <2>2
<1>7. CASE SameState /\ mState = "Stun" /\ mAnimFrame # PLAYER_HIT_STUN_FRAME
  <2>1. mAnimFrame' = mAnimFrame + 1 /\ ~asserted' /\ mState' = "Stun" BY <1>3, <1>7
  <2>2. mAnimFrame <= PLAYER_HIT_STUN_FRAME BY <1>7 DEF BotRight
  <2>3. QED BY <1>1, <1>7, <2>1, <2>2
<1>8. QED BY <1>4, <1>5, <1>6, <1>7

(* Two packets said one after the other. *)
LEMMA TwoPackets ==
  ASSUME NEW a \in UpPackets, NEW b \in UpPackets
  PROVE  <<>> \o <<b>> = <<b>> /\ <<a>> \o <<b>> = <<a, b>>
<1>1. <<>> \in Seq(UpPackets) /\ <<a>> \in Seq(UpPackets) /\ <<b>> \in Seq(UpPackets) /\ <<a, b>> \in Seq(UpPackets) OBVIOUS
<1>2. <<>> \o <<b>> = <<b>> BY <1>1, ConcatEmptySeq
<1> DEFINE r == <<a>> \o <<b>>
           q == <<a, b>>
<1>3. Len(<<a>>) = 1 /\ Len(<<b>>) = 1 /\ <<a>>[1] = a /\ <<b>>[1] = b OBVIOUS
<1>4. r \in Seq(UpPackets) /\ Len(r) = 2 /\ r[1] = a /\ r[2] = b
  <2>1. r \in Seq(UpPackets) /\ Len(r) = 1 + 1 BY <1>1, <1>3, ConcatProperties
  <2>2. r[1] = a BY <1>1, <1>3, ConcatProperties
  <2>3. r[2] = b BY <1>1, <1>3, ConcatProperties
  <2>4. QED BY <2>1, <2>2, <2>3
<1>5. Len(q) = 2 /\ q[1] = a /\ q[2] = b OBVIOUS
<1> HIDE DEF r, q
<1>6. q \in Seq(UpPackets) BY <1>1 DEF q
<1>7. \A i \in 1 .. Len(r) : r[i] = q[i]
  <2>1. \A i \in 1 .. Len(r) : i = 1 \/ i = 2 BY <1>4
  <2>2. QED BY <1>4, <1>5, <2>1
<1>8. r = q BY <1>4, <1>5, <1>6, <1>7, SeqEqual
<1>9. QED BY <1>2, <1>8 DEF r, q

Asks(s) == s \in {<<"LOOT_REQ">>, <<"MOVE_STOP", "LOOT_REQ">>}

(* What a frame of the bot sends, and what it leaves behind. *)
Framed(s) ==
  /\ up' = up \o s /\ Says(s, mBMove, mBMove')
  /\ mTargetID' \in Monsters \union {-1} /\ mMonsterKillTime' \in BOOLEAN
  /\ mTargetItemID' = mTargetItemID
  /\ Asks(s) => mTargetItemID # -1 /\ ~mLootRequested /\ mLootRequested' = TRUE
  /\ ~Asks(s) => mLootRequested' = mLootRequested

LEMMA UpdateFrames ==
  ASSUME IInv, Update
  PROVE  /\ \E s : Framed(s)
         /\ ~asserted'
         /\ mState' \in {"Idle", "Move", "Chase", "Attack", "Stun", "Root", "Dead"}
         /\ mAnimFrame' \in 0 .. PLAYER_ATTACK_TOTAL_FRAME + PLAYER_HIT_STUN_FRAME
         /\ mState' = "Attack" => mAnimFrame' <= PLAYER_ATTACK_TOTAL_FRAME
         /\ mState' = "Stun" => mAnimFrame' <= PLAYER_HIT_STUN_FRAME
<1> DEFINE Next0 ==
             /\ ~asserted'
             /\ mState' \in {"Idle", "Move", "Chase", "Attack", "Stun", "Root", "Dead"}
             /\ mAnimFrame' \in 0 .. PLAYER_ATTACK_TOTAL_FRAME + PLAYER_HIT_STUN_FRAME
             /\ mState' = "Attack" => mAnimFrame' <= PLAYER_ATTACK_TOTAL_FRAME
             /\ mState' = "Stun" => mAnimFrame' <= PLAYER_HIT_STUN_FRAME
<1>1. BotRight /\ ~asserted /\ mBMove \in BOOLEAN /\ mTargetID \in Monsters \union {-1}
      /\ mMonsterKillTime \in BOOLEAN
  BY DEF IInv, BotRight, BotSound
<1>20. {"MOVE_START", "MOVE_STOP", "PLAYER_ATTACK_REQ", "LOOT_REQ"} \subseteq UpPackets
  BY DEF UpPackets
<1>2. /\ postMoveStart = <<"MOVE_START">> /\ postMoveStop = <<"MOVE_STOP">>
      /\ postMoveStop \o postMoveStart = <<"MOVE_STOP", "MOVE_START">>
  BY <1>20, TwoPackets DEF postMoveStart, postMoveStop
<1>3. /\ StopIfMoving = IF mBMove THEN <<"MOVE_STOP">> ELSE <<>>
      /\ StopIfMoving \o postMoveStart = IF mBMove THEN <<"MOVE_STOP", "MOVE_START">> ELSE <<"MOVE_START">>
      /\ StopIfMoving \o postAttackReq =
           IF mBMove THEN <<"MOVE_STOP", "PLAYER_ATTACK_REQ">> ELSE <<"PLAYER_ATTACK_REQ">>
      /\ StopIfMoving \o postLootReq = IF mBMove THEN <<"MOVE_STOP", "LOOT_REQ">> ELSE <<"LOOT_REQ">>
  BY <1>1, <1>20, TwoPackets
  DEF StopIfMoving, postMoveStart, postMoveStop, postAttackReq, postLootReq
<1>4. /\ ~Asks(<<>>) /\ ~Asks(<<"MOVE_START">>) /\ ~Asks(<<"MOVE_STOP">>)
      /\ ~Asks(<<"MOVE_STOP", "MOVE_START">>)
      /\ ~Asks(<<"PLAYER_ATTACK_REQ">>) /\ ~Asks(<<"MOVE_STOP", "PLAYER_ATTACK_REQ">>)
      /\ Asks(<<"LOOT_REQ">>) /\ Asks(<<"MOVE_STOP", "LOOT_REQ">>)
  BY DEF Asks
<1>5. "PLAYER_ATTACK_REQ" \in Acts /\ "LOOT_REQ" \in Acts BY DEF Acts
(* What may be said. *)
<1>6. /\ Says(<<>>, mBMove, mBMove)
      /\ Says(<<"MOVE_START">>, mBMove, TRUE) /\ Says(<<"MOVE_STOP">>, mBMove, FALSE)
      /\ Says(<<"MOVE_STOP", "MOVE_START">>, mBMove, TRUE)
      /\ Says(StopIfMoving, mBMove, FALSE)
      /\ Says(StopIfMoving \o postMoveStart, mBMove, TRUE)
      /\ Says(StopIfMoving \o postAttackReq, mBMove, FALSE)
      /\ Says(StopIfMoving \o postLootReq, mBMove, FALSE)
  BY <1>1, <1>3, <1>5 DEF Says
<1>7. /\ ~Asks(StopIfMoving) /\ ~Asks(StopIfMoving \o postMoveStart)
      /\ ~Asks(StopIfMoving \o postAttackReq) /\ Asks(StopIfMoving \o postLootReq)
  BY <1>3, <1>4
<1> DEFINE Stopped == StopIfMoving
           Restarted == StopIfMoving \o postMoveStart
           Attacks == StopIfMoving \o postAttackReq
           Loots == StopIfMoving \o postLootReq
<1> HIDE DEF Stopped, Restarted, Attacks, Loots
<1>8. CASE idleUpdate
  <2>1. /\ mTargetID' \in Monsters \union {-1} /\ mMonsterKillTime' \in BOOLEAN
        /\ UNCHANGED <<mTargetItemID, mLootRequested>> /\ mState = "Idle"
    BY <1>1, <1>8 DEF idleUpdate
  <2>2. \/ up' = up \o <<>> /\ mBMove' = mBMove
        \/ up' = up \o <<"MOVE_START">> /\ mBMove' = TRUE
    BY <1>2, <1>8 DEF idleUpdate, Send, traceMove
  <2>3. Next0
    <3>1. \/ \E state \in {"Root", "Chase", "Move"} : changeBotState(state)
          \/ SameState
      BY <1>8 DEF idleUpdate
    <3>2. QED BY <1>1, <2>1, <3>1, BotStates
  <2>4. \E s : Framed(s)
    <3>1. CASE up' = up \o <<>> /\ mBMove' = mBMove
      <4>1. Framed(<<>>) BY <1>4, <1>6, <2>1, <3>1 DEF Framed
      <4>2. QED BY <4>1
    <3>2. CASE up' = up \o <<"MOVE_START">> /\ mBMove' = TRUE
      <4>1. Framed(<<"MOVE_START">>) BY <1>4, <1>6, <2>1, <3>2 DEF Framed
      <4>2. QED BY <4>1
    <3>3. QED BY <2>2, <3>1, <3>2
  <2>5. QED BY <2>3, <2>4
<1>9. CASE moveUpdate
  <2>1. mTargetID' = mTargetID /\ mMonsterKillTime' = mMonsterKillTime
        /\ UNCHANGED <<mTargetItemID, mLootRequested>> /\ mState = "Move"
    BY <1>9 DEF moveUpdate, targetVars
  <2>2. \/ up' = up \o <<>> /\ mBMove' = mBMove /\ SameState
        \/ up' = up \o <<"MOVE_STOP">> /\ mBMove' = FALSE /\ changeBotState("Idle")
        \/ up' = up \o <<"MOVE_STOP", "MOVE_START">> /\ mBMove' = TRUE /\ SameState
    BY <1>2, <1>9 DEF moveUpdate, Send, traceMove
  <2>3. Next0 BY <1>1, <2>1, <2>2, BotStates
  <2>4. Framed(<<>>) \/ Framed(<<"MOVE_STOP">>) \/ Framed(<<"MOVE_STOP", "MOVE_START">>)
    BY <1>1, <1>4, <1>6, <2>1, <2>2 DEF Framed
  <2>5. QED BY <2>3, <2>4
<1>10. CASE chaseUpdate
  <2>1. /\ mTargetID' = mTargetID /\ mMonsterKillTime' \in BOOLEAN
        /\ UNCHANGED <<mTargetItemID, mLootRequested>> /\ mState = "Chase"
    BY <1>1, <1>10 DEF chaseUpdate
  <2>2. \/ up' = up \o Attacks /\ mBMove' = FALSE /\ changeBotState("Attack")
        \/ up' = up \o <<>> /\ mBMove' = mBMove /\ SameState
        \/ up' = up \o Restarted /\ mBMove' = TRUE /\ SameState
    BY <1>10 DEF chaseUpdate, Send, traceMove, Attacks, Restarted
  <2>3. Next0 BY <1>1, <2>1, <2>2, BotStates
  <2>4. /\ Says(Attacks, mBMove, FALSE) /\ Says(Restarted, mBMove, TRUE)
        /\ ~Asks(Attacks) /\ ~Asks(Restarted)
    BY <1>6, <1>7 DEF Attacks, Restarted
  <2>5. Framed(Attacks) \/ Framed(<<>>) \/ Framed(Restarted)
    BY <1>1, <1>4, <1>6, <2>1, <2>2, <2>4 DEF Framed
  <2>6. QED BY <2>3, <2>5
<1>11. CASE attackUpdate \/ stunUpdate
  <2>1. /\ up' = up \o <<>> /\ mBMove' = mBMove /\ UNCHANGED targetVars
        /\ \/ mState = "Attack" /\ IF mAnimFrame = PLAYER_ATTACK_TOTAL_FRAME THEN changeBotState("Idle")
                                   ELSE SameState
           \/ mState = "Stun" /\ IF mAnimFrame = PLAYER_HIT_STUN_FRAME THEN changeBotState("Idle")
                                 ELSE SameState
    BY <1>11 DEF attackUpdate, stunUpdate, AnimUpdate, Send
  <2>2. Next0 BY <1>1, <2>1, BotStates
  <2>3. Framed(<<>>) BY <1>1, <1>4, <1>6, <2>1 DEF Framed, targetVars
  <2>4. QED BY <2>2, <2>3
<1>12. CASE rootUpdate
  <2>1. /\ mTargetID' = mTargetID /\ mMonsterKillTime' = mMonsterKillTime
        /\ mTargetItemID' = mTargetItemID /\ mState = "Root"
    BY <1>12 DEF rootUpdate
  <2>2. \/ up' = up \o Stopped /\ mBMove' = FALSE /\ changeBotState("Idle") /\ mLootRequested' = mLootRequested
        \/ up' = up \o <<>> /\ mBMove' = mBMove /\ SameState /\ mLootRequested' = mLootRequested
        \/ up' = up \o Restarted /\ mBMove' = TRUE /\ SameState /\ mLootRequested' = mLootRequested
        \/ /\ up' = up \o Loots /\ mBMove' = FALSE /\ SameState /\ mLootRequested' = TRUE
           /\ mTargetItemID # -1 /\ ~mLootRequested
    BY <1>12 DEF rootUpdate, Send, traceMove, Stopped, Restarted, Loots
  <2>3. Next0 BY <1>1, <2>1, <2>2, BotStates
  <2>4. /\ Says(Stopped, mBMove, FALSE) /\ Says(Restarted, mBMove, TRUE)
        /\ Says(Loots, mBMove, FALSE)
        /\ ~Asks(Stopped) /\ ~Asks(Restarted) /\ Asks(Loots)
    BY <1>6, <1>7 DEF Stopped, Restarted, Loots
  <2>5. Framed(Stopped) \/ Framed(<<>>) \/ Framed(Restarted) \/ Framed(Loots)
    BY <1>1, <1>4, <1>6, <2>1, <2>2, <2>4 DEF Framed
  <2>6. QED BY <2>3, <2>5
<1>13. CASE deadUpdate
  <2>1. /\ up' = up \o <<>> /\ mBMove' = mBMove /\ UNCHANGED targetVars /\ SameState
        /\ mState = "Dead"
    BY <1>13 DEF deadUpdate, Send
  <2>2. Next0 BY <1>1, <2>1, BotStates
  <2>3. Framed(<<>>) BY <1>1, <1>4, <1>6, <2>1 DEF Framed, targetVars
  <2>4. QED BY <2>2, <2>3
<1>14. QED BY <1>8, <1>9, <1>10, <1>11, <1>12, <1>13 DEF Update

(* A frame of the bot. *)
LEMMA UpdateStep == ASSUME IInv, Update PROVE IInv'
<1>1. /\ mSessionState = "AUTHED"
      /\ UNCHANGED <<mSessionState, countVars, kept, down, player, late, crossed>>
      /\ mDeadFrame' = IF mState = "Dead" /\ mDeadFrame < DEAD_FRAME THEN mDeadFrame + 1
                       ELSE mDeadFrame
  BY DEF Update
<1>2. /\ ~asserted'
      /\ mState' \in {"Idle", "Move", "Chase", "Attack", "Stun", "Root", "Dead"}
      /\ mAnimFrame' \in 0 .. PLAYER_ATTACK_TOTAL_FRAME + PLAYER_HIT_STUN_FRAME
      /\ mState' = "Attack" => mAnimFrame' <= PLAYER_ATTACK_TOTAL_FRAME
      /\ mState' = "Stun" => mAnimFrame' <= PLAYER_HIT_STUN_FRAME
  BY UpdateFrames
<1>3. PICK s : Framed(s) BY UpdateFrames
<1>4. /\ up \in Seq(UpPackets) /\ mBMove \in BOOLEAN /\ late \in 0 .. Len(up)
      /\ Way(up, mBMove, late, Free)
  BY DEF IInv, Wire, BotRight, WayInv
<1> DEFINE r == up \o s
<1>5. up' = r /\ Says(s, mBMove, mBMove') BY <1>3 DEF Framed
<1>6. /\ r \in Seq(UpPackets) /\ late \in 0 .. Len(r) /\ mBMove' \in BOOLEAN
      /\ Len(up) \in Nat /\ Len(r) \in Nat /\ Len(r) >= Len(up)
      /\ \A i \in 1 .. Len(up) : r[i] = up[i]
      /\ \A i \in 1 .. Len(r) : i > Len(up) =>
           /\ r[i] # "FIELD_AUTH_REQ"
           /\ r[i] = "LOOT_REQ" => i = Len(r) /\ Asks(s)
      /\ Asks(s) => Len(r) > 0 /\ r[Len(r)] = "LOOT_REQ"
      /\ Way(r, mBMove', late, Free)
  BY <1>4, <1>5, Said DEF Asks
<1> HIDE DEF r
<1>7. \A i \in 1 .. Len(r) : i \in 1 .. Len(up) \/ i > Len(up) BY <1>6
<1>8. Free' = Free BY <1>1 DEF Free
<1>9. Connected' = Connected /\ Connected BY <1>1 DEF Connected
<1>10. Wire' BY <1>1, <1>5, <1>6 DEF IInv, Wire
<1>11. Stages'
  <2>1. /\ Entered /\ \A i \in 1 .. Len(up) : up[i] # "FIELD_AUTH_REQ"
        /\ \A i \in 1 .. Len(down) : down[i].type # "FIELD_AUTH_RES"
    BY <1>1 DEF IInv, Stages
  <2>2. \A i \in 1 .. Len(r) : r[i] # "FIELD_AUTH_REQ" BY <1>6, <1>7, <2>1
  <2>3. Entered' BY <1>1, <2>1 DEF Entered
  <2>4. QED BY <1>1, <1>5, <1>9, <2>1, <2>2, <2>3 DEF Stages
<1>12. BotRight'
  <2>1. mDeadFrame' \in 0 .. DEAD_FRAME BY <1>1, BotAssumption DEF IInv, BotRight
  <2>2. mLootRequested' \in BOOLEAN BY <1>3 DEF Framed, IInv, BotRight
  <2>3. /\ mTargetID' \in Monsters \union {-1} /\ mMonsterKillTime' \in BOOLEAN
        /\ mTargetItemID' \in Items \union {-1}
    BY <1>3 DEF Framed, IInv, BotRight
  <2>4. QED BY <1>2, <1>6, <2>1, <2>2, <2>3 DEF BotRight
<1>13. BotSound' BY <1>1, <1>2, <1>9 DEF IInv, BotSound, countVars
<1>14. /\ mTargetItemID' = mTargetItemID
       /\ Asks(s) => mTargetItemID # -1 /\ ~mLootRequested /\ mLootRequested' = TRUE
       /\ ~Asks(s) => mLootRequested' = mLootRequested
  BY <1>3 DEF Framed
<1>15. InReq(r) <=> InReq(up) \/ Asks(s)
  <2>1. ASSUME InReq(up) PROVE InReq(r)
    <3>1. PICK i \in 1 .. Len(up) : up[i] = "LOOT_REQ" BY <2>1 DEF InReq
    <3>2. i \in 1 .. Len(r) /\ r[i] = "LOOT_REQ" BY <1>6, <3>1
    <3>3. QED BY <3>2 DEF InReq
  <2>2. ASSUME Asks(s) PROVE InReq(r)
    <3>1. Len(r) \in 1 .. Len(r) /\ r[Len(r)] = "LOOT_REQ" BY <1>6, <2>2
    <3>2. QED BY <3>1 DEF InReq
  <2>3. ASSUME InReq(r) PROVE InReq(up) \/ Asks(s)
    <3>1. PICK i \in 1 .. Len(r) : r[i] = "LOOT_REQ" BY <2>3 DEF InReq
    <3>2. CASE i \in 1 .. Len(up) BY <1>6, <3>1, <3>2 DEF InReq
    <3>3. CASE i > Len(up) BY <1>6, <3>1, <3>3
    <3>4. QED BY <1>7, <3>2, <3>3
  <2>4. QED BY <2>1, <2>2, <2>3
<1>16. InReq(up) => ~Asks(s) BY <1>14 DEF IInv, LootOnce
<1>17. InRes(down) => ~Asks(s) BY <1>14 DEF IInv, LootOnce
<1>18. InReq(up') = InReq(r) /\ InRes(down') = InRes(down) BY <1>1, <1>5
<1>19. LootOnce'
  <2>1. ASSUME NEW i \in 1 .. Len(r), NEW j \in 1 .. Len(r), r[i] = "LOOT_REQ", r[j] = "LOOT_REQ"
        PROVE  i = j
    <3>1. CASE Asks(s)
      <4>1. ~InReq(up) BY <1>16, <3>1
      <4>2. ASSUME NEW m \in 1 .. Len(r), r[m] = "LOOT_REQ" PROVE m = Len(r)
        <5>1. m \notin 1 .. Len(up) BY <1>6, <4>1, <4>2 DEF InReq
        <5>2. QED BY <1>6, <1>7, <4>2, <5>1
      <4>3. QED BY <2>1, <4>2
    <3>2. CASE ~Asks(s)
      <4>1. i \in 1 .. Len(up) /\ j \in 1 .. Len(up) BY <1>6, <1>7, <2>1, <3>2
      <4>2. up[i] = "LOOT_REQ" /\ up[j] = "LOOT_REQ" BY <1>6, <2>1, <4>1
      <4>3. QED BY <4>1, <4>2 DEF IInv, LootOnce
    <3>3. QED BY <3>1, <3>2
  <2>2. \A i, j \in 1 .. Len(down') :
          down'[i].type = "LOOT_RES" /\ down'[j].type = "LOOT_RES" => i = j
    BY <1>1 DEF IInv, LootOnce
  <2>3. ~(InReq(up') /\ InRes(down')) BY <1>15, <1>17, <1>18 DEF IInv, LootOnce
  <2>4. InReq(up') \/ InRes(down') => mTargetItemID' # -1 /\ mLootRequested'
    BY <1>14, <1>15, <1>16, <1>17, <1>18 DEF IInv, LootOnce
  <2>5. QED BY <1>5, <2>1, <2>2, <2>3, <2>4 DEF LootOnce
<1>21. LootKept'
  BY <1>1, <1>9, <1>14, <1>15, <1>18 DEF IInv, LootKept
<1>22. WayInv' BY <1>1, <1>5, <1>6, <1>8 DEF IInv, WayInv
<1>23. QED BY <1>10, <1>11, <1>12, <1>13, <1>19, <1>21, <1>22 DEF IInv

-----------------------------------------------------------------------------
(* The packets of the server.                                              *)

(* One packet is taken from those on the way to the bot. *)
LEMMA Received ==
  ASSUME IInv, NEW type, Receive(type)
  PROVE  /\ Connected /\ Entered /\ UNCHANGED <<up, player, crossed>>
         /\ Head(down) \in DownPackets /\ Head(down).type = type
         /\ down' \in Seq(DownPackets)
         /\ \A i \in 1 .. Len(down') : i + 1 \in 2 .. Len(down) /\ down'[i] = down[i + 1]
         /\ type # "FIELD_AUTH_RES" => mSessionState = "AUTHED"
         /\ type = "FIELD_AUTH_RES" => mSessionState = "CONNECTED"
         /\ \A i \in 1 .. Len(down') : down'[i].type # "FIELD_AUTH_RES"
         /\ \A i, j \in 1 .. Len(down') :
              down'[i].type = "LOOT_RES" /\ down'[j].type = "LOOT_RES" => i = j
         /\ InRes(down') => InRes(down) /\ type # "LOOT_RES"
         /\ InRes(down) => InRes(down') \/ type = "LOOT_RES"
         /\ type = "LOOT_RES" => InRes(down)
         /\ Free' = Free
         /\ Free => /\ type # "CHARACTER_DAMAGED"
                    /\ \A i \in 1 .. Len(down') : down'[i].type # "CHARACTER_DAMAGED"
<1>1. /\ Connected /\ down # <<>> /\ Head(down).type = type /\ down' = Tail(down)
      /\ UNCHANGED <<up, player, crossed>>
  BY DEF Receive
<1>2. down \in Seq(DownPackets) BY DEF IInv, Wire
<1>3. Len(down) \in Nat /\ Len(down) # 0 /\ 1 \in 1 .. Len(down) BY <1>1, <1>2, EmptySeq, LenProperties
<1>4. Head(down) = down[1] /\ down[1] \in DownPackets
  BY <1>1, <1>2, <1>3, HeadTailProperties, ElementOfSeq
<1>5. /\ down' \in Seq(DownPackets) /\ Len(down') = Len(down) - 1
      /\ \A i \in 1 .. Len(down') : down'[i] = down[i + 1]
  BY <1>1, <1>2, HeadTailProperties
<1>6. \A i \in 1 .. Len(down') : i + 1 \in 2 .. Len(down) /\ i + 1 \in 1 .. Len(down) /\ i + 1 # 1
  BY <1>3, <1>5
<1>7. mSessionState \in {"CONNECTED", "AUTHED"} BY <1>1 DEF Connected
<1>8. mSessionState = "CONNECTED" =>
        /\ Entered /\ down[1].type = "FIELD_AUTH_RES"
        /\ \A i \in 2 .. Len(down) : down[i].type # "FIELD_AUTH_RES"
  BY <1>1 DEF IInv, Stages
<1>9. mSessionState = "AUTHED" =>
        Entered /\ \A i \in 1 .. Len(down) : down[i].type # "FIELD_AUTH_RES"
  BY DEF IInv, Stages
<1>10. \A i \in 1 .. Len(down') : down'[i].type # "FIELD_AUTH_RES"
  BY <1>5, <1>6, <1>7, <1>8, <1>9
<1>11. \A i, j \in 1 .. Len(down') :
         down'[i].type = "LOOT_RES" /\ down'[j].type = "LOOT_RES" => i = j
  <2>1. SUFFICES ASSUME NEW i \in 1 .. Len(down'), NEW j \in 1 .. Len(down'),
                        down'[i].type = "LOOT_RES", down'[j].type = "LOOT_RES"
                 PROVE  i = j
    OBVIOUS
  <2>2. down[i + 1].type = "LOOT_RES" /\ down[j + 1].type = "LOOT_RES" BY <1>5, <2>1
  <2>3. i + 1 = j + 1 BY <1>6, <2>2 DEF IInv, LootOnce
  <2>4. QED BY <2>3
<1>12. ASSUME InRes(down') PROVE InRes(down) /\ type # "LOOT_RES"
  <2>1. PICK i \in 1 .. Len(down') : down'[i].type = "LOOT_RES" BY <1>12 DEF InRes
  <2>2. i + 1 \in 1 .. Len(down) /\ i + 1 # 1 /\ down[i + 1].type = "LOOT_RES"
    BY <1>5, <1>6, <2>1
  <2>3. down[1].type # "LOOT_RES" BY <1>3, <2>2 DEF IInv, LootOnce
  <2>4. QED BY <1>1, <1>4, <2>2, <2>3 DEF InRes
<1>13. ASSUME InRes(down), type # "LOOT_RES" PROVE InRes(down')
  <2>1. PICK i \in 1 .. Len(down) : down[i].type = "LOOT_RES" BY <1>13 DEF InRes
  <2>2. i # 1 BY <1>1, <1>4, <1>13, <2>1
  <2>3. i - 1 \in 1 .. Len(down') /\ i - 1 + 1 = i BY <1>3, <1>5, <2>2
  <2>4. down'[i - 1].type = "LOOT_RES" BY <1>5, <2>1, <2>3
  <2>5. QED BY <2>3, <2>4 DEF InRes
<1>14. type = "LOOT_RES" => InRes(down) BY <1>1, <1>3, <1>4 DEF InRes
<1>15. Free' = Free BY <1>1 DEF Free
<1>16. ASSUME Free
       PROVE  /\ type # "CHARACTER_DAMAGED"
              /\ \A i \in 1 .. Len(down') : down'[i].type # "CHARACTER_DAMAGED"
  <2>1. \A i \in 1 .. Len(down) : down[i].type # "CHARACTER_DAMAGED" BY <1>16 DEF IInv, WayInv
  <2>2. QED BY <1>1, <1>3, <1>4, <1>5, <1>6, <2>1
<1>17. /\ Entered
       /\ type # "FIELD_AUTH_RES" => mSessionState = "AUTHED"
       /\ type = "FIELD_AUTH_RES" => mSessionState = "CONNECTED"
  BY <1>1, <1>3, <1>4, <1>7, <1>8, <1>9
<1>18. QED
  BY <1>1, <1>4, <1>5, <1>6, <1>10, <1>11, <1>12, <1>13, <1>14, <1>15, <1>16, <1>17

(* What all packets but the login's answer have in common: the bot is logged in, and *)
(* stays so.                                                                         *)
LEMMA ReceivedLater ==
  ASSUME IInv, NEW type, Receive(type), type # "FIELD_AUTH_RES",
         UNCHANGED <<mSessionState, mDeadFrame, countVars, kept>>, late' \in 0 .. Len(up)
  PROVE  /\ Wire' /\ Stages' /\ Connected' /\ (~asserted' => BotSound')
         /\ Way(up, mBMove', late', Free) => WayInv'
<1>1. /\ Connected /\ Entered /\ UNCHANGED <<up, player, crossed>>
      /\ down' \in Seq(DownPackets)
      /\ mSessionState = "AUTHED"
      /\ \A i \in 1 .. Len(down') : down'[i].type # "FIELD_AUTH_RES"
      /\ Free' = Free
      /\ Free => \A i \in 1 .. Len(down') : down'[i].type # "CHARACTER_DAMAGED"
  BY Received
<1>2. Wire' BY <1>1 DEF IInv, Wire
<1>3. Connected' BY <1>1 DEF Connected
<1>4. Stages' BY <1>1, <1>3 DEF IInv, Stages, Entered
<1>5. ~asserted' => BotSound' BY <1>1, <1>3 DEF IInv, BotSound, countVars
<1>6. Way(up, mBMove', late', Free) => WayInv' BY <1>1 DEF IInv, WayInv
<1>7. QED BY <1>2, <1>3, <1>4, <1>5, <1>6

(* A packet that is no answer about an item, and leaves the item alone. *)
LEMMA ReceivedNoLoot ==
  ASSUME IInv, NEW type, Receive(type), type # "LOOT_RES",
         UNCHANGED <<mSessionState, mTargetItemID, mLootRequested, kept>>
  PROVE  LootOnce' /\ LootKept'
<1>1. /\ UNCHANGED up
      /\ \A i, j \in 1 .. Len(down') :
           down'[i].type = "LOOT_RES" /\ down'[j].type = "LOOT_RES" => i = j
      /\ InRes(down') <=> InRes(down)
  BY Received
<1>2. InReq(up') = InReq(up) BY <1>1
<1>3. LootOnce' BY <1>1, <1>2 DEF IInv, LootOnce
<1>4. Connected' = Connected BY DEF Connected
<1>5. LootKept' BY <1>1, <1>2, <1>4 DEF IInv, LootKept
<1>6. QED BY <1>3, <1>5

(* handleFieldAuth: the bot is logged in, and is counted as waiting no more. *)
LEMMA FieldAuthStep == ASSUME IInv, handleFieldAuth PROVE IInv'
<1>1. /\ Receive("FIELD_AUTH_RES")
      /\ mSessionState' = "AUTHED" /\ mAuthWaitCount' = mAuthWaitCount - 1
      /\ UNCHANGED <<actorVars, targetVars, mDeadFrame, mConnectedCount, asserted, kept, late>>
  BY DEF handleFieldAuth
<1>2. /\ Connected /\ Entered /\ UNCHANGED <<up, player, crossed>>
      /\ down' \in Seq(DownPackets)
      /\ mSessionState = "CONNECTED"
      /\ \A i \in 1 .. Len(down') : down'[i].type # "FIELD_AUTH_RES"
      /\ \A i, j \in 1 .. Len(down') :
           down'[i].type = "LOOT_RES" /\ down'[j].type = "LOOT_RES" => i = j
      /\ InRes(down') <=> InRes(down)
      /\ Free' = Free
      /\ Free => \A i \in 1 .. Len(down') : down'[i].type # "CHARACTER_DAMAGED"
  BY <1>1, Received
<1>3. up = <<>> /\ Len(up) = 0 /\ Connected' BY <1>1, <1>2 DEF IInv, Stages, Connected
<1>4. Wire' BY <1>1, <1>2 DEF IInv, Wire
<1>5. Stages' BY <1>1, <1>2, <1>3 DEF Stages, Entered
<1>6. BotRight' BY <1>1 DEF IInv, BotRight, actorVars, targetVars
<1>7. BotSound' BY <1>1, <1>2, <1>3 DEF IInv, BotSound
<1>8. InReq(up') = InReq(up) BY <1>2
<1>9. LootOnce' BY <1>1, <1>2, <1>8 DEF IInv, LootOnce, targetVars
<1>10. LootKept' BY <1>1, <1>2, <1>8 DEF IInv, LootKept, targetVars
<1>11. WayInv' BY <1>1, <1>2 DEF IInv, WayInv, actorVars
<1>12. QED BY <1>4, <1>5, <1>6, <1>7, <1>9, <1>10, <1>11 DEF IInv

(* The packets about monsters: the bot goes after one, or gives it up. *)
LEMMA MonsterPacketStep ==
  ASSUME IInv, handleMonsterMoveStop \/ handleMonsterDamaged PROVE IInv'
<1>1. PICK type \in {"MONSTER_MOVE_STOP", "MONSTER_DAMAGED"} :
        /\ Receive(type)
        /\ UNCHANGED <<mSessionState, actorVars, mTargetItemID, mLootRequested, mDeadFrame,
                       countVars, kept, late>>
        /\ mTargetID' \in {-1, Head(down).id, mTargetID}
        /\ mMonsterKillTime' = mMonsterKillTime \/ mMonsterKillTime' = FALSE
        /\ \/ UNCHANGED asserted
           \/ Head(down).id = mTargetID /\ MonsterChaseInit
  <2>1. CASE handleMonsterMoveStop BY <2>1 DEF handleMonsterMoveStop, ChaseTarget
  <2>2. CASE handleMonsterDamaged
    <3>1. CASE Head(down).id = mTargetID BY <2>2, <3>1 DEF handleMonsterDamaged, MonsterChaseInit
    <3>2. CASE Head(down).id # mTargetID BY <2>2, <3>2 DEF handleMonsterDamaged
    <3>3. QED BY <3>1, <3>2
  <2>3. QED BY <2>1, <2>2
<1>2. /\ Head(down) \in DownPackets /\ Head(down).type = type /\ UNCHANGED <<up, crossed>>
  BY <1>1, Received
<1>3. Head(down).id \in Monsters /\ Head(down).id # -1
  BY <1>2, BotAssumption DEF DownPackets, FromMonsters
<1>4. type # "FIELD_AUTH_RES" /\ type # "LOOT_RES" OBVIOUS
<1>5. late' \in 0 .. Len(up) BY <1>1 DEF IInv, Wire
<1>6. /\ Wire' /\ Stages' /\ (~asserted' => BotSound')
      /\ Way(up, mBMove', late', Free) => WayInv'
  BY <1>1, <1>4, <1>5, ReceivedLater
<1>7. LootOnce' /\ LootKept' BY <1>1, <1>4, ReceivedNoLoot
<1>8. ~asserted'
  <2>1. ~asserted BY DEF IInv, BotSound
  <2>2. CASE UNCHANGED asserted BY <2>1, <2>2
  <2>3. CASE Head(down).id = mTargetID /\ MonsterChaseInit
    <3>1. mTargetID # -1 BY <1>3, <2>3
    <3>2. asserted' = (asserted \/ mTargetID = -1) BY <2>3 DEF MonsterChaseInit
    <3>3. QED BY <2>1, <3>1, <3>2
  <2>4. QED BY <1>1, <2>2, <2>3
<1>9. BotRight' BY <1>1, <1>3 DEF IInv, BotRight, actorVars
<1>10. WayInv'
  <2>1. mBMove' = mBMove /\ late' = late BY <1>1 DEF actorVars
  <2>2. Way(up, mBMove, late, Free) BY DEF IInv, WayInv
  <2>3. QED BY <1>6, <2>1, <2>2
<1>11. QED BY <1>6, <1>7, <1>8, <1>9, <1>10 DEF IInv

(* handleCharacterDamaged: all that the bot has sent was sent before it heard of the *)
(* hit.                                                                              *)
LEMMA CharacterDamagedStep == ASSUME IInv, handleCharacterDamaged PROVE IInv'
<1>1. /\ Receive("CHARACTER_DAMAGED") /\ late' = Len(up)
      /\ UNCHANGED <<mSessionState, mTargetItemID, mLootRequested, mDeadFrame, countVars,
                     asserted, kept>>
  BY DEF handleCharacterDamaged
<1>2. \/ UNCHANGED <<actorVars, mMonsterKillTime>>
      \/ /\ mState' \in {"Dead", "Stun"} /\ mAnimFrame' = 0 /\ mBMove' = FALSE
         /\ mMonsterKillTime' = TRUE
  BY DEF handleCharacterDamaged, TakeDamage, traceMove
<1>3. mTargetID' \in {Head(down).id, mTargetID} BY DEF handleCharacterDamaged, ChaseTarget
<1>4. /\ Head(down) \in DownPackets /\ Head(down).type = "CHARACTER_DAMAGED"
      /\ UNCHANGED <<up, crossed>> /\ ~Free
  BY <1>1, Received
<1>5. Head(down).id \in Monsters BY <1>4 DEF DownPackets, FromMonsters
<1>6. up \in Seq(UpPackets) /\ Len(up) \in Nat BY LenProperties DEF IInv, Wire
<1>7. late' \in 0 .. Len(up) BY <1>1, <1>6
<1>8. /\ Wire' /\ Stages' /\ (~asserted' => BotSound')
      /\ Way(up, mBMove', late', Free) => WayInv'
  BY <1>1, <1>7, ReceivedLater
<1>9. LootOnce' /\ LootKept' BY <1>1, ReceivedNoLoot
<1>10. ~asserted' BY <1>1 DEF IInv, BotSound
<1>11. BotRight'
  <2>1. /\ PLAYER_ATTACK_TOTAL_FRAME \in Nat /\ PLAYER_HIT_STUN_FRAME \in Nat
    BY PlayerAssumption
  <2>2. /\ mTargetID' \in Monsters \union {-1} /\ mTargetItemID' \in Items \union {-1}
        /\ mLootRequested' \in BOOLEAN /\ mDeadFrame' \in 0 .. DEAD_FRAME
    BY <1>1, <1>3, <1>5 DEF IInv, BotRight
  <2>3. /\ mState' \in {"Idle", "Move", "Chase", "Attack", "Stun", "Root", "Dead"}
        /\ mAnimFrame' \in 0 .. PLAYER_ATTACK_TOTAL_FRAME + PLAYER_HIT_STUN_FRAME
        /\ mState' = "Attack" => mAnimFrame' <= PLAYER_ATTACK_TOTAL_FRAME
        /\ mState' = "Stun" => mAnimFrame' <= PLAYER_HIT_STUN_FRAME
        /\ mBMove' \in BOOLEAN /\ mMonsterKillTime' \in BOOLEAN
    <3>1. CASE UNCHANGED <<actorVars, mMonsterKillTime>>
      BY <3>1 DEF IInv, BotRight, actorVars
    <3>2. CASE /\ mState' \in {"Dead", "Stun"} /\ mAnimFrame' = 0 /\ mBMove' = FALSE
               /\ mMonsterKillTime' = TRUE
      <4>1. 0 \in 0 .. PLAYER_ATTACK_TOTAL_FRAME + PLAYER_HIT_STUN_FRAME
        BY <2>1
      <4>2. mState' \in {"Idle", "Move", "Chase", "Attack", "Stun", "Root", "Dead"} BY <3>2
      <4>3. mBMove' \in BOOLEAN /\ mMonsterKillTime' \in BOOLEAN BY <3>2, Zenon
      <4>4. mState' = "Attack" => FALSE BY <3>2
      <4>5. mAnimFrame' = 0 /\ 0 <= PLAYER_HIT_STUN_FRAME BY <2>1, <3>2
      <4>6. QED BY <4>1, <4>2, <4>3, <4>4, <4>5
    <3>3. QED BY <1>2, <3>1, <3>2
  <2>4. QED BY <2>2, <2>3 DEF BotRight
<1>12. Way(up, mBMove', late', Free) BY <1>1, <1>4, <1>6 DEF Way
<1>13. QED BY <1>8, <1>9, <1>10, <1>11, <1>12 DEF IInv

(* The packets about items.  While the bot has none in mind it has no request out, *)
(* and an answer comes only to a bot that has one in mind.                         *)
LEMMA ItemPacketStep == ASSUME IInv, handleItemSpawn \/ handleLootRes PROVE IInv'
<1>1. PICK type \in {"ITEM_SPAWN", "LOOT_RES"} :
        /\ Receive(type)
        /\ UNCHANGED <<mSessionState, actorVars, mTargetID, mMonsterKillTime, mDeadFrame,
                       countVars, kept, late>>
        /\ type = "ITEM_SPAWN" => handleItemSpawn
        /\ type = "LOOT_RES" => handleLootRes
  BY DEF handleItemSpawn, handleLootRes
<1>2. /\ Head(down) \in DownPackets /\ Head(down).type = type /\ UNCHANGED <<up, crossed>>
      /\ \A i, j \in 1 .. Len(down') :
           down'[i].type = "LOOT_RES" /\ down'[j].type = "LOOT_RES" => i = j
      /\ InRes(down') => InRes(down) /\ type # "LOOT_RES"
      /\ InRes(down) => InRes(down') \/ type = "LOOT_RES"
      /\ type = "LOOT_RES" => InRes(down)
  BY <1>1, Received
<1>3. type # "FIELD_AUTH_RES" OBVIOUS
<1>4. late' \in 0 .. Len(up) BY <1>1 DEF IInv, Wire
<1>5. /\ Wire' /\ Stages' /\ (~asserted' => BotSound')
      /\ Way(up, mBMove', late', Free) => WayInv'
  BY <1>1, <1>3, <1>4, ReceivedLater
<1>6. WayInv'
  <2>1. mBMove' = mBMove /\ late' = late BY <1>1 DEF actorVars
  <2>2. Way(up, mBMove, late, Free) BY DEF IInv, WayInv
  <2>3. QED BY <1>5, <2>1, <2>2
<1>7. InReq(up') = InReq(up) BY <1>2
<1>8. \A i, j \in 1 .. Len(up') : up'[i] = "LOOT_REQ" /\ up'[j] = "LOOT_REQ" => i = j
  BY <1>2 DEF IInv, LootOnce
<1>9. ~asserted BY DEF IInv, BotSound
<1>10. CASE type = "ITEM_SPAWN"
  <2>1. /\ UNCHANGED asserted
        /\ \/ mTargetItemID = -1 /\ mTargetItemID' = Head(down).id /\ mLootRequested' = FALSE
           \/ mTargetItemID # -1 /\ UNCHANGED <<mTargetItemID, mLootRequested>>
    BY <1>1, <1>10 DEF handleItemSpawn, ChaseItem
  <2>2. Head(down).id \in Items BY <1>2, <1>10 DEF DownPackets
  <2>3. BotRight' BY <1>1, <2>1, <2>2 DEF IInv, BotRight, actorVars
  <2>4. CASE mTargetItemID = -1 /\ mTargetItemID' = Head(down).id /\ mLootRequested' = FALSE
    <3>1. ~InReq(up) /\ ~InRes(down) BY <2>4 DEF IInv, LootOnce
    <3>2. LootOnce' BY <1>2, <1>7, <1>8, <3>1 DEF LootOnce
    <3>3. LootKept' BY <2>4 DEF LootKept
    <3>4. QED BY <1>5, <1>6, <1>9, <2>1, <2>3, <3>2, <3>3 DEF IInv
  <2>5. CASE mTargetItemID # -1 /\ UNCHANGED <<mTargetItemID, mLootRequested>>
    <3>1. LootOnce' /\ LootKept' BY <1>1, <1>10, <2>5, ReceivedNoLoot
    <3>2. QED BY <1>5, <1>6, <1>9, <2>1, <2>3, <3>1 DEF IInv
  <2>6. QED BY <2>1, <2>4, <2>5
<1>11. CASE type = "LOOT_RES"
  <2>1. /\ asserted' = (asserted \/ mTargetItemID = -1) /\ mTargetItemID' = -1
        /\ UNCHANGED mLootRequested
    BY <1>1, <1>11 DEF handleLootRes, ItemChaseInit
  <2>2. mTargetItemID # -1 /\ ~InReq(up) /\ ~InRes(down')
    BY <1>2, <1>11 DEF IInv, LootOnce
  <2>3. ~asserted' BY <1>9, <2>1, <2>2
  <2>4. BotRight' BY <1>1, <2>1 DEF IInv, BotRight, actorVars
  <2>5. LootOnce' BY <1>2, <1>7, <1>8, <2>2 DEF LootOnce
  <2>6. LootKept' BY <2>1 DEF LootKept
  <2>7. QED BY <1>5, <1>6, <2>3, <2>4, <2>5, <2>6 DEF IInv
<1>12. QED BY <1>10, <1>11

-----------------------------------------------------------------------------
(* The server.                                                             *)

(* One packet more is on its way to the bot. *)
LEMMA Told ==
  ASSUME IInv, NEW p \in DownPackets, down' = down \o <<p>>
  PROVE  /\ down' \in Seq(DownPackets) /\ Len(down) \in Nat /\ Len(down') = Len(down) + 1
         /\ down' # <<>> /\ down'[Len(down')] = p
         /\ \A i \in 1 .. Len(down) : down'[i] = down[i]
         /\ \A i \in 1 .. Len(down') : i \in 1 .. Len(down) \/ i = Len(down')
         /\ InRes(down') <=> InRes(down) \/ p.type = "LOOT_RES"
         /\ ~(InRes(down) /\ p.type = "LOOT_RES") =>
              \A i, j \in 1 .. Len(down') :
                down'[i].type = "LOOT_RES" /\ down'[j].type = "LOOT_RES" => i = j
<1>1. down \in Seq(DownPackets) /\ Len(down) \in Nat BY LenProperties DEF IInv, Wire
<1>2. down' = Append(down, p) BY <1>1, AppendIsConcat
<1>3. /\ down' \in Seq(DownPackets) /\ down' # <<>> /\ Len(down') = Len(down) + 1
      /\ \A i \in 1 .. Len(down) : down'[i] = down[i]
      /\ down'[Len(down) + 1] = p
  BY <1>1, <1>2, AppendProperties
<1>4. \A i \in 1 .. Len(down') : i \in 1 .. Len(down) \/ i = Len(down') BY <1>1, <1>3
<1>5. \A i \in 1 .. Len(down) : i \in 1 .. Len(down') BY <1>1, <1>3
<1>6. Len(down') \in 1 .. Len(down') /\ down'[Len(down')] = p BY <1>1, <1>3
<1>7. InRes(down') <=> InRes(down) \/ p.type = "LOOT_RES"
  <2>1. ASSUME InRes(down') PROVE InRes(down) \/ p.type = "LOOT_RES"
    BY <1>3, <1>4, <1>6, <2>1 DEF InRes
  <2>2. ASSUME InRes(down) PROVE InRes(down') BY <1>3, <1>5, <2>2 DEF InRes
  <2>3. ASSUME p.type = "LOOT_RES" PROVE InRes(down') BY <1>6, <2>3 DEF InRes
  <2>4. QED BY <2>1, <2>2, <2>3
<1>8. ASSUME ~(InRes(down) /\ p.type = "LOOT_RES"), NEW i \in 1 .. Len(down'),
             NEW j \in 1 .. Len(down'), down'[i].type = "LOOT_RES", down'[j].type = "LOOT_RES"
      PROVE  i = j
  <2>1. CASE p.type = "LOOT_RES"
    <3>1. i \notin 1 .. Len(down) /\ j \notin 1 .. Len(down) BY <1>3, <1>8, <2>1 DEF InRes
    <3>2. QED BY <1>4, <3>1
  <2>2. CASE p.type # "LOOT_RES"
    <3>1. i \in 1 .. Len(down) /\ j \in 1 .. Len(down) BY <1>4, <1>6, <1>8, <2>2
    <3>2. down[i].type = "LOOT_RES" /\ down[j].type = "LOOT_RES" BY <1>3, <1>8, <3>1
    <3>3. QED BY <3>1, <3>2 DEF IInv, LootOnce
  <2>3. QED BY <2>1, <2>2
<1>9. QED BY <1>1, <1>3, <1>4, <1>6, <1>7, <1>8

(* What the bot is does not change in a step of the server. *)
LEMMA BotStays == ASSUME IInv, UNCHANGED botVars PROVE BotRight' /\ BotSound' /\ Connected' = Connected
<1>1. UNCHANGED <<mSessionState, mState, mAnimFrame, mBMove, mTargetID, mMonsterKillTime,
                  mTargetItemID, mLootRequested, mDeadFrame, mAuthWaitCount, mConnectedCount,
                  asserted, kept>>
  BY DEF botVars, actorVars, targetVars, countVars
<1>2. BotRight' BY <1>1 DEF IInv, BotRight
<1>3. Connected' = Connected BY <1>1 DEF Connected
<1>4. BotSound' BY <1>1, <1>3 DEF IInv, BotSound
<1>5. QED BY <1>2, <1>3, <1>4

(* A server with a player is connected, and the player is one. *)
LEMMA EnteredPlayer == ASSUME IInv, Entered PROVE Connected /\ player \in PlayerShape
BY DEF IInv, Wire, Stages, Entered

(* The server's packet to the bot, or none, when it takes none of the bot's. *)
LEMMA ServerParts ==
  ASSUME IInv, Entered, player' \in PlayerShape, UNCHANGED botVars, up' = up, late' = late,
         crossed' \in BOOLEAN, Free' => Free,
         \/ down' = down
         \/ \E p \in DownPackets :
              /\ p.type \notin {"FIELD_AUTH_RES", "LOOT_RES"} /\ down' = down \o <<p>>
              /\ Free' => p.type # "CHARACTER_DAMAGED"
  PROVE  IInv'
<1>1. BotRight' /\ BotSound' /\ Connected' = Connected BY BotStays
<1>2. UNCHANGED <<mSessionState, mState, mBMove, mTargetItemID, mLootRequested, kept>>
  BY DEF botVars, actorVars, targetVars
<1>3. Connected /\ mSessionState \in {"CONNECTED", "AUTHED"} BY EnteredPlayer DEF Connected
<1>4. Entered' BY NoPlayerIsNone DEF Entered
<1>5. /\ down' \in Seq(DownPackets)
      /\ \A i \in 1 .. Len(down') :
           \/ i \in 1 .. Len(down) /\ down'[i] = down[i]
           \/ /\ down'[i].type # "FIELD_AUTH_RES"
              /\ Free' => down'[i].type # "CHARACTER_DAMAGED"
      /\ mSessionState = "CONNECTED" => down' # <<>> /\ down'[1] = down[1]
      /\ InRes(down') <=> InRes(down)
      /\ \A i, j \in 1 .. Len(down') :
           down'[i].type = "LOOT_RES" /\ down'[j].type = "LOOT_RES" => i = j
  <2>1. CASE down' = down
    <3>1. mSessionState = "CONNECTED" => down # <<>> BY DEF IInv, Stages
    <3>2. QED BY <2>1, <3>1 DEF IInv, Wire, LootOnce
  <2>2. CASE \E p \in DownPackets :
               /\ p.type \notin {"FIELD_AUTH_RES", "LOOT_RES"} /\ down' = down \o <<p>>
               /\ Free' => p.type # "CHARACTER_DAMAGED"
    <3>1. PICK p \in DownPackets :
            /\ p.type \notin {"FIELD_AUTH_RES", "LOOT_RES"} /\ down' = down \o <<p>>
            /\ Free' => p.type # "CHARACTER_DAMAGED"
      BY <2>2
    <3>2. /\ down' \in Seq(DownPackets) /\ Len(down) \in Nat
          /\ down' # <<>> /\ down'[Len(down')] = p
          /\ \A i \in 1 .. Len(down) : down'[i] = down[i]
          /\ \A i \in 1 .. Len(down') : i \in 1 .. Len(down) \/ i = Len(down')
          /\ InRes(down') <=> InRes(down)
          /\ \A i, j \in 1 .. Len(down') :
               down'[i].type = "LOOT_RES" /\ down'[j].type = "LOOT_RES" => i = j
      BY <3>1, Told
    <3>3. mSessionState = "CONNECTED" => down'[1] = down[1]
      <4>1. ASSUME mSessionState = "CONNECTED" PROVE 1 \in 1 .. Len(down)
        <5>1. down # <<>> /\ down \in Seq(DownPackets) BY <4>1 DEF IInv, Stages, Wire
        <5>2. Len(down) \in Nat \ {0} BY <5>1, EmptySeq
        <5>3. QED BY <5>2
      <4>2. QED BY <3>2, <4>1
    <3>4. QED BY <3>1, <3>2, <3>3
  <2>3. QED BY <2>1, <2>2
<1>6. Wire' BY <1>5 DEF IInv, Wire
<1>7. Stages'
  <2>1. CASE mSessionState = "CONNECTED"
    <3>1. /\ mState = "Idle" /\ up = <<>> /\ down[1].type = "FIELD_AUTH_RES"
          /\ \A i \in 2 .. Len(down) : down[i].type # "FIELD_AUTH_RES"
      BY <2>1 DEF IInv, Stages
    <3>2. \A i \in 2 .. Len(down') : down'[i].type # "FIELD_AUTH_RES"
      <4>1. Len(down) \in Nat /\ Len(down') \in Nat BY <1>5, LenProperties DEF IInv, Wire
      <4>2. \A i \in 2 .. Len(down') : i \in 1 .. Len(down') BY <4>1
      <4>3. \A i \in 2 .. Len(down') : i \in 1 .. Len(down) => i \in 2 .. Len(down) BY <4>1
      <4>4. QED BY <1>5, <3>1, <4>2, <4>3
    <3>3. QED BY <1>1, <1>2, <1>3, <1>4, <1>5, <2>1, <3>1, <3>2 DEF Stages
  <2>2. CASE mSessionState = "AUTHED"
    <3>1. /\ \A i \in 1 .. Len(up) : up[i] # "FIELD_AUTH_REQ"
          /\ \A i \in 1 .. Len(down) : down[i].type # "FIELD_AUTH_RES"
      BY <2>2 DEF IInv, Stages
    <3>2. \A i \in 1 .. Len(down') : down'[i].type # "FIELD_AUTH_RES" BY <1>5, <3>1
    <3>3. QED BY <1>1, <1>2, <1>3, <1>4, <2>2, <3>1, <3>2 DEF Stages
  <2>3. QED BY <1>3, <2>1, <2>2
<1>8. InReq(up') = InReq(up) OBVIOUS
<1>9. LootOnce' BY <1>2, <1>5, <1>8 DEF IInv, LootOnce
<1>10. LootKept' BY <1>1, <1>2, <1>5, <1>8 DEF IInv, LootKept
<1>11. WayInv'
  <2>1. Way(up, mBMove, late, Free') BY DEF IInv, WayInv, Way
  <2>2. Free' => \A i \in 1 .. Len(down') : down'[i].type # "CHARACTER_DAMAGED"
    BY <1>5 DEF IInv, WayInv
  <2>3. QED BY <1>2, <2>1, <2>2 DEF WayInv
<1>12. QED BY <1>1, <1>6, <1>7, <1>9, <1>10, <1>11 DEF IInv

(* The server takes the bot's next packet. *)
LEMMA Taken ==
  ASSUME IInv, NEW type, Take(type), NEW next \in BOOLEAN,
         next => Free \/ (type = "MOVE_START" /\ late = 0), type = "MOVE_STOP" => ~next
  PROVE  /\ up' \in Seq(UpPackets) /\ late' \in 0 .. Len(up')
         /\ Way(up', mBMove, late', next)
         /\ type = "FIELD_AUTH_REQ" =>
              mSessionState = "CONNECTED" /\ ~Entered /\ up' = <<>> /\ down = <<>>
         /\ type # "FIELD_AUTH_REQ" =>
              /\ mSessionState = "AUTHED" /\ Entered
              /\ \A i \in 1 .. Len(up') : up'[i] # "FIELD_AUTH_REQ"
         /\ \A i, j \in 1 .. Len(up') : up'[i] = "LOOT_REQ" /\ up'[j] = "LOOT_REQ" => i = j
         /\ InReq(up') => InReq(up) /\ type # "LOOT_REQ"
         /\ InReq(up) => InReq(up') \/ type = "LOOT_REQ"
         /\ type = "LOOT_REQ" => InReq(up)
<1>1. /\ up # <<>> /\ Head(up) = type /\ up' = Tail(up)
      /\ late' = IF late > 0 THEN late - 1 ELSE 0
  BY DEF Take
<1>2. up \in Seq(UpPackets) /\ late \in 0 .. Len(up) BY DEF IInv, Wire
<1>3. Len(up) \in Nat /\ Len(up) # 0 /\ 1 \in 1 .. Len(up) BY <1>1, <1>2, EmptySeq, LenProperties
<1>4. up[1] = type /\ type \in UpPackets
  BY <1>1, <1>2, <1>3, HeadTailProperties, ElementOfSeq
<1>5. /\ up' \in Seq(UpPackets) /\ Len(up') = Len(up) - 1
      /\ \A i \in 1 .. Len(up') : up'[i] = up[i + 1]
  BY <1>1, <1>2, HeadTailProperties
<1>6. \A i \in 1 .. Len(up') : i + 1 \in 1 .. Len(up) /\ i + 1 # 1 BY <1>3, <1>5
<1>7. late' \in 0 .. Len(up') /\ Way(up', mBMove, late', next)
  <2>1. Way(up, mBMove, late, Free) /\ mBMove \in BOOLEAN /\ Free \in BOOLEAN
    BY DEF IInv, WayInv, BotRight, Free
  <2>2. LET k == IF late > 0 THEN late - 1 ELSE 0 IN
        k \in 0 .. Len(Tail(up)) /\ Way(Tail(up), mBMove, k, next)
    BY <1>1, <1>2, <1>4, <2>1, WayTail
  <2>3. QED BY <1>1, <2>2
<1>8. mSessionState \in {"CONNECTED", "AUTHED"} BY <1>1 DEF IInv, Stages, Connected
<1>9. mSessionState = "CONNECTED" =>
        ~Entered /\ up = <<"FIELD_AUTH_REQ">> /\ down = <<>>
  BY <1>1 DEF IInv, Stages
<1>10. mSessionState = "AUTHED" => Entered /\ \A i \in 1 .. Len(up) : up[i] # "FIELD_AUTH_REQ"
  BY DEF IInv, Stages
<1>11. type = "FIELD_AUTH_REQ" =>
         mSessionState = "CONNECTED" /\ ~Entered /\ up' = <<>> /\ down = <<>>
  BY <1>1, <1>3, <1>4, <1>8, <1>9, <1>10
<1>12. type # "FIELD_AUTH_REQ" =>
         /\ mSessionState = "AUTHED" /\ Entered
         /\ \A i \in 1 .. Len(up') : up'[i] # "FIELD_AUTH_REQ"
  BY <1>1, <1>4, <1>5, <1>6, <1>8, <1>9, <1>10
<1>13. \A i, j \in 1 .. Len(up') : up'[i] = "LOOT_REQ" /\ up'[j] = "LOOT_REQ" => i = j
  <2>1. SUFFICES ASSUME NEW i \in 1 .. Len(up'), NEW j \in 1 .. Len(up'),
                        up'[i] = "LOOT_REQ", up'[j] = "LOOT_REQ"
                 PROVE  i = j
    OBVIOUS
  <2>2. up[i + 1] = "LOOT_REQ" /\ up[j + 1] = "LOOT_REQ" BY <1>5, <2>1
  <2>3. i + 1 = j + 1 BY <1>6, <2>2 DEF IInv, LootOnce
  <2>4. QED BY <2>3
<1>14. ASSUME InReq(up') PROVE InReq(up) /\ type # "LOOT_REQ"
  <2>1. PICK i \in 1 .. Len(up') : up'[i] = "LOOT_REQ" BY <1>14 DEF InReq
  <2>2. i + 1 \in 1 .. Len(up) /\ i + 1 # 1 /\ up[i + 1] = "LOOT_REQ" BY <1>5, <1>6, <2>1
  <2>3. up[1] # "LOOT_REQ" BY <1>3, <2>2 DEF IInv, LootOnce
  <2>4. QED BY <1>4, <2>2, <2>3 DEF InReq
<1>15. ASSUME InReq(up), type # "LOOT_REQ" PROVE InReq(up')
  <2>1. PICK i \in 1 .. Len(up) : up[i] = "LOOT_REQ" BY <1>15 DEF InReq
  <2>2. i # 1 BY <1>4, <1>15, <2>1
  <2>3. i - 1 \in 1 .. Len(up') /\ i - 1 + 1 = i BY <1>3, <1>5, <2>2
  <2>4. up'[i - 1] = "LOOT_REQ" BY <1>5, <2>1, <2>3
  <2>5. QED BY <2>3, <2>4 DEF InReq
<1>16. type = "LOOT_REQ" => InReq(up) BY <1>3, <1>4 DEF InReq
<1>17. QED BY <1>5, <1>7, <1>11, <1>12, <1>13, <1>14, <1>15, <1>16

(* Packets of the server are packets. *)
LEMMA PacketsAre ==
  /\ Packet("FIELD_AUTH_RES") \in DownPackets /\ Packet("FIELD_AUTH_RES").type = "FIELD_AUTH_RES"
  /\ Packet("LOOT_RES") \in DownPackets /\ Packet("LOOT_RES").type = "LOOT_RES"
<1>1. 0 \in 0 .. PLAYER_MAX_HP BY PlayerStates
<1>2. QED BY <1>1 DEF DownPackets, Packet, FromMonsters

(* EnterField: the login finds a player. *)
LEMMA EnterFieldStep == ASSUME IInv, EnterField PROVE IInv'
<1>1. /\ Take("FIELD_AUTH_REQ") /\ player' = NewPlayer /\ UNCHANGED <<crossed, botVars>>
      /\ down' = down \o <<Packet("FIELD_AUTH_RES")>>
  BY DEF EnterField, Tell, Take
<1>2. /\ up' \in Seq(UpPackets) /\ late' \in 0 .. Len(up') /\ Way(up', mBMove, late', FALSE)
      /\ mSessionState = "CONNECTED" /\ ~Entered /\ up' = <<>> /\ down = <<>>
      /\ \A i, j \in 1 .. Len(up') : up'[i] = "LOOT_REQ" /\ up'[j] = "LOOT_REQ" => i = j
      /\ InReq(up') <=> InReq(up)
  BY <1>1, Taken
<1>3. BotRight' /\ BotSound' /\ Connected' = Connected BY <1>1, BotStays
<1>4. UNCHANGED <<mSessionState, mState, mBMove, mTargetItemID, mLootRequested, kept>>
  BY <1>1 DEF botVars, actorVars, targetVars
<1>5. /\ down' \in Seq(DownPackets) /\ Len(down') = 1
      /\ down' # <<>> /\ down'[1].type = "FIELD_AUTH_RES"
      /\ InRes(down') <=> InRes(down)
      /\ \A i, j \in 1 .. Len(down') :
           down'[i].type = "LOOT_RES" /\ down'[j].type = "LOOT_RES" => i = j
  <2>1. Len(down) = 0 BY <1>2
  <2>2. QED BY <1>1, <2>1, Told, PacketsAre
<1>6. player' \in PlayerShape /\ Entered' /\ Free' = FALSE
  BY <1>1, NoPlayerIsNone DEF Entered, Free
<1>7. Wire' BY <1>2, <1>5, <1>6 DEF Wire
<1>8. Stages'
  <2>1. \A i \in 2 .. Len(down') : down'[i].type # "FIELD_AUTH_RES" BY <1>5
  <2>2. mState = "Idle" /\ Connected BY <1>2 DEF IInv, Stages, Connected
  <2>3. QED BY <1>2, <1>3, <1>4, <1>5, <1>6, <2>1, <2>2 DEF Stages
<1>9. LootOnce' BY <1>2, <1>4, <1>5 DEF IInv, LootOnce
<1>10. LootKept' BY <1>2, <1>3, <1>4, <1>5 DEF IInv, LootKept
<1>11. WayInv' BY <1>1, <1>2, <1>4, <1>6 DEF IInv, WayInv
<1>12. QED BY <1>3, <1>7, <1>8, <1>9, <1>10, <1>11 DEF IInv

(* A packet of a bot that is logged in.  A MOVE_START sets the player going as the *)
(* bot asks only when no hit lies on the way.                                      *)
LEMMA TakeParts ==
  ASSUME IInv, NEW type, Take(type), type # "FIELD_AUTH_REQ",
         player' \in PlayerShape, crossed' \in BOOLEAN,
         Free' => \/ Free
                  \/ /\ type = "MOVE_START" /\ late = 0
                     /\ \A i \in 1 .. Len(down) : down[i].type # "CHARACTER_DAMAGED",
         type = "MOVE_STOP" => ~Free',
         \/ type # "LOOT_REQ" /\ down' = down
         \/ type = "LOOT_REQ" /\ down' = down \o <<Packet("LOOT_RES")>>
  PROVE  IInv'
<1>1. UNCHANGED botVars BY DEF Take
<1>2. PICK next \in BOOLEAN : next <=> Free'
  <2>1. CASE Free' BY <2>1
  <2>2. CASE ~Free' BY <2>2
  <2>3. QED BY <2>1, <2>2
<1>3. /\ up' \in Seq(UpPackets) /\ late' \in 0 .. Len(up')
      /\ Way(up', mBMove, late', next)
      /\ mSessionState = "AUTHED" /\ Entered
      /\ \A i \in 1 .. Len(up') : up'[i] # "FIELD_AUTH_REQ"
      /\ \A i, j \in 1 .. Len(up') : up'[i] = "LOOT_REQ" /\ up'[j] = "LOOT_REQ" => i = j
      /\ InReq(up') => InReq(up) /\ type # "LOOT_REQ"
      /\ InReq(up) => InReq(up') \/ type = "LOOT_REQ"
      /\ type = "LOOT_REQ" => InReq(up)
  BY <1>2, Taken
<1>4. BotRight' /\ BotSound' /\ Connected' = Connected BY <1>1, BotStays
<1>5. UNCHANGED <<mSessionState, mState, mBMove, mTargetItemID, mLootRequested, kept>>
  BY <1>1 DEF botVars, actorVars, targetVars
<1>6. Connected BY <1>3 DEF Connected
<1>7. Entered' BY NoPlayerIsNone DEF Entered
<1>8. ~(InReq(up) /\ InRes(down)) /\ (InReq(up) => mTargetItemID # -1 /\ mLootRequested)
  BY DEF IInv, LootOnce
<1>9. \A i \in 1 .. Len(down) :
        /\ down[i].type # "FIELD_AUTH_RES"
        /\ Free' => down[i].type # "CHARACTER_DAMAGED"
  <2>1. \A i \in 1 .. Len(down) : down[i].type # "FIELD_AUTH_RES" BY <1>3 DEF IInv, Stages
  <2>2. Free' => \A i \in 1 .. Len(down) : down[i].type # "CHARACTER_DAMAGED"
    BY DEF IInv, WayInv
  <2>3. QED BY <2>1, <2>2
<1>10. /\ down' \in Seq(DownPackets)
       /\ \A i \in 1 .. Len(down') :
            /\ down'[i].type # "FIELD_AUTH_RES"
            /\ Free' => down'[i].type # "CHARACTER_DAMAGED"
       /\ InRes(down') <=> InRes(down) \/ type = "LOOT_REQ"
       /\ \A i, j \in 1 .. Len(down') :
            down'[i].type = "LOOT_RES" /\ down'[j].type = "LOOT_RES" => i = j
  <2>1. CASE type # "LOOT_REQ" /\ down' = down
    BY <1>9, <2>1 DEF IInv, Wire, LootOnce
  <2>2. CASE type = "LOOT_REQ" /\ down' = down \o <<Packet("LOOT_RES")>>
    <3>1. /\ down' \in Seq(DownPackets) /\ down'[Len(down')] = Packet("LOOT_RES")
          /\ \A i \in 1 .. Len(down) : down'[i] = down[i]
          /\ \A i \in 1 .. Len(down') : i \in 1 .. Len(down) \/ i = Len(down')
          /\ InRes(down')
          /\ ~InRes(down) => \A i, j \in 1 .. Len(down') :
               down'[i].type = "LOOT_RES" /\ down'[j].type = "LOOT_RES" => i = j
      BY <2>2, Told, PacketsAre
    <3>2. ~InRes(down) BY <1>3, <1>8, <2>2
    <3>3. \A i \in 1 .. Len(down') :
            /\ down'[i].type # "FIELD_AUTH_RES"
            /\ Free' => down'[i].type # "CHARACTER_DAMAGED"
      <4>1. /\ down'[Len(down')].type # "FIELD_AUTH_RES"
            /\ down'[Len(down')].type # "CHARACTER_DAMAGED"
        BY <3>1, PacketsAre
      <4>2. QED BY <1>9, <3>1, <4>1
    <3>4. QED BY <2>2, <3>1, <3>2, <3>3
  <2>3. QED BY <2>1, <2>2
<1>11. Wire' BY <1>3, <1>10 DEF Wire
<1>12. Stages' BY <1>3, <1>4, <1>5, <1>6, <1>7, <1>10 DEF Stages
<1>13. LootOnce' BY <1>3, <1>5, <1>8, <1>10 DEF IInv, LootOnce
<1>14. LootKept' BY <1>3, <1>4, <1>5, <1>6, <1>10 DEF IInv, LootKept
<1>15. WayInv'
  <2>1. Way(up', mBMove', late', Free') BY <1>2, <1>3, <1>5 DEF Way
  <2>2. QED BY <1>10, <2>1 DEF WayInv
<1>16. QED BY <1>4, <1>11, <1>12, <1>13, <1>14, <1>15 DEF IInv

(* The handlers of the field server. *)
LEMMA HandlerStep ==
  ASSUME IInv, HandleMoveStart \/ HandleMoveStop \/ HandleAttackReq \/ HandleLootReq PROVE IInv'
<1>1. crossed \in BOOLEAN BY DEF IInv, WayInv
<1>2. ASSUME NEW type, Take(type), type # "FIELD_AUTH_REQ" PROVE player \in PlayerShape
  BY <1>2, Taken, EnteredPlayer
<1>3. CASE HandleMoveStart
  <2>1. /\ Take("MOVE_START") /\ player' = handleMoveStart(player) /\ down' = down
        /\ crossed' = IF StartTaken(player)
                      THEN late > 0 \/ \E i \in DOMAIN down : down[i].type = "CHARACTER_DAMAGED"
                      ELSE crossed
    BY <1>3 DEF HandleMoveStart
  <2>2. player \in PlayerShape BY <1>2, <2>1
  <2>3. player' \in PlayerShape BY <2>1, <2>2, PlayerAsks
  <2>4. crossed' \in BOOLEAN BY <1>1, <2>1
  <2>5. DOMAIN down = 1 .. Len(down) /\ late \in Nat BY LenProperties DEF IInv, Wire
  <2>6. CASE StartTaken(player)
    <3>1. crossed' = (late > 0 \/ \E i \in DOMAIN down : down[i].type = "CHARACTER_DAMAGED")
      BY <2>1, <2>6
    <3>2. ~crossed' => /\ ~(late > 0)
                       /\ \A i \in 1 .. Len(down) : down[i].type # "CHARACTER_DAMAGED"
      BY <2>5, <3>1
    <3>3. ~(late > 0) => late = 0 BY <2>5
    <3>4. Free' => /\ late = 0
                   /\ \A i \in 1 .. Len(down) : down[i].type # "CHARACTER_DAMAGED"
      BY <3>2, <3>3 DEF Free
    <3>5. QED BY <2>1, <2>3, <2>4, <3>4, TakeParts
  <2>7. CASE ~StartTaken(player)
    <3>1. player' = player /\ crossed' = crossed BY <2>1, <2>7 DEF handleMoveStart
    <3>2. Free' => Free BY <3>1 DEF Free
    <3>3. QED BY <2>1, <2>3, <2>4, <3>2, TakeParts
  <2>8. QED BY <2>6, <2>7
<1>4. CASE HandleMoveStop
  <2>1. /\ Take("MOVE_STOP") /\ player' = handleMoveStop(player) /\ down' = down
        /\ crossed' = (crossed /\ ~StopTaken(player))
    BY <1>4 DEF HandleMoveStop
  <2>2. player \in PlayerShape BY <1>2, <2>1
  <2>3. player' \in PlayerShape /\ ~Free' BY <2>1, <2>2, PlayerAsks DEF Free
  <2>4. crossed' \in BOOLEAN BY <2>1
  <2>5. QED BY <2>1, <2>3, <2>4, TakeParts
<1>5. CASE HandleAttackReq
  <2>1. /\ Take("PLAYER_ATTACK_REQ") /\ player' = handleAttackReq(player)
        /\ UNCHANGED <<down, crossed>>
    BY <1>5 DEF HandleAttackReq
  <2>2. player \in PlayerShape BY <1>2, <2>1
  <2>3. player' \in PlayerShape /\ ~Free' BY <2>1, <2>2, PlayerAsks DEF Free
  <2>4. QED BY <1>1, <2>1, <2>3, TakeParts
<1>6. CASE HandleLootReq
  <2>1. /\ Take("LOOT_REQ") /\ UNCHANGED <<player, crossed>>
        /\ down' = down \o <<Packet("LOOT_RES")>>
    BY <1>6 DEF HandleLootReq, Tell
  <2>2. player \in PlayerShape BY <1>2, <2>1
  <2>3. Free' => Free BY <2>1 DEF Free
  <2>4. QED BY <1>1, <2>1, <2>2, <2>3, TakeParts
<1>7. QED BY <1>3, <1>4, <1>5, <1>6

(* What the server does of its own accord: a frame, a hit, what the bot sees of the *)
(* monsters and the items.                                                          *)
LEMMA ServerStep ==
  ASSUME IInv, ServerFrame \/ World \/ \E m \in Monsters : Hit(m) PROVE IInv'
<1>1. crossed \in BOOLEAN BY DEF IInv, WayInv
<1>2. CASE ServerFrame
  <2>1. /\ Entered /\ player' = update(player, TRUE)
        /\ UNCHANGED <<botVars, up, down, late, crossed>>
    BY <1>2 DEF ServerFrame
  <2>2. player \in PlayerShape BY <2>1, EnteredPlayer
  <2>3. player' \in PlayerShape /\ (Free' => Free) BY <2>1, <2>2, PlayerFrame DEF Free
  <2>4. QED BY <1>1, <2>1, <2>3, ServerParts
<1>3. CASE World
  <2>1. Entered /\ UNCHANGED <<botVars, up, player, late, crossed>> BY <1>3 DEF World
  <2>10. PICK type \in {"MONSTER_MOVE_STOP", "MONSTER_DAMAGED", "ITEM_SPAWN"} :
           \E id \in IF type = "ITEM_SPAWN" THEN Items ELSE Monsters :
             down' = down \o <<[Packet(type) EXCEPT !.id = id]>>
    BY <1>3 DEF World, Tell
  <2>2. PICK id \in IF type = "ITEM_SPAWN" THEN Items ELSE Monsters :
          down' = down \o <<[Packet(type) EXCEPT !.id = id]>>
    BY <2>10
  <2> DEFINE p == [Packet(type) EXCEPT !.id = id]
  <2>3. p = [type |-> type, id |-> id, hp |-> 0] BY DEF Packet
  <2>4. p \in DownPackets /\ p.type = type
    BY <2>2, <2>3, PlayerStates DEF DownPackets, FromMonsters
  <2>5. player \in PlayerShape BY <2>1, EnteredPlayer
  <2>6. Free' => Free BY <2>1 DEF Free
  <2>7. down' = down \o <<p>> BY <2>2
  <2> HIDE DEF p
  <2>8. p.type \notin {"FIELD_AUTH_RES", "LOOT_RES", "CHARACTER_DAMAGED"} BY <2>4
  <2>9. QED BY <1>1, <2>1, <2>4, <2>5, <2>6, <2>7, <2>8, ServerParts
<1>4. CASE \E m \in Monsters : Hit(m)
  <2>1. PICK m \in Monsters : Hit(m) BY <1>4
  <2> DEFINE p == [type |-> "CHARACTER_DAMAGED", id |-> m, hp |-> player'.mHp]
  <2>2. /\ Entered /\ player.mState # "Dead" /\ player' = takeDamage(player)
        /\ down' = down \o <<p>> /\ crossed' = FALSE
        /\ UNCHANGED <<botVars, up, late>>
    BY <2>1 DEF Hit, Tell
  <2>3. player \in PlayerShape BY <2>2, EnteredPlayer
  <2>4. player' \in PlayerShape /\ ~Free' BY <2>2, <2>3, PlayerHurt DEF Free
  <2>5. player'.mHp \in 0 .. PLAYER_MAX_HP BY <2>4 DEF PlayerShape
  <2>6. p \in DownPackets /\ p.type = "CHARACTER_DAMAGED" BY <2>5 DEF DownPackets, FromMonsters
  <2> HIDE DEF p
  <2>7. crossed' \in BOOLEAN BY <2>2
  <2>8. p.type \notin {"FIELD_AUTH_RES", "LOOT_RES"} BY <2>6
  <2>9. QED BY <2>2, <2>4, <2>6, <2>7, <2>8, ServerParts
<1>5. QED BY <1>2, <1>3, <1>4

-----------------------------------------------------------------------------
(* The theorems.                                                           *)

(* A bot that has not connected yet. *)
LEMMA InitStep == ASSUME Init PROVE IInv
<1>1. /\ mSessionState = "REQ_CONNECT" /\ mState = "Idle" /\ mAnimFrame = 0 /\ mBMove = FALSE
      /\ mTargetID = -1 /\ mMonsterKillTime = FALSE /\ mTargetItemID = -1 /\ mLootRequested = FALSE
      /\ mDeadFrame = 0 /\ mAuthWaitCount = 0 /\ mConnectedCount = 0
      /\ up = <<>> /\ down = <<>> /\ player = NoPlayer
      /\ asserted = FALSE /\ late = 0 /\ crossed = FALSE
  BY DEF Init, Session, connectSessions
<1>2. ~Connected BY <1>1 DEF Connected
<1>3. up \in Seq(UpPackets) /\ Way(up, mBMove, late, FALSE) /\ ~InReq(up) BY <1>1, NewQueue
<1>4. down \in Seq(DownPackets) /\ Len(up) = 0 /\ Len(down) = 0 BY <1>1, EmptySeq
<1>5. \A i : i \notin 1 .. Len(up) /\ i \notin 1 .. Len(down) BY <1>4
<1>6. Wire BY <1>1, <1>3, <1>4 DEF Wire
<1>7. Stages BY <1>1, <1>2 DEF Stages, Entered
<1>8. BotRight
  <2>1. 0 \in 0 .. PLAYER_ATTACK_TOTAL_FRAME + PLAYER_HIT_STUN_FRAME /\ 0 \in 0 .. DEAD_FRAME
    BY PlayerAssumption, BotAssumption
  <2>2. mBMove \in BOOLEAN /\ mMonsterKillTime \in BOOLEAN /\ mLootRequested \in BOOLEAN
    BY <1>1
  <2>3. QED BY <1>1, <2>1, <2>2 DEF BotRight
<1>9. BotSound BY <1>1, <1>2 DEF BotSound
<1>10. LootOnce BY <1>5 DEF LootOnce, InReq, InRes
<1>11. LootKept BY <1>2 DEF LootKept
<1>12. WayInv
  <2>1. Free = FALSE BY <1>1, NoPlayerIsNone DEF Free
  <2>2. QED BY <1>1, <1>3, <2>1 DEF WayInv
<1>13. QED BY <1>6, <1>7, <1>8, <1>9, <1>10, <1>11, <1>12 DEF IInv

(* The invariant depends on nothing but the state of the module. *)
LEMMA StutterStep == ASSUME IInv, UNCHANGED vars PROVE IInv'
<1>1. UNCHANGED <<mSessionState, mState, mAnimFrame, mBMove, mTargetID, mMonsterKillTime,
                  mTargetItemID, mLootRequested, mDeadFrame, mAuthWaitCount, mConnectedCount,
                  asserted, kept, up, down, player, late, crossed>>
  BY DEF vars, botVars, actorVars, targetVars, countVars
<1>2. Wire' /\ BotRight' BY <1>1 DEF IInv, Wire, BotRight
<1>3. Stages' BY <1>1 DEF IInv, Stages, Connected, Entered
<1>4. BotSound' BY <1>1 DEF IInv, BotSound, Connected
<1>5. InReq(up') = InReq(up) /\ InRes(down') = InRes(down) BY <1>1
<1>6. LootOnce' BY <1>1, <1>5 DEF IInv, LootOnce
<1>7. LootKept' BY <1>1, <1>5 DEF IInv, LootKept, Connected
<1>8. WayInv'
  <2>1. Free' = Free BY <1>1 DEF Free
  <2>2. QED BY <1>1, <2>1 DEF IInv, WayInv
<1>9. QED BY <1>2, <1>3, <1>4, <1>6, <1>7, <1>8 DEF IInv

(* Every reachable state has the invariant: what is on its way is in its place, one *)
(* request for an item is out at most, and a walk ends before a swing.              *)
THEOREM IInvHolds == Spec => []IInv
<1>1. Init => IInv BY InitStep
<1>2. IInv /\ [Next]_vars => IInv'
  <2>1. SUFFICES ASSUME IInv, [Next]_vars PROVE IInv' OBVIOUS
  <2>2. CASE Connection BY <2>1, <2>2, ConnectionStep
  <2>3. CASE Update BY <2>1, <2>3, UpdateStep
  <2>4. CASE PacketProc
    <3>1. \/ handleFieldAuth \/ handleMonsterMoveStop \/ handleMonsterDamaged
          \/ handleCharacterDamaged \/ handleItemSpawn \/ handleLootRes
      BY <2>4 DEF PacketProc
    <3>2. QED
      BY <2>1, <3>1, FieldAuthStep, MonsterPacketStep, CharacterDamagedStep, ItemPacketStep
  <2>5. CASE FieldServer
    <3>1. \/ EnterField \/ HandleMoveStart \/ HandleMoveStop \/ HandleAttackReq \/ HandleLootReq
          \/ ServerFrame \/ World \/ \E m \in Monsters : Hit(m)
      BY <2>5 DEF FieldServer
    <3>2. QED BY <2>1, <3>1, EnterFieldStep, HandlerStep, ServerStep
  <2>6. CASE UNCHANGED vars BY <2>1, <2>6, StutterStep
  <2>7. QED BY <2>1, <2>2, <2>3, <2>4, <2>5, <2>6 DEF Next
<1>3. QED BY <1>1, <1>2, PTL DEF Spec

(* Type correctness: the bot's counters keep to their bounds, and no change of the *)
(* state of the server's player meets the assertion of changeState.                *)
THEOREM TypeCorrect == Spec => []TypeOK
<1>1. IInv => TypeOK
  <2>1. SUFFICES ASSUME IInv PROVE TypeOK OBVIOUS
  <2>2. player \in PlayerShape => player \in Player /\ player.ok BY DEF PlayerShape, Player
  <2>3. player \in Player \union {NoPlayer} /\ (Entered => player.ok)
    BY <2>1, <2>2 DEF IInv, Wire, Entered
  <2>4. QED BY <2>1, <2>3 DEF IInv, Wire, Stages, BotRight, TypeOK
<1>2. QED BY <1>1, IInvHolds, PTL

(* The bot never gives up a target or an item it does not have, never changes into *)
(* the state it is in, and its statistics count the connections and the logins     *)
(* that wait.                                                                      *)
THEOREM BotIsSound == Spec => []BotSound
<1>1. IInv => BotSound BY DEF IInv
<1>2. QED BY <1>1, IInvHolds, PTL

(* A bot that waits for an item has its request or the answer on the way, unless it *)
(* asked over a connection that has gone.                                           *)
THEOREM LootIsAwaited == Spec => []LootAwaited
<1>1. IInv => LootAwaited
  <2>1. SUFFICES ASSUME IInv, mSessionState = "AUTHED", mTargetItemID # -1, mLootRequested
                 PROVE  "LOOT_REQ" \in ToSet(up) \/ Packet("LOOT_RES") \in ToSet(down) \/ kept
    BY DEF LootAwaited
  <2>2. InReq(up) \/ InRes(down) \/ kept BY <2>1 DEF IInv, LootKept, Connected
  <2>3. up \in Seq(UpPackets) /\ down \in Seq(DownPackets) BY <2>1 DEF IInv, Wire
  <2>4. ASSUME InReq(up) PROVE "LOOT_REQ" \in ToSet(up)
    <3>1. PICK i \in 1 .. Len(up) : up[i] = "LOOT_REQ" BY <2>4 DEF InReq
    <3>2. i \in DOMAIN up BY <2>3, LenProperties
    <3>3. QED BY <3>1, <3>2 DEF ToSet
  <2>5. ASSUME InRes(down) PROVE Packet("LOOT_RES") \in ToSet(down)
    <3>1. PICK i \in 1 .. Len(down) : down[i].type = "LOOT_RES" BY <2>5 DEF InRes
    <3>2. i \in DOMAIN down /\ down[i] \in DownPackets BY <2>3, LenProperties, ElementOfSeq
    <3>3. down[i] = Packet("LOOT_RES") BY <3>1, <3>2 DEF DownPackets
    <3>4. QED BY <3>2, <3>3 DEF ToSet
  <2>6. QED BY <2>2, <2>4, <2>5
<1>2. QED BY <1>1, IInvHolds, PTL

(* A bot stands when the server makes it swing or loot, unless a MOVE_START it had *)
(* sent before it heard of a hit has set it going again.                           *)
THEOREM SwingsAreStood == Spec => []SwingsStand
<1>1. IInv => SwingsStand
  <2>1. SUFFICES ASSUME IInv, up # <<>>, Head(up) \in Acts, player.mState = "Move", ~crossed
                 PROVE  FALSE
    BY DEF SwingsStand, Acts
  <2>2. Free /\ up \in Seq(UpPackets) BY <2>1 DEF Free, IInv, Wire
  <2>3. 1 \in 1 .. Len(up) /\ Head(up) = up[1]
    <3>1. Len(up) \in Nat \ {0} BY <2>1, <2>2, EmptySeq
    <3>2. QED BY <2>1, <2>2, <3>1, HeadTailProperties
  <2>4. ~NoStop(up, 0, 1) BY <2>1, <2>2, <2>3 DEF IInv, WayInv, Way
  <2>5. NoStop(up, 0, 1) BY DEF NoStop
  <2>6. QED BY <2>4, <2>5
<1>2. QED BY <1>1, IInvHolds, PTL
=============================================================================

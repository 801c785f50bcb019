CONSTANTS
  p1 = p1
  p2 = p2
  m1 = m1
  d1 = d1
  d2 = d2
  Players = {p1, p2}
  Monsters = {m1}
  Items = {1}
  Directions = {d1, d2}
  NoMonster = NoMonster
  NoPlayer = NoPlayer
  PLAYER_ATTACK_TOTAL_FRAME = 2
  PLAYER_ATTACK_AWINDUP_FRAME = 1
  ALLOW_DELAY_FRAME = 1
  PLAYER_HIT_STUN_FRAME = 1
  PLAYER_MAX_HP = 1
  MONSTER_ATTACK_DAMAGE = 1
  PLAYER_ATTACK_DAMAGE = 2
  MONSTER_MAX_HP = 3
  MONSTER_HIT_STUN_FRAME = 1
  MONSTER_ATTACK_TOTAL_FRAME = 2
  MONSTER_ATTACK_WINDUP_FRAME = 1
  MONSTER_RESPAWN_FRAME = 1
  MONSTER_IDLE_FRAME = 2
SPECIFICATION Spec
SYMMETRY Symmetry
INVARIANTS TypeOK WatcherSees 

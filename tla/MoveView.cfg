CONSTANTS
  PLAYER_ATTACK_TOTAL_FRAME = 4
  PLAYER_ATTACK_AWINDUP_FRAME = 2
  ALLOW_DELAY_FRAME = 2
  PLAYER_HIT_STUN_FRAME = 2
  PLAYER_MAX_HP = 3
  MONSTER_ATTACK_DAMAGE = 2
  MaxWay = 4
  MaxHits = 2
SPECIFICATION Spec
INVARIANTS ObserverSees StandersStand

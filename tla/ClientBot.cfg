CONSTANTS
  PLAYER_ATTACK_TOTAL_FRAME = 3
  PLAYER_ATTACK_AWINDUP_FRAME = 1
  ALLOW_DELAY_FRAME = 2
  PLAYER_HIT_STUN_FRAME = 1
  PLAYER_MAX_HP = 3
  MONSTER_ATTACK_DAMAGE = 2
  Monsters = {1, 2}
  Items = {1}
  DEAD_FRAME = 1
  MaxUp = 3
  MaxDown = 2
SPECIFICATION Spec
INVARIANTS TypeOK  LootAwaited SwingsStand

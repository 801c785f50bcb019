SPECIFICATION Spec
CONSTANTS
  a = a
  b = b
  wolf = wolf
  coin = coin
  Cols = 3
  Rows = 1
  Characters = {a, b}
  Monsters = {wolf}
  Items = {coin}
  SpawnSector <- MCSpawnSector
SYMMETRY MCSymmetry
INVARIANTS RegistersAgree ScreensRight FaultsOfReturners RegistersCatchUp

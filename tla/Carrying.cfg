SPECIFICATION CarryingSpec
CONSTANTS
  Ultras = {u}
  Eternals = {e}
  Primordials = {}
  Possessed = {u}
  Zones = {1, 2}
  MaxMoves = 1
  Nothing = Nothing
INVARIANT FrozenIsCarried

SPECIFICATION BasketSpec
CONSTANTS
  Legs = 2
  Invalid = {}
  MaxLegs = 4
  Jwts = {j0, j1, j2, j3}
  Stored = j0
  Expiries = 0
  Losses = 0
  LostAnswers = TRUE
INVARIANTS
  OneOrderPerLeg

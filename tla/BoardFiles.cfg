CONSTANTS
  card = card
  other = other
  a1 = a1
  a2 = a2
  h1 = h1
  h2 = h2
  Assets = {card, other}
  Attempts = {a1, a2}
  AssetOf <- MCAssetOf
  Handlers = {h1, h2}
  Nothing = Nothing
  MaxVersions = 3
  MaxRequests = 2
SPECIFICATION Spec
SYMMETRY ThreadSymmetry
INVARIANTS BoardTypeOK UserChoiceWins RevokedStaysOff
CHECK_DEADLOCK FALSE

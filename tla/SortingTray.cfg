CONSTANTS
  a = a
  b = b
  Cards = {a, b}
  NoCard = NoCard
  Kept = 0
  History = 2
  Lots <- MCLots
  MaxTurns = 1
  MaxPictures = 2
  MaxNumbers = 3
  MaxCalls = 4
  MaxCrashes = 1
SPECIFICATION TraySpec
INVARIANT NothingLostUnasked
PROPERTY UndoRestores
CHECK_DEADLOCK FALSE

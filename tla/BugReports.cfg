CONSTANTS
  board = board
  tool = tool
  Board = board
  Bridges = {board, tool}
  AutoCreate = {board, tool}
  Sites <- MCRotation
  BatchLimit = 2
  Kept = 1
  MaxEvents = 3
  MaxSegments = 3
  MaxMishaps = 1
SPECIFICATION Spec
INVARIANTS CheckpointIsTrue OncePerMishap
PROPERTY EveryBugTold
CHECK_DEADLOCK FALSE

CONSTANTS
  s1 = s1
  s2 = s2
  b1 = b1
  b2 = b2
  Seats = {s1,s2}
  Boards = {b1}
  BoardOf <- MCOneBoard
  MaxAttempts = 2
  Variants = 1
  Tries = 2
  Polls = 1
  Limit = 2
  MaxStrays = 1
  MaxCrashes = 1
  MaxMishaps = 1
SPECIFICATION Spec
INVARIANT PressesReserved
PROPERTIES OneArrivalPerPost OwnClip ImplementsAttempts AttemptsEnd
CHECK_DEADLOCK FALSE
SYMMETRY MCWorkers

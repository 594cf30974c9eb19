CONSTANTS
  N = 2
  Refs = 2
  Rounds = 2
  Presses = 3
  Deadline = 3
  RefusalAfter = 0
  RescanAfter = 1
  Quiet = 2
  MaxVariants = 1
  MaxPauses = 1
  Flaky = FALSE
SPECIFICATION LiveSpec
INVARIANTS MessageTypeOK PicturesMatchPrompts PaidPicturesKept
PROPERTIES ImplementsAttempt SentOnlyComplete AttemptEnds
CHECK_DEADLOCK FALSE

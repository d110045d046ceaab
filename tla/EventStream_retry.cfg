CONSTANTS
  MaxAttempts = 2
  MaxSequence = 2
  Transport = "http"
  Faulty = FALSE
SPECIFICATION StreamSpec
INVARIANT StreamComplete
CHECK_DEADLOCK FALSE

CONSTANTS
  MaxAttempts = 2
  MaxFaults = 2
  w1 = w1  w2 = w2
  Worker = {w1, w2}
  Interference = {"touch", "block", "supersede", "supply", "cancel", "advance", "invalidate"}
  MaxVersion = 4
  MaxCrashes = 1
SPECIFICATION MCSpec
INVARIANTS OutcomeIsTrue
PROPERTIES EndedWhole RetryIsolated OneAgent Recovered ReviewAfterEvidence FinishesUndisturbed
CHECK_DEADLOCK FALSE

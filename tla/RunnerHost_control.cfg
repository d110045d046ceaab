CONSTANTS
  s1 = s1  v = v  w = w  ex = ex  c1 = c1
  Start = {s1}
  Verify = {v, w}
  Execution = {ex}
  Of <- MCOf
  Stubborn = {s1, v}
  Control = {c1}
  Operations = {"RUNNING", "PAUSE", "CANCEL_ALL", "CLOSE"}
  MaxAttempts = 2
  MaxSequence = 3
  Transport = "http"
  Faulty = TRUE
SPECIFICATION MCSpec
INVARIANTS CancellationIsComplete FirstStreamWhole DeliveredInOrder
PROPERTIES HostAnswers StreamEnds
CHECK_DEADLOCK FALSE

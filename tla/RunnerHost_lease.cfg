CONSTANTS
  s1 = s1  s2 = s2  e = e
  Start = {s1, s2}
  Verify = {}
  Execution = {e}
  Of <- SameExecution
  Stubborn = {}
  c1 = c1 c2 = c2
  Control = {c1, c2}
  Operations = {"RUNNING", "PAUSE", "CANCEL_ALL", "CLOSE"}
SPECIFICATION LeaseSpec
SYMMETRY Interchangeable
INVARIANTS WorkHoldsLease ClosedIsEmpty
CHECK_DEADLOCK FALSE

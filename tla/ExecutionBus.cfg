CONSTANTS
  e1 = e1  a1 = a1  a2 = a2  b1 = b1  c1 = c1
  x = x  y = y  k1 = k1
  Execution = {e1}
  Attempt = {a1, a2}
  Binding = {b1}
  Contract = {c1}
  Budget = {1, 2}
  EventId = {x, y}
  Key = {k1}
  Assignment = Assignment
  None = None
  Fresh = Fresh
  MaxVersion = 13
  MaxShared = 5
  MaxRevision = 2
  MaxSequence = 2
SPECIFICATION MCSpec
SYMMETRY Symmetry
INVARIANTS AttemptsNumbered PinnedBudget AuditChain KeyActsOnce RuntimeEventOnce
PROPERTY OutcomeIsFinal

CONSTANTS
  w1 = w1  w2 = w2  o1 = o1  d1 = d1  p1 = p1  p2 = p2  x1 = x1  x2 = x2
  Job = {1, 2}
  Worker = {w1, w2}
  Owner <- MCOwner
  MaxAttempts = 2
  Nobody = Nobody
  Memory = {1, 2}
  Deletion = {d1}
  None = None
  MaxRevision = 2
  MaxMishaps = 1
  Proposal = {p1, p2}
  Closer = {x1, x2}
  MaxIncidentRevision = 8
  MaxClosures = 2
  MaxSlips = 1
SPECIFICATION MCSpec
INVARIANTS AttemptsTell RecallableIsKept CompletedIsErased ClosedIsGrounded ClosureNotForgotten
PROPERTIES LeaseProtectsHolder DeletedStaysDeleted JobSettles DeletionEnds
CHECK_DEADLOCK FALSE

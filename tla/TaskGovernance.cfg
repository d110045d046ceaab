CONSTANTS
  a = a  b = b  m1 = m1  m2 = m2
  Criterion = {a, b}
  Stages <- Paths
  Document <- Documents
  Commit = {m1, m2}
  MaxEvidence = 2
  MaxVerdicts = 2
SPECIFICATION Spec
SYMMETRY Symmetry
INVARIANTS OneContractInForce VerdictGrounded
PROPERTIES CompletedOnMerit TerminalIsClosed
CHECK_DEADLOCK FALSE

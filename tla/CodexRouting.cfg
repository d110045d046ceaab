CONSTANTS
  a1 = a1  a2 = a2  c1 = c1  c2 = c2  t1 = t1
  Account = {a1, a2}
  Caller = {c1, c2}
  Thread = {t1}
  None = None
  MaxLogins = 3
  MaxRotations = 1
  MaxGeneration = 3
  MaxFailures = 2
  Scenarios = {"refresh", "shared", "outcomes", "refusals", "accounts"}
SPECIFICATION MCSpec
INVARIANTS CredentialIsCurrent GrantPresentedOnce
PROPERTIES SentAsChecked ThreadMovesForCause CallEnds
CHECK_DEADLOCK FALSE

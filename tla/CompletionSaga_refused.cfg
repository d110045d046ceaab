CONSTANTS
  daemon = daemon
  Worker = {daemon}
  Interference = {"supply"}
  MaxVersion = 4
  MaxCrashes = 0
SPECIFICATION SagaSpec
PROPERTY ResumesAfterRefusal
CHECK_DEADLOCK FALSE

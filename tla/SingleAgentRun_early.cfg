CONSTANTS
  MaxAttempts = 1
  MaxFaults = 1
SPECIFICATION Spec
PROPERTY ExecutionsTerminalized
CHECK_DEADLOCK FALSE

SPECIFICATION Spec
CHECK_DEADLOCK FALSE
CONSTANTS
  MaxFailures = 5
  Healthy = 60
  Connects = {0, 1, 10}
INVARIANT EveryOutageBounded

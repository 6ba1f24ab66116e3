SPECIFICATION Spec
CONSTANTS
  MaxVersion = 3
  MaxGen = 1
CHECK_DEADLOCK FALSE
INVARIANT StalledIsTold

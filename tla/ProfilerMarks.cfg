SPECIFICATION Spec
CONSTANTS
  MaxTime = 3
  MaxDepth = 1
  Modulus = 256
PROPERTIES DeltaSincePreviousMark
CHECK_DEADLOCK FALSE

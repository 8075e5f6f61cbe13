SPECIFICATION Spec
CONSTANTS
  Volumes <- AllVolumes
  MaxReplaced = 0
INVARIANTS FastIsInternal
CHECK_DEADLOCK FALSE

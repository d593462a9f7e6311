SPECIFICATION Spec
CONSTANTS
  d1 = d1
  d2 = d2
  Driver <- TwoDrivers
  Slot <- TwoSlots
  Scopes <- TwoOrOverlapping
  MaxInst = 2
  MaxVersion = 1
  MaxFaults = 1
INVARIANTS SystemTypeOK ReadyIsWhole
PROPERTIES HeadNeverGoesBack BecomesCurrent
CHECK_DEADLOCK FALSE

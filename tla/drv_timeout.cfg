SPECIFICATION Spec
CONSTANTS
  s1 = s1
  t1 = t1
  Dsd <- SenseAndStack
  Sense <- OnlySense
  SensePolls = 2
  StackPolls = 4
  SysPolls = 4
INVARIANT SuccessIsCommitted
CHECK_DEADLOCK FALSE

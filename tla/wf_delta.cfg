CONSTANTS
  a1 = a1
  a2 = a2
  a3 = a3
  a4 = a4
  Action = {a1, a2, a3, a4}
  NoAction = NoAction
  NoDelta = NoDelta
  Removers = {a1, a2, a3, a4}
  Plans <- MCPlans
  PollLimit = 3
  TotalLimit = 9
SPECIFICATION DSpec
INVARIANTS InputComplete ResultComplete
PROPERTIES TreeInputsStable
CHECK_DEADLOCK FALSE

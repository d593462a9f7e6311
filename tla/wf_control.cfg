CONSTANTS
  a1 = a1
  a2 = a2
  a3 = a3
  a4 = a4
  Action = {a1, a2, a3, a4}
  NoAction = NoAction
  Plans <- MCPlans
  PollLimit = 2
  TotalLimit = 8
SPECIFICATION Spec
INVARIANTS TypeOK DependencyOrder NothingForgotten ReturnsComplete BudgetBounds SearchAgrees
PROPERTIES KeepsPromise WorkerEnds
CHECK_DEADLOCK FALSE

\* Every well-formed intent of up to six policies, any order of the queue.
SPECIFICATION Spec
CONSTANTS
  p1 = p1
  p2 = p2
  p3 = p3
  p4 = p4
  r1 = r1
  r2 = r2
  thing = thing
  Policy = {p1, p2, p3, p4, r1, r2}
  Other = {thing}
  NoPolicy = NoPolicy
  Intents <- MCIntents
  MaxActions = 12
INVARIANTS CompilerTypeOK ResultIsPlan MirrorsPolicies
PROPERTIES CompileEnds
CHECK_DEADLOCK FALSE

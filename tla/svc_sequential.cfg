CONSTANTS
  r1 = r1
  r2 = r2
  p1 = p1
  p2 = p2
  Caller = {r1}
  Poller = {r1}
  MaxDelta = 3
SPECIFICATION Spec
INVARIANTS StatusIsTrue

CONSTANTS
  r1 = r1
  r2 = r2
  p1 = p1
  p2 = p2
  Caller = {r1}
  Poller = {p1}
  MaxDelta = 2
SPECIFICATION Spec
PROPERTIES CommitIsNoticed

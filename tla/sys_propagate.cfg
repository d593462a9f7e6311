SPECIFICATION Spec
CONSTANTS
  d1 = d1
  d2 = d2
  x = x
  y = y
  z = z
  class = class
  Node <- Nodes
  Driver <- TwoDrivers
  Owner <- Owners
  Topology = class
  Models <- ModelsOfTwo
  Deltas <- SomeDeltas
  MaxVersion = 2
INVARIANTS DeltasFit SaysWhatFollows
CHECK_DEADLOCK FALSE

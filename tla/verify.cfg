SPECIFICATION Spec
CONSTANTS
  v1 = v1
  v2 = v2
  Drone <- TwoDrones
  MaxRuns = 2
  MaxEpoch = 3
  MaxFaults = 1
INVARIANTS VerificationTypeOK RunningHasDrone FailureIsTried VerdictIsEarned RowSurvives
PROPERTY DronesEnd
CHECK_DEADLOCK FALSE

\* Commands, log rows, visualizations and reloads of one page in any order.
SPECIFICATION ReadyFirstSpec
CONSTANTS
  Status <- TwoStates
  READY = READY
  COMMITTED = COMMITTED
  MaxReloads = 1
  MaxRows = 2
  MaxTabs = 2
  MaxFaults = 1
  MaxChanges = 1
INVARIANTS PageTypeOK OneTimer PausedIsBusy
PROPERTIES ButtonsReturn
CHECK_DEADLOCK FALSE

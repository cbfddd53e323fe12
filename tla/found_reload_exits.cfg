SPECIFICATION ObedientSpec
CONSTANTS
  Kids = {k1, k2, k3}
  Lists = {l1, l2}
  MaxSignals = 1
CHECK_DEADLOCK FALSE
PROPERTIES ReloadSurvives

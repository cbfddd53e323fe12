SPECIFICATION FairSpec
CONSTANTS
  Kids = {k1, k2, k3}
  Lists = {l1, l2}
  MaxSignals = 2
CHECK_DEADLOCK FALSE
INVARIANTS TypeOK OneListener ShutdownLeavesNone ChildServesLast
PROPERTIES SignalEnds ListConverges

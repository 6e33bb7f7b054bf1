SPECIFICATION Spec
CONSTANTS
  Keys = {k1, k2, k3, k4}
  Values = {v1, v2}
  MaxEntries = 2
  MaxCalls = 6
  Missing = Missing
INVARIANTS BoundedAndUnambiguous EvictsLeastRecentlyUsed NeverReturnsOverwritten
PROPERTY ImplementsBoundedCache
CHECK_DEADLOCK FALSE

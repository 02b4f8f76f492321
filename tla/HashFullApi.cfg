SPECIFICATION Spec
CONSTANTS
  k1 = k1 k2 = k2 k3 = k3 k4 = k4 k5 = k5 k6 = k6
  Key = {k1, k2, k3, k4}
  Data = {d1}
  NULL = NULL
  Hash <- MCHash
  IncMask = 4
  InitCap = 4
  MaxCap = 8
  Floor <- MCFloor
CHECK_DEADLOCK FALSE
INVARIANTS CountCoversLive
PROPERTIES StoredIsFound

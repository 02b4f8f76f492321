SPECIFICATION GrowOnlySpec
CONSTANTS
  k1 = k1 k2 = k2 k3 = k3 k4 = k4 k5 = k5 k6 = k6
  Key = {k1, k2, k3, k5, k6}
  Data = {d1, d2}
  NULL = NULL
  Hash <- MCHash
  IncMask = 4
  InitCap = 4
  MaxCap = 16
  Floor = 0
INVARIANTS TypeOK NoDuplicateKeys Reachable FindSlotEnds CountExact
PROPERTIES ImplementsDictionary

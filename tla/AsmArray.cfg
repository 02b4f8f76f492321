SPECIFICATION AsmSpec
CONSTANTS
  main = main incl = incl missing = missing a = a b = b
  NONE = NONE
  Programs <- MCPrograms
  Main = main
  FdLimit = 3
  Memory = 4
  Address = {2, 9}
CHECK_DEADLOCK FALSE
INVARIANTS ArrayHasItsSize

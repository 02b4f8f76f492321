SPECIFICATION FairSpec
CONSTANTS
  main = main incl = incl missing = missing
  Programs <- MCPrograms
  Main = main
  FdLimit = 3
INVARIANTS TypeOK FilesClosed LinesRight ResumeBehindDirective
PROPERTIES ImplementsInclusion ScanEnds
CHECK_DEADLOCK FALSE

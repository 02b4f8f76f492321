SPECIFICATION FairSpec
CONSTANTS
  Symbol <- MCSymbol
  NULL = NULL
  NUL = NUL
  Calls <- MCCalls
  ReadNames <- MCReadNames
  EnvMax <- MCEnvMax
  Behind <- MCBehind
CHECK_DEADLOCK FALSE
INVARIANTS MissingArgumentReported

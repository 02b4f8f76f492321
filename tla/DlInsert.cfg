SPECIFICATION LibrarySpec
CONSTANTS
  JUNK = JUNK
  Width = {1, 2}
  Value = {v1, v2}
  CodeCap = 2
  MaxCode = 5
  Raw = {Nul, B}
  Nul = Nul
  Number = {0, 3}
  AsUnsigned <- MCAsUnsigned
  MaxString = 2
  MaxItems = 2
  NUL = NUL
  Char <- MCChar
  Space = {" "}
  Upper <- MCUpper
  Pieces <- MCPieces
  InitCap = 2
  MaxText = 5
  Element = {JUNK, 1, 2}
  Rank <- MCRank
  Source <- MCSource
  Indexes <- MCIndexes
  NewCap = 2
  MinLength <- MCMinLength
  MaxLength = 4
  NULL = NULL
  END = END
  Node = {n1, n2, n3, n4, n5}
PROPERTIES InsertedAfterCurrent
CHECK_DEADLOCK FALSE

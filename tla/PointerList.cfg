SPECIFICATION FairSpec
CONSTANTS
  p = p q = q r = r
  Ptr = {p, q, r}
  NULL = NULL
  JUNK = JUNK
  Rank <- MCRank
  InitCap = 1
  MaxLen = 4
INVARIANTS TypeOK SortedIsInOrder
PROPERTIES FindsWhatIsThere LoopsEnd ImplementsStack

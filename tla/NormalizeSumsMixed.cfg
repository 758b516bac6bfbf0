CONSTANTS
  a = a
  b = b
  None = None
  Streams = {a, b}
  Layouts <- MCLayouts
  StartKnown = {b}
  RawSets <- MCRawSets
  MaxTime = 3
  MaxTotal <- MCTotals
  MaxClosed = 0
SPECIFICATION Spec
INVARIANTS UnsetStartsAccurate

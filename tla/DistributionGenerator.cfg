CONSTANTS
  alpha = alpha
  zeta = zeta
  i1 = i1
  OTelVersions = {v1}
  GoVersions = {g1, g2}
  DistrogenVersions = {d1}
  Binaries = {alpha, zeta}
  None = None
  Empty = Empty
  Garbled = Garbled
  Inputs = {i1, i2, Broken}
  Broken = Broken
  Customs = {}
  CustomOf <- MCCustomOf
  Rank <- MCRank
SPECIFICATION Spec
INVARIANTS SuccessMeansGenerated CompareAfterGenerate ToolsOfSpec

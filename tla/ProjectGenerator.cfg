CONSTANTS
  OTelVersions = {v1, v2}
  GoVersions = {g1}
  DistrogenVersions = {d1, d2}
  Binaries = {alpha}
  None = None
  Empty = Empty
  Garbled = Garbled
  Components = {c1, c2}
  Identifiers = {hotfix, gke, dotted}
  Default = hotfix
  Dotted = {dotted}
  NoIdentifier = NoIdentifier
  Malformed = Malformed
  MaxMinor = 1
  MaxPatch = 3
  MaxCounter = 2
SPECIFICATION MCSpec
INVARIANTS KnownToolsAreCurrent ComponentsKept
PROPERTIES BumpIncreases NeverReissued

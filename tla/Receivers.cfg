CONSTANTS
  Versions = {26, 44}
  Databases = {d1, d2}
  Collections = {c1}
  NoResource = NoResource
  Values <- MCValues
  MaxValue = 2
  MaxTime = 3
  Receivers = {r1, r2}
  DeviceCount = 2
  Accounting = {2}
  Kept = 1
  LastTick = 2
  MaxReloads = 1
SPECIFICATION MCSpec
INVARIANTS MisplacedOnlyAfterFailure CleanScrapeComplete NothingCarriedOver NothingMerged EmittedIsAggregate EverySampleOnce LibraryUntilFirstStop
PROPERTY SumsDropOnlyAtSwitch
CHECK_DEADLOCK FALSE

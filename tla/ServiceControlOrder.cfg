CONSTANTS
  Streams = {cpu, disk}
  Consumers = {k1, k2}
  QueueSize = 1
  Timeout = 3
  LogTimeout = 1
  Backoff = 1
  ScrapeInterval = 9
  Offsets = {0, 3}
  MaxBatches = 2
  NoBatch = NoBatch
  Batches <- MCBatches
  ConsumerProject = consumer0
  consumerX = consumerX
  nameX = nameX
  textX = textX
  DefaultLogName = Blank
  Blank = Blank
  NoName = NoName
  MaxEntrySize = 4
  MaxInt64 = 7
  StartedAt = 2
  Second = 1
  MaxTime = 6
  MaxAttempts = 2
SPECIFICATION MCSpec
INVARIANT Chronological
CHECK_DEADLOCK FALSE

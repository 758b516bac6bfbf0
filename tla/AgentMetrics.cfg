CONSTANTS
  None = None
  CPUSteps <- MCCPUSteps
  DiskSteps <- MCDiskSteps
  Processes = {"p1", "p2"}
  BlankLabelMetrics = {"system.cpu.time", "process.disk.read_io"}
  Scale = 12
  MaxBatches = 3
SPECIFICATION Spec
CHECK_DEADLOCK FALSE
INVARIANTS EveryPointOnce NoSeriesTwice UtilizationSinceLastBatch AverageIsIntegral

----------------------------- MODULE NvmlMetrics ------------------------------
(***************************************************************************)
(* The metrics that the metadata package of the nvml receiver              *)
(* declares.  A row stands for the generated type of a metric: its init,   *)
(* recordDataPoint, emit and constructor are one template, which the       *)
(* module MetricsBuilder has once for all rows.                            *)
(***************************************************************************)
EXTENDS MetricTypes

AttributeMemoryState == {"used", "free"}

metricNvmlGpuMemoryBytesUsed ==
  Gauge("nvml.gpu.memory.bytes_used", "Int",
    {"model", "gpu_number", "uuid", "memory_state"})
metricNvmlGpuProcessesMaxBytesUsed ==
  Gauge("nvml.gpu.processes.max_bytes_used", "Int",
    {"model", "gpu_number", "uuid", "pid", "process", "command",
     "command_line", "owner"})
metricNvmlGpuProcessesUtilization ==
  Gauge("nvml.gpu.processes.utilization", "Double",
    {"model", "gpu_number", "uuid", "pid", "process", "command",
     "command_line", "owner"})
metricNvmlGpuUtilization ==
  Gauge("nvml.gpu.utilization", "Double", {"model", "gpu_number", "uuid"})

NvmlMetricsInfo ==
  {metricNvmlGpuMemoryBytesUsed, metricNvmlGpuProcessesMaxBytesUsed,
   metricNvmlGpuProcessesUtilization, metricNvmlGpuUtilization}

NvmlDefaultMetricsConfig == [m \in NvmlMetricsInfo |-> DefaultConfig(m, TRUE)]
===============================================================================

----------------------------- MODULE DcgmMetrics ------------------------------
(***************************************************************************)
(* The metrics that the metadata package of the dcgm receiver              *)
(* declares.  A row stands for the generated type of a metric: its init,   *)
(* recordDataPoint, emit and constructor are one template, which the       *)
(* module MetricsBuilder has once for all rows.                            *)
(***************************************************************************)
EXTENDS MetricTypes

AttributeGpuClockViolation ==
  {"power", "thermal", "sync_boost", "board_limit", "low_util",
   "reliability", "app_clock", "base_clock"}
AttributeGpuErrorType == {"sbe", "dbe"}
AttributeGpuMemoryState == {"used", "free", "reserved"}
AttributeGpuPipe == {"tensor", "fp64", "fp32", "fp16"}
AttributeNetworkIoDirection == {"transmit", "receive"}

metricGpuDcgmClockFrequency == Gauge("gpu.dcgm.clock.frequency", "Double", {})
metricGpuDcgmClockThrottleDurationTime ==
  Counter("gpu.dcgm.clock.throttle_duration.time", "Double",
    {"gpu.clock.violation"})
metricGpuDcgmCodecDecoderUtilization ==
  Gauge("gpu.dcgm.codec.decoder.utilization", "Double", {})
metricGpuDcgmCodecEncoderUtilization ==
  Gauge("gpu.dcgm.codec.encoder.utilization", "Double", {})
metricGpuDcgmEccErrors ==
  Counter("gpu.dcgm.ecc_errors", "Int", {"gpu.error.type"})
metricGpuDcgmEnergyConsumption ==
  Counter("gpu.dcgm.energy_consumption", "Double", {})
metricGpuDcgmMemoryBandwidthUtilization ==
  Gauge("gpu.dcgm.memory.bandwidth_utilization", "Double", {})
metricGpuDcgmMemoryBytesUsed ==
  Gauge("gpu.dcgm.memory.bytes_used", "Int", {"gpu.memory.state"})
metricGpuDcgmNvlinkIo ==
  Counter("gpu.dcgm.nvlink.io", "Int", {"network.io.direction"})
metricGpuDcgmPcieIo ==
  Counter("gpu.dcgm.pcie.io", "Int", {"network.io.direction"})
metricGpuDcgmPipeUtilization ==
  Gauge("gpu.dcgm.pipe.utilization", "Double", {"gpu.pipe"})
metricGpuDcgmSmOccupancy == Gauge("gpu.dcgm.sm.occupancy", "Double", {})
metricGpuDcgmSmUtilization == Gauge("gpu.dcgm.sm.utilization", "Double", {})
metricGpuDcgmTemperature == Gauge("gpu.dcgm.temperature", "Double", {})
metricGpuDcgmUtilization == Gauge("gpu.dcgm.utilization", "Double", {})
metricGpuDcgmXidErrors ==
  Counter("gpu.dcgm.xid_errors", "Int", {"gpu.error.xid"})

DcgmMetricsInfo ==
  {metricGpuDcgmClockFrequency, metricGpuDcgmClockThrottleDurationTime,
   metricGpuDcgmCodecDecoderUtilization,
   metricGpuDcgmCodecEncoderUtilization, metricGpuDcgmEccErrors,
   metricGpuDcgmEnergyConsumption, metricGpuDcgmMemoryBandwidthUtilization,
   metricGpuDcgmMemoryBytesUsed, metricGpuDcgmNvlinkIo, metricGpuDcgmPcieIo,
   metricGpuDcgmPipeUtilization, metricGpuDcgmSmOccupancy,
   metricGpuDcgmSmUtilization, metricGpuDcgmTemperature,
   metricGpuDcgmUtilization, metricGpuDcgmXidErrors}

DcgmDefaultMetricsConfig ==
  [m \in DcgmMetricsInfo |->
     DefaultConfig(m, m \notin {metricGpuDcgmSmOccupancy, metricGpuDcgmXidErrors})]
===============================================================================

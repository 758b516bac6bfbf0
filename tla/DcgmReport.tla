------------------------------ MODULE DcgmReport ------------------------------
(***************************************************************************)
(* What the dcgm receiver reports for one GPU (scraper.go): the fields it  *)
(* asks DCGM for, given the metrics that are enabled, and the metrics that *)
(* scrape makes of the fields that have values; for three of them another  *)
(* field stands in.  The model follows one record call of scrape and the   *)
(* fields behind it.  How exactly a field is accumulated is the subject of *)
(* DcgmStats: here it is over whole ticks of the clock.  Every field counts*)
(* in the unit of its metric, and the driver's counters do not fall.       *)
(***************************************************************************)
EXTENDS Integers, Sequences, FiniteSets, FiniteSetsExt, DcgmMetrics

CONSTANTS
  MaxValue,  \* bound on the value of a field
  MaxTime    \* bound on the clock

(* A field of DCGM.  Fields of one family are told apart by the value of   *)
(* the attribute that they become.                                         *)
Field(family)         == <<family, "">>
Member(family, which) == <<family, which>>

(* The profiling fields, which not every GPU has (filterSupportedFields).  *)
ProfilingFamilies ==
  {"GR_ENGINE_ACTIVE", "SM_ACTIVE", "SM_OCCUPANCY", "PIPE_ACTIVE", "DRAM_ACTIVE",
   "PCIE_BYTES", "NVLINK_BYTES"}

(* discoverRequestedFields, for a metric that is enabled.                  *)
RequestedFields(m) ==
  CASE m = metricGpuDcgmUtilization -> {Field("GR_ENGINE_ACTIVE"), Field("GPU_UTIL")}
    [] m = metricGpuDcgmSmUtilization -> {Field("SM_ACTIVE")}
    [] m = metricGpuDcgmSmOccupancy -> {Field("SM_OCCUPANCY")}
    [] m = metricGpuDcgmPipeUtilization ->
         {Member("PIPE_ACTIVE", w) : w \in {"tensor", "fp64", "fp32", "fp16"}}
    [] m = metricGpuDcgmCodecEncoderUtilization -> {Field("ENC_UTIL")}
    [] m = metricGpuDcgmCodecDecoderUtilization -> {Field("DEC_UTIL")}
    [] m = metricGpuDcgmMemoryBytesUsed ->
         {Member("FB", w) : w \in {"free", "used", "reserved"}}
    [] m = metricGpuDcgmMemoryBandwidthUtilization ->
         {Field("DRAM_ACTIVE"), Field("MEM_COPY_UTIL")}
    [] m = metricGpuDcgmPcieIo -> {Member("PCIE_BYTES", w) : w \in {"transmit", "receive"}}
    [] m = metricGpuDcgmNvlinkIo ->
         {Member("NVLINK_BYTES", w) : w \in {"transmit", "receive"}}
    [] m = metricGpuDcgmEnergyConsumption ->
         {Field("TOTAL_ENERGY_CONSUMPTION"), Field("POWER_USAGE")}
    [] m = metricGpuDcgmTemperature -> {Field("GPU_TEMP")}
    [] m = metricGpuDcgmClockFrequency -> {Field("SM_CLOCK")}
    [] m = metricGpuDcgmClockThrottleDurationTime ->
         {Member("VIOLATION", w) :
            w \in {"power", "thermal", "sync_boost", "board_limit", "low_util",
                   "reliability", "app_clock", "base_clock"}}
    [] m = metricGpuDcgmEccErrors -> {Member("ECC_VOL_TOTAL", w) : w \in {"sbe", "dbe"}}
    [] m = metricGpuDcgmXidErrors -> {}

-----------------------------------------------------------------------------
(* A record call of scrape: the metric, its attribute, and where the value *)
(* comes from, the fallback second.                                        *)
LastValue(field)       == [read |-> "last", field |-> field]
IntegratedRate(field)  == [read |-> "rate", field |-> field]
CumulativeTotal(field) == [read |-> "total", field |-> field]

Call(metric, attribute, sources) ==
  [metric |-> metric, attribute |-> attribute, sources |-> sources]

UtilizationCalls ==
  {Call(metricGpuDcgmUtilization, "",
        <<LastValue(Field("GR_ENGINE_ACTIVE")), LastValue(Field("GPU_UTIL"))>>),
   Call(metricGpuDcgmSmUtilization, "", <<LastValue(Field("SM_ACTIVE"))>>),
   Call(metricGpuDcgmSmOccupancy, "", <<LastValue(Field("SM_OCCUPANCY"))>>),
   Call(metricGpuDcgmCodecEncoderUtilization, "", <<LastValue(Field("ENC_UTIL"))>>),
   Call(metricGpuDcgmCodecDecoderUtilization, "", <<LastValue(Field("DEC_UTIL"))>>)}
    \cup {Call(metricGpuDcgmPipeUtilization, w, <<LastValue(Member("PIPE_ACTIVE", w))>>) :
            w \in AttributeGpuPipe}

MemoryCalls ==
  {Call(metricGpuDcgmMemoryBytesUsed, w, <<LastValue(Member("FB", w))>>) :
     w \in AttributeGpuMemoryState}
    \cup {Call(metricGpuDcgmMemoryBandwidthUtilization, "",
               <<LastValue(Field("DRAM_ACTIVE")), LastValue(Field("MEM_COPY_UTIL"))>>)}

IoCalls ==
  {Call(metricGpuDcgmPcieIo, w, <<IntegratedRate(Member("PCIE_BYTES", w))>>) :
     w \in AttributeNetworkIoDirection}
    \cup {Call(metricGpuDcgmNvlinkIo, w, <<IntegratedRate(Member("NVLINK_BYTES", w))>>) :
            w \in AttributeNetworkIoDirection}

PowerCalls ==
  {Call(metricGpuDcgmEnergyConsumption, "",
        <<CumulativeTotal(Field("TOTAL_ENERGY_CONSUMPTION")),
          IntegratedRate(Field("POWER_USAGE"))>>),
   Call(metricGpuDcgmTemperature, "", <<LastValue(Field("GPU_TEMP"))>>),
   Call(metricGpuDcgmClockFrequency, "", <<LastValue(Field("SM_CLOCK"))>>)}

ViolationCalls ==
  {Call(metricGpuDcgmClockThrottleDurationTime, w, <<CumulativeTotal(Member("VIOLATION", w))>>) :
     w \in AttributeGpuClockViolation}

EccCalls ==
  {Call(metricGpuDcgmEccErrors, w, <<CumulativeTotal(Member("ECC_VOL_TOTAL", w))>>) :
     w \in AttributeGpuErrorType}

Calls ==
  UtilizationCalls \cup MemoryCalls \cup IoCalls \cup PowerCalls \cup ViolationCalls \cup EccCalls

-----------------------------------------------------------------------------
VARIABLES
  call,       \* the record call
  enabled,    \* its metric is enabled
  profiling,  \* the GPU has the profiling fields
  now,        \* the clock
  stats,      \* the metricStats of the fields that have had a value
  report      \* what the last scrape recorded

vars == <<call, enabled, profiling, now, stats, report>>

Sources == {call.sources[i] : i \in 1 .. Len(call.sources)}
Fields  == {s.field : s \in Sources}

(* The fields that are watched: requested, and supported.                  *)
EnabledFields ==
  {f \in IF enabled THEN RequestedFields(call.metric) ELSE {} :
     f[1] \in ProfilingFamilies => profiling}

NothingReported == [source |-> 0, value |-> 0, had |-> {}]

Init ==
  /\ call \in Calls
  /\ enabled \in BOOLEAN
  /\ profiling \in BOOLEAN
  /\ now = 0
  /\ stats = <<>>
  /\ report = NothingReported

Tick ==
  /\ now < MaxTime
  /\ now' = now + 1
  /\ UNCHANGED <<call, enabled, profiling, stats, report>>

(* collect and Update: a field has its first value at any time, blank      *)
(* values before it are passed over.                                       *)
Update(f, val) ==
  IF f \notin DOMAIN stats
    THEN [ts |-> now, last |-> val, first |-> val, rate |-> 0]
    ELSE [stats[f] EXCEPT !.ts = now, !.last = val,
                          !.rate = @ + (now - stats[f].ts) * val]

Sample(f, val) ==
  /\ f \in DOMAIN stats => stats[f].ts < now
  /\ CumulativeTotal(f) \in Sources /\ f \in DOMAIN stats => val >= stats[f].last
  /\ stats' = [g \in DOMAIN stats \cup {f} |-> IF g = f THEN Update(f, val) ELSE stats[g]]
  /\ UNCHANGED <<call, enabled, profiling, now, report>>

Value(s) ==
  CASE s.read = "last"  -> stats[s.field].last
    [] s.read = "rate"  -> stats[s.field].rate
    [] s.read = "total" -> stats[s.field].last - stats[s.field].first

(* A slip for the mutation runs: a zero is taken for no value.             *)
NonZeroSources ==
  {i \in 1 .. Len(call.sources) :
     call.sources[i].field \in DOMAIN stats /\ Value(call.sources[i]) # 0}

(* The sources that have a value; the first of them is used.               *)
AvailableSources ==
  {i \in 1 .. Len(call.sources) : call.sources[i].field \in DOMAIN stats}

(* scrape: a metric without a value, or disabled, is not recorded.         *)
Scrape ==
  /\ report' = IF AvailableSources = {} \/ ~ enabled THEN NothingReported
               ELSE LET i == Min(AvailableSources)
                    IN [source |-> i, value |-> Value(call.sources[i]), had |-> DOMAIN stats]
  /\ UNCHANGED <<call, enabled, profiling, now, stats>>

Next ==
  \/ Tick
  \/ \E f \in EnabledFields \cap Fields, val \in 0 .. MaxValue : Sample(f, val)
  \/ Scrape

Spec == Init /\ [][Next]_vars
-----------------------------------------------------------------------------
(* No two calls record the same series of a GPU, and scrape reads exactly  *)
(* the fields that are requested for a metric (scraper.go:110-181 against  *)
(* 260-365).                                                               *)
SeriesDistinct ==
  /\ \A c \in Calls \ {call} :
       <<c.metric, c.attribute>> # <<call.metric, call.attribute>>
  /\ enabled => Fields \subseteq RequestedFields(call.metric)
  /\ \A f \in RequestedFields(call.metric) :
       \E c \in Calls : /\ c.metric = call.metric
                        /\ \E i \in 1 .. Len(c.sources) : c.sources[i].field = f

(* What is reported as a monotonic sum drops in one case only: the fallback*)
(* was reported because the field itself had not had a value, and now it   *)
(* has (scraper.go:321-329).  Then the energy starts again from zero under *)
(* the same start time.                                                    *)
SumsDropOnlyAtSwitch ==
  [][call.metric.monotonic /\ report.source # 0 /\ report'.value < report.value =>
       report.source = 2 /\ call.sources[1].field \notin report.had]_vars
=============================================================================

----------------------------- MODULE MCReceivers -----------------------------
(***************************************************************************)
(* What the receivers report, five models that share the metric tables, in *)
(* one run: a behaviour is one of the mongodb scraper, of the varnish      *)
(* scraper, of the record calls of the dcgm scraper, of the nvml receivers *)
(* or of the metrics builder below them all, and the other four stay as    *)
(* they start.                                                             *)
(***************************************************************************)
EXTENDS MongoScraper, Sequences, VarnishMetrics, DcgmMetrics

CONSTANTS
  Values,             \* of MetricsBuilder
  MaxValue, MaxTime,  \* of DcgmReport
  Receivers, DeviceCount, Accounting, Kept, LastTick, MaxReloads  \* of NvmlReceiver

ASSUME KeptAssumption == Kept \in Nat

ASSUME ValuesAssumption == Values \in Seq(Int)

VARIABLES
  scenario,                                       \* which of the five
  cacheDir, metrics, mbConfig, started, cacheName, result,
  call, enabled, profiling, now, stats, report,
  clock, samples, nvmlInitReturn, library, phase, nvmlClient, reported, averaged,
  forgotten, again, reloads, shutDown,
  metric, varied, config, data, aggDataPoints, metricsBuffer, returned, points,
  taken

varnishVars == <<cacheDir, metrics, mbConfig, started, cacheName, result>>
dcgmVars    == <<call, enabled, profiling, now, stats, report>>
nvmlVars    == <<clock, samples, nvmlInitReturn, library, phase, nvmlClient, reported,
                 averaged, forgotten, again, reloads, shutDown>>
builderVars == <<metric, varied, config, data, aggDataPoints, metricsBuffer,
                 returned, points, taken>>

Varnish == INSTANCE VarnishScraper
Dcgm    == INSTANCE DcgmReport
Nvml    == INSTANCE NvmlReceiver WITH client <- nvmlClient
Builder == INSTANCE MetricsBuilder WITH recorded <- points

(* Three readings, neither rising nor falling.                             *)
MCValues == <<2, 1, 4>>

Scenarios == {"mongodb", "varnish", "dcgm", "nvml", "builder"}

(* What stays as it starts has one way to start.                           *)
Quiet ==
  /\ IF scenario = "varnish" THEN TRUE
     ELSE cacheDir = TRUE /\ metrics = VarnishDefaultMetricsConfig
  /\ IF scenario = "dcgm" THEN TRUE
     ELSE /\ call \in {c \in Dcgm!PowerCalls : c.metric = metricGpuDcgmTemperature}
          /\ enabled = TRUE /\ profiling = TRUE
  /\ IF scenario = "builder" THEN TRUE
     ELSE /\ metric = metricMongodbDatabaseCount
          /\ config = DefaultConfig(metric, TRUE)

MCInit ==
  /\ scenario \in Scenarios
  /\ Quiet
  /\ Init /\ Varnish!Init /\ Dcgm!Init /\ Nvml!Init /\ Builder!Init

MCNext ==
  \/ /\ scenario = "mongodb" /\ Next
     /\ UNCHANGED <<scenario, varnishVars, dcgmVars, nvmlVars, builderVars>>
  \/ /\ scenario = "varnish" /\ Varnish!Next
     /\ UNCHANGED <<scenario, vars, dcgmVars, nvmlVars, builderVars>>
  \/ /\ scenario = "dcgm" /\ Dcgm!Next
     /\ UNCHANGED <<scenario, vars, varnishVars, nvmlVars, builderVars>>
  \/ /\ scenario = "nvml" /\ Nvml!Next
     /\ UNCHANGED <<scenario, vars, varnishVars, dcgmVars, builderVars>>
  \/ /\ scenario = "builder" /\ Builder!Next
     /\ UNCHANGED <<scenario, vars, varnishVars, dcgmVars, nvmlVars>>

MCSpec ==
  MCInit /\ [][MCNext]_<<scenario, vars, varnishVars, dcgmVars, nvmlVars, builderVars>>
-----------------------------------------------------------------------------
(* The three receivers never record two readings for one series of one     *)
(* scrape: the builder would add the two up, or average them, and nobody   *)
(* could tell (mongodbreceiver/metrics.go, varnishreceiver/metrics.go:109, *)
(* dcgmreceiver/scraper.go:254).                                           *)
NothingMerged ==
  /\ scenario = "mongodb" => SeriesDistinct
  /\ scenario = "varnish" => Varnish!SeriesDistinct
  /\ scenario = "dcgm"    => Dcgm!SeriesDistinct

(* MetricsBuilder's: what is emitted is what was recorded since the last   *)
(* emit, combined per series as configured (generated_metrics.go of the    *)
(* four receivers, recordDataPoint and emit).                              *)
EmittedIsAggregate == scenario = "builder" => Builder!EmittedIsAggregate

(* DcgmReport's: a monotonic sum drops only when the field takes over from *)
(* its fallback (dcgmreceiver/scraper.go:321-329).                         *)
SumsDropOnlyAtSwitch == Dcgm!SumsDropOnlyAtSwitch

(* NvmlReceiver's: every sample is averaged once, under the labels of its  *)
(* device (nvmlreceiver/client.go:290-322 and 173-197).                    *)
EverySampleOnce == scenario = "nvml" => Nvml!EverySampleOnce

(* NvmlReceiver's: the library is there exactly until the first client     *)
(* stops (nvmlreceiver/client.go:65-72 and 130-138).                       *)
LibraryUntilFirstStop == Nvml!LibraryUntilFirstStop
=============================================================================

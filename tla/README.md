# A verification development for opentelemetry-operations-collector

TLA+ models of the components this repository adds to the OpenTelemetry
Collector, TLC configurations that check them on small instances, and proofs,
checked by TLAPS, of what holds for every instance.  Paths are relative to the
repository; `GBO` stands for `components/google-built-opentelemetry-collector`
and `OPS` for `components/otelopscol`.

Contents: [1 the system](#1-the-system), [2 plan](#2-plan),
[3 the models](#3-the-models), [4 runs and bounds](#4-runs-and-bounds),
[5 fairness](#5-fairness), [6 proofs](#6-proofs),
[7 where code and documentation disagree](#7-where-code-and-documentation-disagree),
[8 assumptions about what is outside](#8-assumptions-about-what-is-outside),
[9 what is not modelled](#9-what-is-not-modelled).

To check a module: `tlc -workers 2 -config X.cfg M`.  To check a proof:
`tlapm MProofs.tla`.

## 1. The system

The repository builds two collector distributions from upstream components and
from its own.  The collector calls each component from its own goroutines: a
receiver's controller calls `scrape` at intervals, a pipeline calls
`ProcessMetrics` in the goroutine of the receiver, an exporter helper takes
requests from a queue and calls `ConsumeMetrics` from several goroutines, and
the host passes status events to extensions.  `distrogen` runs at build time.

| component | state it keeps | operations | what is hard | what makes it correct |
|---|---|---|---|---|
| normalizesums processor, `OPS/processor/normalizesumsprocessor` | `history`: start point and last point per stream, never removed | `ProcessMetrics`, per data point one of four outcomes | counters that restart, clocks that go back, one metric with several streams, a map without a mutex | what a consumer adds up is never more than what was counted; intervals are well formed; a reset only after a restart |
| healthagent extension, `GBO/extension/healthagent` | `isReady`, `lastOK`, `lastError`, the gRPC server | `ComponentStatusChanged`, `Ready`, `NotReady`, `Start`, `Shutdown`, `GetHealth` | events of many components, late and out of order; the error window | the answer from two timestamps is the answer from the whole history |
| googleservicecontrol exporter, `GBO/exporter/googleservicecontrolexporter` | `client`, `lastStatus`, `debugHeaderExpirationTime`, each under its own mutex; a queue with retries around it | `ConsumeMetrics`, `ConsumeLogs` (both build operations and call `pushReportRequest`), `Shutdown` | ten consumers at once, state read under one lock and used after it, retries that overlap, a timeout against a late answer, points without a start | the debug header is sent in the windows that failures open; the host learns the status; chronological order; every batch is settled; a report is one that the API takes |
| dcgm receiver, `OPS/receiver/dcgmreceiver` | goroutine with the DCGM client, two channels; per device and field the last value, an integrated rate and a total | `start`, `stop`, `scrape`; connect loop, poll loop, `collect`, `Update` | an unbuffered channel between two selects, a daemon that comes and goes, samples that come twice or not at all | scrapes and stop return; one connection; the rate is the integral of the source |
| nvml receiver, `OPS/receiver/nvmlreceiver` | a process-wide `sync.Once`, device handles, the time of the last sample seen | `start`, `scrape`, `stop` | init once per process against many receivers, reloads; devices and queries that fail | every sample is averaged once, under the labels of its device |
| agentmetrics processor, `OPS/processor/agentmetricsprocessor` | CPU times and disk operations of the last batch | `ProcessMetrics`, eight passes | a pass that fails after others have moved the state; devices that come and go; processes that lose their resources | no point lost, doubled or merged; utilisations and averages over the time since the last batch |
| casttosum processor, `OPS/processor/casttosumprocessor` | none | `ProcessMetrics` | order relative to normalizesums | a listed gauge becomes a cumulative monotonic sum |
| mongodb receiver, `OPS/receiver/mongodbreceiver` | metrics builder, client | `start`, `scrape`, `shutdown`, a dozen record functions | one of several queries fails with points already in the builder; keys that depend on the version | every point is emitted under its own database, every reading in a series of its own |
| varnish receiver, `OPS/receiver/varnishreceiver` | the configuration and the name of the cache | `start`, `scrape` | a command that fails or leaves counters out | every counter in a series of its own; what is disabled is not reported |
| generated metadata, `OPS/receiver/*/internal/metadata` | data points, counts of merged points, buffer of resources | `recordDataPoint`, `emit`, `EmitForResource`, `Emit` | points merged when attributes are disabled, averages that need a count | what is emitted is the configured aggregate of what was recorded since the last emit |
| oauth2clientauth extension, `GBO/extension/oauth2clientauthextension` | a cached token with expiry | `Token`, for two grant types | expiry with jitter, files replaced while read | no expired token is used; one exchange per expiry |
| distrogen, `cmd/distrogen` | files: spec, registries, the generated directory and the spec stored in it | `generate`, `compare`, `bump`, project and component commands | crash between file operations, cache of the spec, merge order of registries | generated files and stored spec agree; no generation without a change |
| ottl functions, `internal/ottlfuncs` | none | string functions | none here: the work is in a C library | |
| integration tests and tools, `integration_test`, `internal/tools` | cloud VMs | command-line tools | not part of the collector | |

How they interact: the exporter (1) sends a request, (2) classifies the answer,
(3) stamps a status event, (4) reports it to the host, which (5) passes it to
the healthagent, which (6) answers `GetHealth` from it.  normalizesums follows
casttosum in a pipeline, and both feed an exporter.  The dcgm receiver's connect
loop talks to its controller over `metricsCh` and `collectTriggerCh`, and folds
what `collect` returns into the metrics it hands over.  All four receivers record
into a metrics builder generated from the same template.  The nvml receivers of
a process share one initialisation of the NVML library.

The hazards of this code, each at its line, with the properties that would
catch it, are in `PROJECT.json` under `hazards`.

## 2. Plan

All parts of the first plan that keep state or interact are modelled:
normalisation first, because it changes the meaning of data, then health
reporting, the goroutines and numbers of the dcgm receiver, distrogen, the queue
and the reports of the exporter, agentmetrics, the receivers and the builder below
them.  Two modules of the first plan were given up: a token cache, since the cache
is `golang.org/x/oauth2`'s and the repository only sets an expiry, and casttosum,
which is one case distinction without state.

Every safety property of a passing run is proved.  What is left is what section 6
calls only model-checked, and the parts of section 9.

The project keeps to few runs, so that all of them are run after every change.
Hence runs in which a variable that never changes (`scenario`, `building`,
`bumping`, `counting`, `forward`, `raw`) says which of several independent models a behaviour is of.

## 3. The models

Common conventions.  One variable per field of the Go structure, under its name
where TLA+ allows, and *history variables*, which no action of the code's side
reads; each module says which.  A mutex that guards a block makes the block one
action; what lies between two critical sections of a function is two actions.
A module also holds a few *slips*: definitions that are one plausible mistake
away from the one that follows them (`NeverStale` for `Stale`).  The
specification does not use them.  Put in the place of the definition, each makes
a property fail, which shows that the property depends on that line of the code;
`PROJECT.json` lists the pairs under `mutants`.

### `NormalizeSums` (`processor.go` of the normalizesums processor)

A source counts (`Count`), restarts (`Restart`) and is scraped by a clock that
ticks (`Tick`) or is set back (`ClockStep`).  A scrape is a metric with one data
point per stream in one of the orders `Layouts`.  `PassThrough` is the metric
`processMetric` leaves alone because its first point has a start (`processor.go:84-90`):
all its points go on as they came, those of streams without a start too, and the
consumer takes them for what they look like.  `PassOther` is the metric that is no
monotonic sum or has no points; `BeginMetric`, one of
`StartHistory`, `DropOlder`, `Reset`, `Emit` per data point, and `EndMetric` are
the loop of `processMetric` with `processSumDataPoint` (95-104, 106-159).  The points are visited one at
a time so that the source may count and restart meanwhile.  `history` is the
map; `sent`, `closed` and the field `base` of a sample are history variables:
what a consumer received, what it added up, what the source had counted before
it restarted.

`raw`, chosen at the start and never changed, has the streams that may come in such a
metric.  With a stream in it, anything may happen to what a consumer adds up (section
7); the two properties on the consumer are about the others, in whatever company they
come.

- `NoOverReport`: what the consumer adds up is at most what the source counted, of a
  stream that is always normalised.
- `IntervalsForward`: a normalised point ends after it starts, even if the clock went
  back; of every stream.
- `ResetOnlyAfterRestart` (action property): the start point moves only if the source did restart.
- `DownstreamSpec`: `CumulativeStreams` is implemented by the streams that are always
  normalised, if the clock does not go back.  If it does, intervals may overlap.
  `forward`, which never changes, says of a behaviour whether `ClockStep` may happen in
  it; the refinement mapping maps the other behaviours, and the streams of `raw`, to a
  consumer that gets nothing.

### `HealthAgent` (`healthagent.go`, `healthagentserver.go`), `HealthConfig`

One action per method; `updateStatus` is the operator `Updated`, `isHealthy` the
operator of that name with the early returns in their order.  `received`, a
history variable, holds every timestamp ever delivered.  Events are delivered
with any timestamp up to now, in any order.  `HealthIsPromised` compares
`GetHealth` with the documented rule applied to all of `received`; `KeepsNewest`
is the reason why it holds.  `HealthConfig` has the settings that the three
modules of health reporting share.

### `ServiceControlExporter` (`exporter.go:103-255`)

`Workers` run `pushReportRequest` at once: `Send` (the header decided under
`debugHeaderMutex`, 213-221), `Answer` (223-252, the event is created here),
`ReportStatus` (under `statusMu`, 202-209) and `ExtendDebug` (under
`debugHeaderMutex`, 231-238).  History variables: `sentAt` and `failures`.
`DebugHeaderJustified`: no header without a recent failure.
`DebugHeaderNotLost`: no request in a failure's window goes without one, except
after an older window closed in between, for an open window is not extended.

### `HealthReporting`: exporter, host and agent

`INSTANCE` of the two, on one clock.  `ReportStatus` is the exporter's action
together with the delivery to the agent.  `ErrorShown` says that the collector is
unhealthy while the exporter's status is an error.  With two goroutines it fails
(section 7): they may report in another order than they stamped.  `crossed`, a
history variable, becomes true when two goroutines have an answer to report at the
same time.  As long as it is false, `ErrorShownInTurn` and `RecoveryShownInTurn`
hold: the health follows the status into an error and out of it.  The properties
of the two parts are also checked, and proved, of the composition.

### `ServiceControlQueue` (`factory.go`, `config.go`, `client.go`)

Receivers (`Streams`) make a batch every `ScrapeInterval`; a queue of bounded size
takes it or refuses it; consumers take batches and make attempts, each of which is
accepted, fails for good, fails for now, or runs into its deadline; a failed attempt
waits for the backoff and is repeated as long as `MaxElapsedTime` has not passed
(`createDefaultConfig`, 77-124).  Logs are not repeated (83-84).  `Create` is
`createClient` with its validation and its kinds of credentials.  `Stop` and
`Shutdown` drain the queue and then close the client.  The queue and the retry sender
are exporterhelper's and are modelled from the settings that `factory.go` gives them.

- `Chronological`: no metric of a receiver is sent before the one before it is
  received or dropped, as the comment at `factory.go:102-106` wants.
- `EveryBatchSettled` (liveness): whatever the service answers, or if it never
  does, each batch is accepted or dropped.

### `ServiceControlReport` (`exporter.go:257-560`, `logs.go`)

What one batch becomes: an operation per metric, with intervals (`getStartIfUnset`,
`getStartEndTimes`), labels and consumers, distributions with counts capped to
64 bits (`toInt64Slice`), or an operation per resource of logs, with name, time,
severity and payload of each entry (`parseLogEntry`).  A batch is handed over again
for a retry at another time.

- `IntervalsFitAPI`: a gauge has a point in time, a sum or a histogram an interval
  that starts before it ends, and an operation covers the starts of its values,
  whichever points have one.  Two kinds of interval do not fit, and the property names
  them: a start after the end that came so, and the exporter's start for a cumulative
  point without one that ended by then (`exporter.go:385`, section 7).
- `DistributionFitsAPI`: no negative counts, and they add up to the total while
  that is a 64-bit number; no mean without values.
- `LogEntriesFaithful`: one entry per record, in order, with a time, a payload if there
  is a body, and a name.  The name is empty only if the record has an empty `log_name`,
  which `getLogName` takes (`logs.go:241-244`); a record that nobody names is an error.

### `AgentMetrics` (`agentmetricsprocessor.go` and the `utils_*` files)

`ProcessMetrics` runs its eight passes, each an operator on a batch: gauges from
non-monotonic sums, the version attribute removed, processes combined, read and
write split, utilisations, CPU labels, average disk operation times, blank labels.
A batch is a scrape of a host with two CPUs, a disk that may be missing, and two
processes; `Faults` puts an attribute into it that makes one pass fail, or leaves the
host's resources out, at which `combineProcessMetrics` panics.
`newAgentMetricsProcessor` is a restart.  `prevCPUTimeValues` and `prevOp` are the
maps kept between batches; what the host really did is kept in history variables.

- `EveryPointOnce`: each point of a batch is in the result once, under the name and
  labels that Cloud Monitoring expects, and nothing besides derived metrics.
- `NoSeriesTwice`: no two points of a result belong to one time series.
- `UtilizationSinceLastBatch`: shares of the time since the last batch, also one that
  was dropped for another pass's error; the shares of a CPU whose counters moved add up
  to one, and those of another are 0/0, which the code passes on as NaN.
- `AverageIsIntegral`: the cumulative average adds up every interval with operations,
  over dropped batches and batches without the disk.

### `DcgmScraper` (`scraper.go` of the dcgm receiver)

`loop` is the place of the connect loop's goroutine, `control` that of the
controller.  Each case of a `select` is an action, enabled when the case is
ready; the two send cases on the unbuffered `metricsCh` are joint actions with
the receive in `scrape` (`HandOver`, `HandOverEmpty`).  `Scrape` is `scrape` up to its
second select.  The clock is left out: a timer may fire at any time.
History variables: `callFresh`, `dataFresh`, `unanswered`.

- `ScrapeReturns`, `StopCompletes`: liveness, also if DCGM is never reachable.
- `StaleUntilServed`: a scrape returns metrics older than itself only if its
  request is still in the channel or its query failed.

### `DcgmStats` (`client.go:298-355`, `util.go:27-114`)

One field of one GPU.  DCGM, which is external, takes samples and keeps `Kept` of
them; `PollSucceeds` asks for those since `lastSuccessfulPoll` and DCGM says from
when on to ask next, perhaps before samples it has just returned; `PollFails`
leaves everything as it was.  The values of a poll are visited one by one:
`SkipInvalid` (328-338) or `Update` (`util.go:63-87`).  As long as the GPU is not
`known`, `newDeviceMetrics` may fail, and then the value is lost (`PassOver`,
319-323): the time of the next poll has already moved on.  Times are in microseconds
and a second has 1000000 of them, as in the code.  Values are integers, as `asInt64`
gives them: for a field of type double, line 79 truncates each product instead,
which is not modelled.  `area`, the integral of the field up to a sample, `first`,
the first sample used, `passed` and `missed` are history variables.

- `RateIntegratesSamples`: the rate is the integral from the first value used to the
  last in whole seconds, whatever came twice, was blank, or came after a failure,
  as long as DCGM forgot nothing unread.
- `TotalIsDifference`: the total is the last value less the first one used; no valid
  one before that was lost but those passed over while the GPU was unknown.
- `TotalFallsOnlyWithCounter`: the total falls, perhaps below zero, when a newer value
  is smaller, that is, when the driver's counter restarts, and for no other reason.
- `NothingSkipped`: no poll, failed or not, moves the time of the next one past
  an unseen sample.  Lost are only the samples that were passed over.

### `MetricTypes`, `MongodbMetrics`, `DcgmMetrics`, `VarnishMetrics`, `NvmlMetrics`, `MetricsBuilder`

The generated metadata packages.  The four tables have one row per metric, which
stands for the code that the generator writes for it from a template: its type, its
value, its attributes.  `MetricsBuilder` has the template once: `recordDataPoint`
with the merging of points that the enabled attributes do not tell apart (sum,
average, minimum, maximum), `emit`, `EmitForResource` and `Emit`, for any row and
any configuration of it.  `EmittedIsAggregate`: what is emitted is the aggregate of
exactly what was recorded since the last emit.

### `MongoScraper`, `MongoRecords` (`scraper.go`, `metrics.go` of the mongodb receiver)

A scrape asks the server for its version and the names of its databases, for two
server-wide answers, for two per database and one per collection; each is an
action that may fail, or yield an answer that lacks keys.  What is recorded stays
in the metrics builder (`recorded`) until `EmitForResource` moves all of it to
`emitted` under one resource.  The data points of one question are one point;
`MongoRecords` lists what they are: the paths that each record function reads, by
version, and the series that each goes to.  `failed` and `incomplete` stand for the
scrape's errors.

- `MisplacedOnlyAfterFailure`: a point under the resource of another database is
  one of a database whose server status failed, for `collectDatabase` then returns
  before it emits (`scraper.go:130`), or the number of databases when both
  server-wide questions failed.
- `CleanScrapeComplete`: a scrape without errors has every point of every database.
- `NothingCarriedOver`: nothing is left for the next scrape.
- `NothingMerged`: no two readings of a scrape go to one series.  It is stated for
  the mongodb, varnish and dcgm receivers; for dcgm it adds that the fields read
  are the fields requested.

### `VarnishScraper` (`client.go`, `metrics.go`, `scraper.go` of the varnish receiver)

`Start`, `ScrapeFails` and `Scrape`, with one counter missing or none, and with a
user's configuration, which `newVarnishScraper` does not read: section 7.

### `DcgmReport` (`scraper.go:105-181`, 250-365, `client.go:140-240`)

The fields requested for the enabled metrics, the record calls of `scrape`, and for
each the fields it reads, the second of which stands in while the first has no
value.  `SumsDropOnlyAtSwitch` (action property): a monotonic sum falls only when
the field takes over from its fallback.

### `NvmlReceiver` (`client.go`, `scraper.go` of the nvml receiver)

Receivers of one process: `nvmlInit` once per process, discovery with devices that
do not answer, the samples that the driver keeps, scrapes with queries that fail,
`Stop`, which shuts the library down for all, and `Reload`.  A sample is the time
it was taken at, and a mean is the set of its samples.  Discovery and scrapes are
answered by all devices, all but one, or none.

- `EverySampleOnce`: a receiver averages each sample that the driver still had once,
  whatever failed before, and labels it with its device.
- `LibraryUntilFirstStop`: the library is there exactly until the first receiver
  that has it stops; after a reload it is gone.

### `DistributionSpec`, `DistributionGenerator` (`distribution.go`, `main.go:154-194`)

`DistributionSpec` holds specs as they are loaded, stored and compared: the fields
that the generators tell apart, `valid` for the combinations that
`NewDistributionSpec` accepts, and `Path` and `OCBOutputDir`, which no file holds.

A run of `generate` is `NewDistributionGenerator` (255-287, for every setting of
the flags), `Generate` (292-324, into a temporary directory, with `Compare`,
376-448), then for each file `OpenFile`, which truncates it, and `WriteFile` (`copyDir`,
616-658), and `RemoveTools` (354-361).  `Fail` ends it anywhere.  Files are visited in
an order `Rank`: a file named after the binary may come before or after the stored
spec.  Which files there are (`Managed`) depends on the binary's name and on the custom
templates that are merged with the embedded ones (302-313).  A file's content is the spec
and the other inputs it was made from; or it is `Empty` (opened, which truncates), or
partly written: `Garbled`, or for the stored spec the fields it got to (`Parts`).  A
stored spec that is `Garbled` cannot be read and stops every later run (264-269).
`EditSpec`, `EditInputs` and `InstallTools` (external) happen between runs.
History variables: `outcome`, `settled`, `interrupted`.

- `SuccessMeansGenerated`: after a success every file is that of the spec, whatever
  was left by runs that were cut off.
- `CompareAfterGenerate`: a comparison after a generation fails only for files of
  another binary name, or of a custom template that is gone, which nothing removes.
- `ToolsOfSpec`: tools that are left have the versions of the spec, if no copy was
  cut off.

### `ProjectGenerator` (`project.go`, `component.go`, `components_registry_generator.go`, `registry.go`)

`NewProjectGenerator`, `NewComponentGenerator` and `RegistryCommand` start a command;
`LoadRegistry` reads the registry, which must parse, adds the component and opens the
file for writing, which truncates it (`registry.go:80-126`), `Save` writes it; then `Render`, `RemoveTools`,
`CacheSpec` and `WriteSpec` (`project.go:120-156`), of which the last two may fail
without the command failing.  `Fail` ends a command anywhere, also in the middle of a
write, which leaves a file that is `Garbled` or has a part of the fields.  The tools are
those of the project's Makefile: `InstallDistrogen` replaces one of another version and
installs any (the latest) where there is none, `InstallMdatagen` always installs the
spec's.  History variables: `toolsKnown`, `registered`, `cutOff`.

- `KnownToolsAreCurrent`: tools that fitted the stored spec do not outlive a project
  command with other versions, though commands are cut off anywhere: the tools go before
  the spec is stored.  (`DistributionGenerator` has the other order.)  It does not speak
  of tools that a command left because the stored spec did not parse: that is only
  logged (`project.go:51-58`), and `toolsKnown` ends there.
- `ComponentsKept`: a component that was added stays in the registry, unless a
  command was cut off between truncation and write.

### `HotfixVersion` (`BumpHotfix`, `distribution.go:711-752`)

`BumpHotfix` with any identifier, of the flag, of the spec or the default, between
edits of the version and of the identifier.  Major and minor are one number.  An
identifier with a dot gives a version that the next bump rejects.  History variables:
`issued`, `bumped`.  `BumpIncreases`: a bump gives a later version in the order of
semantic versions; `NeverReissued`: and none that an earlier bump gave.

## 4. Runs and bounds

| run | question | bounds, and why they are enough |
|---|---|---|
| `normalize` | never over-report, forward intervals, resets; `CumulativeStreams` | two streams (b sets start times and never counts), four layouts, clock to 3, a counts to 2, clocks that go back and clocks that do not: two intervals of a, a restart between any two points, one of which overtakes the value before.  Streams share nothing but the order of points, which the layouts vary.  Either every metric is normalised, or those that b leads are not; then a goes on as it came until the consumer has closed an interval (`MaxClosed`), which is one time more than is needed to see it |
| `normalize_mixed` | a document | violation; same bounds |
| `health` | health follows status in turn; two timestamps or the whole history; the header in its windows | two goroutines, both windows 2, clock to 5: error, recovery, error; a window that opens, closes and opens again; more events than the agent keeps |
| `health_race` | the same if answers cross | violation; clock to 7 |
| `sc_pipeline` | order and progress of the queue, with shutdowns; what a batch becomes | two receivers with offsets 0 or 3, two batches each, a queue of one, two consumers.  Timeout 2 s, backoff 1 s, interval 9 s keep the order of the real 16, 1 and 60 s: `MaxElapsedTime` (6) plus one timeout is less than the interval.  A queue of one is full at times.  Reports: some 1500 batches, with every type, points with and without start, that end before, at and after the exporter's start, counts at the limit (`MaxInt64` is 7), each unfit kind of log record after a good one, each sent twice |
| `sc_order` | a comment's condition for order | violation; timeout 3 s, so that `MaxElapsedTime` (8) is below the interval and the last attempt ends after it |
| `agent_metrics` | points, series, utilisations and averages through eight passes | three batches, two CPUs with two states, one disk, two processes, a fault for each pass that can fail, restarts.  Three batches make a gap possible: a disk or a batch missing in the middle.  `Scale` 12 keeps the quotients exact |
| `dcgm` | scrapes and stop return; the rate is the integral | goroutines: no bound, the model has finitely many states and TLC visits all.  Samples: ticks of 0.4 s, four instants, values 0, 1, 3, three samples kept: sums that carry over a second, polls that repeat up to three samples, samples forgotten or passed over, counters that restart |
| `receivers` | what the four receivers and the builder report | mongodb: two databases (one takes the points of another), one collection each, versions 2.6 and 4.4 on either side of every condition that changes what is read.  varnish: any one counter missing.  dcgm: every record call, values to 2, clock to 3.  nvml: two receivers, two devices, one with accounting, one sample kept, two ticks, one reload.  builder: every metric, three readings 2, 1, 4, at most one attribute that varies and each strategy |
| `varnish_config` | a document | violation; all metrics on, or any one off |
| `distrogen_generate` | success, comparison, tools | two Go versions, two binary names (one visited before the stored spec, one after), two states of other inputs, one of which has a custom template for one of the names, and one in error; any number of edits and runs |
| `distrogen_project` | tools and registry; versions increase | two OpenTelemetry and two distrogen versions, two components; any number of commands.  Three identifiers, one with a dot; minor to 1, patch to 3, counter to 2: identifiers that alternate, twice |

`MaxTime`, `MaxTotal`, `MaxClosed`, `MaxBatches`, `MaxAttempts`, `MaxValue`, `LastTick`,
`MaxReloads`, `MaxMinor`, `MaxPatch` and `MaxCounter` are the only bounds on
unbounded state.  `CHECK_DEADLOCK FALSE` is set where the model really may stop: a
bounded clock or a bounded number of batches that ran out with no call in progress
(`HealthReporting`, `MCDcgm`, `AgentMetrics`), and a component that was stopped or
failed to start (`MCDcgm`, `MCServiceControl`, `MCReceivers`).

## 5. Fairness

`DcgmScraper`.  `WF` of `InitClient` and `Collect`: calls into DCGM return, with an
error if need be.  `WF` of `Timer`: a timer fires.  `WF` of `StopReturns`: a goroutine
that may run does.  `SF` of `Meet`, `PollCancelled`, `LoopCancelled`: these are cases
of selects the loop comes back to again and again; Go chooses among ready cases at
random, so a case that is ready infinitely often is taken.  There is no fairness on
`Scrape`, `ScrapeTimeout` and `Stop`: nobody has to scrape, time out or stop, and
`ScrapeReturns` does not rest on the timeout.

`ServiceControlQueue`.  `WF` of the clock, of the receivers' scrapes, of a shutdown that
was begun, and of the steps of a consumer that need nothing but time: taking a batch,
the deadline, the next attempt, giving up.  None on `Accept`, `FailRetriable` and
`FailPermanent`: the service need not answer, for the context of every attempt has
the deadline of `TimeoutConfig` (`factory.go:87`).

## 6. Proofs

| module | theorem | property | argument |
|---|---|---|---|
| `NormalizeSumsProofs` | `TypeCorrect`, `NeverOverReports`, `IntervalsEndAfterStart`, `ResetsAreRestarts` | `TypeOK`, `NoOverReport`, `IntervalsForward`, `ResetOnlyAfterRestart` | `NoOverReport` is not inductive: it says nothing of the points on their way nor of the history.  Three invariants strengthen it: `SamplesInOrder`, the points of a metric in progress are in the order in which they were taken; `HistoryBehind`, a recorded point is one of its counter's past; and `HistoryAccounts`, the history entry of a stream outside `raw` accounts for what was sent |
| | `ImplementsCumulativeStreams` | `DownstreamSpec` | `InTime`, for a clock that never goes back: start point, last point, the points in progress and the clock are in order of time, and no sample is from the future |
| `HealthReportingProofs` | `ErrorsShownInTurn`, `RecoveriesShownInTurn` | `ErrorShownInTurn`, `RecoveryShownInTurn` | for any number of goroutines: while `crossed` is false at most one has an event, events reach the agent in the order of their stamps, and the newest of the agent's two timestamps is that of `lastStatus` |
| | `AgentTypeCorrect`, `NewestKept`, `HealthFromTwoTimestamps` | `HealthAgent`'s `TypeOK`, `KeepsNewest`, `HealthIsPromised` | of the agent alone: `KeepsNewest` with the types is inductive and implies the other |
| | `HeaderJustified`, `HeaderNotLost` | `ServiceControlExporter`'s `DebugHeaderJustified`, `DebugHeaderNotLost` | of the exporter alone.  The window's end is a failure plus the timeout, and the failure is not in the future; each failure lies in the window of some failure, its own or an older one, that the window in force outlasts (`FailuresCovered`) |
| | `ImplementsAgent`, `ImplementsExporter` | | refinement: each step of the composition is a step of the part or leaves it alone; an event is delivered with a stamp that is not in the future (`EventsStamped`) |
| | `HealthFromHistory`, `HeadersJustified`, `HeadersNotLost` | `HealthIsPromised`, `DebugHeaderJustified`, `DebugHeaderNotLost` | the theorems of the parts, carried over by the refinements |
| `DcgmProofs` | `RateIsIntegral`, `TotalSinceFirst`, `TotalFollowsCounter`, `PollsSkipNothing`, `StatsTypeCorrect` | `RateIntegratesSamples`, `TotalIsDifference`, `TotalFallsOnlyWithCounter`, `NothingSkipped`, `StatsTypeOK` | `Unseen`: what is newer than the last value used is being visited or yet to come, but for what was passed over; `PassedReturned`: that was before the first use; hence the sample used next is the next valid one (`NextUsed`), and the area grows by what `Update` adds.  Arithmetic in `Carry` and `WholeSeconds` |
| | `StaleOnlyUntilServed`, `StoppedIsDone`, `TypeCorrect` | `StaleUntilServed`, `TypeOK` | `ServedAfterScrape`: a request that is gone while its scrape waits was taken by a query that began since, and that is under way, has left fresh data or has failed; `ClientFollowsLoop`, `DoneWhenCancelled`: how far the loop is once it was cancelled |
| `ServiceControlProofs` | `MetricsInOrder` | `Chronological` | if `EnoughConsumers` and `RetriesEndInTime`: a batch without an outcome is in the queue or with a consumer (`PendingKept`), what a consumer has is as old as the time since its receiver's last scrape (`HandFresh`), timers end the last attempt at `MaxElapsedTime + Timeout` (`InTime`), and so a receiver has one batch at most under way (`OneEach`).  That a consumer is free when a batch is made is a counting argument |
| | `IntervalsAlwaysFit`, `DistributionsAlwaysFit`, `NoLogLost` | `IntervalsFitAPI`, `DistributionFitsAPI`, `LogEntriesFaithful` | if `BatchesFit`: what every operation of a report satisfies is shown of the operators that make it; the report is their concatenation |
| `ReceiversProofs` | `PointsStayHome`, `CleanScrapesAreComplete`, `NothingIsCarriedOver`, `MongoTypeCorrect` | `MisplacedOnlyAfterFailure`, `CleanScrapeComplete`, `NothingCarriedOver`, `MongoScraper`'s `TypeOK` | `Waiting`: what waits in the builder at each question is the number of databases, or the statistics of a database whose status is asked next or has failed; `CompleteSoFar`: without errors, the databases that are done have both their points |
| | `SamplesAveragedOnce`, `LibraryGoneForGood` | `EverySampleOnce`, `LibraryUntilFirstStop` | `EverySampleOnce` is inductive with the place of the library and the clients (`LibraryState`, `ClientsFit`), and as what the driver forgot does not come back (`ForgottenForGood`): a sample that is not among the newest `Kept` never is again |
| | `SumsDropAtSwitch` | `SumsDropOnlyAtSwitch` | `ReportFits`: what was reported is of the first source that had a value then, and is not above that source's value now |
| | `EmittedIsCombined` | `EmittedIsAggregate` | `DataAccumulates`: each point that waits has the sum, or the extreme, of the points of its series among those recorded, and its count; a point of the same series merges into it, and one of another leaves it alone |
| | `SeriesAreApart` | `NothingMerged` | case by case over the tables: what mongodb records of a database, a lock or a collection is told by name and attributes (`ReadingsApart`); each varnish counter has one row (`CountersApart`); two record calls of dcgm differ in metric or attribute, and each field that is requested is asked for by a call (`CallsApart`, `CallsAsk`) |
| `AgentMetricsProofs` | `MapsKeepHistory` | | `Inductive`: the batch in flight is one that the receiver makes of the host's counters (`BatchMade`), `prevCPUTimeValues` is the last of `seenCPU` (`CPUKept`), and `prevOp` is the integral over `samples`, whose counters only grow (`OpsKept`).  Each pass is a function of a batch, so what follows is a lemma per pass about the metrics it finds and leaves |
| | `UtilizationIsSinceLastBatch`, `AverageIsTheIntegral` | `UtilizationSinceLastBatch`, `AverageIsIntegral` | from `Inductive`: the derived metric of the pass, followed through the passes after it.  `UtilizationKept`: the counters seen never fall, so that a sum of nothing has no part |
| | `SeriesGoOnOnce` | `NoSeriesTwice` | every metric of a result has a row in a table of names (`FinalRows`, `FinalHas`): what it measures and the labels of each point.  Labels of one row are apart, and no name has two rows (`SeriesApart`) |
| | `AllPointsGoOnOnce` | `EveryPointOnce` | the points of a batch and those of the result stand for the same finite set of keys, a metric's name and what the point measures (`Keys`), one to one (`BatchStandsForKeys`, `KeptStandsForKeys`); both sides are compared with the one row that the table has for a key (`Row`) |
| `ProjectProofs` | `ToolsStayCurrent`, `RegistryKeepsComponents`, `ProjectTypeCorrect` | `KnownToolsAreCurrent`, `ComponentsKept`, `ProjectGenerator`'s `TypeOK` | known tools go with as much of the stored spec as was written (`KnownToolsFitStored`), a command that found a change has removed them before it stores the new one (`ChangedToolsAreGone`); while the registry is truncated, the command holds what was in it (`RegistryHeld`) |
| | `VersionTypeCorrect`, `BumpsIncrease`, `BumpsNeverReissue` | `HotfixTypeOK`, `BumpIncreases`, `NeverReissued` | a bump precedes the next (case by case over the identifiers), and everything issued is the version at hand or precedes it, by transitivity |
| `DistributionGeneratorProofs` | `TypeCorrect`, `SuccessGenerates`, `CompareFindsLeftovers`, `ToolsMatchSpec` | `TypeOK`, `SuccessMeansGenerated`, `CompareAfterGenerate`, `ToolsOfSpec` | `AlwaysDiff`: a loaded spec never equals a stored one.  `Copied`: what the copy has passed is right; `Complete`: so is everything after a success; `Agreement`: between copies that were not cut off, Makefile, stored spec and tools have the same versions; `Made`: every file was made for a name or by a custom template; `WillClean`: a run for other versions than those of the tools remembers to remove them |

They rest on the named `ASSUME`s of the modules (types of the constants, the
sentinel is not a value) and on no bound.  Four theorems state a hypothesis of their
own:

- `MetricsInOrder`: there are at least as many consumers as receivers
  (`EnoughConsumers`), and `MaxElapsedTime + Timeout < ScrapeInterval`
  (`RetriesEndInTime`).  The defaults have ten consumers, and 34 s + 16 s against a
  scrape every 60 s.  `sc_pipeline` satisfies both; `sc_order` shows that the order is
  lost without the second.
- `IntervalsAlwaysFit`, `DistributionsAlwaysFit`, `NoLogLost`: batches are as pdata
  makes them (`BatchesFit`): metrics, points, scopes and records come in slices, times
  and counts are unsigned, a point has an end, and a histogram's count is the sum
  of its buckets.  Nothing is assumed of how a point's start, its end and the exporter's
  start are related.  The batches of `sc_pipeline` satisfy it.

The prover knows no induction over data.  Where a proof needs it (the sum of a set of
points, the concatenation of a list of lists), a counterexample is taken that is least,
by the well-foundedness of `<` on the naturals or of strict inclusion on the subsets of a
finite set, which the library has (`LeastNumber`, `LeastSet`); the recursive function is
shown to exist in the same way.  `TotalAdd` is an example: a sum does not depend on the
order in which the definition takes the elements.

Only model-checked: liveness (`ScrapeReturns`, `StopCompletes`, `EveryBatchSettled`),
which is out of the prover's reach.

## 7. Where code and documentation disagree

Four runs end in a violation; each checks one sentence of a comment or a document.

1. `health_race`: "ReportStatus tells health check that we had a retriable
   error" (`exporter.go:229`).  An event is stamped before `statusMu` is taken
   (`exporter.go:230`, 203); of two goroutines one stamps an error first and
   reports it last.  `lastStatus` is then the error, so that later errors are not
   forwarded, while the agent, which compares timestamps, sees the OK as newer and
   answers healthy.
2. `sc_order`: "With MaxElapsedTime < ScrapeInterval, this ensures metric at T is
   received, or dropped, before the metric at T + ScrapeInterval is sent"
   (`factory.go:103-105`).  A last attempt may begin just before `MaxElapsedTime` and
   take another timeout.  The condition that does suffice, in `sc_pipeline`, is
   `MaxElapsedTime + Timeout < ScrapeInterval`: with the defaults 34 s and 16 s, an
   interval above 50 s.
3. `normalize_mixed`: "all sum metrics with a 0 (unset) start timestamp will be
   normalized" (`normalizesumsprocessor/README.md:18-19`).  A metric is normalised or
   not by its *first* data point (`processor.go:88`): behind one that has a start, the
   points of a stream without one go on as they came, and a consumer that has this
   stream's normalised points too counts the same increments again.
4. `varnish_config`: "Each of them can be disabled" (`varnishreceiver/documentation.md:7`).
   `newVarnishScraper` uses the default configuration (`scraper.go:44`).

Met while modelling, and visible in the models without a run of their own:

- `Diff` compares two fields that no file holds, so it always finds a difference
  (`distribution.go:110`, 206, 335; `AlwaysDiff` in the proofs): generation is never
  skipped, though "if the spec file for the distro has not changed then generation
  will be skipped" (`docs/dev/makefile.md:44`).
- A permanent error is reported to tell health check (`exporter.go:241`) and ignored by
  the agent (`healthagent.go:116`, `Watched`).
- Only changes of status are forwarded (`exporter.go:205`), so that the window of the
  agent ("UNHEALTHY if there was an error during (time.Now() - error_check_interval,
  time.Now()]", `healthagent/factory.go:40`) starts at the first error in a row.
- A report is built again for each retry, with new operation ids (`exporter.go:322`):
  the service cannot tell a repeat of what it accepted too late.
- The mean of a distribution is the sum of its exemplars over its count
  (`exporter.go:512`), and the count is not capped as the bucket counts are (474).
- Cumulative and delta metrics "must have `start_time < end_time`" (`exporter.go:372`),
  for which `getStartEndTimes` provides starts.  That of a cumulative point is the
  exporter's, whenever the point ended (`exporter.go:385`): one that was taken before the
  exporter started, as another agent may push it, or in the same instant, gets an
  interval that is empty or goes backwards (the exception in `IntervalFits`).
- "Handle map and bytes as JSON-structured logs if they are successfully converted"
  (`logs.go:346`): `toProtoStruct` marshals the bytes (`logs.go:356`, 448), and Go's
  JSON of a byte slice is a base64 string, so that no body of bytes is ever structured,
  but for an empty one, which is `null` and becomes an empty structure.  The test
  (`logs_test.go:193`) has only a body that is no object.
- The interval made up for a delta is one microsecond (`exporter.go:390`); the comment
  above it says "[time.Now() - 1ms, time.Now()]".
- A consumer taken from a resource attribute does not go through `parseConsumerID`, and
  attributes that are no strings become empty ones (`attributesToStringMap`).
- A record that makes no entry fails its whole batch of logs (`logs.go:230`).
- A scrape triggers a collection "to make sure we have fresh metrics"
  (`dcgmreceiver/scraper.go:237`) and may receive older ones, since both cases of the
  poll loop's select are ready (221-227); `StaleUntilServed` says when.
- The poll loop passes over every error (`dcgmreceiver/scraper.go:206`): it does not
  connect again to a daemon that restarted.  `newClient` returns on errors without the
  cleanup of what it initialised (`client.go:92`).
- `collect` moves `lastSuccessfulPoll` (`dcgmreceiver/client.go:311`) before
  `newDeviceMetrics` can fail (321): the samples of that poll are lost for that GPU.
- The energy that the dcgm receiver reports falls when the energy counter takes over
  from the integrated power (`scraper.go:321`).
- The nvml library is initialised once per process and shut down by every receiver
  (`nvmlreceiver/client.go:68`, 130): after a reload there are no metrics.  The label
  `gpu_number` is the index among the devices that answered.
- `combineProcessMetrics` takes the first other resource without asking whether there
  is one (`utils_combine_process_metrics.go:64`): with the process scraper alone the
  collector panics.  The utilizations of a CPU whose counters did
  not move are NaN (`utils_calculate_utilizations.go:204`).  And the interval of the average is a
  difference of unsigned numbers (`utils_calculate_average_disk.go:87`).  The
  cumulative average starts from zero after a restart, under the start time of the
  host (`agentmetricsprocessor.go:53`).
- A counter that varnishstat leaves out is reported as 0 (`varnishreceiver/metrics.go:34`).
- A stored spec that cannot be read stops `generate`, even with `--force`
  (`distribution.go:264-269`), until somebody removes it; a write of it that is cut off
  can leave such a one.
- The stored spec is overwritten before the tools are removed
  (`distribution.go:350`, 356): after a copy that is cut off in between, the same
  command, repeated, keeps the old tools.  Hence the condition of `ToolsOfSpec`.
- A project's stored spec that cannot be parsed, as a write that was cut off may leave
  it, is logged and taken for no change (`project.go:51-58`): if versions changed
  meanwhile, the old tools stay after a project command that succeeds and stores the new
  spec.  A registry that cannot be parsed ends every command (`component.go:91-94`).
- `cmd/distrogen/README.md:42-46` runs `generate` without `--templates`.  The custom
  templates are then `os.DirFS("")` (`main.go:183`), which cannot be walked: the first
  disjunct of `Generate`.

## 8. Assumptions about what is outside

- The host hands every status event to the healthagent at once.  After a
  permanent error it may drop later events (`hostStuck`): properties on later
  events are conditional on it.  It reports a started component OK before that
  component's own first event (`ReportStarted`).
- The exporter helper drains its queue and waits for its consumers before it calls
  `Shutdown` (`ServiceControlExporter!Shutdown`, `ServiceControlQueue!Shutdown`): that
  the client, which is set to nil without a lock, is used by nobody then rests on it,
  and no property claims it; two status events never have the same
  nanosecond.
- Goroutines that may run do so within the second (`Prompt`): in
  `ServiceControlQueue` the clock waits for them.  There are no more receivers than
  consumers, so that a batch does not wait in the queue for a retry of another
  receiver; the interval is longer than `MaxElapsedTime` and one timeout.
- The hostmetrics receiver is the only source of agentmetrics, and its clock
  does not go back.
- NVML returns the samples of a device that are newer than the time asked for.  In
  `DcgmReport` drivers' counters do not fall; in `DcgmStats` they may.
- A generated metric is the template with its row: that the generator wrote it so was
  compared when the tables were made.
- The scraper controller runs one scrape at a time and stops after it.
- DCGM returns the samples of a field in the order of their time, and a sample
  taken after a poll is not older than the time that poll returned.
- Specs, registries and templates are edited, and tools installed, between runs
  of distrogen, and one run at a time works on a directory.  A truncated yaml file
  loads as an empty one; a partly written one does not parse, or has the fields that were
  written, a text that was cut in the middle counting as none.
- A distribution's Makefile installs tools of its own versions and does not replace a
  tool that is there.  `FORCE_DISTROGEN_VERSION` of a project's is not set.

## 9. What is not modelled

- casttosum, the OTTL functions and the regular expression library they bind: no
  state, no order.  A metric that is neither gauge nor sum is used as a sum by casttosum
  all the same (`casttosumprocessor/processor.go:85`).
- The oauth2clientauth extension: it builds requests, and what is kept between calls
  is another library's.
- The integration test harness and the internal tools: I/O from end to end, outside
  the collector.  The generated `main` functions.
- Of modelled parts: names, command lines and owners of processes (`setMetadataLabels`
  of nvml); repairs of texts (`fixUTF8`) and sizes in bytes; conversions of DCGM values
  (`asInt64`, `asFloat64`) and 64-bit overflow in `util.go:81`; capacities, `Reset` and
  start time overrides of the builder, and its resource builders; the map race of
  normalizesums with several receivers, after which the Go runtime may end the process;
  a history entry of normalizesums is never removed (`processor.go:122`), but the model's
  streams are few; texts of distrogen's templates, `query` and
  `otel_component_versions`; log lines and their counters.

---------------------------- MODULE AgentMetrics ----------------------------
(***************************************************************************)
(* The agentmetrics processor (agentmetricsprocessor.go and its utils_*    *)
(* files): the passes of ProcessMetrics over a batch of host metrics, and  *)
(* the two maps that carry counters from one batch to the next.  Calls     *)
(* come one after the other: the metrics it keeps state for have a single  *)
(* source, the hostmetrics receiver.                                       *)
(*                                                                         *)
(* A slice of resources or of metrics is a function on their positions: one*)
(* that was filtered or added to may have gaps.  The points of a metric are*)
(* a function on what they measure, as their order says nothing.           *)
(* Attributes are sets of <<label, value>>, which is what the sorted keys  *)
(* of labelsAsKey stand for.  A value is num / den; den is not 1 only for  *)
(* the values that the processor divides.                                  *)
(***************************************************************************)
EXTENDS Integers, SequencesExt, FiniteSetsExt

CONSTANTS
  CPUSteps,           \* how the CPU counters may advance between two scrapes
  DiskSteps,          \* the same for the operations and busy time of a disk
  Processes,          \* the processes of the host
  BlankLabelMetrics,  \* Config.BlankLabelMetrics
  Scale,              \* averages are rounded to Scale-ths
  None,               \* no batch
  MaxBatches          \* bound on the number of scrapes

ASSUME BatchesAssumption == Scale \in Nat \ {0} /\ MaxBatches \in Nat

CPUs == {"cpu0", "cpu1"}
CPUStates == {"user", "idle"}
Directions == {"read", "write"}

(* The counters of a host only grow.                                       *)
ASSUME StepsAssumption ==
  /\ CPUSteps \subseteq [CPUs -> [CPUStates -> Nat]]
  /\ DiskSteps \subseteq [Directions -> [ops : Nat, time : Nat]]

VARIABLES
  now,        \* timestamp of the last scrape
  cpu, disk,  \* the host's counters
  batch,      \* what the receiver passes to ProcessMetrics; None between calls
  prevCPUTimeValues, prevOp,  \* the processor's maps
  input,      \* history: the last batch as it came in
  output,     \* history: what went on to the next consumer
  outcome,    \* "ok", "error": the batch is dropped, "panic": the collector ends
  seenCPU,    \* history: the CPU counters of the batches processed since the start
  samples     \* history: the disk counters of those batches

host == <<now, cpu, disk>>
vars == <<host, batch, prevCPUTimeValues, prevOp, input, output, outcome, seenCPU, samples>>

-----------------------------------------------------------------------------
Put(attrs, k, v) == {a \in attrs : a[1] # k} \cup {<<k, v>>}
Drop(attrs, k) == {a \in attrs : a[1] # k}
Has(attrs, k) == \E a \in attrs : a[1] = k
Get(attrs, k) == (CHOOSE a \in attrs : a[1] = k)[2]

Labelled(p, attrs) == [attrs |-> attrs, num |-> p.num, den |-> p.den, at |-> p.at]

MetricOf(name, kind, monotonic, points) ==
  [name |-> name, kind |-> kind, monotonic |-> monotonic, points |-> points]

OnPoints(metric, F(_)) ==
  MetricOf(metric.name, metric.kind, metric.monotonic,
           [i \in DOMAIN metric.points |-> F(metric.points[i])])

OnMetrics(rms, F(_)) ==
  [r \in DOMAIN rms |->
     [attrs   |-> rms[r].attrs,
      metrics |-> [k \in DOMAIN rms[r].metrics |-> F(rms[r].metrics[k])]]]

(* The places of the metrics in their order, and what is appended.         *)
Places(rms) == UNION {{<<r, k>> : k \in DOMAIN rms[r].metrics} : r \in DOMAIN rms}
At(rms, place) == rms[place[1]].metrics[place[2]]
Before(p, q) == p[1] < q[1] \/ (p[1] = q[1] /\ p[2] < q[2])

Appended(ms, added) ==
  LET end == Max(DOMAIN ms \cup {0})
  IN  [k \in DOMAIN ms \cup {end + j : j \in DOMAIN added} |->
         IF k \in DOMAIN ms THEN ms[k] ELSE added[k - end]]

(* The points of several metrics, which measure different things.          *)
Together(metrics) ==
  [i \in UNION {DOMAIN m.points : m \in metrics} |->
     (CHOOSE m \in metrics : i \in DOMAIN m.points).points[i]]

-----------------------------------------------------------------------------
(* convertNonMonotonicSumsToGauges                                         *)
convertToGauge(metric) ==
  IF metric.kind = "Sum" /\ ~metric.monotonic
    THEN MetricOf(metric.name, "Gauge", FALSE, metric.points) ELSE metric

convertNonMonotonicSumsToGauges(rms) == OnMetrics(rms, convertToGauge)

removeVersionAttribute(rms) ==
  OnMetrics(rms, LAMBDA metric :
    OnPoints(metric, LAMBDA p : Labelled(p, Drop(p.attrs, "service_version"))))

-----------------------------------------------------------------------------
(* combineProcessMetrics.  A resource attribute becomes a label, or none.  *)
toCloudMonitoringLabel(k) ==
  CASE k = "process.pid"             -> "pid"
    [] k = "process.executable.name" -> "command"
    [] k = "process.command_line"    -> "command_line"
    [] k = "process.owner"           -> "owner"
    [] OTHER                         -> ""

(* Two command lines that differ after their first 1024 bytes, one value   *)
(* that is no string, number or truth value; any other value stays.        *)
stringValue(v) == IF v \in {"long1", "long2"} THEN "long" ELSE v
UnexpectedType == "bytes"

(* The id of a process is a number.                                        *)
ASSUME HostAssumption ==
  IsFiniteSet(Processes) /\ Processes \cap {"long1", "long2", UnexpectedType} = {}

(* The attributes of a process: those with the prefix "process.".          *)
ProcessAttributes ==
  {"process.pid", "process.executable.name", "process.executable.path",
   "process.command_line", "process.owner"}

includesProcessAttributes(resource) == \E a \in resource.attrs : a[1] \in ProcessAttributes

(* A slip for the mutation runs: the process id is no label.               *)
appendAllButPid(labels, attributes) ==
  LET mapped == {a \in attributes : toCloudMonitoringLabel(a[1]) \notin {"", "pid"}}
  IN  labels \cup {<<toCloudMonitoringLabel(a[1]), stringValue(a[2])>> : a \in mapped}

appendAttributesToLabels(labels, attributes) ==
  LET mapped == {a \in attributes : toCloudMonitoringLabel(a[1]) # ""}
  IN  {l \in labels : \A a \in mapped : toCloudMonitoringLabel(a[1]) # l[1]}
        \cup {<<toCloudMonitoringLabel(a[1]), stringValue(a[2])>> : a \in mapped}

appendNumberDataSlice(metric, resource) ==
  OnPoints(metric, LAMBDA p : Labelled(p, appendAttributesToLabels(p.attrs, resource.attrs)))

(* The metrics of all processes, one per name, with the descriptor of the  *)
(* first; a map, so that their order is arbitrary.                         *)
createProcessMetrics(processes) ==
  LET Named(n) == {p \in Places(processes) : At(processes, p).name = n}
      First(n) == CHOOSE p \in Named(n) : \A q \in Named(n) : p = q \/ Before(p, q)
      Metric(n) ==
        LET m == At(processes, First(n))
        IN  MetricOf(n, m.kind, m.monotonic,
              Together({appendNumberDataSlice(At(processes, p), processes[p[1]]) : p \in Named(n)}))
      names == SetToSeq({At(processes, p).name : p \in Places(processes)})
  IN  [j \in DOMAIN names |-> Metric(names[j])]

(* The process metrics go to the first of the other resources: without     *)
(* one, At(0) panics.  A failing pass returns with the batch half changed; *)
(* it will be dropped, and the passes that follow read metrics this one    *)
(* does not touch, so it is left as it is.                                 *)
combineProcessMetrics(rms) ==
  LET processes == [r \in {r \in DOMAIN rms : includesProcessAttributes(rms[r])} |-> rms[r]]
      others    == DOMAIN rms \ DOMAIN processes
      first     == CHOOSE r \in others : \A q \in others : r <= q
  IN  IF \E r \in DOMAIN processes : \E a \in processes[r].attrs :
           toCloudMonitoringLabel(a[1]) # "" /\ a[2] = UnexpectedType
        THEN [rms |-> rms, outcome |-> "error"]
      ELSE IF others = {}
        THEN [rms |-> rms, outcome |-> "panic"]
      ELSE [rms |-> [r \in others |->
                       IF r = first
                         THEN [attrs   |-> rms[r].attrs,
                               metrics |-> Appended(rms[r].metrics, createProcessMetrics(processes))]
                         ELSE rms[r]],
            outcome |-> "ok"]

-----------------------------------------------------------------------------
(* splitReadWriteBytesMetrics                                              *)
metricsToSplit == {"system.disk.io", "process.disk.io"}

SplitName(name, direction) ==
  CASE name = "system.disk.io" /\ direction = "read"   -> "system.disk.read_io"
    [] name = "system.disk.io" /\ direction = "write"  -> "system.disk.write_io"
    [] name = "process.disk.io" /\ direction = "read"  -> "process.disk.read_io"
    [] name = "process.disk.io" /\ direction = "write" -> "process.disk.write_io"

Going(metric, direction) ==
  {i \in DOMAIN metric.points : Get(metric.points[i].attrs, "direction") = direction}

(* A slip for the mutation runs: the label stays.                          *)
splitKeepingLabel(metric, direction) ==
  MetricOf(SplitName(metric.name, direction), metric.kind, metric.monotonic,
           [i \in Going(metric, direction) |-> metric.points[i]])

splitReadWriteBytesMetric(metric, direction) ==
  MetricOf(SplitName(metric.name, direction), metric.kind, metric.monotonic,
           [i \in Going(metric, direction) |->
              Labelled(metric.points[i], Drop(metric.points[i].attrs, "direction"))])

(* The read metric takes the old one's place, the write metric is added.   *)
splitReadWriteBytesMetrics(rms) ==
  LET Splits(m) == m.name \in metricsToSplit
      Bad(m) == \E i \in DOMAIN m.points : ~Has(m.points[i].attrs, "direction")
      Read(m) == IF Splits(m) THEN splitReadWriteBytesMetric(m, "read") ELSE m
      Split(ms) == Appended([k \in DOMAIN ms |-> Read(ms[k])],
                            [k \in {k \in DOMAIN ms : Splits(ms[k])} |->
                               splitReadWriteBytesMetric(ms[k], "write")])
  IN  IF \E p \in Places(rms) : Splits(At(rms, p)) /\ Bad(At(rms, p))
        THEN [rms |-> rms, outcome |-> "error"]
        ELSE [rms |-> [r \in DOMAIN rms |->
                         [attrs |-> rms[r].attrs, metrics |-> Split(rms[r].metrics)]],
              outcome |-> "ok"]

-----------------------------------------------------------------------------
(* appendUtilizationMetrics                                                *)
Utilization(name) ==
  CASE name = "system.cpu.time"     -> "system.cpu.utilization"
    [] name = "system.memory.usage" -> "system.memory.utilization"

metricsToComputeUtilizationFor == {"system.cpu.time", "system.memory.usage"}

Less(p, v) == [attrs |-> p.attrs, num |-> p.num - v, den |-> p.den, at |-> p.at]

(* A slip for the mutation runs: a new counter is taken to start at zero.  *)
convertFromZero(metric, prev) ==
  OnPoints(metric, LAMBDA p : Less(p, IF p.attrs \in DOMAIN prev THEN prev[p.attrs] ELSE 0))

(* A counter without a previous value gives no delta.                      *)
convertPrevCPUTimeToDelta(metric, prev) ==
  MetricOf(metric.name, metric.kind, metric.monotonic,
           [i \in {i \in DOMAIN metric.points : metric.points[i].attrs \in DOMAIN prev} |->
              Less(metric.points[i], prev[metric.points[i].attrs])])

(* doubleDataPointsToMap                                                   *)
setPrevCPUTimes(metric) ==
  [a \in {metric.points[i].attrs : i \in DOMAIN metric.points} |->
     metric.points[CHOOSE i \in DOMAIN metric.points : metric.points[i].attrs = a].num]

otherLabelsAsKey(attrs) == Drop(attrs, "state")

(* Each point divided by the sum of its group; 0/0 stands for NaN, as in   *)
(* the code, which divides floating-point numbers.                         *)
calculateUtilizationFromNumberDataPoints(points) ==
  LET Group(i) == {j \in DOMAIN points : otherLabelsAsKey(points[j].attrs) = otherLabelsAsKey(points[i].attrs)}
  IN  [i \in DOMAIN points |->
         [attrs |-> points[i].attrs, num |-> points[i].num,
          den |-> SumFunction([j \in Group(i) |-> points[j].num]), at |-> points[i].at]]

UsedPoints(metric, prev) ==
  IF metric.name = "system.cpu.time" THEN convertPrevCPUTimeToDelta(metric, prev).points
                                     ELSE metric.points

HasStates(points) == \A i \in DOMAIN points : Has(points[i].attrs, "state")

calculateUtilizationMetric(metric, prev) ==
  MetricOf(Utilization(metric.name), "Gauge", FALSE,
           calculateUtilizationFromNumberDataPoints(UsedPoints(metric, prev)))

(* The metrics are gone through in their order.  The CPU times that are    *)
(* remembered at a metric are those of the last such metric before it; the *)
(* first error ends the pass.                                              *)
appendUtilizationMetrics(rms, prevCPU) ==
  LET places == {p \in Places(rms) : At(rms, p).name \in metricsToComputeUtilizationFor}
      Remembered(done) ==
        LET cpuTimes == {p \in done : At(rms, p).name = "system.cpu.time"}
        IN  IF cpuTimes = {} THEN prevCPU
            ELSE setPrevCPUTimes(At(rms, CHOOSE p \in cpuTimes :
                                            \A q \in cpuTimes : p = q \/ Before(q, p)))
      PrevAt(p) == Remembered({q \in places : Before(q, p)})
      failing == {p \in places : ~HasStates(UsedPoints(At(rms, p), PrevAt(p)))}
      done    == {p \in places : \A q \in failing : Before(p, q)}
  IN  [rms |-> [r \in DOMAIN rms |->
                  [attrs   |-> rms[r].attrs,
                   metrics |-> Appended(rms[r].metrics,
                     [k \in {k \in DOMAIN rms[r].metrics : <<r, k>> \in done} |->
                        calculateUtilizationMetric(rms[r].metrics[k], PrevAt(<<r, k>>))])]],
       prev |-> Remembered(done), failed |-> failing # {}]

-----------------------------------------------------------------------------
cleanCPUNumberDataPoint(p) ==
  LET Trim(v) == CASE v = "cpu0" -> "0" [] v = "cpu1" -> "1" [] OTHER -> v
  IN  IF Has(p.attrs, "cpu") THEN Labelled(p, Put(p.attrs, "cpu", Trim(Get(p.attrs, "cpu")))) ELSE p

cleanCPUNumber(rms) == OnMetrics(rms, LAMBDA m : OnPoints(m, cleanCPUNumberDataPoint))

-----------------------------------------------------------------------------
(* appendAverageDiskMetrics.  What newOp holds for each device and         *)
(* direction of a scope: the new counters, the old average.                *)
opKey(attrs) == <<Get(attrs, "device"), Get(attrs, "direction")>>

PointsOf(metrics, name) ==
  UNION {{metrics[k].points[i] : i \in DOMAIN metrics[k].points}
         : k \in {k \in DOMAIN metrics : metrics[k].name = name}}

NewOps(metrics, prev) ==
  LET ops   == PointsOf(metrics, "system.disk.operations")
      times == PointsOf(metrics, "system.disk.operation_time")
      Of(points, key) == CHOOSE p \in points : opKey(p.attrs) = key
  IN  [key \in {opKey(p.attrs) : p \in ops} |->
         [operations |-> Of(ops, key).num, time |-> Of(times, key),
          cumAvgTime |-> IF key \in DOMAIN prev THEN prev[key].cumAvgTime ELSE 0]]

(* A slip for the mutation runs: the time of an idle interval is counted.  *)
AverageOfAll(new, prev) ==
  LET ops == new.operations - prev.operations
      t   == new.time.num - prev.time.num
  IN  new.cumAvgTime
        + ((t * Scale) \div (IF ops > 0 THEN ops ELSE 1)) * (new.time.at - prev.time.at)

(* The new cumulative average; without operations it stays.                *)
Average(new, prev) ==
  LET ops == new.operations - prev.operations
      t   == new.time.num - prev.time.num
  IN  IF ops > 0 THEN new.cumAvgTime + ((t * Scale) \div ops) * (new.time.at - prev.time.at)
                 ELSE new.cumAvgTime

(* What is remembered of each disk, and the metric with their averages.    *)
Averaged(newOp, prev) ==
  [key \in DOMAIN newOp |->
     [operations |-> newOp[key].operations, time |-> newOp[key].time,
      cumAvgTime |-> IF key \in DOMAIN prev THEN Average(newOp[key], prev[key])
                                            ELSE newOp[key].cumAvgTime]]

averageTimeMetric(op, known) ==
  MetricOf("system.disk.average_operation_time", "Sum", TRUE,
           [key \in known |-> [attrs |-> op[key].time.attrs, num |-> op[key].cumAvgTime,
                               den |-> Scale, at |-> op[key].time.at]])

appendAverageDiskMetrics(rms, prevOps) ==
  LET Op(r, prev) == Averaged(NewOps(rms[r].metrics, prev), prev)
      after[r \in 0 .. Max(DOMAIN rms \cup {0})] ==
        IF r = 0 THEN prevOps
        ELSE IF r \notin DOMAIN rms THEN after[r - 1]
        ELSE LET op == Op(r, after[r - 1])
             IN  [key \in DOMAIN op \cup DOMAIN after[r - 1] |->
                    IF key \in DOMAIN op THEN op[key] ELSE after[r - 1][key]]
      Known(r) == DOMAIN Op(r, after[r - 1]) \cap DOMAIN after[r - 1]
  IN  [rms |-> [r \in DOMAIN rms |->
                  IF Known(r) = {} THEN rms[r]
                  ELSE [attrs   |-> rms[r].attrs,
                        metrics |-> Appended(rms[r].metrics,
                                      <<averageTimeMetric(Op(r, after[r - 1]), Known(r))>>)]],
       prev |-> after[Max(DOMAIN rms \cup {0})]]

addBlankLabel(rms) ==
  OnMetrics(rms, LAMBDA m :
    IF m.name \in BlankLabelMetrics
      THEN OnPoints(m, LAMBDA p : Labelled(p, Put(p.attrs, "blank", ""))) ELSE m)

-----------------------------------------------------------------------------
(* The hostmetrics receiver, external: one resource per scraper and one    *)
(* per process, from the counters after a step of the host.  A fault is an *)
(* attribute the processor does not expect, or a configuration with the    *)
(* process scraper only.                                                   *)
Point(attrs, value, at) == [attrs |-> attrs, num |-> value, den |-> 1, at |-> at]

CPUTimes(c, at) ==
  MetricOf("system.cpu.time", "Sum", TRUE,
    [i \in CPUs \X CPUStates |-> Point({<<"cpu", i[1]>>, <<"state", i[2]>>}, c[i[1]][i[2]], at)])

MemoryUsage(at, fault) ==
  MetricOf("system.memory.usage", "Sum", FALSE,
    [i \in {"memory"} \X {"used", "free"} |->
       Point({<<IF fault = "state" THEN "part" ELSE "state", i[2]>>}, 1, at)])

OfDisk == {"sda"} \X Directions

DiskIo(d, at, fault) ==
  MetricOf("system.disk.io", "Sum", TRUE,
    [i \in OfDisk |->
       Point({<<"device", i[1]>>, <<IF fault = "direction" THEN "way" ELSE "direction", i[2]>>},
             d[i[2]].ops, at)])

DiskOperations(d, at) ==
  MetricOf("system.disk.operations", "Sum", TRUE,
    [i \in OfDisk |-> Point({<<"device", i[1]>>, <<"direction", i[2]>>}, d[i[2]].ops, at)])

DiskTime(d, at) ==
  MetricOf("system.disk.operation_time", "Sum", TRUE,
    [i \in OfDisk |-> Point({<<"device", i[1]>>, <<"direction", i[2]>>}, d[i[2]].time, at)])

HostResources(c, d, at, disks, fault) ==
  LET first == [attrs |-> {}, metrics |-> <<CPUTimes(c, at), MemoryUsage(at, fault)>>]
  IN  IF disks
        THEN <<first, [attrs |-> {}, metrics |-> <<DiskIo(d, at, fault), DiskOperations(d, at),
                                                  DiskTime(d, at)>>]>>
        ELSE <<first>>

ProcessIo(p, d, at) ==
  MetricOf("process.disk.io", "Sum", TRUE,
    [i \in {p} \X Directions |->
       Point({<<"direction", i[2]>>, <<"service_version", "1">>}, d[i[2]].ops, at)])

ProcessResource(p, d, at, fault) ==
  [attrs |-> {<<"process.pid", p>>, <<"process.executable.path", "/bin/x">>,
              <<"process.command_line",
                IF fault = "attribute" THEN UnexpectedType ELSE IF p = "p1" THEN "long1" ELSE "long2">>},
   metrics |-> <<ProcessIo(p, d, at)>>]

Batch(c, d, at, processes, disks, fault) ==
  LET hosts == IF fault = "hostless" THEN <<>> ELSE HostResources(c, d, at, disks, fault)
      ps    == SetToSeq(processes)
  IN  hosts \o [j \in 1 .. Len(ps) |-> ProcessResource(ps[j], d, at, fault)]

Faults == {"none", "direction", "state", "attribute", "hostless"}

Scrape ==
  /\ batch = None
  /\ outcome # "panic"
  /\ now < MaxBatches
  /\ now' = now + 1
  /\ \E step \in CPUSteps :
       cpu' = [c \in CPUs |-> [s \in CPUStates |-> cpu[c][s] + step[c][s]]]
  /\ \E step \in DiskSteps :
       disk' = [d \in Directions |-> [ops  |-> disk[d].ops + step[d].ops,
                                      time |-> disk[d].time + step[d].time]]
  /\ \E processes \in SUBSET Processes, disks \in BOOLEAN, fault \in Faults :
       /\ fault \in {"attribute", "hostless"} => processes # {}
       /\ fault = "direction" => disks
       /\ batch' = Batch(cpu', disk', now', processes, disks, fault)
  /\ input' = batch'
  /\ output' = None
  /\ UNCHANGED <<prevCPUTimeValues, prevOp, outcome, seenCPU, samples>>

-----------------------------------------------------------------------------
Init ==
  /\ now = 0
  /\ cpu = [c \in CPUs |-> [s \in CPUStates |-> 0]]
  /\ disk = [d \in Directions |-> [ops |-> 0, time |-> 0]]
  /\ batch = None /\ input = None /\ output = None
  /\ prevCPUTimeValues = <<>> /\ prevOp = <<>>
  /\ outcome = "ok"
  /\ seenCPU = <<>> /\ samples = <<>>

HasDisks(rms) == \E p \in Places(rms) : At(rms, p).name = "system.disk.operations"

Outcome(combined, split, utilized) ==
  IF combined.outcome = "ok" /\ split.outcome = "ok" /\ ~utilized.failed THEN "ok" ELSE "error"

(* The passes in their order; an error is kept while the others go on, and *)
(* then the batch is not passed on.                                        *)
ProcessMetrics ==
  /\ batch # None
  /\ LET combined == combineProcessMetrics(removeVersionAttribute(convertNonMonotonicSumsToGauges(batch)))
         split    == splitReadWriteBytesMetrics(combined.rms)
         utilized == appendUtilizationMetrics(split.rms, prevCPUTimeValues)
         averaged == appendAverageDiskMetrics(cleanCPUNumber(utilized.rms), prevOp)
     IN  IF combined.outcome = "panic"
           THEN /\ outcome' = "panic"
                /\ UNCHANGED <<prevCPUTimeValues, prevOp, output, seenCPU, samples>>
           ELSE /\ prevCPUTimeValues' = utilized.prev
                /\ prevOp' = averaged.prev
                /\ outcome' = Outcome(combined, split, utilized)
                /\ output' = IF outcome' = "ok" THEN addBlankLabel(averaged.rms) ELSE None
                /\ seenCPU' = Append(seenCPU, cpu)
                /\ samples' = IF HasDisks(batch)
                                THEN Append(samples, [disk |-> disk, at |-> now]) ELSE samples
  /\ batch' = None
  /\ UNCHANGED <<host, input>>

(* A new collector starts with empty maps.                                 *)
newAgentMetricsProcessor ==
  /\ batch = None
  /\ prevCPUTimeValues' = <<>> /\ prevOp' = <<>>
  /\ seenCPU' = <<>> /\ samples' = <<>>
  /\ input' = None /\ output' = None
  /\ outcome' = "ok"
  /\ UNCHANGED <<host, batch>>

Next == Scrape \/ ProcessMetrics \/ newAgentMetricsProcessor

Spec == Init /\ [][Next]_vars

-----------------------------------------------------------------------------
(* All points of a batch, with the metric and the resource they belong to. *)
Streams(rms) ==
  UNION {{[resource |-> p[1], metric |-> At(rms, p).name, kind |-> At(rms, p).kind,
           point |-> At(rms, p).points[i], place |-> <<p[1], p[2], i>>]
            : i \in DOMAIN At(rms, p).points} : p \in Places(rms)}

Derived == {"system.cpu.utilization", "system.memory.utilization",
            "system.disk.average_operation_time"}

(* What becomes of a point: its metric's name, kind and its attributes.    *)
Translated(s, resource) ==
  LET split == s.metric \in metricsToSplit
      name  == IF split THEN SplitName(s.metric, Get(s.point.attrs, "direction")) ELSE s.metric
      old   == {<<IF a[1] = "process.pid" THEN "pid" ELSE "command_line", stringValue(a[2])>>
                  : a \in {a \in resource.attrs : a[1] \in {"process.pid", "process.command_line"}}}
               \cup {a \in s.point.attrs : a[1] # "service_version" /\ ~(split /\ a[1] = "direction")}
  IN  [metric |-> name,
       kind   |-> IF s.metric = "system.memory.usage" THEN "Gauge" ELSE "Sum",
       value  |-> s.point.num,
       attrs  |-> {IF a[1] = "cpu" THEN <<"cpu", IF a[2] = "cpu0" THEN "0" ELSE "1">> ELSE a : a \in old}
                  \cup (IF name \in BlankLabelMetrics THEN {<<"blank", "">>} ELSE {})]

(* Every point of a batch that is passed on is there once, under the name  *)
(* and the labels Cloud Monitoring expects, and nothing else is besides    *)
(* the derived metrics, through all eight passes                           *)
(* (agentmetricsprocessor.go:58-93).                                       *)
EveryPointOnce ==
  output # None =>
    LET kept == {s \in Streams(output) : s.metric \notin Derived}
    IN  /\ Cardinality(kept) = Cardinality(Streams(input))
        /\ {Translated(s, input[s.resource]) : s \in Streams(input)}
            = {[metric |-> s.metric, kind |-> s.kind, value |-> s.point.num, attrs |-> s.point.attrs]
                 : s \in kept}

(* No two points that are passed on together belong to one time series,    *)
(* although the resources of the processes are gone                        *)
(* (utils_combine_process_metrics.go:186).                                 *)
NoSeriesTwice ==
  output # None =>
    \A s, t \in Streams(output) :
      s.metric = t.metric /\ s.point.attrs = t.point.attrs => s.place = t.place

NotANumber(p) == p.num = 0 /\ p.den = 0

(* A utilization is the share of the CPU's time since the batch processed  *)
(* before, also if that one was dropped for an error of another pass.  The *)
(* shares of a CPU whose counters moved add up to one; those of one whose  *)
(* counters did not are not a number, for they are divided by their sum    *)
(* all the same (utils_calculate_utilizations.go:75, 204).                 *)
UtilizationSinceLastBatch ==
  output # None =>
    LET n == Len(seenCPU)
        Used(c, st) == seenCPU[n][c][st] - seenCPU[n - 1][c][st]
        Total(c) == Used(c, "user") + Used(c, "idle")
        shares == {s \in Streams(output) : s.metric = "system.cpu.utilization"}
        Of(s) == IF <<"cpu", "0">> \in s.point.attrs THEN "cpu0" ELSE "cpu1"
        State(s) == Get(s.point.attrs, "state")
    IN  /\ Cardinality(shares) = IF n = 1 THEN 0 ELSE Cardinality(CPUs \X CPUStates)
        /\ \A s \in shares :
             IF Total(Of(s)) = 0
               THEN NotANumber(s.point)
               ELSE s.point.num = Used(Of(s), State(s)) /\ s.point.den = Total(Of(s))
        /\ \A s, t \in shares :
             Of(s) = Of(t) /\ State(s) = "user" /\ State(t) = "idle" =>
               \/ NotANumber(s.point) /\ NotANumber(t.point)
               \/ s.point.den > 0 /\ s.point.num + t.point.num = s.point.den

(* The cumulative average adds, for each interval between two batches with *)
(* disk metrics in which there were operations, their average time for the *)
(* length of the interval: nothing is lost with a dropped batch or one     *)
(* without disks (utils_calculate_average_disk.go:82-93).                  *)
AverageIsIntegral ==
  output # None =>
    \A s \in {s \in Streams(output) : s.metric = "system.disk.average_operation_time"} :
      LET d == Get(s.point.attrs, "direction")
          Ops(i)  == samples[i].disk[d].ops - samples[i - 1].disk[d].ops
          Busy(i) == samples[i].disk[d].time - samples[i - 1].disk[d].time
          Part(i) == IF Ops(i) = 0 THEN 0
                     ELSE ((Busy(i) * Scale) \div Ops(i)) * (samples[i].at - samples[i - 1].at)
      IN  s.point.num = SumFunction([i \in 2 .. Len(samples) |-> Part(i)])
=============================================================================

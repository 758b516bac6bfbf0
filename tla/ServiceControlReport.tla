------------------------- MODULE ServiceControlReport -------------------------
(***************************************************************************)
(* What the googleservicecontrol exporter makes of a batch: one operation  *)
(* per metric (exporter.go) or per resource of logs (logs.go).  The retry  *)
(* sender hands the same batch over again, and each attempt builds a new   *)
(* request.  A time is a number of microseconds; 0 is an unset timestamp.  *)
(* Texts are model values, Blank is the empty string.                      *)
(***************************************************************************)
EXTENDS Integers, FiniteSets, SequencesExt

CONSTANTS
  Batches,         \* what the pipeline hands over: metrics or logs
  ConsumerProject, \* the configured consumer, after parseConsumerID
  DefaultLogName,  \* LogConfig.DefaultLogName, or Blank
  Blank,
  NoName,          \* an attribute or a name that is absent
  MaxEntrySize,    \* logMapper.maxEntrySize
  MaxInt64,        \* the largest signed number
  StartedAt,       \* MetricsExporter.exporterStartTime
  Second,          \* a second, on the clock
  MaxTime,         \* bound: the clock
  MaxAttempts      \* bound: how often a batch is handed over

ASSUME ReportAssumption ==
  /\ MaxInt64 \in Nat /\ StartedAt \in Nat \ {0} /\ Second \in Nat \ {0} /\ MaxTime \in Nat /\ MaxAttempts \in Nat
  /\ NoName \notin {Blank, DefaultLogName}

VARIABLES
  batch,   \* the batch of this behaviour
  clock,   \* time.Now()
  sent,    \* the requests given to pushReportRequest, oldest first
  errors   \* how many attempts ended before that

reportVars == <<batch, clock, sent, errors>>

(***************************************************************************)
(* Attributes: functions from keys to values [type, text].                 *)
(***************************************************************************)

(* v.Str() is empty for a value of any other type.                         *)
attributesToStringMap(attrs) ==
  [k \in DOMAIN attrs |-> IF attrs[k].type = "Str" THEN attrs[k].text ELSE Blank]

(* The consumer of a resource replaces the configured one, and is no label.*)
parseResourceAttributes(resource) ==
  LET labels == attributesToStringMap(resource)
      found  == "consumer" \in DOMAIN labels
  IN [consumer |-> IF found THEN labels["consumer"] ELSE ConsumerProject,
      labels   |-> [k \in DOMAIN labels \ {"consumer"} |-> labels[k]]]

(***************************************************************************)
(* Metrics.                                                                *)
(***************************************************************************)

(* A slip for the mutation runs: only an unset start is replaced.          *)
getStartIfUnset(aggr, start, end) ==
  [start |-> CASE aggr = "Unspecified" -> end
               [] aggr # "Unspecified" /\ start # 0 -> start
               [] aggr = "Cumulative" /\ start = 0 -> StartedAt
               [] aggr = "Delta" /\ start = 0 -> end - 1,
   end |-> end]

(* Lines 359-398: a gauge's interval is a point in time; a sum's needs a   *)
(* start before its end, made up when the point has none.                  *)
getStartEndTimes(aggr, start, end) ==
  LET given == start # 0 /\ start # end
  IN [start |-> CASE aggr = "Unspecified" -> end
                  [] aggr # "Unspecified" /\ given -> start
                  [] aggr = "Cumulative" /\ ~given -> StartedAt
                  [] aggr = "Delta" /\ ~given -> end - 1,
      end |-> end]

(* A slip for the mutation runs: counts are cast like the total.           *)
toInt64Cast(counts) ==
  [i \in DOMAIN counts |-> IF counts[i] > MaxInt64 THEN counts[i] - 2 * (MaxInt64 + 1) ELSE counts[i]]

(* Lines 531-542: an unsigned count that is no int64 is capped.            *)
toInt64Slice(counts) ==
  [i \in DOMAIN counts |-> IF counts[i] > MaxInt64 THEN MaxInt64 ELSE counts[i]]

SumOf(numbers) == FoldLeft(LAMBDA a, b : a + b, 0, numbers)

(* Lines 475-529.  Mean and SumOfSquaredDeviation are fractions: a         *)
(* numerator and a denominator.  With exemplars both come from them, even  *)
(* when there are fewer of them than values.                               *)
translateDistributionValue(p) ==
  LET total == SumOf(p.exemplars)
      dev   == SumOf([i \in DOMAIN p.exemplars |->
                        (p.count * p.exemplars[i] - total) * (p.count * p.exemplars[i] - total)])
      some  == p.count > 0 /\ p.exemplars # <<>>
  IN [count   |-> IF p.count > MaxInt64 THEN p.count - 2 * (MaxInt64 + 1) ELSE p.count,
      buckets |-> toInt64Slice(p.buckets),
      mean    |-> IF p.count = 0 THEN <<0, 1>> ELSE IF some THEN <<total, p.count>> ELSE <<p.sum, p.count>>,
      squares |-> IF some THEN <<dev, p.count * p.count>> ELSE <<0, 1>>,
      exemplars |-> p.exemplars]

MetricValue(aggr, p, value) ==
  LET times == getStartEndTimes(aggr, p.start, p.end)
  IN [start |-> times.start, end |-> times.end, labels |-> attributesToStringMap(p.attrs), value |-> value]

createNumericMetricValues(aggr, points) ==
  [i \in DOMAIN points |-> MetricValue(aggr, points[i], points[i].value)]

createHistogramMetricValues(aggr, points) ==
  [i \in DOMAIN points |-> MetricValue(aggr, points[i], translateDistributionValue(points[i]))]

(* Summaries and exponential histograms give no value, but an operation.   *)
createMetricValueSet(metric) ==
  CASE metric.type = "Gauge"     -> createNumericMetricValues("Unspecified", metric.points)
    [] metric.type = "Sum"       -> createNumericMetricValues(metric.aggr, metric.points)
    [] metric.type = "Histogram" -> createHistogramMetricValues(metric.aggr, metric.points)
    [] metric.type = "Other"     -> <<>>

(* Lines 307-330: the operation starts with its earliest value, and not    *)
(* after now.                                                              *)
createOperation(resource, metric, now) ==
  LET values == createMetricValueSet(metric)
      starts == {now} \cup {values[i].start : i \in DOMAIN values}
  IN [consumer |-> resource.consumer, labels |-> resource.labels, metric |-> metric, values |-> values,
      start |-> Min(starts), end |-> now]

(* Lines 262-285: one operation per metric of every resource and scope.    *)
MetricOperations(rms, now) ==
  FlattenSeq([i \in DOMAIN rms |->
    [k \in DOMAIN rms[i].metrics |->
      createOperation(parseResourceAttributes(rms[i].resource), rms[i].metrics[k], now)]])

(***************************************************************************)
(* Logs.                                                                   *)
(***************************************************************************)

(* The severity of a number 0 to 24; any other gives DEFAULT and a warning.*)
severityMapping(n) ==
  CASE n \in 1..8   -> "DEBUG"   [] n \in 9..10  -> "INFO"     [] n \in 11..12 -> "NOTICE"
    [] n \in 13..16 -> "WARNING" [] n \in 17..20 -> "ERROR"    [] n \in 21..22 -> "CRITICAL"
    [] n = 23       -> "ALERT"   [] n = 24       -> "EMERGENCY"
    [] OTHER        -> "DEFAULT"

(* The texts a severity may have instead of a number; the variants 2 to 4  *)
(* of each are one more each.                                              *)
otelSeverityForText == [trace |-> 1, debug |-> 5, info |-> 9, warn |-> 13, error |-> 17, fatal |-> 21]

Severity(r) ==
  severityMapping(IF r.severity = 0 /\ r.severityText \in DOMAIN otelSeverityForText
                  THEN otelSeverityForText[r.severityText] ELSE r.severity)

(* A log_name that is there is the name, even when it is empty.            *)
getLogName(r) == IF r.logName # NoName THEN r.logName ELSE DefaultLogName
NameMissing(r) == r.logName = NoName /\ DefaultLogName = Blank

(* Whether an attribute's JSON can be read.                                *)
unmarshalAttribute(attr) == attr = "good"

(* A request whose JSON is bad is left out, with a warning.                *)
parseHTTPRequest(attr) == IF unmarshalAttribute(attr) THEN "good" ELSE "none"

(* json.Marshal writes bytes as a string in base64, which is no object,    *)
(* and no bytes at all (a nil slice) as null, which reads as an empty one. *)
toProtoStruct(bytes) == bytes.size = 0

(* body.json: NewStruct takes the map, or the bytes are a JSON object.     *)
Structured(body) ==
  \/ body.type = "Map" /\ body.json
  \/ body.type = "Bytes" /\ toProtoStruct(body)

(* Lines 262-272: the time of the event, of its observation, or now.       *)
EntryTime(r, now) == IF r.time # 0 THEN r.time ELSE IF r.observed # 0 THEN r.observed ELSE now

(* The size of a text payload counts; that of a structured one does not.   *)
TooBig(r) == ~Structured(r.body) /\ r.body.size > 0 /\ r.body.size > MaxEntrySize

(* The record cannot be an entry: nobody names it, its source location is  *)
(* unreadable, or it is too long.                                          *)
Unparseable(r) == NameMissing(r) \/ r.location = "bad" \/ TooBig(r)

parseLogEntry(r, now) ==
  [name     |-> getLogName(r),
   time     |-> EntryTime(r, now),
   location |-> r.location,
   http     |-> parseHTTPRequest(r.http),
   severity |-> Severity(r),
   payload  |-> IF Structured(r.body) THEN "struct" ELSE IF r.body.size = 0 THEN "none" ELSE "text"]

(* The records of a resource, whatever their scope.                        *)
Records(rl) == FlattenSeq(rl.scopes)

(* A slip for the mutation runs: a bad record is skipped.                  *)
createReadableEntries(rl, now) ==
  LET good == SelectSeq(Records(rl), LAMBDA r : ~Unparseable(r))
  IN [entries |-> [i \in DOMAIN good |-> parseLogEntry(good[i], now)], failed |-> FALSE]

(* Lines 217-240: the entries of the records that can be parsed, and       *)
(* errors.Join of the others' errors.                                      *)
createEntries(rl, now) ==
  LET records == Records(rl)
  IN [entries |-> FlattenSeq([i \in DOMAIN records |->
                    IF Unparseable(records[i]) THEN <<>> ELSE <<parseLogEntry(records[i], now)>>]),
      failed  |-> \E i \in DOMAIN records : Unparseable(records[i])]

(* Lines 193-215: the interval of a log operation is the second up to now. *)
createRequestOperation(rl, now) ==
  LET owner == parseResourceAttributes(rl.resource)
  IN [consumer |-> owner.consumer, labels |-> owner.labels, source |-> rl,
      entries |-> createEntries(rl, now).entries, start |-> now - Second, end |-> now]

(* A batch with one bad record makes no request.                           *)
LogRequestFails(rls, now) == \E i \in DOMAIN rls : createEntries(rls[i], now).failed

LogOperations(rls, now) == [i \in DOMAIN rls |-> createRequestOperation(rls[i], now)]

(***************************************************************************)
(* The two entry points.  OperationId is a fresh uuid each time: here the  *)
(* number of the request and the operation's place in it.                  *)
(***************************************************************************)

ReportInit == batch \in Batches /\ clock = batch.at /\ sent = <<>> /\ errors = 0

Request(operations) == [id |-> Len(sent) + 1, at |-> clock, operations |-> operations]

Push(operations) ==
  sent' = IF operations = <<>> THEN sent ELSE Append(sent, Request(operations))

ConsumeMetrics ==
  /\ batch.signal = "metrics"
  /\ Len(sent) < MaxAttempts
  /\ Push(MetricOperations(batch.resources, clock))
  /\ UNCHANGED <<batch, clock, errors>>

ConsumeLogs ==
  /\ batch.signal = "logs"
  /\ Len(sent) + errors < MaxAttempts
  /\ IF LogRequestFails(batch.resources, clock)
       THEN errors' = errors + 1 /\ UNCHANGED sent
       ELSE Push(LogOperations(batch.resources, clock)) /\ UNCHANGED errors
  /\ UNCHANGED <<batch, clock>>

ReportTick == clock < MaxTime /\ clock' = clock + 1 /\ UNCHANGED <<batch, sent, errors>>

ReportNext == ConsumeMetrics \/ ConsumeLogs \/ ReportTick

ReportSpec == ReportInit /\ [][ReportNext]_reportVars

(***************************************************************************)
(* Properties.                                                             *)
(***************************************************************************)

SentOperations == UNION {Range(sent[i].operations) : i \in DOMAIN sent}

(* How the interval of value v, made for point p, relates to the API: a    *)
(* gauge's is a point in time, and a sum's or a histogram's starts before  *)
(* it ends, with two exceptions: a start that the point has and that is    *)
(* after its end goes on as it came, and the exporter's start, taken for a *)
(* point without one, may be no earlier than the point.                    *)
IntervalFits(aggr, p, v) ==
  IF aggr = "Unspecified" THEN v.start = v.end
  ELSE \/ v.start < v.end
       \/ p.start > p.end /\ v.start = p.start
       \/ aggr = "Cumulative" /\ p.start \in {0, p.end} /\ p.end <= StartedAt /\ v.start = StartedAt

Temporality(metric) == IF metric.type = "Gauge" THEN "Unspecified" ELSE metric.aggr

(* What becomes of the API's rules for intervals (the comments of          *)
(* exporter.go:359-390): those of the values fit, but for the exceptions   *)
(* above, and an operation covers the starts of its values up to now,      *)
(* however many points the metric has and whichever of them have a start.  *)
IntervalsFitAPI ==
  batch.signal = "metrics" => \A op \in SentOperations :
    /\ op.start <= op.end
    /\ \A i \in DOMAIN op.values :
         /\ op.start <= op.values[i].start
         /\ IntervalFits(Temporality(op.metric), op.metric.points[i], op.values[i])

(* A histogram is reported with counts that are no negative numbers and,   *)
(* while the total is an int64, add up to it; with no value it has no mean *)
(* and no deviation (exporter.go:475-542).                                 *)
DistributionFitsAPI ==
  batch.signal = "metrics" => \A op \in SentOperations : op.metric.type = "Histogram" =>
    \A i \in DOMAIN op.values :
      LET d == op.values[i].value
      IN /\ \A b \in DOMAIN d.buckets : d.buckets[b] >= 0
         /\ d.count > 0 => SumOf(d.buckets) = d.count
         /\ d.count = 0 => d.mean = <<0, 1>> /\ d.squares = <<0, 1>>

(* "one otel log will always be one log entry" (logs.go:251-253): a report *)
(* has an entry for each record of each resource, in their order, with a   *)
(* time and a name, although single records may be unfit.  The name is     *)
(* empty only if the record itself says so.                                *)
LogEntriesFaithful ==
  batch.signal = "logs" => \A op \in SentOperations :
    LET records == Records(op.source)
    IN /\ Len(op.entries) = Len(records)
       /\ \A i \in DOMAIN records :
            /\ op.entries[i].name # NoName
            /\ op.entries[i].name = Blank => records[i].logName = Blank
            /\ op.entries[i].time # 0
            /\ records[i].time # 0 => op.entries[i].time = records[i].time
            /\ records[i].body.size > 0 => op.entries[i].payload # "none"
=============================================================================

---------------------------- MODULE MetricsBuilder ----------------------------
(***************************************************************************)
(* The metrics builder of the four receivers (generated_metrics.go, the    *)
(* same template in each): points are recorded one at a time, points that  *)
(* the configuration leaves nothing to tell apart by are merged, and what  *)
(* was recorded is emitted under a resource.  The metrics of a builder do  *)
(* not touch each other, so the model follows one, any of the tables.      *)
(* Doubles are counted in sixths, which makes their averages exact.        *)
(***************************************************************************)
EXTENDS Integers, Sequences, FiniteSets, FiniteSetsExt, Functions,
        MongodbMetrics, DcgmMetrics, VarnishMetrics, NvmlMetrics

CONSTANT Values  \* the values recorded between two calls of Emit, in turn

AllMetrics ==
  MongodbMetricsInfo \cup DcgmMetricsInfo \cup VarnishMetricsInfo \cup NvmlMetricsInfo

VARIABLES
  metric,         \* the metric, and the attribute in which points may differ
  varied,
  config,         \* its configuration, the user's or the default
  data,           \* the points recorded and not emitted, merged
  aggDataPoints,  \* for each of them, how many were added up in it
  metricsBuffer,  \* what was emitted for resources and not returned by Emit;
                  \* with it the points that it was made from
  returned,       \* what Emit returned last
  recorded,       \* the points recorded since the last emit, as they came
  taken           \* number of values recorded since the last Emit

vars == <<metric, varied, config, data, aggDataPoints, metricsBuffer, returned,
          recorded, taken>>

NoAttribute == "none"

(* The configurations that Validate lets pass: each strategy, with all     *)
(* attributes, without the one that varies, or without any.                *)
Configs(m, a) ==
  {c \in [enabled : BOOLEAN, strategy : Strategies,
          attributes : {m.attributes, m.attributes \ {a}, {}}] : Validate(m, c)}

Init ==
  /\ metric \in AllMetrics
  /\ varied \in IF metric.attributes = {} THEN {NoAttribute} ELSE metric.attributes
  /\ config \in Configs(metric, varied)
  /\ data = <<>>
  /\ aggDataPoints = <<>>
  /\ metricsBuffer = <<>>
  /\ returned = <<>>
  /\ recorded = <<>>
  /\ taken = 0

-----------------------------------------------------------------------------
(* A point that a scraper records: two values of one attribute, two times. *)
Inputs ==
  {[ts |-> ts, attributes |-> [a \in metric.attributes |-> IF a = varied THEN v ELSE 1]] :
     ts \in 1 .. 2, v \in 1 .. 2}

Reading == Values[taken + 1] * (IF metric.value = "Double" THEN 6 ELSE 1)

(* A point keeps the attributes that are enabled.                          *)
Point(input, val) ==
  [ts |-> input.ts, value |-> val,
   attributes |-> [a \in config.attributes |-> input.attributes[a]]]

SameSeries(p, q) == p.ts = q.ts /\ p.attributes = q.attributes

(* The switch over the strategies for a point that is there already.       *)
Merged(old, val) ==
  CASE config.strategy \in {"sum", "avg"} -> old + val
    [] config.strategy = "min" -> IF old > val THEN val ELSE old
    [] config.strategy = "max" -> IF old < val THEN val ELSE old

(* recordDataPoint.  A metric without attributes does not merge.           *)
Append1(dp) ==
  /\ data' = Append(data, dp)
  /\ aggDataPoints' = Append(aggDataPoints, 1)

MergeInto(i, val) ==
  /\ data' = [data EXCEPT ![i].value = Merged(@, val)]
  /\ aggDataPoints' = IF config.strategy \in {"sum", "avg"}
                        THEN [aggDataPoints EXCEPT ![i] = @ + 1] ELSE aggDataPoints

recordDataPoint(dp) ==
  IF ~ config.enabled THEN UNCHANGED <<data, aggDataPoints>>
  ELSE LET same == {i \in 1 .. Len(data) : SameSeries(data[i], dp)}
       IN IF metric.attributes = {} \/ same = {} THEN Append1(dp)
          ELSE MergeInto(Min(same), dp.value)

Record ==
  /\ taken < Len(Values)
  /\ \E input \in Inputs :
       LET dp == Point(input, Reading) IN
       /\ recordDataPoint(dp)
       /\ recorded' = Append(recorded, dp)
  /\ taken' = taken + 1
  /\ returned' = <<>>
  /\ UNCHANGED <<metric, varied, config, metricsBuffer>>

-----------------------------------------------------------------------------
(* emit: averages are divided, by the number of points in each.            *)
Averages == config.strategy = "avg" /\ metric.attributes # {}

Finished ==
  [i \in 1 .. Len(data) |->
     IF Averages THEN [data[i] EXCEPT !.value = @ \div aggDataPoints[i]] ELSE data[i]]

(* A slip for the mutation runs: the counts are kept.                      *)
InitKeepsCounts == data' = <<>> /\ UNCHANGED aggDataPoints

(* init, when a metric was emitted.                                        *)
InitMetric == data' = <<>> /\ aggDataPoints' = <<>>

emit == IF data = <<>> THEN UNCHANGED <<data, aggDataPoints>> ELSE InitMetric

Batch == [points |-> Finished, from |-> recorded]

(* EmitForResource: nothing to emit adds no resource, and neither does a   *)
(* resource that the filters of its attributes turn away: its points are   *)
(* gone all the same.  The nvml receiver has no resource attributes.       *)
Filtered == IF metric \in NvmlMetricsInfo THEN {FALSE} ELSE BOOLEAN

Buffered(filtered) ==
  IF data = <<>> \/ filtered THEN metricsBuffer ELSE Append(metricsBuffer, Batch)

EmitForResource ==
  /\ \E filtered \in Filtered : metricsBuffer' = Buffered(filtered)
  /\ emit
  /\ recorded' = <<>>
  /\ UNCHANGED <<metric, varied, config, returned, taken>>

(* Emit: the same, and the buffer is handed over.                          *)
Emit ==
  /\ \E filtered \in Filtered : returned' = Buffered(filtered)
  /\ emit
  /\ metricsBuffer' = <<>>
  /\ recorded' = <<>>
  /\ taken' = 0
  /\ UNCHANGED <<metric, varied, config>>

Next == Record \/ EmitForResource \/ Emit

Spec == Init /\ [][Next]_vars
-----------------------------------------------------------------------------
(* What a series should show for the points recorded for it.               *)
Combined(from, series) ==
  LET of == {i \in 1 .. Len(from) : SameSeries(from[i], series)}
      values == {from[i].value : i \in of}
      total == MapThenSumSet(LAMBDA i : from[i].value, of)
  IN CASE config.strategy = "sum" -> total
       [] config.strategy = "avg" -> total \div Cardinality(of)
       [] config.strategy = "min" -> Min(values)
       [] config.strategy = "max" -> Max(values)

IsAggregate(batch) ==
  IF metric.attributes = {} THEN batch.points = batch.from
  ELSE /\ \A p \in Range(batch.from) :
            \E q \in Range(batch.points) : SameSeries(p, q)
       /\ \A i, j \in 1 .. Len(batch.points) :
            SameSeries(batch.points[i], batch.points[j]) => i = j
       /\ \A p \in Range(batch.points) : p.value = Combined(batch.from, p)

(* What is emitted is what was recorded since the last emit, one point per *)
(* series, added up, averaged or at its extreme over all points of the     *)
(* series and no others (recordDataPoint and emit of generated_metrics.go, *)
(* for instance nvmlreceiver's 98-162); a metric that is disabled emits    *)
(* nothing.                                                                *)
EmittedIsAggregate ==
  LET batches == Range(metricsBuffer) \cup Range(returned)
  IN IF config.enabled THEN \A b \in batches \cup {Batch} : IsAggregate(b)
     ELSE batches = {} /\ data = <<>>
=============================================================================

--------------------------- MODULE MCServiceControl ---------------------------
(* The queue of the googleservicecontrol exporter, or what it makes of one *)
(* batch.  The queue never looks into a batch, and building a request does *)
(* not depend on other batches, so each behaviour shows one of the two.    *)
EXTENDS ServiceControlQueue, ServiceControlReport, TLC

VARIABLE building  \* which of the two this behaviour is

CONSTANTS consumerX, nameX, textX

Text == [type |-> "Str", text |-> textX]
Number == [type |-> "Int", text |-> textX]

Resources == {("consumer" :> [type |-> "Str", text |-> consumerX]) @@ ("zone" :> Text), "zone" :> Number}

(* Points from before and after the exporter's start, with and without one,*)
(* and one whose start is after its end.                                   *)
Numbers ==
  {[start |-> 0, end |-> 2, attrs |-> "device" :> Text, value |-> 1],
   [start |-> 4, end |-> 3, attrs |-> "device" :> Text, value |-> 1],
   [start |-> 0, end |-> 3, attrs |-> "device" :> Text, value |-> 1],
   [start |-> 1, end |-> 4, attrs |-> "device" :> Number, value |-> 2],
   [start |-> 4, end |-> 4, attrs |-> "device" :> Text, value |-> 3]}

Histograms ==
  {[start |-> 2, end |-> 2, attrs |-> "device" :> Text, count |-> 1, sum |-> 1, buckets |-> <<1, 0>>, exemplars |-> <<>>],
   [start |-> 0, end |-> 3, attrs |-> "device" :> Text, count |-> 0, sum |-> 0, buckets |-> <<0, 0>>, exemplars |-> <<2>>],
   [start |-> 1, end |-> 4, attrs |-> "device" :> Text, count |-> 3, sum |-> 5, buckets |-> <<1, 2>>, exemplars |-> <<1, 4>>],
   [start |-> 4, end |-> 4, attrs |-> "device" :> Text, count |-> 4, sum |-> 9, buckets |-> <<0, 4>>, exemplars |-> <<>>],
   [start |-> 2, end |-> 4, attrs |-> "device" :> Text, count |-> 9, sum |-> 9, buckets |-> <<9, 0>>, exemplars |-> <<>>]}

PointLists(points) == {<<>>} \cup {<<p>> : p \in points} \cup {<<p, q>> : p \in points, q \in points}

Metrics ==
  [type : {"Gauge"}, aggr : {"Unspecified"}, points : PointLists(Numbers)] \cup
  [type : {"Sum"}, aggr : {"Cumulative", "Delta"}, points : PointLists(Numbers)] \cup
  [type : {"Histogram"}, aggr : {"Cumulative", "Delta"}, points : PointLists(Histograms)] \cup
  [type : {"Other"}, aggr : {"Unspecified"}, points : {<<>>}]

MetricBatches ==
  {[signal |-> "metrics", at |-> 4, resources |-> <<>>]} \cup
  {[signal |-> "metrics", at |-> 4, resources |-> <<[resource |-> r, metrics |-> <<m>>]>>] :
     r \in Resources, m \in Metrics} \cup
  {[signal |-> "metrics", at |-> 4, resources |-> <<[resource |-> r, metrics |-> <<>>], [resource |-> r, metrics |-> <<m, m>>]>>] :
     r \in Resources, m \in Metrics}

Record(name, time, location, http, body) ==
  [logName |-> name, time |-> time, observed |-> IF time = 0 THEN 3 ELSE 0, location |-> location,
   http |-> http, severity |-> IF time = 0 THEN 0 ELSE 22, severityText |-> "info", body |-> body]

(* A map's text is never empty; no bytes at all are no JSON object.        *)
Bodies ==
  [type : {"Str"}, json : {FALSE}, size : {0, 2, 5}] \cup
  [type : {"Map", "Bytes"}, json : BOOLEAN, size : {2, 5}] \cup
  [type : {"Bytes"}, json : {FALSE}, size : {0}]

LogRecords ==
  {Record(n, t, l, h, b) :
     n \in {nameX, NoName, Blank}, t \in {0, 2}, l \in {"none", "good", "bad"}, h \in {"none", "bad"},
     b \in Bodies}

GoodRecord == Record(nameX, 0, "none", "good", [type |-> "Bytes", json |-> TRUE, size |-> 2])

LogBatches ==
  {[signal |-> "logs", at |-> 4, resources |-> <<>>]} \cup
  {[signal |-> "logs", at |-> 4, resources |->
     <<[resource |-> r, scopes |-> <<<<GoodRecord>>, <<x>>>>], [resource |-> r, scopes |-> <<<<GoodRecord>>>>]>>] :
     r \in Resources, x \in LogRecords}

MCBatches == MetricBatches \cup LogBatches

NoReport == batch = [signal |-> "none"] /\ clock = 0 /\ sent = <<>> /\ errors = 0

OneQueue ==
  /\ signal = "metrics" /\ due = [s \in Streams |-> 0] /\ made = [s \in Streams |-> 0] /\ bad = {} /\ queue = <<>>
  /\ consumer = [c \in Consumers |-> Idle] /\ fate = [b \in Batch |-> "none"] /\ state = "failed" /\ client = "none"

MCInit ==
  \/ building = TRUE /\ ReportInit /\ OneQueue
  \/ building = FALSE /\ QueueInit /\ NoReport

MCNext ==
  /\ UNCHANGED building
  /\ \/ building /\ ReportNext /\ UNCHANGED queueVars
     \/ ~building /\ QueueNext /\ UNCHANGED reportVars

MCSpec == MCInit /\ [][MCNext]_<<queueVars, reportVars, building>> /\ (~building => QueueFairness)
=============================================================================

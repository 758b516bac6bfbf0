---------------------------- MODULE NormalizeSums ----------------------------
(***************************************************************************)
(* The normalizesums processor (processor.go) between a source of counters *)
(* and the next consumer.  The source counts, restarts from zero, and is   *)
(* scraped: a scrape is one sum metric with a data point per stream.  The  *)
(* processor turns a monotonic sum without start time into intervals that  *)
(* start at a point it remembers in its history.                           *)
(*                                                                         *)
(* A sample carries, besides what the code sees (ts, val, start), the      *)
(* field base: what the source had counted before its last restart.  No    *)
(* action of the processor reads it; the properties do.                    *)
(***************************************************************************)
EXTENDS Naturals, Sequences

CONSTANTS
  Streams,     \* resource attributes + metric name + labels: dataPointIdentifier
  Layouts,     \* the orders in which a metric may list its data points
  StartKnown,  \* streams whose source sets the start timestamp itself
  RawSets,     \* choices of the streams that may be passed on as they came
  MaxTime,     \* bound on the clock
  MaxTotal,    \* bound on what the source of a stream counts
  MaxClosed,   \* bound on what was reported of a stream when it passes as it came
  None         \* no history entry, no point sent

ASSUME LayoutAssumption == Layouts \subseteq Seq(Streams)
ASSUME BoundAssumption == MaxTime \in Nat /\ MaxTotal \in [Streams -> Nat] /\ StartKnown \subseteq Streams
ASSUME RawAssumption == RawSets \subseteq SUBSET Streams

Kinds == {"monotonic", "nonmonotonic", "gauge"}

Deliveries == {"none", "as it came", "normalised", "nothing"}

Sample   == [ts: Nat, val: Nat, base: Nat]
Point    == [stream: Streams, ts: Nat, val: Nat, base: Nat, start: Nat]
Entry    == [start: Sample, last: Sample]
Interval == [start: Nat, end: Nat, val: Nat]

ASSUME NoneAssumption == None \notin Entry /\ None \notin Interval

VARIABLES
  forward,    \* whether the clock of this host is never set back
  raw,        \* streams that may come in a metric the processor does not touch
  clock,      \* wall clock of the scraper
  count,      \* value of the source's counter
  base,       \* what the source counted before it last restarted
  history,    \* NormalizeSumsProcessor.history
  todo,       \* data points of the metric in processing, not visited yet
  out,        \* data points of it that are kept
  busy,       \* a metric is in processing
  delivered,  \* what the next consumer gets of the last metric
  sent,       \* last point of each stream's monotonic sum the consumer got
  closed      \* sum of the last values of a stream's earlier intervals

source == <<clock, count, base>>
vars   == <<forward, raw, source, history, todo, out, busy, delivered, sent, closed>>

Init ==
  /\ forward \in BOOLEAN
  /\ raw \in RawSets
  /\ clock = 1
  /\ count = [s \in Streams |-> 0]
  /\ base = [s \in Streams |-> 0]
  /\ history = [s \in Streams |-> None]
  /\ todo = <<>>
  /\ out = <<>>
  /\ busy = FALSE
  /\ delivered = "none"
  /\ sent = [s \in Streams |-> None]
  /\ closed = [s \in Streams |-> 0]

-----------------------------------------------------------------------------
(* The source.  It goes on while the processor runs.                       *)

Count(s) ==
  /\ base[s] + count[s] < MaxTotal[s]
  /\ count' = [count EXCEPT ![s] = @ + 1]
  /\ UNCHANGED <<clock, base, history, todo, out, busy, delivered, sent, closed>>

(* The counter restarts, or rolls over.                                    *)
Restart(s) ==
  /\ count[s] > 0
  /\ base' = [base EXCEPT ![s] = @ + count[s]]
  /\ count' = [count EXCEPT ![s] = 0]
  /\ UNCHANGED <<clock, history, todo, out, busy, delivered, sent, closed>>

Tick ==
  /\ clock < MaxTime
  /\ clock' = clock + 1
  /\ UNCHANGED <<count, base, history, todo, out, busy, delivered, sent, closed>>

(* The clock is set back; the code has a TODO for it at line 128.          *)
ClockStep ==
  /\ clock > 1
  /\ clock' \in 1 .. clock - 1
  /\ UNCHANGED <<count, base, history, todo, out, busy, delivered, sent, closed>>

Scraped(s) ==
  [stream |-> s, ts |-> clock, val |-> count[s], base |-> base[s],
   start |-> IF s \in StartKnown THEN 1 ELSE 0]

(* What a consumer sees of that point when nobody rewrites it.             *)
AsItCame(s) == [start |-> Scraped(s).start, end |-> clock, val |-> count[s]]

Points(layout) == [i \in DOMAIN layout |-> Scraped(layout[i])]

-----------------------------------------------------------------------------
(* ProcessMetrics, one metric at a time.                                   *)

(* processMetric rewrites a monotonic sum whose first point has no start.  *)
Normalizable(kind, points) ==
  /\ kind = "monotonic"
  /\ points # <<>>
  /\ Head(points).start = 0

Listed(layout) == {layout[i] : i \in DOMAIN layout}

(* The consumer's view: a point with another start time closes the         *)
(* interval before it.                                                     *)
Send(s, point) ==
  /\ sent' = [sent EXCEPT ![s] = point]
  /\ closed' = IF sent[s] # None /\ sent[s].start # point.start
               THEN [closed EXCEPT ![s] = @ + sent[s].val]
               ELSE closed

(* A metric that is no monotonic sum, or has no points.                    *)
PassOther(kind, layout) ==
  /\ ~busy
  /\ kind # "monotonic" \/ layout = <<>>
  /\ delivered' = "as it came"
  /\ UNCHANGED <<source, history, todo, out, busy, sent, closed>>

(* A monotonic sum whose first point has a start goes on with all its      *)
(* points as they came, those of streams without a start too.              *)
PassThrough(layout) ==
  /\ ~busy
  /\ layout # <<>>
  /\ ~Normalizable("monotonic", Points(layout))
  /\ Listed(layout) \subseteq raw
  /\ \A s \in Listed(layout) : closed[s] <= MaxClosed
  /\ delivered' = "as it came"
  /\ sent' = [s \in Streams |->
                IF s \in Listed(layout) THEN AsItCame(s) ELSE sent[s]]
  /\ closed' = [s \in Streams |->
                  IF s \in Listed(layout) /\ sent[s] # None
                       /\ sent[s].start # AsItCame(s).start
                  THEN closed[s] + sent[s].val
                  ELSE closed[s]]
  /\ UNCHANGED <<source, history, todo, out, busy>>

BeginMetric(layout) ==
  /\ ~busy
  /\ Normalizable("monotonic", Points(layout))
  /\ busy' = TRUE
  /\ todo' = Points(layout)
  /\ out' = <<>>
  /\ UNCHANGED <<source, history, delivered, sent, closed>>

(* An empty result drops the metric.                                       *)
EndMetric ==
  /\ busy
  /\ todo = <<>>
  /\ busy' = FALSE
  /\ out' = <<>>
  /\ delivered' = IF out # <<>> THEN "normalised" ELSE "nothing"
  /\ UNCHANGED <<source, history, todo, sent, closed>>

-----------------------------------------------------------------------------
(* processSumDataPoint: the four outcomes for the next point.              *)

AsSample(p) == [ts |-> p.ts, val |-> p.val, base |-> p.base]

(* Slips of these two comparisons, for the mutation runs.                  *)
OnlyStrictlyOlder(e, p)  == p.ts < e.start.ts
RolledOverOnEqual(e, p)  == p.val <= e.last.val
RolledOverAtStart(e, p)  == p.val < e.start.val

OlderThanStart(e, p) == p.ts <= e.start.ts
RolledOver(e, p)     == p.val < e.last.val

Take(p) ==
  /\ busy
  /\ todo # <<>>
  /\ p = Head(todo)
  /\ todo' = Tail(todo)
  /\ UNCHANGED <<source, busy, delivered>>

StartHistory(p) ==
  /\ Take(p)
  /\ history[p.stream] = None
  /\ history' = [history EXCEPT ![p.stream] =
                   [start |-> AsSample(p), last |-> AsSample(p)]]
  /\ UNCHANGED <<out, sent, closed>>

DropOlder(p) ==
  /\ Take(p)
  /\ history[p.stream] # None
  /\ OlderThanStart(history[p.stream], p)
  /\ UNCHANGED <<history, out, sent, closed>>

Reset(p) ==
  /\ Take(p)
  /\ history[p.stream] # None
  /\ ~OlderThanStart(history[p.stream], p)
  /\ RolledOver(history[p.stream], p)
  /\ history' = [history EXCEPT ![p.stream] =
                   [start |-> AsSample(p), last |-> AsSample(p)]]
  /\ UNCHANGED <<out, sent, closed>>

(* A slip for the mutation runs: the start time moves on, its value stays. *)
EmitStartMoved(p) ==
  LET s == p.stream
      e == history[s]
  IN  /\ Take(p)
      /\ e # None /\ ~OlderThanStart(e, p) /\ ~RolledOver(e, p)
      /\ history' = [history EXCEPT ![s] =
                       [start |-> [e.start EXCEPT !.ts = p.ts], last |-> AsSample(p)]]
      /\ out' = Append(out, [p EXCEPT !.val = @ - e.start.val, !.start = e.start.ts])
      /\ Send(s, [start |-> e.start.ts, end |-> p.ts, val |-> p.val - e.start.val])

Emit(p) ==
  LET s == p.stream
      e == history[s]
  IN  /\ Take(p)
      /\ e # None
      /\ ~OlderThanStart(e, p)
      /\ ~RolledOver(e, p)
      /\ history' = [history EXCEPT ![s] = [start |-> e.start, last |-> AsSample(p)]]
      /\ out' = Append(out, [p EXCEPT !.val = @ - e.start.val, !.start = e.start.ts])
      /\ Send(s, [start |-> e.start.ts, end |-> p.ts, val |-> p.val - e.start.val])

ProcessPoint(p) == StartHistory(p) \/ DropOlder(p) \/ Reset(p) \/ Emit(p)

-----------------------------------------------------------------------------
NextForward ==
  \/ \E s \in Streams : Count(s) \/ Restart(s)
  \/ Tick
  \/ \E kind \in Kinds, layout \in Layouts : PassOther(kind, layout)
  \/ \E layout \in Layouts : PassThrough(layout)
  \/ \E layout \in Layouts : BeginMetric(layout)
  \/ todo # <<>> /\ ProcessPoint(Head(todo))
  \/ EndMetric

Next ==
  /\ NextForward \/ (~forward /\ ClockStep)
  /\ UNCHANGED <<forward, raw>>

Spec == Init /\ [][Next]_vars

-----------------------------------------------------------------------------
(* Every variable stays in its type; in particular no value sent on is     *)
(* negative, which the subtraction of processor.go:154 does not exclude    *)
(* by itself.                                                              *)
TypeOK ==
  /\ forward \in BOOLEAN
  /\ raw \subseteq Streams
  /\ clock \in Nat
  /\ count \in [Streams -> Nat]
  /\ base \in [Streams -> Nat]
  /\ history \in [Streams -> Entry \cup {None}]
  /\ todo \in Seq(Point)
  /\ out \in Seq(Point)
  /\ busy \in BOOLEAN
  /\ delivered \in Deliveries
  /\ sent \in [Streams -> Interval \cup {None}]
  /\ closed \in [Streams -> Nat]

(* Everything the consumer can add up for a stream.                        *)
Reported(s) == closed[s] + (IF sent[s] = None THEN 0 ELSE sent[s].val)

(* The consumer never counts more than the source counted, whatever the    *)
(* restarts, the clock and the dropped points: processSumDataPoint skips   *)
(* the first point and the point after a decrease "in favor of providing   *)
(* only accurate data".  That is so for the streams of which no point goes *)
(* on as it came; UnsetStartsAccurate is about the others.                 *)
NoOverReport == \A s \in Streams \ raw : Reported(s) <= base[s] + count[s]

(* The same for every stream whose source sets no start time, in whatever  *)
(* metric it comes: the processor's README says of all of them that they   *)
(* "will be normalized".  The code asks the first point of a metric only   *)
(* (processor.go:88), and the points behind one that has a start go on     *)
(* unnormalised.                                                           *)
UnsetStartsAccurate ==
  \A s \in Streams \ StartKnown : Reported(s) <= base[s] + count[s]

(* A normalised point ends after it starts: the guard against points older *)
(* than the start point, whichever way the clock moved since.              *)
IntervalsForward == \A i \in DOMAIN out : out[i].start < out[i].ts

(* Why NoOverReport holds.  Of two samples of a counter the later one      *)
(* either continues the count or belongs to a run that began after the     *)
(* earlier sample was taken.                                               *)
Later(p, q) ==
  \/ q.base = p.base /\ p.val <= q.val
  \/ p.base + p.val <= q.base

Behind(p, s) == Later(p, [base |-> base[s], val |-> count[s]])

(* The samples on their way are in the order in which they were taken.     *)
SamplesInOrder ==
  \A i \in DOMAIN todo :
    /\ Behind(todo[i], todo[i].stream)
    /\ history[todo[i].stream] # None
         => Later(history[todo[i].stream].last, todo[i])
    /\ \A j \in DOMAIN todo :
         i < j /\ todo[i].stream = todo[j].stream => Later(todo[i], todo[j])

(* Some point of the current interval was sent.                            *)
InInterval(s) == sent[s] # None /\ sent[s].start = history[s].start.ts

(* What was reported in the intervals before the current one.              *)
ReportedBefore(s) ==
  IF InInterval(s) \/ sent[s] = None THEN closed[s] ELSE closed[s] + sent[s].val

(* The history entry of a stream accounts for what was sent: the current   *)
(* interval up to its last point, and the earlier ones by what the source  *)
(* had counted when the current interval began.                            *)
Accounts(s) ==
  LET e == history[s] IN
  IF e = None
  THEN sent[s] = None /\ closed[s] = 0
  ELSE /\ Behind(e.last, s)
       /\ e.start.val <= e.last.val
       /\ sent[s] = None => closed[s] = 0
       /\ sent[s] # None => sent[s].start <= e.start.ts
       /\ InInterval(s) => sent[s].val = e.last.val - e.start.val
       /\ ~InInterval(s) => e.last = e.start
       /\ ReportedBefore(s) <= e.last.base + e.start.val

HistoryAccounts == \A s \in Streams \ raw : Accounts(s)

(* The recorded last point of a stream is a sample of its past.            *)
HistoryBehind == \A s \in Streams : history[s] # None => Behind(history[s].last, s)

(* The start point of a stream moves only when its source restarted after  *)
(* the last recorded point: no reset is declared on an unbroken counter.   *)
ResetOnlyAfterRestart ==
  [][\A s \in Streams :
       history[s] # None /\ history'[s].start # history[s].start
         => history'[s].start.base >= history[s].last.base + history[s].last.val]_vars

(* With a clock that never goes back, what is sent downstream of a stream  *)
(* that is always normalised is a well-formed cumulative stream.  Nothing  *)
(* is claimed for other clocks, with which intervals may overlap (TODO at  *)
(* processor.go:128), nor for a stream whose points also go on as they     *)
(* came.                                                                   *)
Downstream ==
  INSTANCE CumulativeStreams
    WITH sent <- [s \in Streams |-> IF forward /\ s \notin raw THEN sent[s] ELSE None]
DownstreamSpec == Downstream!Spec
=============================================================================

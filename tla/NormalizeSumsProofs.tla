------------------------- MODULE NormalizeSumsProofs -------------------------
(***************************************************************************)
(* Theorems about NormalizeSums, for every set of streams, every layout of *)
(* the metrics and every bound.                                            *)
(***************************************************************************)
EXTENDS NormalizeSums, TLAPS

(* A start point is never above the last point: a lower one resets it.     *)
EntriesOrdered ==
  \A s \in Streams : history[s] # None => history[s].start.val <= history[s].last.val

(* Scraping a layout gives one data point per entry, in the same order.    *)
LEMMA PointsType ==
  ASSUME TypeOK, NEW layout \in Layouts
  PROVE  /\ Points(layout) \in Seq(Point)
         /\ DOMAIN Points(layout) = DOMAIN layout
         /\ \A i \in DOMAIN layout : Points(layout)[i] = Scraped(layout[i])
<1>1. layout \in Seq(Streams)
  BY LayoutAssumption
<1>2. \A s \in Streams : Scraped(s) \in Point
  BY DEF TypeOK, Scraped, Point
<1>3. Points(layout) = [i \in 1 .. Len(layout) |-> Scraped(layout[i])]
  BY <1>1 DEF Points
<1>4. \A i \in 1 .. Len(layout) : Scraped(layout[i]) \in Point
  BY <1>1, <1>2
<1>5. QED
  BY <1>1, <1>3, <1>4

(* The head of a nonempty sequence of points is a point.                   *)
LEMMA HeadPoint ==
  ASSUME TypeOK, todo # <<>>
  PROVE  /\ Head(todo) \in Point
         /\ Tail(todo) \in Seq(Point)
         /\ 1 \in DOMAIN todo
         /\ Head(todo) = todo[1]
         /\ \A i \in DOMAIN Tail(todo) :
              i + 1 \in DOMAIN todo /\ Tail(todo)[i] = todo[i + 1] /\ i \in Nat
BY DEF TypeOK

(* Every variable keeps its type: what processSumDataPoint emits is a      *)
(* natural number, never a negative delta.                                 *)
THEOREM TypeCorrect == Spec => [](TypeOK /\ EntriesOrdered)
<1>1. Init => TypeOK /\ EntriesOrdered
  <2>1. <<>> \in Seq(Point)
    OBVIOUS
  <2>3. Init => TypeOK
    <3> SUFFICES ASSUME Init PROVE TypeOK
      OBVIOUS
    <3>1. todo \in Seq(Point) /\ out \in Seq(Point)
      BY <2>1 DEF Init
    <3>2. delivered \in Deliveries /\ forward \in BOOLEAN /\ raw \subseteq Streams
      BY RawAssumption DEF Init, Deliveries
    <3>3. clock \in Nat /\ busy \in BOOLEAN /\ base \in [Streams -> Nat]
      BY DEF Init
    <3>3a. count \in [Streams -> Nat] /\ closed \in [Streams -> Nat]
      BY DEF Init
    <3>4. history \in [Streams -> Entry \cup {None}]
      BY DEF Init
    <3>5. sent \in [Streams -> Interval \cup {None}]
      BY DEF Init
    <3>6. QED
      BY <3>1, <3>2, <3>3, <3>3a, <3>4, <3>5 DEF TypeOK
  <2>4. Init => EntriesOrdered
    BY DEF Init, EntriesOrdered
  <2>5. QED
    BY <2>3, <2>4
<1>2. TypeOK /\ EntriesOrdered /\ [Next]_vars => (TypeOK /\ EntriesOrdered)'
  <2> SUFFICES ASSUME TypeOK, EntriesOrdered, [Next]_vars
               PROVE  (TypeOK /\ EntriesOrdered)'
    OBVIOUS
  <2>0. forward' = forward /\ raw' = raw
    BY DEF Next, vars
  <2> USE <2>0 DEF TypeOK, EntriesOrdered
  <2>1. ASSUME NEW s \in Streams, Count(s) PROVE (TypeOK /\ EntriesOrdered)'
    BY <2>1 DEF Count
  <2>2. ASSUME NEW s \in Streams, Restart(s) PROVE (TypeOK /\ EntriesOrdered)'
    BY <2>2 DEF Restart
  <2>3. CASE Tick
    BY <2>3 DEF Tick
  <2>4. CASE ClockStep
    BY <2>4 DEF ClockStep
  <2>5. ASSUME NEW kind \in Kinds, NEW layout \in Layouts, PassOther(kind, layout)
        PROVE  (TypeOK /\ EntriesOrdered)'
    BY <2>5 DEF PassOther, source, Deliveries
  <2>5a. ASSUME NEW layout \in Layouts, PassThrough(layout)
         PROVE  (TypeOK /\ EntriesOrdered)'
    <3>1. \A s \in Streams : AsItCame(s) \in Interval
      BY DEF AsItCame, Scraped, Interval
    <3>2. sent' \in [Streams -> Interval \cup {None}]
      BY <2>5a, <3>1 DEF PassThrough
    <3>3. \A s \in Streams : sent[s] # None => sent[s].val \in Nat
      BY DEF Interval
    <3>4. closed' \in [Streams -> Nat]
      <4> DEFINE new(s) == IF s \in Listed(layout) /\ sent[s] # None
                                /\ sent[s].start # AsItCame(s).start
                           THEN closed[s] + sent[s].val
                           ELSE closed[s]
      <4>1. \A s \in Streams : new(s) \in Nat
        BY <3>3
      <4>2. closed' = [s \in Streams |-> new(s)]
        BY <2>5a DEF PassThrough
      <4> HIDE DEF new
      <4>3. QED
        BY <4>1, <4>2
    <3>5. QED
      BY <2>5a, <3>2, <3>4 DEF PassThrough, source, Deliveries
  <2>6. ASSUME NEW layout \in Layouts, BeginMetric(layout) PROVE (TypeOK /\ EntriesOrdered)'
    BY <2>6, PointsType DEF BeginMetric, source
  <2>7. CASE EndMetric
    BY <2>7 DEF EndMetric, source, Deliveries
  <2>8. CASE todo # <<>> /\ ProcessPoint(Head(todo))
    <3> DEFINE p == Head(todo)
    <3>1. p \in Point /\ Tail(todo) \in Seq(Point)
      BY <2>8, HeadPoint
    <3>2. AsSample(p) \in Sample
      BY <3>1 DEF AsSample, Sample, Point
    <3>3. p.stream \in Streams
      BY <3>1 DEF Point
    <3> DEFINE fresh == [start |-> AsSample(p), last |-> AsSample(p)]
    <3>4. fresh \in Entry /\ fresh.start.val <= fresh.last.val
      BY <3>2 DEF Entry, Sample
    <3> HIDE DEF p, fresh
    <3>5. ASSUME StartHistory(p) \/ Reset(p) PROVE (TypeOK /\ EntriesOrdered)'
      <4>1. history' = [history EXCEPT ![p.stream] = fresh]
        BY <3>5 DEF StartHistory, Reset, fresh
      <4>2. UNCHANGED <<clock, count, base, busy, delivered, out, sent, closed>>
        BY <3>5 DEF StartHistory, Reset, Take, source
      <4>3. todo' = Tail(todo)
        BY <3>5 DEF StartHistory, Reset, Take, p
      <4>4. TypeOK'
        BY <3>4, <3>1, <3>3, <4>1, <4>2, <4>3
      <4>5. EntriesOrdered'
        BY <3>4, <3>3, <4>1
      <4>6. QED
        BY <4>4, <4>5
    <3>6. CASE DropOlder(p)
      BY <3>1, <3>6 DEF DropOlder, Take, source, p
    <3>7. CASE Emit(p)
      <4> DEFINE e == history[p.stream]
      <4>1. e \in Entry
        BY <3>3, <3>7 DEF Emit
      <4>2. e.start.ts \in Nat /\ e.start.val \in Nat /\ e.start \in Sample
        BY <4>1 DEF Entry, Sample
      <4>3. p.val \in Nat /\ e.start.val <= p.val
        BY <3>1, <3>3, <3>7, <4>1 DEF Emit, RolledOver, Entry, Sample, Point
      <4> DEFINE d == p.val - e.start.val
      <4>4. d \in Nat
        BY <4>2, <4>3
      <4>5. [p EXCEPT !.val = d, !.start = e.start.ts] \in Point
        BY <3>1, <4>2, <4>4 DEF Point
      <4>6. [start |-> e.start.ts, end |-> p.ts, val |-> d] \in Interval
        BY <3>1, <4>2, <4>4 DEF Point, Interval
      <4>7. [start |-> e.start, last |-> AsSample(p)] \in Entry
        BY <3>2, <4>2 DEF Entry
      <4>8. closed' \in [Streams -> Nat]
        BY <3>3, <3>7 DEF Emit, Send, Interval
      <4>9. out' \in Seq(Point)
        BY <3>7, <4>5 DEF Emit
      <4>10. sent' \in [Streams -> Interval \cup {None}]
        BY <3>7, <4>6 DEF Emit, Send
      <4>11. history' \in [Streams -> Entry \cup {None}]
        BY <3>7, <4>7 DEF Emit
      <4>12. EntriesOrdered'
        BY <3>3, <3>7, <4>3 DEF Emit, AsSample
      <4>13. UNCHANGED <<clock, count, base, busy, delivered>> /\ todo' = Tail(todo)
        BY <3>7 DEF Emit, Take, source
      <4>14. QED
        BY <3>1, <4>8, <4>9, <4>10, <4>11, <4>12, <4>13
    <3>8. QED
      BY <2>8, <3>5, <3>6, <3>7 DEF ProcessPoint, p
  <2>9. CASE UNCHANGED vars
    BY <2>9 DEF vars, source
  <2>10. QED
    BY <2>1, <2>2, <2>3, <2>4, <2>5, <2>5a, <2>6, <2>7, <2>8, <2>9 DEF Next, NextForward
<1>3. QED
  BY <1>1, <1>2, PTL DEF Spec

-----------------------------------------------------------------------------
(* Samples of one counter are linearly ordered in time.                    *)
LEMMA LaterTransitive ==
  ASSUME NEW p, NEW q, NEW r,
         p.base \in Nat, p.val \in Nat, q.base \in Nat, q.val \in Nat,
         r.base \in Nat, r.val \in Nat, Later(p, q), Later(q, r)
  PROVE  Later(p, r)
BY DEF Later

(* What is in flight or in the history stays earlier than the counter.     *)
LEMMA BehindPreserved ==
  ASSUME TypeOK, NEW s \in Streams, NEW t \in Streams, Count(s) \/ Restart(s),
         NEW pb \in Nat, NEW pv \in Nat,
         (base[t] = pb /\ pv <= count[t]) \/ pb + pv <= base[t]
  PROVE  (base'[t] = pb /\ pv <= count'[t]) \/ pb + pv <= base'[t]
<1>1. CASE Count(s)
  BY <1>1 DEF TypeOK, Count
<1>2. CASE Restart(s)
  BY <1>2 DEF TypeOK, Restart
<1>3. QED
  BY <1>1, <1>2

(* The points on their way are typed.                                      *)
LEMMA TodoType ==
  ASSUME TypeOK, NEW i \in DOMAIN todo
  PROVE  /\ todo[i] \in Point
         /\ todo[i].stream \in Streams
         /\ todo[i].ts \in Nat /\ todo[i].val \in Nat /\ todo[i].base \in Nat
<1>1. todo[i] \in Point
  BY DEF TypeOK
<1>2. QED
  BY <1>1 DEF Point

(* The samples on their way stay in the order in which they were taken.    *)
LEMMA OrderPreserved ==
  TypeOK /\ TypeOK' /\ HistoryBehind /\ SamplesInOrder /\ [Next]_vars => SamplesInOrder'
<1> SUFFICES ASSUME TypeOK, TypeOK', HistoryBehind, SamplesInOrder, [Next]_vars
             PROVE  SamplesInOrder'
  OBVIOUS
<1>1. ASSUME NEW s \in Streams, Count(s) \/ Restart(s) PROVE SamplesInOrder'
  <2>1. UNCHANGED <<todo, history>>
    BY <1>1 DEF Count, Restart
  <2>2. ASSUME NEW i \in DOMAIN todo
        PROVE  Behind(todo[i], todo[i].stream)'
    <3>1. Behind(todo[i], todo[i].stream)
      BY DEF SamplesInOrder
    <3>2. LET t == todo[i].stream
              pb == todo[i].base
              pv == todo[i].val
          IN (base'[t] = pb /\ pv <= count'[t]) \/ pb + pv <= base'[t]
      BY <1>1, <3>1, TodoType, BehindPreserved DEF Behind, Later
    <3>3. QED
      BY <2>1, <3>2 DEF Behind, Later
  <2>3. QED
    BY <2>1, <2>2 DEF SamplesInOrder, Later
<1>2. ASSUME UNCHANGED <<todo, history, count, base>> PROVE SamplesInOrder'
  BY <1>2 DEF SamplesInOrder, Later, Behind
<1>3. ASSUME NEW layout \in Layouts, BeginMetric(layout) PROVE SamplesInOrder'
  <2>1. todo' = Points(layout) /\ UNCHANGED <<history, count, base>>
    BY <1>3 DEF BeginMetric, source
  <2>2. layout \in Seq(Streams)
    BY LayoutAssumption
  <2>3. \A i \in DOMAIN todo' : /\ i \in DOMAIN layout
                                /\ layout[i] \in Streams
                                /\ todo'[i] = Scraped(layout[i])
    BY <2>1, <2>2, PointsType
  <2>4. \A s \in Streams : /\ Scraped(s).stream = s
                           /\ Scraped(s).base = base[s] /\ Scraped(s).val = count[s]
    BY DEF Scraped
  <2>5. ASSUME NEW s \in Streams
        PROVE  /\ Later(Scraped(s), Scraped(s))
               /\ Behind(Scraped(s), s)
               /\ history[s] # None => Later(history[s].last, Scraped(s))
    <3>1. count[s] \in Nat /\ count[s] <= count[s]
      BY DEF TypeOK
    <3>2. Later(Scraped(s), Scraped(s)) /\ Behind(Scraped(s), s)
      BY <2>4, <3>1 DEF Later, Behind
    <3>3. ASSUME history[s] # None PROVE Later(history[s].last, Scraped(s))
      <4>1. Behind(history[s].last, s)
        BY <3>3 DEF HistoryBehind
      <4>2. QED
        BY <2>4, <4>1 DEF Behind, Later
    <3>4. QED
      BY <3>2, <3>3
  <2>6. QED
    BY <2>1, <2>3, <2>4, <2>5 DEF SamplesInOrder, Later, Behind
<1>4. CASE todo # <<>> /\ ProcessPoint(Head(todo))
  <2> DEFINE p == Head(todo)
  <2>1. /\ p = todo[1] /\ 1 \in DOMAIN todo /\ p.stream \in Streams
        /\ \A i \in DOMAIN Tail(todo) :
             i + 1 \in DOMAIN todo /\ Tail(todo)[i] = todo[i + 1] /\ i \in Nat /\ 1 < i + 1
    BY <1>4, HeadPoint, TodoType
  <2>2. todo' = Tail(todo) /\ UNCHANGED <<count, base>>
    BY <1>4 DEF ProcessPoint, StartHistory, DropOlder, Reset, Emit, Take, source
  <2>3. ASSUME NEW s \in Streams
        PROVE  \/ history'[s] = history[s]
               \/ s = p.stream /\ history'[s].last = AsSample(p)
    <3>1. \/ history' = history
          \/ history' = [history EXCEPT ![p.stream] =
                           [start |-> AsSample(p), last |-> AsSample(p)]]
          \/ history' = [history EXCEPT ![p.stream] =
                           [start |-> history[p.stream].start, last |-> AsSample(p)]]
      BY <1>4 DEF ProcessPoint, StartHistory, DropOlder, Reset, Emit
    <3> DEFINE sample == AsSample(p)
    <3> HIDE DEF p, sample
    <3>2. ASSUME NEW h, history' = [history EXCEPT ![p.stream] = h], h.last = sample
          PROVE  history'[s] = history[s] \/ (s = p.stream /\ history'[s].last = sample)
      BY <3>2 DEF TypeOK
    <3>3. \A x : [start |-> x, last |-> sample].last = sample
      OBVIOUS
    <3>4. QED
      BY <3>1, <3>2, <3>3 DEF sample
  <2> HIDE DEF p
  <2>4. ASSUME NEW i \in DOMAIN todo'
        PROVE  /\ Behind(todo[i], todo[i].stream)'
               /\ history'[todo'[i].stream] # None
                    => Later(history'[todo'[i].stream].last, todo'[i])
               /\ \A j \in DOMAIN todo' :
                    i < j /\ todo'[i].stream = todo'[j].stream => Later(todo'[i], todo'[j])
    <3> DEFINE q == todo[i + 1]
    <3>1. /\ i + 1 \in DOMAIN todo /\ todo'[i] = q /\ i \in Nat /\ q.stream \in Streams
      BY <2>1, <2>2, TodoType
    <3>2. Behind(q, q.stream)
      BY <3>1 DEF SamplesInOrder
    <3>3. Behind(todo[i], todo[i].stream)'
      BY <2>2, <3>1, <3>2 DEF Behind, Later
    <3>4. ASSUME q.stream = p.stream PROVE Later(AsSample(p), q)
      <4>1. 1 < i + 1
        BY <2>1, <2>2
      <4>2. Later(todo[1], todo[i + 1])
        BY <2>1, <3>1, <3>4, <4>1 DEF SamplesInOrder
      <4>3. AsSample(p).base = p.base /\ AsSample(p).val = p.val
        BY DEF AsSample
      <4>4. QED
        BY <2>1, <4>2, <4>3 DEF Later
    <3>5. history'[q.stream] # None => Later(history'[q.stream].last, q)
      BY <2>3, <3>1, <3>4 DEF SamplesInOrder
    <3>6. ASSUME NEW j \in DOMAIN todo', i < j, q.stream = todo'[j].stream
          PROVE  Later(q, todo'[j])
      BY <2>1, <2>2, <3>1, <3>6 DEF SamplesInOrder
    <3>7. QED
      BY <3>1, <3>3, <3>5, <3>6
  <2>5. QED
    BY <2>4 DEF SamplesInOrder
<1>5. CASE EndMetric
  BY <1>2, <1>5 DEF EndMetric, source
<1>6. ASSUME NEW kind \in Kinds, NEW layout \in Layouts,
             PassOther(kind, layout) \/ PassThrough(layout)
      PROVE  SamplesInOrder'
  BY <1>2, <1>6 DEF PassOther, PassThrough, source
<1>7. CASE Tick \/ ClockStep \/ UNCHANGED vars
  BY <1>2, <1>7 DEF Tick, ClockStep, vars, source
<1>8. QED
  BY <1>1, <1>3, <1>4, <1>5, <1>6, <1>7 DEF Next, NextForward, Kinds

(* The head of todo, as the proofs below use it.                           *)
LEMMA HeadSample ==
  ASSUME TypeOK, SamplesInOrder, todo # <<>>
  PROVE  LET p == Head(todo) IN
         /\ p.stream \in Streams
         /\ p.ts \in Nat /\ p.val \in Nat /\ p.base \in Nat
         /\ AsSample(p) \in Sample
         /\ AsSample(p).ts = p.ts /\ AsSample(p).val = p.val /\ AsSample(p).base = p.base
         /\ Behind(AsSample(p), p.stream)
         /\ history[p.stream] # None => Later(history[p.stream].last, AsSample(p))
<1>1. 1 \in DOMAIN todo /\ Head(todo) = todo[1]
  BY HeadPoint
<1>2. /\ Behind(todo[1], todo[1].stream)
      /\ history[todo[1].stream] # None => Later(history[todo[1].stream].last, todo[1])
  BY <1>1 DEF SamplesInOrder
<1>3. /\ AsSample(todo[1]).ts = todo[1].ts
      /\ AsSample(todo[1]).val = todo[1].val
      /\ AsSample(todo[1]).base = todo[1].base
      /\ todo[1].stream \in Streams
      /\ todo[1].ts \in Nat /\ todo[1].val \in Nat /\ todo[1].base \in Nat
      /\ AsSample(todo[1]) \in Sample
  BY <1>1, TodoType DEF AsSample, Sample
<1>4. Behind(AsSample(todo[1]), todo[1].stream)
  BY <1>2, <1>3 DEF Behind, Later
<1>5. history[todo[1].stream] # None
        => Later(history[todo[1].stream].last, AsSample(todo[1]))
  BY <1>2, <1>3 DEF Later
<1>6. QED
  BY <1>1, <1>3, <1>4, <1>5

(* The recorded points stay in the past of their counters.                 *)
LEMMA BehindKept ==
  TypeOK /\ TypeOK' /\ SamplesInOrder /\ HistoryBehind /\ [Next]_vars => HistoryBehind'
<1> SUFFICES ASSUME TypeOK, TypeOK', SamplesInOrder, HistoryBehind, [Next]_vars,
                    NEW s \in Streams, history'[s] # None
             PROVE  Behind(history[s].last, s)'
  BY DEF HistoryBehind
<1>1. ASSUME UNCHANGED <<history, count, base>> PROVE Behind(history[s].last, s)'
  BY <1>1 DEF HistoryBehind, Behind, Later
<1>2. ASSUME NEW t \in Streams, Count(t) \/ Restart(t)
      PROVE  Behind(history[s].last, s)'
  <2>1. history' = history
    BY <1>2 DEF Count, Restart
  <2>2. Behind(history[s].last, s)
    BY <2>1 DEF HistoryBehind
  <2>3. history[s].last.base \in Nat /\ history[s].last.val \in Nat
    BY <2>1 DEF TypeOK, Entry, Sample
  <2>4. QED
    BY <1>2, <2>1, <2>2, <2>3, BehindPreserved DEF Behind, Later
<1>3. CASE todo # <<>> /\ ProcessPoint(Head(todo))
  <2> DEFINE p == Head(todo)
             q == AsSample(p)
  <2>1. p.stream \in Streams /\ Behind(q, p.stream)
    BY <1>3, HeadSample
  <2>2. UNCHANGED <<count, base>>
    BY <1>3 DEF ProcessPoint, StartHistory, DropOlder, Reset, Emit, Take, source
  <2>3. \/ history' = history
        \/ history' = [history EXCEPT ![p.stream] = [start |-> q, last |-> q]]
        \/ history' = [history EXCEPT ![p.stream] =
                         [start |-> history[p.stream].start, last |-> q]]
    BY <1>3 DEF ProcessPoint, StartHistory, DropOlder, Reset, Emit
  <2> HIDE DEF p, q
  <2>4. history'[s] = history[s] \/ (s = p.stream /\ history'[s].last = q)
    <3>1. ASSUME NEW h, history' = [history EXCEPT ![p.stream] = h], h.last = q
          PROVE  history'[s] = history[s] \/ (s = p.stream /\ history'[s].last = q)
      BY <3>1 DEF TypeOK
    <3>2. \A x : [start |-> x, last |-> q].last = q
      OBVIOUS
    <3>3. QED
      BY <2>3, <3>1, <3>2
  <2>5. QED
    BY <2>1, <2>2, <2>4 DEF HistoryBehind, Behind, Later
<1>4. ASSUME NEW kind \in Kinds, NEW layout \in Layouts,
             BeginMetric(layout) \/ PassOther(kind, layout) \/ PassThrough(layout)
      PROVE  Behind(history[s].last, s)'
  BY <1>1, <1>4 DEF BeginMetric, PassOther, PassThrough, source
<1>5. CASE EndMetric \/ Tick \/ ClockStep \/ UNCHANGED vars
  BY <1>1, <1>5 DEF EndMetric, Tick, ClockStep, vars, source
<1>6. QED
  BY <1>2, <1>3, <1>4, <1>5 DEF Next, NextForward, Kinds

(* The history entry of a stream that is always normalised keeps           *)
(* accounting for what was sent.                                           *)
LEMMA AccountsPreserved ==
  TypeOK /\ TypeOK' /\ SamplesInOrder /\ HistoryAccounts /\ [Next]_vars => HistoryAccounts'
<1>00. [Next]_vars => raw' = raw
  BY DEF Next, vars
<1> SUFFICES ASSUME TypeOK, TypeOK', SamplesInOrder, HistoryAccounts, [Next]_vars,
                    NEW s \in Streams, s \notin raw
             PROVE  Accounts(s)'
  BY <1>00 DEF HistoryAccounts
<1>0. Accounts(s)
  BY DEF HistoryAccounts
<1>1. ASSUME UNCHANGED <<history, sent, closed, count, base>> PROVE Accounts(s)'
  BY <1>0, <1>1 DEF Accounts, Behind, Later, InInterval, ReportedBefore
<1>2. ASSUME NEW t \in Streams, Count(t) \/ Restart(t) PROVE Accounts(s)'
  <2>1. UNCHANGED <<history, sent, closed>>
    BY <1>2 DEF Count, Restart
  <2>2. CASE history[s] = None
    BY <1>0, <2>1, <2>2 DEF Accounts
  <2>3. CASE history[s] # None
    <3>1. Behind(history[s].last, s)
      BY <1>0, <2>3 DEF Accounts
    <3>2. history[s].last.base \in Nat /\ history[s].last.val \in Nat
      BY <2>3 DEF TypeOK, Entry, Sample
    <3>3. Behind(history[s].last, s)'
      BY <1>2, <2>1, <3>1, <3>2, BehindPreserved DEF Behind, Later
    <3>4. QED
      BY <1>0, <2>1, <2>3, <3>3 DEF Accounts, InInterval, ReportedBefore
  <2>4. QED
    BY <2>2, <2>3
<1>3. CASE todo # <<>> /\ ProcessPoint(Head(todo))
  <2> DEFINE p == Head(todo)
             q == AsSample(p)
             e == history[s]
  <2>1. /\ p.stream \in Streams
        /\ p.ts \in Nat /\ p.val \in Nat /\ p.base \in Nat
        /\ q \in Sample
        /\ q.ts = p.ts /\ q.val = p.val /\ q.base = p.base
        /\ Behind(q, p.stream)
        /\ history[p.stream] # None => Later(history[p.stream].last, q)
    BY <1>3, HeadSample
  <2>2. UNCHANGED <<count, base>>
    BY <1>3 DEF ProcessPoint, StartHistory, DropOlder, Reset, Emit, Take, source
  <2>3. ASSUME e # None
        PROVE  /\ e.start.ts \in Nat /\ e.start.val \in Nat /\ e.start.base \in Nat
               /\ e.last.ts \in Nat /\ e.last.val \in Nat /\ e.last.base \in Nat
    BY <2>3 DEF TypeOK, Entry, Sample
  <2>4. /\ closed[s] \in Nat
        /\ sent[s] # None => sent[s].val \in Nat /\ sent[s].start \in Nat
    BY DEF TypeOK, Interval
  <2> HIDE DEF p, q, e
  <2>5. CASE DropOlder(p)
    BY <1>1, <2>2, <2>5 DEF DropOlder
  <2>6. CASE s # p.stream
    <3>1. history'[s] = history[s] /\ sent'[s] = sent[s] /\ closed'[s] = closed[s]
      BY <1>3, <2>1, <2>6
         DEF p, TypeOK, ProcessPoint, StartHistory, DropOlder, Reset, Emit, Send
    <3>2. QED
      BY <1>0, <2>2, <3>1 DEF Accounts, Behind, Later, InInterval, ReportedBefore
  <2>7. CASE s = p.stream /\ StartHistory(p)
    <3>1. e = None /\ sent[s] = None /\ closed[s] = 0
      BY <1>0, <2>7 DEF StartHistory, Accounts, e
    <3>2. history'[s] = [start |-> q, last |-> q] /\ UNCHANGED <<sent, closed>>
      BY <2>7 DEF StartHistory, TypeOK, q
    <3>3. history'[s].start = q /\ history'[s].last = q
      BY <3>2
    <3>4. Behind(history[s].last, s)'
      BY <2>1, <2>2, <2>7, <3>3 DEF Behind, Later
    <3>5. history'[s] # None
      BY <2>1, <3>2, NoneAssumption DEF Entry
    <3>6. ~InInterval(s)' /\ ReportedBefore(s)' = 0
      BY <3>1, <3>2 DEF InInterval, ReportedBefore
    <3>7. q.val <= q.val /\ 0 <= q.base + q.val
      BY <2>1
    <3>8. QED
      BY <3>1, <3>2, <3>3, <3>4, <3>5, <3>6, <3>7 DEF Accounts
  <2>8. CASE s = p.stream /\ Reset(p)
    <3>1. e # None /\ p.ts > e.start.ts /\ p.val < e.last.val
      BY <2>1, <2>3, <2>8 DEF Reset, OlderThanStart, RolledOver, e
    <3>2. history'[s] = [start |-> q, last |-> q] /\ UNCHANGED <<sent, closed>>
      BY <2>8 DEF Reset, TypeOK, q
    <3>3. history'[s].start = q /\ history'[s].last = q
      BY <3>2
    <3>4. Behind(history[s].last, s)'
      BY <2>1, <2>2, <2>8, <3>3 DEF Behind, Later
    <3>5. e.last.base + e.last.val <= q.base
      BY <2>1, <2>3, <2>8, <3>1 DEF Later, e
    <3>6. closed[s] + (IF sent[s] = None THEN 0 ELSE sent[s].val) <= e.last.base + e.last.val
      BY <1>0, <2>3, <2>4, <3>1 DEF Accounts, InInterval, ReportedBefore, e
    <3>7. ~InInterval(s)'
      BY <1>0, <2>1, <2>3, <2>4, <3>1, <3>2, <3>3 DEF Accounts, InInterval, e
    <3>8. sent[s] # None => sent[s].start <= q.ts
      BY <1>0, <2>1, <2>3, <2>4, <3>1 DEF Accounts, e
    <3>9. ReportedBefore(s)' <= q.base + q.val
      BY <2>1, <2>3, <2>4, <3>1, <3>2, <3>5, <3>6, <3>7 DEF ReportedBefore
    <3>10. sent[s] = None => closed[s] = 0
      BY <1>0, <3>1 DEF Accounts, e
    <3>11. history'[s] # None
      BY <2>1, <3>2, NoneAssumption DEF Entry
    <3>12. q.val <= q.val
      BY <2>1
    <3>13. QED
      BY <3>2, <3>3, <3>4, <3>7, <3>8, <3>9, <3>10, <3>11, <3>12 DEF Accounts
  <2>9. CASE s = p.stream /\ Emit(p)
    <3>1. e # None /\ p.val >= e.last.val
      BY <2>1, <2>3, <2>9 DEF Emit, RolledOver, e
    <3>2. history'[s] = [start |-> e.start, last |-> q]
      BY <2>9 DEF Emit, TypeOK, q, e
    <3>3. sent'[s] = [start |-> e.start.ts, end |-> p.ts, val |-> p.val - e.start.val]
      BY <2>9 DEF Emit, Send, TypeOK, e
    <3>4. closed'[s] = IF sent[s] # None /\ sent[s].start # e.start.ts
                       THEN closed[s] + sent[s].val ELSE closed[s]
      BY <2>9 DEF Emit, Send, TypeOK, e
    <3>5. closed'[s] = ReportedBefore(s)
      BY <3>4 DEF ReportedBefore, InInterval, e
    <3>6. e.start.val <= e.last.val /\ ReportedBefore(s) <= e.last.base + e.start.val
      BY <1>0, <3>1 DEF Accounts, e
    <3>7. e.last.base <= q.base
      BY <2>1, <2>3, <2>9, <3>1 DEF Later, e
    <3>8. /\ history'[s].start = e.start /\ history'[s].last = q
          /\ sent'[s].start = e.start.ts /\ sent'[s].val = p.val - e.start.val
      BY <3>2, <3>3
    <3>9. Behind(history[s].last, s)'
      BY <2>1, <2>2, <2>9, <3>8 DEF Behind, Later
    <3>10. p.val - e.start.val \in Nat
      BY <2>1, <2>3, <3>1, <3>6
    <3>11. sent'[s] \in Interval
      BY <2>1, <2>3, <3>1, <3>3, <3>10 DEF Interval
    <3>12. e \in Entry
      BY <3>1 DEF TypeOK, e
    <3>13. history'[s] \in Entry
      BY <2>1, <3>2, <3>12 DEF Entry
    <3>14. history'[s] # None /\ sent'[s] # None
      BY <3>11, <3>13, NoneAssumption
    <3>15. InInterval(s)'
      BY <3>8, <3>14 DEF InInterval
    <3>16. ReportedBefore(s)' = closed'[s]
      BY <3>15 DEF ReportedBefore
    <3>17. closed'[s] <= q.base + e.start.val
      BY <2>1, <2>3, <2>4, <3>1, <3>4, <3>5, <3>6, <3>7
    <3>18. e.start.ts <= e.start.ts /\ e.start.val <= q.val
      BY <2>1, <2>3, <3>1, <3>6
    <3>19. QED
      BY <2>1, <3>9, <3>8, <3>14, <3>15, <3>16, <3>17, <3>18 DEF Accounts
  <2>10. QED
    BY <1>3, <2>5, <2>6, <2>7, <2>8, <2>9 DEF ProcessPoint, p
<1>4. ASSUME NEW layout \in Layouts, BeginMetric(layout) PROVE Accounts(s)'
  BY <1>1, <1>4 DEF BeginMetric, source
<1>5. CASE EndMetric
  BY <1>1, <1>5 DEF EndMetric, source
<1>6. ASSUME NEW kind \in Kinds, NEW layout \in Layouts, PassOther(kind, layout)
      PROVE  Accounts(s)'
  BY <1>1, <1>6 DEF PassOther, source
<1>6a. ASSUME NEW layout \in Layouts, PassThrough(layout) PROVE Accounts(s)'
  <2>1. sent'[s] = sent[s] /\ closed'[s] = closed[s]
    BY <1>6a DEF PassThrough
  <2>2. UNCHANGED <<history, count, base>>
    BY <1>6a DEF PassThrough, source
  <2>3. QED
    BY <1>0, <2>1, <2>2 DEF Accounts, Behind, Later, InInterval, ReportedBefore
<1>7. CASE Tick \/ ClockStep \/ UNCHANGED vars
  BY <1>1, <1>7 DEF Tick, ClockStep, vars, source
<1>8. QED
  BY <1>2, <1>3, <1>4, <1>5, <1>6, <1>6a, <1>7 DEF Next, NextForward

-----------------------------------------------------------------------------
(* The inductive invariant behind the theorems that follow.                *)
IInv == TypeOK /\ EntriesOrdered /\ SamplesInOrder /\ HistoryBehind /\ HistoryAccounts

LEMMA Invariance == Spec => []IInv
<1>1. Init => SamplesInOrder /\ HistoryBehind /\ HistoryAccounts
  BY DEF Init, SamplesInOrder, HistoryBehind, HistoryAccounts, Accounts
<1>2. TypeOK /\ TypeOK' /\ SamplesInOrder /\ HistoryBehind /\ HistoryAccounts /\ [Next]_vars
        => (SamplesInOrder /\ HistoryBehind /\ HistoryAccounts)'
  BY OrderPreserved, BehindKept, AccountsPreserved
<1>3. QED
  BY <1>1, <1>2, TypeCorrect, PTL DEF Spec, IInv

(* Of a stream that is always normalised the consumer never adds up more   *)
(* than the source counted, whatever the restarts of the source, the steps *)
(* of the clock and the other streams of its metrics.  The restriction is  *)
(* needed: UnsetStartsAccurate fails for the streams of raw.               *)
THEOREM NeverOverReports == Spec => []NoOverReport
<1>1. IInv => NoOverReport
  <2> SUFFICES ASSUME IInv, NEW s \in Streams \ raw
               PROVE  Reported(s) <= base[s] + count[s]
    BY DEF NoOverReport
  <2> DEFINE e == history[s]
  <2>1. Accounts(s)
    BY DEF IInv, HistoryAccounts
  <2>2. base[s] \in Nat /\ count[s] \in Nat
    BY DEF IInv, TypeOK
  <2>3. CASE e = None
    BY <2>1, <2>2, <2>3 DEF Accounts, Reported
  <2>4. CASE e # None
    <3>1. /\ e.start.val \in Nat /\ e.start.ts \in Nat
          /\ e.last.val \in Nat /\ e.last.base \in Nat
          /\ closed[s] \in Nat
          /\ sent[s] # None => sent[s].val \in Nat
      BY <2>4 DEF IInv, TypeOK, Entry, Sample, Interval
    <3>2. Reported(s) <= e.last.base + e.last.val
      BY <2>1, <2>4, <3>1 DEF Accounts, Reported, ReportedBefore, InInterval
    <3>3. e.last.base + e.last.val <= base[s] + count[s]
      BY <2>1, <2>2, <2>4, <3>1 DEF Accounts, Behind, Later
    <3>4. Reported(s) \in Nat
      BY <3>1 DEF Reported
    <3>5. QED
      BY <2>2, <3>1, <3>2, <3>3, <3>4
  <2>5. QED
    BY <2>3, <2>4
<1>2. QED
  BY <1>1, Invariance, PTL

(* Every normalised point ends after it starts, of the streams that also   *)
(* go on as they came too.                                                 *)
THEOREM IntervalsEndAfterStart == Spec => []IntervalsForward
<1>1. Init => IntervalsForward
  BY DEF Init, IntervalsForward
<1>2. TypeOK /\ IntervalsForward /\ [Next]_vars => IntervalsForward'
  <2> SUFFICES ASSUME TypeOK, IntervalsForward, [Next]_vars
               PROVE  IntervalsForward'
    OBVIOUS
  <2>1. CASE out' = out \/ out' = <<>>
    BY <2>1 DEF IntervalsForward
  <2>2. CASE todo # <<>> /\ Emit(Head(todo))
    <3> DEFINE p == Head(todo)
               e == history[p.stream]
               q == [p EXCEPT !.val = @ - e.start.val, !.start = e.start.ts]
    <3>1. p \in Point
      BY <2>2, HeadPoint
    <3>2. p.stream \in Streams /\ p.ts \in Nat
      BY <3>1 DEF Point
    <3>3. e \in Entry /\ ~(p.ts <= e.start.ts)
      BY <2>2, <3>2 DEF Emit, TypeOK, OlderThanStart
    <3>4. e.start.ts \in Nat
      BY <3>3 DEF Entry, Sample
    <3>5. q.start = e.start.ts /\ q.ts = p.ts
      BY <3>1 DEF Point
    <3>6. q.start < q.ts
      BY <3>2, <3>3, <3>4, <3>5
    <3>7. out' = Append(out, q)
      BY <2>2 DEF Emit
    <3> HIDE DEF q, p
    <3>8. /\ Len(out) \in Nat /\ DOMAIN out = 1 .. Len(out)
          /\ DOMAIN out' = 1 .. Len(out) + 1
          /\ \A i \in 1 .. Len(out) + 1 : out'[i] = IF i = Len(out) + 1 THEN q ELSE out[i]
      BY <3>7 DEF TypeOK
    <3>9. QED
      BY <3>6, <3>8 DEF IntervalsForward
  <2>3. QED
    BY <2>1, <2>2
       DEF Next, NextForward, Count, Restart, Tick, ClockStep, PassOther, PassThrough,
           BeginMetric, EndMetric, ProcessPoint, StartHistory, DropOlder, Reset, vars
<1>3. QED
  BY <1>1, <1>2, TypeCorrect, PTL DEF Spec

(* No reset is declared on a counter that did not restart.                 *)
THEOREM ResetsAreRestarts == Spec => ResetOnlyAfterRestart
<1>1. IInv /\ [Next]_vars =>
        [\A s \in Streams :
           history[s] # None /\ history'[s].start # history[s].start
             => history'[s].start.base >= history[s].last.base + history[s].last.val]_vars
  <2> SUFFICES ASSUME IInv, Next, NEW s \in Streams,
                      history[s] # None, history'[s].start # history[s].start
               PROVE  history'[s].start.base >= history[s].last.base + history[s].last.val
    OBVIOUS
  <2> DEFINE p == Head(todo)
             e == history[s]
  <2>1. todo # <<>> /\ (StartHistory(p) \/ Reset(p) \/ Emit(p))
    BY DEF Next, NextForward, Count, Restart, Tick, ClockStep, PassOther, PassThrough,
           BeginMetric, EndMetric, ProcessPoint, DropOlder
  <2>2. /\ p.stream \in Streams /\ p.val \in Nat /\ p.base \in Nat
        /\ AsSample(p).base = p.base /\ AsSample(p).val = p.val
        /\ history[p.stream] # None => Later(history[p.stream].last, AsSample(p))
    BY <2>1, HeadSample DEF IInv
  <2>3. e.last.val \in Nat /\ e.last.base \in Nat
    BY DEF IInv, TypeOK, Entry, Sample
  <2>4. history \in [Streams -> Entry \cup {None}]
    BY DEF IInv, TypeOK
  <2> HIDE DEF p
  <2>5. s = p.stream /\ ~StartHistory(p) /\ ~Emit(p)
    <3>1. s = p.stream
      BY <2>1, <2>2, <2>4 DEF StartHistory, Reset, Emit
    <3>2. ~StartHistory(p)
      BY <3>1 DEF StartHistory
    <3>3. ~Emit(p)
      <4>1. Emit(p) => history'[s] = [start |-> e.start, last |-> AsSample(p)]
        BY <2>4, <3>1 DEF Emit
      <4>2. QED
        BY <4>1
    <3>4. QED
      BY <3>1, <3>2, <3>3
  <2>6. Reset(p)
    BY <2>1, <2>5
  <2>7. p.val < e.last.val /\ history'[s] = [start |-> AsSample(p), last |-> AsSample(p)]
    BY <2>4, <2>5, <2>6 DEF Reset, RolledOver
  <2>8. history'[s].start = AsSample(p)
    BY <2>7
  <2>9. e.last.base + e.last.val <= p.base
    BY <2>2, <2>3, <2>5, <2>7 DEF Later
  <2>10. QED
    BY <2>2, <2>3, <2>8, <2>9
<1>2. QED
  BY <1>1, Invariance, PTL DEF Spec, ResetOnlyAfterRestart

-----------------------------------------------------------------------------
(* With a clock that never goes back: the start point, the last point, the *)
(* points of the metric in processing and the clock are in order of time.  *)
EntryInTime(s) ==
  history[s] # None =>
    /\ history[s].start.ts <= history[s].last.ts
    /\ history[s].last.ts <= clock
    /\ \A i \in DOMAIN todo : history[s].last.ts <= todo[i].ts
    /\ s \notin raw /\ sent[s] # None => sent[s].end <= history[s].last.ts

TodoInTime ==
  \A i \in DOMAIN todo :
    todo[i].ts <= clock /\ \A j \in DOMAIN todo : todo[i].ts = todo[j].ts

InTime == TodoInTime /\ \A s \in Streams : EntryInTime(s)

LEMMA InTimePreserved ==
  IInv /\ InTime /\ raw' = raw /\ [NextForward]_vars => InTime'
<1> SUFFICES ASSUME IInv, InTime, raw' = raw, [NextForward]_vars
             PROVE  InTime'
  OBVIOUS
<1>0. TypeOK /\ SamplesInOrder /\ HistoryAccounts
  BY DEF IInv
<1>1. ASSUME UNCHANGED <<todo, history, sent, clock>> PROVE InTime'
  BY <1>1 DEF InTime, TodoInTime, EntryInTime
<1>2. CASE Tick
  <2>1. UNCHANGED <<todo, history, sent>> /\ clock' = clock + 1
    BY <1>2 DEF Tick
  <2>2. \A i \in DOMAIN todo : todo[i].ts \in Nat
    BY <1>0, TodoType
  <2>3. TodoInTime'
    BY <1>0, <2>1, <2>2 DEF InTime, TodoInTime, TypeOK
  <2>4. ASSUME NEW s \in Streams PROVE EntryInTime(s)'
    <3>1. history[s] # None => history[s].last.ts \in Nat
      BY <1>0 DEF TypeOK, Entry, Sample
    <3>2. QED
      BY <1>0, <2>1, <3>1 DEF InTime, EntryInTime, TypeOK
  <2>5. QED
    BY <2>3, <2>4 DEF InTime
<1>3. ASSUME NEW layout \in Layouts, BeginMetric(layout) PROVE InTime'
  <2>1. todo' = Points(layout) /\ UNCHANGED <<history, sent, clock>>
    BY <1>3 DEF BeginMetric, source
  <2>2. \A i \in DOMAIN todo' : todo'[i].ts = clock
    <3>1. \A x : Scraped(x).ts = clock
      BY DEF Scraped
    <3>2. \A i \in DOMAIN todo' : todo'[i] = Scraped(layout[i])
      BY <1>0, <2>1, PointsType
    <3>3. QED
      BY <3>1, <3>2
  <2>3. clock <= clock
    BY <1>0 DEF TypeOK
  <2>4. QED
    BY <2>1, <2>2, <2>3 DEF InTime, TodoInTime, EntryInTime
<1>4. CASE todo # <<>> /\ ProcessPoint(Head(todo))
  <2> DEFINE p == Head(todo)
  <2>1. /\ p = todo[1] /\ 1 \in DOMAIN todo
        /\ \A i \in DOMAIN Tail(todo) : i + 1 \in DOMAIN todo /\ Tail(todo)[i] = todo[i + 1]
    BY <1>0, <1>4, HeadPoint
  <2>2. todo' = Tail(todo) /\ clock' = clock
    BY <1>4 DEF ProcessPoint, StartHistory, DropOlder, Reset, Emit, Take, source
  <2>3. /\ p.stream \in Streams /\ p.ts \in Nat /\ AsSample(p).ts = p.ts
    BY <1>0, <1>4, HeadSample
  <2>4. p.ts <= clock /\ \A i \in DOMAIN todo' : todo'[i].ts = p.ts
    BY <2>1, <2>2 DEF InTime, TodoInTime
  <2>5. TodoInTime'
    BY <2>2, <2>4 DEF TodoInTime
  <2> HIDE DEF p
  <2>6. ASSUME NEW s \in Streams PROVE EntryInTime(s)'
    <3>0. EntryInTime(s)
      BY DEF InTime
    <3>1. CASE history'[s] = history[s] /\ sent'[s] = sent[s]
      BY <2>1, <2>2, <3>0, <3>1 DEF EntryInTime
    <3>2. CASE s = p.stream /\ (StartHistory(p) \/ Reset(p))
      <4>1. history'[s] = [start |-> AsSample(p), last |-> AsSample(p)] /\ sent' = sent
        BY <1>0, <3>2 DEF StartHistory, Reset, TypeOK
      <4>2. history'[s].start.ts = p.ts /\ history'[s].last.ts = p.ts
        BY <2>3, <4>1
      <4>3. s \notin raw /\ sent[s] # None => sent[s].end <= p.ts
        <5> SUFFICES ASSUME s \notin raw, sent[s] # None PROVE sent[s].end <= p.ts
          OBVIOUS
        <5>1. history[s] # None
          BY <1>0 DEF HistoryAccounts, Accounts
        <5>2. sent[s].end <= history[s].last.ts /\ history[s].last.ts <= p.ts
          BY <2>1, <3>0, <5>1 DEF EntryInTime
        <5>3. sent[s].end \in Nat /\ history[s].last.ts \in Nat
          BY <1>0, <5>1 DEF TypeOK, Entry, Sample, Interval
        <5>4. QED
          BY <2>3, <5>2, <5>3
      <4>4. p.ts <= p.ts
        BY <2>3
      <4>5. QED
        BY <2>2, <2>4, <4>1, <4>2, <4>3, <4>4 DEF EntryInTime
    <3>3. CASE s = p.stream /\ Emit(p)
      <4>1. /\ history[s] # None
            /\ history'[s] = [start |-> history[s].start, last |-> AsSample(p)]
            /\ sent'[s].end = p.ts
        BY <1>0, <3>3 DEF Emit, Send, TypeOK
      <4>2. history'[s].start = history[s].start /\ history'[s].last.ts = p.ts
        BY <2>3, <4>1
      <4>3. history[s].start.ts <= history[s].last.ts /\ history[s].last.ts <= p.ts
        BY <2>1, <3>0, <4>1 DEF EntryInTime
      <4>4. history[s].start.ts \in Nat /\ history[s].last.ts \in Nat
        BY <1>0, <4>1 DEF TypeOK, Entry, Sample
      <4>5. history'[s].start.ts <= p.ts /\ p.ts <= p.ts
        BY <2>3, <4>2, <4>3, <4>4
      <4>6. QED
        BY <2>2, <2>4, <4>1, <4>2, <4>5 DEF EntryInTime
    <3>4. \/ history'[s] = history[s] /\ sent'[s] = sent[s]
          \/ s = p.stream /\ (StartHistory(p) \/ Reset(p) \/ Emit(p))
      BY <1>0, <1>4, <2>3
         DEF p, TypeOK, ProcessPoint, StartHistory, DropOlder, Reset, Emit, Send
    <3>5. QED
      BY <3>1, <3>2, <3>3, <3>4
  <2>7. QED
    BY <2>5, <2>6 DEF InTime
<1>5. CASE EndMetric
  BY <1>1, <1>5 DEF EndMetric, source
<1>6. ASSUME NEW kind \in Kinds, NEW layout \in Layouts, PassOther(kind, layout)
      PROVE  InTime'
  BY <1>1, <1>6 DEF PassOther, source
<1>6a. ASSUME NEW layout \in Layouts, PassThrough(layout) PROVE InTime'
  <2>1. UNCHANGED <<todo, history, clock>>
    BY <1>6a DEF PassThrough, source
  <2>2. \A s \in Streams : s \notin raw => sent'[s] = sent[s]
    BY <1>6a DEF PassThrough
  <2>3. QED
    BY <2>1, <2>2 DEF InTime, TodoInTime, EntryInTime
<1>7. ASSUME NEW s \in Streams, Count(s) \/ Restart(s) PROVE InTime'
  BY <1>1, <1>7 DEF Count, Restart
<1>8. CASE UNCHANGED vars
  BY <1>1, <1>8 DEF vars, source
<1>9. QED
  BY <1>2, <1>3, <1>4, <1>5, <1>6, <1>6a, <1>7, <1>8 DEF NextForward

(* The refinement mapping: the streams that are always normalised, on a    *)
(* clock that never goes back.                                             *)
sentForward == [s \in Streams |-> IF forward /\ s \notin raw THEN sent[s] ELSE None]

(* With a clock that never goes back the points sent downstream of a       *)
(* stream that is always normalised form a cumulative stream: intervals    *)
(* that do not overlap, in which neither the time nor the value goes back. *)
THEOREM ImplementsCumulativeStreams == Spec => DownstreamSpec
<1>1. Init => Downstream!Init /\ (forward => InTime)
  <2>1. Init => Downstream!Init
    BY DEF Init, Downstream!Init
  <2>2. Init => InTime
    BY DEF Init, InTime, TodoInTime, EntryInTime
  <2> QED BY <2>1, <2>2
<1>2. IInv /\ (forward => InTime) /\ [Next]_vars => (forward => InTime)'
  <2> SUFFICES ASSUME IInv, forward => InTime, [Next]_vars, forward'
               PROVE  InTime'
    OBVIOUS
  <2>1. forward' = forward /\ raw' = raw
    BY DEF Next, vars
  <2>2. [NextForward]_vars
    BY <2>1 DEF Next
  <2> QED BY <2>1, <2>2, InTimePreserved
<1>3. IInv /\ (forward => InTime) /\ [Next]_vars => [Downstream!Next]_sentForward
  <2> SUFFICES ASSUME IInv, forward => InTime, [Next]_vars, sentForward' # sentForward
               PROVE  Downstream!Next
    OBVIOUS
  <2>00. forward' = forward /\ raw' = raw
    BY DEF Next, vars
  <2>01. PICK x \in Streams : forward /\ x \notin raw /\ sent'[x] # sent[x]
    BY <2>00 DEF sentForward
  <2>0. forward /\ forward' /\ NextForward /\ InTime
    BY <2>00, <2>01 DEF Next, vars
  <2> DEFINE p == Head(todo)
             s == p.stream
             e == history[s]
             q == sent'[s]
  <2>1. todo # <<>> /\ Emit(p)
    BY <2>0, <2>01
       DEF NextForward, Count, Restart, Tick, PassOther, PassThrough, BeginMetric,
           EndMetric, ProcessPoint, StartHistory, DropOlder, Reset
  <2>2. /\ TypeOK /\ s \in Streams /\ p.ts \in Nat /\ p.val \in Nat
        /\ 1 \in DOMAIN todo /\ p = todo[1]
    BY <2>1, HeadSample, HeadPoint DEF IInv
  <2> HIDE DEF p
  <2>3. e # None /\ e \in Entry /\ p.ts > e.start.ts /\ p.val >= e.last.val
    <3>1. e # None /\ ~(p.ts <= e.start.ts) /\ ~(p.val < e.last.val)
      BY <2>1 DEF Emit, OlderThanStart, RolledOver
    <3>2. e \in Entry
      BY <2>2, <3>1 DEF TypeOK
    <3>3. e.start.ts \in Nat /\ e.last.val \in Nat
      BY <3>2 DEF Entry, Sample
    <3>4. QED
      BY <2>2, <3>1, <3>2, <3>3
  <2>4. /\ e.start.ts \in Nat /\ e.start.val \in Nat
        /\ e.last.ts \in Nat /\ e.last.val \in Nat
    BY <2>3 DEF Entry, Sample
  <2>5. /\ q = [start |-> e.start.ts, end |-> p.ts, val |-> p.val - e.start.val]
        /\ sent' = [sent EXCEPT ![s] = q]
    BY <2>1, <2>2 DEF Emit, Send, TypeOK
  <2>5a. s = x /\ s \notin raw
    BY <2>01, <2>2, <2>5 DEF TypeOK
  <2>5b. /\ sentForward[s] = sent[s]
         /\ sentForward' = [sentForward EXCEPT ![s] = q]
    BY <2>00, <2>01, <2>2, <2>5, <2>5a DEF sentForward, TypeOK
  <2>5c. sentForward'[s] = q
    BY <2>2, <2>5b DEF sentForward
  <2>5d. ASSUME q \in Downstream!Interval, Downstream!Open(s, q) \/ Downstream!Extend(s, q)
         PROVE  Downstream!Next
    BY <2>2, <2>5c, <2>5d
       DEF Downstream!Next, Downstream!Open, Downstream!Extend, sentForward
  <2>6. Accounts(s)
    BY <2>2, <2>5a DEF IInv, HistoryAccounts
  <2>7. e.start.val <= e.last.val
    BY <2>3, <2>6 DEF Accounts
  <2>8. /\ p.val - e.start.val \in Nat
        /\ q.start = e.start.ts /\ q.end = p.ts /\ q.val = p.val - e.start.val
    BY <2>2, <2>3, <2>4, <2>5, <2>7
  <2>9. q \in Downstream!Interval
    BY <2>2, <2>4, <2>5, <2>8 DEF Downstream!Interval
  <2>10. EntryInTime(s)
    BY <2>0, <2>2 DEF InTime
  <2>11. e.last.ts <= p.ts /\ (sent[s] # None => sent[s].end <= e.last.ts)
    BY <2>2, <2>3, <2>5a, <2>10 DEF EntryInTime
  <2>12. sent[s] # None => sent[s].end \in Nat /\ sent[s].val \in Nat
    BY <2>2 DEF TypeOK, Interval
  <2>13. CASE InInterval(s)
    <3>1. sent[s] # None /\ sent[s].start = e.start.ts /\ sent[s].val = e.last.val - e.start.val
      BY <2>3, <2>6, <2>13 DEF Accounts, InInterval
    <3>2. sent[s].end <= p.ts /\ sent[s].val <= p.val - e.start.val
      BY <2>2, <2>3, <2>4, <2>11, <2>12, <3>1
    <3>3. Downstream!Extend(s, q)
      BY <2>5b, <2>8, <3>1, <3>2 DEF Downstream!Extend, sentForward
    <3>4. QED
      BY <2>5d, <2>9, <3>3
  <2>14. CASE ~InInterval(s)
    <3>1. e.last = e.start
      BY <2>3, <2>6, <2>14 DEF Accounts
    <3>2. Downstream!Open(s, q)
      BY <2>3, <2>5b, <2>8, <2>11, <3>1 DEF Downstream!Open, sentForward
    <3>3. QED
      BY <2>5d, <2>9, <3>2
  <2>15. QED
    BY <2>13, <2>14
<1>4. QED
  BY <1>1, <1>2, <1>3, Invariance, PTL DEF Spec, DownstreamSpec, Downstream!Spec, sentForward
=============================================================================

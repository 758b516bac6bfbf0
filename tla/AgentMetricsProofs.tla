-------------------------- MODULE AgentMetricsProofs --------------------------
(***************************************************************************)
(* Proofs about the agentmetrics processor, for all hosts, all processes   *)
(* and any number of batches: every point goes on once, no series twice,   *)
(* and what is derived from two batches is derived from the last one that  *)
(* was processed and the one at hand.                                      *)
(***************************************************************************)
EXTENDS AgentMetrics, FiniteSetTheorems, SequenceTheorems, WellFoundedInduction, TLAPS

(* A nonempty set of numbers has a least element.                          *)
LEMMA LeastNumber ==
  ASSUME NEW S, S \subseteq Nat, S # {}
  PROVE  \E m \in S : \A k \in S : m <= k
<1> DEFINE Below == {p \in Nat \X Nat : p[1] < p[2]}
<1>1. IsWellFoundedOn(Below, Nat)
  <2>1. OpToRel(<, Nat) = Below
    BY DEF OpToRel
  <2> QED BY <2>1, NatLessThanWellFounded
<1>2. \A k, m \in Nat : <<k, m>> \in Below <=> k < m
  OBVIOUS
<1> HIDE DEF Below
<1>3. PICK m \in S : \A k \in S : ~ (<<k, m>> \in Below)
  BY <1>1, WFMin
<1>4. ASSUME NEW k \in S PROVE m <= k
  <2>1. k \in Nat /\ m \in Nat /\ ~ (k < m)
    BY <1>2, <1>3
  <2> QED BY <2>1
<1> QED BY <1>4

(* Of sets of subsets of a finite set, one is least.                       *)
LEMMA LeastSet ==
  ASSUME NEW S, IsFiniteSet(S), NEW B, B \subseteq SUBSET S, B # {}
  PROVE  \E T \in B : \A U \in B : U \subseteq T => U = T
<1>1. IsWellFoundedOn(StrictSubsetOrdering(S), FiniteSubsetsOf(S))
  BY FS_StrictSubsetOrderingWellFounded
<1>2. FiniteSubsetsOf(S) = SUBSET S
  BY FS_FiniteSubsetsOfFinite
<1>3. PICK T \in B : \A U \in B : ~ (<<U, T>> \in StrictSubsetOrdering(S))
  BY <1>1, <1>2, WFMin
<1>4. ASSUME NEW U \in B, U \subseteq T PROVE U = T
  BY <1>3, <1>4 DEF StrictSubsetOrdering
<1> QED
  BY <1>4

(* A finite set of numbers has a greatest element.                         *)
LEMMA MaxIs ==
  ASSUME NEW S, S \subseteq Nat, IsFiniteSet(S), S # {}
  PROVE  Max(S) \in S /\ \A k \in S : k <= Max(S)
<1> DEFINE Bad == {T \in SUBSET S : T # {} /\ ~ \E m \in T : \A k \in T : k <= m}
<1>1. Bad = {}
  <2> SUFFICES ASSUME Bad # {} PROVE FALSE
    OBVIOUS
  <2>1. PICK T \in Bad : \A U \in Bad : U \subseteq T => U = T
    <3>1. Bad \subseteq SUBSET S
      OBVIOUS
    <3>2. IsFiniteSet(S)
      OBVIOUS
    <3> HIDE DEF Bad
    <3> QED BY ONLY <3>1, <3>2, Bad # {}, LeastSet
  <2>2. T \in SUBSET S /\ T # {} /\ ~ \E m \in T : \A k \in T : k <= m
    BY <2>1
  <2>3. PICK x \in T : TRUE
    BY <2>2
  <2> DEFINE U == T \ {x}
  <2>4. U \notin Bad /\ U \in SUBSET S
    <3> HIDE DEF Bad
    <3> QED BY <2>1, <2>2, <2>3
  <2>5. U # {}
    <3> SUFFICES ASSUME U = {} PROVE FALSE
      OBVIOUS
    <3>1. \A k \in T : k <= x
      BY <2>2
    <3> QED BY <2>2, <2>3, <3>1
  <2>6. PICK m \in U : \A k \in U : k <= m
    BY <2>4, <2>5
  <2>7. m \in T /\ m \in Nat /\ x \in Nat
    BY <2>2, <2>3, <2>6
  <2>8. CASE x <= m
    <3>1. \A k \in T : k <= m
      BY <2>6, <2>8
    <3> QED BY <2>2, <2>7, <3>1
  <2>9. CASE m <= x
    <3>1. \A k \in T : k <= x
      BY <2>2, <2>6, <2>7, <2>9
    <3> QED BY <2>2, <2>3, <3>1
  <2> QED BY <2>7, <2>8, <2>9
<1>2. \E m \in S : \A k \in S : k <= m
  BY <1>1
<1>3. \E m \in S : \A k \in S : m >= k
  BY <1>2
<1>4. \A k \in S : Max(S) >= k /\ Max(S) \in S
  BY <1>3 DEF Max
<1> QED BY <1>4

-----------------------------------------------------------------------------
(***************************************************************************)
(* Batches.  A slice has positions; a metric added to one goes behind all. *)
(***************************************************************************)
Positions(ms) == DOMAIN ms \subseteq Nat \ {0} /\ IsFiniteSet(DOMAIN ms)

WellPlaced(rms) ==
  Positions(rms) /\ \A r \in DOMAIN rms : Positions(rms[r].metrics)

LEMMA PlacesAre ==
  ASSUME NEW rms
  PROVE  \A r, k : <<r, k>> \in Places(rms) <=> r \in DOMAIN rms /\ k \in DOMAIN rms[r].metrics
BY DEF Places

LEMMA PlaceParts ==
  ASSUME NEW rms, NEW p \in Places(rms)
  PROVE  /\ p = <<p[1], p[2]>> /\ p[1] \in DOMAIN rms /\ p[2] \in DOMAIN rms[p[1]].metrics
         /\ At(rms, p) = rms[p[1]].metrics[p[2]]
BY DEF Places, At

End(ms) == Max(DOMAIN ms \cup {0})

LEMMA EndIs ==
  ASSUME NEW ms, Positions(ms)
  PROVE  End(ms) \in Nat /\ \A k \in DOMAIN ms : k <= End(ms)
<1> DEFINE S == DOMAIN ms \cup {0}
<1>1. S \subseteq Nat /\ IsFiniteSet(S) /\ S # {}
  BY FS_AddElement DEF Positions
<1> HIDE DEF S
<1>2. Max(S) \in S /\ \A k \in S : k <= Max(S)
  BY <1>1, MaxIs
<1> QED BY <1>1, <1>2 DEF End, S

(* A set of numbers, all shifted.                                          *)
LEMMA ShiftFinite ==
  ASSUME NEW S, IsFiniteSet(S), NEW e
  PROVE  IsFiniteSet({e + j : j \in S})
<1> DEFINE f == [j \in S |-> e + j]
           T == {e + j : j \in S}
<1>1. f \in Surjection(S, T)
  BY DEF Surjection
<1> HIDE DEF f, T
<1>2. IsFiniteSet(T)
  BY <1>1, FS_Surjection
<1> QED BY <1>2 DEF T

LEMMA AppendedIs ==
  ASSUME NEW ms, NEW added, Positions(ms), Positions(added)
  PROVE  /\ Positions(Appended(ms, added))
         /\ DOMAIN Appended(ms, added) = DOMAIN ms \cup {End(ms) + j : j \in DOMAIN added}
         /\ \A k \in DOMAIN ms : Appended(ms, added)[k] = ms[k]
         /\ \A j \in DOMAIN added : /\ End(ms) + j \notin DOMAIN ms
                                   /\ Appended(ms, added)[End(ms) + j] = added[j]
<1>1. End(ms) \in Nat /\ \A k \in DOMAIN ms : k <= End(ms)
  BY EndIs
<1> DEFINE D == DOMAIN ms \cup {End(ms) + j : j \in DOMAIN added}
<1>2. Appended(ms, added) = [k \in D |-> IF k \in DOMAIN ms THEN ms[k] ELSE added[k - End(ms)]]
  BY DEF Appended, End
<1>3. DOMAIN Appended(ms, added) = D
  BY <1>2
<1>4. DOMAIN ms \subseteq Nat \ {0} /\ DOMAIN added \subseteq Nat \ {0}
  BY DEF Positions
<1>5. ASSUME NEW j \in DOMAIN added
      PROVE  End(ms) + j \in Nat \ {0} /\ End(ms) + j \notin DOMAIN ms /\ (End(ms) + j) - End(ms) = j
  BY <1>1, <1>4
<1>6. D \subseteq Nat \ {0}
  BY <1>4, <1>5
<1>7. IsFiniteSet(D)
  <2> DEFINE T == {End(ms) + j : j \in DOMAIN added}
  <2>1. IsFiniteSet(T) /\ IsFiniteSet(DOMAIN ms)
    BY ShiftFinite DEF Positions
  <2> HIDE DEF T
  <2>2. IsFiniteSet(DOMAIN ms \cup T)
    BY <2>1, FS_Union
  <2> QED BY <2>2 DEF T
<1>8. \A k \in DOMAIN ms : Appended(ms, added)[k] = ms[k]
  BY <1>2
<1>9. \A j \in DOMAIN added : Appended(ms, added)[End(ms) + j] = added[j]
  BY <1>2, <1>5
<1> QED BY <1>3, <1>5, <1>6, <1>7, <1>8, <1>9 DEF Positions

-----------------------------------------------------------------------------
(***************************************************************************)
(* The batch as it comes in.                                               *)
(***************************************************************************)
Hosts(disks) == IF disks THEN 2 ELSE 1

CPUPlace == <<1, 1>>
OpsPlace == <<2, 2>>
TimePlace == <<2, 3>>

(* A batch of a host with or without disks (hosts is 2 or 1), and of its   *)
(* processes, in the order of SetToSeq.                                    *)
BatchOf(b, hosts, P, c, d, at, f) ==
  /\ hosts \in {1, 2}
  /\ DOMAIN b = 1 .. hosts + Cardinality(P)
  /\ b[1] = [attrs |-> {}, metrics |-> <<CPUTimes(c, at), MemoryUsage(at, f)>>]
  /\ hosts = 2 => b[2] = [attrs |-> {}, metrics |-> <<DiskIo(d, at, f), DiskOperations(d, at),
                                                     DiskTime(d, at)>>]
  /\ \A j \in 1 .. Cardinality(P) : b[hosts + j] = ProcessResource(SetToSeq(P)[j], d, at, f)

LEMMA ProcessOrder ==
  ASSUME NEW P \in SUBSET Processes
  PROVE  /\ SetToSeq(P) \in [1 .. Cardinality(P) -> P]
         /\ Cardinality(P) \in Nat
         /\ Len(SetToSeq(P)) = Cardinality(P)
         /\ \A i, j \in 1 .. Cardinality(P) : SetToSeq(P)[i] = SetToSeq(P)[j] => i = j
         /\ \A p \in P : \E j \in 1 .. Cardinality(P) : SetToSeq(P)[j] = p
<1>1. IsFiniteSet(P)
  BY HostAssumption, FS_Subset
<1> DEFINE n == Cardinality(P)
<1>2. n \in Nat /\ ExistsBijection(1 .. n, P)
  BY <1>1, FS_CardinalityType
<1>3. PICK g \in [1 .. n -> P] : IsInjective(g)
  BY <1>2 DEF ExistsBijection, Bijection, Injection
<1>4. SetToSeq(P) \in [1 .. n -> P] /\ IsInjective(SetToSeq(P))
  BY <1>3 DEF SetToSeq
<1>5. Len(SetToSeq(P)) = n
  <2> HIDE DEF n
  <2> QED BY <1>2, <1>4
<1>6. SetToSeq(P) \in Surjection(1 .. n, P)
  <2>1. IsFiniteSet(1 .. n) /\ Cardinality(1 .. n) = n
    <3> HIDE DEF n
    <3> QED BY <1>2, FS_Interval
  <2>2. SetToSeq(P) \in Injection(1 .. n, P)
    BY <1>4 DEF Injection
  <2> QED BY <1>1, <2>1, <2>2, FS_Injection
<1>7. \A p \in P : \E j \in 1 .. n : SetToSeq(P)[j] = p
  BY <1>6 DEF Surjection
<1> QED BY <1>2, <1>4, <1>5, <1>7 DEF IsInjective
LEMMA BatchIs ==
  ASSUME NEW c, NEW d, NEW at, NEW P \in SUBSET Processes, NEW disks \in BOOLEAN,
         NEW f, f # "hostless"
  PROVE  BatchOf(Batch(c, d, at, P, disks, f), Hosts(disks), P, c, d, at, f)
<1> DEFINE h == HostResources(c, d, at, disks, f)
           n == Cardinality(P)
           ps == SetToSeq(P)
           q == [j \in 1 .. n |-> ProcessResource(ps[j], d, at, f)]
           H == Hosts(disks)
           b == Batch(c, d, at, P, disks, f)
<1>1. n \in Nat /\ Len(ps) = n
  BY ProcessOrder
<1>2. b = h \o q
  BY <1>1 DEF Batch
<1>3. /\ h \in Seq({h[1], h[2]}) /\ Len(h) = H
      /\ h[1] = [attrs |-> {}, metrics |-> <<CPUTimes(c, at), MemoryUsage(at, f)>>]
      /\ disks => h[2] = [attrs |-> {}, metrics |-> <<DiskIo(d, at, f), DiskOperations(d, at),
                                                     DiskTime(d, at)>>]
  <2>1. CASE disks
    BY <2>1 DEF HostResources, Hosts
  <2>2. CASE ~disks
    BY <2>2 DEF HostResources, Hosts
  <2> QED BY <2>1, <2>2
<1>4. H \in {1, 2} /\ (disks => H = 2)
  BY DEF Hosts
<1>5. q \in Seq({q[j] : j \in 1 .. n}) /\ Len(q) = n /\ \A j \in 1 .. n : q[j] = ProcessResource(ps[j], d, at, f)
  <2> HIDE DEF n
  <2> QED BY <1>1
<1> HIDE DEF h, q, n, H, b, ps
<1> DEFINE V == {h[1], h[2]} \cup {q[j] : j \in 1 .. n}
<1>6. h \in Seq(V) /\ q \in Seq(V)
  BY <1>3, <1>5
<1> HIDE DEF V
<1>7. DOMAIN b = 1 .. H + n
  BY <1>1, <1>2, <1>3, <1>4, <1>5, <1>6
<1>8. \A i \in 1 .. H : b[i] = h[i]
  BY <1>1, <1>2, <1>3, <1>4, <1>5, <1>6
<1>9. ASSUME NEW j \in 1 .. n PROVE b[H + j] = q[j]
  <2>1. H + j \in 1 .. Len(h) + Len(q) /\ H + j > Len(h) /\ (H + j) - Len(h) = j
    BY <1>1, <1>3, <1>4, <1>5
  <2> QED BY <1>2, <1>6, <2>1
<1>10. b[1] = h[1] /\ (disks => b[2] = h[2])
  BY <1>4, <1>8
<1>11. H = 2 <=> disks
  BY DEF H, Hosts
<1> QED
  BY <1>3, <1>4, <1>5, <1>7, <1>9, <1>10, <1>11 DEF b, n, ps, H, BatchOf

(* After the first two passes: memory is a gauge, no point has a version.  *)
MemoryGauge(at, f) ==
  MetricOf("system.memory.usage", "Gauge", FALSE, MemoryUsage(at, f).points)

IoOf(p, d, at) ==
  MetricOf("process.disk.io", "Sum", TRUE,
    [i \in {p} \X Directions |-> Point({<<"direction", i[2]>>}, d[i[2]].ops, at)])

Unversioned(m) == OnPoints(m, LAMBDA p : Labelled(p, Drop(p.attrs, "service_version")))

Prepared(rms) == removeVersionAttribute(convertNonMonotonicSumsToGauges(rms))

PreparedOf(b, hosts, P, c, d, at, f) ==
  /\ hosts \in {1, 2}
  /\ DOMAIN b = 1 .. hosts + Cardinality(P)
  /\ b[1] = [attrs |-> {}, metrics |-> <<CPUTimes(c, at), MemoryGauge(at, f)>>]
  /\ hosts = 2 => b[2] = [attrs |-> {}, metrics |-> <<DiskIo(d, at, f), DiskOperations(d, at),
                                                     DiskTime(d, at)>>]
  /\ \A j \in 1 .. Cardinality(P) :
       b[hosts + j] = [attrs   |-> ProcessResource(SetToSeq(P)[j], d, at, f).attrs,
                       metrics |-> <<IoOf(SetToSeq(P)[j], d, at)>>]

LEMMA DropOther ==
  \A S, k : (\A a \in S : a[1] # k) => Drop(S, k) = S
BY DEF Drop

LEMMA UnversionedPoints ==
  ASSUME NEW m, m = MetricOf(m.name, m.kind, m.monotonic, m.points), NEW I, m.points = [i \in I |-> m.points[i]],
         \A i \in I : /\ m.points[i] = [attrs |-> m.points[i].attrs, num |-> m.points[i].num,
                                        den |-> m.points[i].den, at |-> m.points[i].at]
                      /\ \A a \in m.points[i].attrs : a[1] # "service_version"
  PROVE  Unversioned(m) = m
<1>1. DOMAIN m.points = I
  OBVIOUS
<1>2. ASSUME NEW i \in I PROVE Drop(m.points[i].attrs, "service_version") = m.points[i].attrs
  <2>1. \A a \in m.points[i].attrs : a[1] # "service_version"
    OBVIOUS
  <2> QED BY <2>1, DropOther, Zenon
<1>3. \A i \in I : Labelled(m.points[i], Drop(m.points[i].attrs, "service_version")) = m.points[i]
  BY <1>2 DEF Labelled
<1>4. [i \in DOMAIN m.points |-> Labelled(m.points[i], Drop(m.points[i].attrs, "service_version"))] = m.points
  BY <1>1, <1>3
<1> QED
  BY <1>4 DEF Unversioned, OnPoints

LEMMA UnversionedHost ==
  ASSUME NEW c, NEW d, NEW at, NEW f
  PROVE  /\ Unversioned(convertToGauge(CPUTimes(c, at))) = CPUTimes(c, at)
         /\ Unversioned(convertToGauge(MemoryUsage(at, f))) = MemoryGauge(at, f)
         /\ Unversioned(convertToGauge(DiskIo(d, at, f))) = DiskIo(d, at, f)
         /\ Unversioned(convertToGauge(DiskOperations(d, at))) = DiskOperations(d, at)
         /\ Unversioned(convertToGauge(DiskTime(d, at))) = DiskTime(d, at)
<1>1. /\ convertToGauge(CPUTimes(c, at)) = CPUTimes(c, at)
      /\ convertToGauge(MemoryUsage(at, f)) = MemoryGauge(at, f)
      /\ convertToGauge(DiskIo(d, at, f)) = DiskIo(d, at, f)
      /\ convertToGauge(DiskOperations(d, at)) = DiskOperations(d, at)
      /\ convertToGauge(DiskTime(d, at)) = DiskTime(d, at)
  BY DEF convertToGauge, CPUTimes, MemoryUsage, MemoryGauge, DiskIo, DiskOperations, DiskTime, MetricOf
<1>2. Unversioned(CPUTimes(c, at)) = CPUTimes(c, at)
  BY UnversionedPoints DEF CPUTimes, MetricOf, Point
<1>3. Unversioned(MemoryGauge(at, f)) = MemoryGauge(at, f)
  BY UnversionedPoints DEF MemoryUsage, MemoryGauge, MetricOf, Point
<1>4. Unversioned(DiskIo(d, at, f)) = DiskIo(d, at, f)
  BY UnversionedPoints DEF DiskIo, MetricOf, Point
<1>5. Unversioned(DiskOperations(d, at)) = DiskOperations(d, at)
  BY UnversionedPoints DEF DiskOperations, MetricOf, Point
<1>6. Unversioned(DiskTime(d, at)) = DiskTime(d, at)
  BY UnversionedPoints DEF DiskTime, MetricOf, Point
<1> QED
  BY <1>1, <1>2, <1>3, <1>4, <1>5, <1>6

LEMMA UnversionedProcess ==
  ASSUME NEW p, NEW d, NEW at
  PROVE  Unversioned(convertToGauge(ProcessIo(p, d, at))) = IoOf(p, d, at)
<1>1. convertToGauge(ProcessIo(p, d, at)) = ProcessIo(p, d, at)
  BY DEF convertToGauge, ProcessIo, MetricOf
<1>2. \A x : Drop({<<"direction", x>>, <<"service_version", "1">>}, "service_version") = {<<"direction", x>>}
  BY DEF Drop
<1> DEFINE m == ProcessIo(p, d, at)
<1>3. /\ m.name = "process.disk.io" /\ m.kind = "Sum" /\ m.monotonic = TRUE
      /\ m.points = [i \in {p} \X Directions |->
           Point({<<"direction", i[2]>>, <<"service_version", "1">>}, d[i[2]].ops, at)]
  BY DEF ProcessIo, MetricOf
<1>4. DOMAIN m.points = {p} \X Directions
  BY <1>3
<1>5. ASSUME NEW i \in {p} \X Directions
      PROVE  Labelled(m.points[i], Drop(m.points[i].attrs, "service_version"))
               = Point({<<"direction", i[2]>>}, d[i[2]].ops, at)
  <2> HIDE DEF m
  <2>1. m.points[i] = Point({<<"direction", i[2]>>, <<"service_version", "1">>}, d[i[2]].ops, at)
    BY <1>3
  <2>2. /\ m.points[i].attrs = {<<"direction", i[2]>>, <<"service_version", "1">>}
        /\ m.points[i].num = d[i[2]].ops /\ m.points[i].den = 1 /\ m.points[i].at = at
    BY <2>1 DEF Point
  <2>3. Drop(m.points[i].attrs, "service_version") = {<<"direction", i[2]>>}
    BY <1>2, <2>2
  <2> QED BY <2>2, <2>3 DEF Point, Labelled
<1>6. Unversioned(m) = MetricOf(m.name, m.kind, m.monotonic,
        [i \in DOMAIN m.points |-> Labelled(m.points[i], Drop(m.points[i].attrs, "service_version"))])
  BY DEF Unversioned, OnPoints
<1>7. convertToGauge(m) = m
  BY <1>1
<1> HIDE DEF m
<1>8. [i \in DOMAIN m.points |-> Labelled(m.points[i], Drop(m.points[i].attrs, "service_version"))]
        = [i \in {p} \X Directions |-> Point({<<"direction", i[2]>>}, d[i[2]].ops, at)]
  BY <1>4, <1>5
<1>9. Unversioned(m) = IoOf(p, d, at)
  BY <1>3, <1>6, <1>8 DEF IoOf
<1> QED
  BY <1>7, <1>9 DEF m

(* What the first two passes do with each metric.                          *)
LEMMA PreparedAre ==
  ASSUME NEW b
  PROVE  /\ DOMAIN Prepared(b) = DOMAIN b
         /\ \A r \in DOMAIN b :
              Prepared(b)[r] = [attrs   |-> b[r].attrs,
                                metrics |-> [k \in DOMAIN b[r].metrics |->
                                               Unversioned(convertToGauge(b[r].metrics[k]))]]
<1> DEFINE g == convertNonMonotonicSumsToGauges(b)
<1>1. g = [r \in DOMAIN b |->
             [attrs   |-> b[r].attrs,
              metrics |-> [k \in DOMAIN b[r].metrics |-> convertToGauge(b[r].metrics[k])]]]
  BY DEF convertNonMonotonicSumsToGauges, OnMetrics
<1>2. Prepared(b) = [r \in DOMAIN g |->
             [attrs   |-> g[r].attrs,
              metrics |-> [k \in DOMAIN g[r].metrics |-> Unversioned(g[r].metrics[k])]]]
  BY DEF Prepared, removeVersionAttribute, OnMetrics, Unversioned
<1> HIDE DEF g
<1>3. ASSUME NEW r \in DOMAIN b
      PROVE  Prepared(b)[r] = [attrs   |-> b[r].attrs,
                               metrics |-> [k \in DOMAIN b[r].metrics |->
                                              Unversioned(convertToGauge(b[r].metrics[k]))]]
  <2>1. g[r] = [attrs   |-> b[r].attrs,
                metrics |-> [k \in DOMAIN b[r].metrics |-> convertToGauge(b[r].metrics[k])]]
    BY <1>1
  <2>2. /\ g[r].attrs = b[r].attrs
        /\ g[r].metrics = [k \in DOMAIN b[r].metrics |-> convertToGauge(b[r].metrics[k])]
    BY <2>1
  <2>3. [k \in DOMAIN g[r].metrics |-> Unversioned(g[r].metrics[k])]
          = [k \in DOMAIN b[r].metrics |-> Unversioned(convertToGauge(b[r].metrics[k]))]
    BY <2>2
  <2>4. r \in DOMAIN g
    BY <1>1
  <2> QED BY <1>2, <2>2, <2>3, <2>4
<1> QED
  BY <1>1, <1>2, <1>3

LEMMA PreparedIs ==
  ASSUME NEW b, NEW hosts, NEW P, NEW c, NEW d, NEW at, NEW f, Cardinality(P) \in Nat,
         BatchOf(b, hosts, P, c, d, at, f)
  PROVE  PreparedOf(Prepared(b), hosts, P, c, d, at, f)
<1> DEFINE q == Prepared(b)
           New(m) == Unversioned(convertToGauge(m))
<1>1. /\ DOMAIN q = DOMAIN b
      /\ \A r \in DOMAIN b : q[r] = [attrs |-> b[r].attrs,
                                     metrics |-> [k \in DOMAIN b[r].metrics |-> New(b[r].metrics[k])]]
  BY PreparedAre
<1>2. hosts \in {1, 2} /\ DOMAIN b = 1 .. hosts + Cardinality(P)
  BY DEF BatchOf
<1> HIDE DEF q, New
<1>3. q[1] = [attrs |-> {}, metrics |-> <<CPUTimes(c, at), MemoryGauge(at, f)>>]
  <2>1. /\ 1 \in DOMAIN b /\ b[1].attrs = {}
        /\ b[1].metrics = <<CPUTimes(c, at), MemoryUsage(at, f)>>
    BY <1>2 DEF BatchOf
  <2>2. [k \in DOMAIN b[1].metrics |-> New(b[1].metrics[k])]
          = <<New(CPUTimes(c, at)), New(MemoryUsage(at, f))>>
    BY <2>1
  <2>3. New(CPUTimes(c, at)) = CPUTimes(c, at) /\ New(MemoryUsage(at, f)) = MemoryGauge(at, f)
    BY UnversionedHost DEF New
  <2> QED BY <1>1, <2>1, <2>2, <2>3
<1>4. ASSUME hosts = 2
      PROVE  q[2] = [attrs |-> {}, metrics |-> <<DiskIo(d, at, f), DiskOperations(d, at),
                                                 DiskTime(d, at)>>]
  <2>1. /\ 2 \in DOMAIN b /\ b[2].attrs = {}
        /\ b[2].metrics = <<DiskIo(d, at, f), DiskOperations(d, at), DiskTime(d, at)>>
    BY <1>2, <1>4 DEF BatchOf
  <2>2. [k \in DOMAIN b[2].metrics |-> New(b[2].metrics[k])]
          = <<New(DiskIo(d, at, f)), New(DiskOperations(d, at)), New(DiskTime(d, at))>>
    BY <2>1
  <2>3. /\ New(DiskIo(d, at, f)) = DiskIo(d, at, f)
        /\ New(DiskOperations(d, at)) = DiskOperations(d, at)
        /\ New(DiskTime(d, at)) = DiskTime(d, at)
    BY UnversionedHost DEF New
  <2> QED BY <1>1, <2>1, <2>2, <2>3
<1>5. ASSUME NEW j \in 1 .. Cardinality(P)
      PROVE  q[hosts + j] = [attrs   |-> ProcessResource(SetToSeq(P)[j], d, at, f).attrs,
                             metrics |-> <<IoOf(SetToSeq(P)[j], d, at)>>]
  <2> DEFINE p == SetToSeq(P)[j]
             r == hosts + j
  <2>1. r \in DOMAIN b /\ b[r] = ProcessResource(p, d, at, f)
    BY <1>2 DEF BatchOf
  <2>2. b[r].attrs = ProcessResource(p, d, at, f).attrs /\ b[r].metrics = <<ProcessIo(p, d, at)>>
    BY <2>1 DEF ProcessResource
  <2>3. [k \in DOMAIN b[r].metrics |-> New(b[r].metrics[k])] = <<New(ProcessIo(p, d, at))>>
    BY <2>2
  <2>4. New(ProcessIo(p, d, at)) = IoOf(p, d, at)
    BY UnversionedProcess DEF New
  <2> HIDE DEF p, r
  <2>5. q[r] = [attrs |-> ProcessResource(p, d, at, f).attrs, metrics |-> <<IoOf(p, d, at)>>]
    BY <1>1, <2>1, <2>2, <2>3, <2>4
  <2> QED BY <2>5 DEF p, r
<1> QED
  BY <1>1, <1>2, <1>3, <1>4, <1>5 DEF PreparedOf, q

-----------------------------------------------------------------------------
(***************************************************************************)
(* What a pass may do: change the metrics of each resource and append some.*)
(***************************************************************************)
PassOf(R, S, old, added) ==
  /\ DOMAIN S = DOMAIN R
  /\ \A r \in DOMAIN R :
       /\ DOMAIN old[r] = DOMAIN R[r].metrics
       /\ Positions(added[r])
       /\ S[r] = [attrs |-> R[r].attrs, metrics |-> Appended(old[r], added[r])]

LEMMA PassKeeps ==
  ASSUME NEW R, NEW S, NEW old, NEW added, WellPlaced(R), PassOf(R, S, old, added)
  PROVE  /\ WellPlaced(S)
         /\ \A p \in Places(R) : p \in Places(S) /\ At(S, p) = old[p[1]][p[2]]
<1>1. ASSUME NEW r \in DOMAIN R
      PROVE  /\ Positions(S[r].metrics)
             /\ \A k \in DOMAIN R[r].metrics : k \in DOMAIN S[r].metrics /\ S[r].metrics[k] = old[r][k]
  <2>1. Positions(old[r]) /\ Positions(added[r]) /\ DOMAIN old[r] = DOMAIN R[r].metrics
    BY DEF PassOf, WellPlaced, Positions
  <2>2. S[r].metrics = Appended(old[r], added[r])
    BY DEF PassOf
  <2> DEFINE o == old[r]
             a == added[r]
             A == Appended(o, a)
  <2>3. Positions(o) /\ Positions(a)
    BY <2>1
  <2> HIDE DEF o, a
  <2>4. /\ Positions(A)
        /\ \A k \in DOMAIN o : A[k] = o[k]
        /\ DOMAIN A = DOMAIN o \cup {End(o) + j : j \in DOMAIN a}
        /\ \A j \in DOMAIN a : End(o) + j \notin DOMAIN o /\ A[End(o) + j] = a[j]
    BY ONLY <2>3, AppendedIs
  <2>5. S[r].metrics = A /\ DOMAIN o = DOMAIN R[r].metrics /\ o = old[r] /\ a = added[r]
    BY <2>1, <2>2 DEF o, a
  <2> HIDE DEF A
  <2> QED BY <2>4, <2>5
<1>2. WellPlaced(S)
  BY <1>1 DEF WellPlaced, PassOf, Positions
<1>3. ASSUME NEW p \in Places(R) PROVE p \in Places(S) /\ At(S, p) = old[p[1]][p[2]]
  <2>1. p = <<p[1], p[2]>> /\ p[1] \in DOMAIN R /\ p[2] \in DOMAIN R[p[1]].metrics
    BY PlaceParts
  <2>2. p[2] \in DOMAIN S[p[1]].metrics /\ S[p[1]].metrics[p[2]] = old[p[1]][p[2]]
    BY <1>1, <2>1
  <2>3. p[1] \in DOMAIN S
    BY <2>1 DEF PassOf
  <2>4. <<p[1], p[2]>> \in Places(S)
    BY <2>2, <2>3, PlacesAre
  <2> QED BY <2>1, <2>2, <2>4 DEF At
<1> QED BY <1>2, <1>3

(* Every place a pass adds is that of one metric it appends.               *)
LEMMA PassAdds ==
  ASSUME NEW R, NEW S, NEW old, NEW added, WellPlaced(R), PassOf(R, S, old, added)
  PROVE  /\ \A q \in Places(S) \ Places(R) :
              /\ q[1] \in DOMAIN R
              /\ \E j \in DOMAIN added[q[1]] :
                   q = <<q[1], End(old[q[1]]) + j>> /\ At(S, q) = added[q[1]][j]
         /\ \A r \in DOMAIN R : \A j \in DOMAIN added[r] :
              /\ <<r, End(old[r]) + j>> \in Places(S) \ Places(R)
              /\ At(S, <<r, End(old[r]) + j>>) = added[r][j]
<1>1. ASSUME NEW r \in DOMAIN R
      PROVE  /\ DOMAIN S[r].metrics = DOMAIN R[r].metrics \cup {End(old[r]) + j : j \in DOMAIN added[r]}
             /\ \A j \in DOMAIN added[r] : /\ End(old[r]) + j \notin DOMAIN R[r].metrics
                                           /\ S[r].metrics[End(old[r]) + j] = added[r][j]
  <2>1. Positions(old[r]) /\ Positions(added[r]) /\ DOMAIN old[r] = DOMAIN R[r].metrics
    BY DEF PassOf, WellPlaced, Positions
  <2>2. S[r].metrics = Appended(old[r], added[r])
    BY DEF PassOf
  <2> DEFINE o == old[r]
             a == added[r]
             A == Appended(o, a)
  <2>3. Positions(o) /\ Positions(a)
    BY <2>1
  <2> HIDE DEF o, a
  <2>4. /\ Positions(A)
        /\ \A k \in DOMAIN o : A[k] = o[k]
        /\ DOMAIN A = DOMAIN o \cup {End(o) + j : j \in DOMAIN a}
        /\ \A j \in DOMAIN a : End(o) + j \notin DOMAIN o /\ A[End(o) + j] = a[j]
    BY ONLY <2>3, AppendedIs
  <2>5. S[r].metrics = A /\ DOMAIN o = DOMAIN R[r].metrics /\ o = old[r] /\ a = added[r]
    BY <2>1, <2>2 DEF o, a
  <2> HIDE DEF A
  <2> QED BY <2>4, <2>5
<1>2. ASSUME NEW q \in Places(S) \ Places(R)
      PROVE  /\ q[1] \in DOMAIN R
             /\ \E j \in DOMAIN added[q[1]] :
                  q = <<q[1], End(old[q[1]]) + j>> /\ At(S, q) = added[q[1]][j]
  <2>1. /\ q = <<q[1], q[2]>> /\ q[1] \in DOMAIN R /\ q[2] \in DOMAIN S[q[1]].metrics
        /\ At(S, q) = S[q[1]].metrics[q[2]]
    BY PlaceParts DEF PassOf
  <2>2. q[2] \notin DOMAIN R[q[1]].metrics
    BY <2>1, PlacesAre
  <2>3. PICK j \in DOMAIN added[q[1]] : q[2] = End(old[q[1]]) + j
    BY <1>1, <2>1, <2>2
  <2>4. At(S, q) = added[q[1]][j]
    BY <1>1, <2>1, <2>3
  <2> QED BY <2>1, <2>3, <2>4
<1>3. ASSUME NEW r \in DOMAIN R, NEW j \in DOMAIN added[r]
      PROVE  /\ <<r, End(old[r]) + j>> \in Places(S) \ Places(R)
             /\ At(S, <<r, End(old[r]) + j>>) = added[r][j]
  <2>1. End(old[r]) + j \in DOMAIN S[r].metrics /\ End(old[r]) + j \notin DOMAIN R[r].metrics
    BY <1>1
  <2>2. r \in DOMAIN S
    BY DEF PassOf
  <2>3. <<r, End(old[r]) + j>> \in Places(S) /\ <<r, End(old[r]) + j>> \notin Places(R)
    BY <2>1, <2>2, PlacesAre
  <2>4. At(S, <<r, End(old[r]) + j>>) = added[r][j]
    BY <1>1 DEF At
  <2> QED BY <2>3, <2>4
<1> QED BY <1>2, <1>3

(* A pass that appends nothing.                                            *)
LEMMA NothingAppended ==
  ASSUME NEW ms, Positions(ms), ms = [k \in DOMAIN ms |-> ms[k]], NEW added, DOMAIN added = {}
  PROVE  Appended(ms, added) = ms
<1> DEFINE A == Appended(ms, added)
<1>1. Positions(added)
  BY FS_EmptySet DEF Positions
<1>2. /\ DOMAIN A = DOMAIN ms \cup {End(ms) + j : j \in DOMAIN added}
      /\ \A k \in DOMAIN ms : A[k] = ms[k]
  BY ONLY Positions(ms), <1>1, AppendedIs
<1>3. A = [k \in DOMAIN A |-> A[k]]
  BY DEF Appended
<1> HIDE DEF A
<1>4. DOMAIN A = DOMAIN ms
  BY <1>2
<1>5. A = ms
  BY <1>2, <1>3, <1>4
<1> QED BY <1>5 DEF A

(* The metrics with one of these names are the same, at the same places.   *)
Spares(R, S, names) ==
  /\ \A p \in Places(R) : At(R, p).name \in names => p \in Places(S) /\ At(S, p) = At(R, p)
  /\ \A q \in Places(S) : At(S, q).name \in names => q \in Places(R) /\ At(R, q).name \in names

LEMMA SparesTwice ==
  ASSUME NEW R, NEW S, NEW T, NEW names, Spares(R, S, names), Spares(S, T, names)
  PROVE  Spares(R, T, names)
BY DEF Spares

(* Metric m is at place p, and no other has its name.                      *)
Only(R, p, m) ==
  p \in Places(R) /\ At(R, p) = m /\ \A q \in Places(R) : At(R, q).name = m.name => q = p

Absent(R, name) == \A q \in Places(R) : At(R, q).name # name

LEMMA OnlySpared ==
  ASSUME NEW R, NEW S, NEW names, Spares(R, S, names), NEW p, NEW m, m.name \in names, Only(R, p, m)
  PROVE  Only(S, p, m)
<1>1. p \in Places(S) /\ At(S, p) = m
  BY DEF Spares, Only
<1>2. ASSUME NEW q \in Places(S), At(S, q).name = m.name PROVE q = p
  <2>1. q \in Places(R) /\ At(R, q).name \in names
    BY <1>2 DEF Spares
  <2>2. At(S, q) = At(R, q)
    BY <2>1 DEF Spares
  <2> QED BY <1>2, <2>1, <2>2 DEF Only
<1> QED BY <1>1, <1>2 DEF Only

LEMMA AbsentSpared ==
  ASSUME NEW R, NEW S, NEW names, Spares(R, S, names), NEW name \in names, Absent(R, name)
  PROVE  Absent(S, name)
<1>1. ASSUME NEW q \in Places(S), At(S, q).name = name PROVE FALSE
  <2>1. q \in Places(R) /\ At(R, q).name \in names
    BY <1>1 DEF Spares
  <2>2. At(S, q) = At(R, q)
    BY <2>1 DEF Spares
  <2> QED BY <1>1, <2>1, <2>2 DEF Absent
<1> QED BY <1>1 DEF Absent

-----------------------------------------------------------------------------
(***************************************************************************)
(* combineProcessMetrics.                                                  *)
(***************************************************************************)
ProcessLabels(p, x) == {<<"direction", x>>, <<"pid", p>>, <<"command_line", "long">>}

JoinedIo(P, d, at) ==
  MetricOf("process.disk.io", "Sum", TRUE,
    [i \in P \X Directions |-> Point(ProcessLabels(i[1], i[2]), d[i[2]].ops, at)])

(* The labels of a process get its id and its command line.                *)
LEMMA LabelsOfProcess ==
  ASSUME NEW p \in Processes, NEW x, NEW d, NEW at, NEW f, f # "attribute"
  PROVE  appendAttributesToLabels({<<"direction", x>>}, ProcessResource(p, d, at, f).attrs)
           = ProcessLabels(p, x)
<1> DEFINE line == IF p = "p1" THEN "long1" ELSE "long2"
           attributes == {<<"process.pid", p>>, <<"process.executable.path", "/bin/x">>,
                          <<"process.command_line", line>>}
           mapped == {a \in attributes : toCloudMonitoringLabel(a[1]) # ""}
           labels == {<<"direction", x>>}
<1>1. attributes = ProcessResource(p, d, at, f).attrs
  BY DEF ProcessResource
<1>2. /\ toCloudMonitoringLabel("process.pid") = "pid"
      /\ toCloudMonitoringLabel("process.command_line") = "command_line"
      /\ toCloudMonitoringLabel("process.executable.path") = ""
  BY DEF toCloudMonitoringLabel
<1>3. stringValue(p) = p /\ stringValue(line) = "long"
  BY HostAssumption DEF stringValue
<1> HIDE DEF line
<1> DEFINE a1 == <<"process.pid", p>>
           a2 == <<"process.executable.path", "/bin/x">>
           a3 == <<"process.command_line", line>>
           l1 == <<"direction", x>>
<1>4. /\ a1[1] = "process.pid" /\ a1[2] = p
      /\ a2[1] = "process.executable.path"
      /\ a3[1] = "process.command_line" /\ a3[2] = line
      /\ l1[1] = "direction"
      /\ attributes = {a1, a2, a3} /\ labels = {l1}
  OBVIOUS
<1> HIDE DEF a1, a2, a3, attributes, labels, l1, mapped
<1>5. mapped = {a1, a3}
  BY <1>2, <1>4 DEF mapped
<1>6. /\ {l \in labels : \A a \in mapped : toCloudMonitoringLabel(a[1]) # l[1]} = labels
      /\ {<<toCloudMonitoringLabel(a[1]), stringValue(a[2])>> : a \in mapped}
           = {<<"pid", p>>, <<"command_line", "long">>}
  <2>1. /\ toCloudMonitoringLabel(a1[1]) = "pid" /\ toCloudMonitoringLabel(a3[1]) = "command_line"
        /\ stringValue(a1[2]) = p /\ stringValue(a3[2]) = "long"
    BY <1>2, <1>3, <1>4
  <2>2. \A a \in mapped : toCloudMonitoringLabel(a[1]) # l1[1]
    BY <1>4, <1>5, <2>1
  <2>3. {<<toCloudMonitoringLabel(a[1]), stringValue(a[2])>> : a \in mapped}
          = {<<toCloudMonitoringLabel(a1[1]), stringValue(a1[2])>>,
             <<toCloudMonitoringLabel(a3[1]), stringValue(a3[2])>>}
    BY ONLY <1>5
  <2> QED BY <1>4, <2>1, <2>2, <2>3
<1>7. appendAttributesToLabels(labels, attributes)
        = {l \in labels : \A a \in mapped : toCloudMonitoringLabel(a[1]) # l[1]}
            \cup {<<toCloudMonitoringLabel(a[1]), stringValue(a[2])>> : a \in mapped}
  BY DEF appendAttributesToLabels, mapped
<1>8. appendAttributesToLabels(labels, attributes) = ProcessLabels(p, x)
  BY <1>4, <1>6, <1>7 DEF ProcessLabels, l1
<1>9. attributes = ProcessResource(p, d, at, f).attrs
  BY <1>1 DEF attributes
<1> QED BY <1>8, <1>9 DEF labels

LabelledIo(p, d, at) ==
  MetricOf("process.disk.io", "Sum", TRUE,
    [i \in {p} \X Directions |-> Point(ProcessLabels(i[1], i[2]), d[i[2]].ops, at)])

LEMMA LabelledIs ==
  ASSUME NEW p \in Processes, NEW d, NEW at, NEW f, f # "attribute",
         NEW res, res.attrs = ProcessResource(p, d, at, f).attrs
  PROVE  appendNumberDataSlice(IoOf(p, d, at), res) = LabelledIo(p, d, at)
<1> DEFINE m == IoOf(p, d, at)
           New(q) == Labelled(q, appendAttributesToLabels(q.attrs, res.attrs))
<1>0. ASSUME NEW x
      PROVE  appendAttributesToLabels({<<"direction", x>>}, res.attrs) = ProcessLabels(p, x)
  <2>1. appendAttributesToLabels({<<"direction", x>>}, ProcessResource(p, d, at, f).attrs)
          = ProcessLabels(p, x)
    BY LabelsOfProcess, Zenon
  <2> QED BY <2>1
<1>1. /\ m.name = "process.disk.io" /\ m.kind = "Sum" /\ m.monotonic = TRUE
      /\ m.points = [i \in {p} \X Directions |-> Point({<<"direction", i[2]>>}, d[i[2]].ops, at)]
  BY DEF IoOf, MetricOf
<1>2. ASSUME NEW i \in {p} \X Directions
      PROVE  New(m.points[i]) = Point(ProcessLabels(i[1], i[2]), d[i[2]].ops, at)
  <2> HIDE DEF m
  <2>1. m.points[i] = Point({<<"direction", i[2]>>}, d[i[2]].ops, at)
    BY <1>1
  <2>2. /\ m.points[i].attrs = {<<"direction", i[2]>>} /\ m.points[i].num = d[i[2]].ops
        /\ m.points[i].den = 1 /\ m.points[i].at = at
    BY <2>1 DEF Point
  <2>3. appendAttributesToLabels({<<"direction", i[2]>>}, res.attrs) = ProcessLabels(p, i[2])
    BY <1>0
  <2>4. i[1] = p
    OBVIOUS
  <2> QED BY <2>2, <2>3, <2>4 DEF Labelled, Point
<1>3. appendNumberDataSlice(m, res)
        = MetricOf(m.name, m.kind, m.monotonic, [i \in DOMAIN m.points |-> New(m.points[i])])
  BY DEF appendNumberDataSlice, OnPoints
<1> HIDE DEF m, New
<1>4. [i \in DOMAIN m.points |-> New(m.points[i])]
        = [i \in {p} \X Directions |-> Point(ProcessLabels(i[1], i[2]), d[i[2]].ops, at)]
  BY <1>1, <1>2
<1> QED BY <1>1, <1>3, <1>4 DEF m, LabelledIo

(* The points of all processes are those of the joined metric.             *)
LEMMA TogetherIs ==
  ASSUME NEW P, NEW d, NEW at
  PROVE  Together({LabelledIo(p, d, at) : p \in P}) = JoinedIo(P, d, at).points
<1> DEFINE M == {LabelledIo(p, d, at) : p \in P}
           pt(i) == Point(ProcessLabels(i[1], i[2]), d[i[2]].ops, at)
<1>1. \A p : /\ LabelledIo(p, d, at).points = [i \in {p} \X Directions |-> pt(i)]
             /\ DOMAIN LabelledIo(p, d, at).points = {p} \X Directions
  BY DEF LabelledIo, MetricOf
<1>2. JoinedIo(P, d, at).points = [i \in P \X Directions |-> pt(i)]
  BY DEF JoinedIo, MetricOf
<1>3. Together(M) = [i \in UNION {DOMAIN m.points : m \in M} |->
                       (CHOOSE m \in M : i \in DOMAIN m.points).points[i]]
  BY DEF Together
<1> HIDE DEF pt
<1>0. ASSUME NEW p, NEW i \in {p} \X Directions PROVE LabelledIo(p, d, at).points[i] = pt(i)
  <2>1. LabelledIo(p, d, at).points = [j \in {p} \X Directions |-> pt(j)]
    BY <1>1, Zenon
  <2> QED BY <2>1
<1>4. UNION {DOMAIN m.points : m \in M} = P \X Directions
  BY <1>1
<1>5. ASSUME NEW i \in P \X Directions
      PROVE  (CHOOSE m \in M : i \in DOMAIN m.points).points[i] = pt(i)
  <2>1. i[1] \in P /\ i \in {i[1]} \X Directions
    OBVIOUS
  <2>2. LabelledIo(i[1], d, at) \in M /\ i \in DOMAIN LabelledIo(i[1], d, at).points
    BY <1>1, <2>1
  <2>3. PICK m \in M : i \in DOMAIN m.points /\ m = CHOOSE x \in M : i \in DOMAIN x.points
    BY <2>2
  <2>4. PICK p \in P : m = LabelledIo(p, d, at)
    BY <2>3
  <2>5. i \in {p} \X Directions
    BY <1>1, <2>3, <2>4
  <2>6. m.points[i] = pt(i)
    BY <1>0, <2>4, <2>5
  <2> QED BY <2>3, <2>6
<1> HIDE DEF M
<1>6. Together(M) = [i \in P \X Directions |-> pt(i)]
  BY <1>3, <1>4, <1>5
<1> QED BY <1>2, <1>6 DEF M

LEMMA OrderOf ==
  ASSUME NEW x
  PROVE  /\ SetToSeq({x}) = [j \in {1} |-> x]
         /\ DOMAIN SetToSeq({}) = {}
<1>1. Cardinality({x}) = 1 /\ Cardinality({}) = 0
  BY FS_Singleton, FS_EmptySet
<1>2. SetToSeq({x}) = CHOOSE g \in [1 .. 1 -> {x}] : IsInjective(g)
  BY <1>1 DEF SetToSeq
<1>3. 1 .. 1 = {1} /\ 1 .. 0 = {}
  OBVIOUS
<1>4. [j \in {1} |-> x] \in [1 .. 1 -> {x}] /\ IsInjective([j \in {1} |-> x])
  BY <1>3 DEF IsInjective
<1>5. SetToSeq({x}) \in [1 .. 1 -> {x}]
  BY <1>2, <1>4
<1>6. SetToSeq({x}) = [j \in {1} |-> x]
  BY <1>3, <1>5
<1>7. SetToSeq({}) = CHOOSE g \in [1 .. 0 -> {}] : IsInjective(g)
  BY <1>1 DEF SetToSeq
<1>8. <<>> \in [1 .. 0 -> {}] /\ IsInjective(<<>>)
  BY <1>3 DEF IsInjective
<1>9. SetToSeq({}) \in [1 .. 0 -> {}]
  BY <1>7, <1>8
<1> QED BY <1>3, <1>6, <1>9

ProcessPart(q, hosts, P) == [r \in hosts + 1 .. hosts + Cardinality(P) |-> q[r]]

(* createProcessMetrics makes one metric of those of all processes.        *)
LEMMA CreatedIs ==
  ASSUME NEW q, NEW hosts, NEW P \in SUBSET Processes, NEW c, NEW d, NEW at, NEW f,
         f # "attribute", PreparedOf(q, hosts, P, c, d, at, f)
  PROVE  createProcessMetrics(ProcessPart(q, hosts, P))
           = [j \in IF P = {} THEN {} ELSE {1} |-> JoinedIo(P, d, at)]
<1> DEFINE n == Cardinality(P)
           ps == SetToSeq(P)
           R == ProcessPart(q, hosts, P)
<1>1. /\ n \in Nat /\ ps \in [1 .. n -> P]
      /\ \A p \in P : \E j \in 1 .. n : ps[j] = p
  BY ProcessOrder
<1>2. hosts \in {1, 2}
  BY DEF PreparedOf
<1>3. DOMAIN R = hosts + 1 .. hosts + n
  BY DEF ProcessPart
<1>4. ASSUME NEW j \in 1 .. n
      PROVE  /\ hosts + j \in DOMAIN R
             /\ R[hosts + j].attrs = ProcessResource(ps[j], d, at, f).attrs
             /\ R[hosts + j].metrics = <<IoOf(ps[j], d, at)>>
  <2>1. hosts + j \in hosts + 1 .. hosts + n
    BY <1>1, <1>2
  <2>2. R[hosts + j] = q[hosts + j]
    BY <2>1 DEF ProcessPart
  <2>3. q[hosts + j] = [attrs |-> ProcessResource(ps[j], d, at, f).attrs,
                        metrics |-> <<IoOf(ps[j], d, at)>>]
    BY DEF PreparedOf
  <2> QED BY <1>3, <2>1, <2>2, <2>3
<1>5. \A r \in DOMAIN R : \E j \in 1 .. n : r = hosts + j
  <2> SUFFICES ASSUME NEW r \in DOMAIN R PROVE r - hosts \in 1 .. n /\ r = hosts + (r - hosts)
    OBVIOUS
  <2> QED BY <1>1, <1>2, <1>3
<1> HIDE DEF R, n, ps
<1>6. \A r, k : <<r, k>> \in Places(R) <=> r \in DOMAIN R /\ k = 1
  <2>1. \A r \in DOMAIN R : DOMAIN R[r].metrics = {1}
    BY <1>4, <1>5
  <2> QED BY <2>1, PlacesAre
<1>7. ASSUME NEW pl \in Places(R)
      PROVE  \E j \in 1 .. n : pl = <<hosts + j, 1>> /\ At(R, pl) = IoOf(ps[j], d, at)
  <2>1. pl = <<pl[1], pl[2]>> /\ pl[1] \in DOMAIN R /\ At(R, pl) = R[pl[1]].metrics[pl[2]]
    BY PlaceParts
  <2>2. PICK j \in 1 .. n : pl[1] = hosts + j
    BY <1>5, <2>1
  <2>3. pl[2] = 1
    BY <1>6, <2>1
  <2> QED BY <1>4, <2>1, <2>2, <2>3
<1>8. ASSUME NEW j \in 1 .. n
      PROVE  <<hosts + j, 1>> \in Places(R) /\ At(R, <<hosts + j, 1>>) = IoOf(ps[j], d, at)
  BY <1>4, <1>6 DEF At
<1>9. \A p : /\ IoOf(p, d, at).name = "process.disk.io" /\ IoOf(p, d, at).kind = "Sum"
             /\ IoOf(p, d, at).monotonic = TRUE
  BY DEF IoOf, MetricOf
<1> DEFINE Named(name) == {p \in Places(R) : At(R, p).name = name}
           First(name) == CHOOSE p \in Named(name) : \A x \in Named(name) : p = x \/ Before(p, x)
           Metric(name) ==
             LET m == At(R, First(name))
             IN  MetricOf(name, m.kind, m.monotonic,
                   Together({appendNumberDataSlice(At(R, p), R[p[1]]) : p \in Named(name)}))
           names == SetToSeq({At(R, p).name : p \in Places(R)})
<1>10. createProcessMetrics(R) = [j \in DOMAIN names |-> Metric(names[j])]
  BY DEF createProcessMetrics
<1>11. CASE P = {}
  <2>1. 1 .. n = {}
    BY <1>1, <1>11
  <2>2. {At(R, p).name : p \in Places(R)} = {}
    BY <1>7, <2>1
  <2>3. DOMAIN names = {}
    BY <2>2, OrderOf
  <2> HIDE DEF names, Metric
  <2> QED BY <1>10, <1>11, <2>3 DEF R
<1>12. CASE P # {}
  <2> DEFINE io == "process.disk.io"
  <2>1. {At(R, p).name : p \in Places(R)} = {io} /\ Named(io) = Places(R)
    <3>1. \E j \in 1 .. n : TRUE
      BY <1>1, <1>12
    <3>2. \A p \in Places(R) : At(R, p).name = io
      BY <1>7, <1>9
    <3>3. Places(R) # {}
      BY <1>8, <3>1
    <3> QED BY <3>2, <3>3
  <2>2. First(io) \in Places(R)
    <3>1. 1 \in 1 .. n
      BY <1>1, <1>12
    <3>2. <<hosts + 1, 1>> \in Named(io)
      BY <1>8, <2>1, <3>1
    <3>3. ASSUME NEW x \in Named(io) PROVE <<hosts + 1, 1>> = x \/ Before(<<hosts + 1, 1>>, x)
      <4>1. PICK j \in 1 .. n : x = <<hosts + j, 1>>
        BY <1>7, <2>1, <3>3
      <4>2. j = 1 \/ hosts + 1 < hosts + j
        BY <1>1, <1>2
      <4> QED BY <4>1, <4>2 DEF Before
    <3> HIDE DEF Named
    <3>4. First(io) \in Named(io)
      BY <3>2, <3>3
    <3> QED BY <2>1, <3>4
  <2>3. At(R, First(io)).kind = "Sum" /\ At(R, First(io)).monotonic = TRUE
    <3> HIDE DEF First
    <3> QED BY <1>7, <1>9, <2>2
  <2>4. {appendNumberDataSlice(At(R, p), R[p[1]]) : p \in Named(io)} = {LabelledIo(p, d, at) : p \in P}
    <3>1. ASSUME NEW j \in 1 .. n
          PROVE  appendNumberDataSlice(IoOf(ps[j], d, at), R[hosts + j]) = LabelledIo(ps[j], d, at)
      <4>1. ps[j] \in Processes /\ R[hosts + j].attrs = ProcessResource(ps[j], d, at, f).attrs
        BY <1>1, <1>4
      <4> QED BY <4>1, LabelledIs
    <3>2. ASSUME NEW pl \in Places(R)
          PROVE  \E p \in P : appendNumberDataSlice(At(R, pl), R[pl[1]]) = LabelledIo(p, d, at)
      <4>1. PICK j \in 1 .. n : pl = <<hosts + j, 1>> /\ At(R, pl) = IoOf(ps[j], d, at)
        BY <1>7
      <4>2. pl[1] = hosts + j
        BY <4>1
      <4>3. ps[j] \in P
        BY <1>1
      <4> QED BY <3>1, <4>1, <4>2, <4>3
    <3>3. ASSUME NEW p \in P
          PROVE  \E pl \in Places(R) : appendNumberDataSlice(At(R, pl), R[pl[1]]) = LabelledIo(p, d, at)
      <4>1. PICK j \in 1 .. n : ps[j] = p
        BY <1>1
      <4> DEFINE pl == <<hosts + j, 1>>
      <4>2. pl \in Places(R) /\ At(R, pl) = IoOf(ps[j], d, at) /\ pl[1] = hosts + j
        BY <1>8
      <4> HIDE DEF pl
      <4> QED BY <3>1, <4>1, <4>2
    <3> HIDE DEF Named
    <3> QED BY <2>1, <3>2, <3>3
  <2>5. Metric(io) = MetricOf(io, "Sum", TRUE, JoinedIo(P, d, at).points)
    <3> DEFINE M == {appendNumberDataSlice(At(R, p), R[p[1]]) : p \in Named(io)}
    <3>1. Together(M) = JoinedIo(P, d, at).points
      <4>1. M = {LabelledIo(p, d, at) : p \in P}
        BY <2>4
      <4> HIDE DEF M
      <4> QED BY <4>1, TogetherIs
    <3>2. Metric(io) = MetricOf(io, At(R, First(io)).kind, At(R, First(io)).monotonic, Together(M))
      OBVIOUS
    <3> HIDE DEF M, First, Named, Metric
    <3> QED BY <2>3, <3>1, <3>2
  <2>6. Metric(io) = JoinedIo(P, d, at)
    <3> HIDE DEF Metric
    <3> QED BY <2>5 DEF JoinedIo, MetricOf
  <2>7. names = [j \in {1} |-> io]
    BY <2>1, OrderOf
  <2> HIDE DEF names, Metric
  <2>8. [j \in DOMAIN names |-> Metric(names[j])] = [j \in {1} |-> JoinedIo(P, d, at)]
    BY <2>6, <2>7
  <2> QED BY <1>10, <1>12, <2>8 DEF R
<1> QED BY <1>11, <1>12

Combined(q, hosts, P, d, at) ==
  [r \in 1 .. hosts |->
     IF r = 1
       THEN [attrs   |-> {},
             metrics |-> Appended(q[1].metrics,
                                  [j \in IF P = {} THEN {} ELSE {1} |-> JoinedIo(P, d, at)])]
       ELSE q[r]]

(* Which resources are those of processes.                                 *)
LEMMA ProcessesAre ==
  ASSUME NEW q, NEW hosts, NEW P \in SUBSET Processes, NEW c, NEW d, NEW at, NEW f,
         PreparedOf(q, hosts, P, c, d, at, f)
  PROVE  /\ {r \in DOMAIN q : includesProcessAttributes(q[r])} = hosts + 1 .. hosts + Cardinality(P)
         /\ DOMAIN q \ (hosts + 1 .. hosts + Cardinality(P)) = 1 .. hosts
         /\ \A r \in 1 .. hosts : q[r].attrs = {}
         /\ \A r \in hosts + 1 .. hosts + Cardinality(P) : \E p \in P :
              q[r].attrs = ProcessResource(p, d, at, f).attrs
<1> DEFINE n == Cardinality(P)
<1>1. n \in Nat /\ SetToSeq(P) \in [1 .. n -> P]
  BY ProcessOrder
<1>2. hosts \in {1, 2} /\ DOMAIN q = 1 .. hosts + n
  BY DEF PreparedOf
<1>3. ASSUME NEW r \in 1 .. hosts PROVE q[r].attrs = {} /\ ~ includesProcessAttributes(q[r])
  <2>1. r = 1 \/ (r = 2 /\ hosts = 2)
    BY <1>2
  <2>2. q[r].attrs = {}
    BY <2>1 DEF PreparedOf
  <2> QED BY <2>2 DEF includesProcessAttributes
<1>4. ASSUME NEW r \in hosts + 1 .. hosts + n
      PROVE  /\ \E p \in P : q[r].attrs = ProcessResource(p, d, at, f).attrs
             /\ includesProcessAttributes(q[r])
  <2>1. r - hosts \in 1 .. n /\ r = hosts + (r - hosts)
    BY <1>1, <1>2
  <2>2. PICK j \in 1 .. n : r = hosts + j
    BY <2>1
  <2>3. q[r].attrs = ProcessResource(SetToSeq(P)[j], d, at, f).attrs
    <3>1. q[hosts + j] = [attrs   |-> ProcessResource(SetToSeq(P)[j], d, at, f).attrs,
                          metrics |-> <<IoOf(SetToSeq(P)[j], d, at)>>]
      BY DEF PreparedOf
    <3> QED BY <2>2, <3>1
  <2>4. <<"process.pid", SetToSeq(P)[j]>> \in q[r].attrs
    BY <2>3 DEF ProcessResource
  <2>5. includesProcessAttributes(q[r])
    BY <2>4 DEF includesProcessAttributes, ProcessAttributes
  <2>6. SetToSeq(P)[j] \in P
    BY <1>1
  <2> QED BY <2>3, <2>5, <2>6
<1> HIDE DEF n
<1>5. DOMAIN q = (1 .. hosts) \cup (hosts + 1 .. hosts + n) /\ (1 .. hosts) \cap (hosts + 1 .. hosts + n) = {}
  BY <1>1, <1>2
<1>6. {r \in DOMAIN q : includesProcessAttributes(q[r])} = hosts + 1 .. hosts + n
  BY <1>3, <1>4, <1>5
<1> QED BY <1>3, <1>4, <1>5, <1>6 DEF n

LEMMA UnexpectedLabel ==
  ASSUME NEW p \in Processes, NEW d, NEW at, NEW f
  PROVE  (\E a \in ProcessResource(p, d, at, f).attrs :
            toCloudMonitoringLabel(a[1]) # "" /\ a[2] = UnexpectedType)
         <=> f = "attribute"
<1> DEFINE line == IF f = "attribute" THEN UnexpectedType ELSE IF p = "p1" THEN "long1" ELSE "long2"
           a1 == <<"process.pid", p>>
           a2 == <<"process.executable.path", "/bin/x">>
           a3 == <<"process.command_line", line>>
<1>1. ProcessResource(p, d, at, f).attrs = {a1, a2, a3}
  BY DEF ProcessResource
<1>2. /\ toCloudMonitoringLabel("process.command_line") = "command_line"
      /\ toCloudMonitoringLabel("process.executable.path") = ""
  BY DEF toCloudMonitoringLabel
<1>3. p # UnexpectedType
  BY HostAssumption
<1>4. line = UnexpectedType <=> f = "attribute"
  BY DEF UnexpectedType
<1>5. /\ a1[1] = "process.pid" /\ a1[2] = p
      /\ a2[1] = "process.executable.path"
      /\ a3[1] = "process.command_line" /\ a3[2] = line
  OBVIOUS
<1> HIDE DEF a1, a2, a3, line
<1> QED BY <1>1, <1>2, <1>3, <1>4, <1>5

LEMMA CombinePass ==
  ASSUME NEW q, NEW hosts, NEW P \in SUBSET Processes, NEW c, NEW d, NEW at, NEW f,
         PreparedOf(q, hosts, P, c, d, at, f), f = "attribute" => P # {}
  PROVE  combineProcessMetrics(q)
           = IF f = "attribute" THEN [rms |-> q, outcome |-> "error"]
             ELSE [rms |-> Combined(q, hosts, P, d, at), outcome |-> "ok"]
<1> DEFINE n == Cardinality(P)
           D == {r \in DOMAIN q : includesProcessAttributes(q[r])}
           processes == [r \in D |-> q[r]]
           others == DOMAIN q \ DOMAIN processes
           first == CHOOSE r \in others : \A x \in others : r <= x
           bad == \E r \in DOMAIN processes : \E a \in processes[r].attrs :
                    toCloudMonitoringLabel(a[1]) # "" /\ a[2] = UnexpectedType
<1>1. n \in Nat /\ (P # {} => n > 0)
  <2>1. n \in Nat /\ \A p \in P : \E j \in 1 .. n : SetToSeq(P)[j] = p
    BY ProcessOrder
  <2> QED BY <2>1
<1>2. hosts \in {1, 2}
  BY DEF PreparedOf
<1>3. D = hosts + 1 .. hosts + n
  BY ProcessesAre
<1>4. others = 1 .. hosts
  BY <1>3, ProcessesAre
<1>5. bad <=> f = "attribute"
  <2>1. ASSUME NEW r \in D
        PROVE  (\E a \in processes[r].attrs :
                  toCloudMonitoringLabel(a[1]) # "" /\ a[2] = UnexpectedType) <=> f = "attribute"
    <3>1. PICK p \in P : q[r].attrs = ProcessResource(p, d, at, f).attrs
      BY <1>3, <2>1, ProcessesAre
    <3>2. processes[r].attrs = ProcessResource(p, d, at, f).attrs /\ p \in Processes
      BY <3>1
    <3> QED BY <3>2, UnexpectedLabel
  <2>2. f = "attribute" => hosts + 1 \in D
    BY <1>1, <1>2, <1>3
  <2>3. DOMAIN processes = D
    OBVIOUS
  <2> HIDE DEF D, processes
  <2> QED BY <2>1, <2>2, <2>3
<1>6. processes = ProcessPart(q, hosts, P)
  BY <1>3 DEF ProcessPart
<1>7. combineProcessMetrics(q)
        = IF bad THEN [rms |-> q, outcome |-> "error"]
          ELSE IF others = {} THEN [rms |-> q, outcome |-> "panic"]
          ELSE [rms |-> [r \in others |->
                           IF r = first
                             THEN [attrs   |-> q[r].attrs,
                                   metrics |-> Appended(q[r].metrics, createProcessMetrics(processes))]
                             ELSE q[r]],
                outcome |-> "ok"]
  BY DEF combineProcessMetrics
<1> HIDE DEF bad, D, n
<1>8. CASE f = "attribute"
  <2> HIDE DEF others, first, processes
  <2> QED BY <1>5, <1>7, <1>8
<1>9. CASE f # "attribute"
  <2> DEFINE new == createProcessMetrics(processes)
  <2>1. new = [j \in IF P = {} THEN {} ELSE {1} |-> JoinedIo(P, d, at)]
    <3> HIDE DEF processes
    <3> QED BY <1>6, <1>9, CreatedIs
  <2> HIDE DEF new, processes, others
  <2>2. first = 1 /\ others # {}
    <3>1. 1 \in others /\ \A x \in others : 1 <= x
      BY <1>2, <1>4
    <3>2. \A y \in others : (\A x \in others : y <= x) => y = 1
      BY <1>2, <1>4
    <3> QED BY <3>1, <3>2
  <2> HIDE DEF first
  <2>3. q[1].attrs = {}
    BY DEF PreparedOf
  <2> DEFINE S == [r \in others |->
                     IF r = first THEN [attrs |-> q[r].attrs, metrics |-> Appended(q[r].metrics, new)]
                                  ELSE q[r]]
  <2>4. S = Combined(q, hosts, P, d, at)
    BY <1>4, <2>1, <2>2, <2>3 DEF Combined
  <2>5. combineProcessMetrics(q)
        = IF bad THEN [rms |-> q, outcome |-> "error"]
          ELSE IF others = {} THEN [rms |-> q, outcome |-> "panic"]
          ELSE [rms |-> S, outcome |-> "ok"]
    BY <1>7 DEF new
  <2> HIDE DEF S
  <2> QED BY <1>5, <1>9, <2>2, <2>4, <2>5
<1> QED BY <1>8, <1>9

(* The places of the metrics before processes are combined.                *)
PlacedOf(q, hosts, P, c, d, at, f) ==
  /\ WellPlaced(q)
  /\ <<1, 1>> \in Places(q) /\ At(q, <<1, 1>>) = CPUTimes(c, at)
  /\ <<1, 2>> \in Places(q) /\ At(q, <<1, 2>>) = MemoryGauge(at, f)
  /\ hosts = 2 => /\ <<2, 1>> \in Places(q) /\ At(q, <<2, 1>>) = DiskIo(d, at, f)
                  /\ <<2, 2>> \in Places(q) /\ At(q, <<2, 2>>) = DiskOperations(d, at)
                  /\ <<2, 3>> \in Places(q) /\ At(q, <<2, 3>>) = DiskTime(d, at)
  /\ \A pl \in Places(q) :
       \/ pl \in {<<1, 1>>, <<1, 2>>}
       \/ hosts = 2 /\ pl \in {<<2, 1>>, <<2, 2>>, <<2, 3>>}
       \/ pl[1] > hosts /\ \E p \in P : At(q, pl) = IoOf(p, d, at)

LEMMA PreparedPlaces ==
  ASSUME NEW q, NEW hosts, NEW P \in SUBSET Processes, NEW c, NEW d, NEW at, NEW f,
         PreparedOf(q, hosts, P, c, d, at, f)
  PROVE  PlacedOf(q, hosts, P, c, d, at, f)
<1> DEFINE n == Cardinality(P)
<1>1. n \in Nat /\ SetToSeq(P) \in [1 .. n -> P]
  BY ProcessOrder
<1>2. hosts \in {1, 2} /\ DOMAIN q = 1 .. hosts + n
  BY DEF PreparedOf
<1>3. 1 \in DOMAIN q /\ q[1].metrics = <<CPUTimes(c, at), MemoryGauge(at, f)>>
  BY <1>1, <1>2 DEF PreparedOf
<1>4. ASSUME hosts = 2
      PROVE  2 \in DOMAIN q /\ q[2].metrics = <<DiskIo(d, at, f), DiskOperations(d, at), DiskTime(d, at)>>
  BY <1>1, <1>2, <1>4 DEF PreparedOf
<1>5. ASSUME NEW j \in 1 .. n
      PROVE  q[hosts + j].metrics = <<IoOf(SetToSeq(P)[j], d, at)>>
  <2>1. q[hosts + j] = [attrs   |-> ProcessResource(SetToSeq(P)[j], d, at, f).attrs,
                        metrics |-> <<IoOf(SetToSeq(P)[j], d, at)>>]
    BY DEF PreparedOf
  <2> QED BY <2>1
<1> HIDE DEF n
<1>6. ASSUME NEW r \in DOMAIN q
      PROVE  \/ r = 1
             \/ r = 2 /\ hosts = 2
             \/ r > hosts /\ \E p \in P : q[r].metrics = <<IoOf(p, d, at)>>
  <2>1. r \in Nat /\ (r <= hosts \/ r > hosts) /\ (r > hosts => r - hosts \in 1 .. n /\ r = hosts + (r - hosts))
    BY <1>1, <1>2
  <2>2. CASE r <= hosts
    BY <1>2, <2>1, <2>2
  <2>3. CASE r > hosts
    <3>1. PICK j \in 1 .. n : r = hosts + j
      BY <2>1, <2>3
    <3>2. SetToSeq(P)[j] \in P
      BY <1>1
    <3> QED BY <1>5, <2>3, <3>1, <3>2
  <2> QED BY <2>1, <2>2, <2>3
<1>7. DOMAIN q[1].metrics = {1, 2} /\ (hosts = 2 => DOMAIN q[2].metrics = {1, 2, 3})
  <2>1. DOMAIN q[1].metrics = 1 .. 2 /\ (hosts = 2 => DOMAIN q[2].metrics = 1 .. 3)
    BY <1>3, <1>4
  <2> QED BY <2>1
<1>8. WellPlaced(q)
  <2>1. Positions(q)
    BY <1>1, <1>2, FS_Interval DEF Positions
  <2>2. ASSUME NEW r \in DOMAIN q PROVE Positions(q[r].metrics)
    <3>1. \/ DOMAIN q[r].metrics = 1 .. 1
          \/ DOMAIN q[r].metrics = 1 .. 2
          \/ DOMAIN q[r].metrics = 1 .. 3
      BY <1>6, <1>7
    <3>2. \A k \in Nat : 1 .. k \subseteq Nat \ {0} /\ IsFiniteSet(1 .. k)
      BY FS_Interval
    <3> QED BY <3>1, <3>2 DEF Positions
  <2> QED BY <2>1, <2>2 DEF WellPlaced
<1>9. ASSUME NEW pl \in Places(q)
      PROVE  \/ pl \in {<<1, 1>>, <<1, 2>>}
             \/ hosts = 2 /\ pl \in {<<2, 1>>, <<2, 2>>, <<2, 3>>}
             \/ pl[1] > hosts /\ \E p \in P : At(q, pl) = IoOf(p, d, at)
  <2>1. /\ pl = <<pl[1], pl[2]>> /\ pl[1] \in DOMAIN q /\ pl[2] \in DOMAIN q[pl[1]].metrics
        /\ At(q, pl) = q[pl[1]].metrics[pl[2]]
    BY PlaceParts
  <2>2. CASE pl[1] = 1
    BY <1>7, <2>1, <2>2
  <2>3. CASE pl[1] = 2 /\ hosts = 2
    BY <1>7, <2>1, <2>3
  <2>4. CASE pl[1] > hosts /\ \E p \in P : q[pl[1]].metrics = <<IoOf(p, d, at)>>
    BY <2>1, <2>4
  <2> QED BY <1>6, <2>1, <2>2, <2>3, <2>4
<1>10. <<1, 1>> \in Places(q) /\ <<1, 2>> \in Places(q)
  BY <1>3, <1>7, PlacesAre
<1>11. hosts = 2 => <<2, 1>> \in Places(q) /\ <<2, 2>> \in Places(q) /\ <<2, 3>> \in Places(q)
  BY <1>4, <1>7, PlacesAre
<1>12. At(q, <<1, 1>>) = CPUTimes(c, at) /\ At(q, <<1, 2>>) = MemoryGauge(at, f)
  BY <1>3 DEF At
<1>13. hosts = 2 => /\ At(q, <<2, 1>>) = DiskIo(d, at, f) /\ At(q, <<2, 2>>) = DiskOperations(d, at)
                    /\ At(q, <<2, 3>>) = DiskTime(d, at)
  BY <1>4 DEF At
<1> QED BY <1>8, <1>9, <1>10, <1>11, <1>12, <1>13 DEF PlacedOf

(* The names of the metrics of a host, and of those the passes watch.      *)
LEMMA NamesAre ==
  ASSUME NEW c, NEW d, NEW at, NEW f
  PROVE  /\ CPUTimes(c, at).name = "system.cpu.time"
         /\ MemoryGauge(at, f).name = "system.memory.usage"
         /\ DiskIo(d, at, f).name = "system.disk.io"
         /\ DiskOperations(d, at).name = "system.disk.operations"
         /\ DiskTime(d, at).name = "system.disk.operation_time"
         /\ \A p : IoOf(p, d, at).name = "process.disk.io"
         /\ \A P : JoinedIo(P, d, at).name = "process.disk.io"
BY DEF CPUTimes, MemoryGauge, DiskIo, DiskOperations, DiskTime, IoOf, JoinedIo, MetricOf

WatchedNames == {"system.cpu.time", "system.memory.usage", "system.disk.operations",
                 "system.disk.operation_time"}

Watched(q, hosts, c, d, at, f) ==
  /\ WellPlaced(q)
  /\ Only(q, <<1, 1>>, CPUTimes(c, at))
  /\ Only(q, <<1, 2>>, MemoryGauge(at, f))
  /\ hosts = 2 => /\ Only(q, <<2, 2>>, DiskOperations(d, at))
                  /\ Only(q, <<2, 3>>, DiskTime(d, at))
  /\ hosts # 2 => Absent(q, "system.disk.operations") /\ Absent(q, "system.disk.operation_time")

LEMMA PreparedWatched ==
  ASSUME NEW q, NEW hosts, NEW P \in SUBSET Processes, NEW c, NEW d, NEW at, NEW f,
         PreparedOf(q, hosts, P, c, d, at, f)
  PROVE  Watched(q, hosts, c, d, at, f)
<1>1. /\ WellPlaced(q)
      /\ <<1, 1>> \in Places(q) /\ At(q, <<1, 1>>) = CPUTimes(c, at)
      /\ <<1, 2>> \in Places(q) /\ At(q, <<1, 2>>) = MemoryGauge(at, f)
      /\ hosts = 2 => /\ <<2, 1>> \in Places(q) /\ At(q, <<2, 1>>) = DiskIo(d, at, f)
                      /\ <<2, 2>> \in Places(q) /\ At(q, <<2, 2>>) = DiskOperations(d, at)
                      /\ <<2, 3>> \in Places(q) /\ At(q, <<2, 3>>) = DiskTime(d, at)
      /\ \A pl \in Places(q) :
           \/ pl \in {<<1, 1>>, <<1, 2>>}
           \/ hosts = 2 /\ pl \in {<<2, 1>>, <<2, 2>>, <<2, 3>>}
           \/ pl[1] > hosts /\ \E p \in P : At(q, pl) = IoOf(p, d, at)
  <2>1. PlacedOf(q, hosts, P, c, d, at, f)
    BY PreparedPlaces
  <2> QED BY <2>1 DEF PlacedOf
<1>0. /\ CPUTimes(c, at).name = "system.cpu.time"
      /\ MemoryGauge(at, f).name = "system.memory.usage"
      /\ DiskIo(d, at, f).name = "system.disk.io"
      /\ DiskOperations(d, at).name = "system.disk.operations"
      /\ DiskTime(d, at).name = "system.disk.operation_time"
      /\ \A p : IoOf(p, d, at).name = "process.disk.io"
  BY NamesAre, Zenon
<1> DEFINE name(pl) == At(q, pl).name
<1>2. /\ name(<<1, 1>>) = "system.cpu.time" /\ name(<<1, 2>>) = "system.memory.usage"
      /\ hosts = 2 => /\ name(<<2, 1>>) = "system.disk.io" /\ name(<<2, 2>>) = "system.disk.operations"
                      /\ name(<<2, 3>>) = "system.disk.operation_time"
  BY <1>0, <1>1
<1>3. ASSUME NEW pl \in Places(q)
      PROVE  \/ pl \in {<<1, 1>>, <<1, 2>>}
             \/ hosts = 2 /\ pl \in {<<2, 1>>, <<2, 2>>, <<2, 3>>}
             \/ name(pl) = "process.disk.io"
  BY <1>0, <1>1
<1> HIDE DEF name
<1>4. ASSUME NEW pl \in Places(q)
      PROVE  /\ name(pl) = "system.cpu.time" => pl = <<1, 1>>
             /\ name(pl) = "system.memory.usage" => pl = <<1, 2>>
             /\ name(pl) = "system.disk.operations" => hosts = 2 /\ pl = <<2, 2>>
             /\ name(pl) = "system.disk.operation_time" => hosts = 2 /\ pl = <<2, 3>>
  BY <1>2, <1>3
<1> QED BY <1>0, <1>1, <1>4 DEF Watched, Only, Absent, name

LEMMA PassSpares ==
  ASSUME NEW R, NEW S, NEW old, NEW added, WellPlaced(R), PassOf(R, S, old, added), NEW names,
         \A p \in Places(R) : /\ At(R, p).name \in names => old[p[1]][p[2]] = At(R, p)
                              /\ old[p[1]][p[2]].name \in names => At(R, p).name \in names,
         \A r \in DOMAIN R : \A j \in DOMAIN added[r] : added[r][j].name \notin names
  PROVE  WellPlaced(S) /\ Spares(R, S, names)
<1>1. WellPlaced(S) /\ \A p \in Places(R) : p \in Places(S) /\ At(S, p) = old[p[1]][p[2]]
  BY PassKeeps
<1>2. ASSUME NEW x \in Places(S), At(S, x).name \in names PROVE x \in Places(R)
  <2> SUFFICES ASSUME x \notin Places(R) PROVE FALSE
    OBVIOUS
  <2>1. /\ x[1] \in DOMAIN R
        /\ \E j \in DOMAIN added[x[1]] : At(S, x) = added[x[1]][j]
    <3>1. \A y \in Places(S) \ Places(R) :
            /\ y[1] \in DOMAIN R
            /\ \E j \in DOMAIN added[y[1]] :
                 y = <<y[1], End(old[y[1]]) + j>> /\ At(S, y) = added[y[1]][j]
      BY PassAdds
    <3>2. x \in Places(S) \ Places(R)
      OBVIOUS
    <3> QED BY <3>1, <3>2
  <2> QED BY <1>2, <2>1
<1> QED BY <1>1, <1>2 DEF Spares

LEMMA WatchedSpared ==
  ASSUME NEW q, NEW S, NEW hosts, NEW c, NEW d, NEW at, NEW f,
         Watched(q, hosts, c, d, at, f), WellPlaced(S), Spares(q, S, WatchedNames)
  PROVE  Watched(S, hosts, c, d, at, f)
<1>0. /\ CPUTimes(c, at).name = "system.cpu.time"
      /\ MemoryGauge(at, f).name = "system.memory.usage"
      /\ DiskOperations(d, at).name = "system.disk.operations"
      /\ DiskTime(d, at).name = "system.disk.operation_time"
  BY NamesAre, Zenon
<1>1. {"system.cpu.time", "system.memory.usage", "system.disk.operations",
       "system.disk.operation_time"} \subseteq WatchedNames
  BY DEF WatchedNames
<1>2. Only(S, <<1, 1>>, CPUTimes(c, at)) /\ Only(S, <<1, 2>>, MemoryGauge(at, f))
  <2>1. Only(q, <<1, 1>>, CPUTimes(c, at)) /\ Only(q, <<1, 2>>, MemoryGauge(at, f))
    BY DEF Watched
  <2> QED BY <1>0, <1>1, <2>1, OnlySpared
<1>3. ASSUME hosts = 2
      PROVE  Only(S, <<2, 2>>, DiskOperations(d, at)) /\ Only(S, <<2, 3>>, DiskTime(d, at))
  <2>1. Only(q, <<2, 2>>, DiskOperations(d, at)) /\ Only(q, <<2, 3>>, DiskTime(d, at))
    BY <1>3 DEF Watched
  <2> QED BY <1>0, <1>1, <2>1, OnlySpared
<1>4. ASSUME hosts # 2
      PROVE  Absent(S, "system.disk.operations") /\ Absent(S, "system.disk.operation_time")
  <2>1. Absent(q, "system.disk.operations") /\ Absent(q, "system.disk.operation_time")
    BY <1>4 DEF Watched
  <2> QED BY <1>1, <2>1, AbsentSpared
<1> QED BY <1>2, <1>3, <1>4 DEF Watched

HostPart(q, hosts) == [r \in 1 .. hosts |-> q[r]]
HostOld(q, hosts) == [r \in 1 .. hosts |-> q[r].metrics]
HostAdded(hosts, P, d, at) ==
  [r \in 1 .. hosts |-> [j \in IF r = 1 /\ P # {} THEN {1} ELSE {} |-> JoinedIo(P, d, at)]]

LEMMA CombinedPass ==
  ASSUME NEW q, NEW hosts, NEW P \in SUBSET Processes, NEW c, NEW d, NEW at, NEW f,
         PreparedOf(q, hosts, P, c, d, at, f)
  PROVE  /\ WellPlaced(HostPart(q, hosts))
         /\ PassOf(HostPart(q, hosts), Combined(q, hosts, P, d, at), HostOld(q, hosts),
                   HostAdded(hosts, P, d, at))
<1> DEFINE n == Cardinality(P)
           R == HostPart(q, hosts)
           S == Combined(q, hosts, P, d, at)
           old == HostOld(q, hosts)
           added == HostAdded(hosts, P, d, at)
<1>1. hosts \in {1, 2} /\ n \in Nat /\ DOMAIN q = 1 .. hosts + n
  BY ProcessOrder DEF PreparedOf
<1>2. WellPlaced(q)
  <2>1. PlacedOf(q, hosts, P, c, d, at, f)
    BY PreparedPlaces
  <2> QED BY <2>1 DEF PlacedOf
<1> HIDE DEF n
<1>3. DOMAIN R = 1 .. hosts /\ \A r \in 1 .. hosts : R[r] = q[r] /\ r \in DOMAIN q
  BY <1>1 DEF HostPart
<1>4. WellPlaced(R)
  <2>1. 1 .. hosts \subseteq Nat \ {0} /\ IsFiniteSet(1 .. hosts)
    BY <1>1, FS_Interval
  <2> QED BY <1>2, <1>3, <2>1 DEF WellPlaced, Positions
<1>5. DOMAIN S = 1 .. hosts
  BY DEF Combined
<1>6. ASSUME NEW r \in 1 .. hosts
      PROVE  /\ DOMAIN old[r] = DOMAIN R[r].metrics
             /\ Positions(added[r])
             /\ S[r] = [attrs |-> R[r].attrs, metrics |-> Appended(old[r], added[r])]
  <2>1. old[r] = q[r].metrics /\ R[r] = q[r]
    BY <1>3 DEF HostOld
  <2>2. added[r] = [j \in IF r = 1 /\ P # {} THEN {1} ELSE {} |-> JoinedIo(P, d, at)]
    BY DEF HostAdded
  <2>3. Positions(added[r])
    <3>1. DOMAIN added[r] \in {{}, {1}}
      BY <2>2
    <3>2. IsFiniteSet({}) /\ IsFiniteSet({1})
      BY FS_EmptySet, FS_Singleton
    <3> QED BY <3>1, <3>2 DEF Positions
  <2>4. CASE r = 1
    <3>1. S[1] = [attrs |-> {},
                  metrics |-> Appended(q[1].metrics,
                                       [j \in IF P = {} THEN {} ELSE {1} |-> JoinedIo(P, d, at)])]
      BY <2>4 DEF Combined
    <3>2. added[1] = [j \in IF P = {} THEN {} ELSE {1} |-> JoinedIo(P, d, at)]
      BY <2>2, <2>4
    <3>3. q[1].attrs = {}
      BY DEF PreparedOf
    <3> QED BY <2>1, <2>3, <2>4, <3>1, <3>2, <3>3
  <2>5. CASE r # 1
    <3>1. r = 2 /\ hosts = 2
      BY <1>1, <2>5
    <3>2. /\ q[2] = [attrs |-> q[2].attrs, metrics |-> q[2].metrics]
          /\ q[2].metrics = [k \in DOMAIN q[2].metrics |-> q[2].metrics[k]]
      BY <3>1 DEF PreparedOf
    <3>3. Positions(q[2].metrics) /\ DOMAIN added[2] = {}
      BY <1>2, <1>3, <2>2, <2>5, <3>1 DEF WellPlaced
    <3>4. Appended(q[2].metrics, added[2]) = q[2].metrics
      BY <3>2, <3>3, NothingAppended
    <3>5. S[2] = q[2]
      BY <3>1 DEF Combined
    <3> QED BY <2>1, <2>3, <3>1, <3>2, <3>4, <3>5
  <2> QED BY <2>4, <2>5
<1> HIDE DEF R, S, old, added
<1>7. PassOf(R, S, old, added)
  BY <1>3, <1>5, <1>6 DEF PassOf
<1> QED BY <1>4, <1>7 DEF R, S, old, added

LEMMA CombinedWatched ==
  ASSUME NEW q, NEW hosts, NEW P \in SUBSET Processes, NEW c, NEW d, NEW at, NEW f,
         PreparedOf(q, hosts, P, c, d, at, f)
  PROVE  Watched(Combined(q, hosts, P, d, at), hosts, c, d, at, f)
<1> DEFINE R == HostPart(q, hosts)
           S == Combined(q, hosts, P, d, at)
           old == HostOld(q, hosts)
           added == HostAdded(hosts, P, d, at)
<1>1. WellPlaced(R) /\ PassOf(R, S, old, added)
  BY CombinedPass
<1>2. Watched(q, hosts, c, d, at, f)
  BY PreparedWatched
<1>3. /\ \A p \in Places(R) : p \in Places(q) /\ old[p[1]][p[2]] = At(R, p) /\ At(R, p) = At(q, p)
      /\ \A r \in DOMAIN R : \A j \in DOMAIN added[r] : added[r][j].name \notin WatchedNames
  <2>1. hosts \in {1, 2} /\ Cardinality(P) \in Nat /\ DOMAIN q = 1 .. hosts + Cardinality(P)
    BY ProcessOrder DEF PreparedOf
  <2>2. DOMAIN R = 1 .. hosts /\ \A r \in DOMAIN R : R[r] = q[r] /\ r \in DOMAIN q
    BY <2>1 DEF HostPart
  <2>3. \A r \in DOMAIN R : old[r] = q[r].metrics
    BY <2>2 DEF HostOld
  <2>4. ASSUME NEW p \in Places(R)
        PROVE  p \in Places(q) /\ old[p[1]][p[2]] = At(R, p) /\ At(R, p) = At(q, p)
    <3>1. /\ p = <<p[1], p[2]>> /\ p[1] \in DOMAIN R /\ p[2] \in DOMAIN R[p[1]].metrics
          /\ At(R, p) = R[p[1]].metrics[p[2]]
      BY PlaceParts
    <3>2. <<p[1], p[2]>> \in Places(q)
      BY <2>2, <3>1, PlacesAre
    <3> QED BY <2>2, <2>3, <3>1, <3>2 DEF At
  <2>5. ASSUME NEW r \in DOMAIN R, NEW j \in DOMAIN added[r]
        PROVE  added[r][j].name \notin WatchedNames
    <3>1. added[r][j] = JoinedIo(P, d, at)
      BY <2>2, <2>5 DEF HostAdded
    <3>2. JoinedIo(P, d, at).name = "process.disk.io"
      BY DEF JoinedIo, MetricOf
    <3> QED BY <3>1, <3>2 DEF WatchedNames
  <2> QED BY <2>4, <2>5
<1>4. \A p \in Places(q) : At(q, p).name \in WatchedNames => p \in Places(R)
  <2>1. hosts \in {1, 2} /\ Cardinality(P) \in Nat /\ DOMAIN q = 1 .. hosts + Cardinality(P)
    BY ProcessOrder DEF PreparedOf
  <2>2. DOMAIN R = 1 .. hosts /\ \A r \in DOMAIN R : R[r] = q[r]
    BY <2>1 DEF HostPart
  <2>3. PlacedOf(q, hosts, P, c, d, at, f)
    BY PreparedPlaces
  <2>4. ASSUME NEW p \in Places(q), At(q, p).name \in WatchedNames PROVE p \in Places(R)
    <3>1. p = <<p[1], p[2]>> /\ p[1] \in DOMAIN q /\ p[2] \in DOMAIN q[p[1]].metrics
      BY PlaceParts
    <3>2. CASE p[1] \in 1 .. hosts
      <4>1. <<p[1], p[2]>> \in Places(R)
        BY <2>2, <3>1, <3>2, PlacesAre
      <4> QED BY <3>1, <4>1
    <3>3. CASE p[1] > hosts
      <4>1. PICK x \in P : At(q, p) = IoOf(x, d, at)
        <5>1. p \notin {<<1, 1>>, <<1, 2>>} /\ ~ (hosts = 2 /\ p \in {<<2, 1>>, <<2, 2>>, <<2, 3>>})
          BY <2>1, <3>3
        <5> QED BY <2>3, <5>1 DEF PlacedOf
      <4>2. At(q, p).name = "process.disk.io"
        BY <4>1 DEF IoOf, MetricOf
      <4> QED BY <2>4, <4>2 DEF WatchedNames
    <3> QED BY <2>1, <3>1, <3>2, <3>3
  <2> QED BY <2>4
<1>5. WellPlaced(S) /\ Spares(R, S, WatchedNames)
  <2> HIDE DEF R, S, old, added
  <2> QED BY <1>1, <1>3, PassSpares
<1>6. Spares(q, R, WatchedNames)
  <2> HIDE DEF R, S, old, added
  <2> QED BY <1>3, <1>4 DEF Spares
<1> HIDE DEF R, S, old, added
<1>7. Spares(q, S, WatchedNames)
  BY <1>5, <1>6, SparesTwice
<1>8. Watched(S, hosts, c, d, at, f)
  BY <1>2, <1>5, <1>7, WatchedSpared
<1> QED BY <1>8 DEF S

-----------------------------------------------------------------------------
(***************************************************************************)
(* splitReadWriteBytesMetrics.                                             *)
(***************************************************************************)
ReadPart(m) == IF m.name \in metricsToSplit THEN splitReadWriteBytesMetric(m, "read") ELSE m

ReadParts(R) ==
  [r \in DOMAIN R |-> [k \in DOMAIN R[r].metrics |-> ReadPart(R[r].metrics[k])]]

WriteParts(R) ==
  [r \in DOMAIN R |->
     [k \in {k \in DOMAIN R[r].metrics : R[r].metrics[k].name \in metricsToSplit} |->
        splitReadWriteBytesMetric(R[r].metrics[k], "write")]]

Undirected(R) ==
  \E p \in Places(R) : /\ At(R, p).name \in metricsToSplit
                       /\ \E i \in DOMAIN At(R, p).points : ~ Has(At(R, p).points[i].attrs, "direction")

LEMMA SplitPass ==
  ASSUME NEW R, WellPlaced(R)
  PROVE  IF Undirected(R)
           THEN /\ splitReadWriteBytesMetrics(R).rms = R
                /\ splitReadWriteBytesMetrics(R).outcome = "error"
           ELSE /\ PassOf(R, splitReadWriteBytesMetrics(R).rms, ReadParts(R), WriteParts(R))
                /\ splitReadWriteBytesMetrics(R).outcome = "ok"
<1> DEFINE S == [r \in DOMAIN R |->
                   [attrs   |-> R[r].attrs,
                    metrics |-> Appended([k \in DOMAIN R[r].metrics |-> ReadPart(R[r].metrics[k])],
                                         [k \in {k \in DOMAIN R[r].metrics :
                                                   R[r].metrics[k].name \in metricsToSplit} |->
                                            splitReadWriteBytesMetric(R[r].metrics[k], "write")])]]
<1>1. splitReadWriteBytesMetrics(R)
        = IF Undirected(R) THEN [rms |-> R, outcome |-> "error"] ELSE [rms |-> S, outcome |-> "ok"]
  BY DEF splitReadWriteBytesMetrics, Undirected, ReadPart
<1>2. ASSUME NEW r \in DOMAIN R
      PROVE  /\ DOMAIN ReadParts(R)[r] = DOMAIN R[r].metrics
             /\ Positions(WriteParts(R)[r])
             /\ S[r] = [attrs |-> R[r].attrs, metrics |-> Appended(ReadParts(R)[r], WriteParts(R)[r])]
  <2>1. ReadParts(R)[r] = [k \in DOMAIN R[r].metrics |-> ReadPart(R[r].metrics[k])]
    BY DEF ReadParts
  <2> DEFINE D == {k \in DOMAIN R[r].metrics : R[r].metrics[k].name \in metricsToSplit}
  <2>2. WriteParts(R)[r] = [k \in D |-> splitReadWriteBytesMetric(R[r].metrics[k], "write")]
    BY DEF WriteParts
  <2>3. S[r] = [attrs   |-> R[r].attrs,
                metrics |-> Appended([k \in DOMAIN R[r].metrics |-> ReadPart(R[r].metrics[k])],
                                     [k \in D |-> splitReadWriteBytesMetric(R[r].metrics[k], "write")])]
    OBVIOUS
  <2>4. D \subseteq Nat \ {0} /\ IsFiniteSet(D)
    <3>1. DOMAIN R[r].metrics \subseteq Nat \ {0} /\ IsFiniteSet(DOMAIN R[r].metrics)
      BY DEF WellPlaced, Positions
    <3> QED BY <3>1, FS_Subset
  <2> HIDE DEF D, S
  <2>5. DOMAIN WriteParts(R)[r] = D
    BY <2>2
  <2> QED BY <2>1, <2>2, <2>3, <2>4, <2>5 DEF Positions
<1>3. DOMAIN S = DOMAIN R
  OBVIOUS
<1> HIDE DEF S
<1>4. PassOf(R, S, ReadParts(R), WriteParts(R))
  BY <1>2, <1>3 DEF PassOf
<1> QED BY <1>1, <1>4

LEMMA SplitNames ==
  /\ SplitName("system.disk.io", "read") = "system.disk.read_io"
  /\ SplitName("system.disk.io", "write") = "system.disk.write_io"
  /\ SplitName("process.disk.io", "read") = "process.disk.read_io"
  /\ SplitName("process.disk.io", "write") = "process.disk.write_io"
BY DEF SplitName

LEMMA SplitWatched ==
  ASSUME NEW R, NEW hosts, NEW c, NEW d, NEW at, NEW f, Watched(R, hosts, c, d, at, f)
  PROVE  Watched(splitReadWriteBytesMetrics(R).rms, hosts, c, d, at, f)
<1> DEFINE S == splitReadWriteBytesMetrics(R).rms
<1>1. WellPlaced(R)
  BY DEF Watched
<1>2. S = R \/ PassOf(R, S, ReadParts(R), WriteParts(R))
  BY <1>1, SplitPass
<1> HIDE DEF S
<1>3. ASSUME PassOf(R, S, ReadParts(R), WriteParts(R)) PROVE Watched(S, hosts, c, d, at, f)
  <2>1. ASSUME NEW m, NEW direction \in Directions, m.name \in metricsToSplit
        PROVE  splitReadWriteBytesMetric(m, direction).name \notin WatchedNames
    <3>1. splitReadWriteBytesMetric(m, direction).name = SplitName(m.name, direction)
      BY DEF splitReadWriteBytesMetric, MetricOf
    <3>2. m.name \in {"system.disk.io", "process.disk.io"} /\ direction \in {"read", "write"}
      BY <2>1 DEF metricsToSplit, Directions
    <3> QED BY <3>1, <3>2, SplitNames DEF WatchedNames
  <2>2. ASSUME NEW p \in Places(R)
        PROVE  /\ At(R, p).name \in WatchedNames => ReadParts(R)[p[1]][p[2]] = At(R, p)
               /\ ReadParts(R)[p[1]][p[2]].name \in WatchedNames => At(R, p).name \in WatchedNames
    <3>1. p[1] \in DOMAIN R /\ p[2] \in DOMAIN R[p[1]].metrics /\ At(R, p) = R[p[1]].metrics[p[2]]
      BY PlaceParts
    <3>2. ReadParts(R)[p[1]][p[2]] = ReadPart(At(R, p))
      BY <3>1 DEF ReadParts
    <3>3. CASE At(R, p).name \in metricsToSplit
      <4>1. ReadPart(At(R, p)).name \notin WatchedNames
        BY <2>1, <3>3 DEF ReadPart, Directions
      <4> QED BY <3>2, <3>3, <4>1 DEF metricsToSplit, WatchedNames
    <3>4. CASE At(R, p).name \notin metricsToSplit
      BY <3>2, <3>4 DEF ReadPart
    <3> QED BY <3>3, <3>4
  <2>3. ASSUME NEW r \in DOMAIN R, NEW j \in DOMAIN WriteParts(R)[r]
        PROVE  WriteParts(R)[r][j].name \notin WatchedNames
    <3>1. /\ j \in DOMAIN R[r].metrics /\ R[r].metrics[j].name \in metricsToSplit
          /\ WriteParts(R)[r][j] = splitReadWriteBytesMetric(R[r].metrics[j], "write")
      BY <2>3 DEF WriteParts
    <3> QED BY <2>1, <3>1 DEF Directions
  <2>4. WellPlaced(S) /\ Spares(R, S, WatchedNames)
    BY <1>1, <1>3, <2>2, <2>3, PassSpares
  <2> QED BY <2>4, WatchedSpared
<1>4. Watched(S, hosts, c, d, at, f)
  BY <1>2, <1>3
<1> QED BY <1>4 DEF S

-----------------------------------------------------------------------------
(***************************************************************************)
(* appendUtilizationMetrics.                                               *)
(***************************************************************************)
CPUShares(c, at, prev) == calculateUtilizationMetric(CPUTimes(c, at), prev)
MemoryShares(at, f) == calculateUtilizationMetric(MemoryGauge(at, f), <<>>)

Utilized(f) == IF f = "state" THEN {<<1, 1>>} ELSE {<<1, 1>>, <<1, 2>>}

Olds(R) == [r \in DOMAIN R |-> R[r].metrics]

Shares(R, c, at, f, prev) ==
  [r \in DOMAIN R |->
     [k \in {k \in DOMAIN R[r].metrics : <<r, k>> \in Utilized(f)} |->
        IF k = 1 THEN CPUShares(c, at, prev) ELSE MemoryShares(at, f)]]

LEMMA StatesThere ==
  ASSUME NEW c, NEW at, NEW f, NEW prev
  PROVE  /\ HasStates(UsedPoints(CPUTimes(c, at), prev))
         /\ HasStates(UsedPoints(MemoryGauge(at, f), prev)) <=> f # "state"
<1> DEFINE u == UsedPoints(CPUTimes(c, at), prev)
           m == UsedPoints(MemoryGauge(at, f), prev)
<1>1. CPUTimes(c, at).name = "system.cpu.time" /\ MemoryGauge(at, f).name = "system.memory.usage"
  BY DEF CPUTimes, MemoryGauge, MetricOf
<1>2. ASSUME NEW i \in DOMAIN u PROVE Has(u[i].attrs, "state")
  <2>1. /\ i \in CPUs \X CPUStates
        /\ u[i].attrs = CPUTimes(c, at).points[i].attrs
    BY <1>1 DEF UsedPoints, convertPrevCPUTimeToDelta, MetricOf, Less, CPUTimes
  <2>2. CPUTimes(c, at).points[i].attrs = {<<"cpu", i[1]>>, <<"state", i[2]>>}
    BY <2>1 DEF CPUTimes, MetricOf, Point
  <2>3. <<"state", i[2]>> \in u[i].attrs
    BY <2>1, <2>2
  <2>4. <<"state", i[2]>>[1] = "state"
    OBVIOUS
  <2> HIDE DEF u
  <2> QED BY <2>3, <2>4 DEF Has
<1>3. m = [i \in {"memory"} \X {"used", "free"} |->
             Point({<<IF f = "state" THEN "part" ELSE "state", i[2]>>}, 1, at)]
  BY <1>1 DEF UsedPoints, MemoryGauge, MemoryUsage, MetricOf
<1>4. ASSUME NEW i \in {"memory"} \X {"used", "free"}
      PROVE  i \in DOMAIN m /\ (Has(m[i].attrs, "state") <=> f # "state")
  <2> DEFINE a == <<IF f = "state" THEN "part" ELSE "state", i[2]>>
  <2>1. i \in DOMAIN m /\ m[i].attrs = {a}
    <3> HIDE DEF m
    <3> QED BY <1>3 DEF Point
  <2>2. a[1] = "state" <=> f # "state"
    OBVIOUS
  <2> HIDE DEF a, m
  <2> QED BY <2>1, <2>2 DEF Has
<1>5. <<"memory", "used">> \in {"memory"} \X {"used", "free"}
  OBVIOUS
<1>6. DOMAIN m = {"memory"} \X {"used", "free"}
  BY <1>3
<1> HIDE DEF u, m
<1>7. HasStates(u)
  BY <1>2 DEF HasStates
<1>8. HasStates(m) <=> f # "state"
  BY <1>4, <1>5, <1>6 DEF HasStates
<1> QED BY <1>7, <1>8 DEF u, m

LEMMA UtilizationPass ==
  ASSUME NEW R, NEW hosts, NEW c, NEW d, NEW at, NEW f, NEW prev, Watched(R, hosts, c, d, at, f)
  PROVE  /\ appendUtilizationMetrics(R, prev).prev = setPrevCPUTimes(CPUTimes(c, at))
         /\ appendUtilizationMetrics(R, prev).failed <=> f = "state"
         /\ PassOf(R, appendUtilizationMetrics(R, prev).rms, Olds(R), Shares(R, c, at, f, prev))
<1> DEFINE places == {p \in Places(R) : At(R, p).name \in metricsToComputeUtilizationFor}
           times(dn) == {p \in dn : At(R, p).name = "system.cpu.time"}
           Remembered(dn) ==
             IF times(dn) = {} THEN prev
             ELSE setPrevCPUTimes(At(R, CHOOSE p \in times(dn) :
                                          \A x \in times(dn) : p = x \/ Before(x, p)))
           PrevAt(p) == Remembered({x \in places : Before(x, p)})
           failing == {p \in places : ~ HasStates(UsedPoints(At(R, p), PrevAt(p)))}
           done == {p \in places : \A x \in failing : Before(p, x)}
           S == [r \in DOMAIN R |->
                   [attrs   |-> R[r].attrs,
                    metrics |-> Appended(R[r].metrics,
                      [k \in {k \in DOMAIN R[r].metrics : <<r, k>> \in done} |->
                         calculateUtilizationMetric(R[r].metrics[k], PrevAt(<<r, k>>))])]]
<1>1. /\ appendUtilizationMetrics(R, prev).rms = S
      /\ appendUtilizationMetrics(R, prev).prev = Remembered(done)
      /\ appendUtilizationMetrics(R, prev).failed = (failing # {})
  BY DEF appendUtilizationMetrics
<1> DEFINE C == <<1, 1>>
           M == <<1, 2>>
<1>2. /\ C \in Places(R) /\ At(R, C) = CPUTimes(c, at)
      /\ M \in Places(R) /\ At(R, M) = MemoryGauge(at, f)
      /\ \A p \in Places(R) : At(R, p).name = "system.cpu.time" => p = C
      /\ \A p \in Places(R) : At(R, p).name = "system.memory.usage" => p = M
  <2>1. CPUTimes(c, at).name = "system.cpu.time" /\ MemoryGauge(at, f).name = "system.memory.usage"
    BY DEF CPUTimes, MemoryGauge, MetricOf
  <2>2. Only(R, C, CPUTimes(c, at)) /\ Only(R, M, MemoryGauge(at, f))
    BY DEF Watched
  <2> HIDE DEF C, M
  <2> QED BY <2>1, <2>2 DEF Only
<1>3. At(R, C).name = "system.cpu.time" /\ At(R, M).name = "system.memory.usage"
  <2>1. CPUTimes(c, at).name = "system.cpu.time" /\ MemoryGauge(at, f).name = "system.memory.usage"
    BY DEF CPUTimes, MemoryGauge, MetricOf
  <2> HIDE DEF C, M
  <2> QED BY <1>2, <2>1
<1>4. ~ Before(C, C) /\ ~ Before(M, C) /\ Before(C, M) /\ ~ Before(M, M) /\ C # M
  BY DEF Before
<1> HIDE DEF C, M
<1>5. places = {C, M}
  BY <1>2, <1>3 DEF metricsToComputeUtilizationFor
<1>6. ASSUME NEW T, T \subseteq places PROVE times(T) = T \cap {C}
  BY <1>3, <1>5, <1>6
<1> HIDE DEF places, times
<1>7. PrevAt(C) = prev
  <2>1. {x \in places : Before(x, C)} = {}
    BY <1>4, <1>5
  <2>2. times({}) = {}
    BY <1>6
  <2> QED BY <2>1, <2>2
<1>8. ASSUME NEW T, T \subseteq places, C \in T
      PROVE  Remembered(T) = setPrevCPUTimes(CPUTimes(c, at))
  <2>1. times(T) = {C}
    BY <1>6, <1>8
  <2>2. (CHOOSE p \in {C} : \A x \in {C} : p = x \/ Before(x, p)) = C
    OBVIOUS
  <2> QED BY <1>2, <2>1, <2>2
<1> HIDE DEF PrevAt, Remembered
<1>9. failing = IF f = "state" THEN {M} ELSE {}
  <2>1. HasStates(UsedPoints(At(R, C), PrevAt(C)))
    BY <1>2, StatesThere
  <2>2. HasStates(UsedPoints(At(R, M), PrevAt(M))) <=> f # "state"
    BY <1>2, StatesThere
  <2> QED BY <1>4, <1>5, <2>1, <2>2
<1> HIDE DEF failing
<1>10. done = Utilized(f) /\ C \in done /\ done \subseteq places
  <2>1. done = IF f = "state" THEN {C} ELSE {C, M}
    BY <1>4, <1>5, <1>9
  <2> HIDE DEF done
  <2> QED BY <1>5, <2>1 DEF Utilized, C, M
<1> HIDE DEF done
<1>11. Remembered(done) = setPrevCPUTimes(CPUTimes(c, at))
  BY <1>8, <1>10
<1>12. WellPlaced(R)
  BY DEF Watched
<1>13. \A y : calculateUtilizationMetric(MemoryGauge(at, f), y) = MemoryShares(at, f)
  <2>1. MemoryGauge(at, f).name # "system.cpu.time"
    BY DEF MemoryGauge, MetricOf
  <2>2. \A y : UsedPoints(MemoryGauge(at, f), y) = MemoryGauge(at, f).points
    BY <2>1 DEF UsedPoints
  <2> QED BY <2>2 DEF MemoryShares, calculateUtilizationMetric
<1>14. ASSUME NEW r \in DOMAIN R
       PROVE  /\ DOMAIN Olds(R)[r] = DOMAIN R[r].metrics
              /\ Positions(Shares(R, c, at, f, prev)[r])
              /\ S[r] = [attrs |-> R[r].attrs,
                         metrics |-> Appended(Olds(R)[r], Shares(R, c, at, f, prev)[r])]
  <2> DEFINE D == {k \in DOMAIN R[r].metrics : <<r, k>> \in done}
             g == [k \in D |-> calculateUtilizationMetric(R[r].metrics[k], PrevAt(<<r, k>>))]
             h == Shares(R, c, at, f, prev)[r]
  <2>1. h = [k \in D |-> IF k = 1 THEN CPUShares(c, at, prev) ELSE MemoryShares(at, f)]
    BY <1>10 DEF Shares
  <2>2. ASSUME NEW k \in D
        PROVE  calculateUtilizationMetric(R[r].metrics[k], PrevAt(<<r, k>>))
                 = IF k = 1 THEN CPUShares(c, at, prev) ELSE MemoryShares(at, f)
    <3>1. <<r, k>> \in {C, M} /\ R[r].metrics[k] = At(R, <<r, k>>)
      BY <1>5, <1>10 DEF At
    <3>2. CASE <<r, k>> = C
      <4>1. k = 1
        BY <3>2 DEF C
      <4> QED BY <1>2, <1>7, <3>1, <3>2, <4>1 DEF CPUShares
    <3>3. CASE <<r, k>> = M
      <4>1. k = 2
        BY <3>3 DEF M
      <4> QED BY <1>2, <1>13, <3>1, <3>3, <4>1
    <3> QED BY <3>1, <3>2, <3>3
  <2>3. S[r] = [attrs |-> R[r].attrs, metrics |-> Appended(R[r].metrics, g)]
    OBVIOUS
  <2>4. D \subseteq Nat \ {0} /\ IsFiniteSet(D)
    <3>1. DOMAIN R[r].metrics \subseteq Nat \ {0} /\ IsFiniteSet(DOMAIN R[r].metrics)
      BY <1>12 DEF WellPlaced, Positions
    <3> QED BY <3>1, FS_Subset
  <2> HIDE DEF D, S, h
  <2>5. g = h
    BY <2>1, <2>2
  <2>6. DOMAIN h = D
    BY <2>1
  <2> HIDE DEF g
  <2>7. Positions(h)
    BY <2>4, <2>6 DEF Positions
  <2>8. Olds(R)[r] = R[r].metrics
    BY DEF Olds
  <2> QED BY <2>3, <2>5, <2>7, <2>8 DEF h
<1>15. DOMAIN S = DOMAIN R
  OBVIOUS
<1> HIDE DEF S
<1>16. PassOf(R, S, Olds(R), Shares(R, c, at, f, prev))
  BY <1>14, <1>15 DEF PassOf
<1>17. failing # {} <=> f = "state"
  BY <1>9
<1> QED BY <1>1, <1>11, <1>16, <1>17

LEMMA UtilizationWatched ==
  ASSUME NEW R, NEW hosts, NEW c, NEW d, NEW at, NEW f, NEW prev, Watched(R, hosts, c, d, at, f)
  PROVE  Watched(appendUtilizationMetrics(R, prev).rms, hosts, c, d, at, f)
<1> DEFINE S == appendUtilizationMetrics(R, prev).rms
           added == Shares(R, c, at, f, prev)
<1>1. WellPlaced(R)
  BY DEF Watched
<1>2. PassOf(R, S, Olds(R), added)
  BY UtilizationPass
<1>3. CPUShares(c, at, prev).name \notin WatchedNames /\ MemoryShares(at, f).name \notin WatchedNames
  <2>1. /\ CPUShares(c, at, prev).name = Utilization("system.cpu.time")
        /\ MemoryShares(at, f).name = Utilization("system.memory.usage")
    BY DEF CPUShares, MemoryShares, calculateUtilizationMetric, CPUTimes, MemoryGauge, MetricOf
  <2> QED BY <2>1 DEF Utilization, WatchedNames
<1>4. \A p \in Places(R) : Olds(R)[p[1]][p[2]] = At(R, p)
  <2> SUFFICES ASSUME NEW p \in Places(R) PROVE Olds(R)[p[1]][p[2]] = At(R, p)
    OBVIOUS
  <2>1. p[1] \in DOMAIN R /\ At(R, p) = R[p[1]].metrics[p[2]]
    BY PlaceParts
  <2> QED BY <2>1 DEF Olds
<1>5. ASSUME NEW r \in DOMAIN R, NEW j \in DOMAIN added[r] PROVE added[r][j].name \notin WatchedNames
  <2>1. added[r][j] = IF j = 1 THEN CPUShares(c, at, prev) ELSE MemoryShares(at, f)
    BY <1>5 DEF Shares
  <2> QED BY <1>3, <2>1
<1> HIDE DEF S, added
<1>6. WellPlaced(S) /\ Spares(R, S, WatchedNames)
  BY <1>1, <1>2, <1>4, <1>5, PassSpares
<1>7. Watched(S, hosts, c, d, at, f)
  BY <1>6, WatchedSpared
<1> QED BY <1>7 DEF S

-----------------------------------------------------------------------------
(***************************************************************************)
(* Passes that append nothing, cleanCPUNumber the first.                   *)
(***************************************************************************)
Mapped(R, S, new) ==
  /\ DOMAIN S = DOMAIN R
  /\ \A r \in DOMAIN R :
       /\ DOMAIN S[r].metrics = DOMAIN R[r].metrics
       /\ \A k \in DOMAIN R[r].metrics : S[r].metrics[k] = new[r][k]

LEMMA MappedKeeps ==
  ASSUME NEW R, NEW S, NEW new, WellPlaced(R), Mapped(R, S, new)
  PROVE  /\ WellPlaced(S) /\ Places(S) = Places(R)
         /\ \A p \in Places(R) : At(S, p) = new[p[1]][p[2]]
<1>1. WellPlaced(S)
  BY DEF WellPlaced, Mapped, Positions
<1>2. Places(S) = Places(R)
  BY DEF Places, Mapped
<1>3. ASSUME NEW p \in Places(R) PROVE At(S, p) = new[p[1]][p[2]]
  <2>1. p[1] \in DOMAIN R /\ p[2] \in DOMAIN R[p[1]].metrics
    BY PlaceParts
  <2> QED BY <2>1 DEF Mapped, At
<1> QED BY <1>1, <1>2, <1>3

Cleaned(m) == OnPoints(m, cleanCPUNumberDataPoint)

Cleans(R) == [r \in DOMAIN R |-> [k \in DOMAIN R[r].metrics |-> Cleaned(R[r].metrics[k])]]

LEMMA CleanPass ==
  ASSUME NEW R
  PROVE  Mapped(R, cleanCPUNumber(R), Cleans(R))
BY DEF Mapped, cleanCPUNumber, OnMetrics, Cleans, Cleaned

DisksWatched(R, hosts, d, at) ==
  /\ WellPlaced(R)
  /\ hosts = 2 => /\ Only(R, <<2, 2>>, DiskOperations(d, at))
                  /\ Only(R, <<2, 3>>, DiskTime(d, at))
  /\ hosts # 2 => Absent(R, "system.disk.operations") /\ Absent(R, "system.disk.operation_time")

LEMMA NotCleaned ==
  ASSUME NEW m, m = MetricOf(m.name, m.kind, m.monotonic, m.points),
         m.points = [i \in DOMAIN m.points |-> m.points[i]],
         \A i \in DOMAIN m.points : \A a \in m.points[i].attrs : a[1] # "cpu"
  PROVE  Cleaned(m) = m
<1>1. \A i \in DOMAIN m.points : cleanCPUNumberDataPoint(m.points[i]) = m.points[i]
  BY DEF cleanCPUNumberDataPoint, Has
<1>2. [i \in DOMAIN m.points |-> cleanCPUNumberDataPoint(m.points[i])] = m.points
  BY <1>1
<1> QED BY <1>2 DEF Cleaned, OnPoints

LEMMA CleanedName ==
  ASSUME NEW m
  PROVE  Cleaned(m).name = m.name
BY DEF Cleaned, OnPoints, MetricOf

LEMMA DisksNotCleaned ==
  ASSUME NEW d, NEW at
  PROVE  Cleaned(DiskOperations(d, at)) = DiskOperations(d, at) /\ Cleaned(DiskTime(d, at)) = DiskTime(d, at)
<1>1. ASSUME NEW i \in OfDisk, NEW a \in {<<"device", i[1]>>, <<"direction", i[2]>>} PROVE a[1] # "cpu"
  OBVIOUS
<1>2. Cleaned(DiskOperations(d, at)) = DiskOperations(d, at)
  <2> DEFINE m == DiskOperations(d, at)
  <2>1. /\ m = MetricOf(m.name, m.kind, m.monotonic, m.points)
        /\ m.points = [i \in OfDisk |->
             Point({<<"device", i[1]>>, <<"direction", i[2]>>}, d[i[2]].ops, at)]
    BY DEF DiskOperations, MetricOf
  <2> HIDE DEF m
  <2>2. m.points = [i \in DOMAIN m.points |-> m.points[i]] /\ DOMAIN m.points = OfDisk
    BY <2>1
  <2>3. \A i \in OfDisk : m.points[i].attrs = {<<"device", i[1]>>, <<"direction", i[2]>>}
    BY <2>1 DEF Point
  <2>4. \A i \in DOMAIN m.points : \A a \in m.points[i].attrs : a[1] # "cpu"
    BY <1>1, <2>2, <2>3
  <2>5. Cleaned(m) = m
    BY <2>1, <2>2, <2>4, NotCleaned, Zenon
  <2> QED BY <2>5 DEF m
<1>3. Cleaned(DiskTime(d, at)) = DiskTime(d, at)
  <2> DEFINE m == DiskTime(d, at)
  <2>1. /\ m = MetricOf(m.name, m.kind, m.monotonic, m.points)
        /\ m.points = [i \in OfDisk |->
             Point({<<"device", i[1]>>, <<"direction", i[2]>>}, d[i[2]].time, at)]
    BY DEF DiskTime, MetricOf
  <2> HIDE DEF m
  <2>2. m.points = [i \in DOMAIN m.points |-> m.points[i]] /\ DOMAIN m.points = OfDisk
    BY <2>1
  <2>3. \A i \in OfDisk : m.points[i].attrs = {<<"device", i[1]>>, <<"direction", i[2]>>}
    BY <2>1 DEF Point
  <2>4. \A i \in DOMAIN m.points : \A a \in m.points[i].attrs : a[1] # "cpu"
    BY <1>1, <2>2, <2>3
  <2>5. Cleaned(m) = m
    BY <2>1, <2>2, <2>4, NotCleaned, Zenon
  <2> QED BY <2>5 DEF m
<1> QED BY <1>2, <1>3

LEMMA CleanWatched ==
  ASSUME NEW R, NEW hosts, NEW c, NEW d, NEW at, NEW f, Watched(R, hosts, c, d, at, f)
  PROVE  DisksWatched(cleanCPUNumber(R), hosts, d, at)
<1> DEFINE S == cleanCPUNumber(R)
<1>1. WellPlaced(R)
  BY DEF Watched
<1>2. /\ WellPlaced(S) /\ Places(S) = Places(R)
      /\ \A p \in Places(R) : At(S, p) = Cleans(R)[p[1]][p[2]]
  BY <1>1, CleanPass, MappedKeeps
<1> HIDE DEF S
<1>3. ASSUME NEW p \in Places(R) PROVE At(S, p) = Cleaned(At(R, p)) /\ At(S, p).name = At(R, p).name
  <2>1. p[1] \in DOMAIN R /\ p[2] \in DOMAIN R[p[1]].metrics /\ At(R, p) = R[p[1]].metrics[p[2]]
    BY PlaceParts
  <2>2. At(S, p) = Cleaned(At(R, p))
    BY <1>2, <2>1 DEF Cleans
  <2> QED BY <2>2, CleanedName
<1>4. ASSUME NEW p, NEW m, Only(R, p, m), Cleaned(m) = m PROVE Only(S, p, m)
  BY <1>2, <1>3, <1>4 DEF Only
<1>5. ASSUME hosts = 2
      PROVE  Only(S, <<2, 2>>, DiskOperations(d, at)) /\ Only(S, <<2, 3>>, DiskTime(d, at))
  <2>1. Only(R, <<2, 2>>, DiskOperations(d, at)) /\ Only(R, <<2, 3>>, DiskTime(d, at))
    BY <1>5 DEF Watched
  <2> QED BY <1>4, <2>1, DisksNotCleaned
<1>6. ASSUME hosts # 2
      PROVE  Absent(S, "system.disk.operations") /\ Absent(S, "system.disk.operation_time")
  <2>1. Absent(R, "system.disk.operations") /\ Absent(R, "system.disk.operation_time")
    BY <1>6 DEF Watched
  <2> QED BY <1>2, <1>3, <2>1 DEF Absent
<1>7. DisksWatched(S, hosts, d, at)
  BY <1>2, <1>5, <1>6 DEF DisksWatched
<1> QED BY <1>7 DEF S

-----------------------------------------------------------------------------
(***************************************************************************)
(* appendAverageDiskMetrics.                                               *)
(***************************************************************************)
DiskLabels(i) == {<<"device", i[1]>>, <<"direction", i[2]>>}

DiskOp(d, at, prev) ==
  [key \in OfDisk |->
     [operations |-> d[key[2]].ops,
      time       |-> Point(DiskLabels(key), d[key[2]].time, at),
      cumAvgTime |-> IF key \in DOMAIN prev THEN prev[key].cumAvgTime ELSE 0]]

LEMMA KeyOfDisk ==
  ASSUME NEW i \in OfDisk
  PROVE  opKey(DiskLabels(i)) = i
<1> DEFINE a == <<"device", i[1]>>
           b == <<"direction", i[2]>>
<1>1. a[1] = "device" /\ a[2] = i[1] /\ b[1] = "direction" /\ b[2] = i[2] /\ DiskLabels(i) = {a, b}
  BY DEF DiskLabels
<1>2. i = <<i[1], i[2]>>
  BY DEF OfDisk
<1> HIDE DEF a, b
<1>3. Get(DiskLabels(i), "device") = i[1] /\ Get(DiskLabels(i), "direction") = i[2]
  BY <1>1 DEF Get
<1> QED BY <1>2, <1>3 DEF opKey

LEMMA DiskPoints ==
  ASSUME NEW d, NEW at
  PROVE  /\ DiskOperations(d, at).points = [i \in OfDisk |-> Point(DiskLabels(i), d[i[2]].ops, at)]
         /\ DiskTime(d, at).points = [i \in OfDisk |-> Point(DiskLabels(i), d[i[2]].time, at)]
BY DEF DiskOperations, DiskTime, MetricOf, DiskLabels

(* The points of the one metric with a name.                               *)
PointsIn(m) == {m.points[i] : i \in DOMAIN m.points}

LEMMA PointsOfOne ==
  ASSUME NEW ms, NEW k, NEW name, {j \in DOMAIN ms : ms[j].name = name} = {k}
  PROVE  PointsOf(ms, name) = PointsIn(ms[k])
<1>1. {j \in DOMAIN ms : ms[j].name = name} = {k}
  OBVIOUS
<1>2. PointsOf(ms, name) = UNION {{ms[j].points[i] : i \in DOMAIN ms[j].points}
                                   : j \in {j \in DOMAIN ms : ms[j].name = name}}
  BY DEF PointsOf
<1>3. PointsOf(ms, name) = UNION {{ms[j].points[i] : i \in DOMAIN ms[j].points} : j \in {k}}
  BY <1>1, <1>2
<1> QED BY <1>3 DEF PointsIn

(* Among the points of a disk metric, the one of a key.                    *)
LEMMA PointOfKey ==
  ASSUME NEW pts, NEW key \in OfDisk, pts = [i \in OfDisk |-> pts[i]],
         \A i \in OfDisk : pts[i].attrs = DiskLabels(i)
  PROVE  (CHOOSE p \in {pts[i] : i \in DOMAIN pts} : opKey(p.attrs) = key) = pts[key]
<1>1. DOMAIN pts = OfDisk
  OBVIOUS
<1>2. pts[key] \in {pts[i] : i \in DOMAIN pts} /\ opKey(pts[key].attrs) = key
  BY <1>1, KeyOfDisk
<1>3. ASSUME NEW p \in {pts[i] : i \in DOMAIN pts}, opKey(p.attrs) = key PROVE p = pts[key]
  <2>1. PICK i \in OfDisk : p = pts[i]
    BY <1>1
  <2>2. i = key
    BY <1>3, <2>1, KeyOfDisk
  <2> QED BY <2>1, <2>2
<1> QED BY <1>2, <1>3

LEMMA NewOpsAre ==
  ASSUME NEW ms, NEW d, NEW at, NEW prev,
         2 \in DOMAIN ms, 3 \in DOMAIN ms, ms[2] = DiskOperations(d, at), ms[3] = DiskTime(d, at),
         \A k \in DOMAIN ms : /\ ms[k].name = "system.disk.operations" => k = 2
                              /\ ms[k].name = "system.disk.operation_time" => k = 3
  PROVE  NewOps(ms, prev) = DiskOp(d, at, prev)
<1> DEFINE o == DiskOperations(d, at).points
           t == DiskTime(d, at).points
           ops == PointsOf(ms, "system.disk.operations")
           times == PointsOf(ms, "system.disk.operation_time")
           Of(points, key) == CHOOSE p \in points : opKey(p.attrs) = key
<1>1. /\ o = [i \in OfDisk |-> Point(DiskLabels(i), d[i[2]].ops, at)]
      /\ t = [i \in OfDisk |-> Point(DiskLabels(i), d[i[2]].time, at)]
  BY DiskPoints
<1>2. ms[2].name = "system.disk.operations" /\ ms[3].name = "system.disk.operation_time"
  BY DEF DiskOperations, DiskTime, MetricOf
<1>3. ops = {o[i] : i \in DOMAIN o}
  <2>0. {j \in DOMAIN ms : ms[j].name = "system.disk.operations"} = {2}
    BY <1>2
  <2> DEFINE name == "system.disk.operations"
  <2>2. {j \in DOMAIN ms : ms[j].name = name} = {2}
    BY <2>0
  <2> HIDE DEF name
  <2>1. PointsOf(ms, name) = PointsIn(ms[2])
    BY ONLY <2>2, PointsOfOne
  <2> QED BY <2>1 DEF name, PointsIn
<1>4. times = {t[i] : i \in DOMAIN t}
  <2>0. {j \in DOMAIN ms : ms[j].name = "system.disk.operation_time"} = {3}
    BY <1>2
  <2> DEFINE name == "system.disk.operation_time"
  <2>2. {j \in DOMAIN ms : ms[j].name = name} = {3}
    BY <2>0
  <2> HIDE DEF name
  <2>1. PointsOf(ms, name) = PointsIn(ms[3])
    BY ONLY <2>2, PointsOfOne
  <2> QED BY <2>1 DEF name, PointsIn
<1>5. NewOps(ms, prev)
        = [key \in {opKey(p.attrs) : p \in ops} |->
             [operations |-> Of(ops, key).num, time |-> Of(times, key),
              cumAvgTime |-> IF key \in DOMAIN prev THEN prev[key].cumAvgTime ELSE 0]]
  BY DEF NewOps
<1> HIDE DEF o, t, ops, times
<1>6. /\ DOMAIN o = OfDisk /\ DOMAIN t = OfDisk
      /\ o = [i \in OfDisk |-> o[i]] /\ t = [i \in OfDisk |-> t[i]]
      /\ \A i \in OfDisk : o[i].attrs = DiskLabels(i) /\ t[i].attrs = DiskLabels(i)
      /\ \A i \in OfDisk : o[i].num = d[i[2]].ops /\ t[i] = Point(DiskLabels(i), d[i[2]].time, at)
  BY <1>1 DEF Point
<1>7. {opKey(p.attrs) : p \in ops} = OfDisk
  <2>1. \A i \in OfDisk : opKey(o[i].attrs) = i
    BY <1>6, KeyOfDisk
  <2>2. {opKey(p.attrs) : p \in ops} = {opKey(o[i].attrs) : i \in OfDisk}
    BY <1>3, <1>6
  <2> QED BY <2>1, <2>2
<1>8. ASSUME NEW key \in OfDisk PROVE Of(ops, key) = o[key] /\ Of(times, key) = t[key]
  <2>1. (CHOOSE p \in {o[i] : i \in DOMAIN o} : opKey(p.attrs) = key) = o[key]
    BY <1>6, PointOfKey
  <2>2. (CHOOSE p \in {t[i] : i \in DOMAIN t} : opKey(p.attrs) = key) = t[key]
    BY <1>6, PointOfKey
  <2> QED BY <1>3, <1>4, <2>1, <2>2
<1> HIDE DEF Of
<1>9. \A key \in OfDisk : /\ Of(ops, key).num = d[key[2]].ops
                          /\ Of(times, key) = Point(DiskLabels(key), d[key[2]].time, at)
  BY <1>6, <1>8
<1>10. [key \in {opKey(p.attrs) : p \in ops} |->
             [operations |-> Of(ops, key).num, time |-> Of(times, key),
              cumAvgTime |-> IF key \in DOMAIN prev THEN prev[key].cumAvgTime ELSE 0]]
        = DiskOp(d, at, prev)
  BY <1>7, <1>9 DEF DiskOp
<1> QED BY <1>5, <1>10

LEMMA NoNewOps ==
  ASSUME NEW ms, NEW prev, \A k \in DOMAIN ms : ms[k].name # "system.disk.operations"
  PROVE  DOMAIN NewOps(ms, prev) = {} /\ \A x : DOMAIN Averaged(NewOps(ms, prev), x) = {}
<1>1. PointsOf(ms, "system.disk.operations") = {}
  BY DEF PointsOf
<1>2. DOMAIN NewOps(ms, prev) = {opKey(p.attrs) : p \in PointsOf(ms, "system.disk.operations")}
  BY DEF NewOps
<1>3. DOMAIN NewOps(ms, prev) = {}
  BY <1>1, <1>2
<1> QED BY <1>3 DEF Averaged

AfterDisk(d, at, prev) == Averaged(DiskOp(d, at, prev), prev)

KnownDisks(hosts, prev) == IF hosts = 2 THEN OfDisk \cap DOMAIN prev ELSE {}

Averages(R, hosts, d, at, prev) ==
  [r \in DOMAIN R |->
     [j \in IF r = 2 /\ KnownDisks(hosts, prev) # {} THEN {1} ELSE {} |->
        averageTimeMetric(AfterDisk(d, at, prev), KnownDisks(hosts, prev))]]

Formed(R) ==
  \A r \in DOMAIN R : /\ R[r] = [attrs |-> R[r].attrs, metrics |-> R[r].metrics]
                      /\ R[r].metrics = [k \in DOMAIN R[r].metrics |-> R[r].metrics[k]]

LEMMA AveragePass ==
  ASSUME NEW R, NEW hosts, NEW d, NEW at, NEW prev, hosts \in {1, 2}, hosts = 2 => 2 \in DOMAIN R,
         DisksWatched(R, hosts, d, at), Formed(R),
         prev = [k \in DOMAIN prev |-> prev[k]], DOMAIN prev \subseteq OfDisk
  PROVE  /\ appendAverageDiskMetrics(R, prev).prev = IF hosts = 2 THEN AfterDisk(d, at, prev) ELSE prev
         /\ PassOf(R, appendAverageDiskMetrics(R, prev).rms, Olds(R), Averages(R, hosts, d, at, prev))
<1> DEFINE Op(r, x) == Averaged(NewOps(R[r].metrics, x), x)
           last == Max(DOMAIN R \cup {0})
           after[r \in 0 .. last] ==
             IF r = 0 THEN prev
             ELSE IF r \notin DOMAIN R THEN after[r - 1]
             ELSE LET op == Op(r, after[r - 1])
                  IN  [key \in DOMAIN op \cup DOMAIN after[r - 1] |->
                         IF key \in DOMAIN op THEN op[key] ELSE after[r - 1][key]]
           Known(r) == DOMAIN Op(r, after[r - 1]) \cap DOMAIN after[r - 1]
           S == [r \in DOMAIN R |->
                  IF Known(r) = {} THEN R[r]
                  ELSE [attrs   |-> R[r].attrs,
                        metrics |-> Appended(R[r].metrics,
                                      <<averageTimeMetric(Op(r, after[r - 1]), Known(r))>>)]]
<1>1. /\ appendAverageDiskMetrics(R, prev).rms = S
      /\ appendAverageDiskMetrics(R, prev).prev = after[last]
  BY DEF appendAverageDiskMetrics
<1>2. /\ last \in Nat /\ DOMAIN R \subseteq 1 .. last
  <2>1. Positions(R)
    BY DEF DisksWatched, WellPlaced
  <2>2. last = End(R)
    BY DEF End
  <2>3. End(R) \in Nat /\ \A k \in DOMAIN R : k <= End(R)
    BY <2>1, EndIs
  <2> HIDE DEF last
  <2> QED BY <2>1, <2>2, <2>3 DEF Positions
<1> DEFINE merged(r, x) ==
             IF r \notin DOMAIN R THEN x
             ELSE LET op == Op(r, x)
                  IN  [key \in DOMAIN op \cup DOMAIN x |-> IF key \in DOMAIN op THEN op[key] ELSE x[key]]
           final == IF hosts = 2 THEN AfterDisk(d, at, prev) ELSE prev
           cand == [r \in 0 .. last |-> IF r < 2 THEN prev ELSE final]
           Body(g) == [r \in 0 .. last |-> IF r = 0 THEN prev ELSE merged(r, g[r - 1])]
<1>3. after = CHOOSE g : g = Body(g)
  OBVIOUS
<1>4. DOMAIN AfterDisk(d, at, prev) = OfDisk /\ AfterDisk(d, at, prev) = [k \in OfDisk |-> AfterDisk(d, at, prev)[k]]
  BY DEF AfterDisk, Averaged, DiskOp
<1>5. ASSUME NEW r \in DOMAIN R, ~ (r = 2 /\ hosts = 2), NEW x
      PROVE  DOMAIN Op(r, x) = {}
  <2>1. ASSUME NEW k \in DOMAIN R[r].metrics PROVE R[r].metrics[k].name # "system.disk.operations"
    <3>1. <<r, k>> \in Places(R) /\ At(R, <<r, k>>) = R[r].metrics[k]
      BY PlacesAre DEF At
    <3>2. CASE hosts = 2
      <4>1. Only(R, <<2, 2>>, DiskOperations(d, at)) /\ <<r, k>> # <<2, 2>>
        BY <1>5, <3>2 DEF DisksWatched
      <4>2. DiskOperations(d, at).name = "system.disk.operations"
        BY DEF DiskOperations, MetricOf
      <4> QED BY <3>1, <4>1, <4>2 DEF Only
    <3>3. CASE hosts # 2
      BY <3>1, <3>3 DEF DisksWatched, Absent
    <3> QED BY <3>2, <3>3
  <2> QED BY <2>1, NoNewOps
<1>6. ASSUME hosts = 2, NEW x PROVE Op(2, x) = Averaged(DiskOp(d, at, x), x)
  <2>1. Only(R, <<2, 2>>, DiskOperations(d, at)) /\ Only(R, <<2, 3>>, DiskTime(d, at))
    BY <1>6 DEF DisksWatched
  <2>2. /\ DiskOperations(d, at).name = "system.disk.operations"
        /\ DiskTime(d, at).name = "system.disk.operation_time"
    BY DEF DiskOperations, DiskTime, MetricOf
  <2>3. <<2, 2>> \in Places(R) /\ <<2, 3>> \in Places(R)
    BY <2>1 DEF Only
  <2>4. 2 \in DOMAIN R /\ 2 \in DOMAIN R[2].metrics /\ 3 \in DOMAIN R[2].metrics
    BY <2>3, PlacesAre
  <2>5. R[2].metrics[2] = DiskOperations(d, at) /\ R[2].metrics[3] = DiskTime(d, at)
    BY <2>1 DEF Only, At
  <2>6. ASSUME NEW k \in DOMAIN R[2].metrics
        PROVE  /\ R[2].metrics[k].name = "system.disk.operations" => k = 2
               /\ R[2].metrics[k].name = "system.disk.operation_time" => k = 3
    <3>1. <<2, k>> \in Places(R) /\ At(R, <<2, k>>) = R[2].metrics[k]
      BY <2>4, PlacesAre DEF At
    <3>2. /\ R[2].metrics[k].name = "system.disk.operations" => <<2, k>> = <<2, 2>>
          /\ R[2].metrics[k].name = "system.disk.operation_time" => <<2, k>> = <<2, 3>>
      BY <2>1, <2>2, <3>1 DEF Only
    <3> QED BY <3>2
  <2>7. NewOps(R[2].metrics, x) = DiskOp(d, at, x)
    BY <2>4, <2>5, <2>6, NewOpsAre
  <2> QED BY <2>7
<1> HIDE DEF Op
<1>7. ASSUME NEW r \in 1 .. last, NEW x, x = [k \in DOMAIN x |-> x[k]], ~ (r = 2 /\ hosts = 2)
      PROVE  merged(r, x) = x
  BY <1>5, <1>7
<1>8. hosts = 2 => merged(2, prev) = AfterDisk(d, at, prev)
  <2> SUFFICES ASSUME hosts = 2 PROVE merged(2, prev) = AfterDisk(d, at, prev)
    OBVIOUS
  <2> DEFINE a == AfterDisk(d, at, prev)
  <2>1. Op(2, prev) = a
    BY <1>6 DEF AfterDisk
  <2>2. DOMAIN a = OfDisk /\ a = [k \in OfDisk |-> a[k]]
    BY <1>4
  <2> HIDE DEF a
  <2>3. merged(2, prev) = [key \in DOMAIN a \cup DOMAIN prev |-> IF key \in DOMAIN a THEN a[key] ELSE prev[key]]
    BY <2>1
  <2>4. DOMAIN a \cup DOMAIN prev = OfDisk
    BY <2>2
  <2> HIDE DEF merged
  <2>5. merged(2, prev) = [key \in OfDisk |-> a[key]]
    BY <2>2, <2>3, <2>4
  <2>6. merged(2, prev) = a
    BY <2>2, <2>5
  <2> QED BY <2>6 DEF a
<1> HIDE DEF merged
<1>9. final = [k \in DOMAIN final |-> final[k]]
  BY <1>4
<1> HIDE DEF final, last
<1>10. \A g : g = Body(g) <=> g = cand
  <2>1. ASSUME NEW g, g = Body(g) PROVE g = cand
    <3>1. DOMAIN g = 0 .. last /\ \A r \in 0 .. last : g[r] = IF r = 0 THEN prev ELSE merged(r, g[r - 1])
      BY <2>1
    <3>2. ASSUME NEW r \in 0 .. last, g[r] # cand[r] PROVE FALSE
      <4> DEFINE bad == {x \in 0 .. last : g[x] # cand[x]}
      <4>1. bad \subseteq Nat /\ r \in bad
        BY <1>2, <3>2
      <4>2. PICK m \in bad : \A k \in bad : m <= k
        <5> HIDE DEF bad
        <5>1. bad \subseteq Nat /\ bad # {}
          BY <4>1
        <5> QED BY ONLY <5>1, LeastNumber
      <4>3. m \in 0 .. last /\ g[m] # cand[m] /\ m \in Nat
        BY <4>1
      <4>4. m # 0
        BY <3>1, <4>3
      <4>5. m - 1 \in 0 .. last /\ m \in 1 .. last
        BY <1>2, <4>3, <4>4
      <4>6. m - 1 \notin bad
        BY <4>2, <4>5
      <4>7. g[m - 1] = cand[m - 1]
        BY <4>5, <4>6
      <4>8. g[m] = merged(m, cand[m - 1])
        BY <3>1, <4>3, <4>4, <4>7
      <4>9. CASE m = 1
        <5>1. cand[m - 1] = prev /\ cand[m] = prev
          BY <4>3, <4>5, <4>9
        <5> QED BY <1>7, <4>3, <4>5, <4>8, <4>9, <5>1
      <4>10. CASE m = 2
        <5>1. cand[m - 1] = prev /\ cand[m] = final
          BY <4>3, <4>5, <4>10
        <5>2. hosts # 2 => final = prev
          BY DEF final
        <5>3. hosts = 2 => final = AfterDisk(d, at, prev)
          BY DEF final
        <5> QED BY <1>7, <1>8, <4>3, <4>5, <4>8, <4>10, <5>1, <5>2, <5>3
      <4>11. CASE m > 2
        <5>1. cand[m - 1] = final /\ cand[m] = final
          BY <4>3, <4>5, <4>11
        <5>2. merged(m, final) = final
          BY <1>7, <1>9, <4>5, <4>11
        <5> QED BY <4>3, <4>8, <5>1, <5>2
      <4> QED BY <4>3, <4>4, <4>9, <4>10, <4>11
    <3> QED BY <2>1, <3>1, <3>2
  <2>2. cand = Body(cand)
    <3>1. ASSUME NEW r \in 0 .. last
          PROVE  cand[r] = IF r = 0 THEN prev ELSE merged(r, cand[r - 1])
      <4>1. CASE r = 0
        BY <4>1
      <4>2. CASE r = 1
        <5>1. r \in 1 .. last /\ cand[r - 1] = prev /\ cand[r] = prev
          BY <1>2, <4>2
        <5> QED BY <1>7, <4>2, <5>1
      <4>3. CASE r = 2
        <5>1. r \in 1 .. last /\ cand[r - 1] = prev /\ cand[r] = final
          BY <1>2, <4>3
        <5>2. hosts # 2 => final = prev
          BY DEF final
        <5>3. hosts = 2 => final = AfterDisk(d, at, prev)
          BY DEF final
        <5> QED BY <1>7, <1>8, <4>3, <5>1, <5>2, <5>3
      <4>4. CASE r > 2
        <5>1. r \in 1 .. last /\ cand[r - 1] = final /\ cand[r] = final
          BY <1>2, <4>4
        <5> QED BY <1>7, <1>9, <4>4, <5>1
      <4> QED BY <1>2, <4>1, <4>2, <4>3, <4>4
    <3> QED BY <3>1
  <2> QED BY <2>1, <2>2
<1>11. after = cand
  <2> HIDE DEF Body, cand, after
  <2> QED BY <1>3, <1>10
<1> HIDE DEF after
<1>12. after[last] = final
  <2>1. last \in 0 .. last
    BY <1>2
  <2>2. CASE hosts = 2
    <3>1. last >= 2
      BY <1>2, <2>2
    <3> QED BY <1>2, <1>11, <2>1, <3>1
  <2>3. CASE hosts # 2
    BY <1>11, <2>1, <2>3 DEF final
  <2> QED BY <2>2, <2>3
<1>13. ASSUME NEW r \in DOMAIN R PROVE r \in 1 .. last /\ r - 1 \in 0 .. last
  BY <1>2
<1>14. ASSUME NEW r \in DOMAIN R, ~ (r = 2 /\ hosts = 2) PROVE Known(r) = {}
  BY <1>5, <1>14
<1>15. hosts = 2 => Known(2) = KnownDisks(hosts, prev) /\ Op(2, after[1]) = AfterDisk(d, at, prev)
  <2> SUFFICES ASSUME hosts = 2
               PROVE  Known(2) = KnownDisks(hosts, prev) /\ Op(2, after[1]) = AfterDisk(d, at, prev)
    OBVIOUS
  <2>1. 2 \in DOMAIN R
    OBVIOUS
  <2>2. after[1] = prev /\ 2 - 1 = 1
    BY <1>2, <1>11, <2>1
  <2>3. Op(2, after[1]) = AfterDisk(d, at, prev)
    BY <1>6, <2>2 DEF AfterDisk
  <2> QED BY <1>4, <2>2, <2>3 DEF KnownDisks
<1>16. ASSUME NEW r \in DOMAIN R
       PROVE  /\ DOMAIN Olds(R)[r] = DOMAIN R[r].metrics
              /\ Positions(Averages(R, hosts, d, at, prev)[r])
              /\ S[r] = [attrs |-> R[r].attrs,
                         metrics |-> Appended(Olds(R)[r], Averages(R, hosts, d, at, prev)[r])]
  <2> DEFINE h == Averages(R, hosts, d, at, prev)[r]
             K == KnownDisks(hosts, prev)
  <2>1. Olds(R)[r] = R[r].metrics
    BY DEF Olds
  <2>2. h = [j \in IF r = 2 /\ K # {} THEN {1} ELSE {} |-> averageTimeMetric(AfterDisk(d, at, prev), K)]
    BY DEF Averages
  <2> HIDE DEF h
  <2>3. Positions(h)
    <3>1. DOMAIN h \in {{}, {1}}
      BY <2>2
    <3>2. IsFiniteSet({}) /\ IsFiniteSet({1})
      BY FS_EmptySet, FS_Singleton
    <3> QED BY <3>1, <3>2 DEF Positions
  <2>4. Positions(R[r].metrics)
    BY DEF DisksWatched, WellPlaced
  <2>5. CASE Known(r) = {}
    <3>1. S[r] = R[r]
      BY <2>5
    <3>2. DOMAIN h = {}
      BY <1>15, <2>2, <2>5 DEF KnownDisks
    <3>3. Appended(R[r].metrics, h) = R[r].metrics
      BY <2>4, <3>2, NothingAppended DEF Formed
    <3> QED BY <2>1, <2>3, <3>1, <3>3 DEF Formed, h
  <2>6. CASE Known(r) # {}
    <3>1. r = 2 /\ hosts = 2
      BY <1>14, <2>6
    <3>2. S[r] = [attrs   |-> R[r].attrs,
                  metrics |-> Appended(R[r].metrics, <<averageTimeMetric(Op(r, after[r - 1]), Known(r))>>)]
      BY <2>6
    <3>3. Op(r, after[r - 1]) = AfterDisk(d, at, prev) /\ Known(r) = K /\ K # {}
      BY <1>15, <2>6, <3>1
    <3>4. h = [j \in {1} |-> averageTimeMetric(AfterDisk(d, at, prev), K)]
      BY <2>2, <3>1, <3>3
    <3>5. h = <<averageTimeMetric(AfterDisk(d, at, prev), K)>>
      BY <3>4
    <3> HIDE DEF S, Known, K
    <3> QED BY <2>1, <2>3, <3>2, <3>3, <3>5 DEF h
  <2> QED BY <2>5, <2>6
<1>17. DOMAIN S = DOMAIN R
  OBVIOUS
<1> HIDE DEF S
<1>18. PassOf(R, S, Olds(R), Averages(R, hosts, d, at, prev))
  BY <1>16, <1>17 DEF PassOf
<1> QED BY <1>1, <1>12, <1>18 DEF final

-----------------------------------------------------------------------------
(***************************************************************************)
(* A batch without faults: which metrics there are, each name once.        *)
(***************************************************************************)
Lists(R, T) ==
  /\ WellPlaced(R)
  /\ \A p \in Places(R) : At(R, p) \in T
  /\ \A m \in T : \E p \in Places(R) : At(R, p) = m
  /\ \A p, x \in Places(R) : At(R, p).name = At(R, x).name => p = x

(* What a pass adds are the metrics U, once each; the metrics T that there *)
(* were become f[T], which keep their names apart.                         *)
Adds(R, added, U) ==
  /\ \A r \in DOMAIN R : \A j \in DOMAIN added[r] : added[r][j] \in U
  /\ \A u \in U : \E r \in DOMAIN R : \E j \in DOMAIN added[r] : added[r][j] = u
  /\ \A r, s \in DOMAIN R : \A j \in DOMAIN added[r], k \in DOMAIN added[s] :
       added[r][j].name = added[s][k].name => r = s /\ j = k

Turns(R, old, T, f, U) ==
  /\ DOMAIN f = T
  /\ \A p \in Places(R) : old[p[1]][p[2]] = f[At(R, p)]
  /\ \A m, x \in T : f[m].name = f[x].name => m.name = x.name
  /\ \A m \in T, u \in U : f[m].name # u.name

LEMMA Grown ==
  ASSUME NEW R, NEW T, Lists(R, T), NEW S, NEW old, NEW added, PassOf(R, S, old, added),
         NEW f, NEW U, Turns(R, old, T, f, U), Adds(R, added, U)
  PROVE  Lists(S, {f[m] : m \in T} \cup U)
<1>0. /\ WellPlaced(R)
      /\ \A p \in Places(R) : At(R, p) \in T
      /\ \A m \in T : \E p \in Places(R) : At(R, p) = m
      /\ \A p, x \in Places(R) : At(R, p).name = At(R, x).name => p = x
  BY DEF Lists
<1>1. WellPlaced(S) /\ \A p \in Places(R) : p \in Places(S) /\ At(S, p) = old[p[1]][p[2]]
  BY <1>0, PassKeeps
<1>2. /\ \A q \in Places(S) \ Places(R) :
           /\ q[1] \in DOMAIN R
           /\ \E j \in DOMAIN added[q[1]] :
                q = <<q[1], End(old[q[1]]) + j>> /\ At(S, q) = added[q[1]][j]
      /\ \A r \in DOMAIN R : \A j \in DOMAIN added[r] :
           /\ <<r, End(old[r]) + j>> \in Places(S) \ Places(R)
           /\ At(S, <<r, End(old[r]) + j>>) = added[r][j]
  BY <1>0, PassAdds
<1> USE DEF Turns, Adds
<1>3. \A p \in Places(R) : p \in Places(S) /\ At(S, p) = f[At(R, p)] /\ At(R, p) \in T
  BY <1>0, <1>1
<1>4. \A q \in Places(S) \ Places(R) : At(S, q) \in U
  BY <1>2
<1>5. ASSUME NEW p \in Places(S) PROVE At(S, p) \in {f[m] : m \in T} \cup U
  BY <1>3, <1>4
<1>6. ASSUME NEW m \in {f[m] : m \in T} \cup U PROVE \E p \in Places(S) : At(S, p) = m
  <2>1. CASE m \in U
    <3>1. PICK r \in DOMAIN R : \E j \in DOMAIN added[r] : added[r][j] = m
      BY <2>1
    <3>2. PICK j \in DOMAIN added[r] : added[r][j] = m
      BY <3>1
    <3>3. <<r, End(old[r]) + j>> \in Places(S) /\ At(S, <<r, End(old[r]) + j>>) = m
      BY <1>2, <3>2
    <3> QED BY <3>3
  <2>2. CASE m \in {f[x] : x \in T}
    <3>1. PICK x \in T : m = f[x]
      BY <2>2
    <3>2. PICK p \in Places(R) : At(R, p) = x
      BY <1>0
    <3> QED BY <1>3, <3>1, <3>2
  <2> QED BY <2>1, <2>2
<1>7. ASSUME NEW p \in Places(S), NEW x \in Places(S), At(S, p).name = At(S, x).name PROVE p = x
  <2>1. CASE p \in Places(R) /\ x \in Places(R)
    <3>1. f[At(R, p)].name = f[At(R, x)].name
      BY <1>3, <1>7, <2>1
    <3>2. At(R, p).name = At(R, x).name
      BY <1>3, <2>1, <3>1
    <3> QED BY <1>0, <2>1, <3>2
  <2>2. CASE p \in Places(R) /\ x \notin Places(R)
    <3>1. At(S, p) = f[At(R, p)] /\ At(R, p) \in T /\ At(S, x) \in U
      BY <1>3, <1>4, <2>2
    <3> QED BY <1>7, <3>1
  <2>3. CASE p \notin Places(R) /\ x \in Places(R)
    <3>1. At(S, x) = f[At(R, x)] /\ At(R, x) \in T /\ At(S, p) \in U
      BY <1>3, <1>4, <2>3
    <3> QED BY <1>7, <3>1
  <2>4. CASE p \notin Places(R) /\ x \notin Places(R)
    <3>1. /\ p[1] \in DOMAIN R
          /\ \E j \in DOMAIN added[p[1]] : p = <<p[1], End(old[p[1]]) + j>> /\ At(S, p) = added[p[1]][j]
      BY <1>2, <2>4
    <3>2. /\ x[1] \in DOMAIN R
          /\ \E j \in DOMAIN added[x[1]] : x = <<x[1], End(old[x[1]]) + j>> /\ At(S, x) = added[x[1]][j]
      BY <1>2, <2>4
    <3>3. PICK j \in DOMAIN added[p[1]] : p = <<p[1], End(old[p[1]]) + j>> /\ At(S, p) = added[p[1]][j]
      BY <3>1
    <3>4. PICK k \in DOMAIN added[x[1]] : x = <<x[1], End(old[x[1]]) + k>> /\ At(S, x) = added[x[1]][k]
      BY <3>2
    <3>5. p[1] = x[1] /\ j = k
      BY <1>7, <3>1, <3>2, <3>3, <3>4
    <3> QED BY <3>3, <3>4, <3>5
  <2> QED BY <2>1, <2>2, <2>3, <2>4
<1> QED BY <1>1, <1>5, <1>6, <1>7 DEF Lists

LEMMA MappedLists ==
  ASSUME NEW R, NEW T, Lists(R, T), NEW S, NEW new, Mapped(R, S, new), NEW f, DOMAIN f = T,
         \A p \in Places(R) : new[p[1]][p[2]] = f[At(R, p)],
         \A m \in T : f[m].name = m.name
  PROVE  Lists(S, {f[m] : m \in T})
<1>0. /\ WellPlaced(R)
      /\ \A p \in Places(R) : At(R, p) \in T
      /\ \A m \in T : \E p \in Places(R) : At(R, p) = m
      /\ \A p, x \in Places(R) : At(R, p).name = At(R, x).name => p = x
  BY DEF Lists
<1>1. /\ WellPlaced(S) /\ Places(S) = Places(R)
      /\ \A p \in Places(R) : At(S, p) = new[p[1]][p[2]]
  BY <1>0, MappedKeeps
<1>2. \A p \in Places(R) : /\ At(S, p) = f[At(R, p)] /\ At(R, p) \in T
                           /\ At(S, p).name = At(R, p).name
  BY <1>0, <1>1
<1>3. ASSUME NEW m \in T PROVE \E p \in Places(S) : At(S, p) = f[m]
  <2>1. PICK p \in Places(R) : At(R, p) = m
    BY <1>0
  <2> QED BY <1>1, <1>2, <2>1
<1>4. ASSUME NEW p \in Places(S), NEW x \in Places(S), At(S, p).name = At(S, x).name PROVE p = x
  <2>1. At(R, p).name = At(R, x).name
    BY <1>1, <1>2, <1>4
  <2> QED BY <1>0, <1>1, <2>1
<1>5. \A p \in Places(S) : At(S, p) \in {f[m] : m \in T}
  BY <1>1, <1>2
<1>6. \A m \in {f[x] : x \in T} : \E p \in Places(S) : At(S, p) = m
  BY <1>3
<1> QED BY <1>1, <1>4, <1>5, <1>6 DEF Lists

(* The metrics after combineProcessMetrics.                                *)
DiskMetrics(hosts, d, at, f) ==
  IF hosts = 2 THEN {DiskIo(d, at, f), DiskOperations(d, at), DiskTime(d, at)} ELSE {}

HostMetrics(hosts, c, d, at, f) == {CPUTimes(c, at), MemoryGauge(at, f)} \cup DiskMetrics(hosts, d, at, f)

ProcessMetric(P, d, at) == IF P = {} THEN {} ELSE {JoinedIo(P, d, at)}

LEMMA HostPartLists ==
  ASSUME NEW q, NEW hosts, NEW P \in SUBSET Processes, NEW c, NEW d, NEW at, NEW f,
         PreparedOf(q, hosts, P, c, d, at, f)
  PROVE  Lists(HostPart(q, hosts), HostMetrics(hosts, c, d, at, f))
<1> DEFINE R == HostPart(q, hosts)
           T == HostMetrics(hosts, c, d, at, f)
           here == IF hosts = 2 THEN {<<1, 1>>, <<1, 2>>, <<2, 1>>, <<2, 2>>, <<2, 3>>}
                                ELSE {<<1, 1>>, <<1, 2>>}
<1>1. hosts \in {1, 2} /\ DOMAIN q = 1 .. hosts + Cardinality(P) /\ Cardinality(P) \in Nat
  BY ProcessOrder DEF PreparedOf
<1>2. PlacedOf(q, hosts, P, c, d, at, f)
  BY PreparedPlaces
<1>3. WellPlaced(R)
  BY CombinedPass
<1>4. DOMAIN R = 1 .. hosts /\ \A r \in 1 .. hosts : R[r] = q[r] /\ r \in DOMAIN q
  BY <1>1 DEF HostPart
<1>5. ASSUME NEW p \in here PROVE p \in Places(R) /\ At(R, p) = At(q, p)
  <2>1. p \in Places(q) /\ p[1] \in 1 .. hosts
    <3>1. CASE hosts = 2
      <4>1. p \in Places(q)
        BY <1>2, <3>1 DEF PlacedOf
      <4> QED BY <3>1, <4>1
    <3>2. CASE hosts # 2
      <4>1. p \in {<<1, 1>>, <<1, 2>>}
        BY <3>2
      <4>2. p \in Places(q)
        BY <1>2, <4>1 DEF PlacedOf
      <4> QED BY <1>1, <4>1, <4>2
    <3> QED BY <3>1, <3>2
  <2>2. p = <<p[1], p[2]>> /\ p[2] \in DOMAIN q[p[1]].metrics
    BY <2>1, PlaceParts
  <2>3. <<p[1], p[2]>> \in Places(R)
    BY <1>4, <2>1, <2>2, PlacesAre
  <2> QED BY <1>4, <2>1, <2>2, <2>3 DEF At
<1>6. ASSUME NEW p \in Places(R) PROVE p \in here
  <2>1. p = <<p[1], p[2]>> /\ p[1] \in 1 .. hosts /\ p[2] \in DOMAIN R[p[1]].metrics
    BY <1>4, PlaceParts
  <2>2. <<p[1], p[2]>> \in Places(q)
    BY <1>4, <2>1, PlacesAre
  <2>3. ~ p[1] > hosts
    BY <1>1, <2>1
  <2>4. p \in {<<1, 1>>, <<1, 2>>} \/ (hosts = 2 /\ p \in {<<2, 1>>, <<2, 2>>, <<2, 3>>})
    BY <1>2, <2>1, <2>2, <2>3 DEF PlacedOf
  <2> QED BY <2>4
<1>7. /\ At(R, <<1, 1>>) = CPUTimes(c, at) /\ At(R, <<1, 2>>) = MemoryGauge(at, f)
      /\ hosts = 2 => /\ At(R, <<2, 1>>) = DiskIo(d, at, f)
                      /\ At(R, <<2, 2>>) = DiskOperations(d, at)
                      /\ At(R, <<2, 3>>) = DiskTime(d, at)
  BY <1>2, <1>5 DEF PlacedOf
<1>8. /\ CPUTimes(c, at).name = "system.cpu.time"
      /\ MemoryGauge(at, f).name = "system.memory.usage"
      /\ DiskIo(d, at, f).name = "system.disk.io"
      /\ DiskOperations(d, at).name = "system.disk.operations"
      /\ DiskTime(d, at).name = "system.disk.operation_time"
  BY NamesAre, Zenon
<1>9. CASE hosts = 2
  <2>1. T = {CPUTimes(c, at), MemoryGauge(at, f), DiskIo(d, at, f), DiskOperations(d, at), DiskTime(d, at)}
    BY <1>9 DEF HostMetrics, DiskMetrics
  <2>2. Places(R) = {<<1, 1>>, <<1, 2>>, <<2, 1>>, <<2, 2>>, <<2, 3>>}
    BY <1>5, <1>6, <1>9
  <2> HIDE DEF R, T
  <2>3. \A p \in Places(R) : At(R, p) \in T
    BY <1>7, <1>9, <2>1, <2>2
  <2>4. \A m \in T : \E p \in Places(R) : At(R, p) = m
    BY <1>7, <1>9, <2>1, <2>2
  <2>5. \A p, x \in Places(R) : At(R, p).name = At(R, x).name => p = x
    BY <1>7, <1>8, <1>9, <2>2
  <2> QED BY <1>3, <2>3, <2>4, <2>5 DEF Lists, R, T
<1>10. CASE hosts # 2
  <2>1. T = {CPUTimes(c, at), MemoryGauge(at, f)}
    BY <1>10 DEF HostMetrics, DiskMetrics
  <2>2. Places(R) = {<<1, 1>>, <<1, 2>>}
    BY <1>5, <1>6, <1>10
  <2> HIDE DEF R, T
  <2>3. \A p \in Places(R) : At(R, p) \in T
    BY <1>7, <2>1, <2>2
  <2>4. \A m \in T : \E p \in Places(R) : At(R, p) = m
    BY <1>7, <2>1, <2>2
  <2>5. \A p, x \in Places(R) : At(R, p).name = At(R, x).name => p = x
    BY <1>7, <1>8, <2>2
  <2> QED BY <1>3, <2>3, <2>4, <2>5 DEF Lists, R, T
<1> QED BY <1>9, <1>10

(* The same for a pass that changes none of the metrics there were.        *)
LEMMA Joined ==
  ASSUME NEW R, NEW T, Lists(R, T), NEW S, NEW old, NEW added, PassOf(R, S, old, added), NEW U,
         \A p \in Places(R) : old[p[1]][p[2]] = At(R, p),
         Adds(R, added, U), \A m \in T, u \in U : m.name # u.name
  PROVE  Lists(S, T \cup U)
<1> DEFINE f == [m \in T |-> m]
<1>1. DOMAIN f = T /\ (\A m \in T : f[m] = m) /\ {f[m] : m \in T} = T
  OBVIOUS
<1> HIDE DEF f
<1>2. \A p \in Places(R) : old[p[1]][p[2]] = f[At(R, p)]
  BY <1>1 DEF Lists
<1>3. /\ \A m, x \in T : f[m].name = f[x].name => m.name = x.name
      /\ \A m \in T, u \in U : f[m].name # u.name
  BY <1>1
<1>4. Turns(R, old, T, f, U)
  BY <1>1, <1>2, <1>3 DEF Turns
<1>5. Lists(S, {f[m] : m \in T} \cup U)
  BY <1>4, Grown
<1> QED BY <1>1, <1>5

(* The names of the metrics as they come in.                               *)
RawNames == {"system.cpu.time", "system.memory.usage", "system.disk.io", "system.disk.operations",
             "system.disk.operation_time", "process.disk.io"}

RawMetrics(hosts, P, c, d, at, f) == HostMetrics(hosts, c, d, at, f) \cup ProcessMetric(P, d, at)

LEMMA RawNamed ==
  ASSUME NEW hosts, NEW P, NEW c, NEW d, NEW at, NEW f, NEW m \in RawMetrics(hosts, P, c, d, at, f)
  PROVE  m.name \in RawNames
<1>1. m \in {CPUTimes(c, at), MemoryGauge(at, f), DiskIo(d, at, f), DiskOperations(d, at), DiskTime(d, at),
             JoinedIo(P, d, at)}
  BY DEF RawMetrics, HostMetrics, DiskMetrics, ProcessMetric
<1>2. /\ CPUTimes(c, at).name = "system.cpu.time"
      /\ MemoryGauge(at, f).name = "system.memory.usage"
      /\ DiskIo(d, at, f).name = "system.disk.io"
      /\ DiskOperations(d, at).name = "system.disk.operations"
      /\ DiskTime(d, at).name = "system.disk.operation_time"
      /\ JoinedIo(P, d, at).name = "process.disk.io"
  BY NamesAre, Zenon
<1> QED BY <1>1, <1>2 DEF RawNames

LEMMA CombinedLists ==
  ASSUME NEW q, NEW hosts, NEW P \in SUBSET Processes, NEW c, NEW d, NEW at, NEW f,
         PreparedOf(q, hosts, P, c, d, at, f)
  PROVE  Lists(Combined(q, hosts, P, d, at), RawMetrics(hosts, P, c, d, at, f))
<1> DEFINE R == HostPart(q, hosts)
           S == Combined(q, hosts, P, d, at)
           T == HostMetrics(hosts, c, d, at, f)
           U == ProcessMetric(P, d, at)
           old == HostOld(q, hosts)
           added == HostAdded(hosts, P, d, at)
<1>1. hosts \in {1, 2} /\ DOMAIN R = 1 .. hosts
  BY DEF PreparedOf, HostPart
<1>2. Lists(R, T)
  BY HostPartLists
<1>3. PassOf(R, S, old, added)
  BY CombinedPass
<1>4. \A p \in Places(R) : old[p[1]][p[2]] = At(R, p)
  <2> SUFFICES ASSUME NEW p \in Places(R) PROVE old[p[1]][p[2]] = At(R, p)
    OBVIOUS
  <2>1. p[1] \in DOMAIN R /\ At(R, p) = R[p[1]].metrics[p[2]]
    BY PlaceParts
  <2> QED BY <1>1, <2>1 DEF HostOld, HostPart
<1>5. ASSUME NEW r \in DOMAIN R, NEW j \in DOMAIN added[r]
      PROVE  r = 1 /\ j = 1 /\ P # {} /\ added[r][j] = JoinedIo(P, d, at)
  BY <1>1, <1>5 DEF HostAdded
<1>6. ASSUME P # {} PROVE 1 \in DOMAIN R /\ 1 \in DOMAIN added[1] /\ added[1][1] = JoinedIo(P, d, at)
  BY <1>1, <1>6 DEF HostAdded
<1>7. U = IF P = {} THEN {} ELSE {JoinedIo(P, d, at)}
  BY DEF ProcessMetric
<1>8. \A m \in T : m.name # "process.disk.io"
  <2>1. /\ CPUTimes(c, at).name = "system.cpu.time"
        /\ MemoryGauge(at, f).name = "system.memory.usage"
        /\ DiskIo(d, at, f).name = "system.disk.io"
        /\ DiskOperations(d, at).name = "system.disk.operations"
        /\ DiskTime(d, at).name = "system.disk.operation_time"
    BY NamesAre, Zenon
  <2>2. T \subseteq {CPUTimes(c, at), MemoryGauge(at, f), DiskIo(d, at, f), DiskOperations(d, at), DiskTime(d, at)}
    BY DEF HostMetrics, DiskMetrics
  <2> HIDE DEF T
  <2> QED BY <2>1, <2>2
<1>9. JoinedIo(P, d, at).name = "process.disk.io"
  BY NamesAre, Zenon
<1> HIDE DEF R, S, T, U, old, added
<1>10. Adds(R, added, U) /\ \A m \in T, u \in U : m.name # u.name
  BY <1>5, <1>6, <1>7, <1>8, <1>9 DEF Adds
<1>11. Lists(S, T \cup U)
  BY <1>2, <1>3, <1>4, <1>10, Joined
<1> QED BY <1>11 DEF RawMetrics, S, T, U

(* The metrics after splitReadWriteBytesMetrics.                           *)
Reads(T) == {ReadPart(m) : m \in T}
Writes(T) == {splitReadWriteBytesMetric(m, "write") : m \in {m \in T : m.name \in metricsToSplit}}

LEMMA PartNames ==
  ASSUME NEW m, NEW x, m.name \in RawNames, x.name \in RawNames
  PROVE  /\ ReadPart(m).name = ReadPart(x).name => m.name = x.name
         /\ m.name \in metricsToSplit /\ x.name \in metricsToSplit =>
              /\ ReadPart(m).name # splitReadWriteBytesMetric(x, "write").name
              /\ splitReadWriteBytesMetric(m, "write").name = splitReadWriteBytesMetric(x, "write").name
                   => m.name = x.name
         /\ m.name \notin metricsToSplit /\ x.name \in metricsToSplit =>
              ReadPart(m).name # splitReadWriteBytesMetric(x, "write").name
         /\ ReadPart(m).name \notin Derived
         /\ m.name \in metricsToSplit => splitReadWriteBytesMetric(m, "write").name \notin Derived
<1>1. \A y : y.name \in metricsToSplit =>
         /\ splitReadWriteBytesMetric(y, "write").name = SplitName(y.name, "write")
         /\ ReadPart(y).name = SplitName(y.name, "read")
  BY DEF splitReadWriteBytesMetric, ReadPart, MetricOf
<1>2. \A y : y.name \notin metricsToSplit => ReadPart(y).name = y.name
  BY DEF ReadPart
<1>3. ASSUME NEW y, y.name \in RawNames
      PROVE  \/ /\ y.name \notin metricsToSplit /\ ReadPart(y).name = y.name
                /\ y.name \in {"system.cpu.time", "system.memory.usage", "system.disk.operations",
                               "system.disk.operation_time"}
             \/ /\ y.name = "system.disk.io" /\ y.name \in metricsToSplit
                /\ ReadPart(y).name = "system.disk.read_io"
                /\ splitReadWriteBytesMetric(y, "write").name = "system.disk.write_io"
             \/ /\ y.name = "process.disk.io" /\ y.name \in metricsToSplit
                /\ ReadPart(y).name = "process.disk.read_io"
                /\ splitReadWriteBytesMetric(y, "write").name = "process.disk.write_io"
  <2>1. CASE y.name \in metricsToSplit
    <3>1. y.name \in {"system.disk.io", "process.disk.io"}
      BY <2>1 DEF metricsToSplit
    <3> QED BY <1>1, <2>1, <3>1, SplitNames
  <2>2. CASE y.name \notin metricsToSplit
    BY <1>2, <1>3, <2>2 DEF RawNames, metricsToSplit
  <2> QED BY <2>1, <2>2
<1> QED BY <1>3 DEF Derived

LEMMA SplitLists ==
  ASSUME NEW R, NEW T, Lists(R, T), \A m \in T : m.name \in RawNames, NEW S,
         PassOf(R, S, ReadParts(R), WriteParts(R))
  PROVE  Lists(S, Reads(T) \cup Writes(T))
<1> DEFINE f == [m \in T |-> ReadPart(m)]
           U == Writes(T)
           old == ReadParts(R)
           added == WriteParts(R)
           write(m) == splitReadWriteBytesMetric(m, "write")
<1>0. /\ WellPlaced(R)
      /\ \A p \in Places(R) : At(R, p) \in T
      /\ \A m \in T : \E p \in Places(R) : At(R, p) = m
      /\ \A p, x \in Places(R) : At(R, p).name = At(R, x).name => p = x
  BY DEF Lists
<1>1. DOMAIN f = T /\ (\A m \in T : f[m] = ReadPart(m)) /\ {f[m] : m \in T} = Reads(T)
  BY DEF Reads
<1> HIDE DEF f
<1>2. \A p \in Places(R) : old[p[1]][p[2]] = f[At(R, p)]
  <2> SUFFICES ASSUME NEW p \in Places(R) PROVE old[p[1]][p[2]] = ReadPart(At(R, p))
    BY <1>0, <1>1
  <2>1. p[1] \in DOMAIN R /\ p[2] \in DOMAIN R[p[1]].metrics /\ At(R, p) = R[p[1]].metrics[p[2]]
    BY PlaceParts
  <2> QED BY <2>1 DEF ReadParts
<1>3. ASSUME NEW r \in DOMAIN R, NEW j \in DOMAIN added[r]
      PROVE  /\ <<r, j>> \in Places(R) /\ At(R, <<r, j>>).name \in metricsToSplit
             /\ At(R, <<r, j>>) \in T /\ added[r][j] = write(At(R, <<r, j>>))
  <2>1. /\ j \in DOMAIN R[r].metrics /\ R[r].metrics[j].name \in metricsToSplit
        /\ added[r][j] = write(R[r].metrics[j])
    BY <1>3 DEF WriteParts
  <2>2. <<r, j>> \in Places(R)
    BY <2>1, PlacesAre
  <2>3. At(R, <<r, j>>) = R[r].metrics[j]
    BY DEF At
  <2> QED BY <1>0, <2>1, <2>2, <2>3
<1>4. ASSUME NEW p \in Places(R), At(R, p).name \in metricsToSplit
      PROVE  p[1] \in DOMAIN R /\ p[2] \in DOMAIN added[p[1]] /\ added[p[1]][p[2]] = write(At(R, p))
  <2>1. p[1] \in DOMAIN R /\ p[2] \in DOMAIN R[p[1]].metrics /\ At(R, p) = R[p[1]].metrics[p[2]]
    BY PlaceParts
  <2> QED BY <1>4, <2>1 DEF WriteParts
<1>5. \A u \in U : \E m \in T : m.name \in metricsToSplit /\ u = write(m)
  BY DEF Writes
<1>6. \A m \in T : m.name \in metricsToSplit => write(m) \in U
  BY DEF Writes
<1> HIDE DEF U, old, added, write
<1>7. \A r \in DOMAIN R : \A j \in DOMAIN added[r] : added[r][j] \in U
  BY <1>3, <1>6
<1>8. ASSUME NEW u \in U PROVE \E r \in DOMAIN R : \E j \in DOMAIN added[r] : added[r][j] = u
  <2>1. PICK m \in T : m.name \in metricsToSplit /\ u = write(m)
    BY <1>5
  <2>2. PICK p \in Places(R) : At(R, p) = m
    BY <1>0
  <2> QED BY <1>4, <2>1, <2>2
<1>9. ASSUME NEW r \in DOMAIN R, NEW s \in DOMAIN R, NEW j \in DOMAIN added[r], NEW k \in DOMAIN added[s],
             added[r][j].name = added[s][k].name
      PROVE  r = s /\ j = k
  <2> DEFINE m == At(R, <<r, j>>)
             x == At(R, <<s, k>>)
  <2>1. /\ <<r, j>> \in Places(R) /\ m.name \in metricsToSplit /\ m \in T /\ added[r][j] = write(m)
        /\ <<s, k>> \in Places(R) /\ x.name \in metricsToSplit /\ x \in T /\ added[s][k] = write(x)
    BY <1>3
  <2>2. m.name = x.name
    <3>1. m.name \in RawNames /\ x.name \in RawNames
      BY <2>1
    <3>2. write(m).name = write(x).name
      BY <1>9, <2>1
    <3> HIDE DEF m, x
    <3> QED BY <2>1, <3>1, <3>2, PartNames DEF write
  <2>3. <<r, j>> = <<s, k>>
    BY <1>0, <2>1, <2>2
  <2> QED BY <2>3
<1>10. ASSUME NEW m \in T, NEW x \in T, f[m].name = f[x].name PROVE m.name = x.name
  BY <1>1, <1>10, PartNames
<1>11. ASSUME NEW m \in T, NEW u \in U PROVE f[m].name # u.name
  <2>1. PICK x \in T : x.name \in metricsToSplit /\ u = write(x)
    BY <1>5
  <2>2. m.name \in RawNames /\ x.name \in RawNames /\ f[m] = ReadPart(m)
    BY <1>1
  <2> QED BY <2>1, <2>2, PartNames DEF write
<1>12. PassOf(R, S, old, added)
  BY DEF old, added
<1>13. Adds(R, added, U)
  BY <1>7, <1>8, <1>9 DEF Adds
<1>14. Turns(R, old, T, f, U)
  BY <1>1, <1>2, <1>10, <1>11 DEF Turns
<1>15. Lists(S, {f[m] : m \in T} \cup U)
  BY <1>12, <1>13, <1>14, Grown
<1> QED BY <1>1, <1>15 DEF U

(* The metrics after appendUtilizationMetrics.                             *)
LEMMA SharesNamed ==
  ASSUME NEW c, NEW at, NEW f, NEW prev
  PROVE  /\ CPUShares(c, at, prev).name = "system.cpu.utilization"
         /\ MemoryShares(at, f).name = "system.memory.utilization"
<1>1. /\ CPUShares(c, at, prev).name = Utilization("system.cpu.time")
      /\ MemoryShares(at, f).name = Utilization("system.memory.usage")
  BY DEF CPUShares, MemoryShares, calculateUtilizationMetric, CPUTimes, MemoryGauge, MetricOf
<1> QED BY <1>1 DEF Utilization

ShareMetrics(c, at, prev) == {CPUShares(c, at, prev), MemoryShares(at, "none")}

LEMMA SharesLists ==
  ASSUME NEW R, NEW T, Lists(R, T), \A m \in T : m.name \notin Derived, NEW S, NEW c, NEW at, NEW prev,
         PassOf(R, S, Olds(R), Shares(R, c, at, "none", prev)),
         <<1, 1>> \in Places(R), <<1, 2>> \in Places(R)
  PROVE  Lists(S, T \cup ShareMetrics(c, at, prev))
<1> DEFINE U == ShareMetrics(c, at, prev)
           added == Shares(R, c, at, "none", prev)
           cs == CPUShares(c, at, prev)
           ms == MemoryShares(at, "none")
<1>1. \A p \in Places(R) : Olds(R)[p[1]][p[2]] = At(R, p)
  <2> SUFFICES ASSUME NEW p \in Places(R) PROVE Olds(R)[p[1]][p[2]] = At(R, p)
    OBVIOUS
  <2>1. p[1] \in DOMAIN R /\ At(R, p) = R[p[1]].metrics[p[2]]
    BY PlaceParts
  <2> QED BY <2>1 DEF Olds
<1>2. ASSUME NEW r \in DOMAIN R, NEW j \in DOMAIN added[r]
      PROVE  r = 1 /\ j \in {1, 2} /\ added[r][j] = IF j = 1 THEN cs ELSE ms
  <2>1. j \in DOMAIN R[r].metrics /\ <<r, j>> \in {<<1, 1>>, <<1, 2>>}
        /\ added[r][j] = IF j = 1 THEN cs ELSE ms
    BY <1>2 DEF Shares, Utilized
  <2> QED BY <2>1
<1>3. 1 \in DOMAIN R /\ 1 \in DOMAIN R[1].metrics /\ 2 \in DOMAIN R[1].metrics
  BY PlacesAre
<1>4. /\ 1 \in DOMAIN added[1] /\ added[1][1] = cs
      /\ 2 \in DOMAIN added[1] /\ added[1][2] = ms
  BY <1>3 DEF Shares, Utilized
<1>5. cs.name = "system.cpu.utilization" /\ ms.name = "system.memory.utilization"
  BY SharesNamed
<1>6. U = {cs, ms}
  BY DEF ShareMetrics
<1> HIDE DEF U, added, cs, ms
<1>7. Adds(R, added, U)
  BY <1>2, <1>3, <1>4, <1>5, <1>6 DEF Adds
<1>8. \A m \in T, u \in U : m.name # u.name
  BY <1>5, <1>6 DEF Derived
<1>9. PassOf(R, S, Olds(R), added)
  BY DEF added
<1>10. Lists(S, T \cup U)
  BY <1>1, <1>7, <1>8, <1>9, Joined
<1> QED BY <1>10 DEF U

(* The metrics after cleanCPUNumber and addBlankLabel.                     *)
CleanedAll(T) == {Cleaned(m) : m \in T}

LEMMA CleanLists ==
  ASSUME NEW R, NEW T, Lists(R, T)
  PROVE  Lists(cleanCPUNumber(R), CleanedAll(T))
<1> DEFINE f == [m \in T |-> Cleaned(m)]
           S == cleanCPUNumber(R)
<1>1. DOMAIN f = T /\ (\A m \in T : f[m] = Cleaned(m)) /\ {f[m] : m \in T} = CleanedAll(T)
  BY DEF CleanedAll
<1> HIDE DEF f
<1>2. ASSUME NEW p \in Places(R) PROVE Cleans(R)[p[1]][p[2]] = f[At(R, p)]
  <2>1. p[1] \in DOMAIN R /\ p[2] \in DOMAIN R[p[1]].metrics /\ At(R, p) = R[p[1]].metrics[p[2]]
    BY PlaceParts
  <2>2. At(R, p) \in T
    BY DEF Lists
  <2> QED BY <1>1, <2>1, <2>2 DEF Cleans
<1>3. \A m \in T : f[m].name = m.name
  BY <1>1, CleanedName
<1>4. Mapped(R, S, Cleans(R))
  BY CleanPass
<1> HIDE DEF S
<1>5. Lists(S, {f[m] : m \in T})
  BY <1>1, <1>2, <1>3, <1>4, MappedLists
<1> QED BY <1>1, <1>5 DEF S

Blanked(m) ==
  IF m.name \in BlankLabelMetrics
    THEN OnPoints(m, LAMBDA p : Labelled(p, Put(p.attrs, "blank", ""))) ELSE m

BlankedAll(T) == {Blanked(m) : m \in T}

Blanks(R) == [r \in DOMAIN R |-> [k \in DOMAIN R[r].metrics |-> Blanked(R[r].metrics[k])]]

LEMMA BlankPass ==
  ASSUME NEW R
  PROVE  Mapped(R, addBlankLabel(R), Blanks(R))
BY DEF Mapped, addBlankLabel, Blanks, Blanked, OnMetrics

LEMMA BlankedName ==
  ASSUME NEW m
  PROVE  Blanked(m).name = m.name
BY DEF Blanked, OnPoints, MetricOf

LEMMA BlankLists ==
  ASSUME NEW R, NEW T, Lists(R, T)
  PROVE  Lists(addBlankLabel(R), BlankedAll(T))
<1> DEFINE f == [m \in T |-> Blanked(m)]
           S == addBlankLabel(R)
<1>1. DOMAIN f = T /\ (\A m \in T : f[m] = Blanked(m)) /\ {f[m] : m \in T} = BlankedAll(T)
  BY DEF BlankedAll
<1> HIDE DEF f
<1>2. ASSUME NEW p \in Places(R) PROVE Blanks(R)[p[1]][p[2]] = f[At(R, p)]
  <2>1. p[1] \in DOMAIN R /\ p[2] \in DOMAIN R[p[1]].metrics /\ At(R, p) = R[p[1]].metrics[p[2]]
    BY PlaceParts
  <2>2. At(R, p) \in T
    BY DEF Lists
  <2> QED BY <1>1, <2>1, <2>2 DEF Blanks
<1>3. \A m \in T : f[m].name = m.name
  BY <1>1, BlankedName
<1>4. Mapped(R, S, Blanks(R))
  BY BlankPass
<1> HIDE DEF S
<1>5. Lists(S, {f[m] : m \in T})
  BY <1>1, <1>2, <1>3, <1>4, MappedLists
<1> QED BY <1>1, <1>5 DEF S

(* The metrics after appendAverageDiskMetrics.                             *)
AverageMetrics(hosts, d, at, prev) ==
  IF KnownDisks(hosts, prev) = {} THEN {}
  ELSE {averageTimeMetric(AfterDisk(d, at, prev), KnownDisks(hosts, prev))}

LEMMA AverageLists ==
  ASSUME NEW R, NEW T, Lists(R, T), \A m \in T : m.name # "system.disk.average_operation_time", NEW S,
         NEW hosts, NEW d, NEW at, NEW prev, PassOf(R, S, Olds(R), Averages(R, hosts, d, at, prev)),
         hosts = 2 => 2 \in DOMAIN R
  PROVE  Lists(S, T \cup AverageMetrics(hosts, d, at, prev))
<1> DEFINE U == AverageMetrics(hosts, d, at, prev)
           added == Averages(R, hosts, d, at, prev)
           K == KnownDisks(hosts, prev)
           av == averageTimeMetric(AfterDisk(d, at, prev), K)
<1>1. \A p \in Places(R) : Olds(R)[p[1]][p[2]] = At(R, p)
  <2> SUFFICES ASSUME NEW p \in Places(R) PROVE Olds(R)[p[1]][p[2]] = At(R, p)
    OBVIOUS
  <2>1. p[1] \in DOMAIN R /\ At(R, p) = R[p[1]].metrics[p[2]]
    BY PlaceParts
  <2> QED BY <2>1 DEF Olds
<1>2. K # {} => 2 \in DOMAIN R
  BY DEF KnownDisks
<1>3. U = IF K = {} THEN {} ELSE {av}
  BY DEF AverageMetrics
<1>4. av.name = "system.disk.average_operation_time"
  BY DEF averageTimeMetric, MetricOf
<1> HIDE DEF K, av
<1>5. added = [r \in DOMAIN R |-> [j \in IF r = 2 /\ K # {} THEN {1} ELSE {} |-> av]]
  BY DEF Averages, K, av
<1> HIDE DEF added, U
<1>6. \A r \in DOMAIN R : \A j \in DOMAIN added[r] : r = 2 /\ j = 1 /\ K # {} /\ added[r][j] = av
  BY <1>5
<1>7. K # {} => 2 \in DOMAIN R /\ 1 \in DOMAIN added[2] /\ added[2][1] = av
  BY <1>2, <1>5
<1>8. Adds(R, added, U)
  BY <1>3, <1>6, <1>7 DEF Adds
<1>9. \A m \in T, u \in U : m.name # u.name
  BY <1>3, <1>4
<1>10. PassOf(R, S, Olds(R), added)
  BY DEF added
<1>11. Lists(S, T \cup U)
  BY <1>1, <1>8, <1>9, <1>10, Joined
<1> QED BY <1>11 DEF U

(* The direction label is missing if the fault is there and disks are.     *)
LEMMA UndirectedIs ==
  ASSUME NEW R, NEW hosts, hosts \in {1, 2}, NEW P, NEW c, NEW d, NEW at, NEW f,
         Lists(R, RawMetrics(hosts, P, c, d, at, f))
  PROVE  Undirected(R) <=> f = "direction" /\ hosts = 2
<1> DEFINE T == RawMetrics(hosts, P, c, d, at, f)
           io == DiskIo(d, at, f)
           pr == JoinedIo(P, d, at)
           Lacks(m) == \E i \in DOMAIN m.points : ~ Has(m.points[i].attrs, "direction")
<1>1. /\ CPUTimes(c, at).name = "system.cpu.time"
      /\ MemoryGauge(at, f).name = "system.memory.usage"
      /\ DiskIo(d, at, f).name = "system.disk.io"
      /\ DiskOperations(d, at).name = "system.disk.operations"
      /\ DiskTime(d, at).name = "system.disk.operation_time"
      /\ JoinedIo(P, d, at).name = "process.disk.io"
  BY NamesAre, Zenon
<1>2. /\ \A m \in T : m.name \in metricsToSplit => (hosts = 2 /\ m = io) \/ m = pr
      /\ hosts = 2 => io \in T
      /\ io.name \in metricsToSplit
  <2>1. T = {CPUTimes(c, at), MemoryGauge(at, f)} \cup DiskMetrics(hosts, d, at, f) \cup ProcessMetric(P, d, at)
    BY DEF RawMetrics, HostMetrics
  <2>2. DiskMetrics(hosts, d, at, f) = IF hosts = 2 THEN {io, DiskOperations(d, at), DiskTime(d, at)} ELSE {}
    BY DEF DiskMetrics
  <2>3. ProcessMetric(P, d, at) \subseteq {pr}
    BY DEF ProcessMetric
  <2> HIDE DEF T, io, pr
  <2> QED BY <1>1, <2>1, <2>2, <2>3 DEF metricsToSplit, io, pr
<1>3. ~ Lacks(pr)
  <2> SUFFICES ASSUME NEW i \in DOMAIN pr.points PROVE Has(pr.points[i].attrs, "direction")
    OBVIOUS
  <2>1. pr.points[i].attrs = ProcessLabels(i[1], i[2])
    BY DEF JoinedIo, MetricOf, Point
  <2>2. <<"direction", i[2]>> \in pr.points[i].attrs
    BY <2>1 DEF ProcessLabels
  <2>3. <<"direction", i[2]>>[1] = "direction"
    OBVIOUS
  <2> HIDE DEF pr
  <2> QED BY <2>2, <2>3 DEF Has
<1>4. Lacks(io) <=> f = "direction"
  <2> DEFINE key == IF f = "direction" THEN "way" ELSE "direction"
  <2>1. io.points = [i \in OfDisk |-> Point({<<"device", i[1]>>, <<key, i[2]>>}, d[i[2]].ops, at)]
    BY DEF DiskIo, MetricOf
  <2>2. DOMAIN io.points = OfDisk
    BY <2>1
  <2>3. ASSUME NEW i \in OfDisk PROVE Has(io.points[i].attrs, "direction") <=> f # "direction"
    <3>1. io.points[i].attrs = {<<"device", i[1]>>, <<key, i[2]>>}
      <4> HIDE DEF io, key
      <4> QED BY <2>1 DEF Point
    <3>2. <<"device", i[1]>>[1] = "device" /\ <<key, i[2]>>[1] = key
      OBVIOUS
    <3>3. key = "direction" <=> f # "direction"
      OBVIOUS
    <3> HIDE DEF io, key
    <3> QED BY <3>1, <3>2, <3>3 DEF Has
  <2>4. <<"sda", "read">> \in OfDisk
    BY DEF OfDisk, Directions
  <2> HIDE DEF io, key
  <2> QED BY <2>2, <2>3, <2>4
<1>5. Undirected(R) <=> \E p \in Places(R) : At(R, p).name \in metricsToSplit /\ Lacks(At(R, p))
  BY DEF Undirected
<1>6. /\ \A p \in Places(R) : At(R, p) \in T
      /\ \A m \in T : \E p \in Places(R) : At(R, p) = m
  BY DEF Lists
<1> HIDE DEF T, io, pr, Lacks
<1> QED BY <1>2, <1>3, <1>4, <1>5, <1>6

-----------------------------------------------------------------------------
(***************************************************************************)
(* ProcessMetrics: all passes over a batch with the fault f, of which only *)
(* "none" lets it through.                                                 *)
(***************************************************************************)
CombinedBatch(b) == combineProcessMetrics(Prepared(b))
SplitBatch(b) == splitReadWriteBytesMetrics(CombinedBatch(b).rms)
UtilizedBatch(b, prevCPU) == appendUtilizationMetrics(SplitBatch(b).rms, prevCPU)
AveragedBatch(b, prevCPU, prevOps) ==
  appendAverageDiskMetrics(cleanCPUNumber(UtilizedBatch(b, prevCPU).rms), prevOps)
OutcomeOf(b, prevCPU) == Outcome(CombinedBatch(b), SplitBatch(b), UtilizedBatch(b, prevCPU))

SplitMetrics(T) == Reads(T) \cup Writes(T)

SharedMetrics(hosts, P, c, d, at, prevCPU) ==
  CleanedAll(SplitMetrics(RawMetrics(hosts, P, c, d, at, "none")) \cup ShareMetrics(c, at, prevCPU))

FinalMetrics(hosts, P, c, d, at, prevCPU, prevOps) ==
  BlankedAll(SharedMetrics(hosts, P, c, d, at, prevCPU) \cup AverageMetrics(hosts, d, at, prevOps))

OpsOf(prevOps) == prevOps = [k \in DOMAIN prevOps |-> prevOps[k]] /\ DOMAIN prevOps \subseteq OfDisk

Passes(b, hosts, P, c, d, at, f, prevCPU, prevOps) ==
  /\ CombinedBatch(b).outcome # "panic"
  /\ UtilizedBatch(b, prevCPU).prev = setPrevCPUTimes(CPUTimes(c, at))
  /\ AveragedBatch(b, prevCPU, prevOps).prev = IF hosts = 2 THEN AfterDisk(d, at, prevOps) ELSE prevOps
  /\ OutcomeOf(b, prevCPU) \in {"ok", "error"}
  /\ OutcomeOf(b, prevCPU) = "ok" =>
       /\ f = "none"
       /\ Lists(addBlankLabel(AveragedBatch(b, prevCPU, prevOps).rms),
                FinalMetrics(hosts, P, c, d, at, prevCPU, prevOps))

Faulty(f, hosts, P) ==
  f \in Faults \ {"hostless"} /\ (f = "attribute" => P # {}) /\ (f = "direction" => hosts = 2)

LEMMA CombinedBatchIs ==
  ASSUME NEW b, NEW hosts, NEW P \in SUBSET Processes, NEW c, NEW d, NEW at, NEW f,
         BatchOf(b, hosts, P, c, d, at, f), f = "attribute" => P # {}
  PROVE  /\ Watched(CombinedBatch(b).rms, hosts, c, d, at, f)
         /\ CombinedBatch(b).outcome = IF f = "attribute" THEN "error" ELSE "ok"
         /\ f # "attribute" => Lists(CombinedBatch(b).rms, RawMetrics(hosts, P, c, d, at, f))
<1> DEFINE q == Prepared(b)
<1>1. Cardinality(P) \in Nat
  BY ProcessOrder
<1>2. PreparedOf(q, hosts, P, c, d, at, f)
  BY <1>1, PreparedIs
<1> HIDE DEF q
<1>3. combineProcessMetrics(q)
        = IF f = "attribute" THEN [rms |-> q, outcome |-> "error"]
          ELSE [rms |-> Combined(q, hosts, P, d, at), outcome |-> "ok"]
  BY <1>2, CombinePass
<1>4. Watched(q, hosts, c, d, at, f)
  BY <1>2, PreparedWatched
<1>5. Watched(Combined(q, hosts, P, d, at), hosts, c, d, at, f)
  BY <1>2, CombinedWatched
<1>6. Lists(Combined(q, hosts, P, d, at), RawMetrics(hosts, P, c, d, at, f))
  BY <1>2, CombinedLists
<1>7. CombinedBatch(b) = combineProcessMetrics(q)
  BY DEF CombinedBatch, q
<1>8. CASE f = "attribute"
  BY <1>3, <1>4, <1>7, <1>8
<1>9. CASE f # "attribute"
  BY <1>3, <1>5, <1>6, <1>7, <1>9
<1> QED BY <1>8, <1>9

LEMMA SplitBatchIs ==
  ASSUME NEW b, NEW hosts, NEW P \in SUBSET Processes, NEW c, NEW d, NEW at, NEW f,
         BatchOf(b, hosts, P, c, d, at, f), Faulty(f, hosts, P)
  PROVE  /\ Watched(SplitBatch(b).rms, hosts, c, d, at, f)
         /\ SplitBatch(b).outcome \in {"ok", "error"}
         /\ f = "direction" => SplitBatch(b).outcome = "error"
         /\ f = "none" => Lists(SplitBatch(b).rms, SplitMetrics(RawMetrics(hosts, P, c, d, at, f)))
<1> DEFINE R == CombinedBatch(b).rms
           T == RawMetrics(hosts, P, c, d, at, f)
           S == SplitBatch(b).rms
<1>1. /\ Watched(R, hosts, c, d, at, f)
      /\ f # "attribute" => Lists(R, T)
  BY CombinedBatchIs DEF Faulty
<1>2. hosts \in {1, 2}
  BY DEF BatchOf
<1>3. SplitBatch(b) = splitReadWriteBytesMetrics(R)
  BY DEF SplitBatch
<1>4. WellPlaced(R)
  BY <1>1 DEF Watched
<1> HIDE DEF R
<1>5. Watched(S, hosts, c, d, at, f)
  BY <1>1, <1>3, SplitWatched
<1>6. IF Undirected(R)
        THEN S = R /\ SplitBatch(b).outcome = "error"
        ELSE PassOf(R, S, ReadParts(R), WriteParts(R)) /\ SplitBatch(b).outcome = "ok"
  BY <1>3, <1>4, SplitPass
<1>7. f # "attribute" => (Undirected(R) <=> f = "direction" /\ hosts = 2)
  BY <1>1, <1>2, UndirectedIs
<1>8. \A m \in T : m.name \in RawNames
  BY RawNamed
<1> HIDE DEF T, S
<1>9. ASSUME f = "none" PROVE Lists(S, SplitMetrics(T))
  <2>1. Lists(R, T) /\ PassOf(R, S, ReadParts(R), WriteParts(R))
    BY <1>1, <1>6, <1>7, <1>9
  <2> QED BY <1>8, <2>1, SplitLists DEF SplitMetrics
<1>10. f = "direction" => Undirected(R)
  BY <1>7 DEF Faulty
<1>11. /\ SplitBatch(b).outcome \in {"ok", "error"}
       /\ f = "direction" => SplitBatch(b).outcome = "error"
  BY <1>6, <1>10
<1> QED BY <1>5, <1>9, <1>11 DEF S, T

UtilizedFrom(u, hosts, P, c, d, at, f, prevCPU) ==
  /\ Watched(u.rms, hosts, c, d, at, f)
  /\ u.prev = setPrevCPUTimes(CPUTimes(c, at))
  /\ u.failed <=> f = "state"
  /\ f = "none" => Lists(u.rms, SplitMetrics(RawMetrics(hosts, P, c, d, at, "none"))
                                  \cup ShareMetrics(c, at, prevCPU))

LEMMA UtilizedBatchIs ==
  ASSUME NEW b, NEW hosts, NEW P \in SUBSET Processes, NEW c, NEW d, NEW at, NEW f, NEW prevCPU,
         BatchOf(b, hosts, P, c, d, at, f), Faulty(f, hosts, P)
  PROVE  UtilizedFrom(UtilizedBatch(b, prevCPU), hosts, P, c, d, at, f, prevCPU)
<1> DEFINE R == SplitBatch(b).rms
           T == SplitMetrics(RawMetrics(hosts, P, c, d, at, f))
           S == UtilizedBatch(b, prevCPU).rms
<1>1. Watched(R, hosts, c, d, at, f) /\ (f = "none" => Lists(R, T))
  BY SplitBatchIs
<1>2. UtilizedBatch(b, prevCPU) = appendUtilizationMetrics(R, prevCPU)
  BY DEF UtilizedBatch
<1> HIDE DEF R
<1>3. Watched(S, hosts, c, d, at, f)
  BY <1>1, <1>2, UtilizationWatched
<1>4. /\ UtilizedBatch(b, prevCPU).prev = setPrevCPUTimes(CPUTimes(c, at))
      /\ UtilizedBatch(b, prevCPU).failed <=> f = "state"
      /\ PassOf(R, S, Olds(R), Shares(R, c, at, f, prevCPU))
  BY <1>1, <1>2, UtilizationPass
<1>5. <<1, 1>> \in Places(R) /\ <<1, 2>> \in Places(R)
  BY <1>1 DEF Watched, Only
<1>6. ASSUME NEW m \in T PROVE m.name \notin Derived
  <2> DEFINE W == RawMetrics(hosts, P, c, d, at, f)
  <2>1. \/ \E x \in W : m = ReadPart(x)
        \/ \E x \in W : x.name \in metricsToSplit /\ m = splitReadWriteBytesMetric(x, "write")
    BY <1>6 DEF SplitMetrics, Reads, Writes
  <2>2. \A x \in W : x.name \in RawNames
    BY RawNamed
  <2> HIDE DEF W
  <2> QED BY <2>1, <2>2, PartNames
<1> HIDE DEF T, S
<1>7. ASSUME f = "none" PROVE Lists(S, T \cup ShareMetrics(c, at, prevCPU))
  <2>1. PassOf(R, S, Olds(R), Shares(R, c, at, "none", prevCPU))
    BY <1>4, <1>7
  <2> QED BY <1>1, <1>5, <1>6, <1>7, <2>1, SharesLists
<1> QED BY <1>3, <1>4, <1>7 DEF UtilizedFrom, S, T

LEMMA CleanFormed ==
  ASSUME NEW R
  PROVE  Formed(cleanCPUNumber(R)) /\ DOMAIN cleanCPUNumber(R) = DOMAIN R
BY DEF Formed, cleanCPUNumber, OnMetrics

LEMMA AverageNamed ==
  ASSUME NEW hosts, NEW P, NEW c, NEW d, NEW at, NEW prevCPU,
         NEW m \in SharedMetrics(hosts, P, c, d, at, prevCPU)
  PROVE  m.name # "system.disk.average_operation_time"
<1> DEFINE W == RawMetrics(hosts, P, c, d, at, "none")
           T == SplitMetrics(W) \cup ShareMetrics(c, at, prevCPU)
<1>1. PICK x \in T : m = Cleaned(x)
  BY DEF SharedMetrics, CleanedAll
<1>2. m.name = x.name
  BY <1>1, CleanedName
<1>3. CASE x \in SplitMetrics(W)
  <2>1. \/ \E y \in W : x = ReadPart(y)
        \/ \E y \in W : y.name \in metricsToSplit /\ x = splitReadWriteBytesMetric(y, "write")
    BY <1>3 DEF SplitMetrics, Reads, Writes
  <2>2. \A y \in W : y.name \in RawNames
    BY RawNamed
  <2> HIDE DEF W
  <2>3. x.name \notin Derived
    BY <2>1, <2>2, PartNames
  <2> QED BY <1>2, <2>3 DEF Derived
<1>4. CASE x \in ShareMetrics(c, at, prevCPU)
  <2>1. x.name \in {"system.cpu.utilization", "system.memory.utilization"}
    BY <1>4, SharesNamed DEF ShareMetrics
  <2> QED BY <1>2, <2>1
<1> QED BY <1>1, <1>3, <1>4

AveragedAs(averaged, hosts, P, c, d, at, f, prevCPU, prevOps) ==
  /\ averaged.prev = IF hosts = 2 THEN AfterDisk(d, at, prevOps) ELSE prevOps
  /\ f = "none" => Lists(averaged.rms, SharedMetrics(hosts, P, c, d, at, prevCPU)
                                         \cup AverageMetrics(hosts, d, at, prevOps))

LEMMA AveragedBatchIs ==
  ASSUME NEW b, NEW hosts, NEW P \in SUBSET Processes, NEW c, NEW d, NEW at, NEW f, NEW prevCPU, NEW prevOps,
         BatchOf(b, hosts, P, c, d, at, f), Faulty(f, hosts, P), OpsOf(prevOps)
  PROVE  AveragedAs(AveragedBatch(b, prevCPU, prevOps), hosts, P, c, d, at, f, prevCPU, prevOps)
<1> DEFINE R == UtilizedBatch(b, prevCPU).rms
           Q == cleanCPUNumber(R)
           T == SplitMetrics(RawMetrics(hosts, P, c, d, at, "none")) \cup ShareMetrics(c, at, prevCPU)
           U == SharedMetrics(hosts, P, c, d, at, prevCPU)
           S == AveragedBatch(b, prevCPU, prevOps).rms
<1>0. UtilizedFrom(UtilizedBatch(b, prevCPU), hosts, P, c, d, at, f, prevCPU)
  BY UtilizedBatchIs
<1>1. Watched(R, hosts, c, d, at, f) /\ (f = "none" => Lists(R, T))
  BY <1>0 DEF UtilizedFrom
<1>2. AveragedBatch(b, prevCPU, prevOps) = appendAverageDiskMetrics(Q, prevOps)
  BY DEF AveragedBatch
<1>3. U = CleanedAll(T)
  BY DEF SharedMetrics
<1>4. hosts \in {1, 2}
  BY DEF BatchOf
<1> HIDE DEF R, T, U, S
<1>5. DisksWatched(Q, hosts, d, at) /\ Formed(Q)
  BY <1>1, CleanWatched, CleanFormed
<1>6. f = "none" => Lists(Q, U)
  BY <1>1, <1>3, CleanLists
<1> HIDE DEF Q
<1>7. ASSUME hosts = 2 PROVE 2 \in DOMAIN Q
  <2>1. <<2, 2>> \in Places(Q)
    BY <1>5, <1>7 DEF DisksWatched, Only
  <2> QED BY <2>1, PlacesAre
<1>8. prevOps = [k \in DOMAIN prevOps |-> prevOps[k]] /\ DOMAIN prevOps \subseteq OfDisk
  BY DEF OpsOf
<1>9. /\ appendAverageDiskMetrics(Q, prevOps).prev = IF hosts = 2 THEN AfterDisk(d, at, prevOps) ELSE prevOps
      /\ PassOf(Q, appendAverageDiskMetrics(Q, prevOps).rms, Olds(Q), Averages(Q, hosts, d, at, prevOps))
  BY <1>4, <1>5, <1>7, <1>8, AveragePass
<1>10. PassOf(Q, S, Olds(Q), Averages(Q, hosts, d, at, prevOps))
  BY <1>2, <1>9 DEF S
<1>11. \A m \in U : m.name # "system.disk.average_operation_time"
  BY AverageNamed DEF U
<1>12. ASSUME f = "none" PROVE Lists(S, U \cup AverageMetrics(hosts, d, at, prevOps))
  <2>1. Lists(Q, U)
    BY <1>6, <1>12
  <2> QED BY <1>7, <1>10, <1>11, <2>1, AverageLists
<1>13. AveragedBatch(b, prevCPU, prevOps).prev = IF hosts = 2 THEN AfterDisk(d, at, prevOps) ELSE prevOps
  BY <1>2, <1>9
<1> QED BY <1>12, <1>13 DEF AveragedAs, S, U

LEMMA PassesIs ==
  ASSUME NEW b, NEW hosts, NEW P \in SUBSET Processes, NEW c, NEW d, NEW at, NEW f, NEW prevCPU, NEW prevOps,
         BatchOf(b, hosts, P, c, d, at, f), Faulty(f, hosts, P), OpsOf(prevOps)
  PROVE  Passes(b, hosts, P, c, d, at, f, prevCPU, prevOps)
<1> DEFINE A == AveragedBatch(b, prevCPU, prevOps)
           U == UtilizedBatch(b, prevCPU)
           V == SharedMetrics(hosts, P, c, d, at, prevCPU) \cup AverageMetrics(hosts, d, at, prevOps)
<1>1. CombinedBatch(b).outcome = IF f = "attribute" THEN "error" ELSE "ok"
  BY CombinedBatchIs DEF Faulty
<1>2. f = "direction" => SplitBatch(b).outcome = "error"
  BY SplitBatchIs
<1>3. /\ UtilizedBatch(b, prevCPU).prev = setPrevCPUTimes(CPUTimes(c, at))
      /\ UtilizedBatch(b, prevCPU).failed <=> f = "state"
  <2>1. UtilizedFrom(UtilizedBatch(b, prevCPU), hosts, P, c, d, at, f, prevCPU)
    BY UtilizedBatchIs
  <2> QED BY <2>1 DEF UtilizedFrom
<1>4. /\ A.prev = IF hosts = 2 THEN AfterDisk(d, at, prevOps) ELSE prevOps
      /\ f = "none" => Lists(A.rms, V)
  <2>1. AveragedAs(A, hosts, P, c, d, at, f, prevCPU, prevOps)
    BY AveragedBatchIs
  <2> HIDE DEF A
  <2> QED BY <2>1 DEF AveragedAs
<1> HIDE DEF A, U, V
<1>5. OutcomeOf(b, prevCPU) = IF CombinedBatch(b).outcome = "ok" /\ SplitBatch(b).outcome = "ok" /\ ~ U.failed
                                THEN "ok" ELSE "error"
  BY DEF OutcomeOf, Outcome, U
<1>6. OutcomeOf(b, prevCPU) = "ok" => f = "none"
  BY <1>1, <1>2, <1>3, <1>5 DEF Faulty, Faults, U
<1>7. f = "none" => Lists(addBlankLabel(A.rms), BlankedAll(V))
  BY <1>4, BlankLists
<1>8. OutcomeOf(b, prevCPU) = "ok" => Lists(addBlankLabel(A.rms), FinalMetrics(hosts, P, c, d, at, prevCPU, prevOps))
  BY <1>6, <1>7 DEF FinalMetrics, V
<1>9. OutcomeOf(b, prevCPU) \in {"ok", "error"}
  BY <1>5
<1>10. CombinedBatch(b).outcome # "panic"
  BY <1>1
<1> QED BY <1>3, <1>4, <1>6, <1>8, <1>9, <1>10 DEF Passes, A

-----------------------------------------------------------------------------
(***************************************************************************)
(* The sum of the values of a function at some places, and the recursion   *)
(* behind it, which takes one place out at a time.                         *)
(***************************************************************************)
One(T) == CHOOSE x \in T : TRUE

TakesOneOut(f, q, S) ==
  \A T \in SUBSET S : f[T] = IF T = {} THEN 0 ELSE q[One(T)] + f[T \ {One(T)}]

LEMMA SumSteps ==
  ASSUME NEW q, NEW S, IsFiniteSet(S), \A i \in S : q[i] \in Int
  PROVE  \E f : f \in [SUBSET S -> Int] /\ TakesOneOut(f, q, S) /\ SumFunctionOnSet(q, S) = f[S]
<1> DEFINE Body(g, T) == IF T = {} THEN 0 ELSE q[One(T)] + g[T \ {One(T)}]
           N == Cardinality(S)
           Upto(n) == \E g \in [SUBSET S -> Int] :
                        \A T \in SUBSET S : Cardinality(T) <= n => g[T] = Body(g, T)
           f == CHOOSE f : f = [T \in SUBSET S |-> Body(f, T)]
<1>1. SumFunctionOnSet(q, S) = f[S]
  BY DEF One, SumFunctionOnSet, FoldFunctionOnSet, MapThenFoldSet
<1>2. N \in Nat /\ \A T \in SUBSET S : IsFiniteSet(T) /\ Cardinality(T) \in 0 .. N
  BY FS_CardinalityType, FS_Subset
<1>3. \A n \in 0 .. N : Upto(n)
  <2> DEFINE Bad == {n \in 0 .. N : ~Upto(n)}
  <2> SUFFICES ASSUME Bad # {} PROVE FALSE
    OBVIOUS
  <2>1. Bad \subseteq Nat
    BY <1>2
  <2>2. PICK m \in Bad : \A k \in Bad : m <= k
    <3> HIDE DEF Bad
    <3> QED BY <2>1, LeastNumber
  <2>3. m \in 0 .. N /\ ~Upto(m)
    BY <2>2
  <2>4. PICK h \in [SUBSET S -> Int] : \A T \in SUBSET S : Cardinality(T) < m => h[T] = Body(h, T)
    <3>1. CASE m = 0
      <4>1. [T \in SUBSET S |-> 0] \in [SUBSET S -> Int]
        OBVIOUS
      <4>2. \A T \in SUBSET S : ~(Cardinality(T) < m)
        BY <1>2, <3>1
      <4> HIDE DEF Body
      <4> QED
        BY <4>1, <4>2
    <3>2. CASE m # 0
      <4>1. m - 1 \in 0 .. N /\ m - 1 < m
        BY <1>2, <2>3, <3>2
      <4>2. m - 1 \notin Bad
        <5>1. m - 1 \in Bad => m <= m - 1
          <6> HIDE DEF Bad
          <6> QED BY <2>2
        <5>2. m \in Nat
          BY <1>2, <2>3
        <5> HIDE DEF Bad
        <5> QED BY <5>1, <5>2
      <4>3. Upto(m - 1)
        <5> HIDE DEF Upto
        <5> QED BY <4>1, <4>2
      <4>4. \A T \in SUBSET S : Cardinality(T) < m => Cardinality(T) <= m - 1
        BY <1>2, <2>3
      <4> HIDE DEF Body
      <4> QED
        BY <4>3, <4>4
    <3> QED
      BY <3>1, <3>2
  <2> DEFINE g == [T \in SUBSET S |-> IF Cardinality(T) = m THEN Body(h, T) ELSE h[T]]
  <2>5. \A T \in SUBSET S : T # {} =>
          One(T) \in T /\ T \ {One(T)} \in SUBSET S /\ Cardinality(T \ {One(T)}) = Cardinality(T) - 1
    <3> SUFFICES ASSUME NEW T \in SUBSET S, T # {}
                 PROVE  One(T) \in T /\ T \ {One(T)} \in SUBSET S
                        /\ Cardinality(T \ {One(T)}) = Cardinality(T) - 1
      OBVIOUS
    <3>1. One(T) \in T
      BY DEF One
    <3> QED
      BY <1>2, <3>1, FS_RemoveElement
  <2>6. ASSUME NEW T \in SUBSET S PROVE Body(h, T) \in Int
    <3>1. CASE T = {}
      BY <3>1
    <3>2. CASE T # {}
      <4>1. q[One(T)] \in Int /\ h[T \ {One(T)}] \in Int
        BY <2>5, <3>2
      <4> QED
        BY <3>2, <4>1
    <3> QED
      BY <3>1, <3>2
  <2>7. g \in [SUBSET S -> Int]
    BY <2>4, <2>6
  <2>8. ASSUME NEW T \in SUBSET S, Cardinality(T) <= m PROVE g[T] = Body(g, T)
    <3>1. g[T] = Body(h, T)
      BY <1>2, <2>3, <2>4, <2>8
    <3>2. Body(g, T) = Body(h, T)
      <4>1. CASE T = {}
        BY <4>1
      <4>2. CASE T # {}
        <5>1. T \ {One(T)} \in SUBSET S /\ Cardinality(T \ {One(T)}) # m
          BY <1>2, <2>3, <2>5, <2>8, <4>2
        <5>2. g[T \ {One(T)}] = h[T \ {One(T)}]
          BY <5>1
        <5> QED
          BY <4>2, <5>2
      <4> QED
        BY <4>1, <4>2
    <3> QED
      BY <3>1, <3>2
  <2> HIDE DEF g, Body
  <2>9. Upto(m)
    BY <2>7, <2>8
  <2> QED
    BY <2>3, <2>9
<1>4. PICK g \in [SUBSET S -> Int] : \A T \in SUBSET S : g[T] = Body(g, T)
  <2>1. Upto(N)
    <3>1. N \in 0 .. N
      BY <1>2
    <3> HIDE DEF Upto, N
    <3> QED BY <1>3, <3>1
  <2> HIDE DEF Body
  <2> QED
    BY <1>2, <2>1
<1>5. g = [T \in SUBSET S |-> Body(g, T)]
  BY <1>4
<1>6. f = [T \in SUBSET S |-> Body(f, T)]
  BY Zenon, <1>5
<1>7. \A T \in SUBSET S : f[T] = Body(f, T)
  <2> HIDE DEF f, Body
  <2> QED
    BY <1>6
<1>8. f \in [SUBSET S -> Int]
  <2> DEFINE Bad == {T \in SUBSET S : f[T] # g[T]}
  <2>1. Bad = {}
    <3> SUFFICES ASSUME Bad # {} PROVE FALSE
      OBVIOUS
    <3>1. PICK T \in Bad : \A U \in Bad : U \subseteq T => U = T
      <4>1. Bad \subseteq SUBSET S
        OBVIOUS
      <4> HIDE DEF Bad
      <4> QED BY <4>1, LeastSet
    <3>2. T \in SUBSET S /\ f[T] # g[T]
      BY <3>1
    <3>3. T # {}
      BY <1>4, <1>7, <3>2
    <3>4. One(T) \in T
      BY <3>3 DEF One
    <3>5. T \ {One(T)} \notin Bad /\ T \ {One(T)} \in SUBSET S
      <4> HIDE DEF Bad
      <4> QED BY <3>1, <3>2, <3>4
    <3>6. f[T \ {One(T)}] = g[T \ {One(T)}]
      BY <3>5
    <3> HIDE DEF f
    <3>7. Body(f, T) = Body(g, T)
      BY <3>6
    <3> QED
      BY <1>4, <1>7, <3>2, <3>7
  <2>2. \A T \in SUBSET S : f[T] = g[T]
    <3> HIDE DEF f
    <3> QED BY <2>1
  <2> HIDE DEF f, Body
  <2> QED
    BY <1>6, <2>2
<1> HIDE DEF f
<1> QED
  BY <1>1, <1>7, <1>8 DEF TakesOneOut

(* Two such recursions agree wherever the functions do.                    *)
LEMMA SameSums ==
  ASSUME NEW q, NEW S, NEW f, TakesOneOut(f, q, S),
         NEW r, NEW R, NEW g, TakesOneOut(g, r, R),
         IsFiniteSet(S), S \subseteq R, \A i \in S : q[i] = r[i]
  PROVE  f[S] = g[S]
<1> DEFINE Bad == {T \in SUBSET S : f[T] # g[T]}
<1> SUFFICES ASSUME Bad # {} PROVE FALSE
  OBVIOUS
<1>1. PICK T \in Bad : \A U \in Bad : U \subseteq T => U = T
  <2>1. Bad \subseteq SUBSET S
    OBVIOUS
  <2> HIDE DEF Bad
  <2> QED BY <2>1, LeastSet
<1>2. T \in SUBSET S /\ T \in SUBSET R /\ f[T] # g[T]
  BY <1>1
<1>3. /\ f[T] = IF T = {} THEN 0 ELSE q[One(T)] + f[T \ {One(T)}]
      /\ g[T] = IF T = {} THEN 0 ELSE r[One(T)] + g[T \ {One(T)}]
  BY <1>2 DEF TakesOneOut
<1>4. T # {}
  BY <1>2, <1>3
<1>5. One(T) \in T
  BY <1>4 DEF One
<1>6. T \ {One(T)} \notin Bad /\ T \ {One(T)} \in SUBSET S
  <2> HIDE DEF Bad
  <2> QED BY <1>1, <1>2, <1>5
<1>7. f[T \ {One(T)}] = g[T \ {One(T)}] /\ q[One(T)] = r[One(T)]
  BY <1>2, <1>5, <1>6
<1> QED
  BY <1>2, <1>3, <1>4, <1>7

(* Which place is taken out first does not matter.                         *)
AddsUp(f, q, S) ==
  \A W \in SUBSET S : \A z \in S \ W : f[W \cup {z}] = q[z] + f[W]

LEMMA AddOne ==
  ASSUME NEW q, NEW S, IsFiniteSet(S), \A i \in S : q[i] \in Int,
         NEW f, f \in [SUBSET S -> Int], TakesOneOut(f, q, S)
  PROVE  AddsUp(f, q, S)
<1> DEFINE Bad == {T \in SUBSET S : \E x \in S \ T : f[T \cup {x}] # q[x] + f[T]}
<1> SUFFICES ASSUME Bad # {} PROVE FALSE
  BY DEF AddsUp
<1>1. PICK T \in Bad : \A U \in Bad : U \subseteq T => U = T
  <2>1. Bad \subseteq SUBSET S
    OBVIOUS
  <2> HIDE DEF Bad
  <2> QED BY <2>1, LeastSet
<1>2. PICK x \in S \ T : T \in SUBSET S /\ f[T \cup {x}] # q[x] + f[T]
  BY <1>1
<1> DEFINE U == T \cup {x}
           y == One(U)
<1>3. y \in U
  BY DEF One
<1>4. f[U] = q[y] + f[U \ {y}]
  <2>1. U \in SUBSET S /\ U # {}
    BY <1>2
  <2> HIDE DEF U
  <2> QED BY <2>1 DEF TakesOneOut
<1>5. y # x
  <2>1. CASE y = x
    <3>1. U \ {x} = T
      BY <1>2
    <3> HIDE DEF U, y
    <3> QED BY <1>2, <1>4, <2>1, <3>1 DEF U
  <2> QED BY <2>1
<1>6. y \in T
  BY <1>3, <1>5
<1> DEFINE V == T \ {y}
<1>7. V \in SUBSET S /\ V \notin Bad
  <2> HIDE DEF Bad, y
  <2> QED BY <1>1, <1>2, <1>6
<1>8. f[V \cup {x}] = q[x] + f[V] /\ f[V \cup {y}] = q[y] + f[V]
  <2>1. x \in S \ V /\ y \in S \ V
    <3> HIDE DEF y
    <3> QED BY <1>2, <1>6
  <2> HIDE DEF V, y
  <2> QED BY <1>7, <2>1
<1>9. V \cup {y} = T /\ V \cup {x} = U \ {y}
  <2> HIDE DEF y
  <2> QED BY <1>2, <1>5, <1>6
<1>10. /\ q[x] \in Int /\ q[y] \in Int /\ f[V] \in Int
       /\ f[U] = q[y] + f[V \cup {x}] /\ f[T] = q[y] + f[V]
  <2> HIDE DEF U, V, y
  <2> QED BY <1>2, <1>4, <1>6, <1>7, <1>8, <1>9
<1>11. f[U] # q[x] + f[T]
  BY <1>2
<1> HIDE DEF U, V, y
<1> QED
  BY <1>8, <1>10, <1>11

LEMMA SumType ==
  ASSUME NEW q, NEW S, IsFiniteSet(S), \A i \in S : q[i] \in Int
  PROVE  SumFunctionOnSet(q, S) \in Int
<1>1. PICK f : f \in [SUBSET S -> Int] /\ SumFunctionOnSet(q, S) = f[S]
  BY SumSteps
<1> QED
  BY <1>1

LEMMA SumSame ==
  ASSUME NEW q, NEW r, NEW S, IsFiniteSet(S), \A i \in S : q[i] \in Int,
         \A i \in S : q[i] = r[i]
  PROVE  SumFunctionOnSet(q, S) = SumFunctionOnSet(r, S)
<1>1. PICK f : TakesOneOut(f, q, S) /\ SumFunctionOnSet(q, S) = f[S]
  BY SumSteps
<1>2. \A i \in S : r[i] \in Int
  OBVIOUS
<1>3. PICK g : TakesOneOut(g, r, S) /\ SumFunctionOnSet(r, S) = g[S]
  BY <1>2, SumSteps
<1>4. f[S] = g[S]
  BY <1>1, <1>3, SameSums
<1> QED
  BY <1>1, <1>3, <1>4

LEMMA SumAdd ==
  ASSUME NEW q, NEW S, IsFiniteSet(S), NEW x, x \notin S,
         \A i \in S \cup {x} : q[i] \in Int
  PROVE  SumFunctionOnSet(q, S \cup {x}) = SumFunctionOnSet(q, S) + q[x]
<1> DEFINE R == S \cup {x}
<1>1. IsFiniteSet(R)
  BY FS_AddElement
<1>2. PICK f : f \in [SUBSET R -> Int] /\ TakesOneOut(f, q, R) /\ SumFunctionOnSet(q, R) = f[R]
  <2> HIDE DEF R
  <2>1. \A i \in R : q[i] \in Int
    BY DEF R
  <2> QED BY <1>1, <2>1, SumSteps
<1>3. PICK g : TakesOneOut(g, q, S) /\ SumFunctionOnSet(q, S) = g[S]
  BY SumSteps
<1>4. g[S] = f[S]
  BY <1>2, <1>3, SameSums
<1>5. f[R] = q[x] + f[S]
  <2> HIDE DEF R
  <2>1. S \subseteq R /\ x \in R /\ x \notin S
    BY DEF R
  <2>2. \A i \in R : q[i] \in Int
    BY DEF R
  <2>3. f \in [SUBSET R -> Int]
    BY <1>2
  <2>4. TakesOneOut(f, q, R)
    BY <1>2
  <2>5. f[S \cup {x}] = q[x] + f[S]
    <3>1. AddsUp(f, q, R)
      BY <1>1, <2>2, <2>3, <2>4, AddOne
    <3> QED
      BY <2>1, <3>1 DEF AddsUp
  <2> QED
    BY <2>5 DEF R
<1>6. f[S] \in Int /\ q[x] \in Int
  BY <1>2
<1> QED
  BY <1>2, <1>3, <1>4, <1>5, <1>6

-----------------------------------------------------------------------------
(***************************************************************************)
(* What is kept from one batch to the next.                                *)
(***************************************************************************)
CPUType == [CPUs -> [CPUStates -> Nat]]
DiskType == [Directions -> [ops : Nat, time : Nat]]
SampleType == [disk : DiskType, at : Nat]

LastOf(s) == s[Len(s)]

CPULabels(i) == {<<"cpu", i[1]>>, <<"state", i[2]>>}

(* The counters of the last batch, by their labels.                        *)
ByLabels(c) ==
  [a \in {CPULabels(i) : i \in CPUs \X CPUStates} |->
     LET i == CHOOSE i \in CPUs \X CPUStates : CPULabels(i) = a IN c[i[1]][i[2]]]

KeptCPU(s) == IF s = <<>> THEN <<>> ELSE ByLabels(LastOf(s))

LEMMA CPULabelsApart ==
  ASSUME NEW i \in CPUs \X CPUStates, NEW j \in CPUs \X CPUStates, CPULabels(i) = CPULabels(j)
  PROVE  i = j
<1>1. <<"cpu", i[1]>> \in CPULabels(j) /\ <<"state", i[2]>> \in CPULabels(j)
  BY DEF CPULabels
<1>2. <<"cpu", i[1]>> = <<"cpu", j[1]>> /\ <<"state", i[2]>> = <<"state", j[2]>>
  BY <1>1 DEF CPULabels
<1>3. i[1] = j[1] /\ i[2] = j[2]
  BY <1>2
<1> QED BY <1>3

LEMMA CPUPoints ==
  ASSUME NEW c, NEW at
  PROVE  /\ DOMAIN CPUTimes(c, at).points = CPUs \X CPUStates
         /\ \A i \in CPUs \X CPUStates :
              CPUTimes(c, at).points[i] = Point(CPULabels(i), c[i[1]][i[2]], at)
BY DEF CPUTimes, MetricOf, CPULabels

LEMMA PrevCPUIs ==
  ASSUME NEW c, NEW at
  PROVE  setPrevCPUTimes(CPUTimes(c, at)) = ByLabels(c)
<1> DEFINE m == CPUTimes(c, at)
           D == CPUs \X CPUStates
           pick(a) == CHOOSE i \in D : CPULabels(i) = a
<1>1. DOMAIN m.points = D /\ \A i \in D : m.points[i].attrs = CPULabels(i) /\ m.points[i].num = c[i[1]][i[2]]
  <2>1. DOMAIN m.points = D /\ \A i \in D : m.points[i] = Point(CPULabels(i), c[i[1]][i[2]], at)
    BY CPUPoints
  <2> HIDE DEF m, D
  <2>2. ASSUME NEW i \in D PROVE m.points[i].attrs = CPULabels(i) /\ m.points[i].num = c[i[1]][i[2]]
    <3>1. m.points[i] = [attrs |-> CPULabels(i), num |-> c[i[1]][i[2]], den |-> 1, at |-> at]
      BY <2>1 DEF Point
    <3> QED BY <3>1
  <2> QED BY <2>1, <2>2
<1> HIDE DEF m, D
<1>2. {m.points[i].attrs : i \in DOMAIN m.points} = {CPULabels(i) : i \in D}
  BY <1>1
<1>3. ASSUME NEW a \in {CPULabels(i) : i \in D}
      PROVE  m.points[CHOOSE i \in DOMAIN m.points : m.points[i].attrs = a].num = c[pick(a)[1]][pick(a)[2]]
  <2>1. \A i : (i \in DOMAIN m.points /\ m.points[i].attrs = a) <=> (i \in D /\ CPULabels(i) = a)
    BY <1>1
  <2>2. (CHOOSE i \in DOMAIN m.points : m.points[i].attrs = a) = pick(a)
    BY <2>1
  <2>3. \E i \in D : CPULabels(i) = a
    BY <1>3
  <2>4. pick(a) \in D
    BY <2>3
  <2> HIDE DEF pick
  <2> QED BY <1>1, <2>2, <2>4
<1> DEFINE E == {CPULabels(i) : i \in D}
           g == [a \in E |-> m.points[CHOOSE i \in DOMAIN m.points : m.points[i].attrs = a].num]
           h == [a \in E |-> c[pick(a)[1]][pick(a)[2]]]
<1>4. setPrevCPUTimes(m) = g
  BY <1>2 DEF setPrevCPUTimes
<1>5. g = h
  <2> HIDE DEF E, pick
  <2>1. \A a \in E : m.points[CHOOSE i \in DOMAIN m.points : m.points[i].attrs = a].num = c[pick(a)[1]][pick(a)[2]]
    BY <1>3 DEF E
  <2> QED BY <2>1
<1>6. h = ByLabels(c)
  BY DEF ByLabels, D
<1> HIDE DEF g, h
<1> QED BY <1>4, <1>5, <1>6 DEF m

LEMMA ByLabelsIs ==
  ASSUME NEW c, NEW i \in CPUs \X CPUStates
  PROVE  CPULabels(i) \in DOMAIN ByLabels(c) /\ ByLabels(c)[CPULabels(i)] = c[i[1]][i[2]]
<1> DEFINE pick == CHOOSE j \in CPUs \X CPUStates : CPULabels(j) = CPULabels(i)
<1>1. pick \in CPUs \X CPUStates /\ CPULabels(pick) = CPULabels(i)
  OBVIOUS
<1>2. pick = i
  <2> HIDE DEF pick
  <2> QED BY <1>1, CPULabelsApart
<1> DEFINE E == {CPULabels(j) : j \in CPUs \X CPUStates}
           h == [a \in E |-> LET x == CHOOSE x \in CPUs \X CPUStates : CPULabels(x) = a IN c[x[1]][x[2]]]
<1>3. CPULabels(i) \in E
  OBVIOUS
<1>4. ByLabels(c) = h
  BY DEF ByLabels
<1>5. DOMAIN h = E
  OBVIOUS
<1>6. h[CPULabels(i)] = c[pick[1]][pick[2]]
  <2> HIDE DEF E
  <2> QED BY <1>3
<1> HIDE DEF h, E, pick
<1> QED BY <1>2, <1>3, <1>4, <1>5, <1>6

(* Which batches have metrics of disks.                                    *)
LEMMA HasDisksIs ==
  ASSUME NEW b, NEW hosts, NEW P \in SUBSET Processes, NEW c, NEW d, NEW at, NEW f,
         BatchOf(b, hosts, P, c, d, at, f)
  PROVE  HasDisks(b) <=> hosts = 2
<1> DEFINE n == Cardinality(P)
<1>1. hosts \in {1, 2} /\ n \in Nat /\ DOMAIN b = 1 .. hosts + n
  BY ProcessOrder DEF BatchOf
<1> HIDE DEF n
<1>2. ASSUME hosts = 2 PROVE HasDisks(b)
  <2>1. b[2] = [attrs |-> {}, metrics |-> <<DiskIo(d, at, f), DiskOperations(d, at), DiskTime(d, at)>>]
    BY <1>2 DEF BatchOf
  <2>2. 2 \in DOMAIN b
    BY <1>1, <1>2
  <2>3. 2 \in DOMAIN b[2].metrics /\ b[2].metrics[2] = DiskOperations(d, at)
    BY <2>1
  <2>4. <<2, 2>> \in Places(b)
    BY <2>2, <2>3, PlacesAre
  <2>5. At(b, <<2, 2>>) = DiskOperations(d, at)
    BY <2>3 DEF At
  <2>6. At(b, <<2, 2>>).name = "system.disk.operations"
    BY <2>5 DEF DiskOperations, MetricOf
  <2> QED BY <2>4, <2>6 DEF HasDisks
<1>3. ASSUME hosts # 2, NEW p \in Places(b) PROVE At(b, p).name # "system.disk.operations"
  <2>1. p[1] \in DOMAIN b /\ p[2] \in DOMAIN b[p[1]].metrics /\ At(b, p) = b[p[1]].metrics[p[2]]
    BY PlaceParts
  <2>2. CASE p[1] = 1
    <3>1. b[1].metrics = <<CPUTimes(c, at), MemoryUsage(at, f)>>
      BY DEF BatchOf
    <3>2. CPUTimes(c, at).name = "system.cpu.time" /\ MemoryUsage(at, f).name = "system.memory.usage"
      BY DEF CPUTimes, MemoryUsage, MetricOf
    <3>3. p[2] \in {1, 2} /\ At(b, p) \in {CPUTimes(c, at), MemoryUsage(at, f)}
      BY <2>1, <2>2, <3>1
    <3> QED BY <3>2, <3>3
  <2>3. CASE p[1] # 1
    <3>1. p[1] - 1 \in 1 .. n /\ hosts = 1 /\ hosts + (p[1] - 1) = p[1]
      BY <1>1, <1>3, <2>1, <2>3
    <3>2. \A j \in 1 .. n : b[hosts + j] = ProcessResource(SetToSeq(P)[j], d, at, f)
      BY DEF BatchOf, n
    <3>3. b[p[1]] = ProcessResource(SetToSeq(P)[p[1] - 1], d, at, f)
      BY <3>1, <3>2
    <3>4. b[p[1]].metrics = <<ProcessIo(SetToSeq(P)[p[1] - 1], d, at)>>
      BY <3>3 DEF ProcessResource
    <3>5. At(b, p) = ProcessIo(SetToSeq(P)[p[1] - 1], d, at)
      BY <2>1, <3>4
    <3>6. At(b, p).name = "process.disk.io"
      BY <3>5 DEF ProcessIo, MetricOf
    <3> QED BY <3>6
  <2> QED BY <2>2, <2>3
<1> QED BY <1>2, <1>3 DEF HasDisks

(* Without a host the passes end in combineProcessMetrics.                 *)
LEMMA HostlessPanics ==
  ASSUME NEW c, NEW d, NEW at, NEW P \in SUBSET Processes, NEW disks
  PROVE  CombinedBatch(Batch(c, d, at, P, disks, "hostless")).outcome = "panic"
<1> DEFINE b == Batch(c, d, at, P, disks, "hostless")
           n == Cardinality(P)
           ps == SetToSeq(P)
           g == [j \in 1 .. n |-> ProcessResource(ps[j], d, at, "hostless")]
           q == Prepared(b)
           processes == [r \in {r \in DOMAIN q : includesProcessAttributes(q[r])} |-> q[r]]
           others == DOMAIN q \ DOMAIN processes
           bad == \E r \in DOMAIN processes : \E a \in processes[r].attrs :
                    toCloudMonitoringLabel(a[1]) # "" /\ a[2] = UnexpectedType
<1>1. n \in Nat /\ Len(ps) = n /\ ps \in [1 .. n -> P]
  BY ProcessOrder
<1>2. b = g
  <2>1. b = <<>> \o g
    BY <1>1 DEF Batch
  <2>2. g \in Seq({g[j] : j \in 1 .. n})
    <3> HIDE DEF n
    <3> QED BY <1>1
  <2> HIDE DEF g, b
  <2> QED BY <2>1, <2>2
<1>3. \A r \in DOMAIN b : \E p \in Processes : b[r].attrs = ProcessResource(p, d, at, "hostless").attrs
  <2> HIDE DEF b
  <2> SUFFICES ASSUME NEW r \in DOMAIN b
               PROVE  \E p \in Processes : b[r].attrs = ProcessResource(p, d, at, "hostless").attrs
    OBVIOUS
  <2>1. r \in 1 .. n /\ b[r] = ProcessResource(ps[r], d, at, "hostless")
    BY <1>2
  <2>2. ps[r] \in Processes
    <3> HIDE DEF ps, n
    <3> QED BY <1>1, <2>1
  <2> HIDE DEF ps, n, g
  <2> QED BY <2>1, <2>2
<1> HIDE DEF b
<1>4. DOMAIN q = DOMAIN b /\ \A r \in DOMAIN b : q[r].attrs = b[r].attrs
  <2>1. DOMAIN q = DOMAIN b
    BY PreparedAre
  <2>2. ASSUME NEW r \in DOMAIN b PROVE q[r].attrs = b[r].attrs
    <3>1. q[r] = [attrs   |-> b[r].attrs,
                  metrics |-> [k \in DOMAIN b[r].metrics |-> Unversioned(convertToGauge(b[r].metrics[k]))]]
      BY PreparedAre
    <3> HIDE DEF q
    <3> QED BY <3>1
  <2> QED BY <2>1, <2>2
<1> HIDE DEF q
<1>5. ASSUME NEW r \in DOMAIN q
      PROVE  /\ includesProcessAttributes(q[r])
             /\ ~ \E a \in q[r].attrs : toCloudMonitoringLabel(a[1]) # "" /\ a[2] = UnexpectedType
  <2>1. PICK p \in Processes : q[r].attrs = ProcessResource(p, d, at, "hostless").attrs
    BY <1>3, <1>4
  <2>2. <<"process.pid", p>> \in q[r].attrs
    BY <2>1 DEF ProcessResource
  <2>3. <<"process.pid", p>>[1] \in ProcessAttributes
    BY DEF ProcessAttributes
  <2>4. includesProcessAttributes(q[r])
    BY <2>2, <2>3 DEF includesProcessAttributes
  <2>5. ~ \E a \in ProcessResource(p, d, at, "hostless").attrs :
             toCloudMonitoringLabel(a[1]) # "" /\ a[2] = UnexpectedType
    <3>1. \A f : (\E a \in ProcessResource(p, d, at, f).attrs :
                    toCloudMonitoringLabel(a[1]) # "" /\ a[2] = UnexpectedType) <=> f = "attribute"
      BY UnexpectedLabel, Zenon
    <3>2. (\E a \in ProcessResource(p, d, at, "hostless").attrs :
             toCloudMonitoringLabel(a[1]) # "" /\ a[2] = UnexpectedType) <=> "hostless" = "attribute"
      BY <3>1, Zenon
    <3>3. "hostless" # "attribute"
      OBVIOUS
    <3> QED BY <3>2, <3>3, Zenon
  <2> QED BY <2>1, <2>4, <2>5
<1>6. DOMAIN processes = DOMAIN q /\ \A r \in DOMAIN q : processes[r] = q[r]
  BY <1>5
<1>7. others = {}
  <2> HIDE DEF processes
  <2> QED BY <1>6
<1>8. ~ bad
  <2> HIDE DEF processes
  <2> QED BY <1>5, <1>6
<1>9. combineProcessMetrics(q)
        = IF bad THEN [rms |-> q, outcome |-> "error"]
          ELSE IF others = {} THEN [rms |-> q, outcome |-> "panic"]
          ELSE combineProcessMetrics(q)
  BY DEF combineProcessMetrics
<1> HIDE DEF bad, others
<1>10. combineProcessMetrics(q) = [rms |-> q, outcome |-> "panic"]
  BY <1>7, <1>8, <1>9
<1>11. CombinedBatch(b) = combineProcessMetrics(q)
  BY DEF CombinedBatch, q
<1>12. CombinedBatch(b).outcome = "panic"
  BY <1>10, <1>11
<1> QED BY <1>12 DEF b

(* What the counters of a disk add up to over the samples s.               *)
OpsBetween(s, i, d) == s[i].disk[d].ops - s[i - 1].disk[d].ops
TimeBetween(s, i, d) == s[i].disk[d].time - s[i - 1].disk[d].time

PartOf(s, i, d) ==
  IF OpsBetween(s, i, d) = 0 THEN 0
  ELSE ((TimeBetween(s, i, d) * Scale) \div OpsBetween(s, i, d)) * (s[i].at - s[i - 1].at)

PartsOf(s, d) == [i \in 2 .. Len(s) |-> PartOf(s, i, d)]
IntegralOf(s, d) == SumFunction(PartsOf(s, d))

KeptOps(s) ==
  IF s = <<>> THEN <<>>
  ELSE [key \in OfDisk |->
         [operations |-> LastOf(s).disk[key[2]].ops,
          time       |-> Point(DiskLabels(key), LastOf(s).disk[key[2]].time, LastOf(s).at),
          cumAvgTime |-> IntegralOf(s, key[2])]]

(* The counters only grow from sample to sample.                           *)
Growing(s) ==
  \A i \in 2 .. Len(s) : \A d \in Directions : s[i - 1].disk[d].ops <= s[i].disk[d].ops

LEMMA PartType ==
  ASSUME NEW s \in Seq(SampleType), Growing(s), NEW i \in 2 .. Len(s), NEW d \in Directions
  PROVE  PartOf(s, i, d) \in Int
<1>1. s[i] \in SampleType /\ s[i - 1] \in SampleType
  BY ElementOfSeq
<1>2. /\ s[i].disk[d].ops \in Nat /\ s[i].disk[d].time \in Nat /\ s[i].at \in Nat
      /\ s[i - 1].disk[d].ops \in Nat /\ s[i - 1].disk[d].time \in Nat /\ s[i - 1].at \in Nat
  BY <1>1 DEF SampleType, DiskType
<1>3. s[i - 1].disk[d].ops <= s[i].disk[d].ops
  BY DEF Growing
<1> DEFINE o == OpsBetween(s, i, d)
           t == TimeBetween(s, i, d)
           l == s[i].at - s[i - 1].at
<1>4. o \in Nat /\ t \in Int /\ l \in Int /\ Scale \in Nat
  <2> DEFINE o1 == s[i].disk[d].ops
             o0 == s[i - 1].disk[d].ops
             t1 == s[i].disk[d].time
             t0 == s[i - 1].disk[d].time
             l1 == s[i].at
             l0 == s[i - 1].at
  <2>1. o = o1 - o0 /\ t = t1 - t0 /\ l = l1 - l0
    BY DEF OpsBetween, TimeBetween
  <2>2. o1 \in Nat /\ o0 \in Nat /\ t1 \in Nat /\ t0 \in Nat /\ l1 \in Nat /\ l0 \in Nat /\ o0 <= o1
    BY <1>2, <1>3
  <2> HIDE DEF o, t, l, o1, o0, t1, t0, l1, l0
  <2> QED BY <2>1, <2>2, BatchesAssumption
<1>5. PartOf(s, i, d) = IF o = 0 THEN 0 ELSE ((t * Scale) \div o) * l
  BY DEF PartOf
<1> HIDE DEF o, t, l
<1>6. t * Scale \in Int
  BY <1>4
<1> DEFINE x == t * Scale
<1>7. ASSUME o # 0 PROVE x \div o \in Int
  <2> HIDE DEF x
  <2>1. x \in Int /\ o \in Nat /\ o > 0
    BY <1>4, <1>6, <1>7 DEF x
  <2> QED BY <2>1
<1> DEFINE y == x \div o
<1>8. ASSUME o # 0 PROVE y * l \in Int
  <2>1. y \in Int
    BY <1>7, <1>8
  <2> HIDE DEF y
  <2> QED BY <1>4, <2>1
<1> QED BY <1>5, <1>8

LEMMA SumOverEmpty ==
  ASSUME NEW g, DOMAIN g = {}
  PROVE  SumFunction(g) = 0
<1>1. IsFiniteSet({}) /\ \A i \in {} : g[i] \in Int
  BY FS_EmptySet
<1>2. PICK f : TakesOneOut(f, g, {}) /\ SumFunctionOnSet(g, {}) = f[{}]
  BY <1>1, SumSteps
<1> QED BY <1>2 DEF TakesOneOut, SumFunction

(* One more sample adds one part.                                          *)
LEMMA IntegralGrows ==
  ASSUME NEW s \in Seq(SampleType), s # <<>>, NEW x \in SampleType, Growing(Append(s, x)), Growing(s),
         NEW d \in Directions
  PROVE  /\ IntegralOf(s, d) \in Int
         /\ IntegralOf(Append(s, x), d) = IntegralOf(s, d) + PartOf(Append(s, x), Len(s) + 1, d)
<1> DEFINE u == Append(s, x)
           n == Len(s)
           I == 2 .. n
           p == PartsOf(s, d)
           q == PartsOf(u, d)
<1>1. n \in Nat /\ n >= 1 /\ u \in Seq(SampleType) /\ Len(u) = n + 1
  BY EmptySeq, LenProperties
<1>2. \A i \in 1 .. n : u[i] = s[i]
  BY <1>1
<1>3. DOMAIN p = I /\ \A i \in I : p[i] = PartOf(s, i, d)
  BY DEF PartsOf
<1>4. DOMAIN q = 2 .. n + 1 /\ \A i \in 2 .. n + 1 : q[i] = PartOf(u, i, d)
  BY <1>1 DEF PartsOf
<1>5. \A i \in I : PartOf(u, i, d) = PartOf(s, i, d)
  <2> SUFFICES ASSUME NEW i \in I PROVE PartOf(u, i, d) = PartOf(s, i, d)
    OBVIOUS
  <2>1. u[i] = s[i] /\ u[i - 1] = s[i - 1]
    BY <1>1, <1>2
  <2> QED BY <2>1 DEF PartOf, OpsBetween, TimeBetween
<1>6. \A i \in 2 .. n + 1 : PartOf(u, i, d) \in Int
  BY <1>1, PartType
<1> HIDE DEF u, p, q, n
<1>7. IsFiniteSet(I) /\ n + 1 \notin I /\ I \cup {n + 1} = 2 .. n + 1
  <2>1. IsFiniteSet(2 .. n)
    BY <1>1, FS_Interval
  <2>2. n + 1 \notin 2 .. n /\ (2 .. n) \cup {n + 1} = 2 .. n + 1
    BY <1>1
  <2> QED BY <2>1, <2>2
<1> HIDE DEF I
<1>8. /\ \A i \in I : p[i] \in Int /\ q[i] \in Int /\ p[i] = q[i]
      /\ \A i \in I \cup {n + 1} : q[i] \in Int
  BY <1>3, <1>4, <1>5, <1>6, <1>7
<1>9. SumFunctionOnSet(q, I \cup {n + 1}) = SumFunctionOnSet(q, I) + q[n + 1]
  BY <1>7, <1>8, SumAdd
<1>10. SumFunctionOnSet(p, I) = SumFunctionOnSet(q, I)
  BY <1>7, <1>8, SumSame
<1>11. SumFunctionOnSet(p, I) \in Int
  BY <1>7, <1>8, SumType
<1>12. SumFunction(p) = SumFunctionOnSet(p, I) /\ SumFunction(q) = SumFunctionOnSet(q, I \cup {n + 1})
  BY <1>3, <1>4, <1>7 DEF SumFunction
<1>13. q[n + 1] = PartOf(u, n + 1, d)
  BY <1>1, <1>4
<1> QED BY <1>9, <1>10, <1>11, <1>12, <1>13 DEF IntegralOf, u, p, q, n

(* What appendAverageDiskMetrics keeps is what the samples add up to.      *)
LEMMA AfterDiskIs ==
  ASSUME NEW s \in Seq(SampleType), NEW d \in DiskType, NEW at \in Nat,
         Growing(s), Growing(Append(s, [disk |-> d, at |-> at]))
  PROVE  AfterDisk(d, at, KeptOps(s)) = KeptOps(Append(s, [disk |-> d, at |-> at]))
<1> DEFINE x == [disk |-> d, at |-> at]
           u == Append(s, x)
           n == Len(s)
           prev == KeptOps(s)
           new == DiskOp(d, at, prev)
           cum(key) == IF key \in DOMAIN prev THEN Average(new[key], prev[key]) ELSE new[key].cumAvgTime
<1>1. x \in SampleType
  BY DEF SampleType
<1>2. n \in Nat /\ u # <<>> /\ Len(u) = n + 1 /\ LastOf(u) = x /\ u[n + 1] = x
  <2> HIDE DEF x
  <2> QED BY <1>1, LenProperties, AppendProperties DEF LastOf
<1>3. \A key \in OfDisk :
        new[key] = [operations |-> d[key[2]].ops,
                    time       |-> Point(DiskLabels(key), d[key[2]].time, at),
                    cumAvgTime |-> IF key \in DOMAIN prev THEN prev[key].cumAvgTime ELSE 0]
  <2> HIDE DEF prev
  <2> QED BY DEF DiskOp
<1>4. AfterDisk(d, at, prev)
        = [key \in OfDisk |-> [operations |-> new[key].operations, time |-> new[key].time,
                               cumAvgTime |-> cum(key)]]
  <2>1. DOMAIN new = OfDisk
    BY DEF DiskOp
  <2>2. AfterDisk(d, at, prev) = Averaged(new, prev)
    BY DEF AfterDisk
  <2> HIDE DEF new, prev
  <2> QED BY <2>1, <2>2 DEF Averaged
<1>5. KeptOps(u) = [key \in OfDisk |->
                      [operations |-> d[key[2]].ops,
                       time       |-> Point(DiskLabels(key), d[key[2]].time, at),
                       cumAvgTime |-> IntegralOf(u, key[2])]]
  <2>1. x.disk = d /\ x.at = at
    OBVIOUS
  <2> HIDE DEF u, x
  <2> QED BY <1>2, <2>1 DEF KeptOps
<1>6. ASSUME NEW key \in OfDisk PROVE cum(key) = IntegralOf(u, key[2])
  <2>1. key[2] \in Directions
    BY DEF OfDisk
  <2>2. CASE s = <<>>
    <3>1. prev = <<>>
      BY <2>2 DEF KeptOps
    <3>2. key \notin DOMAIN prev
      <4> HIDE DEF prev
      <4> QED BY <3>1
    <3>3. cum(key) = 0
      <4>1. cum(key) = new[key].cumAvgTime
        <5> HIDE DEF new, prev
        <5> QED BY <3>2
      <4>2. new[key] = [operations |-> d[key[2]].ops,
                        time       |-> Point(DiskLabels(key), d[key[2]].time, at),
                        cumAvgTime |-> 0]
        <5> HIDE DEF new, prev
        <5> QED BY <1>3, <3>2
      <4> HIDE DEF cum, new
      <4> QED BY <4>1, <4>2
    <3>4. n = 0
      BY <2>2
    <3>5. DOMAIN PartsOf(u, key[2]) = {}
      <4> HIDE DEF u, n
      <4>1. 2 .. 1 = {} /\ Len(u) = 1
        BY <1>2, <3>4
      <4> QED BY <4>1 DEF PartsOf
    <3>6. IntegralOf(u, key[2]) = 0
      BY <3>5, SumOverEmpty DEF IntegralOf
    <3> QED BY <3>3, <3>6
  <2>3. CASE s # <<>>
    <3> DEFINE l == LastOf(s)
               o == OpsBetween(u, n + 1, key[2])
               t == TimeBetween(u, n + 1, key[2])
    <3>1. prev = [k \in OfDisk |->
                    [operations |-> l.disk[k[2]].ops,
                     time       |-> Point(DiskLabels(k), l.disk[k[2]].time, l.at),
                     cumAvgTime |-> IntegralOf(s, k[2])]]
      BY <2>3 DEF KeptOps
    <3>2. key \in DOMAIN prev
          /\ prev[key] = [operations |-> l.disk[key[2]].ops,
                          time       |-> Point(DiskLabels(key), l.disk[key[2]].time, l.at),
                          cumAvgTime |-> IntegralOf(s, key[2])]
      <4> HIDE DEF prev, l
      <4> QED BY <3>1
    <3>3. n >= 1 /\ u[n] = l
      <4> HIDE DEF x
      <4> QED BY <1>1, <2>3, LenProperties, EmptySeq DEF LastOf
    <3>4. /\ o = d[key[2]].ops - l.disk[key[2]].ops
          /\ t = d[key[2]].time - l.disk[key[2]].time
          /\ PartOf(u, n + 1, key[2]) = IF o = 0 THEN 0 ELSE ((t * Scale) \div o) * (at - l.at)
      <4>1. (n + 1) - 1 = n /\ x.disk = d /\ x.at = at
        BY <1>2
      <4> HIDE DEF u, x, n, l
      <4> QED BY <1>2, <3>3, <4>1 DEF OpsBetween, TimeBetween, PartOf
    <3>5. o >= 0
      <4>1. u[(n + 1) - 1].disk[key[2]].ops <= u[n + 1].disk[key[2]].ops
        <5>1. n + 1 \in 2 .. Len(u)
          BY <1>2, <3>3
        <5> HIDE DEF u, n
        <5> QED BY <2>1, <5>1 DEF Growing, u
      <4>2. (n + 1) - 1 = n
        BY <1>2
      <4>3. l \in SampleType
        BY <1>2, <3>3, ElementOfSeq DEF LastOf
      <4>4. d[key[2]].ops \in Nat /\ l.disk[key[2]].ops \in Nat
        <5> HIDE DEF l
        <5> QED BY <2>1, <4>3 DEF SampleType, DiskType
      <4>5. l.disk[key[2]].ops <= d[key[2]].ops
        <5>1. x.disk = d
          OBVIOUS
        <5> HIDE DEF u, x, n, l
        <5> QED BY <1>2, <3>3, <4>1, <4>2, <5>1
      <4> HIDE DEF l, o
      <4> QED BY <3>4, <4>4, <4>5
    <3>6. /\ new[key].operations = d[key[2]].ops /\ new[key].time.num = d[key[2]].time
          /\ new[key].time.at = at /\ new[key].cumAvgTime = IntegralOf(s, key[2])
          /\ prev[key].operations = l.disk[key[2]].ops /\ prev[key].time.num = l.disk[key[2]].time
          /\ prev[key].time.at = l.at
      <4> HIDE DEF new, prev, l
      <4>1. new[key] = [operations |-> d[key[2]].ops,
                        time       |-> Point(DiskLabels(key), d[key[2]].time, at),
                        cumAvgTime |-> IntegralOf(s, key[2])]
        BY <1>3, <3>2
      <4> QED BY <3>2, <4>1 DEF Point
    <3>7. o \in Int
      <4>1. l \in SampleType
        BY <1>2, <3>3, ElementOfSeq DEF LastOf
      <4> HIDE DEF l, o
      <4> QED BY <2>1, <3>4, <4>1 DEF SampleType, DiskType
    <3> HIDE DEF new, prev, l, o, t, u, n
    <3>8. Average(new[key], prev[key])
            = IF o > 0 THEN IntegralOf(s, key[2]) + ((t * Scale) \div o) * (at - l.at)
                       ELSE IntegralOf(s, key[2])
      BY <3>4, <3>6 DEF Average
    <3>9. /\ IntegralOf(s, key[2]) \in Int
          /\ IntegralOf(u, key[2]) = IntegralOf(s, key[2]) + PartOf(u, n + 1, key[2])
      BY <1>1, <2>1, <2>3, IntegralGrows DEF u, n
    <3>10. cum(key) = Average(new[key], prev[key])
      BY <3>2
    <3>11. CASE o = 0
      BY <3>4, <3>8, <3>9, <3>10, <3>11
    <3>12. CASE o > 0
      <4> DEFINE pt == ((t * Scale) \div o) * (at - l.at)
      <4>1. Average(new[key], prev[key]) = IntegralOf(s, key[2]) + pt
        BY <3>8, <3>12
      <4>2. PartOf(u, n + 1, key[2]) = pt
        BY <3>4, <3>7, <3>12
      <4> HIDE DEF pt
      <4> QED BY <3>9, <3>10, <4>1, <4>2
    <3> QED BY <3>5, <3>7, <3>11, <3>12
  <2> QED BY <2>2, <2>3
<1>7. ASSUME NEW key \in OfDisk
      PROVE  [operations |-> new[key].operations, time |-> new[key].time, cumAvgTime |-> cum(key)]
               = [operations |-> d[key[2]].ops, time |-> Point(DiskLabels(key), d[key[2]].time, at),
                  cumAvgTime |-> IntegralOf(u, key[2])]
  <2>1. new[key].operations = d[key[2]].ops /\ new[key].time = Point(DiskLabels(key), d[key[2]].time, at)
    <3> DEFINE v == IF key \in DOMAIN prev THEN prev[key].cumAvgTime ELSE 0
    <3>1. new[key] = [operations |-> d[key[2]].ops,
                      time       |-> Point(DiskLabels(key), d[key[2]].time, at),
                      cumAvgTime |-> v]
      <4> HIDE DEF new, prev
      <4> QED BY <1>3
    <3> HIDE DEF new, v
    <3> QED BY <3>1
  <2> HIDE DEF new, cum, u
  <2> QED BY <1>6, <2>1
<1> HIDE DEF new, cum, u, prev
<1> QED BY <1>4, <1>5, <1>7 DEF prev, u

-----------------------------------------------------------------------------
(***************************************************************************)
(* The inductive invariant.                                                *)
(***************************************************************************)
HostTypes == now \in Nat /\ cpu \in CPUType /\ disk \in DiskType

BatchMade ==
  batch # None =>
    /\ \E P \in SUBSET Processes, disks \in BOOLEAN, f \in Faults :
         /\ f \in {"attribute", "hostless"} => P # {}
         /\ f = "direction" => disks
         /\ batch = Batch(cpu, disk, now, P, disks, f)
    /\ input = batch /\ output = None

CPUKept == seenCPU \in Seq(CPUType) /\ prevCPUTimeValues = KeptCPU(seenCPU)

OpsKept ==
  /\ samples \in Seq(SampleType)
  /\ prevOp = KeptOps(samples)
  /\ Growing(samples)
  /\ samples # <<>> => \A d \in Directions : LastOf(samples).disk[d].ops <= disk[d].ops

Inductive == HostTypes /\ BatchMade /\ CPUKept /\ OpsKept

LEMMA InductiveInit == Init => Inductive
<1> SUFFICES ASSUME Init PROVE Inductive
  OBVIOUS
<1>1. HostTypes
  BY DEF Init, HostTypes, CPUType, DiskType
<1>2. BatchMade
  BY DEF Init, BatchMade
<1>3. <<>> \in Seq(CPUType) /\ <<>> \in Seq(SampleType) /\ Len(<<>>) = 0
  BY EmptySeq
<1>4. CPUKept
  BY <1>3 DEF Init, CPUKept, KeptCPU
<1>5. Growing(<<>>)
  <2>1. 2 .. 0 = {}
    OBVIOUS
  <2> QED BY <1>3, <2>1 DEF Growing
<1>6. OpsKept
  BY <1>3, <1>5 DEF Init, OpsKept, KeptOps
<1> QED BY <1>1, <1>2, <1>4, <1>6 DEF Inductive

(* A step of the host keeps the invariant.                                 *)
LEMMA InductiveScrape ==
  ASSUME Inductive, Scrape
  PROVE  Inductive'
<1>0. HostTypes /\ CPUKept /\ OpsKept
  BY DEF Inductive
<1>1. now \in Nat /\ cpu \in CPUType /\ disk \in DiskType
  BY <1>0 DEF HostTypes
<1>2. PICK step \in CPUSteps :
        cpu' = [c \in CPUs |-> [s \in CPUStates |-> cpu[c][s] + step[c][s]]]
  BY DEF Scrape
<1>3. PICK dstep \in DiskSteps :
        disk' = [d \in Directions |-> [ops  |-> disk[d].ops + dstep[d].ops,
                                       time |-> disk[d].time + dstep[d].time]]
  BY DEF Scrape
<1>4. step \in CPUType /\ dstep \in DiskType
  BY StepsAssumption DEF CPUType, DiskType
<1>5. cpu' \in CPUType
  <2>1. ASSUME NEW c \in CPUs, NEW s \in CPUStates PROVE cpu[c][s] + step[c][s] \in Nat
    <3>1. cpu[c][s] \in Nat /\ step[c][s] \in Nat
      BY <1>1, <1>4 DEF CPUType
    <3> QED BY <3>1
  <2> QED BY <1>2, <2>1 DEF CPUType
<1>6. \A d \in Directions : /\ disk[d].ops \in Nat /\ disk[d].time \in Nat
                            /\ dstep[d].ops \in Nat /\ dstep[d].time \in Nat
  BY <1>1, <1>4 DEF DiskType
<1>7. disk' \in DiskType /\ \A d \in Directions : disk[d].ops <= disk'[d].ops
  <2>1. ASSUME NEW d \in Directions
        PROVE  /\ disk[d].ops + dstep[d].ops \in Nat /\ disk[d].time + dstep[d].time \in Nat
               /\ disk[d].ops <= disk[d].ops + dstep[d].ops
    <3>1. /\ disk[d].ops \in Nat /\ disk[d].time \in Nat
          /\ dstep[d].ops \in Nat /\ dstep[d].time \in Nat
      BY <1>6
    <3> QED BY <3>1
  <2>2. \A d \in Directions : [ops |-> disk[d].ops + dstep[d].ops, time |-> disk[d].time + dstep[d].time]
                                \in [ops : Nat, time : Nat]
    BY <2>1
  <2>3. disk' \in DiskType
    BY <1>3, <2>2 DEF DiskType
  <2>4. \A d \in Directions : disk'[d].ops = disk[d].ops + dstep[d].ops
    BY <1>3
  <2> QED BY <2>1, <2>3, <2>4
<1>8. now' \in Nat
  BY <1>1 DEF Scrape
<1>9. BatchMade'
  <2>1. PICK P \in SUBSET Processes, disks \in BOOLEAN, f \in Faults :
          /\ f \in {"attribute", "hostless"} => P # {}
          /\ f = "direction" => disks
          /\ batch' = Batch(cpu', disk', now', P, disks, f)
    BY DEF Scrape
  <2>2. input' = batch' /\ output' = None
    BY DEF Scrape
  <2> QED BY <2>1, <2>2 DEF BatchMade
<1>10. UNCHANGED <<prevCPUTimeValues, prevOp, seenCPU, samples>>
  BY DEF Scrape
<1>11. CPUKept'
  BY <1>0, <1>10 DEF CPUKept
<1>12. OpsKept'
  <2>1. samples' = samples /\ prevOp' = prevOp
    BY <1>10
  <2>2. /\ samples \in Seq(SampleType) /\ prevOp = KeptOps(samples) /\ Growing(samples)
        /\ samples # <<>> => \A d \in Directions : LastOf(samples).disk[d].ops <= disk[d].ops
    BY <1>0 DEF OpsKept
  <2>3. ASSUME samples # <<>>, NEW d \in Directions PROVE LastOf(samples).disk[d].ops <= disk'[d].ops
    <3>1. LastOf(samples) \in SampleType
      BY <2>2, <2>3, LenProperties, EmptySeq, ElementOfSeq DEF LastOf
    <3>2. LastOf(samples).disk[d].ops \in Nat
      BY <3>1 DEF SampleType, DiskType
    <3>3. disk'[d].ops \in Nat
      BY <1>7 DEF DiskType
    <3>4. disk[d].ops \in Nat
      BY <1>6
    <3>5. LastOf(samples).disk[d].ops <= disk[d].ops /\ disk[d].ops <= disk'[d].ops
      BY <1>7, <2>2, <2>3
    <3> QED BY <3>2, <3>3, <3>4, <3>5
  <2> QED BY <2>1, <2>2, <2>3 DEF OpsKept
<1> QED BY <1>5, <1>7, <1>8, <1>9, <1>11, <1>12 DEF Inductive, HostTypes

(* A new collector has empty maps and an empty history.                    *)
LEMMA InductiveNew ==
  ASSUME Inductive, newAgentMetricsProcessor
  PROVE  Inductive'
<1>1. HostTypes' /\ BatchMade'
  BY DEF Inductive, HostTypes, BatchMade, newAgentMetricsProcessor, host
<1>2. <<>> \in Seq(CPUType) /\ <<>> \in Seq(SampleType) /\ Len(<<>>) = 0
  BY EmptySeq
<1>3. /\ prevCPUTimeValues' = <<>> /\ prevOp' = <<>> /\ seenCPU' = <<>> /\ samples' = <<>>
  BY DEF newAgentMetricsProcessor
<1>4. CPUKept'
  BY <1>2, <1>3 DEF CPUKept, KeptCPU
<1>5. Growing(<<>>)
  <2>1. 2 .. 0 = {}
    OBVIOUS
  <2> QED BY <1>2, <2>1 DEF Growing
<1>6. OpsKept'
  BY <1>2, <1>3, <1>5 DEF OpsKept, KeptOps
<1> QED BY <1>1, <1>4, <1>6 DEF Inductive

(* What ProcessMetrics does to a batch with a host.                        *)
Sample == [disk |-> disk, at |-> now]

Handled(hosts, P, f) ==
  /\ BatchOf(batch, hosts, P, cpu, disk, now, f)
  /\ prevCPUTimeValues' = ByLabels(cpu)
  /\ prevOp' = IF hosts = 2 THEN AfterDisk(disk, now, prevOp) ELSE prevOp
  /\ seenCPU' = Append(seenCPU, cpu)
  /\ samples' = IF hosts = 2 THEN Append(samples, Sample) ELSE samples
  /\ output' # None =>
       /\ f = "none"
       /\ Lists(output', FinalMetrics(hosts, P, cpu, disk, now, prevCPUTimeValues, prevOp))

LEMMA OpsKeptOps ==
  ASSUME OpsKept
  PROVE  OpsOf(prevOp)
<1>1. prevOp = KeptOps(samples)
  BY DEF OpsKept
<1>2. CASE samples = <<>>
  <2>1. prevOp = <<>>
    BY <1>1, <1>2 DEF KeptOps
  <2> QED BY <2>1 DEF OpsOf
<1>3. CASE samples # <<>>
  <2> DEFINE g == [key \in OfDisk |->
         [operations |-> LastOf(samples).disk[key[2]].ops,
          time       |-> Point(DiskLabels(key), LastOf(samples).disk[key[2]].time, LastOf(samples).at),
          cumAvgTime |-> IntegralOf(samples, key[2])]]
  <2>1. prevOp = g
    BY <1>1, <1>3 DEF KeptOps
  <2>2. g = [key \in DOMAIN g |-> g[key]] /\ DOMAIN g = OfDisk
    OBVIOUS
  <2> HIDE DEF g
  <2> QED BY <2>1, <2>2 DEF OpsOf
<1> QED BY <1>2, <1>3

LEMMA ProcessedIs ==
  ASSUME Inductive, ProcessMetrics
  PROVE  \/ UNCHANGED <<prevCPUTimeValues, prevOp, output, seenCPU, samples>> /\ output = None
         \/ \E hosts \in {1, 2}, P \in SUBSET Processes, f \in Faults : Handled(hosts, P, f)
<1>1. batch # None /\ BatchMade
  BY DEF ProcessMetrics, Inductive
<1>2. PICK P \in SUBSET Processes, disks \in BOOLEAN, f \in Faults :
        /\ f \in {"attribute", "hostless"} => P # {}
        /\ f = "direction" => disks
        /\ batch = Batch(cpu, disk, now, P, disks, f)
  BY <1>1 DEF BatchMade
<1>3. output = None
  BY <1>1 DEF BatchMade
<1> DEFINE C == CombinedBatch(batch)
           U == UtilizedBatch(batch, prevCPUTimeValues)
           A == AveragedBatch(batch, prevCPUTimeValues, prevOp)
           O == OutcomeOf(batch, prevCPUTimeValues)
<1>4. IF C.outcome = "panic"
        THEN UNCHANGED <<prevCPUTimeValues, prevOp, output, seenCPU, samples>>
        ELSE /\ prevCPUTimeValues' = U.prev
             /\ prevOp' = A.prev
             /\ outcome' = O
             /\ output' = IF outcome' = "ok" THEN addBlankLabel(A.rms) ELSE None
             /\ seenCPU' = Append(seenCPU, cpu)
             /\ samples' = IF HasDisks(batch) THEN Append(samples, Sample) ELSE samples
  BY DEF ProcessMetrics, CombinedBatch, SplitBatch, UtilizedBatch, AveragedBatch, OutcomeOf, Prepared, Sample
<1> HIDE DEF C, U, A, O
<1>5. CASE f = "hostless"
  <2>1. C.outcome = "panic"
    BY <1>2, <1>5, HostlessPanics DEF C
  <2> QED BY <1>3, <1>4, <2>1
<1>6. CASE f # "hostless"
  <2> DEFINE hosts == Hosts(disks)
  <2>1. BatchOf(batch, hosts, P, cpu, disk, now, f)
    BY <1>2, <1>6, BatchIs
  <2>2. hosts \in {1, 2} /\ (disks => hosts = 2)
    BY DEF Hosts
  <2> HIDE DEF hosts
  <2>3. Faulty(f, hosts, P)
    BY <1>2, <1>6, <2>2 DEF Faulty
  <2>4. OpsOf(prevOp)
    BY OpsKeptOps DEF Inductive
  <2>5. Passes(batch, hosts, P, cpu, disk, now, f, prevCPUTimeValues, prevOp)
    BY <2>1, <2>3, <2>4, PassesIs
  <2>6. /\ C.outcome # "panic"
        /\ U.prev = setPrevCPUTimes(CPUTimes(cpu, now))
        /\ A.prev = IF hosts = 2 THEN AfterDisk(disk, now, prevOp) ELSE prevOp
        /\ O = "ok" =>
             /\ f = "none"
             /\ Lists(addBlankLabel(A.rms), FinalMetrics(hosts, P, cpu, disk, now, prevCPUTimeValues, prevOp))
    BY <2>5 DEF Passes, C, U, A, O
  <2>7. HasDisks(batch) <=> hosts = 2
    BY <2>1, HasDisksIs
  <2>8. U.prev = ByLabels(cpu)
    BY <2>6, PrevCPUIs
  <2>9. Handled(hosts, P, f)
    BY <1>4, <2>1, <2>6, <2>7, <2>8 DEF Handled
  <2> QED BY <2>2, <2>9
<1> QED BY <1>5, <1>6

LEMMA InductiveProcess ==
  ASSUME Inductive, ProcessMetrics
  PROVE  Inductive'
<1>0. HostTypes /\ CPUKept /\ OpsKept
  BY DEF Inductive
<1>1. UNCHANGED host /\ batch' = None
  BY DEF ProcessMetrics
<1>2. HostTypes' /\ now \in Nat /\ cpu \in CPUType /\ disk \in DiskType
  BY <1>0, <1>1 DEF HostTypes, host
<1>3. BatchMade'
  BY <1>1 DEF BatchMade
<1>4. CASE UNCHANGED <<prevCPUTimeValues, prevOp, output, seenCPU, samples>>
  <2>1. CPUKept'
    BY <1>0, <1>4 DEF CPUKept
  <2>2. OpsKept'
    BY <1>0, <1>1, <1>4 DEF OpsKept, host
  <2> QED BY <1>2, <1>3, <2>1, <2>2 DEF Inductive
<1>5. ASSUME NEW hosts \in {1, 2}, NEW P \in SUBSET Processes, NEW f \in Faults, Handled(hosts, P, f)
      PROVE  Inductive'
  <2>1. /\ prevCPUTimeValues' = ByLabels(cpu) /\ seenCPU' = Append(seenCPU, cpu)
        /\ prevOp' = IF hosts = 2 THEN AfterDisk(disk, now, prevOp) ELSE prevOp
        /\ samples' = IF hosts = 2 THEN Append(samples, Sample) ELSE samples
    BY <1>5 DEF Handled
  <2>2. CPUKept'
    <3>1. seenCPU \in Seq(CPUType)
      BY <1>0 DEF CPUKept
    <3>2. seenCPU' \in Seq(CPUType) /\ seenCPU' # <<>> /\ LastOf(seenCPU') = cpu
      BY <1>2, <2>1, <3>1, AppendProperties DEF LastOf
    <3> QED BY <2>1, <3>2 DEF CPUKept, KeptCPU
  <2>3. disk' = disk
    BY <1>1 DEF host
  <2>4. ASSUME hosts # 2 PROVE OpsKept'
    <3>1. samples' = samples /\ prevOp' = prevOp
      BY <2>1, <2>4
    <3> QED BY <1>0, <2>3, <3>1 DEF OpsKept
  <2>5. ASSUME hosts = 2 PROVE OpsKept'
    <3>1. /\ samples \in Seq(SampleType) /\ prevOp = KeptOps(samples) /\ Growing(samples)
          /\ samples # <<>> => \A d \in Directions : LastOf(samples).disk[d].ops <= disk[d].ops
      BY <1>0 DEF OpsKept
    <3>2. Sample \in SampleType /\ Sample.disk = disk
      BY <1>2 DEF Sample, SampleType
    <3> DEFINE u == Append(samples, Sample)
               n == Len(samples)
    <3>3. u \in Seq(SampleType) /\ u # <<>> /\ Len(u) = n + 1 /\ LastOf(u) = Sample /\ n \in Nat
          /\ u[n + 1] = Sample /\ \A i \in 1 .. n : u[i] = samples[i]
      BY <3>1, <3>2, AppendProperties, LenProperties DEF LastOf
    <3> HIDE DEF u, n
    <3>4. Growing(u)
      <4> SUFFICES ASSUME NEW i \in 2 .. n + 1, NEW d \in Directions
                   PROVE  u[i - 1].disk[d].ops <= u[i].disk[d].ops
        BY <3>3 DEF Growing
      <4>1. CASE i \in 2 .. n
        <5>1. u[i] = samples[i] /\ u[i - 1] = samples[i - 1]
          BY <3>3, <4>1
        <5>2. samples[i - 1].disk[d].ops <= samples[i].disk[d].ops
          BY <3>1, <4>1 DEF Growing, n
        <5> QED BY <5>1, <5>2
      <4>2. CASE i = n + 1
        <5>1. i - 1 = n /\ n \in 1 .. n /\ n >= 1
          BY <3>3, <4>2
        <5>2. u[i - 1] = LastOf(samples) /\ samples # <<>>
          BY <3>3, <5>1, EmptySeq DEF LastOf, n
        <5> QED BY <3>1, <3>2, <3>3, <4>2, <5>2
      <4> QED BY <3>3, <4>1, <4>2
    <3>5. AfterDisk(disk, now, prevOp) = KeptOps(u)
      BY <1>2, <3>1, <3>4, AfterDiskIs DEF u, Sample
    <3>6. \A d \in Directions : LastOf(u).disk[d].ops <= disk[d].ops
      BY <1>2, <3>2, <3>3 DEF DiskType
    <3>7. samples' = u /\ prevOp' = KeptOps(u)
      BY <2>1, <2>5, <3>5 DEF u
    <3>8. /\ samples' \in Seq(SampleType) /\ prevOp' = KeptOps(samples') /\ Growing(samples')
          /\ \A d \in Directions : LastOf(samples').disk[d].ops <= disk'[d].ops
      BY <2>3, <3>3, <3>4, <3>6, <3>7
    <3> QED BY <3>8 DEF OpsKept
  <2> QED BY <1>2, <1>3, <2>2, <2>4, <2>5 DEF Inductive
<1> QED BY <1>4, <1>5, ProcessedIs

LEMMA InductiveNext == Inductive /\ [Next]_vars => Inductive'
<1>1. ASSUME Inductive, UNCHANGED vars PROVE Inductive'
  BY <1>1 DEF vars, host, Inductive, HostTypes, BatchMade, CPUKept, OpsKept
<1> QED BY <1>1, InductiveScrape, InductiveProcess, InductiveNew DEF Next

(* The counters are natural numbers, a batch in flight is one of the       *)
(* receiver's, and the two maps hold what the batches processed since the  *)
(* collector started left there: the CPU counters of the last of them, and *)
(* for each disk its last counters and the integral of the average times   *)
(* (utils_calculate_utilizations.go:40, utils_calculate_average_disk.go:54)*)
THEOREM MapsKeepHistory == Spec => []Inductive
BY InductiveInit, InductiveNext, PTL DEF Spec

-----------------------------------------------------------------------------
(***************************************************************************)
(* The points that a list of metrics consists of.                          *)
(***************************************************************************)
StreamOf(m, p, i) ==
  [resource |-> p[1], metric |-> m.name, kind |-> m.kind, point |-> m.points[i], place |-> <<p[1], p[2], i>>]

LEMMA StreamsAre ==
  ASSUME NEW R, NEW s
  PROVE  s \in Streams(R) <=>
           \E p \in Places(R) : \E i \in DOMAIN At(R, p).points : s = StreamOf(At(R, p), p, i)
BY DEF Streams, StreamOf

LEMMA StreamOfOnly ==
  ASSUME NEW R, NEW p, NEW m, Only(R, p, m), NEW s
  PROVE  (s \in Streams(R) /\ s.metric = m.name) <=> \E i \in DOMAIN m.points : s = StreamOf(m, p, i)
<1>0. p \in Places(R) /\ At(R, p) = m /\ \A x \in Places(R) : At(R, x).name = m.name => x = p
  BY DEF Only
<1>1. ASSUME s \in Streams(R), s.metric = m.name PROVE \E i \in DOMAIN m.points : s = StreamOf(m, p, i)
  <2>1. PICK x \in Places(R) : \E i \in DOMAIN At(R, x).points : s = StreamOf(At(R, x), x, i)
    BY <1>1, StreamsAre
  <2>2. s.metric = At(R, x).name
    BY <2>1 DEF StreamOf
  <2>3. x = p
    BY <1>0, <1>1, <2>2
  <2> QED BY <1>0, <2>1, <2>3
<1>2. ASSUME NEW i \in DOMAIN m.points, s = StreamOf(m, p, i) PROVE s \in Streams(R) /\ s.metric = m.name
  <2>1. s \in Streams(R)
    BY <1>0, <1>2, StreamsAre
  <2>2. s.metric = m.name
    BY <1>2 DEF StreamOf
  <2> QED BY <2>1, <2>2
<1> QED BY <1>1, <1>2

LEMMA ListsOnly ==
  ASSUME NEW R, NEW T, Lists(R, T), NEW m \in T
  PROVE  \E p \in Places(R) : Only(R, p, m)
BY DEF Lists, Only

(* What cleanCPUNumber and addBlankLabel make of labels and of a metric.   *)
TrimmedCPU(v) == CASE v = "cpu0" -> "0" [] v = "cpu1" -> "1" [] OTHER -> v

CleanLabels(a) == IF Has(a, "cpu") THEN Put(a, "cpu", TrimmedCPU(Get(a, "cpu"))) ELSE a
BlankLabels(name, a) == IF name \in BlankLabelMetrics THEN Put(a, "blank", "") ELSE a

BlankPoint(p) == Labelled(p, Put(p.attrs, "blank", ""))

LEMMA CleanedIs ==
  ASSUME NEW m
  PROVE  /\ Cleaned(m).name = m.name /\ Cleaned(m).kind = m.kind
         /\ DOMAIN Cleaned(m).points = DOMAIN m.points
         /\ \A i \in DOMAIN m.points :
              /\ Cleaned(m).points[i].attrs = CleanLabels(m.points[i].attrs)
              /\ Cleaned(m).points[i].num = m.points[i].num
              /\ Cleaned(m).points[i].den = m.points[i].den
<1>1. Cleaned(m) = [name |-> m.name, kind |-> m.kind, monotonic |-> m.monotonic,
                    points |-> [i \in DOMAIN m.points |-> cleanCPUNumberDataPoint(m.points[i])]]
  BY DEF Cleaned, OnPoints, MetricOf
<1>2. ASSUME NEW p
      PROVE  /\ cleanCPUNumberDataPoint(p).attrs = CleanLabels(p.attrs)
             /\ cleanCPUNumberDataPoint(p).num = p.num
             /\ cleanCPUNumberDataPoint(p).den = p.den
  <2>1. cleanCPUNumberDataPoint(p) = IF Has(p.attrs, "cpu")
                                       THEN Labelled(p, Put(p.attrs, "cpu", TrimmedCPU(Get(p.attrs, "cpu"))))
                                       ELSE p
    BY DEF cleanCPUNumberDataPoint, TrimmedCPU
  <2> QED BY <2>1 DEF Labelled, CleanLabels
<1>3. DOMAIN Cleaned(m).points = DOMAIN m.points
      /\ \A i \in DOMAIN m.points : Cleaned(m).points[i] = cleanCPUNumberDataPoint(m.points[i])
  BY <1>1
<1>4. Cleaned(m).name = m.name /\ Cleaned(m).kind = m.kind
  BY <1>1
<1> QED BY <1>2, <1>3, <1>4

LEMMA BlankedIs ==
  ASSUME NEW m
  PROVE  /\ Blanked(m).name = m.name /\ Blanked(m).kind = m.kind
         /\ DOMAIN Blanked(m).points = DOMAIN m.points
         /\ \A i \in DOMAIN m.points :
              /\ Blanked(m).points[i].attrs = BlankLabels(m.name, m.points[i].attrs)
              /\ Blanked(m).points[i].num = m.points[i].num
              /\ Blanked(m).points[i].den = m.points[i].den
<1>1. CASE m.name \in BlankLabelMetrics
  <2>1. Blanked(m) = [name |-> m.name, kind |-> m.kind, monotonic |-> m.monotonic,
                      points |-> [i \in DOMAIN m.points |-> BlankPoint(m.points[i])]]
    BY <1>1 DEF Blanked, OnPoints, MetricOf, BlankPoint
  <2>2. /\ DOMAIN Blanked(m).points = DOMAIN m.points
        /\ \A i \in DOMAIN m.points : Blanked(m).points[i] = BlankPoint(m.points[i])
    BY <2>1
  <2>3. ASSUME NEW p
        PROVE  /\ BlankPoint(p).attrs = Put(p.attrs, "blank", "")
               /\ BlankPoint(p).num = p.num /\ BlankPoint(p).den = p.den
    BY DEF BlankPoint, Labelled
  <2>4. Blanked(m).name = m.name /\ Blanked(m).kind = m.kind
    BY <2>1
  <2> QED BY <1>1, <2>2, <2>3, <2>4 DEF BlankLabels
<1>2. CASE m.name \notin BlankLabelMetrics
  BY <1>2 DEF Blanked, BlankLabels
<1> QED BY <1>1, <1>2

Finished(m) == Blanked(Cleaned(m))
FinishedLabels(name, a) == BlankLabels(name, CleanLabels(a))

LEMMA FinishedIs ==
  ASSUME NEW m
  PROVE  /\ Finished(m).name = m.name /\ Finished(m).kind = m.kind
         /\ DOMAIN Finished(m).points = DOMAIN m.points
         /\ \A i \in DOMAIN m.points :
              /\ Finished(m).points[i].attrs = FinishedLabels(m.name, m.points[i].attrs)
              /\ Finished(m).points[i].num = m.points[i].num
              /\ Finished(m).points[i].den = m.points[i].den
<1> DEFINE x == Cleaned(m)
<1>1. /\ x.name = m.name /\ x.kind = m.kind
      /\ DOMAIN x.points = DOMAIN m.points
      /\ \A i \in DOMAIN m.points :
           /\ x.points[i].attrs = CleanLabels(m.points[i].attrs)
           /\ x.points[i].num = m.points[i].num
           /\ x.points[i].den = m.points[i].den
  BY CleanedIs
<1> HIDE DEF x
<1>2. /\ Blanked(x).name = x.name /\ Blanked(x).kind = x.kind
      /\ DOMAIN Blanked(x).points = DOMAIN x.points
      /\ \A i \in DOMAIN x.points :
           /\ Blanked(x).points[i].attrs = BlankLabels(x.name, x.points[i].attrs)
           /\ Blanked(x).points[i].num = x.points[i].num
           /\ Blanked(x).points[i].den = x.points[i].den
  BY BlankedIs
<1>3. Finished(m) = Blanked(x)
  BY DEF Finished, x
<1> QED BY <1>1, <1>2, <1>3 DEF FinishedLabels

LEMMA FinalIs ==
  ASSUME NEW hosts, NEW P, NEW c, NEW d, NEW at, NEW prevCPU, NEW prevOps, NEW m
  PROVE  m \in FinalMetrics(hosts, P, c, d, at, prevCPU, prevOps) <=>
           \/ \E x \in SplitMetrics(RawMetrics(hosts, P, c, d, at, "none")) : m = Finished(x)
           \/ \E x \in ShareMetrics(c, at, prevCPU) : m = Finished(x)
           \/ \E x \in AverageMetrics(hosts, d, at, prevOps) : m = Blanked(x)
BY DEF FinalMetrics, BlankedAll, SharedMetrics, CleanedAll, Finished

LEMMA SplitNotDerived ==
  ASSUME NEW hosts, NEW P, NEW c, NEW d, NEW at,
         NEW x \in SplitMetrics(RawMetrics(hosts, P, c, d, at, "none"))
  PROVE  x.name \notin Derived
<1> DEFINE W == RawMetrics(hosts, P, c, d, at, "none")
<1>1. \/ \E y \in W : x = ReadPart(y)
      \/ \E y \in W : y.name \in metricsToSplit /\ x = splitReadWriteBytesMetric(y, "write")
  BY DEF SplitMetrics, Reads, Writes
<1>2. \A y \in W : y.name \in RawNames
  BY RawNamed
<1> HIDE DEF W
<1> QED BY <1>1, <1>2, PartNames

-----------------------------------------------------------------------------
(***************************************************************************)
(* UtilizationSinceLastBatch.                                              *)
(***************************************************************************)
LEMMA SumOfTwo ==
  ASSUME NEW g, NEW x, NEW y, x # y, DOMAIN g = {x, y}, g[x] \in Int, g[y] \in Int
  PROVE  SumFunction(g) = g[x] + g[y]
<1>1. IsFiniteSet({}) /\ IsFiniteSet({x})
  BY FS_EmptySet, FS_Singleton
<1>2. {} \cup {x} = {x} /\ {x} \cup {y} = {x, y} /\ x \notin {} /\ y \notin {x}
  OBVIOUS
<1>3. SumFunctionOnSet(g, {}) = 0
  <2>1. PICK f : TakesOneOut(f, g, {}) /\ SumFunctionOnSet(g, {}) = f[{}]
    BY <1>1, SumSteps
  <2> QED BY <2>1 DEF TakesOneOut
<1>4. SumFunctionOnSet(g, {} \cup {x}) = SumFunctionOnSet(g, {}) + g[x]
  BY <1>1, <1>2, SumAdd
<1>5. SumFunctionOnSet(g, {x} \cup {y}) = SumFunctionOnSet(g, {x}) + g[y]
  BY <1>1, <1>2, SumAdd
<1>6. SumFunction(g) = SumFunctionOnSet(g, {x, y})
  BY DEF SumFunction
<1>7. SumFunctionOnSet(g, {x}) = SumFunctionOnSet(g, {}) + g[x]
  BY <1>2, <1>4, Zenon
<1>8. SumFunctionOnSet(g, {x, y}) = SumFunctionOnSet(g, {x}) + g[y]
  BY <1>2, <1>5, Zenon
<1>9. SumFunctionOnSet(g, {x}) = g[x]
  BY <1>3, <1>7
<1>10. SumFunctionOnSet(g, {x, y}) = g[x] + g[y]
  BY <1>8, <1>9
<1> QED BY <1>6, <1>10

(* The points of which the shares are taken.                               *)
UsedFrom(u, c, prev) ==
  /\ DOMAIN u = {i \in CPUs \X CPUStates : CPULabels(i) \in DOMAIN prev}
  /\ \A i \in DOMAIN u : /\ u[i].attrs = CPULabels(i)
                         /\ u[i].num = c[i[1]][i[2]] - prev[CPULabels(i)]

LEMMA UsedCPUPoints ==
  ASSUME NEW c, NEW at, NEW prev
  PROVE  UsedFrom(UsedPoints(CPUTimes(c, at), prev), c, prev)
<1> DEFINE m == CPUTimes(c, at)
           D == CPUs \X CPUStates
           u == UsedPoints(m, prev)
<1>1. m.name = "system.cpu.time"
  BY DEF CPUTimes, MetricOf
<1>2. DOMAIN m.points = D /\ \A i \in D : m.points[i] = Point(CPULabels(i), c[i[1]][i[2]], at)
  BY CPUPoints
<1> HIDE DEF m, D
<1>3. ASSUME NEW i \in D PROVE m.points[i].attrs = CPULabels(i) /\ m.points[i].num = c[i[1]][i[2]]
  <2>1. m.points[i] = [attrs |-> CPULabels(i), num |-> c[i[1]][i[2]], den |-> 1, at |-> at]
    BY <1>2 DEF Point
  <2> QED BY <2>1
<1>4. u = [i \in {i \in DOMAIN m.points : m.points[i].attrs \in DOMAIN prev} |->
             Less(m.points[i], prev[m.points[i].attrs])]
  BY <1>1 DEF UsedPoints, convertPrevCPUTimeToDelta, MetricOf
<1> HIDE DEF u
<1>5. DOMAIN u = {i \in D : CPULabels(i) \in DOMAIN prev}
  BY <1>2, <1>3, <1>4
<1>6. ASSUME NEW i \in DOMAIN u
      PROVE  u[i].attrs = CPULabels(i) /\ u[i].num = c[i[1]][i[2]] - prev[CPULabels(i)]
  <2>1. i \in D
    BY <1>5
  <2>2. u[i] = Less(m.points[i], prev[m.points[i].attrs])
    BY <1>4
  <2>3. u[i].attrs = m.points[i].attrs /\ u[i].num = m.points[i].num - prev[m.points[i].attrs]
    BY <2>2 DEF Less
  <2> QED BY <1>3, <2>1, <2>3
<1>7. UsedFrom(u, c, prev)
  BY <1>5, <1>6 DEF UsedFrom, D
<1> QED BY <1>7 DEF u, m

GroupOf(u, i) == {j \in DOMAIN u : otherLabelsAsKey(u[j].attrs) = otherLabelsAsKey(u[i].attrs)}
NumsOf(u, S) == [j \in S |-> u[j].num]

SharesOf(points, u) ==
  /\ DOMAIN points = DOMAIN u
  /\ \A i \in DOMAIN u : /\ points[i].attrs = u[i].attrs
                         /\ points[i].num = u[i].num
                         /\ points[i].den = SumFunction(NumsOf(u, GroupOf(u, i)))

LEMMA SharesPoints ==
  ASSUME NEW c, NEW at, NEW prev
  PROVE  SharesOf(CPUShares(c, at, prev).points, UsedPoints(CPUTimes(c, at), prev))
<1> DEFINE u == UsedPoints(CPUTimes(c, at), prev)
           m == CPUShares(c, at, prev)
           den(i) == SumFunction(NumsOf(u, GroupOf(u, i)))
<1>1. m.points = calculateUtilizationFromNumberDataPoints(u)
  BY DEF CPUShares, calculateUtilizationMetric, MetricOf
<1>2. calculateUtilizationFromNumberDataPoints(u)
        = [i \in DOMAIN u |-> [attrs |-> u[i].attrs, num |-> u[i].num, den |-> den(i), at |-> u[i].at]]
  BY DEF calculateUtilizationFromNumberDataPoints, GroupOf, NumsOf
<1> HIDE DEF u, m, den
<1>3. DOMAIN m.points = DOMAIN u
      /\ \A i \in DOMAIN u :
           m.points[i] = [attrs |-> u[i].attrs, num |-> u[i].num, den |-> den(i), at |-> u[i].at]
  BY <1>1, <1>2
<1>4. ASSUME NEW i \in DOMAIN u
      PROVE  m.points[i].attrs = u[i].attrs /\ m.points[i].num = u[i].num /\ m.points[i].den = den(i)
  <2>1. m.points[i] = [attrs |-> u[i].attrs, num |-> u[i].num, den |-> den(i), at |-> u[i].at]
    BY <1>3
  <2> QED BY <2>1
<1>5. SharesOf(m.points, u)
  BY <1>3, <1>4 DEF SharesOf, den
<1> QED BY <1>5 DEF u, m

LEMMA NoShares ==
  ASSUME NEW c, NEW at
  PROVE  DOMAIN CPUShares(c, at, <<>>).points = {}
<1> DEFINE u == UsedPoints(CPUTimes(c, at), <<>>)
<1>1. UsedFrom(u, c, <<>>)
  BY UsedCPUPoints
<1>2. SharesOf(CPUShares(c, at, <<>>).points, u)
  BY SharesPoints
<1> HIDE DEF u
<1>3. DOMAIN u = {}
  BY <1>1 DEF UsedFrom
<1> QED BY <1>2, <1>3 DEF SharesOf

Spent(c, old, cpu1, st) == c[cpu1][st] - old[cpu1][st]

SpentIn(points, c, old) ==
  /\ DOMAIN points = CPUs \X CPUStates
  /\ \A i \in CPUs \X CPUStates :
       /\ points[i].attrs = CPULabels(i)
       /\ points[i].num = Spent(c, old, i[1], i[2])
       /\ points[i].den = Spent(c, old, i[1], "user") + Spent(c, old, i[1], "idle")

LEMMA SharesAre ==
  ASSUME NEW c \in CPUType, NEW at, NEW old \in CPUType
  PROVE  SpentIn(CPUShares(c, at, ByLabels(old)).points, c, old)
<1> DEFINE prev == ByLabels(old)
           u == UsedPoints(CPUTimes(c, at), prev)
           m == CPUShares(c, at, prev)
           D == CPUs \X CPUStates
<1>1. \A i \in D : CPULabels(i) \in DOMAIN prev /\ prev[CPULabels(i)] = old[i[1]][i[2]]
  BY ByLabelsIs
<1>2. UsedFrom(u, c, prev)
  BY UsedCPUPoints
<1>3. SharesOf(m.points, u)
  BY SharesPoints
<1> HIDE DEF prev, u, m
<1>4. /\ DOMAIN u = D
      /\ \A i \in D : u[i].attrs = CPULabels(i) /\ u[i].num = Spent(c, old, i[1], i[2])
  <2>1. /\ DOMAIN u = {i \in D : CPULabels(i) \in DOMAIN prev}
        /\ \A i \in DOMAIN u : /\ u[i].attrs = CPULabels(i)
                               /\ u[i].num = c[i[1]][i[2]] - prev[CPULabels(i)]
    BY <1>2 DEF UsedFrom
  <2> HIDE DEF D
  <2> QED BY <1>1, <2>1 DEF Spent
<1>5. \A i \in D : u[i].num \in Int
  <2> SUFFICES ASSUME NEW i \in D PROVE u[i].num \in Int
    OBVIOUS
  <2>1. c[i[1]][i[2]] \in Nat /\ old[i[1]][i[2]] \in Nat
    BY DEF CPUType
  <2> QED BY <1>4, <2>1 DEF Spent
<1>6. ASSUME NEW i \in D
      PROVE  m.points[i].den = Spent(c, old, i[1], "user") + Spent(c, old, i[1], "idle")
  <2> DEFINE G == GroupOf(u, i)
             g == NumsOf(u, G)
             x == <<i[1], "user">>
             y == <<i[1], "idle">>
  <2>1. \A j \in D : otherLabelsAsKey(u[j].attrs) = {<<"cpu", j[1]>>}
    <3> SUFFICES ASSUME NEW j \in D PROVE otherLabelsAsKey(u[j].attrs) = {<<"cpu", j[1]>>}
      OBVIOUS
    <3>1. u[j].attrs = {<<"cpu", j[1]>>, <<"state", j[2]>>}
      BY <1>4 DEF CPULabels
    <3>2. <<"cpu", j[1]>>[1] = "cpu" /\ <<"state", j[2]>>[1] = "state"
      OBVIOUS
    <3> HIDE DEF D
    <3> QED BY <3>1, <3>2 DEF otherLabelsAsKey, Drop
  <2>2. \A j \in D : {<<"cpu", j[1]>>} = {<<"cpu", i[1]>>} <=> j[1] = i[1]
    <3> SUFFICES ASSUME NEW j \in D, {<<"cpu", j[1]>>} = {<<"cpu", i[1]>>} PROVE j[1] = i[1]
      OBVIOUS
    <3>1. <<"cpu", j[1]>> = <<"cpu", i[1]>>
      OBVIOUS
    <3> QED BY <3>1
  <2>3. x \in D /\ y \in D /\ x # y /\ x[1] = i[1] /\ y[1] = i[1] /\ x[2] = "user" /\ y[2] = "idle"
    BY DEF CPUStates
  <2>4. \A j \in D : j[1] = i[1] => j = x \/ j = y
    BY DEF CPUStates
  <2> HIDE DEF D, x, y
  <2>5. G = {x, y}
    <3>1. ASSUME NEW j PROVE j \in G <=> j \in {x, y}
      BY <1>4, <2>1, <2>2, <2>3, <2>4 DEF GroupOf
    <3> QED BY <3>1
  <2>6. DOMAIN g = {x, y} /\ g[x] = u[x].num /\ g[y] = u[y].num
    <3> HIDE DEF G
    <3> QED BY <2>5 DEF NumsOf
  <2>7. m.points[i].den = SumFunction(g)
    BY <1>3, <1>4 DEF SharesOf
  <2> HIDE DEF g
  <2>8. SumFunction(g) = g[x] + g[y]
    BY <1>5, <2>3, <2>6, SumOfTwo
  <2> QED BY <1>4, <2>3, <2>6, <2>7, <2>8
<1>7. \A i \in D : m.points[i].attrs = CPULabels(i) /\ m.points[i].num = Spent(c, old, i[1], i[2])
  BY <1>3, <1>4 DEF SharesOf
<1>8. DOMAIN m.points = D
  BY <1>3, <1>4 DEF SharesOf
<1> HIDE DEF D
<1>9. /\ DOMAIN m.points = D
      /\ \A i \in D :
           /\ m.points[i].attrs = CPULabels(i)
           /\ m.points[i].num = Spent(c, old, i[1], i[2])
           /\ m.points[i].den = Spent(c, old, i[1], "user") + Spent(c, old, i[1], "idle")
  BY <1>6, <1>7, <1>8
<1>10. SpentIn(m.points, c, old)
  BY <1>9 DEF SpentIn, D
<1> QED BY <1>10 DEF m, prev

(* The labels of a share.                                                  *)
LEMMA CPULabelsCleaned ==
  ASSUME NEW i \in CPUs \X CPUStates
  PROVE  CleanLabels(CPULabels(i)) = {<<"cpu", TrimmedCPU(i[1])>>, <<"state", i[2]>>}
<1> DEFINE a == CPULabels(i)
           x == <<"cpu", i[1]>>
           y == <<"state", i[2]>>
           z == <<"cpu", TrimmedCPU(i[1])>>
<1>1. a = {x, y}
  BY DEF CPULabels
<1>2. x[1] = "cpu" /\ y[1] = "state" /\ z[1] = "cpu" /\ x[2] = i[1]
  OBVIOUS
<1> HIDE DEF a, x, y
<1>3. Has(a, "cpu")
  BY <1>1, <1>2 DEF Has
<1>4. (CHOOSE l \in a : l[1] = "cpu") = x
  BY <1>1, <1>2
<1>5. Get(a, "cpu") = i[1]
  BY <1>2, <1>4 DEF Get
<1>6. Put(a, "cpu", TrimmedCPU(i[1])) = {z, y}
  BY <1>1, <1>2 DEF Put
<1> QED BY <1>3, <1>5, <1>6 DEF CleanLabels, a, y

LEMMA PutOne ==
  ASSUME NEW a, NEW k, NEW v
  PROVE  /\ \A l \in a : l[1] # k => l \in Put(a, k, v)
         /\ \A l \in Put(a, k, v) : l \in a \/ l = <<k, v>>
         /\ <<k, v>> \in Put(a, k, v)
BY DEF Put

LEMMA GetOne ==
  ASSUME NEW a, NEW x \in a, \A l \in a : l[1] = x[1] => l = x
  PROVE  Get(a, x[1]) = x[2]
<1>1. (CHOOSE l \in a : l[1] = x[1]) = x
  OBVIOUS
<1> QED BY <1>1 DEF Get

(* The labels of a share tell its CPU and its state.                       *)
LEMMA ShareLabels ==
  ASSUME NEW i \in CPUs \X CPUStates, NEW name
  PROVE  /\ Get(FinishedLabels(name, CPULabels(i)), "state") = i[2]
         /\ <<"cpu", "0">> \in FinishedLabels(name, CPULabels(i)) <=> i[1] = "cpu0"
<1> DEFINE y == <<"state", i[2]>>
           z == <<"cpu", TrimmedCPU(i[1])>>
           w == <<"blank", "">>
           a == FinishedLabels(name, CPULabels(i))
           zero == <<"cpu", "0">>
<1>1. CleanLabels(CPULabels(i)) = {z, y}
  BY CPULabelsCleaned
<1>2. y[1] = "state" /\ y[2] = i[2] /\ z[1] = "cpu" /\ w[1] = "blank" /\ zero[1] = "cpu"
  OBVIOUS
<1>3. zero = z <=> i[1] = "cpu0"
  <2>1. i[1] \in {"cpu0", "cpu1"}
    BY DEF CPUs
  <2>2. CASE i[1] = "cpu0"
    <3>1. TrimmedCPU(i[1]) = "0"
      BY <2>2 DEF TrimmedCPU
    <3> QED BY <2>2, <3>1
  <2>3. CASE i[1] = "cpu1"
    <3>1. TrimmedCPU(i[1]) = "1"
      BY <2>3 DEF TrimmedCPU
    <3>2. zero[2] = "0" /\ z[2] = "1"
      BY <3>1
    <3> HIDE DEF zero, z
    <3> QED BY <2>3, <3>2
  <2> QED BY <2>1, <2>2, <2>3
<1> HIDE DEF y, z, zero
<1>4. y \in a /\ z \in a /\ \A l \in a : l \in {z, y, w}
  <2> DEFINE b == CleanLabels(CPULabels(i))
  <2>1. a = b \/ a = Put(b, "blank", "")
    BY DEF FinishedLabels, BlankLabels
  <2> HIDE DEF a, b
  <2>2. CASE a = b
    BY <1>1, <2>2 DEF b
  <2>3. CASE a = Put(b, "blank", "")
    <3>1. b = {z, y}
      BY <1>1 DEF b
    <3>2. /\ \A l \in b : l[1] # "blank" => l \in a
          /\ \A l \in a : l \in b \/ l = <<"blank", "">>
      BY <2>3, PutOne
    <3> QED BY <1>2, <3>1, <3>2
  <2> QED BY <2>1, <2>2, <2>3
<1> HIDE DEF a
<1>5. \A l \in a : l[1] = y[1] => l = y
  BY <1>2, <1>4
<1>6. Get(a, y[1]) = y[2]
  BY <1>4, <1>5, GetOne
<1>7. Get(a, "state") = i[2]
  BY <1>2, <1>6
<1>8. zero \in a <=> zero = z
  BY <1>2, <1>4
<1> QED BY <1>3, <1>7, <1>8 DEF a, zero

(* As many streams as the metric has points.                               *)
StreamsOf(m, p) == {StreamOf(m, p, i) : i \in DOMAIN m.points}

LEMMA StreamOfApart ==
  ASSUME NEW m, NEW p, NEW i, NEW j, StreamOf(m, p, i) = StreamOf(m, p, j)
  PROVE  i = j
<1>1. StreamOf(m, p, i).place = <<p[1], p[2], i>> /\ StreamOf(m, p, j).place = <<p[1], p[2], j>>
  BY DEF StreamOf
<1>2. <<p[1], p[2], i>> = <<p[1], p[2], j>>
  BY <1>1
<1> QED BY <1>2

LEMMA CountStreams ==
  ASSUME NEW m, NEW p, IsFiniteSet(DOMAIN m.points)
  PROVE  Cardinality(StreamsOf(m, p)) = Cardinality(DOMAIN m.points) /\ IsFiniteSet(StreamsOf(m, p))
<1> DEFINE S == DOMAIN m.points
           T == StreamsOf(m, p)
           g == [i \in S |-> StreamOf(m, p, i)]
<1>1. g \in [S -> T] /\ \A t \in T : \E i \in S : g[i] = t
  BY DEF StreamsOf
<1>2. \A i, j \in S : g[i] = g[j] => i = j
  BY StreamOfApart
<1> HIDE DEF g, T, S
<1>3. g \in Bijection(S, T)
  BY <1>1, <1>2 DEF Bijection, Injection, Surjection, IsInjective
<1>4. ExistsBijection(S, T)
  BY <1>3 DEF ExistsBijection
<1>5. IsFiniteSet(S)
  BY DEF S
<1> QED BY <1>4, <1>5, FS_Bijection DEF S, T

IsMetric(out, m, p) == \A s : (s \in Streams(out) /\ s.metric = m.name) <=> s \in StreamsOf(m, p)

LEMMA MetricListed ==
  ASSUME NEW out, NEW T, Lists(out, T), NEW m \in T
  PROVE  \E p : IsMetric(out, m, p)
<1>1. PICK p \in Places(out) : Only(out, p, m)
  BY ListsOnly
<1>2. ASSUME NEW s
      PROVE  (s \in Streams(out) /\ s.metric = m.name) <=> s \in StreamsOf(m, p)
  <2>1. (s \in Streams(out) /\ s.metric = m.name) <=> \E i \in DOMAIN m.points : s = StreamOf(m, p, i)
    BY <1>1, StreamOfOnly
  <2> QED BY <2>1 DEF StreamsOf
<1> QED BY <1>2 DEF IsMetric

UsedBy(seen, cpu1, st) == seen[Len(seen)][cpu1][st] - seen[Len(seen) - 1][cpu1][st]
CPUOf(s) == IF <<"cpu", "0">> \in s.point.attrs THEN "cpu0" ELSE "cpu1"
CPUSharesIn(out) == {s \in Streams(out) : s.metric = "system.cpu.utilization"}

UtilizationIn(out, seen) ==
  /\ Cardinality(CPUSharesIn(out)) = IF Len(seen) = 1 THEN 0 ELSE Cardinality(CPUs \X CPUStates)
  /\ Len(seen) >= 1 /\ (Len(seen) = 1 => CPUSharesIn(out) = {})
  /\ \A s \in CPUSharesIn(out) :
       /\ Get(s.point.attrs, "state") \in CPUStates
       /\ s.point.num = UsedBy(seen, CPUOf(s), Get(s.point.attrs, "state"))
       /\ s.point.den = UsedBy(seen, CPUOf(s), "user") + UsedBy(seen, CPUOf(s), "idle")

LEMMA UtilizationFinal ==
  ASSUME NEW out, NEW hosts, NEW P, NEW c \in CPUType, NEW d, NEW at, NEW prevOps, NEW seen \in Seq(CPUType),
         Lists(out, FinalMetrics(hosts, P, c, d, at, KeptCPU(seen), prevOps))
  PROVE  UtilizationIn(out, Append(seen, c))
<1> DEFINE x == CPUShares(c, at, KeptCPU(seen))
           m == Finished(x)
           T == FinalMetrics(hosts, P, c, d, at, KeptCPU(seen), prevOps)
           D == CPUs \X CPUStates
           now2 == Append(seen, c)
<1>1. x \in ShareMetrics(c, at, KeptCPU(seen))
  BY DEF ShareMetrics
<1>2. m \in T
  BY <1>1, FinalIs
<1>3. x.name = "system.cpu.utilization"
  BY SharesNamed
<1> HIDE DEF T, x
<1>4. /\ m.name = x.name /\ DOMAIN m.points = DOMAIN x.points
      /\ \A i \in DOMAIN x.points :
           /\ m.points[i].attrs = FinishedLabels(x.name, x.points[i].attrs)
           /\ m.points[i].num = x.points[i].num /\ m.points[i].den = x.points[i].den
  BY FinishedIs
<1> HIDE DEF m
<1>5. Lists(out, T)
  BY DEF T
<1>6. PICK p : IsMetric(out, m, p)
  BY <1>2, <1>5, MetricListed
<1>7. CPUSharesIn(out) = StreamsOf(m, p)
  <2>1. \A s : s \in CPUSharesIn(out) <=> s \in StreamsOf(m, p)
    BY <1>3, <1>4, <1>6 DEF IsMetric, CPUSharesIn
  <2> QED BY <2>1
<1>8. Len(seen) \in Nat /\ Len(now2) = Len(seen) + 1 /\ now2[Len(seen) + 1] = c
  BY LenProperties, AppendProperties
<1>9. CASE seen = <<>>
  <2>1. Len(now2) = 1
    BY <1>8, <1>9
  <2>2. KeptCPU(seen) = <<>>
    BY <1>9 DEF KeptCPU
  <2>3. DOMAIN x.points = {}
    BY <2>2, NoShares DEF x
  <2>4. CPUSharesIn(out) = {}
    BY <1>4, <1>7, <2>3 DEF StreamsOf
  <2>5. Cardinality({}) = 0
    BY FS_EmptySet
  <2> QED BY <1>8, <2>1, <2>4, <2>5 DEF UtilizationIn
<1>10. CASE seen # <<>>
  <2> DEFINE old == LastOf(seen)
             n == Len(now2)
  <2>1. Len(seen) >= 1 /\ n - 1 = Len(seen) /\ n # 1 /\ old \in CPUType
    BY <1>8, <1>10, EmptySeq, LenProperties, ElementOfSeq DEF LastOf
  <2>2. now2[n] = c /\ now2[n - 1] = old
    <3>1. now2[Len(seen)] = seen[Len(seen)]
      BY <1>8, <2>1, AppendProperties
    <3> QED BY <1>8, <2>1, <3>1 DEF LastOf
  <2> HIDE DEF old, now2
  <2>3. \A c1, st : UsedBy(now2, c1, st) = Spent(c, old, c1, st)
    BY <2>2 DEF UsedBy, Spent
  <2>4. KeptCPU(seen) = ByLabels(old)
    BY <1>10 DEF KeptCPU, old
  <2>5. SpentIn(x.points, c, old)
    BY <2>1, <2>4, SharesAre DEF x
  <2>6. DOMAIN m.points = D /\ IsFiniteSet(D)
    <3>1. DOMAIN m.points = D
      BY <1>4, <2>5 DEF SpentIn
    <3>2. IsFiniteSet(CPUs) /\ IsFiniteSet(CPUStates)
      <4>1. IsFiniteSet({"cpu0"}) /\ IsFiniteSet({"user"})
        BY FS_Singleton
      <4>2. CPUs = {"cpu0"} \cup {"cpu1"} /\ CPUStates = {"user"} \cup {"idle"}
        BY DEF CPUs, CPUStates
      <4> QED BY <4>1, <4>2, FS_AddElement
    <3>3. IsFiniteSet(D)
      BY <3>2, FS_Product
    <3> QED BY <3>1, <3>3
  <2>7. Cardinality(StreamsOf(m, p)) = Cardinality(D)
    BY <2>6, CountStreams
  <2>8. ASSUME NEW s \in CPUSharesIn(out)
        PROVE  /\ Get(s.point.attrs, "state") \in CPUStates
               /\ s.point.num = UsedBy(now2, CPUOf(s), Get(s.point.attrs, "state"))
               /\ s.point.den = UsedBy(now2, CPUOf(s), "user") + UsedBy(now2, CPUOf(s), "idle")
    <3>1. PICK i \in D : s = StreamOf(m, p, i)
      BY <1>7, <2>6 DEF StreamsOf
    <3>2. s.point = m.points[i]
      BY <3>1 DEF StreamOf
    <3>3. i \in DOMAIN x.points
      BY <2>5 DEF SpentIn
    <3>4. /\ x.points[i].attrs = CPULabels(i)
          /\ x.points[i].num = Spent(c, old, i[1], i[2])
          /\ x.points[i].den = Spent(c, old, i[1], "user") + Spent(c, old, i[1], "idle")
      BY <2>5 DEF SpentIn
    <3>5. /\ s.point.attrs = FinishedLabels(x.name, CPULabels(i))
          /\ s.point.num = Spent(c, old, i[1], i[2])
          /\ s.point.den = Spent(c, old, i[1], "user") + Spent(c, old, i[1], "idle")
      BY <1>4, <3>2, <3>3, <3>4
    <3>6. /\ Get(FinishedLabels(x.name, CPULabels(i)), "state") = i[2]
          /\ <<"cpu", "0">> \in FinishedLabels(x.name, CPULabels(i)) <=> i[1] = "cpu0"
      BY ShareLabels
    <3>7. i[1] \in {"cpu0", "cpu1"} /\ i[2] \in CPUStates
      BY DEF CPUs
    <3>8. CPUOf(s) = i[1] /\ Get(s.point.attrs, "state") = i[2]
      BY <3>5, <3>6, <3>7 DEF CPUOf
    <3> QED BY <2>3, <3>5, <3>7, <3>8
  <2> HIDE DEF n
  <2>9. Cardinality(CPUSharesIn(out)) = IF Len(now2) = 1 THEN 0 ELSE Cardinality(CPUs \X CPUStates)
    BY <1>7, <2>1, <2>7 DEF n
  <2>t. Len(now2) >= 1 /\ Len(now2) # 1
    BY <2>1 DEF n
  <2>10. UtilizationIn(out, now2)
    BY <2>8, <2>9, <2>t DEF UtilizationIn
  <2> QED BY <2>10 DEF now2
<1> QED BY <1>9, <1>10

(* The shares that were passed on, and that the counters never fall.       *)
UtilizationKept ==
  /\ output # None => UtilizationIn(output, seenCPU)
  /\ \A i \in 2 .. Len(seenCPU), c1 \in CPUs, st \in CPUStates :
       seenCPU[i - 1][c1][st] <= seenCPU[i][c1][st]
  /\ seenCPU # <<>> =>
       \A c1 \in CPUs, st \in CPUStates : LastOf(seenCPU)[c1][st] <= cpu[c1][st]

LEMMA UtilizationInit == Init => UtilizationKept
<1> SUFFICES ASSUME Init PROVE UtilizationKept
  OBVIOUS
<1>1. output = None /\ seenCPU = <<>> /\ Len(<<>>) = 0
  BY EmptySeq DEF Init
<1>2. 2 .. 0 = {}
  OBVIOUS
<1> QED BY <1>1, <1>2 DEF UtilizationKept

LEMMA ScrapeAdvancesCPU ==
  ASSUME Inductive, Scrape
  PROVE  \A c1 \in CPUs, st \in CPUStates : cpu[c1][st] <= cpu'[c1][st]
<1>1. PICK step \in CPUSteps :
        cpu' = [c1 \in CPUs |-> [st \in CPUStates |-> cpu[c1][st] + step[c1][st]]]
  BY DEF Scrape
<1>2. step \in [CPUs -> [CPUStates -> Nat]]
  BY StepsAssumption
<1>3. cpu \in [CPUs -> [CPUStates -> Nat]]
  BY DEF Inductive, HostTypes, CPUType
<1> TAKE c1 \in CPUs, st \in CPUStates
<1>4. cpu[c1][st] \in Nat /\ step[c1][st] \in Nat
  BY <1>2, <1>3
<1>5. cpu'[c1][st] = cpu[c1][st] + step[c1][st]
  BY <1>1
<1> QED BY <1>4, <1>5

LEMMA UtilizationNext ==
  Inductive /\ UtilizationKept /\ [Next]_vars => UtilizationKept'
<1> SUFFICES ASSUME Inductive, UtilizationKept, [Next]_vars PROVE UtilizationKept'
  OBVIOUS
<1>0. cpu \in CPUType /\ seenCPU \in Seq(CPUType) /\ prevCPUTimeValues = KeptCPU(seenCPU)
  BY DEF Inductive, HostTypes, CPUKept
<1>1. CASE Scrape
  <2>1. output' = None /\ seenCPU' = seenCPU
    BY <1>1 DEF Scrape
  <2>2. cpu' \in CPUType
    BY <1>1, InductiveScrape DEF Inductive, HostTypes
  <2>3. \A c1 \in CPUs, st \in CPUStates : cpu[c1][st] <= cpu'[c1][st]
    BY <1>1, ScrapeAdvancesCPU
  <2>4. seenCPU # <<>> =>
          \A c1 \in CPUs, st \in CPUStates : LastOf(seenCPU)[c1][st] <= cpu'[c1][st]
    <3> SUFFICES ASSUME seenCPU # <<>>, NEW c1 \in CPUs, NEW st \in CPUStates
                 PROVE  LastOf(seenCPU)[c1][st] <= cpu'[c1][st]
      OBVIOUS
    <3>1. LastOf(seenCPU) \in CPUType
      BY <1>0, EmptySeq, LenProperties, ElementOfSeq DEF LastOf
    <3>2. LastOf(seenCPU)[c1][st] <= cpu[c1][st]
      BY DEF UtilizationKept
    <3>3. LastOf(seenCPU)[c1][st] \in Nat /\ cpu[c1][st] \in Nat /\ cpu'[c1][st] \in Nat
      BY <1>0, <2>2, <3>1 DEF CPUType
    <3> QED BY <2>3, <3>2, <3>3
  <2> QED BY <2>1, <2>4 DEF UtilizationKept
<1>2. CASE newAgentMetricsProcessor
  <2>1. output' = None /\ seenCPU' = <<>> /\ Len(<<>>) = 0
    BY <1>2, EmptySeq DEF newAgentMetricsProcessor
  <2>2. 2 .. 0 = {}
    OBVIOUS
  <2> QED BY <2>1, <2>2 DEF UtilizationKept
<1>3. CASE ProcessMetrics
  <2>1. cpu' = cpu
    BY <1>3 DEF ProcessMetrics, host
  <2>2. \/ seenCPU' = seenCPU /\ output' = output
        \/ seenCPU' = Append(seenCPU, cpu)
    BY <1>3 DEF ProcessMetrics
  <2>3. output' # None => UtilizationIn(output', seenCPU')
    <3> SUFFICES ASSUME output' # None PROVE UtilizationIn(output', seenCPU')
      OBVIOUS
    <3>1. PICK hosts \in {1, 2}, P \in SUBSET Processes, f \in Faults : Handled(hosts, P, f)
      BY <1>3, ProcessedIs
    <3>2. /\ seenCPU' = Append(seenCPU, cpu)
          /\ Lists(output', FinalMetrics(hosts, P, cpu, disk, now, prevCPUTimeValues, prevOp))
      BY <3>1 DEF Handled
    <3>4. Lists(output', FinalMetrics(hosts, P, cpu, disk, now, KeptCPU(seenCPU), prevOp))
      BY <1>0, <3>2, Zenon
    <3>5. UtilizationIn(output', Append(seenCPU, cpu))
      BY <1>0, <3>4, UtilizationFinal, Zenon
    <3> QED BY <3>2, <3>5, Zenon
  <2>4. CASE seenCPU' = seenCPU
    BY <2>1, <2>3, <2>4 DEF UtilizationKept
  <2>5. CASE seenCPU' = Append(seenCPU, cpu)
    <3> DEFINE L == Len(seenCPU)
    <3>1. L \in Nat /\ Len(seenCPU') = L + 1 /\ seenCPU'[L + 1] = cpu
          /\ \A i \in 1 .. L : seenCPU'[i] = seenCPU[i]
      BY <1>0, <2>5, LenProperties, AppendProperties
    <3>2. LastOf(seenCPU') = cpu
      BY <3>1 DEF LastOf
    <3>3. ASSUME NEW c1 \in CPUs, NEW st \in CPUStates
          PROVE  cpu[c1][st] <= cpu[c1][st]
      <4>1. cpu[c1][st] \in Nat
        BY <1>0 DEF CPUType
      <4> QED BY <4>1
    <3>4. ASSUME NEW i \in 2 .. Len(seenCPU'), NEW c1 \in CPUs, NEW st \in CPUStates
          PROVE  seenCPU'[i - 1][c1][st] <= seenCPU'[i][c1][st]
      <4>1. CASE i \in 2 .. L
        <5>1. i - 1 \in 1 .. L /\ i \in 1 .. L
          BY <3>1, <4>1
        <5>2. seenCPU'[i - 1] = seenCPU[i - 1] /\ seenCPU'[i] = seenCPU[i]
          BY <3>1, <5>1
        <5> QED BY <4>1, <5>2 DEF UtilizationKept
      <4>2. CASE i = L + 1
        <5>1. L \in 1 .. L /\ i - 1 = L /\ L # 0
          BY <3>1, <4>2
        <5>2. seenCPU # <<>> /\ LastOf(seenCPU) = seenCPU[L]
          BY <5>1, EmptySeq DEF LastOf
        <5>3. seenCPU'[i - 1] = LastOf(seenCPU) /\ seenCPU'[i] = cpu
          BY <3>1, <4>2, <5>1, <5>2
        <5> QED BY <5>2, <5>3 DEF UtilizationKept
      <4> QED BY <3>1, <4>1, <4>2
    <3> HIDE DEF L
    <3> QED BY <2>1, <2>3, <3>2, <3>3, <3>4 DEF UtilizationKept
  <2> QED BY <2>2, <2>4, <2>5
<1>4. CASE UNCHANGED vars
  BY <1>4 DEF vars, host, UtilizationKept
<1> QED BY <1>1, <1>2, <1>3, <1>4 DEF Next

(* Where no counter of a CPU moved, none of its shares did; otherwise its  *)
(* two shares are parts of their sum.                                      *)
LEMMA KeptUtilization == Inductive /\ UtilizationKept => UtilizationSinceLastBatch
<1> SUFFICES ASSUME Inductive, UtilizationKept, output # None PROVE UtilizationSinceLastBatch
  BY DEF UtilizationSinceLastBatch
<1> DEFINE n == Len(seenCPU)
           Used(c1, st) == UsedBy(seenCPU, c1, st)
           Total(c1) == Used(c1, "user") + Used(c1, "idle")
           State(s) == Get(s.point.attrs, "state")
<1>1. UtilizationIn(output, seenCPU)
  BY DEF UtilizationKept
<1>2. seenCPU \in Seq(CPUType) /\ n \in Nat
  BY LenProperties DEF Inductive, CPUKept
<1>3. ASSUME NEW s \in CPUSharesIn(output)
      PROVE  /\ Used(CPUOf(s), "user") \in Nat /\ Used(CPUOf(s), "idle") \in Nat
             /\ State(s) \in {"user", "idle"}
             /\ s.point.num = Used(CPUOf(s), State(s)) /\ s.point.den = Total(CPUOf(s))
  <2>1. n \in 2 .. n /\ n - 1 \in 1 .. n /\ n \in 1 .. n
    <3>1. n >= 1 /\ (n = 1 => CPUSharesIn(output) = {})
      BY <1>1 DEF UtilizationIn
    <3>2. CPUSharesIn(output) # {}
      BY <1>3
    <3> HIDE DEF n
    <3> QED BY <1>2, <3>1, <3>2
  <2>2. seenCPU[n] \in CPUType /\ seenCPU[n - 1] \in CPUType
    BY <1>2, <2>1, ElementOfSeq
  <2>3. CPUOf(s) \in CPUs /\ "user" \in CPUStates /\ "idle" \in CPUStates
    BY DEF CPUOf, CPUs, CPUStates
  <2>4. ASSUME NEW st \in CPUStates PROVE Used(CPUOf(s), st) \in Nat
    <3>1. seenCPU[n][CPUOf(s)][st] \in Nat /\ seenCPU[n - 1][CPUOf(s)][st] \in Nat
      BY <2>2, <2>3 DEF CPUType
    <3>2. seenCPU[n - 1][CPUOf(s)][st] <= seenCPU[n][CPUOf(s)][st]
      BY <2>1, <2>3 DEF UtilizationKept
    <3> QED BY <3>1, <3>2 DEF UsedBy
  <2>5. State(s) \in {"user", "idle"} /\ s.point.num = Used(CPUOf(s), State(s)) /\ s.point.den = Total(CPUOf(s))
    <3>1. State(s) \in CPUStates /\ s.point.num = Used(CPUOf(s), State(s)) /\ s.point.den = Total(CPUOf(s))
      BY <1>1, <1>3, Zenon DEF UtilizationIn
    <3> QED BY <3>1 DEF CPUStates
  <2> QED BY <2>3, <2>4, <2>5
<1> HIDE DEF Used
<1>4. ASSUME NEW s \in CPUSharesIn(output)
      PROVE  IF Total(CPUOf(s)) = 0
               THEN NotANumber(s.point)
               ELSE s.point.num = Used(CPUOf(s), State(s)) /\ s.point.den = Total(CPUOf(s))
  BY <1>3 DEF NotANumber
<1>5. ASSUME NEW s \in CPUSharesIn(output), NEW t \in CPUSharesIn(output),
             CPUOf(s) = CPUOf(t), State(s) = "user", State(t) = "idle"
      PROVE  \/ NotANumber(s.point) /\ NotANumber(t.point)
             \/ s.point.den > 0 /\ s.point.num + t.point.num = s.point.den
  <2>1. /\ s.point.num = Used(CPUOf(s), "user") /\ s.point.den = Total(CPUOf(s))
        /\ t.point.num = Used(CPUOf(s), "idle") /\ t.point.den = Total(CPUOf(s))
        /\ Used(CPUOf(s), "user") \in Nat /\ Used(CPUOf(s), "idle") \in Nat
    BY <1>3, <1>5
  <2> HIDE DEF State
  <2> QED BY <2>1 DEF NotANumber
<1>6. Cardinality(CPUSharesIn(output)) = IF n = 1 THEN 0 ELSE Cardinality(CPUs \X CPUStates)
  BY <1>1 DEF UtilizationIn
<1> QED BY <1>4, <1>5, <1>6 DEF UtilizationSinceLastBatch, CPUSharesIn, CPUOf, Used, UsedBy

(* The CPU shares of a batch that is passed on are those of the time since *)
(* the batch processed before it; they add up to one, or are not a number  *)
(* where the CPU's counters did not move; and there are none in the first  *)
(* batch (utils_calculate_utilizations.go:75, 204).                        *)
THEOREM UtilizationIsSinceLastBatch == Spec => []UtilizationSinceLastBatch
BY UtilizationInit, UtilizationNext, KeptUtilization, MapsKeepHistory, PTL DEF Spec

-----------------------------------------------------------------------------
(***************************************************************************)
(* AverageIsIntegral.                                                      *)
(***************************************************************************)
AverageName == "system.disk.average_operation_time"
AveragesIn(out) == {s \in Streams(out) : s.metric = AverageName}
DirectionOf(s) == Get(s.point.attrs, "direction")

AverageIn(out, sm) == \A s \in AveragesIn(out) : s.point.num = IntegralOf(sm, DirectionOf(s))

LEMMA AverageStated ==
  AverageIsIntegral <=> (output # None => AverageIn(output, samples))
BY DEF AverageIsIntegral, AverageIn, AveragesIn, AverageName, DirectionOf, IntegralOf, PartsOf, PartOf,
       OpsBetween, TimeBetween

(* No other metric has the name of the average.                            *)
LEMMA AverageAlone ==
  ASSUME NEW hosts, NEW P, NEW c, NEW d, NEW at, NEW prevCPU, NEW prevOps,
         NEW m \in FinalMetrics(hosts, P, c, d, at, prevCPU, prevOps), m.name = AverageName
  PROVE  \E x \in AverageMetrics(hosts, d, at, prevOps) : m = Blanked(x)
<1>1. PICK x \in SharedMetrics(hosts, P, c, d, at, prevCPU) \cup AverageMetrics(hosts, d, at, prevOps) :
        m = Blanked(x)
  BY DEF FinalMetrics, BlankedAll
<1>2. m.name = x.name
  BY <1>1, BlankedIs
<1>3. x \notin SharedMetrics(hosts, P, c, d, at, prevCPU)
  BY <1>2, AverageNamed DEF AverageName
<1> QED BY <1>1, <1>3

LEMMA NoAverage ==
  ASSUME NEW out, NEW T, Lists(out, T), \A m \in T : m.name # AverageName
  PROVE  AveragesIn(out) = {}
<1>1. ASSUME NEW s \in Streams(out), s.metric = AverageName PROVE FALSE
  <2>1. PICK p \in Places(out) : \E i \in DOMAIN At(out, p).points : s = StreamOf(At(out, p), p, i)
    BY StreamsAre
  <2>2. s.metric = At(out, p).name
    BY <2>1 DEF StreamOf
  <2>3. At(out, p) \in T
    BY DEF Lists
  <2> QED BY <1>1, <2>2, <2>3
<1> QED BY <1>1 DEF AveragesIn

DiskNumbers(points, K, sm) ==
  /\ DOMAIN points = K
  /\ \A key \in K : points[key].attrs = DiskLabels(key) /\ points[key].num = IntegralOf(sm, key[2])

LEMMA AveragePoints ==
  ASSUME NEW sm, sm # <<>>, NEW K \in SUBSET OfDisk
  PROVE  DiskNumbers(averageTimeMetric(KeptOps(sm), K).points, K, sm)
<1> DEFINE op == KeptOps(sm)
           m == averageTimeMetric(op, K)
           cum(key) == IntegralOf(sm, key[2])
           pt(key) == Point(DiskLabels(key), LastOf(sm).disk[key[2]].time, LastOf(sm).at)
<1>1. m.points = [key \in K |-> [attrs |-> op[key].time.attrs, num |-> op[key].cumAvgTime,
                                 den |-> Scale, at |-> op[key].time.at]]
  BY DEF averageTimeMetric, MetricOf
<1> HIDE DEF m
<1>2. op = [key \in OfDisk |-> [operations |-> LastOf(sm).disk[key[2]].ops, time |-> pt(key),
                                cumAvgTime |-> cum(key)]]
  BY DEF KeptOps
<1>3. \A key : pt(key).attrs = DiskLabels(key)
  BY DEF Point
<1> HIDE DEF op, pt, cum
<1>4. ASSUME NEW key \in K PROVE m.points[key].attrs = DiskLabels(key) /\ m.points[key].num = cum(key)
  <2>1. op[key] = [operations |-> LastOf(sm).disk[key[2]].ops, time |-> pt(key), cumAvgTime |-> cum(key)]
    BY <1>2
  <2>2. op[key].time = pt(key) /\ op[key].cumAvgTime = cum(key)
    BY <2>1
  <2>3. m.points[key] = [attrs |-> op[key].time.attrs, num |-> op[key].cumAvgTime,
                         den |-> Scale, at |-> op[key].time.at]
    BY <1>1
  <2>4. m.points[key].attrs = op[key].time.attrs /\ m.points[key].num = op[key].cumAvgTime
    BY <2>3
  <2> QED BY <1>3, <2>2, <2>4
<1>5. DOMAIN m.points = K
  BY <1>1
<1>6. DiskNumbers(m.points, K, sm)
  BY <1>4, <1>5 DEF DiskNumbers, cum
<1> QED BY <1>6 DEF m, op

LEMMA DirectionKept ==
  ASSUME NEW key \in OfDisk, NEW name
  PROVE  Get(BlankLabels(name, DiskLabels(key)), "direction") = key[2]
<1> DEFINE x == <<"device", key[1]>>
           y == <<"direction", key[2]>>
           w == <<"blank", "">>
           a == BlankLabels(name, DiskLabels(key))
           b == DiskLabels(key)
<1>1. x[1] = "device" /\ y[1] = "direction" /\ y[2] = key[2] /\ w[1] = "blank"
  OBVIOUS
<1>2. b = {x, y}
  BY DEF DiskLabels
<1>3. a = b \/ a = Put(b, "blank", "")
  BY DEF BlankLabels
<1> HIDE DEF x, y, a, b
<1>4. y \in a /\ \A l \in a : l \in {x, y, w}
  <2>1. CASE a = b
    BY <1>2, <2>1
  <2>2. CASE a = Put(b, "blank", "")
    <3>1. /\ \A l \in b : l[1] # "blank" => l \in a
          /\ \A l \in a : l \in b \/ l = <<"blank", "">>
      BY <2>2, PutOne
    <3> QED BY <1>1, <1>2, <3>1
  <2> QED BY <1>3, <2>1, <2>2
<1>5. \A l \in a : l[1] = y[1] => l = y
  BY <1>1, <1>4
<1>6. Get(a, y[1]) = y[2]
  BY <1>4, <1>5, GetOne
<1>7. Get(a, "direction") = key[2]
  BY <1>1, <1>6
<1> QED BY <1>7 DEF a

LEMMA AverageFinal ==
  ASSUME NEW out, NEW hosts, NEW P, NEW c, NEW d, NEW at, NEW prevCPU, NEW prevOps, NEW sm,
         hosts = 2 => sm # <<>> /\ AfterDisk(d, at, prevOps) = KeptOps(sm),
         Lists(out, FinalMetrics(hosts, P, c, d, at, prevCPU, prevOps))
  PROVE  AverageIn(out, sm)
<1> DEFINE T == FinalMetrics(hosts, P, c, d, at, prevCPU, prevOps)
           A == AverageMetrics(hosts, d, at, prevOps)
           K == KnownDisks(hosts, prevOps)
           x == averageTimeMetric(KeptOps(sm), K)
           m == Blanked(x)
<1>1. \A y \in T : y.name = AverageName => \E z \in A : y = Blanked(z)
  BY AverageAlone
<1>2. \A z \in A : Blanked(z) \in T
  BY FinalIs
<1>3. Lists(out, T)
  OBVIOUS
<1>4. K \subseteq OfDisk
  BY DEF KnownDisks
<1>5. A = IF K = {} THEN {} ELSE {averageTimeMetric(AfterDisk(d, at, prevOps), K)}
  BY DEF AverageMetrics
<1>6. K # {} => hosts = 2
  BY DEF KnownDisks
<1> HIDE DEF T, A, K
<1>7. CASE K = {}
  <2>1. \A y \in T : y.name # AverageName
    BY <1>1, <1>5, <1>7
  <2>2. AveragesIn(out) = {}
    BY <1>3, <2>1, NoAverage
  <2> QED BY <2>2 DEF AverageIn
<1>8. CASE K # {}
  <2>1. A = {x} /\ sm # <<>>
    BY <1>5, <1>6, <1>8
  <2>2. x.name = AverageName
    BY DEF averageTimeMetric, MetricOf, AverageName
  <2>3. DiskNumbers(x.points, K, sm)
    BY <1>4, <2>1, AveragePoints
  <2> HIDE DEF x
  <2>4. /\ m.name = x.name /\ DOMAIN m.points = DOMAIN x.points
        /\ \A i \in DOMAIN x.points :
             /\ m.points[i].attrs = BlankLabels(x.name, x.points[i].attrs)
             /\ m.points[i].num = x.points[i].num
    BY BlankedIs
  <2>5. m \in T
    BY <1>2, <2>1
  <2> HIDE DEF m
  <2>6. PICK p : IsMetric(out, m, p)
    BY <1>3, <2>5, MetricListed
  <2>7. ASSUME NEW s \in AveragesIn(out) PROVE s.point.num = IntegralOf(sm, DirectionOf(s))
    <3>1. s \in StreamsOf(m, p)
      BY <2>2, <2>4, <2>6 DEF IsMetric, AveragesIn
    <3>2. PICK key \in K : s = StreamOf(m, p, key)
      BY <2>3, <2>4, <3>1 DEF StreamsOf, DiskNumbers
    <3>3. s.point = m.points[key]
      BY <3>2 DEF StreamOf
    <3>4. x.points[key].attrs = DiskLabels(key) /\ x.points[key].num = IntegralOf(sm, key[2])
          /\ key \in DOMAIN x.points
      BY <2>3 DEF DiskNumbers
    <3>5. s.point.attrs = BlankLabels(x.name, DiskLabels(key)) /\ s.point.num = IntegralOf(sm, key[2])
      BY <2>4, <3>3, <3>4
    <3>6. DirectionOf(s) = key[2]
      BY <1>4, <3>5, DirectionKept DEF DirectionOf
    <3> QED BY <3>5, <3>6
  <2> QED BY <2>7 DEF AverageIn
<1> QED BY <1>7, <1>8

LEMMA AverageInit == Init => AverageIsIntegral
BY DEF Init, AverageIsIntegral

LEMMA AverageNext ==
  Inductive /\ AverageIsIntegral /\ [Next]_vars => AverageIsIntegral'
<1> SUFFICES ASSUME Inductive, AverageIsIntegral, [Next]_vars PROVE AverageIsIntegral'
  OBVIOUS
<1>1. CASE Scrape
  BY <1>1 DEF Scrape, AverageIsIntegral
<1>2. CASE newAgentMetricsProcessor
  BY <1>2 DEF newAgentMetricsProcessor, AverageIsIntegral
<1>3. CASE ProcessMetrics
  <2> SUFFICES ASSUME output' # None PROVE AverageIn(output', samples')
    BY DEF AverageIsIntegral, AverageIn, AveragesIn, AverageName, DirectionOf, IntegralOf, PartsOf, PartOf,
           OpsBetween, TimeBetween
  <2>1. PICK hosts \in {1, 2}, P \in SUBSET Processes, f \in Faults : Handled(hosts, P, f)
    BY <1>3, ProcessedIs
  <2>2. /\ Lists(output', FinalMetrics(hosts, P, cpu, disk, now, prevCPUTimeValues, prevOp))
        /\ hosts = 2 => prevOp' = AfterDisk(disk, now, prevOp) /\ samples' = Append(samples, Sample)
    BY <2>1 DEF Handled
  <2>3. Inductive'
    BY <1>3, InductiveProcess
  <2>4. prevOp' = KeptOps(samples')
    BY <2>3 DEF Inductive, OpsKept
  <2>5. samples \in Seq(SampleType) /\ Sample \in SampleType
    BY DEF Inductive, OpsKept, HostTypes, Sample, SampleType
  <2>6. hosts = 2 => samples' # <<>> /\ AfterDisk(disk, now, prevOp) = KeptOps(samples')
    BY <2>2, <2>4, <2>5, AppendProperties
  <2> QED BY <2>2, <2>6, AverageFinal, Zenon
<1>4. CASE UNCHANGED vars
  BY <1>4 DEF vars, AverageIsIntegral
<1> QED BY <1>1, <1>2, <1>3, <1>4 DEF Next

(* The cumulative average of a disk that is passed on is the integral over *)
(* the batches processed since the collector started of the average time   *)
(* of its operations, dropped batches included                             *)
(* (utils_calculate_average_disk.go:82-93).                                *)
THEOREM AverageIsTheIntegral == Spec => []AverageIsIntegral
BY AverageInit, AverageNext, MapsKeepHistory, PTL DEF Spec

-----------------------------------------------------------------------------
(***************************************************************************)
(* The table of the metrics of a batch: their points, values and labels,   *)
(* and what they are called in the end.                                    *)
(***************************************************************************)
MemoryParts == {"memory"} \X {"used", "free"}
DiskNames == {"system.disk.io", "system.disk.operations", "system.disk.operation_time"}

RawPoints(n, P) ==
  CASE n = "system.cpu.time"     -> CPUs \X CPUStates
    [] n = "system.memory.usage" -> MemoryParts
    [] n \in DiskNames           -> OfDisk
    [] n = "process.disk.io"     -> P \X Directions

RawLabels(n, i) ==
  CASE n = "system.cpu.time"     -> CPULabels(i)
    [] n = "system.memory.usage" -> {<<"state", i[2]>>}
    [] n \in DiskNames           -> DiskLabels(i)
    [] n = "process.disk.io"     -> ProcessLabels(i[1], i[2])

RawValue(n, i, c, d) ==
  CASE n = "system.cpu.time"            -> c[i[1]][i[2]]
    [] n = "system.memory.usage"        -> 1
    [] n = "system.disk.operation_time" -> d[i[2]].time
    [] OTHER                            -> d[i[2]].ops

RawKind(n) == IF n = "system.memory.usage" THEN "Gauge" ELSE "Sum"

RowLabels(n, i) ==
  CASE n = "system.cpu.time"     -> {<<"cpu", TrimmedCPU(i[1])>>, <<"state", i[2]>>}
    [] n = "system.memory.usage" -> {<<"state", i[2]>>}
    [] n = "system.disk.io"      -> {<<"device", i[1]>>}
    [] n \in {"system.disk.operations", "system.disk.operation_time"} -> DiskLabels(i)
    [] n = "process.disk.io"     -> {<<"pid", i[1]>>, <<"command_line", "long">>}

FinalName(n, i) == IF n \in metricsToSplit THEN SplitName(n, i[2]) ELSE n

(* The metric m is the one called n in the table.                          *)
RawPoint(m, n, i, c, d) ==
  m.points[i].attrs = RawLabels(n, i) /\ m.points[i].num = RawValue(n, i, c, d)

RawIs(m, n, P, c, d) ==
  /\ m.name = n /\ m.kind = RawKind(n) /\ DOMAIN m.points = RawPoints(n, P)
  /\ \A i \in RawPoints(n, P) : RawPoint(m, n, i, c, d)

PresentNames(hosts, P) ==
  {"system.cpu.time", "system.memory.usage"} \cup (IF hosts = 2 THEN DiskNames ELSE {})
    \cup (IF P = {} THEN {} ELSE {"process.disk.io"})

LEMMA PointFields ==
  ASSUME NEW attrs, NEW v, NEW at
  PROVE  Point(attrs, v, at).attrs = attrs /\ Point(attrs, v, at).num = v
BY DEF Point

LEMMA RawCPU ==
  ASSUME NEW P, NEW c, NEW d, NEW at
  PROVE  RawIs(CPUTimes(c, at), "system.cpu.time", P, c, d)
<1> DEFINE m == CPUTimes(c, at)
           n == "system.cpu.time"
<1>1. m.name = n /\ m.kind = "Sum"
  BY DEF CPUTimes, MetricOf
<1>2. DOMAIN m.points = CPUs \X CPUStates
      /\ \A i \in CPUs \X CPUStates : m.points[i] = Point(CPULabels(i), c[i[1]][i[2]], at)
  BY CPUPoints
<1> HIDE DEF m
<1>3. RawPoints(n, P) = CPUs \X CPUStates /\ RawKind(n) = "Sum"
  BY DEF RawPoints, RawKind, DiskNames
<1>4. ASSUME NEW i \in CPUs \X CPUStates PROVE RawPoint(m, n, i, c, d)
  <2>1. m.points[i] = Point(CPULabels(i), c[i[1]][i[2]], at)
    BY <1>2
  <2>2. m.points[i].attrs = CPULabels(i) /\ m.points[i].num = c[i[1]][i[2]]
    BY <2>1, PointFields
  <2>3. RawLabels(n, i) = CPULabels(i) /\ RawValue(n, i, c, d) = c[i[1]][i[2]]
    BY DEF RawLabels, RawValue, DiskNames
  <2> QED BY <2>2, <2>3 DEF RawPoint
<1>5. RawIs(m, n, P, c, d)
  BY <1>1, <1>2, <1>3, <1>4 DEF RawIs
<1> QED BY <1>5 DEF m

LEMMA RawMemory ==
  ASSUME NEW P, NEW c, NEW d, NEW at
  PROVE  RawIs(MemoryGauge(at, "none"), "system.memory.usage", P, c, d)
<1> DEFINE m == MemoryGauge(at, "none")
           n == "system.memory.usage"
<1>1. m.name = n /\ m.kind = "Gauge" /\ m.points = MemoryUsage(at, "none").points
  BY DEF MemoryGauge, MetricOf
<1>2. MemoryUsage(at, "none").points
        = [i \in MemoryParts |-> Point({<<IF "none" = "state" THEN "part" ELSE "state", i[2]>>}, 1, at)]
  BY DEF MemoryUsage, MetricOf, MemoryParts
<1> HIDE DEF m
<1>3. DOMAIN m.points = MemoryParts /\ \A i \in MemoryParts : m.points[i] = Point({<<"state", i[2]>>}, 1, at)
  BY <1>1, <1>2
<1>4. RawPoints(n, P) = MemoryParts /\ RawKind(n) = "Gauge"
  BY DEF RawPoints, RawKind, DiskNames
<1>5. ASSUME NEW i \in MemoryParts PROVE RawPoint(m, n, i, c, d)
  <2>1. m.points[i] = Point({<<"state", i[2]>>}, 1, at)
    BY <1>3
  <2>2. m.points[i].attrs = {<<"state", i[2]>>} /\ m.points[i].num = 1
    BY <2>1, PointFields
  <2>3. RawLabels(n, i) = {<<"state", i[2]>>} /\ RawValue(n, i, c, d) = 1
    BY DEF RawLabels, RawValue, DiskNames
  <2> QED BY <2>2, <2>3 DEF RawPoint
<1>6. RawIs(m, n, P, c, d)
  BY <1>1, <1>3, <1>4, <1>5 DEF RawIs
<1> QED BY <1>6 DEF m

LEMMA RawDisk ==
  ASSUME NEW P, NEW c, NEW d, NEW at
  PROVE  /\ RawIs(DiskIo(d, at, "none"), "system.disk.io", P, c, d)
         /\ RawIs(DiskOperations(d, at), "system.disk.operations", P, c, d)
         /\ RawIs(DiskTime(d, at), "system.disk.operation_time", P, c, d)
<1>1. ASSUME NEW m, NEW n \in DiskNames, m.name = n, m.kind = "Sum", DOMAIN m.points = OfDisk,
             \A i \in OfDisk : m.points[i] = Point(DiskLabels(i), RawValue(n, i, c, d), at)
      PROVE  RawIs(m, n, P, c, d)
  <2>1. RawPoints(n, P) = OfDisk /\ RawKind(n) = "Sum"
    BY DEF RawPoints, RawKind, DiskNames
  <2>2. ASSUME NEW i \in OfDisk PROVE RawPoint(m, n, i, c, d)
    <3>1. m.points[i] = Point(DiskLabels(i), RawValue(n, i, c, d), at)
      BY <1>1
    <3>2. m.points[i].attrs = DiskLabels(i) /\ m.points[i].num = RawValue(n, i, c, d)
      BY <3>1, PointFields
    <3>3. RawLabels(n, i) = DiskLabels(i)
      BY DEF RawLabels, DiskNames
    <3> QED BY <3>2, <3>3 DEF RawPoint
  <2> QED BY <1>1, <2>1, <2>2 DEF RawIs
<1>2. \A i : /\ RawValue("system.disk.io", i, c, d) = d[i[2]].ops
             /\ RawValue("system.disk.operations", i, c, d) = d[i[2]].ops
             /\ RawValue("system.disk.operation_time", i, c, d) = d[i[2]].time
  BY DEF RawValue
<1>3. RawIs(DiskIo(d, at, "none"), "system.disk.io", P, c, d)
  <2> DEFINE m == DiskIo(d, at, "none")
  <2>1. m.name = "system.disk.io" /\ m.kind = "Sum"
    BY DEF DiskIo, MetricOf
  <2>2. m.points = [i \in OfDisk |->
          Point({<<"device", i[1]>>, <<IF "none" = "direction" THEN "way" ELSE "direction", i[2]>>},
                d[i[2]].ops, at)]
    BY DEF DiskIo, MetricOf
  <2> HIDE DEF m
  <2>3. DOMAIN m.points = OfDisk /\ \A i \in OfDisk : m.points[i] = Point(DiskLabels(i), d[i[2]].ops, at)
    BY <2>2 DEF DiskLabels
  <2>4. RawIs(m, "system.disk.io", P, c, d)
    BY <1>1, <1>2, <2>1, <2>3 DEF DiskNames
  <2> QED BY <2>4 DEF m
<1>4. RawIs(DiskOperations(d, at), "system.disk.operations", P, c, d)
  <2> DEFINE m == DiskOperations(d, at)
  <2>1. m.name = "system.disk.operations" /\ m.kind = "Sum"
    BY DEF DiskOperations, MetricOf
  <2>2. m.points = [i \in OfDisk |-> Point(DiskLabels(i), d[i[2]].ops, at)]
    BY DiskPoints
  <2> HIDE DEF m
  <2>3. DOMAIN m.points = OfDisk /\ \A i \in OfDisk : m.points[i] = Point(DiskLabels(i), d[i[2]].ops, at)
    BY <2>2
  <2>4. RawIs(m, "system.disk.operations", P, c, d)
    BY <1>1, <1>2, <2>1, <2>3 DEF DiskNames
  <2> QED BY <2>4 DEF m
<1>5. RawIs(DiskTime(d, at), "system.disk.operation_time", P, c, d)
  <2> DEFINE m == DiskTime(d, at)
  <2>1. m.name = "system.disk.operation_time" /\ m.kind = "Sum"
    BY DEF DiskTime, MetricOf
  <2>2. m.points = [i \in OfDisk |-> Point(DiskLabels(i), d[i[2]].time, at)]
    BY DiskPoints
  <2> HIDE DEF m
  <2>3. DOMAIN m.points = OfDisk /\ \A i \in OfDisk : m.points[i] = Point(DiskLabels(i), d[i[2]].time, at)
    BY <2>2
  <2>4. RawIs(m, "system.disk.operation_time", P, c, d)
    BY <1>1, <1>2, <2>1, <2>3 DEF DiskNames
  <2> QED BY <2>4 DEF m
<1> QED BY <1>3, <1>4, <1>5

LEMMA RawProcess ==
  ASSUME NEW P, NEW c, NEW d, NEW at
  PROVE  RawIs(JoinedIo(P, d, at), "process.disk.io", P, c, d)
<1> DEFINE m == JoinedIo(P, d, at)
           n == "process.disk.io"
<1>1. m.name = n /\ m.kind = "Sum"
  BY DEF JoinedIo, MetricOf
<1>2. m.points = [i \in P \X Directions |-> Point(ProcessLabels(i[1], i[2]), d[i[2]].ops, at)]
  BY DEF JoinedIo, MetricOf
<1> HIDE DEF m
<1>3. RawPoints(n, P) = P \X Directions /\ RawKind(n) = "Sum"
  BY DEF RawPoints, RawKind, DiskNames
<1>4. ASSUME NEW i \in P \X Directions PROVE RawPoint(m, n, i, c, d)
  <2>1. m.points[i] = Point(ProcessLabels(i[1], i[2]), d[i[2]].ops, at)
    BY <1>2
  <2>2. m.points[i].attrs = ProcessLabels(i[1], i[2]) /\ m.points[i].num = d[i[2]].ops
    BY <2>1, PointFields
  <2>3. RawLabels(n, i) = ProcessLabels(i[1], i[2]) /\ RawValue(n, i, c, d) = d[i[2]].ops
    BY DEF RawLabels, RawValue, DiskNames
  <2> QED BY <2>2, <2>3 DEF RawPoint
<1>5. DOMAIN m.points = P \X Directions
  BY <1>2
<1>6. RawIs(m, n, P, c, d)
  BY <1>1, <1>3, <1>4, <1>5 DEF RawIs
<1> QED BY <1>6 DEF m

(* The metrics of a batch are those of the table.                          *)
LEMMA RawTable ==
  ASSUME NEW hosts, NEW P, NEW c, NEW d, NEW at
  PROVE  /\ \A m \in RawMetrics(hosts, P, c, d, at, "none") :
              \E n \in PresentNames(hosts, P) : RawIs(m, n, P, c, d)
         /\ \A n \in PresentNames(hosts, P) :
              \E m \in RawMetrics(hosts, P, c, d, at, "none") : RawIs(m, n, P, c, d)
<1> DEFINE m1 == CPUTimes(c, at)
           m2 == MemoryGauge(at, "none")
           m3 == DiskIo(d, at, "none")
           m4 == DiskOperations(d, at)
           m5 == DiskTime(d, at)
           m6 == JoinedIo(P, d, at)
           W == RawMetrics(hosts, P, c, d, at, "none")
<1>1. RawIs(m1, "system.cpu.time", P, c, d)
  BY RawCPU
<1>2. RawIs(m2, "system.memory.usage", P, c, d)
  BY RawMemory
<1>3. /\ RawIs(m3, "system.disk.io", P, c, d)
      /\ RawIs(m4, "system.disk.operations", P, c, d)
      /\ RawIs(m5, "system.disk.operation_time", P, c, d)
  BY RawDisk
<1>4. RawIs(m6, "process.disk.io", P, c, d)
  BY RawProcess
<1>5. W = {m1, m2} \cup (IF hosts = 2 THEN {m3, m4, m5} ELSE {}) \cup (IF P = {} THEN {} ELSE {m6})
  BY DEF RawMetrics, HostMetrics, DiskMetrics, ProcessMetric
<1> HIDE DEF m1, m2, m3, m4, m5, m6, W
<1>6. \A m \in W : \E n \in PresentNames(hosts, P) : RawIs(m, n, P, c, d)
  BY <1>1, <1>2, <1>3, <1>4, <1>5 DEF PresentNames, DiskNames
<1>7. \A n \in PresentNames(hosts, P) : \E m \in W : RawIs(m, n, P, c, d)
  BY <1>1, <1>2, <1>3, <1>4, <1>5 DEF PresentNames, DiskNames
<1> QED BY <1>6, <1>7 DEF W

(* The direction that is dropped, the CPU numbers that are cleaned.        *)
LEMMA NoCPULabel ==
  ASSUME NEW a, \A l \in a : l[1] # "cpu"
  PROVE  CleanLabels(a) = a
BY DEF CleanLabels, Has

AllNames == {"system.cpu.time", "system.memory.usage", "process.disk.io"} \cup DiskNames

LEMMA LabelsCleaned ==
  ASSUME NEW P, NEW n \in AllNames \ metricsToSplit, NEW i \in RawPoints(n, P)
  PROVE  CleanLabels(RawLabels(n, i)) = RowLabels(n, i)
<1>1. CASE n = "system.cpu.time"
  <2>1. i \in CPUs \X CPUStates
    BY <1>1 DEF RawPoints, DiskNames
  <2>2. RawLabels(n, i) = CPULabels(i)
    BY <1>1 DEF RawLabels, DiskNames
  <2>3. RowLabels(n, i) = {<<"cpu", TrimmedCPU(i[1])>>, <<"state", i[2]>>}
    BY <1>1 DEF RowLabels
  <2> QED BY <2>1, <2>2, <2>3, CPULabelsCleaned
<1>2. CASE n = "system.memory.usage"
  <2>1. RawLabels(n, i) = {<<"state", i[2]>>} /\ RowLabels(n, i) = {<<"state", i[2]>>}
    BY <1>2 DEF RawLabels, RowLabels, DiskNames
  <2>2. <<"state", i[2]>>[1] = "state"
    OBVIOUS
  <2>3. CleanLabels({<<"state", i[2]>>}) = {<<"state", i[2]>>}
    BY <2>2, NoCPULabel
  <2> QED BY <2>1, <2>3
<1>3. CASE n \in {"system.disk.operations", "system.disk.operation_time"}
  <2>1. RawLabels(n, i) = DiskLabels(i) /\ RowLabels(n, i) = DiskLabels(i)
    BY <1>3 DEF RawLabels, RowLabels, DiskNames
  <2>2. \A l \in DiskLabels(i) : l[1] # "cpu"
    BY DEF DiskLabels
  <2>3. CleanLabels(DiskLabels(i)) = DiskLabels(i)
    BY <2>2, NoCPULabel
  <2> QED BY <2>1, <2>3
<1> QED BY <1>1, <1>2, <1>3 DEF AllNames, DiskNames, metricsToSplit

LEMMA LabelsSplit ==
  ASSUME NEW P, NEW n \in metricsToSplit, NEW i
  PROVE  /\ Get(RawLabels(n, i), "direction") = i[2]
         /\ CleanLabels(Drop(RawLabels(n, i), "direction")) = RowLabels(n, i)
<1> DEFINE y == <<"direction", i[2]>>
<1>1. y[1] = "direction" /\ y[2] = i[2]
  OBVIOUS
<1>2. ASSUME NEW a, NEW r, y \in a, \A l \in r : l[1] # "direction" /\ l[1] # "cpu", a = r \cup {y}
      PROVE  Get(a, "direction") = i[2] /\ CleanLabels(Drop(a, "direction")) = r
  <2> HIDE DEF y
  <2>1. \A l \in a : l[1] = y[1] => l = y
    BY <1>1, <1>2
  <2>2. Get(a, y[1]) = y[2]
    BY <1>2, <2>1, GetOne
  <2>3. Drop(a, "direction") = r
    BY <1>1, <1>2 DEF Drop
  <2>4. CleanLabels(r) = r
    BY <1>2, NoCPULabel
  <2> QED BY <1>1, <2>2, <2>3, <2>4
<1>3. CASE n = "system.disk.io"
  <2> DEFINE r == {<<"device", i[1]>>}
  <2>1. RawLabels(n, i) = DiskLabels(i) /\ RowLabels(n, i) = r
    BY <1>3 DEF RawLabels, RowLabels, DiskNames
  <2>2. DiskLabels(i) = r \cup {y}
    BY DEF DiskLabels
  <2>3. \A l \in r : l[1] # "direction" /\ l[1] # "cpu"
    OBVIOUS
  <2> HIDE DEF r, y
  <2> QED BY <1>2, <2>1, <2>2, <2>3
<1>4. CASE n = "process.disk.io"
  <2> DEFINE r == {<<"pid", i[1]>>, <<"command_line", "long">>}
  <2>1. RawLabels(n, i) = ProcessLabels(i[1], i[2]) /\ RowLabels(n, i) = r
    BY <1>4 DEF RawLabels, RowLabels, DiskNames
  <2>2. ProcessLabels(i[1], i[2]) = r \cup {y}
    BY DEF ProcessLabels
  <2>3. \A l \in r : l[1] # "direction" /\ l[1] # "cpu"
    OBVIOUS
  <2> HIDE DEF r, y
  <2> QED BY <1>2, <2>1, <2>2, <2>3
<1> QED BY <1>3, <1>4 DEF metricsToSplit

(* What is left of the points S of the metric n in the end.                *)
RowPoint(m, n, i, c, d) ==
  /\ m.name = FinalName(n, i)
  /\ m.points[i].attrs = BlankLabels(FinalName(n, i), RowLabels(n, i))
  /\ m.points[i].num = RawValue(n, i, c, d)

RowsOf(m, n, S, c, d) ==
  /\ DOMAIN m.points = S /\ m.kind = RawKind(n)
  /\ \A i \in S : RowPoint(m, n, i, c, d)

Directed(n, P, x) == {i \in RawPoints(n, P) : i[2] = x}

LEMMA WholeRows ==
  ASSUME NEW m, NEW P, NEW c, NEW d, NEW n \in AllNames \ metricsToSplit, RawIs(m, n, P, c, d)
  PROVE  RowsOf(Finished(m), n, RawPoints(n, P), c, d)
<1> DEFINE z == Finished(m)
           S == RawPoints(n, P)
<1>1. /\ m.name = n /\ m.kind = RawKind(n) /\ DOMAIN m.points = S
      /\ \A i \in S : RawPoint(m, n, i, c, d)
  BY DEF RawIs
<1>2. /\ z.name = m.name /\ z.kind = m.kind /\ DOMAIN z.points = DOMAIN m.points
      /\ \A i \in DOMAIN m.points : /\ z.points[i].attrs = FinishedLabels(m.name, m.points[i].attrs)
                                    /\ z.points[i].num = m.points[i].num
  BY FinishedIs
<1> HIDE DEF z
<1>3. ASSUME NEW i \in S PROVE RowPoint(z, n, i, c, d)
  <2>1. m.points[i].attrs = RawLabels(n, i) /\ m.points[i].num = RawValue(n, i, c, d)
    BY <1>1 DEF RawPoint
  <2>2. CleanLabels(RawLabels(n, i)) = RowLabels(n, i)
    BY LabelsCleaned
  <2>3. FinalName(n, i) = n
    BY DEF FinalName
  <2>4. z.points[i].attrs = FinishedLabels(n, RawLabels(n, i)) /\ z.points[i].num = RawValue(n, i, c, d)
    BY <1>1, <1>2, <2>1
  <2>5. z.points[i].attrs = BlankLabels(n, RowLabels(n, i))
    BY <2>2, <2>4 DEF FinishedLabels
  <2> QED BY <1>1, <1>2, <2>3, <2>4, <2>5 DEF RowPoint
<1>4. RowsOf(z, n, S, c, d)
  <2> HIDE DEF S
  <2> QED BY <1>1, <1>2, <1>3 DEF RowsOf
<1> QED BY <1>4 DEF z

LEMMA SplitRows ==
  ASSUME NEW m, NEW P, NEW c, NEW d, NEW n \in metricsToSplit, RawIs(m, n, P, c, d), NEW x
  PROVE  RowsOf(Finished(splitReadWriteBytesMetric(m, x)), n, Directed(n, P, x), c, d)
<1> DEFINE y == splitReadWriteBytesMetric(m, x)
           z == Finished(y)
           S == RawPoints(n, P)
           D == Directed(n, P, x)
<1>1. /\ m.name = n /\ m.kind = RawKind(n) /\ DOMAIN m.points = S
      /\ \A i \in S : RawPoint(m, n, i, c, d)
  BY DEF RawIs
<1>2. \A i \in S : m.points[i].attrs = RawLabels(n, i) /\ m.points[i].num = RawValue(n, i, c, d)
  <2> HIDE DEF S
  <2> QED BY <1>1 DEF RawPoint
<1>3. \A i \in S : Get(m.points[i].attrs, "direction") = i[2]
  BY <1>2, LabelsSplit
<1>4. Going(m, x) = D
  <2> HIDE DEF S
  <2>1. Going(m, x) = {i \in S : i[2] = x}
    BY <1>1, <1>3 DEF Going
  <2> QED BY <2>1 DEF Directed, S
<1>5. /\ y.name = SplitName(n, x) /\ y.kind = m.kind
      /\ y.points = [i \in Going(m, x) |-> Labelled(m.points[i], Drop(m.points[i].attrs, "direction"))]
  BY <1>1 DEF splitReadWriteBytesMetric, MetricOf
<1> HIDE DEF y
<1>6. /\ z.name = y.name /\ z.kind = y.kind /\ DOMAIN z.points = DOMAIN y.points
      /\ \A i \in DOMAIN y.points : /\ z.points[i].attrs = FinishedLabels(y.name, y.points[i].attrs)
                                    /\ z.points[i].num = y.points[i].num
  BY FinishedIs
<1> HIDE DEF z, D, S
<1>7. DOMAIN y.points = D
  BY <1>4, <1>5
<1>8. ASSUME NEW i \in D PROVE RowPoint(z, n, i, c, d)
  <2>1. i \in S /\ i[2] = x
    BY DEF D, S, Directed
  <2>2. y.points[i] = Labelled(m.points[i], Drop(m.points[i].attrs, "direction"))
    BY <1>4, <1>5
  <2>3. y.points[i].attrs = Drop(m.points[i].attrs, "direction") /\ y.points[i].num = m.points[i].num
    BY <2>2 DEF Labelled
  <2>4. y.points[i].attrs = Drop(RawLabels(n, i), "direction") /\ y.points[i].num = RawValue(n, i, c, d)
    BY <1>2, <2>1, <2>3
  <2>5. CleanLabels(Drop(RawLabels(n, i), "direction")) = RowLabels(n, i)
    BY LabelsSplit
  <2>6. FinalName(n, i) = SplitName(n, x)
    BY <2>1 DEF FinalName
  <2>7. z.points[i].attrs = FinishedLabels(y.name, Drop(RawLabels(n, i), "direction"))
        /\ z.points[i].num = RawValue(n, i, c, d)
    BY <1>6, <1>7, <2>4
  <2>8. z.points[i].attrs = BlankLabels(y.name, RowLabels(n, i))
    BY <2>5, <2>7 DEF FinishedLabels
  <2> QED BY <1>5, <1>6, <2>6, <2>7, <2>8 DEF RowPoint
<1>9. RowsOf(z, n, D, c, d)
  BY <1>1, <1>5, <1>6, <1>7, <1>8 DEF RowsOf
<1> QED BY <1>9 DEF z, y, D

LEMMA FinalRows ==
  ASSUME NEW hosts, NEW P, NEW c, NEW d, NEW at, NEW prevCPU, NEW prevOps,
         NEW m \in FinalMetrics(hosts, P, c, d, at, prevCPU, prevOps), m.name \notin Derived
  PROVE  \E n \in PresentNames(hosts, P) : \E S \in SUBSET RawPoints(n, P) : RowsOf(m, n, S, c, d)
<1> DEFINE W == RawMetrics(hosts, P, c, d, at, "none")
<1>1. \A y \in W : \E n \in PresentNames(hosts, P) : RawIs(y, n, P, c, d)
  BY RawTable
<1>2. PresentNames(hosts, P) \subseteq AllNames
  BY DEF PresentNames, AllNames
<1>3. \/ \E x \in SplitMetrics(W) : m = Finished(x)
      \/ \E x \in ShareMetrics(c, at, prevCPU) : m = Finished(x)
      \/ \E x \in AverageMetrics(hosts, d, at, prevOps) : m = Blanked(x)
  BY FinalIs
<1>4. ASSUME NEW x \in ShareMetrics(c, at, prevCPU), m = Finished(x) PROVE FALSE
  <2>1. m.name = x.name
    BY <1>4, FinishedIs
  <2>2. x.name \in Derived
    BY SharesNamed DEF ShareMetrics, Derived
  <2> QED BY <2>1, <2>2
<1>5. ASSUME NEW x \in AverageMetrics(hosts, d, at, prevOps), m = Blanked(x) PROVE FALSE
  <2>1. m.name = x.name
    BY <1>5, BlankedIs
  <2>2. x = averageTimeMetric(AfterDisk(d, at, prevOps), KnownDisks(hosts, prevOps))
    BY DEF AverageMetrics
  <2>3. x.name = "system.disk.average_operation_time"
    BY <2>2 DEF averageTimeMetric, MetricOf
  <2> QED BY <2>1, <2>3 DEF Derived
<1>6. PICK x \in SplitMetrics(W) : m = Finished(x)
  BY <1>3, <1>4, <1>5
<1>7. \/ \E y \in W : x = ReadPart(y)
      \/ \E y \in W : y.name \in metricsToSplit /\ x = splitReadWriteBytesMetric(y, "write")
  BY DEF SplitMetrics, Reads, Writes
<1> HIDE DEF W
<1>8. PICK y \in W : \/ x = ReadPart(y)
                     \/ y.name \in metricsToSplit /\ x = splitReadWriteBytesMetric(y, "write")
  BY <1>7
<1>9. PICK n \in PresentNames(hosts, P) : RawIs(y, n, P, c, d)
  BY <1>1
<1>10. y.name = n
  BY <1>9 DEF RawIs
<1>11. CASE n \in metricsToSplit
  <2>1. PICK w : x = splitReadWriteBytesMetric(y, w)
    BY <1>8, <1>10, <1>11 DEF ReadPart
  <2>2. RowsOf(m, n, Directed(n, P, w), c, d)
    BY <1>6, <1>9, <1>11, <2>1, SplitRows
  <2>3. Directed(n, P, w) \subseteq RawPoints(n, P)
    BY DEF Directed
  <2> QED BY <2>2, <2>3
<1>12. CASE n \notin metricsToSplit
  <2>1. x = y
    BY <1>8, <1>10, <1>12 DEF ReadPart
  <2>2. RowsOf(m, n, RawPoints(n, P), c, d)
    BY <1>2, <1>6, <1>9, <1>12, <2>1, WholeRows
  <2> QED BY <2>2
<1> QED BY <1>11, <1>12

LEMMA SplitDirections ==
  ASSUME NEW P, NEW n \in metricsToSplit, NEW i \in RawPoints(n, P)
  PROVE  i[2] \in Directions
<1>1. RawPoints(n, P) = OfDisk \/ RawPoints(n, P) = P \X Directions
  BY DEF metricsToSplit, RawPoints, DiskNames
<1> QED BY <1>1 DEF OfDisk

LEMMA NamesNotDerived ==
  ASSUME NEW n \in AllNames, NEW P, NEW i \in RawPoints(n, P)
  PROVE  FinalName(n, i) \notin Derived
<1>1. CASE n \in metricsToSplit
  <2>1. i[2] = "read" \/ i[2] = "write"
    BY <1>1, SplitDirections DEF Directions
  <2> QED BY <1>1, <2>1 DEF FinalName, SplitName, metricsToSplit, Derived
<1>2. CASE n \notin metricsToSplit
  BY <1>2 DEF FinalName, AllNames, DiskNames, Derived
<1> QED BY <1>1, <1>2

LEMMA FinalHas ==
  ASSUME NEW hosts, NEW P, NEW c, NEW d, NEW at, NEW prevCPU, NEW prevOps,
         NEW n \in PresentNames(hosts, P), NEW i \in RawPoints(n, P)
  PROVE  \E m \in FinalMetrics(hosts, P, c, d, at, prevCPU, prevOps) :
           \E S : i \in S /\ RowsOf(m, n, S, c, d)
<1> DEFINE W == RawMetrics(hosts, P, c, d, at, "none")
           T == FinalMetrics(hosts, P, c, d, at, prevCPU, prevOps)
<1>1. PICK y \in W : RawIs(y, n, P, c, d)
  BY RawTable
<1>2. n \in AllNames
  BY DEF PresentNames, AllNames
<1>3. \A x \in SplitMetrics(W) : Finished(x) \in T
  BY FinalIs
<1>4. y.name = n
  BY <1>1 DEF RawIs
<1>5. ReadPart(y) \in SplitMetrics(W)
  BY DEF SplitMetrics, Reads
<1>6. y.name \in metricsToSplit => splitReadWriteBytesMetric(y, "write") \in SplitMetrics(W)
  BY DEF SplitMetrics, Writes
<1> HIDE DEF W, T
<1>7. CASE n \in metricsToSplit
  <2>1. ReadPart(y) = splitReadWriteBytesMetric(y, "read")
    BY <1>4, <1>7 DEF ReadPart
  <2>2. i[2] \in {"read", "write"}
    BY <1>7, SplitDirections DEF Directions
  <2>3. i \in Directed(n, P, i[2])
    BY DEF Directed
  <2>4. RowsOf(Finished(splitReadWriteBytesMetric(y, i[2])), n, Directed(n, P, i[2]), c, d)
    BY <1>1, <1>7, SplitRows
  <2>5. splitReadWriteBytesMetric(y, i[2]) \in SplitMetrics(W)
    BY <1>4, <1>5, <1>6, <1>7, <2>1, <2>2
  <2>6. Finished(splitReadWriteBytesMetric(y, i[2])) \in T
    BY <1>3, <2>5
  <2> QED BY <2>3, <2>4, <2>6 DEF T
<1>8. CASE n \notin metricsToSplit
  <2>1. ReadPart(y) = y
    BY <1>4, <1>8 DEF ReadPart
  <2>2. Finished(y) \in T
    BY <1>3, <1>5, <2>1
  <2>3. RowsOf(Finished(y), n, RawPoints(n, P), c, d)
    BY <1>1, <1>2, <1>8, WholeRows
  <2> QED BY <2>2, <2>3 DEF T
<1> QED BY <1>7, <1>8

-----------------------------------------------------------------------------
(***************************************************************************)
(* The points of a metric differ in their labels.                          *)
(***************************************************************************)
LEMMA BlankApart ==
  ASSUME NEW name, NEW a, NEW b, \A l \in a \cup b : l[1] # "blank", BlankLabels(name, a) = BlankLabels(name, b)
  PROVE  a = b
<1> DEFINE w == <<"blank", "">>
<1>1. w[1] = "blank"
  OBVIOUS
<1>2. CASE name \in BlankLabelMetrics
  <2>1. Put(a, "blank", "") = Put(b, "blank", "")
    BY <1>2 DEF BlankLabels
  <2>2. \A l : l[1] # "blank" => (l \in Put(a, "blank", "") <=> l \in a)
    BY <1>1 DEF Put
  <2>3. \A l : l[1] # "blank" => (l \in Put(b, "blank", "") <=> l \in b)
    BY <1>1 DEF Put
  <2>4. \A l : l \in a <=> l \in b
    BY <2>1, <2>2, <2>3
  <2> QED BY <2>4
<1>3. CASE name \notin BlankLabelMetrics
  BY <1>3 DEF BlankLabels
<1> QED BY <1>2, <1>3

LEMMA SplitNamesApart ==
  ASSUME NEW n \in metricsToSplit, NEW x \in Directions, NEW y \in Directions, SplitName(n, x) = SplitName(n, y)
  PROVE  x = y
BY DEF metricsToSplit, Directions, SplitName

(* Two labels of one name in a set of labels that has the name once.       *)
LEMMA SameLabel ==
  ASSUME NEW k, NEW u, NEW v, NEW a, <<k, u>> \in a, <<k, v>> \in a, \A l \in a : l[1] = k => l = <<k, u>>
  PROVE  u = v
<1>1. <<k, v>>[1] = k /\ <<k, v>>[2] = v /\ <<k, u>>[2] = u
  OBVIOUS
<1>2. <<k, v>> = <<k, u>>
  BY <1>1
<1> QED BY <1>1, <1>2

Two(k, u, h, x) == {<<k, u>>, <<h, x>>}

LEMMA TwoLabels ==
  ASSUME NEW k, NEW h, k # h, NEW u, NEW v, NEW x, NEW y, Two(k, u, h, x) = Two(k, v, h, y)
  PROVE  u = v /\ x = y
<1> DEFINE a == {<<k, u>>, <<h, x>>}
<1>1. <<k, u>>[1] = k /\ <<h, x>>[1] = h
  OBVIOUS
<1>2. <<k, u>> \in a /\ <<k, v>> \in a /\ <<h, x>> \in a /\ <<h, y>> \in a
  <2>1. a = {<<k, v>>, <<h, y>>}
    BY DEF Two
  <2>2. <<k, v>> \in {<<k, v>>, <<h, y>>} /\ <<h, y>> \in {<<k, v>>, <<h, y>>}
    OBVIOUS
  <2>3. <<k, u>> \in a /\ <<h, x>> \in a
    OBVIOUS
  <2> HIDE DEF a
  <2> QED BY <2>1, <2>2, <2>3
<1>3. (\A l \in a : l[1] = k => l = <<k, u>>) /\ (\A l \in a : l[1] = h => l = <<h, x>>)
  BY <1>1
<1> HIDE DEF a
<1>4. u = v
  BY <1>2, <1>3, SameLabel
<1>5. x = y
  BY <1>2, <1>3, SameLabel
<1> QED BY <1>4, <1>5

LEMMA OneLabel ==
  ASSUME NEW k, NEW u, NEW v, {<<k, u>>} = {<<k, v>>}
  PROVE  u = v
<1>1. <<k, u>> = <<k, v>>
  OBVIOUS
<1> QED BY <1>1

LEMMA TrimmedApart ==
  ASSUME NEW x \in CPUs, NEW y \in CPUs, TrimmedCPU(x) = TrimmedCPU(y)
  PROVE  x = y
BY DEF CPUs, TrimmedCPU

LEMMA NoBlankRow ==
  ASSUME NEW n \in AllNames, NEW i, NEW l \in RowLabels(n, i)
  PROVE  l[1] # "blank"
BY DEF AllNames, DiskNames, RowLabels, DiskLabels

LEMMA RowsApart ==
  ASSUME NEW n \in AllNames, NEW P, NEW i \in RawPoints(n, P), NEW j \in RawPoints(n, P), NEW name,
         FinalName(n, i) = FinalName(n, j),
         BlankLabels(name, RowLabels(n, i)) = BlankLabels(name, RowLabels(n, j))
  PROVE  i = j
<1>1. RowLabels(n, i) = RowLabels(n, j)
  BY NoBlankRow, BlankApart
<1>2. CASE n = "system.cpu.time"
  <2>1. i \in CPUs \X CPUStates /\ j \in CPUs \X CPUStates
    BY <1>2 DEF RawPoints, DiskNames
  <2>2. Two("cpu", TrimmedCPU(i[1]), "state", i[2]) = Two("cpu", TrimmedCPU(j[1]), "state", j[2])
    BY <1>1, <1>2 DEF RowLabels, Two
  <2>3. TrimmedCPU(i[1]) = TrimmedCPU(j[1]) /\ i[2] = j[2]
    <3> DEFINE k == "cpu"
               h == "state"
    <3>1. k # h
      OBVIOUS
    <3>2. Two(k, TrimmedCPU(i[1]), h, i[2]) = Two(k, TrimmedCPU(j[1]), h, j[2])
      BY <2>2
    <3> HIDE DEF k, h
    <3> QED BY <3>1, <3>2, TwoLabels
  <2>4. i[1] = j[1]
    BY <2>1, <2>3, TrimmedApart
  <2> QED BY <2>1, <2>3, <2>4
<1>3. CASE n = "system.memory.usage"
  <2>1. i \in MemoryParts /\ j \in MemoryParts
    BY <1>3 DEF RawPoints, DiskNames
  <2>2. {<<"state", i[2]>>} = {<<"state", j[2]>>}
    BY <1>1, <1>3 DEF RowLabels
  <2>3. i[2] = j[2]
    BY <2>2, OneLabel
  <2> QED BY <2>1, <2>3 DEF MemoryParts
<1>4. CASE n \in DiskNames \ metricsToSplit
  <2>1. i \in OfDisk /\ j \in OfDisk
    BY <1>4 DEF RawPoints, DiskNames
  <2>2. DiskLabels(i) = DiskLabels(j)
    BY <1>1, <1>4 DEF RowLabels, DiskNames, metricsToSplit
  <2>3. i[1] = j[1] /\ i[2] = j[2]
    <3> DEFINE k == "device"
               h == "direction"
    <3>1. k # h
      OBVIOUS
    <3>2. Two(k, i[1], h, i[2]) = Two(k, j[1], h, j[2])
      BY <2>2 DEF DiskLabels, Two
    <3> HIDE DEF k, h
    <3> QED BY <3>1, <3>2, TwoLabels
  <2> QED BY <2>1, <2>3 DEF OfDisk
<1>5. CASE n \in metricsToSplit
  <2>1. SplitName(n, i[2]) = SplitName(n, j[2])
    BY <1>5 DEF FinalName
  <2>2. i[2] \in Directions /\ j[2] \in Directions
    BY <1>5, SplitDirections
  <2>3. i[2] = j[2]
    BY <1>5, <2>1, <2>2, SplitNamesApart
  <2>4. CASE n = "system.disk.io"
    <3>1. i \in OfDisk /\ j \in OfDisk
      BY <2>4 DEF RawPoints, DiskNames
    <3> QED BY <2>3, <3>1 DEF OfDisk
  <2>5. CASE n = "process.disk.io"
    <3>1. i \in P \X Directions /\ j \in P \X Directions
      BY <2>5 DEF RawPoints, DiskNames
    <3> DEFINE k == "pid"
               h == "command_line"
               line == "long"
    <3>2. Two(k, i[1], h, line) = Two(k, j[1], h, line) /\ k # h
      BY <1>1, <2>5 DEF RowLabels, DiskNames, Two
    <3>3. i[1] = j[1]
      <4> HIDE DEF k, h, line
      <4> QED BY <3>2, TwoLabels
    <3> QED BY <2>3, <3>1, <3>3
  <2> QED BY <1>5, <2>4, <2>5 DEF metricsToSplit
<1> QED BY <1>2, <1>3, <1>4, <1>5 DEF AllNames, DiskNames, metricsToSplit

Distinct(m) == \A i, j \in DOMAIN m.points : m.points[i].attrs = m.points[j].attrs => i = j

(* A metric with the labels of some points of the table.                   *)
LabelledAs(m, name, n, P) ==
  /\ DOMAIN m.points \subseteq RawPoints(n, P)
  /\ \A i \in DOMAIN m.points : m.points[i].attrs = BlankLabels(name, RowLabels(n, i))
  /\ \A i, j \in DOMAIN m.points : FinalName(n, i) = FinalName(n, j)

LEMMA LabelledApart ==
  ASSUME NEW m, NEW name, NEW n \in AllNames, NEW P, LabelledAs(m, name, n, P)
  PROVE  Distinct(m)
<1>1. /\ DOMAIN m.points \subseteq RawPoints(n, P)
      /\ \A i \in DOMAIN m.points : m.points[i].attrs = BlankLabels(name, RowLabels(n, i))
      /\ \A i, j \in DOMAIN m.points : FinalName(n, i) = FinalName(n, j)
  BY DEF LabelledAs
<1>2. ASSUME NEW i \in DOMAIN m.points, NEW j \in DOMAIN m.points, m.points[i].attrs = m.points[j].attrs
      PROVE  i = j
  <2>1. i \in RawPoints(n, P) /\ j \in RawPoints(n, P)
    BY <1>1
  <2>2. FinalName(n, i) = FinalName(n, j)
    BY <1>1
  <2>3. BlankLabels(name, RowLabels(n, i)) = BlankLabels(name, RowLabels(n, j))
    BY <1>1, <1>2
  <2> QED BY <2>1, <2>2, <2>3, RowsApart
<1> QED BY <1>2 DEF Distinct

LEMMA CPUSharesApart ==
  ASSUME NEW c, NEW at, NEW prev
  PROVE  Distinct(Finished(CPUShares(c, at, prev)))
<1> DEFINE x == CPUShares(c, at, prev)
           u == UsedPoints(CPUTimes(c, at), prev)
           m == Finished(x)
           n == "system.cpu.time"
<1>1. UsedFrom(u, c, prev)
  BY UsedCPUPoints
<1>2. SharesOf(x.points, u)
  BY SharesPoints
<1> HIDE DEF x, u
<1>3. /\ DOMAIN m.points = DOMAIN x.points
      /\ \A i \in DOMAIN x.points : m.points[i].attrs = FinishedLabels(x.name, x.points[i].attrs)
  BY FinishedIs
<1> HIDE DEF m
<1>4. DOMAIN m.points \subseteq CPUs \X CPUStates
  BY <1>1, <1>2, <1>3 DEF UsedFrom, SharesOf
<1>5. RawPoints(n, {}) = CPUs \X CPUStates
  BY DEF RawPoints, DiskNames
<1>6. ASSUME NEW i \in DOMAIN m.points PROVE m.points[i].attrs = BlankLabels(x.name, RowLabels(n, i))
  <2>1. x.points[i].attrs = CPULabels(i)
    BY <1>1, <1>2, <1>3 DEF UsedFrom, SharesOf
  <2>2. CleanLabels(CPULabels(i)) = {<<"cpu", TrimmedCPU(i[1])>>, <<"state", i[2]>>}
    BY <1>4, CPULabelsCleaned
  <2>3. RowLabels(n, i) = {<<"cpu", TrimmedCPU(i[1])>>, <<"state", i[2]>>}
    BY DEF RowLabels
  <2>4. CleanLabels(CPULabels(i)) = RowLabels(n, i)
    BY <2>2, <2>3, Zenon
  <2>5. m.points[i].attrs = FinishedLabels(x.name, CPULabels(i))
    BY <1>3, <2>1
  <2> QED BY <2>4, <2>5 DEF FinishedLabels
<1>7. \A i : FinalName(n, i) = n
  BY DEF FinalName, metricsToSplit
<1>8. LabelledAs(m, x.name, n, {})
  BY <1>4, <1>5, <1>6, <1>7 DEF LabelledAs
<1>9. Distinct(m)
  BY <1>8, LabelledApart DEF AllNames
<1> QED BY <1>9 DEF m, x

LEMMA MemorySharesApart ==
  ASSUME NEW at
  PROVE  Distinct(Finished(MemoryShares(at, "none")))
<1> DEFINE x == MemoryShares(at, "none")
           g == MemoryGauge(at, "none")
           m == Finished(x)
           n == "system.memory.usage"
           num(i) == g.points[i].num
           den(i) == SumFunction(NumsOf(g.points, GroupOf(g.points, i)))
<1>1. RawIs(g, n, {}, <<>>, <<>>)
  BY RawMemory
<1>2. UsedPoints(g, <<>>) = g.points
  <2>1. g.name = n
    BY <1>1 DEF RawIs
  <2> HIDE DEF g
  <2> QED BY <2>1 DEF UsedPoints
<1>3. x.points = calculateUtilizationFromNumberDataPoints(g.points)
  BY <1>2 DEF MemoryShares, calculateUtilizationMetric, MetricOf
<1> HIDE DEF x, g
<1>4. x.points = [i \in DOMAIN g.points |-> [attrs |-> g.points[i].attrs, num |-> num(i), den |-> den(i),
                                             at |-> g.points[i].at]]
  BY <1>3 DEF calculateUtilizationFromNumberDataPoints, GroupOf, NumsOf
<1> HIDE DEF num, den
<1>5. DOMAIN x.points = RawPoints(n, {}) /\ DOMAIN g.points = RawPoints(n, {})
  BY <1>1, <1>4 DEF RawIs
<1>6. /\ DOMAIN m.points = DOMAIN x.points
      /\ \A i \in DOMAIN x.points : m.points[i].attrs = FinishedLabels(x.name, x.points[i].attrs)
  BY FinishedIs
<1> HIDE DEF m
<1>7. n \in AllNames \ metricsToSplit
  BY DEF AllNames, metricsToSplit
<1>8. ASSUME NEW i \in DOMAIN m.points PROVE m.points[i].attrs = BlankLabels(x.name, RowLabels(n, i))
  <2>1. i \in RawPoints(n, {})
    BY <1>5, <1>6
  <2>2. g.points[i].attrs = RawLabels(n, i)
    BY <1>1, <2>1 DEF RawIs, RawPoint
  <2>3. x.points[i] = [attrs |-> g.points[i].attrs, num |-> num(i), den |-> den(i), at |-> g.points[i].at]
    BY <1>4, <1>5, <2>1
  <2>4. x.points[i].attrs = RawLabels(n, i)
    BY <2>2, <2>3
  <2>5. CleanLabels(RawLabels(n, i)) = RowLabels(n, i)
    BY <1>7, <2>1, LabelsCleaned
  <2>6. m.points[i].attrs = FinishedLabels(x.name, RawLabels(n, i))
    BY <1>6, <2>4
  <2> QED BY <2>5, <2>6 DEF FinishedLabels
<1>9. \A i : FinalName(n, i) = n
  BY DEF FinalName, metricsToSplit
<1>10. LabelledAs(m, x.name, n, {})
  BY <1>5, <1>6, <1>8, <1>9 DEF LabelledAs
<1>11. Distinct(m)
  BY <1>7, <1>10, LabelledApart
<1> QED BY <1>11 DEF m, x

LEMMA AverageApart ==
  ASSUME NEW d, NEW at, NEW prev, NEW K \in SUBSET OfDisk
  PROVE  Distinct(Blanked(averageTimeMetric(AfterDisk(d, at, prev), K)))
<1> DEFINE op == AfterDisk(d, at, prev)
           new == DiskOp(d, at, prev)
           x == averageTimeMetric(op, K)
           m == Blanked(x)
           n == "system.disk.operations"
           cum(key) == IF key \in DOMAIN prev THEN Average(new[key], prev[key]) ELSE new[key].cumAvgTime
           old(key) == IF key \in DOMAIN prev THEN prev[key].cumAvgTime ELSE 0
           pt(key) == Point(DiskLabels(key), d[key[2]].time, at)
<1>1. x.points = [key \in K |-> [attrs |-> op[key].time.attrs, num |-> op[key].cumAvgTime,
                                 den |-> Scale, at |-> op[key].time.at]]
  BY DEF averageTimeMetric, MetricOf
<1> HIDE DEF x
<1>2. op = [key \in DOMAIN new |-> [operations |-> new[key].operations, time |-> new[key].time,
                                    cumAvgTime |-> cum(key)]]
  BY DEF AfterDisk, Averaged
<1>3. new = [key \in OfDisk |-> [operations |-> d[key[2]].ops, time |-> pt(key), cumAvgTime |-> old(key)]]
  BY DEF DiskOp
<1>4. \A key : pt(key).attrs = DiskLabels(key)
  BY PointFields
<1> HIDE DEF op, new, cum, old, pt
<1>5. ASSUME NEW key \in K PROVE x.points[key].attrs = DiskLabels(key)
  <2>1. new[key] = [operations |-> d[key[2]].ops, time |-> pt(key), cumAvgTime |-> old(key)]
        /\ key \in DOMAIN new
    BY <1>3
  <2>2. new[key].time = pt(key)
    BY <2>1
  <2>3. op[key] = [operations |-> new[key].operations, time |-> new[key].time, cumAvgTime |-> cum(key)]
    BY <1>2, <2>1
  <2>4. op[key].time = pt(key)
    BY <2>2, <2>3
  <2>5. x.points[key] = [attrs |-> op[key].time.attrs, num |-> op[key].cumAvgTime,
                         den |-> Scale, at |-> op[key].time.at]
    BY <1>1
  <2>6. x.points[key].attrs = op[key].time.attrs
    BY <2>5
  <2> QED BY <1>4, <2>4, <2>6
<1>6. DOMAIN x.points = K
  BY <1>1
<1>7. /\ DOMAIN m.points = DOMAIN x.points
      /\ \A i \in DOMAIN x.points : m.points[i].attrs = BlankLabels(x.name, x.points[i].attrs)
  BY BlankedIs
<1> HIDE DEF m
<1>8. RawPoints(n, {}) = OfDisk /\ \A i : RowLabels(n, i) = DiskLabels(i) /\ FinalName(n, i) = n
  BY DEF RawPoints, RowLabels, DiskNames, FinalName, metricsToSplit
<1>9. LabelledAs(m, x.name, n, {})
  BY <1>5, <1>6, <1>7, <1>8 DEF LabelledAs
<1>10. Distinct(m)
  BY <1>9, LabelledApart DEF AllNames, DiskNames
<1> QED BY <1>10 DEF m, x, op

LEMMA FinalApart ==
  ASSUME NEW hosts, NEW P, NEW c, NEW d, NEW at, NEW prevCPU, NEW prevOps,
         NEW m \in FinalMetrics(hosts, P, c, d, at, prevCPU, prevOps)
  PROVE  Distinct(m)
<1>1. CASE m.name \notin Derived
  <2>0. PICK n \in PresentNames(hosts, P) : \E S \in SUBSET RawPoints(n, P) : RowsOf(m, n, S, c, d)
    BY <1>1, FinalRows
  <2>1. PICK S \in SUBSET RawPoints(n, P) : RowsOf(m, n, S, c, d)
    BY <2>0
  <2>2. n \in AllNames
    BY DEF PresentNames, AllNames
  <2>3. DOMAIN m.points = S /\ \A i \in S : /\ m.name = FinalName(n, i)
                                            /\ m.points[i].attrs = BlankLabels(FinalName(n, i), RowLabels(n, i))
    BY <2>1 DEF RowsOf, RowPoint
  <2>4. LabelledAs(m, m.name, n, P)
    BY <2>3 DEF LabelledAs
  <2> QED BY <2>2, <2>4, LabelledApart
<1>2. CASE m.name \in Derived
  <2>1. \/ \E x \in SplitMetrics(RawMetrics(hosts, P, c, d, at, "none")) : m = Finished(x)
        \/ \E x \in ShareMetrics(c, at, prevCPU) : m = Finished(x)
        \/ \E x \in AverageMetrics(hosts, d, at, prevOps) : m = Blanked(x)
    BY FinalIs
  <2>2. ASSUME NEW x \in SplitMetrics(RawMetrics(hosts, P, c, d, at, "none")), m = Finished(x) PROVE FALSE
    <3>1. m.name = x.name
      BY <2>2, FinishedIs
    <3>2. x.name \notin Derived
      BY SplitNotDerived
    <3> QED BY <1>2, <3>1, <3>2
  <2>3. ASSUME NEW x \in ShareMetrics(c, at, prevCPU), m = Finished(x) PROVE Distinct(m)
    <3>1. x = CPUShares(c, at, prevCPU) \/ x = MemoryShares(at, "none")
      BY DEF ShareMetrics
    <3> QED BY <2>3, <3>1, CPUSharesApart, MemorySharesApart
  <2>4. ASSUME NEW x \in AverageMetrics(hosts, d, at, prevOps), m = Blanked(x) PROVE Distinct(m)
    <3>1. x = averageTimeMetric(AfterDisk(d, at, prevOps), KnownDisks(hosts, prevOps))
      BY DEF AverageMetrics
    <3>2. KnownDisks(hosts, prevOps) \subseteq OfDisk
      BY DEF KnownDisks
    <3> QED BY <2>4, <3>1, <3>2, AverageApart
  <2> QED BY <2>1, <2>2, <2>3, <2>4
<1> QED BY <1>1, <1>2

SeriesApart(out) ==
  \A s, t \in Streams(out) : s.metric = t.metric /\ s.point.attrs = t.point.attrs => s.place = t.place

LEMMA ListApart ==
  ASSUME NEW out, NEW T, Lists(out, T), \A m \in T : Distinct(m)
  PROVE  SeriesApart(out)
<1>1. ASSUME NEW s \in Streams(out), NEW t \in Streams(out),
             s.metric = t.metric, s.point.attrs = t.point.attrs
      PROVE  s.place = t.place
  <2>1. PICK p \in Places(out) : \E i \in DOMAIN At(out, p).points : s = StreamOf(At(out, p), p, i)
    BY StreamsAre
  <2>2. PICK i \in DOMAIN At(out, p).points : s = StreamOf(At(out, p), p, i)
    BY <2>1
  <2>3. PICK x \in Places(out) : \E j \in DOMAIN At(out, x).points : t = StreamOf(At(out, x), x, j)
    BY StreamsAre
  <2>4. PICK j \in DOMAIN At(out, x).points : t = StreamOf(At(out, x), x, j)
    BY <2>3
  <2>5. /\ s.metric = At(out, p).name /\ s.point = At(out, p).points[i] /\ s.place = <<p[1], p[2], i>>
        /\ t.metric = At(out, x).name /\ t.point = At(out, x).points[j] /\ t.place = <<x[1], x[2], j>>
    BY <2>2, <2>4 DEF StreamOf
  <2>6. p = x
    BY <1>1, <2>5 DEF Lists
  <2>7. Distinct(At(out, p))
    BY DEF Lists
  <2>8. i = j
    BY <1>1, <2>4, <2>5, <2>6, <2>7 DEF Distinct
  <2> QED BY <2>5, <2>6, <2>8
<1> QED BY <1>1 DEF SeriesApart

LEMMA NoSeriesTwiceInit == Init => NoSeriesTwice
BY DEF Init, NoSeriesTwice

LEMMA NoSeriesTwiceNext ==
  Inductive /\ NoSeriesTwice /\ [Next]_vars => NoSeriesTwice'
<1> SUFFICES ASSUME Inductive, NoSeriesTwice, [Next]_vars PROVE NoSeriesTwice'
  OBVIOUS
<1>1. CASE Scrape
  BY <1>1 DEF Scrape, NoSeriesTwice
<1>2. CASE newAgentMetricsProcessor
  BY <1>2 DEF newAgentMetricsProcessor, NoSeriesTwice
<1>3. CASE ProcessMetrics
  <2> SUFFICES ASSUME output' # None PROVE SeriesApart(output')
    BY DEF NoSeriesTwice, SeriesApart
  <2>1. PICK hosts \in {1, 2}, P \in SUBSET Processes, f \in Faults : Handled(hosts, P, f)
    BY <1>3, ProcessedIs
  <2> DEFINE T == FinalMetrics(hosts, P, cpu, disk, now, prevCPUTimeValues, prevOp)
  <2>2. Lists(output', T)
    BY <2>1 DEF Handled
  <2>3. \A m \in T : Distinct(m)
    BY FinalApart
  <2> HIDE DEF T
  <2> QED BY <2>2, <2>3, ListApart
<1>4. CASE UNCHANGED vars
  BY <1>4 DEF vars, NoSeriesTwice
<1> QED BY <1>1, <1>2, <1>3, <1>4 DEF Next

(* No two points that are passed on together belong to one time series,    *)
(* although the resources of the processes are gone                        *)
(* (utils_combine_process_metrics.go:186), for any number of processes.    *)
THEOREM SeriesGoOnOnce == Spec => []NoSeriesTwice
BY NoSeriesTwiceInit, NoSeriesTwiceNext, MapsKeepHistory, PTL DEF Spec

-----------------------------------------------------------------------------
(***************************************************************************)
(* EveryPointOnce.  A point of a batch is known by its metric's name and   *)
(* by what it measures; both sides of the processor are compared with the  *)
(* row that the table has for it.                                          *)
(***************************************************************************)
Row(n, i, c, d) ==
  [metric |-> FinalName(n, i), kind |-> RawKind(n), value |-> RawValue(n, i, c, d),
   attrs |-> BlankLabels(FinalName(n, i), RowLabels(n, i))]

(* The labels of Translated, before blank labels and with its parts named. *)
FromResource(resAttrs) ==
  {<<IF a[1] = "process.pid" THEN "pid" ELSE "command_line", stringValue(a[2])>>
     : a \in {a \in resAttrs : a[1] \in {"process.pid", "process.command_line"}}}

FromPoint(n, attrs) == {a \in attrs : a[1] # "service_version" /\ ~(n \in metricsToSplit /\ a[1] = "direction")}
Renumbered(a) == IF a[1] = "cpu" THEN <<"cpu", IF a[2] = "cpu0" THEN "0" ELSE "1">> ELSE a
NewLabels(n, attrs, resAttrs) == {Renumbered(a) : a \in FromResource(resAttrs) \cup FromPoint(n, attrs)}
NewName(n, attrs) == IF n \in metricsToSplit THEN SplitName(n, Get(attrs, "direction")) ELSE n
WithBlank(name, labels) == labels \cup (IF name \in BlankLabelMetrics THEN {<<"blank", "">>} ELSE {})

LEMMA TranslatedIs ==
  ASSUME NEW s, NEW res
  PROVE  Translated(s, res)
           = [metric |-> NewName(s.metric, s.point.attrs),
              kind   |-> RawKind(s.metric),
              value  |-> s.point.num,
              attrs  |-> WithBlank(NewName(s.metric, s.point.attrs),
                                   NewLabels(s.metric, s.point.attrs, res.attrs))]
BY DEF Translated, NewName, RawKind, WithBlank, NewLabels, Renumbered, FromResource, FromPoint

LEMMA BlankIsAdded ==
  ASSUME NEW name, NEW a, \A l \in a : l[1] # "blank"
  PROVE  WithBlank(name, a) = BlankLabels(name, a)
<1>1. Put(a, "blank", "") = a \cup {<<"blank", "">>}
  BY DEF Put
<1>2. CASE name \in BlankLabelMetrics
  BY <1>1, <1>2 DEF WithBlank, BlankLabels
<1>3. CASE name \notin BlankLabelMetrics
  BY <1>3 DEF WithBlank, BlankLabels
<1> QED BY <1>2, <1>3

LEMMA NotRenumbered ==
  ASSUME NEW S, \A a \in S : a[1] # "cpu"
  PROVE  {Renumbered(a) : a \in S} = S
<1>1. \A a \in S : Renumbered(a) = a
  BY DEF Renumbered
<1> QED BY <1>1

LEMMA NoResourceLabels == FromResource({}) = {}
BY DEF FromResource

(* Points of the host.                                                     *)
LEMMA HostLabels ==
  ASSUME NEW P, NEW n \in AllNames \ {"process.disk.io"}, NEW i \in RawPoints(n, P)
  PROVE  NewLabels(n, RawLabels(n, i), {}) = RowLabels(n, i)
<1> DEFINE F == FromPoint(n, RawLabels(n, i))
<1>0. NewLabels(n, RawLabels(n, i), {}) = {Renumbered(a) : a \in F}
  BY NoResourceLabels DEF NewLabels
<1>1. CASE n = "system.cpu.time"
  <2> DEFINE x == <<"cpu", i[1]>>
             y == <<"state", i[2]>>
             z == <<"cpu", TrimmedCPU(i[1])>>
  <2>1. i[1] \in CPUs
    BY <1>1 DEF RawPoints, DiskNames
  <2>2. RawLabels(n, i) = {x, y}
    BY <1>1 DEF RawLabels, CPULabels, DiskNames
  <2>3. x[1] = "cpu" /\ x[2] = i[1] /\ y[1] = "state"
    OBVIOUS
  <2>4. TrimmedCPU(i[1]) = IF i[1] = "cpu0" THEN "0" ELSE "1"
    BY <2>1 DEF CPUs, TrimmedCPU
  <2>5. Renumbered(x) = z
    BY <2>3, <2>4 DEF Renumbered
  <2>6. Renumbered(y) = y
    BY <2>3 DEF Renumbered
  <2>7. RowLabels(n, i) = {z, y}
    BY <1>1 DEF RowLabels
  <2> HIDE DEF x, y, z
  <2>8. n \notin metricsToSplit
    BY <1>1 DEF metricsToSplit
  <2>9. F = {x, y}
    BY <2>2, <2>3, <2>8 DEF FromPoint
  <2> HIDE DEF F
  <2>10. {Renumbered(a) : a \in F} = {Renumbered(x), Renumbered(y)}
    BY <2>9
  <2> QED BY <1>0, <2>5, <2>6, <2>7, <2>10
<1>2. CASE n # "system.cpu.time"
  <2>1. F = RowLabels(n, i)
    <3>1. CASE n = "system.memory.usage"
      <4>1. RawLabels(n, i) = {<<"state", i[2]>>} /\ RowLabels(n, i) = {<<"state", i[2]>>}
        BY <3>1 DEF RawLabels, RowLabels, DiskNames
      <4>2. <<"state", i[2]>>[1] = "state"
        OBVIOUS
      <4> QED BY <4>1, <4>2 DEF FromPoint
    <3>2. CASE n = "system.disk.io"
      <4> DEFINE x == <<"device", i[1]>>
                 y == <<"direction", i[2]>>
      <4>1. x[1] = "device" /\ y[1] = "direction"
        OBVIOUS
      <4>2. RawLabels(n, i) = {x, y} /\ RowLabels(n, i) = {x}
        BY <3>2 DEF RawLabels, RowLabels, DiskNames, DiskLabels
      <4>3. n \in metricsToSplit
        BY <3>2 DEF metricsToSplit
      <4> HIDE DEF x, y
      <4> QED BY <4>1, <4>2, <4>3 DEF FromPoint
    <3>3. CASE n \in {"system.disk.operations", "system.disk.operation_time"}
      <4> DEFINE x == <<"device", i[1]>>
                 y == <<"direction", i[2]>>
      <4>1. x[1] = "device" /\ y[1] = "direction"
        OBVIOUS
      <4>2. RawLabels(n, i) = {x, y} /\ RowLabels(n, i) = {x, y}
        BY <3>3 DEF RawLabels, RowLabels, DiskNames, DiskLabels
      <4>3. n \notin metricsToSplit
        BY <3>3 DEF metricsToSplit
      <4> HIDE DEF x, y
      <4> QED BY <4>1, <4>2, <4>3 DEF FromPoint
    <3> QED BY <1>2, <3>1, <3>2, <3>3 DEF AllNames, DiskNames
  <2>2. \A l \in RowLabels(n, i) : l[1] # "cpu"
    BY <1>2 DEF AllNames, DiskNames, RowLabels, DiskLabels
  <2> HIDE DEF F
  <2>3. \A l \in F : l[1] # "cpu"
    BY <2>1, <2>2
  <2>4. {Renumbered(a) : a \in F} = F
    BY <2>3, NotRenumbered
  <2> QED BY <1>0, <2>1, <2>4
<1> QED BY <1>1, <1>2

(* Points of a process.                                                    *)
IoLabels(x) == {<<"direction", x>>, <<"service_version", "1">>}

LEMMA ResourceLabels ==
  ASSUME NEW p \in Processes, NEW d, NEW at
  PROVE  FromResource(ProcessResource(p, d, at, "none").attrs) = {<<"pid", p>>, <<"command_line", "long">>}
<1> DEFINE line == IF p = "p1" THEN "long1" ELSE "long2"
           attributes == {<<"process.pid", p>>, <<"process.executable.path", "/bin/x">>,
                          <<"process.command_line", line>>}
           mapped == {a \in attributes : a[1] \in {"process.pid", "process.command_line"}}
           New(a) == <<IF a[1] = "process.pid" THEN "pid" ELSE "command_line", stringValue(a[2])>>
<1>1. attributes = ProcessResource(p, d, at, "none").attrs
  BY DEF ProcessResource
<1>2. stringValue(p) = p /\ stringValue(line) = "long"
  BY HostAssumption DEF stringValue
<1> HIDE DEF line
<1> DEFINE a1 == <<"process.pid", p>>
           a2 == <<"process.executable.path", "/bin/x">>
           a3 == <<"process.command_line", line>>
<1>3. /\ a1[1] = "process.pid" /\ a1[2] = p
      /\ a2[1] = "process.executable.path"
      /\ a3[1] = "process.command_line" /\ a3[2] = line
      /\ attributes = {a1, a2, a3}
  OBVIOUS
<1>4. FromResource(attributes) = {New(a) : a \in mapped}
  BY DEF FromResource
<1> HIDE DEF a1, a2, a3, attributes
<1>5. mapped = {a1, a3}
  BY <1>3
<1>6. New(a1) = <<"pid", p>> /\ New(a3) = <<"command_line", "long">>
  BY <1>2, <1>3
<1> HIDE DEF mapped, New
<1>7. {New(a) : a \in mapped} = {New(a1), New(a3)}
  BY <1>5
<1> QED BY <1>1, <1>4, <1>6, <1>7

LEMMA ProcessRow ==
  ASSUME NEW i, i[1] \in Processes, NEW d, NEW at
  PROVE  NewLabels("process.disk.io", IoLabels(i[2]), ProcessResource(i[1], d, at, "none").attrs)
           = RowLabels("process.disk.io", i)
<1> DEFINE F == FromPoint("process.disk.io", IoLabels(i[2]))
           R == FromResource(ProcessResource(i[1], d, at, "none").attrs)
           x == <<"direction", i[2]>>
           y == <<"service_version", "1">>
           r == {<<"pid", i[1]>>, <<"command_line", "long">>}
<1>1. F = {}
  <2>1. x[1] = "direction" /\ y[1] = "service_version" /\ IoLabels(i[2]) = {x, y}
    BY DEF IoLabels
  <2> HIDE DEF x, y
  <2> QED BY <2>1 DEF FromPoint, metricsToSplit
<1>2. R = r
  BY ResourceLabels
<1>3. \A l \in r : l[1] # "cpu"
  OBVIOUS
<1>4. RowLabels("process.disk.io", i) = r
  BY DEF RowLabels
<1>5. NewLabels("process.disk.io", IoLabels(i[2]), ProcessResource(i[1], d, at, "none").attrs)
        = {Renumbered(a) : a \in R \cup F}
  BY DEF NewLabels
<1> HIDE DEF F, R, r
<1>6. {Renumbered(a) : a \in r} = r
  BY <1>3, NotRenumbered
<1>7. R \cup F = r
  BY <1>1, <1>2
<1> QED BY <1>4, <1>5, <1>6, <1>7

(* Streams stand for the keys K, once each, and v is the row of the key.   *)
RowAt(x, c, d) == Row(x[1], x[2], c, d)
AllRows(K, c, d) == {RowAt(x, c, d) : x \in K}
Values(S, v) == {v[s] : s \in S}

StandsFor(S, k, v, K, c, d) ==
  /\ k \in [S -> K]
  /\ \A s, t \in S : k[s] = k[t] => s = t
  /\ \A x \in K : \E s \in S : k[s] = x
  /\ \A s \in S : v[s] = RowAt(k[s], c, d)

LEMMA StandsForAll ==
  ASSUME NEW S, NEW k, NEW v, NEW K, NEW c, NEW d, IsFiniteSet(K), StandsFor(S, k, v, K, c, d)
  PROVE  Cardinality(S) = Cardinality(K) /\ Values(S, v) = AllRows(K, c, d)
<1>1. /\ k \in [S -> K]
      /\ \A s, t \in S : k[s] = k[t] => s = t
      /\ \A x \in K : \E s \in S : k[s] = x
      /\ \A s \in S : v[s] = RowAt(k[s], c, d)
  BY DEF StandsFor
<1> DEFINE g == [x \in K |-> CHOOSE s \in S : k[s] = x]
<1>2. \A x \in K : g[x] \in S /\ k[g[x]] = x
  BY <1>1
<1>3. g \in [K -> S]
  BY <1>2
<1>4. \A s \in S : g[k[s]] = s
  BY <1>1, <1>2
<1> HIDE DEF g
<1>5. \A s \in S : \E x \in K : g[x] = s
  BY <1>1, <1>4
<1>6. \A x, y \in K : g[x] = g[y] => x = y
  BY <1>2
<1>7. g \in Bijection(K, S)
  BY <1>3, <1>5, <1>6 DEF Bijection, Injection, Surjection, IsInjective
<1>8. ExistsBijection(K, S)
  BY <1>7 DEF ExistsBijection
<1>9. Cardinality(S) = Cardinality(K)
  BY <1>8, FS_Bijection
<1>10. \A s \in S : v[s] \in AllRows(K, c, d)
  BY <1>1 DEF AllRows
<1>11. \A r \in AllRows(K, c, d) : \E s \in S : v[s] = r
  BY <1>1 DEF AllRows
<1>12. Values(S, v) = AllRows(K, c, d)
  BY <1>10, <1>11 DEF Values
<1> QED BY <1>9, <1>12

Keys(hosts, P) == UNION {{<<n, i>> : i \in RawPoints(n, P)} : n \in PresentNames(hosts, P)}

LEMMA KeysAre ==
  ASSUME NEW hosts, NEW P, NEW x
  PROVE  x \in Keys(hosts, P) <=> \E n \in PresentNames(hosts, P) : \E i \in RawPoints(n, P) : x = <<n, i>>
BY DEF Keys

LEMMA KeysFinite ==
  ASSUME NEW hosts, NEW P \in SUBSET Processes
  PROVE  IsFiniteSet(Keys(hosts, P))
<1> DEFINE N == {"system.cpu.time", "system.memory.usage", "system.disk.io", "system.disk.operations",
                 "system.disk.operation_time", "process.disk.io"}
           V == CPUs \cup {"memory", "sda"} \cup P
           W == CPUStates \cup {"used", "free"} \cup Directions
<1>1. IsFiniteSet(P)
  BY HostAssumption, FS_Subset
<1>2. \A a, b, e, f, g, h : IsFiniteSet({a, b, e, f, g, h})
  <2> SUFFICES ASSUME NEW a, NEW b, NEW e, NEW f, NEW g, NEW h PROVE IsFiniteSet({a, b, e, f, g, h})
    OBVIOUS
  <2>1. IsFiniteSet({a, b}) /\ IsFiniteSet({e, f}) /\ IsFiniteSet({g, h})
    <3> SUFFICES ASSUME NEW x, NEW y PROVE IsFiniteSet({x, y})
      OBVIOUS
    <3>1. IsFiniteSet({x}) /\ IsFiniteSet({y})
      BY FS_Singleton
    <3>2. IsFiniteSet({x} \cup {y})
      BY <3>1, FS_Union
    <3>3. {x, y} = {x} \cup {y}
      OBVIOUS
    <3> QED BY <3>2, <3>3
  <2>2. IsFiniteSet({a, b} \cup {e, f})
    BY <2>1, FS_Union
  <2>3. IsFiniteSet({a, b} \cup {e, f} \cup {g, h})
    BY <2>1, <2>2, FS_Union
  <2>4. {a, b, e, f, g, h} = {a, b} \cup {e, f} \cup {g, h}
    OBVIOUS
  <2> QED BY <2>3, <2>4
<1>3. IsFiniteSet(N)
  BY <1>2
<1>4. IsFiniteSet(V)
  <2>1. {"cpu0", "cpu1", "memory", "sda", "sda", "sda"} = CPUs \cup {"memory", "sda"}
    BY DEF CPUs
  <2>2. IsFiniteSet({"cpu0", "cpu1", "memory", "sda", "sda", "sda"})
    BY <1>2
  <2> QED BY <1>1, <2>1, <2>2, FS_Union
<1>5. IsFiniteSet(W)
  <2>1. {"user", "idle", "used", "free", "read", "write"} = W
    BY DEF CPUStates, Directions
  <2>2. IsFiniteSet({"user", "idle", "used", "free", "read", "write"})
    BY <1>2
  <2> QED BY <2>1, <2>2
<1>6. IsFiniteSet(N \X (V \X W))
  <2> HIDE DEF N, V, W
  <2>1. IsFiniteSet(V \X W)
    BY <1>4, <1>5, FS_Product
  <2> QED BY <1>3, <2>1, FS_Product
<1>7. ASSUME NEW n \in AllNames, NEW i \in RawPoints(n, P) PROVE <<n, i>> \in N \X (V \X W)
  <2>1. n \in N
    BY DEF AllNames, DiskNames
  <2>2. i \in V \X W
    <3>1. CASE n = "system.cpu.time"
      BY <3>1 DEF RawPoints, DiskNames
    <3>2. CASE n = "system.memory.usage"
      BY <3>2 DEF RawPoints, DiskNames, MemoryParts
    <3>3. CASE n \in DiskNames
      <4>1. i \in OfDisk
        BY <3>3 DEF RawPoints, DiskNames
      <4> QED BY <4>1 DEF OfDisk
    <3>4. CASE n = "process.disk.io"
      BY <3>4 DEF RawPoints, DiskNames
    <3> QED BY <3>1, <3>2, <3>3, <3>4 DEF AllNames
  <2> HIDE DEF N, V, W
  <2> QED BY <2>1, <2>2
<1>8. PresentNames(hosts, P) \subseteq AllNames
  BY DEF PresentNames, AllNames
<1> HIDE DEF N, V, W
<1>9. Keys(hosts, P) \subseteq N \X (V \X W)
  BY <1>7, <1>8, KeysAre
<1> QED BY <1>6, <1>9, FS_Subset

(* The points that are passed on.                                          *)
RawName(name) ==
  CASE name \in {"system.disk.read_io", "system.disk.write_io"}   -> "system.disk.io"
    [] name \in {"process.disk.read_io", "process.disk.write_io"} -> "process.disk.io"
    [] OTHER                                                      -> name

LEMMA NameOfFinal ==
  ASSUME NEW n \in AllNames, NEW P, NEW i \in RawPoints(n, P)
  PROVE  RawName(FinalName(n, i)) = n
<1>1. CASE n \in metricsToSplit
  <2>1. i[2] = "read" \/ i[2] = "write"
    BY <1>1, SplitDirections DEF Directions
  <2> QED BY <1>1, <2>1 DEF FinalName, SplitName, metricsToSplit, RawName
<1>2. CASE n \notin metricsToSplit
  BY <1>2 DEF FinalName, metricsToSplit, AllNames, DiskNames, RawName
<1> QED BY <1>1, <1>2
KeptIn(out) == {s \in Streams(out) : s.metric \notin Derived}
KeyOut(s) == <<RawName(s.metric), s.place[3]>>
PassedOn(s) == [metric |-> s.metric, kind |-> s.kind, value |-> s.point.num, attrs |-> s.point.attrs]

(* The point i of the metric n, found in a row of the result.              *)
LEMMA StreamOfRow ==
  ASSUME NEW m, NEW p, NEW n \in AllNames, NEW P, NEW S \in SUBSET RawPoints(n, P), NEW c, NEW d,
         RowsOf(m, n, S, c, d), NEW i \in S
  PROVE  /\ StreamOf(m, p, i).metric = FinalName(n, i)
         /\ StreamOf(m, p, i).metric \notin Derived
         /\ KeyOut(StreamOf(m, p, i)) = <<n, i>>
         /\ PassedOn(StreamOf(m, p, i)) = Row(n, i, c, d)
<1> DEFINE s == StreamOf(m, p, i)
<1>1. /\ s.metric = m.name /\ s.kind = m.kind /\ s.point = m.points[i] /\ s.place = <<p[1], p[2], i>>
  BY DEF StreamOf
<1>2. /\ m.kind = RawKind(n) /\ m.name = FinalName(n, i)
      /\ m.points[i].attrs = BlankLabels(FinalName(n, i), RowLabels(n, i))
      /\ m.points[i].num = RawValue(n, i, c, d)
  BY DEF RowsOf, RowPoint
<1> HIDE DEF s
<1>3. i \in RawPoints(n, P)
  OBVIOUS
<1>4. s.metric = FinalName(n, i)
  BY <1>1, <1>2
<1>5. FinalName(n, i) \notin Derived /\ RawName(FinalName(n, i)) = n
  BY <1>3, NamesNotDerived, NameOfFinal
<1>6. s.place[3] = i
  BY <1>1
<1>7. KeyOut(s) = <<n, i>>
  BY <1>4, <1>5, <1>6 DEF KeyOut
<1>8. /\ s.kind = RawKind(n) /\ s.point.num = RawValue(n, i, c, d)
      /\ s.point.attrs = BlankLabels(FinalName(n, i), RowLabels(n, i))
  BY <1>1, <1>2
<1>9. PassedOn(s) = Row(n, i, c, d)
  BY <1>4, <1>8 DEF PassedOn, Row
<1> QED BY <1>4, <1>5, <1>7, <1>9 DEF s

(* Every point that is passed on, besides the derived ones, has its row.   *)
LEMMA KeptIsRow ==
  ASSUME NEW hosts, NEW P, NEW c, NEW d, NEW at, NEW prevCPU, NEW prevOps, NEW out,
         Lists(out, FinalMetrics(hosts, P, c, d, at, prevCPU, prevOps)), NEW s \in KeptIn(out)
  PROVE  \E n \in PresentNames(hosts, P) : \E i \in RawPoints(n, P) :
           /\ KeyOut(s) = <<n, i>> /\ PassedOn(s) = Row(n, i, c, d) /\ s.metric = FinalName(n, i)
           /\ \E p \in Places(out) : At(out, p).name = FinalName(n, i) /\ s = StreamOf(At(out, p), p, i)
<1>1. s \in Streams(out) /\ s.metric \notin Derived
  BY DEF KeptIn
<1>2. PICK p \in Places(out) : \E i \in DOMAIN At(out, p).points : s = StreamOf(At(out, p), p, i)
  BY <1>1, StreamsAre
<1>3. PICK i \in DOMAIN At(out, p).points : s = StreamOf(At(out, p), p, i)
  BY <1>2
<1> DEFINE m == At(out, p)
<1>4. m \in FinalMetrics(hosts, P, c, d, at, prevCPU, prevOps)
  BY DEF Lists
<1>5. s.metric = m.name
  BY <1>3 DEF StreamOf
<1>6. i \in DOMAIN m.points /\ s = StreamOf(m, p, i)
  BY <1>3
<1> HIDE DEF m
<1>7. PICK n \in PresentNames(hosts, P) : \E S \in SUBSET RawPoints(n, P) : RowsOf(m, n, S, c, d)
  BY <1>1, <1>4, <1>5, FinalRows
<1>8. PICK S \in SUBSET RawPoints(n, P) : RowsOf(m, n, S, c, d)
  BY <1>7
<1>9. i \in S
  BY <1>6, <1>8 DEF RowsOf
<1>10. n \in AllNames
  BY DEF PresentNames, AllNames
<1>11. /\ KeyOut(s) = <<n, i>> /\ PassedOn(s) = Row(n, i, c, d) /\ s.metric = FinalName(n, i)
  BY <1>6, <1>8, <1>9, <1>10, StreamOfRow
<1>12. m.name = FinalName(n, i)
  BY <1>5, <1>11
<1> QED BY <1>6, <1>9, <1>11, <1>12 DEF m

(* Each row is passed on.                                                  *)
LEMMA RowIsKept ==
  ASSUME NEW hosts, NEW P, NEW c, NEW d, NEW at, NEW prevCPU, NEW prevOps, NEW out,
         Lists(out, FinalMetrics(hosts, P, c, d, at, prevCPU, prevOps)),
         NEW n \in PresentNames(hosts, P), NEW i \in RawPoints(n, P)
  PROVE  \E s \in KeptIn(out) : KeyOut(s) = <<n, i>>
<1> DEFINE T == FinalMetrics(hosts, P, c, d, at, prevCPU, prevOps)
<1>1. PICK m \in T : \E S : i \in S /\ RowsOf(m, n, S, c, d)
  BY FinalHas
<1>2. PICK S : i \in S /\ RowsOf(m, n, S, c, d)
  BY <1>1
<1>3. PICK p \in Places(out) : At(out, p) = m
  BY DEF Lists
<1>4. n \in AllNames
  BY DEF PresentNames, AllNames
<1>5. i \in DOMAIN m.points
  BY <1>2 DEF RowsOf
<1>6. StreamOf(m, p, i) \in Streams(out)
  BY <1>3, <1>5, StreamsAre
<1>7. /\ m.name = FinalName(n, i)
  BY <1>2 DEF RowsOf, RowPoint
<1> DEFINE s == StreamOf(m, p, i)
<1>8. s.metric = m.name /\ s.place[3] = i
  BY DEF StreamOf
<1>9. FinalName(n, i) \notin Derived /\ RawName(FinalName(n, i)) = n
  BY <1>4, NamesNotDerived, NameOfFinal
<1> HIDE DEF s
<1>10. KeyOut(s) = <<n, i>>
  BY <1>7, <1>8, <1>9 DEF KeyOut
<1>11. s \in KeptIn(out)
  BY <1>6, <1>7, <1>8, <1>9 DEF KeptIn, s
<1> QED BY <1>10, <1>11

LEMMA KeptStandsForKeys ==
  ASSUME NEW hosts, NEW P, NEW c, NEW d, NEW at, NEW prevCPU, NEW prevOps, NEW out,
         Lists(out, FinalMetrics(hosts, P, c, d, at, prevCPU, prevOps))
  PROVE  StandsFor(KeptIn(out), [s \in KeptIn(out) |-> KeyOut(s)], [s \in KeptIn(out) |-> PassedOn(s)],
                   Keys(hosts, P), c, d)
<1> DEFINE S == KeptIn(out)
           K == Keys(hosts, P)
           k == [s \in S |-> KeyOut(s)]
           v == [s \in S |-> PassedOn(s)]
           Found(s, n, i) ==
             /\ KeyOut(s) = <<n, i>> /\ PassedOn(s) = Row(n, i, c, d) /\ s.metric = FinalName(n, i)
             /\ \E p \in Places(out) : At(out, p).name = FinalName(n, i) /\ s = StreamOf(At(out, p), p, i)
<1>1. \A s \in S : \E n \in PresentNames(hosts, P) : \E i \in RawPoints(n, P) : Found(s, n, i)
  BY KeptIsRow
<1>2. \A p, x \in Places(out) : At(out, p).name = At(out, x).name => p = x
  BY DEF Lists
<1>3. \A n, i : RowAt(<<n, i>>, c, d) = Row(n, i, c, d)
  BY DEF RowAt
<1> HIDE DEF S
<1>4. ASSUME NEW s \in S PROVE k[s] \in K /\ v[s] = RowAt(k[s], c, d)
  <2>1. PICK n \in PresentNames(hosts, P) : \E i \in RawPoints(n, P) : Found(s, n, i)
    BY <1>1
  <2>2. PICK i \in RawPoints(n, P) : Found(s, n, i)
    BY <2>1
  <2>3. KeyOut(s) = <<n, i>> /\ PassedOn(s) = Row(n, i, c, d)
    BY <2>2
  <2>4. <<n, i>> \in K
    BY KeysAre
  <2> QED BY <1>3, <2>3, <2>4
<1>5. ASSUME NEW s \in S, NEW t \in S, k[s] = k[t] PROVE s = t
  <2>1. PICK n \in PresentNames(hosts, P) : \E i \in RawPoints(n, P) : Found(s, n, i)
    BY <1>1
  <2>2. PICK i \in RawPoints(n, P) : Found(s, n, i)
    BY <2>1
  <2>3. PICK o \in PresentNames(hosts, P) : \E j \in RawPoints(o, P) : Found(t, o, j)
    BY <1>1
  <2>4. PICK j \in RawPoints(o, P) : Found(t, o, j)
    BY <2>3
  <2>5. KeyOut(s) = KeyOut(t)
    BY <1>5
  <2>6. <<n, i>> = <<o, j>>
    BY <2>2, <2>4, <2>5
  <2>7. n = o /\ i = j
    BY <2>6
  <2>8. PICK p \in Places(out) : At(out, p).name = FinalName(n, i) /\ s = StreamOf(At(out, p), p, i)
    BY <2>2
  <2>9. PICK x \in Places(out) : At(out, x).name = FinalName(n, i) /\ t = StreamOf(At(out, x), x, i)
    BY <2>4, <2>7
  <2>10. p = x
    BY <1>2, <2>8, <2>9
  <2> QED BY <2>8, <2>9, <2>10
<1>6. ASSUME NEW x \in K PROVE \E s \in S : k[s] = x
  <2>1. PICK n \in PresentNames(hosts, P) : \E i \in RawPoints(n, P) : x = <<n, i>>
    BY KeysAre
  <2>2. PICK i \in RawPoints(n, P) : x = <<n, i>>
    BY <2>1
  <2>3. PICK s \in S : KeyOut(s) = <<n, i>>
    BY RowIsKept DEF S
  <2> QED BY <2>2, <2>3
<1>7. k \in [S -> K]
  BY <1>4
<1> HIDE DEF k, v, K
<1>8. StandsFor(S, k, v, K, c, d)
  BY <1>4, <1>5, <1>6, <1>7 DEF StandsFor
<1> QED BY <1>8 DEF S, k, v, K
(* The points of a batch.  What becomes of one is its row.                 *)
LEMMA TranslatedRow ==
  ASSUME NEW m, NEW p, NEW n \in AllNames, NEW i, NEW res, NEW c, NEW d,
         m.name = n, m.points[i].num = RawValue(n, i, c, d),
         NewName(n, m.points[i].attrs) = FinalName(n, i),
         NewLabels(n, m.points[i].attrs, res.attrs) = RowLabels(n, i)
  PROVE  Translated(StreamOf(m, p, i), res) = Row(n, i, c, d)
<1> DEFINE s == StreamOf(m, p, i)
<1>1. s.metric = n /\ s.point = m.points[i]
  BY DEF StreamOf
<1> HIDE DEF s
<1>2. Translated(s, res)
        = [metric |-> NewName(s.metric, s.point.attrs),
           kind   |-> RawKind(s.metric),
           value  |-> s.point.num,
           attrs  |-> WithBlank(NewName(s.metric, s.point.attrs),
                                NewLabels(s.metric, s.point.attrs, res.attrs))]
  BY TranslatedIs
<1>3. \A l \in RowLabels(n, i) : l[1] # "blank"
  BY NoBlankRow
<1>4. WithBlank(FinalName(n, i), RowLabels(n, i)) = BlankLabels(FinalName(n, i), RowLabels(n, i))
  BY <1>3, BlankIsAdded
<1>5. NewName(s.metric, s.point.attrs) = FinalName(n, i)
  BY <1>1
<1>6. NewLabels(s.metric, s.point.attrs, res.attrs) = RowLabels(n, i)
  BY <1>1
<1>7. RawKind(s.metric) = RawKind(n) /\ s.point.num = RawValue(n, i, c, d)
  BY <1>1
<1>8. Translated(s, res)
        = [metric |-> FinalName(n, i), kind |-> RawKind(n), value |-> RawValue(n, i, c, d),
           attrs |-> WithBlank(FinalName(n, i), RowLabels(n, i))]
  BY <1>2, <1>5, <1>6, <1>7
<1>9. Translated(s, res) = Row(n, i, c, d)
  BY <1>4, <1>8 DEF Row
<1> QED BY <1>9 DEF s

(* A metric of the batch, of the resource res: the points S of the row n.  *)
ReadAs(m, res, n, S, c, d) ==
  /\ m.name = n /\ DOMAIN m.points = S
  /\ \A i \in S : /\ m.points[i].num = RawValue(n, i, c, d)
                  /\ NewName(n, m.points[i].attrs) = FinalName(n, i)
                  /\ NewLabels(n, m.points[i].attrs, res.attrs) = RowLabels(n, i)

LEMMA ReadHost ==
  ASSUME NEW m, NEW n \in AllNames \ {"process.disk.io"}, NEW P, NEW c, NEW d, NEW res, res.attrs = {},
         m.name = n, DOMAIN m.points = RawPoints(n, P),
         \A i \in RawPoints(n, P) : RawPoint(m, n, i, c, d)
  PROVE  ReadAs(m, res, n, RawPoints(n, P), c, d)
<1>1. ASSUME NEW i \in RawPoints(n, P)
      PROVE  /\ m.points[i].num = RawValue(n, i, c, d)
             /\ NewName(n, m.points[i].attrs) = FinalName(n, i)
             /\ NewLabels(n, m.points[i].attrs, res.attrs) = RowLabels(n, i)
  <2>1. m.points[i].attrs = RawLabels(n, i) /\ m.points[i].num = RawValue(n, i, c, d)
    BY DEF RawPoint
  <2>2. NewLabels(n, RawLabels(n, i), {}) = RowLabels(n, i)
    BY HostLabels
  <2>3. NewName(n, RawLabels(n, i)) = FinalName(n, i)
    <3>1. CASE n \in metricsToSplit
      <4>1. Get(RawLabels(n, i), "direction") = i[2]
        BY <3>1, LabelsSplit
      <4> QED BY <3>1, <4>1 DEF NewName, FinalName
    <3>2. CASE n \notin metricsToSplit
      BY <3>2 DEF NewName, FinalName
    <3> QED BY <3>1, <3>2
  <2> QED BY <2>1, <2>2, <2>3
<1> QED BY <1>1 DEF ReadAs

LEMMA ReadProcess ==
  ASSUME NEW p \in Processes, NEW c, NEW d, NEW at
  PROVE  ReadAs(ProcessIo(p, d, at), ProcessResource(p, d, at, "none"), "process.disk.io", {p} \X Directions, c, d)
<1> DEFINE m == ProcessIo(p, d, at)
           n == "process.disk.io"
           res == ProcessResource(p, d, at, "none")
<1>1. m.name = n
  BY DEF ProcessIo, MetricOf
<1>2. m.points = [i \in {p} \X Directions |-> Point(IoLabels(i[2]), d[i[2]].ops, at)]
  BY DEF ProcessIo, MetricOf, IoLabels
<1> HIDE DEF m
<1>3. ASSUME NEW i \in {p} \X Directions
      PROVE  /\ m.points[i].num = RawValue(n, i, c, d)
             /\ NewName(n, m.points[i].attrs) = FinalName(n, i)
             /\ NewLabels(n, m.points[i].attrs, res.attrs) = RowLabels(n, i)
  <2>1. m.points[i] = Point(IoLabels(i[2]), d[i[2]].ops, at)
    BY <1>2
  <2>2. m.points[i].attrs = IoLabels(i[2]) /\ m.points[i].num = d[i[2]].ops
    BY <2>1, PointFields
  <2>3. RawValue(n, i, c, d) = d[i[2]].ops
    BY DEF RawValue
  <2>4. i[1] = p
    OBVIOUS
  <2>5. NewLabels(n, IoLabels(i[2]), res.attrs) = RowLabels(n, i)
    BY <2>4, ProcessRow
  <2>6. Get(IoLabels(i[2]), "direction") = i[2]
    <3> DEFINE x == <<"direction", i[2]>>
               y == <<"service_version", "1">>
    <3>1. x[1] = "direction" /\ x[2] = i[2] /\ y[1] = "service_version" /\ IoLabels(i[2]) = {x, y}
      BY DEF IoLabels
    <3> HIDE DEF x, y
    <3>2. x \in IoLabels(i[2]) /\ \A l \in IoLabels(i[2]) : l[1] = x[1] => l = x
      BY <3>1
    <3>3. Get(IoLabels(i[2]), x[1]) = x[2]
      BY <3>2, GetOne
    <3> QED BY <3>1, <3>3
  <2>7. NewName(n, IoLabels(i[2])) = FinalName(n, i)
    BY <2>6 DEF NewName, FinalName
  <2> HIDE DEF res
  <2> QED BY <2>2, <2>3, <2>5, <2>7
<1>4. DOMAIN m.points = {p} \X Directions
  BY <1>2
<1>5. ReadAs(m, res, n, {p} \X Directions, c, d)
  BY <1>1, <1>3, <1>4 DEF ReadAs
<1> QED BY <1>5 DEF m
LEMMA HostReads ==
  ASSUME NEW P, NEW c, NEW d, NEW at, NEW res, res.attrs = {}
  PROVE  /\ ReadAs(CPUTimes(c, at), res, "system.cpu.time", CPUs \X CPUStates, c, d)
         /\ ReadAs(MemoryUsage(at, "none"), res, "system.memory.usage", MemoryParts, c, d)
         /\ ReadAs(DiskIo(d, at, "none"), res, "system.disk.io", OfDisk, c, d)
         /\ ReadAs(DiskOperations(d, at), res, "system.disk.operations", OfDisk, c, d)
         /\ ReadAs(DiskTime(d, at), res, "system.disk.operation_time", OfDisk, c, d)
<1> DEFINE m1 == CPUTimes(c, at)
           m2 == MemoryUsage(at, "none")
           g2 == MemoryGauge(at, "none")
           m3 == DiskIo(d, at, "none")
           m4 == DiskOperations(d, at)
           m5 == DiskTime(d, at)
<1>1. ASSUME NEW m, NEW n \in AllNames \ {"process.disk.io"}, RawIs(m, n, P, c, d)
      PROVE  ReadAs(m, res, n, RawPoints(n, P), c, d)
  <2>1. /\ m.name = n /\ DOMAIN m.points = RawPoints(n, P)
        /\ \A i \in RawPoints(n, P) : RawPoint(m, n, i, c, d)
    BY <1>1 DEF RawIs
  <2> QED BY <2>1, ReadHost
<1>2. RawIs(m1, "system.cpu.time", P, c, d) /\ RawIs(g2, "system.memory.usage", P, c, d)
  BY RawCPU, RawMemory
<1>3. /\ RawIs(m3, "system.disk.io", P, c, d)
      /\ RawIs(m4, "system.disk.operations", P, c, d)
      /\ RawIs(m5, "system.disk.operation_time", P, c, d)
  BY RawDisk
<1>4. m2.name = "system.memory.usage" /\ g2.points = m2.points
  BY DEF MemoryUsage, MemoryGauge, MetricOf
<1>5. /\ RawPoints("system.cpu.time", P) = CPUs \X CPUStates
      /\ RawPoints("system.memory.usage", P) = MemoryParts
      /\ RawPoints("system.disk.io", P) = OfDisk
      /\ RawPoints("system.disk.operations", P) = OfDisk
      /\ RawPoints("system.disk.operation_time", P) = OfDisk
  BY DEF RawPoints, DiskNames
<1> HIDE DEF m1, m2, g2, m3, m4, m5
<1>6. ReadAs(m1, res, "system.cpu.time", RawPoints("system.cpu.time", P), c, d)
  BY <1>1, <1>2 DEF AllNames
<1>7. ReadAs(m2, res, "system.memory.usage", RawPoints("system.memory.usage", P), c, d)
  <2>1. ReadAs(g2, res, "system.memory.usage", RawPoints("system.memory.usage", P), c, d)
    BY <1>1, <1>2 DEF AllNames
  <2> QED BY <1>4, <2>1 DEF ReadAs
<1>8. ReadAs(m3, res, "system.disk.io", RawPoints("system.disk.io", P), c, d)
  BY <1>1, <1>3 DEF AllNames, DiskNames
<1>9. ReadAs(m4, res, "system.disk.operations", RawPoints("system.disk.operations", P), c, d)
  BY <1>1, <1>3 DEF AllNames, DiskNames
<1>10. ReadAs(m5, res, "system.disk.operation_time", RawPoints("system.disk.operation_time", P), c, d)
  BY <1>1, <1>3 DEF AllNames, DiskNames
<1>11. /\ ReadAs(m1, res, "system.cpu.time", CPUs \X CPUStates, c, d)
       /\ ReadAs(m2, res, "system.memory.usage", MemoryParts, c, d)
       /\ ReadAs(m3, res, "system.disk.io", OfDisk, c, d)
       /\ ReadAs(m4, res, "system.disk.operations", OfDisk, c, d)
       /\ ReadAs(m5, res, "system.disk.operation_time", OfDisk, c, d)
  BY <1>5, <1>6, <1>7, <1>8, <1>9, <1>10
<1> QED BY <1>11 DEF m1, m2, m3, m4, m5

(* Where the batch has the metric n with the point i.                      *)
PlaceOfPoint(hosts, P, n, i) ==
  CASE n = "system.cpu.time"            -> <<1, 1>>
    [] n = "system.memory.usage"        -> <<1, 2>>
    [] n = "system.disk.io"             -> <<2, 1>>
    [] n = "system.disk.operations"     -> <<2, 2>>
    [] n = "system.disk.operation_time" -> <<2, 3>>
    [] n = "process.disk.io"            ->
         <<hosts + (CHOOSE j \in 1 .. Cardinality(P) : SetToSeq(P)[j] = i[1]), 1>>

LEMMA PlaceOfProcess ==
  ASSUME NEW P \in SUBSET Processes, NEW j \in 1 .. Cardinality(P), NEW hosts, NEW i, i[1] = SetToSeq(P)[j]
  PROVE  PlaceOfPoint(hosts, P, "process.disk.io", i) = <<hosts + j, 1>>
<1>1. \A l \in 1 .. Cardinality(P) : SetToSeq(P)[l] = SetToSeq(P)[j] => l = j
  BY ProcessOrder
<1>2. (CHOOSE l \in 1 .. Cardinality(P) : SetToSeq(P)[l] = i[1]) = j
  BY <1>1
<1> QED BY <1>2 DEF PlaceOfPoint

ReadAt(b, p, n, S, hosts, P, c, d) ==
  /\ S \subseteq RawPoints(n, P)
  /\ ReadAs(At(b, p), b[p[1]], n, S, c, d)
  /\ \A i \in S : PlaceOfPoint(hosts, P, n, i) = p

LEMMA BatchIsRead ==
  ASSUME NEW b, NEW hosts, NEW P \in SUBSET Processes, NEW c, NEW d, NEW at,
         BatchOf(b, hosts, P, c, d, at, "none")
  PROVE  /\ \A p \in Places(b) : \E n \in PresentNames(hosts, P) : \E S : ReadAt(b, p, n, S, hosts, P, c, d)
         /\ \A n \in PresentNames(hosts, P) : \A i \in RawPoints(n, P) :
              \E p \in Places(b) : \E S : i \in S /\ ReadAt(b, p, n, S, hosts, P, c, d)
<1> DEFINE size == Cardinality(P)
           Q(j) == SetToSeq(P)[j]
           n1 == "system.cpu.time"
           n2 == "system.memory.usage"
           n3 == "system.disk.io"
           n4 == "system.disk.operations"
           n5 == "system.disk.operation_time"
           n6 == "process.disk.io"
           S6(j) == {Q(j)} \X Directions
           Here(p, n, S) == p \in Places(b) /\ ReadAt(b, p, n, S, hosts, P, c, d)
<1>1. size \in Nat /\ SetToSeq(P) \in [1 .. size -> P] /\ \A p \in P : \E j \in 1 .. size : Q(j) = p
  BY ProcessOrder
<1>2. hosts \in {1, 2} /\ DOMAIN b = 1 .. hosts + size
  BY DEF BatchOf
<1>3. /\ 1 \in DOMAIN b /\ b[1].attrs = {}
      /\ b[1].metrics = <<CPUTimes(c, at), MemoryUsage(at, "none")>>
  BY <1>1, <1>2 DEF BatchOf
<1>4. hosts = 2 => /\ 2 \in DOMAIN b /\ b[2].attrs = {}
                   /\ b[2].metrics = <<DiskIo(d, at, "none"), DiskOperations(d, at), DiskTime(d, at)>>
  BY <1>1, <1>2 DEF BatchOf
<1>5. ASSUME NEW j \in 1 .. size
      PROVE  /\ hosts + j \in DOMAIN b
             /\ b[hosts + j] = ProcessResource(Q(j), d, at, "none")
             /\ b[hosts + j].metrics = <<ProcessIo(Q(j), d, at)>>
             /\ Q(j) \in P /\ Q(j) \in Processes
  <2>1. b[hosts + j] = ProcessResource(Q(j), d, at, "none")
    BY DEF BatchOf
  <2>2. ProcessResource(Q(j), d, at, "none").metrics = <<ProcessIo(Q(j), d, at)>>
    BY DEF ProcessResource
  <2>3. hosts + j \in DOMAIN b
    BY <1>1, <1>2
  <2>4. Q(j) \in P
    BY <1>1
  <2> HIDE DEF Q
  <2> QED BY <2>1, <2>2, <2>3, <2>4
<1>6. /\ RawPoints(n1, P) = CPUs \X CPUStates /\ RawPoints(n2, P) = MemoryParts
      /\ RawPoints(n3, P) = OfDisk /\ RawPoints(n4, P) = OfDisk /\ RawPoints(n5, P) = OfDisk
      /\ RawPoints(n6, P) = P \X Directions
  BY DEF RawPoints, DiskNames
<1>7. \A i : /\ PlaceOfPoint(hosts, P, n1, i) = <<1, 1>> /\ PlaceOfPoint(hosts, P, n2, i) = <<1, 2>>
             /\ PlaceOfPoint(hosts, P, n3, i) = <<2, 1>> /\ PlaceOfPoint(hosts, P, n4, i) = <<2, 2>>
             /\ PlaceOfPoint(hosts, P, n5, i) = <<2, 3>>
  BY DEF PlaceOfPoint
<1>8. /\ ReadAs(CPUTimes(c, at), b[1], n1, CPUs \X CPUStates, c, d)
      /\ ReadAs(MemoryUsage(at, "none"), b[1], n2, MemoryParts, c, d)
  BY <1>3, HostReads
<1>9. hosts = 2 => /\ ReadAs(DiskIo(d, at, "none"), b[2], n3, OfDisk, c, d)
                   /\ ReadAs(DiskOperations(d, at), b[2], n4, OfDisk, c, d)
                   /\ ReadAs(DiskTime(d, at), b[2], n5, OfDisk, c, d)
  BY <1>4, HostReads
<1>10. ASSUME NEW j \in 1 .. size
       PROVE  ReadAs(ProcessIo(Q(j), d, at), b[hosts + j], n6, S6(j), c, d)
  <2>1. Q(j) \in Processes /\ b[hosts + j] = ProcessResource(Q(j), d, at, "none")
    BY <1>5
  <2> HIDE DEF Q
  <2> QED BY <2>1, ReadProcess
<1> HIDE DEF size, Q
<1>11. DOMAIN b[1].metrics = {1, 2} /\ (hosts = 2 => DOMAIN b[2].metrics = {1, 2, 3})
  <2>1. DOMAIN b[1].metrics = 1 .. 2 /\ (hosts = 2 => DOMAIN b[2].metrics = 1 .. 3)
    BY <1>3, <1>4
  <2> QED BY <2>1
<1>12. /\ At(b, <<1, 1>>) = CPUTimes(c, at) /\ At(b, <<1, 2>>) = MemoryUsage(at, "none")
       /\ hosts = 2 => /\ At(b, <<2, 1>>) = DiskIo(d, at, "none")
                       /\ At(b, <<2, 2>>) = DiskOperations(d, at)
                       /\ At(b, <<2, 3>>) = DiskTime(d, at)
  BY <1>3, <1>4 DEF At
<1>13. <<1, 1>> \in Places(b) /\ <<1, 2>> \in Places(b)
  BY <1>3, <1>11, PlacesAre
<1>14. hosts = 2 => <<2, 1>> \in Places(b) /\ <<2, 2>> \in Places(b) /\ <<2, 3>> \in Places(b)
  BY <1>4, <1>11, PlacesAre
<1> HIDE DEF n1, n2, n3, n4, n5, n6
<1>15. Here(<<1, 1>>, n1, CPUs \X CPUStates) /\ Here(<<1, 2>>, n2, MemoryParts)
  BY <1>6, <1>7, <1>8, <1>12, <1>13 DEF ReadAt
<1>16. hosts = 2 => Here(<<2, 1>>, n3, OfDisk) /\ Here(<<2, 2>>, n4, OfDisk) /\ Here(<<2, 3>>, n5, OfDisk)
  BY <1>6, <1>7, <1>9, <1>12, <1>14 DEF ReadAt
<1>17. ASSUME NEW j \in 1 .. size PROVE Here(<<hosts + j, 1>>, n6, S6(j))
  <2>1. /\ hosts + j \in DOMAIN b /\ b[hosts + j].metrics = <<ProcessIo(Q(j), d, at)>> /\ Q(j) \in P
    BY <1>5
  <2>2. <<hosts + j, 1>> \in Places(b)
    BY <2>1, PlacesAre
  <2>3. At(b, <<hosts + j, 1>>) = ProcessIo(Q(j), d, at)
    BY <2>1 DEF At
  <2>4. ReadAs(At(b, <<hosts + j, 1>>), b[<<hosts + j, 1>>[1]], n6, S6(j), c, d)
    BY <1>10, <2>3
  <2>5. S6(j) \subseteq RawPoints(n6, P)
    BY <1>6, <2>1
  <2>6. \A i \in S6(j) : PlaceOfPoint(hosts, P, n6, i) = <<hosts + j, 1>>
    BY PlaceOfProcess DEF n6, Q, size
  <2> QED BY <2>2, <2>4, <2>5, <2>6 DEF ReadAt
<1>18. /\ n1 \in PresentNames(hosts, P) /\ n2 \in PresentNames(hosts, P)
       /\ hosts = 2 => /\ n3 \in PresentNames(hosts, P) /\ n4 \in PresentNames(hosts, P)
                       /\ n5 \in PresentNames(hosts, P)
       /\ P # {} => n6 \in PresentNames(hosts, P)
  BY DEF PresentNames, DiskNames, n1, n2, n3, n4, n5, n6
<1>19. ASSUME NEW p \in Places(b)
       PROVE  \E n \in PresentNames(hosts, P) : \E S : Here(p, n, S)
  <2>1. p = <<p[1], p[2]>> /\ p[1] \in DOMAIN b /\ p[2] \in DOMAIN b[p[1]].metrics
    BY PlaceParts
  <2>2. p[1] = 1 \/ (p[1] = 2 /\ hosts = 2) \/ \E j \in 1 .. size : p[1] = hosts + j
    <3>1. p[1] \in 1 .. hosts + size
      BY <1>2, <2>1 DEF size
    <3>2. CASE p[1] <= hosts
      BY <1>2, <3>1, <3>2
    <3>3. CASE p[1] > hosts
      <4> DEFINE r == p[1]
      <4>1. hosts \in Nat /\ size \in Nat /\ r \in 1 .. hosts + size /\ r > hosts
        BY <1>1, <1>2, <3>1, <3>3
      <4> HIDE DEF r
      <4>2. r - hosts \in 1 .. size /\ r = hosts + (r - hosts)
        BY <4>1
      <4>3. \E j \in 1 .. size : r = hosts + j
        BY <4>2
      <4> QED BY <4>3 DEF r
    <3> QED BY <1>1, <1>2, <3>1, <3>2, <3>3
  <2>3. CASE p[1] = 1
    <3>1. p = <<1, 1>> \/ p = <<1, 2>>
      BY <1>11, <2>1, <2>3
    <3> QED BY <1>15, <1>18, <3>1
  <2>4. CASE p[1] = 2 /\ hosts = 2
    <3>1. p = <<2, 1>> \/ p = <<2, 2>> \/ p = <<2, 3>>
      BY <1>11, <2>1, <2>4
    <3> QED BY <1>16, <1>18, <2>4, <3>1
  <2>5. CASE \E j \in 1 .. size : p[1] = hosts + j
    <3>1. PICK j \in 1 .. size : p[1] = hosts + j
      BY <2>5
    <3>2. b[hosts + j].metrics = <<ProcessIo(Q(j), d, at)>> /\ Q(j) \in P
      BY <1>5
    <3>3. p[2] = 1
      BY <2>1, <3>1, <3>2
    <3>4. p = <<hosts + j, 1>>
      BY <2>1, <3>1, <3>3
    <3> QED BY <1>17, <1>18, <3>2, <3>4
  <2> QED BY <2>2, <2>3, <2>4, <2>5
<1>20. ASSUME NEW n \in PresentNames(hosts, P), NEW i \in RawPoints(n, P)
       PROVE  \E p \in Places(b) : \E S : i \in S /\ Here(p, n, S)
  <2>1. \/ n \in {n1, n2}
        \/ hosts = 2 /\ n \in {n3, n4, n5}
        \/ n = n6
    BY DEF PresentNames, DiskNames, n1, n2, n3, n4, n5, n6
  <2>2. CASE n \in {n1, n2}
    BY <1>6, <1>13, <1>15, <2>2
  <2>3. CASE hosts = 2 /\ n \in {n3, n4, n5}
    BY <1>6, <1>14, <1>16, <2>3
  <2>4. CASE n = n6
    <3>1. i \in P \X Directions
      BY <1>6, <2>4
    <3>2. PICK j \in 1 .. size : Q(j) = i[1]
      BY <1>1, <3>1 DEF size, Q
    <3>3. i \in S6(j)
      BY <3>1, <3>2
    <3>4. Here(<<hosts + j, 1>>, n, S6(j))
      BY <1>17, <2>4
    <3> QED BY <3>3, <3>4
  <2> QED BY <2>1, <2>2, <2>3, <2>4
<1> QED BY <1>19, <1>20
KeyIn(s) == <<s.metric, s.place[3]>>

LEMMA StreamRead ==
  ASSUME NEW b, NEW p, NEW n \in AllNames, NEW S, NEW hosts, NEW P, NEW c, NEW d,
         ReadAt(b, p, n, S, hosts, P, c, d), NEW i \in S
  PROVE  LET s == StreamOf(At(b, p), p, i)
         IN  /\ KeyIn(s) = <<n, i>> /\ Translated(s, b[s.resource]) = Row(n, i, c, d)
             /\ i \in RawPoints(n, P) /\ PlaceOfPoint(hosts, P, n, i) = p
<1> DEFINE m == At(b, p)
           s == StreamOf(m, p, i)
<1>1. ReadAs(m, b[p[1]], n, S, c, d) /\ i \in RawPoints(n, P) /\ PlaceOfPoint(hosts, P, n, i) = p
  BY DEF ReadAt
<1>2. s.metric = m.name /\ s.place = <<p[1], p[2], i>> /\ s.resource = p[1]
  BY DEF StreamOf
<1> HIDE DEF m
<1>3. /\ m.name = n /\ m.points[i].num = RawValue(n, i, c, d)
      /\ NewName(n, m.points[i].attrs) = FinalName(n, i)
      /\ NewLabels(n, m.points[i].attrs, b[p[1]].attrs) = RowLabels(n, i)
  BY <1>1 DEF ReadAs
<1>4. Translated(s, b[p[1]]) = Row(n, i, c, d)
  <2> DEFINE res == b[p[1]]
  <2>1. NewLabels(n, m.points[i].attrs, res.attrs) = RowLabels(n, i)
    BY <1>3
  <2> HIDE DEF res
  <2>2. Translated(s, res) = Row(n, i, c, d)
    BY <1>3, <2>1, TranslatedRow
  <2> QED BY <2>2 DEF res
<1> HIDE DEF s
<1>5. KeyIn(s) = <<n, i>>
  BY <1>2, <1>3 DEF KeyIn
<1>6. Translated(s, b[s.resource]) = Row(n, i, c, d)
  BY <1>2, <1>4
<1> QED BY <1>1, <1>5, <1>6 DEF s, m

LEMMA BatchStandsForKeys ==
  ASSUME NEW b, NEW hosts, NEW P \in SUBSET Processes, NEW c, NEW d, NEW at,
         BatchOf(b, hosts, P, c, d, at, "none")
  PROVE  StandsFor(Streams(b), [s \in Streams(b) |-> KeyIn(s)],
                   [s \in Streams(b) |-> Translated(s, b[s.resource])], Keys(hosts, P), c, d)
<1> DEFINE S == Streams(b)
           K == Keys(hosts, P)
           k == [s \in S |-> KeyIn(s)]
           v == [s \in S |-> Translated(s, b[s.resource])]
           Found(s, n, i) ==
             /\ KeyIn(s) = <<n, i>> /\ Translated(s, b[s.resource]) = Row(n, i, c, d)
             /\ i \in RawPoints(n, P)
             /\ s = StreamOf(At(b, PlaceOfPoint(hosts, P, n, i)), PlaceOfPoint(hosts, P, n, i), i)
<1>1. /\ \A p \in Places(b) : \E n \in PresentNames(hosts, P) : \E D : ReadAt(b, p, n, D, hosts, P, c, d)
      /\ \A n \in PresentNames(hosts, P) : \A i \in RawPoints(n, P) :
           \E p \in Places(b) : \E D : i \in D /\ ReadAt(b, p, n, D, hosts, P, c, d)
  BY BatchIsRead
<1>2. PresentNames(hosts, P) \subseteq AllNames
  BY DEF PresentNames, AllNames
<1>3. ASSUME NEW p, NEW n \in PresentNames(hosts, P), NEW D, ReadAt(b, p, n, D, hosts, P, c, d), NEW i \in D
      PROVE  Found(StreamOf(At(b, p), p, i), n, i)
  <2> DEFINE s == StreamOf(At(b, p), p, i)
  <2>1. /\ KeyIn(s) = <<n, i>> /\ Translated(s, b[s.resource]) = Row(n, i, c, d)
        /\ i \in RawPoints(n, P) /\ PlaceOfPoint(hosts, P, n, i) = p
    <3>1. n \in AllNames
      BY <1>2
    <3> QED BY <1>3, <3>1, StreamRead
  <2>2. s = StreamOf(At(b, p), p, i)
    OBVIOUS
  <2> HIDE DEF s
  <2>3. Found(s, n, i)
    BY <2>1, <2>2
  <2> QED BY <2>3 DEF s
<1>4. ASSUME NEW s \in S PROVE \E n \in PresentNames(hosts, P) : \E i \in RawPoints(n, P) : Found(s, n, i)
  <2>1. PICK p \in Places(b) : \E i \in DOMAIN At(b, p).points : s = StreamOf(At(b, p), p, i)
    BY StreamsAre
  <2>2. PICK i \in DOMAIN At(b, p).points : s = StreamOf(At(b, p), p, i)
    BY <2>1
  <2>3. PICK n \in PresentNames(hosts, P) : \E D : ReadAt(b, p, n, D, hosts, P, c, d)
    BY <1>1
  <2>4. PICK D : ReadAt(b, p, n, D, hosts, P, c, d)
    BY <2>3
  <2>5. i \in D
    BY <2>4 DEF ReadAt, ReadAs
  <2> HIDE DEF Found
  <2>6. Found(s, n, i)
    BY <1>3, <2>2, <2>4, <2>5
  <2>7. i \in RawPoints(n, P)
    BY <2>4, <2>5 DEF ReadAt
  <2> QED BY <2>6, <2>7
<1>5. \A n, i : RowAt(<<n, i>>, c, d) = Row(n, i, c, d)
  BY DEF RowAt
<1> HIDE DEF S
<1>6. ASSUME NEW s \in S PROVE k[s] \in K /\ v[s] = RowAt(k[s], c, d)
  <2>1. PICK n \in PresentNames(hosts, P) : \E i \in RawPoints(n, P) : Found(s, n, i)
    BY <1>4
  <2>2. PICK i \in RawPoints(n, P) : Found(s, n, i)
    BY <2>1
  <2>3. KeyIn(s) = <<n, i>> /\ Translated(s, b[s.resource]) = Row(n, i, c, d)
    BY <2>2
  <2>4. <<n, i>> \in K
    BY KeysAre
  <2> QED BY <1>5, <2>3, <2>4
<1>7. ASSUME NEW s \in S, NEW t \in S, k[s] = k[t] PROVE s = t
  <2>1. PICK n \in PresentNames(hosts, P) : \E i \in RawPoints(n, P) : Found(s, n, i)
    BY <1>4
  <2>2. PICK i \in RawPoints(n, P) : Found(s, n, i)
    BY <2>1
  <2>3. PICK o \in PresentNames(hosts, P) : \E j \in RawPoints(o, P) : Found(t, o, j)
    BY <1>4
  <2>4. PICK j \in RawPoints(o, P) : Found(t, o, j)
    BY <2>3
  <2>5. KeyIn(s) = KeyIn(t)
    BY <1>7
  <2>6. <<n, i>> = <<o, j>>
    BY <2>2, <2>4, <2>5
  <2>7. n = o /\ i = j
    BY <2>6
  <2> QED BY <2>2, <2>4, <2>7
<1>8. ASSUME NEW x \in K PROVE \E s \in S : k[s] = x
  <2>1. PICK n \in PresentNames(hosts, P) : \E i \in RawPoints(n, P) : x = <<n, i>>
    BY KeysAre
  <2>2. PICK i \in RawPoints(n, P) : x = <<n, i>>
    BY <2>1
  <2>3. PICK p \in Places(b) : \E D : i \in D /\ ReadAt(b, p, n, D, hosts, P, c, d)
    BY <1>1
  <2>4. PICK D : i \in D /\ ReadAt(b, p, n, D, hosts, P, c, d)
    BY <2>3
  <2> DEFINE s == StreamOf(At(b, p), p, i)
  <2>5. Found(s, n, i)
    <3> HIDE DEF Found
    <3> QED BY <1>3, <2>4
  <2>6. i \in DOMAIN At(b, p).points
    BY <2>4 DEF ReadAt, ReadAs
  <2>7. s \in S
    BY <2>6, StreamsAre DEF S
  <2>8. KeyIn(s) = <<n, i>>
    BY <2>5
  <2> HIDE DEF s
  <2> QED BY <2>2, <2>7, <2>8
<1>9. k \in [S -> K]
  BY <1>6
<1> HIDE DEF k, v, K
<1>10. StandsFor(S, k, v, K, c, d)
  BY <1>6, <1>7, <1>8, <1>9 DEF StandsFor
<1> QED BY <1>10 DEF S, k, v, K

(* EveryPointOnce of a batch and of what became of it.                     *)
AllPassedOnce(in, out) ==
  /\ Cardinality(KeptIn(out)) = Cardinality(Streams(in))
  /\ {Translated(s, in[s.resource]) : s \in Streams(in)} = {PassedOn(s) : s \in KeptIn(out)}

LEMMA PassedOnce ==
  ASSUME NEW in, NEW hosts, NEW P \in SUBSET Processes, NEW c, NEW d, NEW at, NEW prevCPU, NEW prevOps, NEW out,
         BatchOf(in, hosts, P, c, d, at, "none"),
         Lists(out, FinalMetrics(hosts, P, c, d, at, prevCPU, prevOps))
  PROVE  AllPassedOnce(in, out)
<1> DEFINE S == Streams(in)
           T == KeptIn(out)
           K == Keys(hosts, P)
           k == [s \in S |-> KeyIn(s)]
           v == [s \in S |-> Translated(s, in[s.resource])]
           l == [s \in T |-> KeyOut(s)]
           w == [s \in T |-> PassedOn(s)]
<1>1. StandsFor(S, k, v, K, c, d)
  BY BatchStandsForKeys
<1>2. StandsFor(T, l, w, K, c, d)
  BY KeptStandsForKeys
<1>3. IsFiniteSet(K)
  BY KeysFinite
<1>4. {Translated(s, in[s.resource]) : s \in S} = Values(S, v)
  BY DEF Values
<1>5. {PassedOn(s) : s \in T} = Values(T, w)
  BY DEF Values
<1> HIDE DEF S, T, K, k, v, l, w
<1>6. Cardinality(S) = Cardinality(K) /\ Values(S, v) = AllRows(K, c, d)
  BY <1>1, <1>3, StandsForAll
<1>7. Cardinality(T) = Cardinality(K) /\ Values(T, w) = AllRows(K, c, d)
  BY <1>2, <1>3, StandsForAll
<1>8. Cardinality(T) = Cardinality(S)
  BY <1>6, <1>7
<1>9. {Translated(s, in[s.resource]) : s \in S} = {PassedOn(s) : s \in T}
  BY <1>4, <1>5, <1>6, <1>7
<1> QED BY <1>8, <1>9 DEF AllPassedOnce, S, T

LEMMA EveryPointOnceInit == Init => EveryPointOnce
BY DEF Init, EveryPointOnce

LEMMA EveryPointOnceNext ==
  Inductive /\ EveryPointOnce /\ [Next]_vars => EveryPointOnce'
<1> SUFFICES ASSUME Inductive, EveryPointOnce, [Next]_vars PROVE EveryPointOnce'
  OBVIOUS
<1>1. CASE Scrape
  BY <1>1 DEF Scrape, EveryPointOnce
<1>2. CASE newAgentMetricsProcessor
  BY <1>2 DEF newAgentMetricsProcessor, EveryPointOnce
<1>3. CASE ProcessMetrics
  <2> SUFFICES ASSUME output' # None PROVE AllPassedOnce(input', output')
    BY DEF EveryPointOnce, AllPassedOnce, KeptIn, PassedOn
  <2>1. input' = input /\ batch # None
    BY <1>3 DEF ProcessMetrics
  <2>2. input = batch /\ output = None
    BY <2>1 DEF Inductive, BatchMade
  <2>3. PICK hosts \in {1, 2}, P \in SUBSET Processes, f \in Faults : Handled(hosts, P, f)
    BY <1>3, <2>2, ProcessedIs
  <2>4. /\ BatchOf(batch, hosts, P, cpu, disk, now, "none")
        /\ Lists(output', FinalMetrics(hosts, P, cpu, disk, now, prevCPUTimeValues, prevOp))
    BY <2>3 DEF Handled
  <2>5. AllPassedOnce(batch, output')
    BY <2>4, PassedOnce
  <2> QED BY <2>1, <2>2, <2>5
<1>4. CASE UNCHANGED vars
  BY <1>4 DEF vars, EveryPointOnce
<1> QED BY <1>1, <1>2, <1>3, <1>4 DEF Next

(* Every point of a batch that is passed on is there once, under the name  *)
(* and the labels Cloud Monitoring expects, and nothing else is besides    *)
(* the derived metrics, through all eight passes and for any number of     *)
(* processes (agentmetricsprocessor.go:58-93).                             *)
THEOREM AllPointsGoOnOnce == Spec => []EveryPointOnce
BY EveryPointOnceInit, EveryPointOnceNext, MapsKeepHistory, PTL DEF Spec
=============================================================================

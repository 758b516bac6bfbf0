------------------------------ MODULE DcgmProofs ------------------------------
(***************************************************************************)
(* Proofs about the DCGM receiver.  Of its two goroutines, for runs of any *)
(* length: what a scrape returns was asked of DCGM after it began, unless  *)
(* its request was not served or the query failed.  Of DcgmStats, for every*)
(* set of values, every polling pattern and every number of samples kept:  *)
(* the accumulated rate and total are those of the source since the first  *)
(* value used.                                                             *)
(***************************************************************************)
EXTENDS DcgmScraper, DcgmStats, TLAPS

(* When the request of the scrape in progress has been taken, a query that *)
(* began since is under way, or has left fresh data, or has failed.        *)
ServedAfterScrape ==
  control = "receive" /\ ~trigger =>
    callFresh /\ (loop = "collect" \/ dataFresh \/ unanswered)

(* There is data only with a client, and the loop has a client while it    *)
(* polls and never elsewhere.                                              *)
ClientFollowsLoop ==
  /\ connected <=> loop \in {"collect", "wait"}
  /\ devices # "none" <=> connected

(* The loop ends only when it is told to.                                  *)
DoneWhenCancelled ==
  /\ cancelled <=> control \in {"stopping", "stopped"}
  /\ loop = "done" => cancelled
  /\ control = "stopped" => loop = "done"

IInv == TypeOK /\ ServedAfterScrape /\ ClientFollowsLoop /\ DoneWhenCancelled

LEMMA InitIInv == Init => IInv
  BY DEF Init, IInv, TypeOK, ServedAfterScrape, ClientFollowsLoop, DoneWhenCancelled

(* Connecting, polling and waiting (scraper.go:183-233).                   *)
LEMMA LoopKeeps ==
  ASSUME IInv, InitClient \/ Collect \/ PollTriggered \/ Timer \/ Cancelled
  PROVE  IInv'
<1> USE DEF IInv, TypeOK, ServedAfterScrape, ClientFollowsLoop, DoneWhenCancelled, StartCollect
<1>1. CASE InitFails
  BY <1>1 DEF InitFails
<1>2. CASE InitSucceeds
  BY <1>2 DEF InitSucceeds
<1>3. CASE CollectFails
  BY <1>3 DEF CollectFails
<1>4. CASE CollectSucceeds
  BY <1>4 DEF CollectSucceeds
<1>5. CASE PollTriggered
  BY <1>5 DEF PollTriggered
<1>6. CASE PollTimer
  BY <1>6 DEF PollTimer
<1>7. CASE LoopTimer
  BY <1>7 DEF LoopTimer
<1>8. CASE PollCancelled
  BY <1>8 DEF PollCancelled
<1>9. CASE LoopCancelled
  BY <1>9 DEF LoopCancelled
<1> QED
  BY <1>1, <1>2, <1>3, <1>4, <1>5, <1>6, <1>7, <1>8, <1>9
     DEF InitClient, Collect, Timer, Cancelled

(* Scraping and stopping (scraper.go:102-108 and 235-246).                 *)
LEMMA ControlKeeps ==
  ASSUME IInv, Meet \/ Scrape \/ ScrapeTimeout \/ Stop \/ StopReturns
  PROVE  IInv'
<1> USE DEF IInv, TypeOK, ServedAfterScrape, ClientFollowsLoop, DoneWhenCancelled
<1>1. CASE HandOver
  BY <1>1 DEF HandOver
<1>2. CASE HandOverEmpty
  BY <1>2 DEF HandOverEmpty
<1>3. CASE Scrape
  BY <1>3 DEF Scrape
<1>4. CASE ScrapeTimeout
  BY <1>4 DEF ScrapeTimeout
<1>5. CASE Stop
  BY <1>5 DEF Stop
<1>6. CASE StopReturns
  BY <1>6 DEF StopReturns
<1> QED
  BY <1>1, <1>2, <1>3, <1>4, <1>5, <1>6 DEF Meet

LEMMA Invariance == Spec => []IInv
<1>1. IInv /\ [Next]_vars => IInv'
  <2> SUFFICES ASSUME IInv, [Next]_vars PROVE IInv'
    OBVIOUS
  <2>1. CASE UNCHANGED vars
    BY <2>1 DEF vars, IInv, TypeOK, ServedAfterScrape, ClientFollowsLoop, DoneWhenCancelled
  <2> QED
    BY <2>1, LoopKeeps, ControlKeeps DEF Next
<1> QED
  BY <1>1, InitIInv, PTL DEF Spec

(* The two goroutines are always in one of their states, and there is a    *)
(* DCGM client exactly while pollClient runs (scraper.go:183-233).         *)
THEOREM TypeCorrect == Spec => [](TypeOK /\ ClientFollowsLoop)
<1>1. IInv => TypeOK /\ ClientFollowsLoop
  BY DEF IInv
<1> QED
  BY <1>1, Invariance, PTL

(* stop returns only after the loop's goroutine has: nothing uses the DCGM *)
(* client of a receiver that is shut down (scraper.go:85-88).              *)
THEOREM StoppedIsDone == Spec => [](control = "stopped" => loop = "done" /\ ~connected)
<1>1. IInv => (control = "stopped" => loop = "done" /\ ~connected)
  BY DEF IInv, ClientFollowsLoop, DoneWhenCancelled
<1> QED
  BY <1>1, Invariance, PTL

(* A scrape that returns data from before it began left its request in the *)
(* channel, or the collection that it asked for failed                     *)
(* (scraper.go:221-227), whatever the selects choose.                      *)
THEOREM StaleOnlyUntilServed == Spec => StaleUntilServed
<1>1. IInv /\ [Next]_vars =>
        [control = "receive" /\ control' = "idle" /\ scraped' = "stale" => trigger \/ unanswered]_vars
  <2> SUFFICES ASSUME IInv, Next, control = "receive", control' = "idle", scraped' = "stale"
               PROVE  trigger \/ unanswered
    OBVIOUS
  <2>1. HandOver \/ HandOverEmpty \/ ScrapeTimeout
    BY DEF Next, InitClient, InitFails, InitSucceeds, Collect, CollectFails, CollectSucceeds,
         PollTriggered, Timer, PollTimer, LoopTimer, Cancelled, PollCancelled, LoopCancelled,
         Meet, Scrape, Stop, StopReturns
  <2>2. HandOver
    BY <2>1 DEF HandOverEmpty, ScrapeTimeout
  <2>3. loop = "wait" /\ ~dataFresh
    BY <2>2 DEF HandOver
  <2> QED
    BY <2>3 DEF IInv, ServedAfterScrape
<1> QED
  BY <1>1, Invariance, PTL DEF Spec, StaleUntilServed

-----------------------------------------------------------------------------
(***************************************************************************)
(* What is accumulated for one field of one GPU.                           *)
(***************************************************************************)

Indices == 1 .. Len(samples)

(* Samples are taken one at a time, none in the future (external).         *)
Ordered ==
  /\ \A i \in Indices : samples[i].ts <= now
  /\ \A i, j \in Indices : i < j => samples[i].ts < samples[j].ts

NewestValid ==
  /\ newest # 0 => Valid(newest)
  /\ \A i \in newest + 1 .. Len(samples) : ~ Valid(i)

Succ(i, j) == i < j /\ Valid(i) /\ Valid(j) /\ \A m \in i + 1 .. j - 1 : ~ Valid(m)

(* The areas of the source add up from one valid sample to the next.       *)
Areas ==
  \A i, j \in Indices : Succ(i, j) =>
    samples[j].area = samples[i].area + (samples[j].ts - samples[i].ts) * samples[j].val

(* Only what one of the polls so far returned was passed over, and only    *)
(* while the GPU was unknown.                                              *)
PassedReturned == passed <= to /\ (lastFieldValue # 0 => known)

(* What is newer than the last value used is being visited or yet to come, *)
(* but for what was passed over.                                           *)
Unseen ==
  ~ missed =>
    \A i \in lastFieldValue + 1 .. Len(samples) :
      Valid(i) /\ (i > passed \/ lastFieldValue # 0) =>
        i >= at /\ (i > to => samples[i].ts >= lastSuccessfulPoll)

Fresh ==
  IF lastFieldValue = 0
  THEN integratedRateSeconds = 0 /\ integratedRateMicroseconds = 0 /\ cumulativeValue = 0
  ELSE Valid(lastFieldValue)

Accumulated ==
  lastFieldValue # 0 =>
    /\ first \in 1 .. lastFieldValue
    /\ initialCumulativeValue = samples[first].val
    /\ cumulativeValue = samples[lastFieldValue].val - samples[first].val
    /\ ~ missed =>
         /\ integratedRateSeconds * Second + integratedRateMicroseconds + samples[first].area
              = samples[lastFieldValue].area
         /\ \A i \in passed + 1 .. first - 1 : ~ Valid(i)

StatsInv ==
  StatsTypeOK /\ Ordered /\ NewestValid /\ Areas /\ PassedReturned /\ Unseen /\ Fresh /\ Accumulated

USE ValuesAssumption, StepAssumption, KeptAssumption, TimeAssumption
-----------------------------------------------------------------------------
LEMMA ProductIsNat ==
  ASSUME NEW m \in Nat, NEW n \in Nat
  PROVE  m * n \in Nat
BY SMT

LEMMA SecondType == Second \in Nat /\ Second > 0
BY SMT DEF Second

LEMMA Below ==
  ASSUME NEW m \in Nat, NEW n \in Nat, m >= 1, m \notin 1 .. n - 1
  PROVE  m >= n
BY SMT

LEMMA Above ==
  ASSUME NEW l \in Nat, NEW m \in Nat, NEW n \in Nat, NEW i \in m + 1 .. n,
         NEW k \in Nat, m >= l, m >= k
  PROVE  i \in l + 1 .. n /\ i >= k + 1
BY SMT

LEMMA FullStep ==
  ASSUME NEW m \in Nat, NEW n \in Nat, NEW k \in Nat, m < n
  PROVE  m * k + k <= n * k
<1> DEFINE d == n - m - 1
<1>1. d \in Nat /\ n = m + 1 + d
  BY SMT
<1>2. d * k \in Nat
  BY <1>1, ProductIsNat
<1>3. (m + 1 + d) * k = m * k + k + d * k
  BY <1>1, SMT
<1> QED
  BY <1>1, <1>2, <1>3, ProductIsNat, SMT

(* Carrying over the seconds changes no sum.                               *)
LEMMA Carry ==
  ASSUME NEW n \in Nat
  PROVE  /\ n \div Second \in Nat
         /\ n % Second \in 0 .. Second - 1
         /\ (n \div Second) * Second + (n % Second) = n
BY SecondType, SMT

LEMMA WholeSeconds ==
  ASSUME NEW s \in Nat, NEW u \in 0 .. Second - 1
  PROVE  (s * Second + u) \div Second = s
<1> DEFINE n == s * Second + u
           q == n \div Second
           r == n % Second
<1>1. n \in Nat
  BY SecondType, SMT
<1>2. q \in Nat /\ r \in 0 .. Second - 1 /\ q * Second + r = s * Second + u
  BY <1>1, Carry
<1> HIDE DEF n, q, r
<1>3. q < s => q * Second + Second <= s * Second
  BY <1>2, SecondType, FullStep
<1>4. s < q => s * Second + Second <= q * Second
  BY <1>2, SecondType, FullStep
<1>5. q * Second \in Nat /\ s * Second \in Nat
  BY <1>2, SecondType, SMT
<1>6. q = s
  BY <1>2, <1>3, <1>4, <1>5, SecondType, SMT
<1> QED
  BY <1>6 DEF n, q

LEMMA Start == StatsInit => StatsInv
<1> SUFFICES ASSUME StatsInit PROVE StatsInv
  OBVIOUS
<1>1. StatsTypeOK
  <2>1. now \in Nat /\ lastSuccessfulPoll \in 0 .. now
    BY DEF StatsInit
  <2>2. samples \in Seq([ts : Nat, val : Values \cup {Blank}, area : Nat])
    BY DEF StatsInit
  <2>3. newest \in 0 .. Len(samples) /\ lastFieldValue \in 0 .. Len(samples)
    BY DEF StatsInit
  <2>4. to \in 0 .. Len(samples) /\ at \in 1 .. to + 1
    BY DEF StatsInit
  <2>5. /\ integratedRateSeconds \in Nat
        /\ integratedRateMicroseconds \in 0 .. Second - 1
        /\ initialCumulativeValue \in Nat
        /\ cumulativeValue \in Int
    BY SecondType DEF StatsInit
  <2>6. /\ missed \in BOOLEAN /\ known \in BOOLEAN
    BY DEF StatsInit
  <2>7. first \in 0 .. lastFieldValue /\ passed \in 0 .. Len(samples)
    BY DEF StatsInit
  <2> QED
    BY <2>1, <2>2, <2>3, <2>4, <2>5, <2>6, <2>7 DEF StatsTypeOK
<1>2. /\ Ordered /\ NewestValid /\ Areas /\ PassedReturned
      /\ Unseen /\ Fresh /\ Accumulated
  BY DEF StatsInit, Ordered, NewestValid, Areas, PassedReturned, Unseen, Fresh, Accumulated, Indices
<1> QED
  BY <1>1, <1>2 DEF StatsInv

(* The ranges of the positions and times, as the type invariant has them.  *)
LEMMA StatsRanges ==
  ASSUME StatsInv
  PROVE  /\ now \in Nat /\ Len(samples) \in Nat
         /\ newest \in 0 .. Len(samples) /\ to \in 0 .. Len(samples)
         /\ at \in 1 .. to + 1 /\ lastFieldValue \in 0 .. Len(samples)
         /\ first \in 0 .. lastFieldValue /\ passed \in 0 .. to
         /\ lastSuccessfulPoll \in 0 .. now
<1>1. samples \in Seq([ts : Nat, val : Values \cup {Blank}, area : Nat])
  BY DEF StatsInv, StatsTypeOK
<1>2. Len(samples) \in Nat
  BY <1>1
<1> QED
  BY <1>2 DEF StatsInv, StatsTypeOK, PassedReturned

LEMMA SampleTypes ==
  ASSUME StatsTypeOK, NEW i \in Indices
  PROVE  /\ samples[i].ts \in Nat
         /\ samples[i].area \in Nat
         /\ samples[i].val \in Values \cup {Blank}
         /\ Valid(i) => samples[i].val \in Nat
<1> DEFINE S == [ts : Nat, val : Values \cup {Blank}, area : Nat]
<1>1. samples[i] \in S
  <2>1. samples \in Seq(S) /\ i \in 1 .. Len(samples)
    BY DEF StatsTypeOK, Indices
  <2> HIDE DEF S
  <2> QED
    BY <2>1
<1>2. samples[i].ts \in Nat /\ samples[i].area \in Nat /\ samples[i].val \in Values \cup {Blank}
  BY <1>1
<1> QED
  BY <1>2 DEF Valid

(* Time passes: nothing depends on now but that it bounds the samples.     *)
LEMMA TickStep == StatsInv /\ Tick => StatsInv'
<1> SUFFICES ASSUME StatsInv, Tick PROVE StatsInv'
  OBVIOUS
<1> USE DEF Tick, source, stats, poll
<1>1. now \in Nat /\ now' \in Nat /\ now <= now'
  BY DEF StatsInv, StatsTypeOK
<1>2. StatsTypeOK'
  BY <1>1 DEF StatsInv, StatsTypeOK
<1>3. Ordered'
  BY <1>1, SampleTypes DEF StatsInv, Ordered, Indices
<1>4. NewestValid' /\ Areas' /\ PassedReturned' /\ Unseen' /\ Fresh' /\ Accumulated'
  BY DEF StatsInv, NewestValid, Areas, PassedReturned, Unseen, Fresh, Accumulated, Indices,
         Succ, Valid
<1> QED
  BY <1>2, <1>3, <1>4 DEF StatsInv

(* What a new sample, valid or not, leaves alone.                          *)
LEMMA Appended ==
  ASSUME StatsTypeOK, NEW s, samples' = Append(samples, s)
  PROVE  /\ Len(samples) \in Nat
         /\ Len(samples') = Len(samples) + 1
         /\ samples'[Len(samples) + 1] = s
         /\ \A i \in 1 .. Len(samples) : samples'[i] = samples[i]
BY DEF StatsTypeOK

LEMMA OrderedAppended ==
  ASSUME StatsInv, SampleDue, NEW s, s.ts = now, samples' = Append(samples, s), UNCHANGED now
  PROVE  Ordered'
<1> DEFINE n == Len(samples)
<1>1. /\ n \in Nat /\ Len(samples') = n + 1
      /\ samples'[n + 1] = s
      /\ \A i \in 1 .. n : samples'[i] = samples[i]
  BY Appended DEF StatsInv
<1>2. \A i \in 1 .. n : samples'[i].ts < samples'[n + 1].ts /\ samples'[i].ts \in Nat
  BY <1>1, SampleTypes DEF StatsInv, Indices, SampleDue
<1>3. \A i, j \in 1 .. n : i < j => samples'[i].ts < samples'[j].ts
  BY <1>1 DEF StatsInv, Ordered, Indices
<1>4. \A i \in 1 .. n + 1 : samples'[i].ts <= now'
  <2>1. now \in Nat
    BY StatsRanges
  <2> QED
    BY <1>1, <1>2, <2>1
<1>5. ASSUME NEW i \in 1 .. n + 1, NEW j \in 1 .. n + 1, i < j
      PROVE  samples'[i].ts < samples'[j].ts
  <2>1. i \in 1 .. n
    BY <1>1, <1>5
  <2>2. CASE j = n + 1
    BY <1>2, <2>1, <2>2
  <2>3. CASE j # n + 1
    BY <1>1, <1>3, <1>5, <2>1, <2>3
  <2> QED
    BY <2>2, <2>3
<1> QED
  BY <1>1, <1>4, <1>5 DEF Ordered, Indices

LEMMA TakeSampleStep ==
  ASSUME NEW val \in Values
  PROVE  StatsInv /\ TakeSample(val) => StatsInv'
<1> SUFFICES ASSUME StatsInv, TakeSample(val) PROVE StatsInv'
  OBVIOUS
<1> DEFINE n == Len(samples)
           new == [ts |-> now, val |-> val, area |-> Area(val)]
<1>1. /\ n \in Nat /\ Len(samples') = n + 1
      /\ samples'[n + 1] = new
      /\ \A i \in 1 .. n : samples'[i] = samples[i]
  BY Appended DEF StatsInv, TakeSample
<1>2. UNCHANGED <<now, stats, poll>> /\ newest' = n + 1
  BY DEF TakeSample
<1>3. val \in Nat /\ val # Blank /\ now \in Nat /\ newest \in 0 .. n
  BY DEF StatsInv, StatsTypeOK
<1>4. Area(val) \in Nat
  <2>1. CASE newest = 0
    BY <2>1 DEF Area
  <2>2. CASE newest # 0
    <3>1. newest \in Indices
      BY <1>3, <2>2 DEF Indices
    <3>2. now - samples[newest].ts \in Nat /\ samples[newest].area \in Nat
      BY <1>3, <3>1, SampleTypes DEF StatsInv, Ordered
    <3>3. (now - samples[newest].ts) * val \in Nat
      BY <1>3, <3>2, ProductIsNat
    <3> QED
      BY <2>2, <3>2, <3>3 DEF Area
  <2> QED
    BY <2>1, <2>2
<1>5. new.ts = now /\ new.val = val /\ new.area = Area(val)
  OBVIOUS
<1>6. StatsTypeOK'
  <2>1. samples' \in Seq([ts : Nat, val : Values \cup {Blank}, area : Nat])
    BY <1>3, <1>4 DEF StatsInv, StatsTypeOK, TakeSample
  <2> QED
    BY <1>1, <1>2, <2>1 DEF StatsInv, StatsTypeOK, stats, poll
<1> HIDE DEF new
<1>7. \A i \in 1 .. n : Valid(i)' <=> Valid(i)
  BY <1>1 DEF Valid
<1>8. samples'[n + 1].val # Blank
  BY <1>1, <1>3, <1>5
<1>9. Ordered'
  BY <1>5, OrderedAppended DEF TakeSample, new
<1>10. NewestValid'
  BY <1>1, <1>2, <1>8 DEF NewestValid, Valid
<1>11. Areas'
  <2>1. ASSUME NEW i \in 1 .. n + 1, NEW j \in 1 .. n + 1, Succ(i, j)'
        PROVE  samples'[j].area
                 = samples'[i].area + (samples'[j].ts - samples'[i].ts) * samples'[j].val
    <3>1. CASE j = n + 1
      <4>1. i \in 1 .. n /\ Valid(i) /\ \A m \in i + 1 .. n : ~ Valid(m)
        BY <1>1, <1>7, <2>1, <3>1 DEF Succ
      <4>2. newest = i
        BY <1>1, <1>3, <4>1 DEF StatsInv, NewestValid
      <4> QED
        BY <1>1, <1>5, <3>1, <4>1, <4>2 DEF Area
    <3>2. CASE j \in 1 .. n
      <4>1. i \in 1 .. n /\ Succ(i, j)
        BY <1>1, <1>7, <2>1, <3>2 DEF Succ
      <4> QED
        BY <1>1, <3>2, <4>1 DEF StatsInv, Areas, Indices
    <3> QED
      BY <1>1, <3>1, <3>2
  <2> QED
    BY <1>1, <2>1 DEF Areas, Indices
<1>12. Unseen' /\ PassedReturned'
  <2>1. at <= n + 1 /\ now >= lastSuccessfulPoll /\ to \in Nat /\ at \in Nat /\ lastFieldValue \in Nat
    BY <1>1 DEF StatsInv, StatsTypeOK
  <2>2. ASSUME ~ missed, NEW i \in lastFieldValue + 1 .. n + 1, Valid(i)',
               i > passed \/ lastFieldValue # 0
        PROVE  i >= at /\ (i > to => samples'[i].ts >= lastSuccessfulPoll)
    <3>1. CASE i = n + 1
      BY <1>1, <1>5, <2>1, <3>1
    <3>2. CASE i # n + 1
      <4>1. i \in 1 .. n /\ i \in lastFieldValue + 1 .. n
        BY <1>1, <2>1, <2>2, <3>2
      <4> QED
        BY <1>1, <1>7, <2>2, <4>1 DEF StatsInv, Unseen
    <3> QED
      BY <3>1, <3>2
  <2> QED
    BY <1>1, <1>2, <2>2 DEF Unseen, PassedReturned, StatsInv, stats, poll
<1>13. Fresh'
  BY <1>1, <1>2, <1>7 DEF StatsInv, Fresh, StatsTypeOK, stats
<1>14. Accumulated'
  <2>1. lastFieldValue # 0 => lastFieldValue \in 1 .. n /\ first \in 1 .. n /\ passed \in Nat
    <3>1. lastFieldValue # 0 => first \in 1 .. lastFieldValue
      BY DEF StatsInv, Accumulated
    <3> QED
      BY <1>1, <3>1, StatsRanges
  <2>2. ASSUME lastFieldValue # 0, NEW i \in passed + 1 .. first - 1
        PROVE  Valid(i)' <=> Valid(i)
    BY <1>1, <1>7, <2>1, <2>2
  <2> QED
    BY <1>1, <1>2, <2>1, <2>2 DEF StatsInv, Accumulated, stats, poll
<1> QED
  BY <1>6, <1>9, <1>10, <1>11, <1>12, <1>13, <1>14 DEF StatsInv

(* A blank sample changes nothing that a valid one does.                   *)
LEMMA TakeBlankStep == StatsInv /\ TakeBlank => StatsInv'
<1> SUFFICES ASSUME StatsInv, TakeBlank PROVE StatsInv'
  OBVIOUS
<1> DEFINE n == Len(samples)
           new == [ts |-> now, val |-> Blank, area |-> 0]
<1>1. /\ n \in Nat /\ Len(samples') = n + 1
      /\ samples'[n + 1] = new
      /\ \A i \in 1 .. n : samples'[i] = samples[i]
  BY Appended DEF StatsInv, TakeBlank
<1>2. UNCHANGED <<now, newest, stats, poll>>
  BY DEF TakeBlank
<1>3. now \in Nat /\ newest \in 0 .. n
  BY DEF StatsInv, StatsTypeOK
<1>4. new.ts = now /\ new.val = Blank
  OBVIOUS
<1>5. StatsTypeOK'
  <2>1. samples' \in Seq([ts : Nat, val : Values \cup {Blank}, area : Nat])
    BY <1>3 DEF StatsInv, StatsTypeOK, TakeBlank
  <2>2. /\ newest' \in 0 .. Len(samples') /\ to' \in 0 .. Len(samples')
        /\ lastFieldValue' \in 0 .. Len(samples') /\ passed' \in 0 .. Len(samples')
    BY <1>1, <1>2, StatsRanges DEF stats, poll
  <2>3. /\ now' = now /\ lastSuccessfulPoll' = lastSuccessfulPoll /\ at' = at /\ to' = to
        /\ missed' = missed /\ known' = known
        /\ first' = first /\ lastFieldValue' = lastFieldValue
        /\ integratedRateSeconds' = integratedRateSeconds
        /\ integratedRateMicroseconds' = integratedRateMicroseconds
        /\ initialCumulativeValue' = initialCumulativeValue
        /\ cumulativeValue' = cumulativeValue
    BY <1>2 DEF stats, poll
  <2> HIDE DEF new, n
  <2> QED
    BY <2>1, <2>2, <2>3 DEF StatsInv, StatsTypeOK
<1> HIDE DEF new
<1>6. \A i \in 1 .. n : Valid(i)' <=> Valid(i)
  BY <1>1 DEF Valid
<1>7. samples'[n + 1].val = Blank
  BY <1>1, <1>4
<1>8. \A i \in 1 .. n + 1 : Valid(i)' => i \in 1 .. n
  BY <1>1, <1>7 DEF Valid
<1>9. Ordered'
  BY <1>4, OrderedAppended DEF TakeBlank, new
<1>10. NewestValid'
  BY <1>1, <1>2, <1>3, <1>6, <1>7 DEF StatsInv, NewestValid, Valid
<1>11. \A i, j \in 1 .. n + 1 : Succ(i, j)' => i \in 1 .. n /\ j \in 1 .. n /\ Succ(i, j)
  BY <1>1, <1>6, <1>8 DEF Succ
<1>12. Areas'
  BY <1>1, <1>11 DEF StatsInv, Areas, Indices
<1>13. Unseen' /\ PassedReturned'
  <2>1. ASSUME ~ missed, NEW i \in lastFieldValue + 1 .. n + 1, Valid(i)',
               i > passed \/ lastFieldValue # 0
        PROVE  i >= at /\ (i > to => samples'[i].ts >= lastSuccessfulPoll)
    <3>1. i \in 1 .. n + 1 /\ lastFieldValue \in Nat
      BY <1>1, <2>1 DEF StatsInv, StatsTypeOK
    <3>2. i \in 1 .. n /\ Valid(i) /\ i \in lastFieldValue + 1 .. n
      BY <1>1, <1>6, <1>8, <2>1, <3>1
    <3> QED
      BY <1>1, <2>1, <3>2 DEF StatsInv, Unseen
  <2> QED
    BY <1>1, <1>2, <2>1 DEF Unseen, PassedReturned, StatsInv, stats, poll
<1>14. Fresh'
  BY <1>1, <1>2, <1>6 DEF StatsInv, Fresh, StatsTypeOK, stats
<1>15. Accumulated'
  <2>1. lastFieldValue # 0 => lastFieldValue \in 1 .. n /\ first \in 1 .. n /\ passed \in Nat
    <3>1. lastFieldValue # 0 => first \in 1 .. lastFieldValue
      BY DEF StatsInv, Accumulated
    <3> QED
      BY <1>1, <3>1, StatsRanges
  <2>2. ASSUME lastFieldValue # 0, NEW i \in passed + 1 .. first - 1
        PROVE  Valid(i)' <=> Valid(i)
    BY <1>1, <1>6, <2>1, <2>2
  <2> QED
    BY <1>1, <1>2, <2>1, <2>2 DEF StatsInv, Accumulated, stats, poll
<1> QED
  BY <1>5, <1>9, <1>10, <1>12, <1>13, <1>14, <1>15 DEF StatsInv

(* A poll that succeeds returns every unseen sample that DCGM still keeps. *)
LEMMA PollSucceedsStep == StatsInv /\ PollSucceeds => StatsInv'
<1> SUFFICES ASSUME StatsInv, PollSucceeds PROVE StatsInv'
  OBVIOUS
<1>1. /\ UNCHANGED <<now, source, stats>>
      /\ known' = known /\ passed' = passed
      /\ to' = Len(samples) /\ at' \in 1 .. Len(samples) + 1
  BY DEF PollSucceeds
<1>2. lastSuccessfulPoll' \in 0 .. now
  <2>1. /\ lastSuccessfulPoll' \in {samples[i].ts : i \in 1 .. Len(samples)}
                                  \cup {lastSuccessfulPoll, now}
        /\ lastSuccessfulPoll' >= lastSuccessfulPoll
    BY DEF PollSucceeds, PollTimes
  <2>2. \A i \in 1 .. Len(samples) : samples[i].ts \in Nat /\ samples[i].ts <= now
    BY SampleTypes DEF StatsInv, Ordered, Indices
  <2> QED
    BY <2>1, <2>2, StatsRanges
<1>3. StatsTypeOK'
  BY <1>1, <1>2 DEF StatsInv, StatsTypeOK, PollSucceeds, source, stats
<1>4. Ordered' /\ NewestValid' /\ Areas' /\ PassedReturned' /\ Fresh'
  <2>1. PassedReturned'
    BY <1>1, StatsRanges DEF StatsInv, PassedReturned, source, stats
  <2> QED
    BY <1>1, <2>1 DEF StatsInv, Ordered, NewestValid, Areas, Fresh, Succ, Valid, Indices,
                      source, stats
<1>5. Unseen'
  <2>1. ASSUME ~ missed', NEW i \in lastFieldValue + 1 .. Len(samples), Valid(i),
               i > passed \/ lastFieldValue # 0
        PROVE  i >= at'
    <3>1. i \in Indices /\ at > to /\ at \in Nat /\ to \in Nat
      BY DEF StatsInv, StatsTypeOK, Indices, PollSucceeds, Collecting
    <3>2. ~ missed /\ (i \in Unread => ~ (i <= Len(samples) - Kept))
      BY <2>1 DEF PollSucceeds
    <3>3. i >= at /\ (i > to => samples[i].ts >= lastSuccessfulPoll)
      BY <2>1, <3>2 DEF StatsInv, Unseen
    <3>4. i > Len(samples) - Kept
      <4>1. i > passed
        BY <3>1, <3>3, StatsRanges DEF Indices
      <4> QED
        BY <2>1, <3>1, <3>2, <4>1, StatsRanges DEF Unread, Indices
    <3>5. Since(i)
      BY <3>1, <3>3, <3>4 DEF Since, Indices
    <3>6. \A j \in 1 .. at' - 1 : ~ Since(j)
      BY DEF PollSucceeds, Starts
    <3>7. Len(samples) \in Nat /\ i \in Nat /\ i >= 1
      BY <3>1 DEF StatsInv, StatsTypeOK, Indices
    <3>8. ~ i \in 1 .. at' - 1
      BY Zenon, <3>5, <3>6
    <3>9. at' \in Nat
      BY <1>1, <3>7
    <3> QED
      BY <3>7, <3>8, <3>9, Below
  <2>2. /\ to' = Len(samples') /\ samples' = samples /\ lastFieldValue' = lastFieldValue
        /\ Len(samples) \in Nat /\ lastFieldValue \in Nat
    BY <1>1, StatsRanges DEF source, stats
  <2>3. ASSUME ~ missed', NEW i \in lastFieldValue' + 1 .. Len(samples'), Valid(i)',
               i > passed' \/ lastFieldValue' # 0
        PROVE  i >= at' /\ ~ (i > to')
    <3>1. i \in lastFieldValue + 1 .. Len(samples) /\ Valid(i) /\ (i > passed \/ lastFieldValue # 0)
      BY <1>1, <2>2, <2>3 DEF Valid
    <3>2. i >= at'
      BY <2>1, <2>3, <3>1
    <3> QED BY <2>2, <3>1, <3>2
  <2> QED
    BY <2>3 DEF Unseen
<1>6. Accumulated'
  BY <1>1 DEF StatsInv, Accumulated, Valid, PollSucceeds, source, stats
<1> QED
  BY <1>3, <1>4, <1>5, <1>6 DEF StatsInv

(* The GPU becomes known, or the value is passed over, or it is invalid.   *)
LEMMA NewDeviceStep == StatsInv /\ NewDevice => StatsInv'
<1> SUFFICES ASSUME StatsInv, NewDevice PROVE StatsInv'
  OBVIOUS
<1>1. known' = TRUE /\ UNCHANGED <<now, source, stats, lastSuccessfulPoll, at, to, passed, missed>>
  BY DEF NewDevice
<1> QED
  <2>1. StatsTypeOK'
    BY <1>1 DEF StatsInv, StatsTypeOK, source, stats
  <2>2. Ordered' /\ NewestValid' /\ PassedReturned'
    BY <1>1 DEF StatsInv, Ordered, NewestValid, PassedReturned, Valid, Indices, source, stats
  <2>3. Unseen' /\ Fresh' /\ Accumulated'
    BY <1>1 DEF StatsInv, Unseen, Fresh, Accumulated, Valid, source, stats
  <2>4. Areas'
    BY <1>1 DEF StatsInv, Areas, Succ, Valid, Indices, source
  <2> QED
    BY <2>1, <2>2, <2>3, <2>4 DEF StatsInv

(* Visiting the next value without using this one.                         *)
LEMMA NotUsed ==
  ASSUME StatsInv, at <= to, at' = at + 1,
         UNCHANGED <<now, source, stats, lastSuccessfulPoll, to, known, missed>>,
         passed' \in passed .. to, passed' # passed => lastFieldValue = 0,
         ~ Valid(at) \/ (lastFieldValue = 0 /\ passed' >= at)
  PROVE  StatsInv'
<1>1. /\ at \in Nat /\ to \in 0 .. Len(samples) /\ passed \in Nat /\ passed' \in Nat
      /\ Len(samples) \in Nat /\ lastFieldValue \in Nat
  BY StatsRanges
<1>2. StatsTypeOK'
  <2>1. passed' \in 0 .. Len(samples) /\ at' \in 1 .. to + 1
    BY <1>1, StatsRanges
  <2> QED
    BY <2>1 DEF StatsInv, StatsTypeOK, source, stats
<1>3. Ordered' /\ NewestValid' /\ Areas' /\ Fresh'
  BY DEF StatsInv, Ordered, NewestValid, Areas, Fresh, Succ, Valid, Indices, source, stats
<1>4. PassedReturned'
  BY <1>1 DEF StatsInv, PassedReturned, stats
<1>5. Accumulated'
  <2>1. lastFieldValue # 0 => passed' = passed
    OBVIOUS
  <2> QED
    BY <2>1 DEF StatsInv, Accumulated, Valid, source, stats
<1>6. Unseen'
  <2>1. ASSUME ~ missed, NEW i \in lastFieldValue + 1 .. Len(samples), Valid(i),
               i > passed' \/ lastFieldValue # 0
        PROVE  i >= at + 1 /\ (i > to => samples[i].ts >= lastSuccessfulPoll)
    <3>1. i \in Nat /\ (i > passed \/ lastFieldValue # 0)
      BY <1>1, <2>1
    <3>2. i >= at /\ (i > to => samples[i].ts >= lastSuccessfulPoll)
      BY <2>1, <3>1 DEF StatsInv, Unseen
    <3>3. i # at
      BY <1>1, <2>1
    <3> QED
      BY <1>1, <3>1, <3>2, <3>3
  <2> QED
    BY <2>1 DEF Unseen, Valid, source, stats
<1> QED
  BY <1>2, <1>3, <1>4, <1>5, <1>6 DEF StatsInv

LEMMA PassOverStep == StatsInv /\ PassOver => StatsInv'
<1> SUFFICES ASSUME StatsInv, PassOver PROVE StatsInv'
  OBVIOUS
<1>1. /\ UNCHANGED <<now, source, stats, lastSuccessfulPoll, to, known, missed>>
      /\ at' = at + 1 /\ at <= to /\ ~ known
      /\ passed' = IF at > passed THEN at ELSE passed
  BY DEF PassOver, Collecting
<1>2. passed' \in passed .. to /\ passed' >= at
  BY <1>1, StatsRanges
<1>3. lastFieldValue = 0
  BY <1>1 DEF StatsInv, PassedReturned
<1> QED
  BY <1>1, <1>2, <1>3, NotUsed

LEMMA SkipInvalidStep == StatsInv /\ SkipInvalid => StatsInv'
<1> SUFFICES ASSUME StatsInv, SkipInvalid PROVE StatsInv'
  OBVIOUS
<1>1. /\ UNCHANGED <<now, source, stats, lastSuccessfulPoll, to, known, passed, missed>>
      /\ at' = at + 1 /\ at <= to /\ ~ Valid(at)
  BY DEF SkipInvalid, Collecting
<1>2. passed' \in passed .. to
  BY <1>1, StatsRanges
<1> QED
  BY <1>1, <1>2, NotUsed

(* The sample at hand, when it is used and another one was used before, is *)
(* the next valid one.                                                     *)
LEMMA NextUsed ==
  ASSUME StatsInv, Collecting, Valid(at), lastFieldValue # 0, ~ Stale
  PROVE  /\ at \in Indices /\ lastFieldValue \in Indices
         /\ lastFieldValue < at
         /\ ~ missed => Succ(lastFieldValue, at)
<1>1. at \in Indices /\ lastFieldValue \in Indices
  BY DEF StatsInv, StatsTypeOK, Indices, Collecting
<1>2. lastFieldValue < at
  BY <1>1, SampleTypes DEF StatsInv, Ordered, Stale, Indices
<1>3. ~ missed => \A m \in lastFieldValue + 1 .. at - 1 : ~ Valid(m)
  BY <1>1 DEF StatsInv, Unseen, Indices
<1> QED
  BY <1>1, <1>2, <1>3 DEF StatsInv, Fresh, Succ

LEMMA UpdateStep == StatsInv /\ Update => StatsInv'
<1> SUFFICES ASSUME StatsInv, Update PROVE StatsInv'
  OBVIOUS
<1>1. /\ UNCHANGED <<now, samples, newest, lastSuccessfulPoll, to, known, passed, missed>>
      /\ at' = at + 1 /\ Collecting /\ known /\ Valid(at)
  BY DEF Update, source
<1>2. /\ at \in Indices /\ Len(samples) \in Nat /\ at <= to /\ to <= Len(samples)
      /\ samples[at].val \in Nat /\ samples[at].ts \in Nat
  <2>1. at \in Indices /\ Len(samples) \in Nat /\ at <= to /\ to <= Len(samples)
    BY <1>1 DEF StatsInv, StatsTypeOK, Indices, Collecting
  <2> QED
    BY <1>1, <2>1, SampleTypes DEF StatsInv
<1>3. Ordered' /\ NewestValid' /\ Areas' /\ PassedReturned'
  BY <1>1 DEF StatsInv, Ordered, NewestValid, Areas, PassedReturned, Succ, Valid, Indices
<1>4. ASSUME lastFieldValue' \in Indices, lastFieldValue' >= at,
             lastFieldValue' >= lastFieldValue
      PROVE  Unseen'
  <2>1. ASSUME ~ missed, NEW i \in lastFieldValue' + 1 .. Len(samples), Valid(i)
        PROVE  i >= at + 1 /\ (i > to => samples[i].ts >= lastSuccessfulPoll)
    <3>1. lastFieldValue' \in Nat /\ lastFieldValue \in Nat /\ at \in Nat
      BY <1>2, <1>4 DEF StatsInv, StatsTypeOK, Indices
    <3>2. i \in lastFieldValue + 1 .. Len(samples) /\ i >= at + 1
      BY <1>2, <1>4, <2>1, <3>1, Above
    <3>3. i > to => i > passed
      BY <1>2, <3>2, StatsRanges
    <3> QED
      BY <2>1, <3>2, <3>3 DEF StatsInv, Unseen
  <2> QED
    BY <1>1, <2>1 DEF Unseen, Valid
<1>5. ASSUME lastFieldValue' \in Indices, integratedRateSeconds' \in Nat,
             integratedRateMicroseconds' \in 0 .. Second - 1,
             initialCumulativeValue' \in Nat, cumulativeValue' \in Int,
             first' \in 0 .. lastFieldValue'
      PROVE  StatsTypeOK'
  <2>1. /\ now' = now /\ samples' = samples /\ newest' = newest
        /\ lastSuccessfulPoll' = lastSuccessfulPoll /\ to' = to /\ missed' = missed
        /\ known' = known /\ passed' = passed
    BY <1>1
  <2>2. at' \in 1 .. to' + 1
    BY <1>1, <1>2, StatsRanges
  <2>3. lastFieldValue' \in 0 .. Len(samples')
    BY <1>2, <1>5, <2>1 DEF Indices
  <2>4. /\ samples' \in Seq([ts : Nat, val : Values \cup {Blank}, area : Nat])
        /\ missed' \in BOOLEAN /\ known' \in BOOLEAN /\ passed' \in 0 .. Len(samples')
    BY <2>1 DEF StatsInv, StatsTypeOK
  <2>5. /\ now' \in Nat /\ newest' \in 0 .. Len(samples') /\ lastSuccessfulPoll' \in 0 .. now'
        /\ to' \in 0 .. Len(samples')
    BY <2>1, StatsRanges
  <2> QED
    BY <1>5, <2>2, <2>3, <2>4, <2>5 DEF StatsTypeOK
<1>6. /\ integratedRateMicroseconds \in 0 .. Second - 1 /\ integratedRateSeconds \in Nat
      /\ initialCumulativeValue \in Nat /\ cumulativeValue \in Int
      /\ first \in 0 .. lastFieldValue
  BY DEF StatsInv, StatsTypeOK
<1>7. CASE UpdateFirst
  <2>1. /\ lastFieldValue = 0 /\ lastFieldValue' = at /\ first' = at
        /\ initialCumulativeValue' = samples[at].val
        /\ UNCHANGED <<integratedRateSeconds, integratedRateMicroseconds, cumulativeValue>>
    BY <1>7 DEF UpdateFirst
  <2>2. StatsTypeOK'
    BY <1>2, <1>5, <1>6, <2>1 DEF Indices
  <2>3. Unseen'
    BY <1>2, <1>4, <2>1 DEF Indices
  <2>4. Fresh'
    BY <1>1, <1>2, <2>1 DEF Fresh, Valid, Indices
  <2>5. ASSUME ~ missed, NEW i \in passed + 1 .. at - 1
        PROVE  ~ Valid(i)
    <3>1. i \in lastFieldValue + 1 .. Len(samples) /\ i > passed /\ ~ (i >= at)
      BY <1>2, <2>1, StatsRanges DEF Indices
    <3> QED
      BY <2>5, <3>1 DEF StatsInv, Unseen
  <2>6. /\ integratedRateSeconds = 0 /\ integratedRateMicroseconds = 0 /\ cumulativeValue = 0
        /\ samples[at].area \in Nat
    BY <1>2, <2>1, SampleTypes DEF StatsInv, Fresh
  <2>7. /\ integratedRateSeconds * Second + integratedRateMicroseconds + samples[at].area
             = samples[at].area
        /\ cumulativeValue = samples[at].val - samples[at].val
    BY <1>2, <2>6, SecondType
  <2>8. Accumulated'
    BY <1>1, <1>2, <2>1, <2>5, <2>7 DEF Accumulated, Valid, Indices
  <2> QED
    BY <1>3, <2>2, <2>3, <2>4, <2>8 DEF StatsInv
<1>8. CASE UpdateStale
  <2>1. lastFieldValue # 0 /\ Stale /\ UNCHANGED stats
    BY <1>8 DEF UpdateStale
  <2>2. lastFieldValue \in Indices
    BY <2>1 DEF StatsInv, StatsTypeOK, Indices
  <2>3. lastFieldValue >= at
    BY <1>2, <2>1, <2>2, SampleTypes DEF StatsInv, Ordered, Stale, Indices
  <2>4. StatsTypeOK'
    BY <1>5, <1>6, <2>1, <2>2 DEF stats
  <2>5. Unseen'
    BY <1>4, <2>1, <2>2, <2>3 DEF Indices, stats
  <2>6. Fresh' /\ Accumulated'
    BY <1>1, <2>1 DEF StatsInv, Fresh, Accumulated, Valid, stats
  <2> QED
    BY <1>3, <2>4, <2>5, <2>6 DEF StatsInv
<1>9. CASE UpdateNewer
  <2>1. /\ lastFieldValue # 0 /\ ~ Stale /\ lastFieldValue' = at
        /\ cumulativeValue' = samples[at].val - initialCumulativeValue
        /\ initialCumulativeValue' = initialCumulativeValue /\ first' = first
        /\ integratedRateSeconds' = integratedRateSeconds + (Integrated \div Second)
        /\ integratedRateMicroseconds' = Integrated % Second
    BY <1>9 DEF UpdateNewer, Integrate, Difference
  <2>2. /\ lastFieldValue \in Indices /\ lastFieldValue < at
        /\ ~ missed => Succ(lastFieldValue, at)
    BY <1>1, <2>1, NextUsed
  <2> DEFINE gap == (samples[at].ts - samples[lastFieldValue].ts) * samples[at].val
  <2>3. gap \in Nat
    <3>1. samples[at].ts - samples[lastFieldValue].ts \in Nat
      BY <1>2, <2>2, SampleTypes DEF StatsInv, Ordered, Indices
    <3> QED
      BY <1>2, <3>1, ProductIsNat
  <2>4. /\ integratedRateMicroseconds \in Nat /\ integratedRateSeconds \in Nat
        /\ initialCumulativeValue \in Nat
    BY SecondType DEF StatsInv, StatsTypeOK
  <2>5. Integrated \in Nat /\ Integrated = integratedRateMicroseconds + gap
    BY <2>3, <2>4 DEF Integrated
  <2>6. /\ Integrated \div Second \in Nat /\ Integrated % Second \in 0 .. Second - 1
        /\ (Integrated \div Second) * Second + (Integrated % Second) = Integrated
    BY <2>5, Carry
  <2>7. StatsTypeOK'
    <3>1. /\ cumulativeValue' \in Int /\ integratedRateSeconds' \in Nat
          /\ integratedRateMicroseconds' \in 0 .. Second - 1
      BY <1>2, <2>1, <2>4, <2>6
    <3>2. first' \in 0 .. lastFieldValue'
      BY <1>2, <1>6, <2>1, <2>2 DEF Indices
    <3> QED
      BY <1>2, <1>5, <2>1, <2>4, <3>1, <3>2
  <2>8. Unseen'
    BY <1>2, <1>4, <2>1, <2>2 DEF Indices
  <2>9. Fresh'
    BY <1>1, <1>2, <2>1 DEF Fresh, Valid, Indices
  <2>10. ASSUME ~ missed
         PROVE  integratedRateSeconds' * Second + integratedRateMicroseconds'
                    + samples[first].area = samples[at].area
    <3>1. samples[at].area = samples[lastFieldValue].area + gap
      BY <1>2, <2>2, <2>10 DEF StatsInv, Areas
    <3>2. integratedRateSeconds * Second + integratedRateMicroseconds + samples[first].area
            = samples[lastFieldValue].area
      BY <2>1, <2>10 DEF StatsInv, Accumulated
    <3>7. samples[first].area \in Nat
      <4>1. first \in Indices
        BY <2>1, <2>2, StatsRanges DEF StatsInv, Accumulated, Indices
      <4> QED
        BY <4>1, SampleTypes DEF StatsInv
    <3> DEFINE q == Integrated \div Second
               r == Integrated % Second
    <3> HIDE DEF q, r, gap
    <3>3. /\ integratedRateSeconds' = integratedRateSeconds + q
          /\ integratedRateMicroseconds' = r
      BY <2>1 DEF q, r
    <3>4. q \in Nat /\ r \in Nat /\ q * Second + r = Integrated
      BY <2>6, SecondType DEF q, r
    <3>5. (integratedRateSeconds + q) * Second = integratedRateSeconds * Second + q * Second
      BY <2>4, <3>4, SecondType, SMT
    <3>6. integratedRateSeconds * Second \in Nat /\ q * Second \in Nat
      BY <2>4, <3>4, SecondType, ProductIsNat
    <3> QED
      BY <2>3, <2>4, <2>5, <3>1, <3>2, <3>3, <3>4, <3>5, <3>6, <3>7, SMT
  <2>11. Accumulated'
    <3>1. first \in 1 .. at
      BY <1>2, <2>1, <2>2, StatsRanges DEF StatsInv, Accumulated, Indices
    <3> QED
      BY <1>1, <2>1, <2>10, <3>1 DEF StatsInv, Accumulated, Valid
  <2> QED
    BY <1>3, <2>7, <2>8, <2>9, <2>11 DEF StatsInv
<1> QED
  BY <1>1, <1>7, <1>8, <1>9 DEF Update
-----------------------------------------------------------------------------
LEMMA StepKeeps == StatsInv /\ [StatsNext]_statsVars => StatsInv'
<1> SUFFICES ASSUME StatsInv, [StatsNext]_statsVars PROVE StatsInv'
  OBVIOUS
<1>1. CASE Tick
  BY <1>1, TickStep
<1>2. CASE \E val \in Values : TakeSample(val)
  BY <1>2, TakeSampleStep
<1>3. CASE TakeBlank
  BY <1>3, TakeBlankStep
<1>4. CASE PollSucceeds
  BY <1>4, PollSucceedsStep
<1>5. CASE UNCHANGED statsVars
  <2>1. StatsTypeOK'
    BY <1>5 DEF statsVars, source, stats, poll, StatsInv, StatsTypeOK
  <2>2. Ordered' /\ NewestValid' /\ PassedReturned'
    BY <1>5 DEF statsVars, source, stats, poll, StatsInv, Ordered, NewestValid,
                PassedReturned, Valid, Indices
  <2>4. Areas'
    BY <1>5 DEF statsVars, source, StatsInv, Areas, Succ, Valid, Indices
  <2>3. Unseen' /\ Fresh' /\ Accumulated'
    BY <1>5 DEF statsVars, source, stats, poll, StatsInv, Unseen, Fresh, Accumulated, Valid
  <2> QED
    BY <2>1, <2>2, <2>3, <2>4 DEF StatsInv
<1>6. CASE PollFails
  BY <1>5, <1>6 DEF PollFails
<1>7. CASE SkipInvalid
  BY <1>7, SkipInvalidStep
<1>8. CASE Update
  BY <1>8, UpdateStep
<1>9. CASE NewDevice
  BY <1>9, NewDeviceStep
<1>10. CASE PassOver
  BY <1>10, PassOverStep
<1> QED
  BY <1>1, <1>2, <1>3, <1>4, <1>5, <1>6, <1>7, <1>8, <1>9, <1>10 DEF StatsNext

LEMMA Inductive == StatsSpec => []StatsInv
BY Start, StepKeeps, PTL DEF StatsSpec
-----------------------------------------------------------------------------
(* Every variable keeps its type (util.go:27-40, client.go:58); the rest   *)
(* of the integrated rate stays below a second (util.go:83-84).            *)
THEOREM StatsTypeCorrect == StatsSpec => []StatsTypeOK
<1>1. StatsInv => StatsTypeOK
  BY DEF StatsInv
<1> QED
  BY <1>1, Inductive, PTL

(* The integrated rate (util.go:103) is that of the source since the first *)
(* sample used, in whole seconds, unless DCGM forgot a sample unread.      *)
THEOREM RateIsIntegral == StatsSpec => []RateIntegratesSamples
<1>1. ASSUME StatsInv, ~ missed, lastFieldValue # 0
      PROVE  integratedRateSeconds
               = (samples[lastFieldValue].area - samples[first].area) \div Second
  <2> DEFINE rate == integratedRateSeconds * Second + integratedRateMicroseconds
  <2>1. rate + samples[first].area = samples[lastFieldValue].area
    BY <1>1 DEF StatsInv, Accumulated
  <2>2. integratedRateSeconds \in Nat /\ integratedRateMicroseconds \in 0 .. Second - 1
    BY <1>1 DEF StatsInv, StatsTypeOK
  <2>3. rate \in Nat
    BY <2>2, SecondType, ProductIsNat
  <2>4. samples[first].area \in Nat
    <3>1. first \in Indices
      BY <1>1, StatsRanges DEF StatsInv, Accumulated, Indices
    <3> QED
      BY <1>1, <3>1, SampleTypes DEF StatsInv
  <2>5. rate \div Second = integratedRateSeconds
    BY <2>2, WholeSeconds
  <2> HIDE DEF rate
  <2>6. samples[lastFieldValue].area - samples[first].area = rate
    BY <2>1, <2>3, <2>4
  <2> QED
    BY <2>5, <2>6
<1>2. StatsInv => RateIntegratesSamples
  BY <1>1 DEF RateIntegratesSamples
<1> QED
  BY <1>2, Inductive, PTL

(* The cumulative total (util.go:109) is the difference to the first value *)
(* used, before which nothing was lost but what was passed over while the  *)
(* GPU was unknown (client.go:319-325).                                    *)
THEOREM TotalSinceFirst == StatsSpec => []TotalIsDifference
<1>1. StatsInv => TotalIsDifference
  BY DEF StatsInv, Accumulated, TotalIsDifference
<1> QED
  BY <1>1, Inductive, PTL

(* The total falls only when the counter of the driver did (util.go:75):   *)
(* the step that lowers it uses a newer and smaller value.                 *)
THEOREM TotalFollowsCounter == StatsSpec => TotalFallsOnlyWithCounter
<1>1. ASSUME StatsInv, StatsNext, lastFieldValue # 0, cumulativeValue' < cumulativeValue
      PROVE  \E i \in lastFieldValue + 1 .. Len(samples) :
               Valid(i) /\ samples[i].val < samples[lastFieldValue].val
  <2>1. cumulativeValue \in Int /\ ~ (cumulativeValue < cumulativeValue)
    BY <1>1 DEF StatsInv, StatsTypeOK
  <2>2. cumulativeValue' # cumulativeValue
    BY <1>1, <2>1
  <2>3. Update /\ UpdateNewer
    BY <1>1, <2>2 DEF StatsNext, Tick, TakeSample, TakeBlank, PollSucceeds, PollFails, NewDevice,
                      PassOver, SkipInvalid, Update, UpdateFirst, UpdateStale, statsVars, stats
  <2>4. /\ Collecting /\ Valid(at) /\ ~ Stale
        /\ cumulativeValue' = samples[at].val - initialCumulativeValue
    BY <2>3 DEF Update, UpdateNewer, Difference
  <2>5. at \in Indices /\ lastFieldValue \in Indices /\ lastFieldValue < at
    BY <1>1, <2>4, NextUsed
  <2>6. /\ cumulativeValue = samples[lastFieldValue].val - samples[first].val
        /\ initialCumulativeValue = samples[first].val /\ initialCumulativeValue \in Nat
    BY <1>1 DEF StatsInv, StatsTypeOK, Accumulated
  <2>7. samples[at].val \in Nat /\ samples[lastFieldValue].val \in Nat
    BY <1>1, <2>4, <2>5, SampleTypes DEF StatsInv, Fresh
  <2>8. samples[at].val < samples[lastFieldValue].val
    BY <1>1, <2>4, <2>6, <2>7
  <2>9. at \in lastFieldValue + 1 .. Len(samples)
    BY <1>1, <2>5, StatsRanges DEF Indices
  <2> QED
    BY <2>4, <2>8, <2>9
<1>2. StatsInv /\ [StatsNext]_statsVars =>
        [lastFieldValue # 0 /\ cumulativeValue' < cumulativeValue =>
           \E i \in lastFieldValue + 1 .. Len(samples) :
             Valid(i) /\ samples[i].val < samples[lastFieldValue].val]_statsVars
  BY <1>1
<1> QED
  BY <1>2, Inductive, PTL DEF StatsSpec, TotalFallsOnlyWithCounter

(* No poll moves the time of the next one past an unseen sample, but for   *)
(* those passed over while the GPU was unknown (client.go:304-325).        *)
THEOREM PollsSkipNothing == StatsSpec => []NothingSkipped
<1>1. ASSUME StatsInv, ~ missed, ~ Collecting, NEW i \in Unread
      PROVE  samples[i].ts >= lastSuccessfulPoll
  <2>1. i \in lastFieldValue + 1 .. Len(samples) /\ Valid(i) /\ i > passed
    BY DEF Unread
  <2>2. i >= at /\ (i > to => samples[i].ts >= lastSuccessfulPoll)
    BY <1>1, <2>1 DEF StatsInv, Unseen
  <2> QED
    BY <1>1, <2>1, <2>2, StatsRanges DEF Collecting
<1>2. StatsInv => NothingSkipped
  BY <1>1 DEF NothingSkipped
<1> QED
  BY <1>2, Inductive, PTL
=============================================================================

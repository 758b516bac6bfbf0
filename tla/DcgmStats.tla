------------------------------ MODULE DcgmStats ------------------------------
(***************************************************************************)
(* What the dcgm receiver accumulates for one field of one GPU             *)
(* (client.go, collect, and util.go, metricStats): DCGM keeps samples, a   *)
(* poll asks for those since the last successful one, and every sample     *)
(* returned is checked and folded into the last value, the rate integrated *)
(* over time and the difference to the first value.  DCGM may return a     *)
(* sample twice, and forgets samples that are not read soon enough.  The   *)
(* GPU is unknown at first, and what is returned of an unknown GPU whose   *)
(* properties cannot be had is passed over.                                *)
(***************************************************************************)
EXTENDS Integers, Sequences

CONSTANTS
  Values,   \* values of the field, as asInt64 gives them
  Blank,    \* a value that isValidValue refuses
  Step,     \* microseconds per tick of the clock
  Kept,     \* number of samples DCGM keeps
  MaxTime   \* bound on the clock

ASSUME ValuesAssumption == Values \subseteq Nat /\ Blank \notin Values
ASSUME StepAssumption   == Step \in Nat \ {0}
ASSUME KeptAssumption   == Kept \in Nat
ASSUME TimeAssumption   == MaxTime \in Nat

Second == 1000000  \* the microseconds of a second

VARIABLES
  now,                         \* the clock of DCGM, in microseconds
  samples,                     \* every sample of the field so far; area is the
                               \* integral of the field up to the sample
  newest,                      \* index of the newest valid sample, 0 if none
  lastSuccessfulPoll,
  at, to,                      \* fieldValues[at..to] are still to be visited
  lastFieldValue,              \* index of the last sample used, 0 for nil
  integratedRateSeconds,
  integratedRateMicroseconds,
  initialCumulativeValue,
  cumulativeValue,
  known,                       \* the GPU has an entry in client.devices
  first,                       \* index of the first sample used, 0 if none
  passed,                      \* up to this index samples were passed over for an
                               \* unknown GPU
  missed                       \* DCGM forgot a valid sample that no poll had returned

source == <<samples, newest>>
stats  == <<lastFieldValue, integratedRateSeconds, integratedRateMicroseconds,
            initialCumulativeValue, cumulativeValue, first>>
poll   == <<lastSuccessfulPoll, at, to, known, passed, missed>>
statsVars   == <<now, source, stats, poll>>

Valid(i)   == samples[i].val # Blank
Collecting == at <= to

StatsInit ==
  /\ now = 0
  /\ samples = <<>>
  /\ newest = 0
  /\ lastSuccessfulPoll = 0
  /\ at = 1
  /\ to = 0
  /\ lastFieldValue = 0
  /\ integratedRateSeconds = 0
  /\ integratedRateMicroseconds = 0
  /\ initialCumulativeValue = 0
  /\ cumulativeValue = 0
  /\ known = FALSE
  /\ first = 0
  /\ passed = 0
  /\ missed = FALSE

Tick ==
  /\ now + Step <= MaxTime
  /\ now' = now + Step
  /\ UNCHANGED <<source, stats, poll>>

(* DCGM takes at most one sample at a time.  The rate was val since the    *)
(* valid sample before.                                                    *)
SampleDue == \A i \in 1 .. Len(samples) : samples[i].ts < now

Area(val) ==
  IF newest = 0 THEN 0
  ELSE samples[newest].area + (now - samples[newest].ts) * val

TakeSample(val) ==
  /\ SampleDue
  /\ samples' = Append(samples, [ts |-> now, val |-> val, area |-> Area(val)])
  /\ newest' = Len(samples) + 1
  /\ UNCHANGED <<now, stats, poll>>

TakeBlank ==
  /\ SampleDue
  /\ samples' = Append(samples, [ts |-> now, val |-> Blank, area |-> 0])
  /\ UNCHANGED <<now, newest, stats, poll>>

-----------------------------------------------------------------------------
(* The index at which the values of a poll start: those that are no older  *)
(* than the last successful poll and that DCGM still keeps.                *)
Since(i)  == samples[i].ts >= lastSuccessfulPoll /\ i > Len(samples) - Kept
Starts(a) == /\ \A i \in 1 .. a - 1 : ~ Since(i)
             /\ \A i \in a .. Len(samples) : Since(i)

(* DCGM tells from when on to ask the next time.  It is the time of the    *)
(* call or that of a sample, perhaps one that it has just returned.        *)
PollTimes ==
  {t \in {samples[i].ts : i \in 1 .. Len(samples)} \cup {lastSuccessfulPoll, now} :
     t >= lastSuccessfulPoll}

(* The samples that are neither used nor passed over.                      *)
Unread == {i \in lastFieldValue + 1 .. Len(samples) : Valid(i) /\ i > passed}

(* dcgmGetValuesSince succeeds.                                            *)
PollSucceeds ==
  /\ ~ Collecting
  /\ to' = Len(samples)
  /\ at' \in 1 .. Len(samples) + 1 /\ Starts(at')
  /\ lastSuccessfulPoll' \in PollTimes
  /\ missed' = (missed \/ \E i \in Unread : i <= Len(samples) - Kept)
  /\ UNCHANGED <<now, source, stats, known, passed>>

(* A slip for the mutation runs: the time of the poll is kept all the same.*)
PollFailsForward ==
  /\ ~ Collecting
  /\ lastSuccessfulPoll' = now
  /\ UNCHANGED <<now, source, stats, at, to, known, passed, missed>>

(* dcgmGetValuesSince fails: collect returns the error and asks for the    *)
(* same values again.                                                      *)
PollFails ==
  /\ ~ Collecting
  /\ UNCHANGED statsVars

(* newDeviceMetrics succeeds, for this value or one of another field.      *)
NewDevice ==
  /\ Collecting
  /\ ~ known
  /\ known' = TRUE
  /\ UNCHANGED <<now, source, stats, lastSuccessfulPoll, at, to, passed, missed>>

(* newDeviceMetrics fails: the value is passed over, valid or not, and the *)
(* next poll asks for later ones only.                                     *)
PassOver ==
  /\ Collecting
  /\ ~ known
  /\ at' = at + 1
  /\ passed' = IF at > passed THEN at ELSE passed
  /\ UNCHANGED <<now, source, stats, lastSuccessfulPoll, to, known, missed>>

(* A value that is blank, or otherwise invalid, is left out.               *)
SkipInvalid ==
  /\ Collecting
  /\ known
  /\ ~ Valid(at)
  /\ at' = at + 1
  /\ UNCHANGED <<now, source, stats, lastSuccessfulPoll, to, known, passed, missed>>

(* A slip for the mutation runs: a value that came before counts.          *)
NeverStale == FALSE

(* metricStats.Update, for the value at hand.                              *)
Stale == samples[lastFieldValue].ts >= samples[at].ts

(* A slip for the mutation runs: the difference is to the value before.    *)
DifferenceToLast == samples[at].val - samples[lastFieldValue].val

Difference == samples[at].val - initialCumulativeValue

Integrated ==
  integratedRateMicroseconds
    + (samples[at].ts - samples[lastFieldValue].ts) * samples[at].val

Integrate ==
  /\ integratedRateSeconds' = integratedRateSeconds + Integrated \div Second
  /\ integratedRateMicroseconds' = Integrated % Second

UpdateFirst ==
  /\ lastFieldValue = 0
  /\ initialCumulativeValue' = samples[at].val
  /\ lastFieldValue' = at
  /\ first' = at
  /\ UNCHANGED <<integratedRateSeconds, integratedRateMicroseconds, cumulativeValue>>

UpdateStale ==
  /\ lastFieldValue # 0 /\ Stale
  /\ UNCHANGED stats

UpdateNewer ==
  /\ lastFieldValue # 0 /\ ~ Stale
  /\ cumulativeValue' = Difference
  /\ Integrate
  /\ lastFieldValue' = at
  /\ UNCHANGED <<initialCumulativeValue, first>>

Update ==
  /\ Collecting
  /\ known
  /\ Valid(at)
  /\ UpdateFirst \/ UpdateStale \/ UpdateNewer
  /\ at' = at + 1
  /\ UNCHANGED <<now, source, lastSuccessfulPoll, to, known, passed, missed>>

StatsNext ==
  \/ Tick
  \/ \E val \in Values : TakeSample(val)
  \/ TakeBlank
  \/ PollSucceeds
  \/ PollFails
  \/ NewDevice
  \/ PassOver
  \/ SkipInvalid
  \/ Update

StatsSpec == StatsInit /\ [][StatsNext]_statsVars
-----------------------------------------------------------------------------
(* The variables have their types, and the rest of the integrated rate     *)
(* stays below a second (util.go:83-84).                                   *)
StatsTypeOK ==
  /\ now \in Nat
  /\ samples \in Seq([ts : Nat, val : Values \cup {Blank}, area : Nat])
  /\ newest \in 0 .. Len(samples)
  /\ lastSuccessfulPoll \in 0 .. now
  /\ to \in 0 .. Len(samples)
  /\ at \in 1 .. to + 1
  /\ lastFieldValue \in 0 .. Len(samples)
  /\ integratedRateSeconds \in Nat
  /\ integratedRateMicroseconds \in 0 .. Second - 1
  /\ initialCumulativeValue \in Nat
  /\ cumulativeValue \in Int
  /\ known \in BOOLEAN
  /\ first \in 0 .. lastFieldValue
  /\ passed \in 0 .. Len(samples)
  /\ missed \in BOOLEAN

(* IntegratedRate (util.go:103) is the integral of the field from the      *)
(* first value used to the last, in whole seconds, however often polls     *)
(* fail and samples come again: nothing is counted twice and no rest is    *)
(* lost.  Only samples that DCGM forgot unread are missing.                *)
RateIntegratesSamples ==
  ~ missed /\ lastFieldValue # 0 =>
    integratedRateSeconds = (samples[lastFieldValue].area - samples[first].area) \div Second

(* CumulativeTotal (util.go:109) is the last value less the first one      *)
(* used, whatever came again in between, and no valid value before that    *)
(* one was lost but those that were passed over while newDeviceMetrics     *)
(* failed (client.go:319-325).                                             *)
TotalIsDifference ==
  lastFieldValue # 0 =>
    /\ cumulativeValue = samples[lastFieldValue].val - samples[first].val
    /\ ~ missed => \A i \in passed + 1 .. first - 1 : ~ Valid(i)

(* util.go:75 subtracts without a look at the value before: the total      *)
(* falls, and may become negative, when the driver's counter starts again. *)
(* It does so for no other reason; an old value that comes again does not  *)
(* take it back.                                                           *)
TotalFallsOnlyWithCounter ==
  [][lastFieldValue # 0 /\ cumulativeValue' < cumulativeValue =>
       \E i \in lastFieldValue + 1 .. Len(samples) :
         Valid(i) /\ samples[i].val < samples[lastFieldValue].val]_statsVars

(* Polls are not only accurate but complete: after a poll, a valid sample  *)
(* that is newer than the last one used will be returned by a later poll   *)
(* (client.go:304 and 311), unless DCGM forgets it first.  What was passed *)
(* over while the GPU was unknown is lost, and nothing else.               *)
NothingSkipped ==
  ~ missed /\ ~ Collecting =>
    \A i \in Unread : samples[i].ts >= lastSuccessfulPoll
=============================================================================

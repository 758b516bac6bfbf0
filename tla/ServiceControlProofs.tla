------------------------- MODULE ServiceControlProofs -------------------------
(***************************************************************************)
(* Theorems about the sending queue of the googleservicecontrol exporter,  *)
(* for any number of receivers and consumers and any settings: metrics of  *)
(* a receiver are sent in the order of their scrapes as long as every      *)
(* receiver has a consumer and the last attempt, with its timeout, ends    *)
(* before the next scrape.  And about the requests it builds, for every    *)
(* batch: which intervals fit the API, and that no log record is lost.     *)
(***************************************************************************)
EXTENDS ServiceControlQueue, ServiceControlReport, FiniteSetTheorems, WellFoundedInduction,
        TLAPS

Phases == {"idle", "sending", "waiting"}
Fates  == {"none", "pending", "accepted", "dropped", "rejected"}
Slot   == [phase : Phases, batch : Batch \cup {NoBatch}, elapsed : Nat, left : Nat]

Busy(c) == consumer[c].phase # "idle"

(* A consumer is idle or has a batch.                                      *)
HandsFit ==
  \A c \in Consumers : /\ ~Busy(c) => consumer[c] = Idle
                       /\ Busy(c) => consumer[c].batch \in Batch

InQueue(b) == \E i \in 1..Len(queue) : queue[i] = b
InHand(b)  == \E c \in Consumers : Busy(c) /\ consumer[c].batch = b

(* Nobody loses a batch whose fate is open.                                *)
PendingKept == \A b \in Batch : fate[b] = "pending" => InQueue(b) \/ InHand(b)

QueueInv == QueueTypeOK /\ HandsFit /\ PendingKept

-----------------------------------------------------------------------------
(* Every receiver can have a consumer of its own.                          *)
EnoughConsumers ==
  /\ IsFiniteSet(Streams) /\ IsFiniteSet(Consumers)
  /\ Cardinality(Streams) <= Cardinality(Consumers)

(* An attempt that begins when MaxElapsedTime is up ends with its timeout  *)
(* before the next scrape.                                                 *)
RetriesEndInTime == MaxElapsedTime + Timeout < ScrapeInterval

(* What waits in the queue was made in this very second, and is the last   *)
(* one of its receiver.                                                    *)
QueueFresh ==
  \A i \in 1..Len(queue) : /\ queue[i][2] = made[queue[i][1]]
                           /\ due[queue[i][1]] = ScrapeInterval

(* What a consumer has is its receiver's last one, too, and as old as the  *)
(* consumer has been busy with it.                                         *)
HandFresh ==
  \A c \in Consumers : Busy(c) =>
    /\ consumer[c].batch[2] = made[consumer[c].batch[1]]
    /\ due[consumer[c].batch[1]] + consumer[c].elapsed = ScrapeInterval

(* The timers end the last attempt at MaxElapsedTime + Timeout.            *)
InTime ==
  \A c \in Consumers :
    /\ consumer[c].phase = "waiting" => consumer[c].elapsed + consumer[c].left <= MaxElapsedTime
    /\ consumer[c].phase = "sending" =>
         consumer[c].elapsed + consumer[c].left <= MaxElapsedTime + Timeout

(* A receiver has one batch at most in the queue and with the consumers.   *)
OneEach ==
  /\ \A i, j \in 1..Len(queue) : queue[i][1] = queue[j][1] => i = j
  /\ \A c, d \in Consumers :
       Busy(c) /\ Busy(d) /\ consumer[c].batch[1] = consumer[d].batch[1] => c = d
  /\ \A i \in 1..Len(queue), c \in Consumers : Busy(c) => queue[i][1] # consumer[c].batch[1]

(* All batches but the last of a receiver have ended.                      *)
OlderSettled ==
  \A s \in Streams : \A n \in 1..made[s] :
    /\ fate[<<s, n>>] # "none"
    /\ n < made[s] => Settled(<<s, n>>)

InOrder  == QueueFresh /\ HandFresh /\ InTime /\ OneEach /\ OlderSettled
OrderInv == signal = "metrics" => InOrder

-----------------------------------------------------------------------------
(* What the steps of a consumer do, but for the order of their conditions: *)
(* it is done with its batch, waits for a retry, or sends again.           *)
Ends(c, outcome) ==
  /\ Busy(c)
  /\ Settle(c, outcome)
  /\ UNCHANGED <<signal, due, made, bad, queue, state, client>>

Turns(c, phase, left) ==
  /\ Busy(c)
  /\ consumer' = [consumer EXCEPT ![c] =
       [phase |-> phase, batch |-> consumer[c].batch, elapsed |-> consumer[c].elapsed, left |-> left]]
  /\ UNCHANGED <<signal, due, made, bad, queue, fate, state, client>>

Waits(c) == consumer[c].elapsed + Backoff <= MaxElapsedTime /\ Turns(c, "waiting", Backoff)
Resends(c) ==
  consumer[c].phase = "waiting" /\ consumer[c].left = 0 /\ Turns(c, "sending", TimeoutOf)

(* Two fields of a consumer's record change.                               *)
LEMMA TwoFields ==
  ASSUME QueueTypeOK, NEW c \in Consumers, NEW phase, NEW left
  PROVE  [consumer EXCEPT ![c].phase = phase, ![c].left = left]
           = [consumer EXCEPT ![c] = [phase |-> phase, batch |-> consumer[c].batch,
                                      elapsed |-> consumer[c].elapsed, left |-> left]]
<1>1. consumer \in [Consumers -> Slot]
  BY DEF QueueTypeOK, Slot, Phases
<1> DEFINE new == [consumer EXCEPT ![c].phase = phase, ![c].left = left]
           slot == [phase |-> phase, batch |-> consumer[c].batch,
                    elapsed |-> consumer[c].elapsed, left |-> left]
<1>2. [consumer[c] EXCEPT !.phase = phase, !.left = left] = slot
  <2>1. consumer[c] \in Slot
    BY <1>1
  <2>2. DOMAIN [consumer[c] EXCEPT !.phase = phase, !.left = left] = DOMAIN slot
    BY <2>1 DEF Slot
  <2>3. /\ [consumer[c] EXCEPT !.phase = phase, !.left = left].phase = slot.phase
        /\ [consumer[c] EXCEPT !.phase = phase, !.left = left].batch = slot.batch
        /\ [consumer[c] EXCEPT !.phase = phase, !.left = left].elapsed = slot.elapsed
        /\ [consumer[c] EXCEPT !.phase = phase, !.left = left].left = slot.left
    BY <2>1 DEF Slot
  <2> QED
    BY <2>1, <2>2, <2>3 DEF Slot
<1>3. new[c] = [consumer[c] EXCEPT !.phase = phase, !.left = left]
  BY <1>1
<1>4. \A d \in Consumers \ {c} : new[d] = consumer[d]
  BY <1>1
<1>5. DOMAIN new = Consumers /\ new = [d \in Consumers |-> new[d]]
  BY <1>1
<1>6. new[c] = slot
  BY Zenon, <1>2, <1>3
<1> HIDE DEF new, slot
<1>7. new = [consumer EXCEPT ![c] = slot]
  BY <1>1, <1>4, <1>5, <1>6
<1> QED
  BY <1>7 DEF new, slot

LEMMA Attempts ==
  ASSUME QueueTypeOK, NEW c \in Consumers, FailedAttempt(c), Busy(c),
         UNCHANGED <<signal, due, made, bad, queue, state, client>>
  PROVE  Ends(c, "dropped") \/ Waits(c)
<1> DEFINE again == consumer[c].elapsed + Backoff
<1>1. CASE /\ RetryEnabled /\ state = "running" /\ again <= MaxElapsedTime
           /\ consumer' = [consumer EXCEPT ![c].phase = "waiting", ![c].left = Backoff]
           /\ UNCHANGED fate
  BY <1>1, TwoFields DEF Waits, Turns
<1>2. CASE Settle(c, "dropped")
  BY <1>2 DEF Ends
<1> QED
  BY <1>1, <1>2 DEF FailedAttempt

LEMMA ConsumerSteps ==
  ASSUME QueueTypeOK, NEW c \in Consumers, ConsumerStep(c)
  PROVE  Take(c) \/ Waits(c) \/ Resends(c) \/ \E outcome \in {"accepted", "dropped"} : Ends(c, outcome)
<1>1. CASE Accept(c)
  BY <1>1 DEF Accept, Sending, Ends, Busy
<1>2. CASE FailPermanent(c)
  BY <1>2 DEF FailPermanent, Sending, Ends, Busy
<1>3. CASE GiveUp(c)
  BY <1>3 DEF GiveUp, Ends, Busy
<1>4. CASE FailRetriable(c) \/ Expire(c) \/ FailToBuild(c)
  <2>1. FailedAttempt(c) /\ Busy(c) /\ UNCHANGED <<signal, due, made, bad, queue, state, client>>
    BY <1>4 DEF FailRetriable, Expire, FailToBuild, Sending, Busy
  <2> QED
    BY <2>1, Attempts
<1>5. CASE Resend(c)
  BY <1>5, TwoFields DEF Resend, Resends, Turns, Busy
<1> QED
  BY <1>1, <1>2, <1>3, <1>4, <1>5 DEF ConsumerStep

LEMMA SettingsTypes == MaxElapsedTime \in Nat /\ TimeoutOf \in Nat /\ Timeout \in Nat /\ Backoff \in Nat
  BY QueueAssumption DEF MaxElapsedTime, TimeoutOf

LEMMA SlotTypes ==
  QueueTypeOK <=>
    /\ signal \in {"metrics", "logs"}
    /\ due \in [Streams -> Nat] /\ made \in [Streams -> 0..MaxBatches]
    /\ bad \subseteq Batch
    /\ queue \in Seq(Batch) /\ Len(queue) <= QueueSize
    /\ consumer \in [Consumers -> Slot]
    /\ fate \in [Batch -> Fates]
    /\ state \in {"new", "failed", "running", "stopping", "closed"}
    /\ client \in {"none", "raw", "library"}
  BY DEF QueueTypeOK, Slot, Phases, Fates

(* What a consumer's step leaves of the queue, the consumers and the fates.*)
LEMMA TakeSteps ==
  ASSUME QueueTypeOK, NEW c \in Consumers, Take(c)
  PROVE  /\ Len(queue) \in Nat \ {0} /\ queue' \in Seq(Batch) /\ Len(queue') = Len(queue) - 1
         /\ \A i \in 1..Len(queue') : queue'[i] = queue[i + 1]
         /\ queue[1] \in Batch
         /\ consumer'[c] = [phase |-> "sending", batch |-> queue[1], elapsed |-> 0, left |-> TimeoutOf]
         /\ \A d \in Consumers \ {c} : consumer'[d] = consumer[d]
         /\ consumer' \in [Consumers -> Slot]
         /\ ~Busy(c)
<1>1. /\ queue \in Seq(Batch) /\ queue # <<>> /\ consumer \in [Consumers -> Slot]
      /\ queue' = Tail(queue)
      /\ consumer' = [consumer EXCEPT ![c] =
           [phase |-> "sending", batch |-> Head(queue), elapsed |-> 0, left |-> TimeoutOf]]
      /\ consumer[c] = Idle
  BY SlotTypes DEF Take
<1>2. /\ Len(queue) \in Nat \ {0} /\ queue' \in Seq(Batch) /\ Len(queue') = Len(queue) - 1
      /\ Head(queue) = queue[1] /\ queue[1] \in Batch
      /\ \A i \in 1..Len(queue') : queue'[i] = queue[i + 1]
  BY <1>1
<1>3. [phase |-> "sending", batch |-> Head(queue), elapsed |-> 0, left |-> TimeoutOf] \in Slot
  BY <1>2, SettingsTypes DEF Slot, Phases
<1>4. ~Busy(c)
  BY <1>1 DEF Busy, Idle
<1> QED
  BY <1>1, <1>2, <1>3, <1>4

LEMMA TurnSteps ==
  ASSUME QueueTypeOK, NEW c \in Consumers, NEW phase \in {"sending", "waiting"}, NEW left \in Nat,
         Turns(c, phase, left)
  PROVE  /\ consumer'[c] = [phase |-> phase, batch |-> consumer[c].batch,
                            elapsed |-> consumer[c].elapsed, left |-> left]
         /\ \A d \in Consumers \ {c} : consumer'[d] = consumer[d]
         /\ consumer' \in [Consumers -> Slot]
<1>1. consumer \in [Consumers -> Slot]
  BY SlotTypes
<1>2. [phase |-> phase, batch |-> consumer[c].batch, elapsed |-> consumer[c].elapsed, left |-> left]
        \in Slot
  BY <1>1 DEF Slot, Phases
<1> QED
  BY <1>1, <1>2 DEF Turns

LEMMA EndSteps ==
  ASSUME QueueTypeOK, HandsFit, NEW c \in Consumers, NEW outcome \in {"accepted", "dropped"},
         Ends(c, outcome)
  PROVE  /\ consumer'[c] = Idle
         /\ \A d \in Consumers \ {c} : consumer'[d] = consumer[d]
         /\ consumer' \in [Consumers -> Slot]
         /\ consumer[c].batch \in Batch /\ fate'[consumer[c].batch] = outcome
         /\ \A b \in Batch \ {consumer[c].batch} : fate'[b] = fate[b]
         /\ fate' \in [Batch -> Fates]
<1>1. consumer \in [Consumers -> Slot] /\ fate \in [Batch -> Fates]
  BY SlotTypes
<1>2. Idle \in Slot
  BY DEF Idle, Slot, Phases
<1>3. consumer[c].batch \in Batch
  BY DEF Ends, HandsFit
<1>4. outcome \in Fates
  BY DEF Fates
<1> QED
  BY <1>1, <1>2, <1>3, <1>4 DEF Ends, Settle

-----------------------------------------------------------------------------
(* No batch is lost: it is in the queue or with a consumer, step by step.  *)
LEMMA InitQueueInv == QueueInit => QueueInv
<1> SUFFICES ASSUME QueueInit PROVE QueueInv
  OBVIOUS
<1> USE DEF QueueInit
<1>1. Idle \in Slot
  BY DEF Idle, Slot, Phases
<1>2. QueueTypeOK
  <2>0. Offsets \subseteq Nat /\ MaxBatches \in Nat
    BY QueueAssumption
  <2>1. due \in [Streams -> Nat] /\ made \in [Streams -> 0..MaxBatches]
    <3>1. due \in [Streams -> Offsets] /\ made = [s \in Streams |-> 0]
      OBVIOUS
    <3>2. due \in [Streams -> Nat]
      BY <2>0, <3>1
    <3>3. made \in [Streams -> 0..MaxBatches]
      BY <2>0, <3>1
    <3> QED
      BY <3>2, <3>3
  <2>2. queue \in Seq(Batch) /\ Len(queue) <= QueueSize
    BY QueueAssumption
  <2>3. fate \in [Batch -> Fates] /\ consumer \in [Consumers -> Slot]
    BY <1>1 DEF Fates
  <2> QED
    BY <2>1, <2>2, <2>3, SlotTypes
<1>3. HandsFit
  BY DEF HandsFit, Busy, Idle
<1>4. PendingKept
  BY DEF PendingKept
<1> QED
  BY <1>2, <1>3, <1>4 DEF QueueInv

LEMMA TakeKeeps ==
  ASSUME QueueInv, NEW c \in Consumers, Take(c)
  PROVE  QueueInv'
<1> USE DEF QueueInv
<1>1. /\ Len(queue) \in Nat \ {0} /\ queue' \in Seq(Batch) /\ Len(queue') = Len(queue) - 1
      /\ \A i \in 1..Len(queue') : queue'[i] = queue[i + 1]
      /\ queue[1] \in Batch
      /\ consumer'[c] = [phase |-> "sending", batch |-> queue[1], elapsed |-> 0, left |-> TimeoutOf]
      /\ \A d \in Consumers \ {c} : consumer'[d] = consumer[d]
      /\ consumer' \in [Consumers -> Slot]
      /\ ~Busy(c)
  BY TakeSteps
<1>2. UNCHANGED <<signal, due, made, bad, fate, state, client>> /\ queue # <<>>
  BY DEF Take
<1>3. QueueTypeOK'
  <2>1. Len(queue) <= QueueSize
    BY DEF QueueTypeOK
  <2>2. Len(queue') <= QueueSize
    BY <1>1, <2>1, QueueAssumption
  <2> QED
    BY <1>1, <1>2, <2>2 DEF QueueTypeOK, Slot, Phases
<1>4. HandsFit'
  BY <1>1 DEF HandsFit, Busy
<1>5. PendingKept'
  <2> SUFFICES ASSUME NEW b \in Batch, fate'[b] = "pending" PROVE InQueue(b)' \/ InHand(b)'
    BY DEF PendingKept
  <2>1. InQueue(b) \/ InHand(b)
    BY <1>2 DEF PendingKept
  <2>2. CASE InHand(b)
    BY <1>1, <2>2 DEF InHand, Busy
  <2>3. CASE InQueue(b)
    <3>1. PICK i \in 1..Len(queue) : queue[i] = b
      BY <2>3 DEF InQueue
    <3>2. CASE i = 1
      BY <1>1, <3>1, <3>2 DEF InHand, Busy
    <3>3. CASE i # 1
      <4>1. i - 1 \in 1..Len(queue') /\ queue'[i - 1] = b
        BY <1>1, <3>1, <3>3
      <4> QED
        BY <4>1 DEF InQueue
    <3> QED
      BY <3>2, <3>3
  <2> QED
    BY <2>1, <2>2, <2>3
<1> QED
  BY <1>3, <1>4, <1>5

LEMMA TurnKeeps ==
  ASSUME QueueInv, NEW c \in Consumers, NEW phase \in {"sending", "waiting"}, NEW left \in Nat,
         Turns(c, phase, left)
  PROVE  QueueInv'
<1> USE DEF QueueInv
<1>1. /\ consumer'[c] = [phase |-> phase, batch |-> consumer[c].batch,
                         elapsed |-> consumer[c].elapsed, left |-> left]
      /\ \A d \in Consumers \ {c} : consumer'[d] = consumer[d]
      /\ consumer' \in [Consumers -> Slot]
  BY TurnSteps
<1>2. UNCHANGED <<signal, due, made, bad, queue, fate, state, client>> /\ Busy(c)
  BY DEF Turns
<1>3. QueueTypeOK'
  BY <1>1, <1>2 DEF QueueTypeOK, Slot, Phases
<1>4. HandsFit'
  BY <1>1, <1>2 DEF HandsFit, Busy
<1>5. ASSUME NEW b, InHand(b) PROVE InHand(b)'
  BY <1>1, <1>5 DEF InHand, Busy
<1>6. PendingKept'
  BY <1>2, <1>5 DEF PendingKept, InQueue
<1> QED
  BY <1>3, <1>4, <1>6

LEMMA EndKeeps ==
  ASSUME QueueInv, NEW c \in Consumers, NEW outcome \in {"accepted", "dropped"}, Ends(c, outcome)
  PROVE  QueueInv'
<1> USE DEF QueueInv
<1>1. /\ consumer'[c] = Idle
      /\ \A d \in Consumers \ {c} : consumer'[d] = consumer[d]
      /\ consumer' \in [Consumers -> Slot]
      /\ consumer[c].batch \in Batch /\ fate'[consumer[c].batch] = outcome
      /\ \A b \in Batch \ {consumer[c].batch} : fate'[b] = fate[b]
      /\ fate' \in [Batch -> Fates]
  BY EndSteps
<1>2. UNCHANGED <<signal, due, made, bad, queue, state, client>> /\ Busy(c)
  BY DEF Ends
<1>3. QueueTypeOK'
  BY <1>1, <1>2 DEF QueueTypeOK, Slot, Phases, Fates
<1>4. HandsFit'
  BY <1>1 DEF HandsFit, Busy, Idle
<1>5. PendingKept'
  <2> SUFFICES ASSUME NEW b \in Batch, fate'[b] = "pending" PROVE InQueue(b)' \/ InHand(b)'
    BY DEF PendingKept
  <2>1. b # consumer[c].batch /\ fate[b] = "pending"
    BY <1>1
  <2>2. InQueue(b) \/ InHand(b)
    BY <2>1 DEF PendingKept
  <2> QED
    BY <1>1, <1>2, <2>1, <2>2 DEF InQueue, InHand, Busy
<1> QED
  BY <1>3, <1>4, <1>5

(* The new batch is in the queue or refused.                               *)
LEMMA ScrapeSteps ==
  ASSUME QueueTypeOK, NEW s \in Streams, NEW isBad \in BOOLEAN, Scrape(s, isBad),
         NEW b, b = <<s, made[s] + 1>>
  PROVE  /\ b \in Batch /\ made[s] \in Nat /\ due[s] = 0 /\ state = "running"
         /\ made' \in [Streams -> 0..MaxBatches] /\ due' \in [Streams -> Nat]
         /\ made'[s] = made[s] + 1 /\ due'[s] = ScrapeInterval
         /\ \A r \in Streams \ {s} : made'[r] = made[r] /\ due'[r] = due[r]
         /\ bad' \subseteq Batch
         /\ fate' \in [Batch -> Fates]
         /\ \A a \in Batch \ {b} : fate'[a] = fate[a]
         /\ \/ queue' = Append(queue, b) /\ Len(queue) < QueueSize /\ fate'[b] = "pending"
            \/ queue' = queue /\ fate'[b] = "rejected"
         /\ UNCHANGED <<signal, consumer, state, client>>
<1>1. /\ made[s] \in 0..MaxBatches /\ made[s] < MaxBatches /\ MaxBatches \in Nat
      /\ ScrapeInterval \in Nat
  BY QueueAssumption DEF QueueTypeOK, Scrape
<1>2. b \in Batch
  BY <1>1 DEF Batch
<1>3. /\ made' = [made EXCEPT ![s] = @ + 1] /\ due' = [due EXCEPT ![s] = ScrapeInterval]
      /\ due[s] = 0 /\ state = "running" /\ UNCHANGED <<signal, consumer, state, client>>
      /\ bad' \in {bad, bad \cup {b}}
      /\ \/ queue' = Append(queue, b) /\ Len(queue) < QueueSize
            /\ fate' = [fate EXCEPT ![b] = "pending"]
         \/ queue' = queue /\ fate' = [fate EXCEPT ![b] = "rejected"]
  BY Zenon DEF Scrape
<1>4. made \in [Streams -> 0..MaxBatches] /\ due \in [Streams -> Nat] /\ fate \in [Batch -> Fates]
      /\ bad \subseteq Batch
  BY SlotTypes
<1>5. /\ made' \in [Streams -> 0..MaxBatches] /\ due' \in [Streams -> Nat]
      /\ made'[s] = made[s] + 1 /\ due'[s] = ScrapeInterval
      /\ \A r \in Streams \ {s} : made'[r] = made[r] /\ due'[r] = due[r]
  BY <1>1, <1>3, <1>4
<1>6. /\ fate' \in [Batch -> Fates] /\ \A a \in Batch \ {b} : fate'[a] = fate[a]
      /\ \/ queue' = Append(queue, b) /\ Len(queue) < QueueSize /\ fate'[b] = "pending"
         \/ queue' = queue /\ fate'[b] = "rejected"
  BY <1>2, <1>3, <1>4 DEF Fates
<1>7. bad' \subseteq Batch
  BY Zenon, <1>2, <1>3, <1>4
<1>8. made[s] \in Nat
  BY <1>1
<1> QED
  BY Zenon, <1>2, <1>3, <1>5, <1>6, <1>7, <1>8

LEMMA AppendSteps ==
  ASSUME NEW S, NEW q \in Seq(S), NEW x \in S
  PROVE  /\ Append(q, x) \in Seq(S) /\ Len(q) \in Nat /\ Len(Append(q, x)) = Len(q) + 1
         /\ \A i \in 1..Len(q) : i \in 1..Len(Append(q, x)) /\ Append(q, x)[i] = q[i]
         /\ Append(q, x)[Len(q) + 1] = x
  OBVIOUS

LEMMA ScrapeKeeps ==
  ASSUME QueueInv, NEW s \in Streams, NEW isBad \in BOOLEAN, Scrape(s, isBad)
  PROVE  QueueInv'
<1> USE DEF QueueInv
<1>1. PICK b : b = <<s, made[s] + 1>>
  OBVIOUS
<1>2. /\ b \in Batch /\ state = "running"
      /\ made' \in [Streams -> 0..MaxBatches] /\ due' \in [Streams -> Nat]
      /\ bad' \subseteq Batch
      /\ fate' \in [Batch -> Fates]
      /\ \A a \in Batch \ {b} : fate'[a] = fate[a]
      /\ \/ queue' = Append(queue, b) /\ Len(queue) < QueueSize /\ fate'[b] = "pending"
         \/ queue' = queue /\ fate'[b] = "rejected"
      /\ UNCHANGED <<signal, consumer, state, client>>
  BY <1>1, ScrapeSteps
<1>3. queue \in Seq(Batch) /\ Len(queue) <= QueueSize /\ Len(queue) \in Nat
  BY SlotTypes
<1>4. queue' \in Seq(Batch) /\ Len(queue') <= QueueSize
  <2>1. CASE queue' = queue
    BY <1>3, <2>1
  <2>2. CASE queue' = Append(queue, b) /\ Len(queue) < QueueSize
    <3>1. queue' \in Seq(Batch) /\ Len(queue') = Len(queue) + 1
      BY <1>2, <1>3, <2>2, AppendSteps
    <3> QED
      BY <1>3, <2>2, <3>1, QueueAssumption
  <2> QED
    BY <1>2, <2>1, <2>2
<1>5. QueueTypeOK'
  BY <1>2, <1>4 DEF QueueTypeOK, Fates
<1>6. HandsFit'
  BY <1>2 DEF HandsFit, Busy
<1>7. PendingKept'
  <2> SUFFICES ASSUME NEW a \in Batch, fate'[a] = "pending" PROVE InQueue(a)' \/ InHand(a)'
    BY DEF PendingKept
  <2>1. CASE a = b
    <3>1. queue' = Append(queue, b)
      BY <1>2, <2>1
    <3>2. Len(queue) + 1 \in 1..Len(queue') /\ queue'[Len(queue) + 1] = b
      BY <1>2, <1>3, <3>1, AppendSteps
    <3> QED
      BY <2>1, <3>2 DEF InQueue
  <2>2. CASE a # b
    <3>1. InQueue(a) \/ InHand(a)
      BY <1>2, <2>2 DEF PendingKept
    <3>2. InHand(a) => InHand(a)'
      BY <1>2 DEF InHand, Busy
    <3>3. \A i \in 1..Len(queue) : i \in 1..Len(queue') /\ queue'[i] = queue[i]
      <4>1. CASE queue' = queue
        BY <4>1
      <4>2. CASE queue' = Append(queue, b)
        BY <1>2, <1>3, <4>2, AppendSteps
      <4> QED
        BY <1>2, <4>1, <4>2
    <3> QED
      BY <3>1, <3>2, <3>3 DEF InQueue
  <2> QED
    BY <2>1, <2>2
<1> QED
  BY <1>5, <1>6, <1>7

(* A second passes: the timers of busy consumers run.                      *)
LEMMA TickSteps ==
  ASSUME QueueTypeOK, HandsFit, QueueTick
  PROVE  /\ \A c \in Consumers : ~Busy(c) => consumer'[c] = Idle
         /\ \A c \in Consumers : Busy(c) =>
              /\ consumer[c].left \in Nat \ {0}
              /\ consumer'[c] = [phase |-> consumer[c].phase, batch |-> consumer[c].batch,
                                 elapsed |-> consumer[c].elapsed + 1, left |-> consumer[c].left - 1]
         /\ consumer' \in [Consumers -> Slot]
         /\ due' \in [Streams -> Nat]
         /\ \A s \in Streams : due'[s] = IF due[s] = 0 THEN 0 ELSE due[s] - 1
         /\ UNCHANGED <<signal, made, bad, queue, fate, state, client>>
         /\ state # "closed"
<1>1. consumer \in [Consumers -> Slot] /\ due \in [Streams -> Nat]
  BY SlotTypes
<1>2. /\ due' = [s \in Streams |-> IF due[s] = 0 THEN 0 ELSE due[s] - 1]
      /\ consumer' = [c \in Consumers |->
           IF consumer[c] = Idle THEN Idle
           ELSE [consumer[c] EXCEPT !.elapsed = @ + 1, !.left = @ - 1]]
      /\ UNCHANGED <<signal, made, bad, queue, fate, state, client>>
      /\ state # "closed"
      /\ \A c \in Consumers : consumer[c] # Idle => consumer[c].left > 0
  BY DEF QueueTick, Prompt
<1>3. due' \in [Streams -> Nat] /\ \A s \in Streams : due'[s] = IF due[s] = 0 THEN 0 ELSE due[s] - 1
  <2>1. due' = [s \in Streams |-> IF due[s] = 0 THEN 0 ELSE due[s] - 1]
    BY <1>2
  <2>2. \A s \in Streams : due[s] \in Nat
    BY <1>1
  <2>3. ASSUME NEW s \in Streams PROVE (IF due[s] = 0 THEN 0 ELSE due[s] - 1) \in Nat
    <3>1. ASSUME NEW n \in Nat PROVE (IF n = 0 THEN 0 ELSE n - 1) \in Nat
      BY <3>1
    <3> QED
      BY <2>2, <3>1
  <2> QED
    BY <2>1, <2>3
<1>4. ASSUME NEW c \in Consumers, ~Busy(c) PROVE consumer'[c] = Idle
  BY <1>2, <1>4 DEF HandsFit
<1>5. ASSUME NEW c \in Consumers, Busy(c)
      PROVE  /\ consumer[c].left \in Nat \ {0}
             /\ consumer'[c] = [phase |-> consumer[c].phase, batch |-> consumer[c].batch,
                                elapsed |-> consumer[c].elapsed + 1, left |-> consumer[c].left - 1]
             /\ consumer'[c] \in Slot
  <2>1. consumer[c] # Idle
    BY <1>5 DEF Busy, Idle
  <2>2. consumer[c] \in Slot
    BY <1>1
  <2>3. /\ consumer[c].left \in Nat \ {0} /\ consumer[c].elapsed \in Nat
        /\ consumer[c].phase \in Phases /\ consumer[c].batch \in Batch \cup {NoBatch}
    <3>1. consumer[c].left > 0
      BY <1>2, <2>1
    <3>2. /\ consumer[c].left \in Nat /\ consumer[c].elapsed \in Nat
          /\ consumer[c].phase \in Phases /\ consumer[c].batch \in Batch \cup {NoBatch}
      BY <2>2 DEF Slot
    <3> QED
      BY <3>1, <3>2
  <2>4. consumer'[c] = [consumer[c] EXCEPT !.elapsed = @ + 1, !.left = @ - 1]
    BY <1>2, <2>1
  <2> DEFINE new == [consumer[c] EXCEPT !.elapsed = @ + 1, !.left = @ - 1]
  <2>5. /\ new.phase = consumer[c].phase /\ new.batch = consumer[c].batch
        /\ new.elapsed = consumer[c].elapsed + 1 /\ new.left = consumer[c].left - 1
    BY <2>2 DEF Slot
  <2>6. new = [phase |-> consumer[c].phase, batch |-> consumer[c].batch,
               elapsed |-> consumer[c].elapsed + 1, left |-> consumer[c].left - 1]
    <3> DEFINE slot == [phase |-> consumer[c].phase, batch |-> consumer[c].batch,
                        elapsed |-> consumer[c].elapsed + 1, left |-> consumer[c].left - 1]
    <3>1. DOMAIN new = DOMAIN slot
      BY <2>2 DEF Slot
    <3>2. /\ new.phase = slot.phase /\ new.batch = slot.batch
          /\ new.elapsed = slot.elapsed /\ new.left = slot.left
      BY <2>5
    <3> QED
      BY <2>2, <3>1, <3>2 DEF Slot
  <2> HIDE DEF new
  <2>7. consumer'[c] = [phase |-> consumer[c].phase, batch |-> consumer[c].batch,
                        elapsed |-> consumer[c].elapsed + 1, left |-> consumer[c].left - 1]
    BY <2>4, <2>6 DEF new
  <2> QED
    BY <2>3, <2>7 DEF Slot
<1>6. Idle \in Slot
  BY DEF Idle, Slot, Phases
<1>7. \A c \in Consumers : consumer'[c] \in Slot
  BY <1>4, <1>5, <1>6
<1>8. consumer' \in [Consumers -> Slot]
  BY <1>2, <1>7
<1> QED
  BY <1>2, <1>3, <1>4, <1>5, <1>8

LEMMA TickKeeps ==
  ASSUME QueueInv, QueueTick
  PROVE  QueueInv'
<1> USE DEF QueueInv
<1>1. /\ \A c \in Consumers : ~Busy(c) => consumer'[c] = Idle
      /\ \A c \in Consumers : Busy(c) =>
           consumer'[c] = [phase |-> consumer[c].phase, batch |-> consumer[c].batch,
                           elapsed |-> consumer[c].elapsed + 1, left |-> consumer[c].left - 1]
      /\ consumer' \in [Consumers -> Slot]
      /\ due' \in [Streams -> Nat]
      /\ UNCHANGED <<signal, made, bad, queue, fate, state, client>>
      /\ state # "closed"
  BY TickSteps
<1>2. QueueTypeOK'
  BY <1>1 DEF QueueTypeOK, Slot, Phases
<1>3. \A c \in Consumers : (Busy(c)' <=> Busy(c)) /\ (Busy(c) => consumer'[c].batch = consumer[c].batch)
  BY <1>1 DEF Busy, Idle
<1>4. HandsFit'
  BY <1>1, <1>3 DEF HandsFit
<1>5. PendingKept'
  BY <1>1, <1>3 DEF PendingKept, InQueue, InHand
<1> QED
  BY <1>2, <1>4, <1>5

(* Creating, stopping and shutting down only change the state.             *)
LEMMA LifecycleSteps ==
  ASSUME \/ \E cfg \in Configs, fails \in BOOLEAN : Create(cfg, fails)
         \/ Stop
         \/ \E closes \in BOOLEAN : Shutdown(closes)
  PROVE  /\ UNCHANGED <<signal, due, made, bad, queue, consumer, fate>>
         /\ state' \in {"running", "failed", "stopping", "closed"}
         /\ client' \in {client, "none", "raw", "library"}
<1>1. ASSUME NEW cfg \in Configs, NEW fails \in BOOLEAN, Create(cfg, fails)
      PROVE  /\ UNCHANGED <<signal, due, made, bad, queue, consumer, fate>>
             /\ state' \in {"running", "failed"}
             /\ client' \in {client, "none", "raw", "library"}
  BY <1>1 DEF Create
<1>2. CASE Stop
  BY <1>2 DEF Stop
<1>3. ASSUME NEW closes \in BOOLEAN, Shutdown(closes)
      PROVE  /\ UNCHANGED <<signal, due, made, bad, queue, consumer, fate>>
             /\ state' = "closed"
             /\ client' \in {client, "none", "raw", "library"}
  BY <1>3 DEF Shutdown
<1> QED
  BY <1>1, <1>2, <1>3

LEMMA QueueInvNext == QueueInv /\ [QueueNext]_queueVars => QueueInv'
<1> SUFFICES ASSUME QueueInv, [QueueNext]_queueVars PROVE QueueInv'
  OBVIOUS
<1>1. CASE \/ \E cfg \in Configs, fails \in BOOLEAN : Create(cfg, fails)
           \/ Stop
           \/ \E closes \in BOOLEAN : Shutdown(closes)
  <2>1. /\ UNCHANGED <<signal, due, made, bad, queue, consumer, fate>>
        /\ state' \in {"running", "failed", "stopping", "closed"}
        /\ client' \in {client, "none", "raw", "library"}
    BY <1>1, LifecycleSteps
  <2> QED
    BY <2>1 DEF QueueInv, QueueTypeOK, HandsFit, Busy, PendingKept, InQueue, InHand
<1>2. ASSUME NEW s \in Streams, NEW isBad \in BOOLEAN, Scrape(s, isBad) PROVE QueueInv'
  BY <1>2, ScrapeKeeps
<1>3. ASSUME NEW c \in Consumers, ConsumerStep(c) PROVE QueueInv'
  <2>1. QueueTypeOK
    BY DEF QueueInv
  <2>2. CASE Take(c)
    BY <2>2, TakeKeeps
  <2>3. CASE Waits(c)
    BY <2>3, TurnKeeps, SettingsTypes DEF Waits
  <2>4. CASE Resends(c)
    BY <2>4, TurnKeeps, SettingsTypes DEF Resends
  <2>5. ASSUME NEW outcome \in {"accepted", "dropped"}, Ends(c, outcome) PROVE QueueInv'
    BY <2>5, EndKeeps
  <2> QED
    BY <1>3, <2>1, <2>2, <2>3, <2>4, <2>5, ConsumerSteps
<1>4. CASE QueueTick
  BY <1>4, TickKeeps
<1>5. CASE UNCHANGED queueVars
  BY <1>5 DEF queueVars, QueueInv, QueueTypeOK, HandsFit, Busy, PendingKept, InQueue, InHand
<1> QED
  BY <1>1, <1>2, <1>3, <1>4, <1>5 DEF QueueNext

LEMMA QueueInvAlways == QueueSpec => []QueueInv
  BY InitQueueInv, QueueInvNext, PTL DEF QueueSpec

-----------------------------------------------------------------------------
(* The order of a receiver's metrics.                                      *)
LEMMA BatchParts ==
  ASSUME NEW b \in Batch
  PROVE  b[1] \in Streams /\ b[2] \in Nat /\ b = <<b[1], b[2]>>
  BY DEF Batch

LEMMA QueuedParts ==
  ASSUME QueueTypeOK, NEW i \in 1..Len(queue)
  PROVE  queue[i] \in Batch /\ queue[i][1] \in Streams
<1>1. queue \in Seq(Batch)
  BY SlotTypes
<1>2. queue[i] \in Batch
  BY <1>1
<1> QED
  BY <1>2, BatchParts

LEMMA HeldParts ==
  ASSUME QueueTypeOK, HandsFit, NEW c \in Consumers, Busy(c)
  PROVE  /\ consumer[c].batch \in Batch /\ consumer[c].batch[1] \in Streams
         /\ consumer[c].elapsed \in Nat /\ consumer[c].left \in Nat
         /\ consumer[c].phase \in {"sending", "waiting"}
<1>1. consumer[c] \in Slot
  BY SlotTypes
<1>2. consumer[c].batch \in Batch
  BY DEF HandsFit
<1> QED
  BY <1>1, <1>2, BatchParts DEF Slot, Phases, Busy

LEMMA InitOrder == QueueInit => InOrder
<1> SUFFICES ASSUME QueueInit PROVE InOrder
  OBVIOUS
<1> USE DEF QueueInit
<1>1. \A c \in Consumers : consumer[c] = Idle
  OBVIOUS
<1>2. \A c \in Consumers : ~Busy(c) /\ consumer[c].phase = "idle"
  BY <1>1 DEF Busy, Idle
<1>3. QueueFresh /\ HandFresh /\ OneEach
  BY <1>2 DEF QueueFresh, HandFresh, OneEach
<1>4. InTime
  BY <1>2 DEF InTime
<1>5. OlderSettled
  BY DEF OlderSettled
<1> QED
  BY <1>3, <1>4, <1>5 DEF InOrder

(* A receiver with a batch under way is not due.                           *)
LEMMA NotDue ==
  ASSUME QueueTypeOK, HandsFit, RetriesEndInTime, InOrder
  PROVE  /\ \A i \in 1..Len(queue) : due[queue[i][1]] > 0
         /\ \A c \in Consumers : Busy(c) => due[consumer[c].batch[1]] > 0
<1> USE DEF InOrder
<1>1. ASSUME NEW i \in 1..Len(queue) PROVE due[queue[i][1]] > 0
  <2>1. due[queue[i][1]] = ScrapeInterval
    BY DEF QueueFresh
  <2> QED
    BY <2>1, QueueAssumption
<1>2. ASSUME NEW c \in Consumers, Busy(c) PROVE due[consumer[c].batch[1]] > 0
  <2>1. /\ consumer[c].elapsed \in Nat /\ consumer[c].left \in Nat
        /\ consumer[c].phase \in {"sending", "waiting"} /\ consumer[c].batch[1] \in Streams
    BY <1>2, HeldParts
  <2>2. consumer[c].elapsed + consumer[c].left <= MaxElapsedTime + Timeout
    BY <2>1, SettingsTypes DEF InTime
  <2>3. due[consumer[c].batch[1]] + consumer[c].elapsed = ScrapeInterval
    BY <1>2 DEF HandFresh
  <2>4. due[consumer[c].batch[1]] \in Nat
    BY <2>1, SlotTypes
  <2>5. MaxElapsedTime + Timeout < ScrapeInterval /\ ScrapeInterval \in Nat
    BY QueueAssumption DEF RetriesEndInTime
  <2>6. consumer[c].elapsed < ScrapeInterval
    BY <2>1, <2>2, <2>5, SettingsTypes
  <2> QED
    BY <2>1, <2>3, <2>4, <2>5, <2>6
<1> QED
  BY <1>1, <1>2

LEMMA TakeOrders ==
  ASSUME QueueInv, signal = "metrics", InOrder, NEW c \in Consumers, Take(c)
  PROVE  InOrder'
<1> USE DEF QueueInv, InOrder
<1>1. /\ Len(queue) \in Nat \ {0} /\ queue' \in Seq(Batch) /\ Len(queue') = Len(queue) - 1
      /\ \A i \in 1..Len(queue') : queue'[i] = queue[i + 1]
      /\ queue[1] \in Batch
      /\ consumer'[c] = [phase |-> "sending", batch |-> queue[1], elapsed |-> 0, left |-> TimeoutOf]
      /\ \A d \in Consumers \ {c} : consumer'[d] = consumer[d]
      /\ ~Busy(c)
  BY TakeSteps
<1>2. UNCHANGED <<due, made, fate>>
  BY DEF Take
<1>3. \A i \in 1..Len(queue') : i + 1 \in 1..Len(queue)
  BY <1>1
<1>4. \A d \in Consumers \ {c} : Busy(d)' <=> Busy(d)
  BY <1>1 DEF Busy
<1>5. QueueFresh'
  <2> SUFFICES ASSUME NEW i \in 1..Len(queue')
               PROVE  /\ queue'[i][2] = made'[queue'[i][1]]
                      /\ due'[queue'[i][1]] = ScrapeInterval
    BY DEF QueueFresh
  <2>1. queue'[i] = queue[i + 1] /\ i + 1 \in 1..Len(queue)
    BY <1>1, <1>3
  <2>2. queue[i + 1][2] = made[queue[i + 1][1]] /\ due[queue[i + 1][1]] = ScrapeInterval
    BY <2>1 DEF QueueFresh
  <2> QED
    BY <1>2, <2>1, <2>2
<1>6. 1 \in 1..Len(queue)
  BY <1>1
<1>7. HandFresh'
  <2> SUFFICES ASSUME NEW d \in Consumers, Busy(d)'
               PROVE  /\ consumer'[d].batch[2] = made'[consumer'[d].batch[1]]
                      /\ due'[consumer'[d].batch[1]] + consumer'[d].elapsed = ScrapeInterval
    BY DEF HandFresh
  <2>1. CASE d = c
    <3>1. queue[1][2] = made[queue[1][1]] /\ due[queue[1][1]] = ScrapeInterval
      BY <1>6 DEF QueueFresh
    <3>2. ScrapeInterval + 0 = ScrapeInterval
      BY QueueAssumption
    <3>3. consumer'[d].batch = queue[1] /\ consumer'[d].elapsed = 0
      BY <1>1, <2>1
    <3> QED
      BY <1>2, <3>1, <3>2, <3>3
  <2>2. CASE d # c
    BY <1>1, <1>2, <1>4, <2>2 DEF HandFresh
  <2> QED
    BY <2>1, <2>2
<1>8. InTime'
  <2> SUFFICES ASSUME NEW d \in Consumers
               PROVE  /\ consumer'[d].phase = "waiting" =>
                           consumer'[d].elapsed + consumer'[d].left <= MaxElapsedTime
                      /\ consumer'[d].phase = "sending" =>
                           consumer'[d].elapsed + consumer'[d].left <= MaxElapsedTime + Timeout
    BY DEF InTime
  <2>1. CASE d = c
    <3>1. consumer'[d].phase = "sending" /\ consumer'[d].elapsed = 0 /\ consumer'[d].left = TimeoutOf
      BY <1>1, <2>1
    <3>2. TimeoutOf = Timeout
      BY DEF TimeoutOf
    <3> QED
      BY <3>1, <3>2, SettingsTypes
  <2>2. CASE d # c
    BY <1>1, <2>2 DEF InTime
  <2> QED
    BY <2>1, <2>2
<1>9. OneEach'
  <2>1. ASSUME NEW i \in 1..Len(queue'), NEW j \in 1..Len(queue'), queue'[i][1] = queue'[j][1]
        PROVE  i = j
    <3>1. i + 1 = j + 1
      BY <1>1, <1>3, <2>1 DEF OneEach
    <3> QED
      BY <3>1
  <2>2. ASSUME NEW d \in Consumers \ {c}, Busy(d) PROVE consumer[d].batch[1] # queue[1][1]
    BY <1>6, <2>2 DEF OneEach
  <2>3. consumer'[c].batch = queue[1]
    BY <1>1
  <2>4. ASSUME NEW d \in Consumers, NEW e \in Consumers, Busy(d)', Busy(e)',
               consumer'[d].batch[1] = consumer'[e].batch[1]
        PROVE  d = e
    <3>1. CASE d = c /\ e # c
      BY <1>1, <1>4, <2>2, <2>3, <2>4, <3>1
    <3>2. CASE d # c /\ e = c
      BY <1>1, <1>4, <2>2, <2>3, <2>4, <3>2
    <3>3. CASE d # c /\ e # c
      BY <1>1, <1>4, <2>4, <3>3 DEF OneEach
    <3> QED
      BY <3>1, <3>2, <3>3
  <2>5. ASSUME NEW i \in 1..Len(queue'), NEW d \in Consumers, Busy(d)'
        PROVE  queue'[i][1] # consumer'[d].batch[1]
    <3>0. queue'[i] = queue[i + 1] /\ i + 1 \in 1..Len(queue) /\ i + 1 # 1
      BY <1>1, <1>3
    <3>1. CASE d = c
      BY <1>6, <2>3, <3>0, <3>1 DEF OneEach
    <3>2. CASE d # c
      BY <1>1, <1>4, <2>5, <3>0, <3>2 DEF OneEach
    <3> QED
      BY <3>1, <3>2
  <2> QED
    BY <2>1, <2>4, <2>5 DEF OneEach
<1>10. OlderSettled'
  BY <1>2 DEF OlderSettled, Settled
<1> QED
  BY <1>5, <1>7, <1>8, <1>9, <1>10

LEMMA TurnOrders ==
  ASSUME QueueInv, InOrder, NEW c \in Consumers, NEW phase \in {"sending", "waiting"},
         NEW left \in Nat, Turns(c, phase, left),
         phase = "waiting" => consumer[c].elapsed + left <= MaxElapsedTime,
         phase = "sending" => consumer[c].elapsed + left <= MaxElapsedTime + Timeout
  PROVE  InOrder'
<1> USE DEF QueueInv, InOrder
<1>1. /\ consumer'[c] = [phase |-> phase, batch |-> consumer[c].batch,
                         elapsed |-> consumer[c].elapsed, left |-> left]
      /\ \A d \in Consumers \ {c} : consumer'[d] = consumer[d]
  BY TurnSteps
<1>2. UNCHANGED <<due, made, queue, fate>> /\ Busy(c)
  BY DEF Turns
<1>3. \A d \in Consumers : /\ Busy(d)' <=> Busy(d)
                           /\ consumer'[d].batch = consumer[d].batch
                           /\ consumer'[d].elapsed = consumer[d].elapsed
  BY <1>1, <1>2 DEF Busy
<1>4. QueueFresh' /\ OlderSettled'
  BY <1>2 DEF QueueFresh, OlderSettled, Settled
<1>5. HandFresh'
  BY <1>2, <1>3 DEF HandFresh
<1>6. InTime'
  BY <1>1 DEF InTime
<1>7. OneEach'
  BY <1>2, <1>3 DEF OneEach
<1> QED
  BY <1>4, <1>5, <1>6, <1>7

LEMMA EndOrders ==
  ASSUME QueueInv, InOrder, NEW c \in Consumers, NEW outcome \in {"accepted", "dropped"},
         Ends(c, outcome)
  PROVE  InOrder'
<1> USE DEF QueueInv, InOrder
<1>1. /\ consumer'[c] = Idle
      /\ \A d \in Consumers \ {c} : consumer'[d] = consumer[d]
      /\ consumer[c].batch \in Batch /\ fate'[consumer[c].batch] = outcome
      /\ \A b \in Batch \ {consumer[c].batch} : fate'[b] = fate[b]
  BY EndSteps
<1>2. UNCHANGED <<due, made, queue>>
  BY DEF Ends
<1>3. ~Busy(c)' /\ consumer'[c].phase = "idle"
  BY <1>1 DEF Busy, Idle
<1>4. \A d \in Consumers : Busy(d)' => d # c /\ Busy(d) /\ consumer'[d] = consumer[d]
  BY <1>1, <1>3 DEF Busy
<1>5. QueueFresh'
  BY <1>2 DEF QueueFresh
<1>6. HandFresh'
  BY <1>2, <1>4 DEF HandFresh
<1>7. InTime'
  BY <1>1, <1>3 DEF InTime
<1>8. OneEach'
  BY <1>2, <1>4 DEF OneEach
<1>9. OlderSettled'
  <2> SUFFICES ASSUME NEW s \in Streams, NEW n \in 1..made[s]
               PROVE  /\ fate'[<<s, n>>] # "none"
                      /\ n < made[s] => fate'[<<s, n>>] \in {"accepted", "dropped", "rejected"}
    BY <1>2 DEF OlderSettled, Settled
  <2>1. <<s, n>> \in Batch
    BY SlotTypes, QueueAssumption DEF Batch
  <2>2. /\ fate[<<s, n>>] # "none"
        /\ n < made[s] => fate[<<s, n>>] \in {"accepted", "dropped", "rejected"}
    BY DEF OlderSettled, Settled
  <2> QED
    BY <1>1, <2>1, <2>2
<1> QED
  BY <1>5, <1>6, <1>7, <1>8, <1>9

(* A receiver is due again: what it made before has ended.                 *)
LEMMA ScrapeOrders ==
  ASSUME QueueInv, RetriesEndInTime, InOrder, NEW s \in Streams, NEW isBad \in BOOLEAN,
         Scrape(s, isBad)
  PROVE  InOrder'
<1> USE DEF QueueInv
<1>1. PICK b : b = <<s, made[s] + 1>>
  OBVIOUS
<1>2. /\ b \in Batch /\ made[s] \in Nat /\ due[s] = 0
      /\ made'[s] = made[s] + 1 /\ due'[s] = ScrapeInterval
      /\ \A r \in Streams \ {s} : made'[r] = made[r] /\ due'[r] = due[r]
      /\ \A a \in Batch \ {b} : fate'[a] = fate[a]
      /\ \/ queue' = Append(queue, b) /\ Len(queue) < QueueSize /\ fate'[b] = "pending"
         \/ queue' = queue /\ fate'[b] = "rejected"
      /\ UNCHANGED consumer
  BY <1>1, ScrapeSteps
<1>3. queue \in Seq(Batch) /\ Len(queue) \in Nat
  BY SlotTypes
<1>4. ASSUME NEW i \in 1..Len(queue)
      PROVE  queue[i] \in Batch /\ queue[i][1] \in Streams \ {s}
  <2>1. due[queue[i][1]] > 0
    BY NotDue
  <2>2. queue[i] \in Batch /\ queue[i][1] \in Streams
    BY QueuedParts
  <2>3. queue[i][1] # s
    BY <1>2, <2>1
  <2> QED
    BY <2>2, <2>3
<1>5. ASSUME NEW c \in Consumers, Busy(c)
      PROVE  consumer[c].batch \in Batch /\ consumer[c].batch[1] \in Streams \ {s}
  <2>1. due[consumer[c].batch[1]] > 0
    BY <1>5, NotDue
  <2>2. consumer[c].batch \in Batch /\ consumer[c].batch[1] \in Streams
    BY <1>5, HeldParts
  <2>3. consumer[c].batch[1] # s
    BY <1>2, <2>1
  <2> QED
    BY <2>2, <2>3
<1>6. \A c \in Consumers : (Busy(c)' <=> Busy(c)) /\ consumer'[c] = consumer[c]
  BY <1>2 DEF Busy
<1>7. b[1] = s /\ b[2] = made[s] + 1
  BY <1>1
<1>8. ASSUME NEW i \in 1..Len(queue')
      PROVE  \/ i \in 1..Len(queue) /\ queue'[i] = queue[i]
             \/ i = Len(queue) + 1 /\ queue'[i] = b
  <2>1. CASE queue' = queue
    BY <2>1
  <2>2. CASE queue' = Append(queue, b)
    BY <1>2, <1>3, <2>2
  <2> QED
    BY <1>2, <2>1, <2>2
<1> HIDE DEF QueueInv
<1> USE DEF InOrder
<1>9. QueueFresh'
  <2> SUFFICES ASSUME NEW i \in 1..Len(queue')
               PROVE  queue'[i][2] = made'[queue'[i][1]] /\ due'[queue'[i][1]] = ScrapeInterval
    BY DEF QueueFresh
  <2>1. CASE queue'[i] = b
    BY <1>2, <1>7, <2>1
  <2>2. CASE i \in 1..Len(queue) /\ queue'[i] = queue[i]
    <3>1. queue[i][2] = made[queue[i][1]] /\ due[queue[i][1]] = ScrapeInterval
      BY <2>2 DEF QueueFresh
    <3>2. queue[i][1] \in Streams \ {s}
      BY <1>4, <2>2
    <3> QED
      BY <1>2, <2>2, <3>1, <3>2
  <2> QED
    BY <1>8, <2>1, <2>2
<1>10. HandFresh'
  <2> SUFFICES ASSUME NEW c \in Consumers, Busy(c)
               PROVE  /\ consumer[c].batch[2] = made'[consumer[c].batch[1]]
                      /\ due'[consumer[c].batch[1]] + consumer[c].elapsed = ScrapeInterval
    BY <1>6 DEF HandFresh
  <2>1. /\ consumer[c].batch[2] = made[consumer[c].batch[1]]
        /\ due[consumer[c].batch[1]] + consumer[c].elapsed = ScrapeInterval
    BY DEF HandFresh
  <2>2. consumer[c].batch[1] \in Streams \ {s}
    BY <1>5
  <2> QED
    BY <1>2, <2>1, <2>2
<1>11. InTime'
  BY <1>6 DEF InTime
<1>12. OneEach'
  <2>1. ASSUME NEW i \in 1..Len(queue'), NEW j \in 1..Len(queue'), queue'[i][1] = queue'[j][1]
        PROVE  i = j
    <3>1. CASE i = Len(queue) + 1 /\ queue'[i] = b
      BY <1>4, <1>7, <1>8, <2>1, <3>1
    <3>2. CASE j = Len(queue) + 1 /\ queue'[j] = b
      BY <1>4, <1>7, <1>8, <2>1, <3>2
    <3>3. CASE i \in 1..Len(queue) /\ queue'[i] = queue[i] /\ j \in 1..Len(queue) /\ queue'[j] = queue[j]
      BY <2>1, <3>3 DEF OneEach
    <3> QED
      BY <1>8, <3>1, <3>2, <3>3
  <2>2. ASSUME NEW i \in 1..Len(queue'), NEW c \in Consumers, Busy(c)
        PROVE  queue'[i][1] # consumer[c].batch[1]
    <3>1. CASE queue'[i] = b
      BY <1>5, <1>7, <2>2, <3>1
    <3>2. CASE i \in 1..Len(queue) /\ queue'[i] = queue[i]
      BY <2>2, <3>2 DEF OneEach
    <3> QED
      BY <1>8, <3>1, <3>2
  <2>3. \A c, d \in Consumers :
          Busy(c)' /\ Busy(d)' /\ consumer'[c].batch[1] = consumer'[d].batch[1] => c = d
    BY <1>6 DEF OneEach
  <2> QED
    BY <1>6, <2>1, <2>2, <2>3 DEF OneEach
<1>13. OlderSettled'
  <2> SUFFICES ASSUME NEW r \in Streams, NEW n \in 1..made'[r]
               PROVE  /\ fate'[<<r, n>>] # "none"
                      /\ n < made'[r] => fate'[<<r, n>>] \in {"accepted", "dropped", "rejected"}
    BY DEF OlderSettled, Settled
  <2>0. /\ made \in [Streams -> 0..MaxBatches] /\ fate \in [Batch -> Fates] /\ MaxBatches \in Nat
        /\ PendingKept
    BY SlotTypes, QueueAssumption DEF QueueInv
  <2>1. CASE r # s
    <3>1. made'[r] = made[r] /\ n \in 1..made[r]
      BY <1>2, <2>1
    <3>2. <<r, n>> \in Batch /\ <<r, n>> # b
      BY <1>1, <2>0, <2>1, <3>1 DEF Batch
    <3>3. fate'[<<r, n>>] = fate[<<r, n>>]
      BY <1>2, <3>2
    <3> QED
      BY <3>1, <3>3 DEF OlderSettled, Settled
  <2>2. CASE r = s /\ n = made[s] + 1
    <3>1. <<r, n>> = b /\ ~(n < made'[r])
      BY <1>1, <1>2, <2>2
    <3> QED
      BY <1>2, <3>1
  <2>3. CASE r = s /\ n # made[s] + 1
    <3>1. n \in 1..made[s] /\ n \in Nat
      BY <1>2, <2>3
    <3>2. <<s, n>> \in Batch /\ <<s, n>> # b
      BY <1>1, <2>0, <2>3, <3>1 DEF Batch
    <3>3. fate'[<<s, n>>] = fate[<<s, n>>] /\ fate[<<s, n>>] # "none" /\ fate[<<s, n>>] \in Fates
      BY <1>2, <2>0, <3>1, <3>2 DEF OlderSettled
    <3>4. ~InQueue(<<s, n>>)
      BY <1>4 DEF InQueue
    <3>5. ~InHand(<<s, n>>)
      BY <1>5 DEF InHand
    <3>6. fate[<<s, n>>] # "pending"
      BY <2>0, <3>2, <3>4, <3>5 DEF PendingKept
    <3> QED
      BY <2>3, <3>3, <3>6 DEF Fates
  <2> QED
    BY <2>1, <2>2, <2>3
<1> QED
  BY <1>9, <1>10, <1>11, <1>12, <1>13

(* A second passes only when the queue is empty: with a consumer for each  *)
(* receiver, not all of them can be busy with other receivers' batches.    *)
LEMMA NothingWaits ==
  ASSUME QueueInv, EnoughConsumers, InOrder, QueueTick
  PROVE  queue = <<>>
<1> SUFFICES ASSUME queue # <<>> PROVE FALSE
  OBVIOUS
<1> DEFINE s0 == queue[1][1]
           others == Streams \ {s0}
<1>1. queue \in Seq(Batch) /\ QueueTypeOK /\ HandsFit
  BY SlotTypes DEF QueueInv
<1>2. 1 \in 1..Len(queue)
  BY <1>1
<1>3. s0 \in Streams
  BY <1>1, <1>2, QueuedParts
<1>4. \A c \in Consumers : Busy(c)
  BY <1>1 DEF QueueTick, Prompt, HandsFit
<1>5. \A c \in Consumers : consumer[c].batch[1] \in Streams
  BY <1>1, <1>4, HeldParts
<1>6. \A c \in Consumers : consumer[c].batch[1] # s0
  BY <1>2, <1>4 DEF InOrder, OneEach
<1>7. \A c, d \in Consumers : consumer[c].batch[1] = consumer[d].batch[1] => c = d
  BY <1>4 DEF InOrder, OneEach
<1> DEFINE f == [c \in Consumers |-> consumer[c].batch[1]]
<1>8. f \in [Consumers -> others]
  BY <1>5, <1>6
<1>9. IsFiniteSet(others) /\ Cardinality(others) = Cardinality(Streams) - 1
  BY <1>3, FS_RemoveElement DEF EnoughConsumers
<1>10. Cardinality(Streams) \in Nat /\ Cardinality(Consumers) \in Nat
  BY FS_CardinalityType DEF EnoughConsumers
<1>11. Cardinality(others) < Cardinality(Consumers)
  BY <1>9, <1>10 DEF EnoughConsumers
<1> HIDE DEF others, f
<1>12. \E x, y \in Consumers : x # y /\ f[x] = f[y]
  BY <1>8, <1>9, <1>11, FS_PigeonHole DEF EnoughConsumers
<1> QED
  BY <1>7, <1>12 DEF f

LEMMA TickOrders ==
  ASSUME QueueInv, EnoughConsumers, RetriesEndInTime, InOrder, QueueTick
  PROVE  InOrder'
<1>0. QueueTypeOK /\ HandsFit
  BY DEF QueueInv
<1>1. queue = <<>> /\ Len(queue) = 0
  BY NothingWaits
<1>2. /\ \A c \in Consumers : ~Busy(c) => consumer'[c] = Idle
      /\ \A s \in Streams : due'[s] = IF due[s] = 0 THEN 0 ELSE due[s] - 1
      /\ UNCHANGED <<made, queue, fate>>
  BY <1>0, TickSteps
<1>a. ASSUME NEW c \in Consumers, Busy(c)
      PROVE  /\ consumer'[c].phase = consumer[c].phase /\ consumer'[c].batch = consumer[c].batch
             /\ consumer'[c].elapsed = consumer[c].elapsed + 1
             /\ consumer'[c].left = consumer[c].left - 1
  <2>1. consumer'[c] = [phase |-> consumer[c].phase, batch |-> consumer[c].batch,
                        elapsed |-> consumer[c].elapsed + 1, left |-> consumer[c].left - 1]
    BY <1>0, <1>a, TickSteps
  <2> QED
    BY <2>1
<1>3. ASSUME NEW c \in Consumers PROVE Busy(c)' <=> Busy(c)
  <2>1. CASE Busy(c)
    BY <1>a, <2>1 DEF Busy
  <2>2. CASE ~Busy(c)
    BY <1>2, <2>2 DEF Busy, Idle
  <2> QED
    BY <2>1, <2>2
<1>4. ASSUME NEW c \in Consumers, Busy(c)
      PROVE  /\ consumer'[c].phase = consumer[c].phase /\ consumer'[c].batch = consumer[c].batch
             /\ consumer'[c].elapsed + consumer'[c].left = consumer[c].elapsed + consumer[c].left
             /\ due'[consumer[c].batch[1]] + consumer'[c].elapsed
                  = due[consumer[c].batch[1]] + consumer[c].elapsed
  <2>1. /\ consumer'[c].phase = consumer[c].phase /\ consumer'[c].batch = consumer[c].batch
        /\ consumer'[c].elapsed = consumer[c].elapsed + 1
        /\ consumer'[c].left = consumer[c].left - 1
    BY <1>4, <1>a
  <2>2. /\ consumer[c].elapsed \in Nat /\ consumer[c].left \in Nat
        /\ consumer[c].batch[1] \in Streams
    BY <1>0, <1>4, HeldParts
  <2>3. due[consumer[c].batch[1]] > 0
    BY <1>0, <1>4, NotDue
  <2>4. due[consumer[c].batch[1]] \in Nat
    BY <1>0, <2>2, SlotTypes
  <2>5. due'[consumer[c].batch[1]] = due[consumer[c].batch[1]] - 1
    BY <1>2, <2>2, <2>3, <2>4
  <2> QED
    BY <2>1, <2>2, <2>4, <2>5
<1> USE DEF InOrder
<1>5. QueueFresh'
  BY <1>1, <1>2 DEF QueueFresh
<1>6. HandFresh'
  BY <1>2, <1>3, <1>4 DEF HandFresh
<1>7. InTime'
  <2> SUFFICES ASSUME NEW c \in Consumers
               PROVE  /\ consumer'[c].phase = "waiting" =>
                           consumer'[c].elapsed + consumer'[c].left <= MaxElapsedTime
                      /\ consumer'[c].phase = "sending" =>
                           consumer'[c].elapsed + consumer'[c].left <= MaxElapsedTime + Timeout
    BY DEF InTime
  <2>1. CASE Busy(c)
    BY <1>4, <2>1 DEF InTime
  <2>2. CASE ~Busy(c)
    BY <1>2, <2>2 DEF Idle
  <2> QED
    BY <2>1, <2>2
<1>8. OneEach'
  BY <1>1, <1>2, <1>3, <1>4 DEF OneEach
<1>9. OlderSettled'
  BY <1>2 DEF OlderSettled, Settled
<1> QED
  BY <1>5, <1>6, <1>7, <1>8, <1>9

LEMMA OrderNext ==
  ASSUME EnoughConsumers, RetriesEndInTime
  PROVE  QueueInv /\ OrderInv /\ [QueueNext]_queueVars => OrderInv'
<1> SUFFICES ASSUME QueueInv, OrderInv, [QueueNext]_queueVars PROVE OrderInv'
  OBVIOUS
<1>0. QueueTypeOK
  BY DEF QueueInv
<1>1. CASE \/ \E cfg \in Configs, fails \in BOOLEAN : Create(cfg, fails)
           \/ Stop
           \/ \E closes \in BOOLEAN : Shutdown(closes)
  <2>1. UNCHANGED <<signal, due, made, queue, consumer, fate>>
    BY <1>1, LifecycleSteps
  <2> QED
    BY <2>1 DEF OrderInv, InOrder, QueueFresh, HandFresh, InTime, OneEach, OlderSettled, Busy, Settled
<1>2. ASSUME NEW s \in Streams, NEW isBad \in BOOLEAN, Scrape(s, isBad) PROVE OrderInv'
  <2>1. signal' = signal
    BY <1>2 DEF Scrape
  <2> QED
    BY <1>2, <2>1, ScrapeOrders DEF OrderInv
<1>3. ASSUME NEW c \in Consumers, ConsumerStep(c) PROVE OrderInv'
  <2>1. CASE Take(c)
    <3>1. signal' = signal
      BY <2>1 DEF Take
    <3> QED
      BY <2>1, <3>1, TakeOrders DEF OrderInv
  <2>2. CASE Waits(c)
    <3>1. signal' = signal
      BY <2>2 DEF Waits, Turns
    <3> QED
      BY <2>2, <3>1, TurnOrders, SettingsTypes DEF OrderInv, Waits
  <2>3. CASE Resends(c)
    <3>1. signal' = signal /\ Turns(c, "sending", TimeoutOf)
      BY <2>3 DEF Resends, Turns
    <3>2. ASSUME signal = "metrics" PROVE InOrder'
      <4>1. InOrder /\ TimeoutOf = Timeout
        BY <3>2 DEF OrderInv, TimeoutOf
      <4>2. consumer[c].elapsed + 0 <= MaxElapsedTime
        BY <2>3, <4>1 DEF Resends, InOrder, InTime
      <4>3. consumer[c].elapsed \in Nat
        BY <1>0, SlotTypes DEF Slot
      <4>4. consumer[c].elapsed + TimeoutOf <= MaxElapsedTime + Timeout
        BY <4>1, <4>2, <4>3, SettingsTypes
      <4> QED
        BY <3>1, <4>1, <4>4, TurnOrders, SettingsTypes
    <3> QED
      BY <3>1, <3>2 DEF OrderInv
  <2>4. ASSUME NEW outcome \in {"accepted", "dropped"}, Ends(c, outcome) PROVE OrderInv'
    <3>1. signal' = signal
      BY <2>4 DEF Ends
    <3> QED
      BY <2>4, <3>1, EndOrders DEF OrderInv
  <2> QED
    BY <1>0, <1>3, <2>1, <2>2, <2>3, <2>4, ConsumerSteps
<1>4. CASE QueueTick
  <2>1. signal' = signal
    BY <1>4 DEF QueueTick
  <2> QED
    BY <1>4, <2>1, TickOrders DEF OrderInv
<1>5. CASE UNCHANGED queueVars
  BY <1>5 DEF queueVars, OrderInv, InOrder, QueueFresh, HandFresh, InTime, OneEach, OlderSettled, Busy,
       Settled
<1> QED
  BY <1>1, <1>2, <1>3, <1>4, <1>5 DEF QueueNext

(* The comment at factory.go:102-106, with what it takes to be true: if    *)
(* every receiver has a consumer of its own, and an attempt that begins    *)
(* when MaxElapsedTime is up ends, with its timeout, before the next       *)
(* scrape, then no metric of a receiver is sent before the one of its      *)
(* scrape before was received or dropped.  With MaxElapsedTime alone below *)
(* ScrapeInterval it is not true, as a run shows.                          *)
THEOREM MetricsInOrder ==
  ASSUME EnoughConsumers, RetriesEndInTime
  PROVE  QueueSpec => []Chronological
<1>1. QueueInit => OrderInv
  BY InitOrder DEF OrderInv
<1>2. QueueInv /\ OrderInv /\ [QueueNext]_queueVars => OrderInv'
  BY OrderNext
<1>3. QueueInv /\ OrderInv => Chronological
  <2> SUFFICES ASSUME QueueInv, OrderInv, signal = "metrics",
                      NEW c \in Consumers, consumer[c].phase = "sending",
                      NEW n \in 1..(consumer[c].batch[2] - 1)
               PROVE  Settled(<<consumer[c].batch[1], n>>)
    BY DEF Chronological
  <2>1. Busy(c) /\ QueueTypeOK /\ HandsFit
    BY DEF Busy, QueueInv
  <2>2. consumer[c].batch \in Batch
    BY <2>1, HeldParts
  <2>3. consumer[c].batch[1] \in Streams /\ consumer[c].batch[2] \in Nat
    BY <2>2, BatchParts
  <2>4. consumer[c].batch[2] = made[consumer[c].batch[1]]
    BY <2>1 DEF OrderInv, InOrder, HandFresh
  <2>5. n \in 1..made[consumer[c].batch[1]] /\ n < made[consumer[c].batch[1]]
    BY <2>3, <2>4
  <2> QED
    BY <2>3, <2>5 DEF OrderInv, InOrder, OlderSettled
<1> QED
  BY <1>1, <1>2, <1>3, QueueInvAlways, PTL DEF QueueSpec

-----------------------------------------------------------------------------
(* Sequences.                                                              *)

(* A nonempty set of natural numbers has a least one.                      *)
LEMMA LeastNumber ==
  ASSUME NEW S, S \subseteq Nat, S # {}
  PROVE  \E m \in S : \A k \in S : m <= k
<1> DEFINE Less == {p \in Nat \X Nat : p[1] < p[2]}
<1>1. IsWellFoundedOn(Less, Nat)
  <2>1. OpToRel(<, Nat) = Less
    BY DEF OpToRel
  <2> QED BY <2>1, NatLessThanWellFounded
<1>2. \A k, m \in Nat : <<k, m>> \in Less <=> k < m
  OBVIOUS
<1> HIDE DEF Less
<1>3. PICK m \in S : \A k \in S : ~ (<<k, m>> \in Less)
  BY <1>1, WFMin
<1>4. ASSUME NEW k \in S PROVE m <= k
  <2>1. k \in Nat /\ m \in Nat /\ ~ (k < m)
    BY <1>2, <1>3
  <2> QED BY <2>1
<1> QED BY <1>4

(* FlattenSeq joins sequences from left to right: some function is what    *)
(* its recursion asks for, so that the one it chooses is.                  *)
LEMMA FlattenSteps ==
  ASSUME NEW X, NEW ss \in Seq(Seq(X)), Len(ss) # 0
  PROVE  \E f : /\ FlattenSeq(ss) = f[Len(ss)]
                /\ \A n \in 1..Len(ss) : f[n] = IF n = 1 THEN ss[n] ELSE f[n - 1] \o ss[n]
<1> DEFINE N == Len(ss)
           Body(g, i) == IF i = 1 THEN ss[i] ELSE g[i-1] \o ss[i]
           Parts(n) == \E g \in [1..n -> Seq(X)] : \A i \in 1..n : g[i] = Body(g, i)
           f == CHOOSE f : f = [i \in 1..N |-> Body(f, i)]
<1>0. N \in Nat \ {0} /\ \A i \in 1..N : ss[i] \in Seq(X)
  OBVIOUS
<1>1. FlattenSeq(ss) = f[N]
  BY DEF FlattenSeq
<1>2. \A n \in 1..N : Parts(n)
  <2> DEFINE Bad == {n \in 1..N : ~Parts(n)}
  <2> SUFFICES ASSUME Bad # {} PROVE FALSE
    OBVIOUS
  <2>1. Bad \subseteq Nat
    BY <1>0
  <2>2. PICK m \in Bad : \A k \in Bad : m <= k
    <3> HIDE DEF Bad
    <3> QED BY <2>1, LeastNumber
  <2>3. m \in 1..N /\ ~Parts(m)
    BY <2>2
  <2>4. CASE m = 1
    <3> DEFINE g == [i \in 1..1 |-> ss[1]]
    <3>1. g \in [1..1 -> Seq(X)] /\ \A i \in 1..1 : g[i] = Body(g, i)
      <4>1. ss[1] \in Seq(X) /\ g[1] = ss[1] /\ DOMAIN g = 1..1
        BY <1>0
      <4>2. \A i \in 1..1 : i = 1
        OBVIOUS
      <4> QED
        BY <4>1, <4>2
    <3> HIDE DEF g, Body
    <3> QED
      BY <2>3, <2>4, <3>1
  <2>5. CASE m # 1
    <3>1. m - 1 \in 1..N /\ m - 1 < m /\ m \in Nat
      BY <1>0, <2>3, <2>5
    <3>2. Parts(m - 1)
      <4> HIDE DEF Parts
      <4>1. m - 1 \notin Bad
        <5> HIDE DEF Bad
        <5> QED BY <2>2, <3>1
      <4> QED
        BY <3>1, <4>1
    <3>3. PICK h \in [1..(m - 1) -> Seq(X)] : \A i \in 1..(m - 1) : h[i] = Body(h, i)
      BY <3>2
    <3> DEFINE g == [i \in 1..m |-> IF i = m THEN h[m - 1] \o ss[m] ELSE h[i]]
    <3>4. h[m - 1] \in Seq(X) /\ ss[m] \in Seq(X)
      BY <1>0, <2>3, <2>5, <3>1, <3>3
    <3>5. g \in [1..m -> Seq(X)]
      <4>1. ASSUME NEW i \in 1..m PROVE (IF i = m THEN h[m - 1] \o ss[m] ELSE h[i]) \in Seq(X)
        <5>1. CASE i = m
          BY <3>4, <5>1
        <5>2. CASE i # m
          BY <3>1, <3>3, <5>2
        <5> QED
          BY <5>1, <5>2
      <4> QED
        BY <4>1
    <3>6. ASSUME NEW i \in 1..m PROVE g[i] = Body(g, i)
      <4>1. CASE i = m
        <5>1. g[i] = h[m - 1] \o ss[m] /\ g[m - 1] = h[m - 1]
          <6>1. m - 1 \in 1..m /\ m - 1 # m /\ m \in 1..m
            BY <3>1
          <6> QED
            BY <4>1, <6>1
        <5>2. Body(g, m) = g[m - 1] \o ss[m]
          BY <2>5
        <5> QED
          BY <4>1, <5>1, <5>2
      <4>2. CASE i # m
        <5>1. i \in 1..(m - 1) /\ g[i] = h[i] /\ (i # 1 => g[i - 1] = h[i - 1])
          BY <3>1, <4>2
        <5> QED
          BY <3>3, <5>1
      <4> QED
        BY <4>1, <4>2
    <3> HIDE DEF g, Body
    <3>7. \E h2 \in [1..m -> Seq(X)] : \A i \in 1..m : h2[i] = Body(h2, i)
      BY <3>5, <3>6
    <3> QED
      BY <2>3, <3>7
  <2> QED
    BY <2>4, <2>5
<1>3. PICK g \in [1..N -> Seq(X)] : \A i \in 1..N : g[i] = Body(g, i)
  <2>1. N \in 1..N
    BY <1>0
  <2>2. Parts(N)
    <3> HIDE DEF N, Parts
    <3> QED BY <1>2, <2>1
  <2> HIDE DEF N, Body
  <2> QED
    BY <2>2
<1>4. g = [i \in 1..N |-> Body(g, i)]
  BY <1>3
<1>5. f = [i \in 1..N |-> Body(f, i)]
  BY Zenon, <1>4
<1>6. \A n \in 1..N : f[n] = Body(f, n)
  <2> HIDE DEF N, f, Body
  <2> QED
    BY <1>5
<1> HIDE DEF f
<1> QED
  BY <1>1, <1>6

(* The result is a sequence of what the parts are sequences of.            *)
LEMMA FlattenSeqType ==
  ASSUME NEW X, NEW ss \in Seq(Seq(X))
  PROVE  FlattenSeq(ss) \in Seq(X)
<1>1. CASE Len(ss) = 0
  <2>1. FlattenSeq(ss) = ss /\ ss = <<>>
    BY <1>1 DEF FlattenSeq
  <2> QED
    BY <2>1
<1>2. CASE Len(ss) # 0
  <2> DEFINE N == Len(ss)
  <2>0. N \in Nat \ {0} /\ \A i \in 1..N : ss[i] \in Seq(X)
    BY <1>2
  <2>1. PICK f : /\ FlattenSeq(ss) = f[N]
                 /\ \A n \in 1..N : f[n] = IF n = 1 THEN ss[n] ELSE f[n - 1] \o ss[n]
    BY <1>2, FlattenSteps
  <2>2. \A n \in 1..N : f[n] \in Seq(X)
    <3> DEFINE Bad == {n \in 1..N : f[n] \notin Seq(X)}
    <3> SUFFICES ASSUME Bad # {} PROVE FALSE
      OBVIOUS
    <3>1. Bad \subseteq Nat
      BY <2>0
    <3>2. PICK m \in Bad : \A k \in Bad : m <= k
      <4> HIDE DEF Bad
      <4> QED BY <3>1, LeastNumber
    <3>3. m \in 1..N /\ f[m] \notin Seq(X) /\ ss[m] \in Seq(X)
      BY <2>0, <3>2
    <3>4. m # 1
      BY <2>1, <3>3
    <3>5. m - 1 \in 1..N /\ m - 1 \notin Bad
      BY <2>0, <3>2, <3>3, <3>4
    <3>6. f[m - 1] \in Seq(X)
      BY <3>5
    <3>7. f[m] = f[m - 1] \o ss[m]
      BY <2>1, <3>3, <3>4
    <3> QED
      BY <3>3, <3>6, <3>7
  <2> QED
    BY <2>0, <2>1, <2>2
<1> QED
  BY <1>1, <1>2

(* Flattening sequences of one element each gives the elements.            *)
LEMMA FlattenSingletons ==
  ASSUME NEW X, NEW q \in Seq(X)
  PROVE  FlattenSeq([i \in 1..Len(q) |-> <<q[i]>>]) = q
<1> DEFINE ss == [i \in 1..Len(q) |-> <<q[i]>>]
<1>1. ss \in Seq(Seq(X)) /\ Len(ss) = Len(q) /\ Len(q) \in Nat /\ \A i \in 1..Len(q) : ss[i] = <<q[i]>>
  <2>1. Len(q) \in Nat /\ \A i \in 1..Len(q) : q[i] \in X
    OBVIOUS
  <2>2. ss \in [1..Len(q) -> Seq(X)]
    BY <2>1
  <2> QED
    BY <2>1, <2>2
<1> HIDE DEF ss
<1>2. CASE Len(q) = 0
  <2>1. ss = <<>> /\ q = <<>>
    BY <1>1, <1>2
  <2>2. FlattenSeq(ss) = ss
    BY <1>1, <1>2 DEF FlattenSeq
  <2> QED
    BY <2>1, <2>2 DEF ss
<1>3. CASE Len(q) # 0
  <2>1. PICK f : /\ FlattenSeq(ss) = f[Len(q)]
                 /\ \A n \in 1..Len(q) : f[n] = IF n = 1 THEN ss[n] ELSE f[n - 1] \o ss[n]
    <3>1. ss \in Seq(Seq(X)) /\ Len(ss) # 0
      BY <1>1, <1>3
    <3>2. \E f : /\ FlattenSeq(ss) = f[Len(ss)]
                 /\ \A n \in 1..Len(ss) : f[n] = IF n = 1 THEN ss[n] ELSE f[n - 1] \o ss[n]
      BY <3>1, FlattenSteps
    <3> QED
      BY Zenon, <1>1, <3>2
  <2> DEFINE Prefix(n) == [i \in 1..n |-> q[i]]
             Bad == {n \in 1..Len(q) : f[n] # Prefix(n)}
  <2>2. Bad = {}
    <3> SUFFICES ASSUME Bad # {} PROVE FALSE
      OBVIOUS
    <3>1. Bad \subseteq Nat
      BY <1>1
    <3>2. PICK m \in Bad : \A k \in Bad : m <= k
      <4> HIDE DEF Bad
      <4> QED BY <3>1, LeastNumber
    <3>3. m \in 1..Len(q) /\ f[m] # Prefix(m)
      BY <3>2
    <3>4. CASE m = 1
      <4>1. f[1] = <<q[1]>>
        BY <1>1, <2>1, <3>3, <3>4
      <4>2. Prefix(1) = <<q[1]>>
        OBVIOUS
      <4> QED
        BY <3>3, <3>4, <4>1, <4>2
    <3>5. CASE m # 1
      <4>1. m - 1 \in 1..Len(q) /\ m - 1 < m /\ m \in Nat
        BY <1>1, <3>3, <3>5
      <4>2. m - 1 \notin Bad
        <5> HIDE DEF Bad
        <5> QED BY <3>2, <4>1
      <4>3. f[m - 1] = Prefix(m - 1)
        BY <4>1, <4>2
      <4>4. f[m] = f[m - 1] \o <<q[m]>>
        BY <1>1, <2>1, <3>3, <3>5
      <4>5. Prefix(m - 1) \o <<q[m]>> = Prefix(m)
        <5>1. Prefix(m - 1) \in Seq(X) /\ Len(Prefix(m - 1)) = m - 1 /\ q[m] \in X
          BY <3>3, <4>1
        <5> QED
          BY <4>1, <5>1
      <4> QED
        BY <3>3, <4>3, <4>4, <4>5
    <3> QED
      BY <3>4, <3>5
  <2>3. f[Len(q)] = Prefix(Len(q))
    <3>1. Len(q) \in 1..Len(q)
      BY <1>1, <1>3
    <3> QED
      BY <2>2, <3>1
  <2>4. Prefix(Len(q)) = q
    OBVIOUS
  <2> QED
    BY <2>1, <2>3, <2>4 DEF ss
<1> QED
  BY <1>2, <1>3

-----------------------------------------------------------------------------
(* What a batch is like: pdata's slices, points with an end, whatever it   *)
(* is, and histograms whose buckets are unsigned numbers that add up to    *)
(* the count.                                                              *)
Slice(s) == \E n \in Nat : DOMAIN s = 1..n

Temporalities == {"Unspecified", "Cumulative", "Delta"}

PointFits(p) == p.start \in Nat /\ p.end \in Nat \ {0}

CountsFit(p) ==
  /\ p.count \in 0..(2 * MaxInt64 + 1)
  /\ p.buckets \in Seq(0..p.count) /\ SumOf(p.buckets) = p.count

MetricFits(m) ==
  /\ m.type \in {"Gauge", "Sum", "Histogram", "Other"} /\ m.aggr \in Temporalities
  /\ Slice(m.points) /\ \A i \in DOMAIN m.points : PointFits(m.points[i])
  /\ m.type = "Histogram" => \A i \in DOMAIN m.points : CountsFit(m.points[i])

MetricsFit(rms) ==
  /\ Slice(rms)
  /\ \A i \in DOMAIN rms : /\ Slice(rms[i].metrics)
                           /\ \A k \in DOMAIN rms[i].metrics : MetricFits(rms[i].metrics[k])

(* Each resource's logs are a slice of scopes, slices of records.          *)
LogsFit(rls) ==
  /\ Slice(rls)
  /\ \A i \in DOMAIN rls : \E X : rls[i].scopes \in Seq(Seq(X))

BatchesFit ==
  \A b \in Batches :
    /\ b.at \in Nat \ {0}
    /\ b.signal = "metrics" => MetricsFit(b.resources)
    /\ b.signal = "logs" => LogsFit(b.resources)

(* What the properties ask of one operation.                               *)
IntervalsFit(op) ==
  /\ op.start <= op.end
  /\ \A i \in DOMAIN op.values :
       /\ op.start <= op.values[i].start
       /\ IntervalFits(Temporality(op.metric), op.metric.points[i], op.values[i])

DistributionFits(op) ==
  op.metric.type = "Histogram" =>
    \A i \in DOMAIN op.values :
      LET d == op.values[i].value
      IN /\ \A b \in DOMAIN d.buckets : d.buckets[b] >= 0
         /\ d.count > 0 => SumOf(d.buckets) = d.count
         /\ d.count = 0 => d.mean = <<0, 1>> /\ d.squares = <<0, 1>>

EntriesFit(op) ==
  LET records == Records(op.source)
  IN /\ Len(op.entries) = Len(records)
     /\ \A i \in DOMAIN records :
          /\ op.entries[i].name # NoName
          /\ op.entries[i].name = Blank => records[i].logName = Blank
          /\ op.entries[i].time # 0
          /\ records[i].time # 0 => op.entries[i].time = records[i].time
          /\ records[i].body.size > 0 => op.entries[i].payload # "none"

(* The interval made for one point (exporter.go:359-398).                  *)
LEMMA TimesFit ==
  ASSUME NEW aggr \in Temporalities, NEW p, PointFits(p), NEW t,
         t = getStartEndTimes(aggr, p.start, p.end)
  PROVE  t.start \in Nat /\ IntervalFits(aggr, p, t)
<1> DEFINE given == p.start # 0 /\ p.start # p.end
<1>1. p.start \in Nat /\ p.end \in Nat \ {0}
  BY DEF PointFits
<1>2. CASE aggr = "Unspecified"
  <2>1. t.start = p.end /\ t.end = p.end
    BY <1>2 DEF getStartEndTimes
  <2> QED
    BY <1>1, <1>2, <2>1 DEF IntervalFits
<1>3. CASE aggr # "Unspecified" /\ given
  <2>1. t.start = p.start /\ t.end = p.end
    BY <1>3 DEF getStartEndTimes
  <2>2. t.start < t.end \/ p.start > p.end
    BY <1>1, <1>3, <2>1
  <2> QED
    BY <1>1, <1>3, <2>1, <2>2 DEF IntervalFits
<1>4. CASE aggr = "Cumulative" /\ ~given
  <2>1. t.start = StartedAt /\ t.end = p.end
    BY <1>4 DEF getStartEndTimes
  <2>2. StartedAt \in Nat
    BY ReportAssumption
  <2>3. t.start < t.end \/ p.end <= StartedAt
    BY <1>1, <2>1, <2>2
  <2>4. p.start \in {0, p.end}
    BY <1>4
  <2> QED
    BY <1>4, <2>1, <2>2, <2>3, <2>4 DEF IntervalFits
<1>5. CASE aggr = "Delta" /\ ~given
  <2>1. t.start = p.end - 1 /\ t.end = p.end
    BY <1>5 DEF getStartEndTimes
  <2>2. t.start \in Nat /\ t.start < t.end
    BY <1>1, <2>1
  <2> QED
    BY <1>5, <2>2 DEF IntervalFits
<1> QED
  BY <1>2, <1>3, <1>4, <1>5 DEF Temporalities

LEMMA ValueFits ==
  ASSUME NEW aggr \in Temporalities, NEW p, PointFits(p), NEW value, NEW v,
         v = MetricValue(aggr, p, value)
  PROVE  v.start \in Nat /\ IntervalFits(aggr, p, v)
<1>1. PICK t : t = getStartEndTimes(aggr, p.start, p.end)
  OBVIOUS
<1>2. v.start = t.start /\ v.end = t.end
  BY <1>1 DEF MetricValue
<1>3. t.start \in Nat /\ IntervalFits(aggr, p, t)
  BY <1>1, TimesFit
<1> QED
  BY <1>2, <1>3 DEF IntervalFits

(* A gauge's points are taken for points in time whatever their start.     *)
LEMMA ValuesFit ==
  ASSUME NEW m, MetricFits(m), NEW values, values = createMetricValueSet(m),
         NEW i \in DOMAIN values
  PROVE  values[i].start \in Nat /\ IntervalFits(Temporality(m), m.points[i], values[i])
<1>1. /\ m.type \in {"Gauge", "Sum", "Histogram", "Other"} /\ m.aggr \in Temporalities
      /\ \A k \in DOMAIN m.points : PointFits(m.points[k])
  BY DEF MetricFits
<1>2. CASE m.type = "Gauge"
  <2>1. values = [k \in DOMAIN m.points |-> MetricValue("Unspecified", m.points[k], m.points[k].value)]
    BY <1>2 DEF createMetricValueSet, createNumericMetricValues
  <2>2. i \in DOMAIN m.points /\ values[i] = MetricValue("Unspecified", m.points[i], m.points[i].value)
    BY <2>1
  <2>3. PointFits(m.points[i])
    BY <1>1, <2>2 DEF PointFits
  <2>4. "Unspecified" \in Temporalities
    BY DEF Temporalities
  <2>5. Temporality(m) = "Unspecified"
    BY <1>2 DEF Temporality
  <2> QED
    BY <2>2, <2>3, <2>4, <2>5, ValueFits
<1>3. CASE m.type = "Sum"
  <2>1. values = [k \in DOMAIN m.points |-> MetricValue(m.aggr, m.points[k], m.points[k].value)]
    BY <1>3 DEF createMetricValueSet, createNumericMetricValues
  <2>2. i \in DOMAIN m.points /\ values[i] = MetricValue(m.aggr, m.points[i], m.points[i].value)
    BY <2>1
  <2>3. Temporality(m) = m.aggr
    BY <1>3 DEF Temporality
  <2> QED
    BY <1>1, <2>2, <2>3, ValueFits
<1>4. CASE m.type = "Histogram"
  <2>1. values = [k \in DOMAIN m.points |->
                    MetricValue(m.aggr, m.points[k], translateDistributionValue(m.points[k]))]
    BY <1>4 DEF createMetricValueSet, createHistogramMetricValues
  <2>2. /\ i \in DOMAIN m.points
        /\ values[i] = MetricValue(m.aggr, m.points[i], translateDistributionValue(m.points[i]))
    BY <2>1
  <2>3. Temporality(m) = m.aggr
    BY <1>4 DEF Temporality
  <2> QED
    BY <1>1, <2>2, <2>3, ValueFits
<1>5. CASE m.type = "Other"
  <2>1. values = <<>>
    BY <1>5 DEF createMetricValueSet
  <2> QED
    BY <2>1
<1> QED
  BY <1>1, <1>2, <1>3, <1>4, <1>5

(* The counts of a histogram's value (exporter.go:475-542).  A count that  *)
(* is no int64 is cast to a negative one, never to 0.                      *)
LEMMA CountsCast ==
  ASSUME NEW p, CountsFit(p), NEW d, d = translateDistributionValue(p)
  PROVE  /\ \A b \in DOMAIN d.buckets : d.buckets[b] >= 0
         /\ d.count > 0 => SumOf(d.buckets) = d.count
         /\ d.count = 0 => d.mean = <<0, 1>> /\ d.squares = <<0, 1>>
<1>1. /\ p.count \in 0..(2 * MaxInt64 + 1) /\ MaxInt64 \in Nat
      /\ p.buckets \in Seq(0..p.count) /\ SumOf(p.buckets) = p.count
  BY ReportAssumption DEF CountsFit
<1>2. /\ d.count = IF p.count > MaxInt64 THEN p.count - 2 * (MaxInt64 + 1) ELSE p.count
      /\ d.buckets = toInt64Slice(p.buckets)
  BY DEF translateDistributionValue
<1>3. p.count = 0 => d.mean = <<0, 1>> /\ d.squares = <<0, 1>>
  <2> SUFFICES ASSUME p.count = 0 PROVE d.mean = <<0, 1>> /\ d.squares = <<0, 1>>
    OBVIOUS
  <2>1. ~ (p.count > 0)
    OBVIOUS
  <2> QED
    BY <2>1 DEF translateDistributionValue
<1>4. \A b \in DOMAIN p.buckets : p.buckets[b] \in 0..p.count
  BY <1>1
<1>5. \A b \in DOMAIN d.buckets :
        /\ b \in DOMAIN p.buckets
        /\ d.buckets[b] = IF p.buckets[b] > MaxInt64 THEN MaxInt64 ELSE p.buckets[b]
  BY <1>2 DEF toInt64Slice
<1>6. ASSUME NEW b \in DOMAIN d.buckets PROVE d.buckets[b] >= 0
  <2>1. p.buckets[b] \in Nat
    BY <1>1, <1>4, <1>5
  <2>2. d.buckets[b] = IF p.buckets[b] > MaxInt64 THEN MaxInt64 ELSE p.buckets[b]
    BY <1>5
  <2> QED
    BY <1>1, <2>1, <2>2
<1>7. ASSUME d.count > 0 PROVE SumOf(d.buckets) = d.count
  <2>1. p.count <= MaxInt64 /\ d.count = p.count
    BY <1>1, <1>2, <1>7
  <2>2. d.buckets = p.buckets
    <3>1. \A b \in DOMAIN p.buckets : ~ (p.buckets[b] > MaxInt64)
      BY <1>1, <1>4, <2>1
    <3>2. d.buckets = [b \in DOMAIN p.buckets |-> p.buckets[b]]
      BY <1>2, <3>1 DEF toInt64Slice
    <3> QED
      BY <1>1, <3>2
  <2> QED
    BY <1>1, <2>1, <2>2
<1>8. d.count = 0 => p.count = 0
  BY <1>1, <1>2
<1> QED
  BY <1>3, <1>6, <1>7, <1>8

LEMMA HistogramFits ==
  ASSUME NEW resource, NEW m, MetricFits(m), NEW at, NEW op, op = createOperation(resource, m, at)
  PROVE  DistributionFits(op)
<1>1. op.values = createMetricValueSet(m) /\ op.metric = m
  BY DEF createOperation
<1> SUFFICES ASSUME m.type = "Histogram"
             PROVE  \A i \in DOMAIN op.values :
                      LET d == op.values[i].value
                      IN /\ \A b \in DOMAIN d.buckets : d.buckets[b] >= 0
                         /\ d.count > 0 => SumOf(d.buckets) = d.count
                         /\ d.count = 0 => d.mean = <<0, 1>> /\ d.squares = <<0, 1>>
  BY <1>1 DEF DistributionFits
<1>2. op.values = [k \in DOMAIN m.points |->
                     MetricValue(m.aggr, m.points[k], translateDistributionValue(m.points[k]))]
  BY <1>1 DEF createMetricValueSet, createHistogramMetricValues
<1>3. ASSUME NEW i \in DOMAIN op.values
      PROVE  /\ CountsFit(m.points[i])
             /\ op.values[i].value = translateDistributionValue(m.points[i])
  <2>1. i \in DOMAIN m.points
        /\ op.values[i] = MetricValue(m.aggr, m.points[i], translateDistributionValue(m.points[i]))
    BY <1>2
  <2>2. CountsFit(m.points[i])
    BY <2>1 DEF MetricFits
  <2> QED
    BY <2>1, <2>2 DEF MetricValue
<1> QED
  BY <1>3, CountsCast

(* The operation starts with the earliest of its values (exporter.go:320). *)
LEMMA OperationFits ==
  ASSUME NEW resource, NEW m, MetricFits(m), NEW at \in Nat, NEW op,
         op = createOperation(resource, m, at)
  PROVE  IntervalsFit(op)
<1>1. PICK values : values = createMetricValueSet(m)
  OBVIOUS
<1> DEFINE starts == {at} \cup {values[i].start : i \in DOMAIN values}
<1>2. op.values = values /\ op.metric = m /\ op.end = at /\ op.start = Min(starts)
  BY <1>1 DEF createOperation
<1>3. ASSUME NEW i \in DOMAIN values
      PROVE  values[i].start \in Nat /\ IntervalFits(Temporality(m), m.points[i], values[i])
  BY <1>1, ValuesFit
<1>4. starts \subseteq Nat /\ starts # {}
  BY <1>3
<1>5. at \in starts /\ \A i \in DOMAIN values : values[i].start \in starts
  OBVIOUS
<1> HIDE DEF starts
<1>6. \E least \in starts : \A n \in starts : least <= n
  BY <1>4, LeastNumber
<1>7. \A n \in starts : Min(starts) <= n
  BY Zenon, <1>6 DEF Min
<1>8. op.start <= op.end
  BY <1>2, <1>5, <1>7
<1>9. ASSUME NEW i \in DOMAIN values PROVE op.start <= values[i].start
  BY <1>2, <1>5, <1>7
<1> QED
  BY <1>2, <1>3, <1>8, <1>9 DEF IntervalsFit

(* However many resources and metrics, each operation is one of theirs.    *)
LEMMA MetricOperationsFit ==
  ASSUME NEW rms, MetricsFit(rms), NEW at \in Nat, NEW ops, ops = MetricOperations(rms, at)
  PROVE  /\ \E X : ops \in Seq(X)
         /\ \A op \in Range(ops) : IntervalsFit(op) /\ DistributionFits(op)
<1> DEFINE Of(i, k) == createOperation(parseResourceAttributes(rms[i].resource), rms[i].metrics[k], at)
           parts == [i \in DOMAIN rms |-> [k \in DOMAIN rms[i].metrics |-> Of(i, k)]]
           X == UNION {{Of(i, k) : k \in DOMAIN rms[i].metrics} : i \in DOMAIN rms}
<1>1. ASSUME NEW op \in X PROVE IntervalsFit(op) /\ DistributionFits(op)
  <2>1. PICK i \in DOMAIN rms : \E k \in DOMAIN rms[i].metrics : op = Of(i, k)
    OBVIOUS
  <2>2. PICK k \in DOMAIN rms[i].metrics : op = Of(i, k)
    BY <2>1
  <2>3. MetricFits(rms[i].metrics[k])
    BY DEF MetricsFit
  <2> QED
    BY <2>2, <2>3, OperationFits, HistogramFits
<1>2. ASSUME NEW i \in DOMAIN rms PROVE parts[i] \in Seq(X)
  <2>1. PICK n \in Nat : DOMAIN rms[i].metrics = 1..n
    BY DEF MetricsFit, Slice
  <2>2. \A k \in DOMAIN rms[i].metrics : Of(i, k) \in X
    OBVIOUS
  <2>3. parts[i] = [k \in 1..n |-> Of(i, k)]
    BY <2>1
  <2> HIDE DEF X, parts, Of
  <2>4. parts[i] \in [1..n -> X]
    BY <2>1, <2>2, <2>3
  <2> QED
    BY <2>4
<1>3. parts \in Seq(Seq(X))
  <2>1. PICK n \in Nat : DOMAIN rms = 1..n
    BY DEF MetricsFit, Slice
  <2>2. DOMAIN parts = DOMAIN rms /\ parts = [i \in DOMAIN rms |-> parts[i]]
    OBVIOUS
  <2> HIDE DEF X, parts
  <2>3. parts \in [1..n -> Seq(X)]
    BY <1>2, <2>1, <2>2
  <2> QED
    BY <2>3
<1>4. ops = FlattenSeq(parts)
  BY DEF MetricOperations
<1> HIDE DEF X, parts
<1>5. ops \in Seq(X)
  BY <1>3, <1>4, FlattenSeqType
<1>6. \A k \in DOMAIN ops : ops[k] \in X
  BY <1>5
<1>7. \A op \in Range(ops) : op \in X
  BY <1>6 DEF Range
<1> QED
  BY <1>1, <1>5, <1>7

(* When no record is unfit there is an entry for each (logs.go:217-240).   *)
LEMMA EntriesOfAll ==
  ASSUME NEW rl, NEW X, rl.scopes \in Seq(Seq(X)), NEW at, at # 0,
         ~createEntries(rl, at).failed, NEW op, op = createRequestOperation(rl, at)
  PROVE  EntriesFit(op)
<1>1. PICK records : records = Records(rl)
  OBVIOUS
<1>2. records \in Seq(X)
  BY <1>1, FlattenSeqType DEF Records
<1>3. \A i \in DOMAIN records : ~Unparseable(records[i])
  BY <1>1 DEF createEntries
<1> DEFINE Of(i) == parseLogEntry(records[i], at)
           all == [i \in 1..Len(records) |-> Of(i)]
           E == {Of(i) : i \in 1..Len(records)}
<1>4. DOMAIN records = 1..Len(records) /\ Len(records) \in Nat
  BY <1>2
<1>5. all \in Seq(E) /\ Len(all) = Len(records) /\ \A i \in 1..Len(records) : all[i] = Of(i)
  <2>1. all \in [1..Len(records) -> E]
    OBVIOUS
  <2> HIDE DEF E, Of
  <2> QED
    BY <1>4, <2>1
<1>6. op.source = rl
      /\ op.entries = FlattenSeq([i \in DOMAIN records |->
           IF Unparseable(records[i]) THEN <<>> ELSE <<Of(i)>>])
  BY <1>1 DEF createRequestOperation, createEntries
<1>7. [i \in DOMAIN records |-> IF Unparseable(records[i]) THEN <<>> ELSE <<Of(i)>>]
        = [i \in 1..Len(all) |-> <<all[i]>>]
  BY <1>3, <1>4, <1>5
<1> HIDE DEF all, E
<1>8. op.entries = all
  BY <1>5, <1>6, <1>7, FlattenSingletons
<1>9. ASSUME NEW i \in DOMAIN records
      PROVE  /\ Of(i).name # NoName
             /\ Of(i).name = Blank => records[i].logName = Blank
             /\ Of(i).time # 0
             /\ records[i].time # 0 => Of(i).time = records[i].time
             /\ records[i].body.size > 0 => Of(i).payload # "none"
  <2> DEFINE r == records[i]
  <2>0. ~Unparseable(r)
    BY <1>3
  <2>1. Of(i).name = getLogName(r) /\ (getLogName(r) = Blank => r.logName = Blank)
    BY <2>0 DEF parseLogEntry, Unparseable, NameMissing, getLogName
  <2>2. getLogName(r) # NoName
    BY ReportAssumption DEF getLogName
  <2>3. Of(i).time = EntryTime(r, at)
    BY DEF parseLogEntry
  <2>4. EntryTime(r, at) # 0 /\ (r.time # 0 => EntryTime(r, at) = r.time)
    BY DEF EntryTime
  <2>5. Of(i).payload = IF Structured(r.body) THEN "struct"
                        ELSE IF r.body.size = 0 THEN "none" ELSE "text"
    BY DEF parseLogEntry
  <2>6. r.body.size > 0 => r.body.size # 0
    OBVIOUS
  <2> HIDE DEF r, Of
  <2>7. r.body.size > 0 => Of(i).payload # "none"
    BY <2>5, <2>6
  <2>8. /\ Of(i).name # NoName /\ (Of(i).name = Blank => r.logName = Blank) /\ Of(i).time # 0
        /\ r.time # 0 => Of(i).time = r.time
    BY <2>1, <2>2, <2>3, <2>4
  <2> QED
    BY <2>7, <2>8 DEF r
<1> HIDE DEF Of
<1>10. Len(op.entries) = Len(records) /\ \A i \in DOMAIN records : op.entries[i] = Of(i)
  BY <1>4, <1>5, <1>8
<1>11. Records(op.source) = records
  BY <1>1, <1>6
<1> QED
  BY <1>9, <1>10, <1>11 DEF EntriesFit

LEMMA LogOperationsFit ==
  ASSUME NEW rls, LogsFit(rls), NEW at, at # 0, ~LogRequestFails(rls, at),
         NEW ops, ops = LogOperations(rls, at)
  PROVE  /\ \E X : ops \in Seq(X)
         /\ \A op \in Range(ops) : EntriesFit(op)
<1> DEFINE X == {createRequestOperation(rls[i], at) : i \in DOMAIN rls}
<1>1. PICK n \in Nat : DOMAIN rls = 1..n
  BY DEF LogsFit, Slice
<1>2. ops \in Seq(X)
  <2>1. ops = [i \in DOMAIN rls |-> createRequestOperation(rls[i], at)]
    BY DEF LogOperations
  <2>2. ops \in [1..n -> X]
    BY <1>1, <2>1
  <2> HIDE DEF X
  <2> QED
    BY <2>2
<1>3. ASSUME NEW op \in Range(ops) PROVE EntriesFit(op)
  <2>1. PICK i \in DOMAIN rls : op = createRequestOperation(rls[i], at)
    BY DEF LogOperations, Range
  <2>2. ~createEntries(rls[i], at).failed
    BY DEF LogRequestFails
  <2>3. PICK Y : rls[i].scopes \in Seq(Seq(Y))
    BY DEF LogsFit
  <2> QED
    BY <2>1, <2>2, <2>3, EntriesOfAll
<1> QED
  BY <1>2, <1>3

-----------------------------------------------------------------------------
(* What has been sent fits, and so does what an attempt adds.              *)
OperationsFit(r) ==
  \A op \in Range(r.operations) :
    /\ batch.signal = "metrics" => IntervalsFit(op) /\ DistributionFits(op)
    /\ batch.signal = "logs" => EntriesFit(op)

ReportInv ==
  /\ batch \in Batches /\ clock \in Nat \ {0}
  /\ \E R : sent \in Seq(R)
  /\ \A i \in DOMAIN sent : OperationsFit(sent[i])

LEMMA PushFits ==
  ASSUME ReportInv, NEW ops, Push(ops), UNCHANGED batch,
         \A op \in Range(ops) : /\ batch.signal = "metrics" => IntervalsFit(op) /\ DistributionFits(op)
                                /\ batch.signal = "logs" => EntriesFit(op)
  PROVE  /\ \E R : sent' \in Seq(R)
         /\ \A i \in DOMAIN sent' : OperationsFit(sent'[i])
<1>1. \A i \in DOMAIN sent : OperationsFit(sent[i])
  BY DEF ReportInv
<1>2. PICK R : sent \in Seq(R)
  BY DEF ReportInv
<1>3. OperationsFit(Request(ops))
  BY DEF OperationsFit, Request
<1>4. CASE ops = <<>>
  <2>1. sent' = sent
    BY <1>4 DEF Push
  <2> QED
    BY <1>1, <1>2, <2>1
<1>5. CASE ops # <<>>
  <2>1. sent' = Append(sent, Request(ops))
    BY <1>5 DEF Push
  <2>2. sent \in Seq(R \cup {Request(ops)})
    BY <1>2
  <2>3. sent' \in Seq(R \cup {Request(ops)})
    BY <2>1, <2>2
  <2>4. \A i \in DOMAIN sent' : \/ (i \in DOMAIN sent /\ sent'[i] = sent[i])
                                \/ sent'[i] = Request(ops)
    BY <2>1, <2>2
  <2>5. \A i \in DOMAIN sent' : OperationsFit(sent'[i])
    BY <1>1, <1>3, <2>4
  <2> QED
    BY <2>3, <2>5
<1> QED
  BY <1>4, <1>5

LEMMA ReportStep ==
  ASSUME BatchesFit, ReportInv, [ReportNext]_reportVars
  PROVE  ReportInv'
<1>0. batch' = batch
  BY DEF ReportNext, ConsumeMetrics, ConsumeLogs, ReportTick, reportVars
<1> DEFINE Kept == /\ \E R : sent' \in Seq(R)
                   /\ \A i \in DOMAIN sent' : OperationsFit(sent'[i])
<1>1. clock' \in Nat \ {0} /\ Kept => ReportInv'
  <2>1. \A r : OperationsFit(r) => (\A op \in Range(r.operations) :
          /\ batch'.signal = "metrics" => IntervalsFit(op) /\ DistributionFits(op)
          /\ batch'.signal = "logs" => EntriesFit(op))
    BY <1>0 DEF OperationsFit
  <2>2. batch' \in Batches
    BY <1>0 DEF ReportInv
  <2> QED
    BY <2>1, <2>2 DEF ReportInv, OperationsFit
<1>2. /\ batch \in Batches /\ clock \in Nat \ {0}
      /\ batch.signal = "metrics" => MetricsFit(batch.resources)
      /\ batch.signal = "logs" => LogsFit(batch.resources)
  BY DEF ReportInv, BatchesFit
<1>3. CASE ConsumeMetrics
  <2> DEFINE ops == MetricOperations(batch.resources, clock)
  <2>1. batch.signal = "metrics" /\ Push(ops) /\ UNCHANGED <<batch, clock>>
    BY <1>3 DEF ConsumeMetrics
  <2>2. \A op \in Range(ops) : IntervalsFit(op) /\ DistributionFits(op)
    BY <1>2, <2>1, MetricOperationsFit
  <2>3. batch.signal # "logs"
    BY <2>1
  <2> HIDE DEF ops
  <2>4. Kept
    BY <2>1, <2>2, <2>3, PushFits
  <2> QED
    BY <1>1, <1>2, <2>1, <2>4
<1>4. CASE ConsumeLogs
  <2> DEFINE ops == LogOperations(batch.resources, clock)
  <2>1. batch.signal = "logs" /\ UNCHANGED <<batch, clock>>
    BY <1>4 DEF ConsumeLogs
  <2>2. CASE LogRequestFails(batch.resources, clock)
    <3>1. UNCHANGED sent
      BY <1>4, <2>2 DEF ConsumeLogs
    <3> QED
      BY <2>1, <3>1 DEF ReportInv, OperationsFit, IntervalsFit, DistributionFits, EntriesFit
  <2>3. CASE ~LogRequestFails(batch.resources, clock)
    <3>1. Push(ops)
      BY <1>4, <2>3 DEF ConsumeLogs
    <3>2. \A op \in Range(ops) : EntriesFit(op)
      BY <1>2, <2>1, <2>3, LogOperationsFit
    <3>3. batch.signal # "metrics"
      BY <2>1
    <3> HIDE DEF ops
    <3>4. Kept
      BY <2>1, <3>1, <3>2, <3>3, PushFits
    <3> QED
      BY <1>1, <1>2, <2>1, <3>4
  <2> QED
    BY <2>2, <2>3
<1>5. CASE ReportTick
  <2>1. clock' = clock + 1 /\ UNCHANGED <<batch, sent>>
    BY <1>5 DEF ReportTick
  <2> QED
    BY <1>2, <2>1 DEF ReportInv, OperationsFit, IntervalsFit, DistributionFits, EntriesFit
<1>6. CASE UNCHANGED reportVars
  BY <1>6 DEF reportVars, ReportInv, OperationsFit, IntervalsFit, DistributionFits, EntriesFit
<1> QED
  BY <1>3, <1>4, <1>5, <1>6 DEF ReportNext

LEMMA ReportsFit ==
  ASSUME BatchesFit
  PROVE  ReportSpec => []ReportInv
<1>1. ReportInit => ReportInv
  <2> SUFFICES ASSUME ReportInit PROVE ReportInv
    OBVIOUS
  <2>1. batch \in Batches /\ clock = batch.at /\ sent = <<>> /\ batch.at \in Nat \ {0}
    BY DEF ReportInit, BatchesFit
  <2>2. sent \in Seq({}) /\ DOMAIN sent = {}
    BY <2>1
  <2> QED
    BY <2>1, <2>2 DEF ReportInv
<1>2. ReportInv /\ [ReportNext]_reportVars => ReportInv'
  BY ReportStep
<1> QED
  BY <1>1, <1>2, PTL DEF ReportSpec

(* Every operation of a metrics request covers its values' starts up to    *)
(* now; the value of a gauge is of a point in time and that of a sum or    *)
(* histogram of an interval, made up when the point has no start           *)
(* (exporter.go:307-330 and 359-398), unless the point starts after its    *)
(* end or, without a start of its own, ends by the time the exporter       *)
(* started: for every batch that is like pdata's, however often it is      *)
(* handed over, and with no assumption about the times of its points.      *)
THEOREM IntervalsAlwaysFit ==
  ASSUME BatchesFit
  PROVE  ReportSpec => []IntervalsFitAPI
<1>1. ReportInv => IntervalsFitAPI
  BY DEF ReportInv, OperationsFit, IntervalsFit, IntervalsFitAPI, SentOperations
<1> QED
  BY <1>1, ReportsFit, PTL

(* A histogram's buckets are sent as no negative numbers that add up to    *)
(* the count while that is an int64, although buckets are capped one by    *)
(* one and the count is cast (exporter.go:475-542); an empty one has no    *)
(* mean and no deviation.                                                  *)
THEOREM DistributionsAlwaysFit ==
  ASSUME BatchesFit
  PROVE  ReportSpec => []DistributionFitsAPI
<1>1. ReportInv => DistributionFitsAPI
  BY DEF ReportInv, OperationsFit, DistributionFits, DistributionFitsAPI, SentOperations
<1> QED
  BY <1>1, ReportsFit, PTL

(* "one otel log will always be one log entry" (logs.go:251-253): a sent   *)
(* report has, for each record, in order, an entry with a time, a name,    *)
(* empty only if the record's is, and a payload if the record has a body,  *)
(* whatever the records of the batch.                                      *)
THEOREM NoLogLost ==
  ASSUME BatchesFit
  PROVE  ReportSpec => []LogEntriesFaithful
<1>1. ReportInv => LogEntriesFaithful
  BY DEF ReportInv, OperationsFit, EntriesFit, LogEntriesFaithful, SentOperations
<1> QED
  BY <1>1, ReportsFit, PTL
=============================================================================

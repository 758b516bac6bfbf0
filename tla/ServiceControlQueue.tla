-------------------------- MODULE ServiceControlQueue --------------------------
(***************************************************************************)
(* The sending queue, the retries and the timeouts of the                  *)
(* googleservicecontrol exporter, as factory.go sets them up: receivers    *)
(* put batches in a queue, consumers take them, and each attempt calls     *)
(* ConsumeMetrics or ConsumeLogs, which returns when pushReportRequest     *)
(* does.  The queue and the retry sender are exporterhelper's, outside the *)
(* repository.  All times are in seconds; timers count down.               *)
(***************************************************************************)
EXTENDS Integers, Sequences

CONSTANTS
  Streams,         \* the receivers of the pipeline
  Consumers,       \* NumConsumers goroutines
  QueueSize,
  Timeout,         \* TimeoutConfig of metrics, defaultTimeout
  LogTimeout,      \* LogConfig.TimeoutConfig
  Backoff,         \* InitialInterval = MaxInterval
  ScrapeInterval,  \* how often a receiver makes a batch
  Offsets,         \* when the receivers make the first one
  MaxBatches,      \* bound: batches of a receiver
  NoBatch

ASSUME QueueAssumption ==
  /\ QueueSize \in Nat \ {0} /\ Timeout \in Nat \ {0} /\ LogTimeout \in Nat \ {0}
  /\ Backoff \in Nat /\ ScrapeInterval \in Nat \ {0} /\ Offsets \subseteq Nat
  /\ MaxBatches \in Nat

Batch == Streams \X (1..MaxBatches)

VARIABLES
  signal,    \* "metrics" or "logs"
  due,       \* when each receiver makes its next batch
  made,      \* how many it has made
  bad,       \* the batches of logs with a record that makes no entry
  queue,     \* the sending queue, oldest first
  consumer,  \* what each consumer is at
  fate,      \* what became of each batch
  state,     \* "new", "failed", "running", "stopping" or "closed"
  client     \* Exporter.client: "none", "raw" or "library"

queueVars == <<signal, due, made, bad, queue, consumer, fate, state, client>>

Idle == [phase |-> "idle", batch |-> NoBatch, elapsed |-> 0, left |-> 0]

(* The settings that createClient reads.  complete: the service, the       *)
(* consumer and the endpoint are given; raw: UseRawServiceControlClient is *)
(* "true", in any case and with any spaces around it.                      *)
Configs == [complete : BOOLEAN, insecure : BOOLEAN, raw : BOOLEAN, impersonate : BOOLEAN]

QueueTypeOK ==
  /\ signal \in {"metrics", "logs"}
  /\ due \in [Streams -> Nat] /\ made \in [Streams -> 0..MaxBatches]
  /\ bad \subseteq Batch
  /\ queue \in Seq(Batch) /\ Len(queue) <= QueueSize
  /\ consumer \in [Consumers -> [phase : {"idle", "sending", "waiting"},
                                 batch : Batch \cup {NoBatch}, elapsed : Nat, left : Nat]]
  /\ fate \in [Batch -> {"none", "pending", "accepted", "dropped", "rejected"}]
  /\ state \in {"new", "failed", "running", "stopping", "closed"}
  /\ client \in {"none", "raw", "library"}

(* A slip for the mutation runs: there is time for a second retry.         *)
MaxElapsedForTwo == 3 * Timeout + 2 * Backoff

(* createDefaultConfig: a metric may be sent again for twice the timeout   *)
(* and two seconds, a log is not sent again.                               *)
MaxElapsedTime == Timeout + Timeout + 2 * Backoff
RetryEnabled   == signal = "metrics"
TimeoutOf      == IF signal = "metrics" THEN Timeout ELSE LogTimeout

QueueInit ==
  /\ signal \in {"metrics", "logs"}
  /\ due \in [Streams -> Offsets]
  /\ made = [s \in Streams |-> 0]
  /\ bad = {} /\ queue = <<>>
  /\ consumer = [c \in Consumers |-> Idle]
  /\ fate = [b \in Batch |-> "none"]
  /\ state = "new" /\ client = "none"

Validate(cfg) == cfg.complete

(* Only an impersonated account can be refused: default credentials are    *)
(* looked up when they are used.                                           *)
AsksForCredentials(cfg) == ~cfg.insecure /\ cfg.raw /\ cfg.impersonate

(* createClient fails with its credentials; neither client connects yet,   *)
(* but the library looks for default credentials unless it needs none.     *)
ClientFails(cfg) == AsksForCredentials(cfg) \/ (~cfg.raw /\ ~cfg.insecure)

(* createMetricsExporter or createLogExporter, and Start.                  *)
Create(cfg, fails) ==
  /\ state = "new"
  /\ fails => ClientFails(cfg)
  /\ IF Validate(cfg) /\ ~fails
       THEN state' = "running" /\ client' = IF cfg.raw THEN "raw" ELSE "library"
       ELSE state' = "failed" /\ UNCHANGED client
  /\ UNCHANGED <<signal, due, made, bad, queue, consumer, fate>>

(* A receiver hands over a batch; a full queue refuses it.                 *)
Scrape(s, isBad) ==
  LET b == <<s, made[s] + 1>>
  IN /\ state = "running" /\ due[s] = 0 /\ made[s] < MaxBatches
     /\ isBad => signal = "logs"
     /\ made' = [made EXCEPT ![s] = @ + 1]
     /\ due' = [due EXCEPT ![s] = ScrapeInterval]
     /\ bad' = IF isBad THEN bad \cup {b} ELSE bad
     /\ IF Len(queue) < QueueSize
          THEN queue' = Append(queue, b) /\ fate' = [fate EXCEPT ![b] = "pending"]
          ELSE fate' = [fate EXCEPT ![b] = "rejected"] /\ UNCHANGED queue
     /\ UNCHANGED <<signal, consumer, state, client>>

(* A consumer takes a batch and calls Consume, with a deadline.            *)
Take(c) ==
  /\ consumer[c] = Idle
  /\ queue # <<>>
  /\ queue' = Tail(queue)
  /\ consumer' = [consumer EXCEPT ![c] =
       [phase |-> "sending", batch |-> Head(queue), elapsed |-> 0, left |-> TimeoutOf]]
  /\ UNCHANGED <<signal, due, made, bad, fate, state, client>>

Settle(c, outcome) ==
  /\ fate' = [fate EXCEPT ![consumer[c].batch] = outcome]
  /\ consumer' = [consumer EXCEPT ![c] = Idle]

(* The retry sender: an error that is not permanent is tried again after   *)
(* the backoff, unless that would be later than MaxElapsedTime or the      *)
(* exporter stops.  On the second itself it may go either way.             *)
FailedAttempt(c) ==
  LET again == consumer[c].elapsed + Backoff
  IN \/ /\ RetryEnabled /\ state = "running" /\ again <= MaxElapsedTime
        /\ consumer' = [consumer EXCEPT ![c].phase = "waiting", ![c].left = Backoff]
        /\ UNCHANGED fate
     \/ /\ RetryEnabled /\ state = "running" => again >= MaxElapsedTime
        /\ Settle(c, "dropped")

Sending(c) == consumer[c].phase = "sending" /\ consumer[c].batch \notin bad

(* Report answers in time with a response, perhaps with ReportErrors.      *)
Accept(c) ==
  /\ Sending(c)
  /\ Settle(c, "accepted")
  /\ UNCHANGED <<signal, due, made, bad, queue, state, client>>

(* The answer is Unavailable.                                              *)
FailRetriable(c) ==
  /\ Sending(c)
  /\ FailedAttempt(c)
  /\ UNCHANGED <<signal, due, made, bad, queue, state, client>>

(* The answer is an error that NewPermanent marks: no retry.               *)
FailPermanent(c) ==
  /\ Sending(c)
  /\ Settle(c, "dropped")
  /\ UNCHANGED <<signal, due, made, bad, queue, state, client>>

(* A slip for the mutation runs: calls for logs have no deadline.          *)
ExpireMetric(c) ==
  /\ Sending(c) /\ consumer[c].left = 0 /\ signal = "metrics"
  /\ FailedAttempt(c)
  /\ UNCHANGED <<signal, due, made, bad, queue, state, client>>

(* No answer within the timeout (WithTimeout): DeadlineExceeded.           *)
Expire(c) ==
  /\ Sending(c) /\ consumer[c].left = 0
  /\ FailedAttempt(c)
  /\ UNCHANGED <<signal, due, made, bad, queue, state, client>>

(* createReportRequest fails: nothing is sent, and the error is not        *)
(* permanent.                                                              *)
FailToBuild(c) ==
  /\ consumer[c].phase = "sending" /\ consumer[c].batch \in bad
  /\ FailedAttempt(c)
  /\ UNCHANGED <<signal, due, made, bad, queue, state, client>>

(* The backoff is over: the batch is consumed again, with a new deadline.  *)
Resend(c) ==
  /\ consumer[c].phase = "waiting" /\ consumer[c].left = 0 /\ state = "running"
  /\ consumer' = [consumer EXCEPT ![c].phase = "sending", ![c].left = TimeoutOf]
  /\ UNCHANGED <<signal, due, made, bad, queue, fate, state, client>>

(* The collector stops the receivers, then the exporter's retry sender.    *)
Stop ==
  /\ state = "running"
  /\ state' = "stopping"
  /\ UNCHANGED <<signal, due, made, bad, queue, consumer, fate, client>>

(* A batch that waits for its retry is given up.                           *)
GiveUp(c) ==
  /\ state = "stopping" /\ consumer[c].phase = "waiting"
  /\ Settle(c, "dropped")
  /\ UNCHANGED <<signal, due, made, bad, queue, state, client>>

(* Exporter.Shutdown; a client whose Close fails is kept.  exporterhelper  *)
(* calls it when the queue is drained and its consumers have returned: an  *)
(* assumption about the library, that keeps nil from a consumer's hands.   *)
Shutdown(closes) ==
  /\ state = "stopping" /\ queue = <<>> /\ \A c \in Consumers : consumer[c] = Idle
  /\ state' = "closed"
  /\ client' = IF closes THEN "none" ELSE client
  /\ UNCHANGED <<signal, due, made, bad, queue, consumer, fate>>

(* Receivers, consumers and timers run within the second they are due.     *)
Prompt ==
  /\ state = "running" => \A s \in Streams : due[s] > 0 \/ made[s] = MaxBatches
  /\ queue # <<>> => \A c \in Consumers : consumer[c] # Idle
  /\ \A c \in Consumers :
       /\ consumer[c] # Idle => consumer[c].left > 0 /\ consumer[c].batch \notin bad
       /\ state = "stopping" => consumer[c].phase # "waiting"

QueueTick ==
  /\ state \in {"running", "stopping"}
  /\ Prompt
  /\ due' = [s \in Streams |-> IF due[s] = 0 THEN 0 ELSE due[s] - 1]
  /\ consumer' = [c \in Consumers |->
       IF consumer[c] = Idle THEN Idle
       ELSE [consumer[c] EXCEPT !.elapsed = @ + 1, !.left = @ - 1]]
  /\ UNCHANGED <<signal, made, bad, queue, fate, state, client>>

ConsumerStep(c) ==
  \/ Take(c) \/ Accept(c) \/ FailRetriable(c) \/ FailPermanent(c)
  \/ Expire(c) \/ FailToBuild(c) \/ Resend(c) \/ GiveUp(c)

QueueNext ==
  \/ \E cfg \in Configs, fails \in BOOLEAN : Create(cfg, fails)
  \/ \E s \in Streams, isBad \in BOOLEAN : Scrape(s, isBad)
  \/ \E c \in Consumers : ConsumerStep(c)
  \/ Stop
  \/ \E closes \in BOOLEAN : Shutdown(closes)
  \/ QueueTick

(* Time passes, receivers and consumers run, and a shutdown that was begun *)
(* goes on; that Report answers before its deadline is not assumed.        *)
QueueFairness ==
  /\ WF_queueVars(QueueTick)
  /\ WF_queueVars(\E s \in Streams, isBad \in BOOLEAN : Scrape(s, isBad))
  /\ WF_queueVars(\E closes \in BOOLEAN : Shutdown(closes))
  /\ \A c \in Consumers :
       WF_queueVars(Take(c) \/ Expire(c) \/ FailToBuild(c) \/ Resend(c) \/ GiveUp(c))

QueueSpec == QueueInit /\ [][QueueNext]_queueVars /\ QueueFairness

Settled(b) == fate[b] \in {"accepted", "dropped", "rejected"}

(***************************************************************************)
(* Properties.                                                             *)
(***************************************************************************)

(* A metric of a receiver is not sent before the one of the scrape before  *)
(* it is received or dropped (factory.go:102-106), although ten consumers  *)
(* send at once: by the time of the next scrape every retry has ended.     *)
Chronological ==
  signal = "metrics" => \A c \in Consumers : consumer[c].phase = "sending" =>
    \A n \in 1..(consumer[c].batch[2] - 1) : Settled(<<consumer[c].batch[1], n>>)

(* Whatever the service answers, and if it never does, each batch is       *)
(* accepted or given up, so that the queue (factory.go:110) moves on.      *)
EveryBatchSettled == \A b \in Batch : fate[b] = "pending" ~> Settled(b)
=============================================================================

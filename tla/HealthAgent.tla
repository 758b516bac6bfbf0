----------------------------- MODULE HealthAgent -----------------------------
(***************************************************************************)
(* The healthagent extension (healthagent.go): it receives the status      *)
(* events of every component, keeps the newest OK and the newest           *)
(* recoverable error, and answers GetHealth from these two and the clock.  *)
(***************************************************************************)
EXTENDS HealthConfig

Statuses == {"OK", "RecoverableError", "PermanentError", "FatalError"}
Watched  == {"OK", "RecoverableError"}
NoEvent  == 0        \* a nil *componentstatus.Event; events are stamped from 1 on

VARIABLES
  now,        \* time.Now()
  server,     \* the gRPC server: "new", "failed" (listen), "serving", "stopped"
  ready,      \* healthAgent.ready
  lastOK,     \* timestamp of healthAgent.lastOK
  lastError,  \* timestamp of healthAgent.lastError
  received    \* the timestamps of every event delivered so far, by status;
              \* the code keeps only two of them

agentVars == <<server, ready, lastOK, lastError, received>>
vars      == <<now, agentVars>>

Init ==
  /\ now = 1
  /\ server = "new"
  /\ ready = FALSE
  /\ lastOK = NoEvent
  /\ lastError = NoEvent
  /\ received = [status \in Watched |-> {}]

Tick ==
  /\ now < MaxTime
  /\ now' = now + 1
  /\ UNCHANGED agentVars

(* Without a listener the server stays nil.                                *)
startGRPCServer == server' \in {"serving", "failed"}

Start ==
  /\ server = "new"
  /\ startGRPCServer
  /\ UNCHANGED <<now, ready, lastOK, lastError, received>>

(* A nil server is left alone.                                             *)
Shutdown ==
  /\ server' = IF server = "serving" THEN "stopped" ELSE server
  /\ UNCHANGED <<now, ready, lastOK, lastError, received>>

Ready ==
  /\ ready' = TRUE
  /\ UNCHANGED <<now, server, lastOK, lastError, received>>

NotReady ==
  /\ ready' = FALSE
  /\ UNCHANGED <<now, server, lastOK, lastError, received>>

(* A slip for the mutation runs: the last event to arrive is kept.         *)
LatestArrival(last, ts) == ts

(* updateStatus: only a strictly newer event replaces the one kept.        *)
Updated(last, ts) == IF last = NoEvent \/ last < ts THEN ts ELSE last

(* Only OK and recoverable errors are kept, under mu.                      *)
ComponentStatusChanged(status, ts) ==
  /\ IF status \in Watched
     THEN /\ received'  = [received EXCEPT ![status] = @ \cup {ts}]
          /\ lastOK'    = IF status = "OK" THEN Updated(lastOK, ts) ELSE lastOK
          /\ lastError' = IF status = "OK" THEN lastError ELSE Updated(lastError, ts)
     ELSE UNCHANGED <<received, lastOK, lastError>>
  /\ UNCHANGED <<now, server, ready>>

(* Slips for the mutation runs: no comparison of error and OK, an interval *)
(* that is closed at both ends.                                            *)
HealthyAfterInterval ==
  /\ ready
  /\ lastError = NoEvent \/ (lastOK # NoEvent /\ ~(lastError + ErrorCheckInterval > now))

HealthyBeyondInterval ==
  /\ ready
  /\ \/ lastError = NoEvent
     \/ /\ lastOK # NoEvent
        /\ ~(lastError > lastOK)
        /\ ~(lastError + ErrorCheckInterval >= now)

(* The early returns of isHealthy, in order.                               *)
isHealthy ==
  /\ ready
  /\ \/ lastError = NoEvent
     \/ /\ lastOK # NoEvent
        /\ ~(lastError > lastOK)
        /\ ~(lastError + ErrorCheckInterval > now)

(* The answer over gRPC.                                                   *)
GetHealth == IF isHealthy THEN "HEALTHY" ELSE "UNHEALTHY"

(* An event is stamped when its component creates it and may arrive late.  *)
Next ==
  \/ Tick \/ Start \/ Shutdown \/ Ready \/ NotReady
  \/ \E status \in Statuses, ts \in 1 .. now : ComponentStatusChanged(status, ts)

Spec == Init /\ [][Next]_vars

-----------------------------------------------------------------------------
(* Every variable stays in its type; nil events are 0.                     *)
Time == Nat \ {0}

TypeOK ==
  /\ now \in Nat
  /\ server \in {"new", "failed", "serving", "stopped"}
  /\ ready \in BOOLEAN
  /\ lastOK \in Nat
  /\ lastError \in Nat
  /\ received \in [Watched -> SUBSET Time]

OKs    == received["OK"]
Errors == received["RecoverableError"]

(* What GetHealth promises, over everything that was ever delivered, in    *)
(* any order: healthy when the pipelines are ready and either no error was *)
(* seen, or an OK is at least as new as every error and no error lies in   *)
(* (now - ErrorCheckInterval, now] (factory.go:40).                        *)
Promised ==
  /\ ready
  /\ \/ Errors = {}
     \/ /\ \E ok \in OKs : \A err \in Errors : err <= ok
        /\ \A err \in Errors : err + ErrorCheckInterval <= now

(* The two timestamps the agent keeps answer as the whole history would,   *)
(* also when events arrive late and out of order.                          *)
HealthIsPromised == GetHealth = "HEALTHY" <=> Promised

(* Why: the timestamps kept are the newest ones.                           *)
Newest(last, times) ==
  \/ last = NoEvent /\ times = {}
  \/ last \in times /\ \A t \in times : t <= last

KeepsNewest == Newest(lastOK, OKs) /\ Newest(lastError, Errors)
=============================================================================

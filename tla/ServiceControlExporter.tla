------------------------ MODULE ServiceControlExporter ------------------------
(***************************************************************************)
(* pushReportRequest of the googleservicecontrol exporter (exporter.go),   *)
(* run by several goroutines at once: the debug header, the Report RPC and *)
(* the status reported to the host.  What each mutex guards is one action. *)
(* The failure counter only paces a log line and is left out; the error    *)
(* returned drives the retry queue, which is not part of this module.      *)
(***************************************************************************)
EXTENDS HealthConfig

(* What Report answers: a response, with or without ReportErrors for some  *)
(* of the operations, or an error with one of these codes.                 *)
Responses == {"Accepted", "PartlyRejected"}
Retriable == {"DeadlineExceeded", "Unavailable"}                \* shouldRetry
Permanent == {"PermissionDenied"}
Answers   == Responses \cup Retriable \cup Permanent

VARIABLES
  now,         \* nowFunc() and the timestamp of a new event
  client,      \* Exporter.client is not nil
  pc,          \* where each goroutine is in pushReportRequest
  header,      \* the request in flight carries the debug header
  sentAt,      \* when it was sent
  event,       \* the status event it created and did not report yet
  lastStatus,  \* Exporter.lastStatus
  debugUntil,  \* Exporter.debugHeaderExpirationTime
  failures     \* the times at which a call handled a retriable error

exporterVars == <<client, pc, header, sentAt, event, lastStatus, debugUntil, failures>>
vars == <<now, exporterVars>>

Statuses == {"None", "OK", "RecoverableError", "PermanentError"}
NoEvent  == [status |-> "None", ts |-> 0]

Init ==
  /\ now = 1
  /\ client = TRUE
  /\ pc = [w \in Workers |-> "idle"]
  /\ header = [w \in Workers |-> FALSE]
  /\ sentAt = [w \in Workers |-> 0]
  /\ event = [w \in Workers |-> NoEvent]
  /\ lastStatus = "None"
  /\ debugUntil = 0
  /\ failures = {}

Goto(w, from, to) == pc[w] = from /\ pc' = [pc EXCEPT ![w] = to]

Tick ==
  /\ now < MaxTime
  /\ now' = now + 1
  /\ UNCHANGED exporterVars

(* A slip for the mutation runs: the header is sent at the expiry, too.    *)
SendAtExpiry(w) ==
  /\ client
  /\ Goto(w, "idle", "rpc")
  /\ header' = [header EXCEPT ![w] = EnableDebugHeaders /\ now <= debugUntil]
  /\ sentAt' = [sentAt EXCEPT ![w] = now]
  /\ UNCHANGED <<now, client, event, lastStatus, debugUntil, failures>>

(* Lines 213-223: the header is decided under debugHeaderMutex, then the   *)
(* request goes out.                                                       *)
Send(w) ==
  /\ client
  /\ Goto(w, "idle", "rpc")
  /\ header' = [header EXCEPT ![w] = EnableDebugHeaders /\ now < debugUntil]
  /\ sentAt' = [sentAt EXCEPT ![w] = now]
  /\ UNCHANGED <<now, client, event, lastStatus, debugUntil, failures>>

StatusOf(answer) ==
  CASE answer \in Responses -> "OK"
    [] answer \in Retriable -> "RecoverableError"
    [] answer \in Permanent -> "PermanentError"

(* Lines 223-252: the answer is classified and its event stamped, before   *)
(* reportStatus takes statusMu.  Time passes between two answers, so that  *)
(* no two events have the same timestamp.                                  *)
Answer(w, answer) ==
  /\ Goto(w, "rpc", "report")
  /\ now < MaxTime
  /\ now' = now + 1
  /\ event' = [event EXCEPT ![w] = [status |-> StatusOf(answer), ts |-> now']]
  /\ header' = [header EXCEPT ![w] = FALSE]
  /\ sentAt' = [sentAt EXCEPT ![w] = 0]
  /\ UNCHANGED <<client, lastStatus, debugUntil, failures>>

(* reportStatus, under statusMu: only a change of status reaches the host. *)
Forwards(w) == lastStatus # event[w].status

(* Lines 230-231: a retriable error goes on to the debug header.           *)
AfterReport(w) ==
  IF event[w].status = "RecoverableError" /\ EnableDebugHeaders THEN "extend" ELSE "idle"

ReportStatus(w) ==
  /\ Goto(w, "report", AfterReport(w))
  /\ lastStatus' = IF Forwards(w) THEN event[w].status ELSE lastStatus
  /\ event' = [event EXCEPT ![w] = NoEvent]
  /\ UNCHANGED <<now, client, header, sentAt, debugUntil, failures>>

(* A slip for the mutation runs: the window is measured from its old end.  *)
ExtendFromExpiry(w) ==
  /\ Goto(w, "extend", "idle")
  /\ debugUntil' = IF now > debugUntil THEN debugUntil + DebugHeaderTimeout ELSE debugUntil
  /\ failures' = failures \cup {now}
  /\ UNCHANGED <<now, client, header, sentAt, event, lastStatus>>

(* Lines 231-238, under debugHeaderMutex: an open window is not extended.  *)
ExtendDebug(w) ==
  /\ Goto(w, "extend", "idle")
  /\ debugUntil' = IF now > debugUntil THEN now + DebugHeaderTimeout ELSE debugUntil
  /\ failures' = failures \cup {now}
  /\ UNCHANGED <<now, client, header, sentAt, event, lastStatus>>

(* The exporter helper drains its queue before it calls Shutdown; a Close  *)
(* that fails leaves the client in place.                                  *)
Shutdown ==
  /\ \A w \in Workers : pc[w] = "idle"
  /\ client' \in {FALSE, client}
  /\ UNCHANGED <<now, pc, header, sentAt, event, lastStatus, debugUntil, failures>>

Next ==
  \/ Tick \/ Shutdown
  \/ \E w \in Workers :
       \/ Send(w) \/ ReportStatus(w) \/ ExtendDebug(w)
       \/ \E answer \in Answers : Answer(w, answer)

Spec == Init /\ [][Next]_vars

-----------------------------------------------------------------------------
(* Every variable of the exporter stays in its type: the clocks and        *)
(* statuses of newExporter and pushReportRequest (exporter.go:121-255).    *)
TypeOK ==
  /\ now \in Nat
  /\ client \in BOOLEAN
  /\ pc \in [Workers -> {"idle", "rpc", "report", "extend"}]
  /\ header \in [Workers -> BOOLEAN]
  /\ sentAt \in [Workers -> Nat]
  /\ event \in [Workers -> [status: Statuses, ts: Nat]]
  /\ lastStatus \in Statuses
  /\ debugUntil \in Nat
  /\ failures \in SUBSET Nat

(* A request carries the debug header only if some goroutine handled a     *)
(* retriable error less than DebugHeaderTimeout before the request was     *)
(* sent (exporter.go:232), however the calls interleave.                   *)
DebugHeaderJustified ==
  \A w \in Workers : header[w] =>
    \E t \in failures : t <= sentAt[w] /\ sentAt[w] < t + DebugHeaderTimeout

(* The other direction: after a retriable error was handled, a request     *)
(* sent within DebugHeaderTimeout of it goes without the header only if an *)
(* older failure's window had been open and closed in between.             *)
DebugHeaderNotLost ==
  \A w \in Workers : pc[w] = "rpc" /\ ~header[w] =>
    \A t \in failures : t <= sentAt[w] /\ sentAt[w] < t + DebugHeaderTimeout =>
      \/ t = sentAt[w]
      \/ \E t0 \in failures : t0 <= t /\ t <= t0 + DebugHeaderTimeout
                               /\ t0 + DebugHeaderTimeout <= sentAt[w]
=============================================================================

--------------------------- MODULE HealthReporting ---------------------------
(***************************************************************************)
(* The path from an exporter's answer to the collector's health: several   *)
(* goroutines of ServiceControlExporter report status events to the host,  *)
(* which delivers them to HealthAgent.                                     *)
(***************************************************************************)
EXTENDS HealthConfig

VARIABLES
  now,
  client, pc, header, sentAt, event, lastStatus, debugUntil, failures,
  server, ready, lastOK, lastError, received,
  hostStuck,    \* the host was told of a permanent error
  errorTimes,   \* when the exporter got its retriable errors
  crossed       \* two goroutines had an event to report at the same time

Exporter == INSTANCE ServiceControlExporter
Agent    == INSTANCE HealthAgent

exporterVars == <<client, pc, header, sentAt, event, lastStatus, debugUntil, failures>>
agentVars    == <<server, ready, lastOK, lastError, received>>
history      == <<hostStuck, errorTimes, crossed>>
vars         == <<now, exporterVars, agentVars, history>>

Init ==
  /\ Exporter!Init
  /\ Agent!Init
  /\ hostStuck = FALSE
  /\ errorTimes = {}
  /\ crossed = FALSE

(* The host's side of componentstatus.ReportStatus: it hands an event to   *)
(* every extension that watches.  It takes a permanent error for final and *)
(* may drop what comes after one.                                          *)
Deliver(ev) ==
  \/ Agent!ComponentStatusChanged(ev.status, ev.ts)
  \/ hostStuck /\ UNCHANGED agentVars

ReportStatus(w) ==
  /\ Exporter!ReportStatus(w)
  /\ IF Exporter!Forwards(w)
     THEN /\ Deliver(event[w])
          /\ hostStuck' = (hostStuck \/ event[w].status = "PermanentError")
     ELSE UNCHANGED <<agentVars, hostStuck>>
  /\ UNCHANGED <<errorTimes, crossed>>

Answer(w, answer) ==
  /\ Exporter!Answer(w, answer)
  /\ errorTimes' = errorTimes \cup (IF answer \in Exporter!Retriable THEN {now'} ELSE {})
  /\ crossed' = (crossed \/ \E v \in Workers : pc[v] = "report")
  /\ UNCHANGED <<agentVars, hostStuck>>

ExporterStep ==
  \/ Exporter!Shutdown
  \/ \E w \in Workers : Exporter!Send(w) \/ Exporter!ExtendDebug(w)

(* The host reports every component it started as OK before the exporter's *)
(* own first event.                                                        *)
ReportStarted ==
  /\ lastStatus = "None"
  /\ \A w \in Workers : event[w] = Exporter!NoEvent
  /\ Agent!ComponentStatusChanged("OK", now)
  /\ UNCHANGED <<exporterVars, history>>

AgentStep == Agent!Start \/ Agent!Shutdown \/ Agent!Ready \/ Agent!NotReady

Next ==
  \/ ReportStarted
  \/ Exporter!Tick /\ UNCHANGED <<agentVars, history>>
  \/ ExporterStep /\ UNCHANGED <<agentVars, history>>
  \/ AgentStep /\ UNCHANGED <<exporterVars, history>>
  \/ \E w \in Workers : \/ ReportStatus(w)
                        \/ \E answer \in Exporter!Answers : Answer(w, answer)

Spec == Init /\ [][Next]_vars

-----------------------------------------------------------------------------
Healthy == Agent!GetHealth = "HEALTHY"

(* While the exporter's last status is a retriable error, the collector is *)
(* unhealthy (exporter.go:229, "ReportStatus tells health check that we    *)
(* had a retriable error").                                                *)
ErrorShown ==
  ready /\ ~hostStuck /\ lastStatus = "RecoverableError" => ~Healthy

(* The same, as long as no two goroutines had an answer to report at the   *)
(* same time (exporter.go:229).                                            *)
ErrorShownInTurn == ~crossed => ErrorShown

(* In turn, too: while the exporter's last status is OK and its last error *)
(* is older than the interval, the collector is healthy (exporter.go:251,  *)
(* "ReportStatus tells health check that everything is OK").               *)
RecoveryShownInTurn ==
  ~crossed /\ ready /\ ~hostStuck /\ lastStatus = "OK"
    /\ (\A t \in errorTimes : t + ErrorCheckInterval <= now)
  => Healthy

(* The agent keeps two timestamps of all the events it gets, and they      *)
(* answer as the whole history would, also when the goroutines' events     *)
(* arrive out of order (healthagent.go:103).                                *)
HealthIsPromised == Agent!HealthIsPromised

(* A request carries the debug header only after a retriable error of some *)
(* goroutine in the last DebugHeaderTimeout (exporter.go:232).             *)
DebugHeaderJustified == Exporter!DebugHeaderJustified

(* After a retriable error the header is not left out, unless an older     *)
(* error's window was open at that time and has closed (exporter.go:234).  *)
DebugHeaderNotLost == Exporter!DebugHeaderNotLost
=============================================================================

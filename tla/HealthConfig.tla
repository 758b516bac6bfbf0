----------------------------- MODULE HealthConfig -----------------------------
(***************************************************************************)
(* The settings of the googleservicecontrol exporter and of the            *)
(* healthagent extension that their modules and their composition share.   *)
(***************************************************************************)
EXTENDS Naturals

CONSTANTS
  Workers,             \* goroutines that call ConsumeMetrics or ConsumeLogs
  EnableDebugHeaders,  \* Config.EnableDebugHeaders of the exporter
  DebugHeaderTimeout,  \* debugHeaderTimeoutMinutes of the exporter
  ErrorCheckInterval,  \* Config.ErrorCheckInterval of the health agent
  MaxTime              \* bound on the clock

ASSUME IntervalAssumption == ErrorCheckInterval \in Nat
ASSUME TimeAssumption == MaxTime \in Nat
ASSUME DebugAssumption == EnableDebugHeaders \in BOOLEAN /\ DebugHeaderTimeout \in Nat
=============================================================================

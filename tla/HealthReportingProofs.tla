------------------------ MODULE HealthReportingProofs ------------------------
(***************************************************************************)
(* As long as no two goroutines of the exporter have an event to report at *)
(* the same time, the collector's health follows the exporter's status,    *)
(* for any number of goroutines, every interval and every length of the    *)
(* run.  A run shows that crossing events break this.  The health agent    *)
(* and the exporter have theorems of their own, which the composition      *)
(* inherits.                                                               *)
(***************************************************************************)
EXTENDS HealthReporting, TLAPS

(* The types the argument needs.                                           *)
Types ==
  /\ now \in Nat
  /\ lastOK \in Nat /\ lastOK <= now
  /\ lastError \in Nat /\ lastError <= now
  /\ \A w \in Workers : event[w].ts \in Nat
  /\ DOMAIN event = Workers /\ DOMAIN pc = Workers
  /\ errorTimes \subseteq Nat

(* An event on its way has a status and, if it is recoverable, the time of *)
(* its error.                                                              *)
Pending ==
  \A w \in Workers :
    /\ pc[w] # "report" => event[w] = Exporter!NoEvent
    /\ pc[w] = "report" => event[w].status \in {"OK", "RecoverableError", "PermanentError"}
    /\ event[w].status = "RecoverableError" => event[w].ts \in errorTimes
    /\ event[w].ts <= now

(* Without crossing, one event at most is on its way, and it is newer than *)
(* everything the agent has.                                               *)
InTurn ==
  ~crossed =>
    \A w \in Workers : pc[w] = "report" =>
      /\ lastOK < event[w].ts /\ lastError < event[w].ts
      /\ \A v \in Workers : pc[v] = "report" => v = w

(* The agent's two timestamps agree with the exporter's last status.       *)
Agrees ==
  /\ lastError # 0 => lastError \in errorTimes
  /\ ~crossed /\ ~hostStuck /\ lastStatus = "RecoverableError" => lastOK < lastError
  /\ ~crossed /\ ~hostStuck /\ lastStatus = "OK" => lastError < lastOK

IInv == Types /\ Pending /\ InTurn /\ Agrees

-----------------------------------------------------------------------------
(* Initially nothing was delivered and nothing is on its way.              *)
LEMMA InitIInv == Init => IInv
<1> SUFFICES ASSUME Init PROVE IInv
  OBVIOUS
<1> USE DEF Init, Exporter!Init, Agent!Init, Exporter!NoEvent, Agent!NoEvent
<1>1. Types
  BY DEF Types
<1>2. Pending
  <2> SUFFICES ASSUME NEW w \in Workers
               PROVE  /\ pc[w] = "idle"
                      /\ event[w] = Exporter!NoEvent
                      /\ event[w].status # "RecoverableError" /\ event[w].ts <= now
    BY DEF Pending
  <2> QED
    OBVIOUS
<1>3. Agrees
  BY DEF Agrees
<1>4. InTurn
  BY DEF InTurn
<1> QED
  BY <1>1, <1>2, <1>3, <1>4 DEF IInv

(* A step that leaves the agent and the exporter's status alone keeps the  *)
(* invariant, as long as the clock does not go back and no event changes.  *)
LEMMA Untouched ==
  ASSUME IInv, UNCHANGED <<event, lastStatus, lastOK, lastError, history>>,
         now' \in Nat, now <= now', DOMAIN pc' = Workers,
         \A w \in Workers : pc'[w] = "report" <=> pc[w] = "report"
  PROVE  IInv'
<1> USE DEF IInv, history
<1>1. Types'
  BY DEF Types
<1>2. Pending'
  BY DEF Pending, Types
<1>3. Agrees'
  BY DEF Agrees
<1>4. InTurn'
  BY DEF InTurn
<1> QED
  BY <1>1, <1>2, <1>3, <1>4

(* An answer stamps an event newer than all the agent has.                 *)
LEMMA AnswerKeeps ==
  ASSUME IInv, NEW w \in Workers, NEW answer \in Exporter!Answers, Answer(w, answer)
  PROVE  IInv'
<1> USE DEF IInv, Answer, Exporter!Answer, Exporter!Goto, agentVars
<1> DEFINE status == Exporter!StatusOf(answer)
<1>1. /\ status \in {"OK", "RecoverableError", "PermanentError"}
      /\ status = "RecoverableError" => answer \in Exporter!Retriable
  BY DEF Exporter!StatusOf, Exporter!Answers, Exporter!Responses, Exporter!Retriable,
         Exporter!Permanent
<1>2. now' = now + 1 /\ now \in Nat
  BY DEF Types
<1>3. event'[w] = [status |-> status, ts |-> now'] /\ pc'[w] = "report"
  BY DEF Types
<1>4. \A v \in Workers \ {w} : event'[v] = event[v] /\ pc'[v] = pc[v]
  BY DEF Types
<1> HIDE DEF status
<1>5. Types'
  <2>1. lastOK' = lastOK /\ lastError' = lastError
    OBVIOUS
  <2>2. \A v \in Workers : event'[v].ts \in Nat
    BY <1>2, <1>3, <1>4 DEF Types
  <2>3. errorTimes' \subseteq Nat
    BY <1>2 DEF Types
  <2>4. DOMAIN event' = Workers /\ DOMAIN pc' = Workers
    BY DEF Types
  <2> QED
    BY <1>2, <2>1, <2>2, <2>3, <2>4 DEF Types
<1>6. Pending'
  <2> SUFFICES ASSUME NEW v \in Workers
               PROVE  /\ pc'[v] # "report" => event'[v] = Exporter!NoEvent
                      /\ pc'[v] = "report" =>
                            event'[v].status \in {"OK", "RecoverableError", "PermanentError"}
                      /\ event'[v].status = "RecoverableError" => event'[v].ts \in errorTimes'
                      /\ event'[v].ts <= now'
    BY DEF Pending, Exporter!NoEvent
  <2>1. CASE v = w
    <3>2. answer \in Exporter!Retriable => now' \in errorTimes'
      OBVIOUS
    <3> QED
      BY <1>1, <1>2, <1>3, <2>1, <3>2
  <2>2. CASE v # w
    BY <1>2, <1>4, <2>2 DEF Pending, Types
  <2> QED
    BY <2>1, <2>2
<1>7. Agrees'
  BY DEF Agrees
<1>8. InTurn'
  <2> SUFFICES ASSUME ~crossed', NEW v \in Workers, pc'[v] = "report"
               PROVE  /\ lastOK' < event'[v].ts /\ lastError' < event'[v].ts
                      /\ \A u \in Workers : pc'[u] = "report" => u = v
    BY DEF InTurn
  <2>1. \A u \in Workers : pc[u] # "report"
    OBVIOUS
  <2>2. \A u \in Workers : pc'[u] = "report" => u = w
    BY <1>4, <2>1
  <2>3. lastOK' < now' /\ lastError' < now'
    BY <1>2 DEF Types
  <2> QED
    BY <1>3, <2>2, <2>3
<1> QED
  BY <1>5, <1>6, <1>7, <1>8

(* Where it matters that events do not cross: no other one is on its way   *)
(* when one is reported, so the one delivered is the newest.               *)
LEMMA ReportKeeps ==
  ASSUME IInv, NEW w \in Workers, ReportStatus(w)
  PROVE  IInv'
<1> USE DEF IInv
<1> DEFINE ev == event[w]
<1>1. /\ pc[w] = "report" /\ pc'[w] # "report" /\ DOMAIN pc' = Workers
      /\ event'[w] = Exporter!NoEvent /\ DOMAIN event' = Workers
      /\ now' = now /\ errorTimes' = errorTimes /\ crossed' = crossed
      /\ \A v \in Workers \ {w} : event'[v] = event[v] /\ pc'[v] = pc[v]
  BY DEF ReportStatus, Exporter!ReportStatus, Exporter!Goto, Exporter!AfterReport, Types
<1>2. /\ ev.status \in {"OK", "RecoverableError", "PermanentError"}
      /\ ev.ts \in Nat /\ ev.ts <= now
      /\ ~crossed => lastOK < ev.ts /\ lastError < ev.ts
      /\ ev.status = "RecoverableError" => ev.ts \in errorTimes
  BY <1>1 DEF Pending, Types, InTurn
<1>3. now \in Nat /\ lastOK \in Nat /\ lastError \in Nat
  BY DEF Types
<1>4. /\ lastOK' \in {lastOK, ev.ts} /\ lastError' \in {lastError, ev.ts}
      /\ lastError' # lastError => ev.status = "RecoverableError"
  BY DEF ReportStatus, Deliver, Agent!ComponentStatusChanged, Agent!Updated, Agent!Watched,
         agentVars
<1>5. lastStatus' = ev.status
  BY DEF ReportStatus, Exporter!ReportStatus, Exporter!Forwards
<1>6. ASSUME ~hostStuck', ~crossed
      PROVE  /\ ev.status = "OK" => lastError' < lastOK'
             /\ ev.status = "RecoverableError" => lastOK' < lastError'
  <2>1. ~hostStuck
    BY <1>6 DEF ReportStatus
  <2>4. lastOK < ev.ts /\ lastError < ev.ts
    BY <1>2, <1>6
  <2>2. CASE lastStatus = ev.status
    <3>1. lastOK' = lastOK /\ lastError' = lastError
      BY <2>2 DEF ReportStatus, Exporter!Forwards, agentVars
    <3> QED
      BY <1>6, <2>1, <2>2, <3>1 DEF Agrees
  <2>3. CASE lastStatus # ev.status
    <3>1. Agent!ComponentStatusChanged(ev.status, ev.ts)
      BY <2>1, <2>3 DEF ReportStatus, Deliver, Exporter!Forwards
    <3>2. ev.status = "OK" => lastOK' = ev.ts /\ lastError' = lastError
      BY <1>2, <1>3, <2>4, <3>1 DEF Agent!ComponentStatusChanged, Agent!Updated, Agent!Watched
    <3>3. ev.status = "RecoverableError" => lastError' = ev.ts /\ lastOK' = lastOK
      BY <1>2, <1>3, <2>4, <3>1 DEF Agent!ComponentStatusChanged, Agent!Updated, Agent!Watched
    <3> QED
      BY <1>2, <1>3, <2>4, <3>2, <3>3
  <2> QED
    BY <2>2, <2>3
<1> HIDE DEF ev
<1>7. Types'
  <2>1. event'[w].ts \in Nat
    BY <1>1 DEF Exporter!NoEvent
  <2>2. \A v \in Workers : event'[v].ts \in Nat
    BY <1>1, <2>1 DEF Types
  <2>3. lastOK' \in Nat /\ lastOK' <= now' /\ lastError' \in Nat /\ lastError' <= now'
    BY <1>1, <1>2, <1>3, <1>4 DEF Types
  <2> QED
    BY <1>1, <1>3, <2>2, <2>3 DEF Types
<1>8. Pending'
  <2> SUFFICES ASSUME NEW v \in Workers
               PROVE  /\ pc'[v] # "report" => event'[v] = Exporter!NoEvent
                      /\ pc'[v] = "report" =>
                            event'[v].status \in {"OK", "RecoverableError", "PermanentError"}
                      /\ event'[v].status = "RecoverableError" => event'[v].ts \in errorTimes'
                      /\ event'[v].ts <= now'
    BY DEF Pending, Exporter!NoEvent
  <2>1. CASE v = w
    <3>1. event'[w].status # "RecoverableError" /\ event'[w].ts <= now'
      BY <1>1, <1>3 DEF Exporter!NoEvent
    <3> QED
      BY <1>1, <2>1, <3>1
  <2>2. CASE v # w
    BY <1>1, <2>2 DEF Pending
  <2> QED
    BY <2>1, <2>2
<1>9. Agrees'
  <2>1. lastError' # 0 => lastError' \in errorTimes'
    BY <1>1, <1>2, <1>4 DEF Agrees
  <2> QED
    BY <1>1, <1>5, <1>6, <2>1 DEF Agrees
<1>10. InTurn'
  BY <1>1 DEF InTurn
<1> QED
  BY <1>7, <1>8, <1>9, <1>10

(* The host's OK for a started component precedes the exporter's first     *)
(* event, so that it disturbs nothing.                                     *)
LEMMA StartedKeeps ==
  ASSUME IInv, ReportStarted
  PROVE  IInv'
<1> USE DEF IInv
<1>1. /\ UNCHANGED <<now, pc, event, lastStatus, hostStuck, errorTimes, crossed, lastError>>
      /\ lastStatus = "None" /\ lastOK' \in {lastOK, now}
  BY DEF ReportStarted, Agent!ComponentStatusChanged, Agent!Updated, Agent!Watched,
         exporterVars, history
<1>2. \A w \in Workers : event[w] = Exporter!NoEvent
  BY DEF ReportStarted
<1>3. ASSUME NEW w \in Workers PROVE pc[w] # "report"
  <2>1. event[w].status = "None"
    BY <1>2 DEF Exporter!NoEvent
  <2>2. event[w].status \notin {"OK", "RecoverableError", "PermanentError"}
    BY <2>1
  <2> QED
    BY <2>2 DEF Pending
<1>4. Types'
  BY <1>1 DEF Types
<1>5. Pending'
  BY <1>1, <1>3 DEF Pending, Exporter!NoEvent
<1>6. Agrees'
  BY <1>1 DEF Agrees
<1>7. InTurn'
  BY <1>1, <1>3 DEF InTurn
<1> QED
  BY <1>4, <1>5, <1>6, <1>7

-----------------------------------------------------------------------------
(* The steps that neither answer nor report leave the invariant's terms    *)
(* alone.                                                                  *)
LEMMA QuietKeeps ==
  ASSUME IInv,
         \/ Exporter!Tick /\ UNCHANGED <<agentVars, history>>
         \/ ExporterStep /\ UNCHANGED <<agentVars, history>>
         \/ AgentStep /\ UNCHANGED <<exporterVars, history>>
         \/ UNCHANGED vars
  PROVE  IInv'
<1>1. UNCHANGED <<event, lastStatus, lastOK, lastError, history>>
  BY DEF Exporter!Tick, Exporter!exporterVars, ExporterStep, Exporter!Shutdown,
         Exporter!Send, Exporter!ExtendDebug, AgentStep, Agent!Start, Agent!Shutdown,
         Agent!Ready, Agent!NotReady, agentVars, exporterVars, history, vars
<1>2. now' \in Nat /\ now <= now'
  <2>1. now \in Nat
    BY DEF IInv, Types
  <2>2. CASE Exporter!Tick
    BY <2>1, <2>2 DEF Exporter!Tick
  <2>3. CASE ExporterStep
    <3>1. now' = now
      BY Zenon, <2>3 DEF ExporterStep, Exporter!Shutdown, Exporter!Send, Exporter!ExtendDebug
    <3> QED
      BY <2>1, <3>1
  <2>4. CASE AgentStep
    BY <2>1, <2>4 DEF AgentStep, Agent!Start, Agent!Shutdown, Agent!Ready, Agent!NotReady
  <2>5. CASE UNCHANGED vars
    BY <2>1, <2>5 DEF vars
  <2> QED
    BY <2>2, <2>3, <2>4, <2>5
<1>3. /\ DOMAIN pc' = Workers
      /\ \A w \in Workers : pc'[w] = "report" <=> pc[w] = "report"
  <2>1. CASE ExporterStep
    BY <2>1 DEF IInv, Types, ExporterStep, Exporter!Shutdown, Exporter!Send,
         Exporter!ExtendDebug, Exporter!Goto
  <2>2. CASE pc' = pc
    BY <2>2 DEF IInv, Types
  <2> QED
    BY <2>1, <2>2 DEF Exporter!Tick, Exporter!exporterVars, exporterVars, vars
<1> QED
  BY <1>1, <1>2, <1>3, Untouched

(* The invariant follows from the specification.                           *)
LEMMA Invariance == Spec => []IInv
<1>1. IInv /\ [Next]_vars => IInv'
  <2> SUFFICES ASSUME IInv, [Next]_vars PROVE IInv'
    OBVIOUS
  <2>1. CASE ReportStarted
    BY <2>1, StartedKeeps
  <2>2. CASE \E w \in Workers : ReportStatus(w)
    BY <2>2, ReportKeeps
  <2>3. CASE \E w \in Workers, answer \in Exporter!Answers : Answer(w, answer)
    BY <2>3, AnswerKeeps
  <2> QED
    BY <2>1, <2>2, <2>3, QuietKeeps DEF Next
<1> QED
  BY <1>1, InitIInv, PTL DEF Spec

(* While the exporter's last status is a retriable error, the collector is *)
(* unhealthy, unless two goroutines' answers crossed (exporter.go:229).    *)
THEOREM ErrorsShownInTurn == Spec => []ErrorShownInTurn
<1>1. IInv => ErrorShownInTurn
  BY DEF IInv, Types, Agrees, ErrorShownInTurn, ErrorShown, Healthy, Agent!GetHealth,
         Agent!isHealthy, Agent!NoEvent
<1> QED
  BY <1>1, Invariance, PTL

(* Once the exporter's last status is OK and its errors are old, the       *)
(* collector is healthy, unless two answers crossed (exporter.go:251).     *)
THEOREM RecoveriesShownInTurn == Spec => []RecoveryShownInTurn
<1>1. IInv => RecoveryShownInTurn
  BY IntervalAssumption
     DEF IInv, Types, Agrees, RecoveryShownInTurn, Healthy, Agent!GetHealth, Agent!isHealthy,
         Agent!NoEvent
<1> QED
  BY <1>1, Invariance, PTL
-----------------------------------------------------------------------------
(* The health agent alone (healthagent.go), events arriving in any order.  *)

(* Every variable of the health agent keeps its type (healthagent.go:31).  *)
THEOREM AgentTypeCorrect == Agent!Spec => []Agent!TypeOK
<1>1. Agent!Init => Agent!TypeOK
  <2>1. [status \in Agent!Watched |-> {}] \in [Agent!Watched -> SUBSET Agent!Time]
    OBVIOUS
  <2>2. Agent!Init => /\ now \in Nat /\ lastOK \in Nat /\ lastError \in Nat
                      /\ received \in [Agent!Watched -> SUBSET Agent!Time]
    BY <2>1 DEF Agent!Init, Agent!NoEvent
  <2>3. Agent!Init => server \in {"new", "failed", "serving", "stopped"} /\ ready \in BOOLEAN
    BY DEF Agent!Init
  <2>4. QED
    BY <2>2, <2>3 DEF Agent!TypeOK
<1>2. Agent!TypeOK /\ [Agent!Next]_(Agent!vars) => Agent!TypeOK'
  <2> SUFFICES ASSUME Agent!TypeOK, [Agent!Next]_(Agent!vars) PROVE Agent!TypeOK'
    OBVIOUS
  <2> USE DEF Agent!TypeOK
  <2>1. CASE Agent!Tick \/ Agent!Start \/ Agent!Shutdown \/ Agent!Ready \/ Agent!NotReady
    <3>1. now' \in Nat /\ UNCHANGED <<lastOK, lastError, received>>
      BY <2>1 DEF Agent!Tick, Agent!Start, Agent!startGRPCServer, Agent!Shutdown, Agent!Ready,
           Agent!NotReady, Agent!agentVars
    <3>2. server' \in {"new", "failed", "serving", "stopped"}
      BY <2>1 DEF Agent!Tick, Agent!Start, Agent!startGRPCServer, Agent!Shutdown, Agent!Ready,
           Agent!NotReady, Agent!agentVars
    <3>3. ready' \in BOOLEAN
      BY <2>1 DEF Agent!Tick, Agent!Start, Agent!startGRPCServer, Agent!Shutdown, Agent!Ready,
           Agent!NotReady, Agent!agentVars
    <3>4. QED
      BY <3>1, <3>2, <3>3
  <2>2. ASSUME NEW status \in Agent!Statuses, NEW ts \in 1 .. now,
               Agent!ComponentStatusChanged(status, ts)
        PROVE  Agent!TypeOK'
    <3>1. ts \in Agent!Time
      BY DEF Agent!Time
    <3>2. lastOK' \in Nat /\ lastError' \in Nat
      BY <2>2, <3>1 DEF Agent!ComponentStatusChanged, Agent!Updated, Agent!Time
    <3>3. received' \in [Agent!Watched -> SUBSET Agent!Time]
      BY <2>2, <3>1 DEF Agent!ComponentStatusChanged
    <3>4. QED
      BY <2>2, <3>2, <3>3 DEF Agent!ComponentStatusChanged
  <2>3. CASE UNCHANGED Agent!vars
    BY <2>3 DEF Agent!vars, Agent!agentVars
  <2>4. QED
    BY <2>1, <2>2, <2>3 DEF Agent!Next
<1>3. QED
  BY <1>1, <1>2, PTL DEF Agent!Spec

(* Adding a timestamp to a set and updateStatus keep the newest in step.   *)
LEMMA UpdatedIsNewest ==
  ASSUME NEW last \in Nat, NEW ts \in Agent!Time, NEW times \in SUBSET Agent!Time,
         Agent!Newest(last, times)
  PROVE  Agent!Newest(Agent!Updated(last, ts), times \cup {ts})
BY DEF Agent!Newest, Agent!Updated, Agent!NoEvent, Agent!Time

(* Of all events delivered, in any order, the newest OK and the newest     *)
(* error are kept.                                                         *)
THEOREM NewestKept == Agent!Spec => []Agent!KeepsNewest
<1>1. Agent!Init => Agent!KeepsNewest
  BY DEF Agent!Init, Agent!KeepsNewest, Agent!Newest, Agent!OKs, Agent!Errors, Agent!Watched
<1>2. Agent!TypeOK /\ Agent!KeepsNewest /\ [Agent!Next]_(Agent!vars) => Agent!KeepsNewest'
  <2> SUFFICES ASSUME Agent!TypeOK, Agent!KeepsNewest, [Agent!Next]_(Agent!vars)
               PROVE  Agent!KeepsNewest'
    OBVIOUS
  <2>1. CASE UNCHANGED <<lastOK, lastError, received>>
    BY <2>1 DEF Agent!KeepsNewest, Agent!OKs, Agent!Errors
  <2>2. ASSUME NEW status \in Agent!Statuses, NEW ts \in 1 .. now, status \in Agent!Watched,
               Agent!ComponentStatusChanged(status, ts)
        PROVE  Agent!KeepsNewest'
    <3>1. /\ Agent!OKs \in SUBSET Agent!Time /\ Agent!Errors \in SUBSET Agent!Time
          /\ lastOK \in Nat /\ lastError \in Nat /\ ts \in Agent!Time
      BY DEF Agent!TypeOK, Agent!Watched, Agent!OKs, Agent!Errors, Agent!Time
    <3>2. /\ received \in [Agent!Watched -> SUBSET Agent!Time]
          /\ received' = [received EXCEPT ![status] = @ \cup {ts}]
      BY <2>2 DEF Agent!ComponentStatusChanged, Agent!TypeOK
    <3>3. CASE status = "OK"
      <4>1. Agent!OKs' = Agent!OKs \cup {ts} /\ Agent!Errors' = Agent!Errors
        BY <3>2, <3>3 DEF Agent!OKs, Agent!Errors, Agent!Watched
      <4>2. lastOK' = Agent!Updated(lastOK, ts) /\ lastError' = lastError
        BY <2>2, <3>3 DEF Agent!ComponentStatusChanged
      <4>3. QED
        BY <3>1, <4>1, <4>2, UpdatedIsNewest DEF Agent!KeepsNewest
    <3>4. CASE status = "RecoverableError"
      <4>1. Agent!Errors' = Agent!Errors \cup {ts} /\ Agent!OKs' = Agent!OKs
        BY <3>2, <3>4 DEF Agent!OKs, Agent!Errors, Agent!Watched
      <4>2. lastError' = Agent!Updated(lastError, ts) /\ lastOK' = lastOK
        BY <2>2, <3>4 DEF Agent!ComponentStatusChanged
      <4>3. QED
        BY <3>1, <4>1, <4>2, UpdatedIsNewest DEF Agent!KeepsNewest
    <3>5. QED
      BY <2>2, <3>3, <3>4 DEF Agent!Watched
  <2>3. QED
    BY <2>1, <2>2 DEF Agent!Next, Agent!Tick, Agent!Start, Agent!startGRPCServer,
         Agent!Shutdown, Agent!Ready, Agent!NotReady,
                      Agent!ComponentStatusChanged, Agent!vars, Agent!agentVars
<1>3. QED
  BY <1>1, <1>2, AgentTypeCorrect, PTL DEF Agent!Spec

(* GetHealth answers from two timestamps as it would from the whole        *)
(* history of events.                                                      *)
THEOREM HealthFromTwoTimestamps == Agent!Spec => []Agent!HealthIsPromised
<1>1. Agent!TypeOK /\ Agent!KeepsNewest => Agent!HealthIsPromised
  <2> SUFFICES ASSUME Agent!TypeOK, Agent!KeepsNewest PROVE Agent!HealthIsPromised
    OBVIOUS
  <2>1. /\ Agent!OKs \in SUBSET Agent!Time /\ Agent!Errors \in SUBSET Agent!Time
        /\ lastOK \in Nat /\ lastError \in Nat /\ now \in Nat
    BY DEF Agent!TypeOK, Agent!Watched, Agent!OKs, Agent!Errors, Agent!Time
  <2>2. lastError = Agent!NoEvent <=> Agent!Errors = {}
    BY <2>1 DEF Agent!KeepsNewest, Agent!Newest, Agent!NoEvent, Agent!Time
  <2>3. lastOK = Agent!NoEvent <=> Agent!OKs = {}
    BY <2>1 DEF Agent!KeepsNewest, Agent!Newest, Agent!NoEvent, Agent!Time
  <2>4. ASSUME lastError # Agent!NoEvent, lastOK # Agent!NoEvent
        PROVE  ~(lastError > lastOK) <=> \E ok \in Agent!OKs : \A err \in Agent!Errors : err <= ok
    BY <2>1, <2>4 DEF Agent!KeepsNewest, Agent!Newest, Agent!Time
  <2>5. ASSUME lastError # Agent!NoEvent
        PROVE  ~(lastError + ErrorCheckInterval > now)
                 <=> \A err \in Agent!Errors : err + ErrorCheckInterval <= now
    BY <2>1, <2>5, IntervalAssumption DEF Agent!KeepsNewest, Agent!Newest, Agent!Time
  <2>6. QED
    BY <2>2, <2>3, <2>4, <2>5 DEF Agent!HealthIsPromised, Agent!GetHealth, Agent!isHealthy,
         Agent!Promised
<1>2. QED
  BY <1>1, AgentTypeCorrect, NewestKept, PTL

-----------------------------------------------------------------------------
(* The exporter alone (exporter.go:213-238): its goroutines in any order.  *)

(* The types of the clock's readings.                                      *)
Clocks ==
  /\ now \in Nat /\ debugUntil \in Nat
  /\ header \in [Workers -> BOOLEAN]
  /\ sentAt \in [Workers -> Nat]
  /\ failures \subseteq Nat

(* The end of the window was set by a failure that was handled before.     *)
WindowHasFailure ==
  debugUntil = 0 \/ \E t \in failures : t <= now /\ debugUntil = t + DebugHeaderTimeout

ExporterInv == Clocks /\ WindowHasFailure /\ Exporter!DebugHeaderJustified

LEMMA InitExporterInv == Exporter!Init => ExporterInv
  BY DEF Exporter!Init, ExporterInv, Clocks, WindowHasFailure, Exporter!DebugHeaderJustified

(* Sending reads the window under debugHeaderMutex (exporter.go:213-219).  *)
LEMMA SendKeepsWindow ==
  ASSUME ExporterInv, NEW w \in Workers, Exporter!Send(w)
  PROVE  ExporterInv'
<1> USE DEF ExporterInv, Exporter!Send
<1>1. Clocks'
  BY DEF Clocks
<1>2. WindowHasFailure'
  BY DEF WindowHasFailure
<1>3. header'[w] => \E t \in failures : t <= now /\ now < t + DebugHeaderTimeout
  <2> SUFFICES ASSUME header'[w]
               PROVE  \E t \in failures : t <= now /\ now < t + DebugHeaderTimeout
    OBVIOUS
  <2>1. header' = [header EXCEPT ![w] = EnableDebugHeaders /\ now < debugUntil]
    OBVIOUS
  <2>2. header'[w] = (EnableDebugHeaders /\ now < debugUntil)
    BY Zenon, <2>1 DEF Clocks
  <2>3. now < debugUntil
    BY Zenon, <2>2
  <2>4. debugUntil # 0
    BY <2>3 DEF Clocks
  <2> QED
    BY <2>3, <2>4 DEF WindowHasFailure
<1>4. sentAt'[w] = now /\ failures' = failures
  BY DEF Clocks
<1>5. \A v \in Workers \ {w} : header'[v] = header[v] /\ sentAt'[v] = sentAt[v]
  BY DEF Clocks
<1>6. Exporter!DebugHeaderJustified'
  <2> SUFFICES ASSUME NEW v \in Workers, header'[v]
               PROVE  \E t \in failures' : t <= sentAt'[v] /\ sentAt'[v] < t + DebugHeaderTimeout
    BY DEF Exporter!DebugHeaderJustified
  <2>1. CASE v = w
    BY <1>3, <1>4, <2>1
  <2>2. CASE v # w
    BY <1>4, <1>5, <2>2 DEF Exporter!DebugHeaderJustified
  <2> QED
    BY <2>1, <2>2
<1> QED
  BY <1>1, <1>2, <1>6

(* The answer ends the request, and with it its header.                    *)
LEMMA AnswerKeepsWindow ==
  ASSUME ExporterInv, NEW w \in Workers, NEW answer \in Exporter!Answers, Exporter!Answer(w, answer)
  PROVE  ExporterInv'
<1> USE DEF ExporterInv, Exporter!Answer
<1>1. Clocks'
  BY DEF Clocks
<1>2. WindowHasFailure'
  BY DEF Clocks, WindowHasFailure
<1>3. ~header'[w] /\ failures' = failures
  BY DEF Clocks
<1>4. \A v \in Workers \ {w} : header'[v] = header[v] /\ sentAt'[v] = sentAt[v]
  BY DEF Clocks
<1>5. Exporter!DebugHeaderJustified'
  BY <1>3, <1>4 DEF Exporter!DebugHeaderJustified
<1> QED
  BY <1>1, <1>2, <1>5

(* Handling a failure adds it and may open a window that it justifies.     *)
LEMMA ExtendKeepsWindow ==
  ASSUME ExporterInv, NEW w \in Workers, Exporter!ExtendDebug(w)
  PROVE  ExporterInv'
<1> USE DEF ExporterInv, Exporter!ExtendDebug
<1>1. Clocks'
  BY DebugAssumption DEF Clocks
<1>2. WindowHasFailure'
  BY DEF Clocks, WindowHasFailure
<1>3. Exporter!DebugHeaderJustified'
  BY DEF Exporter!DebugHeaderJustified
<1> QED
  BY <1>1, <1>2, <1>3

LEMMA ExporterInvariance == Exporter!Spec => []ExporterInv
<1>1. ExporterInv /\ [Exporter!Next]_(Exporter!vars) => ExporterInv'
  <2> SUFFICES ASSUME ExporterInv, [Exporter!Next]_(Exporter!vars) PROVE ExporterInv'
    OBVIOUS
  <2>1. ASSUME NEW w \in Workers, Exporter!Send(w) PROVE ExporterInv'
    BY <2>1, SendKeepsWindow
  <2>2. ASSUME NEW w \in Workers, NEW answer \in Exporter!Answers,
             Exporter!Answer(w, answer)
      PROVE  ExporterInv'
    BY <2>2, AnswerKeepsWindow
  <2>3. ASSUME NEW w \in Workers, Exporter!ExtendDebug(w) PROVE ExporterInv'
    BY <2>3, ExtendKeepsWindow
  <2>4. ASSUME UNCHANGED <<header, sentAt, debugUntil, failures>>, now' \in {now, now + 1}
        PROVE  ExporterInv'
    BY <2>4 DEF ExporterInv, Clocks, WindowHasFailure, Exporter!DebugHeaderJustified
  <2>5. CASE Exporter!Tick
    BY <2>4, <2>5 DEF Exporter!Tick, Exporter!exporterVars
  <2>6. CASE Exporter!Shutdown
    BY Zenon, <2>4, <2>6 DEF Exporter!Shutdown
  <2>7. ASSUME NEW w \in Workers, Exporter!ReportStatus(w) PROVE ExporterInv'
    BY <2>4, <2>7 DEF Exporter!ReportStatus
  <2>8. CASE UNCHANGED Exporter!vars
    BY <2>4, <2>8 DEF Exporter!vars, Exporter!exporterVars
  <2> QED
    BY <2>1, <2>2, <2>3, <2>5, <2>6, <2>7, <2>8 DEF Exporter!Next
<1> QED
  BY <1>1, InitExporterInv, PTL DEF Exporter!Spec

(* Whatever the interleaving of the goroutines, a request carries the      *)
(* debug header only if a retriable error was handled less than            *)
(* DebugHeaderTimeout before it was sent (exporter.go:213-238).            *)
THEOREM HeaderJustified == Exporter!Spec => []Exporter!DebugHeaderJustified
<1>1. ExporterInv => Exporter!DebugHeaderJustified
  BY DEF ExporterInv
<1> QED
  BY <1>1, ExporterInvariance, PTL
-----------------------------------------------------------------------------
(* Where a goroutine can be, and that none comes to the debug header when  *)
(* EnableDebugHeaders is off; requests were sent in the past.              *)
Calls ==
  /\ now >= 1
  /\ pc \in [Workers -> {"idle", "rpc", "report", "extend"}]
  /\ \A w \in Workers : pc[w] = "extend" => EnableDebugHeaders
  /\ failures # {} => EnableDebugHeaders
  /\ \A w \in Workers : sentAt[w] <= now

(* Every failure lies in the window of some failure, its own or an older   *)
(* one, and the window in force does not end before that one.              *)
FailuresCovered ==
  \A t \in failures : \E t0 \in failures :
    t0 <= t /\ t <= t0 + DebugHeaderTimeout /\ t0 + DebugHeaderTimeout <= debugUntil

LostInv == Calls /\ FailuresCovered /\ Exporter!DebugHeaderNotLost

LEMMA InitLostInv == Exporter!Init => LostInv
  BY DEF Exporter!Init, LostInv, Calls, FailuresCovered, Exporter!DebugHeaderNotLost

(* A request without the header is sent when the window in force, and so   *)
(* the one of every failure, is over (exporter.go:216).                    *)
LEMMA SendLosesNothing ==
  ASSUME ExporterInv, LostInv, NEW w \in Workers, Exporter!Send(w)
  PROVE  LostInv'
<1> USE DEF LostInv, Exporter!Send, Exporter!Goto
<1>1. /\ pc'[w] = "rpc" /\ sentAt'[w] = now /\ failures' = failures /\ debugUntil' = debugUntil
      /\ now' = now
  BY DEF ExporterInv, Clocks, Calls
<1>2. \A v \in Workers \ {w} : pc'[v] = pc[v] /\ header'[v] = header[v] /\ sentAt'[v] = sentAt[v]
  BY DEF ExporterInv, Clocks, Calls
<1>3. Calls'
  <2>1. pc' \in [Workers -> {"idle", "rpc", "report", "extend"}]
    BY DEF Calls
  <2>2. \A v \in Workers : pc'[v] = "extend" => EnableDebugHeaders
    BY <1>1, <1>2 DEF Calls
  <2>3. \A v \in Workers : sentAt'[v] <= now'
    BY <1>1, <1>2 DEF Calls, ExporterInv, Clocks
  <2> QED
    BY <1>1, <2>1, <2>2, <2>3 DEF Calls
<1>4. FailuresCovered'
  BY <1>1 DEF FailuresCovered
<1>5. ASSUME ~header'[w], NEW t \in failures
      PROVE  \E t0 \in failures : t0 <= t /\ t <= t0 + DebugHeaderTimeout
                                     /\ t0 + DebugHeaderTimeout <= now
  <2>1. header' = [header EXCEPT ![w] = EnableDebugHeaders /\ now < debugUntil]
    OBVIOUS
  <2>2. header'[w] = (EnableDebugHeaders /\ now < debugUntil)
    BY Zenon, <2>1 DEF ExporterInv, Clocks
  <2>3. EnableDebugHeaders
    BY Zenon DEF Calls
  <2>4. ~(now < debugUntil)
    BY Zenon, <1>5, <2>2, <2>3
  <2> QED
    BY <2>4, DebugAssumption DEF FailuresCovered, ExporterInv, Clocks
<1>6. Exporter!DebugHeaderNotLost'
  <2> SUFFICES ASSUME NEW v \in Workers, pc'[v] = "rpc", ~header'[v],
                      NEW t \in failures, t <= sentAt'[v], sentAt'[v] < t + DebugHeaderTimeout
               PROVE  \/ t = sentAt'[v]
                      \/ \E t0 \in failures : t0 <= t /\ t <= t0 + DebugHeaderTimeout
                                              /\ t0 + DebugHeaderTimeout <= sentAt'[v]
    BY <1>1 DEF Exporter!DebugHeaderNotLost
  <2>1. CASE v = w
    BY <1>1, <1>5, <2>1
  <2>2. CASE v # w
    <3>1. pc[v] = "rpc" /\ ~header[v] /\ t <= sentAt[v] /\ sentAt[v] < t + DebugHeaderTimeout
      BY <1>2, <2>2
    <3> QED
      BY <1>2, <2>2, <3>1 DEF Exporter!DebugHeaderNotLost
  <2> QED
    BY <2>1, <2>2
<1> QED
  BY <1>3, <1>4, <1>6

(* A failure is handled after every request in flight was sent, and lies   *)
(* in the window it finds open or in the one it opens (exporter.go:234).   *)
LEMMA ExtendLosesNothing ==
  ASSUME ExporterInv, LostInv, NEW w \in Workers, Exporter!ExtendDebug(w)
  PROVE  LostInv'
<1> USE DEF LostInv, Exporter!ExtendDebug, Exporter!Goto
<1>1. /\ pc[w] = "extend" /\ pc'[w] = "idle" /\ failures' = failures \cup {now}
      /\ now' = now /\ header' = header /\ sentAt' = sentAt
      /\ debugUntil' = IF now > debugUntil THEN now + DebugHeaderTimeout ELSE debugUntil
  BY DEF Calls
<1>2. \A v \in Workers \ {w} : pc'[v] = pc[v]
  BY DEF Calls
<1>3. /\ now \in Nat /\ now >= 1 /\ debugUntil \in Nat /\ failures \subseteq Nat
      /\ DebugHeaderTimeout \in Nat /\ sentAt \in [Workers -> Nat]
  BY DebugAssumption DEF ExporterInv, Clocks, Calls
<1>4. Calls'
  <2>1. EnableDebugHeaders
    BY <1>1 DEF Calls
  <2>2. pc' \in [Workers -> {"idle", "rpc", "report", "extend"}]
    BY DEF Calls
  <2> QED
    BY <1>1, <2>1, <2>2 DEF Calls
<1>5. FailuresCovered'
  <2>1. debugUntil <= debugUntil'
    BY <1>1, <1>3
  <2>2. \E t0 \in failures' : t0 <= now /\ now <= t0 + DebugHeaderTimeout
                                 /\ t0 + DebugHeaderTimeout <= debugUntil'
    <3>1. CASE now > debugUntil
      BY <1>1, <1>3, <3>1
    <3>2. CASE ~(now > debugUntil)
      <4>1. PICK t0 \in failures : t0 <= now /\ debugUntil = t0 + DebugHeaderTimeout
        BY <1>3, <3>2 DEF ExporterInv, WindowHasFailure
      <4> QED
        BY <1>1, <1>3, <3>2, <4>1
    <3> QED
      BY <3>1, <3>2
  <2>3. ASSUME NEW t \in failures
        PROVE  \E t0 \in failures' : t0 <= t /\ t <= t0 + DebugHeaderTimeout
                                       /\ t0 + DebugHeaderTimeout <= debugUntil'
    <3>1. PICK t0 \in failures : t0 <= t /\ t <= t0 + DebugHeaderTimeout
                                   /\ t0 + DebugHeaderTimeout <= debugUntil
      BY DEF FailuresCovered
    <3>2. t0 + DebugHeaderTimeout <= debugUntil'
      BY <1>1, <1>3, <2>1, <3>1
    <3> QED
      BY <1>1, <3>1, <3>2
  <2> QED
    BY <1>1, <2>2, <2>3 DEF FailuresCovered
<1>6. Exporter!DebugHeaderNotLost'
  <2> SUFFICES ASSUME NEW v \in Workers, pc'[v] = "rpc", ~header'[v],
                      NEW t \in failures',
                      t <= sentAt'[v], sentAt'[v] < t + DebugHeaderTimeout
               PROVE  \/ t = sentAt'[v]
                      \/ \E t0 \in failures' : t0 <= t /\ t <= t0 + DebugHeaderTimeout
                                               /\ t0 + DebugHeaderTimeout <= sentAt'[v]
    BY DEF Exporter!DebugHeaderNotLost
  <2>1. pc[v] = "rpc" /\ ~header[v] /\ sentAt'[v] = sentAt[v]
    BY <1>1, <1>2
  <2>2. CASE t = now
    <3>1. sentAt[v] <= now /\ sentAt[v] \in Nat
      BY <1>3 DEF Calls
    <3> QED
      BY <1>3, <2>1, <2>2, <3>1
  <2>3. CASE t \in failures
    <3>1. \/ t = sentAt[v]
          \/ \E t0 \in failures : t0 <= t /\ t <= t0 + DebugHeaderTimeout
                                    /\ t0 + DebugHeaderTimeout <= sentAt[v]
      BY <2>1, <2>3 DEF Exporter!DebugHeaderNotLost
    <3> QED
      BY <1>1, <2>1, <3>1
  <2> QED
    BY <1>1, <2>2, <2>3
<1> QED
  BY <1>4, <1>5, <1>6

(* A step after which no goroutine has a request it did not have before,   *)
(* and that handles no failure, keeps the invariant.                       *)
LEMMA OthersLoseNothing ==
  ASSUME ExporterInv, LostInv, UNCHANGED <<debugUntil, failures>>, now' \in {now, now + 1},
         pc' \in [Workers -> {"idle", "rpc", "report", "extend"}],
         \A v \in Workers : /\ pc'[v] = "extend" => EnableDebugHeaders
                            /\ sentAt'[v] \in {sentAt[v], 0}
                            /\ pc'[v] = "rpc" => /\ pc[v] = "rpc" /\ header'[v] = header[v]
                                                 /\ sentAt'[v] = sentAt[v]
  PROVE  LostInv'
<1> USE DEF LostInv
<1>1. now \in Nat /\ sentAt \in [Workers -> Nat]
  BY DEF ExporterInv, Clocks
<1>2. Calls'
  <2>1. now' >= 1
    BY <1>1 DEF Calls
  <2>2. \A v \in Workers : sentAt'[v] <= now'
    BY <1>1 DEF Calls
  <2>3. failures' # {} => EnableDebugHeaders
    BY DEF Calls
  <2> QED
    BY Zenon, <2>1, <2>2, <2>3 DEF Calls
<1>3. FailuresCovered'
  BY DEF FailuresCovered
<1>4. Exporter!DebugHeaderNotLost'
  <2>1. ASSUME NEW v \in Workers, pc'[v] = "rpc", ~header'[v]
        PROVE  pc[v] = "rpc" /\ ~header[v] /\ sentAt'[v] = sentAt[v]
    <3>1. header'[v] = header[v] /\ pc[v] = "rpc" /\ sentAt'[v] = sentAt[v]
      BY Zenon, <2>1
    <3> QED
      BY Zenon, <2>1, <3>1
  <2> QED
    BY Zenon, <2>1 DEF Exporter!DebugHeaderNotLost
<1> QED
  BY <1>2, <1>3, <1>4

LEMMA LostInvariance == Exporter!Spec => []LostInv
<1>1. ExporterInv /\ LostInv /\ [Exporter!Next]_(Exporter!vars) => LostInv'
  <2> SUFFICES ASSUME ExporterInv, LostInv, [Exporter!Next]_(Exporter!vars) PROVE LostInv'
    OBVIOUS
  <2>1. ASSUME NEW w \in Workers, Exporter!Send(w) PROVE LostInv'
    BY <2>1, SendLosesNothing
  <2>2. ASSUME NEW w \in Workers, Exporter!ExtendDebug(w) PROVE LostInv'
    BY <2>2, ExtendLosesNothing
  <2>3. ASSUME NEW w \in Workers, NEW answer \in Exporter!Answers,
             Exporter!Answer(w, answer)
      PROVE  LostInv'
    <3>1. /\ pc' = [pc EXCEPT ![w] = "report"] /\ sentAt' = [sentAt EXCEPT ![w] = 0]
          /\ header' = [header EXCEPT ![w] = FALSE]
          /\ UNCHANGED <<debugUntil, failures>> /\ now' = now + 1
      BY <2>3 DEF Exporter!Answer, Exporter!Goto
    <3>2. /\ pc \in [Workers -> {"idle", "rpc", "report", "extend"}]
          /\ sentAt \in [Workers -> Nat] /\ header \in [Workers -> BOOLEAN]
          /\ \A v \in Workers : pc[v] = "extend" => EnableDebugHeaders
      BY DEF LostInv, ExporterInv, Calls, Clocks
    <3>3. pc' \in [Workers -> {"idle", "rpc", "report", "extend"}]
      BY <3>1, <3>2
    <3>4. \A v \in Workers :
            /\ pc'[v] = "extend" => EnableDebugHeaders
            /\ sentAt'[v] \in {sentAt[v], 0}
            /\ pc'[v] = "rpc" => pc[v] = "rpc" /\ v # w /\ sentAt'[v] = sentAt[v]
      BY <3>1, <3>2
    <3>5. \A v \in Workers : v # w => header'[v] = header[v]
      BY Zenon, <3>1, <3>2
    <3> QED
      BY Zenon, <3>1, <3>3, <3>4, <3>5, OthersLoseNothing
  <2>4. ASSUME NEW w \in Workers, Exporter!ReportStatus(w) PROVE LostInv'
    <3>1. /\ pc' = [pc EXCEPT ![w] = Exporter!AfterReport(w)]
          /\ UNCHANGED <<now, header, sentAt, debugUntil, failures>>
      BY <2>4 DEF Exporter!ReportStatus, Exporter!Goto
    <3>2. /\ pc \in [Workers -> {"idle", "rpc", "report", "extend"}]
          /\ \A v \in Workers : pc[v] = "extend" => EnableDebugHeaders
      BY DEF LostInv, Calls
    <3>3. Exporter!AfterReport(w) \in {"idle", "extend"}
      BY DEF Exporter!AfterReport
    <3>4. Exporter!AfterReport(w) = "extend" => EnableDebugHeaders
      BY DEF Exporter!AfterReport
    <3>5. pc' \in [Workers -> {"idle", "rpc", "report", "extend"}]
      BY <3>1, <3>2, <3>3
    <3>6. \A v \in Workers : (pc'[v] = "extend" => EnableDebugHeaders)
                              /\ (pc'[v] = "rpc" => pc[v] = "rpc")
      BY <3>1, <3>2, <3>3, <3>4
    <3> QED
      BY Zenon, <3>1, <3>5, <3>6, OthersLoseNothing
  <2>5. ASSUME UNCHANGED <<pc, header, sentAt, debugUntil, failures>>, now' \in {now, now + 1}
        PROVE  LostInv'
    BY Zenon, <2>5, OthersLoseNothing DEF LostInv, Calls
  <2>6. CASE Exporter!Tick
    BY <2>5, <2>6 DEF Exporter!Tick, Exporter!exporterVars
  <2>7. CASE Exporter!Shutdown
    BY Zenon, <2>5, <2>7 DEF Exporter!Shutdown
  <2>8. CASE UNCHANGED Exporter!vars
    BY <2>5, <2>8 DEF Exporter!vars, Exporter!exporterVars
  <2> QED
    BY <2>1, <2>2, <2>3, <2>4, <2>6, <2>7, <2>8 DEF Exporter!Next
<1> QED
  BY <1>1, InitLostInv, ExporterInvariance, PTL DEF Exporter!Spec

(* However the goroutines interleave, a request sent within                *)
(* DebugHeaderTimeout of a retriable error goes without the header only if *)
(* an older error's window was open at that error and is over              *)
(* (exporter.go:213-238).                                                  *)
THEOREM HeaderNotLost == Exporter!Spec => []Exporter!DebugHeaderNotLost
<1>1. LostInv => Exporter!DebugHeaderNotLost
  BY DEF LostInv
<1> QED
  BY <1>1, LostInvariance, PTL

-----------------------------------------------------------------------------
(* An event on its way was stamped, and not in the future.                 *)
Stamped ==
  /\ now \in Nat \ {0}
  /\ DOMAIN event = Workers /\ DOMAIN pc = Workers
  /\ \A w \in Workers : pc[w] = "report" => event[w].ts \in 1 .. now

(* Nothing but Answer stamps an event, with the time it happens at.        *)
LEMMA EventsStamped == Spec => []Stamped
<1>1. Init => Stamped
  BY DEF Init, Exporter!Init, Stamped
<1>2. IInv /\ Stamped /\ [Next]_vars => Stamped'
  <2> SUFFICES ASSUME IInv, Stamped, [Next]_vars PROVE Stamped'
    OBVIOUS
  <2>1. ASSUME NEW w \in Workers, ReportStatus(w) PROVE Stamped'
    BY <2>1 DEF ReportStatus, Exporter!ReportStatus, Exporter!Goto, Exporter!AfterReport, Stamped
  <2>2. ASSUME NEW w \in Workers, NEW answer \in Exporter!Answers, Answer(w, answer)
        PROVE  Stamped'
    <3>1. now' = now + 1 /\ now' \in Nat \ {0}
      BY <2>2 DEF Answer, Exporter!Answer, Stamped
    <3>2. /\ event' = [event EXCEPT ![w] = [status |-> Exporter!StatusOf(answer), ts |-> now']]
          /\ pc' = [pc EXCEPT ![w] = "report"]
      BY <2>2 DEF Answer, Exporter!Answer, Exporter!Goto
    <3> QED
      BY <3>1, <3>2 DEF Stamped
  <2>3. ASSUME event' = event, DOMAIN pc' = Workers, now' \in {now, now + 1},
               \A w \in Workers : pc'[w] = "report" => pc[w] = "report"
        PROVE  Stamped'
    BY <2>3 DEF Stamped
  <2>4. CASE Exporter!Tick /\ UNCHANGED <<agentVars, history>>
    BY <2>3, <2>4 DEF Exporter!Tick, Exporter!exporterVars, Stamped
  <2>5. CASE ExporterStep
    <3>1. event' = event /\ now' = now
      BY Zenon, <2>5 DEF ExporterStep, Exporter!Shutdown, Exporter!Send, Exporter!ExtendDebug
    <3>2. /\ DOMAIN pc' = Workers
          /\ \A w \in Workers : pc'[w] = "report" => pc[w] = "report"
      BY <2>5 DEF Stamped, ExporterStep, Exporter!Shutdown, Exporter!Send,
           Exporter!ExtendDebug, Exporter!Goto
    <3> QED
      BY <2>3, <3>1, <3>2
  <2>6. CASE AgentStep /\ UNCHANGED <<exporterVars, history>>
    BY <2>3, <2>6 DEF AgentStep, Agent!Start, Agent!Shutdown, Agent!Ready, Agent!NotReady,
         exporterVars, Stamped
  <2>7. CASE ReportStarted
    BY <2>3, <2>7 DEF ReportStarted, Agent!ComponentStatusChanged, exporterVars, Stamped
  <2>8. CASE UNCHANGED vars
    BY <2>3, <2>8 DEF vars, exporterVars, Stamped
  <2> QED
    BY <2>1, <2>2, <2>4, <2>5, <2>6, <2>7, <2>8 DEF Next
<1> QED
  BY <1>1, <1>2, Invariance, PTL DEF Spec

(* The composition does to the health agent only what the agent's own      *)
(* specification allows: its events are stamped, and not in the future.    *)
THEOREM ImplementsAgent == Spec => Agent!Spec
<1>1. Init => Agent!Init
  BY DEF Init, Agent!Init, Agent!NoEvent,
         Agent!Watched
<1>2. IInv /\ Stamped /\ [Next]_vars => [Agent!Next]_(Agent!vars)
  <2> SUFFICES ASSUME IInv, Stamped, [Next]_vars
               PROVE  [Agent!Next]_(Agent!vars)
    OBVIOUS
  <2>a. ASSUME NEW status \in Agent!Statuses, NEW ts \in 1 .. now,
               Agent!ComponentStatusChanged(status, ts)
        PROVE  Agent!Next
    <3>1. Agent!ComponentStatusChanged(status, ts)
      BY Zenon, <2>a DEF Agent!ComponentStatusChanged,
           Agent!Watched, Agent!Updated,
           Agent!NoEvent
    <3> QED
      BY Zenon, <3>1 DEF Agent!Next
  <2>b. ASSUME UNCHANGED <<now, agentVars>>
        PROVE  UNCHANGED Agent!vars
    BY <2>b DEF agentVars, Agent!vars, Agent!agentVars
  <2>1. ASSUME NEW w \in Workers, ReportStatus(w)
        PROVE  [Agent!Next]_(Agent!vars)
    <3>1. now' = now /\ pc[w] = "report"
      BY Zenon, <2>1 DEF ReportStatus, Exporter!ReportStatus, Exporter!Goto
    <3>2. event[w].status \in Agent!Statuses /\ event[w].ts \in 1 .. now
      BY <3>1 DEF IInv, Pending, Stamped, Agent!Statuses
    <3>3. Agent!ComponentStatusChanged(event[w].status, event[w].ts) \/ UNCHANGED agentVars
      BY Zenon, <2>1 DEF ReportStatus, Deliver
    <3> QED
      BY <2>a, <2>b, <3>1, <3>2, <3>3
  <2>2. ASSUME NEW w \in Workers, NEW answer \in Exporter!Answers, Answer(w, answer)
        PROVE  Agent!Tick
    BY Zenon, <2>2 DEF Answer, Exporter!Answer, Agent!Tick, agentVars,
         Agent!agentVars
  <2>3. CASE Exporter!Tick /\ UNCHANGED <<agentVars, history>>
    <3>1. Agent!Tick
      BY Zenon, <2>3 DEF Exporter!Tick, Agent!Tick, agentVars, Agent!agentVars
    <3> QED
      BY Zenon, <3>1 DEF Agent!Next
  <2>4. CASE ExporterStep /\ UNCHANGED <<agentVars, history>>
    <3>1. now' = now
      BY Zenon, <2>4 DEF ExporterStep, Exporter!Shutdown, Exporter!Send, Exporter!ExtendDebug
    <3> QED
      BY <2>b, <2>4, <3>1
  <2>5. CASE AgentStep
    BY Zenon, <2>5 DEF AgentStep, Agent!Start, Agent!startGRPCServer, Agent!Shutdown,
         Agent!Ready, Agent!NotReady, Agent!Start, Agent!startGRPCServer,
         Agent!Shutdown, Agent!Ready, Agent!NotReady,
         Agent!Next
  <2>6. CASE ReportStarted
    <3>1. "OK" \in Agent!Statuses /\ now \in 1 .. now
      BY DEF Agent!Statuses, Stamped
    <3> QED
      BY <2>a, <2>6, <3>1 DEF ReportStarted
  <2>7. CASE UNCHANGED vars
    BY <2>b, <2>7 DEF vars
  <2> QED
    BY <2>1, <2>2, <2>3, <2>4, <2>5, <2>6, <2>7 DEF Next, Agent!Next
<1> QED
  BY <1>1, <1>2, Invariance, EventsStamped, PTL DEF Spec, Agent!Spec

(* The same for the exporter: host and agent do not act on it.             *)
THEOREM ImplementsExporter == Spec => Exporter!Spec
<1>1. Init => Exporter!Init
  BY DEF Init
<1>2. [Next]_vars => [Exporter!Next]_(Exporter!vars)
  <2> SUFFICES ASSUME [Next]_vars PROVE [Exporter!Next]_(Exporter!vars)
    OBVIOUS
  <2>1. ASSUME NEW w \in Workers, ReportStatus(w) PROVE Exporter!Next
    BY Zenon, <2>1 DEF ReportStatus, Exporter!Next
  <2>2. ASSUME NEW w \in Workers, NEW answer \in Exporter!Answers, Answer(w, answer)
        PROVE  Exporter!Next
    BY Zenon, <2>2 DEF Answer, Exporter!Next
  <2>3. CASE Exporter!Tick
    BY Zenon, <2>3 DEF Exporter!Next
  <2>4. CASE ExporterStep
    BY Zenon, <2>4 DEF ExporterStep, Exporter!Next
  <2>5. ASSUME UNCHANGED <<now, exporterVars>>
        PROVE  UNCHANGED Exporter!vars
    BY <2>5 DEF exporterVars, Exporter!vars, Exporter!exporterVars
  <2>6. CASE AgentStep /\ UNCHANGED <<exporterVars, history>>
    <3>1. now' = now
      BY <2>6 DEF AgentStep, Agent!Start, Agent!Shutdown, Agent!Ready, Agent!NotReady
    <3> QED
      BY <2>5, <2>6, <3>1
  <2>7. CASE ReportStarted
    BY <2>5, <2>7 DEF ReportStarted, Agent!ComponentStatusChanged
  <2>8. CASE UNCHANGED vars
    BY <2>5, <2>8 DEF vars
  <2> QED
    BY <2>1, <2>2, <2>3, <2>4, <2>6, <2>7, <2>8 DEF Next
<1> QED
  BY <1>1, <1>2, PTL DEF Spec, Exporter!Spec

(* The agent's two timestamps answer as the whole history of its events    *)
(* would, in whatever order goroutines report (healthagent.go:103):        *)
(* ImplementsAgent carries the agent's own theorem over.                   *)
THEOREM HealthFromHistory == Spec => []HealthIsPromised
<1>1. Agent!HealthIsPromised => HealthIsPromised
  BY DEF HealthIsPromised
<1> QED
  BY <1>1, ImplementsAgent, HealthFromTwoTimestamps, PTL

(* A request carries the debug header only after a recent retriable error  *)
(* (exporter.go:232): the exporter's own theorem, for the composition.     *)
THEOREM HeadersJustified == Spec => []DebugHeaderJustified
<1>1. Exporter!DebugHeaderJustified => DebugHeaderJustified
  BY DEF DebugHeaderJustified
<1> QED
  BY <1>1, HeaderJustified, ImplementsExporter, PTL

(* After a retriable error the header is left out only when an older       *)
(* error's window was open and is over (exporter.go:234).                  *)
THEOREM HeadersNotLost == Spec => []DebugHeaderNotLost
<1>1. Exporter!DebugHeaderNotLost => DebugHeaderNotLost
  BY DEF DebugHeaderNotLost
<1> QED
  BY <1>1, HeaderNotLost, ImplementsExporter, PTL
=============================================================================

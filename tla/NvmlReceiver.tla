----------------------------- MODULE NvmlReceiver -----------------------------
(***************************************************************************)
(* The nvml receivers of one collector process (client.go, scraper.go): the*)
(* library that they share, the devices that each one discovered, and its  *)
(* scrapes.  A sample of the driver is the time it was taken at, and a mean*)
(* is the set of samples it was taken over.  A reload of the configuration *)
(* stops all receivers and makes new ones in the same process.  The devices*)
(* do not touch each other, so a scrape is one step; another receiver that *)
(* stops in the middle of it makes the later queries fail, which any may.  *)
(***************************************************************************)
EXTENDS Integers, Sequences, FiniteSets, SequencesExt, NvmlMetrics

CONSTANTS
  Receivers,    \* the receivers of the configuration
  DeviceCount,  \* the devices of the host are 1 .. DeviceCount
  Accounting,   \* those that let process accounting be switched on
  Kept,         \* number of samples that the driver keeps of a device
  LastTick,     \* bound on the clock of the driver
  MaxReloads    \* bound on the number of reloads

HostDevices == 1 .. DeviceCount
Model(d)    == <<"model", d>>
UUID(d)     == <<"uuid", d>>

VARIABLES
  clock,           \* the driver's clock
  samples,         \* of a device: the samples taken so far
  nvmlInitReturn,  \* what once.Do left: "none", "success" or "error"
  library,         \* calls of nvml.Init that no nvml.Shutdown has undone
  phase,           \* of a receiver: "new", "running", "disabled", "failed", "stopped"
  client,          \* of a receiver: the nvmlClient
  reported,        \* what the step before returned, if it was a scrape
  averaged,        \* of a receiver and a device: the samples that it averaged
  forgotten,       \* ... and those that the driver forgot before
  again,           \* a receiver averaged a sample a second time
  reloads,         \* number of reloads
  shutDown         \* some receiver has called nvml.Shutdown

driver  == <<clock, samples>>
lib     == <<nvmlInitReturn, library, shutDown>>
history == <<averaged, forgotten, again>>
vars    == <<driver, lib, phase, client, reported, history, reloads>>

NoClient ==
  [devices |-> <<>>, names |-> <<>>, UUIDs |-> <<>>, lastSeen |-> <<>>, accounting |-> {}]

NoSamples == [d \in HostDevices |-> {}]

Init ==
  /\ clock = 0
  /\ samples = NoSamples
  /\ nvmlInitReturn = "none" /\ library = 0 /\ shutDown = FALSE
  /\ phase = [r \in Receivers |-> "new"]
  /\ client = [r \in Receivers |-> NoClient]
  /\ averaged = [r \in Receivers |-> NoSamples]
  /\ forgotten = [r \in Receivers |-> NoSamples]
  /\ again = FALSE
  /\ reported = {}
  /\ reloads = 0

-----------------------------------------------------------------------------
(* The driver takes samples of the devices that are busy.                  *)
Tick ==
  /\ clock < LastTick
  /\ clock' = clock + 1
  /\ \E busy \in SUBSET HostDevices :
       samples' = [d \in HostDevices |-> samples[d] \cup {t \in {clock'} : d \in busy}]
  /\ reported' = {}
  /\ UNCHANGED <<lib, phase, client, history, reloads>>

(* The samples of a device that the driver still has.                      *)
Buffer(d) == {t \in samples[d] : Cardinality({u \in samples[d] : u > t}) < Kept}

-----------------------------------------------------------------------------
(* A slip for the mutation runs: each client initialises the library.      *)
nvmlInitEachTime ==
  /\ \/ nvmlInitReturn' = "success" /\ library' = library + 1
     \/ nvmlInitReturn' = "error" /\ UNCHANGED library
  /\ UNCHANGED shutDown

(* nvmlInit: the library is initialised once per process, and what that    *)
(* returned is returned ever after.                                        *)
nvmlInit ==
  /\ IF nvmlInitReturn # "none" THEN UNCHANGED <<nvmlInitReturn, library>>
     ELSE \/ nvmlInitReturn' = "success" /\ library' = 1
          \/ nvmlInitReturn' = "error" /\ UNCHANGED library
  /\ UNCHANGED shutDown

(* discoverDevices: a device is asked for its handle and its UUID, then for*)
(* its name, and the first of these that fails skips it.                   *)
Outcomes == {"no UUID", "no name", "found"}

DevicesWith(outcome, outcomes) ==
  SelectSeq([d \in HostDevices |-> d], LAMBDA d : outcome[d] \in outcomes)

(* A slip for the mutation runs: kept before the name is asked for.        *)
UUIDsAnswered(outcome) ==
  LET found == DevicesWith(outcome, {"no name", "found"})
  IN [i \in 1 .. Len(found) |-> UUID(found[i])]

UUIDsFound(outcome) ==
  LET found == DevicesWith(outcome, {"found"})
  IN [i \in 1 .. Len(found) |-> UUID(found[i])]

NamesFound(outcome) ==
  LET found == DevicesWith(outcome, {"found"})
  IN [i \in 1 .. Len(found) |-> Model(found[i])]

(* Accounting is switched on where the device allows it.                   *)
enableProcessAccountingModeOnSupportingDevices(devices) ==
  Accounting \cap ToSet(devices)

newClient(outcome) ==
  LET found == DevicesWith(outcome, {"found"})
  IN [devices |-> found, names |-> NamesFound(outcome),
      UUIDs |-> UUIDsFound(outcome), lastSeen |-> [d \in HostDevices |-> 0],
      accounting |-> enableProcessAccountingModeOnSupportingDevices(found)]

StartDisabled(r) ==
  /\ nvmlInitReturn' = "error"
  /\ phase' = [phase EXCEPT ![r] = "disabled"]
  /\ UNCHANGED client

StartRuns(r) ==
  /\ nvmlInitReturn' = "success" /\ library' > 0
  /\ \E outcome \in [HostDevices -> Outcomes] :
       LET new == newClient(outcome) IN
       new.devices # <<>> /\ client' = [client EXCEPT ![r] = new]
  /\ phase' = [phase EXCEPT ![r] = "running"]

(* The devices cannot be counted, and never without the library, or none   *)
(* is found.  start returns the error; the library stays initialised.      *)
StartFails(r) ==
  /\ nvmlInitReturn' = "success"
  /\ phase' = [phase EXCEPT ![r] = "failed"]
  /\ UNCHANGED client

Start(r) ==
  /\ phase[r] = "new"
  /\ nvmlInit
  /\ StartDisabled(r) \/ StartRuns(r) \/ StartFails(r)
  /\ reported' = {}
  /\ UNCHANGED <<driver, history, reloads>>

-----------------------------------------------------------------------------
(* A point has the number of the device among those found, its model and   *)
(* its UUID; device is the one that was asked, and of are the samples that *)
(* a mean was taken over.                                                  *)
Point(c, i, metric, labels, of) ==
  [metric |-> metric.name, gpu_number |-> i - 1, model |-> c.names[i],
   uuid |-> c.UUIDs[i], labels |-> labels, of |-> of, device |-> c.devices[i]]

(* A slip for the mutation runs: the sample seen last is averaged again.   *)
FromLastSeen(c, d) == {t \in Buffer(d) : t >= c.lastSeen[d]}

(* getAverageGpuUtilizationSinceLastQuery: the samples averaged.  There may*)
(* be none, which is an error.                                             *)
SinceLastSeen(c, d) == {t \in Buffer(d) : t > c.lastSeen[d]}

LatestTimestamp(c, d) ==
  CHOOSE t \in Buffer(d) \cup {c.lastSeen[d]} :
    \A u \in Buffer(d) \cup {c.lastSeen[d]} : u <= t

(* collectDeviceUtilization, when the devices in answered give samples of  *)
(* a type that can be converted.  The others keep lastSeen.                *)
collectDeviceUtilization(r, answered) ==
  LET c == client[r]
      new == [d \in HostDevices |-> IF d \in answered THEN SinceLastSeen(c, d) ELSE {}]
  IN /\ client' = [client EXCEPT ![r].lastSeen =
                     [d \in HostDevices |->
                        IF d \in answered THEN LatestTimestamp(c, d) ELSE @[d]]]
     /\ averaged' = [averaged EXCEPT ![r] = [d \in HostDevices |-> @[d] \cup new[d]]]
     /\ forgotten' = [forgotten EXCEPT ![r] =
                        [d \in HostDevices |->
                           @[d] \cup ((samples[d] \ Buffer(d)) \ averaged[r][d])]]
     /\ again' = (again \/ \E d \in answered : new[d] \cap averaged[r][d] # {})

UtilizationPoints(c, answered) ==
  {Point(c, i, metricNvmlGpuUtilization, {}, SinceLastSeen(c, c.devices[i])) :
     i \in {j \in 1 .. Len(c.devices) :
              c.devices[j] \in answered /\ SinceLastSeen(c, c.devices[j]) # {}}}

(* collectDeviceMemoryInfo.                                                *)
MemoryPoints(c, answered) ==
  {Point(c, i, metricNvmlGpuMemoryBytesUsed, {state}, {}) :
     i \in {j \in 1 .. Len(c.devices) : c.devices[j] \in answered},
     state \in AttributeMemoryState}

(* collectProcessMetrics: the running processes of the devices that keep   *)
(* accounts.  What is told of a process besides its pid is left out.       *)
ProcessPoints(c, answered) ==
  {Point(c, i, metric, {"pid"}, {}) :
     i \in {j \in 1 .. Len(c.devices) : c.devices[j] \in answered \cap c.accounting},
     metric \in {metricNvmlGpuProcessesUtilization, metricNvmlGpuProcessesMaxBytesUsed}}

(* scrape: all queries are answered, or all but one, or none, as always    *)
(* without the library.  A client that is disabled asks nothing.           *)
Queries == {"utilization", "memory", "processes"} \X HostDevices

Unanswered == IF library > 0 THEN {{}, Queries} \cup {{q} : q \in Queries} ELSE {Queries}

ScrapeRunning(r) ==
  \E unanswered \in Unanswered :
    LET c == client[r]
        Answered(query) ==
          {d \in HostDevices \cap ToSet(c.devices) : <<query, d>> \notin unanswered}
    IN /\ collectDeviceUtilization(r, Answered("utilization"))
       /\ reported' = UtilizationPoints(c, Answered("utilization"))
                        \cup MemoryPoints(c, Answered("memory"))
                        \cup ProcessPoints(c, Answered("processes"))

ScrapeDisabled == reported' = {} /\ UNCHANGED <<client, history>>

Scrape(r) ==
  /\ \/ phase[r] = "running" /\ ScrapeRunning(r)
     \/ phase[r] = "disabled" /\ ScrapeDisabled
  /\ UNCHANGED <<driver, lib, phase, reloads>>

-----------------------------------------------------------------------------
(* stop: a client that has the library shuts it down, for all of them.  The*)
(* client is not used again.                                               *)
Stop(r) ==
  /\ phase[r] \in {"running", "disabled", "failed"}
  /\ phase' = [phase EXCEPT ![r] = "stopped"]
  /\ IF phase[r] = "running"
       THEN library' = (IF library > 0 THEN library - 1 ELSE 0) /\ shutDown' = TRUE
       ELSE UNCHANGED <<library, shutDown>>
  /\ client' = [client EXCEPT ![r] = NoClient]
  /\ averaged' = [averaged EXCEPT ![r] = NoSamples]
  /\ forgotten' = [forgotten EXCEPT ![r] = NoSamples]
  /\ UNCHANGED again
  /\ reported' = {}
  /\ UNCHANGED <<driver, nvmlInitReturn, reloads>>

(* The collector reloads its configuration: newNvmlScraper, for each.      *)
Reload ==
  /\ reloads < MaxReloads
  /\ \A r \in Receivers : phase[r] = "stopped"
  /\ reloads' = reloads + 1
  /\ phase' = [r \in Receivers |-> "new"]
  /\ reported' = {}
  /\ UNCHANGED <<driver, lib, client, history>>

Next ==
  \/ Tick
  \/ \E r \in Receivers : Start(r) \/ Scrape(r) \/ Stop(r)
  \/ Reload

Spec == Init /\ [][Next]_vars
-----------------------------------------------------------------------------
(* A receiver averages every sample once: what it has seen and the driver  *)
(* had not forgotten by then, whichever queries failed in between          *)
(* (client.go:290-322).  And a point is labelled with the model and the    *)
(* UUID of the device it is about, whichever devices were skipped          *)
(* (client.go:173-197, scraper.go:71-73).                                  *)
EverySampleOnce ==
  /\ ~ again
  /\ \A r \in Receivers, d \in HostDevices : phase[r] = "running" =>
       averaged[r][d] = {t \in samples[d] : t <= client[r].lastSeen[d]} \ forgotten[r][d]
  /\ \A p \in reported : p.model = Model(p.device) /\ p.uuid = UUID(p.device)

(* The library is there exactly until the first client stops, whatever     *)
(* fails to start: then the other receivers, and those of every later      *)
(* configuration, find it gone for good (client.go:65-72 and 130-138).     *)
LibraryUntilFirstStop ==
  library > 0 <=> nvmlInitReturn = "success" /\ ~ shutDown
=============================================================================

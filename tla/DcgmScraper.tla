----------------------------- MODULE DcgmScraper -----------------------------
(***************************************************************************)
(* The DCGM receiver's two goroutines (scraper.go): the connect loop, which*)
(* holds the DCGM client and polls it, and the controller, which scrapes   *)
(* and stops.  They meet on metricsCh, unbuffered, and collectTriggerCh,   *)
(* of capacity 1.  A select is a set of alternatives, one per ready case.  *)
(* The clock is left out: a timer case is ready at any time.               *)
(***************************************************************************)
EXTENDS Naturals

VARIABLES
  loop,       \* runConnectLoop: "init", "collect", "wait" (pollClient's select),
              \* "offer" (its own select), "done" (returned, metricsCh closed)
  connected,  \* a dcgmClient exists and was not cleaned up
  devices,    \* client.devices: "none" (no client), "empty" or "data"
  trigger,    \* collectTriggerCh holds a request
  cancelled,  \* the scrape context is done
  control,    \* the controller: "idle", "receive" (in scrape), "stopping", "stopped"
  scraped,    \* what the last scrape returned
  callFresh,  \* the DCGM query in progress began after the current scrape did
  dataFresh,  \* devices holds the answer of such a query
  unanswered  \* the last query failed or answered blank values only

vars == <<loop, connected, devices, trigger, cancelled, control, scraped,
          callFresh, dataFresh, unanswered>>

Init ==
  /\ loop = "init"
  /\ connected = FALSE
  /\ devices = "none"
  /\ trigger = FALSE
  /\ cancelled = FALSE
  /\ control = "idle"
  /\ scraped = "nothing"
  /\ callFresh = FALSE
  /\ dataFresh = FALSE
  /\ unanswered = FALSE

-----------------------------------------------------------------------------
(* The connect loop.                                                       *)

(* initClient: DCGM cannot be reached, or a client cannot be created.      *)
InitFails ==
  /\ loop = "init"
  /\ loop' = "offer"
  /\ UNCHANGED <<connected, devices, trigger, cancelled, control, scraped, callFresh, dataFresh, unanswered>>

(* The step from a point of pollClient's loop into collect.                *)
StartCollect ==
  /\ loop' = "collect"
  /\ callFresh' = TRUE

InitSucceeds ==
  /\ loop = "init"
  /\ connected' = TRUE
  /\ devices' = "empty"
  /\ StartCollect
  /\ UNCHANGED <<trigger, cancelled, control, scraped, dataFresh, unanswered>>

(* collect: an error leaves client.devices alone, and so does an answer    *)
(* with only blank values.                                                 *)
CollectFails ==
  /\ loop = "collect"
  /\ loop' = "wait"
  /\ unanswered' = TRUE
  /\ UNCHANGED <<connected, devices, trigger, cancelled, control, scraped, callFresh, dataFresh>>

CollectSucceeds ==
  /\ loop = "collect"
  /\ loop' = "wait"
  /\ devices' = "data"
  /\ dataFresh' = callFresh
  /\ unanswered' = FALSE
  /\ UNCHANGED <<connected, trigger, cancelled, control, scraped, callFresh>>

(* A slip for the mutation runs: the case is missing.                      *)
PollNotCancelled == FALSE

(* case <-ctx.Done() of pollClient, with the deferred cleanup.             *)
PollCancelled ==
  /\ loop = "wait" /\ cancelled
  /\ loop' = "offer"
  /\ connected' = FALSE
  /\ devices' = "none"
  /\ UNCHANGED <<trigger, cancelled, control, scraped, callFresh, dataFresh, unanswered>>

(* case <-collectTriggerCh and case <-after: both lead to another collect. *)
PollTriggered ==
  /\ loop = "wait" /\ trigger
  /\ trigger' = FALSE
  /\ StartCollect
  /\ UNCHANGED <<connected, devices, cancelled, control, scraped, dataFresh, unanswered>>

PollTimer ==
  /\ loop = "wait"
  /\ StartCollect
  /\ UNCHANGED <<connected, devices, trigger, cancelled, control, scraped, dataFresh, unanswered>>

(* case <-ctx.Done() of runConnectLoop, with the deferred close.           *)
LoopCancelled ==
  /\ loop = "offer" /\ cancelled
  /\ loop' = "done"
  /\ UNCHANGED <<connected, devices, trigger, cancelled, control, scraped, callFresh, dataFresh, unanswered>>

LoopTimer ==
  /\ loop = "offer"
  /\ loop' = "init"
  /\ UNCHANGED <<connected, devices, trigger, cancelled, control, scraped, callFresh, dataFresh, unanswered>>

-----------------------------------------------------------------------------
(* metricsCh: the loop's two send cases meet the receive in scrape.        *)

HandOver ==
  /\ control = "receive" /\ loop = "wait"
  /\ control' = "idle"
  /\ scraped' = IF devices = "data" THEN IF dataFresh THEN "fresh" ELSE "stale"
                ELSE "empty"
  /\ UNCHANGED <<loop, connected, devices, trigger, cancelled, callFresh, dataFresh, unanswered>>

(* A slip for the mutation runs: the case is missing.                      *)
NoEmptyOffer == FALSE

(* The empty map un-hangs a scraper; the loop tries to connect at once.    *)
HandOverEmpty ==
  /\ control = "receive" /\ loop = "offer"
  /\ control' = "idle"
  /\ loop' = "init"
  /\ scraped' = "empty"
  /\ UNCHANGED <<connected, devices, trigger, cancelled, callFresh, dataFresh, unanswered>>

-----------------------------------------------------------------------------
(* The controller: it scrapes one at a time, and waits for the scrape in   *)
(* progress before it stops the scraper.                                   *)

(* A slip for the mutation runs: no collection is requested.               *)
ScrapeUntriggered ==
  /\ control = "idle"
  /\ control' = "receive"
  /\ callFresh' = FALSE
  /\ dataFresh' = FALSE
  /\ UNCHANGED <<loop, connected, devices, trigger, cancelled, scraped, unanswered>>

(* scrape up to its second select: the request is dropped when one is      *)
(* already there.                                                          *)
Scrape ==
  /\ control = "idle"
  /\ control' = "receive"
  /\ trigger' = TRUE
  /\ callFresh' = FALSE
  /\ dataFresh' = FALSE
  /\ UNCHANGED <<loop, connected, devices, cancelled, scraped, unanswered>>

(* case <-ctx.Done() of scrape: the controller's timeout.                  *)
ScrapeTimeout ==
  /\ control = "receive"
  /\ control' = "idle"
  /\ scraped' = "error"
  /\ UNCHANGED <<loop, connected, devices, trigger, cancelled, callFresh, dataFresh, unanswered>>

(* stop: cancel the context, then wait for the goroutine.                  *)
Stop ==
  /\ control = "idle"
  /\ control' = "stopping"
  /\ cancelled' = TRUE
  /\ UNCHANGED <<loop, connected, devices, trigger, scraped, callFresh, dataFresh, unanswered>>

StopReturns ==
  /\ control = "stopping" /\ loop = "done"
  /\ control' = "stopped"
  /\ UNCHANGED <<loop, connected, devices, trigger, cancelled, scraped, callFresh, dataFresh, unanswered>>

-----------------------------------------------------------------------------
InitClient == InitFails \/ InitSucceeds
Collect    == CollectFails \/ CollectSucceeds
Timer      == PollTimer \/ LoopTimer
Cancelled  == PollCancelled \/ LoopCancelled
Meet       == HandOver \/ HandOverEmpty

Next ==
  \/ InitClient \/ Collect \/ PollTriggered \/ Timer \/ Cancelled \/ Meet
  \/ Scrape \/ ScrapeTimeout \/ Stop \/ StopReturns

(* Calls into DCGM return and timers fire.  Go's select chooses at random  *)
(* among the ready cases, so that a case that is ready again and again is  *)
(* taken.  Nothing makes the controller scrape, time out or stop.          *)
Fairness ==
  /\ WF_vars(InitClient) /\ WF_vars(Collect) /\ WF_vars(Timer)
  /\ SF_vars(Meet) /\ SF_vars(PollCancelled) /\ SF_vars(LoopCancelled)
  /\ WF_vars(StopReturns)

Spec == Init /\ [][Next]_vars /\ Fairness

-----------------------------------------------------------------------------
(* Every variable stays in its type: the states of runConnectLoop,         *)
(* pollClient, scrape and stop.                                            *)
TypeOK ==
  /\ loop \in {"init", "collect", "wait", "offer", "done"}
  /\ connected \in BOOLEAN
  /\ devices \in {"none", "empty", "data"}
  /\ trigger \in BOOLEAN
  /\ cancelled \in BOOLEAN
  /\ control \in {"idle", "receive", "stopping", "stopped"}
  /\ scraped \in {"nothing", "fresh", "stale", "empty", "error"}
  /\ callFresh \in BOOLEAN
  /\ dataFresh \in BOOLEAN
  /\ unanswered \in BOOLEAN

(* A scrape returns what was asked of DCGM before it began only if its     *)
(* request for a collection was not served yet (the select of pollClient   *)
(* took the send first), or if that collection failed (scraper.go:221-227).*)
StaleUntilServed ==
  [][control = "receive" /\ control' = "idle" /\ scraped' = "stale"
       => trigger \/ unanswered]_vars

(* Every scrape returns, whether or not DCGM can be reached                *)
(* (scraper.go:195, "Un-hang any scrapers waiting for data").              *)
ScrapeReturns == control = "receive" ~> control = "idle"

(* stop returns: the loop sees the cancelled context wherever it is        *)
(* (scraper.go:85-88).                                                     *)
StopCompletes == control = "stopping" ~> control = "stopped"
=============================================================================

---------------------------- MODULE VarnishScraper ----------------------------
(***************************************************************************)
(* The varnish receiver: a scrape runs varnishstat, parses what it prints  *)
(* and records its counters.  A counter that is not in the output leaves   *)
(* the zero of the Go struct.  Numbers are left out but for that zero.     *)
(***************************************************************************)
EXTENDS VarnishMetrics, FiniteSets

(* The fields of Stats.                                                    *)
Stats ==
  {"backend_conn", "backend_unhealthy", "backend_busy", "backend_fail",
   "backend_reuse", "backend_recycle", "backend_retry", "cache_hit",
   "cache_hitpass", "cache_miss", "threads_created", "threads_destroyed",
   "threads_failed", "sess_conn", "sess_fail", "sess_dropped", "req_dropped",
   "n_object", "n_expired", "n_lru_nuked", "n_lru_moved", "client_req_400",
   "client_req_417", "client_resp_500", "client_req", "backend_req"}

(* The record functions: which counter is which attribute of a metric.     *)
Series(metric, mappings) ==
  {[metric |-> metric, attribute |-> a, counter |-> mappings[a]] : a \in DOMAIN mappings}

recordVarnishBackendConnectionsCountDataPoint ==
  Series(metricVarnishBackendConnectionCount,
    [success |-> "backend_conn", recycle |-> "backend_recycle",
     reuse |-> "backend_reuse", fail |-> "backend_fail",
     unhealthy |-> "backend_unhealthy", busy |-> "backend_busy",
     retry |-> "backend_retry"])

recordVarnishCacheOperationsCountDataPoint ==
  Series(metricVarnishCacheOperationCount,
    [hit |-> "cache_hit", hit_pass |-> "cache_hitpass", miss |-> "cache_miss"])

recordVarnishThreadOperationsCountDataPoint ==
  Series(metricVarnishThreadOperationCount,
    [created |-> "threads_created", destroyed |-> "threads_destroyed",
     failed |-> "threads_failed"])

recordVarnishSessionCountDataPoint ==
  Series(metricVarnishSessionCount,
    [accepted |-> "sess_conn", dropped |-> "sess_dropped", failed |-> "sess_fail"])

recordVarnishClientRequestsCountDataPoint ==
  Series(metricVarnishClientRequestCount,
    [received |-> "client_req", dropped |-> "req_dropped"])

recordVarnishClientRequestErrorCountDataPoint ==
  Series(metricVarnishClientRequestErrorCount,
    [code \in {"400", "417", "500"} |->
       CASE code = "400" -> "client_req_400"
         [] code = "417" -> "client_req_417"
         [] code = "500" -> "client_resp_500"])

(* The metrics without attributes, which scrape records itself.            *)
Plain(metric, counter) == {[metric |-> metric, attribute |-> "", counter |-> counter]}

Recorded ==
  recordVarnishBackendConnectionsCountDataPoint
    \cup recordVarnishCacheOperationsCountDataPoint
    \cup recordVarnishThreadOperationsCountDataPoint
    \cup recordVarnishSessionCountDataPoint
    \cup recordVarnishClientRequestsCountDataPoint
    \cup recordVarnishClientRequestErrorCountDataPoint
    \cup Plain(metricVarnishObjectExpired, "n_expired")
    \cup Plain(metricVarnishObjectNuked, "n_lru_nuked")
    \cup Plain(metricVarnishObjectMoved, "n_lru_moved")
    \cup Plain(metricVarnishObjectCount, "n_object")
    \cup Plain(metricVarnishBackendRequestCount, "backend_req")

-----------------------------------------------------------------------------
VARIABLES
  cacheDir,   \* cfg.CacheDir is set
  metrics,    \* cfg.Metrics: what the user's configuration says
  mbConfig,   \* the configuration of the metrics builder
  started,    \* "no", "failed" or "yes"
  cacheName,  \* "", "host" or the last name of CacheDir, "dir"
  result      \* of the last scrape: whether it failed, and its points

vars == <<cacheDir, metrics, mbConfig, started, cacheName, result>>

NoPoints(failed) == [failed |-> failed, resource |-> "", points |-> {}]

(* The configuration of the user is not asked.                             *)
newVarnishScraper == mbConfig = VarnishDefaultMetricsConfig

(* Any one metric may be disabled.                                         *)
UserConfigs ==
  {VarnishDefaultMetricsConfig}
    \cup {[VarnishDefaultMetricsConfig EXCEPT ![m].enabled = FALSE] : m \in VarnishMetricsInfo}

Init ==
  /\ cacheDir \in BOOLEAN
  /\ metrics \in UserConfigs
  /\ newVarnishScraper
  /\ started = "no"
  /\ cacheName = ""
  /\ result = NoPoints(FALSE)

(* start: without CacheDir the name is that of the host, if it has one.    *)
Start ==
  /\ started = "no"
  /\ \/ cacheDir /\ cacheName' = "dir" /\ started' = "yes"
     \/ ~ cacheDir /\ cacheName' = "host" /\ started' = "yes"
     \/ ~ cacheDir /\ started' = "failed" /\ UNCHANGED cacheName
  /\ UNCHANGED <<cacheDir, metrics, mbConfig, result>>

(* GetStats: varnishstat fails, or prints something that is not JSON, or   *)
(* all counters but perhaps one, with or without the field "counters"      *)
(* around them, which parseStats takes off.                                *)
ScrapeFails ==
  /\ started = "yes"
  /\ result' = NoPoints(TRUE)
  /\ UNCHANGED <<cacheDir, metrics, mbConfig, started, cacheName>>

Reported == {s \in Recorded : mbConfig[s.metric].enabled}

Point(series, absent) == [series |-> series, zero |-> series.counter \in absent]

Scrape ==
  /\ started = "yes"
  /\ \E absent \in {{}} \cup {{c} : c \in Stats} :
       result' = [failed |-> FALSE, resource |-> cacheName,
                  points |-> {Point(s, absent) : s \in Reported}]
  /\ UNCHANGED <<cacheDir, metrics, mbConfig, started, cacheName>>

Next == Start \/ ScrapeFails \/ Scrape

Spec == Init /\ [][Next]_vars
-----------------------------------------------------------------------------
(* A scrape that succeeds with all metrics enabled reports every counter   *)
(* of Stats once, each in a series of its own (metrics.go:28-107 against   *)
(* 109-188 and scraper.go:79-95).                                          *)
SeriesDistinct ==
  result.points # {} /\ (\A m \in VarnishMetricsInfo : mbConfig[m].enabled) =>
    LET series == {p.series : p \in result.points} IN
    /\ {s.counter : s \in series} = Stats
    /\ Cardinality(series) = Cardinality(Stats)
    /\ Cardinality({<<s.metric, s.attribute>> : s \in series}) = Cardinality(Stats)

(* A metric that the user disables is not reported, as documentation.md    *)
(* says: "Each of them can be disabled".                                   *)
DisabledNotReported ==
  \A p \in result.points : metrics[p.series.metric].enabled
=============================================================================

---------------------------- MODULE VarnishMetrics ----------------------------
(***************************************************************************)
(* The metrics that the metadata package of the varnish receiver           *)
(* declares.  A row stands for the generated type of a metric: its init,   *)
(* recordDataPoint, emit and constructor are one template, which the       *)
(* module MetricsBuilder has once for all rows.                            *)
(***************************************************************************)
EXTENDS MetricTypes

AttributeBackendConnectionType ==
  {"success", "recycle", "reuse", "fail", "unhealthy", "busy", "retry"}
AttributeCacheOperations == {"hit", "miss", "hit_pass"}
AttributeSessionType == {"accepted", "dropped", "failed"}
AttributeState == {"received", "dropped"}
AttributeThreadOperations == {"created", "destroyed", "failed"}

metricVarnishBackendConnectionCount ==
  Counter("varnish.backend.connection.count", "Int", {"kind"})
metricVarnishBackendRequestCount ==
  Counter("varnish.backend.request.count", "Int", {})
metricVarnishCacheOperationCount ==
  Counter("varnish.cache.operation.count", "Int", {"operation"})
metricVarnishClientRequestCount ==
  Counter("varnish.client.request.count", "Int", {"state"})
metricVarnishClientRequestErrorCount ==
  Counter("varnish.client.request.error.count", "Int", {"status_code"})
metricVarnishObjectCount == UpDownCounter("varnish.object.count", "Int", {})
metricVarnishObjectExpired == Counter("varnish.object.expired", "Int", {})
metricVarnishObjectMoved == Counter("varnish.object.moved", "Int", {})
metricVarnishObjectNuked == Counter("varnish.object.nuked", "Int", {})
metricVarnishSessionCount == Counter("varnish.session.count", "Int", {"kind"})
metricVarnishThreadOperationCount ==
  Counter("varnish.thread.operation.count", "Int", {"operation"})

VarnishMetricsInfo ==
  {metricVarnishBackendConnectionCount, metricVarnishBackendRequestCount,
   metricVarnishCacheOperationCount, metricVarnishClientRequestCount,
   metricVarnishClientRequestErrorCount, metricVarnishObjectCount,
   metricVarnishObjectExpired, metricVarnishObjectMoved,
   metricVarnishObjectNuked, metricVarnishSessionCount,
   metricVarnishThreadOperationCount}

VarnishDefaultMetricsConfig == [m \in VarnishMetricsInfo |-> DefaultConfig(m, TRUE)]
===============================================================================

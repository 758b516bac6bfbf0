---------------------------- MODULE MongodbMetrics ----------------------------
(***************************************************************************)
(* The metrics that the metadata package of the mongodb receiver           *)
(* declares.  A row stands for the generated type of a metric: its init,   *)
(* recordDataPoint, emit and constructor are one template, which the       *)
(* module MetricsBuilder has once for all rows.                            *)
(***************************************************************************)
EXTENDS MetricTypes

AttributeConnectionType == {"active", "available", "current"}
AttributeLockMode ==
  {"shared", "exclusive", "intent_shared", "intent_exclusive"}
AttributeLockType ==
  {"parallel_batch_write_mode", "replication_state_transition", "global",
   "database", "collection", "mutex", "metadata", "oplog"}
AttributeMemoryType == {"resident", "virtual"}
AttributeOperation ==
  {"insert", "query", "update", "delete", "getmore", "command"}
AttributeType == {"hit", "miss"}

metricMongodbCacheOperations ==
  Counter("mongodb.cache.operations", "Int", {"type"})
metricMongodbCollectionCount ==
  UpDownCounter("mongodb.collection.count", "Int", {"database"})
metricMongodbConnectionCount ==
  UpDownCounter("mongodb.connection.count", "Int", {"database", "type"})
metricMongodbCursorCount == UpDownCounter("mongodb.cursor.count", "Int", {})
metricMongodbCursorTimeoutCount ==
  UpDownCounter("mongodb.cursor.timeout.count", "Int", {})
metricMongodbDataSize ==
  UpDownCounter("mongodb.data.size", "Int", {"database"})
metricMongodbDatabaseCount ==
  UpDownCounter("mongodb.database.count", "Int", {})
metricMongodbDocumentOperationCount ==
  UpDownCounter("mongodb.document.operation.count", "Int",
    {"database", "operation"})
metricMongodbExtentCount ==
  UpDownCounter("mongodb.extent.count", "Int", {"database"})
metricMongodbGlobalLockTime == Counter("mongodb.global_lock.time", "Int", {})
metricMongodbIndexAccessCount ==
  UpDownCounter("mongodb.index.access.count", "Int",
    {"database", "collection"})
metricMongodbIndexCount ==
  UpDownCounter("mongodb.index.count", "Int", {"database"})
metricMongodbIndexSize ==
  UpDownCounter("mongodb.index.size", "Int", {"database"})
metricMongodbLockAcquireCount ==
  Counter("mongodb.lock.acquire.count", "Int",
    {"database", "lock_type", "lock_mode"})
metricMongodbLockAcquireTime ==
  Counter("mongodb.lock.acquire.time", "Int",
    {"database", "lock_type", "lock_mode"})
metricMongodbLockAcquireWaitCount ==
  Counter("mongodb.lock.acquire.wait_count", "Int",
    {"database", "lock_type", "lock_mode"})
metricMongodbLockDeadlockCount ==
  Counter("mongodb.lock.deadlock.count", "Int",
    {"database", "lock_type", "lock_mode"})
metricMongodbMemoryUsage ==
  UpDownCounter("mongodb.memory.usage", "Int", {"database", "type"})
metricMongodbNetworkIoReceive ==
  UpDownCounter("mongodb.network.io.receive", "Int", {})
metricMongodbNetworkIoTransmit ==
  UpDownCounter("mongodb.network.io.transmit", "Int", {})
metricMongodbNetworkRequestCount ==
  UpDownCounter("mongodb.network.request.count", "Int", {})
metricMongodbObjectCount ==
  UpDownCounter("mongodb.object.count", "Int", {"database"})
metricMongodbOperationCount ==
  Counter("mongodb.operation.count", "Int", {"operation"})
metricMongodbOperationTime ==
  Counter("mongodb.operation.time", "Int", {"operation"})
metricMongodbSessionCount == UpDownCounter("mongodb.session.count", "Int", {})
metricMongodbStorageSize ==
  Counter("mongodb.storage.size", "Int", {"database"})

MongodbMetricsInfo ==
  {metricMongodbCacheOperations, metricMongodbCollectionCount,
   metricMongodbConnectionCount, metricMongodbCursorCount,
   metricMongodbCursorTimeoutCount, metricMongodbDataSize,
   metricMongodbDatabaseCount, metricMongodbDocumentOperationCount,
   metricMongodbExtentCount, metricMongodbGlobalLockTime,
   metricMongodbIndexAccessCount, metricMongodbIndexCount,
   metricMongodbIndexSize, metricMongodbLockAcquireCount,
   metricMongodbLockAcquireTime, metricMongodbLockAcquireWaitCount,
   metricMongodbLockDeadlockCount, metricMongodbMemoryUsage,
   metricMongodbNetworkIoReceive, metricMongodbNetworkIoTransmit,
   metricMongodbNetworkRequestCount, metricMongodbObjectCount,
   metricMongodbOperationCount, metricMongodbOperationTime,
   metricMongodbSessionCount, metricMongodbStorageSize}

MongodbDefaultMetricsConfig ==
  [m \in MongodbMetricsInfo |->
     DefaultConfig(m, m \notin {metricMongodbLockAcquireCount, metricMongodbLockAcquireTime,
       metricMongodbLockAcquireWaitCount, metricMongodbLockDeadlockCount})]
===============================================================================

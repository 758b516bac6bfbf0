----------------------------- MODULE MongoRecords -----------------------------
(***************************************************************************)
(* What the mongodb receiver records of the server's answers (metrics.go): *)
(* each record function reads some paths of a document and records the     *)
(* number there as a point of a metric.  A reading is a path together with *)
(* the series that it goes to; the numbers, and their conversion to bytes  *)
(* or milliseconds, are left out.  Versions are numbers, 32 for 3.2.       *)
(***************************************************************************)
EXTENDS Integers, MongodbMetrics

Reading(path, metric, attributes) ==
  [path |-> path, metric |-> metric.name, attributes |-> attributes]

operationsMap ==
  [insert |-> "insert", queries |-> "query", update |-> "update",
   remove |-> "delete", getmore |-> "getmore", commands |-> "command"]

documentMap == [inserted |-> "insert", updated |-> "update", deleted |-> "delete"]

lockTypeMap ==
  [ParallelBatchWriterMode |-> "parallel_batch_write_mode",
   ReplicationStateTransition |-> "replication_state_transition",
   Global |-> "global", Database |-> "database", Collection |-> "collection",
   Mutex |-> "mutex", Metadata |-> "metadata", oplog |-> "oplog"]

lockModeMap ==
  [R |-> "shared", W |-> "exclusive", r |-> "intent_shared", w |-> "intent_exclusive"]

-----------------------------------------------------------------------------
(* The answer to dbStats.                                                  *)
PerDatabase(db, key, metric) == {Reading(<<key>>, metric, [database |-> db])}

(* A slip for the mutation runs: the points do not say which database.     *)
recordCollectionsOfAny(db) ==
  {Reading(<<"collections">>, metricMongodbCollectionCount, [database |-> "any"])}

recordCollections(db) == PerDatabase(db, "collections", metricMongodbCollectionCount)
recordDataSize(db)    == PerDatabase(db, "dataSize", metricMongodbDataSize)
recordStorageSize(db) == PerDatabase(db, "storageSize", metricMongodbStorageSize)
recordObjectCount(db) == PerDatabase(db, "objects", metricMongodbObjectCount)
recordIndexCount(db)  == PerDatabase(db, "indexes", metricMongodbIndexCount)
recordIndexSize(db)   == PerDatabase(db, "indexSize", metricMongodbIndexSize)

recordExtentCount(version, db) ==
  IF version < 44 THEN PerDatabase(db, "numExtents", metricMongodbExtentCount) ELSE {}

recordDBStats(version, db) ==
  recordCollections(db) \cup recordDataSize(db) \cup recordExtentCount(version, db)
    \cup recordIndexSize(db) \cup recordIndexCount(db) \cup recordObjectCount(db)
    \cup recordStorageSize(db)

-----------------------------------------------------------------------------
(* The answer to serverStatus, for a database.                             *)
recordConnections(version, db) ==
  {Reading(<<"connections", ct>>, metricMongodbConnectionCount,
           [database |-> db, type |-> ct]) :
     ct \in {c \in AttributeConnectionType : c = "active" => version >= 40}}

recordMemoryUsage(db) ==
  {Reading(<<"mem", mt>>, metricMongodbMemoryUsage, [database |-> db, type |-> mt]) :
     mt \in AttributeMemoryType}

recordDocumentOperations(db) ==
  {Reading(<<"metrics", "document", op>>, metricMongodbDocumentOperationCount,
           [database |-> db, operation |-> documentMap[op]]) : op \in DOMAIN documentMap}

(* The four record functions for locks, which differ in one key and in the *)
(* metric: two of the types of lock came with version 4.2.                 *)
LockTypes(version) ==
  {type \in DOMAIN lockTypeMap :
     type \in {"ParallelBatchWriterMode", "ReplicationStateTransition"} => version >= 42}

recordLocks(version, db, key, metric) ==
  {Reading(<<"locks", type, key, mode>>, metric,
           [database |-> db, lock_type |-> lockTypeMap[type],
            lock_mode |-> lockModeMap[mode]]) :
     type \in IF version < 32 THEN {} ELSE LockTypes(version),
     mode \in DOMAIN lockModeMap}

recordLockAcquireCounts(version, db) ==
  recordLocks(version, db, "acquireCount", metricMongodbLockAcquireCount)
recordLockAcquireWaitCounts(version, db) ==
  recordLocks(version, db, "acquireWaitCount", metricMongodbLockAcquireWaitCount)
recordLockTimeAcquiringMicros(version, db) ==
  recordLocks(version, db, "timeAcquiringMicros", metricMongodbLockAcquireTime)
recordLockDeadlockCount(version, db) ==
  recordLocks(version, db, "deadlockCount", metricMongodbLockDeadlockCount)

recordNormalServerStats(version, db) ==
  recordConnections(version, db) \cup recordDocumentOperations(db)
    \cup recordMemoryUsage(db) \cup recordLockAcquireCounts(version, db)
    \cup recordLockAcquireWaitCounts(version, db)
    \cup recordLockTimeAcquiringMicros(version, db)
    \cup recordLockDeadlockCount(version, db)

-----------------------------------------------------------------------------
(* The answer to serverStatus of the database admin, about the server.  The*)
(* storage engine is WiredTiger: with another there are no sessions and no *)
(* cache operations.                                                       *)
PerServer(path, metric) == {Reading(path, metric, <<>>)}

recordSessionCount(version) ==
  IF version < 30 THEN {}
  ELSE PerServer(<<"wiredTiger", "session", "open session count">>,
                 metricMongodbSessionCount)

recordOperations ==
  {Reading(<<"opcounters", op>>, metricMongodbOperationCount, [operation |-> op]) :
     op \in AttributeOperation}

recordCacheOperations(version) ==
  IF version < 30 THEN {}
  ELSE {Reading(<<"wiredTiger", "cache", "pages read into cache">>,
                metricMongodbCacheOperations, [type |-> "miss"]),
        Reading(<<"wiredTiger", "cache", "pages requested from the cache">>,
                metricMongodbCacheOperations, [type |-> "hit"])}

recordGlobalLockTime ==
  PerServer(<<"globalLock", "totalTime">>, metricMongodbGlobalLockTime)

recordCursorCount ==
  PerServer(<<"metrics", "cursor", "open", "total">>, metricMongodbCursorCount)

recordCursorTimeoutCount ==
  PerServer(<<"metrics", "cursor", "timedOut">>, metricMongodbCursorTimeoutCount)

recordNetworkCount ==
  PerServer(<<"network", "bytesIn">>, metricMongodbNetworkIoReceive)
    \cup PerServer(<<"network", "bytesOut">>, metricMongodbNetworkIoTransmit)
    \cup PerServer(<<"network", "numRequests">>, metricMongodbNetworkRequestCount)

recordAdminStats(version) ==
  recordCacheOperations(version) \cup recordCursorCount \cup recordCursorTimeoutCount
    \cup recordGlobalLockTime \cup recordNetworkCount \cup recordOperations
    \cup recordSessionCount(version)

-----------------------------------------------------------------------------
(* The answer to indexStats: the accesses of all indexes of a collection   *)
(* are added up first.                                                     *)
recordIndexAccess(version, db, col) ==
  IF version < 32 THEN {}
  ELSE {Reading(<<"accesses", "ops">>, metricMongodbIndexAccessCount,
                [database |-> db, collection |-> col])}

(* The answer to top: the times of all collections are added up first.     *)
recordOperationTime ==
  {Reading(<<"totals", op, "time">>, metricMongodbOperationTime,
           [operation |-> operationsMap[op]]) : op \in DOMAIN operationsMap}

RecordDatabaseCount == PerServer(<<>>, metricMongodbDatabaseCount)
=============================================================================

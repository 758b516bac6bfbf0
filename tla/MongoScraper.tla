----------------------------- MODULE MongoScraper -----------------------------
(***************************************************************************)
(* The mongodb receiver (scraper.go): a scrape asks the server several     *)
(* questions, each of which may fail, and records the answers in a metrics *)
(* builder.  EmitForResource moves everything recorded so far to the       *)
(* result, under one resource.  The data points that one question yields   *)
(* are one point of the model; MongoRecords has what they are.             *)
(***************************************************************************)
EXTENDS FiniteSets, MongoRecords

CONSTANTS
  Versions,     \* versions that the server may have
  Databases,    \* databases of the server
  Collections,  \* collections of a database
  NoResource    \* a resource without the attribute database

ASSUME ResourceAssumption == NoResource \notin Databases
ASSUME ServerAssumption   == IsFiniteSet(Databases) /\ IsFiniteSet(Collections)
ASSUME VersionAssumption  == Versions \subseteq Nat \ {0}

NoVersion == 0  \* mongoVersion is nil

CountPoint          == [what |-> "count"]
AdminPoint          == [what |-> "admin"]
TopPoint            == [what |-> "top"]
StatsPoint(db)      == [what |-> "stats", db |-> db]
StatusPoint(db)     == [what |-> "status", db |-> db]
IndexPoint(db, col) == [what |-> "index", db |-> db, col |-> col]

ServerPoints == {CountPoint, AdminPoint, TopPoint}
IndexPoints == {IndexPoint(db, col) : db \in Databases, col \in Collections}
Points ==
  ServerPoints \cup IndexPoints
    \cup {StatsPoint(db) : db \in Databases} \cup {StatusPoint(db) : db \in Databases}

(* The readings behind a point, when the answer has all its keys.          *)
ReadingsOf(version, p) ==
  CASE p.what = "count"  -> RecordDatabaseCount
    [] p.what = "admin"  -> recordAdminStats(version)
    [] p.what = "top"    -> recordOperationTime
    [] p.what = "stats"  -> recordDBStats(version, p.db)
    [] p.what = "status" -> recordNormalServerStats(version, p.db)
    [] p.what = "index"  -> recordIndexAccess(version, p.db, p.col)

Readings ==
  [version \in Versions |->
     [p \in Points |-> {[of |-> p, reading |-> r] : r \in ReadingsOf(version, p)}]]

(* The failed questions that have no points of their own.                  *)
NamesQuery           == [what |-> "names"]
CollectionsQuery(db) == [what |-> "collections", db |-> db]
Queries == Points \cup {NamesQuery} \cup {CollectionsQuery(db) : db \in Databases}

VARIABLES
  client,        \* mongodbScraper.client: "none", "connected", "disconnected"
  mongoVersion,  \* the server's version, or NoVersion
  step,          \* where scrape is; "idle" between scrapes
  listed,        \* the databases of this scrape
  left,          \* those that are not done
  current,       \* the database at hand
  colls,         \* its collections that are not done
  recorded,      \* data points in the metrics builder, not emitted yet
  emitted,       \* metricsBuffer: pairs of a point and its resource
  failed,        \* questions of this scrape that failed
  incomplete     \* points of this scrape for which the answer lacked keys

scrapeVars == <<listed, left, current, colls, emitted>>
vars == <<client, mongoVersion, step, scrapeVars, recorded, failed, incomplete>>

Init ==
  /\ client = "none"
  /\ mongoVersion = NoVersion
  /\ step = "idle"
  /\ listed = {} /\ left = {} /\ colls = {}
  /\ current = NoResource
  /\ recorded = {}
  /\ emitted = {}
  /\ failed = {}
  /\ incomplete = {}

-----------------------------------------------------------------------------
Start ==
  /\ client = "none"
  /\ client' \in {"none", "connected"}
  /\ UNCHANGED <<mongoVersion, step, scrapeVars, recorded, failed, incomplete>>

Shutdown ==
  /\ step = "idle"
  /\ client' = IF client = "none" THEN "none" ELSE "disconnected"
  /\ UNCHANGED <<mongoVersion, step, scrapeVars, recorded, failed, incomplete>>

(* scrape up to collectMetrics: the version is asked for until it is known,*)
(* and a scrape that cannot tell it returns an error and nothing else.     *)
Scrape ==
  /\ step = "idle" /\ client = "connected"
  /\ mongoVersion' \in IF mongoVersion = NoVersion THEN Versions \cup {NoVersion}
                                                 ELSE {mongoVersion}
  /\ step' = IF mongoVersion' = NoVersion THEN "idle" ELSE "names"
  /\ listed' = {} /\ left' = {} /\ colls' = {} /\ current' = NoResource
  /\ emitted' = {} /\ failed' = {} /\ incomplete' = {}
  /\ UNCHANGED <<client, recorded>>

(* A question that fails adds a partial error.                             *)
Fail(query, next) ==
  /\ failed' = failed \cup {query}
  /\ step' = next
  /\ UNCHANGED <<recorded, emitted, incomplete>>

(* The record functions: an answer has its keys, or lacks some (recorded   *)
(* all the same, but for an index: metrics.go:468-478), or all.            *)
Outcomes(point) ==
  {[points |-> recorded \cup {point}, lacking |-> {}],
   [points |-> recorded, lacking |-> {point}]}
    \cup {[points |-> recorded \cup {p}, lacking |-> {p}] : p \in {point} \ IndexPoints}

Record(point) ==
  \E o \in Outcomes(point) :
    /\ recorded' = o.points
    /\ incomplete' = incomplete \cup o.lacking
    /\ UNCHANGED emitted

(* EmitForResource: all that is in the builder goes under one resource.    *)
EmitForResource(points, resource) ==
  /\ emitted' = emitted \cup {[point |-> p, resource |-> resource] : p \in points}
  /\ recorded' = {}

RecordAndEmit(point, resource) ==
  \E o \in Outcomes(point) :
    /\ EmitForResource(o.points, resource)
    /\ incomplete' = incomplete \cup o.lacking

-----------------------------------------------------------------------------
(* collectMetrics.  The number of databases is recorded, not emitted.      *)
ListDatabaseNames ==
  /\ step = "names"
  /\ \/ /\ listed' \in SUBSET Databases
        /\ left' = listed'
        /\ recorded' = recorded \cup {CountPoint}
        /\ step' = "admin"
        /\ UNCHANGED <<emitted, failed, incomplete>>
     \/ Fail(NamesQuery, "emit") /\ UNCHANGED <<listed, left>>
  /\ UNCHANGED <<client, mongoVersion, current, colls>>

collectAdminDatabase ==
  /\ step = "admin"
  /\ \/ RecordAndEmit(AdminPoint, NoResource) /\ step' = "top" /\ UNCHANGED failed
     \/ Fail(AdminPoint, "top")
  /\ UNCHANGED <<client, mongoVersion, listed, left, current, colls>>

collectTopStats ==
  /\ step = "top"
  /\ \/ RecordAndEmit(TopPoint, NoResource) /\ step' = "next" /\ UNCHANGED failed
     \/ Fail(TopPoint, "next")
  /\ UNCHANGED <<client, mongoVersion, listed, left, current, colls>>

(* A slip for the mutation runs: the last database is left out.            *)
AllButOneDatabase ==
  /\ step = "next"
  /\ \/ /\ current' \in left
        /\ left' = left \ {current'}
        /\ left' # {}
        /\ step' = "stats"
     \/ \E db \in Databases : left \subseteq {db} /\ step' = "emit" /\ UNCHANGED <<current, left>>
  /\ UNCHANGED <<client, mongoVersion, listed, colls, recorded, emitted, failed, incomplete>>

NextDatabase ==
  /\ step = "next"
  /\ \/ /\ current' \in left
        /\ left' = left \ {current'}
        /\ step' = "stats"
     \/ left = {} /\ step' = "emit" /\ UNCHANGED <<current, left>>
  /\ UNCHANGED <<client, mongoVersion, listed, colls, recorded, emitted, failed, incomplete>>

(* collectDatabase: its two questions.  A failure of the first is not the  *)
(* end; a failure of the second returns before the resource is emitted.    *)
DBStats ==
  /\ step = "stats"
  /\ \/ Record(StatsPoint(current)) /\ step' = "status" /\ UNCHANGED failed
     \/ Fail(StatsPoint(current), "status")
  /\ UNCHANGED <<client, mongoVersion, listed, left, current, colls>>

(* A slip for the mutation runs: the resource has no database.             *)
ServerStatusNoResource ==
  /\ step = "status"
  /\ \/ /\ RecordAndEmit(StatusPoint(current), NoResource)
        /\ step' = "collections" /\ UNCHANGED failed
     \/ Fail(StatusPoint(current), "collections")
  /\ UNCHANGED <<client, mongoVersion, listed, left, current, colls>>

ServerStatus ==
  /\ step = "status"
  /\ \/ /\ RecordAndEmit(StatusPoint(current), current)
        /\ step' = "collections" /\ UNCHANGED failed
     \/ Fail(StatusPoint(current), "collections")
  /\ UNCHANGED <<client, mongoVersion, listed, left, current, colls>>

(* Without the names of its collections no other database is asked either. *)
ListCollectionNames ==
  /\ step = "collections"
  /\ \/ /\ colls' \in IF mongoVersion >= 32 THEN SUBSET Collections ELSE {{}}
        /\ step' = "index"
        /\ UNCHANGED <<recorded, emitted, failed, incomplete>>
     \/ Fail(CollectionsQuery(current), "emit") /\ UNCHANGED colls
  /\ UNCHANGED <<client, mongoVersion, listed, left, current>>

collectIndexStats ==
  /\ step = "index"
  /\ \/ \E col \in colls :
          /\ \/ RecordAndEmit(IndexPoint(current, col), NoResource)
                /\ UNCHANGED <<step, failed>>
             \/ Fail(IndexPoint(current, col), "index")
          /\ colls' = colls \ {col}
     \/ /\ colls = {} /\ step' = "next"
        /\ UNCHANGED <<colls, recorded, emitted, failed, incomplete>>
  /\ UNCHANGED <<client, mongoVersion, listed, left, current>>

(* A slip for the mutation runs: no Emit after a scrape with errors.       *)
EmitIfClean ==
  /\ step = "emit"
  /\ step' = "idle"
  /\ IF failed = {} THEN EmitForResource(recorded, NoResource)
                    ELSE UNCHANGED <<recorded, emitted>>
  /\ UNCHANGED <<client, mongoVersion, listed, left, current, colls, failed, incomplete>>

(* The Emit at the end of scrape.                                          *)
Emit ==
  /\ step = "emit"
  /\ step' = "idle"
  /\ EmitForResource(recorded, NoResource)
  /\ UNCHANGED <<client, mongoVersion, listed, left, current, colls, failed, incomplete>>

Next ==
  \/ Start \/ Shutdown \/ Scrape
  \/ ListDatabaseNames \/ collectAdminDatabase \/ collectTopStats
  \/ NextDatabase \/ DBStats \/ ServerStatus \/ ListCollectionNames \/ collectIndexStats
  \/ Emit

Spec == Init /\ [][Next]_vars
-----------------------------------------------------------------------------
(* Every variable stays in its type; index statistics are only asked of a  *)
(* server that has them (scraper.go:108-111).                              *)
TypeOK ==
  /\ client \in {"none", "connected", "disconnected"}
  /\ mongoVersion \in Versions \cup {NoVersion}
  /\ step \in {"idle", "names", "admin", "top", "next", "stats", "status",
               "collections", "index", "emit"}
  /\ listed \subseteq Databases /\ left \subseteq listed
  /\ current \in listed \cup {NoResource}
  /\ colls \subseteq Collections
  /\ colls # {} => mongoVersion >= 32
  /\ recorded \subseteq Points
  /\ emitted \subseteq [point : Points, resource : Databases \cup {NoResource}]
  /\ failed \subseteq Queries
  /\ incomplete \subseteq Points

(* The resource that a point belongs to: that of its database for what     *)
(* collectDatabase records.                                                *)
Home(p) == IF p.what \in {"stats", "status"} THEN p.db ELSE NoResource

(* A point goes to a resource that is not its own in two cases only: the   *)
(* statistics of a database whose server status failed (scraper.go:130     *)
(* returns before the resource is emitted), and the number of databases    *)
(* when both server-wide questions failed (scraper.go:97-98).              *)
MisplacedOnlyAfterFailure ==
  \A e \in emitted : e.resource # Home(e.point) =>
    \/ e.point.what = "stats" /\ StatusPoint(e.point.db) \in failed
    \/ e.point = CountPoint /\ {AdminPoint, TopPoint} \subseteq failed

(* A scrape that reports no error is complete: every database that was     *)
(* listed has both its points under its own resource (scraper.go:84).      *)
CleanScrapeComplete ==
  step = "idle" /\ mongoVersion # NoVersion /\ failed = {} /\ incomplete = {} =>
    \A p \in ServerPoints \cup UNION {{StatsPoint(db), StatusPoint(db)} : db \in listed} :
      [point |-> p, resource |-> Home(p)] \in emitted

(* Nothing that a scrape recorded is left for the next one, however the    *)
(* scrape ended (scraper.go:84 and the return at 105).                     *)
NothingCarriedOver == step = "idle" => recorded = {}

(* No two readings that wait in the builder go to the same series, whose   *)
(* values would be added up (recordDataPoint), also when a failed server   *)
(* status leaves the statistics of several databases there                 *)
(* (scraper.go:130).                                                       *)
SeriesDistinct ==
  mongoVersion # NoVersion =>
    LET pending == UNION {Readings[mongoVersion][p] : p \in recorded}
    IN Cardinality({<<r.reading.metric, r.reading.attributes>> : r \in pending})
         = Cardinality(pending)
=============================================================================

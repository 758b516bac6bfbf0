----------------------------- MODULE ReceiversProofs -----------------------------
(***************************************************************************)
(* Proofs about the mongodb scraper (MongoScraper) for all versions,       *)
(* databases and collections, about the nvml receivers (NvmlReceiver) for  *)
(* all receivers, devices and sizes of the driver's buffer, without the    *)
(* bounds on the clock and on reloads, about the record calls of the dcgm  *)
(* scraper (DcgmReport) for all values and lengths of run, about the       *)
(* metrics builder (MetricsBuilder) for all sequences of values, and about *)
(* the series of the mongodb, varnish (VarnishScraper) and dcgm scrapers.  *)
(***************************************************************************)
EXTENDS MCReceivers, FiniteSetTheorems, WellFoundedInduction, TLAPS

(* Steps in which a database is at hand (collectDatabase and the indexes). *)
AtDatabase == {"stats", "status", "collections", "index"}

(* A scrape is under way with the version known, and the database at hand  *)
(* is one of those listed (scraper.go:69-111).                             *)
ScrapeUnderWay ==
  /\ step # "idle" => mongoVersion # NoVersion
  /\ step \in AtDatabase => current \in listed
  /\ step \in {"names", "admin", "top"} => current = NoResource

(* What waits in the builder is the number of databases, while the two     *)
(* questions about the server are still to come or have failed, or the     *)
(* statistics of a database, until its status is known or has failed.      *)
CountWaits ==
  \/ step = "admin"
  \/ step = "top" /\ AdminPoint \in failed
  \/ {AdminPoint, TopPoint} \subseteq failed

StatsWait(db) == StatusPoint(db) \in failed \/ (step = "status" /\ db = current)

Waiting ==
  \A p \in recorded :
    \/ p = CountPoint /\ CountWaits
    \/ \E db \in Databases : p = StatsPoint(db) /\ StatsWait(db)

(* Outside a scrape, and before its first answer, nothing does.            *)
NothingYet == step \in {"idle", "names"} => recorded = {}

(* A scrape is over when it is idle with a version.                        *)
Over == step = "emit" \/ (step = "idle" /\ mongoVersion # NoVersion)

At(p) == [point |-> p, resource |-> Home(p)]

(* What a scrape without an error has got so far.                          *)
ServerPart ==
  /\ step = "admin" => CountPoint \in recorded
  /\ step \in {"top", "next"} \cup AtDatabase \/ Over => {At(CountPoint), At(AdminPoint)} \subseteq emitted
  /\ step = "next" \/ step \in AtDatabase \/ Over => At(TopPoint) \in emitted

DatabasePart ==
  /\ step \in {"admin", "top"} => left = listed
  /\ step = "status" => StatsPoint(current) \in recorded
  /\ Over => left = {}
  /\ step \in {"next"} \cup AtDatabase \/ Over =>
       \A db \in listed \ left :
         \/ db = current /\ step \in {"stats", "status"}
         \/ {At(StatsPoint(db)), At(StatusPoint(db))} \subseteq emitted

CompleteSoFar == failed = {} /\ incomplete = {} => ServerPart /\ DatabasePart

MongoInv ==
  /\ TypeOK
  /\ ScrapeUnderWay
  /\ Waiting
  /\ NothingYet
  /\ CompleteSoFar
  /\ MisplacedOnlyAfterFailure

-----------------------------------------------------------------------------
(* Where points belong (scraper.go:93-148).                                *)
LEMMA Homes ==
  /\ \A p \in ServerPoints : Home(p) = NoResource
  /\ \A db : Home(StatsPoint(db)) = db /\ Home(StatusPoint(db)) = db
  /\ \A db, col : Home(IndexPoint(db, col)) = NoResource
BY DEF Home, ServerPoints, CountPoint, AdminPoint, TopPoint, StatsPoint, StatusPoint, IndexPoint

LEMMA PointsHave ==
  /\ ServerPoints \subseteq Points
  /\ \A db \in Databases : StatsPoint(db) \in Points /\ StatusPoint(db) \in Points
  /\ \A db \in Databases, col \in Collections : IndexPoint(db, col) \in Points
BY DEF Points, ServerPoints, IndexPoints

LEMMA QueriesHave ==
  /\ Points \subseteq Queries
  /\ NamesQuery \in Queries
  /\ \A db \in Databases : CollectionsQuery(db) \in Queries
BY DEF Queries

(* A point under a resource that MisplacedOnlyAfterFailure allows.         *)
Placed(p, resource) ==
  resource # Home(p) =>
    \/ p.what = "stats" /\ StatusPoint(p.db) \in failed
    \/ p = CountPoint /\ {AdminPoint, TopPoint} \subseteq failed

(* What waits in the builder may go under the server's resource...         *)
LEMMA WaitingMayGoToServer ==
  ASSUME Waiting, step # "status"
  PROVE  \A p \in recorded : Placed(p, NoResource)
<1> SUFFICES ASSUME NEW p \in recorded PROVE Placed(p, NoResource)
  OBVIOUS
<1>1. CASE p = CountPoint
  BY <1>1, Homes DEF Placed, ServerPoints
<1>2. CASE \E db \in Databases : p = StatsPoint(db) /\ StatsWait(db)
  <2>1. PICK db \in Databases : p = StatsPoint(db) /\ StatsWait(db)
    BY <1>2
  <2>2. p.what = "stats" /\ p.db = db
    BY <2>1 DEF StatsPoint
  <2> QED BY <2>1, <2>2 DEF Placed, StatsWait
<1> QED BY <1>1, <1>2 DEF Waiting

(* ... or, with its status, under that of the database at hand.            *)
LEMMA WaitingMayGoToDatabase ==
  ASSUME Waiting, step = "status"
  PROVE  \A p \in recorded : Placed(p, current)
<1> SUFFICES ASSUME NEW p \in recorded PROVE Placed(p, current)
  OBVIOUS
<1>1. CASE p = CountPoint /\ CountWaits
  BY <1>1 DEF Placed, CountWaits
<1>2. CASE \E db \in Databases : p = StatsPoint(db) /\ StatsWait(db)
  <2>1. PICK db \in Databases : p = StatsPoint(db) /\ StatsWait(db)
    BY <1>2
  <2>2. p.what = "stats" /\ p.db = db /\ Home(p) = db
    BY <2>1, Homes DEF StatsPoint
  <2> QED BY <2>1, <2>2 DEF Placed, StatsWait
<1> QED BY <1>1, <1>2 DEF Waiting

(* One step with an emit: what is emitted stays placed, nothing is left in *)
(* the builder, and without a new gap everything recorded got out.         *)
LEMMA RecordAndEmitStep ==
  ASSUME MongoInv, NEW point \in Points, NEW resource \in Databases \cup {NoResource},
         RecordAndEmit(point, resource), failed' = failed,
         Placed(point, resource), \A p \in recorded : Placed(p, resource)
  PROVE  /\ recorded' = {}
         /\ incomplete \subseteq incomplete' /\ incomplete' \subseteq Points
         /\ emitted \subseteq emitted'
         /\ emitted' \subseteq [point : Points, resource : Databases \cup {NoResource}]
         /\ MisplacedOnlyAfterFailure'
         /\ incomplete' = {} => \A p \in recorded \cup {point} : [point |-> p, resource |-> resource] \in emitted'
<1>1. PICK o \in Outcomes(point) :
        /\ EmitForResource(o.points, resource)
        /\ incomplete' = incomplete \cup o.lacking
  BY DEF RecordAndEmit
<1>2. /\ o.points \subseteq recorded \cup {point} /\ o.lacking \subseteq {point}
      /\ o.lacking = {} => o.points = recorded \cup {point}
  BY <1>1 DEF Outcomes
<1>3. recorded \subseteq Points /\ incomplete \subseteq Points
      /\ emitted \subseteq [point : Points, resource : Databases \cup {NoResource}]
  BY DEF MongoInv, TypeOK
<1>4. recorded' = {} /\ emitted' = emitted \cup {[point |-> p, resource |-> resource] : p \in o.points}
  BY <1>1 DEF EmitForResource
<1>5. MisplacedOnlyAfterFailure'
  <2> SUFFICES ASSUME NEW e \in emitted', e.resource # Home(e.point)
               PROVE  \/ e.point.what = "stats" /\ StatusPoint(e.point.db) \in failed
                      \/ e.point = CountPoint /\ {AdminPoint, TopPoint} \subseteq failed
    BY DEF MisplacedOnlyAfterFailure
  <2>1. CASE e \in emitted
    BY <2>1 DEF MongoInv, MisplacedOnlyAfterFailure
  <2>2. CASE \E p \in o.points : e = [point |-> p, resource |-> resource]
    BY <2>2, <1>2 DEF Placed
  <2> QED BY <1>4, <2>1, <2>2
<1>6. ASSUME incomplete' = {}, NEW p \in recorded \cup {point}
      PROVE  [point |-> p, resource |-> resource] \in emitted'
  BY <1>1, <1>2, <1>4, <1>6
<1>7. emitted' \subseteq [point : Points, resource : Databases \cup {NoResource}]
  BY <1>2, <1>3, <1>4
<1> QED BY <1>1, <1>2, <1>3, <1>4, <1>5, <1>6, <1>7

(* A question that fails: emitted points stay where they are, and a scrape *)
(* with an error need not be complete.                                     *)
LEMMA FailStep ==
  ASSUME MongoInv, NEW query \in Queries, NEW next, Fail(query, next)
  PROVE  /\ failed' = failed \cup {query} /\ failed' \subseteq Queries
         /\ step' = next
         /\ UNCHANGED <<recorded, emitted, incomplete>>
         /\ MisplacedOnlyAfterFailure' /\ CompleteSoFar'
<1>1. failed' = failed \cup {query} /\ step' = next /\ UNCHANGED <<recorded, emitted, incomplete>>
  BY DEF Fail
<1>2. MisplacedOnlyAfterFailure'
  <2> SUFFICES ASSUME NEW e \in emitted, e.resource # Home(e.point)
               PROVE  \/ e.point.what = "stats" /\ StatusPoint(e.point.db) \in failed'
                      \/ e.point = CountPoint /\ {AdminPoint, TopPoint} \subseteq failed'
    BY <1>1 DEF MisplacedOnlyAfterFailure
  <2> QED BY <1>1 DEF MongoInv, MisplacedOnlyAfterFailure
<1>3. CompleteSoFar'
  BY <1>1 DEF CompleteSoFar
<1>4. failed' \subseteq Queries
  BY <1>1 DEF MongoInv, TypeOK
<1> QED BY <1>1, <1>2, <1>3, <1>4

LEMMA MongoInitInv == Init => MongoInv
BY DEF Init, MongoInv, TypeOK, ScrapeUnderWay, Waiting, NothingYet, CompleteSoFar, ServerPart,
       DatabasePart, Over, AtDatabase, MisplacedOnlyAfterFailure, NoVersion

-----------------------------------------------------------------------------
(* One lemma for each question.                                            *)
LEMMA ScrapeKeeps == MongoInv /\ Scrape => MongoInv'
<1> SUFFICES ASSUME MongoInv, Scrape PROVE MongoInv'
  OBVIOUS
<1>1. /\ listed' = {} /\ left' = {} /\ colls' = {} /\ current' = NoResource
      /\ emitted' = {} /\ failed' = {} /\ incomplete' = {}
      /\ client' = client /\ recorded' = recorded
  BY DEF Scrape
<1>2. mongoVersion' \in Versions \cup {NoVersion} /\ step' = IF mongoVersion' = NoVersion THEN "idle" ELSE "names"
  BY DEF Scrape, MongoInv, TypeOK
<1>3. recorded = {}
  BY DEF Scrape, MongoInv, NothingYet
<1>4. TypeOK'
  BY <1>1, <1>2, <1>3 DEF MongoInv, TypeOK
<1>5. ScrapeUnderWay' /\ Waiting' /\ NothingYet' /\ MisplacedOnlyAfterFailure'
  BY <1>1, <1>2, <1>3 DEF ScrapeUnderWay, Waiting, NothingYet, MisplacedOnlyAfterFailure, AtDatabase
<1>6. CompleteSoFar'
  BY <1>1, <1>2 DEF CompleteSoFar, ServerPart, DatabasePart, Over, AtDatabase
<1> QED BY <1>4, <1>5, <1>6 DEF MongoInv

LEMMA ListDatabaseNamesKeeps == MongoInv /\ ListDatabaseNames => MongoInv'
<1> SUFFICES ASSUME MongoInv, ListDatabaseNames PROVE MongoInv'
  OBVIOUS
<1>1. UNCHANGED <<client, mongoVersion, current, colls>> /\ step = "names" /\ recorded = {}
  BY DEF ListDatabaseNames, MongoInv, NothingYet
<1>2. CASE Fail(NamesQuery, "emit") /\ UNCHANGED <<listed, left>>
  <2>1. /\ failed' \subseteq Queries /\ step' = "emit" /\ UNCHANGED <<recorded, emitted, incomplete>>
        /\ MisplacedOnlyAfterFailure' /\ CompleteSoFar'
    BY <1>2, FailStep, QueriesHave
  <2>2. TypeOK'
    BY <1>1, <1>2, <2>1 DEF MongoInv, TypeOK
  <2>3. ScrapeUnderWay' /\ Waiting' /\ NothingYet'
    BY <1>1, <1>2, <2>1 DEF MongoInv, ScrapeUnderWay, Waiting, NothingYet, AtDatabase
  <2> QED BY <2>1, <2>2, <2>3 DEF MongoInv
<1>3. CASE /\ listed' \in SUBSET Databases /\ left' = listed' /\ step' = "admin"
           /\ recorded' = recorded \cup {CountPoint} /\ UNCHANGED <<emitted, failed, incomplete>>
  <2>1. recorded' = {CountPoint} /\ CountPoint \in Points
    BY <1>1, <1>3, PointsHave DEF ServerPoints
  <2>2. TypeOK'
    <3>1. current' \in listed' \cup {NoResource}
      BY <1>1 DEF MongoInv, ScrapeUnderWay
    <3> QED BY <1>1, <1>3, <2>1, <3>1 DEF MongoInv, TypeOK
  <2>3. Waiting'
    BY <1>3, <2>1 DEF Waiting, CountWaits
  <2>4. ScrapeUnderWay' /\ NothingYet'
    BY <1>1, <1>3 DEF MongoInv, ScrapeUnderWay, NothingYet, AtDatabase
  <2>5. MisplacedOnlyAfterFailure'
    BY <1>3 DEF MongoInv, MisplacedOnlyAfterFailure
  <2>6. CompleteSoFar'
    BY <1>3, <2>1 DEF CompleteSoFar, ServerPart, DatabasePart, Over, AtDatabase
  <2> QED BY <2>2, <2>3, <2>4, <2>5, <2>6 DEF MongoInv
<1> QED BY <1>2, <1>3 DEF ListDatabaseNames

LEMMA AdminKeeps == MongoInv /\ collectAdminDatabase => MongoInv'
<1> SUFFICES ASSUME MongoInv, collectAdminDatabase PROVE MongoInv'
  OBVIOUS
<1>1. UNCHANGED <<client, mongoVersion, listed, left, current, colls>> /\ step = "admin" /\ step' = "top"
  BY DEF collectAdminDatabase, Fail
<1>2. AdminPoint \in Points /\ AdminPoint \in Queries /\ Home(AdminPoint) = NoResource /\ Home(CountPoint) = NoResource
  BY PointsHave, QueriesHave, Homes DEF ServerPoints
<1>3. CASE Fail(AdminPoint, "top")
  <2>1. /\ failed' = failed \cup {AdminPoint} /\ failed' \subseteq Queries /\ UNCHANGED <<recorded, emitted, incomplete>>
        /\ MisplacedOnlyAfterFailure' /\ CompleteSoFar'
    BY <1>2, <1>3, FailStep
  <2>2. TypeOK' /\ ScrapeUnderWay' /\ NothingYet'
    BY <1>1, <2>1 DEF MongoInv, TypeOK, ScrapeUnderWay, NothingYet, AtDatabase
  <2>3. Waiting'
    BY <1>1, <2>1 DEF MongoInv, Waiting, CountWaits, StatsWait
  <2> QED BY <2>1, <2>2, <2>3 DEF MongoInv
<1>4. CASE RecordAndEmit(AdminPoint, NoResource) /\ UNCHANGED failed
  <2>1. Placed(AdminPoint, NoResource) /\ \A p \in recorded : Placed(p, NoResource)
    <3>1. Placed(AdminPoint, NoResource)
      BY <1>2 DEF Placed
    <3>2. \A p \in recorded : Placed(p, NoResource)
      BY <1>1, WaitingMayGoToServer DEF MongoInv
    <3> QED BY <3>1, <3>2
  <2>2. /\ recorded' = {} /\ incomplete \subseteq incomplete' /\ incomplete' \subseteq Points
        /\ emitted \subseteq emitted'
        /\ emitted' \subseteq [point : Points, resource : Databases \cup {NoResource}]
        /\ MisplacedOnlyAfterFailure'
        /\ incomplete' = {} => \A p \in recorded \cup {AdminPoint} : [point |-> p, resource |-> NoResource] \in emitted'
    BY <1>2, <1>4, <2>1, RecordAndEmitStep
  <2>3. TypeOK' /\ ScrapeUnderWay' /\ NothingYet' /\ Waiting'
    BY <1>1, <1>4, <2>2 DEF MongoInv, TypeOK, ScrapeUnderWay, NothingYet, Waiting, AtDatabase
  <2>4. CompleteSoFar'
    <3> SUFFICES ASSUME failed' = {}, incomplete' = {} PROVE ServerPart' /\ DatabasePart'
      BY DEF CompleteSoFar
    <3>1. failed = {} /\ incomplete = {} /\ CountPoint \in recorded /\ left = listed
      BY <1>1, <1>4, <2>2 DEF MongoInv, CompleteSoFar, ServerPart, DatabasePart
    <3>2. At(CountPoint) \in emitted' /\ At(AdminPoint) \in emitted'
      BY <1>2, <2>2, <3>1 DEF At
    <3> QED BY <1>1, <3>1, <3>2 DEF ServerPart, DatabasePart, Over, AtDatabase, At
  <2> QED BY <2>2, <2>3, <2>4 DEF MongoInv
<1> QED BY <1>3, <1>4 DEF collectAdminDatabase

LEMMA TopKeeps == MongoInv /\ collectTopStats => MongoInv'
<1> SUFFICES ASSUME MongoInv, collectTopStats PROVE MongoInv'
  OBVIOUS
<1>1. UNCHANGED <<client, mongoVersion, listed, left, current, colls>> /\ step = "top" /\ step' = "next"
  BY DEF collectTopStats, Fail
<1>2. TopPoint \in Points /\ TopPoint \in Queries /\ Home(TopPoint) = NoResource
  BY PointsHave, QueriesHave, Homes DEF ServerPoints
<1>3. CASE Fail(TopPoint, "next")
  <2>1. /\ failed' = failed \cup {TopPoint} /\ failed' \subseteq Queries /\ UNCHANGED <<recorded, emitted, incomplete>>
        /\ MisplacedOnlyAfterFailure' /\ CompleteSoFar'
    BY <1>2, <1>3, FailStep
  <2>2. TypeOK' /\ ScrapeUnderWay' /\ NothingYet'
    BY <1>1, <2>1 DEF MongoInv, TypeOK, ScrapeUnderWay, NothingYet, AtDatabase
  <2>3. Waiting'
    BY <1>1, <2>1 DEF MongoInv, Waiting, CountWaits, StatsWait
  <2> QED BY <2>1, <2>2, <2>3 DEF MongoInv
<1>4. CASE RecordAndEmit(TopPoint, NoResource) /\ UNCHANGED failed
  <2>1. Placed(TopPoint, NoResource) /\ \A p \in recorded : Placed(p, NoResource)
    <3>1. Placed(TopPoint, NoResource)
      BY <1>2 DEF Placed
    <3>2. \A p \in recorded : Placed(p, NoResource)
      BY <1>1, WaitingMayGoToServer DEF MongoInv
    <3> QED BY <3>1, <3>2
  <2>2. /\ recorded' = {} /\ incomplete \subseteq incomplete' /\ incomplete' \subseteq Points
        /\ emitted \subseteq emitted'
        /\ emitted' \subseteq [point : Points, resource : Databases \cup {NoResource}]
        /\ MisplacedOnlyAfterFailure'
        /\ incomplete' = {} => \A p \in recorded \cup {TopPoint} : [point |-> p, resource |-> NoResource] \in emitted'
    BY <1>2, <1>4, <2>1, RecordAndEmitStep
  <2>3. TypeOK' /\ ScrapeUnderWay' /\ NothingYet' /\ Waiting'
    BY <1>1, <1>4, <2>2 DEF MongoInv, TypeOK, ScrapeUnderWay, NothingYet, Waiting, AtDatabase
  <2>4. CompleteSoFar'
    <3> SUFFICES ASSUME failed' = {}, incomplete' = {} PROVE ServerPart' /\ DatabasePart'
      BY DEF CompleteSoFar
    <3>1. /\ failed = {} /\ incomplete = {} /\ left = listed
          /\ At(CountPoint) \in emitted /\ At(AdminPoint) \in emitted
      BY <1>1, <1>4, <2>2 DEF MongoInv, CompleteSoFar, ServerPart, DatabasePart
    <3>2. At(TopPoint) \in emitted'
      BY <1>2, <2>2 DEF At
    <3> QED BY <1>1, <2>2, <3>1, <3>2 DEF ServerPart, DatabasePart, Over, AtDatabase, At
  <2> QED BY <2>2, <2>3, <2>4 DEF MongoInv
<1> QED BY <1>3, <1>4 DEF collectTopStats

LEMMA NextDatabaseKeeps == MongoInv /\ NextDatabase => MongoInv'
<1> SUFFICES ASSUME MongoInv, NextDatabase PROVE MongoInv'
  OBVIOUS
<1>1. /\ UNCHANGED <<client, mongoVersion, listed, colls, recorded, emitted, failed, incomplete>>
      /\ step = "next"
  BY DEF NextDatabase
<1>2. \/ current' \in left /\ left' = left \ {current'} /\ step' = "stats"
      \/ left = {} /\ step' = "emit" /\ current' = current /\ left' = left
  BY DEF NextDatabase
<1>3. TypeOK' /\ ScrapeUnderWay' /\ NothingYet'
  BY <1>1, <1>2 DEF MongoInv, TypeOK, ScrapeUnderWay, NothingYet, AtDatabase
<1>4. Waiting'
  BY <1>1, <1>2 DEF MongoInv, Waiting, CountWaits, StatsWait
<1>5. MisplacedOnlyAfterFailure'
  BY <1>1 DEF MongoInv, MisplacedOnlyAfterFailure
<1>6. CompleteSoFar'
  <2> SUFFICES ASSUME failed' = {}, incomplete' = {} PROVE ServerPart' /\ DatabasePart'
    BY DEF CompleteSoFar
  <2>1. ServerPart /\ DatabasePart
    BY <1>1 DEF MongoInv, CompleteSoFar
  <2>2. ServerPart'
    BY <1>1, <1>2, <2>1 DEF ServerPart, Over, AtDatabase, At
  <2>3. DatabasePart'
    BY <1>1, <1>2, <2>1 DEF DatabasePart, Over, AtDatabase, At
  <2> QED BY <2>2, <2>3
<1> QED BY <1>3, <1>4, <1>5, <1>6 DEF MongoInv

LEMMA DBStatsKeeps == MongoInv /\ DBStats => MongoInv'
<1> SUFFICES ASSUME MongoInv, DBStats PROVE MongoInv'
  OBVIOUS
<1>1. /\ UNCHANGED <<client, mongoVersion, listed, left, current, colls>> /\ step = "stats" /\ step' = "status"
  BY DEF DBStats, Fail
<1>2. /\ current \in Databases /\ current \in listed
      /\ StatsPoint(current) \in Points /\ StatsPoint(current) \in Queries
  BY <1>1, PointsHave, QueriesHave DEF MongoInv, TypeOK, ScrapeUnderWay, AtDatabase
<1>3. CASE Fail(StatsPoint(current), "status")
  <2>1. /\ failed' = failed \cup {StatsPoint(current)} /\ failed' \subseteq Queries
        /\ UNCHANGED <<recorded, emitted, incomplete>>
        /\ MisplacedOnlyAfterFailure' /\ CompleteSoFar'
    BY <1>2, <1>3, FailStep
  <2>2. TypeOK' /\ ScrapeUnderWay' /\ NothingYet'
    BY <1>1, <1>2, <2>1 DEF MongoInv, TypeOK, ScrapeUnderWay, NothingYet, AtDatabase
  <2>3. Waiting'
    BY <1>1, <2>1 DEF MongoInv, Waiting, CountWaits, StatsWait
  <2> QED BY <2>1, <2>2, <2>3 DEF MongoInv
<1>4. CASE Record(StatsPoint(current)) /\ UNCHANGED failed
  <2>1. PICK o \in Outcomes(StatsPoint(current)) :
          recorded' = o.points /\ incomplete' = incomplete \cup o.lacking /\ emitted' = emitted
    BY <1>4 DEF Record
  <2>2. /\ o.points \subseteq recorded \cup {StatsPoint(current)} /\ o.lacking \subseteq {StatsPoint(current)}
        /\ o.lacking = {} => StatsPoint(current) \in o.points
    BY <2>1 DEF Outcomes
  <2>3. TypeOK'
    BY <1>1, <1>2, <1>4, <2>1, <2>2 DEF MongoInv, TypeOK
  <2>4. ScrapeUnderWay' /\ NothingYet'
    BY <1>1, <1>2 DEF MongoInv, ScrapeUnderWay, NothingYet, AtDatabase
  <2>5. Waiting'
    <3> SUFFICES ASSUME NEW p \in recorded'
                 PROVE  \/ p = CountPoint /\ CountWaits'
                        \/ \E db \in Databases : p = StatsPoint(db) /\ StatsWait(db)'
      BY DEF Waiting
    <3>1. CASE p = StatsPoint(current)
      BY <1>1, <1>2, <3>1 DEF StatsWait
    <3>2. CASE p \in recorded
      BY <1>1, <1>4, <3>2 DEF MongoInv, Waiting, CountWaits, StatsWait
    <3> QED BY <2>1, <2>2, <3>1, <3>2
  <2>6. MisplacedOnlyAfterFailure'
    BY <1>4, <2>1 DEF MongoInv, MisplacedOnlyAfterFailure
  <2>7. CompleteSoFar'
    <3> SUFFICES ASSUME failed' = {}, incomplete' = {} PROVE ServerPart' /\ DatabasePart'
      BY DEF CompleteSoFar
    <3>1. ServerPart /\ DatabasePart
      BY <1>4, <2>1 DEF MongoInv, CompleteSoFar
    <3>2. StatsPoint(current') \in recorded'
      BY <1>1, <2>1, <2>2
    <3>3. ServerPart'
      BY <1>1, <2>1, <3>1 DEF ServerPart, Over, AtDatabase, At
    <3>4. DatabasePart'
      BY <1>1, <2>1, <3>1, <3>2 DEF DatabasePart, Over, AtDatabase, At
    <3> QED BY <3>3, <3>4
  <2> QED BY <2>3, <2>4, <2>5, <2>6, <2>7 DEF MongoInv
<1> QED BY <1>3, <1>4 DEF DBStats

(* The only emit under the resource of a database; it takes along the      *)
(* statistics of earlier databases whose status failed.                    *)
LEMMA ServerStatusKeeps == MongoInv /\ ServerStatus => MongoInv'
<1> SUFFICES ASSUME MongoInv, ServerStatus PROVE MongoInv'
  OBVIOUS
<1> DEFINE point == StatusPoint(current)
<1>1. /\ UNCHANGED <<client, mongoVersion, listed, left, current, colls>> /\ step = "status" /\ step' = "collections"
  BY DEF ServerStatus, Fail
<1>2. /\ current \in Databases /\ current \in listed
      /\ point \in Points /\ point \in Queries
      /\ Home(StatsPoint(current)) = current /\ Home(point) = current
  BY <1>1, PointsHave, QueriesHave, Homes DEF MongoInv, TypeOK, ScrapeUnderWay, AtDatabase
<1>3. CASE Fail(point, "collections")
  <2>1. /\ failed' = failed \cup {point} /\ failed' \subseteq Queries
        /\ UNCHANGED <<recorded, emitted, incomplete>>
        /\ MisplacedOnlyAfterFailure' /\ CompleteSoFar'
    <3> HIDE DEF point
    <3> QED BY <1>2, <1>3, FailStep
  <2>2. TypeOK' /\ ScrapeUnderWay' /\ NothingYet'
    BY <1>1, <1>2, <2>1 DEF MongoInv, TypeOK, ScrapeUnderWay, NothingYet, AtDatabase
  <2>3. Waiting'
    BY <1>1, <2>1 DEF MongoInv, Waiting, CountWaits, StatsWait
  <2> QED BY <2>1, <2>2, <2>3 DEF MongoInv
<1>4. CASE RecordAndEmit(point, current) /\ UNCHANGED failed
  <2>1. Placed(point, current) /\ \A p \in recorded : Placed(p, current)
    <3>1. Placed(point, current)
      BY <1>2 DEF Placed
    <3>2. \A p \in recorded : Placed(p, current)
      BY <1>1, WaitingMayGoToDatabase DEF MongoInv
    <3> QED BY <3>1, <3>2
  <2>2. /\ recorded' = {} /\ incomplete \subseteq incomplete' /\ incomplete' \subseteq Points
        /\ emitted \subseteq emitted'
        /\ emitted' \subseteq [point : Points, resource : Databases \cup {NoResource}]
        /\ MisplacedOnlyAfterFailure'
        /\ incomplete' = {} => \A p \in recorded \cup {point} : [point |-> p, resource |-> current] \in emitted'
    <3> HIDE DEF point
    <3> QED BY <1>2, <1>4, <2>1, RecordAndEmitStep
  <2>3. TypeOK' /\ ScrapeUnderWay' /\ NothingYet' /\ Waiting'
    BY <1>1, <1>2, <1>4, <2>2 DEF MongoInv, TypeOK, ScrapeUnderWay, NothingYet, Waiting, AtDatabase
  <2>4. CompleteSoFar'
    <3> SUFFICES ASSUME failed' = {}, incomplete' = {} PROVE ServerPart' /\ DatabasePart'
      BY DEF CompleteSoFar
    <3>1. failed = {} /\ incomplete = {} /\ ServerPart /\ DatabasePart
      BY <1>4, <2>2 DEF MongoInv, CompleteSoFar
    <3>2. StatsPoint(current) \in recorded
      BY <1>1, <3>1 DEF DatabasePart
    <3>3. At(StatsPoint(current)) \in emitted' /\ At(StatusPoint(current)) \in emitted'
      BY <1>2, <2>2, <3>2 DEF At
    <3>4. ServerPart'
      BY <1>1, <2>2, <3>1 DEF ServerPart, Over, AtDatabase, At
    <3>5. DatabasePart'
      BY <1>1, <2>2, <3>1, <3>3 DEF DatabasePart, Over, AtDatabase, At
    <3> QED BY <3>4, <3>5
  <2> QED BY <2>2, <2>3, <2>4 DEF MongoInv
<1> QED BY <1>3, <1>4 DEF ServerStatus

LEMMA ListCollectionNamesKeeps == MongoInv /\ ListCollectionNames => MongoInv'
<1> SUFFICES ASSUME MongoInv, ListCollectionNames PROVE MongoInv'
  OBVIOUS
<1>1. UNCHANGED <<client, mongoVersion, listed, left, current>> /\ step = "collections"
  BY DEF ListCollectionNames
<1>2. current \in Databases /\ current \in listed /\ CollectionsQuery(current) \in Queries
  BY <1>1, QueriesHave DEF MongoInv, TypeOK, ScrapeUnderWay, AtDatabase
<1>3. CASE Fail(CollectionsQuery(current), "emit") /\ UNCHANGED colls
  <2>1. /\ failed' = failed \cup {CollectionsQuery(current)} /\ failed' \subseteq Queries /\ step' = "emit"
        /\ UNCHANGED <<recorded, emitted, incomplete>>
        /\ MisplacedOnlyAfterFailure' /\ CompleteSoFar'
    BY <1>2, <1>3, FailStep
  <2>2. TypeOK' /\ ScrapeUnderWay' /\ NothingYet'
    BY <1>1, <1>2, <1>3, <2>1 DEF MongoInv, TypeOK, ScrapeUnderWay, NothingYet, AtDatabase
  <2>3. Waiting'
    BY <1>1, <2>1 DEF MongoInv, Waiting, CountWaits, StatsWait
  <2> QED BY <2>1, <2>2, <2>3 DEF MongoInv
<1>4. CASE /\ colls' \in IF mongoVersion >= 32 THEN SUBSET Collections ELSE {{}}
           /\ step' = "index" /\ UNCHANGED <<recorded, emitted, failed, incomplete>>
  <2>1. TypeOK' /\ ScrapeUnderWay' /\ NothingYet'
    BY <1>1, <1>2, <1>4 DEF MongoInv, TypeOK, ScrapeUnderWay, NothingYet, AtDatabase
  <2>2. Waiting'
    BY <1>1, <1>4 DEF MongoInv, Waiting, CountWaits, StatsWait
  <2>3. MisplacedOnlyAfterFailure'
    BY <1>4 DEF MongoInv, MisplacedOnlyAfterFailure
  <2>4. CompleteSoFar'
    BY <1>1, <1>4 DEF MongoInv, CompleteSoFar, ServerPart, DatabasePart, Over, AtDatabase, At
  <2> QED BY <2>1, <2>2, <2>3, <2>4 DEF MongoInv
<1> QED BY <1>3, <1>4 DEF ListCollectionNames

LEMMA IndexStatsKeeps == MongoInv /\ collectIndexStats => MongoInv'
<1> SUFFICES ASSUME MongoInv, collectIndexStats PROVE MongoInv'
  OBVIOUS
<1>1. UNCHANGED <<client, mongoVersion, listed, left, current>> /\ step = "index"
  BY DEF collectIndexStats
<1>2. current \in Databases /\ current \in listed /\ colls \subseteq Collections
  BY <1>1 DEF MongoInv, TypeOK, ScrapeUnderWay, AtDatabase
<1>3. CASE \E col \in colls : Fail(IndexPoint(current, col), "index") /\ colls' = colls \ {col}
  <2>1. PICK col \in colls : Fail(IndexPoint(current, col), "index") /\ colls' = colls \ {col}
    BY <1>3
  <2>2. IndexPoint(current, col) \in Queries
    BY <1>2, PointsHave, QueriesHave
  <2>3. /\ failed' = failed \cup {IndexPoint(current, col)} /\ failed' \subseteq Queries /\ step' = "index"
        /\ UNCHANGED <<recorded, emitted, incomplete>>
        /\ MisplacedOnlyAfterFailure' /\ CompleteSoFar'
    BY <2>1, <2>2, FailStep
  <2>4. TypeOK' /\ ScrapeUnderWay' /\ NothingYet'
    BY <1>1, <1>2, <2>1, <2>3 DEF MongoInv, TypeOK, ScrapeUnderWay, NothingYet, AtDatabase
  <2>5. Waiting'
    BY <1>1, <2>3 DEF MongoInv, Waiting, CountWaits, StatsWait
  <2> QED BY <2>3, <2>4, <2>5 DEF MongoInv
<1>4. CASE \E col \in colls : /\ RecordAndEmit(IndexPoint(current, col), NoResource)
                              /\ UNCHANGED <<step, failed>> /\ colls' = colls \ {col}
  <2>1. PICK col \in colls : /\ RecordAndEmit(IndexPoint(current, col), NoResource)
                             /\ UNCHANGED <<step, failed>> /\ colls' = colls \ {col}
    BY <1>4
  <2> DEFINE point == IndexPoint(current, col)
  <2>2. point \in Points /\ Home(point) = NoResource /\ RecordAndEmit(point, NoResource)
    BY <1>2, <2>1, PointsHave, Homes
  <2>3. Placed(point, NoResource)
    BY <2>2 DEF Placed
  <2>4. \A p \in recorded : Placed(p, NoResource)
    BY <1>1, WaitingMayGoToServer DEF MongoInv
  <2>5. /\ recorded' = {} /\ incomplete \subseteq incomplete' /\ incomplete' \subseteq Points
        /\ emitted \subseteq emitted'
        /\ emitted' \subseteq [point : Points, resource : Databases \cup {NoResource}]
        /\ MisplacedOnlyAfterFailure'
    <3> HIDE DEF point
    <3> QED BY <2>1, <2>2, <2>3, <2>4, RecordAndEmitStep
  <2>6. TypeOK' /\ ScrapeUnderWay' /\ NothingYet' /\ Waiting'
    BY <1>1, <1>2, <2>1, <2>5 DEF MongoInv, TypeOK, ScrapeUnderWay, NothingYet, Waiting, AtDatabase
  <2>7. CompleteSoFar'
    BY <1>1, <2>1, <2>5 DEF MongoInv, CompleteSoFar, ServerPart, DatabasePart, Over, AtDatabase, At
  <2> QED BY <2>5, <2>6, <2>7 DEF MongoInv
<1>5. CASE colls = {} /\ step' = "next" /\ UNCHANGED <<colls, recorded, emitted, failed, incomplete>>
  <2>1. TypeOK' /\ ScrapeUnderWay' /\ NothingYet'
    BY <1>1, <1>2, <1>5 DEF MongoInv, TypeOK, ScrapeUnderWay, NothingYet, AtDatabase
  <2>2. Waiting'
    BY <1>1, <1>5 DEF MongoInv, Waiting, CountWaits, StatsWait
  <2>3. MisplacedOnlyAfterFailure'
    BY <1>5 DEF MongoInv, MisplacedOnlyAfterFailure
  <2>4. CompleteSoFar'
    BY <1>1, <1>5 DEF MongoInv, CompleteSoFar, ServerPart, DatabasePart, Over, AtDatabase, At
  <2> QED BY <2>1, <2>2, <2>3, <2>4 DEF MongoInv
<1> QED BY <1>3, <1>4, <1>5 DEF collectIndexStats

LEMMA EmitKeeps == MongoInv /\ Emit => MongoInv'
<1> SUFFICES ASSUME MongoInv, Emit PROVE MongoInv'
  OBVIOUS
<1>1. /\ UNCHANGED <<client, mongoVersion, listed, left, current, colls, failed, incomplete>>
      /\ step = "emit" /\ step' = "idle" /\ recorded' = {}
      /\ emitted' = emitted \cup {[point |-> p, resource |-> NoResource] : p \in recorded}
  BY DEF Emit, EmitForResource
<1>2. \A p \in recorded : Placed(p, NoResource)
  BY <1>1, WaitingMayGoToServer DEF MongoInv
<1>3. TypeOK' /\ ScrapeUnderWay' /\ NothingYet' /\ Waiting'
  BY <1>1 DEF MongoInv, TypeOK, ScrapeUnderWay, NothingYet, Waiting, AtDatabase
<1>4. MisplacedOnlyAfterFailure'
  <2> SUFFICES ASSUME NEW e \in emitted', e.resource # Home(e.point)
               PROVE  \/ e.point.what = "stats" /\ StatusPoint(e.point.db) \in failed
                      \/ e.point = CountPoint /\ {AdminPoint, TopPoint} \subseteq failed
    BY <1>1 DEF MisplacedOnlyAfterFailure
  <2>1. CASE e \in emitted
    BY <2>1 DEF MongoInv, MisplacedOnlyAfterFailure
  <2>2. CASE \E p \in recorded : e = [point |-> p, resource |-> NoResource]
    BY <1>2, <2>2 DEF Placed
  <2> QED BY <1>1, <2>1, <2>2
<1>5. CompleteSoFar'
  BY <1>1 DEF MongoInv, CompleteSoFar, ServerPart, DatabasePart, Over, AtDatabase, At
<1> QED BY <1>3, <1>4, <1>5 DEF MongoInv

LEMMA ClientStepsKeep == MongoInv /\ (Start \/ Shutdown \/ UNCHANGED vars) => MongoInv'
<1> SUFFICES ASSUME MongoInv, Start \/ Shutdown \/ UNCHANGED vars PROVE MongoInv'
  OBVIOUS
<1>1. /\ UNCHANGED <<mongoVersion, step, listed, left, current, colls, emitted, recorded, failed, incomplete>>
      /\ client' \in {"none", "connected", "disconnected"}
  BY DEF Start, Shutdown, vars, scrapeVars, MongoInv, TypeOK
<1>2. TypeOK' /\ ScrapeUnderWay' /\ NothingYet' /\ Waiting'
  BY <1>1 DEF MongoInv, TypeOK, ScrapeUnderWay, NothingYet, Waiting, CountWaits, StatsWait, AtDatabase
<1>3. MisplacedOnlyAfterFailure' /\ CompleteSoFar'
  BY <1>1 DEF MongoInv, MisplacedOnlyAfterFailure, CompleteSoFar, ServerPart, DatabasePart, Over, AtDatabase, At
<1> QED BY <1>2, <1>3 DEF MongoInv

LEMMA MongoInvAlways == Spec => []MongoInv
<1>1. MongoInv /\ [Next]_vars => MongoInv'
  BY ScrapeKeeps, ListDatabaseNamesKeeps, AdminKeeps, TopKeeps, NextDatabaseKeeps, DBStatsKeeps, ServerStatusKeeps,
     ListCollectionNamesKeeps, IndexStatsKeeps, EmitKeeps, ClientStepsKeep DEF Next
<1> QED BY <1>1, MongoInitInv, PTL DEF Spec

-----------------------------------------------------------------------------
(* For all versions, databases and collections: whatever fails, every      *)
(* variable keeps its type, and indexes are only asked for from 3.2 on     *)
(* (mongodbreceiver/scraper.go:108-111).                                   *)
THEOREM MongoTypeCorrect == Spec => []TypeOK
<1>1. MongoInv => TypeOK
  BY DEF MongoInv
<1> QED BY <1>1, MongoInvAlways, PTL

(* For all databases: whichever questions of a scrape fail, a point goes   *)
(* under a resource that is not its own in the two cases only that         *)
(* MisplacedOnlyAfterFailure names (mongodbreceiver/scraper.go:97-98, 130).*)
THEOREM PointsStayHome == Spec => []MisplacedOnlyAfterFailure
<1>1. MongoInv => MisplacedOnlyAfterFailure
  BY DEF MongoInv
<1> QED BY <1>1, MongoInvAlways, PTL

(* For all databases and however many of them are listed: a scrape without *)
(* an error and without a gap has every point (scraper.go:84-148).         *)
THEOREM CleanScrapesAreComplete == Spec => []CleanScrapeComplete
<1>1. MongoInv => CleanScrapeComplete
  <2> SUFFICES ASSUME MongoInv, step = "idle", mongoVersion # NoVersion, failed = {}, incomplete = {},
                      NEW p \in ServerPoints \cup UNION {{StatsPoint(db), StatusPoint(db)} : db \in listed}
               PROVE  [point |-> p, resource |-> Home(p)] \in emitted
    BY DEF CleanScrapeComplete
  <2>1. ServerPart /\ DatabasePart /\ Over
    BY DEF MongoInv, CompleteSoFar, Over
  <2>2. At(CountPoint) \in emitted /\ At(AdminPoint) \in emitted /\ At(TopPoint) \in emitted
    BY <2>1 DEF ServerPart
  <2>3. \A db \in listed : At(StatsPoint(db)) \in emitted /\ At(StatusPoint(db)) \in emitted
    BY <2>1 DEF DatabasePart
  <2>4. At(p) \in emitted
    BY <2>2, <2>3 DEF ServerPoints
  <2> QED BY <2>4 DEF At
<1> QED BY <1>1, MongoInvAlways, PTL

(* However a scrape ends, the builder is empty when the next one begins    *)
(* (scraper.go:84, and the return at 105).                                 *)
THEOREM NothingIsCarriedOver == Spec => []NothingCarriedOver
<1>1. MongoInv => NothingCarriedOver
  BY DEF MongoInv, NothingYet, NothingCarriedOver
<1> QED BY <1>1, MongoInvAlways, PTL

-----------------------------------------------------------------------------
(***************************************************************************)
(* The nvml receivers.                                                     *)
(***************************************************************************)
ClientFields == {"devices", "names", "UUIDs", "lastSeen", "accounting"}

NvmlTypes ==
  /\ clock \in Nat
  /\ samples \in [Nvml!HostDevices -> SUBSET (1 .. clock)]
  /\ phase \in [Receivers -> {"new", "running", "disabled", "failed", "stopped"}]
  /\ averaged \in [Receivers -> [Nvml!HostDevices -> SUBSET Nat]]
  /\ forgotten \in [Receivers -> [Nvml!HostDevices -> SUBSET Nat]]
  /\ DOMAIN nvmlClient = Receivers
  /\ \A r \in Receivers : DOMAIN nvmlClient[r] = ClientFields

(* The library was initialised once for all (client.go:65-72).             *)
LibraryState ==
  /\ library \in {0, 1} /\ shutDown \in BOOLEAN
  /\ library = 1 <=> nvmlInitReturn = "success" /\ ~ shutDown
  /\ shutDown => nvmlInitReturn = "success"
  /\ \A r \in Receivers : phase[r] = "running" => nvmlInitReturn = "success"

(* The three lists of a client go together (client.go:189-191), and it has *)
(* seen no sample from the future.                                         *)
ClientsFit ==
  \A r \in Receivers : phase[r] = "running" =>
    /\ nvmlClient[r].lastSeen \in [Nvml!HostDevices -> 0 .. clock]
    /\ \A i \in 1 .. Len(nvmlClient[r].devices) :
         /\ nvmlClient[r].names[i] = Nvml!Model(nvmlClient[r].devices[i])
         /\ nvmlClient[r].UUIDs[i] = Nvml!UUID(nvmlClient[r].devices[i])

(* A client that does not run has averaged nothing.                        *)
FreshClients == \A r \in Receivers : phase[r] # "running" => averaged[r] = Nvml!NoSamples

(* What the driver forgot does not come back.                              *)
ForgottenForGood ==
  \A r \in Receivers, d \in Nvml!HostDevices :
    forgotten[r][d] \subseteq samples[d] \ Nvml!Buffer(d)

NvmlInv ==
  /\ NvmlTypes
  /\ LibraryState
  /\ ClientsFit
  /\ FreshClients
  /\ ForgottenForGood
  /\ Nvml!EverySampleOnce

-----------------------------------------------------------------------------
LEMMA SameCardinality == \A S : Nvml!Cardinality(S) = Cardinality(S)
BY DEF Nvml!Cardinality, Cardinality

LEMMA BufferHas ==
  ASSUME NEW d, NEW t
  PROVE  t \in Nvml!Buffer(d) <=> t \in samples[d] /\ Cardinality({u \in samples[d] : u > t}) < Kept
<1>1. t \in Nvml!Buffer(d) <=> t \in samples[d] /\ Nvml!Cardinality({u \in samples[d] : u > t}) < Kept
  BY DEF Nvml!Buffer
<1> QED BY <1>1, SameCardinality

(* Samples that are later than t can only become more.                     *)
LEMMA LaterSamplesGrow ==
  ASSUME NEW n \in Nat, NEW B, B \subseteq 1 .. n, NEW A, A \subseteq B, NEW t
  PROVE  /\ Cardinality({u \in A : u > t}) \in Nat
         /\ Cardinality({u \in B : u > t}) \in Nat
         /\ Cardinality({u \in A : u > t}) <= Cardinality({u \in B : u > t})
<1> DEFINE X == {u \in A : u > t}
           Y == {u \in B : u > t}
<1>1. X \subseteq Y /\ Y \subseteq 1 .. n
  OBVIOUS
<1>2. IsFiniteSet(1 .. n)
  BY FS_Interval
<1> HIDE DEF X, Y
<1>3. IsFiniteSet(Y) /\ IsFiniteSet(X) /\ Cardinality(X) <= Cardinality(Y)
  <2>1. IsFiniteSet(Y)
    BY <1>1, <1>2, FS_Subset
  <2> QED BY <1>1, <2>1, FS_Subset
<1>4. Cardinality(X) \in Nat /\ Cardinality(Y) \in Nat
  BY <1>3, FS_CardinalityType
<1> QED BY <1>3, <1>4 DEF X, Y

(* A nonempty set of numbers up to n has a greatest.                       *)
LEMMA LeastNumber ==
  ASSUME NEW S, S \subseteq Nat, S # {}
  PROVE  \E m \in S : \A k \in S : m <= k
<1> DEFINE Less == {p \in Nat \X Nat : p[1] < p[2]}
<1>1. IsWellFoundedOn(Less, Nat)
  <2>1. OpToRel(<, Nat) = Less
    BY DEF OpToRel
  <2> QED BY <2>1, NatLessThanWellFounded
<1>2. \A k, m \in Nat : <<k, m>> \in Less <=> k < m
  OBVIOUS
<1> HIDE DEF Less
<1>3. PICK m \in S : \A k \in S : ~ (<<k, m>> \in Less)
  BY <1>1, WFMin
<1>4. ASSUME NEW k \in S PROVE m <= k
  <2>1. k \in Nat /\ m \in Nat /\ ~ (k < m)
    BY <1>2, <1>3
  <2> QED BY <2>1
<1> QED BY <1>4

LEMMA GreatestNumber ==
  ASSUME NEW n \in Nat, NEW S, S \subseteq 0 .. n, S # {}
  PROVE  \E m \in S : \A k \in S : k <= m
<1> DEFINE T == {n - k : k \in S}
<1>1. T \subseteq Nat /\ T # {}
  <2>1. \A k \in S : n - k \in Nat
    OBVIOUS
  <2> QED BY <2>1
<1>2. PICK l \in T : \A k \in T : l <= k
  <2> HIDE DEF T
  <2> QED BY <1>1, LeastNumber
<1>3. PICK m \in S : l = n - m
  BY <1>2
<1>4. ASSUME NEW k \in S PROVE k <= m
  <2>1. n - k \in T
    OBVIOUS
  <2>2. l <= n - k
    BY <1>2, <2>1
  <2> QED BY <1>3, <2>2
<1> QED BY <1>4

(* What a query makes of lastSeen: the latest of what it gave and what was *)
(* seen before (client.go:305-316).                                        *)
LEMMA LatestIsGreatest ==
  ASSUME NvmlInv, NEW r \in Receivers, phase[r] = "running", NEW d \in Nvml!HostDevices
  PROVE  /\ Nvml!LatestTimestamp(nvmlClient[r], d) \in Nvml!Buffer(d) \cup {nvmlClient[r].lastSeen[d]}
         /\ \A u \in Nvml!Buffer(d) \cup {nvmlClient[r].lastSeen[d]} :
              u <= Nvml!LatestTimestamp(nvmlClient[r], d)
<1> DEFINE S == Nvml!Buffer(d) \cup {nvmlClient[r].lastSeen[d]}
<1>1. clock \in Nat /\ samples[d] \subseteq 1 .. clock /\ nvmlClient[r].lastSeen[d] \in 0 .. clock
  BY DEF NvmlInv, NvmlTypes, ClientsFit
<1>2. S \subseteq 0 .. clock /\ S # {}
  BY <1>1 DEF Nvml!Buffer
<1>3. Nvml!LatestTimestamp(nvmlClient[r], d) = CHOOSE t \in S : \A u \in S : u <= t
  BY DEF Nvml!LatestTimestamp
<1> HIDE DEF S
<1>4. \E t \in S : \A u \in S : u <= t
  BY <1>1, <1>2, GreatestNumber
<1>5. LET m == CHOOSE t \in S : \A u \in S : u <= t IN m \in S /\ \A u \in S : u <= m
  BY <1>4
<1>6. Nvml!LatestTimestamp(nvmlClient[r], d) \in S /\ \A u \in S : u <= Nvml!LatestTimestamp(nvmlClient[r], d)
  BY <1>3, <1>5
<1> QED BY <1>6 DEF S

LEMMA NvmlInitInv == Nvml!Init => NvmlInv
<1> SUFFICES ASSUME Nvml!Init PROVE NvmlInv
  OBVIOUS
<1>1. NvmlTypes
  BY DEF Nvml!Init, NvmlTypes, Nvml!NoSamples, Nvml!NoClient, ClientFields
<1>2. LibraryState
  <2>1. library = 0 /\ shutDown = FALSE /\ nvmlInitReturn # "success"
    BY DEF Nvml!Init
  <2>2. \A r \in Receivers : phase[r] # "running"
    BY DEF Nvml!Init
  <2>3. library \in {0, 1} /\ library # 1
    BY <2>1
  <2> QED BY <2>1, <2>2, <2>3, Zenon DEF LibraryState
<1>3. ClientsFit /\ FreshClients
  BY DEF Nvml!Init, ClientsFit, FreshClients
<1>4. ForgottenForGood
  BY DEF Nvml!Init, ForgottenForGood, Nvml!NoSamples
<1>5. Nvml!EverySampleOnce
  BY DEF Nvml!Init, Nvml!EverySampleOnce
<1> QED BY <1>1, <1>2, <1>3, <1>4, <1>5 DEF NvmlInv

LEMMA TickKeeps == NvmlInv /\ Nvml!Tick => NvmlInv'
<1> SUFFICES ASSUME NvmlInv, Nvml!Tick PROVE NvmlInv'
  OBVIOUS
<1>1. /\ UNCHANGED <<nvmlInitReturn, library, shutDown, phase, nvmlClient, averaged, forgotten, again, reloads>>
      /\ clock' = clock + 1 /\ reported' = {}
  BY DEF Nvml!Tick, Nvml!lib, Nvml!history
<1>2. PICK busy \in SUBSET Nvml!HostDevices :
        samples' = [d \in Nvml!HostDevices |-> samples[d] \cup {t \in {clock'} : d \in busy}]
  BY DEF Nvml!Tick
<1>3. clock \in Nat /\ clock' \in Nat /\ \A d \in Nvml!HostDevices : samples[d] \subseteq 1 .. clock
  BY <1>1 DEF NvmlInv, NvmlTypes
<1>4. ASSUME NEW d \in Nvml!HostDevices
      PROVE  /\ samples[d] \subseteq samples'[d] /\ samples'[d] \subseteq samples[d] \cup {clock + 1}
             /\ samples'[d] \subseteq 1 .. clock'
  BY <1>1, <1>2, <1>3
<1>5. NvmlTypes'
  BY <1>1, <1>2, <1>3, <1>4 DEF NvmlInv, NvmlTypes
<1>6. LibraryState' /\ FreshClients'
  BY <1>1 DEF NvmlInv, LibraryState, FreshClients
<1>7. ClientsFit'
  BY <1>1, <1>3 DEF NvmlInv, ClientsFit
<1>8. ForgottenForGood'
  <2> SUFFICES ASSUME NEW r \in Receivers, NEW d \in Nvml!HostDevices, NEW t \in forgotten[r][d]
               PROVE  t \in samples'[d] /\ t \notin Nvml!Buffer(d)'
    BY <1>1 DEF ForgottenForGood
  <2>1. t \in samples[d] /\ t \notin Nvml!Buffer(d)
    BY DEF NvmlInv, ForgottenForGood
  <2>2. ~ (Cardinality({u \in samples[d] : u > t}) < Kept)
    BY <2>1, BufferHas
  <2>3. /\ Cardinality({u \in samples[d] : u > t}) \in Nat
        /\ Cardinality({u \in samples'[d] : u > t}) \in Nat
        /\ Cardinality({u \in samples[d] : u > t}) <= Cardinality({u \in samples'[d] : u > t})
    BY <1>3, <1>4, LaterSamplesGrow
  <2>4. ~ (Cardinality({u \in samples'[d] : u > t}) < Kept)
    BY <2>2, <2>3, KeptAssumption
  <2>5. t \in samples'[d]
    BY <1>4, <2>1
  <2>6. t \notin Nvml!Buffer(d)'
    <3>1. t \in Nvml!Buffer(d)' => Nvml!Cardinality({u \in samples'[d] : u > t}) < Kept
      BY DEF Nvml!Buffer
    <3> QED BY <2>4, <3>1, SameCardinality
  <2> QED BY <2>5, <2>6
<1>9. Nvml!EverySampleOnce'
  <2>1. ASSUME NEW r \in Receivers, NEW d \in Nvml!HostDevices, phase[r] = "running"
        PROVE  averaged[r][d] = {t \in samples'[d] : t <= nvmlClient[r].lastSeen[d]} \ forgotten[r][d]
    <3>1. averaged[r][d] = {t \in samples[d] : t <= nvmlClient[r].lastSeen[d]} \ forgotten[r][d]
      BY <2>1 DEF NvmlInv, Nvml!EverySampleOnce
    <3>2. nvmlClient[r].lastSeen[d] \in 0 .. clock
      BY <2>1 DEF NvmlInv, ClientsFit
    <3>3. {t \in samples'[d] : t <= nvmlClient[r].lastSeen[d]} = {t \in samples[d] : t <= nvmlClient[r].lastSeen[d]}
      BY <1>3, <1>4, <3>2
    <3> QED BY <3>1, <3>3
  <2>2. ~ again'
    BY <1>1 DEF NvmlInv, Nvml!EverySampleOnce
  <2> QED BY <1>1, <2>1, <2>2 DEF Nvml!EverySampleOnce
<1> QED BY <1>5, <1>6, <1>7, <1>8, <1>9 DEF NvmlInv

(* The first call decides what every later one finds.                      *)
LEMMA nvmlInitKeeps ==
  ASSUME LibraryState, Nvml!nvmlInit
  PROVE  /\ library' \in {0, 1} /\ shutDown' \in BOOLEAN
         /\ library' = 1 <=> nvmlInitReturn' = "success" /\ ~ shutDown'
         /\ shutDown' => nvmlInitReturn' = "success"
         /\ nvmlInitReturn = "success" => nvmlInitReturn' = "success"
<1>1. shutDown' = shutDown
  BY DEF Nvml!nvmlInit
<1>2. CASE nvmlInitReturn # "none"
  <2>1. library' = library /\ nvmlInitReturn' = nvmlInitReturn
    BY <1>2 DEF Nvml!nvmlInit
  <2> QED BY <1>1, <2>1, Zenon DEF LibraryState
<1>3. CASE nvmlInitReturn = "none"
  <2>1. library = 0 /\ ~ shutDown /\ nvmlInitReturn # "success"
    BY <1>3 DEF LibraryState
  <2>2. CASE nvmlInitReturn' = "success" /\ library' = 1
    BY <1>1, <2>1, <2>2 DEF LibraryState
  <2>3. CASE nvmlInitReturn' = "error" /\ library' = library
    BY <1>1, <2>1, <2>3 DEF LibraryState
  <2> QED BY <1>3, <2>2, <2>3 DEF Nvml!nvmlInit
<1> QED BY <1>2, <1>3

(* discoverDevices appends to the three lists together (client.go:189-191).*)
LEMMA NewClientFits ==
  ASSUME NEW outcome, clock \in Nat
  PROVE  LET c == Nvml!newClient(outcome) IN
         /\ DOMAIN c = ClientFields
         /\ c.lastSeen = [d \in Nvml!HostDevices |-> 0]
         /\ \A i \in 1 .. Len(c.devices) :
              c.names[i] = Nvml!Model(c.devices[i]) /\ c.UUIDs[i] = Nvml!UUID(c.devices[i])
<1> DEFINE found == Nvml!DevicesWith(outcome, {"found"})
<1>1. Nvml!newClient(outcome) =
        [devices |-> found, names |-> Nvml!NamesFound(outcome), UUIDs |-> Nvml!UUIDsFound(outcome),
         lastSeen |-> [d \in Nvml!HostDevices |-> 0],
         accounting |-> Nvml!enableProcessAccountingModeOnSupportingDevices(found)]
  BY DEF Nvml!newClient
<1>2. /\ Nvml!NamesFound(outcome) = [i \in 1 .. Len(found) |-> Nvml!Model(found[i])]
      /\ Nvml!UUIDsFound(outcome) = [i \in 1 .. Len(found) |-> Nvml!UUID(found[i])]
  BY DEF Nvml!NamesFound, Nvml!UUIDsFound
<1> HIDE DEF found
<1> QED BY <1>1, <1>2 DEF ClientFields

LEMMA NvmlStartKeeps ==
  ASSUME NvmlInv, NEW r \in Receivers, Nvml!Start(r)
  PROVE  NvmlInv'
<1>1. /\ UNCHANGED <<clock, samples, averaged, forgotten, again>> /\ reported' = {}
      /\ phase[r] = "new" /\ Nvml!nvmlInit
  BY DEF Nvml!Start, Nvml!driver, Nvml!history
<1>2. averaged[r] = Nvml!NoSamples
  BY <1>1 DEF NvmlInv, FreshClients
<1>3. /\ phase \in [Receivers -> {"new", "running", "disabled", "failed", "stopped"}]
      /\ DOMAIN nvmlClient = Receivers /\ clock \in Nat
      /\ \A d \in Nvml!HostDevices : samples[d] \subseteq 1 .. clock
  BY DEF NvmlInv, NvmlTypes
<1>4. \A d : Nvml!Buffer(d)' = Nvml!Buffer(d)
  BY <1>1 DEF Nvml!Buffer
<1>5. ForgottenForGood'
  BY <1>1, <1>4 DEF NvmlInv, ForgottenForGood
<1>6. CASE Nvml!StartRuns(r)
  <2>1. PICK outcome \in [Nvml!HostDevices -> Nvml!Outcomes] :
          nvmlClient' = [nvmlClient EXCEPT ![r] = Nvml!newClient(outcome)]
    BY <1>6 DEF Nvml!StartRuns
  <2> DEFINE c == Nvml!newClient(outcome)
  <2>2. /\ DOMAIN c = ClientFields /\ c.lastSeen = [d \in Nvml!HostDevices |-> 0]
        /\ \A i \in 1 .. Len(c.devices) :
             c.names[i] = Nvml!Model(c.devices[i]) /\ c.UUIDs[i] = Nvml!UUID(c.devices[i])
    BY <1>3, NewClientFits
  <2>3. nvmlClient' = [nvmlClient EXCEPT ![r] = c]
    BY <2>1
  <2> HIDE DEF c
  <2>4. phase' = [phase EXCEPT ![r] = "running"] /\ nvmlInitReturn' = "success"
    BY <1>6 DEF Nvml!StartRuns
  <2>5. NvmlTypes'
    BY <1>1, <1>3, <2>2, <2>3, <2>4 DEF NvmlInv, NvmlTypes
  <2>6. LibraryState'
    BY <1>1, <2>4, nvmlInitKeeps DEF NvmlInv, LibraryState
  <2>7. ClientsFit'
    BY <1>1, <1>3, <2>2, <2>3, <2>4 DEF NvmlInv, ClientsFit
  <2>8. FreshClients'
    BY <1>1, <1>3, <2>4 DEF NvmlInv, FreshClients
  <2>9. Nvml!EverySampleOnce'
    <3>1. ASSUME NEW q \in Receivers, NEW d \in Nvml!HostDevices, phase'[q] = "running"
          PROVE  averaged'[q][d] = {t \in samples'[d] : t <= nvmlClient'[q].lastSeen[d]} \ forgotten'[q][d]
      <4>1. CASE q = r
        <5>1. averaged'[q][d] = {} /\ nvmlClient'[q].lastSeen[d] = 0
          BY <1>1, <1>2, <1>3, <2>2, <2>3, <4>1 DEF Nvml!NoSamples
        <5>2. {t \in samples'[d] : t <= 0} = {}
          BY <1>1, <1>3
        <5> QED BY <5>1, <5>2
      <4>2. CASE q # r
        <5>1. phase[q] = "running" /\ nvmlClient'[q] = nvmlClient[q]
          BY <1>3, <2>3, <2>4, <3>1, <4>2
        <5> QED BY <1>1, <5>1 DEF NvmlInv, Nvml!EverySampleOnce
      <4> QED BY <4>1, <4>2
    <3>2. ~ again'
      BY <1>1 DEF NvmlInv, Nvml!EverySampleOnce
    <3> QED BY <1>1, <3>1, <3>2 DEF Nvml!EverySampleOnce
  <2> QED BY <1>5, <2>5, <2>6, <2>7, <2>8, <2>9 DEF NvmlInv
<1>7. CASE nvmlClient' = nvmlClient /\ \E x \in {"disabled", "failed"} : phase' = [phase EXCEPT ![r] = x]
  <2>1. PICK x \in {"disabled", "failed"} : phase' = [phase EXCEPT ![r] = x]
    BY <1>7
  <2>2. phase'[r] # "running" /\ \A q \in Receivers : q # r => phase'[q] = phase[q]
    BY <1>3, <2>1
  <2>3. NvmlTypes'
    BY <1>1, <1>3, <1>7, <2>1 DEF NvmlInv, NvmlTypes
  <2>4. LibraryState'
    BY <1>1, <2>2, nvmlInitKeeps DEF NvmlInv, LibraryState
  <2>5. ClientsFit' /\ FreshClients'
    BY <1>1, <1>2, <1>7, <2>2 DEF NvmlInv, ClientsFit, FreshClients
  <2>6. Nvml!EverySampleOnce'
    BY <1>1, <1>7, <2>2 DEF NvmlInv, Nvml!EverySampleOnce
  <2> QED BY <1>5, <2>3, <2>4, <2>5, <2>6 DEF NvmlInv
<1> QED BY <1>6, <1>7 DEF Nvml!Start, Nvml!StartDisabled, Nvml!StartFails

LEMMA NvmlStopKeeps ==
  ASSUME NvmlInv, NEW r \in Receivers, Nvml!Stop(r)
  PROVE  NvmlInv'
<1>1. /\ UNCHANGED <<clock, samples, nvmlInitReturn, again>> /\ reported' = {}
      /\ phase' = [phase EXCEPT ![r] = "stopped"]
      /\ nvmlClient' = [nvmlClient EXCEPT ![r] = Nvml!NoClient]
      /\ averaged' = [averaged EXCEPT ![r] = Nvml!NoSamples]
      /\ forgotten' = [forgotten EXCEPT ![r] = Nvml!NoSamples]
  BY DEF Nvml!Stop, Nvml!driver
<1>2. DOMAIN Nvml!NoClient = ClientFields
  BY DEF Nvml!NoClient, ClientFields
<1>3. Nvml!NoSamples \in [Nvml!HostDevices -> SUBSET Nat] /\ \A d \in Nvml!HostDevices : Nvml!NoSamples[d] = {}
  BY DEF Nvml!NoSamples
<1>4. /\ phase \in [Receivers -> {"new", "running", "disabled", "failed", "stopped"}]
      /\ DOMAIN nvmlClient = Receivers /\ clock \in Nat
      /\ averaged \in [Receivers -> [Nvml!HostDevices -> SUBSET Nat]]
      /\ forgotten \in [Receivers -> [Nvml!HostDevices -> SUBSET Nat]]
  BY DEF NvmlInv, NvmlTypes
<1>5. /\ phase'[r] # "running" /\ averaged'[r] = Nvml!NoSamples /\ forgotten'[r] = Nvml!NoSamples
      /\ \A q \in Receivers : q # r =>
           /\ phase'[q] = phase[q] /\ nvmlClient'[q] = nvmlClient[q]
           /\ averaged'[q] = averaged[q] /\ forgotten'[q] = forgotten[q]
  BY <1>1, <1>4
<1>6. NvmlTypes'
  BY <1>1, <1>2, <1>3, <1>4 DEF NvmlInv, NvmlTypes
<1>7. LibraryState'
  <2>1. CASE phase[r] = "running"
    <3>1. nvmlInitReturn = "success" /\ library \in {0, 1}
      BY <2>1 DEF NvmlInv, LibraryState
    <3>2. library' = 0 /\ shutDown' = TRUE
      BY <2>1, <3>1 DEF Nvml!Stop
    <3> QED BY <1>1, <1>5, <3>1, <3>2 DEF NvmlInv, LibraryState
  <2>2. CASE phase[r] # "running"
    <3>1. library' = library /\ shutDown' = shutDown
      BY <2>2 DEF Nvml!Stop
    <3>2. \A q \in Receivers : phase'[q] = "running" => phase[q] = "running"
      BY <1>5
    <3> QED BY <1>1, <3>1, <3>2, Zenon DEF NvmlInv, LibraryState
  <2> QED BY <2>1, <2>2
<1>8. ClientsFit' /\ FreshClients'
  BY <1>1, <1>5 DEF NvmlInv, ClientsFit, FreshClients
<1>9. ForgottenForGood'
  <2>1. \A d : Nvml!Buffer(d)' = Nvml!Buffer(d)
    BY <1>1 DEF Nvml!Buffer
  <2> QED BY <1>1, <1>3, <1>5, <2>1 DEF NvmlInv, ForgottenForGood
<1>10. Nvml!EverySampleOnce'
  BY <1>1, <1>5 DEF NvmlInv, Nvml!EverySampleOnce
<1> QED BY <1>6, <1>7, <1>8, <1>9, <1>10 DEF NvmlInv

LEMMA ReloadKeeps == NvmlInv /\ Nvml!Reload => NvmlInv'
<1> SUFFICES ASSUME NvmlInv, Nvml!Reload PROVE NvmlInv'
  OBVIOUS
<1>1. /\ UNCHANGED <<clock, samples, nvmlInitReturn, library, shutDown, nvmlClient, averaged, forgotten, again>>
      /\ reported' = {} /\ phase' = [r \in Receivers |-> "new"]
      /\ \A r \in Receivers : phase[r] = "stopped"
  BY DEF Nvml!Reload, Nvml!driver, Nvml!lib, Nvml!history
<1>2. NvmlTypes'
  BY <1>1 DEF NvmlInv, NvmlTypes
<1>3. LibraryState'
  <2>1. \A q \in Receivers : phase'[q] # "running"
    BY <1>1
  <2> QED BY <1>1, <2>1, Zenon DEF NvmlInv, LibraryState
<1>4. ClientsFit' /\ FreshClients'
  BY <1>1 DEF NvmlInv, ClientsFit, FreshClients
<1>5. ForgottenForGood'
  BY <1>1 DEF NvmlInv, ForgottenForGood, Nvml!Buffer
<1>6. Nvml!EverySampleOnce'
  BY <1>1 DEF NvmlInv, Nvml!EverySampleOnce
<1> QED BY <1>2, <1>3, <1>4, <1>5, <1>6 DEF NvmlInv

(* What one query of one device does to the books: whether or not it was   *)
(* answered, the samples up to lastSeen are those that were averaged and   *)
(* those that the driver had forgotten (client.go:290-322).                *)
LEMMA QueryKeepsBooks ==
  ASSUME NEW all, all \subseteq Nat, NEW buffer, buffer \subseteq all,
         NEW seen \in Nat, NEW done, NEW lost, lost \subseteq all \ buffer,
         done = {t \in all : t <= seen} \ lost,
         NEW latest \in Nat, seen <= latest, \A u \in buffer : u <= latest,
         latest \in buffer \cup {seen},
         NEW lost2, lost2 = lost \cup ((all \ buffer) \ done),
         NEW new, new = {t \in buffer : t > seen}
  PROVE  /\ lost2 \subseteq all \ buffer
         /\ done = {t \in all : t <= seen} \ lost2
         /\ done \cup new = {t \in all : t <= latest} \ lost2
         /\ new \cap done = {}
<1>1. lost2 \subseteq all \ buffer
  OBVIOUS
<1>2. done = {t \in all : t <= seen} \ lost2
  OBVIOUS
<1>3. ASSUME NEW t
      PROVE  t \in done \cup new <=> t \in {u \in all : u <= latest} \ lost2
  <2>1. CASE t \in all
    <3>1. t \in Nat
      BY <2>1
    <3>2. t \in done <=> t <= seen /\ t \notin lost
      BY <2>1
    <3>3. t \in new <=> t \in buffer /\ t > seen
      OBVIOUS
    <3>4. t \in lost2 <=> t \in lost \/ (t \notin buffer /\ t \notin done)
      BY <2>1
    <3>5. t \in buffer => t <= latest /\ t \notin lost
      OBVIOUS
    <3> QED BY <2>1, <3>1, <3>2, <3>3, <3>4, <3>5
  <2>2. CASE t \notin all
    BY <2>2
  <2> QED BY <2>1, <2>2
<1>4. done \cup new = {t \in all : t <= latest} \ lost2
  BY <1>3
<1>5. \A t \in new : t \notin done
  <2> SUFFICES ASSUME NEW t \in new, t \in done PROVE FALSE
    OBVIOUS
  <2>1. t \in Nat /\ t > seen /\ t <= seen
    OBVIOUS
  <2> QED BY <2>1
<1> QED BY <1>1, <1>2, <1>4, <1>5

LEMMA ScrapeRunningKeeps ==
  ASSUME NvmlInv, NEW r \in Receivers, phase[r] = "running", Nvml!ScrapeRunning(r),
         UNCHANGED <<clock, samples, nvmlInitReturn, library, shutDown, phase>>
  PROVE  NvmlInv'
<1> DEFINE c == nvmlClient[r]
           Dev == Nvml!HostDevices
<1>1. PICK unanswered \in Nvml!Unanswered :
        LET Answered(query) ==
              {d \in Nvml!HostDevices \cap Nvml!ToSet(c.devices) : <<query, d>> \notin unanswered}
        IN /\ Nvml!collectDeviceUtilization(r, Answered("utilization"))
           /\ reported' = Nvml!UtilizationPoints(c, Answered("utilization"))
                            \cup Nvml!MemoryPoints(c, Answered("memory"))
                            \cup Nvml!ProcessPoints(c, Answered("processes"))
  BY DEF Nvml!ScrapeRunning
<1> DEFINE Answered(query) == {d \in Nvml!HostDevices \cap Nvml!ToSet(c.devices) : <<query, d>> \notin unanswered}
           A == Answered("utilization")
           new == [d \in Dev |-> IF d \in A THEN Nvml!SinceLastSeen(c, d) ELSE {}]
           seen == [d \in Dev |-> IF d \in A THEN Nvml!LatestTimestamp(c, d) ELSE c.lastSeen[d]]
           lost == [d \in Dev |-> forgotten[r][d] \cup ((samples[d] \ Nvml!Buffer(d)) \ averaged[r][d])]
<1>2. A \subseteq Dev
  OBVIOUS
<1>3. /\ nvmlClient' = [nvmlClient EXCEPT ![r].lastSeen = seen]
      /\ averaged' = [averaged EXCEPT ![r] = [d \in Dev |-> averaged[r][d] \cup new[d]]]
      /\ forgotten' = [forgotten EXCEPT ![r] = lost]
      /\ again' = (again \/ \E d \in A : new[d] \cap averaged[r][d] # {})
  <2>1. Nvml!collectDeviceUtilization(r, A)
    BY <1>1
  <2> HIDE DEF A
  <2> QED BY <2>1 DEF Nvml!collectDeviceUtilization
<1>4. /\ clock \in Nat /\ DOMAIN nvmlClient = Receivers /\ DOMAIN c = ClientFields
      /\ averaged \in [Receivers -> [Dev -> SUBSET Nat]]
      /\ forgotten \in [Receivers -> [Dev -> SUBSET Nat]]
  BY DEF NvmlInv, NvmlTypes
<1>5. ASSUME NEW d \in Dev
      PROVE  /\ samples[d] \subseteq 1 .. clock /\ Nvml!Buffer(d) \subseteq samples[d]
             /\ c.lastSeen[d] \in 0 .. clock
             /\ forgotten[r][d] \subseteq samples[d] \ Nvml!Buffer(d)
             /\ averaged[r][d] = {t \in samples[d] : t <= c.lastSeen[d]} \ forgotten[r][d]
             /\ Nvml!SinceLastSeen(c, d) = {t \in Nvml!Buffer(d) : t > c.lastSeen[d]}
  <2>1. samples[d] \subseteq 1 .. clock
    BY DEF NvmlInv, NvmlTypes
  <2>2. Nvml!Buffer(d) \subseteq samples[d]
    BY DEF Nvml!Buffer
  <2>3. c.lastSeen[d] \in 0 .. clock
    BY DEF NvmlInv, ClientsFit
  <2>4. forgotten[r][d] \subseteq samples[d] \ Nvml!Buffer(d)
    BY DEF NvmlInv, ForgottenForGood
  <2>5. averaged[r][d] = {t \in samples[d] : t <= c.lastSeen[d]} \ forgotten[r][d]
    BY DEF NvmlInv, Nvml!EverySampleOnce
  <2>6. Nvml!SinceLastSeen(c, d) = {t \in Nvml!Buffer(d) : t > c.lastSeen[d]}
    BY DEF Nvml!SinceLastSeen
  <2> QED BY <2>1, <2>2, <2>3, <2>4, <2>5, <2>6
<1>6. ASSUME NEW d \in Dev
      PROVE  /\ Nvml!LatestTimestamp(c, d) \in Nvml!Buffer(d) \cup {c.lastSeen[d]}
             /\ \A u \in Nvml!Buffer(d) \cup {c.lastSeen[d]} : u <= Nvml!LatestTimestamp(c, d)
             /\ Nvml!LatestTimestamp(c, d) \in 0 .. clock
  <2>1. /\ Nvml!LatestTimestamp(c, d) \in Nvml!Buffer(d) \cup {c.lastSeen[d]}
        /\ \A u \in Nvml!Buffer(d) \cup {c.lastSeen[d]} : u <= Nvml!LatestTimestamp(c, d)
    BY LatestIsGreatest
  <2> QED BY <1>4, <1>5, <2>1
<1>7. ASSUME NEW d \in Dev
      PROVE  /\ lost[d] \subseteq samples[d] \ Nvml!Buffer(d)
             /\ averaged[r][d] \cup new[d] = {t \in samples[d] : t <= seen[d]} \ lost[d]
             /\ new[d] \cap averaged[r][d] = {}
             /\ seen[d] \in 0 .. clock /\ new[d] \subseteq Nat /\ lost[d] \subseteq Nat
  <2> DEFINE latest == Nvml!LatestTimestamp(c, d)
  <2>1. /\ lost[d] = forgotten[r][d] \cup ((samples[d] \ Nvml!Buffer(d)) \ averaged[r][d])
        /\ new[d] = IF d \in A THEN {t \in Nvml!Buffer(d) : t > c.lastSeen[d]} ELSE {}
        /\ seen[d] = IF d \in A THEN latest ELSE c.lastSeen[d]
    BY <1>5
  <2>2. /\ lost[d] \subseteq samples[d] \ Nvml!Buffer(d)
        /\ averaged[r][d] = {t \in samples[d] : t <= c.lastSeen[d]} \ lost[d]
        /\ averaged[r][d] \cup {t \in Nvml!Buffer(d) : t > c.lastSeen[d]} = {t \in samples[d] : t <= latest} \ lost[d]
        /\ {t \in Nvml!Buffer(d) : t > c.lastSeen[d]} \cap averaged[r][d] = {}
    <3>1. /\ samples[d] \subseteq Nat /\ c.lastSeen[d] \in Nat /\ latest \in Nat /\ c.lastSeen[d] <= latest
          /\ \A u \in Nvml!Buffer(d) : u <= latest
      BY <1>4, <1>5, <1>6
    <3>2. /\ Nvml!Buffer(d) \subseteq samples[d] /\ forgotten[r][d] \subseteq samples[d] \ Nvml!Buffer(d)
          /\ averaged[r][d] = {t \in samples[d] : t <= c.lastSeen[d]} \ forgotten[r][d]
          /\ latest \in Nvml!Buffer(d) \cup {c.lastSeen[d]}
      BY <1>5, <1>6
    <3>3. lost[d] = forgotten[r][d] \cup ((samples[d] \ Nvml!Buffer(d)) \ averaged[r][d])
      BY <2>1
    <3> HIDE DEF latest, lost, c, A, new, seen
    <3> QED BY <3>1, <3>2, <3>3, QueryKeepsBooks
  <2>3. seen[d] \in 0 .. clock /\ samples[d] \subseteq Nat
    BY <1>4, <1>5, <1>6, <2>1
  <2> HIDE DEF new, seen, lost, A, latest, c
  <2> QED BY <1>5, <2>1, <2>2, <2>3
<1> HIDE DEF new, seen, lost, A
<1>8. /\ nvmlClient'[r] = [c EXCEPT !.lastSeen = seen]
      /\ \A q \in Receivers : q # r => /\ nvmlClient'[q] = nvmlClient[q]
                                       /\ averaged'[q] = averaged[q] /\ forgotten'[q] = forgotten[q]
      /\ DOMAIN nvmlClient' = Receivers
      /\ averaged'[r] = [d \in Dev |-> averaged[r][d] \cup new[d]] /\ forgotten'[r] = lost
  BY <1>3, <1>4
<1>9. /\ nvmlClient'[r].lastSeen = seen /\ nvmlClient'[r].devices = c.devices
      /\ nvmlClient'[r].names = c.names /\ nvmlClient'[r].UUIDs = c.UUIDs /\ DOMAIN nvmlClient'[r] = ClientFields
  <2> HIDE DEF c
  <2> QED BY <1>4, <1>8 DEF ClientFields
<1>10. seen \in [Dev -> 0 .. clock] /\ lost \in [Dev -> SUBSET Nat]
  BY <1>7 DEF seen, lost
<1>11. NvmlTypes'
  <2>1. averaged' \in [Receivers -> [Dev -> SUBSET Nat]]
    BY <1>3, <1>4, <1>7
  <2>2. forgotten' \in [Receivers -> [Dev -> SUBSET Nat]]
    BY <1>3, <1>4, <1>10
  <2>3. \A q \in Receivers : DOMAIN nvmlClient'[q] = ClientFields
    BY <1>8, <1>9 DEF NvmlInv, NvmlTypes
  <2> QED BY <1>8, <2>1, <2>2, <2>3 DEF NvmlInv, NvmlTypes
<1>12. LibraryState'
  BY Zenon DEF NvmlInv, LibraryState
<1>13. ClientsFit'
  <2>1. ASSUME NEW q \in Receivers, phase'[q] = "running", q # r
        PROVE  /\ nvmlClient'[q].lastSeen \in [Dev -> 0 .. clock]
               /\ \A i \in 1 .. Len(nvmlClient'[q].devices) :
                    /\ nvmlClient'[q].names[i] = Nvml!Model(nvmlClient'[q].devices[i])
                    /\ nvmlClient'[q].UUIDs[i] = Nvml!UUID(nvmlClient'[q].devices[i])
    BY <1>8, <2>1 DEF NvmlInv, ClientsFit
  <2>2. /\ nvmlClient'[r].lastSeen \in [Dev -> 0 .. clock]
        /\ \A i \in 1 .. Len(nvmlClient'[r].devices) :
             /\ nvmlClient'[r].names[i] = Nvml!Model(nvmlClient'[r].devices[i])
             /\ nvmlClient'[r].UUIDs[i] = Nvml!UUID(nvmlClient'[r].devices[i])
    BY <1>9, <1>10 DEF NvmlInv, ClientsFit
  <2> QED BY <2>1, <2>2 DEF ClientsFit
<1>14. FreshClients'
  BY <1>8 DEF NvmlInv, FreshClients
<1>15. ForgottenForGood'
  <2>1. \A d : Nvml!Buffer(d)' = Nvml!Buffer(d)
    BY DEF Nvml!Buffer
  <2>2. ASSUME NEW q \in Receivers, NEW d \in Dev
        PROVE  forgotten'[q][d] \subseteq samples[d] \ Nvml!Buffer(d)
    BY <1>7, <1>8 DEF NvmlInv, ForgottenForGood
  <2> QED BY <2>1, <2>2 DEF ForgottenForGood
<1>16. ~ again'
  <2>1. ~ again
    BY DEF NvmlInv, Nvml!EverySampleOnce
  <2> QED BY <1>2, <1>3, <1>7, <2>1
<1>17. ASSUME NEW q \in Receivers, NEW d \in Dev, phase'[q] = "running"
       PROVE  averaged'[q][d] = {t \in samples'[d] : t <= nvmlClient'[q].lastSeen[d]} \ forgotten'[q][d]
  <2>1. CASE q = r
    <3>1. averaged'[r][d] = averaged[r][d] \cup new[d]
      BY <1>8
    <3> QED BY <1>7, <1>8, <1>9, <2>1, <3>1
  <2>2. CASE q # r
    BY <1>8, <1>17, <2>2 DEF NvmlInv, Nvml!EverySampleOnce
  <2> QED BY <2>1, <2>2
<1>18. \A p \in reported' : p.model = Nvml!Model(p.device) /\ p.uuid = Nvml!UUID(p.device)
  <2>1. ASSUME NEW i \in 1 .. Len(c.devices), NEW m, NEW labels, NEW of
        PROVE  LET p == Nvml!Point(c, i, m, labels, of)
               IN p.model = Nvml!Model(p.device) /\ p.uuid = Nvml!UUID(p.device)
    BY DEF NvmlInv, ClientsFit, Nvml!Point
  <2>2. ASSUME NEW p \in reported'
        PROVE  \E i \in 1 .. Len(c.devices) : \E m, labels, of : p = Nvml!Point(c, i, m, labels, of)
    <3> HIDE DEF Answered
    <3>1. CASE p \in Nvml!UtilizationPoints(c, Answered("utilization"))
      BY <3>1 DEF Nvml!UtilizationPoints
    <3>2. CASE p \in Nvml!MemoryPoints(c, Answered("memory"))
      <4>1. PICK i \in {j \in 1 .. Len(c.devices) : c.devices[j] \in Answered("memory")},
                 state \in Nvml!AttributeMemoryState :
              p = Nvml!Point(c, i, Nvml!metricNvmlGpuMemoryBytesUsed, {state}, {})
        BY <3>2 DEF Nvml!MemoryPoints, Nvml!Point
      <4> QED BY <4>1
    <3>3. CASE p \in Nvml!ProcessPoints(c, Answered("processes"))
      BY <3>3 DEF Nvml!ProcessPoints
    <3>4. reported' = Nvml!UtilizationPoints(c, Answered("utilization"))
                        \cup Nvml!MemoryPoints(c, Answered("memory"))
                        \cup Nvml!ProcessPoints(c, Answered("processes"))
      BY <1>1 DEF Answered
    <3> QED BY <3>1, <3>2, <3>3, <3>4
  <2> QED BY <2>1, <2>2
<1>19. Nvml!EverySampleOnce'
  BY <1>16, <1>17, <1>18 DEF Nvml!EverySampleOnce
<1> QED BY <1>11, <1>12, <1>13, <1>14, <1>15, <1>19 DEF NvmlInv

LEMMA NvmlQuietKeeps ==
  ASSUME NvmlInv,
         UNCHANGED <<clock, samples, nvmlInitReturn, library, shutDown, phase, nvmlClient, averaged, forgotten, again>>,
         reported' \subseteq reported
  PROVE  NvmlInv'
<1>1. NvmlTypes' /\ ClientsFit' /\ FreshClients'
  BY DEF NvmlInv, NvmlTypes, ClientsFit, FreshClients
<1>2. LibraryState'
  BY Zenon DEF NvmlInv, LibraryState
<1>3. ForgottenForGood'
  BY DEF NvmlInv, ForgottenForGood, Nvml!Buffer
<1>4. Nvml!EverySampleOnce'
  BY DEF NvmlInv, Nvml!EverySampleOnce
<1> QED BY <1>1, <1>2, <1>3, <1>4 DEF NvmlInv

LEMMA NvmlInvAlways == Nvml!Spec => []NvmlInv
<1>1. NvmlInv /\ [Nvml!Next]_(Nvml!vars) => NvmlInv'
  <2> SUFFICES ASSUME NvmlInv, [Nvml!Next]_(Nvml!vars) PROVE NvmlInv'
    OBVIOUS
  <2>1. CASE UNCHANGED Nvml!vars
    BY <2>1, NvmlQuietKeeps DEF Nvml!vars, Nvml!driver, Nvml!lib, Nvml!history
  <2>2. ASSUME NEW r \in Receivers, Nvml!Scrape(r) PROVE NvmlInv'
    <3>1. UNCHANGED <<clock, samples, nvmlInitReturn, library, shutDown, phase>>
      BY <2>2 DEF Nvml!Scrape, Nvml!driver, Nvml!lib
    <3>2. CASE phase[r] = "running" /\ Nvml!ScrapeRunning(r)
      BY <3>1, <3>2, ScrapeRunningKeeps
    <3>3. CASE Nvml!ScrapeDisabled
      BY <3>1, <3>3, NvmlQuietKeeps DEF Nvml!ScrapeDisabled, Nvml!history
    <3> QED BY <2>2, <3>2, <3>3 DEF Nvml!Scrape
  <2> QED BY <2>1, <2>2, TickKeeps, NvmlStartKeeps, NvmlStopKeeps, ReloadKeeps DEF Nvml!Next
<1> QED BY <1>1, NvmlInitInv, PTL DEF Nvml!Spec

(* The receivers of the composed model are those of NvmlReceiver.          *)
LEMMA ComposedIsNvml == MCSpec => Nvml!Spec
<1>1. MCInit => Nvml!Init
  BY DEF MCInit
<1>2. [MCNext]_<<scenario, vars, varnishVars, dcgmVars, nvmlVars, builderVars>> => [Nvml!Next]_(Nvml!vars)
  BY DEF MCNext, nvmlVars, Nvml!vars, Nvml!driver, Nvml!lib, Nvml!history
<1> QED BY <1>1, <1>2, PTL DEF MCSpec, Nvml!Spec

(* For all receivers, devices and sizes of the driver's buffer, without a  *)
(* bound on the clock and on reloads: a receiver averages every sample     *)
(* once that the driver had not forgotten by then, whichever queries fail, *)
(* and labels a point with the model and the UUID of its own device        *)
(* (nvmlreceiver/client.go:173-197 and 290-322).                           *)
THEOREM SamplesAveragedOnce == MCSpec => []EverySampleOnce
<1>1. NvmlInv => EverySampleOnce
  BY DEF NvmlInv, EverySampleOnce
<1> QED BY <1>1, ComposedIsNvml, NvmlInvAlways, PTL

(* For all receivers: the library is there exactly until the first client  *)
(* stops, whatever starts or is reloaded later (client.go:65-72, 130-138). *)
THEOREM LibraryGoneForGood == MCSpec => []LibraryUntilFirstStop
<1>1. NvmlInv => LibraryUntilFirstStop
  <2> SUFFICES ASSUME LibraryState PROVE library > 0 <=> nvmlInitReturn = "success" /\ ~ shutDown
    BY DEF NvmlInv, LibraryUntilFirstStop, Nvml!LibraryUntilFirstStop
  <2>1. library > 0 <=> library = 1
    BY DEF LibraryState
  <2> QED BY <2>1, Zenon DEF LibraryState
<1> QED BY <1>1, ComposedIsNvml, NvmlInvAlways, PTL

-----------------------------------------------------------------------------
(***************************************************************************)
(* The record calls of the dcgm scraper.                                   *)
(***************************************************************************)

(* A call has a source and perhaps a fallback; that of a monotonic sum     *)
(* reads rates and totals only (dcgmreceiver/scraper.go:260-365).          *)
SourceFits(s) ==
  /\ s = [read |-> s.read, field |-> s.field]
  /\ s.read \in {"last", "rate", "total"}

CallFits(c) ==
  /\ Len(c.sources) \in 1 .. 2
  /\ \A i \in 1 .. Len(c.sources) :
       SourceFits(c.sources[i]) /\ (c.metric.monotonic => c.sources[i].read # "last")

LEMMA SourcesFit ==
  ASSUME NEW f
  PROVE  /\ SourceFits(Dcgm!LastValue(f)) /\ SourceFits(Dcgm!IntegratedRate(f))
         /\ SourceFits(Dcgm!CumulativeTotal(f))
         /\ Dcgm!IntegratedRate(f).read # "last" /\ Dcgm!CumulativeTotal(f).read # "last"
BY DEF SourceFits, Dcgm!LastValue, Dcgm!IntegratedRate, Dcgm!CumulativeTotal

LEMMA OneSource ==
  ASSUME NEW m, NEW a, NEW s, SourceFits(s), m.monotonic => s.read # "last"
  PROVE  CallFits(Dcgm!Call(m, a, <<s>>))
BY DEF CallFits, Dcgm!Call

LEMMA TwoSources ==
  ASSUME NEW m, NEW a, NEW s, NEW t, SourceFits(s), SourceFits(t),
         m.monotonic => s.read # "last" /\ t.read # "last"
  PROVE  CallFits(Dcgm!Call(m, a, <<s, t>>))
<1>1. /\ Dcgm!Call(m, a, <<s, t>>).sources = <<s, t>>
      /\ Dcgm!Call(m, a, <<s, t>>).metric = m
  BY DEF Dcgm!Call
<1>2. \A i \in 1 .. 2 : i = 1 \/ i = 2
  OBVIOUS
<1> QED
  BY <1>1, <1>2 DEF CallFits

LEMMA GaugesFit ==
  /\ ~Dcgm!metricGpuDcgmUtilization.monotonic
  /\ ~Dcgm!metricGpuDcgmSmUtilization.monotonic
  /\ ~Dcgm!metricGpuDcgmSmOccupancy.monotonic
  /\ ~Dcgm!metricGpuDcgmCodecEncoderUtilization.monotonic
  /\ ~Dcgm!metricGpuDcgmCodecDecoderUtilization.monotonic
  /\ ~Dcgm!metricGpuDcgmPipeUtilization.monotonic
  /\ ~Dcgm!metricGpuDcgmMemoryBytesUsed.monotonic
  /\ ~Dcgm!metricGpuDcgmMemoryBandwidthUtilization.monotonic
  /\ ~Dcgm!metricGpuDcgmTemperature.monotonic
  /\ ~Dcgm!metricGpuDcgmClockFrequency.monotonic
BY DEF Dcgm!Gauge, Dcgm!metricGpuDcgmUtilization, Dcgm!metricGpuDcgmSmUtilization,
       Dcgm!metricGpuDcgmSmOccupancy, Dcgm!metricGpuDcgmCodecEncoderUtilization,
       Dcgm!metricGpuDcgmCodecDecoderUtilization, Dcgm!metricGpuDcgmPipeUtilization,
       Dcgm!metricGpuDcgmMemoryBytesUsed, Dcgm!metricGpuDcgmMemoryBandwidthUtilization,
       Dcgm!metricGpuDcgmTemperature, Dcgm!metricGpuDcgmClockFrequency

LEMMA CallsFit == \A c \in Dcgm!Calls : CallFits(c)
<1> SUFFICES ASSUME NEW c \in Dcgm!Calls PROVE CallFits(c)
  OBVIOUS
<1>1. CASE c \in Dcgm!UtilizationCalls
  BY <1>1, Zenon, OneSource, TwoSources, SourcesFit, GaugesFit DEF Dcgm!UtilizationCalls
<1>2. CASE c \in Dcgm!MemoryCalls
  BY <1>2, Zenon, OneSource, TwoSources, SourcesFit, GaugesFit DEF Dcgm!MemoryCalls
<1>3. CASE c \in Dcgm!IoCalls
  BY <1>3, Zenon, OneSource, SourcesFit DEF Dcgm!IoCalls
<1>4. CASE c \in Dcgm!PowerCalls
  BY <1>4, Zenon, OneSource, TwoSources, SourcesFit, GaugesFit DEF Dcgm!PowerCalls
<1>5. CASE c \in Dcgm!ViolationCalls
  BY <1>5, Zenon, OneSource, SourcesFit DEF Dcgm!ViolationCalls
<1>6. CASE c \in Dcgm!EccCalls
  BY <1>6, Zenon, OneSource, SourcesFit DEF Dcgm!EccCalls
<1> QED
  BY <1>1, <1>2, <1>3, <1>4, <1>5, <1>6 DEF Dcgm!Calls

(* What has accumulated for each field that has had a value.               *)
StatsFit ==
  /\ now \in Nat
  /\ DOMAIN stats \subseteq Dcgm!Fields
  /\ \A f \in DOMAIN stats :
       /\ stats[f].ts \in 0 .. now /\ stats[f].last \in Nat
       /\ stats[f].first \in Nat /\ stats[f].rate \in Nat
       /\ Dcgm!CumulativeTotal(f) \in Dcgm!Sources => stats[f].first <= stats[f].last

(* What was reported is of the first source that had a value then, and     *)
(* has not fallen since when it is a rate or a total.                      *)
ReportFits ==
  /\ report.value \in Nat /\ report.source \in 0 .. Len(call.sources)
  /\ report.source = 0 => report.value = 0
  /\ report.source # 0 =>
       /\ enabled
       /\ report.had \subseteq DOMAIN stats
       /\ call.sources[report.source].field \in report.had
       /\ \A j \in 1 .. (report.source - 1) : call.sources[j].field \notin report.had
       /\ call.metric.monotonic => report.value <= Dcgm!Value(call.sources[report.source])

DcgmInv == call \in Dcgm!Calls /\ StatsFit /\ ReportFits

LEMMA DcgmInitInv == Dcgm!Init => DcgmInv
<1> SUFFICES ASSUME Dcgm!Init PROVE DcgmInv
  OBVIOUS
<1>1. CallFits(call) /\ DOMAIN stats = {}
  BY CallsFit DEF Dcgm!Init
<1> QED
  BY <1>1 DEF Dcgm!Init, Dcgm!NothingReported, DcgmInv, StatsFit, ReportFits, CallFits

(* The value of a source of the call.                                      *)
LEMMA ValueType ==
  ASSUME call \in Dcgm!Calls, StatsFit, NEW i \in 1 .. Len(call.sources),
         call.sources[i].field \in DOMAIN stats
  PROVE  Dcgm!Value(call.sources[i]) \in Nat
<1> DEFINE s == call.sources[i]
           st == stats[s.field]
<1>1. st.last \in Nat /\ st.first \in Nat /\ st.rate \in Nat
  BY DEF StatsFit
<1>2. SourceFits(s)
  BY CallsFit DEF CallFits
<1>3. CASE s.read = "total"
  <2>1. s = Dcgm!CumulativeTotal(s.field)
    BY <1>2, <1>3 DEF SourceFits, Dcgm!CumulativeTotal
  <2>2. Dcgm!CumulativeTotal(s.field) \in Dcgm!Sources
    BY Zenon, <2>1 DEF Dcgm!Sources
  <2>3. st.first <= st.last
    BY <2>2 DEF StatsFit
  <2>4. Dcgm!Value(s) = st.last - st.first
    BY <1>3 DEF Dcgm!Value
  <2> QED
    BY <1>1, <2>3, <2>4
<1>4. CASE s.read = "rate"
  <2>1. Dcgm!Value(s) = st.rate
    BY <1>4 DEF Dcgm!Value
  <2> QED
    BY <1>1, <2>1
<1>5. CASE s.read = "last"
  <2>1. Dcgm!Value(s) = st.last
    BY <1>5 DEF Dcgm!Value
  <2> QED
    BY <1>1, <2>1
<1> QED
  BY <1>2, <1>3, <1>4, <1>5 DEF SourceFits


(* A value of a field adds to its rate and raises its total.               *)
LEMMA SampleKeeps ==
  ASSUME DcgmInv, NEW f \in Dcgm!EnabledFields \cap Dcgm!Fields, NEW val \in 0 .. MaxValue,
         Dcgm!Sample(f, val)
  PROVE  DcgmInv'
<1> USE DEF DcgmInv
<1>0. val \in Nat
  OBVIOUS
<1>1. /\ UNCHANGED <<call, enabled, profiling, now, report>>
      /\ DOMAIN stats' = DOMAIN stats \cup {f}
      /\ \A g \in DOMAIN stats \ {f} : stats'[g] = stats[g]
      /\ stats'[f] = Dcgm!Update(f, val)
  BY DEF Dcgm!Sample
<1>2. CallFits(call) /\ call \in Dcgm!Calls
  BY CallsFit
<1> DEFINE new == stats'[f]
           isTotal == Dcgm!CumulativeTotal(f) \in Dcgm!Sources
<1>3. /\ new.ts = now /\ new.last = val /\ new.first \in Nat /\ new.rate \in Nat
      /\ isTotal => new.first <= val
      /\ f \in DOMAIN stats =>
           /\ new.first = stats[f].first /\ stats[f].rate <= new.rate
           /\ isTotal => stats[f].last <= val
  <2>1. CASE f \notin DOMAIN stats
    <3>1. new = [ts |-> now, last |-> val, first |-> val, rate |-> 0]
      BY <1>1, <2>1 DEF Dcgm!Update
    <3> QED
      BY <1>0, <2>1, <3>1
  <2>2. CASE f \in DOMAIN stats
    <3> DEFINE old == stats[f]
    <3>1. /\ old.ts \in 0 .. now /\ old.last \in Nat /\ old.first \in Nat /\ old.rate \in Nat
          /\ isTotal => old.first <= old.last
          /\ now \in Nat
      BY <2>2 DEF StatsFit
    <3>2. isTotal => val >= old.last
      BY <2>2 DEF Dcgm!Sample
    <3>3. (now - old.ts) * val \in Nat
      <4>1. now - old.ts \in Nat
        BY <3>1
      <4> QED
        BY <1>0, <4>1
    <3>4. /\ new.ts = now /\ new.last = val /\ new.first = old.first
          /\ new.rate = old.rate + (now - old.ts) * val
      <4>1. new = [old EXCEPT !.ts = now, !.last = val, !.rate = @ + (now - old.ts) * val]
        BY <1>1, <2>2 DEF Dcgm!Update
      <4> QED
        BY <4>1
    <3> HIDE DEF new, old, isTotal
    <3>5. old.rate <= new.rate /\ new.rate \in Nat
      BY <3>1, <3>3, <3>4
    <3> QED
      BY <1>0, <3>1, <3>2, <3>4, <3>5 DEF old
  <2> QED
    BY <2>1, <2>2
<1>4. StatsFit'
  <2>1. now' \in Nat /\ DOMAIN stats' \subseteq Dcgm!Fields'
    BY <1>1 DEF StatsFit, Dcgm!Fields, Dcgm!Sources
  <2>2. Dcgm!Sources' = Dcgm!Sources
    BY <1>1 DEF Dcgm!Sources
  <2>3. ASSUME NEW g \in DOMAIN stats'
        PROVE  /\ stats'[g].ts \in 0 .. now' /\ stats'[g].last \in Nat
               /\ stats'[g].first \in Nat /\ stats'[g].rate \in Nat
               /\ Dcgm!CumulativeTotal(g) \in Dcgm!Sources' => stats'[g].first <= stats'[g].last
    <3>1. CASE g = f
      BY <1>0, <1>1, <1>3, <2>2, <3>1 DEF StatsFit
    <3>2. CASE g # f
      BY <1>1, <2>2, <3>2 DEF StatsFit
    <3> QED
      BY <3>1, <3>2
  <2> QED
    BY <2>1, <2>3 DEF StatsFit, Dcgm!CumulativeTotal
<1>5. ASSUME report.source # 0, call.metric.monotonic
      PROVE  report.value <= Dcgm!Value(call.sources[report.source])'
  <2> DEFINE s == call.sources[report.source]
  <2>1. /\ report.value \in Nat /\ report.source \in 1 .. Len(call.sources)
        /\ s.field \in DOMAIN stats /\ report.value <= Dcgm!Value(s)
    BY <1>2, <1>5 DEF ReportFits, CallFits
  <2>2. SourceFits(s) /\ s.read # "last"
    BY <1>2, <1>5, <2>1 DEF CallFits
  <2>3. CASE s.field # f
    <3>1. stats'[s.field] = stats[s.field]
      BY <1>1, <2>1, <2>3
    <3>2. Dcgm!Value(s)' = Dcgm!Value(s)
      BY <1>1, <3>1 DEF Dcgm!Value
    <3> QED
      BY <2>1, <3>2
  <2>4. CASE s.field = f /\ s.read = "rate"
    <3>1. Dcgm!Value(s) = stats[f].rate /\ Dcgm!Value(s)' = stats'[f].rate
      BY <1>1, <2>4 DEF Dcgm!Value
    <3>2. stats[f].rate \in Nat
      BY <2>1, <2>4 DEF StatsFit
    <3> QED
      BY <1>1, <1>3, <2>1, <2>4, <3>1, <3>2
  <2>5. CASE s.field = f /\ s.read = "total"
    <3>1. s = Dcgm!CumulativeTotal(f)
      BY <2>2, <2>5 DEF SourceFits, Dcgm!CumulativeTotal
    <3>2. isTotal
      BY Zenon, <2>1, <3>1 DEF Dcgm!Sources
    <3>3. Dcgm!Value(s) = stats[f].last - stats[f].first
          /\ Dcgm!Value(s)' = stats'[f].last - stats'[f].first
      BY <1>1, <2>5 DEF Dcgm!Value
    <3>4. stats[f].last \in Nat /\ stats[f].first \in Nat
      BY <2>1, <2>5 DEF StatsFit
    <3> HIDE DEF isTotal
    <3> QED
      BY <1>0, <1>1, <1>3, <2>1, <2>5, <3>2, <3>3, <3>4
  <2> QED
    BY <2>2, <2>3, <2>4, <2>5 DEF SourceFits
<1>6. ReportFits'
  <2>1. report.had \subseteq DOMAIN stats => report.had \subseteq DOMAIN stats'
    BY <1>1
  <2> QED
    BY <1>1, <1>5, <2>1 DEF ReportFits
<1> QED
  BY <1>1, <1>2, <1>4, <1>6

(* The first source that has a value is reported, if the metric is enabled.*)
LEMMA ReportStep ==
  ASSUME DcgmInv, Dcgm!Scrape
  PROVE  \/ /\ report' = Dcgm!NothingReported
            /\ Dcgm!AvailableSources = {} \/ ~enabled
         \/ \E i \in Dcgm!AvailableSources :
              /\ enabled /\ \A j \in Dcgm!AvailableSources : i <= j
              /\ report' = [source |-> i, value |-> Dcgm!Value(call.sources[i]),
                            had |-> DOMAIN stats]
<1>1. CASE Dcgm!AvailableSources = {} \/ ~enabled
  BY <1>1 DEF Dcgm!Scrape
<1>2. CASE Dcgm!AvailableSources # {} /\ enabled
  <2> DEFINE S == Dcgm!AvailableSources
  <2>1. S \subseteq Nat
    BY DEF Dcgm!AvailableSources
  <2> HIDE DEF S
  <2>2. \E m \in S : \A k \in S : m <= k
    BY <1>2, <2>1, LeastNumber DEF S
  <2>3. Dcgm!Min(S) \in S /\ \A j \in S : Dcgm!Min(S) <= j
    BY Zenon, <2>2 DEF Dcgm!Min
  <2>4. report' = [source |-> Dcgm!Min(S), value |-> Dcgm!Value(call.sources[Dcgm!Min(S)]),
                   had |-> DOMAIN stats]
    BY <1>2 DEF Dcgm!Scrape, S
  <2> QED
    BY <1>2, <2>3, <2>4 DEF S
<1> QED
  BY <1>1, <1>2

LEMMA ScrapeReports == DcgmInv /\ Dcgm!Scrape => DcgmInv'
<1> SUFFICES ASSUME DcgmInv, Dcgm!Scrape PROVE DcgmInv'
  OBVIOUS
<1>1. UNCHANGED <<call, enabled, profiling, now, stats>>
  BY DEF Dcgm!Scrape
<1>2. call' \in Dcgm!Calls /\ StatsFit' /\ CallFits(call)
  BY <1>1, CallsFit DEF DcgmInv, StatsFit, Dcgm!Fields, Dcgm!Sources
<1>3. CASE report' = Dcgm!NothingReported
  BY <1>1, <1>2, <1>3 DEF Dcgm!NothingReported, ReportFits, DcgmInv, CallFits
<1>4. ASSUME NEW i \in Dcgm!AvailableSources, enabled, \A j \in Dcgm!AvailableSources : i <= j,
             report' = [source |-> i, value |-> Dcgm!Value(call.sources[i]), had |-> DOMAIN stats]
      PROVE  ReportFits'
  <2>1. i \in 1 .. Len(call.sources) /\ call.sources[i].field \in DOMAIN stats
    BY DEF Dcgm!AvailableSources
  <2>2. Len(call.sources) \in Nat
    BY <1>2 DEF CallFits
  <2>3. Dcgm!Value(call.sources[i]) \in Nat
    BY <2>1, ValueType DEF DcgmInv
  <2>4. \A j \in 1 .. (i - 1) : call.sources[j].field \notin DOMAIN stats
    <3> SUFFICES ASSUME NEW j \in 1 .. (i - 1), call.sources[j].field \in DOMAIN stats
                 PROVE  FALSE
      OBVIOUS
    <3>1. j \in 1 .. Len(call.sources) /\ j < i
      BY <2>1, <2>2
    <3>2. j \in Dcgm!AvailableSources
      BY <3>1 DEF Dcgm!AvailableSources
    <3> QED
      BY <1>4, <2>1, <3>1, <3>2
  <2>5. Dcgm!Value(call.sources[i])' = Dcgm!Value(call.sources[i])
    BY <1>1 DEF Dcgm!Value
  <2>6. report'.source = i /\ report'.value = Dcgm!Value(call.sources[i]) /\ report'.had = DOMAIN stats
    BY <1>4
  <2> QED
    BY <1>1, <1>4, <2>1, <2>2, <2>3, <2>4, <2>5, <2>6 DEF ReportFits
<1> QED
  BY <1>2, <1>3, <1>4, ReportStep DEF DcgmInv

LEMMA DcgmInvAlways == Dcgm!Spec => []DcgmInv
<1>1. DcgmInv /\ [Dcgm!Next]_(Dcgm!vars) => DcgmInv'
  <2> SUFFICES ASSUME DcgmInv, [Dcgm!Next]_(Dcgm!vars) PROVE DcgmInv'
    OBVIOUS
  <2>1. CASE Dcgm!Tick
    <3>1. now' = now + 1 /\ UNCHANGED <<call, enabled, profiling, stats, report>>
      BY <2>1 DEF Dcgm!Tick
    <3>2. StatsFit'
      BY <3>1 DEF DcgmInv, StatsFit, Dcgm!Fields, Dcgm!Sources
    <3>3. ReportFits'
      BY <3>1 DEF DcgmInv, ReportFits, Dcgm!Value
    <3> QED
      BY <3>1, <3>2, <3>3 DEF DcgmInv
  <2>2. CASE UNCHANGED Dcgm!vars
    <3>1. UNCHANGED <<call, enabled, profiling, now, stats, report>>
      BY <2>2 DEF Dcgm!vars
    <3>2. StatsFit'
      BY <3>1 DEF DcgmInv, StatsFit, Dcgm!Fields, Dcgm!Sources
    <3>3. ReportFits'
      BY <3>1 DEF DcgmInv, ReportFits, Dcgm!Value
    <3> QED
      BY <3>1, <3>2, <3>3 DEF DcgmInv
  <2> QED
    BY <2>1, <2>2, SampleKeeps, ScrapeReports DEF Dcgm!Next
<1> QED
  BY <1>1, DcgmInitInv, PTL DEF Dcgm!Spec

LEMMA ComposedIsDcgm == MCSpec => Dcgm!Spec
<1>1. MCInit => Dcgm!Init
  BY DEF MCInit
<1>2. [MCNext]_<<scenario, vars, varnishVars, dcgmVars, nvmlVars, builderVars>> => [Dcgm!Next]_(Dcgm!vars)
  BY DEF MCNext, dcgmVars, Dcgm!vars
<1> QED
  BY <1>1, <1>2, PTL DEF MCSpec, Dcgm!Spec

(* Whatever the fields of a GPU do, a metric that is a monotonic sum drops *)
(* only when its own field has a first value after its fallback was        *)
(* reported (dcgmreceiver/scraper.go:321-329).                             *)
THEOREM SumsDropAtSwitch == MCSpec => SumsDropOnlyAtSwitch
<1>1. DcgmInv /\ [Dcgm!Next]_(Dcgm!vars) =>
        [call.metric.monotonic /\ report.source # 0 /\ report'.value < report.value =>
           report.source = 2 /\ call.sources[1].field \notin report.had]_(Dcgm!vars)
  <2> SUFFICES ASSUME DcgmInv, Dcgm!Next, call.metric.monotonic, report.source # 0,
                      report'.value < report.value
               PROVE  report.source = 2 /\ call.sources[1].field \notin report.had
    OBVIOUS
  <2>1. CallFits(call) /\ call \in Dcgm!Calls
    BY CallsFit DEF DcgmInv
  <2> DEFINE j == report.source
  <2>2. /\ report.value \in Nat /\ j \in 1 .. Len(call.sources) /\ j \in 1 .. 2 /\ enabled
        /\ call.sources[j].field \in report.had /\ report.had \subseteq DOMAIN stats
        /\ report.value <= Dcgm!Value(call.sources[j])
        /\ \A k \in 1 .. (j - 1) : call.sources[k].field \notin report.had
    BY <2>1 DEF DcgmInv, ReportFits, CallFits
  <2>3. j \in Dcgm!AvailableSources
    BY <2>2 DEF Dcgm!AvailableSources
  <2>4. Dcgm!Scrape
    <3>1. report' # report
      BY <2>2
    <3>2. Dcgm!Tick => report' = report
      BY DEF Dcgm!Tick
    <3>3. \A f, val : Dcgm!Sample(f, val) => report' = report
      BY DEF Dcgm!Sample
    <3> QED
      BY <3>1, <3>2, <3>3 DEF Dcgm!Next
  <2>5. PICK i \in Dcgm!AvailableSources :
          /\ \A k \in Dcgm!AvailableSources : i <= k
          /\ report'.value = Dcgm!Value(call.sources[i])
    BY <2>2, <2>3, <2>4, ReportStep
  <2>6. i \in 1 .. 2 /\ i <= j
    BY <2>1, <2>3, <2>5 DEF Dcgm!AvailableSources, CallFits
  <2>7. Dcgm!Value(call.sources[j]) \in Nat
    BY <2>1, <2>2, ValueType DEF DcgmInv
  <2>8. i # j
    BY <2>2, <2>5, <2>7
  <2>9. j = 2
    BY <2>2, <2>6, <2>8
  <2> QED
    BY <2>2, <2>9
<1> QED
  BY <1>1, ComposedIsDcgm, DcgmInvAlways, PTL DEF Dcgm!Spec, SumsDropOnlyAtSwitch, Dcgm!SumsDropOnlyAtSwitch

-----------------------------------------------------------------------------
(***************************************************************************)
(* The metrics builder.                                                    *)
(***************************************************************************)

(* Of sets of subsets of a finite set, one is least.                       *)
LEMMA LeastSet ==
  ASSUME NEW S, IsFiniteSet(S), NEW B, B \subseteq SUBSET S, B # {}
  PROVE  \E T \in B : \A U \in B : U \subseteq T => U = T
<1>1. IsWellFoundedOn(StrictSubsetOrdering(S), FiniteSubsetsOf(S))
  BY FS_StrictSubsetOrderingWellFounded
<1>2. FiniteSubsetsOf(S) = SUBSET S
  BY FS_FiniteSubsetsOfFinite
<1>3. PICK T \in B : \A U \in B : ~ (<<U, T>> \in StrictSubsetOrdering(S))
  BY <1>1, <1>2, WFMin
<1>4. ASSUME NEW U \in B, U \subseteq T PROVE U = T
  BY <1>3, <1>4 DEF StrictSubsetOrdering
<1> QED
  BY <1>4

(* The sum of the values at some places of a list of points, and the       *)
(* recursion behind it, which takes one place out at a time.               *)
Total(q, S) == Builder!MapThenSumSet(LAMBDA i : q[i].value, S)

One(T) == CHOOSE x \in T : TRUE

TakesOneOut(f, q, S) ==
  \A T \in SUBSET S : f[T] = IF T = {} THEN 0 ELSE q[One(T)].value + f[T \ {One(T)}]

LEMMA TotalSteps ==
  ASSUME NEW q, NEW S, IsFiniteSet(S), \A i \in S : q[i].value \in Int
  PROVE  \E f : f \in [SUBSET S -> Int] /\ TakesOneOut(f, q, S) /\ Total(q, S) = f[S]
<1> DEFINE Body(g, T) == IF T = {} THEN 0 ELSE q[One(T)].value + g[T \ {One(T)}]
           N == Cardinality(S)
           Upto(n) == \E g \in [SUBSET S -> Int] :
                        \A T \in SUBSET S : Cardinality(T) <= n => g[T] = Body(g, T)
           f == CHOOSE f : f = [T \in SUBSET S |-> Body(f, T)]
<1>1. Total(q, S) = f[S]
  BY DEF Total, One, Builder!MapThenSumSet, Builder!MapThenFoldSet
<1>2. N \in Nat /\ \A T \in SUBSET S : IsFiniteSet(T) /\ Cardinality(T) \in 0 .. N
  BY FS_CardinalityType, FS_Subset
<1>3. \A n \in 0 .. N : Upto(n)
  <2> DEFINE Bad == {n \in 0 .. N : ~Upto(n)}
  <2> SUFFICES ASSUME Bad # {} PROVE FALSE
    OBVIOUS
  <2>1. Bad \subseteq Nat
    BY <1>2
  <2>2. PICK m \in Bad : \A k \in Bad : m <= k
    <3> HIDE DEF Bad
    <3> QED BY <2>1, LeastNumber
  <2>3. m \in 0 .. N /\ ~Upto(m)
    BY <2>2
  <2>4. PICK h \in [SUBSET S -> Int] : \A T \in SUBSET S : Cardinality(T) < m => h[T] = Body(h, T)
    <3>1. CASE m = 0
      <4>1. [T \in SUBSET S |-> 0] \in [SUBSET S -> Int]
        OBVIOUS
      <4>2. \A T \in SUBSET S : ~(Cardinality(T) < m)
        BY <1>2, <3>1
      <4> HIDE DEF Body
      <4> QED
        BY <4>1, <4>2
    <3>2. CASE m # 0
      <4>1. m - 1 \in 0 .. N /\ m - 1 < m
        BY <1>2, <2>3, <3>2
      <4>2. m - 1 \notin Bad
        <5>1. m - 1 \in Bad => m <= m - 1
          <6> HIDE DEF Bad
          <6> QED BY <2>2
        <5>2. m \in Nat
          BY <1>2, <2>3
        <5> HIDE DEF Bad
        <5> QED BY <5>1, <5>2
      <4>3. Upto(m - 1)
        <5> HIDE DEF Upto
        <5> QED BY <4>1, <4>2
      <4>4. \A T \in SUBSET S : Cardinality(T) < m => Cardinality(T) <= m - 1
        BY <1>2, <2>3
      <4> HIDE DEF Body
      <4> QED
        BY <4>3, <4>4
    <3> QED
      BY <3>1, <3>2
  <2> DEFINE g == [T \in SUBSET S |-> IF Cardinality(T) = m THEN Body(h, T) ELSE h[T]]
  <2>5. \A T \in SUBSET S : T # {} =>
          One(T) \in T /\ T \ {One(T)} \in SUBSET S /\ Cardinality(T \ {One(T)}) = Cardinality(T) - 1
    <3> SUFFICES ASSUME NEW T \in SUBSET S, T # {}
                 PROVE  One(T) \in T /\ T \ {One(T)} \in SUBSET S
                        /\ Cardinality(T \ {One(T)}) = Cardinality(T) - 1
      OBVIOUS
    <3>1. One(T) \in T
      BY DEF One
    <3> QED
      BY <1>2, <3>1, FS_RemoveElement
  <2>6. ASSUME NEW T \in SUBSET S PROVE Body(h, T) \in Int
    <3>1. CASE T = {}
      BY <3>1
    <3>2. CASE T # {}
      <4>1. q[One(T)].value \in Int /\ h[T \ {One(T)}] \in Int
        BY <2>5, <3>2
      <4> QED
        BY <3>2, <4>1
    <3> QED
      BY <3>1, <3>2
  <2>7. g \in [SUBSET S -> Int]
    BY <2>4, <2>6
  <2>8. ASSUME NEW T \in SUBSET S, Cardinality(T) <= m PROVE g[T] = Body(g, T)
    <3>1. g[T] = Body(h, T)
      BY <1>2, <2>3, <2>4, <2>8
    <3>2. Body(g, T) = Body(h, T)
      <4>1. CASE T = {}
        BY <4>1
      <4>2. CASE T # {}
        <5>1. T \ {One(T)} \in SUBSET S /\ Cardinality(T \ {One(T)}) # m
          BY <1>2, <2>3, <2>5, <2>8, <4>2
        <5>2. g[T \ {One(T)}] = h[T \ {One(T)}]
          BY <5>1
        <5> QED
          BY <4>2, <5>2
      <4> QED
        BY <4>1, <4>2
    <3> QED
      BY <3>1, <3>2
  <2> HIDE DEF g, Body
  <2>9. Upto(m)
    BY <2>7, <2>8
  <2> QED
    BY <2>3, <2>9
<1>4. PICK g \in [SUBSET S -> Int] : \A T \in SUBSET S : g[T] = Body(g, T)
  <2>1. Upto(N)
    <3>1. N \in 0 .. N
      BY <1>2
    <3> HIDE DEF Upto, N
    <3> QED BY <1>3, <3>1
  <2> HIDE DEF Body
  <2> QED
    BY <1>2, <2>1
<1>5. g = [T \in SUBSET S |-> Body(g, T)]
  BY <1>4
<1>6. f = [T \in SUBSET S |-> Body(f, T)]
  BY Zenon, <1>5
<1>7. \A T \in SUBSET S : f[T] = Body(f, T)
  <2> HIDE DEF f, Body
  <2> QED
    BY <1>6
<1>8. f \in [SUBSET S -> Int]
  <2> DEFINE Bad == {T \in SUBSET S : f[T] # g[T]}
  <2>1. Bad = {}
    <3> SUFFICES ASSUME Bad # {} PROVE FALSE
      OBVIOUS
    <3>1. PICK T \in Bad : \A U \in Bad : U \subseteq T => U = T
      <4>1. Bad \subseteq SUBSET S
        OBVIOUS
      <4> HIDE DEF Bad
      <4> QED BY <4>1, LeastSet
    <3>2. T \in SUBSET S /\ f[T] # g[T]
      BY <3>1
    <3>3. T # {}
      BY <1>4, <1>7, <3>2
    <3>4. One(T) \in T
      BY <3>3 DEF One
    <3>5. T \ {One(T)} \notin Bad /\ T \ {One(T)} \in SUBSET S
      <4> HIDE DEF Bad
      <4> QED BY <3>1, <3>2, <3>4
    <3>6. f[T \ {One(T)}] = g[T \ {One(T)}]
      BY <3>5
    <3> HIDE DEF f
    <3>7. Body(f, T) = Body(g, T)
      BY <3>6
    <3> QED
      BY <1>4, <1>7, <3>2, <3>7
  <2>2. \A T \in SUBSET S : f[T] = g[T]
    <3> HIDE DEF f
    <3> QED BY <2>1
  <2> HIDE DEF f, Body
  <2> QED
    BY <1>6, <2>2
<1> HIDE DEF f
<1> QED
  BY <1>1, <1>7, <1>8 DEF TakesOneOut

(* Two such recursions agree wherever their points have the same values.   *)
LEMMA SameTotals ==
  ASSUME NEW q, NEW S, NEW f, TakesOneOut(f, q, S),
         NEW r, NEW R, NEW g, TakesOneOut(g, r, R),
         IsFiniteSet(S), S \subseteq R, \A i \in S : q[i].value = r[i].value
  PROVE  f[S] = g[S]
<1> DEFINE Bad == {T \in SUBSET S : f[T] # g[T]}
<1> SUFFICES ASSUME Bad # {} PROVE FALSE
  OBVIOUS
<1>1. PICK T \in Bad : \A U \in Bad : U \subseteq T => U = T
  <2>1. Bad \subseteq SUBSET S
    OBVIOUS
  <2> HIDE DEF Bad
  <2> QED BY <2>1, LeastSet
<1>2. T \in SUBSET S /\ T \in SUBSET R /\ f[T] # g[T]
  BY <1>1
<1>3. /\ f[T] = IF T = {} THEN 0 ELSE q[One(T)].value + f[T \ {One(T)}]
      /\ g[T] = IF T = {} THEN 0 ELSE r[One(T)].value + g[T \ {One(T)}]
  BY <1>2 DEF TakesOneOut
<1>4. T # {}
  BY <1>2, <1>3
<1>5. One(T) \in T
  BY <1>4 DEF One
<1>6. T \ {One(T)} \notin Bad /\ T \ {One(T)} \in SUBSET S
  <2> HIDE DEF Bad
  <2> QED BY <1>1, <1>2, <1>5
<1>7. f[T \ {One(T)}] = g[T \ {One(T)}] /\ q[One(T)].value = r[One(T)].value
  BY <1>2, <1>5, <1>6
<1> QED
  BY <1>2, <1>3, <1>4, <1>7

(* Which place is taken out first does not matter.                         *)
AddsUp(f, q, S) ==
  \A W \in SUBSET S : \A z \in S \ W : f[W \cup {z}] = q[z].value + f[W]

LEMMA AddOne ==
  ASSUME NEW q, NEW S, IsFiniteSet(S), \A i \in S : q[i].value \in Int,
         NEW f, f \in [SUBSET S -> Int], TakesOneOut(f, q, S)
  PROVE  AddsUp(f, q, S)
<1> DEFINE Bad == {T \in SUBSET S : \E x \in S \ T : f[T \cup {x}] # q[x].value + f[T]}
<1> SUFFICES ASSUME Bad # {} PROVE FALSE
  BY DEF AddsUp
<1>1. PICK T \in Bad : \A U \in Bad : U \subseteq T => U = T
  <2>1. Bad \subseteq SUBSET S
    OBVIOUS
  <2> HIDE DEF Bad
  <2> QED BY <2>1, LeastSet
<1>2. PICK x \in S \ T : T \in SUBSET S /\ f[T \cup {x}] # q[x].value + f[T]
  BY <1>1
<1> DEFINE U == T \cup {x}
           y == One(U)
<1>3. y \in U
  BY DEF One
<1>4. f[U] = q[y].value + f[U \ {y}]
  <2>1. U \in SUBSET S /\ U # {}
    BY <1>2
  <2> HIDE DEF U
  <2> QED BY <2>1 DEF TakesOneOut
<1>5. y # x
  <2>1. CASE y = x
    <3>1. U \ {x} = T
      BY <1>2
    <3> HIDE DEF U, y
    <3> QED BY <1>2, <1>4, <2>1, <3>1 DEF U
  <2> QED BY <2>1
<1>6. y \in T
  BY <1>3, <1>5
<1> DEFINE V == T \ {y}
<1>7. V \in SUBSET S /\ V \notin Bad
  <2> HIDE DEF Bad, y
  <2> QED BY <1>1, <1>2, <1>6
<1>8. f[V \cup {x}] = q[x].value + f[V] /\ f[V \cup {y}] = q[y].value + f[V]
  <2>1. x \in S \ V /\ y \in S \ V
    <3> HIDE DEF y
    <3> QED BY <1>2, <1>6
  <2> HIDE DEF V, y
  <2> QED BY <1>7, <2>1
<1>9. V \cup {y} = T /\ V \cup {x} = U \ {y}
  <2> HIDE DEF y
  <2> QED BY <1>2, <1>5, <1>6
<1>10. /\ q[x].value \in Int /\ q[y].value \in Int /\ f[V] \in Int
       /\ f[U] = q[y].value + f[V \cup {x}] /\ f[T] = q[y].value + f[V]
  <2> HIDE DEF U, V, y
  <2> QED BY <1>2, <1>4, <1>6, <1>7, <1>8, <1>9
<1>11. f[U] # q[x].value + f[T]
  BY <1>2
<1> HIDE DEF U, V, y
<1> QED
  BY <1>8, <1>10, <1>11

LEMMA TotalType ==
  ASSUME NEW q, NEW S, IsFiniteSet(S), \A i \in S : q[i].value \in Int
  PROVE  Total(q, S) \in Int
<1>1. PICK f : f \in [SUBSET S -> Int] /\ Total(q, S) = f[S]
  BY TotalSteps
<1> QED
  BY <1>1

LEMMA TotalSame ==
  ASSUME NEW q, NEW r, NEW S, IsFiniteSet(S), \A i \in S : q[i].value \in Int,
         \A i \in S : q[i].value = r[i].value
  PROVE  Total(q, S) = Total(r, S)
<1>1. PICK f : TakesOneOut(f, q, S) /\ Total(q, S) = f[S]
  BY TotalSteps
<1>2. \A i \in S : r[i].value \in Int
  OBVIOUS
<1>3. PICK g : TakesOneOut(g, r, S) /\ Total(r, S) = g[S]
  BY <1>2, TotalSteps
<1>4. f[S] = g[S]
  BY <1>1, <1>3, SameTotals
<1> QED
  BY <1>1, <1>3, <1>4

LEMMA TotalAdd ==
  ASSUME NEW q, NEW S, IsFiniteSet(S), NEW x, x \notin S,
         \A i \in S \cup {x} : q[i].value \in Int
  PROVE  Total(q, S \cup {x}) = Total(q, S) + q[x].value
<1> DEFINE R == S \cup {x}
<1>1. IsFiniteSet(R)
  BY FS_AddElement
<1>2. PICK f : f \in [SUBSET R -> Int] /\ TakesOneOut(f, q, R) /\ Total(q, R) = f[R]
  <2> HIDE DEF R
  <2>1. \A i \in R : q[i].value \in Int
    BY DEF R
  <2> QED BY <1>1, <2>1, TotalSteps
<1>3. PICK g : TakesOneOut(g, q, S) /\ Total(q, S) = g[S]
  BY TotalSteps
<1>4. g[S] = f[S]
  BY <1>2, <1>3, SameTotals
<1>5. f[R] = q[x].value + f[S]
  <2> HIDE DEF R
  <2>1. S \subseteq R /\ x \in R /\ x \notin S
    BY DEF R
  <2>2. \A i \in R : q[i].value \in Int
    BY DEF R
  <2>3. f \in [SUBSET R -> Int]
    BY <1>2
  <2>4. TakesOneOut(f, q, R)
    BY <1>2
  <2>5. f[S \cup {x}] = q[x].value + f[S]
    <3>1. AddsUp(f, q, R)
      BY <1>1, <2>2, <2>3, <2>4, AddOne
    <3> QED
      BY <2>1, <3>1 DEF AddsUp
  <2> QED
    BY <2>5 DEF R
<1>6. f[S] \in Int /\ q[x].value \in Int
  BY <1>2
<1> QED
  BY <1>2, <1>3, <1>4, <1>5, <1>6

LEMMA TotalOne ==
  ASSUME NEW q, NEW x, q[x].value \in Int
  PROVE  Total(q, {x}) = q[x].value
<1>1. IsFiniteSet({}) /\ {} \cup {x} = {x}
  BY FS_EmptySet
<1>2. Total(q, {}) = 0
  <2>1. PICK f : TakesOneOut(f, q, {}) /\ Total(q, {}) = f[{}]
    BY <1>1, TotalSteps
  <2> QED
    BY <2>1 DEF TakesOneOut
<1>3. Total(q, {} \cup {x}) = Total(q, {}) + q[x].value
  BY <1>1, TotalAdd
<1> QED
  BY <1>1, <1>2, <1>3

(* The places of a series among the points recorded.                       *)
OfSeries(from, p) == {k \in 1 .. Len(from) : Builder!SameSeries(from[k], p)}

(* What a value says of a series, when it has all of the series' points in *)
(* it: their sum, before it is divided, or their extreme.                  *)
Accumulated(s, from, p, v) ==
  LET of == OfSeries(from, p) IN
  /\ s \in {"sum", "avg"} => v = Total(from, of)
  /\ s = "min" => (\E k \in of : from[k].value = v) /\ (\A k \in of : v <= from[k].value)
  /\ s = "max" => (\E k \in of : from[k].value = v) /\ (\A k \in of : from[k].value <= v)

LEMMA OfFinite ==
  ASSUME NEW P, NEW from \in Seq(P), NEW p
  PROVE  IsFiniteSet(OfSeries(from, p)) /\ Cardinality(OfSeries(from, p)) \in Nat
<1>1. IsFiniteSet(1 .. Len(from))
  BY FS_Interval
<1>2. OfSeries(from, p) \subseteq 1 .. Len(from)
  BY DEF OfSeries
<1> QED
  BY <1>1, <1>2, FS_Subset, FS_CardinalityType

(* A further point is at one more place of its own series.                 *)
LEMMA OfAppend ==
  ASSUME NEW P, NEW from \in Seq(P), NEW dp \in P, NEW p
  PROVE  /\ Len(from) + 1 \notin OfSeries(from, p)
         /\ OfSeries(Append(from, dp), p) =
              IF Builder!SameSeries(dp, p) THEN OfSeries(from, p) \cup {Len(from) + 1}
              ELSE OfSeries(from, p)
         /\ \A k \in OfSeries(from, p) : k \in 1 .. Len(from) /\ Append(from, dp)[k] = from[k]
         /\ Append(from, dp)[Len(from) + 1] = dp
<1> DEFINE n == Len(from)
           more == Append(from, dp)
<1>1. /\ n \in Nat /\ Len(more) = n + 1 /\ more[n + 1] = dp
      /\ \A k \in 1 .. n : more[k] = from[k]
  OBVIOUS
<1>2. \A k : k \in 1 .. (n + 1) <=> k \in 1 .. n \/ k = n + 1
  BY <1>1
<1>3. n + 1 \notin 1 .. n
  BY <1>1
<1> HIDE DEF n, more
<1>4. n + 1 \notin OfSeries(from, p) /\ \A k \in OfSeries(from, p) : k \in 1 .. n
  BY <1>3 DEF OfSeries, n
<1>5. ASSUME NEW k
      PROVE  k \in OfSeries(more, p) <=>
               \/ k \in OfSeries(from, p)
               \/ k = n + 1 /\ Builder!SameSeries(dp, p)
  <2>1. k \in OfSeries(more, p) <=> k \in 1 .. (n + 1) /\ Builder!SameSeries(more[k], p)
    BY <1>1 DEF OfSeries
  <2>2. k \in OfSeries(from, p) <=> k \in 1 .. n /\ Builder!SameSeries(from[k], p)
    BY DEF OfSeries, n
  <2>3. CASE k \in 1 .. n
    <3>1. k # n + 1 /\ more[k] = from[k]
      BY <1>1, <1>3, <2>3
    <3> QED
      BY <1>2, <2>1, <2>2, <2>3, <3>1
  <2>4. CASE k = n + 1
    BY <1>1, <1>2, <1>3, <2>1, <2>2, <2>4
  <2> QED
    BY <1>2, <2>1, <2>2, <2>3, <2>4
<1>6. OfSeries(more, p) =
        IF Builder!SameSeries(dp, p) THEN OfSeries(from, p) \cup {n + 1}
        ELSE OfSeries(from, p)
  BY <1>5
<1> QED
  BY <1>1, <1>4, <1>6 DEF n, more

LEMMA TotalAppend ==
  ASSUME NEW P, \A p \in P : p.value \in Int, NEW from \in Seq(P), NEW dp \in P, NEW p
  PROVE  /\ Total(from, OfSeries(from, p)) \in Int
         /\ Total(Append(from, dp), OfSeries(Append(from, dp), p)) =
              IF Builder!SameSeries(dp, p) THEN Total(from, OfSeries(from, p)) + dp.value
              ELSE Total(from, OfSeries(from, p))
<1> DEFINE of == OfSeries(from, p)
           more == Append(from, dp)
           n == Len(from) + 1
<1>1. IsFiniteSet(of)
  BY OfFinite
<1>2. /\ n \notin of
      /\ OfSeries(more, p) = IF Builder!SameSeries(dp, p) THEN of \cup {n} ELSE of
      /\ \A k \in of : k \in 1 .. Len(from) /\ more[k] = from[k]
      /\ more[n] = dp
  BY OfAppend
<1>3. \A k \in of : from[k].value \in Int /\ more[k].value = from[k].value
  <2> SUFFICES ASSUME NEW k \in of PROVE from[k].value \in Int /\ more[k].value = from[k].value
    OBVIOUS
  <2>1. k \in 1 .. Len(from) /\ more[k] = from[k]
    BY <1>2
  <2>2. from[k] \in P
    BY <2>1
  <2> QED
    BY <2>1, <2>2
<1>4. more[n].value = dp.value /\ dp.value \in Int
  BY <1>2
<1> HIDE DEF of, more, n
<1>5. Total(from, of) \in Int
  BY <1>1, <1>3, TotalType
<1>6. Total(more, of) = Total(from, of)
  BY <1>1, <1>3, TotalSame
<1>7. Total(more, of \cup {n}) = Total(more, of) + dp.value
  <2>1. \A k \in of \cup {n} : more[k].value \in Int
    BY <1>3, <1>4
  <2> QED
    BY <1>1, <1>2, <1>4, <2>1, TotalAdd
<1> QED
  BY <1>2, <1>5, <1>6, <1>7 DEF of, more

(* A point of another series changes nothing.                              *)
LEMMA AccumulatedKept ==
  ASSUME NEW P, \A p \in P : p.value \in Int, NEW from \in Seq(P), NEW dp \in P, NEW p,
         ~Builder!SameSeries(dp, p), NEW s, NEW v, Accumulated(s, from, p, v)
  PROVE  Accumulated(s, Append(from, dp), p, v)
<1>1. OfSeries(Append(from, dp), p) = OfSeries(from, p)
  BY OfAppend
<1>2. \A k \in OfSeries(from, p) : Append(from, dp)[k] = from[k]
  BY OfAppend
<1>3. Total(Append(from, dp), OfSeries(Append(from, dp), p)) = Total(from, OfSeries(from, p))
  BY TotalAppend
<1> QED
  BY <1>1, <1>2, <1>3 DEF Accumulated

(* The first point of its series is all there is of it.                    *)
LEMMA AccumulatedFirst ==
  ASSUME NEW P, \A p \in P : p.value \in Int, NEW from \in Seq(P), NEW dp \in P,
         OfSeries(from, dp) = {}, NEW s
  PROVE  /\ Accumulated(s, Append(from, dp), dp, dp.value)
         /\ Cardinality(OfSeries(Append(from, dp), dp)) = 1
<1> DEFINE n == Len(from) + 1
           more == Append(from, dp)
<1>1. Builder!SameSeries(dp, dp)
  BY DEF Builder!SameSeries
<1>2. OfSeries(more, dp) = {n} /\ more[n] = dp
  BY <1>1, OfAppend
<1>3. more[n].value \in Int /\ more[n].value = dp.value
  BY <1>2
<1> HIDE DEF n, more
<1>4. Total(more, {n}) = dp.value
  BY <1>3, TotalOne
<1>5. Cardinality({n}) = 1
  BY FS_Singleton
<1>6. \A k \in {n} : dp.value <= more[k].value /\ more[k].value <= dp.value
  BY <1>3
<1>7. \E k \in {n} : more[k].value = dp.value
  BY <1>3
<1>8. Accumulated(s, more, dp, dp.value)
  BY Zenon, <1>2, <1>4, <1>6, <1>7 DEF Accumulated
<1> QED
  BY <1>2, <1>5, <1>8 DEF more

(* Merging a point of the series, as the strategy has it.                  *)
LEMMA AccumulatedMerged ==
  ASSUME NEW P, \A p \in P : p.value \in Int, NEW from \in Seq(P), NEW dp \in P, NEW p,
         Builder!SameSeries(dp, p), config.strategy \in Strategies,
         NEW v \in Int, Accumulated(config.strategy, from, p, v)
  PROVE  /\ Builder!Merged(v, dp.value) \in Int
         /\ Accumulated(config.strategy, Append(from, dp), p, Builder!Merged(v, dp.value))
         /\ Cardinality(OfSeries(Append(from, dp), p)) = Cardinality(OfSeries(from, p)) + 1
<1> DEFINE n == Len(from) + 1
           of == OfSeries(from, p)
           more == Append(from, dp)
           s == config.strategy
<1>1. OfSeries(more, p) = of \cup {n} /\ n \notin of /\ more[n] = dp
  BY OfAppend
<1>2. \A k \in of : more[k].value = from[k].value /\ from[k].value \in Int
  <2> SUFFICES ASSUME NEW k \in of PROVE more[k].value = from[k].value /\ from[k].value \in Int
    OBVIOUS
  <2>1. k \in 1 .. Len(from) /\ more[k] = from[k]
    BY OfAppend
  <2>2. from[k] \in P
    BY <2>1
  <2> QED
    BY <2>1, <2>2
<1>3. Total(more, OfSeries(more, p)) = Total(from, of) + dp.value
  BY TotalAppend
<1>4. dp.value \in Int
  OBVIOUS
<1>5. IsFiniteSet(of)
  BY OfFinite
<1> HIDE DEF n, of, more, s
<1>6. Cardinality(of \cup {n}) = Cardinality(of) + 1
  BY <1>1, <1>5, FS_AddElement
<1>7. \/ s \in {"sum", "avg"} \/ s = "min" \/ s = "max"
  BY DEF Strategies, s
<1>8. CASE s \in {"sum", "avg"}
  <2>1. Builder!Merged(v, dp.value) = v + dp.value
    BY <1>8 DEF Builder!Merged, s
  <2>2. v = Total(from, of)
    BY <1>8 DEF Accumulated, s, of
  <2>3. Accumulated(s, more, p, v + dp.value)
    BY <1>3, <1>8, <2>2 DEF Accumulated
  <2> QED
    BY <1>1, <1>4, <1>6, <2>1, <2>3 DEF s, of, more
<1>9. CASE s = "min"
  <2> DEFINE w == IF v > dp.value THEN dp.value ELSE v
  <2>1. Builder!Merged(v, dp.value) = w
    BY <1>9 DEF Builder!Merged, s
  <2>2. (\E k \in of : from[k].value = v) /\ (\A k \in of : v <= from[k].value)
    BY <1>9 DEF Accumulated, s, of
  <2>3. (\E k \in of \cup {n} : more[k].value = w) /\ (\A k \in of \cup {n} : w <= more[k].value)
    BY <1>1, <1>2, <1>4, <2>2
  <2>4. Accumulated(s, more, p, w)
    <3> HIDE DEF w
    <3> QED BY <1>1, <1>9, <2>3 DEF Accumulated
  <2> QED
    BY <1>1, <1>4, <1>6, <2>1, <2>4 DEF s, of, more
<1>10. CASE s = "max"
  <2> DEFINE w == IF v < dp.value THEN dp.value ELSE v
  <2>1. Builder!Merged(v, dp.value) = w
    BY <1>10 DEF Builder!Merged, s
  <2>2. (\E k \in of : from[k].value = v) /\ (\A k \in of : from[k].value <= v)
    BY <1>10 DEF Accumulated, s, of
  <2>3. (\E k \in of \cup {n} : more[k].value = w) /\ (\A k \in of \cup {n} : more[k].value <= w)
    BY <1>1, <1>2, <1>4, <2>2
  <2>4. Accumulated(s, more, p, w)
    <3> HIDE DEF w
    <3> QED BY <1>1, <1>10, <2>3 DEF Accumulated
  <2> QED
    BY <1>1, <1>4, <1>6, <2>1, <2>4 DEF s, of, more
<1> QED
  BY <1>7, <1>8, <1>9, <1>10

(* What a builder holds is typed.                                          *)
BuiltPoint == [ts : 1 .. 2, value : Int, attributes : [config.attributes -> 1 .. 2]]

(* A batch shows each series once, with what all its points come to.       *)
Comes(s, from, p) ==
  LET of == OfSeries(from, p) IN
  /\ s = "avg" => p.value = Total(from, of) \div Cardinality(of)
  /\ s # "avg" => Accumulated(s, from, p, p.value)

Covered(from, into) ==
  \A k \in 1 .. Len(from) : \E i \in 1 .. Len(into) : Builder!SameSeries(from[k], into[i])

OnePerSeries(into) ==
  \A i, j \in 1 .. Len(into) : Builder!SameSeries(into[i], into[j]) => i = j

Aggregate(s, attributes, b) ==
  /\ attributes = {} => b.points = b.from
  /\ attributes # {} =>
       /\ Covered(b.from, b.points)
       /\ OnePerSeries(b.points)
       /\ \A i \in 1 .. Len(b.points) : Comes(s, b.from, b.points[i])

Batches ==
  {b \in [points : Seq(BuiltPoint), from : Seq(BuiltPoint)] :
     config.enabled /\ Aggregate(config.strategy, metric.attributes, b)}

(* The points that wait to be emitted have accumulated what was recorded.  *)
DataAccumulates ==
  /\ ~ config.enabled => data = <<>>
  /\ config.enabled /\ metric.attributes = {} => data = points
  /\ config.enabled /\ metric.attributes # {} =>
       /\ Covered(points, data)
       /\ OnePerSeries(data)
       /\ \A i \in 1 .. Len(data) :
            /\ Accumulated(config.strategy, points, data[i], data[i].value)
            /\ config.strategy = "avg" =>
                 aggDataPoints[i] = Cardinality(OfSeries(points, data[i]))

BuilderInv ==
  /\ config \in Builder!Configs(metric, varied)
  /\ taken \in Nat
  /\ data \in Seq(BuiltPoint) /\ points \in Seq(BuiltPoint)
  /\ aggDataPoints \in Seq(Nat \ {0}) /\ Len(aggDataPoints) = Len(data)
  /\ metricsBuffer \in Seq(Batches) /\ returned \in Seq(Batches)
  /\ DataAccumulates

LEMMA ConfigType ==
  ASSUME config \in Builder!Configs(metric, varied)
  PROVE  /\ config.attributes \subseteq metric.attributes
         /\ config.strategy \in Strategies /\ config.enabled \in BOOLEAN
BY DEF Builder!Configs, Builder!Validate, Builder!Strategies, Strategies

LEMMA BuilderInitInv == Builder!Init => BuilderInv
<1> SUFFICES ASSUME Builder!Init PROVE BuilderInv
  OBVIOUS
<1>1. \A T : <<>> \in Seq(T)
  OBVIOUS
<1>2. Len(<<>>) = 0 /\ 1 .. 0 = {}
  OBVIOUS
<1> QED
  BY <1>1, <1>2 DEF Builder!Init, BuilderInv, DataAccumulates, Covered, OnePerSeries

(* The value of a point is no part of its series.                          *)
LEMMA SeriesOnly ==
  ASSUME NEW p, NEW q, p.ts = q.ts, p.attributes = q.attributes
  PROVE  /\ \A from : OfSeries(from, p) = OfSeries(from, q)
         /\ \A x : Builder!SameSeries(x, p) <=> Builder!SameSeries(x, q)
         /\ \A x : Builder!SameSeries(p, x) <=> Builder!SameSeries(q, x)
<1>1. \A x : Builder!SameSeries(x, p) <=> Builder!SameSeries(x, q)
  BY DEF Builder!SameSeries
<1>2. \A x : Builder!SameSeries(p, x) <=> Builder!SameSeries(q, x)
  BY DEF Builder!SameSeries
<1> QED
  BY <1>1, <1>2 DEF OfSeries

LEMMA AccumulatedSeries ==
  ASSUME NEW p, NEW q, p.ts = q.ts, p.attributes = q.attributes, NEW s, NEW from, NEW v
  PROVE  Accumulated(s, from, p, v) <=> Accumulated(s, from, q, v)
BY SeriesOnly DEF Accumulated

(* What Emit and EmitForResource make of the points is an aggregate.       *)
LEMMA BatchFits ==
  ASSUME BuilderInv, config.enabled
  PROVE  Builder!Batch \in Batches
<1> DEFINE Q == Builder!Finished
           s == config.strategy
           n == Len(data)
<1> USE DEF BuilderInv
<1>1. s \in Strategies /\ n \in Nat
  BY ConfigType
<1>2. ASSUME NEW i \in 1 .. n
      PROVE  /\ Q[i] \in BuiltPoint /\ data[i] \in BuiltPoint
             /\ Q[i].ts = data[i].ts /\ Q[i].attributes = data[i].attributes
             /\ Builder!Averages => Q[i].value = data[i].value \div aggDataPoints[i]
             /\ ~ Builder!Averages => Q[i] = data[i]
  <2>1. Q[i] = IF Builder!Averages THEN [data[i] EXCEPT !.value = @ \div aggDataPoints[i]]
               ELSE data[i]
    BY DEF Builder!Finished
  <2>2. data[i] \in BuiltPoint
    OBVIOUS
  <2>3. aggDataPoints[i] \in Nat \ {0}
    OBVIOUS
  <2>4. data[i].value \div aggDataPoints[i] \in Int
    BY <2>2, <2>3 DEF BuiltPoint
  <2> QED
    BY <2>1, <2>2, <2>4 DEF BuiltPoint
<1>3. Q \in Seq(BuiltPoint) /\ Len(Q) = n
  <2>1. Q = [i \in 1 .. n |-> Q[i]]
    <3> DEFINE q(i) == IF Builder!Averages
                         THEN [data[i] EXCEPT !.value = @ \div aggDataPoints[i]]
                         ELSE data[i]
    <3>1. Q = [i \in 1 .. n |-> q(i)]
      BY DEF Builder!Finished
    <3> HIDE DEF Q, q, n
    <3> QED
      BY <3>1
  <2>2. Q \in [1 .. n -> BuiltPoint]
    <3> HIDE DEF Q, n
    <3> QED BY <1>2, <2>1
  <2> HIDE DEF Q, n
  <2> QED
    BY <1>1, <2>2
<1>4. CASE metric.attributes = {}
  <2>1. ~ Builder!Averages
    BY <1>4 DEF Builder!Averages
  <2>2. Q = data
    <3>1. Len(data) = n /\ data \in Seq(BuiltPoint)
      OBVIOUS
    <3>2. \A i \in 1 .. n : Q[i] = data[i]
      BY <1>2, <2>1
    <3> HIDE DEF Q, n
    <3> QED BY <1>1, <1>3, <3>1, <3>2
  <2>3. data = points
    BY <1>4 DEF DataAccumulates
  <2> HIDE DEF Q
  <2> QED
    BY <1>3, <1>4, <2>2, <2>3 DEF Batches, Aggregate, Builder!Batch, Q
<1>5. CASE metric.attributes # {}
  <2>1. Builder!Averages <=> s = "avg"
    BY <1>5 DEF Builder!Averages
  <2>2. /\ Covered(points, data)
        /\ OnePerSeries(data)
        /\ \A i \in 1 .. n :
             /\ Accumulated(s, points, data[i], data[i].value)
             /\ s = "avg" => aggDataPoints[i] = Cardinality(OfSeries(points, data[i]))
    BY <1>5 DEF DataAccumulates
  <2> HIDE DEF Q, s, n
  <2>3. Covered(points, Q)
    <3> SUFFICES ASSUME NEW k \in 1 .. Len(points)
                 PROVE  \E i \in 1 .. n : Builder!SameSeries(points[k], Q[i])
      BY <1>3 DEF Covered
    <3>1. PICK i \in 1 .. n : Builder!SameSeries(points[k], data[i])
      BY <2>2 DEF Covered, n
    <3>2. Builder!SameSeries(points[k], Q[i])
      BY <1>2, <3>1, SeriesOnly
    <3> QED
      BY <3>2
  <2>4. OnePerSeries(Q)
    <3> SUFFICES ASSUME NEW i \in 1 .. n, NEW j \in 1 .. n, Builder!SameSeries(Q[i], Q[j])
                 PROVE  i = j
      BY <1>3 DEF OnePerSeries
    <3>1. Builder!SameSeries(data[i], data[j])
      BY <1>2 DEF Builder!SameSeries
    <3> QED
      BY <2>2, <3>1 DEF OnePerSeries, n
  <2>5. ASSUME NEW i \in 1 .. n PROVE Comes(s, points, Q[i])
    <3>1. CASE s = "avg"
      <4>1. Q[i].value = data[i].value \div aggDataPoints[i]
        BY <1>2, <2>1, <3>1
      <4>2. data[i].value = Total(points, OfSeries(points, data[i]))
        BY <2>2, <3>1 DEF Accumulated
      <4>3. aggDataPoints[i] = Cardinality(OfSeries(points, data[i]))
        BY <2>2, <3>1
      <4>4. OfSeries(points, Q[i]) = OfSeries(points, data[i])
        BY <1>2, SeriesOnly
      <4> QED
        BY Zenon, <3>1, <4>1, <4>2, <4>3, <4>4 DEF Comes
    <3>2. CASE s # "avg"
      <4>1. Q[i] = data[i]
        BY <1>2, <2>1, <3>2
      <4> QED
        BY Zenon, <2>2, <3>2, <4>1 DEF Comes
    <3> QED
      BY <3>1, <3>2
  <2>6. Aggregate(s, metric.attributes, [points |-> Q, from |-> points])
    BY <1>3, <1>5, <2>3, <2>4, <2>5 DEF Aggregate
  <2> QED
    BY <1>3, <2>6 DEF Batches, Builder!Batch, Q, s
<1> QED
  BY <1>4, <1>5

(* A point of a new series, or of a metric without attributes, is added.   *)
LEMMA AppendKeeps ==
  ASSUME BuilderInv, NEW dp \in BuiltPoint, config.enabled, Builder!Append1(dp),
         metric.attributes = {} \/ {i \in 1 .. Len(data) : Builder!SameSeries(data[i], dp)} = {},
         points' = Append(points, dp), UNCHANGED <<metric, varied, config>>
  PROVE  /\ data' \in Seq(BuiltPoint)
         /\ aggDataPoints' \in Seq(Nat \ {0}) /\ Len(aggDataPoints') = Len(data')
         /\ DataAccumulates'
<1> DEFINE s == config.strategy
           n == Len(data)
           m == Len(points)
<1> USE DEF BuilderInv
<1>1. /\ data' = Append(data, dp) /\ data' \in Seq(BuiltPoint)
      /\ n \in Nat /\ Len(data') = n + 1 /\ data'[n + 1] = dp
      /\ \A i \in 1 .. n : data'[i] = data[i] /\ data[i] \in BuiltPoint
  BY DEF Builder!Append1
<1>2. /\ aggDataPoints' = Append(aggDataPoints, 1) /\ aggDataPoints' \in Seq(Nat \ {0})
      /\ Len(aggDataPoints') = n + 1 /\ aggDataPoints'[n + 1] = 1
      /\ \A i \in 1 .. n : aggDataPoints'[i] = aggDataPoints[i]
  BY DEF Builder!Append1
<1>3. /\ m \in Nat /\ Len(points') = m + 1 /\ points'[m + 1] = dp
      /\ \A i \in 1 .. m : points'[i] = points[i] /\ points[i] \in BuiltPoint
  OBVIOUS
<1>4. \A p \in BuiltPoint : p.value \in Int
  BY DEF BuiltPoint
<1>5. \A i : /\ i \in 1 .. (n + 1) <=> i \in 1 .. n \/ i = n + 1
             /\ i \in 1 .. (m + 1) <=> i \in 1 .. m \/ i = m + 1
  BY <1>1, <1>3
<1>6. CASE metric.attributes = {}
  <2>1. data' = points'
    BY <1>1, <1>6 DEF DataAccumulates
  <2>2. config' = config /\ metric' = metric
    OBVIOUS
  <2>3. DataAccumulates'
    <3> HIDE DEF BuilderInv
    <3> QED BY Zenon, <1>6, <2>1, <2>2 DEF DataAccumulates
  <2> QED
    BY <1>1, <1>2, <2>3
<1>7. CASE metric.attributes # {}
  <2>1. /\ Covered(points, data)
        /\ OnePerSeries(data)
        /\ \A i \in 1 .. n :
             /\ Accumulated(s, points, data[i], data[i].value)
             /\ s = "avg" => aggDataPoints[i] = Cardinality(OfSeries(points, data[i]))
    BY <1>7 DEF DataAccumulates
  <2>2. \A i \in 1 .. n : ~Builder!SameSeries(data[i], dp) /\ ~Builder!SameSeries(dp, data[i])
    BY <1>7 DEF Builder!SameSeries
  <2>3. Builder!SameSeries(dp, dp)
    BY DEF Builder!SameSeries
  <2>4. OfSeries(points, dp) = {}
    <3> SUFFICES ASSUME NEW k \in 1 .. m, Builder!SameSeries(points[k], dp) PROVE FALSE
      BY DEF OfSeries
    <3>1. PICK i \in 1 .. n : Builder!SameSeries(points[k], data[i])
      BY <2>1 DEF Covered
    <3>2. Builder!SameSeries(data[i], dp)
      BY <3>1 DEF Builder!SameSeries
    <3> QED
      BY <2>2, <3>2
  <2>5. Covered(points', data')
    <3> SUFFICES ASSUME NEW k \in 1 .. (m + 1)
                 PROVE  \E i \in 1 .. (n + 1) : Builder!SameSeries(points'[k], data'[i])
      BY <1>1, <1>3 DEF Covered
    <3>1. CASE k \in 1 .. m
      <4>1. PICK i \in 1 .. n : Builder!SameSeries(points[k], data[i])
        BY <2>1, <3>1 DEF Covered
      <4> HIDE DEF n, m
      <4> QED
        BY <1>1, <1>3, <1>5, <3>1, <4>1
    <3>2. CASE k = m + 1
      <4>1. n + 1 \in 1 .. (n + 1)
        BY <1>1
      <4> HIDE DEF n, m
      <4> QED
        BY <1>1, <1>3, <2>3, <3>2, <4>1
    <3> HIDE DEF n, m
    <3> QED
      BY <1>5, <3>1, <3>2
  <2>6. OnePerSeries(data')
    <3> SUFFICES ASSUME NEW i \in 1 .. (n + 1), NEW j \in 1 .. (n + 1),
                        Builder!SameSeries(data'[i], data'[j])
                 PROVE  i = j
      BY <1>1 DEF OnePerSeries
    <3>1. \A k, l \in 1 .. n : Builder!SameSeries(data[k], data[l]) => k = l
      BY <2>1 DEF OnePerSeries
    <3> HIDE DEF n
    <3> QED
      BY <1>1, <1>5, <2>2, <3>1
  <2>7. ASSUME NEW i \in 1 .. (n + 1)
        PROVE  /\ Accumulated(s, points', data'[i], data'[i].value)
               /\ s = "avg" => aggDataPoints'[i] = Cardinality(OfSeries(points', data'[i]))
    <3>1. CASE i \in 1 .. n
      <4>1. /\ data'[i] = data[i] /\ ~Builder!SameSeries(dp, data[i])
            /\ aggDataPoints'[i] = aggDataPoints[i]
            /\ Accumulated(s, points, data[i], data[i].value)
        BY <1>1, <1>2, <2>1, <2>2, <3>1
      <4>2. points \in Seq(BuiltPoint)
        OBVIOUS
      <4>3. Accumulated(s, Append(points, dp), data[i], data[i].value)
        <5> HIDE DEF BuilderInv, s, n
        <5> QED BY <1>4, <4>1, <4>2, AccumulatedKept
      <4>4. OfSeries(Append(points, dp), data[i]) = OfSeries(points, data[i])
        BY <4>1, <4>2, OfAppend
      <4> QED
        BY <2>1, <3>1, <4>1, <4>3, <4>4
    <3>2. CASE i = n + 1
      <4>1. data'[i] = dp /\ aggDataPoints'[i] = 1
        BY <1>1, <1>2, <3>2
      <4>2. points \in Seq(BuiltPoint)
        OBVIOUS
      <4>3. /\ Accumulated(s, Append(points, dp), dp, dp.value)
            /\ Cardinality(OfSeries(Append(points, dp), dp)) = 1
        <5> HIDE DEF BuilderInv, s, n
        <5> QED BY <1>4, <2>4, <4>2, AccumulatedFirst
      <4> QED
        BY <4>1, <4>3
    <3> HIDE DEF n
    <3> QED
      BY <1>5, <3>1, <3>2
  <2>8. /\ config' = config /\ metric' = metric
        /\ \A i \in 1 .. Len(data') :
             /\ Accumulated(s, points', data'[i], data'[i].value)
             /\ s = "avg" => aggDataPoints'[i] = Cardinality(OfSeries(points', data'[i]))
    <3> HIDE DEF BuilderInv, n
    <3> QED BY <1>1, <2>7
  <2>9. DataAccumulates'
    <3> HIDE DEF BuilderInv, n
    <3> QED BY Zenon, <1>7, <2>5, <2>6, <2>8 DEF DataAccumulates
  <2> QED
    BY <1>1, <1>2, <2>9
<1> QED
  BY <1>1, <1>2, <1>6, <1>7

(* A point of a series that is there is merged into it.                    *)
LEMMA MergeKeeps ==
  ASSUME BuilderInv, NEW dp \in BuiltPoint, config.enabled, metric.attributes # {},
         NEW i \in 1 .. Len(data), Builder!SameSeries(data[i], dp),
         Builder!MergeInto(i, dp.value),
         points' = Append(points, dp), UNCHANGED <<metric, varied, config>>
  PROVE  /\ data' \in Seq(BuiltPoint)
         /\ aggDataPoints' \in Seq(Nat \ {0}) /\ Len(aggDataPoints') = Len(data')
         /\ DataAccumulates'
<1> DEFINE s == config.strategy
           n == Len(data)
           m == Len(points)
           w == Builder!Merged(data[i].value, dp.value)
<1> USE DEF BuilderInv
<1>1. \A p \in BuiltPoint : p.value \in Int
  BY DEF BuiltPoint
<1>2. s \in Strategies /\ n \in Nat /\ points \in Seq(BuiltPoint)
  BY ConfigType
<1>3. /\ Covered(points, data)
      /\ OnePerSeries(data)
      /\ \A j \in 1 .. n :
           /\ Accumulated(s, points, data[j], data[j].value)
           /\ s = "avg" => aggDataPoints[j] = Cardinality(OfSeries(points, data[j]))
  BY DEF DataAccumulates
<1>4. Builder!SameSeries(dp, data[i])
  BY DEF Builder!SameSeries
<1>5. \A j \in 1 .. n : j # i => ~Builder!SameSeries(dp, data[j])
  <2> SUFFICES ASSUME NEW j \in 1 .. n, Builder!SameSeries(dp, data[j]) PROVE j = i
    OBVIOUS
  <2>1. Builder!SameSeries(data[j], data[i])
    BY DEF Builder!SameSeries
  <2> QED
    BY <1>3, <2>1 DEF OnePerSeries
<1>6. /\ w \in Int
      /\ Accumulated(s, points', data[i], w)
      /\ Cardinality(OfSeries(points', data[i])) = Cardinality(OfSeries(points, data[i])) + 1
  <2>1. data[i].value \in Int /\ Accumulated(s, points, data[i], data[i].value)
    BY <1>1, <1>3
  <2> HIDE DEF BuilderInv, n
  <2> QED
    BY <1>1, <1>2, <1>4, <2>1, AccumulatedMerged
<1>7. /\ data' \in Seq(BuiltPoint) /\ Len(data') = n
      /\ data'[i].value = w
      /\ \A j \in 1 .. n : /\ data'[j].ts = data[j].ts /\ data'[j].attributes = data[j].attributes
                           /\ j # i => data'[j] = data[j]
  <2>1. data' = [data EXCEPT ![i].value = w]
    BY DEF Builder!MergeInto
  <2>2. data[i] \in BuiltPoint /\ [data[i] EXCEPT !.value = w] \in BuiltPoint
    <3>1. data[i] \in BuiltPoint
      OBVIOUS
    <3> HIDE DEF w
    <3> QED BY <1>6, <3>1 DEF BuiltPoint
  <2>3. data' = [data EXCEPT ![i] = [data[i] EXCEPT !.value = w]]
    <3> HIDE DEF w
    <3> QED BY <2>1
  <2>4. data' \in Seq(BuiltPoint) /\ Len(data') = n
    <3> HIDE DEF w
    <3> QED BY <2>2, <2>3
  <2>5. data'[i] = [data[i] EXCEPT !.value = w] /\ \A j \in 1 .. n : j # i => data'[j] = data[j]
    <3>1. data \in Seq(BuiltPoint)
      OBVIOUS
    <3> HIDE DEF w, BuilderInv
    <3> QED BY <2>3, <3>1
  <2>6. /\ [data[i] EXCEPT !.value = w].value = w
        /\ [data[i] EXCEPT !.value = w].ts = data[i].ts
        /\ [data[i] EXCEPT !.value = w].attributes = data[i].attributes
    <3> HIDE DEF w
    <3> QED BY <2>2 DEF BuiltPoint
  <2> HIDE DEF w
  <2> QED
    BY <2>4, <2>5, <2>6
<1>8. /\ aggDataPoints' \in Seq(Nat \ {0}) /\ Len(aggDataPoints') = n
      /\ \A j \in 1 .. n : j # i => aggDataPoints'[j] = aggDataPoints[j]
      /\ s = "avg" => aggDataPoints'[i] = aggDataPoints[i] + 1
  <2>1. aggDataPoints' = [aggDataPoints EXCEPT ![i] = aggDataPoints[i] + 1] \/ UNCHANGED aggDataPoints
    BY DEF Builder!MergeInto
  <2>2. s = "avg" => aggDataPoints' = [aggDataPoints EXCEPT ![i] = aggDataPoints[i] + 1]
    BY DEF Builder!MergeInto
  <2>3. aggDataPoints[i] + 1 \in Nat \ {0}
    OBVIOUS
  <2>4. aggDataPoints \in Seq(Nat \ {0}) /\ Len(aggDataPoints) = n /\ i \in 1 .. n
    OBVIOUS
  <2> HIDE DEF BuilderInv
  <2>5. CASE UNCHANGED aggDataPoints
    BY <2>2, <2>4, <2>5
  <2>6. CASE aggDataPoints' = [aggDataPoints EXCEPT ![i] = aggDataPoints[i] + 1]
    BY <2>3, <2>4, <2>6
  <2> QED
    BY <2>1, <2>5, <2>6
<1>9. ASSUME NEW j \in 1 .. n
      PROVE  /\ Accumulated(s, points', data'[j], data'[j].value)
             /\ s = "avg" => aggDataPoints'[j] = Cardinality(OfSeries(points', data'[j]))
  <2>1. CASE j = i
    <3>1. /\ Accumulated(s, points', data'[i], w) <=> Accumulated(s, points', data[i], w)
          /\ OfSeries(points', data'[i]) = OfSeries(points', data[i])
      <4>1. data'[i].ts = data[i].ts /\ data'[i].attributes = data[i].attributes
        BY <1>7
      <4> HIDE DEF w, s, BuilderInv
      <4> QED BY Zenon, <4>1, AccumulatedSeries, SeriesOnly
    <3> HIDE DEF w
    <3> QED
      BY <1>3, <1>6, <1>7, <1>8, <2>1, <3>1
  <2>2. CASE j # i
    <3>1. /\ ~Builder!SameSeries(dp, data[j]) /\ data'[j] = data[j]
          /\ aggDataPoints'[j] = aggDataPoints[j]
          /\ Accumulated(s, points, data[j], data[j].value)
      BY <1>3, <1>5, <1>7, <1>8, <2>2
    <3>2. Accumulated(s, Append(points, dp), data[j], data[j].value)
      <4> HIDE DEF BuilderInv, s, n
      <4> QED BY <1>1, <1>2, <3>1, AccumulatedKept
    <3>3. OfSeries(Append(points, dp), data[j]) = OfSeries(points, data[j])
      BY <1>2, <3>1, OfAppend
    <3> QED
      BY <1>3, <3>1, <3>2, <3>3
  <2> QED
    BY <2>1, <2>2
<1>10. Covered(points', data')
  <2>1. /\ m \in Nat /\ Len(points') = m + 1 /\ points'[m + 1] = dp
        /\ \A k \in 1 .. m : points'[k] = points[k]
    OBVIOUS
  <2> SUFFICES ASSUME NEW k \in 1 .. (m + 1)
               PROVE  \E j \in 1 .. n : Builder!SameSeries(points'[k], data'[j])
    BY <1>7, <2>1 DEF Covered
  <2>2. \A j \in 1 .. n : Builder!SameSeries(points'[k], data'[j]) <=> Builder!SameSeries(points'[k], data[j])
    BY <1>7, SeriesOnly
  <2>3. CASE k \in 1 .. m
    <3>1. PICK j \in 1 .. n : Builder!SameSeries(points[k], data[j])
      BY <1>3, <2>3 DEF Covered
    <3> QED
      BY <2>1, <2>2, <2>3, <3>1
  <2>4. CASE k = m + 1
    <3> HIDE DEF m
    <3> QED BY <1>4, <2>1, <2>2, <2>4
  <2> QED
    BY <2>1, <2>3, <2>4
<1>11. OnePerSeries(data')
  <2> SUFFICES ASSUME NEW j \in 1 .. n, NEW k \in 1 .. n, Builder!SameSeries(data'[j], data'[k])
               PROVE  j = k
    BY <1>7 DEF OnePerSeries
  <2>1. Builder!SameSeries(data[j], data[k])
    BY <1>7 DEF Builder!SameSeries
  <2> QED
    BY <1>3, <2>1 DEF OnePerSeries
<1> HIDE DEF BuilderInv, w
<1> QED
  BY <1>7, <1>8, <1>9, <1>10, <1>11 DEF DataAccumulates

(* recordDataPoint, whatever the metric is and how it is configured.       *)
LEMMA RecordKeeps ==
  ASSUME BuilderInv, NEW dp \in BuiltPoint, Builder!recordDataPoint(dp),
         points' = Append(points, dp), UNCHANGED <<metric, varied, config>>
  PROVE  /\ data' \in Seq(BuiltPoint)
         /\ aggDataPoints' \in Seq(Nat \ {0}) /\ Len(aggDataPoints') = Len(data')
         /\ DataAccumulates'
<1> DEFINE same == {i \in 1 .. Len(data) : Builder!SameSeries(data[i], dp)}
<1>0. config.enabled \in BOOLEAN
  BY ConfigType DEF BuilderInv
<1>1. CASE ~ config.enabled
  <2>1. UNCHANGED <<data, aggDataPoints>>
    BY <1>1 DEF Builder!recordDataPoint
  <2>2. data = <<>>
    BY <1>1 DEF BuilderInv, DataAccumulates
  <2>3. config' = config /\ data' = <<>>
    BY <2>1, <2>2
  <2>4. DataAccumulates'
    BY Zenon, <1>1, <2>3 DEF DataAccumulates
  <2> QED
    BY <2>1, <2>4 DEF BuilderInv
<1>2. CASE config.enabled /\ (metric.attributes = {} \/ same = {})
  <2>1. Builder!Append1(dp)
    BY <1>2 DEF Builder!recordDataPoint
  <2> QED
    BY <1>2, <2>1, AppendKeeps
<1>3. CASE config.enabled /\ ~(metric.attributes = {} \/ same = {})
  <2>1. Builder!MergeInto(Builder!Min(same), dp.value)
    BY <1>3 DEF Builder!recordDataPoint
  <2>2. \E m \in same : \A k \in same : m <= k
    <3>1. same \subseteq Nat /\ same # {}
      BY <1>3
    <3> HIDE DEF same
    <3> QED BY <3>1, LeastNumber
  <2>3. Builder!Min(same) \in same
    <3> HIDE DEF same
    <3> QED BY Zenon, <2>2 DEF Builder!Min
  <2> DEFINE i == Builder!Min(same)
  <2>4. i \in 1 .. Len(data) /\ Builder!SameSeries(data[i], dp)
    BY <2>3
  <2> HIDE DEF i, same
  <2> QED
    BY <1>3, <2>1, <2>4, MergeKeeps DEF i
<1> HIDE DEF same
<1> QED
  BY <1>0, <1>1, <1>2, <1>3

LEMMA PointType ==
  ASSUME BuilderInv, taken < Len(Values), NEW input \in Builder!Inputs
  PROVE  Builder!Point(input, Builder!Reading) \in BuiltPoint
<1>1. taken + 1 \in 1 .. Len(Values)
  BY ValuesAssumption DEF BuilderInv
<1>2. Values[taken + 1] \in Int
  BY <1>1, ValuesAssumption
<1>3. Builder!Reading \in Int
  BY <1>2 DEF Builder!Reading
<1>4. PICK ts \in 1 .. 2, v \in 1 .. 2 :
        input = [ts |-> ts, attributes |-> [a \in metric.attributes |-> IF a = varied THEN v ELSE 1]]
  BY DEF Builder!Inputs
<1>5. \A a \in config.attributes : input.attributes[a] \in 1 .. 2
  <2>1. config.attributes \subseteq metric.attributes
    BY ConfigType DEF BuilderInv
  <2> QED
    BY <1>4, <2>1
<1>6. input.ts \in 1 .. 2
  BY <1>4
<1> QED
  BY <1>3, <1>5, <1>6 DEF Builder!Point, BuiltPoint

(* The configuration of a metric does not change, nor then what fits it.   *)
LEMMA BatchesKept ==
  ASSUME UNCHANGED <<metric, varied, config>>
  PROVE  /\ BuiltPoint' = BuiltPoint /\ Batches' = Batches
         /\ Builder!Configs(metric, varied)' = Builder!Configs(metric, varied)
<1>1. BuiltPoint' = BuiltPoint
  BY DEF BuiltPoint
<1>2. Builder!Configs(metric, varied)' = Builder!Configs(metric, varied)
  BY Zenon
<1>3. metric' = metric /\ config' = config
  OBVIOUS
<1>4. Batches' = Batches
  BY Zenon, <1>1, <1>3 DEF Batches
<1> QED
  BY <1>1, <1>2, <1>4

LEMMA RecordStep ==
  ASSUME BuilderInv, Builder!Record
  PROVE  BuilderInv'
<1>1. UNCHANGED <<metric, varied, config>> /\ UNCHANGED metricsBuffer /\ returned' = <<>>
  BY DEF Builder!Record
<1>2. BuiltPoint' = BuiltPoint /\ Batches' = Batches
      /\ Builder!Configs(metric, varied)' = Builder!Configs(metric, varied)
  BY <1>1, BatchesKept
<1>3. PICK input \in Builder!Inputs :
        /\ taken < Len(Values) /\ taken' = taken + 1
        /\ Builder!recordDataPoint(Builder!Point(input, Builder!Reading))
        /\ points' = Append(points, Builder!Point(input, Builder!Reading))
  BY DEF Builder!Record
<1> DEFINE dp == Builder!Point(input, Builder!Reading)
<1>4. dp \in BuiltPoint
  BY <1>3, PointType
<1> HIDE DEF dp
<1>5. /\ data' \in Seq(BuiltPoint)
      /\ aggDataPoints' \in Seq(Nat \ {0}) /\ Len(aggDataPoints') = Len(data')
      /\ DataAccumulates'
  BY <1>1, <1>3, <1>4, RecordKeeps DEF dp
<1>6. points' \in Seq(BuiltPoint) /\ taken' \in Nat
  BY <1>3, <1>4 DEF BuilderInv, dp
<1>7. /\ config' \in Builder!Configs(metric, varied)
      /\ metricsBuffer' \in Seq(Batches) /\ returned' \in Seq(Batches)
  BY <1>1 DEF BuilderInv
<1> QED
  BY <1>2, <1>5, <1>6, <1>7 DEF BuilderInv

(* emit empties the points, when there are any; without any, none has been *)
(* recorded since the last time.                                           *)
LEMMA EmitStep ==
  ASSUME BuilderInv, Builder!emit, points' = <<>>, UNCHANGED <<metric, varied, config>>
  PROVE  /\ data' \in Seq(BuiltPoint) /\ points' \in Seq(BuiltPoint)
         /\ aggDataPoints' \in Seq(Nat \ {0}) /\ Len(aggDataPoints') = Len(data')
         /\ DataAccumulates'
<1>1. data' = <<>> /\ aggDataPoints' = <<>>
  <2>1. CASE data = <<>>
    <3>1. aggDataPoints = <<>>
      BY <2>1 DEF BuilderInv
    <3> QED
      BY <2>1, <3>1 DEF Builder!emit
  <2>2. CASE data # <<>>
    BY <2>2 DEF Builder!emit, Builder!InitMetric
  <2> QED
    BY <2>1, <2>2
<1>2. Covered(<<>>, <<>>) /\ OnePerSeries(<<>>) /\ Len(<<>>) = 0 /\ 1 .. 0 = {}
  BY DEF Covered, OnePerSeries
<1>3. DataAccumulates'
  <2>1. \A i \in 1 .. Len(data') : FALSE
    BY <1>1, <1>2
  <2> QED
    BY Zenon, <1>1, <1>2, <2>1 DEF DataAccumulates
<1> QED
  BY <1>1, <1>3

LEMMA BufferedType ==
  ASSUME BuilderInv, NEW filtered
  PROVE  Builder!Buffered(filtered) \in Seq(Batches)
<1>1. CASE data = <<>> \/ filtered
  BY <1>1 DEF Builder!Buffered, BuilderInv
<1>2. CASE ~(data = <<>> \/ filtered)
  <2>1. config.enabled
    <3>1. config.enabled \in BOOLEAN
      BY ConfigType DEF BuilderInv
    <3> QED
      BY <1>2, <3>1 DEF BuilderInv, DataAccumulates
  <2>2. Builder!Batch \in Batches
    BY <2>1, BatchFits
  <2> QED
    BY <1>2, <2>2 DEF Builder!Buffered, BuilderInv
<1> QED
  BY <1>1, <1>2

LEMMA BuilderStep == BuilderInv /\ [Builder!Next]_(Builder!vars) => BuilderInv'
<1> SUFFICES ASSUME BuilderInv, [Builder!Next]_(Builder!vars) PROVE BuilderInv'
  OBVIOUS
<1>1. CASE Builder!Record
  BY <1>1, RecordStep
<1>2. CASE Builder!EmitForResource
  <2>1. UNCHANGED <<metric, varied, config, returned, taken>> /\ Builder!emit /\ points' = <<>>
    BY <1>2 DEF Builder!EmitForResource
  <2>2. metricsBuffer' \in Seq(Batches)
    BY <1>2, BufferedType DEF Builder!EmitForResource
  <2>3. BuiltPoint' = BuiltPoint /\ Batches' = Batches
        /\ Builder!Configs(metric, varied)' = Builder!Configs(metric, varied)
    BY <2>1, BatchesKept
  <2>4. /\ data' \in Seq(BuiltPoint) /\ points' \in Seq(BuiltPoint)
        /\ aggDataPoints' \in Seq(Nat \ {0}) /\ Len(aggDataPoints') = Len(data')
        /\ DataAccumulates'
    BY <2>1, EmitStep
  <2> QED
    BY <2>1, <2>2, <2>3, <2>4 DEF BuilderInv
<1>3. CASE Builder!Emit
  <2>1. /\ UNCHANGED <<metric, varied, config>> /\ Builder!emit /\ points' = <<>>
        /\ metricsBuffer' = <<>> /\ taken' = 0
    BY <1>3 DEF Builder!Emit
  <2>2. returned' \in Seq(Batches)
    BY <1>3, BufferedType DEF Builder!Emit
  <2>3. BuiltPoint' = BuiltPoint /\ Batches' = Batches
        /\ Builder!Configs(metric, varied)' = Builder!Configs(metric, varied)
    BY <2>1, BatchesKept
  <2>4. /\ data' \in Seq(BuiltPoint) /\ points' \in Seq(BuiltPoint)
        /\ aggDataPoints' \in Seq(Nat \ {0}) /\ Len(aggDataPoints') = Len(data')
        /\ DataAccumulates'
    BY <2>1, EmitStep
  <2> QED
    BY <2>1, <2>2, <2>3, <2>4 DEF BuilderInv
<1>4. CASE UNCHANGED Builder!vars
  <2>1. /\ UNCHANGED <<metric, varied, config>>
        /\ UNCHANGED <<data, aggDataPoints, points, metricsBuffer, returned, taken>>
    BY <1>4 DEF Builder!vars
  <2>2. BuiltPoint' = BuiltPoint /\ Batches' = Batches
        /\ Builder!Configs(metric, varied)' = Builder!Configs(metric, varied)
    BY <2>1, BatchesKept
  <2>3. DataAccumulates'
    BY <2>1 DEF BuilderInv, DataAccumulates
  <2> QED
    BY <2>1, <2>2, <2>3 DEF BuilderInv
<1> QED
  BY <1>1, <1>2, <1>3, <1>4 DEF Builder!Next

LEMMA BuilderInvAlways == Builder!Spec => []BuilderInv
<1> QED BY BuilderInitInv, BuilderStep, PTL DEF Builder!Spec

LEMMA ComposedIsBuilder == MCSpec => Builder!Spec
<1>1. MCInit => Builder!Init
  BY DEF MCInit
<1>2. [MCNext]_<<scenario, vars, varnishVars, dcgmVars, nvmlVars, builderVars>> => [Builder!Next]_(Builder!vars)
  BY DEF MCNext, builderVars, Builder!vars
<1> QED
  BY <1>1, <1>2, PTL DEF MCSpec, Builder!Spec

(* What a batch shows of a series is what Combined has.                    *)
LEMMA CombinedIs ==
  ASSUME NEW from \in Seq(BuiltPoint), NEW p \in BuiltPoint,
         config.strategy \in Strategies, Comes(config.strategy, from, p)
  PROVE  p.value = Builder!Combined(from, p)
<1> DEFINE of == OfSeries(from, p)
           values == {from[i].value : i \in of}
           s == config.strategy
           total == Builder!MapThenSumSet(LAMBDA i : from[i].value, of)
<1>1. Builder!Combined(from, p) =
        CASE s = "sum" -> total
          [] s = "avg" -> total \div Builder!Cardinality(of)
          [] s = "min" -> Builder!Min(values)
          [] s = "max" -> Builder!Max(values)
  BY Zenon DEF Builder!Combined, OfSeries
<1>2. total = Total(from, of)
  BY DEF Total
<1>3. Builder!Cardinality(of) = Cardinality(of)
  BY DEF Builder!Cardinality, Cardinality
<1>4. values \subseteq Int /\ p.value \in Int
  <2>1. \A i \in of : from[i] \in BuiltPoint
    BY DEF OfSeries
  <2> QED
    BY <2>1 DEF BuiltPoint
<1>5. s = "sum" \/ s = "avg" \/ s = "min" \/ s = "max"
  BY DEF Strategies
<1>6. CASE s = "sum"
  <2>1. p.value = Total(from, of)
    BY <1>6 DEF Comes, Accumulated
  <2>2. Builder!Combined(from, p) = total
    <3> HIDE DEF total, values, of
    <3> QED BY <1>1, <1>6
  <2> HIDE DEF total, of
  <2> QED
    BY <1>2, <2>1, <2>2
<1>7. CASE s = "avg"
  <2>1. p.value = Total(from, of) \div Cardinality(of)
    BY <1>7 DEF Comes
  <2>2. Builder!Combined(from, p) = total \div Builder!Cardinality(of)
    <3> HIDE DEF total, values, of
    <3> QED BY <1>1, <1>7
  <2> HIDE DEF total, of
  <2> QED
    BY <1>2, <1>3, <2>1, <2>2
<1>8. CASE s = "min"
  <2>1. p.value \in values /\ \A v \in values : p.value <= v
    BY <1>8 DEF Comes, Accumulated
  <2>2. Builder!Combined(from, p) = Builder!Min(values)
    <3> HIDE DEF total, values, of
    <3> QED BY <1>1, <1>8
  <2> HIDE DEF values
  <2>3. Builder!Min(values) \in values /\ \A v \in values : Builder!Min(values) <= v
    BY Zenon, <2>1 DEF Builder!Min
  <2> DEFINE w == Builder!Min(values)
  <2>4. w \in Int /\ p.value \in Int
    BY <1>4, <2>3
  <2>5. p.value <= w /\ w <= p.value
    BY <2>1, <2>3
  <2> HIDE DEF w
  <2>6. p.value = w
    BY <2>4, <2>5
  <2> QED
    BY <2>2, <2>6 DEF w
<1>9. CASE s = "max"
  <2>1. p.value \in values /\ \A v \in values : p.value >= v
    <3>1. p.value \in values /\ \A v \in values : v <= p.value
      BY <1>9 DEF Comes, Accumulated
    <3> HIDE DEF values
    <3> QED BY <1>4, <3>1
  <2>2. Builder!Combined(from, p) = Builder!Max(values)
    <3> HIDE DEF total, values, of
    <3> QED BY <1>1, <1>9
  <2> HIDE DEF values
  <2>3. Builder!Max(values) \in values /\ \A v \in values : Builder!Max(values) >= v
    BY Zenon, <2>1 DEF Builder!Max
  <2> DEFINE w == Builder!Max(values)
  <2>4. w \in Int /\ p.value \in Int
    BY <1>4, <2>3
  <2>5. p.value >= w /\ w >= p.value
    BY <2>1, <2>3
  <2> HIDE DEF w
  <2>6. p.value = w
    BY <2>4, <2>5
  <2> QED
    BY <2>2, <2>6 DEF w
<1> QED
  BY <1>5, <1>6, <1>7, <1>8, <1>9

LEMMA BatchIsAggregate ==
  ASSUME config.strategy \in Strategies, NEW b \in Batches
  PROVE  Builder!IsAggregate(b)
<1> DEFINE from == b.from
           into == b.points
<1>1. from \in Seq(BuiltPoint) /\ into \in Seq(BuiltPoint)
  BY DEF Batches
<1>2. Aggregate(config.strategy, metric.attributes, b)
  BY DEF Batches
<1>3. CASE metric.attributes = {}
  BY <1>2, <1>3 DEF Aggregate, Builder!IsAggregate
<1>4. CASE metric.attributes # {}
  <2>1. /\ Covered(from, into) /\ OnePerSeries(into)
        /\ \A i \in 1 .. Len(into) : Comes(config.strategy, from, into[i])
    BY <1>2, <1>4 DEF Aggregate
  <2> HIDE DEF from, into
  <2>2. /\ Builder!Range(from) = {from[k] : k \in 1 .. Len(from)}
        /\ Builder!Range(into) = {into[k] : k \in 1 .. Len(into)}
    BY <1>1 DEF Builder!Range
  <2>3. ASSUME NEW p \in Builder!Range(from)
        PROVE  \E q \in Builder!Range(into) : Builder!SameSeries(p, q)
    BY <2>1, <2>2 DEF Covered
  <2>4. ASSUME NEW p \in Builder!Range(into) PROVE p.value = Builder!Combined(from, p)
    <3>1. PICK i \in 1 .. Len(into) : p = into[i]
      BY <2>2
    <3>2. p \in BuiltPoint
      BY <1>1, <3>1
    <3> QED
      BY <1>1, <2>1, <3>1, <3>2, CombinedIs
  <2>5. \A i, j \in 1 .. Len(into) : Builder!SameSeries(into[i], into[j]) => i = j
    BY <2>1 DEF OnePerSeries
  <2> QED
    BY Zenon, <1>4, <2>3, <2>4, <2>5 DEF Builder!IsAggregate, from, into
<1> QED
  BY <1>3, <1>4

(* For all values, of any length: what any of the four builders emits for  *)
(* a metric is what was recorded for it since the last emit, one point per *)
(* series with the sum, the average or the extreme of all its points, and  *)
(* nothing when the metric is disabled (recordDataPoint and emit, for      *)
(* instance nvmlreceiver's generated_metrics.go:98-162).                   *)
THEOREM EmittedIsCombined == MCSpec => []EmittedIsAggregate
<1>1. BuilderInv => EmittedIsAggregate
  <2> SUFFICES ASSUME BuilderInv PROVE Builder!EmittedIsAggregate
    BY DEF EmittedIsAggregate
  <2>1. config.strategy \in Strategies /\ config.enabled \in BOOLEAN
    BY ConfigType DEF BuilderInv
  <2> DEFINE batches == Builder!Range(metricsBuffer) \cup Builder!Range(returned)
  <2>2. batches \subseteq Batches
    <3>1. metricsBuffer \in Seq(Batches) /\ returned \in Seq(Batches)
      BY DEF BuilderInv
    <3> QED
      BY <3>1 DEF Builder!Range
  <2>3. CASE config.enabled
    <3>1. \A b \in batches \cup {Builder!Batch} : Builder!IsAggregate(b)
      <4> HIDE DEF batches
      <4> QED BY <2>1, <2>2, <2>3, BatchFits, BatchIsAggregate
    <3> QED
      BY Zenon, <2>3, <3>1 DEF Builder!EmittedIsAggregate
  <2>4. CASE ~ config.enabled
    <3>1. Batches = {}
      BY Zenon, <2>4 DEF Batches
    <3>2. batches = {}
      <4> HIDE DEF batches
      <4> QED BY <2>2, <3>1
    <3>3. data = <<>>
      BY <2>4 DEF BuilderInv, DataAccumulates
    <3> QED
      BY Zenon, <2>4, <3>2, <3>3 DEF Builder!EmittedIsAggregate
  <2> QED
    BY <2>1, <2>3, <2>4
<1> QED
  BY <1>1, ComposedIsBuilder, BuilderInvAlways, PTL

-----------------------------------------------------------------------------
(***************************************************************************)
(* No two readings of a scrape go to one series: the mongodb scraper.      *)
(***************************************************************************)

(* The names under which a question's answer is reported.                  *)
NamesOf(what) ==
  CASE what = "count"  -> {"mongodb.database.count"}
    [] what = "admin"  ->
         {"mongodb.cache.operations", "mongodb.cursor.count", "mongodb.cursor.timeout.count",
          "mongodb.global_lock.time", "mongodb.network.io.receive",
          "mongodb.network.io.transmit", "mongodb.network.request.count",
          "mongodb.operation.count", "mongodb.session.count"}
    [] what = "top"    -> {"mongodb.operation.time"}
    [] what = "stats"  ->
         {"mongodb.collection.count", "mongodb.data.size", "mongodb.extent.count",
          "mongodb.index.size", "mongodb.index.count", "mongodb.object.count",
          "mongodb.storage.size"}
    [] what = "status" ->
         {"mongodb.connection.count", "mongodb.document.operation.count",
          "mongodb.memory.usage", "mongodb.lock.acquire.count",
          "mongodb.lock.acquire.wait_count", "mongodb.lock.acquire.time",
          "mongodb.lock.deadlock.count"}
    [] what = "index"  -> {"mongodb.index.access.count"}

Whats == {"count", "admin", "top", "stats", "status", "index"}

(* Two readings that would be added up, or averaged.                       *)
Collide(a, b) == a.metric = b.metric /\ a.attributes = b.attributes

LEMMA ReadingFields ==
  ASSUME NEW path, NEW metric0, NEW attributes
  PROVE  /\ Reading(path, metric0, attributes).path = path
         /\ Reading(path, metric0, attributes).metric = metric0.name
         /\ Reading(path, metric0, attributes).attributes = attributes
BY DEF Reading

LEMMA CountAndIndexReadings ==
  ASSUME NEW v, NEW db, NEW col
  PROVE  /\ \A r \in RecordDatabaseCount : r = Reading(<<>>, metricMongodbDatabaseCount, <<>>)
         /\ \A r \in recordIndexAccess(v, db, col) :
              r = Reading(<<"accesses", "ops">>, metricMongodbIndexAccessCount,
                          [database |-> db, collection |-> col])
BY DEF RecordDatabaseCount, PerServer, recordIndexAccess

(* A reading of dbStats: its database, and which of the seven it is.       *)
StatsKeys ==
  [collections |-> "mongodb.collection.count", dataSize |-> "mongodb.data.size",
   numExtents |-> "mongodb.extent.count", indexSize |-> "mongodb.index.size",
   indexes |-> "mongodb.index.count", objects |-> "mongodb.object.count",
   storageSize |-> "mongodb.storage.size"]

LEMMA StatsReadings ==
  ASSUME NEW v, NEW db, NEW r \in recordDBStats(v, db)
  PROVE  /\ r.metric \in NamesOf("stats")
         /\ \E key \in DOMAIN StatsKeys :
              r = [path |-> <<key>>, metric |-> StatsKeys[key], attributes |-> [database |-> db]]
<1> DEFINE Of(key, m) == Reading(<<key>>, m, [database |-> db])
<1>1. \/ r = Of("collections", metricMongodbCollectionCount)
      \/ r = Of("dataSize", metricMongodbDataSize)
      \/ r = Of("numExtents", metricMongodbExtentCount)
      \/ r = Of("indexSize", metricMongodbIndexSize)
      \/ r = Of("indexes", metricMongodbIndexCount)
      \/ r = Of("objects", metricMongodbObjectCount)
      \/ r = Of("storageSize", metricMongodbStorageSize)
  BY DEF recordDBStats, recordCollections, recordDataSize, recordExtentCount,
         recordIndexSize, recordIndexCount, recordObjectCount, recordStorageSize, PerDatabase
<1>2. \E key \in DOMAIN StatsKeys :
        r = [path |-> <<key>>, metric |-> StatsKeys[key], attributes |-> [database |-> db]]
  BY <1>1 DEF Reading, StatsKeys, metricMongodbCollectionCount, metricMongodbDataSize,
         metricMongodbExtentCount, metricMongodbIndexSize, metricMongodbIndexCount,
         metricMongodbObjectCount, metricMongodbStorageSize, UpDownCounter, Counter
<1> QED
  BY <1>2 DEF NamesOf, StatsKeys

LEMMA StatsApart ==
  ASSUME NEW v, NEW d, NEW e, NEW a \in recordDBStats(v, d), NEW b \in recordDBStats(v, e),
         Collide(a, b)
  PROVE  d = e /\ a = b
<1>1. PICK k \in DOMAIN StatsKeys :
        a = [path |-> <<k>>, metric |-> StatsKeys[k], attributes |-> [database |-> d]]
  BY StatsReadings
<1>2. PICK l \in DOMAIN StatsKeys :
        b = [path |-> <<l>>, metric |-> StatsKeys[l], attributes |-> [database |-> e]]
  BY StatsReadings
<1>3. a.attributes.database = b.attributes.database
  BY DEF Collide
<1>4. d = e
  BY <1>1, <1>2, <1>3
<1>5. StatsKeys[k] = StatsKeys[l]
  BY <1>1, <1>2 DEF Collide
<1>6. k = l
  BY <1>5 DEF StatsKeys
<1> QED
  BY <1>1, <1>2, <1>4, <1>6


(* The maps from the server's names to attributes give no attribute twice. *)
LEMMA MapsAreInjective ==
  /\ \A x, y \in DOMAIN operationsMap : operationsMap[x] = operationsMap[y] => x = y
  /\ \A x, y \in DOMAIN documentMap : documentMap[x] = documentMap[y] => x = y
  /\ \A x, y \in DOMAIN lockTypeMap : lockTypeMap[x] = lockTypeMap[y] => x = y
  /\ \A x, y \in DOMAIN lockModeMap : lockModeMap[x] = lockModeMap[y] => x = y
<1>1. \A x, y \in DOMAIN operationsMap : operationsMap[x] = operationsMap[y] => x = y
  BY DEF operationsMap
<1>2. \A x, y \in DOMAIN documentMap : documentMap[x] = documentMap[y] => x = y
  BY DEF documentMap
<1>3. \A x, y \in DOMAIN lockTypeMap : lockTypeMap[x] = lockTypeMap[y] => x = y
  BY DEF lockTypeMap
<1>4. \A x, y \in DOMAIN lockModeMap : lockModeMap[x] = lockModeMap[y] => x = y
  BY DEF lockModeMap
<1> QED
  BY <1>1, <1>2, <1>3, <1>4

(* The readings about the server.                                          *)
ServerNames ==
  {"mongodb.session.count", "mongodb.global_lock.time", "mongodb.cursor.count",
   "mongodb.cursor.timeout.count", "mongodb.network.io.receive",
   "mongodb.network.io.transmit", "mongodb.network.request.count"}

ServerPath(name) ==
  CASE name = "mongodb.session.count" -> <<"wiredTiger", "session", "open session count">>
    [] name = "mongodb.global_lock.time" -> <<"globalLock", "totalTime">>
    [] name = "mongodb.cursor.count" -> <<"metrics", "cursor", "open", "total">>
    [] name = "mongodb.cursor.timeout.count" -> <<"metrics", "cursor", "timedOut">>
    [] name = "mongodb.network.io.receive" -> <<"network", "bytesIn">>
    [] name = "mongodb.network.io.transmit" -> <<"network", "bytesOut">>
    [] name = "mongodb.network.request.count" -> <<"network", "numRequests">>

MissPath == <<"wiredTiger", "cache", "pages read into cache">>
HitPath == <<"wiredTiger", "cache", "pages requested from the cache">>

OfServer(r) ==
  \E name \in ServerNames : r = [path |-> ServerPath(name), metric |-> name, attributes |-> <<>>]
OfOperations(r) ==
  \E op \in AttributeOperation :
    r = [path |-> <<"opcounters", op>>, metric |-> "mongodb.operation.count",
         attributes |-> [operation |-> op]]
OfCache(r) ==
  \/ r = [path |-> MissPath, metric |-> "mongodb.cache.operations",
          attributes |-> [type |-> "miss"]]
  \/ r = [path |-> HitPath, metric |-> "mongodb.cache.operations",
          attributes |-> [type |-> "hit"]]

LEMMA AdminReadings ==
  ASSUME NEW v, NEW r \in recordAdminStats(v)
  PROVE  (OfServer(r) \/ OfOperations(r) \/ OfCache(r)) /\ r.metric \in NamesOf("admin")
<1>1. CASE r \in recordOperations
  <2>1. OfOperations(r)
    BY <1>1 DEF recordOperations, OfOperations, Reading, metricMongodbOperationCount, Counter
  <2> QED
    BY <2>1 DEF OfOperations, NamesOf
<1>2. CASE r \in recordCacheOperations(v)
  <2>1. OfCache(r)
    BY <1>2 DEF recordCacheOperations, OfCache, MissPath, HitPath, Reading, metricMongodbCacheOperations, Counter
  <2> QED
    BY <2>1 DEF OfCache, NamesOf
<1>3. CASE r \in recordCursorCount \cup recordCursorTimeoutCount \cup recordGlobalLockTime
                   \cup recordNetworkCount \cup recordSessionCount(v)
  <2>1. OfServer(r)
    BY <1>3 DEF recordCursorCount, recordCursorTimeoutCount, recordGlobalLockTime,
         recordNetworkCount, recordSessionCount, PerServer, OfServer, ServerNames, ServerPath, Reading,
         metricMongodbSessionCount, metricMongodbGlobalLockTime, metricMongodbCursorCount,
         metricMongodbCursorTimeoutCount, metricMongodbNetworkIoReceive,
         metricMongodbNetworkIoTransmit, metricMongodbNetworkRequestCount, UpDownCounter, Counter
  <2>2. \A name \in ServerNames : name \in NamesOf("admin")
    BY DEF ServerNames, NamesOf
  <2> QED
    BY <2>1, <2>2 DEF OfServer
<1> QED
  BY <1>1, <1>2, <1>3 DEF recordAdminStats

LEMMA AdminApart ==
  ASSUME NEW v, NEW a \in recordAdminStats(v), NEW b \in recordAdminStats(v), Collide(a, b)
  PROVE  a = b
<1>1. OfServer(a) /\ OfServer(b) => a = b
  BY DEF OfServer, Collide
<1>2. OfOperations(a) /\ OfOperations(b) => a = b
  <2> SUFFICES ASSUME OfOperations(a), OfOperations(b) PROVE a = b
    OBVIOUS
  <2>1. PICK x \in AttributeOperation :
          a = [path |-> <<"opcounters", x>>, metric |-> "mongodb.operation.count",
               attributes |-> [operation |-> x]]
    BY DEF OfOperations
  <2>2. PICK y \in AttributeOperation :
          b = [path |-> <<"opcounters", y>>, metric |-> "mongodb.operation.count",
               attributes |-> [operation |-> y]]
    BY DEF OfOperations
  <2>3. a.attributes.operation = b.attributes.operation
    BY DEF Collide
  <2>4. x = y
    BY <2>1, <2>2, <2>3
  <2> QED
    BY <2>1, <2>2, <2>4
<1>3. OfCache(a) /\ OfCache(b) => a = b
  <2>1. a.attributes.type = b.attributes.type
    BY DEF Collide
  <2> QED
    BY <2>1 DEF OfCache
<1>4. \A r : /\ OfServer(r) => r.metric \notin {"mongodb.operation.count", "mongodb.cache.operations"}
             /\ OfOperations(r) => r.metric = "mongodb.operation.count"
             /\ OfCache(r) => r.metric = "mongodb.cache.operations"
  BY DEF OfServer, ServerNames, OfOperations, OfCache
<1>5. (OfServer(a) \/ OfOperations(a) \/ OfCache(a)) /\ (OfServer(b) \/ OfOperations(b) \/ OfCache(b))
  BY AdminReadings
<1> QED
  BY <1>1, <1>2, <1>3, <1>4, <1>5 DEF Collide

LEMMA TopApart ==
  ASSUME NEW a \in recordOperationTime, NEW b \in recordOperationTime, Collide(a, b)
  PROVE  a = b
<1> DEFINE Of(op) == [path |-> <<"totals", op, "time">>, metric |-> "mongodb.operation.time",
                      attributes |-> [operation |-> operationsMap[op]]]
<1>1. PICK x \in DOMAIN operationsMap : a = Of(x)
  BY DEF recordOperationTime, Reading, metricMongodbOperationTime, Counter
<1>2. PICK y \in DOMAIN operationsMap : b = Of(y)
  BY DEF recordOperationTime, Reading, metricMongodbOperationTime, Counter
<1>3. a.attributes.operation = b.attributes.operation
  BY DEF Collide
<1>4. operationsMap[x] = operationsMap[y]
  BY <1>1, <1>2, <1>3
<1>5. x = y
  BY <1>4, MapsAreInjective
<1> QED
  BY <1>1, <1>2, <1>5


(* The readings of serverStatus for a database.                            *)
LockMetrics ==
  [acquireCount |-> "mongodb.lock.acquire.count",
   acquireWaitCount |-> "mongodb.lock.acquire.wait_count",
   timeAcquiringMicros |-> "mongodb.lock.acquire.time",
   deadlockCount |-> "mongodb.lock.deadlock.count"]

ConnectionReading(db, ct) ==
  [path |-> <<"connections", ct>>, metric |-> "mongodb.connection.count",
   attributes |-> [database |-> db, type |-> ct]]
MemoryReading(db, mt) ==
  [path |-> <<"mem", mt>>, metric |-> "mongodb.memory.usage",
   attributes |-> [database |-> db, type |-> mt]]
DocumentReading(db, op) ==
  [path |-> <<"metrics", "document", op>>, metric |-> "mongodb.document.operation.count",
   attributes |-> [database |-> db, operation |-> documentMap[op]]]
LockReading(db, key, type, mode) ==
  [path |-> <<"locks", type, key, mode>>, metric |-> LockMetrics[key],
   attributes |-> [database |-> db, lock_type |-> lockTypeMap[type],
                   lock_mode |-> lockModeMap[mode]]]

OfConnections(r, db) == \E ct \in AttributeConnectionType : r = ConnectionReading(db, ct)
OfMemory(r, db) == \E mt \in AttributeMemoryType : r = MemoryReading(db, mt)
OfDocuments(r, db) == \E op \in DOMAIN documentMap : r = DocumentReading(db, op)
OfLocks(r, db) ==
  \E key \in DOMAIN LockMetrics, type \in DOMAIN lockTypeMap, mode \in DOMAIN lockModeMap :
    r = LockReading(db, key, type, mode)

LEMMA LockReadings ==
  ASSUME NEW v, NEW db, NEW key \in DOMAIN LockMetrics, NEW m, m.name = LockMetrics[key],
         NEW r \in recordLocks(v, db, key, m)
  PROVE  OfLocks(r, db)
<1>1. PICK type \in DOMAIN lockTypeMap, mode \in DOMAIN lockModeMap :
        r = Reading(<<"locks", type, key, mode>>, m,
                    [database |-> db, lock_type |-> lockTypeMap[type],
                     lock_mode |-> lockModeMap[mode]])
  <2>1. LockTypes(v) \subseteq DOMAIN lockTypeMap
    BY DEF LockTypes
  <2> DEFINE Types == IF v < 32 THEN {} ELSE LockTypes(v)
             Of(type, mode) == Reading(<<"locks", type, key, mode>>, m,
                                       [database |-> db, lock_type |-> lockTypeMap[type],
                                        lock_mode |-> lockModeMap[mode]])
  <2>2. r \in {Of(type, mode) : type \in Types, mode \in DOMAIN lockModeMap}
    BY DEF recordLocks
  <2>3. Types \subseteq DOMAIN lockTypeMap
    BY <2>1
  <2>4. PICK type \in Types, mode \in DOMAIN lockModeMap : r = Of(type, mode)
    <3> HIDE DEF Types, Of
    <3> QED BY <2>2
  <2> HIDE DEF Types
  <2> QED
    BY <2>3, <2>4
<1>2. r = LockReading(db, key, type, mode)
  BY <1>1 DEF Reading, LockReading
<1> QED
  BY <1>2 DEF OfLocks

LEMMA StatusReadings ==
  ASSUME NEW v, NEW db, NEW r \in recordNormalServerStats(v, db)
  PROVE  OfConnections(r, db) \/ OfMemory(r, db) \/ OfDocuments(r, db) \/ OfLocks(r, db)
<1>1. CASE r \in recordConnections(v, db)
  BY <1>1 DEF recordConnections, OfConnections, ConnectionReading, Reading,
         metricMongodbConnectionCount, UpDownCounter
<1>2. CASE r \in recordMemoryUsage(db)
  BY <1>2 DEF recordMemoryUsage, OfMemory, MemoryReading, Reading,
         metricMongodbMemoryUsage, UpDownCounter
<1>3. CASE r \in recordDocumentOperations(db)
  BY <1>3 DEF recordDocumentOperations, OfDocuments, DocumentReading, Reading,
         metricMongodbDocumentOperationCount, UpDownCounter
<1>4. CASE r \in recordLockAcquireCounts(v, db) \cup recordLockAcquireWaitCounts(v, db)
                   \cup recordLockTimeAcquiringMicros(v, db) \cup recordLockDeadlockCount(v, db)
  <2>1. /\ metricMongodbLockAcquireCount.name = LockMetrics["acquireCount"]
        /\ metricMongodbLockAcquireWaitCount.name = LockMetrics["acquireWaitCount"]
        /\ metricMongodbLockAcquireTime.name = LockMetrics["timeAcquiringMicros"]
        /\ metricMongodbLockDeadlockCount.name = LockMetrics["deadlockCount"]
    BY DEF LockMetrics, metricMongodbLockAcquireCount, metricMongodbLockAcquireWaitCount,
         metricMongodbLockAcquireTime, metricMongodbLockDeadlockCount, Counter
  <2>2. {"acquireCount", "acquireWaitCount", "timeAcquiringMicros", "deadlockCount"}
          \subseteq DOMAIN LockMetrics
    BY DEF LockMetrics
  <2>3. r \in recordLockAcquireCounts(v, db) => OfLocks(r, db)
    BY <2>1, <2>2, LockReadings DEF recordLockAcquireCounts
  <2>4. r \in recordLockAcquireWaitCounts(v, db) => OfLocks(r, db)
    BY <2>1, <2>2, LockReadings DEF recordLockAcquireWaitCounts
  <2>5. r \in recordLockTimeAcquiringMicros(v, db) => OfLocks(r, db)
    BY <2>1, <2>2, LockReadings DEF recordLockTimeAcquiringMicros
  <2>6. r \in recordLockDeadlockCount(v, db) => OfLocks(r, db)
    BY <2>1, <2>2, LockReadings DEF recordLockDeadlockCount
  <2> QED
    BY <1>4, <2>3, <2>4, <2>5, <2>6
<1> QED
  BY <1>1, <1>2, <1>3, <1>4 DEF recordNormalServerStats

LEMMA StatusFields ==
  ASSUME NEW r, NEW db,
         OfConnections(r, db) \/ OfMemory(r, db) \/ OfDocuments(r, db) \/ OfLocks(r, db)
  PROVE  /\ r.attributes.database = db
         /\ r.metric \in NamesOf("status")
         /\ OfConnections(r, db) <=> r.metric = "mongodb.connection.count"
         /\ OfMemory(r, db) <=> r.metric = "mongodb.memory.usage"
         /\ OfDocuments(r, db) <=> r.metric = "mongodb.document.operation.count"
<1>1. OfConnections(r, db) => r.metric = "mongodb.connection.count" /\ r.attributes.database = db
  BY DEF OfConnections, ConnectionReading
<1>2. OfMemory(r, db) => r.metric = "mongodb.memory.usage" /\ r.attributes.database = db
  BY DEF OfMemory, MemoryReading
<1>3. OfDocuments(r, db) =>
        r.metric = "mongodb.document.operation.count" /\ r.attributes.database = db
  BY DEF OfDocuments, DocumentReading
<1>4. OfLocks(r, db) =>
        /\ r.metric \in {"mongodb.lock.acquire.count", "mongodb.lock.acquire.wait_count",
                         "mongodb.lock.acquire.time", "mongodb.lock.deadlock.count"}
        /\ r.attributes.database = db
  <2> SUFFICES ASSUME NEW key \in DOMAIN LockMetrics, NEW type, NEW mode,
                      r = LockReading(db, key, type, mode)
               PROVE  /\ r.metric \in {"mongodb.lock.acquire.count",
                                       "mongodb.lock.acquire.wait_count",
                                       "mongodb.lock.acquire.time",
                                       "mongodb.lock.deadlock.count"}
                      /\ r.attributes.database = db
    BY DEF OfLocks
  <2>1. r.metric = LockMetrics[key] /\ r.attributes.database = db
    BY DEF LockReading
  <2> QED
    BY <2>1 DEF LockMetrics
<1> QED
  BY <1>1, <1>2, <1>3, <1>4 DEF NamesOf

LEMMA StatusApart ==
  ASSUME NEW v, NEW d, NEW e,
         NEW a \in recordNormalServerStats(v, d), NEW b \in recordNormalServerStats(v, e),
         Collide(a, b)
  PROVE  d = e /\ a = b
<1>1. /\ OfConnections(a, d) \/ OfMemory(a, d) \/ OfDocuments(a, d) \/ OfLocks(a, d)
      /\ OfConnections(b, e) \/ OfMemory(b, e) \/ OfDocuments(b, e) \/ OfLocks(b, e)
  BY StatusReadings
<1>2. d = e
  BY <1>1, StatusFields DEF Collide
<1>3. CASE OfConnections(a, d) /\ OfConnections(b, d)
  <2>1. PICK x : a = ConnectionReading(d, x)
    BY <1>3 DEF OfConnections
  <2>2. PICK y : b = ConnectionReading(d, y)
    BY <1>3 DEF OfConnections
  <2>3. x = y
    <3>1. a.attributes.type = x /\ b.attributes.type = y
      BY <2>1, <2>2 DEF ConnectionReading
    <3> QED BY <3>1 DEF Collide
  <2> QED
    BY <1>2, <2>1, <2>2, <2>3
<1>4. CASE OfMemory(a, d) /\ OfMemory(b, d)
  <2>1. PICK x : a = MemoryReading(d, x)
    BY <1>4 DEF OfMemory
  <2>2. PICK y : b = MemoryReading(d, y)
    BY <1>4 DEF OfMemory
  <2>3. x = y
    <3>1. a.attributes.type = x /\ b.attributes.type = y
      BY <2>1, <2>2 DEF MemoryReading
    <3> QED BY <3>1 DEF Collide
  <2> QED
    BY <1>2, <2>1, <2>2, <2>3
<1>5. CASE OfDocuments(a, d) /\ OfDocuments(b, d)
  <2>1. PICK x \in DOMAIN documentMap : a = DocumentReading(d, x)
    BY <1>5 DEF OfDocuments
  <2>2. PICK y \in DOMAIN documentMap : b = DocumentReading(d, y)
    BY <1>5 DEF OfDocuments
  <2>3. x = y
    <3>1. a.attributes.operation = documentMap[x] /\ b.attributes.operation = documentMap[y]
      BY <2>1, <2>2 DEF DocumentReading
    <3> QED BY <3>1, MapsAreInjective DEF Collide
  <2> QED
    BY <1>2, <2>1, <2>2, <2>3
<1>6. CASE OfLocks(a, d) /\ OfLocks(b, d)
  <2>1. PICK k \in DOMAIN LockMetrics, x \in DOMAIN lockTypeMap, w \in DOMAIN lockModeMap :
          a = LockReading(d, k, x, w)
    BY <1>6 DEF OfLocks
  <2>2. PICK l \in DOMAIN LockMetrics, y \in DOMAIN lockTypeMap, z \in DOMAIN lockModeMap :
          b = LockReading(d, l, y, z)
    BY <1>6 DEF OfLocks
  <2>3. a.metric = LockMetrics[k] /\ b.metric = LockMetrics[l]
    BY <2>1, <2>2 DEF LockReading
  <2>4. \A g, h \in DOMAIN LockMetrics : LockMetrics[g] = LockMetrics[h] => g = h
    BY DEF LockMetrics
  <2>5. k = l
    BY <2>3, <2>4 DEF Collide
  <2>6. /\ a.attributes.lock_type = lockTypeMap[x] /\ b.attributes.lock_type = lockTypeMap[y]
        /\ a.attributes.lock_mode = lockModeMap[w] /\ b.attributes.lock_mode = lockModeMap[z]
    BY <2>1, <2>2 DEF LockReading
  <2>7. x = y /\ w = z
    BY <2>6, MapsAreInjective DEF Collide
  <2> QED
    BY <1>2, <2>1, <2>2, <2>5, <2>7
<1>7. \/ OfConnections(a, d) /\ OfConnections(b, d)
      \/ OfMemory(a, d) /\ OfMemory(b, d)
      \/ OfDocuments(a, d) /\ OfDocuments(b, d)
      \/ OfLocks(a, d) /\ OfLocks(b, d)
  <2>1. /\ OfConnections(a, d) <=> OfConnections(b, d)
        /\ OfMemory(a, d) <=> OfMemory(b, d)
        /\ OfDocuments(a, d) <=> OfDocuments(b, d)
    <3>1. a.metric = b.metric
      BY DEF Collide
    <3> QED
      BY <1>1, <1>2, <3>1, StatusFields
  <2> QED
    BY <1>1, <1>2, <2>1
<1> QED
  BY <1>2, <1>3, <1>4, <1>5, <1>6, <1>7


(* Every point has its own names, and its readings different series.       *)
LEMMA NamesTellPoints ==
  ASSUME NEW v, NEW p \in Points, NEW r \in ReadingsOf(v, p)
  PROVE  p.what \in Whats /\ r.metric \in NamesOf(p.what)
<1>1. p.what \in Whats
  BY DEF Points, ServerPoints, IndexPoints, CountPoint, AdminPoint, TopPoint, StatsPoint,
         StatusPoint, IndexPoint, Whats
<1>2. CASE p.what = "count"
  <2>1. r \in RecordDatabaseCount
    BY <1>2 DEF ReadingsOf
  <2>2. r.metric = metricMongodbDatabaseCount.name
    BY <2>1 DEF RecordDatabaseCount, PerServer, Reading
  <2>3. r.metric = "mongodb.database.count"
    BY <2>2 DEF metricMongodbDatabaseCount, UpDownCounter
  <2> QED
    BY <1>1, <1>2, <2>3 DEF NamesOf
<1>3. CASE p.what = "admin"
  <2>1. r \in recordAdminStats(v)
    BY <1>3 DEF ReadingsOf
  <2> QED
    BY <1>1, <1>3, <2>1, AdminReadings
<1>4. CASE p.what = "top"
  <2>1. r \in recordOperationTime
    BY <1>4 DEF ReadingsOf
  <2>2. r.metric = "mongodb.operation.time"
    BY <2>1 DEF recordOperationTime, Reading, metricMongodbOperationTime, Counter
  <2> QED
    BY <1>1, <1>4, <2>2 DEF NamesOf
<1>5. CASE p.what = "stats"
  <2>1. r \in recordDBStats(v, p.db)
    BY <1>5 DEF ReadingsOf
  <2> QED
    BY <1>1, <1>5, <2>1, StatsReadings
<1>6. CASE p.what = "status"
  <2>1. r \in recordNormalServerStats(v, p.db)
    BY <1>6 DEF ReadingsOf
  <2> QED
    BY <1>1, <1>6, <2>1, StatusReadings, StatusFields
<1>7. CASE p.what = "index"
  <2>1. r \in recordIndexAccess(v, p.db, p.col)
    BY <1>7 DEF ReadingsOf
  <2>2. r.metric = metricMongodbIndexAccessCount.name
    BY <2>1 DEF recordIndexAccess, Reading
  <2>3. r.metric = "mongodb.index.access.count"
    BY <2>2 DEF metricMongodbIndexAccessCount, UpDownCounter
  <2> QED
    BY <1>1, <1>7, <2>3 DEF NamesOf
<1> QED
  BY <1>1, <1>2, <1>3, <1>4, <1>5, <1>6, <1>7 DEF Whats

LEMMA NamesDisjoint ==
  ASSUME NEW w \in Whats, NEW u \in Whats, NEW n, n \in NamesOf(w), n \in NamesOf(u)
  PROVE  w = u
BY DEF Whats, NamesOf

LEMMA PointIs ==
  ASSUME NEW p \in Points
  PROVE  /\ p.what = "count" => p = CountPoint
         /\ p.what = "admin" => p = AdminPoint
         /\ p.what = "top" => p = TopPoint
         /\ p.what = "stats" => p = StatsPoint(p.db)
         /\ p.what = "status" => p = StatusPoint(p.db)
         /\ p.what = "index" => p = IndexPoint(p.db, p.col)
BY DEF Points, ServerPoints, IndexPoints, CountPoint, AdminPoint, TopPoint, StatsPoint,
       StatusPoint, IndexPoint

LEMMA ReadingsApart ==
  ASSUME NEW v, NEW p \in Points, NEW q \in Points,
         NEW a \in ReadingsOf(v, p), NEW b \in ReadingsOf(v, q), Collide(a, b)
  PROVE  p = q /\ a = b
<1>1. p.what \in Whats /\ p.what = q.what
  <2>1. a.metric = b.metric
    BY DEF Collide
  <2> QED
    BY <2>1, NamesTellPoints, NamesDisjoint
<1>2. CASE p.what = "count"
  <2>1. a \in RecordDatabaseCount /\ b \in RecordDatabaseCount
    BY <1>1, <1>2 DEF ReadingsOf
  <2> QED
    BY <1>1, <1>2, <2>1, PointIs, CountAndIndexReadings
<1>3. CASE p.what = "admin"
  <2>1. a \in recordAdminStats(v) /\ b \in recordAdminStats(v)
    BY <1>1, <1>3 DEF ReadingsOf
  <2> QED
    BY <1>1, <1>3, <2>1, PointIs, AdminApart
<1>4. CASE p.what = "top"
  <2>1. a \in recordOperationTime /\ b \in recordOperationTime
    BY <1>1, <1>4 DEF ReadingsOf
  <2> QED
    BY <1>1, <1>4, <2>1, PointIs, TopApart
<1>5. CASE p.what = "stats"
  <2>1. a \in recordDBStats(v, p.db) /\ b \in recordDBStats(v, q.db)
    BY <1>1, <1>5 DEF ReadingsOf
  <2>2. p.db = q.db /\ a = b
    BY <2>1, StatsApart
  <2> QED
    BY <1>1, <1>5, <2>2, PointIs
<1>6. CASE p.what = "status"
  <2>1. a \in recordNormalServerStats(v, p.db) /\ b \in recordNormalServerStats(v, q.db)
    BY <1>1, <1>6 DEF ReadingsOf
  <2>2. p.db = q.db /\ a = b
    BY <2>1, StatusApart
  <2> QED
    BY <1>1, <1>6, <2>2, PointIs
<1>7. CASE p.what = "index"
  <2>1. a \in recordIndexAccess(v, p.db, p.col) /\ b \in recordIndexAccess(v, q.db, q.col)
    BY <1>1, <1>7 DEF ReadingsOf
  <2>2. /\ a.attributes = [database |-> p.db, collection |-> p.col]
        /\ b.attributes = [database |-> q.db, collection |-> q.col]
    BY <2>1, CountAndIndexReadings, ReadingFields
  <2>3. p.db = q.db /\ p.col = q.col
    <3>1. a.attributes.database = b.attributes.database
      BY DEF Collide
    <3>2. a.attributes.collection = b.attributes.collection
      BY DEF Collide
    <3> QED BY <2>2, <3>1, <3>2
  <2>4. a = b
    BY <2>1, <2>3, CountAndIndexReadings
  <2> QED
    BY <1>1, <1>7, <2>3, <2>4, PointIs
<1> QED
  BY <1>1, <1>2, <1>3, <1>4, <1>5, <1>6, <1>7 DEF Whats

(* A set and its image under a function that is injective on it.           *)
LEMMA ImageSize ==
  ASSUME NEW S, IsFiniteSet(S), NEW f, S \subseteq DOMAIN f,
         \A x, y \in S : f[x] = f[y] => x = y
  PROVE  /\ IsFiniteSet({f[x] : x \in S})
         /\ Cardinality({f[x] : x \in S}) = Cardinality(S)
<1> DEFINE T == {f[x] : x \in S}
           g == [x \in S |-> f[x]]
<1>1. g \in Bijection(S, T)
  BY DEF Bijection, Injection, Surjection, IsInjective
<1>2. ExistsBijection(S, T)
  BY <1>1 DEF ExistsBijection
<1> HIDE DEF T
<1>3. IsFiniteSet(T) /\ Cardinality(T) = Cardinality(S)
  BY <1>2, FS_Bijection
<1> QED
  BY <1>3 DEF T

LEMMA ImageFinite ==
  ASSUME NEW S, IsFiniteSet(S), NEW f, S \subseteq DOMAIN f
  PROVE  IsFiniteSet({f[x] : x \in S})
<1> DEFINE T == {f[x] : x \in S}
           g == [x \in S |-> f[x]]
<1>1. g \in Surjection(S, T)
  BY DEF Surjection
<1> HIDE DEF T, g
<1>2. IsFiniteSet(T)
  BY <1>1, FS_Surjection
<1> QED
  BY <1>2 DEF T


(* Sets of up to eight elements are finite.                                *)
LEMMA EightFinite == \A a, b, c, d, e, f, g, h : IsFiniteSet({a, b, c, d, e, f, g, h})
<1> TAKE a, b, c, d, e, f, g, h
<1>1. IsFiniteSet({a}) /\ IsFiniteSet({a} \cup {b})
  BY FS_Singleton, FS_AddElement
<1>2. IsFiniteSet({a} \cup {b} \cup {c})
  BY <1>1, FS_AddElement
<1>3. IsFiniteSet({a} \cup {b} \cup {c} \cup {d})
  BY <1>2, FS_AddElement
<1>4. IsFiniteSet({a} \cup {b} \cup {c} \cup {d} \cup {e})
  BY <1>3, FS_AddElement
<1>5. IsFiniteSet({a} \cup {b} \cup {c} \cup {d} \cup {e} \cup {f})
  BY <1>4, FS_AddElement
<1>6. IsFiniteSet({a} \cup {b} \cup {c} \cup {d} \cup {e} \cup {f} \cup {g})
  BY <1>5, FS_AddElement
<1>7. IsFiniteSet({a} \cup {b} \cup {c} \cup {d} \cup {e} \cup {f} \cup {g} \cup {h})
  BY <1>6, FS_AddElement
<1>8. {a, b, c, d, e, f, g, h}
        = {a} \cup {b} \cup {c} \cup {d} \cup {e} \cup {f} \cup {g} \cup {h}
  OBVIOUS
<1> QED
  BY <1>7, <1>8

(* What is recorded of an answer is finite.                                *)
LEMMA FewStrings ==
  /\ IsFiniteSet(AttributeConnectionType) /\ IsFiniteSet(AttributeMemoryType)
  /\ IsFiniteSet(AttributeOperation)
  /\ IsFiniteSet(DOMAIN operationsMap) /\ IsFiniteSet(DOMAIN documentMap)
  /\ IsFiniteSet(DOMAIN lockTypeMap) /\ IsFiniteSet(DOMAIN lockModeMap)
<1>1. IsFiniteSet(AttributeConnectionType)
  <2>1. IsFiniteSet({"active", "available", "current", "current", "current", "current",
                     "current", "current"})
    BY Zenon, EightFinite
  <2> QED
    BY <2>1 DEF AttributeConnectionType
<1>2. IsFiniteSet(AttributeMemoryType)
  <2>1. IsFiniteSet({"resident", "virtual", "virtual", "virtual", "virtual", "virtual",
                     "virtual", "virtual"})
    BY Zenon, EightFinite
  <2> QED
    BY <2>1 DEF AttributeMemoryType
<1>3. IsFiniteSet(AttributeOperation)
  <2>1. IsFiniteSet({"insert", "query", "update", "delete", "getmore", "command", "command",
                     "command"})
    BY Zenon, EightFinite
  <2> QED
    BY <2>1 DEF AttributeOperation
<1>4. IsFiniteSet(DOMAIN operationsMap)
  <2>1. IsFiniteSet({"insert", "queries", "update", "remove", "getmore", "commands",
                     "commands", "commands"})
    BY Zenon, EightFinite
  <2>2. DOMAIN operationsMap \subseteq {"insert", "queries", "update", "remove", "getmore",
                                       "commands", "commands", "commands"}
    BY DEF operationsMap
  <2> QED
    BY <2>1, <2>2, FS_Subset
<1>5. IsFiniteSet(DOMAIN documentMap)
  <2>1. IsFiniteSet({"inserted", "updated", "deleted", "deleted", "deleted", "deleted",
                     "deleted", "deleted"})
    BY Zenon, EightFinite
  <2>2. DOMAIN documentMap \subseteq {"inserted", "updated", "deleted", "deleted", "deleted",
                                     "deleted", "deleted", "deleted"}
    BY DEF documentMap
  <2> QED
    BY <2>1, <2>2, FS_Subset
<1>6. IsFiniteSet(DOMAIN lockTypeMap)
  <2>1. IsFiniteSet({"ParallelBatchWriterMode", "ReplicationStateTransition", "Global",
                     "Database", "Collection", "Mutex", "Metadata", "oplog"})
    BY Zenon, EightFinite
  <2>2. DOMAIN lockTypeMap \subseteq
          {"ParallelBatchWriterMode", "ReplicationStateTransition", "Global",
           "Database", "Collection", "Mutex", "Metadata", "oplog"}
    BY DEF lockTypeMap
  <2> QED
    BY <2>1, <2>2, FS_Subset
<1>7. IsFiniteSet(DOMAIN lockModeMap)
  <2>1. IsFiniteSet({"R", "W", "r", "w", "w", "w", "w", "w"})
    BY Zenon, EightFinite
  <2>2. DOMAIN lockModeMap \subseteq {"R", "W", "r", "w", "w", "w", "w", "w"}
    BY DEF lockModeMap
  <2> QED
    BY <2>1, <2>2, FS_Subset
<1> QED
  BY <1>1, <1>2, <1>3, <1>4, <1>5, <1>6, <1>7

LEMMA RecordFinite ==
  ASSUME NEW v, NEW db
  PROVE  /\ IsFiniteSet(recordDBStats(v, db))
         /\ IsFiniteSet(recordNormalServerStats(v, db))
         /\ IsFiniteSet(recordAdminStats(v))
         /\ IsFiniteSet(recordOperationTime)
<1>1. \A path, m, attributes : IsFiniteSet({Reading(path, m, attributes)})
  BY FS_Singleton
<1>2. IsFiniteSet({})
  BY FS_EmptySet
<1>3. IsFiniteSet(recordDBStats(v, db))
  <2>1. \A key, m : IsFiniteSet(PerDatabase(db, key, m))
    BY <1>1 DEF PerDatabase
  <2>2. /\ IsFiniteSet(recordCollections(db)) /\ IsFiniteSet(recordDataSize(db))
        /\ IsFiniteSet(recordExtentCount(v, db)) /\ IsFiniteSet(recordIndexSize(db))
        /\ IsFiniteSet(recordIndexCount(db)) /\ IsFiniteSet(recordObjectCount(db))
        /\ IsFiniteSet(recordStorageSize(db))
    BY <1>2, <2>1 DEF recordCollections, recordDataSize, recordExtentCount, recordIndexSize,
       recordIndexCount, recordObjectCount, recordStorageSize
  <2> QED
    BY <2>2, FS_Union DEF recordDBStats
<1>4. IsFiniteSet(recordOperationTime)
  <2> DEFINE f == [op \in DOMAIN operationsMap |->
                     Reading(<<"totals", op, "time">>, metricMongodbOperationTime,
                             [operation |-> operationsMap[op]])]
  <2>1. recordOperationTime = {f[op] : op \in DOMAIN operationsMap}
    BY DEF recordOperationTime
  <2>2. DOMAIN operationsMap \subseteq DOMAIN f
    OBVIOUS
  <2> HIDE DEF f
  <2> QED
    BY <2>1, <2>2, FewStrings, ImageFinite
<1>5. IsFiniteSet(recordAdminStats(v))
  <2>1. \A path, m : IsFiniteSet(PerServer(path, m))
    BY <1>1 DEF PerServer
  <2>2. IsFiniteSet(recordOperations)
    <3> DEFINE f == [op \in AttributeOperation |->
                       Reading(<<"opcounters", op>>, metricMongodbOperationCount,
                               [operation |-> op])]
    <3>1. recordOperations = {f[op] : op \in AttributeOperation}
      BY DEF recordOperations
    <3>2. AttributeOperation \subseteq DOMAIN f
      OBVIOUS
    <3> HIDE DEF f
    <3> QED
      BY <3>1, <3>2, FewStrings, ImageFinite
  <2>3. IsFiniteSet(recordCacheOperations(v))
    <3>1. \A x, y : IsFiniteSet({x, y})
      <4> TAKE x, y
      <4>1. IsFiniteSet({x} \cup {y})
        BY FS_Singleton, FS_AddElement
      <4>2. {x, y} = {x} \cup {y}
        OBVIOUS
      <4> QED
        BY <4>1, <4>2
    <3> QED
      BY <1>2, <3>1 DEF recordCacheOperations
  <2>4. /\ IsFiniteSet(recordCursorCount) /\ IsFiniteSet(recordCursorTimeoutCount)
        /\ IsFiniteSet(recordGlobalLockTime) /\ IsFiniteSet(recordSessionCount(v))
    BY <1>2, <2>1 DEF recordCursorCount, recordCursorTimeoutCount, recordGlobalLockTime,
       recordSessionCount
  <2>5. IsFiniteSet(recordNetworkCount)
    BY <2>1, FS_Union DEF recordNetworkCount
  <2> QED
    BY <2>2, <2>3, <2>4, <2>5, FS_Union DEF recordAdminStats
<1>6. IsFiniteSet(recordConnections(v, db))
  <2> DEFINE C == {c \in AttributeConnectionType : c = "active" => v >= 40}
             f == [ct \in C |-> Reading(<<"connections", ct>>, metricMongodbConnectionCount,
                                        [database |-> db, type |-> ct])]
  <2>1. recordConnections(v, db) = {f[ct] : ct \in C}
    BY DEF recordConnections
  <2>2. C \subseteq DOMAIN f /\ C \subseteq AttributeConnectionType
    OBVIOUS
  <2> HIDE DEF f, C
  <2>3. IsFiniteSet(C)
    BY <2>2, FewStrings, FS_Subset
  <2> QED
    BY <2>1, <2>2, <2>3, ImageFinite
<1>7. IsFiniteSet(recordMemoryUsage(db))
  <2> DEFINE f == [mt \in AttributeMemoryType |->
                     Reading(<<"mem", mt>>, metricMongodbMemoryUsage,
                             [database |-> db, type |-> mt])]
  <2>1. recordMemoryUsage(db) = {f[mt] : mt \in AttributeMemoryType}
    BY DEF recordMemoryUsage
  <2>2. AttributeMemoryType \subseteq DOMAIN f
    OBVIOUS
  <2> HIDE DEF f
  <2> QED
    BY <2>1, <2>2, FewStrings, ImageFinite
<1>8. IsFiniteSet(recordDocumentOperations(db))
  <2> DEFINE f == [op \in DOMAIN documentMap |->
                     Reading(<<"metrics", "document", op>>, metricMongodbDocumentOperationCount,
                             [database |-> db, operation |-> documentMap[op]])]
  <2>1. recordDocumentOperations(db) = {f[op] : op \in DOMAIN documentMap}
    BY DEF recordDocumentOperations
  <2>2. DOMAIN documentMap \subseteq DOMAIN f
    OBVIOUS
  <2> HIDE DEF f
  <2> QED
    BY <2>1, <2>2, FewStrings, ImageFinite
<1>9. \A key, m : IsFiniteSet(recordLocks(v, db, key, m))
  <2> TAKE key, m
  <2> DEFINE T == IF v < 32 THEN {} ELSE LockTypes(v)
             D == DOMAIN lockModeMap
             Of(type, mode) == Reading(<<"locks", type, key, mode>>, m,
                                       [database |-> db, lock_type |-> lockTypeMap[type],
                                        lock_mode |-> lockModeMap[mode]])
             f == [x \in T \X D |-> Of(x[1], x[2])]
  <2>1. recordLocks(v, db, key, m) = {Of(type, mode) : type \in T, mode \in D}
    BY DEF recordLocks
  <2>2. T \subseteq DOMAIN lockTypeMap
    BY DEF LockTypes
  <2>3. IsFiniteSet(T) /\ IsFiniteSet(D)
    <3>1. IsFiniteSet(D)
      BY FewStrings
    <3> HIDE DEF T
    <3> QED BY <2>2, <3>1, FewStrings, FS_Subset
  <2>4. ASSUME NEW r \in {Of(type, mode) : type \in T, mode \in D}
        PROVE  r \in {f[x] : x \in T \X D}
    <3> HIDE DEF T, D, Of
    <3>1. PICK t \in T, d \in D : r = Of(t, d)
      OBVIOUS
    <3>2. <<t, d>> \in T \X D /\ f[<<t, d>>] = Of(t, d)
      OBVIOUS
    <3> HIDE DEF f
    <3> QED
      BY <3>1, <3>2
  <2>5. T \X D \subseteq DOMAIN f
    <3> HIDE DEF T, D, Of
    <3> QED OBVIOUS
  <2> HIDE DEF T, D, Of, f
  <2>6. IsFiniteSet(T \X D)
    BY <2>3, FS_Product
  <2>7. IsFiniteSet({f[x] : x \in T \X D})
    BY <2>5, <2>6, ImageFinite
  <2>8. recordLocks(v, db, key, m) \subseteq {f[x] : x \in T \X D}
    BY <2>1, <2>4
  <2> QED
    BY <2>7, <2>8, FS_Subset
<1>10. IsFiniteSet(recordNormalServerStats(v, db))
  <2>1. /\ IsFiniteSet(recordLockAcquireCounts(v, db))
        /\ IsFiniteSet(recordLockAcquireWaitCounts(v, db))
        /\ IsFiniteSet(recordLockTimeAcquiringMicros(v, db))
        /\ IsFiniteSet(recordLockDeadlockCount(v, db))
    BY <1>9 DEF recordLockAcquireCounts, recordLockAcquireWaitCounts,
       recordLockTimeAcquiringMicros, recordLockDeadlockCount
  <2> QED
    BY <1>6, <1>7, <1>8, <2>1, FS_Union DEF recordNormalServerStats
<1> QED
  BY <1>3, <1>4, <1>5, <1>10


LEMMA PointsFinite == IsFiniteSet(Points)
<1>1. IsFiniteSet(ServerPoints)
  <2>1. IsFiniteSet({CountPoint} \cup {AdminPoint} \cup {TopPoint})
    BY FS_Singleton, FS_Union
  <2>2. ServerPoints = {CountPoint} \cup {AdminPoint} \cup {TopPoint}
    BY DEF ServerPoints
  <2> QED
    BY <2>1, <2>2
<1>2. IsFiniteSet(IndexPoints)
  <2> DEFINE f == [x \in Databases \X Collections |-> IndexPoint(x[1], x[2])]
  <2>1. IndexPoints \subseteq {f[x] : x \in Databases \X Collections}
    <3>1. \A db \in Databases, col \in Collections :
            /\ <<db, col>> \in Databases \X Collections
            /\ f[<<db, col>>] = IndexPoint(db, col)
      OBVIOUS
    <3> SUFFICES ASSUME NEW p \in IndexPoints PROVE p \in {f[x] : x \in Databases \X Collections}
      OBVIOUS
    <3>2. PICK db \in Databases, col \in Collections : p = IndexPoint(db, col)
      BY DEF IndexPoints
    <3> HIDE DEF f
    <3> QED
      BY <3>1, <3>2
  <2>2. Databases \X Collections \subseteq DOMAIN f
    OBVIOUS
  <2> HIDE DEF f
  <2>3. IsFiniteSet({f[x] : x \in Databases \X Collections})
    BY <2>2, ServerAssumption, FS_Product, ImageFinite
  <2> QED
    BY <2>1, <2>3, FS_Subset
<1>3. IsFiniteSet({StatsPoint(db) : db \in Databases})
  <2> DEFINE f == [db \in Databases |-> StatsPoint(db)]
  <2>1. {StatsPoint(db) : db \in Databases} = {f[db] : db \in Databases}
    OBVIOUS
  <2>2. Databases \subseteq DOMAIN f
    OBVIOUS
  <2> HIDE DEF f
  <2> QED
    BY <2>1, <2>2, ServerAssumption, ImageFinite
<1>4. IsFiniteSet({StatusPoint(db) : db \in Databases})
  <2> DEFINE f == [db \in Databases |-> StatusPoint(db)]
  <2>1. {StatusPoint(db) : db \in Databases} = {f[db] : db \in Databases}
    OBVIOUS
  <2>2. Databases \subseteq DOMAIN f
    OBVIOUS
  <2> HIDE DEF f
  <2> QED
    BY <2>1, <2>2, ServerAssumption, ImageFinite
<1> QED
  BY <1>1, <1>2, <1>3, <1>4, FS_Union DEF Points

LEMMA ReadingsFinite ==
  ASSUME NEW v, NEW p \in Points
  PROVE  IsFiniteSet(ReadingsOf(v, p))
<1>1. p.what \in Whats
  BY DEF Points, ServerPoints, IndexPoints, CountPoint, AdminPoint, TopPoint, StatsPoint,
         StatusPoint, IndexPoint, Whats
<1>2. IsFiniteSet(RecordDatabaseCount)
  BY FS_Singleton DEF RecordDatabaseCount, PerServer
<1>3. IsFiniteSet(recordIndexAccess(v, p.db, p.col))
  BY FS_Singleton, FS_EmptySet DEF recordIndexAccess
<1>4. /\ IsFiniteSet(recordDBStats(v, p.db)) /\ IsFiniteSet(recordNormalServerStats(v, p.db))
      /\ IsFiniteSet(recordAdminStats(v)) /\ IsFiniteSet(recordOperationTime)
  BY RecordFinite
<1> QED
  BY <1>1, <1>2, <1>3, <1>4 DEF Whats, ReadingsOf

(* MongoScraper's SeriesDistinct holds of whatever waits in the builder.   *)
LEMMA WaitingApart ==
  ASSUME NEW v \in Versions, NEW W \in SUBSET Points
  PROVE  LET pending == UNION {Readings[v][p] : p \in W}
         IN  Cardinality({<<r.reading.metric, r.reading.attributes>> : r \in pending})
               = Cardinality(pending)
<1> DEFINE ReadAt(p) == {[of |-> p, reading |-> r] : r \in ReadingsOf(v, p)}
           pending == UNION {Readings[v][p] : p \in W}
           f == [r \in pending |-> <<r.reading.metric, r.reading.attributes>>]
<1>1. \A p \in W : Readings[v][p] = ReadAt(p)
  BY DEF Readings
<1>2. IsFiniteSet(pending)
  <2> DEFINE g == [p \in W |-> Readings[v][p]]
  <2>1. IsFiniteSet(W)
    BY PointsFinite, FS_Subset
  <2>2. IsFiniteSet({g[p] : p \in W})
    <3>1. W \subseteq DOMAIN g
      OBVIOUS
    <3> HIDE DEF g
    <3> QED BY <2>1, <3>1, ImageFinite
  <2>3. {g[p] : p \in W} = {Readings[v][p] : p \in W}
    OBVIOUS
  <2>4. \A p \in W : IsFiniteSet(Readings[v][p])
    <3> TAKE p \in W
    <3> DEFINE h == [r \in ReadingsOf(v, p) |-> [of |-> p, reading |-> r]]
    <3>1. ReadAt(p) = {h[r] : r \in ReadingsOf(v, p)}
      OBVIOUS
    <3>2. ReadingsOf(v, p) \subseteq DOMAIN h
      OBVIOUS
    <3>3. IsFiniteSet(ReadingsOf(v, p))
      BY ReadingsFinite
    <3> HIDE DEF h
    <3>4. IsFiniteSet({h[r] : r \in ReadingsOf(v, p)})
      BY <3>2, <3>3, ImageFinite
    <3> HIDE DEF ReadAt
    <3> QED
      BY <1>1, <3>1, <3>4
  <2> HIDE DEF g
  <2>5. \A T \in {Readings[v][p] : p \in W} : IsFiniteSet(T)
    BY <2>4
  <2>6. IsFiniteSet({Readings[v][p] : p \in W})
    BY <2>2, <2>3
  <2> QED
    BY <2>5, <2>6, FS_UNION
<1>3. ASSUME NEW x \in pending, NEW y \in pending, f[x] = f[y] PROVE x = y
  <2>1. PICK p \in W : x \in ReadAt(p)
    BY <1>1
  <2>2. PICK q \in W : y \in ReadAt(q)
    BY <1>1
  <2>3. PICK a \in ReadingsOf(v, p) : x = [of |-> p, reading |-> a]
    BY <2>1
  <2>4. PICK b \in ReadingsOf(v, q) : y = [of |-> q, reading |-> b]
    BY <2>2
  <2>5. f[x] = <<a.metric, a.attributes>> /\ f[y] = <<b.metric, b.attributes>>
    <3>1. f[x] = <<x.reading.metric, x.reading.attributes>>
          /\ f[y] = <<y.reading.metric, y.reading.attributes>>
      OBVIOUS
    <3> HIDE DEF f, pending
    <3> QED BY <2>3, <2>4, <3>1
  <2>6. Collide(a, b)
    <3> HIDE DEF f, pending
    <3>1. <<a.metric, a.attributes>> = <<b.metric, b.attributes>>
      BY <1>3, <2>5
    <3> QED BY <3>1 DEF Collide
  <2>7. p = q /\ a = b
    BY <2>6, ReadingsApart
  <2> QED
    BY <2>3, <2>4, <2>7
<1>4. pending \subseteq DOMAIN f
  OBVIOUS
<1>5. {<<r.reading.metric, r.reading.attributes>> : r \in pending} = {f[r] : r \in pending}
  <2> HIDE DEF pending
  <2> QED OBVIOUS
<1> HIDE DEF f, pending
<1>6. Cardinality({f[r] : r \in pending}) = Cardinality(pending)
  BY <1>2, <1>3, <1>4, ImageSize
<1>7. Cardinality({<<r.reading.metric, r.reading.attributes>> : r \in pending})
        = Cardinality(pending)
  BY <1>5, <1>6
<1> QED
  BY <1>7 DEF pending

(* What waits in the builder tells every reading by its series.            *)
LEMMA MongoSeriesApart == Spec => []SeriesDistinct
<1>1. MongoInv => SeriesDistinct
  <2> SUFFICES ASSUME MongoInv, mongoVersion # NoVersion PROVE SeriesDistinct
    BY DEF SeriesDistinct
  <2>1. mongoVersion \in Versions /\ recorded \subseteq Points
    BY DEF MongoInv, TypeOK
  <2> QED
    BY <2>1, WaitingApart DEF SeriesDistinct
<1> QED
  BY <1>1, MongoInvAlways, PTL

-----------------------------------------------------------------------------
(***************************************************************************)
(* The varnish scraper.                                                    *)
(***************************************************************************)

(* The metric and the attribute under which a counter is recorded.         *)
CounterMetric(c) ==
  CASE c \in {"backend_conn", "backend_unhealthy", "backend_busy", "backend_fail",
              "backend_reuse", "backend_recycle", "backend_retry"}
         -> Varnish!metricVarnishBackendConnectionCount
    [] c \in {"cache_hit", "cache_hitpass", "cache_miss"}
         -> Varnish!metricVarnishCacheOperationCount
    [] c \in {"threads_created", "threads_destroyed", "threads_failed"}
         -> Varnish!metricVarnishThreadOperationCount
    [] c \in {"sess_conn", "sess_fail", "sess_dropped"} -> Varnish!metricVarnishSessionCount
    [] c \in {"client_req", "req_dropped"} -> Varnish!metricVarnishClientRequestCount
    [] c \in {"client_req_400", "client_req_417", "client_resp_500"}
         -> Varnish!metricVarnishClientRequestErrorCount
    [] c = "n_expired" -> Varnish!metricVarnishObjectExpired
    [] c = "n_lru_nuked" -> Varnish!metricVarnishObjectNuked
    [] c = "n_lru_moved" -> Varnish!metricVarnishObjectMoved
    [] c = "n_object" -> Varnish!metricVarnishObjectCount
    [] c = "backend_req" -> Varnish!metricVarnishBackendRequestCount

CounterAttribute(c) ==
  CASE c = "backend_conn" -> "success"
    [] c = "backend_recycle" -> "recycle"
    [] c = "backend_reuse" -> "reuse"
    [] c = "backend_fail" -> "fail"
    [] c = "backend_unhealthy" -> "unhealthy"
    [] c = "backend_busy" -> "busy"
    [] c = "backend_retry" -> "retry"
    [] c = "cache_hit" -> "hit"
    [] c = "cache_hitpass" -> "hit_pass"
    [] c = "cache_miss" -> "miss"
    [] c = "threads_created" -> "created"
    [] c = "threads_destroyed" -> "destroyed"
    [] c = "threads_failed" -> "failed"
    [] c = "sess_conn" -> "accepted"
    [] c = "sess_dropped" -> "dropped"
    [] c = "sess_fail" -> "failed"
    [] c = "client_req" -> "received"
    [] c = "req_dropped" -> "dropped"
    [] c = "client_req_400" -> "400"
    [] c = "client_req_417" -> "417"
    [] c = "client_resp_500" -> "500"
    [] OTHER -> ""

CounterSeries(c) ==
  [metric |-> CounterMetric(c), attribute |-> CounterAttribute(c), counter |-> c]

LEMMA VarnishNames ==
  /\ Varnish!metricVarnishBackendConnectionCount.name = "varnish.backend.connection.count"
  /\ Varnish!metricVarnishBackendRequestCount.name = "varnish.backend.request.count"
  /\ Varnish!metricVarnishCacheOperationCount.name = "varnish.cache.operation.count"
  /\ Varnish!metricVarnishClientRequestCount.name = "varnish.client.request.count"
  /\ Varnish!metricVarnishClientRequestErrorCount.name = "varnish.client.request.error.count"
  /\ Varnish!metricVarnishObjectCount.name = "varnish.object.count"
  /\ Varnish!metricVarnishObjectExpired.name = "varnish.object.expired"
  /\ Varnish!metricVarnishObjectMoved.name = "varnish.object.moved"
  /\ Varnish!metricVarnishObjectNuked.name = "varnish.object.nuked"
  /\ Varnish!metricVarnishSessionCount.name = "varnish.session.count"
  /\ Varnish!metricVarnishThreadOperationCount.name = "varnish.thread.operation.count"
BY DEF Varnish!Counter, Varnish!UpDownCounter,
       Varnish!metricVarnishBackendConnectionCount, Varnish!metricVarnishBackendRequestCount,
       Varnish!metricVarnishCacheOperationCount, Varnish!metricVarnishClientRequestCount,
       Varnish!metricVarnishClientRequestErrorCount, Varnish!metricVarnishObjectCount,
       Varnish!metricVarnishObjectExpired, Varnish!metricVarnishObjectMoved,
       Varnish!metricVarnishObjectNuked, Varnish!metricVarnishSessionCount,
       Varnish!metricVarnishThreadOperationCount

(* The record functions record the counters of Stats, each once.           *)
LEMMA RecordedIs == Varnish!Recorded = {CounterSeries(c) : c \in Varnish!Stats}
<1> DEFINE All == {CounterSeries(c) : c \in Varnish!Stats}
<1>1. ASSUME NEW s \in Varnish!Recorded PROVE s \in All
  <2>1. CASE s \in Varnish!recordVarnishBackendConnectionsCountDataPoint
    <3> DEFINE Of(a, c) == [metric |-> Varnish!metricVarnishBackendConnectionCount, attribute |-> a, counter |-> c]
    <3>1. \/ s = Of("success", "backend_conn")
          \/ s = Of("recycle", "backend_recycle")
          \/ s = Of("reuse", "backend_reuse")
          \/ s = Of("fail", "backend_fail")
          \/ s = Of("unhealthy", "backend_unhealthy")
          \/ s = Of("busy", "backend_busy")
          \/ s = Of("retry", "backend_retry")
      BY <2>1 DEF Varnish!recordVarnishBackendConnectionsCountDataPoint, Varnish!Series
    <3>2. /\ CounterSeries("backend_conn") = Of("success", "backend_conn")
          /\ CounterSeries("backend_recycle") = Of("recycle", "backend_recycle")
          /\ CounterSeries("backend_reuse") = Of("reuse", "backend_reuse")
          /\ CounterSeries("backend_fail") = Of("fail", "backend_fail")
          /\ CounterSeries("backend_unhealthy") = Of("unhealthy", "backend_unhealthy")
          /\ CounterSeries("backend_busy") = Of("busy", "backend_busy")
          /\ CounterSeries("backend_retry") = Of("retry", "backend_retry")
      BY DEF CounterSeries, CounterMetric, CounterAttribute
    <3>3. \E c \in Varnish!Stats : s = CounterSeries(c)
      <4> HIDE DEF Of
      <4> QED BY <3>1, <3>2 DEF Varnish!Stats
    <3> QED BY <3>3
  <2>2. CASE s \in Varnish!recordVarnishCacheOperationsCountDataPoint
    <3> DEFINE Of(a, c) == [metric |-> Varnish!metricVarnishCacheOperationCount, attribute |-> a, counter |-> c]
    <3>1. \/ s = Of("hit", "cache_hit")
          \/ s = Of("hit_pass", "cache_hitpass")
          \/ s = Of("miss", "cache_miss")
      BY <2>2 DEF Varnish!recordVarnishCacheOperationsCountDataPoint, Varnish!Series
    <3>2. /\ CounterSeries("cache_hit") = Of("hit", "cache_hit")
          /\ CounterSeries("cache_hitpass") = Of("hit_pass", "cache_hitpass")
          /\ CounterSeries("cache_miss") = Of("miss", "cache_miss")
      BY DEF CounterSeries, CounterMetric, CounterAttribute
    <3>3. \E c \in Varnish!Stats : s = CounterSeries(c)
      <4> HIDE DEF Of
      <4> QED BY <3>1, <3>2 DEF Varnish!Stats
    <3> QED BY <3>3
  <2>3. CASE s \in Varnish!recordVarnishThreadOperationsCountDataPoint
    <3> DEFINE Of(a, c) == [metric |-> Varnish!metricVarnishThreadOperationCount, attribute |-> a, counter |-> c]
    <3>1. \/ s = Of("created", "threads_created")
          \/ s = Of("destroyed", "threads_destroyed")
          \/ s = Of("failed", "threads_failed")
      BY <2>3 DEF Varnish!recordVarnishThreadOperationsCountDataPoint, Varnish!Series
    <3>2. /\ CounterSeries("threads_created") = Of("created", "threads_created")
          /\ CounterSeries("threads_destroyed") = Of("destroyed", "threads_destroyed")
          /\ CounterSeries("threads_failed") = Of("failed", "threads_failed")
      BY DEF CounterSeries, CounterMetric, CounterAttribute
    <3>3. \E c \in Varnish!Stats : s = CounterSeries(c)
      <4> HIDE DEF Of
      <4> QED BY <3>1, <3>2 DEF Varnish!Stats
    <3> QED BY <3>3
  <2>4. CASE s \in Varnish!recordVarnishSessionCountDataPoint
    <3> DEFINE Of(a, c) == [metric |-> Varnish!metricVarnishSessionCount, attribute |-> a, counter |-> c]
    <3>1. \/ s = Of("accepted", "sess_conn")
          \/ s = Of("dropped", "sess_dropped")
          \/ s = Of("failed", "sess_fail")
      BY <2>4 DEF Varnish!recordVarnishSessionCountDataPoint, Varnish!Series
    <3>2. /\ CounterSeries("sess_conn") = Of("accepted", "sess_conn")
          /\ CounterSeries("sess_dropped") = Of("dropped", "sess_dropped")
          /\ CounterSeries("sess_fail") = Of("failed", "sess_fail")
      BY DEF CounterSeries, CounterMetric, CounterAttribute
    <3>3. \E c \in Varnish!Stats : s = CounterSeries(c)
      <4> HIDE DEF Of
      <4> QED BY <3>1, <3>2 DEF Varnish!Stats
    <3> QED BY <3>3
  <2>5. CASE s \in Varnish!recordVarnishClientRequestsCountDataPoint
    <3> DEFINE Of(a, c) == [metric |-> Varnish!metricVarnishClientRequestCount, attribute |-> a, counter |-> c]
    <3>1. \/ s = Of("received", "client_req")
          \/ s = Of("dropped", "req_dropped")
      BY <2>5 DEF Varnish!recordVarnishClientRequestsCountDataPoint, Varnish!Series
    <3>2. /\ CounterSeries("client_req") = Of("received", "client_req")
          /\ CounterSeries("req_dropped") = Of("dropped", "req_dropped")
      BY DEF CounterSeries, CounterMetric, CounterAttribute
    <3>3. \E c \in Varnish!Stats : s = CounterSeries(c)
      <4> HIDE DEF Of
      <4> QED BY <3>1, <3>2 DEF Varnish!Stats
    <3> QED BY <3>3
  <2>6. CASE s \in Varnish!recordVarnishClientRequestErrorCountDataPoint
    <3> DEFINE Of(a, c) == [metric |-> Varnish!metricVarnishClientRequestErrorCount, attribute |-> a, counter |-> c]
    <3>1. \/ s = Of("400", "client_req_400")
          \/ s = Of("417", "client_req_417")
          \/ s = Of("500", "client_resp_500")
      BY <2>6 DEF Varnish!recordVarnishClientRequestErrorCountDataPoint, Varnish!Series
    <3>2. /\ CounterSeries("client_req_400") = Of("400", "client_req_400")
          /\ CounterSeries("client_req_417") = Of("417", "client_req_417")
          /\ CounterSeries("client_resp_500") = Of("500", "client_resp_500")
      BY DEF CounterSeries, CounterMetric, CounterAttribute
    <3>3. \E c \in Varnish!Stats : s = CounterSeries(c)
      <4> HIDE DEF Of
      <4> QED BY <3>1, <3>2 DEF Varnish!Stats
    <3> QED BY <3>3
  <2>7. CASE s \in Varnish!Plain(Varnish!metricVarnishObjectExpired, "n_expired")
                     \cup Varnish!Plain(Varnish!metricVarnishObjectNuked, "n_lru_nuked")
                     \cup Varnish!Plain(Varnish!metricVarnishObjectMoved, "n_lru_moved")
                     \cup Varnish!Plain(Varnish!metricVarnishObjectCount, "n_object")
                     \cup Varnish!Plain(Varnish!metricVarnishBackendRequestCount, "backend_req")
    <3> DEFINE Of(m, c) == [metric |-> m, attribute |-> "", counter |-> c]
    <3>1. \/ s = Of(Varnish!metricVarnishObjectExpired, "n_expired")
          \/ s = Of(Varnish!metricVarnishObjectNuked, "n_lru_nuked")
          \/ s = Of(Varnish!metricVarnishObjectMoved, "n_lru_moved")
          \/ s = Of(Varnish!metricVarnishObjectCount, "n_object")
          \/ s = Of(Varnish!metricVarnishBackendRequestCount, "backend_req")
      BY <2>7 DEF Varnish!Plain
    <3>2. /\ CounterSeries("n_expired") = Of(Varnish!metricVarnishObjectExpired, "n_expired")
          /\ CounterSeries("n_lru_nuked") = Of(Varnish!metricVarnishObjectNuked, "n_lru_nuked")
          /\ CounterSeries("n_lru_moved") = Of(Varnish!metricVarnishObjectMoved, "n_lru_moved")
          /\ CounterSeries("n_object") = Of(Varnish!metricVarnishObjectCount, "n_object")
          /\ CounterSeries("backend_req") = Of(Varnish!metricVarnishBackendRequestCount, "backend_req")
      BY DEF CounterSeries, CounterMetric, CounterAttribute
    <3>3. \E c \in Varnish!Stats : s = CounterSeries(c)
      <4> HIDE DEF Of
      <4> QED BY <3>1, <3>2 DEF Varnish!Stats
    <3> QED BY <3>3
  <2> QED
    BY <2>1, <2>2, <2>3, <2>4, <2>5, <2>6, <2>7 DEF Varnish!Recorded
<1>2. ASSUME NEW c \in Varnish!Stats PROVE CounterSeries(c) \in Varnish!Recorded
  <2>1. CASE c \in {"backend_conn", "backend_unhealthy", "backend_busy", "backend_fail",
                    "backend_reuse", "backend_recycle", "backend_retry"}
    <3>1. CounterSeries(c) \in Varnish!recordVarnishBackendConnectionsCountDataPoint
      BY <2>1 DEF Varnish!recordVarnishBackendConnectionsCountDataPoint, Varnish!Series,
         CounterSeries, CounterMetric, CounterAttribute
    <3> QED BY <3>1 DEF Varnish!Recorded
  <2>2. CASE c \in {"cache_hit", "cache_hitpass", "cache_miss"}
    <3>1. CounterSeries(c) \in Varnish!recordVarnishCacheOperationsCountDataPoint
      BY <2>2 DEF Varnish!recordVarnishCacheOperationsCountDataPoint, Varnish!Series,
         CounterSeries, CounterMetric, CounterAttribute
    <3> QED BY <3>1 DEF Varnish!Recorded
  <2>3. CASE c \in {"threads_created", "threads_destroyed", "threads_failed"}
    <3>1. CounterSeries(c) \in Varnish!recordVarnishThreadOperationsCountDataPoint
      BY <2>3 DEF Varnish!recordVarnishThreadOperationsCountDataPoint, Varnish!Series,
         CounterSeries, CounterMetric, CounterAttribute
    <3> QED BY <3>1 DEF Varnish!Recorded
  <2>4. CASE c \in {"sess_conn", "sess_fail", "sess_dropped"}
    <3>1. CounterSeries(c) \in Varnish!recordVarnishSessionCountDataPoint
      BY <2>4 DEF Varnish!recordVarnishSessionCountDataPoint, Varnish!Series,
         CounterSeries, CounterMetric, CounterAttribute
    <3> QED BY <3>1 DEF Varnish!Recorded
  <2>5. CASE c \in {"client_req", "req_dropped"}
    <3>1. CounterSeries(c) \in Varnish!recordVarnishClientRequestsCountDataPoint
      BY <2>5 DEF Varnish!recordVarnishClientRequestsCountDataPoint, Varnish!Series,
         CounterSeries, CounterMetric, CounterAttribute
    <3> QED BY <3>1 DEF Varnish!Recorded
  <2>6. CASE c \in {"client_req_400", "client_req_417", "client_resp_500"}
    <3>1. CounterSeries(c) \in Varnish!recordVarnishClientRequestErrorCountDataPoint
      BY <2>6 DEF Varnish!recordVarnishClientRequestErrorCountDataPoint, Varnish!Series,
         CounterSeries, CounterMetric, CounterAttribute
    <3> QED BY <3>1 DEF Varnish!Recorded
  <2>7. CASE c \in {"n_expired", "n_lru_nuked", "n_lru_moved", "n_object", "backend_req"}
    <3>1. CounterSeries(c) \in
            Varnish!Plain(Varnish!metricVarnishObjectExpired, "n_expired")
              \cup Varnish!Plain(Varnish!metricVarnishObjectNuked, "n_lru_nuked")
              \cup Varnish!Plain(Varnish!metricVarnishObjectMoved, "n_lru_moved")
              \cup Varnish!Plain(Varnish!metricVarnishObjectCount, "n_object")
              \cup Varnish!Plain(Varnish!metricVarnishBackendRequestCount, "backend_req")
      BY <2>7 DEF Varnish!Plain, CounterSeries, CounterMetric, CounterAttribute
    <3> QED BY <3>1 DEF Varnish!Recorded
  <2> QED
    BY <2>1, <2>2, <2>3, <2>4, <2>5, <2>6, <2>7 DEF Varnish!Stats
<1> QED
  BY <1>1, <1>2


(* Which counter is recorded under a name and an attribute.                *)
CounterAt(name, attribute) ==
  CASE name = "varnish.backend.connection.count" ->
         (CASE attribute = "success" -> "backend_conn"
            [] attribute = "recycle" -> "backend_recycle"
            [] attribute = "reuse" -> "backend_reuse"
            [] attribute = "fail" -> "backend_fail"
            [] attribute = "unhealthy" -> "backend_unhealthy"
            [] attribute = "busy" -> "backend_busy"
            [] attribute = "retry" -> "backend_retry")
    [] name = "varnish.cache.operation.count" ->
         (CASE attribute = "hit" -> "cache_hit"
            [] attribute = "hit_pass" -> "cache_hitpass"
            [] attribute = "miss" -> "cache_miss")
    [] name = "varnish.thread.operation.count" ->
         (CASE attribute = "created" -> "threads_created"
            [] attribute = "destroyed" -> "threads_destroyed"
            [] attribute = "failed" -> "threads_failed")
    [] name = "varnish.session.count" ->
         (CASE attribute = "accepted" -> "sess_conn"
            [] attribute = "dropped" -> "sess_dropped"
            [] attribute = "failed" -> "sess_fail")
    [] name = "varnish.client.request.count" ->
         (CASE attribute = "received" -> "client_req"
            [] attribute = "dropped" -> "req_dropped")
    [] name = "varnish.client.request.error.count" ->
         (CASE attribute = "400" -> "client_req_400"
            [] attribute = "417" -> "client_req_417"
            [] attribute = "500" -> "client_resp_500")
    [] name = "varnish.object.expired" -> "n_expired"
    [] name = "varnish.object.nuked" -> "n_lru_nuked"
    [] name = "varnish.object.moved" -> "n_lru_moved"
    [] name = "varnish.object.count" -> "n_object"
    [] name = "varnish.backend.request.count" -> "backend_req"

LEMMA CounterFound ==
  ASSUME NEW c \in Varnish!Stats
  PROVE  CounterAt(CounterMetric(c).name, CounterAttribute(c)) = c
<1>1. CASE c \in {"backend_conn", "backend_unhealthy", "backend_busy", "backend_fail",
                  "backend_reuse", "backend_recycle", "backend_retry"}
  <2>1. CounterMetric(c).name = "varnish.backend.connection.count"
    BY <1>1, VarnishNames DEF CounterMetric
  <2> QED BY <1>1, <2>1 DEF CounterAt, CounterAttribute
<1>2. CASE c \in {"cache_hit", "cache_hitpass", "cache_miss"}
  <2>1. CounterMetric(c).name = "varnish.cache.operation.count"
    BY <1>2, VarnishNames DEF CounterMetric
  <2> QED BY <1>2, <2>1 DEF CounterAt, CounterAttribute
<1>3. CASE c \in {"threads_created", "threads_destroyed", "threads_failed"}
  <2>1. CounterMetric(c).name = "varnish.thread.operation.count"
    BY <1>3, VarnishNames DEF CounterMetric
  <2> QED BY <1>3, <2>1 DEF CounterAt, CounterAttribute
<1>4. CASE c \in {"sess_conn", "sess_fail", "sess_dropped"}
  <2>1. CounterMetric(c).name = "varnish.session.count"
    BY <1>4, VarnishNames DEF CounterMetric
  <2> QED BY <1>4, <2>1 DEF CounterAt, CounterAttribute
<1>5. CASE c \in {"client_req", "req_dropped"}
  <2>1. CounterMetric(c).name = "varnish.client.request.count"
    BY <1>5, VarnishNames DEF CounterMetric
  <2> QED BY <1>5, <2>1 DEF CounterAt, CounterAttribute
<1>6. CASE c \in {"client_req_400", "client_req_417", "client_resp_500"}
  <2>1. CounterMetric(c).name = "varnish.client.request.error.count"
    BY <1>6, VarnishNames DEF CounterMetric
  <2> QED BY <1>6, <2>1 DEF CounterAt, CounterAttribute
<1>7. CASE c \in {"n_expired", "n_lru_nuked", "n_lru_moved", "n_object", "backend_req"}
  <2>1. CounterMetric(c).name =
          CASE c = "n_expired" -> "varnish.object.expired"
            [] c = "n_lru_nuked" -> "varnish.object.nuked"
            [] c = "n_lru_moved" -> "varnish.object.moved"
            [] c = "n_object" -> "varnish.object.count"
            [] c = "backend_req" -> "varnish.backend.request.count"
    BY <1>7, VarnishNames DEF CounterMetric
  <2> QED BY <1>7, <2>1 DEF CounterAt
<1> QED
  BY <1>1, <1>2, <1>3, <1>4, <1>5, <1>6, <1>7 DEF Varnish!Stats

LEMMA CountersFinite == IsFiniteSet(Varnish!Stats)
<1> DEFINE A == {"backend_conn", "backend_unhealthy", "backend_busy", "backend_fail",
                 "backend_reuse", "backend_recycle", "backend_retry", "cache_hit"}
           B == {"cache_hitpass", "cache_miss", "threads_created", "threads_destroyed",
                 "threads_failed", "sess_conn", "sess_fail", "sess_dropped"}
           C == {"req_dropped", "n_object", "n_expired", "n_lru_nuked", "n_lru_moved",
                 "client_req_400", "client_req_417", "client_resp_500"}
           D == {"client_req", "backend_req", "backend_req", "backend_req", "backend_req",
                 "backend_req", "backend_req", "backend_req"}
<1>1. IsFiniteSet(A)
  BY Zenon, EightFinite
<1>2. IsFiniteSet(B)
  BY Zenon, EightFinite
<1>3. IsFiniteSet(C)
  BY Zenon, EightFinite
<1>4. IsFiniteSet(D)
  BY Zenon, EightFinite
<1>5. Varnish!Stats = A \cup B \cup C \cup D
  BY DEF Varnish!Stats
<1> HIDE DEF A, B, C, D
<1> QED
  BY <1>1, <1>2, <1>3, <1>4, <1>5, FS_Union

LEMMA SameVarnishCardinality == \A S : Varnish!Cardinality(S) = Cardinality(S)
BY DEF Varnish!Cardinality, Cardinality

(* Every counter has a series of its own.                                  *)
LEMMA CountersApart ==
  /\ {s.counter : s \in Varnish!Recorded} = Varnish!Stats
  /\ Cardinality(Varnish!Recorded) = Cardinality(Varnish!Stats)
  /\ Cardinality({<<s.metric, s.attribute>> : s \in Varnish!Recorded})
       = Cardinality(Varnish!Stats)
<1> DEFINE S == Varnish!Stats
           f == [c \in S |-> CounterSeries(c)]
           g == [c \in S |-> <<CounterMetric(c), CounterAttribute(c)>>]
<1>1. /\ \A c \in S : f[c] = CounterSeries(c)
      /\ \A c \in S : g[c] = <<CounterMetric(c), CounterAttribute(c)>>
      /\ S \subseteq DOMAIN f /\ S \subseteq DOMAIN g
  OBVIOUS
<1>2. \A c : /\ CounterSeries(c).counter = c
             /\ CounterSeries(c).metric = CounterMetric(c)
             /\ CounterSeries(c).attribute = CounterAttribute(c)
  BY DEF CounterSeries
<1>3. IsFiniteSet(S)
  BY CountersFinite
<1>4. \A c \in S : CounterAt(CounterMetric(c).name, CounterAttribute(c)) = c
  BY CounterFound
<1>5. Varnish!Recorded = {CounterSeries(c) : c \in S}
  BY RecordedIs
<1> HIDE DEF S, f, g
<1>6. {s.counter : s \in Varnish!Recorded} = S
  BY <1>2, <1>5
<1>7. Cardinality(Varnish!Recorded) = Cardinality(S)
  <2>1. \A x, y \in S : f[x] = f[y] => x = y
    BY <1>1, <1>2
  <2>2. Cardinality({f[c] : c \in S}) = Cardinality(S)
    BY <1>1, <1>3, <2>1, ImageSize
  <2>3. Varnish!Recorded = {f[c] : c \in S}
    BY <1>1, <1>5
  <2> QED
    BY <2>2, <2>3
<1>8. Cardinality({<<s.metric, s.attribute>> : s \in Varnish!Recorded}) = Cardinality(S)
  <2>1. ASSUME NEW x \in S, NEW y \in S, g[x] = g[y] PROVE x = y
    <3>1. <<CounterMetric(x), CounterAttribute(x)>> = <<CounterMetric(y), CounterAttribute(y)>>
      BY <1>1, <2>1
    <3>2. CounterMetric(x) = CounterMetric(y) /\ CounterAttribute(x) = CounterAttribute(y)
      BY <3>1
    <3> QED
      BY <1>4, <3>2
  <2>2. Cardinality({g[c] : c \in S}) = Cardinality(S)
    BY <1>1, <1>3, <2>1, ImageSize
  <2>3. {<<s.metric, s.attribute>> : s \in Varnish!Recorded} = {g[c] : c \in S}
    <3>1. ASSUME NEW s \in Varnish!Recorded PROVE \E c \in S : <<s.metric, s.attribute>> = g[c]
      BY <1>1, <1>2, <1>5
    <3>2. ASSUME NEW c \in S PROVE \E s \in Varnish!Recorded : <<s.metric, s.attribute>> = g[c]
      BY <1>1, <1>2, <1>5
    <3> QED
      BY <3>1, <3>2
  <2> QED
    BY <2>2, <2>3
<1> QED
  BY <1>6, <1>7, <1>8 DEF S

(* A scrape reports what is recorded, all of it: newVarnishScraper does    *)
(* not ask the user's configuration.                                       *)
VarnishInv ==
  /\ mbConfig = Varnish!VarnishDefaultMetricsConfig
  /\ result.points = {} \/ {p.series : p \in result.points} = Varnish!Recorded

LEMMA AllReported ==
  ASSUME mbConfig = Varnish!VarnishDefaultMetricsConfig
  PROVE  Varnish!Reported = Varnish!Recorded
<1> SUFFICES ASSUME NEW s \in Varnish!Recorded PROVE mbConfig[s.metric].enabled
  BY DEF Varnish!Reported
<1>1. PICK c \in Varnish!Stats : s = CounterSeries(c)
  BY RecordedIs
<1>2. CounterMetric(c) \in Varnish!VarnishMetricsInfo
  BY DEF CounterMetric, Varnish!Stats, Varnish!VarnishMetricsInfo
<1>3. s.metric \in Varnish!VarnishMetricsInfo
  BY <1>1, <1>2 DEF CounterSeries
<1> QED
  BY <1>3 DEF Varnish!VarnishDefaultMetricsConfig, Varnish!DefaultConfig

LEMMA VarnishInvAlways == Varnish!Spec => []VarnishInv
<1>1. Varnish!Init => VarnishInv
  <2> SUFFICES ASSUME Varnish!Init PROVE VarnishInv
    OBVIOUS
  <2>1. mbConfig = Varnish!VarnishDefaultMetricsConfig
    BY Zenon DEF Varnish!Init, Varnish!newVarnishScraper
  <2>2. result.points = {}
    BY DEF Varnish!Init, Varnish!NoPoints
  <2> QED
    BY <2>1, <2>2 DEF VarnishInv
<1>2. ASSUME VarnishInv, [Varnish!Next]_(Varnish!vars) PROVE VarnishInv'
  <2>1. CASE Varnish!Start \/ UNCHANGED Varnish!vars
    BY <1>2, <2>1 DEF Varnish!Start, Varnish!vars, VarnishInv
  <2>2. CASE Varnish!ScrapeFails
    BY <1>2, <2>2 DEF Varnish!ScrapeFails, Varnish!NoPoints, VarnishInv
  <2>3. CASE Varnish!Scrape
    <3>1. PICK absent : result'.points = {Varnish!Point(s, absent) : s \in Varnish!Reported}
      BY <2>3 DEF Varnish!Scrape
    <3>2. \A s : Varnish!Point(s, absent).series = s
      BY DEF Varnish!Point
    <3>3. Varnish!Reported = Varnish!Recorded
      BY <1>2, AllReported DEF VarnishInv
    <3>4. {p.series : p \in result'.points} = Varnish!Recorded
      BY <3>1, <3>2, <3>3
    <3>5. mbConfig' = mbConfig
      BY <2>3 DEF Varnish!Scrape
    <3> QED
      BY <1>2, <3>4, <3>5 DEF VarnishInv
  <2> QED
    BY <1>2, <2>1, <2>2, <2>3 DEF Varnish!Next
<1> QED
  BY <1>1, <1>2, PTL DEF Varnish!Spec

LEMMA ComposedIsVarnish == MCSpec => Varnish!Spec
<1>1. MCInit => Varnish!Init
  BY DEF MCInit
<1>2. [MCNext]_<<scenario, vars, varnishVars, dcgmVars, nvmlVars, builderVars>>
        => [Varnish!Next]_(Varnish!vars)
  BY DEF MCNext, varnishVars, Varnish!vars
<1> QED
  BY <1>1, <1>2, PTL DEF MCSpec, Varnish!Spec

LEMMA VarnishSeriesApart == MCSpec => []Varnish!SeriesDistinct
<1>1. VarnishInv => Varnish!SeriesDistinct
  <2> SUFFICES ASSUME VarnishInv, result.points # {} PROVE Varnish!SeriesDistinct
    BY DEF Varnish!SeriesDistinct
  <2>1. {p.series : p \in result.points} = Varnish!Recorded
    BY DEF VarnishInv
  <2> QED
    BY <2>1, CountersApart, SameVarnishCardinality DEF Varnish!SeriesDistinct
<1> QED
  BY <1>1, ComposedIsVarnish, VarnishInvAlways, PTL

-----------------------------------------------------------------------------
(***************************************************************************)
(* The series of the dcgm scraper.                                         *)
(***************************************************************************)

LEMMA DcgmNames ==
  /\ Dcgm!metricGpuDcgmUtilization.name = "gpu.dcgm.utilization"
  /\ Dcgm!metricGpuDcgmSmUtilization.name = "gpu.dcgm.sm.utilization"
  /\ Dcgm!metricGpuDcgmSmOccupancy.name = "gpu.dcgm.sm.occupancy"
  /\ Dcgm!metricGpuDcgmPipeUtilization.name = "gpu.dcgm.pipe.utilization"
  /\ Dcgm!metricGpuDcgmCodecEncoderUtilization.name = "gpu.dcgm.codec.encoder.utilization"
  /\ Dcgm!metricGpuDcgmCodecDecoderUtilization.name = "gpu.dcgm.codec.decoder.utilization"
  /\ Dcgm!metricGpuDcgmMemoryBytesUsed.name = "gpu.dcgm.memory.bytes_used"
  /\ Dcgm!metricGpuDcgmMemoryBandwidthUtilization.name = "gpu.dcgm.memory.bandwidth_utilization"
  /\ Dcgm!metricGpuDcgmPcieIo.name = "gpu.dcgm.pcie.io"
  /\ Dcgm!metricGpuDcgmNvlinkIo.name = "gpu.dcgm.nvlink.io"
  /\ Dcgm!metricGpuDcgmEnergyConsumption.name = "gpu.dcgm.energy_consumption"
  /\ Dcgm!metricGpuDcgmTemperature.name = "gpu.dcgm.temperature"
  /\ Dcgm!metricGpuDcgmClockFrequency.name = "gpu.dcgm.clock.frequency"
  /\ Dcgm!metricGpuDcgmClockThrottleDurationTime.name = "gpu.dcgm.clock.throttle_duration.time"
  /\ Dcgm!metricGpuDcgmEccErrors.name = "gpu.dcgm.ecc_errors"
  /\ Dcgm!metricGpuDcgmXidErrors.name = "gpu.dcgm.xid_errors"
BY DEF Dcgm!Gauge, Dcgm!Counter,
       Dcgm!metricGpuDcgmUtilization,
       Dcgm!metricGpuDcgmSmUtilization,
       Dcgm!metricGpuDcgmSmOccupancy,
       Dcgm!metricGpuDcgmPipeUtilization,
       Dcgm!metricGpuDcgmCodecEncoderUtilization,
       Dcgm!metricGpuDcgmCodecDecoderUtilization,
       Dcgm!metricGpuDcgmMemoryBytesUsed,
       Dcgm!metricGpuDcgmMemoryBandwidthUtilization,
       Dcgm!metricGpuDcgmPcieIo,
       Dcgm!metricGpuDcgmNvlinkIo,
       Dcgm!metricGpuDcgmEnergyConsumption,
       Dcgm!metricGpuDcgmTemperature,
       Dcgm!metricGpuDcgmClockFrequency,
       Dcgm!metricGpuDcgmClockThrottleDurationTime,
       Dcgm!metricGpuDcgmEccErrors,
       Dcgm!metricGpuDcgmXidErrors

(* The sources of a record call, which its series tells.                   *)
SourcesOf(name, w) ==
  CASE name = "gpu.dcgm.utilization" ->
           <<Dcgm!LastValue(Dcgm!Field("GR_ENGINE_ACTIVE")),
             Dcgm!LastValue(Dcgm!Field("GPU_UTIL"))>>
    [] name = "gpu.dcgm.sm.utilization" ->
           <<Dcgm!LastValue(Dcgm!Field("SM_ACTIVE"))>>
    [] name = "gpu.dcgm.sm.occupancy" ->
           <<Dcgm!LastValue(Dcgm!Field("SM_OCCUPANCY"))>>
    [] name = "gpu.dcgm.pipe.utilization" ->
           <<Dcgm!LastValue(Dcgm!Member("PIPE_ACTIVE", w))>>
    [] name = "gpu.dcgm.codec.encoder.utilization" ->
           <<Dcgm!LastValue(Dcgm!Field("ENC_UTIL"))>>
    [] name = "gpu.dcgm.codec.decoder.utilization" ->
           <<Dcgm!LastValue(Dcgm!Field("DEC_UTIL"))>>
    [] name = "gpu.dcgm.memory.bytes_used" ->
           <<Dcgm!LastValue(Dcgm!Member("FB", w))>>
    [] name = "gpu.dcgm.memory.bandwidth_utilization" ->
           <<Dcgm!LastValue(Dcgm!Field("DRAM_ACTIVE")),
             Dcgm!LastValue(Dcgm!Field("MEM_COPY_UTIL"))>>
    [] name = "gpu.dcgm.pcie.io" ->
           <<Dcgm!IntegratedRate(Dcgm!Member("PCIE_BYTES", w))>>
    [] name = "gpu.dcgm.nvlink.io" ->
           <<Dcgm!IntegratedRate(Dcgm!Member("NVLINK_BYTES", w))>>
    [] name = "gpu.dcgm.energy_consumption" ->
           <<Dcgm!CumulativeTotal(Dcgm!Field("TOTAL_ENERGY_CONSUMPTION")),
             Dcgm!IntegratedRate(Dcgm!Field("POWER_USAGE"))>>
    [] name = "gpu.dcgm.temperature" ->
           <<Dcgm!LastValue(Dcgm!Field("GPU_TEMP"))>>
    [] name = "gpu.dcgm.clock.frequency" ->
           <<Dcgm!LastValue(Dcgm!Field("SM_CLOCK"))>>
    [] name = "gpu.dcgm.clock.throttle_duration.time" ->
           <<Dcgm!CumulativeTotal(Dcgm!Member("VIOLATION", w))>>
    [] name = "gpu.dcgm.ecc_errors" ->
           <<Dcgm!CumulativeTotal(Dcgm!Member("ECC_VOL_TOTAL", w))>>

CallIs(c) ==
  /\ c = [metric |-> c.metric, attribute |-> c.attribute, sources |-> c.sources]
  /\ c.sources = SourcesOf(c.metric.name, c.attribute)

(* Every call reads the fields that its metric asks for, and no others.    *)
LEMMA CallFields ==
  ASSUME NEW m, NEW a, NEW q
  PROVE  /\ Dcgm!Call(m, a, q).metric = m
         /\ Dcgm!Call(m, a, q).attribute = a
         /\ Dcgm!Call(m, a, q).sources = q
         /\ Dcgm!Call(m, a, q) = [metric |-> m, attribute |-> a, sources |-> q]
BY DEF Dcgm!Call

LEMMA CallMade ==
  ASSUME NEW m, NEW a, NEW q, q = SourcesOf(m.name, a)
  PROVE  CallIs(Dcgm!Call(m, a, q))
BY CallFields DEF CallIs

LEMMA CallsAre == \A c \in Dcgm!Calls : CallIs(c)
<1> SUFFICES ASSUME NEW c \in Dcgm!Calls PROVE CallIs(c)
  OBVIOUS
<1>1. CASE c \in Dcgm!UtilizationCalls
  <2>1. CASE c = Dcgm!Call(Dcgm!metricGpuDcgmUtilization, "",
                  <<Dcgm!LastValue(Dcgm!Field("GR_ENGINE_ACTIVE")),
                    Dcgm!LastValue(Dcgm!Field("GPU_UTIL"))>>)
    <3>1. SourcesOf(Dcgm!metricGpuDcgmUtilization.name, "") =
            <<Dcgm!LastValue(Dcgm!Field("GR_ENGINE_ACTIVE")),
              Dcgm!LastValue(Dcgm!Field("GPU_UTIL"))>>
      BY DcgmNames DEF SourcesOf
    <3> QED
      BY <2>1, <3>1, Zenon, CallMade
  <2>2. CASE c = Dcgm!Call(Dcgm!metricGpuDcgmSmUtilization, "",
                  <<Dcgm!LastValue(Dcgm!Field("SM_ACTIVE"))>>)
    <3>1. SourcesOf(Dcgm!metricGpuDcgmSmUtilization.name, "") =
            <<Dcgm!LastValue(Dcgm!Field("SM_ACTIVE"))>>
      BY DcgmNames DEF SourcesOf
    <3> QED
      BY <2>2, <3>1, Zenon, CallMade
  <2>3. CASE c = Dcgm!Call(Dcgm!metricGpuDcgmSmOccupancy, "",
                  <<Dcgm!LastValue(Dcgm!Field("SM_OCCUPANCY"))>>)
    <3>1. SourcesOf(Dcgm!metricGpuDcgmSmOccupancy.name, "") =
            <<Dcgm!LastValue(Dcgm!Field("SM_OCCUPANCY"))>>
      BY DcgmNames DEF SourcesOf
    <3> QED
      BY <2>3, <3>1, Zenon, CallMade
  <2>4. CASE c = Dcgm!Call(Dcgm!metricGpuDcgmCodecEncoderUtilization, "",
                  <<Dcgm!LastValue(Dcgm!Field("ENC_UTIL"))>>)
    <3>1. SourcesOf(Dcgm!metricGpuDcgmCodecEncoderUtilization.name, "") =
            <<Dcgm!LastValue(Dcgm!Field("ENC_UTIL"))>>
      BY DcgmNames DEF SourcesOf
    <3> QED
      BY <2>4, <3>1, Zenon, CallMade
  <2>5. CASE c = Dcgm!Call(Dcgm!metricGpuDcgmCodecDecoderUtilization, "",
                  <<Dcgm!LastValue(Dcgm!Field("DEC_UTIL"))>>)
    <3>1. SourcesOf(Dcgm!metricGpuDcgmCodecDecoderUtilization.name, "") =
            <<Dcgm!LastValue(Dcgm!Field("DEC_UTIL"))>>
      BY DcgmNames DEF SourcesOf
    <3> QED
      BY <2>5, <3>1, Zenon, CallMade
  <2>6. ASSUME NEW w \in Dcgm!AttributeGpuPipe,
               c = Dcgm!Call(Dcgm!metricGpuDcgmPipeUtilization, w,
                     <<Dcgm!LastValue(Dcgm!Member("PIPE_ACTIVE", w))>>)
        PROVE  CallIs(c)
    <3>1. SourcesOf(Dcgm!metricGpuDcgmPipeUtilization.name, w) =
            <<Dcgm!LastValue(Dcgm!Member("PIPE_ACTIVE", w))>>
      BY DcgmNames DEF SourcesOf
    <3> QED
      BY <2>6, <3>1, Zenon, CallMade
  <2> QED
    BY <1>1, Zenon, <2>1, <2>2, <2>3, <2>4, <2>5, <2>6 DEF Dcgm!UtilizationCalls
<1>2. CASE c \in Dcgm!MemoryCalls
  <2>1. ASSUME NEW w \in Dcgm!AttributeGpuMemoryState,
               c = Dcgm!Call(Dcgm!metricGpuDcgmMemoryBytesUsed, w,
                     <<Dcgm!LastValue(Dcgm!Member("FB", w))>>)
        PROVE  CallIs(c)
    <3>1. SourcesOf(Dcgm!metricGpuDcgmMemoryBytesUsed.name, w) =
            <<Dcgm!LastValue(Dcgm!Member("FB", w))>>
      BY DcgmNames DEF SourcesOf
    <3> QED
      BY <2>1, <3>1, Zenon, CallMade
  <2>2. CASE c = Dcgm!Call(Dcgm!metricGpuDcgmMemoryBandwidthUtilization, "",
                  <<Dcgm!LastValue(Dcgm!Field("DRAM_ACTIVE")),
                    Dcgm!LastValue(Dcgm!Field("MEM_COPY_UTIL"))>>)
    <3>1. SourcesOf(Dcgm!metricGpuDcgmMemoryBandwidthUtilization.name, "") =
            <<Dcgm!LastValue(Dcgm!Field("DRAM_ACTIVE")),
              Dcgm!LastValue(Dcgm!Field("MEM_COPY_UTIL"))>>
      BY DcgmNames DEF SourcesOf
    <3> QED
      BY <2>2, <3>1, Zenon, CallMade
  <2> QED
    BY <1>2, Zenon, <2>1, <2>2 DEF Dcgm!MemoryCalls
<1>3. CASE c \in Dcgm!IoCalls
  <2>1. ASSUME NEW w \in Dcgm!AttributeNetworkIoDirection,
               c = Dcgm!Call(Dcgm!metricGpuDcgmPcieIo, w,
                     <<Dcgm!IntegratedRate(Dcgm!Member("PCIE_BYTES", w))>>)
        PROVE  CallIs(c)
    <3>1. SourcesOf(Dcgm!metricGpuDcgmPcieIo.name, w) =
            <<Dcgm!IntegratedRate(Dcgm!Member("PCIE_BYTES", w))>>
      BY DcgmNames DEF SourcesOf
    <3> QED
      BY <2>1, <3>1, Zenon, CallMade
  <2>2. ASSUME NEW w \in Dcgm!AttributeNetworkIoDirection,
               c = Dcgm!Call(Dcgm!metricGpuDcgmNvlinkIo, w,
                     <<Dcgm!IntegratedRate(Dcgm!Member("NVLINK_BYTES", w))>>)
        PROVE  CallIs(c)
    <3>1. SourcesOf(Dcgm!metricGpuDcgmNvlinkIo.name, w) =
            <<Dcgm!IntegratedRate(Dcgm!Member("NVLINK_BYTES", w))>>
      BY DcgmNames DEF SourcesOf
    <3> QED
      BY <2>2, <3>1, Zenon, CallMade
  <2> QED
    BY <1>3, Zenon, <2>1, <2>2 DEF Dcgm!IoCalls
<1>4. CASE c \in Dcgm!PowerCalls
  <2>1. CASE c = Dcgm!Call(Dcgm!metricGpuDcgmEnergyConsumption, "",
                  <<Dcgm!CumulativeTotal(Dcgm!Field("TOTAL_ENERGY_CONSUMPTION")),
                    Dcgm!IntegratedRate(Dcgm!Field("POWER_USAGE"))>>)
    <3>1. SourcesOf(Dcgm!metricGpuDcgmEnergyConsumption.name, "") =
            <<Dcgm!CumulativeTotal(Dcgm!Field("TOTAL_ENERGY_CONSUMPTION")),
              Dcgm!IntegratedRate(Dcgm!Field("POWER_USAGE"))>>
      BY DcgmNames DEF SourcesOf
    <3> QED
      BY <2>1, <3>1, Zenon, CallMade
  <2>2. CASE c = Dcgm!Call(Dcgm!metricGpuDcgmTemperature, "",
                  <<Dcgm!LastValue(Dcgm!Field("GPU_TEMP"))>>)
    <3>1. SourcesOf(Dcgm!metricGpuDcgmTemperature.name, "") =
            <<Dcgm!LastValue(Dcgm!Field("GPU_TEMP"))>>
      BY DcgmNames DEF SourcesOf
    <3> QED
      BY <2>2, <3>1, Zenon, CallMade
  <2>3. CASE c = Dcgm!Call(Dcgm!metricGpuDcgmClockFrequency, "",
                  <<Dcgm!LastValue(Dcgm!Field("SM_CLOCK"))>>)
    <3>1. SourcesOf(Dcgm!metricGpuDcgmClockFrequency.name, "") =
            <<Dcgm!LastValue(Dcgm!Field("SM_CLOCK"))>>
      BY DcgmNames DEF SourcesOf
    <3> QED
      BY <2>3, <3>1, Zenon, CallMade
  <2> QED
    BY <1>4, Zenon, <2>1, <2>2, <2>3 DEF Dcgm!PowerCalls
<1>5. CASE c \in Dcgm!ViolationCalls
  <2>1. ASSUME NEW w \in Dcgm!AttributeGpuClockViolation,
               c = Dcgm!Call(Dcgm!metricGpuDcgmClockThrottleDurationTime, w,
                     <<Dcgm!CumulativeTotal(Dcgm!Member("VIOLATION", w))>>)
        PROVE  CallIs(c)
    <3>1. SourcesOf(Dcgm!metricGpuDcgmClockThrottleDurationTime.name, w) =
            <<Dcgm!CumulativeTotal(Dcgm!Member("VIOLATION", w))>>
      BY DcgmNames DEF SourcesOf
    <3> QED
      BY <2>1, <3>1, Zenon, CallMade
  <2> QED
    BY <1>5, Zenon, <2>1 DEF Dcgm!ViolationCalls
<1>6. CASE c \in Dcgm!EccCalls
  <2>1. ASSUME NEW w \in Dcgm!AttributeGpuErrorType,
               c = Dcgm!Call(Dcgm!metricGpuDcgmEccErrors, w,
                     <<Dcgm!CumulativeTotal(Dcgm!Member("ECC_VOL_TOTAL", w))>>)
        PROVE  CallIs(c)
    <3>1. SourcesOf(Dcgm!metricGpuDcgmEccErrors.name, w) =
            <<Dcgm!CumulativeTotal(Dcgm!Member("ECC_VOL_TOTAL", w))>>
      BY DcgmNames DEF SourcesOf
    <3> QED
      BY <2>1, <3>1, Zenon, CallMade
  <2> QED
    BY <1>6, Zenon, <2>1 DEF Dcgm!EccCalls
<1> QED
  BY <1>1, <1>2, <1>3, <1>4, <1>5, <1>6 DEF Dcgm!Calls


(* What discoverRequestedFields asks for, for one metric.                  *)
LEMMA RequestedAre ==
  /\ Dcgm!RequestedFields(Dcgm!metricGpuDcgmUtilization) =
       {Dcgm!Field("GR_ENGINE_ACTIVE"), Dcgm!Field("GPU_UTIL")}
  /\ Dcgm!RequestedFields(Dcgm!metricGpuDcgmSmUtilization) =
       {Dcgm!Field("SM_ACTIVE")}
  /\ Dcgm!RequestedFields(Dcgm!metricGpuDcgmSmOccupancy) =
       {Dcgm!Field("SM_OCCUPANCY")}
  /\ Dcgm!RequestedFields(Dcgm!metricGpuDcgmPipeUtilization) =
       {Dcgm!Member("PIPE_ACTIVE", w) : w \in Dcgm!AttributeGpuPipe}
  /\ Dcgm!RequestedFields(Dcgm!metricGpuDcgmCodecEncoderUtilization) =
       {Dcgm!Field("ENC_UTIL")}
  /\ Dcgm!RequestedFields(Dcgm!metricGpuDcgmCodecDecoderUtilization) =
       {Dcgm!Field("DEC_UTIL")}
  /\ Dcgm!RequestedFields(Dcgm!metricGpuDcgmMemoryBytesUsed) =
       {Dcgm!Member("FB", w) : w \in Dcgm!AttributeGpuMemoryState}
  /\ Dcgm!RequestedFields(Dcgm!metricGpuDcgmMemoryBandwidthUtilization) =
       {Dcgm!Field("DRAM_ACTIVE"), Dcgm!Field("MEM_COPY_UTIL")}
  /\ Dcgm!RequestedFields(Dcgm!metricGpuDcgmPcieIo) =
       {Dcgm!Member("PCIE_BYTES", w) : w \in Dcgm!AttributeNetworkIoDirection}
  /\ Dcgm!RequestedFields(Dcgm!metricGpuDcgmNvlinkIo) =
       {Dcgm!Member("NVLINK_BYTES", w) : w \in Dcgm!AttributeNetworkIoDirection}
  /\ Dcgm!RequestedFields(Dcgm!metricGpuDcgmEnergyConsumption) =
       {Dcgm!Field("TOTAL_ENERGY_CONSUMPTION"), Dcgm!Field("POWER_USAGE")}
  /\ Dcgm!RequestedFields(Dcgm!metricGpuDcgmTemperature) =
       {Dcgm!Field("GPU_TEMP")}
  /\ Dcgm!RequestedFields(Dcgm!metricGpuDcgmClockFrequency) =
       {Dcgm!Field("SM_CLOCK")}
  /\ Dcgm!RequestedFields(Dcgm!metricGpuDcgmClockThrottleDurationTime) =
       {Dcgm!Member("VIOLATION", w) : w \in Dcgm!AttributeGpuClockViolation}
  /\ Dcgm!RequestedFields(Dcgm!metricGpuDcgmEccErrors) =
       {Dcgm!Member("ECC_VOL_TOTAL", w) : w \in Dcgm!AttributeGpuErrorType}
<1>1. Dcgm!RequestedFields(Dcgm!metricGpuDcgmUtilization) =
       {Dcgm!Field("GR_ENGINE_ACTIVE"), Dcgm!Field("GPU_UTIL")}
  BY DcgmNames DEF Dcgm!RequestedFields
<1>2. Dcgm!RequestedFields(Dcgm!metricGpuDcgmSmUtilization) =
       {Dcgm!Field("SM_ACTIVE")}
  BY DcgmNames DEF Dcgm!RequestedFields
<1>3. Dcgm!RequestedFields(Dcgm!metricGpuDcgmSmOccupancy) =
       {Dcgm!Field("SM_OCCUPANCY")}
  BY DcgmNames DEF Dcgm!RequestedFields
<1>4. Dcgm!RequestedFields(Dcgm!metricGpuDcgmPipeUtilization) =
       {Dcgm!Member("PIPE_ACTIVE", w) : w \in Dcgm!AttributeGpuPipe}
  BY DcgmNames DEF Dcgm!RequestedFields, Dcgm!AttributeGpuPipe
<1>5. Dcgm!RequestedFields(Dcgm!metricGpuDcgmCodecEncoderUtilization) =
       {Dcgm!Field("ENC_UTIL")}
  BY DcgmNames DEF Dcgm!RequestedFields
<1>6. Dcgm!RequestedFields(Dcgm!metricGpuDcgmCodecDecoderUtilization) =
       {Dcgm!Field("DEC_UTIL")}
  BY DcgmNames DEF Dcgm!RequestedFields
<1>7. Dcgm!RequestedFields(Dcgm!metricGpuDcgmMemoryBytesUsed) =
       {Dcgm!Member("FB", w) : w \in Dcgm!AttributeGpuMemoryState}
  BY DcgmNames DEF Dcgm!RequestedFields, Dcgm!AttributeGpuMemoryState
<1>8. Dcgm!RequestedFields(Dcgm!metricGpuDcgmMemoryBandwidthUtilization) =
       {Dcgm!Field("DRAM_ACTIVE"), Dcgm!Field("MEM_COPY_UTIL")}
  BY DcgmNames DEF Dcgm!RequestedFields
<1>9. Dcgm!RequestedFields(Dcgm!metricGpuDcgmPcieIo) =
       {Dcgm!Member("PCIE_BYTES", w) : w \in Dcgm!AttributeNetworkIoDirection}
  BY DcgmNames DEF Dcgm!RequestedFields, Dcgm!AttributeNetworkIoDirection
<1>10. Dcgm!RequestedFields(Dcgm!metricGpuDcgmNvlinkIo) =
       {Dcgm!Member("NVLINK_BYTES", w) : w \in Dcgm!AttributeNetworkIoDirection}
  BY DcgmNames DEF Dcgm!RequestedFields, Dcgm!AttributeNetworkIoDirection
<1>11. Dcgm!RequestedFields(Dcgm!metricGpuDcgmEnergyConsumption) =
       {Dcgm!Field("TOTAL_ENERGY_CONSUMPTION"), Dcgm!Field("POWER_USAGE")}
  BY DcgmNames DEF Dcgm!RequestedFields
<1>12. Dcgm!RequestedFields(Dcgm!metricGpuDcgmTemperature) =
       {Dcgm!Field("GPU_TEMP")}
  BY DcgmNames DEF Dcgm!RequestedFields
<1>13. Dcgm!RequestedFields(Dcgm!metricGpuDcgmClockFrequency) =
       {Dcgm!Field("SM_CLOCK")}
  BY DcgmNames DEF Dcgm!RequestedFields
<1>14. Dcgm!RequestedFields(Dcgm!metricGpuDcgmClockThrottleDurationTime) =
       {Dcgm!Member("VIOLATION", w) : w \in Dcgm!AttributeGpuClockViolation}
  BY DcgmNames DEF Dcgm!RequestedFields, Dcgm!AttributeGpuClockViolation
<1>15. Dcgm!RequestedFields(Dcgm!metricGpuDcgmEccErrors) =
       {Dcgm!Member("ECC_VOL_TOTAL", w) : w \in Dcgm!AttributeGpuErrorType}
  BY DcgmNames DEF Dcgm!RequestedFields, Dcgm!AttributeGpuErrorType
<1> QED
  BY <1>1, <1>2, <1>3, <1>4, <1>5, <1>6, <1>7, <1>8, <1>9, <1>10, <1>11, <1>12, <1>13, <1>14, <1>15

(* scrape reads the fields that are requested, and all of them.            *)
Asked(c) ==
  \A i \in 1 .. Len(c.sources) : c.sources[i].field \in Dcgm!RequestedFields(c.metric)
Answered(m) ==
  \A f \in Dcgm!RequestedFields(m) :
    \E c \in Dcgm!Calls : c.metric = m /\ \E i \in 1 .. Len(c.sources) : c.sources[i].field = f

LEMMA SourceFields ==
  \A f : /\ Dcgm!LastValue(f).field = f
        /\ Dcgm!IntegratedRate(f).field = f
        /\ Dcgm!CumulativeTotal(f).field = f
BY DEF Dcgm!LastValue, Dcgm!IntegratedRate, Dcgm!CumulativeTotal

LEMMA OneAsked ==
  ASSUME NEW m, NEW a, NEW s, s.field \in Dcgm!RequestedFields(m)
  PROVE  Asked(Dcgm!Call(m, a, <<s>>))
BY CallFields DEF Asked

LEMMA TwoAsked ==
  ASSUME NEW m, NEW a, NEW s, NEW t,
         s.field \in Dcgm!RequestedFields(m), t.field \in Dcgm!RequestedFields(m)
  PROVE  Asked(Dcgm!Call(m, a, <<s, t>>))
<1>1. Dcgm!Call(m, a, <<s, t>>).sources = <<s, t>> /\ Dcgm!Call(m, a, <<s, t>>).metric = m
  BY CallFields
<1>2. \A i \in 1 .. 2 : i = 1 \/ i = 2
  OBVIOUS
<1> QED
  BY <1>1, <1>2 DEF Asked

LEMMA OneAnswers ==
  ASSUME NEW m, NEW a, NEW s, Dcgm!Call(m, a, <<s>>) \in Dcgm!Calls
  PROVE  \E c \in Dcgm!Calls :
           c.metric = m /\ \E i \in 1 .. Len(c.sources) : c.sources[i].field = s.field
<1>1. /\ Dcgm!Call(m, a, <<s>>).sources = <<s>>
      /\ Dcgm!Call(m, a, <<s>>).metric = m
  BY CallFields
<1> QED
  BY <1>1

LEMMA TwoAnswer ==
  ASSUME NEW m, NEW a, NEW s, NEW t, Dcgm!Call(m, a, <<s, t>>) \in Dcgm!Calls,
         NEW f \in {s.field, t.field}
  PROVE  \E c \in Dcgm!Calls :
           c.metric = m /\ \E i \in 1 .. Len(c.sources) : c.sources[i].field = f
<1>1. /\ Dcgm!Call(m, a, <<s, t>>).sources = <<s, t>>
      /\ Dcgm!Call(m, a, <<s, t>>).metric = m
  BY CallFields
<1>2. \E i \in 1 .. Len(<<s, t>>) : <<s, t>>[i].field = f
  OBVIOUS
<1> QED
  BY <1>1, <1>2

LEMMA OneAsks ==
  ASSUME NEW m, NEW a, NEW s, Dcgm!Call(m, a, <<s>>) \in Dcgm!Calls,
         Dcgm!RequestedFields(m) = {s.field},
         NEW c, c = Dcgm!Call(m, a, <<s>>)
  PROVE  Asked(c) /\ Answered(c.metric)
<1>1. c.metric = m
  BY CallFields
<1>2. Asked(c)
  BY OneAsked
<1>3. Answered(m)
  BY OneAnswers DEF Answered
<1> QED
  BY <1>1, <1>2, <1>3

LEMMA TwoAsk ==
  ASSUME NEW m, NEW a, NEW s, NEW t, Dcgm!Call(m, a, <<s, t>>) \in Dcgm!Calls,
         Dcgm!RequestedFields(m) = {s.field, t.field},
         NEW c, c = Dcgm!Call(m, a, <<s, t>>)
  PROVE  Asked(c) /\ Answered(c.metric)
<1>1. c.metric = m
  BY CallFields
<1>2. Asked(c)
  BY TwoAsked
<1>3. Answered(m)
  BY TwoAnswer DEF Answered
<1> QED
  BY <1>1, <1>2, <1>3

LEMMA EachAsks ==
  ASSUME NEW m, NEW W, NEW source,
         \A w \in W : Dcgm!Call(m, w, <<source[w]>>) \in Dcgm!Calls,
         Dcgm!RequestedFields(m) = {source[w].field : w \in W},
         NEW v \in W, NEW c, c = Dcgm!Call(m, v, <<source[v]>>)
  PROVE  Asked(c) /\ Answered(c.metric)
<1>1. c.metric = m
  BY CallFields
<1>2. Asked(c)
  BY OneAsked
<1>3. Answered(m)
  <2> SUFFICES ASSUME NEW w \in W
               PROVE  \E d \in Dcgm!Calls :
                        /\ d.metric = m
                        /\ \E i \in 1 .. Len(d.sources) : d.sources[i].field = source[w].field
    BY DEF Answered
  <2> DEFINE s == source[w]
  <2>1. Dcgm!Call(m, w, <<s>>) \in Dcgm!Calls
    OBVIOUS
  <2> HIDE DEF s
  <2>2. \E d \in Dcgm!Calls :
          d.metric = m /\ \E i \in 1 .. Len(d.sources) : d.sources[i].field = s.field
    BY <2>1, OneAnswers
  <2> QED
    BY <2>2 DEF s
<1> QED
  BY <1>1, <1>2, <1>3

LEMMA CallsAsk == \A c \in Dcgm!Calls : Asked(c) /\ Answered(c.metric)
<1> SUFFICES ASSUME NEW c \in Dcgm!Calls PROVE Asked(c) /\ Answered(c.metric)
  OBVIOUS
<1>1. CASE c \in Dcgm!UtilizationCalls
  <2>1. CASE c = Dcgm!Call(Dcgm!metricGpuDcgmUtilization, "",
                  <<Dcgm!LastValue(Dcgm!Field("GR_ENGINE_ACTIVE")),
                     Dcgm!LastValue(Dcgm!Field("GPU_UTIL"))>>)
    <3> DEFINE s == Dcgm!LastValue(Dcgm!Field("GR_ENGINE_ACTIVE"))
               t == Dcgm!LastValue(Dcgm!Field("GPU_UTIL"))
    <3>1. Dcgm!RequestedFields(Dcgm!metricGpuDcgmUtilization) = {s.field, t.field}
      BY RequestedAre, SourceFields
    <3>2. c = Dcgm!Call(Dcgm!metricGpuDcgmUtilization, "", <<s, t>>)
      BY <2>1
    <3> HIDE DEF s, t
    <3> QED
      BY <3>1, <3>2, TwoAsk, Zenon
  <2>2. CASE c = Dcgm!Call(Dcgm!metricGpuDcgmSmUtilization, "",
                  <<Dcgm!LastValue(Dcgm!Field("SM_ACTIVE"))>>)
    <3> DEFINE s == Dcgm!LastValue(Dcgm!Field("SM_ACTIVE"))
    <3>1. Dcgm!RequestedFields(Dcgm!metricGpuDcgmSmUtilization) = {s.field}
      BY RequestedAre, SourceFields
    <3>2. c = Dcgm!Call(Dcgm!metricGpuDcgmSmUtilization, "", <<s>>)
      BY <2>2
    <3> HIDE DEF s
    <3> QED
      BY <3>1, <3>2, OneAsks, Zenon
  <2>3. CASE c = Dcgm!Call(Dcgm!metricGpuDcgmSmOccupancy, "",
                  <<Dcgm!LastValue(Dcgm!Field("SM_OCCUPANCY"))>>)
    <3> DEFINE s == Dcgm!LastValue(Dcgm!Field("SM_OCCUPANCY"))
    <3>1. Dcgm!RequestedFields(Dcgm!metricGpuDcgmSmOccupancy) = {s.field}
      BY RequestedAre, SourceFields
    <3>2. c = Dcgm!Call(Dcgm!metricGpuDcgmSmOccupancy, "", <<s>>)
      BY <2>3
    <3> HIDE DEF s
    <3> QED
      BY <3>1, <3>2, OneAsks, Zenon
  <2>4. CASE c = Dcgm!Call(Dcgm!metricGpuDcgmCodecEncoderUtilization, "",
                  <<Dcgm!LastValue(Dcgm!Field("ENC_UTIL"))>>)
    <3> DEFINE s == Dcgm!LastValue(Dcgm!Field("ENC_UTIL"))
    <3>1. Dcgm!RequestedFields(Dcgm!metricGpuDcgmCodecEncoderUtilization) = {s.field}
      BY RequestedAre, SourceFields
    <3>2. c = Dcgm!Call(Dcgm!metricGpuDcgmCodecEncoderUtilization, "", <<s>>)
      BY <2>4
    <3> HIDE DEF s
    <3> QED
      BY <3>1, <3>2, OneAsks, Zenon
  <2>5. CASE c = Dcgm!Call(Dcgm!metricGpuDcgmCodecDecoderUtilization, "",
                  <<Dcgm!LastValue(Dcgm!Field("DEC_UTIL"))>>)
    <3> DEFINE s == Dcgm!LastValue(Dcgm!Field("DEC_UTIL"))
    <3>1. Dcgm!RequestedFields(Dcgm!metricGpuDcgmCodecDecoderUtilization) = {s.field}
      BY RequestedAre, SourceFields
    <3>2. c = Dcgm!Call(Dcgm!metricGpuDcgmCodecDecoderUtilization, "", <<s>>)
      BY <2>5
    <3> HIDE DEF s
    <3> QED
      BY <3>1, <3>2, OneAsks, Zenon
  <2>6. ASSUME NEW w \in Dcgm!AttributeGpuPipe,
               c = Dcgm!Call(Dcgm!metricGpuDcgmPipeUtilization, w,
                     <<Dcgm!LastValue(Dcgm!Member("PIPE_ACTIVE", w))>>)
        PROVE  Asked(c) /\ Answered(c.metric)
    <3> DEFINE source == [x \in Dcgm!AttributeGpuPipe |-> Dcgm!LastValue(Dcgm!Member("PIPE_ACTIVE", x))]
    <3>1. \A x \in Dcgm!AttributeGpuPipe :
            Dcgm!Call(Dcgm!metricGpuDcgmPipeUtilization, x, <<Dcgm!LastValue(Dcgm!Member("PIPE_ACTIVE", x))>>) \in Dcgm!UtilizationCalls
      BY Zenon DEF Dcgm!UtilizationCalls
    <3>2. \A x \in Dcgm!AttributeGpuPipe :
            Dcgm!Call(Dcgm!metricGpuDcgmPipeUtilization, x, <<source[x]>>) \in Dcgm!Calls
      BY <3>1, Zenon DEF Dcgm!Calls
    <3>3. Dcgm!RequestedFields(Dcgm!metricGpuDcgmPipeUtilization) = {source[x].field : x \in Dcgm!AttributeGpuPipe}
      BY RequestedAre, SourceFields
    <3>4. c = Dcgm!Call(Dcgm!metricGpuDcgmPipeUtilization, w, <<source[w]>>)
      BY <2>6, Zenon
    <3> HIDE DEF source
    <3> QED
      BY <3>2, <3>3, <3>4, EachAsks, Zenon
  <2> QED
    BY <1>1, Zenon, <2>1, <2>2, <2>3, <2>4, <2>5, <2>6 DEF Dcgm!UtilizationCalls
<1>2. CASE c \in Dcgm!MemoryCalls
  <2>1. ASSUME NEW w \in Dcgm!AttributeGpuMemoryState,
               c = Dcgm!Call(Dcgm!metricGpuDcgmMemoryBytesUsed, w,
                     <<Dcgm!LastValue(Dcgm!Member("FB", w))>>)
        PROVE  Asked(c) /\ Answered(c.metric)
    <3> DEFINE source == [x \in Dcgm!AttributeGpuMemoryState |-> Dcgm!LastValue(Dcgm!Member("FB", x))]
    <3>1. \A x \in Dcgm!AttributeGpuMemoryState :
            Dcgm!Call(Dcgm!metricGpuDcgmMemoryBytesUsed, x, <<Dcgm!LastValue(Dcgm!Member("FB", x))>>) \in Dcgm!MemoryCalls
      BY Zenon DEF Dcgm!MemoryCalls
    <3>2. \A x \in Dcgm!AttributeGpuMemoryState :
            Dcgm!Call(Dcgm!metricGpuDcgmMemoryBytesUsed, x, <<source[x]>>) \in Dcgm!Calls
      BY <3>1, Zenon DEF Dcgm!Calls
    <3>3. Dcgm!RequestedFields(Dcgm!metricGpuDcgmMemoryBytesUsed) = {source[x].field : x \in Dcgm!AttributeGpuMemoryState}
      BY RequestedAre, SourceFields
    <3>4. c = Dcgm!Call(Dcgm!metricGpuDcgmMemoryBytesUsed, w, <<source[w]>>)
      BY <2>1, Zenon
    <3> HIDE DEF source
    <3> QED
      BY <3>2, <3>3, <3>4, EachAsks, Zenon
  <2>2. CASE c = Dcgm!Call(Dcgm!metricGpuDcgmMemoryBandwidthUtilization, "",
                  <<Dcgm!LastValue(Dcgm!Field("DRAM_ACTIVE")),
                     Dcgm!LastValue(Dcgm!Field("MEM_COPY_UTIL"))>>)
    <3> DEFINE s == Dcgm!LastValue(Dcgm!Field("DRAM_ACTIVE"))
               t == Dcgm!LastValue(Dcgm!Field("MEM_COPY_UTIL"))
    <3>1. Dcgm!RequestedFields(Dcgm!metricGpuDcgmMemoryBandwidthUtilization) = {s.field, t.field}
      BY RequestedAre, SourceFields
    <3>2. c = Dcgm!Call(Dcgm!metricGpuDcgmMemoryBandwidthUtilization, "", <<s, t>>)
      BY <2>2
    <3> HIDE DEF s, t
    <3> QED
      BY <3>1, <3>2, TwoAsk, Zenon
  <2> QED
    BY <1>2, Zenon, <2>1, <2>2 DEF Dcgm!MemoryCalls
<1>3. CASE c \in Dcgm!IoCalls
  <2>1. ASSUME NEW w \in Dcgm!AttributeNetworkIoDirection,
               c = Dcgm!Call(Dcgm!metricGpuDcgmPcieIo, w,
                     <<Dcgm!IntegratedRate(Dcgm!Member("PCIE_BYTES", w))>>)
        PROVE  Asked(c) /\ Answered(c.metric)
    <3> DEFINE source == [x \in Dcgm!AttributeNetworkIoDirection |-> Dcgm!IntegratedRate(Dcgm!Member("PCIE_BYTES", x))]
    <3>1. \A x \in Dcgm!AttributeNetworkIoDirection :
            Dcgm!Call(Dcgm!metricGpuDcgmPcieIo, x, <<Dcgm!IntegratedRate(Dcgm!Member("PCIE_BYTES", x))>>) \in Dcgm!IoCalls
      BY Zenon DEF Dcgm!IoCalls
    <3>2. \A x \in Dcgm!AttributeNetworkIoDirection :
            Dcgm!Call(Dcgm!metricGpuDcgmPcieIo, x, <<source[x]>>) \in Dcgm!Calls
      BY <3>1, Zenon DEF Dcgm!Calls
    <3>3. Dcgm!RequestedFields(Dcgm!metricGpuDcgmPcieIo) = {source[x].field : x \in Dcgm!AttributeNetworkIoDirection}
      BY RequestedAre, SourceFields
    <3>4. c = Dcgm!Call(Dcgm!metricGpuDcgmPcieIo, w, <<source[w]>>)
      BY <2>1, Zenon
    <3> HIDE DEF source
    <3> QED
      BY <3>2, <3>3, <3>4, EachAsks, Zenon
  <2>2. ASSUME NEW w \in Dcgm!AttributeNetworkIoDirection,
               c = Dcgm!Call(Dcgm!metricGpuDcgmNvlinkIo, w,
                     <<Dcgm!IntegratedRate(Dcgm!Member("NVLINK_BYTES", w))>>)
        PROVE  Asked(c) /\ Answered(c.metric)
    <3> DEFINE source == [x \in Dcgm!AttributeNetworkIoDirection |-> Dcgm!IntegratedRate(Dcgm!Member("NVLINK_BYTES", x))]
    <3>1. \A x \in Dcgm!AttributeNetworkIoDirection :
            Dcgm!Call(Dcgm!metricGpuDcgmNvlinkIo, x, <<Dcgm!IntegratedRate(Dcgm!Member("NVLINK_BYTES", x))>>) \in Dcgm!IoCalls
      BY Zenon DEF Dcgm!IoCalls
    <3>2. \A x \in Dcgm!AttributeNetworkIoDirection :
            Dcgm!Call(Dcgm!metricGpuDcgmNvlinkIo, x, <<source[x]>>) \in Dcgm!Calls
      BY <3>1, Zenon DEF Dcgm!Calls
    <3>3. Dcgm!RequestedFields(Dcgm!metricGpuDcgmNvlinkIo) = {source[x].field : x \in Dcgm!AttributeNetworkIoDirection}
      BY RequestedAre, SourceFields
    <3>4. c = Dcgm!Call(Dcgm!metricGpuDcgmNvlinkIo, w, <<source[w]>>)
      BY <2>2, Zenon
    <3> HIDE DEF source
    <3> QED
      BY <3>2, <3>3, <3>4, EachAsks, Zenon
  <2> QED
    BY <1>3, Zenon, <2>1, <2>2 DEF Dcgm!IoCalls
<1>4. CASE c \in Dcgm!PowerCalls
  <2>1. CASE c = Dcgm!Call(Dcgm!metricGpuDcgmEnergyConsumption, "",
                  <<Dcgm!CumulativeTotal(Dcgm!Field("TOTAL_ENERGY_CONSUMPTION")),
                     Dcgm!IntegratedRate(Dcgm!Field("POWER_USAGE"))>>)
    <3> DEFINE s == Dcgm!CumulativeTotal(Dcgm!Field("TOTAL_ENERGY_CONSUMPTION"))
               t == Dcgm!IntegratedRate(Dcgm!Field("POWER_USAGE"))
    <3>1. Dcgm!RequestedFields(Dcgm!metricGpuDcgmEnergyConsumption) = {s.field, t.field}
      BY RequestedAre, SourceFields
    <3>2. c = Dcgm!Call(Dcgm!metricGpuDcgmEnergyConsumption, "", <<s, t>>)
      BY <2>1
    <3> HIDE DEF s, t
    <3> QED
      BY <3>1, <3>2, TwoAsk, Zenon
  <2>2. CASE c = Dcgm!Call(Dcgm!metricGpuDcgmTemperature, "",
                  <<Dcgm!LastValue(Dcgm!Field("GPU_TEMP"))>>)
    <3> DEFINE s == Dcgm!LastValue(Dcgm!Field("GPU_TEMP"))
    <3>1. Dcgm!RequestedFields(Dcgm!metricGpuDcgmTemperature) = {s.field}
      BY RequestedAre, SourceFields
    <3>2. c = Dcgm!Call(Dcgm!metricGpuDcgmTemperature, "", <<s>>)
      BY <2>2
    <3> HIDE DEF s
    <3> QED
      BY <3>1, <3>2, OneAsks, Zenon
  <2>3. CASE c = Dcgm!Call(Dcgm!metricGpuDcgmClockFrequency, "",
                  <<Dcgm!LastValue(Dcgm!Field("SM_CLOCK"))>>)
    <3> DEFINE s == Dcgm!LastValue(Dcgm!Field("SM_CLOCK"))
    <3>1. Dcgm!RequestedFields(Dcgm!metricGpuDcgmClockFrequency) = {s.field}
      BY RequestedAre, SourceFields
    <3>2. c = Dcgm!Call(Dcgm!metricGpuDcgmClockFrequency, "", <<s>>)
      BY <2>3
    <3> HIDE DEF s
    <3> QED
      BY <3>1, <3>2, OneAsks, Zenon
  <2> QED
    BY <1>4, Zenon, <2>1, <2>2, <2>3 DEF Dcgm!PowerCalls
<1>5. CASE c \in Dcgm!ViolationCalls
  <2>1. ASSUME NEW w \in Dcgm!AttributeGpuClockViolation,
               c = Dcgm!Call(Dcgm!metricGpuDcgmClockThrottleDurationTime, w,
                     <<Dcgm!CumulativeTotal(Dcgm!Member("VIOLATION", w))>>)
        PROVE  Asked(c) /\ Answered(c.metric)
    <3> DEFINE source == [x \in Dcgm!AttributeGpuClockViolation |-> Dcgm!CumulativeTotal(Dcgm!Member("VIOLATION", x))]
    <3>1. \A x \in Dcgm!AttributeGpuClockViolation :
            Dcgm!Call(Dcgm!metricGpuDcgmClockThrottleDurationTime, x, <<Dcgm!CumulativeTotal(Dcgm!Member("VIOLATION", x))>>) \in Dcgm!ViolationCalls
      BY Zenon DEF Dcgm!ViolationCalls
    <3>2. \A x \in Dcgm!AttributeGpuClockViolation :
            Dcgm!Call(Dcgm!metricGpuDcgmClockThrottleDurationTime, x, <<source[x]>>) \in Dcgm!Calls
      BY <3>1, Zenon DEF Dcgm!Calls
    <3>3. Dcgm!RequestedFields(Dcgm!metricGpuDcgmClockThrottleDurationTime) = {source[x].field : x \in Dcgm!AttributeGpuClockViolation}
      BY RequestedAre, SourceFields
    <3>4. c = Dcgm!Call(Dcgm!metricGpuDcgmClockThrottleDurationTime, w, <<source[w]>>)
      BY <2>1, Zenon
    <3> HIDE DEF source
    <3> QED
      BY <3>2, <3>3, <3>4, EachAsks, Zenon
  <2> QED
    BY <1>5, Zenon, <2>1 DEF Dcgm!ViolationCalls
<1>6. CASE c \in Dcgm!EccCalls
  <2>1. ASSUME NEW w \in Dcgm!AttributeGpuErrorType,
               c = Dcgm!Call(Dcgm!metricGpuDcgmEccErrors, w,
                     <<Dcgm!CumulativeTotal(Dcgm!Member("ECC_VOL_TOTAL", w))>>)
        PROVE  Asked(c) /\ Answered(c.metric)
    <3> DEFINE source == [x \in Dcgm!AttributeGpuErrorType |-> Dcgm!CumulativeTotal(Dcgm!Member("ECC_VOL_TOTAL", x))]
    <3>1. \A x \in Dcgm!AttributeGpuErrorType :
            Dcgm!Call(Dcgm!metricGpuDcgmEccErrors, x, <<Dcgm!CumulativeTotal(Dcgm!Member("ECC_VOL_TOTAL", x))>>) \in Dcgm!EccCalls
      BY Zenon DEF Dcgm!EccCalls
    <3>2. \A x \in Dcgm!AttributeGpuErrorType :
            Dcgm!Call(Dcgm!metricGpuDcgmEccErrors, x, <<source[x]>>) \in Dcgm!Calls
      BY <3>1, Zenon DEF Dcgm!Calls
    <3>3. Dcgm!RequestedFields(Dcgm!metricGpuDcgmEccErrors) = {source[x].field : x \in Dcgm!AttributeGpuErrorType}
      BY RequestedAre, SourceFields
    <3>4. c = Dcgm!Call(Dcgm!metricGpuDcgmEccErrors, w, <<source[w]>>)
      BY <2>1, Zenon
    <3> HIDE DEF source
    <3> QED
      BY <3>2, <3>3, <3>4, EachAsks, Zenon
  <2> QED
    BY <1>6, Zenon, <2>1 DEF Dcgm!EccCalls
<1> QED
  BY <1>1, <1>2, <1>3, <1>4, <1>5, <1>6 DEF Dcgm!Calls

LEMMA CallsApart ==
  ASSUME NEW c \in Dcgm!Calls, NEW d \in Dcgm!Calls,
         <<c.metric, c.attribute>> = <<d.metric, d.attribute>>
  PROVE  c = d
<1>1. c.metric = d.metric /\ c.attribute = d.attribute
  OBVIOUS
<1>2. CallIs(c) /\ CallIs(d)
  BY CallsAre
<1>3. c.sources = d.sources
  BY <1>1, <1>2 DEF CallIs
<1> QED
  BY <1>1, <1>2, <1>3 DEF CallIs

LEMMA DcgmSeriesApart == MCSpec => []Dcgm!SeriesDistinct
<1>1. DcgmInv => Dcgm!SeriesDistinct
  <2> SUFFICES ASSUME call \in Dcgm!Calls PROVE Dcgm!SeriesDistinct
    BY DEF DcgmInv
  <2>1. \A c \in Dcgm!Calls \ {call} : <<c.metric, c.attribute>> # <<call.metric, call.attribute>>
    BY CallsApart
  <2>2. Asked(call) /\ Answered(call.metric)
    BY CallsAsk
  <2>3. Dcgm!Fields \subseteq Dcgm!RequestedFields(call.metric)
    BY <2>2 DEF Asked, Dcgm!Fields, Dcgm!Sources
  <2> QED
    BY <2>1, <2>2, <2>3 DEF Answered, Dcgm!SeriesDistinct
<1> QED
  BY <1>1, ComposedIsDcgm, DcgmInvAlways, PTL

LEMMA ComposedIsMongo == MCSpec => Spec
<1>1. MCInit => Init
  BY DEF MCInit
<1>2. [MCNext]_<<scenario, vars, varnishVars, dcgmVars, nvmlVars, builderVars>> => [Next]_vars
  BY DEF MCNext, vars
<1> QED
  BY <1>1, <1>2, PTL DEF MCSpec, Spec

(* For all versions, databases and collections, whatever fails: no receiver*)
(* records two readings of one scrape for one series. For the mongodb      *)
(* scraper of what waits in the builder; for the varnish scraper of the    *)
(* counters of Stats, all of which are reported; for the dcgm scraper of   *)
(* the record calls of a GPU, which read the fields that are requested and *)
(* all of them (mongodbreceiver/metrics.go, varnishreceiver/metrics.go:109,*)
(* dcgmreceiver/scraper.go:254).                                           *)
THEOREM SeriesAreApart == MCSpec => []NothingMerged
<1>1. MCSpec => []SeriesDistinct
  BY ComposedIsMongo, MongoSeriesApart, PTL
<1>2. SeriesDistinct /\ Varnish!SeriesDistinct /\ Dcgm!SeriesDistinct => NothingMerged
  BY DEF NothingMerged
<1> QED
  BY <1>1, <1>2, VarnishSeriesApart, DcgmSeriesApart, PTL
=============================================================================

------------------------------ MODULE Migration ------------------------------
(***************************************************************************)
(* How the database gets the indexes and the defaults that the rest of the *)
(* shop relies on: fifteen migrations, applied in order by a job that      *)
(* records each one after it ran (schema_migrations) and undone from the   *)
(* latest record backwards.  A work is an index, or a group of indexes of  *)
(* one purpose, or a field that old documents get.                         *)
(***************************************************************************)
EXTENDS Integers, Sequences, SequencesExt

CONSTANTS
    Jobs,       \* runs of the command line
    MaxMishaps, \* jobs that may die, or start beside another
    MaxWrites   \* changes of the stock while the migrations run

VARIABLES
    works,      \* what stands in the database
    records,    \* names in schema_migrations, in the order of appliedAt
    job,        \* job[j]: how far a run is
    torn,       \* migrations whose undo has begun, still on record
    preview,    \* the version of the item's preview
    search,     \* the version its search values derive from, 0 if missing
    oldWriter,  \* an instance of the older release is alive
    spoiled,    \* it changed a preview and left the values as they were
    writes,     \* changes made
    mishaps     \* jobs that died or started beside another

migrationVars == <<works, records, job, torn, preview, search, oldWriter,
                   spoiled, writes, mishaps>>

-----------------------------------------------------------------------------
(* The migrations: what up() sets up and what down() takes away, in their  *)
(* order.  The first one creates every index that the schemas of its       *)
(* collections declare, so later ones find some of theirs.                 *)

Declared == <<"unique keys", "catalogue", "notice key", "report queue",
              "held stock", "dispatch", "import rows", "histories",
              "queries", "previews">>

CreateIndexes == [up |-> Declared, down |-> Reverse(Declared)]

SafeDefaults ==
    LET fields == <<"user fields", "product fields", "item fields">>
    IN  [up |-> fields, down |-> fields]

CatalogueIndexes == [up |-> <<"catalogue">>, down |-> <<"catalogue">>]

(* Documents are copied in one transaction and stay where they are.        *)
CollectionNames == [up |-> <<"copied">>, down |-> <<>>]

RuntimeIndexes == [up |-> <<"bot sessions", "notice key">>,
                   down |-> <<"bot sessions", "notice key">>]

ReportIndexes == [up |-> <<"report category", "report queue">>,
                  down |-> <<"report queue", "report category">>]

CheckoutIndexes == [up |-> <<"held stock", "dispatch">>,
                    down |-> <<"held stock", "dispatch">>]

MessageIndexes == [up |-> <<"message lists", "message key">>,
                   down |-> <<"message lists", "message key">>]

(* Its down() alone fails on an index that is not there.                   *)
CouponWorks == <<"coupon code", "coupon list", "checkout key",
                 "redemptions">>
CouponIndexes == [up |-> CouponWorks, down |-> CouponWorks]

AnalyticsIndexes == [up |-> <<"analytics">>, down |-> <<"analytics">>]

(* What down() leaves of it is the index of the import rows.               *)
HistoryIndexes == [up |-> <<"histories", "import rows">>,
                   down |-> <<"histories">>]

QueryIndexes == [up |-> <<"queries">>, down |-> <<"queries">>]

(* The derived values stay when the indexes go.                            *)
SearchIndexes == [up |-> <<"previews", "search values">>,
                  down |-> <<"previews">>]

ConversationIndexes == [up |-> <<"conversations">>,
                        down |-> <<"conversations">>]

WarrantyHours == [up |-> <<"hours">>, down |-> <<"hours">>]

Migrations ==
    <<CreateIndexes, SafeDefaults, CatalogueIndexes, CollectionNames,
      RuntimeIndexes, ReportIndexes, CheckoutIndexes, MessageIndexes,
      CouponIndexes, AnalyticsIndexes, HistoryIndexes, QueryIndexes,
      SearchIndexes, ConversationIndexes, WarrantyHours>>

Names == DOMAIN Migrations
AllWorks == UNION {ToSet(Migrations[n].up) : n \in Names}
Strict(n) == Migrations[n] = CouponIndexes
-----------------------------------------------------------------------------
NoJob == [does |-> "none", seen |-> {}, at |-> 0, done |-> 0, read |-> <<>>]

MigrationTypeOK ==
    /\ works \subseteq AllWorks
    /\ records \in Seq(Names) /\ IsInjective(records)
    /\ \A j \in Jobs : job[j].does \in {"none", "up", "down", "repair"}

(* An empty database, or one of the releases before the runner: items have *)
(* no search values.                                                       *)
MigrationInit ==
    /\ works = {} /\ records = <<>> /\ torn = {}
    /\ job = [j \in Jobs |-> NoJob]
    /\ preview = 1 /\ search = 0 /\ oldWriter = TRUE /\ spoiled = FALSE
    /\ writes = 0 /\ mishaps = 0

SameItem == UNCHANGED <<preview, search, oldWriter, spoiled, writes>>
SameBase == UNCHANGED <<works, records, torn, mishaps>>
Working(j, does) == job[j].does = does
Alone == \A j \in Jobs : job[j].does = "none"

(* The first migration after n that the job did not find recorded.         *)
Pending(seen, n) ==
    LET rest == {m \in Names : m > n /\ m \notin seen}
    IN  IF rest = {} THEN 0 ELSE CHOOSE m \in rest : \A o \in rest : m <= o

(* The job for migration m, before its first step; none if there is none.  *)
Toward(does, seen, m) ==
    IF m = 0 THEN NoJob
    ELSE [NoJob EXCEPT !.does = does, !.seen = seen, !.at = m]

(* up(): reads the records once.  A second job may be started beside it,   *)
(* though not while a migration is undone (README.md:298).                 *)
BeginUp(j) ==
    /\ Working(j, "none") /\ \A k \in Jobs : ~Working(k, "down")
    /\ Alone \/ mishaps < MaxMishaps
    /\ mishaps' = mishaps + (IF Alone THEN 0 ELSE 1)
    /\ job' = [job EXCEPT ![j] =
                   Toward("up", ToSet(records), Pending(ToSet(records), 0))]
    /\ job' # job
    /\ UNCHANGED <<works, records, torn>> /\ SameItem

NextWork(j) == Migrations[job[j].at].up[job[j].done + 1]
Built(j) == job[j].done = Len(Migrations[job[j].at].up)
JobEnds(j) == job' = [job EXCEPT ![j] = NoJob]
JobGoes(j) == job' = [job EXCEPT ![j].done = @ + 1, ![j].read = <<>>]

(* An index that is there already is left alone.                           *)
Build(j) ==
    /\ Working(j, "up") /\ ~Built(j) /\ NextWork(j) # "search values"
    /\ works' = works \cup {NextWork(j)}
    /\ JobGoes(j)
    /\ UNCHANGED <<records, torn, mishaps>> /\ SameItem

(* The name is unique: a job that comes second fails.                      *)
Record(j) ==
    /\ Working(j, "up") /\ Built(j)
    /\ IF job[j].at \in ToSet(records)
       THEN JobEnds(j) /\ UNCHANGED records
       ELSE /\ records' = Append(records, job[j].at)
            /\ job' = [job EXCEPT ![j] =
                           Toward("up", job[j].seen,
                                  Pending(job[j].seen, job[j].at))]
    /\ UNCHANGED <<works, torn, mishaps>> /\ SameItem

(* down(): only one job may run (README.md:298).                           *)
BeginDown(j) ==
    /\ Alone /\ records # <<>>
    /\ job' = [job EXCEPT ![j] = Toward("down", {}, Last(records))]
    /\ SameBase /\ SameItem

Gone(j) == job[j].done = Len(Migrations[job[j].at].down)

Undo(j) ==
    /\ Working(j, "down") /\ ~Gone(j)
    /\ LET work == Migrations[job[j].at].down[job[j].done + 1]
       IN  IF Strict(job[j].at) /\ work \notin works
           THEN JobEnds(j) /\ UNCHANGED <<works, torn>>
           ELSE /\ works' = works \ {work}
                /\ torn' = torn \cup {job[j].at}
                /\ JobGoes(j)
    /\ UNCHANGED <<records, mishaps>> /\ SameItem

Unrecord(j) ==
    /\ Working(j, "down") /\ Gone(j)
    /\ records' = Front(records) /\ torn' = torn \ {job[j].at}
    /\ JobEnds(j)
    /\ UNCHANGED <<works, mishaps>> /\ SameItem

(* The process ends, the database refuses a step, or the documents of an   *)
(* old collection cannot be copied.                                        *)
JobDies(j) ==
    /\ job[j].does # "none" /\ mishaps < MaxMishaps
    /\ mishaps' = mishaps + 1
    /\ JobEnds(j)
    /\ UNCHANGED <<works, records, torn>> /\ SameItem
-----------------------------------------------------------------------------
(* The derived search values of one item.                                  *)

(* The repair that follows a release, by hand: it looks at every item.     *)
BeginRepair(j) ==
    /\ Alone /\ 13 \in ToSet(records)
    /\ job' = [job EXCEPT ![j] =
                  Toward("repair", IF oldWriter THEN {} ELSE {0}, 13)]
    /\ job' # job /\ SameBase /\ SameItem

AtValues(j) == \/ Working(j, "up") /\ ~Built(j)
                                   /\ NextWork(j) = "search values"
               \/ Working(j, "repair")

Wanted(j) == (search = 0 \/ Working(j, "repair")) /\ search # preview

Filled(j) ==
    /\ IF Working(j, "repair") THEN JobEnds(j) ELSE JobGoes(j)
    /\ works' = works \cup {"search values"}
    /\ spoiled' = (spoiled /\ ~(Working(j, "repair") /\ job[j].seen = {0}))

Scan(j) ==
    /\ AtValues(j) /\ job[j].read = <<>>
    /\ IF Wanted(j)
       THEN /\ job' = [job EXCEPT ![j].read = <<preview, search>>]
            /\ UNCHANGED <<works, spoiled>>
       ELSE Filled(j)
    /\ UNCHANGED <<records, torn, mishaps, preview, search, oldWriter,
                   writes>>

AsRead(j) == job[j].read = <<preview, search>>

Patch(j) ==
    /\ AtValues(j) /\ job[j].read # <<>>
    /\ search' = IF AsRead(j) THEN job[j].read[1] ELSE search
    /\ Filled(j)
    /\ UNCHANGED <<records, torn, mishaps, preview, oldWriter, writes>>

(* Mutated: the values are derived from the preview before the change.     *)
ChangeStockBefore ==
    /\ writes < MaxWrites /\ writes' = writes + 1
    /\ preview' = preview + 1 /\ search' = preview
    /\ spoiled' = FALSE
    /\ SameBase /\ UNCHANGED <<job, oldWriter>>

(* An import or a renamed field of this release.                           *)
ChangeStock ==
    /\ writes < MaxWrites /\ writes' = writes + 1
    /\ preview' = preview + 1 /\ search' = preview'
    /\ spoiled' = FALSE
    /\ SameBase /\ UNCHANGED <<job, oldWriter>>

(* The same by an instance of the release before.                          *)
ChangeStockOld ==
    /\ oldWriter /\ writes < MaxWrites /\ writes' = writes + 1
    /\ preview' = preview + 1 /\ spoiled' = (search # 0)
    /\ SameBase /\ UNCHANGED <<job, search, oldWriter>>

OldDrains ==
    /\ oldWriter /\ oldWriter' = FALSE
    /\ SameBase /\ UNCHANGED <<job, preview, search, spoiled, writes>>

MigrationNext ==
    \/ \E j \in Jobs :
          \/ BeginUp(j) \/ Build(j) \/ Record(j)
          \/ BeginDown(j) \/ Undo(j) \/ Unrecord(j) \/ JobDies(j)
          \/ BeginRepair(j) \/ Scan(j) \/ Patch(j)
    \/ ChangeStock \/ ChangeStockOld \/ OldDrains

MigrationSpec == MigrationInit /\ [][MigrationNext]_migrationVars
-----------------------------------------------------------------------------
(* When every migration is on record, everything the shop relies on        *)
(* stands, however often jobs died, ran twice or were undone; only an undo *)
(* that ended half way leaves a record of what is gone                     *)
(* (runner.ts:20-43).  And the search values of an item are missing or     *)
(* those of its preview, unless an instance of the older release changed   *)
(* it and no repair ran since they are gone (013-inventory-search.ts:31).  *)
RecordedIsReady ==
    /\ ToSet(records) = Names /\ torn = {} => works = AllWorks
    /\ search \in {0, preview} \/ spoiled
=============================================================================

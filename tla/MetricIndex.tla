---------------------------- MODULE MetricIndex ----------------------------
(***************************************************************************)
(* metricdb: every three minutes DB.Run reads the entries of the           *)
(* job-metrics index of the bucket that follow the last recorded key and   *)
(* writes their values to a SQLite database through a                      *)
(* metricBatchInserter, which records the last completed key in the        *)
(* transaction of the values.  An error of Run ends the process, which is  *)
(* started again; the transaction of a batch that nobody commits keeps     *)
(* SQLite's write lock until the process ends.                             *)
(*                                                                         *)
(* An entry of the index is a build; its key is the position in the index, *)
(* and its time of the same magnitude.  Selectors are left out: all        *)
(* metrics of a build share one.                                           *)
(***************************************************************************)
EXTENDS Integers, FiniteSets

CONSTANTS
    MaxKey,         \* the index has the keys 1..MaxKey in the end
    Entry,          \* the entry of every key: [job, number, at, stamped,
                    \* metrics, release]
    Duration,       \* the metric job:duration:total:seconds
    Zero,           \* the identifier 0, which no metric has
    MaxBatch,       \* maxBatch, inserts per transaction
    MaxFaults,      \* bound: reads and inserts that fail
    MaxCrashes      \* bound: crashes of the process

Keys == 1..MaxKey
Jobs == {Entry[k].job : k \in Keys}
Metrics == UNION {Entry[k].metrics : k \in Keys}

\* A build is indexed when it has completed, or later.
ASSUME MetricIndexAssumption ==
    /\ MaxKey \in Nat /\ MaxBatch \in Nat \ {0} /\ MaxFaults \in Nat /\ MaxCrashes \in Nat
    /\ \A k \in Keys : /\ Entry[k].number \in BOOLEAN /\ Entry[k].stamped \in BOOLEAN
                       /\ Entry[k].release \in BOOLEAN /\ Entry[k].at \in 1..k
    /\ Zero \notin Metrics

VARIABLES
    newest,     \* the newest key in the bucket
    oldest,     \* values older than this have expired
    db,         \* the committed rows: [jobs, metrics, values, releases, lastKey]
    locked,     \* a transaction that nobody will commit holds the write lock
    scan,       \* indexFromGCS: [pc, key, todo, fresh, released, range, ids]
    batch,      \* metricBatchInserter: [tx, inserted, last, dirty]
    count,      \* [faults, crashes] so far
    skipped,    \* history: keys skipped because of the range of their job
    introduced  \* history: keys with a metric that the database did not have

vars == <<newest, oldest, db, locked, scan, batch, count, skipped, introduced>>

\* A row of metric_value: the value of a metric of a build under an identifier,
\* its own or 0; build and identifier are the primary key.
Row == [key : Keys, id : Metrics \cup {Zero}, metric : Metrics]
NoRows == [jobs |-> {}, metrics |-> {}, values |-> {}, releases |-> {}]
NoTx == [open |-> FALSE, rows |-> NoRows]
Idle == [pc |-> "idle", key |-> 0, todo |-> {}, fresh |-> {}, released |-> FALSE,
         range |-> [j \in Jobs |-> [min |-> 0, max |-> 0]], jobIds |-> {}, metricIds |-> {}]
NewBatch(lastKey) == [tx |-> NoTx, inserted |-> 0, last |-> lastKey, dirty |-> FALSE]

RowsType == [jobs : SUBSET Jobs, metrics : SUBSET Metrics, values : SUBSET Row,
             releases : SUBSET Keys]
DbType == [jobs : SUBSET Jobs, metrics : SUBSET Metrics, values : SUBSET Row,
           releases : SUBSET Keys, lastKey : 0..MaxKey]
ScanType ==
    [pc : {"idle", "next", "values", "release", "end"}, key : 0..(MaxKey + 1),
     todo : SUBSET Metrics, fresh : SUBSET Metrics, released : BOOLEAN,
     range : [Jobs -> [min : 0..MaxKey, max : 0..MaxKey]],
     jobIds : SUBSET Jobs, metricIds : SUBSET Metrics]
BatchType == [tx : [open : BOOLEAN, rows : RowsType], inserted : 0..MaxBatch,
              last : 0..MaxKey, dirty : BOOLEAN]

TypeOK ==
    /\ newest \in 0..MaxKey /\ oldest \in 0..MaxKey /\ locked \in BOOLEAN
    /\ db \in DbType /\ scan \in ScanType /\ batch \in BatchType
    /\ \A r, s \in db.values : r.key = s.key /\ r.id = s.id => r = s
    /\ scan.fresh \subseteq scan.todo
    /\ count \in [faults : 0..MaxFaults, crashes : 0..MaxCrashes]
    /\ skipped \subseteq Keys /\ introduced \subseteq Keys

Init ==
    /\ newest = 0 /\ oldest = 0
    /\ db = [jobs |-> {}, metrics |-> {}, values |-> {}, releases |-> {}, lastKey |-> 0]
    /\ locked = FALSE
    /\ scan = Idle /\ batch = NewBatch(0)
    /\ count = [faults |-> 0, crashes |-> 0]
    /\ skipped = {} /\ introduced = {}

-----------------------------------------------------------------------------
(***************************************************************************)
(* The bucket and the clock (external).                                    *)
(***************************************************************************)
Upload ==
    /\ newest < MaxKey /\ newest' = newest + 1
    /\ UNCHANGED <<oldest, db, locked, scan, batch, count, skipped, introduced>>

Age ==
    /\ oldest < newest /\ oldest' = oldest + 1
    /\ UNCHANGED <<newest, db, locked, scan, batch, count, skipped, introduced>>

-----------------------------------------------------------------------------
(***************************************************************************)
(* The batch inserter.                                                     *)
(***************************************************************************)
\* A key is worth recording once the batch has seen another key before it.
CompletedKey(b, key) ==
    IF b.last = key THEN b
    ELSE [b EXCEPT !.last = key, !.dirty = @ \/ b.last > 0]

Committed(rows, lastKey) ==
    [jobs |-> db.jobs \cup rows.jobs, metrics |-> db.metrics \cup rows.metrics,
     values |-> db.values \cup rows.values, releases |-> db.releases \cup rows.releases,
     lastKey |-> lastKey]

\* Flush of a batch with progress: values and progress in one transaction.
Flush == db' = Committed(batch.tx.rows, batch.last)

-----------------------------------------------------------------------------
(***************************************************************************)
(* indexFromGCS.                                                           *)
(***************************************************************************)
\* The completion times stored for a job, under the metric's own identifier.
jobCompletion(j) ==
    LET times == {Entry[r.key].at : r \in {v \in db.values : v.id = Duration /\ Entry[v.key].job = j}}
    IN  IF times = {} THEN [min |-> 0, max |-> 0]
        ELSE [min |-> CHOOSE t \in times : \A u \in times : t <= u,
              max |-> CHOOSE t \in times : \A u \in times : u <= t]

Includes(r, v) == r.min > 0 /\ r.max > 0 /\ r.min <= v /\ v <= r.max

\* The scan starts with the last recorded key, or with the retention time.
Start == IF db.lastKey > 0 THEN db.lastKey ELSE IF oldest = 0 THEN 1 ELSE oldest

\* Run: what is stored is read, then what has expired is deleted.
Run ==
    /\ scan.pc = "idle" /\ newest > 0 /\ ~locked
    /\ scan' = [Idle EXCEPT !.pc = "next", !.key = Start,
                            !.range = [j \in Jobs |-> jobCompletion(j)],
                            !.jobIds = db.jobs, !.metricIds = db.metrics]
    /\ db' = [db EXCEPT !.values = {r \in @ : Entry[r.key].at >= oldest}]
    /\ batch' = NewBatch(db.lastKey)
    /\ UNCHANGED <<newest, oldest, locked, count, skipped, introduced>>

\* The deletion finds the database locked: Run fails, which ends the process.
RunFails ==
    /\ scan.pc = "idle" /\ locked
    /\ locked' = FALSE
    /\ UNCHANGED <<newest, oldest, db, scan, batch, count, skipped, introduced>>

InRange(k) ==
    /\ Entry[k].stamped \/ Duration \in Entry[k].metrics
    /\ Includes(scan.range[Entry[k].job], Entry[k].at)

\* An entry whose build has no number, or whose completion time (of the object's
\* metadata, or of the decoded entry) is in the range of its job.
SkipEntry ==
    /\ scan.pc = "next" /\ scan.key <= newest
    /\ ~Entry[scan.key].number \/ InRange(scan.key)
    /\ batch' = CompletedKey(batch, scan.key)
    /\ scan' = [scan EXCEPT !.key = @ + 1]
    /\ skipped' = IF Entry[scan.key].number THEN skipped \cup {scan.key} ELSE skipped
    /\ UNCHANGED <<newest, oldest, db, locked, count, introduced>>

\* txForInsert and one insert of rows.  A full batch is flushed first; one
\* without progress to record is not committed but left open, and the insert
\* then fails because the database is locked.
Insert(rows, next) ==
    LET full == batch.tx.open /\ batch.inserted >= MaxBatch
        old == IF full THEN NoRows ELSE batch.tx.rows
        new == [jobs |-> old.jobs \cup rows.jobs, metrics |-> old.metrics \cup rows.metrics,
                values |-> old.values \cup rows.values,
                releases |-> old.releases \cup rows.releases]
    IN
    IF full /\ ~batch.dirty
    THEN /\ locked' = TRUE
         /\ batch' = [batch EXCEPT !.tx = NoTx]
         /\ scan' = [scan EXCEPT !.pc = "end"]
         /\ UNCHANGED db
    ELSE /\ IF full THEN Flush ELSE UNCHANGED db
         /\ batch' = [batch EXCEPT !.tx = [open |-> TRUE, rows |-> new],
                                   !.inserted = IF full THEN 1 ELSE @ + 1,
                                   !.dirty = IF full THEN FALSE ELSE @]
         /\ scan' = next
         /\ UNCHANGED locked

\* The entry is read and decoded; its values are to be inserted.
ReadEntry ==
    /\ scan.pc = "next" /\ scan.key <= newest
    /\ Entry[scan.key].number /\ ~InRange(scan.key)
    /\ LET next == [scan EXCEPT !.pc = IF Entry[scan.key].metrics = {} THEN "release" ELSE "values",
                                !.todo = Entry[scan.key].metrics,
                                !.jobIds = @ \cup {Entry[scan.key].job}]
       IN  IF Entry[scan.key].job \in scan.jobIds
           THEN scan' = next /\ UNCHANGED <<db, batch, locked>>
           ELSE Insert([NoRows EXCEPT !.jobs = {Entry[scan.key].job}], next)
    /\ UNCHANGED <<newest, oldest, count, skipped, introduced>>

\* Plausible bug: a failure in the middle of an entry is not noticed.
ScanFailsUnnoticed ==
    /\ scan.pc \in {"values", "release"} /\ count.faults < MaxFaults
    /\ count' = [count EXCEPT !.faults = @ + 1]
    /\ batch' = CompletedKey(batch, scan.key)
    /\ scan' = [scan EXCEPT !.pc = "next", !.key = @ + 1]
    /\ UNCHANGED <<newest, oldest, db, locked, skipped, introduced>>

\* A read or an insert fails.  EachJob drops the error, and Run goes on as if the
\* scan had reached the end.
ScanFails ==
    /\ scan.pc \in {"next", "values", "release"} /\ count.faults < MaxFaults
    /\ count' = [count EXCEPT !.faults = @ + 1]
    /\ scan' = [scan EXCEPT !.pc = "end"]
    /\ UNCHANGED <<newest, oldest, db, locked, batch, skipped, introduced>>

\* A metric that is new gets a row of its own, in the order of a map.
InsertMetric ==
    /\ scan.pc = "values" /\ scan.fresh = {}
    /\ \E m \in scan.todo \ scan.metricIds :
          Insert([NoRows EXCEPT !.metrics = {m}],
                 [scan EXCEPT !.fresh = {m}, !.metricIds = @ \cup {m}])
    /\ introduced' = introduced \cup {scan.key}
    /\ UNCHANGED <<newest, oldest, count, skipped>>

\* Plausible bug: the table does not refuse a second value.
InsertMetricValueTwice ==
    /\ scan.pc = "values"
    /\ \E m \in IF scan.fresh = {} THEN scan.todo \cap scan.metricIds ELSE scan.fresh :
          Insert([NoRows EXCEPT !.values =
                    {[key |-> scan.key, id |-> IF scan.fresh = {} THEN m ELSE Zero, metric |-> m]}],
                 [scan EXCEPT !.todo = @ \ {m}, !.fresh = {},
                              !.pc = IF scan.todo = {m} THEN "release" ELSE @])
    /\ UNCHANGED <<newest, oldest, count, skipped, introduced>>

\* The value of a metric that was known is stored under its identifier; that of
\* a new one under 0 (a variable of the inner block has the new identifier).  On
\* a conflict nothing is stored.
InsertMetricValue ==
    /\ scan.pc = "values"
    /\ \E m \in IF scan.fresh = {} THEN scan.todo \cap scan.metricIds ELSE scan.fresh :
          LET row == [key |-> scan.key, id |-> IF scan.fresh = {} THEN m ELSE Zero, metric |-> m]
              conflict == \E r \in db.values \cup batch.tx.rows.values :
                             r.key = row.key /\ r.id = row.id
          IN  Insert([NoRows EXCEPT !.values = IF conflict THEN {} ELSE {row}],
                     [scan EXCEPT !.todo = @ \ {m}, !.fresh = {},
                                  !.pc = IF scan.todo = {m} THEN "release" ELSE @])
    /\ UNCHANGED <<newest, oldest, count, skipped, introduced>>

\* The versions that the entry's metrics name, then the entry is complete.
InsertReleaseJob ==
    /\ scan.pc = "release" /\ Entry[scan.key].release /\ ~scan.released
    /\ Insert([NoRows EXCEPT !.releases = {scan.key}], [scan EXCEPT !.released = TRUE])
    /\ UNCHANGED <<newest, oldest, count, skipped, introduced>>

CompleteEntry ==
    /\ scan.pc = "release" /\ (Entry[scan.key].release => scan.released)
    /\ batch' = CompletedKey(batch, scan.key)
    /\ scan' = [scan EXCEPT !.pc = "next", !.key = @ + 1, !.released = FALSE]
    /\ UNCHANGED <<newest, oldest, db, locked, count, skipped, introduced>>

\* Plausible bug: what is left in the batch at the end is not flushed.
EndScanUnflushed ==
    /\ scan.pc = "end" \/ (scan.pc = "next" /\ scan.key > newest)
    /\ locked' = (locked \/ batch.tx.open)
    /\ scan' = Idle /\ batch' = NewBatch(0)
    /\ UNCHANGED <<newest, oldest, db, count, skipped, introduced>>

\* The end of the scan: Flush.  Without progress the transaction is left open.
EndScan ==
    /\ scan.pc = "end" \/ (scan.pc = "next" /\ scan.key > newest)
    /\ IF batch.dirty THEN Flush /\ UNCHANGED locked
       ELSE locked' = (locked \/ batch.tx.open) /\ UNCHANGED db
    /\ scan' = Idle /\ batch' = NewBatch(0)
    /\ UNCHANGED <<newest, oldest, count, skipped, introduced>>

Crash ==
    /\ scan.pc # "idle" /\ count.crashes < MaxCrashes
    /\ count' = [count EXCEPT !.crashes = @ + 1]
    /\ scan' = Idle /\ batch' = NewBatch(0) /\ locked' = FALSE
    /\ UNCHANGED <<newest, oldest, db, skipped, introduced>>

-----------------------------------------------------------------------------
indexFromGCS ==
    \/ SkipEntry \/ ReadEntry \/ InsertMetric \/ InsertMetricValue \/ InsertReleaseJob
    \/ CompleteEntry \/ EndScan

Next ==
    \/ Upload \/ Age \/ Run \/ RunFails
    \/ SkipEntry \/ ReadEntry \/ InsertMetric \/ InsertMetricValue \/ InsertReleaseJob
    \/ CompleteEntry \/ ScanFails \/ EndScan \/ Crash

\* Run is repeated and entries arrive; and it is assumed of the bucket and of the
\* database, which have no deadline, that requests and statements end.
Fairness == WF_vars(Upload) /\ WF_vars(Run) /\ WF_vars(RunFails) /\ WF_vars(indexFromGCS)

Spec == Init /\ [][Next]_vars
FairSpec == Spec /\ Fairness

-----------------------------------------------------------------------------
(***************************************************************************)
(* Properties.                                                             *)
(***************************************************************************)
Stored(k) ==
    /\ \A m \in Entry[k].metrics : \E r \in db.values : r.key = k /\ r.metric = m
    /\ Entry[k].release => k \in db.releases

\* What the recorded key stands for: every entry up to it has all its values and
\* versions in the database - over crashes, failed reads and inserts, batches
\* that end in the middle of an entry and scans that start over - unless it has
\* expired, has no build number, was skipped because the completion time lies in
\* the range of its job, or brought a metric that was new (whose value
\* gets the identifier 0, where two of them collide).
RecordedIsStored ==
    \A k \in 1..db.lastKey :
        \/ Stored(k) \/ Entry[k].at < oldest \/ ~Entry[k].number
        \/ k \in skipped \/ k \in introduced

\* The scan gets to the end of the index, whatever fails and however often the
\* process ends, once two of its entries are within the retention time (the
\* first key alone is never recorded, nor are its values committed) and a batch
\* holds two entries (a full batch without progress is never committed).
EventuallyRecorded == <>[](oldest < newest => db.lastKey = newest)

\* An entry that is skipped because of its completion time is already stored.
SkippedIsStored == \A k \in skipped : Stored(k) \/ Entry[k].at < oldest
=============================================================================

-------------------------- MODULE MetricIndexProofs --------------------------
(***************************************************************************)
(* The recorded key of the job-metrics index stands for what is in the     *)
(* database, for any index, size of the batches, and number of failures    *)
(* and crashes.                                                            *)
(*                                                                         *)
(* The recorded key is the last completed one at some flush, so that the   *)
(* invariant has to speak of the rows that are still in the transaction:   *)
(* with them, every entry behind the scan is stored, and the current one   *)
(* but for its metrics to do.  The transaction is lost only in a crash, or *)
(* when there is no progress to record.                                    *)
(***************************************************************************)
EXTENDS MetricIndex, WellFoundedInduction, TLAPS

Active == scan.pc \in {"next", "values", "release"}

\* The rows of the database and of the transaction.
Values == db.values \cup batch.tx.rows.values
Releases == db.releases \cup batch.tx.rows.releases

Excused(k) == Entry[k].at < oldest \/ ~Entry[k].number \/ k \in skipped \/ k \in introduced

\* A metric of an entry has its row.
Has(k, m) == \E r \in Values : r.key = k /\ r.metric = m

\* An entry will be stored once the transaction is committed.
Ready(k) ==
    \/ Excused(k)
    \/ (\A m \in Entry[k].metrics : Has(k, m)) /\ (Entry[k].release => k \in Releases)

\* The primary key holds for the transaction too, and an identifier other than 0
\* is that of the metric.
Identified ==
    /\ \A r, s \in Values : r.key = s.key /\ r.id = s.id => r = s
    /\ \A r \in Values : r.id # Zero => r.id = r.metric

\* Where the scan is.
Position ==
    /\ Active => scan.key # 0 /\ (batch.tx.open \/ batch.inserted = 0)
    /\ scan.pc \in {"values", "release"} => scan.key \in Keys
    /\ scan.pc = "release" => scan.todo = {}

\* The entries before the current one, and those up to the last completed key,
\* will be stored - unless the scan has failed with nothing to record.
Behind ==
    /\ Active => \A k \in 1..(scan.key - 1) : Ready(k)
    /\ Active \/ (scan.pc = "end" /\ batch.dirty) => \A k \in 1..batch.last : Ready(k)

\* What has been inserted of the current entry.
Current ==
    /\ scan.pc \in {"values", "release"} =>
          \A m \in Entry[scan.key].metrics \ scan.todo :
              Has(scan.key, m) \/ scan.key \in introduced
    /\ Active /\ scan.fresh # {} => scan.pc = "values" /\ scan.key \in introduced
    /\ Active /\ scan.released => scan.pc = "release" /\ scan.key \in Releases

IInv == TypeOK /\ Identified /\ Position /\ Behind /\ Current /\ RecordedIsStored

\* What an insert does when it succeeds: the rows are in the transaction, or in a
\* new one after the old one was committed with the last completed key.
Inserted(rows, next) ==
    /\ scan' = next /\ locked' = locked
    /\ Values' = Values \cup rows.values /\ Releases' = Releases \cup rows.releases
    /\ batch' \in BatchType /\ batch'.last = batch.last
    /\ batch'.tx.open \/ batch'.inserted = 0
    /\ db' \in DbType
    /\ \/ db' = db
       \/ db'.values = Values /\ db'.releases = Releases /\ db'.lastKey = batch.last

\* And when the database is locked by the full batch.
LockedOut ==
    /\ locked' = TRUE /\ db' = db /\ ~batch.dirty
    /\ batch' = [batch EXCEPT !.tx = NoTx]
    /\ scan' = [scan EXCEPT !.pc = "end"]

-----------------------------------------------------------------------------
\* A set of numbers has a least one,
LEMMA HasLeast ==
    ASSUME NEW T, T \subseteq Nat, T # {}
    PROVE  \E x \in T : \A y \in T : x <= y
<1>1. PICK x \in T : \A y \in T : ~ (<<y, x>> \in OpToRel(<, Nat))
  BY NatLessThanWellFounded, WFMin
<1>2. \A y \in T : ~(y < x)
  BY <1>1 DEF OpToRel
<1> QED BY <1>2

\* and a bounded one a greatest.
LEMMA HasGreatest ==
    ASSUME NEW T, NEW n \in Nat, T \subseteq 0..n, T # {}
    PROVE  \E x \in T : \A y \in T : y <= x
<1> DEFINE S == {n - t : t \in T}
<1>1. PICK u \in T : TRUE
  OBVIOUS
<1>2. S \subseteq Nat /\ n - u \in S
  OBVIOUS
<1>3. PICK x \in S : \A y \in S : x <= y
  BY <1>2, HasLeast
<1>4. PICK t \in T : x = n - t
  OBVIOUS
<1>5. \A y \in T : n - t <= n - y
  BY <1>3, <1>4
<1> QED BY <1>5

\* The range of the completion times of a job.
LEMMA RangeType ==
    ASSUME TypeOK, NEW j \in Jobs
    PROVE  jobCompletion(j) \in [min : 0..MaxKey, max : 0..MaxKey]
<1> DEFINE times == {Entry[r.key].at : r \in {v \in db.values : v.id = Duration
                                                              /\ Entry[v.key].job = j}}
<1>1. times \subseteq 0..MaxKey /\ MaxKey \in Nat
  <2>1. \A r \in db.values : r.key \in 1..MaxKey
    BY DEF TypeOK, DbType, Row, Keys
  <2>2. \A k \in 1..MaxKey : Entry[k].at \in 0..MaxKey
    BY MetricIndexAssumption DEF Keys
  <2> QED BY <2>1, <2>2, MetricIndexAssumption
<1>2. CASE times = {}
  BY <1>1, <1>2 DEF jobCompletion
<1>3. CASE times # {}
  <2> DEFINE lo == CHOOSE t \in times : \A u \in times : t <= u
             hi == CHOOSE t \in times : \A u \in times : u <= t
  <2>1. jobCompletion(j) = [min |-> lo, max |-> hi]
    BY <1>3 DEF jobCompletion
  <2> HIDE DEF times
  <2>2. lo \in times
    <3>1. times \subseteq Nat
      BY <1>1
    <3>2. \E t \in times : \A u \in times : t <= u
      BY <1>3, <3>1, HasLeast
    <3> QED BY <3>2
  <2>3. hi \in times
    BY <1>1, <1>3, HasGreatest
  <2> HIDE DEF lo, hi
  <2> QED BY <1>1, <2>1, <2>2, <2>3
<1> QED BY <1>2, <1>3

\* The types that the proofs need of the records.
LEMMA Types ==
    ASSUME TypeOK
    PROVE  /\ MaxKey \in Nat /\ newest \in Nat /\ oldest \in Nat
           /\ newest <= MaxKey /\ oldest <= MaxKey
           /\ scan.key \in Nat /\ scan.key <= MaxKey + 1
           /\ batch.last \in Nat /\ batch.last <= MaxKey
           /\ db.lastKey \in Nat /\ db.lastKey <= MaxKey
           /\ batch.inserted \in Nat /\ batch.inserted <= MaxBatch
  BY MetricIndexAssumption DEF TypeOK, ScanType, BatchType, DbType

\* An insert succeeds or is locked out.
LEMMA InsertIs ==
    ASSUME TypeOK, Position, Active, NEW rows \in RowsType, NEW next, Insert(rows, next)
    PROVE  LockedOut \/ Inserted(rows, next)
<1> DEFINE full == batch.tx.open /\ batch.inserted >= MaxBatch
           old == IF full THEN NoRows ELSE batch.tx.rows
           new == [jobs |-> old.jobs \cup rows.jobs, metrics |-> old.metrics \cup rows.metrics,
                   values |-> old.values \cup rows.values,
                   releases |-> old.releases \cup rows.releases]
<1>0. /\ db \in DbType /\ batch \in BatchType /\ batch.tx.rows \in RowsType /\ NoRows \in RowsType
      /\ MaxBatch \in Nat \ {0} /\ batch.inserted \in 0..MaxBatch /\ batch.last \in 0..MaxKey
  BY MetricIndexAssumption DEF TypeOK, BatchType, NoRows, RowsType
<1>1. CASE full /\ ~batch.dirty
  BY <1>1 DEF Insert, LockedOut
<1>2. CASE ~full \/ batch.dirty
  <2>1. new \in RowsType
    <3>1. old \in RowsType
      BY <1>0
    <3> QED BY <3>1 DEF RowsType
  <2>2. /\ new.values = old.values \cup rows.values
        /\ new.releases = old.releases \cup rows.releases
    OBVIOUS
  <2>3. /\ batch' = [batch EXCEPT !.tx = [open |-> TRUE, rows |-> new],
                                  !.inserted = IF full THEN 1 ELSE @ + 1,
                                  !.dirty = IF full THEN FALSE ELSE @]
        /\ scan' = next /\ locked' = locked
    BY <1>2 DEF Insert
  <2>4. full => db' = Committed(batch.tx.rows, batch.last)
    BY <1>2 DEF Insert, Flush
  <2>5. ~full => db' = db
    BY <1>2 DEF Insert
  <2>6. full => old.values = {} /\ old.releases = {}
    BY DEF NoRows
  <2>7. ~full => old = batch.tx.rows
    OBVIOUS
  <2>8. ~full => batch.inserted + 1 \in 0..MaxBatch
    BY <1>0 DEF Position
  <2> HIDE DEF new, old, full
  <2>9. /\ batch'.tx = [open |-> TRUE, rows |-> new] /\ batch'.last = batch.last
        /\ batch' \in BatchType
    <3>1. (IF full THEN 1 ELSE batch.inserted + 1) \in 0..MaxBatch
      BY <1>0, <2>8
    <3>2. [open |-> TRUE, rows |-> new] \in [open : BOOLEAN, rows : RowsType]
      BY <2>1
    <3> QED BY <1>0, <2>3, <3>1, <3>2 DEF BatchType
  <2>10. batch'.tx.open /\ batch'.tx.rows = new
    BY <2>9
  <2>11. CASE full
    <3>1. /\ db'.values = Values /\ db'.releases = Releases /\ db'.lastKey = batch.last
          /\ db' \in DbType
      BY <1>0, <2>4, <2>11 DEF Committed, Values, Releases, DbType, RowsType
    <3>2. Values' = Values \cup rows.values /\ Releases' = Releases \cup rows.releases
      BY <2>2, <2>6, <2>10, <2>11, <3>1 DEF Values, Releases
    <3> QED BY <2>3, <2>9, <2>10, <3>1, <3>2 DEF Inserted
  <2>12. CASE ~full
    <3>1. Values' = Values \cup rows.values /\ Releases' = Releases \cup rows.releases
      BY <2>2, <2>5, <2>7, <2>10, <2>12 DEF Values, Releases
    <3> QED BY <1>0, <2>3, <2>5, <2>9, <2>10, <2>12, <3>1 DEF Inserted
  <2> QED BY <2>11, <2>12
<1> QED BY <1>1, <1>2

-----------------------------------------------------------------------------
\* What is ready or stored stays so while rows are only added.
LEMMA ReadyStays ==
    ASSUME NEW k \in Keys, Ready(k), Values \subseteq Values', Releases \subseteq Releases',
           oldest \in Nat, oldest' \in Nat, oldest <= oldest',
           skipped \subseteq skipped', introduced \subseteq introduced'
    PROVE  Ready(k)'
<1>1. Entry[k].at \in Nat
  BY MetricIndexAssumption DEF Keys
<1>2. Excused(k) => Excused(k)'
  BY <1>1 DEF Excused
<1>3. \A m \in Entry[k].metrics : Has(k, m) => Has(k, m)'
  BY DEF Has
<1> QED BY <1>2, <1>3 DEF Ready

\* The same for the database.
LEMMA RecordedStays ==
    ASSUME TypeOK, RecordedIsStored, db.values \subseteq db'.values, db.releases \subseteq db'.releases,
           db'.lastKey = db.lastKey,
           oldest \in Nat, oldest' \in Nat, oldest <= oldest',
           skipped \subseteq skipped', introduced \subseteq introduced'
    PROVE  RecordedIsStored'
<1> SUFFICES ASSUME NEW k \in 1..db.lastKey
             PROVE  \/ Stored(k)' \/ Entry[k].at < oldest' \/ ~Entry[k].number
                    \/ k \in skipped' \/ k \in introduced'
  BY DEF RecordedIsStored
<1>1. k \in Keys /\ Entry[k].at \in Nat
  BY Types, MetricIndexAssumption DEF Keys
<1>2. Stored(k) => Stored(k)'
  BY DEF Stored
<1> QED BY <1>1, <1>2 DEF RecordedIsStored

\* A flush of what is ready records only what is stored.
LEMMA FlushRecords ==
    ASSUME TypeOK, \A k \in 1..batch.last : Ready(k), db'.values = Values, db'.releases = Releases,
           db'.lastKey = batch.last, oldest' = oldest, skipped' = skipped, introduced \subseteq introduced'
    PROVE  RecordedIsStored'
<1> SUFFICES ASSUME NEW k \in 1..batch.last
             PROVE  \/ Stored(k)' \/ Entry[k].at < oldest' \/ ~Entry[k].number
                    \/ k \in skipped' \/ k \in introduced'
  BY DEF RecordedIsStored
<1>1. CASE Excused(k)
  BY <1>1 DEF Excused
<1>2. CASE ~Excused(k)
  <2>1. (\A m \in Entry[k].metrics : Has(k, m)) /\ (Entry[k].release => k \in Releases)
    BY <1>2 DEF Ready
  <2>2. Stored(k)'
    BY <2>1 DEF Stored, Has
  <2> QED BY <2>2
<1> QED BY <1>1, <1>2

-----------------------------------------------------------------------------
\* The scan goes on with the rows inserted, if next is what the code makes of it.
LEMMA InsertedKeeps ==
    ASSUME IInv, Active, NEW rows \in RowsType, NEW next \in ScanType, Inserted(rows, next),
           UNCHANGED <<newest, oldest, count, skipped>>,
           introduced \subseteq introduced', introduced' \subseteq Keys, scan.key \in Keys,
           next.key = scan.key, next.pc \in {"values", "release"},
           next.fresh \subseteq next.todo, next.pc = "release" => next.todo = {},
           \A r, s \in rows.values : r = s,
           \A r \in rows.values : /\ r.id # Zero => r.id = r.metric
                                  /\ \A s \in Values : s.key # r.key \/ s.id # r.id,
           \A m \in Entry[scan.key].metrics \ next.todo :
               \/ Has(scan.key, m) \/ scan.key \in introduced'
               \/ \E r \in rows.values : r.key = scan.key /\ r.metric = m,
           next.fresh # {} => next.pc = "values" /\ scan.key \in introduced',
           next.released => next.pc = "release" /\ scan.key \in Releases \cup rows.releases
    PROVE  IInv'
<1>0. /\ scan' = next /\ locked' = locked
      /\ Values' = Values \cup rows.values /\ Releases' = Releases \cup rows.releases
      /\ batch' \in BatchType /\ batch'.last = batch.last
      /\ (batch'.tx.open \/ batch'.inserted = 0) /\ db' \in DbType
      /\ db' = db \/ (db'.values = Values /\ db'.releases = Releases /\ db'.lastKey = batch.last)
  BY DEF Inserted
<1>1. Identified'
  <2>1. \A r, s \in Values' : r.key = s.key /\ r.id = s.id => r = s
    BY <1>0 DEF IInv, Identified
  <2>2. \A r \in Values' : r.id # Zero => r.id = r.metric
    BY <1>0 DEF IInv, Identified
  <2> QED BY <2>1, <2>2 DEF Identified
<1>2. TypeOK'
  <2>1. \A r, s \in db'.values : r.key = s.key /\ r.id = s.id => r = s
    BY <1>1 DEF Identified, Values
  <2> QED BY <1>0, <2>1 DEF IInv, TypeOK
<1>3. Position'
  <2>1. scan.key # 0
    BY MetricIndexAssumption DEF Keys
  <2> QED BY <1>0, <2>1 DEF Position, Active
<1>4. \A k \in Keys : Ready(k) => Ready(k)'
  BY <1>0, Types, ReadyStays DEF IInv
<1>5. Behind'
  <2>1. \A k \in 1..(scan.key - 1) : k \in Keys /\ Ready(k)
    BY MetricIndexAssumption DEF IInv, Behind, Keys
  <2>2. \A k \in 1..batch.last : k \in Keys /\ Ready(k)
    BY Types DEF IInv, Behind, Keys
  <2> QED BY <1>0, <1>4, <2>1, <2>2 DEF Behind
<1>6. Current'
  <2>1. \A m \in Entry[scan.key].metrics \ next.todo :
           Has(scan.key, m)' \/ scan.key \in introduced'
    BY <1>0 DEF Has
  <2> QED BY <1>0, <2>1 DEF Current, Active
<1>7. RecordedIsStored'
  <2>1. CASE db' = db
    BY <2>1, Types, RecordedStays DEF IInv
  <2>2. CASE db'.values = Values /\ db'.releases = Releases /\ db'.lastKey = batch.last
    <3>1. \A k \in 1..batch.last : Ready(k)
      BY DEF IInv, Behind
    <3> QED BY <2>2, <3>1, FlushRecords DEF IInv
  <2> QED BY <1>0, <2>1, <2>2
<1> QED BY <1>1, <1>2, <1>3, <1>5, <1>6, <1>7 DEF IInv

\* A scan that ends without progress or with the rows it has.
LEMMA Stops ==
    ASSUME IInv, scan' = [scan EXCEPT !.pc = "end"], db' = db, locked' \in BOOLEAN,
           \/ batch' = batch /\ Active
           \/ batch' = [batch EXCEPT !.tx = NoTx] /\ ~batch.dirty,
           UNCHANGED <<newest, oldest, skipped>>,
           introduced \subseteq introduced', introduced' \subseteq Keys,
           count' \in [faults : 0..MaxFaults, crashes : 0..MaxCrashes]
    PROVE  IInv'
<1>0. /\ scan \in ScanType /\ batch \in BatchType /\ TypeOK
      /\ scan.fresh \subseteq scan.todo
  BY DEF IInv, TypeOK
<1>1. /\ scan' \in ScanType /\ scan'.pc = "end" /\ scan'.key = scan.key
      /\ scan'.todo = scan.todo /\ scan'.fresh = scan.fresh
  BY <1>0 DEF ScanType
<1>2. batch' \in BatchType /\ batch'.dirty = batch.dirty /\ batch'.last = batch.last
  <2>1. NoTx \in [open : BOOLEAN, rows : RowsType]
    BY DEF NoTx, NoRows, RowsType
  <2> QED BY <1>0, <2>1 DEF BatchType
<1>3. Values' \subseteq Values
  <2>1. batch'.tx.rows.values \subseteq batch.tx.rows.values
    BY <1>0 DEF BatchType, NoTx, NoRows
  <2> QED BY <2>1 DEF Values
<1>4. TypeOK'
  BY <1>0, <1>1, <1>2 DEF TypeOK
<1>5. Identified'
  BY <1>3 DEF IInv, Identified
<1>6. Position' /\ Current'
  BY <1>1 DEF Position, Current, Active
<1>7. Behind'
  <2>1. CASE batch.dirty
    <3>1. batch' = batch /\ Active
      BY <2>1
    <3>2. \A k \in 1..batch.last : k \in Keys /\ Ready(k)
      BY <1>0, <3>1, Types DEF IInv, Behind, Keys
    <3>3. Values' = Values /\ Releases' = Releases
      BY <3>1 DEF Values, Releases
    <3>4. \A k \in 1..batch.last : Ready(k)'
      BY <1>0, <3>2, <3>3, Types, ReadyStays
    <3> QED BY <1>1, <3>1, <3>4 DEF Behind, Active
  <2>2. CASE ~batch.dirty
    BY <1>1, <1>2, <2>2 DEF Behind, Active
  <2> QED BY <2>1, <2>2
<1>8. RecordedIsStored'
  BY <1>0, Types, RecordedStays DEF IInv
<1> QED BY <1>4, <1>5, <1>6, <1>7, <1>8 DEF IInv

\* After the end of a scan, or of the process, there is the database.
LEMMA Rests ==
    ASSUME IInv, scan' = Idle, batch' = NewBatch(0), locked' \in BOOLEAN, db' \in DbType,
           db'.values \subseteq Values, RecordedIsStored',
           UNCHANGED <<newest, oldest, skipped, introduced>>,
           count' \in [faults : 0..MaxFaults, crashes : 0..MaxCrashes]
    PROVE  IInv'
<1>1. Idle \in ScanType /\ Idle.pc = "idle" /\ Idle.fresh = {} /\ Idle.todo = {}
  BY MetricIndexAssumption DEF Idle, ScanType
<1>2. NewBatch(0) \in BatchType /\ NewBatch(0).tx.rows.values = {}
  BY MetricIndexAssumption DEF NewBatch, BatchType, NoTx, NoRows, RowsType
<1>3. Values' \subseteq Values
  BY <1>2 DEF Values
<1>4. Identified'
  BY <1>3 DEF IInv, Identified
<1>5. TypeOK'
  <2>1. \A r, s \in db'.values : r.key = s.key /\ r.id = s.id => r = s
    BY DEF IInv, Identified
  <2> QED BY <1>1, <1>2, <2>1 DEF IInv, TypeOK
<1>6. Position' /\ Current' /\ Behind'
  BY <1>1 DEF Position, Current, Behind, Active
<1> QED BY <1>4, <1>5, <1>6 DEF IInv

\* A key that is completed: the entry is ready, and so is everything before it.
LEMMA Completes ==
    ASSUME IInv, Active, scan.key \in Keys, batch' = CompletedKey(batch, scan.key),
           scan' \in ScanType, scan'.pc = "next", scan'.key = scan.key + 1,
           scan'.fresh = {}, ~scan'.released, \A k \in Keys : k = scan.key => Ready(k)',
           UNCHANGED <<newest, oldest, db, locked, count, introduced>>,
           skipped \subseteq skipped', skipped' \subseteq Keys
    PROVE  IInv'
<1>0. TypeOK /\ batch \in BatchType /\ scan.key \in 0..MaxKey
  BY MetricIndexAssumption DEF IInv, TypeOK, Keys
<1>1. /\ batch' \in BatchType /\ batch'.tx = batch.tx /\ batch'.inserted = batch.inserted
      /\ batch'.last = scan.key
  BY <1>0 DEF CompletedKey, BatchType
<1>2. Values' = Values /\ Releases' = Releases
  BY <1>1 DEF Values, Releases
<1>3. TypeOK'
  BY <1>0, <1>1 DEF TypeOK
<1>4. Identified'
  BY <1>2 DEF IInv, Identified
<1>5. Position'
  BY <1>0, <1>1 DEF IInv, Position, Active
<1>6. Current'
  BY DEF Current, Active
<1>7. \A k \in 1..scan.key : Ready(k)'
  <2>1. \A k \in 1..(scan.key - 1) : k \in Keys /\ Ready(k)
    BY <1>0, MetricIndexAssumption DEF IInv, Behind, Keys
  <2>2. \A k \in 1..(scan.key - 1) : Ready(k)'
    BY <1>0, <1>2, <2>1, Types, ReadyStays
  <2> QED BY <1>0, <2>2
<1>8. Behind'
  BY <1>0, <1>1, <1>7 DEF Behind
<1>9. RecordedIsStored'
  BY <1>0, Types, RecordedStays DEF IInv
<1> QED BY <1>3, <1>4, <1>5, <1>6, <1>8, <1>9 DEF IInv

-----------------------------------------------------------------------------
\* Upload, Age and RunFails leave the scan and the rows alone.
LEMMA Waits ==
    ASSUME IInv, Upload \/ Age \/ RunFails \/ UNCHANGED vars
    PROVE  IInv'
<1>0. /\ UNCHANGED <<db, scan, batch, count, skipped, introduced>>
      /\ oldest' \in Nat /\ oldest <= oldest' /\ oldest' <= MaxKey
      /\ newest' \in 0..MaxKey /\ locked' \in BOOLEAN /\ TypeOK
  <2>1. TypeOK /\ newest \in 0..MaxKey /\ oldest \in 0..MaxKey /\ locked \in BOOLEAN /\ MaxKey \in Nat
    BY MetricIndexAssumption DEF IInv, TypeOK
  <2>2. UNCHANGED <<db, scan, batch, count, skipped, introduced>>
    BY DEF Upload, Age, RunFails, vars
  <2>3. oldest' \in Nat /\ oldest <= oldest' /\ oldest' <= MaxKey
    BY <2>1 DEF Upload, Age, RunFails, vars
  <2>4. newest' \in 0..MaxKey
    BY <2>1 DEF Upload, Age, RunFails, vars
  <2>5. locked' \in BOOLEAN
    BY <2>1 DEF Upload, Age, RunFails, vars
  <2> QED BY <2>1, <2>2, <2>3, <2>4, <2>5
<1>1. Values' = Values /\ Releases' = Releases
  BY <1>0 DEF Values, Releases
<1>2. \A k \in Keys : Ready(k) => Ready(k)'
  BY <1>0, <1>1, Types, ReadyStays
<1>3. TypeOK'
  BY <1>0, Types DEF TypeOK
<1>4. Identified' /\ Position'
  BY <1>0, <1>1 DEF IInv, Identified, Position, Active
<1>5. Current'
  BY <1>0, <1>1 DEF IInv, Current, Active, Has
<1>6. Behind'
  <2>1. \A k \in 1..(scan.key - 1) : k \in Keys
    BY <1>0, Types DEF Keys
  <2>2. \A k \in 1..batch.last : k \in Keys
    BY <1>0, Types DEF Keys
  <2>3. Active' <=> Active
    BY <1>0 DEF Active
  <2> QED BY <1>0, <1>2, <2>1, <2>2, <2>3 DEF IInv, Behind
<1>7. RecordedIsStored'
  BY <1>0, Types, RecordedStays DEF IInv
<1> QED BY <1>3, <1>4, <1>5, <1>6, <1>7 DEF IInv

\* Run deletes what has expired, and starts where the last scan ended.
LEMMA RunStarts == ASSUME IInv, Run PROVE IInv'
<1>0. /\ TypeOK /\ db \in DbType /\ newest \in 0..MaxKey /\ oldest \in 0..MaxKey
      /\ MaxKey \in Nat /\ newest > 0 /\ db.lastKey \in 0..MaxKey
      /\ UNCHANGED <<newest, oldest, locked, count, skipped, introduced>>
      /\ batch' = NewBatch(db.lastKey)
  BY MetricIndexAssumption DEF IInv, TypeOK, DbType, Run
<1>1. Start \in 1..MaxKey
  BY <1>0 DEF Start
<1>2. /\ scan' \in ScanType /\ scan'.pc = "next" /\ scan'.key = Start
      /\ scan'.fresh = {} /\ ~scan'.released
  <2> DEFINE ranges == [j \in Jobs |-> jobCompletion(j)]
  <2>1. ranges \in [Jobs -> [min : 0..MaxKey, max : 0..MaxKey]]
    BY <1>0, RangeType
  <2>2. scan' = [Idle EXCEPT !.pc = "next", !.key = Start, !.range = ranges,
                             !.jobIds = db.jobs, !.metricIds = db.metrics]
    BY DEF Run
  <2> HIDE DEF ranges
  <2>3. Idle \in ScanType /\ Idle.fresh = {} /\ ~Idle.released
    BY <1>0 DEF Idle, ScanType
  <2>4. db.jobs \in SUBSET Jobs /\ db.metrics \in SUBSET Metrics /\ Start \in 0..(MaxKey + 1)
    BY <1>0, <1>1 DEF DbType
  <2> QED BY <2>1, <2>2, <2>3, <2>4 DEF ScanType
<1>3. /\ batch' \in BatchType /\ batch'.last = db.lastKey /\ batch'.inserted = 0
      /\ batch'.tx.rows.values = {} /\ batch'.tx.rows.releases = {}
  <2>1. NoTx \in [open : BOOLEAN, rows : RowsType] /\ NoTx.rows.values = {} /\ NoTx.rows.releases = {}
    BY DEF NoTx, NoRows, RowsType
  <2> QED BY <1>0, <2>1, MetricIndexAssumption DEF NewBatch, BatchType
<1>4. /\ db' \in DbType /\ db'.values = {r \in db.values : Entry[r.key].at >= oldest}
      /\ db'.releases = db.releases /\ db'.lastKey = db.lastKey
  BY <1>0 DEF Run, DbType
<1>5. Values' = db'.values /\ Releases' = db'.releases
  BY <1>3 DEF Values, Releases
<1>6. Identified'
  <2>1. Values' \subseteq Values
    BY <1>4, <1>5 DEF Values
  <2> QED BY <2>1 DEF IInv, Identified
<1>7. TypeOK'
  BY <1>0, <1>2, <1>3, <1>4 DEF TypeOK
<1>8. Position' /\ Current'
  BY <1>1, <1>2, <1>3 DEF Position, Current, Active
<1>9. ASSUME NEW k \in 1..db.lastKey
      PROVE  \/ Stored(k)' \/ Entry[k].at < oldest \/ ~Entry[k].number
             \/ k \in skipped \/ k \in introduced
  <2>1. Entry[k].at \in Nat
    BY <1>0, MetricIndexAssumption DEF Keys
  <2>2. CASE Stored(k) /\ Entry[k].at >= oldest
    BY <1>4, <2>2 DEF Stored
  <2>3. CASE ~Stored(k)
    BY <2>3 DEF IInv, RecordedIsStored
  <2> QED BY <1>0, <2>1, <2>2, <2>3
<1>10. RecordedIsStored'
  BY <1>0, <1>4, <1>9 DEF RecordedIsStored
<1>11. \A k \in 1..db.lastKey : Ready(k)'
  <2>1. \A k \in 1..db.lastKey : Stored(k)' => Ready(k)'
    BY <1>5 DEF Stored, Ready, Has
  <2> QED BY <1>0, <1>9, <2>1 DEF Ready, Excused
<1>12. \A k \in 1..(Start - 1) : Ready(k)'
  <2>1. CASE db.lastKey > 0
    BY <1>0, <1>11, <2>1 DEF Start
  <2>2. CASE ~(db.lastKey > 0)
    <3> SUFFICES ASSUME NEW k \in 1..(Start - 1) PROVE Ready(k)'
      OBVIOUS
    <3>1. k \in Keys /\ k < oldest
      BY <1>0, <2>2 DEF Start, Keys
    <3>2. Entry[k].at \in 1..k
      BY <3>1, MetricIndexAssumption
    <3> QED BY <1>0, <3>1, <3>2 DEF Ready, Excused, Keys
  <2> QED BY <2>1, <2>2
<1>13. Behind'
  BY <1>2, <1>3, <1>11, <1>12 DEF Behind
<1> QED BY <1>6, <1>7, <1>8, <1>10, <1>13 DEF IInv

\* An entry without a number or in the range of its job is passed over.
LEMMA SkipSkips == ASSUME IInv, SkipEntry PROVE IInv'
<1>0. TypeOK /\ scan \in ScanType /\ scan.key \in Nat \ {0} /\ scan.key <= newest /\ Active
  BY Types DEF IInv, TypeOK, SkipEntry, Position, Active
<1>1. scan.key \in Keys
  BY <1>0, Types DEF Keys
<1>2. /\ scan' \in ScanType /\ scan'.pc = "next" /\ scan'.key = scan.key + 1
      /\ scan'.fresh = scan.fresh /\ scan'.released = scan.released
  BY <1>0, <1>1, MetricIndexAssumption DEF SkipEntry, ScanType, Keys
<1>3. scan.fresh = {} /\ ~scan.released
  BY <1>0 DEF IInv, Current, SkipEntry
<1>4. \A k \in Keys : k = scan.key => Ready(k)'
  BY DEF SkipEntry, Ready, Excused
<1>5. skipped \subseteq skipped' /\ skipped' \subseteq Keys
  BY <1>0, <1>1 DEF SkipEntry, TypeOK
<1> QED BY <1>0, <1>1, <1>2, <1>3, <1>4, <1>5, Completes DEF SkipEntry

\* An entry is complete with its metrics and its versions.
LEMMA CompleteCompletes == ASSUME IInv, CompleteEntry PROVE IInv'
<1>0. TypeOK /\ scan \in ScanType /\ scan.key \in Keys /\ Active /\ scan.todo = {}
  BY DEF IInv, TypeOK, CompleteEntry, Position, Active
<1>1. /\ scan' \in ScanType /\ scan'.pc = "next" /\ scan'.key = scan.key + 1
      /\ scan'.fresh = scan.fresh /\ ~scan'.released
  <2>1. scan.key + 1 \in 0..(MaxKey + 1)
    BY <1>0, MetricIndexAssumption DEF Keys
  <2>2. scan' = [scan EXCEPT !.pc = "next", !.key = scan.key + 1, !.released = FALSE]
    BY DEF CompleteEntry
  <2> QED BY <1>0, <2>1, <2>2 DEF ScanType
<1>2. scan.fresh = {}
  BY <1>0 DEF IInv, Current, CompleteEntry
<1>3. batch'.tx = batch.tx
  BY <1>0 DEF CompleteEntry, CompletedKey, TypeOK, BatchType
<1>4. Values' = Values /\ Releases' = Releases
  BY <1>3 DEF CompleteEntry, Values, Releases
<1>5. ASSUME NEW k \in Keys, k = scan.key PROVE Ready(k)'
  <2>1. \A m \in Entry[k].metrics : Has(k, m) \/ k \in introduced
    BY <1>0, <1>5 DEF IInv, Current, CompleteEntry
  <2>2. Entry[k].release => k \in Releases
    BY <1>0, <1>5 DEF IInv, Current, CompleteEntry
  <2>3. introduced' = introduced
    BY DEF CompleteEntry
  <2> QED BY <1>4, <2>1, <2>2, <2>3 DEF Ready, Excused, Has
<1> QED BY <1>0, <1>1, <1>2, <1>5, Completes DEF CompleteEntry, IInv, TypeOK

\* The end of a scan, with or without a flush.
LEMMA EndRests == ASSUME IInv, EndScan PROVE IInv'
<1>0. TypeOK /\ batch.tx.rows \in RowsType /\ batch.last \in 0..MaxKey /\ batch.tx.open \in BOOLEAN
  BY DEF IInv, TypeOK, BatchType
<1>1. CASE batch.dirty
  <2>1. db' = Committed(batch.tx.rows, batch.last) /\ locked' = locked
    BY <1>1 DEF EndScan, Flush
  <2>2. /\ db'.values = Values /\ db'.releases = Releases /\ db'.lastKey = batch.last
        /\ db' \in DbType
    BY <1>0, <2>1 DEF Committed, Values, Releases, TypeOK, DbType, RowsType
  <2>3. \A k \in 1..batch.last : Ready(k)
    BY <1>1 DEF IInv, Behind, EndScan, Active
  <2>4. RecordedIsStored'
    BY <1>0, <2>2, <2>3, FlushRecords DEF EndScan
  <2> QED BY <1>0, <2>1, <2>2, <2>4, Rests DEF EndScan, TypeOK
<1>2. CASE ~batch.dirty
  <2>1. db' = db /\ locked' \in BOOLEAN
    BY <1>0, <1>2 DEF EndScan, TypeOK
  <2>2. RecordedIsStored'
    BY <1>0, <2>1, Types, RecordedStays DEF IInv, EndScan
  <2>3. db' \in DbType /\ db'.values \subseteq Values
    BY <1>0, <2>1 DEF TypeOK, Values
  <2> QED BY <1>0, <2>1, <2>2, <2>3, Rests DEF EndScan, TypeOK
<1> QED BY <1>1, <1>2

\* A crash loses the transaction.
LEMMA CrashRests == ASSUME IInv, Crash PROVE IInv'
<1>1. count' \in [faults : 0..MaxFaults, crashes : 0..MaxCrashes] /\ TypeOK
  BY MetricIndexAssumption DEF IInv, TypeOK, Crash
<1>2. RecordedIsStored'
  BY <1>1, Types, RecordedStays DEF IInv, Crash
<1>3. db' \in DbType /\ db'.values \subseteq Values /\ locked' \in BOOLEAN
  BY <1>1 DEF Crash, TypeOK, Values
<1> QED BY <1>1, <1>2, <1>3, Rests DEF Crash

\* A failure ends the scan.
LEMMA FailStops == ASSUME IInv, ScanFails PROVE IInv'
<1>1. count' \in [faults : 0..MaxFaults, crashes : 0..MaxCrashes] /\ TypeOK
  BY MetricIndexAssumption DEF IInv, TypeOK, ScanFails
<1> QED BY <1>1, Stops DEF ScanFails, Active, TypeOK

-----------------------------------------------------------------------------
\* An insert that is locked out ends the scan without progress.
LEMMA LockedOutStops ==
    ASSUME IInv, LockedOut, UNCHANGED <<newest, oldest, count, skipped>>,
           introduced \subseteq introduced', introduced' \subseteq Keys
    PROVE  IInv'
<1>1. count' \in [faults : 0..MaxFaults, crashes : 0..MaxCrashes]
  BY DEF IInv, TypeOK
<1> QED BY <1>1, Stops DEF LockedOut

\* The row of a job, then the metrics of the entry are to do.
LEMMA ReadEntryReads == ASSUME IInv, ReadEntry PROVE IInv'
<1>0. TypeOK /\ scan \in ScanType /\ scan.key \in Nat \ {0} /\ scan.key <= newest /\ Active
  BY Types DEF IInv, TypeOK, ReadEntry, Position, Active
<1>1. PICK k \in Keys : k = scan.key
  BY <1>0, Types DEF Keys
<1>2. PICK next : next = [scan EXCEPT !.pc = IF Entry[scan.key].metrics = {} THEN "release" ELSE "values",
                                      !.todo = Entry[scan.key].metrics,
                                      !.jobIds = @ \cup {Entry[scan.key].job}]
  OBVIOUS
<1>3. PICK rows : rows = [NoRows EXCEPT !.jobs = {Entry[k].job}]
  OBVIOUS
<1>4. Entry[k].job \in Jobs /\ Entry[k].metrics \subseteq Metrics
  BY DEF Jobs, Metrics
<1>5. /\ next \in ScanType /\ next.key = k /\ next.todo = Entry[k].metrics
      /\ next.pc = IF Entry[k].metrics = {} THEN "release" ELSE "values"
      /\ next.fresh = scan.fresh /\ next.released = scan.released
  BY <1>0, <1>1, <1>2, <1>4 DEF ScanType
<1>6. rows \in RowsType /\ rows.values = {} /\ rows.releases = {}
  BY <1>3, <1>4 DEF RowsType, NoRows
<1>7. scan.fresh = {} /\ ~scan.released
  BY <1>0 DEF IInv, Current, ReadEntry
<1>8. UNCHANGED <<newest, oldest, count, skipped, introduced>> /\ introduced \subseteq Keys
  BY <1>0 DEF ReadEntry, TypeOK
<1>9. LockedOut \/ Inserted(rows, next)
  <2>1. CASE Entry[k].job \in scan.jobIds
    <3>1. scan' = next /\ UNCHANGED <<db, batch, locked>>
      BY <1>1, <1>2, <2>1 DEF ReadEntry
    <3>2. Values' = Values \cup rows.values /\ Releases' = Releases \cup rows.releases
      BY <1>6, <3>1 DEF Values, Releases
    <3> QED BY <1>0, <3>1, <3>2 DEF IInv, TypeOK, Position, Inserted
  <2>2. CASE Entry[k].job \notin scan.jobIds
    <3>1. Insert(rows, next)
      BY <1>1, <1>2, <1>3, <2>2 DEF ReadEntry
    <3> QED BY <1>0, <1>6, <3>1, InsertIs DEF IInv
  <2> QED BY <2>1, <2>2
<1>10. CASE LockedOut
  BY <1>8, <1>10, LockedOutStops
<1>11. CASE Inserted(rows, next)
  <2>1. \A m \in Entry[scan.key].metrics \ next.todo : FALSE
    BY <1>1, <1>5
  <2> QED BY <1>0, <1>1, <1>5, <1>6, <1>7, <1>8, <1>11, <2>1, InsertedKeeps
<1> QED BY <1>9, <1>10, <1>11

\* A new metric marks its entry.
LEMMA InsertMetricInserts == ASSUME IInv, InsertMetric PROVE IInv'
<1>0. TypeOK /\ scan \in ScanType /\ scan.key \in Keys /\ Active
  BY DEF IInv, TypeOK, InsertMetric, Position, Active
<1>1. PICK m \in scan.todo \ scan.metricIds :
         Insert([NoRows EXCEPT !.metrics = {m}],
                [scan EXCEPT !.fresh = {m}, !.metricIds = @ \cup {m}])
  BY DEF InsertMetric
<1>2. PICK next : next = [scan EXCEPT !.fresh = {m}, !.metricIds = @ \cup {m}]
  OBVIOUS
<1>3. PICK rows : rows = [NoRows EXCEPT !.metrics = {m}]
  OBVIOUS
<1>4. m \in scan.todo /\ m \in Metrics
  BY <1>0 DEF ScanType
<1>5. /\ next \in ScanType /\ next.key = scan.key /\ next.todo = scan.todo /\ next.pc = scan.pc
      /\ next.fresh = {m} /\ next.released = scan.released
  BY <1>0, <1>2, <1>4 DEF ScanType
<1>6. rows \in RowsType /\ rows.values = {} /\ rows.releases = {}
  BY <1>3, <1>4 DEF RowsType, NoRows
<1>7. scan.pc = "values" /\ ~scan.released
  BY <1>0 DEF IInv, Current, InsertMetric
<1>8. /\ UNCHANGED <<newest, oldest, count, skipped>> /\ introduced \subseteq introduced'
      /\ introduced' \subseteq Keys /\ scan.key \in introduced'
  BY <1>0 DEF InsertMetric, TypeOK
<1>9. Insert(rows, next)
  BY <1>1, <1>2, <1>3
<1>10. CASE LockedOut
  BY <1>8, <1>10, LockedOutStops
<1>11. CASE Inserted(rows, next)
  BY <1>0, <1>4, <1>5, <1>6, <1>7, <1>8, <1>11, InsertedKeeps
<1> QED BY <1>0, <1>6, <1>9, <1>10, <1>11, InsertIs DEF IInv

\* The value of a metric, or the one that was there under its identifier.
LEMMA InsertMetricValueInserts == ASSUME IInv, InsertMetricValue PROVE IInv'
<1>0. TypeOK /\ scan \in ScanType /\ scan.key \in Keys /\ Active
  BY DEF IInv, TypeOK, InsertMetricValue, Position, Active
<1> DEFINE row(m) == [key |-> scan.key, id |-> IF scan.fresh = {} THEN m ELSE Zero, metric |-> m]
           conflict(m) == \E r \in db.values \cup batch.tx.rows.values :
                             r.key = row(m).key /\ r.id = row(m).id
<1>1. PICK m \in IF scan.fresh = {} THEN scan.todo \cap scan.metricIds ELSE scan.fresh :
         Insert([NoRows EXCEPT !.values = IF conflict(m) THEN {} ELSE {row(m)}],
                [scan EXCEPT !.todo = @ \ {m}, !.fresh = {},
                             !.pc = IF scan.todo = {m} THEN "release" ELSE @])
  BY DEF InsertMetricValue
<1>a. PICK new : new = row(m)
  OBVIOUS
<1>2. PICK next : next = [scan EXCEPT !.todo = @ \ {m}, !.fresh = {},
                                      !.pc = IF scan.todo = {m} THEN "release" ELSE @]
  OBVIOUS
<1>3. PICK rows : rows = [NoRows EXCEPT !.values = IF conflict(m) THEN {} ELSE {row(m)}]
  OBVIOUS
<1>4. m \in scan.todo /\ m \in Metrics
  BY <1>0 DEF TypeOK, ScanType
<1>5. /\ next \in ScanType /\ next.key = scan.key /\ next.todo = scan.todo \ {m}
      /\ next.pc = IF scan.todo = {m} THEN "release" ELSE scan.pc
      /\ next.fresh = {} /\ next.released = scan.released
  BY <1>0, <1>2, <1>4 DEF ScanType
<1>b. /\ new \in Row /\ new.key = scan.key /\ new.metric = m
      /\ new.id = IF scan.fresh = {} THEN m ELSE Zero
  BY <1>0, <1>4, <1>a DEF Row
<1>c. Insert(rows, next)
  BY <1>1, <1>2, <1>3
<1>d. conflict(m) <=> \E r \in Values : r.key = new.key /\ r.id = new.id
  BY <1>a DEF Values
<1>6. /\ rows \in RowsType /\ rows.releases = {}
      /\ rows.values = IF conflict(m) THEN {} ELSE {new}
  <2> HIDE DEF conflict, row
  <2>1. NoRows \in RowsType /\ NoRows.releases = {}
    BY DEF NoRows, RowsType
  <2>2. (IF conflict(m) THEN {} ELSE {new}) \in SUBSET Row
    BY <1>b
  <2> QED BY <1>3, <1>a, <2>1, <2>2 DEF RowsType
<1> HIDE DEF conflict, row
<1>7. scan.pc = "values" /\ ~scan.released
  BY <1>0 DEF IInv, Current, InsertMetricValue
<1>8. UNCHANGED <<newest, oldest, count, skipped, introduced>> /\ introduced \subseteq Keys
  BY <1>0 DEF InsertMetricValue, TypeOK
<1>9. \A r \in rows.values : /\ r.id # Zero => r.id = r.metric
                             /\ \A s \in Values : s.key # r.key \/ s.id # r.id
  BY <1>6, <1>b, <1>d
<1>10. \/ Has(scan.key, m) \/ scan.key \in introduced
       \/ \E r \in rows.values : r.key = scan.key /\ r.metric = m
  <2>1. CASE scan.fresh # {}
    BY <1>0, <2>1 DEF IInv, Current
  <2>2. CASE scan.fresh = {} /\ conflict(m)
    <3>1. PICK r \in Values : r.key = scan.key /\ r.id = m
      BY <1>b, <1>d, <2>2
    <3>2. r.metric = m
      BY <1>4, <3>1, MetricIndexAssumption DEF IInv, Identified
    <3> QED BY <3>1, <3>2 DEF Has
  <2>3. CASE ~conflict(m)
    BY <1>6, <1>b, <2>3
  <2> QED BY <2>1, <2>2, <2>3
<1>11. \A n \in Entry[scan.key].metrics \ next.todo :
          \/ Has(scan.key, n) \/ scan.key \in introduced'
          \/ \E r \in rows.values : r.key = scan.key /\ r.metric = n
  <2>1. \A n \in Entry[scan.key].metrics \ scan.todo : Has(scan.key, n) \/ scan.key \in introduced
    BY <1>7 DEF IInv, Current
  <2> QED BY <1>5, <1>8, <1>10, <2>1
<1>12. CASE LockedOut
  BY <1>8, <1>12, LockedOutStops
<1>13. CASE Inserted(rows, next)
  <2>1. \A r, s \in rows.values : r = s
    BY <1>6
  <2> QED BY <1>0, <1>5, <1>6, <1>7, <1>8, <1>9, <1>11, <1>13, <2>1, InsertedKeeps
<1> QED BY <1>0, <1>6, <1>c, <1>12, <1>13, InsertIs DEF IInv

\* The versions of the entry.
LEMMA InsertReleaseJobInserts == ASSUME IInv, InsertReleaseJob PROVE IInv'
<1>0. TypeOK /\ scan \in ScanType /\ Active
  BY DEF IInv, TypeOK, InsertReleaseJob, Active
<1>1. PICK k \in Keys : k = scan.key
  BY DEF IInv, Position, InsertReleaseJob
<1>2. PICK next : next = [scan EXCEPT !.released = TRUE]
  OBVIOUS
<1>3. PICK rows : rows = [NoRows EXCEPT !.releases = {k}]
  OBVIOUS
<1>4. Insert(rows, next)
  BY <1>1, <1>2, <1>3 DEF InsertReleaseJob
<1>5. /\ next \in ScanType /\ next.key = scan.key /\ next.todo = scan.todo /\ next.pc = scan.pc
      /\ next.fresh = scan.fresh /\ next.released
  BY <1>0, <1>2 DEF ScanType
<1>6. rows \in RowsType /\ rows.values = {} /\ rows.releases = {k}
  BY <1>3 DEF RowsType, NoRows
<1>7. scan.pc = "release" /\ scan.fresh = {} /\ scan.todo = {}
  BY <1>0 DEF IInv, Current, Position, InsertReleaseJob
<1>8. UNCHANGED <<newest, oldest, count, skipped, introduced>> /\ introduced \subseteq Keys
  BY <1>0 DEF InsertReleaseJob, TypeOK
<1>9. \A m \in Entry[scan.key].metrics \ next.todo : Has(scan.key, m) \/ scan.key \in introduced'
  BY <1>5, <1>7, <1>8 DEF IInv, Current
<1>10. CASE LockedOut
  BY <1>8, <1>10, LockedOutStops
<1>11. CASE Inserted(rows, next)
  BY <1>0, <1>1, <1>5, <1>6, <1>7, <1>8, <1>9, <1>11, InsertedKeeps
<1> QED BY <1>0, <1>4, <1>6, <1>10, <1>11, InsertIs DEF IInv

-----------------------------------------------------------------------------
\* The invariant holds of the empty database,
LEMMA InitIInv == ASSUME Init PROVE IInv
<1>1. Idle \in ScanType /\ Idle.pc = "idle" /\ Idle.fresh = {} /\ Idle.todo = {}
  BY MetricIndexAssumption DEF Idle, ScanType
<1>2. NewBatch(0) \in BatchType /\ NewBatch(0).tx.rows.values = {}
  BY MetricIndexAssumption DEF NewBatch, BatchType, NoTx, NoRows, RowsType
<1>3. db \in DbType /\ db.values = {} /\ db.lastKey = 0
  BY MetricIndexAssumption DEF Init, DbType
<1>4. TypeOK
  <2>1. scan \in ScanType /\ batch \in BatchType /\ scan.fresh \subseteq scan.todo
    BY <1>1, <1>2 DEF Init
  <2>2. count \in [faults : 0..MaxFaults, crashes : 0..MaxCrashes]
    BY MetricIndexAssumption DEF Init
  <2>3. newest \in 0..MaxKey /\ oldest \in 0..MaxKey
    BY MetricIndexAssumption DEF Init
  <2>4. locked \in BOOLEAN /\ skipped \subseteq Keys /\ introduced \subseteq Keys
    BY DEF Init
  <2> QED BY <1>3, <2>1, <2>2, <2>3, <2>4 DEF TypeOK
<1>5. Identified
  BY <1>2, <1>3 DEF Init, Identified, Values
<1>6. Position /\ Behind /\ Current
  BY <1>1 DEF Init, Position, Behind, Current, Active
<1>7. RecordedIsStored
  BY <1>3 DEF RecordedIsStored
<1> QED BY <1>4, <1>5, <1>6, <1>7 DEF IInv

\* every step preserves it,
LEMMA NextIInv == ASSUME IInv, [Next]_vars PROVE IInv'
<1>1. CASE Upload \/ Age \/ RunFails \/ UNCHANGED vars
  BY <1>1, Waits
<1>2. CASE Run
  BY <1>2, RunStarts
<1>3. CASE SkipEntry
  BY <1>3, SkipSkips
<1>4. CASE ReadEntry
  BY <1>4, ReadEntryReads
<1>5. CASE InsertMetric
  BY <1>5, InsertMetricInserts
<1>6. CASE InsertMetricValue
  BY <1>6, InsertMetricValueInserts
<1>7. CASE InsertReleaseJob
  BY <1>7, InsertReleaseJobInserts
<1>8. CASE CompleteEntry
  BY <1>8, CompleteCompletes
<1>9. CASE ScanFails
  BY <1>9, FailStops
<1>10. CASE EndScan
  BY <1>10, EndRests
<1>11. CASE Crash
  BY <1>11, CrashRests
<1> QED BY <1>1, <1>2, <1>3, <1>4, <1>5, <1>6, <1>7, <1>8, <1>9, <1>10, <1>11 DEF Next

\* and it holds of every behaviour.
LEMMA Invariance == Spec => []IInv
  BY InitIInv, NextIInv, PTL DEF Spec

\* The records of the scan, of the batch and of the tables are what the code
\* declares, and no build has two values under one identifier.
THEOREM TypeCorrect == Spec => []TypeOK
<1>1. IInv => TypeOK
  BY DEF IInv
<1> QED BY Invariance, <1>1, PTL

\* Whatever fails and whenever the process ends, every entry up to the recorded key
\* is stored: the batch inserter never records the key of an entry of which a row
\* is missing, but for the exceptions that RecordedIsStored names.
THEOREM RecordedKeyIsHonest == Spec => []RecordedIsStored
<1>1. IInv => RecordedIsStored
  BY DEF IInv
<1> QED BY Invariance, <1>1, PTL
=============================================================================

# A TLA+ model of ci-search

ci-search mirrors the results of Prow jobs and of Bugzilla/Jira issues to a local
directory and answers regular-expression searches over it. This directory holds TLA+
modules that model it, TLC configurations that check them on small instances, and
proofs of their properties for any number of builds, bugs, workers and failures.

    tlc -workers 2 -config JobDiskStore_queue.cfg MCJobDiskStore
    tlapm JobDiskStoreProofs.tla

## 1. Inventory

The program is one process (`cmd/search`), started by `options.Run` in
`cmd/search/main.go`; a second binary is the jira watcher controller.

| component | state | operations | talks to |
|---|---|---|---|
| work queue (`vendor/k8s.io/client-go/util/workqueue`) | queue, dirty, processing, waiting items, failure counts | Add, Get, Done, AddRateLimited, Forget | every store below |
| prow job informer (`prow/informer.go`, `indexgcs.go`) | `lastList`, the indexer | List (deck + previous list + GCS index), Watch (expires every interval) | deck, GCS index; events to the disk store |
| prow disk store (`prow/index.go`) | the queue, and the directory tree itself | Handler, Run (40 workers), write | informer, ReadBuild, path index |
| ReadBuild pipeline (`prow/process.go`, `testgrid/util/gcs/read.go`) | channels, contexts, `LogAccumulator` | 11 goroutines and one per junit file | GCS, local disk |
| path index (`cmd/search/pathindex.go`) | sorted list of files | Load (also removes expired files), LastModified, SearchPaths | local disk, search |
| Bugzilla / Jira informers (`bugzilla/informer.go`, `jira/informer.go`, `client.go`) | a watcher: last resource version, bounded channel, timer | List in pages, Watch (polls for changes), Stop | remote tracker, comment stores |
| Bugzilla / Jira comment stores (`comments.go`) | comments per issue, queue | run (batches), refresher, mergeBugs, add/update/delete handlers | informer, tracker, disk stores, search |
| Bugzilla / Jira disk stores (`commentsdisk.go`) | queue, one file per issue | Run, Sync, write, CloseBug | comment stores |
| search (`cmd/search/grep.go`, `http*.go`, `main.go`) | one request | parse, batches of paths for `rg`, limits on bytes, lines and matches, grouping, sorting and rendering of rows | path index, comment stores |
| metric database (`metricdb`) | SQLite tables with the recorded progress, the open batch | Run, indexFromGCS, batch inserter | GCS index |
| jira watcher controller (`pkg/cmd/jira-watcher-controller`) | queue, informer, one batch per worker | handlers, processQueue (batches), retries | Jira, BigQuery |

What is hard in this code:

* **Who holds what.** Events arrive while workers process the same key; the queue's
  dirty/processing protocol and the Done/AddRateLimited pairs decide whether a key is
  lost, processed twice at once or retried for ever.
* **The disk is the database.** The disk store has no record of what it has downloaded
  other than the modification time of a build's directory, which the code sets in three
  places (AddMetadata, Finished, MarkCompleted) and the kernel in many more (every
  creation and removal of a file). Attempts fail half-way, processes restart, the path
  index deletes old files.
* **Goroutines that outlive their caller.** ReadBuild cancels and returns on the first
  error; the goroutines it started go on writing to the directory for a while.
* **Channels.** All of ReadBuild is unbuffered channels, two levels of contexts and
  selects with several ready cases.
* **Sources that forget.** Deck shows recent jobs only; the informer keeps the rest by
  feeding its own last answer back into the next one.
* **Two truths per bug.** An entry in memory is made of what the informer says of the bug
  and of comments fetched without a lock; a file on disk is written by two goroutines
  through one temporary name, and read back after a restart.
* **Polling.** A watch asks for what changed since a time, with the precision of a second
  or a minute, through a bounded channel that two goroutines send to and one closes.
* **Recorded progress.** The metric database skips what the last key says it has; a batch
  that fails half-way must not move that key past what it stored.
* **Output as a protocol.** A search is split over several commands, and what a line of
  output belongs to follows from its neighbours, while files come and go.

What makes the components correct: no key is processed twice at a time nor lost (queue,
disk store); what is reported as written or "up to date" is completely on disk (disk
store); `nil` from ReadBuild means that everything was read, ReadBuild and its
goroutines end and never send on a closed channel (pipeline); a job stays known, in its
newest state and once, until it expires (informer); a watch leaves no gap and its
informer converges to the tracker; comments once fetched survive, memory and disk
converge, a file can be read and a deleted bug's says closed (comment stores); what the
recorded key covers is stored (metrics); every version of an issue reaches the table, in
order (controller); what is on disk is found, completely and once, shown under the right
job, and the output is bounded (search). The hazards behind these, each at its line, are
in `PROJECT.json`.

## 2. Modules

| module | models | composed of |
|---|---|---|
| `WorkQueue` | the client-go queue, as operators from queue value to queue value | |
| `JobDiskStore` | `DiskStore.Handler/Run/write`, the accumulator's effect on the disk, expiry by `pathIndex.Load`, restarts | `WorkQueue` |
| `ReadBuild` | the goroutines of one call of `ReadBuild` | |
| `JobInformer` | `ListWatcher.List` and what feeds it | `Lists`; refines `KnownJobs` |
| `KnownJobs` | abstract specification of the informer | |
| `BugWatcher` | `List` and `periodicWatcher` of both trackers under the reflector | |
| `CommentStore` | both comment stores with their disk stores, and restarts | `WorkQueue`, twice |
| `MetricIndex` | the scan of the metrics index into SQLite | |
| `JiraWatcher` | the jira watcher controller | `WorkQueue` |
| `Search` | the path index and one search request | `Lists` |
| `Lists` | the list a loop makes of another one by skipping elements; sums over positions | |
| `OperatorProofs` | lemmas about the queue's operators and those of `Lists` | extends `WorkQueue`, `Lists` |
| `JobDiskStoreProofs`, `BugWatcherProofs`, `CommentStoreProofs`, `JiraWatcherProofs`, `MetricIndexProofs`, `SearchProofs` | theorems about the module of that name | extend it, and `OperatorProofs` where they need it |
| `ProwProofs` | theorems about `ReadBuild` and `JobInformer` | extends both |
| `MC...` | instances for TLC (`BugWatcher` needs none) | |

Some definitions come in pairs, a correct one and a form with a plausible bug named
before it (`CloseBugAsIs`, `EndScanUnflushed`, `CollectOneMore`...). The bugs are the
mutants of `PROJECT.json`: each property is shown to fail when the definition is replaced
by its mutant.

### WorkQueue

Each operation of the queue runs under its lock, so it is an operator. `Add` coalesces
(dirty set), `Get` moves the head to processing, `Done` queues again what became dirty
meanwhile; `AddRateLimited` counts a failure and parks the item, `Ready` is the end of
the delay. How long a delay lasts is not represented, only that it is over at some
later time: this over-approximates every backoff. `ShutDown` is never called by the
search process and is left out.

### JobDiskStore

State: the queue, the informer's indexer, which builds have a finished.json in the
bucket, a clock, the modification times of the build directory and of its two files,
how often each junit suite is in `junit.failures`, whether `build-log.txt` is whole,
one record per worker (`LogAccumulator.exists` as `junit`/`log`, the suites not yet
added, whether the metadata was added, how far the log is), the goroutines left behind
by attempts that have returned (`stray`), and the process (restarts, and whether this
run was started with `--disable-indexing`).

Actions follow `DiskStore.Run`: `Take` / `Discard`, the returns of `write` before
ReadBuild (`NoJob`, `IgnoreURL`, `InvalidURL`, `UpToDate`), `NewAccumulator`, then the
steps through which ReadBuild touches the disk (`AddSuites`, `AddMetadata`,
`CreateLog`, `CopyLog`, `Finished`) and the ways it can end: `MarkCompleted` after a
success, `Unfinished` (no finished.json), `ReadFailed`, `FinishedLate` (nil after a
timeout) and `Hang`, the last two being what `ReadBuild.tla` shows to be possible. Each
ending includes the AddRateLimited/Forget and Done of the worker's loop. Beside the
workers run `StrayStep`, expiry (`ExpireJunit`, `ExpireLog`), the clock, the informer's
events and `Crash`, which clears everything but the disk.

Abstractions: file contents are reduced to which suites they contain and whether the
log is whole; paths are one key per build (`jobPathToAttributes` is the `url` field:
`none`, `indexable`, `ignored` or `invalid`); stat and readdir in NewAccumulator are
one step; two stray goroutines of one build in the same state count as one; writes to
the local disk succeed. `outcome`, `troubled` and `overlapped` record the past for the
properties; no guard reads them.

### ReadBuild

One control state per goroutine. A send on an unbuffered channel is a joint step of
sender and receiver, a `select` takes any ready case, a closed channel is a control
state of the goroutine that closes it. Every request to the bucket can fail. The
context is live, timed out or cancelled: `Timeout` may strike at any moment, so a
goroutine may be delayed arbitrarily before it evaluates a select and then see several
ready cases. The `break` of the first loop's `ec` case leaves only the `select`, as in
Go (`SendNil`).

### JobInformer and KnownJobs

Deck shows copies of jobs; a job is triggered (without build ID), pending, done, and
later disappears from deck; a cloud function records finished jobs in the GCS index.
`List` is `mergeJobs(live ++ previous, expires)`, the previous list being seeded from
the index once (`mostRecentJobs`). The loop of `mergeJobs` appends a copy that has not
expired and has a build ID (`Merges`) unless its key is in the set of keys seen; so the
result is stated as the copies at the positions `Kept`, in the order of the lists. That
the reflector replaces the indexer's content is part of the action `List`, since the
watch only ever answers with an Expired error. `InformerInit`, `InformerNext` and
`InformerSpec` are the specification (the names leave `Spec` to `ReadBuild`, with which
it shares a module of proofs).
`KnownJobs` says the same as sets: the visible copies, and the last copy of every job
no longer visible that has not expired. A scan ended by the end of the process's own
context is not distinguished from a crash.

### BugWatcher

Bugzilla and Jira have two copies of one design that share no state, so a behaviour
follows one of them (`tracker`), and where the copies differ each has its own definition
(`AnswerBugs`/`AnswerIssues`, `SearchBugs`/`addTimeToJQL`). The reflector is external: it
lists in pages (`ListPage`; `ListAll` if its first list needed none), replaces the
indexer's content, watches, and lists again when the watch ends. `Ask`, `Answer...`,
`QueryFails`, `Send`, `Sent`, `SendFailure` and `Close` are `periodicWatcher.run`;
`TimerChooses`, `TimerSends` and `TimerStops` the goroutine of its timer, and `LateTimer`
one that a finished watch has left behind, whose send panics (`up`). `Receive` and `Stop`
are the reflector's side of the channel. Times are seconds, two to a minute; `zone` is
whether Jira's time zone could be loaded (if not, queries ask for times `ZoneOffset` minutes too
late), `hidden` what `includeFn` leaves out, `phantom`
the nameless objects the inverted truncation of pages lets in.

### CommentStore

State: the tracker's data, the informer's undelivered events, the store in memory, its
queue, the batch being fetched, the disk store's queue, the temporary and the final file
of every bug, the writes in progress (Run's and CloseBug's), and the process.
`Handle` is a whole handler (`bugAdd`, `bugUpdate`, `bugDelete`; `issueUpdate` where Jira
differs, names of Jira's copies as aliases elsewhere); `CollectBatch` is the part of
`run` up to the request, with `Done` before the fetch as in the code; `Answer`,
`FetchFails` and `Merge` the rest. `RunGet`, `RunOpen`, `Flush`, `FlushFails` and
`Rename` are the steps of `write` that another goroutine can come between. `Crash` keeps
only the files; `Restart` is `Sync` with its decision per file, what it cannot read and
what has expired.

Abstractions: a file is a record of status, information and comments, or `Empty` or
`Torn`; contents that one `Flush` writes over another are `Torn` (`Overlay`). Times are
ages, `Recent` or `Stale`, so that time can pass for ever in finitely many states.
A comment is its number, private ones are replaced by `Hidden`. A merge notifies the disk
store of its bugs in the order of a Go map, so those that are new to the queue join it in
any order.

### MetricIndex

`Run` starts a scan at the recorded key, `SkipEntry`/`ReadEntry` decide about an entry,
`InsertMetric`, `InsertMetricValue` and `InsertReleaseJob` write it through the batch
inserter, which commits with the key when `MaxBatch` statements are in the transaction,
`CompleteEntry` is `CompletedKey`, `EndScan` the last `Flush`. `ScanFails` may come
between any two of them; `EachJob` drops the error, so the batch is flushed. A batch
without progress is neither committed nor rolled back: `locked`, and the next `Run`
fails and ends the process. A row has the identifier it was inserted under, its own or
0 (the shadowed variable of `db.go:347`). Keys are times, and an entry's build has
completed at its key or before (`at`); one without metrics still goes to the release
step. Selectors and the SQL of the read side are left
out.

### JiraWatcher

`Handle` is the informer's handlers with their comparison of versions; deletions are
noticed by a new list only, reach the handler as `DeletedFinalStateUnknown` and are
ignored. `Begin` reads the
queue's length, `Collect` one `Get`, `Fetch`/`FetchFails` the comments, `FetchOmits` an
answer without some of the issues (which then pass for processed), `Write`/`WriteFails` the rows (any part of them may be in the table when the write
fails), `Finish` Forget and Done, `Requeue` AddRateLimited and Done, one key at a
time. `tickets` are the versions of the rows taken from the lister; `owed` records the version
an issue was last queued for, until a fetch finds it gone or left out; no guard reads it.
`RunWorkers` takes the number of workers, and `cmd.go:143` asks for one.

### Search

`Load`, `Visit` and `Publish` are `pathIndex.Load`: the walk, which removes expired
files, the sort and the swap. `Request` is the parsing of parameters with their defaults
and limits; `Command`, `StartBatch` and `NextSearch` split the paths at the argument
limit, `RgSearches` (ripgrep, external) writes the output of a file: what the
pattern matches in it (`hits`), cut at `--max-count` (`OutputOf`), or dies (`RgFails`),
which is only logged (`grep.go:217`); `ReadLine` and
`ReadEOF` are the reading loop with its limits, `fn` hands a match to the grouping
(`AddMatch`, `orderedSearchResults`) or to `renderMatches` with its `sortableWriter`;
`Render`, `Recover` and `Close` end the request. `broken` are the files of bugs and
issues that are there and that `ReadBugComments` cannot parse. Searches share nothing that they change,
so one is modelled; a walk error ends the process (`klog.Fatalf`), and its restart is
another behaviour. A line is one byte, a path `PathLength` of them.

## 3. Runs

All finish within five minutes with two workers of TLC. Deadlock checking is off where
the modelled system may really stop: clocks have a last tick, trackers and buckets a last
change, a search ends, and the first loop of ReadBuild can wait for ever.

| run | instance | shows |
|---|---|---|
| `disk` | a failed build with a suite and a log, and one whose artifacts are ignored, one of them in play; 1 worker, 1 retry, expiry, 1 restart | `TypeOK`; `CleanBuildsAreComplete`: a build reported as written or up to date, none of whose attempts went wrong, has its complete results with the finish time; `PartialLogOnlyWhileDownloading`: no error path leaves a truncated log; `DuplicatesOnlyFromOverlap`: `junit.failures` never gets a suite twice unless an attempt ran beside a leftover goroutine |
| `queue` | 2 workers, 2 builds (one URL unusable), 1 hang, both settings of `--disable-indexing` | `OneWorkerPerBuild`, `FailedIsRetried`, and under fairness `NotifiedIsServed` |
| `readbuild` | 2 junit files, the log, another object, timeout | `TypeOK`, `SuccessIsComplete`, `NoSendOnClosedChannel` |
| `readbuild_ends` | 1 junit file, the log, timeout | `ReturnsAfterMetadata`, `SubtasksEnd` under fairness |
| `informer` | 2 builds, 4 ticks, failing scans and lists | `InformerTypeOK`, `OneCopyPerBuild`, `NeverRegresses`, and the refinement of `KnownJobs` |
| `watch` | 2 bugs, pages of 1 or 2, channel of 1, 3 seconds, 2 changes, 1 failed query | `TypeOK`; `NoGapInWatch`: what changed since the list is in the indexer or on its way; `NoPanicWithoutFailure`: a send on the closed channel only after a failed query; `StopEnds` and `Converges` under fairness, if the tracker answers |
| `comments` | 1 bug of either tracker, 2 comments (1 private), 3 changes, 1 fault, 1 crash | `TypeOK`; `ReadableUnlessOverlap`, `DeletedSaysClosed`, `BugInfoFollowsInformer`, `KeepsComments`, and `Converges` under fairness, if the tracker answers |
| `metrics` | 6 entries, among them one without a number, one without the duration and one out of order; 2 faults, 1 crash | `TypeOK`; `RecordedIsStored`, and `EventuallyRecorded` under fairness |
| `controller` | 3 issues (one possibly not a number), 1 worker, batches of 2, 3 changes, 2 faults, 1 restart | `TypeOK`; `EnqueuedIsWritten`, and `EventuallyWritten` under fairness, if requests are answered |
| `search` | 2 builds of a job and a bug, 9 requests of all modes, 1 change of the disk beside the reloads or 1 death of ripgrep | `TypeOK`; `EverythingIsFound`, `OutputIsBounded`, `GroupsAreRight`, `RowsAreRight`, `PanicOnlyIfUnreadable` |
| `comments_jira` | 1 issue | violated: after an update the store has the issue as it was before |
| `metrics_skip` | the entries of `metrics` | violated: a skipped entry is not "an already stored value" |

### The disagreements

`comments_jira`: `issueUpdate` (`jira/comments.go:255`) goes on with the old object of
the event, where the Bugzilla copy takes the new one. The next fetch only brings
comments, so the store stays one change behind until the issue is listed anew (the file does
not: `jira/commentsdisk.go:66` asks the lister).
`metrics_skip`: whether an entry is stored is decided by the range of completion
times of its job (`metricdb/db.go:289`), so one that arrives out of order is skipped, and
the recorded key moves past it.

Seen while modelling; the models contain the behaviour, and properties that it limits say
so in their comments:

* Disk store: an attempt that fails after it created `junit.failures` leaves a directory
  newer than the job's completion, the retry returns nil and "Job %s is up to date" is
  said of a partial download (`prow/index.go:203`). Such a file keeps its download time
  instead of the finish time. `Forget` is not called after a success.
* ReadBuild: the loop at `process.go:162` does not select on its context, so a timeout
  before the metadata arrived leaves it waiting; it can return nil for an incomplete
  build when the timeout strikes; on an early return it does not wait for its subtasks.
* Job informer: `EachJob` returns nil for a failed scan, which is then never repeated
  (`indexgcs.go:180`; the log says "scan failed, will retry"). `--max-age=0`, "Set to 0 to
  keep all", makes `List` compute `expires = now` and drop every finished job
  (`informer.go:252`), and makes `renderMatches` drop every row of a job.
* Trackers: `includeFn` is not stored in the watcher, so a bug the list leaves out comes
  back through the watch; pages are truncated by an inverted condition, so they may carry
  objects without a name; a change in the second of the newest one sent is found by the
  next list only; a list of Jira stops at 500 issues.
* Metrics: `db.go:347` assigns the new identifier to a shadowed variable, so the value
  that introduces a metric is stored under 0, where a second one of the build collides
  with it; a scan that completes one key only does not record it; `Flush` without
  progress leaves its transaction open, and the next `Run` finds the database locked and
  ends the process; an entry inserted half-way may later be skipped by the range.
* Search: without an index no command runs for job files, although `pathindex.go:211`
  says "search all if we haven't built an index yet"; `MetadataFor` uses a nil pointer
  when a bug's file is removed after its match or cannot be parsed (`main.go:355`, `:416`),
  and likewise the status that an issue's file lacks (`main.go:423`); a command that dies
  passes for one that ended (`grep.go:217`); `maxBytes` holds
  per pattern; a full `sortableWriter` writes its entries again when it is flushed at
  the end; the last row at context 0 is closed as for no context (`http.go:558`); a build
  whose files are not adjacent in the output counts twice; only `renderMatches` applies
  the job filter to bugs. Readiness (`main.go:786-795`) is reported while the queue is
  longer than 10000.

### Bounds, and why they are enough

Two workers suffice for exclusion, and for one to hang while the other serves; the jira watcher starts
one (that more would be safe is proved, `RowsInOrder`); the disk needs one build, since builds share no files, and
one worker, since the queue (proved below) never gives a build to two: what an attempt
overlaps with are the goroutines its predecessor left. Two builds in the queue make order
and coalescing matter. `MaxRequeues = 0` retries once and then gives up, both branches of
the retry decision, as 5 does. The clock starts when the jobs complete and has the
ticks needed for files and jobs to expire. One restart cuts an attempt off at any point
and lets another meet its remains. Two builds, and times up to twice the age limit, let
the informer's copies of one build from deck, index and previous list meet.

Bugs share neither entries nor files, only the batch; with one bug the batch still races
its handlers, its refresh and both writers. Two comments make one private and one new;
three changes allow a comment and a change of the bug before a deletion, or its deletion
and return. Two bugs make two pages and two changes that share a second or a minute, a
channel of one is full at once. Six entries, with seven inserts per transaction, let a
transaction end in the middle of an entry. Three issues are more than a batch of the
controller holds, and one of them may be the key that is dropped. Requests have room for one to four paths, so
that the list is split, does not fit at all, or needs one command; pages of three bytes
make `sortableWriter` overflow.

### Fairness

`JobDiskStore!FairSpec`: the goroutines of DiskStore.Run keep running and the delays of
the queue end (`waitingLoop` runs until the process stops). Nothing is assumed of the
clock, uploads, events, stray goroutines or crashes. `ReadBuild!Spec`: each goroutine
that can step does; requests to the bucket end, at the latest with the context. The
timeout itself is not assumed to strike.

`BugWatcher`, `CommentStore`: goroutines keep running, time passes (so that intervals and
refreshes come), and a process that ended is started again. `JiraWatcher`: handlers and
workers run and delays end. Nothing in the program makes a request to a tracker or to
BigQuery end: the clients have no timeout for an answer (`main.go:575` sets none, requests
to Bugzilla do not carry the context, Jira's transport limits dialling and TLS only, and
the contexts end with the process). So no fairness is assumed of the answers; that they
come, as results or as errors, is a hypothesis of the properties that need it, stated as
`[]<>`: `WatchAnswered` and `ListAnswered` (`BugWatcher`), `TrackerAnswers`
(`CommentStore`), `Answered` (`JiraWatcher`). Where a tracker stops answering, Stop, the
fetch loop or the worker waits. `MetricIndex`: `Run` is repeated by the loop in `main.go`;
that requests to the bucket and statements of the database end is assumed, in the fairness
of `indexFromGCS`. All four are weak fairness; nothing is assumed of failures, crashes and
changes except that their number is bounded in an instance. `JobInformer` and `Search` have
no liveness property and no fairness.

## 4. Proofs

Every theorem holds for all values of the constants that satisfy the named assumptions of
the module, so in particular for any number of builds, bugs, workers, failures and
crashes. Each is `Spec => []P` of a property `P`, or `Spec => P` where
`P` is an action property (`RowsInOrder`, `KeepsComments`, `NeverRegresses`) or an
abstract specification (`ImplementsKnownJobs`). A run checks `P` too, but for `RowsInOrder`,
which is a question only with more workers than the program starts. The argument is the same
throughout: an invariant `IInv` stronger than `P`, that holds initially and is preserved
by every action; one lemma per action (or per way an action can change the state), and
under it one step per conjunct that the action disturbs.

**`OperatorProofs`**: what each queue operator does to its five fields and that it keeps
`QueueOrdered`: every queued item is dirty and not being processed (the comment on
`Type.queue`), is queued once, and every dirty item nobody processes is queued. Of
`Lists`: `AtPositions` has the elements at the positions, each once and in their order,
and `SumAt` is the sum over disjoint positions. Both are closed forms, by cardinalities,
of what a loop computes: the provers have no induction over lists.

**`JobDiskStoreProofs`**: `TypeCorrect` (also that no failure count exceeds the retry
budget by more than one), `Exclusion` (`OneWorkerPerBuild`), `NoFailedBuildIsLost`
(`FailedIsRetried`). `IInv == TypeOK /\ OneWorkerPerBuild`; neither is inductive alone:
that `Done` of one worker leaves the others' builds in processing needs that they hold
different builds, which needs that `Get` hands out nothing in processing, which is
`QueueOrdered`. `FailedIsRetried` needs in addition that with `--disable-indexing` no
worker holds a build. Of the files: `NoSuiteTwice` (`DuplicatesOnlyFromOverlap`), `NoTruncatedLogIsLeft`
(`PartialLogOnlyWhileDownloading`), `WrittenIsComplete` (`CleanBuildsAreComplete`). They
rest on the exclusion, and on who may still append to `junit.failures` (`Strays`: without
an overlap at most one goroutine is left of a build, and none beside a worker; `Once`:
what somebody has yet to append is not in the file), on which downloads are wanted
(`Downloads`), and, for completeness, on how far the attempt on a build without trouble
has come (`Undisturbed`). The last compares modification times, so it needs
`CompletionAssumption`: the time in finished.json is not after prow's completion time.

**`ProwProofs`**, of `ReadBuild`: `TypeCorrect`, `ClosedAfterLastSend` (`NoSendOnClosedChannel`),
`NilMeansComplete` (`SuccessIsComplete`), for any number of junit files and other
objects. `EndsInOrder` says which goroutine ends after which, `MainPhase` what main has
seen, and `NothingLost` that while the context is live every junit file is in the bucket's
listing, on its way through the channels, or added, or its subtask is about to report an
error; and the same of the log.

Of `JobInformer`: `InformerTypeCorrect`, `OneCopyAtATime` (`OneCopyPerBuild`),
`NoJobRegresses` (`NeverRegresses`) and `Refinement` (`ImplementsKnownJobs`: a successful
list is a `Relist`, a failed one that reads the index a `SeedOnly`, everything else the
environment). `MergeOfLists`: of two lists with one copy of a build each, `mergeJobs` has
those of the first that it merges, and those of the second whose build is not among them;
this is where the set of keys matters. `SingleCopies` says that deck, the index and the
last list are such lists. That no ended job is seen as pending again does not follow from
the order of the lists alone, since the seed comes from the index: it needs `EndedAgree`,
that a job which ended according to the index or the last list has ended, at the same
time, according to deck, as long as deck shows it. `StoreFollows` ties the indexer to the
last list, but for the seed of a list that failed.

**`BugWatcherProofs`**: `TypeCorrect`, `WatchLeavesNoGap` (`NoGapInWatch`),
`PanicOnlyAfterFailure` (`NoPanicWithoutFailure`). `Past`: nobody has a version newer
than the tracker's; `InOrder`: the events of a bug arrive in the order of its changes, so
that a late one does not undo a later one; `Covered`: what changed before the resource
version of the watch has arrived or is on its way; `Calm`: without a failed query,
whoever could still send is gone before the channel is closed.

**`CommentStoreProofs`**: `TypeCorrect`, `FilesAreReadable` (`ReadableUnlessOverlap`),
`ClosedIsOnDisk` (`DeletedSaysClosed`), `InfoFollowsInformer` (`BugInfoFollowsInformer`)
and `CommentsAreKept` (`KeepsComments`). Three arguments share the invariant.
`Alone`: without an overlap a temporary name has one writer, which finds in it what it
wrote; this holds because a handler that closes a bug has taken it out of the store
(`ClosesDeleted`), the only place where Run finds bugs (`StaysClosed`). `CommentsOK`:
entries, files, writers and answers contain only what the tracker may show, and an
answer that is not merged yet contains what the store has of the bug; so a merge takes
nothing away, although events, refreshes and a restart may come between the request and
the merge. `EventsOK`: the last undelivered event of a bug says what the tracker has, and
an update is preceded by an entry or by the event that creates it. The theorem about the
information is of bugzilla's copy; of jira's it is false (`comments_jira`).

**`MetricIndexProofs`**: `TypeCorrect`, `RecordedKeyIsHonest` (`RecordedIsStored`). The
recorded key is the last completed one of an earlier flush, so the invariant speaks of
the rows of the database and of the open transaction together: every entry behind the
scan and up to the last completed key is in them (`Behind`), and the current one but for
the metrics to do (`Current`); where the transaction is dropped, nothing is recorded.
`Identified`, the primary key of the table extended to the transaction, makes a collision
a value that introduced its metric.

**`JiraWatcherProofs`**: `TypeCorrect`, `NothingEnqueuedIsForgotten`
(`EnqueuedIsWritten`), `TableNeverGoesBack` (`RowsInOrder`). `HeldOnce`: the queue's
processing set is what the workers' batches hold, each key once; `VersionsOK` and
`TicketsOK`: a row about to be written is of a key its worker holds and no older than the
table's; `Kept`: an enqueued version is in the table, in a batch, in the queue or waiting.

**`SearchProofs`**: `TypeCorrect`, `AllIsFound` (`EverythingIsFound`), `OutputBounded`
(`OutputIsBounded`), `GroupsCorrect` (`GroupsAreRight`) and `PanicsOnlyForUnreadable`
(`PanicOnlyIfUnreadable`), for any files, requests, limits and lengths of paths. All rest on
`ShapeOK`: the index has no file twice and is sorted, also while it is being rebuilt;
nothing of a command is left over when the next one starts; the patterns have had their
turns in order. Beyond it:

* `AllIsFound`: `FoundSoFar` is a balance, for every file that was there all the time: the
  lines sent for the pattern, those captured and those to be read are together all of the
  file's output, or none while the file waits for its command. A command that starts keeps the
  balance only if its files are not reached by a later one as well, which is `Apart`: the
  paths to come are different, and a file is below one path only, since job files are
  paths themselves and bugs are below a directory. `FoundBefore` carries the result over
  to the patterns that follow.
* `OutputBounded`: `left`, which the code hands from one command to the next, may be
  negative after a file that went beyond it; `Budget` says by how much (`LongestFile`),
  and `Searched` that a file never gives more lines than ripgrep wrote for it.
* `GroupsCorrect`: `GroupsOK` says of the groups built so far what the property says at the
  end. `AddMatch` may begin an entry, an instance in an entry, or extend one; in each case
  one place is added and the others keep their match.
* `PanicsOnlyForUnreadable`: `Readable`, what could be read since the turn of the pattern
  came can be read, and `Touched`, as long as no file changed, output of a bug is of a
  file that is there; so a panic is of a file that was missing or broken meanwhile.

Assumptions, each stated in the module that declares the constants and evaluated by its
runs: types and signs of constants; `NoBuild`, `None`, `Empty` and `Torn` are nothing
else; sets of bugs and issues are finite (the informer's list is); a bug has a first
comment, its description; `CompletionAssumption`; in `MetricIndexAssumption`, a build is
indexed when it has completed or later; in `SearchAssumption`, files are finitely many,
defaults and lengths are positive, and ripgrep's output for a file is separators and lines
of that file; for the informer, `BuildsFinite` and `NilIsNoList`. None of them bounds a constant from above.

Only model-checked: every property under fairness (`NotifiedIsServed`,
`ReturnsAfterMetadata`, `SubtasksEnd`, `Converges`, `StopEnds`, `EventuallyRecorded`,
`EventuallyWritten`), since liveness and `ENABLED` are out of the prover's reach; and
`RowsAreRight` of `Search`, because what `sortableWriter` writes is a sorted list and a
concatenation of pages, and that sorting permutes and orders a list needs induction over
lists.

## 5. Not modelled

* Charts and graphs (`httpchart.go`, `metricdb/httpgraph`), the start page's statistics,
  `/jobs` and the SQL of the metric database's read side: they render what they read and
  change nothing. HTML, text, flags and logging likewise.
* TestGrid: parsing of JSON, junit XML, dates and object paths yields the inputs of the
  models; the protobuf code is generated.
* The HTTP writer, the process reaper and embedded assets: I/O around the operating
  system.
* A key that is no number in the fetch loop of the comment stores
  (`bugzilla/comments.go:158`): it is dropped without counting it, and the bugs collected so
  far wait for another key. `JiraWatcher` has the same loop with this branch.
* Readiness: a comparison over flags and a length that are modelled elsewhere.
* `DiskStore.Sync` is never called. Errors of the local disk are modelled for the comment
  files only.

## 6. Plan

1. Done: all components with state of their own; of their invariants and action
   properties all but one are proved, and the refinement of `KnownJobs`.
2. Left to the model checker: liveness, and `RowsAreRight`.
3. Open hazards (`PROJECT.json`, those with a note): `--max-age=0`, the growth of the rate
   limiter's failure map, the part of the index that a failed scan leaves out, batches
   that wait behind a key that is no number; and readiness. A module of the start of the process
   (`options.Run`) would be the place for the last.

----------------------------- MODULE JobDiskStore -----------------------------
(***************************************************************************)
(* prow.DiskStore: finished prow jobs are queued by the informer's event   *)
(* handler, workers take them from a rate-limited work queue and download  *)
(* the results of the build to disk.  The only record of what has been     *)
(* downloaded is the file system itself: write compares the modification   *)
(* time of the build's directory with the completion time of the job to    *)
(* decide whether there is anything to do.  The model therefore keeps the  *)
(* directory, the two files of a build and their modification times, a     *)
(* clock, and lets attempts fail, hang, race and be cut off by a crash.    *)
(*                                                                         *)
(* ReadBuild is represented by the steps through which it touches the      *)
(* disk and by the ways it can return; ReadBuild.tla models its            *)
(* goroutines.  Writes to the local disk are assumed to succeed.           *)
(***************************************************************************)
EXTENDS WorkQueue, FiniteSets

CONSTANTS
    Builds,        \* the prow jobs; a build has one key in the informer
    Workers,       \* the goroutines of DiskStore.Run
    Suites,        \* junit suites with at least one failed test
    Job,           \* Job[b]: what prow and GCS say about build b
    NoBuild,       \* the key of an idle worker
    MaxAge,        \* --max-age
    MaxRequeues,   \* 5 in the code
    BootTime, MaxTime,   \* bounds of the clock
    MaxCrashes,    \* bound on restarts of the process
    MaxHangs       \* bound on workers whose ReadBuild never returns

\* Times are natural numbers from 1 on; 0 is the time of a file that is absent.
Absent == 0

JobInfo == [started : Nat \ {0}, finish : Nat \ {0}, completion : Nat \ {0},
            succeeded : BOOLEAN, url : {"none", "indexable", "ignored", "invalid"},
            suites : SUBSET Suites]

ASSUME JobAssumption == Job \in [Builds -> JobInfo]
\* prow completes a job when its pod, which stamps finished.json, has ended.
ASSUME CompletionAssumption == \A b \in Builds : Job[b].finish =< Job[b].completion
ASSUME NoBuildAssumption == NoBuild \notin Builds
ASSUME BoundsAssumption ==
    /\ MaxAge \in Nat /\ MaxRequeues \in Nat /\ MaxTime \in Nat
    /\ BootTime \in Nat \ {0} /\ MaxCrashes \in Nat /\ MaxHangs \in Nat

VARIABLES
    now,       \* the clock
    q,         \* DiskStore.queue
    informer,  \* the builds in the informer's indexer
    uploaded,  \* the builds whose finished.json is in the bucket
    dir,       \* modification time of the build's directory
    junit,     \* junit.failures: modification time, how often each suite is in it
    blog,      \* build-log.txt: modification time, whether it is whole
    worker,    \* what each worker is doing
    stray,     \* goroutines of attempts that have returned (two in the same
               \* state count as one)
    process,   \* restarts so far, and whether this run has --disable-indexing
    \* what the properties observe of the past; no action depends on it
    outcome,   \* result of the last attempt on the build
    troubled,  \* builds with an attempt that was not a clean success
    overlapped \* builds with an attempt begun beside a stray goroutine

queueVars == <<q, informer, worker>>
diskVars == <<dir, junit, blog>>
histVars == <<outcome, troubled, overlapped>>
vars == <<now, q, informer, uploaded, dir, junit, blog, worker, stray, process,
          outcome, troubled, overlapped>>

NoJunit == [mtime |-> Absent, entries |-> [s \in Suites |-> 0]]
NoLog   == [mtime |-> Absent, whole |-> FALSE]

\* A worker between two items.  junit and log say which files of the build
\* existed when the accumulator was made (LogAccumulator.exists), todo the suites
\* AddSuites has not seen, meta whether AddMetadata succeeded, blog how far the
\* download of the build log is.
Idle == [pc |-> "idle", key |-> NoBuild, junit |-> FALSE, log |-> FALSE,
         todo |-> {}, meta |-> FALSE, blog |-> "no"]

Init ==
    /\ now = BootTime
    /\ q = NewQueue(Builds)
    /\ informer = {}
    /\ uploaded \in SUBSET Builds
    /\ dir = [b \in Builds |-> Absent]
    /\ junit = [b \in Builds |-> NoJunit]
    /\ blog = [b \in Builds |-> NoLog]
    /\ worker = [w \in Workers |-> Idle]
    /\ stray = {}
    /\ process \in [restarts : {0}, disableWrite : BOOLEAN]
    /\ outcome = [b \in Builds |-> "none"]
    /\ troubled = {}
    /\ overlapped = {}

-----------------------------------------------------------------------------
(* The environment: the clock, the bucket, and the informer's events.      *)

Tick ==
    /\ now < MaxTime
    /\ now' = now + 1
    /\ UNCHANGED <<queueVars, uploaded, diskVars, stray, process, histVars>>

\* finished.json arrives in the bucket.
Upload(b) ==
    /\ b \notin uploaded
    /\ uploaded' = uploaded \cup {b}
    /\ UNCHANGED <<now, queueVars, diskVars, stray, process, histVars>>

\* FilterFunc: only jobs that have a URL and have ended, not longer ago than maxAge.
FilterFunc(b) ==
    /\ Job[b].url # "none"
    /\ now >= Job[b].completion
    /\ MaxAge > 0 => now =< Job[b].completion + MaxAge

\* jobExpired for a job that has ended (one that has not stays listed).
Expired(b) == Job[b].completion + MaxAge < now

\* AddFunc: the informer lists a job for the first time.
AddFunc(b) ==
    /\ b \notin informer /\ ~Expired(b)
    /\ informer' = informer \cup {b}
    /\ q' = IF FilterFunc(b) THEN Add(q, b) ELSE q
    /\ UNCHANGED <<now, uploaded, diskVars, worker, stray, process, histVars>>

\* UpdateFunc: the job changed, or the informer's periodic resync re-sends it.
UpdateFunc(b) ==
    /\ b \in informer /\ FilterFunc(b)
    /\ q' = Add(q, b)
    /\ UNCHANGED <<now, informer, uploaded, diskVars, worker, stray, process, histVars>>

\* The next list no longer has the job; the handler has no DeleteFunc.
Delisted(b) ==
    /\ b \in informer /\ Expired(b)
    /\ informer' = informer \ {b}
    /\ UNCHANGED <<now, q, uploaded, diskVars, worker, stray, process, histVars>>

\* The delay AddRateLimited imposed on the build is over.
RetryReady(b) ==
    /\ b \in q.waiting
    /\ q' = Ready(q, b)
    /\ UNCHANGED <<now, informer, uploaded, diskVars, worker, stray, process, histVars>>

-----------------------------------------------------------------------------
(* DiskStore.Run: one iteration of a worker, up to the call of ReadBuild.  *)

KeyOf(w) == worker[w].key

At(w, pc) == worker[w].pc = pc

\* The worker has written (or skipped) the build and calls Done.
Release(w, result) ==
    /\ q' = Done(q, KeyOf(w))
    /\ worker' = [worker EXCEPT ![w] = Idle]
    /\ outcome' = [outcome EXCEPT ![KeyOf(w)] = result]

\* Plausible bug: the branches of the retry decision are swapped.
WriteFailedSwapped(w) ==
    LET b == KeyOf(w)
        giveUp == NumRequeues(q, b) > MaxRequeues
    IN  /\ q' = Done(IF giveUp THEN AddRateLimited(q, b) ELSE Forget(q, b), b)
        /\ worker' = [worker EXCEPT ![w] = Idle]
        /\ outcome' = [outcome EXCEPT ![b] = IF giveUp THEN "gaveup" ELSE "failed"]

\* Plausible bug: a failed write is retried without looking at the budget.
WriteFailedUnbounded(w) ==
    /\ q' = Done(AddRateLimited(q, KeyOf(w)), KeyOf(w))
    /\ worker' = [worker EXCEPT ![w] = Idle]
    /\ outcome' = [outcome EXCEPT ![KeyOf(w)] = "failed"]

\* write returned an error: retry later, or give up after MaxRequeues retries.
WriteFailed(w) ==
    LET b == KeyOf(w)
        giveUp == NumRequeues(q, b) > MaxRequeues
    IN  /\ q' = Done(IF giveUp THEN Forget(q, b) ELSE AddRateLimited(q, b), b)
        /\ worker' = [worker EXCEPT ![w] = Idle]
        /\ outcome' = [outcome EXCEPT ![b] = IF giveUp THEN "gaveup" ELSE "failed"]

Take(w) ==
    /\ At(w, "idle") /\ ~process.disableWrite /\ CanGet(q)
    /\ q' = Get(q)
    /\ worker' = [worker EXCEPT ![w] = [Idle EXCEPT !.pc = "taken", !.key = Head(q.queue)]]
    /\ UNCHANGED <<now, informer, uploaded, diskVars, stray, process, histVars>>

\* With --disable-indexing the worker only empties the queue.
Discard(w) ==
    /\ At(w, "idle") /\ process.disableWrite /\ CanGet(q)
    /\ LET b == Head(q.queue) IN q' = Done(Forget(Get(q), b), b)
    /\ UNCHANGED <<now, informer, uploaded, diskVars, worker, stray, process, histVars>>

\* accessor.Get fails: the job left the informer while it was queued.
NoJob(w) ==
    /\ At(w, "taken") /\ KeyOf(w) \notin informer
    /\ Release(w, "nothing")
    /\ UNCHANGED <<now, informer, uploaded, diskVars, stray, process, troubled, overlapped>>

URL(w) == Job[KeyOf(w)].url

\* write returns nil for a URL that names no build: the placeholder of a job
\* that could not start, or a path jobPathToAttributes returns no bucket for.
IgnoreURL(w) ==
    /\ At(w, "taken") /\ KeyOf(w) \in informer /\ URL(w) = "ignored"
    /\ Release(w, "nothing")
    /\ UNCHANGED <<now, informer, uploaded, diskVars, stray, process, troubled, overlapped>>

\* url.Parse or jobPathToAttributes fails.
InvalidURL(w) ==
    /\ At(w, "taken") /\ KeyOf(w) \in informer /\ URL(w) = "invalid"
    /\ WriteFailed(w)
    /\ UNCHANGED <<now, informer, uploaded, diskVars, stray, process, troubled, overlapped>>

\* NewAccumulator: the directory is absent or older than the job's completion.
Stale(b) == dir[b] = Absent \/ dir[b] < Job[b].completion

\* "Job %s is up to date"
UpToDate(w) ==
    /\ At(w, "taken") /\ KeyOf(w) \in informer /\ URL(w) = "indexable"
    /\ ~Stale(KeyOf(w))
    /\ Release(w, "uptodate")
    /\ UNCHANGED <<now, informer, uploaded, diskVars, stray, process, troubled, overlapped>>

\* NewAccumulator reads the names in the directory and ReadBuild starts.
NewAccumulator(w) ==
    LET b == KeyOf(w)
    IN  /\ At(w, "taken") /\ b \in informer /\ URL(w) = "indexable"
        /\ Stale(b)
        /\ worker' = [worker EXCEPT ![w] =
                         [Idle EXCEPT !.pc = "reading", !.key = b,
                                      !.junit = junit[b].mtime # Absent,
                                      !.log = blog[b].mtime # Absent,
                                      !.todo = Job[b].suites]]
        /\ overlapped' = IF \E a \in stray : a.key = b
                         THEN overlapped \cup {b} ELSE overlapped
        /\ UNCHANGED <<now, q, informer, uploaded, diskVars, stray, process,
                       outcome, troubled>>

-----------------------------------------------------------------------------
(* ReadBuild as seen from the disk.                                        *)

\* AddSuites opens junit.failures with O_CREATE|O_APPEND for every suite.
AppendSuite(b, s) ==
    /\ junit' = [junit EXCEPT ![b] =
                    [mtime |-> now, entries |-> [junit[b].entries EXCEPT ![s] = @ + 1]]]
    /\ dir' = [dir EXCEPT ![b] = IF junit[b].mtime = Absent THEN now ELSE @]

\* Plausible bug: the entries of an earlier attempt are appended to.
AddSuitesAlways(w, s) ==
    /\ At(w, "reading") /\ s \in worker[w].todo
    /\ worker' = [worker EXCEPT ![w].todo = @ \ {s}]
    /\ AppendSuite(KeyOf(w), s)
    /\ UNCHANGED <<now, q, informer, uploaded, blog, stray, process, histVars>>

AddSuites(w, s) ==
    /\ At(w, "reading") /\ s \in worker[w].todo
    /\ worker' = [worker EXCEPT ![w].todo = @ \ {s}]
    /\ IF worker[w].junit THEN UNCHANGED <<dir, junit>>
                           ELSE AppendSuite(KeyOf(w), s)
    /\ UNCHANGED <<now, q, informer, uploaded, blog, stray, process, histVars>>

\* started.json and finished.json were read: the directory gets the start time.
AddMetadata(w) ==
    /\ At(w, "reading") /\ ~worker[w].meta /\ KeyOf(w) \in uploaded
    /\ worker' = [worker EXCEPT ![w].meta = TRUE]
    /\ dir' = [dir EXCEPT ![KeyOf(w)] = Job[KeyOf(w)].started]
    /\ UNCHANGED <<now, q, informer, uploaded, junit, blog, stray, process, histVars>>

\* The build log is wanted only of a failed build, and only once.
WantsLog(w) == ~Job[KeyOf(w)].succeeded /\ ~worker[w].log

\* downloadIfMissingTail creates the file ...
CreateLog(w) ==
    /\ At(w, "reading") /\ worker[w].meta /\ WantsLog(w) /\ worker[w].blog = "no"
    /\ worker' = [worker EXCEPT ![w].blog = "open"]
    /\ blog' = [blog EXCEPT ![KeyOf(w)] = [mtime |-> now, whole |-> FALSE]]
    /\ dir' = [dir EXCEPT ![KeyOf(w)] = IF blog[KeyOf(w)].mtime = Absent THEN now ELSE @]
    /\ UNCHANGED <<now, q, informer, uploaded, junit, stray, process, histVars>>

\* ... and copies the object into it (into an unlinked file if it was expired).
CopyLog(w) ==
    /\ At(w, "reading") /\ worker[w].blog = "open"
    /\ worker' = [worker EXCEPT ![w].blog = "done"]
    /\ blog' = [blog EXCEPT ![KeyOf(w)] =
                   IF @.mtime = Absent THEN @ ELSE [mtime |-> now, whole |-> TRUE]]
    /\ UNCHANGED <<now, q, informer, uploaded, dir, junit, stray, process, histVars>>

\* Plausible bug: the last select does not wait for the subtasks.
SubtasksDoneTooEarly(w) == worker[w].meta /\ worker[w].blog # "open"

\* wg.Wait returned: every suite was added and the log, if wanted, is there.
SubtasksDone(w) ==
    worker[w].meta /\ worker[w].todo = {} /\ (WantsLog(w) => worker[w].blog = "done")

\* LogAccumulator.Finished stamps the directory and the files that are new.
Stamp(b, newJunit, newLog, log) ==
    LET finish == Job[b].finish
    IN  /\ dir' = [dir EXCEPT ![b] = finish]
        /\ junit' = IF newJunit /\ junit[b].mtime # Absent
                    THEN [junit EXCEPT ![b].mtime = finish] ELSE junit
        /\ blog' = IF newLog /\ log.mtime # Absent
                   THEN [blog EXCEPT ![b] = [log EXCEPT !.mtime = finish]]
                   ELSE [blog EXCEPT ![b] = log]

Finished(w) ==
    LET b == KeyOf(w)
    IN  /\ At(w, "reading") /\ SubtasksDone(w)
        /\ Stamp(b, ~worker[w].junit, ~worker[w].log, blog[b])
        /\ worker' = [worker EXCEPT ![w].pc = "completing"]
        /\ UNCHANGED <<now, q, informer, uploaded, stray, process, histVars>>

\* The 30 second timeout strikes after AddMetadata, the subtasks drop what they
\* have left, and the last select receives the waiter's nil instead of ctx.Done:
\* ReadBuild succeeds without the rest (ReadBuild.tla).
FinishedLate(w) ==
    LET b == KeyOf(w)
    IN  /\ At(w, "reading") /\ worker[w].meta /\ ~SubtasksDone(w)
        /\ Stamp(b, ~worker[w].junit, ~worker[w].log,
                 IF worker[w].blog = "open" THEN NoLog ELSE blog[b])
        /\ worker' = [worker EXCEPT ![w].pc = "completing"]
        /\ troubled' = troubled \cup {b}
        /\ UNCHANGED <<now, q, informer, uploaded, stray, process, outcome, overlapped>>

\* What is left of a goroutine: nothing when it has nothing to do.
Running(a) == IF a.todo = {} /\ a.log = "no" THEN {} ELSE {a}

\* What the attempt of worker w leaves running when ReadBuild returns early: it
\* cancels the context but does not wait for its AddSuites goroutine or for the
\* download of the log, which may not even have created its file.
Leftover(w) ==
    Running([key  |-> KeyOf(w),
             todo |-> IF worker[w].junit THEN {} ELSE worker[w].todo,
             log  |-> CASE worker[w].blog = "open" -> "open"
                        [] worker[w].blog = "no" /\ worker[w].meta /\ WantsLog(w) -> "wait"
                        [] OTHER -> "no"])

\* finished.json is not there: AddMetadata says !ok and ReadBuild returns nil.
Unfinished(w) ==
    /\ At(w, "reading") /\ ~worker[w].meta /\ KeyOf(w) \notin uploaded
    /\ worker' = [worker EXCEPT ![w].pc = "completing"]
    /\ stray' = stray \cup Leftover(w)
    /\ troubled' = troubled \cup {KeyOf(w)}
    /\ UNCHANGED <<now, q, informer, uploaded, diskVars, process, outcome, overlapped>>

\* write after ReadBuild returned nil.
MarkCompleted(w) ==
    /\ At(w, "completing")
    /\ dir' = [dir EXCEPT ![KeyOf(w)] = Job[KeyOf(w)].completion]
    /\ Release(w, "ok")
    /\ UNCHANGED <<now, informer, uploaded, junit, blog, stray, process, troubled, overlapped>>

\* A subtask fails or the context ends, and ReadBuild returns an error.
ReadFailed(w) ==
    /\ At(w, "reading")
    /\ stray' = stray \cup Leftover(w)
    /\ WriteFailed(w)
    /\ troubled' = troubled \cup {KeyOf(w)}
    /\ UNCHANGED <<now, informer, uploaded, diskVars, process, overlapped>>

\* The context ends before the metadata arrived and every subtask takes its
\* ctx.Done branch: the first loop of ReadBuild, which has none, never returns.
Hang(w) ==
    /\ At(w, "reading") /\ ~worker[w].meta
    /\ Cardinality({v \in Workers : At(v, "hung")}) < MaxHangs
    /\ worker' = [worker EXCEPT ![w].pc = "hung"]
    /\ troubled' = troubled \cup {KeyOf(w)}
    /\ UNCHANGED <<now, q, informer, uploaded, diskVars, stray, process, outcome, overlapped>>

-----------------------------------------------------------------------------
(* What runs beside the workers.                                           *)

Becomes(a, r) == stray' = (stray \ {a}) \cup Running(r)

\* The AddSuites goroutine of an attempt that has returned takes one more suite.
StrayAddSuites(a, s) ==
    /\ s \in a.todo
    /\ AppendSuite(a.key, s)
    /\ Becomes(a, [a EXCEPT !.todo = @ \ {s}])
    /\ UNCHANGED <<now, queueVars, uploaded, blog, process, histVars>>

\* The parsers see the cancelled context and there are no more suites to add.
StrayStopsAdding(a) ==
    /\ a.todo # {}
    /\ Becomes(a, [a EXCEPT !.todo = {}])
    /\ UNCHANGED <<now, queueVars, uploaded, diskVars, process, histVars>>

\* waitMetadata may find the metadata before it looks at the context, ...
StrayCreateLog(a) ==
    /\ a.log = "wait"
    /\ Becomes(a, [a EXCEPT !.log = "open"])
    /\ blog' = [blog EXCEPT ![a.key] = [mtime |-> now, whole |-> FALSE]]
    /\ dir' = [dir EXCEPT ![a.key] = IF blog[a.key].mtime = Absent THEN now ELSE @]
    /\ UNCHANGED <<now, queueVars, uploaded, junit, process, histVars>>

\* ... or not.
StrayWantsNoLog(a) ==
    /\ a.log = "wait"
    /\ Becomes(a, [a EXCEPT !.log = "no"])
    /\ UNCHANGED <<now, queueVars, uploaded, diskVars, process, histVars>>

\* The last bytes of the log arrived before the context was cancelled.
StrayCopyLog(a) ==
    /\ a.log = "open"
    /\ Becomes(a, [a EXCEPT !.log = "no"])
    /\ blog' = [blog EXCEPT ![a.key] =
                   IF @.mtime = Absent THEN @ ELSE [mtime |-> now, whole |-> TRUE]]
    /\ UNCHANGED <<now, queueVars, uploaded, dir, junit, process, histVars>>

\* Plausible bug: a failed download leaves its file.
StrayKeepsLog(a) ==
    /\ a.log = "open"
    /\ Becomes(a, [a EXCEPT !.log = "no"])
    /\ UNCHANGED <<now, queueVars, uploaded, diskVars, process, histVars>>

\* A download that fails or is cancelled removes the file, by its name.
StrayRemovesLog(a) ==
    /\ a.log = "open"
    /\ Becomes(a, [a EXCEPT !.log = "no"])
    /\ blog' = [blog EXCEPT ![a.key] = NoLog]
    /\ dir' = [dir EXCEPT ![a.key] = IF blog[a.key].mtime = Absent THEN @ ELSE now]
    /\ UNCHANGED <<now, queueVars, uploaded, junit, process, histVars>>

FileExpired(mtime) == MaxAge > 0 /\ mtime # Absent /\ mtime + MaxAge < now

\* pathIndex.Load removes files older than maxAge; the directory stays.
ExpireJunit(b) ==
    /\ FileExpired(junit[b].mtime)
    /\ junit' = [junit EXCEPT ![b] = NoJunit]
    /\ dir' = [dir EXCEPT ![b] = now]
    /\ UNCHANGED <<now, queueVars, uploaded, blog, stray, process, histVars>>

ExpireLog(b) ==
    /\ FileExpired(blog[b].mtime)
    /\ blog' = [blog EXCEPT ![b] = NoLog]
    /\ dir' = [dir EXCEPT ![b] = now]
    /\ UNCHANGED <<now, queueVars, uploaded, junit, stray, process, histVars>>

\* The process dies and starts again: only the disk survives.
Crash ==
    /\ process.restarts < MaxCrashes
    /\ process' \in [restarts : {process.restarts + 1}, disableWrite : BOOLEAN]
    /\ q' = NewQueue(Builds)
    /\ informer' = {}
    /\ worker' = [w \in Workers |-> Idle]
    /\ stray' = {}
    /\ outcome' = [b \in Builds |-> "none"]
    /\ troubled' = troubled \cup {KeyOf(w) : w \in {v \in Workers : At(v, "reading")}}
    /\ UNCHANGED <<now, uploaded, diskVars, overlapped>>

WorkerStep(w) ==
    \/ Take(w) \/ Discard(w) \/ NoJob(w) \/ IgnoreURL(w) \/ InvalidURL(w)
    \/ UpToDate(w) \/ NewAccumulator(w)
    \/ \E s \in Suites : AddSuites(w, s)
    \/ AddMetadata(w) \/ CreateLog(w) \/ CopyLog(w)
    \/ Finished(w) \/ FinishedLate(w) \/ Unfinished(w) \/ MarkCompleted(w)
    \/ ReadFailed(w) \/ Hang(w)

BuildStep(b) ==
    \/ Upload(b) \/ AddFunc(b) \/ UpdateFunc(b) \/ Delisted(b) \/ RetryReady(b)
    \/ ExpireJunit(b) \/ ExpireLog(b)

StrayStep(a) ==
    \/ \E s \in Suites : StrayAddSuites(a, s)
    \/ StrayStopsAdding(a) \/ StrayCreateLog(a) \/ StrayWantsNoLog(a)
    \/ StrayCopyLog(a) \/ StrayRemovesLog(a)

Next ==
    \/ Tick \/ Crash
    \/ \E w \in Workers : WorkerStep(w)
    \/ \E b \in Builds : BuildStep(b)
    \/ \E a \in stray : StrayStep(a)

Spec == Init /\ [][Next]_vars

\* The goroutines of the program keep running and delays end; nothing is assumed
\* of the clock, the bucket, the informer's events or of crashes.
FairSpec ==
    /\ Spec
    /\ \A w \in Workers : WF_vars(WorkerStep(w))
    /\ \A b \in Builds : WF_vars(RetryReady(b))

-----------------------------------------------------------------------------
(* Properties.                                                             *)

WorkerType ==
    [pc : {"idle", "taken", "reading", "completing", "hung"},
     key : Builds \cup {NoBuild}, junit : BOOLEAN, log : BOOLEAN,
     todo : SUBSET Suites, meta : BOOLEAN, blog : {"no", "open", "done"}]

StrayType == [key : Builds, todo : SUBSET Suites, log : {"no", "wait", "open"}]

\* Type invariant; the failure count of a build stays within the retry budget of
\* DiskStore.Run.
TypeOK ==
    /\ now \in Nat \ {0}
    /\ q \in QueueType(Builds)
    /\ \A b \in Builds : q.failures[b] =< MaxRequeues + 1
    /\ informer \in SUBSET Builds
    /\ uploaded \in SUBSET Builds
    /\ dir \in [Builds -> Nat]
    /\ junit \in [Builds -> [mtime : Nat, entries : [Suites -> Nat]]]
    /\ blog \in [Builds -> [mtime : Nat, whole : BOOLEAN]]
    /\ worker \in [Workers -> WorkerType]
    /\ \A w \in Workers : At(w, "idle") <=> KeyOf(w) = NoBuild
    /\ stray \in SUBSET StrayType
    /\ process \in [restarts : Nat, disableWrite : BOOLEAN]
    /\ outcome \in [Builds -> {"none", "nothing", "ok", "uptodate", "failed", "gaveup"}]
    /\ troubled \in SUBSET Builds
    /\ overlapped \in SUBSET Builds

\* The processing set is exactly what the workers hold, and two workers never
\* hold the same build: every iteration of DiskStore.Run pairs its Get with one
\* Done, and events arriving meanwhile do not hand the build out again.
OneWorkerPerBuild ==
    /\ QueueOrdered(q)
    /\ q.processing = {KeyOf(w) : w \in {v \in Workers : ~At(v, "idle")}}
    /\ \A v, w \in Workers : ~At(v, "idle") /\ KeyOf(v) = KeyOf(w) => v = w

\* A build whose last write failed, and that was not given up, is still somewhere
\* in the queue: the AddRateLimited / Done pair of DiskStore.Run never loses it,
\* whatever events arrive between the two.
FailedIsRetried ==
    \A b \in Builds :
        outcome[b] = "failed" => b \in q.waiting \cup q.dirty \cup q.processing

\* The results of build b on disk: every suite once, the log of a failed build
\* whole, both with the finish time of the build.
Complete(b) ==
    /\ \A s \in Suites : junit[b].entries[s] = (IF s \in Job[b].suites THEN 1 ELSE 0)
    /\ Job[b].suites # {} => junit[b].mtime = Job[b].finish
    /\ ~Job[b].succeeded => blog[b] = [mtime |-> Job[b].finish, whole |-> TRUE]

\* A build none of whose attempts failed, hung, timed out, met a missing
\* finished.json or was cut off by a crash, and that the store reports as written
\* or "up to date", has its complete results on disk until they expire - however
\* events, workers and restarts interleave.
CleanBuildsAreComplete ==
    \A b \in Builds :
        /\ b \notin troubled
        /\ outcome[b] \in {"ok", "uptodate"}
        /\ ~(MaxAge > 0 /\ Job[b].finish + MaxAge < now)
        => Complete(b)

\* junit.failures, which AddSuites opens for appending, never gets a suite twice,
\* over failed attempts, retries and crashes, unless an attempt was begun while
\* a goroutine of an earlier one was still running.
DuplicatesOnlyFromOverlap ==
    \A b \in Builds :
        b \notin overlapped => \A s \in Suites : junit[b].entries[s] =< 1

\* Without a crash a truncated build-log.txt is visible only while its download
\* is running: every error path of downloadIfMissingTail removes the file.
PartialLogOnlyWhileDownloading ==
    process.restarts = 0 =>
        \A b \in Builds :
            blog[b].mtime # Absent /\ ~blog[b].whole =>
                \/ \E w \in Workers : At(w, "reading") /\ KeyOf(w) = b /\ worker[w].blog = "open"
                \/ \E a \in stray : a.key = b /\ a.log = "open"

\* Every notification is served: a build marked dirty is taken by a worker, unless
\* it is the very build a worker hangs on, as long as the process stays up and
\* one worker does not hang in ReadBuild.
NotifiedIsServed ==
    \A b \in Builds :
        b \in q.dirty ~> (b \notin q.dirty \/ \E w \in Workers : At(w, "hung") /\ KeyOf(w) = b)
=============================================================================

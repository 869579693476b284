---------------------------- MODULE JiraWatcher ----------------------------
(***************************************************************************)
(* The jira watcher controller (pkg/cmd/jira-watcher-controller): handlers *)
(* of the jira informer put the names of issues into a rate-limited work   *)
(* queue, and workers take them in batches, fetch their comments and       *)
(* append one row per issue to a table of BigQuery.                        *)
(*                                                                         *)
(* A version of an issue stands for its resource version, the time of its  *)
(* last change in seconds.                                                 *)
(***************************************************************************)
EXTENDS WorkQueue, Integers, FiniteSets

CONSTANTS
    Issues,         \* names of issues
    UnparsableSets, \* sets of those that are not a number
    Workers,
    MaxBatch,       \* maxBatch
    MaxChanges,     \* bound: changes of the informer's issues
    MaxFaults,      \* bound: fetches and writes that fail or leave issues out
    MaxCrashes      \* bound: crashes of the process

ASSUME JiraWatcherAssumption ==
    /\ IsFiniteSet(Issues) /\ UnparsableSets \subseteq SUBSET Issues
    /\ MaxBatch \in Nat \ {0}
    /\ MaxChanges \in Nat /\ MaxFaults \in Nat /\ MaxCrashes \in Nat

VARIABLES
    lister,         \* the informer's version of every issue, 0 if it has none
    latest,         \* the latest version of every issue so far
    events,         \* informer events not yet handled
    queue,          \* JiraWatcherController.queue
    worker,         \* processQueue of every worker: [pc, l, keys, tickets]
    written,        \* the version in the latest row of every issue
    owed,           \* history: the newest version that was enqueued, 0 once a fetch
                    \* found that the informer, or jira, does not have the issue
    dryRun,
    unparsable,     \* the names that are not a number (List may make one up)
    count           \* [changes, faults, crashes] so far

vars == <<lister, latest, events, queue, worker, written, owed, dryRun, unparsable, count>>

Versions == 0..MaxChanges
Event == [type : {"add", "update", "delete"}, issue : Issues, old : Versions, new : Versions]
NoTickets == [i \in Issues |-> 0]
Idle == [pc |-> "idle", l |-> 0, keys |-> {}, tickets |-> NoTickets]
WorkerType ==
    [pc : {"idle", "collect", "fetch", "write", "done", "failed"}, l : 0..MaxBatch,
     keys : SUBSET Issues, tickets : [Issues -> Versions]]

TypeOK ==
    /\ lister \in [Issues -> Versions] /\ latest \in [Issues -> Versions]
    /\ events \in Seq(Event)
    /\ queue \in QueueType(Issues)
    /\ worker \in [Workers -> WorkerType]
    /\ written \in [Issues -> Versions] /\ owed \in [Issues -> Versions]
    /\ dryRun \in BOOLEAN /\ unparsable \in UnparsableSets
    /\ count \in [changes : 0..MaxChanges, faults : 0..MaxFaults, crashes : 0..MaxCrashes]

Init ==
    /\ lister = [i \in Issues |-> 0] /\ latest = [i \in Issues |-> 0]
    /\ events = << >>
    /\ queue = NewQueue(Issues)
    /\ worker = [w \in Workers |-> Idle]
    /\ written = [i \in Issues |-> 0] /\ owed = [i \in Issues |-> 0]
    /\ dryRun \in BOOLEAN /\ unparsable \in UnparsableSets
    /\ count = [changes |-> 0, faults |-> 0, crashes |-> 0]

-----------------------------------------------------------------------------
(***************************************************************************)
(* The informer (external): the indexer changes, handlers hear of it later *)
(* and in order.  A second change within a second, or a resync, is an      *)
(* update without a new version.                                           *)
(***************************************************************************)
Deliver(type, i, old, new) ==
    events' = Append(events, [type |-> type, issue |-> i, old |-> old, new |-> new])

Change(i) ==
    /\ count.changes < MaxChanges
    /\ count' = [count EXCEPT !.changes = @ + 1]
    /\ \/ /\ lister' = [lister EXCEPT ![i] = latest[i] + 1]
          /\ latest' = [latest EXCEPT ![i] = latest[i] + 1]
          /\ Deliver(IF lister[i] = 0 THEN "add" ELSE "update", i, lister[i], latest[i] + 1)
       \/ /\ lister[i] > 0
          /\ Deliver("update", i, lister[i], lister[i])
          /\ UNCHANGED <<lister, latest>>
       \/ /\ lister[i] > 0
          /\ lister' = [lister EXCEPT ![i] = 0]
          /\ Deliver("delete", i, lister[i], lister[i])
          /\ UNCHANGED latest
    /\ UNCHANGED <<queue, worker, written, owed, dryRun, unparsable>>

-----------------------------------------------------------------------------
(***************************************************************************)
(* The handlers.                                                           *)
(***************************************************************************)
Newer(i, v) == IF owed[i] < v THEN v ELSE owed[i]

\* Added and deleted issues.  Only a new list shows that an issue is gone, so the
\* object of a deletion is a DeletedFinalStateUnknown and no issue: it is ignored.
Enqueue(e) ==
    IF e.type = "add"
    THEN /\ queue' = Add(queue, e.issue)
         /\ owed' = [owed EXCEPT ![e.issue] = Newer(e.issue, e.new)]
    ELSE UNCHANGED <<queue, owed>>

updateIssue(e) ==
    IF e.new > e.old
    THEN /\ queue' = Add(queue, e.issue)
         /\ owed' = [owed EXCEPT ![e.issue] = Newer(e.issue, e.new)]
    ELSE UNCHANGED <<queue, owed>>

Handle ==
    /\ events # << >>
    /\ events' = Tail(events)
    /\ LET e == Head(events) IN
          IF e.type = "update" THEN updateIssue(e) ELSE Enqueue(e)
    /\ UNCHANGED <<lister, latest, worker, written, dryRun, unparsable, count>>

RetryReady(i) ==
    /\ i \in queue.waiting
    /\ queue' = Ready(queue, i)
    /\ UNCHANGED <<lister, latest, events, worker, written, owed, dryRun, unparsable, count>>

-----------------------------------------------------------------------------
(***************************************************************************)
(* processQueue.                                                           *)
(***************************************************************************)
\* The length of the queue is read, then the rate limiter waits.
Begin(w) ==
    /\ worker[w].pc = "idle" /\ CanGet(queue)
    /\ worker' = [worker EXCEPT ![w] =
                    [Idle EXCEPT !.pc = "collect",
                                 !.l = IF Len(queue.queue) > MaxBatch THEN MaxBatch
                                       ELSE Len(queue.queue)]]
    /\ UNCHANGED <<lister, latest, events, queue, written, owed, dryRun, unparsable, count>>

\* Plausible bug: one key more is taken than the length that was read.
CollectOneMore(w) ==
    LET k == Head(queue.queue) IN
    /\ worker[w].pc = "collect" /\ CanGet(queue)
    /\ IF k \in unparsable
       THEN /\ queue' = Done(Forget(Get(queue), k), k)
            /\ UNCHANGED worker
       ELSE /\ queue' = Get(queue)
            /\ worker' = [worker EXCEPT ![w] =
                            [@ EXCEPT !.l = worker[w].l - 1, !.keys = worker[w].keys \cup {k},
                                      !.pc = IF worker[w].l = 0 THEN "fetch" ELSE "collect"]]
    /\ UNCHANGED <<lister, latest, events, written, owed, dryRun, unparsable, count>>

\* One Get, which waits while the queue is empty.  A name that is not a number is
\* dropped, and another one is waited for in its place.
Collect(w) ==
    LET k == Head(queue.queue) IN
    /\ worker[w].pc = "collect" /\ CanGet(queue)
    /\ IF k \in unparsable
       THEN /\ queue' = Done(Forget(Get(queue), k), k)
            /\ UNCHANGED worker
       ELSE /\ queue' = Get(queue)
            /\ worker' = [worker EXCEPT ![w] =
                            [@ EXCEPT !.l = worker[w].l - 1, !.keys = worker[w].keys \cup {k},
                                      !.pc = IF worker[w].l = 1 THEN "fetch" ELSE "collect"]]
    /\ UNCHANGED <<lister, latest, events, written, owed, dryRun, unparsable, count>>

\* sync: the comments of the issues in got arrive, and the lister has the rest;
\* issues that it does not have are passed over.
Fetched(w, got) ==
    LET t == [i \in Issues |-> IF i \in got THEN lister[i] ELSE 0]
        rows == \E i \in Issues : t[i] > 0
    IN
    /\ worker[w].pc = "fetch"
    /\ worker' = [worker EXCEPT ![w] =
                    [@ EXCEPT !.tickets = t,
                              !.pc = IF rows /\ ~dryRun THEN "write" ELSE "done"]]
    /\ owed' = [i \in Issues |-> IF i \in worker[w].keys /\ t[i] = 0 THEN 0 ELSE owed[i]]
    /\ UNCHANGED <<lister, latest, events, queue, written, dryRun, unparsable>>

Fetch(w) == Fetched(w, worker[w].keys) /\ UNCHANGED count

\* Jira's answer lacks an issue it was asked for (or its ID is no number).  It gets
\* no row, and passes for processed with the rest of the batch.
FetchOmits(w) ==
    /\ count.faults < MaxFaults
    /\ count' = [count EXCEPT !.faults = @ + 1]
    /\ \E got \in SUBSET worker[w].keys \ {worker[w].keys} : Fetched(w, got)

FetchFails(w) ==
    /\ worker[w].pc = "fetch" /\ count.faults < MaxFaults
    /\ count' = [count EXCEPT !.faults = @ + 1]
    /\ worker' = [worker EXCEPT ![w] = [@ EXCEPT !.pc = "failed"]]
    /\ UNCHANGED <<lister, latest, events, queue, written, owed, dryRun, unparsable>>

WriteRows(w, issues) ==
    written' = [i \in Issues |-> IF i \in issues /\ worker[w].tickets[i] > 0
                                 THEN worker[w].tickets[i] ELSE written[i]]

Write(w) ==
    /\ worker[w].pc = "write"
    /\ WriteRows(w, Issues)
    /\ worker' = [worker EXCEPT ![w] = [@ EXCEPT !.pc = "done"]]
    /\ UNCHANGED <<lister, latest, events, queue, owed, dryRun, unparsable, count>>

\* An error, with any of the rows inserted.
WriteFails(w) ==
    /\ worker[w].pc = "write" /\ count.faults < MaxFaults
    /\ count' = [count EXCEPT !.faults = @ + 1]
    /\ \E issues \in SUBSET Issues : WriteRows(w, issues)
    /\ worker' = [worker EXCEPT ![w] = [@ EXCEPT !.pc = "failed"]]
    /\ UNCHANGED <<lister, latest, events, queue, owed, dryRun, unparsable>>

\* The worker has dealt with key k.
Without(w, k) ==
    [worker EXCEPT ![w] = IF worker[w].keys = {k} THEN Idle
                          ELSE [@ EXCEPT !.keys = worker[w].keys \ {k}]]

\* Plausible bug: a processed key is not marked as done.
FinishUndone(w, k) ==
    /\ worker[w].pc = "done" /\ k \in worker[w].keys
    /\ queue' = Forget(queue, k)
    /\ worker' = Without(w, k)
    /\ UNCHANGED <<lister, latest, events, written, owed, dryRun, unparsable, count>>

Finish(w, k) ==
    /\ worker[w].pc = "done" /\ k \in worker[w].keys
    /\ queue' = Done(Forget(queue, k), k)
    /\ worker' = Without(w, k)
    /\ UNCHANGED <<lister, latest, events, written, owed, dryRun, unparsable, count>>

\* Plausible bug: the keys of a batch that failed are not queued again.
RequeueNot(w, k) ==
    /\ worker[w].pc = "failed" /\ k \in worker[w].keys
    /\ queue' = Done(queue, k)
    /\ worker' = Without(w, k)
    /\ UNCHANGED <<lister, latest, events, written, owed, dryRun, unparsable, count>>

Requeue(w, k) ==
    /\ worker[w].pc = "failed" /\ k \in worker[w].keys
    /\ queue' = Done(AddRateLimited(queue, k), k)
    /\ worker' = Without(w, k)
    /\ UNCHANGED <<lister, latest, events, written, owed, dryRun, unparsable, count>>

\* The process ends and is started again: the informer reports every issue.
Restart ==
    /\ count.crashes < MaxCrashes
    /\ count' = [count EXCEPT !.crashes = @ + 1]
    /\ queue' = NewQueue(Issues)
    /\ worker' = [w \in Workers |-> Idle]
    /\ owed' = [i \in Issues |-> 0]
    /\ \E order \in {s \in [1..Cardinality({i \in Issues : lister[i] > 0}) -> Issues] :
                        \A i \in Issues : lister[i] > 0 <=> \E n \in DOMAIN s : s[n] = i} :
          events' = [n \in DOMAIN order |->
                        [type |-> "add", issue |-> order[n], old |-> 0, new |-> lister[order[n]]]]
    /\ UNCHANGED <<lister, latest, written, dryRun, unparsable>>

-----------------------------------------------------------------------------
processQueue(w) ==
    \/ Begin(w) \/ Collect(w) \/ Fetch(w) \/ FetchOmits(w) \/ FetchFails(w)
    \/ Write(w) \/ WriteFails(w)
    \/ \E k \in Issues : Finish(w, k) \/ Requeue(w, k)

Next ==
    \/ \E i \in Issues : Change(i) \/ RetryReady(i)
    \/ Handle \/ Restart
    \/ \E w \in Workers : processQueue(w)

\* Handlers and workers run and delays end.  Nothing makes jira or BigQuery answer:
\* the context of their requests ends only with the process.
Fairness ==
    /\ WF_vars(Handle)
    /\ \A i \in Issues : WF_vars(RetryReady(i))
    /\ \A w \in Workers :
          WF_vars(Begin(w) \/ Collect(w) \/ \E k \in Issues : Finish(w, k) \/ Requeue(w, k))

Spec == Init /\ [][Next]_vars
FairSpec == Spec /\ Fairness

-----------------------------------------------------------------------------
(***************************************************************************)
(* Properties.                                                             *)
(***************************************************************************)
Held(i) == \E w \in Workers : i \in worker[w].keys

\* An issue that was enqueued and that no worker holds is queued, waits for a
\* retry, or has a row with the version it was enqueued for, or a newer one:
\* nothing is forgotten when batches fail half-way, keys come back while they
\* are processed, or rows are taken from the lister at another time - except by
\* jira itself, when its answer lacks the issue.
EnqueuedIsWritten ==
    \A i \in Issues \ unparsable :
        ~dryRun /\ ~Held(i) /\ i \notin queue.dirty \cup queue.waiting => written[i] >= owed[i]

\* The table never goes back: the latest row of an issue is the newest, with
\* as many workers as RunWorkers is asked for, and with retries.  (A row is what
\* the lister had at the fetch, and is written later: only the queue keeps two
\* workers from one issue.)  The program starts one worker, and then this is no
\* question: it is proved for any number, in JiraWatcherProofs.
RowsInOrder == [][\A i \in Issues : written'[i] >= written[i]]_vars

\* Jira and BigQuery answer, with a result or an error.
Answered == \A w \in Workers : []<>(worker[w].pc \notin {"fetch", "write"})

\* Keys that are no number were taken from the queue instead of the ones that a
\* worker counted, and it waits in Get for others, with the issue in its batch.
Waiting(i) ==
    /\ unparsable # {}
    /\ \E w \in Workers : worker[w].pc = "collect" /\ i \in worker[w].keys

\* The last fetch of the issue brought an answer without it.
LeftOut(i) == count.faults > 0 /\ owed[i] = 0

\* The one worker that the program starts gets a row with the latest version of
\* every issue written, whichever requests fail, if requests are answered at all
\* - unless the issue is stuck in a batch behind a key that is no number, or
\* jira's answer left it out.
EventuallyWritten ==
    Answered =>
    <>[](\A i \in Issues \ unparsable :
            ~dryRun /\ lister[i] > 0 => written[i] = lister[i] \/ Waiting(i) \/ LeftOut(i))
=============================================================================

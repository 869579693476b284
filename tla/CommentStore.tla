---------------------------- MODULE CommentStore ----------------------------
(***************************************************************************)
(* The comment stores of bugzilla/ and jira/: a CommentStore in memory,    *)
(* fed by the events of an informer and by fetches of comments in batches, *)
(* and the CommentDiskStore that keeps one file per bug.  The two packages *)
(* are two copies of one design and share no state, so a behaviour follows *)
(* one of them, chosen at the start (tracker); where the copies differ     *)
(* each has its own definition.                                            *)
(*                                                                         *)
(* Goroutines: the informer's (handlers, and CloseBug inside bugDelete),   *)
(* CommentStore.run, the refresher, and CommentDiskStore.Run.              *)
(*                                                                         *)
(* Times are ages: Recent, or Stale once older than refreshInterval, so    *)
(* that time may pass for ever in finitely many states.                    *)
(***************************************************************************)
EXTENDS WorkQueue, Integers, FiniteSets

CONSTANTS
    Bugs,           \* identifiers of bugs or issues
    None,           \* no entry, no file, not listed
    Empty, Torn,    \* a file just truncated, a mixture of two writes
    Private,        \* the numbers of the comments that are private
    MaxComments,    \* bound: comments on a bug
    MaxChanges,     \* bound: changes of the bug tracker's data
    MaxEvents,      \* bound: undelivered events of the informer
    MaxFaults,      \* bound: fetches and writes that fail
    MaxCrashes      \* bound: crashes of the process

VARIABLES
    tracker,        \* "bugzilla" or "jira"
    bug,            \* the tracker's data: [listed, info, comments]
    events,         \* informer events not yet handled
    store,          \* CommentStore.store
    queue,          \* CommentStore.queue
    fetch,          \* CommentStore.run: the batch being fetched
    diskQueue,      \* CommentDiskStore.queue
    files,          \* the temporary and the final file of every bug
    writer,         \* the calls of CommentDiskStore.write in progress
    process,        \* [up, disableWrite]
    count,          \* [changes, faults, crashes] so far
    closed,         \* history: bugs whose file CloseBug has written last
    overlap         \* history: bugs closed while Run was writing them

memory == <<store, queue, fetch, diskQueue>>
vars == <<tracker, bug, events, memory, files, writer, process, count, closed, overlap>>

Recent == 0
Stale == 1
Hidden == 0              \* the comment "<private comment>"
Comments == SUBSET (0..MaxComments)
Info == [v : 0..MaxChanges, full : BOOLEAN]
Entry == [info : Info, comments : Comments, age : {Recent, Stale}]
Text == [status : {"open", "closed"}, info : Info, comments : Comments]
File == [text : Text \cup {Empty, Torn}, age : {Recent, Stale}]
Writers == {"disk", "handler"}
Idle == [pc |-> "idle"]
WriterType ==
    [pc : {"read", "open", "written"}, bug : Bugs, entry : Entry,
     loc : {"temp", "final", "lost"}, text : Text]
NoFetch == [pc |-> "idle"]
FetchType ==
    [pc : {"sent", "answered"}, ids : SUBSET Bugs, age : {Recent, Stale},
     answer : [Bugs -> Comments]]
Event == [type : {"add", "update", "delete"}, bug : Bugs, old : 0..MaxChanges, info : 0..MaxChanges]

\* A bug has a description, its first comment.
ASSUME CommentStoreAssumption ==
    /\ IsFiniteSet(Bugs) /\ Private \subseteq 1..MaxComments /\ MaxComments \in Nat \ {0}
    /\ {MaxChanges, MaxEvents, MaxFaults, MaxCrashes} \subseteq Nat
    /\ None \notin Entry \cup File \cup Info
    /\ Empty \notin Text /\ Torn \notin Text

TypeOK ==
    /\ tracker \in {"bugzilla", "jira"}
    /\ bug \in [Bugs -> [listed : BOOLEAN, info : 0..MaxChanges, comments : 1..MaxComments]]
    /\ events \in Seq(Event)
    /\ store \in [Bugs -> Entry \cup {None}]
    /\ queue \in QueueType(Bugs) /\ diskQueue \in QueueType(Bugs)
    /\ fetch \in FetchType \cup {NoFetch}
    /\ files \in [Bugs -> [temp : File \cup {None}, final : File \cup {None}]]
    /\ writer \in [Writers -> WriterType \cup {Idle}]
    /\ process \in [up : BOOLEAN, disableWrite : BOOLEAN]
    /\ count \in [changes : 0..MaxChanges, faults : 0..MaxFaults, crashes : 0..MaxCrashes]
    /\ closed \subseteq Bugs /\ overlap \subseteq Bugs

Init ==
    /\ tracker \in {"bugzilla", "jira"}
    /\ bug = [b \in Bugs |-> [listed |-> FALSE, info |-> 0, comments |-> 1]]
    /\ events = << >>
    /\ store = [b \in Bugs |-> None]
    /\ queue = NewQueue(Bugs) /\ diskQueue = NewQueue(Bugs)
    /\ fetch = NoFetch
    /\ files = [b \in Bugs |-> [temp |-> None, final |-> None]]
    /\ writer = [w \in Writers |-> Idle]
    /\ process \in [up : {TRUE}, disableWrite : BOOLEAN]
    /\ count = [changes |-> 0, faults |-> 0, crashes |-> 0]
    /\ closed = {} /\ overlap = {}

-----------------------------------------------------------------------------
(***************************************************************************)
(* The bug tracker and the informer (external).  The indexer has a change  *)
(* when it happens; handlers hear of it later, in order.  A comment alone  *)
(* produces no event.                                                      *)
(***************************************************************************)
lister == [b \in Bugs |-> IF bug[b].listed THEN [v |-> bug[b].info, full |-> TRUE] ELSE None]

Deliver(type, b, old, new) ==
    IF process.up
    THEN /\ Len(events) < MaxEvents
         /\ events' = Append(events, [type |-> type, bug |-> b, old |-> old, info |-> new])
    ELSE UNCHANGED events

TrackerChange(b) ==
    /\ count.changes < MaxChanges
    /\ count' = [count EXCEPT !.changes = @ + 1]
    /\ \/ /\ bug' = [bug EXCEPT ![b].listed = ~@]
          /\ Deliver(IF bug[b].listed THEN "delete" ELSE "add", b, bug[b].info, bug[b].info)
       \/ /\ bug[b].listed
          /\ bug' = [bug EXCEPT ![b].info = @ + 1]
          /\ Deliver("update", b, bug[b].info, bug[b].info + 1)
       \/ /\ bug[b].comments < MaxComments
          /\ bug' = [bug EXCEPT ![b].comments = @ + 1]
          /\ UNCHANGED events
    /\ UNCHANGED <<tracker, memory, files, writer, process, closed, overlap>>

-----------------------------------------------------------------------------
(***************************************************************************)
(* CommentStore: the handlers.  They hold the store's lock, which          *)
(* bugDelete keeps while CloseBug writes.                                  *)
(***************************************************************************)
Unlocked == process.up /\ writer["handler"] = Idle

Full(v) == [v |-> v, full |-> TRUE]

\* Plausible bug: an added bug replaces the entry loaded from disk.
bugAddReplacing(b, info) ==
    /\ store' = [store EXCEPT ![b] = [info |-> Full(info), comments |-> {}, age |-> Stale]]
    /\ queue' = Add(queue, b)
    /\ closed' = closed \ {b}
    /\ UNCHANGED <<diskQueue, writer, files, overlap>>

\* An entry loaded from disk keeps its comments; a new one has none and the
\* zero refresh time.  Either way its comments are fetched.
bugAdd(b, info) ==
    /\ store' = [store EXCEPT ![b] =
                    IF store[b] # None THEN [store[b] EXCEPT !.info = Full(info)]
                    ELSE [info |-> Full(info), comments |-> {}, age |-> Stale]]
    /\ queue' = Add(queue, b)
    /\ closed' = closed \ {b}
    /\ UNCHANGED <<diskQueue, writer, files, overlap>>

SetInfo(b, info) ==
    /\ IF store[b] = None \/ store[b].info = Full(info) THEN UNCHANGED <<store, diskQueue>>
       ELSE /\ store' = [store EXCEPT ![b].info = Full(info)]
            /\ diskQueue' = Add(diskQueue, b)
    /\ UNCHANGED <<queue, writer, files, closed, overlap>>

\* Plausible bug: a change of the bug is left to the next fetch.
bugUpdateIgnored(b, old, new) == UNCHANGED <<store, diskQueue, queue, writer, files, closed, overlap>>

bugUpdate(b, old, new) == SetInfo(b, new)

\* The jira copy passes both objects of the event and goes on with the old one.
issueUpdate(b, old, new) ==
    IF new > old THEN SetInfo(b, old)
    ELSE UNCHANGED <<store, diskQueue, queue, writer, files, closed, overlap>>

\* Plausible bug: the file is written under its final name.
OpenFinal(b) == files' = [files EXCEPT ![b].final = [text |-> Empty, age |-> Recent]]

OpenTemp(b) == files' = [files EXCEPT ![b].temp = [text |-> Empty, age |-> Recent]]

Closing(b, entry) ==
    [pc |-> "open", bug |-> b, entry |-> entry, loc |-> "temp",
     text |-> [status |-> "closed", info |-> entry.info, comments |-> entry.comments]]

\* Plausible bug: CloseBug writes the bug as it is.
CloseBugAsIs(b) ==
    writer' = [writer EXCEPT !["handler"] = [Closing(b, store[b]) EXCEPT !.text.status = "open"]]

\* CloseBug writes the file on the informer's goroutine.
CloseBug(b) == writer' = [writer EXCEPT !["handler"] = Closing(b, store[b])]

bugDelete(b) ==
    /\ IF store[b] = None THEN UNCHANGED <<store, writer, files, overlap>>
       ELSE /\ store' = [store EXCEPT ![b] = None]
            /\ CloseBug(b) /\ OpenTemp(b)
            /\ overlap' = IF writer["disk"] # Idle /\ writer["disk"].bug = b
                          THEN overlap \cup {b} ELSE overlap
    /\ UNCHANGED <<queue, diskQueue, closed>>

issueAdd(b, info) == bugAdd(b, info)
issueDelete(b) == bugDelete(b)

Handle ==
    /\ Unlocked /\ events # << >>
    /\ events' = Tail(events)
    /\ LET e == Head(events) IN
       CASE e.type = "add" /\ tracker = "bugzilla" -> bugAdd(e.bug, e.info)
         [] e.type = "add" /\ tracker = "jira" -> issueAdd(e.bug, e.info)
         [] e.type = "update" /\ tracker = "bugzilla" -> bugUpdate(e.bug, e.old, e.info)
         [] e.type = "update" /\ tracker = "jira" -> issueUpdate(e.bug, e.old, e.info)
         [] e.type = "delete" /\ tracker = "bugzilla" -> bugDelete(e.bug)
         [] e.type = "delete" /\ tracker = "jira" -> issueDelete(e.bug)
    /\ UNCHANGED <<tracker, bug, fetch, process, count>>

-----------------------------------------------------------------------------
(***************************************************************************)
(* CommentStore: the refresher and the fetch loop.                         *)
(***************************************************************************)
\* Plausible bug: the comparison of the refresh time is the wrong way round.
RefreshRecent(b) ==
    /\ process.up /\ store[b] # None /\ store[b].age = Recent
    /\ queue' = Add(queue, b)
    /\ UNCHANGED <<tracker, bug, events, store, fetch, diskQueue, files, writer, process, count, closed, overlap>>

\* One iteration of the refresher over the entries of the store.
Refresh(b) ==
    /\ process.up /\ store[b] # None /\ store[b].age = Stale
    /\ queue' = Add(queue, b)
    /\ UNCHANGED <<tracker, bug, events, store, fetch, diskQueue, files, writer, process, count, closed, overlap>>

\* run takes some of the queue, Done right after Get: Len is read before the
\* rate limiter waits, so the batch is any prefix.  (All keys are numbers here; one
\* that is none is dropped, and run waits with its batch for another key.)
CollectBatch ==
    /\ process.up /\ fetch = NoFetch
    /\ \E l \in 1..Len(queue.queue) :
          LET ids == {queue.queue[i] : i \in 1..l}
          IN  /\ fetch' = [pc |-> "sent", ids |-> ids, age |-> Recent,
                            answer |-> [b \in Bugs |-> {}]]
              /\ queue' = [queue EXCEPT !.queue = SubSeq(@, l + 1, Len(@)), !.dirty = @ \ ids]
    /\ UNCHANGED <<tracker, bug, events, store, diskQueue, files, writer, process, count, closed, overlap>>

filterComments(c) ==
    IF c \ Private # {} THEN c \ Private ELSE IF c = {} THEN {} ELSE {Hidden}

FilterIssueComments(c) ==
    (c \ Private) \cup (IF c \cap Private # {} THEN {Hidden} ELSE {})

Visible(c) == IF tracker = "bugzilla" THEN filterComments(c) ELSE FilterIssueComments(c)

Answers(ids) == [b \in Bugs |-> IF b \in ids THEN Visible(1..bug[b].comments) ELSE {}]

\* The server answers with the comments of that moment (BugCommentsByID,
\* IssueCommentsByID and their retries).
Answer ==
    /\ process.up /\ fetch.pc = "sent"
    /\ fetch' = [fetch EXCEPT !.pc = "answered", !.answer = Answers(fetch.ids)]
    /\ UNCHANGED <<tracker, bug, events, store, queue, diskQueue, files, writer, process, count, closed, overlap>>

\* Every attempt failed: bugzilla drops the batch, jira goes on with the issues
\* that were decoded before the error.
FetchFails ==
    /\ process.up /\ fetch.pc = "sent" /\ count.faults < MaxFaults
    /\ count' = [count EXCEPT !.faults = @ + 1]
    /\ \/ fetch' = NoFetch
       \/ /\ tracker = "jira"
          /\ \E got \in SUBSET fetch.ids :
                fetch' = [fetch EXCEPT !.pc = "answered", !.ids = got, !.answer = Answers(got)]
    /\ UNCHANGED <<tracker, bug, events, store, queue, diskQueue, files, writer, process, closed, overlap>>

\* An entry deleted or refreshed meanwhile is left alone; the others get the
\* comments of the answer and keep the information they have now.
Merges(b) == b \in fetch.ids /\ store[b] # None /\ ~(store[b].age < fetch.age)

Merged ==
    [b \in Bugs |->
        IF Merges(b)
        THEN [info |-> store[b].info, comments |-> fetch.answer[b], age |-> fetch.age]
        ELSE store[b]]

\* NotifyChanged adds every merged bug, in the order of a map: what is neither
\* dirty nor being processed joins the queue.
mergeBugs ==
    LET ids == {b \in Bugs : Merges(b)}
        new == ids \ (diskQueue.dirty \cup diskQueue.processing)
    IN  /\ store' = Merged
        /\ \E order \in [1..Cardinality(new) -> new] :
              /\ \A b \in new : \E i \in DOMAIN order : order[i] = b
              /\ diskQueue' = [diskQueue EXCEPT !.dirty = @ \cup ids, !.queue = @ \o order]

mergeIssues == mergeBugs

\* Plausible bug: the batch is not cleared after the merge.
MergeKeepingBatch ==
    /\ Unlocked /\ fetch.pc = "answered"
    /\ IF tracker = "bugzilla" THEN mergeBugs ELSE mergeIssues
    /\ fetch' = [fetch EXCEPT !.pc = "idle"]
    /\ UNCHANGED <<tracker, bug, events, queue, files, writer, process, count, closed, overlap>>

Merge ==
    /\ Unlocked /\ fetch.pc = "answered"
    /\ IF tracker = "bugzilla" THEN mergeBugs ELSE mergeIssues
    /\ fetch' = NoFetch
    /\ UNCHANGED <<tracker, bug, events, queue, files, writer, process, count, closed, overlap>>

-----------------------------------------------------------------------------
(***************************************************************************)
(* CommentDiskStore.  write opens a temporary file, writes it and renames  *)
(* it; Run and CloseBug use the same temporary name.  A writer's open file *)
(* is the one under the temporary name, the one under the final name (it   *)
(* was renamed under the writer) or none of the two (lost).                *)
(***************************************************************************)
\* Run: one item of the queue up to the entry of the store.
RunGet ==
    /\ process.up /\ writer["disk"] = Idle /\ CanGet(diskQueue)
    /\ LET b == Head(diskQueue.queue) IN
       /\ diskQueue' = Done(Get(diskQueue), b)
       /\ writer' = IF process.disableWrite \/ store[b] = None THEN writer
                    ELSE [writer EXCEPT !["disk"] =
                            [pc |-> "read", bug |-> b, entry |-> store[b], loc |-> "lost",
                             text |-> [status |-> "open", info |-> store[b].info,
                                       comments |-> store[b].comments]]]
    /\ UNCHANGED <<tracker, bug, events, store, queue, fetch, files, process, count, closed, overlap>>

\* Run: the lister's information if it has any, then write opens the file.
RunOpen ==
    LET w == writer["disk"] IN
    /\ process.up /\ w.pc = "read"
    /\ writer' = [writer EXCEPT !["disk"] =
                     [w EXCEPT !.pc = "open", !.loc = "temp",
                               !.text.info = IF lister[w.bug] # None THEN lister[w.bug] ELSE @]]
    /\ OpenTemp(w.bug)
    /\ UNCHANGED <<tracker, bug, events, memory, process, count, closed, overlap>>

\* Two writers of one file leave a mixture, unless they write the same.
Overlay(old, new) == IF old \in {Empty, new} THEN new ELSE Torn

WriteAt(w, text) ==
    CASE w.loc = "temp" ->
           [files EXCEPT ![w.bug].temp = [text |-> Overlay(@.text, text), age |-> Recent]]
      [] w.loc = "final" ->
           [files EXCEPT ![w.bug].final = [text |-> Overlay(@.text, text), age |-> Recent]]
      [] w.loc = "lost" -> files

\* The location of every writer of bug b once name from is gone or renamed.
Moved(b, from, to) ==
    [x \in Writers |->
        IF writer[x] # Idle /\ writer[x].bug = b /\ writer[x].loc = from
        THEN [writer[x] EXCEPT !.loc = to] ELSE writer[x]]

Flush(x) ==
    LET w == writer[x] IN
    /\ process.up /\ w.pc = "open"
    /\ files' = WriteAt(w, w.text)
    /\ writer' = [writer EXCEPT ![x].pc = "written"]
    /\ UNCHANGED <<tracker, bug, events, memory, process, count, closed, overlap>>

\* The write fails half way and the temporary name is removed.
FlushFails(x) ==
    LET w == writer[x] IN
    /\ process.up /\ w.pc = "open" /\ count.faults < MaxFaults
    /\ count' = [count EXCEPT !.faults = @ + 1]
    /\ files' = [WriteAt(w, Torn) EXCEPT ![w.bug].temp = None]
    /\ writer' = [Moved(w.bug, "temp", "lost") EXCEPT ![x] = Idle]
    /\ UNCHANGED <<tracker, bug, events, memory, process, closed, overlap>>

\* Chtimes and Rename work on the name: they fail if another writer has taken
\* the temporary file away.  A bug that was closed is queued once more.
Rename(x) ==
    LET w == writer[x]
        b == w.bug
        ok == files[b].temp # None
        moved == [y \in Writers |->
                    IF writer[y] = Idle \/ writer[y].bug # b THEN writer[y]
                    ELSE [writer[y] EXCEPT !.loc =
                            IF @ = "temp" THEN "final" ELSE "lost"]]
    IN
    /\ process.up /\ w.pc = "written"
    /\ files' = IF ok THEN [files EXCEPT ![b] = [temp |-> None,
                                                 final |-> [files[b].temp EXCEPT !.age = w.entry.age]]]
                ELSE files
    /\ writer' = [(IF ok THEN moved ELSE writer) EXCEPT ![x] = Idle]
    /\ queue' = IF ok /\ x = "handler" THEN Add(queue, b) ELSE queue
    /\ closed' = IF ok /\ x = "handler" THEN closed \cup {b} ELSE closed
    /\ UNCHANGED <<tracker, bug, events, store, fetch, diskQueue, process, count, overlap>>

-----------------------------------------------------------------------------
(***************************************************************************)
(* Time, crashes and restarts.                                             *)
(***************************************************************************)
Aged(r) == IF r = None THEN None ELSE [r EXCEPT !.age = Stale]

\* More than a refreshInterval goes by.
TimePasses ==
    /\ store' = [b \in Bugs |-> Aged(store[b])]
    /\ fetch' = IF fetch = NoFetch THEN NoFetch ELSE [fetch EXCEPT !.age = Stale]
    /\ files' = [b \in Bugs |-> [temp |-> Aged(files[b].temp), final |-> Aged(files[b].final)]]
    /\ writer' = [w \in Writers |->
                    IF writer[w] = Idle THEN Idle ELSE [writer[w] EXCEPT !.entry.age = Stale]]
    /\ UNCHANGED <<tracker, bug, events, queue, diskQueue, process, count, closed, overlap>>

Crash ==
    /\ process.up /\ count.crashes < MaxCrashes
    /\ count' = [count EXCEPT !.crashes = @ + 1]
    /\ process' = [process EXCEPT !.up = FALSE]
    /\ events' = << >>
    /\ store' = [b \in Bugs |-> None]
    /\ queue' = NewQueue(Bugs) /\ diskQueue' = NewQueue(Bugs)
    /\ fetch' = NoFetch
    /\ writer' = [w \in Writers |-> Idle]
    /\ UNCHANGED <<tracker, bug, files, closed, overlap>>

\* What a file gives back.  Not every field of the information is read back,
\* so what was loaded differs from what the tracker has.
ReadBugComments(f) ==
    [info |-> [f.text.info EXCEPT !.full = FALSE], comments |-> f.text.comments, age |-> f.age]

ReadIssueComments(f) == ReadBugComments(f)

Old(f) == f # None /\ f.age = Stale

Unreadable(f) == f # None /\ f.text \in {Empty, Torn}

\* Sync with the files that have expired (some of the stale ones): it removes
\* them and the files without comments, and gives up with nothing loaded at
\* the first file it cannot read.  Run leaves out what it loads of closed bugs.
Sync(expired) ==
    LET kept     == {b \in Bugs : files[b].final # None /\ <<b, "final">> \notin expired}
        bad      == {b \in kept : Unreadable(files[b].final)}
        useless  == {b \in kept \ bad : files[b].final.text.comments = {}}
        loaded   == {b \in kept \ (bad \cup useless) : files[b].final.text.status # "closed"}
        removes  == expired \cup (useless \X {"final"})
        \* removed: what the walk has come to before it gave up, if it did
        Remove(removed) ==
            [b \in Bugs |->
                [temp |-> IF <<b, "temp">> \in removed THEN None ELSE files[b].temp,
                 final |-> IF <<b, "final">> \in removed THEN None ELSE files[b].final]]
        Read(f)  == IF tracker = "bugzilla" THEN ReadBugComments(f) ELSE ReadIssueComments(f)
    IN  /\ store' = [b \in Bugs |-> IF bad = {} /\ b \in loaded
                                    THEN Read(files[b].final) ELSE None]
        /\ IF bad = {} THEN files' = Remove(removes)
           ELSE \E removed \in SUBSET removes : files' = Remove(removed)

SyncIssues(expired) == Sync(expired)

\* The process starts: Sync, then the handlers hear of every listed bug.
Restart ==
    /\ ~process.up
    /\ process' \in [up : {TRUE}, disableWrite : BOOLEAN]
    /\ \E expired \in SUBSET (({b \in Bugs : Old(files[b].temp)} \X {"temp"})
                              \cup ({b \in Bugs : Old(files[b].final)} \X {"final"})) :
          IF tracker = "bugzilla" THEN Sync(expired) ELSE SyncIssues(expired)
    /\ \E order \in {s \in [1..Cardinality({b \in Bugs : bug[b].listed}) -> Bugs] :
                        \A b \in Bugs : bug[b].listed <=> \E i \in DOMAIN s : s[i] = b} :
          events' = [i \in DOMAIN order |->
                        [type |-> "add", bug |-> order[i],
                         old |-> bug[order[i]].info, info |-> bug[order[i]].info]]
    /\ UNCHANGED <<tracker, bug, queue, fetch, diskQueue, writer, count, closed, overlap>>

-----------------------------------------------------------------------------
DiskWrite(x) == Flush(x) \/ Rename(x)

Next ==
    \/ \E b \in Bugs : TrackerChange(b) \/ Refresh(b)
    \/ Handle \/ CollectBatch \/ Answer \/ FetchFails \/ Merge
    \/ RunGet \/ RunOpen
    \/ \E x \in Writers : Flush(x) \/ FlushFails(x) \/ Rename(x)
    \/ TimePasses \/ Crash \/ Restart

\* Every goroutine keeps running, time passes, and a crashed process is started
\* again.  Nothing makes a request end: neither client has a timeout for answers.
Fairness ==
    /\ WF_vars(Handle) /\ WF_vars(CollectBatch) /\ WF_vars(Merge)
    /\ WF_vars(RunGet) /\ WF_vars(RunOpen) /\ WF_vars(TimePasses) /\ WF_vars(Restart)
    /\ \A b \in Bugs : WF_vars(Refresh(b))
    /\ \A x \in Writers : WF_vars(DiskWrite(x))

Spec == Init /\ [][Next]_vars
FairSpec == Spec /\ Fairness

-----------------------------------------------------------------------------
(***************************************************************************)
(* Properties.                                                             *)
(***************************************************************************)
\* A file under its final name can be read (CommentDiskStore.write renames a
\* complete file), whatever crashes and fails, unless the bug was closed by the
\* informer while Run was writing it: both use one temporary name.
ReadableUnlessOverlap ==
    \A b \in Bugs \ overlap : ~Unreadable(files[b].final)

\* Once CloseBug has written a bug its file says CLOSED until the bug is listed
\* again, through later fetches, notifications, crashes and Sync - unless Run
\* was writing the bug at that moment.
DeletedSaysClosed ==
    \A b \in closed \ overlap :
        files[b].final = None \/ files[b].final.text.status = "closed"

HandledAll == process.up /\ events = << >> /\ writer["handler"] = Idle

InfoFollows == \A b \in Bugs : bug[b].listed => store[b] # None /\ store[b].info = lister[b]

\* When every event of the informer has been handled, the store has every
\* listed bug with the information the informer has, although merges take the
\* comments and the information from different moments (bugzilla.CommentStore).
BugInfoFollowsInformer == tracker = "bugzilla" /\ HandledAll => InfoFollows

\* The same of jira.CommentStore, as its comment on newer resource versions says.
IssueInfoFollowsInformer == tracker = "jira" /\ HandledAll => InfoFollows

\* A bug in the store does not lose comments it had: neither an event nor the
\* answer to an older request takes the entry back.
KeepsComments ==
    [][\A b \in Bugs :
         store[b] # None /\ store'[b] # None =>
            store[b].comments \ {Hidden} \subseteq store'[b].comments]_vars

Settled ==
    \A b \in Bugs : bug[b].listed =>
        /\ store[b] # None /\ store[b].comments = Visible(1..bug[b].comments)
        /\ ~process.disableWrite =>
             /\ files[b].final # None
             /\ files[b].final.text = [status |-> "open", info |-> lister[b],
                                       comments |-> store[b].comments]
        /\ tracker = "bugzilla" => store[b].info = lister[b]

\* The tracker answers every request, be it with an error (external).
TrackerAnswers == []<>(fetch.pc # "sent")

\* If the tracker answers, then whatever was dropped (a batch whose fetch failed,
\* a write that failed, files lost with a crash), the refresher brings every entry
\* back: store and file end up with the comments of every listed bug, and with its
\* information.  (Of an issue only the file does, since Run asks the lister: the
\* store may keep older information, see IssueInfoFollowsInformer.)
Converges == TrackerAnswers => <>[]Settled
=============================================================================

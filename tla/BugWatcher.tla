----------------------------- MODULE BugWatcher -----------------------------
(***************************************************************************)
(* The list-and-watch of bugzilla/informer.go and jira/informer.go under   *)
(* the reflector of client-go (external): List reads the tracker in pages, *)
(* a periodicWatcher then polls for changes until its timer or a failed    *)
(* query ends the watch, and the reflector lists again.                    *)
(*                                                                         *)
(* The packages are two copies of one design and share no state: a         *)
(* behaviour follows one of them (tracker).  Times are seconds; two of     *)
(* them make a minute, the precision of a jira query.  The type of an      *)
(* event (Added or Modified) makes no difference to the informer and is    *)
(* left out.                                                               *)
(***************************************************************************)
EXTENDS Integers, Sequences, SequencesExt, FiniteSets

CONSTANTS
    NumBugs,        \* bugs have the identifiers 1..NumBugs
    HiddenSets,     \* sets of bugs that includeFn leaves out
    PageSizes,      \* page sizes of the pager, also jira's default limit
    ChanSize,       \* capacity of a watcher's channel
    ZoneOffset,     \* minutes between jira's time zone and UTC
    MaxTime,        \* bound: the clock
    MaxChanges,     \* bound: changes of the tracker after the start
    MaxFaults       \* bound: queries that fail

ASSUME BugWatcherAssumption ==
    /\ {NumBugs, ChanSize, ZoneOffset, MaxTime, MaxChanges, MaxFaults} \cup PageSizes \subseteq Nat \ {0}
    /\ HiddenSets \subseteq SUBSET (1..NumBugs)

Bugs == 1..NumBugs

VARIABLES
    tracker,        \* "bugzilla" or "jira"
    zone,           \* whether the time zone of the jira queries is known
    pageSize,
    hidden,         \* the bugs that includeFn leaves out
    clock,
    changes,
    changed,        \* the tracker: last change of every bug it lists, or 0
    reflector,      \* [pc, paged, lastSync, offset, items, rv]
    known,          \* the indexer: the version (change) of every bug, or 0
    phantom,        \* the indexer: it has an object with no name
    watcher,        \* the periodicWatcher: [pc, rv, from, pending, next, ch, done]
    timer,          \* its timer goroutine
    late,           \* a timer goroutine of an earlier watch is about to send
    faults,
    truncated,      \* history: a query of jira left results out
    up              \* the process has not panicked

tracked == <<tracker, zone, pageSize, hidden, clock, changes, changed>>
vars == <<tracked, reflector, known, phantom, watcher, timer, late, faults, truncated, up>>

Times == 0..MaxTime
Listed == {b \in Bugs : changed[b] > 0}
Item == [bug : Bugs, at : Times]
Failure == [bug |-> 0, at |-> 0]     \* an event of type Error
NoItems == [b \in Bugs |-> 0]
NewReflector == [pc |-> "list", paged |-> FALSE, lastSync |-> 0, offset |-> 0,
                 items |-> NoItems, phantom |-> FALSE, rv |-> 0]
NoWatcher == [pc |-> "closed", rv |-> 0, from |-> 0, pending |-> {}, next |-> 0,
              ch |-> << >>, done |-> TRUE]

ReflectorType ==
    [pc : {"list", "watch", "stop"}, paged : BOOLEAN, lastSync : Times, offset : 0..NumBugs,
     items : [Bugs -> Times], phantom : BOOLEAN, rv : Times]
WatcherType ==
    [pc : {"wait", "asked", "failed", "send", "closed"}, rv : 0..(MaxTime + 1),
     from : 0..(MaxTime + 1), pending : SUBSET Item, next : Times,
     ch : Seq(Item \cup {Failure}), done : BOOLEAN]

TypeOK ==
    /\ tracker \in {"bugzilla", "jira"} /\ zone \in BOOLEAN
    /\ pageSize \in PageSizes /\ hidden \in HiddenSets
    /\ clock \in 1..MaxTime /\ changes \in 0..MaxChanges
    /\ changed \in [Bugs -> Times] /\ known \in [Bugs -> Times]
    /\ reflector \in ReflectorType
    /\ watcher \in WatcherType /\ Len(watcher.ch) <= ChanSize
    /\ timer \in {"armed", "firing", "sent", "ended"}
    /\ {phantom, late, truncated, up} \subseteq BOOLEAN /\ faults \in 0..MaxFaults

Init ==
    /\ tracker \in {"bugzilla", "jira"} /\ zone \in BOOLEAN
    /\ tracker = "bugzilla" => zone
    /\ pageSize \in PageSizes /\ hidden \in HiddenSets
    /\ clock = 1 /\ changes = 0 /\ changed \in [Bugs -> {0, 1}]
    /\ reflector = NewReflector /\ known = NoItems /\ phantom = FALSE
    /\ watcher = NoWatcher /\ timer = "ended" /\ late = FALSE
    /\ faults = 0 /\ truncated = FALSE /\ up = TRUE

-----------------------------------------------------------------------------
(***************************************************************************)
(* The tracker (external): a bug changes, or no longer matches the search. *)
(***************************************************************************)
Tick ==
    /\ clock < MaxTime /\ clock' = clock + 1
    /\ UNCHANGED <<tracker, zone, pageSize, hidden, changes, changed, reflector, known, phantom,
                   watcher, timer, late, faults, truncated, up>>

Change(b) ==
    /\ changes < MaxChanges /\ changes' = changes + 1
    /\ changed' \in {[changed EXCEPT ![b] = clock], [changed EXCEPT ![b] = 0]}
    /\ changed' # changed
    /\ UNCHANGED <<tracker, zone, pageSize, hidden, clock, reflector, known, phantom,
                   watcher, timer, late, faults, truncated, up>>

-----------------------------------------------------------------------------
(***************************************************************************)
(* The queries.                                                            *)
(***************************************************************************)
Minute(t) == (t + 1) \div 2

\* The results of SearchBugs with a last_change_time.
SearchBugs(rv) == {{b \in Listed : changed[b] >= rv}}

\* addTimeToJQL: whole minutes, in jira's time zone.  It may be unavailable, in
\* which case the UTC time of the query is hours later than it means to be.
addTimeToJQL(rv) ==
    LET since == IF zone THEN Minute(rv) ELSE Minute(rv) + ZoneOffset
    IN  {b \in Listed : Minute(changed[b]) >= since}

\* SearchIssues without MaxResults has a limit of 500, in no particular order.
SearchIssues(found) ==
    IF Cardinality(found) <= pageSize THEN {found}
    ELSE {s \in SUBSET found : Cardinality(s) = pageSize}

\* The newest change among bugs: the resource version of a list of them.
ResourceVersion(bugs) ==
    IF bugs = {} THEN 0
    ELSE CHOOSE t \in Times : (\E b \in bugs : changed[b] = t) /\ \A b \in bugs : changed[b] <= t

-----------------------------------------------------------------------------
(***************************************************************************)
(* List, called by the reflector's pager until there is no Continue.  The  *)
(* reflector asks for pages at first, and later only if it got pages then  *)
(* (or still has no resource version).                                     *)
(***************************************************************************)
Limit == IF reflector.paged \/ reflector.lastSync = 0 THEN pageSize ELSE 0

\* List with a Limit: one result more than the limit tells whether there are
\* more.  The extra one is not cut off, so it is in two pages; and where
\* includeFn left less than the limit the page is filled up with empty objects.
Page ==
    LET rank(b) == Cardinality({x \in Listed : x <= b})
        bugs == {b \in Listed : /\ reflector.offset < rank(b)
                                /\ rank(b) <= reflector.offset + pageSize + 1}
        more == Cardinality(Listed) > reflector.offset + pageSize
    IN  [bugs |-> bugs \ hidden,
         more |-> more,
         empty |-> more /\ Cardinality(bugs \ hidden) < pageSize]

\* What the pager has after this page.
Collected(page) ==
    [reflector EXCEPT
        !.items = [b \in Bugs |-> IF b \in page.bugs THEN changed[b] ELSE @[b]],
        !.phantom = @ \/ page.empty,
        !.rv = IF reflector.offset = 0 THEN ResourceVersion(page.bugs) ELSE @,
        !.offset = @ + pageSize]

\* Plausible bug: a second too many is added.
newPeriodicWatcherLate(rv) ==
    /\ watcher' = [pc |-> "wait", rv |-> rv + 2, from |-> rv + 2, pending |-> {}, next |-> 0,
                   ch |-> << >>, done |-> FALSE]
    /\ timer' = "armed" /\ UNCHANGED late

\* Plausible bug: the watch has no maximum duration.
newPeriodicWatcherEndless(rv) ==
    /\ watcher' = [pc |-> "wait", rv |-> rv + 1, from |-> rv + 1, pending |-> {}, next |-> 0,
                   ch |-> << >>, done |-> FALSE]
    /\ timer' = "ended" /\ UNCHANGED late

\* newPeriodicWatcher: the watch starts with the second after the list's.
newPeriodicWatcher(rv) ==
    /\ watcher' = [pc |-> "wait", rv |-> rv + 1, from |-> rv + 1, pending |-> {}, next |-> 0,
                   ch |-> << >>, done |-> FALSE]
    /\ timer' = "armed"
    \* the goroutine of the watch before may still have to choose, or to send
    /\ late' \in CASE timer = "firing" -> {TRUE} [] timer = "armed" -> {late, TRUE}
                   [] OTHER -> {late}

\* Replace in the indexer, then Watch.
Replace(r) ==
    /\ known' = r.items /\ phantom' = r.phantom
    /\ reflector' = [NewReflector EXCEPT !.pc = "watch", !.paged = r.paged, !.lastSync = r.rv]
    /\ newPeriodicWatcher(r.rv)

ListPage ==
    /\ up /\ reflector.pc = "list" /\ Limit > 0
    /\ LET r == Collected(Page) IN
       IF Page.more
       THEN reflector' = r /\ UNCHANGED <<known, phantom, watcher, timer, late>>
       ELSE Replace([r EXCEPT !.paged = @ \/ (reflector.lastSync = 0 /\ reflector.offset > 0)])
    /\ UNCHANGED <<tracked, faults, truncated, up>>

\* List without a Limit: everything, up to the default limit of SearchIssues.
ListAll ==
    /\ up /\ reflector.pc = "list" /\ Limit = 0
    /\ \E found \in IF tracker = "bugzilla" THEN {Listed} ELSE SearchIssues(Listed) :
          /\ Replace([reflector EXCEPT
                        !.items = [b \in Bugs |-> IF b \in found \ hidden THEN changed[b] ELSE 0],
                        !.rv = ResourceVersion(found \ hidden)])
          /\ truncated' = (truncated \/ found # Listed)
    /\ UNCHANGED <<tracked, faults, up>>

\* The query of a page fails: the reflector starts over.
ListFails ==
    /\ up /\ reflector.pc = "list" /\ faults < MaxFaults
    /\ faults' = faults + 1
    /\ reflector' = [NewReflector EXCEPT !.paged = reflector.paged, !.lastSync = reflector.lastSync]
    /\ UNCHANGED <<tracked, known, phantom, watcher, timer, late, truncated, up>>

-----------------------------------------------------------------------------
(***************************************************************************)
(* periodicWatcher.                                                        *)
(***************************************************************************)
\* run asks for what changed since rv, unless the watch has been stopped.
Ask ==
    /\ up /\ watcher.pc = "wait" /\ ~watcher.done
    /\ watcher' = [watcher EXCEPT !.pc = "asked"]
    /\ UNCHANGED <<tracked, reflector, known, phantom, timer, late, faults, truncated, up>>

\* The answer.  Results no newer than rv are left for a later query.
Answered(bugs) ==
    LET next == ResourceVersion(bugs) IN
    watcher' = IF next <= watcher.rv THEN [watcher EXCEPT !.pc = "wait"]
               ELSE [watcher EXCEPT
                        !.pc = "send", !.next = next,
                        !.pending = {[bug |-> b, at |-> changed[b]] :
                                        b \in {x \in bugs : changed[x] >= watcher.rv}}]

AnswerBugs ==
    /\ up /\ tracker = "bugzilla" /\ watcher.pc = "asked"
    /\ \E bugs \in SearchBugs(watcher.rv) : Answered(bugs)
    /\ UNCHANGED <<tracked, reflector, known, phantom, timer, late, faults, truncated, up>>

AnswerIssues ==
    /\ up /\ tracker = "jira" /\ watcher.pc = "asked"
    /\ \E issues \in SearchIssues(addTimeToJQL(watcher.rv)) :
          /\ Answered(issues)
          /\ truncated' = (truncated \/ issues # addTimeToJQL(watcher.rv))
    /\ UNCHANGED <<tracked, reflector, known, phantom, timer, late, faults, up>>

QueryFails ==
    /\ up /\ watcher.pc = "asked" /\ faults < MaxFaults
    /\ faults' = faults + 1
    /\ watcher' = [watcher EXCEPT !.pc = "failed"]
    /\ UNCHANGED <<tracked, reflector, known, phantom, timer, late, truncated, up>>

Room == Len(watcher.ch) < ChanSize

\* The failure is sent, then the watch is stopped.
SendFailure ==
    /\ up /\ watcher.pc = "failed" /\ Room
    /\ watcher' = [watcher EXCEPT !.pc = "wait", !.ch = Append(@, Failure), !.done = TRUE]
    /\ UNCHANGED <<tracked, reflector, known, phantom, timer, late, faults, truncated, up>>

\* Changes are sent from the oldest to the newest.
Send ==
    /\ up /\ watcher.pc = "send" /\ watcher.pending # {} /\ Room
    /\ \E i \in watcher.pending :
          /\ \A j \in watcher.pending : i.at <= j.at
          /\ watcher' = [watcher EXCEPT !.pending = @ \ {i}, !.ch = Append(@, i)]
    /\ UNCHANGED <<tracked, reflector, known, phantom, timer, late, faults, truncated, up>>

\* Plausible bug: the next query starts with the second after the newest change.
SentSkipping ==
    /\ up /\ watcher.pc = "send" /\ watcher.pending = {}
    /\ watcher' = [watcher EXCEPT !.pc = "wait", !.rv = watcher.next + 1]
    /\ UNCHANGED <<tracked, reflector, known, phantom, timer, late, faults, truncated, up>>

Sent ==
    /\ up /\ watcher.pc = "send" /\ watcher.pending = {}
    /\ watcher' = [watcher EXCEPT !.pc = "wait", !.rv = watcher.next]
    /\ UNCHANGED <<tracked, reflector, known, phantom, timer, late, faults, truncated, up>>

\* run returns when the watch has been stopped, and closes the channel.
Close ==
    /\ up /\ watcher.pc = "wait" /\ watcher.done
    /\ watcher' = [watcher EXCEPT !.pc = "closed"]
    /\ UNCHANGED <<tracked, reflector, known, phantom, timer, late, faults, truncated, up>>

\* The timer goroutine: maxInterval is over, or the watch was stopped.
TimerChooses ==
    /\ up /\ timer = "armed"
    /\ \/ timer' = "firing"
       \/ watcher.done /\ timer' = "ended"
    /\ UNCHANGED <<tracked, reflector, known, phantom, watcher, late, faults, truncated, up>>

\* Plausible bug: the timer stops the watch before it sends its error.
TimerSendsStopped ==
    /\ up
    /\ \/ /\ timer = "firing"
          /\ watcher' = [watcher EXCEPT !.done = TRUE]
          /\ timer' = "sent" /\ UNCHANGED up
       \/ /\ timer = "sent" /\ Room
          /\ watcher' = IF watcher.pc = "closed" THEN watcher
                        ELSE [watcher EXCEPT !.ch = Append(@, Failure)]
          /\ up' = (watcher.pc # "closed")
          /\ timer' = "ended"
    /\ UNCHANGED <<tracked, reflector, known, phantom, late, faults, truncated>>

\* Its error on the channel, which may have been closed in the meantime.
TimerSends ==
    /\ up /\ timer = "firing"
    /\ \/ watcher.pc = "closed" /\ up' = FALSE /\ UNCHANGED <<watcher, timer>>
       \/ /\ watcher.pc # "closed" /\ Room
          /\ watcher' = [watcher EXCEPT !.ch = Append(@, Failure)]
          /\ timer' = "sent" /\ UNCHANGED up
    /\ UNCHANGED <<tracked, reflector, known, phantom, late, faults, truncated>>

TimerStops ==
    /\ up /\ timer = "sent"
    /\ watcher' = [watcher EXCEPT !.done = TRUE]
    /\ timer' = "ended"
    /\ UNCHANGED <<tracked, reflector, known, phantom, late, faults, truncated, up>>

LateTimer ==
    /\ up /\ late
    /\ up' = FALSE
    /\ UNCHANGED <<tracked, reflector, known, phantom, watcher, timer, late, faults, truncated>>

-----------------------------------------------------------------------------
(***************************************************************************)
(* The reflector's side of a watch.                                        *)
(***************************************************************************)
\* An event; an error makes the reflector call Stop.
Receive ==
    /\ up /\ reflector.pc = "watch" /\ watcher.ch # << >>
    /\ LET e == Head(watcher.ch) IN
       IF e = Failure
       THEN /\ reflector' = [reflector EXCEPT !.pc = "stop"]
            /\ watcher' = [watcher EXCEPT !.ch = Tail(@), !.done = TRUE]
            /\ UNCHANGED known
       ELSE /\ known' = [known EXCEPT ![e.bug] = e.at]
            /\ reflector' = [reflector EXCEPT !.lastSync = e.at]
            /\ watcher' = [watcher EXCEPT !.ch = Tail(@)]
    /\ UNCHANGED <<tracked, phantom, timer, late, faults, truncated, up>>

\* Plausible bug: Stop does not drain the channel.
StopAtOnce ==
    /\ up /\ reflector.pc = "stop" /\ watcher.pc = "closed"
    /\ reflector' = [reflector EXCEPT !.pc = "list"]
    /\ UNCHANGED <<tracked, known, phantom, watcher, timer, late, faults, truncated, up>>

\* Stop drains the channel until it is closed.
Stop ==
    /\ up /\ reflector.pc = "stop"
    /\ \/ /\ watcher.ch # << >>
          /\ watcher' = [watcher EXCEPT !.ch = Tail(@)]
          /\ UNCHANGED reflector
       \/ /\ watcher.ch = << >> /\ watcher.pc = "closed"
          /\ reflector' = [reflector EXCEPT !.pc = "list"]
          /\ UNCHANGED watcher
    /\ UNCHANGED <<tracked, known, phantom, timer, late, faults, truncated, up>>

\* The process is started again after a panic.
Restart ==
    /\ ~up /\ up' = TRUE
    /\ reflector' = NewReflector /\ known' = NoItems /\ phantom' = FALSE
    /\ watcher' = NoWatcher /\ timer' = "ended" /\ late' = FALSE
    /\ UNCHANGED <<tracked, faults, truncated>>

-----------------------------------------------------------------------------
run == Ask \/ SendFailure \/ Send \/ Sent \/ Close
Timer == TimerChooses \/ TimerSends \/ TimerStops

Next ==
    \/ Tick \/ \E b \in Bugs : Change(b)
    \/ ListPage \/ ListAll \/ ListFails
    \/ Ask \/ AnswerBugs \/ AnswerIssues \/ QueryFails \/ SendFailure \/ Send \/ Sent \/ Close
    \/ TimerChooses \/ TimerSends \/ TimerStops \/ LateTimer
    \/ Receive \/ Stop \/ Restart

\* Goroutines run, maxInterval goes by, time passes, the process is restarted.
\* Nothing makes the tracker answer: SearchBugs has neither a deadline nor a
\* client with a timeout, and the context of SearchIssues never ends.
Fairness ==
    /\ WF_vars(Tick) /\ WF_vars(run) /\ WF_vars(Timer) /\ WF_vars(LateTimer)
    /\ WF_vars(Receive) /\ WF_vars(Stop) /\ WF_vars(Restart)

Spec == Init /\ [][Next]_vars
FairSpec == Spec /\ Fairness

-----------------------------------------------------------------------------
(***************************************************************************)
(* Properties.                                                             *)
(***************************************************************************)
OnTheWay == watcher.pending \cup ToSet(watcher.ch)

\* A watch leaves no gap: what changed since the second after the list and
\* before the time of the next query is in the indexer or on its way there,
\* although several changes share a second, answers that bring nothing newer
\* are thrown away, and jira is asked for whole minutes - as long as no answer
\* was cut off at 500 issues.
NoGapInWatch ==
    reflector.pc = "watch" /\ ~truncated /\ zone =>
        \A b \in Listed :
            watcher.from <= changed[b] /\ changed[b] < watcher.rv =>
                known[b] = changed[b] \/ [bug |-> b, at |-> changed[b]] \in OnTheWay

\* No goroutine sends on a closed channel while every query succeeds: only a
\* timer that fires when a failed query has stopped the watch can.
NoPanicWithoutFailure == ~up \/ late => faults > 0

\* The tracker answers the queries of a watch, with results or an error,
WatchAnswered == []<>(watcher.pc # "asked")

\* and those of a list.
ListAnswered == []<>(reflector.pc # "list")

\* Stop never waits for ever, however many events fill the channel, if the query
\* that run may be in is answered: Stop waits for it.
StopEnds == WatchAnswered => ((reflector.pc = "stop") ~> (reflector.pc = "list"))

Current == \A b \in Bugs \ hidden : known[b] = changed[b]

\* The indexer ends up with the latest version of every bug of the search and
\* without the others, whatever a watch misses (a second shared with the list,
\* deletions, a time zone that is not installed, failed queries, a panic):
\* every watch ends and the list is read again.  For jira, if the list was read
\* in pages or never has more than 500 issues; and if queries are answered.
Converges ==
    WatchAnswered /\ ListAnswered =>
    <>[](tracker = "bugzilla" \/ reflector.paged \/ Cardinality(Listed) <= pageSize => Current)
=============================================================================

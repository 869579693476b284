----------------------------- MODULE JobInformer -----------------------------
(***************************************************************************)
(* The prow ListWatcher behind the shared informer of jobs.  Prow's deck   *)
(* shows only recent jobs; so that results stay searchable until they      *)
(* expire, List merges what deck shows with its own previous result, which *)
(* is seeded once, at start, from an index of finished jobs in GCS.  The   *)
(* watch does nothing but end with an Expired error after the interval,    *)
(* which makes the reflector list again and replace the indexer's content. *)
(***************************************************************************)
EXTENDS Lists, Integers, FiniteSets, SequencesExt

CONSTANTS
    Builds,   \* pairs of a job name and a build ID
    Nil,      \* the nil slice, before the first call of mostRecentJobs
    MaxAge,   \* --max-age, which main passes to NewInformer
    MaxTime   \* bound of the clock

ASSUME InformerBounds == MaxAge \in Nat /\ MaxTime \in Nat \ {0}
ASSUME BuildsFinite == IsFiniteSet(Builds)

VARIABLES
    now,      \* the clock
    live,     \* the copies of jobs deck shows
    index,    \* the copies of finished jobs in the GCS index
    lastList, \* ListWatcher.lastList
    store,    \* the informer's indexer
    scan      \* how the scan of the index ended (observed by the properties)

informerVars == <<now, live, index, lastList, store, scan>>

\* A copy of a job.  A triggered job has no build ID yet; completed is 0 until the
\* job ends.  The name, under which the indexer files the copy, is "gcs-%d" for a
\* copy made from the index.
Copy == [build : Builds, name : {"prow", "gcs"}, phase : {"triggered", "pending", "done"},
         created : Nat, completed : Nat]

ASSUME NilIsNoList == Nil \notin Seq(Copy)

InformerInit ==
    /\ now = 1
    /\ live = {}
    /\ index \in SUBSET {[build |-> b, name |-> "gcs", phase |-> "done",
                          created |-> 0, completed |-> 1] : b \in Builds}
    /\ lastList = Nil
    /\ store = {}
    /\ scan = "none"

-----------------------------------------------------------------------------
(* Prow and the cloud function that maintains the index.                   *)

Tick ==
    /\ now < MaxTime
    /\ now' = now + 1
    /\ UNCHANGED <<live, index, lastList, store, scan>>

\* Builds that prow has, or has had.
Begun == {c.build : c \in live \cup index \cup store}

Trigger(b) ==
    /\ b \notin Begun
    /\ live' = live \cup {[build |-> b, name |-> "prow", phase |-> "triggered",
                           created |-> now, completed |-> 0]}
    /\ UNCHANGED <<now, index, lastList, store, scan>>

Advance(c) ==
    /\ c \in live /\ c.phase # "done"
    /\ live' = (live \ {c}) \cup
                 {IF c.phase = "triggered" THEN [c EXCEPT !.phase = "pending"]
                  ELSE [c EXCEPT !.phase = "done", !.completed = now]}
    /\ UNCHANGED <<now, index, lastList, store, scan>>

\* The end of a job is recorded in the index.
WriteIndex(c) ==
    /\ c \in live /\ c.phase = "done" /\ \A i \in index : i.build # c.build
    /\ index' = index \cup {[c EXCEPT !.name = "gcs", !.created = 0]}
    /\ UNCHANGED <<now, live, lastList, store, scan>>

\* Prow deletes the objects of old jobs.
Sink(c) ==
    /\ c \in live /\ c.phase = "done" /\ \E i \in index : i.build = c.build
    /\ live' = live \ {c}
    /\ UNCHANGED <<now, index, lastList, store, scan>>

-----------------------------------------------------------------------------
(* ListWatcher                                                             *)

jobExpired(c, expires) ==
    IF c.completed = 0 THEN c.created < expires ELSE c.completed < expires

\* Plausible bug: jobs without a build ID are kept.
MergesTriggered(c, expires) == ~jobExpired(c, expires)

\* Only a copy that has not expired and has a build ID is merged.
Merges(c, expires) == ~jobExpired(c, expires) /\ c.phase # "triggered"

\* Plausible bug: copies are told apart by object name instead of build.
KeptByName(jobs, expires) ==
    {i \in DOMAIN jobs :
        /\ Merges(jobs[i], expires)
        /\ \A j \in 1..(i - 1) : Merges(jobs[j], expires) =>
              jobs[j].build # jobs[i].build \/ jobs[j].name # jobs[i].name}

\* The positions of the copies that are appended to the result: those whose key is
\* not yet among the keys of the copies before them.
Kept(jobs, expires) ==
    {i \in DOMAIN jobs :
        /\ Merges(jobs[i], expires)
        /\ \A j \in 1..(i - 1) : Merges(jobs[j], expires) => jobs[j].build # jobs[i].build}

\* The first copy of each build, in the order of the lists.
mergeJobs(jobs, expires) == AtPositions(jobs, Kept(jobs, expires))

\* ReadFromIndex: the entries of the last MaxAge.  EachJob swallows the error of a
\* scan that fails, and what was read until then is returned as if it were all.
ReadFromIndex(part) ==
    /\ part \subseteq {c \in index : c.completed >= now - MaxAge /\ c.completed < now}
    /\ scan' = IF \A c \in index : c.completed >= now - MaxAge /\ c.completed < now => c \in part
               THEN "complete" ELSE "failed"

\* mostRecentJobs: the previous list, or the index if there has been none.
mostRecentJobs(initial) ==
    IF lastList # Nil THEN initial = lastList /\ UNCHANGED scan
    ELSE \E part \in SUBSET index : ReadFromIndex(part) /\ initial = SetToSeq(part)

\* The values mostRecentJobs may return.
Seeds == IF lastList # Nil THEN {lastList} ELSE {SetToSeq(part) : part \in SUBSET index}

\* Plausible bug: the previous list goes first.
ListOldFirst ==
    /\ \E initial \in Seeds :
         /\ mostRecentJobs(initial)
         /\ lastList' = mergeJobs(initial \o SetToSeq(live), now - MaxAge)
    /\ store' = ToSet(lastList')
    /\ UNCHANGED <<now, live, index>>

\* Plausible bug: only the first result is remembered.
ListRemembersFirst ==
    /\ \E initial \in Seeds :
         /\ mostRecentJobs(initial)
         /\ LET items == mergeJobs(SetToSeq(live) \o initial, now - MaxAge)
            IN  lastList' = (IF lastList = Nil THEN items ELSE lastList) /\ store' = ToSet(items)
    /\ UNCHANGED <<now, live, index>>

\* List, and the reflector's Replace of the indexer with its result.
List ==
    /\ \E initial \in Seeds :
         /\ mostRecentJobs(initial)
         /\ lastList' = mergeJobs(SetToSeq(live) \o initial, now - MaxAge)
    /\ store' = ToSet(lastList')
    /\ UNCHANGED <<now, live, index>>

\* Deck does not answer: the error is returned, the seed has been remembered.
ListFails ==
    /\ \E initial \in Seeds : mostRecentJobs(initial) /\ lastList' = initial
    /\ UNCHANGED <<now, live, index, store>>

InformerNext ==
    \/ Tick \/ List \/ ListFails
    \/ \E b \in Builds : Trigger(b)
    \/ \E c \in live : Advance(c) \/ WriteIndex(c) \/ Sink(c)

\* Nothing is assumed of how often the reflector lists, or of deck answering.
InformerSpec == InformerInit /\ [][InformerNext]_informerVars

-----------------------------------------------------------------------------
(* Properties.                                                             *)

\* Type invariant; every job in the indexer has a build ID.
InformerTypeOK ==
    /\ now \in 1..MaxTime
    /\ live \subseteq Copy /\ index \subseteq Copy
    /\ store \subseteq {c \in Copy : c.phase # "triggered"}
    /\ lastList = Nil \/ lastList \in Seq(Copy)
    /\ scan \in {"none", "complete", "failed"}

\* The indexer never files a build under two names, so that the queue of the
\* DiskStore, whose keys are names, never downloads a build twice at a time.
OneCopyPerBuild == \A c, d \in store : c.build = d.build => c = d

\* informer.go: "so we get the newer copy from the listers, and backfill any jobs
\* that are no longer live with their last visible state": a job seen as ended is
\* not seen as pending again.
NeverRegresses ==
    [][\A c \in store, d \in store' :
          c.build = d.build /\ c.phase = "done" => d.phase = "done" /\ d.completed = c.completed]_informerVars

\* The lists and the merge implement the abstract specification of the informer.
Known ==
    INSTANCE KnownJobs WITH seeded <- lastList # Nil,
                            known <- IF lastList = Nil THEN {} ELSE ToSet(lastList)
ImplementsKnownJobs == Known!Spec
=============================================================================

-------------------------- MODULE JobDiskStoreProofs --------------------------
(***************************************************************************)
(* Theorems about JobDiskStore, for any number of builds, workers, suites, *)
(* retries and crashes and any clock.                                      *)
(*                                                                         *)
(* Who works on a build: type correctness and the exclusion of two workers *)
(* from one build are proved together, since the queue's Get hands out a   *)
(* build nobody holds only because the queue is ordered, and Done keeps it *)
(* ordered only because a worker calls it for a build it holds.            *)
(*                                                                         *)
(* What is left in the directory of a build: no suite twice unless two     *)
(* attempts overlap, no truncated log that nobody is writing, and complete *)
(* results after an attempt without trouble.  These proofs rest on the     *)
(* exclusion, and on an invariant that says who may still append to        *)
(* junit.failures (Strays, Once), which downloads are wanted (Downloads),  *)
(* that a build is queued only after its completion (Ended), and how far   *)
(* the attempt on a build without trouble has come (Undisturbed).          *)
(***************************************************************************)
EXTENDS JobDiskStore, OperatorProofs

\* The inductive invariant.
IInv == TypeOK /\ OneWorkerPerBuild

\* What TypeOK says of the workers.
WorkersOK ==
    /\ worker \in [Workers -> WorkerType]
    /\ \A w \in Workers : At(w, "idle") <=> KeyOf(w) = NoBuild

\* A worker that goes on with its build changes nothing about who holds what.
LEMMA GoOn ==
    ASSUME TypeOK, OneWorkerPerBuild, NEW w \in Workers, NEW r \in WorkerType,
           ~At(w, "idle"), r.key = KeyOf(w), r.pc # "idle",
           worker' = [worker EXCEPT ![w] = r], q' = q
    PROVE  WorkersOK' /\ OneWorkerPerBuild'
<1>1. worker' \in [Workers -> WorkerType]
  BY DEF TypeOK
<1>2. \A v \in Workers : worker'[v].key = worker[v].key
                         /\ (worker'[v].pc = "idle" <=> worker[v].pc = "idle")
  BY DEF TypeOK, At, KeyOf
<1>3. WorkersOK'
  BY <1>1, <1>2 DEF TypeOK, WorkersOK, At, KeyOf
<1>4. {KeyOf(v)' : v \in {u \in Workers : ~At(u, "idle")'}}
      = {KeyOf(v) : v \in {u \in Workers : ~At(u, "idle")}}
  BY <1>2 DEF At, KeyOf
<1>5. OneWorkerPerBuild'
  BY <1>2, <1>4 DEF OneWorkerPerBuild, At, KeyOf
<1> QED BY <1>3, <1>5

\* A worker that calls Done holds nothing any more, and nobody else held its build.
LEMMA LetGo ==
    ASSUME TypeOK, OneWorkerPerBuild, NEW w \in Workers, ~At(w, "idle"),
           NEW r \in QueueType(Builds), QueueOrdered(r), r.processing = q.processing,
           worker' = [worker EXCEPT ![w] = Idle], q' = Done(r, KeyOf(w))
    PROVE  /\ WorkersOK' /\ OneWorkerPerBuild'
           /\ q' \in QueueType(Builds) /\ q'.failures = r.failures
           /\ KeyOf(w) \in Builds
<1> DEFINE b == KeyOf(w)
<1>1. b \in Builds /\ b \in q.processing /\ b # NoBuild
  BY NoBuildAssumption DEF TypeOK, WorkerType, OneWorkerPerBuild, At, KeyOf
<1>2. /\ q' \in QueueType(Builds) /\ q'.processing = q.processing \ {b}
      /\ q'.failures = r.failures
  BY <1>1, DoneType
<1>3. QueueOrdered(q')
  BY <1>1, DoneOrdered
<1>4. worker' \in [Workers -> WorkerType]
  BY DEF TypeOK, WorkerType, Idle
<1>5. \A v \in Workers : worker'[v] = IF v = w THEN Idle ELSE worker[v]
  BY DEF TypeOK
<1>6. Idle.pc = "idle" /\ Idle.key = NoBuild
  BY DEF Idle
<1>7. WorkersOK'
  BY <1>4, <1>5, <1>6 DEF TypeOK, WorkersOK, At, KeyOf
<1>8. \A v \in Workers : v # w /\ ~At(v, "idle") => KeyOf(v) # b
  BY DEF OneWorkerPerBuild
<1>9. q'.processing = {worker'[v].key : v \in {u \in Workers : worker'[u].pc # "idle"}}
  <2>1. ASSUME NEW x \in q'.processing
        PROVE  \E v \in Workers : worker'[v].pc # "idle" /\ worker'[v].key = x
    BY <1>2, <1>5, <2>1 DEF OneWorkerPerBuild, At, KeyOf
  <2>2. ASSUME NEW v \in Workers, worker'[v].pc # "idle"
        PROVE  worker'[v].key \in q'.processing
    BY <1>2, <1>5, <1>6, <1>8, <2>2 DEF OneWorkerPerBuild, At, KeyOf
  <2> QED BY <2>1, <2>2
<1>10. \A u, v \in Workers : worker'[u].pc # "idle" /\ worker'[u].key = worker'[v].key => u = v
  BY <1>5, <1>6, <1>7, <1>8 DEF OneWorkerPerBuild, WorkersOK, At, KeyOf
<1>11. OneWorkerPerBuild'
  BY <1>3, <1>9, <1>10 DEF OneWorkerPerBuild, At, KeyOf
<1> QED BY <1>1, <1>2, <1>7, <1>11

\* The rest of TypeOK, in three parts.
QueueOK ==
    /\ q \in QueueType(Builds)
    /\ \A b \in Builds : q.failures[b] =< MaxRequeues + 1

DiskOK ==
    /\ dir \in [Builds -> Nat]
    /\ junit \in [Builds -> [mtime : Nat, entries : [Suites -> Nat]]]
    /\ blog \in [Builds -> [mtime : Nat, whole : BOOLEAN]]

RestOK ==
    /\ now \in Nat \ {0}
    /\ informer \in SUBSET Builds
    /\ uploaded \in SUBSET Builds
    /\ stray \in SUBSET StrayType
    /\ process \in [restarts : Nat, disableWrite : BOOLEAN]
    /\ outcome \in [Builds -> {"none", "nothing", "ok", "uptodate", "failed", "gaveup"}]
    /\ troubled \in SUBSET Builds
    /\ overlapped \in SUBSET Builds

\* TypeOK is the conjunction of its parts.
LEMMA Parts ==
    /\ TypeOK <=> QueueOK /\ WorkersOK /\ DiskOK /\ RestOK
    /\ TypeOK' <=> QueueOK' /\ WorkersOK' /\ DiskOK' /\ RestOK'
<1>1. TypeOK <=> QueueOK /\ WorkersOK /\ DiskOK /\ RestOK
  BY DEF TypeOK, QueueOK, WorkersOK, DiskOK, RestOK
<1>2. TypeOK' <=> QueueOK' /\ WorkersOK' /\ DiskOK' /\ RestOK'
  BY DEF TypeOK, QueueOK, WorkersOK, DiskOK, RestOK
<1> QED BY <1>1, <1>2

\* The build of a busy worker.
LEMMA Busy ==
    ASSUME TypeOK, NEW w \in Workers, ~At(w, "idle")
    PROVE  /\ KeyOf(w) \in Builds /\ worker[w] \in WorkerType
           /\ Job[KeyOf(w)] \in JobInfo
           /\ worker[w].key = KeyOf(w) /\ worker[w].todo \in SUBSET Suites
<1>1. worker[w] \in WorkerType /\ (At(w, "idle") <=> KeyOf(w) = NoBuild)
  BY DEF TypeOK
<1>2. KeyOf(w) \in Builds
  BY <1>1 DEF WorkerType, KeyOf
<1> QED BY <1>1, <1>2, JobAssumption DEF WorkerType, KeyOf

\* Appending a suite to junit.failures keeps the types of the disk.
LEMMA AppendOK ==
    ASSUME DiskOK, now \in Nat, NEW b \in Builds, NEW s \in Suites,
           AppendSuite(b, s), blog' = blog
    PROVE  DiskOK'
<1>1. junit[b] \in [mtime : Nat, entries : [Suites -> Nat]]
  BY DEF DiskOK
<1> DEFINE e == [junit[b].entries EXCEPT ![s] = @ + 1]
<1>2. e \in [Suites -> Nat]
  BY <1>1
<1>3. junit' = [junit EXCEPT ![b] = [mtime |-> now, entries |-> e]]
  BY DEF AppendSuite
<1> HIDE DEF e
<1>4. junit' \in [Builds -> [mtime : Nat, entries : [Suites -> Nat]]]
  BY <1>2, <1>3 DEF DiskOK
<1>5. dir' \in [Builds -> Nat]
  BY DEF DiskOK, AppendSuite
<1> QED BY <1>4, <1>5 DEF DiskOK

\* Steps that touch neither the queue nor the workers.
LEMMA Aside ==
    ASSUME IInv, q' = q, worker' = worker, DiskOK', RestOK'
    PROVE  IInv'
<1>1. QueueOK' /\ WorkersOK'
  BY Parts DEF IInv, QueueOK, WorkersOK, At, KeyOf
<1>2. OneWorkerPerBuild'
  BY DEF IInv, OneWorkerPerBuild, At, KeyOf
<1> QED BY <1>1, <1>2, Parts DEF IInv

\* Steps that change the queue but not what is being processed.
LEMMA Enqueued ==
    ASSUME IInv, worker' = worker, q'.processing = q.processing, QueueOrdered(q'),
           QueueOK', dir' = dir, junit' = junit, blog' = blog, RestOK'
    PROVE  IInv'
<1>1. WorkersOK' /\ DiskOK'
  BY Parts DEF IInv, WorkersOK, DiskOK, At, KeyOf
<1>2. OneWorkerPerBuild'
  BY DEF IInv, OneWorkerPerBuild, At, KeyOf
<1> QED BY <1>1, <1>2, Parts DEF IInv

\* A step of the environment or of the goroutines beside the workers.
LEMMA EnvironmentStep ==
    ASSUME IInv, Tick \/ (\E b \in Builds : BuildStep(b)) \/ (\E a \in stray : StrayStep(a))
    PROVE  IInv'
<1>0. QueueOK /\ WorkersOK /\ DiskOK /\ RestOK /\ QueueOrdered(q)
  BY Parts DEF IInv, OneWorkerPerBuild
<1>1. CASE Tick
  <2>1. DiskOK' /\ RestOK'
    BY <1>0, <1>1 DEF Tick, DiskOK, RestOK, diskVars, queueVars, histVars
  <2> QED BY <1>1, <2>1, Aside DEF Tick, queueVars
<1>2. ASSUME NEW b \in Builds, BuildStep(b)
      PROVE  IInv'
  <2>1. CASE Upload(b)
    <3>1. DiskOK' /\ RestOK'
      BY <1>0, <2>1 DEF Upload, DiskOK, RestOK, diskVars, queueVars, histVars
    <3> QED BY <2>1, <3>1, Aside DEF Upload, queueVars
  <2>2. CASE AddFunc(b)
    <3>1. RestOK'
      BY <1>0, <2>2 DEF AddFunc, RestOK, diskVars, histVars
    <3>2. QueueOK' /\ QueueOrdered(q') /\ q'.processing = q.processing
      BY <1>0, <2>2, AddType, AddOrdered DEF AddFunc, QueueOK
    <3> QED BY <2>2, <3>1, <3>2, Enqueued DEF AddFunc, diskVars
  <2>3. CASE UpdateFunc(b)
    <3>1. RestOK'
      BY <1>0, <2>3 DEF UpdateFunc, RestOK, diskVars, histVars
    <3>2. QueueOK' /\ QueueOrdered(q') /\ q'.processing = q.processing
      BY <1>0, <2>3, AddType, AddOrdered DEF UpdateFunc, QueueOK
    <3> QED BY <2>3, <3>1, <3>2, Enqueued DEF UpdateFunc, diskVars
  <2>4. CASE Delisted(b)
    <3>1. DiskOK' /\ RestOK'
      BY <1>0, <2>4 DEF Delisted, DiskOK, RestOK, diskVars, histVars
    <3> QED BY <2>4, <3>1, Aside DEF Delisted
  <2>5. CASE RetryReady(b)
    <3>1. RestOK'
      BY <1>0, <2>5 DEF RetryReady, RestOK, diskVars, histVars
    <3>2. QueueOK' /\ QueueOrdered(q') /\ q'.processing = q.processing
      BY <1>0, <2>5, ReadyOK DEF RetryReady, QueueOK
    <3> QED BY <2>5, <3>1, <3>2, Enqueued DEF RetryReady, diskVars
  <2>6. CASE ExpireJunit(b)
    <3>1. NoJunit \in [mtime : Nat, entries : [Suites -> Nat]]
      BY DEF NoJunit, Absent
    <3>2. DiskOK'
      BY <1>0, <2>6, <3>1 DEF ExpireJunit, DiskOK, RestOK
    <3>3. RestOK'
      BY <1>0, <2>6 DEF ExpireJunit, RestOK, queueVars, histVars
    <3> QED BY <2>6, <3>2, <3>3, Aside DEF ExpireJunit, queueVars
  <2>7. CASE ExpireLog(b)
    <3>1. DiskOK' /\ RestOK'
      BY <1>0, <2>7 DEF ExpireLog, DiskOK, RestOK, NoLog, Absent, queueVars, histVars
    <3> QED BY <2>7, <3>1, Aside DEF ExpireLog, queueVars
  <2> QED BY <1>2, <2>1, <2>2, <2>3, <2>4, <2>5, <2>6, <2>7 DEF BuildStep
<1>3. ASSUME NEW a \in stray, StrayStep(a)
      PROVE  IInv'
  <2>0. a \in StrayType
    BY <1>0 DEF RestOK
  <2>1. q' = q /\ worker' = worker
    BY <1>3 DEF StrayStep, StrayAddSuites, StrayStopsAdding, StrayCreateLog, StrayWantsNoLog,
                StrayCopyLog, StrayRemovesLog, queueVars
  <2>2. RestOK'
    <3>1. PICK r \in StrayType : Becomes(a, r)
      <4>1. \A s : [a EXCEPT !.todo = @ \ {s}] \in StrayType
        BY <2>0 DEF StrayType
      <4>2. [a EXCEPT !.todo = {}] \in StrayType
        BY <2>0 DEF StrayType
      <4>3. [a EXCEPT !.log = "open"] \in StrayType /\ [a EXCEPT !.log = "no"] \in StrayType
        BY <2>0 DEF StrayType
      <4> QED BY <1>3, <4>1, <4>2, <4>3
              DEF StrayStep, StrayAddSuites, StrayStopsAdding, StrayCreateLog,
                  StrayWantsNoLog, StrayCopyLog, StrayRemovesLog
    <3>2. stray' \in SUBSET StrayType
      BY <1>0, <3>1 DEF RestOK, Becomes, Running
    <3>3. UNCHANGED <<now, informer, uploaded, process, outcome, troubled, overlapped>>
      BY <1>3 DEF StrayStep, StrayAddSuites, StrayStopsAdding, StrayCreateLog, StrayWantsNoLog,
                  StrayCopyLog, StrayRemovesLog, queueVars, histVars
    <3> QED BY <1>0, <3>2, <3>3 DEF RestOK
  <2>3. DiskOK'
    <3>0. a.key \in Builds /\ now \in Nat
      BY <1>0, <2>0 DEF StrayType, RestOK
    <3>1. CASE \E s \in Suites : StrayAddSuites(a, s)
      BY <1>0, <3>0, <3>1, AppendOK DEF StrayAddSuites
    <3>2. CASE StrayStopsAdding(a) \/ StrayWantsNoLog(a)
      BY <1>0, <3>2 DEF StrayStopsAdding, StrayWantsNoLog, DiskOK, diskVars
    <3>3. CASE StrayCreateLog(a)
      BY <1>0, <3>0, <3>3 DEF StrayCreateLog, DiskOK
    <3>4. CASE StrayCopyLog(a)
      BY <1>0, <3>0, <3>4 DEF StrayCopyLog, DiskOK
    <3>5. CASE StrayRemovesLog(a)
      BY <1>0, <3>0, <3>5 DEF StrayRemovesLog, DiskOK, NoLog, Absent
    <3> QED BY <1>3, <3>1, <3>2, <3>3, <3>4, <3>5 DEF StrayStep
  <2> QED BY <2>1, <2>2, <2>3, Aside
<1> QED BY <1>1, <1>2, <1>3

\* Get gives an idle worker a build that no worker holds.
LEMMA Taken ==
    ASSUME IInv, NEW w \in Workers, Take(w)
    PROVE  IInv'
<1> DEFINE b == Head(q.queue)  r == [Idle EXCEPT !.pc = "taken", !.key = b]
<1>0. QueueOK /\ WorkersOK /\ DiskOK /\ RestOK /\ QueueOrdered(q)
  BY Parts DEF IInv, OneWorkerPerBuild
<1>1. /\ b \in Builds /\ b \notin q.processing
      /\ q' \in QueueType(Builds) /\ QueueOrdered(q')
      /\ q'.processing = q.processing \cup {b} /\ q'.failures = q.failures
  BY <1>0, GetOK DEF Take, QueueOK
<1>2. QueueOK'
  BY <1>0, <1>1 DEF QueueOK
<1>3. r \in WorkerType /\ r.pc = "taken" /\ r.key = b
  BY <1>1 DEF Idle, WorkerType
<1>4. worker' = [worker EXCEPT ![w] = r]
  BY DEF Take
<1> HIDE DEF b, r
<1>5. worker' \in [Workers -> WorkerType]
  BY <1>0, <1>3, <1>4 DEF WorkersOK
<1>6. \A v \in Workers : worker'[v] = IF v = w THEN r ELSE worker[v]
  BY <1>0, <1>4 DEF WorkersOK
<1>7. worker[w].pc = "idle" /\ b # NoBuild
  BY <1>1, NoBuildAssumption DEF Take, At
<1>8. WorkersOK'
  BY <1>0, <1>3, <1>5, <1>6, <1>7 DEF WorkersOK, At, KeyOf
<1>9. q'.processing = {worker'[v].key : v \in {u \in Workers : worker'[u].pc # "idle"}}
  <2>1. ASSUME NEW x \in q'.processing
        PROVE  \E v \in Workers : worker'[v].pc # "idle" /\ worker'[v].key = x
    <3>1. CASE x = b
      BY <1>3, <1>6, <3>1
    <3>2. CASE x \in q.processing
      BY <1>6, <1>7, <3>2 DEF IInv, OneWorkerPerBuild, At, KeyOf
    <3> QED BY <1>1, <3>1, <3>2
  <2>2. ASSUME NEW v \in Workers, worker'[v].pc # "idle"
        PROVE  worker'[v].key \in q'.processing
    BY <1>1, <1>3, <1>6, <2>2 DEF IInv, OneWorkerPerBuild, At, KeyOf
  <2> QED BY <2>1, <2>2
<1>10. \A v \in Workers : v # w => worker[v].key # b
  BY <1>0, <1>1, <1>7 DEF IInv, OneWorkerPerBuild, WorkersOK, At, KeyOf
<1>11. \A u, v \in Workers : worker'[u].pc # "idle" /\ worker'[u].key = worker'[v].key => u = v
  BY <1>0, <1>3, <1>6, <1>7, <1>10 DEF IInv, OneWorkerPerBuild, WorkersOK, At, KeyOf
<1>12. OneWorkerPerBuild'
  BY <1>1, <1>9, <1>11 DEF OneWorkerPerBuild, At, KeyOf
<1>13. DiskOK' /\ RestOK'
  BY <1>0 DEF Take, DiskOK, RestOK, diskVars, histVars
<1> QED BY <1>2, <1>8, <1>12, <1>13, Parts DEF IInv

\* With --disable-indexing nobody holds a build before or after the step.
LEMMA Discarded ==
    ASSUME IInv, NEW w \in Workers, Discard(w)
    PROVE  IInv'
<1> DEFINE b == Head(q.queue)  g == Get(q)  f == Forget(g, b)
<1>0. QueueOK /\ WorkersOK /\ DiskOK /\ RestOK /\ QueueOrdered(q)
  BY Parts DEF IInv, OneWorkerPerBuild
<1>1. /\ b \in Builds /\ b \notin q.processing
      /\ g \in QueueType(Builds) /\ QueueOrdered(g)
      /\ g.processing = q.processing \cup {b} /\ g.failures = q.failures
  BY <1>0, GetOK DEF Discard, QueueOK
<1>2. q' = Done(f, b)
  BY DEF Discard
<1> HIDE DEF b, g
<1>3. /\ f \in QueueType(Builds) /\ f.processing = g.processing
      /\ f.queue = g.queue /\ f.dirty = g.dirty
      /\ \A c \in Builds : f.failures[c] = IF c = b THEN 0 ELSE g.failures[c]
  BY <1>1, ForgetOK
<1> HIDE DEF f
<1>4. QueueOrdered(f)
  BY <1>1, <1>3, OrderedFrame
<1>5. QueueOrdered(q')
  BY <1>1, <1>2, <1>3, <1>4, DoneOrdered
<1>6. q' \in QueueType(Builds) /\ q'.processing = f.processing \ {b} /\ q'.failures = f.failures
  BY <1>1, <1>2, <1>3, DoneType
<1>7. q'.processing = q.processing
  BY <1>1, <1>3, <1>6
<1>8. \A c \in Builds : q'.failures[c] = IF c = b THEN 0 ELSE q.failures[c]
  BY <1>1, <1>3, <1>6
<1>9. QueueOK'
  BY <1>0, <1>6, <1>8, BoundsAssumption DEF QueueOK
<1>10. RestOK'
  BY <1>0 DEF Discard, RestOK, diskVars, histVars
<1> QED BY <1>5, <1>7, <1>9, <1>10, Enqueued DEF Discard, diskVars

\* A worker that has succeeded, or has nothing to do, releases its build.
LEMMA Released ==
    ASSUME IInv, NEW w \in Workers, ~At(w, "idle"),
           NEW res \in {"nothing", "ok", "uptodate"}, Release(w, res)
    PROVE  /\ QueueOK' /\ WorkersOK' /\ OneWorkerPerBuild'
           /\ outcome' \in [Builds -> {"none", "nothing", "ok", "uptodate", "failed", "gaveup"}]
<1>0. TypeOK /\ OneWorkerPerBuild /\ QueueOK /\ RestOK /\ QueueOrdered(q)
  BY Parts DEF IInv, OneWorkerPerBuild
<1>1. /\ WorkersOK' /\ OneWorkerPerBuild'
      /\ q' \in QueueType(Builds) /\ q'.failures = q.failures /\ KeyOf(w) \in Builds
  BY <1>0, LetGo DEF Release, QueueOK
<1>2. QueueOK'
  BY <1>0, <1>1 DEF QueueOK
<1>3. outcome' \in [Builds -> {"none", "nothing", "ok", "uptodate", "failed", "gaveup"}]
  BY <1>0 DEF Release, RestOK
<1> QED BY <1>1, <1>2, <1>3

\* A worker whose write failed parks its build or forgets it, and releases it; the
\* failure count stays within the budget.
LEMMA Failed ==
    ASSUME IInv, NEW w \in Workers, ~At(w, "idle"), WriteFailed(w)
    PROVE  /\ QueueOK' /\ WorkersOK' /\ OneWorkerPerBuild'
           /\ outcome' \in [Builds -> {"none", "nothing", "ok", "uptodate", "failed", "gaveup"}]
<1> DEFINE b == KeyOf(w)
<1>0. TypeOK /\ OneWorkerPerBuild /\ QueueOK /\ RestOK /\ QueueOrdered(q)
  BY Parts DEF IInv, OneWorkerPerBuild
<1>1. b \in Builds
  BY <1>0, Busy
<1> DEFINE r == IF NumRequeues(q, b) > MaxRequeues THEN Forget(q, b) ELSE AddRateLimited(q, b)
<1>2. /\ r \in QueueType(Builds) /\ r.processing = q.processing
      /\ r.queue = q.queue /\ r.dirty = q.dirty
  BY <1>0, <1>1, ForgetOK, AddRateLimitedOK DEF QueueOK
<1>3. \A c \in Builds : r.failures[c] =< MaxRequeues + 1
  <2>1. CASE q.failures[b] > MaxRequeues
    <3>1. \A c \in Builds : r.failures[c] = IF c = b THEN 0 ELSE q.failures[c]
      BY <1>0, <1>1, <2>1, ForgetOK DEF QueueOK, NumRequeues
    <3> HIDE DEF r, b
    <3> QED BY <1>0, <1>1, <3>1, BoundsAssumption DEF QueueOK, QueueType
  <2>2. CASE ~(q.failures[b] > MaxRequeues)
    <3>1. \A c \in Builds : r.failures[c] = IF c = b THEN q.failures[c] + 1 ELSE q.failures[c]
      BY <1>0, <1>1, <2>2, AddRateLimitedOK DEF QueueOK, NumRequeues
    <3> HIDE DEF r, b
    <3> QED BY <1>0, <1>1, <2>2, <3>1, BoundsAssumption DEF QueueOK, QueueType
  <2> QED BY <2>1, <2>2
<1>4. q' = Done(r, b) /\ worker' = [worker EXCEPT ![w] = Idle]
  BY DEF WriteFailed
<1>5. outcome' \in [Builds -> {"none", "nothing", "ok", "uptodate", "failed", "gaveup"}]
  BY <1>0 DEF WriteFailed, RestOK
<1> HIDE DEF r
<1>6. QueueOrdered(r)
  BY <1>0, <1>2, OrderedFrame
<1>7. WorkersOK' /\ OneWorkerPerBuild' /\ q' \in QueueType(Builds) /\ q'.failures = r.failures
  BY <1>0, <1>2, <1>4, <1>6, LetGo
<1>8. QueueOK'
  BY <1>3, <1>7 DEF QueueOK
<1> QED BY <1>5, <1>7, <1>8

\* A worker that goes on with its build: its new record is a worker's, names the
\* same build and is not idle.
LEMMA WentOn ==
    ASSUME IInv, NEW w \in Workers, NEW r \in WorkerType, ~At(w, "idle"),
           r.key = KeyOf(w), r.pc # "idle", worker' = [worker EXCEPT ![w] = r],
           q' = q, DiskOK', RestOK'
    PROVE  IInv'
<1>1. WorkersOK' /\ OneWorkerPerBuild'
  BY GoOn DEF IInv
<1>2. QueueOK'
  BY Parts DEF IInv, QueueOK
<1> QED BY <1>1, <1>2, Parts DEF IInv

\* The files of a build that was read get its finish time.
LEMMA StampOK ==
    ASSUME DiskOK, NEW b \in Builds, NEW nj, NEW nl,
           NEW log \in [mtime : Nat, whole : BOOLEAN], Stamp(b, nj, nl, log)
    PROVE  DiskOK'
<1>1. Job[b].finish \in Nat
  BY JobAssumption DEF JobInfo
<1>2. dir' \in [Builds -> Nat]
  BY <1>1 DEF Stamp, DiskOK
<1>3. junit' \in [Builds -> [mtime : Nat, entries : [Suites -> Nat]]]
  <2>1. [junit[b] EXCEPT !.mtime = Job[b].finish] \in [mtime : Nat, entries : [Suites -> Nat]]
    BY <1>1 DEF DiskOK
  <2> QED BY <2>1 DEF Stamp, DiskOK
<1>4. blog' \in [Builds -> [mtime : Nat, whole : BOOLEAN]]
  <2>1. [log EXCEPT !.mtime = Job[b].finish] \in [mtime : Nat, whole : BOOLEAN]
    BY <1>1
  <2> QED BY <2>1 DEF Stamp, DiskOK
<1> QED BY <1>2, <1>3, <1>4 DEF DiskOK

\* A goroutine an attempt leaves behind has a build and suites to add.
LEMMA LeftoverOK ==
    ASSUME TypeOK, NEW w \in Workers, ~At(w, "idle")
    PROVE  Leftover(w) \in SUBSET StrayType
<1> DEFINE l == CASE worker[w].blog = "open" -> "open"
                  [] worker[w].blog = "no" /\ worker[w].meta /\ WantsLog(w) -> "wait"
                  [] OTHER -> "no"
           t == IF worker[w].junit THEN {} ELSE worker[w].todo
<1>1. l \in {"no", "wait", "open"}
  OBVIOUS
<1>2. t \in SUBSET Suites /\ KeyOf(w) \in Builds
  BY Busy
<1>3. Leftover(w) = Running([key |-> KeyOf(w), todo |-> t, log |-> l])
  BY DEF Leftover
<1> HIDE DEF l, t
<1> QED BY <1>1, <1>2, <1>3 DEF Running, StrayType

\* The steps of a worker that end with Done.
LEMMA EndingStep ==
    ASSUME IInv, NEW w \in Workers,
           \/ NoJob(w) \/ IgnoreURL(w) \/ InvalidURL(w) \/ UpToDate(w)
           \/ MarkCompleted(w) \/ ReadFailed(w)
    PROVE  IInv'
<1>0. TypeOK /\ QueueOK /\ WorkersOK /\ DiskOK /\ RestOK
  BY Parts DEF IInv
<1>1. CASE NoJob(w) \/ IgnoreURL(w) \/ UpToDate(w)
  <2>1. ~At(w, "idle")
    BY <1>1 DEF NoJob, IgnoreURL, UpToDate, At
  <2>2. Release(w, "nothing") \/ Release(w, "uptodate")
    BY <1>1 DEF NoJob, IgnoreURL, UpToDate
  <2>3. /\ QueueOK' /\ WorkersOK' /\ OneWorkerPerBuild'
        /\ outcome' \in [Builds -> {"none", "nothing", "ok", "uptodate", "failed", "gaveup"}]
    BY <2>1, <2>2, Released
  <2>4. UNCHANGED <<now, informer, uploaded, diskVars, stray, process, troubled, overlapped>>
    BY <1>1 DEF NoJob, IgnoreURL, UpToDate
  <2>5. DiskOK' /\ RestOK'
    BY <1>0, <2>3, <2>4 DEF DiskOK, RestOK, diskVars
  <2> QED BY <2>3, <2>5, Parts DEF IInv
<1>2. CASE InvalidURL(w)
  <2>1. ~At(w, "idle") /\ WriteFailed(w)
    BY <1>2 DEF InvalidURL, At
  <2>2. /\ QueueOK' /\ WorkersOK' /\ OneWorkerPerBuild'
        /\ outcome' \in [Builds -> {"none", "nothing", "ok", "uptodate", "failed", "gaveup"}]
    BY <2>1, Failed
  <2>3. DiskOK' /\ RestOK'
    BY <1>0, <1>2, <2>2 DEF InvalidURL, DiskOK, RestOK, diskVars
  <2> QED BY <2>2, <2>3, Parts DEF IInv
<1>3. CASE MarkCompleted(w)
  <2>1. ~At(w, "idle") /\ Release(w, "ok")
    BY <1>3 DEF MarkCompleted, At
  <2>2. /\ QueueOK' /\ WorkersOK' /\ OneWorkerPerBuild'
        /\ outcome' \in [Builds -> {"none", "nothing", "ok", "uptodate", "failed", "gaveup"}]
    BY <2>1, Released
  <2>3. Job[KeyOf(w)].completion \in Nat
    BY <1>0, <2>1, Busy DEF JobInfo
  <2>4. DiskOK' /\ RestOK'
    BY <1>0, <1>3, <2>2, <2>3 DEF MarkCompleted, DiskOK, RestOK
  <2> QED BY <2>2, <2>4, Parts DEF IInv
<1>4. CASE ReadFailed(w)
  <2>1. ~At(w, "idle") /\ WriteFailed(w)
    BY <1>4 DEF ReadFailed, At
  <2>2. /\ QueueOK' /\ WorkersOK' /\ OneWorkerPerBuild'
        /\ outcome' \in [Builds -> {"none", "nothing", "ok", "uptodate", "failed", "gaveup"}]
    BY <2>1, Failed
  <2>3. KeyOf(w) \in Builds /\ Leftover(w) \in SUBSET StrayType
    BY <1>0, <2>1, Busy, LeftoverOK
  <2>4. DiskOK'
    BY <1>0, <1>4 DEF ReadFailed, DiskOK, diskVars
  <2>5. RestOK'
    BY <1>0, <1>4, <2>2, <2>3 DEF ReadFailed, RestOK, diskVars
  <2> QED BY <2>2, <2>4, <2>5, Parts DEF IInv
<1> QED BY <1>1, <1>2, <1>3, <1>4

\* The steps of a worker that goes on with its build.
LEMMA ReadingStep ==
    ASSUME IInv, NEW w \in Workers,
           \/ NewAccumulator(w) \/ (\E s \in Suites : AddSuites(w, s)) \/ AddMetadata(w)
           \/ CreateLog(w) \/ CopyLog(w) \/ Finished(w) \/ FinishedLate(w)
           \/ Unfinished(w) \/ Hang(w)
    PROVE  IInv'
<1>0. TypeOK /\ QueueOK /\ WorkersOK /\ DiskOK /\ RestOK
  BY Parts DEF IInv
<1>a. ~At(w, "idle")
  BY DEF NewAccumulator, AddSuites, AddMetadata, CreateLog, CopyLog, Finished, FinishedLate,
         Unfinished, Hang, At
<1>b. /\ KeyOf(w) \in Builds /\ worker[w] \in WorkerType /\ Job[KeyOf(w)] \in JobInfo
      /\ worker[w].key = KeyOf(w) /\ worker[w].todo \in SUBSET Suites
  BY <1>0, <1>a, Busy
<1>c. worker \in [Workers -> WorkerType]
  BY <1>0 DEF WorkersOK
<1>1. CASE NewAccumulator(w)
  <2> DEFINE j == junit[KeyOf(w)].mtime # Absent
             l == blog[KeyOf(w)].mtime # Absent
             t == Job[KeyOf(w)].suites
             r == [Idle EXCEPT !.pc = "reading", !.key = KeyOf(w), !.junit = j,
                               !.log = l, !.todo = t]
  <2>1. worker' = [worker EXCEPT ![w] = r]
    BY <1>1 DEF NewAccumulator
  <2>2. j \in BOOLEAN /\ l \in BOOLEAN /\ t \in SUBSET Suites
    BY <1>b DEF JobInfo
  <2> HIDE DEF j, l, t
  <2>3. r \in WorkerType /\ r.key = KeyOf(w) /\ r.pc = "reading"
    BY <1>b, <2>2 DEF Idle, WorkerType
  <2> HIDE DEF r
  <2>4. DiskOK' /\ RestOK'
    BY <1>0, <1>1, <1>b DEF NewAccumulator, DiskOK, RestOK, diskVars
  <2> QED BY <1>1, <1>a, <2>1, <2>3, <2>4, WentOn DEF NewAccumulator
<1>2. ASSUME NEW s \in Suites, AddSuites(w, s)
      PROVE  IInv'
  <2> DEFINE r == [worker[w] EXCEPT !.todo = @ \ {s}]
  <2>1. worker' = [worker EXCEPT ![w] = r]
    BY <1>2, <1>c DEF AddSuites
  <2>2. r \in WorkerType /\ r.key = KeyOf(w) /\ r.pc = "reading"
    BY <1>2, <1>b DEF AddSuites, At, WorkerType
  <2> HIDE DEF r
  <2>3. DiskOK'
    <3>1. CASE worker[w].junit
      BY <1>0, <1>2, <3>1 DEF AddSuites, DiskOK
    <3>2. CASE ~worker[w].junit
      BY <1>0, <1>2, <1>b, <3>2, AppendOK DEF AddSuites, RestOK
    <3> QED BY <3>1, <3>2
  <2>4. RestOK'
    BY <1>0, <1>2 DEF AddSuites, RestOK, histVars
  <2> QED BY <1>2, <1>a, <2>1, <2>2, <2>3, <2>4, WentOn DEF AddSuites
<1>3. CASE AddMetadata(w)
  <2> DEFINE r == [worker[w] EXCEPT !.meta = TRUE]
  <2>1. worker' = [worker EXCEPT ![w] = r]
    BY <1>3, <1>c DEF AddMetadata
  <2>2. r \in WorkerType /\ r.key = KeyOf(w) /\ r.pc = "reading"
    BY <1>3, <1>b DEF AddMetadata, At, WorkerType
  <2> HIDE DEF r
  <2>3. DiskOK' /\ RestOK'
    BY <1>0, <1>3, <1>b DEF AddMetadata, DiskOK, RestOK, JobInfo, histVars
  <2> QED BY <1>3, <1>a, <2>1, <2>2, <2>3, WentOn DEF AddMetadata
<1>4. CASE CreateLog(w)
  <2> DEFINE r == [worker[w] EXCEPT !.blog = "open"]
  <2>1. worker' = [worker EXCEPT ![w] = r]
    BY <1>4, <1>c DEF CreateLog
  <2>2. r \in WorkerType /\ r.key = KeyOf(w) /\ r.pc = "reading"
    BY <1>4, <1>b DEF CreateLog, At, WorkerType
  <2> HIDE DEF r
  <2>3. DiskOK' /\ RestOK'
    BY <1>0, <1>4, <1>b DEF CreateLog, DiskOK, RestOK, histVars
  <2> QED BY <1>4, <1>a, <2>1, <2>2, <2>3, WentOn DEF CreateLog
<1>5. CASE CopyLog(w)
  <2> DEFINE r == [worker[w] EXCEPT !.blog = "done"]
  <2>1. worker' = [worker EXCEPT ![w] = r]
    BY <1>5, <1>c DEF CopyLog
  <2>2. r \in WorkerType /\ r.key = KeyOf(w) /\ r.pc = "reading"
    BY <1>5, <1>b DEF CopyLog, At, WorkerType
  <2> HIDE DEF r
  <2>3. DiskOK' /\ RestOK'
    BY <1>0, <1>5, <1>b DEF CopyLog, DiskOK, RestOK, histVars
  <2> QED BY <1>5, <1>a, <2>1, <2>2, <2>3, WentOn DEF CopyLog
<1>6. CASE Finished(w) \/ FinishedLate(w)
  <2> DEFINE r == [worker[w] EXCEPT !.pc = "completing"]
  <2>1. worker' = [worker EXCEPT ![w] = r] /\ q' = q
    BY <1>6, <1>c DEF Finished, FinishedLate
  <2>2. r \in WorkerType /\ r.key = KeyOf(w) /\ r.pc = "completing"
    BY <1>b DEF WorkerType
  <2> HIDE DEF r
  <2>3. blog[KeyOf(w)] \in [mtime : Nat, whole : BOOLEAN] /\ NoLog \in [mtime : Nat, whole : BOOLEAN]
    BY <1>0, <1>b DEF DiskOK, NoLog, Absent
  <2>4. DiskOK'
    <3>1. CASE Finished(w)
      BY <1>0, <1>b, <2>3, <3>1, StampOK DEF Finished
    <3>2. CASE FinishedLate(w)
      BY <1>0, <1>b, <2>3, <3>2, StampOK DEF FinishedLate
    <3> QED BY <1>6, <3>1, <3>2
  <2>5. RestOK'
    BY <1>0, <1>6, <1>b DEF Finished, FinishedLate, RestOK, histVars
  <2> QED BY <1>a, <2>1, <2>2, <2>4, <2>5, WentOn
<1>7. CASE Unfinished(w) \/ Hang(w)
  <2>1. PICK to \in {"completing", "hung"} :
          worker' = [worker EXCEPT ![w] = [worker[w] EXCEPT !.pc = to]] /\ q' = q
    BY <1>7, <1>c DEF Unfinished, Hang
  <2> DEFINE r == [worker[w] EXCEPT !.pc = to]
  <2>2. r \in WorkerType /\ r.key = KeyOf(w) /\ r.pc # "idle"
    BY <1>b DEF WorkerType
  <2>3. Leftover(w) \in SUBSET StrayType
    BY <1>0, <1>a, LeftoverOK
  <2>4. DiskOK' /\ RestOK'
    BY <1>0, <1>7, <1>b, <2>3 DEF Unfinished, Hang, DiskOK, RestOK, diskVars
  <2>5. worker' = [worker EXCEPT ![w] = r]
    BY <2>1
  <2> HIDE DEF r
  <2> QED BY <1>a, <2>1, <2>2, <2>4, <2>5, WentOn
<1> QED BY <1>1, <1>2, <1>3, <1>4, <1>5, <1>6, <1>7

\* After a restart the queue is empty and every worker idle.
LEMMA Crashed ==
    ASSUME IInv, Crash
    PROVE  IInv'
<1>0. TypeOK /\ QueueOK /\ WorkersOK /\ DiskOK /\ RestOK
  BY Parts DEF IInv
<1>1. QueueOK' /\ QueueOrdered(q') /\ q'.processing = {}
  <2>1. q' = NewQueue(Builds)
    BY DEF Crash
  <2>2. \A b \in Builds : q'.failures[b] = 0
    BY <2>1 DEF NewQueue
  <2>3. q'.processing = {}
    BY <2>1 DEF NewQueue
  <2> QED BY <2>1, <2>2, <2>3, NewQueueOK, BoundsAssumption DEF QueueOK
<1>2. worker' = [w \in Workers |-> Idle]
  BY DEF Crash
<1>3. Idle \in WorkerType /\ Idle.pc = "idle" /\ Idle.key = NoBuild
  BY DEF Idle, WorkerType
<1>4. WorkersOK'
  BY <1>2, <1>3 DEF WorkersOK, At, KeyOf
<1>5. OneWorkerPerBuild'
  BY <1>1, <1>2, <1>3 DEF OneWorkerPerBuild, At, KeyOf
<1>6. DiskOK'
  BY <1>0 DEF Crash, DiskOK, diskVars
<1>7. {KeyOf(w) : w \in {v \in Workers : At(v, "reading")}} \subseteq Builds
  BY <1>0, Busy DEF At
<1>8. RestOK'
  BY <1>0, <1>7 DEF Crash, RestOK, diskVars
<1> QED BY <1>1, <1>4, <1>5, <1>6, <1>8, Parts DEF IInv

\* The invariant holds initially.
LEMMA InitIInv == Init => IInv
<1> SUFFICES ASSUME Init PROVE IInv
  OBVIOUS
<1>1. QueueOK /\ QueueOrdered(q) /\ q.processing = {}
  <2>1. q = NewQueue(Builds)
    BY DEF Init
  <2>2. \A b \in Builds : q.failures[b] = 0
    BY <2>1 DEF NewQueue
  <2>3. q.processing = {}
    BY <2>1 DEF NewQueue
  <2> QED BY <2>1, <2>2, <2>3, NewQueueOK, BoundsAssumption DEF QueueOK
<1>2. worker = [w \in Workers |-> Idle]
  BY DEF Init
<1>3. Idle \in WorkerType /\ Idle.pc = "idle" /\ Idle.key = NoBuild
  BY DEF Idle, WorkerType
<1>4. WorkersOK
  BY <1>2, <1>3 DEF WorkersOK, At, KeyOf
<1>5. OneWorkerPerBuild
  BY <1>1, <1>2, <1>3 DEF OneWorkerPerBuild, At, KeyOf
<1>6. DiskOK
  BY DEF Init, DiskOK, NoJunit, NoLog, Absent
<1>7. RestOK
  BY BoundsAssumption DEF Init, RestOK
<1> QED BY <1>1, <1>4, <1>5, <1>6, <1>7, Parts DEF IInv

\* Every step preserves it.
LEMMA NextIInv == IInv /\ [Next]_vars => IInv'
<1> SUFFICES ASSUME IInv, [Next]_vars PROVE IInv'
  OBVIOUS
<1>1. CASE Tick \/ (\E b \in Builds : BuildStep(b)) \/ (\E a \in stray : StrayStep(a))
  BY <1>1, EnvironmentStep
<1>2. CASE Crash
  BY <1>2, Crashed
<1>3. ASSUME NEW w \in Workers, WorkerStep(w)
      PROVE  IInv'
  <2>1. CASE Take(w)
    BY <2>1, Taken
  <2>2. CASE Discard(w)
    BY <2>2, Discarded
  <2>3. CASE \/ NoJob(w) \/ IgnoreURL(w) \/ InvalidURL(w) \/ UpToDate(w)
             \/ MarkCompleted(w) \/ ReadFailed(w)
    BY <2>3, EndingStep
  <2>4. CASE \/ NewAccumulator(w) \/ (\E s \in Suites : AddSuites(w, s)) \/ AddMetadata(w)
             \/ CreateLog(w) \/ CopyLog(w) \/ Finished(w) \/ FinishedLate(w)
             \/ Unfinished(w) \/ Hang(w)
    BY <2>4, ReadingStep
  <2> QED BY <1>3, <2>1, <2>2, <2>3, <2>4 DEF WorkerStep
<1>4. CASE UNCHANGED vars
  <2>1. DiskOK' /\ RestOK'
    BY <1>4, Parts DEF IInv, vars, DiskOK, RestOK
  <2> QED BY <1>4, <2>1, Aside DEF vars
<1> QED BY <1>1, <1>2, <1>3, <1>4 DEF Next

\* Type correctness: in particular, DiskStore.Run never counts more than
\* MaxRequeues + 1 failures of a build before it gives up.
THEOREM TypeCorrect == Spec => []TypeOK
<1>1. IInv => TypeOK
  BY DEF IInv
<1> QED BY InitIInv, NextIInv, <1>1, PTL DEF Spec

\* Exclusion: at any time the builds being processed are exactly those the workers
\* hold, no two workers hold the same one, and the queue is ordered as its comments
\* promise - over any number of workers, notifications, retries, hangs and crashes.
THEOREM Exclusion == Spec => []OneWorkerPerBuild
<1>1. IInv => OneWorkerPerBuild
  BY DEF IInv
<1> QED BY InitIInv, NextIInv, <1>1, PTL DEF Spec

-----------------------------------------------------------------------------
(* A failed build stays in the queue.                                      *)

\* Where a build can be in the queue.
Held(u) == u.waiting \cup u.dirty \cup u.processing

\* With --disable-indexing no worker ever holds a build, so none fails.
NoIndexIdle ==
    process.disableWrite =>
        /\ \A w \in Workers : At(w, "idle")
        /\ \A b \in Builds : outcome[b] # "failed"

RetryInv == FailedIsRetried /\ NoIndexIdle

\* A step that loses nothing from the queue, fails no build and gives no worker one.
LEMMA NothingLost ==
    ASSUME RetryInv, Held(q) \subseteq Held(q'), process' = process,
           \A b \in Builds : outcome'[b] = "failed" => outcome[b] = "failed",
           \A w \in Workers : At(w, "idle") => At(w, "idle")'
    PROVE  RetryInv'
  BY DEF RetryInv, FailedIsRetried, NoIndexIdle, Held, At

\* A worker that ends with Release loses nothing but its own build, which has not failed.
LEMMA ReleasedRetry ==
    ASSUME IInv, RetryInv, NEW w \in Workers, ~At(w, "idle"),
           NEW res \in {"nothing", "ok", "uptodate"}, Release(w, res), process' = process
    PROVE  RetryInv'
<1>0. QueueOK /\ RestOK /\ WorkersOK /\ KeyOf(w) \in Builds
  BY Parts, Busy DEF IInv
<1>1. Held(q') = q.waiting \cup q.dirty \cup (q.processing \ {KeyOf(w)})
  BY <1>0, DoneType DEF Release, QueueOK, Held
<1>2. \A b \in Builds : outcome'[b] = IF b = KeyOf(w) THEN res ELSE outcome[b]
  BY <1>0 DEF Release, RestOK
<1>3. FailedIsRetried'
  BY <1>1, <1>2 DEF RetryInv, FailedIsRetried, Held
<1>4. ~process.disableWrite
  BY DEF RetryInv, NoIndexIdle
<1> QED BY <1>3, <1>4 DEF RetryInv, NoIndexIdle

\* A worker whose write failed has parked its build, or given it up.
LEMMA FailedRetry ==
    ASSUME IInv, RetryInv, NEW w \in Workers, ~At(w, "idle"), WriteFailed(w),
           process' = process
    PROVE  RetryInv'
<1> DEFINE b == KeyOf(w)
<1>0. QueueOK /\ RestOK /\ WorkersOK /\ b \in Builds
  BY Parts, Busy DEF IInv
<1> DEFINE giveUp == NumRequeues(q, b) > MaxRequeues
           r == IF giveUp THEN Forget(q, b) ELSE AddRateLimited(q, b)
<1>1. q' = Done(r, b)
  BY DEF WriteFailed
<1>2. \A c \in Builds : outcome'[c] = IF c = b THEN IF giveUp THEN "gaveup" ELSE "failed"
                                      ELSE outcome[c]
  BY <1>0 DEF WriteFailed, RestOK
<1> HIDE DEF giveUp
<1>3. /\ r \in QueueType(Builds) /\ r.processing = q.processing /\ r.dirty = q.dirty
      /\ q.waiting \subseteq r.waiting /\ (~giveUp => b \in r.waiting)
  <2>1. CASE giveUp
    <3>1. r = Forget(q, b)
      BY <2>1
    <3> QED BY <1>0, <2>1, <3>1, ForgetOK DEF QueueOK
  <2>2. CASE ~giveUp
    <3>1. r = AddRateLimited(q, b)
      BY <2>2
    <3>2. /\ AddRateLimited(q, b) \in QueueType(Builds)
          /\ AddRateLimited(q, b).processing = q.processing
          /\ AddRateLimited(q, b).dirty = q.dirty
          /\ AddRateLimited(q, b).waiting = q.waiting \cup {b}
      BY <1>0, AddRateLimitedOK DEF QueueOK
    <3> HIDE DEF r
    <3> QED BY <3>1, <3>2
  <2> QED BY <2>1, <2>2
<1> HIDE DEF r
<1>4. Held(q') = r.waiting \cup r.dirty \cup (r.processing \ {b})
  BY <1>0, <1>1, <1>3, DoneType DEF Held
<1> HIDE DEF b
<1>5. FailedIsRetried'
  BY <1>2, <1>3, <1>4 DEF RetryInv, FailedIsRetried, Held
<1>6. ~process.disableWrite
  BY DEF RetryInv, NoIndexIdle
<1> QED BY <1>5, <1>6 DEF RetryInv, NoIndexIdle

\* Every step preserves it.
LEMMA NextRetryInv == IInv /\ RetryInv /\ [Next]_vars => RetryInv'
<1> SUFFICES ASSUME IInv, RetryInv, [Next]_vars PROVE RetryInv'
  OBVIOUS
<1>0. QueueOK /\ WorkersOK /\ RestOK /\ QueueOrdered(q)
  BY Parts DEF IInv, OneWorkerPerBuild
<1>1. CASE q' = q /\ outcome' = outcome /\ worker' = worker /\ process' = process
  BY <1>1, NothingLost DEF At
<1>2. CASE Crash
  BY <1>0, <1>2 DEF Crash, RetryInv, FailedIsRetried, NoIndexIdle, At, Idle
<1>3. ASSUME NEW b \in Builds, AddFunc(b) \/ UpdateFunc(b) \/ RetryReady(b)
      PROVE  RetryInv'
  <2>1. Held(q) \subseteq Held(q')
    BY <1>0, <1>3, AddType, ReadyOK DEF AddFunc, UpdateFunc, RetryReady, QueueOK, Held
  <2>2. outcome' = outcome /\ worker' = worker /\ process' = process
    BY <1>3 DEF AddFunc, UpdateFunc, RetryReady, histVars
  <2> QED BY <2>1, <2>2, NothingLost DEF At
<1>4. ASSUME NEW w \in Workers, WorkerStep(w)
      PROVE  RetryInv'
  <2>1. CASE Take(w)
    <3>1. Held(q') = Held(q) \cup {Head(q.queue)}
      BY <1>0, <2>1, GetOK DEF Take, QueueOK, Held
    <3>2. outcome' = outcome /\ process' = process /\ ~process.disableWrite
      BY <2>1 DEF Take, histVars
    <3> QED BY <3>1, <3>2 DEF RetryInv, FailedIsRetried, NoIndexIdle, Held
  <2>2. CASE Discard(w)
    BY <2>2 DEF Discard, RetryInv, FailedIsRetried, NoIndexIdle, At, histVars
  <2>3. CASE \/ NoJob(w) \/ IgnoreURL(w) \/ UpToDate(w) \/ MarkCompleted(w)
    <3>1. ~At(w, "idle") /\ process' = process
      BY <2>3 DEF NoJob, IgnoreURL, UpToDate, MarkCompleted, At
    <3>2. Release(w, "nothing") \/ Release(w, "uptodate") \/ Release(w, "ok")
      BY <2>3 DEF NoJob, IgnoreURL, UpToDate, MarkCompleted
    <3> QED BY <3>1, <3>2, ReleasedRetry
  <2>4. CASE InvalidURL(w) \/ ReadFailed(w)
    <3>1. ~At(w, "idle") /\ WriteFailed(w) /\ process' = process
      BY <2>4 DEF InvalidURL, ReadFailed, At
    <3> QED BY <3>1, FailedRetry
  <2>5. CASE \/ NewAccumulator(w) \/ (\E s \in Suites : AddSuites(w, s)) \/ AddMetadata(w)
             \/ CreateLog(w) \/ CopyLog(w) \/ Finished(w) \/ FinishedLate(w)
             \/ Unfinished(w) \/ Hang(w)
    <3>1. ~At(w, "idle") /\ q' = q /\ outcome' = outcome /\ process' = process
      BY <2>5 DEF NewAccumulator, AddSuites, AddMetadata, CreateLog, CopyLog, Finished,
                  FinishedLate, Unfinished, Hang, At, histVars
    <3>2. ~process.disableWrite
      BY <3>1 DEF RetryInv, NoIndexIdle
    <3> QED BY <3>1, <3>2 DEF RetryInv, FailedIsRetried, NoIndexIdle
  <2> QED BY <1>4, <2>1, <2>2, <2>3, <2>4, <2>5 DEF WorkerStep
<1>5. CASE Tick \/ \E b \in Builds : Upload(b) \/ Delisted(b) \/ ExpireJunit(b) \/ ExpireLog(b)
  <2>1. q' = q /\ outcome' = outcome /\ worker' = worker /\ process' = process
    BY <1>5 DEF Tick, Upload, Delisted, ExpireJunit, ExpireLog, queueVars, histVars
  <2> QED BY <1>1, <2>1
<1>6. ASSUME NEW a \in stray, StrayStep(a)
      PROVE  RetryInv'
  <2>1. q' = q /\ outcome' = outcome /\ worker' = worker /\ process' = process
    BY <1>6 DEF StrayStep, StrayAddSuites, StrayStopsAdding, StrayCreateLog, StrayWantsNoLog,
                StrayCopyLog, StrayRemovesLog, queueVars, histVars
  <2> QED BY <1>1, <2>1
<1>7. CASE UNCHANGED vars
  BY <1>1, <1>7 DEF vars
<1> QED BY <1>2, <1>3, <1>4, <1>5, <1>6, <1>7 DEF Next, BuildStep

\* No failed build is lost: the AddRateLimited and Done of DiskStore.Run, the delay
\* of the queue and any notifications in between leave it waiting, dirty or being
\* processed until an attempt succeeds, it is given up, or the process restarts.
THEOREM NoFailedBuildIsLost == Spec => []FailedIsRetried
<1>1. Init => RetryInv
  BY DEF Init, RetryInv, FailedIsRetried, NoIndexIdle, At, Idle
<1>2. RetryInv => FailedIsRetried
  BY DEF RetryInv
<1> QED BY InitIInv, NextIInv, NextRetryInv, <1>1, <1>2, PTL DEF Spec

Reading(w, b) == At(w, "reading") /\ KeyOf(w) = b

\* Unless attempts on a build overlap, at most one goroutine is left of it, and
\* none while a worker reads it.
Strays ==
    \A b \in Builds \ overlapped :
        /\ \A a, c \in stray : a.key = b /\ c.key = b => a = c
        /\ \A w \in Workers : Reading(w, b) => \A a \in stray : a.key # b

\* The suites somebody has yet to append are not in the file.
Once ==
    \A b \in Builds :
        /\ junit[b].mtime = Absent => \A s \in Suites : junit[b].entries[s] = 0
        /\ b \notin overlapped =>
              /\ \A s \in Suites : junit[b].entries[s] =< 1
              /\ \A w \in Workers : Reading(w, b) /\ ~worker[w].junit =>
                    \A s \in worker[w].todo : junit[b].entries[s] = 0
              /\ \A a \in stray : a.key = b => \A s \in a.todo : junit[b].entries[s] = 0

\* A log is downloaded only after the metadata, and if it is wanted.
Downloads ==
    \A w \in Workers : At(w, "reading") =>
        /\ worker[w].blog # "no" => worker[w].meta
        /\ worker[w].blog = "open" => WantsLog(w)

\* Whatever is in the queue has ended.
Ended == \A b \in Held(q) : Job[b].completion =< now

\* The results of the build may have expired.
Gone(b) == MaxAge > 0 /\ Job[b].finish + MaxAge < now

\* No file is older than the build.
Aged(b) ==
    /\ junit[b].mtime # Absent => Job[b].finish =< junit[b].mtime
    /\ blog[b].mtime # Absent => Job[b].finish =< blog[b].mtime

Untouched(b) == dir[b] = Absent /\ junit[b] = NoJunit /\ blog[b] = NoLog

\* The attempt that found no files: what it has added is on disk.
FirstAttempt(w, b) ==
    /\ ~worker[w].junit /\ ~worker[w].log /\ worker[w].todo \subseteq Job[b].suites
    /\ \A s \in Suites :
          junit[b].entries[s] = IF s \in Job[b].suites \ worker[w].todo THEN 1 ELSE 0
    /\ worker[w].todo # Job[b].suites => junit[b].mtime # Absent
    /\ worker[w].blog = "open" => blog[b].mtime # Absent
    /\ worker[w].blog = "done" => blog[b].mtime # Absent /\ blog[b].whole
    /\ outcome[b] \notin {"ok", "uptodate"}

\* An attempt on complete results, begun because a crash came between Finished and
\* the stamp of the completion time: it adds nothing.
Again(w, b) ==
    /\ Complete(b)
    /\ worker[w].junit \/ worker[w].todo = {}
    /\ worker[w].log \/ Job[b].succeeded

\* How far the attempt on a build has come.
Progress(b) ==
    /\ Aged(b)
    /\ \A w \in Workers : Reading(w, b) => FirstAttempt(w, b) \/ Again(w, b)
    /\ (\A w \in Workers : ~Reading(w, b)) => Untouched(b) \/ Complete(b)
    /\ \A w \in Workers : KeyOf(w) = b => ~At(w, "hung") /\ (At(w, "completing") => Complete(b))
    /\ outcome[b] \in {"ok", "uptodate"} => Complete(b)

\* A build without trouble has no goroutines left over, and its files are those of
\* one attempt.
Undisturbed ==
    \A b \in Builds \ troubled :
        (\A a \in stray : a.key # b) /\ (~Gone(b) => Progress(b))

-----------------------------------------------------------------------------
\* One worker's record changes.
LEMMA Update ==
    ASSUME WorkersOK, NEW w \in Workers, NEW r, worker' = [worker EXCEPT ![w] = r]
    PROVE  worker'[w] = r /\ \A v \in Workers \ {w} : worker'[v] = worker[v]
  BY DEF WorkersOK

\* A worker that reads a build after its step has begun with it or has gone on.
LEMMA WorkerMoves ==
    ASSUME IInv, NEW w \in Workers, WorkerStep(w)
    PROVE  /\ \A v \in Workers \ {w} : worker'[v] = worker[v]
           /\ worker'[w].pc = "reading" =>
                 \/ NewAccumulator(w)
                 \/ /\ worker[w].pc = "reading" /\ worker'[w].key = worker[w].key
                    /\ worker'[w].junit = worker[w].junit /\ worker'[w].log = worker[w].log
                    /\ worker'[w].todo \subseteq worker[w].todo
                    /\ worker[w].meta => worker'[w].meta
                    /\ \/ worker'[w].blog = worker[w].blog
                       \/ CreateLog(w) /\ worker'[w].blog = "open"
                       \/ CopyLog(w) /\ worker'[w].blog = "done"
<1>0. WorkersOK /\ worker[w] \in WorkerType /\ Idle.pc = "idle"
  BY Parts DEF IInv, WorkersOK, Idle
<1>1. CASE Discard(w)
  BY <1>1 DEF Discard
<1>2. CASE NoJob(w) \/ IgnoreURL(w) \/ UpToDate(w) \/ MarkCompleted(w) \/ InvalidURL(w) \/ ReadFailed(w)
  <2>1. worker' = [worker EXCEPT ![w] = Idle]
    BY <1>2 DEF NoJob, IgnoreURL, UpToDate, MarkCompleted, InvalidURL, ReadFailed, Release, WriteFailed
  <2> QED BY <1>0, <2>1, Update
<1>3. CASE Take(w)
  <2> DEFINE r == [Idle EXCEPT !.pc = "taken", !.key = Head(q.queue)]
  <2>1. worker' = [worker EXCEPT ![w] = r] /\ r.pc = "taken"
    BY <1>3 DEF Take, Idle
  <2> QED BY <1>0, <2>1, Update
<1>4. CASE NewAccumulator(w)
  BY <1>0, <1>4 DEF NewAccumulator, WorkersOK
<1>5. ASSUME NEW s \in Suites, AddSuites(w, s)
      PROVE  /\ \A v \in Workers \ {w} : worker'[v] = worker[v]
             /\ worker[w].pc = "reading" /\ worker'[w].key = worker[w].key
             /\ worker'[w].junit = worker[w].junit /\ worker'[w].log = worker[w].log
             /\ worker'[w].todo \subseteq worker[w].todo
             /\ worker'[w].meta = worker[w].meta /\ worker'[w].blog = worker[w].blog
  BY <1>0, <1>5 DEF AddSuites, WorkersOK, WorkerType, At
<1>6. CASE AddMetadata(w) \/ CreateLog(w) \/ CopyLog(w)
  BY <1>0, <1>6 DEF AddMetadata, CreateLog, CopyLog, WorkersOK, WorkerType, At
<1>7. CASE Finished(w) \/ FinishedLate(w) \/ Unfinished(w)
  <2>1. worker' = [worker EXCEPT ![w].pc = "completing"]
    BY <1>7 DEF Finished, FinishedLate, Unfinished
  <2> QED BY <1>0, <2>1 DEF WorkersOK, WorkerType
<1>8. CASE Hang(w)
  BY <1>0, <1>8 DEF Hang, WorkersOK, WorkerType
<1> QED BY <1>1, <1>2, <1>3, <1>4, <1>5, <1>6, <1>7, <1>8 DEF WorkerStep

\* What an attempt leaves running is at most one goroutine, for its build and for
\* suites it has not added; a download that runs is left running.
LEMMA LeftoverIs ==
    ASSUME NEW w \in Workers
    PROVE  /\ \A x, y \in Leftover(w) : x = y
           /\ \A x \in Leftover(w) : /\ x.key = KeyOf(w)
                                     /\ \A s \in x.todo : ~worker[w].junit /\ s \in worker[w].todo
           /\ worker[w].blog = "open" => \E x \in Leftover(w) : x.key = KeyOf(w) /\ x.log = "open"
<1> DEFINE l == CASE worker[w].blog = "open" -> "open"
                  [] worker[w].blog = "no" /\ worker[w].meta /\ WantsLog(w) -> "wait"
                  [] OTHER -> "no"
           t == IF worker[w].junit THEN {} ELSE worker[w].todo
           x0 == [key |-> KeyOf(w), todo |-> t, log |-> l]
<1>1. Leftover(w) = Running(x0)
  BY DEF Leftover
<1>2. /\ worker[w].blog = "open" => l = "open"
      /\ \A s \in t : ~worker[w].junit /\ s \in worker[w].todo
  OBVIOUS
<1> HIDE DEF l, t
<1>3. x0.key = KeyOf(w) /\ x0.todo = t /\ x0.log = l
  OBVIOUS
<1> HIDE DEF x0
<1>4. /\ \A x \in Running(x0) : x = x0
      /\ x0.log # "no" => x0 \in Running(x0)
  BY DEF Running
<1> QED BY <1>1, <1>2, <1>3, <1>4

\* A goroutine that is left over goes on with the same build and no new suites.
LEMMA StrayMoves ==
    ASSUME IInv, NEW a \in stray, StrayStep(a)
    PROVE  /\ UNCHANGED <<now, q, informer, worker, process, outcome, troubled, overlapped>>
           /\ \E r \in StrayType :
                 /\ r.key = a.key /\ r.todo \subseteq a.todo /\ Becomes(a, r)
                 /\ a.log = "open" => r.log = "open" \/ StrayCopyLog(a) \/ StrayRemovesLog(a)
<1>0. a \in StrayType
  BY DEF IInv, TypeOK
<1>1. UNCHANGED <<now, q, informer, worker, process, outcome, troubled, overlapped>>
  BY DEF StrayStep, StrayAddSuites, StrayStopsAdding, StrayCreateLog, StrayWantsNoLog,
         StrayCopyLog, StrayRemovesLog, queueVars, histVars
<1> DEFINE Is(r) == /\ r \in StrayType /\ r.key = a.key /\ r.todo \subseteq a.todo /\ Becomes(a, r)
                    /\ a.log = "open" => r.log = "open" \/ StrayCopyLog(a) \/ StrayRemovesLog(a)
<1>2. ASSUME NEW s \in Suites, StrayAddSuites(a, s) PROVE \E r : Is(r)
  <2> DEFINE r == [a EXCEPT !.todo = @ \ {s}]
  <2>1. r \in StrayType /\ r.key = a.key /\ r.todo \subseteq a.todo /\ r.log = a.log
    BY <1>0 DEF StrayType
  <2>2. Becomes(a, r)
    BY <1>2 DEF StrayAddSuites
  <2> QED BY <2>1, <2>2
<1>3. CASE StrayStopsAdding(a)
  <2> DEFINE r == [a EXCEPT !.todo = {}]
  <2>1. r \in StrayType /\ r.key = a.key /\ r.todo \subseteq a.todo /\ r.log = a.log
    BY <1>0 DEF StrayType
  <2>2. Becomes(a, r)
    BY <1>3 DEF StrayStopsAdding
  <2> QED BY <1>1, <2>1, <2>2
<1>4. CASE StrayCreateLog(a)
  <2> DEFINE r == [a EXCEPT !.log = "open"]
  <2>1. r \in StrayType /\ r.key = a.key /\ r.todo \subseteq a.todo /\ r.log = "open"
    BY <1>0 DEF StrayType
  <2>2. Becomes(a, r)
    BY <1>4 DEF StrayCreateLog
  <2> QED BY <1>1, <2>1, <2>2
<1>5. CASE StrayWantsNoLog(a) \/ StrayCopyLog(a) \/ StrayRemovesLog(a)
  <2> DEFINE r == [a EXCEPT !.log = "no"]
  <2>1. r \in StrayType /\ r.key = a.key /\ r.todo \subseteq a.todo
    BY <1>0 DEF StrayType
  <2>2. Becomes(a, r) /\ (a.log = "open" => StrayCopyLog(a) \/ StrayRemovesLog(a))
    BY <1>5 DEF StrayWantsNoLog, StrayCopyLog, StrayRemovesLog
  <2> QED BY <1>1, <2>1, <2>2
<1>6. \E r : Is(r)
  BY <1>2, <1>3, <1>4, <1>5 DEF StrayStep
<1> QED BY <1>1, <1>6

\* What a worker's step does to the goroutines that are left over.
LEMMA WorkerStrays ==
    ASSUME IInv, NEW w \in Workers, WorkerStep(w)
    PROVE  /\ overlapped \subseteq overlapped'
           /\ \/ stray' = stray
              \/ /\ stray' = stray \cup Leftover(w) /\ At(w, "reading")
                 /\ worker'[w].pc # "reading" /\ KeyOf(w) \in troubled'
                 /\ Unfinished(w) \/ ReadFailed(w)
           /\ NewAccumulator(w) => /\ At(w, "taken") /\ worker'[w].key = KeyOf(w) /\ stray' = stray
                                   /\ KeyOf(w) \notin overlapped' => \A a \in stray : a.key # KeyOf(w)
<1>0. WorkersOK /\ worker[w] \in WorkerType /\ Idle.pc = "idle"
  BY Parts DEF IInv, WorkersOK, Idle
<1>1. CASE Unfinished(w)
  BY <1>0, <1>1 DEF Unfinished, WorkersOK, WorkerType, NewAccumulator, At
<1>2. CASE ReadFailed(w)
  BY <1>0, <1>2 DEF ReadFailed, WriteFailed, WorkersOK, NewAccumulator, At
<1>3. CASE NewAccumulator(w)
  BY <1>0, <1>3 DEF NewAccumulator, WorkersOK, Idle
<1>4. CASE WorkerStep(w) /\ ~Unfinished(w) /\ ~ReadFailed(w) /\ ~NewAccumulator(w)
  BY <1>4 DEF WorkerStep, Take, Discard, NoJob, IgnoreURL, InvalidURL, UpToDate, AddSuites,
              AddMetadata, CreateLog, CopyLog, Finished, FinishedLate, MarkCompleted, Hang, histVars
<1> QED BY <1>1, <1>2, <1>3, <1>4

\* Steps that leave the workers and the goroutines alone.
Elsewhere ==
    UNCHANGED <<worker, stray, process, outcome, troubled, overlapped>>

\* Every step is a worker's, a goroutine's that is left over, a crash, or leaves them alone.
LEMMA Steps ==
    ASSUME [Next]_vars
    PROVE  \/ \E w \in Workers : WorkerStep(w)
           \/ \E a \in stray : StrayStep(a)
           \/ Crash
           \/ Elsewhere /\ (Tick \/ (\E b \in Builds : BuildStep(b)) \/ UNCHANGED vars)
<1>1. CASE Tick
  BY <1>1 DEF Tick, Elsewhere, queueVars, histVars
<1>2. ASSUME NEW b \in Builds, BuildStep(b) PROVE Elsewhere
  BY <1>2 DEF BuildStep, Upload, AddFunc, UpdateFunc, Delisted, RetryReady, ExpireJunit, ExpireLog,
              Elsewhere, queueVars, histVars
<1>3. CASE UNCHANGED vars
  BY <1>3 DEF vars, Elsewhere
<1> QED BY <1>1, <1>2, <1>3 DEF Next

\* The record of an attempt that begins.
LEMMA AccumulatorIs ==
    ASSUME IInv, NEW w \in Workers, NewAccumulator(w)
    PROVE  /\ worker'[w].key = KeyOf(w) /\ KeyOf(w) \in Builds
           /\ worker'[w].junit = (junit[KeyOf(w)].mtime # Absent)
           /\ worker'[w].log = (blog[KeyOf(w)].mtime # Absent)
           /\ worker'[w].todo = Job[KeyOf(w)].suites
           /\ worker'[w].meta = FALSE /\ worker'[w].blog = "no"
           /\ UNCHANGED <<now, q, dir, junit, blog, stray, outcome, troubled>>
<1>0. worker \in [Workers -> WorkerType] /\ TypeOK /\ ~At(w, "idle")
  BY DEF IInv, TypeOK, NewAccumulator, At
<1>1. KeyOf(w) \in Builds
  BY <1>0, Busy
<1> DEFINE j == junit[KeyOf(w)].mtime # Absent
           l == blog[KeyOf(w)].mtime # Absent
           t == Job[KeyOf(w)].suites
           r == [Idle EXCEPT !.pc = "reading", !.key = KeyOf(w), !.junit = j, !.log = l, !.todo = t]
<1>2. worker' = [worker EXCEPT ![w] = r]
  BY DEF NewAccumulator
<1> HIDE DEF j, l, t
<1>3. /\ r.key = KeyOf(w) /\ r.junit = j /\ r.log = l /\ r.todo = t
      /\ r.meta = FALSE /\ r.blog = "no"
  BY DEF Idle
<1> HIDE DEF r
<1>4. worker'[w] = r
  BY <1>0, <1>2
<1>5. UNCHANGED <<now, q, dir, junit, blog, stray, outcome, troubled>>
  BY DEF NewAccumulator, diskVars
<1> QED BY <1>1, <1>3, <1>4, <1>5 DEF j, l, t

-----------------------------------------------------------------------------
\* Overlapping attempts are noticed.
LEMMA NextStrays == ASSUME IInv, Strays, [Next]_vars PROVE Strays'
<1>0. \A u, v \in Workers : Reading(u, KeyOf(v)) /\ At(v, "reading") => u = v
  BY DEF IInv, OneWorkerPerBuild, Reading, At
<1>1. ASSUME NEW w \in Workers, WorkerStep(w) PROVE Strays'
  <2> SUFFICES ASSUME NEW b \in Builds \ overlapped'
               PROVE  /\ \A a, c \in stray' : a.key = b /\ c.key = b => a = c
                      /\ \A v \in Workers : Reading(v, b)' => \A a \in stray' : a.key # b
    BY DEF Strays
  <2>1. /\ b \in Builds \ overlapped
        /\ \A a, c \in stray : a.key = b /\ c.key = b => a = c
        /\ \A v \in Workers : Reading(v, b) => \A a \in stray : a.key # b
    BY <1>1, WorkerStrays DEF Strays
  <2>2. CASE stray' = stray
    <3>1. ASSUME NEW v \in Workers, Reading(v, b)' PROVE \A a \in stray : a.key # b
      <4>1. CASE v # w
        BY <1>1, <2>1, <3>1, <4>1, WorkerMoves DEF Reading, At, KeyOf
      <4>2. CASE v = w /\ NewAccumulator(w)
        BY <1>1, <3>1, <4>2, WorkerStrays DEF Reading, At, KeyOf
      <4>3. CASE v = w /\ ~NewAccumulator(w)
        BY <1>1, <2>1, <3>1, <4>3, WorkerMoves DEF Reading, At, KeyOf
      <4> QED BY <4>1, <4>2, <4>3
    <3> QED BY <2>1, <2>2, <3>1
  <2>3. CASE stray' # stray
    <3>1. stray' = stray \cup Leftover(w) /\ At(w, "reading") /\ worker'[w].pc # "reading"
      BY <1>1, <2>3, WorkerStrays
    <3>2. ASSUME NEW v \in Workers, Reading(v, b)' PROVE Reading(v, b) /\ v # w
      BY <1>1, <3>1, <3>2, WorkerMoves DEF Reading, At, KeyOf
    <3>3. /\ \A x, y \in Leftover(w) : x = y
          /\ \A x \in Leftover(w) : x.key = KeyOf(w)
      BY LeftoverIs
    <3>4. CASE b = KeyOf(w)
      BY <1>0, <2>1, <3>1, <3>2, <3>3, <3>4 DEF Reading
    <3>5. CASE b # KeyOf(w)
      BY <2>1, <3>1, <3>2, <3>3, <3>5
    <3> QED BY <3>4, <3>5
  <2> QED BY <2>2, <2>3
<1>2. ASSUME NEW a \in stray, StrayStep(a) PROVE Strays'
  <2>1. PICK r : r.key = a.key /\ Becomes(a, r)
    BY <1>2, StrayMoves
  <2>2. worker' = worker /\ overlapped' = overlapped
    BY <1>2, StrayMoves
  <2>3. \A x \in stray' : (x \in stray /\ x # a) \/ x = r
    BY <2>1 DEF Becomes, Running
  <2> QED BY <2>1, <2>2, <2>3 DEF Strays, Reading, At, KeyOf
<1>3. CASE Crash
  BY <1>3 DEF Crash, Strays
<1>4. CASE Elsewhere
  BY <1>4 DEF Elsewhere, Strays, Reading, At, KeyOf
<1> QED BY <1>1, <1>2, <1>3, <1>4, Steps

-----------------------------------------------------------------------------
\* A suite is appended.
LEMMA SuiteAppendIs ==
    ASSUME IInv, NEW b \in Builds, NEW s \in Suites, AppendSuite(b, s)
    PROVE  /\ junit'[b].mtime = now /\ now # Absent
           /\ junit'[b].entries[s] = junit[b].entries[s] + 1
           /\ \A t \in Suites \ {s} : junit'[b].entries[t] = junit[b].entries[t]
           /\ \A c \in Builds \ {b} : junit'[c] = junit[c]
<1>0. junit \in [Builds -> [mtime : Nat, entries : [Suites -> Nat]]] /\ now # Absent
  BY DEF IInv, TypeOK, Absent
<1>1. junit[b].entries \in [Suites -> Nat]
  BY <1>0
<1> DEFINE e == [junit[b].entries EXCEPT ![s] = @ + 1]
<1>2. e[s] = junit[b].entries[s] + 1 /\ \A t \in Suites \ {s} : e[t] = junit[b].entries[t]
  BY <1>1
<1>3. junit' = [junit EXCEPT ![b] = [mtime |-> now, entries |-> e]]
  BY DEF AppendSuite
<1> HIDE DEF e
<1>4. junit'[b] = [mtime |-> now, entries |-> e] /\ \A c \in Builds \ {b} : junit'[c] = junit[c]
  BY <1>0, <1>3
<1> QED BY <1>0, <1>2, <1>4

\* Stamping keeps the entries, and makes no file appear or disappear.
LEMMA StampIs ==
    ASSUME IInv, NEW b \in Builds, NEW nj \in BOOLEAN, NEW nl \in BOOLEAN,
           NEW log \in [mtime : Nat, whole : BOOLEAN], Stamp(b, nj, nl, log)
    PROVE  /\ \A c \in Builds : junit'[c].entries = junit[c].entries
                                /\ (junit'[c].mtime = Absent <=> junit[c].mtime = Absent)
           /\ \A c \in Builds \ {b} : junit'[c] = junit[c] /\ blog'[c] = blog[c] /\ dir'[c] = dir[c]
           /\ nj /\ junit[b].mtime # Absent => junit'[b].mtime = Job[b].finish
           /\ ~(nj /\ junit[b].mtime # Absent) => junit'[b] = junit[b]
           /\ nl /\ log.mtime # Absent => blog'[b] = [mtime |-> Job[b].finish, whole |-> log.whole]
           /\ ~(nl /\ log.mtime # Absent) => blog'[b] = log
<1>0. /\ junit \in [Builds -> [mtime : Nat, entries : [Suites -> Nat]]]
      /\ blog \in [Builds -> [mtime : Nat, whole : BOOLEAN]] /\ dir \in [Builds -> Nat]
  BY DEF IInv, TypeOK
<1>1. Job[b].finish # Absent
  BY JobAssumption DEF JobInfo, Absent
<1>2. /\ \A c \in Builds \ {b} : junit'[c] = junit[c]
      /\ nj /\ junit[b].mtime # Absent => junit'[b] = [junit[b] EXCEPT !.mtime = Job[b].finish]
      /\ ~(nj /\ junit[b].mtime # Absent) => junit'[b] = junit[b]
  BY <1>0 DEF Stamp
<1>3. /\ \A c \in Builds \ {b} : blog'[c] = blog[c]
      /\ nl /\ log.mtime # Absent => blog'[b] = [log EXCEPT !.mtime = Job[b].finish]
      /\ ~(nl /\ log.mtime # Absent) => blog'[b] = log
  BY <1>0 DEF Stamp
<1>4. /\ junit'[b].entries = junit[b].entries /\ (junit'[b].mtime = Absent <=> junit[b].mtime = Absent)
      /\ nj /\ junit[b].mtime # Absent => junit'[b].mtime = Job[b].finish
  BY <1>0, <1>1, <1>2
<1>5. [log EXCEPT !.mtime = Job[b].finish] = [mtime |-> Job[b].finish, whole |-> log.whole]
  OBVIOUS
<1>6. \A c \in Builds \ {b} : dir'[c] = dir[c]
  BY <1>0 DEF Stamp
<1> QED BY <1>2, <1>3, <1>4, <1>5, <1>6

\* What Finished stamps as the log.
LEMMA Stamped ==
    ASSUME IInv, NEW w \in Workers, Finished(w) \/ FinishedLate(w)
    PROVE  /\ KeyOf(w) \in Builds /\ At(w, "reading")
           /\ \E nj, nl \in BOOLEAN : \E log \in [mtime : Nat, whole : BOOLEAN] :
                 /\ Stamp(KeyOf(w), nj, nl, log) /\ nj = ~worker[w].junit /\ nl = ~worker[w].log
                 /\ log = IF FinishedLate(w) /\ worker[w].blog = "open" THEN NoLog
                          ELSE blog[KeyOf(w)]
<1>1. At(w, "reading") /\ KeyOf(w) \in Builds
  BY Busy DEF IInv, Finished, FinishedLate, At
<1>2. blog[KeyOf(w)] \in [mtime : Nat, whole : BOOLEAN] /\ NoLog \in [mtime : Nat, whole : BOOLEAN]
  BY <1>1 DEF IInv, TypeOK, NoLog, Absent
<1>3. CASE Finished(w)
  <2>1. Stamp(KeyOf(w), ~worker[w].junit, ~worker[w].log, blog[KeyOf(w)]) /\ ~FinishedLate(w)
    BY <1>3 DEF Finished, FinishedLate
  <2> QED BY <1>1, <1>2, <2>1
<1>4. CASE FinishedLate(w) /\ worker[w].blog = "open"
  <2>1. Stamp(KeyOf(w), ~worker[w].junit, ~worker[w].log, NoLog)
    BY <1>4 DEF FinishedLate
  <2> QED BY <1>1, <1>2, <1>4, <2>1
<1>5. CASE FinishedLate(w) /\ worker[w].blog # "open"
  <2>1. Stamp(KeyOf(w), ~worker[w].junit, ~worker[w].log, blog[KeyOf(w)])
    BY <1>5 DEF FinishedLate
  <2> QED BY <1>1, <1>2, <1>5, <2>1
<1> QED BY <1>3, <1>4, <1>5

\* A worker appends a suite, or leaves the entries of every build as they are.
LEMMA WorkerEntries ==
    ASSUME IInv, NEW w \in Workers, WorkerStep(w), NEW b \in Builds
    PROVE  \/ /\ junit'[b].entries = junit[b].entries
              /\ junit'[b].mtime = Absent <=> junit[b].mtime = Absent
           \/ \E s \in Suites : AddSuites(w, s) /\ ~worker[w].junit /\ b = KeyOf(w) /\ b \in Builds
<1>0. TypeOK
  BY DEF IInv
<1>1. ASSUME NEW s \in Suites, AddSuites(w, s), worker[w].junit \/ b # KeyOf(w)
      PROVE  junit'[b] = junit[b]
  <2>1. CASE worker[w].junit
    BY <1>1, <2>1 DEF AddSuites
  <2>2. CASE ~worker[w].junit
    <3>1. KeyOf(w) \in Builds
      BY <1>0, <1>1, Busy DEF AddSuites, At
    <3> QED BY <1>1, <2>2, <3>1, SuiteAppendIs DEF AddSuites
  <2> QED BY <2>1, <2>2
<1>2. CASE Finished(w) \/ FinishedLate(w)
  <2>1. PICK k \in Builds : k = KeyOf(w)
    BY <1>2, Stamped
  <2>2. PICK nj \in BOOLEAN, nl \in BOOLEAN, log \in [mtime : Nat, whole : BOOLEAN] :
           Stamp(k, nj, nl, log)
    BY <1>2, <2>1, Stamped
  <2> QED BY <2>2, StampIs
<1>3. CASE ~Finished(w) /\ ~FinishedLate(w) /\ ~\E s \in Suites : AddSuites(w, s)
  BY <1>3 DEF WorkerStep, Take, Discard, NoJob, IgnoreURL, InvalidURL, UpToDate, NewAccumulator,
              AddMetadata, CreateLog, CopyLog, MarkCompleted, Unfinished, ReadFailed, Hang, diskVars
<1> QED BY <1>1, <1>2, <1>3

\* No suite is appended twice.
LEMMA NextOnce == ASSUME IInv, Strays, Once, [Next]_vars PROVE Once'
<1>0. \A b \in Builds : \A s \in Suites : junit[b].entries[s] \in Nat
  BY DEF IInv, TypeOK
<1>1. ASSUME NEW w \in Workers, WorkerStep(w) PROVE Once'
  <2> SUFFICES ASSUME NEW b \in Builds
               PROVE  /\ junit'[b].mtime = Absent => \A s \in Suites : junit'[b].entries[s] = 0
                      /\ b \notin overlapped' =>
                            /\ \A s \in Suites : junit'[b].entries[s] =< 1
                            /\ \A v \in Workers : Reading(v, b)' /\ ~worker'[v].junit =>
                                  \A s \in worker'[v].todo : junit'[b].entries[s] = 0
                            /\ \A a \in stray' : a.key = b =>
                                  \A s \in a.todo : junit'[b].entries[s] = 0
    BY DEF Once
  <2>0. b \notin overlapped' => b \notin overlapped
    BY <1>1, WorkerStrays
  <2>1. CASE /\ junit'[b].entries = junit[b].entries
             /\ junit'[b].mtime = Absent <=> junit[b].mtime = Absent
    <3>1. ASSUME b \notin overlapped', NEW v \in Workers, Reading(v, b)', ~worker'[v].junit,
                 NEW s \in worker'[v].todo
          PROVE  junit[b].entries[s] = 0
      <4>1. CASE v # w
        <5>1. worker'[v] = worker[v]
          BY <1>1, <4>1, WorkerMoves
        <5> QED BY <2>0, <3>1, <5>1 DEF Once, Reading, At, KeyOf
      <4>2. CASE v = w /\ NewAccumulator(w)
        <5>1. /\ worker'[w].key = KeyOf(w) /\ worker'[w].junit = (junit[KeyOf(w)].mtime # Absent)
              /\ worker'[w].todo = Job[KeyOf(w)].suites
          BY <4>2, AccumulatorIs
        <5>2. b = KeyOf(w) /\ junit[b].mtime = Absent /\ s \in Suites
          BY <3>1, <4>2, <5>1, JobAssumption DEF Reading, KeyOf, JobInfo
        <5> QED BY <5>2 DEF Once
      <4>3. CASE v = w /\ ~NewAccumulator(w)
        <5>1. /\ worker[w].pc = "reading" /\ worker'[w].key = worker[w].key
              /\ worker'[w].junit = worker[w].junit /\ worker'[w].todo \subseteq worker[w].todo
          BY <1>1, <3>1, <4>3, WorkerMoves DEF Reading, At
        <5> QED BY <2>0, <3>1, <4>3, <5>1 DEF Once, Reading, At, KeyOf
      <4> QED BY <4>1, <4>2, <4>3
    <3>2. ASSUME b \notin overlapped', NEW a \in stray', a.key = b, NEW s \in a.todo
          PROVE  junit[b].entries[s] = 0
      <4>1. CASE a \in stray
        BY <2>0, <3>2, <4>1 DEF Once
      <4>2. CASE a \notin stray
        <5>1. a \in Leftover(w) /\ At(w, "reading")
          BY <1>1, <4>2, WorkerStrays
        <5>2. KeyOf(w) = b /\ ~worker[w].junit /\ s \in worker[w].todo
          BY <3>2, <5>1, LeftoverIs
        <5> QED BY <2>0, <3>2, <5>1, <5>2 DEF Once, Reading
      <4> QED BY <4>1, <4>2
    <3> QED BY <2>0, <2>1, <3>1, <3>2 DEF Once
  <2>2. ASSUME NEW s \in Suites, AddSuites(w, s), ~worker[w].junit, b = KeyOf(w)
        PROVE  /\ junit'[b].mtime = Absent => \A t \in Suites : junit'[b].entries[t] = 0
               /\ b \notin overlapped' =>
                     /\ \A t \in Suites : junit'[b].entries[t] =< 1
                     /\ \A v \in Workers : Reading(v, b)' /\ ~worker'[v].junit =>
                           \A t \in worker'[v].todo : junit'[b].entries[t] = 0
                     /\ \A a \in stray' : a.key = b =>
                           \A t \in a.todo : junit'[b].entries[t] = 0
    <3>1. AppendSuite(b, s) /\ s \in worker[w].todo /\ Reading(w, b) /\ stray' = stray
      BY <2>2 DEF AddSuites, Reading
    <3>2. /\ junit'[b].mtime # Absent
          /\ junit'[b].entries[s] = junit[b].entries[s] + 1
          /\ \A t \in Suites \ {s} : junit'[b].entries[t] = junit[b].entries[t]
      BY <3>1, SuiteAppendIs
    <3>3. ASSUME b \notin overlapped'
          PROVE  /\ junit[b].entries[s] = 0 /\ \A t \in Suites : junit[b].entries[t] =< 1
                 /\ \A t \in worker[w].todo : junit[b].entries[t] = 0
                 /\ \A a \in stray : a.key # b
      BY <2>0, <2>2, <3>1, <3>3 DEF Once, Strays
    <3>4. worker \in [Workers -> WorkerType] /\ worker[w].todo \subseteq Suites
      BY DEF IInv, TypeOK, WorkerType
    <3>5. worker'[w].todo = worker[w].todo \ {s} /\ \A v \in Workers \ {w} : worker'[v] = worker[v]
      BY <2>2, <3>4 DEF AddSuites, WorkerType
    <3>6. \A v \in Workers : Reading(v, b)' => v = w
      BY <3>1, <3>5 DEF IInv, OneWorkerPerBuild, Reading, At, KeyOf
    <3>7. b \notin overlapped' => \A t \in Suites : junit'[b].entries[t] =< 1
      BY <1>0, <3>2, <3>3
    <3> QED BY <3>1, <3>2, <3>3, <3>4, <3>5, <3>6, <3>7
  <2> QED BY <1>1, <2>1, <2>2, WorkerEntries
<1>2. ASSUME NEW a \in stray, StrayStep(a) PROVE Once'
  <2>0. a \in StrayType /\ a.key \in Builds
    BY DEF IInv, TypeOK, StrayType
  <2>1. worker' = worker /\ overlapped' = overlapped
    BY <1>2, StrayMoves
  <2>2. PICK r : r.key = a.key /\ r.todo \subseteq a.todo /\ Becomes(a, r)
    BY <1>2, StrayMoves
  <2>3. \A x \in stray' : (x \in stray /\ x # a) \/ x = r
    BY <2>2 DEF Becomes, Running
  <2>4. ASSUME NEW s \in Suites, StrayAddSuites(a, s) PROVE Once'
    <3>0. PICK b \in Builds : b = a.key
      BY <2>0
    <3>1. AppendSuite(b, s) /\ s \in a.todo
      BY <2>4, <3>0 DEF StrayAddSuites
    <3>2. /\ junit'[b].mtime # Absent
          /\ junit'[b].entries[s] = junit[b].entries[s] + 1
          /\ \A t \in Suites \ {s} : junit'[b].entries[t] = junit[b].entries[t]
          /\ \A c \in Builds \ {b} : junit'[c] = junit[c]
      BY <2>0, <3>1, SuiteAppendIs
    <3>3. ASSUME b \notin overlapped
          PROVE  /\ junit[b].entries[s] = 0 /\ \A t \in Suites : junit[b].entries[t] =< 1
                 /\ \A t \in a.todo : junit[b].entries[t] = 0
                 /\ \A x \in stray : x.key = b => x = a
                 /\ \A w \in Workers : ~Reading(w, b)
      BY <2>0, <3>0, <3>1, <3>3 DEF Once, Strays
    <3>4. \A x \in stray' : x.key = b /\ b \notin overlapped => x.todo \subseteq a.todo \ {s}
      <4>1. Becomes(a, [a EXCEPT !.todo = @ \ {s}])
        BY <2>4 DEF StrayAddSuites
      <4> DEFINE r2 == [a EXCEPT !.todo = @ \ {s}]
      <4>2. r2.todo = a.todo \ {s}
        BY <2>0 DEF StrayType
      <4> HIDE DEF r2
      <4>3. \A x \in stray' : (x \in stray /\ x # a) \/ x = r2
        BY <4>1 DEF Becomes, Running, r2
      <4> QED BY <3>3, <4>2, <4>3
    <3>5. b \notin overlapped => \A t \in Suites : junit'[b].entries[t] =< 1
      BY <1>0, <3>2, <3>3
    <3>6. a.todo \subseteq Suites
      BY <2>0 DEF StrayType
    <3>7. ASSUME NEW c \in Builds, c # b
          PROVE  /\ junit'[c].mtime = Absent => \A t \in Suites : junit'[c].entries[t] = 0
                 /\ c \notin overlapped' =>
                       /\ \A t \in Suites : junit'[c].entries[t] =< 1
                       /\ \A v \in Workers : Reading(v, c)' /\ ~worker'[v].junit =>
                             \A t \in worker'[v].todo : junit'[c].entries[t] = 0
                       /\ \A x \in stray' : x.key = c => \A t \in x.todo : junit'[c].entries[t] = 0
      BY <2>1, <2>2, <2>3, <3>0, <3>2, <3>7 DEF Once, Reading, At, KeyOf
    <3>8. /\ junit'[b].mtime = Absent => \A t \in Suites : junit'[b].entries[t] = 0
          /\ b \notin overlapped' =>
                /\ \A t \in Suites : junit'[b].entries[t] =< 1
                /\ \A v \in Workers : Reading(v, b)' /\ ~worker'[v].junit =>
                      \A t \in worker'[v].todo : junit'[b].entries[t] = 0
                /\ \A x \in stray' : x.key = b => \A t \in x.todo : junit'[b].entries[t] = 0
      <4>1. b \notin overlapped' => \A v \in Workers : ~Reading(v, b)'
        BY <2>1, <3>3 DEF Reading, At, KeyOf
      <4> QED BY <2>1, <3>2, <3>3, <3>4, <3>5, <3>6, <4>1
    <3> QED BY <3>7, <3>8 DEF Once
  <2>5. CASE ~\E s \in Suites : StrayAddSuites(a, s)
    <3>1. junit' = junit
      BY <1>2, <2>5 DEF StrayStep, StrayStopsAdding, StrayCreateLog, StrayWantsNoLog, StrayCopyLog,
                        StrayRemovesLog, diskVars
    <3> QED BY <2>1, <2>2, <2>3, <3>1 DEF Once, Reading, At, KeyOf
  <2> QED BY <2>4, <2>5
<1>3. CASE Crash
  <2>1. /\ junit' = junit /\ overlapped' = overlapped /\ stray' = {}
        /\ \A w \in Workers : worker'[w].pc = "idle"
    BY <1>3 DEF Crash, diskVars, Idle
  <2> QED BY <2>1 DEF Once, Reading, At
<1>4. CASE Elsewhere /\ (Tick \/ (\E b \in Builds : BuildStep(b)) \/ UNCHANGED vars)
  <2>1. CASE junit' = junit
    BY <1>4, <2>1 DEF Elsewhere, Once, Reading, At, KeyOf
  <2>2. ASSUME NEW b \in Builds, ExpireJunit(b) PROVE Once'
    <3>1. /\ junit'[b].mtime = Absent /\ \A c \in Builds \ {b} : junit'[c] = junit[c]
          /\ \A s \in Suites : junit'[b].entries[s] = 0
      BY <2>2 DEF IInv, TypeOK, ExpireJunit, NoJunit
    <3>2. \A w \in Workers : worker[w].todo \subseteq Suites
      BY DEF IInv, TypeOK, WorkerType
    <3>3. \A a \in stray : a.todo \subseteq Suites
      BY DEF IInv, TypeOK, StrayType
    <3> QED BY <1>4, <3>1, <3>2, <3>3 DEF Elsewhere, Once, Reading, At, KeyOf
  <2> QED BY <1>4, <2>1, <2>2 DEF Tick, BuildStep, Upload, AddFunc, UpdateFunc, Delisted,
                                  RetryReady, ExpireLog, diskVars, vars
<1> QED BY <1>1, <1>2, <1>3, <1>4, Steps

-----------------------------------------------------------------------------
\* Downloads begin as the code says.
LEMMA NextDownloads == ASSUME IInv, Downloads, [Next]_vars PROVE Downloads'
<1>1. ASSUME NEW w \in Workers, WorkerStep(w) PROVE Downloads'
  <2> SUFFICES ASSUME NEW v \in Workers, worker'[v].pc = "reading"
               PROVE  /\ worker'[v].blog # "no" => worker'[v].meta
                      /\ worker'[v].blog = "open" => ~Job[worker'[v].key].succeeded /\ ~worker'[v].log
    BY DEF Downloads, At, WantsLog, KeyOf
  <2>1. CASE v # w
    BY <1>1, <2>1, WorkerMoves DEF Downloads, At, WantsLog, KeyOf
  <2>2. CASE v = w /\ NewAccumulator(w)
    BY <2>2, AccumulatorIs
  <2>3. CASE v = w /\ ~NewAccumulator(w)
    <3>1. /\ worker[w].pc = "reading" /\ worker'[w].key = worker[w].key
          /\ worker'[w].log = worker[w].log /\ (worker[w].meta => worker'[w].meta)
          /\ \/ worker'[w].blog = worker[w].blog
             \/ CreateLog(w) /\ worker'[w].blog = "open"
             \/ CopyLog(w) /\ worker'[w].blog = "done"
      BY <1>1, <2>3, WorkerMoves
    <3>2. CreateLog(w) => worker[w].meta /\ WantsLog(w)
      BY DEF CreateLog
    <3>3. CopyLog(w) => worker[w].meta
      BY DEF CopyLog, Downloads
    <3> QED BY <2>3, <3>1, <3>2, <3>3 DEF Downloads, At, WantsLog, KeyOf
  <2> QED BY <2>1, <2>2, <2>3
<1>2. ASSUME NEW a \in stray, StrayStep(a) PROVE Downloads'
  <2>1. worker' = worker
    BY <1>2, StrayMoves
  <2> QED BY <2>1 DEF Downloads, At, WantsLog, KeyOf
<1>3. CASE Crash
  BY <1>3 DEF Crash, Downloads, At, Idle
<1>4. CASE Elsewhere
  BY <1>4 DEF Elsewhere, Downloads, At, WantsLog, KeyOf
<1> QED BY <1>1, <1>2, <1>3, <1>4, Steps

\* A build's log is on disk and not whole.
Partial(b) == blog[b].mtime # Absent /\ ~blog[b].whole

\* Somebody is downloading it.
Downloading(b) ==
    \/ \E w \in Workers : At(w, "reading") /\ KeyOf(w) = b /\ worker[w].blog = "open"
    \/ \E a \in stray : a.key = b /\ a.log = "open"

\* A worker's step on the logs.
LEMMA WorkerLogs ==
    ASSUME IInv, Downloads, NEW w \in Workers, WorkerStep(w), NEW b \in Builds, Partial(b)'
    PROVE  \/ /\ Partial(b)
              /\ Reading(w, b) /\ worker[w].blog = "open" =>
                    \/ worker'[w].pc = "reading" /\ worker'[w].key = b /\ worker'[w].blog = "open"
                    \/ stray' = stray \cup Leftover(w)
           \/ worker'[w].pc = "reading" /\ worker'[w].key = b /\ worker'[w].blog = "open"
<1>0. /\ TypeOK /\ worker \in [Workers -> WorkerType] /\ worker[w] \in WorkerType
      /\ blog \in [Builds -> [mtime : Nat, whole : BOOLEAN]]
  BY DEF IInv, TypeOK
<1>1. CASE CreateLog(w)
  <2>1. worker'[w].pc = "reading" /\ worker'[w].key = KeyOf(w) /\ worker'[w].blog = "open"
    BY <1>0, <1>1 DEF CreateLog, At, KeyOf, WorkerType
  <2>2. CASE b = KeyOf(w)
    BY <2>1, <2>2
  <2>3. CASE b # KeyOf(w)
    <3>1. blog'[b] = blog[b]
      BY <1>0, <1>1, <2>3 DEF CreateLog
    <3> QED BY <2>3, <3>1 DEF Partial, Reading
  <2> QED BY <2>2, <2>3
<1>2. CASE CopyLog(w)
  <2>1. b # KeyOf(w)
    BY <1>0, <1>2 DEF CopyLog, Partial
  <2>2. blog'[b] = blog[b]
    BY <1>0, <1>2, <2>1 DEF CopyLog
  <2> QED BY <2>1, <2>2 DEF Partial, Reading
<1>3. CASE Finished(w) \/ FinishedLate(w)
  <2>1. PICK k \in Builds : k = KeyOf(w)
    BY <1>3, Stamped
  <2>2. PICK nj \in BOOLEAN, nl \in BOOLEAN, log \in [mtime : Nat, whole : BOOLEAN] :
           /\ Stamp(k, nj, nl, log)
           /\ log = IF FinishedLate(w) /\ worker[w].blog = "open" THEN NoLog ELSE blog[k]
    BY <1>3, <2>1, Stamped
  <2>a. Stamp(k, nj, nl, log)
    BY <2>2
  <2>b. /\ \A c \in Builds \ {k} : blog'[c] = blog[c]
        /\ nl /\ log.mtime # Absent => blog'[k] = [mtime |-> Job[k].finish, whole |-> log.whole]
        /\ ~(nl /\ log.mtime # Absent) => blog'[k] = log
    BY <2>a, StampIs
  <2>3. CASE b # k
    <3>1. blog'[b] = blog[b]
      BY <2>b, <2>3
    <3> QED BY <2>1, <2>3, <3>1 DEF Partial, Reading
  <2>4. CASE b = k
    <3>1. log.mtime # Absent /\ ~log.whole
      <4>1. CASE nl /\ log.mtime # Absent
        <5>1. blog'[k] = [mtime |-> Job[k].finish, whole |-> log.whole]
          BY <2>b, <4>1
        <5> QED BY <2>4, <4>1, <5>1 DEF Partial
      <4>2. CASE ~(nl /\ log.mtime # Absent)
        <5>1. blog'[k] = log
          BY <2>b, <4>2
        <5> QED BY <2>4, <5>1 DEF Partial
      <4> QED BY <4>1, <4>2
    <3>2. ~(FinishedLate(w) /\ worker[w].blog = "open")
      BY <2>2, <3>1 DEF NoLog
    <3>3. Partial(b)
      BY <2>2, <2>4, <3>1, <3>2 DEF Partial
    <3>4. Finished(w) => ~(Reading(w, b) /\ worker[w].blog = "open")
      BY DEF Finished, SubtasksDone, Downloads, Reading
    <3> QED BY <1>3, <3>2, <3>3, <3>4
  <2> QED BY <2>3, <2>4
<1>4. CASE ~CreateLog(w) /\ ~CopyLog(w) /\ ~Finished(w) /\ ~FinishedLate(w)
  <2>1. blog' = blog
    BY <1>4 DEF WorkerStep, Take, Discard, NoJob, IgnoreURL, InvalidURL, UpToDate, NewAccumulator,
                AddSuites, AddMetadata, MarkCompleted, Unfinished, ReadFailed, Hang, diskVars
  <2>2. ASSUME Reading(w, b), worker[w].blog = "open", stray' # stray \cup Leftover(w)
        PROVE  worker'[w].pc = "reading" /\ worker'[w].key = b /\ worker'[w].blog = "open"
    <3>1. worker[w].pc = "reading" /\ worker[w].meta
      BY <2>2 DEF Reading, At, Downloads
    <3>2. worker'[w].pc = "reading"
      <4>1. ~Take(w) /\ ~NoJob(w) /\ ~IgnoreURL(w) /\ ~InvalidURL(w) /\ ~UpToDate(w)
            /\ ~MarkCompleted(w) /\ ~NewAccumulator(w) /\ ~Discard(w) /\ ~Unfinished(w) /\ ~Hang(w)
        BY <3>1 DEF Take, NoJob, IgnoreURL, InvalidURL, UpToDate, MarkCompleted, NewAccumulator,
                    Discard, Unfinished, Hang, At
      <4>2. ~ReadFailed(w)
        BY <2>2 DEF ReadFailed
      <4>3. CASE \E s \in Suites : AddSuites(w, s)
        BY <1>0, <3>1, <4>3 DEF AddSuites, WorkerType
      <4>4. CASE AddMetadata(w)
        BY <1>0, <3>1, <4>4 DEF AddMetadata, WorkerType
      <4> QED BY <1>4, <4>1, <4>2, <4>3, <4>4 DEF WorkerStep
    <3>3. ~NewAccumulator(w)
      BY <3>1 DEF NewAccumulator, At
    <3> QED BY <1>4, <2>2, <3>2, <3>3, WorkerMoves DEF Reading, KeyOf
  <2> QED BY <2>1, <2>2 DEF Partial
<1> QED BY <1>1, <1>2, <1>3, <1>4

\* A truncated log is being written, or was cut off by a crash.
LEMMA NextPartial ==
    ASSUME IInv, Downloads, PartialLogOnlyWhileDownloading, [Next]_vars
    PROVE  PartialLogOnlyWhileDownloading'
<1>0. /\ PartialLogOnlyWhileDownloading <=>
            (process.restarts = 0 => \A b \in Builds : Partial(b) => Downloading(b))
      /\ PartialLogOnlyWhileDownloading' <=>
            (process'.restarts = 0 => \A b \in Builds : Partial(b)' => Downloading(b)')
  BY DEF PartialLogOnlyWhileDownloading, Partial, Downloading
<1>1. ASSUME NEW w \in Workers, WorkerStep(w), process'.restarts = 0, NEW b \in Builds, Partial(b)'
      PROVE  Downloading(b)'
  <2>0. process.restarts = 0
    BY <1>1 DEF WorkerStep, Take, Discard, NoJob, IgnoreURL, InvalidURL, UpToDate, NewAccumulator,
                AddSuites, AddMetadata, CreateLog, CopyLog, Finished, FinishedLate, MarkCompleted,
                Unfinished, ReadFailed, Hang
  <2>1. CASE worker'[w].pc = "reading" /\ worker'[w].key = b /\ worker'[w].blog = "open"
    BY <2>1 DEF Downloading, At, KeyOf
  <2>2. CASE ~(worker'[w].pc = "reading" /\ worker'[w].key = b /\ worker'[w].blog = "open")
    <3>1. Partial(b) /\ (Reading(w, b) /\ worker[w].blog = "open" => stray' = stray \cup Leftover(w))
      BY <1>1, <2>2, WorkerLogs
    <3>2. Downloading(b)
      BY <1>0, <2>0, <3>1
    <3>3. stray \subseteq stray'
      BY <1>1, WorkerStrays
    <3>4. CASE \E a \in stray : a.key = b /\ a.log = "open"
      BY <3>3, <3>4 DEF Downloading
    <3>5. ASSUME NEW v \in Workers, At(v, "reading"), KeyOf(v) = b, worker[v].blog = "open"
          PROVE  Downloading(b)'
      <4>1. CASE v # w
        <5>1. worker'[v] = worker[v]
          BY <1>1, <4>1, WorkerMoves
        <5> QED BY <3>5, <5>1 DEF Downloading, At, KeyOf
      <4>2. CASE v = w
        <5>1. stray' = stray \cup Leftover(w)
          BY <3>1, <3>5, <4>2 DEF Reading
        <5>2. \E x \in Leftover(w) : x.key = b /\ x.log = "open"
          BY <3>5, <4>2, LeftoverIs
        <5> QED BY <5>1, <5>2 DEF Downloading
      <4> QED BY <4>1, <4>2
    <3> QED BY <3>2, <3>4, <3>5 DEF Downloading
  <2> QED BY <2>1, <2>2
<1>2. ASSUME NEW a \in stray, StrayStep(a), process'.restarts = 0, NEW b \in Builds, Partial(b)'
      PROVE  Downloading(b)'
  <2>0. /\ a \in StrayType /\ a.key \in Builds /\ worker' = worker /\ process' = process
        /\ blog \in [Builds -> [mtime : Nat, whole : BOOLEAN]]
    BY <1>2, StrayMoves DEF IInv, TypeOK, StrayType
  <2>1. CASE StrayCreateLog(a) /\ b = a.key
    <3> DEFINE r == [a EXCEPT !.log = "open"]
    <3>1. Becomes(a, r) /\ r.key = b /\ r.log = "open"
      BY <2>0, <2>1 DEF StrayCreateLog, StrayType
    <3> HIDE DEF r
    <3>2. r \in stray'
      BY <3>1 DEF Becomes, Running
    <3> QED BY <3>1, <3>2 DEF Downloading
  <2>2. CASE ~(StrayCreateLog(a) /\ b = a.key)
    <3>1. ~((StrayCopyLog(a) \/ StrayRemovesLog(a)) /\ b = a.key)
      BY <1>2, <2>0 DEF StrayCopyLog, StrayRemovesLog, Partial, NoLog
    <3>2. blog'[b] = blog[b]
      BY <1>2, <2>0, <2>2, <3>1 DEF StrayStep, StrayAddSuites, StrayStopsAdding, StrayCreateLog,
                  StrayWantsNoLog, StrayCopyLog, StrayRemovesLog, diskVars
    <3>3. Downloading(b)
      BY <1>0, <1>2, <2>0, <3>2 DEF Partial
    <3>4. PICK r : /\ r.key = a.key /\ Becomes(a, r)
                   /\ a.log = "open" => r.log = "open" \/ StrayCopyLog(a) \/ StrayRemovesLog(a)
      BY <1>2, StrayMoves
    <3>5. CASE \E w \in Workers : At(w, "reading") /\ KeyOf(w) = b /\ worker[w].blog = "open"
      BY <2>0, <3>5 DEF Downloading, At, KeyOf
    <3>6. ASSUME NEW c \in stray, c.key = b, c.log = "open" PROVE Downloading(b)'
      <4>1. CASE c # a
        BY <3>4, <3>6, <4>1 DEF Becomes, Downloading
      <4>2. CASE c = a
        <5>1. r.log = "open" /\ r.key = b
          BY <3>1, <3>4, <3>6, <4>2
        <5>2. r \in stray'
          BY <3>4, <5>1 DEF Becomes, Running
        <5> QED BY <5>1, <5>2 DEF Downloading
      <4> QED BY <4>1, <4>2
    <3> QED BY <3>3, <3>5, <3>6 DEF Downloading
  <2> QED BY <2>1, <2>2
<1>3. CASE Crash
  <2>1. process'.restarts = process.restarts + 1 /\ process.restarts \in Nat
    BY <1>3 DEF Crash, IInv, TypeOK
  <2> QED BY <1>0, <2>1
<1>4. CASE Elsewhere /\ (Tick \/ (\E b \in Builds : BuildStep(b)) \/ UNCHANGED vars)
  <2>1. CASE blog' = blog
    BY <1>4, <2>1 DEF Elsewhere, PartialLogOnlyWhileDownloading, At, KeyOf
  <2>2. ASSUME NEW b \in Builds, ExpireLog(b) PROVE PartialLogOnlyWhileDownloading'
    <3>1. blog'[b].mtime = Absent /\ \A c \in Builds \ {b} : blog'[c] = blog[c]
      BY <2>2 DEF IInv, TypeOK, ExpireLog, NoLog
    <3> QED BY <1>4, <3>1 DEF Elsewhere, PartialLogOnlyWhileDownloading, At, KeyOf
  <2> QED BY <1>4, <2>1, <2>2 DEF Tick, BuildStep, Upload, AddFunc, UpdateFunc, Delisted,
                                  RetryReady, ExpireJunit, diskVars, vars
<1> QED BY <1>0, <1>1, <1>2, <1>3, <1>4, Steps

-----------------------------------------------------------------------------
\* Only a build that has ended is queued.
LEMMA NextEnded == ASSUME IInv, Ended, [Next]_vars PROVE Ended'
<1>0. /\ q \in QueueType(Builds) /\ QueueOrdered(q) /\ now \in Nat /\ TypeOK
      /\ \A b \in Builds : Job[b].completion \in Nat
  BY JobAssumption DEF IInv, TypeOK, OneWorkerPerBuild, JobInfo
<1>1. Held(q) \subseteq Builds
  BY <1>0 DEF Held, QueueType
<1>2. CASE Held(q') \subseteq Held(q) /\ now' = now
  BY <1>2 DEF Ended
<1>3. CASE Tick
  <2>1. q' = q /\ now' = now + 1
    BY <1>3 DEF Tick, queueVars
  <2> QED BY <1>0, <1>1, <2>1 DEF Ended
<1>4. ASSUME NEW b \in Builds, AddFunc(b) \/ UpdateFunc(b) PROVE Ended'
  <2>1. now' = now /\ (q' = q \/ (q' = Add(q, b) /\ Job[b].completion =< now))
    BY <1>0, <1>4 DEF AddFunc, UpdateFunc, FilterFunc
  <2>2. Held(Add(q, b)) = Held(q) \cup {b}
    BY <1>0, AddType DEF Held
  <2> QED BY <2>1, <2>2 DEF Ended
<1>5. ASSUME NEW b \in Builds, RetryReady(b) PROVE Held(q') \subseteq Held(q) /\ now' = now
  BY <1>0, <1>5, ReadyOK DEF RetryReady, Held
<1>6. ASSUME NEW w \in Workers, WorkerStep(w) PROVE Held(q') \subseteq Held(q) /\ now' = now
  <2>1. CASE Take(w) \/ Discard(w)
    <3> DEFINE b == Head(q.queue)  g == Get(q)
    <3>1. /\ b \in Builds /\ g \in QueueType(Builds) /\ g.processing = q.processing \cup {b}
          /\ g.waiting = q.waiting /\ g.dirty = q.dirty \ {b}
      BY <1>0, <2>1, GetOK DEF Take, Discard
    <3>2. b \in q.dirty
      <4>1. q.queue \in Seq(Builds) /\ q.queue # << >>
        BY <1>0, <2>1 DEF QueueType, Take, Discard, CanGet
      <4>2. b = q.queue[1] /\ 1 \in 1..Len(q.queue)
        BY <4>1
      <4> QED BY <1>0, <4>2 DEF QueueOrdered
    <3>3. CASE Take(w)
      BY <3>1, <3>2, <3>3 DEF Take, Held
    <3>4. CASE Discard(w)
      <4>1. q' = Done(Forget(g, b), b) /\ now' = now
        BY <3>4 DEF Discard
      <4> HIDE DEF g, b
      <4> DEFINE f == Forget(g, b)
      <4>2. /\ f \in QueueType(Builds) /\ f.processing = g.processing
            /\ f.waiting = g.waiting /\ f.dirty = g.dirty
        BY <3>1, ForgetOK
      <4> HIDE DEF f
      <4>3. /\ Done(f, b).processing = f.processing \ {b} /\ Done(f, b).waiting = f.waiting
            /\ Done(f, b).dirty = f.dirty
        BY <3>1, <4>2, DoneType
      <4> QED BY <3>1, <3>2, <4>1, <4>2, <4>3 DEF Held, f
    <3> QED BY <2>1, <3>3, <3>4
  <2>2. CASE NoJob(w) \/ IgnoreURL(w) \/ UpToDate(w) \/ MarkCompleted(w)
    <3>1. KeyOf(w) \in Builds
      BY <1>0, <2>2, Busy DEF NoJob, IgnoreURL, UpToDate, MarkCompleted, At
    <3>2. q' = Done(q, KeyOf(w)) /\ now' = now
      BY <2>2 DEF NoJob, IgnoreURL, UpToDate, MarkCompleted, Release
    <3> QED BY <1>0, <3>1, <3>2, DoneType DEF Held
  <2>3. CASE InvalidURL(w) \/ ReadFailed(w)
    <3>1. ~At(w, "idle") /\ WriteFailed(w) /\ now' = now
      BY <2>3 DEF InvalidURL, ReadFailed, At
    <3>2. PICK b \in Builds : b = KeyOf(w)
      BY <1>0, <3>1, Busy
    <3>3. b \in q.processing
      BY <3>1, <3>2 DEF IInv, OneWorkerPerBuild
    <3>4. /\ Forget(q, b) \in QueueType(Builds) /\ Forget(q, b).processing = q.processing
          /\ Forget(q, b).dirty = q.dirty /\ Forget(q, b).waiting = q.waiting
      BY <1>0, ForgetOK
    <3>5. /\ AddRateLimited(q, b) \in QueueType(Builds)
          /\ AddRateLimited(q, b).processing = q.processing
          /\ AddRateLimited(q, b).dirty = q.dirty /\ AddRateLimited(q, b).waiting = q.waiting \cup {b}
      BY <1>0, AddRateLimitedOK
    <3>6. PICK r \in {Forget(q, b), AddRateLimited(q, b)} : q' = Done(r, b)
      BY <3>1, <3>2 DEF WriteFailed
    <3>7. /\ r \in QueueType(Builds) /\ r.processing = q.processing /\ r.dirty = q.dirty
          /\ r.waiting \subseteq q.waiting \cup {b}
      BY <3>4, <3>5, <3>6
    <3>8. Held(q') = r.waiting \cup r.dirty \cup (r.processing \ {b})
      BY <3>6, <3>7, DoneType DEF Held
    <3> QED BY <3>1, <3>3, <3>7, <3>8 DEF Held
  <2>4. CASE \/ NewAccumulator(w) \/ (\E s \in Suites : AddSuites(w, s)) \/ AddMetadata(w)
             \/ CreateLog(w) \/ CopyLog(w) \/ Finished(w) \/ FinishedLate(w)
             \/ Unfinished(w) \/ Hang(w)
    BY <2>4 DEF NewAccumulator, AddSuites, AddMetadata, CreateLog, CopyLog, Finished,
                FinishedLate, Unfinished, Hang
  <2> QED BY <1>6, <2>1, <2>2, <2>3, <2>4 DEF WorkerStep
<1>7. ASSUME NEW a \in stray, StrayStep(a) PROVE q' = q /\ now' = now
  BY <1>7, StrayMoves
<1>8. CASE Crash
  <2>1. Held(q') = {}
    BY <1>8 DEF Crash, NewQueue, Held
  <2> QED BY <2>1 DEF Ended
<1>9. ASSUME NEW b \in Builds, Upload(b) \/ Delisted(b) \/ ExpireJunit(b) \/ ExpireLog(b)
      PROVE  q' = q /\ now' = now
  BY <1>9 DEF Upload, Delisted, ExpireJunit, ExpireLog, queueVars
<1>10. CASE UNCHANGED vars
  BY <1>10 DEF vars, Ended
<1> QED BY <1>2, <1>3, <1>4, <1>5, <1>6, <1>7, <1>8, <1>9, <1>10 DEF Next, BuildStep

-----------------------------------------------------------------------------
\* A step that touches neither the files of b nor the workers on it.
LEMMA ProgressFrame ==
    ASSUME NEW b \in Builds, Progress(b),
           junit'[b] = junit[b], blog'[b] = blog[b], dir'[b] = dir[b], outcome'[b] = outcome[b],
           \A v \in Workers : worker'[v] = worker[v] \/ (KeyOf(v) # b /\ worker'[v].key # b)
                              \/ (KeyOf(v) # b /\ worker'[v].pc \in {"idle", "taken"})
    PROVE  Progress(b)'
<1>1. Complete(b) <=> Complete(b)'
  BY DEF Complete
<1>2. Untouched(b) <=> Untouched(b)'
  BY DEF Untouched
<1>3. Aged(b) <=> Aged(b)'
  BY DEF Aged
<1>4. \A v \in Workers : Reading(v, b)' => Reading(v, b) /\ worker'[v] = worker[v]
  BY DEF Reading, At, KeyOf
<1>5. \A v \in Workers : Reading(v, b) => Reading(v, b)'
  BY DEF Reading, At, KeyOf
<1>6. \A v \in Workers : Reading(v, b)' => FirstAttempt(v, b)' \/ Again(v, b)'
  BY <1>1, <1>4 DEF Progress, FirstAttempt, Again
<1>7. \A v \in Workers : KeyOf(v)' = b => ~At(v, "hung")' /\ (At(v, "completing")' => Complete(b)')
  BY <1>1 DEF Progress, At, KeyOf
<1> QED BY <1>1, <1>2, <1>3, <1>5, <1>6, <1>7 DEF Progress

\* A worker begins or goes on with b.
LEMMA ProgressReading ==
    ASSUME NEW b \in Builds, NEW w \in Workers,
           \A v \in Workers \ {w} : worker'[v].key # b,
           worker'[w].pc = "reading", worker'[w].key = b, Aged(b)',
           FirstAttempt(w, b)' \/ Again(w, b)'
    PROVE  Progress(b)'
<1>1. Reading(w, b)' /\ \A v \in Workers : (KeyOf(v) = b)' => v = w
  BY DEF Reading, At, KeyOf
<1>2. (outcome[b] \in {"ok", "uptodate"} => Complete(b))'
  BY DEF FirstAttempt, Again
<1>3. ~At(w, "hung")' /\ ~At(w, "completing")'
  BY DEF At
<1>4. \A v \in Workers : Reading(v, b)' => v = w
  BY <1>1 DEF Reading
<1> QED BY <1>1, <1>2, <1>3, <1>4 DEF Progress

\* A worker is done with b, or has only to stamp the completion time.
LEMMA ProgressEnded ==
    ASSUME NEW b \in Builds, NEW w \in Workers,
           \A v \in Workers \ {w} : worker'[v].key # b,
           worker'[w].pc \in {"idle", "completing"}, Aged(b)',
           Complete(b)' \/ (worker'[w].pc = "idle" /\ Untouched(b)'),
           outcome'[b] \in {"ok", "uptodate"} => Complete(b)'
    PROVE  Progress(b)'
<1>1. \A v \in Workers : ~Reading(v, b)'
  BY DEF Reading, At, KeyOf
<1>2. \A v \in Workers : KeyOf(v)' = b => ~At(v, "hung")' /\ (At(v, "completing")' => Complete(b)')
  BY DEF At, KeyOf
<1> QED BY <1>1, <1>2 DEF Progress

\* A worker's step leaves the other builds alone.
LEMMA OtherBuilds ==
    ASSUME IInv, NEW w \in Workers, WorkerStep(w), NEW b \in Builds, b # KeyOf(w)
    PROVE  /\ junit'[b] = junit[b] /\ blog'[b] = blog[b] /\ dir'[b] = dir[b]
           /\ outcome'[b] = outcome[b]
           /\ worker'[w].key # b \/ worker'[w].pc \in {"idle", "taken"}
<1>0. /\ TypeOK /\ worker \in [Workers -> WorkerType] /\ worker[w] \in WorkerType
      /\ blog \in [Builds -> [mtime : Nat, whole : BOOLEAN]] /\ dir \in [Builds -> Nat]
      /\ junit \in [Builds -> [mtime : Nat, entries : [Suites -> Nat]]]
      /\ outcome \in [Builds -> {"none", "nothing", "ok", "uptodate", "failed", "gaveup"}]
  BY DEF IInv, TypeOK
<1>1. CASE Take(w) \/ Discard(w)
  <2>1. worker'[w].pc \in {"idle", "taken"}
    BY <1>0, <1>1 DEF Take, Discard, At, Idle
  <2> QED BY <1>1, <2>1 DEF Take, Discard, diskVars, histVars
<1>2. CASE NoJob(w) \/ IgnoreURL(w) \/ UpToDate(w) \/ MarkCompleted(w) \/ InvalidURL(w) \/ ReadFailed(w)
  <2>1. worker' = [worker EXCEPT ![w] = Idle]
    BY <1>2 DEF NoJob, IgnoreURL, UpToDate, MarkCompleted, InvalidURL, ReadFailed, Release, WriteFailed
  <2>2. worker'[w].pc = "idle"
    BY <1>0, <2>1 DEF Idle
  <2>3. outcome'[b] = outcome[b]
    BY <1>0, <1>2 DEF NoJob, IgnoreURL, UpToDate, MarkCompleted, InvalidURL, ReadFailed, Release,
                      WriteFailed
  <2>4. junit'[b] = junit[b] /\ blog'[b] = blog[b] /\ dir'[b] = dir[b]
    BY <1>0, <1>2 DEF NoJob, IgnoreURL, UpToDate, MarkCompleted, InvalidURL, ReadFailed, diskVars
  <2> QED BY <2>2, <2>3, <2>4
<1>3. CASE NewAccumulator(w)
  BY <1>3, AccumulatorIs
<1>4. ASSUME NEW s \in Suites, AddSuites(w, s)
      PROVE  /\ junit'[b] = junit[b] /\ blog'[b] = blog[b] /\ dir'[b] = dir[b]
             /\ outcome'[b] = outcome[b] /\ worker'[w].key # b
  <2>1. KeyOf(w) \in Builds
    BY <1>0, <1>4, Busy DEF AddSuites, At
  <2>2. worker'[w].key # b /\ outcome' = outcome /\ blog' = blog
    BY <1>0, <1>4 DEF AddSuites, WorkerType, KeyOf, histVars
  <2>3. CASE worker[w].junit
    BY <1>4, <2>2, <2>3 DEF AddSuites
  <2>4. CASE ~worker[w].junit
    <3>1. AppendSuite(KeyOf(w), s)
      BY <1>4, <2>4 DEF AddSuites
    <3>2. dir'[b] = dir[b]
      BY <1>0, <3>1 DEF AppendSuite
    <3>3. junit'[b] = junit[b]
      BY <2>1, <3>1, SuiteAppendIs
    <3> QED BY <2>2, <3>2, <3>3
  <2> QED BY <2>3, <2>4
<1>5. CASE AddMetadata(w) \/ CreateLog(w) \/ CopyLog(w)
  <2>1. worker'[w].key # b
    BY <1>0, <1>5 DEF AddMetadata, CreateLog, CopyLog, WorkerType, KeyOf
  <2>2. outcome' = outcome /\ junit' = junit /\ blog'[b] = blog[b] /\ dir'[b] = dir[b]
    BY <1>0, <1>5 DEF AddMetadata, CreateLog, CopyLog, histVars
  <2> QED BY <2>1, <2>2
<1>6. CASE Finished(w) \/ FinishedLate(w)
  <2>1. PICK k \in Builds : k = KeyOf(w)
    BY <1>6, Stamped
  <2>2. PICK nj \in BOOLEAN, nl \in BOOLEAN, log \in [mtime : Nat, whole : BOOLEAN] :
           Stamp(k, nj, nl, log)
    BY <1>6, <2>1, Stamped
  <2>3. junit'[b] = junit[b] /\ blog'[b] = blog[b] /\ dir'[b] = dir[b]
    BY <1>0, <2>1, <2>2 DEF Stamp
  <2>4. worker'[w].key # b /\ outcome' = outcome
    BY <1>0, <1>6 DEF Finished, FinishedLate, WorkerType, KeyOf, histVars
  <2> QED BY <2>1, <2>3, <2>4
<1>7. CASE Unfinished(w) \/ Hang(w)
  <2>1. worker'[w].key # b
    BY <1>0, <1>7 DEF Unfinished, Hang, WorkerType, KeyOf
  <2> QED BY <1>7, <2>1 DEF Unfinished, Hang, diskVars
<1> QED BY <1>1, <1>2, <1>3, <1>4, <1>5, <1>6, <1>7 DEF WorkerStep

\* What being complete means for an attempt that begins.
LEMMA CompleteFound ==
    ASSUME NEW b \in Builds, Complete(b)
    PROVE  /\ junit[b].mtime # Absent \/ Job[b].suites = {}
           /\ blog[b].mtime # Absent \/ Job[b].succeeded
<1>1. Job[b].finish # 0
  BY JobAssumption DEF JobInfo
<1> QED BY <1>1 DEF Complete, Absent

\* A worker's step on its own build.
LEMMA OwnBuild ==
    ASSUME IInv, Downloads, Ended, NEW w \in Workers, WorkerStep(w), NEW b \in Builds, b = KeyOf(w),
           b \notin troubled', Progress(b)
    PROVE  Progress(b)'
<1>0. /\ TypeOK /\ worker \in [Workers -> WorkerType] /\ worker[w] \in WorkerType
      /\ blog \in [Builds -> [mtime : Nat, whole : BOOLEAN]] /\ dir \in [Builds -> Nat]
      /\ junit \in [Builds -> [mtime : Nat, entries : [Suites -> Nat]]]
      /\ outcome \in [Builds -> {"none", "nothing", "ok", "uptodate", "failed", "gaveup"}]
      /\ Job[b] \in JobInfo /\ now \in Nat \ {0}
  BY JobAssumption DEF IInv, TypeOK
<1>1. ~At(w, "idle")
  BY <1>0, NoBuildAssumption DEF TypeOK
<1>2. \A v \in Workers \ {w} : worker'[v] = worker[v] /\ worker[v].key # b /\ worker'[v].key # b
  BY <1>1, WorkerMoves DEF IInv, OneWorkerPerBuild, KeyOf
<1>3. Job[b].finish =< now
  <2>1. b \in Held(q)
    BY <1>1 DEF IInv, OneWorkerPerBuild, Held
  <2>2. Job[b].completion =< now /\ Job[b].finish =< Job[b].completion
    BY <2>1, CompletionAssumption DEF Ended
  <2> QED BY <1>0, <2>2 DEF JobInfo
<1>4. Job[b].finish \in Nat /\ Job[b].finish # Absent /\ now # Absent
  BY <1>0 DEF JobInfo, Absent
<1>a. At(w, "reading") => FirstAttempt(w, b) \/ Again(w, b)
  BY DEF Progress, Reading
<1>b. ~At(w, "reading") => Untouched(b) \/ Complete(b)
  BY <1>2 DEF Progress, Reading, KeyOf
<1>c. Aged(b)
  BY DEF Progress
<1>5. CASE Take(w) \/ Discard(w)
  BY <1>1, <1>5 DEF Take, Discard
<1>6. CASE NoJob(w) \/ IgnoreURL(w) \/ UpToDate(w) \/ InvalidURL(w)
  <2>1. /\ worker' = [worker EXCEPT ![w] = Idle] /\ At(w, "taken")
        /\ UNCHANGED <<dir, junit, blog>>
    BY <1>6 DEF NoJob, IgnoreURL, UpToDate, InvalidURL, Release, WriteFailed, diskVars
  <2>2. worker'[w].pc = "idle"
    BY <1>0, <2>1 DEF Idle
  <2>3. Untouched(b)' \/ Complete(b)'
    BY <1>b, <2>1 DEF At, Untouched, Complete
  <2>4. outcome'[b] \in {"ok", "uptodate"} => UpToDate(w)
    BY <1>0, <1>6 DEF NoJob, IgnoreURL, InvalidURL, Release, WriteFailed
  <2>5. UpToDate(w) => ~Untouched(b)'
    BY <2>1 DEF UpToDate, Stale, Untouched
  <2>6. Aged(b)'
    BY <1>c, <2>1 DEF Aged
  <2> QED BY <1>2, <2>2, <2>3, <2>4, <2>5, <2>6, ProgressEnded
<1>7. CASE NewAccumulator(w)
  <2>1. /\ worker'[w].pc = "reading" /\ worker'[w].key = b
        /\ worker'[w].junit = (junit[b].mtime # Absent) /\ worker'[w].log = (blog[b].mtime # Absent)
        /\ worker'[w].todo = Job[b].suites /\ worker'[w].blog = "no"
        /\ UNCHANGED <<dir, junit, blog, outcome>>
    <3>1. worker'[w].pc = "reading"
      BY <1>0, <1>7 DEF NewAccumulator, Idle
    <3> QED BY <1>7, <3>1, AccumulatorIs
  <2>2. Aged(b)' /\ (Complete(b) <=> Complete(b)')
    BY <1>c, <2>1 DEF Aged, Complete
  <2>3. CASE Complete(b)
    <3>1. Again(w, b)'
      BY <2>1, <2>2, <2>3, CompleteFound DEF Again
    <3> QED BY <1>2, <2>1, <2>2, <3>1, ProgressReading
  <2>4. CASE ~Complete(b)
    <3>1. Untouched(b) /\ outcome[b] \notin {"ok", "uptodate"}
      BY <1>b, <1>7, <2>4 DEF NewAccumulator, At, Progress
    <3>2. /\ ~worker'[w].junit /\ ~worker'[w].log
          /\ \A s \in Suites : junit'[b].entries[s] = 0
      <4>1. junit[b] = NoJunit /\ blog[b] = NoLog
        BY <3>1 DEF Untouched
      <4>2. NoJunit.mtime = Absent /\ NoLog.mtime = Absent /\ \A s \in Suites : NoJunit.entries[s] = 0
        BY DEF NoJunit, NoLog
      <4>3. junit[b].mtime = Absent /\ blog[b].mtime = Absent
        BY <4>1, <4>2
      <4>4. \A s \in Suites : junit'[b].entries[s] = 0
        BY <2>1, <4>1, <4>2
      <4> QED BY <2>1, <4>3, <4>4
    <3>3. FirstAttempt(w, b)'
      BY <2>1, <3>1, <3>2 DEF FirstAttempt
    <3> QED BY <1>2, <2>1, <2>2, <3>3, ProgressReading
  <2> QED BY <2>3, <2>4
<1>8. ASSUME NEW s \in Suites, AddSuites(w, s) PROVE Progress(b)'
  <2>1. /\ worker'[w].pc = "reading" /\ worker'[w].key = b
        /\ worker'[w].junit = worker[w].junit /\ worker'[w].log = worker[w].log
        /\ worker'[w].todo = worker[w].todo \ {s} /\ worker'[w].blog = worker[w].blog
    BY <1>0, <1>8 DEF AddSuites, At, KeyOf, WorkerType
  <2>2. blog' = blog /\ outcome' = outcome /\ s \in worker[w].todo
    BY <1>8 DEF AddSuites, histVars
  <2>3. CASE worker[w].junit
    <3>1. junit' = junit
      BY <1>8, <2>3 DEF AddSuites
    <3>2. Again(w, b)
      BY <1>8, <1>a, <2>3 DEF AddSuites, FirstAttempt
    <3>3. Again(w, b)' /\ Aged(b)'
      BY <1>c, <2>1, <2>2, <2>3, <3>1, <3>2 DEF Again, Complete, Aged
    <3> QED BY <1>2, <2>1, <3>3, ProgressReading
  <2>4. CASE ~worker[w].junit
    <3>1. AppendSuite(b, s)
      BY <1>8, <2>4 DEF AddSuites
    <3>2. /\ junit'[b].mtime = now
          /\ junit'[b].entries[s] = junit[b].entries[s] + 1
          /\ \A t \in Suites \ {s} : junit'[b].entries[t] = junit[b].entries[t]
      BY <3>1, SuiteAppendIs
    <3>3. FirstAttempt(w, b)
      BY <1>8, <1>a, <2>2, <2>4 DEF AddSuites, Again
    <3>4. Aged(b)'
      BY <1>3, <1>c, <2>2, <3>2 DEF Aged
    <3>5. \A t \in Suites :
             junit'[b].entries[t] = IF t \in Job[b].suites \ worker'[w].todo THEN 1 ELSE 0
      BY <2>1, <2>2, <3>2, <3>3 DEF FirstAttempt
    <3>6. FirstAttempt(w, b)'
      BY <1>4, <2>1, <2>2, <3>2, <3>3, <3>5 DEF FirstAttempt
    <3> QED BY <1>2, <2>1, <3>4, <3>6, ProgressReading
  <2> QED BY <2>3, <2>4
<1>9. CASE AddMetadata(w)
  <2>1. /\ worker'[w].pc = "reading" /\ worker'[w].key = b
        /\ worker'[w].junit = worker[w].junit /\ worker'[w].log = worker[w].log
        /\ worker'[w].todo = worker[w].todo /\ worker'[w].blog = worker[w].blog
    BY <1>0, <1>9 DEF AddMetadata, At, KeyOf, WorkerType
  <2>2. junit' = junit /\ blog' = blog /\ outcome' = outcome /\ At(w, "reading")
    BY <1>9 DEF AddMetadata, histVars
  <2>3. (FirstAttempt(w, b)' \/ Again(w, b)') /\ Aged(b)'
    BY <1>a, <1>c, <2>1, <2>2 DEF FirstAttempt, Again, Complete, Aged
  <2> QED BY <1>2, <2>1, <2>3, ProgressReading
<1>10. CASE CreateLog(w) \/ CopyLog(w)
  <2>1. /\ worker'[w].pc = "reading" /\ worker'[w].key = b
        /\ worker'[w].junit = worker[w].junit /\ worker'[w].log = worker[w].log
        /\ worker'[w].todo = worker[w].todo
        /\ worker'[w].blog = IF CreateLog(w) THEN "open" ELSE "done"
    BY <1>0, <1>10 DEF CreateLog, CopyLog, At, KeyOf, WorkerType
  <2>2. junit' = junit /\ outcome' = outcome /\ At(w, "reading") /\ WantsLog(w)
    BY <1>10 DEF CreateLog, CopyLog, histVars, Downloads
  <2>3. FirstAttempt(w, b)
    BY <1>a, <2>2 DEF Again, WantsLog
  <2>4. CASE CreateLog(w)
    <3>1. blog'[b] = [mtime |-> now, whole |-> FALSE]
      BY <1>0, <2>4 DEF CreateLog
    <3>2. FirstAttempt(w, b)' /\ Aged(b)'
      BY <1>3, <1>4, <1>c, <2>1, <2>2, <2>3, <2>4, <3>1 DEF FirstAttempt, Aged
    <3> QED BY <1>2, <2>1, <3>2, ProgressReading
  <2>5. CASE CopyLog(w) /\ ~CreateLog(w)
    <3>1. worker[w].blog = "open" /\ blog[b].mtime # Absent
      BY <2>3, <2>5 DEF CopyLog, FirstAttempt
    <3>2. blog'[b] = [mtime |-> now, whole |-> TRUE]
      BY <1>0, <2>5, <3>1 DEF CopyLog
    <3>3. FirstAttempt(w, b)' /\ Aged(b)'
      BY <1>3, <1>4, <1>c, <2>1, <2>2, <2>3, <2>5, <3>2 DEF FirstAttempt, Aged
    <3> QED BY <1>2, <2>1, <3>3, ProgressReading
  <2> QED BY <1>10, <2>4, <2>5
<1>11. CASE Finished(w)
  <2>1. /\ At(w, "reading") /\ SubtasksDone(w) /\ worker'[w].pc = "completing" /\ ~FinishedLate(w)
        /\ outcome' = outcome
    BY <1>0, <1>11 DEF Finished, FinishedLate, WorkerType, histVars
  <2>2. PICK nj \in BOOLEAN, nl \in BOOLEAN, log \in [mtime : Nat, whole : BOOLEAN] :
           Stamp(b, nj, nl, log) /\ nj = ~worker[w].junit /\ nl = ~worker[w].log /\ log = blog[b]
    BY <1>11, <2>1, Stamped
  <2>3. Stamp(b, nj, nl, log)
    BY <2>2
  <2>4. /\ junit'[b].entries = junit[b].entries
        /\ nj /\ junit[b].mtime # Absent => junit'[b].mtime = Job[b].finish
        /\ ~(nj /\ junit[b].mtime # Absent) => junit'[b] = junit[b]
        /\ nl /\ log.mtime # Absent => blog'[b] = [mtime |-> Job[b].finish, whole |-> log.whole]
        /\ ~(nl /\ log.mtime # Absent) => blog'[b] = log
    BY <2>3, StampIs
  <2>5. Aged(b)'
    BY <1>4, <1>c, <2>2, <2>4 DEF Aged
  <2>6. CASE FirstAttempt(w, b)
    <3>1. nj /\ nl /\ worker[w].todo = {}
      BY <2>1, <2>2, <2>6 DEF FirstAttempt, SubtasksDone
    <3>2. \A s \in Suites : junit'[b].entries[s] = IF s \in Job[b].suites THEN 1 ELSE 0
      BY <2>4, <2>6, <3>1 DEF FirstAttempt
    <3>3. Job[b].suites # {} => junit'[b].mtime = Job[b].finish
      BY <2>4, <2>6, <3>1 DEF FirstAttempt
    <3>4. ~Job[b].succeeded => blog'[b] = [mtime |-> Job[b].finish, whole |-> TRUE]
      <4> SUFFICES ASSUME ~Job[b].succeeded PROVE blog'[b] = [mtime |-> Job[b].finish, whole |-> TRUE]
        OBVIOUS
      <4>1. worker[w].blog = "done"
        BY <2>1, <2>6 DEF SubtasksDone, WantsLog, FirstAttempt
      <4>2. log.mtime # Absent /\ log.whole
        BY <2>2, <2>6, <4>1 DEF FirstAttempt
      <4>3. log.whole = TRUE
        BY <4>2
      <4> QED BY <2>4, <3>1, <4>2, <4>3
    <3>5. Complete(b)'
      BY <3>2, <3>3, <3>4 DEF Complete
    <3> QED BY <1>2, <2>1, <2>5, <3>5, ProgressEnded
  <2>7. CASE Again(w, b)
    <3>1. Job[b].suites # {} => junit'[b].mtime = Job[b].finish
      BY <2>4, <2>7 DEF Again, Complete
    <3>2. ~Job[b].succeeded => blog'[b] = blog[b]
      BY <2>2, <2>4, <2>7 DEF Again
    <3>3. Complete(b)'
      BY <2>4, <2>7, <3>1, <3>2 DEF Again, Complete
    <3> QED BY <1>2, <2>1, <2>5, <3>3, ProgressEnded
  <2> QED BY <1>a, <2>1, <2>6, <2>7
<1>12. CASE FinishedLate(w) \/ Unfinished(w) \/ ReadFailed(w) \/ Hang(w)
  BY <1>12 DEF FinishedLate, Unfinished, ReadFailed, Hang
<1>13. CASE MarkCompleted(w)
  <2>1. /\ worker' = [worker EXCEPT ![w] = Idle] /\ At(w, "completing")
        /\ UNCHANGED <<junit, blog>>
    BY <1>13 DEF MarkCompleted, Release
  <2>2. worker'[w].pc = "idle"
    BY <1>0, <2>1 DEF Idle
  <2>3. Complete(b)
    BY <2>1 DEF Progress
  <2>4. Complete(b)' /\ Aged(b)'
    BY <1>c, <2>1, <2>3 DEF Complete, Aged
  <2> QED BY <1>2, <2>2, <2>4, ProgressEnded
<1> QED BY <1>5, <1>6, <1>7, <1>8, <1>9, <1>10, <1>11, <1>12, <1>13 DEF WorkerStep

\* Clean results stay clean.
LEMMA NextUndisturbed ==
    ASSUME IInv, Downloads, Ended, Undisturbed, [Next]_vars PROVE Undisturbed'
<1>0. /\ TypeOK /\ now \in Nat /\ MaxAge \in Nat
      /\ \A b \in Builds : Job[b].finish \in Nat \ {0}
  BY JobAssumption, BoundsAssumption DEF IInv, TypeOK, JobInfo
<1>1. ASSUME NEW w \in Workers, WorkerStep(w) PROVE Undisturbed'
  <2>1. troubled \subseteq troubled' /\ now' = now
    BY <1>1 DEF WorkerStep, Take, Discard, NoJob, IgnoreURL, InvalidURL, UpToDate, NewAccumulator,
                AddSuites, AddMetadata, CreateLog, CopyLog, Finished, FinishedLate, MarkCompleted,
                Unfinished, ReadFailed, Hang, histVars
  <2> SUFFICES ASSUME NEW b \in Builds \ troubled'
               PROVE  (\A a \in stray' : a.key # b) /\ (~Gone(b)' => Progress(b)')
    BY DEF Undisturbed
  <2>2. (\A a \in stray : a.key # b) /\ (~Gone(b) => Progress(b))
    BY <2>1 DEF Undisturbed
  <2>3. \A a \in stray' : a.key # b
    BY <1>1, <2>2, WorkerStrays, LeftoverIs
  <2>4. Gone(b) <=> Gone(b)'
    BY <2>1 DEF Gone
  <2>5. ASSUME Progress(b) PROVE Progress(b)'
    <3>1. CASE b = KeyOf(w)
      BY <1>1, <2>5, <3>1, OwnBuild
    <3>2. CASE b # KeyOf(w)
      <4>1. /\ junit'[b] = junit[b] /\ blog'[b] = blog[b] /\ dir'[b] = dir[b]
            /\ outcome'[b] = outcome[b]
            /\ worker'[w].key # b \/ worker'[w].pc \in {"idle", "taken"}
        BY <1>1, <3>2, OtherBuilds
      <4>2. \A v \in Workers \ {w} : worker'[v] = worker[v]
        BY <1>1, WorkerMoves
      <4> QED BY <2>5, <3>2, <4>1, <4>2, ProgressFrame
    <3> QED BY <3>1, <3>2
  <2> QED BY <2>2, <2>3, <2>4, <2>5
<1>2. ASSUME NEW a \in stray, StrayStep(a) PROVE Undisturbed'
  <2>0. /\ UNCHANGED <<now, worker, outcome, troubled>>
        /\ junit \in [Builds -> [mtime : Nat, entries : [Suites -> Nat]]]
        /\ blog \in [Builds -> [mtime : Nat, whole : BOOLEAN]] /\ dir \in [Builds -> Nat]
        /\ a.key \in Builds
    BY <1>2, StrayMoves DEF IInv, TypeOK, StrayType
  <2> SUFFICES ASSUME NEW b \in Builds \ troubled
               PROVE  (\A c \in stray' : c.key # b) /\ (~Gone(b)' => Progress(b)')
    BY <2>0 DEF Undisturbed
  <2>1. (\A c \in stray : c.key # b) /\ (~Gone(b) => Progress(b)) /\ b # a.key
    BY DEF Undisturbed
  <2>2. PICK r : r.key = a.key /\ Becomes(a, r)
    BY <1>2, StrayMoves
  <2>3. \A c \in stray' : c.key # b
    BY <2>1, <2>2 DEF Becomes, Running
  <2>4. junit'[b] = junit[b] /\ blog'[b] = blog[b] /\ dir'[b] = dir[b]
    <3>1. ASSUME NEW s \in Suites, StrayAddSuites(a, s)
          PROVE  junit'[b] = junit[b] /\ blog'[b] = blog[b] /\ dir'[b] = dir[b]
      BY <2>0, <2>1, <3>1 DEF StrayAddSuites, AppendSuite
    <3>2. CASE ~\E s \in Suites : StrayAddSuites(a, s)
      BY <1>2, <2>0, <2>1, <3>2 DEF StrayStep, StrayStopsAdding, StrayCreateLog, StrayWantsNoLog,
                                    StrayCopyLog, StrayRemovesLog, diskVars
    <3> QED BY <3>1, <3>2
  <2>5. Progress(b) => Progress(b)'
    BY <2>0, <2>4, ProgressFrame
  <2> QED BY <2>0, <2>1, <2>3, <2>5 DEF Gone
<1>3. CASE Crash
  <2>1. /\ UNCHANGED <<now, dir, junit, blog>> /\ stray' = {}
        /\ \A w \in Workers : worker'[w].pc = "idle"
        /\ \A b \in Builds : outcome'[b] = "none"
        /\ \A b \in Builds \ troubled' : b \notin troubled /\ \A w \in Workers : ~Reading(w, b)
    BY <1>3 DEF Crash, diskVars, Idle, Reading
  <2> SUFFICES ASSUME NEW b \in Builds \ troubled', ~Gone(b)' PROVE Progress(b)'
    BY <2>1 DEF Undisturbed
  <2>2. Progress(b)
    BY <2>1 DEF Undisturbed, Gone
  <2>3. Aged(b)' /\ (Untouched(b)' \/ Complete(b)')
    BY <2>1, <2>2 DEF Progress, Aged, Untouched, Complete
  <2>4. \A w \in Workers : ~Reading(w, b)' /\ ~At(w, "hung")' /\ ~At(w, "completing")'
    BY <2>1 DEF Reading, At
  <2> QED BY <2>1, <2>3, <2>4 DEF Progress
<1>4. CASE Elsewhere /\ (Tick \/ (\E b \in Builds : BuildStep(b)) \/ UNCHANGED vars)
  <2>0. UNCHANGED <<worker, stray, outcome, troubled>>
    BY <1>4 DEF Elsewhere
  <2>1. now' = now \/ now' = now + 1
    BY <1>4 DEF Tick, BuildStep, Upload, AddFunc, UpdateFunc, Delisted, RetryReady, ExpireJunit,
                ExpireLog, vars
  <2> SUFFICES ASSUME NEW b \in Builds \ troubled, ~Gone(b)' PROVE Progress(b)'
    BY <2>0 DEF Undisturbed
  <2>2. ~Gone(b)
    BY <1>0, <2>1 DEF Gone
  <2>3. Progress(b)
    BY <2>2 DEF Undisturbed
  <2>4. CASE UNCHANGED <<junit, blog, dir>>
    BY <2>0, <2>3, <2>4, ProgressFrame
  <2>5. ASSUME NEW c \in Builds, ExpireJunit(c) \/ ExpireLog(c) PROVE Progress(b)'
    <3>0. /\ junit \in [Builds -> [mtime : Nat, entries : [Suites -> Nat]]]
          /\ blog \in [Builds -> [mtime : Nat, whole : BOOLEAN]] /\ dir \in [Builds -> Nat]
      BY DEF IInv, TypeOK
    <3>1. c # b
      <4>1. Aged(b) /\ junit[b].mtime \in Nat /\ blog[b].mtime \in Nat /\ Job[b].finish \in Nat
        BY <1>0, <2>3, <3>0 DEF Progress
      <4>2. ~FileExpired(junit[b].mtime)
        BY <1>0, <2>2, <4>1 DEF FileExpired, Aged, Gone
      <4>3. ~FileExpired(blog[b].mtime)
        BY <1>0, <2>2, <4>1 DEF FileExpired, Aged, Gone
      <4> QED BY <2>5, <4>2, <4>3 DEF ExpireJunit, ExpireLog
    <3>2. junit'[b] = junit[b] /\ blog'[b] = blog[b] /\ dir'[b] = dir[b]
      BY <2>5, <3>0, <3>1 DEF ExpireJunit, ExpireLog
    <3> QED BY <2>0, <2>3, <3>2, ProgressFrame
  <2> QED BY <1>4, <2>4, <2>5 DEF Tick, BuildStep, Upload, AddFunc, UpdateFunc, Delisted,
                                  RetryReady, diskVars, vars
<1> QED BY <1>1, <1>2, <1>3, <1>4, Steps

-----------------------------------------------------------------------------
\* The invariant of the files.
FilesInv == Strays /\ Once /\ Downloads /\ PartialLogOnlyWhileDownloading /\ Ended /\ Undisturbed

\* It holds before anything has been downloaded.
LEMMA InitFiles == ASSUME Init PROVE FilesInv
<1>1. /\ stray = {} /\ overlapped = {} /\ troubled = {}
      /\ \A w \in Workers : worker[w].pc = "idle"
      /\ \A b \in Builds : /\ junit[b] = NoJunit /\ blog[b] = NoLog /\ dir[b] = Absent
                           /\ outcome[b] = "none"
  BY DEF Init, Idle
<1>2. Held(q) = {}
  BY DEF Init, NewQueue, Held
<1>3. \A w \in Workers, b \in Builds : ~Reading(w, b) /\ ~At(w, "reading") /\ ~At(w, "hung")
                                       /\ ~At(w, "completing")
  BY <1>1 DEF Reading, At
<1>4. Strays /\ Downloads /\ Ended
  BY <1>1, <1>2, <1>3 DEF Strays, Downloads, Ended, Reading, At
<1>5. Once
  BY <1>1, <1>3 DEF Once, NoJunit
<1>6. PartialLogOnlyWhileDownloading
  BY <1>1 DEF PartialLogOnlyWhileDownloading, NoLog
<1>7. ASSUME NEW b \in Builds PROVE Progress(b)
  <2>1. NoJunit.mtime = Absent /\ NoLog.mtime = Absent
    BY DEF NoJunit, NoLog
  <2>2. junit[b].mtime = Absent /\ blog[b].mtime = Absent
    BY <1>1, <2>1
  <2>3. Aged(b) /\ Untouched(b) /\ outcome[b] \notin {"ok", "uptodate"}
    BY <1>1, <2>2 DEF Aged, Untouched
  <2> QED BY <1>3, <2>3 DEF Progress
<1>8. Undisturbed
  BY <1>1, <1>7 DEF Undisturbed
<1> QED BY <1>4, <1>5, <1>6, <1>8 DEF FilesInv

\* Every step preserves it.
LEMMA NextFiles == ASSUME IInv, FilesInv, [Next]_vars PROVE FilesInv'
  BY NextStrays, NextOnce, NextDownloads, NextPartial, NextEnded, NextUndisturbed DEF FilesInv

\* It holds of every behaviour.
LEMMA FilesInvariance == Spec => []FilesInv
  BY InitIInv, NextIInv, InitFiles, NextFiles, PTL DEF Spec

\* AddSuites appends, and an attempt that has returned may go on appending; still
\* no suite is in junit.failures twice, whatever fails, is retried or crashes, as
\* long as no attempt begins while a goroutine of an earlier one runs.
THEOREM NoSuiteTwice == Spec => []DuplicatesOnlyFromOverlap
<1>1. FilesInv => DuplicatesOnlyFromOverlap
  BY DEF FilesInv, Once, DuplicatesOnlyFromOverlap
<1> QED BY FilesInvariance, <1>1, PTL

\* Unless the process crashed, whoever sees a truncated build-log.txt sees one that
\* is being downloaded, by a worker or by what is left of an attempt.
THEOREM NoTruncatedLogIsLeft == Spec => []PartialLogOnlyWhileDownloading
<1>1. FilesInv => PartialLogOnlyWhileDownloading
  BY DEF FilesInv
<1> QED BY FilesInvariance, <1>1, PTL

\* What the store reports as written or up to date is complete on disk until it
\* expires, if no attempt on the build met trouble: write's comparison of the
\* directory's time with the completion time is never deceived by the times that
\* AddSuites, AddMetadata and Finished leave there, nor by a crash between
\* Finished and the last stamp.
THEOREM WrittenIsComplete == Spec => []CleanBuildsAreComplete
<1>1. FilesInv => CleanBuildsAreComplete
  BY DEF FilesInv, Undisturbed, Gone, Progress, CleanBuildsAreComplete
<1> QED BY FilesInvariance, <1>1, PTL
=============================================================================

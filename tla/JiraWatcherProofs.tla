-------------------------- MODULE JiraWatcherProofs --------------------------
(***************************************************************************)
(* Proofs about JiraWatcher, for any number of issues, workers, changes,   *)
(* failures and crashes: the rows of an issue appear in the order of its   *)
(* versions, and no version that was enqueued is forgotten.                *)
(*                                                                         *)
(* The inductive invariant has five parts: the types, the queue and who    *)
(* holds its keys (HeldOnce), the order of the versions seen by the        *)
(* informer, the handlers and the table (VersionsOK), the rows about to be *)
(* written (TicketsOK), and where an enqueued version is (Kept).           *)
(***************************************************************************)
EXTENDS JiraWatcher, OperatorProofs

\* The queue's processing set is what the workers hold, each key once.
HeldOnce ==
    /\ QueueOrdered(queue)
    /\ queue.processing = {i \in Issues : Held(i)}
    /\ \A v, w \in Workers : \A i \in Issues :
          i \in worker[v].keys /\ i \in worker[w].keys => v = w
    /\ \A w \in Workers : worker[w].pc = "idle" => worker[w].keys = {}
    /\ \A w \in Workers : worker[w].pc = "collect" => worker[w].l > 0

\* Nobody has a version of an issue that is newer than the latest.
VersionsOK ==
    /\ \A i \in Issues :
          /\ lister[i] \in {0, latest[i]} /\ latest[i] <= count.changes
          /\ written[i] <= latest[i] /\ owed[i] <= latest[i]
    /\ \A n \in 1..Len(events) : events[n].new <= latest[events[n].issue]

\* A row about to be written is of a key the worker holds, and no older than the
\* latest row of that issue.
TicketsOK ==
    \A w \in Workers : worker[w].pc = "write" =>
        \A i \in Issues : worker[w].tickets[i] > 0 =>
            i \in worker[w].keys /\ written[i] <= worker[w].tickets[i]
                                 /\ worker[w].tickets[i] <= latest[i]

\* The worker will see to the version of issue i that is owed.
Takes(w, i) ==
    /\ i \in worker[w].keys
    /\ \/ worker[w].pc \in {"collect", "fetch", "failed"}
       \/ worker[w].pc = "write" /\ owed[i] <= worker[w].tickets[i]

Kept ==
    \A i \in Issues \ unparsable : ~dryRun =>
        \/ i \in queue.dirty \cup queue.waiting
        \/ owed[i] <= written[i]
        \/ \E w \in Workers : Takes(w, i)

IInv == TypeOK /\ HeldOnce /\ VersionsOK /\ TicketsOK /\ Kept
-----------------------------------------------------------------------------
\* Versions are numbers.
LEMMA VersionsNat == Versions \subseteq Nat
  BY JiraWatcherAssumption DEF Versions

\* The versions of an issue and the changes made are numbers,
LEMMA Numbers ==
    ASSUME TypeOK, NEW i \in Issues
    PROVE  /\ lister[i] \in Nat /\ latest[i] \in Nat /\ written[i] \in Nat /\ owed[i] \in Nat
           /\ count.changes \in Nat
<1>1. /\ lister[i] \in Versions /\ latest[i] \in Versions
      /\ written[i] \in Versions /\ owed[i] \in Versions
  BY DEF TypeOK
<1>2. count.changes \in Nat
  BY JiraWatcherAssumption DEF TypeOK
<1> QED BY <1>1, <1>2, VersionsNat

\* so are the versions a worker has read,
LEMMA TicketNumbers ==
    ASSUME TypeOK, NEW w \in Workers, NEW i \in Issues
    PROVE  worker[w].tickets[i] \in Nat
<1>1. worker[w] \in WorkerType
  BY DEF TypeOK
<1>2. worker[w].tickets \in [Issues -> Versions]
  BY <1>1 DEF WorkerType
<1> QED BY <1>2, JiraWatcherAssumption DEF Versions

\* and the versions in events of the informer.
LEMMA EventNumbers ==
    ASSUME TypeOK, NEW n \in 1..Len(events)
    PROVE  events[n].issue \in Issues /\ events[n].new \in Nat
<1>1. events[n] \in Event
  BY DEF TypeOK
<1> QED BY <1>1, JiraWatcherAssumption DEF Event, Versions

\* The informer hears of a change: nobody but the lister learns of it yet.
LEMMA ChangeStep ==
    ASSUME IInv, NEW i \in Issues, Change(i)
    PROVE  IInv'
<1> USE JiraWatcherAssumption
<1>0. TypeOK /\ VersionsOK
  BY DEF IInv
<1>1. /\ UNCHANGED <<queue, worker, written, owed, dryRun, unparsable>>
      /\ count' = [count EXCEPT !.changes = @ + 1]
      /\ count' \in [changes : 0..MaxChanges, faults : 0..MaxFaults, crashes : 0..MaxCrashes]
      /\ count.changes \in Nat /\ count.changes < MaxChanges /\ count'.changes = count.changes + 1
  BY DEF Change, IInv, TypeOK
<1>2. latest[i] \in Nat /\ latest[i] + 1 \in Versions /\ 0 \in Versions
  BY <1>0, <1>1, Numbers DEF VersionsOK, Versions
<1>3. /\ latest' \in [Issues -> Versions] /\ lister' \in [Issues -> Versions]
      /\ \A j \in Issues : latest[j] <= latest'[j] /\ lister'[j] \in {0, latest'[j]}
                             /\ latest'[j] <= count'.changes
  <2>1. CASE /\ latest' = [latest EXCEPT ![i] = latest[i] + 1]
             /\ lister' = [lister EXCEPT ![i] = latest[i] + 1]
    <3>1. latest' \in [Issues -> Versions] /\ lister' \in [Issues -> Versions]
      BY <1>0, <1>2, <2>1 DEF TypeOK
    <3>2. \A j \in Issues : /\ latest'[j] = IF j = i THEN latest[i] + 1 ELSE latest[j]
                            /\ lister'[j] = IF j = i THEN latest[i] + 1 ELSE lister[j]
      BY <1>0, <2>1 DEF TypeOK
    <3>3. ASSUME NEW j \in Issues
          PROVE  latest[j] <= latest'[j] /\ lister'[j] \in {0, latest'[j]} /\ latest'[j] <= count'.changes
      <4>1. latest[j] \in Nat /\ latest[j] <= count.changes /\ lister[j] \in {0, latest[j]}
        BY <1>0, Numbers DEF VersionsOK
      <4> QED BY <1>1, <3>2, <4>1
    <3> QED BY <3>1, <3>3
  <2>2. CASE latest' = latest /\ lister' \in {lister, [lister EXCEPT ![i] = 0]}
    <3>1. latest' \in [Issues -> Versions] /\ lister' \in [Issues -> Versions]
      BY <1>0, <1>2, <2>2 DEF TypeOK
    <3>2. \A j \in Issues : latest'[j] = latest[j] /\ lister'[j] \in {lister[j], 0}
      BY <1>0, <2>2 DEF TypeOK
    <3>3. ASSUME NEW j \in Issues
          PROVE  latest[j] <= latest'[j] /\ lister'[j] \in {0, latest'[j]} /\ latest'[j] <= count'.changes
      <4>1. latest[j] \in Nat /\ latest[j] <= count.changes /\ lister[j] \in {0, latest[j]}
        BY <1>0, Numbers DEF VersionsOK
      <4> QED BY <1>1, <3>2, <4>1
    <3> QED BY <3>1, <3>3
  <2> QED BY <2>1, <2>2 DEF Change
<1>4. PICK e \in Event : events' = Append(events, e) /\ e.new <= latest'[e.issue]
  <2> DEFINE ev(t, o, n) == [type |-> t, issue |-> i, old |-> o, new |-> n]
  <2>1. CASE /\ latest' = [latest EXCEPT ![i] = latest[i] + 1]
             /\ events' = Append(events, ev(IF lister[i] = 0 THEN "add" ELSE "update",
                                            lister[i], latest[i] + 1))
    <3>1. ev(IF lister[i] = 0 THEN "add" ELSE "update", lister[i], latest[i] + 1) \in Event
      BY <1>2 DEF Event, IInv, TypeOK
    <3>2. latest'[i] = latest[i] + 1
      BY <2>1 DEF IInv, TypeOK
    <3> QED BY <2>1, <3>1, <3>2, <1>3 DEF Versions
  <2>2. ASSUME NEW t \in {"update", "delete"}, events' = Append(events, ev(t, lister[i], lister[i])),
               latest' = latest
        PROVE  \E e \in Event : events' = Append(events, e) /\ e.new <= latest'[e.issue]
    <3>1. ev(t, lister[i], lister[i]) \in Event
      BY <1>0 DEF Event, TypeOK
    <3>2. lister[i] <= latest[i]
      BY <1>0, Numbers DEF VersionsOK
    <3> QED BY <2>2, <3>1, <3>2
  <2> QED BY <2>1, <2>2 DEF Change, Deliver
<1>5. /\ events' \in Seq(Event) /\ Len(events') = Len(events) + 1 /\ Len(events) \in Nat
      /\ \A n \in 1..Len(events) : events'[n] = events[n]
      /\ events'[Len(events) + 1] = e
  BY <1>4 DEF IInv, TypeOK
<1>6. TypeOK'
  BY <1>1, <1>3, <1>5 DEF IInv, TypeOK
<1>7. HeldOnce'
  BY <1>1 DEF IInv, HeldOnce, Held
<1>8. VersionsOK'
  <2>1. \A j \in Issues : written'[j] <= latest'[j] /\ owed'[j] <= latest'[j]
    <3>1. \A j \in Issues : latest'[j] \in Nat
      BY <1>0, <1>3, Numbers, VersionsNat
    <3>2. \A j \in Issues : /\ latest[j] \in Nat /\ written[j] \in Nat /\ owed[j] \in Nat
                            /\ written[j] <= latest[j] /\ owed[j] <= latest[j]
      BY <1>0, Numbers DEF VersionsOK
    <3> QED BY <1>1, <1>3, <3>1, <3>2
  <2>2. ASSUME NEW n \in 1..Len(events') PROVE events'[n].new <= latest'[events'[n].issue]
    <3>1. CASE n = Len(events) + 1
      BY <3>1, <1>4, <1>5
    <3>2. CASE n \in 1..Len(events)
      <4>1. /\ events[n].issue \in Issues /\ events[n].new \in Nat
            /\ events[n].new <= latest[events[n].issue]
        BY <1>0, <3>2, EventNumbers DEF VersionsOK
      <4>2. \A j \in Issues : latest[j] \in Nat /\ latest'[j] \in Nat
        BY <1>0, <1>3, Numbers, VersionsNat
      <4> QED BY <3>2, <4>1, <4>2, <1>3, <1>5
    <3> QED BY <3>1, <3>2, <1>5
  <2> QED BY <1>3, <2>1, <2>2 DEF VersionsOK
<1>9. TicketsOK'
  <2>1. \A j \in Issues : latest'[j] \in Nat
    BY <1>0, <1>3, Numbers, VersionsNat
  <2> QED BY <1>0, <1>1, <1>3, <2>1, Numbers, TicketNumbers DEF IInv, TicketsOK
<1>10. Kept'
  BY <1>1 DEF IInv, Kept, Takes
<1> QED BY <1>6, <1>7, <1>8, <1>9, <1>10 DEF IInv

\* A key is added to the queue, and more may be owed for it.
LEMMA Queued ==
    ASSUME IInv, NEW i \in Issues, NEW v \in Versions, v <= latest[i],
           queue' = Add(queue, i),
           owed' \in {owed, [owed EXCEPT ![i] = Newer(i, v)]},
           UNCHANGED <<lister, latest, worker, written, dryRun, unparsable, count>>
    PROVE  /\ queue' \in QueueType(Issues) /\ owed' \in [Issues -> Versions]
           /\ \A j \in Issues : owed'[j] <= latest[j]
           /\ HeldOnce' /\ Kept'
<1> USE JiraWatcherAssumption
<1>1. queue \in QueueType(Issues) /\ QueueOrdered(queue)
  BY DEF IInv, TypeOK, HeldOnce
<1>2. /\ queue' \in QueueType(Issues) /\ QueueOrdered(queue')
      /\ queue'.processing = queue.processing /\ queue'.waiting = queue.waiting
      /\ queue'.dirty = queue.dirty \cup {i}
  BY <1>1, AddType, AddOrdered
<1>3. /\ owed' \in [Issues -> Versions] /\ \A j \in Issues : owed'[j] <= latest[j]
      /\ \A j \in Issues \ {i} : owed'[j] = owed[j]
  BY DEF IInv, TypeOK, VersionsOK, Newer, Versions
<1>4. HeldOnce'
  BY <1>2 DEF IInv, HeldOnce, Held
<1>5. Kept'
  BY <1>2, <1>3 DEF IInv, Kept, Takes
<1> QED BY <1>2, <1>3, <1>4, <1>5

\* An event is handled.
LEMMA HandleStep ==
    ASSUME IInv, Handle
    PROVE  IInv'
<1> USE JiraWatcherAssumption
<1> DEFINE e == Head(events)
<1>1. /\ e \in Event /\ e.new <= latest[e.issue] /\ events' \in Seq(Event)
      /\ \A n \in 1..Len(events') : events'[n].new <= latest[events'[n].issue]
  <2>1. /\ events \in Seq(Event) /\ events # << >> /\ events' = Tail(events)
        /\ \A n \in 1..Len(events) : events[n].new <= latest[events[n].issue]
    BY DEF Handle, IInv, TypeOK, VersionsOK
  <2>2. /\ events' \in Seq(Event) /\ Len(events') = Len(events) - 1 /\ Len(events) \in Nat \ {0}
        /\ \A n \in 1..Len(events') : n + 1 \in 1..Len(events) /\ events'[n] = events[n + 1]
        /\ e = events[1] /\ e \in Event
    BY <2>1
  <2> QED BY <2>1, <2>2
<1>2. UNCHANGED <<lister, latest, worker, written, dryRun, unparsable, count>>
  BY DEF Handle
<1>3. e.issue \in Issues /\ e.new \in Versions
  BY <1>1 DEF Event
<1>4. \/ UNCHANGED <<queue, owed>>
      \/ /\ queue' = Add(queue, e.issue)
         /\ owed' \in {owed, [owed EXCEPT ![e.issue] = Newer(e.issue, e.new)]}
  BY DEF Handle, updateIssue, Enqueue
<1> HIDE DEF e
<1>5. /\ queue' \in QueueType(Issues) /\ owed' \in [Issues -> Versions]
      /\ \A j \in Issues : owed'[j] <= latest[j]
      /\ HeldOnce' /\ Kept'
  <2>1. CASE UNCHANGED <<queue, owed>>
    BY <2>1, <1>2 DEF IInv, TypeOK, VersionsOK, HeldOnce, Held, Kept, Takes
  <2> QED BY <1>1, <1>2, <1>3, <1>4, <2>1, Queued
<1>6. TypeOK'
  BY <1>1, <1>2, <1>5 DEF IInv, TypeOK
<1>7. VersionsOK' /\ TicketsOK'
  BY <1>1, <1>2, <1>5 DEF IInv, VersionsOK, TicketsOK
<1> QED BY <1>5, <1>6, <1>7 DEF IInv

\* The delay of a retry ends.
LEMMA RetryStep ==
    ASSUME IInv, NEW i \in Issues, RetryReady(i)
    PROVE  IInv'
<1>1. queue \in QueueType(Issues) /\ QueueOrdered(queue)
  BY DEF IInv, TypeOK, HeldOnce
<1>2. /\ queue' \in QueueType(Issues) /\ QueueOrdered(queue')
      /\ queue'.processing = queue.processing /\ queue'.waiting = queue.waiting \ {i}
      /\ queue'.dirty = queue.dirty \cup {i}
  BY <1>1, ReadyOK DEF RetryReady
<1>3. UNCHANGED <<lister, latest, events, worker, written, owed, dryRun, unparsable, count>>
  BY DEF RetryReady
<1>4. TypeOK' /\ VersionsOK' /\ TicketsOK'
  BY <1>2, <1>3 DEF IInv, TypeOK, VersionsOK, TicketsOK
<1>5. HeldOnce' /\ Kept'
  BY <1>2, <1>3 DEF IInv, HeldOnce, Held, Kept, Takes
<1> QED BY <1>4, <1>5 DEF IInv

-----------------------------------------------------------------------------
\* A worker that holds nothing starts a batch.
LEMMA BeginStep ==
    ASSUME IInv, NEW w \in Workers, Begin(w)
    PROVE  IInv'
<1> USE JiraWatcherAssumption
<1> DEFINE l == IF Len(queue.queue) > MaxBatch THEN MaxBatch ELSE Len(queue.queue)
           new == [Idle EXCEPT !.pc = "collect", !.l = l]
<1>0. TypeOK /\ worker \in [Workers -> WorkerType]
  BY DEF IInv, TypeOK
<1>1. l \in 1..MaxBatch
  <2>1. queue.queue \in Seq(Issues) /\ queue.queue # << >>
    BY <1>0 DEF Begin, CanGet, TypeOK, QueueType
  <2>2. Len(queue.queue) \in Nat \ {0}
    BY <2>1
  <2> QED BY <2>2
<1> HIDE DEF l
<1>2. new \in WorkerType /\ new.pc = "collect" /\ new.l > 0 /\ new.keys = {}
  <2>1. NoTickets \in [Issues -> Versions]
    BY DEF Versions, NoTickets
  <2>2. l \in 0..MaxBatch /\ l > 0
    BY <1>1
  <2> QED BY <2>1, <2>2 DEF Idle, WorkerType
<1>3. worker' = [worker EXCEPT ![w] = new] /\ worker[w].pc = "idle"
  BY DEF Begin, l
<1> HIDE DEF new
<1>4. /\ worker' \in [Workers -> WorkerType] /\ worker'[w] = new
      /\ \A v \in Workers \ {w} : worker'[v] = worker[v]
  BY <1>0, <1>2, <1>3
<1>5. UNCHANGED <<lister, latest, events, queue, written, owed, dryRun, unparsable, count>>
  BY DEF Begin
<1>6. worker[w].keys = {}
  BY <1>3 DEF IInv, HeldOnce
<1>7. TypeOK' /\ VersionsOK'
  BY <1>4, <1>5 DEF IInv, TypeOK, VersionsOK
<1>8. HeldOnce'
  <2>1. \A i \in Issues : Held(i)' = Held(i)
    BY <1>2, <1>4, <1>6 DEF Held
  <2> QED BY <1>2, <1>4, <1>5, <2>1 DEF IInv, HeldOnce
<1>9. TicketsOK'
  BY <1>2, <1>4, <1>5 DEF IInv, TicketsOK
<1>10. Kept'
  <2>1. \A i \in Issues, v \in Workers : Takes(v, i) => Takes(v, i)'
    BY <1>4, <1>5, <1>6 DEF Takes
  <2> QED BY <1>5, <2>1 DEF IInv, Kept
<1> QED BY <1>7, <1>8, <1>9, <1>10 DEF IInv

\* A worker takes a key out of the queue, or drops it there.
LEMMA CollectStep ==
    ASSUME IInv, NEW w \in Workers, Collect(w)
    PROVE  IInv'
<1> USE JiraWatcherAssumption
<1>0. /\ TypeOK /\ worker \in [Workers -> WorkerType] /\ worker[w] \in WorkerType
      /\ queue \in QueueType(Issues) /\ QueueOrdered(queue) /\ CanGet(queue)
      /\ worker[w].pc = "collect" /\ worker[w].l > 0
  BY DEF IInv, TypeOK, HeldOnce, Collect
<1>1. UNCHANGED <<lister, latest, events, written, owed, dryRun, unparsable, count>>
  BY DEF Collect
<1>2. PICK k \in Issues : k = Head(queue.queue)
  BY <1>0, GetOK
<1>3. /\ k \notin queue.processing
      /\ Get(queue) \in QueueType(Issues) /\ QueueOrdered(Get(queue))
      /\ Get(queue).processing = queue.processing \cup {k}
      /\ Get(queue).waiting = queue.waiting /\ Get(queue).dirty = queue.dirty \ {k}
  BY <1>0, <1>2, GetOK
<1>4. CASE k \in unparsable
  <2>1. queue' = Done(Forget(Get(queue), k), k) /\ UNCHANGED worker
    BY <1>2, <1>4 DEF Collect
  <2> DEFINE q == Forget(Get(queue), k)
  <2>2. /\ q \in QueueType(Issues) /\ q.processing = queue.processing \cup {k}
        /\ q.dirty = queue.dirty \ {k} /\ q.waiting = queue.waiting /\ QueueOrdered(q)
    BY <1>3, ForgetOK, OrderedFrame
  <2>20. queue' = Done(q, k)
    BY <2>1
  <2> HIDE DEF q
  <2>3. /\ queue' \in QueueType(Issues) /\ QueueOrdered(queue')
        /\ queue'.processing = queue.processing /\ queue'.waiting = queue.waiting
        /\ queue'.dirty = queue.dirty \ {k}
    <3>1. k \in q.processing
      BY <2>2
    <3>2. Done(q, k) \in QueueType(Issues) /\ Done(q, k).processing = q.processing \ {k}
          /\ Done(q, k).waiting = q.waiting /\ Done(q, k).dirty = q.dirty
      BY <2>2, DoneType
    <3>3. QueueOrdered(Done(q, k))
      BY <2>2, <3>1, DoneOrdered
    <3> QED BY <1>3, <2>2, <2>20, <3>2, <3>3
  <2>4. TypeOK' /\ VersionsOK' /\ TicketsOK'
    BY <1>1, <2>1, <2>3 DEF IInv, TypeOK, VersionsOK, TicketsOK
  <2>5. HeldOnce'
    BY <2>1, <2>3 DEF IInv, HeldOnce, Held
  <2>6. Kept'
    BY <1>1, <1>4, <2>1, <2>3 DEF IInv, Kept, Takes
  <2> QED BY <2>4, <2>5, <2>6 DEF IInv
<1>5. CASE k \notin unparsable
  <2> DEFINE r == worker[w]
             l == worker[w].l - 1
             keys == worker[w].keys \cup {k}
             pc == IF worker[w].l = 1 THEN "fetch" ELSE "collect"
             new == [r EXCEPT !.l = l, !.keys = keys, !.pc = pc]
  <2>1. queue' = Get(queue) /\ worker' = [worker EXCEPT ![w] = new]
    BY <1>2, <1>5 DEF Collect
  <2>2. /\ new \in WorkerType /\ new.keys = worker[w].keys \cup {k}
        /\ new.pc \in {"collect", "fetch"} /\ (new.pc = "collect" => new.l > 0)
    <3>1. worker[w].l \in 1..MaxBatch
      BY <1>0 DEF WorkerType
    <3>2. l \in 0..MaxBatch /\ pc \in {"collect", "fetch"} /\ (pc = "collect" => l > 0)
      BY <3>1
    <3>3. r \in WorkerType /\ keys \in SUBSET Issues
      BY <1>0 DEF WorkerType
    <3> HIDE DEF r, l, keys, pc
    <3>4. new \in WorkerType /\ new.l = l /\ new.keys = keys /\ new.pc = pc
      BY <3>2, <3>3 DEF WorkerType
    <3> QED BY <3>2, <3>4 DEF keys
  <2> HIDE DEF r, l, keys, pc
  <2> HIDE DEF new
  <2>3. /\ worker' \in [Workers -> WorkerType] /\ worker'[w] = new
        /\ \A v \in Workers \ {w} : worker'[v] = worker[v]
    BY <1>0, <2>1, <2>2
  <2>4. TypeOK' /\ VersionsOK'
    BY <1>1, <1>3, <2>1, <2>3 DEF IInv, TypeOK, VersionsOK
  <2>5. HeldOnce'
    <3>1. \A i \in Issues : Held(i)' <=> Held(i) \/ i = k
      BY <2>2, <2>3 DEF Held
    <3>2. queue'.processing = {i \in Issues : Held(i)'} /\ QueueOrdered(queue')
      BY <1>3, <2>1, <3>1 DEF IInv, HeldOnce
    <3>3. \A v \in Workers : k \notin worker[v].keys
      BY <1>3 DEF IInv, HeldOnce, Held
    <3>4. ASSUME NEW u \in Workers, NEW v \in Workers, NEW i \in Issues,
                 i \in worker'[u].keys, i \in worker'[v].keys
          PROVE  u = v
      BY <2>2, <2>3, <3>3, <3>4 DEF IInv, HeldOnce
    <3>5. \A v \in Workers : (worker'[v].pc = "idle" => worker'[v].keys = {}) /\
                             (worker'[v].pc = "collect" => worker'[v].l > 0)
      BY <2>2, <2>3 DEF IInv, HeldOnce
    <3> QED BY <3>2, <3>4, <3>5 DEF HeldOnce
  <2>6. TicketsOK'
    BY <1>1, <2>2, <2>3 DEF IInv, TicketsOK
  <2>7. Kept'
    <3>1. \A i \in Issues, v \in Workers : Takes(v, i) => Takes(v, i)'
      BY <1>1, <2>2, <2>3 DEF Takes
    <3>2. Takes(w, k)'
      BY <2>2, <2>3 DEF Takes
    <3> QED BY <1>1, <1>3, <2>1, <3>1, <3>2 DEF IInv, Kept
  <2> QED BY <2>4, <2>5, <2>6, <2>7 DEF IInv
<1> QED BY <1>4, <1>5

\* A worker goes on with the keys it holds.
LEMMA SameKeys ==
    ASSUME IInv, NEW w \in Workers, NEW new \in WorkerType,
           worker' = [worker EXCEPT ![w] = new], UNCHANGED queue,
           new.keys = worker[w].keys, new.pc \notin {"idle", "collect"}
    PROVE  /\ worker' \in [Workers -> WorkerType]
           /\ worker'[w] = new /\ \A v \in Workers \ {w} : worker'[v] = worker[v]
           /\ HeldOnce'
<1>1. worker \in [Workers -> WorkerType]
  BY DEF IInv, TypeOK
<1>2. /\ worker' \in [Workers -> WorkerType]
      /\ worker'[w] = new /\ \A v \in Workers \ {w} : worker'[v] = worker[v]
  BY <1>1
<1>3. \A v \in Workers : worker'[v].keys = worker[v].keys
  BY <1>2
<1>4. \A v \in Workers : worker'[v].pc \in {"idle", "collect"} => worker'[v] = worker[v]
  BY <1>2
<1>5. \A i \in Issues : Held(i)' <=> Held(i)
  BY <1>3 DEF Held
<1>6. HeldOnce'
  BY <1>3, <1>4, <1>5 DEF IInv, HeldOnce
<1> QED BY <1>2, <1>6

\* The comments arrive: the rows are the lister's versions, which are the latest,
\* and cover what is owed; nothing is owed for an issue that is gone or
\* that the answer lacks.
LEMMA FetchStep ==
    ASSUME IInv, NEW w \in Workers, Fetch(w) \/ FetchOmits(w)
    PROVE  IInv'
<1> USE JiraWatcherAssumption
<1>a. PICK got \in SUBSET worker[w].keys : Fetched(w, got)
  BY DEF Fetch, FetchOmits
<1>b. /\ count' \in [changes : 0..MaxChanges, faults : 0..MaxFaults, crashes : 0..MaxCrashes]
      /\ count'.changes = count.changes
  BY DEF Fetch, FetchOmits, IInv, TypeOK
<1> DEFINE r == worker[w]
           t == [i \in Issues |-> IF i \in got THEN lister[i] ELSE 0]
           rows == \E i \in Issues : t[i] > 0
           pc == IF rows /\ ~dryRun THEN "write" ELSE "done"
           new == [r EXCEPT !.tickets = t, !.pc = pc]
<1>1. /\ worker' = [worker EXCEPT ![w] = new]
      /\ owed' = [i \in Issues |-> IF i \in worker[w].keys /\ t[i] = 0 THEN 0 ELSE owed[i]]
      /\ worker[w].pc = "fetch"
      /\ UNCHANGED <<lister, latest, events, queue, written, dryRun, unparsable>>
  BY <1>a DEF Fetched
<1>2. r \in WorkerType /\ TypeOK /\ VersionsOK
  BY DEF IInv, TypeOK
<1>3. 0 \in Versions /\ t \in [Issues -> Versions]
  BY <1>2 DEF Versions, TypeOK
<1>4. pc \in {"write", "done"} /\ (pc = "done" => dryRun \/ ~rows)
  BY <1>2 DEF TypeOK
<1>5. new \in WorkerType /\ new.keys = worker[w].keys /\ new.pc = pc /\ new.tickets = t
  <2> HIDE DEF t, pc
  <2>1. r.keys = worker[w].keys
    OBVIOUS
  <2> HIDE DEF r
  <2> QED BY <1>2, <1>3, <1>4, <2>1 DEF WorkerType
<1>6. \A i \in Issues : /\ t[i] = IF i \in got THEN lister[i] ELSE 0
                        /\ owed'[i] = IF i \in worker[w].keys /\ t[i] = 0 THEN 0 ELSE owed[i]
  BY <1>1
<1> HIDE DEF r, t, pc, new
<1>7. /\ worker' \in [Workers -> WorkerType]
      /\ worker'[w] = new /\ \A v \in Workers \ {w} : worker'[v] = worker[v]
      /\ HeldOnce'
  BY <1>1, <1>4, <1>5, SameKeys
<1>8. owed' \in [Issues -> Versions]
  BY <1>1, <1>2, <1>3 DEF TypeOK
<1>9. TypeOK'
  BY <1>1, <1>7, <1>8, <1>b DEF IInv, TypeOK
<1>10. \A i \in Issues : owed'[i] <= latest[i]
  BY <1>2, <1>6, Numbers DEF VersionsOK
<1>11. VersionsOK'
  BY <1>1, <1>10, <1>b DEF IInv, VersionsOK
<1>12. TicketsOK'
  <2>1. ASSUME NEW i \in Issues, t[i] > 0
        PROVE  i \in worker[w].keys /\ written[i] <= t[i] /\ t[i] <= latest[i]
    <3>1. i \in worker[w].keys /\ t[i] = lister[i]
      BY <1>6, <1>a, <2>1
    <3>2. lister[i] = latest[i]
      BY <2>1, <3>1, <1>2 DEF VersionsOK
    <3> QED BY <3>1, <3>2, <1>2, Numbers DEF VersionsOK
  <2> QED BY <1>1, <1>5, <1>7, <2>1 DEF IInv, TicketsOK
<1>13. Kept'
  <2> SUFFICES ASSUME NEW i \in Issues \ unparsable, ~dryRun, owed[i] > written[i], owed'[i] > written[i],
                      i \notin queue.dirty \cup queue.waiting
               PROVE  \E v \in Workers : Takes(v, i)'
    <3>1. \A i \in Issues : owed[i] <= written[i] => owed'[i] <= written[i]
      BY <1>2, <1>6, Numbers
    <3>2. \A i \in Issues : owed'[i] \in Nat /\ written[i] \in Nat /\ owed[i] \in Nat
      BY <1>2, <1>6, Numbers
    <3> QED BY <1>1, <3>1, <3>2 DEF Kept
  <2>1. PICK v \in Workers : Takes(v, i)
    BY <1>2, Numbers DEF IInv, Kept
  <2>2. CASE v # w
    <3>1. owed'[i] = owed[i]
      BY <2>1, <2>2, <1>6 DEF IInv, HeldOnce, Takes
    <3> QED BY <2>1, <2>2, <3>1, <1>7 DEF Takes
  <2>3. CASE v = w
    <3>1. i \in worker[w].keys /\ t[i] # 0
      BY <2>1, <2>3, <1>2, <1>6, Numbers DEF Takes
    <3>2. t[i] = lister[i] /\ lister[i] = latest[i] /\ owed'[i] <= t[i] /\ t[i] > 0
      BY <3>1, <1>2, <1>6, <1>10, Numbers DEF VersionsOK
    <3>3. pc = "write"
      BY <3>2, <1>4
    <3> QED BY <3>1, <3>2, <3>3, <1>5, <1>7 DEF Takes
  <2> QED BY <2>2, <2>3
<1> QED BY <1>7, <1>9, <1>11, <1>12, <1>13 DEF IInv

\* A worker leaves the state pc of sync for another, with its keys and tickets.
LEMMA Moved ==
    ASSUME IInv, NEW w \in Workers, NEW to \in {"done", "failed"},
           worker' = [worker EXCEPT ![w] = [@ EXCEPT !.pc = to]], UNCHANGED queue
    PROVE  /\ worker' \in [Workers -> WorkerType]
           /\ worker'[w].pc = to /\ worker'[w].keys = worker[w].keys
           /\ \A v \in Workers \ {w} : worker'[v] = worker[v]
           /\ HeldOnce'
<1> DEFINE r == worker[w]
           new == [r EXCEPT !.pc = to]
<1>1. r \in WorkerType /\ worker' = [worker EXCEPT ![w] = new]
  BY DEF IInv, TypeOK
<1>2. r.keys = worker[w].keys
  OBVIOUS
<1> HIDE DEF r
<1>3. new \in WorkerType /\ new.keys = r.keys /\ new.pc = to
  BY <1>1 DEF WorkerType
<1> HIDE DEF new
<1> QED BY <1>1, <1>2, <1>3, SameKeys

\* The rows that are written are the newest of their issues.
LEMMA WriteRowsOK ==
    ASSUME IInv, NEW w \in Workers, worker[w].pc = "write",
           NEW issues \in SUBSET Issues, WriteRows(w, issues)
    PROVE  /\ written' \in [Issues -> Versions]
           /\ \A i \in Issues : /\ written[i] <= written'[i] /\ written'[i] <= latest[i]
                                /\ i \notin worker[w].keys => written'[i] = written[i]
                                /\ i \in issues => worker[w].tickets[i] <= written'[i]
<1>1. TypeOK /\ worker[w].tickets \in [Issues -> Versions]
  <2>1. worker[w] \in WorkerType
    BY DEF IInv, TypeOK
  <2> QED BY <2>1 DEF IInv, WorkerType
<1>2. written' \in [Issues -> Versions]
  BY <1>1 DEF WriteRows, TypeOK
<1>3. \A i \in Issues : written'[i] = IF i \in issues /\ worker[w].tickets[i] > 0
                                      THEN worker[w].tickets[i] ELSE written[i]
  BY DEF WriteRows
<1>4. \A i \in Issues : worker[w].tickets[i] > 0 =>
         i \in worker[w].keys /\ written[i] <= worker[w].tickets[i]
                              /\ worker[w].tickets[i] <= latest[i]
  BY DEF IInv, TicketsOK
<1>5. \A i \in Issues : written[i] <= latest[i]
  BY DEF IInv, VersionsOK
<1>6. ASSUME NEW i \in Issues
      PROVE  /\ written[i] <= written'[i] /\ written'[i] <= latest[i]
             /\ i \notin worker[w].keys => written'[i] = written[i]
             /\ i \in issues => worker[w].tickets[i] <= written'[i]
  <2>1. written[i] \in Nat /\ latest[i] \in Nat /\ worker[w].tickets[i] \in Nat
    BY <1>1, Numbers, TicketNumbers
  <2> QED BY <1>3, <1>4, <1>5, <2>1
<1> QED BY <1>2, <1>6

\* The rest of a step in which rows are written, or one fails.
LEMMA SyncEnds ==
    ASSUME IInv, NEW w \in Workers, NEW to \in {"done", "failed"},
           worker' = [worker EXCEPT ![w] = [@ EXCEPT !.pc = to]],
           UNCHANGED <<lister, latest, events, queue, owed, dryRun, unparsable>>,
           count' \in [changes : 0..MaxChanges, faults : 0..MaxFaults, crashes : 0..MaxCrashes],
           count'.changes = count.changes,
           written' \in [Issues -> Versions],
           \A i \in Issues : /\ written[i] <= written'[i] /\ written'[i] <= latest[i]
                             /\ i \notin worker[w].keys => written'[i] = written[i],
           to = "done" => \A i \in Issues : Takes(w, i) => owed[i] <= written'[i]
    PROVE  IInv'
<1>1. /\ worker' \in [Workers -> WorkerType]
      /\ worker'[w].pc = to /\ worker'[w].keys = worker[w].keys
      /\ \A v \in Workers \ {w} : worker'[v] = worker[v]
      /\ HeldOnce'
  BY Moved
<1>2. TypeOK'
  BY <1>1 DEF IInv, TypeOK
<1>3. VersionsOK'
  BY DEF IInv, VersionsOK
<1>4. TicketsOK'
  <2> SUFFICES ASSUME NEW v \in Workers, worker'[v].pc = "write",
                      NEW i \in Issues, worker'[v].tickets[i] > 0
               PROVE  i \in worker'[v].keys /\ written'[i] <= worker'[v].tickets[i]
                                            /\ worker'[v].tickets[i] <= latest[i]
    BY DEF TicketsOK
  <2>1. v # w /\ worker'[v] = worker[v]
    BY <1>1
  <2>2. i \in worker[v].keys /\ written[i] <= worker[v].tickets[i] /\ worker[v].tickets[i] <= latest[i]
    BY <2>1 DEF IInv, TicketsOK
  <2>3. i \notin worker[w].keys
    BY <2>1, <2>2 DEF IInv, HeldOnce
  <2> QED BY <2>1, <2>2, <2>3
<1>5. Kept'
  <2> SUFFICES ASSUME NEW i \in Issues \ unparsable, ~dryRun,
                      i \notin queue.dirty \cup queue.waiting, ~(owed[i] <= written'[i])
               PROVE  \E v \in Workers : Takes(v, i)'
    BY DEF Kept
  <2>1. ~(owed[i] <= written[i])
    <3>1. TypeOK /\ TypeOK'
      BY <1>2 DEF IInv
    <3>2. owed[i] \in Nat /\ written[i] \in Nat
      BY <3>1, Numbers
    <3>3. written'[i] \in Nat
      BY <3>1, VersionsNat
    <3> QED BY <3>2, <3>3
  <2>2. PICK v \in Workers : Takes(v, i)
    BY <2>1 DEF IInv, Kept
  <2>3. CASE v # w
    BY <1>1, <2>2, <2>3 DEF Takes
  <2>4. CASE v = w
    <3>1. to = "failed"
      BY <2>2, <2>4
    <3> QED BY <1>1, <2>2, <2>4, <3>1 DEF Takes
  <2> QED BY <2>3, <2>4
<1> QED BY <1>1, <1>2, <1>3, <1>4, <1>5 DEF IInv

\* A fetch fails, or rows are written, or some of them are.
LEMMA SyncStep ==
    ASSUME IInv, NEW w \in Workers, FetchFails(w) \/ Write(w) \/ WriteFails(w)
    PROVE  IInv'
<1> USE JiraWatcherAssumption
<1> DEFINE Counts == [changes : 0..MaxChanges, faults : 0..MaxFaults, crashes : 0..MaxCrashes]
<1>1. count \in Counts /\ (count.faults < MaxFaults =>
          /\ [count EXCEPT !.faults = @ + 1] \in Counts
          /\ [count EXCEPT !.faults = @ + 1].changes = count.changes)
  BY DEF IInv, TypeOK
<1>2. CASE FetchFails(w)
  <2>1. /\ count' \in Counts /\ count'.changes = count.changes
        /\ worker' = [worker EXCEPT ![w] = [@ EXCEPT !.pc = "failed"]]
        /\ UNCHANGED <<lister, latest, events, queue, written, owed, dryRun, unparsable>>
    BY <1>1, <1>2 DEF FetchFails
  <2>2. /\ written' \in [Issues -> Versions]
        /\ \A i \in Issues : written[i] <= written'[i] /\ written'[i] <= latest[i]
    <3>1. TypeOK /\ VersionsOK
      BY DEF IInv
    <3>2. \A i \in Issues : written[i] \in Nat /\ written[i] <= latest[i]
      BY <3>1, Numbers DEF VersionsOK
    <3> QED BY <2>1, <3>1, <3>2 DEF TypeOK
  <2> QED BY <2>1, <2>2, SyncEnds
<1>3. CASE Write(w)
  <2>1. /\ worker' = [worker EXCEPT ![w] = [@ EXCEPT !.pc = "done"]] /\ worker[w].pc = "write"
        /\ UNCHANGED <<lister, latest, events, queue, owed, dryRun, unparsable, count>>
        /\ WriteRows(w, Issues)
    BY <1>3 DEF Write
  <2>2. /\ written' \in [Issues -> Versions]
        /\ \A i \in Issues : /\ written[i] <= written'[i] /\ written'[i] <= latest[i]
                             /\ i \notin worker[w].keys => written'[i] = written[i]
                             /\ worker[w].tickets[i] <= written'[i]
    BY <2>1, WriteRowsOK
  <2>3. ASSUME NEW i \in Issues, Takes(w, i) PROVE owed[i] <= written'[i]
    <3>1. owed[i] <= worker[w].tickets[i]
      BY <2>1, <2>3 DEF Takes
    <3>2. owed[i] \in Nat /\ worker[w].tickets[i] \in Nat
      BY Numbers, TicketNumbers DEF IInv
    <3>3. written'[i] \in Nat
      BY <2>2, VersionsNat
    <3> QED BY <2>2, <3>1, <3>2, <3>3
  <2> QED BY <1>1, <2>1, <2>2, <2>3, SyncEnds
<1>4. CASE WriteFails(w)
  <2>1. /\ count' \in Counts /\ count'.changes = count.changes /\ worker[w].pc = "write"
        /\ worker' = [worker EXCEPT ![w] = [@ EXCEPT !.pc = "failed"]]
        /\ UNCHANGED <<lister, latest, events, queue, owed, dryRun, unparsable>>
        /\ \E issues \in SUBSET Issues : WriteRows(w, issues)
    BY <1>1, <1>4 DEF WriteFails
  <2>2. /\ written' \in [Issues -> Versions]
        /\ \A i \in Issues : /\ written[i] <= written'[i] /\ written'[i] <= latest[i]
                             /\ i \notin worker[w].keys => written'[i] = written[i]
    BY <2>1, WriteRowsOK
  <2> QED BY <2>1, <2>2, SyncEnds
<1> QED BY <1>2, <1>3, <1>4

\* A worker that has just been started.
LEMMA IdleOK == Idle \in WorkerType /\ Idle.keys = {} /\ Idle.pc = "idle"
<1>1. NoTickets \in [Issues -> Versions]
  BY JiraWatcherAssumption DEF Versions, NoTickets
<1> QED BY <1>1, JiraWatcherAssumption DEF Idle, WorkerType

\* A worker is done with one of its keys, which is queued again if it came back.
LEMMA Released ==
    ASSUME IInv, NEW w \in Workers, NEW k \in worker[w].keys, worker[w].pc \in {"done", "failed"},
           NEW q \in QueueType(Issues), QueueOrdered(q),
           q.processing = queue.processing, q.dirty = queue.dirty,
           queue.waiting \subseteq q.waiting, worker[w].pc = "failed" => k \in q.waiting,
           queue' = Done(q, k), worker' = Without(w, k),
           UNCHANGED <<lister, latest, events, written, owed, dryRun, unparsable, count>>
    PROVE  IInv'
<1> USE JiraWatcherAssumption
<1> DEFINE r == worker[w]
           rest == worker[w].keys \ {k}
           less == [r EXCEPT !.keys = rest]
           new == IF worker[w].keys = {k} THEN Idle ELSE less
<1>1. r \in WorkerType /\ worker \in [Workers -> WorkerType] /\ worker' = [worker EXCEPT ![w] = new]
  BY DEF IInv, TypeOK, Without
<1>2. rest \in SUBSET Issues /\ k \in Issues /\ r.pc = worker[w].pc
  BY <1>1 DEF WorkerType
<1>3. new \in WorkerType /\ new.keys = rest /\ new.pc \in {"idle", worker[w].pc}
      /\ (new.pc = "idle" => rest = {}) /\ (rest # {} => new.pc = worker[w].pc)
  <2>1. Idle \in WorkerType /\ Idle.keys = {} /\ Idle.pc = "idle"
    BY IdleOK
  <2>2. worker[w].keys = {k} <=> rest = {}
    OBVIOUS
  <2> HIDE DEF r, rest
  <2>3. less \in WorkerType /\ less.keys = rest /\ less.pc = worker[w].pc
    BY <1>1, <1>2 DEF WorkerType
  <2> HIDE DEF less
  <2> QED BY <2>1, <2>2, <2>3
<1> HIDE DEF r, less, new
<1>4. /\ worker' \in [Workers -> WorkerType] /\ worker'[w] = new
      /\ \A v \in Workers \ {w} : worker'[v] = worker[v]
  BY <1>1, <1>3
<1>5. /\ queue' \in QueueType(Issues) /\ queue'.processing = queue.processing \ {k}
      /\ queue'.dirty = queue.dirty /\ queue'.waiting = q.waiting
  BY <1>2, DoneType
<1>6. QueueOrdered(queue')
  <2>1. k \in q.processing
    BY <1>2 DEF IInv, HeldOnce, Held
  <2> QED BY <2>1, DoneOrdered
<1>7. TypeOK' /\ VersionsOK'
  BY <1>4, <1>5 DEF IInv, TypeOK, VersionsOK
<1>8. HeldOnce'
  <2>1. \A v \in Workers : v # w => k \notin worker[v].keys
    BY <1>2 DEF IInv, HeldOnce
  <2>2. \A i \in Issues : Held(i)' <=> Held(i) /\ i # k
    BY <1>3, <1>4, <2>1 DEF Held
  <2>3. queue'.processing = {i \in Issues : Held(i)'}
    BY <1>5, <2>2 DEF IInv, HeldOnce
  <2>4. \A u, v \in Workers : \A i \in Issues :
           i \in worker'[u].keys /\ i \in worker'[v].keys => u = v
    BY <1>3, <1>4 DEF IInv, HeldOnce
  <2>5. \A v \in Workers : /\ worker'[v].pc = "idle" => worker'[v].keys = {}
                           /\ worker'[v].pc = "collect" => worker'[v].l > 0
    BY <1>3, <1>4 DEF IInv, HeldOnce
  <2> QED BY <1>6, <2>3, <2>4, <2>5 DEF HeldOnce
<1>9. TicketsOK'
  BY <1>3, <1>4 DEF IInv, TicketsOK
<1>10. Kept'
  <2> SUFFICES ASSUME NEW i \in Issues \ unparsable, ~dryRun,
                      i \notin queue.dirty \cup q.waiting, ~(owed[i] <= written[i])
               PROVE  \E v \in Workers : Takes(v, i)'
    BY <1>5 DEF Kept
  <2>1. PICK v \in Workers : Takes(v, i)
    BY DEF IInv, Kept
  <2>2. CASE v # w
    BY <1>4, <2>1, <2>2 DEF Takes
  <2>3. CASE v = w
    <3>1. worker[w].pc = "failed" /\ i \in rest
      BY <2>1, <2>3 DEF Takes
    <3> QED BY <1>3, <1>4, <2>3, <3>1 DEF Takes
  <2> QED BY <2>2, <2>3
<1> QED BY <1>7, <1>8, <1>9, <1>10 DEF IInv

\* A batch ends, well or not, key by key.
LEMMA EndStep ==
    ASSUME IInv, NEW w \in Workers, NEW k \in Issues, Finish(w, k) \/ Requeue(w, k)
    PROVE  IInv'
<1>1. queue \in QueueType(Issues) /\ QueueOrdered(queue)
  BY DEF IInv, TypeOK, HeldOnce
<1>2. CASE Finish(w, k)
  <2> DEFINE q == Forget(queue, k)
  <2>1. /\ q \in QueueType(Issues) /\ QueueOrdered(q) /\ q.processing = queue.processing
        /\ q.dirty = queue.dirty /\ q.waiting = queue.waiting
    BY <1>1, ForgetOK, OrderedFrame
  <2>2. /\ worker[w].pc = "done" /\ k \in worker[w].keys /\ worker' = Without(w, k)
        /\ queue' = Done(q, k)
        /\ UNCHANGED <<lister, latest, events, written, owed, dryRun, unparsable, count>>
    BY <1>2 DEF Finish
  <2> HIDE DEF q
  <2> QED BY <2>1, <2>2, Released
<1>3. CASE Requeue(w, k)
  <2> DEFINE q == AddRateLimited(queue, k)
  <2>1. /\ q \in QueueType(Issues) /\ QueueOrdered(q) /\ q.processing = queue.processing
        /\ q.dirty = queue.dirty /\ q.waiting = queue.waiting \cup {k}
    BY <1>1, AddRateLimitedOK, OrderedFrame
  <2>2. /\ worker[w].pc = "failed" /\ k \in worker[w].keys /\ worker' = Without(w, k)
        /\ queue' = Done(q, k)
        /\ UNCHANGED <<lister, latest, events, written, owed, dryRun, unparsable, count>>
    BY <1>3 DEF Requeue
  <2> HIDE DEF q
  <2> QED BY <2>1, <2>2, Released
<1> QED BY <1>2, <1>3

\* After a crash nothing is owed until the informer has reported it.
LEMMA RestartStep ==
    ASSUME IInv, Restart
    PROVE  IInv'
<1> USE JiraWatcherAssumption
<1>1. /\ UNCHANGED <<lister, latest, written, dryRun, unparsable>>
      /\ count' \in [changes : 0..MaxChanges, faults : 0..MaxFaults, crashes : 0..MaxCrashes]
      /\ count'.changes = count.changes
      /\ owed' = [i \in Issues |-> 0]
  BY DEF Restart, IInv, TypeOK
<1>2. /\ worker' \in [Workers -> WorkerType] /\ queue' \in QueueType(Issues)
      /\ owed' \in [Issues -> Versions] /\ HeldOnce' /\ TicketsOK' /\ Kept'
  <2>1. worker' = [w \in Workers |-> Idle] /\ queue' = NewQueue(Issues)
    BY DEF Restart
  <2>2. worker' \in [Workers -> WorkerType] /\ \A w \in Workers : worker'[w] = Idle
    BY <2>1, IdleOK
  <2>3. queue' \in QueueType(Issues) /\ QueueOrdered(queue') /\ queue'.processing = {}
    BY <2>1, NewQueueOK DEF NewQueue
  <2>4. HeldOnce'
    BY <2>2, <2>3, IdleOK DEF HeldOnce, Held
  <2>5. TicketsOK'
    BY <2>2, IdleOK DEF TicketsOK
  <2>6. \A i \in Issues : owed'[i] <= written'[i]
    <3>1. \A i \in Issues : written[i] \in Nat
      BY Numbers DEF IInv
    <3> QED BY <1>1, <3>1
  <2> QED BY <1>1, <2>2, <2>3, <2>4, <2>5, <2>6 DEF Kept, Versions
<1> DEFINE n == Cardinality({i \in Issues : lister[i] > 0})
<1>3. n \in Nat
  <2>1. IsFiniteSet({i \in Issues : lister[i] > 0})
    BY FS_Subset
  <2> QED BY <2>1, FS_CardinalityType
<1>4. PICK order \in [1..n -> Issues] :
         events' = [m \in DOMAIN order |->
                      [type |-> "add", issue |-> order[m], old |-> 0, new |-> lister[order[m]]]]
  BY DEF Restart
<1> HIDE DEF n
<1>5. /\ events' \in Seq(Event) /\ Len(events') = n
      /\ \A m \in 1..n : events'[m].issue = order[m] /\ events'[m].new = lister[order[m]]
  <2>1. \A m \in 1..n : [type |-> "add", issue |-> order[m], old |-> 0, new |-> lister[order[m]]]
                           \in Event
    <3>1. 0 \in Versions /\ \A i \in Issues : lister[i] \in Versions
      BY DEF IInv, TypeOK, Versions
    <3> QED BY <3>1 DEF Event
  <2>2. events' \in [1..n -> Event] /\ DOMAIN order = 1..n
    BY <1>4, <2>1
  <2> QED BY <1>3, <1>4, <2>2
<1>6. TypeOK'
  BY <1>1, <1>2, <1>5 DEF IInv, TypeOK
<1>7. VersionsOK'
  <2>1. \A i \in Issues : lister[i] <= latest[i] /\ owed'[i] <= latest[i]
    <3>1. ASSUME NEW i \in Issues PROVE lister[i] <= latest[i] /\ 0 <= latest[i]
      BY Numbers DEF IInv, VersionsOK
    <3> QED BY <1>1, <3>1
  <2>2. \A m \in 1..Len(events') : events'[m].new <= latest'[events'[m].issue]
    BY <1>1, <1>5, <2>1
  <2> QED BY <1>1, <2>1, <2>2 DEF IInv, VersionsOK
<1> QED BY <1>2, <1>6, <1>7 DEF IInv

-----------------------------------------------------------------------------
\* The invariant holds at first,
LEMMA InitIInv == Init => IInv
<1> SUFFICES ASSUME Init PROVE IInv
  OBVIOUS
<1> USE JiraWatcherAssumption DEF Init
<1>1. 0 \in Versions /\ written \in [Issues -> Versions]
  BY DEF Versions
<1>2. worker \in [Workers -> WorkerType] /\ \A w \in Workers : worker[w] = Idle
  BY IdleOK
<1>3. queue \in QueueType(Issues) /\ QueueOrdered(queue) /\ queue.processing = {}
  BY NewQueueOK DEF NewQueue
<1>4. TypeOK
  BY <1>1, <1>2, <1>3 DEF TypeOK
<1>5. HeldOnce
  BY <1>2, <1>3, IdleOK DEF HeldOnce, Held
<1>6. VersionsOK /\ Kept
  BY DEF VersionsOK, Kept
<1>7. TicketsOK
  BY <1>2, IdleOK DEF TicketsOK
<1> QED BY <1>4, <1>5, <1>6, <1>7 DEF IInv

\* every step preserves it,
LEMMA NextIInv == IInv /\ [Next]_vars => IInv'
<1> SUFFICES ASSUME IInv, [Next]_vars PROVE IInv'
  OBVIOUS
<1>1. ASSUME NEW i \in Issues, Change(i) \/ RetryReady(i) PROVE IInv'
  BY <1>1, ChangeStep, RetryStep
<1>2. CASE Handle \/ Restart
  BY <1>2, HandleStep, RestartStep
<1>3. ASSUME NEW w \in Workers, processQueue(w) PROVE IInv'
  BY <1>3, BeginStep, CollectStep, FetchStep, SyncStep, EndStep DEF processQueue
<1>4. CASE UNCHANGED vars
  BY <1>4 DEF vars, IInv, TypeOK, HeldOnce, Held, VersionsOK, TicketsOK, Kept, Takes
<1> QED BY <1>1, <1>2, <1>3, <1>4 DEF Next

\* and it holds of every behaviour.
LEMMA Invariance == Spec => []IInv
<1> QED BY InitIInv, NextIInv, PTL DEF Spec

\* The watcher's state stays within its types: batches never exceed maxBatch, and
\* no version exceeds the number of changes.
THEOREM TypeCorrect == Spec => []TypeOK
<1>1. IInv => TypeOK
  BY DEF IInv
<1> QED BY <1>1, Invariance, PTL

\* An enqueued version is queued, waiting for its retry, with a worker, or in the
\* table: no failure of a fetch or of a write, and no interleaving of workers and
\* handlers, forgets one (an answer of jira without the issue does).
THEOREM NothingEnqueuedIsForgotten == Spec => []EnqueuedIsWritten
<1>1. IInv => EnqueuedIsWritten
  <2> SUFFICES ASSUME IInv, NEW i \in Issues \ unparsable,
                      ~dryRun, ~Held(i), i \notin queue.dirty \cup queue.waiting
               PROVE  written[i] >= owed[i]
    BY DEF EnqueuedIsWritten
  <2>1. owed[i] <= written[i]
    BY DEF IInv, Kept, Takes, Held
  <2> QED BY <2>1, Numbers DEF IInv
<1> QED BY <1>1, Invariance, PTL

\* The rows of an issue are written in the order of its versions, by however many
\* workers: a row fetched earlier never follows a newer one.
THEOREM TableNeverGoesBack == Spec => RowsInOrder
<1> DEFINE Grows == \A i \in Issues : written'[i] >= written[i]
<1>1. IInv /\ [Next]_vars => [Grows]_vars
  <2> SUFFICES ASSUME IInv, Next PROVE Grows
    OBVIOUS
  <2>0. \A i \in Issues : written[i] \in Nat
    BY Numbers DEF IInv
  <2>1. CASE UNCHANGED written
    BY <2>0, <2>1
  <2>2. ASSUME NEW w \in Workers, Write(w) \/ WriteFails(w) PROVE Grows
    <3>1. \E issues \in SUBSET Issues : WriteRows(w, issues) /\ worker[w].pc = "write"
      BY <2>2 DEF Write, WriteFails
    <3>2. /\ written' \in [Issues -> Versions]
          /\ \A i \in Issues : written[i] <= written'[i]
      BY <3>1, WriteRowsOK
    <3>3. \A i \in Issues : written'[i] \in Nat
      BY <3>2, VersionsNat
    <3> QED BY <2>0, <3>2, <3>3
  <2> HIDE DEF Grows
  <2> QED BY <2>1, <2>2 DEF Next, Change, RetryReady, Handle, Restart, processQueue,
                            Begin, Collect, Fetch, FetchOmits, Fetched, FetchFails,
                            Finish, Requeue
<1> QED BY <1>1, Invariance, PTL DEF Spec, RowsInOrder
=============================================================================

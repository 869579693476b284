------------------------------ MODULE WorkQueue ------------------------------
(***************************************************************************)
(* The client-go work queue that DiskStore, both CommentStores, both       *)
(* CommentDiskStores and the jira watcher share (vendored under            *)
(* vendor/k8s.io/client-go/util/workqueue).  Each operation holds the      *)
(* queue's lock from its first to its last line, so it is one operator     *)
(* from a queue value to a queue value.                                    *)
(*                                                                         *)
(* A queue value is a record                                               *)
(*    queue       the order in which items will be handed out              *)
(*    dirty       the items that need processing                           *)
(*    processing  the items handed out by Get and not yet Done             *)
(* and the rate-limiting wrapper adds                                      *)
(*    waiting     the items of delayingType.waitingForQueue                *)
(*    failures    ItemExponentialFailureRateLimiter.failures               *)
(* The backoff itself is not represented: a waiting item becomes ready at  *)
(* an unspecified later time.  ShutDown is never called by this program.   *)
(***************************************************************************)
EXTENDS Naturals, Sequences

\* The values a queue of items K can have.
QueueType(K) ==
    [queue : Seq(K), dirty : SUBSET K, processing : SUBSET K,
     waiting : SUBSET K, failures : [K -> Nat]]

NewQueue(K) ==
    [queue |-> << >>, dirty |-> {}, processing |-> {},
     waiting |-> {}, failures |-> [k \in K |-> 0]]

\* Plausible bug: Add forgets to look at the processing set.
AddIgnoringProcessing(q, k) ==
    IF k \in q.dirty THEN q
    ELSE [q EXCEPT !.dirty = @ \cup {k}, !.queue = Append(@, k)]

\* Add coalesces: an item already dirty is not queued twice, and an item being
\* processed is only remembered as dirty, for Done to queue it again.
Add(q, k) ==
    IF k \in q.dirty THEN q
    ELSE [q EXCEPT !.dirty = @ \cup {k},
                   !.queue = IF k \in q.processing THEN @ ELSE Append(@, k)]

\* Get blocks while the queue is empty.
CanGet(q) == q.queue # << >>

Get(q) ==
    LET item == Head(q.queue)
    IN  [q EXCEPT !.queue = Tail(@),
                  !.processing = @ \cup {item},
                  !.dirty = @ \ {item}]

\* Plausible bug: Done does not look whether the item became dirty meanwhile.
DoneForgettingDirty(q, k) == [q EXCEPT !.processing = @ \ {k}]

Done(q, k) ==
    [q EXCEPT !.processing = @ \ {k},
              !.queue = IF k \in q.dirty THEN Append(@, k) ELSE @]

NumRequeues(q, k) == q.failures[k]

\* When counts the failure and AddAfter parks the item (the delay is positive).
AddRateLimited(q, k) ==
    [q EXCEPT !.failures = [q.failures EXCEPT ![k] = @ + 1], !.waiting = @ \cup {k}]

Forget(q, k) == [q EXCEPT !.failures = [q.failures EXCEPT ![k] = 0]]

\* waitingLoop: the delay of a parked item is over.
Ready(q, k) == Add([q EXCEPT !.waiting = @ \ {k}], k)

(***************************************************************************)
(* What the comments on the fields of the queue promise.                   *)
(***************************************************************************)
\* queue.go: "Every element of queue should be in the dirty set and not in
\* the processing set" - and, conversely, a dirty item nobody is processing
\* is queued, exactly once.
QueueOrdered(q) ==
    /\ \A i \in 1..Len(q.queue) : q.queue[i] \in q.dirty \ q.processing
    /\ \A i, j \in 1..Len(q.queue) : q.queue[i] = q.queue[j] => i = j
    /\ \A k \in q.dirty \ q.processing :
           \E i \in 1..Len(q.queue) : q.queue[i] = k
=============================================================================

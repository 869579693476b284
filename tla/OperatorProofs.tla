---------------------------- MODULE OperatorProofs ----------------------------
(***************************************************************************)
(* Lemmas about the operators that the components share: what each         *)
(* operation of the work queue preserves, for every set of items (the type *)
(* of a queue value, and QueueOrdered, the promise of the comments on its  *)
(* fields), and what the lists are that AtPositions and SumAt make.        *)
(***************************************************************************)
EXTENDS WorkQueue, Lists, SequenceTheorems, FiniteSetTheorems, WellFoundedInduction, TLAPS

-----------------------------------------------------------------------------
(* The work queue.                                                         *)

\* An empty queue is a queue, and ordered.
LEMMA NewQueueOK ==
    ASSUME NEW K
    PROVE  NewQueue(K) \in QueueType(K) /\ QueueOrdered(NewQueue(K))
  BY DEF NewQueue, QueueType, QueueOrdered

\* Add yields a queue with the same failure counts.
LEMMA AddType ==
    ASSUME NEW K, NEW q \in QueueType(K), NEW k \in K
    PROVE  /\ Add(q, k) \in QueueType(K)
           /\ Add(q, k).processing = q.processing
           /\ Add(q, k).failures = q.failures
           /\ Add(q, k).waiting = q.waiting
           /\ Add(q, k).dirty = q.dirty \cup {k}
<1>1. q.queue \in Seq(K) /\ Append(q.queue, k) \in Seq(K)
  BY DEF QueueType
<1>2. CASE k \in q.dirty
  <2>1. Add(q, k) = q /\ q.dirty = q.dirty \cup {k}
    BY <1>2 DEF Add
  <2> QED BY <2>1
<1>3. CASE k \notin q.dirty
  <2> DEFINE n == IF k \in q.processing THEN q.queue ELSE Append(q.queue, k)
  <2>1. n \in Seq(K)
    BY <1>1
  <2>2. Add(q, k) = [q EXCEPT !.dirty = @ \cup {k}, !.queue = n]
    BY <1>3 DEF Add
  <2> HIDE DEF n
  <2> QED BY <2>1, <2>2 DEF QueueType
<1> QED BY <1>2, <1>3

\* Add keeps the queue ordered: the item is appended only if it is neither dirty,
\* hence not queued yet, nor being processed.
LEMMA AddOrdered ==
    ASSUME NEW K, NEW q \in QueueType(K), NEW k \in K, QueueOrdered(q)
    PROVE  QueueOrdered(Add(q, k))
<1>1. CASE k \in q.dirty
  BY <1>1 DEF Add
<1>2. CASE k \notin q.dirty /\ k \in q.processing
  BY <1>2 DEF Add, QueueType, QueueOrdered
<1>3. CASE k \notin q.dirty /\ k \notin q.processing
  <2> DEFINE r == Add(q, k)
  <2>1. /\ r.queue = Append(q.queue, k)
        /\ r.dirty = q.dirty \cup {k}
        /\ r.processing = q.processing
    BY <1>3 DEF Add, QueueType
  <2>2. q.queue \in Seq(K)
    BY DEF QueueType
  <2>3. /\ Len(r.queue) = Len(q.queue) + 1
        /\ \A i \in 1..Len(q.queue) : r.queue[i] = q.queue[i]
        /\ r.queue[Len(q.queue) + 1] = k
        /\ Len(q.queue) \in Nat
    BY <2>1, <2>2
  <2>4. \A i \in 1..Len(q.queue) : q.queue[i] # k
    BY <1>3 DEF QueueOrdered
  <2> HIDE DEF r
  <2>5. \A i \in 1..Len(r.queue) : r.queue[i] \in r.dirty \ r.processing
    BY <2>1, <2>3, <1>3 DEF QueueOrdered
  <2>6. ASSUME NEW i \in 1..Len(r.queue), NEW j \in 1..Len(r.queue), r.queue[i] = r.queue[j]
        PROVE  i = j
    <3>1. (i = Len(q.queue) + 1 \/ i \in 1..Len(q.queue)) /\ (j = Len(q.queue) + 1 \/ j \in 1..Len(q.queue))
      BY <2>3
    <3>2. CASE i \in 1..Len(q.queue) /\ j \in 1..Len(q.queue)
      BY <3>2, <2>3, <2>6 DEF QueueOrdered
    <3> QED BY <3>1, <3>2, <2>3, <2>4, <2>6
  <2>7. \A x \in r.dirty \ r.processing : \E i \in 1..Len(r.queue) : r.queue[i] = x
    BY <2>1, <2>3 DEF QueueOrdered
  <2> QED BY <2>5, <2>6, <2>7 DEF QueueOrdered, r
<1> QED BY <1>1, <1>2, <1>3

\* Get hands out an item nobody is processing.
LEMMA GetOK ==
    ASSUME NEW K, NEW q \in QueueType(K), CanGet(q), QueueOrdered(q)
    PROVE  /\ Head(q.queue) \in K
           /\ Head(q.queue) \notin q.processing
           /\ Get(q) \in QueueType(K)
           /\ Get(q).processing = q.processing \cup {Head(q.queue)}
           /\ Get(q).failures = q.failures
           /\ Get(q).waiting = q.waiting
           /\ Get(q).dirty = q.dirty \ {Head(q.queue)}
           /\ QueueOrdered(Get(q))
<1> DEFINE r == Get(q)  h == Head(q.queue)
<1>1. q.queue \in Seq(K) /\ q.queue # << >>
  BY DEF QueueType, CanGet
<1>2. /\ h = q.queue[1] /\ h \in K
      /\ Len(q.queue) \in Nat /\ Len(q.queue) >= 1
      /\ Tail(q.queue) \in Seq(K)
      /\ Len(Tail(q.queue)) = Len(q.queue) - 1
      /\ \A i \in 1..Len(Tail(q.queue)) : Tail(q.queue)[i] = q.queue[i + 1]
  BY <1>1
<1>3. h \in q.dirty /\ h \notin q.processing
  BY <1>2 DEF QueueOrdered
<1>4. /\ r.queue = Tail(q.queue)
      /\ r.processing = q.processing \cup {h}
      /\ r.dirty = q.dirty \ {h}
      /\ r.failures = q.failures /\ r.waiting = q.waiting
      /\ r \in QueueType(K)
  BY <1>2 DEF Get, QueueType
<1> HIDE DEF r, h
<1>5. \A i \in 1..Len(r.queue) : r.queue[i] \in r.dirty \ r.processing
  BY <1>2, <1>4 DEF QueueOrdered
<1>6. \A i, j \in 1..Len(r.queue) : r.queue[i] = r.queue[j] => i = j
  BY <1>2, <1>4 DEF QueueOrdered
<1>7. ASSUME NEW x \in r.dirty \ r.processing
      PROVE  \E i \in 1..Len(r.queue) : r.queue[i] = x
  <2>1. x \in q.dirty \ q.processing /\ x # h
    BY <1>4
  <2>2. PICK i \in 1..Len(q.queue) : q.queue[i] = x
    BY <2>1 DEF QueueOrdered
  <2>3. i # 1
    BY <2>1, <2>2, <1>2
  <2>4. i - 1 \in 1..Len(r.queue) /\ r.queue[i - 1] = x
    BY <2>2, <2>3, <1>2, <1>4
  <2> QED BY <2>4
<1>8. QueueOrdered(r)
  BY <1>5, <1>6, <1>7 DEF QueueOrdered
<1> QED BY <1>2, <1>3, <1>4, <1>8 DEF r, h

\* Done yields a queue in which the item is no longer being processed.
LEMMA DoneType ==
    ASSUME NEW K, NEW q \in QueueType(K), NEW k \in K
    PROVE  /\ Done(q, k) \in QueueType(K)
           /\ Done(q, k).processing = q.processing \ {k}
           /\ Done(q, k).failures = q.failures
           /\ Done(q, k).waiting = q.waiting
           /\ Done(q, k).dirty = q.dirty
<1> DEFINE n == IF k \in q.dirty THEN Append(q.queue, k) ELSE q.queue
<1>1. n \in Seq(K)
  BY DEF QueueType
<1>2. Done(q, k) = [q EXCEPT !.processing = @ \ {k}, !.queue = n]
  BY DEF Done
<1> HIDE DEF n
<1> QED BY <1>1, <1>2 DEF QueueType

\* Done of an item that is being processed keeps the queue ordered: a dirty item is
\* queued only now, because nothing queues it while it is being processed.
LEMMA DoneOrdered ==
    ASSUME NEW K, NEW q \in QueueType(K), NEW k \in q.processing, QueueOrdered(q)
    PROVE  QueueOrdered(Done(q, k))
<1> DEFINE r == Done(q, k)
<1>0. k \in K /\ q.queue \in Seq(K)
  BY DEF QueueType
<1>1. /\ r.processing = q.processing \ {k}
      /\ r.dirty = q.dirty
      /\ r.queue = IF k \in q.dirty THEN Append(q.queue, k) ELSE q.queue
  BY DEF Done, QueueType
<1>2. \A i \in 1..Len(q.queue) : q.queue[i] # k
  BY DEF QueueOrdered
<1> HIDE DEF r
<1>3. CASE k \notin q.dirty
  BY <1>1, <1>3 DEF QueueOrdered, r
<1>4. CASE k \in q.dirty
  <2>1. /\ Len(r.queue) = Len(q.queue) + 1
        /\ \A i \in 1..Len(q.queue) : r.queue[i] = q.queue[i]
        /\ r.queue[Len(q.queue) + 1] = k
        /\ Len(q.queue) \in Nat
    BY <1>0, <1>1, <1>4
  <2>2. \A i \in 1..Len(r.queue) : r.queue[i] \in r.dirty \ r.processing
    BY <2>1, <1>1, <1>4 DEF QueueOrdered
  <2>3. ASSUME NEW i \in 1..Len(r.queue), NEW j \in 1..Len(r.queue), r.queue[i] = r.queue[j]
        PROVE  i = j
    <3>1. (i = Len(q.queue) + 1 \/ i \in 1..Len(q.queue)) /\ (j = Len(q.queue) + 1 \/ j \in 1..Len(q.queue))
      BY <2>1
    <3>2. CASE i \in 1..Len(q.queue) /\ j \in 1..Len(q.queue)
      BY <3>2, <2>1, <2>3 DEF QueueOrdered
    <3> QED BY <3>1, <3>2, <2>1, <1>2, <2>3
  <2>4. \A x \in r.dirty \ r.processing : \E i \in 1..Len(r.queue) : r.queue[i] = x
    BY <2>1, <1>1 DEF QueueOrdered
  <2> QED BY <2>2, <2>3, <2>4 DEF QueueOrdered, r
<1> QED BY <1>3, <1>4

\* Forget resets the failure count of the item and touches nothing else.
LEMMA ForgetOK ==
    ASSUME NEW K, NEW q \in QueueType(K), NEW k \in K
    PROVE  /\ Forget(q, k) \in QueueType(K)
           /\ Forget(q, k).processing = q.processing
           /\ Forget(q, k).dirty = q.dirty
           /\ Forget(q, k).queue = q.queue
           /\ Forget(q, k).waiting = q.waiting
           /\ \A x \in K : Forget(q, k).failures[x] = IF x = k THEN 0 ELSE q.failures[x]
<1> DEFINE zero == [q.failures EXCEPT ![k] = 0]
<1>1. zero \in [K -> Nat] /\ \A x \in K : zero[x] = IF x = k THEN 0 ELSE q.failures[x]
  BY DEF QueueType
<1>2. Forget(q, k) = [q EXCEPT !.failures = zero]
  BY DEF Forget
<1> HIDE DEF zero
<1> QED BY <1>1, <1>2 DEF QueueType

\* AddRateLimited counts a failure and parks the item.
LEMMA AddRateLimitedOK ==
    ASSUME NEW K, NEW q \in QueueType(K), NEW k \in K
    PROVE  /\ AddRateLimited(q, k) \in QueueType(K)
           /\ AddRateLimited(q, k).processing = q.processing
           /\ AddRateLimited(q, k).dirty = q.dirty
           /\ AddRateLimited(q, k).queue = q.queue
           /\ AddRateLimited(q, k).waiting = q.waiting \cup {k}
           /\ \A x \in K : AddRateLimited(q, k).failures[x] =
                             IF x = k THEN q.failures[x] + 1 ELSE q.failures[x]
<1> DEFINE parked == q.waiting \cup {k}
<1> DEFINE more == [q.failures EXCEPT ![k] = @ + 1]
<1>1. /\ more \in [K -> Nat] /\ parked \in SUBSET K
      /\ \A x \in K : more[x] = IF x = k THEN q.failures[x] + 1 ELSE q.failures[x]
  BY DEF QueueType
<1>2. AddRateLimited(q, k) = [q EXCEPT !.failures = more, !.waiting = parked]
  BY DEF AddRateLimited
<1> HIDE DEF more, parked
<1>3. /\ AddRateLimited(q, k) \in QueueType(K)
      /\ AddRateLimited(q, k).processing = q.processing
      /\ AddRateLimited(q, k).dirty = q.dirty
      /\ AddRateLimited(q, k).queue = q.queue
      /\ AddRateLimited(q, k).waiting = parked
      /\ AddRateLimited(q, k).failures = more
  BY <1>1, <1>2 DEF QueueType
<1> QED BY <1>1, <1>3 DEF parked

\* Whatever does not change queue, dirty and processing keeps the queue ordered.
LEMMA OrderedFrame ==
    ASSUME NEW q, NEW r, QueueOrdered(q),
           r.queue = q.queue, r.dirty = q.dirty, r.processing = q.processing
    PROVE  QueueOrdered(r)
  BY DEF QueueOrdered

\* The end of a delay is an Add.
LEMMA ReadyOK ==
    ASSUME NEW K, NEW q \in QueueType(K), NEW k \in K
    PROVE  /\ Ready(q, k) \in QueueType(K)
           /\ Ready(q, k).processing = q.processing
           /\ Ready(q, k).failures = q.failures
           /\ Ready(q, k).waiting = q.waiting \ {k}
           /\ Ready(q, k).dirty = q.dirty \cup {k}
           /\ QueueOrdered(q) => QueueOrdered(Ready(q, k))
<1> DEFINE r == [q EXCEPT !.waiting = @ \ {k}]
<1>1. /\ r \in QueueType(K) /\ r.queue = q.queue /\ r.dirty = q.dirty
      /\ r.processing = q.processing /\ r.failures = q.failures
      /\ r.waiting = q.waiting \ {k}
  BY DEF QueueType
<1>2. Ready(q, k) = Add(r, k)
  BY DEF Ready
<1> HIDE DEF r
<1>3. QueueOrdered(q) => QueueOrdered(r)
  BY <1>1, OrderedFrame
<1>4. QueueOrdered(r) => QueueOrdered(Add(r, k))
  BY <1>1, AddOrdered
<1>5. /\ Add(r, k) \in QueueType(K) /\ Add(r, k).processing = r.processing
      /\ Add(r, k).failures = r.failures /\ Add(r, k).waiting = r.waiting
      /\ Add(r, k).dirty = r.dirty \cup {k}
  BY <1>1, AddType
<1> QED BY <1>1, <1>2, <1>3, <1>4, <1>5

-----------------------------------------------------------------------------
(* Lists and positions.                                                    *)

\* A set of naturals that is not empty has a least element.
LEMMA LeastPosition ==
    ASSUME NEW S, S \subseteq Nat, S # {}
    PROVE  \E x \in S : \A y \in S : x <= y
<1>1. PICK x \in S : \A y \in S : ~ (<<y, x>> \in OpToRel(<, Nat))
  BY NatLessThanWellFounded, WFMin
<1>2. \A y \in S : ~(y < x)
  BY <1>1 DEF OpToRel
<1> QED BY <1>2

\* Different positions have different ranks.
LEMMA RanksDiffer ==
    ASSUME NEW m \in Nat, NEW K, K \subseteq 1..m
    PROVE  \A i, k \in K : i < k => Cardinality({j \in K : j <= i}) # Cardinality({j \in K : j <= k})
<1> DEFINE upto(i) == {j \in K : j <= i}
<1> SUFFICES ASSUME NEW i \in K, NEW k \in K, i < k,
                    Cardinality(upto(i)) = Cardinality(upto(k))
             PROVE  FALSE
  OBVIOUS
<1>1. IsFiniteSet(1..m)
  BY FS_Interval
<1>2. IsFiniteSet(K)
  BY <1>1, FS_Subset
<1>3. upto(k) \in SUBSET K /\ upto(i) \in SUBSET upto(k)
  <2>1. i \in Int /\ k \in Int /\ \A j \in K : j \in Int
    OBVIOUS
  <2>2. \A j \in K : j <= i => j <= k
    BY <2>1
  <2> QED BY <2>2
<1>4. IsFiniteSet(upto(k))
  BY <1>2, <1>3, FS_Subset
<1>5. upto(k) = upto(i)
  BY <1>3, <1>4, FS_Subset
<1>6. k \in upto(k) /\ k \notin upto(i)
  OBVIOUS
<1> QED BY <1>5, <1>6

\* The ranks of the members of a set of positions are 1, 2, ... without a gap: the
\* rank is an injection into an interval of the same size.
LEMMA Ranks ==
    ASSUME NEW m \in Nat, NEW K, K \subseteq 1..m
    PROVE  /\ Cardinality(K) \in Nat
           /\ \A n \in 1..Cardinality(K) : \E i \in K : Cardinality({j \in K : j <= i}) = n
           /\ \A i \in K : Cardinality({j \in K : j <= i}) \in 1..Cardinality(K)
<1> DEFINE upto(i) == {j \in K : j <= i}
           N == Cardinality(K)
           rank == [i \in K |-> Cardinality(upto(i))]
<1>1. IsFiniteSet(1..m)
  BY FS_Interval
<1>2. IsFiniteSet(K) /\ N \in Nat
  BY <1>1, FS_Subset, FS_CardinalityType
<1>3. \A i \in K : /\ IsFiniteSet(upto(i))
                   /\ Cardinality(upto(i)) \in Nat
                   /\ Cardinality(upto(i)) <= N
                   /\ Cardinality(upto(i)) # 0
  <2> TAKE i \in K
  <2>1. upto(i) \in SUBSET K
    OBVIOUS
  <2>2. IsFiniteSet(upto(i)) /\ Cardinality(upto(i)) <= N
    BY <1>2, <2>1, FS_Subset
  <2>3. Cardinality(upto(i)) \in Nat
    BY <2>2, FS_CardinalityType
  <2>4. i \in upto(i)
    OBVIOUS
  <2>5. Cardinality(upto(i)) # 0
    BY <2>2, <2>4, FS_EmptySet
  <2> QED BY <2>2, <2>3, <2>5
<1>4. \A i \in K : Cardinality(upto(i)) \in 1..N
  BY <1>2, <1>3
<1>5. \A i, k \in K : i < k => Cardinality(upto(i)) # Cardinality(upto(k))
  BY RanksDiffer
<1>6. rank \in Injection(K, 1..N)
  <2>1. rank \in [K -> 1..N]
    BY <1>4
  <2>2. \A i, k \in K : rank[i] = rank[k] => i = k
    <3> SUFFICES ASSUME NEW i \in K, NEW k \in K, rank[i] = rank[k], i # k
                 PROVE  FALSE
      OBVIOUS
    <3>1. Cardinality(upto(i)) = Cardinality(upto(k))
      OBVIOUS
    <3>2. i < k \/ k < i
      OBVIOUS
    <3> QED BY <1>5, <3>1, <3>2
  <2> QED BY <2>1, <2>2 DEF Injection, IsInjective
<1>7. IsFiniteSet(1..N) /\ Cardinality(1..N) = N
  BY <1>2, FS_Interval
<1>8. rank \in Surjection(K, 1..N)
  <2> HIDE DEF rank
  <2> QED BY <1>6, <1>7, FS_Injection
<1>9. \A n \in 1..N : \E i \in K : rank[i] = n
  <2> HIDE DEF rank
  <2> QED BY <1>8 DEF Surjection
<1>10. \A n \in 1..N : \E i \in K : Cardinality(upto(i)) = n
  BY <1>9
<1> QED BY <1>2, <1>4, <1>10

\* A list taken at a set of positions is a list of just the elements there,
LEMMA AtPositionsIs ==
    ASSUME NEW T, NEW q \in Seq(T), NEW K, K \subseteq DOMAIN q
    PROVE  /\ AtPositions(q, K) \in Seq(T)
           /\ {AtPositions(q, K)[n] : n \in DOMAIN AtPositions(q, K)} = {q[i] : i \in K}
           /\ (\A i, k \in K : q[i] = q[k] => i = k) =>
                \A m, n \in DOMAIN AtPositions(q, K) :
                    AtPositions(q, K)[m] = AtPositions(q, K)[n] => m = n
<1> DEFINE N == Cardinality(K)
           nth(n) == CHOOSE i \in K : Cardinality({j \in K : j <= i}) = n
           r == AtPositions(q, K)
<1>1. DOMAIN q = 1..Len(q) /\ Len(q) \in Nat /\ \A i \in 1..Len(q) : q[i] \in T
  OBVIOUS
<1>2. K \subseteq 1..Len(q)
  BY <1>1
<1>3. r = [n \in 1..N |-> q[nth(n)]]
  BY DEF AtPositions
<1> HIDE DEF r
<1>4. /\ N \in Nat
      /\ \A n \in 1..N : \E i \in K : Cardinality({j \in K : j <= i}) = n
      /\ \A i \in K : Cardinality({j \in K : j <= i}) \in 1..N
  BY <1>1, <1>2, Ranks
<1>5. \A n \in 1..N : nth(n) \in K /\ Cardinality({j \in K : j <= nth(n)}) = n
  BY <1>4
<1>6. \A i \in K : nth(Cardinality({j \in K : j <= i})) = i
  <2> SUFFICES ASSUME NEW i \in K PROVE nth(Cardinality({j \in K : j <= i})) = i
    OBVIOUS
  <2> DEFINE n == Cardinality({j \in K : j <= i})
             k == nth(n)
  <2>1. n \in 1..N
    BY <1>4
  <2>2. k \in K /\ Cardinality({j \in K : j <= k}) = Cardinality({j \in K : j <= i})
    BY <1>5, <2>1
  <2> HIDE DEF k
  <2>3. i \in Nat /\ k \in Nat
    BY <1>2, <2>2
  <2>4. \A x, y \in K : x < y => Cardinality({j \in K : j <= x}) # Cardinality({j \in K : j <= y})
    BY <1>1, <1>2, RanksDiffer
  <2>5. ~(i < k) /\ ~(k < i)
    BY <2>2, <2>4
  <2> QED BY <2>3, <2>5 DEF k
<1> HIDE DEF nth
<1>7. r \in Seq(T)
  <2>1. \A n \in 1..N : q[nth(n)] \in T
    BY <1>1, <1>2, <1>5
  <2>2. r \in [1..N -> T]
    BY <1>3, <2>1
  <2> QED BY <1>4, <2>2
<1>8. DOMAIN r = 1..N /\ \A n \in 1..N : r[n] = q[nth(n)]
  BY <1>3
<1>9. \A n \in DOMAIN r : r[n] \in {q[i] : i \in K}
  BY <1>5, <1>8
<1>10. \A i \in K : \E n \in DOMAIN r : r[n] = q[i]
  BY <1>4, <1>6, <1>8
<1>11. {r[n] : n \in DOMAIN r} = {q[i] : i \in K}
  BY <1>9, <1>10
<1>12. ASSUME \A i, k \in K : q[i] = q[k] => i = k,
              NEW m \in DOMAIN r, NEW n \in DOMAIN r, r[m] = r[n]
       PROVE  m = n
  <2>1. nth(m) = nth(n)
    BY <1>5, <1>8, <1>12
  <2>2. m \in 1..N /\ n \in 1..N
    BY <1>8, <1>12
  <2>3. /\ Cardinality({j \in K : j <= nth(m)}) = m
        /\ Cardinality({j \in K : j <= nth(n)}) = n
    BY <1>5, <2>2
  <2> QED BY <2>1, <2>3
<1> QED BY <1>7, <1>11, <1>12 DEF r

Occurrences(q, x) == Cardinality({i \in DOMAIN q : q[i] = x})

\* The elements of a list that are x: the head is one of them or not.
LEMMA CountTail ==
    ASSUME NEW T, NEW q \in Seq(T), q # << >>, NEW x
    PROVE  /\ Occurrences(Tail(q), x) \in Nat
           /\ Occurrences(q, x) = Occurrences(Tail(q), x) + (IF Head(q) = x THEN 1 ELSE 0)
<1> DEFINE all == {i \in DOMAIN q : q[i] = x}
           rest == {i \in DOMAIN Tail(q) : Tail(q)[i] = x}
           up == {i \in all : i # 1}
           f == [i \in rest |-> i + 1]
<1> SUFFICES Cardinality(rest) \in Nat /\ Cardinality(all) = Cardinality(rest) + (IF Head(q) = x THEN 1 ELSE 0)
  BY DEF Occurrences
<1>1. /\ Len(q) \in Nat \ {0} /\ DOMAIN q = 1..Len(q) /\ DOMAIN Tail(q) = 1..(Len(q) - 1)
      /\ Head(q) = q[1]
      /\ \A i \in 1..(Len(q) - 1) : Tail(q)[i] = q[i + 1]
  BY HeadTailProperties
<1>2. IsFiniteSet(rest) /\ IsFiniteSet(up)
  <2>1. IsFiniteSet(1..Len(q)) /\ IsFiniteSet(1..(Len(q) - 1))
    BY <1>1, FS_Interval
  <2>2. rest \in SUBSET (1..(Len(q) - 1)) /\ up \in SUBSET (1..Len(q))
    BY <1>1
  <2> QED BY <2>1, <2>2, FS_Subset
<1>3. f \in Bijection(rest, up)
  <2>1. \A i \in rest : i + 1 \in up
    BY <1>1
  <2>2. \A j \in up : \E i \in rest : j = i + 1
    <3> SUFFICES ASSUME NEW j \in up PROVE \E i \in rest : j = i + 1
      OBVIOUS
    <3>1. PICK i \in 1..(Len(q) - 1) : j = i + 1
      BY <1>1
    <3>2. Tail(q)[i] = x
      BY <1>1, <3>1
    <3> QED BY <1>1, <3>1, <3>2
  <2>3. f \in [rest -> up] /\ \A i, k \in rest : f[i] = f[k] => i = k
    BY <1>1, <2>1
  <2> QED BY <2>2, <2>3 DEF Bijection, Injection, Surjection, IsInjective
<1>4. Cardinality(up) = Cardinality(rest)
  BY <1>2, <1>3, FS_Bijection DEF ExistsBijection
<1>5. Cardinality(rest) \in Nat
  BY <1>2, FS_CardinalityType
<1>6. CASE Head(q) = x
  <2>1. all = up \cup {1} /\ 1 \notin up
    BY <1>1, <1>6
  <2>2. Cardinality(all) = Cardinality(up) + 1
    BY <1>2, <2>1, FS_AddElement
  <2> QED BY <1>4, <1>5, <1>6, <2>2
<1>7. CASE Head(q) # x
  <2>1. all = up
    BY <1>1, <1>7
  <2> HIDE DEF all, rest, up
  <2>2. Cardinality(all) = Cardinality(rest)
    BY <1>4, <2>1
  <2>3. Cardinality(all) = Cardinality(rest) + (IF Head(q) = x THEN 1 ELSE 0)
    BY <1>5, <1>7, <2>2
  <2> QED BY <1>5, <2>3 DEF all, rest
<1> QED BY <1>6, <1>7

\* A list and one element more.
LEMMA AppendIs ==
    ASSUME NEW T, NEW q \in Seq(T), NEW x \in T
    PROVE  /\ Append(q, x) \in Seq(T) /\ Append(q, x) # << >>
           /\ Len(q) \in Nat /\ Len(Append(q, x)) = Len(q) + 1
           /\ DOMAIN q = 1..Len(q) /\ DOMAIN Append(q, x) = 1..(Len(q) + 1)
           /\ \A i \in 1..Len(q) : i \in DOMAIN Append(q, x) /\ Append(q, x)[i] = q[i]
           /\ Append(q, x)[Len(q) + 1] = x
           /\ \A i \in DOMAIN Append(q, x) : i \in DOMAIN q \/ i = Len(q) + 1
  BY AppendProperties

\* The elements of a list are of its type.
LEMMA ElementIs ==
    ASSUME NEW T, NEW q \in Seq(T), NEW i \in DOMAIN q
    PROVE  q[i] \in T
  OBVIOUS

\* One position more adds the number there.
LEMMA SumAtIs ==
    ASSUME NEW w, NEW P, IsFiniteSet(P), \A i \in P : w[i] \in Nat
    PROVE  /\ SumAt(w, P) \in Nat
           /\ SumAt(w, {}) = 0
           /\ \A k : k \notin P /\ w[k] \in Nat => SumAt(w, P \cup {k}) = SumAt(w, P) + w[k]
<1> DEFINE part(i) == {i} \X (1..w[i])
           U == UNION {part(i) : i \in P}
<1>1. ASSUME NEW i, w[i] \in Nat PROVE IsFiniteSet(part(i)) /\ Cardinality(part(i)) = w[i]
  <2>1. IsFiniteSet({i}) /\ Cardinality({i}) = 1
    BY FS_Singleton
  <2>2. IsFiniteSet(1..w[i]) /\ Cardinality(1..w[i]) = w[i]
    BY <1>1, FS_Interval
  <2>3. IsFiniteSet(part(i)) /\ Cardinality(part(i)) = Cardinality({i}) * Cardinality(1..w[i])
    BY <2>1, <2>2, FS_Product
  <2> QED BY <1>1, <2>1, <2>2, <2>3
<1>2. IsFiniteSet(U)
  <2> HIDE DEF part
  <2>1. \A x \in {part(i) : i \in P} : IsFiniteSet(x)
    BY <1>1
  <2>2. IsFiniteSet({part(i) : i \in P})
    <3> DEFINE g == [i \in P |-> part(i)]
    <3>1. g \in Surjection(P, {part(i) : i \in P})
      BY DEF Surjection
    <3> QED BY <3>1, FS_Surjection
  <2> QED BY <2>1, <2>2, FS_UNION
<1>3. SumAt(w, P) = Cardinality(U)
  BY DEF SumAt
<1>4. SumAt(w, P) \in Nat
  BY <1>2, <1>3, FS_CardinalityType
<1>5. SumAt(w, {}) = 0
  <2>1. UNION {part(i) : i \in {}} = {}
    OBVIOUS
  <2> QED BY <2>1, FS_EmptySet DEF SumAt
<1>6. ASSUME NEW k, k \notin P, w[k] \in Nat PROVE SumAt(w, P \cup {k}) = SumAt(w, P) + w[k]
  <2>1. IsFiniteSet(part(k)) /\ Cardinality(part(k)) = w[k]
    BY <1>1, <1>6
  <2>2. UNION {part(i) : i \in P \cup {k}} = U \cup part(k)
    <3> HIDE DEF part
    <3> QED OBVIOUS
  <2>3. SumAt(w, P \cup {k}) = Cardinality(U \cup part(k))
    BY <2>2 DEF SumAt
  <2>4. U \cap part(k) = {}
    BY <1>6
  <2>5. Cardinality(U \cup part(k)) = Cardinality(U) + Cardinality(part(k)) - Cardinality(U \cap part(k))
    BY <1>2, <2>1, FS_Union
  <2>6. Cardinality(U \cap part(k)) = 0 /\ Cardinality(U) \in Nat
    BY <1>2, <2>4, FS_EmptySet, FS_CardinalityType
  <2> HIDE DEF U, part
  <2> QED BY <1>3, <1>6, <2>1, <2>3, <2>5, <2>6
<1> QED BY <1>4, <1>5, <1>6

\* A finite set of numbers has a greatest.
LEMMA HasGreatest ==
    ASSUME NEW S, IsFiniteSet(S), S \subseteq Nat, S # {}
    PROVE  \E x \in S : \A y \in S : x >= y
<1>1. PICK n \in Nat : ExistsBijection(1..n, S)
  BY FS_NatBijection
<1>2. PICK q \in Bijection(1..n, S) : TRUE
  BY <1>1 DEF ExistsBijection
<1>3. /\ \A i \in 1..n : q[i] \in S
      /\ \A x \in S : \E i \in 1..n : q[i] = x
  BY <1>2 DEF Bijection, Injection, Surjection
<1>a. \A i \in 1..n : q[i] \in Nat
  BY <1>3
<1> DEFINE best(m) == \E i \in 1..m : \A j \in 1..m : q[i] >= q[j]
           B == {m \in 1..n : ~best(m)}
<1>4. CASE B # {}
  <2>1. PICK m \in B : \A k \in B : m <= k
    <3>1. B \subseteq Nat
      OBVIOUS
    <3> HIDE DEF B
    <3> QED BY <1>4, <3>1, LeastPosition
  <2>2. m \in 1..n /\ ~best(m)
    OBVIOUS
  <2>3. m # 1
    <3>a. m \in 1..n /\ 1 \in 1..n
      OBVIOUS
    <3>1. q[1] \in Nat
      BY <1>a, <3>a
    <3>2. best(1)
      BY <3>1
    <3> QED BY <2>2, <3>2
  <2>4. m - 1 \in 1..n /\ best(m - 1)
    <3>1. m - 1 \in 1..n /\ ~(m <= m - 1)
      BY <2>2, <2>3
    <3>2. m - 1 \notin B
      BY <2>1, <3>1
    <3> QED BY <3>1, <3>2
  <2>5. PICK i \in 1..(m - 1) : \A j \in 1..(m - 1) : q[i] >= q[j]
    BY <2>4
  <2>b. m \in 1..n
    OBVIOUS
  <2> HIDE DEF B, best
  <2>6. \A j \in 1..m : q[j] \in Nat /\ (j = m \/ j \in 1..(m - 1))
    BY <1>a, <2>b
  <2>7. i \in 1..m /\ m \in 1..m
    BY <2>2, <2>5
  <2>8. CASE q[i] >= q[m]
    BY <2>2, <2>5, <2>6, <2>7, <2>8 DEF best
  <2>9. CASE q[m] > q[i]
    <3>1. \A j \in 1..m : q[m] >= q[j]
      <4> SUFFICES ASSUME NEW j \in 1..m PROVE q[m] >= q[j]
        OBVIOUS
      <4>1. q[j] \in Nat /\ q[i] \in Nat /\ q[m] \in Nat
        BY <2>6, <2>7
      <4>2. j = m \/ q[i] >= q[j]
        BY <2>5, <2>6
      <4> QED BY <2>9, <4>1, <4>2
    <3> QED BY <2>2, <2>7, <3>1 DEF best
  <2> QED BY <2>6, <2>7, <2>8, <2>9
<1>5. CASE B = {}
  <2>1. PICK x \in S : TRUE
    OBVIOUS
  <2>2. n \in 1..n
    BY <1>3, <2>1
  <2>3. best(n)
    BY <1>5, <2>2
  <2>4. PICK i \in 1..n : \A j \in 1..n : q[i] >= q[j]
    BY <2>3
  <2> QED BY <1>3, <2>4
<1> QED BY <1>4, <1>5
=============================================================================

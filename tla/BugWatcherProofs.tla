--------------------------- MODULE BugWatcherProofs ---------------------------
(***************************************************************************)
(* Proofs about BugWatcher, for any number of bugs, page size, channel and *)
(* clock: a watch leaves no gap behind what it has sent, and nothing is    *)
(* sent on a closed channel unless a query fails.                          *)
(*                                                                         *)
(* The inductive invariant has five parts: the types; that no record of a  *)
(* change is newer than the tracker's (Past); that the events of a bug     *)
(* reach the indexer in the order of its changes (InOrder); what a watch   *)
(* has covered (Covered); and, as long as every query succeeds, who stops  *)
(* a watch when (Calm).                                                    *)
(***************************************************************************)
EXTENDS BugWatcher, FiniteSetTheorems, TLAPS

Chan == 1..Len(watcher.ch)

\* Nothing has a time of the future, and whoever has a version of a bug of the
\* search has none that is newer than the tracker's.
Past ==
    /\ \A b \in Bugs :
          /\ changed[b] <= clock /\ known[b] <= clock /\ reflector.items[b] <= clock
          /\ b \in Listed => known[b] <= changed[b] /\ reflector.items[b] <= changed[b]
    /\ \A i \in watcher.pending :
          i.at <= clock /\ (i.bug \in Listed => i.at <= changed[i.bug])
    /\ \A n \in Chan : watcher.ch[n] # Failure =>
          /\ watcher.ch[n].at <= clock
          /\ watcher.ch[n].bug \in Listed => watcher.ch[n].at <= changed[watcher.ch[n].bug]
    /\ reflector.rv <= clock /\ watcher.next <= clock
    /\ watcher.from <= watcher.rv /\ (watcher.pc = "send" => watcher.rv <= watcher.next)
    /\ watcher.rv <= clock \/ watcher.rv = watcher.from

\* Of one bug, the indexer has the oldest version, the channel newer ones in their
\* order, and the answer being sent the newest, once.
InOrder ==
    /\ \A m, n \in Chan :
          /\ m < n /\ watcher.ch[m] # Failure /\ watcher.ch[m].bug = watcher.ch[n].bug =>
                watcher.ch[m].at <= watcher.ch[n].at
    /\ \A n \in Chan : watcher.ch[n] # Failure =>
          /\ known[watcher.ch[n].bug] <= watcher.ch[n].at
          /\ \A i \in watcher.pending : i.bug = watcher.ch[n].bug => watcher.ch[n].at <= i.at
    /\ \A i \in watcher.pending :
          known[i.bug] <= i.at /\ \A j \in watcher.pending : i.bug = j.bug => i = j
    /\ watcher.pc # "send" => watcher.pending = {}

\* The indexer has the current version of b, or will get it.
Arrives(b) == known[b] = changed[b] \/ [bug |-> b, at |-> changed[b]] \in OnTheWay

\* While the answer to a query is sent, the watch is covered up to the answer.
Covered ==
    reflector.pc = "watch" /\ ~truncated /\ zone =>
        \A b \in Listed :
            watcher.from <= changed[b] /\
            (changed[b] < watcher.rv \/ (watcher.pc = "send" /\ changed[b] < watcher.next)) =>
                Arrives(b)

\* As long as no query has failed, a watch is stopped by its timer only, or by a
\* reflector that has seen the timer's error.
Calm ==
    faults = 0 =>
        /\ up /\ ~late
        /\ watcher.done \/ (\E n \in Chan : watcher.ch[n] = Failure) => timer \in {"sent", "ended"}
        /\ watcher.pc # "failed"
        /\ watcher.pc = "closed" => watcher.done
        /\ reflector.pc = "list" => watcher.pc = "closed"
        /\ reflector.pc = "stop" => watcher.done

IInv == TypeOK /\ Past /\ InOrder /\ Covered /\ Calm

-----------------------------------------------------------------------------
\* The constants are positive numbers.
LEMMA Positive ==
    /\ NumBugs \in Nat \ {0} /\ ChanSize \in Nat \ {0} /\ MaxTime \in Nat \ {0}
    /\ MaxChanges \in Nat \ {0} /\ MaxFaults \in Nat \ {0}
    /\ \A n \in PageSizes : n \in Nat \ {0}
  BY BugWatcherAssumption

\* A set of numbers that is not empty has a least element.
LEMMA LeastExists ==
    ASSUME NEW T \in SUBSET Nat, T # {}
    PROVE  \E x \in T : \A y \in T : x <= y
<1> DEFINE R == {p \in Nat \X Nat : p[1] < p[2]}
<1>1. IsWellFoundedOn(R, Nat)
  BY NatLessThanWellFounded DEF OpToRel
<1> HIDE DEF R
<1>2. PICK x \in T : \A y \in T : ~(<<y, x>> \in R)
  BY <1>1, WFMin
<1>3. \A y \in T : ~(y < x)
  BY <1>2 DEF R
<1> QED BY <1>3

\* A set of times that is not empty has a latest one.
LEMMA LatestExists ==
    ASSUME NEW S \in SUBSET Times, S # {}
    PROVE  \E t \in S : \A u \in S : u <= t
<1> DEFINE T == {MaxTime - t : t \in S}
<1>0. MaxTime \in Nat
  BY BugWatcherAssumption
<1>1. \A t \in S : t \in Nat /\ MaxTime - t \in Nat
  BY <1>0 DEF Times
<1>2. T \subseteq Nat /\ T # {}
  BY <1>1
<1>3. PICK x \in T : \A y \in T : x <= y
  BY <1>2, LeastExists
<1>4. PICK t \in S : x = MaxTime - t
  BY <1>3
<1>5. \A u \in S : MaxTime - t <= MaxTime - u
  BY <1>3, <1>4
<1> QED BY <1>0, <1>1, <1>5

\* The resource version of a list is the time of its latest change.
LEMMA ResourceVersionOK ==
    ASSUME changed \in [Bugs -> Times], NEW bugs \in SUBSET Listed
    PROVE  /\ ResourceVersion(bugs) \in Times
           /\ \A b \in bugs : changed[b] <= ResourceVersion(bugs)
           /\ bugs # {} => \E b \in bugs : changed[b] = ResourceVersion(bugs)
<1>1. CASE bugs = {}
  BY <1>1, BugWatcherAssumption DEF ResourceVersion, Times
<1>2. CASE bugs # {}
  <2> DEFINE S == {changed[b] : b \in bugs}
  <2>1. S \in SUBSET Times /\ S # {}
    BY <1>2 DEF Listed
  <2>2. PICK t \in S : \A u \in S : u <= t
    BY <2>1, LatestExists
  <2>3. t \in Times /\ (\E b \in bugs : changed[b] = t) /\ \A b \in bugs : changed[b] <= t
    BY <2>1, <2>2
  <2> QED BY <1>2, <2>3 DEF ResourceVersion
<1> QED BY <1>1, <1>2

\* The elements of a channel.
LEMMA ToSetOK ==
    ASSUME NEW S, NEW s \in Seq(S), NEW e
    PROVE  e \in ToSet(s) <=> \E n \in 1..Len(s) : s[n] = e
  BY DEF ToSet

\* Sending and receiving.
LEMMA ChannelOK ==
    ASSUME NEW S, NEW s \in Seq(S)
    PROVE  /\ Len(s) \in Nat
           /\ \A n \in 1..Len(s) : s[n] \in S
           /\ \A x \in S : /\ Append(s, x) \in Seq(S) /\ Len(Append(s, x)) = Len(s) + 1
                           /\ \A n \in 1..Len(s) : Append(s, x)[n] = s[n]
                           /\ Append(s, x)[Len(s) + 1] = x
           /\ s # << >> => /\ Head(s) = s[1] /\ Tail(s) \in Seq(S) /\ Len(Tail(s)) = Len(s) - 1
                           /\ Len(s) > 0
                           /\ \A n \in 1..(Len(s) - 1) : Tail(s)[n] = s[n + 1]
  OBVIOUS

\* Events of bugs are no failures.
LEMMA ItemOK ==
    ASSUME NEW i \in Item
    PROVE  i # Failure /\ i.bug \in Bugs /\ i.at \in Nat /\ i = [bug |-> i.bug, at |-> i.at]
<1>1. i.bug # Failure.bug
  BY BugWatcherAssumption DEF Item, Failure, Bugs
<1> QED BY <1>1, BugWatcherAssumption DEF Item, Times

\* Times are numbers, and the channel holds events.
LEMMA Numbers ==
    ASSUME TypeOK
    PROVE  /\ clock \in Nat /\ clock <= MaxTime /\ MaxTime \in Nat
           /\ \A b \in Bugs : changed[b] \in Nat /\ known[b] \in Nat /\ reflector.items[b] \in Nat
           /\ watcher.rv \in Nat /\ watcher.from \in Nat /\ watcher.next \in Nat
           /\ reflector.rv \in Nat
           /\ \A i \in watcher.pending : i \in Item
           /\ watcher.ch \in Seq(Item \cup {Failure}) /\ Len(watcher.ch) \in Nat
           /\ \A n \in Chan : watcher.ch[n] # Failure => watcher.ch[n] \in Item
<1> USE BugWatcherAssumption
<1>1. clock \in Nat /\ clock <= MaxTime /\ MaxTime \in Nat /\ Times \subseteq Nat
  BY DEF TypeOK, Times
<1>2. \A b \in Bugs : changed[b] \in Nat /\ known[b] \in Nat
  BY <1>1 DEF TypeOK
<1>3. reflector.items \in [Bugs -> Times] /\ reflector.rv \in Times
  BY DEF TypeOK, ReflectorType
<1>4. /\ watcher.rv \in 0..(MaxTime + 1) /\ watcher.from \in 0..(MaxTime + 1)
      /\ watcher.next \in Times /\ watcher.pending \subseteq Item
      /\ watcher.ch \in Seq(Item \cup {Failure})
  BY DEF TypeOK, WatcherType
<1>5. Len(watcher.ch) \in Nat /\ \A n \in Chan : watcher.ch[n] \in Item \cup {Failure}
  BY <1>4, ChannelOK DEF Chan
<1>6. watcher.rv \in Nat /\ watcher.from \in Nat
  BY <1>1, <1>4
<1>7. watcher.next \in Nat /\ reflector.rv \in Nat /\ \A b \in Bugs : reflector.items[b] \in Nat
  BY <1>1, <1>3, <1>4
<1> QED BY <1>1, <1>2, <1>4, <1>5, <1>6, <1>7

-----------------------------------------------------------------------------
\* Time passes.
LEMMA TickStep == ASSUME IInv, Tick PROVE IInv'
<1>1. /\ clock' = clock + 1 /\ clock < MaxTime /\ TypeOK
      /\ UNCHANGED <<tracker, zone, pageSize, hidden, changes, changed, reflector, known, phantom,
                     watcher, timer, late, faults, truncated, up>>
  BY DEF Tick, IInv
<1>2. TypeOK'
  BY <1>1, Numbers DEF TypeOK
<1>3. Past'
  <2>1. \A x \in Nat : x <= clock => x <= clock'
    BY <1>1, Numbers
  <2>2. \A n \in Chan : watcher.ch[n] # Failure => watcher.ch[n].at \in Nat
    BY <1>1, Numbers, ItemOK
  <2>3. \A i \in watcher.pending : i.at \in Nat
    BY <1>1, Numbers, ItemOK
  <2> QED BY <1>1, <2>1, <2>2, <2>3, Numbers DEF IInv, Past, Listed, Chan
<1>4. InOrder' /\ Covered' /\ Calm'
  BY <1>1 DEF IInv, InOrder, Covered, Calm, Chan, Arrives, OnTheWay, Listed
<1> QED BY <1>2, <1>3, <1>4 DEF IInv

\* A bug changes now, which is not before the next query, or leaves the search.
LEMMA ChangeStep == ASSUME IInv, NEW b \in Bugs, Change(b) PROVE IInv'
<1>1. /\ UNCHANGED <<tracker, zone, pageSize, hidden, clock, reflector, known, phantom,
                     watcher, timer, late, faults, truncated, up>>
      /\ changes < MaxChanges /\ changes' = changes + 1 /\ TypeOK
  BY DEF Change, IInv
<1>2. PICK t \in {0, clock} : changed' = [changed EXCEPT ![b] = t]
  BY DEF Change
<1>3. /\ changed' \in [Bugs -> Times] /\ changed'[b] = t
      /\ \A x \in Bugs \ {b} : changed'[x] = changed[x]
  BY <1>1, <1>2, BugWatcherAssumption DEF TypeOK, Times
<1>4. TypeOK'
  <2>1. changes' \in 0..MaxChanges
    BY <1>1, Positive DEF TypeOK
  <2> QED BY <1>1, <1>3, <2>1 DEF TypeOK
<1>5. \A x \in Bugs : x \in Listed' => (x = b /\ t = clock) \/ (x # b /\ x \in Listed)
  BY <1>3 DEF Listed
<1>6. Past'
  <2>1. \A x \in Bugs : /\ changed'[x] <= clock
                        /\ x \in Listed' => known[x] <= changed'[x] /\ reflector.items[x] <= changed'[x]
    BY <1>1, <1>3, <1>5, Numbers DEF IInv, Past
  <2>2. \A i \in watcher.pending : i.bug \in Listed' => i.at <= changed'[i.bug]
    BY <1>1, <1>3, <1>5, Numbers, ItemOK DEF IInv, Past
  <2>3. \A n \in Chan : watcher.ch[n] # Failure /\ watcher.ch[n].bug \in Listed' =>
                           watcher.ch[n].at <= changed'[watcher.ch[n].bug]
    BY <1>1, <1>3, <1>5, Numbers, ItemOK DEF IInv, Past
  <2> QED BY <1>1, <2>1, <2>2, <2>3 DEF IInv, Past, Chan
<1>7. InOrder' /\ Calm'
  BY <1>1 DEF IInv, InOrder, Calm, Chan
<1>8. Covered'
  <2> SUFFICES ASSUME reflector.pc = "watch", ~truncated, zone, NEW x \in Listed',
                      watcher.from <= changed'[x],
                      changed'[x] < watcher.rv \/ (watcher.pc = "send" /\ changed'[x] < watcher.next)
               PROVE  Arrives(x)'
    BY <1>1 DEF Covered
  <2>1. x \in Bugs
    BY DEF Listed
  <2>2. x # b
    <3>1. watcher.next <= clock /\ (watcher.rv <= clock \/ watcher.rv = watcher.from)
      BY DEF IInv, Past
    <3> QED BY <1>1, <1>3, <1>5, <2>1, <3>1, Numbers
  <2>3. x \in Listed /\ changed'[x] = changed[x]
    BY <1>3, <1>5, <2>1, <2>2
  <2>4. Arrives(x)
    BY <1>1, <2>3 DEF IInv, Covered
  <2> QED BY <1>1, <2>3, <2>4 DEF Arrives, OnTheWay
<1> QED BY <1>4, <1>6, <1>7, <1>8 DEF IInv

-----------------------------------------------------------------------------
\* A new watch starts with the second after the list, and with nothing to send.
LEMMA NewWatch ==
    ASSUME IInv, reflector.pc = "list",
           NEW rv \in Times, rv <= clock, NEW paged \in BOOLEAN, NEW items \in [Bugs -> Times],
           \A b \in Bugs : items[b] <= clock /\ (b \in Listed => items[b] <= changed[b]),
           known' = items, phantom' \in BOOLEAN, truncated' \in BOOLEAN,
           reflector' = [NewReflector EXCEPT !.pc = "watch", !.paged = paged, !.lastSync = rv],
           newPeriodicWatcher(rv), UNCHANGED <<tracked, faults, up>>
    PROVE  IInv'
<1>0. TypeOK /\ UNCHANGED <<tracker, zone, pageSize, hidden, clock, changes, changed>>
  BY DEF IInv, tracked
<1>1. /\ watcher'.pc = "wait" /\ watcher'.rv = rv + 1 /\ watcher'.from = rv + 1
      /\ watcher'.pending = {} /\ watcher'.next = 0 /\ watcher'.ch = << >> /\ ~watcher'.done
      /\ watcher' \in WatcherType /\ timer' = "armed"
  <2>1. rv + 1 \in 0..(MaxTime + 1) /\ 0 \in Times
    BY Positive DEF Times
  <2> QED BY <2>1 DEF newPeriodicWatcher, WatcherType
<1>2. /\ reflector' \in ReflectorType /\ reflector'.pc = "watch"
      /\ reflector'.rv = 0 /\ \A b \in Bugs : reflector'.items[b] = 0
  <2>1. NoItems \in [Bugs -> Times] /\ 0 \in Times /\ 0 \in 0..NumBugs /\ \A b \in Bugs : NoItems[b] = 0
    BY Positive DEF NoItems, Times
  <2> QED BY <2>1 DEF NewReflector, ReflectorType
<1>3. late' \in BOOLEAN /\ (timer \in {"sent", "ended"} => late' = late)
  BY <1>0 DEF newPeriodicWatcher, TypeOK
<1>4. TypeOK'
  <2>1. Len(watcher'.ch) <= ChanSize
    BY <1>1, Positive
  <2> QED BY <1>0, <1>1, <1>2, <1>3, <2>1 DEF TypeOK
<1>5. Past'
  <2>1. \A b \in Bugs : changed[b] <= clock
    BY DEF IInv, Past
  <2>2. Listed' = Listed /\ Chan' = {}
    BY <1>0, <1>1 DEF Listed, Chan
  <2>3. \A b \in Bugs : 0 <= clock /\ 0 <= changed[b]
    BY <1>0, Numbers
  <2>4. 0 <= clock /\ rv + 1 <= rv + 1
    BY <1>0, Numbers DEF Times
  <2> QED BY <1>0, <1>1, <1>2, <2>1, <2>2, <2>3, <2>4 DEF Past
<1>6. InOrder'
  <2>1. Chan' = {}
    BY <1>1 DEF Chan
  <2> QED BY <1>1, <2>1 DEF InOrder
<1>7. Covered'
  <2>1. \A b \in Bugs : ~(rv + 1 <= changed'[b] /\ changed'[b] < rv + 1)
    BY <1>0, Numbers DEF Times
  <2> QED BY <1>0, <1>1, <2>1 DEF Covered, Listed
<1>8. Calm'
  <2>1. Chan' = {}
    BY <1>1 DEF Chan
  <2>2. faults = 0 => timer \in {"sent", "ended"} /\ up /\ ~late
    BY DEF IInv, Calm
  <2> QED BY <1>0, <1>1, <1>2, <1>3, <2>1, <2>2 DEF Calm
<1> QED BY <1>4, <1>5, <1>6, <1>7, <1>8 DEF IInv

\* A page holds bugs of the search, and if there are more the next one begins
\* within them.
LEMMA PageOK ==
    ASSUME TypeOK
    PROVE  /\ Page.bugs \in SUBSET Listed /\ Page.more \in BOOLEAN /\ Page.empty \in BOOLEAN
           /\ Page.more => reflector.offset + pageSize \in 0..NumBugs
<1>1. IsFiniteSet(Bugs) /\ Cardinality(Bugs) = NumBugs
  BY Positive, FS_Interval DEF Bugs
<1>2. Listed \in SUBSET Bugs
  BY DEF Listed
<1>3. IsFiniteSet(Listed) /\ Cardinality(Listed) <= NumBugs
  BY <1>1, <1>2, FS_Subset
<1>4. Cardinality(Listed) \in Nat
  BY <1>3, FS_CardinalityType
<1>5. reflector.offset \in Nat /\ pageSize \in Nat
  BY Positive DEF TypeOK, ReflectorType
<1>6. Page.more <=> Cardinality(Listed) > reflector.offset + pageSize
  BY DEF Page
<1>7. Page.bugs \in SUBSET Listed /\ Page.more \in BOOLEAN /\ Page.empty \in BOOLEAN
  BY DEF Page
<1> QED BY <1>3, <1>4, <1>5, <1>6, <1>7, Positive

\* What the pager has after a page is not newer than the tracker's.
LEMMA CollectedOK ==
    ASSUME IInv
    PROVE  LET r == Collected(Page) IN
           /\ r.items \in [Bugs -> Times] /\ r.rv \in Times /\ r.rv <= clock
           /\ r.phantom \in BOOLEAN /\ r.paged = reflector.paged
           /\ \A b \in Bugs : r.items[b] <= clock /\ (b \in Listed => r.items[b] <= changed[b])
           /\ Page.more => r \in ReflectorType
           /\ r.pc = reflector.pc
<1> DEFINE items == [b \in Bugs |-> IF b \in Page.bugs THEN changed[b] ELSE reflector.items[b]]
           phan == reflector.phantom \/ Page.empty
           rv == IF reflector.offset = 0 THEN ResourceVersion(Page.bugs) ELSE reflector.rv
           offset == reflector.offset + pageSize
           r == [reflector EXCEPT !.items = items, !.phantom = phan, !.rv = rv, !.offset = offset]
<1>0. TypeOK /\ Past /\ reflector \in ReflectorType
  BY DEF IInv, TypeOK
<1>1. Collected(Page) = r
  BY DEF Collected
<1>2. Page.bugs \in SUBSET Listed /\ Page.empty \in BOOLEAN /\ (Page.more => offset \in 0..NumBugs)
  BY <1>0, PageOK
<1>3. /\ items \in [Bugs -> Times]
      /\ \A b \in Bugs : items[b] <= clock /\ (b \in Listed => items[b] <= changed[b])
  <2>1. items \in [Bugs -> Times]
    BY <1>0, <1>2 DEF TypeOK, ReflectorType
  <2>2. \A b \in Bugs : items[b] \in {changed[b], reflector.items[b]}
    OBVIOUS
  <2>3. \A b \in Bugs : /\ changed[b] \in Nat /\ changed[b] <= clock /\ reflector.items[b] <= clock
                        /\ b \in Listed => reflector.items[b] <= changed[b]
    BY <1>0, Numbers DEF Past
  <2> HIDE DEF items
  <2> QED BY <2>1, <2>2, <2>3
<1>4. rv \in Times /\ rv <= clock
  <2>1. changed \in [Bugs -> Times]
    BY <1>0 DEF TypeOK
  <2>2. ResourceVersion(Page.bugs) \in Times /\
        (Page.bugs # {} => \E b \in Page.bugs : changed[b] = ResourceVersion(Page.bugs))
    BY <1>2, <2>1, ResourceVersionOK
  <2>3. ResourceVersion(Page.bugs) <= clock
    <3>1. CASE Page.bugs = {}
      BY <3>1, <1>0, Numbers DEF ResourceVersion
    <3>2. CASE Page.bugs # {}
      BY <3>2, <1>0, <1>2, <2>2 DEF Past, Listed
    <3> QED BY <3>1, <3>2
  <2>4. reflector.rv \in Times /\ reflector.rv <= clock
    BY <1>0 DEF Past, ReflectorType
  <2> QED BY <2>2, <2>3, <2>4
<1>5. phan \in BOOLEAN
  BY <1>0, <1>2 DEF ReflectorType
<1> HIDE DEF items, rv, phan, offset
<1>6. /\ r.items = items /\ r.phantom = phan /\ r.rv = rv /\ r.paged = reflector.paged
      /\ r.pc = reflector.pc
      /\ offset \in 0..NumBugs => r \in ReflectorType
  BY <1>0, <1>3, <1>4, <1>5 DEF ReflectorType
<1> HIDE DEF r
<1> QED BY <1>1, <1>2, <1>3, <1>4, <1>5, <1>6

\* A step that leaves the watch alone while the reflector is listing.
LEMMA ListingOn ==
    ASSUME IInv, reflector.pc = "list",
           NEW r \in ReflectorType, reflector' = r, r.pc = "list", r.rv <= clock,
           \A b \in Bugs : r.items[b] <= clock /\ (b \in Listed => r.items[b] <= changed[b]),
           faults' \in 0..MaxFaults, faults' = 0 => faults = 0,
           UNCHANGED <<tracked, known, phantom, watcher, timer, late, truncated, up>>
    PROVE  IInv'
<1>1. UNCHANGED <<tracker, zone, pageSize, hidden, clock, changes, changed>>
  BY DEF tracked
<1>2. TypeOK'
  BY <1>1 DEF IInv, TypeOK
<1>3. Past'
  BY <1>1 DEF IInv, Past, Listed, Chan
<1>4. InOrder' /\ Covered'
  BY <1>1 DEF IInv, InOrder, Covered, Chan
<1>5. Calm'
  BY <1>1 DEF IInv, Calm, Chan
<1> QED BY <1>2, <1>3, <1>4, <1>5 DEF IInv

\* A page is read, which may be the last one.
LEMMA ListPageStep == ASSUME IInv, ListPage PROVE IInv'
<1> DEFINE r == Collected(Page)
<1>1. /\ r.items \in [Bugs -> Times] /\ r.rv \in Times /\ r.rv <= clock
      /\ r.phantom \in BOOLEAN /\ r.paged = reflector.paged
      /\ \A b \in Bugs : r.items[b] <= clock /\ (b \in Listed => r.items[b] <= changed[b])
      /\ Page.more => r \in ReflectorType
      /\ r.pc = reflector.pc
  BY CollectedOK
<1>2. /\ reflector.pc = "list" /\ UNCHANGED <<tracked, faults, truncated, up>>
      /\ IF Page.more
         THEN reflector' = r /\ UNCHANGED <<known, phantom, watcher, timer, late>>
         ELSE Replace([r EXCEPT !.paged = @ \/ (reflector.lastSync = 0 /\ reflector.offset > 0)])
  BY DEF ListPage
<1>3. reflector.paged \in BOOLEAN /\ truncated \in BOOLEAN /\ faults \in 0..MaxFaults
  BY DEF IInv, TypeOK, ReflectorType
<1>4. CASE Page.more
  <2> HIDE DEF r
  <2>1. reflector' = r /\ UNCHANGED <<known, phantom, watcher, timer, late>>
    BY <1>2, <1>4
  <2> QED BY <1>1, <1>2, <1>3, <1>4, <2>1, ListingOn
<1>5. CASE ~Page.more
  <2> DEFINE paged == reflector.paged \/ (reflector.lastSync = 0 /\ reflector.offset > 0)
             q == [r EXCEPT !.paged = paged]
  <2>1. Replace(q)
    <3>1. q = [r EXCEPT !.paged = @ \/ (reflector.lastSync = 0 /\ reflector.offset > 0)]
      BY <1>1
    <3> QED BY <1>2, <1>5, <3>1
  <2>2. q.items = r.items /\ q.rv = r.rv /\ q.phantom = r.phantom /\ q.paged = paged
    BY DEF Collected
  <2>3. paged \in BOOLEAN
    BY <1>3
  <2> HIDE DEF q, r, paged
  <2>4. /\ known' = q.items /\ phantom' = q.phantom
        /\ reflector' = [NewReflector EXCEPT !.pc = "watch", !.paged = q.paged, !.lastSync = q.rv]
        /\ newPeriodicWatcher(q.rv)
    BY <2>1 DEF Replace
  <2> QED BY <1>1, <1>2, <1>3, <2>2, <2>3, <2>4, NewWatch
<1> QED BY <1>4, <1>5

\* What a query of jira finds.
LEMMA SearchIssuesOK ==
    ASSUME NEW S, NEW found \in SUBSET S, NEW issues \in SearchIssues(found)
    PROVE  issues \in SUBSET found
  BY DEF SearchIssues

\* A list without pages.
LEMMA ListAllStep == ASSUME IInv, ListAll PROVE IInv'
<1>0. TypeOK /\ Past /\ changed \in [Bugs -> Times] /\ reflector \in ReflectorType
  BY DEF IInv, TypeOK
<1>1. PICK found \in IF tracker = "bugzilla" THEN {Listed} ELSE SearchIssues(Listed) :
         /\ Replace([reflector EXCEPT
                        !.items = [b \in Bugs |-> IF b \in found \ hidden THEN changed[b] ELSE 0],
                        !.rv = ResourceVersion(found \ hidden)])
         /\ truncated' = (truncated \/ found # Listed)
  BY DEF ListAll
<1>2. found \ hidden \in SUBSET Listed
  BY SearchIssuesOK
<1> DEFINE items == [b \in Bugs |-> IF b \in found \ hidden THEN changed[b] ELSE 0]
           rv == ResourceVersion(found \ hidden)
           q == [reflector EXCEPT !.items = items, !.rv = rv]
<1>3. rv \in Times /\ (found \ hidden # {} => \E b \in found \ hidden : changed[b] = rv)
  BY <1>0, <1>2, ResourceVersionOK
<1>4. rv <= clock
  <2>1. CASE found \ hidden = {}
    BY <2>1, <1>0, Numbers DEF ResourceVersion
  <2>2. CASE found \ hidden # {}
    BY <2>2, <1>0, <1>2, <1>3 DEF Past, Listed
  <2> QED BY <2>1, <2>2
<1>5. /\ items \in [Bugs -> Times]
      /\ \A b \in Bugs : items[b] <= clock /\ (b \in Listed => items[b] <= changed[b])
  <2>1. 0 \in Times
    BY Positive DEF Times
  <2>2. \A b \in Bugs : items[b] \in {0, changed[b]} /\ changed[b] \in Nat /\ changed[b] <= clock
    BY <1>0, Numbers DEF Past
  <2>3. items \in [Bugs -> Times]
    BY <1>0, <2>1
  <2>4. clock \in Nat
    BY <1>0, Numbers
  <2> HIDE DEF items
  <2> QED BY <2>2, <2>3, <2>4
<1>6. Replace(q)
  BY <1>1
<1> HIDE DEF items, rv
<1>7. q.items = items /\ q.rv = rv /\ q.phantom \in BOOLEAN /\ q.paged \in BOOLEAN
  BY <1>0, <1>3, <1>5 DEF ReflectorType
<1> HIDE DEF q
<1>8. /\ known' = q.items /\ phantom' = q.phantom
      /\ reflector' = [NewReflector EXCEPT !.pc = "watch", !.paged = q.paged, !.lastSync = q.rv]
      /\ newPeriodicWatcher(q.rv)
  BY <1>6 DEF Replace
<1>9. reflector.pc = "list" /\ UNCHANGED <<tracked, faults, up>> /\ truncated' \in BOOLEAN
  BY <1>0, <1>1 DEF ListAll, TypeOK
<1> QED BY <1>3, <1>4, <1>5, <1>7, <1>8, <1>9, NewWatch

\* The query of a list fails.
LEMMA ListFailsStep == ASSUME IInv, ListFails PROVE IInv'
<1>1. /\ reflector.pc = "list" /\ faults < MaxFaults /\ faults' = faults + 1
      /\ reflector' = [NewReflector EXCEPT !.paged = reflector.paged, !.lastSync = reflector.lastSync]
      /\ UNCHANGED <<tracked, known, phantom, watcher, timer, late, truncated, up>>
      /\ TypeOK /\ reflector \in ReflectorType
  BY DEF ListFails, IInv, TypeOK
<1>2. faults' \in 0..MaxFaults /\ faults' # 0
  BY <1>1, Positive DEF TypeOK
<1>3. reflector.paged \in BOOLEAN /\ reflector.lastSync \in Times
  BY <1>1 DEF ReflectorType
<1>4. /\ reflector' \in ReflectorType /\ reflector'.pc = "list"
      /\ reflector'.rv = 0 /\ \A b \in Bugs : reflector'.items[b] = 0
  <2>1. NoItems \in [Bugs -> Times] /\ 0 \in Times /\ 0 \in 0..NumBugs /\ \A b \in Bugs : NoItems[b] = 0
    BY Positive DEF NoItems, Times
  <2> QED BY <1>1, <1>3, <2>1 DEF NewReflector, ReflectorType
<1>5. reflector'.rv <= clock /\
      \A b \in Bugs : reflector'.items[b] <= clock /\ (b \in Listed => reflector'.items[b] <= changed[b])
  <2>1. clock \in Nat /\ \A b \in Bugs : changed[b] \in Nat
    BY <1>1, Numbers
  <2> QED BY <1>4, <2>1
<1> QED BY <1>1, <1>2, <1>4, <1>5, ListingOn

-----------------------------------------------------------------------------
\* A step in which the watcher neither sends nor gets an answer.
LEMMA Quiet ==
    ASSUME IInv, watcher' \in WatcherType,
           watcher'.ch = watcher.ch, watcher'.pending = watcher.pending, watcher'.rv = watcher.rv,
           watcher'.from = watcher.from, watcher'.next = watcher.next,
           watcher'.pc = "send" <=> watcher.pc = "send",
           UNCHANGED <<tracked, reflector, known, phantom, truncated>>
    PROVE  /\ Past' /\ InOrder' /\ Covered'
           /\ UNCHANGED <<tracker, zone, pageSize, hidden, clock, changes, changed>>
<1>1. UNCHANGED <<tracker, zone, pageSize, hidden, clock, changes, changed>>
  BY DEF tracked
<1>2. Chan' = Chan /\ Listed' = Listed
  BY <1>1 DEF Chan, Listed
<1>3. Past' /\ InOrder'
  BY <1>1, <1>2 DEF IInv, Past, InOrder
<1>4. Covered'
  BY <1>1, <1>2 DEF IInv, Covered, Arrives, OnTheWay
<1> QED BY <1>1, <1>3, <1>4

\* run asks, is told of an error, ends, or is stopped by the timer.
LEMMA QuietStep ==
    ASSUME IInv, Ask \/ QueryFails \/ Close \/ TimerStops
    PROVE  IInv'
<1>0. TypeOK /\ watcher \in WatcherType
  BY DEF IInv, TypeOK
<1>1. CASE Ask
  <2>1. /\ watcher' \in WatcherType
        /\ watcher'.ch = watcher.ch /\ watcher'.pending = watcher.pending /\ watcher'.rv = watcher.rv
        /\ watcher'.from = watcher.from /\ watcher'.next = watcher.next
        /\ watcher'.pc = "asked" /\ watcher'.done = watcher.done
    BY <1>0, <1>1 DEF Ask, WatcherType
  <2>2. UNCHANGED <<tracked, reflector, known, phantom, late, truncated, up>> /\ UNCHANGED timer
        /\ UNCHANGED faults
    BY <1>0, <1>1, Positive DEF Ask, TypeOK
  <2>3. watcher'.pc = "send" <=> watcher.pc = "send"
    BY <1>1, <2>1 DEF Ask
  <2>4. /\ Past' /\ InOrder' /\ Covered'
        /\ UNCHANGED <<tracker, zone, pageSize, hidden, clock, changes, changed>>
    BY <2>1, <2>2, <2>3, Quiet
  <2>5. TypeOK'
    BY <1>0, <2>1, <2>2, <2>4 DEF TypeOK
  <2>6. Calm'
    <3>1. Chan' = Chan
      BY <2>1 DEF Chan
    <3> QED BY <1>1, <2>1, <2>2, <3>1 DEF Ask, IInv, Calm
  <2> QED BY <2>4, <2>5, <2>6 DEF IInv
<1>2. CASE QueryFails
  <2>1. /\ watcher' \in WatcherType
        /\ watcher'.ch = watcher.ch /\ watcher'.pending = watcher.pending /\ watcher'.rv = watcher.rv
        /\ watcher'.from = watcher.from /\ watcher'.next = watcher.next
        /\ watcher'.pc = "failed" /\ watcher'.done = watcher.done
    BY <1>0, <1>2 DEF QueryFails, WatcherType
  <2>2. UNCHANGED <<tracked, reflector, known, phantom, late, truncated, up>> /\ UNCHANGED timer
        /\ faults' \in 0..MaxFaults /\ faults' # 0
    BY <1>0, <1>2, Positive DEF QueryFails, TypeOK
  <2>3. watcher'.pc = "send" <=> watcher.pc = "send"
    BY <1>2, <2>1 DEF QueryFails
  <2>4. /\ Past' /\ InOrder' /\ Covered'
        /\ UNCHANGED <<tracker, zone, pageSize, hidden, clock, changes, changed>>
    BY <2>1, <2>2, <2>3, Quiet
  <2>5. TypeOK'
    BY <1>0, <2>1, <2>2, <2>4 DEF TypeOK
  <2>6. Calm'
    <3>1. Chan' = Chan
      BY <2>1 DEF Chan
    <3> QED BY <1>2, <2>1, <2>2, <3>1 DEF QueryFails, IInv, Calm
  <2> QED BY <2>4, <2>5, <2>6 DEF IInv
<1>3. CASE Close
  <2>1. /\ watcher' \in WatcherType
        /\ watcher'.ch = watcher.ch /\ watcher'.pending = watcher.pending /\ watcher'.rv = watcher.rv
        /\ watcher'.from = watcher.from /\ watcher'.next = watcher.next
        /\ watcher'.pc = "closed" /\ watcher'.done = watcher.done
    BY <1>0, <1>3 DEF Close, WatcherType
  <2>2. UNCHANGED <<tracked, reflector, known, phantom, late, truncated, up>> /\ UNCHANGED timer
        /\ UNCHANGED faults
    BY <1>0, <1>3, Positive DEF Close, TypeOK
  <2>3. watcher'.pc = "send" <=> watcher.pc = "send"
    BY <1>3, <2>1 DEF Close
  <2>4. /\ Past' /\ InOrder' /\ Covered'
        /\ UNCHANGED <<tracker, zone, pageSize, hidden, clock, changes, changed>>
    BY <2>1, <2>2, <2>3, Quiet
  <2>5. TypeOK'
    BY <1>0, <2>1, <2>2, <2>4 DEF TypeOK
  <2>6. Calm'
    <3>1. Chan' = Chan
      BY <2>1 DEF Chan
    <3> QED BY <1>3, <2>1, <2>2, <3>1 DEF Close, IInv, Calm
  <2> QED BY <2>4, <2>5, <2>6 DEF IInv
<1>4. CASE TimerStops
  <2>1. /\ watcher' \in WatcherType
        /\ watcher'.ch = watcher.ch /\ watcher'.pending = watcher.pending /\ watcher'.rv = watcher.rv
        /\ watcher'.from = watcher.from /\ watcher'.next = watcher.next
        /\ watcher'.pc = watcher.pc /\ watcher'.done = TRUE
    BY <1>0, <1>4 DEF TimerStops, WatcherType
  <2>2. UNCHANGED <<tracked, reflector, known, phantom, late, truncated, up>> /\ timer' = "ended"
        /\ UNCHANGED faults
    BY <1>0, <1>4, Positive DEF TimerStops, TypeOK
  <2>3. watcher'.pc = "send" <=> watcher.pc = "send"
    BY <1>4, <2>1 DEF TimerStops
  <2>4. /\ Past' /\ InOrder' /\ Covered'
        /\ UNCHANGED <<tracker, zone, pageSize, hidden, clock, changes, changed>>
    BY <2>1, <2>2, <2>3, Quiet
  <2>5. TypeOK'
    BY <1>0, <2>1, <2>2, <2>4 DEF TypeOK
  <2>6. Calm'
    <3>1. Chan' = Chan
      BY <2>1 DEF Chan
    <3> QED BY <1>4, <2>1, <2>2, <3>1 DEF TimerStops, IInv, Calm
  <2> QED BY <2>4, <2>5, <2>6 DEF IInv
<1> QED BY <1>1, <1>2, <1>3, <1>4

\* The answer has been sent, and the next query starts where it ended.
LEMMA SentStep == ASSUME IInv, Sent PROVE IInv'
<1>0. TypeOK /\ watcher \in WatcherType
  BY DEF IInv, TypeOK
<1>1. /\ watcher' \in WatcherType /\ watcher.pc = "send" /\ watcher'.pc = "wait"
      /\ watcher'.ch = watcher.ch /\ watcher'.pending = {} /\ watcher.pending = {}
      /\ watcher'.rv = watcher.next /\ watcher'.done = watcher.done
      /\ watcher'.from = watcher.from /\ watcher'.next = watcher.next
  <2>1. watcher.next \in 0..(MaxTime + 1)
    BY <1>0, Positive DEF WatcherType, Times
  <2> QED BY <1>0, <2>1 DEF Sent, WatcherType
<1>2. /\ UNCHANGED <<tracked, reflector, known, phantom, timer, late, faults, truncated, up>>
      /\ UNCHANGED <<tracker, zone, pageSize, hidden, clock, changes, changed>>
  BY DEF Sent, tracked
<1>3. Chan' = Chan /\ Listed' = Listed
  BY <1>1, <1>2 DEF Chan, Listed
<1>4. TypeOK'
  BY <1>0, <1>1, <1>2 DEF TypeOK
<1>5. watcher.from <= watcher.next /\ watcher.next <= clock
  BY <1>0, <1>1, Numbers DEF IInv, Past
<1>6. Past' /\ InOrder'
  BY <1>1, <1>2, <1>3, <1>5 DEF IInv, Past, InOrder
<1>7. Covered'
  BY <1>1, <1>2, <1>3 DEF IInv, Covered, Arrives, OnTheWay
<1>8. Calm'
  BY <1>1, <1>2, <1>3 DEF IInv, Calm
<1> QED BY <1>4, <1>6, <1>7, <1>8 DEF IInv

\* An answer without cuts has every bug that changed since rv, and everything in
\* it up to the newest change is sent.
LEMMA AnsweredOK ==
    ASSUME IInv, NEW bugs \in SUBSET Listed, Answered(bugs), watcher.pc = "asked",
           truncated' \in BOOLEAN,
           ~truncated' /\ zone => ~truncated /\ \A b \in Listed : changed[b] >= watcher.rv => b \in bugs,
           UNCHANGED <<tracked, reflector, known, phantom, timer, late, faults, up>>
    PROVE  IInv'
<1> DEFINE next == ResourceVersion(bugs)
           late2 == {x \in bugs : changed[x] >= watcher.rv}
           items == {[bug |-> b, at |-> changed[b]] : b \in late2}
<1>0. TypeOK /\ watcher \in WatcherType /\ changed \in [Bugs -> Times] /\ Past /\ InOrder
  BY DEF IInv, TypeOK
<1>1. UNCHANGED <<tracker, zone, pageSize, hidden, clock, changes, changed>>
  BY DEF tracked
<1>2. /\ next \in Times /\ \A b \in bugs : changed[b] <= next
      /\ bugs # {} => \E b \in bugs : changed[b] = next
  BY <1>0, ResourceVersionOK
<1>3. next <= clock
  <2>1. CASE bugs = {}
    BY <2>1, <1>0, Numbers DEF ResourceVersion
  <2>2. CASE bugs # {}
    BY <2>2, <1>0, <1>2 DEF Past, Listed
  <2> QED BY <2>1, <2>2
<1>4. items \in SUBSET Item
  BY <1>0 DEF Item, Listed
<1>5. CASE next <= watcher.rv
  <2>1. watcher' = [watcher EXCEPT !.pc = "wait"]
    BY <1>5 DEF Answered
  <2>2. /\ watcher' \in WatcherType /\ watcher'.pc = "wait" /\ watcher'.done = watcher.done
        /\ watcher'.ch = watcher.ch /\ watcher'.pending = watcher.pending /\ watcher'.rv = watcher.rv
        /\ watcher'.from = watcher.from /\ watcher'.next = watcher.next
    BY <1>0, <2>1 DEF WatcherType
  <2>3. Chan' = Chan /\ Listed' = Listed
    BY <1>1, <2>2 DEF Chan, Listed
  <2>4. TypeOK'
    BY <1>0, <1>1, <2>2 DEF TypeOK
  <2>5. Past' /\ InOrder'
    BY <1>0, <1>1, <2>2, <2>3 DEF Past, InOrder
  <2>6. Covered'
    BY <1>1, <2>2, <2>3 DEF IInv, Covered, Arrives, OnTheWay
  <2>7. Calm'
    BY <2>2, <2>3 DEF IInv, Calm
  <2> QED BY <2>4, <2>5, <2>6, <2>7 DEF IInv
<1>6. CASE ~(next <= watcher.rv)
  <2>1. watcher' = [watcher EXCEPT !.pc = "send", !.next = next, !.pending = items]
    BY <1>6 DEF Answered
  <2> HIDE DEF next
  <2>2. \A i : i \in items <=> \E b \in bugs : changed[b] >= watcher.rv /\ i = [bug |-> b, at |-> changed[b]]
    OBVIOUS
  <2> HIDE DEF items
  <2>3. /\ watcher' \in WatcherType /\ watcher'.pc = "send" /\ watcher'.done = watcher.done
        /\ watcher'.ch = watcher.ch /\ watcher'.pending = items /\ watcher'.rv = watcher.rv
        /\ watcher'.from = watcher.from /\ watcher'.next = next
    BY <1>0, <1>2, <1>4, <2>1 DEF WatcherType
  <2>4. Chan' = Chan /\ Listed' = Listed
    BY <1>1, <2>3 DEF Chan, Listed
  <2>5. TypeOK'
    BY <1>0, <1>1, <2>3 DEF TypeOK
  <2>6. \A i \in items : i.bug \in Listed /\ i.bug \in Bugs /\ i.at = changed[i.bug]
    BY <2>2 DEF Listed
  <2>7. Past'
    <3>1. \A i \in items : i.at <= clock /\ i.at <= changed[i.bug]
      BY <1>0, <2>6, Numbers DEF Past
    <3>2. watcher.rv <= next
      BY <1>0, <1>2, <1>6, Numbers DEF Times
    <3> QED BY <1>0, <1>1, <1>3, <2>3, <2>4, <3>1, <3>2 DEF Past
  <2>8. InOrder'
    <3>1. \A i \in items : known[i.bug] <= i.at
      BY <1>0, <2>6 DEF Past
    <3>2. \A i, j \in items : i.bug = j.bug => i = j
      BY <2>2
    <3>3. \A n \in Chan : watcher.ch[n] # Failure =>
             \A i \in items : i.bug = watcher.ch[n].bug => watcher.ch[n].at <= i.at
      BY <1>0, <2>6 DEF Past
    <3> QED BY <1>0, <2>3, <2>4, <3>1, <3>2, <3>3 DEF InOrder
  <2>9. Covered'
    <3> SUFFICES ASSUME reflector.pc = "watch", ~truncated', zone, NEW b \in Listed,
                        watcher.from <= changed[b], changed[b] < watcher.rv \/ changed[b] < next
                 PROVE  Arrives(b)'
      BY <1>1, <2>3, <2>4 DEF Covered
    <3>1. CASE changed[b] < watcher.rv
      <4>1. known[b] = changed[b] \/ [bug |-> b, at |-> changed[b]] \in OnTheWay
        BY <3>1 DEF IInv, Covered, Arrives
      <4>2. watcher.pending = {}
        BY <1>0 DEF InOrder
      <4> QED BY <1>1, <2>3, <4>1, <4>2 DEF Arrives, OnTheWay
    <3>2. CASE ~(changed[b] < watcher.rv)
      <4>1. changed[b] >= watcher.rv
        BY <1>0, <3>2, Numbers DEF Listed
      <4>2. [bug |-> b, at |-> changed[b]] \in items
        BY <2>2, <4>1
      <4> QED BY <1>1, <2>3, <4>2 DEF Arrives, OnTheWay
    <3> QED BY <3>1, <3>2
  <2>10. Calm'
    BY <2>3, <2>4 DEF IInv, Calm
  <2> QED BY <2>5, <2>7, <2>8, <2>9, <2>10 DEF IInv
<1> QED BY <1>5, <1>6

\* Either tracker answers.
LEMMA AnswerStep == ASSUME IInv, AnswerBugs \/ AnswerIssues PROVE IInv'
<1>0. TypeOK
  BY DEF IInv
<1>1. CASE AnswerBugs
  <2>1. PICK bugs \in SearchBugs(watcher.rv) : Answered(bugs)
    BY <1>1 DEF AnswerBugs
  <2>2. bugs = {b \in Listed : changed[b] >= watcher.rv}
    BY <2>1 DEF SearchBugs
  <2>3. /\ UNCHANGED <<tracked, reflector, known, phantom, timer, late, faults, up>>
        /\ truncated' = truncated /\ truncated' \in BOOLEAN /\ watcher.pc = "asked"
    BY <1>0, <1>1 DEF AnswerBugs, TypeOK
  <2>4. bugs \in SUBSET Listed /\ \A b \in Listed : changed[b] >= watcher.rv => b \in bugs
    BY <2>2
  <2> QED BY <2>1, <2>3, <2>4, AnsweredOK
<1>2. CASE AnswerIssues
  <2> DEFINE found == addTimeToJQL(watcher.rv)
  <2>1. PICK issues \in SearchIssues(found) :
           Answered(issues) /\ truncated' = (truncated \/ issues # found)
    BY <1>2 DEF AnswerIssues
  <2>2. /\ UNCHANGED <<tracked, reflector, known, phantom, timer, late, faults, up>>
        /\ truncated' \in BOOLEAN /\ watcher.pc = "asked"
    BY <1>0, <1>2, <2>1 DEF AnswerIssues, TypeOK
  <2>3. found \in SUBSET Listed
    BY DEF addTimeToJQL
  <2>4. zone => \A b \in Listed : changed[b] >= watcher.rv => b \in found
    <3>1. \A t, u \in Nat : t >= u => Minute(t) >= Minute(u)
      BY DEF Minute
    <3>2. watcher.rv \in Nat /\ \A b \in Listed : changed[b] \in Nat
      BY <1>0, Numbers DEF Listed
    <3> QED BY <3>1, <3>2 DEF addTimeToJQL
  <2> HIDE DEF found
  <2>5. issues \in SUBSET Listed
    BY <2>1, <2>3, SearchIssuesOK
  <2> QED BY <2>1, <2>2, <2>4, <2>5, AnsweredOK
<1> QED BY <1>1, <1>2

-----------------------------------------------------------------------------
\* An error, or the oldest change of an answer, is put into the channel.
LEMMA Appended ==
    ASSUME IInv, NEW e \in Item \cup {Failure}, watcher' \in WatcherType, Room,
           watcher'.ch = Append(watcher.ch, e), watcher'.rv = watcher.rv,
           watcher'.from = watcher.from, watcher'.next = watcher.next,
           watcher'.pending = watcher.pending \ {e}, e # Failure => e \in watcher.pending,
           watcher'.pc = "send" <=> watcher.pc = "send",
           UNCHANGED <<tracked, reflector, known, phantom, truncated>>
    PROVE  /\ Past' /\ InOrder' /\ Covered' /\ Len(watcher'.ch) <= ChanSize
           /\ UNCHANGED <<tracker, zone, pageSize, hidden, clock, changes, changed>>
           /\ \A n \in Chan' : (n \in Chan /\ watcher'.ch[n] = watcher.ch[n]) \/ watcher'.ch[n] = e
<1>0. TypeOK /\ Past /\ InOrder
  BY DEF IInv
<1>1. UNCHANGED <<tracker, zone, pageSize, hidden, clock, changes, changed>> /\ Listed' = Listed
  BY DEF tracked, Listed
<1>2. watcher.ch \in Seq(Item \cup {Failure}) /\ Len(watcher.ch) \in Nat
  BY <1>0, Numbers
<1>3. /\ Len(watcher'.ch) = Len(watcher.ch) + 1 /\ watcher'.ch \in Seq(Item \cup {Failure})
      /\ \A n \in 1..Len(watcher.ch) : watcher'.ch[n] = watcher.ch[n]
      /\ watcher'.ch[Len(watcher.ch) + 1] = e
  BY <1>2, ChannelOK
<1>4. /\ Chan' = Chan \cup {Len(watcher.ch) + 1}
      /\ \A n \in Chan : watcher'.ch[n] = watcher.ch[n] /\ n < Len(watcher.ch) + 1
      /\ \A n \in Chan' : n \in Chan \/ n = Len(watcher.ch) + 1
      /\ Len(watcher.ch) + 1 \notin Chan
  BY <1>2, <1>3 DEF Chan
<1>5. Len(watcher'.ch) <= ChanSize
  BY <1>2, <1>3, Positive DEF Room
<1> DEFINE l == Len(watcher.ch) + 1
<1>6. l \in Nat /\ watcher'.ch[l] = e /\ Chan \subseteq Nat
  BY <1>2, <1>3 DEF Chan
<1> HIDE DEF l
<1>7. Past'
  <2>1. \A n \in Chan' : watcher'.ch[n] # Failure =>
           /\ watcher'.ch[n].at <= clock
           /\ watcher'.ch[n].bug \in Listed => watcher'.ch[n].at <= changed[watcher'.ch[n].bug]
    BY <1>0, <1>4, <1>6 DEF Past, l
  <2>2. \A i \in watcher'.pending : i \in watcher.pending
    OBVIOUS
  <2> QED BY <1>0, <1>1, <2>1, <2>2 DEF Past
<1>8. InOrder'
  <2>1. ASSUME NEW m \in Chan', NEW n \in Chan', m < n, watcher'.ch[m] # Failure,
               watcher'.ch[m].bug = watcher'.ch[n].bug
        PROVE  watcher'.ch[m].at <= watcher'.ch[n].at
    <3>0. \A k \in Chan' : k \in Nat /\ k <= l
      BY <1>2, <1>4, <1>6 DEF Chan, l
    <3>1. m \in Chan /\ watcher'.ch[m] = watcher.ch[m]
      <4>1. m # l
        BY <1>6, <2>1, <3>0
      <4> QED BY <1>4, <4>1 DEF l
    <3>2. CASE n \in Chan
      BY <1>0, <1>4, <2>1, <3>1, <3>2 DEF InOrder
    <3>3. CASE n = l
      <4>1. watcher.ch[m] \in Item /\ watcher.ch[m].bug # Failure.bug
        BY <1>0, <2>1, <3>1, Numbers, ItemOK, Positive DEF Failure, Bugs
      <4>2. e \in watcher.pending
        BY <1>6, <2>1, <3>1, <3>3, <4>1
      <4>3. watcher.ch[m] # Failure /\ e.bug = watcher.ch[m].bug /\ watcher'.ch[n] = e
        BY <1>6, <2>1, <3>1, <3>3
      <4>4. watcher.ch[m].at <= e.at
        BY <1>0, <3>1, <4>2, <4>3 DEF InOrder
      <4> QED BY <3>1, <4>3, <4>4
    <3> QED BY <1>4, <3>2, <3>3 DEF l
  <2>2. ASSUME NEW n \in Chan', watcher'.ch[n] # Failure
        PROVE  /\ known[watcher'.ch[n].bug] <= watcher'.ch[n].at
               /\ \A i \in watcher'.pending : i.bug = watcher'.ch[n].bug => watcher'.ch[n].at <= i.at
    <3>1. CASE n \in Chan
      BY <1>0, <1>4, <2>2, <3>1 DEF InOrder
    <3>2. CASE n = l
      <4>1. e \in watcher.pending /\ watcher'.ch[n] = e
        BY <1>6, <2>2, <3>2
      <4> QED BY <1>0, <4>1 DEF InOrder
    <3> QED BY <1>4, <3>1, <3>2 DEF l
  <2>3. /\ \A i \in watcher'.pending :
             known[i.bug] <= i.at /\ \A j \in watcher'.pending : i.bug = j.bug => i = j
        /\ watcher'.pc # "send" => watcher'.pending = {}
    BY <1>0 DEF InOrder
  <2> QED BY <2>1, <2>2, <2>3 DEF InOrder
<1>9. Covered'
  <2>1. ASSUME NEW x \in OnTheWay PROVE x \in OnTheWay'
    <3>1. CASE x \in watcher.pending \ {e}
      BY <3>1 DEF OnTheWay
    <3>2. CASE x = e
      <4>0. \E n \in 1..Len(watcher'.ch) : watcher'.ch[n] = e
        BY <1>3, <1>2
      <4>1. e \in ToSet(watcher'.ch)
        BY <1>3, <4>0, ToSetOK
      <4> QED BY <3>2, <4>1 DEF OnTheWay
    <3>3. CASE x \in ToSet(watcher.ch)
      <4>1. \E n \in 1..Len(watcher.ch) : watcher.ch[n] = x
        BY <1>2, <3>3, ToSetOK
      <4>2. \E n \in 1..Len(watcher'.ch) : watcher'.ch[n] = x
        BY <1>2, <1>3, <4>1
      <4> QED BY <1>3, <4>2, ToSetOK DEF OnTheWay
    <3> QED BY <3>1, <3>2, <3>3 DEF OnTheWay
  <2> QED BY <1>1, <2>1 DEF IInv, Covered, Arrives
<1> QED BY <1>1, <1>4, <1>5, <1>6, <1>7, <1>8, <1>9 DEF l

\* The watcher sends a change.
LEMMA SendStep == ASSUME IInv, Send PROVE IInv'
<1>0. TypeOK /\ watcher \in WatcherType
  BY DEF IInv, TypeOK
<1>1. PICK e \in watcher.pending : watcher' = [watcher EXCEPT !.pending = @ \ {e}, !.ch = Append(@, e)]
  BY DEF Send
<1>2. e \in Item /\ watcher.ch \in Seq(Item \cup {Failure})
  BY <1>0 DEF WatcherType
<1>3. Append(watcher.ch, e) \in Seq(Item \cup {Failure})
  BY <1>2
<1>4. /\ watcher' \in WatcherType /\ watcher'.ch = Append(watcher.ch, e)
      /\ watcher'.pending = watcher.pending \ {e} /\ watcher'.rv = watcher.rv
      /\ watcher'.from = watcher.from /\ watcher'.next = watcher.next
      /\ watcher'.pc = watcher.pc /\ watcher'.done = watcher.done
  BY <1>0, <1>1, <1>3 DEF WatcherType
<1>5. Room /\ UNCHANGED <<tracked, reflector, known, phantom, timer, late, faults, truncated, up>>
  BY DEF Send
<1>6. /\ Past' /\ InOrder' /\ Covered' /\ Len(watcher'.ch) <= ChanSize
      /\ UNCHANGED <<tracker, zone, pageSize, hidden, clock, changes, changed>>
      /\ \A n \in Chan' : (n \in Chan /\ watcher'.ch[n] = watcher.ch[n]) \/ watcher'.ch[n] = e
  BY <1>2, <1>4, <1>5, Appended
<1>7. TypeOK'
  BY <1>0, <1>4, <1>5, <1>6 DEF TypeOK
<1>8. Calm'
  <2>1. (\E n \in Chan' : watcher'.ch[n] = Failure) => \E n \in Chan : watcher.ch[n] = Failure
    BY <1>2, <1>6, ItemOK
  <2> QED BY <1>4, <1>5, <2>1 DEF IInv, Calm
<1> QED BY <1>6, <1>7, <1>8 DEF IInv

\* The watcher or its timer sends an error.
LEMMA SendErrorStep == ASSUME IInv, SendFailure \/ TimerSends PROVE IInv'
<1>0. TypeOK /\ watcher \in WatcherType
  BY DEF IInv, TypeOK
<1>1. Append(watcher.ch, Failure) \in Seq(Item \cup {Failure})
  BY <1>0 DEF WatcherType
<1>3. Failure \notin watcher.pending
  BY <1>0, Numbers, ItemOK
<1>4. CASE SendFailure
  <2>1. /\ watcher' \in WatcherType /\ watcher'.ch = Append(watcher.ch, Failure)
        /\ watcher'.pending = watcher.pending \ {Failure} /\ watcher'.rv = watcher.rv
        /\ watcher'.from = watcher.from /\ watcher'.next = watcher.next
        /\ watcher.pc = "failed" /\ watcher'.pc = "wait"
    BY <1>0, <1>1, <1>3, <1>4 DEF SendFailure, WatcherType
  <2>2. Room /\ UNCHANGED <<tracked, reflector, known, phantom, timer, late, faults, truncated, up>>
    BY <1>4 DEF SendFailure
  <2>3. /\ Past' /\ InOrder' /\ Covered' /\ Len(watcher'.ch) <= ChanSize
        /\ UNCHANGED <<tracker, zone, pageSize, hidden, clock, changes, changed>>
    BY <2>1, <2>2, Appended
  <2>4. TypeOK'
    BY <1>0, <2>1, <2>2, <2>3 DEF TypeOK
  <2>5. Calm'
    BY <2>1, <2>2 DEF IInv, Calm
  <2> QED BY <2>3, <2>4, <2>5 DEF IInv
<1>5. CASE TimerSends /\ watcher.pc = "closed"
  <2>1. UNCHANGED <<tracked, reflector, known, phantom, watcher, timer, late, faults, truncated>>
        /\ up' = FALSE /\ timer = "firing"
    BY <1>5 DEF TimerSends
  <2>2. faults # 0
    BY <1>5, <2>1 DEF IInv, Calm
  <2>3. TypeOK' /\ Past' /\ InOrder' /\ Covered'
    BY <1>0, <2>1 DEF IInv, TypeOK, Past, InOrder, Covered, Chan, Arrives, OnTheWay, Listed, tracked
  <2> QED BY <2>1, <2>2, <2>3 DEF IInv, Calm
<1>6. CASE TimerSends /\ watcher.pc # "closed"
  <2>0. watcher' = [watcher EXCEPT !.ch = Append(@, Failure)]
    BY <1>6 DEF TimerSends
  <2>1. /\ watcher' \in WatcherType /\ watcher'.ch = Append(watcher.ch, Failure)
        /\ watcher'.pending = watcher.pending \ {Failure} /\ watcher'.rv = watcher.rv
        /\ watcher'.from = watcher.from /\ watcher'.next = watcher.next
        /\ watcher'.pc = watcher.pc /\ watcher'.done = watcher.done
    BY <1>0, <1>1, <1>3, <2>0 DEF WatcherType
  <2>2. Room /\ UNCHANGED <<tracked, reflector, known, phantom, late, faults, truncated, up>>
        /\ timer' = "sent"
    BY <1>6 DEF TimerSends
  <2>3. /\ Past' /\ InOrder' /\ Covered' /\ Len(watcher'.ch) <= ChanSize
        /\ UNCHANGED <<tracker, zone, pageSize, hidden, clock, changes, changed>>
    BY <2>1, <2>2, Appended
  <2>4. TypeOK'
    BY <1>0, <2>1, <2>2, <2>3 DEF TypeOK
  <2>5. Calm'
    BY <2>1, <2>2 DEF IInv, Calm
  <2> QED BY <2>3, <2>4, <2>5 DEF IInv
<1> QED BY <1>4, <1>5, <1>6

-----------------------------------------------------------------------------
\* The first event is taken out of the channel, and dropped or stored.
LEMMA Taken ==
    ASSUME IInv, watcher.ch # << >>, watcher'.ch = Tail(watcher.ch),
           watcher'.rv = watcher.rv, watcher'.from = watcher.from, watcher'.next = watcher.next,
           watcher'.pending = watcher.pending, watcher'.pc = watcher.pc,
           reflector'.items = reflector.items, reflector'.rv = reflector.rv, UNCHANGED tracked,
           NEW e, e = Head(watcher.ch),
           \/ known' = known
           \/ e # Failure /\ known' = [known EXCEPT ![e.bug] = e.at]
    PROVE  /\ Past' /\ InOrder' /\ Len(watcher'.ch) <= ChanSize
           /\ UNCHANGED <<tracker, zone, pageSize, hidden, clock, changes, changed>>
           /\ e \in Item \cup {Failure} /\ known' \in [Bugs -> Times]
           /\ \A n \in Chan' : n + 1 \in Chan /\ watcher'.ch[n] = watcher.ch[n + 1]
           /\ 1 \in Chan /\ watcher.ch[1] = e
           /\ \A n \in Chan : n = 1 \/ \E m \in Chan' : watcher'.ch[m] = watcher.ch[n]
<1>0. TypeOK /\ Past /\ InOrder
  BY DEF IInv
<1>1. UNCHANGED <<tracker, zone, pageSize, hidden, clock, changes, changed>> /\ Listed' = Listed
  BY DEF tracked, Listed
<1>2. watcher.ch \in Seq(Item \cup {Failure}) /\ Len(watcher.ch) \in Nat
  BY <1>0, Numbers
<1>3. /\ Len(watcher'.ch) = Len(watcher.ch) - 1 /\ Len(watcher.ch) > 0 /\ e = watcher.ch[1]
      /\ \A n \in 1..(Len(watcher.ch) - 1) : watcher'.ch[n] = watcher.ch[n + 1]
  BY <1>2, ChannelOK
<1>4. /\ \A n \in Chan' : n \in Nat /\ n + 1 \in Chan /\ watcher'.ch[n] = watcher.ch[n + 1]
      /\ 1 \in Chan /\ \A n \in Chan : n \in Nat /\ n >= 1
  BY <1>2, <1>3 DEF Chan
<1>5. e \in Item \cup {Failure}
  BY <1>0, <1>3, <1>4, Numbers
<1>6. /\ known' \in [Bugs -> Times]
      /\ \A b \in Bugs : known'[b] = known[b] \/ (e # Failure /\ b = e.bug /\ known'[b] = e.at)
  <2>1. known \in [Bugs -> Times]
    BY <1>0 DEF TypeOK
  <2>2. e # Failure => e.bug \in Bugs /\ e.at \in Times
    BY <1>5 DEF Item
  <2> QED BY <2>1, <2>2
<1>7. Len(watcher'.ch) <= ChanSize
  <2>1. Len(watcher.ch) <= ChanSize
    BY <1>0 DEF TypeOK
  <2> QED BY <1>2, <1>3, <2>1, Positive
<1>8. e # Failure => e.at <= clock /\ (e.bug \in Listed => e.at <= changed[e.bug])
  BY <1>0, <1>3, <1>4 DEF Past
<1>9. Past'
  <2>1. \A n \in Chan' : watcher'.ch[n] # Failure =>
           /\ watcher'.ch[n].at <= clock
           /\ watcher'.ch[n].bug \in Listed => watcher'.ch[n].at <= changed[watcher'.ch[n].bug]
    BY <1>0, <1>4 DEF Past
  <2>2. \A b \in Bugs : known'[b] <= clock /\ (b \in Listed => known'[b] <= changed[b])
    BY <1>0, <1>6, <1>8 DEF Past
  <2> QED BY <1>0, <1>1, <2>1, <2>2 DEF Past
<1>10. InOrder'
  <2>1. ASSUME NEW m \in Chan', NEW n \in Chan', m < n, watcher'.ch[m] # Failure,
               watcher'.ch[m].bug = watcher'.ch[n].bug
        PROVE  watcher'.ch[m].at <= watcher'.ch[n].at
    <3>0. m \in Nat /\ n \in Nat
      BY <1>4
    <3>1. /\ m + 1 \in Chan /\ n + 1 \in Chan
          /\ watcher'.ch[m] = watcher.ch[m + 1] /\ watcher'.ch[n] = watcher.ch[n + 1]
      BY <1>4
    <3>2. m + 1 < n + 1
      BY <2>1, <3>0
    <3> QED BY <1>0, <2>1, <3>1, <3>2 DEF InOrder
  <2>2. ASSUME NEW n \in Chan', watcher'.ch[n] # Failure
        PROVE  /\ known'[watcher'.ch[n].bug] <= watcher'.ch[n].at
               /\ \A i \in watcher.pending : i.bug = watcher'.ch[n].bug => watcher'.ch[n].at <= i.at
    <3>1. /\ n + 1 \in Chan /\ 1 < n + 1 /\ watcher'.ch[n] = watcher.ch[n + 1]
          /\ watcher.ch[n + 1] # Failure
      BY <1>3, <1>4, <2>2 DEF Chan
    <3>2. /\ known[watcher.ch[n + 1].bug] <= watcher.ch[n + 1].at
          /\ \A i \in watcher.pending : i.bug = watcher.ch[n + 1].bug => watcher.ch[n + 1].at <= i.at
      BY <1>0, <3>1 DEF InOrder
    <3>3. e # Failure /\ e.bug = watcher.ch[n + 1].bug => e.at <= watcher.ch[n + 1].at
      BY <1>0, <1>3, <1>4, <3>1 DEF InOrder
    <3>4. watcher.ch[n + 1].bug \in Bugs
      BY <1>0, <3>1, Numbers, ItemOK
    <3> QED BY <1>6, <3>1, <3>2, <3>3, <3>4
  <2>3. ASSUME NEW i \in watcher.pending PROVE known'[i.bug] <= i.at
    <3>1. i.bug \in Bugs /\ known[i.bug] <= i.at
      BY <1>0, Numbers, ItemOK DEF InOrder
    <3>2. e # Failure /\ i.bug = e.bug => e.at <= i.at
      BY <1>0, <1>3, <1>4 DEF InOrder
    <3> QED BY <1>6, <3>1, <3>2
  <2>4. /\ \A i, j \in watcher'.pending : i.bug = j.bug => i = j
        /\ watcher'.pc # "send" => watcher'.pending = {}
    BY <1>0 DEF InOrder
  <2> QED BY <2>1, <2>2, <2>3, <2>4 DEF InOrder
<1>11. \A n \in Chan : n = 1 \/ \E m \in Chan' : watcher'.ch[m] = watcher.ch[n]
  <2> SUFFICES ASSUME NEW n \in Chan, n # 1
               PROVE  \E m \in Chan' : watcher'.ch[m] = watcher.ch[n]
    OBVIOUS
  <2>1. n - 1 \in 1..(Len(watcher.ch) - 1) /\ (n - 1) + 1 = n
    BY <1>2 DEF Chan
  <2>2. n - 1 \in Chan' /\ watcher'.ch[n - 1] = watcher.ch[n]
    BY <1>3, <2>1 DEF Chan
  <2> QED BY <2>2
<1> QED BY <1>1, <1>3, <1>4, <1>5, <1>6, <1>7, <1>9, <1>10, <1>11

\* The reflector receives an event or an error, or drains the channel.
LEMMA TakeStep == ASSUME IInv, Receive \/ (Stop /\ watcher.ch # << >>) PROVE IInv'
<1>0. TypeOK /\ watcher \in WatcherType /\ reflector \in ReflectorType
  BY DEF IInv, TypeOK
<1>1. PICK e : e = Head(watcher.ch)
  OBVIOUS
<1>2. /\ watcher.ch # << >> /\ UNCHANGED <<tracked, phantom, timer, late, faults, truncated, up>>
  BY DEF Receive, Stop
<1>3. Tail(watcher.ch) \in Seq(Item \cup {Failure})
  BY <1>0, <1>2 DEF WatcherType
<1>4. \E n \in Chan : watcher.ch[n] = e
  <2>1. watcher.ch \in Seq(Item \cup {Failure})
    BY <1>0, Numbers
  <2>2. e = watcher.ch[1] /\ 1 \in 1..Len(watcher.ch)
    BY <1>1, <1>2, <2>1, ChannelOK
  <2> QED BY <2>2 DEF Chan
<1>5. CASE Receive /\ e = Failure
  <2>1. /\ reflector' = [reflector EXCEPT !.pc = "stop"] /\ known' = known
        /\ watcher' = [watcher EXCEPT !.ch = Tail(@), !.done = TRUE]
    BY <1>1, <1>5 DEF Receive
  <2>2. /\ watcher' \in WatcherType /\ watcher'.ch = Tail(watcher.ch)
        /\ watcher'.rv = watcher.rv /\ watcher'.from = watcher.from /\ watcher'.next = watcher.next
        /\ watcher'.pending = watcher.pending /\ watcher'.pc = watcher.pc /\ watcher'.done = TRUE
    BY <1>0, <1>3, <2>1 DEF WatcherType
  <2>3. /\ reflector' \in ReflectorType /\ reflector'.pc = "stop"
        /\ reflector'.items = reflector.items /\ reflector'.rv = reflector.rv
    BY <1>0, <2>1 DEF ReflectorType
  <2>4. /\ Past' /\ InOrder' /\ Len(watcher'.ch) <= ChanSize
        /\ UNCHANGED <<tracker, zone, pageSize, hidden, clock, changes, changed>>
        /\ known' \in [Bugs -> Times]
    BY <1>1, <1>2, <2>1, <2>2, <2>3, Taken
  <2>5. TypeOK'
    BY <1>0, <1>2, <2>2, <2>3, <2>4 DEF TypeOK
  <2>6. Covered'
    BY <2>3 DEF Covered
  <2>7. faults = 0 => timer \in {"sent", "ended"}
    BY <1>4, <1>5 DEF IInv, Calm
  <2>8. Calm'
    BY <1>2, <2>2, <2>3, <2>7 DEF IInv, Calm
  <2> QED BY <2>4, <2>5, <2>6, <2>8 DEF IInv
<1>6. CASE Receive /\ e # Failure
  <2>1. /\ reflector' = [reflector EXCEPT !.lastSync = e.at] /\ known' = [known EXCEPT ![e.bug] = e.at]
        /\ watcher' = [watcher EXCEPT !.ch = Tail(@)] /\ reflector.pc = "watch"
    BY <1>1, <1>6 DEF Receive
  <2>2. /\ watcher' \in WatcherType /\ watcher'.ch = Tail(watcher.ch)
        /\ watcher'.rv = watcher.rv /\ watcher'.from = watcher.from /\ watcher'.next = watcher.next
        /\ watcher'.pending = watcher.pending /\ watcher'.pc = watcher.pc
        /\ watcher'.done = watcher.done
    BY <1>0, <1>3, <2>1 DEF WatcherType
  <2>3. e \in Item /\ e.at \in Times /\ e.bug \in Bugs
    BY <1>0, <1>4, <1>6, Numbers DEF Item
  <2>4. /\ reflector' \in ReflectorType /\ reflector'.pc = "watch"
        /\ reflector'.items = reflector.items /\ reflector'.rv = reflector.rv
    BY <1>0, <2>1, <2>3 DEF ReflectorType
  <2>5. /\ Past' /\ InOrder' /\ Len(watcher'.ch) <= ChanSize
        /\ UNCHANGED <<tracker, zone, pageSize, hidden, clock, changes, changed>>
        /\ known' \in [Bugs -> Times]
        /\ \A n \in Chan' : n + 1 \in Chan /\ watcher'.ch[n] = watcher.ch[n + 1]
        /\ 1 \in Chan /\ watcher.ch[1] = e
        /\ \A n \in Chan : n = 1 \/ \E m \in Chan' : watcher'.ch[m] = watcher.ch[n]
    BY <1>1, <1>2, <1>6, <2>1, <2>2, <2>4, Taken
  <2>6. TypeOK'
    BY <1>0, <1>2, <2>2, <2>4, <2>5 DEF TypeOK
  <2>7. Covered'
    <3>1. ASSUME NEW x \in OnTheWay, x # e PROVE x \in OnTheWay'
      <4>1. watcher.ch \in Seq(Item \cup {Failure}) /\ watcher'.ch \in Seq(Item \cup {Failure})
        BY <1>0, <1>3, <2>2 DEF WatcherType
      <4>2. CASE x \in watcher.pending
        BY <2>2, <4>2 DEF OnTheWay
      <4>3. CASE x \in ToSet(watcher.ch)
        <5>1. PICK n \in Chan : watcher.ch[n] = x
          BY <4>1, <4>3, ToSetOK DEF Chan
        <5>2. \E m \in 1..Len(watcher'.ch) : watcher'.ch[m] = x
          BY <2>5, <3>1, <5>1 DEF Chan
        <5> QED BY <4>1, <5>2, ToSetOK DEF OnTheWay
      <4> QED BY <4>2, <4>3 DEF OnTheWay
    <3>2. ASSUME NEW b \in Listed, Arrives(b) PROVE Arrives(b)'
      <4>1. b \in Bugs /\ known \in [Bugs -> Times] /\ changed' = changed
        BY <1>0, <2>5 DEF Listed, TypeOK
      <4>2. CASE b = e.bug
        <5>1. known[b] <= e.at /\ e.at <= changed[b] /\ known'[b] = e.at
          BY <1>6, <2>1, <2>3, <2>5, <4>1, <4>2 DEF IInv, Past, InOrder
        <5>2. known[b] \in Nat /\ changed[b] \in Nat /\ e.at \in Nat
          BY <1>0, <2>3, <4>1, Numbers, ItemOK
        <5>3. CASE known[b] = changed[b]
          BY <4>1, <5>1, <5>2, <5>3 DEF Arrives
        <5>4. CASE known[b] # changed[b] /\ [bug |-> b, at |-> changed[b]] = e
          <6>1. e.at = changed[b]
            BY <5>4
          <6> QED BY <4>1, <5>1, <6>1 DEF Arrives
        <5>5. CASE known[b] # changed[b] /\ [bug |-> b, at |-> changed[b]] # e
          BY <3>1, <3>2, <4>1, <5>5 DEF Arrives
        <5> QED BY <5>3, <5>4, <5>5
      <4>3. CASE b # e.bug
        <5>1. [bug |-> b, at |-> changed[b]] # e /\ known'[b] = known[b]
          BY <2>1, <2>3, <4>1, <4>3
        <5> QED BY <3>1, <3>2, <4>1, <5>1 DEF Arrives
      <4> QED BY <4>2, <4>3
    <3>3. Listed' = Listed
      BY <2>5 DEF Listed
    <3> QED BY <1>2, <2>1, <2>2, <2>5, <3>2, <3>3 DEF IInv, Covered
  <2>8. Calm'
    <3>1. (\E n \in Chan' : watcher'.ch[n] = Failure) => \E n \in Chan : watcher.ch[n] = Failure
      BY <2>5
    <3> QED BY <1>2, <2>1, <2>2, <2>4, <3>1 DEF IInv, Calm
  <2> QED BY <2>5, <2>6, <2>7, <2>8 DEF IInv
<1>7. CASE Stop /\ watcher.ch # << >>
  <2>1. /\ UNCHANGED <<reflector, known>> /\ reflector.pc = "stop"
        /\ watcher' = [watcher EXCEPT !.ch = Tail(@)]
    BY <1>7 DEF Stop
  <2>2. /\ watcher' \in WatcherType /\ watcher'.ch = Tail(watcher.ch)
        /\ watcher'.rv = watcher.rv /\ watcher'.from = watcher.from /\ watcher'.next = watcher.next
        /\ watcher'.pending = watcher.pending /\ watcher'.pc = watcher.pc
        /\ watcher'.done = watcher.done
    BY <1>0, <1>3, <2>1 DEF WatcherType
  <2>3. /\ Past' /\ InOrder' /\ Len(watcher'.ch) <= ChanSize
        /\ UNCHANGED <<tracker, zone, pageSize, hidden, clock, changes, changed>>
        /\ known' \in [Bugs -> Times]
        /\ \A n \in Chan' : n + 1 \in Chan /\ watcher'.ch[n] = watcher.ch[n + 1]
    BY <1>1, <1>2, <2>1, <2>2, Taken
  <2>4. TypeOK'
    BY <1>0, <1>2, <2>1, <2>2, <2>3 DEF TypeOK
  <2>5. Covered'
    BY <2>1 DEF Covered
  <2>6. Calm'
    <3>1. (\E n \in Chan' : watcher'.ch[n] = Failure) => \E n \in Chan : watcher.ch[n] = Failure
      BY <2>3
    <3> QED BY <1>2, <2>1, <2>2, <3>1 DEF IInv, Calm
  <2> QED BY <2>3, <2>4, <2>5, <2>6 DEF IInv
<1> QED BY <1>5, <1>6, <1>7

\* Stop has drained a closed channel: the reflector lists again.
LEMMA StoppedStep == ASSUME IInv, Stop, watcher.ch = << >> PROVE IInv'
<1>0. TypeOK /\ reflector \in ReflectorType
  BY DEF IInv, TypeOK
<1>1. /\ reflector' = [reflector EXCEPT !.pc = "list"] /\ watcher.pc = "closed"
      /\ UNCHANGED <<tracked, known, phantom, watcher, timer, late, faults, truncated, up>>
  BY DEF Stop
<1>2. /\ reflector' \in ReflectorType /\ reflector'.pc = "list"
      /\ reflector'.items = reflector.items /\ reflector'.rv = reflector.rv
  BY <1>0, <1>1 DEF ReflectorType
<1>3. UNCHANGED <<tracker, zone, pageSize, hidden, clock, changes, changed>>
  BY <1>1 DEF tracked
<1>4. TypeOK'
  BY <1>0, <1>1, <1>2, <1>3 DEF TypeOK
<1>5. Past' /\ InOrder'
  BY <1>1, <1>2, <1>3 DEF IInv, Past, InOrder, Chan, Listed
<1>6. Covered' /\ Calm'
  BY <1>1, <1>2 DEF IInv, Covered, Calm, Chan
<1> QED BY <1>4, <1>5, <1>6 DEF IInv

\* The timer goroutine chooses; a timer of an earlier watch ends the process.
LEMMA TimerStep == ASSUME IInv, TimerChooses \/ LateTimer PROVE IInv'
<1>1. /\ UNCHANGED <<tracked, reflector, known, phantom, watcher, late, faults, truncated>>
      /\ timer' \in {"armed", "firing", "sent", "ended"} /\ up' \in BOOLEAN
  BY DEF TimerChooses, LateTimer, IInv, TypeOK
<1>2. UNCHANGED <<tracker, zone, pageSize, hidden, clock, changes, changed>>
  BY <1>1 DEF tracked
<1>3. TypeOK'
  BY <1>1, <1>2 DEF IInv, TypeOK
<1>4. Past' /\ InOrder' /\ Covered'
  BY <1>1, <1>2 DEF IInv, Past, InOrder, Covered, Chan, Listed, Arrives, OnTheWay
<1>5. Calm'
  <2>1. CASE TimerChooses
    BY <1>1, <2>1 DEF TimerChooses, IInv, Calm, Chan
  <2>2. CASE LateTimer
    BY <1>1, <2>2 DEF LateTimer, IInv, Calm
  <2> QED BY <2>1, <2>2
<1> QED BY <1>3, <1>4, <1>5 DEF IInv

\* Before the first list the reflector and the watcher have nothing.
LEMMA Nothing ==
    /\ NoItems \in [Bugs -> Times] /\ \A b \in Bugs : NoItems[b] = 0
    /\ NewReflector \in ReflectorType /\ NewReflector.pc = "list"
    /\ NewReflector.items = NoItems /\ NewReflector.rv = 0
    /\ NoWatcher \in WatcherType /\ NoWatcher.pc = "closed" /\ NoWatcher.done = TRUE
    /\ NoWatcher.pending = {} /\ NoWatcher.ch = << >> /\ Len(NoWatcher.ch) = 0
    /\ NoWatcher.rv = 0 /\ NoWatcher.from = 0 /\ NoWatcher.next = 0
<1>1. 0 \in Times /\ 0 \in 0..NumBugs /\ 0 \in 0..(MaxTime + 1)
  BY Positive DEF Times
<1>2. NoItems \in [Bugs -> Times] /\ \A b \in Bugs : NoItems[b] = 0
  BY <1>1 DEF NoItems
<1>3. NewReflector \in ReflectorType /\ NewReflector.items = NoItems
  BY <1>1, <1>2 DEF NewReflector, ReflectorType
<1>4. << >> \in Seq(Item \cup {Failure}) /\ Len(<< >>) = 0
  OBVIOUS
<1>5. NoWatcher \in WatcherType /\ NoWatcher.ch = << >>
  BY <1>1, <1>4 DEF NoWatcher, WatcherType
<1> QED BY <1>2, <1>3, <1>4, <1>5 DEF NewReflector, NoWatcher

\* The initial states satisfy the invariant.
LEMMA InitIInv == ASSUME Init PROVE IInv
<1>1. /\ reflector = NewReflector /\ known = NoItems /\ watcher = NoWatcher /\ timer = "ended"
      /\ phantom = FALSE /\ late = FALSE /\ truncated = FALSE /\ up = TRUE /\ faults = 0
      /\ clock = 1 /\ changes = 0 /\ changed \in [Bugs -> {0, 1}]
  BY DEF Init
<1>2. Chan = {}
  BY <1>1, Nothing DEF Chan
<1>3. TypeOK
  <2>1. 1 \in 1..MaxTime /\ 0 \in 0..MaxChanges /\ 0 \in 0..MaxFaults /\ {0, 1} \subseteq Times
        /\ 0 <= ChanSize
    BY Positive DEF Times
  <2>2. changed \in [Bugs -> Times]
    BY <1>1, <2>1
  <2> QED BY <1>1, <2>1, <2>2, Nothing DEF Init, TypeOK
<1>4. Past
  <2>1. \A b \in Bugs : changed[b] <= 1 /\ 0 <= changed[b]
    BY <1>1
  <2> QED BY <1>1, <1>2, <2>1, Nothing DEF Past
<1>5. InOrder /\ Covered /\ Calm
  BY <1>1, <1>2, Nothing DEF InOrder, Covered, Calm
<1> QED BY <1>3, <1>4, <1>5 DEF IInv

\* A process that is started again has lost everything, and the tracker nothing.
LEMMA RestartStep == ASSUME IInv, Restart PROVE IInv'
<1>0. TypeOK /\ Past
  BY DEF IInv
<1>1. /\ reflector' = NewReflector /\ known' = NoItems /\ watcher' = NoWatcher /\ timer' = "ended"
      /\ phantom' = FALSE /\ late' = FALSE /\ up' = TRUE /\ ~up
      /\ UNCHANGED <<tracked, faults, truncated>>
  BY DEF Restart
<1>2. UNCHANGED <<tracker, zone, pageSize, hidden, clock, changes, changed>> /\ Chan' = {}
  BY <1>1, Nothing DEF tracked, Chan
<1>3. TypeOK'
  <2>1. 0 <= ChanSize
    BY Positive
  <2> QED BY <1>0, <1>1, <1>2, <2>1, Nothing DEF TypeOK
<1>4. Past'
  <2>1. \A b \in Bugs : changed[b] <= clock /\ 0 <= changed[b] /\ 0 <= clock
    BY <1>0, Numbers DEF Past
  <2>2. 0 <= clock
    BY <1>0, Numbers
  <2> QED BY <1>1, <1>2, <2>1, <2>2, Nothing DEF Past
<1>5. InOrder' /\ Covered'
  BY <1>1, <1>2, Nothing DEF InOrder, Covered
<1>6. Calm'
  BY <1>1, <1>2, Nothing DEF Calm
<1> QED BY <1>3, <1>4, <1>5, <1>6 DEF IInv

-----------------------------------------------------------------------------
\* Every step preserves the invariant.
LEMMA NextIInv == ASSUME IInv, [Next]_vars PROVE IInv'
<1>1. CASE Tick
  BY <1>1, TickStep
<1>2. CASE \E b \in Bugs : Change(b)
  BY <1>2, ChangeStep
<1>3. CASE ListPage
  BY <1>3, ListPageStep
<1>4. CASE ListAll
  BY <1>4, ListAllStep
<1>5. CASE ListFails
  BY <1>5, ListFailsStep
<1>6. CASE Ask \/ QueryFails \/ Close \/ TimerStops
  BY <1>6, QuietStep
<1>7. CASE AnswerBugs \/ AnswerIssues
  BY <1>7, AnswerStep
<1>8. CASE SendFailure \/ TimerSends
  BY <1>8, SendErrorStep
<1>9. CASE Send
  BY <1>9, SendStep
<1>10. CASE Sent
  BY <1>10, SentStep
<1>11. CASE TimerChooses \/ LateTimer
  BY <1>11, TimerStep
<1>12. CASE Receive
  BY <1>12, TakeStep
<1>13. CASE Stop
  BY <1>13, TakeStep, StoppedStep
<1>14. CASE Restart
  BY <1>14, RestartStep
<1>15. CASE UNCHANGED vars
  BY <1>15 DEF vars, tracked, IInv, TypeOK, Past, InOrder, Covered, Calm, Chan, Arrives, OnTheWay,
               Listed
<1> QED BY <1>1, <1>2, <1>3, <1>4, <1>5, <1>6, <1>7, <1>8, <1>9, <1>10, <1>11, <1>12, <1>13,
           <1>14, <1>15 DEF Next

\* The invariant holds of every behaviour.
LEMMA Invariance == Spec => []IInv
  BY InitIInv, NextIInv, PTL DEF Spec

\* Lists, watches and their timers keep to their types: a page begins within the
\* search, and a channel never holds more than its capacity.
THEOREM TypeCorrect == Spec => []TypeOK
<1>1. IInv => TypeOK
  BY DEF IInv
<1> QED BY Invariance, <1>1, PTL

\* However changes, queries and the reflector interleave, what changed after the
\* list and before the time of the next query is in the indexer or on its way
\* there, as long as jira cut no answer off and knows the time zone.
THEOREM WatchLeavesNoGap == Spec => []NoGapInWatch
<1>1. IInv => NoGapInWatch
  BY DEF IInv, Covered, NoGapInWatch, Arrives
<1> QED BY Invariance, <1>1, PTL

\* While every query succeeds a channel is closed only after its timer has sent,
\* so that no goroutine sends on a closed channel.
THEOREM PanicOnlyAfterFailure == Spec => []NoPanicWithoutFailure
<1>1. IInv => NoPanicWithoutFailure
  BY Positive DEF IInv, TypeOK, Calm, NoPanicWithoutFailure
<1> QED BY Invariance, <1>1, PTL
=============================================================================

------------------------- MODULE CommentStoreProofs -------------------------
(***************************************************************************)
(* What the comment stores keep, for any number of bugs, comments,         *)
(* changes, failures and crashes: files that can be read, files of deleted *)
(* bugs that say so, comments once fetched, and the information of the     *)
(* informer.                                                               *)
(*                                                                         *)
(* Three arguments share one invariant.  The files: without an overlap the *)
(* temporary name of a bug has one writer, because the handler that closes *)
(* a bug first takes it out of the store, where Run looks for it.  The     *)
(* comments: everything in the program is something the tracker showed,    *)
(* and only one fetch is under way, so that what it brings contains what   *)
(* is there.  The information: the last undelivered event of a bug says    *)
(* what the tracker has, and no update is handled without an entry.        *)
(***************************************************************************)
EXTENDS CommentStore, OperatorProofs

Writes(x, b) == writer[x] # Idle /\ writer[x].bug = b

\* A process that is down has no memory.
Down ==
    ~process.up => /\ fetch = NoFetch /\ \A b \in Bugs : store[b] = None
                   /\ \A x \in Writers : writer[x] = Idle

\* A change of a bug is counted.
Counted == \A b \in Bugs : bug[b].info =< count.changes

\* CloseBug writes what is no longer in the store, and that it is closed.
ClosesDeleted ==
    writer["handler"] # Idle =>
        /\ store[writer["handler"].bug] = None /\ writer["handler"].pc # "read"
        /\ writer["handler"].text.status = "closed"

\* What the temporary file of a writer has.
Wrote(x, b) ==
    /\ writer[x].pc = "open" => files[b].temp # None /\ files[b].temp.text = Empty
    /\ writer[x].pc = "written" => files[b].temp # None /\ files[b].temp.text = writer[x].text
    /\ writer[x].pc # "read" => writer[x].loc = "temp"

\* Without an overlap the temporary name has one writer.
Alone ==
    \A b \in Bugs \ overlap :
        /\ ~(Writes("disk", b) /\ Writes("handler", b))
        /\ \A x \in Writers : Writes(x, b) => Wrote(x, b)

\* A closed bug is out of the store and of the disk store's hands.
StaysClosed == \A b \in closed \ overlap : store[b] = None /\ ~Writes("disk", b)

-----------------------------------------------------------------------------
\* The comments of a bug that may be shown.
Shown(b) == ((1..bug[b].comments) \ Private) \cup {Hidden}

\* Entries, files, writers and answers have comments that the tracker showed; an
\* answer has those that the store has.
Shows(b, f) == f # None /\ f.text \in Text => f.text.comments \subseteq Shown(b)
Answered(b) == fetch # NoFetch /\ fetch.pc = "answered" /\ b \in fetch.ids

StoreShown == \A b \in Bugs : store[b] # None => store[b].comments \subseteq Shown(b)
FilesShown == \A b \in Bugs : Shows(b, files[b].temp) /\ Shows(b, files[b].final)
WritersShown ==
    \A x \in Writers : \A b \in Bugs : Writes(x, b) => writer[x].text.comments \subseteq Shown(b)
AnswerShown ==
    \A b \in Bugs : Answered(b) =>
        /\ fetch.answer[b] \subseteq Shown(b)
        /\ store[b] # None => store[b].comments \ {Hidden} \subseteq fetch.answer[b]
CommentsOK == StoreShown /\ FilesShown /\ WritersShown /\ AnswerShown

-----------------------------------------------------------------------------
\* Event i is about b, and no event from i to j is.
About(i, b) == i \in 1..Len(events) /\ events[i].bug = b
NoneIn(i, j, b) == \A n \in i..j : ~About(n, b)

\* The last event of a bug says what the tracker has; without one, the store has it.
LastSays(b) ==
    /\ NoneIn(1, Len(events), b) /\ bug[b].listed =>
          store[b] # None /\ store[b].info = Full(bug[b].info)
    /\ \A i \in 1..Len(events) : About(i, b) /\ NoneIn(i + 1, Len(events), b) =>
          /\ events[i].type = "delete" <=> ~bug[b].listed
          /\ events[i].type # "delete" => events[i].info = bug[b].info

\* An update finds the bug in the store, or an event before it puts it there.
UpdatesFind(b) ==
    \A i \in 1..Len(events) : About(i, b) /\ events[i].type = "update" =>
        \/ NoneIn(1, i - 1, b) /\ store[b] # None
        \/ \E j \in 1..(i - 1) : About(j, b) /\ NoneIn(j + 1, i - 1, b) /\ events[j].type # "delete"

EventsOK == tracker = "bugzilla" /\ process.up => \A b \in Bugs : LastSays(b) /\ UpdatesFind(b)

IInv ==
    /\ TypeOK /\ Down /\ Counted /\ ClosesDeleted /\ Alone /\ ReadableUnlessOverlap
    /\ StaysClosed /\ DeletedSaysClosed /\ CommentsOK /\ EventsOK

-----------------------------------------------------------------------------
(***************************************************************************)
(* What the handlers and the steps of the writers do.                      *)
(***************************************************************************)
Pair == [temp : File \cup {None}, final : File \cup {None}]
Stores == [Bugs -> Entry \cup {None}]

\* The parts of TypeOK.
LEMMA Types ==
    ASSUME TypeOK
    PROVE  /\ store \in Stores /\ files \in [Bugs -> Pair]
           /\ queue \in QueueType(Bugs) /\ diskQueue \in QueueType(Bugs)
           /\ writer \in [Writers -> WriterType \cup {Idle}] /\ fetch \in FetchType \cup {NoFetch}
           /\ events \in Seq(Event) /\ count.changes \in Nat
           /\ bug \in [Bugs -> [listed : BOOLEAN, info : 0..MaxChanges, comments : 1..MaxComments]]
  BY CommentStoreAssumption DEF TypeOK, Stores, Pair

\* None is no entry, no file and no information.
LEMMA Distinct ==
    /\ None \notin Entry /\ None \notin File /\ None \notin Info
    /\ Empty \notin Text /\ Torn \notin Text
    /\ MaxComments \in Nat \ {0} /\ MaxChanges \in Nat /\ MaxFaults \in Nat /\ MaxCrashes \in Nat
    /\ Private \subseteq 1..MaxComments /\ IsFiniteSet(Bugs)
  BY CommentStoreAssumption

\* A writer is idle or has a bug.
LEMMA WriterIs ==
    ASSUME TypeOK, NEW x \in Writers
    PROVE  /\ writer[x] = Idle \/ writer[x] \in WriterType
           /\ writer[x] \in WriterType <=> writer[x].pc # "idle"
<1>1. writer[x] \in WriterType \cup {Idle}
  BY Types
<1>2. Idle.pc = "idle" /\ \A w \in WriterType : w.pc # "idle"
  BY DEF Idle, WriterType
<1> QED BY <1>1, <1>2

\* bugAdd changes one entry, and keeps its comments.
LEMMA AddIs ==
    ASSUME TypeOK, NEW b \in Bugs, NEW v \in 0..MaxChanges, bugAdd(b, v)
    PROVE  /\ store' \in Stores /\ \A c \in Bugs \ {b} : store'[c] = store[c]
           /\ store'[b] # None /\ store'[b].info = Full(v)
           /\ store'[b].comments = IF store[b] # None THEN store[b].comments ELSE {}
           /\ queue' \in QueueType(Bugs) /\ closed' = closed \ {b}
           /\ UNCHANGED <<diskQueue, writer, files, overlap>>
<1> DEFINE new == IF store[b] # None THEN [store[b] EXCEPT !.info = Full(v)]
                  ELSE [info |-> Full(v), comments |-> {}, age |-> Stale]
<1>0. store \in Stores /\ store[b] \in Entry \cup {None} /\ Full(v) \in Info
  BY Types DEF Stores, Full, Info
<1>1. /\ new \in Entry /\ new.info = Full(v)
      /\ new.comments = IF store[b] # None THEN store[b].comments ELSE {}
  <2>1. CASE store[b] # None
    BY <1>0, <2>1 DEF Entry
  <2>2. CASE store[b] = None
    BY <1>0, <2>2 DEF Entry, Comments, Stale, Recent
  <2> QED BY <2>1, <2>2
<1>2. store' = [store EXCEPT ![b] = new]
  BY DEF bugAdd
<1> HIDE DEF new
<1>3. queue' \in QueueType(Bugs)
  BY Types, AddType DEF bugAdd
<1>4. store'[b] = new /\ new # None
  BY <1>0, <1>1, <1>2, Distinct DEF Stores
<1> QED BY <1>0, <1>1, <1>2, <1>3, <1>4 DEF Stores, bugAdd

\* SetInfo changes the information of an entry, if there is one.
LEMMA SetIs ==
    ASSUME TypeOK, NEW b \in Bugs, NEW v \in 0..MaxChanges, SetInfo(b, v)
    PROVE  /\ store' \in Stores /\ \A c \in Bugs \ {b} : store'[c] = store[c]
           /\ store'[b] = None <=> store[b] = None
           /\ store[b] # None => /\ store'[b].info = Full(v)
                                 /\ store'[b].comments = store[b].comments
           /\ diskQueue' \in QueueType(Bugs)
           /\ UNCHANGED <<queue, writer, files, closed, overlap>>
<1>0. store \in Stores /\ store[b] \in Entry \cup {None} /\ Full(v) \in Info
      /\ diskQueue \in QueueType(Bugs)
  BY Types DEF Stores, Full, Info
<1>1. CASE store[b] = None \/ store[b].info = Full(v)
  BY <1>0, <1>1 DEF SetInfo
<1>2. CASE ~(store[b] = None \/ store[b].info = Full(v))
  <2> DEFINE new == [store[b] EXCEPT !.info = Full(v)]
  <2>1. new \in Entry /\ new.info = Full(v) /\ new.comments = store[b].comments
    BY <1>0, <1>2 DEF Entry
  <2>2. store' = [store EXCEPT ![b] = new] /\ diskQueue' = Add(diskQueue, b)
    BY <1>2 DEF SetInfo
  <2> HIDE DEF new
  <2>3. store'[b] = new /\ new # None
    BY <1>0, <2>1, <2>2, Distinct DEF Stores
  <2>4. diskQueue' \in QueueType(Bugs)
    BY <1>0, <2>2, AddType
  <2> QED BY <1>0, <1>2, <2>1, <2>2, <2>3, <2>4 DEF Stores, SetInfo
<1> QED BY <1>1, <1>2

\* OpenTemp makes an empty temporary file.
LEMMA OpenIs ==
    ASSUME TypeOK, NEW b \in Bugs, OpenTemp(b)
    PROVE  /\ files' \in [Bugs -> Pair] /\ \A c \in Bugs \ {b} : files'[c] = files[c]
           /\ files'[b].temp # None /\ files'[b].temp.text = Empty
           /\ files'[b].final = files[b].final
<1>0. files \in [Bugs -> Pair] /\ files[b] \in Pair
  BY Types
<1> DEFINE new == [text |-> Empty, age |-> Recent]
<1>1. new \in File /\ new.text = Empty
  BY DEF File, Recent
<1>2. files' = [files EXCEPT ![b] = [files[b] EXCEPT !.temp = new]]
  BY DEF OpenTemp
<1> HIDE DEF new
<1>3. [files[b] EXCEPT !.temp = new] \in Pair /\ [files[b] EXCEPT !.temp = new].temp = new
      /\ [files[b] EXCEPT !.temp = new].final = files[b].final
  BY <1>0, <1>1 DEF Pair
<1> QED BY <1>0, <1>1, <1>2, <1>3, Distinct

\* bugDelete takes the bug out of the store, and CloseBug writes it.
LEMMA DeleteIs ==
    ASSUME TypeOK, NEW b \in Bugs, bugDelete(b), store[b] # None
    PROVE  /\ store' \in Stores /\ \A c \in Bugs \ {b} : store'[c] = store[c]
           /\ store'[b] = None
           /\ OpenTemp(b)
           /\ writer' \in [Writers -> WriterType \cup {Idle}]
           /\ writer'["disk"] = writer["disk"] /\ writer'["handler"] # Idle
           /\ writer'["handler"].bug = b /\ writer'["handler"].pc = "open"
           /\ writer'["handler"].loc = "temp" /\ writer'["handler"].text.status = "closed"
           /\ writer'["handler"].text.comments = store[b].comments
           /\ overlap \subseteq overlap' /\ overlap' \subseteq Bugs /\ overlap' \subseteq overlap \cup {b}
           /\ Writes("disk", b) => b \in overlap'
           /\ UNCHANGED <<queue, diskQueue, closed>>
<1>0. store \in Stores /\ store[b] \in Entry /\ overlap \subseteq Bugs
      /\ writer \in [Writers -> WriterType \cup {Idle}]
  BY Types DEF Stores, TypeOK
<1> DEFINE new == Closing(b, store[b])
<1>1. /\ new \in WriterType /\ new.bug = b /\ new.pc = "open" /\ new.loc = "temp"
      /\ new.text.status = "closed" /\ new.text.comments = store[b].comments
  BY <1>0 DEF Closing, WriterType, Text, Entry
<1>2. new # Idle
  BY <1>1 DEF Idle
<1>3. writer' = [writer EXCEPT !["handler"] = new]
  BY DEF bugDelete, CloseBug
<1> HIDE DEF new
<1>4. writer'["handler"] = new /\ writer'["disk"] = writer["disk"]
      /\ writer' \in [Writers -> WriterType \cup {Idle}]
  BY <1>0, <1>1, <1>3 DEF Writers
<1>5. store' = [store EXCEPT ![b] = None]
  BY DEF bugDelete
<1>6. overlap' = IF writer["disk"] # Idle /\ writer["disk"].bug = b THEN overlap \cup {b} ELSE overlap
  BY DEF bugDelete
<1> QED BY <1>0, <1>1, <1>2, <1>4, <1>5, <1>6 DEF Stores, Writes, bugDelete

\* Get takes an item off a queue.
LEMMA GetType ==
    ASSUME NEW K, NEW q \in QueueType(K), CanGet(q)
    PROVE  Head(q.queue) \in K /\ Get(q) \in QueueType(K)
<1>1. q.queue \in Seq(K) /\ q.queue # << >>
  BY DEF QueueType, CanGet
<1>2. Head(q.queue) \in K /\ Tail(q.queue) \in Seq(K)
  BY <1>1, HeadTailProperties
<1> QED BY <1>2 DEF Get, QueueType

\* Run takes an entry of the store, if there is one.
LEMMA RunGetIs ==
    ASSUME TypeOK, RunGet
    PROVE  /\ diskQueue' \in QueueType(Bugs) /\ writer' \in [Writers -> WriterType \cup {Idle}]
           /\ writer["disk"] = Idle /\ writer'["handler"] = writer["handler"]
           /\ \/ writer' = writer
              \/ \E b \in Bugs :
                    /\ store[b] # None /\ writer'["disk"].pc = "read" /\ writer'["disk"].bug = b
                    /\ writer'["disk"].text.comments = store[b].comments
<1>0. diskQueue \in QueueType(Bugs) /\ writer \in [Writers -> WriterType \cup {Idle}]
      /\ writer["disk"] = Idle /\ store \in Stores
  BY Types DEF RunGet
<1>1. PICK b \in Bugs : b = Head(diskQueue.queue)
  BY <1>0, GetType DEF RunGet
<1>2. diskQueue' \in QueueType(Bugs)
  <2>1. Get(diskQueue) \in QueueType(Bugs)
    BY <1>0, GetType DEF RunGet
  <2> QED BY <1>1, <2>1, DoneType DEF RunGet
<1>3. CASE process.disableWrite \/ store[b] = None
  <2>1. writer' = writer
    BY <1>1, <1>3 DEF RunGet
  <2> QED BY <1>0, <1>2, <2>1
<1>4. CASE ~(process.disableWrite \/ store[b] = None)
  <2> DEFINE new == [pc |-> "read", bug |-> b, entry |-> store[b], loc |-> "lost",
                     text |-> [status |-> "open", info |-> store[b].info,
                               comments |-> store[b].comments]]
  <2>0. store[b] \in Entry
    BY <1>0, <1>4 DEF Stores
  <2>1. new \in WriterType /\ new.pc = "read" /\ new.bug = b /\ new.text.comments = store[b].comments
    BY <2>0 DEF WriterType, Text, Entry
  <2>2. writer' = [writer EXCEPT !["disk"] = new]
    BY <1>1, <1>4 DEF RunGet
  <2> HIDE DEF new
  <2>3. writer'["disk"] = new /\ writer'["handler"] = writer["handler"]
        /\ writer' \in [Writers -> WriterType \cup {Idle}]
    BY <1>0, <2>1, <2>2 DEF Writers
  <2> QED BY <1>0, <1>2, <1>4, <2>1, <2>3
<1> QED BY <1>3, <1>4

\* Run opens the temporary file of its bug.
LEMMA RunOpenIs ==
    ASSUME TypeOK, RunOpen
    PROVE  /\ writer["disk"] \in WriterType /\ writer["disk"].pc = "read"
           /\ writer' \in [Writers -> WriterType \cup {Idle}] /\ writer'["disk"] \in WriterType
           /\ writer'["handler"] = writer["handler"] /\ OpenTemp(writer["disk"].bug)
           /\ writer'["disk"].pc = "open" /\ writer'["disk"].bug = writer["disk"].bug
           /\ writer'["disk"].loc = "temp"
           /\ writer'["disk"].text.comments = writer["disk"].text.comments
<1>0. writer \in [Writers -> WriterType \cup {Idle}] /\ writer["disk"].pc = "read" /\ "disk" \in Writers
  BY Types DEF RunOpen, Writers
<1>1. PICK w \in WriterType : w = writer["disk"]
  BY <1>0, WriterIs
<1>2. PICK info \in Info : info = IF lister[w.bug] # None THEN lister[w.bug] ELSE w.text.info
  <2>1. w.bug \in Bugs /\ w.text.info \in Info
    BY DEF WriterType, Text
  <2>2. lister[w.bug] # None => lister[w.bug] \in Info
    BY <2>1, Types DEF lister, Info
  <2> QED BY <2>1, <2>2
<1> DEFINE text == [w.text EXCEPT !.info = info]
           new == [w EXCEPT !.pc = "open", !.loc = "temp", !.text = text]
<1>3. text \in Text /\ text.comments = w.text.comments
  BY DEF WriterType, Text
<1>4. writer' = [writer EXCEPT !["disk"] = new]
  BY <1>1, <1>2 DEF RunOpen
<1> HIDE DEF text
<1>5. /\ new \in WriterType /\ new.pc = "open" /\ new.loc = "temp" /\ new.bug = w.bug
      /\ new.text = text
  BY <1>3 DEF WriterType
<1> HIDE DEF new
<1>6. writer'["disk"] = new /\ writer'["handler"] = writer["handler"]
      /\ writer' \in [Writers -> WriterType \cup {Idle}]
  BY <1>0, <1>4, <1>5 DEF Writers
<1> QED BY <1>0, <1>1, <1>3, <1>5, <1>6 DEF RunOpen

\* What a write leaves in the two files of a bug.
LEMMA WriteIs ==
    ASSUME TypeOK, NEW w \in WriterType, NEW text \in Text \cup {Torn}
    PROVE  /\ WriteAt(w, text) \in [Bugs -> Pair]
           /\ \A c \in Bugs \ {w.bug} : WriteAt(w, text)[c] = files[c]
           /\ \/ WriteAt(w, text)[w.bug].temp = files[w.bug].temp
              \/ /\ WriteAt(w, text)[w.bug].temp \in File
                 /\ WriteAt(w, text)[w.bug].temp.text \in {text, Torn}
           /\ \/ WriteAt(w, text)[w.bug].final = files[w.bug].final
              \/ /\ WriteAt(w, text)[w.bug].final \in File
                 /\ WriteAt(w, text)[w.bug].final.text \in {text, Torn}
           /\ w.loc = "temp" => /\ WriteAt(w, text)[w.bug].final = files[w.bug].final
                                /\ WriteAt(w, text)[w.bug].temp # None
                                /\ WriteAt(w, text)[w.bug].temp.text = Overlay(files[w.bug].temp.text, text)
<1>0. files \in [Bugs -> Pair] /\ w.bug \in Bugs /\ files[w.bug] \in Pair
      /\ w.loc \in {"temp", "final", "lost"}
  BY Types DEF WriterType
<1>1. CASE w.loc = "temp"
  <2> DEFINE over == Overlay(files[w.bug].temp.text, text)
             new == [text |-> over, age |-> Recent]
             both == [files[w.bug] EXCEPT !.temp = new]
  <2>1. over \in {text, Torn}
    BY DEF Overlay
  <2>2. WriteAt(w, text) = [files EXCEPT ![w.bug] = both]
    BY <1>1 DEF WriteAt
  <2> HIDE DEF over
  <2>3. new \in File /\ new.text = over
    BY <2>1 DEF File, Recent
  <2> HIDE DEF new
  <2>4. both \in Pair /\ both.temp = new /\ both.final = files[w.bug].final
    BY <1>0, <2>3 DEF Pair
  <2> HIDE DEF both
  <2>5. WriteAt(w, text)[w.bug] = both /\ WriteAt(w, text) \in [Bugs -> Pair]
        /\ \A c \in Bugs \ {w.bug} : WriteAt(w, text)[c] = files[c]
    BY <1>0, <2>2, <2>4
  <2>6. over = Overlay(files[w.bug].temp.text, text)
    BY DEF over
  <2> QED BY <2>1, <2>3, <2>4, <2>5, <2>6, Distinct
<1>2. CASE w.loc = "final"
  <2> DEFINE over == Overlay(files[w.bug].final.text, text)
             new == [text |-> over, age |-> Recent]
             both == [files[w.bug] EXCEPT !.final = new]
  <2>1. over \in {text, Torn}
    BY DEF Overlay
  <2>2. WriteAt(w, text) = [files EXCEPT ![w.bug] = both]
    BY <1>2 DEF WriteAt
  <2> HIDE DEF over
  <2>3. new \in File /\ new.text = over
    BY <2>1 DEF File, Recent
  <2> HIDE DEF new
  <2>4. both \in Pair /\ both.final = new /\ both.temp = files[w.bug].temp
    BY <1>0, <2>3 DEF Pair
  <2> HIDE DEF both
  <2>5. WriteAt(w, text)[w.bug] = both /\ WriteAt(w, text) \in [Bugs -> Pair]
        /\ \A c \in Bugs \ {w.bug} : WriteAt(w, text)[c] = files[c]
    BY <1>0, <2>2, <2>4
  <2> QED BY <1>2, <2>1, <2>3, <2>4, <2>5
<1>3. CASE w.loc = "lost"
  <2>1. WriteAt(w, text) = files
    BY <1>3 DEF WriteAt
  <2> QED BY <1>0, <1>3, <2>1
<1> QED BY <1>0, <1>1, <1>2, <1>3

\* The other writer of a bug when its file is renamed or removed: only the location
\* changes.
Follows(x, b) ==
    \A y \in Writers \ {x} :
        /\ writer'[y] = Idle <=> writer[y] = Idle
        /\ writer[y] # Idle => /\ writer'[y].bug = writer[y].bug /\ writer'[y].pc = writer[y].pc
                               /\ writer'[y].text = writer[y].text
                               /\ writer[y].bug # b => writer'[y] = writer[y]

\* Flush writes the text of the writer.
LEMMA FlushIs ==
    ASSUME TypeOK, NEW x \in Writers, Flush(x)
    PROVE  /\ writer[x] \in WriterType /\ writer[x].pc = "open"
           /\ files' = WriteAt(writer[x], writer[x].text)
           /\ writer' \in [Writers -> WriterType \cup {Idle}] /\ writer'[x] \in WriterType
           /\ writer'[x].pc = "written" /\ writer'[x].bug = writer[x].bug
           /\ writer'[x].loc = writer[x].loc /\ writer'[x].text = writer[x].text
           /\ \A y \in Writers \ {x} : writer'[y] = writer[y]
<1>0. writer \in [Writers -> WriterType \cup {Idle}] /\ writer[x].pc = "open"
  BY Types DEF Flush
<1>1. PICK w \in WriterType : w = writer[x]
  BY <1>0, WriterIs
<1> DEFINE new == [w EXCEPT !.pc = "written"]
<1>2. new \in WriterType /\ new.pc = "written" /\ new.bug = w.bug /\ new.loc = w.loc /\ new.text = w.text
  BY DEF WriterType
<1>3. writer' = [writer EXCEPT ![x] = new]
  BY <1>1 DEF Flush
<1> HIDE DEF new
<1> QED BY <1>0, <1>1, <1>2, <1>3 DEF Flush

\* FlushFails removes the temporary file.
LEMMA FlushFailsIs ==
    ASSUME TypeOK, NEW x \in Writers, FlushFails(x)
    PROVE  /\ writer[x] \in WriterType /\ writer'[x] = Idle
           /\ writer' \in [Writers -> WriterType \cup {Idle}] /\ Follows(x, writer[x].bug)
           /\ files' \in [Bugs -> Pair] /\ \A c \in Bugs \ {writer[x].bug} : files'[c] = files[c]
           /\ files'[writer[x].bug].temp = None
           /\ \/ files'[writer[x].bug].final = files[writer[x].bug].final
              \/ files'[writer[x].bug].final \in File /\ files'[writer[x].bug].final.text = Torn
           /\ writer[x].loc = "temp" => files'[writer[x].bug].final = files[writer[x].bug].final
<1>0. writer \in [Writers -> WriterType \cup {Idle}] /\ writer[x].pc = "open"
  BY Types DEF FlushFails
<1>1. PICK w \in WriterType : w = writer[x]
  BY <1>0, WriterIs
<1>2. PICK fs : fs = WriteAt(w, Torn)
  OBVIOUS
<1>3. /\ fs \in [Bugs -> Pair] /\ \A c \in Bugs \ {w.bug} : fs[c] = files[c]
      /\ \/ fs[w.bug].final = files[w.bug].final
         \/ fs[w.bug].final \in File /\ fs[w.bug].final.text = Torn
      /\ w.loc = "temp" => fs[w.bug].final = files[w.bug].final
  BY <1>2, WriteIs
<1>4. files' = [fs EXCEPT ![w.bug] = [fs[w.bug] EXCEPT !.temp = None]] /\ w.bug \in Bugs
  BY <1>1, <1>2 DEF FlushFails, WriterType
<1>5. /\ files' \in [Bugs -> Pair] /\ \A c \in Bugs \ {w.bug} : files'[c] = files[c]
      /\ files'[w.bug].temp = None /\ files'[w.bug].final = fs[w.bug].final
  <2>1. fs[w.bug] \in Pair
    BY <1>3, <1>4
  <2> DEFINE both == [fs[w.bug] EXCEPT !.temp = None]
  <2>2. both \in Pair /\ both.temp = None /\ both.final = fs[w.bug].final
    BY <2>1 DEF Pair
  <2> HIDE DEF both
  <2> QED BY <1>3, <1>4, <2>2 DEF both
<1>6. /\ writer' \in [Writers -> WriterType \cup {Idle}] /\ Follows(x, w.bug) /\ writer'[x] = Idle
  <2>1. \A y \in Writers \ {x} :
           writer'[y] = IF writer[y] # Idle /\ writer[y].bug = w.bug /\ writer[y].loc = "temp"
                        THEN [writer[y] EXCEPT !.loc = "lost"] ELSE writer[y]
    BY <1>1 DEF FlushFails, Moved
  <2>2. writer'[x] = Idle /\ writer' \in [Writers -> {writer'[y] : y \in Writers}]
    BY DEF FlushFails, Moved
  <2>3. ASSUME NEW y \in Writers \ {x}, writer[y] # Idle
        PROVE  /\ writer'[y] \in WriterType /\ writer'[y].bug = writer[y].bug
               /\ writer'[y].pc = writer[y].pc /\ writer'[y].text = writer[y].text
               /\ writer[y].bug # w.bug => writer'[y] = writer[y]
    <3>1. PICK v \in WriterType : v = writer[y]
      BY <1>0, <2>3
    <3>2. /\ [v EXCEPT !.loc = "lost"] \in WriterType /\ [v EXCEPT !.loc = "lost"].bug = v.bug
          /\ [v EXCEPT !.loc = "lost"].pc = v.pc /\ [v EXCEPT !.loc = "lost"].text = v.text
      BY DEF WriterType
    <3> QED BY <2>1, <2>3, <3>1, <3>2
  <2>4. \A w1 \in WriterType : w1 # Idle
    BY DEF WriterType, Idle
  <2>5. \A y \in Writers \ {x} : writer[y] = Idle => writer'[y] = Idle
    BY <2>1
  <2>6. Follows(x, w.bug)
    BY <2>3, <2>4, <2>5 DEF Follows
  <2>7. \A y \in Writers : writer'[y] \in WriterType \cup {Idle}
    BY <2>2, <2>3, <2>5
  <2> QED BY <2>2, <2>6, <2>7
<1> QED BY <1>1, <1>3, <1>5, <1>6

\* Rename puts the temporary file under the final name, if it is there.
LEMMA RenameIs ==
    ASSUME TypeOK, NEW x \in Writers, Rename(x)
    PROVE  /\ writer[x] \in WriterType /\ writer[x].pc = "written" /\ writer'[x] = Idle
           /\ writer' \in [Writers -> WriterType \cup {Idle}] /\ Follows(x, writer[x].bug)
           /\ files' \in [Bugs -> Pair] /\ \A c \in Bugs \ {writer[x].bug} : files'[c] = files[c]
           /\ files[writer[x].bug].temp = None => files' = files /\ closed' = closed
           /\ files[writer[x].bug].temp # None =>
                 /\ files'[writer[x].bug].temp = None /\ files'[writer[x].bug].final \in File
                 /\ files'[writer[x].bug].final.text = files[writer[x].bug].temp.text
                 /\ closed' = IF x = "handler" THEN closed \cup {writer[x].bug} ELSE closed
           /\ queue' \in QueueType(Bugs)
<1>0. /\ writer \in [Writers -> WriterType \cup {Idle}] /\ writer[x].pc = "written"
      /\ files \in [Bugs -> Pair] /\ queue \in QueueType(Bugs)
  BY Types DEF Rename
<1>1. PICK w \in WriterType : w = writer[x]
  BY <1>0, WriterIs
<1>2. w.bug \in Bugs /\ w.entry.age \in {Recent, Stale} /\ files[w.bug] \in Pair
  BY <1>0 DEF WriterType, Entry
<1>3. queue' \in QueueType(Bugs)
  BY <1>0, <1>1, <1>2, AddType DEF Rename
<1>4. /\ files' \in [Bugs -> Pair] /\ \A c \in Bugs \ {w.bug} : files'[c] = files[c]
      /\ files[w.bug].temp = None => files' = files
      /\ files[w.bug].temp # None =>
            /\ files'[w.bug].temp = None /\ files'[w.bug].final \in File
            /\ files'[w.bug].final.text = files[w.bug].temp.text
  <2>1. CASE files[w.bug].temp = None
    <3>1. files' = files
      BY <1>1, <2>1 DEF Rename
    <3> QED BY <1>0, <2>1, <3>1
  <2>2. CASE files[w.bug].temp # None
    <3> DEFINE new == [files[w.bug].temp EXCEPT !.age = w.entry.age]
               both == [temp |-> None, final |-> new]
    <3>1. files[w.bug].temp \in File
      BY <1>2, <2>2 DEF Pair
    <3>2. new \in File /\ new.text = files[w.bug].temp.text
      BY <1>2, <3>1 DEF File
    <3>3. files' = [files EXCEPT ![w.bug] = both]
      BY <1>1, <2>2 DEF Rename
    <3> HIDE DEF new
    <3>4. both \in Pair /\ both.temp = None /\ both.final = new
      BY <3>2 DEF Pair
    <3> HIDE DEF both
    <3> QED BY <1>0, <1>2, <2>2, <3>2, <3>3, <3>4
  <2> QED BY <2>1, <2>2
<1>5. closed' = IF files[w.bug].temp # None /\ x = "handler" THEN closed \cup {w.bug} ELSE closed
  BY <1>1 DEF Rename
<1>6. writer' \in [Writers -> WriterType \cup {Idle}] /\ Follows(x, w.bug) /\ writer'[x] = Idle
  <2>1. \A y \in Writers \ {x} :
           \/ writer'[y] = writer[y]
           \/ /\ writer[y] # Idle /\ writer[y].bug = w.bug
              /\ \E l \in {"final", "lost"} : writer'[y] = [writer[y] EXCEPT !.loc = l]
    <3>1. CASE files[w.bug].temp = None
      <4>1. writer' = [writer EXCEPT ![x] = Idle]
        BY <1>1, <3>1 DEF Rename
      <4> QED BY <1>0, <4>1
    <3>2. CASE files[w.bug].temp # None
      <4> DEFINE moved == [y \in Writers |->
                    IF writer[y] = Idle \/ writer[y].bug # w.bug THEN writer[y]
                    ELSE [writer[y] EXCEPT !.loc = IF writer[y].loc = "temp" THEN "final" ELSE "lost"]]
      <4>1. writer' = [moved EXCEPT ![x] = Idle]
        BY <1>1, <3>2 DEF Rename
      <4>2. \A y \in Writers \ {x} : writer'[y] = moved[y]
        BY <4>1
      <4> QED BY <4>2
    <3> QED BY <3>1, <3>2
  <2>2. writer'[x] = Idle /\ writer' \in [Writers -> {writer'[y] : y \in Writers}]
    <3>1. CASE files[w.bug].temp = None
      <4>1. writer' = [writer EXCEPT ![x] = Idle]
        BY <1>1, <3>1 DEF Rename
      <4> QED BY <1>0, <4>1
    <3>2. CASE files[w.bug].temp # None
      BY <1>1, <3>2 DEF Rename
    <3> QED BY <3>1, <3>2
  <2>3. ASSUME NEW y \in Writers \ {x}, writer[y] # Idle
        PROVE  /\ writer'[y] \in WriterType /\ writer'[y].bug = writer[y].bug
               /\ writer'[y].pc = writer[y].pc /\ writer'[y].text = writer[y].text
               /\ writer[y].bug # w.bug => writer'[y] = writer[y]
    <3>1. PICK v \in WriterType : v = writer[y]
      BY <1>0, <2>3
    <3>2. \A l \in {"final", "lost"} :
             /\ [v EXCEPT !.loc = l] \in WriterType /\ [v EXCEPT !.loc = l].bug = v.bug
             /\ [v EXCEPT !.loc = l].pc = v.pc /\ [v EXCEPT !.loc = l].text = v.text
      BY DEF WriterType
    <3> QED BY <2>1, <3>1, <3>2
  <2>4. \A w1 \in WriterType : w1 # Idle
    BY DEF WriterType, Idle
  <2>5. \A y \in Writers \ {x} : writer[y] = Idle => writer'[y] = Idle
    BY <2>1
  <2>6. Follows(x, w.bug)
    BY <2>3, <2>4, <2>5 DEF Follows
  <2>7. \A y \in Writers : writer'[y] \in WriterType \cup {Idle}
    BY <2>2, <2>3, <2>5
  <2> QED BY <2>2, <2>6, <2>7
<1> QED BY <1>0, <1>1, <1>3, <1>4, <1>5, <1>6

\* Time changes ages only.
LEMMA TimeIs ==
    ASSUME TypeOK, TimePasses
    PROVE  /\ store' \in Stores
           /\ \A b \in Bugs : /\ store'[b] = None <=> store[b] = None
                              /\ store[b] # None => /\ store'[b].info = store[b].info
                                                    /\ store'[b].comments = store[b].comments
           /\ fetch' \in FetchType \cup {NoFetch} /\ (fetch' = NoFetch <=> fetch = NoFetch)
           /\ fetch # NoFetch => /\ fetch'.pc = fetch.pc /\ fetch'.ids = fetch.ids
                                 /\ fetch'.answer = fetch.answer
           /\ files' \in [Bugs -> Pair]
           /\ \A b \in Bugs : /\ files'[b].temp = None <=> files[b].temp = None
                              /\ files'[b].final = None <=> files[b].final = None
                              /\ files[b].temp # None => files'[b].temp.text = files[b].temp.text
                              /\ files[b].final # None => files'[b].final.text = files[b].final.text
           /\ writer' \in [Writers -> WriterType \cup {Idle}]
           /\ \A x \in Writers : /\ writer'[x] = Idle <=> writer[x] = Idle
                                 /\ writer[x] # Idle =>
                                       /\ writer'[x].bug = writer[x].bug /\ writer'[x].pc = writer[x].pc
                                       /\ writer'[x].text = writer[x].text
                                       /\ writer'[x].loc = writer[x].loc
<1>0. /\ store \in Stores /\ fetch \in FetchType \cup {NoFetch} /\ files \in [Bugs -> Pair]
      /\ writer \in [Writers -> WriterType \cup {Idle}]
  BY Types
<1>1. \A e \in Entry : /\ [e EXCEPT !.age = Stale] \in Entry /\ [e EXCEPT !.age = Stale].info = e.info
                       /\ [e EXCEPT !.age = Stale].comments = e.comments
  BY DEF Entry
<1>2. \A f \in File : [f EXCEPT !.age = Stale] \in File /\ [f EXCEPT !.age = Stale].text = f.text
  BY DEF File
<1>3. /\ \A e \in Entry \cup {None} : /\ Aged(e) \in Entry \cup {None} /\ (Aged(e) = None <=> e = None)
                                      /\ e # None => Aged(e).info = e.info /\ Aged(e).comments = e.comments
  BY <1>1, Distinct DEF Aged
<1>4. /\ \A f \in File \cup {None} : /\ Aged(f) \in File \cup {None} /\ (Aged(f) = None <=> f = None)
                                     /\ f # None => Aged(f).text = f.text
  BY <1>2, Distinct DEF Aged
<1>5. /\ store' \in Stores
      /\ \A b \in Bugs : /\ store'[b] = None <=> store[b] = None
                         /\ store[b] # None => /\ store'[b].info = store[b].info
                                               /\ store'[b].comments = store[b].comments
  <2>1. store' = [b \in Bugs |-> Aged(store[b])]
    BY DEF TimePasses
  <2> QED BY <1>0, <1>3, <2>1 DEF Stores
<1>6. /\ files' \in [Bugs -> Pair]
      /\ \A b \in Bugs : /\ files'[b].temp = None <=> files[b].temp = None
                         /\ files'[b].final = None <=> files[b].final = None
                         /\ files[b].temp # None => files'[b].temp.text = files[b].temp.text
                         /\ files[b].final # None => files'[b].final.text = files[b].final.text
  <2>1. files' = [b \in Bugs |-> [temp |-> Aged(files[b].temp), final |-> Aged(files[b].final)]]
    BY DEF TimePasses
  <2>2. \A b \in Bugs : files[b].temp \in File \cup {None} /\ files[b].final \in File \cup {None}
    BY <1>0 DEF Pair
  <2>3. \A b \in Bugs : files'[b].temp = Aged(files[b].temp) /\ files'[b].final = Aged(files[b].final)
    BY <2>1
  <2>4. files' \in [Bugs -> Pair]
    BY <1>4, <2>1, <2>2 DEF Pair
  <2> QED BY <1>4, <2>2, <2>3, <2>4
<1>7. /\ fetch' \in FetchType \cup {NoFetch} /\ (fetch' = NoFetch <=> fetch = NoFetch)
      /\ fetch # NoFetch => /\ fetch'.pc = fetch.pc /\ fetch'.ids = fetch.ids
                            /\ fetch'.answer = fetch.answer
  <2>1. \A f \in FetchType : /\ [f EXCEPT !.age = Stale] \in FetchType /\ f # NoFetch
                             /\ [f EXCEPT !.age = Stale].pc = f.pc
                             /\ [f EXCEPT !.age = Stale].ids = f.ids
                             /\ [f EXCEPT !.age = Stale].answer = f.answer
    BY DEF FetchType, NoFetch
  <2>2. fetch' = IF fetch = NoFetch THEN NoFetch ELSE [fetch EXCEPT !.age = Stale]
    BY DEF TimePasses
  <2> QED BY <1>0, <2>1, <2>2
<1>8. /\ writer' \in [Writers -> WriterType \cup {Idle}]
      /\ \A x \in Writers : /\ writer'[x] = Idle <=> writer[x] = Idle
                            /\ writer[x] # Idle =>
                                  /\ writer'[x].bug = writer[x].bug /\ writer'[x].pc = writer[x].pc
                                  /\ writer'[x].text = writer[x].text
                                  /\ writer'[x].loc = writer[x].loc
  <2> DEFINE Later(w) == [w EXCEPT !.entry = [w.entry EXCEPT !.age = Stale]]
  <2>1. ASSUME NEW w \in WriterType
        PROVE  /\ Later(w) \in WriterType /\ Later(w) # Idle /\ Later(w).bug = w.bug
               /\ Later(w).pc = w.pc /\ Later(w).text = w.text /\ Later(w).loc = w.loc
    <3>1. w.entry \in Entry
      BY DEF WriterType
    <3>2. [w.entry EXCEPT !.age = Stale] \in Entry
      BY <1>1, <3>1
    <3>3. /\ Later(w) \in WriterType /\ Later(w).bug = w.bug
          /\ Later(w).pc = w.pc /\ Later(w).text = w.text /\ Later(w).loc = w.loc
      BY <3>2 DEF WriterType
    <3> QED BY <3>3 DEF WriterType, Idle
  <2>2. writer' = [x \in Writers |-> IF writer[x] = Idle THEN Idle ELSE Later(writer[x])]
    BY DEF TimePasses
  <2> HIDE DEF Later
  <2> QED BY <1>0, <2>1, <2>2
<1> QED BY <1>5, <1>6, <1>7, <1>8

\* Merging changes comments to those of the answer.
LEMMA MergeIs ==
    ASSUME TypeOK, Merge
    PROVE  /\ store' \in Stores /\ diskQueue' \in QueueType(Bugs)
           /\ fetch # NoFetch /\ fetch.pc = "answered" /\ fetch' = NoFetch
           /\ \A b \in Bugs : /\ store'[b] = None <=> store[b] = None
                              /\ store[b] # None => store'[b].info = store[b].info
                              /\ store[b] # None =>
                                    \/ store'[b].comments = store[b].comments
                                    \/ b \in fetch.ids /\ store'[b].comments = fetch.answer[b]
<1>0. /\ store \in Stores /\ fetch \in FetchType \cup {NoFetch} /\ diskQueue \in QueueType(Bugs)
      /\ fetch.pc = "answered" /\ mergeBugs
  BY Types DEF Merge, mergeIssues
<1>1. fetch # NoFetch /\ fetch \in FetchType
  BY <1>0 DEF NoFetch
<1>2. store' = Merged
  BY <1>0 DEF mergeBugs
<1>3. ASSUME NEW b \in Bugs
      PROVE  /\ store'[b] \in Entry \cup {None} /\ (store'[b] = None <=> store[b] = None)
             /\ store[b] # None => store'[b].info = store[b].info
             /\ store[b] # None =>
                   \/ store'[b].comments = store[b].comments
                   \/ b \in fetch.ids /\ store'[b].comments = fetch.answer[b]
  <2>1. CASE ~Merges(b)
    <3>1. store'[b] = store[b]
      BY <1>2, <2>1 DEF Merged
    <3> QED BY <1>0, <3>1 DEF Stores
  <2>2. CASE Merges(b)
    <3> DEFINE new == [info |-> store[b].info, comments |-> fetch.answer[b], age |-> fetch.age]
    <3>1. store'[b] = new
      BY <1>2, <2>2 DEF Merged
    <3>2. store[b] # None /\ b \in fetch.ids /\ store[b] \in Entry
      BY <1>0, <2>2 DEF Merges, Stores
    <3>3. fetch.answer[b] \in Comments /\ fetch.age \in {Recent, Stale}
      BY <1>1 DEF FetchType
    <3>4. new \in Entry
      BY <3>2, <3>3 DEF Entry
    <3> QED BY <3>1, <3>2, <3>4, Distinct
  <2> QED BY <2>1, <2>2
<1>4. store' \in Stores
  BY <1>2, <1>3 DEF Stores, Merged
<1>5. diskQueue' \in QueueType(Bugs)
  <2> DEFINE ids == {b \in Bugs : Merges(b)}
             new == ids \ (diskQueue.dirty \cup diskQueue.processing)
  <2>1. PICK order \in [1..Cardinality(new) -> new] :
           diskQueue' = [diskQueue EXCEPT !.dirty = @ \cup ids, !.queue = @ \o order]
    BY <1>0 DEF mergeBugs
  <2>2. IsFiniteSet(new) /\ ids \subseteq Bugs /\ new \subseteq Bugs
    BY Distinct, FS_Subset
  <2> HIDE DEF ids, new
  <2>3. Cardinality(new) \in Nat
    BY <2>2, FS_CardinalityType
  <2>4. order \in Seq(Bugs)
    BY <2>2, <2>3
  <2>5. diskQueue.queue \o order \in Seq(Bugs)
    BY <1>0, <2>4, ConcatProperties DEF QueueType
  <2> QED BY <1>0, <2>1, <2>2, <2>5 DEF QueueType
<1> QED BY <1>0, <1>1, <1>3, <1>4, <1>5 DEF Merge

\* A handler takes the first event: it adds an entry, changes one or deletes one.
LEMMA HandleIs ==
    ASSUME TypeOK, Handle
    PROVE  /\ Unlocked /\ events # << >> /\ events' = Tail(events)
           /\ UNCHANGED <<tracker, bug, fetch, process, count>>
           /\ \E e \in Event :
                 /\ e = Head(events)
                 /\ \/ e.type = "add" /\ bugAdd(e.bug, e.info)
                    \/ e.type = "update" /\ SetInfo(e.bug, e.info)
                    \/ e.type = "update" /\ tracker = "jira" /\ SetInfo(e.bug, e.old)
                    \/ /\ e.type = "update" /\ tracker = "jira"
                       /\ UNCHANGED <<store, diskQueue, queue, writer, files, closed, overlap>>
                    \/ e.type = "delete" /\ bugDelete(e.bug)
<1>1. events \in Seq(Event) /\ events # << >>
  BY Types DEF Handle
<1>2. PICK e \in Event : e = Head(events)
  BY <1>1, HeadTailProperties
<1>3. e.type \in {"add", "update", "delete"} /\ tracker \in {"bugzilla", "jira"}
  BY DEF Event, TypeOK
<1>4. CASE e.type = "add"
  BY <1>2, <1>3, <1>4 DEF Handle, issueAdd
<1>5. CASE e.type = "update" /\ tracker = "bugzilla"
  BY <1>2, <1>3, <1>5 DEF Handle, bugUpdate
<1>6. CASE e.type = "update" /\ tracker = "jira"
  BY <1>2, <1>3, <1>6 DEF Handle, issueUpdate
<1>7. CASE e.type = "delete"
  BY <1>2, <1>3, <1>7 DEF Handle, issueDelete
<1> QED BY <1>2, <1>3, <1>4, <1>5, <1>6, <1>7 DEF Handle

\* The parts of an event.
LEMMA EventIs ==
    ASSUME NEW e \in Event
    PROVE  /\ e.bug \in Bugs /\ e.info \in 0..MaxChanges /\ e.old \in 0..MaxChanges
           /\ e.type \in {"add", "update", "delete"}
  BY DEF Event

\* The tracker's data of a bug.
Data == [listed : BOOLEAN, info : 0..MaxChanges, comments : 1..MaxComments]

\* A change of the tracker concerns one bug: what is listed and its information
\* are announced, and comments become no fewer.
LEMMA ChangeIs ==
    ASSUME TypeOK, Counted, NEW b \in Bugs, TrackerChange(b)
    PROVE  /\ bug' \in [Bugs -> Data] /\ \A c \in Bugs \ {b} : bug'[c] = bug[c]
           /\ bug'[b].comments >= bug[b].comments
           /\ bug'[b].info =< bug[b].info + 1
           /\ count'.changes = count.changes + 1
           /\ count' \in [changes : 0..MaxChanges, faults : 0..MaxFaults, crashes : 0..MaxCrashes]
           /\ \/ /\ events' = events
                 /\ process.up => bug'[b].listed = bug[b].listed /\ bug'[b].info = bug[b].info
              \/ \E e \in Event :
                    /\ events' = Append(events, e) /\ e.bug = b /\ e.info = bug'[b].info
                    /\ e.type = "delete" <=> ~bug'[b].listed
                    /\ e.type = "update" => bug[b].listed
           /\ UNCHANGED <<tracker, memory, files, writer, process, closed, overlap>>
<1>0. /\ bug \in [Bugs -> Data] /\ bug[b] \in Data /\ bug[b].info =< count.changes
      /\ count \in [changes : 0..MaxChanges, faults : 0..MaxFaults, crashes : 0..MaxCrashes]
      /\ count.changes < MaxChanges /\ MaxChanges \in Nat /\ MaxComments \in Nat
  BY Types, Distinct DEF Counted, TrackerChange, TypeOK, Data
<1>1. /\ count'.changes = count.changes + 1
      /\ count' \in [changes : 0..MaxChanges, faults : 0..MaxFaults, crashes : 0..MaxCrashes]
  BY <1>0 DEF TrackerChange
<1> DEFINE Says(d) ==
      /\ d \in Data /\ bug' = [bug EXCEPT ![b] = d]
      /\ d.comments >= bug[b].comments /\ d.info =< bug[b].info + 1
      /\ \/ /\ events' = events
            /\ process.up => d.listed = bug[b].listed /\ d.info = bug[b].info
         \/ \E e \in Event :
               /\ events' = Append(events, e) /\ e.bug = b /\ e.info = d.info
               /\ e.type = "delete" <=> ~d.listed
               /\ e.type = "update" => bug[b].listed
<1>2. \E d : Says(d)
  <2>1. CASE /\ bug' = [bug EXCEPT ![b].listed = ~@]
             /\ Deliver(IF bug[b].listed THEN "delete" ELSE "add", b, bug[b].info, bug[b].info)
    <3> DEFINE d == [bug[b] EXCEPT !.listed = ~bug[b].listed]
               e == [type |-> IF bug[b].listed THEN "delete" ELSE "add", bug |-> b,
                     old |-> bug[b].info, info |-> bug[b].info]
    <3>1. /\ d \in Data /\ d.listed = ~bug[b].listed /\ d.info = bug[b].info
          /\ d.comments = bug[b].comments
      BY <1>0 DEF Data
    <3>2. bug' = [bug EXCEPT ![b] = d]
      BY <2>1
    <3>3. ~process.up => events' = events
      BY <2>1 DEF Deliver
    <3>4. process.up => events' = Append(events, e)
      BY <2>1 DEF Deliver
    <3>5. /\ e \in Event /\ e.bug = b /\ e.info = bug[b].info
          /\ e.type = IF bug[b].listed THEN "delete" ELSE "add"
      BY <1>0 DEF Event, Data
    <3>6. bug[b].info \in Nat /\ bug[b].comments \in Nat
      BY <1>0 DEF Data
    <3> HIDE DEF d, e
    <3>7. d.comments >= bug[b].comments /\ d.info =< bug[b].info + 1
      BY <3>1, <3>6
    <3>8. e.type = "delete" <=> ~d.listed
      BY <3>1, <3>5
    <3>9. e.type = "update" => bug[b].listed
      BY <3>5
    <3> QED BY <3>1, <3>2, <3>3, <3>4, <3>5, <3>7, <3>8, <3>9
  <2>2. CASE /\ bug[b].listed /\ bug' = [bug EXCEPT ![b].info = @ + 1]
             /\ Deliver("update", b, bug[b].info, bug[b].info + 1)
    <3> DEFINE d == [bug[b] EXCEPT !.info = bug[b].info + 1]
               e == [type |-> "update", bug |-> b, old |-> bug[b].info, info |-> bug[b].info + 1]
    <3>0. bug[b].info + 1 \in 0..MaxChanges /\ bug[b].info \in 0..MaxChanges /\ bug[b].comments \in Nat
      BY <1>0 DEF Data
    <3>1. /\ d \in Data /\ d.listed = bug[b].listed /\ d.info = bug[b].info + 1
          /\ d.comments = bug[b].comments
      BY <1>0, <3>0 DEF Data
    <3>2. bug' = [bug EXCEPT ![b] = d]
      BY <2>2
    <3>3. ~process.up => events' = events
      BY <2>2 DEF Deliver
    <3>4. process.up => events' = Append(events, e)
      BY <2>2 DEF Deliver
    <3>5. e \in Event /\ e.bug = b /\ e.info = bug[b].info + 1 /\ e.type = "update"
      BY <3>0 DEF Event
    <3> HIDE DEF d, e
    <3>7. d.comments >= bug[b].comments /\ d.info =< bug[b].info + 1
      BY <3>0, <3>1
    <3>8. e.type = "delete" <=> ~d.listed
      BY <2>2, <3>1, <3>5
    <3>9. e.info = d.info /\ (e.type = "update" => bug[b].listed)
      BY <2>2, <3>1, <3>5
    <3> QED BY <3>1, <3>2, <3>3, <3>4, <3>5, <3>7, <3>8, <3>9
  <2>3. CASE /\ bug[b].comments < MaxComments
             /\ bug' = [bug EXCEPT ![b].comments = @ + 1] /\ UNCHANGED events
    <3> DEFINE d == [bug[b] EXCEPT !.comments = bug[b].comments + 1]
    <3>0. bug[b].comments + 1 \in 1..MaxComments /\ bug[b].comments \in Nat /\ bug[b].info \in Nat
      BY <1>0, <2>3 DEF Data
    <3>1. /\ d \in Data /\ d.listed = bug[b].listed /\ d.info = bug[b].info
          /\ d.comments = bug[b].comments + 1
      BY <1>0, <3>0 DEF Data
    <3>2. bug' = [bug EXCEPT ![b] = d]
      BY <2>3
    <3> HIDE DEF d
    <3>3. d.comments >= bug[b].comments /\ d.info =< bug[b].info + 1
      BY <3>0, <3>1
    <3> QED BY <2>3, <3>1, <3>2, <3>3
  <2> QED BY <2>1, <2>2, <2>3 DEF TrackerChange
<1>3. PICK d : Says(d)
  BY <1>2
<1>4. bug'[b] = d /\ \A c \in Bugs \ {b} : bug'[c] = bug[c]
  BY <1>0, <1>3
<1>5. bug' \in [Bugs -> Data]
  BY <1>0, <1>3
<1> QED BY <1>1, <1>3, <1>4, <1>5 DEF TrackerChange

\* run takes a batch off its queue.
LEMMA BatchIs ==
    ASSUME TypeOK, CollectBatch
    PROVE  /\ queue' \in QueueType(Bugs) /\ fetch' \in FetchType /\ fetch'.pc = "sent"
<1>0. queue \in QueueType(Bugs) /\ queue.queue \in Seq(Bugs)
  BY Types DEF QueueType
<1>1. PICK l \in 1..Len(queue.queue) :
         LET ids == {queue.queue[i] : i \in 1..l}
         IN  /\ fetch' = [pc |-> "sent", ids |-> ids, age |-> Recent,
                           answer |-> [b \in Bugs |-> {}]]
             /\ queue' = [queue EXCEPT !.queue = SubSeq(@, l + 1, Len(@)), !.dirty = @ \ ids]
  BY DEF CollectBatch
<1> DEFINE ids == {queue.queue[i] : i \in 1..l}
<1>2. Len(queue.queue) \in Nat /\ \A i \in 1..Len(queue.queue) : queue.queue[i] \in Bugs
  BY <1>0
<1>3. ids \subseteq Bugs
  BY <1>2
<1>4. SubSeq(queue.queue, l + 1, Len(queue.queue)) \in Seq(Bugs)
  BY <1>0, <1>2, SubSeqProperties
<1>5. fetch' = [pc |-> "sent", ids |-> ids, age |-> Recent, answer |-> [b \in Bugs |-> {}]]
  BY <1>1
<1>6. queue' = [queue EXCEPT !.queue = SubSeq(queue.queue, l + 1, Len(queue.queue)),
                             !.dirty = queue.dirty \ ids]
  BY <1>1
<1> HIDE DEF ids
<1>7. queue' \in QueueType(Bugs)
  BY <1>0, <1>4, <1>6 DEF QueueType
<1> QED BY <1>3, <1>5, <1>7 DEF FetchType, Comments, Recent

\* What is shown of comments: those that are not private, and perhaps a mark.
LEMMA VisibleIs ==
    ASSUME NEW c \in SUBSET (1..MaxComments)
    PROVE  Visible(c) \in Comments /\ c \ Private \subseteq Visible(c)
           /\ Visible(c) \subseteq (c \ Private) \cup {Hidden}
<1>0. MaxComments \in Nat \ {0} /\ 0 \in 0..MaxComments /\ c \subseteq 0..MaxComments
  BY Distinct
<1>1. /\ filterComments(c) \in Comments /\ c \ Private \subseteq filterComments(c)
      /\ filterComments(c) \subseteq (c \ Private) \cup {Hidden}
  BY <1>0 DEF filterComments, Comments, Hidden
<1>2. /\ FilterIssueComments(c) \in Comments /\ c \ Private \subseteq FilterIssueComments(c)
      /\ FilterIssueComments(c) \subseteq (c \ Private) \cup {Hidden}
  BY <1>0 DEF FilterIssueComments, Comments, Hidden
<1> QED BY <1>1, <1>2 DEF Visible

\* The server answers with everything that may be shown at that moment.
LEMMA AnswersAre ==
    ASSUME TypeOK, NEW ids \in SUBSET Bugs
    PROVE  /\ Answers(ids) \in [Bugs -> Comments]
           /\ \A b \in ids : /\ Answers(ids)[b] \subseteq Shown(b)
                             /\ Shown(b) \ {Hidden} \subseteq Answers(ids)[b]
<1>1. \A b \in Bugs : 1..bug[b].comments \in SUBSET (1..MaxComments)
  <2> TAKE b \in Bugs
  <2>1. bug[b].comments \in 1..MaxComments /\ MaxComments \in Nat
    BY Types, Distinct
  <2> QED BY <2>1
<1>2. \A b \in Bugs : /\ Visible(1..bug[b].comments) \in Comments
                      /\ (1..bug[b].comments) \ Private \subseteq Visible(1..bug[b].comments)
                      /\ Visible(1..bug[b].comments) \subseteq Shown(b)
  BY <1>1, VisibleIs DEF Shown
<1>3. \A b \in ids : Answers(ids)[b] = Visible(1..bug[b].comments)
  BY DEF Answers
<1>4. {} \in Comments
  BY DEF Comments
<1>5. Answers(ids) \in [Bugs -> Comments]
  BY <1>2, <1>4 DEF Answers
<1> QED BY <1>2, <1>3, <1>5 DEF Shown

\* A request that is out gets the answer of this moment, for all or for some of it.
Fresh == /\ fetch' \in FetchType /\ fetch'.pc = "answered"
         /\ fetch'.answer = Answers(fetch'.ids)

\* BugCommentsByID returns the answer of this moment for the whole batch.
LEMMA AnswerIs ==
    ASSUME TypeOK, Answer
    PROVE  Fresh
<1>1. PICK f \in FetchType : f = fetch
  BY Types DEF Answer, NoFetch
<1>2. f.ids \in SUBSET Bugs
  BY DEF FetchType
<1>3. PICK a \in [Bugs -> Comments] : a = Answers(f.ids)
  BY <1>2, AnswersAre
<1>4. fetch' = [f EXCEPT !.pc = "answered", !.answer = a]
  BY <1>1, <1>3 DEF Answer
<1>5. fetch' \in FetchType /\ fetch'.pc = "answered" /\ fetch'.answer = a /\ fetch'.ids = f.ids
  BY <1>4 DEF FetchType
<1> QED BY <1>3, <1>5 DEF Fresh

\* A failure of the fetch leaves nothing, or some answers.
LEMMA FailsIs ==
    ASSUME TypeOK, FetchFails
    PROVE  /\ fetch' = NoFetch \/ Fresh
           /\ count'.changes = count.changes
           /\ count' \in [changes : 0..MaxChanges, faults : 0..MaxFaults, crashes : 0..MaxCrashes]
<1>0. fetch.pc = "sent" /\ NoFetch.pc # "sent"
  BY DEF FetchFails, NoFetch
<1>1. PICK f \in FetchType : f = fetch
  BY <1>0, Types
<1>2. f.ids \in SUBSET Bugs
  BY DEF FetchType
<1>3. fetch' = NoFetch \/ Fresh
  <2> SUFFICES ASSUME fetch' # NoFetch PROVE Fresh
    OBVIOUS
  <2>1. PICK got \in SUBSET f.ids :
           fetch' = [f EXCEPT !.pc = "answered", !.ids = got, !.answer = Answers(got)]
    BY <1>1 DEF FetchFails
  <2>2. got \in SUBSET Bugs
    BY <1>2
  <2>3. PICK a \in [Bugs -> Comments] : a = Answers(got)
    BY <2>2, AnswersAre
  <2>4. fetch' = [f EXCEPT !.pc = "answered", !.ids = got, !.answer = a]
    BY <2>1, <2>3
  <2>5. fetch' \in FetchType /\ fetch'.pc = "answered" /\ fetch'.answer = a /\ fetch'.ids = got
    BY <2>2, <2>4 DEF FetchType
  <2> QED BY <2>3, <2>5 DEF Fresh
<1>4. /\ count \in [changes : 0..MaxChanges, faults : 0..MaxFaults, crashes : 0..MaxCrashes]
      /\ count.faults < MaxFaults /\ MaxFaults \in Nat
      /\ count' = [count EXCEPT !.faults = @ + 1]
  BY Distinct DEF TypeOK, FetchFails
<1> QED BY <1>3, <1>4

\* Sync removes files, and loads those of bugs that are not closed.
LEMMA SyncIs ==
    ASSUME TypeOK, NEW expired, Sync(expired)
    PROVE  /\ files' \in [Bugs -> Pair] /\ store' \in Stores
           /\ \A b \in Bugs : /\ files'[b].temp \in {None, files[b].temp}
                              /\ files'[b].final \in {None, files[b].final}
           /\ \A b \in Bugs : store'[b] # None =>
                 /\ files[b].final # None /\ files[b].final.text \in Text
                 /\ files[b].final.text.status # "closed"
                 /\ store'[b].comments = files[b].final.text.comments
<1> DEFINE kept    == {b \in Bugs : files[b].final # None /\ <<b, "final">> \notin expired}
           bad     == {b \in kept : Unreadable(files[b].final)}
           useless == {b \in kept \ bad : files[b].final.text.comments = {}}
           loaded  == {b \in kept \ (bad \cup useless) : files[b].final.text.status # "closed"}
           removes == expired \cup (useless \X {"final"})
           Remove(removed) ==
              [b \in Bugs |->
                  [temp |-> IF <<b, "temp">> \in removed THEN None ELSE files[b].temp,
                   final |-> IF <<b, "final">> \in removed THEN None ELSE files[b].final]]
<1>0. files \in [Bugs -> Pair]
  BY Types
<1>1. \E removed : files' = Remove(removed)
  <2>1. CASE bad = {}
    BY <2>1 DEF Sync
  <2>2. CASE bad # {}
    BY <2>2 DEF Sync
  <2> QED BY <2>1, <2>2
<1>2. PICK removed : files' = Remove(removed)
  BY <1>1
<1>3. \A b \in Bugs : /\ files'[b].temp \in {None, files[b].temp}
                      /\ files'[b].final \in {None, files[b].final}
  BY <1>2
<1>4. files' \in [Bugs -> Pair]
  BY <1>0, <1>2 DEF Pair
<1>5. store' = [b \in Bugs |-> IF bad = {} /\ b \in loaded THEN ReadBugComments(files[b].final)
                               ELSE None]
  BY DEF Sync, ReadIssueComments
<1>6. ASSUME NEW b \in loaded
      PROVE  /\ files[b].final # None /\ files[b].final.text \in Text
             /\ files[b].final.text.status # "closed"
             /\ ReadBugComments(files[b].final) \in Entry
             /\ ReadBugComments(files[b].final).comments = files[b].final.text.comments
  <2>1. /\ b \in Bugs /\ files[b].final # None /\ files[b].final.text \notin {Empty, Torn}
        /\ files[b].final.text.status # "closed"
    BY DEF Unreadable
  <2>2. PICK f \in File : f = files[b].final
    BY <1>0, <2>1 DEF Pair
  <2>3. f.text \in Text /\ f.age \in {Recent, Stale}
    BY <2>1, <2>2 DEF File
  <2>4. f.text.info \in Info /\ f.text.comments \in Comments
    BY <2>3 DEF Text
  <2>5. [f.text.info EXCEPT !.full = FALSE] \in Info
    BY <2>4 DEF Info
  <2>6. ReadBugComments(f) \in Entry /\ ReadBugComments(f).comments = f.text.comments
    BY <2>3, <2>4, <2>5 DEF ReadBugComments, Entry
  <2> QED BY <2>1, <2>2, <2>3, <2>6
<1> HIDE DEF loaded, bad
<1>7. store' \in Stores
  BY <1>5, <1>6 DEF Stores
<1> QED BY <1>3, <1>4, <1>5, <1>6, <1>7

\* A process that starts loads its files, and hears of the bugs that are listed.
LEMMA RestartIs ==
    ASSUME TypeOK, Restart
    PROVE  /\ ~process.up /\ process' \in [up : BOOLEAN, disableWrite : BOOLEAN]
           /\ \E expired : Sync(expired)
           /\ events' \in Seq(Event)
           /\ \A i \in 1..Len(events') : /\ events'[i].type = "add" /\ bug[events'[i].bug].listed
                                         /\ events'[i].info = bug[events'[i].bug].info
           /\ \A b \in Bugs : bug[b].listed => \E i \in 1..Len(events') : events'[i].bug = b
           /\ UNCHANGED <<tracker, bug, queue, fetch, diskQueue, writer, count, closed, overlap>>
<1> DEFINE n == Cardinality({b \in Bugs : bug[b].listed})
<1>1. PICK s \in [1..n -> Bugs] :
         /\ \A b \in Bugs : bug[b].listed <=> \E i \in DOMAIN s : s[i] = b
         /\ events' = [i \in DOMAIN s |-> [type |-> "add", bug |-> s[i],
                                           old |-> bug[s[i]].info, info |-> bug[s[i]].info]]
  BY DEF Restart
<1>2. n \in Nat
  <2>1. IsFiniteSet({b \in Bugs : bug[b].listed})
    BY Distinct, FS_Subset
  <2> QED BY <2>1, FS_CardinalityType
<1> HIDE DEF n
<1>3. \A i \in 1..n : /\ events'[i].type = "add" /\ events'[i].bug = s[i]
                      /\ events'[i].info = bug[s[i]].info /\ events'[i] \in Event
  <2> TAKE i \in 1..n
  <2>1. s[i] \in Bugs /\ bug[s[i]].info \in 0..MaxChanges
    BY <1>1, Types
  <2>2. events'[i] = [type |-> "add", bug |-> s[i], old |-> bug[s[i]].info, info |-> bug[s[i]].info]
    BY <1>1
  <2> QED BY <2>1, <2>2 DEF Event
<1>4. DOMAIN events' = 1..n /\ events' \in [1..n -> Event]
  BY <1>1, <1>3
<1>5. events' \in Seq(Event) /\ Len(events') = n
  BY <1>2, <1>4
<1>6. \A i \in 1..n : bug[s[i]].listed
  BY <1>1
<1>7. \E expired : Sync(expired)
  BY DEF Restart, SyncIssues
<1>8. ~process.up /\ process' \in [up : BOOLEAN, disableWrite : BOOLEAN]
      /\ UNCHANGED <<tracker, bug, queue, fetch, diskQueue, writer, count, closed, overlap>>
  BY DEF Restart
<1> QED BY <1>1, <1>3, <1>5, <1>6, <1>7, <1>8

-----------------------------------------------------------------------------
(***************************************************************************)
(* The files, action by action.                                            *)
(***************************************************************************)
FilesOK == ClosesDeleted /\ Alone /\ ReadableUnlessOverlap /\ StaysClosed /\ DeletedSaysClosed

\* A step that touches no file, and no entry comes or goes.
LEMMA FilesFrame ==
    ASSUME FilesOK, UNCHANGED <<files, writer, closed, overlap>>, TypeOK,
           \A b \in Bugs : store'[b] = None <=> store[b] = None
    PROVE  FilesOK'
<1>1. ClosesDeleted'
  <2>1. writer["handler"] # Idle => writer["handler"].bug \in Bugs
    BY WriterIs DEF WriterType, Writers
  <2> QED BY <2>1 DEF FilesOK, ClosesDeleted
<1>2. Alone' /\ ReadableUnlessOverlap' /\ DeletedSaysClosed'
  BY DEF FilesOK, Alone, ReadableUnlessOverlap, DeletedSaysClosed, Writes, Wrote, Unreadable
<1>3. StaysClosed'
  <2>1. closed \subseteq Bugs
    BY DEF TypeOK
  <2> QED BY <2>1 DEF FilesOK, StaysClosed, Writes
<1> QED BY <1>1, <1>2, <1>3 DEF FilesOK

\* An added bug is no longer closed.
LEMMA AddFiles ==
    ASSUME FilesOK, TypeOK, Unlocked, NEW b \in Bugs, NEW v \in 0..MaxChanges, bugAdd(b, v)
    PROVE  FilesOK'
<1>0. /\ closed' = closed \ {b} /\ UNCHANGED <<writer, files, overlap>>
      /\ \A c \in Bugs \ {b} : store'[c] = store[c]
  BY AddIs
<1>1. ClosesDeleted'
  BY <1>0 DEF Unlocked, ClosesDeleted
<1>2. Alone' /\ ReadableUnlessOverlap' /\ DeletedSaysClosed'
  BY <1>0 DEF FilesOK, Alone, ReadableUnlessOverlap, DeletedSaysClosed, Writes, Wrote, Unreadable
<1>3. StaysClosed'
  <2>1. closed \subseteq Bugs
    BY DEF TypeOK
  <2> QED BY <1>0, <2>1 DEF FilesOK, StaysClosed, Writes
<1> QED BY <1>1, <1>2, <1>3 DEF FilesOK

\* CloseBug has the temporary name to itself, unless Run is writing the bug.
LEMMA DeleteFiles ==
    ASSUME FilesOK, TypeOK, Unlocked, NEW b \in Bugs, bugDelete(b)
    PROVE  FilesOK'
<1>0. writer["handler"] = Idle
  BY DEF Unlocked
<1>1. CASE store[b] = None
  <2>1. UNCHANGED <<store, writer, files, overlap, closed>>
    BY <1>1 DEF bugDelete
  <2> QED BY <2>1, FilesFrame
<1>2. CASE store[b] # None
  <2>1. /\ \A c \in Bugs \ {b} : store'[c] = store[c] /\ files'[c] = files[c]
        /\ store'[b] = None /\ overlap \subseteq overlap' /\ closed' = closed
        /\ writer'["disk"] = writer["disk"] /\ writer'["handler"] # Idle
        /\ writer'["handler"].bug = b /\ writer'["handler"].pc = "open"
        /\ writer'["handler"].loc = "temp" /\ writer'["handler"].text.status = "closed"
        /\ Writes("disk", b) => b \in overlap'
        /\ files'[b].temp # None /\ files'[b].temp.text = Empty /\ files'[b].final = files[b].final
    BY <1>2, DeleteIs, OpenIs
  <2>2. ClosesDeleted'
    BY <2>1 DEF ClosesDeleted
  <2>3. ASSUME NEW c \in Bugs, c \notin overlap'
        PROVE  /\ ~(Writes("disk", c) /\ Writes("handler", c))'
               /\ \A x \in Writers : Writes(x, c)' => Wrote(x, c)'
    <3>0. c \notin overlap
      BY <2>1, <2>3
    <3>1. CASE c = b
      <4>1. ~Writes("disk", b)'
        BY <2>1, <2>3, <3>1 DEF Writes
      <4>2. Wrote("handler", b)'
        BY <2>1 DEF Wrote
      <4> QED BY <3>1, <4>1, <4>2 DEF Writers
    <3>2. CASE c # b
      <4>1. ~Writes("handler", c)'
        BY <2>1, <3>2 DEF Writes
      <4>2. Writes("disk", c)' => Wrote("disk", c)'
        BY <2>1, <3>0, <3>2 DEF FilesOK, Alone, Writes, Wrote, Writers
      <4> QED BY <4>1, <4>2 DEF Writers
    <3> QED BY <3>1, <3>2
  <2>4. Alone'
    BY <2>3 DEF Alone
  <2>5. \A c \in Bugs : files'[c].final = files[c].final
    BY <2>1
  <2>6. ReadableUnlessOverlap'
    BY <2>1, <2>5 DEF FilesOK, ReadableUnlessOverlap, Unreadable
  <2>7. closed \subseteq Bugs
    BY DEF TypeOK
  <2>8. DeletedSaysClosed'
    BY <2>1, <2>5, <2>7 DEF FilesOK, DeletedSaysClosed
  <2>9. StaysClosed'
    BY <2>1, <2>7 DEF FilesOK, StaysClosed, Writes
  <2> QED BY <2>2, <2>4, <2>6, <2>8, <2>9 DEF FilesOK
<1> QED BY <1>1, <1>2

\* Every handler keeps the files in order.
LEMMA HandleFiles ==
    ASSUME FilesOK, TypeOK, Handle
    PROVE  FilesOK'
<1>1. Unlocked
  BY HandleIs
<1>2. PICK e \in Event :
         \/ bugAdd(e.bug, e.info)
         \/ SetInfo(e.bug, e.info)
         \/ SetInfo(e.bug, e.old)
         \/ UNCHANGED <<store, diskQueue, queue, writer, files, closed, overlap>>
         \/ bugDelete(e.bug)
  BY HandleIs
<1>3. e.bug \in Bugs /\ e.info \in 0..MaxChanges /\ e.old \in 0..MaxChanges
  BY EventIs
<1>4. CASE bugAdd(e.bug, e.info)
  BY <1>1, <1>3, <1>4, AddFiles
<1>5. ASSUME NEW v \in 0..MaxChanges, SetInfo(e.bug, v)
      PROVE  FilesOK'
  <2>1. UNCHANGED <<files, writer, closed, overlap>> /\ \A b \in Bugs : store'[b] = None <=> store[b] = None
    BY <1>3, <1>5, SetIs
  <2> QED BY <2>1, FilesFrame
<1>6. CASE UNCHANGED <<store, diskQueue, queue, writer, files, closed, overlap>>
  BY <1>6, FilesFrame
<1>7. CASE bugDelete(e.bug)
  BY <1>1, <1>3, <1>7, DeleteFiles
<1> QED BY <1>2, <1>3, <1>4, <1>5, <1>6, <1>7

\* Run takes bugs of the store only, so none that is closed or being closed.
LEMMA RunGetFiles ==
    ASSUME FilesOK, TypeOK, RunGet
    PROVE  FilesOK'
<1>0. UNCHANGED <<files, closed, overlap, store>> /\ writer["disk"] = Idle
      /\ writer'["handler"] = writer["handler"]
  BY RunGetIs DEF RunGet
<1>1. CASE writer' = writer
  BY <1>0, <1>1, FilesFrame
<1>2. CASE writer' # writer
  <2>1. PICK b \in Bugs : store[b] # None /\ writer'["disk"].pc = "read" /\ writer'["disk"].bug = b
    BY <1>2, RunGetIs
  <2>2. ClosesDeleted'
    BY <1>0 DEF FilesOK, ClosesDeleted
  <2>3. ~Writes("handler", b) /\ b \notin closed \ overlap
    BY <2>1 DEF FilesOK, ClosesDeleted, StaysClosed, Writes
  <2>4. ASSUME NEW c \in Bugs \ overlap
        PROVE  /\ ~(Writes("disk", c) /\ Writes("handler", c))'
               /\ \A x \in Writers : Writes(x, c)' => Wrote(x, c)'
    <3>1. ~(Writes("disk", c) /\ Writes("handler", c))'
      BY <1>0, <2>1, <2>3 DEF Writes
    <3>2. Wrote("disk", c)'
      BY <2>1 DEF Wrote
    <3>3. Writes("handler", c)' => Wrote("handler", c)'
      BY <1>0 DEF FilesOK, Alone, Writes, Wrote, Writers
    <3> QED BY <3>1, <3>2, <3>3 DEF Writers
  <2>5. Alone'
    BY <1>0, <2>4 DEF Alone
  <2>6. ReadableUnlessOverlap' /\ DeletedSaysClosed'
    BY <1>0 DEF FilesOK, ReadableUnlessOverlap, DeletedSaysClosed, Unreadable
  <2>7. StaysClosed'
    BY <1>0, <2>1, <2>3 DEF FilesOK, StaysClosed, Writes
  <2> QED BY <2>2, <2>5, <2>6, <2>7 DEF FilesOK
<1> QED BY <1>1, <1>2

\* Run opens the file of a bug that no handler is closing.
LEMMA RunOpenFiles ==
    ASSUME FilesOK, TypeOK, RunOpen
    PROVE  FilesOK'
<1> DEFINE b == writer["disk"].bug
<1>0. /\ UNCHANGED <<closed, overlap, store>> /\ b \in Bugs
      /\ writer["disk"] \in WriterType /\ writer'["disk"] \in WriterType
      /\ writer'["handler"] = writer["handler"] /\ OpenTemp(b)
      /\ writer'["disk"].pc = "open" /\ writer'["disk"].bug = b /\ writer'["disk"].loc = "temp"
  BY RunOpenIs DEF RunOpen, memory, WriterType
<1>1. /\ \A c \in Bugs \ {b} : files'[c] = files[c]
      /\ files'[b].temp # None /\ files'[b].temp.text = Empty /\ files'[b].final = files[b].final
  BY <1>0, OpenIs
<1>2. writer["disk"] # Idle /\ writer'["disk"] # Idle
  BY <1>0 DEF WriterType, Idle
<1> HIDE DEF b
<1>3. \A c : Writes("disk", c)' <=> Writes("disk", c)
  BY <1>0, <1>2 DEF Writes, b
<1>4. Writes("disk", b)
  BY <1>2 DEF Writes, b
<1>5. ClosesDeleted'
  BY <1>0 DEF FilesOK, ClosesDeleted
<1>6. ASSUME NEW c \in Bugs \ overlap
      PROVE  /\ ~(Writes("disk", c) /\ Writes("handler", c))'
             /\ \A x \in Writers : Writes(x, c)' => Wrote(x, c)'
  <2>1. ~(Writes("disk", c) /\ Writes("handler", c)) /\ (Writes("handler", c)' <=> Writes("handler", c))
    BY <1>0 DEF FilesOK, Alone, Writes
  <2>2. Writes("disk", c)' => Wrote("disk", c)'
    <3>1. Writes("disk", c)' => c = b
      BY <1>0 DEF Writes
    <3> QED BY <1>0, <1>1, <3>1 DEF Wrote
  <2>3. Writes("handler", c)' => Wrote("handler", c)'
    <3>1. Writes("handler", c)' => c # b
      BY <1>4, <2>1
    <3>2. Writes("handler", c) => Wrote("handler", c)
      BY DEF FilesOK, Alone, Writers
    <3> QED BY <1>0, <1>1, <2>1, <3>1, <3>2 DEF Wrote
  <2> QED BY <1>3, <2>1, <2>2, <2>3 DEF Writers
<1>7. Alone'
  BY <1>0, <1>6 DEF Alone
<1>8. \A c \in Bugs : files'[c].final = files[c].final
  BY <1>1
<1>9. ReadableUnlessOverlap' /\ DeletedSaysClosed'
  <2>1. closed \subseteq Bugs
    BY DEF TypeOK
  <2> QED BY <1>0, <1>8, <2>1 DEF FilesOK, ReadableUnlessOverlap, DeletedSaysClosed, Unreadable
<1>10. StaysClosed'
  BY <1>0, <1>3 DEF FilesOK, StaysClosed
<1> QED BY <1>5, <1>7, <1>9, <1>10 DEF FilesOK

\* What a writer that is not idle has.
LEMMA WriterHas ==
    ASSUME NEW w \in WriterType
    PROVE  /\ w # Idle /\ w.bug \in Bugs /\ w.text \in Text /\ w.text \notin {Empty, Torn}
           /\ w.text.comments \in Comments /\ w.pc \in {"read", "open", "written"}
  BY Distinct DEF WriterType, Idle, Text

\* A writer that is alone fills the empty file with its text.
LEMMA FlushFiles ==
    ASSUME FilesOK, TypeOK, NEW x \in Writers, Flush(x)
    PROVE  FilesOK'
<1>0. /\ UNCHANGED <<closed, overlap, store>> /\ writer[x] \in WriterType /\ writer'[x] \in WriterType
      /\ writer[x].pc = "open" /\ files' = WriteAt(writer[x], writer[x].text)
      /\ writer'[x].pc = "written" /\ writer'[x].bug = writer[x].bug
      /\ writer'[x].loc = writer[x].loc /\ writer'[x].text = writer[x].text
      /\ \A y \in Writers \ {x} : writer'[y] = writer[y]
  BY FlushIs DEF Flush, memory
<1>1. PICK w \in WriterType : w = writer[x]
  BY <1>0
<1>2. PICK b \in Bugs : b = w.bug
  BY WriterHas
<1>3. w.text \in Text /\ writer'[x] # Idle /\ w # Idle
  BY <1>0, WriterHas
<1>4. /\ \A c \in Bugs \ {b} : files'[c] = files[c]
      /\ w.loc = "temp" => /\ files'[b].final = files[b].final /\ files'[b].temp # None
                           /\ files'[b].temp.text = Overlay(files[b].temp.text, w.text)
  BY <1>0, <1>1, <1>2, <1>3, WriteIs
<1>5. \A y \in Writers : \A c : Writes(y, c)' <=> Writes(y, c)
  BY <1>0, <1>1, <1>3 DEF Writes
<1>6. Writes(x, b)
  BY <1>1, <1>2, <1>3 DEF Writes
<1>7. b \notin overlap => /\ files'[b].final = files[b].final /\ files'[b].temp # None
                          /\ files'[b].temp.text = w.text
  <2> HAVE b \notin overlap
  <2>1. Wrote(x, b)
    BY <1>6 DEF FilesOK, Alone
  <2>2. w.loc = "temp" /\ files[b].temp.text = Empty
    BY <1>0, <1>1, <2>1 DEF Wrote
  <2> QED BY <1>4, <2>2 DEF Overlay
<1>8. ClosesDeleted'
  BY <1>0, <1>1, <1>3 DEF FilesOK, ClosesDeleted, Writers
<1>9. ASSUME NEW c \in Bugs \ overlap
      PROVE  /\ ~(Writes("disk", c) /\ Writes("handler", c))'
             /\ \A y \in Writers : Writes(y, c)' => Wrote(y, c)'
  <2>1. ~(Writes("disk", c) /\ Writes("handler", c)) /\ \A y \in Writers : Writes(y, c) => Wrote(y, c)
    BY DEF FilesOK, Alone
  <2>2. ASSUME NEW y \in Writers, Writes(y, c)
        PROVE  Wrote(y, c)'
    <3>1. CASE y = x
      <4>1. c = b
        BY <1>1, <1>2, <2>2, <3>1 DEF Writes
      <4>2. writer'[x].loc = "temp"
        BY <1>0, <2>1, <2>2, <3>1 DEF Wrote
      <4> QED BY <1>0, <1>1, <1>7, <3>1, <4>1, <4>2 DEF Wrote
    <3>2. CASE y # x
      <4>1. c # b
        BY <1>6, <2>1, <2>2, <3>2 DEF Writers
      <4> QED BY <1>0, <1>4, <2>1, <2>2, <3>2, <4>1 DEF Wrote
    <3> QED BY <3>1, <3>2
  <2> QED BY <1>5, <2>1, <2>2 DEF Writers
<1>10. Alone'
  BY <1>0, <1>9 DEF Alone
<1>11. \A c \in Bugs \ overlap : files'[c].final = files[c].final
  BY <1>4, <1>7
<1>12. ReadableUnlessOverlap' /\ DeletedSaysClosed'
  <2>1. closed \subseteq Bugs
    BY DEF TypeOK
  <2> QED BY <1>0, <1>11, <2>1 DEF FilesOK, ReadableUnlessOverlap, DeletedSaysClosed, Unreadable
<1>13. StaysClosed'
  BY <1>0, <1>5 DEF FilesOK, StaysClosed, Writers
<1> QED BY <1>8, <1>10, <1>12, <1>13 DEF FilesOK

\* A writer ends: the others of the bug, if any, are in an overlap.
LEMMA WriterEnds ==
    ASSUME FilesOK, TypeOK, NEW x \in Writers, writer[x] \in WriterType, writer'[x] = Idle,
           Follows(x, writer[x].bug), UNCHANGED <<overlap, store>>,
           \A c \in Bugs \ {writer[x].bug} : files'[c] = files[c]
    PROVE  /\ ClosesDeleted' /\ Alone'
           /\ \A y \in Writers : \A c : Writes(y, c)' => Writes(y, c)
           /\ \A b \in Bugs \ overlap : b = writer[x].bug => \A y \in Writers : ~Writes(y, b)'
<1>1. PICK b \in Bugs : b = writer[x].bug
  BY WriterHas
<1>2. Writes(x, b)
  BY <1>1, WriterHas DEF Writes
<1>3. \A y \in Writers : \A c : Writes(y, c)' => Writes(y, c) /\ y # x
  BY DEF Writes, Follows
<1>4. ClosesDeleted'
  BY DEF FilesOK, ClosesDeleted, Follows, Writers
<1>5. ASSUME b \notin overlap, NEW y \in Writers
      PROVE  ~Writes(y, b)'
  BY <1>2, <1>3, <1>5 DEF FilesOK, Alone, Writers
<1>6. ASSUME NEW c \in Bugs \ overlap
      PROVE  /\ ~(Writes("disk", c) /\ Writes("handler", c))'
             /\ \A y \in Writers : Writes(y, c)' => Wrote(y, c)'
  <2>1. ~(Writes("disk", c) /\ Writes("handler", c)) /\ \A y \in Writers : Writes(y, c) => Wrote(y, c)
    BY DEF FilesOK, Alone
  <2>2. ASSUME NEW y \in Writers, Writes(y, c)'
        PROVE  Wrote(y, c)'
    <3>1. c # b /\ y # x /\ Writes(y, c)
      BY <1>3, <1>5, <2>2
    <3>2. writer'[y] = writer[y]
      BY <1>1, <3>1 DEF Follows, Writes
    <3> QED BY <1>1, <2>1, <3>1, <3>2 DEF Wrote
  <2> QED BY <1>3, <2>1, <2>2 DEF Writers
<1>7. Alone'
  BY <1>6 DEF Alone
<1> QED BY <1>1, <1>3, <1>4, <1>5, <1>7

\* A write that fails leaves the final file alone.
LEMMA FlushFailsFiles ==
    ASSUME FilesOK, TypeOK, NEW x \in Writers, FlushFails(x)
    PROVE  FilesOK'
<1>0. /\ UNCHANGED <<closed, overlap, store>> /\ writer[x] \in WriterType /\ writer'[x] = Idle
      /\ Follows(x, writer[x].bug) /\ writer[x].pc = "open"
      /\ \A c \in Bugs \ {writer[x].bug} : files'[c] = files[c]
      /\ writer[x].loc = "temp" => files'[writer[x].bug].final = files[writer[x].bug].final
  BY FlushFailsIs DEF FlushFails, memory
<1>1. /\ ClosesDeleted' /\ Alone' /\ \A y \in Writers : \A c : Writes(y, c)' => Writes(y, c)
  BY <1>0, WriterEnds
<1>2. \A c \in Bugs \ overlap : files'[c].final = files[c].final
  <2> TAKE c \in Bugs \ overlap
  <2>1. CASE c = writer[x].bug
    <3>1. Writes(x, c) /\ Wrote(x, c)
      BY <1>0, <2>1, WriterHas DEF FilesOK, Alone, Writes
    <3> QED BY <1>0, <2>1, <3>1 DEF Wrote
  <2>2. CASE c # writer[x].bug
    BY <1>0, <2>2
  <2> QED BY <2>1, <2>2
<1>3. closed \subseteq Bugs
  BY DEF TypeOK
<1>4. ReadableUnlessOverlap' /\ DeletedSaysClosed'
  BY <1>0, <1>2, <1>3 DEF FilesOK, ReadableUnlessOverlap, DeletedSaysClosed, Unreadable
<1>5. StaysClosed'
  BY <1>0, <1>1 DEF FilesOK, StaysClosed, Writers
<1> QED BY <1>1, <1>4, <1>5 DEF FilesOK

\* What is renamed is complete, and says closed if CloseBug wrote it.
LEMMA RenameFiles ==
    ASSUME FilesOK, TypeOK, NEW x \in Writers, Rename(x)
    PROVE  FilesOK'
<1>0. /\ UNCHANGED <<overlap, store>> /\ writer[x] \in WriterType /\ writer'[x] = Idle
      /\ Follows(x, writer[x].bug) /\ writer[x].pc = "written"
      /\ \A c \in Bugs \ {writer[x].bug} : files'[c] = files[c]
  BY RenameIs DEF Rename
<1>1. /\ ClosesDeleted' /\ Alone' /\ \A y \in Writers : \A c : Writes(y, c)' => Writes(y, c)
      /\ \A b \in Bugs \ overlap : b = writer[x].bug => \A y \in Writers : ~Writes(y, b)'
  BY <1>0, WriterEnds
<1>2. PICK b \in Bugs : b = writer[x].bug
  BY <1>0, WriterHas
<1>3. closed \subseteq Bugs
  BY DEF TypeOK
<1>4. Writes(x, b) /\ writer[x].text \in Text /\ writer[x].text \notin {Empty, Torn}
  BY <1>0, <1>2, WriterHas DEF Writes
<1>5. CASE b \in overlap
  <2>1. closed' \ overlap = closed \ overlap
    BY <1>2, <1>5, RenameIs
  <2>2. \A c \in Bugs \ overlap : files'[c].final = files[c].final
    BY <1>0, <1>2, <1>5
  <2>3. ReadableUnlessOverlap'
    BY <1>0, <2>2 DEF FilesOK, ReadableUnlessOverlap, Unreadable
  <2>4. DeletedSaysClosed'
    BY <1>0, <1>3, <2>1, <2>2 DEF FilesOK, DeletedSaysClosed
  <2>5. StaysClosed'
    BY <1>0, <1>1, <2>1 DEF FilesOK, StaysClosed, Writers
  <2> QED BY <1>1, <2>3, <2>4, <2>5 DEF FilesOK
<1>6. CASE b \notin overlap
  <2>1. files[b].temp # None /\ files[b].temp.text = writer[x].text
    BY <1>0, <1>4, <1>6 DEF FilesOK, Alone, Wrote
  <2>2. files'[b].final.text = writer[x].text
    BY <1>2, <2>1, RenameIs
  <2>3. closed' = IF x = "handler" THEN closed \cup {b} ELSE closed
    BY <1>2, <2>1, RenameIs
  <2>4. ReadableUnlessOverlap'
    BY <1>0, <1>2, <1>4, <2>2 DEF FilesOK, ReadableUnlessOverlap, Unreadable
  <2>5. x = "disk" => b \notin closed
    BY <1>4, <1>6 DEF FilesOK, StaysClosed
  <2>6. x = "handler" => store[b] = None /\ writer[x].text.status = "closed"
    BY <1>2, <1>4 DEF FilesOK, ClosesDeleted, Writes
  <2>7. x = "disk" \/ x = "handler"
    BY DEF Writers
  <2>8. DeletedSaysClosed'
    BY <1>0, <1>2, <1>3, <2>2, <2>3, <2>5, <2>6, <2>7 DEF FilesOK, DeletedSaysClosed
  <2>9. StaysClosed'
    BY <1>0, <1>1, <1>2, <1>6, <2>3, <2>5, <2>6, <2>7 DEF FilesOK, StaysClosed, Writers
  <2> QED BY <1>1, <2>4, <2>8, <2>9 DEF FilesOK
<1> QED BY <1>5, <1>6

\* No text changes as time passes.
LEMMA TimeFiles ==
    ASSUME FilesOK, TypeOK, TimePasses
    PROVE  FilesOK'
<1>0. /\ UNCHANGED <<closed, overlap>> /\ \A b \in Bugs : store'[b] = None <=> store[b] = None
      /\ \A b \in Bugs : /\ files'[b].temp = None <=> files[b].temp = None
                         /\ files'[b].final = None <=> files[b].final = None
                         /\ files[b].temp # None => files'[b].temp.text = files[b].temp.text
                         /\ files[b].final # None => files'[b].final.text = files[b].final.text
      /\ \A x \in Writers : /\ writer'[x] = Idle <=> writer[x] = Idle
                            /\ writer[x] # Idle =>
                                  /\ writer'[x].bug = writer[x].bug /\ writer'[x].pc = writer[x].pc
                                  /\ writer'[x].text = writer[x].text
                                  /\ writer'[x].loc = writer[x].loc
  BY TimeIs DEF TimePasses
<1>1. closed \subseteq Bugs
  BY DEF TypeOK
<1>2. \A x \in Writers : \A c : Writes(x, c)' <=> Writes(x, c)
  BY <1>0 DEF Writes
<1>3. ClosesDeleted'
  <2>1. writer["handler"] # Idle => writer["handler"].bug \in Bugs
    BY WriterIs DEF WriterType, Writers
  <2> QED BY <1>0, <2>1 DEF FilesOK, ClosesDeleted, Writers
<1>4. Alone'
  <2>1. \A c \in Bugs \ overlap : \A x \in Writers : Writes(x, c) => Wrote(x, c)'
    BY <1>0 DEF FilesOK, Alone, Writes, Wrote
  <2> QED BY <1>0, <1>2, <2>1 DEF FilesOK, Alone, Writers
<1>5. ReadableUnlessOverlap' /\ DeletedSaysClosed'
  BY <1>0, <1>1 DEF FilesOK, ReadableUnlessOverlap, DeletedSaysClosed, Unreadable
<1>6. StaysClosed'
  BY <1>0, <1>1, <1>2 DEF FilesOK, StaysClosed, Writers
<1> QED BY <1>3, <1>4, <1>5, <1>6 DEF FilesOK

\* A crash forgets the writers, and leaves the files as they are.
LEMMA CrashFiles ==
    ASSUME FilesOK, TypeOK, Crash
    PROVE  FilesOK'
<1>0. UNCHANGED <<files, closed, overlap>> /\ (\A x \in Writers : writer'[x] = Idle)
      /\ \A b \in Bugs : store'[b] = None
  BY DEF Crash
<1>1. closed \subseteq Bugs
  BY DEF TypeOK
<1>2. ReadableUnlessOverlap' /\ DeletedSaysClosed'
  BY <1>0 DEF FilesOK, ReadableUnlessOverlap, DeletedSaysClosed, Unreadable
<1> QED BY <1>0, <1>1, <1>2 DEF FilesOK, ClosesDeleted, Alone, StaysClosed, Writes, Writers

\* Sync does not load what says closed.
LEMMA RestartFiles ==
    ASSUME FilesOK, TypeOK, Down, Restart
    PROVE  FilesOK'
<1>0. /\ UNCHANGED <<writer, closed, overlap>> /\ \A x \in Writers : writer[x] = Idle
  BY RestartIs DEF Down
<1>1. PICK expired : Sync(expired)
  BY RestartIs
<1>2. /\ \A b \in Bugs : files'[b].final \in {None, files[b].final}
      /\ \A b \in Bugs : store'[b] # None => /\ files[b].final # None
                                             /\ files[b].final.text.status # "closed"
  BY <1>1, SyncIs
<1>3. closed \subseteq Bugs
  BY DEF TypeOK
<1>4. ReadableUnlessOverlap' /\ DeletedSaysClosed'
  BY <1>0, <1>2, <1>3 DEF FilesOK, ReadableUnlessOverlap, DeletedSaysClosed, Unreadable
<1>5. StaysClosed'
  BY <1>0, <1>2, <1>3 DEF FilesOK, StaysClosed, DeletedSaysClosed, Writes, Writers
<1> QED BY <1>0, <1>4, <1>5 DEF FilesOK, ClosesDeleted, Alone, Writes, Writers

-----------------------------------------------------------------------------
(***************************************************************************)
(* The comments, action by action.                                         *)
(***************************************************************************)
\* Without a change of the tracker the same comments may be shown.
LEMMA ShownFrame ==
    ASSUME UNCHANGED bug, NEW b
    PROVE  Shown(b)' = Shown(b)
  BY DEF Shown

\* A step in which no comments move.
LEMMA CommentsFrame ==
    ASSUME CommentsOK, UNCHANGED <<store, files, writer, fetch>>,
           \A b \in Bugs : Shown(b) \subseteq Shown(b)'
    PROVE  CommentsOK'
<1>1. StoreShown'
  BY DEF CommentsOK, StoreShown
<1>2. FilesShown'
  BY DEF CommentsOK, FilesShown, Shows
<1>3. WritersShown'
  BY DEF CommentsOK, WritersShown, Writes
<1>4. AnswerShown'
  BY DEF CommentsOK, AnswerShown, Answered
<1> QED BY <1>1, <1>2, <1>3, <1>4 DEF CommentsOK

\* The tracker's comments become no fewer.
LEMMA ChangeComments ==
    ASSUME CommentsOK, TypeOK, Counted, NEW b \in Bugs, TrackerChange(b)
    PROVE  CommentsOK'
<1>1. \A c \in Bugs : bug'[c].comments >= bug[c].comments /\ bug[c].comments \in Nat
                      /\ bug'[c].comments \in Nat
  <2> TAKE c \in Bugs
  <2>1. bug[c].comments \in 1..MaxComments /\ bug'[c].comments \in 1..MaxComments
    BY Types, ChangeIs DEF Data
  <2>2. bug[c].comments \in Nat /\ bug'[c].comments \in Nat
    BY <2>1, Distinct
  <2>3. c # b => bug'[c] = bug[c]
    BY ChangeIs
  <2>4. bug'[b].comments >= bug[b].comments
    BY ChangeIs
  <2> QED BY <2>2, <2>3, <2>4
<1>2. \A c \in Bugs : 1..bug[c].comments \subseteq 1..bug'[c].comments
  BY <1>1
<1>3. \A c \in Bugs : Shown(c) \subseteq Shown(c)'
  BY <1>2 DEF Shown
<1> QED BY <1>3, CommentsFrame, ChangeIs DEF memory

\* A bug that is added keeps the comments it has, or has none.
LEMMA AddComments ==
    ASSUME CommentsOK, TypeOK, UNCHANGED <<bug, fetch>>,
           NEW b \in Bugs, NEW v \in 0..MaxChanges, bugAdd(b, v)
    PROVE  CommentsOK'
<1>0. /\ UNCHANGED <<writer, files>> /\ \A c \in Bugs \ {b} : store'[c] = store[c]
      /\ store'[b].comments = IF store[b] # None THEN store[b].comments ELSE {}
  BY AddIs
<1>1. StoreShown'
  BY <1>0, ShownFrame DEF CommentsOK, StoreShown
<1>2. FilesShown' /\ WritersShown'
  BY <1>0, ShownFrame DEF CommentsOK, FilesShown, WritersShown, Writes, Shows
<1>3. AnswerShown'
  BY <1>0, ShownFrame DEF CommentsOK, AnswerShown, Answered
<1> QED BY <1>1, <1>2, <1>3 DEF CommentsOK

\* An update keeps the comments.
LEMMA SetComments ==
    ASSUME CommentsOK, TypeOK, UNCHANGED <<bug, fetch>>,
           NEW b \in Bugs, NEW v \in 0..MaxChanges, SetInfo(b, v)
    PROVE  CommentsOK'
<1>0. /\ UNCHANGED <<writer, files>> /\ \A c \in Bugs \ {b} : store'[c] = store[c]
      /\ store'[b] = None <=> store[b] = None
      /\ store[b] # None => store'[b].comments = store[b].comments
  BY SetIs
<1>1. StoreShown'
  BY <1>0, ShownFrame DEF CommentsOK, StoreShown
<1>2. FilesShown' /\ WritersShown'
  BY <1>0, ShownFrame DEF CommentsOK, FilesShown, WritersShown, Writes, Shows
<1>3. AnswerShown'
  BY <1>0, ShownFrame DEF CommentsOK, AnswerShown, Answered
<1> QED BY <1>1, <1>2, <1>3 DEF CommentsOK

\* A bug opens its temporary file, which has no comments yet.
LEMMA OpenComments ==
    ASSUME FilesShown, TypeOK, UNCHANGED bug, NEW b \in Bugs, OpenTemp(b)
    PROVE  FilesShown'
<1>1. /\ \A c \in Bugs \ {b} : files'[c] = files[c]
      /\ files'[b].temp.text \notin Text /\ files'[b].final = files[b].final
  BY OpenIs, Distinct
<1> QED BY <1>1, ShownFrame DEF FilesShown, Shows

\* CloseBug writes the comments of the entry.
LEMMA DeleteComments ==
    ASSUME CommentsOK, TypeOK, UNCHANGED <<bug, fetch>>, NEW b \in Bugs, bugDelete(b)
    PROVE  CommentsOK'
<1>1. CASE store[b] = None
  <2>1. UNCHANGED <<store, writer, files>>
    BY <1>1 DEF bugDelete
  <2> QED BY <2>1, CommentsFrame, ShownFrame
<1>2. CASE store[b] # None
  <2>0. /\ \A c \in Bugs \ {b} : store'[c] = store[c]
        /\ store'[b] = None /\ OpenTemp(b) /\ writer'["disk"] = writer["disk"]
        /\ writer'["handler"].bug = b /\ writer'["handler"].text.comments = store[b].comments
    BY <1>2, DeleteIs
  <2>1. StoreShown' /\ FilesShown'
    BY <2>0, ShownFrame, OpenComments DEF CommentsOK, StoreShown
  <2>2. WritersShown'
    BY <1>2, <2>0, ShownFrame DEF CommentsOK, StoreShown, WritersShown, Writes, Writers
  <2>3. AnswerShown'
    BY <2>0, ShownFrame DEF CommentsOK, AnswerShown, Answered
  <2> QED BY <2>1, <2>2, <2>3 DEF CommentsOK
<1> QED BY <1>1, <1>2

\* Every handler keeps the comments.
LEMMA HandleComments ==
    ASSUME CommentsOK, TypeOK, Handle
    PROVE  CommentsOK'
<1>1. UNCHANGED <<bug, fetch>>
  BY HandleIs
<1>2. PICK e \in Event :
         \/ bugAdd(e.bug, e.info)
         \/ SetInfo(e.bug, e.info)
         \/ SetInfo(e.bug, e.old)
         \/ UNCHANGED <<store, diskQueue, queue, writer, files, closed, overlap>>
         \/ bugDelete(e.bug)
  BY HandleIs
<1>3. e.bug \in Bugs /\ e.info \in 0..MaxChanges /\ e.old \in 0..MaxChanges
  BY EventIs
<1>4. CASE bugAdd(e.bug, e.info)
  BY <1>1, <1>3, <1>4, AddComments
<1>5. CASE SetInfo(e.bug, e.info) \/ SetInfo(e.bug, e.old)
  BY <1>1, <1>3, <1>5, SetComments
<1>6. CASE UNCHANGED <<store, diskQueue, queue, writer, files, closed, overlap>>
  BY <1>1, <1>6, CommentsFrame, ShownFrame
<1>7. CASE bugDelete(e.bug)
  BY <1>1, <1>3, <1>7, DeleteComments
<1> QED BY <1>2, <1>4, <1>5, <1>6, <1>7

\* Nothing is answered when a batch has just been collected.
LEMMA BatchComments ==
    ASSUME CommentsOK, TypeOK, CollectBatch
    PROVE  CommentsOK'
<1>0. UNCHANGED <<bug, store, files, writer>> /\ fetch'.pc = "sent"
  BY BatchIs DEF CollectBatch
<1>1. StoreShown' /\ FilesShown' /\ WritersShown'
  BY <1>0, ShownFrame DEF CommentsOK, StoreShown, FilesShown, WritersShown, Writes, Shows
<1>2. AnswerShown'
  BY <1>0 DEF AnswerShown, Answered
<1> QED BY <1>1, <1>2 DEF CommentsOK

\* An answer of this moment has what the store has.
LEMMA FreshComments ==
    ASSUME CommentsOK, TypeOK, UNCHANGED <<bug, store, files, writer>>, fetch' = NoFetch \/ Fresh
    PROVE  CommentsOK'
<1>1. StoreShown' /\ FilesShown' /\ WritersShown'
  BY ShownFrame DEF CommentsOK, StoreShown, FilesShown, WritersShown, Writes, Shows
<1>2. CASE fetch' = NoFetch
  <2>1. AnswerShown'
    BY <1>2 DEF AnswerShown, Answered, NoFetch
  <2> QED BY <1>1, <2>1 DEF CommentsOK
<1>3. CASE Fresh
  <2>1. PICK ids \in SUBSET Bugs : ids = fetch'.ids
    BY <1>3 DEF Fresh, FetchType
  <2>2. fetch'.answer = Answers(ids)
    BY <1>3, <2>1 DEF Fresh
  <2>3. \A b \in ids : /\ Answers(ids)[b] \subseteq Shown(b)
                       /\ Shown(b) \ {Hidden} \subseteq Answers(ids)[b]
    BY AnswersAre
  <2>4. \A b \in Bugs : store[b] # None => store[b].comments \subseteq Shown(b)
    BY DEF CommentsOK, StoreShown
  <2>5. AnswerShown'
    <3> SUFFICES ASSUME NEW b \in Bugs, Answered(b)'
                 PROVE  /\ fetch'.answer[b] \subseteq Shown(b)'
                        /\ store'[b] # None => store'[b].comments \ {Hidden} \subseteq fetch'.answer[b]
      BY DEF AnswerShown
    <3>1. b \in ids
      BY <2>1 DEF Answered
    <3> QED BY <2>2, <2>3, <2>4, <3>1, ShownFrame
  <2> QED BY <1>1, <2>5 DEF CommentsOK
<1> QED BY <1>2, <1>3

\* A merge puts what was answered into the store.
LEMMA MergeComments ==
    ASSUME CommentsOK, TypeOK, Merge
    PROVE  CommentsOK'
<1>0. UNCHANGED <<bug, files, writer>> /\ fetch' = NoFetch /\ fetch # NoFetch /\ fetch.pc = "answered"
  BY MergeIs DEF Merge
<1>1. \A b \in Bugs : /\ store'[b] = None <=> store[b] = None
                      /\ store[b] # None =>
                            \/ store'[b].comments = store[b].comments
                            \/ b \in fetch.ids /\ store'[b].comments = fetch.answer[b]
  BY MergeIs
<1>2. StoreShown'
  BY <1>0, <1>1, ShownFrame DEF CommentsOK, StoreShown, AnswerShown, Answered
<1>3. FilesShown' /\ WritersShown'
  BY <1>0, ShownFrame DEF CommentsOK, FilesShown, WritersShown, Writes, Shows
<1>4. AnswerShown'
  BY <1>0 DEF AnswerShown, Answered
<1> QED BY <1>2, <1>3, <1>4 DEF CommentsOK

\* Run takes the comments of the store with it,
LEMMA RunGetComments ==
    ASSUME CommentsOK, TypeOK, RunGet
    PROVE  CommentsOK'
<1>0. UNCHANGED <<bug, store, files, fetch>> /\ writer'["handler"] = writer["handler"]
  BY RunGetIs DEF RunGet
<1>1. CASE writer' = writer
  BY <1>0, <1>1, CommentsFrame, ShownFrame
<1>2. CASE writer' # writer
  <2>1. PICK b \in Bugs : /\ store[b] # None /\ writer'["disk"].bug = b
                          /\ writer'["disk"].text.comments = store[b].comments
    BY <1>2, RunGetIs
  <2>2. WritersShown'
    BY <1>0, <2>1, ShownFrame DEF CommentsOK, StoreShown, WritersShown, Writes, Writers
  <2>3. StoreShown' /\ FilesShown' /\ AnswerShown'
    BY <1>0, ShownFrame DEF CommentsOK, StoreShown, FilesShown, Shows, AnswerShown, Answered
  <2> QED BY <2>2, <2>3 DEF CommentsOK
<1> QED BY <1>1, <1>2

\* still has them when it opens the file,
LEMMA RunOpenComments ==
    ASSUME CommentsOK, TypeOK, RunOpen
    PROVE  CommentsOK'
<1>1. PICK b : b = writer["disk"].bug
  OBVIOUS
<1>2. /\ UNCHANGED <<bug, store, fetch>> /\ writer["disk"] # Idle /\ b \in Bugs /\ OpenTemp(b)
      /\ writer'["handler"] = writer["handler"] /\ writer'["disk"].bug = b
      /\ writer'["disk"].text.comments = writer["disk"].text.comments
  BY <1>1, RunOpenIs, WriterHas DEF RunOpen, memory
<1>3. FilesShown'
  BY <1>2, OpenComments DEF CommentsOK
<1>4. WritersShown'
  BY <1>1, <1>2, ShownFrame DEF CommentsOK, WritersShown, Writes, Writers
<1>5. StoreShown' /\ AnswerShown'
  BY <1>2, ShownFrame DEF CommentsOK, StoreShown, AnswerShown, Answered
<1> QED BY <1>3, <1>4, <1>5 DEF CommentsOK

\* and writes them: a mixture of two writes counts as no text.
LEMMA FlushComments ==
    ASSUME CommentsOK, TypeOK, NEW x \in Writers, Flush(x)
    PROVE  CommentsOK'
<1>0. /\ UNCHANGED <<bug, store, fetch>> /\ writer[x] \in WriterType
      /\ files' = WriteAt(writer[x], writer[x].text)
      /\ writer'[x].bug = writer[x].bug /\ writer'[x].text = writer[x].text
      /\ \A y \in Writers \ {x} : writer'[y] = writer[y]
  BY FlushIs DEF Flush, memory
<1>1. PICK w \in WriterType : w = writer[x]
  BY <1>0
<1>2. w # Idle /\ w.text \in Text /\ w.bug \in Bugs
  BY WriterHas
<1>3. w.text.comments \subseteq Shown(w.bug)
  BY <1>1, <1>2 DEF CommentsOK, WritersShown, Writes
<1>4. /\ \A c \in Bugs \ {w.bug} : files'[c] = files[c]
      /\ files'[w.bug].temp = files[w.bug].temp \/ files'[w.bug].temp.text \in {w.text, Torn}
      /\ files'[w.bug].final = files[w.bug].final \/ files'[w.bug].final.text \in {w.text, Torn}
  BY <1>0, <1>1, <1>2, WriteIs
<1>5. \A b \in Bugs : Shows(b, files[b].temp) /\ Shows(b, files[b].final)
  BY DEF CommentsOK, FilesShown
<1>6. \A b \in Bugs : Shown(b)' = Shown(b)
  BY <1>0, ShownFrame
<1>7. FilesShown'
  BY <1>3, <1>4, <1>5, <1>6, Distinct DEF FilesShown, Shows
<1>8. WritersShown'
  BY <1>0, <1>1, <1>2, <1>6 DEF CommentsOK, WritersShown, Writes
<1>9. StoreShown' /\ AnswerShown'
  BY <1>0, <1>6 DEF CommentsOK, StoreShown, AnswerShown, Answered
<1> QED BY <1>7, <1>8, <1>9 DEF CommentsOK

\* A writer ends, and the others have the text they had.
LEMMA EndComments ==
    ASSUME WritersShown, UNCHANGED bug, NEW x \in Writers, writer'[x] = Idle, NEW b, Follows(x, b)
    PROVE  WritersShown'
  BY ShownFrame DEF WritersShown, Writes, Follows

\* A write that fails leaves nothing, or a mixture.
LEMMA FlushFailsComments ==
    ASSUME CommentsOK, TypeOK, NEW x \in Writers, FlushFails(x)
    PROVE  CommentsOK'
<1>1. PICK b : b = writer[x].bug
  OBVIOUS
<1>2. /\ UNCHANGED <<bug, store, fetch>> /\ b \in Bugs /\ writer'[x] = Idle /\ Follows(x, b)
      /\ \A c \in Bugs \ {b} : files'[c] = files[c]
      /\ files'[b].temp = None
      /\ files'[b].final = files[b].final \/ files'[b].final.text = Torn
  BY <1>1, FlushFailsIs, WriterHas DEF FlushFails, memory
<1>3. WritersShown'
  BY <1>2, EndComments DEF CommentsOK
<1>4. FilesShown'
  BY <1>2, ShownFrame, Distinct DEF CommentsOK, FilesShown, Shows
<1>5. StoreShown' /\ AnswerShown'
  BY <1>2, ShownFrame DEF CommentsOK, StoreShown, AnswerShown, Answered
<1> QED BY <1>3, <1>4, <1>5 DEF CommentsOK

\* A renamed file has the comments it had.
LEMMA RenameComments ==
    ASSUME CommentsOK, TypeOK, NEW x \in Writers, Rename(x)
    PROVE  CommentsOK'
<1>1. PICK b : b = writer[x].bug
  OBVIOUS
<1>0. UNCHANGED <<bug, store, fetch>>
  BY DEF Rename
<1>2. /\ b \in Bugs /\ writer'[x] = Idle /\ Follows(x, b)
      /\ \A c \in Bugs \ {b} : files'[c] = files[c]
      /\ files[b].temp = None => files' = files
      /\ files[b].temp # None => /\ files'[b].temp = None
                                 /\ files'[b].final.text = files[b].temp.text
  BY <1>1, RenameIs, WriterHas
<1>3. WritersShown'
  BY <1>0, <1>2, EndComments DEF CommentsOK
<1>4. FilesShown'
  BY <1>0, <1>2, ShownFrame DEF CommentsOK, FilesShown, Shows
<1>5. StoreShown' /\ AnswerShown'
  BY <1>0, <1>2, ShownFrame DEF CommentsOK, StoreShown, AnswerShown, Answered
<1> QED BY <1>3, <1>4, <1>5 DEF CommentsOK

\* No comments change as time passes.
LEMMA TimeComments ==
    ASSUME CommentsOK, TypeOK, TimePasses
    PROVE  CommentsOK'
<1>0. /\ UNCHANGED bug
      /\ \A b \in Bugs : /\ store'[b] = None <=> store[b] = None
                         /\ store[b] # None => store'[b].comments = store[b].comments
      /\ fetch' = NoFetch <=> fetch = NoFetch
      /\ fetch # NoFetch => /\ fetch'.pc = fetch.pc /\ fetch'.ids = fetch.ids
                            /\ fetch'.answer = fetch.answer
      /\ \A b \in Bugs : /\ files'[b].temp = None <=> files[b].temp = None
                         /\ files'[b].final = None <=> files[b].final = None
                         /\ files[b].temp # None => files'[b].temp.text = files[b].temp.text
                         /\ files[b].final # None => files'[b].final.text = files[b].final.text
      /\ \A x \in Writers : /\ writer'[x] = Idle <=> writer[x] = Idle
                            /\ writer[x] # Idle => /\ writer'[x].bug = writer[x].bug
                                                   /\ writer'[x].text = writer[x].text
  BY TimeIs DEF TimePasses
<1>1. StoreShown' /\ FilesShown'
  BY <1>0, ShownFrame DEF CommentsOK, StoreShown, FilesShown, Shows
<1>2. WritersShown'
  BY <1>0, ShownFrame DEF CommentsOK, WritersShown, Writes
<1>3. AnswerShown'
  BY <1>0, ShownFrame DEF CommentsOK, AnswerShown, Answered
<1> QED BY <1>1, <1>2, <1>3 DEF CommentsOK

\* A crash leaves the comments of the files,
LEMMA CrashComments ==
    ASSUME CommentsOK, Crash
    PROVE  CommentsOK'
<1>0. UNCHANGED <<bug, files>> /\ fetch' = NoFetch /\ (\A x \in Writers : writer'[x] = Idle)
      /\ \A b \in Bugs : store'[b] = None
  BY DEF Crash
<1>1. FilesShown'
  BY <1>0, ShownFrame DEF CommentsOK, FilesShown, Shows
<1> QED BY <1>0, <1>1 DEF CommentsOK, StoreShown, WritersShown, Writes, AnswerShown, Answered

\* and Sync loads them.
LEMMA RestartComments ==
    ASSUME CommentsOK, TypeOK, Down, Restart
    PROVE  CommentsOK'
<1>0. /\ UNCHANGED <<bug, fetch, writer>> /\ fetch = NoFetch /\ \A x \in Writers : writer[x] = Idle
  BY RestartIs DEF Down
<1>1. PICK expired : Sync(expired)
  BY RestartIs
<1>2. \A b \in Bugs : /\ files'[b].temp \in {None, files[b].temp}
                      /\ files'[b].final \in {None, files[b].final}
                      /\ store'[b] # None =>
                            /\ files[b].final # None /\ files[b].final.text \in Text
                            /\ store'[b].comments = files[b].final.text.comments
  BY <1>1, SyncIs
<1>3. StoreShown'
  BY <1>0, <1>2, ShownFrame DEF CommentsOK, FilesShown, Shows, StoreShown
<1>4. FilesShown'
  BY <1>0, <1>2, ShownFrame DEF CommentsOK, FilesShown, Shows
<1> QED BY <1>0, <1>3, <1>4 DEF CommentsOK, WritersShown, Writes, AnswerShown, Answered

-----------------------------------------------------------------------------
(***************************************************************************)
(* The information, action by action.                                      *)
(***************************************************************************)
\* A step in which neither the tracker nor the handlers act.
LEMMA EventsFrame ==
    ASSUME EventsOK, UNCHANGED <<tracker, bug, events, process>>,
           \A b \in Bugs : /\ store'[b] = None <=> store[b] = None
                           /\ store[b] # None => store'[b].info = store[b].info
    PROVE  EventsOK'
<1> SUFFICES ASSUME tracker = "bugzilla" /\ process.up, NEW b \in Bugs
             PROVE  LastSays(b)' /\ UpdatesFind(b)'
  BY DEF EventsOK
<1>1. LastSays(b) /\ UpdatesFind(b)
  BY DEF EventsOK
<1>2. \A i : About(i, b)' <=> About(i, b)
  BY DEF About
<1>3. \A i, j : NoneIn(i, j, b)' <=> NoneIn(i, j, b)
  BY <1>2 DEF NoneIn
<1>4. LastSays(b)'
  BY <1>1, <1>2, <1>3 DEF LastSays
<1>5. UpdatesFind(b)'
  BY <1>1, <1>2, <1>3 DEF UpdatesFind
<1> QED BY <1>4, <1>5

\* A set of numbers up to n has a greatest one.
LEMMA HasLast ==
    ASSUME NEW T, NEW n \in Nat, T \subseteq 0..n, T # {}
    PROVE  \E x \in T : \A y \in T : y =< x
<1> DEFINE S == {n - t : t \in T}
<1>0. PICK u \in T : TRUE
  OBVIOUS
<1>1. S \subseteq Nat /\ n - u \in S
  OBVIOUS
<1>2. PICK x \in S : \A y \in S : ~ (<<y, x>> \in OpToRel(<, Nat))
  BY <1>1, NatLessThanWellFounded, WFMin
<1>3. PICK t \in T : x = n - t
  OBVIOUS
<1>4. \A y \in T : ~(n - y < n - t)
  BY <1>1, <1>2, <1>3 DEF OpToRel
<1> QED BY <1>4

\* There is no event of a bug, or a last one.
LEMMA LastEvent ==
    ASSUME events \in Seq(Event), NEW b
    PROVE  \/ NoneIn(1, Len(events), b)
           \/ \E i \in 1..Len(events) : About(i, b) /\ NoneIn(i + 1, Len(events), b)
<1> DEFINE T == {i \in 1..Len(events) : About(i, b)}
<1>0. Len(events) \in Nat
  OBVIOUS
<1>1. CASE T = {}
  BY <1>1 DEF NoneIn
<1>2. CASE T # {}
  <2>1. T \subseteq 0..Len(events)
    BY <1>0
  <2>2. PICK i \in T : \A j \in T : j =< i
    BY <1>0, <1>2, <2>1, HasLast
  <2>3. NoneIn(i + 1, Len(events), b)
    BY <1>0, <2>2 DEF NoneIn
  <2> QED BY <2>2, <2>3
<1> QED BY <1>1, <1>2

\* A new event is the last one of its bug.
LEMMA EventsAppend ==
    ASSUME EventsOK, TypeOK, UNCHANGED <<tracker, process, store>>, NEW b \in Bugs, NEW e \in Event,
           \A c \in Bugs \ {b} : bug'[c] = bug[c],
           events' = Append(events, e), e.bug = b, e.info = bug'[b].info,
           e.type = "delete" <=> ~bug'[b].listed,
           e.type = "update" => bug[b].listed
    PROVE  EventsOK'
<1> SUFFICES ASSUME tracker = "bugzilla", process.up, NEW c \in Bugs
             PROVE  LastSays(c)' /\ UpdatesFind(c)'
  BY DEF EventsOK
<1>1. LastSays(c) /\ UpdatesFind(c)
  BY DEF EventsOK
<1>2. PICK n \in Nat : n = Len(events)
  BY Types
<1>3. /\ Len(events') = n + 1 /\ events'[n + 1] = e
      /\ \A i \in 1..n : events'[i] = events[i]
  BY <1>2, Types, AppendProperties
<1>4. \A i \in 1..n : About(i, c)' <=> About(i, c)
  BY <1>2, <1>3 DEF About
<1>5. About(n + 1, c)' <=> c = b
  BY <1>3 DEF About
<1>6. \A i \in Nat, j \in 0..n : i >= 1 => (NoneIn(i, j, c)' <=> NoneIn(i, j, c))
  BY <1>4 DEF NoneIn
<1>7. CASE c = b
  <2>1. LastSays(c)'
    <3>1. \A i \in Nat : i =< n + 1 => ~NoneIn(i, n + 1, c)'
      BY <1>5, <1>7 DEF NoneIn
    <3>2. \A i \in 1..(n + 1) : NoneIn(i + 1, n + 1, c)' => i = n + 1
      BY <3>1
    <3> QED BY <1>3, <1>7, <3>1, <3>2 DEF LastSays
  <2>2. ASSUME NEW i \in 1..n, About(i, c)', events'[i].type = "update"
        PROVE  \/ NoneIn(1, i - 1, c)' /\ store'[c] # None
               \/ \E j \in 1..(i - 1) : About(j, c)' /\ NoneIn(j + 1, i - 1, c)' /\ events'[j].type # "delete"
    <3>1. \/ NoneIn(1, i - 1, c) /\ store[c] # None
          \/ \E j \in 1..(i - 1) : About(j, c) /\ NoneIn(j + 1, i - 1, c) /\ events[j].type # "delete"
      BY <1>1, <1>2, <1>3, <1>4, <2>2 DEF UpdatesFind
    <3>2. i - 1 \in 0..n /\ \A j \in 1..(i - 1) : j \in 1..n /\ j + 1 \in Nat /\ j + 1 >= 1
      OBVIOUS
    <3> QED BY <1>3, <1>4, <1>6, <3>1, <3>2
  <2>3. e.type = "update" =>
           \/ NoneIn(1, n, c)' /\ store'[c] # None
           \/ \E j \in 1..n : About(j, c)' /\ NoneIn(j + 1, n, c)' /\ events'[j].type # "delete"
    <3> HAVE e.type = "update"
    <3>1. CASE NoneIn(1, n, c)
      BY <1>1, <1>2, <1>6, <1>7, <3>1 DEF LastSays
    <3>2. CASE \E j \in 1..n : About(j, c) /\ NoneIn(j + 1, n, c)
      <4>1. PICK j \in 1..n : About(j, c) /\ NoneIn(j + 1, n, c)
        BY <3>2
      <4>2. events[j].type # "delete"
        BY <1>1, <1>2, <1>7, <4>1 DEF LastSays
      <4>3. About(j, c)' /\ NoneIn(j + 1, n, c)'
        BY <1>4, <1>6, <4>1
      <4> QED BY <1>3, <4>2, <4>3
    <3> QED BY <1>2, <3>1, <3>2, Types, LastEvent
  <2>4. UpdatesFind(c)'
    <3> SUFFICES ASSUME NEW i \in 1..(n + 1), About(i, c)', events'[i].type = "update"
                 PROVE  \/ NoneIn(1, i - 1, c)' /\ store'[c] # None
                        \/ \E j \in 1..(i - 1) : /\ About(j, c)' /\ NoneIn(j + 1, i - 1, c)'
                                                 /\ events'[j].type # "delete"
      BY <1>3 DEF UpdatesFind
    <3>1. CASE i = n + 1
      <4>1. i - 1 = n
        BY <3>1
      <4> QED BY <1>3, <2>3, <3>1, <4>1
    <3>2. CASE i # n + 1
      <4>1. i \in 1..n
        BY <3>2
      <4> QED BY <2>2, <4>1
    <3> QED BY <3>1, <3>2
  <2> QED BY <2>1, <2>4
<1>8. CASE c # b
  <2>0. bug'[c] = bug[c] /\ ~About(n + 1, c)'
    BY <1>5, <1>8
  <2>1. \A i \in Nat : i >= 1 => (NoneIn(i, n + 1, c)' <=> NoneIn(i, n, c))
    <3> TAKE i \in Nat
    <3> HAVE i >= 1
    <3>1. NoneIn(i, n + 1, c)' => NoneIn(i, n, c)'
      BY DEF NoneIn
    <3>2. NoneIn(i, n, c)' => NoneIn(i, n + 1, c)'
      <4> HAVE NoneIn(i, n, c)'
      <4>1. \A m \in i..(n + 1) : m \in i..n \/ m = n + 1
        OBVIOUS
      <4> QED BY <2>0, <4>1 DEF NoneIn
    <3> QED BY <1>6, <3>1, <3>2
  <2>2. LastSays(c)'
    <3>1. NoneIn(1, Len(events), c)' /\ bug'[c].listed => store'[c] # None /\ store'[c].info = Full(bug'[c].info)
      BY <1>1, <1>2, <1>3, <2>0, <2>1 DEF LastSays
    <3>2. ASSUME NEW i \in 1..(n + 1), About(i, c)', NoneIn(i + 1, n + 1, c)'
          PROVE  /\ events'[i].type = "delete" <=> ~bug'[c].listed
                 /\ events'[i].type # "delete" => events'[i].info = bug'[c].info
      <4>1. i \in 1..n
        BY <2>0, <3>2
      <4>2. About(i, c) /\ NoneIn(i + 1, n, c)
        BY <1>4, <2>1, <3>2, <4>1
      <4> QED BY <1>1, <1>2, <1>3, <2>0, <4>1, <4>2 DEF LastSays
    <3> QED BY <1>3, <3>1, <3>2 DEF LastSays
  <2>3. UpdatesFind(c)'
    <3> SUFFICES ASSUME NEW i \in 1..(n + 1), About(i, c)', events'[i].type = "update"
                 PROVE  \/ NoneIn(1, i - 1, c)' /\ store'[c] # None
                        \/ \E j \in 1..(i - 1) : /\ About(j, c)' /\ NoneIn(j + 1, i - 1, c)'
                                                 /\ events'[j].type # "delete"
      BY <1>3 DEF UpdatesFind
    <3>1. i \in 1..n
      BY <2>0
    <3>2. \/ NoneIn(1, i - 1, c) /\ store[c] # None
          \/ \E j \in 1..(i - 1) : About(j, c) /\ NoneIn(j + 1, i - 1, c) /\ events[j].type # "delete"
      BY <1>1, <1>2, <1>3, <1>4, <3>1 DEF UpdatesFind
    <3>3. i - 1 \in 0..n /\ \A j \in 1..(i - 1) : j \in 1..n /\ j + 1 \in Nat /\ j + 1 >= 1
      BY <3>1
    <3> QED BY <1>3, <1>4, <1>6, <3>2, <3>3
  <2> QED BY <2>2, <2>3
<1> QED BY <1>7, <1>8

\* A change of the tracker and the event that says so.
LEMMA ChangeEvents ==
    ASSUME EventsOK, TypeOK, Counted, NEW b \in Bugs, TrackerChange(b)
    PROVE  EventsOK'
<1>0. UNCHANGED <<tracker, process, store>> /\ \A c \in Bugs \ {b} : bug'[c] = bug[c]
  BY ChangeIs DEF memory
<1>1. CASE ~process.up
  BY <1>0, <1>1 DEF EventsOK
<1>2. CASE process.up /\ events' = events /\ bug'[b].listed = bug[b].listed /\ bug'[b].info = bug[b].info
  <2> SUFFICES ASSUME tracker = "bugzilla", NEW c \in Bugs
               PROVE  LastSays(c)' /\ UpdatesFind(c)'
    BY <1>0 DEF EventsOK
  <2>1. LastSays(c) /\ UpdatesFind(c)
    BY <1>2 DEF EventsOK
  <2>2. bug'[c].listed = bug[c].listed /\ bug'[c].info = bug[c].info
    BY <1>0, <1>2
  <2>3. \A i : About(i, c)' <=> About(i, c)
    BY <1>2 DEF About
  <2>4. \A i, j : NoneIn(i, j, c)' <=> NoneIn(i, j, c)
    BY <2>3 DEF NoneIn
  <2>5. LastSays(c)'
    BY <1>0, <1>2, <2>1, <2>2, <2>3, <2>4 DEF LastSays
  <2>6. UpdatesFind(c)'
    BY <1>0, <1>2, <2>1, <2>3, <2>4 DEF UpdatesFind
  <2> QED BY <2>5, <2>6
<1>3. ASSUME NEW e \in Event, events' = Append(events, e), e.bug = b, e.info = bug'[b].info,
             e.type = "delete" <=> ~bug'[b].listed, e.type = "update" => bug[b].listed
      PROVE  EventsOK'
  BY <1>0, <1>3, EventsAppend
<1> QED BY <1>1, <1>2, <1>3, ChangeIs

\* Once the first event is handled the others move up.
LEMMA TailShifts ==
    ASSUME events \in Seq(Event), events # << >>, events' = Tail(events), NEW n, n = Len(events)
    PROVE  /\ n \in Nat \ {0} /\ Len(events') = n - 1 /\ events[1] = Head(events)
           /\ \A i \in 1..(n - 1) : events'[i] = events[i + 1]
           /\ \A c : \A i \in Nat \ {0} : About(i, c)' <=> About(i + 1, c)
           /\ \A c : \A i \in Nat \ {0}, j \in Nat : NoneIn(i, j, c)' <=> NoneIn(i + 1, j + 1, c)
<1>1. n \in Nat \ {0} /\ Len(events') = n - 1 /\ events[1] = Head(events)
  OBVIOUS
<1>2. \A i \in 1..(n - 1) : events'[i] = events[i + 1]
  BY <1>1, HeadTailProperties
<1>3. \A c : \A i \in Nat \ {0} : About(i, c)' <=> About(i + 1, c)
  BY <1>1, <1>2 DEF About
<1>4. ASSUME NEW c, NEW i \in Nat \ {0}, NEW j \in Nat
      PROVE  NoneIn(i, j, c)' <=> NoneIn(i + 1, j + 1, c)
  <2>1. ASSUME NoneIn(i, j, c)', NEW m \in (i + 1)..(j + 1)
        PROVE  ~About(m, c)
    <3>1. m - 1 \in i..j /\ m - 1 \in Nat \ {0} /\ (m - 1) + 1 = m
      OBVIOUS
    <3>2. ~About(m - 1, c)'
      BY <2>1, <3>1 DEF NoneIn
    <3> QED BY <1>3, <3>1, <3>2
  <2>2. ASSUME NoneIn(i + 1, j + 1, c), NEW m \in i..j
        PROVE  ~About(m, c)'
    <3>1. m + 1 \in (i + 1)..(j + 1) /\ m \in Nat \ {0}
      OBVIOUS
    <3>2. ~About(m + 1, c)
      BY <2>2, <3>1 DEF NoneIn
    <3> QED BY <1>3, <3>1, <3>2
  <2> QED BY <2>1, <2>2 DEF NoneIn
<1> QED BY <1>1, <1>2, <1>3, <1>4

\* Handling the first event keeps what the others say; what it says itself is in the
\* store then.
LEMMA EventsTail ==
    ASSUME EventsOK, TypeOK, UNCHANGED <<tracker, bug, process>>, events # << >>,
           events' = Tail(events), NEW e \in Event, e = Head(events),
           \A c \in Bugs \ {e.bug} : store'[c] = store[c],
           e.type # "delete" => store'[e.bug] # None /\ store'[e.bug].info = Full(e.info)
    PROVE  EventsOK'
<1> SUFFICES ASSUME tracker = "bugzilla", process.up, NEW c \in Bugs
             PROVE  LastSays(c)' /\ UpdatesFind(c)'
  BY DEF EventsOK
<1>1. LastSays(c) /\ UpdatesFind(c)
  BY DEF EventsOK
<1>2. PICK n : n = Len(events)
  OBVIOUS
<1>3. /\ n \in Nat \ {0} /\ Len(events') = n - 1 /\ events[1] = e
      /\ \A i \in 1..(n - 1) : events'[i] = events[i + 1]
      /\ \A i \in Nat \ {0} : About(i, c)' <=> About(i + 1, c)
      /\ \A i \in Nat \ {0}, j \in Nat : NoneIn(i, j, c)' <=> NoneIn(i + 1, j + 1, c)
  BY <1>2, Types, TailShifts
<1>4. About(1, c) <=> e.bug = c
  BY <1>2, <1>3 DEF About
<1>5. \A j \in Nat : NoneIn(1, j, c)' <=> NoneIn(2, j + 1, c)
  <2>1. 1 \in Nat \ {0} /\ 1 + 1 = 2
    OBVIOUS
  <2>2. \A j \in Nat : NoneIn(1, j, c)' <=> NoneIn(1 + 1, j + 1, c)
    BY <1>3, <2>1
  <2> QED BY <2>1, <2>2
<1>6. \A j \in Nat : e.bug # c /\ NoneIn(2, j, c) => NoneIn(1, j, c)
  <2> SUFFICES ASSUME NEW j \in Nat, e.bug # c, NoneIn(2, j, c), NEW m \in 1..j
               PROVE  ~About(m, c)
    BY DEF NoneIn
  <2>1. m = 1 \/ m \in 2..j
    OBVIOUS
  <2> QED BY <1>4, <2>1 DEF NoneIn
<1>7. LastSays(c)'
  <2>1. ASSUME NoneIn(1, n - 1, c)', bug[c].listed
        PROVE  store'[c] # None /\ store'[c].info = Full(bug[c].info)
    <3>1. NoneIn(2, n, c)
      BY <1>3, <1>5, <2>1
    <3>2. CASE e.bug = c
      <4>0. 1 \in 1..n /\ 1 + 1 = 2
        BY <1>3
      <4>1. /\ events[1].type = "delete" <=> ~bug[c].listed
            /\ events[1].type # "delete" => events[1].info = bug[c].info
        BY <1>1, <1>2, <1>4, <3>1, <3>2, <4>0 DEF LastSays
      <4>2. e.type # "delete" /\ e.info = bug[c].info
        BY <1>3, <2>1, <4>1
      <4> QED BY <3>2, <4>2
    <3>3. CASE e.bug # c
      BY <1>1, <1>2, <1>3, <1>6, <2>1, <3>1, <3>3 DEF LastSays
    <3> QED BY <3>2, <3>3
  <2>2. ASSUME NEW i \in 1..(n - 1), About(i, c)', NoneIn(i + 1, n - 1, c)'
        PROVE  /\ events'[i].type = "delete" <=> ~bug[c].listed
               /\ events'[i].type # "delete" => events'[i].info = bug[c].info
    <3>1. PICK k \in 1..n : k = i + 1
      BY <1>3
    <3>2. i \in Nat \ {0} /\ k \in Nat \ {0} /\ n - 1 \in Nat /\ (n - 1) + 1 = n
      BY <1>3, <3>1
    <3>3. About(k, c) /\ NoneIn(k + 1, n, c) /\ events'[i] = events[k]
      BY <1>3, <2>2, <3>1, <3>2
    <3>4. /\ events[k].type = "delete" <=> ~bug[c].listed
          /\ events[k].type # "delete" => events[k].info = bug[c].info
      BY <1>1, <1>2, <3>1, <3>3 DEF LastSays
    <3> QED BY <3>3, <3>4
  <2> QED BY <1>3, <2>1, <2>2 DEF LastSays
<1>8. UpdatesFind(c)'
  <2> SUFFICES ASSUME NEW i \in 1..(n - 1), About(i, c)', events'[i].type = "update"
               PROVE  \/ NoneIn(1, i - 1, c)' /\ store'[c] # None
                      \/ \E j \in 1..(i - 1) : /\ About(j, c)' /\ NoneIn(j + 1, i - 1, c)'
                                               /\ events'[j].type # "delete"
    BY <1>3 DEF UpdatesFind
  <2>1. /\ i + 1 \in 1..n /\ i \in Nat \ {0} /\ (i + 1) - 1 = i /\ i - 1 \in Nat /\ (i - 1) + 1 = i
    BY <1>3
  <2>2. About(i + 1, c) /\ events[i + 1].type = "update"
    BY <1>3, <2>1
  <2>3. \/ NoneIn(1, i, c) /\ store[c] # None
        \/ \E j \in 1..i : About(j, c) /\ NoneIn(j + 1, i, c) /\ events[j].type # "delete"
    BY <1>1, <1>2, <2>1, <2>2 DEF UpdatesFind
  <2>4. CASE NoneIn(1, i, c) /\ store[c] # None
    <3>1. e.bug # c /\ NoneIn(2, i, c)
      BY <1>4, <2>1, <2>4 DEF NoneIn
    <3>2. NoneIn(1, i - 1, c)'
      BY <1>5, <2>1, <3>1
    <3> QED BY <2>4, <3>1, <3>2
  <2>5. ASSUME NEW j \in 1..i, About(j, c), NoneIn(j + 1, i, c), events[j].type # "delete"
        PROVE  \/ NoneIn(1, i - 1, c)' /\ store'[c] # None
               \/ \E k \in 1..(i - 1) : /\ About(k, c)' /\ NoneIn(k + 1, i - 1, c)'
                                        /\ events'[k].type # "delete"
    <3>1. CASE j = 1
      <4>1. e.bug = c /\ store'[c] # None
        BY <1>3, <1>4, <2>5, <3>1
      <4>2. NoneIn(1, i - 1, c)'
        BY <1>5, <2>1, <2>5, <3>1
      <4> QED BY <4>1, <4>2
    <3>2. CASE j # 1
      <4>1. /\ j - 1 \in 1..(i - 1) /\ j - 1 \in Nat \ {0} /\ (j - 1) + 1 = j
            /\ j \in Nat \ {0} /\ j - 1 \in 1..(n - 1)
        BY <1>3, <2>1, <3>2
      <4>2. About(j - 1, c)' /\ NoneIn(j, i - 1, c)' /\ events'[j - 1].type # "delete"
        BY <1>3, <2>1, <2>5, <4>1
      <4> QED BY <4>1, <4>2
    <3> QED BY <3>1, <3>2
  <2> QED BY <2>3, <2>4, <2>5
<1> QED BY <1>7, <1>8

\* The handlers put into the store what the event says; an update finds an entry.
LEMMA HandleEvents ==
    ASSUME EventsOK, TypeOK, Handle
    PROVE  EventsOK'
<1>0. events # << >> /\ events' = Tail(events) /\ Unlocked /\ UNCHANGED <<tracker, bug, process>>
  BY HandleIs
<1>1. CASE tracker # "bugzilla"
  BY <1>0, <1>1 DEF EventsOK
<1>2. CASE tracker = "bugzilla"
  <2>1. PICK e \in Event :
           /\ e = Head(events)
           /\ \/ e.type = "add" /\ bugAdd(e.bug, e.info)
              \/ e.type = "update" /\ SetInfo(e.bug, e.info)
              \/ e.type = "delete" /\ bugDelete(e.bug)
    BY <1>2, HandleIs
  <2>2. e.bug \in Bugs /\ e.info \in 0..MaxChanges
    BY EventIs
  <2>3. CASE e.type = "add" /\ bugAdd(e.bug, e.info)
    <3>1. /\ \A c \in Bugs \ {e.bug} : store'[c] = store[c]
          /\ store'[e.bug] # None /\ store'[e.bug].info = Full(e.info)
      BY <2>2, <2>3, AddIs
    <3> QED BY <1>0, <2>1, <3>1, EventsTail
  <2>4. CASE e.type = "update" /\ SetInfo(e.bug, e.info)
    <3>1. store[e.bug] # None
      <4>1. UpdatesFind(e.bug)
        BY <1>0, <1>2, <2>2 DEF EventsOK, Unlocked
      <4>2. 1 \in 1..Len(events) /\ events[1] = e
        BY <1>0, <2>1, Types
      <4>3. About(1, e.bug)
        BY <4>2 DEF About
      <4>4. 1 - 1 = 0 /\ 1..0 = {}
        OBVIOUS
      <4> QED BY <2>4, <4>1, <4>2, <4>3, <4>4 DEF UpdatesFind
    <3>2. /\ \A c \in Bugs \ {e.bug} : store'[c] = store[c]
          /\ store'[e.bug] # None /\ store'[e.bug].info = Full(e.info)
      BY <2>2, <2>4, <3>1, SetIs
    <3> QED BY <1>0, <2>1, <3>2, EventsTail
  <2>5. CASE e.type = "delete" /\ bugDelete(e.bug)
    <3>1. \A c \in Bugs \ {e.bug} : store'[c] = store[c]
      <4>1. CASE store[e.bug] = None
        BY <2>5, <4>1 DEF bugDelete
      <4>2. CASE store[e.bug] # None
        BY <2>2, <2>5, <4>2, DeleteIs
      <4> QED BY <4>1, <4>2
    <3> QED BY <1>0, <2>1, <2>5, <3>1, EventsTail
  <2> QED BY <2>1, <2>3, <2>4, <2>5
<1> QED BY <1>1, <1>2

\* After a start there is an event for every bug that is listed, and no update.
LEMMA RestartEvents ==
    ASSUME TypeOK, Restart
    PROVE  EventsOK'
<1>1. /\ UNCHANGED bug /\ events' \in Seq(Event)
      /\ \A i \in 1..Len(events') : /\ events'[i].type = "add" /\ bug[events'[i].bug].listed
                                    /\ events'[i].info = bug[events'[i].bug].info
      /\ \A b \in Bugs : bug[b].listed => \E i \in 1..Len(events') : events'[i].bug = b
  BY RestartIs
<1> SUFFICES ASSUME NEW b \in Bugs
             PROVE  LastSays(b)' /\ UpdatesFind(b)'
  BY DEF EventsOK
<1>2. NoneIn(1, Len(events), b)' => ~bug[b].listed
  BY <1>1 DEF NoneIn, About
<1>3. LastSays(b)'
  BY <1>1, <1>2 DEF LastSays, About
<1>4. UpdatesFind(b)'
  BY <1>1 DEF UpdatesFind
<1> QED BY <1>3, <1>4

-----------------------------------------------------------------------------
(***************************************************************************)
(* The types, and what a process that is down has.                         *)
(***************************************************************************)
Basic == TypeOK /\ Down /\ Counted

\* A step of a running process without a change of the tracker.
LEMMA BasicFrame ==
    ASSUME Basic, process.up, UNCHANGED <<tracker, bug, process>>,
           events' \in Seq(Event), store' \in Stores,
           queue' \in QueueType(Bugs), diskQueue' \in QueueType(Bugs),
           fetch' \in FetchType \cup {NoFetch}, files' \in [Bugs -> Pair],
           writer' \in [Writers -> WriterType \cup {Idle}],
           count' \in [changes : 0..MaxChanges, faults : 0..MaxFaults, crashes : 0..MaxCrashes],
           count'.changes = count.changes, closed' \subseteq Bugs, overlap' \subseteq Bugs
    PROVE  Basic'
<1>1. TypeOK'
  BY DEF Basic, TypeOK, Stores, Pair
<1>2. Down' /\ Counted'
  BY DEF Basic, Down, Counted
<1> QED BY <1>1, <1>2 DEF Basic

\* The parts of Basic, for steps that change few of them.
LEMMA BasicTypes ==
    ASSUME Basic
    PROVE  /\ TypeOK /\ store \in Stores /\ files \in [Bugs -> Pair]
           /\ queue \in QueueType(Bugs) /\ diskQueue \in QueueType(Bugs)
           /\ writer \in [Writers -> WriterType \cup {Idle}] /\ fetch \in FetchType \cup {NoFetch}
           /\ events \in Seq(Event) /\ closed \subseteq Bugs /\ overlap \subseteq Bugs
           /\ count \in [changes : 0..MaxChanges, faults : 0..MaxFaults, crashes : 0..MaxCrashes]
<1>1. TypeOK
  BY DEF Basic
<1> QED BY <1>1, Types DEF TypeOK

\* A change of the tracker keeps the types and is counted.
LEMMA ChangeBasic ==
    ASSUME Basic, NEW b \in Bugs, TrackerChange(b)
    PROVE  Basic'
<1>0. TypeOK /\ Counted
  BY DEF Basic
<1>1. /\ bug' \in [Bugs -> Data] /\ \A c \in Bugs \ {b} : bug'[c] = bug[c]
      /\ bug'[b].info =< bug[b].info + 1 /\ count'.changes = count.changes + 1
      /\ count' \in [changes : 0..MaxChanges, faults : 0..MaxFaults, crashes : 0..MaxCrashes]
      /\ UNCHANGED <<tracker, memory, files, writer, process, closed, overlap>>
  BY <1>0, ChangeIs
<1>2. events' \in Seq(Event)
  <2>1. events \in Seq(Event)
    BY <1>0, Types
  <2>2. events' = events \/ \E e \in Event : events' = Append(events, e)
    BY <1>0, ChangeIs
  <2> QED BY <2>1, <2>2, AppendProperties
<1>3. TypeOK'
  BY <1>0, <1>1, <1>2 DEF TypeOK, Data, memory
<1>4. Down'
  BY <1>1 DEF Basic, Down, memory
<1>5. Counted'
  <2>1. \A c \in Bugs : bug[c].info =< count.changes
    BY <1>0 DEF Counted
  <2>2. count.changes \in Nat /\ \A c \in Bugs : bug[c].info \in Nat /\ bug'[c].info \in Nat
    <3>1. count.changes \in Nat /\ MaxChanges \in Nat
      BY <1>0, Types, Distinct
    <3>2. \A c \in Bugs : bug[c].info \in 0..MaxChanges /\ bug'[c].info \in 0..MaxChanges
      BY <1>0, <1>1, Types DEF Data
    <3> QED BY <3>1, <3>2
  <2>3. \A c \in Bugs : bug'[c].info =< count.changes + 1
    <3> TAKE c \in Bugs
    <3>1. CASE c = b
      BY <1>1, <2>1, <2>2, <3>1
    <3>2. CASE c # b
      <4>1. bug'[c].info = bug[c].info
        BY <1>1, <3>2
      <4> QED BY <2>1, <2>2, <4>1
    <3> QED BY <3>1, <3>2
  <2> QED BY <1>1, <2>3 DEF Counted
<1> QED BY <1>3, <1>4, <1>5 DEF Basic

\* Every handler keeps the types.
LEMMA HandleBasic ==
    ASSUME Basic, Handle
    PROVE  Basic'
<1>0. TypeOK
  BY DEF Basic
<1>1. /\ process.up /\ UNCHANGED <<tracker, bug, fetch, process, count>>
  BY <1>0, HandleIs DEF Unlocked
<1>2. events' \in Seq(Event)
  <2>1. events \in Seq(Event) /\ events # << >> /\ events' = Tail(events)
    BY <1>0, HandleIs, Types
  <2> QED BY <2>1, HeadTailProperties
<1>3. PICK e \in Event :
         \/ bugAdd(e.bug, e.info)
         \/ SetInfo(e.bug, e.info)
         \/ SetInfo(e.bug, e.old)
         \/ UNCHANGED <<store, diskQueue, queue, writer, files, closed, overlap>>
         \/ bugDelete(e.bug)
  BY <1>0, HandleIs
<1>4. PICK b \in Bugs, new \in 0..MaxChanges, old \in 0..MaxChanges :
         b = e.bug /\ new = e.info /\ old = e.old
  BY EventIs
<1>5. CASE bugAdd(b, new)
  <2>1. /\ store' \in Stores /\ queue' \in QueueType(Bugs) /\ closed' = closed \ {b}
        /\ UNCHANGED <<diskQueue, writer, files, overlap>>
    BY <1>0, <1>5, AddIs
  <2> QED BY <1>1, <1>2, <2>1, BasicTypes, BasicFrame
<1>6. ASSUME NEW v \in 0..MaxChanges, SetInfo(b, v)
      PROVE  Basic'
  <2>1. /\ store' \in Stores /\ diskQueue' \in QueueType(Bugs)
        /\ UNCHANGED <<queue, writer, files, closed, overlap>>
    BY <1>0, <1>6, SetIs
  <2> QED BY <1>1, <1>2, <2>1, BasicTypes, BasicFrame
<1>7. CASE UNCHANGED <<store, diskQueue, queue, writer, files, closed, overlap>>
  BY <1>1, <1>2, <1>7, BasicTypes, BasicFrame
<1>8. CASE bugDelete(b) /\ store[b] = None
  <2>1. UNCHANGED <<store, writer, files, overlap, queue, diskQueue, closed>>
    BY <1>8 DEF bugDelete
  <2> QED BY <1>1, <1>2, <2>1, BasicTypes, BasicFrame
<1>9. CASE bugDelete(b) /\ store[b] # None
  <2>1. /\ store' \in Stores /\ OpenTemp(b) /\ writer' \in [Writers -> WriterType \cup {Idle}]
        /\ overlap' \subseteq Bugs /\ UNCHANGED <<queue, diskQueue, closed>>
    BY <1>0, <1>9, DeleteIs
  <2>2. files' \in [Bugs -> Pair]
    BY <1>0, <2>1, OpenIs
  <2> QED BY <1>1, <1>2, <2>1, <2>2, BasicTypes, BasicFrame
<1> QED BY <1>3, <1>4, <1>5, <1>6, <1>7, <1>8, <1>9

\* The refresher and the fetch loop.
LEMMA FetchBasic ==
    ASSUME Basic, (\E b \in Bugs : Refresh(b)) \/ CollectBatch \/ Answer \/ FetchFails \/ Merge
    PROVE  Basic'
<1>0. TypeOK
  BY DEF Basic
<1>1. ASSUME NEW b \in Bugs, Refresh(b)
      PROVE  Basic'
  <2>1. queue' \in QueueType(Bugs)
    BY <1>0, <1>1, Types, AddType DEF Refresh
  <2> QED BY <1>1, <2>1, BasicTypes, BasicFrame DEF Refresh
<1>2. CASE CollectBatch
  BY <1>0, <1>2, BatchIs, BasicTypes, BasicFrame DEF CollectBatch
<1>3. CASE Answer
  BY <1>0, <1>3, AnswerIs, BasicTypes, BasicFrame DEF Answer, Fresh
<1>4. CASE FetchFails
  BY <1>0, <1>4, FailsIs, BasicTypes, BasicFrame DEF FetchFails, Fresh
<1>5. CASE Merge
  BY <1>0, <1>5, MergeIs, BasicTypes, BasicFrame DEF Merge, Unlocked
<1> QED BY <1>1, <1>2, <1>3, <1>4, <1>5

\* The writers.
LEMMA WriteBasic ==
    ASSUME Basic, RunGet \/ RunOpen \/ \E x \in Writers : Flush(x) \/ FlushFails(x) \/ Rename(x)
    PROVE  Basic'
<1>0. TypeOK
  BY DEF Basic
<1>1. CASE RunGet
  BY <1>0, <1>1, RunGetIs, BasicTypes, BasicFrame DEF RunGet
<1>2. CASE RunOpen
  <2>1. /\ writer["disk"].bug \in Bugs /\ OpenTemp(writer["disk"].bug)
        /\ writer' \in [Writers -> WriterType \cup {Idle}]
    BY <1>0, <1>2, RunOpenIs, WriterHas
  <2>2. files' \in [Bugs -> Pair]
    BY <1>0, <2>1, OpenIs
  <2> QED BY <1>2, <2>1, <2>2, BasicTypes, BasicFrame DEF RunOpen, memory
<1>3. ASSUME NEW x \in Writers, Flush(x)
      PROVE  Basic'
  <2>1. /\ writer[x] \in WriterType /\ writer[x].text \in Text
        /\ files' = WriteAt(writer[x], writer[x].text)
        /\ writer' \in [Writers -> WriterType \cup {Idle}]
    BY <1>0, <1>3, FlushIs, WriterHas
  <2>2. files' \in [Bugs -> Pair]
    BY <1>0, <2>1, WriteIs
  <2> QED BY <1>3, <2>1, <2>2, BasicTypes, BasicFrame DEF Flush, memory
<1>4. ASSUME NEW x \in Writers, FlushFails(x)
      PROVE  Basic'
  <2>1. files' \in [Bugs -> Pair] /\ writer' \in [Writers -> WriterType \cup {Idle}]
    BY <1>0, <1>4, FlushFailsIs
  <2>2. /\ count' \in [changes : 0..MaxChanges, faults : 0..MaxFaults, crashes : 0..MaxCrashes]
        /\ count'.changes = count.changes
    <3>1. count.faults < MaxFaults /\ count' = [count EXCEPT !.faults = @ + 1] /\ MaxFaults \in Nat
      BY <1>4, Distinct DEF FlushFails
    <3> QED BY <3>1, BasicTypes
  <2> QED BY <1>4, <2>1, <2>2, BasicTypes, BasicFrame DEF FlushFails, memory
<1>5. ASSUME NEW x \in Writers, Rename(x)
      PROVE  Basic'
  <2>1. /\ files' \in [Bugs -> Pair] /\ writer' \in [Writers -> WriterType \cup {Idle}]
        /\ queue' \in QueueType(Bugs)
    BY <1>0, <1>5, RenameIs
  <2>2. closed' \subseteq Bugs
    <3>1. writer[x].bug \in Bugs
      BY <1>0, <1>5, RenameIs, WriterHas
    <3> QED BY <1>5, <3>1, BasicTypes DEF Rename
  <2>3. process.up /\ UNCHANGED <<tracker, bug, events, store, fetch, diskQueue, process, count, overlap>>
    BY <1>5 DEF Rename
  <2> QED BY <2>1, <2>2, <2>3, BasicTypes, BasicFrame
<1> QED BY <1>1, <1>2, <1>3, <1>4, <1>5

\* The passing of time keeps the types.
LEMMA TimeBasic ==
    ASSUME Basic, TimePasses
    PROVE  Basic'
<1>0. TypeOK
  BY DEF Basic
<1>1. /\ store' \in Stores /\ fetch' \in FetchType \cup {NoFetch} /\ files' \in [Bugs -> Pair]
      /\ writer' \in [Writers -> WriterType \cup {Idle}]
      /\ fetch' = NoFetch <=> fetch = NoFetch
      /\ \A b \in Bugs : store'[b] = None <=> store[b] = None
      /\ \A x \in Writers : writer'[x] = Idle <=> writer[x] = Idle
      /\ UNCHANGED <<tracker, bug, events, queue, diskQueue, process, count, closed, overlap>>
  BY <1>0, TimeIs DEF TimePasses
<1>2. TypeOK'
  BY <1>0, <1>1 DEF TypeOK, Stores, Pair
<1>3. Down' /\ Counted'
  BY <1>1 DEF Basic, Down, Counted
<1> QED BY <1>2, <1>3 DEF Basic

\* A crash keeps the types and leaves no memory.
LEMMA CrashBasic ==
    ASSUME Basic, Crash
    PROVE  Basic'
<1>0. TypeOK
  BY DEF Basic
<1>1. /\ UNCHANGED <<tracker, bug, files, closed, overlap>> /\ events' = << >> /\ fetch' = NoFetch
      /\ store' = [b \in Bugs |-> None] /\ writer' = [w \in Writers |-> Idle]
      /\ queue' = NewQueue(Bugs) /\ diskQueue' = NewQueue(Bugs)
      /\ process' = [process EXCEPT !.up = FALSE]
      /\ count.crashes < MaxCrashes /\ count' = [count EXCEPT !.crashes = @ + 1]
  BY DEF Crash
<1>2. /\ count' \in [changes : 0..MaxChanges, faults : 0..MaxFaults, crashes : 0..MaxCrashes]
      /\ count'.changes = count.changes
  BY <1>1, BasicTypes, Distinct
<1>3. queue' \in QueueType(Bugs) /\ diskQueue' \in QueueType(Bugs)
  BY <1>1, NewQueueOK
<1>4. process' \in [up : BOOLEAN, disableWrite : BOOLEAN]
  BY <1>0, <1>1 DEF TypeOK
<1>5. TypeOK'
  BY <1>0, <1>1, <1>2, <1>3, <1>4 DEF TypeOK
<1>6. Down' /\ Counted'
  BY <1>1, <1>2 DEF Basic, Down, Counted
<1> QED BY <1>5, <1>6 DEF Basic

\* A start keeps the types.
LEMMA RestartBasic ==
    ASSUME Basic, Restart
    PROVE  Basic'
<1>0. TypeOK
  BY DEF Basic
<1>1. /\ process' \in [up : BOOLEAN, disableWrite : BOOLEAN] /\ events' \in Seq(Event)
      /\ UNCHANGED <<tracker, bug, queue, fetch, diskQueue, writer, count, closed, overlap>>
  BY <1>0, RestartIs
<1>2. store' \in Stores /\ files' \in [Bugs -> Pair]
  BY <1>0, RestartIs, SyncIs
<1>3. TypeOK'
  BY <1>0, <1>1, <1>2 DEF TypeOK, Stores, Pair
<1>4. process'.up = TRUE
  BY DEF Restart
<1>5. Down' /\ Counted'
  BY <1>1, <1>4 DEF Basic, Down, Counted
<1> QED BY <1>3, <1>5 DEF Basic

-----------------------------------------------------------------------------
(***************************************************************************)
(* The invariant, and what follows from it.                                *)
(***************************************************************************)
\* The invariant in three parts, and the types.
LEMMA IInvParts ==
    IInv <=> Basic /\ FilesOK /\ CommentsOK /\ EventsOK
  BY DEF IInv, Basic, FilesOK

\* The invariant holds of a store that has just been made.
LEMMA InitIInv ==
    Init => IInv
<1> SUFFICES ASSUME Init PROVE IInv
  OBVIOUS
<1>0. /\ events = << >> /\ fetch = NoFetch /\ closed = {} /\ overlap = {}
      /\ count = [changes |-> 0, faults |-> 0, crashes |-> 0]
      /\ bug = [b \in Bugs |-> [listed |-> FALSE, info |-> 0, comments |-> 1]]
      /\ store = [b \in Bugs |-> None] /\ writer = [w \in Writers |-> Idle]
      /\ files = [b \in Bugs |-> [temp |-> None, final |-> None]]
      /\ process \in [up : {TRUE}, disableWrite : BOOLEAN]
      /\ queue = NewQueue(Bugs) /\ diskQueue = NewQueue(Bugs)
      /\ tracker \in {"bugzilla", "jira"}
  BY DEF Init
<1>1. TypeOK
  <2>1. queue \in QueueType(Bugs) /\ diskQueue \in QueueType(Bugs)
    BY <1>0, NewQueueOK
  <2>2. bug \in [Bugs -> Data]
    BY <1>0, Distinct DEF Data
  <2>3. files \in [Bugs -> Pair] /\ store \in Stores
    BY <1>0 DEF Pair, Stores
  <2>4. count \in [changes : 0..MaxChanges, faults : 0..MaxFaults, crashes : 0..MaxCrashes]
    BY <1>0, Distinct
  <2>5. process \in [up : BOOLEAN, disableWrite : BOOLEAN]
    BY <1>0
  <2>6. events \in Seq(Event) /\ fetch \in FetchType \cup {NoFetch}
    BY <1>0
  <2>7. writer \in [Writers -> WriterType \cup {Idle}]
    BY <1>0
  <2> QED BY <1>0, <2>1, <2>2, <2>3, <2>4, <2>5, <2>6, <2>7 DEF TypeOK, Data, Pair, Stores
<1>2. Down /\ Counted
  BY <1>0 DEF Down, Counted
<1>3. FilesOK
  BY <1>0 DEF FilesOK, ClosesDeleted, Alone, ReadableUnlessOverlap, StaysClosed, DeletedSaysClosed,
              Unreadable, Writes, Writers
<1>4. CommentsOK
  BY <1>0 DEF CommentsOK, StoreShown, FilesShown, WritersShown, AnswerShown, Answered, Shows, Writes
<1>5. EventsOK
  <2>1. Len(events) = 0 /\ 1..0 = {}
    BY <1>0
  <2> QED BY <1>0, <2>1 DEF EventsOK, LastSays, UpdatesFind
<1> QED BY <1>1, <1>2, <1>3, <1>4, <1>5, IInvParts DEF Basic

\* Every step preserves the invariant.
LEMMA NextIInv ==
    IInv /\ [Next]_vars => IInv'
<1> SUFFICES ASSUME IInv, [Next]_vars PROVE IInv'
  OBVIOUS
<1>0. /\ Basic /\ FilesOK /\ CommentsOK /\ EventsOK
      /\ TypeOK /\ Down /\ Counted
  BY IInvParts DEF Basic
<1> DEFINE Good == Basic' /\ FilesOK' /\ CommentsOK' /\ EventsOK'
<1> SUFFICES Good
  BY DEF IInv, Basic, FilesOK
<1>1. ASSUME NEW b \in Bugs, TrackerChange(b)
      PROVE  Good
  <2>1. FilesOK'
    BY <1>0, <1>1, ChangeIs, FilesFrame DEF memory
  <2> QED BY <1>0, <1>1, <2>1, ChangeBasic, ChangeComments, ChangeEvents
<1>2. ASSUME NEW b \in Bugs, Refresh(b)
      PROVE  Good
  <2>1. UNCHANGED <<tracker, bug, events, store, fetch, files, writer, process, closed, overlap>>
    BY <1>2 DEF Refresh
  <2>2. FilesOK' /\ CommentsOK' /\ EventsOK'
    BY <1>0, <2>1, FilesFrame, CommentsFrame, ShownFrame, EventsFrame
  <2> QED BY <1>0, <1>2, <2>2, FetchBasic
<1>3. CASE Handle
  BY <1>0, <1>3, HandleBasic, HandleFiles, HandleComments, HandleEvents
<1>4. CASE CollectBatch
  <2>1. UNCHANGED <<tracker, bug, events, store, files, writer, process, closed, overlap>>
    BY <1>4 DEF CollectBatch
  <2>2. FilesOK' /\ EventsOK'
    BY <1>0, <2>1, FilesFrame, EventsFrame
  <2> QED BY <1>0, <1>4, <2>2, FetchBasic, BatchComments
<1>5. CASE Answer \/ FetchFails
  <2>1. UNCHANGED <<tracker, bug, events, store, files, writer, process, closed, overlap>>
    BY <1>5 DEF Answer, FetchFails
  <2>2. FilesOK' /\ EventsOK'
    BY <1>0, <2>1, FilesFrame, EventsFrame
  <2>3. fetch' = NoFetch \/ Fresh
    BY <1>0, <1>5, AnswerIs, FailsIs
  <2> QED BY <1>0, <1>5, <2>1, <2>2, <2>3, FetchBasic, FreshComments
<1>6. CASE Merge
  <2>1. UNCHANGED <<tracker, bug, events, files, writer, process, closed, overlap>>
    BY <1>6 DEF Merge
  <2>2. \A b \in Bugs : /\ store'[b] = None <=> store[b] = None
                        /\ store[b] # None => store'[b].info = store[b].info
    BY <1>0, <1>6, MergeIs
  <2>3. FilesOK' /\ EventsOK'
    BY <1>0, <2>1, <2>2, FilesFrame, EventsFrame
  <2> QED BY <1>0, <1>6, <2>3, FetchBasic, MergeComments
<1>7. CASE RunGet
  <2>1. EventsOK'
    BY <1>0, <1>7, EventsFrame DEF RunGet
  <2> QED BY <1>0, <1>7, <2>1, WriteBasic, RunGetFiles, RunGetComments
<1>8. CASE RunOpen
  <2>1. EventsOK'
    BY <1>0, <1>8, EventsFrame DEF RunOpen, memory
  <2> QED BY <1>0, <1>8, <2>1, WriteBasic, RunOpenFiles, RunOpenComments
<1>9. ASSUME NEW x \in Writers, Flush(x)
      PROVE  Good
  <2>1. EventsOK'
    BY <1>0, <1>9, EventsFrame DEF Flush, memory
  <2> QED BY <1>0, <1>9, <2>1, WriteBasic, FlushFiles, FlushComments
<1>10. ASSUME NEW x \in Writers, FlushFails(x)
       PROVE  Good
  <2>1. EventsOK'
    BY <1>0, <1>10, EventsFrame DEF FlushFails, memory
  <2> QED BY <1>0, <1>10, <2>1, WriteBasic, FlushFailsFiles, FlushFailsComments
<1>11. ASSUME NEW x \in Writers, Rename(x)
       PROVE  Good
  <2>1. UNCHANGED <<tracker, bug, events, process, store>>
    BY <1>11 DEF Rename
  <2>2. EventsOK'
    BY <1>0, <2>1, EventsFrame
  <2> QED BY <1>0, <1>11, <2>2, WriteBasic, RenameFiles, RenameComments
<1>12. CASE TimePasses
  <2>1. UNCHANGED <<tracker, bug, events, process>>
    BY <1>12 DEF TimePasses
  <2>2. EventsOK'
    BY <1>0, <1>12, <2>1, TimeIs, EventsFrame
  <2> QED BY <1>0, <1>12, <2>2, TimeBasic, TimeFiles, TimeComments
<1>13. CASE Crash
  <2>1. ~process'.up
    BY <1>0, <1>13 DEF Crash, TypeOK
  <2>2. EventsOK'
    BY <2>1 DEF EventsOK
  <2> QED BY <1>0, <1>13, <2>2, CrashBasic, CrashFiles, CrashComments
<1>14. CASE Restart
  BY <1>0, <1>14, RestartBasic, RestartFiles, RestartComments, RestartEvents
<1>15. CASE UNCHANGED vars
  <2>1. UNCHANGED <<tracker, bug, events, store, fetch, files, writer, process, closed, overlap, count,
                    queue, diskQueue>>
    BY <1>15 DEF vars, memory
  <2>2. FilesOK' /\ CommentsOK' /\ EventsOK'
    BY <1>0, <2>1, FilesFrame, CommentsFrame, ShownFrame, EventsFrame
  <2>3. Basic'
    BY <1>0, <2>1 DEF Basic, TypeOK, Down, Counted
  <2> QED BY <2>2, <2>3
<1> QED
  BY <1>1, <1>2, <1>3, <1>4, <1>5, <1>6, <1>7, <1>8, <1>9, <1>10, <1>11, <1>12, <1>13, <1>14, <1>15
     DEF Next

\* The inductive invariant holds in every state of every behaviour.
LEMMA Invariance == Spec => []IInv
  BY InitIInv, NextIInv, PTL DEF Spec

\* The state keeps its types: one bug per queued item, per file and per writer,
\* and counters within their bounds.
THEOREM TypeCorrect == Spec => []TypeOK
<1>1. IInv => TypeOK
  BY DEF IInv
<1> QED BY <1>1, Invariance, PTL

\* A file under its final name can be read, whatever fails and whenever the process
\* crashes, unless CloseBug and Run wrote the bug at the same time: write renames
\* only what it has written to the end.
THEOREM FilesAreReadable == Spec => []ReadableUnlessOverlap
<1>1. IInv => ReadableUnlessOverlap
  BY DEF IInv
<1> QED BY <1>1, Invariance, PTL

\* The file of a bug that CloseBug has written says closed until the bug is listed
\* again, unless Run was writing it at that moment: Run writes bugs of the store
\* only, and Sync does not load what is closed.
THEOREM ClosedIsOnDisk == Spec => []DeletedSaysClosed
<1>1. IInv => DeletedSaysClosed
  BY DEF IInv
<1> QED BY <1>1, Invariance, PTL

\* With no event left to handle, the store of bugzilla has every listed bug with
\* the information that the informer has.
THEOREM InfoFollowsInformer == Spec => []BugInfoFollowsInformer
<1>1. IInv => BugInfoFollowsInformer
  <2> SUFFICES ASSUME IInv, tracker = "bugzilla", HandledAll, NEW b \in Bugs, bug[b].listed
               PROVE  store[b] # None /\ store[b].info = lister[b]
    BY DEF BugInfoFollowsInformer, InfoFollows
  <2>1. Len(events) = 0 /\ 1..0 = {}
    BY DEF HandledAll
  <2>2. LastSays(b)
    BY DEF IInv, EventsOK, HandledAll
  <2>3. store[b] # None /\ store[b].info = Full(bug[b].info)
    BY <2>1, <2>2 DEF LastSays, NoneIn
  <2> QED BY <2>3 DEF lister, Full
<1> QED BY <1>1, Invariance, PTL

\* The comments that an entry of the store loses in a step: none.
LEMMA StepKeepsComments ==
    ASSUME IInv, Next, NEW b \in Bugs, store[b] # None, store'[b] # None
    PROVE  store[b].comments \ {Hidden} \subseteq store'[b].comments
<1>0. TypeOK /\ Down /\ AnswerShown
  BY DEF IInv, CommentsOK
<1>1. CASE Handle
  <2>1. PICK e \in Event :
           \/ bugAdd(e.bug, e.info)
           \/ SetInfo(e.bug, e.info)
           \/ SetInfo(e.bug, e.old)
           \/ UNCHANGED <<store, diskQueue, queue, writer, files, closed, overlap>>
           \/ bugDelete(e.bug)
    BY <1>0, <1>1, HandleIs
  <2>2. PICK c \in Bugs, new \in 0..MaxChanges, old \in 0..MaxChanges :
           c = e.bug /\ new = e.info /\ old = e.old
    BY EventIs
  <2>3. CASE bugAdd(c, new)
    BY <1>0, <2>3, AddIs
  <2>4. CASE SetInfo(c, new) \/ SetInfo(c, old)
    BY <1>0, <2>4, SetIs
  <2>5. CASE bugDelete(c)
    <3>1. CASE store[c] = None
      BY <2>5, <3>1 DEF bugDelete
    <3>2. CASE store[c] # None
      BY <1>0, <2>5, <3>2, DeleteIs
    <3> QED BY <3>1, <3>2
  <2> QED BY <2>1, <2>2, <2>3, <2>4, <2>5
<1>2. CASE Merge
  <2>1. /\ fetch # NoFetch /\ fetch.pc = "answered"
        /\ \/ store'[b].comments = store[b].comments
           \/ b \in fetch.ids /\ store'[b].comments = fetch.answer[b]
    BY <1>0, <1>2, MergeIs
  <2> QED BY <1>0, <2>1 DEF AnswerShown, Answered
<1>3. CASE TimePasses
  BY <1>0, <1>3, TimeIs
<1>4. CASE Crash
  BY <1>4 DEF Crash
<1>5. CASE Restart
  BY <1>0, <1>5 DEF Restart, Down
<1>6. ASSUME NEW c \in Bugs, TrackerChange(c) \/ Refresh(c)
      PROVE  store' = store
  BY <1>6 DEF TrackerChange, Refresh, memory
<1>7. CASE CollectBatch \/ Answer \/ FetchFails \/ RunGet \/ RunOpen
  <2>1. store' = store
    BY <1>7 DEF CollectBatch, Answer, FetchFails, RunGet, RunOpen, memory
  <2> QED BY <2>1
<1>8. ASSUME NEW x \in Writers, Flush(x) \/ FlushFails(x) \/ Rename(x)
      PROVE  store' = store
  BY <1>8 DEF Flush, FlushFails, Rename, memory
<1> QED BY <1>1, <1>2, <1>3, <1>4, <1>5, <1>6, <1>7, <1>8 DEF Next

\* An entry that stays in the store loses no comment: what a merge brings is the
\* answer to the only request under way, and comments are not taken back.
THEOREM CommentsAreKept == Spec => KeepsComments
<1> DEFINE Keeps == \A b \in Bugs : store[b] # None /\ store'[b] # None =>
                       store[b].comments \ {Hidden} \subseteq store'[b].comments
<1>1. IInv /\ [Next]_vars => [Keeps]_vars
  <2> SUFFICES ASSUME IInv, Next PROVE Keeps
    OBVIOUS
  <2> QED BY StepKeepsComments
<1>2. Spec => [][Keeps]_vars
  BY <1>1, Invariance, PTL DEF Spec
<1> QED BY <1>2 DEF KeepsComments
=============================================================================

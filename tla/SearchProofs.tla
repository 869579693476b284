---------------------------- MODULE SearchProofs ----------------------------
(***************************************************************************)
(* Theorems about Search, for any files, requests and limits, and any      *)
(* number of changes and reloads beside the search.                        *)
(*                                                                         *)
(* ShapeOK is what all of them rest on: the index has no file twice and is *)
(* sorted, the search, its request and its page have their types, and      *)
(* nothing of a command is left when the next one starts.  Each theorem    *)
(* adds the part of the inductive invariant that is its own:               *)
(*   - panics: what could be read all the time can be read (Readable), and *)
(*     output of a bug or an issue is of a file that is there, as long as  *)
(*     nobody changes one (Touched), so a panic has a cause (PanicCause);  *)
(*   - the limit on bytes: no file gives more lines than ripgrep writes    *)
(*     for it (Searched), and the account of the bytes left follows what   *)
(*     was sent, over commands and patterns (Budget);                      *)
(*   - groups: they hold the matches sent so far, each at one place, under *)
(*     its own key and number (GroupsOK);                                  *)
(*   - completeness: no file is below two of the paths to come (Apart), so *)
(*     what was sent, captured and is to be read of a file is all of its   *)
(*     output or, while it waits for its command, nothing (FoundSoFar);    *)
(*     and what a finished pattern found it keeps (FoundBefore).           *)
(***************************************************************************)
EXTENDS Search, OperatorProofs

-----------------------------------------------------------------------------
(* The inductive invariant, part by part.                                  *)

Aged == [file : JobFiles, age : 1..MaxTime]

\* The files, the walk and the index: no file twice, newest first.
WorldOK ==
    /\ now \in 1..MaxTime /\ disk \in [Files -> 0..MaxTime] /\ maxAge \in Nat
    /\ \A f \in broken : f \in Files /\ IsTracker(f)
    /\ loader \in [pc : {"idle", "walk"}, start : Nat, todo : SUBSET JobFiles, found : SUBSET Aged]
    /\ \A p, q \in loader.found : p.file = q.file => p = q
    /\ \A p \in loader.found : p.file \notin loader.todo
    /\ index \in Seq(Aged)
    /\ \A i, j \in DOMAIN index : i < j => index[i].file # index[j].file /\ index[i].age >= index[j].age

\* Initially there is nothing.
LEMMA InitWorld == Init => WorldOK
<1> SUFFICES ASSUME Init PROVE WorldOK
  OBVIOUS
<1>1. now \in 1..MaxTime
  BY SearchAssumption DEF Init
<1>2. disk \in [Files -> 0..MaxTime] /\ maxAge \in Nat
  BY SearchAssumption DEF Init
<1>3. loader = [pc |-> "idle", start |-> 0, todo |-> {}, found |-> {}] /\ index = << >>
  BY DEF Init, NoLoader
<1>4. \A f \in broken : f \in Files /\ IsTracker(f)
  BY SearchAssumption DEF Init, IsTracker
<1> QED BY <1>1, <1>2, <1>3, <1>4 DEF WorldOK

\* The walk and the changes of others keep it.
LEMMA StepWorld == WorldOK /\ [Next]_vars => WorldOK'
<1> SUFFICES ASSUME WorldOK, [Next]_vars PROVE WorldOK'
  OBVIOUS
<1>1. CASE Tick
  <2>1. now' \in 1..MaxTime
    BY <1>1, SearchAssumption DEF Tick, WorldOK
  <2> QED BY <1>1, <2>1 DEF Tick, WorldOK, IsTracker
<1>2. CASE \E f \in Files : Change(f)
  <2>1. PICK f \in Files : Change(f)
    BY <1>2
  <2>2. now \in 0..MaxTime /\ 0 \in 0..MaxTime
    BY SearchAssumption DEF WorldOK
  <2>3. disk' = [disk EXCEPT ![f] = now] \/ disk' = [disk EXCEPT ![f] = 0]
    BY <2>1 DEF Change
  <2>4. disk' \in [Files -> 0..MaxTime]
    BY <2>2, <2>3 DEF WorldOK
  <2>5. UNCHANGED <<now, maxAge, loader, index>>
    BY <2>1 DEF Change
  <2>6. broken' = broken \ {f} \/ (IsTracker(f) /\ broken' = broken \cup {f})
    BY <2>1 DEF Change
  <2>7. \A g \in broken' : g \in Files /\ IsTracker(g)
    BY <2>6 DEF WorldOK
  <2> QED BY <2>4, <2>5, <2>7 DEF WorldOK, IsTracker
<1>3. CASE Load
  <2>1. /\ loader' = [pc |-> "walk", start |-> now, todo |-> JobFiles, found |-> {}]
        /\ UNCHANGED <<now, disk, maxAge, broken, index>>
    BY <1>3 DEF Load
  <2>2. now \in Nat
    BY DEF WorldOK
  <2> QED BY <2>1, <2>2 DEF WorldOK, IsTracker
<1>4. CASE \E f \in Files : Visit(f)
  <2>1. PICK f \in Files : Visit(f)
    BY <1>4
  <2> DEFINE gone == disk[f] = 0 \/ Expired(f)
             new == IF gone THEN loader.found
                    ELSE loader.found \cup {[file |-> f, age |-> disk[f]]}
  <2>2. /\ f \in loader.todo
        /\ loader' = [loader EXCEPT !.todo = @ \ {f}, !.found = new]
        /\ UNCHANGED <<now, maxAge, broken, index>>
        /\ disk' = disk \/ disk' = [disk EXCEPT ![f] = 0]
    BY <2>1 DEF Visit
  <2>3. disk' \in [Files -> 0..MaxTime]
    <3>1. 0 \in 0..MaxTime
      BY SearchAssumption
    <3> QED BY <2>2, <3>1 DEF WorldOK
  <2>4. disk[f] \in 0..MaxTime /\ f \in JobFiles
    BY <2>2 DEF WorldOK
  <2>5. ~gone => disk[f] \in 1..MaxTime
    BY <2>4, SearchAssumption
  <2>6. new \subseteq Aged
    BY <2>4, <2>5 DEF WorldOK, Aged
  <2>7. /\ loader'.found = new /\ loader'.todo = loader.todo \ {f}
        /\ loader' \in [pc : {"idle", "walk"}, start : Nat, todo : SUBSET JobFiles,
                        found : SUBSET Aged]
    <3> HIDE DEF new
    <3> QED BY <2>2, <2>6 DEF WorldOK
  <2>8. \A p \in new : p \in loader.found \/ (p.file = f /\ p = [file |-> f, age |-> disk[f]])
    OBVIOUS
  <2>9. \A p, q \in new : p.file = q.file => p = q
    BY <2>2, <2>8 DEF WorldOK
  <2>10. \A p \in new : p.file \notin loader.todo \ {f}
    BY <2>8 DEF WorldOK
  <2> HIDE DEF new, gone
  <2> QED BY <2>2, <2>3, <2>7, <2>9, <2>10 DEF WorldOK, IsTracker
<1>5. CASE Publish
  <2>1. /\ index' \in Newest(loader.found) /\ loader' = NoLoader
        /\ UNCHANGED <<now, disk, maxAge, broken>>
    BY <1>5 DEF Publish
  <2>2. /\ index' \in [1..Cardinality(loader.found) -> loader.found]
        /\ \A i, j \in DOMAIN index' : i < j => index'[i] # index'[j] /\ index'[i].age >= index'[j].age
    BY <2>1 DEF Newest
  <2>3. IsFiniteSet(loader.found)
    <3> DEFINE fileOf == [p \in loader.found |-> p.file]
    <3>1. fileOf \in Injection(loader.found, Files)
      BY DEF WorldOK, Aged, JobFiles, Injection, IsInjective
    <3> QED BY <3>1, SearchAssumption, FS_Injection
  <2>4. Cardinality(loader.found) \in Nat
    BY <2>3, FS_CardinalityType
  <2>5. loader.found \subseteq Aged
    BY DEF WorldOK
  <2>6. index' \in Seq(Aged)
    BY <2>2, <2>4, <2>5
  <2>7. \A i \in DOMAIN index' : index'[i] \in loader.found
    BY <2>2
  <2>8. \A i, j \in DOMAIN index' : i < j => index'[i].file # index'[j].file
    BY <2>2, <2>7 DEF WorldOK
  <2>9. loader' = [pc |-> "idle", start |-> 0, todo |-> {}, found |-> {}]
    BY <2>1 DEF NoLoader
  <2> QED BY <2>1, <2>2, <2>6, <2>8, <2>9 DEF WorldOK, IsTracker
<1>6. CASE Request \/ SearchStep \/ UNCHANGED vars
  <2>1. UNCHANGED <<now, disk, maxAge, broken, loader, index>>
    BY <1>6 DEF Request, SearchStep, Command, StartBatch, NextSearch, ReadLine, ReadEOF, Render,
                Recover, Close, RgSearches, RgFails, vars
  <2> QED BY <2>1 DEF WorldOK, IsTracker
<1> QED BY <1>1, <1>2, <1>3, <1>4, <1>5, <1>6 DEF Next, LoadStep
-----------------------------------------------------------------------------
(* The types of the search in progress.                                    *)

PathType == JobFiles \cup {Dir(k) : k \in Trackers}
LineType == {{}} \cup {{f} : f \in Files}
SearchType ==
    [pc : {"idle", "command", "batch", "read", "done"} \cup Ends, search : Nat, start : Nat,
     paths : Seq(PathType), all : BOOLEAN, left : Int, todo : SUBSET Files,
     lines : Seq(LineType), any : BOOLEAN, name : LineType, line : Nat, bytes : Nat]
MatchType == [search : Nat, file : Files, shown : Nat, more : Nat, age : Nat]
WantedType == [files : SUBSET Files, sound : SUBSET Files, indexed : BOOLEAN]

Going == s.pc \in {"command", "batch", "read", "ok", "max-bytes", "failed", "panic"}
Finished == {"ok", "max-bytes", "failed"}
Answered == page.end \in Finished \cup {"panic"}

\* A request that is neither being answered nor bad, after parseRequest.
QueryType ==
    {q \in RequestType : /\ q.maxBytes > 0 /\ q.maxMatches > 0
                         /\ \A f \in Files : q.hits[f] \in Seq({{}, {f}})}

TypesOK ==
    /\ s \in SearchType /\ sent \in Seq(MatchType) /\ wanted \in Seq(WantedType) /\ changes \in Nat
    /\ Going \/ Answered => query \in QueryType

\* The page has an end only when the search is over, and a row only if something
\* was sent.
PageOK ==
    /\ page = [end |-> page.end, groups |-> page.groups, rows |-> page.rows]
    /\ page.end \in Ends
    /\ page.rows = [last |-> page.rows.last, drop |-> page.rows.drop, w |-> page.rows.w]
    /\ page.rows.last # {} => sent # << >>
    /\ s.pc = "idle" => s = NoSearch /\ sent = << >> /\ page = NoPage /\ wanted = << >>
    /\ s.pc # "done" => page.end = "none"

\* Nothing is left of a command between two commands, and lines are captured only
\* of a file that was named in what was read.
Steady ==
    /\ s.pc \in {"command", "batch", "ok"} =>
         s.todo = {} /\ s.lines = << >> /\ s.name = {} /\ s.line = 0 /\ s.bytes = 0
    /\ s.line > 0 => s.name # {}
    /\ s.bytes = 0 => s.name = {}

\* How far the search is: the patterns whose turn has come.
StageOK ==
    /\ Going \/ Answered =>
         /\ s.search > 0
         /\ Len(wanted) = IF s.pc = "command" THEN s.search - 1 ELSE s.search
         /\ \A i \in DOMAIN sent : sent[i].search \in 1..Len(wanted)
    /\ Steady

\* What no file that was there all the time lacks.
Alive == \A n \in DOMAIN wanted : \A f \in wanted[n].files : disk[f] > 0

ShapeOK == WorldOK /\ TypesOK /\ PageOK /\ StageOK /\ Alive

\* Initially there is no search.
LEMMA InitShape == Init => ShapeOK
<1> SUFFICES ASSUME Init PROVE ShapeOK
  OBVIOUS
<1>1. s = NoSearch /\ sent = << >> /\ wanted = << >> /\ changes = 0 /\ page = NoPage
  BY DEF Init
<1>2. s \in SearchType
  BY <1>1 DEF NoSearch, SearchType, LineType
<1>3. s.pc = "idle" /\ s.line = 0 /\ s.bytes = 0 /\ s.name = {}
  BY <1>1 DEF NoSearch
<1>4. /\ page.end = "none" /\ page.rows.last = {}
      /\ page = [end |-> page.end, groups |-> page.groups, rows |-> page.rows]
      /\ page.rows = [last |-> page.rows.last, drop |-> page.rows.drop, w |-> page.rows.w]
  BY <1>1 DEF NoPage
<1>5. TypesOK
  BY <1>1, <1>2, <1>3, <1>4 DEF TypesOK, Going, Answered, Finished
<1>6. PageOK
  BY <1>1, <1>3, <1>4 DEF PageOK, Ends
<1>7. StageOK
  BY <1>1, <1>3, <1>4 DEF StageOK, Steady, Going, Answered, Finished
<1>8. Alive
  BY <1>1 DEF Alive
<1> QED BY <1>5, <1>6, <1>7, <1>8, InitWorld DEF ShapeOK

\* Steps of others: time, changes of files, the walk.
Elsewhere == Tick \/ LoadStep \/ \E f \in Files : Change(f)

\* They leave the search alone, except that files go away.
LEMMA ElsewhereIs ==
    ASSUME ShapeOK, Elsewhere
    PROVE  /\ UNCHANGED <<s, query, sent, page, maxAge, known>>
           /\ wanted' \in Seq(WantedType) /\ Len(wanted') = Len(wanted)
           /\ \A n \in 1..Len(wanted) : /\ wanted'[n].indexed = wanted[n].indexed
                                        /\ wanted'[n].files \subseteq wanted[n].files
                                        /\ wanted'[n].sound \subseteq wanted[n].sound
           /\ Alive'
           /\ changes' \in Nat /\ changes' >= changes /\ (broken' = broken \/ changes' > 0)
           /\ \A f \in Files : IsTracker(f) /\ disk[f] > 0 /\ ~(disk'[f] > 0) => changes' > 0
<1>0. /\ wanted \in Seq(WantedType) /\ changes \in Nat /\ Alive
      /\ disk \in [Files -> 0..MaxTime] /\ now \in 1..MaxTime
      /\ Len(wanted) \in Nat /\ DOMAIN wanted = 1..Len(wanted)
      /\ \A n \in 1..Len(wanted) : wanted[n] \in WantedType
  BY DEF ShapeOK, TypesOK, WorldOK
<1>1. ASSUME NEW f \in Files, wanted' = Without(f), disk' = [disk EXCEPT ![f] = 0]
      PROVE  /\ wanted' \in Seq(WantedType) /\ Len(wanted') = Len(wanted)
             /\ \A n \in 1..Len(wanted) : /\ wanted'[n].indexed = wanted[n].indexed
                                          /\ wanted'[n].files \subseteq wanted[n].files
                                          /\ wanted'[n].sound \subseteq wanted[n].sound
             /\ Alive'
  <2>1. wanted' = [n \in 1..Len(wanted) |->
                      [wanted[n] EXCEPT !.files = @ \ {f}, !.sound = @ \ {f}]]
    BY <1>0, <1>1 DEF Without
  <2>2. \A n \in 1..Len(wanted) : /\ wanted'[n] \in WantedType
                                  /\ wanted'[n].indexed = wanted[n].indexed
                                  /\ wanted'[n].files = wanted[n].files \ {f}
                                  /\ wanted'[n].sound = wanted[n].sound \ {f}
    BY <1>0, <2>1 DEF WantedType
  <2>3. DOMAIN wanted' = 1..Len(wanted) /\ wanted' \in [1..Len(wanted) -> WantedType]
    BY <2>1, <2>2
  <2>4. wanted' \in Seq(WantedType) /\ Len(wanted') = Len(wanted)
    BY <1>0, <2>3
  <2>5. \A n \in 1..Len(wanted) : \A g \in wanted'[n].files : g \in Files /\ disk'[g] > 0
    <3> SUFFICES ASSUME NEW n \in 1..Len(wanted), NEW g \in wanted'[n].files
                 PROVE  g \in Files /\ disk'[g] > 0
      OBVIOUS
    <3>1. g \in wanted[n].files /\ g # f /\ g \in Files
      BY <1>0, <2>2 DEF WantedType
    <3> QED BY <1>0, <1>1, <3>1 DEF Alive
  <2> QED BY <2>2, <2>3, <2>4, <2>5 DEF Alive
<1>2. ASSUME wanted' = wanted, disk' = disk
      PROVE  /\ wanted' \in Seq(WantedType) /\ Len(wanted') = Len(wanted)
             /\ \A n \in 1..Len(wanted) : /\ wanted'[n].indexed = wanted[n].indexed
                                          /\ wanted'[n].files \subseteq wanted[n].files
                                          /\ wanted'[n].sound \subseteq wanted[n].sound
             /\ Alive'
  BY <1>0, <1>2 DEF Alive
<1>3. CASE Tick \/ Load \/ Publish
  <2>1. UNCHANGED <<s, query, sent, page, maxAge, known, broken, disk, wanted, changes>>
    BY <1>3 DEF Tick, Load, Publish
  <2> QED BY <1>0, <1>2, <2>1
<1>4. CASE \E f \in Files : Visit(f)
  <2>1. PICK f \in Files : Visit(f)
    BY <1>4
  <2>2. /\ UNCHANGED <<s, query, sent, page, maxAge, known, broken, changes>>
        /\ f \in loader.todo
        /\ (disk' = disk /\ wanted' = wanted) \/ (disk' = [disk EXCEPT ![f] = 0] /\ wanted' = Without(f))
    BY <2>1 DEF Visit
  <2>3. ~IsTracker(f)
    BY <2>2 DEF ShapeOK, WorldOK, JobFiles
  <2>4. \A g \in Files : IsTracker(g) => disk'[g] = disk[g]
    BY <1>0, <2>2, <2>3
  <2> QED BY <1>0, <1>1, <1>2, <2>2, <2>4
<1>5. CASE \E f \in Files : Change(f)
  <2>1. PICK f \in Files : Change(f)
    BY <1>5
  <2>2. /\ UNCHANGED <<s, query, sent, page, maxAge, known>> /\ changes' = changes + 1
        /\ \/ disk' = [disk EXCEPT ![f] = now] /\ wanted' = wanted
           \/ disk' = [disk EXCEPT ![f] = now] /\ wanted' = Unsound(f)
           \/ disk' = [disk EXCEPT ![f] = 0] /\ wanted' = Without(f)
    BY <2>1 DEF Change
  <2>3. changes' \in Nat /\ changes' > 0 /\ changes' >= changes
    BY <1>0, <2>2
  <2>4. CASE disk' = [disk EXCEPT ![f] = 0] /\ wanted' = Without(f)
    BY <1>1, <2>2, <2>3, <2>4
  <2>6. CASE disk' = [disk EXCEPT ![f] = now] /\ wanted' = Unsound(f)
    <3>1. wanted' = [n \in 1..Len(wanted) |-> [wanted[n] EXCEPT !.sound = @ \ {f}]]
      BY <1>0, <2>6 DEF Unsound
    <3>2. \A n \in 1..Len(wanted) : /\ wanted'[n] \in WantedType
                                    /\ wanted'[n].indexed = wanted[n].indexed
                                    /\ wanted'[n].files = wanted[n].files
                                    /\ wanted'[n].sound = wanted[n].sound \ {f}
      BY <1>0, <3>1 DEF WantedType
    <3>3. DOMAIN wanted' = 1..Len(wanted) /\ wanted' \in [1..Len(wanted) -> WantedType]
      BY <3>1, <3>2
    <3>4. wanted' \in Seq(WantedType) /\ Len(wanted') = Len(wanted)
      BY <1>0, <3>3
    <3>5. \A g \in Files : disk[g] > 0 => disk'[g] > 0
      BY <1>0, <2>6
    <3>6. \A n \in 1..Len(wanted) : \A g \in wanted[n].files : g \in Files
      BY <1>0 DEF WantedType
    <3>7. Alive'
      BY <1>0, <3>2, <3>3, <3>5, <3>6 DEF Alive
    <3> QED BY <1>0, <2>2, <2>3, <3>2, <3>4, <3>5, <3>7
  <2>5. CASE disk' = [disk EXCEPT ![f] = now] /\ wanted' = wanted
    <3>1. \A g \in Files : disk[g] > 0 => disk'[g] > 0
      BY <1>0, <2>5
    <3>2. \A n \in DOMAIN wanted : \A g \in wanted[n].files : g \in Files
      BY <1>0 DEF WantedType
    <3>3. Alive'
      BY <1>0, <2>5, <3>1, <3>2 DEF Alive
    <3> QED BY <1>0, <2>2, <2>3, <2>5, <3>3
  <2> QED BY <2>2, <2>4, <2>5, <2>6
<1> QED BY <1>3, <1>4, <1>5 DEF Elsewhere, LoadStep
-----------------------------------------------------------------------------
(* What each step of a search does.                                        *)

\* No search is a search.
LEMMA NoSearchType == NoSearch \in SearchType
<1>1. {} \in LineType /\ << >> \in Seq(PathType) /\ << >> \in Seq(LineType)
  BY DEF LineType
<1> QED BY <1>1 DEF NoSearch, SearchType

\* A response without a search.
LEMMA RespondIs ==
    ASSUME NEW e \in Ends, Respond(e)
    PROVE  /\ s' \in SearchType /\ s'.pc = "done" /\ s'.line = 0 /\ s'.bytes = 0 /\ s'.name = {}
           /\ s'.search = 0
           /\ page' = [end |-> e, groups |-> << >>, rows |-> NoPage.rows]
<1>1. s' = [NoSearch EXCEPT !.pc = "done"]
  BY DEF Respond
<1>2. s' \in SearchType
  BY <1>1, NoSearchType DEF SearchType
<1>3. page' = [NoPage EXCEPT !.end = e]
  BY DEF Respond
<1>4. page' = [end |-> e, groups |-> << >>, rows |-> NoPage.rows]
  BY <1>3 DEF NoPage
<1> QED BY <1>1, <1>2, <1>4 DEF NoSearch

\* A good request, after parseRequest, has limits.
LEMMA ParsedIs ==
    ASSUME WorldOK, NEW r \in Requests, ~IsBad(r)
    PROVE  parseRequest(r) \in QueryType
<1>1. /\ r \in RequestType /\ maxAge \in Nat /\ DefaultMaxAge \in Int /\ DefaultMaxBytes \in Nat \ {0}
      /\ \A f \in Files : r.hits[f] \in Seq({{}, {f}})
  <2>1. maxAge \in Nat
    BY DEF WorldOK
  <2>2. Requests \subseteq RequestType
    BY SearchAssumption
  <2>3. r \in RequestType
    BY <2>2
  <2>4. DefaultMaxAge \in Int /\ DefaultMaxBytes \in Nat \ {0}
    BY SearchAssumption
  <2>5. \A f \in Files : r.hits[f] \in Seq({{}, {f}})
    BY SearchAssumption, Zenon
  <2> QED BY <2>1, <2>3, <2>4, <2>5
<1>2. r.maxBytes \in Int /\ r.maxBytes >= 0 /\ r.maxMatches \in Int /\ r.maxAge \in Int
  BY <1>1 DEF IsBad, RequestType
<1> DEFINE age == IF r.maxAge = 0 THEN DefaultMaxAge ELSE r.maxAge
           a == IF age > maxAge THEN maxAge ELSE age
           b == IF r.maxBytes = 0 THEN DefaultMaxBytes ELSE r.maxBytes
           m == IF r.mode # "json" /\ r.context < 0 THEN 1
                ELSE IF r.maxMatches > 0 THEN r.maxMatches
                ELSE IF r.mode = "json" THEN 1 ELSE 5
<1>3. a \in Int /\ b \in Int /\ b > 0 /\ m \in Int /\ m > 0
  BY <1>1, <1>2
<1>4. parseRequest(r) = [r EXCEPT !.maxAge = a, !.maxBytes = b, !.maxMatches = m]
  BY DEF parseRequest
<1> HIDE DEF age, a, b, m
<1>5. /\ parseRequest(r) \in RequestType
      /\ parseRequest(r).maxBytes = b /\ parseRequest(r).maxMatches = m
      /\ parseRequest(r).hits = r.hits
  BY <1>1, <1>3, <1>4 DEF RequestType
<1> QED BY <1>1, <1>3, <1>5 DEF QueryType

\* Request starts the first pattern, or ends at once.
LEMMA RequestIs ==
    ASSUME ShapeOK, Request
    PROVE  /\ UNCHANGED <<now, disk, maxAge, known, index, loader, sent, wanted, changes>>
           /\ sent = << >> /\ wanted = << >>
           /\ \/ /\ s' \in SearchType /\ s'.pc = "done" /\ s'.line = 0 /\ s'.bytes = 0 /\ s'.name = {}
                 /\ \E e \in {"bad", "empty"} :
                       page' = [end |-> e, groups |-> << >>, rows |-> NoPage.rows]
              \/ /\ s' = [NoSearch EXCEPT !.pc = "command", !.search = 1, !.start = now]
                 /\ s' \in SearchType
                 /\ page' = NoPage /\ query' \in QueryType
<1>1. PICK r \in Requests :
        /\ query' = parseRequest(r)
        /\ IF IsBad(r) THEN Respond("bad")
           ELSE IF r.searches = 0 THEN Respond("empty")
           ELSE /\ s' = [NoSearch EXCEPT !.pc = "command", !.search = 1, !.start = now]
                /\ UNCHANGED page
  BY DEF Request
<1>2. s.pc = "idle" /\ UNCHANGED <<now, disk, maxAge, known, index, loader, sent, wanted, changes>>
  BY DEF Request
<1>3. sent = << >> /\ wanted = << >> /\ page = NoPage /\ now \in Nat
  BY <1>2 DEF ShapeOK, PageOK, WorldOK
<1>4. CASE IsBad(r)
  <2>1. Respond("bad") /\ "bad" \in Ends
    BY <1>1, <1>4 DEF Ends
  <2> QED BY <1>2, <1>3, <2>1, RespondIs
<1>5. CASE ~IsBad(r) /\ r.searches = 0
  <2>1. Respond("empty") /\ "empty" \in Ends
    BY <1>1, <1>5 DEF Ends
  <2> QED BY <1>2, <1>3, <2>1, RespondIs
<1>6. CASE ~IsBad(r) /\ r.searches # 0
  <2>1. s' = [NoSearch EXCEPT !.pc = "command", !.search = 1, !.start = now] /\ page' = page
    BY <1>1, <1>6
  <2>2. query' \in QueryType
    BY <1>1, <1>6, ParsedIs DEF ShapeOK
  <2>3. s' \in SearchType
    BY <1>3, <2>1, NoSearchType DEF SearchType
  <2> QED BY <1>2, <1>3, <2>1, <2>2, <2>3
<1> QED BY <1>4, <1>5, <1>6

\* The directories of bugs and issues, one each.
LEMMA DirectoriesIs ==
    ASSUME NEW type
    PROVE  /\ Directories(type) \in Seq({Dir(k) : k \in Trackers})
           /\ {Directories(type)[i] : i \in DOMAIN Directories(type)}
                = {Dir(k) : k \in TrackersFor(type) \cap Enabled \cap Trackers}
           /\ \A i, j \in DOMAIN Directories(type) :
                 Directories(type)[i] = Directories(type)[j] => i = j
<1> DEFINE has(k) == IF k \in TrackersFor(type) \cap Enabled THEN <<Dir(k)>> ELSE << >>
           D == {Dir(k) : k \in Trackers}
           T == TrackersFor(type) \cap Enabled
           d == Directories(type)
<1>1. d = has("bug") \o has("issue")
  BY DEF Directories
<1>2. Trackers = {"bug", "issue"} /\ Dir("bug") # Dir("issue")
  BY DEF Trackers, Dir
<1>3. CASE "bug" \in T /\ "issue" \in T
  <2>1. d = <<Dir("bug")>> \o <<Dir("issue")>>
    BY <1>1, <1>3
  <2> DEFINE x == <<Dir("bug")>>
             y == <<Dir("issue")>>
  <2>a. x \in Seq(D) /\ y \in Seq(D) /\ Len(x) = 1 /\ Len(y) = 1
    BY <1>2
  <2>b. x \o y \in Seq(D) /\ Len(x \o y) = 2 /\ (x \o y)[1] = Dir("bug") /\ (x \o y)[2] = Dir("issue")
    BY <2>a
  <2>2. d \in Seq(D) /\ Len(d) = 2 /\ d[1] = Dir("bug") /\ d[2] = Dir("issue")
    BY <2>1, <2>b
  <2> QED BY <1>2, <1>3, <2>2
<1>4. CASE "bug" \in T /\ "issue" \notin T
  <2>1. d = <<Dir("bug")>> \o << >>
    BY <1>1, <1>4
  <2>2. d = <<Dir("bug")>>
    BY <2>1
  <2> QED BY <1>2, <1>4, <2>2
<1>5. CASE "bug" \notin T /\ "issue" \in T
  <2>1. d = << >> \o <<Dir("issue")>>
    BY <1>1, <1>5
  <2>2. d = <<Dir("issue")>>
    BY <2>1
  <2> QED BY <1>2, <1>5, <2>2
<1>6. CASE "bug" \notin T /\ "issue" \notin T
  <2>1. d = << >> \o << >>
    BY <1>1, <1>6
  <2>2. d = << >>
    BY <2>1
  <2> QED BY <1>2, <1>6, <2>2
<1> QED BY <1>3, <1>4, <1>5, <1>6

\* The positions in the index of the paths to be searched.
Taken ==
    {i \in DOMAIN index : /\ \A j \in 1..i : query.maxAge = 0 \/ index[j].age >= now - query.maxAge
                          /\ index[i].file.kind \in FilenamesForSearchType(query.type)
                          /\ JobFilter(index[i].file.name)}

\* SearchPaths are the files there, none twice.
LEMMA SearchPathsIs ==
    ASSUME WorldOK
    PROVE  /\ SearchPaths \in Seq(JobFiles)
           /\ {SearchPaths[i] : i \in DOMAIN SearchPaths} = {index[i].file : i \in Taken}
           /\ \A i, j \in DOMAIN SearchPaths : SearchPaths[i] = SearchPaths[j] => i = j
<1> DEFINE q == [i \in DOMAIN index |-> index[i].file]
<1>1. SearchPaths = AtPositions(q, Taken)
  BY DEF SearchPaths, Taken
<1>2. index \in Seq(Aged) /\ Len(index) \in Nat /\ DOMAIN index = 1..Len(index)
  BY DEF WorldOK
<1>3. \A i \in DOMAIN index : index[i].file \in JobFiles
  <2>1. \A i \in DOMAIN index : index[i] \in Aged
    BY <1>2
  <2> QED BY <2>1 DEF Aged
<1>4. q \in Seq(JobFiles) /\ DOMAIN q = DOMAIN index
  BY <1>2, <1>3
<1>5. Taken \subseteq DOMAIN q
  BY <1>4 DEF Taken
<1>6. \A i, k \in Taken : q[i] = q[k] => i = k
  <2> SUFFICES ASSUME NEW i \in Taken, NEW k \in Taken, q[i] = q[k] PROVE i = k
    OBVIOUS
  <2>1. i \in 1..Len(index) /\ k \in 1..Len(index) /\ index[i].file = index[k].file
    BY <1>2, <1>4, <1>5
  <2>2. ~(i < k) /\ ~(k < i)
    BY <1>2, <2>1 DEF WorldOK
  <2> QED BY <2>1, <2>2
<1>7. {q[i] : i \in Taken} = {index[i].file : i \in Taken}
  BY <1>4, <1>5
<1> HIDE DEF q
<1>8. /\ AtPositions(q, Taken) \in Seq(JobFiles)
      /\ {AtPositions(q, Taken)[n] : n \in DOMAIN AtPositions(q, Taken)} = {q[i] : i \in Taken}
      /\ \A m, n \in DOMAIN AtPositions(q, Taken) :
            AtPositions(q, Taken)[m] = AtPositions(q, Taken)[n] => m = n
  BY <1>4, <1>5, <1>6, AtPositionsIs
<1> QED BY <1>1, <1>7, <1>8

\* Command lists the paths of a pattern, or ends a search of what is not enabled.
LEMMA CommandIs ==
    ASSUME ShapeOK, Command
    PROVE  /\ UNCHANGED <<now, disk, maxAge, known, index, loader, query, sent, changes>>
           /\ s.pc = "command" /\ s' \in SearchType
           /\ \/ /\ s'.pc = "done" /\ s'.line = 0 /\ s'.bytes = 0 /\ s'.name = {} /\ wanted' = wanted
                 /\ page' = [end |-> "disabled", groups |-> << >>, rows |-> NoPage.rows]
              \/ /\ s' = [s EXCEPT !.pc = "batch", !.left = query.maxBytes,
                                   !.paths = SearchPaths \o Directories(query.type),
                                   !.all = index = << >>]
                 /\ wanted' = Append(wanted, Wanted) /\ Wanted \in WantedType
                 /\ page' = page
<1>1. s.pc = "command" /\ UNCHANGED <<now, disk, maxAge, known, index, loader, query, sent, changes>>
  BY DEF Command
<1>2. s \in SearchType /\ query \in QueryType
  BY <1>1 DEF ShapeOK, TypesOK, Going
<1>3. CASE Respond("disabled") /\ wanted' = wanted
  <2>1. "disabled" \in Ends
    BY DEF Ends
  <2> QED BY <1>1, <1>3, <2>1, RespondIs
<1>4. CASE /\ s' = [s EXCEPT !.pc = "batch", !.left = query.maxBytes,
                             !.paths = SearchPaths \o Directories(query.type),
                             !.all = index = << >>]
           /\ wanted' = Append(wanted, Wanted)
           /\ UNCHANGED page
  <2>1. query.maxBytes \in Int
    BY <1>2 DEF QueryType, RequestType
  <2>2. SearchPaths \in Seq(PathType)
    <3>1. SearchPaths \in Seq(JobFiles)
      BY SearchPathsIs DEF ShapeOK
    <3> QED BY <3>1 DEF PathType
  <2>3. Directories(query.type) \in Seq(PathType)
    <3>1. Directories(query.type) \in Seq({Dir(k) : k \in Trackers})
      BY DirectoriesIs
    <3> QED BY <3>1 DEF PathType
  <2>4. SearchPaths \o Directories(query.type) \in Seq(PathType)
    BY <2>2, <2>3
  <2>5. s' \in SearchType
    BY <1>2, <1>4, <2>1, <2>4 DEF SearchType
  <2>6. Wanted \in WantedType
    BY DEF Wanted, WantedType
  <2> QED BY <1>1, <1>4, <2>5, <2>6
<1> QED BY <1>3, <1>4 DEF Command

\* What fits is a prefix of the paths.
LEMMA FittingIs ==
    ASSUME NEW T, NEW q \in Seq(T)
    PROVE  Fitting(q) \in 0..Len(q)
<1>1. DOMAIN q = 1..Len(q) /\ Len(q) \in Nat
  OBVIOUS
<1>2. IsFiniteSet(1..Len(q)) /\ Cardinality(1..Len(q)) = Len(q)
  BY <1>1, FS_Interval
<1> DEFINE F == {k \in DOMAIN q : k * PathLength < query.room}
<1>3. F \in SUBSET (1..Len(q))
  BY <1>1
<1>4. IsFiniteSet(F) /\ Cardinality(F) <= Len(q) /\ Cardinality(F) \in Nat
  BY <1>2, <1>3, FS_Subset, FS_CardinalityType
<1> QED BY <1>1, <1>4 DEF Fitting

\* StartBatch starts a command for the paths that fit, or fails.
LEMMA StartBatchIs ==
    ASSUME ShapeOK, StartBatch
    PROVE  /\ UNCHANGED <<now, disk, maxAge, known, index, loader, query, sent, page, wanted, changes>>
           /\ s.pc = "batch" /\ s.paths # << >> /\ s' \in SearchType
           /\ Fitting(s.paths) \in 0..Len(s.paths)
           /\ \/ s' = [s EXCEPT !.pc = "failed"]
              \/ /\ Fitting(s.paths) > 0
                 /\ s' = [s EXCEPT !.pc = "read",
                            !.paths = SubSeq(s.paths, Fitting(s.paths) + 1, Len(s.paths)),
                            !.todo = Below(Range(SubSeq(s.paths, 1, Fitting(s.paths)))),
                            !.any = FALSE, !.name = {}, !.line = 0, !.bytes = 0]
<1> DEFINE k == Fitting(s.paths)
           rest == SubSeq(s.paths, k + 1, Len(s.paths))
           B == Below(Range(SubSeq(s.paths, 1, k)))
<1>1. /\ s.pc = "batch" /\ s.paths # << >>
      /\ \/ s' = [s EXCEPT !.pc = "failed"]
         \/ /\ k > 0
            /\ s' = [s EXCEPT !.pc = "read", !.paths = rest, !.todo = B, !.any = FALSE,
                              !.name = {}, !.line = 0, !.bytes = 0]
      /\ UNCHANGED <<now, disk, maxAge, known, index, loader, query, sent, page, wanted, changes>>
  BY DEF StartBatch
<1>2. s \in SearchType
  BY DEF ShapeOK, TypesOK
<1>3. s.paths \in Seq(PathType)
  BY <1>2 DEF SearchType
<1>4. k \in 0..Len(s.paths)
  BY <1>3, FittingIs
<1>5. rest \in Seq(PathType) /\ B \subseteq Files /\ {} \in LineType
  BY <1>3, <1>4 DEF Below, LineType
<1>6. CASE s' = [s EXCEPT !.pc = "failed"]
  <2>1. s' \in SearchType
    BY <1>2, <1>6 DEF SearchType, Ends
  <2> QED BY <1>1, <1>4, <1>6, <2>1
<1>7. CASE /\ k > 0
           /\ s' = [s EXCEPT !.pc = "read", !.paths = rest, !.todo = B, !.any = FALSE,
                             !.name = {}, !.line = 0, !.bytes = 0]
  <2> HIDE DEF k, rest, B
  <2>1. s' \in SearchType
    BY <1>2, <1>5, <1>7 DEF SearchType
  <2> QED BY <1>1, <1>4, <1>7, <2>1 DEF k, rest, B
<1> QED BY <1>1, <1>6, <1>7

\* The limited output of a file consists of its lines and separators, and has no
\* more of them than there are.
LEMMA OutputIs ==
    ASSUME query \in QueryType, NEW f \in Files
    PROVE  /\ OutputOf(f) \in Seq({{}, {f}}) /\ OutputOf(f) \in Seq(LineType)
           /\ OutputLines(f) = Cardinality({i \in DOMAIN OutputOf(f) : OutputOf(f)[i] = {f}})
           /\ OutputLines(f) \in Nat
<1> DEFINE all == query.hits[f]
           T == {{}, {f}}
           begun(i) == Cardinality({j \in 1..i : all[j] = {}})
           few == {i \in DOMAIN all : begun(i) <= query.maxMatches + 1}
           lines == Cardinality({i \in DOMAIN all : all[i] # {}})
           n == IF lines > query.maxMatches THEN query.maxMatches ELSE lines
           out == OutputOf(f)
<1>1. all \in Seq(T) /\ query.maxMatches \in Nat
  <2>1. query \in RequestType /\ query.maxMatches > 0 /\ query.hits[f] \in Seq({{}, {f}})
    BY DEF QueryType
  <2>2. query.maxMatches \in Int
    BY <2>1 DEF RequestType
  <2> QED BY <2>1, <2>2
<1>2. DOMAIN all = 1..Len(all) /\ Len(all) \in Nat
  BY <1>1
<1>3. IsFiniteSet(DOMAIN all) /\ Cardinality(DOMAIN all) = Len(all)
  BY <1>2, FS_Interval
<1>4. Cardinality(few) \in Nat /\ Cardinality(few) <= Len(all) /\ lines \in Nat
  <2> HIDE DEF begun
  <2>1. few \in SUBSET DOMAIN all /\ {i \in DOMAIN all : all[i] # {}} \in SUBSET DOMAIN all
    OBVIOUS
  <2> QED BY <1>3, <2>1, FS_Subset, FS_CardinalityType
<1>5. SubSeq(all, 1, Cardinality(few)) \in Seq(T)
  <2> HIDE DEF few, T
  <2> QED BY <1>1, <1>4
<1>6. n \in Nat
  <2> HIDE DEF lines
  <2> QED BY <1>1, <1>4
<1>7. [i \in 1..n |-> {f}] \in Seq(T)
  <2> HIDE DEF n
  <2> QED BY <1>6
<1>8. out = IF query.context > 0 THEN SubSeq(all, 1, Cardinality(few)) ELSE [i \in 1..n |-> {f}]
  BY DEF OutputOf
<1>9. out \in Seq(T)
  <2> HIDE DEF out, few, n, T
  <2> QED BY <1>5, <1>7, <1>8
<1>10. T \subseteq LineType
  BY DEF LineType
<1> HIDE DEF out, T
<1>11. out \in Seq(LineType) /\ DOMAIN out = 1..Len(out) /\ Len(out) \in Nat
  BY <1>9, <1>10
<1>12. \A i \in DOMAIN out : out[i] # {} <=> out[i] = {f}
  <2>1. \A i \in DOMAIN out : out[i] \in T
    BY <1>9
  <2> QED BY <2>1 DEF T
<1>13. {i \in DOMAIN out : out[i] # {}} = {i \in DOMAIN out : out[i] = {f}}
  BY <1>12
<1>14. IsFiniteSet(DOMAIN out)
  BY <1>11, FS_Interval
<1>15. {i \in DOMAIN out : out[i] # {}} \in SUBSET DOMAIN out
  OBVIOUS
<1>16. Cardinality({i \in DOMAIN out : out[i] # {}}) \in Nat
  BY <1>14, <1>15, FS_Subset, FS_CardinalityType
<1> QED BY <1>9, <1>11, <1>13, <1>16 DEF out, T, OutputLines

\* RgSearches takes the output of one of the files that are left, without the
\* separator that there is not before the first.
LEMMA RgSearchesIs ==
    ASSUME ShapeOK, NEW f \in Files, RgSearches(f)
    PROVE  \E out \in Seq({{}, {f}}) :
             /\ out = IF disk[f] = 0 THEN << >> ELSE OutputOf(f)
             /\ s.pc = "read" /\ s.lines = << >> /\ f \in s.todo /\ query \in QueryType
             /\ UNCHANGED <<now, disk, maxAge, known, index, loader, query, sent, page, wanted, changes>>
             /\ s' = [s EXCEPT !.todo = s.todo \ {f}, !.any = s'.any, !.lines = s'.lines]
             /\ s' \in SearchType /\ s'.lines \in Seq({{}, {f}})
             /\ s'.lines = out \/ (out # << >> /\ Head(out) = {} /\ s'.lines = Tail(out))
<1> DEFINE T == {{}, {f}}
           out == IF disk[f] = 0 THEN << >> ELSE OutputOf(f)
<1>1. /\ s.pc = "read" /\ s.lines = << >> /\ f \in s.todo
      /\ s' = [s EXCEPT !.todo = @ \ {f}, !.any = @ \/ out # << >>,
                        !.lines = IF ~s.any /\ out # << >> /\ Head(out) = {}
                                  THEN Tail(out) ELSE out]
      /\ UNCHANGED <<now, disk, maxAge, known, index, loader, query, sent, page, wanted, changes>>
  BY DEF RgSearches
<1>2. s \in SearchType /\ query \in QueryType
  BY <1>1 DEF ShapeOK, TypesOK, Going
<1>3. out \in Seq(T)
  <2>1. OutputOf(f) \in Seq(T)
    BY <1>2, OutputIs
  <2>2. << >> \in Seq(T)
    OBVIOUS
  <2> QED BY <2>1, <2>2
<1>a. out = IF disk[f] = 0 THEN << >> ELSE OutputOf(f)
  OBVIOUS
<1> HIDE DEF out
<1>4. T \subseteq LineType
  BY DEF LineType
<1> DEFINE lines == IF ~s.any /\ out # << >> /\ Head(out) = {} THEN Tail(out) ELSE out
<1>5. lines \in Seq(T) /\ (lines = out \/ (out # << >> /\ Head(out) = {} /\ lines = Tail(out)))
  <2> HIDE DEF T
  <2> QED BY <1>3
<1>6. lines \in Seq(LineType)
  <2> HIDE DEF T, lines
  <2> QED BY <1>4, <1>5
<1> DEFINE any == s.any \/ out # << >>
<1>7. any \in BOOLEAN
  OBVIOUS
<1>8. s' = [s EXCEPT !.todo = s.todo \ {f}, !.any = any, !.lines = lines]
  BY <1>1
<1> HIDE DEF any, lines
<1>9. s' \in SearchType /\ s'.lines = lines /\ s'.any = any
  BY <1>2, <1>6, <1>7, <1>8 DEF SearchType
<1> QED BY <1>1, <1>2, <1>3, <1>5, <1>8, <1>9, <1>a

\* RgFails ends the output, and nothing that is lost is wanted any more; or it ends the
\* search.
LEMMA RgFailsIs ==
    ASSUME ShapeOK, RgFails
    PROVE  /\ s.pc = "read" /\ Going /\ s' \in SearchType
           /\ UNCHANGED <<now, disk, maxAge, known, broken, index, loader, query, sent, page, changes>>
           /\ s'.pc \in {"read", "failed"} /\ s'.search = s.search /\ s'.name = s.name
           /\ s'.line = s.line /\ s'.bytes = s.bytes /\ s'.left = s.left
           /\ s'.paths = s.paths /\ s'.all = s.all /\ s'.todo \subseteq s.todo
           /\ wanted' \in Seq(WantedType) /\ Len(wanted') = Len(wanted)
           /\ \A n \in 1..Len(wanted) : /\ wanted'[n].indexed = wanted[n].indexed
                                        /\ wanted'[n].sound = wanted[n].sound
                                        /\ wanted'[n].files \subseteq wanted[n].files
           /\ s'.pc = "read" => /\ s'.todo = {} /\ s'.lines = << >>
                                /\ \A f \in wanted'[s.search].files :
                                     f \notin s.todo /\ \A i \in DOMAIN s.lines : s.lines[i] # {f}
<1> DEFINE lost == s.todo \cup UNION Range(s.lines)
<1>1. /\ s.pc = "read" /\ Going
      /\ UNCHANGED <<now, disk, maxAge, known, broken, index, loader, query, sent, page, changes>>
      /\ \/ /\ s' = [s EXCEPT !.todo = {}, !.lines = << >>]
            /\ wanted' = [wanted EXCEPT ![s.search].files = @ \ lost]
         \/ s' = [s EXCEPT !.pc = "failed"] /\ wanted' = wanted
  BY DEF RgFails, Going
<1>2. /\ s \in SearchType /\ wanted \in Seq(WantedType) /\ Len(wanted) \in Nat
      /\ DOMAIN wanted = 1..Len(wanted) /\ s.search \in DOMAIN wanted
      /\ \A n \in 1..Len(wanted) : wanted[n] \in WantedType
  <2>1. s \in SearchType /\ wanted \in Seq(WantedType) /\ s.search > 0 /\ Len(wanted) = s.search
    BY <1>1 DEF ShapeOK, TypesOK, StageOK
  <2>2. s.search \in Nat
    BY <2>1 DEF SearchType
  <2> QED BY <2>1, <2>2
<1>a. \A f \in Files : f \notin lost => f \notin s.todo /\ \A i \in DOMAIN s.lines : s.lines[i] # {f}
  BY DEF Range
<1> HIDE DEF lost
<1>3. CASE /\ s' = [s EXCEPT !.todo = {}, !.lines = << >>]
           /\ wanted' = [wanted EXCEPT ![s.search].files = @ \ lost]
  <2>1. << >> \in Seq(LineType)
    OBVIOUS
  <2>2. /\ s' \in SearchType /\ s'.pc = "read" /\ s'.search = s.search /\ s'.name = s.name
        /\ s'.line = s.line /\ s'.bytes = s.bytes /\ s'.left = s.left
        /\ s'.paths = s.paths /\ s'.all = s.all /\ s'.todo = {} /\ s'.lines = << >>
    BY <1>1, <1>2, <1>3, <2>1 DEF SearchType
  <2>3. /\ DOMAIN wanted' = 1..Len(wanted)
        /\ \A n \in 1..Len(wanted) :
             wanted'[n] = IF n = s.search THEN [wanted[n] EXCEPT !.files = @ \ lost] ELSE wanted[n]
    BY <1>2, <1>3
  <2>4. \A n \in 1..Len(wanted) :
          /\ wanted'[n] \in WantedType
          /\ wanted'[n].indexed = wanted[n].indexed /\ wanted'[n].sound = wanted[n].sound
          /\ wanted'[n].files = IF n = s.search THEN wanted[n].files \ lost ELSE wanted[n].files
    <3>1. ASSUME NEW w \in WantedType
          PROVE  LET v == [w EXCEPT !.files = @ \ lost] IN
                 /\ v \in WantedType /\ v.indexed = w.indexed /\ v.sound = w.sound
                 /\ v.files = w.files \ lost
      BY DEF WantedType
    <3> SUFFICES ASSUME NEW n \in 1..Len(wanted)
                 PROVE  /\ wanted'[n] \in WantedType
                        /\ wanted'[n].indexed = wanted[n].indexed /\ wanted'[n].sound = wanted[n].sound
                        /\ wanted'[n].files = IF n = s.search THEN wanted[n].files \ lost
                                              ELSE wanted[n].files
      OBVIOUS
    <3>2. CASE n = s.search
      BY <1>2, <2>3, <3>1, <3>2
    <3>3. CASE n # s.search
      BY <1>2, <2>3, <3>3
    <3> QED BY <3>2, <3>3
  <2>5. wanted' \in Seq(WantedType) /\ Len(wanted') = Len(wanted)
    <3>1. wanted' \in [1..Len(wanted) -> WantedType]
      BY <1>2, <1>3, <2>3, <2>4
    <3> QED BY <1>2, <3>1
  <2>6. \A f \in wanted'[s.search].files : f \in Files /\ f \notin lost
    BY <1>2, <2>4 DEF WantedType
  <2> QED BY <1>1, <1>a, <2>2, <2>4, <2>5, <2>6
<1>4. CASE s' = [s EXCEPT !.pc = "failed"] /\ wanted' = wanted
  <2>1. /\ s' \in SearchType /\ s'.pc = "failed" /\ s'.search = s.search /\ s'.name = s.name
        /\ s'.line = s.line /\ s'.bytes = s.bytes /\ s'.left = s.left
        /\ s'.paths = s.paths /\ s'.all = s.all /\ s'.todo = s.todo
    BY <1>2, <1>4 DEF SearchType, Ends
  <2> QED BY <1>1, <1>2, <1>4, <2>1
<1> QED BY <1>1, <1>3, <1>4

\* The match for the lines captured.
LEMMA CapturedIs ==
    ASSUME ShapeOK, s.pc = "read", s.line > 0
    PROVE  /\ Captured \in MatchType /\ Captured.search = s.search /\ s.name = {Captured.file}
           /\ Captured.shown + Captured.more = s.line
<1> DEFINE f == CHOOSE f \in s.name : TRUE
           shown == IF s.line < maxLines THEN s.line ELSE maxLines
           age == IF LooksUp(f) THEN MetadataFor(f) ELSE Last(sent).age
<1>1. s \in SearchType /\ query \in QueryType /\ s.name # {} /\ sent \in Seq(MatchType)
  BY DEF ShapeOK, TypesOK, StageOK, Steady, Going
<1>2. s.line \in Nat /\ s.search \in Nat /\ s.name \in LineType
  BY <1>1 DEF SearchType
<1>3. f \in Files /\ s.name = {f}
  BY <1>1, <1>2 DEF LineType
<1>4. maxLines \in Nat
  <2>1. query \in RequestType /\ query.maxMatches > 0
    BY <1>1 DEF QueryType
  <2>2. query.maxMatches \in Nat /\ query.context \in Int
    BY <2>1 DEF RequestType
  <2> DEFINE c == IF query.context > 0 THEN 2 * query.context + 1 ELSE 1
  <2>3. c \in Nat
    BY <2>2
  <2>4. \A a, b \in Nat : a * b \in Nat
    OBVIOUS
  <2>5. maxLines = query.maxMatches * c
    BY DEF maxLines
  <2> HIDE DEF c
  <2> QED BY <2>2, <2>3, <2>4, <2>5
<1>5. shown \in Nat /\ s.line - shown \in Nat /\ shown + (s.line - shown) = s.line
  BY <1>2, <1>4
<1>6. age \in Nat
  <2>1. CASE LooksUp(f)
    <3>1. LastChange \in Nat
      BY SearchAssumption
    <3>2. LastModified(f) \in Nat
      <4> DEFINE at == {i \in DOMAIN index : index[i].file = f}
      <4>1. \A i \in DOMAIN index : index[i] \in Aged
        BY DEF ShapeOK, WorldOK
      <4>2. \A i \in DOMAIN index : index[i].age \in Nat
        <5>1. MaxTime \in Nat
          BY SearchAssumption
        <5> QED BY <4>1, <5>1 DEF Aged
      <4>3. at # {} => (CHOOSE i \in at : TRUE) \in DOMAIN index
        OBVIOUS
      <4> QED BY <4>2, <4>3 DEF LastModified
    <3> QED BY <2>1, <3>1, <3>2 DEF MetadataFor
  <2>2. CASE ~LooksUp(f)
    <3>1. page.rows.last # {}
      BY <2>2 DEF LooksUp
    <3>2. sent # << >>
      BY <3>1 DEF ShapeOK, PageOK
    <3>3. Last(sent) \in MatchType
      BY <1>1, <3>2 DEF Last
    <3> QED BY <2>2, <3>3 DEF MatchType
  <2> QED BY <2>1, <2>2
<1>7. Captured = [search |-> s.search, file |-> f, shown |-> shown, more |-> s.line - shown, age |-> age]
  BY DEF Captured
<1> HIDE DEF f, shown, age
<1> QED BY <1>2, <1>3, <1>5, <1>6, <1>7 DEF MatchType

Shaped(p) ==
    /\ p = [end |-> p.end, groups |-> p.groups, rows |-> p.rows]
    /\ p.rows = [last |-> p.rows.last, drop |-> p.rows.drop, w |-> p.rows.w]

\* fn changes the rows or the groups.
LEMMA FnIs ==
    ASSUME Shaped(page), NEW m
    PROVE  /\ Shaped(fn(m)) /\ fn(m).end = page.end
           /\ query.mode = "flat" => fn(m).groups = page.groups /\ fn(m).rows.last = {m.file}
           /\ query.mode # "flat" => /\ fn(m).groups = orderedSearchResults(page.groups, m)
                                     /\ fn(m).rows = page.rows
<1> DEFINE rows == renderMatches(page.rows, m)
           groups == orderedSearchResults(page.groups, m)
<1>1. CASE query.mode = "flat"
  <2>1. fn(m) = [page EXCEPT !.rows = rows]
    BY <1>1 DEF fn
  <2>2. rows = [last |-> rows.last, drop |-> rows.drop, w |-> rows.w] /\ rows.last = {m.file}
    <3>1. CASE page.rows.last = {m.file} /\ page.rows.drop
      <4>1. rows = page.rows
        BY <3>1 DEF renderMatches
      <4> QED BY <3>1, <4>1 DEF Shaped
    <3>2. CASE page.rows.last = {m.file} /\ ~page.rows.drop
      <4>1. PICK w : rows = [page.rows EXCEPT !.w = w]
        BY <3>2 DEF renderMatches
      <4>2. rows = [last |-> page.rows.last, drop |-> page.rows.drop, w |-> w]
        BY <4>1 DEF Shaped
      <4> HIDE DEF rows
      <4> QED BY <3>2, <4>2
    <3>3. CASE page.rows.last # {m.file}
      <4>1. PICK d, w : rows = [last |-> {m.file}, drop |-> d, w |-> w]
        BY <3>3 DEF renderMatches
      <4> HIDE DEF rows
      <4> QED BY <4>1
    <3> QED BY <3>1, <3>2, <3>3
  <2> HIDE DEF rows
  <2>3. fn(m) = [end |-> page.end, groups |-> page.groups, rows |-> rows]
    BY <2>1 DEF Shaped
  <2> QED BY <1>1, <2>2, <2>3 DEF Shaped
<1>2. CASE query.mode # "flat"
  <2>1. fn(m) = [page EXCEPT !.groups = groups]
    BY <1>2 DEF fn
  <2> HIDE DEF groups
  <2>2. fn(m) = [end |-> page.end, groups |-> groups, rows |-> page.rows]
    BY <2>1 DEF Shaped
  <2> QED BY <1>2, <2>2 DEF Shaped, groups
<1> QED BY <1>1, <1>2

\* send adds one match for the lines captured, if there are any.
LEMMA SendIs ==
    ASSUME ShapeOK, s.pc = "read", send
    PROVE  /\ sent' \in Seq(MatchType) /\ Shaped(page') /\ page'.end = page.end
           /\ page'.rows.last # {} => sent' # << >>
           /\ s.line = 0 => sent' = sent /\ page' = page
           /\ s.line > 0 => \E m \in MatchType :
                 /\ sent' = Append(sent, m) /\ m.search = s.search /\ s.name = {m.file}
                 /\ m.shown + m.more = s.line
                 /\ query.mode # "flat" => page'.groups = orderedSearchResults(page.groups, m)
<1>1. sent \in Seq(MatchType) /\ Shaped(page) /\ (page.rows.last # {} => sent # << >>) /\ s.line \in Nat
  BY DEF ShapeOK, TypesOK, PageOK, Shaped, SearchType
<1>2. CASE s.line = 0
  <2>1. sent' = sent /\ page' = page
    BY <1>2 DEF send
  <2> QED BY <1>1, <1>2, <2>1 DEF Shaped
<1>3. CASE s.line > 0
  <2>1. sent' = Append(sent, Captured) /\ page' = fn(Captured)
    BY <1>3 DEF send
  <2>2. /\ Captured \in MatchType /\ Captured.search = s.search /\ s.name = {Captured.file}
        /\ Captured.shown + Captured.more = s.line
    BY <1>3, CapturedIs
  <2>3. sent' \in Seq(MatchType) /\ sent' # << >>
    BY <1>1, <2>1, <2>2
  <2>4. /\ Shaped(fn(Captured)) /\ fn(Captured).end = page.end
        /\ query.mode # "flat" => fn(Captured).groups = orderedSearchResults(page.groups, Captured)
    BY <1>1, FnIs
  <2> QED BY <1>3, <2>1, <2>2, <2>3, <2>4 DEF Shaped
<1> QED BY <1>1, <1>2, <1>3

\* A panic keeps everything but the program counter.
Panics ==
    /\ s.pc = "read" /\ SendPanics /\ s' = [s EXCEPT !.pc = "panic"] /\ s' \in SearchType
    /\ UNCHANGED <<sent, page>>

\* A line of the output either continues the lines captured, or has them sent.
LEMMA ReadLineIs ==
    ASSUME ShapeOK, ReadLine
    PROVE  /\ UNCHANGED <<now, disk, maxAge, known, index, loader, query, wanted, changes>>
           /\ s.pc = "read" /\ s.lines # << >> /\ s.lines \in Seq(LineType) /\ Head(s.lines) \in LineType
           /\ s' \in SearchType
           /\ \/ /\ Head(s.lines) # {} /\ Head(s.lines) = s.name /\ UNCHANGED <<sent, page>>
                 /\ s' = [s EXCEPT !.lines = Tail(s.lines), !.bytes = s.bytes + 1, !.line = s.line + 1]
              \/ Panics
              \/ /\ send /\ s.bytes + 1 > s.left
                 /\ s' = [s EXCEPT !.lines = Tail(s.lines), !.bytes = s.bytes + 1, !.pc = "max-bytes"]
              \/ /\ send /\ s.bytes + 1 <= s.left /\ Head(s.lines) = {}
                 /\ s' = [s EXCEPT !.lines = Tail(s.lines), !.bytes = s.bytes + 1, !.line = 0]
              \/ /\ send /\ s.bytes + 1 <= s.left /\ Head(s.lines) # {} /\ Head(s.lines) # s.name
                 /\ s' = [s EXCEPT !.lines = Tail(s.lines), !.bytes = s.bytes + 1,
                                   !.name = Head(s.lines), !.line = 1]
<1> DEFINE line == Head(s.lines)
           bytes == s.bytes + 1
           read == [s EXCEPT !.lines = Tail(@), !.bytes = bytes]
<1>1. /\ s.pc = "read" /\ s.lines # << >>
      /\ IF line # {} /\ line = s.name
         THEN s' = [read EXCEPT !.line = @ + 1] /\ UNCHANGED <<sent, page>>
         ELSE IF SendPanics THEN s' = [s EXCEPT !.pc = "panic"] /\ UNCHANGED <<sent, page>>
         ELSE /\ send
              /\ s' = IF bytes > s.left THEN [read EXCEPT !.pc = "max-bytes"]
                      ELSE [read EXCEPT !.name = IF line = {} THEN @ ELSE line,
                                        !.line = IF line = {} THEN 0 ELSE 1]
      /\ UNCHANGED <<now, disk, maxAge, known, index, loader, query, wanted, changes>>
  BY DEF ReadLine
<1>2. s \in SearchType
  BY DEF ShapeOK, TypesOK
<1>3. s.lines \in Seq(LineType) /\ s.bytes \in Nat /\ s.line \in Nat /\ s.left \in Int
  BY <1>2 DEF SearchType
<1>4. line \in LineType /\ Tail(s.lines) \in Seq(LineType)
  BY <1>1, <1>3
<1>b. bytes \in Nat /\ s.line + 1 \in Nat
  BY <1>3
<1> DEFINE rest == Tail(s.lines)
           more == s.line + 1
<1> HIDE DEF bytes, rest, line, more
<1>5. read = [s EXCEPT !.lines = rest, !.bytes = bytes] /\ read \in SearchType
  BY <1>2, <1>4, <1>b DEF SearchType, rest
<1>6. CASE line # {} /\ line = s.name
  <2>1. s' = [read EXCEPT !.line = more] /\ UNCHANGED <<sent, page>>
    BY <1>1, <1>6 DEF more
  <2> HIDE DEF read
  <2>2. s' \in SearchType
    BY <1>5, <1>b, <2>1 DEF SearchType, more
  <2>3. s' = [s EXCEPT !.lines = rest, !.bytes = bytes, !.line = more]
    BY <1>2, <1>5, <2>1 DEF SearchType
  <2> QED BY <1>1, <1>3, <1>4, <1>6, <2>1, <2>2, <2>3 DEF bytes, rest, more, line
<1>7. CASE ~(line # {} /\ line = s.name) /\ SendPanics
  <2>1. s' = [s EXCEPT !.pc = "panic"] /\ UNCHANGED <<sent, page>>
    BY <1>1, <1>7
  <2>2. s' \in SearchType
    BY <1>2, <2>1 DEF SearchType, Ends
  <2> QED BY <1>1, <1>3, <1>4, <1>7, <2>1, <2>2 DEF Panics
<1>8. CASE ~(line # {} /\ line = s.name) /\ ~SendPanics
  <2>0. send /\ s' = IF bytes > s.left THEN [read EXCEPT !.pc = "max-bytes"]
                     ELSE [read EXCEPT !.name = IF line = {} THEN @ ELSE line,
                                       !.line = IF line = {} THEN 0 ELSE 1]
    BY <1>1, <1>8
  <2>1. CASE bytes > s.left
    <3>1. s' = [read EXCEPT !.pc = "max-bytes"]
      BY <2>0, <2>1
    <3>2. s' = [s EXCEPT !.lines = rest, !.bytes = bytes, !.pc = "max-bytes"]
      BY <1>2, <1>5, <3>1 DEF SearchType
    <3>3. s' \in SearchType
      BY <1>5, <3>1 DEF SearchType, Ends
    <3> QED BY <1>1, <1>3, <1>4, <2>0, <2>1, <3>2, <3>3 DEF bytes, rest, line
  <2>2. CASE bytes <= s.left /\ line = {}
    <3>a. ~(bytes > s.left)
      BY <1>3, <1>b, <2>2
    <3>1. s' = [read EXCEPT !.name = read.name, !.line = 0]
      BY <2>0, <2>2, <3>a
    <3>2. s' = [s EXCEPT !.lines = rest, !.bytes = bytes, !.line = 0]
      BY <1>2, <1>5, <3>1 DEF SearchType
    <3>3. s' \in SearchType
      BY <1>5, <3>1 DEF SearchType
    <3> QED BY <1>1, <1>3, <1>4, <2>0, <2>2, <3>2, <3>3 DEF bytes, rest, line
  <2>3. CASE bytes <= s.left /\ line # {}
    <3>a. ~(bytes > s.left)
      BY <1>3, <1>b, <2>3
    <3>1. s' = [read EXCEPT !.name = line, !.line = 1]
      BY <2>0, <2>3, <3>a
    <3>2. s' = [s EXCEPT !.lines = rest, !.bytes = bytes, !.name = line, !.line = 1]
      BY <1>2, <1>5, <3>1 DEF SearchType
    <3>3. s' \in SearchType
      BY <1>4, <1>5, <3>1 DEF SearchType
    <3> QED BY <1>1, <1>3, <1>4, <1>8, <2>0, <2>3, <3>2, <3>3 DEF bytes, rest, line
  <2> QED BY <1>3, <1>b, <2>1, <2>2, <2>3
<1> QED BY <1>6, <1>7, <1>8

\* The end of the output has the lines captured sent.
LEMMA ReadEOFIs ==
    ASSUME ShapeOK, ReadEOF
    PROVE  /\ UNCHANGED <<now, disk, maxAge, known, index, loader, query, wanted, changes>>
           /\ s.pc = "read" /\ s.lines = << >> /\ s.todo = {} /\ s' \in SearchType
           /\ \/ Panics
              \/ /\ send
                 /\ s' = [s EXCEPT !.pc = "batch", !.name = {}, !.line = 0, !.bytes = 0,
                                   !.left = s.left - s.bytes]
<1>1. /\ s.pc = "read" /\ s.lines = << >> /\ s.todo = {}
      /\ IF SendPanics THEN s' = [s EXCEPT !.pc = "panic"] /\ UNCHANGED <<sent, page>>
         ELSE /\ send
              /\ s' = [s EXCEPT !.pc = "batch", !.name = {}, !.line = 0, !.bytes = 0,
                                !.left = @ - s.bytes]
      /\ UNCHANGED <<now, disk, maxAge, known, index, loader, query, wanted, changes>>
  BY DEF ReadEOF
<1>2. s \in SearchType /\ {} \in LineType
  BY DEF ShapeOK, TypesOK, LineType
<1>3. CASE SendPanics
  <2>1. s' = [s EXCEPT !.pc = "panic"] /\ UNCHANGED <<sent, page>>
    BY <1>1, <1>3
  <2>2. s' \in SearchType
    BY <1>2, <2>1 DEF SearchType, Ends
  <2> QED BY <1>1, <1>3, <2>1, <2>2 DEF Panics
<1>4. CASE ~SendPanics
  <2>1. send /\ s' = [s EXCEPT !.pc = "batch", !.name = {}, !.line = 0, !.bytes = 0,
                               !.left = s.left - s.bytes]
    BY <1>1, <1>4
  <2> DEFINE left == s.left - s.bytes
  <2>a. left \in Int
    BY <1>2 DEF SearchType
  <2> HIDE DEF left
  <2>b. s' = [s EXCEPT !.pc = "batch", !.name = {}, !.line = 0, !.bytes = 0, !.left = left]
    BY <2>1 DEF left
  <2>2. s' \in SearchType
    BY <1>2, <2>a, <2>b DEF SearchType
  <2> QED BY <1>1, <2>1, <2>2
<1> QED BY <1>3, <1>4

\* The next pattern's turn, or the end of the search.
LEMMA NextSearchIs ==
    ASSUME ShapeOK, NextSearch
    PROVE  /\ UNCHANGED <<now, disk, maxAge, known, index, loader, query, sent, page, wanted, changes>>
           /\ s.pc = "batch" /\ s.paths = << >> /\ s' \in SearchType
           /\ \/ s' = [s EXCEPT !.pc = "command", !.search = s.search + 1]
              \/ s' = [s EXCEPT !.pc = "ok"]
<1>1. /\ s.pc = "batch" /\ s.paths = << >>
      /\ \/ s' = [s EXCEPT !.pc = "command", !.search = s.search + 1]
         \/ s' = [s EXCEPT !.pc = "ok"]
      /\ UNCHANGED <<now, disk, maxAge, known, index, loader, query, sent, page, wanted, changes>>
  BY DEF NextSearch
<1>2. s \in SearchType
  BY DEF ShapeOK, TypesOK
<1> DEFINE n == s.search + 1
<1>a. n \in Nat
  BY <1>2 DEF SearchType
<1>b. s' = [s EXCEPT !.pc = "command", !.search = n] \/ s' = [s EXCEPT !.pc = "ok"]
  BY <1>1
<1> HIDE DEF n
<1>3. s' \in SearchType
  BY <1>2, <1>a, <1>b DEF SearchType, Ends
<1> QED BY <1>1, <1>3

\* The handler's end.
LEMMA RenderIs ==
    ASSUME ShapeOK, Render
    PROVE  /\ UNCHANGED <<now, disk, maxAge, known, index, loader, query, sent, wanted, changes>>
           /\ s.pc \in Finished /\ s' = [s EXCEPT !.pc = "done"] /\ s' \in SearchType
           /\ Shaped(page') /\ page'.end = s.pc /\ page'.rows.last = page.rows.last
           /\ s.pc = "ok" => page'.groups = page.groups
<1> DEFINE w == Flush(page.rows.w)
           g == IF s.pc = "ok" THEN page.groups ELSE << >>
<1>1. /\ s.pc \in Finished /\ s' = [s EXCEPT !.pc = "done"]
      /\ page' = [end |-> s.pc, groups |-> g, rows |-> [page.rows EXCEPT !.w = w]]
      /\ UNCHANGED <<now, disk, maxAge, known, index, loader, query, sent, wanted, changes>>
  BY DEF Render, Finished
<1>2. s \in SearchType /\ page.rows = [last |-> page.rows.last, drop |-> page.rows.drop, w |-> page.rows.w]
  BY DEF ShapeOK, TypesOK, PageOK
<1>3. s' \in SearchType
  BY <1>1, <1>2 DEF SearchType
<1>4. s.pc = "ok" => g = page.groups
  OBVIOUS
<1> HIDE DEF w, g
<1>5. [page.rows EXCEPT !.w = w] = [last |-> page.rows.last, drop |-> page.rows.drop, w |-> w]
  BY <1>2
<1>6. page' = [end |-> s.pc, groups |-> g,
               rows |-> [last |-> page.rows.last, drop |-> page.rows.drop, w |-> w]]
  BY <1>1, <1>5
<1>7. Shaped(page') /\ page'.end = s.pc /\ page'.groups = g /\ page'.rows.last = page.rows.last
  BY <1>6 DEF Shaped
<1> QED BY <1>1, <1>3, <1>4, <1>7

\* A panic is the end of the response.
LEMMA RecoverIs ==
    ASSUME ShapeOK, Recover
    PROVE  /\ UNCHANGED <<now, disk, maxAge, known, index, loader, query, sent, wanted, changes>>
           /\ s.pc = "panic" /\ s' = [s EXCEPT !.pc = "done"] /\ s' \in SearchType
           /\ Shaped(page') /\ page'.end = "panic" /\ page'.rows.last = {}
<1>1. /\ s.pc = "panic" /\ s' = [s EXCEPT !.pc = "done"] /\ page' = [NoPage EXCEPT !.end = "panic"]
      /\ UNCHANGED <<now, disk, maxAge, known, index, loader, query, sent, wanted, changes>>
  BY DEF Recover
<1>2. s' \in SearchType
  BY <1>1 DEF ShapeOK, TypesOK, SearchType
<1>3. page' = [end |-> "panic", groups |-> << >>, rows |-> [last |-> {}, drop |-> TRUE, w |-> NewWriter]]
  BY <1>1 DEF NoPage
<1>4. page'.end = "panic" /\ page'.rows.last = {} /\ Shaped(page')
  BY <1>3 DEF Shaped
<1> QED BY <1>1, <1>2, <1>4

-----------------------------------------------------------------------------
(* The types are kept.                                                     *)

\* The search goes on.
Within(pcs) ==
    /\ s' \in SearchType /\ s'.pc \in pcs /\ Steady'
    /\ s'.search = IF s'.pc = "command" THEN s.search + 1 ELSE s.search

\* A step that sends at most one match, of the pattern whose turn it is, and moves
\* the search within a command or from a command to its end.
LEMMA SendingShape ==
    ASSUME ShapeOK, s.pc = "read", UNCHANGED <<disk, query, wanted, changes>>, send,
           Within({"read", "batch", "max-bytes"})
    PROVE  TypesOK' /\ PageOK' /\ StageOK' /\ Alive'
<1>1. /\ sent' \in Seq(MatchType) /\ Shaped(page') /\ page'.end = page.end
      /\ page'.rows.last # {} => sent' # << >>
      /\ s.line = 0 => sent' = sent /\ page' = page
      /\ s.line > 0 => \E m \in MatchType : sent' = Append(sent, m) /\ m.search = s.search
  BY SendIs
<1>2. Going /\ query \in QueryType /\ page.end = "none" /\ "none" \in Ends
  BY DEF ShapeOK, TypesOK, PageOK, Going, Ends
<1>a. s' \in SearchType /\ s'.pc \in {"read", "batch", "max-bytes"} /\ Steady' /\ s'.search = s.search
  BY DEF Within
<1>3. TypesOK'
  BY <1>1, <1>2, <1>a DEF ShapeOK, TypesOK, Going
<1>4. PageOK'
  BY <1>1, <1>2, <1>a DEF PageOK, Shaped
<1>5. s.search \in Nat /\ s.search > 0 /\ Len(wanted) = s.search /\ s.line \in Nat
  BY <1>2 DEF ShapeOK, StageOK, TypesOK, SearchType
<1>6. \A i \in DOMAIN sent' : sent'[i].search \in 1..Len(wanted)
  <2>1. \A i \in DOMAIN sent : sent[i].search \in 1..Len(wanted)
    BY <1>2 DEF ShapeOK, StageOK, Steady
  <2>2. sent \in Seq(MatchType)
    BY DEF ShapeOK, TypesOK
  <2>3. CASE s.line = 0
    BY <1>1, <2>1, <2>3
  <2>4. CASE s.line > 0
    <3>1. PICK m \in MatchType : sent' = Append(sent, m) /\ m.search = s.search
      BY <1>1, <2>4
    <3>2. \A i \in DOMAIN sent' : sent'[i] = m \/ (i \in DOMAIN sent /\ sent'[i] = sent[i])
      BY <2>2, <3>1, AppendIs
    <3>3. m.search \in 1..Len(wanted)
      BY <1>5, <3>1
    <3> QED BY <2>1, <3>2, <3>3
  <2>5. s.line = 0 \/ s.line > 0
    BY <1>5
  <2> QED BY <2>3, <2>4, <2>5
<1>7. StageOK'
  BY <1>5, <1>6, <1>a DEF StageOK
<1>8. Alive'
  BY DEF ShapeOK, Alive
<1> QED BY <1>3, <1>4, <1>7, <1>8

\* A panic changes no type.
LEMMA PanicsShape ==
    ASSUME ShapeOK, Panics, UNCHANGED <<disk, query, wanted, changes>>
    PROVE  TypesOK' /\ PageOK' /\ StageOK' /\ Alive'
<1>1. /\ s.pc = "read" /\ s' = [s EXCEPT !.pc = "panic"] /\ s' \in SearchType
      /\ UNCHANGED <<sent, page>> /\ s \in SearchType
  BY DEF Panics, ShapeOK, TypesOK
<1>2. /\ s'.pc = "panic" /\ s'.search = s.search /\ s'.line = s.line /\ s'.name = s.name
      /\ s'.bytes = s.bytes
  BY <1>1 DEF SearchType
<1>3. Going
  BY <1>1 DEF Going
<1>4. TypesOK'
  BY <1>1, <1>3 DEF ShapeOK, TypesOK
<1>5. PageOK'
  BY <1>1, <1>2 DEF ShapeOK, PageOK
<1>6. StageOK'
  BY <1>1, <1>2, <1>3 DEF ShapeOK, StageOK, Steady
<1>7. Alive'
  BY DEF ShapeOK, Alive
<1> QED BY <1>4, <1>5, <1>6, <1>7

\* A step that sends nothing and leaves the page alone.
LEMMA QuietShape ==
    ASSUME ShapeOK, Going, UNCHANGED <<disk, query, sent, page, wanted, changes>>,
           s.pc # "command", Within({"command", "batch", "read", "ok", "failed"})
    PROVE  TypesOK' /\ PageOK' /\ StageOK' /\ Alive'
<1>c. /\ s' \in SearchType /\ s'.pc \in {"command", "batch", "read", "ok", "failed"} /\ Steady'
      /\ s'.search = IF s'.pc = "command" THEN s.search + 1 ELSE s.search
  BY DEF Within
<1>1. TypesOK'
  BY <1>c DEF ShapeOK, TypesOK
<1>2. s.pc # "done"
  BY DEF Going
<1>3. PageOK'
  BY <1>2, <1>c DEF ShapeOK, PageOK
<1>4. s.search \in Nat
  BY DEF ShapeOK, TypesOK, SearchType
<1>a. /\ s.search > 0 /\ Len(wanted) = s.search
      /\ \A i \in DOMAIN sent : sent[i].search \in 1..Len(wanted)
  BY DEF ShapeOK, StageOK, Steady
<1>b. s'.search > 0 /\ Len(wanted) = IF s'.pc = "command" THEN s'.search - 1 ELSE s'.search
  BY <1>4, <1>a, <1>c
<1>5. StageOK'
  BY <1>a, <1>b, <1>c DEF StageOK
<1>6. Alive'
  BY DEF ShapeOK, Alive
<1> QED BY <1>1, <1>3, <1>5, <1>6

\* The end of a search that was answered.
LEMMA EndShape ==
    ASSUME ShapeOK, Going, s.pc # "command", UNCHANGED <<disk, query, sent, wanted, changes>>,
           s' = [s EXCEPT !.pc = "done"], s' \in SearchType,
           Shaped(page'), page'.end \in Ends, page'.rows.last # {} => page.rows.last # {}
    PROVE  TypesOK' /\ PageOK' /\ StageOK' /\ Alive'
<1>1. s \in SearchType
  BY DEF ShapeOK, TypesOK
<1>2. /\ s'.pc = "done" /\ s'.search = s.search /\ s'.line = s.line /\ s'.name = s.name
      /\ s'.bytes = s.bytes
  BY <1>1 DEF SearchType
<1>3. TypesOK'
  BY DEF ShapeOK, TypesOK
<1>4. PageOK'
  BY <1>2 DEF ShapeOK, PageOK, Shaped
<1>5. StageOK'
  BY <1>2 DEF ShapeOK, StageOK, Steady
<1>6. Alive'
  BY DEF ShapeOK, Alive
<1> QED BY <1>3, <1>4, <1>5, <1>6

\* The end of a response that needs no search.
LEMMA BareShape ==
    ASSUME ShapeOK, UNCHANGED <<disk, sent, wanted, changes>>,
           s' \in SearchType, s'.pc = "done", s'.line = 0, s'.bytes = 0, s'.name = {},
           NEW e \in {"bad", "empty", "disabled"},
           page' = [end |-> e, groups |-> << >>, rows |-> NoPage.rows]
    PROVE  TypesOK' /\ PageOK' /\ StageOK' /\ Alive'
<1>1. NoPage.rows = [last |-> {}, drop |-> TRUE, w |-> NewWriter]
  BY DEF NoPage
<1>2. page'.end = e /\ page'.groups = << >> /\ page'.rows = [last |-> {}, drop |-> TRUE, w |-> NewWriter]
  BY <1>1
<1>3. e \in Ends /\ e \notin Finished \cup {"panic"}
  BY DEF Ends, Finished
<1>4. ~(Going' \/ Answered')
  BY <1>2, <1>3 DEF Going, Answered
<1>5. TypesOK'
  BY <1>4 DEF ShapeOK, TypesOK
<1>6. PageOK'
  <2>1. page'.rows = [last |-> page'.rows.last, drop |-> page'.rows.drop, w |-> page'.rows.w]
        /\ page'.rows.last = {}
    BY <1>2
  <2> QED BY <1>2, <1>3, <2>1 DEF PageOK
<1>7. StageOK'
  BY <1>4 DEF StageOK, Steady
<1>8. Alive'
  BY DEF ShapeOK, Alive
<1> QED BY <1>5, <1>6, <1>7, <1>8

\* Every step keeps the types.
LEMMA StepShape == ShapeOK /\ [Next]_vars => ShapeOK'
<1> SUFFICES ASSUME ShapeOK, [Next]_vars PROVE ShapeOK'
  OBVIOUS
<1>0. WorldOK' /\ s \in SearchType
  BY StepWorld DEF ShapeOK, TypesOK
<1> SUFFICES TypesOK' /\ PageOK' /\ StageOK' /\ Alive'
  BY <1>0 DEF ShapeOK
<1>1. CASE Elsewhere
  <2>1. /\ UNCHANGED <<s, query, sent, page>> /\ wanted' \in Seq(WantedType) /\ changes' \in Nat
        /\ Len(wanted') = Len(wanted) /\ Alive'
    BY <1>1, ElsewhereIs
  <2>2. TypesOK'
    BY <2>1 DEF ShapeOK, TypesOK, Going, Answered
  <2>3. PageOK'
    <3>1. wanted = << >> => wanted' = << >>
      BY <2>1
    <3> QED BY <2>1, <3>1 DEF ShapeOK, PageOK
  <2>4. StageOK'
    BY <2>1 DEF ShapeOK, StageOK, Steady, Going, Answered
  <2> QED BY <2>1, <2>2, <2>3, <2>4
<1>2. CASE Request
  <2>1. UNCHANGED <<disk, sent, wanted, changes>> /\ sent = << >> /\ wanted = << >>
    BY <1>2, RequestIs
  <2>2. CASE /\ s' \in SearchType /\ s'.pc = "done" /\ s'.line = 0 /\ s'.bytes = 0 /\ s'.name = {}
             /\ \E e \in {"bad", "empty"} : page' = [end |-> e, groups |-> << >>, rows |-> NoPage.rows]
    <3>1. PICK e \in {"bad", "empty", "disabled"} :
                page' = [end |-> e, groups |-> << >>, rows |-> NoPage.rows]
      BY <2>2
    <3> QED BY <2>1, <2>2, <3>1, BareShape
  <2>3. CASE /\ s' = [NoSearch EXCEPT !.pc = "command", !.search = 1, !.start = now]
             /\ s' \in SearchType /\ page' = NoPage /\ query' \in QueryType
    <3>1. /\ s'.pc = "command" /\ s'.search = 1 /\ s'.todo = {} /\ s'.lines = << >> /\ s'.name = {}
          /\ s'.line = 0 /\ s'.bytes = 0
      BY <2>3 DEF NoSearch
    <3>2. TypesOK'
      BY <2>1, <2>3 DEF ShapeOK, TypesOK
    <3>3. /\ page'.end = "none" /\ page'.rows.last = {}
          /\ page' = [end |-> page'.end, groups |-> page'.groups, rows |-> page'.rows]
          /\ page'.rows = [last |-> page'.rows.last, drop |-> page'.rows.drop, w |-> page'.rows.w]
      BY <2>3 DEF NoPage
    <3>4. PageOK'
      BY <3>1, <3>3 DEF PageOK, Ends
    <3>5. StageOK'
      BY <2>1, <3>1 DEF StageOK, Steady
    <3>6. Alive'
      BY <2>1 DEF Alive
    <3> QED BY <3>2, <3>4, <3>5, <3>6
  <2> QED BY <1>2, <2>2, <2>3, RequestIs
<1>3. CASE Command
  <2>1. s.pc = "command" /\ s' \in SearchType /\ UNCHANGED <<disk, query, sent, changes>>
    BY <1>3, CommandIs
  <2>2. CASE /\ s'.pc = "done" /\ s'.line = 0 /\ s'.bytes = 0 /\ s'.name = {} /\ wanted' = wanted
             /\ page' = [end |-> "disabled", groups |-> << >>, rows |-> NoPage.rows]
    BY <2>1, <2>2, BareShape
  <2>3. CASE /\ s' = [s EXCEPT !.pc = "batch", !.left = query.maxBytes,
                               !.paths = SearchPaths \o Directories(query.type),
                               !.all = index = << >>]
             /\ wanted' = Append(wanted, Wanted) /\ Wanted \in WantedType /\ page' = page
    <3>1. /\ s'.pc = "batch" /\ s'.search = s.search /\ s'.todo = s.todo /\ s'.lines = s.lines
          /\ s'.name = s.name /\ s'.line = s.line /\ s'.bytes = s.bytes
      BY <1>0, <2>3 DEF SearchType
    <3>2. /\ Going /\ query \in QueryType /\ wanted \in Seq(WantedType) /\ s.search \in Nat
          /\ s.search > 0 /\ Len(wanted) = s.search - 1
          /\ \A i \in DOMAIN sent : sent[i].search \in 1..Len(wanted)
          /\ s.todo = {} /\ s.lines = << >> /\ s.name = {} /\ s.line = 0 /\ s.bytes = 0
      BY <2>1 DEF ShapeOK, TypesOK, StageOK, Steady, Going, SearchType
    <3>3. /\ wanted' \in Seq(WantedType) /\ Len(wanted') = Len(wanted) + 1
          /\ \A n \in 1..Len(wanted) : wanted'[n] = wanted[n]
          /\ wanted'[Len(wanted) + 1] = Wanted /\ Len(wanted) \in Nat
          /\ DOMAIN wanted' = 1..Len(wanted') /\ DOMAIN wanted = 1..Len(wanted)
      BY <2>3, <3>2
    <3>4. TypesOK'
      BY <2>1, <3>2, <3>3 DEF ShapeOK, TypesOK
    <3>5. PageOK'
      BY <2>1, <2>3, <3>1 DEF ShapeOK, PageOK
    <3>6. StageOK'
      <4>1. Len(wanted') = s'.search /\ s'.search > 0
        BY <3>1, <3>2, <3>3
      <4>2. \A i \in DOMAIN sent' : sent'[i].search \in 1..Len(wanted')
        BY <2>1, <3>2, <3>3
      <4> QED BY <3>1, <3>2, <4>1, <4>2 DEF StageOK, Steady
    <3>7. \A f \in Wanted.files : disk[f] > 0
      BY DEF Wanted
    <3>8. Alive'
      BY <2>1, <3>3, <3>7 DEF ShapeOK, Alive
    <3> QED BY <3>4, <3>5, <3>6, <3>8
  <2> QED BY <1>3, <2>2, <2>3, CommandIs
<1>4. CASE StartBatch
  <2>1. /\ UNCHANGED <<disk, query, sent, page, wanted, changes>> /\ s.pc = "batch" /\ s' \in SearchType
        /\ \/ s' = [s EXCEPT !.pc = "failed"]
           \/ s' = [s EXCEPT !.pc = "read",
                            !.paths = SubSeq(s.paths, Fitting(s.paths) + 1, Len(s.paths)),
                            !.todo = Below(Range(SubSeq(s.paths, 1, Fitting(s.paths)))),
                            !.any = FALSE, !.name = {}, !.line = 0, !.bytes = 0]
    BY <1>4, StartBatchIs
  <2>2. s.name = {} /\ s.line = 0 /\ s.bytes = 0 /\ s.search > 0 /\ Going
    BY <2>1 DEF ShapeOK, StageOK, Steady, Going
  <2>3. /\ s'.pc \in {"read", "failed"} /\ s'.search = s.search /\ s'.name = {} /\ s'.line = 0
        /\ s'.bytes = 0
    BY <1>0, <2>1, <2>2 DEF SearchType
  <2> QED BY <2>1, <2>2, <2>3, QuietShape DEF Steady, Within
<1>5. CASE NextSearch
  <2>1. /\ UNCHANGED <<disk, query, sent, page, wanted, changes>> /\ s.pc = "batch" /\ s' \in SearchType
        /\ \/ s' = [s EXCEPT !.pc = "command", !.search = s.search + 1]
           \/ s' = [s EXCEPT !.pc = "ok"]
    BY <1>5, NextSearchIs
  <2>2. /\ s.todo = {} /\ s.lines = << >> /\ s.name = {} /\ s.line = 0 /\ s.bytes = 0
        /\ s.search > 0 /\ s.search \in Nat /\ Going
    BY <1>0, <2>1 DEF ShapeOK, StageOK, Steady, Going, SearchType
  <2>3. /\ s'.todo = {} /\ s'.lines = << >> /\ s'.name = {} /\ s'.line = 0 /\ s'.bytes = 0
        /\ \/ s'.pc = "command" /\ s'.search = s.search + 1
           \/ s'.pc = "ok" /\ s'.search = s.search
    BY <1>0, <2>1, <2>2 DEF SearchType
  <2> QED BY <2>1, <2>2, <2>3, QuietShape DEF Steady, Within
<1>6. CASE \E f \in Files : RgSearches(f)
  <2>1. PICK f \in Files : RgSearches(f)
    BY <1>6
  <2>2. /\ s.pc = "read" /\ UNCHANGED <<disk, query, sent, page, wanted, changes>> /\ s' \in SearchType
        /\ s' = [s EXCEPT !.todo = s.todo \ {f}, !.any = s'.any, !.lines = s'.lines]
    BY <2>1, RgSearchesIs
  <2> DEFINE a == s'.any
             l == s'.lines
  <2>a. s' = [s EXCEPT !.todo = s.todo \ {f}, !.any = a, !.lines = l]
    BY <2>2
  <2> HIDE DEF a, l
  <2>3. /\ s'.pc = "read" /\ s'.search = s.search /\ s'.name = s.name /\ s'.line = s.line
        /\ s'.bytes = s.bytes
    BY <1>0, <2>2, <2>a DEF SearchType
  <2>4. Going /\ s.search > 0 /\ (s.line > 0 => s.name # {}) /\ (s.bytes = 0 => s.name = {})
    BY <2>2 DEF ShapeOK, StageOK, Steady, Going
  <2> QED BY <2>2, <2>3, <2>4, QuietShape DEF Steady, Within
<1>7. CASE ReadLine
  <2>1. /\ UNCHANGED <<disk, query, wanted, changes>>
        /\ s.pc = "read" /\ s' \in SearchType /\ s.bytes \in Nat /\ s.line \in Nat
        /\ s.line > 0 => s.name # {}
        /\ s.search > 0 /\ s.search \in Nat
    BY <1>0, <1>7, ReadLineIs DEF ShapeOK, StageOK, Steady, SearchType, Going
  <2>2. CASE /\ Head(s.lines) # {} /\ Head(s.lines) = s.name /\ UNCHANGED <<sent, page>>
             /\ s' = [s EXCEPT !.lines = Tail(s.lines), !.bytes = s.bytes + 1, !.line = s.line + 1]
    <3>1. /\ s'.pc = "read" /\ s'.search = s.search /\ s'.name = s.name /\ s'.bytes = s.bytes + 1
      BY <1>0, <2>1, <2>2 DEF SearchType
    <3>2. s'.name # {} /\ s'.bytes # 0
      BY <2>1, <2>2, <3>1
    <3>3. Going
      BY <2>1 DEF Going
    <3> QED BY <2>1, <2>2, <3>1, <3>2, <3>3, QuietShape DEF Steady, Within
  <2>3. CASE Panics
    BY <2>1, <2>3, PanicsShape
  <2>4. CASE /\ send
             /\ s' = [s EXCEPT !.lines = Tail(s.lines), !.bytes = s.bytes + 1, !.pc = "max-bytes"]
    <3>1. /\ s'.pc = "max-bytes" /\ s'.search = s.search /\ s'.name = s.name /\ s'.bytes = s.bytes + 1
          /\ s'.line = s.line
      BY <1>0, <2>1, <2>4 DEF SearchType
    <3>2. s'.bytes # 0
      BY <2>1, <3>1
    <3> QED BY <2>1, <2>4, <3>1, <3>2, SendingShape DEF Steady, Within
  <2>5. CASE /\ send
             /\ s' = [s EXCEPT !.lines = Tail(s.lines), !.bytes = s.bytes + 1, !.line = 0]
    <3>1. /\ s'.pc = "read" /\ s'.search = s.search /\ s'.bytes = s.bytes + 1 /\ s'.line = 0
      BY <1>0, <2>1, <2>5 DEF SearchType
    <3>2. s'.bytes # 0
      BY <2>1, <3>1
    <3> QED BY <2>1, <2>5, <3>1, <3>2, SendingShape DEF Steady, Within
  <2>6. CASE /\ send /\ Head(s.lines) # {}
             /\ s' = [s EXCEPT !.lines = Tail(s.lines), !.bytes = s.bytes + 1,
                               !.name = Head(s.lines), !.line = 1]
    <3>1. /\ s'.pc = "read" /\ s'.search = s.search /\ s'.bytes = s.bytes + 1 /\ s'.line = 1
          /\ s'.name # {}
      BY <1>0, <2>1, <2>6 DEF SearchType
    <3>2. s'.bytes # 0
      BY <2>1, <3>1
    <3> QED BY <2>1, <2>6, <3>1, <3>2, SendingShape DEF Steady, Within
  <2> QED BY <1>7, <2>2, <2>3, <2>4, <2>5, <2>6, ReadLineIs
<1>8. CASE ReadEOF
  <2>1. /\ UNCHANGED <<disk, query, wanted, changes>>
        /\ s.pc = "read" /\ s' \in SearchType /\ s.lines = << >> /\ s.todo = {}
    BY <1>8, ReadEOFIs
  <2>2. CASE Panics
    BY <2>1, <2>2, PanicsShape
  <2>3. CASE /\ send
             /\ s' = [s EXCEPT !.pc = "batch", !.name = {}, !.line = 0, !.bytes = 0,
                               !.left = s.left - s.bytes]
    <3>1. /\ s'.pc = "batch" /\ s'.search = s.search /\ s'.todo = {} /\ s'.lines = << >>
          /\ s'.name = {} /\ s'.line = 0 /\ s'.bytes = 0
      BY <1>0, <2>1, <2>3 DEF SearchType
    <3> QED BY <2>1, <2>3, <3>1, SendingShape DEF Steady, Within
  <2> QED BY <1>8, <2>2, <2>3, ReadEOFIs
<1>9. CASE Render
  <2>1. /\ UNCHANGED <<disk, query, sent, wanted, changes>> /\ s.pc \in Finished
        /\ s' = [s EXCEPT !.pc = "done"] /\ s' \in SearchType
        /\ Shaped(page') /\ page'.end = s.pc /\ page'.rows.last = page.rows.last
    BY <1>9, RenderIs
  <2>2. Going /\ s.pc # "command" /\ page'.end \in Ends
    BY <2>1 DEF Going, Finished, Ends
  <2> QED BY <2>1, <2>2, EndShape
<1>10. CASE Recover
  <2>1. /\ UNCHANGED <<disk, query, sent, wanted, changes>> /\ s.pc = "panic"
        /\ s' = [s EXCEPT !.pc = "done"] /\ s' \in SearchType
        /\ Shaped(page') /\ page'.end = "panic" /\ page'.rows.last = {}
    BY <1>10, RecoverIs
  <2>2. Going /\ s.pc # "command" /\ page'.end \in Ends
    BY <2>1 DEF Going, Ends
  <2> QED BY <2>1, <2>2, EndShape
<1>11. CASE Close
  <2>1. /\ s' = [NoSearch EXCEPT !.pc = "done"] /\ sent' = << >> /\ page' = NoPage /\ wanted' = << >>
        /\ changes' = changes
    BY <1>11 DEF Close
  <2>2. s' \in SearchType
    BY <2>1, NoSearchType DEF SearchType
  <2>3. s'.pc = "done" /\ s'.line = 0 /\ s'.bytes = 0 /\ s'.name = {}
    BY <2>1 DEF NoSearch
  <2>4. /\ page'.end = "none" /\ page'.rows.last = {}
        /\ page' = [end |-> page'.end, groups |-> page'.groups, rows |-> page'.rows]
        /\ page'.rows = [last |-> page'.rows.last, drop |-> page'.rows.drop, w |-> page'.rows.w]
    BY <2>1 DEF NoPage
  <2>5. ~(Going' \/ Answered')
    BY <2>3, <2>4 DEF Going, Answered, Finished
  <2>6. TypesOK'
    BY <2>1, <2>2, <2>5 DEF ShapeOK, TypesOK
  <2>7. PageOK'
    BY <2>3, <2>4 DEF PageOK, Ends
  <2>8. StageOK'
    BY <2>3, <2>5 DEF StageOK, Steady
  <2>9. Alive'
    BY <2>1 DEF Alive
  <2> QED BY <2>6, <2>7, <2>8, <2>9
<1>12. CASE UNCHANGED vars
  BY <1>12 DEF vars, ShapeOK, TypesOK, PageOK, StageOK, Steady, Alive, Going, Answered
<1>13. CASE RgFails
  <2>1. /\ Going /\ s.pc = "read" /\ s' \in SearchType /\ UNCHANGED <<disk, query, sent, page, changes>>
        /\ s'.pc \in {"read", "failed"} /\ s'.search = s.search /\ s'.name = s.name
        /\ s'.line = s.line /\ s'.bytes = s.bytes
        /\ wanted' \in Seq(WantedType) /\ Len(wanted') = Len(wanted)
        /\ \A n \in 1..Len(wanted) : wanted'[n].files \subseteq wanted[n].files
    BY <1>13, RgFailsIs
  <2>2. TypesOK'
    BY <2>1 DEF ShapeOK, TypesOK
  <2>3. PageOK'
    BY <2>1 DEF ShapeOK, PageOK
  <2>4. StageOK'
    BY <2>1 DEF ShapeOK, StageOK, Steady
  <2>5. Alive'
    <3>1. wanted \in Seq(WantedType) /\ DOMAIN wanted = 1..Len(wanted) /\ DOMAIN wanted' = 1..Len(wanted)
      BY <2>1 DEF ShapeOK, TypesOK
    <3> QED BY <2>1, <3>1 DEF ShapeOK, Alive
  <2> QED BY <2>2, <2>3, <2>4, <2>5
<1> QED BY <1>1, <1>2, <1>3, <1>4, <1>5, <1>6, <1>7, <1>8, <1>9, <1>10, <1>11, <1>12, <1>13
        DEF Next, SearchStep, Elsewhere

\* TypeOK holds in every reachable state: in particular no file is in the index
\* twice, and lines are captured of one file at a time.
THEOREM TypeCorrect == Spec => []TypeOK
<1>1. ShapeOK => TypeOK
  <2> SUFFICES ASSUME ShapeOK PROVE TypeOK
    OBVIOUS
  <2>1. /\ now \in 1..MaxTime /\ disk \in [Files -> 0..MaxTime]
        /\ \A f \in broken : f \in Files /\ IsTracker(f)
    BY DEF ShapeOK, WorldOK
  <2>2. loader.pc \in {"idle", "walk"} /\ loader.todo \subseteq Files
    <3>1. loader.todo \subseteq JobFiles /\ loader.pc \in {"idle", "walk"}
      BY DEF ShapeOK, WorldOK
    <3> QED BY <3>1 DEF JobFiles
  <2>3. \A i \in DOMAIN index : index[i].file \in JobFiles /\ index[i].age \in 1..MaxTime
    <3>1. \A i \in DOMAIN index : index[i] \in Aged
      BY DEF ShapeOK, WorldOK
    <3> QED BY <3>1 DEF Aged
  <2>4. \A i, j \in DOMAIN index : index[i].file = index[j].file => i = j
    <3> SUFFICES ASSUME NEW i \in DOMAIN index, NEW j \in DOMAIN index, index[i].file = index[j].file
                 PROVE  i = j
      OBVIOUS
    <3>1. DOMAIN index = 1..Len(index) /\ Len(index) \in Nat
      BY DEF ShapeOK, WorldOK
    <3>2. ~(i < j) /\ ~(j < i)
      BY DEF ShapeOK, WorldOK
    <3> QED BY <3>1, <3>2
  <2>5. s \in SearchType
    BY DEF ShapeOK, TypesOK
  <2>6. /\ s.pc \in {"idle", "command", "batch", "read", "done"} \cup Ends
        /\ s.line \in Nat /\ s.bytes \in Nat /\ s.todo \subseteq Files /\ s.name \in LineType
    BY <2>5 DEF SearchType
  <2>7. s.line > 0 => Cardinality(s.name) = 1
    <3> SUFFICES ASSUME s.line > 0 PROVE Cardinality(s.name) = 1
      OBVIOUS
    <3>1. s.name # {}
      BY DEF ShapeOK, StageOK, Steady
    <3>2. PICK f \in Files : s.name = {f}
      BY <2>6, <3>1 DEF LineType
    <3> QED BY <3>2, FS_Singleton
  <2>8. page.end \in Ends
    BY DEF ShapeOK, PageOK
  <2> QED BY <2>1, <2>2, <2>3, <2>4, <2>6, <2>7, <2>8 DEF TypeOK
<1> QED BY <1>1, InitShape, StepShape, PTL DEF Spec

-----------------------------------------------------------------------------
(* Panics.                                                                 *)

\* As long as nobody changed a file, a bug or an issue of which there is output is
\* there.
Touched ==
    changes = 0 /\ s.pc = "read" =>
        \A f \in Files : IsTracker(f) /\ (s.name = {f} \/ \E i \in DOMAIN s.lines : s.lines[i] = {f})
                            => disk[f] > 0

\* A panic has its cause in a file that could not be read all the time.
PanicCause ==
    s.pc = "panic" \/ page.end = "panic" =>
        \E f \in Files :
            /\ IsTracker(f) /\ f \notin known /\ s.name = {f}
            /\ f \notin wanted[s.search].sound
            /\ changes > 0 \/ f \in broken

\* A file of a bug or an issue that could be read all the time can be read.
Readable == \A n \in DOMAIN wanted : \A f \in wanted[n].sound : disk[f] > 0 /\ f \notin broken

\* Every step keeps it.
LEMMA StepReadable == ShapeOK /\ Readable /\ [Next]_vars => Readable'
<1> SUFFICES ASSUME ShapeOK, Readable, [Next]_vars PROVE Readable'
  OBVIOUS
<1>0. /\ wanted \in Seq(WantedType) /\ Len(wanted) \in Nat /\ DOMAIN wanted = 1..Len(wanted)
      /\ \A n \in 1..Len(wanted) : wanted[n] \in WantedType
      /\ disk \in [Files -> 0..MaxTime] /\ now \in 1..MaxTime
  BY DEF ShapeOK, TypesOK, WorldOK
<1>a. \A n \in 1..Len(wanted) : \A g \in wanted[n].sound : g \in Files
  BY <1>0 DEF WantedType
<1>1. CASE UNCHANGED <<disk, broken, wanted>>
  BY <1>1 DEF Readable
<1>2. ASSUME NEW f, wanted' = Without(f) \/ wanted' = Unsound(f)
      PROVE  /\ DOMAIN wanted' = 1..Len(wanted)
             /\ \A n \in 1..Len(wanted) : wanted'[n].sound = wanted[n].sound \ {f}
  <2>1. CASE wanted' = Without(f)
    <3>1. wanted' = [n \in 1..Len(wanted) |->
                        [wanted[n] EXCEPT !.files = @ \ {f}, !.sound = @ \ {f}]]
      BY <1>0, <2>1 DEF Without
    <3> QED BY <1>0, <3>1 DEF WantedType
  <2>2. CASE wanted' = Unsound(f)
    <3>1. wanted' = [n \in 1..Len(wanted) |-> [wanted[n] EXCEPT !.sound = @ \ {f}]]
      BY <1>0, <2>2 DEF Unsound
    <3> QED BY <1>0, <3>1 DEF WantedType
  <2> QED BY <1>2, <2>1, <2>2
<1>3. ASSUME NEW f \in Files, wanted' = Without(f) \/ wanted' = Unsound(f),
             \A g \in Files : g # f => disk'[g] = disk[g],
             \A g : g # f => (g \in broken' <=> g \in broken)
      PROVE  Readable'
  <2> SUFFICES ASSUME NEW n \in DOMAIN wanted', NEW g \in wanted'[n].sound
               PROVE  disk'[g] > 0 /\ g \notin broken'
    BY DEF Readable
  <2>1. n \in 1..Len(wanted) /\ wanted'[n].sound = wanted[n].sound \ {f}
    BY <1>2, <1>3
  <2>2. g # f /\ g \in Files /\ disk[g] > 0 /\ g \notin broken
    BY <1>0, <1>a, <2>1 DEF Readable
  <2> QED BY <1>3, <2>2
<1>4. CASE \E f \in Files : Change(f)
  <2>1. PICK f \in Files : Change(f)
    BY <1>4
  <2>2. \/ disk' = [disk EXCEPT ![f] = now] /\ broken' = broken \ {f} /\ wanted' = wanted
        \/ disk' = [disk EXCEPT ![f] = now] /\ broken' = broken \cup {f} /\ wanted' = Unsound(f)
        \/ disk' = [disk EXCEPT ![f] = 0] /\ broken' = broken \ {f} /\ wanted' = Without(f)
    BY <2>1 DEF Change
  <2>3. /\ \A g \in Files : g # f => disk'[g] = disk[g]
        /\ \A g : g # f => (g \in broken' <=> g \in broken)
    BY <1>0, <2>2
  <2>4. CASE disk' = [disk EXCEPT ![f] = now] /\ broken' = broken \ {f} /\ wanted' = wanted
    <3>1. \A g \in Files : disk[g] > 0 => disk'[g] > 0
      BY <1>0, <2>4
    <3> QED BY <1>0, <1>a, <2>4, <3>1 DEF Readable
  <2>5. CASE wanted' = Without(f) \/ wanted' = Unsound(f)
    BY <1>3, <2>3, <2>5
  <2> QED BY <2>2, <2>4, <2>5
<1>5. CASE \E f \in Files : Visit(f)
  <2>1. PICK f \in Files : Visit(f)
    BY <1>5
  <2>2. /\ broken' = broken
        /\ \/ disk' = disk /\ wanted' = wanted
           \/ disk' = [disk EXCEPT ![f] = 0] /\ wanted' = Without(f)
    BY <2>1 DEF Visit
  <2>3. \A g \in Files : g # f => disk'[g] = disk[g]
    BY <1>0, <2>2
  <2> QED BY <1>1, <1>3, <2>2, <2>3
<1>6. CASE Command
  <2>1. UNCHANGED <<disk, broken>> /\ (wanted' = wanted \/ wanted' = Append(wanted, Wanted))
    BY <1>6 DEF Command
  <2>2. CASE wanted' = Append(wanted, Wanted)
    <3>1. Wanted \in WantedType /\ \A g \in Wanted.sound : disk[g] > 0 /\ g \notin broken
      BY DEF Wanted, WantedType
    <3>2. \A n \in DOMAIN wanted' : wanted'[n] = Wanted \/ (n \in DOMAIN wanted /\ wanted'[n] = wanted[n])
      BY <1>0, <2>2, <3>1, AppendIs
    <3> QED BY <2>1, <3>1, <3>2 DEF Readable
  <2> QED BY <1>1, <2>1, <2>2
<1>7. CASE RgFails
  <2>1. /\ UNCHANGED <<disk, broken>> /\ wanted' \in Seq(WantedType) /\ Len(wanted') = Len(wanted)
        /\ \A n \in 1..Len(wanted) : wanted'[n].sound = wanted[n].sound
    BY <1>7, RgFailsIs
  <2>2. DOMAIN wanted' = 1..Len(wanted)
    BY <2>1
  <2> QED BY <1>0, <2>1, <2>2 DEF Readable
<1>8. CASE Close
  <2>1. wanted' = << >>
    BY <1>8 DEF Close
  <2> QED BY <2>1 DEF Readable
<1>9. CASE \/ Tick \/ Load \/ Publish \/ Request \/ StartBatch \/ NextSearch \/ ReadLine \/ ReadEOF
           \/ Render \/ Recover \/ (\E f \in Files : RgSearches(f)) \/ UNCHANGED vars
  <2>1. UNCHANGED <<disk, broken, wanted>>
    BY <1>9 DEF Tick, Load, Publish, Request, StartBatch, NextSearch, ReadLine, ReadEOF, Render,
                Recover, RgSearches, vars
  <2> QED BY <1>1, <2>1
<1> QED BY <1>4, <1>5, <1>6, <1>7, <1>8, <1>9 DEF Next, SearchStep, LoadStep

\* The output is of files that are there.
LEMMA StepTouched == ShapeOK /\ Touched /\ [Next]_vars => Touched'
<1> SUFFICES ASSUME ShapeOK, Touched, [Next]_vars, changes' = 0, s'.pc = "read",
                    NEW f \in Files, IsTracker(f),
                    s'.name = {f} \/ \E i \in DOMAIN s'.lines : s'.lines[i] = {f}
             PROVE  disk'[f] > 0
  BY DEF Touched, IsTracker
<1>0. s \in SearchType /\ changes \in Nat
  BY DEF ShapeOK, TypesOK
<1>1. CASE Elsewhere
  <2>1. /\ s' = s /\ changes' \in Nat /\ changes' >= changes
        /\ disk[f] > 0 /\ ~(disk'[f] > 0) => changes' > 0
    BY <1>1, ElsewhereIs
  <2>2. changes = 0
    BY <1>0, <2>1
  <2>3. disk[f] > 0
    BY <2>1, <2>2 DEF Touched
  <2> QED BY <2>1, <2>3
<1>2. CASE Request
  BY <1>2, RequestIs DEF NoSearch
<1>3. CASE Command
  BY <1>0, <1>3, CommandIs DEF SearchType
<1>4. CASE StartBatch
  <2>1. s.lines = << >>
    BY <1>4, StartBatchIs DEF ShapeOK, StageOK, Steady
  <2>2. s'.pc = "read" => s'.name = {} /\ s'.lines = s.lines
    BY <1>0, <1>4, StartBatchIs DEF SearchType
  <2> QED BY <2>1, <2>2
<1>5. CASE NextSearch \/ Render \/ Recover
  BY <1>0, <1>5, NextSearchIs, RenderIs, RecoverIs DEF SearchType
<1>6. CASE \E g \in Files : RgSearches(g)
  <2>1. PICK g \in Files : RgSearches(g)
    BY <1>6
  <2>2. PICK out \in Seq({{}, {g}}) :
             /\ out = IF disk[g] = 0 THEN << >> ELSE OutputOf(g)
             /\ s.pc = "read" /\ UNCHANGED <<disk, changes>>
             /\ s' = [s EXCEPT !.todo = s.todo \ {g}, !.any = s'.any, !.lines = s'.lines]
             /\ s'.lines \in Seq({{}, {g}})
             /\ s'.lines = out \/ (out # << >> /\ Head(out) = {} /\ s'.lines = Tail(out))
    BY <2>1, RgSearchesIs
  <2>3. s'.name = s.name
    <3>1. PICK a, l : s' = [s EXCEPT !.todo = s.todo \ {g}, !.any = a, !.lines = l]
      BY <2>2
    <3> QED BY <1>0, <3>1 DEF SearchType
  <2>4. CASE s.name = {f}
    BY <2>2, <2>4 DEF Touched
  <2>5. CASE \E i \in DOMAIN s'.lines : s'.lines[i] = {f}
    <3>1. PICK i \in DOMAIN s'.lines : s'.lines[i] = {f}
      BY <2>5
    <3>2. s'.lines[i] \in {{}, {g}}
      <4> DEFINE T == {{}, {g}}
      <4>1. s'.lines \in Seq(T)
        BY <2>2
      <4> HIDE DEF T
      <4>2. s'.lines[i] \in T
        BY <3>1, <4>1, ElementIs, Zenon
      <4> QED BY <4>2 DEF T
    <3>3. f = g
      BY <3>1, <3>2
    <3>4. s'.lines # << >>
      BY <3>1
    <3>5. disk[f] # 0
      BY <2>2, <3>3, <3>4
    <3>6. disk[f] \in 0..MaxTime /\ MaxTime \in Nat
      BY SearchAssumption DEF ShapeOK, WorldOK
    <3> QED BY <2>2, <3>5, <3>6
  <2> QED BY <2>3, <2>4, <2>5
<1>7. CASE ReadLine
  <2>1. /\ UNCHANGED <<disk, changes>> /\ s.pc = "read" /\ s.lines # << >>
        /\ s.lines \in Seq(LineType)
    BY <1>7, ReadLineIs
  <2>2. s'.lines = Tail(s.lines) /\ s'.name \in {s.name, Head(s.lines)}
    BY <1>0, <1>7, ReadLineIs DEF SearchType, Panics
  <2>3. /\ Head(s.lines) = s.lines[1] /\ 1 \in DOMAIN s.lines
        /\ \A i \in DOMAIN Tail(s.lines) : i + 1 \in DOMAIN s.lines /\ Tail(s.lines)[i] = s.lines[i + 1]
    BY <2>1
  <2>4. s.name = {f} \/ \E i \in DOMAIN s.lines : s.lines[i] = {f}
    BY <2>2, <2>3
  <2> QED BY <2>1, <2>4 DEF Touched
<1>8. CASE ReadEOF
  BY <1>0, <1>8, ReadEOFIs DEF SearchType, Panics
<1>9. CASE Close
  BY <1>9 DEF Close, NoSearch
<1>10. CASE UNCHANGED vars
  BY <1>10 DEF vars, Touched
<1>11. CASE RgFails
  <2>1. /\ s.pc = "read" /\ UNCHANGED <<disk, changes>> /\ s'.name = s.name /\ s'.lines = << >>
    BY <1>11, RgFailsIs
  <2> QED BY <2>1 DEF Touched
<1> QED BY <1>1, <1>2, <1>3, <1>4, <1>5, <1>6, <1>7, <1>8, <1>9, <1>10, <1>11
        DEF Next, SearchStep, Elsewhere

\* Where a panic starts, its cause is there.
LEMMA PanicsCause ==
    ASSUME ShapeOK, Touched, Readable, Panics, UNCHANGED <<wanted, changes, known, broken>>
    PROVE  PanicCause'
<1>1. s.pc = "read" /\ SendPanics /\ s' = [s EXCEPT !.pc = "panic"]
  BY DEF Panics
<1>2. s \in SearchType /\ changes \in Nat /\ wanted \in Seq(WantedType)
  BY DEF ShapeOK, TypesOK
<1>3. PICK f \in s.name : MetadataPanics(f)
  BY <1>1 DEF SendPanics
<1>4. f \in Files /\ s.name = {f}
  BY <1>2, <1>3 DEF SearchType, LineType
<1>5. IsTracker(f) /\ f \notin known /\ (disk[f] = 0 \/ f \in broken)
  BY <1>3 DEF MetadataPanics
<1>6. changes # 0 \/ f \in broken
  BY <1>1, <1>4, <1>5 DEF Touched
<1>7. s.search \in 1..Len(wanted)
  <2>1. s.search > 0 /\ Len(wanted) = s.search
    BY <1>1 DEF ShapeOK, StageOK, Going
  <2> QED BY <1>2, <2>1
<1>8. f \notin wanted[s.search].sound
  <2>1. s.search \in DOMAIN wanted
    BY <1>2, <1>7
  <2> QED BY <1>5, <2>1 DEF Readable
<1>9. s'.name = {f} /\ s'.search = s.search
  BY <1>1, <1>2, <1>4 DEF SearchType
<1>10. changes > 0 \/ f \in broken
  BY <1>2, <1>6
<1> QED BY <1>4, <1>5, <1>8, <1>9, <1>10 DEF PanicCause, IsTracker

\* Every step keeps it.
LEMMA StepPanicCause == ShapeOK /\ Touched /\ Readable /\ PanicCause /\ [Next]_vars => PanicCause'
<1> SUFFICES ASSUME ShapeOK, Touched, Readable, PanicCause, [Next]_vars PROVE PanicCause'
  OBVIOUS
<1>0. /\ s \in SearchType /\ changes \in Nat /\ wanted \in Seq(WantedType)
      /\ page.end = "none" \/ s.pc = "done"
  BY DEF ShapeOK, TypesOK, PageOK
<1>1. CASE Elsewhere
  <2> SUFFICES ASSUME s'.pc = "panic" \/ page'.end = "panic"
               PROVE  \E f \in Files : /\ IsTracker(f) /\ f \notin known' /\ s'.name = {f}
                                       /\ f \notin wanted'[s'.search].sound
                                       /\ changes' > 0 \/ f \in broken'
    BY DEF PanicCause, IsTracker
  <2>1. /\ s' = s /\ page' = page /\ known' = known /\ changes' \in Nat /\ changes' >= changes
        /\ broken' = broken \/ changes' > 0
        /\ \A n \in 1..Len(wanted) : wanted'[n].sound \subseteq wanted[n].sound
    BY <1>1, ElsewhereIs
  <2>2. PICK f \in Files : /\ IsTracker(f) /\ f \notin known /\ s.name = {f}
                           /\ f \notin wanted[s.search].sound
                           /\ changes > 0 \/ f \in broken
    BY <2>1 DEF PanicCause
  <2>3. s.search \in 1..Len(wanted)
    <3>1. s.search > 0 /\ Len(wanted) = s.search
      BY <1>0, <2>1 DEF ShapeOK, StageOK, Going, Answered
    <3> QED BY <1>0, <3>1
  <2>4. f \notin wanted'[s'.search].sound /\ (changes' > 0 \/ f \in broken')
    BY <1>0, <2>1, <2>2, <2>3
  <2> QED BY <2>1, <2>2, <2>4
<1>2. CASE Request
  <2>1. s'.pc # "panic" /\ page'.end # "panic"
    <3>1. CASE s'.pc = "done" /\ \E e \in {"bad", "empty"} :
                  page' = [end |-> e, groups |-> << >>, rows |-> NoPage.rows]
      BY <3>1
    <3>2. CASE /\ s' = [NoSearch EXCEPT !.pc = "command", !.search = 1, !.start = now]
               /\ page' = NoPage
      BY <3>2 DEF NoSearch, NoPage
    <3> QED BY <1>2, <3>1, <3>2, RequestIs
  <2> QED BY <2>1 DEF PanicCause
<1>3. CASE Command
  <2>1. s'.pc # "panic" /\ page'.end # "panic"
    <3>1. CASE /\ s'.pc = "done"
               /\ page' = [end |-> "disabled", groups |-> << >>, rows |-> NoPage.rows]
      BY <3>1
    <3>2. CASE /\ s' = [s EXCEPT !.pc = "batch", !.left = query.maxBytes,
                                 !.paths = SearchPaths \o Directories(query.type),
                                 !.all = index = << >>]
               /\ page' = page /\ s.pc = "command"
      BY <1>0, <3>2 DEF SearchType
    <3> QED BY <1>3, <3>1, <3>2, CommandIs
  <2> QED BY <2>1 DEF PanicCause
<1>4. CASE StartBatch \/ NextSearch
  <2>1. s'.pc # "panic" /\ page'.end = page.end /\ s.pc = "batch"
    BY <1>0, <1>4, StartBatchIs, NextSearchIs DEF SearchType
  <2> QED BY <1>0, <2>1 DEF PanicCause
<1>5. CASE \E f \in Files : RgSearches(f)
  <2>1. PICK f \in Files : RgSearches(f)
    BY <1>5
  <2>2. /\ s.pc = "read" /\ page' = page
        /\ s' = [s EXCEPT !.todo = s.todo \ {f}, !.any = s'.any, !.lines = s'.lines]
    BY <2>1, RgSearchesIs
  <2>3. s'.pc = s.pc
    <3>1. PICK a, l : s' = [s EXCEPT !.todo = s.todo \ {f}, !.any = a, !.lines = l]
      BY <2>2
    <3> QED BY <1>0, <3>1 DEF SearchType
  <2> QED BY <1>0, <2>2, <2>3 DEF PanicCause
<1>6. CASE ReadLine
  <2>1. UNCHANGED <<wanted, changes, known, broken>> /\ s.pc = "read"
    BY <1>6 DEF ReadLine
  <2>2. CASE Panics
    BY <2>1, <2>2, PanicsCause
  <2>3. CASE ~Panics
    <3>1. s'.pc # "panic"
      BY <1>0, <1>6, <2>1, <2>3, ReadLineIs DEF SearchType
    <3>2. page'.end = page.end
      BY <1>6, <2>1, <2>3, ReadLineIs, SendIs
    <3> QED BY <1>0, <2>1, <3>1, <3>2 DEF PanicCause
  <2> QED BY <2>2, <2>3
<1>7. CASE ReadEOF
  <2>1. UNCHANGED <<wanted, changes, known, broken>> /\ s.pc = "read"
    BY <1>7 DEF ReadEOF
  <2>2. CASE Panics
    BY <2>1, <2>2, PanicsCause
  <2>3. CASE ~Panics
    <3>1. s'.pc # "panic" /\ send
      BY <1>0, <1>7, <2>3, ReadEOFIs DEF SearchType
    <3>2. page'.end = page.end
      BY <2>1, <3>1, SendIs
    <3> QED BY <1>0, <2>1, <3>1, <3>2 DEF PanicCause
  <2> QED BY <2>2, <2>3
<1>8. CASE Render
  <2>1. s'.pc # "panic" /\ page'.end # "panic"
    BY <1>0, <1>8, RenderIs DEF SearchType, Finished
  <2> QED BY <2>1 DEF PanicCause
<1>9. CASE Recover
  <2>1. s.pc = "panic" /\ s'.name = s.name /\ s'.search = s.search /\ UNCHANGED <<wanted, changes>>
    BY <1>0, <1>9, RecoverIs DEF SearchType
  <2>2. UNCHANGED <<known, broken>>
    BY <1>9 DEF Recover
  <2> QED BY <2>1, <2>2 DEF PanicCause, IsTracker
<1>10. CASE Close
  <2>1. s'.pc # "panic" /\ page'.end # "panic"
    BY <1>10 DEF Close, NoSearch, NoPage
  <2> QED BY <2>1 DEF PanicCause
<1>11. CASE UNCHANGED vars
  BY <1>11 DEF vars, PanicCause
<1>12. CASE RgFails
  <2>1. s.pc = "read" /\ s'.pc # "panic" /\ page' = page
    BY <1>12, RgFailsIs
  <2> QED BY <1>0, <2>1 DEF PanicCause
<1> QED BY <1>1, <1>2, <1>3, <1>4, <1>5, <1>6, <1>7, <1>8, <1>9, <1>10, <1>11, <1>12
        DEF Next, SearchStep, Elsewhere

\* A handler panics only for a bug or an issue that is not in memory and whose
\* file could not be read all the time since the pattern's turn came: somebody
\* removed it or wrote something else to it, or it is as broken as it was.
THEOREM PanicsOnlyForUnreadable == Spec => []PanicOnlyIfUnreadable
<1>1. Init => Touched /\ Readable /\ PanicCause
  BY DEF Init, Touched, Readable, PanicCause, NoSearch, NoPage
<1>2. PanicCause => PanicOnlyIfUnreadable
  BY DEF PanicCause, PanicOnlyIfUnreadable
<1> QED BY <1>1, <1>2, InitShape, StepShape, StepTouched, StepReadable, StepPanicCause, PTL DEF Spec

-----------------------------------------------------------------------------
(* The lines that were sent, and those that are still to be.               *)

Weights(q) == [i \in DOMAIN q |-> q[i].shown + q[i].more]
Heard(q, n) == {i \in DOMAIN q : q[i].search = n}
HeardOf(q, n, f) == {i \in DOMAIN q : q[i].search = n /\ q[i].file = f}

\* Sums over matches that were sent do not change, and one match more adds its lines.
LEMMA AppendSums ==
    ASSUME NEW q \in Seq(MatchType), NEW m \in MatchType, NEW P, P \subseteq DOMAIN q
    PROVE  /\ SumAt(Weights(q), P) \in Nat
           /\ SumAt(Weights(Append(q, m)), P) = SumAt(Weights(q), P)
           /\ SumAt(Weights(Append(q, m)), P \cup {Len(q) + 1}) = SumAt(Weights(q), P) + (m.shown + m.more)
<1> DEFINE q2 == Append(q, m)
           w == Weights(q)
           w2 == Weights(q2)
           k == Len(q) + 1
<1>1. /\ q2 \in Seq(MatchType) /\ Len(q) \in Nat /\ DOMAIN q = 1..Len(q) /\ DOMAIN q2 = 1..k
      /\ \A i \in 1..Len(q) : i \in DOMAIN q2 /\ q2[i] = q[i]
      /\ q2[k] = m
  BY AppendIs
<1>2. \A i \in DOMAIN q : q[i] \in MatchType
  BY ElementIs
<1> HIDE DEF q2
<1>3. \A i \in P : w[i] \in Nat /\ w2[i] = w[i] /\ w2[i] \in Nat
  <2> SUFFICES ASSUME NEW i \in P PROVE w[i] \in Nat /\ w2[i] = w[i]
    OBVIOUS
  <2>1. i \in DOMAIN q /\ i \in DOMAIN q2 /\ q2[i] = q[i]
    BY <1>1
  <2>2. q[i].shown \in Nat /\ q[i].more \in Nat
    BY <1>2, <2>1 DEF MatchType
  <2> QED BY <2>1, <2>2 DEF Weights
<1>4. w2[k] = m.shown + m.more /\ w2[k] \in Nat
  <2>1. k \in DOMAIN q2 /\ m.shown \in Nat /\ m.more \in Nat
    BY <1>1 DEF MatchType
  <2> QED BY <1>1, <2>1 DEF Weights
<1>5. IsFiniteSet(P)
  <2>1. 1 \in Int /\ Len(q) \in Int
    BY <1>1
  <2>2. IsFiniteSet(1..Len(q))
    BY <2>1, FS_Interval
  <2>3. P \in SUBSET (1..Len(q))
    BY <1>1
  <2> QED BY <2>2, <2>3, FS_Subset
<1>6. k \notin P
  BY <1>1
<1> HIDE DEF w, w2, k
<1>7. SumAt(w, P) \in Nat
  BY <1>3, <1>5, SumAtIs
<1>8. SumAt(w2, P) = SumAt(w, P)
  <2>1. {{i} \X (1..w2[i]) : i \in P} = {{i} \X (1..w[i]) : i \in P}
    BY <1>3
  <2> QED BY <2>1 DEF SumAt
<1>9. SumAt(w2, P \cup {k}) = SumAt(w2, P) + w2[k]
  BY <1>3, <1>4, <1>5, <1>6, SumAtIs
<1> QED BY <1>4, <1>7, <1>8, <1>9 DEF w, w2, k, q2

\* The sums of a pattern, and of a pattern and a file.
LEMMA SentSums ==
    ASSUME sent \in Seq(MatchType), NEW n
    PROVE  /\ Received(n) = SumAt(Weights(sent), Heard(sent, n)) /\ Received(n) \in Nat
           /\ Heard(sent, n) = {} => Received(n) = 0
           /\ \A f : /\ Lines(n, f) = SumAt(Weights(sent), HeardOf(sent, n, f)) /\ Lines(n, f) \in Nat
                     /\ HeardOf(sent, n, f) = {} => Lines(n, f) = 0
<1>1. Received(n) = SumAt(Weights(sent), Heard(sent, n))
  BY DEF Received, LinesOf, Weights, Heard
<1>2. \A f : Lines(n, f) = SumAt(Weights(sent), HeardOf(sent, n, f))
  BY DEF Lines, LinesOf, Weights, HeardOf
<1>3. /\ IsFiniteSet(DOMAIN sent)
      /\ \A i \in DOMAIN sent : Weights(sent)[i] \in Nat
  <2>1. DOMAIN sent = 1..Len(sent) /\ Len(sent) \in Nat
    OBVIOUS
  <2>2. \A i \in DOMAIN sent : sent[i] \in MatchType
    BY ElementIs
  <2>3. \A i \in DOMAIN sent : sent[i].shown + sent[i].more \in Nat
    BY <2>2 DEF MatchType
  <2> QED BY <2>1, <2>3, FS_Interval DEF Weights
<1>4. \A P \in SUBSET DOMAIN sent : SumAt(Weights(sent), P) \in Nat /\ SumAt(Weights(sent), {}) = 0
  <2> SUFFICES ASSUME NEW P \in SUBSET DOMAIN sent
               PROVE  SumAt(Weights(sent), P) \in Nat /\ SumAt(Weights(sent), {}) = 0
    OBVIOUS
  <2>1. IsFiniteSet(P) /\ \A i \in P : Weights(sent)[i] \in Nat
    BY <1>3, FS_Subset
  <2> QED BY <2>1, SumAtIs
<1>5. Heard(sent, n) \in SUBSET DOMAIN sent /\ \A f : HeardOf(sent, n, f) \in SUBSET DOMAIN sent
  BY DEF Heard, HeardOf
<1> QED BY <1>1, <1>2, <1>4, <1>5

\* send adds the lines captured to the sums of its pattern and its file.
LEMMA SendSums ==
    ASSUME ShapeOK, s.pc = "read", send, NEW n
    PROVE  /\ Received(n)' = Received(n) + (IF n = s.search THEN s.line ELSE 0)
           /\ \A f \in Files : Lines(n, f)' = Lines(n, f) + (IF n = s.search /\ s.name = {f} THEN s.line ELSE 0)
<1>1. sent \in Seq(MatchType) /\ s.line \in Nat
  BY DEF ShapeOK, TypesOK, SearchType
<1>2. /\ sent' \in Seq(MatchType) /\ s.line = 0 => sent' = sent
  BY SendIs
<1>3. /\ Received(n) = SumAt(Weights(sent), Heard(sent, n)) /\ Received(n) \in Nat
      /\ \A f : Lines(n, f) = SumAt(Weights(sent), HeardOf(sent, n, f)) /\ Lines(n, f) \in Nat
  BY <1>1, SentSums
<1>4. /\ Received(n)' = SumAt(Weights(sent'), Heard(sent', n))
      /\ \A f : Lines(n, f)' = SumAt(Weights(sent'), HeardOf(sent', n, f))
  BY DEF Received, Lines, LinesOf, Weights, Heard, HeardOf
<1>5. CASE s.line = 0
  <2>1. sent' = sent
    BY <1>2, <1>5, SendIs
  <2>2. Received(n)' = Received(n) /\ \A f : Lines(n, f)' = Lines(n, f)
    BY <1>3, <1>4, <2>1
  <2> QED BY <1>3, <1>5, <2>2
<1>6. CASE s.line > 0
  <2>1. PICK m \in MatchType : /\ sent' = Append(sent, m) /\ m.search = s.search /\ s.name = {m.file}
                               /\ m.shown + m.more = s.line
    BY <1>6, SendIs
  <2> DEFINE q == Append(sent, m)
             k == Len(sent) + 1
  <2>2. /\ DOMAIN sent = 1..Len(sent) /\ Len(sent) \in Nat /\ DOMAIN q = 1..k
        /\ \A i \in 1..Len(sent) : i \in DOMAIN q /\ q[i] = sent[i]
        /\ q[k] = m /\ k \in DOMAIN q
        /\ \A i \in DOMAIN q : i \in DOMAIN sent \/ i = k
    BY <1>1, AppendIs
  <2> HIDE DEF q
  <2>3. Heard(q, n) = Heard(sent, n) \cup (IF n = s.search THEN {k} ELSE {})
    BY <2>1, <2>2 DEF Heard
  <2>4. ASSUME NEW f \in Files
        PROVE  HeardOf(q, n, f) = HeardOf(sent, n, f) \cup (IF n = s.search /\ s.name = {f} THEN {k} ELSE {})
    <3>1. s.name = {f} <=> m.file = f
      BY <2>1
    <3> QED BY <2>1, <2>2, <3>1 DEF HeardOf
  <2>5. Heard(sent, n) \subseteq DOMAIN sent /\ \A f : HeardOf(sent, n, f) \subseteq DOMAIN sent
    BY DEF Heard, HeardOf
  <2>6. \A P \in SUBSET DOMAIN sent :
           /\ SumAt(Weights(q), P) = SumAt(Weights(sent), P) /\ SumAt(Weights(sent), P) \in Nat
           /\ SumAt(Weights(q), P \cup {k}) = SumAt(Weights(sent), P) + s.line
    BY <1>1, <2>1, AppendSums DEF q
  <2>7. Received(n)' = Received(n) + (IF n = s.search THEN s.line ELSE 0)
    <3>1. CASE n = s.search
      <4>1. Heard(q, n) = Heard(sent, n) \cup {k}
        BY <2>3, <3>1
      <4> QED BY <1>3, <1>4, <2>1, <2>5, <2>6, <3>1, <4>1 DEF q
    <3>2. CASE n # s.search
      <4>1. Heard(q, n) = Heard(sent, n)
        BY <2>3, <3>2
      <4>2. Received(n)' = SumAt(Weights(q), Heard(sent, n))
        BY <1>4, <2>1, <4>1 DEF q
      <4>3. Received(n)' = Received(n)
        BY <1>3, <2>5, <2>6, <4>2
      <4> QED BY <1>3, <3>2, <4>3
    <3> QED BY <3>1, <3>2
  <2>8. ASSUME NEW f \in Files
        PROVE  Lines(n, f)' = Lines(n, f) + (IF n = s.search /\ s.name = {f} THEN s.line ELSE 0)
    <3>0. Lines(n, f) = SumAt(Weights(sent), HeardOf(sent, n, f)) /\ Lines(n, f) \in Nat
          /\ Lines(n, f)' = SumAt(Weights(q), HeardOf(q, n, f)) /\ HeardOf(sent, n, f) \in SUBSET DOMAIN sent
      BY <1>3, <1>4, <2>1, <2>5 DEF q
    <3>1. CASE n = s.search /\ s.name = {f}
      <4>1. HeardOf(q, n, f) = HeardOf(sent, n, f) \cup {k}
        BY <2>4, <3>1
      <4> QED BY <2>6, <3>0, <3>1, <4>1
    <3>2. CASE ~(n = s.search /\ s.name = {f})
      <4>1. HeardOf(q, n, f) = HeardOf(sent, n, f)
        BY <2>4, <3>2
      <4>2. Lines(n, f)' = Lines(n, f)
        BY <2>6, <3>0, <4>1
      <4> QED BY <3>0, <3>2, <4>2
    <3> QED BY <3>1, <3>2
  <2> QED BY <2>7, <2>8
<1> QED BY <1>1, <1>5, <1>6

CountIn(q, f) == Occurrences(q, {f})
Pending(f) == IF s.name = {f} THEN s.line ELSE 0

\* The lines of a file in a list.
LEMMA CountInIs ==
    ASSUME NEW T, NEW q \in Seq(T), NEW f
    PROVE  /\ CountIn(q, f) \in Nat
           /\ CountIn(<< >>, f) = 0
           /\ q # << >> => /\ CountIn(Tail(q), f) \in Nat
                           /\ CountIn(q, f) = CountIn(Tail(q), f) + (IF Head(q) = {f} THEN 1 ELSE 0)
           /\ (\A i \in DOMAIN q : q[i] # {f}) => CountIn(q, f) = 0
<1>1. DOMAIN q = 1..Len(q) /\ Len(q) \in Nat
  OBVIOUS
<1>2. IsFiniteSet(1..Len(q))
  BY <1>1, FS_Interval
<1>3. {i \in DOMAIN q : q[i] = {f}} \in SUBSET (1..Len(q))
  BY <1>1
<1>4. CountIn(q, f) \in Nat
  BY <1>2, <1>3, FS_Subset, FS_CardinalityType DEF CountIn, Occurrences
<1>5. CountIn(<< >>, f) = 0
  <2>1. {i \in DOMAIN << >> : << >>[i] = {f}} = {}
    OBVIOUS
  <2> QED BY <2>1, FS_EmptySet DEF CountIn, Occurrences
<1>6. q # << >> => /\ CountIn(Tail(q), f) \in Nat
                   /\ CountIn(q, f) = CountIn(Tail(q), f) + (IF Head(q) = {f} THEN 1 ELSE 0)
  <2> SUFFICES ASSUME q # << >>
               PROVE  /\ CountIn(Tail(q), f) \in Nat
                      /\ CountIn(q, f) = CountIn(Tail(q), f) + (IF Head(q) = {f} THEN 1 ELSE 0)
    OBVIOUS
  <2> QED BY CountTail DEF CountIn
<1>7. (\A i \in DOMAIN q : q[i] # {f}) => CountIn(q, f) = 0
  <2>1. (\A i \in DOMAIN q : q[i] # {f}) => {i \in DOMAIN q : q[i] = {f}} = {}
    OBVIOUS
  <2> QED BY <2>1, FS_EmptySet DEF CountIn, Occurrences
<1> QED BY <1>4, <1>5, <1>6, <1>7

\* What ripgrep writes has every line of the file, if it is there, and no other.
LEMMA RgSearchesCounts ==
    ASSUME ShapeOK, NEW f \in Files, RgSearches(f), NEW g \in Files
    PROVE  /\ CountIn(s.lines, g) = 0
           /\ CountIn(s'.lines, g) = IF g = f /\ disk[f] # 0 THEN OutputLines(f) ELSE 0
<1> DEFINE T == {{}, {f}}
<1>1. PICK out \in Seq(T) :
        /\ out = IF disk[f] = 0 THEN << >> ELSE OutputOf(f)
        /\ s.lines = << >> /\ query \in QueryType
        /\ s'.lines \in Seq(T)
        /\ s'.lines = out \/ (out # << >> /\ Head(out) = {} /\ s'.lines = Tail(out))
  BY RgSearchesIs
<1>2. CountIn(out, g) \in Nat /\ CountIn(<< >>, g) = 0 /\ {} # {g}
  BY CountInIs
<1>3. CountIn(s'.lines, g) = CountIn(out, g)
  <2>1. out # << >> => /\ CountIn(Tail(out), g) \in Nat
                       /\ CountIn(out, g) = CountIn(Tail(out), g) + (IF Head(out) = {g} THEN 1 ELSE 0)
    BY CountInIs
  <2>2. out # << >> /\ Head(out) = {} => CountIn(out, g) = CountIn(Tail(out), g)
    <3> SUFFICES ASSUME out # << >>, Head(out) = {} PROVE CountIn(out, g) = CountIn(Tail(out), g)
      OBVIOUS
    <3>1. CountIn(out, g) = CountIn(Tail(out), g) + 0 /\ CountIn(Tail(out), g) \in Nat
      BY <1>2, <2>1, Zenon
    <3> HIDE DEF T
    <3> QED BY <3>1
  <2> HIDE DEF T
  <2> QED BY <1>1, <2>2
<1>4. CASE disk[f] = 0
  <2> HIDE DEF T
  <2> QED BY <1>1, <1>2, <1>3, <1>4
<1>5. CASE disk[f] # 0 /\ g = f
  <2>1. out = OutputOf(f)
    BY <1>1, <1>5, Zenon
  <2>2. OutputLines(f) = CountIn(OutputOf(f), f)
    BY <1>1, OutputIs DEF CountIn, Occurrences
  <2> HIDE DEF T
  <2> QED BY <1>1, <1>2, <1>3, <1>5, <2>1, <2>2
<1>6. CASE g # f
  <2>1. \A i \in DOMAIN out : out[i] \in T
    BY ElementIs, Zenon
  <2>2. \A i \in DOMAIN out : out[i] # {g}
    BY <1>6, <2>1
  <2>3. CountIn(out, g) = 0
    BY <2>2, CountInIs
  <2> HIDE DEF T
  <2> QED BY <1>1, <1>2, <1>3, <1>6, <2>3
<1> QED BY <1>4, <1>5, <1>6

\* No file has more lines than ripgrep writes for it, captured and to be read, and none
\* at all before it is searched.
Searched ==
    s.pc = "read" =>
        \A f \in Files : /\ f \in s.todo => s.name # {f} /\ CountIn(s.lines, f) = 0
                         /\ Pending(f) + CountIn(s.lines, f) <= OutputLines(f)

\* Every step keeps it.
LEMMA StepSearched == ShapeOK /\ Searched /\ [Next]_vars => Searched'
<1> SUFFICES ASSUME ShapeOK, Searched, [Next]_vars, s'.pc = "read", NEW f \in Files
             PROVE  /\ f \in s'.todo => s'.name # {f} /\ CountIn(s'.lines, f) = 0
                    /\ Pending(f)' + CountIn(s'.lines, f) <= OutputLines(f)'
  BY DEF Searched, CountIn, Occurrences
<1>0. /\ s \in SearchType /\ s.lines \in Seq(LineType) /\ s.line \in Nat
      /\ s.pc \in {"read", "batch"} => query \in QueryType
  BY DEF ShapeOK, TypesOK, SearchType, Going
<1>a. CountIn(s.lines, f) \in Nat /\ CountIn(<< >>, f) = 0
  BY <1>0, CountInIs
<1>b. query' = query => OutputLines(f)' = OutputLines(f)
  BY DEF OutputLines, OutputOf
<1>c. query \in QueryType => OutputLines(f) \in Nat
  BY OutputIs
<1>d. Pending(f) \in Nat /\ (s.name # {f} => Pending(f) = 0)
  BY <1>0 DEF Pending
<1>1. CASE Elsewhere \/ UNCHANGED vars
  <2>1. s' = s /\ query' = query
    BY <1>1, ElsewhereIs DEF vars
  <2> QED BY <1>b, <2>1 DEF Searched, Pending
<1>2. CASE Request
  BY <1>2, RequestIs DEF NoSearch
<1>3. CASE Command
  BY <1>0, <1>3, CommandIs DEF SearchType
<1>4. CASE StartBatch
  <2>1. s.lines = << >> /\ s.pc = "batch" /\ query' = query
    BY <1>4, StartBatchIs DEF ShapeOK, StageOK, Steady
  <2>2. s'.name = {} /\ s'.lines = s.lines
    BY <1>0, <1>4, StartBatchIs DEF SearchType
  <2>3. Pending(f)' = 0
    BY <2>2 DEF Pending
  <2>4. OutputLines(f)' \in Nat
    BY <1>0, <1>b, <1>c, <2>1
  <2> QED BY <1>a, <2>1, <2>2, <2>3, <2>4
<1>5. CASE NextSearch \/ Render \/ Recover
  BY <1>0, <1>5, NextSearchIs, RenderIs, RecoverIs DEF SearchType
<1>6. CASE \E g \in Files : RgSearches(g)
  <2>1. PICK g \in Files : RgSearches(g)
    BY <1>6
  <2>2. /\ s.pc = "read" /\ g \in s.todo /\ query' = query
        /\ s' = [s EXCEPT !.todo = s.todo \ {g}, !.any = s'.any, !.lines = s'.lines]
    BY <2>1, RgSearchesIs
  <2>3. s'.name = s.name /\ s'.line = s.line /\ s'.todo = s.todo \ {g}
    <3>1. PICK a, l : s' = [s EXCEPT !.todo = s.todo \ {g}, !.any = a, !.lines = l]
      BY <2>2
    <3> QED BY <1>0, <3>1 DEF SearchType
  <2>4. /\ CountIn(s.lines, f) = 0
        /\ CountIn(s'.lines, f) = IF f = g /\ disk[g] # 0 THEN OutputLines(g) ELSE 0
    BY <2>1, RgSearchesCounts
  <2>5. Pending(f)' = Pending(f) /\ OutputLines(f)' = OutputLines(f) /\ OutputLines(f) \in Nat
    BY <1>0, <1>b, <1>c, <2>2, <2>3 DEF Pending
  <2>6. /\ f \in s.todo => s.name # {f}
        /\ Pending(f) + 0 <= OutputLines(f)
    BY <2>2, <2>4 DEF Searched
  <2>7. CASE f = g
    <3>1. Pending(f) = 0 /\ s'.name # {f} /\ f \notin s'.todo
      BY <1>d, <2>2, <2>3, <2>6, <2>7
    <3> QED BY <2>4, <2>5, <2>7, <3>1
  <2>8. CASE f # g
    <3>1. CountIn(s'.lines, f) = 0
      BY <2>4, <2>8
    <3> QED BY <2>3, <2>5, <2>6, <3>1
  <2> QED BY <2>7, <2>8
<1>7. CASE ReadLine
  <2>1. s.pc = "read" /\ s.lines # << >> /\ query' = query
    BY <1>7, ReadLineIs
  <2> DEFINE h == IF Head(s.lines) = {f} THEN 1 ELSE 0
  <2>2. CountIn(Tail(s.lines), f) \in Nat /\ CountIn(s.lines, f) = CountIn(Tail(s.lines), f) + h
    BY <1>0, <2>1, CountInIs
  <2>3. OutputLines(f)' = OutputLines(f) /\ OutputLines(f) \in Nat
    BY <1>0, <1>b, <1>c, <2>1
  <2>4. /\ f \in s.todo => s.name # {f} /\ CountIn(s.lines, f) = 0
        /\ Pending(f) + CountIn(s.lines, f) <= OutputLines(f)
    BY <2>1 DEF Searched
  <2>5. s'.lines = Tail(s.lines) /\ s'.todo = s.todo
    BY <1>0, <1>7, ReadLineIs DEF SearchType, Panics
  <2>6. CountIn(s'.lines, f) = CountIn(Tail(s.lines), f)
    BY <2>5
  <2>7. CASE Head(s.lines) = s.name /\ s'.name = s.name /\ s'.line = s.line + 1
    <3>1. CASE s.name = {f}
      <4>1. h = 1 /\ Pending(f)' = Pending(f) + 1 /\ f \notin s.todo
        BY <2>4, <2>7, <3>1 DEF Pending
      <4> HIDE DEF h
      <4> QED BY <1>d, <2>2, <2>3, <2>4, <2>5, <2>6, <4>1
    <3>2. CASE s.name # {f}
      <4>1. h = 0 /\ Pending(f)' = 0 /\ Pending(f) = 0 /\ s'.name # {f}
        BY <2>7, <3>2 DEF Pending
      <4> HIDE DEF h
      <4> QED BY <2>2, <2>3, <2>4, <2>5, <2>6, <4>1
    <3> QED BY <3>1, <3>2
  <2>8. CASE Head(s.lines) = {} /\ s'.name = s.name /\ s'.line = 0
    <3>1. h = 0 /\ Pending(f)' = 0
      BY <2>8 DEF Pending
    <3> HIDE DEF h
    <3> QED BY <1>d, <2>2, <2>3, <2>4, <2>5, <2>6, <2>8, <3>1
  <2>9. CASE s'.name = Head(s.lines) /\ s'.line = 1
    <3>1. CASE Head(s.lines) = {f}
      <4>1. h = 1 /\ Pending(f)' = 1
        BY <2>9, <3>1 DEF Pending
      <4> HIDE DEF h
      <4>2. f \notin s.todo
        BY <2>2, <2>4, <4>1
      <4> QED BY <1>d, <2>2, <2>3, <2>4, <2>5, <2>6, <4>1, <4>2
    <3>2. CASE Head(s.lines) # {f}
      <4>1. h = 0 /\ Pending(f)' = 0 /\ s'.name # {f}
        BY <2>9, <3>2 DEF Pending
      <4> HIDE DEF h
      <4> QED BY <1>d, <2>2, <2>3, <2>4, <2>5, <2>6, <4>1
    <3> QED BY <3>1, <3>2
  <2> QED BY <1>0, <1>7, <2>7, <2>8, <2>9, ReadLineIs DEF SearchType, Panics
<1>8. CASE ReadEOF
  BY <1>0, <1>8, ReadEOFIs DEF SearchType, Panics
<1>9. CASE Close
  BY <1>9 DEF Close, NoSearch
<1>10. CASE RgFails
  <2>1. /\ s.pc = "read" /\ query' = query /\ s'.name = s.name /\ s'.line = s.line
        /\ s'.todo = {} /\ s'.lines = << >>
    BY <1>10, RgFailsIs
  <2>2. Pending(f) + CountIn(s.lines, f) <= OutputLines(f)
    BY <2>1 DEF Searched
  <2>3. Pending(f)' = Pending(f) /\ OutputLines(f)' = OutputLines(f) /\ OutputLines(f) \in Nat
    BY <1>0, <1>b, <1>c, <2>1 DEF Pending
  <2> QED BY <1>a, <1>d, <2>1, <2>2, <2>3
<1> QED BY <1>1, <1>2, <1>3, <1>4, <1>5, <1>6, <1>7, <1>8, <1>9, <1>10
        DEF Next, SearchStep, Elsewhere

-----------------------------------------------------------------------------
(* The limit on what is read.                                              *)

\* The longest output of a file.
LEMMA LongestFileIs ==
    ASSUME query \in QueryType
    PROVE  LongestFile \in Nat /\ \A f \in Files : OutputLines(f) \in Nat /\ OutputLines(f) <= LongestFile
<1> DEFINE L == {OutputLines(f) : f \in Files}
           S == L \cup {0}
<1>1. \A f \in Files : OutputLines(f) \in Nat
  BY OutputIs
<1>2. IsFiniteSet(L)
  <2> DEFINE g == [f \in Files |-> OutputLines(f)]
  <2>1. g \in Surjection(Files, L)
    BY DEF Surjection
  <2>2. IsFiniteSet(Files)
    BY SearchAssumption
  <2> QED BY <2>1, <2>2, FS_Surjection
<1>3. IsFiniteSet(S)
  BY <1>2, FS_AddElement
<1>4. S \subseteq Nat /\ S # {}
  BY <1>1
<1>5. \A f \in Files : OutputLines(f) \in S
  OBVIOUS
<1> HIDE DEF S
<1>6. \E x \in S : \A y \in S : x >= y
  BY <1>3, <1>4, HasGreatest
<1>7. LongestFile = CHOOSE x \in S : \A y \in S : x >= y
  BY DEF LongestFile, Max, S
<1>8. LongestFile \in S /\ \A y \in S : LongestFile >= y
  BY <1>6, <1>7
<1> QED BY <1>1, <1>4, <1>5, <1>8

\* What a pattern sent, and has captured, it has read, and a command reads beyond
\* what is left only within a file.
Budget ==
    /\ s.pc = "batch" => Received(s.search) <= query.maxBytes - s.left /\ 0 <= s.left + LongestFile
    /\ s.pc = "read" => /\ Received(s.search) + s.line <= query.maxBytes - s.left + s.bytes
                        /\ s.bytes = 0 \/ s.bytes <= s.left + s.line
                        /\ 0 <= s.left + LongestFile
    /\ s.pc \in Finished \/ page.end \in Finished => Received(s.search) <= query.maxBytes + LongestFile
    /\ Going \/ page.end \in Finished =>
         \A n \in 1..(s.search - 1) : Received(n) <= query.maxBytes + LongestFile

\* Every step keeps it.
LEMMA StepBudget == ShapeOK /\ Searched /\ Budget /\ [Next]_vars => Budget'
<1> SUFFICES ASSUME ShapeOK, Searched, Budget, [Next]_vars PROVE Budget'
  OBVIOUS
<1>0. /\ s \in SearchType /\ sent \in Seq(MatchType)
      /\ s.line \in Nat /\ s.bytes \in Nat /\ s.left \in Int /\ s.search \in Nat
      /\ Going => query \in QueryType
      /\ page.end = "none" \/ s.pc = "done"
      /\ s'.search \in Nat
  <2>1. ShapeOK'
    BY StepShape
  <2> QED BY <2>1 DEF ShapeOK, TypesOK, SearchType, PageOK
<1>a. \A n : Received(n) \in Nat
  BY <1>0, SentSums
<1>b. sent' = sent => \A n : Received(n)' = Received(n)
  BY DEF Received, LinesOf
<1>c. query' = query => LongestFile' = LongestFile
  BY DEF LongestFile, OutputLines, OutputOf
<1>d. Going => /\ LongestFile \in Nat /\ query.maxBytes \in Int /\ query.maxBytes > 0
               /\ \A f \in Files : OutputLines(f) <= LongestFile /\ OutputLines(f) \in Nat
  <2>1. query \in QueryType => query \in RequestType /\ query.maxBytes > 0
    BY DEF QueryType
  <2>2. query \in RequestType => query.maxBytes \in Int
    BY DEF RequestType
  <2> QED BY <1>0, <2>1, <2>2, LongestFileIs
<1>e. s.pc = "read" => s.line <= LongestFile /\ (s.bytes = 0 => s.line = 0)
  <2> SUFFICES ASSUME s.pc = "read" PROVE s.line <= LongestFile /\ (s.bytes = 0 => s.line = 0)
    OBVIOUS
  <2>1. Going
    BY DEF Going
  <2>2. s.bytes = 0 => s.line = 0
    BY <1>0 DEF ShapeOK, StageOK, Steady
  <2>3. CASE s.line = 0
    BY <1>d, <2>1, <2>2, <2>3
  <2>4. CASE s.line > 0
    <3>1. s.name # {} /\ s.name \in LineType
      BY <1>0, <2>4 DEF ShapeOK, StageOK, Steady, SearchType
    <3>2. PICK f \in Files : s.name = {f}
      BY <3>1 DEF LineType
    <3>3. Pending(f) = s.line
      BY <3>2 DEF Pending
    <3>4. Pending(f) + CountIn(s.lines, f) <= OutputLines(f)
      BY DEF Searched
    <3>5. CountIn(s.lines, f) \in Nat
      BY <1>0, CountInIs DEF SearchType
    <3> QED BY <1>0, <1>d, <2>1, <2>2, <3>3, <3>4, <3>5
  <2> QED BY <1>0, <2>3, <2>4
<1>1. CASE Elsewhere \/ UNCHANGED vars
  <2>1. s' = s /\ query' = query /\ sent' = sent /\ page' = page
    BY <1>1, ElsewhereIs DEF vars
  <2>2. LongestFile' = LongestFile /\ \A n : Received(n)' = Received(n)
    BY <1>b, <1>c, <2>1
  <2>3. Received(s.search)' = Received(s.search)
    BY <2>1 DEF Received, LinesOf
  <2> QED BY <2>1, <2>2, <2>3 DEF Budget, Going
<1>2. CASE Request
  <2>1. CASE s'.pc = "done" /\ \E e \in {"bad", "empty"} :
                page' = [end |-> e, groups |-> << >>, rows |-> NoPage.rows]
    <3>1. page'.end \notin Finished /\ s'.pc = "done"
      BY <2>1 DEF Finished
    <3> QED BY <3>1 DEF Budget, Going, Finished
  <2>2. CASE /\ s' = [NoSearch EXCEPT !.pc = "command", !.search = 1, !.start = now]
             /\ page' = NoPage
    <3>1. s'.pc = "command" /\ s'.search = 1 /\ page'.end = "none"
      BY <2>2 DEF NoSearch, NoPage
    <3> QED BY <3>1 DEF Budget, Finished
  <2> QED BY <1>2, <2>1, <2>2, RequestIs
<1>3. CASE Command
  <2>1. CASE /\ s'.pc = "done"
             /\ page' = [end |-> "disabled", groups |-> << >>, rows |-> NoPage.rows]
    <3>1. page'.end \notin Finished /\ s'.pc = "done"
      BY <2>1 DEF Finished
    <3> QED BY <3>1 DEF Budget, Going, Finished
  <2>2. CASE /\ s' = [s EXCEPT !.pc = "batch", !.left = query.maxBytes,
                               !.paths = SearchPaths \o Directories(query.type),
                               !.all = index = << >>]
             /\ page' = page
    <3>1. s.pc = "command" /\ query' = query /\ sent' = sent /\ Going
      BY <1>3, CommandIs DEF Going
    <3>2. s'.pc = "batch" /\ s'.search = s.search /\ s'.left = query.maxBytes
      BY <1>0, <2>2 DEF SearchType
    <3>3. Received(s.search) = 0
      <4>1. \A i \in DOMAIN sent : sent[i].search \in 1..(s.search - 1)
        BY <3>1 DEF ShapeOK, StageOK
      <4>2. Heard(sent, s.search) = {}
        BY <1>0, <4>1 DEF Heard
      <4> QED BY <1>0, <4>2, SentSums
    <3>4. /\ LongestFile' = LongestFile /\ Received(s.search)' = Received(s.search)
          /\ \A n : Received(n)' = Received(n)
      BY <1>b, <1>c, <3>1, <3>2 DEF Received, LinesOf
    <3>5. page.end = "none" /\ LongestFile \in Nat /\ query.maxBytes \in Int /\ query.maxBytes > 0
      BY <1>0, <1>d, <3>1
    <3>6. Received(s.search)' <= query'.maxBytes - s'.left /\ 0 <= s'.left + LongestFile'
      BY <3>1, <3>2, <3>3, <3>4, <3>5
    <3>7. \A n \in 1..(s.search - 1) : Received(n) <= query.maxBytes + LongestFile
      BY <3>1 DEF Budget
    <3> QED BY <2>2, <3>1, <3>2, <3>4, <3>5, <3>6, <3>7 DEF Budget, Finished
  <2> QED BY <1>3, <2>1, <2>2, CommandIs
<1>4. CASE StartBatch \/ NextSearch
  <2>1. s.pc = "batch" /\ query' = query /\ sent' = sent /\ page' = page /\ Going /\ page.end = "none"
    BY <1>0, <1>4, StartBatchIs, NextSearchIs DEF Going
  <2>2. /\ LongestFile' = LongestFile /\ \A n : Received(n)' = Received(n)
    BY <1>b, <1>c, <2>1
  <2>3. /\ Received(s.search) <= query.maxBytes - s.left /\ 0 <= s.left + LongestFile
        /\ \A n \in 1..(s.search - 1) : Received(n) <= query.maxBytes + LongestFile
    BY <2>1 DEF Budget
  <2>4. Received(s.search) <= query.maxBytes + LongestFile
    BY <1>0, <1>a, <1>d, <2>1, <2>3
  <2>5. \/ /\ s'.pc \in Finished /\ s'.search = s.search
        \/ /\ s'.pc = "read" /\ s'.search = s.search /\ s'.left = s.left /\ s'.bytes = 0 /\ s'.line = 0
        \/ /\ s'.pc = "command" /\ s'.search = s.search + 1
    BY <1>0, <1>4, StartBatchIs, NextSearchIs DEF SearchType, Finished
  <2>6. s'.search = s.search => Received(s.search)' = Received(s.search)
    BY <2>1 DEF Received, LinesOf
  <2>7. CASE s'.pc \in Finished /\ s'.search = s.search
    BY <2>1, <2>2, <2>3, <2>4, <2>6, <2>7 DEF Budget, Finished
  <2>8. CASE /\ s'.pc = "read" /\ s'.search = s.search /\ s'.left = s.left /\ s'.bytes = 0
             /\ s'.line = 0
    <3>1. Received(s.search)' + s'.line <= query'.maxBytes - s'.left + s'.bytes
      <4>1. Received(s.search) \in Nat /\ query.maxBytes \in Int
        BY <1>a, <1>d, <2>1
      <4>2. Received(s.search) + 0 <= query.maxBytes - s.left + 0
        BY <1>0, <2>3, <4>1
      <4> QED BY <2>1, <2>6, <2>8, <4>2
    <3> QED BY <2>1, <2>2, <2>3, <2>8, <3>1 DEF Budget, Finished
  <2>9. CASE s'.pc = "command" /\ s'.search = s.search + 1
    <3>1. \A n \in 1..(s'.search - 1) : n = s.search \/ n \in 1..(s.search - 1)
      BY <1>0, <2>9
    <3>2. \A n \in 1..(s'.search - 1) : Received(n)' <= query'.maxBytes + LongestFile'
      BY <2>1, <2>2, <2>3, <2>4, <3>1
    <3> QED BY <2>1, <2>9, <3>2 DEF Budget, Finished
  <2> QED BY <2>5, <2>7, <2>8, <2>9
<1>5. CASE \E f \in Files : RgSearches(f)
  <2>1. PICK f \in Files : RgSearches(f)
    BY <1>5
  <2>2. /\ s.pc = "read" /\ UNCHANGED <<query, sent, page>>
        /\ s' = [s EXCEPT !.todo = s.todo \ {f}, !.any = s'.any, !.lines = s'.lines]
    BY <2>1, RgSearchesIs
  <2>3. s'.pc = s.pc /\ s'.search = s.search /\ s'.left = s.left /\ s'.bytes = s.bytes /\ s'.line = s.line
    <3>1. PICK a, l : s' = [s EXCEPT !.todo = s.todo \ {f}, !.any = a, !.lines = l]
      BY <2>2
    <3> QED BY <1>0, <3>1 DEF SearchType
  <2>4. /\ LongestFile' = LongestFile /\ Received(s.search)' = Received(s.search)
        /\ \A n : Received(n)' = Received(n)
    BY <1>b, <1>c, <2>2, <2>3 DEF Received, LinesOf
  <2> QED BY <2>2, <2>3, <2>4 DEF Budget, Going
<1>6. CASE ReadLine
  <2>1. s.pc = "read" /\ query' = query /\ Going /\ page.end = "none"
    BY <1>0, <1>6, ReadLineIs DEF Going
  <2>2. /\ Received(s.search) + s.line <= query.maxBytes - s.left + s.bytes
        /\ s.bytes = 0 \/ s.bytes <= s.left + s.line
        /\ 0 <= s.left + LongestFile
        /\ \A n \in 1..(s.search - 1) : Received(n) <= query.maxBytes + LongestFile
    BY <2>1 DEF Budget
  <2>3. LongestFile' = LongestFile
    BY <1>c, <2>1
  <2>4. CASE Panics
    <3>1. s'.pc = "panic" /\ s'.search = s.search /\ sent' = sent /\ page' = page
      BY <1>0, <2>4 DEF Panics, SearchType
    <3>2. \A n : Received(n)' = Received(n)
      BY <1>b, <3>1
    <3> QED BY <2>1, <2>2, <2>3, <3>1, <3>2 DEF Budget, Finished
  <2>5. CASE /\ UNCHANGED <<sent, page>> /\ s.name # {}
             /\ s' = [s EXCEPT !.lines = Tail(s.lines), !.bytes = s.bytes + 1, !.line = s.line + 1]
    <3>1. /\ s'.pc = "read" /\ s'.search = s.search /\ s'.left = s.left /\ s'.bytes = s.bytes + 1
          /\ s'.line = s.line + 1
      BY <1>0, <2>1, <2>5 DEF SearchType
    <3>2. \A n : Received(n)' = Received(n)
      BY <1>b, <2>5
    <3>3. Received(s.search)' = Received(s.search)
      BY <2>5, <3>1 DEF Received, LinesOf
    <3>4. Received(s.search)' + s'.line <= query'.maxBytes - s'.left + s'.bytes
      <4>1. Received(s.search) \in Nat /\ query.maxBytes \in Int
        BY <1>a, <1>d, <2>1
      <4>2. Received(s.search) + (s.line + 1) <= query.maxBytes - s.left + (s.bytes + 1)
        BY <1>0, <2>2, <4>1
      <4> QED BY <2>1, <3>1, <3>3, <4>2
    <3>5. s'.bytes <= s'.left + s'.line
      <4>1. s.bytes # 0
        BY <1>0, <2>5 DEF ShapeOK, StageOK, Steady
      <4>2. s.bytes + 1 <= s.left + (s.line + 1)
        BY <1>0, <2>2, <4>1
      <4> QED BY <3>1, <4>2
    <3> QED BY <2>1, <2>2, <2>3, <2>5, <3>1, <3>2, <3>4, <3>5 DEF Budget, Finished
  <2>6. ASSUME send, s'.search = s.search
        PROVE  /\ page'.end = "none"
               /\ Received(s.search)' = Received(s.search) + s.line
               /\ \A n \in 1..(s'.search - 1) : Received(n)' <= query'.maxBytes + LongestFile'
    <3>1. page'.end = "none"
      BY <2>1, <2>6, SendIs
    <3>2. \A n : Received(n)' = Received(n) + (IF n = s.search THEN s.line ELSE 0)
      BY <2>1, <2>6, SendSums
    <3>3. \A n \in 1..(s.search - 1) : Received(n)' = Received(n)
      BY <1>0, <1>a, <3>2
    <3>4. Received(s.search)' = Received(s.search) + s.line
      BY <2>6, <3>2 DEF Received, LinesOf
    <3> QED BY <2>1, <2>2, <2>3, <2>6, <3>1, <3>3, <3>4
  <2>7. CASE /\ send
             /\ s' = [s EXCEPT !.lines = Tail(s.lines), !.bytes = s.bytes + 1, !.pc = "max-bytes"]
    <3>1. s'.pc = "max-bytes" /\ s'.search = s.search
      BY <1>0, <2>7 DEF SearchType
    <3>2. Received(s.search)' <= query'.maxBytes + LongestFile'
      BY <1>0, <1>a, <1>d, <1>e, <2>1, <2>2, <2>3, <2>6, <2>7, <3>1
    <3> QED BY <2>6, <2>7, <3>1, <3>2 DEF Budget, Finished
  <2>8. CASE /\ send /\ s.bytes + 1 <= s.left
             /\ \/ s' = [s EXCEPT !.lines = Tail(s.lines), !.bytes = s.bytes + 1, !.line = 0]
                \/ s' = [s EXCEPT !.lines = Tail(s.lines), !.bytes = s.bytes + 1,
                                  !.name = Head(s.lines), !.line = 1]
    <3>1. /\ s'.pc = "read" /\ s'.search = s.search /\ s'.left = s.left /\ s'.bytes = s.bytes + 1
          /\ s'.line \in {0, 1}
      BY <1>0, <2>1, <2>8 DEF SearchType
    <3>2. Received(s.search)' + s'.line <= query'.maxBytes - s'.left + s'.bytes
      <4>1. Received(s.search) \in Nat /\ query.maxBytes \in Int
        BY <1>a, <1>d, <2>1
      <4>2. Received(s.search)' = Received(s.search) + s.line
        BY <2>6, <2>8, <3>1
      <4>3. \A x \in {0, 1} :
               (Received(s.search) + s.line) + x <= query.maxBytes - s.left + (s.bytes + 1)
        BY <1>0, <2>2, <4>1
      <4> QED BY <2>1, <3>1, <4>2, <4>3
    <3>3. s'.bytes <= s'.left + s'.line
      BY <1>0, <2>8, <3>1
    <3> QED BY <2>2, <2>3, <2>6, <2>8, <3>1, <3>2, <3>3 DEF Budget, Finished
  <2> QED BY <1>6, <2>4, <2>5, <2>7, <2>8, ReadLineIs
<1>7. CASE ReadEOF
  <2>1. s.pc = "read" /\ query' = query /\ Going /\ page.end = "none"
    BY <1>0, <1>7, ReadEOFIs DEF Going
  <2>2. /\ Received(s.search) + s.line <= query.maxBytes - s.left + s.bytes
        /\ s.bytes = 0 \/ s.bytes <= s.left + s.line
        /\ 0 <= s.left + LongestFile
        /\ \A n \in 1..(s.search - 1) : Received(n) <= query.maxBytes + LongestFile
    BY <2>1 DEF Budget
  <2>3. LongestFile' = LongestFile
    BY <1>c, <2>1
  <2>4. CASE Panics
    <3>1. s'.pc = "panic" /\ s'.search = s.search /\ sent' = sent /\ page' = page
      BY <1>0, <2>4 DEF Panics, SearchType
    <3>2. \A n : Received(n)' = Received(n)
      BY <1>b, <3>1
    <3> QED BY <2>1, <2>2, <2>3, <3>1, <3>2 DEF Budget, Finished
  <2>5. CASE /\ send
             /\ s' = [s EXCEPT !.pc = "batch", !.name = {}, !.line = 0, !.bytes = 0,
                               !.left = s.left - s.bytes]
    <3>1. s'.pc = "batch" /\ s'.search = s.search /\ s'.left = s.left - s.bytes
      BY <1>0, <2>5 DEF SearchType
    <3>2. page'.end = "none"
      BY <2>1, <2>5, SendIs
    <3>3. \A n : Received(n)' = Received(n) + (IF n = s.search THEN s.line ELSE 0)
      BY <2>1, <2>5, SendSums
    <3>4. \A n \in 1..(s.search - 1) : Received(n)' = Received(n)
      BY <1>0, <1>a, <3>3
    <3>5. Received(s.search)' = Received(s.search) + s.line
      BY <3>1, <3>3 DEF Received, LinesOf
    <3>6. Received(s.search)' <= query'.maxBytes - s'.left
      BY <1>0, <1>a, <1>d, <2>1, <2>2, <3>1, <3>5
    <3>7. 0 <= s'.left + LongestFile'
      BY <1>0, <1>d, <1>e, <2>1, <2>2, <2>3, <3>1
    <3> QED BY <2>1, <2>2, <2>3, <3>1, <3>2, <3>4, <3>6, <3>7 DEF Budget, Finished
  <2> QED BY <1>7, <2>4, <2>5, ReadEOFIs
<1>8. CASE Render
  <2>1. s.pc \in Finished /\ query' = query /\ sent' = sent /\ Going
    BY <1>8, RenderIs DEF Going, Finished
  <2>2. s'.pc = "done" /\ s'.search = s.search
    BY <1>0, <1>8, RenderIs DEF SearchType
  <2>3. /\ LongestFile' = LongestFile /\ Received(s.search)' = Received(s.search)
        /\ \A n : Received(n)' = Received(n)
    BY <1>b, <1>c, <2>1, <2>2 DEF Received, LinesOf
  <2> QED BY <2>1, <2>2, <2>3 DEF Budget, Finished
<1>9. CASE Recover
  <2>1. s'.pc = "done" /\ page'.end = "panic"
    BY <1>0, <1>9, RecoverIs DEF SearchType
  <2> QED BY <2>1 DEF Budget, Finished, Going
<1>10. CASE Close
  <2>1. s'.pc = "done" /\ page'.end = "none"
    BY <1>10 DEF Close, NoSearch, NoPage
  <2> QED BY <2>1 DEF Budget, Finished, Going
<1>11. CASE RgFails
  <2>1. /\ s.pc = "read" /\ UNCHANGED <<query, sent, page>> /\ Going /\ page.end = "none"
        /\ s'.pc \in {"read", "failed"} /\ s'.search = s.search /\ s'.left = s.left
        /\ s'.bytes = s.bytes /\ s'.line = s.line
    BY <1>0, <1>11, RgFailsIs
  <2>2. /\ LongestFile' = LongestFile /\ Received(s.search)' = Received(s.search)
        /\ \A n : Received(n)' = Received(n)
    BY <1>b, <1>c, <2>1 DEF Received, LinesOf
  <2>3. /\ Received(s.search) + s.line <= query.maxBytes - s.left + s.bytes
        /\ s.bytes = 0 \/ s.bytes <= s.left + s.line
        /\ 0 <= s.left + LongestFile
        /\ \A n \in 1..(s.search - 1) : Received(n) <= query.maxBytes + LongestFile
    BY <2>1 DEF Budget
  <2>4. Received(s.search) <= query.maxBytes + LongestFile
    BY <1>0, <1>a, <1>d, <2>1, <2>3
  <2> QED BY <2>1, <2>2, <2>3, <2>4 DEF Budget, Finished
<1> QED BY <1>1, <1>2, <1>3, <1>4, <1>5, <1>6, <1>7, <1>8, <1>9, <1>10, <1>11
        DEF Next, SearchStep, Elsewhere

\* maxBytes bounds what a pattern delivers, over all of its commands, up to the
\* file in which the limit is reached.
THEOREM OutputBounded == Spec => []OutputIsBounded
<1>1. Init => Searched /\ Budget
  BY DEF Init, Searched, Budget, NoSearch, NoPage, Finished, Going
<1>2. ShapeOK /\ Budget => OutputIsBounded
  <2> SUFFICES ASSUME ShapeOK, Budget, page.end \in Finished, NEW n \in 1..s.search
               PROVE  Received(n) <= query.maxBytes + LongestFile
    BY DEF OutputIsBounded, Finished
  <2>1. s.search \in Nat
    BY DEF ShapeOK, TypesOK, SearchType
  <2>2. n = s.search \/ n \in 1..(s.search - 1)
    BY <2>1
  <2> QED BY <2>2 DEF Budget
<1> QED BY <1>1, <1>2, InitShape, StepShape, StepSearched, StepBudget, PTL DEF Spec

-----------------------------------------------------------------------------
(* The groups of a page.                                                   *)

InstanceType == [number : {m.file.number : m \in MatchType}, matches : Seq(MatchType)]
EntryType == [key : {Key(m) : m \in MatchType}, instances : Seq(InstanceType)]

In(q, k, l) == k \in DOMAIN q /\ l \in DOMAIN q[k].matches

\* AddMatch adds a match to an instance of its number, in a new place, and moves none.
LEMMA AddMatchIs ==
    ASSUME NEW q \in Seq(InstanceType), NEW m \in MatchType
    PROVE  \E r \in Seq(InstanceType), k0 \in Nat, l0 \in Nat :
             /\ r = AddMatch(q, m)
             /\ In(r, k0, l0) /\ ~In(q, k0, l0)
             /\ r[k0].matches[l0] = m /\ r[k0].number = m.file.number
             /\ \A k, l : In(r, k, l) <=> In(q, k, l) \/ (k = k0 /\ l = l0)
             /\ \A k \in DOMAIN q : /\ k \in DOMAIN r /\ r[k].number = q[k].number
                                    /\ \A l \in DOMAIN q[k].matches : r[k].matches[l] = q[k].matches[l]
<1> DEFINE n == Len(q)
           first == [number |-> m.file.number, matches |-> << >>]
           fresh == q = << >> \/ Last(q).number # m.file.number
<1>1. n \in Nat /\ DOMAIN q = 1..n /\ (q # << >> => n > 0) /\ \A k \in 1..n : q[k] \in InstanceType
  BY ElementIs
<1>2. \A k \in 1..n : q[k].matches \in Seq(MatchType)
  BY <1>1 DEF InstanceType
<1>3. first \in InstanceType /\ first.matches = << >> /\ first.number = m.file.number
  BY DEF InstanceType
<1>4. ASSUME fresh
      PROVE  \E r \in Seq(InstanceType) :
               /\ r = AddMatch(q, m) /\ Len(r) = n + 1 /\ DOMAIN r = 1..(n + 1)
               /\ \A k \in 1..n : r[k] = q[k]
               /\ r[n + 1] = [number |-> m.file.number, matches |-> <<m>>]
  <2> DEFINE new == Append(q, first)
             last == [first EXCEPT !.matches = Append(@, m)]
             r == [new EXCEPT ![n + 1] = last]
  <2>1. /\ new \in Seq(InstanceType) /\ Len(new) = n + 1 /\ DOMAIN new = 1..(n + 1)
        /\ \A k \in 1..n : new[k] = q[k]
        /\ new[n + 1] = first
    <3> HIDE DEF first
    <3> QED BY <1>1, <1>3, AppendIs
  <2>2. Append(<< >>, m) = <<m>> /\ <<m>> \in Seq(MatchType)
    OBVIOUS
  <2>3. last = [number |-> m.file.number, matches |-> <<m>>]
    BY <2>2
  <2>4. last \in InstanceType
    BY <2>2, <2>3 DEF InstanceType
  <2>5. AddMatch(q, m) = [new EXCEPT ![Len(new)].matches = Append(@, m)]
    BY <1>4 DEF AddMatch
  <2> HIDE DEF new, first
  <2>6. AddMatch(q, m) = [new EXCEPT ![n + 1].matches = Append(new[n + 1].matches, m)]
    BY <2>1, <2>5
  <2>7. AddMatch(q, m) = [new EXCEPT ![n + 1] = [new[n + 1] EXCEPT !.matches = Append(new[n + 1].matches, m)]]
    BY <2>6
  <2>8. AddMatch(q, m) = r
    BY <2>1, <2>7
  <2> HIDE DEF last
  <2>9. /\ r \in Seq(InstanceType) /\ Len(r) = n + 1 /\ DOMAIN r = 1..(n + 1)
        /\ \A k \in 1..n : r[k] = q[k]
        /\ r[n + 1] = last
    BY <1>1, <2>1, <2>4
  <2> QED BY <2>3, <2>8, <2>9
<1>5. ASSUME ~fresh
      PROVE  /\ n > 0 /\ q[n].number = m.file.number
             /\ \E r \in Seq(InstanceType) :
                  /\ r = AddMatch(q, m) /\ Len(r) = n /\ DOMAIN r = 1..n
                  /\ \A k \in 1..n : k # n => r[k] = q[k]
                  /\ r[n].number = q[n].number /\ r[n].matches = Append(q[n].matches, m)
  <2>1. n > 0 /\ Last(q) = q[n] /\ q[n].number = m.file.number
    BY <1>1, <1>5 DEF Last
  <2> DEFINE ms == Append(q[n].matches, m)
             last == [q[n] EXCEPT !.matches = ms]
             r == [q EXCEPT ![n] = last]
  <2>2. q[n] \in InstanceType /\ ms \in Seq(MatchType)
    BY <1>1, <1>2, <2>1
  <2>3. AddMatch(q, m) = [q EXCEPT ![n].matches = Append(q[n].matches, m)]
    BY <1>5 DEF AddMatch
  <2>4. AddMatch(q, m) = r
    BY <2>3
  <2> HIDE DEF ms
  <2>5. last \in InstanceType /\ last.number = q[n].number /\ last.matches = ms
    BY <2>2 DEF InstanceType
  <2> HIDE DEF last
  <2>6. /\ r \in Seq(InstanceType) /\ Len(r) = n /\ DOMAIN r = 1..n
        /\ \A k \in 1..n : k # n => r[k] = q[k]
        /\ r[n] = last
    <3>1. n \in 1..n
      BY <1>1, <2>1
    <3>2. q \in [1..n -> InstanceType]
      BY <1>1
    <3> HIDE DEF n
    <3>3. r \in [1..n -> InstanceType] /\ r[n] = last /\ \A k \in 1..n : k # n => r[k] = q[k]
      BY <2>5, <3>1, <3>2
    <3> HIDE DEF r
    <3> QED BY <1>1, <3>3
  <2> QED BY <2>1, <2>4, <2>5, <2>6 DEF ms
<1>6. CASE fresh
  <2>1. PICK r \in Seq(InstanceType) :
               /\ r = AddMatch(q, m) /\ Len(r) = n + 1 /\ DOMAIN r = 1..(n + 1)
               /\ \A k \in 1..n : r[k] = q[k]
               /\ r[n + 1] = [number |-> m.file.number, matches |-> <<m>>]
    BY <1>4, <1>6
  <2> HIDE DEF fresh, n, first
  <2>2. /\ r[n + 1].number = m.file.number /\ r[n + 1].matches = <<m>>
        /\ DOMAIN <<m>> = {1} /\ <<m>>[1] = m
    BY <2>1
  <2>3. In(r, n + 1, 1) /\ r[n + 1].matches[1] = m
    BY <1>1, <2>1, <2>2 DEF In
  <2>4. ~In(q, n + 1, 1)
    BY <1>1 DEF In
  <2>5. \A k, l : In(r, k, l) <=> In(q, k, l) \/ (k = n + 1 /\ l = 1)
    <3> SUFFICES ASSUME NEW k, NEW l PROVE In(r, k, l) <=> In(q, k, l) \/ (k = n + 1 /\ l = 1)
      OBVIOUS
    <3>1. k \in DOMAIN r <=> k \in DOMAIN q \/ k = n + 1
      BY <1>1, <2>1
    <3>2. k \in DOMAIN q => r[k] = q[k] /\ k # n + 1
      BY <1>1, <2>1
    <3>3. l \in DOMAIN r[n + 1].matches <=> l = 1
      BY <2>2
    <3> QED BY <3>1, <3>2, <3>3 DEF In
  <2>6. \A k \in DOMAIN q : k \in DOMAIN r /\ r[k] = q[k]
    BY <1>1, <2>1
  <2>7. n + 1 \in Nat /\ 1 \in Nat
    BY <1>1
  <2> QED BY <2>1, <2>2, <2>3, <2>4, <2>5, <2>6, <2>7
<1>7. CASE ~fresh
  <2>1. n > 0 /\ q[n].number = m.file.number
    BY <1>5, <1>7
  <2>2. PICK r \in Seq(InstanceType) :
                  /\ r = AddMatch(q, m) /\ Len(r) = n /\ DOMAIN r = 1..n
                  /\ \A k \in 1..n : k # n => r[k] = q[k]
                  /\ r[n].number = q[n].number /\ r[n].matches = Append(q[n].matches, m)
    BY <1>5, <1>7
  <2> DEFINE old == q[n].matches
             l0 == Len(old) + 1
  <2>3. n \in 1..n /\ old \in Seq(MatchType)
    BY <1>1, <1>2, <2>1
  <2> HIDE DEF fresh, n, first
  <2>4. /\ Len(old) \in Nat /\ DOMAIN old = 1..Len(old) /\ DOMAIN Append(old, m) = 1..l0
        /\ \A l \in 1..Len(old) : Append(old, m)[l] = old[l]
        /\ Append(old, m)[l0] = m
    BY <2>3, AppendIs
  <2>5. In(r, n, l0) /\ r[n].matches[l0] = m /\ l0 \in Nat
    BY <1>1, <2>2, <2>3, <2>4 DEF In
  <2>6. ~In(q, n, l0)
    BY <2>4 DEF In
  <2>7. \A k, l : In(r, k, l) <=> In(q, k, l) \/ (k = n /\ l = l0)
    <3> SUFFICES ASSUME NEW k, NEW l PROVE In(r, k, l) <=> In(q, k, l) \/ (k = n /\ l = l0)
      OBVIOUS
    <3>1. k \in DOMAIN r <=> k \in DOMAIN q
      BY <1>1, <2>2
    <3>2. k \in DOMAIN q /\ k # n => r[k] = q[k]
      BY <1>1, <2>2
    <3>3. l \in DOMAIN r[n].matches <=> l \in DOMAIN q[n].matches \/ l = l0
      BY <2>2, <2>4
    <3>4. n \in DOMAIN q
      BY <1>1, <2>3
    <3> HIDE DEF l0, old
    <3> QED BY <3>1, <3>2, <3>3, <3>4 DEF In
  <2>8. \A k \in DOMAIN q : /\ k \in DOMAIN r /\ r[k].number = q[k].number
                            /\ \A l \in DOMAIN q[k].matches : r[k].matches[l] = q[k].matches[l]
    <3> SUFFICES ASSUME NEW k \in DOMAIN q
                 PROVE  /\ k \in DOMAIN r /\ r[k].number = q[k].number
                        /\ \A l \in DOMAIN q[k].matches : r[k].matches[l] = q[k].matches[l]
      OBVIOUS
    <3>1. CASE k = n
      BY <1>1, <2>2, <2>3, <2>4, <3>1
    <3>2. CASE k # n
      BY <1>1, <2>2, <3>2
    <3> QED BY <3>1, <3>2
  <2>9. n \in Nat
    BY <1>1
  <2> HIDE DEF l0, old
  <2> QED BY <2>1, <2>2, <2>5, <2>6, <2>7, <2>8, <2>9
<1> QED BY <1>6, <1>7

InG(g, i, k, l) == i \in DOMAIN g /\ In(g[i].instances, k, l)
OneEntry(g) == \A i, j \in DOMAIN g : g[i].key = g[j].key => i = j
Filed(g) ==
    \A i, k, l : InG(g, i, k, l) =>
        /\ g[i].instances[k].matches[l].file.number = g[i].instances[k].number
        /\ Key(g[i].instances[k].matches[l]) = g[i].key

\* r is g and one match more, at <<i0, k0, l0>>.
Adds(g, r, m, i0, k0, l0) ==
    /\ r \in Seq(EntryType) /\ OneEntry(r) /\ Filed(r)
    /\ InG(r, i0, k0, l0) /\ ~InG(g, i0, k0, l0) /\ r[i0].instances[k0].matches[l0] = m
    /\ \A i, k, l : InG(r, i, k, l) <=> InG(g, i, k, l) \/ (i = i0 /\ k = k0 /\ l = l0)
    /\ \A i, k, l : InG(g, i, k, l) => r[i].instances[k].matches[l] = g[i].instances[k].matches[l]

\* A match that is added to the entry of its key is in a new place, and moves none.
LEMMA EntryIs ==
    ASSUME NEW g \in Seq(EntryType), OneEntry(g), Filed(g), NEW m \in MatchType,
           NEW i0 \in DOMAIN g, g[i0].key = Key(m)
    PROVE  \E k0, l0 : Adds(g, [g EXCEPT ![i0].instances = AddMatch(g[i0].instances, m)], m, i0, k0, l0)
<1> DEFINE q == g[i0].instances
<1>1. DOMAIN g = 1..Len(g) /\ Len(g) \in Nat /\ \A i \in DOMAIN g : g[i] \in EntryType
  BY ElementIs
<1>2. q \in Seq(InstanceType)
  BY <1>1 DEF EntryType
<1> HIDE DEF q
<1>3. PICK new \in Seq(InstanceType), k0 \in Nat, l0 \in Nat :
             /\ new = AddMatch(q, m)
             /\ In(new, k0, l0) /\ ~In(q, k0, l0)
             /\ new[k0].matches[l0] = m /\ new[k0].number = m.file.number
             /\ \A k, l : In(new, k, l) <=> In(q, k, l) \/ (k = k0 /\ l = l0)
             /\ \A k \in DOMAIN q : /\ k \in DOMAIN new /\ new[k].number = q[k].number
                                    /\ \A l \in DOMAIN q[k].matches : new[k].matches[l] = q[k].matches[l]
  BY <1>2, AddMatchIs
<1> DEFINE r == [g EXCEPT ![i0].instances = new]
           e == [g[i0] EXCEPT !.instances = new]
<1>4. e \in EntryType /\ e.key = g[i0].key /\ e.instances = new
  BY <1>1 DEF EntryType
<1>5. r = [g EXCEPT ![i0] = e]
  OBVIOUS
<1> HIDE DEF r, e
<1>6. /\ r \in Seq(EntryType) /\ DOMAIN r = DOMAIN g /\ r[i0] = e
      /\ \A i \in DOMAIN g : i # i0 => r[i] = g[i]
  <2>1. g \in [1..Len(g) -> EntryType]
    BY <1>1
  <2>2. r \in [1..Len(g) -> EntryType] /\ r[i0] = e /\ \A i \in DOMAIN g : i # i0 => r[i] = g[i]
    BY <1>1, <1>4, <1>5, <2>1
  <2> QED BY <1>1, <2>2
<1>7. \A i \in DOMAIN g : r[i].key = g[i].key
  BY <1>4, <1>6
<1>8. OneEntry(r)
  BY <1>6, <1>7 DEF OneEntry
<1>9. r[i0].instances = new
  BY <1>4, <1>6
<1>10. \A i, k, l : InG(r, i, k, l) <=> InG(g, i, k, l) \/ (i = i0 /\ k = k0 /\ l = l0)
  <2> SUFFICES ASSUME NEW i, NEW k, NEW l
               PROVE  InG(r, i, k, l) <=> InG(g, i, k, l) \/ (i = i0 /\ k = k0 /\ l = l0)
    OBVIOUS
  <2>1. CASE i = i0
    <3>1. InG(r, i, k, l) <=> In(new, k, l)
      BY <1>6, <1>9, <2>1 DEF InG
    <3>2. InG(g, i, k, l) <=> In(q, k, l)
      BY <2>1 DEF InG, q
    <3> QED BY <1>3, <2>1, <3>1, <3>2
  <2>2. CASE i # i0
    BY <1>6, <2>2 DEF InG
  <2> QED BY <2>1, <2>2
<1>11. InG(r, i0, k0, l0) /\ ~InG(g, i0, k0, l0)
  <2>1. InG(g, i0, k0, l0) <=> In(q, k0, l0)
    BY DEF InG, q
  <2> QED BY <1>3, <1>10, <2>1
<1>12. r[i0].instances[k0].matches[l0] = m
  BY <1>3, <1>9
<1>13. \A i, k, l : InG(g, i, k, l) =>
          /\ r[i].instances[k].matches[l] = g[i].instances[k].matches[l]
          /\ r[i].instances[k].number = g[i].instances[k].number
  <2> SUFFICES ASSUME NEW i, NEW k, NEW l, InG(g, i, k, l)
               PROVE  /\ r[i].instances[k].matches[l] = g[i].instances[k].matches[l]
                      /\ r[i].instances[k].number = g[i].instances[k].number
    OBVIOUS
  <2>1. CASE i = i0
    <3>1. In(q, k, l)
      BY <2>1 DEF InG, q
    <3>2. k \in DOMAIN q /\ l \in DOMAIN q[k].matches
      BY <3>1 DEF In
    <3>3. new[k].number = q[k].number /\ new[k].matches[l] = q[k].matches[l]
      BY <1>3, <3>2
    <3> QED BY <1>9, <2>1, <3>3 DEF q
  <2>2. CASE i # i0
    BY <1>6, <2>2 DEF InG
  <2> QED BY <2>1, <2>2
<1>14. Filed(r)
  <2> SUFFICES ASSUME NEW i, NEW k, NEW l, InG(r, i, k, l)
               PROVE  /\ r[i].instances[k].matches[l].file.number = r[i].instances[k].number
                      /\ Key(r[i].instances[k].matches[l]) = r[i].key
    BY DEF Filed
  <2>1. CASE InG(g, i, k, l)
    <3>1. /\ g[i].instances[k].matches[l].file.number = g[i].instances[k].number
          /\ Key(g[i].instances[k].matches[l]) = g[i].key
      BY <2>1 DEF Filed
    <3>2. r[i].key = g[i].key
      BY <1>7, <2>1 DEF InG
    <3>3. /\ r[i].instances[k].matches[l] = g[i].instances[k].matches[l]
          /\ r[i].instances[k].number = g[i].instances[k].number
      BY <1>13, <2>1
    <3> QED BY <3>1, <3>2, <3>3
  <2>2. CASE i = i0 /\ k = k0 /\ l = l0
    <3>1. r[i0].instances[k0].number = m.file.number /\ r[i0].key = Key(m)
      BY <1>3, <1>7, <1>9
    <3> QED BY <1>12, <2>2, <3>1
  <2> QED BY <1>10, <2>1, <2>2
<1>15. r = [g EXCEPT ![i0].instances = AddMatch(g[i0].instances, m)]
  BY <1>3 DEF r, q
<1>16. Adds(g, r, m, i0, k0, l0)
  BY <1>6, <1>8, <1>10, <1>11, <1>12, <1>13, <1>14 DEF Adds
<1> QED BY <1>15, <1>16

\* orderedSearchResults does so, with an entry of the match's own if there is none.
LEMMA OrderedIs ==
    ASSUME NEW g \in Seq(EntryType), OneEntry(g), Filed(g), NEW m \in MatchType, Keeps(m)
    PROVE  \E i0, k0, l0 : Adds(g, orderedSearchResults(g, m), m, i0, k0, l0)
<1> DEFINE at == {i \in DOMAIN g : g[i].key = Key(m)}
           e == [key |-> Key(m), instances |-> << >>]
<1>1. DOMAIN g = 1..Len(g) /\ Len(g) \in Nat
  OBVIOUS
<1>2. CASE at # {}
  <2> DEFINE i0 == CHOOSE j \in at : TRUE
  <2>1. i0 \in DOMAIN g /\ g[i0].key = Key(m) /\ i0 \in Nat
    BY <1>1, <1>2
  <2>2. orderedSearchResults(g, m) = [g EXCEPT ![i0].instances = AddMatch(g[i0].instances, m)]
    BY <1>2 DEF orderedSearchResults
  <2> HIDE DEF i0, at
  <2>3. \E k0, l0 : Adds(g, [g EXCEPT ![i0].instances = AddMatch(g[i0].instances, m)], m, i0, k0, l0)
    BY <2>1, EntryIs
  <2> QED BY <2>2, <2>3
<1>3. CASE at = {}
  <2> DEFINE h == Append(g, e)
             i0 == Len(g) + 1
  <2>0. e \in EntryType /\ e.key = Key(m) /\ e.instances = << >>
    BY DEF EntryType
  <2>1. orderedSearchResults(g, m) = [h EXCEPT ![Len(h)].instances = AddMatch(h[Len(h)].instances, m)]
    BY <1>3 DEF orderedSearchResults
  <2> HIDE DEF e
  <2>2. /\ h \in Seq(EntryType) /\ Len(h) = i0 /\ DOMAIN h = 1..i0 /\ h[i0] = e
        /\ \A i \in DOMAIN g : i \in DOMAIN h /\ h[i] = g[i]
        /\ \A i \in DOMAIN h : i \in DOMAIN g \/ i = i0
    BY <1>1, <2>0, AppendIs
  <2>3. \A i \in DOMAIN g : g[i].key # Key(m)
    BY <1>3
  <2>4. i0 \in DOMAIN h /\ i0 \notin DOMAIN g /\ i0 \in Nat
    BY <1>1, <2>2
  <2> HIDE DEF h, i0, at
  <2>5. OneEntry(h)
    BY <2>0, <2>2, <2>3 DEF OneEntry
  <2>6. \A i, k, l : InG(h, i, k, l) <=> InG(g, i, k, l)
    <3> SUFFICES ASSUME NEW i, NEW k, NEW l PROVE InG(h, i, k, l) <=> InG(g, i, k, l)
      OBVIOUS
    <3>1. ~In(<< >>, k, l)
      BY DEF In
    <3>2. ~In(h[i0].instances, k, l)
      BY <2>0, <2>2, <3>1
    <3> QED BY <2>2, <3>2 DEF InG
  <2>7. \A i, k, l : InG(g, i, k, l) => h[i] = g[i]
    BY <2>2 DEF InG
  <2>8. Filed(h)
    BY <2>6, <2>7 DEF Filed
  <2>9. orderedSearchResults(g, m) = [h EXCEPT ![i0].instances = AddMatch(h[i0].instances, m)]
    BY <2>1, <2>2
  <2>10. h[i0].key = Key(m)
    BY <2>0, <2>2
  <2> DEFINE r == [h EXCEPT ![i0].instances = AddMatch(h[i0].instances, m)]
  <2>a. \E k0, l0 : Adds(h, r, m, i0, k0, l0)
    BY <2>2, <2>4, <2>5, <2>8, <2>10, EntryIs
  <2> HIDE DEF r
  <2>b. PICK k0, l0 : Adds(h, r, m, i0, k0, l0)
    BY <2>a
  <2>11. /\ r \in Seq(EntryType) /\ OneEntry(r) /\ Filed(r)
         /\ InG(r, i0, k0, l0) /\ ~InG(h, i0, k0, l0) /\ r[i0].instances[k0].matches[l0] = m
         /\ \A i, k, l : InG(r, i, k, l) <=> InG(h, i, k, l) \/ (i = i0 /\ k = k0 /\ l = l0)
         /\ \A i, k, l : InG(h, i, k, l) => r[i].instances[k].matches[l] = h[i].instances[k].matches[l]
    BY <2>b DEF Adds
  <2>12. /\ ~InG(g, i0, k0, l0)
         /\ \A i, k, l : InG(r, i, k, l) <=> InG(g, i, k, l) \/ (i = i0 /\ k = k0 /\ l = l0)
    BY <2>6, <2>11
  <2>13. \A i, k, l : InG(g, i, k, l) => r[i].instances[k].matches[l] = g[i].instances[k].matches[l]
    <3> SUFFICES ASSUME NEW i, NEW k, NEW l, InG(g, i, k, l)
                 PROVE  r[i].instances[k].matches[l] = g[i].instances[k].matches[l]
      OBVIOUS
    <3>1. InG(h, i, k, l) /\ h[i] = g[i]
      BY <2>6, <2>7
    <3>2. r[i].instances[k].matches[l] = h[i].instances[k].matches[l]
      BY <2>11, <3>1
    <3> QED BY <3>1, <3>2
  <2>14. r = orderedSearchResults(g, m)
    BY <2>9 DEF r
  <2>15. Adds(g, r, m, i0, k0, l0)
    BY <2>11, <2>12, <2>13 DEF Adds
  <2> QED BY <2>14, <2>15
<1> QED BY <1>2, <1>3

\* A match that is not kept changes nothing.
LEMMA NotKept ==
    ASSUME NEW g, NEW m, ~Keeps(m)
    PROVE  orderedSearchResults(g, m) = g
  BY DEF orderedSearchResults

\* The places are those of the matches.
LEMMA PlacesAre ==
    ASSUME NEW g
    PROVE  /\ \A i, k, l : <<i, k, l>> \in Places(g) <=> InG(g, i, k, l)
           /\ \A p \in Places(g) : \E i, k, l : p = <<i, k, l>>
           /\ \A i, k, l : MatchAt(g, <<i, k, l>>) = g[i].instances[k].matches[l]
<1>1. \A p : p \in Places(g) <=> \E i \in DOMAIN g : \E k \in DOMAIN g[i].instances :
                                    \E l \in DOMAIN g[i].instances[k].matches : p = <<i, k, l>>
  BY DEF Places
<1>2. \A i, k, l : <<i, k, l>> \in Places(g) <=> InG(g, i, k, l)
  <2> SUFFICES ASSUME NEW i, NEW k, NEW l PROVE <<i, k, l>> \in Places(g) <=> InG(g, i, k, l)
    OBVIOUS
  <2>1. ASSUME <<i, k, l>> \in Places(g) PROVE InG(g, i, k, l)
    <3>1. PICK a \in DOMAIN g : \E b \in DOMAIN g[a].instances :
                                  \E c \in DOMAIN g[a].instances[b].matches : <<i, k, l>> = <<a, b, c>>
      BY <1>1, <2>1
    <3>2. PICK b \in DOMAIN g[a].instances :
                                  \E c \in DOMAIN g[a].instances[b].matches : <<i, k, l>> = <<a, b, c>>
      BY <3>1
    <3>3. PICK c \in DOMAIN g[a].instances[b].matches : <<i, k, l>> = <<a, b, c>>
      BY <3>2
    <3>4. i = a /\ k = b /\ l = c
      BY <3>3
    <3> QED BY <3>4 DEF InG, In
  <2>2. ASSUME InG(g, i, k, l) PROVE <<i, k, l>> \in Places(g)
    BY <1>1, <2>2 DEF InG, In
  <2> QED BY <2>1, <2>2
<1>3. \A p \in Places(g) : \E i, k, l : p = <<i, k, l>>
  BY <1>1
<1>4. \A i, k, l : MatchAt(g, <<i, k, l>>) = g[i].instances[k].matches[l]
  BY DEF MatchAt
<1> QED BY <1>2, <1>3, <1>4

KeptOf(q) == {i \in DOMAIN q : Keeps(q[i])}

\* The groups g hold the matches q that are kept, each in one place of its own.
GroupsFine(g, q) ==
    /\ g \in Seq(EntryType) /\ OneEntry(g) /\ Filed(g)
    /\ IsFiniteSet(Places(g)) /\ Cardinality(Places(g)) = Cardinality(KeptOf(q))
    /\ {MatchAt(g, p) : p \in Places(g)} = {q[i] : i \in KeptOf(q)}

GroupsOK == (Going \/ page.end = "ok") /\ query.mode # "flat" => GroupsFine(page.groups, sent)

\* Nothing in no groups.
LEMMA NoGroups == GroupsFine(<< >>, << >>)
<1>1. << >> \in Seq(EntryType) /\ OneEntry(<< >>) /\ Filed(<< >>)
  BY DEF OneEntry, Filed, InG
<1>2. Places(<< >>) = {} /\ KeptOf(<< >>) = {}
  BY DEF Places, KeptOf
<1>3. IsFiniteSet({}) /\ Cardinality({}) = 0
  BY FS_EmptySet
<1> QED BY <1>1, <1>2, <1>3 DEF GroupsFine

\* One match more.
LEMMA GroupsAppend ==
    ASSUME NEW g, NEW q \in Seq(MatchType), GroupsFine(g, q), NEW m \in MatchType
    PROVE  GroupsFine(orderedSearchResults(g, m), Append(q, m))
<1> DEFINE r == orderedSearchResults(g, m)
           q2 == Append(q, m)
           n == Len(q) + 1
<1>1. /\ g \in Seq(EntryType) /\ OneEntry(g) /\ Filed(g)
      /\ IsFiniteSet(Places(g)) /\ Cardinality(Places(g)) = Cardinality(KeptOf(q))
      /\ {MatchAt(g, p) : p \in Places(g)} = {q[i] : i \in KeptOf(q)}
  BY DEF GroupsFine
<1>2. /\ Len(q) \in Nat /\ DOMAIN q = 1..Len(q) /\ n \in DOMAIN q2 /\ n \notin DOMAIN q /\ q2[n] = m
      /\ \A i \in DOMAIN q : i \in DOMAIN q2 /\ q2[i] = q[i]
      /\ \A i \in DOMAIN q2 : i \in DOMAIN q \/ i = n
  BY AppendIs
<1>3. IsFiniteSet(KeptOf(q))
  <2>1. KeptOf(q) \in SUBSET (1..Len(q)) /\ IsFiniteSet(1..Len(q))
    BY <1>2, FS_Interval DEF KeptOf
  <2> QED BY <2>1, FS_Subset
<1> HIDE DEF q2, n
<1>4. CASE ~Keeps(m)
  <2>1. r = g
    BY <1>4, NotKept
  <2>2. KeptOf(q2) = KeptOf(q)
    BY <1>2, <1>4 DEF KeptOf
  <2>3. {q2[i] : i \in KeptOf(q)} = {q[i] : i \in KeptOf(q)}
    BY <1>2 DEF KeptOf
  <2> HIDE DEF r
  <2>4. GroupsFine(r, q2)
    BY <1>1, <2>1, <2>2, <2>3 DEF GroupsFine
  <2> QED BY <2>4 DEF r, q2
<1>5. CASE Keeps(m)
  <2>1. \E i0, k0, l0 : Adds(g, r, m, i0, k0, l0)
    BY <1>1, <1>5, OrderedIs
  <2> HIDE DEF r
  <2>2. PICK i0, k0, l0 : Adds(g, r, m, i0, k0, l0)
    BY <2>1
  <2>3. /\ r \in Seq(EntryType) /\ OneEntry(r) /\ Filed(r)
        /\ InG(r, i0, k0, l0) /\ ~InG(g, i0, k0, l0) /\ r[i0].instances[k0].matches[l0] = m
        /\ \A i, k, l : InG(r, i, k, l) <=> InG(g, i, k, l) \/ (i = i0 /\ k = k0 /\ l = l0)
        /\ \A i, k, l : InG(g, i, k, l) => r[i].instances[k].matches[l] = g[i].instances[k].matches[l]
    BY <2>2 DEF Adds
  <2> DEFINE p0 == <<i0, k0, l0>>
  <2>4. /\ \A i, k, l : <<i, k, l>> \in Places(g) <=> InG(g, i, k, l)
        /\ \A p \in Places(g) : \E i, k, l : p = <<i, k, l>>
        /\ \A i, k, l : MatchAt(g, <<i, k, l>>) = g[i].instances[k].matches[l]
    BY PlacesAre
  <2>5. /\ \A i, k, l : <<i, k, l>> \in Places(r) <=> InG(r, i, k, l)
        /\ \A p \in Places(r) : \E i, k, l : p = <<i, k, l>>
        /\ \A i, k, l : MatchAt(r, <<i, k, l>>) = r[i].instances[k].matches[l]
    BY PlacesAre
  <2>6. p0 \notin Places(g) /\ p0 \in Places(r) /\ MatchAt(r, p0) = m
    BY <2>3, <2>4, <2>5
  <2>7. \A p \in Places(g) : p \in Places(r) /\ MatchAt(r, p) = MatchAt(g, p)
    <3> SUFFICES ASSUME NEW p \in Places(g) PROVE p \in Places(r) /\ MatchAt(r, p) = MatchAt(g, p)
      OBVIOUS
    <3>1. PICK i, k, l : p = <<i, k, l>>
      BY <2>4
    <3>2. InG(g, i, k, l)
      BY <2>4, <3>1
    <3>3. InG(r, i, k, l) /\ r[i].instances[k].matches[l] = g[i].instances[k].matches[l]
      BY <2>3, <3>2
    <3> QED BY <2>4, <2>5, <3>1, <3>3
  <2>8. \A p \in Places(r) : p \in Places(g) \/ p = p0
    <3> SUFFICES ASSUME NEW p \in Places(r) PROVE p \in Places(g) \/ p = p0
      OBVIOUS
    <3>1. PICK i, k, l : p = <<i, k, l>>
      BY <2>5
    <3>2. InG(g, i, k, l) \/ (i = i0 /\ k = k0 /\ l = l0)
      BY <2>3, <2>5, <3>1
    <3> QED BY <2>4, <3>1, <3>2
  <2> HIDE DEF p0
  <2>9. Places(r) = Places(g) \cup {p0}
    BY <2>6, <2>7, <2>8
  <2>10. KeptOf(q2) = KeptOf(q) \cup {n} /\ n \notin KeptOf(q)
    BY <1>2, <1>5 DEF KeptOf
  <2>11. /\ IsFiniteSet(Places(r)) /\ Cardinality(Places(r)) = Cardinality(Places(g)) + 1
         /\ Cardinality(KeptOf(q2)) = Cardinality(KeptOf(q)) + 1
    BY <1>1, <1>3, <2>6, <2>9, <2>10, FS_AddElement
  <2>12. {MatchAt(r, p) : p \in Places(r)} = {MatchAt(g, p) : p \in Places(g)} \cup {m}
    BY <2>6, <2>7, <2>9
  <2>13. {q2[i] : i \in KeptOf(q2)} = {q[i] : i \in KeptOf(q)} \cup {m}
    BY <1>2, <2>10 DEF KeptOf
  <2>14. GroupsFine(r, q2)
    BY <1>1, <2>3, <2>11, <2>12, <2>13 DEF GroupsFine
  <2> QED BY <2>14 DEF r, q2
<1> QED BY <1>4, <1>5

\* Every step keeps it.
LEMMA StepGroups == ShapeOK /\ GroupsOK /\ [Next]_vars => GroupsOK'
<1> SUFFICES ASSUME ShapeOK, GroupsOK, [Next]_vars, Going' \/ page'.end = "ok", query'.mode # "flat"
             PROVE  GroupsFine(page.groups, sent)'
  BY DEF GroupsOK
<1>0. /\ s \in SearchType /\ sent \in Seq(MatchType) /\ (page.end = "none" \/ s.pc = "done")
      /\ "ok" # "none"
  BY DEF ShapeOK, TypesOK, PageOK
<1>a. ASSUME query' = query, GroupsFine(page'.groups, sent') PROVE GroupsFine(page.groups, sent)'
  <2>1. \A m : Key(m)' = Key(m)
    BY <1>a DEF Key, IsTracker
  <2>2. \A m : Keeps(m)' = Keeps(m)
    BY <1>a DEF Keeps, JobFilter, IsTracker
  <2>3. EntryType' = EntryType
    BY <2>1 DEF EntryType, InstanceType
  <2>4. (page.groups \in Seq(EntryType))'
    BY <1>a, <2>3 DEF GroupsFine
  <2>5. OneEntry(page.groups)'
    BY <1>a DEF GroupsFine, OneEntry
  <2>6. Filed(page.groups)'
    BY <1>a, <2>1 DEF GroupsFine, Filed, InG, In
  <2>7. KeptOf(sent)' = KeptOf(sent')
    BY <2>2 DEF KeptOf
  <2>8. Places(page.groups)' = Places(page'.groups)
    BY DEF Places
  <2>9. \A p : MatchAt(page.groups, p)' = MatchAt(page'.groups, p)
    BY DEF MatchAt
  <2>10. (IsFiniteSet(Places(page.groups)) /\ Cardinality(Places(page.groups)) = Cardinality(KeptOf(sent)))'
    BY <1>a, <2>7, <2>8 DEF GroupsFine
  <2>11. ({MatchAt(page.groups, p) : p \in Places(page.groups)} = {sent[i] : i \in KeptOf(sent)})'
    BY <1>a, <2>7, <2>8, <2>9 DEF GroupsFine
  <2> QED BY <2>4, <2>5, <2>6, <2>10, <2>11 DEF GroupsFine
<1>1. CASE /\ Going \/ page.end = "ok"
           /\ query' = query /\ sent' = sent /\ page'.groups = page.groups
  BY <1>1, <1>a DEF GroupsOK
<1>2. CASE Elsewhere \/ UNCHANGED vars
  <2>1. s' = s /\ query' = query /\ sent' = sent /\ page' = page
    BY <1>2, ElsewhereIs DEF vars
  <2>2. Going \/ page.end = "ok"
    BY <2>1 DEF Going
  <2> QED BY <1>1, <2>1, <2>2
<1>3. CASE Request
  <2>1. CASE s'.pc = "done" /\ \E e \in {"bad", "empty"} :
                page' = [end |-> e, groups |-> << >>, rows |-> NoPage.rows]
    BY <2>1 DEF Going
  <2>2. CASE page' = NoPage
    <3>1. page'.groups = << >> /\ sent' = << >>
      BY <1>3, <2>2, RequestIs DEF NoPage
    <3>2. GroupsFine(<< >>, << >>)'
      BY NoGroups, PTL
    <3>3. GroupsFine(page.groups, sent)'
      BY <3>1, <3>2
    <3> QED BY <3>3
  <2> QED BY <1>3, <2>1, <2>2, RequestIs
<1>4. CASE Command
  <2>1. CASE /\ s'.pc = "done"
             /\ page' = [end |-> "disabled", groups |-> << >>, rows |-> NoPage.rows]
    BY <2>1 DEF Going
  <2>2. CASE page' = page
    <3>1. Going /\ query' = query /\ sent' = sent
      BY <1>4, CommandIs DEF Going
    <3> QED BY <1>1, <2>2, <3>1
  <2> QED BY <1>4, <2>1, <2>2, CommandIs
<1>5. CASE StartBatch \/ NextSearch \/ RgFails \/ \E f \in Files : RgSearches(f)
  <2>1. Going /\ query' = query /\ sent' = sent /\ page' = page
    BY <1>5, StartBatchIs, NextSearchIs, RgSearchesIs, RgFailsIs DEF Going
  <2> QED BY <1>1, <2>1
<1>6. CASE ReadLine \/ ReadEOF
  <2>1. s.pc = "read" /\ query' = query /\ Going
    BY <1>6, ReadLineIs, ReadEOFIs DEF Going
  <2>2. CASE UNCHANGED <<sent, page>>
    BY <1>1, <2>1, <2>2
  <2>3. CASE send
    <3>1. CASE s.line = 0
      <4>1. sent' = sent /\ page' = page
        BY <2>1, <2>3, <3>1, SendIs
      <4> QED BY <1>1, <2>1, <4>1
    <3>2. CASE s.line > 0
      <4>1. PICK m \in MatchType : /\ sent' = Append(sent, m)
                                   /\ page'.groups = orderedSearchResults(page.groups, m)
        BY <2>1, <2>3, <3>2, SendIs
      <4>2. GroupsFine(page.groups, sent)
        BY <2>1 DEF GroupsOK
      <4>3. GroupsFine(orderedSearchResults(page.groups, m), Append(sent, m))
        BY <1>0, <4>2, GroupsAppend
      <4> QED BY <1>a, <2>1, <4>1, <4>3
    <3>3. s.line \in Nat
      BY <1>0 DEF SearchType
    <3> QED BY <3>1, <3>2, <3>3
  <2> QED BY <1>6, <2>2, <2>3, ReadLineIs, ReadEOFIs DEF Panics
<1>7. CASE Render
  <2>1. /\ Going /\ query' = query /\ sent' = sent /\ s'.pc = "done" /\ page'.end = s.pc
        /\ s.pc = "ok" => page'.groups = page.groups
    BY <1>0, <1>7, RenderIs DEF Going, Finished, SearchType
  <2>2. page'.groups = page.groups
    BY <2>1 DEF Going
  <2> QED BY <1>1, <2>1, <2>2
<1>8. CASE Recover
  <2>1. s'.pc = "done" /\ page'.end = "panic"
    BY <1>0, <1>8, RecoverIs DEF SearchType
  <2> QED BY <2>1 DEF Going
<1>9. CASE Close
  <2>1. s'.pc = "done" /\ page'.end = "none"
    BY <1>9 DEF Close, NoSearch, NoPage
  <2> QED BY <2>1 DEF Going
<1> QED BY <1>2, <1>3, <1>4, <1>5, <1>6, <1>7, <1>8, <1>9 DEF Next, SearchStep, Elsewhere

\* The groups of a page are a partition of the matches: no key has two entries,
\* every match is under the number of its own build, bug or issue, and none is
\* lost or doubled.
THEOREM GroupsCorrect == Spec => []GroupsAreRight
<1>1. Init => GroupsOK
  BY DEF Init, GroupsOK, NoSearch, NoPage, Going
<1>2. GroupsOK => GroupsAreRight
  <2> SUFFICES ASSUME GroupsOK, page.end = "ok", query.mode # "flat" PROVE GroupsAreRight
    BY DEF GroupsAreRight
  <2> DEFINE g == page.groups
  <2>1. GroupsFine(g, sent)
    BY DEF GroupsOK
  <2>2. /\ OneEntry(g) /\ Filed(g) /\ Cardinality(Places(g)) = Cardinality(KeptOf(sent))
        /\ {MatchAt(g, p) : p \in Places(g)} = {sent[i] : i \in KeptOf(sent)}
    BY <2>1 DEF GroupsFine
  <2>3. ASSUME NEW i \in DOMAIN g, NEW k \in DOMAIN g[i].instances,
               NEW m \in Range(g[i].instances[k].matches)
        PROVE  m.file.number = g[i].instances[k].number /\ Key(m) = g[i].key
    <3>1. PICK l \in DOMAIN g[i].instances[k].matches : m = g[i].instances[k].matches[l]
      BY DEF Range
    <3>2. InG(g, i, k, l)
      BY DEF InG, In
    <3> QED BY <2>2, <3>1, <3>2 DEF Filed
  <2> HIDE DEF g
  <2>4. \A i, j \in DOMAIN g : g[i].key = g[j].key => i = j
    BY <2>2 DEF OneEntry
  <2> QED BY <2>2, <2>3, <2>4 DEF GroupsAreRight, KeptOf, g
<1> QED BY <1>1, <1>2, InitShape, StepShape, StepGroups, PTL DEF Spec

-----------------------------------------------------------------------------
(* Everything is found: every file that is wanted is either still to be    *)
(* searched, or all of its lines have been sent, captured or are to be     *)
(* read.                                                                   *)

\* The paths below which a file is found, and whether it is below one that is to come.
Target(f) == IF IsTracker(f) THEN Dir(f.kind) ELSE f
Reached(f, paths, all, type) ==
    \/ Target(f) \in Range(paths)
    \/ ~IsTracker(f) /\ all /\ f.kind \in FilenamesForSearchType(type)
Coming(f) == s.paths # << >> /\ Reached(f, s.paths, s.all, query.type)
Waiting(f) == f \in s.todo \/ Coming(f)

NoneTwice(q) == \A i, j \in DOMAIN q : q[i] = q[j] => i = j

\* No file is below two of the paths that are to be searched by different commands.
\* (Without an index there is one command, if its paths are all that there are.)
Apart ==
    s.pc \in {"batch", "read"} =>
        /\ NoneTwice(s.paths)
        /\ \A n : n = s.search =>
             /\ s.all = ~wanted[n].indexed
             /\ IsRun(n) => /\ s.all => \/ s.paths = << >>
                                        \/ s.pc = "batch" /\ s.paths = Directories(query.type)
                            /\ \A f \in s.todo : ~Coming(f)

\* A file of a bug or an issue is no path, its directory is.
LEMMA BelowIs ==
    ASSUME NEW f \in Files, NEW q \in Seq(PathType)
    PROVE  f \in Below(Range(q)) <=> Reached(f, q, s.all, query.type)
<1>1. IsTracker(f) => f \notin Range(q)
  <2> SUFFICES ASSUME IsTracker(f), f \in Range(q) PROVE FALSE
    OBVIOUS
  <2>1. PICK i \in DOMAIN q : f = q[i]
    BY DEF Range
  <2>2. f \in PathType
    BY <2>1, ElementIs
  <2>3. f.kind \in Kinds
    BY SearchAssumption
  <2>4. PICK k \in Trackers : f = Dir(k)
    BY <2>2 DEF PathType, JobFiles
  <2>5. f.kind = "dir"
    BY <2>4 DEF Dir
  <2> QED BY <2>3, <2>5 DEF Kinds, Trackers
<1> QED BY <1>1 DEF Below, Reached, Target

\* The paths of a command, and those that remain.
LEMMA SplitPaths ==
    ASSUME NEW q \in Seq(PathType), NEW k \in 0..Len(q), NoneTwice(q), NEW all \in BOOLEAN, NEW type
    PROVE  /\ NoneTwice(SubSeq(q, k + 1, Len(q)))
           /\ \A x : x \in Range(q) <=> x \in Range(SubSeq(q, 1, k)) \/ x \in Range(SubSeq(q, k + 1, Len(q)))
           /\ \A x : ~(x \in Range(SubSeq(q, 1, k)) /\ x \in Range(SubSeq(q, k + 1, Len(q))))
           /\ Range(<< >>) = {}
           /\ k = Len(q) => SubSeq(q, k + 1, Len(q)) = << >> /\ Range(SubSeq(q, 1, k)) = Range(q)
<1> DEFINE a == SubSeq(q, 1, k)
           n == Len(q)
           b == SubSeq(q, k + 1, n)
<1>1. n \in Nat /\ k \in Nat /\ k <= n /\ DOMAIN q = 1..n
  OBVIOUS
<1>2. a \in Seq(PathType) /\ Len(a) = k /\ DOMAIN a = 1..k /\ \A i \in 1..k : a[i] = q[i]
  BY <1>1
<1>3. /\ b \in Seq(PathType) /\ Len(b) = n - k /\ DOMAIN b = 1..(n - k)
      /\ \A i \in 1..(n - k) : b[i] = q[k + i]
  <2>1. k + 1 \in 1..(n + 1) /\ n \in k..n
    BY <1>1
  <2>2. /\ b \in Seq(PathType) /\ Len(b) = n - (k + 1) + 1
        /\ \A i \in 1..(n - (k + 1) + 1) : b[i] = q[(k + 1) + i - 1]
    BY <2>1, SubSeqProperties
  <2>3. n - (k + 1) + 1 = n - k /\ \A i \in 1..(n - k) : (k + 1) + i - 1 = k + i
    BY <1>1
  <2> HIDE DEF b, n
  <2>4. Len(b) = n - k /\ \A i \in 1..(n - k) : b[i] = q[k + i]
    BY <2>2, <2>3
  <2>5. DOMAIN b = 1..Len(b)
    BY <2>2
  <2> QED BY <2>2, <2>4, <2>5
<1> HIDE DEF a, b, n
<1>4. NoneTwice(b)
  <2> SUFFICES ASSUME NEW i \in DOMAIN b, NEW j \in DOMAIN b, b[i] = b[j] PROVE i = j
    BY DEF NoneTwice
  <2>1. k + i \in DOMAIN q /\ k + j \in DOMAIN q /\ q[k + i] = q[k + j]
    BY <1>1, <1>3
  <2>2. k + i = k + j
    BY <2>1 DEF NoneTwice
  <2> QED BY <1>1, <1>3, <2>2
<1>5. \A x : x \in Range(q) => x \in Range(a) \/ x \in Range(b)
  <2> SUFFICES ASSUME NEW i \in DOMAIN q PROVE q[i] \in Range(a) \/ q[i] \in Range(b)
    BY DEF Range
  <2>1. CASE i <= k
    <3>1. i \in DOMAIN a /\ a[i] = q[i]
      BY <1>1, <1>2, <2>1
    <3> QED BY <3>1 DEF Range
  <2>2. CASE ~(i <= k)
    <3>1. i - k \in DOMAIN b /\ b[i - k] = q[k + (i - k)] /\ k + (i - k) = i
      BY <1>1, <1>3, <2>2
    <3> QED BY <3>1 DEF Range
  <2> QED BY <2>1, <2>2
<1>6. \A i \in DOMAIN a : i \in DOMAIN q /\ a[i] = q[i]
  BY <1>1, <1>2
<1>7. \A j \in DOMAIN b : k + j \in DOMAIN q /\ b[j] = q[k + j]
  BY <1>1, <1>3
<1>8. \A x : x \in Range(a) \/ x \in Range(b) => x \in Range(q)
  BY <1>6, <1>7 DEF Range
<1>9. \A x : ~(x \in Range(a) /\ x \in Range(b))
  <2> SUFFICES ASSUME NEW i \in DOMAIN a, NEW j \in DOMAIN b, a[i] = b[j] PROVE FALSE
    BY DEF Range
  <2>1. i = k + j
    BY <1>6, <1>7 DEF NoneTwice
  <2> QED BY <1>1, <1>2, <1>3, <2>1
<1>10. Range(<< >>) = {}
  BY DEF Range
<1>11. ASSUME k = n PROVE b = << >> /\ Range(a) = Range(q)
  <2>1. Len(b) = 0
    BY <1>1, <1>3, <1>11
  <2>2. b = << >>
    BY <1>3, <2>1
  <2> QED BY <1>5, <1>8, <1>10, <2>2
<1> QED BY <1>4, <1>5, <1>8, <1>9, <1>10, <1>11 DEF a, b, n

\* The paths of a pattern: files that the index has, and directories.
LEMMA PathsAre ==
    ASSUME WorldOK, NEW type
    PROVE  /\ NoneTwice(SearchPaths \o Directories(type))
           /\ \A x : x \in Range(SearchPaths \o Directories(type)) <=>
                        \/ \E i \in Taken : x = index[i].file
                        \/ \E k \in TrackersFor(type) \cap Enabled \cap Trackers : x = Dir(k)
           /\ index = << >> => SearchPaths \o Directories(type) = Directories(type)
<1> DEFINE a == SearchPaths
           b == Directories(type)
           D == {Dir(k) : k \in Trackers}
<1>1. /\ a \in Seq(JobFiles) /\ NoneTwice(a)
      /\ {a[i] : i \in DOMAIN a} = {index[i].file : i \in Taken}
  BY SearchPathsIs DEF NoneTwice
<1>2. /\ b \in Seq(D) /\ NoneTwice(b)
      /\ {b[i] : i \in DOMAIN b} = {Dir(k) : k \in TrackersFor(type) \cap Enabled \cap Trackers}
  BY DirectoriesIs DEF NoneTwice
<1> HIDE DEF a, b
<1>3. \A x \in JobFiles : x \notin D
  <2> SUFFICES ASSUME NEW k \in Trackers, Dir(k) \in JobFiles PROVE FALSE
    OBVIOUS
  <2>1. Dir(k).kind \in Kinds
    BY SearchAssumption DEF JobFiles
  <2> QED BY <2>1 DEF Dir, Kinds, Trackers
<1>4. a \in Seq(PathType) /\ b \in Seq(PathType)
  BY <1>1, <1>2 DEF PathType
<1> DEFINE c == a \o b
           m == Len(a)
           n == Len(b)
<1>5. /\ m \in Nat /\ n \in Nat /\ DOMAIN a = 1..m /\ DOMAIN b = 1..n
      /\ c \in Seq(PathType) /\ Len(c) = m + n /\ DOMAIN c = 1..(m + n)
      /\ \A i \in 1..(m + n) : c[i] = IF i <= m THEN a[i] ELSE b[i - m]
  BY <1>4, ConcatProperties
<1>6. (\A i \in DOMAIN a : a[i] \in JobFiles) /\ (\A i \in DOMAIN b : b[i] \in D)
  BY <1>1, <1>2, ElementIs, Zenon
<1> HIDE DEF c, m, n, D
<1>7. \A i \in DOMAIN c : \/ i \in DOMAIN a /\ c[i] = a[i]
                          \/ i - m \in DOMAIN b /\ c[i] = b[i - m]
  BY <1>5
<1>8. NoneTwice(c)
  <2> SUFFICES ASSUME NEW i \in DOMAIN c, NEW j \in DOMAIN c, c[i] = c[j] PROVE i = j
    BY DEF NoneTwice
  <2>1. CASE i \in DOMAIN a /\ c[i] = a[i]
    <3>1. j \in DOMAIN a /\ c[j] = a[j]
      BY <1>3, <1>6, <1>7, <2>1
    <3> QED BY <1>1, <2>1, <3>1 DEF NoneTwice
  <2>2. CASE i - m \in DOMAIN b /\ c[i] = b[i - m]
    <3>1. j - m \in DOMAIN b /\ c[j] = b[j - m]
      BY <1>3, <1>6, <1>7, <2>2
    <3>2. i - m = j - m
      BY <1>2, <2>2, <3>1 DEF NoneTwice
    <3> QED BY <1>5, <3>2
  <2> QED BY <1>7, <2>1, <2>2
<1>9. \A x : x \in Range(c) => x \in Range(a) \/ x \in Range(b)
  BY <1>7 DEF Range
<1>10. \A x : x \in Range(a) \/ x \in Range(b) => x \in Range(c)
  <2>1. ASSUME NEW i \in DOMAIN a PROVE a[i] \in Range(c)
    <3>1. i \in DOMAIN c /\ c[i] = a[i]
      BY <1>5
    <3> QED BY <3>1 DEF Range
  <2>2. ASSUME NEW i \in DOMAIN b PROVE b[i] \in Range(c)
    <3>1. m + i \in DOMAIN c /\ c[m + i] = b[(m + i) - m] /\ (m + i) - m = i
      BY <1>5
    <3> QED BY <3>1 DEF Range
  <2> QED BY <2>1, <2>2 DEF Range
<1>11. /\ Range(a) = {index[i].file : i \in Taken}
       /\ Range(b) = {Dir(k) : k \in TrackersFor(type) \cap Enabled \cap Trackers}
  BY <1>1, <1>2 DEF Range
<1>12. ASSUME index = << >> PROVE c = b
  <2>1. Taken = {}
    BY <1>12 DEF Taken
  <2>2. DOMAIN a = {}
    BY <1>1, <2>1
  <2>3. m = 0
    BY <1>5, <2>2
  <2>4. a = << >>
    BY <1>1, <2>3 DEF m
  <2> QED BY <1>4, <2>4 DEF c
<1> QED BY <1>8, <1>9, <1>10, <1>11, <1>12 DEF a, b, c

\* A command is run as long as the pattern's turn and the index it found are the same.
LEMMA RunIs ==
    ASSUME NEW n, query' = query, wanted'[n].indexed = wanted[n].indexed
    PROVE  IsRun(n)' = IsRun(n)
<1>1. Fitting(Directories(query.type))' = Fitting(Directories(query.type))
  BY DEF Fitting, Directories
<1>2. Directories(query.type)' = Directories(query.type)
  BY DEF Directories
<1> QED BY <1>1, <1>2 DEF IsRun

\* A step within a command, or from a command to the next one, keeps the paths apart.
LEMMA WithinApart ==
    ASSUME ShapeOK, Apart, s.pc \in {"batch", "read"}, s'.pc = "batch" \/ s.pc = "read",
           query' = query, s'.search = s.search, s'.paths = s.paths, s'.all = s.all,
           s'.todo \subseteq s.todo, wanted'[s.search].indexed = wanted[s.search].indexed
    PROVE  Apart'
<1>1. \A f : Coming(f)' = Coming(f)
  BY DEF Coming, Reached, Target, IsTracker
<1>2. NoneTwice(s'.paths)
  BY DEF Apart
<1>3. ASSUME NEW n, n = s'.search
      PROVE  /\ s'.all = ~wanted'[n].indexed
             /\ IsRun(n)' => /\ s'.all => \/ s'.paths = << >>
                                          \/ s'.pc = "batch" /\ s'.paths = Directories(query'.type)
                             /\ \A f \in s'.todo : ~Coming(f)'
  <2>1. n = s.search
    BY <1>3
  <2>2. IsRun(n)' = IsRun(n)
    BY <2>1, RunIs
  <2>3. /\ s.all = ~wanted[n].indexed
        /\ IsRun(n) => /\ s.all => \/ s.paths = << >>
                                   \/ s.pc = "batch" /\ s.paths = Directories(query.type)
                       /\ \A f \in s.todo : ~Coming(f)
    BY <2>1 DEF Apart
  <2>4. IsRun(n) /\ s'.all => s'.paths = << >> \/ (s'.pc = "batch" /\ s'.paths = Directories(query.type))
    BY <2>3
  <2>5. IsRun(n) => \A f \in s'.todo : ~Coming(f)'
    BY <1>1, <2>3
  <2> QED BY <2>1, <2>2, <2>3, <2>4, <2>5
<1>4. NoneTwice(s.paths)' = NoneTwice(s'.paths)
  BY DEF NoneTwice
<1>5. Directories(query.type)' = Directories(query'.type)
  BY DEF Directories
<1> QED BY <1>2, <1>3, <1>4, <1>5 DEF Apart

\* Every step keeps it.
LEMMA StepApart == ShapeOK /\ Apart /\ [Next]_vars => Apart'
<1> SUFFICES ASSUME ShapeOK, Apart, [Next]_vars PROVE Apart'
  OBVIOUS
<1>0. /\ s \in SearchType /\ s.search \in Nat /\ s.paths \in Seq(PathType) /\ s.all \in BOOLEAN
      /\ wanted \in Seq(WantedType) /\ DOMAIN wanted = 1..Len(wanted)
  BY DEF ShapeOK, TypesOK, SearchType
<1>1. CASE Elsewhere \/ UNCHANGED vars
  <2>1. s' = s /\ query' = query
    BY <1>1, ElsewhereIs DEF vars
  <2>2. CASE s.pc \notin {"batch", "read"}
    BY <2>1, <2>2 DEF Apart
  <2>3. CASE s.pc \in {"batch", "read"}
    <3>1. s.search \in 1..Len(wanted)
      BY <1>0, <2>3 DEF ShapeOK, StageOK, Going
    <3>2. wanted'[s.search].indexed = wanted[s.search].indexed
      BY <1>1, <3>1, ElsewhereIs DEF vars
    <3>3. CASE s.pc = "batch"
      BY <2>1, <2>3, <3>2, <3>3, WithinApart
    <3>4. CASE s.pc = "read"
      BY <2>1, <2>3, <3>2, <3>4, WithinApart
    <3> QED BY <2>3, <3>3, <3>4
  <2> QED BY <2>2, <2>3
<1>2. CASE s'.pc \notin {"batch", "read"}
  BY <1>2 DEF Apart
<1>3. CASE Request
  <2>1. s'.pc \notin {"batch", "read"}
    BY <1>3, RequestIs DEF NoSearch
  <2> QED BY <1>2, <2>1
<1>4. CASE Command
  <2>1. CASE s'.pc = "done"
    BY <1>2, <2>1
  <2>2. CASE /\ s' = [s EXCEPT !.pc = "batch", !.left = query.maxBytes,
                               !.paths = SearchPaths \o Directories(query.type),
                               !.all = index = << >>]
             /\ wanted' = Append(wanted, Wanted) /\ Wanted \in WantedType
    <3> DEFINE paths == SearchPaths \o Directories(query.type)
               all == index = << >>
               left == query.maxBytes
    <3>0. s' = [s EXCEPT !.pc = "batch", !.left = left, !.paths = paths, !.all = all]
      BY <2>2
    <3>1. /\ s.pc = "command" /\ s.todo = {} /\ query' = query /\ Len(wanted) = s.search - 1
      BY <1>4, CommandIs DEF ShapeOK, StageOK, Steady, Going
    <3>2. NoneTwice(paths) /\ (all => paths = Directories(query.type))
      BY PathsAre DEF ShapeOK
    <3>3. wanted'[s.search] = Wanted
      <4>1. wanted'[Len(wanted) + 1] = Wanted
        BY <1>0, <2>2, AppendIs
      <4> QED BY <1>0, <3>1, <4>1
    <3>4. Wanted.indexed = ~all
      BY DEF Wanted
    <3> HIDE DEF paths, all, left
    <3>5. s'.pc = "batch" /\ s'.paths = paths /\ s'.all = all /\ s'.todo = {} /\ s'.search = s.search
      BY <1>0, <3>0, <3>1 DEF SearchType
    <3>6. NoneTwice(s.paths)' = NoneTwice(s'.paths) /\ Directories(query.type)' = Directories(query'.type)
      BY DEF NoneTwice, Directories
    <3>7. \A n : n = s'.search => s'.all = ~wanted'[n].indexed
      BY <3>3, <3>4, <3>5 DEF all
    <3> QED BY <3>1, <3>2, <3>5, <3>6, <3>7 DEF Apart
  <2> QED BY <1>4, <2>1, <2>2, CommandIs
<1>5. CASE StartBatch
  <2> DEFINE k == Fitting(s.paths)
             first == SubSeq(s.paths, 1, k)
             rest == SubSeq(s.paths, k + 1, Len(s.paths))
             B == Below(Range(first))
  <2>1. CASE s' = [s EXCEPT !.pc = "failed"]
    <3>1. s'.pc = "failed"
      BY <1>0, <2>1 DEF SearchType
    <3> QED BY <1>2, <3>1
  <2>2. CASE s' = [s EXCEPT !.pc = "read", !.paths = rest, !.todo = B,
                            !.any = FALSE, !.name = {}, !.line = 0, !.bytes = 0]
    <3>1. k \in 0..Len(s.paths) /\ s.pc = "batch" /\ s.paths # << >> /\ query' = query /\ wanted' = wanted
      BY <1>5, StartBatchIs
    <3>2. /\ NoneTwice(s.paths)
          /\ \A n : n = s.search =>
               /\ s.all = ~wanted[n].indexed
               /\ IsRun(n) /\ s.all => s.paths = << >> \/ s.paths = Directories(query.type)
      BY <3>1 DEF Apart
    <3>3. /\ NoneTwice(rest)
          /\ \A x : ~(x \in Range(first) /\ x \in Range(rest))
          /\ k = Len(s.paths) => rest = << >>
      BY <1>0, <3>1, <3>2, SplitPaths
    <3>4. first \in Seq(PathType)
      BY <1>0, <3>1
    <3>5. \A f \in Files : f \in B <=> Reached(f, first, s.all, query.type)
      BY <3>4, BelowIs
    <3>6. B \subseteq Files
      BY DEF Below
    <3>7. IsRun(s.search) /\ s.all => rest = << >>
      <4> SUFFICES ASSUME IsRun(s.search), s.all PROVE rest = << >>
        OBVIOUS
      <4>1. s.paths = Directories(query.type)
        BY <3>1, <3>2
      <4>2. Fitting(Directories(query.type)) = Len(Directories(query.type))
        BY <3>2 DEF IsRun
      <4> QED BY <3>3, <4>1, <4>2
    <3>8. ~s.all => \A f \in B : ~Reached(f, rest, s.all, query.type)
      BY <3>3, <3>5, <3>6 DEF Reached
    <3> HIDE DEF k, first, rest, B
    <3>9. s'.paths = rest /\ s'.todo = B /\ s'.all = s.all /\ s'.search = s.search /\ s'.pc = "read"
      BY <1>0, <2>2 DEF SearchType
    <3>10. \A f : Coming(f)' <=> rest # << >> /\ Reached(f, rest, s.all, query.type)
      BY <3>1, <3>9 DEF Coming, Reached, Target, IsTracker
    <3>11. ASSUME NEW n, n = s'.search
           PROVE  /\ s'.all = ~wanted'[n].indexed
                  /\ IsRun(n)' => /\ s'.all => s'.paths = << >>
                                  /\ \A f \in s'.todo : ~Coming(f)'
      <4>1. n = s.search /\ IsRun(n)' = IsRun(n)
        BY <3>1, <3>9, <3>11, RunIs
      <4> QED BY <1>0, <3>1, <3>2, <3>7, <3>8, <3>9, <3>10, <4>1
    <3>12. NoneTwice(s.paths)' = NoneTwice(s'.paths)
      BY DEF NoneTwice
    <3> QED BY <3>3, <3>9, <3>11, <3>12 DEF Apart
  <2> QED BY <1>5, <2>1, <2>2, StartBatchIs
<1>6. CASE \E f \in Files : RgSearches(f)
  <2>1. PICK f \in Files : RgSearches(f)
    BY <1>6
  <2>2. /\ s.pc = "read" /\ query' = query /\ wanted' = wanted
        /\ s' = [s EXCEPT !.todo = s.todo \ {f}, !.any = s'.any, !.lines = s'.lines]
    BY <2>1, RgSearchesIs
  <2>3. s'.paths = s.paths /\ s'.all = s.all /\ s'.search = s.search /\ s'.todo \subseteq s.todo
    <3>1. PICK a, l : s' = [s EXCEPT !.todo = s.todo \ {f}, !.any = a, !.lines = l]
      BY <2>2
    <3> QED BY <1>0, <3>1 DEF SearchType
  <2> QED BY <2>2, <2>3, WithinApart
<1>7. CASE ReadLine \/ ReadEOF
  <2>1. s.pc = "read" /\ query' = query /\ wanted' = wanted
    BY <1>7, ReadLineIs, ReadEOFIs
  <2>2. s'.paths = s.paths /\ s'.all = s.all /\ s'.search = s.search /\ s'.todo \subseteq s.todo
    BY <1>0, <1>7, ReadLineIs, ReadEOFIs DEF SearchType, Panics
  <2> QED BY <2>1, <2>2, WithinApart
<1>8. CASE NextSearch \/ Render \/ Recover
  <2>1. s'.pc \notin {"batch", "read"}
    BY <1>0, <1>8, NextSearchIs, RenderIs, RecoverIs DEF SearchType
  <2> QED BY <1>2, <2>1
<1>9. CASE Close
  <2>1. s'.pc \notin {"batch", "read"}
    BY <1>9 DEF Close, NoSearch
  <2> QED BY <1>2, <2>1
<1>10. CASE RgFails
  <2>1. /\ s.pc = "read" /\ query' = query /\ s'.pc \in {"read", "failed"}
        /\ s'.paths = s.paths /\ s'.all = s.all /\ s'.search = s.search /\ s'.todo \subseteq s.todo
    BY <1>10, RgFailsIs
  <2>2. s.search \in 1..Len(wanted)
    BY <1>0, <2>1 DEF ShapeOK, StageOK, Going
  <2>3. wanted'[s.search].indexed = wanted[s.search].indexed
    BY <1>10, <2>2, RgFailsIs
  <2>4. CASE s'.pc = "read"
    BY <2>1, <2>3, <2>4, WithinApart
  <2> QED BY <1>2, <2>1, <2>4
<1> QED BY <1>1, <1>3, <1>4, <1>5, <1>6, <1>7, <1>8, <1>9, <1>10 DEF Next, SearchStep, Elsewhere

\* The lines of a file that were sent for the pattern, are captured or are to be read:
\* none if the file is still to be searched, and all of them otherwise.
FoundSoFar ==
    s.pc \in {"batch", "read"} =>
        \A n : n = s.search /\ IsRun(n) =>
            \A f \in wanted[n].files :
                Lines(n, f) + (Pending(f) + CountIn(s.lines, f))
                    = IF Waiting(f) THEN 0 ELSE OutputLines(f)

\* A file that is wanted is below one of the paths.
LEMMA WantedComes ==
    ASSUME ShapeOK, query \in QueryType, NEW f \in Wanted.files, NEW paths,
           paths = SearchPaths \o Directories(query.type),
           index = << >> => Directories(query.type) # << >>
    PROVE  paths # << >> /\ Reached(f, paths, index = << >>, query.type)
<1> DEFINE T == TrackersFor(query.type) \cap Enabled \cap Trackers
<1>0. /\ index \in Seq(Aged) /\ DOMAIN index = 1..Len(index) /\ Len(index) \in Nat
      /\ \A i, j \in DOMAIN index : i < j => index[i].age >= index[j].age
      /\ now \in Int
  BY DEF ShapeOK, WorldOK
<1>1. /\ \A x : x \in Range(paths) <=> (\E i \in Taken : x = index[i].file) \/ (\E k \in T : x = Dir(k))
      /\ index = << >> => paths = Directories(query.type)
  BY PathsAre DEF ShapeOK
<1>2. \A x : x \in Range(paths) => paths # << >>
  BY DEF Range
<1>3. /\ f \in Files
      /\ IF IsTracker(f) THEN f.kind \in TrackersFor(query.type) \cap Enabled
         ELSE /\ f.kind \in FilenamesForSearchType(query.type) /\ JobFilter(f.name)
              /\ \/ index = << >>
                 \/ \E i \in DOMAIN index :
                       /\ index[i].file = f
                       /\ query.maxAge = 0 \/ index[i].age >= now - query.maxAge
  BY DEF Wanted
<1>4. CASE IsTracker(f)
  <2>1. f.kind \in T
    BY <1>3, <1>4 DEF IsTracker
  <2>2. Dir(f.kind) \in Range(paths)
    BY <1>1, <2>1
  <2> QED BY <1>2, <1>4, <2>2 DEF Reached, Target
<1>5. CASE ~IsTracker(f) /\ index = << >>
  <2>1. paths # << >>
    BY <1>1, <1>5
  <2> QED BY <1>3, <1>5, <2>1 DEF Reached
<1>6. CASE ~IsTracker(f) /\ index # << >>
  <2>1. PICK i \in DOMAIN index : /\ index[i].file = f
                                  /\ query.maxAge = 0 \/ index[i].age >= now - query.maxAge
    BY <1>3, <1>6
  <2>2. \A j \in 1..i : query.maxAge = 0 \/ index[j].age >= now - query.maxAge
    <3> SUFFICES ASSUME NEW j \in 1..i, query.maxAge # 0 PROVE index[j].age >= now - query.maxAge
      OBVIOUS
    <3>1. query.maxAge \in Int
      <4>1. query \in RequestType
        BY DEF QueryType
      <4> QED BY <4>1 DEF RequestType
    <3>2. j \in DOMAIN index /\ i \in DOMAIN index
      BY <1>0
    <3>3. index[j] \in Aged /\ index[i] \in Aged
      BY <1>0, <3>2, ElementIs
    <3>4. index[j].age \in Int /\ index[i].age \in Int
      BY <3>3 DEF Aged
    <3>5. index[j].age >= index[i].age
      <4>1. i = j \/ j < i
        BY <1>0
      <4> QED BY <1>0, <3>2, <3>4, <4>1
    <3> QED BY <1>0, <2>1, <3>1, <3>4, <3>5
  <2>3. i \in Taken
    BY <1>3, <1>6, <2>1, <2>2 DEF Taken
  <2>4. f \in Range(paths)
    BY <1>1, <2>1, <2>3
  <2> QED BY <1>2, <1>6, <2>4 DEF Reached, Target
<1> QED BY <1>4, <1>5, <1>6

\* Every step keeps it.
LEMMA StepSoFar == ShapeOK /\ Apart /\ FoundSoFar /\ [Next]_vars => FoundSoFar'
<1> SUFFICES ASSUME ShapeOK, Apart, FoundSoFar, [Next]_vars, s'.pc \in {"batch", "read"},
                    NEW n, n = s'.search, IsRun(n)', NEW f \in wanted'[n].files
             PROVE  Lines(n, f)' + (Pending(f)' + CountIn(s'.lines, f))
                        = IF Waiting(f)' THEN 0 ELSE OutputLines(f)'
  BY DEF FoundSoFar, CountIn, Occurrences
<1>0. /\ s \in SearchType /\ s.lines \in Seq(LineType) /\ s.line \in Nat /\ s.search \in Nat
      /\ s.paths \in Seq(PathType) /\ s.all \in BOOLEAN
      /\ sent \in Seq(MatchType) /\ wanted \in Seq(WantedType) /\ DOMAIN wanted = 1..Len(wanted)
      /\ Going => query \in QueryType
      /\ s.pc \in {"batch", "read"} => Going /\ s.search \in DOMAIN wanted
  <2>1. s.pc \in {"batch", "read"} => Going
    BY DEF Going
  <2>2. s.pc \in {"batch", "read"} => s.search > 0 /\ Len(wanted) = s.search
    BY <2>1 DEF ShapeOK, StageOK
  <2>3. s.search \in Nat
    BY DEF ShapeOK, TypesOK, SearchType
  <2> QED BY <2>1, <2>2, <2>3 DEF ShapeOK, TypesOK, SearchType
<1>1. /\ Lines(n, f) \in Nat /\ Pending(f) \in Nat /\ CountIn(s.lines, f) \in Nat
      /\ CountIn(<< >>, f) = 0
  BY <1>0, SentSums, CountInIs DEF Pending
<1>2. sent' = sent => Lines(n, f)' = Lines(n, f)
  BY DEF Lines, LinesOf
<1>3. query' = query => OutputLines(f)' = OutputLines(f)
  BY DEF OutputLines, OutputOf
<1>4. ASSUME s.pc \in {"batch", "read"}, n = s.search, IsRun(n), f \in wanted[n].files
      PROVE  /\ Lines(n, f) + (Pending(f) + CountIn(s.lines, f)) = IF Waiting(f) THEN 0 ELSE OutputLines(f)
             /\ f \in Files /\ disk[f] > 0 /\ OutputLines(f) \in Nat
  <2>1. wanted[n] \in WantedType
    BY <1>0, <1>4, ElementIs
  <2>2. f \in Files
    BY <1>4, <2>1 DEF WantedType
  <2>3. disk[f] > 0
    BY <1>0, <1>4 DEF ShapeOK, Alive
  <2>4. OutputLines(f) \in Nat
    BY <1>0, <1>4, <2>2, OutputIs
  <2> QED BY <1>4, <2>2, <2>3, <2>4 DEF FoundSoFar
<1>5. ASSUME query' = query, s'.paths = s.paths, s'.all = s.all PROVE Coming(f)' = Coming(f)
  BY <1>5 DEF Coming, Reached, Target, IsTracker
<1>6. CASE Elsewhere \/ UNCHANGED vars
  <2>1. s' = s /\ query' = query /\ sent' = sent
    BY <1>6, ElsewhereIs DEF vars
  <2>2. n \in 1..Len(wanted)
    BY <1>0, <2>1
  <2>3. wanted'[n].indexed = wanted[n].indexed /\ f \in wanted[n].files
    BY <1>6, <2>2, ElsewhereIs DEF vars
  <2>4. IsRun(n)
    BY <2>1, <2>3, RunIs
  <2>5. Waiting(f)' = Waiting(f) /\ Pending(f)' = Pending(f)
    BY <1>5, <2>1 DEF Waiting, Pending
  <2> QED BY <1>2, <1>3, <1>4, <2>1, <2>3, <2>4, <2>5
<1>7. CASE Request
  BY <1>7, RequestIs DEF NoSearch
<1>8. CASE Command
  <2> DEFINE paths == SearchPaths \o Directories(query.type)
             all == index = << >>
             left == query.maxBytes
  <2>1. /\ s' = [s EXCEPT !.pc = "batch", !.left = left, !.paths = paths, !.all = all]
        /\ wanted' = Append(wanted, Wanted) /\ Wanted \in WantedType
        /\ s.pc = "command" /\ query' = query /\ sent' = sent
    BY <1>8, CommandIs
  <2>2. /\ Going /\ query \in QueryType /\ Len(wanted) = s.search - 1
        /\ s.lines = << >> /\ s.line = 0 /\ s.name = {} /\ s.todo = {}
        /\ \A i \in DOMAIN sent : sent[i].search \in 1..(s.search - 1)
    BY <1>0, <2>1 DEF ShapeOK, StageOK, Steady, Going
  <2>3. wanted'[s.search] = Wanted
    <3>1. wanted'[Len(wanted) + 1] = Wanted
      BY <1>0, <2>1, AppendIs
    <3> QED BY <1>0, <2>2, <3>1
  <2>a. all \in BOOLEAN
    OBVIOUS
  <2> HIDE DEF paths, all, left
  <2>4. /\ s'.search = s.search /\ s'.paths = paths /\ s'.all = all /\ s'.lines = << >>
        /\ s'.line = 0 /\ s'.name = {}
    BY <1>0, <2>1, <2>2 DEF SearchType
  <2>5. f \in Wanted.files
    BY <2>3, <2>4
  <2>6. Wanted.indexed = (index # << >>)
    BY DEF Wanted
  <2>7. index = << >> => Directories(query.type) # << >>
    <3>1. wanted'[n].indexed \/ Directories(query.type)' # << >>
      BY DEF IsRun
    <3>2. Directories(query.type)' = Directories(query.type)
      BY <2>1 DEF Directories
    <3> QED BY <2>3, <2>4, <2>6, <3>1, <3>2
  <2>8. paths # << >> /\ Reached(f, paths, index = << >>, query.type)
    BY <2>2, <2>5, <2>7, WantedComes DEF paths
  <2>9. Waiting(f)'
    BY <2>1, <2>4, <2>8 DEF Waiting, Coming, Reached, Target, IsTracker, all
  <2>10. Lines(n, f) = 0
    <3>1. HeardOf(sent, n, f) = {}
      BY <1>0, <2>2, <2>4 DEF HeardOf
    <3> QED BY <1>0, <3>1, SentSums
  <2>11. Pending(f)' = 0 /\ CountIn(s'.lines, f) = 0
    BY <1>1, <2>4 DEF Pending
  <2> QED BY <1>2, <2>1, <2>9, <2>10, <2>11
<1>9. CASE StartBatch
  <2> DEFINE k == Fitting(s.paths)
             first == SubSeq(s.paths, 1, k)
             rest == SubSeq(s.paths, k + 1, Len(s.paths))
             B == Below(Range(first))
  <2>1. s' = [s EXCEPT !.pc = "read", !.paths = rest, !.todo = B,
                       !.any = FALSE, !.name = {}, !.line = 0, !.bytes = 0]
    <3>1. s' = [s EXCEPT !.pc = "failed"] => s'.pc = "failed"
      BY <1>0 DEF SearchType
    <3> QED BY <1>9, <3>1, StartBatchIs
  <2>2. k \in 0..Len(s.paths) /\ s.pc = "batch" /\ s.paths # << >> /\ query' = query /\ wanted' = wanted
        /\ sent' = sent
    BY <1>9, StartBatchIs
  <2>3. s.lines = << >> /\ s.line = 0 /\ s.name = {} /\ s.todo = {}
    BY <2>2 DEF ShapeOK, StageOK, Steady
  <2>4. first \in Seq(PathType)
    BY <1>0, <2>2
  <2>a. \A g \in Files : g \in B <=> Reached(g, first, s.all, query.type)
    BY <2>4, BelowIs
  <2> HIDE DEF k, first, rest, B
  <2>5. /\ s'.paths = rest /\ s'.todo = B /\ s'.all = s.all /\ s'.search = s.search
        /\ s'.lines = << >> /\ s'.name = {} /\ s'.line = 0
    BY <1>0, <2>1, <2>3 DEF SearchType
  <2>6. n = s.search /\ IsRun(n) /\ f \in wanted[n].files
    BY <2>2, <2>5, RunIs
  <2>7. /\ Lines(n, f) + (Pending(f) + CountIn(s.lines, f)) = IF Waiting(f) THEN 0 ELSE OutputLines(f)
        /\ f \in Files
    BY <1>4, <2>2, <2>6
  <2>8. /\ NoneTwice(s.paths) /\ s.all = ~wanted[n].indexed
        /\ s.all => s.paths = Directories(query.type)
    BY <2>2, <2>6 DEF Apart
  <2>9. /\ \A x : x \in Range(s.paths) <=> x \in Range(first) \/ x \in Range(rest)
        /\ Range(<< >>) = {}
        /\ k = Len(s.paths) => rest = << >> /\ Range(first) = Range(s.paths)
    BY <1>0, <2>2, <2>8, SplitPaths DEF first, rest
  <2>10. Coming(f)' <=> rest # << >> /\ Reached(f, rest, s.all, query.type)
    BY <2>2, <2>5 DEF Coming, Reached, Target, IsTracker
  <2>11. f \in B <=> Reached(f, first, s.all, query.type)
    BY <2>7, <2>a
  <2>12. Coming(f) <=> f \in B \/ Coming(f)'
    <3>1. CASE ~s.all
      <4>1. Reached(f, rest, s.all, query.type) => rest # << >>
        BY <2>9, <3>1 DEF Reached
      <4>2. Reached(f, s.paths, s.all, query.type)
              <=> Reached(f, first, s.all, query.type) \/ Reached(f, rest, s.all, query.type)
        BY <2>9, <3>1 DEF Reached
      <4> QED BY <2>2, <2>10, <2>11, <4>1, <4>2 DEF Coming
    <3>2. CASE s.all
      <4>1. k = Len(s.paths)
        <5>1. ~wanted[n].indexed
          BY <1>0, <2>8, <3>2
        <5>2. Fitting(Directories(query.type)) = Len(Directories(query.type))
          BY <2>6, <5>1 DEF IsRun
        <5> QED BY <2>8, <3>2, <5>2 DEF k
      <4>2. rest = << >> /\ Range(first) = Range(s.paths)
        BY <2>9, <4>1
      <4> QED BY <2>2, <2>10, <2>11, <4>2 DEF Coming, Reached
    <3> QED BY <3>1, <3>2
  <2>13. Waiting(f)' = Waiting(f)
    BY <2>3, <2>5, <2>12 DEF Waiting
  <2>14. Pending(f)' = 0 /\ Pending(f) = 0
    BY <2>3, <2>5 DEF Pending
  <2> QED BY <1>2, <1>3, <2>2, <2>3, <2>5, <2>7, <2>13, <2>14
<1>10. CASE \E g \in Files : RgSearches(g)
  <2>1. PICK g \in Files : RgSearches(g)
    BY <1>10
  <2>2. /\ s.pc = "read" /\ g \in s.todo /\ query' = query /\ wanted' = wanted /\ sent' = sent
        /\ s' = [s EXCEPT !.todo = s.todo \ {g}, !.any = s'.any, !.lines = s'.lines]
    BY <2>1, RgSearchesIs
  <2>3. /\ s'.name = s.name /\ s'.line = s.line /\ s'.todo = s.todo \ {g} /\ s'.search = s.search
        /\ s'.paths = s.paths /\ s'.all = s.all
    <3>1. PICK a, l : s' = [s EXCEPT !.todo = s.todo \ {g}, !.any = a, !.lines = l]
      BY <2>2
    <3> QED BY <1>0, <3>1 DEF SearchType
  <2>4. n = s.search /\ IsRun(n) /\ f \in wanted[n].files
    BY <2>2, <2>3, RunIs
  <2>5. /\ Lines(n, f) + (Pending(f) + CountIn(s.lines, f)) = IF Waiting(f) THEN 0 ELSE OutputLines(f)
        /\ f \in Files /\ disk[f] > 0 /\ OutputLines(f) \in Nat
    BY <1>4, <2>2, <2>4
  <2>6. /\ CountIn(s.lines, f) = 0
        /\ CountIn(s'.lines, f) = IF f = g /\ disk[g] # 0 THEN OutputLines(g) ELSE 0
    BY <2>1, <2>5, RgSearchesCounts
  <2>7. Pending(f)' = Pending(f) /\ Coming(f)' = Coming(f)
    BY <1>5, <2>2, <2>3 DEF Pending
  <2>8. CASE f = g
    <3>1. Waiting(f) /\ ~Coming(f)
      BY <2>2, <2>4, <2>8 DEF Waiting, Apart
    <3>2. ~Waiting(f)'
      BY <2>3, <2>7, <2>8, <3>1 DEF Waiting
    <3>3. Lines(n, f) = 0 /\ Pending(f) = 0
      BY <1>1, <2>5, <2>6, <3>1
    <3>4. CountIn(s'.lines, f) = OutputLines(f)
      BY <2>5, <2>6, <2>8
    <3> QED BY <1>2, <1>3, <2>2, <2>5, <2>7, <3>2, <3>3, <3>4
  <2>9. CASE f # g
    <3>1. Waiting(f)' = Waiting(f)
      BY <2>3, <2>7, <2>9 DEF Waiting
    <3>2. CountIn(s'.lines, f) = 0
      BY <2>6, <2>9
    <3> QED BY <1>2, <1>3, <2>2, <2>5, <2>6, <2>7, <3>1, <3>2
  <2> QED BY <2>8, <2>9
<1>11. CASE ReadLine
  <2>1. s.pc = "read" /\ s.lines # << >> /\ query' = query /\ wanted' = wanted
    BY <1>11, ReadLineIs
  <2>2. /\ s'.lines = Tail(s.lines) /\ s'.todo = s.todo /\ s'.search = s.search /\ s'.paths = s.paths
        /\ s'.all = s.all
    BY <1>0, <1>11, ReadLineIs DEF SearchType, Panics
  <2>3. n = s.search /\ IsRun(n) /\ f \in wanted[n].files
    BY <2>1, <2>2, RunIs
  <2>4. /\ Lines(n, f) + (Pending(f) + CountIn(s.lines, f)) = IF Waiting(f) THEN 0 ELSE OutputLines(f)
        /\ f \in Files
    BY <1>4, <2>1, <2>3
  <2>5. Waiting(f)' = Waiting(f) /\ OutputLines(f)' = OutputLines(f)
    BY <1>3, <1>5, <2>1, <2>2 DEF Waiting
  <2> DEFINE h == IF Head(s.lines) = {f} THEN 1 ELSE 0
  <2>6. CountIn(s'.lines, f) \in Nat /\ CountIn(s.lines, f) = CountIn(s'.lines, f) + h /\ h \in Nat
    BY <1>0, <2>1, <2>2, CountInIs
  <2>7. send => Lines(n, f)' = Lines(n, f) + Pending(f)
    <3> SUFFICES ASSUME send PROVE Lines(n, f)' = Lines(n, f) + Pending(f)
      OBVIOUS
    <3>1. Lines(n, f)' = Lines(n, f) + (IF n = s.search /\ s.name = {f} THEN s.line ELSE 0)
      BY <2>1, <2>4, SendSums
    <3> QED BY <2>3, <3>1 DEF Pending
  <2>8. Lines(n, f)' + (Pending(f)' + CountIn(s'.lines, f)) = Lines(n, f) + (Pending(f) + CountIn(s.lines, f))
    <3>1. CASE /\ Head(s.lines) # {} /\ Head(s.lines) = s.name /\ sent' = sent
               /\ s'.name = s.name /\ s'.line = s.line + 1
      <4>1. Pending(f)' = Pending(f) + h
        BY <1>0, <3>1 DEF Pending
      <4> HIDE DEF h
      <4> QED BY <1>1, <1>2, <2>6, <3>1, <4>1
    <3>2. CASE send /\ Head(s.lines) = {} /\ s'.line = 0
      <4>1. Pending(f)' = 0 /\ h = 0
        BY <3>2 DEF Pending
      <4> HIDE DEF h
      <4> QED BY <1>1, <2>6, <2>7, <3>2, <4>1
    <3>3. CASE send /\ s'.name = Head(s.lines) /\ s'.line = 1
      <4>1. Pending(f)' = h
        BY <3>3 DEF Pending
      <4> HIDE DEF h
      <4> QED BY <1>1, <2>6, <2>7, <3>3, <4>1
    <3> QED BY <1>0, <1>11, <3>1, <3>2, <3>3, ReadLineIs DEF SearchType, Panics
  <2> QED BY <2>4, <2>5, <2>8
<1>12. CASE ReadEOF
  <2>1. s.pc = "read" /\ s.lines = << >> /\ s.todo = {} /\ query' = query /\ wanted' = wanted
    BY <1>12, ReadEOFIs
  <2>2. /\ send /\ s'.lines = << >> /\ s'.todo = s.todo /\ s'.search = s.search /\ s'.paths = s.paths
        /\ s'.all = s.all /\ s'.name = {}
    BY <1>0, <1>12, <2>1, ReadEOFIs DEF SearchType, Panics
  <2>3. n = s.search /\ IsRun(n) /\ f \in wanted[n].files
    BY <2>1, <2>2, RunIs
  <2>4. /\ Lines(n, f) + (Pending(f) + CountIn(s.lines, f)) = IF Waiting(f) THEN 0 ELSE OutputLines(f)
        /\ f \in Files
    BY <1>4, <2>1, <2>3
  <2>5. Waiting(f)' = Waiting(f) /\ OutputLines(f)' = OutputLines(f)
    BY <1>3, <1>5, <2>1, <2>2 DEF Waiting
  <2>6. Lines(n, f)' = Lines(n, f) + (IF n = s.search /\ s.name = {f} THEN s.line ELSE 0)
    BY <2>1, <2>2, <2>4, SendSums
  <2>7. Lines(n, f)' = Lines(n, f) + Pending(f) /\ Pending(f)' = 0
    BY <2>2, <2>3, <2>6 DEF Pending
  <2>8. CountIn(s'.lines, f) = 0 /\ CountIn(s.lines, f) = 0
    BY <1>1, <2>1, <2>2
  <2> QED BY <1>1, <2>4, <2>5, <2>7, <2>8
<1>13. CASE NextSearch \/ Render \/ Recover
  BY <1>0, <1>13, NextSearchIs, RenderIs, RecoverIs DEF SearchType
<1>14. CASE Close
  BY <1>14 DEF Close, NoSearch
<1>15. CASE RgFails
  <2>1. /\ s.pc = "read" /\ query' = query /\ sent' = sent /\ s'.pc \in {"read", "failed"}
        /\ s'.name = s.name /\ s'.line = s.line /\ s'.search = s.search
        /\ s'.paths = s.paths /\ s'.all = s.all /\ s'.todo \subseteq s.todo
    BY <1>15, RgFailsIs
  <2>2. s'.pc = "read" /\ n = s.search /\ n \in 1..Len(wanted)
    BY <1>0, <2>1
  <2>3. /\ s'.todo = {} /\ s'.lines = << >> /\ f \notin s.todo
        /\ \A i \in DOMAIN s.lines : s.lines[i] # {f}
    BY <1>15, <2>2, RgFailsIs
  <2>4. wanted'[n].indexed = wanted[n].indexed /\ f \in wanted[n].files
    BY <1>15, <2>2, RgFailsIs
  <2>5. IsRun(n)
    BY <2>1, <2>4, RunIs
  <2>6. Lines(n, f) + (Pending(f) + CountIn(s.lines, f)) = IF Waiting(f) THEN 0 ELSE OutputLines(f)
    BY <1>4, <2>1, <2>2, <2>4, <2>5
  <2>7. CountIn(s.lines, f) = 0 /\ CountIn(s'.lines, f) = 0
    BY <1>0, <1>1, <2>3, CountInIs
  <2>8. Waiting(f)' = Waiting(f) /\ Pending(f)' = Pending(f)
    BY <1>5, <2>1, <2>3 DEF Waiting, Pending
  <2> QED BY <1>2, <1>3, <2>1, <2>6, <2>7, <2>8
<1> QED BY <1>6, <1>7, <1>8, <1>9, <1>10, <1>11, <1>12, <1>13, <1>14, <1>15
        DEF Next, SearchStep, Elsewhere

\* The patterns whose turn is over.
Over(n) == n < s.search \/ s.pc = "ok" \/ page.end = "ok"

\* They have found everything.
FoundBefore ==
    Going \/ page.end = "ok" =>
        \A n \in DOMAIN wanted : Over(n) /\ IsRun(n) =>
            \A f \in wanted[n].files : Lines(n, f) = OutputLines(f)

\* A step of the pattern whose turn it is changes nothing for the earlier ones.
LEMMA EarlierFound ==
    ASSUME ShapeOK, FoundBefore, Going, query' = query, NEW n \in DOMAIN wanted, Over(n), IsRun(n)',
           wanted'[n].indexed = wanted[n].indexed, wanted'[n].files \subseteq wanted[n].files,
           sent' = sent \/ (s.pc = "read" /\ send /\ n # s.search), NEW f \in wanted'[n].files
    PROVE  Lines(n, f)' = OutputLines(f)'
<1>1. IsRun(n) /\ f \in wanted[n].files
  BY RunIs
<1>2. Lines(n, f) = OutputLines(f)
  BY <1>1 DEF FoundBefore
<1>3. OutputLines(f)' = OutputLines(f)
  BY DEF OutputLines, OutputOf
<1>4. Lines(n, f)' = Lines(n, f)
  <2>1. CASE sent' = sent
    BY <2>1 DEF Lines, LinesOf
  <2>2. CASE s.pc = "read" /\ send /\ n # s.search
    <3>1. sent \in Seq(MatchType) /\ wanted[n] \in WantedType
      BY ElementIs DEF ShapeOK, TypesOK
    <3>2. f \in Files
      BY <1>1, <3>1 DEF WantedType
    <3>3. Lines(n, f)' = Lines(n, f) + (IF n = s.search /\ s.name = {f} THEN s.line ELSE 0)
      BY <2>2, <3>2, SendSums
    <3>4. Lines(n, f) \in Nat
      BY <3>1, SentSums
    <3> QED BY <2>2, <3>3, <3>4
  <2> QED BY <2>1, <2>2
<1> QED BY <1>2, <1>3, <1>4

\* Every step keeps it: a pattern whose last command ends has nothing left to be searched.
LEMMA StepBefore == ShapeOK /\ FoundSoFar /\ FoundBefore /\ [Next]_vars => FoundBefore'
<1> SUFFICES ASSUME ShapeOK, FoundSoFar, FoundBefore, [Next]_vars, Going' \/ page'.end = "ok",
                    NEW n \in DOMAIN wanted', Over(n)', IsRun(n)', NEW f \in wanted'[n].files
             PROVE  Lines(n, f)' = OutputLines(f)'
  BY DEF FoundBefore
<1>0. /\ s \in SearchType /\ s.search \in Nat /\ sent \in Seq(MatchType)
      /\ wanted \in Seq(WantedType) /\ DOMAIN wanted = 1..Len(wanted) /\ Len(wanted) \in Nat
      /\ page.end = "none" \/ s.pc = "done"
      /\ Going => s.search > 0 /\ Len(wanted) = IF s.pc = "command" THEN s.search - 1 ELSE s.search
  <2>1. s.search \in Nat
    BY DEF ShapeOK, TypesOK, SearchType
  <2> QED BY <2>1 DEF ShapeOK, TypesOK, PageOK, StageOK
<1>1. ASSUME Going, query' = query, wanted' = wanted, n < s.search \/ s.pc = "ok",
             sent' = sent \/ (s.pc = "read" /\ send /\ n # s.search)
      PROVE  Lines(n, f)' = OutputLines(f)'
  BY <1>1, EarlierFound DEF Over
<1>2. CASE Elsewhere \/ UNCHANGED vars
  <2>1. s' = s /\ query' = query /\ sent' = sent /\ page' = page
    BY <1>2, ElsewhereIs DEF vars
  <2>2. /\ n \in DOMAIN wanted /\ wanted'[n].indexed = wanted[n].indexed
        /\ wanted'[n].files \subseteq wanted[n].files
    <3>1. CASE Elsewhere
      <4>1. wanted' \in Seq(WantedType) /\ Len(wanted') = Len(wanted)
        BY <3>1, ElsewhereIs
      <4>2. n \in 1..Len(wanted)
        BY <4>1
      <4> QED BY <1>0, <3>1, <4>2, ElsewhereIs
    <3>2. CASE UNCHANGED vars
      BY <3>2 DEF vars
    <3> QED BY <1>2, <3>1, <3>2
  <2>3. (Going \/ page.end = "ok") /\ Over(n)
    BY <2>1 DEF Going, Over
  <2>4. IsRun(n) /\ f \in wanted[n].files
    BY <2>1, <2>2, RunIs
  <2>5. Lines(n, f) = OutputLines(f)
    BY <2>2, <2>3, <2>4 DEF FoundBefore
  <2> QED BY <2>1, <2>5 DEF Lines, LinesOf, OutputLines, OutputOf
<1>3. CASE Request
  <2>1. wanted' = << >>
    BY <1>3, RequestIs
  <2> QED BY <2>1
<1>4. CASE Command
  <2>1. CASE /\ s'.pc = "done"
             /\ page' = [end |-> "disabled", groups |-> << >>, rows |-> NoPage.rows]
    BY <2>1 DEF Going
  <2>2. CASE /\ s' = [s EXCEPT !.pc = "batch", !.left = query.maxBytes,
                               !.paths = SearchPaths \o Directories(query.type),
                               !.all = index = << >>]
             /\ wanted' = Append(wanted, Wanted) /\ Wanted \in WantedType
             /\ page' = page
    <3> DEFINE paths == SearchPaths \o Directories(query.type)
               all == index = << >>
               left == query.maxBytes
    <3>1. s.pc = "command" /\ query' = query /\ sent' = sent /\ Going
      BY <1>4, CommandIs DEF Going
    <3>2. s' = [s EXCEPT !.pc = "batch", !.left = left, !.paths = paths, !.all = all]
      BY <2>2
    <3> HIDE DEF paths, all, left
    <3>3. s'.search = s.search /\ s'.pc = "batch"
      BY <1>0, <3>2 DEF SearchType
    <3>4. page.end = "none" /\ Len(wanted) = s.search - 1
      BY <1>0, <3>1
    <3>5. n < s.search
      BY <2>2, <3>3, <3>4 DEF Over
    <3>6. n \in 1..Len(wanted')
      <4>1. wanted' \in Seq(WantedType)
        BY <1>0, <2>2, AppendIs
      <4> QED BY <4>1
    <3>7. n \in 1..Len(wanted) /\ n \in DOMAIN wanted
      BY <1>0, <3>4, <3>5, <3>6
    <3>8. wanted'[n] = wanted[n]
      BY <1>0, <2>2, <3>7, AppendIs
    <3>9. Over(n)
      BY <3>5 DEF Over
    <3> QED BY <3>1, <3>7, <3>8, <3>9, EarlierFound
  <2> QED BY <1>4, <2>1, <2>2, CommandIs
<1>5. CASE StartBatch \/ \E g \in Files : RgSearches(g)
  <2>1. s.pc \in {"batch", "read"} /\ UNCHANGED <<query, sent, page, wanted>> /\ Going
    BY <1>5, StartBatchIs, RgSearchesIs DEF Going
  <2>2. s'.search = s.search /\ s'.pc # "ok"
    <3>1. CASE StartBatch
      BY <1>0, <3>1, StartBatchIs DEF SearchType
    <3>2. CASE \E g \in Files : RgSearches(g)
      <4>1. PICK g \in Files : RgSearches(g)
        BY <3>2
      <4>2. s.pc = "read" /\ s' = [s EXCEPT !.todo = s.todo \ {g}, !.any = s'.any, !.lines = s'.lines]
        BY <4>1, RgSearchesIs
      <4>3. PICK a, l : s' = [s EXCEPT !.todo = s.todo \ {g}, !.any = a, !.lines = l]
        BY <4>2
      <4> QED BY <1>0, <4>2, <4>3 DEF SearchType
    <3> QED BY <1>5, <3>1, <3>2
  <2>3. n < s.search
    BY <1>0, <2>1, <2>2 DEF Over
  <2> QED BY <1>1, <2>1, <2>3
<1>6. CASE NextSearch
  <2>1. /\ s.pc = "batch" /\ s.paths = << >> /\ UNCHANGED <<query, sent, page, wanted>> /\ Going
        /\ s.todo = {} /\ s.lines = << >> /\ s.name = {} /\ s.line = 0
    BY <1>6, NextSearchIs DEF Going, ShapeOK, StageOK, Steady
  <2>2. n \in 1..s.search
    BY <1>0, <2>1
  <2>3. CASE n < s.search
    BY <1>1, <2>1, <2>3
  <2>4. CASE n = s.search
    <3>1. IsRun(n) /\ f \in wanted[n].files
      BY <2>1, RunIs
    <3>2. Lines(n, f) + (Pending(f) + CountIn(s.lines, f)) = IF Waiting(f) THEN 0 ELSE OutputLines(f)
      BY <2>1, <2>4, <3>1 DEF FoundSoFar
    <3>3. ~Waiting(f)
      BY <2>1 DEF Waiting, Coming
    <3>4. Pending(f) = 0 /\ CountIn(s.lines, f) = 0 /\ Lines(n, f) \in Nat
      <4>1. CountIn(<< >>, f) = 0
        BY <1>0, CountInIs
      <4> QED BY <1>0, <2>1, <4>1, SentSums DEF Pending
    <3>5. Lines(n, f) = OutputLines(f)
      BY <3>2, <3>3, <3>4
    <3>6. Lines(n, f)' = Lines(n, f)
      BY <2>1 DEF Lines, LinesOf
    <3>7. OutputLines(f)' = OutputLines(f)
      BY <2>1 DEF OutputLines, OutputOf
    <3> QED BY <3>5, <3>6, <3>7
  <2> QED BY <1>0, <2>2, <2>3, <2>4
<1>7. CASE ReadLine \/ ReadEOF
  <2>1. s.pc = "read" /\ query' = query /\ wanted' = wanted /\ Going
    BY <1>7, ReadLineIs, ReadEOFIs DEF Going
  <2>2. sent' = sent \/ send
    BY <1>7, ReadLineIs, ReadEOFIs DEF Panics
  <2>3. s'.search = s.search /\ s'.pc # "ok"
    BY <1>0, <1>7, <2>1, ReadLineIs, ReadEOFIs DEF SearchType, Panics
  <2>4. page'.end = page.end
    BY <1>7, <2>1, ReadLineIs, ReadEOFIs, SendIs DEF Panics
  <2>5. n < s.search /\ n # s.search
    <3>1. page'.end = "none"
      BY <1>0, <2>1, <2>4
    <3>2. n < s.search
      BY <2>3, <3>1 DEF Over
    <3>3. n \in Nat
      BY <1>0, <2>1
    <3> QED BY <1>0, <3>2, <3>3
  <2> QED BY <1>1, <2>1, <2>2, <2>5
<1>8. CASE Render
  <2>1. UNCHANGED <<query, sent, wanted>> /\ s'.pc = "done" /\ page'.end = s.pc
    BY <1>0, <1>8, RenderIs DEF SearchType
  <2>2. s.pc = "ok" /\ Going
    BY <2>1 DEF Going
  <2> QED BY <1>1, <2>1, <2>2
<1>9. CASE Recover
  <2>1. s'.pc = "done" /\ page'.end = "panic"
    BY <1>0, <1>9, RecoverIs DEF SearchType
  <2> QED BY <2>1 DEF Going
<1>10. CASE Close
  <2>1. s'.pc = "done" /\ page'.end = "none"
    BY <1>10 DEF Close, NoSearch, NoPage
  <2> QED BY <2>1 DEF Going
<1>11. CASE RgFails
  <2>1. /\ s.pc = "read" /\ UNCHANGED <<query, sent, page>> /\ Going
        /\ s'.pc \in {"read", "failed"} /\ s'.search = s.search
        /\ wanted' \in Seq(WantedType) /\ Len(wanted') = Len(wanted)
    BY <1>11, RgFailsIs
  <2>2. n \in 1..Len(wanted)
    BY <2>1
  <2>3. wanted'[n].indexed = wanted[n].indexed /\ wanted'[n].files \subseteq wanted[n].files
    BY <1>11, <2>2, RgFailsIs
  <2>4. Over(n)
    BY <1>0, <2>1 DEF Over
  <2> QED BY <1>0, <2>1, <2>2, <2>3, <2>4, EarlierFound
<1> QED BY <1>2, <1>3, <1>4, <1>5, <1>6, <1>7, <1>8, <1>9, <1>10, <1>11
        DEF Next, SearchStep, Elsewhere

\* A search that ends well has found every line of every file that the request is
\* about, that was there all the time, that the index had when the pattern's turn
\* came and that ripgrep did not die on, once, over batches, separators and reloads
\* of the index.
THEOREM AllIsFound == Spec => []EverythingIsFound
<1>1. Init => Apart /\ FoundSoFar /\ FoundBefore
  BY DEF Init, Apart, FoundSoFar, FoundBefore, NoSearch, NoPage, Going
<1>2. FoundBefore => EverythingIsFound
  BY DEF FoundBefore, EverythingIsFound, Over
<1> QED BY <1>1, <1>2, InitShape, StepShape, StepApart, StepSoFar, StepBefore, PTL DEF Spec
=============================================================================

------------------------------- MODULE Search -------------------------------
(***************************************************************************)
(* The search process (cmd/search): the index of result files that is      *)
(* rebuilt every three minutes while files come and go, and one search     *)
(* request, which runs ripgrep in batches over the files the index names,  *)
(* reads its output line by line and hands the matches of every file to    *)
(* the page that is being made.                                            *)
(*                                                                         *)
(* Searches share nothing that they change, so one of them is modelled.  A *)
(* file is a record of its kind, the name it is listed under (the job, or  *)
(* the title of a bug or an issue) and its number (of the build, the bug,  *)
(* the issue).  A line is one byte long, and ripgrep's output consists of  *)
(* {f}, a line of file f, and {}, the separator "--".                      *)
(***************************************************************************)
EXTENDS Lists, Integers, FiniteSets, SequencesExt

CONSTANTS
    Files,          \* the files there may be: [kind, name, number]
    Disks,          \* the files' modification times at the start, 0 if absent
    Enabled,        \* the trackers that are searched
    Requests,       \* what a client may ask for: the parameters of the request, and
                    \* what its pattern leaves of the length of a command (room) and
                    \* finds in every file (hits: ripgrep's output for the file, if
                    \* the matches are not limited, groups of lines after separators)
    PathLength,     \* the length of a path with its separator
    Settings,       \* values of --max-age, the bugs and issues whose comments are in
                    \* memory, and those whose files are broken: [maxAge, known, broken]
    DefaultMaxAge, DefaultMaxBytes, MaxMatchesLimit, MaxBytesLimit, MaxContext,
    SizeLimit,      \* bytes of the page that sortableWriter sorts
    LastChange,     \* the last change of a bug or an issue
    MaxTime,        \* bound on the clock
    MaxChanges      \* bound: files changed by others, and commands that die

Trackers == {"bug", "issue"}
Dir(kind) == [kind |-> "dir", name |-> kind, number |-> 0]
Kinds == {"junit", "build-log"} \cup Trackers

\* The parameters of a request, as they are parsed and then completed.
RequestType ==
    [mode : {"json", "group", "flat"}, type : STRING, filter : SUBSET STRING, maxAge : Int,
     maxMatches : Int, maxBytes : Int, context : Int, searches : Nat, room : Int,
     hits : [Files -> Seq(SUBSET Files)]]

ASSUME SearchAssumption ==
    /\ IsFiniteSet(Files) /\ \A f \in Files : f.kind \in Kinds
    /\ Requests \subseteq RequestType
    /\ \A r \in Requests : \A f \in Files : r.hits[f] \in Seq({{}, {f}})
    /\ Enabled \subseteq Trackers
    /\ MaxTime \in Nat /\ MaxTime > 1 /\ Disks \subseteq [Files -> 0..MaxTime]
    /\ \A set \in Settings :
          set.maxAge \in Nat /\ set.broken \subseteq {f \in Files : f.kind \in Trackers}
    /\ DefaultMaxAge \in Nat \ {0} /\ DefaultMaxBytes \in Nat \ {0} /\ LastChange \in Nat
    /\ PathLength \in Nat \ {0} /\ SizeLimit \in Nat \ {0} /\ MaxChanges \in Nat

VARIABLES
    now,
    disk,           \* modification time of every file, 0 if it is absent
    maxAge,         \* --max-age, 0 to keep all
    known,          \* files of bugs and issues whose comments are in memory
    broken,         \* files of bugs and issues that the comments cannot be read from
    index,          \* pathIndex.ordered: [file, age], newest first
    loader,         \* the Load in progress: [pc, start, todo, found]
    query,          \* the Index of the request
    s,              \* the search in progress
    sent,           \* what fn was called with: [search, file, shown, more, age]
    page,           \* the page, and how the search ended
    wanted,         \* history: for every pattern, the files to be searched, and those
                    \* of bugs and issues that could be read all the time (sound)
    changes,        \* of files by others so far
    failures        \* of ripgrep so far

vars == <<now, disk, maxAge, known, broken, index, loader, query, s, sent, page,
          wanted, changes, failures>>

IsTracker(f) == f.kind \in Trackers
NoLoader == [pc |-> "idle", start |-> 0, todo |-> {}, found |-> {}]
NoSearch == [pc |-> "idle", search |-> 0, start |-> 0, paths |-> << >>,
             all |-> FALSE, left |-> 0, todo |-> {}, lines |-> << >>, any |-> FALSE,
             name |-> {}, line |-> 0, bytes |-> 0]
NewWriter == [limit |-> SizeLimit, entries |-> << >>, open |-> FALSE, buf |-> << >>,
              index |-> 0, out |-> << >>]
NoPage == [end |-> "none", groups |-> << >>,
           rows |-> [last |-> {}, drop |-> TRUE, w |-> NewWriter]]
NoQuery == [mode |-> "none"]

Init ==
    /\ now = MaxTime - 1 /\ disk \in Disks
    /\ \E set \in Settings : maxAge = set.maxAge /\ known = set.known /\ broken = set.broken
    /\ index = << >> /\ loader = NoLoader
    /\ query = NoQuery /\ s = NoSearch /\ sent = << >> /\ page = NoPage /\ wanted = << >>
    /\ changes = 0 /\ failures = 0

-----------------------------------------------------------------------------
(***************************************************************************)
(* Others: the disk stores write and remove files, time passes.            *)
(***************************************************************************)
Tick ==
    /\ now < MaxTime
    /\ now' = now + 1
    /\ UNCHANGED <<disk, maxAge, known, broken, index, loader, query, s, sent, page,
                   wanted, changes, failures>>

\* A file that is removed, and one that can no longer be read.
Without(f) == [n \in DOMAIN wanted |-> [wanted[n] EXCEPT !.files = @ \ {f}, !.sound = @ \ {f}]]
Unsound(f) == [n \in DOMAIN wanted |-> [wanted[n] EXCEPT !.sound = @ \ {f}]]

\* A file is written, the file of a bug or an issue is written so that its comments
\* cannot be read (see CommentStore: two writers at once), or a file is removed.
Change(f) ==
    /\ changes + failures < MaxChanges
    /\ changes' = changes + 1
    /\ \/ /\ disk' = [disk EXCEPT ![f] = now] /\ broken' = broken \ {f}
          /\ UNCHANGED wanted
       \/ /\ IsTracker(f)
          /\ disk' = [disk EXCEPT ![f] = now] /\ broken' = broken \cup {f}
          /\ wanted' = Unsound(f)
       \/ /\ disk[f] > 0
          /\ disk' = [disk EXCEPT ![f] = 0] /\ broken' = broken \ {f}
          /\ wanted' = Without(f)
    /\ UNCHANGED <<now, maxAge, known, index, loader, query, s, sent, page, failures>>

-----------------------------------------------------------------------------
(***************************************************************************)
(* pathIndex.Load: the walk meets the files one by one, in any order (it   *)
(* does not sort the directories), while they are written and removed.     *)
(***************************************************************************)
JobFiles == {f \in Files : ~IsTracker(f)}

Load ==
    /\ loader.pc = "idle"
    /\ loader' = [pc |-> "walk", start |-> now, todo |-> JobFiles, found |-> {}]
    /\ UNCHANGED <<now, disk, maxAge, known, broken, index, query, s, sent, page,
                   wanted, changes, failures>>

Expired(f) == maxAge # 0 /\ disk[f] < loader.start - maxAge

Visit(f) ==
    /\ loader.pc = "walk" /\ f \in loader.todo
    /\ LET gone == disk[f] = 0 \/ Expired(f) IN
       /\ loader' = [loader EXCEPT !.todo = @ \ {f},
                                   !.found = IF gone THEN @
                                             ELSE @ \cup {[file |-> f, age |-> disk[f]]}]
       /\ IF gone THEN disk' = [disk EXCEPT ![f] = 0] /\ wanted' = Without(f)
                  ELSE UNCHANGED <<disk, wanted>>
    /\ UNCHANGED <<now, maxAge, known, broken, index, query, s, sent, page, changes, failures>>

\* The orders of the paths found that the sort may produce.
Newest(found) ==
    {q \in [1..Cardinality(found) -> found] :
        \A i, j \in DOMAIN q : i < j => q[i] # q[j] /\ q[i].age >= q[j].age}

\* Plausible bug: the comparison is the wrong way round.
PublishOldest ==
    /\ loader.pc = "walk" /\ loader.todo = {}
    /\ \E q \in Newest(loader.found) : index' = Reverse(q)
    /\ loader' = NoLoader
    /\ UNCHANGED <<now, disk, maxAge, known, broken, query, s, sent, page, wanted,
                   changes, failures>>

\* Plausible bug: the paths found are added to the index.
PublishAppending ==
    /\ loader.pc = "walk" /\ loader.todo = {}
    /\ \E q \in Newest(loader.found) : index' = q \o index
    /\ loader' = NoLoader
    /\ UNCHANGED <<now, disk, maxAge, known, broken, query, s, sent, page, wanted,
                   changes, failures>>

\* The end of the walk: sort, and swap the index under the lock.
Publish ==
    /\ loader.pc = "walk" /\ loader.todo = {}
    /\ index' \in Newest(loader.found)
    /\ loader' = NoLoader
    /\ UNCHANGED <<now, disk, maxAge, known, broken, query, s, sent, page, wanted,
                   changes, failures>>

LastModified(f) ==
    LET at == {i \in DOMAIN index : index[i].file = f} IN
    IF at = {} THEN 0 ELSE index[CHOOSE i \in at : TRUE].age

-----------------------------------------------------------------------------
(***************************************************************************)
(* The request: mode is "json" (/search and /v2/search), or "group" and    *)
(* "flat" (the index page with and without grouping by job).               *)
(***************************************************************************)
IsBad(r) ==
    \/ r.maxMatches \notin 0..MaxMatchesLimit \/ r.maxBytes \notin 0..MaxBytesLimit
    \/ r.maxAge < 0 \/ r.context \notin -1..MaxContext
    \/ r.mode = "json" /\ r.searches = 0

parseRequest(r) ==
    LET age == IF r.maxAge = 0 THEN DefaultMaxAge ELSE r.maxAge IN
    [r EXCEPT !.maxAge = IF age > maxAge THEN maxAge ELSE age,
              !.maxBytes = IF r.maxBytes = 0 THEN DefaultMaxBytes ELSE r.maxBytes,
              !.maxMatches = IF r.mode # "json" /\ r.context < 0 THEN 1
                             ELSE IF r.maxMatches > 0 THEN r.maxMatches
                             ELSE IF r.mode = "json" THEN 1 ELSE 5]

Respond(end) ==
    /\ s' = [NoSearch EXCEPT !.pc = "done"]
    /\ page' = [NoPage EXCEPT !.end = end]

\* The page for no pattern has statistics instead of results.
Request ==
    /\ s.pc = "idle"
    /\ \E r \in Requests :
        /\ query' = parseRequest(r)
        /\ IF IsBad(r) THEN Respond("bad")
           ELSE IF r.searches = 0 THEN Respond("empty")
           ELSE /\ s' = [NoSearch EXCEPT !.pc = "command", !.search = 1, !.start = now]
                /\ UNCHANGED page
    /\ UNCHANGED <<now, disk, maxAge, known, broken, index, loader, sent, wanted,
                   changes, failures>>

-----------------------------------------------------------------------------
(***************************************************************************)
(* What is to be searched.                                                 *)
(***************************************************************************)
FilenamesForSearchType(type) ==
    CASE type \in {"junit", "bug+junit", "bug+issue+junit"} -> {"junit"}
      [] type = "build-log" -> {"build-log"}
      [] type = "all" -> {"junit", "build-log"}
      [] OTHER -> {}

TrackersFor(type) ==
    CASE type \in {"bug", "bug+junit"} -> {"bug"}
      [] type = "issue" -> {"issue"}
      [] type \in {"bug+issue", "bug+issue+junit", "all"} -> Trackers
      [] OTHER -> {}

Directories(type) ==
    LET has(k) == IF k \in TrackersFor(type) \cap Enabled THEN <<Dir(k)>> ELSE << >> IN
    has("bug") \o has("issue")

JobFilter(name) == query.filter = {} \/ name \in query.filter

\* Up to the first path that is too old, those of the right name and job.
SearchPaths ==
    LET recent(i) == query.maxAge = 0 \/ index[i].age >= now - query.maxAge
        kept == {i \in DOMAIN index : /\ \A j \in 1..i : recent(j)
                                      /\ index[i].file.kind \in FilenamesForSearchType(query.type)
                                      /\ JobFilter(index[i].file.name)}
    IN  AtPositions([i \in DOMAIN index |-> index[i].file], kept)

\* Every file that the request is about, for the properties.
Wanted ==
    [files |->
        {f \in Files : disk[f] > 0 /\
            IF IsTracker(f) THEN f.kind \in TrackersFor(query.type) \cap Enabled
            ELSE /\ f.kind \in FilenamesForSearchType(query.type) /\ JobFilter(f.name)
                 /\ \/ index = << >>
                    \/ \E i \in DOMAIN index :
                          /\ index[i].file = f
                          /\ query.maxAge = 0 \/ index[i].age >= now - query.maxAge},
     sound |-> {f \in Files : IsTracker(f) /\ disk[f] > 0 /\ f \notin broken},
     indexed |-> index # << >>]

\* RipgrepSourceArguments.  Without an index, the directory of all jobs becomes
\* an argument of every command.
Command ==
    LET onlyTracker == query.type \in Trackers IN
    /\ s.pc = "command"
    /\ IF onlyTracker /\ query.type \notin Enabled
       THEN Respond("disabled") /\ UNCHANGED wanted
       ELSE /\ s' = [s EXCEPT !.pc = "batch", !.left = query.maxBytes,
                              !.paths = SearchPaths \o Directories(query.type),
                              !.all = index = << >>]
            /\ wanted' = Append(wanted, Wanted)
            /\ UNCHANGED page
    /\ UNCHANGED <<now, disk, maxAge, known, broken, index, loader, query, sent,
                   changes, failures>>

\* splitStringSliceByLength: how many of the paths fit.
Fitting(paths) == Cardinality({k \in DOMAIN paths : k * PathLength < query.room})

\* The files that ripgrep finds below the paths it is given.
Below(args) ==
    {f \in Files : \/ f \in args
                   \/ IsTracker(f) /\ Dir(f.kind) \in args
                   \/ ~IsTracker(f) /\ s.all /\ f.kind \in FilenamesForSearchType(query.type)}

\* A command that has no path, or that the system does not start, is an error.
StartBatch ==
    LET k == Fitting(s.paths) IN
    /\ s.pc = "batch" /\ s.paths # << >>
    /\ \/ s' = [s EXCEPT !.pc = "failed"]
       \/ /\ k > 0
          /\ s' = [s EXCEPT !.pc = "read", !.paths = SubSeq(@, k + 1, Len(@)),
                            !.todo = Below(Range(SubSeq(s.paths, 1, k))), !.any = FALSE,
                            !.name = {}, !.line = 0, !.bytes = 0]
    /\ UNCHANGED <<now, disk, maxAge, known, broken, index, loader, query, sent, page,
                   wanted, changes, failures>>

\* executeGrep: the next pattern, if there is one.
NextSearch ==
    /\ s.pc = "batch" /\ s.paths = << >>
    /\ s' = IF s.search < query.searches THEN [s EXCEPT !.pc = "command", !.search = @ + 1]
            ELSE [s EXCEPT !.pc = "ok"]
    /\ UNCHANGED <<now, disk, maxAge, known, broken, index, loader, query, sent, page,
                   wanted, changes, failures>>

-----------------------------------------------------------------------------
(***************************************************************************)
(* searchResult and orderedSearchResults.  Both append a match to the      *)
(* entry of its key, and within the entry to the last instance if that has *)
(* the match's number.                                                     *)
(***************************************************************************)
Key(m) ==
    CASE query.mode = "json" -> <<IF IsTracker(m.file) THEN m.file.kind ELSE "job",
                                 m.file.name, m.file.number, m.search>>
      [] query.mode = "group" /\ IsTracker(m.file) -> <<m.file.kind, m.file.number>>
      [] OTHER -> <<"job", m.file.name>>

\* Plausible bug: the number of the last instance is not compared.
AddMatchToLast(instances, m) ==
    LET new == IF instances = << >>
               THEN Append(instances, [number |-> m.file.number, matches |-> << >>])
               ELSE instances
    IN  [new EXCEPT ![Len(new)].matches = Append(@, m)]

AddMatch(instances, m) ==
    LET new == IF instances = << >> \/ Last(instances).number # m.file.number
               THEN Append(instances, [number |-> m.file.number, matches |-> << >>])
               ELSE instances
    IN  [new EXCEPT ![Len(new)].matches = Append(@, m)]

Keeps(m) == IsTracker(m.file) \/ JobFilter(m.file.name)

orderedSearchResults(groups, m) ==
    LET at == {i \in DOMAIN groups : groups[i].key = Key(m)}
        all == IF at # {} THEN groups ELSE Append(groups, [key |-> Key(m), instances |-> << >>])
        i == IF at # {} THEN CHOOSE j \in at : TRUE ELSE Len(all)
    IN  IF ~Keeps(m) THEN groups ELSE [all EXCEPT ![i].instances = AddMatch(@, m)]

-----------------------------------------------------------------------------
(***************************************************************************)
(* renderMatches and sortableWriter: the rows of a page are buffered and   *)
(* sorted until they are larger than the limit.  A byte is a match here.   *)
(***************************************************************************)
push(w) ==
    [w EXCEPT !.limit = @ - Len(w.buf), !.buf = << >>,
              !.entries = Append(@, [index |-> w.index, data |-> w.buf])]

\* Plausible bug: the row that is still being written is not added.
FlushUnpushed(w) ==
    LET sorted == SortSeq(w.entries, LAMBDA a, b : a.index < b.index)
    IN  [w EXCEPT !.open = FALSE, !.entries = sorted,
                  !.out = @ \o FlattenSeq([i \in DOMAIN sorted |-> sorted[i].data])]

\* The entries that are written are kept, and written again by the next Flush.
Flush(w) ==
    LET all == IF w.open THEN push(w) ELSE w
        sorted == SortSeq(all.entries, LAMBDA a, b : a.index < b.index)
    IN  [all EXCEPT !.open = FALSE, !.entries = sorted,
                    !.out = @ \o FlattenSeq([i \in DOMAIN sorted |-> sorted[i].data])]

SetIndex(w, i) ==
    IF w.limit <= 0 THEN w
    ELSE IF ~w.open THEN [w EXCEPT !.open = TRUE, !.index = i]
    ELSE LET next == [push(w) EXCEPT !.index = i] IN
         IF next.limit <= 0 THEN Flush([next EXCEPT !.open = FALSE]) ELSE next

Write(w, m) ==
    IF w.open THEN [w EXCEPT !.buf = Append(@, m)] ELSE [w EXCEPT !.out = Append(@, m)]

\* formatAge: a file that the index does not have (any more) passes for recent.
Recent(m) == m.age = 0 \/ s.start - m.age <= query.maxAge
Renders(m) == JobFilter(m.file.name) /\ (IsTracker(m.file) \/ Recent(m))

renderMatches(r, m) ==
    IF r.last = {m.file}
    THEN IF r.drop THEN r ELSE [r EXCEPT !.w = Write(@, m)]
    ELSE [last |-> {m.file}, drop |-> ~Renders(m),
          w |-> IF Renders(m) THEN Write(SetIndex(r.w, -m.age), m) ELSE r.w]

\* The handler's function for one match.
fn(m) ==
    IF query.mode = "flat" THEN [page EXCEPT !.rows = renderMatches(@, m)]
    ELSE [page EXCEPT !.groups = orderedSearchResults(@, m)]

-----------------------------------------------------------------------------
(***************************************************************************)
(* runSingleCommand.  Ripgrep searches the files in any order (external);  *)
(* it separates groups of lines, and files, if there is context, and stops *)
(* in a file after --max-count matches, one more than asked for if there   *)
(* is context.                                                             *)
(***************************************************************************)
OutputOf(f) ==
    LET all == query.hits[f]
        begun(i) == Cardinality({j \in 1..i : all[j] = {}})
        lines == Cardinality({i \in DOMAIN all : all[i] # {}})
    IN  IF query.context > 0
        THEN SubSeq(all, 1, Cardinality({i \in DOMAIN all : begun(i) <= query.maxMatches + 1}))
        ELSE [i \in 1..(IF lines > query.maxMatches THEN query.maxMatches ELSE lines) |-> {f}]

RgSearches(f) ==
    LET out == IF disk[f] = 0 THEN << >> ELSE OutputOf(f) IN
    /\ s.pc = "read" /\ s.lines = << >> /\ f \in s.todo
    /\ s' = [s EXCEPT !.todo = @ \ {f}, !.any = @ \/ out # << >>,
                      !.lines = IF ~s.any /\ out # << >> /\ Head(out) = {} THEN Tail(out) ELSE out]
    /\ UNCHANGED <<now, disk, maxAge, known, broken, index, loader, query, sent, page,
                   wanted, changes, failures>>

\* Ripgrep dies: what it has not written is lost.  Its status is only logged, so
\* that the output ends like any other, unless it is cut in the name of a file.
RgFails ==
    /\ changes + failures < MaxChanges
    /\ failures' = failures + 1
    /\ s.pc = "read" /\ (s.todo # {} \/ s.lines # << >>)
    /\ \/ /\ s' = [s EXCEPT !.todo = {}, !.lines = << >>]
          /\ wanted' = [wanted EXCEPT ![s.search].files = @ \ (s.todo \cup UNION Range(s.lines))]
       \/ /\ s' = [s EXCEPT !.pc = "failed"]
          /\ UNCHANGED wanted
    /\ UNCHANGED <<now, disk, maxAge, known, broken, index, loader, query, sent, page, changes>>

maxLines == query.maxMatches * (IF query.context > 0 THEN 2 * query.context + 1 ELSE 1)

\* Plausible bug: the file of a bug that is not in memory is not read.
MetadataPanicsUnread(f) == IsTracker(f) /\ f \notin known

\* MetadataFor: the comments of a bug or an issue that is not in memory are read
\* from its file.  If the file is missing or cannot be read they are a nil pointer,
\* which is used all the same (and so is the status that an issue's file lacks).
MetadataPanics(f) == IsTracker(f) /\ f \notin known /\ (disk[f] = 0 \/ f \in broken)
MetadataFor(f) == IF IsTracker(f) THEN LastChange ELSE LastModified(f)

\* Where rows are made, only the first match of a file is looked up.
LooksUp(f) == query.mode # "flat" \/ page.rows.last # {f}

\* The lines captured so far go to the page.
Captured ==
    LET f == CHOOSE f \in s.name : TRUE
        shown == IF s.line < maxLines THEN s.line ELSE maxLines
    IN  [search |-> s.search, file |-> f, shown |-> shown, more |-> s.line - shown,
         age |-> IF LooksUp(f) THEN MetadataFor(f) ELSE Last(sent).age]

send ==
    IF s.line = 0 THEN UNCHANGED <<sent, page>>
    ELSE sent' = Append(sent, Captured) /\ page' = fn(Captured)
SendPanics == s.line > 0 /\ \E f \in s.name : LooksUp(f) /\ MetadataPanics(f)

ReadLine ==
    /\ s.pc = "read" /\ s.lines # << >>
    /\ LET line == Head(s.lines)
           bytes == s.bytes + 1
           read == [s EXCEPT !.lines = Tail(@), !.bytes = bytes]
       IN  IF line # {} /\ line = s.name
           THEN s' = [read EXCEPT !.line = @ + 1] /\ UNCHANGED <<sent, page>>
           ELSE IF SendPanics THEN s' = [s EXCEPT !.pc = "panic"] /\ UNCHANGED <<sent, page>>
           ELSE /\ send
                /\ s' = IF bytes > s.left THEN [read EXCEPT !.pc = "max-bytes"]
                        ELSE [read EXCEPT !.name = IF line = {} THEN @ ELSE line,
                                          !.line = IF line = {} THEN 0 ELSE 1]
    /\ UNCHANGED <<now, disk, maxAge, known, broken, index, loader, query, wanted,
                   changes, failures>>

\* Plausible bug: every command may read as much as the first.
ReadEOFUnlimited ==
    /\ s.pc = "read" /\ s.lines = << >> /\ s.todo = {}
    /\ IF SendPanics THEN s' = [s EXCEPT !.pc = "panic"] /\ UNCHANGED <<sent, page>>
       ELSE /\ send
            /\ s' = [s EXCEPT !.pc = "batch", !.name = {}, !.line = 0, !.bytes = 0]
    /\ UNCHANGED <<now, disk, maxAge, known, broken, index, loader, query, wanted,
                   changes, failures>>

\* The end of the output; the next command may read what is left.
ReadEOF ==
    /\ s.pc = "read" /\ s.lines = << >> /\ s.todo = {}
    /\ IF SendPanics THEN s' = [s EXCEPT !.pc = "panic"] /\ UNCHANGED <<sent, page>>
       ELSE /\ send
            /\ s' = [s EXCEPT !.pc = "batch", !.name = {}, !.line = 0, !.bytes = 0,
                              !.left = @ - s.bytes]
    /\ UNCHANGED <<now, disk, maxAge, known, broken, index, loader, query, wanted,
                   changes, failures>>

-----------------------------------------------------------------------------
\* The handlers' end: rows are shown in any case, groups if there was no error.
Render ==
    /\ s.pc \in {"ok", "max-bytes", "failed"}
    /\ s' = [s EXCEPT !.pc = "done"]
    /\ page' = [end |-> s.pc,
                groups |-> IF s.pc = "ok" THEN page.groups ELSE << >>,
                rows |-> [page.rows EXCEPT !.w = Flush(@)]]
    /\ UNCHANGED <<now, disk, maxAge, known, broken, index, loader, query, sent,
                   wanted, changes, failures>>

\* A panic in a handler ends the response, not the process.
Recover ==
    /\ s.pc = "panic"
    /\ s' = [s EXCEPT !.pc = "done"]
    /\ page' = [NoPage EXCEPT !.end = "panic"]
    /\ UNCHANGED <<now, disk, maxAge, known, broken, index, loader, query, sent,
                   wanted, changes, failures>>

\* The response is written, and nothing of the search is left.
Close ==
    /\ s.pc = "done" /\ page # NoPage
    /\ s' = [NoSearch EXCEPT !.pc = "done"]
    /\ query' = NoQuery /\ sent' = << >> /\ page' = NoPage /\ wanted' = << >>
    /\ UNCHANGED <<now, disk, maxAge, known, broken, index, loader, changes, failures>>

-----------------------------------------------------------------------------
SearchStep ==
    \/ Command \/ StartBatch \/ NextSearch \/ ReadLine \/ ReadEOF \/ Render \/ Recover \/ Close
    \/ RgFails \/ \E f \in Files : RgSearches(f)

LoadStep == Load \/ Publish \/ \E f \in Files : Visit(f)

Next ==
    \/ Tick \/ Request \/ SearchStep \/ LoadStep
    \/ \E f \in Files : Change(f)

Spec == Init /\ [][Next]_vars

-----------------------------------------------------------------------------
(***************************************************************************)
(* Properties.                                                             *)
(***************************************************************************)
Ends == {"none", "ok", "bad", "empty", "disabled", "max-bytes", "failed", "panic"}

TypeOK ==
    /\ now \in 1..MaxTime /\ disk \in [Files -> 0..MaxTime]
    /\ \A f \in broken : f \in Files /\ IsTracker(f)
    /\ loader.pc \in {"idle", "walk"} /\ loader.todo \subseteq Files
    /\ \A i \in DOMAIN index : index[i].file \in JobFiles /\ index[i].age \in 1..MaxTime
    /\ \A i, j \in DOMAIN index : index[i].file = index[j].file => i = j
    /\ s.pc \in {"idle", "command", "batch", "read", "done"} \cup Ends
    /\ s.line \in Nat /\ s.bytes \in Nat /\ s.todo \subseteq Files
    /\ s.line > 0 => Cardinality(s.name) = 1
    /\ page.end \in Ends

\* The number of lines of the matches at the given positions.
LinesOf(matches) == SumAt([i \in DOMAIN sent |-> sent[i].shown + sent[i].more], matches)
Lines(n, f) == LinesOf({i \in DOMAIN sent : sent[i].search = n /\ sent[i].file = f})
OutputLines(f) == Cardinality({i \in DOMAIN OutputOf(f) : OutputOf(f)[i] # {}})
\* Without an index only a command that has a path of its own is run, and it searches
\* all jobs: one is enough for the directories of bugs and issues.
IsRun(n) ==
    LET dirs == Directories(query.type) IN
    wanted[n].indexed \/ (dirs # << >> /\ Fitting(dirs) = Len(dirs))

\* A search that ends well has found everything: every line of every file that
\* the request is about, that was there all the time, that the index had when
\* the pattern's turn came and that ripgrep did not die on, over batches,
\* separators and index reloads, once and either shown or counted as not shown.
EverythingIsFound ==
    page.end = "ok" =>
        \A n \in DOMAIN wanted : IsRun(n) =>
            \A f \in wanted[n].files : Lines(n, f) = OutputLines(f)

Received(n) == LinesOf({i \in DOMAIN sent : sent[i].search = n})
LongestFile == Max({OutputLines(f) : f \in Files} \cup {0})

\* maxBytes bounds what a pattern delivers, over all of its commands, up to the
\* file in which the limit is reached.
OutputIsBounded ==
    page.end \in {"ok", "max-bytes", "failed"} =>
        \A n \in 1..s.search : Received(n) <= query.maxBytes + LongestFile

\* The places of matches in groups: an entry, an instance in it, and a match in that.
Places(groups) ==
    UNION {UNION {{<<i, k, l>> : l \in DOMAIN groups[i].instances[k].matches}
                    : k \in DOMAIN groups[i].instances}
             : i \in DOMAIN groups}
MatchAt(groups, p) == groups[p[1]].instances[p[2]].matches[p[3]]

\* The groups of a page are a partition of the matches: no key has two entries,
\* every match is under the number of its own build, bug or issue, and none is
\* lost or doubled.
GroupsAreRight ==
    page.end = "ok" /\ query.mode # "flat" =>
        /\ \A i, j \in DOMAIN page.groups : page.groups[i].key = page.groups[j].key => i = j
        /\ \A i \in DOMAIN page.groups : \A k \in DOMAIN page.groups[i].instances :
              LET instance == page.groups[i].instances[k] IN
              \A m \in Range(instance.matches) :
                  m.file.number = instance.number /\ Key(m) = page.groups[i].key
        /\ LET kept == {i \in DOMAIN sent : Keeps(sent[i])} IN
           /\ Cardinality(Places(page.groups)) = Cardinality(kept)
           /\ {MatchAt(page.groups, p) : p \in Places(page.groups)} = {sent[i] : i \in kept}

\* The rows of a page are those of all files that pass the filters.  As long as
\* they fit into the buffer they come once, newest first.  (Rows beyond it come
\* last, and the others a second time: Flush does not forget what it wrote.)
RowsAreRight ==
    page.end \in {"ok", "max-bytes", "failed"} /\ query.mode = "flat" =>
        LET kept == SelectSeq(sent, Renders)
            out == page.rows.w.out
        IN
        /\ Range(kept) = Range(out)
        /\ Len(kept) < SizeLimit =>
              /\ Len(out) = Len(kept)
              /\ \A i, j \in DOMAIN out : i < j => out[i].age >= out[j].age

\* A handler panics only for a bug or an issue that is not in memory and whose
\* file could not be read all the time since the pattern's turn came: somebody
\* removed it or wrote something else to it, or it is as broken as it was.
PanicOnlyIfUnreadable ==
    page.end = "panic" =>
        \E f \in Files :
            /\ IsTracker(f) /\ f \notin known /\ s.name = {f}
            /\ f \notin wanted[s.search].sound
            /\ changes > 0 \/ f \in broken
=============================================================================

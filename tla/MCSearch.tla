------------------------------ MODULE MCSearch ------------------------------
(***************************************************************************)
(* Instances of Search for TLC: two builds of a job and a bug.             *)
(***************************************************************************)
EXTENDS Search

File(kind, name, number) == [kind |-> kind, name |-> name, number |-> number]
Junit1 == File("junit", "a", 1)
Log1 == File("build-log", "a", 1)
Junit2 == File("junit", "a", 2)
Bug1 == File("bug", "t", 1)

SearchFiles == {Junit1, Log1, Junit2, Bug1}

SearchDisks == {[f \in SearchFiles |-> IF f = Junit1 THEN 1 ELSE IF f = Log1 THEN 3 ELSE 2]}

SearchSettings ==
    {[maxAge |-> 2, known |-> {}, broken |-> {}], [maxAge |-> 0, known |-> {Bug1}, broken |-> {Bug1}],
     [maxAge |-> 0, known |-> {}, broken |-> {Bug1}]}

\* The junit failures of build 1 have groups of lines of the given lengths, other
\* files one line.
Output(f, groups) ==
    FoldLeft(LAMBDA out, n : out \o <<{}>> \o [i \in 1..n |-> {f}], << >>, groups)
Matching(groups) == [f \in SearchFiles |-> Output(f, IF f = Junit1 THEN groups ELSE <<1>>)]

Ask(mode, type, filter, age, matches, bytes, context, searches, room, groups) ==
    [mode |-> mode, type |-> type, filter |-> filter, maxAge |-> age, maxMatches |-> matches,
     maxBytes |-> bytes, context |-> context, searches |-> searches, room |-> room,
     hits |-> Matching(groups)]

SearchRequests ==
    {Ask("group", "all", {}, 0, 1, 0, 0, 1, 5, <<1>>),
     Ask("group", "bug", {}, 1, 1, 0, 0, 1, 3, << >>),
     Ask("flat", "bug+junit", {"a"}, 2, 0, 0, 1, 1, 5, <<1, 2>>),
     Ask("flat", "all", {}, 3, 2, 1, 0, 1, 3, <<2>>),
     Ask("json", "junit", {}, 0, 1, 0, 1, 2, 9, <<5>>),
     Ask("json", "junit", {}, 0, 1, 0, 0, 1, 2, <<1>>),
     Ask("json", "junit", {}, 0, 9, 0, 0, 1, 5, <<1>>),
     Ask("flat", "issue", {}, 0, 0, 0, 0, 1, 5, <<1>>),
     Ask("group", "issue", {}, 0, 0, 0, 0, 0, 5, <<1>>)}
=============================================================================

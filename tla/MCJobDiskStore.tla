--------------------------- MODULE MCJobDiskStore ---------------------------
(***************************************************************************)
(* Instances of JobDiskStore for TLC.                                      *)
(***************************************************************************)
EXTENDS JobDiskStore, TLC

CONSTANTS b1, b2, w1, w2, s1, s2

\* A failed build with suites, started at 1, finished at 2, completed at 3.
Failing(suites) ==
    [started |-> 1, finish |-> 2, completion |-> 3, succeeded |-> FALSE,
     url |-> "indexable", suites |-> suites]

\* A failed build with one suite, so that its log competes with one file.
LogJob == (b1 :> Failing({s1}))

\* With a build whose artifacts are ignored, and the bound that only one of the
\* two is ever in play.
BothJobs == LogJob @@ (b2 :> [Failing({}) EXCEPT !.url = "ignored"])
OneInPlay ==
    \E b \in Builds : \A c \in Builds \ {b} :
        c \notin informer \cup uploaded \cup q.dirty /\ outcome[c] = "none"

\* A build to index and one whose URL cannot be used: the queue.
QueueBuilds == {b1, b2}
Queued(url) == [Failing({}) EXCEPT !.finish = 1, !.completion = 2, !.succeeded = TRUE, !.url = url]
QueueJob == (b1 :> Queued("indexable")) @@ (b2 :> Queued("invalid"))
=============================================================================

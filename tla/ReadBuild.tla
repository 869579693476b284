------------------------------ MODULE ReadBuild ------------------------------
(***************************************************************************)
(* prow.ReadBuild: one download of one build, by a main goroutine and the  *)
(* subtasks it starts, connected by unbuffered channels:                   *)
(*                                                                         *)
(*   started, finished   read started.json / finished.json for main        *)
(*   lister    lists the objects of the build          -> artifacts        *)
(*   acc       LogAccumulator.Artifacts: starts the    -> suiteArtifacts   *)
(*             download of the build log, forwards the rest                *)
(*   logger    downloads build-log.txt once the metadata is known          *)
(*   suites    Build.Suites: starts one parser per junit file              *)
(*   parser    reads one junit file                    -> suitesChan       *)
(*   adder     appends the suites to junit.failures                        *)
(*   waiter    sends nil to main when all subtasks are done                *)
(*   accWaiter, suitesWaiter   the same inside acc and suites              *)
(*                                                                         *)
(* A send on an unbuffered channel is one joint step of sender and         *)
(* receiver; a select with several ready cases takes any of them.  The     *)
(* channels artifacts, suiteArtifacts and suitesChan are closed when       *)
(* lister, acc and suites are "done"; the error channels of acc and suites *)
(* when their waiters are.                                                 *)
(***************************************************************************)
EXTENDS Naturals, FiniteSets

CONSTANTS
    Suites,        \* the junit files of the build
    Others,        \* objects that are neither junit files nor the build log
    Log            \* the object build-log.txt

ASSUME ObjectsAssumption ==
    Suites \cap Others = {} /\ Log \notin Suites \cup Others

Objects == Suites \cup Others \cup {Log}

\* The goroutines counted by the WaitGroup of ReadBuild.
Subtasks == {"started", "finished", "lister", "acc", "suites", "adder"}
Procs == Subtasks \cup {"main", "logger", "accWaiter", "suitesWaiter", "waiter"}

VARIABLES
    pc,         \* control state of every goroutine but the parsers
    parser,     \* control state of the parser of each suite
    toList,     \* objects the listing has not returned yet
    listed,     \* the object lister is sending
    forward,    \* the object acc is forwarding
    adding,     \* the suite adder is appending
    ctx,        \* the context: live, timed out or cancelled
    accCtx,     \* acc has cancelled its own context
    suitesCtx,  \* suites has cancelled its own context
    got,        \* which of started and finished main has received
    fin,        \* what finished.json says
    hasMetadata,\* LogAccumulator.hasMetadata is closed
    added,      \* suites appended to junit.failures
    log,        \* build-log.txt on disk
    result      \* what ReadBuild returned

vars == <<pc, parser, toList, listed, forward, adding, ctx, accCtx, suitesCtx,
          got, fin, hasMetadata, added, log, result>>

None == "none"

ASSUME NoneAssumption == None \notin Objects

Init ==
    /\ pc = [p \in Procs |->
               CASE p = "main" -> "recv"
                 [] p \in {"started", "finished"} -> "read"
                 [] p = "lister" -> "next"
                 [] p \in {"acc", "suites", "adder"} -> "range"
                 [] p = "waiter" -> "wait"
                 [] OTHER -> "off"]
    /\ parser = [s \in Suites |-> "off"]
    /\ toList = Objects
    /\ listed = None /\ forward = None /\ adding = None
    /\ ctx = "live" /\ accCtx = FALSE /\ suitesCtx = FALSE
    /\ got = {}
    /\ fin = "unread"
    /\ hasMetadata = FALSE
    /\ added = {} /\ log = None /\ result = None

Go(p, to) == pc' = [pc EXCEPT ![p] = to]
Go2(p, to, r, rto) == pc' = [pc EXCEPT ![p] = to, ![r] = rto]

accVars == <<accCtx, log>>
suiteVars == <<parser, suitesCtx>>
listVars == <<toList, listed>>
mainVars == <<ctx, got, fin, hasMetadata, result>>

CtxDone == ctx # "live"
AccCtxDone == CtxDone \/ accCtx
SuitesCtxDone == CtxDone \/ suitesCtx

\* cancel(): a context that has timed out stays so.
Cancel == ctx' = IF CtxDone THEN ctx ELSE "cancelled"

Ended(p) == pc[p] \in {"off", "done"}

-----------------------------------------------------------------------------
(* Every request to the bucket may fail.  The context ends by itself at    *)
(* most once.                                                              *)

Timeout ==
    /\ ~CtxDone
    /\ ctx' = "timedout"
    /\ UNCHANGED <<pc, parser, listVars, forward, adding, accCtx, suitesCtx, got, fin,
                   hasMetadata, added, log, result>>

\* A missing started.json is not an error.
StartedRead ==
    /\ pc["started"] = "read"
    /\ \E to \in {"send", "error"} : Go("started", to)
    /\ UNCHANGED <<parser, listVars, forward, adding, accVars, suitesCtx, mainVars, added>>

\* A missing finished.json is not an error either: the build is "running".
FinishedRead ==
    /\ pc["finished"] = "read"
    /\ \/ Go("finished", "send") /\ fin' \in {"success", "failure", "running"}
       \/ Go("finished", "error") /\ UNCHANGED fin
    /\ UNCHANGED <<parser, listVars, forward, adding, accVars, suitesCtx, ctx, got,
                   hasMetadata, added, result>>

\* main receives started or finished; with both it leaves its first loop.
SendMetadata(p) ==
    /\ p \in {"started", "finished"}
    /\ pc[p] = "send" /\ pc["main"] = "recv"
    /\ got' = got \cup {p}
    /\ Go2(p, "done", "main", IF got' = {"started", "finished"} THEN "metadata" ELSE "recv")
    /\ UNCHANGED <<parser, listVars, forward, adding, accVars, suitesCtx, ctx, fin,
                   hasMetadata, added, result>>

\* Plausible bug: started and finished send without watching the context.
DropErrorsOnly(p) ==
    /\ p \in Subtasks /\ CtxDone /\ pc[p] = "error"
    /\ Go(p, "done")
    /\ UNCHANGED <<parser, listVars, forward, adding, accVars, suitesCtx, mainVars, added>>

\* select { case <-ctx.Done(): case sc <- ... / fc <- ... / ec <- err }
Drop(p) ==
    /\ p \in Subtasks /\ CtxDone
    /\ \/ pc[p] = "error"
       \/ pc[p] = "send" /\ p \in {"started", "finished"}
    /\ Go(p, "done")
    /\ UNCHANGED <<parser, listVars, forward, adding, accVars, suitesCtx, mainVars, added>>

\* main, in either of its selects, receives an error: cancel and return it.
SendError(p) ==
    /\ p \in Subtasks /\ pc[p] = "error" /\ pc["main"] \in {"recv", "wait"}
    /\ Go2(p, "done", "main", "returned")
    /\ Cancel /\ result' = "err"
    /\ UNCHANGED <<parser, listVars, forward, adding, accVars, suitesCtx, got, fin,
                   hasMetadata, added>>

-----------------------------------------------------------------------------
(* lister: Build.Artifacts                                                 *)

ListNext ==
    /\ pc["lister"] = "next"
    /\ \/ /\ toList = {} /\ Go("lister", "done") /\ UNCHANGED listVars
       \/ \E o \in toList :
            /\ toList' = toList \ {o} /\ listed' = o
            /\ Go("lister", "send")
       \/ Go("lister", "error") /\ UNCHANGED listVars
    /\ UNCHANGED <<parser, forward, adding, accVars, suitesCtx, mainVars, added>>

\* acc takes the object: the build log gets a goroutine, the rest is forwarded.
SendArtifact ==
    /\ pc["lister"] = "send" /\ pc["acc"] = "range"
    /\ listed' = None
    /\ IF listed = Log
       THEN /\ Go2("lister", "next", "logger", "waitMeta")
            /\ UNCHANGED forward
       ELSE /\ Go2("lister", "next", "acc", "forward")
            /\ forward' = listed
    /\ UNCHANGED <<parser, toList, adding, accVars, suitesCtx, mainVars, added>>

\* "interrupted listing"
ListInterrupted ==
    /\ pc["lister"] = "send" /\ CtxDone
    /\ listed' = None
    /\ Go("lister", "error")
    /\ UNCHANGED <<parser, toList, forward, adding, accVars, suitesCtx, mainVars, added>>

-----------------------------------------------------------------------------
(* acc: LogAccumulator.Artifacts                                           *)

\* unprocessedArtifacts <- art, without a select; suites starts a parser.
ForwardArtifact ==
    /\ pc["acc"] = "forward" /\ pc["suites"] = "range"
    /\ Go("acc", "range")
    /\ forward' = None
    /\ parser' = IF forward \in Suites THEN [parser EXCEPT ![forward] = "read"] ELSE parser
    /\ UNCHANGED <<listVars, adding, accVars, suitesCtx, mainVars, added>>

AccRangeEnds ==
    /\ pc["acc"] = "range" /\ pc["lister"] = "done"
    /\ Go2("acc", "select", "accWaiter", "wait")
    /\ UNCHANGED <<parser, listVars, forward, adding, accVars, suitesCtx, mainVars, added>>

\* waitMetadata, then the conditions under which no log is downloaded.
LogWaitMetadata ==
    /\ pc["logger"] = "waitMeta"
    /\ \/ hasMetadata /\ Go("logger", IF fin = "failure" THEN "create" ELSE "done")
       \/ AccCtxDone /\ Go("logger", "done")
    /\ UNCHANGED <<parser, listVars, forward, adding, accVars, suitesCtx, mainVars, added>>

\* downloadIfMissingTail
LogCreate ==
    /\ pc["logger"] = "create"
    /\ Go("logger", "copy") /\ log' = "partial"
    /\ UNCHANGED <<parser, listVars, forward, adding, accCtx, suitesCtx, mainVars, added>>

LogCopy ==
    /\ pc["logger"] = "copy"
    /\ \/ Go("logger", "done") /\ log' = "whole"
       \/ Go("logger", "error") /\ log' = None
    /\ UNCHANGED <<parser, listVars, forward, adding, accCtx, suitesCtx, mainVars, added>>

LogDropError ==
    /\ pc["logger"] = "error" /\ AccCtxDone
    /\ Go("logger", "done")
    /\ UNCHANGED <<parser, listVars, forward, adding, accVars, suitesCtx, mainVars, added>>

LogSendError ==
    /\ pc["logger"] = "error" /\ pc["acc"] = "select"
    /\ Go2("logger", "done", "acc", "waitErr")
    /\ accCtx' = TRUE
    /\ UNCHANGED <<parser, listVars, forward, adding, log, suitesCtx, mainVars, added>>

\* The goroutine after the loop: wg.Wait, then nil or ctx.Done, then close(ec).
AccWaiterStep ==
    \/ /\ pc["accWaiter"] = "wait" /\ Ended("logger")
       /\ Go("accWaiter", "send")
       /\ UNCHANGED <<parser, listVars, forward, adding, accVars, suitesCtx, mainVars, added>>
    \/ /\ pc["accWaiter"] = "send" /\ AccCtxDone
       /\ Go("accWaiter", "done")
       /\ UNCHANGED <<parser, listVars, forward, adding, accVars, suitesCtx, mainVars, added>>
    \/ /\ pc["accWaiter"] = "send" /\ pc["acc"] = "select"
       /\ Go2("accWaiter", "done", "acc", "waitNil")
       /\ accCtx' = TRUE
       /\ UNCHANGED <<parser, listVars, forward, adding, log, suitesCtx, mainVars, added>>

\* The last select of Artifacts: the parent's context, or the closed channel.
AccSelect ==
    /\ pc["acc"] = "select"
    /\ \/ AccCtxDone /\ Go("acc", "waitErr") /\ UNCHANGED accCtx
       \/ pc["accWaiter"] = "done" /\ Go("acc", "waitNil") /\ accCtx' = TRUE
    /\ UNCHANGED <<parser, listVars, forward, adding, log, suitesCtx, mainVars, added>>

\* wg.Wait and return; the deferred cancel runs.
AccReturn ==
    /\ pc["acc"] \in {"waitErr", "waitNil"} /\ Ended("logger")
    /\ Go("acc", IF pc["acc"] = "waitErr" THEN "error" ELSE "done")
    /\ accCtx' = TRUE
    /\ UNCHANGED <<parser, listVars, forward, adding, log, suitesCtx, mainVars, added>>

-----------------------------------------------------------------------------
(* suites: Build.Suites, and the parsers it starts.                        *)

SuitesRangeEnds ==
    /\ pc["suites"] = "range" /\ pc["acc"] = "done"
    /\ Go2("suites", "select", "suitesWaiter", "wait")
    /\ UNCHANGED <<parser, listVars, forward, adding, accVars, suitesCtx, mainVars, added>>

ParserGo(s, to) == parser' = [parser EXCEPT ![s] = to]

\* Plausible bug: a junit file that cannot be read is skipped.
ParserReadSkipping(s) ==
    /\ parser[s] = "read"
    /\ \E to \in {"send", "done"} : ParserGo(s, to)
    /\ UNCHANGED <<pc, listVars, forward, adding, accVars, suitesCtx, mainVars, added>>

ParserRead(s) ==
    /\ parser[s] = "read"
    /\ \E to \in {"send", "error"} : ParserGo(s, to)
    /\ UNCHANGED <<pc, listVars, forward, adding, accVars, suitesCtx, mainVars, added>>

ParserDrop(s) ==
    /\ parser[s] \in {"send", "error"} /\ SuitesCtxDone
    /\ ParserGo(s, "done")
    /\ UNCHANGED <<pc, listVars, forward, adding, accVars, suitesCtx, mainVars, added>>

ParserSendError(s) ==
    /\ parser[s] = "error" /\ pc["suites"] = "select"
    /\ ParserGo(s, "done") /\ Go("suites", "waitErr")
    /\ suitesCtx' = TRUE
    /\ UNCHANGED <<listVars, forward, adding, accVars, mainVars, added>>

\* adder takes the parsed suites from suitesChan.
ParserSend(s) ==
    /\ parser[s] = "send" /\ pc["adder"] = "range"
    /\ ParserGo(s, "done") /\ Go("adder", "add")
    /\ adding' = s
    /\ UNCHANGED <<listVars, forward, accVars, suitesCtx, mainVars, added>>

ParsersEnded == \A s \in Suites : parser[s] \in {"off", "done"}

SuitesWaiterStep ==
    \/ /\ pc["suitesWaiter"] = "wait" /\ ParsersEnded
       /\ Go("suitesWaiter", "send")
       /\ UNCHANGED <<suiteVars, listVars, forward, adding, accVars, mainVars, added>>
    \/ /\ pc["suitesWaiter"] = "send" /\ SuitesCtxDone
       /\ Go("suitesWaiter", "done")
       /\ UNCHANGED <<suiteVars, listVars, forward, adding, accVars, mainVars, added>>
    \/ /\ pc["suitesWaiter"] = "send" /\ pc["suites"] = "select"
       /\ Go2("suitesWaiter", "done", "suites", "waitNil")
       /\ suitesCtx' = TRUE
       /\ UNCHANGED <<parser, listVars, forward, adding, accVars, mainVars, added>>

SuitesSelect ==
    /\ pc["suites"] = "select"
    /\ \/ SuitesCtxDone /\ Go("suites", "waitErr") /\ UNCHANGED suitesCtx
       \/ pc["suitesWaiter"] = "done" /\ Go("suites", "waitNil") /\ suitesCtx' = TRUE
    /\ UNCHANGED <<parser, listVars, forward, adding, accVars, mainVars, added>>

\* Plausible bug: suites returns, and suitesChan is closed, before the parsers end.
SuitesReturnEarly ==
    /\ pc["suites"] \in {"waitErr", "waitNil"}
    /\ Go("suites", IF pc["suites"] = "waitErr" THEN "error" ELSE "done")
    /\ suitesCtx' = TRUE
    /\ UNCHANGED <<parser, listVars, forward, adding, accVars, mainVars, added>>

SuitesReturn ==
    /\ pc["suites"] \in {"waitErr", "waitNil"} /\ ParsersEnded
    /\ Go("suites", IF pc["suites"] = "waitErr" THEN "error" ELSE "done")
    /\ suitesCtx' = TRUE
    /\ UNCHANGED <<parser, listVars, forward, adding, accVars, mainVars, added>>

\* Plausible bug: the suite stays with adder.
AddSuitesKeeping ==
    /\ pc["adder"] = "add"
    /\ added' = added \cup {adding}
    /\ Go("adder", "range")
    /\ UNCHANGED <<suiteVars, listVars, forward, adding, accVars, mainVars>>

\* for suitesMeta := range suitesChan { acc.AddSuites(...) }
AddSuites ==
    /\ pc["adder"] = "add"
    /\ added' = added \cup {adding} /\ adding' = None
    /\ Go("adder", "range")
    /\ UNCHANGED <<suiteVars, listVars, forward, accVars, mainVars>>

AdderEnds ==
    /\ pc["adder"] = "range" /\ pc["suites"] = "done"
    /\ Go("adder", "done")
    /\ UNCHANGED <<suiteVars, listVars, forward, adding, accVars, mainVars, added>>

-----------------------------------------------------------------------------
(* waiter and main                                                         *)

WaiterStep ==
    \/ /\ pc["waiter"] = "wait" /\ \A p \in Subtasks : pc[p] = "done"
       /\ Go("waiter", "send")
       /\ UNCHANGED <<suiteVars, listVars, forward, adding, accVars, mainVars, added>>
    \/ /\ pc["waiter"] = "send" /\ CtxDone
       /\ Go("waiter", "done")
       /\ UNCHANGED <<suiteVars, listVars, forward, adding, accVars, mainVars, added>>

\* ec <- nil: the break of the first loop leaves the select only, not the loop.
SendNil ==
    /\ pc["waiter"] = "send" /\ pc["main"] \in {"recv", "wait"}
    /\ Go2("waiter", "done", "main", IF pc["main"] = "wait" THEN "finish" ELSE "recv")
    /\ UNCHANGED <<suiteVars, listVars, forward, adding, accVars, mainVars, added>>

\* Plausible bug: hasMetadata is closed only when there is no metadata.
AddMetadataUnsignalled ==
    /\ pc["main"] = "metadata"
    /\ IF fin = "running"
       THEN Go("main", "returned") /\ Cancel /\ result' = "nil" /\ hasMetadata' = TRUE
       ELSE Go("main", "wait") /\ UNCHANGED <<ctx, result, hasMetadata>>
    /\ UNCHANGED <<suiteVars, listVars, forward, adding, accVars, got, fin, added>>

\* AddMetadata closes hasMetadata; without finished.json ReadBuild returns nil.
AddMetadata ==
    /\ pc["main"] = "metadata"
    /\ hasMetadata' = TRUE
    /\ IF fin = "running"
       THEN Go("main", "returned") /\ Cancel /\ result' = "nil"
       ELSE Go("main", "wait") /\ UNCHANGED <<ctx, result>>
    /\ UNCHANGED <<suiteVars, listVars, forward, adding, accVars, got, fin, added>>

\* "interrupted reading"
Interrupted ==
    /\ pc["main"] = "wait" /\ CtxDone
    /\ Go("main", "returned") /\ result' = "err"
    /\ UNCHANGED <<suiteVars, listVars, forward, adding, accVars, ctx, got, fin,
                   hasMetadata, added>>

\* acc.Finished, cancel, return nil
Finished ==
    /\ pc["main"] = "finish"
    /\ Go("main", "returned") /\ Cancel /\ result' = "nil"
    /\ UNCHANGED <<suiteVars, listVars, forward, adding, accVars, got, fin,
                   hasMetadata, added>>

\* The steps of each goroutine (a joint step belongs to the sender).
ProcStep(p) ==
    \/ SendMetadata(p) \/ Drop(p) \/ SendError(p)
    \/ p = "started" /\ StartedRead
    \/ p = "finished" /\ FinishedRead
    \/ p = "lister" /\ (ListNext \/ SendArtifact \/ ListInterrupted)
    \/ p = "acc" /\ (ForwardArtifact \/ AccRangeEnds \/ AccSelect \/ AccReturn)
    \/ p = "logger" /\ (LogWaitMetadata \/ LogCreate \/ LogCopy \/ LogDropError \/ LogSendError)
    \/ p = "accWaiter" /\ AccWaiterStep
    \/ p = "suites" /\ (SuitesRangeEnds \/ SuitesSelect \/ SuitesReturn)
    \/ p = "suitesWaiter" /\ SuitesWaiterStep
    \/ p = "adder" /\ (AddSuites \/ AdderEnds)
    \/ p = "waiter" /\ (WaiterStep \/ SendNil)
    \/ p = "main" /\ (AddMetadata \/ Interrupted \/ Finished)

ParserStep(s) == ParserRead(s) \/ ParserDrop(s) \/ ParserSendError(s) \/ ParserSend(s)

SubtasksEnded == ParsersEnded /\ \A p \in Procs \ {"main"} : Ended(p)

\* ReadBuild has returned and nothing it started is running.
Terminated ==
    /\ pc["main"] = "returned" /\ SubtasksEnded
    /\ UNCHANGED vars

Next ==
    \/ Timeout
    \/ \E p \in Procs : ProcStep(p)
    \/ \E s \in Suites : ParserStep(s)
    \/ Terminated

\* Every goroutine that can take a step takes one; requests to the bucket end,
\* at the latest when the context does.  The timeout need not strike.
Spec ==
    /\ Init /\ [][Next]_vars
    /\ \A p \in Procs : WF_vars(ProcStep(p))
    /\ \A s \in Suites : WF_vars(ParserStep(s))

-----------------------------------------------------------------------------
(* Properties.                                                             *)

\* The control states of the goroutines.
PcStates == {"off", "recv", "metadata", "wait", "finish", "returned", "read",
             "next", "range", "forward", "select", "waitErr", "waitNil", "waitMeta",
             "create", "copy", "send", "error", "add", "done"}

\* Type invariant: control states, and that a goroutine holds an object exactly
\* while it is passing it on.
TypeOK ==
    /\ pc \in [Procs -> PcStates]
    /\ parser \in [Suites -> {"off", "read", "send", "error", "done"}]
    /\ toList \subseteq Objects
    /\ (listed # None) <=> (pc["lister"] = "send")
    /\ (forward # None) <=> (pc["acc"] = "forward")
    /\ (adding # None) <=> (pc["adder"] = "add")
    /\ ctx \in {"live", "timedout", "cancelled"}
    /\ {accCtx, suitesCtx, hasMetadata} \subseteq BOOLEAN
    /\ got \subseteq {"started", "finished"}
    /\ fin \in {"unread", "success", "failure", "running"}
    /\ added \subseteq Suites
    /\ log \in {None, "partial", "whole"}
    /\ result \in {None, "nil", "err"}

\* When ReadBuild returns nil for a finished build and the timeout has not struck,
\* every junit file of the build is in junit.failures and the log of a failed build
\* is on disk: no interleaving of listing, parsing and error reporting loses a suite
\* or an error on the way.
SuccessIsComplete ==
    result = "nil" /\ fin # "running" /\ ctx # "timedout" =>
        added = Suites /\ (fin = "failure" => log = "whole")

\* Nobody sends on a closed channel, which panics: the close of suitesChan by
\* suites and of the two inner error channels by their waiters comes after the
\* last sender has ended, on every error and timeout path.
NoSendOnClosedChannel ==
    /\ \A s \in Suites :
          /\ parser[s] \in {"read", "send"} => pc["suites"] # "done"
          /\ parser[s] \in {"read", "error"} => pc["suitesWaiter"] # "done"
    /\ pc["logger"] \in {"copy", "error"} => pc["accWaiter"] # "done"
    /\ pc["acc"] = "forward" => pc["suites"] = "range"

\* ReadBuild returns - the goroutines do not wait for each other in a circle, on any
\* error path and also when the timeout strikes - unless the timeout strikes while
\* the first loop is still waiting for started.json and finished.json.
ReturnsAfterMetadata ==
    <>(pc["main"] = "returned" \/ (ctx = "timedout" /\ pc["main"] = "recv"))

\* Once the context is done - ReadBuild returned, or the timeout struck - every
\* goroutine ReadBuild started ends, the unguarded send of Artifacts and the
\* ranges over the channels included: no attempt leaks one.
SubtasksEnd == CtxDone ~> SubtasksEnded
=============================================================================

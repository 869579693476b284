------------------------------ MODULE ProwProofs ------------------------------
(***************************************************************************)
(* Theorems about the two ends of package prow: ReadBuild, which downloads *)
(* a build, and JobInformer, which knows what builds there are.            *)
(*                                                                         *)
(* ReadBuild, for any number of junit files and objects: the closes of the *)
(* channels come after the last send, and a download that ReadBuild        *)
(* reports as successful is complete.  The inductive invariant has four    *)
(* parts: the types (TypeOK), the order in which the goroutines end        *)
(* (EndsInOrder), how far main is (MainPhase), and that nothing is lost    *)
(* while the context is live (NothingLost).                                *)
(*                                                                         *)
(* JobInformer, for every set of builds and every maximum age: one copy of *)
(* a build in the indexer, no ended job seen as pending again, and the     *)
(* refinement of KnownJobs.  mergeJobs, whatever the order of its lists,   *)
(* yields the first copy of each build that it merges (MergeOfLists); and  *)
(* the copies of a build that prow, the index and the last list have at    *)
(* the same time agree once one of them has ended (EndedAgree), which      *)
(* makes it immaterial from where a copy is taken.                         *)
(***************************************************************************)
EXTENDS ReadBuild, JobInformer, OperatorProofs

\* suites ends after acc and after its parsers, acc after the logger; a waiter
\* runs only when the range before it is over, and its close comes after the
\* goroutines it waits for.
EndsInOrder ==
    /\ pc["suites"] # "range" => pc["acc"] = "done"
    /\ pc["suites"] \in {"waitNil", "error", "done"} => ParsersEnded
    /\ pc["suitesWaiter"] # "off" => pc["suites"] # "range"
    /\ pc["suitesWaiter"] \in {"send", "done"} => ParsersEnded
    /\ pc["acc"] \in {"waitNil", "error", "done"} => Ended("logger")
    /\ pc["accWaiter"] # "off" => pc["acc"] \notin {"range", "forward"}
    /\ pc["accWaiter"] \in {"send", "done"} => Ended("logger")

SubtasksDone == \A p \in Subtasks : pc[p] = "done"

\* The metadata is final when main has it, the waiter reports the end of the
\* subtasks, and ReadBuild returns after it has cancelled the context.
MainPhase ==
    /\ "finished" \in got => pc["finished"] = "done"
    /\ pc["main"] \in {"metadata", "wait", "finish"} => "finished" \in got
    /\ hasMetadata => "finished" \in got
    /\ pc["waiter"] \in {"send", "done"} => SubtasksDone
    /\ pc["main"] = "finish" => pc["waiter"] = "done"
    /\ result # None => pc["main"] = "returned"
    /\ pc["main"] = "returned" => CtxDone
    /\ ctx = "cancelled" => pc["main"] = "returned"
    /\ result = "nil" /\ fin = "running" => "finished" \in got
    /\ result = "nil" /\ fin # "running" => SubtasksDone /\ "finished" \in got

\* An error takes a subtask's part of the download with it, and stays until main
\* has received it.
AccFailed == pc["acc"] \in {"waitErr", "error"}
SuitesFailed == pc["suites"] \in {"waitErr", "error"}

\* Where a junit file is on its way from the bucket to junit.failures.
Travelling(s) ==
    \/ s \in toList \/ listed = s \/ forward = s \/ adding = s
    \/ parser[s] \in {"read", "send", "error"}

\* As long as the context is live, a junit file that has not arrived is on its
\* way, or suites is about to fail; and the same for the log and acc.
NothingLost ==
    ctx = "live" =>
        /\ pc["lister"] = "done" => toList = {}
        /\ suitesCtx => SuitesFailed \/ (ParsersEnded /\ pc["suites"] \in {"waitNil", "done"})
        /\ accCtx => AccFailed \/ (Ended("logger") /\ pc["acc"] \in {"waitNil", "done"})
        /\ \A s \in Suites : Travelling(s) \/ s \in added \/ SuitesFailed
        /\ Log \in toList \/ listed = Log \/ pc["logger"] # "off"
        /\ pc["logger"] = "done" =>
              AccFailed \/ log = "whole" \/ (hasMetadata /\ fin # "failure")

\* adder holds a junit file.
HoldsSuite == adding \in Suites \cup {None}

\* The inductive invariant.
IInv ==
    /\ TypeOK /\ HoldsSuite
    /\ EndsInOrder /\ MainPhase /\ NothingLost
    /\ SuccessIsComplete

\* The timeout, the metadata, and the errors of the subtasks preserve the invariant.
LEMMA MetadataStep ==
    ASSUME IInv
    PROVE  /\ Timeout => IInv'
           /\ StartedRead => IInv'
           /\ FinishedRead => IInv'
           /\ \A p \in Procs : SendMetadata(p) => IInv'
           /\ \A p \in Procs : Drop(p) => IInv'
           /\ \A p \in Procs : SendError(p) => IInv'
<1> USE ObjectsAssumption, NoneAssumption
<1> USE DEF IInv, Procs, Subtasks, None, CtxDone, AccCtxDone, SuitesCtxDone, Ended, ParsersEnded,
            SubtasksDone, Go, Go2, accVars, suiteVars, listVars, mainVars
<1>1. ASSUME Timeout PROVE IInv'
  <2>1. TypeOK' /\ HoldsSuite'
    BY <1>1 DEF TypeOK, PcStates, HoldsSuite, Objects, Timeout
  <2>2. EndsInOrder'
    BY <1>1 DEF EndsInOrder, TypeOK, Timeout
  <2>3. MainPhase'
    BY <1>1 DEF MainPhase, TypeOK, Timeout
  <2>4. NothingLost'
    BY <1>1 DEF NothingLost, TypeOK, EndsInOrder, MainPhase, HoldsSuite, Travelling,
               AccFailed, SuitesFailed, Objects, Timeout
  <2>5. SuccessIsComplete'
    BY <1>1 DEF SuccessIsComplete, TypeOK, MainPhase, EndsInOrder, Timeout
  <2> QED BY <2>1, <2>2, <2>3, <2>4, <2>5
<1>2. ASSUME StartedRead PROVE IInv'
  <2>1. TypeOK' /\ HoldsSuite'
    BY <1>2 DEF TypeOK, PcStates, HoldsSuite, Objects, StartedRead
  <2>2. EndsInOrder'
    BY <1>2 DEF EndsInOrder, TypeOK, StartedRead
  <2>3. MainPhase'
    BY <1>2 DEF MainPhase, TypeOK, StartedRead
  <2>4. NothingLost'
    BY <1>2 DEF NothingLost, TypeOK, EndsInOrder, MainPhase, HoldsSuite, Travelling,
               AccFailed, SuitesFailed, Objects, StartedRead
  <2>5. SuccessIsComplete'
    BY <1>2 DEF SuccessIsComplete, TypeOK, MainPhase, EndsInOrder, StartedRead
  <2> QED BY <2>1, <2>2, <2>3, <2>4, <2>5
<1>3. ASSUME FinishedRead PROVE IInv'
  <2>1. TypeOK' /\ HoldsSuite'
    BY <1>3 DEF TypeOK, PcStates, HoldsSuite, Objects, FinishedRead
  <2>2. EndsInOrder'
    BY <1>3 DEF EndsInOrder, TypeOK, FinishedRead
  <2>3. MainPhase'
    BY <1>3 DEF MainPhase, TypeOK, FinishedRead
  <2>4. NothingLost'
    BY <1>3 DEF NothingLost, TypeOK, EndsInOrder, MainPhase, HoldsSuite, Travelling,
               AccFailed, SuitesFailed, Objects, FinishedRead
  <2>5. SuccessIsComplete'
    BY <1>3 DEF SuccessIsComplete, TypeOK, MainPhase, EndsInOrder, FinishedRead
  <2> QED BY <2>1, <2>2, <2>3, <2>4, <2>5
<1>4. ASSUME NEW p \in Procs, SendMetadata(p) PROVE IInv'
  <2>1. TypeOK' /\ HoldsSuite'
    BY <1>4 DEF TypeOK, PcStates, HoldsSuite, Objects, SendMetadata
  <2>2. EndsInOrder'
    BY <1>4 DEF EndsInOrder, TypeOK, SendMetadata
  <2>3. MainPhase'
    BY <1>4 DEF MainPhase, TypeOK, SendMetadata
  <2>4. NothingLost'
    BY <1>4 DEF NothingLost, TypeOK, EndsInOrder, MainPhase, HoldsSuite, Travelling,
               AccFailed, SuitesFailed, Objects, SendMetadata
  <2>5. SuccessIsComplete'
    BY <1>4 DEF SuccessIsComplete, TypeOK, MainPhase, EndsInOrder, SendMetadata
  <2> QED BY <2>1, <2>2, <2>3, <2>4, <2>5
<1>5. ASSUME NEW p \in Procs, Drop(p) PROVE IInv'
  <2>1. TypeOK' /\ HoldsSuite'
    BY <1>5 DEF TypeOK, PcStates, HoldsSuite, Objects, Drop
  <2>2. EndsInOrder'
    BY <1>5 DEF EndsInOrder, TypeOK, Drop
  <2>3. MainPhase'
    BY <1>5 DEF MainPhase, TypeOK, Drop
  <2>4. NothingLost'
    BY <1>5 DEF NothingLost, TypeOK, EndsInOrder, MainPhase, HoldsSuite, Travelling,
               AccFailed, SuitesFailed, Objects, Drop
  <2>5. SuccessIsComplete'
    BY <1>5 DEF SuccessIsComplete, TypeOK, MainPhase, EndsInOrder, Drop
  <2> QED BY <2>1, <2>2, <2>3, <2>4, <2>5
<1>6. ASSUME NEW p \in Procs, SendError(p) PROVE IInv'
  <2>1. TypeOK' /\ HoldsSuite'
    BY <1>6 DEF TypeOK, PcStates, HoldsSuite, Objects, SendError, Cancel
  <2>2. EndsInOrder'
    BY <1>6 DEF EndsInOrder, TypeOK, SendError, Cancel
  <2>3. MainPhase'
    BY <1>6 DEF MainPhase, TypeOK, SendError, Cancel
  <2>4. NothingLost'
    BY <1>6 DEF NothingLost, TypeOK, EndsInOrder, MainPhase, HoldsSuite, Travelling,
               AccFailed, SuitesFailed, Objects, SendError, Cancel
  <2>5. SuccessIsComplete'
    BY <1>6 DEF SuccessIsComplete, TypeOK, MainPhase, EndsInOrder, SendError, Cancel
  <2> QED BY <2>1, <2>2, <2>3, <2>4, <2>5
<1> QED BY <1>1, <1>2, <1>3, <1>4, <1>5, <1>6

\* So does the listing,
LEMMA ListerStep ==
    ASSUME IInv
    PROVE  /\ ListNext => IInv'
           /\ SendArtifact => IInv'
           /\ ListInterrupted => IInv'
<1> USE ObjectsAssumption, NoneAssumption
<1> USE DEF IInv, Procs, Subtasks, None, CtxDone, AccCtxDone, SuitesCtxDone, Ended, ParsersEnded,
            SubtasksDone, Go, Go2, accVars, suiteVars, listVars, mainVars
<1>1. ASSUME ListNext PROVE IInv'
  <2>1. TypeOK' /\ HoldsSuite'
    BY <1>1 DEF TypeOK, PcStates, HoldsSuite, Objects, ListNext
  <2>2. EndsInOrder'
    BY <1>1 DEF EndsInOrder, TypeOK, ListNext
  <2>3. MainPhase'
    BY <1>1 DEF MainPhase, TypeOK, ListNext
  <2>4. NothingLost'
    BY <1>1 DEF NothingLost, TypeOK, EndsInOrder, MainPhase, HoldsSuite, Travelling,
               AccFailed, SuitesFailed, Objects, ListNext
  <2>5. SuccessIsComplete'
    BY <1>1 DEF SuccessIsComplete, TypeOK, MainPhase, EndsInOrder, ListNext
  <2> QED BY <2>1, <2>2, <2>3, <2>4, <2>5
<1>2. ASSUME SendArtifact PROVE IInv'
  <2>1. TypeOK' /\ HoldsSuite'
    BY <1>2 DEF TypeOK, PcStates, HoldsSuite, Objects, SendArtifact
  <2>2. EndsInOrder'
    BY <1>2 DEF EndsInOrder, TypeOK, SendArtifact
  <2>3. MainPhase'
    BY <1>2 DEF MainPhase, TypeOK, SendArtifact
  <2>4. NothingLost'
    BY <1>2 DEF NothingLost, TypeOK, EndsInOrder, MainPhase, HoldsSuite, Travelling,
               AccFailed, SuitesFailed, Objects, SendArtifact
  <2>5. SuccessIsComplete'
    BY <1>2 DEF SuccessIsComplete, TypeOK, MainPhase, EndsInOrder, SendArtifact
  <2> QED BY <2>1, <2>2, <2>3, <2>4, <2>5
<1>3. ASSUME ListInterrupted PROVE IInv'
  <2>1. TypeOK' /\ HoldsSuite'
    BY <1>3 DEF TypeOK, PcStates, HoldsSuite, Objects, ListInterrupted
  <2>2. EndsInOrder'
    BY <1>3 DEF EndsInOrder, TypeOK, ListInterrupted
  <2>3. MainPhase'
    BY <1>3 DEF MainPhase, TypeOK, ListInterrupted
  <2>4. NothingLost'
    BY <1>3 DEF NothingLost, TypeOK, EndsInOrder, MainPhase, HoldsSuite, Travelling,
               AccFailed, SuitesFailed, Objects, ListInterrupted
  <2>5. SuccessIsComplete'
    BY <1>3 DEF SuccessIsComplete, TypeOK, MainPhase, EndsInOrder, ListInterrupted
  <2> QED BY <2>1, <2>2, <2>3, <2>4, <2>5
<1> QED BY <1>1, <1>2, <1>3

\* LogAccumulator.Artifacts with its waiter,
LEMMA AccStep ==
    ASSUME IInv
    PROVE  /\ ForwardArtifact => IInv'
           /\ AccRangeEnds => IInv'
           /\ AccSelect => IInv'
           /\ AccReturn => IInv'
           /\ AccWaiterStep => IInv'
<1> USE ObjectsAssumption, NoneAssumption
<1> USE DEF IInv, Procs, Subtasks, None, CtxDone, AccCtxDone, SuitesCtxDone, Ended, ParsersEnded,
            SubtasksDone, Go, Go2, accVars, suiteVars, listVars, mainVars
<1>1. ASSUME ForwardArtifact PROVE IInv'
  <2>1. TypeOK' /\ HoldsSuite'
    BY <1>1 DEF TypeOK, PcStates, HoldsSuite, Objects, ForwardArtifact
  <2>2. EndsInOrder'
    BY <1>1 DEF EndsInOrder, TypeOK, ForwardArtifact
  <2>3. MainPhase'
    BY <1>1 DEF MainPhase, TypeOK, ForwardArtifact
  <2>4. NothingLost'
    <3>1. \A s \in Suites : Travelling(s) => Travelling(s)' \/ s \in added
      BY <1>1 DEF Travelling, TypeOK, HoldsSuite, Objects, ForwardArtifact
    <3>2. ~SuitesFailed /\ ~(suitesCtx /\ ctx = "live")
      BY <1>1 DEF ForwardArtifact, SuitesFailed, NothingLost
    <3> QED BY <1>1, <3>1, <3>2 DEF NothingLost, TypeOK, AccFailed, ForwardArtifact
  <2>5. SuccessIsComplete'
    BY <1>1 DEF SuccessIsComplete, TypeOK, MainPhase, EndsInOrder, ForwardArtifact
  <2> QED BY <2>1, <2>2, <2>3, <2>4, <2>5
<1>2. ASSUME AccRangeEnds PROVE IInv'
  <2>1. TypeOK' /\ HoldsSuite'
    BY <1>2 DEF TypeOK, PcStates, HoldsSuite, Objects, AccRangeEnds
  <2>2. EndsInOrder'
    BY <1>2 DEF EndsInOrder, TypeOK, AccRangeEnds
  <2>3. MainPhase'
    BY <1>2 DEF MainPhase, TypeOK, AccRangeEnds
  <2>4. NothingLost'
    BY <1>2 DEF NothingLost, TypeOK, EndsInOrder, MainPhase, HoldsSuite, Travelling,
               AccFailed, SuitesFailed, Objects, AccRangeEnds
  <2>5. SuccessIsComplete'
    BY <1>2 DEF SuccessIsComplete, TypeOK, MainPhase, EndsInOrder, AccRangeEnds
  <2> QED BY <2>1, <2>2, <2>3, <2>4, <2>5
<1>3. ASSUME AccSelect PROVE IInv'
  <2>1. TypeOK' /\ HoldsSuite'
    <3>1. \E p, q \in Procs : \E to, qto \in PcStates :
             pc' = [pc EXCEPT ![p] = to] \/ pc' = [pc EXCEPT ![p] = to, ![q] = qto]
      BY <1>3 DEF AccSelect, PcStates
    <3>2. pc' \in [Procs -> PcStates]
      BY <3>1 DEF TypeOK, PcStates
    <3>3. UNCHANGED <<parser, listVars, forward, adding, log, mainVars, added>>
      BY <1>3 DEF AccSelect
    <3>4. {accCtx', suitesCtx'} \subseteq BOOLEAN
      BY <1>3 DEF AccSelect, TypeOK
    <3>5. \A p \in {"lister", "acc", "adder"} :
            pc'[p] = pc[p] \/ {pc[p], pc'[p]} \cap {"send", "forward", "add"} = {}
      BY <1>3 DEF TypeOK, AccSelect
    <3> QED BY <3>2, <3>3, <3>4, <3>5 DEF TypeOK, HoldsSuite
  <2>2. EndsInOrder'
    BY <1>3 DEF EndsInOrder, TypeOK, AccSelect
  <2>3. MainPhase'
    BY <1>3 DEF MainPhase, TypeOK, AccSelect
  <2>4. NothingLost'
    BY <1>3 DEF NothingLost, TypeOK, EndsInOrder, MainPhase, HoldsSuite, Travelling,
               AccFailed, SuitesFailed, Objects, AccSelect
  <2>5. SuccessIsComplete'
    BY <1>3 DEF SuccessIsComplete, TypeOK, MainPhase, EndsInOrder, AccSelect
  <2> QED BY <2>1, <2>2, <2>3, <2>4, <2>5
<1>4. ASSUME AccReturn PROVE IInv'
  <2>1. TypeOK' /\ HoldsSuite'
    BY <1>4 DEF TypeOK, PcStates, HoldsSuite, Objects, AccReturn
  <2>2. EndsInOrder'
    BY <1>4 DEF EndsInOrder, TypeOK, AccReturn
  <2>3. MainPhase'
    BY <1>4 DEF MainPhase, TypeOK, AccReturn
  <2>4. NothingLost'
    BY <1>4 DEF NothingLost, TypeOK, EndsInOrder, MainPhase, HoldsSuite, Travelling,
               AccFailed, SuitesFailed, Objects, AccReturn
  <2>5. SuccessIsComplete'
    BY <1>4 DEF SuccessIsComplete, TypeOK, MainPhase, EndsInOrder, AccReturn
  <2> QED BY <2>1, <2>2, <2>3, <2>4, <2>5
<1>5. ASSUME AccWaiterStep PROVE IInv'
  <2>1. TypeOK' /\ HoldsSuite'
    <3>1. \E p, q \in Procs : \E to, qto \in PcStates :
             pc' = [pc EXCEPT ![p] = to] \/ pc' = [pc EXCEPT ![p] = to, ![q] = qto]
      BY <1>5 DEF AccWaiterStep, PcStates
    <3>2. pc' \in [Procs -> PcStates]
      BY <3>1 DEF TypeOK, PcStates
    <3>3. UNCHANGED <<parser, listVars, forward, adding, log, mainVars, added>>
      BY <1>5 DEF AccWaiterStep
    <3>4. {accCtx', suitesCtx'} \subseteq BOOLEAN
      BY <1>5 DEF AccWaiterStep, TypeOK
    <3>5. \A p \in {"lister", "acc", "adder"} :
            pc'[p] = pc[p] \/ {pc[p], pc'[p]} \cap {"send", "forward", "add"} = {}
      BY <1>5 DEF TypeOK, AccWaiterStep
    <3> QED BY <3>2, <3>3, <3>4, <3>5 DEF TypeOK, HoldsSuite
  <2>2. EndsInOrder'
    BY <1>5 DEF EndsInOrder, TypeOK, AccWaiterStep
  <2>3. MainPhase'
    BY <1>5 DEF MainPhase, TypeOK, AccWaiterStep
  <2>4. NothingLost'
    BY <1>5 DEF NothingLost, TypeOK, EndsInOrder, MainPhase, HoldsSuite, Travelling,
               AccFailed, SuitesFailed, Objects, AccWaiterStep
  <2>5. SuccessIsComplete'
    BY <1>5 DEF SuccessIsComplete, TypeOK, MainPhase, EndsInOrder, AccWaiterStep
  <2> QED BY <2>1, <2>2, <2>3, <2>4, <2>5
<1> QED BY <1>1, <1>2, <1>3, <1>4, <1>5

\* the download of the log,
LEMMA LoggerStep ==
    ASSUME IInv
    PROVE  /\ LogWaitMetadata => IInv'
           /\ LogCreate => IInv'
           /\ LogCopy => IInv'
           /\ LogDropError => IInv'
           /\ LogSendError => IInv'
<1> USE ObjectsAssumption, NoneAssumption
<1> USE DEF IInv, Procs, Subtasks, None, CtxDone, AccCtxDone, SuitesCtxDone, Ended, ParsersEnded,
            SubtasksDone, Go, Go2, accVars, suiteVars, listVars, mainVars
<1>1. ASSUME LogWaitMetadata PROVE IInv'
  <2>1. TypeOK' /\ HoldsSuite'
    BY <1>1 DEF TypeOK, PcStates, HoldsSuite, Objects, LogWaitMetadata
  <2>2. EndsInOrder'
    BY <1>1 DEF EndsInOrder, TypeOK, LogWaitMetadata
  <2>3. MainPhase'
    BY <1>1 DEF MainPhase, TypeOK, LogWaitMetadata
  <2>4. NothingLost'
    BY <1>1 DEF NothingLost, TypeOK, EndsInOrder, MainPhase, HoldsSuite, Travelling,
               AccFailed, SuitesFailed, Objects, LogWaitMetadata
  <2>5. SuccessIsComplete'
    BY <1>1 DEF SuccessIsComplete, TypeOK, MainPhase, EndsInOrder, LogWaitMetadata
  <2> QED BY <2>1, <2>2, <2>3, <2>4, <2>5
<1>2. ASSUME LogCreate PROVE IInv'
  <2>1. TypeOK' /\ HoldsSuite'
    BY <1>2 DEF TypeOK, PcStates, HoldsSuite, Objects, LogCreate
  <2>2. EndsInOrder'
    BY <1>2 DEF EndsInOrder, TypeOK, LogCreate
  <2>3. MainPhase'
    BY <1>2 DEF MainPhase, TypeOK, LogCreate
  <2>4. NothingLost'
    BY <1>2 DEF NothingLost, TypeOK, EndsInOrder, MainPhase, HoldsSuite, Travelling,
               AccFailed, SuitesFailed, Objects, LogCreate
  <2>5. SuccessIsComplete'
    BY <1>2 DEF SuccessIsComplete, TypeOK, MainPhase, EndsInOrder, LogCreate
  <2> QED BY <2>1, <2>2, <2>3, <2>4, <2>5
<1>3. ASSUME LogCopy PROVE IInv'
  <2>1. TypeOK' /\ HoldsSuite'
    BY <1>3 DEF TypeOK, PcStates, HoldsSuite, Objects, LogCopy
  <2>2. EndsInOrder'
    BY <1>3 DEF EndsInOrder, TypeOK, LogCopy
  <2>3. MainPhase'
    BY <1>3 DEF MainPhase, TypeOK, LogCopy
  <2>4. NothingLost'
    BY <1>3 DEF NothingLost, TypeOK, EndsInOrder, MainPhase, HoldsSuite, Travelling,
               AccFailed, SuitesFailed, Objects, LogCopy
  <2>5. SuccessIsComplete'
    BY <1>3 DEF SuccessIsComplete, TypeOK, MainPhase, EndsInOrder, LogCopy
  <2> QED BY <2>1, <2>2, <2>3, <2>4, <2>5
<1>4. ASSUME LogDropError PROVE IInv'
  <2>1. TypeOK' /\ HoldsSuite'
    BY <1>4 DEF TypeOK, PcStates, HoldsSuite, Objects, LogDropError
  <2>2. EndsInOrder'
    BY <1>4 DEF EndsInOrder, TypeOK, LogDropError
  <2>3. MainPhase'
    BY <1>4 DEF MainPhase, TypeOK, LogDropError
  <2>4. NothingLost'
    BY <1>4 DEF NothingLost, TypeOK, EndsInOrder, MainPhase, HoldsSuite, Travelling,
               AccFailed, SuitesFailed, Objects, LogDropError
  <2>5. SuccessIsComplete'
    BY <1>4 DEF SuccessIsComplete, TypeOK, MainPhase, EndsInOrder, LogDropError
  <2> QED BY <2>1, <2>2, <2>3, <2>4, <2>5
<1>5. ASSUME LogSendError PROVE IInv'
  <2>1. TypeOK' /\ HoldsSuite'
    BY <1>5 DEF TypeOK, PcStates, HoldsSuite, Objects, LogSendError
  <2>2. EndsInOrder'
    BY <1>5 DEF EndsInOrder, TypeOK, LogSendError
  <2>3. MainPhase'
    BY <1>5 DEF MainPhase, TypeOK, LogSendError
  <2>4. NothingLost'
    BY <1>5 DEF NothingLost, TypeOK, EndsInOrder, MainPhase, HoldsSuite, Travelling,
               AccFailed, SuitesFailed, Objects, LogSendError
  <2>5. SuccessIsComplete'
    BY <1>5 DEF SuccessIsComplete, TypeOK, MainPhase, EndsInOrder, LogSendError
  <2> QED BY <2>1, <2>2, <2>3, <2>4, <2>5
<1> QED BY <1>1, <1>2, <1>3, <1>4, <1>5

\* Build.Suites with its waiter, and the adder,
LEMMA SuitesStep ==
    ASSUME IInv
    PROVE  /\ SuitesRangeEnds => IInv'
           /\ SuitesSelect => IInv'
           /\ SuitesReturn => IInv'
           /\ SuitesWaiterStep => IInv'
           /\ AddSuites => IInv'
           /\ AdderEnds => IInv'
<1> USE ObjectsAssumption, NoneAssumption
<1> USE DEF IInv, Procs, Subtasks, None, CtxDone, AccCtxDone, SuitesCtxDone, Ended, ParsersEnded,
            SubtasksDone, Go, Go2, accVars, suiteVars, listVars, mainVars
<1>1. ASSUME SuitesRangeEnds PROVE IInv'
  <2>1. TypeOK' /\ HoldsSuite'
    BY <1>1 DEF TypeOK, PcStates, HoldsSuite, Objects, SuitesRangeEnds
  <2>2. EndsInOrder'
    BY <1>1 DEF EndsInOrder, TypeOK, SuitesRangeEnds
  <2>3. MainPhase'
    BY <1>1 DEF MainPhase, TypeOK, SuitesRangeEnds
  <2>4. NothingLost'
    BY <1>1 DEF NothingLost, TypeOK, EndsInOrder, MainPhase, HoldsSuite, Travelling,
               AccFailed, SuitesFailed, Objects, SuitesRangeEnds
  <2>5. SuccessIsComplete'
    BY <1>1 DEF SuccessIsComplete, TypeOK, MainPhase, EndsInOrder, SuitesRangeEnds
  <2> QED BY <2>1, <2>2, <2>3, <2>4, <2>5
<1>2. ASSUME SuitesSelect PROVE IInv'
  <2>1. TypeOK' /\ HoldsSuite'
    <3>1. \E p, q \in Procs : \E to, qto \in PcStates :
             pc' = [pc EXCEPT ![p] = to] \/ pc' = [pc EXCEPT ![p] = to, ![q] = qto]
      BY <1>2 DEF SuitesSelect, PcStates
    <3>2. pc' \in [Procs -> PcStates]
      BY <3>1 DEF TypeOK, PcStates
    <3>3. UNCHANGED <<parser, listVars, forward, adding, log, mainVars, added>>
      BY <1>2 DEF SuitesSelect
    <3>4. {accCtx', suitesCtx'} \subseteq BOOLEAN
      BY <1>2 DEF SuitesSelect, TypeOK
    <3>5. \A p \in {"lister", "acc", "adder"} :
            pc'[p] = pc[p] \/ {pc[p], pc'[p]} \cap {"send", "forward", "add"} = {}
      BY <1>2 DEF TypeOK, SuitesSelect
    <3> QED BY <3>2, <3>3, <3>4, <3>5 DEF TypeOK, HoldsSuite
  <2>2. EndsInOrder'
    BY <1>2 DEF EndsInOrder, TypeOK, SuitesSelect
  <2>3. MainPhase'
    BY <1>2 DEF MainPhase, TypeOK, SuitesSelect
  <2>4. NothingLost'
    BY <1>2 DEF NothingLost, TypeOK, EndsInOrder, MainPhase, HoldsSuite, Travelling,
               AccFailed, SuitesFailed, Objects, SuitesSelect
  <2>5. SuccessIsComplete'
    BY <1>2 DEF SuccessIsComplete, TypeOK, MainPhase, EndsInOrder, SuitesSelect
  <2> QED BY <2>1, <2>2, <2>3, <2>4, <2>5
<1>3. ASSUME SuitesReturn PROVE IInv'
  <2>1. TypeOK' /\ HoldsSuite'
    BY <1>3 DEF TypeOK, PcStates, HoldsSuite, Objects, SuitesReturn
  <2>2. EndsInOrder'
    BY <1>3 DEF EndsInOrder, TypeOK, SuitesReturn
  <2>3. MainPhase'
    BY <1>3 DEF MainPhase, TypeOK, SuitesReturn
  <2>4. NothingLost'
    BY <1>3 DEF NothingLost, TypeOK, EndsInOrder, MainPhase, HoldsSuite, Travelling,
               AccFailed, SuitesFailed, Objects, SuitesReturn
  <2>5. SuccessIsComplete'
    BY <1>3 DEF SuccessIsComplete, TypeOK, MainPhase, EndsInOrder, SuitesReturn
  <2> QED BY <2>1, <2>2, <2>3, <2>4, <2>5
<1>4. ASSUME SuitesWaiterStep PROVE IInv'
  <2>1. TypeOK' /\ HoldsSuite'
    <3>1. \E p, q \in Procs : \E to, qto \in PcStates :
             pc' = [pc EXCEPT ![p] = to] \/ pc' = [pc EXCEPT ![p] = to, ![q] = qto]
      BY <1>4 DEF SuitesWaiterStep, PcStates
    <3>2. pc' \in [Procs -> PcStates]
      BY <3>1 DEF TypeOK, PcStates
    <3>3. UNCHANGED <<parser, listVars, forward, adding, log, mainVars, added>>
      BY <1>4 DEF SuitesWaiterStep
    <3>4. {accCtx', suitesCtx'} \subseteq BOOLEAN
      BY <1>4 DEF SuitesWaiterStep, TypeOK
    <3>5. \A p \in {"lister", "acc", "adder"} :
            pc'[p] = pc[p] \/ {pc[p], pc'[p]} \cap {"send", "forward", "add"} = {}
      BY <1>4 DEF TypeOK, SuitesWaiterStep
    <3> QED BY <3>2, <3>3, <3>4, <3>5 DEF TypeOK, HoldsSuite
  <2>2. EndsInOrder'
    BY <1>4 DEF EndsInOrder, TypeOK, SuitesWaiterStep
  <2>3. MainPhase'
    BY <1>4 DEF MainPhase, TypeOK, SuitesWaiterStep
  <2>4. NothingLost'
    BY <1>4 DEF NothingLost, TypeOK, EndsInOrder, MainPhase, HoldsSuite, Travelling,
               AccFailed, SuitesFailed, Objects, SuitesWaiterStep
  <2>5. SuccessIsComplete'
    BY <1>4 DEF SuccessIsComplete, TypeOK, MainPhase, EndsInOrder, SuitesWaiterStep
  <2> QED BY <2>1, <2>2, <2>3, <2>4, <2>5
<1>5. ASSUME AddSuites PROVE IInv'
  <2>1. TypeOK' /\ HoldsSuite'
    BY <1>5 DEF TypeOK, PcStates, HoldsSuite, Objects, AddSuites
  <2>2. EndsInOrder'
    BY <1>5 DEF EndsInOrder, TypeOK, AddSuites
  <2>3. MainPhase'
    BY <1>5 DEF MainPhase, TypeOK, AddSuites
  <2>4. NothingLost'
    BY <1>5 DEF NothingLost, TypeOK, EndsInOrder, MainPhase, HoldsSuite, Travelling,
               AccFailed, SuitesFailed, Objects, AddSuites
  <2>5. SuccessIsComplete'
    BY <1>5 DEF SuccessIsComplete, TypeOK, MainPhase, EndsInOrder, AddSuites
  <2> QED BY <2>1, <2>2, <2>3, <2>4, <2>5
<1>6. ASSUME AdderEnds PROVE IInv'
  <2>1. TypeOK' /\ HoldsSuite'
    BY <1>6 DEF TypeOK, PcStates, HoldsSuite, Objects, AdderEnds
  <2>2. EndsInOrder'
    BY <1>6 DEF EndsInOrder, TypeOK, AdderEnds
  <2>3. MainPhase'
    BY <1>6 DEF MainPhase, TypeOK, AdderEnds
  <2>4. NothingLost'
    BY <1>6 DEF NothingLost, TypeOK, EndsInOrder, MainPhase, HoldsSuite, Travelling,
               AccFailed, SuitesFailed, Objects, AdderEnds
  <2>5. SuccessIsComplete'
    BY <1>6 DEF SuccessIsComplete, TypeOK, MainPhase, EndsInOrder, AdderEnds
  <2> QED BY <2>1, <2>2, <2>3, <2>4, <2>5
<1> QED BY <1>1, <1>2, <1>3, <1>4, <1>5, <1>6

\* the parsers,
LEMMA ParsersStep ==
    ASSUME IInv
    PROVE  /\ \A s \in Suites : ParserRead(s) => IInv'
           /\ \A s \in Suites : ParserDrop(s) => IInv'
           /\ \A s \in Suites : ParserSendError(s) => IInv'
           /\ \A s \in Suites : ParserSend(s) => IInv'
<1> USE ObjectsAssumption, NoneAssumption
<1> USE DEF IInv, Procs, Subtasks, None, CtxDone, AccCtxDone, SuitesCtxDone, Ended, ParsersEnded,
            SubtasksDone, Go, Go2, accVars, suiteVars, listVars, mainVars
<1>1. ASSUME NEW s \in Suites, ParserRead(s) PROVE IInv'
  <2>1. TypeOK' /\ HoldsSuite'
    BY <1>1 DEF TypeOK, PcStates, HoldsSuite, Objects, ParserRead, ParserGo
  <2>2. EndsInOrder'
    BY <1>1 DEF EndsInOrder, TypeOK, ParserRead, ParserGo
  <2>3. MainPhase'
    BY <1>1 DEF MainPhase, TypeOK, ParserRead, ParserGo
  <2>4. NothingLost'
    BY <1>1 DEF NothingLost, TypeOK, EndsInOrder, MainPhase, HoldsSuite, Travelling,
               AccFailed, SuitesFailed, Objects, ParserRead, ParserGo
  <2>5. SuccessIsComplete'
    BY <1>1 DEF SuccessIsComplete, TypeOK, MainPhase, EndsInOrder, ParserRead, ParserGo
  <2> QED BY <2>1, <2>2, <2>3, <2>4, <2>5
<1>2. ASSUME NEW s \in Suites, ParserDrop(s) PROVE IInv'
  <2>1. TypeOK' /\ HoldsSuite'
    BY <1>2 DEF TypeOK, PcStates, HoldsSuite, Objects, ParserDrop, ParserGo
  <2>2. EndsInOrder'
    BY <1>2 DEF EndsInOrder, TypeOK, ParserDrop, ParserGo
  <2>3. MainPhase'
    BY <1>2 DEF MainPhase, TypeOK, ParserDrop, ParserGo
  <2>4. NothingLost'
    BY <1>2 DEF NothingLost, TypeOK, EndsInOrder, MainPhase, HoldsSuite, Travelling,
               AccFailed, SuitesFailed, Objects, ParserDrop, ParserGo
  <2>5. SuccessIsComplete'
    BY <1>2 DEF SuccessIsComplete, TypeOK, MainPhase, EndsInOrder, ParserDrop, ParserGo
  <2> QED BY <2>1, <2>2, <2>3, <2>4, <2>5
<1>3. ASSUME NEW s \in Suites, ParserSendError(s) PROVE IInv'
  <2>1. TypeOK' /\ HoldsSuite'
    BY <1>3 DEF TypeOK, PcStates, HoldsSuite, Objects, ParserSendError, ParserGo
  <2>2. EndsInOrder'
    BY <1>3 DEF EndsInOrder, TypeOK, ParserSendError, ParserGo
  <2>3. MainPhase'
    BY <1>3 DEF MainPhase, TypeOK, ParserSendError, ParserGo
  <2>4. NothingLost'
    BY <1>3 DEF NothingLost, TypeOK, EndsInOrder, MainPhase, HoldsSuite, Travelling,
               AccFailed, SuitesFailed, Objects, ParserSendError, ParserGo
  <2>5. SuccessIsComplete'
    BY <1>3 DEF SuccessIsComplete, TypeOK, MainPhase, EndsInOrder, ParserSendError, ParserGo
  <2> QED BY <2>1, <2>2, <2>3, <2>4, <2>5
<1>4. ASSUME NEW s \in Suites, ParserSend(s) PROVE IInv'
  <2>1. TypeOK' /\ HoldsSuite'
    BY <1>4 DEF TypeOK, PcStates, HoldsSuite, Objects, ParserSend, ParserGo
  <2>2. EndsInOrder'
    BY <1>4 DEF EndsInOrder, TypeOK, ParserSend, ParserGo
  <2>3. MainPhase'
    BY <1>4 DEF MainPhase, TypeOK, ParserSend, ParserGo
  <2>4. NothingLost'
    BY <1>4 DEF NothingLost, TypeOK, EndsInOrder, MainPhase, HoldsSuite, Travelling,
               AccFailed, SuitesFailed, Objects, ParserSend, ParserGo
  <2>5. SuccessIsComplete'
    BY <1>4 DEF SuccessIsComplete, TypeOK, MainPhase, EndsInOrder, ParserSend, ParserGo
  <2> QED BY <2>1, <2>2, <2>3, <2>4, <2>5
<1> QED BY <1>1, <1>2, <1>3, <1>4

\* and the waiter and the rest of main.
LEMMA MainStep ==
    ASSUME IInv
    PROVE  /\ WaiterStep => IInv'
           /\ SendNil => IInv'
           /\ AddMetadata => IInv'
           /\ Interrupted => IInv'
           /\ Finished => IInv'
<1> USE ObjectsAssumption, NoneAssumption
<1> USE DEF IInv, Procs, Subtasks, None, CtxDone, AccCtxDone, SuitesCtxDone, Ended, ParsersEnded,
            SubtasksDone, Go, Go2, accVars, suiteVars, listVars, mainVars
<1>1. ASSUME WaiterStep PROVE IInv'
  <2>1. TypeOK' /\ HoldsSuite'
    <3>1. \E p, q \in Procs : \E to, qto \in PcStates :
             pc' = [pc EXCEPT ![p] = to] \/ pc' = [pc EXCEPT ![p] = to, ![q] = qto]
      BY <1>1 DEF WaiterStep, PcStates
    <3>2. pc' \in [Procs -> PcStates]
      BY <3>1 DEF TypeOK, PcStates
    <3>3. UNCHANGED <<parser, listVars, forward, adding, log, mainVars, added>>
      BY <1>1 DEF WaiterStep
    <3>4. {accCtx', suitesCtx'} \subseteq BOOLEAN
      BY <1>1 DEF WaiterStep, TypeOK
    <3>5. \A p \in {"lister", "acc", "adder"} :
            pc'[p] = pc[p] \/ {pc[p], pc'[p]} \cap {"send", "forward", "add"} = {}
      BY <1>1 DEF TypeOK, WaiterStep
    <3> QED BY <3>2, <3>3, <3>4, <3>5 DEF TypeOK, HoldsSuite
  <2>2. EndsInOrder'
    BY <1>1 DEF EndsInOrder, TypeOK, WaiterStep
  <2>3. MainPhase'
    BY <1>1 DEF MainPhase, TypeOK, WaiterStep
  <2>4. NothingLost'
    BY <1>1 DEF NothingLost, TypeOK, EndsInOrder, MainPhase, HoldsSuite, Travelling,
               AccFailed, SuitesFailed, Objects, WaiterStep
  <2>5. SuccessIsComplete'
    BY <1>1 DEF SuccessIsComplete, TypeOK, MainPhase, EndsInOrder, WaiterStep
  <2> QED BY <2>1, <2>2, <2>3, <2>4, <2>5
<1>2. ASSUME SendNil PROVE IInv'
  <2>1. TypeOK' /\ HoldsSuite'
    BY <1>2 DEF TypeOK, PcStates, HoldsSuite, Objects, SendNil
  <2>2. EndsInOrder'
    BY <1>2 DEF EndsInOrder, TypeOK, SendNil
  <2>3. MainPhase'
    BY <1>2 DEF MainPhase, TypeOK, SendNil
  <2>4. NothingLost'
    BY <1>2 DEF NothingLost, TypeOK, EndsInOrder, MainPhase, HoldsSuite, Travelling,
               AccFailed, SuitesFailed, Objects, SendNil
  <2>5. SuccessIsComplete'
    BY <1>2 DEF SuccessIsComplete, TypeOK, MainPhase, EndsInOrder, SendNil
  <2> QED BY <2>1, <2>2, <2>3, <2>4, <2>5
<1>3. ASSUME AddMetadata PROVE IInv'
  <2>1. TypeOK' /\ HoldsSuite'
    BY <1>3 DEF TypeOK, PcStates, HoldsSuite, Objects, AddMetadata, Cancel
  <2>2. EndsInOrder'
    BY <1>3 DEF EndsInOrder, TypeOK, AddMetadata, Cancel
  <2>3. MainPhase'
    BY <1>3 DEF MainPhase, TypeOK, AddMetadata, Cancel
  <2>4. NothingLost'
    BY <1>3 DEF NothingLost, TypeOK, EndsInOrder, MainPhase, HoldsSuite, Travelling,
               AccFailed, SuitesFailed, Objects, AddMetadata, Cancel
  <2>5. SuccessIsComplete'
    BY <1>3 DEF SuccessIsComplete, TypeOK, MainPhase, EndsInOrder, AddMetadata, Cancel
  <2> QED BY <2>1, <2>2, <2>3, <2>4, <2>5
<1>4. ASSUME Interrupted PROVE IInv'
  <2>1. TypeOK' /\ HoldsSuite'
    BY <1>4 DEF TypeOK, PcStates, HoldsSuite, Objects, Interrupted
  <2>2. EndsInOrder'
    BY <1>4 DEF EndsInOrder, TypeOK, Interrupted
  <2>3. MainPhase'
    BY <1>4 DEF MainPhase, TypeOK, Interrupted
  <2>4. NothingLost'
    BY <1>4 DEF NothingLost, TypeOK, EndsInOrder, MainPhase, HoldsSuite, Travelling,
               AccFailed, SuitesFailed, Objects, Interrupted
  <2>5. SuccessIsComplete'
    BY <1>4 DEF SuccessIsComplete, TypeOK, MainPhase, EndsInOrder, Interrupted
  <2> QED BY <2>1, <2>2, <2>3, <2>4, <2>5
<1>5. ASSUME Finished PROVE IInv'
  <2>1. TypeOK' /\ HoldsSuite'
    BY <1>5 DEF TypeOK, PcStates, HoldsSuite, Objects, Finished, Cancel
  <2>2. EndsInOrder'
    BY <1>5 DEF EndsInOrder, TypeOK, Finished, Cancel
  <2>3. MainPhase'
    BY <1>5 DEF MainPhase, TypeOK, Finished, Cancel
  <2>4. NothingLost'
    BY <1>5 DEF NothingLost, TypeOK, EndsInOrder, MainPhase, HoldsSuite, Travelling,
               AccFailed, SuitesFailed, Objects, Finished, Cancel
  <2>5. SuccessIsComplete'
    <3>1. SubtasksDone /\ toList \subseteq Objects /\ added \subseteq Suites
      BY <1>5 DEF Finished, MainPhase, TypeOK
    <3>2. SUFFICES ASSUME ctx = "live" PROVE added = Suites /\ (fin = "failure" => log = "whole")
      <4>1. (ctx' # "timedout" => ctx = "live") /\ UNCHANGED <<added, fin, log>>
        BY <1>5 DEF Finished, TypeOK, MainPhase, Cancel
      <4> QED BY <4>1 DEF SuccessIsComplete
    <3>3. listed = None /\ forward = None /\ adding = None /\ toList = {}
      BY <3>1, <3>2 DEF TypeOK, NothingLost
    <3>4. \A s \in Suites : ~Travelling(s)
      BY <3>1, <3>3 DEF Travelling, EndsInOrder, Objects
    <3>5. added = Suites
      BY <3>1, <3>2, <3>4 DEF NothingLost, SuitesFailed
    <3>6. Log \in Objects /\ ~AccFailed /\ pc["logger"] = "done"
      BY <3>1, <3>2, <3>3 DEF Objects, AccFailed, EndsInOrder, NothingLost
    <3> QED BY <3>2, <3>5, <3>6 DEF NothingLost
  <2> QED BY <2>1, <2>2, <2>3, <2>4, <2>5
<1> QED BY <1>1, <1>2, <1>3, <1>4, <1>5

-----------------------------------------------------------------------------
\* The initial states satisfy the invariant.
LEMMA InitIInv == Init => IInv
<1> SUFFICES ASSUME Init PROVE IInv
  OBVIOUS
<1> USE ObjectsAssumption, NoneAssumption DEF Init, Procs, Subtasks, None
<1>1. /\ pc \in [Procs -> PcStates]
      /\ pc["main"] = "recv" /\ pc["finished"] = "read" /\ pc["lister"] = "next"
      /\ pc["acc"] = "range" /\ pc["suites"] = "range" /\ pc["adder"] = "range"
      /\ pc["waiter"] = "wait"
      /\ \A p \in {"logger", "accWaiter", "suitesWaiter"} : pc[p] = "off"
  BY DEF PcStates
<1>2. TypeOK /\ HoldsSuite
  BY <1>1 DEF TypeOK, HoldsSuite
<1>3. EndsInOrder /\ MainPhase
  BY <1>1 DEF EndsInOrder, MainPhase, Ended
<1>4. NothingLost
  BY <1>1 DEF NothingLost, Travelling, Objects
<1> QED BY <1>2, <1>3, <1>4 DEF IInv, SuccessIsComplete

\* Every step preserves it.
LEMMA NextIInv == IInv /\ [Next]_vars => IInv'
<1> SUFFICES ASSUME IInv, [Next]_vars PROVE IInv'
  OBVIOUS
<1>1. CASE Timeout
  BY <1>1, MetadataStep
<1>2. ASSUME NEW p \in Procs, ProcStep(p) PROVE IInv'
  BY <1>2, MetadataStep, ListerStep, AccStep, LoggerStep, SuitesStep, MainStep DEF ProcStep
<1>3. ASSUME NEW s \in Suites, ParserStep(s) PROVE IInv'
  BY <1>3, ParsersStep DEF ParserStep
<1>4. CASE UNCHANGED vars
  BY <1>4 DEF vars, IInv, TypeOK, HoldsSuite, EndsInOrder, MainPhase, NothingLost,
              SuccessIsComplete, SubtasksDone, ParsersEnded, Ended, CtxDone, Travelling,
              AccFailed, SuitesFailed
<1> QED BY <1>1, <1>2, <1>3, <1>4 DEF Next, Terminated

\* The invariant holds in every state of a download.
LEMMA Invariance == Spec => []IInv
<1> QED BY InitIInv, NextIInv, PTL DEF Spec

\* The goroutines of a download keep to their control states, and each holds an
\* object exactly while it is passing it on.
THEOREM TypeCorrect == Spec => []TypeOK
<1>1. IInv => TypeOK
  BY DEF IInv
<1> QED BY <1>1, Invariance, PTL

\* suitesChan and the inner error channels are closed after the last send: no
\* error, timeout or cancellation makes Suites or Artifacts panic.
THEOREM ClosedAfterLastSend == Spec => []NoSendOnClosedChannel
<1>1. IInv => NoSendOnClosedChannel
  BY DEF IInv, EndsInOrder, NoSendOnClosedChannel, ParsersEnded, Ended
<1> QED BY <1>1, Invariance, PTL

\* ReadBuild returns nil before the timeout only if every junit file has been
\* added and the log of a failed build is whole.
THEOREM NilMeansComplete == Spec => []SuccessIsComplete
<1>1. IInv => SuccessIsComplete
  BY DEF IInv
<1> QED BY <1>1, Invariance, PTL

-----------------------------------------------------------------------------
(* JobInformer: the lists that are merged.                                 *)

\* The members of a finite set in some order: deck's answer, the entries of the index.
LEMMA SetAsList ==
    ASSUME NEW S, IsFiniteSet(S)
    PROVE  SetToSeq(S) \in Seq(S) /\ ToSet(SetToSeq(S)) = S
<1> DEFINE n == Cardinality(S)
           q == SetToSeq(S)
<1>1. n \in Nat /\ ExistsBijection(1..n, S)
  BY FS_CardinalityType
<1>2. PICK f \in Bijection(1..n, S) : TRUE
  BY <1>1 DEF ExistsBijection
<1>3. f \in [1..n -> S] /\ IsInjective(f)
  BY <1>2 DEF Bijection, Injection, IsInjective
<1>4. q \in [1..n -> S] /\ IsInjective(q)
  BY <1>3 DEF SetToSeq
<1>5. IsFiniteSet(1..n) /\ Cardinality(1..n) = n
  BY <1>1, FS_Interval
<1>6. q \in Injection(1..n, S)
  BY <1>4 DEF Injection, IsInjective
<1> HIDE DEF q
<1>7. q \in Surjection(1..n, S)
  BY <1>5, <1>6, FS_Injection
<1>8. \A c \in S : \E i \in 1..n : q[i] = c
  BY <1>7 DEF Surjection
<1>9. ToSet(q) = S
  BY <1>4, <1>8 DEF ToSet
<1>10. q \in Seq(S)
  BY <1>1, <1>4
<1> QED BY <1>9, <1>10 DEF q

-----------------------------------------------------------------------------
(* mergeJobs                                                               *)

OnePerBuild(S) == \A c, d \in S : c.build = d.build => c = d

\* The result of mergeJobs is a list of the copies at the positions it keeps.
LEMMA MergeKeeps ==
    ASSUME NEW T, NEW jobs \in Seq(T), NEW e
    PROVE  /\ mergeJobs(jobs, e) \in Seq(T)
           /\ ToSet(mergeJobs(jobs, e)) = {jobs[i] : i \in Kept(jobs, e)}
<1> DEFINE K == Kept(jobs, e)
           r == AtPositions(jobs, K)
<1>1. K \subseteq DOMAIN jobs
  BY DEF Kept
<1> HIDE DEF K
<1>2. r \in Seq(T) /\ {r[n] : n \in DOMAIN r} = {jobs[i] : i \in K}
  BY <1>1, AtPositionsIs
<1>3. mergeJobs(jobs, e) = r
  BY DEF mergeJobs, K
<1> HIDE DEF r
<1>4. ToSet(r) = {r[n] : n \in DOMAIN r}
  BY DEF ToSet
<1> QED BY <1>2, <1>3, <1>4 DEF K

\* No build is kept twice.
LEMMA KeptOnce ==
    ASSUME NEW T, NEW jobs \in Seq(T), NEW e
    PROVE  OnePerBuild({jobs[i] : i \in Kept(jobs, e)})
<1> SUFFICES ASSUME NEW i \in Kept(jobs, e), NEW k \in Kept(jobs, e),
                    jobs[i].build = jobs[k].build
             PROVE  jobs[i] = jobs[k]
  BY DEF OnePerBuild
<1>1. /\ i \in 1..Len(jobs) /\ k \in 1..Len(jobs) /\ Len(jobs) \in Nat
      /\ Merges(jobs[i], e) /\ Merges(jobs[k], e)
      /\ \A j \in 1..(i - 1) : Merges(jobs[j], e) => jobs[j].build # jobs[i].build
      /\ \A j \in 1..(k - 1) : Merges(jobs[j], e) => jobs[j].build # jobs[k].build
  BY DEF Kept
<1>2. ~(i < k)
  BY <1>1
<1>3. ~(k < i)
  BY <1>1
<1>4. i = k
  BY <1>1, <1>2, <1>3
<1> QED BY <1>4

\* A build with a copy that is merged is kept, at that copy's position or before it.
LEMMA KeptFirst ==
    ASSUME NEW T, NEW jobs \in Seq(T), NEW e, NEW i \in DOMAIN jobs, Merges(jobs[i], e)
    PROVE  \E k \in Kept(jobs, e) : k <= i /\ jobs[k].build = jobs[i].build
<1> DEFINE S == {j \in 1..i : Merges(jobs[j], e) /\ jobs[j].build = jobs[i].build}
<1>1. i \in 1..Len(jobs) /\ Len(jobs) \in Nat /\ DOMAIN jobs = 1..Len(jobs)
  OBVIOUS
<1>2. S \subseteq Nat /\ i \in S
  BY <1>1
<1>3. PICK k \in S : \A y \in S : k <= y
  BY <1>2, LeastPosition
<1>4. k \in 1..i /\ Merges(jobs[k], e) /\ jobs[k].build = jobs[i].build
  BY <1>3
<1>5. \A j \in 1..(k - 1) : Merges(jobs[j], e) => jobs[j].build # jobs[k].build
  <2> SUFFICES ASSUME NEW j \in 1..(k - 1), Merges(jobs[j], e), jobs[j].build = jobs[k].build
               PROVE  FALSE
    OBVIOUS
  <2>1. j \in 1..i /\ j < k
    BY <1>1, <1>4
  <2>2. j \in S
    BY <1>4, <2>1
  <2> QED BY <1>1, <1>3, <1>4, <2>1, <2>2
<1>6. k \in DOMAIN jobs
  BY <1>1, <1>4
<1>7. k \in Kept(jobs, e)
  BY <1>4, <1>5, <1>6 DEF Kept
<1>8. k <= i
  BY <1>1, <1>4
<1> QED BY <1>4, <1>7, <1>8

\* What a merge of two lists is to contain: the copies of the first that are merged,
\* and those of the second whose build the first does not have.
Merged(first, second, e) ==
    {c \in first : Merges(c, e)} \cup
    {c \in second : Merges(c, e) /\ \A v \in first : Merges(v, e) => v.build # c.build}

\* mergeJobs contains just that, if neither list has two copies of a build.
LEMMA MergeOfLists ==
    ASSUME NEW T, NEW a \in Seq(T), NEW b \in Seq(T), NEW e,
           OnePerBuild(ToSet(a)), OnePerBuild(ToSet(b))
    PROVE  /\ mergeJobs(a \o b, e) \in Seq(T)
           /\ ToSet(mergeJobs(a \o b, e)) = Merged(ToSet(a), ToSet(b), e)
           /\ OnePerBuild(ToSet(mergeJobs(a \o b, e)))
<1> DEFINE jobs == a \o b
           K == Kept(jobs, e)
           m == Len(a)
           n == Len(b)
<1>1. /\ jobs \in Seq(T) /\ DOMAIN jobs = 1..(m + n) /\ m \in Nat /\ n \in Nat
      /\ DOMAIN a = 1..m /\ DOMAIN b = 1..n
      /\ \A i \in 1..m : jobs[i] = a[i]
      /\ \A i \in 1..(m + n) : i > m => jobs[i] = b[i - m]
  BY ConcatProperties
<1> HIDE DEF jobs, m, n
<1>2. /\ mergeJobs(jobs, e) \in Seq(T)
      /\ ToSet(mergeJobs(jobs, e)) = {jobs[i] : i \in K}
      /\ OnePerBuild({jobs[i] : i \in K})
  BY <1>1, MergeKeeps, KeptOnce
<1>3. \A i \in 1..m : jobs[i] \in ToSet(a)
  BY <1>1 DEF ToSet
<1>4. \A i \in 1..(m + n) : i > m => jobs[i] \in ToSet(b)
  <2> SUFFICES ASSUME NEW i \in 1..(m + n), i > m PROVE jobs[i] \in ToSet(b)
    OBVIOUS
  <2>1. i - m \in 1..n /\ jobs[i] = b[i - m]
    BY <1>1
  <2> QED BY <1>1, <2>1 DEF ToSet
<1>5. \A c \in ToSet(a) : \E i \in 1..m : jobs[i] = c
  BY <1>1 DEF ToSet
<1>6. \A c \in ToSet(b) : \E i \in 1..(m + n) : i > m /\ jobs[i] = c
  <2> SUFFICES ASSUME NEW k \in 1..n PROVE \E i \in 1..(m + n) : i > m /\ jobs[i] = b[k]
    BY <1>1 DEF ToSet
  <2>1. PICK i \in 1..(m + n) : i = m + k
    BY <1>1
  <2>2. i > m /\ i - m = k
    BY <1>1, <2>1
  <2> QED BY <1>1, <2>2
<1>7. ASSUME NEW i \in K PROVE jobs[i] \in Merged(ToSet(a), ToSet(b), e)
  <2>1. /\ i \in 1..(m + n) /\ Merges(jobs[i], e)
        /\ \A j \in 1..(i - 1) : Merges(jobs[j], e) => jobs[j].build # jobs[i].build
    BY <1>1 DEF Kept
  <2>2. CASE i \in 1..m
    BY <1>3, <2>1, <2>2 DEF Merged
  <2>3. CASE i > m
    <3>1. \A v \in ToSet(a) : Merges(v, e) => v.build # jobs[i].build
      <4> SUFFICES ASSUME NEW v \in ToSet(a), Merges(v, e) PROVE v.build # jobs[i].build
        OBVIOUS
      <4>1. PICK j \in 1..m : jobs[j] = v
        BY <1>5
      <4>2. j \in 1..(i - 1)
        BY <1>1, <2>1, <2>3
      <4> QED BY <2>1, <4>1, <4>2
    <3> QED BY <1>4, <2>1, <2>3, <3>1 DEF Merged
  <2> QED BY <1>1, <2>1, <2>2, <2>3
<1>8. ASSUME NEW c \in Merged(ToSet(a), ToSet(b), e) PROVE \E i \in K : jobs[i] = c
  <2>1. CASE c \in ToSet(a) /\ Merges(c, e)
    <3>1. PICK i \in 1..m : jobs[i] = c
      BY <1>5, <2>1
    <3>2. i \in DOMAIN jobs
      BY <1>1
    <3>3. PICK k \in K : k <= i /\ jobs[k].build = c.build
      BY <1>1, <2>1, <3>1, <3>2, KeptFirst
    <3>4. k \in 1..m
      BY <1>1, <3>3 DEF Kept
    <3>5. jobs[k] = c
      BY <1>3, <2>1, <3>3, <3>4 DEF OnePerBuild
    <3> QED BY <3>5
  <2>2. CASE /\ c \in ToSet(b) /\ Merges(c, e)
             /\ \A v \in ToSet(a) : Merges(v, e) => v.build # c.build
    <3>1. PICK i \in 1..(m + n) : jobs[i] = c
      BY <1>6, <2>2
    <3>2. PICK k \in K : jobs[k].build = c.build
      BY <1>1, <2>2, <3>1, KeptFirst
    <3>3. k \in 1..(m + n) /\ Merges(jobs[k], e)
      BY <1>1 DEF Kept
    <3>4. ~(k \in 1..m)
      BY <1>3, <2>2, <3>2, <3>3
    <3>5. k > m
      BY <1>1, <3>3, <3>4
    <3>6. jobs[k] = c
      BY <1>4, <2>2, <3>2, <3>3, <3>5 DEF OnePerBuild
    <3> QED BY <3>6
  <2> QED BY <2>1, <2>2 DEF Merged
<1>9. {jobs[i] : i \in K} = Merged(ToSet(a), ToSet(b), e)
  BY <1>7, <1>8
<1> QED BY <1>2, <1>9 DEF jobs

-----------------------------------------------------------------------------
(* The inductive invariant.                                                *)

\* The copies in the last list.
Seen == IF lastList = Nil THEN {} ELSE ToSet(lastList)

\* The indexer has what the last list has, unless that is the seed and no list has
\* succeeded yet.
StoreFollows ==
    /\ lastList = Nil => store = {}
    /\ lastList # Nil => store = Seen \/ (store = {} /\ Seen \subseteq index)

\* Prow, the index and the last list have one copy of a build each.
SingleCopies ==
    /\ OnePerBuild(live) /\ OnePerBuild(index) /\ OnePerBuild(Seen)
    /\ IsFiniteSet(live) /\ IsFiniteSet(index)

\* The index has ended jobs only, and the last list none without a build ID.
Phases ==
    /\ \A c \in index : c.phase = "done"
    /\ \A c \in Seen : c.phase # "triggered"

\* A job that ended according to the index or the last list has ended, at the same
\* time, according to prow, if prow still shows it.
EndedAgree ==
    \A c \in Seen \cup index, d \in live :
        c.build = d.build /\ c.phase = "done" => d.phase = "done" /\ d.completed = c.completed

InformerInv == InformerTypeOK /\ StoreFollows /\ SingleCopies /\ Phases /\ EndedAgree

\* Initially: the index is as small as the set of builds.
LEMMA InitInformer == InformerInit => InformerInv
<1> SUFFICES ASSUME InformerInit PROVE InformerInv
  OBVIOUS
<1> DEFINE entry == [b \in Builds |-> [build |-> b, name |-> "gcs", phase |-> "done",
                                       created |-> 0, completed |-> 1]]
           all == {[build |-> b, name |-> "gcs", phase |-> "done",
                    created |-> 0, completed |-> 1] : b \in Builds}
<1>1. index \subseteq all /\ lastList = Nil /\ store = {} /\ live = {} /\ now = 1 /\ scan = "none"
  BY DEF InformerInit
<1>2. all \subseteq Copy
  BY DEF Copy
<1>3. IsFiniteSet(all)
  <2>1. entry \in Surjection(Builds, all)
    BY DEF Surjection
  <2> QED BY <2>1, BuildsFinite, FS_Surjection
<1>4. IsFiniteSet(index) /\ IsFiniteSet(live)
  BY <1>1, <1>3, FS_Subset, FS_EmptySet
<1>5. OnePerBuild(index) /\ \A c \in index : c.phase = "done"
  BY <1>1 DEF OnePerBuild
<1>6. Seen = {}
  BY <1>1 DEF Seen
<1>7. InformerTypeOK
  BY <1>1, <1>2, InformerBounds DEF InformerTypeOK
<1>8. SingleCopies
  BY <1>1, <1>4, <1>5, <1>6 DEF SingleCopies, OnePerBuild
<1>9. Phases /\ EndedAgree
  BY <1>1, <1>5, <1>6 DEF Phases, EndedAgree
<1>10. StoreFollows
  BY <1>1 DEF StoreFollows
<1> QED BY <1>7, <1>8, <1>9, <1>10 DEF InformerInv

\* What mostRecentJobs returns: the last list, or a part of the index.
LEMMA RecentIs ==
    ASSUME InformerInv, NEW initial \in Seeds, mostRecentJobs(initial)
    PROVE  /\ initial \in Seq(Copy)
           /\ OnePerBuild(ToSet(initial))
           /\ lastList # Nil => initial = lastList
           /\ lastList = Nil => ToSet(initial) \subseteq index
           /\ scan' \in {"none", "complete", "failed"}
<1>1. CASE lastList # Nil
  <2>1. initial = lastList /\ scan' = scan
    BY <1>1 DEF mostRecentJobs
  <2>2. lastList \in Seq(Copy) /\ scan \in {"none", "complete", "failed"}
    BY <1>1 DEF InformerInv, InformerTypeOK
  <2>3. OnePerBuild(ToSet(lastList))
    BY <1>1 DEF InformerInv, SingleCopies, Seen
  <2> QED BY <1>1, <2>1, <2>2, <2>3
<1>2. CASE lastList = Nil
  <2>1. PICK part \in SUBSET index : ReadFromIndex(part) /\ initial = SetToSeq(part)
    BY <1>2 DEF mostRecentJobs
  <2>2. IsFiniteSet(part)
    BY FS_Subset DEF InformerInv, SingleCopies
  <2>3. initial \in Seq(part) /\ ToSet(initial) = part
    BY <2>1, <2>2, SetAsList
  <2>4. part \subseteq Copy
    BY DEF InformerInv, InformerTypeOK
  <2>5. initial \in Seq(Copy)
    BY <2>3, <2>4
  <2>6. OnePerBuild(part)
    BY DEF InformerInv, SingleCopies, OnePerBuild
  <2>7. scan' \in {"none", "complete", "failed"}
    BY <2>1 DEF ReadFromIndex
  <2> QED BY <1>2, <2>3, <2>5, <2>6, <2>7
<1> QED BY <1>1, <1>2

\* List replaces the last list, and the indexer, with the merge of what prow shows
\* and the last list or, the first time, the seed.
LEMMA ListIs ==
    ASSUME InformerInv, List
    PROVE  /\ lastList' \in Seq(Copy) /\ lastList' # Nil
           /\ store' = Seen' /\ OnePerBuild(Seen')
           /\ UNCHANGED <<now, live, index>>
           /\ scan' \in {"none", "complete", "failed"}
           /\ \E base : /\ lastList # Nil => base = Seen
                        /\ lastList = Nil => base \subseteq index
                        /\ OnePerBuild(base)
                        /\ Seen' = Merged(live, base, now - MaxAge)
<1>1. PICK initial \in Seeds : /\ mostRecentJobs(initial)
                               /\ lastList' = mergeJobs(SetToSeq(live) \o initial, now - MaxAge)
  BY DEF List
<1>2. store' = ToSet(lastList') /\ UNCHANGED <<now, live, index>>
  BY DEF List
<1>3. /\ initial \in Seq(Copy)
      /\ OnePerBuild(ToSet(initial))
      /\ lastList # Nil => initial = lastList
      /\ lastList = Nil => ToSet(initial) \subseteq index
      /\ scan' \in {"none", "complete", "failed"}
  BY <1>1, RecentIs
<1>4. SetToSeq(live) \in Seq(live) /\ ToSet(SetToSeq(live)) = live
  BY SetAsList DEF InformerInv, SingleCopies
<1>5. SetToSeq(live) \in Seq(Copy) /\ OnePerBuild(live)
  BY <1>4 DEF InformerInv, InformerTypeOK, SingleCopies
<1>6. /\ lastList' \in Seq(Copy)
      /\ ToSet(lastList') = Merged(live, ToSet(initial), now - MaxAge)
      /\ OnePerBuild(ToSet(lastList'))
  BY <1>1, <1>3, <1>4, <1>5, MergeOfLists
<1>7. lastList' # Nil
  BY <1>6, NilIsNoList
<1>8. Seen' = ToSet(lastList')
  BY <1>7 DEF Seen
<1>9. lastList # Nil => ToSet(initial) = Seen
  BY <1>3 DEF Seen
<1> QED BY <1>2, <1>3, <1>6, <1>7, <1>8, <1>9

\* ListFails keeps the last list, or sets it to the seed.
LEMMA ListFailsIs ==
    ASSUME InformerInv, ListFails
    PROVE  /\ lastList' \in Seq(Copy) /\ lastList' # Nil
           /\ OnePerBuild(Seen')
           /\ UNCHANGED <<now, live, index, store>>
           /\ scan' \in {"none", "complete", "failed"}
           /\ lastList # Nil => lastList' = lastList
           /\ lastList = Nil => Seen' \subseteq index
<1>1. PICK initial \in Seeds : mostRecentJobs(initial) /\ lastList' = initial
  BY DEF ListFails
<1>2. UNCHANGED <<now, live, index, store>>
  BY DEF ListFails
<1>3. /\ initial \in Seq(Copy)
      /\ OnePerBuild(ToSet(initial))
      /\ lastList # Nil => initial = lastList
      /\ lastList = Nil => ToSet(initial) \subseteq index
      /\ scan' \in {"none", "complete", "failed"}
  BY <1>1, RecentIs
<1>4. lastList' # Nil
  BY <1>1, <1>3, NilIsNoList
<1>5. Seen' = ToSet(lastList')
  BY <1>4 DEF Seen
<1> QED BY <1>1, <1>2, <1>3, <1>4, <1>5

\* A list keeps the invariant: every copy in the result was prow's, in the last
\* list or in the index.
LEMMA ListKeeps == InformerInv /\ List => InformerInv'
<1> SUFFICES ASSUME InformerInv, List PROVE InformerInv'
  OBVIOUS
<1>1. /\ lastList' \in Seq(Copy) /\ lastList' # Nil
      /\ store' = Seen' /\ OnePerBuild(Seen')
      /\ now' = now /\ live' = live /\ index' = index
      /\ scan' \in {"none", "complete", "failed"}
  BY ListIs
<1>2. PICK base : /\ lastList # Nil => base = Seen
                  /\ lastList = Nil => base \subseteq index
                  /\ Seen' = Merged(live, base, now - MaxAge)
  BY ListIs
<1>3. Seen' \subseteq live \cup Seen \cup index /\ \A c \in Seen' : c.phase # "triggered"
  BY <1>2 DEF Merged, Merges
<1>4. Seen' = ToSet(lastList')
  BY <1>1 DEF Seen
<1>5. Seen' \subseteq Copy
  BY <1>1, <1>4 DEF ToSet
<1>6. InformerTypeOK'
  <2>1. store' \subseteq {c \in Copy : c.phase # "triggered"}
    BY <1>1, <1>3, <1>5
  <2> QED BY <1>1, <2>1 DEF InformerInv, InformerTypeOK
<1>7. StoreFollows'
  BY <1>1 DEF StoreFollows
<1>8. SingleCopies'
  BY <1>1 DEF InformerInv, SingleCopies, OnePerBuild
<1>9. Phases'
  BY <1>1, <1>3 DEF InformerInv, Phases
<1>10. EndedAgree'
  <2> SUFFICES ASSUME NEW c \in Seen' \cup index, NEW d \in live,
                      c.build = d.build, c.phase = "done"
               PROVE  d.phase = "done" /\ d.completed = c.completed
    BY <1>1 DEF EndedAgree
  <2>1. CASE c \in Seen \cup index
    BY <2>1 DEF InformerInv, EndedAgree
  <2>2. CASE c \in live
    <3>1. c = d
      BY <2>2 DEF InformerInv, SingleCopies, OnePerBuild
    <3> QED BY <3>1
  <2> QED BY <1>3, <2>1, <2>2
<1> QED BY <1>6, <1>7, <1>8, <1>9, <1>10 DEF InformerInv

\* So does one that fails.
LEMMA ListFailsKeeps == InformerInv /\ ListFails => InformerInv'
<1> SUFFICES ASSUME InformerInv, ListFails PROVE InformerInv'
  OBVIOUS
<1>1. /\ lastList' \in Seq(Copy) /\ lastList' # Nil
      /\ OnePerBuild(Seen')
      /\ now' = now /\ live' = live /\ index' = index /\ store' = store
      /\ scan' \in {"none", "complete", "failed"}
      /\ lastList # Nil => lastList' = lastList
      /\ lastList = Nil => Seen' \subseteq index
  BY ListFailsIs
<1>2. lastList # Nil => Seen' = Seen
  BY <1>1 DEF Seen
<1>3. Seen' \subseteq Seen \cup index
  BY <1>1, <1>2
<1>4. InformerTypeOK'
  BY <1>1 DEF InformerInv, InformerTypeOK
<1>5. StoreFollows'
  BY <1>1, <1>2 DEF InformerInv, StoreFollows
<1>6. SingleCopies'
  BY <1>1 DEF InformerInv, SingleCopies, OnePerBuild
<1>7. Phases'
  BY <1>1, <1>3 DEF InformerInv, Phases
<1>8. EndedAgree'
  BY <1>1, <1>3 DEF InformerInv, EndedAgree
<1> QED BY <1>4, <1>5, <1>6, <1>7, <1>8 DEF InformerInv
\* Builds of the last list are among those that prow has, or has had: a seed comes
\* from the index.
LEMMA SeenBegun ==
    ASSUME InformerInv, NEW c \in Seen
    PROVE  c.build \in Begun
<1>1. lastList # Nil
  BY DEF Seen
<1>2. c \in store \/ c \in index
  BY <1>1 DEF InformerInv, StoreFollows
<1> QED BY <1>2 DEF Begun

\* A new job is one whose build nobody has.
LEMMA TriggerKeeps ==
    ASSUME InformerInv, NEW b \in Builds, Trigger(b)
    PROVE  InformerInv'
<1> DEFINE new == [build |-> b, name |-> "prow", phase |-> "triggered",
                   created |-> now, completed |-> 0]
<1>1. /\ live' = live \cup {new}
      /\ now' = now /\ index' = index /\ lastList' = lastList /\ store' = store /\ scan' = scan
      /\ b \notin Begun
  BY DEF Trigger
<1>2. new \in Copy
  BY DEF InformerInv, InformerTypeOK, Copy
<1>3. Seen' = Seen
  BY <1>1 DEF Seen
<1>4. \A c \in live \cup index \cup Seen : c.build # b
  BY <1>1, SeenBegun DEF Begun
<1>5. InformerTypeOK'
  BY <1>1, <1>2 DEF InformerInv, InformerTypeOK
<1>6. StoreFollows' /\ Phases'
  BY <1>1, <1>3 DEF InformerInv, StoreFollows, Phases
<1>7. SingleCopies'
  <2>1. IsFiniteSet(live \cup {new})
    BY FS_AddElement DEF InformerInv, SingleCopies
  <2>2. OnePerBuild(live \cup {new})
    BY <1>4 DEF InformerInv, SingleCopies, OnePerBuild
  <2> QED BY <1>1, <1>3, <2>1, <2>2 DEF InformerInv, SingleCopies
<1>8. EndedAgree'
  BY <1>1, <1>3, <1>4 DEF InformerInv, EndedAgree
<1> QED BY <1>5, <1>6, <1>7, <1>8 DEF InformerInv

\* A job that has not ended is nowhere recorded as ended, so it may advance.
LEMMA AdvanceKeeps ==
    ASSUME InformerInv, NEW c \in live, Advance(c)
    PROVE  InformerInv'
<1> DEFINE new == IF c.phase = "triggered" THEN [c EXCEPT !.phase = "pending"]
                  ELSE [c EXCEPT !.phase = "done", !.completed = now]
<1>1. /\ c.phase # "done"
      /\ live' = (live \ {c}) \cup {new}
      /\ now' = now /\ index' = index /\ lastList' = lastList /\ store' = store /\ scan' = scan
  BY DEF Advance
<1>2. c \in Copy /\ now \in Nat
  BY InformerBounds DEF InformerInv, InformerTypeOK
<1>3. new \in Copy /\ new.build = c.build
  BY <1>2 DEF Copy
<1>4. Seen' = Seen
  BY <1>1 DEF Seen
<1> HIDE DEF new
<1>5. InformerTypeOK'
  BY <1>1, <1>3 DEF InformerInv, InformerTypeOK
<1>6. StoreFollows' /\ Phases'
  BY <1>1, <1>4 DEF InformerInv, StoreFollows, Phases
<1>7. SingleCopies'
  <2>1. IsFiniteSet((live \ {c}) \cup {new})
    BY FS_RemoveElement, FS_AddElement DEF InformerInv, SingleCopies
  <2>2. OnePerBuild((live \ {c}) \cup {new})
    BY <1>3 DEF InformerInv, SingleCopies, OnePerBuild
  <2> QED BY <1>1, <1>4, <2>1, <2>2 DEF InformerInv, SingleCopies
<1>8. \A x \in Seen \cup index : x.phase = "done" => x.build # c.build
  BY <1>1 DEF InformerInv, EndedAgree
<1>9. EndedAgree'
  BY <1>1, <1>3, <1>4, <1>8 DEF InformerInv, EndedAgree
<1> QED BY <1>5, <1>6, <1>7, <1>9 DEF InformerInv

\* The index records the end of a job as prow shows it.
LEMMA WriteIndexKeeps ==
    ASSUME InformerInv, NEW c \in live, WriteIndex(c)
    PROVE  InformerInv'
<1> DEFINE new == [c EXCEPT !.name = "gcs", !.created = 0]
<1>1. /\ c.phase = "done" /\ \A i \in index : i.build # c.build
      /\ index' = index \cup {new}
      /\ now' = now /\ live' = live /\ lastList' = lastList /\ store' = store /\ scan' = scan
  BY DEF WriteIndex
<1>2. c \in Copy
  BY DEF InformerInv, InformerTypeOK
<1>3. new \in Copy /\ new.build = c.build /\ new.phase = "done" /\ new.completed = c.completed
  BY <1>1, <1>2 DEF Copy
<1>4. Seen' = Seen
  BY <1>1 DEF Seen
<1> HIDE DEF new
<1>5. InformerTypeOK'
  BY <1>1, <1>3 DEF InformerInv, InformerTypeOK
<1>6. StoreFollows' /\ Phases'
  BY <1>1, <1>3, <1>4 DEF InformerInv, StoreFollows, Phases
<1>7. SingleCopies'
  <2>1. IsFiniteSet(index \cup {new})
    BY FS_AddElement DEF InformerInv, SingleCopies
  <2>2. OnePerBuild(index \cup {new})
    BY <1>1, <1>3 DEF InformerInv, SingleCopies, OnePerBuild
  <2> QED BY <1>1, <1>4, <2>1, <2>2 DEF InformerInv, SingleCopies
<1>8. EndedAgree'
  <2> SUFFICES ASSUME NEW x \in Seen \cup index \cup {new}, NEW d \in live,
                      x.build = d.build, x.phase = "done"
               PROVE  d.phase = "done" /\ d.completed = x.completed
    BY <1>1, <1>4 DEF EndedAgree
  <2>1. CASE x \in Seen \cup index
    BY <2>1 DEF InformerInv, EndedAgree
  <2>2. CASE x = new
    <3>1. d = c
      BY <1>3, <2>2 DEF InformerInv, SingleCopies, OnePerBuild
    <3> QED BY <1>1, <1>3, <2>2, <3>1
  <2> QED BY <2>1, <2>2
<1> QED BY <1>5, <1>6, <1>7, <1>8 DEF InformerInv

\* Prow forgets a job.
LEMMA SinkKeeps ==
    ASSUME InformerInv, NEW c \in live, Sink(c)
    PROVE  InformerInv'
<1>1. /\ live' = live \ {c}
      /\ now' = now /\ index' = index /\ lastList' = lastList /\ store' = store /\ scan' = scan
  BY DEF Sink
<1>2. Seen' = Seen
  BY <1>1 DEF Seen
<1>3. InformerTypeOK' /\ StoreFollows' /\ Phases' /\ EndedAgree'
  BY <1>1, <1>2 DEF InformerInv, InformerTypeOK, StoreFollows, Phases, EndedAgree
<1>4. SingleCopies'
  <2>1. IsFiniteSet(live \ {c})
    BY FS_RemoveElement DEF InformerInv, SingleCopies
  <2> QED BY <1>1, <1>2, <2>1 DEF InformerInv, SingleCopies, OnePerBuild
<1> QED BY <1>3, <1>4 DEF InformerInv

\* Time passes.
LEMMA TickKeeps == InformerInv /\ Tick => InformerInv'
<1> SUFFICES ASSUME InformerInv, Tick PROVE InformerInv'
  OBVIOUS
<1>1. /\ now < MaxTime /\ now' = now + 1
      /\ live' = live /\ index' = index /\ lastList' = lastList /\ store' = store /\ scan' = scan
  BY DEF Tick
<1>2. now' \in 1..MaxTime
  BY <1>1, InformerBounds DEF InformerInv, InformerTypeOK
<1>3. InformerTypeOK'
  BY <1>1, <1>2 DEF InformerInv, InformerTypeOK
<1>4. Seen' = Seen
  BY <1>1 DEF Seen
<1>5. StoreFollows' /\ SingleCopies' /\ Phases' /\ EndedAgree'
  BY <1>1, <1>4 DEF InformerInv, StoreFollows, SingleCopies, Phases, EndedAgree, OnePerBuild
<1> QED BY <1>3, <1>5 DEF InformerInv

\* The invariant is inductive.
LEMMA StepInformer == InformerInv /\ [InformerNext]_informerVars => InformerInv'
<1> SUFFICES ASSUME InformerInv, [InformerNext]_informerVars PROVE InformerInv'
  OBVIOUS
<1>1. CASE Tick
  BY <1>1, TickKeeps
<1>2. CASE List
  BY <1>2, ListKeeps
<1>3. CASE ListFails
  BY <1>3, ListFailsKeeps
<1>4. CASE \E b \in Builds : Trigger(b)
  BY <1>4, TriggerKeeps
<1>5. CASE \E c \in live : Advance(c) \/ WriteIndex(c) \/ Sink(c)
  BY <1>5, AdvanceKeeps, WriteIndexKeeps, SinkKeeps
<1>6. CASE UNCHANGED informerVars
  <2>1. Seen' = Seen
    BY <1>6 DEF informerVars, Seen
  <2>2. InformerTypeOK'
    BY <1>6 DEF InformerInv, InformerTypeOK, informerVars
  <2>3. StoreFollows' /\ SingleCopies' /\ Phases' /\ EndedAgree'
    BY <1>6, <2>1 DEF InformerInv, StoreFollows, SingleCopies, Phases, EndedAgree, OnePerBuild, informerVars
  <2> QED BY <2>2, <2>3 DEF InformerInv
<1> QED BY <1>1, <1>2, <1>3, <1>4, <1>5, <1>6 DEF InformerNext

-----------------------------------------------------------------------------
(* Theorems.                                                               *)

\* The invariant holds in every reachable state.
LEMMA InformerInvariance == InformerSpec => []InformerInv
<1>1. InformerInit => InformerInv
  BY InitInformer
<1>2. InformerInv /\ [InformerNext]_informerVars => InformerInv'
  BY StepInformer
<1> QED BY <1>1, <1>2, PTL DEF InformerSpec

\* Every state is well typed; in particular every job in the indexer has a build ID.
THEOREM InformerTypeCorrect == InformerSpec => []InformerTypeOK
<1>1. InformerInv => InformerTypeOK
  BY DEF InformerInv
<1> QED BY <1>1, InformerInvariance, PTL

\* The indexer has at most one copy of a build, whatever prow, the index and the
\* last list have of it.
THEOREM OneCopyAtATime == InformerSpec => []OneCopyPerBuild
<1>1. InformerInv => OneCopyPerBuild
  <2> SUFFICES ASSUME InformerInv PROVE OneCopyPerBuild
    OBVIOUS
  <2>1. store = {} \/ store = Seen
    BY DEF InformerInv, StoreFollows
  <2> QED BY <2>1 DEF InformerInv, SingleCopies, OnePerBuild, OneCopyPerBuild
<1> QED BY <1>1, InformerInvariance, PTL

\* No list shows a job as pending, or as ended at another time, that an earlier one
\* showed as ended.
THEOREM NoJobRegresses == InformerSpec => NeverRegresses
<1> DEFINE Same == \A c \in store, d \in store' :
             c.build = d.build /\ c.phase = "done" => d.phase = "done" /\ d.completed = c.completed
<1>1. ASSUME InformerInv, List PROVE Same
  <2> SUFFICES ASSUME NEW c \in store, NEW d \in store', c.build = d.build, c.phase = "done"
               PROVE  d.phase = "done" /\ d.completed = c.completed
    OBVIOUS
  <2>1. lastList # Nil /\ c \in Seen
    BY <1>1 DEF InformerInv, StoreFollows
  <2>2. d \in live \/ d \in Seen
    <3>1. store' = Seen'
      BY <1>1, ListIs
    <3>2. Seen' = Merged(live, Seen, now - MaxAge)
      BY <1>1, <2>1, ListIs
    <3> QED BY <3>1, <3>2 DEF Merged
  <2>3. CASE d \in live
    BY <1>1, <2>1, <2>3 DEF InformerInv, EndedAgree
  <2>4. CASE d \in Seen
    <3>1. c = d
      BY <1>1, <2>1, <2>4 DEF InformerInv, SingleCopies, OnePerBuild
    <3> QED BY <3>1
  <2> QED BY <2>2, <2>3, <2>4
<1>2. ASSUME InformerInv, store' = store PROVE Same
  <2>1. store = {} \/ store = Seen
    BY <1>2 DEF InformerInv, StoreFollows
  <2>2. \A c, d \in store : c.build = d.build => c = d
    BY <1>2, <2>1 DEF InformerInv, SingleCopies, OnePerBuild
  <2> QED BY <1>2, <2>2
<1>3. InformerInv /\ [InformerNext]_informerVars => [Same]_informerVars
  <2> SUFFICES ASSUME InformerInv, InformerNext PROVE Same
    OBVIOUS
  <2>1. List \/ store' = store
    BY DEF InformerNext, Tick, ListFails, Trigger, Advance, WriteIndex, Sink
  <2> QED BY <1>1, <1>2, <2>1
<1>4. InformerSpec => [][Same]_informerVars
  BY <1>3, InformerInvariance, PTL DEF InformerSpec
<1> QED BY <1>4 DEF NeverRegresses

\* The lists and the merge implement KnownJobs: a successful list is a Relist, a
\* failed one that reads the index a SeedOnly, and everything else the environment.
THEOREM Refinement == InformerSpec => ImplementsKnownJobs
<1>1. InformerInit => Known!Init
  BY DEF InformerInit, Known!Init
<1>2. ASSUME InformerInv, List PROVE Known!Relist
  <2>1. PICK base : /\ lastList # Nil => base = Seen
                    /\ lastList = Nil => base \subseteq index
                    /\ OnePerBuild(base)
                    /\ Seen' = Merged(live, base, now - MaxAge)
    BY <1>2, ListIs
  <2>2. lastList' # Nil /\ UNCHANGED <<now, live, index>>
    BY <1>2, ListIs
  <2>3. \A c \in base : c.phase # "triggered"
    BY <1>2, <2>1 DEF InformerInv, Phases
  <2>4. \A c : Merges(c, now - MaxAge) <=> ~Known!Expired(c) /\ c.phase # "triggered"
    BY DEF Merges, jobExpired, Known!Expired
  <2>5. Seen' = Known!Refreshed(base)
    BY <2>1, <2>3, <2>4 DEF Merged, Known!Refreshed, Known!Visible
  <2>6. (IF lastList' = Nil THEN {} ELSE ToSet(lastList')) = Seen'
    BY DEF Seen
  <2>7. lastList # Nil => base = IF lastList = Nil THEN {} ELSE ToSet(lastList)
    BY <2>1 DEF Seen
  <2> QED BY <2>1, <2>2, <2>5, <2>6, <2>7 DEF Known!Relist, Known!Seed
<1>3. ASSUME InformerInv, ListFails PROVE Known!SeedOnly \/ Known!Environment
  <2>1. lastList' # Nil /\ UNCHANGED <<now, live, index>>
    BY <1>3, ListFailsIs
  <2>2. CASE lastList # Nil
    <3>1. lastList' = lastList
      BY <1>3, <2>2, ListFailsIs
    <3> QED BY <3>1 DEF Known!Environment
  <2>3. CASE lastList = Nil
    <3>1. Seen' \subseteq index
      BY <1>3, <2>3, ListFailsIs
    <3>2. (IF lastList' = Nil THEN {} ELSE ToSet(lastList')) = Seen'
      BY DEF Seen
    <3> QED BY <2>1, <2>3, <3>1, <3>2 DEF Known!SeedOnly, Known!Seed
  <2> QED BY <2>2, <2>3
<1>4. ASSUME lastList' = lastList PROVE Known!Environment
  BY <1>4 DEF Known!Environment
<1>5. InformerInv /\ [InformerNext]_informerVars => [Known!Next]_(Known!vars)
  <2> SUFFICES ASSUME InformerInv, [InformerNext]_informerVars PROVE Known!Next \/ Known!vars' = Known!vars
    OBVIOUS
  <2>1. List \/ ListFails \/ lastList' = lastList
    BY DEF InformerNext, Tick, Trigger, Advance, WriteIndex, Sink, informerVars
  <2> QED BY <1>2, <1>3, <1>4, <2>1 DEF Known!Next
<1>6. InformerSpec => Known!Spec
  BY <1>1, <1>5, InformerInvariance, PTL DEF InformerSpec, Known!Spec
<1> QED BY <1>6 DEF ImplementsKnownJobs
=============================================================================

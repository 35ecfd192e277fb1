----------------------------- MODULE JobExecution ----------------------------
(* Jobs in execution: JobRunners that share a thread pool, and the           *)
(* satisfiers they run.  It is what ProofEngine takes as one step, the       *)
(* outcome of a job, from Satisfy to the report and the end of the runner.   *)
EXTENDS JobPool, HiveSatisfier, PartitionExists, DefaultGoalSatisfier

Init ==
  /\ kind \in Mixes
  /\ runner = [j \in Jobs |-> "none"] /\ reports = [j \in Jobs |-> <<>>]
  /\ thread = [j \in Jobs |-> "none"] /\ result = [j \in Jobs |-> "none"]
  /\ report = [j \in Jobs |-> "none"] /\ abort = [j \in Jobs |-> "none"]
  /\ closing = [j \in Jobs |-> "test"]
  /\ poolSize = 0 /\ busy = {} /\ queue = <<>> /\ refused = {}
  /\ inner = [j \in Jobs |-> NoDriver] /\ made = [j \in Jobs |-> 0]
  /\ open = [j \in Jobs |-> {}] /\ current = [j \in Jobs |-> NoDriver]
  /\ position = [j \in Jobs |-> 0] /\ ranOn = [j \in Jobs |-> {}]
  /\ w = [s \in Satisfiers |-> NoPartition] /\ copy = [j \in Jobs |-> NoCopy]
  /\ table = [p \in Partitions |-> "absent"]
  /\ remaining = [j \in Jobs |-> Evidence] /\ toCheck = [j \in Jobs |-> {}]
  /\ present = [j \in Jobs |-> {}] /\ broken = [j \in Jobs |-> {}]

Outcomes == {"success", "failure"}
dataAndSatisfiers == <<hiveVars, partitionVars, dataVars>>
-----------------------------------------------------------------------------
\* The prover sends Satisfy.  A job without a satisfier has an actor of its own;
\* any other is submitted, and if the pool refuses it the exception makes Akka
\* restart the runner, which has no message left.
RunnerSatisfy(j) ==
  /\ runner[j] = "none" /\ kind[j] # "none"
  /\ \/ /\ kind[j] = "data" /\ UNCHANGED poolVars
        /\ runner' = [runner EXCEPT ![j] = "running"]
        /\ thread' = [thread EXCEPT ![j] = "start"]
     \/ /\ kind[j] \in Pooled /\ Execute(Run(j))
        /\ runner' = [runner EXCEPT ![j] = "running"]
        /\ thread' = [thread EXCEPT ![j] = "start"]
     \/ /\ kind[j] \in Pooled /\ Reject(Run(j))
        /\ runner' = [runner EXCEPT ![j] = "failed"]
        /\ UNCHANGED thread
  /\ UNCHANGED <<kind, reports, result, report, abort, closing, dataAndSatisfiers>>

\* A satisfier of any other kind: it succeeds, fails, throws, or ends by abort().
OtherSatisfies(j) ==
  /\ kind[j] = "other" /\ Run(j) \in busy /\ thread[j] = "start"
  /\ \E outcome \in Outcomes : result' = [result EXCEPT ![j] = outcome]
  /\ thread' = [thread EXCEPT ![j] = "over"]
  /\ UNCHANGED <<kind, runner, reports, report, abort, closing, poolVars, dataAndSatisfiers>>

\* Bug: only the success of the execution is waited for.
JobCompletesOnSuccess(j) ==
  /\ kind[j] \in Pooled /\ thread[j] = "over" /\ result[j] = "success"
  /\ thread' = [thread EXCEPT ![j] = "ended"]
  /\ \/ Execute(Report(j)) /\ report' = [report EXCEPT ![j] = "results"]
     \/ Reject(Report(j)) /\ UNCHANGED report
  /\ UNCHANGED <<kind, runner, reports, result, abort, closing, dataAndSatisfiers>>

\* The result is there: the callback is submitted, and is lost if refused.
JobCompletes(j) ==
  /\ kind[j] \in Pooled /\ thread[j] = "over"
  /\ thread' = [thread EXCEPT ![j] = "ended"]
  /\ \/ Execute(Report(j)) /\ report' = [report EXCEPT ![j] = "results"]
     \/ Reject(Report(j)) /\ UNCHANGED report
  /\ UNCHANGED <<kind, runner, reports, result, abort, closing, dataAndSatisfiers>>

\* checkResults: a success whose data cannot be marked is a failure.
CheckResults(j) ==
  /\ report[j] = "results" /\ Report(j) \in busy
  /\ \/ reports' = [reports EXCEPT ![j] = Append(@, result[j])]
     \/ kind[j] # "partition" /\ reports' = [reports EXCEPT ![j] = Append(@, "failure")]
  /\ report' = [report EXCEPT ![j] = IF kind[j] = "hive" THEN "test" ELSE "stop"]
  /\ UNCHANGED <<kind, runner, thread, result, abort, closing, poolVars, dataAndSatisfiers>>

\* finish(): close() of a satisfier that has one.  If it throws, the runner is
\* not stopped, nor is one that was restarted, which has lost its context.
FinishCloses(j) ==
  /\ report[j] \in ReleasePoints /\ Report(j) \in busy
  /\ Release(j, report[j])
  /\ LET next == AfterRelease(j, report[j]) IN
       report' = [report EXCEPT ![j] = CASE next = "released" -> "stop"
                                         [] next = "thrown" -> "ended"
                                         [] OTHER -> next]
  /\ UNCHANGED <<kind, runner, reports, thread, result, abort, closing,
                 poolVars, partitionVars, dataVars>>

FinishStops(j) ==
  /\ report[j] = "stop" /\ Report(j) \in busy
  /\ report' = [report EXCEPT ![j] = "ended"]
  /\ runner' = [runner EXCEPT ![j] = IF @ = "running" THEN "stopped" ELSE @]
  /\ UNCHANGED <<kind, reports, thread, result, abort, closing, poolVars, dataAndSatisfiers>>
-----------------------------------------------------------------------------
\* case Abort: satisfier.abort(), markIncomplete, finish(), on the actor's
\* thread, whatever the job is doing.
RunnerAbort(j) ==
  /\ j \in Abortable /\ abort[j] = "none"
  /\ runner[j] \in {"running", "failed"} /\ kind[j] \in Pooled
  /\ abort' = [abort EXCEPT ![j] = IF kind[j] = "hive" THEN "aborting" ELSE "marking"]
  /\ IF kind[j] = "partition" THEN DropPartition(j) ELSE UNCHANGED partitionVars
  /\ UNCHANGED <<kind, runner, reports, thread, result, report, closing,
                 poolVars, hiveVars, dataVars>>

\* close(), of abort() and of finish(): the former is robust, the latter throws.
AbortCloses(j) ==
  /\ abort[j] \in {"aborting", "finishing"} /\ kind[j] = "hive"
  /\ Release(j, closing[j])
  /\ LET next == AfterRelease(j, closing[j]) IN
       /\ closing' = [closing EXCEPT ![j] = IF next \in ReleasePoints THEN next ELSE "test"]
       /\ abort' = [abort EXCEPT ![j] = CASE next \in ReleasePoints -> @
                                          [] @ = "aborting" -> "marking"
                                          [] OTHER -> "done"]
       /\ runner' = [runner EXCEPT ![j] =
            CASE abort[j] = "aborting" \/ next \in ReleasePoints \/ @ = "stopped" -> @
              [] next = "thrown" -> "failed"
              [] OTHER -> "stopped"]
  /\ UNCHANGED <<kind, reports, thread, result, report, poolVars, partitionVars, dataVars>>

\* markIncomplete may throw, and the runner is restarted.
AbortMarks(j) ==
  /\ abort[j] = "marking"
  /\ \/ abort' = [abort EXCEPT ![j] = "finishing"] /\ UNCHANGED runner
     \/ /\ kind[j] # "partition"
        /\ abort' = [abort EXCEPT ![j] = "done"]
        /\ runner' = [runner EXCEPT ![j] = IF @ = "stopped" THEN @ ELSE "failed"]
  /\ UNCHANGED <<kind, reports, thread, result, report, closing, poolVars, dataAndSatisfiers>>

AbortStopsRunner(j) ==
  /\ abort[j] = "finishing" /\ kind[j] # "hive"
  /\ abort' = [abort EXCEPT ![j] = "done"]
  /\ runner' = [runner EXCEPT ![j] = "stopped"]
  /\ UNCHANGED <<kind, reports, thread, result, report, closing, poolVars, dataAndSatisfiers>>

AbortStep(j) == AbortCloses(j) \/ AbortMarks(j) \/ AbortStopsRunner(j)
ReportStep(j) == JobCompletes(j) \/ CheckResults(j) \/ FinishCloses(j) \/ FinishStops(j)

Next ==
  \/ PoolStep
  \/ \E j \in Jobs : \/ RunnerSatisfy(j) \/ RunnerAbort(j)
                     \/ HiveStep(j) \/ PartitionStep(j) \/ OtherSatisfies(j) \/ DataStep(j)
                     \/ ReportStep(j) \/ AbortStep(j)
                     \/ \E e \in Evidence : DataChanges(j, e)

Spec == Init /\ [][Next]_vars

\* The steps of whoever executes job j, on a thread of the pool or its own actor.
SatisfierStep(j) == HiveStep(j) \/ PartitionStep(j) \/ OtherSatisfies(j) \/ DataStep(j)

\* Threads run, actors handle their mail, Hive and the metastore answer.  The
\* prover, aborts and the data have no fairness; an idle thread may stay.
FairSpec ==
  /\ Spec
  /\ WF_vars(TakeTask) /\ WF_vars(\E t \in busy : TaskEnds(t))
  /\ \A j \in Jobs :
       WF_vars(SatisfierStep(j)) /\ WF_vars(ReportStep(j)) /\ WF_vars(AbortStep(j))
-----------------------------------------------------------------------------
Copies == [partition : Partitions, marked : BOOLEAN]

\* Each field holds values of its type; one driver more than statements is made.
TypeOK ==
  /\ kind \in Mixes
  /\ runner \in [Jobs -> {"none", "running", "failed", "stopped"}]
  /\ reports \in [Jobs -> Seq(Outcomes)]
  /\ thread \in [Jobs -> {"none", "start", "build", "get", "next", "execute", "executing",
                          "add", "again", "alter", "mark", "checking", "waiting",
                          "over", "ended"} \cup ReleasePoints]
  /\ result \in [Jobs -> Outcomes \cup {"none"}]
  /\ report \in [Jobs -> {"none", "results", "stop", "ended"} \cup ReleasePoints]
  /\ abort \in [Jobs -> {"none", "aborting", "marking", "finishing", "done"}]
  /\ closing \in [Jobs -> ReleasePoints]
  /\ poolSize \in 0..MaxPoolSize /\ busy \subseteq Tasks
  /\ queue \in Seq(Tasks) /\ Len(queue) <= QueueSize /\ refused \subseteq Tasks
  /\ inner \in [Jobs -> Drivers \cup {NoDriver}] /\ current \in [Jobs -> Drivers \cup {NoDriver}]
  /\ made \in [Jobs -> 0..(NumStatements + 1)] /\ position \in [Jobs -> 0..NumStatements]
  /\ open \in [Jobs -> SUBSET Drivers] /\ ranOn \in [Jobs -> SUBSET Drivers]
  /\ w \in [Satisfiers -> Partitions \cup {NoPartition}]
  /\ copy \in [Jobs -> Copies \cup {NoCopy}]
  /\ table \in [Partitions -> {"absent", "unmarked", "marked"}]
  /\ remaining \in [Jobs -> SUBSET Evidence] /\ toCheck \in [Jobs -> SUBSET Evidence]
  /\ present \in [Jobs -> SUBSET Evidence] /\ broken \in [Jobs -> SUBSET Evidence]

\* However a Hive job ends - a failed statement, a missing variable, an exception
\* of the track's properties or of close() - its handle is empty before its
\* result is reported, and unless it was aborted no driver it made is open: the
\* finally of satisfy() against its early returns.
DriversReleased ==
  \A j \in Jobs : kind[j] = "hive" /\ thread[j] \in {"over", "ended"} =>
    /\ inner[j] = NoDriver
    /\ abort[j] = "none" => open[j] = {}

\* The statements of a job that is not aborted all run on one driver, and so with
\* the settings of setup.hql and of its own `set` statements: driver.get of each
\* statement against the releases of other threads.
OneSession ==
  \A j \in Jobs : abort[j] = "none" => \A d, e \in ranOn[j] : d = e

\* A partition that a job got and succeeded with is marked complete, once nobody
\* has an older copy of it left to write back - whichever partition the job had been
\* asked for, and whether the others share its satisfier or are another track's.
\* Excepted are partitions a job failed midway with, and those an aborted job's
\* satisfier may have been at, which the abort may have dropped.
HasInHand(p) == {j \in Jobs : copy[j] # NoCopy /\ copy[j].partition = p}
MayDrop(p) ==
  {j \in Jobs : /\ kind[j] = "partition" /\ abort[j] # "none"
                /\ \E k \in Jobs : /\ kind[k] = "partition" /\ Satisfier[k] = Satisfier[j]
                                   /\ Witness[k] = p}
SuccessIsMarked ==
  \A p \in Partitions :
    /\ \E j \in HasInHand(p) : result[j] = "success"
    /\ \A j \in HasInHand(p) : result[j] # "failure" /\ thread[j] \notin {"alter", "mark"}
    /\ MayDrop(p) = {}
    => table[p] = "marked"

\* A task of a job is refused only while as many other jobs as the queue holds are
\* under way: of one job two tasks never wait, for its report is submitted when its
\* execution has ended.  What is refused is never heard of again.
Over(j) == /\ thread[j] \in {"over", "ended"} /\ Run(j) \notin busy
           /\ report[j] \in {"none", "ended"} /\ Report(j) \notin busy
UnderWay == {j \in Jobs : kind[j] \in Pooled /\ thread[j] # "none" /\ ~Over(j)}
RefusedOnlyWhenFull ==
  [][\A j \in Jobs : {Run(j), Report(j)} \cap (refused' \ refused) # {}
       => Cardinality(UnderWay \ {j}) >= QueueSize]_vars

\* Every job that was submitted comes to be reported and its runner stopped,
\* unless the pool refuses its report; only an abort may leave the runner behind.
\* Again and again none is outstanding, for a job is submitted once.
Outstanding(j) ==
  /\ kind[j] \in Pooled /\ thread[j] # "none" /\ Report(j) \notin refused
  /\ reports[j] = <<>> \/ (runner[j] # "stopped" /\ abort[j] = "none")
EveryJobReports == []<>(\A j \in Jobs : ~Outstanding(j))

\* Of a job nothing is reported after a success, though a job that waits for
\* evidence reports failures, several at times, before it.
SuccessIsLast ==
  [][\A j \in Jobs : reports'[j] # reports[j] =>
       \A i \in DOMAIN reports[j] : reports[j][i] = "failure"]_vars

\* A job that waits for evidence does not wait for ever when all of it stays and
\* can be looked at, whatever it has reported before.
Succeeded(j) == \E i \in DOMAIN reports[j] : reports[j][i] = "success"
DataArrives ==
  []<>(\A j \in Jobs :
         kind[j] = "data" /\ thread[j] # "none" /\ present[j] = Evidence /\ broken[j] = {}
           => Succeeded(j))

-----------------------------------------------------------------------------
(* What a comment of the code says and the code does not keep.               *)

\* Satisfier.scala:15, "Make sure the Goal is satisfied for the specified Witness":
\* a job that succeeded has made its own partition, unless an abort dropped it.
SuccessHasPartition ==
  \A j \in Jobs :
    kind[j] = "partition" /\ result[j] = "success" /\ (\A k \in Jobs : abort[k] = "none")
      => table[Witness[j]] # "absent"
=============================================================================

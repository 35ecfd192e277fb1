------------------------------ MODULE JobRunner ------------------------------
(* The actor that runs a goal's satisfier.  The execution is a future in a   *)
(* thread pool: it outlives the actor, and whenever it completes it marks    *)
(* the goal's data instances, tells the prover and stops the actor, from the *)
(* pool's thread.                                                            *)
EXTENDS EngineState

CONSTANT JobOutcomes    \* which of the outcomes below an execution may have

\* "success"; "failure" (a failed result or an exception); "markFailure", the
\* job succeeds and its data instances cannot be marked.
ASSUME JobOutcomesType == JobOutcomes \subseteq {"success", "failure", "markFailure"}

RunnerReceived(g, type) ==
  runner[g] /\ runnerBox[g] # <<>> /\ Head(runnerBox[g]) = type

\* case Satisfy: another execution starts, whatever runs already.
RunnerSatisfy(g) ==
  /\ RunnerReceived(g, "Satisfy")
  /\ futures' = [futures EXCEPT ![g] = @ + 1]
  /\ runnerBox' = [runnerBox EXCEPT ![g] = Tail(@)]
  /\ UNCHANGED <<proverVars, boxVars, checkerVars, runner, finishing, orphans,
                 marks, retryVars, clientVars>>

\* finish(): the actor is stopped; executions still in the pool are not.
Finish(g) ==
  /\ runner' = [runner EXCEPT ![g] = FALSE]
  /\ runnerBox' = [runnerBox EXCEPT ![g] = <<>>]
  /\ futures' = [futures EXCEPT ![g] = 0]
  /\ finishing' = [finishing EXCEPT ![g] = 0]
  /\ orphans' = [orphans EXCEPT ![g] = @ + futures[g]]
  /\ UNCHANGED <<proverVars, boxVars, checkerVars, retryVars, clientVars>>

\* case Abort: satisfier.abort(), mark the output incomplete, stop; the prover
\* is not told.
RunnerAbort(g) ==
  /\ RunnerReceived(g, "Abort")
  /\ marks' = [marks EXCEPT ![g] = "incomplete"]
  /\ Finish(g)

\* checkResults up to the message: whatever the result, markCompleted is tried.
Report(g, outcome) ==
  /\ \/ outcome # "markFailure" /\ marks' = [marks EXCEPT ![g] = "completed"]
     \/ outcome # "success" /\ UNCHANGED marks
  /\ Quiet([mailbox EXCEPT ![g] =
              Append(@, JobMsg(IF outcome = "success" THEN "JobRunSuccess"
                                                      ELSE "JobRunFailed"))])
  /\ UNCHANGED <<proverVars, checkerVars, runner, runnerBox, retryVars, clientVars>>

\* Bug: an execution reports twice.
JobCompletesTwice(g, outcome) ==
  /\ futures[g] + finishing[g] > 0
  /\ futures' = [futures EXCEPT ![g] = @ - 1]
  /\ finishing' = [finishing EXCEPT ![g] = @ + 1]
  /\ UNCHANGED orphans
  /\ Report(g, outcome)

JobCompletes(g, outcome) ==
  /\ futures[g] > 0
  /\ futures' = [futures EXCEPT ![g] = @ - 1]
  /\ finishing' = [finishing EXCEPT ![g] = @ + 1]
  /\ UNCHANGED orphans
  /\ Report(g, outcome)

OrphanCompletes(g, outcome) ==
  /\ orphans[g] > 0
  /\ orphans' = [orphans EXCEPT ![g] = @ - 1]
  /\ UNCHANGED <<futures, finishing>>
  /\ Report(g, outcome)

RunnerFinish(g) == finishing[g] > 0 /\ UNCHANGED marks /\ Finish(g)

JobRunnerStep(g) ==
  \/ RunnerSatisfy(g) \/ RunnerAbort(g) \/ RunnerFinish(g)
  \/ \E o \in JobOutcomes : JobCompletes(g, o) \/ OrphanCompletes(g, o)
=============================================================================

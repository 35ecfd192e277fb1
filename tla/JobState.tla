------------------------------ MODULE JobState ------------------------------
(* What the execution of jobs is made of: the JobRunner of each job, the     *)
(* thread pool they share, and what the satisfiers keep.  A job is one       *)
(* execution of a satisfier for a goal and witness.                          *)
EXTENDS Naturals, Sequences, FiniteSets

CONSTANTS
  Jobs,           \* executions, each with a JobRunner of its own
  Mixes,          \* which kinds of satisfier the jobs may have, Jobs -> Kinds
  Partitions,     \* partitions of a table
  Witness,        \* Witness[j]: the partition job j is to create
  Satisfiers,     \* instances of PartitionExistsSatisfier
  Satisfier,      \* Satisfier[j]: the instance job j was given
  Evidence,       \* the evidence a job without a satisfier waits for
  NumStatements,  \* of setup.hql and the query resource, one after the other
  CorePoolSize, MaxPoolSize, QueueSize,
  Abortable,      \* bound: jobs that may be aborted
  MaxReports,     \* bound: reports of a job that waits for evidence
  NoPartition, NoCopy

\* A HiveSatisfier, a PartitionExistsSatisfier, any other satisfier, a goal
\* without a satisfier, and no job.
Kinds == {"hive", "partition", "other", "data", "none"}
Pooled == {"hive", "partition", "other"}
Drivers == 1..(NumStatements + 1)
NoDriver == 0

ASSUME JobConstants ==
  /\ IsFiniteSet(Jobs)
  /\ Mixes \subseteq [Jobs -> Kinds]
  /\ Witness \in [Jobs -> Partitions]
  /\ Satisfier \in [Jobs -> Satisfiers]
  /\ NumStatements \in Nat /\ MaxReports \in Nat
  /\ CorePoolSize \in Nat \ {0} /\ MaxPoolSize \in Nat /\ QueueSize \in Nat \ {0}
  /\ CorePoolSize <= MaxPoolSize
  /\ Abortable \subseteq Jobs
  /\ NoPartition \notin Partitions
  /\ NoCopy \notin [partition : Partitions, marked : BOOLEAN]

VARIABLES
  kind,       \* the kind of each job
  runner,     \* a JobRunner: "none", "running", "failed" (restarted by Akka,
              \* idle, its name still taken), "stopped"
  reports,    \* the messages the prover is sent about a job, in order
  thread,     \* how far a job's execution is
  result,     \* what it came to: "none", "success", "failure"
  report,     \* how far checkResults is, on another thread of the pool
  abort,      \* how far the runner's handling of Abort is, on the actor's thread:
              \* "none", "aborting", "marking", "finishing", "done"
  closing     \* where it is in Releaseable.release

runnerVars == <<kind, runner, reports, thread, result, report, abort, closing>>

VARIABLES
  poolSize,   \* threads of the ThreadPoolExecutor, at work or idle
  busy,       \* the tasks that are being executed by one
  queue,      \* its ArrayBlockingQueue
  refused     \* tasks it has rejected

poolVars == <<poolSize, busy, queue, refused>>

VARIABLES     \* of each HiveSatisfier
  inner,      \* driver._inner
  made,       \* drivers made so far
  open,       \* drivers that hold resources
  current,    \* what driver.get has returned for the statement at hand
  position,   \* statements begun
  ranOn       \* drivers that statements were executed on

hiveVars == <<inner, made, open, current, position, ranOn>>

VARIABLES
  w,          \* the field w of each PartitionExistsSatisfier
  copy,       \* the Partition object a job has in hand
  table       \* each partition in the metastore: "absent", "unmarked", "marked"

partitionVars == <<w, copy, table>>

VARIABLES     \* of each DefaultGoalSatisfier
  remaining,  \* remainingEvidence
  toCheck,    \* what the check at hand has still to look at
  present,    \* evidence that exists by now
  broken      \* evidence whose check throws

dataVars == <<remaining, toCheck, present, broken>>

vars == <<runnerVars, poolVars, hiveVars, partitionVars, dataVars>>

Run(j) == <<"run", j>>
Report(j) == <<"report", j>>
Tasks == {Run(j) : j \in Jobs} \cup {Report(j) : j \in Jobs}
=============================================================================

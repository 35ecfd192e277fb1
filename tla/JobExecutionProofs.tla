------------------------- MODULE JobExecutionProofs -------------------------
(* For any jobs, satisfiers, statements and sizes of the pool: what threads  *)
(* do to the handle of a Hive job, to the queue and to the reports of a job. *)
EXTENDS JobExecution, FiniteSetTheorems, TLAPS

Threads ==
  {"none", "start", "build", "get", "next", "execute", "executing", "add", "again", "alter",
   "mark", "checking", "waiting", "over", "ended"} \cup ReleasePoints

RunnerType ==
  /\ kind \in Mixes
  /\ runner \in [Jobs -> {"none", "running", "failed", "stopped"}]
  /\ reports \in [Jobs -> Seq(Outcomes)]
  /\ thread \in [Jobs -> Threads]
  /\ result \in [Jobs -> Outcomes \cup {"none"}]
  /\ report \in [Jobs -> {"none", "results", "stop", "ended"} \cup ReleasePoints]
  /\ abort \in [Jobs -> {"none", "aborting", "marking", "finishing", "done"}]
  /\ closing \in [Jobs -> ReleasePoints]

PoolType ==
  /\ poolSize \in 0..MaxPoolSize /\ busy \subseteq Tasks
  /\ queue \in Seq(Tasks) /\ Len(queue) <= QueueSize /\ refused \subseteq Tasks

HiveType ==
  /\ inner \in [Jobs -> Drivers \cup {NoDriver}] /\ current \in [Jobs -> Drivers \cup {NoDriver}]
  /\ made \in [Jobs -> 0..(NumStatements + 1)] /\ position \in [Jobs -> 0..NumStatements]
  /\ open \in [Jobs -> SUBSET Drivers] /\ ranOn \in [Jobs -> SUBSET Drivers]

PartitionType ==
  /\ w \in [Satisfiers -> Partitions \cup {NoPartition}]
  /\ copy \in [Jobs -> Copies \cup {NoCopy}]
  /\ table \in [Partitions -> {"absent", "unmarked", "marked"}]

DataType ==
  /\ remaining \in [Jobs -> SUBSET Evidence] /\ toCheck \in [Jobs -> SUBSET Evidence]
  /\ present \in [Jobs -> SUBSET Evidence] /\ broken \in [Jobs -> SUBSET Evidence]

Hiving == {"build", "get", "next", "execute", "executing"} \cup ReleasePoints

\* Which satisfier a thread is in, and when there is a result to be reported.
Control(j) ==
  /\ runner[j] = "none" => thread[j] = "none"
  /\ thread[j] \in Hiving => kind[j] = "hive"
  /\ thread[j] \in {"add", "again", "alter", "mark"} => kind[j] = "partition"
  /\ thread[j] \in {"checking", "waiting"} => kind[j] = "data"
  /\ thread[j] = "ended" => kind[j] \in Pooled
  /\ kind[j] \in Pooled /\ thread[j] \in {"over", "ended"} \cup ReleasePoints
       => result[j] \in Outcomes
  /\ report[j] # "none" => thread[j] = "ended"
  /\ report[j] \in ReleasePoints => kind[j] = "hive"

\* A driver is made at most once for each statement, and once before the first.
Statements(j) ==
  /\ made[j] <= position[j] + 1
  /\ thread[j] \in {"none", "start", "build"} => made[j] <= position[j]
  /\ thread[j] \in {"execute", "executing"} => current[j] # NoDriver

\* A job that creates a partition has a witness, and then a Partition object.
Creation(j) ==
  /\ thread[j] \in {"add", "again"} => w[Satisfier[j]] # NoPartition
  /\ thread[j] \in {"alter", "mark"} => copy[j] # NoCopy

\* Nobody but the job's own thread has touched the handle of a job that is not
\* aborted: it holds the one driver made, from the first get to the finally.
Handle(j) ==
  /\ kind[j] = "hive" /\ thread[j] \in {"over", "ended"} => inner[j] = NoDriver
  /\ abort[j] = "none" =>
       /\ made[j] \in {0, 1} /\ ranOn[j] \subseteq {1}
       /\ open[j] \subseteq {inner[j]} /\ NoDriver \notin open[j]
       /\ thread[j] \in {"none", "start"} => made[j] = 0
       /\ thread[j] \in {"none", "start", "build", "get", "next", "execute", "executing"}
            => inner[j] = made[j]
       /\ thread[j] \in {"get", "next", "execute", "executing"} => made[j] = 1
       /\ thread[j] \in {"execute", "executing"} => current[j] = 1
       /\ thread[j] = "clear" => open[j] = {}

\* A job is reported once, when its results are checked; one that waits for
\* evidence reports failures until it is over.
Reporting(j) ==
  /\ kind[j] # "data" /\ report[j] \in {"none", "results"} => reports[j] = <<>>
  /\ kind[j] = "data" /\ thread[j] # "over" =>
       \A i \in DOMAIN reports[j] : reports[j][i] = "failure"

JobInv(j) == Control(j) /\ Statements(j) /\ Creation(j) /\ Handle(j) /\ Reporting(j)

\* A task of the queue waits: no thread has begun it, and it is there once.
Waits(t) == \E j \in Jobs :
  /\ kind[j] \in Pooled
  /\ \/ t = Run(j) /\ thread[j] = "start"
     \/ t = Report(j) /\ report[j] = "results"

Queueing ==
  /\ \A i \in DOMAIN queue : Waits(queue[i]) /\ queue[i] \notin busy
  /\ \A i, k \in DOMAIN queue : queue[i] = queue[k] => i = k
  /\ \A j \in Jobs : /\ Run(j) \in busy => thread[j] # "none"
                     /\ Report(j) \in busy => report[j] # "none"

Inv == TypeOK /\ Queueing /\ \A j \in Jobs : JobInv(j)

USE JobConstants DEF Kinds, Pooled, NoDriver, Drivers, Outcomes, ReleasePoints
-----------------------------------------------------------------------------
LEMMA Types == TypeOK <=> RunnerType /\ PoolType /\ HiveType /\ PartitionType /\ DataType
  BY DEF TypeOK, RunnerType, Threads, PoolType, HiveType, PartitionType, DataType

LEMMA TaskNames ==
  ASSUME NEW j \in Jobs, NEW k \in Jobs
  PROVE  /\ Run(j) \in Tasks /\ Report(j) \in Tasks
         /\ Run(j) # Report(k) /\ Report(j) # Run(k)
         /\ (Run(j) = Run(k) => j = k) /\ (Report(j) = Report(k) => j = k)
  BY DEF Tasks, Run, Report

LEMMA InitInv == Init => Inv
<1>. SUFFICES ASSUME Init PROVE Inv
  OBVIOUS
<1>1. TypeOK
  BY DEF Init, TypeOK, Copies
<1>2. Queueing
  BY DEF Init, Queueing
<1>3. ASSUME NEW j \in Jobs PROVE JobInv(j)
  BY DEF Init, JobInv, Control, Statements, Creation, Handle, Reporting, Hiving
<1>. QED  BY <1>1, <1>2, <1>3 DEF Inv

\* Nothing of job j is changed.
SameJob(j) ==
  /\ kind' = kind /\ runner'[j] = runner[j]
  /\ reports'[j] = reports[j] /\ thread'[j] = thread[j]
  /\ result'[j] = result[j] /\ report'[j] = report[j] /\ abort'[j] = abort[j]
  /\ inner'[j] = inner[j] /\ made'[j] = made[j] /\ open'[j] = open[j]
  /\ current'[j] = current[j] /\ position'[j] = position[j] /\ ranOn'[j] = ranOn[j]
  /\ copy'[j] = copy[j]
  /\ w[Satisfier[j]] # NoPartition => w'[Satisfier[j]] # NoPartition

LEMMA SameJobInv ==
  ASSUME NEW j \in Jobs, JobInv(j), SameJob(j)
  PROVE  JobInv(j)'
<1>1. Control(j)' /\ Reporting(j)'
  BY DEF SameJob, JobInv, Control, Reporting, Hiving
<1>2. Statements(j)' /\ Creation(j)'
  BY DEF SameJob, JobInv, Statements, Creation
<1>3. Handle(j)'
  BY DEF SameJob, JobInv, Handle
<1>. QED  BY <1>1, <1>2, <1>3 DEF JobInv
-----------------------------------------------------------------------------
\* A step of job j: what is proved of each of them.
StepOf(j) == TypeOK' /\ JobInv(j)' /\ \A k \in Jobs \ {j} : SameJob(k)

LEMMA TypesNext ==
  TypeOK' <=> RunnerType' /\ PoolType' /\ HiveType' /\ PartitionType' /\ DataType'
  BY DEF TypeOK, RunnerType, Threads, PoolType, HiveType, PartitionType, DataType

LEMMA HiveFrame == HiveType /\ UNCHANGED hiveVars => HiveType'
  BY DEF HiveType, hiveVars
LEMMA PartitionFrame == PartitionType /\ UNCHANGED partitionVars => PartitionType'
  BY DEF PartitionType, partitionVars
LEMMA DataFrame == DataType /\ UNCHANGED dataVars => DataType'
  BY DEF DataType, dataVars
LEMMA PoolFrame == PoolType /\ UNCHANGED poolVars => PoolType'
  BY DEF PoolType, poolVars

LEMMA HiveBeginsInv == ASSUME Inv, NEW j \in Jobs, HiveBegins(j) PROVE StepOf(j)
<1>. USE DEF HiveBegins, unchangedByHive, runnerVars, Executing, Goes, Finally
<1>1. RunnerType /\ PoolType /\ HiveType /\ PartitionType /\ DataType /\ JobInv(j)
  BY Types DEF Inv
<1>2. PoolType' /\ PartitionType' /\ DataType'
  BY <1>1, PoolFrame, PartitionFrame, DataFrame
<1>3. RunnerType'
  <2>1. thread' \in [Jobs -> Threads]
    BY <1>1 DEF RunnerType, Threads
  <2>2. result' \in [Jobs -> Outcomes \cup {"none"}]
    BY <1>1 DEF RunnerType
  <2>3. UNCHANGED <<kind, runner, reports, report, abort, closing>>
    OBVIOUS
  <2>. QED  BY <1>1, <2>1, <2>2, <2>3 DEF RunnerType
<1>4. HiveType'
  <2>. USE DEF HiveType, hiveVars
  <2>1. /\ made[j] \in 0..(NumStatements + 1) /\ position[j] \in 0..NumStatements
        /\ made[j] <= position[j] + 1
        /\ thread[j] = "build" => made[j] + 1 \in Drivers
        /\ thread[j] \in {"execute", "executing"} => current[j] \in Drivers
    BY <1>1 DEF JobInv, Statements
  <2>2. inner' \in [Jobs -> Drivers \cup {NoDriver}] /\ current' \in [Jobs -> Drivers \cup {NoDriver}]
    BY <1>1, <2>1
  <2>3. made' \in [Jobs -> 0..(NumStatements + 1)] /\ position' \in [Jobs -> 0..NumStatements]
    BY <1>1, <2>1
  <2>4. open' \in [Jobs -> SUBSET Drivers] /\ ranOn' \in [Jobs -> SUBSET Drivers]
    BY <1>1, <2>1
  <2>. QED  BY <2>2, <2>3, <2>4
<1>5. Control(j)' /\ Reporting(j)'
  BY <1>1 DEF RunnerType, JobInv, Control, Reporting, Hiving
<1>6. Statements(j)' /\ Creation(j)'
  BY <1>1 DEF RunnerType, HiveType, JobInv, Statements, Creation, partitionVars, hiveVars
<1>7. Handle(j)'
  BY <1>1 DEF RunnerType, HiveType, JobInv, Handle, Statements, hiveVars
<1>8. ASSUME NEW k \in Jobs \ {j} PROVE SameJob(k)
  BY <1>1 DEF SameJob, RunnerType, HiveType, PartitionType, partitionVars, hiveVars
<1>. QED  BY <1>2, <1>3, <1>4, <1>5, <1>6, <1>7, <1>8, TypesNext DEF StepOf, JobInv

LEMMA BuildDriverInv == ASSUME Inv, NEW j \in Jobs, BuildDriver(j) PROVE StepOf(j)
<1>. USE DEF BuildDriver, unchangedByHive, runnerVars, Executing, Goes, Finally
<1>1. RunnerType /\ PoolType /\ HiveType /\ PartitionType /\ DataType /\ JobInv(j)
  BY Types DEF Inv
<1>2. PoolType' /\ PartitionType' /\ DataType'
  BY <1>1, PoolFrame, PartitionFrame, DataFrame
<1>3. RunnerType'
  <2>1. thread' \in [Jobs -> Threads]
    BY <1>1 DEF RunnerType, Threads
  <2>2. result' \in [Jobs -> Outcomes \cup {"none"}]
    BY <1>1 DEF RunnerType
  <2>3. UNCHANGED <<kind, runner, reports, report, abort, closing>>
    OBVIOUS
  <2>. QED  BY <1>1, <2>1, <2>2, <2>3 DEF RunnerType
<1>4. HiveType'
  <2>. USE DEF HiveType, hiveVars
  <2>1. /\ made[j] \in 0..(NumStatements + 1) /\ position[j] \in 0..NumStatements
        /\ made[j] <= position[j] + 1
        /\ thread[j] = "build" => made[j] + 1 \in Drivers
        /\ thread[j] \in {"execute", "executing"} => current[j] \in Drivers
    BY <1>1 DEF JobInv, Statements
  <2>2. inner' \in [Jobs -> Drivers \cup {NoDriver}] /\ current' \in [Jobs -> Drivers \cup {NoDriver}]
    BY <1>1, <2>1
  <2>3. made' \in [Jobs -> 0..(NumStatements + 1)] /\ position' \in [Jobs -> 0..NumStatements]
    BY <1>1, <2>1
  <2>4. open' \in [Jobs -> SUBSET Drivers] /\ ranOn' \in [Jobs -> SUBSET Drivers]
    BY <1>1, <2>1
  <2>. QED  BY <2>2, <2>3, <2>4
<1>5. Control(j)' /\ Reporting(j)'
  BY <1>1 DEF RunnerType, JobInv, Control, Reporting, Hiving
<1>6. Statements(j)' /\ Creation(j)'
  BY <1>1 DEF RunnerType, HiveType, JobInv, Statements, Creation, partitionVars, hiveVars
<1>7. Handle(j)'
  BY <1>1 DEF RunnerType, HiveType, JobInv, Handle, Statements, hiveVars
<1>8. ASSUME NEW k \in Jobs \ {j} PROVE SameJob(k)
  BY <1>1 DEF SameJob, RunnerType, HiveType, PartitionType, partitionVars, hiveVars
<1>. QED  BY <1>2, <1>3, <1>4, <1>5, <1>6, <1>7, <1>8, TypesNext DEF StepOf, JobInv

LEMMA GetDriverInv == ASSUME Inv, NEW j \in Jobs, GetDriver(j) PROVE StepOf(j)
<1>. USE DEF GetDriver, unchangedByHive, runnerVars, Executing, Goes, Finally
<1>1. RunnerType /\ PoolType /\ HiveType /\ PartitionType /\ DataType /\ JobInv(j)
  BY Types DEF Inv
<1>2. PoolType' /\ PartitionType' /\ DataType'
  BY <1>1, PoolFrame, PartitionFrame, DataFrame
<1>3. RunnerType'
  <2>1. thread' \in [Jobs -> Threads]
    BY <1>1 DEF RunnerType, Threads
  <2>2. result' \in [Jobs -> Outcomes \cup {"none"}]
    BY <1>1 DEF RunnerType
  <2>3. UNCHANGED <<kind, runner, reports, report, abort, closing>>
    OBVIOUS
  <2>. QED  BY <1>1, <2>1, <2>2, <2>3 DEF RunnerType
<1>4. HiveType'
  <2>. USE DEF HiveType, hiveVars
  <2>1. /\ made[j] \in 0..(NumStatements + 1) /\ position[j] \in 0..NumStatements
        /\ made[j] <= position[j] + 1
        /\ thread[j] = "build" => made[j] + 1 \in Drivers
        /\ thread[j] \in {"execute", "executing"} => current[j] \in Drivers
    BY <1>1 DEF JobInv, Statements
  <2>2. inner' \in [Jobs -> Drivers \cup {NoDriver}] /\ current' \in [Jobs -> Drivers \cup {NoDriver}]
    BY <1>1, <2>1
  <2>3. made' \in [Jobs -> 0..(NumStatements + 1)] /\ position' \in [Jobs -> 0..NumStatements]
    BY <1>1, <2>1
  <2>4. open' \in [Jobs -> SUBSET Drivers] /\ ranOn' \in [Jobs -> SUBSET Drivers]
    BY <1>1, <2>1
  <2>. QED  BY <2>2, <2>3, <2>4
<1>5. Control(j)' /\ Reporting(j)'
  BY <1>1 DEF RunnerType, JobInv, Control, Reporting, Hiving
<1>6. Statements(j)' /\ Creation(j)'
  BY <1>1 DEF RunnerType, HiveType, JobInv, Statements, Creation, partitionVars, hiveVars
<1>7. Handle(j)'
  BY <1>1 DEF RunnerType, HiveType, JobInv, Handle, Statements, hiveVars
<1>8. ASSUME NEW k \in Jobs \ {j} PROVE SameJob(k)
  BY <1>1 DEF SameJob, RunnerType, HiveType, PartitionType, partitionVars, hiveVars
<1>. QED  BY <1>2, <1>3, <1>4, <1>5, <1>6, <1>7, <1>8, TypesNext DEF StepOf, JobInv

LEMMA NextStatementInv == ASSUME Inv, NEW j \in Jobs, NextStatement(j) PROVE StepOf(j)
<1>. USE DEF NextStatement, unchangedByHive, runnerVars, Executing, Goes, Finally
<1>1. RunnerType /\ PoolType /\ HiveType /\ PartitionType /\ DataType /\ JobInv(j)
  BY Types DEF Inv
<1>2. PoolType' /\ PartitionType' /\ DataType'
  BY <1>1, PoolFrame, PartitionFrame, DataFrame
<1>3. RunnerType'
  <2>1. thread' \in [Jobs -> Threads]
    BY <1>1 DEF RunnerType, Threads
  <2>2. result' \in [Jobs -> Outcomes \cup {"none"}]
    BY <1>1 DEF RunnerType
  <2>3. UNCHANGED <<kind, runner, reports, report, abort, closing>>
    OBVIOUS
  <2>. QED  BY <1>1, <2>1, <2>2, <2>3 DEF RunnerType
<1>4. HiveType'
  <2>. USE DEF HiveType, hiveVars
  <2>1. /\ made[j] \in 0..(NumStatements + 1) /\ position[j] \in 0..NumStatements
        /\ made[j] <= position[j] + 1
        /\ thread[j] = "build" => made[j] + 1 \in Drivers
        /\ thread[j] \in {"execute", "executing"} => current[j] \in Drivers
    BY <1>1 DEF JobInv, Statements
  <2>2. inner' \in [Jobs -> Drivers \cup {NoDriver}] /\ current' \in [Jobs -> Drivers \cup {NoDriver}]
    BY <1>1, <2>1
  <2>3. made' \in [Jobs -> 0..(NumStatements + 1)] /\ position' \in [Jobs -> 0..NumStatements]
    BY <1>1, <2>1
  <2>4. open' \in [Jobs -> SUBSET Drivers] /\ ranOn' \in [Jobs -> SUBSET Drivers]
    BY <1>1, <2>1
  <2>. QED  BY <2>2, <2>3, <2>4
<1>5. Control(j)' /\ Reporting(j)'
  BY <1>1 DEF RunnerType, JobInv, Control, Reporting, Hiving
<1>6. Statements(j)' /\ Creation(j)'
  BY <1>1 DEF RunnerType, HiveType, JobInv, Statements, Creation, partitionVars, hiveVars
<1>7. Handle(j)'
  BY <1>1 DEF RunnerType, HiveType, JobInv, Handle, Statements, hiveVars
<1>8. ASSUME NEW k \in Jobs \ {j} PROVE SameJob(k)
  BY <1>1 DEF SameJob, RunnerType, HiveType, PartitionType, partitionVars, hiveVars
<1>. QED  BY <1>2, <1>3, <1>4, <1>5, <1>6, <1>7, <1>8, TypesNext DEF StepOf, JobInv

LEMMA StatementStartsInv == ASSUME Inv, NEW j \in Jobs, StatementStarts(j) PROVE StepOf(j)
<1>. USE DEF StatementStarts, unchangedByHive, runnerVars, Executing, Goes, Finally
<1>1. RunnerType /\ PoolType /\ HiveType /\ PartitionType /\ DataType /\ JobInv(j)
  BY Types DEF Inv
<1>2. PoolType' /\ PartitionType' /\ DataType'
  BY <1>1, PoolFrame, PartitionFrame, DataFrame
<1>3. RunnerType'
  <2>1. thread' \in [Jobs -> Threads]
    BY <1>1 DEF RunnerType, Threads
  <2>2. result' \in [Jobs -> Outcomes \cup {"none"}]
    BY <1>1 DEF RunnerType
  <2>3. UNCHANGED <<kind, runner, reports, report, abort, closing>>
    OBVIOUS
  <2>. QED  BY <1>1, <2>1, <2>2, <2>3 DEF RunnerType
<1>4. HiveType'
  <2>. USE DEF HiveType, hiveVars
  <2>1. /\ made[j] \in 0..(NumStatements + 1) /\ position[j] \in 0..NumStatements
        /\ made[j] <= position[j] + 1
        /\ thread[j] = "build" => made[j] + 1 \in Drivers
        /\ thread[j] \in {"execute", "executing"} => current[j] \in Drivers
    BY <1>1 DEF JobInv, Statements
  <2>2. inner' \in [Jobs -> Drivers \cup {NoDriver}] /\ current' \in [Jobs -> Drivers \cup {NoDriver}]
    BY <1>1, <2>1
  <2>3. made' \in [Jobs -> 0..(NumStatements + 1)] /\ position' \in [Jobs -> 0..NumStatements]
    BY <1>1, <2>1
  <2>4. open' \in [Jobs -> SUBSET Drivers] /\ ranOn' \in [Jobs -> SUBSET Drivers]
    BY <1>1, <2>1
  <2>. QED  BY <2>2, <2>3, <2>4
<1>5. Control(j)' /\ Reporting(j)'
  BY <1>1 DEF RunnerType, JobInv, Control, Reporting, Hiving
<1>6. Statements(j)' /\ Creation(j)'
  BY <1>1 DEF RunnerType, HiveType, JobInv, Statements, Creation, partitionVars, hiveVars
<1>7. Handle(j)'
  BY <1>1 DEF RunnerType, HiveType, JobInv, Handle, Statements, hiveVars
<1>8. ASSUME NEW k \in Jobs \ {j} PROVE SameJob(k)
  BY <1>1 DEF SameJob, RunnerType, HiveType, PartitionType, partitionVars, hiveVars
<1>. QED  BY <1>2, <1>3, <1>4, <1>5, <1>6, <1>7, <1>8, TypesNext DEF StepOf, JobInv

LEMMA StatementEndsInv == ASSUME Inv, NEW j \in Jobs, StatementEnds(j) PROVE StepOf(j)
<1>. USE DEF StatementEnds, unchangedByHive, runnerVars, Executing, Goes, Finally
<1>1. RunnerType /\ PoolType /\ HiveType /\ PartitionType /\ DataType /\ JobInv(j)
  BY Types DEF Inv
<1>2. PoolType' /\ PartitionType' /\ DataType'
  BY <1>1, PoolFrame, PartitionFrame, DataFrame
<1>3. RunnerType'
  <2>1. thread' \in [Jobs -> Threads]
    BY <1>1 DEF RunnerType, Threads
  <2>2. result' \in [Jobs -> Outcomes \cup {"none"}]
    BY <1>1 DEF RunnerType
  <2>3. UNCHANGED <<kind, runner, reports, report, abort, closing>>
    OBVIOUS
  <2>. QED  BY <1>1, <2>1, <2>2, <2>3 DEF RunnerType
<1>4. HiveType'
  <2>. USE DEF HiveType, hiveVars
  <2>1. /\ made[j] \in 0..(NumStatements + 1) /\ position[j] \in 0..NumStatements
        /\ made[j] <= position[j] + 1
        /\ thread[j] = "build" => made[j] + 1 \in Drivers
        /\ thread[j] \in {"execute", "executing"} => current[j] \in Drivers
    BY <1>1 DEF JobInv, Statements
  <2>2. inner' \in [Jobs -> Drivers \cup {NoDriver}] /\ current' \in [Jobs -> Drivers \cup {NoDriver}]
    BY <1>1, <2>1
  <2>3. made' \in [Jobs -> 0..(NumStatements + 1)] /\ position' \in [Jobs -> 0..NumStatements]
    BY <1>1, <2>1
  <2>4. open' \in [Jobs -> SUBSET Drivers] /\ ranOn' \in [Jobs -> SUBSET Drivers]
    BY <1>1, <2>1
  <2>. QED  BY <2>2, <2>3, <2>4
<1>5. Control(j)' /\ Reporting(j)'
  BY <1>1 DEF RunnerType, JobInv, Control, Reporting, Hiving
<1>6. Statements(j)' /\ Creation(j)'
  BY <1>1 DEF RunnerType, HiveType, JobInv, Statements, Creation, partitionVars, hiveVars
<1>7. Handle(j)'
  BY <1>1 DEF RunnerType, HiveType, JobInv, Handle, Statements, hiveVars
<1>8. ASSUME NEW k \in Jobs \ {j} PROVE SameJob(k)
  BY <1>1 DEF SameJob, RunnerType, HiveType, PartitionType, partitionVars, hiveVars
<1>. QED  BY <1>2, <1>3, <1>4, <1>5, <1>6, <1>7, <1>8, TypesNext DEF StepOf, JobInv

LEMMA ReleasedByJobInv == ASSUME Inv, NEW j \in Jobs, ReleasedByJob(j) PROVE StepOf(j)
<1>. USE DEF ReleasedByJob, unchangedByHive, runnerVars, Executing, Release, AfterRelease
<1>1. RunnerType /\ PoolType /\ HiveType /\ PartitionType /\ DataType /\ JobInv(j)
  BY Types DEF Inv
<1>2. PoolType' /\ PartitionType' /\ DataType'
  BY <1>1, PoolFrame, PartitionFrame, DataFrame
<1>3. RunnerType'
  <2>1. thread' \in [Jobs -> Threads]
    BY <1>1 DEF RunnerType, Threads
  <2>2. result' \in [Jobs -> Outcomes \cup {"none"}]
    BY <1>1 DEF RunnerType
  <2>3. UNCHANGED <<kind, runner, reports, report, abort, closing>>
    OBVIOUS
  <2>. QED  BY <1>1, <2>1, <2>2, <2>3 DEF RunnerType
<1>4. HiveType'
  <2>. USE DEF HiveType, hiveVars
  <2>1. /\ made[j] \in 0..(NumStatements + 1) /\ position[j] \in 0..NumStatements
        /\ made[j] <= position[j] + 1
        /\ thread[j] = "build" => made[j] + 1 \in Drivers
        /\ thread[j] \in {"execute", "executing"} => current[j] \in Drivers
    BY <1>1 DEF JobInv, Statements
  <2>2. inner' \in [Jobs -> Drivers \cup {NoDriver}] /\ current' \in [Jobs -> Drivers \cup {NoDriver}]
    BY <1>1, <2>1
  <2>3. made' \in [Jobs -> 0..(NumStatements + 1)] /\ position' \in [Jobs -> 0..NumStatements]
    BY <1>1, <2>1
  <2>4. open' \in [Jobs -> SUBSET Drivers] /\ ranOn' \in [Jobs -> SUBSET Drivers]
    BY <1>1, <2>1
  <2>. QED  BY <2>2, <2>3, <2>4
<1>5. Control(j)' /\ Reporting(j)'
  BY <1>1 DEF RunnerType, JobInv, Control, Reporting, Hiving
<1>6. Statements(j)' /\ Creation(j)'
  BY <1>1 DEF RunnerType, HiveType, JobInv, Statements, Creation, partitionVars, hiveVars
<1>7. Handle(j)'
  BY <1>1 DEF RunnerType, HiveType, JobInv, Handle, Statements, hiveVars
<1>8. ASSUME NEW k \in Jobs \ {j} PROVE SameJob(k)
  BY <1>1 DEF SameJob, RunnerType, HiveType, PartitionType, partitionVars, hiveVars
<1>. QED  BY <1>2, <1>3, <1>4, <1>5, <1>6, <1>7, <1>8, TypesNext DEF StepOf, JobInv

-----------------------------------------------------------------------------
LEMMA CopyType ==
  /\ NoCopy \notin Copies
  /\ \A p \in Partitions : CopyOf(p) \in Copies
  /\ \A c \in Copies : c.partition \in Partitions /\ [c EXCEPT !.marked = TRUE] \in Copies
  BY DEF CopyOf, Copies

LEMMA SetWitnessInv == ASSUME Inv, NEW j \in Jobs, SetWitness(j) PROVE StepOf(j)
<1>. USE DEF SetWitness, Creating, Ends, Continues, unchangedByPartition, runnerVars, Mark
<1>1. RunnerType /\ PoolType /\ HiveType /\ PartitionType /\ DataType /\ JobInv(j)
  BY Types DEF Inv
<1>2. PoolType' /\ HiveType' /\ DataType'
  BY <1>1, PoolFrame, HiveFrame, DataFrame
<1>3. RunnerType'
  <2>1. thread' \in [Jobs -> Threads]
    BY <1>1 DEF RunnerType, Threads
  <2>2. result' \in [Jobs -> Outcomes \cup {"none"}]
    BY <1>1 DEF RunnerType
  <2>3. UNCHANGED <<kind, runner, reports, report, abort, closing>>
    OBVIOUS
  <2>. QED  BY <1>1, <2>1, <2>2, <2>3 DEF RunnerType
<1>4. PartitionType'
  <2>. USE DEF PartitionType
  <2>1. Satisfier[j] \in Satisfiers /\ Witness[j] \in Partitions
    OBVIOUS
  <2>2. /\ thread[j] \in {"add", "again"} => w[Satisfier[j]] \in Partitions
        /\ thread[j] \in {"alter", "mark"} => copy[j] \in Copies
    BY <1>1, <2>1 DEF JobInv, Creation
  <2>3. w' \in [Satisfiers -> Partitions \cup {NoPartition}]
    BY <1>1, <2>1
  <2>4. copy' \in [Jobs -> Copies \cup {NoCopy}]
    BY <1>1, <2>1, <2>2, CopyType
  <2>5. table' \in [Partitions -> {"absent", "unmarked", "marked"}]
    BY <1>1, <2>2 DEF Copies
  <2>. QED  BY <2>3, <2>4, <2>5
<1>5. Control(j)' /\ Reporting(j)'
  <2>1. Control(j)'
    BY <1>1 DEF RunnerType, JobInv, Control, Hiving
  <2>2. Reporting(j)'
    BY <1>1 DEF RunnerType, JobInv, Reporting, Control
  <2>. QED  BY <2>1, <2>2
<1>6. Statements(j)' /\ Creation(j)'
  <2>1. Statements(j)'
    BY <1>1 DEF RunnerType, JobInv, Statements, Control, hiveVars
  <2>2. Satisfier[j] \in Satisfiers /\ Witness[j] \in Partitions
    OBVIOUS
  <2>3. Creation(j)'
    BY <1>1, <2>2, CopyType DEF RunnerType, PartitionType, JobInv, Creation
  <2>. QED  BY <2>1, <2>3
<1>7. Handle(j)'
  BY <1>1 DEF RunnerType, HiveType, JobInv, Handle, Statements, Control, hiveVars
<1>8. ASSUME NEW k \in Jobs \ {j} PROVE SameJob(k)
  BY <1>1 DEF SameJob, RunnerType, HiveType, PartitionType, partitionVars, hiveVars
<1>. QED  BY <1>2, <1>3, <1>4, <1>5, <1>6, <1>7, <1>8, TypesNext DEF StepOf, JobInv

LEMMA AddPartitionInv == ASSUME Inv, NEW j \in Jobs, AddPartition(j) PROVE StepOf(j)
<1>. USE DEF AddPartition, Creating, Ends, Continues, unchangedByPartition, runnerVars, Mark
<1>1. RunnerType /\ PoolType /\ HiveType /\ PartitionType /\ DataType /\ JobInv(j)
  BY Types DEF Inv
<1>2. PoolType' /\ HiveType' /\ DataType'
  BY <1>1, PoolFrame, HiveFrame, DataFrame
<1>3. RunnerType'
  <2>1. thread' \in [Jobs -> Threads]
    BY <1>1 DEF RunnerType, Threads
  <2>2. result' \in [Jobs -> Outcomes \cup {"none"}]
    BY <1>1 DEF RunnerType
  <2>3. UNCHANGED <<kind, runner, reports, report, abort, closing>>
    OBVIOUS
  <2>. QED  BY <1>1, <2>1, <2>2, <2>3 DEF RunnerType
<1>4. PartitionType'
  <2>. USE DEF PartitionType
  <2>1. Satisfier[j] \in Satisfiers /\ Witness[j] \in Partitions
    OBVIOUS
  <2>2. /\ thread[j] \in {"add", "again"} => w[Satisfier[j]] \in Partitions
        /\ thread[j] \in {"alter", "mark"} => copy[j] \in Copies
    BY <1>1, <2>1 DEF JobInv, Creation
  <2>3. w' \in [Satisfiers -> Partitions \cup {NoPartition}]
    BY <1>1, <2>1
  <2>4. copy' \in [Jobs -> Copies \cup {NoCopy}]
    BY <1>1, <2>1, <2>2, CopyType
  <2>5. table' \in [Partitions -> {"absent", "unmarked", "marked"}]
    BY <1>1, <2>2 DEF Copies
  <2>. QED  BY <2>3, <2>4, <2>5
<1>5. Control(j)' /\ Reporting(j)'
  <2>1. Control(j)'
    BY <1>1 DEF RunnerType, JobInv, Control, Hiving
  <2>2. Reporting(j)'
    BY <1>1 DEF RunnerType, JobInv, Reporting, Control
  <2>. QED  BY <2>1, <2>2
<1>6. Statements(j)' /\ Creation(j)'
  <2>1. Statements(j)'
    BY <1>1 DEF RunnerType, JobInv, Statements, Control, hiveVars
  <2>2. Satisfier[j] \in Satisfiers /\ Witness[j] \in Partitions
    OBVIOUS
  <2>3. Creation(j)'
    BY <1>1, <2>2, CopyType DEF RunnerType, PartitionType, JobInv, Creation
  <2>. QED  BY <2>1, <2>3
<1>7. Handle(j)'
  BY <1>1 DEF RunnerType, HiveType, JobInv, Handle, Statements, Control, hiveVars
<1>8. ASSUME NEW k \in Jobs \ {j} PROVE SameJob(k)
  BY <1>1 DEF SameJob, RunnerType, HiveType, PartitionType, partitionVars, hiveVars
<1>. QED  BY <1>2, <1>3, <1>4, <1>5, <1>6, <1>7, <1>8, TypesNext DEF StepOf, JobInv

LEMMA GetPartitionInv == ASSUME Inv, NEW j \in Jobs, GetPartition(j) PROVE StepOf(j)
<1>. USE DEF GetPartition, Creating, Ends, Continues, unchangedByPartition, runnerVars, Mark
<1>1. RunnerType /\ PoolType /\ HiveType /\ PartitionType /\ DataType /\ JobInv(j)
  BY Types DEF Inv
<1>2. PoolType' /\ HiveType' /\ DataType'
  BY <1>1, PoolFrame, HiveFrame, DataFrame
<1>3. RunnerType'
  <2>1. thread' \in [Jobs -> Threads]
    BY <1>1 DEF RunnerType, Threads
  <2>2. result' \in [Jobs -> Outcomes \cup {"none"}]
    BY <1>1 DEF RunnerType
  <2>3. UNCHANGED <<kind, runner, reports, report, abort, closing>>
    OBVIOUS
  <2>. QED  BY <1>1, <2>1, <2>2, <2>3 DEF RunnerType
<1>4. PartitionType'
  <2>. USE DEF PartitionType
  <2>1. Satisfier[j] \in Satisfiers /\ Witness[j] \in Partitions
    OBVIOUS
  <2>2. /\ thread[j] \in {"add", "again"} => w[Satisfier[j]] \in Partitions
        /\ thread[j] \in {"alter", "mark"} => copy[j] \in Copies
    BY <1>1, <2>1 DEF JobInv, Creation
  <2>3. w' \in [Satisfiers -> Partitions \cup {NoPartition}]
    BY <1>1, <2>1
  <2>4. copy' \in [Jobs -> Copies \cup {NoCopy}]
    BY <1>1, <2>1, <2>2, CopyType
  <2>5. table' \in [Partitions -> {"absent", "unmarked", "marked"}]
    BY <1>1, <2>2 DEF Copies
  <2>. QED  BY <2>3, <2>4, <2>5
<1>5. Control(j)' /\ Reporting(j)'
  <2>1. Control(j)'
    BY <1>1 DEF RunnerType, JobInv, Control, Hiving
  <2>2. Reporting(j)'
    BY <1>1 DEF RunnerType, JobInv, Reporting, Control
  <2>. QED  BY <2>1, <2>2
<1>6. Statements(j)' /\ Creation(j)'
  <2>1. Statements(j)'
    BY <1>1 DEF RunnerType, JobInv, Statements, Control, hiveVars
  <2>2. Satisfier[j] \in Satisfiers /\ Witness[j] \in Partitions
    OBVIOUS
  <2>3. Creation(j)'
    BY <1>1, <2>2, CopyType DEF RunnerType, PartitionType, JobInv, Creation
  <2>. QED  BY <2>1, <2>3
<1>7. Handle(j)'
  BY <1>1 DEF RunnerType, HiveType, JobInv, Handle, Statements, Control, hiveVars
<1>8. ASSUME NEW k \in Jobs \ {j} PROVE SameJob(k)
  BY <1>1 DEF SameJob, RunnerType, HiveType, PartitionType, partitionVars, hiveVars
<1>. QED  BY <1>2, <1>3, <1>4, <1>5, <1>6, <1>7, <1>8, TypesNext DEF StepOf, JobInv

LEMMA AlterPartitionInv == ASSUME Inv, NEW j \in Jobs, AlterPartition(j) PROVE StepOf(j)
<1>. USE DEF AlterPartition, Creating, Ends, Continues, unchangedByPartition, runnerVars, Mark
<1>1. RunnerType /\ PoolType /\ HiveType /\ PartitionType /\ DataType /\ JobInv(j)
  BY Types DEF Inv
<1>2. PoolType' /\ HiveType' /\ DataType'
  BY <1>1, PoolFrame, HiveFrame, DataFrame
<1>3. RunnerType'
  <2>1. thread' \in [Jobs -> Threads]
    BY <1>1 DEF RunnerType, Threads
  <2>2. result' \in [Jobs -> Outcomes \cup {"none"}]
    BY <1>1 DEF RunnerType
  <2>3. UNCHANGED <<kind, runner, reports, report, abort, closing>>
    OBVIOUS
  <2>. QED  BY <1>1, <2>1, <2>2, <2>3 DEF RunnerType
<1>4. PartitionType'
  <2>. USE DEF PartitionType
  <2>1. Satisfier[j] \in Satisfiers /\ Witness[j] \in Partitions
    OBVIOUS
  <2>2. /\ thread[j] \in {"add", "again"} => w[Satisfier[j]] \in Partitions
        /\ thread[j] \in {"alter", "mark"} => copy[j] \in Copies
    BY <1>1, <2>1 DEF JobInv, Creation
  <2>3. w' \in [Satisfiers -> Partitions \cup {NoPartition}]
    BY <1>1, <2>1
  <2>4. copy' \in [Jobs -> Copies \cup {NoCopy}]
    BY <1>1, <2>1, <2>2, CopyType
  <2>5. table' \in [Partitions -> {"absent", "unmarked", "marked"}]
    BY <1>1, <2>2 DEF Copies
  <2>. QED  BY <2>3, <2>4, <2>5
<1>5. Control(j)' /\ Reporting(j)'
  <2>1. Control(j)'
    BY <1>1 DEF RunnerType, JobInv, Control, Hiving
  <2>2. Reporting(j)'
    BY <1>1 DEF RunnerType, JobInv, Reporting, Control
  <2>. QED  BY <2>1, <2>2
<1>6. Statements(j)' /\ Creation(j)'
  <2>1. Statements(j)'
    BY <1>1 DEF RunnerType, JobInv, Statements, Control, hiveVars
  <2>2. Satisfier[j] \in Satisfiers /\ Witness[j] \in Partitions
    OBVIOUS
  <2>3. Creation(j)'
    BY <1>1, <2>2, CopyType DEF RunnerType, PartitionType, JobInv, Creation
  <2>. QED  BY <2>1, <2>3
<1>7. Handle(j)'
  BY <1>1 DEF RunnerType, HiveType, JobInv, Handle, Statements, Control, hiveVars
<1>8. ASSUME NEW k \in Jobs \ {j} PROVE SameJob(k)
  BY <1>1 DEF SameJob, RunnerType, HiveType, PartitionType, partitionVars, hiveVars
<1>. QED  BY <1>2, <1>3, <1>4, <1>5, <1>6, <1>7, <1>8, TypesNext DEF StepOf, JobInv

LEMMA MarkCompletedInv == ASSUME Inv, NEW j \in Jobs, MarkCompleted(j) PROVE StepOf(j)
<1>. USE DEF MarkCompleted, Creating, Ends, Continues, unchangedByPartition, runnerVars, Mark
<1>1. RunnerType /\ PoolType /\ HiveType /\ PartitionType /\ DataType /\ JobInv(j)
  BY Types DEF Inv
<1>2. PoolType' /\ HiveType' /\ DataType'
  BY <1>1, PoolFrame, HiveFrame, DataFrame
<1>3. RunnerType'
  <2>1. thread' \in [Jobs -> Threads]
    BY <1>1 DEF RunnerType, Threads
  <2>2. result' \in [Jobs -> Outcomes \cup {"none"}]
    BY <1>1 DEF RunnerType
  <2>3. UNCHANGED <<kind, runner, reports, report, abort, closing>>
    OBVIOUS
  <2>. QED  BY <1>1, <2>1, <2>2, <2>3 DEF RunnerType
<1>4. PartitionType'
  <2>. USE DEF PartitionType
  <2>1. Satisfier[j] \in Satisfiers /\ Witness[j] \in Partitions
    OBVIOUS
  <2>2. /\ thread[j] \in {"add", "again"} => w[Satisfier[j]] \in Partitions
        /\ thread[j] \in {"alter", "mark"} => copy[j] \in Copies
    BY <1>1, <2>1 DEF JobInv, Creation
  <2>3. w' \in [Satisfiers -> Partitions \cup {NoPartition}]
    BY <1>1, <2>1
  <2>4. copy' \in [Jobs -> Copies \cup {NoCopy}]
    BY <1>1, <2>1, <2>2, CopyType
  <2>5. table' \in [Partitions -> {"absent", "unmarked", "marked"}]
    BY <1>1, <2>2 DEF Copies
  <2>. QED  BY <2>3, <2>4, <2>5
<1>5. Control(j)' /\ Reporting(j)'
  <2>1. Control(j)'
    BY <1>1 DEF RunnerType, JobInv, Control, Hiving
  <2>2. Reporting(j)'
    BY <1>1 DEF RunnerType, JobInv, Reporting, Control
  <2>. QED  BY <2>1, <2>2
<1>6. Statements(j)' /\ Creation(j)'
  <2>1. Statements(j)'
    BY <1>1 DEF RunnerType, JobInv, Statements, Control, hiveVars
  <2>2. Satisfier[j] \in Satisfiers /\ Witness[j] \in Partitions
    OBVIOUS
  <2>3. Creation(j)'
    BY <1>1, <2>2, CopyType DEF RunnerType, PartitionType, JobInv, Creation
  <2>. QED  BY <2>1, <2>3
<1>7. Handle(j)'
  BY <1>1 DEF RunnerType, HiveType, JobInv, Handle, Statements, Control, hiveVars
<1>8. ASSUME NEW k \in Jobs \ {j} PROVE SameJob(k)
  BY <1>1 DEF SameJob, RunnerType, HiveType, PartitionType, partitionVars, hiveVars
<1>. QED  BY <1>2, <1>3, <1>4, <1>5, <1>6, <1>7, <1>8, TypesNext DEF StepOf, JobInv

-----------------------------------------------------------------------------
LEMMA AppendType ==
  \A s \in Seq(Outcomes), o \in Outcomes : Append(s, o) \in Seq(Outcomes)
  OBVIOUS

LEMMA ExecuteType == ASSUME PoolType, NEW t \in Tasks, Execute(t) PROVE PoolType'
  BY DEF PoolType, Execute, Refuses, QueueFull

LEMMA RejectType == ASSUME PoolType, NEW t \in Tasks, Reject(t) PROVE PoolType'
  BY DEF PoolType, Reject

LEMMA BeginsCheckInv == ASSUME Inv, NEW j \in Jobs, BeginsCheck(j) PROVE StepOf(j)
<1>. USE DEF BeginsCheck, unchangedByData, runnerVars, hiveVars, partitionVars
<1>1. RunnerType /\ PoolType /\ HiveType /\ PartitionType /\ DataType /\ JobInv(j)
  BY Types DEF Inv
<1>2. HiveType'
  BY <1>1, HiveFrame
<1>3. PartitionType'
  BY <1>1, PartitionFrame
<1>4. DataType'
  BY <1>1 DEF DataType
<1>5. PoolType'
  BY <1>1, PoolFrame
<1>6. RunnerType'
  <2>. USE DEF RunnerType
  <2>1. thread' \in [Jobs -> Threads]
    BY <1>1 DEF Threads
  <2>2. runner' \in [Jobs -> {"none", "running", "failed", "stopped"}]
    BY <1>1
  <2>5. result' \in [Jobs -> Outcomes \cup {"none"}]
    BY <1>1
  <2>3. reports' \in [Jobs -> Seq(Outcomes)]
    BY <1>1, AppendType
  <2>4. /\ report' \in [Jobs -> {"none", "results", "stop", "ended"} \cup ReleasePoints]
        /\ abort' \in [Jobs -> {"none", "aborting", "marking", "finishing", "done"}]
        /\ closing' \in [Jobs -> ReleasePoints]
    BY <1>1
  <2>. QED  BY <1>1, <2>1, <2>2, <2>3, <2>4, <2>5
<1>7. Control(j)'
  BY <1>1 DEF RunnerType, JobInv, Control, Hiving
<1>8. Reporting(j)'
  BY <1>1 DEF RunnerType, JobInv, Reporting, Control
<1>9. Statements(j)' /\ Creation(j)'
  BY <1>1 DEF RunnerType, JobInv, Statements, Creation, Control
<1>10. Handle(j)'
  BY <1>1 DEF RunnerType, HiveType, JobInv, Handle, Control
<1>11. ASSUME NEW k \in Jobs \ {j} PROVE SameJob(k)
  BY <1>1 DEF SameJob, RunnerType, HiveType, PartitionType
<1>. QED
  BY <1>2, <1>3, <1>4, <1>5, <1>6, <1>7, <1>8, <1>9, <1>10, <1>11, TypesNext DEF StepOf, JobInv

LEMMA ChecksOneInv == ASSUME Inv, NEW j \in Jobs, NEW e \in Evidence, ChecksOne(j, e) PROVE StepOf(j)
<1>. USE DEF ChecksOne, unchangedByData, runnerVars, hiveVars, partitionVars
<1>1. RunnerType /\ PoolType /\ HiveType /\ PartitionType /\ DataType /\ JobInv(j)
  BY Types DEF Inv
<1>2. HiveType'
  BY <1>1, HiveFrame
<1>3. PartitionType'
  BY <1>1, PartitionFrame
<1>4. DataType'
  BY <1>1 DEF DataType
<1>5. PoolType'
  BY <1>1, PoolFrame
<1>6. RunnerType'
  <2>. USE DEF RunnerType
  <2>1. thread' \in [Jobs -> Threads]
    BY <1>1 DEF Threads
  <2>2. runner' \in [Jobs -> {"none", "running", "failed", "stopped"}]
    BY <1>1
  <2>5. result' \in [Jobs -> Outcomes \cup {"none"}]
    BY <1>1
  <2>3. reports' \in [Jobs -> Seq(Outcomes)]
    BY <1>1, AppendType
  <2>4. /\ report' \in [Jobs -> {"none", "results", "stop", "ended"} \cup ReleasePoints]
        /\ abort' \in [Jobs -> {"none", "aborting", "marking", "finishing", "done"}]
        /\ closing' \in [Jobs -> ReleasePoints]
    BY <1>1
  <2>. QED  BY <1>1, <2>1, <2>2, <2>3, <2>4, <2>5
<1>7. Control(j)'
  BY <1>1 DEF RunnerType, JobInv, Control, Hiving
<1>8. Reporting(j)'
  BY <1>1 DEF RunnerType, JobInv, Reporting, Control
<1>9. Statements(j)' /\ Creation(j)'
  BY <1>1 DEF RunnerType, JobInv, Statements, Creation, Control
<1>10. Handle(j)'
  BY <1>1 DEF RunnerType, HiveType, JobInv, Handle, Control
<1>11. ASSUME NEW k \in Jobs \ {j} PROVE SameJob(k)
  BY <1>1 DEF SameJob, RunnerType, HiveType, PartitionType
<1>. QED
  BY <1>2, <1>3, <1>4, <1>5, <1>6, <1>7, <1>8, <1>9, <1>10, <1>11, TypesNext DEF StepOf, JobInv

LEMMA EndsCheckInv == ASSUME Inv, NEW j \in Jobs, EndsCheck(j) PROVE StepOf(j)
<1>. USE DEF EndsCheck, unchangedByData, runnerVars, hiveVars, partitionVars
<1>1. RunnerType /\ PoolType /\ HiveType /\ PartitionType /\ DataType /\ JobInv(j)
  BY Types DEF Inv
<1>2. HiveType'
  BY <1>1, HiveFrame
<1>3. PartitionType'
  BY <1>1, PartitionFrame
<1>4. DataType'
  BY <1>1 DEF DataType
<1>5. PoolType'
  BY <1>1, PoolFrame
<1>6. RunnerType'
  <2>. USE DEF RunnerType
  <2>1. thread' \in [Jobs -> Threads]
    BY <1>1 DEF Threads
  <2>2. runner' \in [Jobs -> {"none", "running", "failed", "stopped"}]
    BY <1>1
  <2>5. result' \in [Jobs -> Outcomes \cup {"none"}]
    BY <1>1
  <2>3. reports' \in [Jobs -> Seq(Outcomes)]
    <3>1. Append(reports[j], "success") \in Seq(Outcomes)
      BY <1>1, AppendType
    <3>2. reports' = [reports EXCEPT ![j] = Append(@, "success")] \/ reports' = reports
      OBVIOUS
    <3>. QED  BY <1>1, <3>1, <3>2
  <2>4. /\ report' \in [Jobs -> {"none", "results", "stop", "ended"} \cup ReleasePoints]
        /\ abort' \in [Jobs -> {"none", "aborting", "marking", "finishing", "done"}]
        /\ closing' \in [Jobs -> ReleasePoints]
    BY <1>1
  <2>. QED  BY <1>1, <2>1, <2>2, <2>3, <2>4, <2>5
<1>7. Control(j)'
  BY <1>1 DEF RunnerType, JobInv, Control, Hiving
<1>8. Reporting(j)'
  BY <1>1 DEF RunnerType, JobInv, Reporting, Control
<1>9. Statements(j)' /\ Creation(j)'
  BY <1>1 DEF RunnerType, JobInv, Statements, Creation, Control
<1>10. Handle(j)'
  BY <1>1 DEF RunnerType, HiveType, JobInv, Handle, Control
<1>11. ASSUME NEW k \in Jobs \ {j} PROVE SameJob(k)
  BY <1>1 DEF SameJob, RunnerType, HiveType, PartitionType
<1>. QED
  BY <1>2, <1>3, <1>4, <1>5, <1>6, <1>7, <1>8, <1>9, <1>10, <1>11, TypesNext DEF StepOf, JobInv

LEMMA DataChangesInv == ASSUME Inv, NEW j \in Jobs, NEW e \in Evidence, DataChanges(j, e) PROVE StepOf(j)
<1>. USE DEF DataChanges, unchangedByData, runnerVars, hiveVars, partitionVars
<1>1. RunnerType /\ PoolType /\ HiveType /\ PartitionType /\ DataType /\ JobInv(j)
  BY Types DEF Inv
<1>2. HiveType'
  BY <1>1, HiveFrame
<1>3. PartitionType'
  BY <1>1, PartitionFrame
<1>4. DataType'
  BY <1>1 DEF DataType
<1>5. PoolType'
  BY <1>1, PoolFrame
<1>6. RunnerType'
  <2>. USE DEF RunnerType
  <2>1. thread' \in [Jobs -> Threads]
    BY <1>1 DEF Threads
  <2>2. runner' \in [Jobs -> {"none", "running", "failed", "stopped"}]
    BY <1>1
  <2>5. result' \in [Jobs -> Outcomes \cup {"none"}]
    BY <1>1
  <2>3. reports' \in [Jobs -> Seq(Outcomes)]
    BY <1>1, AppendType
  <2>4. /\ report' \in [Jobs -> {"none", "results", "stop", "ended"} \cup ReleasePoints]
        /\ abort' \in [Jobs -> {"none", "aborting", "marking", "finishing", "done"}]
        /\ closing' \in [Jobs -> ReleasePoints]
    BY <1>1
  <2>. QED  BY <1>1, <2>1, <2>2, <2>3, <2>4, <2>5
<1>7. Control(j)'
  BY <1>1 DEF RunnerType, JobInv, Control, Hiving
<1>8. Reporting(j)'
  BY <1>1 DEF RunnerType, JobInv, Reporting, Control
<1>9. Statements(j)' /\ Creation(j)'
  BY <1>1 DEF RunnerType, JobInv, Statements, Creation, Control
<1>10. Handle(j)'
  BY <1>1 DEF RunnerType, HiveType, JobInv, Handle, Control
<1>11. ASSUME NEW k \in Jobs \ {j} PROVE SameJob(k)
  BY <1>1 DEF SameJob, RunnerType, HiveType, PartitionType
<1>. QED
  BY <1>2, <1>3, <1>4, <1>5, <1>6, <1>7, <1>8, <1>9, <1>10, <1>11, TypesNext DEF StepOf, JobInv

LEMMA RunnerSatisfyInv == ASSUME Inv, NEW j \in Jobs, RunnerSatisfy(j) PROVE StepOf(j)
<1>. USE DEF RunnerSatisfy, runnerVars, hiveVars, partitionVars, dataAndSatisfiers
<1>1. RunnerType /\ PoolType /\ HiveType /\ PartitionType /\ DataType /\ JobInv(j)
  BY Types DEF Inv
<1>2. HiveType'
  BY <1>1, HiveFrame
<1>3. PartitionType'
  BY <1>1, PartitionFrame
<1>4. DataType'
  BY <1>1, DataFrame
<1>5. PoolType'
  BY <1>1, ExecuteType, RejectType, PoolFrame, TaskNames
<1>6. RunnerType'
  <2>. USE DEF RunnerType
  <2>1. thread' \in [Jobs -> Threads]
    BY <1>1 DEF Threads
  <2>2. runner' \in [Jobs -> {"none", "running", "failed", "stopped"}]
    <3>1. runner' = [runner EXCEPT ![j] = "running"] \/ runner' = [runner EXCEPT ![j] = "failed"]
      OBVIOUS
    <3>. HIDE DEF RunnerSatisfy
    <3>. QED  BY <1>1, <3>1
  <2>5. result' \in [Jobs -> Outcomes \cup {"none"}]
    BY <1>1
  <2>3. reports' \in [Jobs -> Seq(Outcomes)]
    BY <1>1, AppendType
  <2>4. /\ report' \in [Jobs -> {"none", "results", "stop", "ended"} \cup ReleasePoints]
        /\ abort' \in [Jobs -> {"none", "aborting", "marking", "finishing", "done"}]
        /\ closing' \in [Jobs -> ReleasePoints]
    BY <1>1
  <2>. QED  BY <1>1, <2>1, <2>2, <2>3, <2>4, <2>5
<1>7. Control(j)'
  BY <1>1 DEF RunnerType, JobInv, Control, Hiving
<1>8. Reporting(j)'
  BY <1>1 DEF RunnerType, JobInv, Reporting, Control
<1>9. Statements(j)' /\ Creation(j)'
  BY <1>1 DEF RunnerType, JobInv, Statements, Creation, Control
<1>10. Handle(j)'
  BY <1>1 DEF RunnerType, HiveType, JobInv, Handle, Control
<1>11. ASSUME NEW k \in Jobs \ {j} PROVE SameJob(k)
  BY <1>1 DEF SameJob, RunnerType, HiveType, PartitionType
<1>. QED
  BY <1>2, <1>3, <1>4, <1>5, <1>6, <1>7, <1>8, <1>9, <1>10, <1>11, TypesNext DEF StepOf, JobInv

LEMMA OtherSatisfiesInv == ASSUME Inv, NEW j \in Jobs, OtherSatisfies(j) PROVE StepOf(j)
<1>. USE DEF OtherSatisfies, runnerVars, hiveVars, partitionVars, dataAndSatisfiers
<1>1. RunnerType /\ PoolType /\ HiveType /\ PartitionType /\ DataType /\ JobInv(j)
  BY Types DEF Inv
<1>2. HiveType'
  BY <1>1, HiveFrame
<1>3. PartitionType'
  BY <1>1, PartitionFrame
<1>4. DataType'
  BY <1>1, DataFrame
<1>5. PoolType'
  BY <1>1, PoolFrame
<1>6. RunnerType'
  <2>. USE DEF RunnerType
  <2>1. thread' \in [Jobs -> Threads]
    BY <1>1 DEF Threads
  <2>2. runner' \in [Jobs -> {"none", "running", "failed", "stopped"}]
    BY <1>1
  <2>5. result' \in [Jobs -> Outcomes \cup {"none"}]
    BY <1>1
  <2>3. reports' \in [Jobs -> Seq(Outcomes)]
    BY <1>1, AppendType
  <2>4. /\ report' \in [Jobs -> {"none", "results", "stop", "ended"} \cup ReleasePoints]
        /\ abort' \in [Jobs -> {"none", "aborting", "marking", "finishing", "done"}]
        /\ closing' \in [Jobs -> ReleasePoints]
    BY <1>1
  <2>. QED  BY <1>1, <2>1, <2>2, <2>3, <2>4, <2>5
<1>7. Control(j)'
  BY <1>1 DEF RunnerType, JobInv, Control, Hiving
<1>8. Reporting(j)'
  BY <1>1 DEF RunnerType, JobInv, Reporting, Control
<1>9. Statements(j)' /\ Creation(j)'
  BY <1>1 DEF RunnerType, JobInv, Statements, Creation, Control
<1>10. Handle(j)'
  BY <1>1 DEF RunnerType, HiveType, JobInv, Handle, Control
<1>11. ASSUME NEW k \in Jobs \ {j} PROVE SameJob(k)
  BY <1>1 DEF SameJob, RunnerType, HiveType, PartitionType
<1>. QED
  BY <1>2, <1>3, <1>4, <1>5, <1>6, <1>7, <1>8, <1>9, <1>10, <1>11, TypesNext DEF StepOf, JobInv

LEMMA JobCompletesInv == ASSUME Inv, NEW j \in Jobs, JobCompletes(j) PROVE StepOf(j)
<1>. USE DEF JobCompletes, runnerVars, hiveVars, partitionVars, dataAndSatisfiers
<1>1. RunnerType /\ PoolType /\ HiveType /\ PartitionType /\ DataType /\ JobInv(j)
  BY Types DEF Inv
<1>2. HiveType'
  BY <1>1, HiveFrame
<1>3. PartitionType'
  BY <1>1, PartitionFrame
<1>4. DataType'
  BY <1>1, DataFrame
<1>5. PoolType'
  BY <1>1, ExecuteType, RejectType, TaskNames
<1>6. RunnerType'
  <2>. USE DEF RunnerType
  <2>1. thread' \in [Jobs -> Threads]
    BY <1>1 DEF Threads
  <2>2. runner' \in [Jobs -> {"none", "running", "failed", "stopped"}]
    BY <1>1
  <2>5. result' \in [Jobs -> Outcomes \cup {"none"}]
    BY <1>1
  <2>3. reports' \in [Jobs -> Seq(Outcomes)]
    BY <1>1, AppendType
  <2>4. /\ report' \in [Jobs -> {"none", "results", "stop", "ended"} \cup ReleasePoints]
        /\ abort' \in [Jobs -> {"none", "aborting", "marking", "finishing", "done"}]
        /\ closing' \in [Jobs -> ReleasePoints]
    BY <1>1
  <2>. QED  BY <1>1, <2>1, <2>2, <2>3, <2>4, <2>5
<1>7. Control(j)'
  BY <1>1 DEF RunnerType, JobInv, Control, Hiving
<1>8. Reporting(j)'
  BY <1>1 DEF RunnerType, JobInv, Reporting, Control
<1>9. Statements(j)' /\ Creation(j)'
  BY <1>1 DEF RunnerType, JobInv, Statements, Creation, Control
<1>10. Handle(j)'
  BY <1>1 DEF RunnerType, HiveType, JobInv, Handle, Control
<1>11. ASSUME NEW k \in Jobs \ {j} PROVE SameJob(k)
  BY <1>1 DEF SameJob, RunnerType, HiveType, PartitionType
<1>. QED
  BY <1>2, <1>3, <1>4, <1>5, <1>6, <1>7, <1>8, <1>9, <1>10, <1>11, TypesNext DEF StepOf, JobInv

LEMMA CheckResultsInv == ASSUME Inv, NEW j \in Jobs, CheckResults(j) PROVE StepOf(j)
<1>. USE DEF CheckResults, runnerVars, hiveVars, partitionVars, dataAndSatisfiers
<1>1. RunnerType /\ PoolType /\ HiveType /\ PartitionType /\ DataType /\ JobInv(j)
  BY Types DEF Inv
<1>2. HiveType'
  BY <1>1, HiveFrame
<1>3. PartitionType'
  BY <1>1, PartitionFrame
<1>4. DataType'
  BY <1>1, DataFrame
<1>5. PoolType'
  BY <1>1, PoolFrame
<1>6. RunnerType'
  <2>. USE DEF RunnerType
  <2>1. thread' \in [Jobs -> Threads]
    BY <1>1 DEF Threads
  <2>2. runner' \in [Jobs -> {"none", "running", "failed", "stopped"}]
    BY <1>1
  <2>5. result' \in [Jobs -> Outcomes \cup {"none"}]
    BY <1>1
  <2>3. reports' \in [Jobs -> Seq(Outcomes)]
    <3>1. result[j] \in Outcomes
      BY <1>1 DEF JobInv, Control
    <3>2. \A o \in Outcomes : Append(reports[j], o) \in Seq(Outcomes)
      BY <1>1, AppendType
    <3>3. \E o \in Outcomes : reports' = [reports EXCEPT ![j] = Append(@, o)]
      BY <3>1
    <3>. QED  BY <1>1, <3>2, <3>3
  <2>4. /\ report' \in [Jobs -> {"none", "results", "stop", "ended"} \cup ReleasePoints]
        /\ abort' \in [Jobs -> {"none", "aborting", "marking", "finishing", "done"}]
        /\ closing' \in [Jobs -> ReleasePoints]
    BY <1>1
  <2>. QED  BY <1>1, <2>1, <2>2, <2>3, <2>4, <2>5
<1>7. Control(j)'
  BY <1>1 DEF RunnerType, JobInv, Control, Hiving
<1>8. Reporting(j)'
  BY <1>1 DEF RunnerType, JobInv, Reporting, Control
<1>9. Statements(j)' /\ Creation(j)'
  BY <1>1 DEF RunnerType, JobInv, Statements, Creation, Control
<1>10. Handle(j)'
  BY <1>1 DEF RunnerType, HiveType, JobInv, Handle, Control
<1>11. ASSUME NEW k \in Jobs \ {j} PROVE SameJob(k)
  BY <1>1 DEF SameJob, RunnerType, HiveType, PartitionType
<1>. QED
  BY <1>2, <1>3, <1>4, <1>5, <1>6, <1>7, <1>8, <1>9, <1>10, <1>11, TypesNext DEF StepOf, JobInv

LEMMA FinishClosesInv == ASSUME Inv, NEW j \in Jobs, FinishCloses(j) PROVE StepOf(j)
<1>. USE DEF FinishCloses, runnerVars, hiveVars, partitionVars, dataAndSatisfiers, Release, AfterRelease
<1>1. RunnerType /\ PoolType /\ HiveType /\ PartitionType /\ DataType /\ JobInv(j)
  BY Types DEF Inv
<1>2. HiveType'
  BY <1>1 DEF HiveType
<1>3. PartitionType'
  BY <1>1, PartitionFrame
<1>4. DataType'
  BY <1>1, DataFrame
<1>5. PoolType'
  BY <1>1, PoolFrame
<1>6. RunnerType'
  <2>. USE DEF RunnerType
  <2>1. thread' \in [Jobs -> Threads]
    BY <1>1 DEF Threads
  <2>2. runner' \in [Jobs -> {"none", "running", "failed", "stopped"}]
    BY <1>1
  <2>5. result' \in [Jobs -> Outcomes \cup {"none"}]
    BY <1>1
  <2>3. reports' \in [Jobs -> Seq(Outcomes)]
    BY <1>1, AppendType
  <2>4. /\ report' \in [Jobs -> {"none", "results", "stop", "ended"} \cup ReleasePoints]
        /\ abort' \in [Jobs -> {"none", "aborting", "marking", "finishing", "done"}]
        /\ closing' \in [Jobs -> ReleasePoints]
    BY <1>1
  <2>. QED  BY <1>1, <2>1, <2>2, <2>3, <2>4, <2>5
<1>7. Control(j)'
  BY <1>1 DEF RunnerType, JobInv, Control, Hiving
<1>8. Reporting(j)'
  BY <1>1 DEF RunnerType, JobInv, Reporting, Control
<1>9. Statements(j)' /\ Creation(j)'
  BY <1>1 DEF RunnerType, JobInv, Statements, Creation, Control
<1>10. Handle(j)'
  BY <1>1 DEF RunnerType, HiveType, JobInv, Handle, Control
<1>11. ASSUME NEW k \in Jobs \ {j} PROVE SameJob(k)
  BY <1>1 DEF SameJob, RunnerType, HiveType, PartitionType
<1>. QED
  BY <1>2, <1>3, <1>4, <1>5, <1>6, <1>7, <1>8, <1>9, <1>10, <1>11, TypesNext DEF StepOf, JobInv

LEMMA FinishStopsInv == ASSUME Inv, NEW j \in Jobs, FinishStops(j) PROVE StepOf(j)
<1>. USE DEF FinishStops, runnerVars, hiveVars, partitionVars, dataAndSatisfiers
<1>1. RunnerType /\ PoolType /\ HiveType /\ PartitionType /\ DataType /\ JobInv(j)
  BY Types DEF Inv
<1>2. HiveType'
  BY <1>1, HiveFrame
<1>3. PartitionType'
  BY <1>1, PartitionFrame
<1>4. DataType'
  BY <1>1, DataFrame
<1>5. PoolType'
  BY <1>1, PoolFrame
<1>6. RunnerType'
  <2>. USE DEF RunnerType
  <2>1. thread' \in [Jobs -> Threads]
    BY <1>1 DEF Threads
  <2>2. runner' \in [Jobs -> {"none", "running", "failed", "stopped"}]
    BY <1>1
  <2>5. result' \in [Jobs -> Outcomes \cup {"none"}]
    BY <1>1
  <2>3. reports' \in [Jobs -> Seq(Outcomes)]
    BY <1>1, AppendType
  <2>4. /\ report' \in [Jobs -> {"none", "results", "stop", "ended"} \cup ReleasePoints]
        /\ abort' \in [Jobs -> {"none", "aborting", "marking", "finishing", "done"}]
        /\ closing' \in [Jobs -> ReleasePoints]
    BY <1>1
  <2>. QED  BY <1>1, <2>1, <2>2, <2>3, <2>4, <2>5
<1>7. Control(j)'
  BY <1>1 DEF RunnerType, JobInv, Control, Hiving
<1>8. Reporting(j)'
  BY <1>1 DEF RunnerType, JobInv, Reporting, Control
<1>9. Statements(j)' /\ Creation(j)'
  BY <1>1 DEF RunnerType, JobInv, Statements, Creation, Control
<1>10. Handle(j)'
  BY <1>1 DEF RunnerType, HiveType, JobInv, Handle, Control
<1>11. ASSUME NEW k \in Jobs \ {j} PROVE SameJob(k)
  BY <1>1 DEF SameJob, RunnerType, HiveType, PartitionType
<1>. QED
  BY <1>2, <1>3, <1>4, <1>5, <1>6, <1>7, <1>8, <1>9, <1>10, <1>11, TypesNext DEF StepOf, JobInv

LEMMA RunnerAbortInv == ASSUME Inv, NEW j \in Jobs, RunnerAbort(j) PROVE StepOf(j)
<1>. USE DEF RunnerAbort, runnerVars, hiveVars, partitionVars, dataAndSatisfiers
<1>1. RunnerType /\ PoolType /\ HiveType /\ PartitionType /\ DataType /\ JobInv(j)
  BY Types DEF Inv
<1>2. HiveType'
  BY <1>1, HiveFrame
<1>3. PartitionType'
  BY <1>1, PartitionFrame DEF PartitionType, DropPartition
<1>4. DataType'
  BY <1>1, DataFrame
<1>5. PoolType'
  BY <1>1, PoolFrame
<1>6. RunnerType'
  <2>. USE DEF RunnerType
  <2>1. thread' \in [Jobs -> Threads]
    BY <1>1 DEF Threads
  <2>2. runner' \in [Jobs -> {"none", "running", "failed", "stopped"}]
    BY <1>1
  <2>5. result' \in [Jobs -> Outcomes \cup {"none"}]
    BY <1>1
  <2>3. reports' \in [Jobs -> Seq(Outcomes)]
    BY <1>1, AppendType
  <2>4. /\ report' \in [Jobs -> {"none", "results", "stop", "ended"} \cup ReleasePoints]
        /\ abort' \in [Jobs -> {"none", "aborting", "marking", "finishing", "done"}]
        /\ closing' \in [Jobs -> ReleasePoints]
    BY <1>1
  <2>. QED  BY <1>1, <2>1, <2>2, <2>3, <2>4, <2>5
<1>7. Control(j)'
  BY <1>1 DEF RunnerType, JobInv, Control, Hiving
<1>8. Reporting(j)'
  BY <1>1 DEF RunnerType, JobInv, Reporting, Control
<1>9. Statements(j)' /\ Creation(j)'
  BY <1>1 DEF RunnerType, JobInv, Statements, Creation, Control, DropPartition
<1>10. Handle(j)'
  BY <1>1 DEF RunnerType, HiveType, JobInv, Handle, Control
<1>11. ASSUME NEW k \in Jobs \ {j} PROVE SameJob(k)
  BY <1>1 DEF SameJob, RunnerType, HiveType, PartitionType, DropPartition
<1>. QED
  BY <1>2, <1>3, <1>4, <1>5, <1>6, <1>7, <1>8, <1>9, <1>10, <1>11, TypesNext DEF StepOf, JobInv

LEMMA AbortClosesInv == ASSUME Inv, NEW j \in Jobs, AbortCloses(j) PROVE StepOf(j)
<1>. USE DEF AbortCloses, runnerVars, hiveVars, partitionVars, dataAndSatisfiers, Release, AfterRelease
<1>1. RunnerType /\ PoolType /\ HiveType /\ PartitionType /\ DataType /\ JobInv(j)
  BY Types DEF Inv
<1>2. HiveType'
  BY <1>1 DEF HiveType
<1>3. PartitionType'
  BY <1>1, PartitionFrame
<1>4. DataType'
  BY <1>1, DataFrame
<1>5. PoolType'
  BY <1>1, PoolFrame
<1>6. RunnerType'
  <2>. USE DEF RunnerType
  <2>1. thread' \in [Jobs -> Threads]
    BY <1>1 DEF Threads
  <2>2. runner' \in [Jobs -> {"none", "running", "failed", "stopped"}]
    BY <1>1
  <2>5. result' \in [Jobs -> Outcomes \cup {"none"}]
    BY <1>1
  <2>3. reports' \in [Jobs -> Seq(Outcomes)]
    BY <1>1, AppendType
  <2>4. /\ report' \in [Jobs -> {"none", "results", "stop", "ended"} \cup ReleasePoints]
        /\ abort' \in [Jobs -> {"none", "aborting", "marking", "finishing", "done"}]
        /\ closing' \in [Jobs -> ReleasePoints]
    BY <1>1
  <2>. QED  BY <1>1, <2>1, <2>2, <2>3, <2>4, <2>5
<1>7. Control(j)'
  BY <1>1 DEF RunnerType, JobInv, Control, Hiving
<1>8. Reporting(j)'
  BY <1>1 DEF RunnerType, JobInv, Reporting, Control
<1>9. Statements(j)' /\ Creation(j)'
  BY <1>1 DEF RunnerType, JobInv, Statements, Creation, Control
<1>10. Handle(j)'
  BY <1>1 DEF RunnerType, HiveType, JobInv, Handle, Control
<1>11. ASSUME NEW k \in Jobs \ {j} PROVE SameJob(k)
  BY <1>1 DEF SameJob, RunnerType, HiveType, PartitionType
<1>. QED
  BY <1>2, <1>3, <1>4, <1>5, <1>6, <1>7, <1>8, <1>9, <1>10, <1>11, TypesNext DEF StepOf, JobInv

LEMMA AbortMarksInv == ASSUME Inv, NEW j \in Jobs, AbortMarks(j) PROVE StepOf(j)
<1>. USE DEF AbortMarks, runnerVars, hiveVars, partitionVars, dataAndSatisfiers
<1>1. RunnerType /\ PoolType /\ HiveType /\ PartitionType /\ DataType /\ JobInv(j)
  BY Types DEF Inv
<1>2. HiveType'
  BY <1>1, HiveFrame
<1>3. PartitionType'
  BY <1>1, PartitionFrame
<1>4. DataType'
  BY <1>1, DataFrame
<1>5. PoolType'
  BY <1>1, PoolFrame
<1>6. RunnerType'
  <2>. USE DEF RunnerType
  <2>1. thread' \in [Jobs -> Threads]
    BY <1>1 DEF Threads
  <2>2. runner' \in [Jobs -> {"none", "running", "failed", "stopped"}]
    BY <1>1
  <2>5. result' \in [Jobs -> Outcomes \cup {"none"}]
    BY <1>1
  <2>3. reports' \in [Jobs -> Seq(Outcomes)]
    BY <1>1, AppendType
  <2>4. /\ report' \in [Jobs -> {"none", "results", "stop", "ended"} \cup ReleasePoints]
        /\ abort' \in [Jobs -> {"none", "aborting", "marking", "finishing", "done"}]
        /\ closing' \in [Jobs -> ReleasePoints]
    BY <1>1
  <2>. QED  BY <1>1, <2>1, <2>2, <2>3, <2>4, <2>5
<1>7. Control(j)'
  BY <1>1 DEF RunnerType, JobInv, Control, Hiving
<1>8. Reporting(j)'
  BY <1>1 DEF RunnerType, JobInv, Reporting, Control
<1>9. Statements(j)' /\ Creation(j)'
  BY <1>1 DEF RunnerType, JobInv, Statements, Creation, Control
<1>10. Handle(j)'
  BY <1>1 DEF RunnerType, HiveType, JobInv, Handle, Control
<1>11. ASSUME NEW k \in Jobs \ {j} PROVE SameJob(k)
  BY <1>1 DEF SameJob, RunnerType, HiveType, PartitionType
<1>. QED
  BY <1>2, <1>3, <1>4, <1>5, <1>6, <1>7, <1>8, <1>9, <1>10, <1>11, TypesNext DEF StepOf, JobInv

LEMMA AbortStopsRunnerInv == ASSUME Inv, NEW j \in Jobs, AbortStopsRunner(j) PROVE StepOf(j)
<1>. USE DEF AbortStopsRunner, runnerVars, hiveVars, partitionVars, dataAndSatisfiers
<1>1. RunnerType /\ PoolType /\ HiveType /\ PartitionType /\ DataType /\ JobInv(j)
  BY Types DEF Inv
<1>2. HiveType'
  BY <1>1, HiveFrame
<1>3. PartitionType'
  BY <1>1, PartitionFrame
<1>4. DataType'
  BY <1>1, DataFrame
<1>5. PoolType'
  BY <1>1, PoolFrame
<1>6. RunnerType'
  <2>. USE DEF RunnerType
  <2>1. thread' \in [Jobs -> Threads]
    BY <1>1 DEF Threads
  <2>2. runner' \in [Jobs -> {"none", "running", "failed", "stopped"}]
    BY <1>1
  <2>5. result' \in [Jobs -> Outcomes \cup {"none"}]
    BY <1>1
  <2>3. reports' \in [Jobs -> Seq(Outcomes)]
    BY <1>1, AppendType
  <2>4. /\ report' \in [Jobs -> {"none", "results", "stop", "ended"} \cup ReleasePoints]
        /\ abort' \in [Jobs -> {"none", "aborting", "marking", "finishing", "done"}]
        /\ closing' \in [Jobs -> ReleasePoints]
    BY <1>1
  <2>. QED  BY <1>1, <2>1, <2>2, <2>3, <2>4, <2>5
<1>7. Control(j)'
  BY <1>1 DEF RunnerType, JobInv, Control, Hiving
<1>8. Reporting(j)'
  BY <1>1 DEF RunnerType, JobInv, Reporting, Control
<1>9. Statements(j)' /\ Creation(j)'
  BY <1>1 DEF RunnerType, JobInv, Statements, Creation, Control
<1>10. Handle(j)'
  BY <1>1 DEF RunnerType, HiveType, JobInv, Handle, Control
<1>11. ASSUME NEW k \in Jobs \ {j} PROVE SameJob(k)
  BY <1>1 DEF SameJob, RunnerType, HiveType, PartitionType
<1>. QED
  BY <1>2, <1>3, <1>4, <1>5, <1>6, <1>7, <1>8, <1>9, <1>10, <1>11, TypesNext DEF StepOf, JobInv

-----------------------------------------------------------------------------
\* What is waited for stays so until a thread has begun it.
Stays ==
  /\ kind' = kind
  /\ \A k \in Jobs :
       /\ thread[k] = "start" /\ kind[k] \in Pooled /\ Run(k) \notin busy => thread'[k] = "start"
       /\ report[k] = "results" /\ Report(k) \notin busy => report'[k] = "results"
       /\ thread[k] # "none" => thread'[k] # "none"
       /\ report[k] # "none" => report'[k] # "none"

LEMMA WaitsOn == Stays => \A t \in Tasks \ busy : Waits(t) => Waits(t)'
<1>. SUFFICES ASSUME Stays, NEW t \in Tasks \ busy, Waits(t) PROVE Waits(t)'
  OBVIOUS
<1>1. PICK k \in Jobs :
        /\ kind[k] \in Pooled
        /\ \/ t = Run(k) /\ thread[k] = "start"
           \/ t = Report(k) /\ report[k] = "results"
  BY DEF Waits
<1>2. CASE t = Run(k) /\ thread[k] = "start"
  <2>1. kind'[k] \in Pooled /\ thread'[k] = "start"
    BY <1>1, <1>2 DEF Stays
  <2>. QED  BY <1>2, <2>1 DEF Waits, Run
<1>3. CASE t = Report(k) /\ report[k] = "results"
  <2>1. kind'[k] \in Pooled /\ report'[k] = "results"
    BY <1>1, <1>3 DEF Stays
  <2>. QED  BY <1>3, <2>1 DEF Waits, Report
<1>. QED  BY <1>1, <1>2, <1>3

LEMMA QuietQueue ==
  ASSUME PoolType, Queueing, Stays, UNCHANGED <<queue, busy>> PROVE Queueing'
<1>1. \A i \in DOMAIN queue : queue[i] \in Tasks
  BY DEF PoolType
<1>2. \A i \in DOMAIN queue' : (Waits(queue[i]) /\ queue[i] \notin busy)'
  BY <1>1, WaitsOn DEF Queueing
<1>. QED  BY <1>2 DEF Queueing, Stays

LEMMA ExecuteQueue ==
  ASSUME PoolType, Queueing, Stays, NEW t \in Tasks, Execute(t), Waits(t)', t \notin busy,
         \A i \in DOMAIN queue : queue[i] # t
  PROVE  Queueing'
<1>1. \A i \in DOMAIN queue : queue[i] \in Tasks \ busy /\ Waits(queue[i])
  BY DEF Queueing, PoolType
<1>2. ASSUME NEW j \in Jobs
      PROVE  (t = Run(j) => thread'[j] # "none") /\ (t = Report(j) => report'[j] # "none")
  <2>1. PICK k \in Jobs : \/ t = Run(k) /\ thread'[k] = "start"
                          \/ t = Report(k) /\ report'[k] = "results"
    BY DEF Waits
  <2>. QED  BY <2>1, TaskNames
<1>3. CASE UNCHANGED queue /\ busy' = busy \cup {t}
  <2>1. \A i \in DOMAIN queue' : (Waits(queue[i]) /\ queue[i] \notin busy)'
    BY <1>1, <1>3, WaitsOn
  <2>. QED  BY <1>2, <1>3, <2>1 DEF Queueing, Stays
<1>4. CASE UNCHANGED busy /\ queue' = Append(queue, t)
  <2>1. queue \in Seq(Tasks)
    BY DEF PoolType
  <2>2. /\ DOMAIN queue = 1..Len(queue) /\ DOMAIN queue' = 1..(Len(queue) + 1) /\ Len(queue) \in Nat
        /\ \A i \in DOMAIN queue : queue'[i] = queue[i]
        /\ queue'[Len(queue) + 1] = t
    BY <1>4, <2>1
  <2>3. \A i \in DOMAIN queue' : i \in DOMAIN queue \/ i = Len(queue) + 1
    BY <2>2
  <2>4. \A i \in DOMAIN queue' : (Waits(queue[i]) /\ queue[i] \notin busy)'
    BY <1>1, <1>4, <2>2, <2>3, WaitsOn
  <2>5. \A i, k \in DOMAIN queue' : queue'[i] = queue'[k] => i = k
    BY <2>2, <2>3 DEF Queueing
  <2>. QED  BY <1>4, <2>4, <2>5 DEF Queueing, Stays
<1>. QED  BY <1>3, <1>4 DEF Execute

LEMMA TakeTaskInv == ASSUME Inv, TakeTask PROVE Inv'
<1>. USE DEF TakeTask, runnerVars, hiveVars, partitionVars, dataVars
<1>1. /\ queue \in Seq(Tasks) /\ queue # <<>> /\ Head(queue) \in Tasks
      /\ Tail(queue) \in Seq(Tasks) /\ Len(Tail(queue)) = Len(queue) - 1
      /\ Head(queue) = queue[1] /\ 1 \in DOMAIN queue
      /\ \A i \in DOMAIN Tail(queue) : /\ i + 1 \in DOMAIN queue /\ i + 1 # 1 /\ i \in Nat
                                       /\ Tail(queue)[i] = queue[i + 1]
  BY DEF Inv, TypeOK
<1>2. TypeOK'
  BY <1>1 DEF Inv, TypeOK
<1>3. \A i \in DOMAIN queue' : (Waits(queue[i]) /\ queue[i] \notin busy)'
  <2>1. \A t : Waits(t) => Waits(t)'
    BY DEF Waits
  <2>2. \A i \in DOMAIN queue' : /\ Waits(queue[i + 1]) /\ queue[i + 1] \notin busy
                                 /\ queue[i + 1] # queue[1]
    BY <1>1 DEF Inv, Queueing
  <2>. QED  BY <1>1, <2>1, <2>2
<1>4. \A i, k \in DOMAIN queue' : queue'[i] = queue'[k] => i = k
  BY <1>1 DEF Inv, Queueing
<1>5. ASSUME NEW j \in Jobs
      PROVE  /\ Run(j) \in busy' => thread'[j] # "none"
             /\ Report(j) \in busy' => report'[j] # "none"
  <2>1. Waits(queue[1])
    BY <1>1 DEF Inv, Queueing
  <2>2. PICK k \in Jobs : \/ queue[1] = Run(k) /\ thread[k] = "start"
                          \/ queue[1] = Report(k) /\ report[k] = "results"
    BY <2>1 DEF Waits
  <2>. QED  BY <1>1, <2>2, TaskNames DEF Inv, Queueing
<1>6. ASSUME NEW j \in Jobs PROVE JobInv(j)'
  BY SameJobInv DEF Inv, SameJob
<1>. QED  BY <1>2, <1>3, <1>4, <1>5, <1>6 DEF Inv, Queueing

LEMMA TaskEndsInv == ASSUME Inv, NEW t \in busy, TaskEnds(t) PROVE Inv'
<1>. USE DEF TaskEnds, runnerVars, hiveVars, partitionVars, dataVars
<1>1. TypeOK'
  BY DEF Inv, TypeOK
<1>2. Queueing'
  <2>1. \A s : Waits(s) => Waits(s)'
    BY DEF Waits
  <2>. QED  BY <2>1 DEF Inv, Queueing
<1>3. ASSUME NEW j \in Jobs PROVE JobInv(j)'
  BY SameJobInv DEF Inv, SameJob
<1>. QED  BY <1>1, <1>2, <1>3 DEF Inv

LEMMA ThreadExpiresInv == ASSUME Inv, ThreadExpires PROVE Inv'
<1>. USE DEF ThreadExpires, runnerVars, hiveVars, partitionVars, dataVars
<1>1. TypeOK'
  BY DEF Inv, TypeOK
<1>2. Queueing'
  <2>1. \A t : Waits(t) => Waits(t)'
    BY DEF Waits
  <2>. QED  BY <2>1 DEF Inv, Queueing
<1>3. ASSUME NEW j \in Jobs PROVE JobInv(j)'
  BY SameJobInv DEF Inv, SameJob
<1>. QED  BY <1>1, <1>2, <1>3 DEF Inv

\* A step of job j that leaves the queue and the threads of the pool alone.
LEMMA QuietStep ==
  ASSUME Inv, NEW j \in Jobs, StepOf(j), Stays, UNCHANGED <<queue, busy>>
  PROVE  Inv'
<1>1. \A k \in Jobs \ {j} : JobInv(k)'
  BY SameJobInv DEF StepOf, Inv
<1>. QED  BY <1>1, QuietQueue, Types DEF Inv, StepOf

LEMMA SatisfierStepInv == ASSUME Inv, NEW j \in Jobs, SatisfierStep(j) PROVE Inv'
<1>. USE DEF poolVars
<1>1. ASSUME HiveStep(j) PROVE Inv'
  <2>1. StepOf(j)
    BY <1>1, HiveBeginsInv, BuildDriverInv, GetDriverInv, NextStatementInv,
       StatementStartsInv, StatementEndsInv, ReleasedByJobInv DEF HiveStep
  <2>2. /\ Run(j) \in busy /\ thread'[j] # "none"
        /\ UNCHANGED <<queue, busy, report, kind>> /\ j \in DOMAIN thread
    BY <1>1 DEF HiveStep, HiveBegins, BuildDriver, GetDriver, NextStatement, StatementStarts,
       StatementEnds, ReleasedByJob, Executing, Goes, Finally, unchangedByHive, Inv, TypeOK
  <2>3. Stays
    BY <2>1, <2>2 DEF Stays, StepOf, SameJob
  <2>. QED  BY <2>1, <2>2, <2>3, QuietStep
<1>2. ASSUME PartitionStep(j) PROVE Inv'
  <2>1. StepOf(j)
    BY <1>2, SetWitnessInv, AddPartitionInv, GetPartitionInv, AlterPartitionInv,
       MarkCompletedInv DEF PartitionStep
  <2>2. /\ Run(j) \in busy /\ thread'[j] # "none"
        /\ UNCHANGED <<queue, busy, report, kind>>
    BY <1>2 DEF PartitionStep, SetWitness, AddPartition, GetPartition, AlterPartition,
       MarkCompleted, Creating, Ends, Continues, unchangedByPartition, Inv, TypeOK
  <2>3. Stays
    BY <2>1, <2>2 DEF Stays, StepOf, SameJob
  <2>. QED  BY <2>1, <2>2, <2>3, QuietStep
<1>3. ASSUME OtherSatisfies(j) PROVE Inv'
  <2>1. StepOf(j)
    BY <1>3, OtherSatisfiesInv
  <2>2. /\ Run(j) \in busy /\ thread'[j] # "none"
        /\ UNCHANGED <<queue, busy, report, kind>>
    BY <1>3 DEF OtherSatisfies, Inv, TypeOK
  <2>3. Stays
    BY <2>1, <2>2 DEF Stays, StepOf, SameJob
  <2>. QED  BY <2>1, <2>2, <2>3, QuietStep
<1>4. ASSUME DataStep(j) PROVE Inv'
  <2>1. StepOf(j)
    BY <1>4, BeginsCheckInv, EndsCheckInv, ChecksOneInv DEF DataStep
  <2>2. /\ kind[j] = "data" /\ (thread[j] # "none" => thread'[j] # "none")
        /\ UNCHANGED <<queue, busy, report, kind>>
    BY <1>4 DEF DataStep, BeginsCheck, EndsCheck, ChecksOne, unchangedByData, Inv, TypeOK
  <2>3. Stays
    BY <2>1, <2>2 DEF Stays, StepOf, SameJob
  <2>. QED  BY <2>1, <2>2, <2>3, QuietStep
<1>. QED  BY <1>1, <1>2, <1>3, <1>4 DEF SatisfierStep

LEMMA DataChangesQuiet ==
  ASSUME Inv, NEW j \in Jobs, NEW e \in Evidence, DataChanges(j, e) PROVE Inv'
<1>1. StepOf(j)
  BY DataChangesInv
<1>2. UNCHANGED <<queue, busy, report, thread, kind>>
  BY DEF DataChanges, unchangedByData, poolVars
<1>. QED  BY <1>1, <1>2, QuietStep DEF Stays

\* A job that has not been submitted is not in the pool, nor is the report of one
\* that is still being executed.
LEMMA RunnerSatisfyQueue == ASSUME Inv, NEW j \in Jobs, RunnerSatisfy(j) PROVE Inv'
<1>1. StepOf(j)
  BY RunnerSatisfyInv
<1>2. thread[j] = "none" /\ Run(j) \in Tasks
  BY TaskNames DEF Inv, JobInv, Control, RunnerSatisfy
<1>3. UNCHANGED <<kind, report>> /\ \A k \in Jobs \ {j} : thread'[k] = thread[k]
  BY <1>1 DEF RunnerSatisfy, StepOf, SameJob
<1>4. Stays
  BY <1>2, <1>3 DEF Stays
<1>5. ~Waits(Run(j)) /\ Run(j) \notin busy
  BY <1>2, TaskNames DEF Inv, Queueing, Waits
<1>6. Queueing'
  <2>1. CASE kind[j] = "data" /\ UNCHANGED poolVars
    BY <2>1, <1>4, QuietQueue, Types DEF Inv, poolVars
  <2>2. CASE Reject(Run(j))
    BY <2>2, <1>4, QuietQueue, Types DEF Inv, Reject
  <2>3. CASE kind[j] \in Pooled /\ Execute(Run(j)) /\ thread' = [thread EXCEPT ![j] = "start"]
    <3>1. kind'[j] \in Pooled /\ thread'[j] = "start"
      BY <2>3, <1>3 DEF Inv, TypeOK
    <3>2. Waits(Run(j))'
      BY <3>1 DEF Waits, Run
    <3>3. PoolType /\ \A i \in DOMAIN queue : queue[i] # Run(j)
      BY <1>5, Types DEF Inv, Queueing
    <3>. QED  BY <2>3, <1>2, <1>4, <1>5, <3>2, <3>3, ExecuteQueue DEF Inv
  <2>. QED  BY <2>1, <2>2, <2>3 DEF RunnerSatisfy
<1>7. \A k \in Jobs \ {j} : JobInv(k)'
  BY <1>1, SameJobInv DEF StepOf, Inv
<1>. QED  BY <1>1, <1>6, <1>7 DEF Inv, StepOf

LEMMA JobCompletesQueue == ASSUME Inv, NEW j \in Jobs, JobCompletes(j) PROVE Inv'
<1>1. StepOf(j)
  BY JobCompletesInv
<1>2. thread[j] = "over" /\ report[j] = "none" /\ Report(j) \in Tasks
  BY TaskNames DEF Inv, JobInv, Control, JobCompletes
<1>3. /\ UNCHANGED kind /\ thread'[j] = "ended"
      /\ \A k \in Jobs \ {j} : thread'[k] = thread[k] /\ report'[k] = report[k]
  BY <1>1 DEF JobCompletes, StepOf, SameJob, Inv, TypeOK
<1>4. Stays
  BY <1>2, <1>3 DEF Stays
<1>5. ~Waits(Report(j)) /\ Report(j) \notin busy
  BY <1>2, TaskNames DEF Inv, Queueing, Waits
<1>6. Queueing'
  <2>1. CASE Reject(Report(j))
    BY <2>1, <1>4, QuietQueue, Types DEF Inv, Reject
  <2>2. CASE Execute(Report(j)) /\ report' = [report EXCEPT ![j] = "results"]
    <3>1. Waits(Report(j))'
      BY <2>2, <1>3 DEF Waits, Inv, TypeOK, JobCompletes
    <3>2. PoolType /\ \A i \in DOMAIN queue : queue[i] # Report(j)
      BY <1>5, Types DEF Inv, Queueing
    <3>. QED  BY <2>2, <1>2, <1>4, <1>5, <3>1, <3>2, ExecuteQueue DEF Inv
  <2>. QED  BY <2>1, <2>2 DEF JobCompletes
<1>7. \A k \in Jobs \ {j} : JobInv(k)'
  BY <1>1, SameJobInv DEF StepOf, Inv
<1>. QED  BY <1>1, <1>6, <1>7 DEF Inv, StepOf

LEMMA ReportStepInv == ASSUME Inv, NEW j \in Jobs, ReportStep(j) PROVE Inv'
<1>1. ASSUME CheckResults(j) \/ FinishCloses(j) \/ FinishStops(j) PROVE Inv'
  <2>1. StepOf(j)
    BY <1>1, CheckResultsInv, FinishClosesInv, FinishStopsInv
  <2>2. /\ UNCHANGED <<kind, thread, queue, busy>> /\ Report(j) \in busy
    BY <1>1 DEF CheckResults, FinishCloses, FinishStops, poolVars
  <2>3. report'[j] # "none"
    BY <1>1 DEF CheckResults, FinishCloses, FinishStops, AfterRelease, Inv, TypeOK
  <2>4. Stays
    BY <2>1, <2>2, <2>3 DEF Stays, StepOf, SameJob
  <2>. QED  BY <2>1, <2>2, <2>4, QuietStep
<1>. QED  BY <1>1, JobCompletesQueue DEF ReportStep

LEMMA AbortInv == ASSUME Inv, NEW j \in Jobs, RunnerAbort(j) \/ AbortStep(j) PROVE Inv'
<1>1. StepOf(j)
  BY RunnerAbortInv, AbortClosesInv, AbortMarksInv, AbortStopsRunnerInv DEF AbortStep
<1>2. UNCHANGED <<kind, thread, report, queue, busy>>
  BY DEF RunnerAbort, AbortStep, AbortCloses, AbortMarks, AbortStopsRunner, poolVars
<1>. QED  BY <1>1, <1>2, QuietStep DEF Stays

LEMMA StutterInv == ASSUME Inv, UNCHANGED vars PROVE Inv'
<1>. USE DEF vars, runnerVars, poolVars, hiveVars, partitionVars, dataVars
<1>1. TypeOK'
  BY DEF Inv, TypeOK
<1>2. Queueing'
  <2>1. \A t : Waits(t) => Waits(t)'
    BY DEF Waits
  <2>. QED  BY <2>1 DEF Inv, Queueing
<1>3. ASSUME NEW j \in Jobs PROVE JobInv(j)'
  BY SameJobInv DEF Inv, SameJob
<1>. QED  BY <1>1, <1>2, <1>3 DEF Inv

LEMMA NextInv == Inv /\ [Next]_vars => Inv'
<1>. SUFFICES ASSUME Inv, [Next]_vars PROVE Inv'
  OBVIOUS
<1>1. CASE PoolStep
  BY <1>1, TakeTaskInv, TaskEndsInv, ThreadExpiresInv DEF PoolStep
<1>2. ASSUME NEW j \in Jobs,
             \/ RunnerSatisfy(j) \/ RunnerAbort(j)
             \/ HiveStep(j) \/ PartitionStep(j) \/ OtherSatisfies(j) \/ DataStep(j)
             \/ ReportStep(j) \/ AbortStep(j)
             \/ \E e \in Evidence : DataChanges(j, e)
      PROVE  Inv'
  BY <1>2, RunnerSatisfyQueue, SatisfierStepInv, ReportStepInv, AbortInv, DataChangesQuiet
     DEF SatisfierStep
<1>. QED  BY <1>1, <1>2, StutterInv DEF Next
-----------------------------------------------------------------------------
\* The handle, the queue and the reports of every job stay as Inv says.
THEOREM Invariant == Spec => []Inv
  BY InitInv, NextInv, PTL DEF Spec

\* Types, and the number of drivers a job makes: at most one for each statement.
THEOREM TypeCorrect == Spec => []TypeOK
<1>1. Inv => TypeOK
  BY DEF Inv
<1>. QED  BY <1>1, Invariant, PTL

\* However satisfy() is left, the handle is empty before its result is reported,
\* and nothing stays open of a job that was not aborted.
THEOREM Released == Spec => []DriversReleased
<1>1. Inv => DriversReleased
  BY DEF Inv, JobInv, Handle, DriversReleased
<1>. QED  BY <1>1, Invariant, PTL

\* The statements of a job that is not aborted share one driver.
THEOREM Session == Spec => []OneSession
<1>1. Inv => OneSession
  BY DEF Inv, JobInv, Handle, OneSession
<1>. QED  BY <1>1, Invariant, PTL

LEMMA ReportsOnce == ASSUME Inv, [Next]_vars, NEW j \in Jobs, reports'[j] # reports[j]
                     PROVE  \A i \in DOMAIN reports[j] : reports[j][i] = "failure"
<1>1. CASE CheckResults(j)
  <2>1. reports[j] = <<>>
    BY <1>1 DEF CheckResults, Inv, JobInv, Control, Reporting
  <2>. QED  BY <2>1
<1>2. CASE \/ DataStep(j)
  BY <1>2 DEF DataStep, BeginsCheck, ChecksOne, EndsCheck, Inv, JobInv, Reporting
<1>3. CASE ~CheckResults(j) /\ ~DataStep(j)
  <2>1. UNCHANGED reports \/ \E k \in Jobs \ {j} : CheckResults(k) \/ DataStep(k)
    BY <1>3 DEF Next, vars, runnerVars, PoolStep, TakeTask, TaskEnds, ThreadExpires, RunnerSatisfy,
       RunnerAbort, HiveStep, HiveBegins, BuildDriver, GetDriver, NextStatement, StatementStarts,
       StatementEnds, ReleasedByJob, unchangedByHive, PartitionStep, SetWitness, AddPartition,
       GetPartition, AlterPartition, MarkCompleted, unchangedByPartition, OtherSatisfies,
       ReportStep, JobCompletes, FinishCloses, FinishStops, AbortStep, AbortCloses, AbortMarks,
       AbortStopsRunner, DataChanges
  <2>2. ASSUME NEW k \in Jobs \ {j}, CheckResults(k) \/ DataStep(k) PROVE reports'[j] = reports[j]
    <3>1. CASE CheckResults(k)
      BY <3>1, CheckResultsInv DEF StepOf, SameJob
    <3>2. CASE DataStep(k)
      BY <3>2, BeginsCheckInv, ChecksOneInv, EndsCheckInv DEF DataStep, StepOf, SameJob
    <3>. QED  BY <2>2, <3>1, <3>2
  <2>. QED  BY <2>1, <2>2
<1>. QED  BY <1>1, <1>2, <1>3

\* Nothing is reported of a job that has been reported a success.
THEOREM LastReport == Spec => SuccessIsLast
<1>1. Inv /\ [Next]_vars =>
        [\A j \in Jobs : reports'[j] # reports[j] =>
           \A i \in DOMAIN reports[j] : reports[j][i] = "failure"]_vars
  BY ReportsOnce
<1>. QED  BY <1>1, Invariant, PTL DEF Spec, SuccessIsLast

\* The tasks of a queue are those of as many jobs, none of which is over.
LEMMA QueuedJobs ==
  ASSUME Inv, NEW j \in Jobs, ~Waits(Run(j)), ~Waits(Report(j))
  PROVE  Len(queue) <= Cardinality(UnderWay \ {j})
<1>. DEFINE Of(i) == CHOOSE k \in Jobs : Waits(queue[i]) /\ (queue[i] = Run(k) \/ queue[i] = Report(k))
            f == [i \in 1..Len(queue) |-> Of(i)]
<1>1. queue \in Seq(Tasks) /\ Len(queue) \in Nat /\ DOMAIN queue = 1..Len(queue)
  BY DEF Inv, TypeOK
<1>2. ASSUME NEW i \in 1..Len(queue)
      PROVE  /\ f[i] \in UnderWay \ {j}
             /\ \/ queue[i] = Run(f[i]) /\ thread[f[i]] = "start"
                \/ queue[i] = Report(f[i]) /\ report[f[i]] = "results"
  <2>1. Waits(queue[i])
    BY <1>1 DEF Inv, Queueing
  <2>2. \E k \in Jobs : Waits(queue[i]) /\ (queue[i] = Run(k) \/ queue[i] = Report(k))
    BY <2>1 DEF Waits
  <2>3. Of(i) \in Jobs /\ (queue[i] = Run(Of(i)) \/ queue[i] = Report(Of(i)))
    BY <2>2
  <2>4. f[i] = Of(i)
    OBVIOUS
  <2>. HIDE DEF Of, f
  <2>5. /\ kind[f[i]] \in Pooled
        /\ \/ queue[i] = Run(f[i]) /\ thread[f[i]] = "start"
           \/ queue[i] = Report(f[i]) /\ report[f[i]] = "results"
    BY <2>1, <2>3, <2>4, TaskNames DEF Waits
  <2>6. f[i] # j
    BY <2>1, <2>5
  <2>7. thread[f[i]] # "none" /\ ~Over(f[i])
    BY <2>3, <2>4, <2>5 DEF Over, Inv, JobInv, Control
  <2>. QED  BY <2>3, <2>4, <2>5, <2>6, <2>7 DEF UnderWay
<1>. HIDE DEF f
<1>3. f \in [1..Len(queue) -> UnderWay \ {j}]
  BY <1>2 DEF f
<1>4. \A i, k \in 1..Len(queue) : f[i] = f[k] => i = k
  <2>. SUFFICES ASSUME NEW i \in 1..Len(queue), NEW k \in 1..Len(queue), f[i] = f[k] PROVE i = k
    OBVIOUS
  <2>1. f[i] \in Jobs /\ JobInv(f[i])
    BY <1>2 DEF UnderWay, Inv
  <2>2. queue[i] = queue[k]
    BY <1>2, <2>1 DEF JobInv, Control
  <2>. QED  BY <1>1, <2>2 DEF Inv, Queueing
<1>5. f \in Injection(1..Len(queue), UnderWay \ {j})
  BY <1>3, <1>4 DEF Injection, IsInjective
<1>6. IsFiniteSet(UnderWay \ {j})
  BY FS_Subset DEF UnderWay
<1>7. Cardinality(1..Len(queue)) = Len(queue)
  BY <1>1, FS_Interval
<1>. QED  BY <1>5, <1>6, <1>7, FS_Injection

\* The pool is left with a queue of other jobs' tasks when it refuses one.
THEOREM Refusals == Spec => RefusedOnlyWhenFull
<1>. DEFINE A == \A j \in Jobs : {Run(j), Report(j)} \cap (refused' \ refused) # {}
                   => Cardinality(UnderWay \ {j}) >= QueueSize
<1>1. ASSUME Inv, [Next]_vars, NEW j \in Jobs, {Run(j), Report(j)} \cap (refused' \ refused) # {}
      PROVE  Cardinality(UnderWay \ {j}) >= QueueSize
  <2>1. \E k \in Jobs : \/ RunnerSatisfy(k) /\ Reject(Run(k))
                        \/ JobCompletes(k) /\ Reject(Report(k))
    BY <1>1 DEF Next, vars, poolVars, PoolStep, TakeTask, TaskEnds, ThreadExpires, RunnerSatisfy,
       RunnerAbort, HiveStep, HiveBegins, BuildDriver, GetDriver, NextStatement, StatementStarts,
       StatementEnds, ReleasedByJob, unchangedByHive, PartitionStep, SetWitness, AddPartition,
       GetPartition, AlterPartition, MarkCompleted, unchangedByPartition, OtherSatisfies, DataStep,
       BeginsCheck, ChecksOne, EndsCheck, unchangedByData, ReportStep, JobCompletes, CheckResults,
       FinishCloses, FinishStops, AbortStep, AbortCloses, AbortMarks, AbortStopsRunner,
       DataChanges, Execute
  <2>2. \/ RunnerSatisfy(j) /\ Reject(Run(j))
        \/ JobCompletes(j) /\ Reject(Report(j))
    BY <1>1, <2>1, TaskNames DEF Reject
  <2>3. thread[j] \in {"none", "over"} /\ report[j] = "none" /\ Len(queue) >= QueueSize
    BY <1>1, <2>2 DEF RunnerSatisfy, JobCompletes, Inv, JobInv, Control, Reject, Refuses, QueueFull
  <2>4. ~Waits(Run(j)) /\ ~Waits(Report(j))
    BY <2>3, TaskNames DEF Waits
  <2>5. Len(queue) <= Cardinality(UnderWay \ {j})
    BY <1>1, <2>4, QueuedJobs
  <2>6. Cardinality(UnderWay \ {j}) \in Nat /\ Len(queue) \in Nat
    BY <1>1, FS_Subset, FS_CardinalityType DEF UnderWay, Inv, TypeOK
  <2>. QED  BY <2>3, <2>5, <2>6
<1>2. Inv /\ [Next]_vars => [A]_vars
  BY <1>1
<1>. QED  BY <1>2, Invariant, PTL DEF Spec, RefusedOnlyWhenFull
=============================================================================

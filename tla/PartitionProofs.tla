---------------------------- MODULE PartitionProofs ---------------------------
(* A partition that a job got and reported as created is marked complete,    *)
(* whichever jobs work on it, with one satisfier for all witnesses of a goal *)
(* as PartitionExists has it, or with one for each.                          *)
EXTENDS JobExecutionProofs

\* A job gets its copy once, before it writes anything.
NotYet == {"none", "start", "add", "again"}
Copying(j) ==
  /\ kind[j] = "partition" /\ thread[j] \in NotYet => copy[j] = NoCopy /\ result[j] = "none"
  /\ kind[j] # "partition" => copy[j] = NoCopy

\* A satisfier's field is the witness of one of its jobs.
Field(s) ==
  w[s] # NoPartition =>
    \E k \in Jobs : kind[k] = "partition" /\ Satisfier[k] = s /\ Witness[k] = w[s]

MarkInv == /\ SuccessIsMarked
           /\ \A j \in Jobs : Copying(j)
           /\ \A s \in Satisfiers : Field(s)

Writing == {"alter", "mark"}

\* A partition that is to be marked: the premise of SuccessIsMarked.
Settled(p) ==
  /\ \E j \in HasInHand(p) : result[j] = "success"
  /\ \A j \in HasInHand(p) : result[j] # "failure" /\ thread[j] \notin Writing
  /\ MayDrop(p) = {}

LEMMA MarkedIff == SuccessIsMarked <=> \A p \in Partitions : Settled(p) => table[p] = "marked"
  BY DEF SuccessIsMarked, Settled, Writing

USE JobConstants DEF ReleasePoints
-----------------------------------------------------------------------------
\* A step of nobody who creates a partition leaves the metastore alone, and the
\* jobs that do at their places but for their submission and their report.
Elsewhere ==
  /\ UNCHANGED <<kind, w, copy, table>>
  /\ \A j \in Jobs :
       /\ abort'[j] = "none" => abort[j] = "none"
       /\ kind[j] = "partition" =>
            /\ result'[j] = result[j]
            /\ thread[j] \in Writing => thread'[j] = thread[j]
            /\ thread'[j] \in NotYet => thread[j] \in NotYet

LEMMA ElsewhereKeeps == ASSUME MarkInv, Elsewhere PROVE MarkInv'
<1>1. \A j \in Jobs : Copying(j)'
  BY DEF MarkInv, Elsewhere, Copying
<1>2. \A s \in Satisfiers : Field(s)'
  BY DEF MarkInv, Elsewhere, Field
<1>3. ASSUME NEW p \in Partitions, Settled(p)' PROVE table'[p] = "marked"
  <2>1. /\ HasInHand(p)' = HasInHand(p)
        /\ \A j \in HasInHand(p) : j \in Jobs /\ kind[j] = "partition"
    BY DEF HasInHand, Elsewhere, MarkInv, Copying
  <2>2. MayDrop(p) \subseteq MayDrop(p)'
    BY DEF MayDrop, Elsewhere
  <2>3. Settled(p)
    BY <1>3, <2>1, <2>2 DEF Settled, Elsewhere
  <2>4. table[p] = "marked"
    BY <2>3, MarkedIff DEF MarkInv
  <2>. QED  BY <2>4 DEF Elsewhere
<1>4. SuccessIsMarked'
  BY <1>3 DEF SuccessIsMarked, Settled, Writing
<1>. QED  BY <1>1, <1>2, <1>4 DEF MarkInv

\* Which steps those are.
LEMMA PoolElsewhere == ASSUME Inv, PoolStep PROVE Elsewhere
  BY DEF PoolStep, TakeTask, TaskEnds, ThreadExpires, runnerVars, partitionVars, Elsewhere

LEMMA OtherJobsElsewhere ==
  ASSUME Inv, NEW j \in Jobs,
         HiveStep(j) \/ OtherSatisfies(j) \/ DataStep(j)
           \/ \E e \in Evidence : DataChanges(j, e)
  PROVE  Elsewhere
<1>. USE DEF Inv, TypeOK, partitionVars, Elsewhere
<1>1. CASE HiveStep(j)
  <2>1. /\ kind[j] = "hive" /\ thread'[j] # "none" /\ UNCHANGED <<kind, abort, w, copy, table>>
        /\ \A k \in Jobs \ {j} : thread'[k] = thread[k] /\ result'[k] = result[k]
    BY <1>1 DEF HiveStep, HiveBegins, BuildDriver, GetDriver, NextStatement, StatementStarts,
       StatementEnds, ReleasedByJob, Executing, Goes, Finally, unchangedByHive
  <2>. QED  BY <2>1
<1>2. CASE OtherSatisfies(j)
  BY <1>2 DEF OtherSatisfies, dataAndSatisfiers
<1>3. CASE DataStep(j) \/ \E e \in Evidence : DataChanges(j, e)
  <2>1. /\ kind[j] = "data" /\ UNCHANGED <<kind, abort, result, w, copy, table>>
        /\ \A k \in Jobs : thread'[k] = thread[k] \/ (k = j /\ thread'[k] # "none")
    BY <1>3 DEF DataStep, BeginsCheck, ChecksOne, EndsCheck, DataChanges, unchangedByData
  <2>. QED  BY <2>1
<1>. QED  BY <1>1, <1>2, <1>3

LEMMA RunnerElsewhere ==
  ASSUME Inv, NEW j \in Jobs, RunnerSatisfy(j) \/ ReportStep(j) \/ AbortStep(j)
  PROVE  Elsewhere
<1>. USE DEF Inv, TypeOK, partitionVars, dataAndSatisfiers, Elsewhere, Writing, NotYet
<1>1. CASE RunnerSatisfy(j)
  <2>1. thread[j] = "none"
    BY <1>1 DEF RunnerSatisfy, JobInv, Control
  <2>2. /\ UNCHANGED <<kind, abort, result, w, copy, table>>
        /\ \A k \in Jobs \ {j} : thread'[k] = thread[k]
        /\ thread'[j] \in {"none", "start"}
    BY <1>1, <2>1 DEF RunnerSatisfy
  <2>. QED  BY <2>1, <2>2
<1>2. CASE JobCompletes(j)
  BY <1>2 DEF JobCompletes
<1>3. CASE CheckResults(j) \/ FinishCloses(j) \/ FinishStops(j)
  BY <1>3 DEF CheckResults, FinishCloses, FinishStops
<1>4. CASE AbortStep(j)
  <2>1. /\ abort'[j] # "none" /\ UNCHANGED <<kind, thread, result, w, copy, table>>
        /\ \A k \in Jobs \ {j} : abort'[k] = abort[k]
    BY <1>4 DEF AbortStep, AbortCloses, AbortMarks, AbortStopsRunner
  <2>. QED  BY <2>1
<1>. QED  BY <1>1, <1>2, <1>3, <1>4 DEF ReportStep
-----------------------------------------------------------------------------
\* What abort() drops is a partition of some job of the aborted job's satisfier.
LEMMA AbortKeeps == ASSUME Inv, MarkInv, NEW j \in Jobs, RunnerAbort(j) PROVE MarkInv'
<1>. USE DEF Inv, TypeOK
<1>1. /\ UNCHANGED <<kind, thread, result, w, copy>> /\ abort[j] = "none" /\ abort'[j] # "none"
      /\ \A k \in Jobs \ {j} : abort'[k] = abort[k]
  BY DEF RunnerAbort, DropPartition, partitionVars
<1>2. CASE UNCHANGED table
  BY <1>1, <1>2, ElsewhereKeeps DEF Elsewhere
<1>3. CASE table' # table
  <2>. DEFINE d == w[Satisfier[j]]
  <2>1. /\ kind[j] = "partition" /\ d # NoPartition
        /\ table' = [table EXCEPT ![d] = "absent"]
    BY <1>3 DEF RunnerAbort, DropPartition, partitionVars
  <2>2. ASSUME NEW p \in Partitions, p = d PROVE j \in MayDrop(p)'
    <3>1. Field(Satisfier[j])
      BY DEF MarkInv
    <3>. QED  BY <1>1, <2>1, <2>2, <3>1 DEF MayDrop, Field
  <2>3. ASSUME NEW p \in Partitions, Settled(p)' PROVE table'[p] = "marked"
    <3>1. p # d
      BY <2>2, <2>3 DEF Settled
    <3>2. HasInHand(p)' = HasInHand(p) /\ MayDrop(p) \subseteq MayDrop(p)'
      BY <1>1 DEF HasInHand, MayDrop
    <3>3. Settled(p)
      BY <1>1, <2>3, <3>2 DEF Settled
    <3>4. table[p] = "marked"
      BY <3>3, MarkedIff DEF MarkInv
    <3>. QED  BY <2>1, <3>1, <3>4
  <2>4. SuccessIsMarked'
    BY <2>3 DEF SuccessIsMarked, Settled, Writing
  <2>5. /\ \A k \in Jobs : Copying(k)'
        /\ \A s \in Satisfiers : Field(s)'
    BY <1>1 DEF MarkInv, Copying, Field
  <2>. QED  BY <2>4, <2>5 DEF MarkInv
<1>. QED  BY <1>2, <1>3
-----------------------------------------------------------------------------
\* What a job that creates a partition does to the field and to its copy, and to
\* the partition it has in hand, which it leaves marked, or has still to write, or
\* has failed with; before it has one it only adds what was absent.
OnlyJob(j) ==
  /\ UNCHANGED <<kind, abort>> /\ kind[j] = "partition"
  /\ \A k \in Jobs \ {j} :
       thread'[k] = thread[k] /\ result'[k] = result[k] /\ copy'[k] = copy[k]
  /\ w' = w \/ w' = [w EXCEPT ![Satisfier[j]] = Witness[j]]

Gets(j) ==
  /\ thread[j] \in NotYet
  /\ \/ copy' = copy
     \/ copy'[j] # NoCopy /\ thread'[j] \in Writing
  /\ thread'[j] \in NotYet => copy'[j] = copy[j] /\ result'[j] = result[j]
  /\ \A p \in Partitions :
       table'[p] = table[p] \/ (copy'[j] # NoCopy /\ copy'[j].partition = p)

Writes(j) ==
  /\ thread[j] \in Writing /\ thread'[j] \notin NotYet
  /\ copy[j] \in Copies /\ copy'[j] # NoCopy /\ copy'[j].partition = copy[j].partition
  /\ \A p \in Partitions \ {copy[j].partition} : table'[p] = table[p]
  /\ \/ result'[j] = "failure" \/ thread'[j] \in Writing
     \/ table'[copy[j].partition] = "marked"

LEMMA StepGetsOrWrites ==
  ASSUME Inv, MarkInv, NEW j \in Jobs, PartitionStep(j)
  PROVE  OnlyJob(j) /\ (Gets(j) \/ Writes(j))
<1>. USE DEF Creating, Ends, Continues, unchangedByPartition, Inv, TypeOK
<1>1. /\ Satisfier[j] \in Satisfiers /\ Witness[j] \in Partitions
      /\ thread[j] \in {"add", "again"} => w[Satisfier[j]] \in Partitions
      /\ thread[j] \in NotYet /\ kind[j] = "partition" => copy[j] = NoCopy
      /\ thread[j] \in Writing => copy[j] \in Copies
  BY DEF JobInv, Creation, MarkInv, Copying, Writing
<1>2. CASE SetWitness(j)
  <2>1. OnlyJob(j)
    BY <1>1, <1>2 DEF SetWitness, OnlyJob
  <2>2. thread[j] = "start" /\ thread'[j] = "add" /\ UNCHANGED <<copy, table, result>>
    BY <1>2 DEF SetWitness
  <2>. QED  BY <2>1, <2>2 DEF Gets, NotYet
<1>3. CASE AddPartition(j)
  <2>. DEFINE p == w[Satisfier[j]]
  <2>1. OnlyJob(j)
    BY <1>1, <1>3 DEF AddPartition, OnlyJob
  <2>2. thread[j] = "add" /\ p \in Partitions /\ CopyOf(p) # NoCopy /\ CopyOf(p).partition = p
    BY <1>1, <1>3, CopyType DEF AddPartition, CopyOf
  <2>3. CASE copy' = [copy EXCEPT ![j] = CopyOf(p)]
    <3>1. copy'[j] = CopyOf(p) /\ thread'[j] = "alter"
      BY <1>1, <1>3, <2>2, <2>3 DEF AddPartition, NotYet
    <3>2. \A q \in Partitions \ {p} : table'[q] = table[q]
      BY <1>3, <2>2 DEF AddPartition
    <3>. QED  BY <2>1, <2>2, <3>1, <3>2 DEF Gets, NotYet, Writing
  <2>4. CASE UNCHANGED <<copy, table>> /\ (Ends(j, "failure") \/ Continues(j, "again"))
    <3>1. thread'[j] = "over" \/ (thread'[j] = "again" /\ result' = result)
      BY <2>4
    <3>. QED  BY <2>1, <2>2, <2>4, <3>1 DEF Gets, NotYet
  <2>. QED  BY <1>3, <2>3, <2>4 DEF AddPartition
<1>4. CASE GetPartition(j)
  <2>. DEFINE p == w[Satisfier[j]]
  <2>1. OnlyJob(j)
    BY <1>1, <1>4 DEF GetPartition, OnlyJob
  <2>2. thread[j] = "again" /\ p \in Partitions /\ CopyOf(p) # NoCopy /\ table' = table
    BY <1>1, <1>4, CopyType DEF GetPartition
  <2>3. \/ copy'[j] = CopyOf(p) /\ thread'[j] = "mark"
        \/ copy' = copy /\ thread'[j] = "over"
    BY <1>1, <1>4 DEF GetPartition
  <2>. QED  BY <2>1, <2>2, <2>3 DEF Gets, NotYet, Writing
<1>5. CASE AlterPartition(j)
  <2>. DEFINE p == copy[j].partition
  <2>1. OnlyJob(j)
    BY <1>1, <1>5 DEF AlterPartition, OnlyJob
  <2>2. thread[j] = "alter" /\ copy[j] \in Copies /\ copy[j] # NoCopy /\ copy' = copy
    BY <1>1, <1>5 DEF AlterPartition, Copies, Writing
  <2>3. \A q \in Partitions \ {p} : table'[q] = table[q]
    BY <1>5, <2>2 DEF AlterPartition
  <2>4. thread'[j] = "mark" \/ (thread'[j] = "over" /\ result'[j] = "failure")
    BY <1>5 DEF AlterPartition
  <2>. QED  BY <2>1, <2>2, <2>3, <2>4 DEF Writes, NotYet, Writing
<1>6. CASE MarkCompleted(j)
  <2>. DEFINE p == copy[j].partition
  <2>1. OnlyJob(j)
    BY <1>1, <1>6 DEF MarkCompleted, OnlyJob
  <2>2. thread[j] = "mark" /\ copy[j] \in Copies /\ p \in Partitions
    BY <1>1, <1>6 DEF MarkCompleted, Copies, Writing
  <2>3. copy'[j] \in Copies /\ copy'[j].partition = p
    BY <1>6, <2>2 DEF MarkCompleted, Copies
  <2>4. \A q \in Partitions \ {p} : table'[q] = table[q]
    BY <1>6, <2>2 DEF MarkCompleted
  <2>5. thread'[j] = "over" /\ (result'[j] = "failure" \/ table'[p] = "marked")
    BY <1>6, <2>2 DEF MarkCompleted
  <2>. QED  BY <2>1, <2>2, <2>3, <2>4, <2>5 DEF Writes, Copies, NotYet, Writing
<1>. QED  BY <1>2, <1>3, <1>4, <1>5, <1>6 DEF PartitionStep

LEMMA CreationKeeps ==
  ASSUME Inv, MarkInv, NEW j \in Jobs, PartitionStep(j)
  PROVE  MarkInv'
<1>1. OnlyJob(j) /\ (Gets(j) \/ Writes(j))
  BY StepGetsOrWrites
<1>2. \A k \in Jobs : Copying(k)'
  BY <1>1 DEF OnlyJob, Gets, Writes, MarkInv, Copying, Writing, NotYet
<1>3. ASSUME NEW s \in Satisfiers PROVE Field(s)'
  <2>1. w'[s] = w[s] \/ (s = Satisfier[j] /\ w'[s] = Witness[j])
    BY <1>1 DEF OnlyJob, Inv, TypeOK
  <2>2. kind' = kind /\ kind[j] = "partition" /\ Field(s)
    BY <1>1 DEF OnlyJob, MarkInv
  <2>. QED  BY <2>1, <2>2 DEF Field
<1>4. ASSUME NEW p \in Partitions, Settled(p)' PROVE table'[p] = "marked"
  <2>1. MayDrop(p)' = MayDrop(p)
    BY <1>1 DEF OnlyJob, MayDrop
  <2>2. CASE j \notin HasInHand(p) /\ j \notin HasInHand(p)'
    <3>1. HasInHand(p)' = HasInHand(p)
      BY <1>1, <2>2 DEF OnlyJob, HasInHand
    <3>2. \A k \in HasInHand(p) : result'[k] = result[k] /\ thread'[k] = thread[k]
      BY <1>1, <2>2 DEF OnlyJob, HasInHand
    <3>3. Settled(p)
      BY <1>4, <2>1, <3>1, <3>2 DEF Settled
    <3>4. table[p] = "marked"
      BY <3>3, MarkedIff DEF MarkInv
    <3>. QED  BY <1>1, <2>2, <3>4 DEF Gets, Writes, HasInHand, Copies
  <2>3. CASE j \in HasInHand(p)'
    <3>1. result'[j] # "failure" /\ thread'[j] \notin Writing
      BY <1>4, <2>3 DEF Settled
    <3>2. copy'[j] # NoCopy /\ copy'[j].partition = p
      BY <2>3 DEF HasInHand
    <3>3. ~Gets(j)
      BY <1>1, <3>1, <3>2 DEF Gets, OnlyJob, MarkInv, Copying
    <3>. QED  BY <1>1, <3>1, <3>2, <3>3 DEF Writes
  <2>4. CASE j \in HasInHand(p) /\ j \notin HasInHand(p)'
    BY <1>1, <2>4 DEF OnlyJob, Gets, Writes, HasInHand, MarkInv, Copying
  <2>. QED  BY <2>2, <2>3, <2>4
<1>5. SuccessIsMarked'
  BY <1>4 DEF SuccessIsMarked, Settled, Writing
<1>. QED  BY <1>2, <1>3, <1>5 DEF MarkInv
-----------------------------------------------------------------------------
LEMMA InitMarked == Init => MarkInv
  BY DEF Init, MarkInv, Copying, Field, SuccessIsMarked, HasInHand

LEMMA NextMarked == ASSUME Inv, MarkInv, [Next]_vars PROVE MarkInv'
<1>1. CASE UNCHANGED vars
  BY <1>1, ElsewhereKeeps DEF vars, runnerVars, partitionVars, Elsewhere
<1>2. CASE PoolStep
  BY <1>2, PoolElsewhere, ElsewhereKeeps
<1>3. ASSUME NEW j \in Jobs, PartitionStep(j) \/ RunnerAbort(j) PROVE MarkInv'
  BY <1>3, CreationKeeps, AbortKeeps
<1>4. ASSUME NEW j \in Jobs,
             \/ RunnerSatisfy(j) \/ HiveStep(j) \/ OtherSatisfies(j) \/ DataStep(j)
             \/ ReportStep(j) \/ AbortStep(j)
             \/ \E e \in Evidence : DataChanges(j, e)
      PROVE  MarkInv'
  BY <1>4, OtherJobsElsewhere, RunnerElsewhere, ElsewhereKeeps
<1>. QED  BY <1>1, <1>2, <1>3, <1>4 DEF Next

\* For any jobs, partitions, pool, script and any way satisfiers are shared: a
\* partition that a job got and reported as created is marked complete as soon as
\* nobody has an older copy left to write back, unless a job failed midway with it
\* or an aborted job's satisfier may have been at it.
THEOREM CreatedIsMarked == Spec => []SuccessIsMarked
<1>1. Inv /\ MarkInv /\ [Next]_vars => MarkInv'
  BY NextMarked
<1>2. MarkInv => SuccessIsMarked
  BY DEF MarkInv
<1>. QED  BY <1>1, <1>2, InitMarked, Invariant, PTL DEF Spec
=============================================================================

--------------------------- MODULE PartitionExists --------------------------
(* PartitionExistsSatisfier: adds a partition to a table of the metastore    *)
(* and marks it complete.  The witness it works for is a field, w, of the    *)
(* satisfier, and PartitionExists gives one satisfier to the jobs of all     *)
(* witnesses of a goal.  The metastore does one call at a time; a Partition  *)
(* object is a copy, and writing it back writes all its parameters.          *)
EXTENDS JobState

Creating(j) == kind[j] = "partition" /\ Run(j) \in busy

unchangedByPartition == <<kind, runner, reports, report, abort, closing, poolVars,
                          hiveVars, dataVars>>

Mark(marked) == IF marked THEN "marked" ELSE "unmarked"
CopyOf(p) == [partition |-> p, marked |-> table[p] = "marked"]

\* satisfy(): the job ends, or goes on.  Whatever throws is caught by robustly.
Ends(j, outcome) ==
  /\ result' = [result EXCEPT ![j] = outcome]
  /\ thread' = [thread EXCEPT ![j] = "over"]

Continues(j, at) == thread' = [thread EXCEPT ![j] = at] /\ UNCHANGED result

SetWitness(j) ==
  /\ Creating(j) /\ thread[j] = "start"
  /\ w' = [w EXCEPT ![Satisfier[j]] = Witness[j]]
  /\ Continues(j, "add")
  /\ UNCHANGED <<copy, table, unchangedByPartition>>

\* table.addPartition(w), up to the metastore's answer: a partition that exists
\* is returned like a new one, or reported when another process has just made it.
AddPartition(j) ==
  /\ Creating(j) /\ thread[j] = "add"
  /\ LET p == w[Satisfier[j]] IN
       \/ /\ copy' = [copy EXCEPT ![j] = CopyOf(p)]
          /\ table' = [table EXCEPT ![p] = IF @ = "absent" THEN "unmarked" ELSE @]
          /\ Continues(j, "alter")
       \/ table[p] # "absent" /\ Continues(j, "again") /\ UNCHANGED <<copy, table>>
       \/ Ends(j, "failure") /\ UNCHANGED <<copy, table>>
  /\ UNCHANGED <<w, unchangedByPartition>>

\* AlreadyExistsException: the partition is read, by the field.
GetPartition(j) ==
  /\ Creating(j) /\ thread[j] = "again"
  /\ LET p == w[Satisfier[j]] IN
       \/ /\ table[p] # "absent"
          /\ copy' = [copy EXCEPT ![j] = CopyOf(p)]
          /\ Continues(j, "mark")
       \/ Ends(j, "failure") /\ UNCHANGED copy
  /\ UNCHANGED <<w, table, unchangedByPartition>>

\* ms.alterPartition with the location: writes the copy back, mark and all.  It
\* is left out when the table gives no path for the witness.
AlterPartition(j) ==
  /\ Creating(j) /\ thread[j] = "alter"
  /\ \/ /\ table[copy[j].partition] # "absent"
        /\ table' = [table EXCEPT ![copy[j].partition] = Mark(copy[j].marked)]
        /\ Continues(j, "mark")
     \/ Continues(j, "mark") /\ UNCHANGED table
     \/ Ends(j, "failure") /\ UNCHANGED table
  /\ UNCHANGED <<w, copy, unchangedByPartition>>

\* Bug: the mark is put into the copy and not written back.
MarkKept(j) ==
  /\ Creating(j) /\ thread[j] = "mark"
  /\ copy' = [copy EXCEPT ![j].marked = TRUE]
  /\ Ends(j, "success")
  /\ UNCHANGED <<w, table, unchangedByPartition>>

MarkCompleted(j) ==
  /\ Creating(j) /\ thread[j] = "mark"
  /\ copy' = [copy EXCEPT ![j].marked = TRUE]
  /\ \/ /\ table[copy[j].partition] # "absent"
        /\ table' = [table EXCEPT ![copy[j].partition] = "marked"]
        /\ Ends(j, "success")
     \/ Ends(j, "failure") /\ UNCHANGED table
  /\ UNCHANGED <<w, unchangedByPartition>>

\* abort(), on the actor's thread: drops the partition of the latest witness, if
\* there is one; what throws is caught by robustly.
DropPartition(j) ==
  /\ LET p == w[Satisfier[j]] IN
       \/ p # NoPartition /\ table' = [table EXCEPT ![p] = "absent"]
       \/ UNCHANGED table
  /\ UNCHANGED <<w, copy>>

PartitionStep(j) ==
  \/ SetWitness(j) \/ AddPartition(j) \/ GetPartition(j)
  \/ AlterPartition(j) \/ MarkCompleted(j)
=============================================================================

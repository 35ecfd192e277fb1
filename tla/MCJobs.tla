------------------------------- MODULE MCJobs -------------------------------
EXTENDS JobExecution

CONSTANTS j1, j2, j3, j4, p1, p2, s1

Mix(a, b, c, d) ==
  [j \in Jobs |-> CASE j = j1 -> a [] j = j2 -> b [] j = j3 -> c [] OTHER -> d]

\* A Hive job that may be aborted, beside another; two jobs that create partitions,
\* when a third fills the queue; a job that creates a partition and may be aborted,
\* beside another; a job that waits for evidence.
AllMixes == {Mix("hive", "other", "none", "none"),
             Mix("none", "other", "partition", "partition"),
             Mix("partition", "none", "none", "partition"),
             Mix("data", "none", "none", "none")}
TwoPartitions == {Mix("none", "none", "partition", "partition")}

OwnPartition == [j \in Jobs |-> IF j = j4 THEN p2 ELSE p1]
SharedSatisfier == [j \in Jobs |-> s1]
=============================================================================

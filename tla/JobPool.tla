------------------------------ MODULE JobPool -------------------------------
(* JobRunner.executorPool, a ThreadPoolExecutor for all jobs of all tracks.  *)
(* A job is two tasks: its execution, and the callback that checks and       *)
(* reports its result, which is submitted by the thread that has just        *)
(* executed it, or by the runner when the result was there before it asked   *)
(* to be called.  A task that is refused throws in whoever submits it.       *)
EXTENDS JobState

\* Bug: the queue is full one task too early.
QueueNearlyFull == Len(queue) >= QueueSize - 1

QueueFull == Len(queue) >= QueueSize
\* Bug: one thread more than the maximum is made.
RefusesLate == QueueFull /\ poolSize > MaxPoolSize

Refuses == QueueFull /\ poolSize >= MaxPoolSize

\* ThreadPoolExecutor.execute: up to the core size each task has a new thread;
\* then tasks queue; and only when the queue is full more threads are made.
Execute(t) ==
  /\ ~Refuses
  /\ IF poolSize < CorePoolSize \/ QueueFull
     THEN poolSize' = poolSize + 1 /\ busy' = busy \cup {t} /\ UNCHANGED queue
     ELSE queue' = Append(queue, t) /\ UNCHANGED <<poolSize, busy>>
  /\ UNCHANGED refused

Reject(t) ==
  /\ Refuses
  /\ refused' = refused \cup {t}
  /\ UNCHANGED <<poolSize, busy, queue>>

\* A thread that has nothing to do takes the oldest task.
TakeTask ==
  /\ queue # <<>> /\ Cardinality(busy) < poolSize
  /\ busy' = busy \cup {Head(queue)}
  /\ queue' = Tail(queue)
  /\ UNCHANGED <<poolSize, refused, runnerVars, hiveVars, partitionVars, dataVars>>

\* A thread returns from its task.
TaskEnds(t) ==
  /\ t \in busy
  /\ \E j \in Jobs : \/ t = Run(j) /\ thread[j] \in {"over", "ended"}
                     \/ t = Report(j) /\ report[j] = "ended"
  /\ busy' = busy \ {t}
  /\ UNCHANGED <<poolSize, queue, refused, runnerVars, hiveVars, partitionVars, dataVars>>

\* keepAliveTime: threads above the core size end when they stay idle.
ThreadExpires ==
  /\ queue = <<>> /\ Cardinality(busy) < poolSize /\ poolSize > CorePoolSize
  /\ poolSize' = poolSize - 1
  /\ UNCHANGED <<busy, queue, refused, runnerVars, hiveVars, partitionVars, dataVars>>

PoolStep == TakeTask \/ ThreadExpires \/ \E t \in busy : TaskEnds(t)
=============================================================================

---------------------------- MODULE HiveSatisfier ---------------------------
(* A Hive job: the statements of setup.hql and of the query resource, one by *)
(* one, each on the driver that the Releaseable holds at that moment.  Three *)
(* threads use the Releaseable without a lock: the job's gets and releases   *)
(* it, the JobRunner releases it on Abort, and the report's thread on        *)
(* finish().  A driver that is used after it was closed opens again, for a   *)
(* HiveLocalDriver builds its Apache driver whenever it is missing.          *)
EXTENDS JobState

Executing(j) == kind[j] = "hive" /\ Run(j) \in busy

unchangedByHive == <<kind, runner, reports, report, abort, closing, poolVars,
                     partitionVars, dataVars>>

\* satisfy() leaves its try block: finally, the driver is released.
Finally(j, outcome) ==
  /\ result' = [result EXCEPT ![j] = outcome]
  /\ thread' = [thread EXCEPT ![j] = "test"]

Goes(j, at) == thread' = [thread EXCEPT ![j] = at] /\ UNCHANGED result

\* satisfy(): the properties of the track, which may throw.
HiveBegins(j) ==
  /\ Executing(j) /\ thread[j] = "start"
  /\ Goes(j, "build") \/ Finally(j, "failure")
  /\ UNCHANGED <<hiveVars, unchangedByHive>>

\* Bug: driver.get makes a driver each time, as without the test of _inner.
BuildsAlways(j) ==
  /\ Executing(j) /\ thread[j] = "build"
  /\ \/ /\ Goes(j, "get")
        /\ made' = [made EXCEPT ![j] = @ + 1]
        /\ inner' = [inner EXCEPT ![j] = made[j] + 1]
        /\ open' = [open EXCEPT ![j] = @ \cup {made[j] + 1}]
     \/ Finally(j, "failure") /\ UNCHANGED <<inner, made, open>>
  /\ UNCHANGED <<current, position, ranOn, unchangedByHive>>

\* driver.get: the test, and the making of a driver, which may throw.
BuildDriver(j) ==
  /\ Executing(j) /\ thread[j] = "build"
  /\ \/ inner[j] # NoDriver /\ Goes(j, "get") /\ UNCHANGED <<inner, made, open>>
     \/ /\ inner[j] = NoDriver /\ Goes(j, "get")
        /\ made' = [made EXCEPT ![j] = @ + 1]
        /\ inner' = [inner EXCEPT ![j] = made[j] + 1]
        /\ open' = [open EXCEPT ![j] = @ \cup {made[j] + 1}]
     \/ inner[j] = NoDriver /\ Finally(j, "failure") /\ UNCHANGED <<inner, made, open>>
  /\ UNCHANGED <<current, position, ranOn, unchangedByHive>>

\* driver.get: the second read, which may find null.  satisfy's own get, before
\* the first statement, ignores what it is given.
GetDriver(j) ==
  /\ Executing(j) /\ thread[j] = "get"
  /\ current' = [current EXCEPT ![j] = inner[j]]
  /\ \/ position[j] = 0 /\ Goes(j, "next")
     \/ position[j] > 0 /\ inner[j] # NoDriver /\ Goes(j, "execute")
     \/ position[j] > 0 /\ inner[j] = NoDriver /\ Finally(j, "failure")
  /\ UNCHANGED <<inner, made, open, position, ranOn, unchangedByHive>>

\* The next statement of the script, unless a variable of it, or of a file it
\* sources, has no value.
NextStatement(j) ==
  /\ Executing(j) /\ thread[j] = "next"
  /\ \/ /\ position[j] < NumStatements
        /\ position' = [position EXCEPT ![j] = @ + 1]
        /\ Goes(j, "build")
     \/ position[j] < NumStatements /\ Finally(j, "failure") /\ UNCHANGED position
     \/ position[j] = NumStatements /\ Finally(j, "success") /\ UNCHANGED position
  /\ UNCHANGED <<inner, made, open, current, ranOn, unchangedByHive>>

StatementStarts(j) ==
  /\ Executing(j) /\ thread[j] = "execute"
  /\ open' = [open EXCEPT ![j] = @ \cup {current[j]}]
  /\ ranOn' = [ranOn EXCEPT ![j] = @ \cup {current[j]}]
  /\ Goes(j, "executing")
  /\ UNCHANGED <<inner, made, current, position, unchangedByHive>>

\* A response code other than 0 is looked into with the driver, which builds it
\* anew when it has been closed meanwhile.
StatementEnds(j) ==
  /\ Executing(j) /\ thread[j] = "executing"
  /\ \/ Goes(j, "next") /\ UNCHANGED open
     \/ /\ Finally(j, "failure")
        /\ open' = [open EXCEPT ![j] = @ \cup {current[j]}]
  /\ UNCHANGED <<inner, made, current, position, ranOn, unchangedByHive>>
-----------------------------------------------------------------------------
(* Releaseable.release, for the thread that is at `at`: the test of _inner,  *)
(* the finalizer on what a second read finds, and the assignment of null.    *)
ReleasePoints == {"test", "close", "clear"}

AfterRelease(j, at) ==
  CASE at = "test"  -> IF inner[j] = NoDriver THEN "released" ELSE "close"
    [] at = "close" -> IF inner[j] = NoDriver THEN "thrown" ELSE "clear"
    [] at = "clear" -> "released"

\* Bug: the handle is cleared and the driver left open.
ReleaseForgets(j, at) ==
  /\ open' = open
  /\ inner' = IF at = "clear" THEN [inner EXCEPT ![j] = NoDriver] ELSE inner
  /\ UNCHANGED <<made, current, position, ranOn>>

Release(j, at) ==
  /\ open' = IF at = "close" THEN [open EXCEPT ![j] = @ \ {inner[j]}] ELSE open
  /\ inner' = IF at = "clear" THEN [inner EXCEPT ![j] = NoDriver] ELSE inner
  /\ UNCHANGED <<made, current, position, ranOn>>

\* The finally of satisfy(); an exception there takes the place of its result.
ReleasedByJob(j) ==
  /\ Executing(j) /\ thread[j] \in ReleasePoints
  /\ Release(j, thread[j])
  /\ LET next == AfterRelease(j, thread[j]) IN
       /\ thread' = [thread EXCEPT ![j] = IF next \in ReleasePoints THEN next ELSE "over"]
       /\ result' = [result EXCEPT ![j] = IF next = "thrown" THEN "failure" ELSE @]
  /\ UNCHANGED unchangedByHive

HiveStep(j) ==
  \/ HiveBegins(j) \/ BuildDriver(j) \/ GetDriver(j) \/ NextStatement(j)
  \/ StatementStarts(j) \/ StatementEnds(j) \/ ReleasedByJob(j)
=============================================================================

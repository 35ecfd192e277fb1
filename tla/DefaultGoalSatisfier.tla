------------------------- MODULE DefaultGoalSatisfier ------------------------
(* The actor a prover creates for a goal without a satisfier: it looks for   *)
(* the evidence that has not been seen yet every 30 s, until all of it has   *)
(* been seen.  A check that throws fails the job each time, and the actor    *)
(* goes on looking.                                                          *)
EXTENDS JobState

unchangedByData == <<kind, runner, result, report, abort, closing, poolVars,
                     hiveVars, partitionVars>>

\* case Satisfy, and case CheckEvidence, from the actor's own timer.
BeginsCheck(j) ==
  /\ kind[j] = "data" /\ thread[j] \in {"start", "waiting"}
  /\ thread' = [thread EXCEPT ![j] = "checking"]
  /\ toCheck' = [toCheck EXCEPT ![j] = remaining[j]]
  /\ UNCHANGED <<reports, remaining, present, broken, unchangedByData>>

\* evidenceToCheck.exists: true, false or an exception.  MaxReports bounds how
\* often a broken evidence is looked at.
ChecksOne(j, e) ==
  /\ kind[j] = "data" /\ thread[j] = "checking" /\ e \in toCheck[j]
  /\ e \in broken[j] => Len(reports[j]) < MaxReports
  /\ toCheck' = [toCheck EXCEPT ![j] = @ \ {e}]
  /\ remaining' = [remaining EXCEPT ![j] =
                     IF e \in present[j] \ broken[j] THEN @ \ {e} ELSE @]
  /\ reports' = [reports EXCEPT ![j] = IF e \in broken[j] THEN Append(@, "failure") ELSE @]
  /\ UNCHANGED <<thread, present, broken, unchangedByData>>

\* Bug: the failure of a check ends the polling.
EndsCheckOnFailure(j) ==
  /\ kind[j] = "data" /\ thread[j] = "checking" /\ toCheck[j] = {}
  /\ IF remaining[j] = {}
     THEN /\ reports' = [reports EXCEPT ![j] = Append(@, "success")]
          /\ thread' = [thread EXCEPT ![j] = "over"]
     ELSE /\ thread' = [thread EXCEPT ![j] = IF reports[j] # <<>> THEN "over" ELSE "waiting"]
          /\ UNCHANGED reports
  /\ UNCHANGED <<remaining, toCheck, present, broken, unchangedByData>>

\* Bug: the timer is set although nothing remains.
EndsCheckAndGoesOn(j) ==
  /\ kind[j] = "data" /\ thread[j] = "checking" /\ toCheck[j] = {}
  /\ Len(reports[j]) <= MaxReports
  /\ thread' = [thread EXCEPT ![j] = "waiting"]
  /\ reports' = [reports EXCEPT ![j] = IF remaining[j] = {} THEN Append(@, "success") ELSE @]
  /\ UNCHANGED <<remaining, toCheck, present, broken, unchangedByData>>

\* finish() or checkAgainLater(): the actor rests, and is never stopped.
EndsCheck(j) ==
  /\ kind[j] = "data" /\ thread[j] = "checking" /\ toCheck[j] = {}
  /\ \/ /\ remaining[j] = {}
        /\ reports' = [reports EXCEPT ![j] = Append(@, "success")]
        /\ thread' = [thread EXCEPT ![j] = "over"]
     \/ /\ remaining[j] # {}
        /\ thread' = [thread EXCEPT ![j] = "waiting"]
        /\ UNCHANGED reports
  /\ UNCHANGED <<remaining, toCheck, present, broken, unchangedByData>>

\* Data comes and goes; a check is disturbed, by a Hadoop service or in the
\* evidence itself, and works again.
DataChanges(j, e) ==
  /\ kind[j] = "data" /\ thread[j] # "over"
  /\ \/ /\ present' = [present EXCEPT ![j] = (@ \ {e}) \cup ({e} \ @)]
        /\ UNCHANGED broken
     \/ /\ broken' = [broken EXCEPT ![j] = (@ \ {e}) \cup ({e} \ @)]
        /\ UNCHANGED present
  /\ UNCHANGED <<reports, thread, remaining, toCheck, unchangedByData>>

DataStep(j) == BeginsCheck(j) \/ EndsCheck(j) \/ \E e \in Evidence : ChecksOne(j, e)
=============================================================================

-------------------------- MODULE PredicateProver --------------------------
(* The actor that satisfies one goal for one witness: one action per message *)
(* its receive matches.  A handler runs to its end before the next message   *)
(* is taken, so each is one step; what it shares with the rest of the system *)
(* is its status object, which parents and agents read while it changes.     *)
EXTENDS EngineState

\* What every handler but those named below leaves alone.
othersUnchanged == UNCHANGED <<resends, futures, finishing, orphans,
                               marks, retryVars, clientVars>>
-----------------------------------------------------------------------------
\* Bug: no look at the state before the job is started.
RunLocalJobAgain(g, box) ==
  /\ jobRunner[g] \/ ~runner[g]
  /\ state' = [state EXCEPT ![g] = "Running"]
  /\ jobRunner' = [jobRunner EXCEPT ![g] = TRUE]
  /\ runner' = [runner EXCEPT ![g] = @ \/ ~jobRunner[g]]
  /\ runnerBox' = IF runner'[g]
                  THEN [runnerBox EXCEPT ![g] = Append(@, "Satisfy")]
                  ELSE runnerBox
  /\ Quiet(box)

(* runLocalJob: nothing if the state is Running already; else a new          *)
(* JobRunner, or another Satisfy to the one the prover still refers to, which*)
(* may have stopped.  Its name must be free, or the goal fails on the spot.  *)
RunLocalJob(g, box) ==
  \/ /\ state[g] = "Running"
     /\ Quiet(box)
     /\ UNCHANGED <<state, jobRunner, runner, runnerBox>>
  \/ /\ state[g] # "Running"
     /\ jobRunner[g] \/ ~runner[g]
     /\ state' = [state EXCEPT ![g] = "Running"]
     /\ jobRunner' = [jobRunner EXCEPT ![g] = TRUE]
     /\ runner' = [runner EXCEPT ![g] = @ \/ ~jobRunner[g]]
     /\ runnerBox' = IF runner'[g]
                     THEN [runnerBox EXCEPT ![g] = Append(@, "Satisfy")]
                     ELSE runnerBox
     /\ Quiet(box)
  \/ /\ state[g] # "Running"
     /\ ~jobRunner[g] /\ runner[g]
     /\ state' = [state EXCEPT ![g] = MarkUnexpected]
     /\ Publish(g, "GoalFailure", listeners'[g], box)
     /\ UNCHANGED <<jobRunner, runner, runnerBox>>

(* sendCheckEvidence for every evidence: the new actors are numbered from    *)
(* the size of _evidenceCheckers up, and the first name that is taken throws.*)
NewIds(g) == LET n == Cardinality(checkers[g]) IN (n + 1)..(n + NumEvidence[g])
Created(g) ==
  {i \in NewIds(g) : \A j \in NewIds(g) : j <= i => j \notin evidenceActors[g]}
NamesFree(g) == NewIds(g) \cap evidenceActors[g] = {}

CreateCheckers(g) ==
  /\ evidenceActors' = [evidenceActors EXCEPT ![g] = @ \cup Created(g)]
  /\ probes' = [probes EXCEPT ![g] = @ \cup Created(g)]

CheckEvidence(g, box) ==
  /\ NamesFree(g)
  /\ CreateCheckers(g)
  /\ checkers' = [checkers EXCEPT ![g] = @ \cup NewIds(g)]
  /\ state' = [state EXCEPT ![g] = "CheckingEvidence"]
  /\ Quiet(box)

\* What failureCheck makes of an exception.
Unexpectedly(g, box) ==
  /\ state' = [state EXCEPT ![g] = MarkUnexpected]
  /\ Publish(g, "GoalFailure", listeners'[g], box)

CheckEvidenceFails(g, box) ==
  /\ ~NamesFree(g)
  /\ CreateCheckers(g)
  /\ checkers' = [checkers EXCEPT ![g] = @ \cup Created(g)]
  /\ Unexpectedly(g, box)

(* What Akka does with an exception no failureCheck catches: the message is  *)
(* gone, and a new instance of the actor takes over the mailbox.             *)
Restart(g) ==
  /\ state' = [state EXCEPT ![g] = "Unstarted"]
  /\ force' = [force EXCEPT ![g] = FALSE]
  /\ listeners' = [listeners EXCEPT ![g] = {}]
  /\ childStatus' = [childStatus EXCEPT ![g] = {}]
  /\ checkers' = [checkers EXCEPT ![g] = {}]
  /\ jobRunner' = [jobRunner EXCEPT ![g] = FALSE]
  /\ incarnation' = [incarnation EXCEPT ![g] = @ + 1]
  /\ Quiet(Taken(g))
-----------------------------------------------------------------------------
(* satisfy: wait for the dependencies if there are any.                      *)
SatisfyDependencies(g, f, box) ==
  LET sent(d) == [e \in 1..Cardinality(Entries(g, d)) |-> SatisfyMsg(g, f)] IN
  /\ UNCHANGED <<jobRunner, runner, runnerBox>>
  /\ \/ /\ g \notin BadWitness
        /\ state' = [state EXCEPT ![g] = "WaitingOnDependencies"]
        /\ Quiet([h \in Goals |-> box[h] \o sent(h)])
     \/ g \in BadWitness /\ Unexpectedly(g, box)

noChecks == UNCHANGED <<checkers, evidenceActors, probes>>
noJob == UNCHANGED <<jobRunner, runner, runnerBox>>

\* The first Satisfy starts the work.
HandleFirstSatisfy(g) ==
  LET m == Head(mailbox[g])
      box == Taken(g)
      checksFirst == HasEvidence(g) /\ (~m.force \/ ~HasDependencies(g))
  IN
  /\ Received(g, "Satisfy")
  /\ state[g] = "Unstarted"
  /\ force' = [force EXCEPT ![g] = m.force]
  /\ listeners' = [listeners EXCEPT ![g] = @ \cup {m.from}]
  /\ \/ checksFirst /\ noJob /\ (CheckEvidence(g, box) \/ CheckEvidenceFails(g, box))
     \/ ~checksFirst /\ noChecks /\ HasDependencies(g)
                     /\ SatisfyDependencies(g, m.force, box)
     \/ ~checksFirst /\ noChecks /\ ~HasDependencies(g) /\ RunLocalJob(g, box)
  /\ UNCHANGED <<childStatus, incarnation>> /\ othersUnchanged

\* Bug: the answer is left to the next publishing, even after the end.
LaterSatisfyUnanswered(g) ==
  /\ Received(g, "Satisfy")
  /\ state[g] # "Unstarted"
  /\ listeners' = [listeners EXCEPT ![g] = @ \cup {Head(mailbox[g]).from}]
  /\ Quiet(Taken(g))
  /\ UNCHANGED <<state, force, childStatus, incarnation>>
  /\ noChecks /\ noJob /\ othersUnchanged

\* Bug: the requester of a goal under way is not added to the listeners.
LaterSatisfyUnheard(g) ==
  LET from == Head(mailbox[g]).from IN
  /\ Received(g, "Satisfy")
  /\ state[g] # "Unstarted"
  /\ \/ state[g] \in Satisfied /\ Publish(g, "GoalSuccess", {from}, Taken(g))
     \/ state[g] \in Unsatisfied /\ Publish(g, "GoalFailure", {from}, Taken(g))
     \/ state[g] \in Unfinished /\ Quiet(Taken(g))
  /\ UNCHANGED <<state, force, listeners, childStatus, incarnation>>
  /\ noChecks /\ noJob /\ othersUnchanged

\* A later one adds a listener, which is told the outcome if there is one.
HandleLaterSatisfy(g) ==
  LET from == Head(mailbox[g]).from IN
  /\ Received(g, "Satisfy")
  /\ state[g] # "Unstarted"
  /\ listeners' = [listeners EXCEPT ![g] = @ \cup {from}]
  /\ \/ state[g] \in Satisfied /\ Publish(g, "GoalSuccess", {from}, Taken(g))
     \/ state[g] \in Unsatisfied /\ Publish(g, "GoalFailure", {from}, Taken(g))
     \/ state[g] \in Unfinished /\ Quiet(Taken(g))
  /\ UNCHANGED <<state, force, childStatus, incarnation>>
  /\ noChecks /\ noJob /\ othersUnchanged

\* Bug: a missing evidence starts the job whatever has happened since.
EvidenceResultAnyState(g) ==
  LET m == Head(mailbox[g]) IN
  /\ Received(g, "EvidenceCheckResult")
  /\ checkers' = [checkers EXCEPT ![g] = @ \ {m.id}]
  /\ evidenceActors' = [evidenceActors EXCEPT ![g] = @ \ {m.id}]
  /\ UNCHANGED <<force, listeners, childStatus, incarnation, probes>>
  /\ othersUnchanged
  /\ \/ ~m.exists /\ RunLocalJob(g, Taken(g))
     \/ m.exists /\ UNCHANGED state /\ Quiet(Taken(g)) /\ noJob

(* A result counts only while the prover still holds that checker; the first *)
(* missing evidence starts the work, the last existing one settles the goal. *)
HandleEvidenceCheckResult(g) ==
  LET m == Head(mailbox[g])
      box == Taken(g)
      known == m.id \in checkers[g]
      settles == known /\ state[g] = "CheckingEvidence"
                       /\ (m.exists => checkers[g] = {m.id})
  IN
  /\ Received(g, "EvidenceCheckResult")
  /\ checkers' = [checkers EXCEPT ![g] = @ \ {m.id}]
  /\ evidenceActors' = IF known THEN [evidenceActors EXCEPT ![g] = @ \ {m.id}]
                                ELSE evidenceActors
  /\ UNCHANGED <<force, listeners, childStatus, incarnation, probes>>
  /\ othersUnchanged
  /\ \/ ~settles /\ UNCHANGED state /\ Quiet(box) /\ noJob
     \/ settles /\ ~m.exists /\ ~force[g] /\ HasDependencies(g)
                /\ SatisfyDependencies(g, FALSE, box)
     \/ settles /\ ~m.exists /\ (force[g] \/ ~HasDependencies(g))
                /\ RunLocalJob(g, box)
     \/ settles /\ m.exists /\ g \notin BadWitness
                /\ state' = [state EXCEPT ![g] = "AlreadySatisfied"]
                /\ Publish(g, "GoalSuccess", listeners[g], box)
                /\ noJob
     \/ settles /\ m.exists /\ g \in BadWitness /\ Unexpectedly(g, box) /\ noJob
-----------------------------------------------------------------------------
(* Messages from dependencies.                                               *)

\* Bug: the map of statuses is replaced where it should be added to.
OnlyLatestChild(g, s) == {s}
WithChild(g, s) == {t \in childStatus[g] : t[1] # s[1]} \cup {s}

\* dependencies is empty while the goal is unstarted, running or satisfied.
HidesDependencies(g) == state[g] \in {"AlreadySatisfied", "Unstarted", "Running"}
NumDependencies(g) == IF HidesDependencies(g) THEN 0 ELSE Cardinality(Dependencies[g])

\* Bug: the first success is taken for the last.
ReadyAtFirst(g, s) == \A t \in WithChild(g, s) : CanProceed(LiveState(t))
ReadyToProceed(g, s) ==
  /\ Cardinality(WithChild(g, s)) >= NumDependencies(g)
  /\ \A t \in WithChild(g, s) : CanProceed(LiveState(t))

\* Bug: the failure is passed on and the state left as it was.
GoalFailureUnmarked(g) ==
  LET s == Head(mailbox[g]).status IN
  /\ Received(g, "GoalFailure")
  /\ childStatus' = [childStatus EXCEPT ![g] = WithChild(g, s)]
  /\ Publish(g, "GoalFailure", listeners[g], Taken(g))
  /\ UNCHANGED <<state, force, listeners, incarnation>>
  /\ noChecks /\ noJob /\ othersUnchanged

HandleGoalFailure(g) ==
  LET s == Head(mailbox[g]).status IN
  /\ Received(g, "GoalFailure")
  /\ childStatus' = [childStatus EXCEPT ![g] = WithChild(g, s)]
  /\ state' = [state EXCEPT ![g] = "DependencyFailed"]
  /\ Publish(g, "GoalFailure", listeners[g], Taken(g))
  /\ UNCHANGED <<force, listeners, incarnation>>
  /\ noChecks /\ noJob /\ othersUnchanged

HandleGoalSuccess(g) ==
  LET s == Head(mailbox[g]).status
      checksFirst == force[g] /\ HasEvidence(g)
  IN
  /\ Received(g, "GoalSuccess")
  /\ childStatus' = [childStatus EXCEPT ![g] = WithChild(g, s)]
  /\ UNCHANGED <<force, listeners, incarnation>> /\ othersUnchanged
  /\ \/ ~ReadyToProceed(g, s) /\ UNCHANGED state /\ Quiet(Taken(g)) /\ noChecks /\ noJob
     \/ ReadyToProceed(g, s) /\ checksFirst /\ CheckEvidence(g, Taken(g)) /\ noJob
     \/ ReadyToProceed(g, s) /\ ~checksFirst /\ RunLocalJob(g, Taken(g)) /\ noChecks

\* sendCheckEvidence throws where no failureCheck is around it.
HandleGoalSuccessThrows(g) ==
  /\ Received(g, "GoalSuccess")
  /\ ReadyToProceed(g, Head(mailbox[g]).status)
  /\ force[g] /\ HasEvidence(g) /\ ~NamesFree(g)
  /\ CreateCheckers(g)
  /\ Restart(g)
  /\ UNCHANGED <<runner, runnerBox>> /\ othersUnchanged
-----------------------------------------------------------------------------
(* Messages from the JobRunner, and from an EvidenceChecker whose check      *)
(* threw.                                                                    *)
HandleJobRunSuccess(g) ==
  /\ Received(g, "JobRunSuccess")
  /\ state' = [state EXCEPT ![g] = MarkExecution(@, TRUE)]
  /\ Publish(g, "GoalSuccess", listeners[g], Taken(g))
  /\ UNCHANGED <<force, listeners, childStatus, incarnation>>
  /\ noChecks /\ noJob /\ othersUnchanged

\* Bug: the reference to the stopped JobRunner is kept.
JobRunFailedKeepsRunner(g) ==
  /\ Received(g, "JobRunFailed")
  /\ state' = [state EXCEPT ![g] = "Failed"]
  /\ Publish(g, "GoalFailure", listeners[g], Taken(g))
  /\ UNCHANGED <<force, listeners, childStatus, incarnation>>
  /\ noChecks /\ noJob /\ othersUnchanged

\* Bug: a failure the RetryAgent may turn into a success is kept from the others.
JobRunFailedTellsAgent(g) ==
  /\ Received(g, "JobRunFailed")
  /\ jobRunner' = [jobRunner EXCEPT ![g] = FALSE]
  /\ state' = [state EXCEPT ![g] = "Failed"]
  /\ Publish(g, "GoalFailure",
             IF g \in Retryable THEN {retryAgent} ELSE listeners[g], Taken(g))
  /\ UNCHANGED <<force, listeners, childStatus, incarnation, runner, runnerBox>>
  /\ noChecks /\ othersUnchanged

HandleJobRunFailed(g) ==
  /\ Received(g, "JobRunFailed")
  /\ jobRunner' = [jobRunner EXCEPT ![g] = FALSE]
  /\ state' = [state EXCEPT ![g] = "Failed"]
  /\ Publish(g, "GoalFailure", listeners[g], Taken(g))
  /\ UNCHANGED <<force, listeners, childStatus, incarnation, runner, runnerBox>>
  /\ noChecks /\ othersUnchanged
-----------------------------------------------------------------------------
(* RestartJob reruns the job of a failed goal as it stands; a goal with a    *)
(* failed dependency compares each dependency's StatusResponse with a state, *)
(* which never matches, and goes back to waiting without asking again.       *)
HandleRestartJob(g) ==
  /\ Received(g, "RestartJob")
  /\ UNCHANGED <<force, listeners, childStatus, incarnation>>
  /\ noChecks /\ othersUnchanged
  /\ \/ state[g] = "Failed" /\ RunLocalJob(g, Taken(g))
     \/ /\ state[g] = "DependencyFailed"
        /\ state' = [state EXCEPT ![g] = "WaitingOnDependencies"]
        /\ Quiet(Taken(g)) /\ noJob
     \/ /\ state[g] \notin {"Failed", "DependencyFailed"}
        /\ UNCHANGED state /\ Quiet(Taken(g)) /\ noJob

(* Abort stops a running job; a goal that waits forwards the companion       *)
(* object to its dependencies and schedules a KillActor for itself, messages *)
(* no prover matches.                                                        *)
HandleAbort(g) ==
  LET kill == Head(mailbox[g]).killChildren
      targets == IF kill /\ state[g] # "Unstarted" THEN Children(g) ELSE {}
      forwarded == [h \in Goals |-> IF h \in targets \cup {g}
                                    THEN Append(Taken(g)[h], UnexpectedMsg)
                                    ELSE Taken(g)[h]]
  IN
  /\ Received(g, "Abort")
  /\ \/ /\ state[g] \in Satisfied
        /\ UNCHANGED <<state, runnerBox>> /\ Quiet(Taken(g))
     \/ /\ state[g] = "Failed"
        /\ state' = [state EXCEPT ![g] = "Aborted"]
        /\ Quiet([Taken(g) EXCEPT ![g] = Append(@, UnexpectedMsg)])
        /\ UNCHANGED runnerBox
     \/ /\ state[g] = "Running"
        /\ state' = [state EXCEPT ![g] = "Aborted"]
        /\ runnerBox' = IF runner[g]
                        THEN [runnerBox EXCEPT ![g] = Append(@, "Abort")]
                        ELSE runnerBox
        /\ Quiet(Taken(g))
     \/ /\ state[g] \in {"DependencyFailed", "Unstarted", "WaitingOnDependencies"}
        /\ Quiet(forwarded)
        /\ UNCHANGED <<state, runnerBox>>
  /\ UNCHANGED <<force, listeners, childStatus, incarnation, jobRunner, runner>>
  /\ noChecks /\ othersUnchanged

\* The match in Abort's handler has no case for these two states.
HandleAbortThrows(g) ==
  /\ Received(g, "Abort")
  /\ state[g] \in {"CheckingEvidence", "Aborted"}
  /\ Restart(g)
  /\ UNCHANGED <<evidenceActors, probes, runner, runnerBox>> /\ othersUnchanged

(* WhatsYourStatus is answered at once with the status object.  On the way   *)
(* the dependencies are asked the same, and on a thread of its own a future  *)
(* puts their answers into childStatus, one by one, whenever it gets to it;  *)
(* an answer is the status of the incarnation that gave it.  Where acquiring *)
(* the dependencies throws, the goal is marked failed and nobody told.  The  *)
(* messages are left out: they change nothing else.  Of their order only this*)
(* matters: a goal that has sent its dependencies Satisfy asks after that,   *)
(* and only one that checks its evidence first can have asked before.        *)
AsksAfterSatisfy(g) == force[g] \/ ~HasEvidence(g)

ChildStatusArrives(g, d) ==
  /\ g \notin BadWitness /\ state[g] # "Unstarted"
  /\ AsksAfterSatisfy(g) => ~SatisfyQueued(g, d)
  /\ \E n \in 0..incarnation[d] :
       childStatus' = [childStatus EXCEPT ![g] = WithChild(g, <<d, n>>)]
  /\ UNCHANGED state

WhatsYourStatusThrows(g) ==
  /\ g \in BadWitness /\ HasDependencies(g) /\ ~HidesDependencies(g)
  /\ state' = [state EXCEPT ![g] = MarkUnexpected]
  /\ UNCHANGED childStatus

WhatsYourStatus(g) ==
  /\ g \in Queried
  /\ WhatsYourStatusThrows(g) \/ \E d \in Children(g) : ChildStatusArrives(g, d)
  /\ UNCHANGED <<force, listeners, checkers, jobRunner, incarnation, boxVars,
                 checkerVars, runnerVars, retryVars, clientVars>>

HandleUnexpected(g) ==
  /\ Received(g, "Unexpected")
  /\ Quiet(Taken(g))
  /\ UNCHANGED <<proverVars, checkerVars, runnerVars, retryVars, clientVars>>

ProverReceive(g) ==
  \/ HandleFirstSatisfy(g) \/ HandleLaterSatisfy(g)
  \/ HandleEvidenceCheckResult(g)
  \/ HandleGoalFailure(g)
  \/ HandleGoalSuccess(g) \/ HandleGoalSuccessThrows(g)
  \/ HandleJobRunSuccess(g) \/ HandleJobRunFailed(g)
  \/ HandleRestartJob(g)
  \/ HandleAbort(g) \/ HandleAbortThrows(g)
  \/ HandleUnexpected(g)
=============================================================================

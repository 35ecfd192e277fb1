----------------------------- MODULE RetryAgent -----------------------------
(* The listener that restarts a failed goal after a wait.  It decides on the *)
(* state the status shows when it handles the message, and its timers go off *)
(* whether or not it has stopped.                                            *)
EXTENDS EngineState

CONSTANT MaxRetries     \* retryable.maxRetries

ASSUME MaxRetriesType == MaxRetries \in Nat

RetryReceived(g, type) ==
  retryUp[g] /\ retryBox[g] # <<>> /\ Head(retryBox[g]).type = type

\* Bug: the retry is counted and not scheduled.
AgentGoalFailureForgets(g) ==
  /\ RetryReceived(g, "GoalFailure")
  /\ retryBox' = [retryBox EXCEPT ![g] = Tail(@)]
  /\ retries' = [retries EXCEPT ![g] =
                   IF LiveState(Head(retryBox[g]).status) = "Failed" /\ @ < MaxRetries
                   THEN @ + 1 ELSE @]
  /\ UNCHANGED <<proverVars, mailbox, reply, checkerVars, runnerVars, retryUp,
                 timers, clientVars>>

AgentGoalFailure(g) ==
  LET restart == /\ LiveState(Head(retryBox[g]).status) = "Failed"
                 /\ retries[g] < MaxRetries
      more == IF restart THEN 1 ELSE 0
  IN
  /\ RetryReceived(g, "GoalFailure")
  /\ retryBox' = [retryBox EXCEPT ![g] = Tail(@)]
  /\ retries' = [retries EXCEPT ![g] = @ + more]
  /\ timers' = [timers EXCEPT ![g] = @ + more]
  /\ UNCHANGED <<proverVars, mailbox, reply, checkerVars, runnerVars, retryUp,
                 clientVars>>

AgentGoalSuccess(g) ==
  /\ RetryReceived(g, "GoalSuccess")
  /\ retryUp' = [retryUp EXCEPT ![g] = FALSE]
  /\ retryBox' = [retryBox EXCEPT ![g] = <<>>]
  /\ UNCHANGED <<proverVars, mailbox, reply, checkerVars, runnerVars, retries,
                 timers, clientVars>>

RestartTimer(g) ==
  /\ timers[g] > 0
  /\ timers' = [timers EXCEPT ![g] = @ - 1]
  /\ Quiet([mailbox EXCEPT ![g] = Append(@, RestartMsg)])
  /\ UNCHANGED <<proverVars, checkerVars, runnerVars, retryUp, retries, clientVars>>

RetryAgentStep(g) == AgentGoalFailure(g) \/ AgentGoalSuccess(g) \/ RestartTimer(g)
=============================================================================

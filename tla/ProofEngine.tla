----------------------------- MODULE ProofEngine -----------------------------
(* The engine: its clients, and the actors behind each goal, composed.       *)
EXTENDS PredicateProver, JobRunner, EvidenceChecker, RetryAgent

CONSTANTS
  ForceModes,     \* the forceSatisfy values clients use; satisfyGoal: {TRUE}
  Abortable,      \* goals clients may abort
  MaxAborts,      \* bound: calls of abortGoal
  Restartable     \* bound: goals restartGoal is called for, once each

ASSUME BoundsType == /\ ForceModes \subseteq BOOLEAN /\ Abortable \subseteq Goals
                     /\ MaxAborts \in Nat /\ Restartable \subseteq Goals
                     /\ NoValue \notin Goals

Deliver(g, m) == Quiet([mailbox EXCEPT ![g] = Append(@, m)])

\* satisfyGoal: an ask that only the prover's answer completes.
SatisfyGoal(c, g) ==
  /\ asked[c] = NoValue
  /\ asked' = [asked EXCEPT ![c] = g]
  /\ reply' = [reply EXCEPT ![c] = "waiting"]
  /\ \E f \in ForceModes :
       mailbox' = [mailbox EXCEPT ![g] = Append(@, SatisfyMsg(c, f))]
  /\ UNCHANGED <<proverVars, retryBox, checkerVars, runnerVars, retryVars,
                 aborts, restarts>>

AbortGoal(g) ==
  /\ g \in Abortable /\ aborts < MaxAborts
  /\ aborts' = aborts + 1
  /\ Deliver(g, AbortMsg(TRUE))
  /\ UNCHANGED <<proverVars, checkerVars, runnerVars, retryVars, asked, restarts>>

\* restartGoal sends RestartJob(), an instance; provers match the companion.
RestartGoal(g) ==
  /\ g \in Restartable \ restarts
  /\ restarts' = restarts \cup {g}
  /\ Deliver(g, UnexpectedMsg)
  /\ UNCHANGED <<proverVars, checkerVars, runnerVars, retryVars, asked, aborts>>

Next ==
  \/ \E c \in Clients, g \in Goals : SatisfyGoal(c, g)
  \/ \E g \in Goals : AbortGoal(g) \/ RestartGoal(g)
  \/ \E g \in Goals : ProverReceive(g) \/ JobRunnerStep(g)
                      \/ EvidenceCheckerStep(g) \/ RetryAgentStep(g)
                      \/ WhatsYourStatus(g)

\* The dispatcher runs every actor with mail, the scheduler every due timer;
\* jobs and checks are taken to end.  Clients may ask for nothing more.
Fairness ==
  \A g \in Goals :
    /\ WF_vars(ProverReceive(g))
    /\ WF_vars(RunnerSatisfy(g)) /\ WF_vars(RunnerAbort(g)) /\ WF_vars(RunnerFinish(g))
    /\ WF_vars(\E o \in JobOutcomes : JobCompletes(g, o))
    /\ WF_vars(\E o \in JobOutcomes : OrphanCompletes(g, o))
    /\ WF_vars(\E id \in probes[g], o \in CheckOutcomes : CheckCompletes(g, id, o))
    /\ WF_vars(AgentGoalFailure(g)) /\ WF_vars(AgentGoalSuccess(g))
    /\ WF_vars(RestartTimer(g))

Spec == Init /\ [][Next]_vars
FairSpec == Spec /\ Fairness
-----------------------------------------------------------------------------
ProverTypeOK ==
  /\ state \in [Goals -> GoalState]
  /\ force \in [Goals -> BOOLEAN]
  /\ listeners \in [Goals -> SUBSET Listeners]
  /\ childStatus \in [Goals -> SUBSET Status]
  /\ checkers \in [Goals -> SUBSET Nat]
  /\ \A g \in Goals : IsFiniteSet(checkers[g])
  /\ jobRunner \in [Goals -> BOOLEAN]
  /\ incarnation \in [Goals -> Nat]
BoxTypeOK ==
  /\ mailbox \in [Goals -> Seq(Message)]
  /\ retryBox \in [Goals -> Seq(Message)]
  /\ reply \in [Clients -> {"none", "waiting", "GoalSuccess", "GoalFailure"}]
CheckerTypeOK ==
  /\ evidenceActors \in [Goals -> SUBSET Nat]
  /\ probes \in [Goals -> SUBSET Nat]
  /\ resends \in Nat
RunnerTypeOK ==
  /\ runner \in [Goals -> BOOLEAN]
  /\ runnerBox \in [Goals -> Seq({"Satisfy", "Abort"})]
  /\ futures \in [Goals -> Nat]
  /\ finishing \in [Goals -> Nat]
  /\ orphans \in [Goals -> Nat]
  /\ marks \in [Goals -> {"unmarked", "completed", "incomplete"}]
RetryTypeOK ==
  /\ retryUp \in [Goals -> BOOLEAN]
  /\ retries \in [Goals -> Nat]
  /\ timers \in [Goals -> Nat]
ClientTypeOK ==
  /\ asked \in [Clients -> Goals \cup {NoValue}]
  /\ aborts \in Nat
  /\ restarts \subseteq Goals
  /\ \A c \in Clients : reply[c] # "none" => asked[c] \in Goals

\* Every field of every actor holds a value of its type, every message is one
\* of its receiver's protocol, and who has a reply has asked for a goal.
TypeOK == /\ ProverTypeOK /\ BoxTypeOK /\ CheckerTypeOK
          /\ RunnerTypeOK /\ RetryTypeOK /\ ClientTypeOK
-----------------------------------------------------------------------------
(* Who is owed an answer.                                                    *)
Queued(g, type) == \E i \in 1..Len(mailbox[g]) : mailbox[g][i].type = type

NewsFrom(d, g) ==
  \E i \in 1..Len(mailbox[g]) :
    /\ mailbox[g][i].type \in {"GoalSuccess", "GoalFailure"}
    /\ mailbox[g][i].status[1] = d

\* The goal has an outcome to publish yet; that of an aborted job is to come.
Undecided == Unfinished \cup {"Aborted"}

\* Its listeners need not have been told: it is undecided, or a page that asked
\* for its status has failed it in silence.
Unpublished(g) ==
  state[g] \in Undecided \/ (g \in Queried \cap BadWitness /\ state[g] = "Failed")

\* An execution that will still report to g, or a report on its way.
JobPending(g) ==
  \/ futures[g] > 0 \/ orphans[g] > 0
  \/ runner[g] /\ \E i \in 1..Len(runnerBox[g]) : runnerBox[g][i] = "Satisfy"
  \/ Queued(g, "JobRunSuccess") \/ Queued(g, "JobRunFailed")

\* A client that waits is still to be heard by the goal it asked for, or is
\* among the listeners of a goal that has not come to its end: the reply cannot
\* have been dropped between addListener and the publishing of the outcome,
\* whatever is aborted, retried, rerun or asked for its status; unless Akka
\* restarted the prover, which forgets its listeners.
NoLostReply ==
  \A c \in Clients : reply[c] = "waiting" =>
    \/ SatisfyQueued(c, asked[c])
    \/ c \in listeners[asked[c]] /\ Unpublished(asked[c])
    \/ incarnation[asked[c]] > 0

\* The same between provers: whoever waits on its dependencies will be told of,
\* or has been told of, each one of them.  (What a goal knows of a dependency
\* from a page's query is not what it was told.)
NoLostDependency ==
  \A g \in Goals \ Queried, d \in Goals :
    /\ state[g] = "WaitingOnDependencies" /\ d \in Children(g)
    /\ incarnation[g] = 0 /\ incarnation[d] = 0
    => \/ SatisfyQueued(g, d)
       \/ g \in listeners[d] /\ Unpublished(d)
       \/ NewsFrom(d, g)
       \/ \E s \in childStatus[g] : s[1] = d

\* No prover believes its job is running when no execution is left to report.
RunningHasJob == \A g \in Goals : state[g] = "Running" => JobPending(g)

\* A satisfier runs only over satisfied dependencies, from its start to its end.
DependencyOrder ==
  \A g \in Goals : futures[g] + orphans[g] > 0 =>
    \A d \in Children(g) : state[d] \in Satisfied

\* One goal's satisfier is never running twice at once.
SingleExecution == \A g \in Goals : futures[g] + orphans[g] <= 1

\* What a client was told of a goal is how the goal ended.
AnswerIsTrue ==
  \A c \in Clients :
    /\ reply[c] = "GoalSuccess" => state[asked[c]] \in Satisfied
    /\ reply[c] = "GoalFailure" => state[asked[c]] \in Unsatisfied

\* A satisfied goal stays satisfied: its state "can no longer change".
SatisfiedIsFinal ==
  [][\A g \in Goals : state[g] \in Satisfied => state'[g] = state[g]]_vars

\* Every client is answered in the end, unless an abort has made Akka restart a
\* prover, which then forgets who waits.
EventuallyAnswered ==
  \A c \in Clients :
    reply[c] = "waiting" ~> reply[c] # "waiting" \/ \E g \in Goals : incarnation[g] > 0

\* While the budget lasts a failed goal is told to restart, though its agent looks
\* at the state only when it gets to the message; unless something else has moved
\* the goal, or Akka has restarted the prover, which then has no RetryAgent.
EventuallyRetried ==
  \A g \in Retryable :
    state[g] = "Failed" /\ retries[g] < MaxRetries
      ~> state[g] # "Failed" \/ Queued(g, "RestartJob") \/ incarnation[g] > 0

\* The service the engine implements when nothing is aborted or retried.
Verdict(s) == CASE s \in Satisfied   -> "satisfied"
                [] s \in Unsatisfied -> "failed"
                [] s \in Unfinished  -> "open"

Service == INSTANCE GoalService WITH
             Prerequisites <- [g \in Goals |-> Children(g)],
             verdict <- [g \in Goals |-> Verdict(state[g])]

\* Without aborts and retries the actors implement that service, whatever
\* restartGoal is called for: each goal is decided once, over satisfied
\* dependencies, and each client is told.
ImplementsService == Service!Spec
-----------------------------------------------------------------------------
(* What comments of the code say and the code does not keep.                 *)

\* JobRunner.markEvidence: completed or incomplete "based on the outcome".
CompletedMeansSucceeded ==
  \A g \in Goals : marks[g] = "completed" =>
    state[g] = "Success" \/ Queued(g, "JobRunSuccess")
=============================================================================

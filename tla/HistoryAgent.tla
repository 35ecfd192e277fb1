---------------------------- MODULE HistoryAgent ----------------------------
(* The HistoryAgents in front of the provers, which open a row of the        *)
(* TrackHistory when a Satisfy passes and close one when the prover tells    *)
(* them an outcome.  A prover is reduced to what rows are made of: its state,*)
(* the run it works for, what it waits for, and whom it tells.  Requests are *)
(* forced, as satisfyGoal's are, so a goal's evidence is checked just before *)
(* its job would run.  Aborts and status queries are left out.  The table    *)
(* survives a crash of the process, the actors do not.                       *)
EXTENDS TrackHistory

CONSTANTS
  Goals,
  Dependencies,   \* goal -> the goals it depends on
  Evidenced,      \* the goals that have an evidence, one each
  Client,         \* who asks from outside: its answers are not modelled
  MaxRequests,    \* bound: calls of satisfyGoal and restartGoal
  MaxRetries,     \* bound: restarts by the RetryAgents, all together
  MaxCrashes      \* bound: crashes of the process

ASSUME HistoryConstants ==
  /\ Dependencies \in [Goals -> SUBSET Goals] /\ Evidenced \subseteq Goals
  /\ MaxRequests \in Nat /\ MaxRetries \in Nat /\ MaxCrashes \in Nat
  /\ NoRun \notin Nat
  /\ Client \notin Goals

VARIABLES
  rows,       \* TrackHistoryTable
  runID,      \* of each HistoryAgent
  agentBox,   \* its mailbox
  state,      \* of each prover
  proverRun,  \* PredicateProver.runID
  listeners,  \* the provers, and the Client, it tells besides its HistoryAgent
  heard,      \* the dependencies whose status it has been sent
  succeeded,  \* those of them that have told it they succeeded
  jobs,       \* its executions that have yet to report
  checks,     \* its evidence checks that have yet to answer
  checkers,   \* EvidenceCheckers it keeps: one whose check threw stays
  proverBox,  \* its mailbox
  requests, retries, crashes

agentVars == <<runID, agentBox>>
workVars == <<jobs, checks, checkers>>
proverVars == <<state, proverRun, listeners, heard, succeeded, workVars, proverBox>>
bounds == <<requests, retries, crashes>>
vars == <<rows, agentVars, proverVars, bounds>>

Satisfied == {"Success", "AlreadySatisfied"}
Terminal == Satisfied \cup {"Failed", "DependencyFailed"}
State == {"Unstarted", "WaitingOnDependencies", "CheckingEvidence", "Running"}
         \cup Terminal

Init ==
  /\ rows = <<>>
  /\ runID = [g \in Goals |-> NoRun]
  /\ agentBox = [g \in Goals |-> <<>>]
  /\ state = [g \in Goals |-> "Unstarted"]
  /\ proverRun = [g \in Goals |-> NoRun]
  /\ listeners = [g \in Goals |-> {}]
  /\ heard = [g \in Goals |-> {}]
  /\ succeeded = [g \in Goals |-> {}]
  /\ jobs = [g \in Goals |-> 0] /\ checks = [g \in Goals |-> 0]
  /\ checkers = [g \in Goals |-> 0]
  /\ proverBox = [g \in Goals |-> <<>>]
  /\ requests = 0 /\ retries = 0 /\ crashes = 0

Satisfy(from, run, parent) ==
  [type |-> "Satisfy", from |-> from, run |-> run, parent |-> parent]
\* RestartJob, the companion object, as RetryAgents send it, and RestartJob(),
\* an instance, as restartGoal does.
RestartJob == [type |-> "RestartJob"]
RestartJobInstance == [type |-> "RestartJob()"]
\* They carry the prover's live status, not a copy of it.
GoalSuccess(from) == [type |-> "GoalSuccess", from |-> from]
GoalFailure(from) == [type |-> "GoalFailure", from |-> from]
Outcomes(from) == {GoalSuccess(from), GoalFailure(from)}
OutcomeOf(from, st) == IF st \in Satisfied THEN GoalSuccess(from) ELSE GoalFailure(from)

Receive(box, g) == box[g] # <<>>
Without(box, g) == [box EXCEPT ![g] = Tail(@)]
-----------------------------------------------------------------------------
(* The HistoryAgent of g.                                                    *)

\* A row is opened for the agent's goal and becomes the agent's.
OpensRow(g, parent, forwarded) ==
  /\ rows' = StartRun(rows, g, parent)
  /\ runID' = [runID EXCEPT ![g] = NewId(rows)]
  /\ agentBox' = Without(agentBox, g)
  /\ proverBox' = [proverBox EXCEPT ![g] = Append(@, forwarded)]
  /\ UNCHANGED <<state, proverRun, listeners, heard, succeeded, workVars, bounds>>

\* Satisfy is passed on with the id of the new row.
PassesSatisfy(g, parent) ==
  /\ Receive(agentBox, g) /\ Head(agentBox[g]).type = "Satisfy"
  /\ OpensRow(g, parent,
              Satisfy(Head(agentBox[g]).from, NewId(rows), Head(agentBox[g]).parent))

\* Bug: the agent's run before this one is taken for the parent.
AgentSatisfyChains(g) == PassesSatisfy(g, runID[g])

AgentSatisfy(g) == PassesSatisfy(g, Head(agentBox[g]).parent)

AgentRestartJob(g) ==
  /\ Receive(agentBox, g) /\ Head(agentBox[g]).type = "RestartJob()"
  /\ OpensRow(g, NoRun, RestartJobInstance)

\* The companion object matches no case before the last: it is passed on.
AgentForward(g) ==
  /\ Receive(agentBox, g) /\ Head(agentBox[g]).type = "RestartJob"
  /\ agentBox' = Without(agentBox, g)
  /\ proverBox' = [proverBox EXCEPT ![g] = Append(@, RestartJob)]
  /\ UNCHANGED <<rows, runID, state, proverRun, listeners, heard, succeeded, workVars,
                 bounds>>

\* completeRun closes row id with the state the prover is in by now.
Completes(g, id) ==
  /\ Receive(agentBox, g) /\ Head(agentBox[g]) \in Outcomes(g)
  /\ rows' = IF id = NoRun THEN rows ELSE CompleteRun(rows, id, state[g])
  /\ agentBox' = Without(agentBox, g)
  /\ UNCHANGED <<runID, proverVars, bounds>>

\* Bugs: the run the prover works for is closed; no run is.
AgentCompletesProverRun(g) == Completes(g, proverRun[g])
AgentCompletesNone(g) == Completes(g, NoRun)

AgentOutcome(g) == Completes(g, runID[g])
-----------------------------------------------------------------------------
(* The prover of g.                                                          *)

\* publishSuccess and publishFailure: the agent and the listeners are told; boxes
\* are the provers' mailboxes once the message being handled is taken.
Publish(g, outcome, boxes) ==
  /\ state' = [state EXCEPT ![g] = outcome]
  /\ proverBox' = [h \in Goals |->
       IF h \in listeners'[g] THEN Append(boxes[h], OutcomeOf(g, outcome)) ELSE boxes[h]]
  /\ agentBox' = [agentBox EXCEPT ![g] = Append(@, OutcomeOf(g, outcome))]

\* runLocalJob, where the state is not Running yet.
RunsJob(g) ==
  /\ state' = [state EXCEPT ![g] = "Running"]
  /\ jobs' = [jobs EXCEPT ![g] = @ + 1]
  /\ UNCHANGED <<checks, checkers>>

\* sendCheckEvidence.
ChecksEvidence(g) ==
  /\ state' = [state EXCEPT ![g] = "CheckingEvidence"]
  /\ checks' = [checks EXCEPT ![g] = @ + 1]
  /\ checkers' = [checkers EXCEPT ![g] = @ + 1]
  /\ UNCHANGED jobs

\* The first Satisfy decides which run the prover works for.
TakesUp(g) ==
  LET m == Head(proverBox[g]) IN
  /\ Receive(proverBox, g) /\ m.type = "Satisfy" /\ state[g] = "Unstarted"
  /\ proverRun' = [proverRun EXCEPT ![g] = m.run]
  /\ listeners' = [listeners EXCEPT ![g] = @ \cup {m.from}]
  /\ UNCHANGED <<rows, runID, heard, succeeded, bounds>>

\* Dependencies are satisfied on behalf of that run; without any, the evidence is
\* checked or the job runs.
ProverFirstSatisfy(g) ==
  LET m == Head(proverBox[g]) IN
  /\ TakesUp(g)
  /\ proverBox' = Without(proverBox, g)
  /\ agentBox' = [d \in Goals |->
       IF d \in Dependencies[g] THEN Append(agentBox[d], Satisfy(g, NoRun, m.run))
       ELSE agentBox[d]]
  /\ \/ /\ Dependencies[g] # {}
        /\ state' = [state EXCEPT ![g] = "WaitingOnDependencies"]
        /\ UNCHANGED workVars
     \/ Dependencies[g] = {} /\ g \in Evidenced /\ ChecksEvidence(g)
     \/ Dependencies[g] = {} /\ g \notin Evidenced /\ RunsJob(g)

\* failureCheck: initDependencies finds a witness incomplete or is given no prover,
\* and nothing has been asked; or the EvidenceChecker's name is taken.
ProverFirstSatisfyThrows(g) ==
  /\ TakesUp(g)
  /\ Dependencies[g] # {} \/ g \in Evidenced
  /\ Publish(g, "Failed", Without(proverBox, g))
  /\ UNCHANGED workVars

\* A later one is answered by a message to its sender alone.
ProverLaterSatisfy(g) ==
  LET m == Head(proverBox[g])
      rest == Without(proverBox, g) IN
  /\ Receive(proverBox, g) /\ m.type = "Satisfy" /\ state[g] # "Unstarted"
  /\ listeners' = [listeners EXCEPT ![g] = @ \cup {m.from}]
  /\ proverBox' = IF state[g] \in Terminal /\ m.from \in Goals
                  THEN [rest EXCEPT ![m.from] = Append(@, OutcomeOf(g, state[g]))]
                  ELSE rest
  /\ UNCHANGED <<rows, agentVars, state, proverRun, heard, succeeded, workVars, bounds>>

ProverGoalFailure(g) ==
  LET d == Head(proverBox[g]).from IN
  /\ Receive(proverBox, g) /\ Head(proverBox[g]).type = "GoalFailure"
  /\ heard' = [heard EXCEPT ![g] = @ \cup {d}]
  /\ UNCHANGED <<rows, runID, proverRun, listeners, succeeded, workVars, bounds>>
  /\ Publish(g, "DependencyFailed", Without(proverBox, g))

\* When every dependency has been heard of and, by now, succeeded, the evidence is
\* checked, or the job runs unless it does.
ProverGoalSuccess(g) ==
  LET d == Head(proverBox[g]).from
      told == heard[g] \cup {d}
      proceeds == /\ told = Dependencies[g]
                  /\ \A e \in told : e \in succeeded'[g] \/ state[e] \in Satisfied IN
  /\ Receive(proverBox, g) /\ Head(proverBox[g]).type = "GoalSuccess"
  /\ heard' = [heard EXCEPT ![g] = told]
  /\ succeeded' = [succeeded EXCEPT ![g] = @ \cup {d}]
  /\ proverBox' = Without(proverBox, g)
  /\ \/ proceeds /\ g \in Evidenced /\ ChecksEvidence(g)
     \/ proceeds /\ g \notin Evidenced /\ state[g] # "Running" /\ RunsJob(g)
     \/ /\ ~proceeds \/ (g \notin Evidenced /\ state[g] = "Running")
        /\ UNCHANGED <<state, workVars>>
  /\ UNCHANGED <<rows, agentVars, proverRun, listeners, bounds>>

\* RestartJob runs the job of a failed goal again and has a goal whose dependency
\* failed wait again; an instance is unexpected.
ProverRestartJob(g) ==
  LET restarts == Head(proverBox[g]).type = "RestartJob" IN
  /\ Receive(proverBox, g) /\ Head(proverBox[g]).type \in {"RestartJob", "RestartJob()"}
  /\ proverBox' = Without(proverBox, g)
  /\ \/ restarts /\ state[g] = "Failed" /\ RunsJob(g)
     \/ /\ restarts /\ state[g] = "DependencyFailed"
        /\ state' = [state EXCEPT ![g] = "WaitingOnDependencies"]
        /\ UNCHANGED workVars
     \/ /\ ~restarts \/ state[g] \notin {"Failed", "DependencyFailed"}
        /\ UNCHANGED <<state, workVars>>
  /\ UNCHANGED <<rows, agentVars, proverRun, listeners, heard, succeeded, bounds>>

\* The job reports, whatever state the prover is in.
ProverJobRun(g, outcome) ==
  /\ jobs[g] > 0
  /\ jobs' = [jobs EXCEPT ![g] = @ - 1]
  /\ UNCHANGED <<rows, runID, proverRun, listeners, heard, succeeded, checks, checkers,
                 bounds>>
  /\ Publish(g, outcome, proverBox)

\* A check answers.  Evidence that exists is enough when no other checker is left,
\* and the job runs when it does not; neither counts once the prover has gone on.
CheckAnswers(g) ==
  /\ checks[g] > 0
  /\ checks' = [checks EXCEPT ![g] = @ - 1]
  /\ UNCHANGED <<rows, runID, proverRun, listeners, heard, succeeded, bounds>>

EvidenceExists(g) ==
  LET settles == state[g] = "CheckingEvidence" /\ checkers[g] = 1 IN
  /\ CheckAnswers(g)
  /\ checkers' = [checkers EXCEPT ![g] = @ - 1]
  /\ UNCHANGED jobs
  /\ \/ settles /\ Publish(g, "AlreadySatisfied", proverBox)
     \/ ~settles /\ UNCHANGED <<state, proverBox, agentBox>>

EvidenceMissing(g) ==
  LET runs == state[g] = "CheckingEvidence" IN
  /\ CheckAnswers(g)
  /\ checkers' = [checkers EXCEPT ![g] = @ - 1]
  /\ state' = IF runs THEN [state EXCEPT ![g] = "Running"] ELSE state
  /\ jobs' = IF runs THEN [jobs EXCEPT ![g] = @ + 1] ELSE jobs
  /\ UNCHANGED <<proverBox, agentBox>>

\* The checker answers with JobRunFailed.
EvidenceThrows(g) ==
  /\ CheckAnswers(g)
  /\ UNCHANGED <<jobs, checkers>>
  /\ Publish(g, "Failed", proverBox)
-----------------------------------------------------------------------------
(* The world around them.                                                    *)

RequestGoal(g, message) ==
  /\ requests < MaxRequests
  /\ requests' = requests + 1
  /\ agentBox' = [agentBox EXCEPT ![g] = Append(@, message)]
  /\ UNCHANGED <<rows, runID, proverVars, retries, crashes>>

SatisfyGoal(g) == RequestGoal(g, Satisfy(Client, NoRun, NoRun))
RestartGoal(g) == state[g] # "Unstarted" /\ RequestGoal(g, RestartJobInstance)

\* A minute after a failure, when the agent has long recorded it.
RetryTimer(g) ==
  /\ state[g] = "Failed" /\ agentBox[g] = <<>> /\ proverBox[g] = <<>>
  /\ retries < MaxRetries
  /\ retries' = retries + 1
  /\ agentBox' = [agentBox EXCEPT ![g] = Append(@, RestartJob)]
  /\ UNCHANGED <<rows, runID, proverVars, requests, crashes>>

\* Half a minute after a success the factory stops the agent, which stops the
\* prover; the next request finds new ones.  Who had been asked by the old prover
\* tells its reference from then on, which reaches no one.
KillActor(g) ==
  /\ state[g] \in Satisfied /\ agentBox[g] = <<>> /\ proverBox[g] = <<>>
  /\ \A h \in Goals : \A i \in DOMAIN proverBox[h] : proverBox[h][i] \notin Outcomes(g)
  /\ runID' = [runID EXCEPT ![g] = NoRun]
  /\ state' = [state EXCEPT ![g] = "Unstarted"]
  /\ proverRun' = [proverRun EXCEPT ![g] = NoRun]
  /\ listeners' = [h \in Goals |-> IF h = g THEN {} ELSE listeners[h] \ {g}]
  /\ heard' = [heard EXCEPT ![g] = {}]
  /\ succeeded' = [succeeded EXCEPT ![g] = {}]
  /\ jobs' = [jobs EXCEPT ![g] = 0] /\ checks' = [checks EXCEPT ![g] = 0]
  /\ checkers' = [checkers EXCEPT ![g] = 0]
  /\ UNCHANGED <<rows, agentBox, proverBox, bounds>>

\* The process dies and is started again; the table is a file.
CrashProcess ==
  /\ crashes < MaxCrashes
  /\ crashes' = crashes + 1
  /\ runID' = [g \in Goals |-> NoRun]
  /\ agentBox' = [g \in Goals |-> <<>>]
  /\ state' = [g \in Goals |-> "Unstarted"]
  /\ proverRun' = [g \in Goals |-> NoRun]
  /\ listeners' = [g \in Goals |-> {}]
  /\ heard' = [g \in Goals |-> {}]
  /\ succeeded' = [g \in Goals |-> {}]
  /\ jobs' = [g \in Goals |-> 0] /\ checks' = [g \in Goals |-> 0]
  /\ checkers' = [g \in Goals |-> 0]
  /\ proverBox' = [g \in Goals |-> <<>>]
  /\ UNCHANGED <<rows, requests, retries>>

AgentStep(g) == AgentSatisfy(g) \/ AgentRestartJob(g) \/ AgentForward(g) \/ AgentOutcome(g)

ProverStep(g) == \/ ProverFirstSatisfy(g) \/ ProverFirstSatisfyThrows(g)
                 \/ ProverLaterSatisfy(g) \/ ProverGoalFailure(g)
                 \/ ProverGoalSuccess(g) \/ ProverRestartJob(g)

JobRun(g) == \E outcome \in {"Success", "Failed"} : ProverJobRun(g, outcome)
EvidenceCheck(g) == EvidenceExists(g) \/ EvidenceMissing(g) \/ EvidenceThrows(g)

Next ==
  \/ \E g \in Goals : \/ AgentStep(g) \/ ProverStep(g) \/ JobRun(g) \/ EvidenceCheck(g)
                      \/ SatisfyGoal(g) \/ RestartGoal(g)
                      \/ RetryTimer(g) \/ KillActor(g)
  \/ CrashProcess

\* Mailboxes are handled, jobs report and checks answer.
Fairness == \A g \in Goals :
  /\ WF_vars(AgentStep(g)) /\ WF_vars(ProverStep(g))
  /\ WF_vars(JobRun(g)) /\ WF_vars(EvidenceCheck(g))

Spec == Init /\ [][Next]_vars
FairSpec == Spec /\ Fairness
-----------------------------------------------------------------------------
RunIds == 1..Len(rows)
NewestRun(g) == LET own == {i \in RunIds : rows[i].goal = g} IN
  IF own = {} THEN NoRun ELSE CHOOSE i \in own : \A j \in own : j <= i

\* Rows, agents and provers hold values of their types.
TypeOK ==
  /\ rows \in Seq([goal : Goals,
                   parent : RunIds \cup {NoRun}, state : State \ {"Unstarted"},
                   ended : BOOLEAN])
  /\ runID \in [Goals -> RunIds \cup {NoRun}]
  /\ proverRun \in [Goals -> RunIds \cup {NoRun}]
  /\ state \in [Goals -> State]
  /\ listeners \in [Goals -> SUBSET (Goals \cup {Client})]
  /\ heard \in [Goals -> SUBSET Goals] /\ succeeded \in [Goals -> SUBSET Goals]
  /\ jobs \in [Goals -> Nat] /\ checks \in [Goals -> Nat] /\ checkers \in [Goals -> Nat]
  /\ \A g \in Goals : checks[g] <= checkers[g]

\* The runs form a forest along the dependencies: a run's parent is an older run
\* of a goal that depends on its goal, whatever crashed or was asked again.
RunTree ==
  \A i \in RunIds : rows[i].parent # NoRun =>
    /\ rows[i].parent < i
    /\ rows[i].goal \in Dependencies[rows[rows[i].parent].goal]

\* Once its agent has handled what it was told, a finished goal has a row that
\* says how it ended.
OutcomeRecorded ==
  \A g \in Goals :
    state[g] \in Terminal /\ (\A i \in DOMAIN agentBox[g] : agentBox[g][i] \notin Outcomes(g))
      => \E i \in RunIds : rows[i].goal = g /\ rows[i].ended /\ rows[i].state = state[g]

\* A row changes only while it is the newest of its goal: what was recorded of
\* an older run stands, and an older run that is open stays open.
OlderRunsStand ==
  [][\A i \in RunIds : rows'[i] # rows[i] => i = NewestRun(rows[i].goal)]_vars

\* The run a prover works for ends in the table once its job runs or its evidence
\* is checked, unless another request for the goal has come between, or the
\* process died.
RunEnds ==
  \A g \in Goals :
    state[g] \in {"Running", "CheckingEvidence"} /\ runID[g] = proverRun[g]
      ~> \/ state[g] \in Terminal /\ (rows[runID[g]].ended \/ runID[g] # proverRun[g])
         \/ runID[g] # proverRun[g] \/ crashes > 0
=============================================================================

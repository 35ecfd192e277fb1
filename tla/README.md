# Satisfaction, specified

TLA+ specifications of the scheduler in this repository: the proof engine that
satisfies goals, the jobs it runs, the factory of its actors, the history it
writes, and the tracks it loads and schedules. Small instances are model-checked with TLC; the invariants
that matter most are proved for every instance with TLAPS. Paths below are
relative to the repository; `actors/` stands for
`modules/engine/src/main/scala/satisfaction/engine/actors/`, `track/` for
`modules/engine/src/main/scala/satisfaction/track/`, `core/` for
`modules/core/src/main/scala/satisfaction/`.

## 1. The system

A *track* is a jar with a graph of *goals*. A goal, for a *witness* (an assignment
of its variables), is satisfied when its evidence exists: the engine has its
dependencies satisfied first and then runs its *satisfier*. One actor, a
*prover*, does this for one goal and witness.

| component | state | operations | correct when |
|---|---|---|---|
| `GoalStatus` (core) | state, children's statuses, progress; the *object* is shared with parents, agents and pages | markExecution, markUnexpected, markTerminal, addChildStatus, canProceed, isTerminal | a success is not undone; an outcome is what happened |
| `PredicateProver` | status, listeners, evidence checkers, job runner, forceSatisfy, run id | Satisfy, EvidenceCheckResult, GoalSuccess, GoalFailure, JobRunSuccess, JobRunFailed, RestartJob, Abort, WhatsYourStatus, ReleaseActor; a restart by Akka | every requester hears the outcome; the job runs once at a time and over satisfied dependencies |
| `EvidenceChecker` | none | CheckEvidence in a future; asked again every 60 s | a late or repeated result does no harm |
| `JobRunner` and its thread pool | the satisfier's future; pool threads and a bounded queue, shared by all jobs | Satisfy, Abort, completion on a pool thread, markEvidence, finish | exactly one report per execution; nothing is refused without load |
| `DefaultGoalSatisfier` | the evidence still missing | Satisfy, CheckEvidence every 30 s | a success is the last report; it does not wait for data that is there |
| `HiveSatisfier`, `Releaseable`, `HiveLocalDriver` (hive) | a handle on a driver | satisfy, a statement at a time; abort and close from other threads | a script runs in one session; drivers are closed |
| `PartitionExists`, `HiveTable`, `MetaStore` (hive-ms) | the witness field; a partition's parameters in the metastore | satisfy, abort, markCompleted | a job makes its own partition, and its completion mark stays |
| `RetryAgent` | currentRetry | GoalFailure, GoalSuccess, a timer | a failure is retried while the budget lasts |
| `ProofEngine` | references | satisfyGoal(Blocking), abortGoal, restartGoal, getStatus, listings | a caller is answered |
| `ProverFactory` | map of actors by name, references, JMXAgent | GetActor, ReleaseActor, GoalSuccess, KillActor after 30 s | one live prover per name; one that has not succeeded is not stopped |
| `HistoryAgent` | runID | Satisfy, RestartJob, GoalSuccess, GoalFailure, everything else forwarded, postStop | each run's outcome is in its row |
| `TrackHistory`, `JDBCSlickTrackHistory` | a table of runs | startRun, startSubGoalRun, completeRun, queries | rows of different runs are not confused, and are found |
| `TrackFactory` | cached list of tracks, map of loaded tracks | getLatestTrack, getTrack, refreshTrack, generateTrack, initializeTrack, initializeAllTracks | the newest version is found; a track is whole when handed out |
| `TrackScheduler`, `QuartzActor`, `StartGoalActor` | scheduleMap; the jobs of Quartz | scheduleTrack, unscheduleTrack, AddSchedule, RemoveJob, a job firing | entries and jobs agree; nobody waits forever |
| `NotificationAgent`, `JMXAgent`, `LogWrapper` | counters, the console | listeners and helpers of provers and jobs | see the plan |
| core DSL: `Goal`, `FanOutGoal`, `Track`, `Witness`, `Substituter`, `TemporalVariable`, `Recurring` | none | pure builders and conversions | see the plan |
| `willrogers` | none | pages that call the engine, the factory and the scheduler | presentation |
| hadoop, scoozie modules, the rest of hive and hive-ms | connections | satisfiers and evidence over Hadoop services | clients of other systems |
| `sbt-satisfy` | none | uploads a track | a build tool |

**How they interact.** A page or the StartGoalActor calls `ProofEngine`, which asks
the `ProverFactory` for the goal's actor and sends it `Satisfy`. A prover sends
`Satisfy` to the provers of its dependencies and is told `GoalSuccess` or
`GoalFailure`; with a history, a `HistoryAgent` stands in front of each prover.
Messages carry the prover's *live* `GoalStatus`, so their receiver reads the state
as it is by then, not as it was sent. Evidence checks and jobs run in futures on
other threads, retries and stops are timers of Akka's scheduler. A job is two tasks
of one bounded pool: its execution, and the callback that reports it. Pages and actors
call the `TrackFactory` and the `TrackScheduler` directly, from several threads and
without locks; loading a track schedules it, and a caller who schedules blocks on
the `QuartzActor`.

**What is hard.** Interleavings of reports, evidence results, aborts, retries and
requests at one prover; live state read ahead of the message about it; handlers
that throw, where some are caught (`failureCheck`) and some restart the actor with
fresh fields while its job runs on; timers that name an actor which has meanwhile
been replaced; names that stay taken while an actor stops; rows opened by one
request and closed on behalf of another; unsynchronised maps used by several
threads across a blocking call; a driver that the job, an abort and the report all
release; a partition read, changed and written back whole by two jobs at once. `PROJECT.json` lists these hazards at their lines,
each with the properties that watch it or a note.

## 2. The modules

### The engine: `GoalStatus`, `EngineState`, `PredicateProver`, `EvidenceChecker`, `JobRunner`, `RetryAgent`, `ProofEngine`

`EngineState` declares what the actors share: one variable per field, indexed by
goal (a `Goals` element is a goal *with* its witness, as a prover is), one FIFO
mailbox per prover and agent, and `Publish`/`Quiet`, the ways a handler ends. The
other modules extend it with one action per message or completion:

- `PredicateProver`: one action per case of `receive`, each a whole handler.
  `HandleFirstSatisfy` and `HandleLaterSatisfy` split the Satisfy case by state as
  the code does. `RunLocalJob`, `CheckEvidence`, `SatisfyDependencies` are the
  helpers of the same names; `Unexpectedly` is `failureCheck`'s catch, and
  `HandleAbortThrows`, `HandleGoalSuccessThrows` are the exceptions no `failureCheck`
  encloses, for which Akka restarts the actor (`Restart`). Names of checkers and
  runners that are taken make `actorOf` throw, so the actors that exist are state.
- A `Status` is a reference: a goal and an incarnation. `LiveState` reads it.
- `WhatsYourStatus` is split at its future: the answer changes nothing, and the
  statuses of the dependencies come into `childStatus` at any later time, from another
  thread, each of any incarnation up to the present (`ChildStatusArrives`). The
  messages themselves are left out, but for their order: a goal that does not check
  its evidence first has sent Satisfy to a dependency before WhatsYourStatus, and
  mailboxes are FIFO (`AsksAfterSatisfy`). `WhatsYourStatusThrows` is the query of a
  goal whose dependencies cannot be acquired: it is failed, and nobody is told, which
  is why the properties speak of `Unpublished` goals and not of undecided ones.
- `JobRunner`: an execution (`futures`), its report (`JobCompletes`), the runner's
  end (`RunnerFinish`) and an execution whose runner an abort has stopped
  (`orphans`) are separate steps, as they are on separate threads.
- `RetryAgent` decides on the live state; its timer sends the `RestartJob` companion.
- `ProofEngine` composes them, adds the clients, and states the properties.

`GoalService` is the abstract specification: a goal is open until it is decided,
satisfied only over satisfied dependencies, and who asked is told the verdict.
`ProofEngine!ImplementsService` is the refinement (`verdict` from `state`).

### Jobs: `JobState`, `JobPool`, `HiveSatisfier`, `PartitionExists`, `DefaultGoalSatisfier`, `JobExecution`

What the engine takes as one step, the outcome of a job, from the JobRunner's Satisfy
to its report and its end. `JobState` declares the fields; `thread[j]` and
`report[j]` are where a job's two tasks are in the code.

- `JobPool`: `ThreadPoolExecutor.execute` with `AbortPolicy`: a thread up to the core
  size, then the queue, then threads up to the maximum, then `Reject`. A refused
  execution throws in the runner, which Akka restarts with nothing to do; a refused
  callback is a report that never comes.
- `HiveSatisfier`: satisfy() statement by statement. `driver.get` (`BuildDriver`,
  `GetDriver`) and `release` (`ReleasePoints`: test, close, clear) are as many steps
  as they read or write `_inner`, because the job's, the abort's and the report's
  threads interleave there; between a release's test and its close the other thread
  may have cleared the handle, and the null is an exception. Drivers of a job are
  numbered as they are made; one that is used after it was closed opens again.
- `PartitionExists`: the field `w` that the jobs of one satisfier share, addPartition
  or the existing partition, and the copy each job holds of it, written back as a whole
  by alterPartition and again by markCompleted. Which satisfier a job has is the constant
  `Satisfier`: `apply` makes one for all witnesses of a goal, other goals have others.
- `DefaultGoalSatisfier`: one evidence at a time, as its data comes and goes.
- `JobExecution` composes them. A kind of job (`Mixes`) is fixed at the start;
  `"other"` is any satisfier. `RunnerAbort` and `AbortStep` run on the actor's thread,
  `ReportStep` and `SatisfierStep` on the pool's.

### The factory: `ProverFactory`

The factory's map, the callers, and provers reduced to a name, a stage of life,
whether they are at their goal, and their executions that may still report (`jobs`).
Provers are numbered as they are created, so that a
KillActor that names a goal can meet a later prover of that name. `CreateProver`,
`CreateProverThrows` and `CreateAgentThrows` are the outcomes of GetActor for an
unknown name: made, or `actorOf` threw on the prover's name, or on that of the
HistoryAgent, the JMXAgent or a notified goal's NotificationAgent, whereupon Akka
restarts the factory with an empty map (`Crash`)
and the caller is `"lost"`. `HandleKillActor`, `HistoryPostStop`, `HistoryStops`,
`ProverStops` are the steps of an actor's asynchronous end; a NotificationAgent stops
itself, at a success (`NotifierStops`).

A prover publishes on every report, in any state, and the factory schedules a KillActor
for every success. `Publish` therefore counts executions and successes: a failure may
leave its execution going, a `Retry` adds one, and one prover may succeed twice. That
is coarser than the code in one respect: any failed execution may go on, where in the
code it is a `DefaultGoalSatisfier` that polls on, or a dependency that failed and
not the job.

### The history: `TrackHistory`, `HistoryAgent`

`TrackHistory` is the table and its operations, `HistoryAgent` the agents and a
reduced prover behind each, whose requests are all forced (`satisfyGoal`'s are): it
satisfies its dependencies, checks its evidence after them if it has any (`Evidenced`;
`EvidenceExists`, `EvidenceMissing`, `EvidenceThrows`) and runs its job. Executions and
checks are counted, as a retry may start one beside another, and
`ProverFirstSatisfyThrows` is a request whose dependencies cannot be acquired or whose
checker's name is taken. `CrashProcess` loses all actors and keeps the table.
`KillActor` stops an agent with its prover: an agent forwards a Satisfy with its sender,
so whoever listens for the goal's outcome does so by reference, and a prover that was
stopped is no longer told by those it once asked.

### Tracks: `TrackScheduler`, `TrackFactory`

A call of the factory is a sequence of steps of its thread, as nothing is
synchronised: those of the list's `Cacheable.get` (`ReadCached`, `TestAge`, `ListTracks`,
`StoreTracks`, `TakeFetched`: read `_cached`, test its age, list the files, store the
list, read it again) and then `LookUp`, `GenerateTrack`, `InitializeTrack`, `Answered`,
`ReturnTrack`, `Return`. Another thread's get or refreshTrack's `release` may come between
any two of them. `hand` is the list a thread has read or made and not yet stored;
`object` identity is by what it was loaded from and by whom.
`TrackScheduler` has Quartz's jobs, the QuartzActor's and the StartGoalActor's
mailboxes, and `scheduleMap`.

Operators whose comment begins with "Bug" are slight variations of the definition
that follows them; no specification uses them. They serve to see each property fail.

`MCProofEngine`, `MCHistoryAgent`, `MCTrackFactory`, `MCJobs` hold the instances' constants.
`*Proofs` hold the theorems.

## 3. What the runs check

| run | instance | shows | size |
|---|---|---|---|
| `Service` | p needs a and b; 2 clients; every job outcome, a failing markEvidence; 1 restartGoal of p; a page asks for p's status at any time | `TypeOK`, `AnswerIsTrue`, `DependencyOrder`, `ImplementsService` | 187,000 states, 2 min |
| `Retry` | p and b need a, b's witness is incomplete; 2 clients; p's check may throw; 1 retry each of p, a; p aborted once, in any state; a page asks for b's status | `RunningHasJob`, `NoLostReply`, `NoLostDependency`, `EventuallyAnswered`, `EventuallyRetried` | 117,000 states, 2 min |
| `Interleavings` | p needs a and b; a and b retried; a aborted once; forced and unforced; 1 repeated check | `SingleExecution`, `DependencyOrder`, `RunningHasJob`, `NoLostDependency`, `SatisfiedIsFinal` | 2 million states, 1.5 min |
| `Jobs` | a pool of 1 to 2 threads with a queue of 1; a Hive job of 2 statements that may be aborted, beside another; two jobs of one satisfier for two partitions, with a third that fills the queue; the same two, of which one may be aborted; a job that waits for two evidences | `TypeOK`, `DriversReleased`, `OneSession`, `SuccessIsMarked`, `RefusedOnlyWhenFull`, `EveryJobReports`, `SuccessIsLast`, `DataArrives` | 364,000 states, 1.5 min |
| `Factory` | 1 name, of a notified track, 2 callers, 4 requests, 4 provers, 1 retry, a history | `TypeOK`, `MapIsLive`, `OnlySucceededStop`, `NeverRecovers`, `EventuallyAcquired`, `EventuallyReleased` | 158,000 states, 1 min |
| `History` | p and q share a, q and a have evidence; 2 requests, 1 retry, 1 crash | `TypeOK`, `RunTree`, `OutcomeRecorded`, `OlderRunsStand`, `RunEnds` | 307,000 states, 2 min |
| `TrackList` | 1 track, 2 versions, a page and the StartGoalActor, the clock to 3 with a cache of 2, a listing that takes up to 1 | `TypeOK`, `NewestIsFound`, `RefreshFindsNewest` | 1.7 million states, 1 min |
| `TrackSchedule` | 2 variants of one name, one with a schedule Quartz cannot read; a page and the StartGoalActor | `EntryHasJob`, `JobIsKnown`, `CallsReturn` | 15 s |

Four runs are violated by what the code does, against what the repository says:

| run | what the trace shows |
|---|---|
| `FailedMarkedComplete` | `checkResults` marks the data of a failed execution completed; markEvidence's comment says the mark depends on the outcome |
| `SharedWitness` | `PartitionExists.apply` gives one satisfier to the jobs of all witnesses, and its `w` is overwritten before it is read: a job succeeds whose partition was never made |
| `HalfInitialized` | `getTrack` hands one thread the object another has put into the map and is still initialising |
| `LateKill` | `ProverFactory` schedules a KillActor by name for every GoalSuccess, "to release this actor": a goal that fails and is retried succeeds twice, and the second KillActor stops the prover that has meanwhile taken its name and not yet succeeded |

**Bounds, and why they are enough.** `Dependencies` of depth one with a pair of
dependencies, and with a shared one: a prover cannot tell its parent's depth, its
own protocol with parents and with children is what the pairs exercise, and the
third goal is what makes two children's reports race or two parents' requests. One
evidence per goal: two that are present or missing are only counted, and with two
of which one throws `SingleExecution` and `SatisfiedIsFinal` fail, see section 5. One
retry reaches every state of the agent (budget left, budget spent), but not every
state of its parent: with two retries of one dependency `SingleExecution` fails too,
again section 5. One abort, of a dependency in `Interleavings` and of a goal that
checks its evidence, where it restarts the prover, in `Retry`. Queries need no bound,
for nothing they do adds up. `Restartable` goals are restarted once, which is enough
as a restart changes nothing.

In `Jobs` a core of one thread, a maximum of two and a queue of one give every branch
of `execute` - a new thread, the queue, a thread above the core, a refusal - to three
jobs with two tasks each. Two statements are a script with a driver carried from one to
the next, and the third driver that an abort between them brings about. Jobs that have
nothing in common but the pool are checked in separate mixes, one Hive job or one
polling job at a time, as each has its own driver and its own evidence. Two jobs of
one satisfier overwrite each other's witness: they work on two partitions, or both on one
that the first adds and the second finds there, or get one and report another.
`MaxReports` 2 lets a polling job fail, fail again and succeed.

Four provers and requests in `Factory`: one prover that is stopped, one that takes its
name, and more after the factory has been restarted; with fewer provers than requests a
caller would wait for the bound. Provers of different names share nothing but the map and
the factory's exceptions; that its invariants hold of any number of names is proved. One
retry gives a prover two executions, and so two successes. One crash of the process
divides the table into before and after. Clock 3 with a cache of 2 lets the list expire,
be fetched again, and age. `MaxFetch` is an assumption on time and not only a bound: no
thread is in `Cacheable.get` for longer, or a list it has made could be stored at any
age. One page thread and the StartGoalActor schedule against each other in `TrackSchedule`; for any number of threads its invariants are proved. `MaxFires` 2
lets the StartGoalActor find mail waiting when it comes back. Deadlock is not
checked where the system rests when all is answered (engine, jobs, factory, history);
the track runs check it.

**Fairness.** Weak fairness of every actor's handling of its mail (Akka's dispatcher
runs an actor that has mail), of due timers (Akka's scheduler), of the end of jobs
and checks that run (assumed of the satisfier and of the file system: without it
nothing can be promised), and of threads inside a call of the factory. In `Jobs`, of a
free thread taking a queued task, of the end of a task that is done, and of the
steps of each job's satisfier, report and abort: threads run, Hive and the metastore
answer. None of clients, the prover, aborts, status queries, uploads, repeated checks,
data that comes, the clock, triggers, idle threads that expire, or crashes.

## 4. What is proved

For every value of the constants (any goals, dependencies, callers, jobs, pool sizes,
bounds), from the named ASSUMEs of the modules, which only give the constants' types
and say that names of different kinds differ:

- `ProofEngineProofs`: `TypeCorrect` (□TypeOK) and `ReplyNeverLost` (□NoLostReply).
  TypeOK is inductive. For NoLostReply a waiting client's debt is followed through
  each handler: a `Satisfy` leaves the mailbox only into the listeners or by an
  answer (`ProverHeeds`), a state leaves `Undecided` only by publishing to all
  listeners (`...Tells` lemmas) or by a status query that fails the goal, and a
  restart increments `incarnation`. It needs nothing besides TypeOK.
- `DependencyProofs`: `DependencyNeverLost` (□NoLostDependency), the same between
  provers. The property speaks of goals that wait; that alone is not inductive, as a
  goal comes to wait again by a RestartJob, long after it asked. The invariant
  `AllOwed` therefore says of every goal that `HasAsked` - it waits, its dependencies
  have failed it, or some request or news of its is about - that it is owed a `Debt`
  for each dependency: the request queued, itself among the listeners of one that has
  not come to its end, the news in its mailbox, or the status in its hands.
- `ServiceProofs`: for an engine that nothing disturbs, `NeverTwice` (□SingleExecution),
  `NeverWithoutJob` (□RunningHasJob), `OnlyOverSatisfied` (□DependencyOrder), `AnswersTrue`
  (□AnswerIsTrue), `SatisfiedStays` (SatisfiedIsFinal), `EndedStaysEnded`, `NoRestarts`,
  and `ServiceIsSafe`: each step of the engine is one of `GoalService`, or none. They
  rest on `Undisturbed`: no RetryAgents, no aborts, no check that throws, and goals whose
  status is asked for are forced. Goals, dependency maps (cycles and goals that lead to
  themselves included), evidences of a goal, incomplete witnesses, clients, outcomes,
  repeated checks, calls of restartGoal and status queries of forced goals are free.
  Each part of `Undisturbed` excludes a behaviour of section 5 in which one of the
  properties is false; without disturbance they hold of every instance, with
  disturbance within the bounds of the runs. `ServiceIsSafe` asks besides that clients
  force their goals, as `satisfyGoal` does: unforced, a goal whose evidence is there is
  satisfied before its dependencies are looked at, which `GoalService` does not allow.
  `ServiceInv` is inductive with TypeOK. Its parts: `Jobs`, the job of a running goal is
  asked for, executing or reported, in one place, and no other goal has one - a
  JobRunner may still have to finish, but only after the report; `Checks`, only a goal that
  has begun to look for evidence hears results, and a forced one has by then gone through
  its dependencies; `Silent`, a goal hears of nobody it has not asked; `NewsTrue`, a
  GoalSuccess or GoalFailure is true when it is read, not only when it was sent; `Once`,
  a dependency that has a single entry is asked once and tells its success once;
  `Passed`, a goal that has gone on has all its dependencies satisfied, has heard of each,
  and no news is left to open it again; `Ordered`, news is taken before results and
  reports, which a goal needs whose dependencies' statuses a page's query has brought
  early; `Stuck`, why a goal may be `DependencyFailed` or stand still; `ClientTold`. A
  step is shown once to have one of a few effects (`Quietly`, `Asks`, `Decides`,
  `Answers`, ...), one lemma per handler (`...Keeps`), and each part to survive the
  effects (`...Stays`). For the refinement, `Decides` maps to a decision of
  `GoalService`, `Answers` and a decision's publishing to its answers, a client's request
  to its request, and all else to a stutter.
- `JobExecutionProofs`: `TypeCorrect`, `Released` (□DriversReleased), `Session`
  (□OneSession), `Refusals`, `LastReport`. The invariant is TypeOK with `Queueing` (no
  task is twice in the pool, and none waits that is not to be run) and, for each job,
  `JobInv`: where its threads can be together (`Control`), how many statements and
  drivers there have been (`Statements`, `Creation`), what the handle holds at each
  point (`Handle`), and what has been reported (`Reporting`). That the report's
  thread starts only after the execution has released its driver is what keeps a
  session whole; that a job's callback is submitted only when its execution is no
  longer queued is what `Refusals` counts with.
- `PartitionProofs`: `CreatedIsMarked` (□SuccessIsMarked), for every map of jobs to
  satisfiers, shared or not. The property speaks of the partition a job has *got* (its
  copy), which need not be the one it was asked for - that it is, is what `SharedWitness`
  refutes. `MarkInv` adds that a job gets its copy once and before it writes anything
  (`Copying`), and that a satisfier's field is the witness of one of its jobs (`Field`),
  which says whose partitions an abort may drop. A step of a creation gets a copy or
  writes one, and then leaves the job about to write again, or failed, or its partition
  marked; every other step leaves partitions and copies alone (`Elsewhere`).
- `ProverFactoryProofs`: `FactoryTypeCorrect`, `FactoryMapIsLive`,
  `KillsOnlySucceeded`, `FactoryNeverRecovers`. The invariant `Inv` adds: of a name
  none of whose provers has published a second success (`SingleSuccess`) at most one
  KillActor is pending, and while it is, the one live prover of that name has succeeded
  (`OneTimer`, `OneAlive`); the map holds each prover under its own name (`MapOwn`);
  JMXAgent is named once (`JmxOnce`). A late KillActor, which names a goal and not an
  actor, is harmless to that extent only: with a second success it is not, as `LateKill`
  shows.
- `HistoryAgentProofs`: `HistoryTypeCorrect`, `RunsAreTree`, `OlderStand`
  (OlderRunsStand), `OutcomesRecorded` (□OutcomeRecorded). The invariant types every mailbox by a set of messages that
  depends on the table (a `Satisfy` carries a run of its receiver, and a parent run of
  a goal that depends on it); these sets only grow as rows are added. `KeepsNewest`
  adds that the run an agent holds is the newest row of its goal, or none. That a
  finished goal is recorded needs its agent to hold a run still when the outcome
  comes (`HasRun`), and so that no prover comes to an outcome without having been
  asked through its agent: `Asked` says that a goal asks its dependencies only when it
  has been asked, each once, and has no question open to one that has heard it;
  `Answered`, that a goal that is `Through` with its dependencies - it checks its
  evidence, runs, or has come to its end by doing so - has no question open, and that
  one that was not asked does nothing. Together they
  give that a prover is stopped with no question of its own under way, so that its
  successor is told nothing its predecessor asked for.
- `TrackFactoryProofs`: `TracksTypeCorrect`, `EntriesHaveJobs`, `JobsAreKnown`,
  `NewestFound` (NewestIsFound), `RefreshFinds` (RefreshFindsNewest). The invariant `SchedulerInv` follows the conversation
  with the QuartzActor: a waiting caller has one AddSchedule queued or one answer,
  never both (`OneAdd`); who has been granted a job is the only one for that key
  (`GrantIsAlone`); and no AddSchedule can be granted ahead of a queued removal of the
  same job (`RemoveIsAlone`). `ListAge` says of the cached list that it holds whatever was
  deployed `MaxFetch` before `lastAccessed` - not at `lastAccessed`, as a list made before
  a release may be stored after it - and of each thread in `Cacheable.get` what it knows
  of the list in its hand (`GetAge`); so a version is overlooked for `MaxAge + MaxFetch`
  at most, and by a refreshTrack for twice `MaxFetch`.

**Model-checked only.** Liveness (`EventuallyAnswered`, `EventuallyRetried`,
`EventuallyAcquired`, `EventuallyReleased`, `RunEnds`, `CallsReturn`,
`EveryJobReports`, `DataArrives`), which rests on fairness and so on ENABLED, out of
the prover's reach, as induction over data and RECURSIVE operators are (the modules use
neither); so of `ImplementsService` the fairness of `GoalService`, its safety being
`ServiceIsSafe`. `SingleExecution`, `DependencyOrder`, `RunningHasJob` and
`SatisfiedIsFinal` where aborts, retries and throwing checks come in: they hold within
the bounds of `Interleavings` and `Retry`, and not for every value of the constants, as
section 5 says.

## 5. Known divergences

Behaviours seen while modelling that no run above shows, most of them in the
instances next to those of the runs.

*The engine*

- `restartGoal` sends an instance, `RestartJob()`, where the prover matches the companion
  object (`actors/ProofEngine.scala:85`, `actors/PredicateProver.scala:183`): a failed goal
  takes it for an unexpected message and is never rerun on request.
- Two aborts of one goal, or one in `CheckingEvidence`, end in a MatchError: Akka
  restarts the prover, its job runs on, and a new request may start a second.
- With two evidences on a goal, a check that throws fails the goal while the other
  check's result starts its job; with retries the job may run twice at once.
- A dependency's state is read live, ahead of its messages. With one retry of each
  this is harmless: a retry publishes again, and the parent's mailbox is FIFO. With
  two retries of one (or one and a status query) it is not: a goal without evidence
  that leaves its mail unhandled for longer than the retry delay of 60 s finds
  GoalSuccess(b), GoalFailure(a), GoalSuccess(a) in it, with a and b satisfied by then
  and an earlier status of a in its hands. It starts its job at the first,
  is DependencyFailed at the second, and starts the job again at the third.
- A status query of a goal whose dependencies cannot be acquired fails it without a
  word: a goal that checks its evidence before its dependencies then drops the check's
  result and answers nobody, and one that has succeeded on its retry becomes `Failed`.
- After an unforced request a status query lets a goal go ahead on a dependency's
  status before its message; the GoalSuccess that follows then opens it again.
- An unforced request with a throwing check, or one whose dependencies cannot be
  acquired, and a retry: the rerun starts the job without the dependencies.
- The abort of a waiting goal changes nothing; that of a running one ends `Failed`,
  not `Aborted`, and may be retried.
- Two entries of one dependency map that lead to the same prover are two
  dependencies and one status: the goal waits forever.
- A GetActor while the stopped prover still holds its name makes actorOf throw: the
  factory is restarted with an empty map, and the caller is never answered.
- What `LateKill` shows takes a goal that succeeds twice: a `DefaultGoalSatisfier` that
  polls on after a failure and is retried, or a dependency's success that is told twice
  and reruns a goal that has succeeded.
- A goal of a notified track that is asked for again once its prover was stopped, while
  its NotificationAgent still has its name, restarts the factory.
- A WhatsYourStatus to a prover that has just been stopped is lost.

*Jobs*

- An abort of a Hive job, queued or running, closes its driver and stops nothing: the
  next statement gets a new driver without the settings of the script before it, and
  the script runs on. A driver that is closed while it executes may open again and
  then stays open.
- Two releases at once may meet a null; in finish() that leaves the runner running,
  and its name taken for the goal's next job.
- When the pool's queue is full, a job's report may be refused: the goal stays
  Running for good.
- A job that fails midway on a partition another has marked, or an abort that writes
  back an older copy, loses the completion mark.
- A `DefaultGoalSatisfier` is never stopped; one that reported a failure, and is
  retried, polls twice; and its ExecutionResult is one object in its failure and its
  success messages.
- LogWrapper puts the old err back as Console.out and never restores Console.err:
  the consoles of a pool's thread are the closed log of its previous job.

*History and tracks*

- A retry has no row of its own, and restartGoal, which restarts nothing, opens one
  that is never closed.
- The text of a variant is stored as `Some(v)` and compared with the Option itself
  (`track/JDBCSlickTrackHistory.scala:148`): runs of a track with a variant are not
  found.
- The cached list of tracks: one that was made before a release and is stored after it
  counts as made at the release; one that is released between its being read and its age
  being tested is served whatever its age (`NewestIsFound` excepts it, `Released`); and
  one that is released between its being stored and its being read again is the `get` of a
  None, an exception the caller gets.
- refreshTrack may return a version that has been deployed again since it was loaded.
- Of two variants of a track only the first is scheduled, the other silently not.
- `isRunning` of a track is false as soon as one of its goals has ended.
- Read, not modelled: a date two days ago is wrong in the hour after midnight
  (TwoPartitionAgoDate); a track path with a name like `version_3` ends in a
  NumberFormatException; TimeRange leaves out the end its comment includes.

## 6. What is left out of the modelled parts

- *Engine*: blocking in RestartJob; `newSatisfier` and `satisfier.abort` throwing;
  the stop of a prover after its success (in `ProverFactory`, not composed with the
  engine); the name of a stopped checker or runner is taken to be free at once; checks
  rescheduled by an earlier incarnation.
- *Jobs*: the lazy creation of the pool, class loaders and LogWrapper; ADD FILE,
  reading of results, the five immediate retries inside a statement; the cached lists
  of the metastore, table metadata, HiveDataOutput; a second Satisfy to a
  DefaultGoalSatisfier. A prover is here a single Satisfy and perhaps an Abort; that
  the engine's JobRunner, with its one-step execution, is implemented by
  `JobExecution` is argued by construction and not checked as a refinement, as a
  refused task has no counterpart in the engine.
- *History*: aborts; unforced requests; status queries, of which one may fail a goal
  that has succeeded without a word and so without a row; checks that are repeated, and a
  checker's name found taken while a GoalSuccess is handled; KillActor and retry
  timers come when the mailboxes involved are empty, as they are 30 and 60 s late.
- *Factory*: what a NotificationAgent sends.
- *Tracks*: triggers (a job fires at any time), date rounding, what the
  StartGoalActor starts, isRunning; class loading is a failure or an object; map
  operations are atomic; the 30 s timeout of the scheduler's Await never expires.
- *Everywhere*: log and progress texts, times, users, mail, JMX counters.
- *Not modelled at all*: the libraries under
  `apps/willrogers/public/javascripts/` (jQuery, jQuery UI, DataTables, SlickGrid,
  jsPlumb). They are by far the longest files of the repository and its only
  JavaScript, and they are other projects' releases, shipped unchanged: widgets of
  the pages, with no state or decision of Satisfaction in them. The program itself is
  Scala, and the definitions here are mapped to it. Also the clients of Hadoop and
  Oozie, the samples and the build plug-in, which are I/O on other systems.

## 7. Plan

Order: (1) the engine, its factory, its history, tracks - done; (2) extensions of the
model - done: jobs on the pool, Hive's statements and their abort, creation of
partitions, `DefaultGoalSatisfier`, status queries; (3) more proofs - done: every
invariant and action property of the passing runs is a theorem, those of `ServiceProofs`
for the undisturbed engine, and so is the safety of `ImplementsService`.
What remains, the most important first:

- the StartGoalActor's starting of goals and isRunning: overlap of a constantly
  running track; the timeout of the scheduler's Await; `QuartzActor`'s rounding of
  dates as an operator.
- aborts in `HistoryAgent`; a prover's stop composed with the engine.
- pure parts as operators with reference definitions, together in one module and
  run: `Substituter`, `Witness`, `TemporalVariable`, the round trip of a track's
  path, `MajorMinorPatch`.
- the metastore's cache, the caching track loader, the mail of `NotificationAgent`.
- proofs: `SingleExecution` and `RunningHasJob` with one abort or one retry, from an
  invariant that lets a job be an orphan and counts the reports that are left; that a
  prover which is stopped (`HistoryAgent`, `ProverFactory`) owes nobody an answer.

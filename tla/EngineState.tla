---------------------------- MODULE EngineState ----------------------------
(* What the actors of the proof engine share: the goals and their            *)
(* dependencies, the state each actor keeps, the mailboxes between them and  *)
(* the ways a message is put into one.  A mailbox is FIFO and loses nothing  *)
(* while its actor lives, as Akka guarantees for local actors; a message to  *)
(* a stopped actor is a dead letter.                                         *)
EXTENDS Naturals, Sequences, FiniteSets, GoalStatus

CONSTANTS
  Goals,          \* the (goal, witness) pairs, each with one PredicateProver
  Witnesses,      \* labels that tell apart the entries of one dependency map
  Dependencies,   \* Dependencies[g]: the entries of _dependencies, a witness
                  \* label and the prover its filtered witness leads to
  NumEvidence,    \* NumEvidence[g]: size of evidenceForWitness
  BadWitness,     \* goals for whose dependencies acquireProver throws
  Retryable,      \* goals with a RetryAgent (track.shouldRetry)
  Queried,        \* goals whose status the pages ask for
  Clients,        \* callers of ProofEngine.satisfyGoal, one request each
  retryAgent,     \* stands for a prover's own RetryAgent among its listeners
  NoValue

Entries(g, d) == {e \in Dependencies[g] : e[2] = d}
Children(g) == {e[2] : e \in Dependencies[g]}
HasDependencies(g) == Dependencies[g] # {}
HasEvidence(g) == NumEvidence[g] > 0

ASSUME NamesDistinct ==
  /\ Goals \cap Clients = {}
  /\ retryAgent \notin Goals \cup Clients

ASSUME DependenciesType ==
  /\ Dependencies \in [Goals -> SUBSET (Witnesses \X Goals)]
  /\ \A g \in Goals : IsFiniteSet(Dependencies[g])
  /\ NumEvidence \in [Goals -> Nat]
  /\ BadWitness \subseteq Goals
  /\ Retryable \subseteq Goals /\ Queried \subseteq Goals

Requesters == Goals \cup Clients
Listeners == Requesters \cup {retryAgent}
-----------------------------------------------------------------------------
(* PredicateProver's fields.                                                 *)
VARIABLES
  state,          \* status.state, which every holder of the status reads live
  force,          \* forceSatisfy
  listeners,      \* _listenerList
  childStatus,    \* status._dependencyStatus, a set of Status objects
  checkers,       \* keys of _evidenceCheckers
  jobRunner,      \* is the jobRunner reference set?
  incarnation     \* how often Akka has restarted the actor after an exception

(* Mailboxes, and the answer each client's ask has been completed with.      *)
VARIABLES
  mailbox,        \* a prover's
  retryBox,       \* a RetryAgent's
  reply           \* reply[c]: "none", "waiting", "GoalSuccess", "GoalFailure"

(* EvidenceChecker, JobRunner, RetryAgent and the clients.                   *)
VARIABLES
  evidenceActors, \* ids of the EvidenceChecker actors that exist
  probes,         \* ids whose exists() future is still to complete
  runner,         \* is an actor named Satisfier_<goal> alive?
  runnerBox,      \* its mailbox
  futures,        \* executions of the satisfier in the thread pool
  finishing,      \* executions that have reported and not yet called finish()
  orphans,        \* executions whose JobRunner has stopped
  marks,          \* what markEvidence last wrote on the goal's data instances
  retryUp,        \* has the RetryAgent not stopped?
  retries,        \* currentRetry
  timers,         \* RestartJob messages the scheduler has still to send
  asked,          \* asked[c]: the goal client c asked for, or NoValue
  aborts,         \* calls of abortGoal so far
  restarts,       \* goals restartGoal was called for
  resends         \* CheckEvidence messages sent again so far

proverVars == <<state, force, listeners, childStatus, checkers, jobRunner,
                incarnation>>
boxVars == <<mailbox, retryBox, reply>>
checkerVars == <<evidenceActors, probes, resends>>
runnerVars == <<runner, runnerBox, futures, finishing, orphans, marks>>
retryVars == <<retryUp, retries, timers>>
clientVars == <<asked, aborts, restarts>>
vars == <<proverVars, boxVars, checkerVars, runnerVars, retryVars, clientVars>>
-----------------------------------------------------------------------------
(* A status object outlives the prover that made it: whoever holds it reads  *)
(* its present state until Akka restarts the prover, which then keeps a new  *)
(* one.  The abandoned object stays in the state the exception left it in,   *)
(* which is never a satisfied one nor Failed.                                *)
Status == Goals \X Nat
StatusOf(g) == <<g, incarnation[g]>>
IsCurrent(s) == s[2] = incarnation[s[1]]
LiveState(s) == IF IsCurrent(s) THEN state[s[1]] ELSE "CheckingEvidence"

(* Messages a prover receives.  "Unexpected" stands for what its receive     *)
(* matches only in the last case: the companion object Abort a parent sends, *)
(* the KillActor it schedules for itself, and the RestartJob() instance of   *)
(* ProofEngine.restartGoal.                                                  *)
SatisfyMsg(from, f) == [type |-> "Satisfy", from |-> from, force |-> f]
GoalMsg(type, d)    == [type |-> type, status |-> StatusOf(d)]
EvidenceMsg(id, x)  == [type |-> "EvidenceCheckResult", id |-> id, exists |-> x]
JobMsg(type)        == [type |-> type]
AbortMsg(kill)      == [type |-> "Abort", killChildren |-> kill]
RestartMsg          == [type |-> "RestartJob"]
UnexpectedMsg       == [type |-> "Unexpected"]

Message ==
       [type : {"Satisfy"}, from : Requesters, force : BOOLEAN]
  \cup [type : {"GoalSuccess", "GoalFailure"}, status : Status]
  \cup [type : {"EvidenceCheckResult"}, id : Nat, exists : BOOLEAN]
  \cup [type : {"JobRunSuccess", "JobRunFailed"}]
  \cup [type : {"Abort"}, killChildren : BOOLEAN]
  \cup [type : {"RestartJob"}]
  \cup [type : {"Unexpected"}]

\* The message g handles next, and the mailboxes once it has been taken out.
Received(g, type) == mailbox[g] # <<>> /\ Head(mailbox[g]).type = type
Taken(g) == [mailbox EXCEPT ![g] = Tail(@)]

\* A request of r is still to be handled by g.
SatisfyQueued(r, g) ==
  \E i \in 1..Len(mailbox[g]) :
    mailbox[g][i].type = "Satisfy" /\ mailbox[g][i].from = r

\* publishSuccess and publishFailure: everyone in L is told about g.  A
\* client's ask takes the first answer only; a stopped RetryAgent takes none.
Publish(g, type, L, box) ==
  /\ mailbox' = [h \in Goals |-> IF h \in L
                                 THEN Append(box[h], GoalMsg(type, g))
                                 ELSE box[h]]
  /\ reply' = [c \in Clients |-> IF c \in L /\ reply[c] = "waiting"
                                 THEN type ELSE reply[c]]
  /\ retryBox' = IF retryAgent \in L /\ retryUp[g]
                 THEN [retryBox EXCEPT ![g] = Append(@, GoalMsg(type, g))]
                 ELSE retryBox

\* No one is told anything; the mailboxes become box.
Quiet(box) == mailbox' = box /\ UNCHANGED <<retryBox, reply>>

Init ==
  /\ state = [g \in Goals |-> "Unstarted"]
  /\ force = [g \in Goals |-> FALSE]
  /\ listeners = [g \in Goals |-> IF g \in Retryable THEN {retryAgent} ELSE {}]
  /\ childStatus = [g \in Goals |-> {}]
  /\ checkers = [g \in Goals |-> {}]
  /\ jobRunner = [g \in Goals |-> FALSE]
  /\ incarnation = [g \in Goals |-> 0]
  /\ mailbox = [g \in Goals |-> <<>>]
  /\ retryBox = [g \in Goals |-> <<>>]
  /\ reply = [c \in Clients |-> "none"]
  /\ evidenceActors = [g \in Goals |-> {}]
  /\ probes = [g \in Goals |-> {}]
  /\ runner = [g \in Goals |-> FALSE]
  /\ runnerBox = [g \in Goals |-> <<>>]
  /\ futures = [g \in Goals |-> 0]
  /\ finishing = [g \in Goals |-> 0]
  /\ orphans = [g \in Goals |-> 0]
  /\ marks = [g \in Goals |-> "unmarked"]
  /\ retryUp = [g \in Goals |-> g \in Retryable]
  /\ retries = [g \in Goals |-> 0]
  /\ timers = [g \in Goals |-> 0]
  /\ asked = [c \in Clients |-> NoValue]
  /\ aborts = 0
  /\ restarts = {}
  /\ resends = 0
=============================================================================

---------------------------- MODULE ProverFactory ----------------------------
(* The actor that creates the provers, keeps them in a map by name and stops *)
(* them a while after they succeed, seen from the threads and provers that   *)
(* ask it for one.  A prover is reduced to what the factory's work depends   *)
(* on: its name, whether it is at its goal, the executions that may still    *)
(* report to it, and how far it has stopped.  An actor stops asynchronously  *)
(* and its name stays taken until it has; naming a new actor so throws, and  *)
(* Akka then restarts the factory with an empty map while the provers, which *)
(* are not its children, live on.                                            *)
(* References are recorded only for senders that are not asking; everyone    *)
(* asks, so _referenceMap stays empty and ReleaseActor does nothing.         *)
EXTENDS Naturals, FiniteSets

CONSTANTS
  Names,        \* getActorName of a goal's name and a witness, not of its track
  Requesters,   \* callers of acquireProver
  History,      \* is a TrackHistory configured, and so a HistoryAgent in front?
  Notified,     \* names of goals whose track is Notified
  MaxActors,    \* bound: provers created
  MaxRequests,  \* bound: calls of acquireProver
  MaxRetries,   \* bound: restarts of failed provers
  NoActor

ASSUME FactoryConstants ==
  /\ History \in BOOLEAN
  /\ Notified \subseteq Names
  /\ MaxActors \in Nat /\ MaxRequests \in Nat /\ MaxRetries \in Nat
  /\ NoActor \notin Nat

Provers == 1..MaxActors

VARIABLES
  actorMap,     \* _actorMap: what is registered under each name
  jmxAgent,     \* "none" yet, "ours" (named by this instance of the factory)
                \* or "former" (by one before it)
  killTimers,   \* KillActor messages still to come, by name
  crashes,      \* how often the factory was restarted
  created,      \* provers created so far
  nameOf,       \* their names
  work,         \* "unstarted", "working", "succeeded" or "failed"
  jobs,         \* their executions that have still to report a success
  successes,    \* how often they have published one
  retries,      \* restarts so far, of all provers
  life,         \* "unborn", "alive", "stopping" or "stopped"
  front,        \* the same for the HistoryAgent, also "ending" after postStop
  notifiers,    \* provers whose NotificationAgent has not stopped
  mail,         \* requesters whose message the prover has still to handle
  listeners,    \* requesters it will tell the outcome
  phase,        \* how far each requester is
  request,      \* what for: a name, and Satisfy or WhatsYourStatus
  ref,          \* the prover it was given
  requests      \* acquireProver calls so far

factoryVars == <<actorMap, jmxAgent, killTimers, crashes>>
workVars == <<work, jobs, successes, retries>>
proverVars == <<created, nameOf, workVars, life, front, notifiers, mail, listeners>>
requesterVars == <<phase, request, ref, requests>>
vars == <<factoryVars, proverVars, requesterVars>>

Kinds == {"Satisfy", "WhatsYourStatus"}
Request == Names \X Kinds

Init ==
  /\ actorMap = [n \in Names |-> NoActor]
  /\ jmxAgent = "none"
  /\ killTimers = [n \in Names |-> 0]
  /\ crashes = 0 /\ created = 0
  /\ nameOf = [i \in Provers |-> NoActor]
  /\ work = [i \in Provers |-> "unstarted"]
  /\ jobs = [i \in Provers |-> 0]
  /\ successes = [i \in Provers |-> 0]
  /\ retries = 0
  /\ life = [i \in Provers |-> "unborn"]
  /\ front = [i \in Provers |-> "unborn"]
  /\ notifiers = {}
  /\ mail = [i \in Provers |-> {}]
  /\ listeners = [i \in Provers |-> {}]
  /\ phase = [r \in Requesters |-> "idle"]
  /\ request = [r \in Requesters |-> NoActor]
  /\ ref = [r \in Requesters |-> NoActor]
  /\ requests = 0
-----------------------------------------------------------------------------
\* Does the actor that is registered for prover i take messages?
Open(i) == IF History THEN front[i] = "alive" ELSE life[i] = "alive"

\* Names of provers, of HistoryAgents and of NotificationAgents that are not free.
NameTaken(n) ==
  \E i \in Provers : nameOf[i] = n /\ life[i] \in {"alive", "stopping"}
HistoryNameTaken(n) ==
  \E i \in Provers : nameOf[i] = n /\ front[i] \in {"alive", "stopping", "ending"}
NotifierNameTaken(n) == \E i \in notifiers : nameOf[i] = n

Registered(n) == actorMap[n] # NoActor

\* The exception costs the request that raised it; the new instance starts with
\* an empty map and has yet to evaluate jmxAgent, which the old one had if named.
Crash(r, named) ==
  /\ actorMap' = [n \in Names |-> NoActor]
  /\ jmxAgent' = IF named THEN "former" ELSE jmxAgent
  /\ crashes' = crashes + 1
  /\ phase' = [phase EXCEPT ![r] = "lost"]
  /\ UNCHANGED <<killTimers, request, ref, requests>>

\* The prover of createProverActor, and the HistoryAgent, once they exist.
NewProver(n) ==
  /\ created < MaxActors
  /\ created' = created + 1
  /\ nameOf' = [nameOf EXCEPT ![created + 1] = n]
  /\ life' = [life EXCEPT ![created + 1] = "alive"]
  /\ UNCHANGED <<workVars, mail, listeners>>

\* Acquire: GetActor is sent, and the caller waits for the answer.
AcquireProver(r, n, kind) ==
  /\ phase[r] \in {"idle", "answered", "lost"}
  /\ requests < MaxRequests
  /\ requests' = requests + 1
  /\ phase' = [phase EXCEPT ![r] = "acquiring"]
  /\ request' = [request EXCEPT ![r] = <<n, kind>>]
  /\ ref' = [ref EXCEPT ![r] = NoActor]
  /\ UNCHANGED <<factoryVars, proverVars>>

Answer(r, i) ==
  /\ phase' = [phase EXCEPT ![r] = "holding"]
  /\ ref' = [ref EXCEPT ![r] = i]
  /\ UNCHANGED <<request, requests>>

\* Bug: a prover that has failed is not handed out again.
GetActorUnlessFailed(r) ==
  LET n == request[r][1] IN
  /\ phase[r] = "acquiring"
  /\ Registered(n) /\ work[actorMap[n]] # "failed"
  /\ Answer(r, actorMap[n])
  /\ UNCHANGED <<factoryVars, proverVars>>

HandleGetActor(r) ==
  LET n == request[r][1] IN
  /\ phase[r] = "acquiring"
  /\ Registered(n)
  /\ Answer(r, actorMap[n])
  /\ UNCHANGED <<factoryVars, proverVars>>

\* Bug: an agent that exists already is found, not named again.
JmxFound == TRUE

\* jmxAgent is created once in each instance of the factory; a second actor of
\* its name throws.
JmxCreated == jmxAgent # "former"

\* GetActor creates the prover: with a history its HistoryAgent is created
\* next, then registered, and then the JMXAgent, and the NotificationAgent.
CreateProver(r) ==
  LET n == request[r][1] IN
  /\ phase[r] = "acquiring"
  /\ ~Registered(n) /\ ~NameTaken(n)
  /\ NewProver(n)
  /\ History => ~HistoryNameTaken(n) /\ JmxCreated
  /\ n \in Notified => ~NotifierNameTaken(n)
  /\ front' = IF History THEN [front EXCEPT ![created + 1] = "alive"] ELSE front
  /\ jmxAgent' = IF History THEN "ours" ELSE jmxAgent
  /\ notifiers' = IF n \in Notified THEN notifiers \cup {created + 1} ELSE notifiers
  /\ actorMap' = [actorMap EXCEPT ![n] = created + 1]
  /\ Answer(r, created + 1)
  /\ UNCHANGED <<killTimers, crashes>>

\* actorOf finds the prover's name taken.
CreateProverThrows(r) ==
  /\ phase[r] = "acquiring"
  /\ ~Registered(request[r][1]) /\ NameTaken(request[r][1])
  /\ Crash(r, jmxAgent = "ours")
  /\ UNCHANGED proverVars

\* The prover exists by the time the name of its HistoryAgent, of the JMXAgent or
\* of its NotificationAgent is found taken.
CreateAgentThrows(r) ==
  LET n == request[r][1]
      fronted == History /\ ~HistoryNameTaken(n) IN
  /\ phase[r] = "acquiring"
  /\ ~Registered(n) /\ ~NameTaken(n)
  /\ \/ History /\ (HistoryNameTaken(n) \/ ~JmxCreated)
     \/ n \in Notified /\ NotifierNameTaken(n)
  /\ NewProver(n)
  /\ front' = IF fronted THEN [front EXCEPT ![created + 1] = "alive"] ELSE front
  /\ Crash(r, fronted \/ jmxAgent = "ours")
  /\ UNCHANGED notifiers

\* KillActor: what is registered under the name by now is stopped, and entry is
\* what the map is left with.
Kill(n, entry) ==
  LET i == actorMap[n] IN
  /\ killTimers' = [killTimers EXCEPT ![n] = @ - 1]
  /\ actorMap' = [actorMap EXCEPT ![n] = entry]
  /\ front' = IF Registered(n) /\ History THEN [front EXCEPT ![i] = "stopping"] ELSE front
  /\ life' = IF Registered(n) /\ ~History THEN [life EXCEPT ![i] = "stopping"] ELSE life
  /\ UNCHANGED <<jmxAgent, crashes, created, nameOf, workVars, notifiers, mail,
                 listeners, requesterVars>>

\* Bugs: the stopped actor stays in the map; one message too many is handled.
KillStaysRegistered(n) == killTimers[n] > 0 /\ Kill(n, actorMap[n])
KillOnceMore(n) == killTimers[n] >= 0 /\ Kill(n, NoActor)

HandleKillActor(n) == killTimers[n] > 0 /\ Kill(n, NoActor)
-----------------------------------------------------------------------------
(* What the factory does not see: actors stop, and provers are asked and come *)
(* to an end, some of them by a retry.                                       *)

\* Bug: postStop forgets the prover.
PostStopForgets(i) ==
  /\ front[i] = "stopping"
  /\ front' = [front EXCEPT ![i] = "ending"]
  /\ UNCHANGED <<factoryVars, created, nameOf, workVars, life, notifiers, mail,
                 listeners, requesterVars>>

\* HistoryAgent.postStop stops the prover before the agent's name is free.
HistoryPostStop(i) ==
  /\ front[i] = "stopping"
  /\ front' = [front EXCEPT ![i] = "ending"]
  /\ life' = [life EXCEPT ![i] = "stopping"]
  /\ UNCHANGED <<factoryVars, created, nameOf, workVars, notifiers, mail, listeners,
                 requesterVars>>

\* The guardian frees the agent's name.
HistoryStops(i) ==
  /\ front[i] = "ending"
  /\ front' = [front EXCEPT ![i] = "stopped"]
  /\ UNCHANGED <<factoryVars, created, nameOf, workVars, life, notifiers, mail,
                 listeners, requesterVars>>

\* The guardian frees the prover's name; what it had not handled is lost, and who
\* waits for its outcome is not told.
ProverStops(i) ==
  /\ life[i] = "stopping"
  /\ life' = [life EXCEPT ![i] = "stopped"]
  /\ phase' = [r \in Requesters |-> IF r \in mail[i] \cup listeners[i] THEN "lost"
                                    ELSE phase[r]]
  /\ mail' = [mail EXCEPT ![i] = {}]
  /\ listeners' = [listeners EXCEPT ![i] = {}]
  /\ UNCHANGED <<factoryVars, created, nameOf, workVars, front, notifiers, request,
                 ref, requests>>

\* A NotificationAgent listens on after a failure and stops itself at a success;
\* nobody else stops it.
NotifierStops(i) ==
  /\ i \in notifiers /\ successes[i] > 0
  /\ notifiers' = notifiers \ {i}
  /\ UNCHANGED <<factoryVars, created, nameOf, workVars, life, front, mail, listeners,
                 requesterVars>>

\* The message reaches the prover, or is a dead letter.
Ask(r) ==
  LET i == ref[r] IN
  /\ phase[r] = "holding"
  /\ phase' = [phase EXCEPT ![r] = IF Open(i) THEN "asked" ELSE "lost"]
  /\ mail' = [mail EXCEPT ![i] = IF Open(i) THEN @ \cup {r} ELSE @]
  /\ UNCHANGED <<factoryVars, created, nameOf, workVars, life, front, notifiers,
                 listeners, request, ref, requests>>

\* The prover answers at once unless it is asked to satisfy its goal and is not
\* through with it.
Handle(i, r) ==
  /\ life[i] = "alive" /\ r \in mail[i]
  /\ mail' = [mail EXCEPT ![i] = @ \ {r}]
  /\ \/ /\ request[r][2] = "WhatsYourStatus" \/ work[i] \in {"succeeded", "failed"}
        /\ phase' = [phase EXCEPT ![r] = "answered"]
        /\ UNCHANGED <<work, jobs, listeners>>
     \/ /\ request[r][2] = "Satisfy" /\ work[i] \in {"unstarted", "working"}
        /\ work' = [work EXCEPT ![i] = "working"]
        /\ jobs' = IF work[i] = "unstarted" THEN [jobs EXCEPT ![i] = 1] ELSE jobs
        /\ listeners' = [listeners EXCEPT ![i] = @ \cup {r}]
        /\ UNCHANGED phase
  /\ UNCHANGED <<factoryVars, created, nameOf, successes, retries, life, front, notifiers,
                 request, ref, requests>>

\* An execution reports, whatever state the prover is in.  The outcome goes to the
\* listeners, and to the factory, which schedules a KillActor for the name.  After
\* a failure the execution may go on: it polls for its evidence, or what failed
\* was a dependency.
PublishReleasing(i, outcome, released) ==
  /\ life[i] = "alive" /\ jobs[i] > 0
  /\ work' = [work EXCEPT ![i] = outcome]
  /\ \/ jobs' = [jobs EXCEPT ![i] = @ - 1]
     \/ outcome = "failed" /\ UNCHANGED jobs
  /\ successes' = IF outcome = "succeeded"
                  THEN [successes EXCEPT ![i] = @ + 1] ELSE successes
  /\ phase' = [r \in Requesters |-> IF r \in listeners[i] THEN "answered" ELSE phase[r]]
  /\ listeners' = [listeners EXCEPT ![i] = {}]
  /\ killTimers' = IF outcome \in released
                   THEN [killTimers EXCEPT ![nameOf[i]] = @ + 1] ELSE killTimers
  /\ UNCHANGED <<actorMap, jmxAgent, crashes, created, nameOf, retries, life, front,
                 notifiers, mail, request, ref, requests>>

\* Bug: failed provers are killed too.
PublishReleasesAll(i, outcome) == PublishReleasing(i, outcome, {"succeeded", "failed"})

Publish(i, outcome) == PublishReleasing(i, outcome, {"succeeded"})

\* Its RetryAgent, or a page, restarts a failed prover: one execution more, also
\* when the one whose failure was reported goes on.
Retry(i) ==
  /\ life[i] = "alive" /\ work[i] = "failed" /\ retries < MaxRetries
  /\ work' = [work EXCEPT ![i] = "working"]
  /\ jobs' = [jobs EXCEPT ![i] = @ + 1]
  /\ retries' = retries + 1
  /\ UNCHANGED <<factoryVars, created, nameOf, successes, life, front, notifiers, mail,
                 listeners, requesterVars>>

FactoryStep ==
  \/ \E r \in Requesters : \/ HandleGetActor(r) \/ CreateProver(r)
                           \/ CreateProverThrows(r) \/ CreateAgentThrows(r)
  \/ \E n \in Names : HandleKillActor(n)

ProverStep(i) ==
  \/ HistoryPostStop(i) \/ HistoryStops(i) \/ ProverStops(i) \/ NotifierStops(i) \/ Retry(i)
  \/ \E r \in Requesters : Handle(i, r)
  \/ \E o \in {"succeeded", "failed"} : Publish(i, o)

RequesterStep(r) ==
  Ask(r) \/ \E n \in Names, k \in Kinds : AcquireProver(r, n, k)

Next == \/ FactoryStep
        \/ \E i \in Provers : ProverStep(i)
        \/ \E r \in Requesters : RequesterStep(r)

\* Actors handle their mail and stop when told, timers go off, a thread goes on
\* once it has its prover; no job need come to an end.
Fairness ==
  /\ \A r \in Requesters :
       WF_vars(HandleGetActor(r) \/ CreateProver(r) \/ CreateProverThrows(r)
               \/ CreateAgentThrows(r)) /\ WF_vars(Ask(r))
  /\ \A n \in Names : WF_vars(HandleKillActor(n))
  /\ \A i \in Provers :
       /\ WF_vars(HistoryPostStop(i)) /\ WF_vars(HistoryStops(i))
       /\ WF_vars(ProverStops(i))
       /\ \A r \in Requesters : WF_vars(Handle(i, r))

Spec == Init /\ [][Next]_vars
FairSpec == Spec /\ Fairness
-----------------------------------------------------------------------------
Stage == {"unborn", "alive", "stopping", "stopped"}
Phase == {"idle", "acquiring", "holding", "asked", "answered", "lost"}

FactoryTypeOK ==
  /\ actorMap \in [Names -> Provers \cup {NoActor}]
  /\ jmxAgent \in {"none", "ours", "former"}
  /\ killTimers \in [Names -> Nat]
  /\ crashes \in Nat
ProverTypeOK ==
  /\ created \in 0..MaxActors
  /\ nameOf \in [Provers -> Names \cup {NoActor}]
  /\ work \in [Provers -> {"unstarted", "working", "succeeded", "failed"}]
  /\ jobs \in [Provers -> Nat] /\ successes \in [Provers -> Nat] /\ retries \in Nat
  /\ notifiers \subseteq Provers
  /\ life \in [Provers -> Stage]
  /\ \A i \in Provers : life[i] # "unborn" => nameOf[i] \in Names
  /\ front \in [Provers -> Stage \cup {"ending"}]
  /\ mail \in [Provers -> SUBSET Requesters]
  /\ listeners \in [Provers -> SUBSET Requesters]
RequesterTypeOK ==
  /\ requests \in 0..MaxRequests
  /\ phase \in [Requesters -> Phase]
  /\ request \in [Requesters -> Request \cup {NoActor}]
  /\ ref \in [Requesters -> Provers \cup {NoActor}]
  /\ \A r \in Requesters :
       /\ phase[r] = "acquiring" => request[r] \in Request
       /\ phase[r] \in {"holding", "asked"} => ref[r] \in Provers

\* The map refers to provers that exist, timers and counters are naturals, and
\* who waits for a prover has said what for, and holds one once given it.
TypeOK == FactoryTypeOK /\ ProverTypeOK /\ RequesterTypeOK

\* While the factory has not thrown, its map is exactly the provers that take
\* messages, each under its own name: no caller is given one that has been told
\* to stop, and none lives on unknown to the factory.
MapIsLive ==
  /\ \A n \in Names : Registered(n) => nameOf[actorMap[n]] = n /\ Open(actorMap[n])
  /\ crashes = 0 =>
       \A i \in 1..created : Open(i) => actorMap[nameOf[i]] = i

ToldToStop(i) ==
  life[i] \in {"stopping", "stopped"} \/ front[i] \in {"stopping", "ending", "stopped"}

\* Whatever timer is late and whoever asks for the name again meanwhile, no
\* prover is stopped before it has succeeded, unless one of its name has
\* published a success twice: the second KillActor may find its successor.
OnlySucceededStop ==
  \A i \in Provers : ToldToStop(i) =>
    \/ successes[i] > 0
    \/ \E j \in Provers : nameOf[j] = nameOf[i] /\ successes[j] > 1

\* With a history, a factory that has thrown once never keeps a prover again:
\* the new instance cannot name its JMXAgent.
NeverRecovers == History /\ crashes > 0 => \A n \in Names : ~Registered(n)

\* A caller gets its prover, unless the factory has thrown.
EventuallyAcquired ==
  \A r \in Requesters : phase[r] = "acquiring" ~> phase[r] = "holding" \/ crashes > 0

\* A prover that has succeeded is stopped in the end, and its name free again,
\* unless the factory has thrown and forgotten it.
EventuallyReleased ==
  \A i \in Provers : successes[i] > 0 ~> life[i] = "stopped" \/ crashes > 0
-----------------------------------------------------------------------------
(* What a comment of the code says and the code does not keep.               *)

\* GoalSuccess: "Schedule a message to release this actor after a while".  What
\* is released has succeeded.
OnlyThisActorStops == \A i \in Provers : ToldToStop(i) => successes[i] > 0
=============================================================================

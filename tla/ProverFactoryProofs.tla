------------------------- MODULE ProverFactoryProofs -------------------------
(* For any number of names, callers and provers, with a history or without:  *)
(* the map of the factory agrees with the provers that live, no prover is    *)
(* stopped before it has succeeded while none of its name publishes a second *)
(* success, and with a history a factory that has thrown once never keeps a  *)
(* prover again.                                                             *)
EXTENDS ProverFactory, TLAPS

Alive == {"alive", "stopping"}

\* What is still to be created has no name, no life and no work.
Unborn ==
  \A i \in Provers : i > created =>
    /\ nameOf[i] = NoActor /\ life[i] = "unborn" /\ front[i] = "unborn"
    /\ work[i] = "unstarted" /\ jobs[i] = 0 /\ successes[i] = 0 /\ mail[i] = {}

\* A HistoryAgent that has not run postStop has its prover behind it, and a
\* prover someone has reached has its agent in front.
Fronted ==
  /\ \A i \in Provers : front[i] \in Alive => life[i] = "alive"
  /\ ~History => \A i \in Provers : front[i] = "unborn"
  /\ \A i \in Provers :
       work[i] # "unstarted" \/ jobs[i] # 0 \/ mail[i] # {} \/ (\E r \in Requesters : ref[r] = i)
         => life[i] # "unborn" /\ (History => front[i] # "unborn")

\* The names of actors are unique while they live.
OneAlive ==
  \A i, j \in Provers :
    life[i] \in Alive /\ life[j] \in Alive /\ nameOf[i] = nameOf[j] => i = j

MapOwn ==
  \A n \in Names : Registered(n) => nameOf[actorMap[n]] = n /\ Open(actorMap[n])

\* No prover of the name has published a second success.
SingleSuccess(n) == \A i \in Provers : nameOf[i] = n => successes[i] <= 1

\* One KillActor at most is to come for such a name, and then the prover of that
\* name has succeeded and has not been told to stop.
OneTimer ==
  \A n \in Names : SingleSuccess(n) =>
    /\ killTimers[n] <= 1
    /\ killTimers[n] = 1 =>
         \E i \in Provers : nameOf[i] = n /\ Open(i) /\ successes[i] = 1

SucceededStop ==
  \A i \in Provers : ToldToStop(i) /\ SingleSuccess(nameOf[i]) => successes[i] = 1

\* The JMXAgent exists since the first prover with a history, and the instance
\* of the factory that named it is gone after the first exception.
JmxOnce ==
  History => /\ created > 0 <=> jmxAgent # "none"
             /\ crashes > 0 => created > 0 /\ jmxAgent = "former"

Inv == /\ TypeOK /\ Unborn /\ Fronted /\ OneAlive /\ MapOwn /\ OneTimer
       /\ SucceededStop /\ JmxOnce /\ MapIsLive /\ NeverRecovers

USE FactoryConstants
-----------------------------------------------------------------------------
\* The initial state has nothing in the map and no prover.
LEMMA InitInv == Init => Inv
<1>. SUFFICES ASSUME Init PROVE Inv
  OBVIOUS
<1>1. TypeOK
  <2>1. FactoryTypeOK
    BY DEF Init, FactoryTypeOK
  <2>2. ProverTypeOK
    BY DEF Init, ProverTypeOK, Stage
  <2>3. RequesterTypeOK
    BY DEF Init, RequesterTypeOK, Phase
  <2>. QED  BY <2>1, <2>2, <2>3 DEF TypeOK
<1>2. Unborn /\ Fronted
  BY DEF Init, Unborn, Fronted, Alive, Provers
<1>3. OneAlive /\ SucceededStop
  BY DEF Init, OneAlive, SucceededStop, ToldToStop, Alive
<1>4. MapOwn /\ MapIsLive /\ NeverRecovers
  BY DEF Init, MapOwn, MapIsLive, NeverRecovers, Registered
<1>5. OneTimer /\ JmxOnce
  BY DEF Init, OneTimer, JmxOnce
<1>. QED  BY <1>1, <1>2, <1>3, <1>4, <1>5 DEF Inv

\* Creating a prover gives the next number to an actor of that name.
LEMMA NewProverIs ==
  ASSUME TypeOK, NEW n \in Names, NewProver(n)
  PROVE  /\ created + 1 \in Provers /\ created' = created + 1
         /\ nameOf' \in [Provers -> Names \cup {NoActor}]
         /\ life' \in [Provers -> Stage]
         /\ nameOf'[created + 1] = n /\ life'[created + 1] = "alive"
         /\ \A i \in Provers : i # created + 1 =>
              nameOf'[i] = nameOf[i] /\ life'[i] = life[i]
         /\ created' \in 0..MaxActors
  BY DEF TypeOK, ProverTypeOK, NewProver, Provers, Stage

\* A request that waits names a prover and a kind of question.
LEMMA RequestTyped ==
  ASSUME TypeOK, NEW r \in Requesters, phase[r] = "acquiring"
  PROVE  request[r][1] \in Names
  BY DEF TypeOK, RequesterTypeOK, Request
-----------------------------------------------------------------------------
\* Who holds a prover's reference holds one that was registered, with its
\* agent in front.
LEMMA HeldFronted ==
  ASSUME Inv, NEW n \in Names, Registered(n)
  PROVE  /\ actorMap[n] \in Provers /\ nameOf[actorMap[n]] = n
         /\ life[actorMap[n]] = "alive"
         /\ History => front[actorMap[n]] = "alive"
  BY DEF Inv, TypeOK, FactoryTypeOK, MapOwn, Registered, Open, Fronted, Alive

\* Every step keeps the types.
LEMMA StepTyped ==
  ASSUME Inv, Next
  PROVE  TypeOK'
<1>. TypeOK
  BY DEF Inv
<1>. USE DEF TypeOK
<1>1. ASSUME NEW r \in Requesters, HandleGetActor(r) PROVE TypeOK'
  <2>1. request[r][1] \in Names /\ actorMap[request[r][1]] \in Provers
    BY <1>1, RequestTyped DEF HandleGetActor, Registered, FactoryTypeOK
  <2>2. RequesterTypeOK'
    BY <1>1, <2>1 DEF HandleGetActor, Answer, RequesterTypeOK, Phase
  <2>. QED  BY <1>1, <2>2 DEF HandleGetActor, FactoryTypeOK, ProverTypeOK, factoryVars, proverVars,
                             workVars
<1>2. ASSUME NEW r \in Requesters, CreateProver(r) PROVE TypeOK'
  <2>1. request[r][1] \in Names /\ NewProver(request[r][1])
    BY <1>2, RequestTyped DEF CreateProver
  <2>2. created + 1 \in Provers
    BY <2>1, NewProverIs
  <2>3. RequesterTypeOK'
    BY <1>2, <2>2 DEF CreateProver, Answer, RequesterTypeOK, Phase
  <2>4. FactoryTypeOK'
    BY <1>2, <2>1, <2>2 DEF CreateProver, FactoryTypeOK, ProverTypeOK
  <2>5. ProverTypeOK'
    BY <1>2, <2>1, <2>2, NewProverIs DEF CreateProver, NewProver, ProverTypeOK, Stage, workVars
  <2>. QED  BY <2>3, <2>4, <2>5
<1>3. ASSUME NEW r \in Requesters, CreateProverThrows(r) PROVE TypeOK'
  <2>1. FactoryTypeOK'
    BY <1>3 DEF CreateProverThrows, Crash, FactoryTypeOK
  <2>2. ProverTypeOK'
    BY <1>3 DEF CreateProverThrows, ProverTypeOK, proverVars, workVars
  <2>3. RequesterTypeOK'
    BY <1>3 DEF CreateProverThrows, Crash, RequesterTypeOK, Phase
  <2>. QED  BY <2>1, <2>2, <2>3
<1>4. ASSUME NEW r \in Requesters, CreateAgentThrows(r) PROVE TypeOK'
  <2>1. request[r][1] \in Names /\ NewProver(request[r][1])
    BY <1>4, RequestTyped DEF CreateAgentThrows
  <2>2. FactoryTypeOK'
    BY <1>4 DEF CreateAgentThrows, Crash, FactoryTypeOK
  <2>3. ProverTypeOK'
    BY <1>4, <2>1, NewProverIs DEF CreateAgentThrows, NewProver, ProverTypeOK, Stage, workVars
  <2>4. RequesterTypeOK'
    BY <1>4 DEF CreateAgentThrows, Crash, RequesterTypeOK, Phase
  <2>. QED  BY <2>2, <2>3, <2>4
<1>5. ASSUME NEW n \in Names, HandleKillActor(n) PROVE TypeOK'
  <2>1. FactoryTypeOK'
    BY <1>5 DEF HandleKillActor, Kill, FactoryTypeOK
  <2>2. ProverTypeOK'
    BY <1>5, HeldFronted DEF HandleKillActor, Kill, ProverTypeOK, Stage, workVars
  <2>3. RequesterTypeOK'
    BY <1>5 DEF HandleKillActor, Kill, RequesterTypeOK, requesterVars
  <2>. QED  BY <2>1, <2>2, <2>3
<1>6. ASSUME NEW i \in Provers, HistoryPostStop(i) \/ HistoryStops(i) PROVE TypeOK'
  <2>. front[i] = "stopping" => life[i] = "alive"
    BY DEF Inv, Fronted, Alive
  <2>. QED
    BY <1>6 DEF HistoryPostStop, HistoryStops, FactoryTypeOK, ProverTypeOK,
                RequesterTypeOK, Stage, factoryVars, requesterVars, workVars
<1>7. ASSUME NEW i \in Provers, ProverStops(i) PROVE TypeOK'
  <2>1. RequesterTypeOK'
    BY <1>7 DEF ProverStops, ProverTypeOK, RequesterTypeOK, Phase
  <2>. QED  BY <1>7, <2>1 DEF ProverStops, FactoryTypeOK, ProverTypeOK, Stage, factoryVars, workVars
<1>8. ASSUME NEW i \in Provers, Retry(i) PROVE TypeOK'
  BY <1>8 DEF Retry, FactoryTypeOK, ProverTypeOK, RequesterTypeOK, factoryVars, requesterVars
<1>13. ASSUME NEW i \in Provers, NotifierStops(i) PROVE TypeOK'
  BY <1>13 DEF NotifierStops, FactoryTypeOK, ProverTypeOK, RequesterTypeOK, factoryVars,
               requesterVars, workVars
<1>9. ASSUME NEW i \in Provers, NEW r \in Requesters, Handle(i, r) PROVE TypeOK'
  <2>1. RequesterTypeOK'
    BY <1>9 DEF Handle, ProverTypeOK, RequesterTypeOK, Phase
  <2>2. ProverTypeOK'
    BY <1>9 DEF Handle, ProverTypeOK
  <2>. QED  BY <1>9, <2>1, <2>2 DEF Handle, FactoryTypeOK, factoryVars
<1>10. ASSUME NEW i \in Provers, NEW o \in {"succeeded", "failed"}, Publish(i, o)
       PROVE  TypeOK'
  <2>1. RequesterTypeOK'
    BY <1>10 DEF Publish, PublishReleasing, ProverTypeOK, RequesterTypeOK, Phase
  <2>2. ProverTypeOK'
    BY <1>10 DEF Publish, PublishReleasing, ProverTypeOK
  <2>3. FactoryTypeOK'
    BY <1>10 DEF Publish, PublishReleasing, FactoryTypeOK, ProverTypeOK
  <2>. QED  BY <2>1, <2>2, <2>3
<1>11. ASSUME NEW r \in Requesters, Ask(r) PROVE TypeOK'
  <2>1. RequesterTypeOK'
    BY <1>11 DEF Ask, RequesterTypeOK, Phase
  <2>2. ProverTypeOK'
    BY <1>11 DEF Ask, ProverTypeOK, workVars
  <2>. QED  BY <1>11, <2>1, <2>2 DEF Ask, FactoryTypeOK, factoryVars
<1>12. ASSUME NEW r \in Requesters, NEW n \in Names, NEW k \in Kinds, AcquireProver(r, n, k)
       PROVE  TypeOK'
  <2>1. <<n, k>> \in Request
    BY DEF Request
  <2>2. RequesterTypeOK'
    BY <1>12, <2>1 DEF AcquireProver, RequesterTypeOK, Phase
  <2>. QED  BY <1>12, <2>2 DEF AcquireProver, FactoryTypeOK, ProverTypeOK, factoryVars, proverVars,
                             workVars
<1>. QED
  BY <1>1, <1>2, <1>3, <1>4, <1>5, <1>6, <1>7, <1>8, <1>9, <1>10, <1>11, <1>12,
     <1>13 DEF Next, FactoryStep, ProverStep, RequesterStep
-----------------------------------------------------------------------------
\* The exception leaves nothing in the map.
LEMMA CrashEmpties ==
  ASSUME TypeOK, NEW r \in Requesters, NEW named \in BOOLEAN, Crash(r, named),
         jmxAgent = "ours" => named
  PROVE  /\ \A n \in Names : actorMap'[n] = NoActor
         /\ killTimers' = killTimers /\ ref' = ref /\ crashes' = crashes + 1
         /\ jmxAgent' # "ours"
         /\ jmxAgent # "none" \/ named => jmxAgent' = "former"
  BY DEF Crash, TypeOK, FactoryTypeOK

\* Creating a prover keeps the invariant, whether or not the factory throws
\* after it.
LEMMA CreateInv ==
  ASSUME Inv, TypeOK', NEW r \in Requesters, CreateProver(r)
  PROVE  Inv'
<1>. DEFINE n == request[r][1]
            c == created + 1
<1>1. n \in Names /\ NewProver(n) /\ ~NameTaken(n)
  BY RequestTyped DEF CreateProver, Inv
<1>2. /\ c \in Provers /\ created' = c /\ nameOf'[c] = n /\ life'[c] = "alive"
      /\ \A i \in Provers : i # c => nameOf'[i] = nameOf[i] /\ life'[i] = life[i]
      /\ UNCHANGED <<work, jobs, successes, mail>>
  BY <1>1, NewProverIs DEF Inv, NewProver, workVars
<1>3. /\ created \in Nat /\ life[c] = "unborn" /\ front[c] = "unborn"
      /\ work[c] = "unstarted" /\ jobs[c] = 0 /\ successes[c] = 0 /\ mail[c] = {}
  BY <1>2 DEF Inv, TypeOK, ProverTypeOK, Unborn
<1>4. /\ \A i \in Provers : i # c => front'[i] = front[i]
      /\ History => front'[c] = "alive"
      /\ ~History => front' = front
      /\ ref'[r] = c /\ \A q \in Requesters : q # r => ref'[q] = ref[q]
      /\ actorMap'[n] = c /\ \A m \in Names : m # n => actorMap'[m] = actorMap[m]
      /\ killTimers' = killTimers /\ crashes' = crashes
  BY <1>1, <1>2 DEF CreateProver, Answer, Inv, TypeOK, FactoryTypeOK, ProverTypeOK,
                    RequesterTypeOK
<1>13. \A m : SingleSuccess(m)' => SingleSuccess(m)
  BY <1>2, <1>3 DEF SingleSuccess
<1>5. Unborn'
  BY <1>2, <1>3, <1>4 DEF Inv, Unborn, Provers
<1>6. Fronted'
  BY <1>2, <1>3, <1>4 DEF Inv, Fronted, Alive
<1>7. OneAlive'
  BY <1>1, <1>2 DEF Inv, OneAlive, NameTaken, Alive
<1>8. MapOwn'
  <2>. SUFFICES ASSUME NEW m \in Names, (actorMap[m] # NoActor)'
                PROVE  (nameOf[actorMap[m]] = m /\ Open(actorMap[m]))'
    BY DEF MapOwn, Registered
  <2>1. CASE m = n
    BY <1>2, <1>4, <2>1 DEF Open
  <2>2. CASE m # n
    <3>1. Registered(m) /\ actorMap[m] # c
      BY <1>3, <1>4, <2>2, HeldFronted DEF Registered
    <3>. QED  BY <1>2, <1>4, <2>2, <3>1, HeldFronted DEF Open
  <2>. QED  BY <2>1, <2>2
<1>9. OneTimer'
  <2>1. \A i \in Provers : i # c /\ Open(i) => Open(i)'
    BY <1>2, <1>4 DEF Open
  <2>. QED  BY <1>2, <1>3, <1>4, <1>13, <2>1 DEF Inv, OneTimer
<1>10. SucceededStop'
  <2>. SUFFICES ASSUME NEW i \in Provers, ToldToStop(i)', SingleSuccess(nameOf[i])'
                PROVE  (successes[i] = 1)'
    BY DEF SucceededStop
  <2>1. i # c
    BY <1>2, <1>3, <1>4 DEF ToldToStop
  <2>2. nameOf'[i] = nameOf[i] /\ ToldToStop(i)
    BY <1>2, <1>4, <2>1 DEF ToldToStop
  <2>3. SingleSuccess(nameOf[i])
    BY <1>2, <1>3, <2>2 DEF SingleSuccess
  <2>. QED  BY <1>2, <2>2, <2>3 DEF Inv, SucceededStop
<1>11. JmxOnce' /\ NeverRecovers'
  BY <1>2, <1>3, <1>4 DEF Inv, JmxOnce, NeverRecovers, CreateProver, JmxCreated
<1>12. MapIsLive'
  <2>. SUFFICES ASSUME (crashes = 0)', NEW i \in 1..created', Open(i)'
                PROVE  (actorMap[nameOf[i]] = i)'
    BY <1>8 DEF MapIsLive, MapOwn
  <2>1. CASE i = c
    BY <1>2, <1>4, <2>1
  <2>2. CASE i # c
    <3>1. i \in 1..created /\ i \in Provers
      BY <1>2, <1>3, <2>2 DEF Provers
    <3>2. Open(i)
      BY <1>2, <1>4, <2>2, <3>1 DEF Open
    <3>3. actorMap[nameOf[i]] = i /\ life[i] = "alive"
      BY <1>4, <3>1, <3>2 DEF Inv, MapIsLive, Fronted, Open, Alive
    <3>4. nameOf[i] # n /\ nameOf[i] \in Names
      BY <1>1, <3>1, <3>3 DEF NameTaken, Inv, TypeOK, ProverTypeOK
    <3>. QED  BY <1>2, <1>4, <2>2, <3>1, <3>3, <3>4
  <2>. QED  BY <2>1, <2>2
<1>. QED
  BY <1>5, <1>6, <1>7, <1>8, <1>9, <1>10, <1>11, <1>12 DEF Inv

\* A name that is taken costs the map, and the prover created before it lives
\* on under its own.
LEMMA ThrowInv ==
  ASSUME Inv, TypeOK', NEW r \in Requesters,
         CreateProverThrows(r) \/ CreateAgentThrows(r)
  PROVE  Inv'
<1>1. PICK named \in BOOLEAN : Crash(r, named) /\ (jmxAgent = "ours" => named)
  BY DEF CreateProverThrows, CreateAgentThrows
<1>2. /\ \A n \in Names : actorMap'[n] = NoActor
      /\ killTimers' = killTimers /\ ref' = ref /\ crashes' > 0
      /\ jmxAgent' # "ours" /\ (jmxAgent # "none" => jmxAgent' = "former")
  BY <1>1, CrashEmpties DEF Inv, TypeOK, FactoryTypeOK
<1>3. MapOwn' /\ MapIsLive' /\ NeverRecovers'
  BY <1>2 DEF MapOwn, MapIsLive, NeverRecovers, Registered
<1>4. CASE CreateProverThrows(r)
  <2>1. \E i \in Provers : life[i] \in Alive
    BY <1>4 DEF CreateProverThrows, NameTaken, Alive
  <2>2. created \in Nat /\ created > 0
    BY <2>1 DEF Inv, TypeOK, ProverTypeOK, Unborn, Alive, Provers
  <2>3. UNCHANGED <<created, nameOf, work, jobs, successes, life, front, mail>>
    BY <1>4 DEF CreateProverThrows, proverVars, workVars
  <2>4. Unborn' /\ OneAlive' /\ SucceededStop'
    BY <2>3 DEF Inv, Unborn, OneAlive, SucceededStop, ToldToStop, SingleSuccess
  <2>5. Fronted'
    BY <1>2, <2>3 DEF Inv, Fronted
  <2>6. OneTimer' /\ JmxOnce'
    BY <1>2, <2>2, <2>3 DEF Inv, OneTimer, JmxOnce, Open, SingleSuccess
  <2>. QED  BY <1>3, <2>4, <2>5, <2>6 DEF Inv
<1>5. CASE CreateAgentThrows(r)
  <2>. DEFINE n == request[r][1]
              c == created + 1
  <2>1. n \in Names /\ NewProver(n) /\ ~NameTaken(n)
    BY <1>5, RequestTyped DEF CreateAgentThrows, Inv
  <2>2. /\ c \in Provers /\ created' = c /\ nameOf'[c] = n /\ life'[c] = "alive"
        /\ \A i \in Provers : i # c => nameOf'[i] = nameOf[i] /\ life'[i] = life[i]
        /\ UNCHANGED <<work, jobs, successes, mail>>
    BY <2>1, NewProverIs DEF Inv, NewProver, workVars
  <2>3. /\ created \in Nat /\ life[c] = "unborn" /\ front[c] = "unborn"
        /\ work[c] = "unstarted" /\ jobs[c] = 0 /\ successes[c] = 0 /\ mail[c] = {}
    BY <2>2 DEF Inv, TypeOK, ProverTypeOK, Unborn
  <2>4. /\ \A i \in Provers : i # c => front'[i] = front[i]
        /\ front'[c] \in {"unborn", "alive"} /\ (~History => front'[c] = "unborn")
    BY <1>5, <2>2, <2>3 DEF CreateAgentThrows, Inv, TypeOK, ProverTypeOK
  <2>12. \A m : SingleSuccess(m)' => SingleSuccess(m)
    BY <2>2, <2>3 DEF SingleSuccess
  <2>5. Unborn'
    BY <2>2, <2>3, <2>4 DEF Inv, Unborn, Provers
  <2>6. \A q \in Requesters : ref[q] # c
    BY <2>2, <2>3 DEF Inv, Fronted
  <2>7. Fronted'
    BY <1>2, <2>1, <2>2, <2>3, <2>4, <2>6 DEF Inv, Fronted, Alive
  <2>8. OneAlive'
    BY <2>1, <2>2 DEF Inv, OneAlive, NameTaken, Alive
  <2>9. OneTimer'
    <3>1. \A i \in Provers : i # c /\ Open(i) => Open(i)'
      BY <2>2, <2>4 DEF Open
    <3>. QED  BY <1>2, <2>2, <2>3, <2>12, <3>1 DEF Inv, OneTimer
  <2>10. SucceededStop'
    BY <2>2, <2>4, <2>12 DEF Inv, SucceededStop, ToldToStop
  <2>11. JmxOnce'
    <3>1. ASSUME History, HistoryNameTaken(n) PROVE created > 0
      <4>1. \E i \in Provers : front[i] # "unborn"
        BY <3>1 DEF HistoryNameTaken
      <4>. QED  BY <4>1, <2>3 DEF Inv, Unborn, Provers
    <3>2. ASSUME History, ~HistoryNameTaken(n) PROVE jmxAgent' = "former"
      BY <1>5, <3>2 DEF CreateAgentThrows, Crash
    <3>. QED  BY <1>2, <2>2, <2>3, <3>1, <3>2 DEF Inv, JmxOnce
  <2>. QED  BY <1>3, <2>5, <2>7, <2>8, <2>9, <2>10, <2>11 DEF Inv
<1>. QED  BY <1>4, <1>5

\* KillActor finds under the name the prover whose success scheduled it, or
\* nothing, as long as no prover of the name succeeds twice: two provers of one
\* name cannot be alive.
LEMMA KillInv ==
  ASSUME Inv, TypeOK', NEW n \in Names, HandleKillActor(n)
  PROVE  Inv'
<1>. DEFINE i == actorMap[n]
<1>1. /\ killTimers[n] > 0 /\ killTimers'[n] = killTimers[n] - 1 /\ actorMap'[n] = NoActor
      /\ \A m \in Names : m # n =>
           killTimers'[m] = killTimers[m] /\ actorMap'[m] = actorMap[m]
      /\ UNCHANGED <<jmxAgent, crashes, created, nameOf, work, jobs, successes, mail, ref>>
  BY DEF HandleKillActor, Kill, Inv, TypeOK, FactoryTypeOK, requesterVars, workVars
<1>2. Registered(n) => /\ i \in Provers /\ nameOf[i] = n /\ life[i] = "alive" /\ Open(i)
                       /\ History => front[i] = "alive"
  BY HeldFronted DEF Inv, MapOwn
<1>3. /\ \A k \in Provers : ~Registered(n) \/ k # i => front'[k] = front[k] /\ life'[k] = life[k]
      /\ Registered(n) /\ History => front'[i] = "stopping" /\ life'[i] = "alive"
      /\ Registered(n) /\ ~History => life'[i] = "stopping" /\ front'[i] = front[i]
  BY <1>2 DEF HandleKillActor, Kill, Inv, TypeOK, ProverTypeOK
<1>4. \A m : SingleSuccess(m)' <=> SingleSuccess(m)
  BY <1>1 DEF SingleSuccess
<1>5. \A k \in Provers : ~Registered(n) \/ k # i => (Open(k)' <=> Open(k))
  BY <1>3 DEF Open
<1>7. Unborn'
  BY <1>1, <1>2, <1>3 DEF Inv, Unborn
<1>8. Fronted'
  BY <1>1, <1>2, <1>3 DEF Inv, Fronted, Alive
<1>9. OneAlive'
  <2>1. \A k \in Provers : life'[k] \in Alive => life[k] \in Alive
    BY <1>2, <1>3 DEF Alive
  <2>. QED  BY <1>1, <2>1 DEF Inv, OneAlive
<1>10. MapOwn'
  <2>. SUFFICES ASSUME NEW m \in Names, (actorMap[m] # NoActor)'
                PROVE  (nameOf[actorMap[m]] = m /\ Open(actorMap[m]))'
    BY DEF MapOwn, Registered
  <2>1. m # n /\ Registered(m) /\ actorMap'[m] = actorMap[m]
    BY <1>1 DEF Registered
  <2>2. /\ actorMap[m] \in Provers /\ nameOf[actorMap[m]] = m /\ Open(actorMap[m])
        /\ Registered(n) => actorMap[m] # i
    BY <1>2, <2>1, HeldFronted DEF Inv, MapOwn
  <2>. QED  BY <1>1, <1>5, <2>1, <2>2
<1>11. OneTimer'
  <2>. SUFFICES ASSUME NEW m \in Names, SingleSuccess(m)
                PROVE  /\ killTimers'[m] <= 1
                       /\ killTimers'[m] = 1 =>
                            \E k \in Provers : nameOf[k] = m /\ Open(k)' /\ successes[k] = 1
    BY <1>1, <1>4 DEF OneTimer
  <2>1. CASE m = n
    BY <1>1, <2>1 DEF Inv, OneTimer, TypeOK, FactoryTypeOK
  <2>2. CASE m # n
    <3>1. \A k \in Provers : nameOf[k] = m => (Open(k)' <=> Open(k))
      BY <1>2, <1>5, <2>2
    <3>. QED  BY <1>1, <2>2, <3>1 DEF Inv, OneTimer
  <2>. QED  BY <2>1, <2>2
<1>12. SucceededStop'
  <2>. SUFFICES ASSUME NEW k \in Provers, ToldToStop(k)', SingleSuccess(nameOf[k])
                PROVE  successes[k] = 1
    BY <1>1, <1>4 DEF SucceededStop
  <2>1. CASE Registered(n) /\ k = i
    <3>1. PICK j \in Provers : nameOf[j] = n /\ Open(j) /\ successes[j] = 1
      <4>1. killTimers[n] = 1
        BY <1>1, <1>2, <2>1 DEF Inv, OneTimer, TypeOK, FactoryTypeOK
      <4>. QED  BY <1>2, <2>1, <4>1 DEF Inv, OneTimer
    <3>2. life[j] = "alive"
      BY <3>1 DEF Open, Inv, Fronted, Alive
    <3>. QED  BY <1>2, <2>1, <3>1, <3>2 DEF Inv, OneAlive, Alive
  <2>2. CASE ~Registered(n) \/ k # i
    BY <1>3, <2>2 DEF Inv, SucceededStop, ToldToStop
  <2>. QED  BY <2>1, <2>2
<1>13. JmxOnce' /\ NeverRecovers'
  BY <1>1 DEF Inv, JmxOnce, NeverRecovers, Registered
<1>14. MapIsLive'
  <2>. SUFFICES ASSUME (crashes = 0)', NEW k \in 1..created, Open(k)'
                PROVE  actorMap'[nameOf[k]] = k
    BY <1>1, <1>10 DEF MapIsLive, MapOwn
  <2>1. k \in Provers /\ created \in Nat
    BY DEF Inv, TypeOK, ProverTypeOK, Provers
  <2>2. ~Registered(n) \/ k # i
    BY <1>2, <1>3 DEF Open
  <2>3. actorMap[nameOf[k]] = k
    BY <1>1, <1>5, <2>1, <2>2 DEF Inv, MapIsLive
  <2>4. nameOf[k] \in Names /\ life[k] = "alive"
    BY <1>5, <2>1, <2>2 DEF Inv, TypeOK, ProverTypeOK, Fronted, Open, Alive
  <2>5. nameOf[k] # n
    BY <2>1, <2>2, <2>3, FactoryConstants DEF Registered, Provers
  <2>. QED  BY <1>1, <2>3, <2>4, <2>5
<1>. QED
  BY <1>7, <1>8, <1>9, <1>10, <1>11, <1>12, <1>13, <1>14 DEF Inv

\* Actors that were told to stop do stop.
LEMMA StopInv ==
  ASSUME Inv, TypeOK', NEW i \in Provers,
         HistoryPostStop(i) \/ HistoryStops(i) \/ ProverStops(i)
  PROVE  Inv'
<1>1. /\ UNCHANGED <<factoryVars, created, nameOf, work, jobs, successes, ref>>
      /\ mail' = mail \/ mail' = [mail EXCEPT ![i] = {}]
      /\ \A j \in Provers : j # i => front'[j] = front[j] /\ life'[j] = life[j]
  BY DEF HistoryPostStop, HistoryStops, ProverStops, requesterVars, workVars, Inv, TypeOK,
         ProverTypeOK
<1>2. \/ front[i] = "stopping" /\ front'[i] = "ending" /\ life'[i] = "stopping"
      \/ front[i] = "ending" /\ front'[i] = "stopped" /\ life'[i] = life[i]
      \/ front'[i] = front[i] /\ life[i] = "stopping" /\ life'[i] = "stopped"
  BY DEF HistoryPostStop, HistoryStops, ProverStops, Inv, TypeOK, ProverTypeOK
<1>3. /\ UNCHANGED <<actorMap, jmxAgent, killTimers, crashes, created, nameOf, work, jobs, successes,
                     ref>>
      /\ \A j \in Provers : mail'[j] \subseteq mail[j]
  BY <1>1 DEF factoryVars, Inv, TypeOK, ProverTypeOK
<1>4. ~Open(i) /\ \A j \in Provers : Open(j) <=> Open(j)'
  BY <1>1, <1>2 DEF Open, Inv, Fronted, Alive
<1>5. Unborn'
  BY <1>1, <1>2, <1>3 DEF Inv, Unborn
<1>6. Fronted'
  BY <1>1, <1>2, <1>3 DEF Inv, Fronted, Alive
<1>7. OneAlive'
  <2>1. \A j \in Provers : life'[j] \in Alive => life[j] \in Alive
    BY <1>1, <1>2 DEF Alive, Inv, Fronted
  <2>. QED  BY <1>3, <2>1 DEF Inv, OneAlive
<1>8. MapOwn'
  BY <1>3, <1>4, HeldFronted DEF Inv, MapOwn, Registered
<1>13. \A m : SingleSuccess(m)' <=> SingleSuccess(m)
  BY <1>3 DEF SingleSuccess
<1>9. OneTimer'
  BY <1>3, <1>4, <1>13 DEF Inv, OneTimer
<1>10. SucceededStop'
  BY <1>1, <1>2, <1>3, <1>13 DEF Inv, SucceededStop, ToldToStop
<1>11. JmxOnce' /\ NeverRecovers'
  BY <1>3 DEF Inv, JmxOnce, NeverRecovers, Registered
<1>12. MapIsLive'
  <2>1. 1..created \subseteq Provers
    BY DEF Inv, TypeOK, ProverTypeOK, Provers
  <2>. QED  BY <1>3, <1>4, <1>8, <2>1 DEF Inv, MapIsLive, MapOwn
<1>. QED
  BY <1>5, <1>6, <1>7, <1>8, <1>9, <1>10, <1>11, <1>12 DEF Inv

\* Callers and their messages move, and nothing the factory cares for: what a
\* caller holds, or has sent, belongs to a prover with its agent in front.
LEMMA TalkInv ==
  ASSUME Inv, TypeOK', UNCHANGED <<factoryVars, created, nameOf, successes, life, front>>,
         \A i \in Provers :
           /\ \/ jobs'[i] = jobs[i] /\ work'[i] = work[i]
              \/ mail[i] # {} \/ work[i] # "unstarted"
           /\ mail'[i] \subseteq mail[i] \/ \E r \in Requesters : ref[r] = i,
         \A r \in Requesters :
           \/ ref'[r] = ref[r] \/ ref'[r] = NoActor
           \/ \E n \in Names : Registered(n) /\ ref'[r] = actorMap[n]
  PROVE  Inv'
<1>1. UNCHANGED <<actorMap, jmxAgent, killTimers, crashes, created, nameOf, successes, life, front>>
  BY DEF factoryVars
<1>2. \A m : SingleSuccess(m)' <=> SingleSuccess(m)
  BY DEF SingleSuccess
<1>3. \A i \in Provers : Open(i) <=> Open(i)'
  BY <1>1 DEF Open
<1>4. Unborn'
  <2>. SUFFICES ASSUME NEW i \in Provers, i > created
                PROVE  work'[i] = "unstarted" /\ jobs'[i] = 0 /\ mail'[i] = {}
    BY <1>1 DEF Inv, Unborn
  <2>1. work[i] = "unstarted" /\ jobs[i] = 0 /\ mail[i] = {} /\ front[i] = "unborn" /\ life[i] = "unborn"
    BY DEF Inv, Unborn
  <2>. QED  BY <2>1 DEF Inv, Fronted
<1>5. Fronted'
  <2>1. ASSUME NEW i \in Provers, NEW r \in Requesters, ref'[r] = i
        PROVE  life[i] # "unborn" /\ (History => front[i] # "unborn")
    <3>1. CASE \E n \in Names : Registered(n) /\ i = actorMap[n]
      BY <3>1, <2>1, HeldFronted
    <3>2. CASE ref[r] = i
      BY <3>2, <2>1 DEF Inv, Fronted
    <3>. QED  BY <2>1, <3>1, <3>2 DEF Provers
  <2>2. ASSUME NEW i \in Provers,
               work'[i] # "unstarted" \/ jobs'[i] # 0 \/ mail'[i] # {}
        PROVE  life[i] # "unborn" /\ (History => front[i] # "unborn")
    BY <2>2 DEF Inv, Fronted
  <2>. QED  BY <1>1, <2>1, <2>2 DEF Inv, Fronted
<1>6. OneAlive'
  BY <1>1 DEF Inv, OneAlive
<1>7. MapOwn'
  BY <1>1, <1>3, HeldFronted DEF Inv, MapOwn, Registered
<1>8. OneTimer'
  BY <1>1, <1>2, <1>3 DEF Inv, OneTimer
<1>9. SucceededStop'
  BY <1>1, <1>2 DEF Inv, SucceededStop, ToldToStop
<1>10. JmxOnce' /\ NeverRecovers'
  BY <1>1 DEF Inv, JmxOnce, NeverRecovers, Registered
<1>11. MapIsLive'
  <2>1. 1..created \subseteq Provers
    BY DEF Inv, TypeOK, ProverTypeOK, Provers
  <2>. QED  BY <1>1, <1>3, <1>7, <2>1 DEF Inv, MapIsLive, MapOwn
<1>. QED
  BY <1>4, <1>5, <1>6, <1>7, <1>8, <1>9, <1>10, <1>11 DEF Inv

\* A prover's first success finds it open and no KillActor to come for its name.
LEMMA PublishInv ==
  ASSUME Inv, TypeOK', NEW i \in Provers, NEW o \in {"succeeded", "failed"}, Publish(i, o)
  PROVE  Inv'
<1>. DEFINE n == nameOf[i]
<1>1. /\ UNCHANGED <<actorMap, jmxAgent, crashes, created, nameOf, life, front, mail, ref>>
      /\ life[i] = "alive" /\ jobs[i] > 0
      /\ \A j \in Provers : j # i => /\ jobs'[j] = jobs[j] /\ work'[j] = work[j]
                                    /\ successes'[j] = successes[j]
      /\ n \in Names
  BY DEF Publish, PublishReleasing, Inv, TypeOK, ProverTypeOK
<1>2. /\ o = "succeeded" => /\ killTimers'[n] = killTimers[n] + 1
                            /\ successes'[i] = successes[i] + 1
      /\ o = "failed" => successes' = successes /\ killTimers' = killTimers
      /\ \A m \in Names : m # n => killTimers'[m] = killTimers[m]
  BY <1>1 DEF Publish, PublishReleasing, Inv, TypeOK, FactoryTypeOK, ProverTypeOK
<1>3. \A j \in Provers : successes[j] \in Nat /\ successes[j] <= successes'[j]
  BY <1>1, <1>2 DEF Inv, TypeOK, ProverTypeOK
<1>4. \A m : SingleSuccess(m)' => SingleSuccess(m)
  BY <1>1, <1>3 DEF SingleSuccess, Inv, TypeOK, ProverTypeOK
<1>5. ASSUME o = "succeeded", SingleSuccess(n)'
      PROVE  Open(i) /\ successes[i] = 0 /\ killTimers[n] = 0
  <2>1. successes[i] = 0 /\ SingleSuccess(n)
    BY <1>1, <1>2, <1>3, <1>4, <1>5 DEF SingleSuccess
  <2>2. ~ToldToStop(i)
    BY <2>1 DEF Inv, SucceededStop
  <2>3. Open(i)
    BY <1>1, <2>2 DEF Open, ToldToStop, Inv, Fronted, TypeOK, ProverTypeOK, Stage
  <2>4. ASSUME killTimers[n] = 1 PROVE FALSE
    <3>1. PICK j \in Provers : nameOf[j] = n /\ Open(j) /\ successes[j] = 1
      BY <1>1, <2>1, <2>4 DEF Inv, OneTimer
    <3>2. life[j] = "alive"
      BY <3>1 DEF Open, Inv, Fronted, Alive
    <3>. QED  BY <1>1, <2>1, <3>1, <3>2 DEF Inv, OneAlive, Alive
  <2>. QED  BY <1>1, <2>1, <2>3, <2>4 DEF Inv, OneTimer, TypeOK, FactoryTypeOK
<1>6. Unborn' /\ OneAlive'
  BY <1>1 DEF Inv, Unborn, OneAlive
<1>7. Fronted'
  BY <1>1 DEF Inv, Fronted
<1>8. MapOwn'
  BY <1>1 DEF Inv, MapOwn, Registered, Open
<1>9. OneTimer'
  <2>. SUFFICES ASSUME NEW m \in Names, SingleSuccess(m)'
                PROVE  /\ killTimers'[m] <= 1
                       /\ killTimers'[m] = 1 =>
                            \E k \in Provers : nameOf[k] = m /\ Open(k) /\ successes'[k] = 1
    BY <1>1 DEF OneTimer, Open
  <2>1. CASE m = n /\ o = "succeeded"
    BY <1>1, <1>2, <1>5, <2>1
  <2>2. CASE m # n
    <3>1. \A k \in Provers : nameOf[k] = m => successes'[k] = successes[k]
      BY <1>1, <2>2
    <3>. QED  BY <1>2, <1>4, <2>2, <3>1 DEF Inv, OneTimer
  <2>3. CASE o = "failed"
    BY <1>2, <1>4, <2>3 DEF Inv, OneTimer
  <2>. QED  BY <2>1, <2>2, <2>3
<1>10. SucceededStop'
  <2>. SUFFICES ASSUME NEW k \in Provers, ToldToStop(k), SingleSuccess(nameOf[k])'
                PROVE  successes'[k] = 1
    BY <1>1 DEF SucceededStop, ToldToStop
  <2>3. SingleSuccess(nameOf[k])
    BY <1>1, <1>3 DEF SingleSuccess, Inv, TypeOK, ProverTypeOK
  <2>1. successes[k] = 1
    BY <2>3 DEF Inv, SucceededStop
  <2>2. k # i \/ o = "failed"
    BY <1>5, <2>1
  <2>. QED  BY <1>1, <1>2, <2>1, <2>2
<1>11. JmxOnce' /\ NeverRecovers'
  BY <1>1 DEF Inv, JmxOnce, NeverRecovers, Registered
<1>12. MapIsLive'
  BY <1>1 DEF Inv, MapIsLive, Registered, Open
<1>. QED
  BY <1>6, <1>7, <1>8, <1>9, <1>10, <1>11, <1>12 DEF Inv

-----------------------------------------------------------------------------
\* Every step of the factory, the provers and the callers keeps the invariant.
LEMMA StepInv == Inv /\ [Next]_vars => Inv'
<1>. SUFFICES ASSUME Inv, [Next]_vars PROVE Inv'
  OBVIOUS
<1>1. CASE UNCHANGED vars
  <2>. UNCHANGED <<actorMap, jmxAgent, killTimers, crashes, created, nameOf, work, jobs,
                   successes, retries, life, front, notifiers, mail, listeners, phase,
                   request, ref, requests>>
    BY <1>1 DEF vars, factoryVars, proverVars, workVars, requesterVars
  <2>1. TypeOK'
    BY DEF Inv, TypeOK, FactoryTypeOK, ProverTypeOK, RequesterTypeOK
  <2>. QED  BY <2>1, TalkInv DEF factoryVars
<1>2. CASE Next
  <2>1. TypeOK'
    BY <1>2, StepTyped
  <2>2. ASSUME NEW r \in Requesters, HandleGetActor(r) PROVE Inv'
    <3>1. request[r][1] \in Names
      BY <2>2, RequestTyped DEF HandleGetActor, Inv
    <3>2. \A q \in Requesters :
            ref'[q] = ref[q] \/ (q = r /\ ref'[q] = actorMap[request[r][1]])
      BY <2>2 DEF HandleGetActor, Answer, Inv, TypeOK, RequesterTypeOK
    <3>3. Registered(request[r][1])
      BY <2>2 DEF HandleGetActor
    <3>. QED
      BY <2>1, <2>2, <3>1, <3>2, <3>3, TalkInv DEF HandleGetActor, proverVars, workVars
  <2>3. ASSUME NEW r \in Requesters, CreateProver(r) PROVE Inv'
    BY <2>1, <2>3, CreateInv
  <2>4. ASSUME NEW r \in Requesters, CreateProverThrows(r) \/ CreateAgentThrows(r)
        PROVE  Inv'
    BY <2>1, <2>4, ThrowInv
  <2>5. ASSUME NEW n \in Names, HandleKillActor(n) PROVE Inv'
    BY <2>1, <2>5, KillInv
  <2>6. ASSUME NEW i \in Provers, HistoryPostStop(i) \/ HistoryStops(i) \/ ProverStops(i)
        PROVE  Inv'
    BY <2>1, <2>6, StopInv
  <2>7. ASSUME NEW i \in Provers, Retry(i) \/ NotifierStops(i) PROVE Inv'
    <3>1. \A j \in Provers : \/ jobs'[j] = jobs[j] /\ work'[j] = work[j]
                             \/ work[j] # "unstarted"
      BY <2>7 DEF Retry, NotifierStops, workVars, Inv, TypeOK, ProverTypeOK
    <3>. QED
      BY <2>1, <2>7, <3>1, TalkInv DEF Retry, NotifierStops, workVars, requesterVars
  <2>8. ASSUME NEW i \in Provers, NEW r \in Requesters, Handle(i, r) PROVE Inv'
    <3>1. \A j \in Provers :
            /\ (jobs'[j] = jobs[j] /\ work'[j] = work[j]) \/ mail[j] # {}
            /\ mail'[j] \subseteq mail[j]
      BY <2>8 DEF Handle, Inv, TypeOK, ProverTypeOK
    <3>. QED  BY <2>1, <2>8, <3>1, TalkInv DEF Handle
  <2>9. ASSUME NEW i \in Provers, NEW o \in {"succeeded", "failed"}, Publish(i, o)
        PROVE  Inv'
    BY <2>1, <2>9, PublishInv
  <2>10. ASSUME NEW r \in Requesters, Ask(r) PROVE Inv'
    <3>1. \A j \in Provers : mail'[j] \subseteq mail[j] \/ ref[r] = j
      BY <2>10 DEF Ask, Inv, TypeOK, ProverTypeOK
    <3>. QED  BY <2>1, <2>10, <3>1, TalkInv DEF Ask, workVars
  <2>11. ASSUME NEW r \in Requesters, NEW n \in Names, NEW k \in Kinds,
                AcquireProver(r, n, k)
         PROVE  Inv'
    <3>1. \A q \in Requesters : ref'[q] = ref[q] \/ ref'[q] = NoActor
      BY <2>11 DEF AcquireProver, Inv, TypeOK, RequesterTypeOK
    <3>. QED  BY <2>1, <2>11, <3>1, TalkInv DEF AcquireProver, proverVars, workVars
  <2>. QED
    BY <1>2, <2>2, <2>3, <2>4, <2>5, <2>6, <2>7, <2>8, <2>9, <2>10, <2>11
       DEF Next, FactoryStep, ProverStep, RequesterStep
<1>. QED  BY <1>1, <1>2

\* The invariant holds in every reachable state.
LEMMA Invariance == Spec => []Inv
  BY InitInv, StepInv, PTL DEF Spec
-----------------------------------------------------------------------------
\* Every field of the factory, the provers and the callers keeps its type.
THEOREM FactoryTypeCorrect == Spec => []TypeOK
<1>1. Inv => TypeOK
  BY DEF Inv
<1>. QED  BY <1>1, Invariance, PTL

\* Until the factory throws its map is exactly the provers that take messages,
\* and it never hands out one that was told to stop.
THEOREM FactoryMapIsLive == Spec => []MapIsLive
<1>1. Inv => MapIsLive
  BY DEF Inv
<1>. QED  BY <1>1, Invariance, PTL

\* KillActor, however late it comes and whatever was created or lost meanwhile,
\* stops no prover that has not succeeded, as long as no prover of its name has
\* published a second success.
THEOREM KillsOnlySucceeded == Spec => []OnlySucceededStop
<1>1. ASSUME Inv, NEW i \in Provers, ToldToStop(i)
      PROVE  successes[i] > 0 \/ \E j \in Provers : nameOf[j] = nameOf[i] /\ successes[j] > 1
  <2>1. CASE SingleSuccess(nameOf[i])
    BY <1>1, <2>1 DEF Inv, SucceededStop
  <2>2. CASE ~SingleSuccess(nameOf[i])
    BY <1>1, <2>2 DEF SingleSuccess, Inv, TypeOK, ProverTypeOK
  <2>. QED  BY <2>1, <2>2
<1>2. Inv => OnlySucceededStop
  BY <1>1 DEF OnlySucceededStop
<1>. QED  BY <1>2, Invariance, PTL

\* After one exception a factory with a history keeps no prover any more.
THEOREM FactoryNeverRecovers == Spec => []NeverRecovers
<1>1. Inv => NeverRecovers
  BY DEF Inv
<1>. QED  BY <1>1, Invariance, PTL
=============================================================================

------------------------- MODULE HistoryAgentProofs -------------------------
(* For any goals, dependencies and bounds, whatever crashes, is retried or   *)
(* asked again: the rows of the table form a forest along the dependencies,  *)
(* only the newest run of a goal is ever written to, and how a goal ended is *)
(* in one of its rows once its agent has heard of it.                        *)
EXTENDS HistoryAgent, TLAPS

Asking == Goals \cup {Client}
MaybeRun == RunIds \cup {NoRun}
RowSet == [goal : Goals, parent : MaybeRun,
           state : State \ {"Unstarted"}, ended : BOOLEAN]

\* The prover has been asked.
Decided(g) == state[g] # "Unstarted"

\* What may be in the mailbox of the agent of g: a Satisfy with a parent is on
\* behalf of a run of a goal that depends on g.
AgentMail(g) ==
  {m \in [type : {"Satisfy"}, from : Asking, run : {NoRun}, parent : MaybeRun] :
     m.parent # NoRun => g \in Dependencies[rows[m.parent].goal]}
  \cup [type : {"RestartJob", "RestartJob()"}]
  \cup {m \in [type : {"GoalSuccess", "GoalFailure"}, from : {g}] : Decided(g)}

\* What may be in the mailbox of the prover of g: a Satisfy carries a run of g.
ProverMail(g) ==
  {m \in [type : {"Satisfy"}, from : Asking, run : RunIds, parent : MaybeRun] :
     rows[m.run].goal = g}
  \cup [type : {"RestartJob", "RestartJob()"}]
  \cup [type : {"GoalSuccess", "GoalFailure"}, from : Goals]

Mailboxes ==
  /\ DOMAIN agentBox = Goals /\ DOMAIN proverBox = Goals
  /\ \A g \in Goals : agentBox[g] \in Seq(AgentMail(g)) /\ proverBox[g] \in Seq(ProverMail(g))

Inv == TypeOK /\ Mailboxes /\ RunTree

USE HistoryConstants
-----------------------------------------------------------------------------
LEMMA InitInv == Init => Inv
  BY DEF Init, Inv, TypeOK, Mailboxes, RunTree, RunIds, State, RowSet

\* What the table and a prover's state do in a step, as far as mail is concerned.
Onward ==
  /\ Len(rows) \in Nat /\ Len(rows)' \in Nat /\ Len(rows) <= Len(rows)'
  /\ \A i \in RunIds : rows'[i].goal = rows[i].goal
  /\ \A g \in Goals : Decided(g) => Decided(g)'

\* Mail that may be there may still be there later.
LEMMA MailStays ==
  ASSUME Onward, NEW g \in Goals
  PROVE  AgentMail(g) \subseteq AgentMail(g)' /\ ProverMail(g) \subseteq ProverMail(g)'
<1>1. RunIds \subseteq RunIds' /\ MaybeRun \subseteq MaybeRun'
  BY DEF Onward, RunIds, MaybeRun
<1>2. ASSUME NEW m \in AgentMail(g) PROVE m \in AgentMail(g)'
  <2>1. CASE m \in [type : {"Satisfy"}, from : Asking, run : {NoRun}, parent : MaybeRun]
    <3>1. m \in [type : {"Satisfy"}, from : Asking, run : {NoRun}, parent : MaybeRun']
      BY <2>1, <1>1
    <3>2. m.parent # NoRun => g \in Dependencies[rows[m.parent].goal]
      BY <1>2, <2>1 DEF AgentMail
    <3>3. m.parent # NoRun => g \in Dependencies[rows'[m.parent].goal]
      BY <2>1, <3>2 DEF Onward, MaybeRun
    <3>. QED  BY <3>1, <3>3 DEF AgentMail, Asking
  <2>2. CASE m \in [type : {"RestartJob", "RestartJob()"}]
    BY <2>2 DEF AgentMail
  <2>3. CASE m \in [type : {"GoalSuccess", "GoalFailure"}, from : {g}] /\ Decided(g)
    BY <2>3 DEF AgentMail, Onward
  <2>. QED  BY <1>2, <2>1, <2>2, <2>3 DEF AgentMail
<1>3. ASSUME NEW m \in ProverMail(g) PROVE m \in ProverMail(g)'
  <2>1. CASE m \in [type : {"Satisfy"}, from : Asking, run : RunIds, parent : MaybeRun]
    <3>1. m \in [type : {"Satisfy"}, from : Asking, run : RunIds', parent : MaybeRun']
      BY <2>1, <1>1
    <3>2. rows[m.run].goal = g
      BY <1>3, <2>1 DEF ProverMail
    <3>. QED  BY <2>1, <3>1, <3>2 DEF ProverMail, Onward, Asking
  <2>2. CASE m \notin [type : {"Satisfy"}, from : Asking, run : RunIds, parent : MaybeRun]
    BY <1>3, <2>2 DEF ProverMail
  <2>. QED  BY <2>1, <2>2
<1>. QED  BY <1>2, <1>3
-----------------------------------------------------------------------------
\* A mailbox of mail that may stay takes a message more, or one less.
LEMMA BoxStays ==
  ASSUME NEW S, NEW T, S \subseteq T, NEW box \in Seq(S)
  PROVE  /\ box \in Seq(T)
         /\ \A m \in T : Append(box, m) \in Seq(T)
         /\ box # <<>> => Head(box) \in S /\ Tail(box) \in Seq(T)
<1>1. box \in Seq(T)
  OBVIOUS
<1>. QED  BY <1>1

LEMMA FunctionIsSeq ==
  ASSUME NEW S, NEW n \in Nat, NEW f \in [1..n -> S]
  PROVE  f \in Seq(S) /\ Len(f) = n
  OBVIOUS

\* What a Satisfy at the head of a mailbox says.
LEMMA AgentHead ==
  ASSUME Mailboxes, NEW g \in Goals, Receive(agentBox, g)
  PROVE  /\ Head(agentBox[g]) \in AgentMail(g)
         /\ Head(agentBox[g]).type = "Satisfy" =>
              /\ Head(agentBox[g]).from \in Asking /\ Head(agentBox[g]).parent \in MaybeRun
              /\ Head(agentBox[g]).parent # NoRun =>
                   g \in Dependencies[rows[Head(agentBox[g]).parent].goal]
         /\ Head(agentBox[g]) \in Outcomes(g) => Decided(g)
<1>1. Head(agentBox[g]) \in AgentMail(g)
  BY DEF Mailboxes, Receive
<1>. HIDE DEF AgentMail
<1>2. \A m \in AgentMail(g) : m.type = "Satisfy" =>
        m.from \in Asking /\ m.parent \in MaybeRun
          /\ (m.parent # NoRun => g \in Dependencies[rows[m.parent].goal])
  BY DEF AgentMail
<1>3. \A m \in AgentMail(g) : m \in Outcomes(g) => Decided(g)
  BY DEF AgentMail, Outcomes, GoalSuccess, GoalFailure
<1>. QED  BY <1>1, <1>2, <1>3

LEMMA ProverHead ==
  ASSUME Mailboxes, NEW g \in Goals, Receive(proverBox, g)
  PROVE  LET m == Head(proverBox[g]) IN
         /\ m.type = "Satisfy" => /\ m.from \in Asking
                                  /\ m.run \in RunIds /\ rows[m.run].goal = g
         /\ m.type \in {"GoalSuccess", "GoalFailure"} => m.from \in Goals
<1>1. Head(proverBox[g]) \in ProverMail(g)
  BY DEF Mailboxes, Receive
<1>2. \A m \in ProverMail(g) :
         /\ m.type = "Satisfy" => m.from \in Asking /\ m.run \in RunIds /\ rows[m.run].goal = g
         /\ m.type \in {"GoalSuccess", "GoalFailure"} => m.from \in Goals
  BY DEF ProverMail
<1>. QED  BY <1>1, <1>2
-----------------------------------------------------------------------------
\* A step that leaves the table alone and undecides nobody keeps the forest, and
\* mail that was there.
LEMMA SameTable ==
  ASSUME Inv, UNCHANGED rows, \A g \in Goals : Decided(g) => Decided(g)'
  PROVE  /\ Onward /\ RunTree' /\ RunIds' = RunIds
         /\ \A g \in Goals : /\ AgentMail(g) \subseteq AgentMail(g)'
                             /\ ProverMail(g) \subseteq ProverMail(g)'
<1>1. Onward
  BY DEF Inv, TypeOK, Onward
<1>. QED  BY <1>1, MailStays DEF Inv, RunTree, RunIds

\* Messages a prover or the world sends may be there after the step.
LEMMA Sendable ==
  ASSUME NEW g \in Goals
  PROVE  /\ RestartJob \in AgentMail(g)' /\ RestartJob \in ProverMail(g)'
         /\ RestartJobInstance \in AgentMail(g)' /\ RestartJobInstance \in ProverMail(g)'
         /\ Satisfy(Client, NoRun, NoRun) \in AgentMail(g)'
         /\ \A h \in Goals, o \in State : OutcomeOf(h, o) \in ProverMail(g)'
         /\ \A o \in State : Decided(g)' => OutcomeOf(g, o) \in AgentMail(g)'
  BY DEF RestartJob, RestartJobInstance, Satisfy, OutcomeOf, GoalSuccess, GoalFailure,
         AgentMail, ProverMail, Asking, MaybeRun

\* A step of the prover of g, which is decided afterwards, that publishes.
LEMMA PublishInv ==
  ASSUME Inv, UNCHANGED rows, NEW g \in Goals, NEW o \in Terminal, NEW boxes,
         DOMAIN boxes = Goals,
         \A h \in Goals : boxes[h] \in Seq(ProverMail(h)),
         Publish(g, o, boxes)
  PROVE  RunTree' /\ Mailboxes' /\ state' \in [Goals -> State] /\ RunIds' = RunIds
<1>1. state' = [state EXCEPT ![g] = o] /\ state' \in [Goals -> State]
  BY DEF Publish, Inv, TypeOK, State
<1>2. \A h \in Goals : Decided(h) => Decided(h)'
  BY <1>1 DEF Decided, Inv, TypeOK, Terminal, Satisfied
<1>3. Decided(g)'
  BY <1>1 DEF Decided, Inv, TypeOK, Terminal, Satisfied
<1>4. \A h \in Goals : proverBox'[h] \in Seq(ProverMail(h)')
  <2>. TAKE h \in Goals
  <2>1. OutcomeOf(g, o) \in ProverMail(h)'
    BY Sendable DEF State
  <2>. QED  BY <1>2, <2>1, SameTable, BoxStays DEF Publish
<1>5. \A h \in Goals : agentBox'[h] \in Seq(AgentMail(h)')
  <2>. TAKE h \in Goals
  <2>1. OutcomeOf(g, o) \in AgentMail(g)'
    BY <1>3, Sendable DEF State
  <2>2. /\ agentBox[h] \in Seq(AgentMail(h)') /\ agentBox[g] \in Seq(AgentMail(g))
        /\ DOMAIN agentBox = Goals
    BY <1>2, SameTable, BoxStays DEF Inv, Mailboxes
  <2>3. Append(agentBox[g], OutcomeOf(g, o)) \in Seq(AgentMail(g)')
    BY <1>2, <2>1, <2>2, SameTable, BoxStays
  <2>4. agentBox' = [agentBox EXCEPT ![g] = Append(agentBox[g], OutcomeOf(g, o))]
    BY DEF Publish
  <2>. QED  BY <2>2, <2>3, <2>4
<1>6. DOMAIN agentBox' = Goals /\ DOMAIN proverBox' = Goals
  BY DEF Publish, Inv, Mailboxes
<1>. QED  BY <1>1, <1>2, <1>4, <1>5, <1>6, SameTable DEF Mailboxes

\* The mailboxes when one message of g's prover is taken.
LEMMA WithoutProver ==
  ASSUME Mailboxes, NEW g \in Goals, Receive(proverBox, g)
  PROVE  /\ DOMAIN Without(proverBox, g) = Goals
         /\ \A h \in Goals : Without(proverBox, g)[h] \in Seq(ProverMail(h))
<1>1. proverBox[g] \in Seq(ProverMail(g)) /\ Tail(proverBox[g]) \in Seq(ProverMail(g))
  BY DEF Mailboxes, Receive
<1>. QED  BY <1>1 DEF Mailboxes, Without

LEMMA WithoutAgent ==
  ASSUME Mailboxes, NEW g \in Goals, Receive(agentBox, g)
  PROVE  /\ DOMAIN Without(agentBox, g) = Goals
         /\ \A h \in Goals : Without(agentBox, g)[h] \in Seq(AgentMail(h))
<1>1. agentBox[g] \in Seq(AgentMail(g)) /\ Tail(agentBox[g]) \in Seq(AgentMail(g))
  BY DEF Mailboxes, Receive
<1>. QED  BY <1>1 DEF Mailboxes, Without
-----------------------------------------------------------------------------
\* Opening a row for g keeps the forest, if its parent is a run of a goal that
\* depends on g, and the message forwarded is one the prover of g may get.
LEMMA OpensRowInv ==
  ASSUME Inv, NEW g \in Goals, Receive(agentBox, g), NEW parent \in MaybeRun,
         parent # NoRun => g \in Dependencies[rows[parent].goal],
         NEW m, m \in ProverMail(g)', OpensRow(g, parent, m)
  PROVE  Inv'
<1>. DEFINE n == Len(rows) + 1
<1>1. /\ rows \in Seq(RowSet) /\ Len(rows) \in Nat /\ RunIds = 1..Len(rows)
  BY DEF Inv, TypeOK, RowSet, MaybeRun, RunIds
<1>2. /\ rows' = Append(rows, Row(g, parent)) /\ Len(rows') = n
      /\ \A i \in RunIds : rows'[i] = rows[i]
      /\ rows'[n] = Row(g, parent)
  BY <1>1 DEF OpensRow, StartRun
<1>3. Onward
  BY <1>1, <1>2 DEF Onward, OpensRow, Decided
<1>4. RunIds' = 1..n /\ RunIds \subseteq RunIds' /\ n \in RunIds' /\ MaybeRun \subseteq MaybeRun'
  BY <1>1, <1>2 DEF RunIds, MaybeRun
<1>5. rows' \in Seq(RowSet')
  <2>1. RowSet \subseteq RowSet'
    BY <1>4 DEF RowSet
  <2>2. Row(g, parent) \in RowSet'
    BY <1>4 DEF Row, RowSet, State
  <2>3. rows \in Seq(RowSet')
    BY <1>1, <2>1, BoxStays
  <2>. QED  BY <1>2, <2>2, <2>3
<1>6. TypeOK'
  <2>1. runID' \in [Goals -> MaybeRun'] /\ proverRun' \in [Goals -> MaybeRun']
    BY <1>1, <1>4 DEF Inv, TypeOK, OpensRow, NewId, MaybeRun
  <2>. QED  BY <1>5, <2>1 DEF Inv, TypeOK, OpensRow, RowSet, MaybeRun, workVars
<1>7. RunTree'
  <2>. SUFFICES ASSUME NEW i \in 1..n, rows'[i].parent # NoRun
       PROVE  rows'[i].parent < i /\ rows'[i].goal \in Dependencies[rows'[rows'[i].parent].goal]
    BY <1>4 DEF RunTree
  <2>1. CASE i \in RunIds
    <3>1. rows'[i] = rows[i] /\ rows[i] \in RowSet
      BY <1>1, <1>2, <2>1
    <3>2. rows[i].parent \in RunIds
      BY <3>1 DEF RowSet, MaybeRun
    <3>. QED  BY <1>2, <2>1, <3>1, <3>2 DEF Inv, RunTree
  <2>2. CASE i = n
    <3>1. rows'[i].parent = parent /\ rows'[i].goal = g /\ parent \in RunIds
      BY <1>2, <2>2 DEF Row, MaybeRun
    <3>. QED  BY <1>1, <1>2, <2>2, <3>1
  <2>. QED  BY <1>1, <2>1, <2>2
<1>8. Mailboxes'
  <2>1. \A h \in Goals : /\ AgentMail(h) \subseteq AgentMail(h)'
                        /\ ProverMail(h) \subseteq ProverMail(h)'
    BY <1>3, MailStays
  <2>2. \A h \in Goals : agentBox'[h] \in Seq(AgentMail(h)')
    <3>1. \A h \in Goals : Without(agentBox, g)[h] \in Seq(AgentMail(h))
      BY WithoutAgent DEF Inv
    <3>. QED  BY <2>1, <3>1, BoxStays DEF OpensRow
  <2>3. \A h \in Goals : proverBox'[h] \in Seq(ProverMail(h)')
    <3>. TAKE h \in Goals
    <3>1. /\ proverBox[h] \in Seq(ProverMail(h)') /\ proverBox[g] \in Seq(ProverMail(g))
          /\ DOMAIN proverBox = Goals
      BY <2>1, BoxStays DEF Inv, Mailboxes
    <3>2. Append(proverBox[g], m) \in Seq(ProverMail(g)')
      BY <2>1, <3>1, BoxStays
    <3>3. proverBox' = [proverBox EXCEPT ![g] = Append(proverBox[g], m)]
      BY DEF OpensRow
    <3>. QED  BY <3>1, <3>2, <3>3
  <2>4. DOMAIN agentBox' = Goals /\ DOMAIN proverBox' = Goals
    BY WithoutAgent DEF OpensRow, Inv, Mailboxes
  <2>. QED  BY <2>2, <2>3, <2>4 DEF Mailboxes
<1>. QED  BY <1>6, <1>7, <1>8 DEF Inv
-----------------------------------------------------------------------------
\* Steps of the HistoryAgent.
LEMMA AgentStepInv ==
  ASSUME Inv, NEW g \in Goals, AgentStep(g)
  PROVE  Inv'
<1>1. CASE AgentSatisfy(g)
  <2>. DEFINE h == Head(agentBox[g])
              m == Satisfy(h.from, NewId(rows), h.parent)
  <2>1. /\ Receive(agentBox, g) /\ h.type = "Satisfy" /\ OpensRow(g, h.parent, m)
    BY <1>1 DEF AgentSatisfy, PassesSatisfy
  <2>2. /\ h.from \in Asking /\ h.parent \in MaybeRun
        /\ h.parent # NoRun => g \in Dependencies[rows[h.parent].goal]
    BY <2>1, AgentHead DEF Inv
  <2>3. NewId(rows) \in RunIds' /\ MaybeRun \subseteq MaybeRun' /\ rows'[NewId(rows)].goal = g
    BY <2>1 DEF OpensRow, StartRun, NewId, Row, RunIds, MaybeRun, Inv, TypeOK
  <2>4. m \in ProverMail(g)'
    BY <2>2, <2>3 DEF Satisfy, ProverMail, Asking
  <2>. QED  BY <2>1, <2>2, <2>4, OpensRowInv
<1>2. CASE AgentRestartJob(g)
  <2>1. RestartJobInstance \in ProverMail(g)' /\ NoRun \in MaybeRun
    BY Sendable DEF MaybeRun
  <2>. QED  BY <1>2, <2>1, OpensRowInv DEF AgentRestartJob
<1>3. CASE AgentForward(g)
  <2>1. RestartJob \in ProverMail(g)'
    BY Sendable
  <2>2. /\ Receive(agentBox, g) /\ agentBox' = Without(agentBox, g)
        /\ proverBox' = [proverBox EXCEPT ![g] = Append(@, RestartJob)]
        /\ UNCHANGED <<rows, runID, state, proverRun, listeners, heard, succeeded, workVars>>
    BY <1>3 DEF AgentForward
  <2>3. \A h \in Goals : Decided(h) => Decided(h)'
    BY <2>2 DEF Decided
  <2>4. TypeOK'
    BY <2>2 DEF Inv, TypeOK, RunIds, workVars
  <2>5. \A h \in Goals : agentBox'[h] \in Seq(AgentMail(h)')
    BY <2>2, <2>3, WithoutAgent, SameTable, BoxStays DEF Inv
  <2>6. \A h \in Goals : proverBox'[h] \in Seq(ProverMail(h)')
    <3>. TAKE h \in Goals
    <3>1. /\ proverBox[h] \in Seq(ProverMail(h)') /\ proverBox[g] \in Seq(ProverMail(g))
          /\ DOMAIN proverBox = Goals
      BY <2>2, <2>3, SameTable, BoxStays DEF Inv, Mailboxes
    <3>2. Append(proverBox[g], RestartJob) \in Seq(ProverMail(g)')
      BY <2>1, <2>2, <2>3, <3>1, SameTable, BoxStays
    <3>. QED  BY <2>2, <3>1, <3>2
  <2>7. DOMAIN agentBox' = Goals /\ DOMAIN proverBox' = Goals
    BY <2>2, WithoutAgent DEF Inv, Mailboxes
  <2>. QED  BY <2>2, <2>3, <2>4, <2>5, <2>6, <2>7, SameTable DEF Inv, Mailboxes
<1>4. CASE AgentOutcome(g)
  <2>1. /\ Receive(agentBox, g) /\ Head(agentBox[g]) \in Outcomes(g)
        /\ rows' = IF runID[g] = NoRun THEN rows ELSE CompleteRun(rows, runID[g], state[g])
        /\ agentBox' = Without(agentBox, g)
        /\ UNCHANGED <<runID, state, proverRun, listeners, heard, succeeded, workVars, proverBox>>
    BY <1>4 DEF AgentOutcome, Completes, proverVars
  <2>2. Decided(g)
    BY <2>1, AgentHead DEF Inv
  <2>3. rows \in Seq(RowSet) /\ Len(rows) \in Nat /\ RunIds = 1..Len(rows)
    BY DEF Inv, TypeOK, RowSet, MaybeRun, RunIds
  <2>4. /\ rows' \in Seq(RowSet) /\ Len(rows') = Len(rows)
        /\ \A i \in RunIds : rows'[i].goal = rows[i].goal /\ rows'[i].parent = rows[i].parent
    <3>1. CASE runID[g] = NoRun
      BY <2>1, <2>3, <3>1
    <3>2. CASE runID[g] # NoRun
      <4>1. rows' = [i \in 1..Len(rows) |->
              IF i = runID[g] THEN [rows[i] EXCEPT !.state = state[g], !.ended = TRUE] ELSE rows[i]]
        <5>1. DOMAIN rows = 1..Len(rows)
          BY <2>3
        <5>. QED  BY <2>1, <3>2, <5>1 DEF CompleteRun
      <4>2. \A i \in 1..Len(rows) : rows[i] \in RowSet
        BY <2>3
      <4>3. \A i \in 1..Len(rows) : /\ rows'[i] \in RowSet
                                    /\ rows'[i].goal = rows[i].goal
                                    /\ rows'[i].parent = rows[i].parent
        BY <2>2, <4>1, <4>2 DEF RowSet, Decided, Inv, TypeOK
      <4>4. rows' \in Seq(RowSet) /\ Len(rows') = Len(rows)
        <5>1. rows' \in [1..Len(rows) -> RowSet]
          BY <4>1, <4>3
        <5>. QED  BY <2>3, <5>1, FunctionIsSeq
      <4>. QED  BY <2>3, <4>3, <4>4
    <3>. QED  BY <3>1, <3>2
  <2>5. RunIds' = RunIds /\ Onward
    BY <2>1, <2>3, <2>4 DEF RunIds, Onward, Decided
  <2>6. TypeOK'
    BY <2>1, <2>4, <2>5 DEF Inv, TypeOK, RowSet, MaybeRun, workVars
  <2>7. RunTree'
    <3>. SUFFICES ASSUME NEW i \in RunIds, rows'[i].parent # NoRun
         PROVE  rows'[i].parent < i /\ rows'[i].goal \in Dependencies[rows'[rows'[i].parent].goal]
      BY <2>5 DEF RunTree
    <3>1. rows[i] \in RowSet /\ rows[i].parent # NoRun
      BY <2>3, <2>4
    <3>2. rows[i].parent \in RunIds
      BY <3>1 DEF RowSet, MaybeRun
    <3>. QED  BY <2>4, <3>1, <3>2 DEF Inv, RunTree
  <2>8. \A h \in Goals : agentBox'[h] \in Seq(AgentMail(h)')
    BY <2>1, <2>5, WithoutAgent, MailStays, BoxStays DEF Inv
  <2>9. \A h \in Goals : proverBox'[h] \in Seq(ProverMail(h)')
    <3>1. \A h \in Goals : proverBox[h] \in Seq(ProverMail(h))
      BY DEF Inv, Mailboxes
    <3>. QED  BY <2>1, <2>5, <3>1, MailStays, BoxStays
  <2>10. DOMAIN agentBox' = Goals /\ DOMAIN proverBox' = Goals
    BY <2>1, WithoutAgent DEF Inv, Mailboxes
  <2>. QED  BY <2>6, <2>7, <2>8, <2>9, <2>10 DEF Inv, Mailboxes
<1>. QED  BY <1>1, <1>2, <1>3, <1>4 DEF AgentStep
-----------------------------------------------------------------------------
\* A step that takes a message, or none, from the prover of g and sends others:
\* new mailboxes hold mail they may hold.
LEMMA MailSent ==
  ASSUME Inv, UNCHANGED rows, TypeOK', \A g \in Goals : Decided(g) => Decided(g)',
         DOMAIN agentBox' = Goals, DOMAIN proverBox' = Goals,
         \A g \in Goals : \/ agentBox'[g] \in Seq(AgentMail(g))
                         \/ \E m \in AgentMail(g)' : agentBox'[g] = Append(agentBox[g], m),
         \A g \in Goals :
           \E box \in Seq(ProverMail(g)) :
             \/ proverBox'[g] = box
             \/ \E m \in ProverMail(g)' : proverBox'[g] = Append(box, m)
  PROVE  Inv'
<1>1. \A g \in Goals : agentBox'[g] \in Seq(AgentMail(g)')
  <2>. TAKE g \in Goals
  <2>1. AgentMail(g) \subseteq AgentMail(g)'
    BY SameTable
  <2>2. agentBox[g] \in Seq(AgentMail(g))
    BY DEF Inv, Mailboxes
  <2>3. CASE agentBox'[g] \in Seq(AgentMail(g))
    BY <2>1, <2>3, BoxStays
  <2>4. CASE \E m \in AgentMail(g)' : agentBox'[g] = Append(agentBox[g], m)
    BY <2>1, <2>2, <2>4, BoxStays
  <2>. QED  BY <2>3, <2>4
<1>2. \A g \in Goals : proverBox'[g] \in Seq(ProverMail(g)')
  <2>. TAKE g \in Goals
  <2>1. ProverMail(g) \subseteq ProverMail(g)'
    BY SameTable
  <2>. QED  BY <2>1, BoxStays
<1>. QED  BY <1>1, <1>2, SameTable DEF Inv, Mailboxes

\* What the prover waits for, counted.
Counts ==
  /\ jobs \in [Goals -> Nat] /\ checks \in [Goals -> Nat] /\ checkers \in [Goals -> Nat]
  /\ \A h \in Goals : checks[h] <= checkers[h]

LEMMA CountsStay ==
  ASSUME Inv, NEW g \in Goals, UNCHANGED workVars \/ RunsJob(g) \/ ChecksEvidence(g)
  PROVE  Counts'
<1>1. Counts
  BY DEF Inv, TypeOK, Counts
<1>2. CASE UNCHANGED workVars
  BY <1>1, <1>2 DEF Counts, workVars
<1>3. CASE RunsJob(g)
  BY <1>1, <1>3 DEF Counts, RunsJob
<1>4. CASE ChecksEvidence(g)
  BY <1>1, <1>4 DEF Counts, ChecksEvidence
<1>. QED  BY <1>2, <1>3, <1>4

\* Steps of the prover that tell nobody.
LEMMA ProverMoves ==
  ASSUME Inv, NEW g \in Goals,
         UNCHANGED <<rows, runID, agentBox, proverRun>>,
         \/ Receive(proverBox, g) /\ proverBox' = Without(proverBox, g)
         \/ proverBox' = proverBox,
         \/ state' = state
         \/ \E st \in {"Running", "CheckingEvidence", "WaitingOnDependencies"} :
              state' = [state EXCEPT ![g] = st],
         listeners' \in [Goals -> SUBSET Asking],
         heard' \in [Goals -> SUBSET Goals], succeeded' \in [Goals -> SUBSET Goals],
         Counts'
  PROVE  Inv'
<1>1. \A h \in Goals : Decided(h) => Decided(h)'
  BY DEF Decided, Inv, TypeOK
<1>2. state' \in [Goals -> State]
  BY DEF Inv, TypeOK, State
<1>3. TypeOK'
  BY <1>2 DEF Inv, TypeOK, RunIds, Asking, Counts
<1>4. DOMAIN proverBox' = Goals /\ \A h \in Goals : proverBox'[h] \in Seq(ProverMail(h))
  BY WithoutProver DEF Inv, Mailboxes
<1>5. DOMAIN agentBox' = Goals /\ \A h \in Goals : agentBox'[h] \in Seq(AgentMail(h))
  BY DEF Inv, Mailboxes
<1>. QED  BY <1>1, <1>3, <1>4, <1>5, MailSent

\* Steps that tell its agent and its listeners.
LEMMA ProverTells ==
  ASSUME Inv, NEW g \in Goals, NEW o \in Terminal, NEW boxes,
         \/ Receive(proverBox, g) /\ boxes = Without(proverBox, g)
         \/ boxes = proverBox,
         Publish(g, o, boxes),
         UNCHANGED <<rows, runID>>, proverRun' \in [Goals -> MaybeRun],
         listeners' \in [Goals -> SUBSET Asking], heard' \in [Goals -> SUBSET Goals],
         UNCHANGED succeeded, Counts'
  PROVE  Inv'
<1>1. DOMAIN boxes = Goals /\ \A h \in Goals : boxes[h] \in Seq(ProverMail(h))
  BY WithoutProver DEF Inv, Mailboxes
<1>2. RunTree' /\ Mailboxes' /\ state' \in [Goals -> State] /\ RunIds' = RunIds
  BY <1>1, PublishInv
<1>3. TypeOK'
  BY <1>2 DEF Inv, TypeOK, Asking, MaybeRun, Counts
<1>. QED  BY <1>2, <1>3 DEF Inv

\* The first Satisfy carries a run of the goal, and those asked are asked on its
\* behalf.
LEMMA TakesUpInv ==
  ASSUME Inv, NEW g \in Goals, ProverFirstSatisfy(g) \/ ProverFirstSatisfyThrows(g)
  PROVE  Inv'
<1>. DEFINE m == Head(proverBox[g])
            rest == Without(proverBox, g)
<1>1. /\ Receive(proverBox, g) /\ m.type = "Satisfy" /\ state[g] = "Unstarted"
      /\ UNCHANGED <<rows, runID, heard, succeeded>>
      /\ proverRun' = [proverRun EXCEPT ![g] = m.run]
      /\ listeners' = [listeners EXCEPT ![g] = @ \cup {m.from}]
  BY DEF ProverFirstSatisfy, ProverFirstSatisfyThrows, TakesUp
<1>2. m.from \in Asking /\ m.run \in RunIds /\ rows[m.run].goal = g
  BY <1>1, ProverHead DEF Inv
<1>3. /\ proverRun' \in [Goals -> MaybeRun] /\ listeners' \in [Goals -> SUBSET Asking]
      /\ heard' \in [Goals -> SUBSET Goals]
  BY <1>1, <1>2 DEF Inv, TypeOK, MaybeRun, Asking
<1>4. CASE ProverFirstSatisfy(g)
  <2>1. /\ proverBox' = rest
        /\ \/ UNCHANGED workVars /\ state' = [state EXCEPT ![g] = "WaitingOnDependencies"]
           \/ RunsJob(g) \/ ChecksEvidence(g)
    BY <1>4 DEF ProverFirstSatisfy
  <2>2. \A h \in Goals : Decided(h) => Decided(h)'
    BY <2>1 DEF Decided, Inv, TypeOK, RunsJob, ChecksEvidence
  <2>3. TypeOK'
    <3>1. state' \in [Goals -> State]
      BY <2>1 DEF Inv, TypeOK, State, RunsJob, ChecksEvidence
    <3>2. Counts'
      BY <2>1, CountsStay
    <3>. QED  BY <1>1, <1>3, <3>1, <3>2 DEF Inv, TypeOK, RunIds, Asking, MaybeRun, Counts
  <2>4. /\ DOMAIN agentBox' = Goals
        /\ \A d \in Goals : agentBox'[d] =
             IF d \in Dependencies[g] THEN Append(agentBox[d], Satisfy(g, NoRun, m.run))
             ELSE agentBox[d]
    BY <1>4 DEF ProverFirstSatisfy
  <2>5. \A d \in Dependencies[g] : Satisfy(g, NoRun, m.run) \in AgentMail(d)'
    BY <1>1, <1>2 DEF Satisfy, AgentMail, Asking, MaybeRun, RunIds
  <2>6. DOMAIN rest = Goals /\ \A h \in Goals : rest[h] \in Seq(ProverMail(h))
    BY <1>1, WithoutProver DEF Inv
  <2>7. \A h \in Goals : agentBox[h] \in Seq(AgentMail(h))
    BY DEF Inv, Mailboxes
  <2>. QED  BY <1>1, <2>1, <2>2, <2>3, <2>4, <2>5, <2>6, <2>7, MailSent
<1>5. CASE ProverFirstSatisfyThrows(g)
  <2>1. Publish(g, "Failed", rest) /\ UNCHANGED workVars
    BY <1>5 DEF ProverFirstSatisfyThrows
  <2>2. Counts'
    BY <2>1, CountsStay
  <2>. HIDE DEF m, rest
  <2>. QED  BY <1>1, <1>3, <2>1, <2>2, ProverTells DEF Terminal, rest
<1>. QED  BY <1>4, <1>5

LEMMA LaterInv ==
  ASSUME Inv, NEW g \in Goals, ProverLaterSatisfy(g)
  PROVE  Inv'
<1>. DEFINE m == Head(proverBox[g])
            rest == Without(proverBox, g)
<1>1. /\ Receive(proverBox, g) /\ m.type = "Satisfy"
      /\ proverBox' = IF state[g] \in Terminal /\ m.from \in Goals
                      THEN [rest EXCEPT ![m.from] = Append(@, OutcomeOf(g, state[g]))]
                      ELSE rest
      /\ listeners' = [listeners EXCEPT ![g] = @ \cup {m.from}]
      /\ UNCHANGED <<rows, agentBox, runID, state, proverRun, heard, succeeded, workVars>>
  BY DEF ProverLaterSatisfy, agentVars
<1>2. m.from \in Asking
  BY <1>1, ProverHead DEF Inv
<1>3. \A h \in Goals : Decided(h) => Decided(h)'
  BY <1>1 DEF Decided
<1>4. TypeOK'
  BY <1>1, <1>2 DEF Inv, TypeOK, RunIds, Asking, workVars
<1>5. \A h \in Goals : OutcomeOf(g, state[g]) \in ProverMail(h)'
  BY Sendable DEF Inv, TypeOK
<1>6. /\ DOMAIN rest = Goals /\ \A h \in Goals : rest[h] \in Seq(ProverMail(h))
      /\ DOMAIN agentBox = Goals /\ \A h \in Goals : agentBox[h] \in Seq(AgentMail(h))
  BY <1>1, WithoutProver DEF Inv, Mailboxes
<1>7. \A h \in Goals : \/ proverBox'[h] = rest[h]
                       \/ proverBox'[h] = Append(rest[h], OutcomeOf(g, state[g]))
  BY <1>1, <1>6
<1>8. DOMAIN proverBox' = Goals
  BY <1>1, <1>6
<1>. QED  BY <1>1, <1>3, <1>4, <1>5, <1>6, <1>7, <1>8, MailSent

LEMMA ProverStepInv ==
  ASSUME Inv, NEW g \in Goals, ProverStep(g) \/ JobRun(g) \/ EvidenceCheck(g)
  PROVE  Inv'
<1>. DEFINE m == Head(proverBox[g])
            rest == Without(proverBox, g)
<1>1. /\ proverRun \in [Goals -> MaybeRun] /\ listeners \in [Goals -> SUBSET Asking]
      /\ heard \in [Goals -> SUBSET Goals] /\ succeeded \in [Goals -> SUBSET Goals]
  BY DEF Inv, TypeOK, Asking, MaybeRun
<1>2. CASE ProverFirstSatisfy(g) \/ ProverFirstSatisfyThrows(g)
  BY <1>2, TakesUpInv
<1>3. CASE ProverLaterSatisfy(g)
  BY <1>3, LaterInv
<1>4. CASE ProverGoalFailure(g)
  <2>1. /\ Receive(proverBox, g) /\ m.from \in Goals
        /\ heard' = [heard EXCEPT ![g] = @ \cup {m.from}]
        /\ Publish(g, "DependencyFailed", rest)
        /\ UNCHANGED <<rows, runID, proverRun, listeners, succeeded, workVars>>
    BY <1>4, ProverHead DEF ProverGoalFailure, Inv
  <2>2. heard' \in [Goals -> SUBSET Goals] /\ Counts'
    BY <1>1, <2>1, CountsStay
  <2>. HIDE DEF m, rest
  <2>. QED  BY <1>1, <2>1, <2>2, ProverTells DEF Terminal, rest
<1>5. CASE ProverGoalSuccess(g)
  <2>1. /\ Receive(proverBox, g) /\ m.from \in Goals
        /\ heard' = [heard EXCEPT ![g] = heard[g] \cup {m.from}]
        /\ succeeded' = [succeeded EXCEPT ![g] = @ \cup {m.from}]
        /\ proverBox' = rest
        /\ UNCHANGED <<state, workVars>> \/ RunsJob(g) \/ ChecksEvidence(g)
        /\ UNCHANGED <<rows, agentBox, runID, proverRun, listeners>>
    BY <1>5, ProverHead DEF ProverGoalSuccess, Inv, agentVars
  <2>2. heard' \in [Goals -> SUBSET Goals] /\ succeeded' \in [Goals -> SUBSET Goals]
    BY <1>1, <2>1
  <2>3. Counts'
    BY <2>1, CountsStay
  <2>4. \/ state' = state
        \/ \E st \in {"Running", "CheckingEvidence", "WaitingOnDependencies"} :
             state' = [state EXCEPT ![g] = st]
    BY <2>1 DEF RunsJob, ChecksEvidence
  <2>. HIDE DEF m
  <2>. QED  BY <1>1, <2>1, <2>2, <2>3, <2>4, ProverMoves
<1>6. CASE ProverRestartJob(g)
  <2>1. /\ Receive(proverBox, g) /\ proverBox' = rest
        /\ \/ UNCHANGED <<state, workVars>> \/ RunsJob(g)
           \/ /\ state' = [state EXCEPT ![g] = "WaitingOnDependencies"]
              /\ UNCHANGED workVars
        /\ UNCHANGED <<rows, agentBox, runID, proverRun, listeners, heard, succeeded>>
    BY <1>6 DEF ProverRestartJob, agentVars
  <2>2. Counts'
    BY <2>1, CountsStay
  <2>3. \/ state' = state
        \/ \E st \in {"Running", "CheckingEvidence", "WaitingOnDependencies"} :
             state' = [state EXCEPT ![g] = st]
    BY <2>1 DEF RunsJob
  <2>. QED  BY <1>1, <2>1, <2>2, <2>3, ProverMoves
<1>7. ASSUME NEW o \in {"Success", "Failed"}, ProverJobRun(g, o) PROVE Inv'
  <2>1. /\ jobs[g] > 0 /\ jobs' = [jobs EXCEPT ![g] = @ - 1] /\ Publish(g, o, proverBox)
        /\ UNCHANGED <<rows, runID, proverRun, listeners, heard, succeeded, checks, checkers>>
    BY <1>7 DEF ProverJobRun
  <2>2. Counts' /\ o \in Terminal
    BY <2>1 DEF Terminal, Satisfied, Counts, Inv, TypeOK
  <2>. QED  BY <1>1, <2>1, <2>2, ProverTells
<1>8. CASE EvidenceCheck(g)
  <2>1. /\ checks[g] > 0 /\ checks' = [checks EXCEPT ![g] = @ - 1]
        /\ \/ checkers' = checkers
           \/ checkers' = [checkers EXCEPT ![g] = @ - 1]
        /\ \/ jobs' = jobs
           \/ jobs' = [jobs EXCEPT ![g] = @ + 1]
        /\ UNCHANGED <<rows, runID, proverRun, listeners, heard, succeeded>>
    BY <1>8 DEF EvidenceCheck, EvidenceExists, EvidenceMissing, EvidenceThrows, CheckAnswers
  <2>2. Counts'
    <3>0. jobs \in [Goals -> Nat]
      BY DEF Inv, TypeOK
    <3>1. jobs' \in [Goals -> Nat]
      BY <2>1, <3>0
    <3>2. /\ checks \in [Goals -> Nat] /\ checkers \in [Goals -> Nat]
          /\ \A h \in Goals : checks[h] <= checkers[h]
      BY DEF Inv, TypeOK
    <3>3. checks' \in [Goals -> Nat] /\ checkers' \in [Goals -> Nat]
      BY <2>1, <3>2
    <3>4. \A h \in Goals : checks'[h] <= checkers'[h]
      BY <2>1, <3>2
    <3>. QED  BY <3>1, <3>3, <3>4 DEF Counts
  <2>3. CASE EvidenceThrows(g)
    BY <1>1, <2>1, <2>2, <2>3, ProverTells DEF EvidenceThrows, Terminal
  <2>4. CASE EvidenceMissing(g)
    BY <1>1, <2>1, <2>2, <2>4, ProverMoves DEF EvidenceMissing
  <2>5. CASE EvidenceExists(g)
    <3>1. CASE Publish(g, "AlreadySatisfied", proverBox)
      BY <1>1, <2>1, <2>2, <3>1, ProverTells DEF Terminal, Satisfied
    <3>2. CASE UNCHANGED <<state, proverBox, agentBox>>
      BY <1>1, <2>1, <2>2, <3>2, ProverMoves
    <3>. QED  BY <2>5, <3>1, <3>2 DEF EvidenceExists
  <2>. QED  BY <1>8, <2>3, <2>4, <2>5 DEF EvidenceCheck
<1>. QED  BY <1>2, <1>3, <1>4, <1>5, <1>6, <1>7, <1>8 DEF ProverStep, JobRun
-----------------------------------------------------------------------------
\* A message to the agent of g, from outside.
LEMMA WorldSends ==
  ASSUME Inv, NEW g \in Goals, NEW m, m \in AgentMail(g)',
         agentBox' = [agentBox EXCEPT ![g] = Append(@, m)],
         UNCHANGED <<rows, runID, proverVars>>
  PROVE  Inv'
<1>1. \A h \in Goals : Decided(h) => Decided(h)'
  BY DEF Decided, proverVars
<1>2. TypeOK'
  BY DEF Inv, TypeOK, RunIds, proverVars, workVars
<1>. QED  BY <1>1, <1>2, MailSent DEF Inv, Mailboxes, proverVars

\* The factory stops an agent and its prover only when they have no mail.
LEMMA KillActorInv ==
  ASSUME Inv, NEW g \in Goals, KillActor(g)
  PROVE  Inv'
<1>1. /\ agentBox[g] = <<>> /\ state' = [state EXCEPT ![g] = "Unstarted"]
      /\ UNCHANGED <<rows, agentBox, proverBox>>
  BY DEF KillActor
<1>2. TypeOK'
  <2>1. Counts'
    <3>1. Counts
      BY DEF Inv, TypeOK, Counts
    <3>. QED  BY <3>1 DEF Counts, KillActor
  <2>2. state' \in [Goals -> State]
    BY <1>1 DEF Inv, TypeOK, State
  <2>3. /\ runID' \in [Goals -> MaybeRun] /\ proverRun' \in [Goals -> MaybeRun]
        /\ listeners' \in [Goals -> SUBSET Asking]
        /\ heard' \in [Goals -> SUBSET Goals] /\ succeeded' \in [Goals -> SUBSET Goals]
    BY DEF KillActor, Inv, TypeOK, MaybeRun, Asking
  <2>. QED  BY <1>1, <2>1, <2>2, <2>3 DEF Counts, Inv, TypeOK, RunIds, MaybeRun, Asking
<1>3. \A h \in Goals : proverBox'[h] \in Seq(ProverMail(h)')
  <2>. TAKE h \in Goals
  <2>1. ProverMail(h)' = ProverMail(h)
    BY <1>1 DEF ProverMail, RunIds, MaybeRun
  <2>. QED  BY <1>1, <2>1 DEF Inv, Mailboxes
<1>4. \A h \in Goals : agentBox'[h] \in Seq(AgentMail(h)')
  <2>1. agentBox[g] \in Seq(AgentMail(g)')
    BY <1>1
  <2>2. ASSUME NEW h \in Goals, h # g PROVE agentBox[h] \in Seq(AgentMail(h)')
    <3>1. Decided(h)' <=> Decided(h)
      BY <1>1, <2>2 DEF Decided, Inv, TypeOK
    <3>2. AgentMail(h)' = AgentMail(h)
      BY <1>1, <3>1 DEF AgentMail, RunIds, MaybeRun
    <3>. QED  BY <3>2 DEF Inv, Mailboxes
  <2>. QED  BY <1>1, <2>1, <2>2
<1>5. RunTree'
  BY <1>1 DEF Inv, RunTree, RunIds
<1>. QED  BY <1>1, <1>2, <1>3, <1>4, <1>5 DEF Inv, Mailboxes

\* A crash leaves the table and nothing else.
LEMMA CrashInv ==
  ASSUME Inv, CrashProcess
  PROVE  Inv'
<1>1. TypeOK'
  BY DEF CrashProcess, Inv, TypeOK, State, RunIds
<1>2. RunTree'
  BY DEF CrashProcess, Inv, RunTree, RunIds
<1>3. Mailboxes'
  BY DEF CrashProcess, Mailboxes
<1>. QED  BY <1>1, <1>2, <1>3 DEF Inv

LEMMA StepInv == Inv /\ [Next]_vars => Inv'
<1>. SUFFICES ASSUME Inv, [Next]_vars PROVE Inv'
  OBVIOUS
<1>1. ASSUME NEW g \in Goals, AgentStep(g) PROVE Inv'
  BY <1>1, AgentStepInv
<1>2. ASSUME NEW g \in Goals, ProverStep(g) \/ JobRun(g) \/ EvidenceCheck(g) PROVE Inv'
  BY <1>2, ProverStepInv
<1>3. ASSUME NEW g \in Goals, SatisfyGoal(g) \/ RestartGoal(g) PROVE Inv'
  <2>1. Satisfy(Client, NoRun, NoRun) \in AgentMail(g)' /\ RestartJobInstance \in AgentMail(g)'
    BY Sendable
  <2>. QED  BY <1>3, <2>1, WorldSends DEF SatisfyGoal, RestartGoal, RequestGoal
<1>4. ASSUME NEW g \in Goals, RetryTimer(g) PROVE Inv'
  <2>1. RestartJob \in AgentMail(g)'
    BY Sendable
  <2>. QED  BY <1>4, <2>1, WorldSends DEF RetryTimer
<1>5. ASSUME NEW g \in Goals, KillActor(g) PROVE Inv'
  BY <1>5, KillActorInv
<1>6. CASE CrashProcess
  BY <1>6, CrashInv
<1>7. CASE UNCHANGED vars
  <2>1. TypeOK' /\ RunTree'
    BY <1>7 DEF Inv, TypeOK, RunTree, RunIds, vars, agentVars, proverVars, workVars
  <2>2. \A g \in Goals : AgentMail(g)' = AgentMail(g) /\ ProverMail(g)' = ProverMail(g)
    BY <1>7 DEF AgentMail, ProverMail, RunIds, MaybeRun, Decided, vars, agentVars, proverVars
  <2>3. Mailboxes'
    BY <1>7, <2>2 DEF Inv, Mailboxes, vars, agentVars, proverVars
  <2>. QED  BY <2>1, <2>3 DEF Inv
<1>. QED  BY <1>1, <1>2, <1>3, <1>4, <1>5, <1>6, <1>7 DEF Next

-----------------------------------------------------------------------------
(* The run an agent keeps is the newest row of its goal: requests pass the    *)
(* agent one at a time, and a new agent keeps none.                           *)
KeepsNewest ==
  \A g \in Goals : runID[g] # NoRun =>
    /\ runID[g] \in RunIds /\ rows[runID[g]].goal = g
    /\ \A i \in RunIds : rows[i].goal = g => i <= runID[g]

LEMMA InitKeepsNewest == Init => KeepsNewest
  BY DEF Init, KeepsNewest

\* Opening a row: it is the newest, and its goal's agent keeps it.
LEMMA OpensRowNewest ==
  ASSUME Inv, KeepsNewest, NEW g \in Goals, NEW parent, NEW m, OpensRow(g, parent, m)
  PROVE  KeepsNewest' /\ \A i \in RunIds : rows'[i] = rows[i]
<1>. DEFINE n == Len(rows) + 1
<1>1. rows \in Seq(RowSet) /\ Len(rows) \in Nat /\ RunIds = 1..Len(rows)
  BY DEF Inv, TypeOK, RowSet, MaybeRun, RunIds
<1>2. /\ rows' = Append(rows, Row(g, parent)) /\ Len(rows') = n /\ RunIds' = 1..n
      /\ \A i \in RunIds : rows'[i] = rows[i]
      /\ rows'[n].goal = g
      /\ runID' = [runID EXCEPT ![g] = n]
  BY <1>1 DEF OpensRow, StartRun, NewId, Row, RunIds
<1>3. ASSUME NEW h \in Goals, runID'[h] # NoRun
      PROVE  /\ runID'[h] \in RunIds' /\ rows'[runID'[h]].goal = h
             /\ \A i \in RunIds' : rows'[i].goal = h => i <= runID'[h]
  <2>1. CASE h = g
    <3>1. runID'[h] = n
      BY <1>2, <2>1 DEF Inv, TypeOK
    <3>. QED  BY <1>1, <1>2, <2>1, <3>1
  <2>2. CASE h # g
    <3>1. runID'[h] = runID[h]
      BY <1>2, <2>2 DEF Inv, TypeOK
    <3>2. /\ runID[h] \in RunIds /\ rows[runID[h]].goal = h
          /\ \A i \in RunIds : rows[i].goal = h => i <= runID[h]
      BY <1>3, <3>1 DEF KeepsNewest
    <3>3. \A i \in RunIds' : i \in RunIds \/ i = n
      BY <1>1, <1>2
    <3>. QED  BY <1>1, <1>2, <2>2, <3>1, <3>2, <3>3
  <2>. QED  BY <2>1, <2>2
<1>. QED  BY <1>2, <1>3 DEF KeepsNewest

\* Closing one: it is the one the agent keeps.
LEMMA AgentOutcomeNewest ==
  ASSUME Inv, KeepsNewest, NEW g \in Goals, AgentOutcome(g)
  PROVE  /\ KeepsNewest'
         /\ \A i \in RunIds : rows'[i] # rows[i] => i = runID[g] /\ runID[g] # NoRun
<1>1. /\ rows \in Seq(RowSet) /\ Len(rows) \in Nat /\ RunIds = 1..Len(rows)
      /\ DOMAIN rows = 1..Len(rows)
  BY DEF Inv, TypeOK, RowSet, MaybeRun, RunIds
<1>2. /\ rows' = IF runID[g] = NoRun THEN rows ELSE CompleteRun(rows, runID[g], state[g])
      /\ runID' = runID
  BY DEF AgentOutcome, Completes
<1>3. CASE runID[g] = NoRun
  BY <1>2, <1>3 DEF KeepsNewest, RunIds
<1>4. CASE runID[g] # NoRun
  <2>1. rows' = [i \in 1..Len(rows) |->
          IF i = runID[g] THEN [rows[i] EXCEPT !.state = state[g], !.ended = TRUE] ELSE rows[i]]
    BY <1>1, <1>2, <1>4 DEF CompleteRun
  <2>2. \A i \in 1..Len(rows) : rows[i] \in RowSet
    BY <1>1
  <2>3. \A i \in RunIds : /\ rows'[i].goal = rows[i].goal
                          /\ rows'[i] # rows[i] => i = runID[g]
    BY <1>1, <2>1, <2>2 DEF RowSet
  <2>4. RunIds' = RunIds
    <3>. DEFINE S == {rows'[i] : i \in 1..Len(rows)}
    <3>0. rows' \in [1..Len(rows) -> S]
      BY <2>1
    <3>1. Len(rows') = Len(rows)
      BY <1>1, <3>0, FunctionIsSeq
    <3>. QED  BY <3>1 DEF RunIds
  <2>5. KeepsNewest'
    BY <1>2, <2>3, <2>4 DEF KeepsNewest
  <2>. QED  BY <1>4, <2>3, <2>5
<1>. QED  BY <1>3, <1>4

\* A step writes only rows that some agent keeps, and agents keep the newest.
WritesKept ==
  /\ KeepsNewest'
  /\ \A i \in RunIds : rows'[i] # rows[i] =>
       \E g \in Goals : i = runID[g] /\ runID[g] # NoRun

LEMMA StepNewest ==
  ASSUME Inv, KeepsNewest, [Next]_vars
  PROVE  WritesKept
<1>1. ASSUME NEW g \in Goals, AgentSatisfy(g) \/ AgentRestartJob(g) PROVE WritesKept
  BY <1>1, OpensRowNewest DEF WritesKept, AgentSatisfy, PassesSatisfy, AgentRestartJob
<1>2. ASSUME NEW g \in Goals, AgentOutcome(g) PROVE WritesKept
  BY <1>2, AgentOutcomeNewest DEF WritesKept
<1>3. ASSUME UNCHANGED rows, \A g \in Goals : runID'[g] \in {runID[g], NoRun}
      PROVE  WritesKept
  BY <1>3 DEF WritesKept, KeepsNewest, RunIds
<1>4. ASSUME NEW g \in Goals, KillActor(g) PROVE WritesKept
  BY <1>3, <1>4 DEF KillActor, Inv, TypeOK
<1>5. CASE CrashProcess
  BY <1>3, <1>5 DEF CrashProcess
<1>6. ASSUME NEW g \in Goals, AgentForward(g) \/ ProverStep(g) \/ JobRun(g)
                              \/ EvidenceCheck(g) \/ SatisfyGoal(g) \/ RestartGoal(g) \/ RetryTimer(g)
      PROVE  UNCHANGED <<rows, runID>>
  BY <1>6 DEF AgentForward, ProverStep, JobRun, ProverFirstSatisfy, ProverFirstSatisfyThrows,
       TakesUp, ProverLaterSatisfy, ProverGoalFailure, ProverGoalSuccess, ProverRestartJob,
       ProverJobRun, EvidenceCheck, EvidenceExists, EvidenceMissing, EvidenceThrows, CheckAnswers,
       SatisfyGoal, RestartGoal, RequestGoal, RetryTimer, agentVars
<1>7. CASE UNCHANGED vars
  BY <1>3, <1>7 DEF vars, agentVars
<1>. QED  BY <1>1, <1>2, <1>3, <1>4, <1>5, <1>6, <1>7 DEF Next, AgentStep

\* What NewestRun chooses is the run an agent keeps.
LEMMA NewestIsKept ==
  ASSUME Inv, KeepsNewest, NEW g \in Goals, runID[g] # NoRun
  PROVE  runID[g] = NewestRun(rows[runID[g]].goal)
<1>. DEFINE own == {i \in RunIds : rows[i].goal = g}
<1>1. /\ runID[g] \in own /\ rows[runID[g]].goal = g
      /\ \A j \in own : j <= runID[g]
  BY DEF KeepsNewest
<1>2. \A i \in own : i \in Nat
  BY DEF RunIds, Inv, TypeOK
<1>3. \A i \in own : (\A j \in own : j <= i) => i = runID[g]
  BY <1>1, <1>2
<1>4. NewestRun(g) = CHOOSE i \in own : \A j \in own : j <= i
  BY <1>1 DEF NewestRun
<1>. QED  BY <1>1, <1>3, <1>4

THEOREM Invariant == Spec => []Inv
  BY InitInv, StepInv, PTL DEF Spec

\* Rows, agents and provers hold values of their types, the ids in them being
\* those of rows of the table.
THEOREM HistoryTypeCorrect == Spec => []TypeOK
<1>1. Inv => TypeOK
  BY DEF Inv
<1>. QED  BY <1>1, Invariant, PTL

\* The runs form a forest along the dependencies: a run's parent is an older run
\* of a goal that depends on its goal, whatever crashed, failed or was asked
\* again, because the run a request is on behalf of travels with the Satisfy.
THEOREM RunsAreTree == Spec => []RunTree
<1>1. Inv => RunTree
  BY DEF Inv
<1>. QED  BY <1>1, Invariant, PTL

\* A row changes only while it is the newest of its goal: an outcome that arrives
\* late, after a crash or behind another request, is never written over an older
\* run, because the agent that writes it keeps the newest run or none.
THEOREM OlderStand == Spec => OlderRunsStand
<1>. DEFINE Stands == \A i \in RunIds : rows'[i] # rows[i] => i = NewestRun(rows[i].goal)
<1>1. Inv /\ KeepsNewest /\ [Next]_vars => KeepsNewest' /\ [Stands]_vars
  BY StepNewest, NewestIsKept DEF WritesKept
<1>2. OlderRunsStand <=> [][Stands]_vars
  BY DEF OlderRunsStand
<1>. QED  BY <1>1, <1>2, Invariant, InitKeepsNewest, PTL DEF Spec
-----------------------------------------------------------------------------
(* What was told is recorded.  A goal that has ended has told its agent, which *)
(* has a run to close: the prover's first Satisfy has passed the agent.  For   *)
(* that no outcome may reach a prover that has not been asked, so that a prover*)
(* is stopped only when all it asked have heard it, and have told it.          *)
Has(q, M) == \E i \in 1..Len(q) : q[i] \in M
One(q, M) == \A i, j \in 1..Len(q) : q[i] \in M /\ q[j] \in M => i = j

Ids == Nat \cup {NoRun}
Satisfies == [type : {"Satisfy"}, from : Asking, run : Ids, parent : Ids]
Requests(r) == {m \in Satisfies : m.from = r}

Pending(g, d) == Has(agentBox[d], Requests(g)) \/ Has(proverBox[d], Requests(g))
\* d has heard g.
Met(g, d) == g \in listeners[d] \/ Has(proverBox[g], Outcomes(d)) \/ d \in heard[g]

\* g asks only its dependencies, each once, and only once it has been asked itself.
Asked(g, d) ==
  /\ Pending(g, d) \/ Met(g, d) => d \in Dependencies[g] /\ state[g] # "Unstarted"
  /\ Met(g, d) => ~Pending(g, d)
  /\ One(agentBox[d], Requests(g)) /\ One(proverBox[d], Requests(g))
  /\ ~(Has(agentBox[d], Requests(g)) /\ Has(proverBox[d], Requests(g)))

\* The prover is done with its dependencies, or has never got to ask them.
Through(g) == \/ state[g] \in Satisfied \cup {"CheckingEvidence", "Running", "Failed"}
              \/ jobs[g] > 0 \/ checks[g] > 0

\* Then no question of it is open; before it is asked it has none and does nothing.
Answered(g) ==
  /\ Through(g) => \A d \in Goals : ~Pending(g, d)
  /\ state[g] = "Unstarted" => jobs[g] = 0 /\ checks[g] = 0

HasRun(g) ==
  state[g] # "Unstarted" \/ Has(proverBox[g], Satisfies) => runID[g] # NoRun

Recorded(g) ==
  state[g] \in Terminal /\ ~Has(agentBox[g], Outcomes(g)) =>
    \E i \in RunIds : rows[i].goal = g /\ rows[i].ended /\ rows[i].state = state[g]

RecordInv == /\ \A g, d \in Goals : Asked(g, d)
             /\ \A g \in Goals : Answered(g) /\ HasRun(g) /\ Recorded(g)
-----------------------------------------------------------------------------
\* A queue, one message longer or shorter.
LEMMA LongerQueue ==
  ASSUME NEW S, NEW q \in Seq(S), NEW m, NEW M
  PROVE  /\ Has(Append(q, m), M) <=> Has(q, M) \/ m \in M
         /\ One(q, M) /\ (m \in M => ~Has(q, M)) => One(Append(q, m), M)
<1>. DEFINE T == S \cup {m}
            n == Len(q)
            r == Append(q, m)
<1>1. q \in Seq(T) /\ m \in T /\ n \in Nat
  OBVIOUS
<1>2. /\ Len(r) = n + 1 /\ r[n + 1] = m
      /\ \A i \in 1..n : r[i] = q[i] /\ i \in 1..(n + 1)
      /\ \A i \in 1..(n + 1) : i \in 1..n \/ i = n + 1
  BY <1>1
<1>. HIDE DEF r
<1>3. Has(r, M) <=> Has(q, M) \/ m \in M
  <2>1. n + 1 \in 1..(n + 1)
    BY <1>1
  <2>. QED  BY <1>2, <2>1 DEF Has
<1>4. One(q, M) /\ (m \in M => ~Has(q, M)) => One(r, M)
  BY <1>2 DEF One, Has
<1>. QED  BY <1>3, <1>4 DEF r

LEMMA ShorterQueue ==
  ASSUME NEW S, NEW q \in Seq(S), q # <<>>, NEW M
  PROVE  /\ Has(Tail(q), M) => Has(q, M)
         /\ Has(q, M) => Head(q) \in M \/ Has(Tail(q), M)
         /\ Head(q) \in M => Has(q, M)
         /\ One(q, M) => One(Tail(q), M)
         /\ One(q, M) /\ Head(q) \in M => ~Has(Tail(q), M)
<1>1. /\ Len(q) \in Nat /\ Len(q) > 0 /\ Len(Tail(q)) = Len(q) - 1
      /\ \A i \in 1..Len(Tail(q)) : i + 1 \in 1..Len(q) /\ Tail(q)[i] = q[i + 1]
      /\ 1 \in 1..Len(q) /\ Head(q) = q[1]
  OBVIOUS
<1>2. \A i \in 1..Len(q) : i = 1 \/ (i - 1 \in 1..Len(Tail(q)) /\ Tail(q)[i - 1] = q[i])
  BY <1>1
<1>3. /\ Has(Tail(q), M) => Has(q, M)
      /\ Has(q, M) => Head(q) \in M \/ Has(Tail(q), M)
      /\ Head(q) \in M => Has(q, M)
  BY <1>1, <1>2 DEF Has
<1>4. One(q, M) => One(Tail(q), M)
  BY <1>1 DEF One
<1>5. One(q, M) /\ Head(q) \in M => ~Has(Tail(q), M)
  <2>. SUFFICES ASSUME One(q, M), Head(q) \in M, NEW i \in 1..Len(Tail(q)), Tail(q)[i] \in M
                PROVE  FALSE
    BY DEF Has
  <2>1. i + 1 = 1
    BY <1>1 DEF One
  <2>. QED  BY <1>1, <2>1
<1>. QED  BY <1>3, <1>4, <1>5

\* The kinds of mail.
LEMMA MailKinds ==
  ASSUME Inv, NEW g \in Goals, NEW m \in AgentMail(g) \cup ProverMail(g)
  PROVE  /\ \A r : m \in Requests(r) <=> m.type = "Satisfy" /\ m.from = r
         /\ m \in Satisfies <=> m.type = "Satisfy"
         /\ \A d : m \in Outcomes(d) <=>
                     m.type \in {"GoalSuccess", "GoalFailure"} /\ m.from = d
<1>1. MaybeRun \subseteq Ids /\ RunIds \subseteq Ids
  BY DEF MaybeRun, RunIds, Ids, Inv, TypeOK
<1>2. m \in Satisfies <=> m.type = "Satisfy"
  BY <1>1 DEF AgentMail, ProverMail, Satisfies, Ids
<1>3. \A d : m \in Outcomes(d) <=> m.type \in {"GoalSuccess", "GoalFailure"} /\ m.from = d
  BY DEF AgentMail, ProverMail, Outcomes, GoalSuccess, GoalFailure
<1>. QED  BY <1>2, <1>3 DEF Requests

\* The mail a step sends, in kinds.
LEMMA SentKinds ==
  ASSUME NEW r \in Asking, NEW a \in Ids, NEW b \in Ids, NEW g \in Goals, NEW o
  PROVE  /\ Satisfy(r, a, b) \in Satisfies
         /\ \A x : Satisfy(r, a, b) \in Requests(x) <=> x = r
         /\ \A x : Satisfy(r, a, b) \notin Outcomes(x)
         /\ OutcomeOf(g, o) \notin Satisfies
         /\ \A x : OutcomeOf(g, o) \notin Requests(x)
         /\ \A x : OutcomeOf(g, o) \in Outcomes(x) <=> x = g
         /\ \A m \in {RestartJob, RestartJobInstance} :
              m \notin Satisfies /\ \A x : m \notin Requests(x) /\ m \notin Outcomes(x)
  BY DEF Satisfy, Satisfies, Requests, Outcomes, GoalSuccess, GoalFailure, OutcomeOf,
         RestartJob, RestartJobInstance
-----------------------------------------------------------------------------
\* What g asked of d stays in order when no request is new, and d has heard of it
\* before or has just taken it.
LEMMA AskedStays ==
  ASSUME NEW g \in Goals, NEW d \in Goals, Asked(g, d),
         Has(agentBox'[d], Requests(g)) => Has(agentBox[d], Requests(g)),
         Has(proverBox'[d], Requests(g)) => Has(proverBox[d], Requests(g)),
         One(agentBox'[d], Requests(g)), One(proverBox'[d], Requests(g)),
         Met(g, d)' => Met(g, d) \/ (Pending(g, d) /\ ~Pending(g, d)'),
         state[g] # "Unstarted" => state'[g] # "Unstarted"
  PROVE  Asked(g, d)'
<1>1. Pending(g, d)' => Pending(g, d)
  BY DEF Pending
<1>2. Pending(g, d)' \/ Met(g, d)' => d \in Dependencies[g] /\ state'[g] # "Unstarted"
  BY <1>1 DEF Asked
<1>3. Met(g, d)' => ~Pending(g, d)'
  BY <1>1 DEF Asked
<1>. QED  BY <1>2, <1>3 DEF Asked

\* No question is open after a step with which none is asked.
LEMMA AnsweredStays ==
  ASSUME NEW g \in Goals, Answered(g),
         \A d \in Goals : Pending(g, d)' => Pending(g, d),
         Through(g)' => Through(g) \/ \A d \in Goals : ~Pending(g, d),
         \/ state'[g] # "Unstarted"
         \/ state'[g] = state[g] /\ jobs'[g] = jobs[g] /\ checks'[g] = checks[g]
  PROVE  Answered(g)'
  BY DEF Answered

\* What is recorded stays while no row of the goal is written.
LEMMA RecordedStays ==
  ASSUME NEW g \in Goals, Recorded(g), RunIds \subseteq RunIds',
         \A i \in RunIds : rows[i].goal = g => rows'[i] = rows[i],
         \/ state'[g] = state[g]
         \/ state'[g] \notin Terminal
         \/ Has(agentBox'[g], Outcomes(g)),
         Has(agentBox[g], Outcomes(g)) => Has(agentBox'[g], Outcomes(g))
  PROVE  Recorded(g)'
  BY DEF Recorded
-----------------------------------------------------------------------------
\* A queue from which one message at most is taken, and to which one at most is
\* added, which is none of M.
Quiet(q, q2, M) == \E m : /\ m \notin M
                          /\ \/ q2 \in {q, Append(q, m)}
                             \/ q # <<>> /\ q2 \in {Tail(q), Append(Tail(q), m)}

Asks == {m \in Satisfies : m.from \in Goals}

LEMMA QuietQueue ==
  ASSUME NEW S, NEW q \in Seq(S), NEW M, NEW q2, Quiet(q, q2, M), NEW N, N \subseteq M
  PROVE  (Has(q2, N) => Has(q, N)) /\ (One(q, N) => One(q2, N))
<1>1. PICK m : /\ m \notin M
               /\ \/ q2 \in {q, Append(q, m)}
                  \/ q # <<>> /\ q2 \in {Tail(q), Append(Tail(q), m)}
  BY DEF Quiet
<1>2. m \notin N
  BY <1>1
<1>3. CASE q2 \in {q, Append(q, m)}
  <2>1. /\ Has(Append(q, m), N) <=> Has(q, N)
        /\ One(q, N) => One(Append(q, m), N)
    BY <1>2, LongerQueue
  <2>. QED  BY <1>3, <2>1
<1>4. CASE q # <<>> /\ q2 \in {Tail(q), Append(Tail(q), m)}
  <2>1. Tail(q) \in Seq(S)
    BY <1>4
  <2>2. /\ Has(Tail(q), N) => Has(q, N)
        /\ One(q, N) => One(Tail(q), N)
    BY <1>4, ShorterQueue
  <2>3. /\ Has(Append(Tail(q), m), N) <=> Has(Tail(q), N)
        /\ One(Tail(q), N) => One(Append(Tail(q), m), N)
    BY <1>2, <2>1, LongerQueue
  <2>. QED  BY <1>4, <2>2, <2>3
<1>. QED  BY <1>1, <1>3, <1>4

\* A step with which nobody asks anybody.
LEMMA QuietStep ==
  ASSUME Inv, RecordInv,
         \A d \in Goals : /\ Quiet(agentBox[d], agentBox'[d], Asks)
                          /\ Quiet(proverBox[d], proverBox'[d], Satisfies)
                          /\ runID[d] # NoRun => runID'[d] # NoRun
                          /\ state[d] # "Unstarted" => state'[d] # "Unstarted"
                          /\ state'[d] # "Unstarted" =>
                               state[d] # "Unstarted" \/ runID[d] # NoRun,
         \A x, d \in Goals : Met(x, d)' => Met(x, d) \/ (Pending(x, d) /\ ~Pending(x, d)')
  PROVE  /\ \A x, d \in Goals : Asked(x, d)'
         /\ \A x, d \in Goals : Pending(x, d)' => Pending(x, d)
         /\ \A x \in Goals : HasRun(x)'
<1>1. ASSUME NEW x \in Goals
      PROVE  Requests(x) \subseteq Asks /\ Requests(x) \subseteq Satisfies
  BY DEF Requests, Asks
<1>2. ASSUME NEW d \in Goals
      PROVE  agentBox[d] \in Seq(AgentMail(d)) /\ proverBox[d] \in Seq(ProverMail(d))
  BY DEF Inv, Mailboxes
<1>3. ASSUME NEW x \in Goals, NEW d \in Goals
      PROVE  Asked(x, d)' /\ (Pending(x, d)' => Pending(x, d))
  <2>1. /\ Has(agentBox'[d], Requests(x)) => Has(agentBox[d], Requests(x))
        /\ One(agentBox[d], Requests(x)) => One(agentBox'[d], Requests(x))
    BY <1>1, <1>2, QuietQueue
  <2>2. /\ Has(proverBox'[d], Requests(x)) => Has(proverBox[d], Requests(x))
        /\ One(proverBox[d], Requests(x)) => One(proverBox'[d], Requests(x))
    BY <1>1, <1>2, QuietQueue
  <2>3. Asked(x, d)
    BY DEF RecordInv
  <2>4. One(agentBox'[d], Requests(x)) /\ One(proverBox'[d], Requests(x))
    BY <2>1, <2>2, <2>3 DEF Asked
  <2>5. Pending(x, d)' => Pending(x, d)
    BY <2>1, <2>2 DEF Pending
  <2>. QED  BY <2>1, <2>2, <2>3, <2>4, <2>5, AskedStays
<1>4. ASSUME NEW x \in Goals PROVE HasRun(x)'
  <2>1. Has(proverBox'[x], Satisfies) => Has(proverBox[x], Satisfies)
    BY <1>2, QuietQueue
  <2>. QED  BY <2>1 DEF HasRun, RecordInv
<1>. QED  BY <1>3, <1>4
-----------------------------------------------------------------------------
\* The agent passes on what is no Satisfy.
LEMMA AgentPassesOn ==
  ASSUME Inv, RecordInv, KeepsNewest, NEW g \in Goals, AgentRestartJob(g) \/ AgentForward(g)
  PROVE  RecordInv'
<1>. DEFINE h == Head(agentBox[g])
<1>1. PICK m \in {RestartJob, RestartJobInstance} :
           /\ Receive(agentBox, g) /\ h.type = m.type
           /\ agentBox' = Without(agentBox, g)
           /\ proverBox' = [proverBox EXCEPT ![g] = Append(@, m)]
           /\ UNCHANGED <<state, proverRun, listeners, heard, succeeded, jobs, checks>>
  BY DEF AgentRestartJob, AgentForward, OpensRow, RestartJob, RestartJobInstance, workVars
<1>2. /\ RunIds \subseteq RunIds' /\ \A i \in RunIds : rows'[i] = rows[i]
      /\ \A x \in Goals : runID[x] # NoRun => runID'[x] # NoRun
  <2>1. CASE AgentRestartJob(g)
    <3>1. /\ \A i \in RunIds : rows'[i] = rows[i]
          /\ Len(rows)' = Len(rows) + 1 /\ Len(rows) \in Nat
      BY <2>1 DEF AgentRestartJob, OpensRow, StartRun, Inv, TypeOK, RunIds
    <3>2. NewId(rows) # NoRun
      BY <3>1 DEF NewId
    <3>. QED  BY <2>1, <3>1, <3>2 DEF AgentRestartJob, OpensRow, Inv, TypeOK, RunIds
  <2>2. CASE AgentForward(g)
    BY <2>2 DEF AgentForward, RunIds
  <2>. QED  BY <2>1, <2>2
<1>3. /\ DOMAIN agentBox = Goals /\ DOMAIN proverBox = Goals
      /\ \A d \in Goals : agentBox[d] \in Seq(AgentMail(d)) /\ proverBox[d] \in Seq(ProverMail(d))
  BY DEF Inv, Mailboxes
<1>4. \A d \in Goals : /\ agentBox'[d] = IF d = g THEN Tail(agentBox[g]) ELSE agentBox[d]
                      /\ proverBox'[d] = IF d = g THEN Append(proverBox[g], m) ELSE proverBox[d]
  BY <1>1, <1>3 DEF Without
<1>5. m \notin Satisfies /\ m \notin Asks /\ \A x : m \notin Outcomes(x)
  BY SentKinds DEF Asks, Asking, Ids
<1>6. agentBox[g] # <<>>
  BY <1>1 DEF Receive
<1>7. \A d \in Goals : /\ Quiet(agentBox[d], agentBox'[d], Asks)
                      /\ Quiet(proverBox[d], proverBox'[d], Satisfies)
  <2>. TAKE d \in Goals
  <2>1. \/ agentBox'[d] = agentBox[d]
        \/ agentBox[d] # <<>> /\ agentBox'[d] = Tail(agentBox[d])
    BY <1>4, <1>6
  <2>2. proverBox'[d] = proverBox[d] \/ proverBox'[d] = Append(proverBox[d], m)
    BY <1>4
  <2>3. Quiet(agentBox[d], agentBox'[d], Asks)
    BY <1>5, <2>1 DEF Quiet
  <2>4. Quiet(proverBox[d], proverBox'[d], Satisfies)
    BY <1>5, <2>2 DEF Quiet
  <2>. QED  BY <2>3, <2>4
<1>8. \A x, d \in Goals : Met(x, d)' => Met(x, d)
  <2>1. \A x, d \in Goals : Has(proverBox'[x], Outcomes(d)) => Has(proverBox[x], Outcomes(d))
    <3>. TAKE x \in Goals, d \in Goals
    <3>1. Has(Append(proverBox[x], m), Outcomes(d)) <=> Has(proverBox[x], Outcomes(d))
      BY <1>3, <1>5, LongerQueue
    <3>. QED  BY <1>4, <3>1
  <2>. QED  BY <1>1, <2>1 DEF Met
<1>9. /\ \A x, d \in Goals : Asked(x, d)' /\ (Pending(x, d)' => Pending(x, d))
      /\ \A x \in Goals : HasRun(x)'
  BY <1>1, <1>2, <1>7, <1>8, QuietStep
<1>10. ASSUME NEW x \in Goals PROVE Answered(x)' /\ Recorded(x)'
  <2>1. Answered(x)'
    BY <1>1, <1>9, AnsweredStays DEF RecordInv, Through
  <2>2. h \notin Outcomes(g)
    BY <1>1 DEF RestartJob, RestartJobInstance, Outcomes, GoalSuccess, GoalFailure
  <2>3. Has(agentBox[x], Outcomes(x)) => Has(agentBox'[x], Outcomes(x))
    <3>1. Has(agentBox[g], Outcomes(g)) => Has(Tail(agentBox[g]), Outcomes(g))
      BY <1>3, <1>6, <2>2, ShorterQueue
    <3>. QED  BY <1>4, <3>1
  <2>4. Recorded(x)
    BY DEF RecordInv
  <2>5. Recorded(x)'
    BY <1>1, <1>2, <2>3, <2>4, RecordedStays
  <2>. QED  BY <2>1, <2>5
<1>. QED  BY <1>9, <1>10 DEF RecordInv

\* The agent writes what its prover has come to into the run it keeps, which
\* is a row of the goal, as the prover has been asked through it.
LEMMA AgentRecords ==
  ASSUME Inv, RecordInv, KeepsNewest, NEW g \in Goals, AgentOutcome(g)
  PROVE  RecordInv'
<1>. DEFINE h == Head(agentBox[g])
<1>1. /\ Receive(agentBox, g) /\ h \in Outcomes(g)
      /\ agentBox' = Without(agentBox, g)
      /\ rows' = IF runID[g] = NoRun THEN rows ELSE CompleteRun(rows, runID[g], state[g])
      /\ UNCHANGED <<runID, state, proverRun, listeners, heard, succeeded, jobs, checks, proverBox>>
  BY DEF AgentOutcome, Completes, proverVars, workVars
<1>2. state[g] # "Unstarted"
  BY <1>1, AgentHead DEF Inv, Decided
<1>3. runID[g] \in RunIds /\ rows[runID[g]].goal = g /\ runID[g] # NoRun
  BY <1>2 DEF RecordInv, HasRun, KeepsNewest
<1>4. /\ rows \in Seq(RowSet) /\ Len(rows) \in Nat /\ RunIds = 1..Len(rows)
      /\ DOMAIN rows = RunIds
  BY DEF Inv, TypeOK, RowSet, MaybeRun, RunIds
<1>5. rows' = [i \in RunIds |->
          IF i = runID[g] THEN [rows[i] EXCEPT !.state = state[g], !.ended = TRUE] ELSE rows[i]]
  BY <1>1, <1>3, <1>4 DEF CompleteRun
<1>6. RunIds' = RunIds
  <2>. DEFINE S == {rows'[i] : i \in 1..Len(rows)}
  <2>1. rows' \in [1..Len(rows) -> S]
    BY <1>4, <1>5
  <2>2. Len(rows') = Len(rows)
    BY <1>4, <2>1, FunctionIsSeq
  <2>. QED  BY <2>2 DEF RunIds
<1>7. rows[runID[g]] \in RowSet
  BY <1>3, <1>4
<1>8. /\ rows'[runID[g]].goal = g /\ rows'[runID[g]].ended /\ rows'[runID[g]].state = state[g]
  BY <1>3, <1>5, <1>7 DEF RowSet
<1>9. /\ DOMAIN agentBox = Goals
      /\ \A d \in Goals : agentBox[d] \in Seq(AgentMail(d)) /\ proverBox[d] \in Seq(ProverMail(d))
      /\ agentBox[g] # <<>>
  BY <1>1 DEF Inv, Mailboxes, Receive
<1>10. \A d \in Goals : agentBox'[d] = IF d = g THEN Tail(agentBox[g]) ELSE agentBox[d]
  BY <1>1, <1>9 DEF Without
<1>11. \A d \in Goals : /\ Quiet(agentBox[d], agentBox'[d], Asks)
                       /\ Quiet(proverBox[d], proverBox'[d], Satisfies)
  <2>1. RestartJob \notin Satisfies /\ RestartJob \notin Asks
    BY DEF RestartJob, Satisfies, Asks
  <2>. QED  BY <1>1, <1>9, <1>10, <2>1 DEF Quiet
<1>12. \A x, d \in Goals : Met(x, d)' => Met(x, d)
  BY <1>1 DEF Met
<1>13. /\ \A x, d \in Goals : Asked(x, d)' /\ (Pending(x, d)' => Pending(x, d))
       /\ \A x \in Goals : HasRun(x)'
  BY <1>1, <1>11, <1>12, QuietStep
<1>14. ASSUME NEW x \in Goals PROVE Answered(x)' /\ Recorded(x)'
  <2>1. Answered(x)'
    BY <1>1, <1>13, AnsweredStays DEF RecordInv, Through
  <2>2. CASE x = g
    BY <1>1, <1>3, <1>6, <1>8, <2>1, <2>2 DEF Recorded
  <2>3. CASE x # g
    <3>1. agentBox'[x] = agentBox[x] /\ \A i \in RunIds : rows[i].goal = x => rows'[i] = rows[i]
      BY <1>3, <1>5, <1>10, <2>3
    <3>2. Recorded(x)
      BY DEF RecordInv
    <3>. QED  BY <1>1, <1>6, <2>1, <3>1, <3>2, RecordedStays
  <2>. QED  BY <2>2, <2>3
<1>. QED  BY <1>13, <1>14 DEF RecordInv

\* A Satisfy goes from the agent's mailbox to the prover's.
LEMMA AgentPassesSatisfy ==
  ASSUME Inv, RecordInv, NEW g \in Goals, AgentSatisfy(g)
  PROVE  RecordInv'
<1>. DEFINE h == Head(agentBox[g])
            m == Satisfy(h.from, NewId(rows), h.parent)
<1>1. /\ Receive(agentBox, g) /\ h.type = "Satisfy"
      /\ agentBox' = Without(agentBox, g)
      /\ proverBox' = [proverBox EXCEPT ![g] = Append(@, m)]
      /\ runID' = [runID EXCEPT ![g] = NewId(rows)]
      /\ UNCHANGED <<state, proverRun, listeners, heard, succeeded, jobs, checks>>
  BY DEF AgentSatisfy, PassesSatisfy, OpensRow, workVars
<1>2. /\ RunIds \subseteq RunIds' /\ \A i \in RunIds : rows'[i] = rows[i]
      /\ NewId(rows) \in Ids /\ NewId(rows) # NoRun
  BY DEF AgentSatisfy, PassesSatisfy, OpensRow, StartRun, NewId, Ids, Inv, TypeOK, RunIds
<1>3. /\ DOMAIN agentBox = Goals /\ DOMAIN proverBox = Goals
      /\ \A d \in Goals : agentBox[d] \in Seq(AgentMail(d)) /\ proverBox[d] \in Seq(ProverMail(d))
  BY DEF Inv, Mailboxes
<1>4. \A d \in Goals : /\ agentBox'[d] = IF d = g THEN Tail(agentBox[g]) ELSE agentBox[d]
                      /\ proverBox'[d] = IF d = g THEN Append(proverBox[g], m) ELSE proverBox[d]
  BY <1>1, <1>3 DEF Without
<1>5. /\ agentBox[g] # <<>> /\ h \in AgentMail(g)
      /\ h.from \in Asking /\ h.parent \in Ids
  <2>1. MaybeRun \subseteq Ids
    BY DEF MaybeRun, RunIds, Ids, Inv, TypeOK
  <2>. QED  BY <1>1, <2>1, AgentHead DEF Receive, Inv
<1>6. /\ \A x : h \in Requests(x) <=> x = h.from
      /\ \A x : h \notin Outcomes(x)
  <2>1. /\ \A r : h \in Requests(r) <=> h.type = "Satisfy" /\ h.from = r
        /\ \A d : h \in Outcomes(d) <=> h.type \in {"GoalSuccess", "GoalFailure"} /\ h.from = d
    BY <1>5, MailKinds
  <2>. QED  BY <1>1, <2>1
<1>7. /\ \A x : m \in Requests(x) <=> x = h.from
      /\ \A x : m \notin Outcomes(x)
  <2>1. ASSUME NEW r \in Asking, NEW a \in Ids, NEW b \in Ids
        PROVE  /\ \A x : Satisfy(r, a, b) \in Requests(x) <=> x = r
               /\ \A x : Satisfy(r, a, b) \notin Outcomes(x)
    BY SentKinds
  <2>. HIDE DEF h
  <2>. QED  BY <1>2, <1>5, <2>1
<1>. HIDE DEF h, m
<1>8. ASSUME NEW x \in Goals, NEW d \in Goals PROVE Met(x, d)' => Met(x, d)
  <2>1. Has(Append(proverBox[x], m), Outcomes(d)) <=> Has(proverBox[x], Outcomes(d))
    BY <1>3, <1>7, LongerQueue
  <2>2. Has(proverBox'[x], Outcomes(d)) => Has(proverBox[x], Outcomes(d))
    BY <1>4, <2>1
  <2>. QED  BY <1>1, <2>2 DEF Met
<1>9. ASSUME NEW x \in Goals, NEW d \in Goals
      PROVE  Asked(x, d)' /\ (Pending(x, d)' => Pending(x, d))
  <2>1. Asked(x, d)
    BY DEF RecordInv
  <2>2. /\ Has(Tail(agentBox[g]), Requests(x)) => Has(agentBox[g], Requests(x))
        /\ h \in Requests(x) => Has(agentBox[g], Requests(x))
        /\ One(agentBox[g], Requests(x)) => One(Tail(agentBox[g]), Requests(x))
        /\ One(agentBox[g], Requests(x)) /\ h \in Requests(x) => ~Has(Tail(agentBox[g]), Requests(x))
    BY <1>3, <1>5, ShorterQueue DEF h
  <2>3. /\ Has(Append(proverBox[g], m), Requests(x)) <=> Has(proverBox[g], Requests(x)) \/ m \in Requests(x)
        /\ One(proverBox[g], Requests(x)) /\ (m \in Requests(x) => ~Has(proverBox[g], Requests(x)))
             => One(Append(proverBox[g], m), Requests(x))
    BY <1>3, LongerQueue
  <2>4. m \in Requests(x) <=> h \in Requests(x)
    BY <1>6, <1>7
  <2>5. Pending(x, d)' => Pending(x, d)
    BY <1>4, <2>2, <2>3, <2>4 DEF Pending
  <2>6. Met(x, d)' => Met(x, d)
    BY <1>8
  <2>7. /\ One(agentBox'[d], Requests(x)) /\ One(proverBox'[d], Requests(x))
        /\ ~(Has(agentBox'[d], Requests(x)) /\ Has(proverBox'[d], Requests(x)))
    <3>1. CASE d # g
      BY <1>4, <2>1, <3>1 DEF Asked
    <3>2. CASE d = g
      <4>1. agentBox'[d] = Tail(agentBox[g]) /\ proverBox'[d] = Append(proverBox[g], m)
        BY <1>4, <3>2
      <4>. QED  BY <2>1, <2>2, <2>3, <2>4, <3>2, <4>1 DEF Asked
    <3>. QED  BY <3>1, <3>2
  <2>. QED  BY <1>1, <2>1, <2>5, <2>6, <2>7 DEF Asked
<1>10. ASSUME NEW x \in Goals PROVE Answered(x)' /\ HasRun(x)' /\ Recorded(x)'
  <2>1. Answered(x)'
    BY <1>1, <1>9, AnsweredStays DEF RecordInv, Through
  <2>2. HasRun(x)'
    <3>1. CASE x = g
      BY <1>1, <1>2, <3>1 DEF HasRun, Inv, TypeOK
    <3>2. CASE x # g
      <4>1. runID'[x] = runID[x] /\ proverBox'[x] = proverBox[x] /\ state'[x] = state[x]
        BY <1>1, <1>4, <3>2 DEF Inv, TypeOK
      <4>. QED  BY <4>1 DEF RecordInv, HasRun
    <3>. QED  BY <3>1, <3>2
  <2>3. Has(agentBox[x], Outcomes(x)) => Has(agentBox'[x], Outcomes(x))
    <3>1. Has(agentBox[g], Outcomes(g)) => Has(Tail(agentBox[g]), Outcomes(g))
      BY <1>3, <1>5, <1>6, ShorterQueue DEF h
    <3>. QED  BY <1>4, <3>1
  <2>4. Recorded(x)
    BY DEF RecordInv
  <2>5. Recorded(x)'
    BY <1>1, <1>2, <2>3, <2>4, RecordedStays
  <2>. QED  BY <2>1, <2>2, <2>5
<1>. QED  BY <1>9, <1>10 DEF RecordInv
-----------------------------------------------------------------------------
\* A prover that has not been asked yet has asked nobody, and asks each of its
\* dependencies once.
LEMMA FirstAsks ==
  ASSUME Inv, RecordInv, NEW g \in Goals, ProverFirstSatisfy(g)
  PROVE  RecordInv'
<1>. DEFINE m == Head(proverBox[g])
            q == Satisfy(g, NoRun, m.run)
<1>1. /\ Receive(proverBox, g) /\ m.type = "Satisfy" /\ state[g] = "Unstarted"
      /\ proverBox' = Without(proverBox, g)
      /\ listeners' = [listeners EXCEPT ![g] = @ \cup {m.from}]
      /\ UNCHANGED <<rows, runID, heard>>
  BY DEF ProverFirstSatisfy, TakesUp
<1>2. /\ DOMAIN agentBox = Goals /\ DOMAIN proverBox = Goals
      /\ \A d \in Goals : agentBox[d] \in Seq(AgentMail(d)) /\ proverBox[d] \in Seq(ProverMail(d))
  BY DEF Inv, Mailboxes
<1>3. /\ proverBox[g] # <<>> /\ m \in ProverMail(g)
      /\ m.from \in Asking /\ m.run \in Ids
  <2>1. RunIds \subseteq Ids
    BY DEF RunIds, Ids, Inv, TypeOK
  <2>. QED  BY <1>1, <1>2, <2>1, ProverHead DEF Receive, Inv
<1>4. /\ \A x : m \in Requests(x) <=> x = m.from
      /\ m \in Satisfies /\ \A x : m \notin Outcomes(x)
  <2>1. /\ \A r : m \in Requests(r) <=> m.type = "Satisfy" /\ m.from = r
        /\ m \in Satisfies <=> m.type = "Satisfy"
        /\ \A d : m \in Outcomes(d) <=> m.type \in {"GoalSuccess", "GoalFailure"} /\ m.from = d
    BY <1>3, MailKinds
  <2>. QED  BY <1>1, <2>1
<1>5. /\ \A x : q \in Requests(x) <=> x = g
      /\ \A x : q \notin Outcomes(x)
  <2>1. ASSUME NEW r \in Asking, NEW a \in Ids, NEW b \in Ids
        PROVE  /\ \A x : Satisfy(r, a, b) \in Requests(x) <=> x = r
               /\ \A x : Satisfy(r, a, b) \notin Outcomes(x)
    BY SentKinds
  <2>2. g \in Asking /\ NoRun \in Ids
    BY DEF Asking, Ids
  <2>. HIDE DEF m
  <2>. QED  BY <1>3, <2>1, <2>2
<1>6. \A d \in Goals :
        /\ proverBox'[d] = IF d = g THEN Tail(proverBox[g]) ELSE proverBox[d]
        /\ agentBox'[d] = IF d \in Dependencies[g] THEN Append(agentBox[d], q) ELSE agentBox[d]
        /\ listeners'[d] = IF d = g THEN listeners[g] \cup {m.from} ELSE listeners[d]
        /\ d # g => state'[d] = state[d] /\ jobs'[d] = jobs[d] /\ checks'[d] = checks[d]
  <2>1. \A d \in Goals :
          /\ proverBox'[d] = IF d = g THEN Tail(proverBox[g]) ELSE proverBox[d]
          /\ agentBox'[d] = IF d \in Dependencies[g] THEN Append(agentBox[d], q) ELSE agentBox[d]
          /\ listeners'[d] = IF d = g THEN listeners[g] \cup {m.from} ELSE listeners[d]
    BY <1>1, <1>2 DEF ProverFirstSatisfy, Without, Inv, TypeOK
  <2>2. \A d \in Goals : d # g => /\ state'[d] = state[d]
                                 /\ jobs'[d] = jobs[d] /\ checks'[d] = checks[d]
    BY DEF ProverFirstSatisfy, RunsJob, ChecksEvidence, workVars, Inv, TypeOK
  <2>. QED  BY <2>1, <2>2
<1>7. /\ state'[g] \in {"WaitingOnDependencies", "CheckingEvidence", "Running"}
      /\ Dependencies[g] # {} => /\ state'[g] = "WaitingOnDependencies"
                                 /\ jobs'[g] = jobs[g] /\ checks'[g] = checks[g]
  BY DEF ProverFirstSatisfy, RunsJob, ChecksEvidence, workVars, Inv, TypeOK
<1>. HIDE DEF m, q
<1>8. ASSUME NEW x \in Goals, NEW d \in Goals
      PROVE  /\ Asked(x, d)
             /\ Has(Tail(proverBox[g]), Requests(x)) => Has(proverBox[g], Requests(x))
             /\ m \in Requests(x) => Has(proverBox[g], Requests(x))
             /\ One(proverBox[g], Requests(x)) => One(Tail(proverBox[g]), Requests(x))
             /\ One(proverBox[g], Requests(x)) /\ m \in Requests(x)
                  => ~Has(Tail(proverBox[g]), Requests(x))
             /\ Has(Tail(proverBox[g]), Outcomes(d)) => Has(proverBox[g], Outcomes(d))
             /\ Has(Append(agentBox[d], q), Requests(x)) <=> Has(agentBox[d], Requests(x)) \/ x = g
             /\ One(agentBox[d], Requests(x)) /\ (x = g => ~Has(agentBox[d], Requests(x)))
                  => One(Append(agentBox[d], q), Requests(x))
             /\ Has(Append(agentBox[d], q), Outcomes(x)) <=> Has(agentBox[d], Outcomes(x))
  <2>1. Asked(x, d)
    BY DEF RecordInv
  <2>2. \A M : /\ Has(Tail(proverBox[g]), M) => Has(proverBox[g], M)
               /\ m \in M => Has(proverBox[g], M)
               /\ One(proverBox[g], M) => One(Tail(proverBox[g]), M)
               /\ One(proverBox[g], M) /\ m \in M => ~Has(Tail(proverBox[g]), M)
    BY <1>2, <1>3, ShorterQueue DEF m
  <2>3. \A M : /\ Has(Append(agentBox[d], q), M) <=> Has(agentBox[d], M) \/ q \in M
               /\ One(agentBox[d], M) /\ (q \in M => ~Has(agentBox[d], M))
                    => One(Append(agentBox[d], q), M)
    BY <1>2, LongerQueue
  <2>. QED  BY <1>5, <2>1, <2>2, <2>3
<1>9. ASSUME NEW d \in Goals PROVE ~Pending(g, d) /\ ~Met(g, d)
  BY <1>1, <1>8 DEF Asked
<1>10. m.from # g
  BY <1>4, <1>8, <1>9 DEF Pending
<1>11. ASSUME NEW d \in Goals PROVE Asked(g, d)' /\ ~Met(g, d)'
  <2>1. ~Met(g, d)'
    BY <1>1, <1>6, <1>8, <1>9, <1>10 DEF Met
  <2>2. ~Has(proverBox'[d], Requests(g))
    BY <1>6, <1>8, <1>9 DEF Pending
  <2>3. /\ Has(agentBox'[d], Requests(g)) => d \in Dependencies[g]
        /\ One(agentBox'[d], Requests(g))
    <3>1. ~Has(agentBox[d], Requests(g)) /\ One(agentBox[d], Requests(g))
      BY <1>8, <1>9 DEF Pending, Asked
    <3>. QED  BY <1>6, <1>8, <3>1
  <2>4. One(proverBox'[d], Requests(g))
    BY <2>2 DEF One, Has
  <2>5. state'[g] # "Unstarted"
    BY <1>7
  <2>. QED  BY <2>1, <2>2, <2>3, <2>4, <2>5 DEF Asked, Pending
<1>12. ASSUME NEW x \in Goals, x # g, NEW d \in Goals
       PROVE  Asked(x, d)' /\ (Pending(x, d)' => Pending(x, d))
  <2>1. /\ Has(agentBox'[d], Requests(x)) <=> Has(agentBox[d], Requests(x))
        /\ One(agentBox[d], Requests(x)) => One(agentBox'[d], Requests(x))
    BY <1>6, <1>8, <1>12
  <2>2. /\ Has(proverBox'[d], Requests(x)) => Has(proverBox[d], Requests(x))
        /\ One(proverBox[d], Requests(x)) => One(proverBox'[d], Requests(x))
    BY <1>6, <1>8
  <2>3. Asked(x, d)
    BY <1>8
  <2>4. Met(x, d)' => Met(x, d) \/ (Pending(x, d) /\ ~Pending(x, d)')
    <3>1. CASE x \in listeners[d] \/ x \notin listeners'[d]
      BY <1>1, <1>6, <1>12, <3>1 DEF Met
    <3>2. CASE x \notin listeners[d] /\ x \in listeners'[d]
      <4>1. d = g /\ x = m.from
        BY <1>6, <3>2
      <4>2. m \in Requests(x)
        BY <1>4, <4>1
      <4>3. Has(proverBox[d], Requests(x)) /\ ~Has(proverBox'[d], Requests(x))
        BY <1>6, <1>8, <2>3, <4>1, <4>2 DEF Asked
      <4>4. ~Has(agentBox'[d], Requests(x))
        BY <2>1, <2>3, <4>3 DEF Asked
      <4>. QED  BY <4>3, <4>4 DEF Pending
    <3>. QED  BY <3>1, <3>2
  <2>5. One(agentBox'[d], Requests(x)) /\ One(proverBox'[d], Requests(x))
    BY <2>1, <2>2, <2>3 DEF Asked
  <2>6. Pending(x, d)' => Pending(x, d)
    BY <2>1, <2>2 DEF Pending
  <2>. QED  BY <1>6, <1>12, <2>1, <2>2, <2>3, <2>4, <2>5, <2>6, AskedStays
<1>13. ASSUME NEW x \in Goals PROVE Answered(x)' /\ HasRun(x)' /\ Recorded(x)'
  <2>1. Answered(x)'
    <3>1. CASE x = g /\ Dependencies[g] = {}
      <4>1. \A d \in Goals : ~Pending(g, d)'
        BY <1>11, <3>1 DEF Asked
      <4>. QED  BY <1>7, <3>1, <4>1 DEF Answered
    <3>2. CASE x = g /\ Dependencies[g] # {}
      <4>1. jobs'[g] = 0 /\ checks'[g] = 0
        BY <1>1, <1>7, <3>2 DEF RecordInv, Answered
      <4>2. ~Through(g)'
        BY <1>7, <3>2, <4>1 DEF Through, Satisfied
      <4>. QED  BY <1>7, <3>2, <4>2 DEF Answered
    <3>3. CASE x # g
      BY <1>6, <1>12, <3>3, AnsweredStays DEF RecordInv, Through
    <3>. QED  BY <3>1, <3>2, <3>3
  <2>2. HasRun(x)'
    <3>1. CASE x = g
      <4>1. Has(proverBox[g], Satisfies)
        BY <1>2, <1>3, <1>4, ShorterQueue DEF m
      <4>. QED  BY <1>1, <3>1, <4>1 DEF RecordInv, HasRun
    <3>2. CASE x # g
      BY <1>1, <1>6, <3>2 DEF RecordInv, HasRun
    <3>. QED  BY <3>1, <3>2
  <2>3. Has(agentBox[x], Outcomes(x)) => Has(agentBox'[x], Outcomes(x))
    BY <1>6, <1>8
  <2>4. state'[x] = state[x] \/ state'[x] \notin Terminal
    BY <1>6, <1>7 DEF Terminal, Satisfied
  <2>5. Recorded(x)
    BY DEF RecordInv
  <2>6. RunIds' = RunIds /\ rows' = rows
    BY <1>1 DEF RunIds
  <2>7. Recorded(x)'
    BY <2>3, <2>4, <2>5, <2>6, RecordedStays
  <2>. QED  BY <2>1, <2>2, <2>7
<1>. QED  BY <1>11, <1>12, <1>13 DEF RecordInv

\* The box of the prover of g, one message taken, or as it was.
Taken(boxes) ==
  \A h \in Goals : \/ boxes[h] = proverBox[h]
                   \/ proverBox[h] # <<>> /\ boxes[h] = Tail(proverBox[h])

LEMMA TakenOne ==
  ASSUME Inv, NEW g \in Goals, Receive(proverBox, g)
  PROVE  /\ Taken(Without(proverBox, g)) /\ Taken(proverBox)
         /\ DOMAIN Without(proverBox, g) = Goals
         /\ Without(proverBox, g)[g] = Tail(proverBox[g])
  BY DEF Inv, Mailboxes, Taken, Without, Receive

\* Boxes of which at most one message is taken hold no more than before.
LEMMA TakenHas ==
  ASSUME Inv, NEW boxes, Taken(boxes), NEW h \in Goals, NEW M
  PROVE  /\ Has(boxes[h], M) => Has(proverBox[h], M)
         /\ \E S : boxes[h] \in Seq(S)
<1>1. proverBox[h] \in Seq(ProverMail(h))
  BY DEF Inv, Mailboxes
<1>2. CASE boxes[h] = proverBox[h]
  BY <1>1, <1>2
<1>3. CASE proverBox[h] # <<>> /\ boxes[h] = Tail(proverBox[h])
  <2>1. Tail(proverBox[h]) \in Seq(ProverMail(h))
    BY <1>1, <1>3
  <2>. QED  BY <1>1, <1>3, <2>1, ShorterQueue
<1>. QED  BY <1>2, <1>3 DEF Taken

\* What is said at the head of a prover's box.
LEMMA HeadSays ==
  ASSUME Inv, RecordInv, NEW g \in Goals, Receive(proverBox, g)
  PROVE  LET m == Head(proverBox[g]) IN
         /\ m.type = "Satisfy" /\ m.from \in Goals =>
                                  /\ Has(proverBox[g], Requests(m.from))
                                  /\ ~Has(Tail(proverBox[g]), Requests(m.from))
                                  /\ ~Has(agentBox[g], Requests(m.from))
         /\ m.type \in {"GoalSuccess", "GoalFailure"} =>
              /\ m.from \in Dependencies[g] /\ state[g] # "Unstarted"
              /\ Met(g, m.from)
<1>. DEFINE m == Head(proverBox[g])
<1>1. /\ proverBox[g] \in Seq(ProverMail(g)) /\ proverBox[g] # <<>> /\ m \in ProverMail(g)
  BY DEF Inv, Mailboxes, Receive
<1>2. /\ \A r : m \in Requests(r) <=> m.type = "Satisfy" /\ m.from = r
      /\ \A d : m \in Outcomes(d) <=> m.type \in {"GoalSuccess", "GoalFailure"} /\ m.from = d
  BY <1>1, MailKinds
<1>3. \A M : /\ m \in M => Has(proverBox[g], M)
             /\ One(proverBox[g], M) /\ m \in M => ~Has(Tail(proverBox[g]), M)
  BY <1>1, ShorterQueue
<1>. HIDE DEF m
<1>4. ASSUME m.type = "Satisfy", m.from \in Goals
      PROVE  /\ Has(proverBox[g], Requests(m.from))
             /\ ~Has(Tail(proverBox[g]), Requests(m.from))
             /\ ~Has(agentBox[g], Requests(m.from))
  <2>1. Asked(m.from, g)
    BY <1>4 DEF RecordInv
  <2>2. m \in Requests(m.from)
    BY <1>2, <1>4
  <2>. QED  BY <1>3, <2>1, <2>2 DEF Asked
<1>5. ASSUME m.type \in {"GoalSuccess", "GoalFailure"}
      PROVE  m.from \in Dependencies[g] /\ state[g] # "Unstarted" /\ Met(g, m.from)
  <2>1. m.from \in Goals
    BY <1>5, ProverHead DEF Inv, m
  <2>2. Asked(g, m.from)
    BY <2>1 DEF RecordInv
  <2>3. Has(proverBox[g], Outcomes(m.from))
    BY <1>2, <1>3, <1>5
  <2>. QED  BY <2>2, <2>3 DEF Asked, Met
<1>. QED  BY <1>4, <1>5 DEF m

\* A message is taken and nobody is told.
LEMMA ProverTakes ==
  ASSUME Inv, RecordInv, NEW g \in Goals, Taken(proverBox'),
         UNCHANGED <<rows, runID, agentBox, listeners>>,
         \/ state' = state
         \/ /\ state[g] # "Unstarted"
            /\ \E st \in {"Running", "CheckingEvidence", "WaitingOnDependencies"} :
                 state' = [state EXCEPT ![g] = st],
         \A x, d \in Goals : d \in heard'[x] => Met(x, d),
         \A x \in Goals :
           /\ Through(x)' => Through(x) \/ \A d \in Goals : ~Pending(x, d)
           /\ \/ state[x] # "Unstarted"
              \/ jobs'[x] = jobs[x] /\ checks'[x] = checks[x]
  PROVE  RecordInv'
<1>2. RestartJob \notin Satisfies /\ RestartJob \notin Asks
  BY DEF RestartJob, Satisfies, Asks
<1>3. ASSUME NEW d \in Goals
      PROVE  /\ Quiet(agentBox[d], agentBox'[d], Asks)
             /\ Quiet(proverBox[d], proverBox'[d], Satisfies)
             /\ state[d] # "Unstarted" <=> state'[d] # "Unstarted"
  <2>1. Quiet(agentBox[d], agentBox'[d], Asks)
    BY <1>2 DEF Quiet
  <2>2. Quiet(proverBox[d], proverBox'[d], Satisfies)
    <3>1. \/ proverBox'[d] = proverBox[d]
          \/ proverBox[d] # <<>> /\ proverBox'[d] = Tail(proverBox[d])
      BY DEF Taken
    <3>. QED  BY <1>2, <3>1 DEF Quiet
  <2>. QED  BY <2>1, <2>2 DEF Inv, TypeOK
<1>4. ASSUME NEW x \in Goals, NEW d \in Goals PROVE Met(x, d)' => Met(x, d)
  <2>1. Has(proverBox'[x], Outcomes(d)) => Has(proverBox[x], Outcomes(d))
    BY TakenHas
  <2>. QED  BY <2>1 DEF Met
<1>5. /\ \A x, d \in Goals : Asked(x, d)' /\ (Pending(x, d)' => Pending(x, d))
      /\ \A x \in Goals : HasRun(x)'
  BY <1>3, <1>4, QuietStep
<1>6. ASSUME NEW x \in Goals PROVE Answered(x)' /\ Recorded(x)'
  <2>1. state'[x] = state[x] \/ state'[x] \notin Terminal
    BY DEF Inv, TypeOK, Terminal, Satisfied
  <2>2. Recorded(x)'
    BY <2>1, RecordedStays DEF RecordInv, RunIds
  <2>3. \/ state'[x] # "Unstarted"
        \/ state'[x] = state[x] /\ jobs'[x] = jobs[x] /\ checks'[x] = checks[x]
    BY <1>3
  <2>4. Answered(x)'
    BY <1>5, <2>3, AnsweredStays DEF RecordInv
  <2>. QED  BY <2>2, <2>4
<1>. QED  BY <1>5, <1>6 DEF RecordInv

\* The prover tells its agent, which has to record it, and those who listen, one
\* of whom may be who has just asked.
LEMMA ProverPublishes ==
  ASSUME Inv, RecordInv, NEW g \in Goals, NEW o \in Terminal, NEW boxes,
         Taken(boxes), Publish(g, o, boxes), state[g] # "Unstarted" \/ runID[g] # NoRun,
         UNCHANGED <<rows, runID>>,
         \A x, d \in Goals : x \in listeners'[d] =>
           x \in listeners[d] \/ (Pending(x, d) /\ ~Pending(x, d)'),
         \A x, d \in Goals : d \in heard'[x] => Met(x, d),
         \A x \in Goals :
           /\ Through(x)' => Through(x) \/ \A d \in Goals : ~Pending(x, d)
           /\ x # g => jobs'[x] = jobs[x] /\ checks'[x] = checks[x]
  PROVE  RecordInv'
<1>. DEFINE m == OutcomeOf(g, o)
<1>1. /\ DOMAIN agentBox = Goals
      /\ \A d \in Goals : agentBox[d] \in Seq(AgentMail(d)) /\ proverBox[d] \in Seq(ProverMail(d))
  BY DEF Inv, Mailboxes
<1>2. \A d \in Goals :
        /\ agentBox'[d] = IF d = g THEN Append(agentBox[g], m) ELSE agentBox[d]
        /\ proverBox'[d] = IF d \in listeners'[g] THEN Append(boxes[d], m) ELSE boxes[d]
        /\ state'[d] = IF d = g THEN o ELSE state[d]
  BY <1>1 DEF Publish, Inv, TypeOK
<1>3. /\ m \notin Satisfies /\ m \notin Asks
      /\ \A x : m \in Outcomes(x) <=> x = g
  BY SentKinds DEF Asks, Asking, Ids
<1>. HIDE DEF m
<1>4. ASSUME NEW d \in Goals
      PROVE  /\ Quiet(agentBox[d], agentBox'[d], Asks)
             /\ Quiet(proverBox[d], proverBox'[d], Satisfies)
             /\ state[d] # "Unstarted" => state'[d] # "Unstarted"
             /\ state'[d] # "Unstarted" => state[d] # "Unstarted" \/ runID[d] # NoRun
  <2>1. Quiet(agentBox[d], agentBox'[d], Asks)
    BY <1>2, <1>3 DEF Quiet
  <2>2. Quiet(proverBox[d], proverBox'[d], Satisfies)
    <3>1. \/ boxes[d] = proverBox[d]
          \/ proverBox[d] # <<>> /\ boxes[d] = Tail(proverBox[d])
      BY DEF Taken
    <3>2. proverBox'[d] = boxes[d] \/ proverBox'[d] = Append(boxes[d], m)
      BY <1>2
    <3>. QED  BY <1>3, <3>1, <3>2 DEF Quiet
  <2>3. /\ state[d] # "Unstarted" => state'[d] # "Unstarted"
        /\ state'[d] # "Unstarted" => state[d] # "Unstarted" \/ runID[d] # NoRun
    BY <1>2 DEF Terminal, Satisfied
  <2>. QED  BY <2>1, <2>2, <2>3
<1>5. ASSUME NEW x \in Goals, NEW d \in Goals
      PROVE  Met(x, d)' => Met(x, d) \/ (Pending(x, d) /\ ~Pending(x, d)')
  <2>1. /\ Has(boxes[x], Outcomes(d)) => Has(proverBox[x], Outcomes(d))
        /\ Has(Append(boxes[x], m), Outcomes(d)) <=> Has(boxes[x], Outcomes(d)) \/ m \in Outcomes(d)
    <3>1. PICK S : boxes[x] \in Seq(S)
      BY TakenHas
    <3>2. Has(Append(boxes[x], m), Outcomes(d)) <=> Has(boxes[x], Outcomes(d)) \/ m \in Outcomes(d)
      BY <3>1, LongerQueue
    <3>. QED  BY <3>2, TakenHas
  <2>2. Has(proverBox'[x], Outcomes(d)) => Has(proverBox[x], Outcomes(d)) \/ x \in listeners'[d]
    BY <1>2, <1>3, <2>1
  <2>. QED  BY <2>2 DEF Met
<1>6. /\ \A x, d \in Goals : Asked(x, d)' /\ (Pending(x, d)' => Pending(x, d))
      /\ \A x \in Goals : HasRun(x)'
  BY <1>4, <1>5, QuietStep
<1>7. ASSUME NEW x \in Goals PROVE Answered(x)' /\ Recorded(x)'
  <2>1. Recorded(x)'
    <3>1. CASE x = g
      <4>1. Has(agentBox'[g], Outcomes(g))
        BY <1>1, <1>2, <1>3, LongerQueue
      <4>. QED  BY <3>1, <4>1 DEF Recorded
    <3>2. CASE x # g
      <4>1. agentBox'[x] = agentBox[x] /\ state'[x] = state[x]
        BY <1>2, <3>2
      <4>. QED  BY <4>1, RecordedStays DEF RecordInv, RunIds
    <3>. QED  BY <3>1, <3>2
  <2>2. \/ state'[x] # "Unstarted"
        \/ state'[x] = state[x] /\ jobs'[x] = jobs[x] /\ checks'[x] = checks[x]
    BY <1>2 DEF Terminal, Satisfied
  <2>3. Answered(x)'
    BY <1>6, <2>2, AnsweredStays DEF RecordInv
  <2>. QED  BY <2>1, <2>3
<1>. QED  BY <1>6, <1>7 DEF RecordInv

\* The first Satisfy is answered at once when what it takes cannot be had, and
\* nobody has been asked.
LEMMA FirstThrows ==
  ASSUME Inv, RecordInv, NEW g \in Goals, ProverFirstSatisfyThrows(g)
  PROVE  RecordInv'
<1>. DEFINE m == Head(proverBox[g])
            rest == Without(proverBox, g)
            o == OutcomeOf(g, "Failed")
<1>1. /\ Receive(proverBox, g) /\ m.type = "Satisfy" /\ state[g] = "Unstarted"
      /\ listeners' = [listeners EXCEPT ![g] = @ \cup {m.from}]
      /\ UNCHANGED <<rows, runID, heard, jobs, checks>>
      /\ Publish(g, "Failed", rest)
  BY DEF ProverFirstSatisfyThrows, TakesUp, workVars
<1>2. /\ Taken(rest) /\ DOMAIN rest = Goals /\ rest[g] = Tail(proverBox[g])
  BY <1>1, TakenOne
<1>3. m.from \in Goals => /\ Has(proverBox[g], Requests(m.from))
                          /\ ~Has(rest[g], Requests(m.from))
                          /\ ~Has(agentBox[g], Requests(m.from))
  BY <1>1, <1>2, HeadSays
<1>4. m \in Satisfies /\ proverBox[g] \in Seq(ProverMail(g)) /\ proverBox[g] # <<>>
  <2>1. m \in ProverMail(g)
    BY <1>1 DEF Inv, Mailboxes, Receive
  <2>. QED  BY <1>1, <2>1, MailKinds DEF Inv, Mailboxes, Receive
<1>5. runID[g] # NoRun
  <2>1. Has(proverBox[g], Satisfies)
    BY <1>4, ShorterQueue
  <2>. QED  BY <2>1 DEF RecordInv, HasRun
<1>6. /\ \A x : o \notin Requests(x)
      /\ DOMAIN agentBox = Goals /\ agentBox[g] \in Seq(AgentMail(g))
  BY SentKinds DEF Asking, Ids, Inv, Mailboxes
<1>. HIDE DEF m, o, rest
<1>7. ASSUME NEW x \in Goals, x = m.from PROVE Pending(x, g) /\ ~Pending(x, g)'
  <2>1. proverBox'[g] = rest[g] \/ proverBox'[g] = Append(rest[g], o)
    BY <1>1, <1>2 DEF Publish, o
  <2>2. agentBox'[g] = Append(agentBox[g], o)
    BY <1>1, <1>6 DEF Publish, o
  <2>3. PICK S : rest[g] \in Seq(S)
    BY <1>2, TakenHas
  <2>4. /\ Has(Append(rest[g], o), Requests(x)) <=> Has(rest[g], Requests(x))
        /\ Has(Append(agentBox[g], o), Requests(x)) <=> Has(agentBox[g], Requests(x))
    BY <1>6, <2>3, LongerQueue
  <2>. QED  BY <1>3, <1>7, <2>1, <2>2, <2>4 DEF Pending
<1>8. \A x, d \in Goals : x \in listeners'[d] =>
        x \in listeners[d] \/ (Pending(x, d) /\ ~Pending(x, d)')
  BY <1>1, <1>7 DEF Inv, TypeOK
<1>9. \A d \in Goals : ~Pending(g, d)
  BY <1>1 DEF RecordInv, Asked
<1>10. \A x \in Goals : Through(x)' => Through(x) \/ \A d \in Goals : ~Pending(x, d)
  <2>1. \A x \in Goals : x # g => state'[x] = state[x]
    BY <1>1 DEF Publish, Inv, TypeOK
  <2>. QED  BY <1>1, <1>9, <2>1 DEF Through
<1>11. \A x, d \in Goals : d \in heard'[x] => Met(x, d)
  BY <1>1 DEF Met
<1>. QED  BY <1>1, <1>2, <1>5, <1>8, <1>10, <1>11, ProverPublishes DEF Terminal

\* A later Satisfy is answered only when its sender has no other question open.
LEMMA LaterAnswers ==
  ASSUME Inv, RecordInv, NEW g \in Goals, ProverLaterSatisfy(g)
  PROVE  RecordInv'
<1>. DEFINE m == Head(proverBox[g])
            rest == Without(proverBox, g)
            o == OutcomeOf(g, state[g])
<1>1. /\ Receive(proverBox, g) /\ m.type = "Satisfy" /\ state[g] # "Unstarted"
      /\ proverBox' = IF state[g] \in Terminal /\ m.from \in Goals
                      THEN [rest EXCEPT ![m.from] = Append(@, o)]
                      ELSE rest
      /\ listeners' = [listeners EXCEPT ![g] = @ \cup {m.from}]
      /\ UNCHANGED <<rows, agentBox, runID, state, heard, jobs, checks>>
  BY DEF ProverLaterSatisfy, agentVars, workVars
<1>2. /\ Taken(rest) /\ DOMAIN rest = Goals /\ rest[g] = Tail(proverBox[g])
  BY <1>1, TakenOne
<1>3. m.from \in Goals => /\ Has(proverBox[g], Requests(m.from))
                          /\ ~Has(rest[g], Requests(m.from))
                          /\ ~Has(agentBox[g], Requests(m.from))
  BY <1>1, <1>2, HeadSays
<1>4. /\ o \notin Satisfies /\ \A x : o \notin Requests(x)
      /\ \A x : o \in Outcomes(x) <=> x = g
  BY SentKinds DEF Asking, Ids
<1>. HIDE DEF m, o, rest
<1>5. ASSUME NEW d \in Goals
      PROVE  /\ proverBox'[d] = rest[d] \/ proverBox'[d] = Append(rest[d], o)
             /\ d # m.from => proverBox'[d] = rest[d]
             /\ listeners'[d] = IF d = g THEN listeners[g] \cup {m.from} ELSE listeners[d]
  BY <1>1, <1>2 DEF Inv, TypeOK
<1>6. ASSUME NEW d \in Goals, NEW M
      PROVE  /\ Has(rest[d], M) => Has(proverBox[d], M)
             /\ Has(proverBox'[d], M) => Has(rest[d], M) \/ (o \in M /\ d = m.from)
  <2>1. PICK S : rest[d] \in Seq(S)
    BY <1>2, TakenHas
  <2>2. Has(Append(rest[d], o), M) <=> Has(rest[d], M) \/ o \in M
    BY <2>1, LongerQueue
  <2>3. Has(rest[d], M) => Has(proverBox[d], M)
    BY <1>2, TakenHas
  <2>4. Has(proverBox'[d], M) => Has(rest[d], M) \/ (o \in M /\ d = m.from)
    BY <1>5, <2>2
  <2>. QED  BY <2>3, <2>4
<1>7. ASSUME NEW d \in Goals
      PROVE  /\ Quiet(agentBox[d], agentBox'[d], Asks)
             /\ Quiet(proverBox[d], proverBox'[d], Satisfies)
  <2>1. Quiet(agentBox[d], agentBox'[d], Asks)
    BY <1>1, <1>4 DEF Quiet, Asks
  <2>2. \/ rest[d] = proverBox[d]
        \/ proverBox[d] # <<>> /\ rest[d] = Tail(proverBox[d])
    BY <1>2 DEF Taken
  <2>3. proverBox'[d] = rest[d] \/ proverBox'[d] = Append(rest[d], o)
    BY <1>5
  <2>4. Quiet(proverBox[d], proverBox'[d], Satisfies)
    BY <1>4, <2>2, <2>3 DEF Quiet
  <2>. QED  BY <2>1, <2>4
<1>8. ASSUME NEW x \in Goals, NEW d \in Goals, Met(x, d)', ~Met(x, d)
      PROVE  Pending(x, d) /\ ~Pending(x, d)'
  <2>1. x = m.from /\ d = g
    <3>1. Has(proverBox'[x], Outcomes(d)) =>
            Has(proverBox[x], Outcomes(d)) \/ (x = m.from /\ d = g)
      BY <1>4, <1>6
    <3>. QED  BY <1>1, <1>5, <1>8, <3>1 DEF Met
  <2>2. ~Has(proverBox'[g], Requests(x))
    BY <1>3, <1>4, <1>6, <2>1
  <2>. QED  BY <1>1, <1>3, <2>1, <2>2 DEF Pending
<1>9. /\ \A x, d \in Goals : Asked(x, d)' /\ (Pending(x, d)' => Pending(x, d))
      /\ \A x \in Goals : HasRun(x)'
  BY <1>1, <1>7, <1>8, QuietStep
<1>10. ASSUME NEW x \in Goals PROVE Answered(x)' /\ Recorded(x)'
  <2>1. Answered(x)'
    BY <1>1, <1>9, AnsweredStays DEF RecordInv, Through
  <2>. QED  BY <1>1, <2>1 DEF RecordInv, Recorded, RunIds
<1>. QED  BY <1>9, <1>10 DEF RecordInv

\* What a prover has been told, it has heard from one that it asked.
LEMMA ProverHears ==
  ASSUME Inv, RecordInv, NEW g \in Goals, ProverGoalFailure(g) \/ ProverGoalSuccess(g)
  PROVE  RecordInv'
<1>. DEFINE m == Head(proverBox[g])
            rest == Without(proverBox, g)
<1>1. /\ Receive(proverBox, g) /\ m.type \in {"GoalSuccess", "GoalFailure"}
      /\ heard' = [heard EXCEPT ![g] = heard[g] \cup {m.from}]
  BY DEF ProverGoalFailure, ProverGoalSuccess
<1>2. /\ m.from \in Dependencies[g] /\ state[g] # "Unstarted"
      /\ Met(g, m.from)
  BY <1>1, HeadSays
<1>. HIDE DEF m
<1>3. \A x \in Goals : heard'[x] = IF x = g THEN heard[g] \cup {m.from} ELSE heard[x]
  BY <1>1 DEF Inv, TypeOK
<1>4. \A x, d \in Goals : d \in heard'[x] => Met(x, d)
  BY <1>2, <1>3 DEF Met
<1>5. CASE ProverGoalFailure(g)
  <2>1. /\ Publish(g, "DependencyFailed", rest)
        /\ UNCHANGED <<rows, runID, listeners, jobs, checks>>
    BY <1>5 DEF ProverGoalFailure, workVars
  <2>2. \A x \in Goals : Through(x)' => Through(x)
    <3>1. \A x \in Goals : state'[x] = IF x = g THEN "DependencyFailed" ELSE state[x]
      BY <2>1 DEF Publish, Inv, TypeOK
    <3>. QED  BY <2>1, <3>1 DEF Through, Satisfied
  <2>3. Taken(rest)
    BY <1>1, TakenOne
  <2>. HIDE DEF rest
  <2>. QED  BY <1>2, <1>4, <2>1, <2>2, <2>3, ProverPublishes DEF Terminal
<1>6. CASE ProverGoalSuccess(g)
  <2>1. /\ proverBox' = rest
        /\ \/ UNCHANGED <<state, jobs, checks>>
           \/ /\ heard[g] \cup {m.from} = Dependencies[g]
              /\ RunsJob(g) \/ ChecksEvidence(g)
        /\ UNCHANGED <<rows, runID, agentBox, listeners>>
    BY <1>6 DEF ProverGoalSuccess, agentVars, workVars, m
  <2>2. Taken(rest)
    BY <1>1, TakenOne
  <2>3. /\ \/ state' = state
           \/ \E st \in {"Running", "CheckingEvidence", "WaitingOnDependencies"} :
                state' = [state EXCEPT ![g] = st]
        /\ \A x \in Goals : x # g => /\ state'[x] = state[x] /\ jobs'[x] = jobs[x]
                                     /\ checks'[x] = checks[x]
    BY <2>1 DEF RunsJob, ChecksEvidence, Inv, TypeOK
  <2>4. heard[g] \cup {m.from} = Dependencies[g] => \A d \in Goals : ~Pending(g, d)
    <3>. SUFFICES ASSUME heard[g] \cup {m.from} = Dependencies[g], NEW d \in Goals, Pending(g, d)
                  PROVE  FALSE
      OBVIOUS
    <3>1. Asked(g, d)
      BY DEF RecordInv
    <3>2. d \in Dependencies[g] /\ ~Met(g, d)
      BY <3>1 DEF Asked
    <3>. QED  BY <1>2, <3>2 DEF Met
  <2>5. \A x \in Goals : /\ Through(x)' => Through(x) \/ \A d \in Goals : ~Pending(x, d)
                        /\ \/ state[x] # "Unstarted"
                           \/ jobs'[x] = jobs[x] /\ checks'[x] = checks[x]
    BY <1>2, <2>1, <2>3, <2>4 DEF Through
  <2>. HIDE DEF rest
  <2>. QED  BY <1>2, <1>4, <2>1, <2>2, <2>3, <2>5, ProverTakes
<1>. QED  BY <1>5, <1>6

LEMMA ProverRuns ==
  ASSUME Inv, RecordInv, NEW g \in Goals,
         ProverRestartJob(g) \/ JobRun(g) \/ EvidenceCheck(g)
  PROVE  RecordInv'
<1>1. \A x, d \in Goals : d \in heard[x] => Met(x, d)
  BY DEF Met
<1>2. Taken(proverBox)
  BY DEF Taken
<1>3. CASE ProverRestartJob(g)
  <2>1. /\ Receive(proverBox, g) /\ proverBox' = Without(proverBox, g)
        /\ \/ UNCHANGED <<state, jobs, checks>>
           \/ RunsJob(g) /\ state[g] = "Failed"
           \/ /\ state' = [state EXCEPT ![g] = "WaitingOnDependencies"]
              /\ state[g] = "DependencyFailed" /\ UNCHANGED <<jobs, checks>>
        /\ UNCHANGED <<rows, runID, agentBox, listeners, heard>>
    BY <1>3 DEF ProverRestartJob, agentVars, workVars
  <2>2. Taken(proverBox')
    BY <2>1, TakenOne
  <2>3. \/ state' = state
        \/ /\ state[g] # "Unstarted"
           /\ \E st \in {"Running", "CheckingEvidence", "WaitingOnDependencies"} :
                state' = [state EXCEPT ![g] = st]
    BY <2>1 DEF RunsJob
  <2>4. ASSUME NEW x \in Goals
        PROVE  /\ Through(x)' => Through(x)
               /\ \/ state[x] # "Unstarted"
                  \/ jobs'[x] = jobs[x] /\ checks'[x] = checks[x]
    <3>1. CASE UNCHANGED <<state, jobs, checks>>
      BY <3>1 DEF Through
    <3>2. CASE RunsJob(g) /\ state[g] = "Failed"
      <4>1. x # g => state'[x] = state[x] /\ jobs'[x] = jobs[x] /\ checks'[x] = checks[x]
        BY <3>2 DEF RunsJob, Inv, TypeOK
      <4>. QED  BY <3>2, <4>1 DEF Through
    <3>3. CASE /\ state' = [state EXCEPT ![g] = "WaitingOnDependencies"]
               /\ UNCHANGED <<jobs, checks>>
      <4>1. state'[x] = IF x = g THEN "WaitingOnDependencies" ELSE state[x]
        BY <3>3 DEF Inv, TypeOK
      <4>. QED  BY <3>3, <4>1 DEF Through, Satisfied
    <3>. QED  BY <2>1, <3>1, <3>2, <3>3
  <2>. QED  BY <1>1, <2>1, <2>2, <2>3, <2>4, ProverTakes
<1>4. ASSUME NEW o \in {"Success", "Failed"}, ProverJobRun(g, o) PROVE RecordInv'
  <2>1. /\ jobs[g] > 0 /\ Publish(g, o, proverBox) /\ jobs' = [jobs EXCEPT ![g] = @ - 1]
        /\ UNCHANGED <<rows, runID, listeners, heard, checks>>
    BY <1>4 DEF ProverJobRun
  <2>2. Through(g) /\ state[g] # "Unstarted"
    BY <2>1 DEF Through, RecordInv, Answered
  <2>3. \A x \in Goals : /\ Through(x)' => Through(x)
                         /\ x # g => jobs'[x] = jobs[x] /\ checks'[x] = checks[x]
    <3>1. ASSUME NEW x \in Goals, x # g
          PROVE  state'[x] = state[x] /\ jobs'[x] = jobs[x] /\ checks'[x] = checks[x]
      BY <2>1, <3>1 DEF Publish, Inv, TypeOK
    <3>. QED  BY <2>2, <3>1 DEF Through
  <2>4. o \in Terminal
    BY DEF Terminal, Satisfied
  <2>5. /\ UNCHANGED <<rows, runID>> /\ Publish(g, o, proverBox)
        /\ \A x, d \in Goals : x \in listeners'[d] => x \in listeners[d]
        /\ \A x, d \in Goals : d \in heard'[x] => Met(x, d)
    BY <1>1, <2>1
  <2>. QED  BY <1>2, <2>2, <2>3, <2>4, <2>5, ProverPublishes
<1>5. CASE EvidenceCheck(g)
  <2>1. /\ checks[g] > 0 /\ checks' = [checks EXCEPT ![g] = @ - 1]
        /\ jobs' = jobs \/ jobs' = [jobs EXCEPT ![g] = @ + 1]
        /\ UNCHANGED <<rows, runID, listeners, heard>>
    BY <1>5 DEF EvidenceCheck, EvidenceExists, EvidenceMissing, EvidenceThrows, CheckAnswers
  <2>2. Through(g) /\ state[g] # "Unstarted"
    BY <2>1 DEF Through, RecordInv, Answered
  <2>3. \A x \in Goals : x # g => jobs'[x] = jobs[x] /\ checks'[x] = checks[x]
    BY <2>1 DEF Inv, TypeOK
  <2>4. CASE \E o \in {"AlreadySatisfied", "Failed"} : Publish(g, o, proverBox)
    <3>1. PICK o \in {"AlreadySatisfied", "Failed"} : Publish(g, o, proverBox)
      BY <2>4
    <3>2. \A x \in Goals : Through(x)' => Through(x)
      BY <2>2, <2>3, <3>1 DEF Publish, Through, Inv, TypeOK
    <3>3. o \in Terminal
      BY DEF Terminal, Satisfied
    <3>. QED  BY <1>1, <1>2, <2>1, <2>2, <2>3, <3>1, <3>2, <3>3, ProverPublishes
  <2>5. CASE UNCHANGED <<proverBox, agentBox>> /\ state' \in {state, [state EXCEPT ![g] = "Running"]}
    <3>1. \A x \in Goals : Through(x)' => Through(x)
      BY <2>2, <2>3, <2>5 DEF Through, Inv, TypeOK
    <3>. QED  BY <1>1, <1>2, <2>1, <2>2, <2>3, <2>5, <3>1, ProverTakes
  <2>. QED  BY <1>5, <2>4, <2>5 DEF EvidenceCheck, EvidenceExists, EvidenceMissing, EvidenceThrows
<1>. QED  BY <1>3, <1>4, <1>5 DEF JobRun
-----------------------------------------------------------------------------
\* What comes from outside asks on behalf of no goal.
LEMMA WorldAsks ==
  ASSUME Inv, RecordInv, NEW g \in Goals, NEW m, m \notin Asks,
         agentBox' = [agentBox EXCEPT ![g] = Append(@, m)],
         UNCHANGED <<rows, runID, proverVars>>
  PROVE  RecordInv'
<1>1. /\ DOMAIN agentBox = Goals
      /\ \A d \in Goals : agentBox[d] \in Seq(AgentMail(d))
      /\ UNCHANGED <<rows, runID, state, listeners, heard, jobs, checks, proverBox>>
  BY DEF Inv, Mailboxes, proverVars, workVars
<1>2. ASSUME NEW d \in Goals
      PROVE  agentBox'[d] = agentBox[d] \/ agentBox'[d] = Append(agentBox[d], m)
  BY <1>1
<1>3. ASSUME NEW d \in Goals
      PROVE  /\ Quiet(agentBox[d], agentBox'[d], Asks)
             /\ Quiet(proverBox[d], proverBox'[d], Satisfies)
  <2>1. Quiet(agentBox[d], agentBox'[d], Asks)
    BY <1>2 DEF Quiet
  <2>2. RestartJob \notin Satisfies
    BY DEF RestartJob, Satisfies
  <2>3. Quiet(proverBox[d], proverBox'[d], Satisfies)
    BY <1>1, <2>2 DEF Quiet
  <2>. QED  BY <2>1, <2>3
<1>4. \A x, d \in Goals : Met(x, d)' => Met(x, d)
  BY <1>1 DEF Met
<1>5. /\ \A x, d \in Goals : Asked(x, d)' /\ (Pending(x, d)' => Pending(x, d))
      /\ \A x \in Goals : HasRun(x)'
  BY <1>1, <1>3, <1>4, QuietStep
<1>6. ASSUME NEW x \in Goals PROVE Answered(x)' /\ Recorded(x)'
  <2>1. Answered(x)'
    BY <1>1, <1>5, AnsweredStays DEF RecordInv, Through
  <2>2. Has(agentBox[x], Outcomes(x)) => Has(agentBox'[x], Outcomes(x))
    <3>1. Has(Append(agentBox[x], m), Outcomes(x)) <=> Has(agentBox[x], Outcomes(x)) \/ m \in Outcomes(x)
      BY <1>1, LongerQueue
    <3>. QED  BY <1>2, <3>1
  <2>3. Recorded(x)
    BY DEF RecordInv
  <2>4. RunIds' = RunIds
    BY <1>1 DEF RunIds
  <2>5. Recorded(x)'
    BY <1>1, <2>2, <2>3, <2>4, RecordedStays
  <2>. QED  BY <2>1, <2>5
<1>. QED  BY <1>5, <1>6 DEF RecordInv

\* A prover that is stopped has heard all it asked, and all have heard it.
LEMMA KillRecord ==
  ASSUME Inv, RecordInv, NEW g \in Goals, KillActor(g)
  PROVE  RecordInv'
<1>1. /\ state[g] \in Satisfied /\ agentBox[g] = <<>> /\ proverBox[g] = <<>>
      /\ UNCHANGED <<rows, agentBox, proverBox>>
  BY DEF KillActor
<1>2. ASSUME NEW x \in Goals
      PROVE  /\ state'[x] = IF x = g THEN "Unstarted" ELSE state[x]
             /\ runID'[x] = IF x = g THEN NoRun ELSE runID[x]
             /\ listeners'[x] = IF x = g THEN {} ELSE listeners[x] \ {g}
             /\ heard'[x] = IF x = g THEN {} ELSE heard[x]
             /\ jobs'[x] = IF x = g THEN 0 ELSE jobs[x]
             /\ checks'[x] = IF x = g THEN 0 ELSE checks[x]
  BY DEF KillActor, Inv, TypeOK
<1>3. \A M : ~Has(agentBox[g], M) /\ ~Has(proverBox[g], M)
  BY <1>1 DEF Has
<1>4. ASSUME NEW x \in Goals PROVE ~Has(proverBox[x], Outcomes(g))
  <2>1. proverBox[x] \in Seq(ProverMail(x))
    BY DEF Inv, Mailboxes
  <2>2. DOMAIN proverBox[x] = 1..Len(proverBox[x])
    BY <2>1
  <2>. QED  BY <2>2 DEF KillActor, Has
<1>5. ASSUME NEW d \in Goals PROVE Asked(g, d)'
  <2>1. Asked(g, d)
    BY DEF RecordInv
  <2>2. ~Pending(g, d)
    BY <1>1 DEF RecordInv, Answered, Through
  <2>3. ~Pending(g, d)' /\ ~Met(g, d)'
    BY <1>1, <1>2, <1>3, <2>2 DEF Pending, Met
  <2>. QED  BY <1>1, <2>1, <2>3 DEF Asked
<1>6. ASSUME NEW x \in Goals, x # g, NEW d \in Goals PROVE Asked(x, d)'
  <2>1. Asked(x, d)
    BY DEF RecordInv
  <2>2. Met(x, d)' => Met(x, d)
    BY <1>1, <1>2, <1>6 DEF Met
  <2>3. Pending(x, d)' <=> Pending(x, d)
    BY <1>1 DEF Pending
  <2>. QED  BY <1>1, <1>2, <1>6, <2>1, <2>2, <2>3 DEF Asked
<1>7. ASSUME NEW x \in Goals PROVE Answered(x)' /\ HasRun(x)' /\ Recorded(x)'
  <2>1. CASE x = g
    <3>1. /\ state'[x] = "Unstarted" /\ jobs'[x] = 0 /\ checks'[x] = 0
          /\ proverBox' = proverBox /\ ~Has(proverBox[x], Satisfies)
      BY <1>1, <1>2, <1>3, <2>1
    <3>2. Answered(x)'
      BY <3>1 DEF Answered, Through, Satisfied
    <3>3. HasRun(x)'
      BY <3>1 DEF HasRun
    <3>4. Recorded(x)'
      BY <3>1 DEF Recorded, Terminal, Satisfied
    <3>. QED  BY <3>2, <3>3, <3>4
  <2>2. CASE x # g
    <3>1. /\ state'[x] = state[x] /\ runID'[x] = runID[x] /\ heard'[x] = heard[x]
          /\ jobs'[x] = jobs[x] /\ checks'[x] = checks[x]
          /\ rows' = rows /\ agentBox' = agentBox /\ proverBox' = proverBox
      BY <1>1, <1>2, <2>2
    <3>2. Answered(x) /\ HasRun(x) /\ Recorded(x)
      BY DEF RecordInv
    <3>3. Answered(x)' /\ HasRun(x)'
      BY <3>1, <3>2 DEF Answered, Through, Pending, HasRun
    <3>4. Recorded(x)'
      BY <3>1, <3>2, RecordedStays DEF RunIds
    <3>. QED  BY <3>3, <3>4
  <2>. QED  BY <2>1, <2>2
<1>. QED  BY <1>5, <1>6, <1>7 DEF RecordInv

\* Actors that have done nothing yet, at the start and after a crash.
Fresh == \A x \in Goals : /\ state[x] = "Unstarted" /\ listeners[x] = {} /\ heard[x] = {}
                           /\ jobs[x] = 0 /\ checks[x] = 0
                           /\ agentBox[x] = <<>> /\ proverBox[x] = <<>>

LEMMA FreshRecord == Fresh => RecordInv
<1>1. SUFFICES ASSUME Fresh PROVE RecordInv
  OBVIOUS
<1>2. ASSUME NEW x \in Goals, NEW M
      PROVE  /\ ~Has(agentBox[x], M) /\ ~Has(proverBox[x], M)
             /\ One(agentBox[x], M) /\ One(proverBox[x], M)
  BY <1>1 DEF Fresh, Has, One
<1>3. ASSUME NEW x \in Goals, NEW d \in Goals PROVE Asked(x, d)
  BY <1>1, <1>2 DEF Fresh, Asked, Pending, Met
<1>4. ASSUME NEW x \in Goals PROVE Answered(x) /\ HasRun(x) /\ Recorded(x)
  BY <1>1, <1>2 DEF Fresh, Answered, Pending, HasRun, Recorded, Terminal, Satisfied
<1>. QED  BY <1>3, <1>4 DEF RecordInv

LEMMA CrashRecord == CrashProcess => RecordInv'
<1>1. Fresh' => RecordInv'
  BY FreshRecord, PTL
<1>2. CrashProcess => Fresh'
  BY DEF CrashProcess, Fresh
<1>. QED  BY <1>1, <1>2

LEMMA InitRecord == Init => RecordInv
<1>1. Init => Fresh
  BY DEF Init, Fresh
<1>. QED  BY <1>1, FreshRecord

LEMMA StepRecord == Inv /\ KeepsNewest /\ RecordInv /\ [Next]_vars => RecordInv'
<1>. SUFFICES ASSUME Inv, KeepsNewest, RecordInv, [Next]_vars PROVE RecordInv'
  OBVIOUS
<1>1. ASSUME NEW g \in Goals, AgentStep(g) PROVE RecordInv'
  BY <1>1, AgentPassesSatisfy, AgentPassesOn, AgentRecords DEF AgentStep
<1>2. ASSUME NEW g \in Goals, ProverStep(g) \/ JobRun(g) \/ EvidenceCheck(g) PROVE RecordInv'
  BY <1>2, FirstAsks, FirstThrows, LaterAnswers, ProverHears, ProverRuns DEF ProverStep
<1>3. ASSUME NEW g \in Goals, SatisfyGoal(g) \/ RestartGoal(g) \/ RetryTimer(g)
      PROVE  RecordInv'
  <2>1. /\ Satisfy(Client, NoRun, NoRun) \notin Asks
        /\ RestartJobInstance \notin Asks /\ RestartJob \notin Asks
    BY DEF Asks, Satisfies, Satisfy, RestartJobInstance, RestartJob
  <2>. QED  BY <1>3, <2>1, WorldAsks DEF SatisfyGoal, RestartGoal, RequestGoal, RetryTimer
<1>4. ASSUME NEW g \in Goals, KillActor(g) PROVE RecordInv'
  BY <1>4, KillRecord
<1>5. CASE CrashProcess
  BY <1>5, CrashRecord
<1>6. CASE UNCHANGED vars
  BY <1>6 DEF vars, agentVars, proverVars, workVars, RecordInv, Asked, Pending, Met, Answered,
              Through, HasRun, Recorded, RunIds
<1>. QED  BY <1>1, <1>2, <1>3, <1>4, <1>5, <1>6 DEF Next

\* Once its agent has handled what it was told, a goal that has ended has a row
\* that says how: the agent keeps a run from before the prover was first asked
\* until it is stopped, and it is stopped only when nobody will tell the prover
\* anything more.
THEOREM OutcomesRecorded == Spec => []OutcomeRecorded
<1>1. Inv /\ RecordInv => OutcomeRecorded
  <2>. SUFFICES ASSUME Inv, RecordInv, NEW g \in Goals, state[g] \in Terminal,
                       \A i \in DOMAIN agentBox[g] : agentBox[g][i] \notin Outcomes(g)
                PROVE  \E i \in RunIds : rows[i].goal = g /\ rows[i].ended /\ rows[i].state = state[g]
    BY DEF OutcomeRecorded
  <2>1. agentBox[g] \in Seq(AgentMail(g))
    BY DEF Inv, Mailboxes
  <2>2. DOMAIN agentBox[g] = 1..Len(agentBox[g])
    BY <2>1
  <2>3. ~Has(agentBox[g], Outcomes(g))
    BY <2>2 DEF Has
  <2>. QED  BY <2>3 DEF RecordInv, Recorded
<1>2. Inv /\ KeepsNewest /\ RecordInv /\ [Next]_vars => KeepsNewest' /\ RecordInv'
  BY StepNewest, StepRecord DEF WritesKept
<1>. QED  BY <1>1, <1>2, Invariant, InitKeepsNewest, InitRecord, PTL DEF Spec
=============================================================================

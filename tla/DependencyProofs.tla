--------------------------- MODULE DependencyProofs ---------------------------
(* No request between provers is lost: NoLostDependency of ProofEngine, for  *)
(* every set of goals, dependency map, bound and outcome.                    *)
EXTENDS ProofEngineProofs

-----------------------------------------------------------------------------
(* The invariant.  A goal that has asked its dependencies, as its state or   *)
(* some trace of a request of its shows, is owed the news of each.           *)
News == {"GoalSuccess", "GoalFailure"}
Waits(g) == state[g] \in {"WaitingOnDependencies", "DependencyFailed"}

Debt(g, d) ==
  \/ SatisfyQueued(g, d)
  \/ g \in listeners[d] /\ Unpublished(d)
  \/ NewsFrom(d, g)
  \/ \E s \in childStatus[g] : s[1] = d

HasAsked(g) ==
  \/ Waits(g)
  \/ \E d \in Goals : g \in listeners[d] \/ SatisfyQueued(g, d) \/ NewsFrom(d, g)

AllOwed ==
  \A g \in Goals \ Queried : incarnation[g] = 0 /\ HasAsked(g) =>
    \A d \in Children(g) : incarnation[d] = 0 => Debt(g, d)

LEMMA OwedImplies == AllOwed => NoLostDependency
  BY DEF AllOwed, HasAsked, Waits, Debt, NoLostDependency
-----------------------------------------------------------------------------
(* What one handler of g does, from the mailboxes box on.                    *)
AskedAll(g) == \A d \in Children(g) : SatisfyQueued(g, d)

\* What is new in a mailbox is g's request, with all the others, or g's news for
\* one of its listeners, or says nothing of dependencies.
Adds(g, box) ==
  \A h \in Goals : \A i \in 1..Len(mailbox'[h]) :
    \/ i \in 1..Len(box[h]) /\ mailbox'[h][i] = box[h][i]
    \/ mailbox'[h][i].type \notin News \cup {"Satisfy"}
    \/ mailbox'[h][i].type = "Satisfy" /\ mailbox'[h][i].from = g /\ AskedAll(g)'
    \/ mailbox'[h][i].type \in News /\ mailbox'[h][i].status[1] = g /\ h \in listeners'[g]

\* A goal that listens to g sees it undecided, or as it was, or has its news.
GoalsTold(g) ==
  \A r \in Goals \cap listeners'[g] :
    state'[g] \in Undecided \cup {state[g]} \/ NewsFrom(g, r)'

\* g comes to wait only by asking.
WaitsAfterAsking(g) == Waits(g)' => Waits(g) \/ AskedAll(g)'

Deals(g, box) == Adds(g, box) /\ GoalsTold(g) /\ WaitsAfterAsking(g)

\* Told goals have the news, and nothing else is new.
LEMMA PublishDeals ==
  ASSUME TypeOK, NEW g \in Goals, NEW t \in News,
         NEW L, NEW box \in [Goals -> Seq(Message)],
         Publish(g, t, L, box)
  PROVE  /\ L \subseteq listeners'[g] => Adds(g, box)
         /\ \A r \in Goals \cap L : NewsFrom(g, r)'
<1>1. GoalMsg(t, g) \in Message
  BY MessageTyped DEF GoalMsg, StatusOf, Status, TypeOK, ProverTypeOK, News
<1>2. GoalMsg(t, g).type = t /\ GoalMsg(t, g).status[1] = g
  BY DEF GoalMsg, StatusOf
<1>3. ASSUME NEW h \in Goals
      PROVE  mailbox'[h] = IF h \in L THEN Append(box[h], GoalMsg(t, g)) ELSE box[h]
  BY DEF Publish
<1>4. ASSUME L \subseteq listeners'[g], NEW h \in Goals, NEW i \in 1..Len(mailbox'[h])
      PROVE  \/ i \in 1..Len(box[h]) /\ mailbox'[h][i] = box[h][i]
             \/ mailbox'[h][i] = GoalMsg(t, g) /\ h \in listeners'[g]
  <2>1. box[h] \in Seq(Message)
    OBVIOUS
  <2>2. CASE h \notin L
    BY <1>3, <2>2
  <2>3. CASE h \in L
    <3>1. mailbox'[h] = Append(box[h], GoalMsg(t, g))
      BY <1>3, <2>3
    <3>2. Len(mailbox'[h]) = Len(box[h]) + 1 /\ Len(box[h]) \in Nat
      BY <1>1, <2>1, <3>1
    <3>3. CASE i \in 1..Len(box[h])
      BY <1>1, <2>1, <3>1, <3>3
    <3>4. CASE i = Len(box[h]) + 1
      BY <1>1, <1>4, <2>1, <2>3, <3>1, <3>4
    <3>. QED  BY <3>2, <3>3, <3>4
  <2>. QED  BY <2>2, <2>3
<1>5. ASSUME NEW r \in Goals \cap L
      PROVE  NewsFrom(g, r)'
  <2>1. box[r] \in Seq(Message)
    OBVIOUS
  <2>2. mailbox'[r] = Append(box[r], GoalMsg(t, g))
    BY <1>3
  <2>3. /\ Len(mailbox'[r]) \in 1..Len(mailbox'[r])
        /\ mailbox'[r][Len(mailbox'[r])] = GoalMsg(t, g)
    BY <1>1, <2>1, <2>2
  <2>. QED  BY <1>2, <2>3 DEF NewsFrom, News
<1>. QED  BY <1>2, <1>4, <1>5 DEF Adds

\* Where nobody is told anything, nothing is new.
LEMMA QuietDeals ==
  ASSUME NEW g \in Goals, NEW box, Quiet(box)
  PROVE  Adds(g, box)
  BY DEF Quiet, Adds

\* failureCheck fails the goal and tells its listeners.
LEMMA UnexpectedlyDeals ==
  ASSUME TypeOK, NEW g \in Goals, NEW box \in [Goals -> Seq(Message)],
         Unexpectedly(g, box)
  PROVE  Deals(g, box)
<1>1. Adds(g, box) /\ GoalsTold(g)
  BY PublishDeals DEF Unexpectedly, GoalsTold, News
<1>2. WaitsAfterAsking(g)
  BY DEF Unexpectedly, MarkUnexpected, WaitsAfterAsking, Waits, TypeOK, ProverTypeOK
<1>. QED  BY <1>1, <1>2 DEF Deals

\* Starting the job, or failing to.
LEMMA RunLocalJobDeals ==
  ASSUME TypeOK, NEW g \in Goals, NEW box \in [Goals -> Seq(Message)],
         RunLocalJob(g, box)
  PROVE  Deals(g, box)
<1>1. CASE UNCHANGED state /\ Quiet(box)
  BY <1>1, QuietDeals DEF Deals, GoalsTold, WaitsAfterAsking, Waits
<1>2. CASE state' = [state EXCEPT ![g] = "Running"] /\ Quiet(box)
  BY <1>2, QuietDeals DEF Deals, GoalsTold, WaitsAfterAsking, Waits, TypeOK,
     ProverTypeOK, Undecided, Unfinished
<1>3. CASE Unexpectedly(g, box)
  BY <1>3, UnexpectedlyDeals
<1>. QED  BY <1>1, <1>2, <1>3 DEF RunLocalJob, Unexpectedly

\* Checking the evidence, or failing to.
LEMMA CheckEvidenceDeals ==
  ASSUME TypeOK, NEW g \in Goals, NEW box \in [Goals -> Seq(Message)],
         CheckEvidence(g, box) \/ CheckEvidenceFails(g, box)
  PROVE  Deals(g, box)
<1>1. CASE CheckEvidence(g, box)
  BY <1>1, QuietDeals DEF CheckEvidence, Deals, GoalsTold, WaitsAfterAsking, Waits,
     TypeOK, ProverTypeOK, Undecided, Unfinished
<1>2. CASE CheckEvidenceFails(g, box)
  BY <1>2, UnexpectedlyDeals DEF CheckEvidenceFails
<1>. QED  BY <1>1, <1>2

\* Asking the dependencies asks each of them, once for each of its entries.
LEMMA SatisfyDependenciesDeals ==
  ASSUME TypeOK, NEW g \in Goals, NEW f \in BOOLEAN,
         NEW box \in [Goals -> Seq(Message)], SatisfyDependencies(g, f, box)
  PROVE  Deals(g, box)
<1>. DEFINE sent(d) == [e \in 1..Cardinality(Entries(g, d)) |-> SatisfyMsg(g, f)]
            box2 == [h \in Goals |-> box[h] \o sent(h)]
<1>1. CASE Unexpectedly(g, box)
  BY <1>1, UnexpectedlyDeals
<1>2. CASE state' = [state EXCEPT ![g] = "WaitingOnDependencies"] /\ Quiet(box2)
  <2>1. SatisfyMsg(g, f) \in Message
    BY MessageTyped DEF Requesters
  <2>2. ASSUME NEW h \in Goals
        PROVE  /\ Cardinality(Entries(g, h)) \in Nat
               /\ h \in Children(g) => Cardinality(Entries(g, h)) > 0
    <3>1. IsFiniteSet(Entries(g, h))
      BY DependenciesType, FS_Subset DEF Entries
    <3>2. h \in Children(g) => Entries(g, h) # {}
      BY DEF Children, Entries
    <3>. QED  BY <3>1, <3>2, FS_CardinalityType, FS_EmptySet
  <2>3. ASSUME NEW h \in Goals, NEW i \in 1..Len(mailbox'[h])
        PROVE  \/ i \in 1..Len(box[h]) /\ mailbox'[h][i] = box[h][i]
               \/ mailbox'[h][i] = SatisfyMsg(g, f)
    <3>1. box[h] \in Seq(Message) /\ sent(h) \in Seq(Message)
      BY <2>1, <2>2
    <3>2. mailbox'[h] = box[h] \o sent(h)
      BY <1>2 DEF Quiet
    <3>3. \A j \in 1..Len(sent(h)) : sent(h)[j] = SatisfyMsg(g, f)
      BY <2>2
    <3>. HIDE DEF sent
    <3>. QED  BY <3>1, <3>2, <3>3
  <2>4. ASSUME NEW d \in Children(g)
        PROVE  SatisfyQueued(g, d)'
    <3>1. d \in Goals
      BY DependenciesType DEF Children
    <3>2. box[d] \in Seq(Message) /\ sent(d) \in Seq(Message) /\ Len(sent(d)) > 0
      BY <2>1, <2>2, <3>1
    <3>3. mailbox'[d] = box[d] \o sent(d)
      BY <1>2, <3>1 DEF Quiet
    <3>4. sent(d)[1] = SatisfyMsg(g, f)
      BY <2>2, <3>1
    <3>5. /\ Len(box[d]) + 1 \in 1..Len(mailbox'[d])
          /\ mailbox'[d][Len(box[d]) + 1] = SatisfyMsg(g, f)
      <4>. HIDE DEF sent
      <4>. QED  BY <3>2, <3>3, <3>4
    <3>. QED  BY <3>5 DEF SatisfyQueued, SatisfyMsg
  <2>5. Adds(g, box) /\ AskedAll(g)'
    BY <2>3, <2>4 DEF Adds, AskedAll, SatisfyMsg
  <2>6. GoalsTold(g)
    BY <1>2 DEF GoalsTold, TypeOK, ProverTypeOK, Undecided, Unfinished
  <2>. QED  BY <2>5, <2>6 DEF Deals, WaitsAfterAsking
<1>. QED  BY <1>1, <1>2 DEF SatisfyDependencies
-----------------------------------------------------------------------------
(* What the prover of g does with the message at the head of its mailbox.    *)

\* It forgets no dependency it has heard of, and the one it hears of now counts.
Hears(g) ==
  LET m == Head(mailbox[g]) IN
  /\ \A t \in childStatus[g] : \E s \in childStatus'[g] : s[1] = t[1]
  /\ m.type \in News => \E s \in childStatus'[g] : s[1] = m.status[1]

\* Unless Akka restarts it: its listeners remain and are told, whoever asks
\* becomes one or has the news, and it waits only for those it has asked.
Settles(g) ==
  LET m == Head(mailbox[g]) IN
  /\ listeners[g] \subseteq listeners'[g]
  /\ \A r \in Goals \cap listeners[g] :
       state'[g] \in Undecided \cup {state[g]} \/ NewsFrom(g, r)'
  /\ \A r \in Goals : m.type = "Satisfy" /\ m.from = r =>
       r \in listeners'[g] /\ (state'[g] \in Undecided \/ NewsFrom(g, r)')
  /\ WaitsAfterAsking(g) \/ m.type \in News
  /\ Hears(g)

\* Its listeners are those it had and the sender of the request it handles.
Listens(g) ==
  LET m == Head(mailbox[g]) IN
  /\ \A r \in listeners'[g] : r \in listeners[g] \/ (m.type = "Satisfy" /\ m.from = r)
  /\ \A h \in Goals \ {g} : childStatus'[h] = childStatus[h]

\* The status of a dependency takes the place of the one before.
LEMMA WithChildHears ==
  ASSUME TypeOK, NEW g \in Goals, NEW s,
         childStatus' = [childStatus EXCEPT ![g] = WithChild(g, s)]
  PROVE  /\ \A t \in childStatus[g] : \E u \in childStatus'[g] : u[1] = t[1]
         /\ \E u \in childStatus'[g] : u[1] = s[1]
         /\ \A h \in Goals \ {g} : childStatus'[h] = childStatus[h]
  BY DEF WithChild, TypeOK, ProverTypeOK

LEMMA ProverDeals ==
  ASSUME TypeOK, NEW g \in Goals, ProverReceive(g)
  PROVE  /\ Adds(g, Taken(g)) /\ Listens(g)
         /\ incarnation'[g] > 0 \/ Settles(g)
<1>. DEFINE m == Head(mailbox[g])
            Kind == /\ UNCHANGED listeners /\ m.type # "Satisfy"
                    /\ Deals(g, Taken(g))
            Goal == Adds(g, Taken(g)) /\ Listens(g) /\ Settles(g)
<1>0. /\ mailbox[g] # <<>>
      /\ m \in Message
      /\ Taken(g) \in [Goals -> Seq(Message)]
  <2>1. mailbox[g] # <<>>
    BY ProverHeeds
  <2>. QED  BY <2>1, TakenTyped
<1>1. CASE HandleFirstSatisfy(g)
  <2>1. /\ m.type = "Satisfy" /\ state[g] = "Unstarted"
        /\ listeners' = [listeners EXCEPT ![g] = @ \cup {m.from}]
        /\ UNCHANGED childStatus
    BY <1>1 DEF HandleFirstSatisfy, Received
  <2>2. m.force \in BOOLEAN
    BY <1>0, <2>1, MessageFields
  <2>3. \/ CheckEvidence(g, Taken(g)) \/ CheckEvidenceFails(g, Taken(g))
        \/ SatisfyDependencies(g, m.force, Taken(g))
        \/ RunLocalJob(g, Taken(g))
    BY <1>1 DEF HandleFirstSatisfy
  <2>4. Deals(g, Taken(g))
    BY <1>0, <2>2, <2>3, CheckEvidenceDeals, SatisfyDependenciesDeals, RunLocalJobDeals
  <2>5. listeners'[g] = listeners[g] \cup {m.from}
    BY <2>1 DEF TypeOK, ProverTypeOK
  <2>6. Listens(g) /\ Hears(g)
    BY <2>1, <2>5 DEF Listens, Hears, News
  <2>7. Settles(g)
    BY <2>1, <2>4, <2>5, <2>6 DEF Deals, GoalsTold, Settles, Undecided, Unfinished
  <2>. QED  BY <2>4, <2>6, <2>7 DEF Deals
<1>2. CASE HandleLaterSatisfy(g)
  <2>1. /\ m.type = "Satisfy" /\ UNCHANGED <<state, childStatus>>
        /\ listeners' = [listeners EXCEPT ![g] = @ \cup {m.from}]
    BY <1>2 DEF HandleLaterSatisfy, Received
  <2>2. listeners'[g] = listeners[g] \cup {m.from}
    BY <2>1 DEF TypeOK, ProverTypeOK
  <2>3. /\ Adds(g, Taken(g))
        /\ state[g] \notin Unfinished => \A r \in Goals \cap {m.from} : NewsFrom(g, r)'
    <3>1. CASE \E t \in News : Publish(g, t, {m.from}, Taken(g))
      BY <1>0, <2>2, <3>1, PublishDeals
    <3>2. CASE state[g] \in Unfinished /\ Quiet(Taken(g))
      BY <3>2, QuietDeals
    <3>. QED  BY <1>2, <3>1, <3>2 DEF HandleLaterSatisfy, News
  <2>4. Listens(g) /\ Hears(g)
    BY <2>1, <2>2 DEF Listens, Hears, News
  <2>5. Settles(g)
    BY <2>1, <2>2, <2>3, <2>4 DEF Settles, Undecided, WaitsAfterAsking, Waits
  <2>. QED  BY <2>3, <2>4, <2>5
\* The handlers of the other messages leave the listeners alone.
<1>3. ASSUME Kind, Hears(g), \A h \in Goals \ {g} : childStatus'[h] = childStatus[h]
      PROVE  Goal
  BY <1>3 DEF Deals, GoalsTold, Settles, Listens
<1>4. ASSUME Kind, UNCHANGED childStatus, m.type \notin News
      PROVE  Goal
  BY <1>3, <1>4 DEF Hears
<1>5. ASSUME UNCHANGED listeners, NEW t \in News,
             Publish(g, t, listeners[g], Taken(g)),
             NEW s \in GoalState \ {"WaitingOnDependencies", "DependencyFailed"},
             state' = [state EXCEPT ![g] = s]
      PROVE  Deals(g, Taken(g))
  <2>1. Adds(g, Taken(g)) /\ GoalsTold(g)
    BY <1>0, <1>5, PublishDeals DEF GoalsTold
  <2>2. WaitsAfterAsking(g)
    BY <1>5 DEF WaitsAfterAsking, Waits, TypeOK, ProverTypeOK
  <2>. QED  BY <2>1, <2>2 DEF Deals
<1>6. ASSUME Quiet(Taken(g)), UNCHANGED state
      PROVE  Deals(g, Taken(g))
  BY <1>6, QuietDeals DEF Deals, GoalsTold, WaitsAfterAsking, Waits
<1>7. CASE HandleEvidenceCheckResult(g)
  <2>1. UNCHANGED <<listeners, childStatus>> /\ m.type = "EvidenceCheckResult"
    BY <1>7 DEF HandleEvidenceCheckResult, Received
  <2>2. \/ UNCHANGED state /\ Quiet(Taken(g))
        \/ SatisfyDependencies(g, FALSE, Taken(g))
        \/ RunLocalJob(g, Taken(g))
        \/ /\ state' = [state EXCEPT ![g] = "AlreadySatisfied"]
           /\ Publish(g, "GoalSuccess", listeners[g], Taken(g))
        \/ Unexpectedly(g, Taken(g))
    BY <1>7 DEF HandleEvidenceCheckResult
  <2>3. Deals(g, Taken(g))
    BY <1>0, <1>5, <1>6, <2>1, <2>2, SatisfyDependenciesDeals, RunLocalJobDeals,
       UnexpectedlyDeals DEF GoalState, Satisfied, News
  <2>. QED  BY <1>4, <2>1, <2>3 DEF News
<1>8. CASE HandleGoalFailure(g)
  <2>1. UNCHANGED listeners /\ m.type = "GoalFailure"
        /\ Publish(g, "GoalFailure", listeners[g], Taken(g))
        /\ childStatus' = [childStatus EXCEPT ![g] = WithChild(g, m.status)]
    BY <1>8 DEF HandleGoalFailure, Received
  <2>2. Adds(g, Taken(g)) /\ \A r \in Goals \cap listeners[g] : NewsFrom(g, r)'
    BY <1>0, <2>1, PublishDeals DEF News
  <2>3. Hears(g) /\ \A h \in Goals \ {g} : childStatus'[h] = childStatus[h]
    BY <2>1, WithChildHears DEF Hears
  <2>. QED  BY <2>1, <2>2, <2>3 DEF Settles, Listens, News
<1>9. CASE HandleGoalSuccess(g)
  <2>1. UNCHANGED listeners /\ m.type = "GoalSuccess"
        /\ childStatus' = [childStatus EXCEPT ![g] = WithChild(g, m.status)]
    BY <1>9 DEF HandleGoalSuccess, Received
  <2>2. \/ UNCHANGED state /\ Quiet(Taken(g))
        \/ CheckEvidence(g, Taken(g)) \/ RunLocalJob(g, Taken(g))
    BY <1>9 DEF HandleGoalSuccess
  <2>3. Deals(g, Taken(g))
    BY <1>0, <1>6, <2>2, CheckEvidenceDeals, RunLocalJobDeals
  <2>4. Hears(g) /\ \A h \in Goals \ {g} : childStatus'[h] = childStatus[h]
    BY <2>1, WithChildHears DEF Hears
  <2>. QED  BY <1>3, <2>1, <2>3, <2>4
<1>10. CASE HandleJobRunSuccess(g) \/ HandleJobRunFailed(g)
  <2>1. UNCHANGED <<listeners, childStatus>> /\ m.type \in {"JobRunSuccess", "JobRunFailed"}
    BY <1>10 DEF HandleJobRunSuccess, HandleJobRunFailed, Received
  <2>2. Deals(g, Taken(g))
    <3>1. CASE HandleJobRunSuccess(g)
      BY <1>5, <2>1, <3>1 DEF HandleJobRunSuccess, MarkExecution, GoalState, Satisfied,
         News, TypeOK, ProverTypeOK
    <3>2. CASE HandleJobRunFailed(g)
      BY <1>5, <2>1, <3>2 DEF HandleJobRunFailed, GoalState, Unsatisfied, News
    <3>. QED  BY <1>10, <3>1, <3>2
  <2>. QED  BY <1>4, <2>1, <2>2 DEF News
<1>11. CASE HandleRestartJob(g)
  <2>1. UNCHANGED <<listeners, childStatus>> /\ m.type = "RestartJob"
    BY <1>11 DEF HandleRestartJob, Received
  <2>2. ASSUME state[g] = "DependencyFailed", Quiet(Taken(g)),
               state' = [state EXCEPT ![g] = "WaitingOnDependencies"]
        PROVE  Deals(g, Taken(g))
    BY <2>2, QuietDeals DEF Deals, GoalsTold, WaitsAfterAsking, Waits, TypeOK,
       ProverTypeOK, Undecided, Unfinished
  <2>3. Deals(g, Taken(g))
    <3>1. CASE RunLocalJob(g, Taken(g))
      BY <1>0, <3>1, RunLocalJobDeals
    <3>2. CASE UNCHANGED state /\ Quiet(Taken(g))
      BY <1>6, <3>2
    <3>. QED  BY <1>11, <2>2, <3>1, <3>2 DEF HandleRestartJob
  <2>. QED  BY <1>4, <2>1, <2>3 DEF News
<1>12. CASE HandleAbort(g)
  <2>1. UNCHANGED <<listeners, childStatus>> /\ m.type = "Abort"
    BY <1>12 DEF HandleAbort, Received
  <2>2. GoalsTold(g) /\ WaitsAfterAsking(g)
    <3>1. UNCHANGED state \/ state' = [state EXCEPT ![g] = "Aborted"]
      BY <1>12 DEF HandleAbort
    <3>. QED
      BY <3>1 DEF GoalsTold, WaitsAfterAsking, Waits, TypeOK, ProverTypeOK, Undecided
  <2>3. Adds(g, Taken(g))
    <3>. DEFINE self == [Taken(g) EXCEPT ![g] = Append(@, UnexpectedMsg)]
                some(T) == [h \in Goals |-> IF h \in T
                                            THEN Append(Taken(g)[h], UnexpectedMsg)
                                            ELSE Taken(g)[h]]
    <3>1. Quiet(Taken(g)) \/ Quiet(self) \/ \E T : Quiet(some(T))
      <4>. HIDE DEF Quiet
      <4>. QED  BY <1>12 DEF HandleAbort
    <3>2. self = some({g})
      BY <1>0
    <3>3. CASE Quiet(Taken(g))
      BY <3>3, QuietDeals
    <3>4. ASSUME NEW T, Quiet(some(T))
          PROVE  Adds(g, Taken(g))
      <4>1. mailbox' = some(T)
        BY <3>4 DEF Quiet
      <4>2. ASSUME NEW h \in Goals, NEW i \in 1..Len(mailbox'[h])
            PROVE  \/ i \in 1..Len(Taken(g)[h]) /\ mailbox'[h][i] = Taken(g)[h][i]
                   \/ mailbox'[h][i] = UnexpectedMsg
        <5>1. Taken(g)[h] \in Seq(Message)
          BY <1>0
        <5>2. mailbox'[h] = Taken(g)[h] \/ mailbox'[h] = Append(Taken(g)[h], UnexpectedMsg)
          BY <4>1
        <5>. QED  BY <5>1, <5>2
      <4>. QED  BY <4>2 DEF Adds, UnexpectedMsg, News
    <3>. HIDE DEF self, some
    <3>. QED  BY <3>1, <3>2, <3>3, <3>4
  <2>. QED  BY <1>4, <2>1, <2>2, <2>3 DEF Deals, News
<1>13. CASE HandleUnexpected(g)
  <2>1. UNCHANGED <<state, listeners, childStatus>> /\ m.type = "Unexpected"
        /\ Quiet(Taken(g))
    BY <1>13 DEF HandleUnexpected, Received, proverVars
  <2>. QED  BY <1>4, <1>6, <2>1 DEF News
<1>14. CASE HandleGoalSuccessThrows(g) \/ HandleAbortThrows(g)
  <2>1. Restart(g)
    BY <1>14 DEF HandleGoalSuccessThrows, HandleAbortThrows
  <2>2. Adds(g, Taken(g))
    BY <2>1, QuietDeals DEF Restart
  <2>3. listeners'[g] = {} /\ incarnation'[g] = incarnation[g] + 1
        /\ \A h \in Goals \ {g} : childStatus'[h] = childStatus[h]
    BY <2>1 DEF Restart, TypeOK, ProverTypeOK
  <2>4. incarnation'[g] > 0
    BY <2>3 DEF TypeOK, ProverTypeOK
  <2>. QED  BY <2>2, <2>3, <2>4 DEF Listens
<1>. QED
  BY <1>1, <1>2, <1>7, <1>8, <1>9, <1>10, <1>11, <1>12, <1>13, <1>14
  DEF ProverReceive
-----------------------------------------------------------------------------
(* What is in the mailboxes after a handler was there before, but for what   *)
(* the handler took and what it sent.                                        *)

\* News stays in its mailbox until its receiver takes it.
LEMMA NewsStays ==
  ASSUME TypeOK, NEW g \in Goals, mailbox[g] # <<>>, Kept(Taken(g)),
         NEW d, NEW h \in Goals, NewsFrom(d, h),
         ~(h = g /\ Head(mailbox[g]).type \in News /\ Head(mailbox[g]).status[1] = d)
  PROVE  NewsFrom(d, h)'
<1>1. PICK i \in 1..Len(mailbox[h]) :
        mailbox[h][i].type \in News /\ mailbox[h][i].status[1] = d
  BY DEF NewsFrom, News
<1>2. mailbox[h] \in Seq(Message)
  BY DEF TypeOK, BoxTypeOK
<1>3. CASE h # g
  <2>1. Taken(g)[h] = mailbox[h]
    BY <1>3 DEF Taken, TypeOK, BoxTypeOK
  <2>2. i \in 1..Len(mailbox'[h]) /\ mailbox'[h][i] = mailbox[h][i]
    BY <2>1 DEF Kept
  <2>. QED  BY <1>1, <2>2 DEF NewsFrom, News
<1>4. CASE h = g
  <2>1. Taken(g)[h] = Tail(mailbox[h])
    BY <1>4 DEF Taken, TypeOK, BoxTypeOK
  <2>2. i # 1
    BY <1>1, <1>2, <1>4
  <2>3. /\ i - 1 \in 1..Len(Tail(mailbox[h]))
        /\ Tail(mailbox[h])[i - 1] = mailbox[h][i]
    BY <1>2, <2>2
  <2>4. i - 1 \in 1..Len(mailbox'[h]) /\ mailbox'[h][i - 1] = mailbox[h][i]
    BY <2>1, <2>3 DEF Kept
  <2>. QED  BY <1>1, <2>4 DEF NewsFrom, News
<1>. QED  BY <1>3, <1>4

\* A message that is new in a mailbox is one the handler sent.
LEMMA BoxBefore ==
  ASSUME TypeOK, NEW g \in Goals, mailbox[g] # <<>>, Adds(g, Taken(g)),
         NEW h \in Goals, NEW i \in 1..Len(mailbox'[h])
  PROVE  \/ \E j \in 1..Len(mailbox[h]) : mailbox[h][j] = mailbox'[h][i]
         \/ mailbox'[h][i].type \notin News \cup {"Satisfy"}
         \/ mailbox'[h][i].type = "Satisfy" /\ mailbox'[h][i].from = g /\ AskedAll(g)'
         \/ mailbox'[h][i].type \in News /\ mailbox'[h][i].status[1] = g
            /\ h \in listeners'[g]
<1>1. mailbox[h] \in Seq(Message)
  BY DEF TypeOK, BoxTypeOK
<1>2. ASSUME i \in 1..Len(Taken(g)[h]), mailbox'[h][i] = Taken(g)[h][i]
      PROVE  \E j \in 1..Len(mailbox[h]) : mailbox[h][j] = mailbox'[h][i]
  <2>1. CASE h # g
    BY <1>2, <2>1 DEF Taken, TypeOK, BoxTypeOK
  <2>2. CASE h = g
    <3>1. Taken(g)[h] = Tail(mailbox[h]) /\ mailbox[h] # <<>>
      BY <2>2 DEF Taken, TypeOK, BoxTypeOK
    <3>2. i + 1 \in 1..Len(mailbox[h]) /\ mailbox[h][i + 1] = Tail(mailbox[h])[i]
      BY <1>1, <1>2, <3>1
    <3>. QED  BY <1>2, <3>1, <3>2
  <2>. QED  BY <2>1, <2>2
<1>. QED  BY <1>2 DEF Adds

\* Who has asked after a handler had asked before, or does so now.
LEMMA AskedBefore ==
  ASSUME TypeOK, NEW g \in Goals, ProverReceive(g),
         NEW r \in Goals, incarnation'[r] = 0, HasAsked(r)'
  PROVE  HasAsked(r) \/ (r = g /\ AskedAll(g)')
<1>. DEFINE m == Head(mailbox[g])
<1>0. /\ mailbox[g] # <<>> /\ m \in Message /\ mailbox[g] \in Seq(Message)
      /\ Adds(g, Taken(g)) /\ Listens(g) /\ (incarnation'[g] > 0 \/ Settles(g))
  <2>1. mailbox[g] # <<>>
    BY ProverHeeds
  <2>. QED  BY <2>1, TakenTyped, ProverDeals DEF TypeOK, BoxTypeOK
<1>1. ASSUME NEW e \in Goals, r \in listeners'[e]
      PROVE  HasAsked(r)
  <2>1. CASE r \in listeners[e]
    BY <2>1 DEF HasAsked
  <2>2. CASE e = g /\ m.type = "Satisfy" /\ m.from = r
    <3>1. 1 \in 1..Len(mailbox[g]) /\ mailbox[g][1] = m
      BY <1>0
    <3>2. SatisfyQueued(r, g)
      BY <2>2, <3>1 DEF SatisfyQueued
    <3>. QED  BY <3>2 DEF HasAsked
  <2>. QED  BY <1>0, <1>1, <2>1, <2>2, ProverHeeds DEF Listens
<1>2. CASE Waits(r)'
  <2>1. CASE r # g
    <3>1. state'[r] = state[r]
      BY <2>1, ProverHeeds
    <3>. QED  BY <1>2, <3>1 DEF HasAsked, Waits
  <2>2. CASE r = g /\ WaitsAfterAsking(g)
    BY <1>2, <2>2 DEF WaitsAfterAsking, HasAsked
  <2>3. CASE r = g /\ m.type \in News
    <3>1. 1 \in 1..Len(mailbox[g]) /\ mailbox[g][1] = m
      BY <1>0
    <3>2. m.status[1] \in Goals
      BY <1>0, <2>3, MessageFields DEF News, Status
    <3>3. NewsFrom(m.status[1], r)
      BY <2>3, <3>1 DEF NewsFrom, News
    <3>. QED  BY <3>2, <3>3 DEF HasAsked
  <2>4. r = g => Settles(g)
    BY <1>0
  <2>. QED  BY <2>1, <2>2, <2>3, <2>4 DEF Settles
<1>3. ASSUME NEW e \in Goals, SatisfyQueued(r, e)'
      PROVE  HasAsked(r) \/ (r = g /\ AskedAll(g)')
  <2>1. PICK i \in 1..Len(mailbox'[e]) :
          mailbox'[e][i].type = "Satisfy" /\ mailbox'[e][i].from = r
    BY <1>3 DEF SatisfyQueued
  <2>2. \/ \E j \in 1..Len(mailbox[e]) : mailbox[e][j] = mailbox'[e][i]
        \/ r = g /\ AskedAll(g)'
    BY <1>0, <2>1, BoxBefore DEF News
  <2>. QED  BY <2>1, <2>2 DEF HasAsked, SatisfyQueued
<1>4. ASSUME NEW e \in Goals, NewsFrom(e, r)'
      PROVE  HasAsked(r)
  <2>1. PICK i \in 1..Len(mailbox'[r]) :
          mailbox'[r][i].type \in News /\ mailbox'[r][i].status[1] = e
    BY <1>4 DEF NewsFrom, News
  <2>2. \/ \E j \in 1..Len(mailbox[r]) : mailbox[r][j] = mailbox'[r][i]
        \/ r \in listeners'[g]
    BY <1>0, <2>1, BoxBefore DEF News
  <2>3. ASSUME NEW j \in 1..Len(mailbox[r]), mailbox[r][j] = mailbox'[r][i]
        PROVE  NewsFrom(e, r)
    BY <2>1, <2>3 DEF NewsFrom, News
  <2>. QED  BY <1>1, <2>2, <2>3 DEF HasAsked
<1>. QED  BY <1>1, <1>2, <1>3, <1>4 DEF HasAsked
-----------------------------------------------------------------------------
(* The steps.                                                                *)

\* A handler pays a debt or leaves it.
LEMMA DebtStays ==
  ASSUME TypeOK, NEW g \in Goals, ProverReceive(g),
         NEW r \in Goals, NEW d \in Goals,
         incarnation'[r] = 0, incarnation'[d] = 0, Debt(r, d)
  PROVE  Debt(r, d)'
<1>. DEFINE m == Head(mailbox[g])
<1>0. /\ mailbox[g] # <<>> /\ Kept(Taken(g)) /\ Listens(g)
      /\ g \in {r, d} => Settles(g)
  BY ProverHeeds, ProverDeals
<1>1. CASE SatisfyQueued(r, d)
  <2>1. CASE d = g /\ m.type = "Satisfy" /\ m.from = r
    BY <1>0, <2>1 DEF Settles, Debt, Unpublished
  <2>2. CASE ~(d = g /\ m.type = "Satisfy" /\ m.from = r)
    BY <1>0, <1>1, <2>2, SatisfyStays DEF Debt
  <2>. QED  BY <2>1, <2>2
<1>2. CASE r \in listeners[d] /\ Unpublished(d)
  <2>1. CASE d # g
    <3>1. state'[d] = state[d] /\ listeners'[d] = listeners[d]
      BY <2>1, ProverHeeds
    <3>. QED  BY <1>2, <3>1 DEF Debt, Unpublished
  <2>2. CASE d = g
    BY <1>0, <1>2, <2>2 DEF Settles, Debt, Unpublished
  <2>. QED  BY <2>1, <2>2
<1>3. CASE NewsFrom(d, r)
  <2>1. CASE r = g /\ m.type \in News /\ m.status[1] = d
    BY <1>0, <2>1 DEF Settles, Hears, Debt
  <2>2. CASE ~(r = g /\ m.type \in News /\ m.status[1] = d)
    BY <1>0, <1>3, <2>2, NewsStays DEF Debt
  <2>. QED  BY <2>1, <2>2
<1>4. CASE \E s \in childStatus[r] : s[1] = d
  <2>1. CASE r # g
    BY <1>0, <1>4, <2>1 DEF Listens, Debt
  <2>2. CASE r = g
    BY <1>0, <1>4, <2>2 DEF Settles, Hears, Debt
  <2>. QED  BY <2>1, <2>2
<1>. QED  BY <1>1, <1>2, <1>3, <1>4 DEF Debt

LEMMA ProverOwesNews ==
  ASSUME TypeOK, AllOwed, NEW g \in Goals, ProverReceive(g)
  PROVE  AllOwed'
<1>. SUFFICES ASSUME NEW r \in Goals \ Queried, incarnation'[r] = 0, HasAsked(r)',
                     NEW d \in Children(r), incarnation'[d] = 0
              PROVE  Debt(r, d)'
  BY DEF AllOwed
<1>1. d \in Goals
  BY DependenciesType DEF Children
<1>2. incarnation[r] = 0 /\ incarnation[d] = 0
  BY <1>1, ProverHeeds
<1>3. CASE r = g /\ AskedAll(g)'
  BY <1>3 DEF AskedAll, Debt
<1>4. CASE HasAsked(r)
  <2>1. Debt(r, d)
    BY <1>2, <1>4 DEF AllOwed
  <2>. QED  BY <1>1, <2>1, DebtStays
<1>. QED  BY <1>3, <1>4, AskedBefore

\* A step that leaves the provers alone and adds messages that say nothing of
\* dependencies; a client's request is not a goal's.
Harmless ==
  \A h \in Goals : \A i \in 1..Len(mailbox'[h]) :
    \/ i \in 1..Len(mailbox[h]) /\ mailbox'[h][i] = mailbox[h][i]
    \/ mailbox'[h][i].type \notin News \cup {"Satisfy"}
    \/ mailbox'[h][i].type = "Satisfy" /\ mailbox'[h][i].from \notin Goals

LEMMA OthersOweNews ==
  ASSUME AllOwed, UNCHANGED proverVars, Kept(mailbox), Harmless
  PROVE  AllOwed'
<1>. SUFFICES ASSUME NEW r \in Goals \ Queried, incarnation'[r] = 0, HasAsked(r)',
                     NEW d \in Children(r), incarnation'[d] = 0
              PROVE  Debt(r, d)'
  BY DEF AllOwed
<1>. USE DEF proverVars
<1>1. d \in Goals
  BY DependenciesType DEF Children
<1>2. \A e \in Goals : /\ SatisfyQueued(r, e)' => SatisfyQueued(r, e)
                       /\ NewsFrom(e, r)' => NewsFrom(e, r)
  BY DEF Harmless, SatisfyQueued, NewsFrom, News
<1>3. SatisfyQueued(r, d) => SatisfyQueued(r, d)'
  BY <1>1 DEF Kept, SatisfyQueued
<1>4. NewsFrom(d, r) => NewsFrom(d, r)'
  BY DEF Kept, NewsFrom
<1>5. HasAsked(r)
  BY <1>2 DEF HasAsked, Waits
<1>6. Debt(r, d)
  BY <1>5 DEF AllOwed
<1>. QED  BY <1>3, <1>4, <1>6 DEF Debt, Unpublished

\* One such message in one mailbox.
LEMMA AppendHarmless ==
  ASSUME TypeOK, NEW g \in Goals, NEW m \in Message,
         \/ m.type \notin News \cup {"Satisfy"}
         \/ m.type = "Satisfy" /\ m.from \notin Goals,
         mailbox' = [mailbox EXCEPT ![g] = Append(@, m)]
  PROVE  Kept(mailbox) /\ Harmless
<1>1. Kept(mailbox)
  BY AppendKeeps
<1>2. ASSUME NEW h \in Goals, NEW i \in 1..Len(mailbox'[h])
      PROVE  \/ i \in 1..Len(mailbox[h]) /\ mailbox'[h][i] = mailbox[h][i]
             \/ mailbox'[h][i] = m
  <2>1. mailbox[h] \in Seq(Message)
    BY DEF TypeOK, BoxTypeOK
  <2>2. mailbox'[h] = mailbox[h] \/ mailbox'[h] = Append(mailbox[h], m)
    BY DEF TypeOK, BoxTypeOK
  <2>. QED  BY <2>1, <2>2
<1>. QED  BY <1>1, <1>2 DEF Harmless

\* Jobs, checks, retries and clients lose no news between provers.
LEMMA ActorsOweNews ==
  ASSUME TypeOK, AllOwed, NEW g \in Goals,
         \/ JobRunnerStep(g) \/ EvidenceCheckerStep(g) \/ RetryAgentStep(g)
         \/ AbortGoal(g) \/ RestartGoal(g) \/ \E c \in Clients : SatisfyGoal(c, g)
  PROVE  AllOwed'
<1>. USE DEF boxVars, clientVars, Deliver, Quiet
<1>1. ASSUME UNCHANGED mailbox PROVE Kept(mailbox) /\ Harmless
  BY <1>1 DEF Kept, Harmless
<1>2. CASE JobRunnerStep(g)
  <2>1. UNCHANGED proverVars
    BY <1>2 DEF JobRunnerStep, RunnerSatisfy, RunnerAbort, RunnerFinish, Finish,
       JobCompletes, OrphanCompletes, Report
  <2>2. \/ UNCHANGED mailbox
        \/ \E t \in {"JobRunSuccess", "JobRunFailed"} :
             mailbox' = [mailbox EXCEPT ![g] = Append(@, JobMsg(t))]
    BY <1>2 DEF JobRunnerStep, RunnerSatisfy, RunnerAbort, RunnerFinish, Finish,
       JobCompletes, OrphanCompletes, Report
  <2>3. \A t \in {"JobRunSuccess", "JobRunFailed"} :
          JobMsg(t).type \notin News \cup {"Satisfy"}
    BY DEF JobMsg, News
  <2>4. Kept(mailbox) /\ Harmless
    BY <1>1, <2>2, <2>3, AppendHarmless, MessageTyped
  <2>. QED  BY <2>1, <2>4, OthersOweNews
<1>3. CASE EvidenceCheckerStep(g)
  <2>1. ASSUME NEW id \in probes[g], NEW o \in CheckOutcomes, CheckCompletes(g, id, o)
        PROVE  UNCHANGED proverVars /\ Kept(mailbox) /\ Harmless
    <3>1. id \in Nat
      BY DEF TypeOK, CheckerTypeOK
    <3>2. \E m \in Message : /\ m.type \notin News \cup {"Satisfy"}
                             /\ mailbox' = [mailbox EXCEPT ![g] = Append(@, m)]
      <4>1. CASE o = "throws"
        BY <2>1, <4>1, MessageTyped DEF CheckCompletes, JobMsg, News
      <4>2. CASE o # "throws"
        BY <2>1, <3>1, <4>2, MessageTyped DEF CheckCompletes, EvidenceMsg, News
      <4>. QED  BY <4>1, <4>2
    <3>. QED  BY <2>1, <3>2, AppendHarmless DEF CheckCompletes
  <2>2. ASSUME NEW id, CheckAgain(g, id)
        PROVE  UNCHANGED proverVars /\ Kept(mailbox) /\ Harmless
    BY <1>1, <2>2 DEF CheckAgain
  <2>. QED  BY <1>3, <2>1, <2>2, OthersOweNews DEF EvidenceCheckerStep
<1>4. CASE RetryAgentStep(g)
  <2>1. UNCHANGED proverVars
    BY <1>4 DEF RetryAgentStep, AgentGoalFailure, AgentGoalSuccess, RestartTimer
  <2>2. \/ UNCHANGED mailbox
        \/ mailbox' = [mailbox EXCEPT ![g] = Append(@, RestartMsg)]
    BY <1>4 DEF RetryAgentStep, AgentGoalFailure, AgentGoalSuccess, RestartTimer
  <2>3. RestartMsg.type \notin News \cup {"Satisfy"}
    BY DEF RestartMsg, News
  <2>4. Kept(mailbox) /\ Harmless
    BY <1>1, <2>2, <2>3, AppendHarmless, MessageTyped
  <2>. QED  BY <2>1, <2>4, OthersOweNews
<1>5. CASE AbortGoal(g) \/ RestartGoal(g)
  <2>1. UNCHANGED proverVars
    BY <1>5 DEF AbortGoal, RestartGoal
  <2>2. \E m \in Message : /\ m.type \notin News \cup {"Satisfy"}
                           /\ mailbox' = [mailbox EXCEPT ![g] = Append(@, m)]
    BY <1>5, MessageTyped DEF AbortGoal, RestartGoal, AbortMsg, UnexpectedMsg, News
  <2>. QED  BY <2>1, <2>2, AppendHarmless, OthersOweNews
<1>6. ASSUME NEW c \in Clients, SatisfyGoal(c, g)
      PROVE  AllOwed'
  <2>1. PICK f \in ForceModes :
          mailbox' = [mailbox EXCEPT ![g] = Append(@, SatisfyMsg(c, f))]
    BY <1>6 DEF SatisfyGoal
  <2>2. SatisfyMsg(c, f) \in Message
    BY MessageTyped, BoundsType DEF Requesters
  <2>3. SatisfyMsg(c, f).type = "Satisfy" /\ SatisfyMsg(c, f).from \notin Goals
    BY NamesDistinct DEF SatisfyMsg
  <2>4. UNCHANGED proverVars
    BY <1>6 DEF SatisfyGoal
  <2>. QED  BY <2>1, <2>2, <2>3, <2>4, AppendHarmless, OthersOweNews
<1>. QED  BY <1>2, <1>3, <1>4, <1>5, <1>6

\* A page's query touches what is known of the dependencies of its own goal only,
\* and the goal it fails still has not told its listeners.
LEMMA WhatsYourStatusOwesNews ==
  ASSUME TypeOK, AllOwed, NEW g \in Goals, WhatsYourStatus(g)
  PROVE  AllOwed'
<1>. SUFFICES ASSUME NEW r \in Goals \ Queried, incarnation'[r] = 0, HasAsked(r)',
                     NEW d \in Children(r), incarnation'[d] = 0
              PROVE  Debt(r, d)'
  BY DEF AllOwed
<1>1. g \in Queried /\ UNCHANGED <<listeners, incarnation, mailbox>>
  BY DEF WhatsYourStatus, boxVars
<1>2. d \in Goals
  BY DependenciesType DEF Children
<1>3. Unpublished(d) => Unpublished(d)'
  BY <1>2 DEF WhatsYourStatus, WhatsYourStatusThrows, ChildStatusArrives, Unpublished,
     MarkUnexpected, TypeOK, ProverTypeOK
<1>4. state'[r] = state[r] /\ childStatus'[r] = childStatus[r]
  BY <1>1 DEF WhatsYourStatus, WhatsYourStatusThrows, ChildStatusArrives, TypeOK,
     ProverTypeOK
<1>5. HasAsked(r)
  BY <1>1, <1>4 DEF HasAsked, Waits, SatisfyQueued, NewsFrom
<1>6. Debt(r, d)
  BY <1>1, <1>5 DEF AllOwed
<1>. QED  BY <1>1, <1>3, <1>4, <1>6 DEF Debt, SatisfyQueued, NewsFrom

\* Whoever waits on its dependencies has asked each of them, and each request is
\* still queued, or its sender among the listeners of a dependency that has not
\* come to its end, or the dependency's news on its way or heard: for any
\* dependency map and any interleaving of requests, jobs, retries and aborts, as
\* long as Akka has restarted neither prover.
THEOREM DependencyNeverLost == Spec => []NoLostDependency
<1>1. Init => AllOwed
  <2>. SUFFICES ASSUME Init, NEW g \in Goals PROVE ~HasAsked(g)
    BY DEF AllOwed
  <2>1. ~Waits(g)
    BY DEF Init, Waits
  <2>2. \A d \in Goals : g \notin listeners[d]
    BY NamesDistinct DEF Init
  <2>3. \A d \in Goals : mailbox[d] = <<>>
    BY DEF Init
  <2>. QED  BY <2>1, <2>2, <2>3 DEF HasAsked, SatisfyQueued, NewsFrom
<1>2. TypeOK /\ AllOwed /\ [Next]_vars => AllOwed'
  <2>. SUFFICES ASSUME TypeOK, AllOwed, [Next]_vars PROVE AllOwed'
    OBVIOUS
  <2>1. CASE UNCHANGED vars
    BY <2>1, OthersOweNews DEF vars, boxVars, Kept, Harmless
  <2>2. CASE Next
    BY <2>2, ProverOwesNews, ActorsOweNews, WhatsYourStatusOwesNews DEF Next
  <2>. QED  BY <2>1, <2>2
<1>. QED  BY <1>1, <1>2, TypeCorrect, OwedImplies, PTL DEF Spec
=============================================================================

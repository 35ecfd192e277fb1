-------------------------- MODULE ProofEngineProofs --------------------------
(* Theorems of ProofEngine for every set of goals, dependency map, bound and *)
(* outcome: its state is always well typed, and no client's reply is lost.   *)
EXTENDS ProofEngine, FiniteSetTheorems, TLAPS

-----------------------------------------------------------------------------
(* Messages and mailboxes.                                                   *)

\* Every message an actor builds is one of the receiver's protocol.
LEMMA MessageTyped ==
  /\ \A r \in Requesters, f \in BOOLEAN : SatisfyMsg(r, f) \in Message
  /\ \A t \in {"GoalSuccess", "GoalFailure"}, s \in Status :
       [type |-> t, status |-> s] \in Message
  /\ \A i \in Nat, x \in BOOLEAN : EvidenceMsg(i, x) \in Message
  /\ \A t \in {"JobRunSuccess", "JobRunFailed"} : JobMsg(t) \in Message
  /\ \A k \in BOOLEAN : AbortMsg(k) \in Message
  /\ RestartMsg \in Message
  /\ UnexpectedMsg \in Message
  BY DEF Message, SatisfyMsg, EvidenceMsg, JobMsg, AbortMsg, RestartMsg,
         UnexpectedMsg

\* What a message of each type carries.
LEMMA MessageFields ==
  ASSUME NEW m \in Message
  PROVE  /\ m.type = "Satisfy" => m.from \in Requesters /\ m.force \in BOOLEAN
         /\ m.type \in {"GoalSuccess", "GoalFailure"} => m.status \in Status
         /\ m.type = "EvidenceCheckResult" => m.id \in Nat /\ m.exists \in BOOLEAN
         /\ m.type = "Abort" => m.killChildren \in BOOLEAN
  BY DEF Message

\* The head of a mailbox is a message, and taking it leaves mailboxes.
LEMMA TakenTyped ==
  ASSUME TypeOK, NEW g \in Goals, mailbox[g] # <<>>
  PROVE  /\ Head(mailbox[g]) \in Message
         /\ Taken(g) \in [Goals -> Seq(Message)]
  BY DEF TypeOK, BoxTypeOK, Taken

\* Putting one message into one mailbox leaves mailboxes.
LEMMA AppendTyped ==
  ASSUME TypeOK, NEW g \in Goals, NEW m \in Message
  PROVE  [mailbox EXCEPT ![g] = Append(@, m)] \in [Goals -> Seq(Message)]
  BY DEF TypeOK, BoxTypeOK

\* A reply that is there was asked for.
RepliesKept == \A c \in Clients : reply'[c] # "none" => reply[c] # "none"

\* Telling the listeners leaves messages and replies of their types.
LEMMA PublishTyped ==
  ASSUME TypeOK, NEW g \in Goals, NEW t \in {"GoalSuccess", "GoalFailure"},
         NEW L, NEW box \in [Goals -> Seq(Message)],
         Publish(g, t, L, box)
  PROVE  BoxTypeOK' /\ RepliesKept
<1>1. GoalMsg(t, g) \in Message
  BY MessageTyped DEF GoalMsg, StatusOf, Status, TypeOK, ProverTypeOK
<1>2. mailbox' \in [Goals -> Seq(Message)]
  BY <1>1 DEF Publish
<1>3. retryBox' \in [Goals -> Seq(Message)]
  BY <1>1 DEF Publish, TypeOK, BoxTypeOK
<1>4. reply' \in [Clients -> {"none", "waiting", "GoalSuccess", "GoalFailure"}]
  BY DEF Publish, TypeOK, BoxTypeOK
<1>5. RepliesKept
  BY DEF Publish, RepliesKept
<1>. QED  BY <1>2, <1>3, <1>4, <1>5 DEF BoxTypeOK

\* Telling no one leaves the boxes of their types if the mailboxes are.
LEMMA QuietTyped ==
  ASSUME TypeOK, NEW box \in [Goals -> Seq(Message)], Quiet(box)
  PROVE  BoxTypeOK' /\ RepliesKept
  BY DEF Quiet, TypeOK, BoxTypeOK, RepliesKept

-----------------------------------------------------------------------------
(* The operators the handlers are built from.                                *)

\* runLocalJob keeps the types of what it touches.
LEMMA RunLocalJobTyped ==
  ASSUME TypeOK, NEW g \in Goals, NEW box \in [Goals -> Seq(Message)],
         RunLocalJob(g, box)
  PROVE  /\ state' \in [Goals -> GoalState]
         /\ jobRunner' \in [Goals -> BOOLEAN]
         /\ runner' \in [Goals -> BOOLEAN]
         /\ runnerBox' \in [Goals -> Seq({"Satisfy", "Abort"})]
         /\ BoxTypeOK' /\ RepliesKept
<1>. USE DEF GoalState, Satisfied, Unsatisfied, Unfinished
<1>1. CASE state[g] = "Running" /\ Quiet(box)
           /\ UNCHANGED <<state, jobRunner, runner, runnerBox>>
  BY <1>1, QuietTyped DEF TypeOK, ProverTypeOK, RunnerTypeOK
<1>2. CASE /\ state' = [state EXCEPT ![g] = "Running"]
           /\ jobRunner' = [jobRunner EXCEPT ![g] = TRUE]
           /\ runner' = [runner EXCEPT ![g] = @ \/ ~jobRunner[g]]
           /\ runnerBox' = IF runner'[g]
                           THEN [runnerBox EXCEPT ![g] = Append(@, "Satisfy")]
                           ELSE runnerBox
           /\ Quiet(box)
  <2>1. BoxTypeOK' /\ RepliesKept
    BY <1>2, QuietTyped
  <2>2. runnerBox' \in [Goals -> Seq({"Satisfy", "Abort"})]
    BY <1>2 DEF TypeOK, RunnerTypeOK
  <2>3. runner' \in [Goals -> BOOLEAN]
    BY <1>2, ZenonT(30) DEF TypeOK, RunnerTypeOK
  <2>. QED  BY <1>2, <2>1, <2>2, <2>3 DEF TypeOK, ProverTypeOK
<1>3. CASE /\ state' = [state EXCEPT ![g] = MarkUnexpected]
           /\ Publish(g, "GoalFailure", listeners'[g], box)
           /\ UNCHANGED <<jobRunner, runner, runnerBox>>
  BY <1>3, PublishTyped DEF TypeOK, ProverTypeOK, RunnerTypeOK, MarkUnexpected
<1>. QED  BY <1>1, <1>2, <1>3 DEF RunLocalJob

\* failureCheck keeps the types of what it touches.
LEMMA UnexpectedlyTyped ==
  ASSUME TypeOK, NEW g \in Goals, NEW box \in [Goals -> Seq(Message)],
         Unexpectedly(g, box)
  PROVE  state' \in [Goals -> GoalState] /\ BoxTypeOK' /\ RepliesKept
  BY PublishTyped DEF Unexpectedly, TypeOK, ProverTypeOK, MarkUnexpected,
     GoalState, Unsatisfied

\* The ids of new checkers are naturals, and finitely many.
LEMMA NewIdsTyped ==
  ASSUME TypeOK, NEW g \in Goals
  PROVE  /\ NewIds(g) \subseteq Nat /\ IsFiniteSet(NewIds(g))
         /\ Created(g) \subseteq Nat /\ IsFiniteSet(Created(g))
<1>. DEFINE n == Cardinality(checkers[g])
<1>1. n \in Nat
  BY FS_CardinalityType DEF TypeOK, ProverTypeOK
<1>2. NumEvidence[g] \in Nat
  BY DependenciesType
<1>3. NewIds(g) = (n + 1)..(n + NumEvidence[g])
  BY DEF NewIds
<1>. HIDE DEF n
<1>4. NewIds(g) \subseteq Nat
  BY <1>1, <1>2, <1>3
<1>5. n + 1 \in Int /\ n + NumEvidence[g] \in Int
  BY <1>1, <1>2
<1>6. IsFiniteSet(NewIds(g))
  BY <1>3, <1>5, FS_Interval
<1>7. Created(g) \subseteq NewIds(g)
  BY DEF Created
<1>. QED  BY <1>4, <1>6, <1>7, FS_Subset

\* Creating checker actors keeps the ids of actors and probes naturals.
LEMMA CreateCheckersTyped ==
  ASSUME TypeOK, NEW g \in Goals, CreateCheckers(g)
  PROVE  /\ evidenceActors' \in [Goals -> SUBSET Nat]
         /\ probes' \in [Goals -> SUBSET Nat]
  BY NewIdsTyped DEF CreateCheckers, TypeOK, CheckerTypeOK

\* checkers after some of the new ids were added to g's.
LEMMA CheckersTyped ==
  ASSUME TypeOK, NEW g \in Goals, NEW S \in {NewIds(g), Created(g)},
         checkers' = [checkers EXCEPT ![g] = @ \cup S]
  PROVE  /\ checkers' \in [Goals -> SUBSET Nat]
         /\ \A h \in Goals : IsFiniteSet(checkers'[h])
<1>1. S \subseteq Nat /\ IsFiniteSet(S)
  BY NewIdsTyped
<1>2. IsFiniteSet(checkers[g] \cup S)
  BY <1>1, FS_Union DEF TypeOK, ProverTypeOK
<1>. QED  BY <1>1, <1>2 DEF TypeOK, ProverTypeOK

\* sendCheckEvidence, whether it throws or not, keeps the types.
LEMMA CheckEvidenceTyped ==
  ASSUME TypeOK, NEW g \in Goals, NEW box \in [Goals -> Seq(Message)],
         CheckEvidence(g, box) \/ CheckEvidenceFails(g, box)
  PROVE  /\ state' \in [Goals -> GoalState]
         /\ checkers' \in [Goals -> SUBSET Nat]
         /\ \A h \in Goals : IsFiniteSet(checkers'[h])
         /\ evidenceActors' \in [Goals -> SUBSET Nat]
         /\ probes' \in [Goals -> SUBSET Nat]
         /\ BoxTypeOK' /\ RepliesKept
<1>1. CASE CheckEvidence(g, box)
  <2>1. CreateCheckers(g) /\ Quiet(box)
        /\ checkers' = [checkers EXCEPT ![g] = @ \cup NewIds(g)]
        /\ state' = [state EXCEPT ![g] = "CheckingEvidence"]
    BY <1>1 DEF CheckEvidence
  <2>2. state' \in [Goals -> GoalState]
    BY <2>1 DEF TypeOK, ProverTypeOK, GoalState, Unfinished
  <2>. QED  BY <2>1, <2>2, CheckersTyped, CreateCheckersTyped, QuietTyped
<1>2. CASE CheckEvidenceFails(g, box)
  <2>1. CreateCheckers(g) /\ Unexpectedly(g, box)
        /\ checkers' = [checkers EXCEPT ![g] = @ \cup Created(g)]
    BY <1>2 DEF CheckEvidenceFails
  <2>. QED  BY <2>1, CheckersTyped, CreateCheckersTyped, UnexpectedlyTyped
<1>. QED  BY <1>1, <1>2

\* satisfy(), whether it throws or not, keeps the types.
LEMMA SatisfyDependenciesTyped ==
  ASSUME TypeOK, NEW g \in Goals, NEW f \in BOOLEAN,
         NEW box \in [Goals -> Seq(Message)], SatisfyDependencies(g, f, box)
  PROVE  /\ state' \in [Goals -> GoalState]
         /\ UNCHANGED <<jobRunner, runner, runnerBox>>
         /\ BoxTypeOK' /\ RepliesKept
<1>. DEFINE sent(d) == [e \in 1..Cardinality(Entries(g, d)) |-> SatisfyMsg(g, f)]
            box2 == [h \in Goals |-> box[h] \o sent(h)]
<1>1. UNCHANGED <<jobRunner, runner, runnerBox>>
  BY DEF SatisfyDependencies
<1>2. CASE Unexpectedly(g, box)
  BY <1>1, <1>2, UnexpectedlyTyped
<1>3. CASE /\ state' = [state EXCEPT ![g] = "WaitingOnDependencies"]
           /\ Quiet(box2)
  <2>1. state' \in [Goals -> GoalState]
    BY <1>3 DEF TypeOK, ProverTypeOK, GoalState, Unfinished
  <2>2. SatisfyMsg(g, f) \in Message
    BY MessageTyped DEF Requesters
  <2>3. ASSUME NEW h \in Goals
        PROVE  box[h] \o sent(h) \in Seq(Message)
    <3>1. IsFiniteSet(Entries(g, h))
      BY DependenciesType, FS_Subset DEF Entries
    <3>2. Cardinality(Entries(g, h)) \in Nat
      BY <3>1, FS_CardinalityType
    <3>3. sent(h) \in Seq(Message)
      BY <2>2, <3>2
    <3>. QED  BY <3>3
  <2>4. box2 \in [Goals -> Seq(Message)]
    BY <2>3
  <2>. HIDE DEF box2
  <2>. QED  BY <1>1, <1>3, <2>1, <2>4, QuietTyped
<1>. QED  BY <1>2, <1>3 DEF SatisfyDependencies
-----------------------------------------------------------------------------
(* Type correctness, one lemma per component.                                *)

\* Every handler of the prover keeps the types of its fields and boxes.
LEMMA ProverTyped ==
  ASSUME TypeOK, NEW g \in Goals, ProverReceive(g)
  PROVE  TypeOK'
<1>. DEFINE m == Head(mailbox[g])
<1>. USE DEF Received
<1>. USE DEF noChecks, noJob, othersUnchanged, RepliesKept, retryVars, clientVars
<1>0. /\ m \in Message
      /\ Taken(g) \in [Goals -> Seq(Message)]
  <2>1. mailbox[g] # <<>>
    BY DEF ProverReceive, HandleFirstSatisfy, HandleLaterSatisfy,
       HandleEvidenceCheckResult, HandleGoalFailure, HandleGoalSuccess,
       HandleGoalSuccessThrows, HandleJobRunSuccess, HandleJobRunFailed,
       HandleRestartJob, HandleAbort, HandleAbortThrows, HandleUnexpected
  <2>. QED  BY <2>1, TakenTyped
<1>1. CASE HandleFirstSatisfy(g)
  <2>1. m.from \in Requesters /\ m.force \in BOOLEAN
    BY <1>0, <1>1, MessageFields DEF HandleFirstSatisfy
  <2>2. /\ force' \in [Goals -> BOOLEAN]
        /\ listeners' \in [Goals -> SUBSET Listeners]
        /\ UNCHANGED <<childStatus, incarnation>> /\ othersUnchanged
    BY <1>1, <2>1 DEF HandleFirstSatisfy, TypeOK, ProverTypeOK, Listeners
  <2>3. CASE noJob /\ (CheckEvidence(g, Taken(g)) \/ CheckEvidenceFails(g, Taken(g)))
    BY <1>0, <2>2, <2>3, CheckEvidenceTyped
    DEF TypeOK, ProverTypeOK, CheckerTypeOK, RunnerTypeOK,
        RetryTypeOK, ClientTypeOK
  <2>4. CASE noChecks /\ SatisfyDependencies(g, m.force, Taken(g))
    BY <1>0, <2>1, <2>2, <2>4, SatisfyDependenciesTyped
    DEF TypeOK, ProverTypeOK, CheckerTypeOK, RunnerTypeOK,
        RetryTypeOK, ClientTypeOK
  <2>5. CASE noChecks /\ RunLocalJob(g, Taken(g))
    BY <1>0, <2>2, <2>5, RunLocalJobTyped
    DEF TypeOK, ProverTypeOK, CheckerTypeOK, RunnerTypeOK,
        RetryTypeOK, ClientTypeOK
  <2>. QED  BY <1>1, <2>3, <2>4, <2>5 DEF HandleFirstSatisfy
<1>2. CASE HandleLaterSatisfy(g)
  <2>1. m.from \in Requesters
    BY <1>0, <1>2, MessageFields DEF HandleLaterSatisfy
  <2>2. listeners' \in [Goals -> SUBSET Listeners]
    BY <1>2, <2>1 DEF HandleLaterSatisfy, TypeOK, ProverTypeOK, Listeners
  <2>3. BoxTypeOK' /\ RepliesKept
    BY <1>0, <1>2, PublishTyped, QuietTyped DEF HandleLaterSatisfy
  <2>. QED
    BY <1>2, <2>2, <2>3 DEF HandleLaterSatisfy, TypeOK, ProverTypeOK,
       CheckerTypeOK, RunnerTypeOK, RetryTypeOK, ClientTypeOK
<1>3. CASE HandleEvidenceCheckResult(g)
  <2>1. checkers' = [checkers EXCEPT ![g] = @ \ {m.id}]
    BY <1>3 DEF HandleEvidenceCheckResult
  <2>2. /\ checkers' \in [Goals -> SUBSET Nat]
        /\ \A h \in Goals : IsFiniteSet(checkers'[h])
    <3>1. IsFiniteSet(checkers[g] \ {m.id})
      BY FS_Difference DEF TypeOK, ProverTypeOK
    <3>. QED  BY <2>1, <3>1 DEF TypeOK, ProverTypeOK
  <2>3. evidenceActors' \in [Goals -> SUBSET Nat]
    BY <1>3 DEF HandleEvidenceCheckResult, TypeOK, CheckerTypeOK
  <2>4. UNCHANGED <<force, listeners, childStatus, incarnation, probes>>
        /\ othersUnchanged
    BY <1>3 DEF HandleEvidenceCheckResult
  <2>5. /\ state' \in [Goals -> GoalState]
        /\ jobRunner' \in [Goals -> BOOLEAN]
        /\ runner' \in [Goals -> BOOLEAN]
        /\ runnerBox' \in [Goals -> Seq({"Satisfy", "Abort"})]
        /\ BoxTypeOK' /\ RepliesKept
    <3>1. CASE UNCHANGED state /\ Quiet(Taken(g)) /\ noJob
      BY <1>0, <3>1, QuietTyped DEF TypeOK, ProverTypeOK, RunnerTypeOK
    <3>2. CASE SatisfyDependencies(g, FALSE, Taken(g))
      BY <1>0, <3>2, SatisfyDependenciesTyped DEF TypeOK, ProverTypeOK, RunnerTypeOK
    <3>3. CASE RunLocalJob(g, Taken(g))
      BY <1>0, <3>3, RunLocalJobTyped
    <3>4. CASE /\ state' = [state EXCEPT ![g] = "AlreadySatisfied"]
               /\ Publish(g, "GoalSuccess", listeners[g], Taken(g)) /\ noJob
      BY <1>0, <3>4, PublishTyped DEF TypeOK, ProverTypeOK, RunnerTypeOK,
         GoalState, Satisfied
    <3>5. CASE Unexpectedly(g, Taken(g)) /\ noJob
      BY <1>0, <3>5, UnexpectedlyTyped DEF TypeOK, ProverTypeOK, RunnerTypeOK
    <3>. QED  BY <1>3, <3>1, <3>2, <3>3, <3>4, <3>5 DEF HandleEvidenceCheckResult
  <2>. QED
    BY <2>2, <2>3, <2>4, <2>5 DEF TypeOK, ProverTypeOK, CheckerTypeOK,
       RunnerTypeOK, RetryTypeOK, ClientTypeOK
<1>4. CASE HandleGoalFailure(g)
  <2>1. m.status \in Status
    BY <1>0, <1>4, MessageFields DEF HandleGoalFailure
  <2>2. childStatus' \in [Goals -> SUBSET Status]
    BY <1>4, <2>1 DEF HandleGoalFailure, WithChild, TypeOK, ProverTypeOK
  <2>3. BoxTypeOK' /\ RepliesKept
    BY <1>0, <1>4, PublishTyped DEF HandleGoalFailure
  <2>. QED
    BY <1>4, <2>2, <2>3 DEF HandleGoalFailure, TypeOK, ProverTypeOK, CheckerTypeOK,
       RunnerTypeOK, RetryTypeOK, ClientTypeOK, GoalState, Unsatisfied
<1>5. CASE HandleGoalSuccess(g)
  <2>1. m.status \in Status
    BY <1>0, <1>5, MessageFields DEF HandleGoalSuccess
  <2>2. /\ childStatus' \in [Goals -> SUBSET Status]
        /\ UNCHANGED <<force, listeners, incarnation>> /\ othersUnchanged
    BY <1>5, <2>1 DEF HandleGoalSuccess, WithChild, TypeOK, ProverTypeOK
  <2>3. CASE UNCHANGED state /\ Quiet(Taken(g)) /\ noChecks /\ noJob
    BY <1>0, <2>2, <2>3, QuietTyped DEF TypeOK, ProverTypeOK, CheckerTypeOK,
       RunnerTypeOK, RetryTypeOK, ClientTypeOK
  <2>4. CASE CheckEvidence(g, Taken(g)) /\ noJob
    BY <1>0, <2>2, <2>4, CheckEvidenceTyped DEF TypeOK, ProverTypeOK, CheckerTypeOK,
       RunnerTypeOK, RetryTypeOK, ClientTypeOK
  <2>5. CASE RunLocalJob(g, Taken(g)) /\ noChecks
    BY <1>0, <2>2, <2>5, RunLocalJobTyped DEF TypeOK, ProverTypeOK, CheckerTypeOK,
       RunnerTypeOK, RetryTypeOK, ClientTypeOK
  <2>. QED  BY <1>5, <2>3, <2>4, <2>5 DEF HandleGoalSuccess
<1>6. ASSUME Restart(g)
      PROVE  ProverTypeOK' /\ BoxTypeOK' /\ RepliesKept
  <2>1. BoxTypeOK' /\ RepliesKept
    BY <1>0, <1>6, QuietTyped DEF Restart
  <2>2. \A h \in Goals : IsFiniteSet(checkers'[h])
    BY <1>6, FS_EmptySet DEF Restart, TypeOK, ProverTypeOK
  <2>. QED
    BY <1>6, <2>1, <2>2 DEF Restart, TypeOK, ProverTypeOK, GoalState, Unfinished
<1>7. CASE HandleGoalSuccessThrows(g)
  BY <1>6, <1>7, CreateCheckersTyped DEF HandleGoalSuccessThrows, TypeOK,
     CheckerTypeOK, RunnerTypeOK, RetryTypeOK, ClientTypeOK
<1>8. CASE HandleJobRunSuccess(g)
  <2>1. BoxTypeOK' /\ RepliesKept
    BY <1>0, <1>8, PublishTyped DEF HandleJobRunSuccess
  <2>. QED
    BY <1>8, <2>1 DEF HandleJobRunSuccess, MarkExecution, TypeOK, ProverTypeOK,
       CheckerTypeOK, RunnerTypeOK, RetryTypeOK, ClientTypeOK, GoalState, Satisfied
<1>9. CASE HandleJobRunFailed(g)
  <2>1. BoxTypeOK' /\ RepliesKept
    BY <1>0, <1>9, PublishTyped DEF HandleJobRunFailed
  <2>. QED
    BY <1>9, <2>1 DEF HandleJobRunFailed, TypeOK, ProverTypeOK,
       CheckerTypeOK, RunnerTypeOK, RetryTypeOK, ClientTypeOK, GoalState, Unsatisfied
<1>10. CASE HandleRestartJob(g)
  <2>1. UNCHANGED <<force, listeners, childStatus, incarnation>>
        /\ noChecks /\ othersUnchanged
    BY <1>10 DEF HandleRestartJob
  <2>2. CASE RunLocalJob(g, Taken(g))
    BY <1>0, <2>1, <2>2, RunLocalJobTyped DEF TypeOK, ProverTypeOK, CheckerTypeOK,
       RunnerTypeOK, RetryTypeOK, ClientTypeOK
  <2>3. CASE /\ \/ state' = [state EXCEPT ![g] = "WaitingOnDependencies"]
                \/ UNCHANGED state
             /\ Quiet(Taken(g)) /\ noJob
    BY <1>0, <2>1, <2>3, QuietTyped DEF TypeOK, ProverTypeOK, CheckerTypeOK,
       RunnerTypeOK, RetryTypeOK, ClientTypeOK, GoalState, Unfinished
  <2>. QED  BY <1>10, <2>2, <2>3 DEF HandleRestartJob
<1>11. CASE HandleAbort(g)
  <2>1. /\ UNCHANGED <<force, listeners, childStatus, incarnation, jobRunner, runner>>
        /\ noChecks /\ othersUnchanged
    BY <1>11 DEF HandleAbort
  <2>2. UnexpectedMsg \in Message
    BY MessageTyped
  <2>3. state' \in [Goals -> GoalState]
    BY <1>11 DEF HandleAbort, TypeOK, ProverTypeOK, GoalState, Unsatisfied
  <2>4. runnerBox' \in [Goals -> Seq({"Satisfy", "Abort"})]
    <3>1. [runnerBox EXCEPT ![g] = Append(@, "Abort")]
            \in [Goals -> Seq({"Satisfy", "Abort"})]
      BY DEF TypeOK, RunnerTypeOK
    <3>2. \/ UNCHANGED runnerBox
          \/ runnerBox' = [runnerBox EXCEPT ![g] = Append(@, "Abort")]
      BY <1>11 DEF HandleAbort
    <3>. QED  BY <3>1, <3>2 DEF TypeOK, RunnerTypeOK
  <2>5. BoxTypeOK' /\ RepliesKept
    <3>. DEFINE self == [Taken(g) EXCEPT ![g] = Append(@, UnexpectedMsg)]
                some(T) == [h \in Goals |-> IF h \in T
                                            THEN Append(Taken(g)[h], UnexpectedMsg)
                                            ELSE Taken(g)[h]]
    <3>1. self \in [Goals -> Seq(Message)]
      BY <1>0, <2>2
    <3>2. ASSUME NEW T
          PROVE  some(T) \in [Goals -> Seq(Message)]
      BY <1>0, <2>2
    <3>3. Quiet(Taken(g)) \/ Quiet(self) \/ \E T : Quiet(some(T))
      <4>. HIDE DEF Received, Quiet
      <4>. QED  BY <1>11 DEF HandleAbort
    <3>. HIDE DEF self, some
    <3>. QED  BY <1>0, <3>1, <3>2, <3>3, QuietTyped
  <2>. QED
    BY <2>1, <2>3, <2>4, <2>5 DEF TypeOK, ProverTypeOK, CheckerTypeOK, RunnerTypeOK,
       RetryTypeOK, ClientTypeOK
<1>12. CASE HandleAbortThrows(g)
  BY <1>6, <1>12 DEF HandleAbortThrows, TypeOK, CheckerTypeOK, RunnerTypeOK,
     RetryTypeOK, ClientTypeOK
<1>13. CASE HandleUnexpected(g)
  BY <1>0, <1>13, QuietTyped DEF HandleUnexpected, TypeOK, ProverTypeOK,
     CheckerTypeOK, RunnerTypeOK, RetryTypeOK, ClientTypeOK, proverVars,
     checkerVars, runnerVars
<1>. QED
  BY <1>1, <1>2, <1>3, <1>4, <1>5, <1>7, <1>8, <1>9, <1>10, <1>11, <1>12, <1>13
  DEF ProverReceive

\* An actor that does nothing keeps the types of its fields.
LEMMA UnchangedTyped ==
  ASSUME TypeOK
  PROVE  /\ UNCHANGED proverVars => ProverTypeOK'
         /\ UNCHANGED boxVars => BoxTypeOK' /\ RepliesKept
         /\ UNCHANGED checkerVars => CheckerTypeOK'
         /\ UNCHANGED runnerVars => RunnerTypeOK'
         /\ UNCHANGED retryVars => RetryTypeOK'
         /\ UNCHANGED clientVars /\ RepliesKept => ClientTypeOK'
<1>1. UNCHANGED proverVars => ProverTypeOK'
  BY DEF TypeOK, ProverTypeOK, proverVars
<1>2. UNCHANGED boxVars => BoxTypeOK' /\ RepliesKept
  BY DEF TypeOK, BoxTypeOK, boxVars, RepliesKept
<1>3. UNCHANGED checkerVars => CheckerTypeOK'
  BY DEF TypeOK, CheckerTypeOK, checkerVars
<1>4. UNCHANGED runnerVars => RunnerTypeOK'
  BY DEF TypeOK, RunnerTypeOK, runnerVars
<1>5. UNCHANGED retryVars => RetryTypeOK'
  BY DEF TypeOK, RetryTypeOK, retryVars
<1>6. UNCHANGED clientVars /\ RepliesKept => ClientTypeOK'
  BY DEF TypeOK, ClientTypeOK, clientVars, RepliesKept
<1>. QED  BY <1>1, <1>2, <1>3, <1>4, <1>5, <1>6

\* The JobRunner's steps keep the types.
LEMMA RunnerTyped ==
  ASSUME TypeOK, NEW g \in Goals, JobRunnerStep(g)
  PROVE  TypeOK'
<1>1. CASE RunnerSatisfy(g)
  <2>1. UNCHANGED <<proverVars, boxVars, checkerVars, retryVars, clientVars>>
    BY <1>1 DEF RunnerSatisfy
  <2>2. Tail(runnerBox[g]) \in Seq({"Satisfy", "Abort"})
    BY <1>1 DEF RunnerSatisfy, RunnerReceived, TypeOK, RunnerTypeOK
  <2>3. RunnerTypeOK'
    BY <1>1, <2>2 DEF RunnerSatisfy, TypeOK, RunnerTypeOK
  <2>. QED  BY <2>1, <2>3, UnchangedTyped DEF TypeOK
<1>2. ASSUME Finish(g), marks' \in [Goals -> {"unmarked", "completed", "incomplete"}]
      PROVE  TypeOK'
  <2>1. UNCHANGED <<proverVars, boxVars, checkerVars, retryVars, clientVars>>
    BY <1>2 DEF Finish
  <2>2. runner' \in [Goals -> BOOLEAN]
    BY <1>2 DEF Finish, TypeOK, RunnerTypeOK
  <2>3. RunnerTypeOK'
    BY <1>2, <2>2 DEF Finish, TypeOK, RunnerTypeOK
  <2>. QED  BY <2>1, <2>3, UnchangedTyped DEF TypeOK
<1>3. CASE RunnerAbort(g)
  <2>1. marks' \in [Goals -> {"unmarked", "completed", "incomplete"}]
    BY <1>3 DEF RunnerAbort, TypeOK, RunnerTypeOK
  <2>. QED  BY <1>2, <1>3, <2>1 DEF RunnerAbort
<1>4. CASE RunnerFinish(g)
  <2>1. marks' \in [Goals -> {"unmarked", "completed", "incomplete"}]
    BY <1>4 DEF RunnerFinish, TypeOK, RunnerTypeOK
  <2>. QED  BY <1>2, <1>4, <2>1 DEF RunnerFinish
<1>5. ASSUME NEW o \in JobOutcomes, Report(g, o),
             futures' \in [Goals -> Nat], finishing' \in [Goals -> Nat],
             orphans' \in [Goals -> Nat]
      PROVE  TypeOK'
  <2>1. UNCHANGED <<proverVars, checkerVars, retryVars, clientVars>>
    BY <1>5 DEF Report
  <2>2. \E t \in {"JobRunSuccess", "JobRunFailed"} :
          Quiet([mailbox EXCEPT ![g] = Append(@, JobMsg(t))])
    BY <1>5 DEF Report
  <2>3. BoxTypeOK' /\ RepliesKept
    BY <2>2, AppendTyped, MessageTyped, QuietTyped
  <2>4. marks' \in [Goals -> {"unmarked", "completed", "incomplete"}]
    BY <1>5 DEF Report, TypeOK, RunnerTypeOK
  <2>5. RunnerTypeOK'
    BY <1>5, <2>4 DEF Report, TypeOK, RunnerTypeOK
  <2>. QED  BY <2>1, <2>3, <2>5, UnchangedTyped DEF TypeOK
<1>6. ASSUME NEW o \in JobOutcomes, JobCompletes(g, o)
      PROVE  TypeOK'
  <2>1. /\ futures' \in [Goals -> Nat] /\ finishing' \in [Goals -> Nat]
        /\ orphans' \in [Goals -> Nat]
    BY <1>6 DEF JobCompletes, TypeOK, RunnerTypeOK
  <2>. QED  BY <1>5, <1>6, <2>1 DEF JobCompletes
<1>7. ASSUME NEW o \in JobOutcomes, OrphanCompletes(g, o)
      PROVE  TypeOK'
  <2>1. /\ futures' \in [Goals -> Nat] /\ finishing' \in [Goals -> Nat]
        /\ orphans' \in [Goals -> Nat]
    BY <1>7 DEF OrphanCompletes, TypeOK, RunnerTypeOK
  <2>. QED  BY <1>5, <1>7, <2>1 DEF OrphanCompletes
<1>. QED  BY <1>1, <1>3, <1>4, <1>6, <1>7 DEF JobRunnerStep

\* The EvidenceCheckers' steps keep the types.
LEMMA CheckerTyped ==
  ASSUME TypeOK, NEW g \in Goals, EvidenceCheckerStep(g)
  PROVE  TypeOK'
<1>1. ASSUME NEW id \in probes[g], NEW o \in CheckOutcomes, CheckCompletes(g, id, o)
      PROVE  TypeOK'
  <2>1. UNCHANGED <<proverVars, runnerVars, retryVars, clientVars>>
    BY <1>1 DEF CheckCompletes
  <2>2. id \in Nat
    BY DEF TypeOK, CheckerTypeOK
  <2>3. \E m \in Message : Quiet([mailbox EXCEPT ![g] = Append(@, m)])
    BY <1>1, <2>2, MessageTyped DEF CheckCompletes
  <2>4. BoxTypeOK' /\ RepliesKept
    BY <2>3, AppendTyped, QuietTyped
  <2>5. CheckerTypeOK'
    BY <1>1 DEF CheckCompletes, TypeOK, CheckerTypeOK
  <2>. QED  BY <2>1, <2>4, <2>5, UnchangedTyped DEF TypeOK
<1>2. ASSUME NEW id \in checkers[g], CheckAgain(g, id)
      PROVE  TypeOK'
  <2>1. UNCHANGED <<proverVars, boxVars, runnerVars, retryVars, clientVars>>
    BY <1>2 DEF CheckAgain
  <2>2. id \in Nat
    BY DEF TypeOK, ProverTypeOK
  <2>3. CheckerTypeOK'
    BY <1>2, <2>2 DEF CheckAgain, TypeOK, CheckerTypeOK
  <2>. QED  BY <2>1, <2>3, UnchangedTyped DEF TypeOK
<1>. QED  BY <1>1, <1>2 DEF EvidenceCheckerStep

\* The RetryAgent's steps keep the types.
LEMMA RetryTyped ==
  ASSUME TypeOK, NEW g \in Goals, RetryAgentStep(g)
  PROVE  TypeOK'
<1>1. UNCHANGED <<proverVars, checkerVars, runnerVars, clientVars>>
  BY DEF RetryAgentStep, AgentGoalFailure, AgentGoalSuccess, RestartTimer
<1>2. BoxTypeOK' /\ RepliesKept
  <2>1. CASE AgentGoalFailure(g)
    <3>1. Tail(retryBox[g]) \in Seq(Message)
      BY <2>1 DEF AgentGoalFailure, RetryReceived, TypeOK, BoxTypeOK
    <3>. QED  BY <2>1, <3>1 DEF AgentGoalFailure, TypeOK, BoxTypeOK, RepliesKept
  <2>2. CASE AgentGoalSuccess(g)
    BY <2>2 DEF AgentGoalSuccess, TypeOK, BoxTypeOK, RepliesKept
  <2>3. CASE RestartTimer(g)
    BY <2>3, AppendTyped, MessageTyped, QuietTyped DEF RestartTimer
  <2>. QED  BY <2>1, <2>2, <2>3 DEF RetryAgentStep
<1>3. RetryTypeOK'
  <2>1. retryUp' \in [Goals -> BOOLEAN]
    BY DEF RetryAgentStep, AgentGoalFailure, AgentGoalSuccess, RestartTimer,
       TypeOK, RetryTypeOK
  <2>2. retries' \in [Goals -> Nat] /\ timers' \in [Goals -> Nat]
    BY DEF RetryAgentStep, AgentGoalFailure, AgentGoalSuccess, RestartTimer,
       TypeOK, RetryTypeOK
  <2>. QED  BY <2>1, <2>2 DEF RetryTypeOK
<1>. QED  BY <1>1, <1>2, <1>3, UnchangedTyped DEF TypeOK

\* The clients' calls keep the types.
LEMMA ClientTyped ==
  ASSUME TypeOK
  PROVE  /\ \A c \in Clients, g \in Goals : SatisfyGoal(c, g) => TypeOK'
         /\ \A g \in Goals : AbortGoal(g) \/ RestartGoal(g) => TypeOK'
<1>1. ASSUME NEW c \in Clients, NEW g \in Goals, SatisfyGoal(c, g)
      PROVE  TypeOK'
  <2>1. UNCHANGED <<proverVars, checkerVars, runnerVars, retryVars>>
    BY <1>1 DEF SatisfyGoal
  <2>2. \E m \in Message : mailbox' = [mailbox EXCEPT ![g] = Append(@, m)]
    BY <1>1, MessageTyped, BoundsType DEF SatisfyGoal, Requesters
  <2>3. mailbox' \in [Goals -> Seq(Message)]
    BY <2>2, AppendTyped
  <2>4. BoxTypeOK' /\ ClientTypeOK'
    BY <1>1, <2>3 DEF SatisfyGoal, TypeOK, BoxTypeOK, ClientTypeOK
  <2>. QED  BY <2>1, <2>4, UnchangedTyped DEF TypeOK
<1>2. ASSUME NEW g \in Goals, AbortGoal(g) \/ RestartGoal(g)
      PROVE  TypeOK'
  <2>1. UNCHANGED <<proverVars, checkerVars, runnerVars, retryVars, asked>>
    BY <1>2 DEF AbortGoal, RestartGoal
  <2>2. \E m \in Message : Quiet([mailbox EXCEPT ![g] = Append(@, m)])
    BY <1>2, MessageTyped DEF AbortGoal, RestartGoal, Deliver
  <2>3. BoxTypeOK' /\ RepliesKept
    BY <2>2, AppendTyped, QuietTyped
  <2>4. aborts' \in Nat /\ restarts' \subseteq Goals
    <3>1. CASE AbortGoal(g)
      BY <3>1 DEF AbortGoal, TypeOK, ClientTypeOK
    <3>2. CASE RestartGoal(g)
      BY <3>2 DEF RestartGoal, TypeOK, ClientTypeOK
    <3>. QED  BY <1>2, <3>1, <3>2
  <2>5. ClientTypeOK'
    BY <2>1, <2>3, <2>4 DEF TypeOK, ClientTypeOK, RepliesKept
  <2>. QED  BY <2>1, <2>3, <2>5, UnchangedTyped DEF TypeOK
<1>. QED  BY <1>1, <1>2

\* What a page's query adds to childStatus are statuses.
LEMMA WhatsYourStatusTyped ==
  ASSUME TypeOK, NEW g \in Goals, WhatsYourStatus(g)
  PROVE  TypeOK'
<1>1. UNCHANGED <<force, listeners, checkers, jobRunner, incarnation, boxVars,
                  checkerVars, runnerVars, retryVars, clientVars>>
  BY DEF WhatsYourStatus
<1>2. state' \in [Goals -> GoalState] /\ childStatus' \in [Goals -> SUBSET Status]
  <2>1. CASE WhatsYourStatusThrows(g)
    BY <2>1 DEF WhatsYourStatusThrows, MarkUnexpected, GoalState, Unsatisfied,
       TypeOK, ProverTypeOK
  <2>2. ASSUME NEW d \in Children(g), ChildStatusArrives(g, d)
        PROVE  UNCHANGED state /\ childStatus' \in [Goals -> SUBSET Status]
    <3>1. d \in Goals
      BY DependenciesType DEF Children
    <3>2. PICK n \in 0..incarnation[d] :
            childStatus' = [childStatus EXCEPT ![g] = WithChild(g, <<d, n>>)]
      BY <2>2 DEF ChildStatusArrives
    <3>3. n \in Nat
      BY <3>1, <3>2 DEF TypeOK, ProverTypeOK
    <3>4. WithChild(g, <<d, n>>) \subseteq Status
      BY <3>1, <3>3 DEF WithChild, Status, TypeOK, ProverTypeOK
    <3>. QED  BY <2>2, <3>2, <3>4 DEF ChildStatusArrives, TypeOK, ProverTypeOK
  <2>. QED  BY <2>1, <2>2 DEF WhatsYourStatus, TypeOK, ProverTypeOK
<1>3. ProverTypeOK'
  BY <1>1, <1>2 DEF TypeOK, ProverTypeOK
<1>. QED  BY <1>1, <1>3, UnchangedTyped DEF TypeOK

\* The actors start with fields of their types.
LEMMA InitTyped == Init => TypeOK
<1>. SUFFICES ASSUME Init PROVE TypeOK
  OBVIOUS
<1>1. ProverTypeOK
  <2>1. \A g \in Goals : IsFiniteSet(checkers[g])
    BY FS_EmptySet DEF Init
  <2>. QED
    BY <2>1 DEF Init, ProverTypeOK, GoalState, Unfinished, Listeners
<1>2. BoxTypeOK /\ RunnerTypeOK
  BY DEF Init, BoxTypeOK, RunnerTypeOK
<1>3. CheckerTypeOK /\ ClientTypeOK
  BY DEF Init, CheckerTypeOK, ClientTypeOK
<1>4. RetryTypeOK
  <2>1. retryUp \in [Goals -> BOOLEAN]
    BY DEF Init
  <2>. QED  BY <2>1 DEF Init, RetryTypeOK
<1>. QED  BY <1>1, <1>2, <1>3, <1>4 DEF TypeOK

\* Every step of every actor and client keeps the types.
LEMMA StepTyped == TypeOK /\ [Next]_vars => TypeOK'
<1>. SUFFICES ASSUME TypeOK, [Next]_vars PROVE TypeOK'
  OBVIOUS
<1>1. CASE UNCHANGED vars
  BY <1>1, UnchangedTyped DEF vars, TypeOK
<1>2. CASE Next
  BY <1>2, ProverTyped, RunnerTyped, CheckerTyped, RetryTyped, ClientTyped,
     WhatsYourStatusTyped DEF Next
<1>. QED  BY <1>1, <1>2

\* The fields of every actor, every mailbox and every reply keep their types,
\* whatever the goals, the dependency map, the outcomes and the bounds.
THEOREM TypeCorrect == Spec => []TypeOK
  BY InitTyped, StepTyped, PTL DEF Spec
-----------------------------------------------------------------------------
(* No client's reply is lost.  NoLostReply is inductive with TypeOK: a       *)
(* Satisfy stays in its mailbox until the prover takes it, which puts its    *)
(* sender among the listeners, and whatever takes the goal out of an         *)
(* undecided state tells all of them.                                        *)

\* Every message of box is still in its place.
Kept(box) ==
  \A h \in Goals : \A i \in 1..Len(box[h]) :
    i \in 1..Len(mailbox'[h]) /\ mailbox'[h][i] = box[h][i]

\* A listener of g that still waits sees g undecided, or as it was.
Told(g) ==
  \A c \in Clients :
    c \in listeners'[g] /\ reply'[c] = "waiting"
      => state'[g] \in Undecided \/ state'[g] = state[g]

\* Only g may change its state.
Alone(g) == \A h \in Goals \ {g} : state'[h] = state[h]

\* No client starts to wait.
NoneAsks == \A c \in Clients : reply'[c] = "waiting" => reply[c] = "waiting"

\* Telling listeners leaves the messages where they are, and everyone told has
\* the answer.
LEMMA PublishTells ==
  ASSUME TypeOK, NEW g \in Goals, NEW t \in {"GoalSuccess", "GoalFailure"},
         NEW L, NEW box \in [Goals -> Seq(Message)],
         Publish(g, t, L, box)
  PROVE  /\ Kept(box) /\ NoneAsks
         /\ \A c \in Clients \cap L : reply'[c] # "waiting"
<1>1. Kept(box)
  <2>. SUFFICES ASSUME NEW h \in Goals, NEW i \in 1..Len(box[h])
                PROVE  i \in 1..Len(mailbox'[h]) /\ mailbox'[h][i] = box[h][i]
    BY DEF Kept
  <2>1. box[h] \in Seq(Message)
    OBVIOUS
  <2>2. mailbox'[h] = Append(box[h], GoalMsg(t, g)) \/ mailbox'[h] = box[h]
    BY DEF Publish
  <2>. QED  BY <2>1, <2>2
<1>2. NoneAsks /\ \A c \in Clients \cap L : reply'[c] # "waiting"
  BY DEF Publish, NoneAsks
<1>. QED  BY <1>1, <1>2

\* A step that tells no one anything leaves the messages where they are.
LEMMA QuietKeeps ==
  ASSUME NEW box, Quiet(box)
  PROVE  Kept(box) /\ NoneAsks /\ UNCHANGED reply
  BY DEF Quiet, Kept, NoneAsks

\* failureCheck fails the goal and tells its listeners.
LEMMA UnexpectedlyTells ==
  ASSUME TypeOK, NEW g \in Goals, NEW box \in [Goals -> Seq(Message)],
         Unexpectedly(g, box)
  PROVE  Kept(box) /\ NoneAsks /\ Told(g) /\ Alone(g)
<1>1. Kept(box) /\ NoneAsks /\ \A c \in Clients \cap listeners'[g] : reply'[c] # "waiting"
  BY PublishTells DEF Unexpectedly
<1>2. Alone(g)
  BY DEF Unexpectedly, Alone, TypeOK, ProverTypeOK
<1>. QED  BY <1>1, <1>2 DEF Told

\* Starting the job leaves the goal undecided, or fails it and tells.
LEMMA RunLocalJobTells ==
  ASSUME TypeOK, NEW g \in Goals, NEW box \in [Goals -> Seq(Message)],
         RunLocalJob(g, box)
  PROVE  Kept(box) /\ NoneAsks /\ Told(g) /\ Alone(g)
<1>1. CASE UNCHANGED state /\ Quiet(box)
  BY <1>1, QuietKeeps DEF Told, Alone
<1>2. CASE state' = [state EXCEPT ![g] = "Running"] /\ Quiet(box)
  BY <1>2, QuietKeeps DEF Told, Alone, TypeOK, ProverTypeOK, Undecided, Unfinished
<1>3. CASE Unexpectedly(g, box)
  BY <1>3, UnexpectedlyTells
<1>. QED  BY <1>1, <1>2, <1>3 DEF RunLocalJob, Unexpectedly

\* Checking the evidence leaves the goal undecided, or fails it and tells.
LEMMA CheckEvidenceTells ==
  ASSUME TypeOK, NEW g \in Goals, NEW box \in [Goals -> Seq(Message)],
         CheckEvidence(g, box) \/ CheckEvidenceFails(g, box)
  PROVE  Kept(box) /\ NoneAsks /\ Told(g) /\ Alone(g)
<1>1. CASE CheckEvidence(g, box)
  BY <1>1, QuietKeeps DEF CheckEvidence, Told, Alone, TypeOK, ProverTypeOK,
     Undecided, Unfinished
<1>2. CASE CheckEvidenceFails(g, box)
  BY <1>2, UnexpectedlyTells DEF CheckEvidenceFails
<1>. QED  BY <1>1, <1>2

\* Asking the dependencies adds messages behind those that are there.
LEMMA SatisfyDependenciesTells ==
  ASSUME TypeOK, NEW g \in Goals, NEW f \in BOOLEAN,
         NEW box \in [Goals -> Seq(Message)], SatisfyDependencies(g, f, box)
  PROVE  Kept(box) /\ NoneAsks /\ Told(g) /\ Alone(g)
<1>. DEFINE sent(d) == [e \in 1..Cardinality(Entries(g, d)) |-> SatisfyMsg(g, f)]
            box2 == [h \in Goals |-> box[h] \o sent(h)]
<1>1. CASE Unexpectedly(g, box)
  BY <1>1, UnexpectedlyTells
<1>2. CASE state' = [state EXCEPT ![g] = "WaitingOnDependencies"] /\ Quiet(box2)
  <2>1. NoneAsks /\ Told(g) /\ Alone(g)
    <3>. HIDE DEF box2
    <3>. QED
      BY <1>2, QuietKeeps DEF Told, Alone, TypeOK, ProverTypeOK, Undecided, Unfinished
  <2>2. Kept(box)
    <3>. SUFFICES ASSUME NEW h \in Goals, NEW i \in 1..Len(box[h])
                  PROVE  i \in 1..Len(mailbox'[h]) /\ mailbox'[h][i] = box[h][i]
      BY DEF Kept
    <3>1. box[h] \in Seq(Message)
      OBVIOUS
    <3>2. SatisfyMsg(g, f) \in Message
      BY MessageTyped DEF Requesters
    <3>3. IsFiniteSet(Entries(g, h))
      BY DependenciesType, FS_Subset DEF Entries
    <3>4. Cardinality(Entries(g, h)) \in Nat
      BY <3>3, FS_CardinalityType
    <3>5. sent(h) \in Seq(Message)
      BY <3>2, <3>4
    <3>6. mailbox'[h] = box[h] \o sent(h)
      BY <1>2 DEF Quiet
    <3>. HIDE DEF sent
    <3>. QED  BY <3>1, <3>5, <3>6
  <2>. QED  BY <2>1, <2>2
<1>. QED  BY <1>1, <1>2 DEF SatisfyDependencies

\* The prover takes one message; a client's Satisfy stays, unless it is that one.
LEMMA SatisfyStays ==
  ASSUME TypeOK, NEW g \in Goals, mailbox[g] # <<>>, Kept(Taken(g)),
         NEW r, NEW h \in Goals, SatisfyQueued(r, h),
         ~(h = g /\ Head(mailbox[g]).type = "Satisfy" /\ Head(mailbox[g]).from = r)
  PROVE  SatisfyQueued(r, h)'
<1>1. PICK i \in 1..Len(mailbox[h]) :
        mailbox[h][i].type = "Satisfy" /\ mailbox[h][i].from = r
  BY DEF SatisfyQueued
<1>2. mailbox[h] \in Seq(Message)
  BY DEF TypeOK, BoxTypeOK
<1>3. CASE h # g
  <2>1. Taken(g)[h] = mailbox[h]
    BY <1>3 DEF Taken, TypeOK, BoxTypeOK
  <2>2. i \in 1..Len(mailbox'[h]) /\ mailbox'[h][i] = mailbox[h][i]
    BY <2>1 DEF Kept
  <2>. QED  BY <1>1, <2>2 DEF SatisfyQueued
<1>4. CASE h = g
  <2>1. Taken(g)[h] = Tail(mailbox[h])
    BY <1>4 DEF Taken, TypeOK, BoxTypeOK
  <2>2. i # 1
    BY <1>1, <1>2, <1>4
  <2>3. /\ i - 1 \in 1..Len(Tail(mailbox[h]))
        /\ Tail(mailbox[h])[i - 1] = mailbox[h][i]
    BY <1>2, <2>2
  <2>4. i - 1 \in 1..Len(mailbox'[h]) /\ mailbox'[h][i - 1] = mailbox[h][i]
    BY <2>1, <2>3 DEF Kept
  <2>. QED  BY <1>1, <2>4 DEF SatisfyQueued
<1>. QED  BY <1>3, <1>4

\* What a handler that Akka does not restart does to the clients: its goal keeps
\* its listeners and tells them what it comes to, and the sender of a Satisfy
\* becomes one of them, or has its answer.
Heeded(g) ==
  LET m == Head(mailbox[g]) IN
  /\ listeners[g] \subseteq listeners'[g]
  /\ \A c \in Clients :
       c \in listeners[g] /\ reply'[c] = "waiting"
         => state'[g] \in Undecided \cup {state[g]}
  /\ \A c \in Clients :
       m.type = "Satisfy" /\ m.from = c /\ reply'[c] = "waiting"
         => c \in listeners'[g] /\ state'[g] \in Undecided

\* The prover keeps every message but the one it takes, is alone in changing
\* its goal, and heeds its clients unless Akka restarts it.
LEMMA ProverHeeds ==
  ASSUME TypeOK, NEW g \in Goals, ProverReceive(g)
  PROVE  /\ mailbox[g] # <<>> /\ Kept(Taken(g)) /\ NoneAsks /\ UNCHANGED asked
         /\ \A h \in Goals \ {g} : /\ state'[h] = state[h]
                                   /\ listeners'[h] = listeners[h]
                                   /\ incarnation'[h] = incarnation[h]
         /\ incarnation'[g] > 0 \/ (incarnation'[g] = incarnation[g] /\ Heeded(g))
<1>. DEFINE m == Head(mailbox[g])
            Goal == /\ Kept(Taken(g)) /\ NoneAsks
                    /\ UNCHANGED <<asked, incarnation>>
                    /\ Alone(g) /\ Heeded(g)
                    /\ \A h \in Goals \ {g} : listeners'[h] = listeners[h]
<1>. USE DEF noChecks, noJob, othersUnchanged, clientVars
<1>0. /\ mailbox[g] # <<>>
      /\ m \in Message
      /\ Taken(g) \in [Goals -> Seq(Message)]
  <2>1. mailbox[g] # <<>>
    BY DEF ProverReceive, HandleFirstSatisfy, HandleLaterSatisfy,
       HandleEvidenceCheckResult, HandleGoalFailure, HandleGoalSuccess,
       HandleGoalSuccessThrows, HandleJobRunSuccess, HandleJobRunFailed,
       HandleRestartJob, HandleAbort, HandleAbortThrows, HandleUnexpected, Received
  <2>. QED  BY <2>1, TakenTyped
<1>1. CASE HandleFirstSatisfy(g)
  <2>1. /\ m.type = "Satisfy" /\ state[g] = "Unstarted"
        /\ listeners' = [listeners EXCEPT ![g] = @ \cup {m.from}]
        /\ UNCHANGED <<asked, incarnation>>
    BY <1>1 DEF HandleFirstSatisfy, Received
  <2>2. m.force \in BOOLEAN
    BY <1>0, <2>1, MessageFields
  <2>3. \/ CheckEvidence(g, Taken(g)) \/ CheckEvidenceFails(g, Taken(g))
        \/ SatisfyDependencies(g, m.force, Taken(g))
        \/ RunLocalJob(g, Taken(g))
    BY <1>1 DEF HandleFirstSatisfy
  <2>4. Kept(Taken(g)) /\ NoneAsks /\ Told(g) /\ Alone(g)
    BY <1>0, <2>2, <2>3, CheckEvidenceTells, SatisfyDependenciesTells, RunLocalJobTells
  <2>5. /\ listeners'[g] = listeners[g] \cup {m.from}
        /\ \A h \in Goals \ {g} : listeners'[h] = listeners[h]
    BY <2>1 DEF TypeOK, ProverTypeOK
  <2>6. Heeded(g)
    BY <2>1, <2>4, <2>5 DEF Heeded, Told, Undecided, Unfinished
  <2>. QED  BY <1>0, <2>1, <2>4, <2>5, <2>6 DEF Alone
<1>2. CASE HandleLaterSatisfy(g)
  <2>1. /\ UNCHANGED <<state, asked, incarnation>>
        /\ listeners' = [listeners EXCEPT ![g] = @ \cup {m.from}]
    BY <1>2 DEF HandleLaterSatisfy
  <2>2. /\ listeners'[g] = listeners[g] \cup {m.from}
        /\ \A h \in Goals \ {g} : listeners'[h] = listeners[h]
    BY <2>1 DEF TypeOK, ProverTypeOK
  <2>3. /\ Kept(Taken(g)) /\ NoneAsks
        /\ state[g] \notin Unfinished =>
             \A c \in Clients \cap {m.from} : reply'[c] # "waiting"
    <3>1. CASE \E t \in {"GoalSuccess", "GoalFailure"} :
                 Publish(g, t, {m.from}, Taken(g))
      BY <1>0, <3>1, PublishTells
    <3>2. CASE state[g] \in Unfinished /\ Quiet(Taken(g))
      BY <1>0, <3>2, QuietKeeps
    <3>. QED  BY <1>2, <3>1, <3>2 DEF HandleLaterSatisfy
  <2>4. Heeded(g)
    BY <2>1, <2>2, <2>3 DEF Heeded, Undecided
  <2>. QED  BY <1>0, <2>1, <2>2, <2>3, <2>4
\* The handlers of the other messages leave the listeners alone.
<1>3. ASSUME UNCHANGED <<asked, incarnation, listeners>>, m.type # "Satisfy",
             Kept(Taken(g)), NoneAsks, Told(g), Alone(g)
      PROVE  Goal
  <2>1. Heeded(g)
    BY <1>3 DEF Heeded, Told
  <2>. QED  BY <1>3, <2>1
<1>4. ASSUME UNCHANGED listeners, NEW t \in {"GoalSuccess", "GoalFailure"},
             Publish(g, t, listeners[g], Taken(g)),
             NEW s, state' = [state EXCEPT ![g] = s]
      PROVE  Kept(Taken(g)) /\ NoneAsks /\ Told(g) /\ Alone(g)
  <2>1. /\ Kept(Taken(g)) /\ NoneAsks
        /\ \A c \in Clients \cap listeners[g] : reply'[c] # "waiting"
    BY <1>0, <1>4, PublishTells
  <2>2. Told(g)
    BY <1>4, <2>1 DEF Told
  <2>3. Alone(g)
    BY <1>4 DEF Alone, TypeOK, ProverTypeOK
  <2>. QED  BY <2>1, <2>2, <2>3
<1>5. ASSUME Quiet(Taken(g)), UNCHANGED state
      PROVE  Kept(Taken(g)) /\ NoneAsks /\ Told(g) /\ Alone(g)
  BY <1>5, QuietKeeps DEF Told, Alone
<1>6. CASE HandleEvidenceCheckResult(g)
  <2>1. UNCHANGED <<asked, incarnation, listeners>> /\ m.type # "Satisfy"
    BY <1>6 DEF HandleEvidenceCheckResult, Received
  <2>2. \/ UNCHANGED state /\ Quiet(Taken(g))
        \/ SatisfyDependencies(g, FALSE, Taken(g))
        \/ RunLocalJob(g, Taken(g))
        \/ /\ state' = [state EXCEPT ![g] = "AlreadySatisfied"]
           /\ Publish(g, "GoalSuccess", listeners[g], Taken(g))
        \/ Unexpectedly(g, Taken(g))
    BY <1>6 DEF HandleEvidenceCheckResult
  <2>3. Kept(Taken(g)) /\ NoneAsks /\ Told(g) /\ Alone(g)
    BY <1>0, <1>4, <1>5, <2>1, <2>2, SatisfyDependenciesTells, RunLocalJobTells,
       UnexpectedlyTells
  <2>4. Goal
    BY <1>3, <2>1, <2>3
  <2>. QED  BY <1>0, <2>4 DEF Alone
<1>7. CASE HandleGoalFailure(g)
  <2>1. UNCHANGED <<asked, incarnation, listeners>> /\ m.type # "Satisfy"
    BY <1>7 DEF HandleGoalFailure, Received
  <2>2. Kept(Taken(g)) /\ NoneAsks /\ Told(g) /\ Alone(g)
    BY <1>4, <1>7, <2>1 DEF HandleGoalFailure
  <2>3. Goal
    BY <1>3, <2>1, <2>2
  <2>. QED  BY <1>0, <2>3 DEF Alone
<1>8. CASE HandleGoalSuccess(g)
  <2>1. UNCHANGED <<asked, incarnation, listeners>> /\ m.type # "Satisfy"
    BY <1>8 DEF HandleGoalSuccess, Received
  <2>2. \/ UNCHANGED state /\ Quiet(Taken(g))
        \/ CheckEvidence(g, Taken(g)) \/ RunLocalJob(g, Taken(g))
    BY <1>8 DEF HandleGoalSuccess
  <2>3. Kept(Taken(g)) /\ NoneAsks /\ Told(g) /\ Alone(g)
    BY <1>0, <1>5, <2>2, CheckEvidenceTells, RunLocalJobTells
  <2>4. Goal
    BY <1>3, <2>1, <2>3
  <2>. QED  BY <1>0, <2>4 DEF Alone
<1>9. CASE HandleJobRunSuccess(g)
  <2>1. UNCHANGED <<asked, incarnation, listeners>> /\ m.type # "Satisfy"
    BY <1>9 DEF HandleJobRunSuccess, Received
  <2>2. Kept(Taken(g)) /\ NoneAsks /\ Told(g) /\ Alone(g)
    BY <1>4, <1>9, <2>1 DEF HandleJobRunSuccess
  <2>3. Goal
    BY <1>3, <2>1, <2>2
  <2>. QED  BY <1>0, <2>3 DEF Alone
<1>10. CASE HandleJobRunFailed(g)
  <2>1. UNCHANGED <<asked, incarnation, listeners>> /\ m.type # "Satisfy"
    BY <1>10 DEF HandleJobRunFailed, Received
  <2>2. Kept(Taken(g)) /\ NoneAsks /\ Told(g) /\ Alone(g)
    BY <1>4, <1>10, <2>1 DEF HandleJobRunFailed
  <2>3. Goal
    BY <1>3, <2>1, <2>2
  <2>. QED  BY <1>0, <2>3 DEF Alone
<1>11. CASE HandleRestartJob(g)
  <2>1. UNCHANGED <<asked, incarnation, listeners>> /\ m.type # "Satisfy"
    BY <1>11 DEF HandleRestartJob, Received
  <2>2. ASSUME state' = [state EXCEPT ![g] = "WaitingOnDependencies"],
               Quiet(Taken(g))
        PROVE  Kept(Taken(g)) /\ NoneAsks /\ Told(g) /\ Alone(g)
    BY <2>2, QuietKeeps DEF Told, Alone, TypeOK, ProverTypeOK, Undecided, Unfinished
  <2>3. Kept(Taken(g)) /\ NoneAsks /\ Told(g) /\ Alone(g)
    <3>1. CASE RunLocalJob(g, Taken(g))
      BY <1>0, <3>1, RunLocalJobTells
    <3>2. CASE UNCHANGED state /\ Quiet(Taken(g))
      BY <1>5, <3>2
    <3>. QED  BY <1>11, <2>2, <3>1, <3>2 DEF HandleRestartJob
  <2>4. Goal
    BY <1>3, <2>1, <2>3
  <2>. QED  BY <1>0, <2>4 DEF Alone
<1>12. CASE HandleAbort(g)
  <2>1. UNCHANGED <<asked, incarnation, listeners>> /\ m.type # "Satisfy"
    BY <1>12 DEF HandleAbort, Received
  <2>2. Told(g) /\ Alone(g)
    <3>1. UNCHANGED state \/ state' = [state EXCEPT ![g] = "Aborted"]
      BY <1>12 DEF HandleAbort
    <3>. QED
      BY <3>1 DEF Told, Alone, TypeOK, ProverTypeOK, Undecided
  <2>3. Kept(Taken(g)) /\ NoneAsks
    <3>. DEFINE self == [Taken(g) EXCEPT ![g] = Append(@, UnexpectedMsg)]
                some(T) == [h \in Goals |-> IF h \in T
                                            THEN Append(Taken(g)[h], UnexpectedMsg)
                                            ELSE Taken(g)[h]]
    <3>1. Quiet(Taken(g)) \/ Quiet(self) \/ \E T : Quiet(some(T))
      <4>. HIDE DEF Quiet
      <4>. QED  BY <1>12 DEF HandleAbort
    <3>2. self = some({g})
      BY <1>0
    <3>3. CASE Quiet(Taken(g))
      BY <3>3, QuietKeeps
    <3>4. ASSUME NEW T, Quiet(some(T))
          PROVE  Kept(Taken(g)) /\ NoneAsks
      <4>1. NoneAsks
        <5>. HIDE DEF some
        <5>. QED  BY <3>4, QuietKeeps
      <4>2. mailbox' = some(T)
        BY <3>4 DEF Quiet
      <4>3. ASSUME NEW h \in Goals, NEW i \in 1..Len(Taken(g)[h])
            PROVE  i \in 1..Len(mailbox'[h]) /\ mailbox'[h][i] = Taken(g)[h][i]
        <5>1. Taken(g)[h] \in Seq(Message)
          BY <1>0
        <5>2. mailbox'[h] \in {Taken(g)[h], Append(Taken(g)[h], UnexpectedMsg)}
          BY <4>2
        <5>. QED  BY <5>1, <5>2
      <4>. QED  BY <4>1, <4>3 DEF Kept
    <3>. HIDE DEF self, some
    <3>. QED  BY <3>1, <3>2, <3>3, <3>4
  <2>4. Goal
    BY <1>3, <2>1, <2>2, <2>3
  <2>. QED  BY <1>0, <2>4 DEF Alone
<1>13. CASE HandleUnexpected(g)
  <2>1. UNCHANGED <<state, asked, incarnation, listeners>> /\ m.type # "Satisfy"
        /\ Quiet(Taken(g))
    BY <1>13 DEF HandleUnexpected, Received, proverVars
  <2>2. Goal
    BY <1>3, <1>5, <2>1
  <2>. QED  BY <1>0, <2>2 DEF Alone
<1>14. CASE HandleGoalSuccessThrows(g) \/ HandleAbortThrows(g)
  <2>1. Restart(g) /\ UNCHANGED asked
    BY <1>14 DEF HandleGoalSuccessThrows, HandleAbortThrows
  <2>2. Kept(Taken(g)) /\ NoneAsks
    BY <2>1, QuietKeeps DEF Restart
  <2>3. /\ \A h \in Goals \ {g} : /\ state'[h] = state[h]
                                  /\ listeners'[h] = listeners[h]
                                  /\ incarnation'[h] = incarnation[h]
        /\ incarnation'[g] = incarnation[g] + 1
    BY <2>1 DEF Restart, TypeOK, ProverTypeOK
  <2>4. incarnation'[g] > 0
    BY <2>3 DEF TypeOK, ProverTypeOK
  <2>. QED  BY <1>0, <2>1, <2>2, <2>3, <2>4
<1>. QED
  BY <1>1, <1>2, <1>6, <1>7, <1>8, <1>9, <1>10, <1>11, <1>12, <1>13, <1>14
  DEF ProverReceive

\* What NoLostReply says of a client that waits.
Owed(c) ==
  \/ SatisfyQueued(c, asked[c])
  \/ c \in listeners[asked[c]] /\ Unpublished(asked[c])
  \/ incarnation[asked[c]] > 0

\* The same of the goal it asked for, before a step and after it.
LEMMA OwedBy ==
  ASSUME NEW c \in Clients, NEW h
  PROVE  /\ /\ asked'[c] = h
            /\ \/ SatisfyQueued(c, h)'
               \/ c \in listeners'[h] /\ Unpublished(h)'
               \/ incarnation'[h] > 0
            => Owed(c)'
         /\ NoLostReply /\ reply[c] = "waiting" /\ asked[c] = h
            => \/ SatisfyQueued(c, h)
               \/ c \in listeners[h] /\ Unpublished(h)
               \/ incarnation[h] > 0
  BY DEF Owed, NoLostReply, SatisfyQueued, Unpublished

\* Whoever is owed an answer by a prover that handles a message still is.
LEMMA ProverOwes ==
  ASSUME TypeOK, NoLostReply, NEW g \in Goals, ProverReceive(g)
  PROVE  NoLostReply'
<1>. DEFINE m == Head(mailbox[g])
<1>. SUFFICES ASSUME NEW c \in Clients, reply'[c] = "waiting"
              PROVE  Owed(c)'
  BY DEF NoLostReply, Owed
<1>. PICK h \in Goals : h = asked[c]
  BY ProverHeeds DEF NoneAsks, TypeOK, ClientTypeOK
<1>1. reply[c] = "waiting" /\ asked'[c] = h
  BY ProverHeeds DEF NoneAsks
<1>2. CASE h # g
  <2>1. /\ state'[h] = state[h] /\ listeners'[h] = listeners[h]
        /\ incarnation'[h] = incarnation[h]
    BY <1>1, <1>2, ProverHeeds
  <2>2. SatisfyQueued(c, h) => SatisfyQueued(c, h)'
    BY <1>1, <1>2, ProverHeeds, SatisfyStays
  <2>. QED  BY <1>1, <2>1, <2>2, OwedBy DEF Unpublished
<1>3. CASE h = g /\ incarnation'[g] = incarnation[g] /\ Heeded(g)
  <2>1. CASE m.type = "Satisfy" /\ m.from = c
    BY <1>1, <1>3, <2>1, OwedBy DEF Heeded, Unpublished
  <2>2. CASE ~(m.type = "Satisfy" /\ m.from = c)
    <3>1. SatisfyQueued(c, h) => SatisfyQueued(c, h)'
      BY <1>1, <1>3, <2>2, ProverHeeds, SatisfyStays
    <3>2. c \in listeners[h] /\ Unpublished(h)
            => c \in listeners'[h] /\ Unpublished(h)'
      BY <1>3 DEF Heeded, Unpublished
    <3>. QED  BY <1>1, <1>3, <3>1, <3>2, OwedBy
  <2>. QED  BY <2>1, <2>2
<1>4. CASE h = g /\ incarnation'[g] > 0
  BY <1>1, <1>4, OwedBy
<1>. QED  BY <1>2, <1>3, <1>4, ProverHeeds

\* A step that leaves the provers alone and only adds messages.
LEMMA OthersOwe ==
  ASSUME TypeOK, NoLostReply, UNCHANGED proverVars, Kept(mailbox),
         UNCHANGED <<reply, asked>>
  PROVE  NoLostReply'
<1>. SUFFICES ASSUME NEW c \in Clients, reply'[c] = "waiting"
              PROVE  Owed(c)'
  BY DEF NoLostReply, Owed
<1>. PICK h \in Goals : h = asked[c]
  BY DEF TypeOK, ClientTypeOK
<1>1. SatisfyQueued(c, h) => SatisfyQueued(c, h)'
  BY DEF Kept, SatisfyQueued
<1>. QED  BY <1>1, OwedBy DEF proverVars, Unpublished

\* One more message in a mailbox moves none.
LEMMA AppendKeeps ==
  ASSUME TypeOK, NEW g \in Goals, NEW m \in Message,
         mailbox' = [mailbox EXCEPT ![g] = Append(@, m)]
  PROVE  Kept(mailbox)
<1>. SUFFICES ASSUME NEW h \in Goals, NEW i \in 1..Len(mailbox[h])
              PROVE  i \in 1..Len(mailbox'[h]) /\ mailbox'[h][i] = mailbox[h][i]
  BY DEF Kept
<1>1. mailbox[h] \in Seq(Message)
  BY DEF TypeOK, BoxTypeOK
<1>2. mailbox'[h] \in {mailbox[h], Append(mailbox[h], m)}
  BY DEF TypeOK, BoxTypeOK
<1>. QED  BY <1>1, <1>2

\* Jobs, checks, retries and aborts lose no one's reply.
LEMMA ActorsOwe ==
  ASSUME TypeOK, NoLostReply, NEW g \in Goals,
         \/ JobRunnerStep(g) \/ EvidenceCheckerStep(g) \/ RetryAgentStep(g)
         \/ AbortGoal(g) \/ RestartGoal(g)
  PROVE  NoLostReply'
<1>. USE DEF boxVars, clientVars, Deliver, Quiet
<1>1. ASSUME UNCHANGED mailbox PROVE Kept(mailbox)
  BY <1>1 DEF Kept
<1>2. CASE JobRunnerStep(g)
  <2>1. UNCHANGED <<proverVars, reply, asked>>
    BY <1>2 DEF JobRunnerStep, RunnerSatisfy, RunnerAbort, RunnerFinish, Finish,
       JobCompletes, OrphanCompletes, Report
  <2>2. \/ UNCHANGED mailbox
        \/ \E t \in {"JobRunSuccess", "JobRunFailed"} :
             mailbox' = [mailbox EXCEPT ![g] = Append(@, JobMsg(t))]
    BY <1>2 DEF JobRunnerStep, RunnerSatisfy, RunnerAbort, RunnerFinish, Finish,
       JobCompletes, OrphanCompletes, Report
  <2>3. Kept(mailbox)
    BY <1>1, <2>2, AppendKeeps, MessageTyped
  <2>. QED  BY <2>1, <2>3, OthersOwe
<1>3. CASE EvidenceCheckerStep(g)
  <2>1. ASSUME NEW id \in probes[g], NEW o \in CheckOutcomes, CheckCompletes(g, id, o)
        PROVE  UNCHANGED <<proverVars, reply, asked>> /\ Kept(mailbox)
    <3>1. id \in Nat
      BY DEF TypeOK, CheckerTypeOK
    <3>2. \E m \in Message : mailbox' = [mailbox EXCEPT ![g] = Append(@, m)]
      BY <2>1, <3>1, MessageTyped DEF CheckCompletes
    <3>. QED  BY <2>1, <3>2, AppendKeeps DEF CheckCompletes
  <2>2. ASSUME NEW id, CheckAgain(g, id)
        PROVE  UNCHANGED <<proverVars, reply, asked>> /\ Kept(mailbox)
    BY <1>1, <2>2 DEF CheckAgain
  <2>. QED  BY <1>3, <2>1, <2>2, OthersOwe DEF EvidenceCheckerStep
<1>4. CASE RetryAgentStep(g)
  <2>1. UNCHANGED <<proverVars, reply, asked>>
    BY <1>4 DEF RetryAgentStep, AgentGoalFailure, AgentGoalSuccess, RestartTimer
  <2>2. \/ UNCHANGED mailbox
        \/ mailbox' = [mailbox EXCEPT ![g] = Append(@, RestartMsg)]
    BY <1>4 DEF RetryAgentStep, AgentGoalFailure, AgentGoalSuccess, RestartTimer
  <2>3. Kept(mailbox)
    BY <1>1, <2>2, AppendKeeps, MessageTyped
  <2>. QED  BY <2>1, <2>3, OthersOwe
<1>5. CASE AbortGoal(g) \/ RestartGoal(g)
  <2>1. UNCHANGED <<proverVars, reply, asked>>
    BY <1>5 DEF AbortGoal, RestartGoal
  <2>2. \E m \in Message : mailbox' = [mailbox EXCEPT ![g] = Append(@, m)]
    BY <1>5, MessageTyped DEF AbortGoal, RestartGoal
  <2>. QED  BY <2>1, <2>2, AppendKeeps, OthersOwe
<1>. QED  BY <1>2, <1>3, <1>4, <1>5

\* Who asks is queued; who asked before is owed as much as before.
LEMMA SatisfyGoalOwes ==
  ASSUME TypeOK, NoLostReply, NEW d \in Clients, NEW g \in Goals, SatisfyGoal(d, g)
  PROVE  NoLostReply'
<1>1. PICK f \in ForceModes :
        mailbox' = [mailbox EXCEPT ![g] = Append(@, SatisfyMsg(d, f))]
  BY DEF SatisfyGoal
<1>2. SatisfyMsg(d, f) \in Message
  BY MessageTyped, BoundsType DEF Requesters
<1>3. Kept(mailbox)
  BY <1>1, <1>2, AppendKeeps
<1>. SUFFICES ASSUME NEW c \in Clients, reply'[c] = "waiting"
              PROVE  Owed(c)'
  BY DEF NoLostReply, Owed
<1>4. CASE c = d
  <2>1. asked'[c] = g
    BY <1>4 DEF SatisfyGoal, TypeOK, ClientTypeOK
  <2>2. mailbox[g] \in Seq(Message)
    BY DEF TypeOK, BoxTypeOK
  <2>3. mailbox'[g] = Append(mailbox[g], SatisfyMsg(d, f))
    BY <1>1 DEF TypeOK, BoxTypeOK
  <2>4. /\ Len(mailbox'[g]) \in 1..Len(mailbox'[g])
        /\ mailbox'[g][Len(mailbox'[g])] = SatisfyMsg(d, f)
    BY <1>2, <2>2, <2>3
  <2>5. SatisfyQueued(c, g)'
    BY <1>4, <2>4 DEF SatisfyQueued, SatisfyMsg
  <2>. QED  BY <2>1, <2>5, OwedBy
<1>5. CASE c # d
  <2>1. asked'[c] = asked[c] /\ reply[c] = "waiting" /\ UNCHANGED proverVars
    BY <1>5 DEF SatisfyGoal, TypeOK, ClientTypeOK, BoxTypeOK
  <2>2. PICK h \in Goals : h = asked[c]
    BY <2>1 DEF TypeOK, ClientTypeOK
  <2>3. SatisfyQueued(c, h) => SatisfyQueued(c, h)'
    BY <1>3 DEF Kept, SatisfyQueued
  <2>. QED  BY <2>1, <2>2, <2>3, OwedBy DEF proverVars, Unpublished
<1>. QED  BY <1>4, <1>5

\* Asking for a goal's status moves no message and no listener; the goal it fails
\* has told nobody.
LEMMA WhatsYourStatusOwes ==
  ASSUME TypeOK, NoLostReply, NEW g \in Goals, WhatsYourStatus(g)
  PROVE  NoLostReply'
<1>. SUFFICES ASSUME NEW c \in Clients, reply'[c] = "waiting"
              PROVE  Owed(c)'
  BY DEF NoLostReply, Owed
<1>1. UNCHANGED <<listeners, incarnation, mailbox, reply, asked>>
  BY DEF WhatsYourStatus, boxVars, clientVars
<1>2. \A h \in Goals : Unpublished(h) => Unpublished(h)'
  BY DEF WhatsYourStatus, WhatsYourStatusThrows, ChildStatusArrives, Unpublished,
     MarkUnexpected, TypeOK, ProverTypeOK
<1>3. PICK h \in Goals : h = asked[c]
  BY <1>1 DEF TypeOK, ClientTypeOK
<1>4. SatisfyQueued(c, h) => SatisfyQueued(c, h)'
  BY <1>1 DEF SatisfyQueued
<1>. QED  BY <1>1, <1>2, <1>3, <1>4, OwedBy

\* A waiting client is still to be heard by the goal it asked for, or is one of
\* the listeners of a goal that has not come to its end, for any goals, any
\* dependencies and any interleaving of requests, jobs, checks, retries and
\* aborts; only a prover that Akka has restarted forgets its listeners.
THEOREM ReplyNeverLost == Spec => []NoLostReply
<1>1. Init => NoLostReply
  BY DEF Init, NoLostReply
<1>2. TypeOK /\ NoLostReply /\ [Next]_vars => NoLostReply'
  <2>. SUFFICES ASSUME TypeOK, NoLostReply, [Next]_vars PROVE NoLostReply'
    OBVIOUS
  <2>1. CASE UNCHANGED vars
    BY <2>1, OthersOwe DEF vars, boxVars, clientVars, Kept
  <2>2. CASE Next
    BY <2>2, ProverOwes, ActorsOwe, SatisfyGoalOwes, WhatsYourStatusOwes DEF Next
  <2>. QED  BY <2>1, <2>2
<1>. QED  BY <1>1, <1>2, TypeCorrect, PTL DEF Spec
=============================================================================
